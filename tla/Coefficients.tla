---------------------------- MODULE Coefficients ----------------------------
(***************************************************************************)
(* The coefficients of the pricing formulas and the rows that mention them *)
(* by key: the formulas of a pricing rule (rules.service.ts) and the price *)
(* of an option (options.service.ts).  The schema has no foreign key       *)
(* between them; what keeps a mentioned key alive is row locks.  A request *)
(* that stores keys selects their rows FOR SHARE in the transaction that   *)
(* writes it, a request that renames or deletes a coefficient selects its  *)
(* row FOR UPDATE and then looks for users (coefficients.service.ts).  The *)
(* sandbox reset replaces all three tables in a transaction of its own     *)
(* (pricing-dataset.service.ts, catalog-dataset.service.ts) and takes part *)
(* in none of this beyond the row locks of its deletes.                    *)
(*                                                                         *)
(* Every transaction runs at READ COMMITTED: a statement sees what is      *)
(* committed when it starts, and re-reads a row it had to wait for.        *)
(***************************************************************************)
EXTENDS Naturals, FiniteSets

CONSTANTS
    Requests,      \* requests of the administrators
    Operations,    \* the operations each request may ask for, see Operation
    Keys,          \* coefficient keys
    Slots,         \* what a rule is for (a category, a material type, a surface)
    SeedKeys,      \* the coefficients of the dataset
    SeedRules,     \* the rules of the dataset: a function from slots to formulas
    SeedOptions    \* the options of the dataset: a function from names to keys

\* A rule of level OBJECT may be stored more than once.
Object == "object"

\* The keys each formula of a rule mentions; the text is of no matter here.
Formulas == [cost : SUBSET Keys, labor : SUBSET Keys]

\* A patch names the fields it changes: "cost" and "labor" of a rule.
Patches == Formulas \cup [cost : SUBSET Keys] \cup [labor : SUBSET Keys]

Operation ==
    [name : {"createRule"}, slot : Slots \cup {Object}, patch : Formulas]
    \cup [name : {"updateRule"}, patch : Patches]
    \cup [name : {"createOption", "updateOption"}, keys : SUBSET Keys]
    \cup [name : {"createCoefficient", "renameCoefficient"}, key : Keys]
    \cup [name : {"removeRule", "patchOption", "removeOption",
                  "changeCoefficient", "removeCoefficient"}]

ASSUME OperationsAssumption == Operations \in [Requests -> SUBSET Operation]

\* What a request makes bears its name; the dataset's marks are none of theirs.
ASSUME RequestNames == {"seed", "reset"} \cap Requests = {}

\* What the schema of the dataset asks for, and its options besides.
SeedValid ==
    /\ SeedKeys \subseteq Keys
    /\ DOMAIN SeedRules \subseteq Slots \cup {Object}
    /\ \A slot \in DOMAIN SeedRules :
          /\ SeedRules[slot] \in Formulas
          /\ SeedRules[slot].cost \cup SeedRules[slot].labor \subseteq SeedKeys
    /\ \A name \in DOMAIN SeedOptions : SeedOptions[name] \subseteq SeedKeys

ASSUME SeedAssumption == SeedValid

VARIABLES
    coefficients,  \* committed rows [id, key, rev]
    rules,         \* committed rows [id, slot, cost, labor, rev]
    options,       \* committed rows [id, keys, rev]
    req,           \* the requests: operation, place, transaction state, answer
    reset          \* the transaction of the sandbox reset

vars == <<coefficients, rules, options, req, reset>>

-----------------------------------------------------------------------------
(* The dataset.  The ids of its rules and options are written in it, those *)
(* of its coefficients are new each time; so are all the revisions.        *)

SeedCoefficientRows(time) ==
    {[id |-> <<"coefficient", time, k>>, key |-> k, rev |-> time] :
        k \in SeedKeys}
SeedRuleRows(time) ==
    {[id |-> <<"rule", "seed", slot>>, slot |-> slot,
      cost |-> SeedRules[slot].cost, labor |-> SeedRules[slot].labor,
      rev |-> time] : slot \in DOMAIN SeedRules}
SeedOptionRows(time) ==
    {[id |-> <<"option", "seed", name>>, keys |-> SeedOptions[name],
      rev |-> time] : name \in DOMAIN SeedOptions}

RuleKeys(r) == r.cost \cup r.labor
Users(key) == {r \in rules : key \in RuleKeys(r)}
                 \cup {o \in options : key \in o.keys}

-----------------------------------------------------------------------------
(* Requests and their locks.                                               *)

RuleSave == {"createRule", "updateRule"}
OptionSave == {"createOption", "updateOption", "patchOption"}
CoefficientEdit ==
    {"changeCoefficient", "renameCoefficient", "removeCoefficient"}
Targeted == CoefficientEdit
               \cup {"updateRule", "removeRule", "updateOption", "patchOption",
                     "removeOption"}

NoRow == [id |-> "none"]

Fresh(o) == [op |-> o, at |-> "form", target |-> NoRow, row |-> NoRow,
             keys |-> {}, want |-> {}, share |-> {}, excl |-> {}]

\* The rows of the table an operation is about.
TableOf(name) ==
    CASE name \in RuleSave \cup {"removeRule"} -> rules
      [] name \in OptionSave \cup {"removeOption"} -> options
      [] OTHER -> coefficients

Name(q) == req[q].op.name

\* Rows another transaction has deleted or locked for update.
ExclusiveElsewhere(q) ==
    reset.gone \cup UNION {req[p].excl : p \in Requests \ {q}}
\* Mutant: the saves select without FOR SHARE.
NothingShared(q) == {}

SharedElsewhere(q) == UNION {req[p].share : p \in Requests \ {q}}

\* The request ends with an answer: its transaction is over, its locks are free.
Ends(q, answer) ==
    req' = [req EXCEPT ![q].at = answer, ![q].want = {}, ![q].share = {},
                       ![q].excl = {}]

Moves(q, place) == req' = [req EXCEPT ![q].at = place]

Answers == {"ok", "refused", "notFound", "stale", "invalid", "taken", "inUse",
            "failed"}
Ended(q) == req[q].at \in Answers

\* Rows written while the reset's transaction is open are remembered.
Wrote(ids) ==
    reset' = IF reset.at \in {"idle", "done", "failed"} THEN reset
             ELSE [reset EXCEPT !.late = @ \cup ids]

-----------------------------------------------------------------------------
TypeOK ==
    /\ \A c \in coefficients : c.key \in Keys
    /\ \A r \in rules : /\ r.slot \in Slots \cup {Object}
                        /\ RuleKeys(r) \subseteq Keys
    /\ \A o \in options : o.keys \subseteq Keys
    /\ \A q \in Requests :
          /\ req[q].op \in Operations[q]
          /\ req[q].at \in {"form", "begin", "select", "lock", "check", "write"}
                              \cup Answers
          /\ req[q].keys \subseteq Keys
    /\ reset.at \in {"idle", "options", "rules", "coefficients", "insert",
                     "done", "failed"}
    /\ \A c, d \in coefficients : c.key = d.key => c = d
    /\ \A r, s \in rules : r.slot = s.slot /\ r.slot # Object => r = s

Init ==
    /\ coefficients = SeedCoefficientRows("seed")
    /\ rules = SeedRuleRows("seed")
    /\ options = SeedOptionRows("seed")
    /\ \E op \in [Requests -> UNION {Operations[q] : q \in Requests}] :
          /\ \A q \in Requests : op[q] \in Operations[q]
          /\ req = [q \in Requests |-> Fresh(op[q])]
    /\ reset = [at |-> "idle", want |-> {}, gone |-> {}, late |-> {}]

\* The administrator opens the row, fills in the form and sends it: an edit
\* carries the revision that was current then.
Submit(q) ==
    /\ req[q].at = "form"
    /\ IF Name(q) \in Targeted
       THEN \E row \in TableOf(Name(q)) :
               req' = [req EXCEPT ![q].at = "begin", ![q].target = row]
       ELSE Moves(q, "begin")
    /\ UNCHANGED <<coefficients, rules, options, reset>>

\* The checks before the transaction only read: shape, references, a formula
\* checked against cached coefficients, a zero price.  Any of them may refuse.
Refuse(q) ==
    /\ req[q].at = "begin"
    /\ Name(q) \in RuleSave \cup OptionSave
    /\ Ends(q, "refused")
    /\ UNCHANGED <<coefficients, rules, options, reset>>

\* What a patch leaves out is taken from the row that was read.
Patched(row, patch) ==
    [row EXCEPT !.cost = IF "cost" \in DOMAIN patch THEN patch.cost ELSE @,
                !.labor = IF "labor" \in DOMAIN patch THEN patch.labor ELSE @]

RowsWithId(table, id) == {row \in table : row.id = id}

Prepared(q, row) ==
    req' = [req EXCEPT ![q].at = "select", ![q].row = row,
                       ![q].keys = RuleKeys(row)]

BeginCreateRule(q) ==
    /\ req[q].at = "begin" /\ Name(q) = "createRule"
    /\ LET op == req[q].op
       IN  IF op.slot # Object /\ \E r \in rules : r.slot = op.slot
           THEN Ends(q, "taken")
           ELSE Prepared(q, [id |-> <<"rule", q, op.slot>>, slot |-> op.slot,
                             cost |-> op.patch.cost, labor |-> op.patch.labor,
                             rev |-> q])
    /\ UNCHANGED <<coefficients, rules, options, reset>>

BeginUpdateRule(q) ==
    /\ req[q].at = "begin" /\ Name(q) = "updateRule"
    /\ LET existing == RowsWithId(rules, req[q].target.id)
       IN  IF existing = {}
           THEN Ends(q, "notFound")
           ELSE \E row \in existing :
                   Prepared(q, [Patched(row, req[q].op.patch) EXCEPT !.rev = q])
    /\ UNCHANGED <<coefficients, rules, options, reset>>

\* An option is patched column by column, so only its keys matter; the
\* revision is compared early, and again by the write.
BeginOption(q) ==
    /\ req[q].at = "begin"
    /\ Name(q) \in OptionSave
    /\ LET op == req[q].op
           existing == RowsWithId(options, req[q].target.id)
       IN  \/ /\ op.name = "createOption"
              /\ req' = [req EXCEPT ![q].at = "select", ![q].keys = op.keys,
                                    ![q].row = [id |-> <<"option", q, q>>,
                                                keys |-> op.keys, rev |-> q]]
           \/ /\ op.name # "createOption" /\ existing = {}
              /\ Ends(q, "notFound")
           \/ /\ existing # {} /\ req[q].target \notin existing
              /\ Ends(q, "stale")
           \/ /\ op.name = "updateOption" /\ req[q].target \in existing
              /\ req' = [req EXCEPT ![q].at = "select", ![q].keys = op.keys,
                                    ![q].row = [req[q].target EXCEPT
                                                   !.keys = op.keys, !.rev = q]]
           \/ /\ op.name = "patchOption" /\ req[q].target \in existing
              /\ req' = [req EXCEPT ![q].at = "lock",
                                    ![q].row = [req[q].target EXCEPT !.rev = q]]
    /\ UNCHANGED <<coefficients, rules, options, reset>>

\* SELECT ... WHERE key = ANY(keys) FOR SHARE: the statement takes its snapshot.
SelectForShare(q) ==
    /\ req[q].at = "select"
    /\ req' = [req EXCEPT ![q].at = "lock",
                          ![q].want = {c.id : c \in {c \in coefficients :
                                                        c.key \in req[q].keys}}]
    /\ UNCHANGED <<coefficients, rules, options, reset>>

\* ... and locks row after row; a row it had to wait for is read again, and
\* left out when it is gone or has another key by now.
LockForShare(q) ==
    /\ req[q].at = "lock"
    /\ \E id \in req[q].want \ ExclusiveElsewhere(q) :
          LET matches == {c \in coefficients : /\ c.id = id
                                               /\ c.key \in req[q].keys}
          IN  req' = [req EXCEPT ![q].want = @ \ {id},
                                 ![q].share = @ \cup {c.id : c \in matches}]
    /\ UNCHANGED <<coefficients, rules, options, reset>>

\* Every row of the select is locked or left out.
Selected(q) == req[q].at = "lock" /\ req[q].want = {}

LockedKeys(q) == {c.key : c \in {c \in coefficients : c.id \in req[q].share}}
KeyMissing(q) == ~ (req[q].keys \subseteq LockedKeys(q))

\* Mutant: the write does not compare the revision.
Present(q) == {row \in TableOf(Name(q)) : row.id = req[q].target.id}

\* The row an edit replaces, if it still has the revision the form was made for.
Current(q) == {row \in TableOf(Name(q)) : /\ row.id = req[q].target.id
                                          /\ row.rev = req[q].target.rev}

\* Rows the reset has deleted and not committed: a write of such a row, and an
\* insert of its unique key, waits for the end of the reset.
Awaited(q, table) == {row \in table : row.id \in reset.gone}

NoKeyFound(q) ==
    /\ Name(q) \in RuleSave \cup OptionSave
    /\ Selected(q)
    /\ KeyMissing(q)
    /\ Ends(q, "invalid")
    /\ UNCHANGED <<coefficients, rules, options, reset>>

\* The missing row is told apart from the changed one by a read that follows.
NotCurrent(q) ==
    IF RowsWithId(TableOf(Name(q)), req[q].target.id) = {}
    THEN "notFound" ELSE "stale"

InsertRule(q) ==
    /\ Name(q) = "createRule"
    /\ Selected(q) /\ ~ KeyMissing(q)
    /\ LET slot == req[q].op.slot
           same == {r \in rules : slot # Object /\ r.slot = slot}
       IN  /\ same \cap Awaited(q, rules) = {}
           /\ IF same # {}
              THEN Ends(q, "taken") /\ UNCHANGED <<rules, reset>>
              ELSE /\ rules' = rules \cup {req[q].row}
                   /\ Ends(q, "ok")
                   /\ Wrote({req[q].row.id})
    /\ UNCHANGED <<coefficients, options>>

UpdateRule(q) ==
    /\ Name(q) = "updateRule"
    /\ Selected(q) /\ ~ KeyMissing(q)
    /\ req[q].target.id \notin reset.gone
    /\ IF Current(q) = {}
       THEN Ends(q, NotCurrent(q)) /\ UNCHANGED <<rules, reset>>
       ELSE /\ rules' = (rules \ Current(q)) \cup {req[q].row}
            /\ Ends(q, "ok")
            /\ Wrote({req[q].row.id})
    /\ UNCHANGED <<coefficients, options>>

InsertOption(q) ==
    /\ Name(q) = "createOption"
    /\ Selected(q) /\ ~ KeyMissing(q)
    /\ options' = options \cup {req[q].row}
    /\ Ends(q, "ok")
    /\ Wrote({req[q].row.id})
    /\ UNCHANGED <<coefficients, rules>>

UpdateOption(q) ==
    /\ Name(q) \in {"updateOption", "patchOption"}
    /\ Selected(q) /\ ~ KeyMissing(q)
    /\ req[q].target.id \notin reset.gone
    /\ IF Current(q) = {}
       THEN Ends(q, NotCurrent(q)) /\ UNCHANGED <<options, reset>>
       ELSE /\ options' = (options \ Current(q)) \cup {req[q].row}
            /\ Ends(q, "ok")
            /\ Wrote({req[q].row.id})
    /\ UNCHANGED <<coefficients, rules>>

RemoveRule(q) ==
    /\ req[q].at = "begin" /\ Name(q) = "removeRule"
    /\ req[q].target.id \notin reset.gone
    /\ LET found == RowsWithId(rules, req[q].target.id)
       IN  /\ rules' = rules \ found
           /\ Ends(q, IF found = {} THEN "notFound" ELSE "ok")
    /\ UNCHANGED <<coefficients, options, reset>>

RemoveOption(q) ==
    /\ req[q].at = "begin" /\ Name(q) = "removeOption"
    /\ req[q].target.id \notin reset.gone
    /\ LET found == RowsWithId(options, req[q].target.id)
       IN  /\ options' = options \ found
           /\ Ends(q, IF found = {} THEN "notFound" ELSE "ok")
    /\ UNCHANGED <<coefficients, rules, reset>>

CreateCoefficient(q) ==
    /\ req[q].at = "begin" /\ Name(q) = "createCoefficient"
    /\ LET key == req[q].op.key
           row == [id |-> <<"coefficient", q, key>>, key |-> key, rev |-> q]
           same == {c \in coefficients : c.key = key}
       IN  /\ same \cap Awaited(q, coefficients) = {}
           /\ IF same # {}
              THEN Ends(q, "taken") /\ UNCHANGED <<coefficients, reset>>
              ELSE /\ coefficients' = coefficients \cup {row}
                   /\ Ends(q, "ok")
                   /\ Wrote({row.id})
    /\ UNCHANGED <<rules, options>>

\* SELECT ... WHERE id = ... FOR UPDATE waits for every other lock on the row.
LockForUpdate(q) ==
    /\ req[q].at = "begin" /\ Name(q) \in CoefficientEdit
    /\ req[q].target.id \notin ExclusiveElsewhere(q) \cup SharedElsewhere(q)
    /\ IF RowsWithId(coefficients, req[q].target.id) = {}
       THEN Ends(q, "notFound")
       ELSE req' = [req EXCEPT ![q].at = "check",
                               ![q].excl = {req[q].target.id}]
    /\ UNCHANGED <<coefficients, rules, options, reset>>

\* A rename and a delete look for users of the key the locked row has now.
CheckUnused(q) ==
    /\ req[q].at = "check"
    /\ \E row \in RowsWithId(coefficients, req[q].target.id) :
          LET op == req[q].op
              leavesKey == \/ op.name = "removeCoefficient"
                           \/ op.name = "renameCoefficient" /\ op.key # row.key
          IN  IF op.name # "removeCoefficient" /\ row.rev # req[q].target.rev
              THEN Ends(q, "stale")
              ELSE IF leavesKey /\ Users(row.key) # {}
                   THEN Ends(q, "inUse")
                   ELSE Moves(q, "write")
    /\ UNCHANGED <<coefficients, rules, options, reset>>

UpdateCoefficient(q) ==
    /\ req[q].at = "write"
    /\ Name(q) \in {"changeCoefficient", "renameCoefficient"}
    /\ \E row \in RowsWithId(coefficients, req[q].target.id) :
          LET key == IF Name(q) = "renameCoefficient" THEN req[q].op.key
                     ELSE row.key
              same == {c \in coefficients : c.key = key} \ {row}
          IN  /\ same \cap Awaited(q, coefficients) = {}
              /\ IF same # {}
                 THEN Ends(q, "taken") /\ UNCHANGED <<coefficients, reset>>
                 ELSE /\ coefficients' = (coefficients \ {row})
                            \cup {[row EXCEPT !.key = key, !.rev = q]}
                      /\ Ends(q, "ok")
                      /\ Wrote({row.id})
    /\ UNCHANGED <<rules, options>>

RemoveCoefficient(q) ==
    /\ req[q].at = "write" /\ Name(q) = "removeCoefficient"
    /\ coefficients' = coefficients
                          \ RowsWithId(coefficients, req[q].target.id)
    /\ Ends(q, "ok")
    /\ UNCHANGED <<rules, options, reset>>

\* A transaction that fails or outlives its timeout is rolled back: a deadlock's
\* victim, a lost connection, a wait for the reset longer than the timeout.
InTransaction(q) ==
    \/ req[q].at \in {"select", "lock", "check", "write"}
    \/ req[q].at = "begin" /\ Name(q) \in CoefficientEdit

Expire(q) ==
    /\ InTransaction(q)
    /\ Ends(q, "failed")
    /\ UNCHANGED <<coefficients, rules, options, reset>>

-----------------------------------------------------------------------------
(* The reset: DELETE of the options, the rules and the coefficients, then  *)
(* the rows of the dataset.  Its statements see the rows committed when    *)
(* they start; what is committed later stays.                              *)

ResetStep(step) == /\ step
                   /\ UNCHANGED <<coefficients, rules, options, req>>

ResetStarts ==
    /\ reset.at = "idle"
    /\ ResetStep(reset' = [reset EXCEPT !.at = "options"])

\* Mutant: the reset forgets the options.
SkipOptions ==
    /\ reset.at = "options"
    /\ ResetStep(reset' = [reset EXCEPT !.at = "rules"])

DeleteOptions ==
    /\ reset.at = "options"
    /\ ResetStep(reset' = [reset EXCEPT !.at = "rules",
                              !.gone = @ \cup {o.id : o \in options}])

DeleteRules ==
    /\ reset.at = "rules"
    /\ ResetStep(reset' = [reset EXCEPT !.at = "coefficients",
                              !.gone = @ \cup {r.id : r \in rules},
                              !.want = {c.id : c \in coefficients}])

\* Coefficient rows may be locked by requests: the delete takes them one by one.
DeleteCoefficient ==
    /\ reset.at = "coefficients"
    /\ \E id \in reset.want :
          /\ \A q \in Requests : id \notin req[q].share \cup req[q].excl
          /\ ResetStep(reset' = [reset EXCEPT !.want = @ \ {id},
                 !.gone = @ \cup {c.id : c \in RowsWithId(coefficients, id)}])

CoefficientsDeleted ==
    /\ reset.at = "coefficients" /\ reset.want = {}
    /\ ResetStep(reset' = [reset EXCEPT !.at = "insert"])

Kept(table) == {row \in table : row.id \notin reset.gone}

\* Mutant: no unique index.
NoConflict == FALSE

\* A row that stays may hold a unique key or slot of the dataset.
Conflict ==
    \/ \E c \in Kept(coefficients) : c.key \in SeedKeys
    \/ \E r \in Kept(rules) : r.slot # Object /\ r.slot \in DOMAIN SeedRules

ResetCommits ==
    /\ reset.at = "insert" /\ ~ Conflict
    /\ coefficients' = Kept(coefficients) \cup SeedCoefficientRows("reset")
    /\ rules' = Kept(rules) \cup SeedRuleRows("reset")
    /\ options' = Kept(options) \cup SeedOptionRows("reset")
    /\ reset' = [reset EXCEPT !.at = "done", !.gone = {}]
    /\ UNCHANGED req

\* The insert hits a unique key, or the transaction fails or times out.
ResetFails ==
    /\ reset.at \in {"options", "rules", "coefficients", "insert"}
    /\ ResetStep(reset' = [reset EXCEPT !.at = "failed", !.want = {},
                                        !.gone = {}])

-----------------------------------------------------------------------------
RequestStep(q) ==
    \/ Refuse(q) \/ BeginCreateRule(q) \/ BeginUpdateRule(q) \/ BeginOption(q)
    \/ SelectForShare(q) \/ LockForShare(q) \/ NoKeyFound(q)
    \/ InsertRule(q) \/ UpdateRule(q) \/ InsertOption(q) \/ UpdateOption(q)
    \/ RemoveRule(q) \/ RemoveOption(q) \/ CreateCoefficient(q)
    \/ LockForUpdate(q) \/ CheckUnused(q)
    \/ UpdateCoefficient(q) \/ RemoveCoefficient(q)
    \/ Expire(q)

ResetNext == \/ DeleteOptions \/ DeleteRules \/ DeleteCoefficient
             \/ CoefficientsDeleted \/ ResetCommits \/ ResetFails

Next == \/ \E q \in Requests : Submit(q) \/ RequestStep(q)
        \/ ResetStarts \/ ResetNext

Spec == Init /\ [][Next]_vars

-----------------------------------------------------------------------------
(* Properties.                                                             *)

\* A coefficient that a formula or the price of an option mentions exists: no
\* calculation ever meets a key it cannot resolve (rules.service.ts and
\* coefficients.service.ts lock against each other).  The reset is the one
\* writer that does not look: a row saved while its transaction is open may
\* mention a coefficient that the reset removes.
UsedKeysExist ==
    LET known == {c.key : c \in coefficients}
    IN  /\ \A r \in rules : r.id \notin reset.late => RuleKeys(r) \subseteq known
        /\ \A o \in options : o.id \notin reset.late => o.keys \subseteq known

\* When the reset commits, the tables are the dataset again but for the rows
\* written while its transaction was open: whatever was committed before it
\* began is gone, edited dataset rows included.
ResetDiscards ==
    [][reset.at # "done" /\ reset'.at = "done" =>
          /\ coefficients' \ SeedCoefficientRows("reset")
                \subseteq {c \in coefficients : c.id \in reset.late}
          /\ rules' \ SeedRuleRows("reset")
                \subseteq {r \in rules : r.id \in reset.late}
          /\ options' \ SeedOptionRows("reset")
                \subseteq {o \in options : o.id \in reset.late}]_vars

\* No update is lost: an update of a rule rewrites every formula, those it was
\* not given from the row it read earlier, and still never undoes a change
\* that was committed in between.
NoLostUpdate ==
    [][\A q \in Requests : \A old \in rules, new \in rules' :
          old.id = new.id /\ new.rev = q /\ old.rev # q =>
             /\ "cost" \notin DOMAIN req[q].op.patch => new.cost = old.cost
             /\ "labor" \notin DOMAIN req[q].op.patch => new.labor = old.labor
      ]_vars
=============================================================================
