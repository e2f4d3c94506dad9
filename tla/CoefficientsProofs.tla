------------------------- MODULE CoefficientsProofs -------------------------
(***************************************************************************)
(* A mentioned coefficient exists, for any dataset, any keys and any       *)
(* number of administrators: the row locks of the saves, of the renames    *)
(* and of the deletes, and the order of the reset's statements, suffice.   *)
(* The reset leaves nothing behind that it should have removed; no update  *)
(* of a rule undoes another; and every row keeps its shape, a key its one  *)
(* coefficient and a slot its one rule.                                    *)
(***************************************************************************)
EXTENDS Coefficients, TLAPS

-----------------------------------------------------------------------------
(* The inductive invariant.                                                *)

IsCoefficient(c) == DOMAIN c = {"id", "key", "rev"} /\ c.id[1] = "coefficient"
IsRule(r) ==
    DOMAIN r = {"id", "slot", "cost", "labor", "rev"} /\ r.id[1] = "rule"
IsOption(o) == DOMAIN o = {"id", "keys", "rev"} /\ o.id[1] = "option"
IsRequest(r) ==
    DOMAIN r = {"op", "at", "target", "row", "keys", "want", "share", "excl"}

Shapes ==
    /\ DOMAIN req = Requests
    /\ \A q \in Requests : IsRequest(req[q])
    /\ DOMAIN reset = {"at", "want", "gone", "late"}

\* What bears the name of a request was written when that ended, and what bears
\* the mark of the reset was written when the reset committed.
Mark(x) == (x \in Requests => Ended(x)) /\ (x = "reset" => reset.at = "done")

RowsStand ==
    /\ \A c \in coefficients : IsCoefficient(c) /\ Mark(c.id[2])
    /\ \A r \in rules : IsRule(r)
    /\ \A o \in options : IsOption(o) /\ Mark(o.id[2]) /\ Mark(o.rev)
    /\ \A c, d \in coefficients : c.id = d.id \/ c.key = d.key => c = d
    /\ \A o, p \in options : o.id = p.id => o = p

\* A row locked for update exists, and the reset has not deleted it.
LocksStand(q) ==
    /\ req[q].excl \cap reset.gone = {}
    /\ \A id \in req[q].excl : \E c \in coefficients : c.id = id
    /\ req[q].at \in {"check", "write"} => req[q].excl = {req[q].target.id}

\* The keys a save has selected are those of the row it is to write; a patch of
\* an option selects none and leaves the keys of the option alone.
RowPrepared(q) ==
    req[q].at \in {"select", "lock"} =>
        /\ Name(q) \in RuleSave =>
              IsRule(req[q].row) /\ req[q].keys = RuleKeys(req[q].row)
        /\ Name(q) \in OptionSave => IsOption(req[q].row) /\ req[q].row.rev = q
        /\ Name(q) \in {"createOption", "updateOption"} =>
              req[q].keys = req[q].row.keys
        /\ Name(q) = "createOption" => req[q].row.id = <<"option", q, q>>
        /\ Name(q) \in {"updateOption", "patchOption"} =>
              req[q].row.id = req[q].target.id
        /\ Name(q) = "patchOption" => req[q].row.keys = req[q].target.keys

\* An option that still has the revision the form was made for has its keys.
TargetStands(q) ==
    req[q].at \in {"begin", "select", "lock"}
       /\ Name(q) \in {"updateOption", "patchOption"} =>
          /\ Mark(req[q].target.rev)
          /\ \A o \in options :
                o.id = req[q].target.id /\ o.rev = req[q].target.rev =>
                   o.keys = req[q].target.keys

LeavesKey(q, c) ==
    \/ Name(q) = "removeCoefficient"
    \/ Name(q) = "renameCoefficient" /\ req[q].op.key # c.key

\* Nobody has begun to use the key since the check found it unused.
StillUnused(q) ==
    req[q].at = "write" =>
        \A c \in coefficients :
            c.id = req[q].target.id /\ LeavesKey(q, c) => Users(c.key) = {}

RequestStands(q) ==
    LocksStand(q) /\ RowPrepared(q) /\ TargetStands(q) /\ StillUnused(q)

\* A row locked for update is locked by nobody else.
LocksApart ==
    \A p, q \in Requests :
        p # q => req[p].excl \cap (req[q].excl \cup req[q].share) = {}

\* A row the reset has not deleted was written since it looked.
DeletesStand ==
    /\ reset.at \in {"rules", "coefficients", "insert"} =>
          \A o \in options : /\ o.id \in reset.gone \cup reset.late
                             /\ o.id[2] = "seed" => o.id \in reset.gone
    /\ reset.at \in {"coefficients", "insert"} =>
          \A r \in rules : r.id \in reset.gone \cup reset.late
    /\ reset.at = "coefficients" =>
          \A c \in coefficients : c.id \in reset.want \cup reset.gone \cup reset.late
    /\ reset.at = "insert" =>
          \A c \in coefficients : c.id \in reset.gone \cup reset.late

KeysInv ==
    /\ Shapes
    /\ RowsStand
    /\ \A q \in Requests : RequestStands(q)
    /\ LocksApart
    /\ DeletesStand
    /\ UsedKeysExist

-----------------------------------------------------------------------------
(* What the steps of a request have in common.                             *)

\* Request q alone changes, and not its operation.
Alters(q) ==
    /\ DOMAIN req' = Requests
    /\ IsRequest(req'[q])
    /\ req'[q].op = req[q].op
    /\ \A p \in Requests \ {q} : req'[p] = req[p]

LEMMA EndsAlters ==
    ASSUME Shapes, NEW q \in Requests, NEW a, Ends(q, a)
    PROVE  Alters(q) /\ req'[q].at = a /\ req'[q].excl = {} /\ req'[q].share = {}
BY DEF Shapes, IsRequest, Ends, Alters

LEMMA MovesAlters ==
    ASSUME Shapes, NEW q \in Requests, NEW a, Moves(q, a)
    PROVE  /\ Alters(q) /\ req'[q].at = a
           /\ req'[q].target = req[q].target /\ req'[q].row = req[q].row
           /\ req'[q].keys = req[q].keys /\ req'[q].want = req[q].want
           /\ req'[q].share = req[q].share /\ req'[q].excl = req[q].excl
BY DEF Shapes, IsRequest, Moves, Alters

LEMMA WroteLate ==
    ASSUME Shapes, NEW ids, Wrote(ids)
    PROVE  /\ DOMAIN reset' = DOMAIN reset
           /\ reset'.at = reset.at /\ reset'.want = reset.want
           /\ reset'.gone = reset.gone
           /\ reset.late \subseteq reset'.late
           /\ reset.at \in {"options", "rules", "coefficients", "insert"} =>
                 ids \subseteq reset'.late
BY DEF Shapes, Wrote

\* A mark stays.
LEMMA MarksStay ==
    ASSUME NEW q \in Requests, Alters(q), ~ Ended(q),
           reset.at = "done" => reset'.at = "done", NEW x, Mark(x)
    PROVE  Mark(x)'
BY DEF Alters, Ended, Mark

\* The locks stay apart when a request releases some.
LEMMA ApartReleased ==
    ASSUME LocksApart, NEW q \in Requests, Alters(q),
           req'[q].excl \subseteq req[q].excl, req'[q].share \subseteq req[q].share
    PROVE  LocksApart'
BY DEF LocksApart, Alters

\* An answered request holds nothing and plans nothing.
LEMMA AnsweredStands ==
    ASSUME NEW q \in Requests, req'[q].at \in Answers, req'[q].excl = {}
    PROVE  RequestStands(q)'
<1>1. req'[q].at \notin {"begin", "select", "lock", "check", "write"}
  BY DEF Answers
<1>2. LocksStand(q)'
  BY <1>1 DEF LocksStand
<1>3. RowPrepared(q)' /\ TargetStands(q)' /\ StillUnused(q)'
  BY <1>1 DEF RowPrepared, TargetStands, StillUnused
<1> QED
  BY <1>2, <1>3 DEF RequestStands

LEMMA ShapesStay ==
    ASSUME Shapes, NEW q \in Requests, Alters(q), DOMAIN reset' = DOMAIN reset
    PROVE  Shapes'
BY DEF Shapes, Alters, IsRequest

\* A step of a request that writes no table.
LEMMA QuietStep ==
    ASSUME KeysInv, NEW q \in Requests, Alters(q), ~ Ended(q),
           UNCHANGED <<coefficients, rules, options, reset>>
    PROVE  /\ Shapes' /\ RowsStand' /\ DeletesStand' /\ UsedKeysExist'
           /\ \A p \in Requests \ {q} : RequestStands(p)'
<1>1. Shapes'
  BY ShapesStay DEF KeysInv
<1>2. \A x : Mark(x) => Mark(x)'
  BY MarksStay
<1>3. RowsStand'
  BY <1>2 DEF KeysInv, RowsStand, IsCoefficient, IsRule, IsOption
<1>4. DeletesStand' /\ UsedKeysExist'
  BY DEF KeysInv, DeletesStand, UsedKeysExist, RuleKeys
<1>5. ASSUME NEW p \in Requests \ {q} PROVE RequestStands(p)'
  <2>1. req'[p] = req[p] /\ RequestStands(p)
    BY DEF KeysInv, Alters
  <2>2. LocksStand(p)'
    BY <2>1 DEF RequestStands, LocksStand
  <2>3. RowPrepared(p)'
    BY <2>1 DEF RequestStands, RowPrepared, Name, IsRule, IsOption, RuleKeys
  <2>4. TargetStands(p)'
    BY <1>2, <2>1 DEF RequestStands, TargetStands, Name
  <2>5. StillUnused(p)'
    BY <2>1 DEF RequestStands, StillUnused, Name, LeavesKey, Users, RuleKeys
  <2> QED
    BY <2>2, <2>3, <2>4, <2>5 DEF RequestStands
<1> QED
  BY <1>1, <1>3, <1>4, <1>5

LEMMA QuietEnd ==
    ASSUME KeysInv, NEW q \in Requests, ~ Ended(q), NEW a \in Answers, Ends(q, a),
           UNCHANGED <<coefficients, rules, options, reset>>
    PROVE  KeysInv'
<1>1. Alters(q) /\ req'[q].at = a /\ req'[q].excl = {} /\ req'[q].share = {}
  BY EndsAlters DEF KeysInv
<1>2. /\ Shapes' /\ RowsStand' /\ DeletesStand' /\ UsedKeysExist'
      /\ \A p \in Requests \ {q} : RequestStands(p)'
  BY <1>1, QuietStep
<1>3. RequestStands(q)'
  BY <1>1, AnsweredStands
<1>4. LocksApart'
  BY <1>1, ApartReleased DEF KeysInv
<1> QED
  BY <1>2, <1>3, <1>4 DEF KeysInv

-----------------------------------------------------------------------------
(* The steps of a request that write no table.                             *)

LEMMA SubmitKeeps ==
    ASSUME KeysInv, NEW q \in Requests, Submit(q)
    PROVE  KeysInv'
<1>1. /\ ~ Ended(q) /\ req[q].at = "form"
      /\ UNCHANGED <<coefficients, rules, options, reset>>
  BY DEF Submit, Ended, Answers
<1>2. /\ Alters(q) /\ req'[q].at = "begin"
      /\ req'[q].excl = req[q].excl /\ req'[q].share = req[q].share
      /\ Name(q) \in Targeted => req'[q].target \in TableOf(Name(q))
  BY DEF Submit, Moves, KeysInv, Shapes, IsRequest, Alters
<1>3. /\ Shapes' /\ RowsStand' /\ DeletesStand' /\ UsedKeysExist'
      /\ \A p \in Requests \ {q} : RequestStands(p)'
  BY <1>1, <1>2, QuietStep
<1>4. LocksApart'
  BY <1>2, ApartReleased DEF KeysInv
<1>5. LocksStand(q)' /\ RowPrepared(q)' /\ StillUnused(q)'
  BY <1>1, <1>2 DEF KeysInv, RequestStands, LocksStand, RowPrepared, StillUnused
<1>6. TargetStands(q)'
  <2>1. SUFFICES ASSUME Name(q) \in {"updateOption", "patchOption"}
                 PROVE  TargetStands(q)'
    BY <1>2 DEF TargetStands, Name, Alters
  <2>2. PICK row \in options : req'[q].target = row
    BY <1>2, <2>1 DEF TableOf, Targeted, RuleSave, OptionSave
  <2>3. Mark(row.rev) /\ \A o \in options : o.id = row.id => o = row
    BY DEF KeysInv, RowsStand
  <2>4. Mark(row.rev)'
    BY <1>1, <1>2, <2>3, MarksStay
  <2> QED
    BY <1>1, <2>2, <2>3, <2>4 DEF TargetStands
<1> QED
  BY <1>3, <1>4, <1>5, <1>6 DEF KeysInv, RequestStands

LEMMA RefuseKeeps ==
    ASSUME KeysInv, NEW q \in Requests, Refuse(q) \/ NoKeyFound(q) \/ Expire(q)
    PROVE  KeysInv'
<1>1. ~ Ended(q) /\ UNCHANGED <<coefficients, rules, options, reset>>
  BY DEF Refuse, NoKeyFound, Expire, Selected, InTransaction, Ended, Answers
<1>2. PICK a \in Answers : Ends(q, a)
  BY DEF Refuse, NoKeyFound, Expire, Answers
<1> QED
  BY <1>1, <1>2, QuietEnd

\* A save is prepared: the keys to select are those of the row to write.
LEMMA SelectingStands ==
    ASSUME KeysInv, NEW q \in Requests, Alters(q), ~ Ended(q),
           UNCHANGED <<coefficients, rules, options, reset>>,
           req[q].at = "begin", req'[q].at \in {"select", "lock"},
           req'[q].target = req[q].target, req'[q].excl = req[q].excl,
           req'[q].share = req[q].share,
           RowPrepared(q)'
    PROVE  KeysInv'
<1>1. /\ Shapes' /\ RowsStand' /\ DeletesStand' /\ UsedKeysExist'
      /\ \A p \in Requests \ {q} : RequestStands(p)'
  BY QuietStep
<1>2. LocksApart'
  BY ApartReleased DEF KeysInv
<1>3. LocksStand(q)' /\ StillUnused(q)'
  BY DEF KeysInv, RequestStands, LocksStand, StillUnused
<1>4. TargetStands(q)'
  BY MarksStay DEF KeysInv, RequestStands, TargetStands, Alters, Name
<1> QED
  BY <1>1, <1>2, <1>3, <1>4 DEF KeysInv, RequestStands

LEMMA BeginRuleKeeps ==
    ASSUME KeysInv, NEW q \in Requests, BeginCreateRule(q) \/ BeginUpdateRule(q)
    PROVE  KeysInv'
<1>1. /\ ~ Ended(q) /\ req[q].at = "begin"
      /\ Name(q) \in RuleSave
      /\ UNCHANGED <<coefficients, rules, options, reset>>
  BY DEF BeginCreateRule, BeginUpdateRule, Ended, Answers, RuleSave
<1>2. CASE \E a \in Answers : Ends(q, a)
  BY <1>1, <1>2, QuietEnd
<1>3. ASSUME NEW row, IsRule(row), Prepared(q, row)
      PROVE  KeysInv'
  <2>1. /\ Alters(q) /\ req'[q].at = "select" /\ req'[q].row = row
        /\ req'[q].keys = RuleKeys(row)
        /\ req'[q].target = req[q].target /\ req'[q].excl = req[q].excl
        /\ req'[q].share = req[q].share
    BY <1>3 DEF Prepared, KeysInv, Shapes, IsRequest, Alters
  <2>2. Name(q)' = Name(q)
    BY <2>1 DEF Alters, Name
  <2>3. RowPrepared(q)'
    BY <1>1, <1>3, <2>1, <2>2 DEF RowPrepared, RuleSave, OptionSave, RuleKeys, IsRule
  <2> QED
    BY <1>1, <2>1, <2>3, SelectingStands
<1>4. CASE BeginCreateRule(q)
  <2> DEFINE op == req[q].op
             new == [id |-> <<"rule", q, op.slot>>, slot |-> op.slot,
                     cost |-> op.patch.cost, labor |-> op.patch.labor, rev |-> q]
  <2>1. Ends(q, "taken") \/ Prepared(q, new)
    BY <1>4 DEF BeginCreateRule
  <2>2. IsRule(new)
    BY DEF IsRule
  <2> QED
    BY <1>2, <1>3, <2>1, <2>2 DEF Answers
<1>5. CASE BeginUpdateRule(q)
  <2>1. \/ Ends(q, "notFound")
        \/ \E row \in rules :
              Prepared(q, [Patched(row, req[q].op.patch) EXCEPT !.rev = q])
    BY <1>5 DEF BeginUpdateRule, RowsWithId
  <2>2. ASSUME NEW row \in rules
        PROVE  IsRule([Patched(row, req[q].op.patch) EXCEPT !.rev = q])
    <3>1. IsRule(row)
      BY DEF KeysInv, RowsStand
    <3>2. IsRule(Patched(row, req[q].op.patch))
      BY <3>1 DEF IsRule, Patched
    <3> QED
      BY <3>2 DEF IsRule
  <2> QED
    BY <1>2, <1>3, <2>1, <2>2 DEF Answers
<1> QED
  BY <1>4, <1>5

LEMMA BeginOptionKeeps ==
    ASSUME KeysInv, NEW q \in Requests, BeginOption(q)
    PROVE  KeysInv'
<1> DEFINE op == req[q].op
           target == req[q].target
<1>1. /\ ~ Ended(q) /\ req[q].at = "begin"
      /\ Name(q) \in OptionSave
      /\ UNCHANGED <<coefficients, rules, options, reset>>
  BY DEF BeginOption, Ended, Answers
<1>2. ASSUME Ends(q, "notFound") \/ Ends(q, "stale")
      PROVE  KeysInv'
  BY <1>1, <1>2, QuietEnd DEF Answers
<1>3. CASE /\ op.name = "createOption"
           /\ req' = [req EXCEPT ![q].at = "select", ![q].keys = op.keys,
                                 ![q].row = [id |-> <<"option", q, q>>,
                                             keys |-> op.keys, rev |-> q]]
  <2> DEFINE new == [id |-> <<"option", q, q>>, keys |-> op.keys, rev |-> q]
  <2>1. IsOption(new) /\ new.id = <<"option", q, q>> /\ new.keys = op.keys /\ new.rev = q
    BY DEF IsOption
  <2> HIDE DEF new
  <2>2. /\ Alters(q) /\ req'[q].at = "select" /\ req'[q].row = new
        /\ req'[q].keys = op.keys
        /\ req'[q].target = target /\ req'[q].excl = req[q].excl
        /\ req'[q].share = req[q].share
    BY <1>3 DEF KeysInv, Shapes, IsRequest, Alters, new
  <2>3. Name(q)' = "createOption"
    BY <1>3, <2>2 DEF Alters, Name
  <2>4. RowPrepared(q)'
    BY <2>1, <2>2, <2>3 DEF RowPrepared, RuleSave, OptionSave, IsOption
  <2> QED
    BY <1>1, <2>2, <2>4, SelectingStands
<1>4. CASE /\ op.name = "updateOption" /\ target \in options
           /\ req' = [req EXCEPT ![q].at = "select", ![q].keys = op.keys,
                                 ![q].row = [target EXCEPT !.keys = op.keys, !.rev = q]]
  <2> DEFINE new == [target EXCEPT !.keys = op.keys, !.rev = q]
  <2>1. IsOption(target)
    BY <1>4 DEF KeysInv, RowsStand
  <2>2. IsOption(new) /\ new.id = target.id /\ new.keys = op.keys /\ new.rev = q
    BY <2>1 DEF IsOption
  <2> HIDE DEF new
  <2>3. /\ Alters(q) /\ req'[q].at = "select" /\ req'[q].row = new
        /\ req'[q].keys = op.keys
        /\ req'[q].target = target /\ req'[q].excl = req[q].excl
        /\ req'[q].share = req[q].share
    BY <1>4 DEF KeysInv, Shapes, IsRequest, Alters, new
  <2>4. Name(q)' = "updateOption"
    BY <1>4, <2>3 DEF Alters, Name
  <2>5. RowPrepared(q)'
    BY <2>2, <2>3, <2>4 DEF RowPrepared, RuleSave, OptionSave, IsOption
  <2> QED
    BY <1>1, <2>3, <2>5, SelectingStands
<1>5. CASE /\ op.name = "patchOption" /\ target \in options
           /\ req' = [req EXCEPT ![q].at = "lock",
                                 ![q].row = [target EXCEPT !.rev = q]]
  <2> DEFINE new == [target EXCEPT !.rev = q]
  <2>1. IsOption(target)
    BY <1>5 DEF KeysInv, RowsStand
  <2>2. IsOption(new) /\ new.id = target.id /\ new.keys = target.keys /\ new.rev = q
    BY <2>1 DEF IsOption
  <2> HIDE DEF new
  <2>3. /\ Alters(q) /\ req'[q].at = "lock" /\ req'[q].row = new
        /\ req'[q].target = target /\ req'[q].excl = req[q].excl
        /\ req'[q].share = req[q].share
    BY <1>5 DEF KeysInv, Shapes, IsRequest, Alters, new
  <2>4. Name(q)' = "patchOption"
    BY <1>5, <2>3 DEF Alters, Name
  <2>5. RowPrepared(q)'
    BY <2>2, <2>3, <2>4 DEF RowPrepared, RuleSave, OptionSave, IsOption
  <2> QED
    BY <1>1, <2>3, <2>5, SelectingStands
<1> QED
  BY <1>2, <1>3, <1>4, <1>5 DEF BeginOption, RowsWithId

LEMMA SelectKeeps ==
    ASSUME KeysInv, NEW q \in Requests, SelectForShare(q)
    PROVE  KeysInv'
<1>1. /\ ~ Ended(q) /\ req[q].at = "select"
      /\ UNCHANGED <<coefficients, rules, options, reset>>
  BY DEF SelectForShare, Ended, Answers
<1> DEFINE wanted == {c.id : c \in {c \in coefficients : c.key \in req[q].keys}}
<1>2. req' = [req EXCEPT ![q].at = "lock", ![q].want = wanted]
  BY DEF SelectForShare
<1> HIDE DEF wanted
<1>3. /\ Alters(q) /\ req'[q].at = "lock"
      /\ req'[q].target = req[q].target /\ req'[q].row = req[q].row
      /\ req'[q].keys = req[q].keys
      /\ req'[q].excl = req[q].excl /\ req'[q].share = req[q].share
  BY <1>2 DEF KeysInv, Shapes, IsRequest, Alters
<1>4. /\ Shapes' /\ RowsStand' /\ DeletesStand' /\ UsedKeysExist'
      /\ \A p \in Requests \ {q} : RequestStands(p)'
  BY <1>1, <1>3, QuietStep
<1>5. LocksApart'
  BY <1>3, ApartReleased DEF KeysInv
<1>6. LocksStand(q)' /\ StillUnused(q)'
  BY <1>1, <1>3 DEF KeysInv, RequestStands, LocksStand, StillUnused
<1>7. RowPrepared(q)'
  BY <1>1, <1>3 DEF KeysInv, RequestStands, RowPrepared, Alters, Name, IsRule,
                    IsOption, RuleKeys
<1>8. TargetStands(q)'
  BY <1>1, <1>3, MarksStay DEF KeysInv, RequestStands, TargetStands, Alters, Name
<1> QED
  BY <1>4, <1>5, <1>6, <1>7, <1>8 DEF KeysInv, RequestStands

LEMMA ShareKeeps ==
    ASSUME KeysInv, NEW q \in Requests, LockForShare(q)
    PROVE  KeysInv'
<1>1. /\ ~ Ended(q) /\ req[q].at = "lock"
      /\ UNCHANGED <<coefficients, rules, options, reset>>
  BY DEF LockForShare, Ended, Answers
<1>2. PICK id \in req[q].want \ ExclusiveElsewhere(q) :
          req' = [req EXCEPT ![q].want = @ \ {id},
                    ![q].share = @ \cup {c.id : c \in
                        {c \in coefficients : c.id = id /\ c.key \in req[q].keys}}]
  BY DEF LockForShare
<1> DEFINE locked == {c.id : c \in
                        {c \in coefficients : c.id = id /\ c.key \in req[q].keys}}
<1>3. locked \subseteq {id}
  OBVIOUS
<1> HIDE DEF locked
<1>4. /\ Alters(q) /\ req'[q].at = "lock"
      /\ req'[q].target = req[q].target /\ req'[q].row = req[q].row
      /\ req'[q].keys = req[q].keys
      /\ req'[q].excl = req[q].excl /\ req'[q].share = req[q].share \cup locked
  BY <1>1, <1>2 DEF KeysInv, Shapes, IsRequest, Alters, locked
<1>5. /\ Shapes' /\ RowsStand' /\ DeletesStand' /\ UsedKeysExist'
      /\ \A p \in Requests \ {q} : RequestStands(p)'
  BY <1>1, <1>4, QuietStep
<1>6. LocksApart'
  <2>1. \A p \in Requests \ {q} : id \notin req[p].excl
    BY <1>2 DEF ExclusiveElsewhere
  <2>2. \A p \in Requests \ {q} : req'[p] = req[p]
    BY <1>4 DEF Alters
  <2>3. ASSUME NEW p \in Requests, NEW r \in Requests, p # r
        PROVE  req'[p].excl \cap (req'[r].excl \cup req'[r].share) = {}
    <3>1. req[p].excl \cap (req[r].excl \cup req[r].share) = {}
      BY <2>3 DEF KeysInv, LocksApart
    <3>2. CASE r = q
      BY <1>3, <1>4, <2>1, <2>2, <2>3, <3>1, <3>2
    <3>3. CASE r # q
      BY <1>4, <2>2, <3>1, <3>3
    <3> QED
      BY <3>2, <3>3
  <2> QED
    BY <2>3 DEF LocksApart
<1>7. LocksStand(q)' /\ StillUnused(q)'
  BY <1>1, <1>4 DEF KeysInv, RequestStands, LocksStand, StillUnused
<1>8. RowPrepared(q)'
  BY <1>1, <1>4 DEF KeysInv, RequestStands, RowPrepared, Alters, Name, IsRule,
                    IsOption, RuleKeys
<1>9. TargetStands(q)'
  BY <1>1, <1>4, MarksStay DEF KeysInv, RequestStands, TargetStands, Alters, Name
<1> QED
  BY <1>5, <1>6, <1>7, <1>8, <1>9 DEF KeysInv, RequestStands

LEMMA ForUpdateKeeps ==
    ASSUME KeysInv, NEW q \in Requests, LockForUpdate(q)
    PROVE  KeysInv'
<1> DEFINE id == req[q].target.id
<1>1. /\ ~ Ended(q) /\ req[q].at = "begin"
      /\ Name(q) \in CoefficientEdit
      /\ id \notin ExclusiveElsewhere(q) \cup SharedElsewhere(q)
      /\ UNCHANGED <<coefficients, rules, options, reset>>
  BY DEF LockForUpdate, Ended, Answers
<1>2. CASE Ends(q, "notFound")
  BY <1>1, <1>2, QuietEnd DEF Answers
<1>3. CASE /\ RowsWithId(coefficients, id) # {}
           /\ req' = [req EXCEPT ![q].at = "check", ![q].excl = {id}]
  <2>1. /\ Alters(q) /\ req'[q].at = "check"
        /\ req'[q].target = req[q].target
        /\ req'[q].excl = {id} /\ req'[q].share = req[q].share
    BY <1>3 DEF KeysInv, Shapes, IsRequest, Alters
  <2>2. /\ Shapes' /\ RowsStand' /\ DeletesStand' /\ UsedKeysExist'
        /\ \A p \in Requests \ {q} : RequestStands(p)'
    BY <1>1, <2>1, QuietStep
  <2>3. LocksStand(q)'
    BY <1>1, <1>3, <2>1 DEF LocksStand, ExclusiveElsewhere, RowsWithId
  <2>4. RowPrepared(q)' /\ TargetStands(q)' /\ StillUnused(q)'
    BY <2>1 DEF RowPrepared, TargetStands, StillUnused
  <2>5. LocksApart'
    <3>1. \A p \in Requests \ {q} : id \notin req[p].excl \cup req[p].share
      BY <1>1 DEF ExclusiveElsewhere, SharedElsewhere
    <3>2. \A p \in Requests \ {q} : req'[p] = req[p]
      BY <2>1 DEF Alters
    <3>3. ASSUME NEW p \in Requests, NEW r \in Requests, p # r
          PROVE  req'[p].excl \cap (req'[r].excl \cup req'[r].share) = {}
      <4>1. req[p].excl \cap (req[r].excl \cup req[r].share) = {}
        BY <3>3 DEF KeysInv, LocksApart
      <4>2. CASE p = q
        BY <2>1, <3>1, <3>2, <3>3, <4>1, <4>2
      <4>3. CASE r = q
        BY <2>1, <3>1, <3>2, <3>3, <4>1, <4>3
      <4>4. CASE p # q /\ r # q
        BY <3>2, <4>1, <4>4
      <4> QED
        BY <4>2, <4>3, <4>4
    <3> QED
      BY <3>3 DEF LocksApart
  <2> QED
    BY <2>2, <2>3, <2>4, <2>5 DEF KeysInv, RequestStands
<1> QED
  BY <1>2, <1>3 DEF LockForUpdate

LEMMA CheckKeeps ==
    ASSUME KeysInv, NEW q \in Requests, CheckUnused(q)
    PROVE  KeysInv'
<1>1. /\ ~ Ended(q) /\ req[q].at = "check"
      /\ UNCHANGED <<coefficients, rules, options, reset>>
  BY DEF CheckUnused, Ended, Answers
<1>2. CASE Ends(q, "stale") \/ Ends(q, "inUse")
  BY <1>1, <1>2, QuietEnd DEF Answers
<1>3. ASSUME NEW row \in coefficients, row.id = req[q].target.id,
             LeavesKey(q, row) => Users(row.key) = {}, Moves(q, "write")
      PROVE  KeysInv'
  <2>1. /\ Alters(q) /\ req'[q].at = "write"
        /\ req'[q].target = req[q].target
        /\ req'[q].excl = req[q].excl /\ req'[q].share = req[q].share
    BY <1>3, MovesAlters DEF KeysInv
  <2>2. /\ Shapes' /\ RowsStand' /\ DeletesStand' /\ UsedKeysExist'
        /\ \A p \in Requests \ {q} : RequestStands(p)'
    BY <1>1, <2>1, QuietStep
  <2>3. LocksApart'
    BY <2>1, ApartReleased DEF KeysInv
  <2>4. LocksStand(q)'
    BY <1>1, <2>1 DEF KeysInv, RequestStands, LocksStand
  <2>5. RowPrepared(q)' /\ TargetStands(q)'
    BY <2>1 DEF RowPrepared, TargetStands
  <2>6. \A c \in coefficients : c.id = req[q].target.id => c = row
    BY <1>3 DEF KeysInv, RowsStand
  <2>7. StillUnused(q)'
    BY <1>1, <1>3, <2>1, <2>6
       DEF StillUnused, LeavesKey, Alters, Name, Users, RuleKeys
  <2> QED
    BY <2>2, <2>3, <2>4, <2>5, <2>7 DEF KeysInv, RequestStands
<1> QED
  BY <1>2, <1>3 DEF CheckUnused, RowsWithId, LeavesKey, Name

-----------------------------------------------------------------------------
(* The saves of rules and options.                                         *)

\* A key that one request has locked for share is of no row that another one has
\* locked for update and is about to change.
LEMMA LockedElsewhere ==
    ASSUME KeysInv, NEW q \in Requests, NEW p \in Requests \ {q},
           req[p].at = "write",
           NEW c \in coefficients, c.id = req[p].target.id
    PROVE  c.key \notin LockedKeys(q)
<1>1. c.id \in req[p].excl
  BY DEF KeysInv, RequestStands, LocksStand
<1>2. c.id \notin req[q].share
  BY <1>1 DEF KeysInv, LocksApart
<1>3. \A d \in coefficients : d.key = c.key => d = c
  BY DEF KeysInv, RowsStand
<1> QED
  BY <1>2, <1>3 DEF LockedKeys

\* What a save leaves alone, whatever table it writes.
LEMMA SaveSettles ==
    ASSUME KeysInv, NEW q \in Requests, ~ Ended(q), Ends(q, "ok"),
           UNCHANGED coefficients, NEW ids, Wrote(ids)
    PROVE  /\ Shapes' /\ LocksApart' /\ RequestStands(q)'
           /\ \A p \in Requests \ {q} : LocksStand(p)' /\ RowPrepared(p)'
<1>1. Alters(q) /\ req'[q].at = "ok" /\ req'[q].excl = {} /\ req'[q].share = {}
  BY EndsAlters DEF KeysInv
<1>2. DOMAIN reset' = DOMAIN reset /\ reset'.gone = reset.gone
  BY WroteLate DEF KeysInv
<1>3. Shapes'
  BY <1>1, <1>2, ShapesStay DEF KeysInv
<1>4. LocksApart'
  BY <1>1, ApartReleased DEF KeysInv
<1>5. RequestStands(q)'
  BY <1>1, AnsweredStands DEF Answers
<1>6. ASSUME NEW p \in Requests \ {q} PROVE LocksStand(p)' /\ RowPrepared(p)'
  <2>1. req'[p] = req[p] /\ RequestStands(p)
    BY <1>1 DEF KeysInv, Alters
  <2>2. LocksStand(p)'
    BY <1>2, <2>1 DEF RequestStands, LocksStand
  <2>3. RowPrepared(p)'
    BY <2>1 DEF RequestStands, RowPrepared, Name, IsRule, IsOption, RuleKeys
  <2> QED
    BY <2>2, <2>3
<1> QED
  BY <1>3, <1>4, <1>5, <1>6

LEMMA RuleSaved ==
    ASSUME KeysInv, NEW q \in Requests, ~ Ended(q), Ends(q, "ok"),
           NEW row, IsRule(row), RuleKeys(row) \subseteq LockedKeys(q),
           rules' \subseteq rules \cup {row}, Wrote({row.id}),
           UNCHANGED <<coefficients, options>>
    PROVE  KeysInv'
<1>1. Alters(q) /\ req'[q].at = "ok"
  BY EndsAlters DEF KeysInv
<1>2. /\ reset'.at = reset.at /\ reset'.want = reset.want
      /\ reset'.gone = reset.gone
      /\ reset.late \subseteq reset'.late
      /\ reset.at \in {"options", "rules", "coefficients", "insert"} =>
            row.id \in reset'.late
  BY WroteLate DEF KeysInv
<1>3. \A x : Mark(x) => Mark(x)'
  BY <1>1, <1>2, MarksStay
<1>4. /\ Shapes' /\ LocksApart' /\ RequestStands(q)'
      /\ \A p \in Requests \ {q} : LocksStand(p)' /\ RowPrepared(p)'
  BY SaveSettles
<1>5. RowsStand'
  BY <1>3 DEF KeysInv, RowsStand
<1>6. DeletesStand'
  BY <1>2 DEF KeysInv, DeletesStand
<1>7. UsedKeysExist'
  BY <1>2 DEF KeysInv, UsedKeysExist, LockedKeys, RuleKeys
<1>8. ASSUME NEW p \in Requests \ {q} PROVE TargetStands(p)' /\ StillUnused(p)'
  <2>1. req'[p] = req[p] /\ RequestStands(p)
    BY <1>1 DEF KeysInv, Alters
  <2>2. TargetStands(p)'
    BY <1>3, <2>1 DEF RequestStands, TargetStands, Name
  <2>3. ASSUME req[p].at = "write", NEW c \in coefficients,
               c.id = req[p].target.id, LeavesKey(p, c)
        PROVE  Users(c.key)' = {}
    <3>1. Users(c.key) = {}
      BY <2>1, <2>3 DEF RequestStands, StillUnused
    <3>2. c.key \notin RuleKeys(row)
      BY <2>3, LockedElsewhere
    <3> QED
      BY <3>1, <3>2 DEF Users, RuleKeys
  <2>4. StillUnused(p)'
    BY <2>1, <2>3 DEF StillUnused, LeavesKey, Name
  <2> QED
    BY <2>2, <2>4
<1> QED
  BY <1>4, <1>5, <1>6, <1>7, <1>8 DEF KeysInv, RequestStands

\* An option is saved with keys that are locked, or with the keys it had.
LEMMA OptionSaved ==
    ASSUME KeysInv, NEW q \in Requests, ~ Ended(q), Ends(q, "ok"),
           NEW row, IsOption(row), row.rev = q, Mark(row.id[2])',
           reset.at \in {"rules", "coefficients", "insert"} => row.id[2] # "seed",
           NEW old \in SUBSET options,
           \A o \in options : o.id = row.id => o \in old,
           \/ row.keys \subseteq LockedKeys(q)
           \/ \E o \in old : o.id = row.id /\ o.keys = row.keys,
           options' = (options \ old) \cup {row}, Wrote({row.id}),
           UNCHANGED <<coefficients, rules>>
    PROVE  KeysInv'
<1>1. Alters(q) /\ req'[q].at = "ok"
  BY EndsAlters DEF KeysInv
<1>2. /\ reset'.at = reset.at /\ reset'.want = reset.want
      /\ reset'.gone = reset.gone
      /\ reset.late \subseteq reset'.late
      /\ reset.at \in {"options", "rules", "coefficients", "insert"} =>
            row.id \in reset'.late
  BY WroteLate DEF KeysInv
<1>3. \A x : Mark(x) => Mark(x)'
  BY <1>1, <1>2, MarksStay
<1>4. /\ Shapes' /\ LocksApart' /\ RequestStands(q)'
      /\ \A p \in Requests \ {q} : LocksStand(p)' /\ RowPrepared(p)'
  BY SaveSettles
<1>5. RowsStand'
  <2>1. Mark(row.rev)'
    BY <1>1, RequestNames DEF Mark, Ended, Answers
  <2>2. \A o \in options' : IsOption(o) /\ Mark(o.id[2])' /\ Mark(o.rev)'
    BY <1>3, <2>1 DEF KeysInv, RowsStand
  <2>3. \A o, p \in options' : o.id = p.id => o = p
    BY DEF KeysInv, RowsStand
  <2>4. \A c \in coefficients : Mark(c.id[2])'
    BY <1>3 DEF KeysInv, RowsStand
  <2> QED
    BY <2>2, <2>3, <2>4 DEF KeysInv, RowsStand
<1>6. DeletesStand'
  BY <1>2 DEF KeysInv, DeletesStand
<1>7. UsedKeysExist'
  <2> DEFINE known == {c.key : c \in coefficients}
  <2>1. row.id \notin reset'.late => row.keys \subseteq known
    <3>1. CASE row.keys \subseteq LockedKeys(q)
      BY <3>1 DEF LockedKeys
    <3>2. CASE \E o \in old : o.id = row.id /\ o.keys = row.keys
      BY <1>2, <3>2 DEF KeysInv, UsedKeysExist
    <3> QED
      BY <3>1, <3>2
  <2>2. /\ \A r \in rules : r.id \notin reset'.late => RuleKeys(r) \subseteq known
        /\ \A o \in options : o.id \notin reset'.late => o.keys \subseteq known
    BY <1>2 DEF KeysInv, UsedKeysExist
  <2> QED
    BY <2>1, <2>2 DEF UsedKeysExist, RuleKeys
<1>8. ASSUME NEW p \in Requests \ {q} PROVE TargetStands(p)' /\ StillUnused(p)'
  <2>1. req'[p] = req[p] /\ RequestStands(p)
    BY <1>1 DEF KeysInv, Alters
  <2>2. TargetStands(p)'
    <3>1. SUFFICES ASSUME req[p].at \in {"begin", "select", "lock"},
                          Name(p) \in {"updateOption", "patchOption"}
                   PROVE  TargetStands(p)'
      BY <2>1 DEF TargetStands, Name
    <3>2. /\ Mark(req[p].target.rev)
          /\ \A o \in options :
                o.id = req[p].target.id /\ o.rev = req[p].target.rev =>
                   o.keys = req[p].target.keys
      BY <2>1, <3>1 DEF RequestStands, TargetStands
    <3>3. req[p].target.rev # row.rev
      BY <3>2 DEF Mark
    <3> QED
      BY <1>3, <2>1, <3>2, <3>3 DEF TargetStands
  <2>3. ASSUME req[p].at = "write", NEW c \in coefficients,
               c.id = req[p].target.id, LeavesKey(p, c)
        PROVE  Users(c.key)' = {}
    <3>1. Users(c.key) = {}
      BY <2>1, <2>3 DEF RequestStands, StillUnused
    <3>2. c.key \notin row.keys
      BY <2>3, <3>1, LockedElsewhere DEF Users
    <3> QED
      BY <3>1, <3>2 DEF Users, RuleKeys
  <2>4. StillUnused(p)'
    BY <2>1, <2>3 DEF StillUnused, LeavesKey, Name
  <2> QED
    BY <2>2, <2>4
<1> QED
  BY <1>4, <1>5, <1>6, <1>7, <1>8 DEF KeysInv, RequestStands

LEMMA SaveRuleKeeps ==
    ASSUME KeysInv, NEW q \in Requests, InsertRule(q) \/ UpdateRule(q)
    PROVE  KeysInv'
<1>1. /\ ~ Ended(q) /\ req[q].at = "lock" /\ Name(q) \in RuleSave
      /\ UNCHANGED <<coefficients, options>>
      /\ RuleKeys(req[q].row) \subseteq LockedKeys(q) /\ IsRule(req[q].row)
  <2>1. /\ ~ Ended(q) /\ req[q].at = "lock" /\ Name(q) \in RuleSave
        /\ UNCHANGED <<coefficients, options>>
        /\ req[q].keys \subseteq LockedKeys(q)
    BY DEF InsertRule, UpdateRule, Selected, KeyMissing, Ended, Answers, RuleSave
  <2>2. IsRule(req[q].row) /\ req[q].keys = RuleKeys(req[q].row)
    BY <2>1 DEF KeysInv, RequestStands, RowPrepared
  <2> QED
    BY <2>1, <2>2
<1>2. CASE UNCHANGED <<rules, reset>> /\ \E a \in Answers : Ends(q, a)
  BY <1>1, <1>2, QuietEnd
<1>3. CASE /\ rules' \subseteq rules \cup {req[q].row}
           /\ Ends(q, "ok") /\ Wrote({req[q].row.id})
  BY <1>1, <1>3, RuleSaved
<1>4. CASE InsertRule(q)
  BY <1>2, <1>3, <1>4 DEF InsertRule, Answers
<1>5. CASE UpdateRule(q)
  BY <1>2, <1>3, <1>5 DEF UpdateRule, NotCurrent, Answers
<1> QED
  BY <1>4, <1>5

LEMMA InsertOptionKeeps ==
    ASSUME KeysInv, NEW q \in Requests, InsertOption(q)
    PROVE  KeysInv'
<1>0. PICK row : row = req[q].row
  OBVIOUS
<1>1. /\ ~ Ended(q) /\ req[q].at = "lock" /\ Name(q) = "createOption"
      /\ UNCHANGED <<coefficients, rules>>
      /\ req[q].keys \subseteq LockedKeys(q)
      /\ options' = options \cup {row} /\ Ends(q, "ok") /\ Wrote({row.id})
  BY <1>0 DEF InsertOption, Selected, KeyMissing, Ended, Answers
<1>2. /\ IsOption(row) /\ row.rev = q /\ row.keys = req[q].keys
      /\ row.id = <<"option", q, q>>
  BY <1>0, <1>1 DEF KeysInv, RequestStands, RowPrepared, OptionSave
<1>3. row.id[2] = q
  BY <1>2
<1>4. req'[q].at = "ok" /\ Alters(q)
  BY <1>1, EndsAlters DEF KeysInv
<1>5. Mark(q)' /\ q # "seed"
  BY <1>4, RequestNames DEF Mark, Ended, Answers
<1>6. \A o \in options : o.id # row.id
  BY <1>1, <1>3 DEF KeysInv, RowsStand, Mark
<1>7. PICK old : old = {}
  OBVIOUS
<1>8. /\ old \in SUBSET options /\ options' = (options \ old) \cup {row}
      /\ \A o \in options : o.id = row.id => o \in old
      /\ row.keys \subseteq LockedKeys(q)
  BY <1>1, <1>2, <1>6, <1>7
<1>9. /\ ~ Ended(q) /\ Ends(q, "ok") /\ Wrote({row.id})
      /\ UNCHANGED <<coefficients, rules>>
  BY <1>1
<1>10. IsOption(row) /\ row.rev = q /\ Mark(row.id[2])' /\ row.id[2] # "seed"
  BY <1>2, <1>3, <1>5
<1> QED
  BY <1>8, <1>9, <1>10, OptionSaved

LEMMA UpdateOptionKeeps ==
    ASSUME KeysInv, NEW q \in Requests, UpdateOption(q)
    PROVE  KeysInv'
<1>1. /\ ~ Ended(q) /\ req[q].at = "lock"
      /\ Name(q) \in {"updateOption", "patchOption"}
      /\ UNCHANGED <<coefficients, rules>>
      /\ req[q].keys \subseteq LockedKeys(q)
      /\ req[q].target.id \notin reset.gone
      /\ TableOf(Name(q)) = options
  BY DEF UpdateOption, Selected, KeyMissing, Ended, Answers, TableOf, RuleSave,
         OptionSave
<1>2. CASE UNCHANGED <<options, reset>> /\ Ends(q, NotCurrent(q))
  BY <1>1, <1>2, QuietEnd DEF NotCurrent, Answers
<1>3. CASE /\ Current(q) # {}
           /\ options' = (options \ Current(q)) \cup {req[q].row}
           /\ Ends(q, "ok") /\ Wrote({req[q].row.id})
  <2>1. PICK row : row = req[q].row
    OBVIOUS
  <2>2. /\ IsOption(row) /\ row.rev = q /\ row.id = req[q].target.id
        /\ Name(q) = "updateOption" => row.keys = req[q].keys
        /\ Name(q) = "patchOption" => row.keys = req[q].target.keys
    BY <1>1, <2>1 DEF KeysInv, RequestStands, RowPrepared, OptionSave
  <2>3. PICK seen \in options : /\ seen.id = row.id /\ seen.rev = req[q].target.rev
                                /\ seen \in Current(q)
    BY <1>1, <1>3, <2>2 DEF Current
  <2>4. \A o \in options : o.id = row.id => o \in Current(q)
    BY <2>3 DEF KeysInv, RowsStand
  <2>5. seen.keys = req[q].target.keys
    BY <1>1, <2>2, <2>3 DEF KeysInv, RequestStands, TargetStands
  <2>6. \/ row.keys \subseteq LockedKeys(q)
        \/ \E o \in Current(q) : o.id = row.id /\ o.keys = row.keys
    BY <1>1, <2>2, <2>3, <2>5
  <2>7. Alters(q)
    BY <1>3, EndsAlters DEF KeysInv
  <2>8. Mark(row.id[2])'
    <3>1. Mark(row.id[2])
      BY <2>3 DEF KeysInv, RowsStand
    <3>2. reset'.at = reset.at
      BY <1>3, WroteLate DEF KeysInv
    <3> QED
      BY <1>1, <2>7, <3>1, <3>2, MarksStay
  <2>9. reset.at \in {"rules", "coefficients", "insert"} => row.id[2] # "seed"
    BY <1>1, <2>2, <2>3 DEF KeysInv, DeletesStand
  <2>10. Current(q) \in SUBSET options
    BY <1>1 DEF Current
  <2> QED
    BY <1>1, <1>3, <2>1, <2>2, <2>4, <2>6, <2>8, <2>9, <2>10, OptionSaved
<1> QED
  BY <1>2, <1>3 DEF UpdateOption

LEMMA RemoveRowKeeps ==
    ASSUME KeysInv, NEW q \in Requests, RemoveRule(q) \/ RemoveOption(q)
    PROVE  KeysInv'
<1>1. /\ ~ Ended(q)
      /\ rules' \subseteq rules /\ options' \subseteq options
      /\ UNCHANGED <<coefficients, reset>>
  BY DEF RemoveRule, RemoveOption, Ended, Answers
<1>2. PICK a \in Answers : Ends(q, a)
  BY DEF RemoveRule, RemoveOption, Answers
<1>3. Alters(q) /\ req'[q].at = a /\ req'[q].excl = {} /\ req'[q].share = {}
  BY <1>2, EndsAlters DEF KeysInv
<1>4. \A x : Mark(x) => Mark(x)'
  BY <1>1, <1>3, MarksStay
<1>5. Shapes' /\ LocksApart' /\ RequestStands(q)'
  BY <1>1, <1>3, ShapesStay, ApartReleased, AnsweredStands DEF KeysInv
<1>6. RowsStand' /\ DeletesStand' /\ UsedKeysExist'
  BY <1>1, <1>4 DEF KeysInv, RowsStand, DeletesStand, UsedKeysExist, RuleKeys
<1>7. ASSUME NEW p \in Requests \ {q} PROVE RequestStands(p)'
  <2>1. req'[p] = req[p] /\ RequestStands(p)
    BY <1>3 DEF KeysInv, Alters
  <2>2. LocksStand(p)'
    BY <1>1, <2>1 DEF RequestStands, LocksStand
  <2>3. RowPrepared(p)'
    BY <2>1 DEF RequestStands, RowPrepared, Name, IsRule, IsOption, RuleKeys
  <2>4. TargetStands(p)'
    BY <1>1, <1>4, <2>1 DEF RequestStands, TargetStands, Name
  <2>5. StillUnused(p)'
    BY <1>1, <2>1 DEF RequestStands, StillUnused, Name, LeavesKey, Users, RuleKeys
  <2> QED
    BY <2>2, <2>3, <2>4, <2>5 DEF RequestStands
<1> QED
  BY <1>5, <1>6, <1>7 DEF KeysInv

-----------------------------------------------------------------------------
(* The changes of coefficients.                                            *)

\* The rows "new" take the place of the rows "old": nobody else has locked them
\* for update, and no key that is in use is lost.
Replaces(q, old, new) ==
    /\ old \subseteq coefficients /\ coefficients' = (coefficients \ old) \cup new
    /\ \A c \in new : IsCoefficient(c) /\ Mark(c.id[2])'
    /\ \A c, d \in coefficients' : c.id = d.id \/ c.key = d.key => c = d
    /\ \A p \in Requests \ {q} : \A c \in old \cup new : c.id \notin req[p].excl
    /\ \A c \in old : Users(c.key) = {} \/ \E d \in new : d.key = c.key

\* A reset under way remembers the rows written, and nothing else becomes of it.
Remembers(rows) ==
    /\ DOMAIN reset' = DOMAIN reset
    /\ reset'.at = reset.at /\ reset'.want = reset.want /\ reset'.gone = reset.gone
    /\ reset.late \subseteq reset'.late
    /\ reset.at \in {"options", "rules", "coefficients", "insert"} =>
          \A c \in rows : c.id \in reset'.late

LEMMA CoefficientsChanged ==
    ASSUME KeysInv, NEW q \in Requests, ~ Ended(q), NEW a \in Answers, Ends(q, a),
           UNCHANGED <<rules, options>>, NEW old, NEW new,
           Replaces(q, old, new), Remembers(new)
    PROVE  KeysInv'
<1> USE DEF Replaces, Remembers
<1>1. Alters(q) /\ req'[q].at = a /\ req'[q].excl = {} /\ req'[q].share = {}
  BY EndsAlters DEF KeysInv
<1>2. \A x : Mark(x) => Mark(x)'
  BY <1>1, MarksStay
<1>3. Shapes' /\ LocksApart' /\ RequestStands(q)'
  BY <1>1, ShapesStay, ApartReleased, AnsweredStands DEF KeysInv
<1>4. RowsStand'
  <2>1. \A c \in coefficients' : IsCoefficient(c) /\ Mark(c.id[2])'
    BY <1>2 DEF KeysInv, RowsStand
  <2>2. /\ \A r \in rules : IsRule(r)
        /\ \A o \in options : IsOption(o) /\ Mark(o.id[2])' /\ Mark(o.rev)'
        /\ \A o, p \in options : o.id = p.id => o = p
    BY <1>2 DEF KeysInv, RowsStand
  <2> QED
    BY <2>1, <2>2 DEF RowsStand
<1>5. DeletesStand'
  BY DEF KeysInv, DeletesStand
<1>6. UsedKeysExist'
  <2> DEFINE known == {c.key : c \in coefficients}
             left == {c.key : c \in coefficients'}
  <2>1. \A k \in known : k \in left \/ Users(k) = {}
    OBVIOUS
  <2>2. /\ \A r \in rules : r.id \notin reset.late => RuleKeys(r) \subseteq known
        /\ \A o \in options : o.id \notin reset.late => o.keys \subseteq known
    BY DEF KeysInv, UsedKeysExist
  <2> HIDE DEF known, left
  <2>3. /\ \A r \in rules : r.id \notin reset'.late => RuleKeys(r) \subseteq left
        /\ \A o \in options : o.id \notin reset'.late => o.keys \subseteq left
    BY <2>1, <2>2 DEF Users
  <2> QED
    BY <2>3 DEF UsedKeysExist, RuleKeys, left
<1>7. ASSUME NEW p \in Requests \ {q} PROVE RequestStands(p)'
  <2>1. req'[p] = req[p] /\ RequestStands(p)
    BY <1>1 DEF KeysInv, Alters
  <2>2. LocksStand(p)'
    BY <2>1 DEF RequestStands, LocksStand
  <2>3. RowPrepared(p)'
    BY <2>1 DEF RequestStands, RowPrepared, Name, IsRule, IsOption, RuleKeys
  <2>4. TargetStands(p)'
    BY <1>2, <2>1 DEF RequestStands, TargetStands, Name
  <2>5. ASSUME req[p].at = "write", NEW c \in coefficients',
               c.id = req[p].target.id, LeavesKey(p, c)
        PROVE  Users(c.key) = {}
    <3>1. c.id \in req[p].excl
      BY <2>1, <2>5 DEF RequestStands, LocksStand
    <3> QED
      BY <2>1, <2>5, <3>1 DEF RequestStands, StillUnused
  <2>6. StillUnused(p)'
    BY <2>1, <2>5 DEF StillUnused, LeavesKey, Name, Users, RuleKeys
  <2> QED
    BY <2>2, <2>3, <2>4, <2>6 DEF RequestStands
<1> QED
  BY <1>3, <1>4, <1>5, <1>6, <1>7 DEF KeysInv

LEMMA CreateKeeps ==
    ASSUME KeysInv, NEW q \in Requests, CreateCoefficient(q)
    PROVE  KeysInv'
<1> DEFINE key == req[q].op.key
<1>0. PICK row : row = [id |-> <<"coefficient", q, key>>, key |-> key, rev |-> q]
  OBVIOUS
<1>1. ~ Ended(q) /\ UNCHANGED <<rules, options>>
  BY DEF CreateCoefficient, Ended, Answers
<1>2. CASE Ends(q, "taken") /\ UNCHANGED <<coefficients, reset>>
  BY <1>1, <1>2, QuietEnd DEF Answers
<1>3. CASE /\ {c \in coefficients : c.key = key} = {}
           /\ coefficients' = coefficients \cup {row}
           /\ Ends(q, "ok") /\ Wrote({row.id})
  <2>1. /\ IsCoefficient(row) /\ row.id[2] = q /\ row.key = key
    BY <1>0 DEF IsCoefficient
  <2>2. \A c \in coefficients : c.id # row.id
    BY <1>1, <2>1 DEF KeysInv, RowsStand, Mark
  <2>3. Mark(row.id[2])'
    <3>1. Alters(q) /\ req'[q].at = "ok"
      BY <1>3, EndsAlters DEF KeysInv
    <3>2. Mark(q)'
      BY <3>1, RequestNames DEF Mark, Ended, Answers
    <3> QED
      BY <2>1, <3>2
  <2>4. \A c, d \in coefficients' : c.id = d.id \/ c.key = d.key => c = d
    BY <1>3, <2>1, <2>2 DEF KeysInv, RowsStand
  <2>5. \A p \in Requests \ {q} : row.id \notin req[p].excl
    BY <2>2 DEF KeysInv, RequestStands, LocksStand
  <2>6. PICK old, new : old = {} /\ new = {row}
    OBVIOUS
  <2>7. Replaces(q, old, new)
    BY <1>3, <2>1, <2>3, <2>4, <2>5, <2>6 DEF Replaces
  <2>8. Remembers(new)
    BY <1>3, <2>6, WroteLate DEF KeysInv, Remembers
  <2>9. "ok" \in Answers
    BY DEF Answers
  <2> QED
    BY <1>1, <1>3, <2>7, <2>8, <2>9, CoefficientsChanged
<1> QED
  BY <1>0, <1>2, <1>3 DEF CreateCoefficient

LEMMA UpdateCoefficientKeeps ==
    ASSUME KeysInv, NEW q \in Requests, UpdateCoefficient(q)
    PROVE  KeysInv'
<1>1. /\ ~ Ended(q) /\ req[q].at = "write" /\ UNCHANGED <<rules, options>>
      /\ Name(q) \in {"changeCoefficient", "renameCoefficient"}
  BY DEF UpdateCoefficient, Ended, Answers
<1>2. CASE Ends(q, "taken") /\ UNCHANGED <<coefficients, reset>>
  BY <1>1, <1>2, QuietEnd DEF Answers
<1>3. ASSUME NEW row \in coefficients, row.id = req[q].target.id, NEW key,
             Name(q) = "renameCoefficient" => key = req[q].op.key,
             Name(q) = "changeCoefficient" => key = row.key,
             {c \in coefficients : c.key = key} \ {row} = {},
             coefficients' = (coefficients \ {row})
                                \cup {[row EXCEPT !.key = key, !.rev = q]},
             Ends(q, "ok"), Wrote({row.id})
      PROVE  KeysInv'
  <2>0. PICK new : new = [row EXCEPT !.key = key, !.rev = q]
    OBVIOUS
  <2>1. IsCoefficient(row) /\ Mark(row.id[2])
    BY DEF KeysInv, RowsStand
  <2>2. IsCoefficient(new) /\ new.id = row.id /\ new.key = key
    BY <2>0, <2>1 DEF IsCoefficient
  <2>3. Mark(new.id[2])'
    <3>1. Alters(q) /\ reset'.at = reset.at
      BY <1>3, EndsAlters, WroteLate DEF KeysInv
    <3> QED
      BY <1>1, <2>1, <2>2, <3>1, MarksStay
  <2>4. ASSUME NEW c \in coefficients', NEW d \in coefficients',
               c.id = d.id \/ c.key = d.key
        PROVE  c = d
    <3>1. \A e \in coefficients \ {row} : e.id # row.id /\ e.key # key
      BY <1>3 DEF KeysInv, RowsStand
    <3>2. CASE c = new \/ d = new
      BY <1>3, <2>0, <2>2, <2>4, <3>1, <3>2
    <3>3. CASE c # new /\ d # new
      BY <1>3, <2>0, <2>4, <3>3 DEF KeysInv, RowsStand
    <3> QED
      BY <3>2, <3>3
  <2>5. \A p \in Requests \ {q} : row.id \notin req[p].excl
    BY <1>1, <1>3 DEF KeysInv, RequestStands, LocksStand, LocksApart
  <2>6. Users(row.key) = {} \/ new.key = row.key
    BY <1>1, <1>3, <2>2 DEF KeysInv, RequestStands, StillUnused, LeavesKey
  <2>7. PICK old, made : old = {row} /\ made = {new}
    OBVIOUS
  <2>8. Replaces(q, old, made)
    <3>1. old \subseteq coefficients /\ coefficients' = (coefficients \ old) \cup made
      BY <1>3, <2>0, <2>7
    <3>2. \A c, d \in coefficients' : c.id = d.id \/ c.key = d.key => c = d
      BY <2>4
    <3> QED
      BY <2>2, <2>3, <2>5, <2>6, <2>7, <3>1, <3>2 DEF Replaces
  <2>9. Remembers(made)
    BY <1>3, <2>2, <2>7, WroteLate DEF KeysInv, Remembers
  <2>10. "ok" \in Answers
    BY DEF Answers
  <2> QED
    BY <1>1, <1>3, <2>8, <2>9, <2>10, CoefficientsChanged
<1> DEFINE key(row) == IF Name(q) = "renameCoefficient" THEN req[q].op.key
                       ELSE row.key
<1>4. PICK row \in coefficients :
        /\ row.id = req[q].target.id
        /\ \/ Ends(q, "taken") /\ UNCHANGED <<coefficients, reset>>
           \/ /\ {c \in coefficients : c.key = key(row)} \ {row} = {}
              /\ coefficients' = (coefficients \ {row})
                                    \cup {[row EXCEPT !.key = key(row), !.rev = q]}
              /\ Ends(q, "ok") /\ Wrote({row.id})
  BY DEF UpdateCoefficient, RowsWithId
<1>5. /\ Name(q) = "renameCoefficient" => key(row) = req[q].op.key
      /\ Name(q) = "changeCoefficient" => key(row) = row.key
  OBVIOUS
<1> HIDE DEF key
<1> QED
  BY <1>1, <1>2, <1>3, <1>4, <1>5

LEMMA RemoveCoefficientKeeps ==
    ASSUME KeysInv, NEW q \in Requests, RemoveCoefficient(q)
    PROVE  KeysInv'
<1> DEFINE old == RowsWithId(coefficients, req[q].target.id)
<1>1. /\ ~ Ended(q) /\ req[q].at = "write" /\ Name(q) = "removeCoefficient"
      /\ Ends(q, "ok") /\ coefficients' = coefficients \ old
      /\ UNCHANGED <<rules, options, reset>>
  BY DEF RemoveCoefficient, Ended, Answers
<1>2. "ok" \in Answers /\ old \in SUBSET coefficients
  BY <1>1 DEF RowsWithId, Answers
<1>3. \A c, d \in coefficients' : c.id = d.id \/ c.key = d.key => c = d
  BY <1>1 DEF KeysInv, RowsStand
<1>4. \A p \in Requests \ {q} : \A c \in old : c.id \notin req[p].excl
  BY <1>1 DEF RowsWithId, KeysInv, RequestStands, LocksStand, LocksApart
<1>5. \A c \in old : Users(c.key) = {}
  BY <1>1 DEF RowsWithId, KeysInv, RequestStands, StillUnused, LeavesKey
<1> HIDE DEF old
<1>6. PICK gone, new : gone = old /\ new = {}
  OBVIOUS
<1>7. Replaces(q, gone, new)
  BY <1>1, <1>2, <1>3, <1>4, <1>5, <1>6 DEF Replaces
<1>8. Remembers(new)
  BY <1>1, <1>6 DEF Remembers
<1> QED
  BY <1>1, <1>2, <1>7, <1>8, CoefficientsChanged

-----------------------------------------------------------------------------
(* The reset.                                                              *)

\* The reset marks rows, and none that a request has locked for update.
LEMMA MarkingStep ==
    ASSUME KeysInv, UNCHANGED <<coefficients, rules, options, req>>,
           DOMAIN reset' = DOMAIN reset,
           reset.at = "done" => reset'.at = "done",
           \A q \in Requests : req[q].excl \cap reset'.gone = {},
           reset'.late = reset.late,
           DeletesStand'
    PROVE  KeysInv'
<1>1. Shapes' /\ LocksApart' /\ UsedKeysExist'
  BY DEF KeysInv, Shapes, IsRequest, LocksApart, UsedKeysExist, RuleKeys
<1>2. \A x : Mark(x) => Mark(x)'
  BY DEF Mark, Ended
<1>3. RowsStand'
  BY <1>2 DEF KeysInv, RowsStand
<1>4. ASSUME NEW q \in Requests PROVE RequestStands(q)'
  <2>1. RequestStands(q)
    BY DEF KeysInv
  <2>2. LocksStand(q)'
    BY <2>1 DEF RequestStands, LocksStand
  <2>3. RowPrepared(q)'
    BY <2>1 DEF RequestStands, RowPrepared, Name, IsRule, IsOption, RuleKeys
  <2>4. TargetStands(q)'
    BY <1>2, <2>1 DEF RequestStands, TargetStands, Name
  <2>5. StillUnused(q)'
    BY <2>1 DEF RequestStands, StillUnused, Name, LeavesKey, Users, RuleKeys
  <2> QED
    BY <2>2, <2>3, <2>4, <2>5 DEF RequestStands
<1> QED
  BY <1>1, <1>3, <1>4 DEF KeysInv

\* What a request has locked for update is a coefficient.
LEMMA LockedCoefficients ==
    ASSUME KeysInv, NEW q \in Requests, NEW id \in req[q].excl
    PROVE  /\ id \notin reset.gone
           /\ \A r \in rules : r.id # id
           /\ \A o \in options : o.id # id
<1>1. PICK c \in coefficients : c.id = id
  BY DEF KeysInv, RequestStands, LocksStand
<1>2. id[1] = "coefficient"
  BY <1>1 DEF KeysInv, RowsStand, IsCoefficient
<1> QED
  BY <1>2 DEF KeysInv, RequestStands, LocksStand, RowsStand, IsRule, IsOption

LEMMA DeletesKeep ==
    ASSUME KeysInv,
           \/ ResetStarts \/ DeleteOptions \/ DeleteRules \/ DeleteCoefficient
           \/ CoefficientsDeleted \/ ResetFails
    PROVE  KeysInv'
<1> USE DEF ResetStep
<1>1. DOMAIN reset = {"at", "want", "gone", "late"}
  BY DEF KeysInv, Shapes
<1>2. CASE ResetStarts
  <2>1. /\ DOMAIN reset' = DOMAIN reset /\ reset.at = "idle"
        /\ reset'.at = "options" /\ reset'.gone = reset.gone
        /\ reset'.late = reset.late
        /\ UNCHANGED <<coefficients, rules, options, req>>
    BY <1>1, <1>2 DEF ResetStarts
  <2> QED
    BY <2>1, MarkingStep, LockedCoefficients DEF DeletesStand
<1>3. CASE DeleteOptions
  <2> DEFINE ids == {o.id : o \in options}
  <2>1. /\ DOMAIN reset' = DOMAIN reset /\ reset.at = "options"
        /\ reset'.at = "rules" /\ reset'.gone = reset.gone \cup ids
        /\ reset'.late = reset.late
        /\ UNCHANGED <<coefficients, rules, options, req>>
    BY <1>1, <1>3 DEF DeleteOptions
  <2>2. DeletesStand'
    BY <2>1 DEF DeletesStand
  <2>3. \A q \in Requests : req[q].excl \cap reset'.gone = {}
    BY <2>1, LockedCoefficients
  <2> QED
    BY <2>1, <2>2, <2>3, MarkingStep
<1>4. CASE DeleteRules
  <2> DEFINE ids == {r.id : r \in rules}
  <2>1. /\ DOMAIN reset' = DOMAIN reset /\ reset.at = "rules"
        /\ reset'.at = "coefficients" /\ reset'.gone = reset.gone \cup ids
        /\ reset'.late = reset.late
        /\ \A c \in coefficients : c.id \in reset'.want
        /\ UNCHANGED <<coefficients, rules, options, req>>
    BY <1>1, <1>4 DEF DeleteRules
  <2>2. DeletesStand'
    BY <2>1 DEF KeysInv, DeletesStand
  <2>3. \A q \in Requests : req[q].excl \cap reset'.gone = {}
    BY <2>1, LockedCoefficients
  <2> QED
    BY <2>1, <2>2, <2>3, MarkingStep
<1>5. CASE DeleteCoefficient
  <2> DEFINE found(id) == {c.id : c \in RowsWithId(coefficients, id)}
  <2>1. PICK id \in reset.want :
           /\ \A q \in Requests : id \notin req[q].share \cup req[q].excl
           /\ reset' = [reset EXCEPT !.want = @ \ {id}, !.gone = @ \cup found(id)]
    BY <1>5 DEF DeleteCoefficient
  <2>2. /\ found(id) \subseteq {id}
        /\ \A c \in coefficients : c.id = id => id \in found(id)
    BY DEF RowsWithId
  <2> HIDE DEF found
  <2>3. /\ DOMAIN reset' = DOMAIN reset /\ reset.at = "coefficients"
        /\ reset'.at = "coefficients" /\ reset'.gone = reset.gone \cup found(id)
        /\ reset'.want = reset.want \ {id} /\ reset'.late = reset.late
        /\ UNCHANGED <<coefficients, rules, options, req>>
    BY <1>1, <1>5, <2>1 DEF DeleteCoefficient
  <2>4. DeletesStand'
    BY <2>2, <2>3 DEF KeysInv, DeletesStand
  <2>5. \A q \in Requests : req[q].excl \cap reset'.gone = {}
    BY <2>1, <2>2, <2>3, LockedCoefficients
  <2> QED
    BY <2>3, <2>4, <2>5, MarkingStep
<1>6. CASE CoefficientsDeleted
  <2>1. /\ DOMAIN reset' = DOMAIN reset /\ reset.at = "coefficients"
        /\ reset'.at = "insert" /\ reset'.gone = reset.gone
        /\ reset'.late = reset.late /\ reset.want = {}
        /\ UNCHANGED <<coefficients, rules, options, req>>
    BY <1>1, <1>6 DEF CoefficientsDeleted
  <2>2. DeletesStand'
    BY <2>1 DEF KeysInv, DeletesStand
  <2> QED
    BY <2>1, <2>2, MarkingStep, LockedCoefficients
<1>7. CASE ResetFails
  <2>1. /\ DOMAIN reset' = DOMAIN reset
        /\ reset.at \in {"options", "rules", "coefficients", "insert"}
        /\ reset'.at = "failed" /\ reset'.gone = {}
        /\ reset'.late = reset.late
        /\ UNCHANGED <<coefficients, rules, options, req>>
    BY <1>1, <1>7 DEF ResetFails
  <2> QED
    BY <2>1, MarkingStep DEF DeletesStand
<1> QED
  BY <1>2, <1>3, <1>4, <1>5, <1>6, <1>7

\* What the dataset brings is new, and complete.
LEMMA SeedRows ==
    ASSUME NEW time
    PROVE  /\ \A c \in SeedCoefficientRows(time) :
                 /\ IsCoefficient(c) /\ c.id[2] = time /\ c.key \in SeedKeys
                 /\ c.id[3] = c.key
                 /\ c = [id |-> <<"coefficient", time, c.key>>, key |-> c.key,
                         rev |-> time]
           /\ \A k \in SeedKeys : \E c \in SeedCoefficientRows(time) : c.key = k
           /\ \A r \in SeedRuleRows(time) :
                 /\ IsRule(r) /\ RuleKeys(r) \subseteq SeedKeys
           /\ \A o \in SeedOptionRows(time) :
                 /\ IsOption(o) /\ o.id[2] = "seed" /\ o.rev = time
                 /\ o.keys \subseteq SeedKeys
           /\ \A o, p \in SeedOptionRows(time) : o.id = p.id => o = p
<1>1. \A c \in SeedCoefficientRows(time) :
          /\ IsCoefficient(c) /\ c.id[2] = time /\ c.key \in SeedKeys
          /\ c.id[3] = c.key
          /\ c = [id |-> <<"coefficient", time, c.key>>, key |-> c.key, rev |-> time]
  BY DEF SeedCoefficientRows, IsCoefficient
<1>2. \A k \in SeedKeys : \E c \in SeedCoefficientRows(time) : c.key = k
  <2>1. ASSUME NEW k \in SeedKeys
        PROVE  \E c \in SeedCoefficientRows(time) : c.key = k
    <3>1. [id |-> <<"coefficient", time, k>>, key |-> k, rev |-> time]
             \in SeedCoefficientRows(time)
      BY DEF SeedCoefficientRows
    <3> QED
      BY <3>1
  <2> QED
    BY <2>1
<1>3. \A r \in SeedRuleRows(time) : IsRule(r) /\ RuleKeys(r) \subseteq SeedKeys
  BY SeedAssumption DEF SeedValid, SeedRuleRows, IsRule, RuleKeys
<1>4. \A o \in SeedOptionRows(time) :
          /\ IsOption(o) /\ o.id[2] = "seed" /\ o.rev = time
          /\ o.keys \subseteq SeedKeys
  BY SeedAssumption DEF SeedValid, SeedOptionRows, IsOption
<1>5. \A o, p \in SeedOptionRows(time) : o.id = p.id => o = p
  BY DEF SeedOptionRows
<1> QED
  BY <1>1, <1>2, <1>3, <1>4, <1>5

LEMMA CommitKeeps ==
    ASSUME KeysInv, ResetCommits
    PROVE  KeysInv'
<1> DEFINE seedCoefficients == SeedCoefficientRows("reset")
           seedRules == SeedRuleRows("reset")
           seedOptions == SeedOptionRows("reset")
<1>1. /\ reset.at = "insert" /\ ~ Conflict /\ req' = req
      /\ coefficients' = Kept(coefficients) \cup seedCoefficients
      /\ rules' = Kept(rules) \cup seedRules
      /\ options' = Kept(options) \cup seedOptions
      /\ DOMAIN reset' = DOMAIN reset /\ reset'.at = "done"
      /\ reset'.gone = {} /\ reset'.late = reset.late
  BY DEF ResetCommits, KeysInv, Shapes
<1>2. /\ \A c \in seedCoefficients :
            IsCoefficient(c) /\ c.id[2] = "reset" /\ c.key \in SeedKeys
      /\ \A k \in SeedKeys : \E c \in seedCoefficients : c.key = k
      /\ \A r \in seedRules : IsRule(r) /\ RuleKeys(r) \subseteq SeedKeys
      /\ \A o \in seedOptions :
            /\ IsOption(o) /\ o.id[2] = "seed" /\ o.rev = "reset"
            /\ o.keys \subseteq SeedKeys
      /\ \A o, p \in seedOptions : o.id = p.id => o = p
  BY SeedRows
<1>3. \A c, d \in seedCoefficients : c.id = d.id \/ c.key = d.key => c = d
  <2>1. \A c \in seedCoefficients :
           /\ c.id[3] = c.key
           /\ c = [id |-> <<"coefficient", "reset", c.key>>, key |-> c.key,
                   rev |-> "reset"]
    BY SeedRows
  <2> HIDE DEF seedCoefficients
  <2> QED
    BY <2>1
<1> HIDE DEF seedCoefficients, seedRules, seedOptions
<1>4. /\ \A c \in Kept(coefficients) : c \in coefficients /\ c.key \notin SeedKeys
      /\ \A r \in Kept(rules) : r \in rules /\ r.id \notin reset.gone
      /\ \A o \in Kept(options) : o \in options /\ o.id \notin reset.gone
  BY <1>1 DEF Kept, Conflict
<1>5. \A x : Mark(x) => Mark(x)'
  BY <1>1 DEF Mark, Ended
<1>6. Mark("reset")' /\ Mark("seed")'
  BY <1>1, RequestNames DEF Mark
<1>7. Shapes' /\ LocksApart' /\ DeletesStand'
  BY <1>1 DEF KeysInv, Shapes, IsRequest, LocksApart, DeletesStand
<1>8. RowsStand'
  <2>1. \A c \in coefficients' : IsCoefficient(c) /\ Mark(c.id[2])'
    BY <1>1, <1>2, <1>4, <1>5, <1>6 DEF KeysInv, RowsStand
  <2>2. /\ \A r \in rules' : IsRule(r)
        /\ \A o \in options' : IsOption(o) /\ Mark(o.id[2])' /\ Mark(o.rev)'
    BY <1>1, <1>2, <1>4, <1>5, <1>6 DEF KeysInv, RowsStand
  <2>3. ASSUME NEW c \in coefficients', NEW d \in coefficients',
               c.id = d.id \/ c.key = d.key
        PROVE  c = d
    <3>1. \A e \in Kept(coefficients) : e.id[2] # "reset"
      BY <1>1, <1>4 DEF KeysInv, RowsStand, Mark
    <3>2. CASE c \in Kept(coefficients) /\ d \in Kept(coefficients)
      BY <1>4, <2>3, <3>2 DEF KeysInv, RowsStand
    <3>3. CASE c \in seedCoefficients /\ d \in seedCoefficients
      BY <1>3, <2>3, <3>3
    <3>4. CASE \/ c \in Kept(coefficients) /\ d \in seedCoefficients
               \/ d \in Kept(coefficients) /\ c \in seedCoefficients
      BY <1>2, <1>4, <2>3, <3>1, <3>4
    <3> QED
      BY <1>1, <3>2, <3>3, <3>4
  <2>4. ASSUME NEW o \in options', NEW p \in options', o.id = p.id
        PROVE  o = p
    <3>1. \A e \in Kept(options) : e.id[2] # "seed"
      BY <1>1, <1>4 DEF KeysInv, DeletesStand
    <3>2. CASE o \in Kept(options) /\ p \in Kept(options)
      BY <1>4, <2>4, <3>2 DEF KeysInv, RowsStand
    <3>3. CASE o \in seedOptions /\ p \in seedOptions
      BY <1>2, <2>4, <3>3
    <3>4. CASE \/ o \in Kept(options) /\ p \in seedOptions
               \/ p \in Kept(options) /\ o \in seedOptions
      BY <1>2, <2>4, <3>1, <3>4
    <3> QED
      BY <1>1, <3>2, <3>3, <3>4
  <2> QED
    BY <2>1, <2>2, <2>3, <2>4 DEF RowsStand
<1>9. UsedKeysExist'
  <2>1. \A k \in SeedKeys : \E c \in coefficients' : c.key = k
    BY <1>1, <1>2
  <2>2. \A r \in Kept(rules) : r.id \in reset'.late
    BY <1>1, <1>4 DEF KeysInv, DeletesStand
  <2>3. \A o \in Kept(options) : o.id \in reset'.late
    BY <1>1, <1>4 DEF KeysInv, DeletesStand
  <2>4. \A r \in rules' : r.id \notin reset'.late => RuleKeys(r) \subseteq SeedKeys
    BY <1>1, <1>2, <2>2
  <2>5. \A o \in options' : o.id \notin reset'.late => o.keys \subseteq SeedKeys
    BY <1>1, <1>2, <2>3
  <2> QED
    BY <2>1, <2>4, <2>5 DEF UsedKeysExist, RuleKeys
<1>10. ASSUME NEW q \in Requests PROVE RequestStands(q)'
  <2>1. req'[q] = req[q] /\ RequestStands(q)
    BY <1>1 DEF KeysInv
  <2>2. LocksStand(q)'
    BY <1>1, <2>1 DEF RequestStands, LocksStand, Kept
  <2>3. RowPrepared(q)'
    BY <2>1 DEF RequestStands, RowPrepared, Name, IsRule, IsOption, RuleKeys
  <2>4. TargetStands(q)'
    <3>1. \A o \in options' : o \in options \/ o.rev = "reset"
      BY <1>1, <1>2, <1>4
    <3> QED
      BY <1>1, <1>5, <2>1, <3>1 DEF RequestStands, TargetStands, Name, Mark
  <2>5. ASSUME req[q].at = "write", NEW c \in coefficients',
               c.id = req[q].target.id, LeavesKey(q, c)
        PROVE  Users(c.key)' = {}
    <3>1. \A d \in coefficients : d.id[2] # "reset"
      BY <1>1 DEF KeysInv, RowsStand, Mark
    <3>2. \E d \in coefficients : d.id = c.id
      BY <2>1, <2>5 DEF RequestStands, LocksStand
    <3>3. c \in Kept(coefficients)
      BY <1>1, <1>2, <3>1, <3>2
    <3>4. Users(c.key) = {} /\ c.key \notin SeedKeys
      BY <1>4, <2>1, <2>5, <3>3 DEF RequestStands, StillUnused
    <3> QED
      BY <1>1, <1>2, <1>4, <3>4 DEF Users, RuleKeys
  <2>6. StillUnused(q)'
    BY <2>1, <2>5 DEF StillUnused, LeavesKey, Name
  <2> QED
    BY <2>2, <2>3, <2>4, <2>6 DEF RequestStands
<1> QED
  BY <1>7, <1>8, <1>9, <1>10 DEF KeysInv

-----------------------------------------------------------------------------
LEMMA KeysInit == Init => KeysInv
<1> SUFFICES ASSUME Init PROVE KeysInv
  OBVIOUS
<1>1. /\ coefficients = SeedCoefficientRows("seed")
      /\ rules = SeedRuleRows("seed") /\ options = SeedOptionRows("seed")
      /\ reset = [at |-> "idle", want |-> {}, gone |-> {}, late |-> {}]
  BY DEF Init
<1>2. PICK op : req = [q \in Requests |-> Fresh(op[q])]
  BY DEF Init
<1>3. /\ Shapes /\ LocksApart /\ DeletesStand
      /\ \A q \in Requests : req[q].at = "form" /\ req[q].excl = {}
  BY <1>1, <1>2 DEF Fresh, Shapes, IsRequest, LocksApart, DeletesStand
<1>4. Mark("seed")
  BY RequestNames DEF Mark
<1>5. /\ \A c \in coefficients :
            /\ IsCoefficient(c) /\ c.id[2] = "seed" /\ c.key \in SeedKeys
            /\ c.id[3] = c.key
            /\ c = [id |-> <<"coefficient", "seed", c.key>>, key |-> c.key,
                    rev |-> "seed"]
      /\ \A k \in SeedKeys : \E c \in coefficients : c.key = k
      /\ \A r \in rules : IsRule(r) /\ RuleKeys(r) \subseteq SeedKeys
      /\ \A o \in options :
            /\ IsOption(o) /\ o.id[2] = "seed" /\ o.rev = "seed"
            /\ o.keys \subseteq SeedKeys
      /\ \A o, p \in options : o.id = p.id => o = p
  BY <1>1, SeedRows
<1>6. \A c, d \in coefficients : c.id = d.id \/ c.key = d.key => c = d
  BY <1>5
<1>7. RowsStand
  BY <1>4, <1>5, <1>6 DEF RowsStand
<1>8. UsedKeysExist
  BY <1>5 DEF UsedKeysExist
<1>9. ASSUME NEW q \in Requests PROVE RequestStands(q)
  BY <1>3 DEF RequestStands, LocksStand, RowPrepared, TargetStands, StillUnused
<1> QED
  BY <1>3, <1>7, <1>8, <1>9 DEF KeysInv

LEMMA KeysStep == KeysInv /\ [Next]_vars => KeysInv'
<1> SUFFICES ASSUME KeysInv, [Next]_vars PROVE KeysInv'
  OBVIOUS
<1>1. ASSUME NEW q \in Requests, RequestStep(q)
      PROVE  KeysInv'
  BY <1>1, RefuseKeeps, BeginRuleKeeps, BeginOptionKeeps, SelectKeeps, ShareKeeps,
     SaveRuleKeeps, InsertOptionKeeps, UpdateOptionKeeps, RemoveRowKeeps, CreateKeeps,
     ForUpdateKeeps, CheckKeeps, UpdateCoefficientKeeps, RemoveCoefficientKeeps
     DEF RequestStep
<1>2. ASSUME NEW q \in Requests, Submit(q)
      PROVE  KeysInv'
  BY <1>2, SubmitKeeps
<1>3. CASE ResetStarts \/ ResetNext
  BY <1>3, DeletesKeep, CommitKeeps DEF ResetNext
<1>4. CASE UNCHANGED vars
  <2>1. UNCHANGED <<coefficients, rules, options, req, reset>>
    BY <1>4 DEF vars
  <2>2. DeletesStand'
    BY <2>1 DEF KeysInv, DeletesStand
  <2> QED
    BY <2>1, <2>2, MarkingStep, LockedCoefficients
<1> QED
  BY <1>1, <1>2, <1>3, <1>4 DEF Next

\* A coefficient that a formula or the price of an option mentions exists, unless
\* the row was written while the reset was open: for any number of administrators,
\* any operations, any keys and any dataset that is complete in itself.
THEOREM KeysExist == Spec => []UsedKeysExist
<1>1. KeysInv => UsedKeysExist
  BY DEF KeysInv
<1> QED
  BY <1>1, KeysInit, KeysStep, PTL DEF Spec

\* A step of a request leaves the place of the reset as it is.
LEMMA RequestsLeaveReset ==
    ASSUME Shapes, NEW q \in Requests, Submit(q) \/ RequestStep(q)
    PROVE  reset'.at = reset.at
<1>1. UNCHANGED reset \/ \E ids : Wrote(ids)
  BY DEF Submit, RequestStep, Refuse, BeginCreateRule, BeginUpdateRule, BeginOption,
         SelectForShare, LockForShare, NoKeyFound, InsertRule, UpdateRule,
         InsertOption, UpdateOption, RemoveRule, RemoveOption, CreateCoefficient,
         LockForUpdate, CheckUnused, UpdateCoefficient, RemoveCoefficient, Expire
<1> QED
  BY <1>1, WroteLate

\* When the reset commits, the tables are those of the dataset but for the rows
\* written while it was open, whatever was in them before.
THEOREM ResetsDiscard == Spec => ResetDiscards
<1> DEFINE Discards ==
        reset.at # "done" /\ reset'.at = "done" =>
          /\ coefficients' \ SeedCoefficientRows("reset")
                \subseteq {c \in coefficients : c.id \in reset.late}
          /\ rules' \ SeedRuleRows("reset")
                \subseteq {r \in rules : r.id \in reset.late}
          /\ options' \ SeedOptionRows("reset")
                \subseteq {o \in options : o.id \in reset.late}
<1>1. KeysInv /\ [Next]_vars => Discards
  <2> SUFFICES ASSUME KeysInv, [Next]_vars, reset.at # "done", reset'.at = "done"
               PROVE  Discards
    OBVIOUS
  <2>1. DOMAIN reset = {"at", "want", "gone", "late"}
    BY DEF KeysInv, Shapes
  <2>2. ~ \E q \in Requests : Submit(q) \/ RequestStep(q)
    BY RequestsLeaveReset DEF KeysInv
  <2>3. ResetCommits
    BY <2>1, <2>2 DEF Next, vars, ResetNext, ResetStarts, DeleteOptions, DeleteRules,
                      DeleteCoefficient, CoefficientsDeleted, ResetFails, ResetStep
  <2>4. /\ reset.at = "insert"
        /\ coefficients' = Kept(coefficients) \cup SeedCoefficientRows("reset")
        /\ rules' = Kept(rules) \cup SeedRuleRows("reset")
        /\ options' = Kept(options) \cup SeedOptionRows("reset")
    BY <2>3 DEF ResetCommits
  <2>5. /\ \A c \in Kept(coefficients) : c \in coefficients /\ c.id \in reset.late
        /\ \A r \in Kept(rules) : r \in rules /\ r.id \in reset.late
        /\ \A o \in Kept(options) : o \in options /\ o.id \in reset.late
    BY <2>4 DEF KeysInv, DeletesStand, Kept
  <2> QED
    BY <2>4, <2>5
<1> QED
  BY <1>1, KeysInit, KeysStep, PTL DEF Spec, ResetDiscards

-----------------------------------------------------------------------------
(* No update of a rule is lost.                                            *)

\* Until an update has written its row, the row keeps the formulas the patch leaves
\* out of the rule it is for, if that still has the revision the form was made for.
UpdateStands(q) ==
    /\ req[q].at \in {"begin", "select", "lock"} /\ Name(q) = "updateRule" =>
          Mark(req[q].target.rev)
    /\ req[q].at \in {"select", "lock"} /\ Name(q) \in RuleSave => req[q].row.rev = q
    /\ req[q].at \in {"select", "lock"} /\ Name(q) = "createRule" =>
          req[q].row.id = <<"rule", q, req[q].op.slot>>
    /\ req[q].at \in {"select", "lock"} /\ Name(q) = "updateRule" =>
          /\ req[q].row.id = req[q].target.id
          /\ \A r \in rules :
                r.id = req[q].target.id /\ r.rev = req[q].target.rev =>
                   /\ "cost" \notin DOMAIN req[q].op.patch =>
                         req[q].row.cost = r.cost
                   /\ "labor" \notin DOMAIN req[q].op.patch =>
                         req[q].row.labor = r.labor

UpdatesInv ==
    /\ \A r \in rules : Mark(r.id[2]) /\ Mark(r.rev)
    /\ \A r, s \in rules : r.id = s.id => r = s
    /\ reset.at \in {"coefficients", "insert"} =>
          \A r \in rules : r.id[2] = "seed" => r.id \in reset.gone
    /\ \A q \in Requests : UpdateStands(q)

\* A step that brings no rule.
LEMMA NoRuleWritten ==
    ASSUME UpdatesInv, NEW q \in Requests, Alters(q), ~ Ended(q),
           reset'.at = reset.at, reset'.gone = reset.gone,
           rules' \subseteq rules, UpdateStands(q)'
    PROVE  UpdatesInv'
<1>1. \A x : Mark(x) => Mark(x)'
  BY MarksStay
<1>2. ASSUME NEW p \in Requests \ {q} PROVE UpdateStands(p)'
  <2>1. req'[p] = req[p] /\ UpdateStands(p)
    BY DEF UpdatesInv, Alters
  <2> QED
    BY <1>1, <2>1 DEF UpdateStands, Name
<1> QED
  BY <1>1, <1>2 DEF UpdatesInv

LEMMA EndWithoutRule ==
    ASSUME KeysInv, UpdatesInv, NEW q \in Requests, ~ Ended(q),
           NEW a \in Answers, Ends(q, a), rules' \subseteq rules,
           UNCHANGED reset \/ \E ids : Wrote(ids)
    PROVE  UpdatesInv'
<1>1. Alters(q) /\ req'[q].at = a
  BY EndsAlters DEF KeysInv
<1>2. reset'.at = reset.at /\ reset'.gone = reset.gone
  BY WroteLate DEF KeysInv
<1>3. UpdateStands(q)'
  BY <1>1 DEF UpdateStands, Answers
<1> QED
  BY <1>1, <1>2, <1>3, NoRuleWritten

LEMMA RuleWritten ==
    ASSUME KeysInv, UpdatesInv, NEW q \in Requests, ~ Ended(q), Ends(q, "ok"),
           NEW row, row.rev = q, Mark(row.id[2])', Wrote({row.id}),
           reset.at \in {"coefficients", "insert"} => row.id[2] # "seed",
           NEW old, old \subseteq rules, rules' = (rules \ old) \cup {row},
           \A r \in rules : r.id = row.id => r \in old
    PROVE  UpdatesInv'
<1>1. Alters(q) /\ req'[q].at = "ok"
  BY EndsAlters DEF KeysInv
<1>2. reset'.at = reset.at /\ reset'.gone = reset.gone
  BY WroteLate DEF KeysInv
<1>3. \A x : Mark(x) => Mark(x)'
  BY <1>1, <1>2, MarksStay
<1>4. Mark(row.rev)'
  BY <1>1, RequestNames DEF Mark, Ended, Answers
<1>5. UpdateStands(q)'
  BY <1>1 DEF UpdateStands
<1>6. ASSUME NEW p \in Requests \ {q} PROVE UpdateStands(p)'
  <2>1. req'[p] = req[p] /\ UpdateStands(p)
    BY <1>1 DEF UpdatesInv, Alters
  <2>2. req[p].at \in {"begin", "select", "lock"} /\ Name(p) = "updateRule" =>
           Mark(req[p].target.rev) /\ req[p].target.rev # q
    BY <2>1 DEF UpdateStands, Mark
  <2> QED
    BY <1>3, <2>1, <2>2 DEF UpdateStands, Name
<1>7. \A r, s \in rules' : r.id = s.id => r = s
  BY DEF UpdatesInv
<1>8. \A r \in rules' : Mark(r.id[2])' /\ Mark(r.rev)'
  BY <1>3, <1>4 DEF UpdatesInv
<1>9. reset'.at \in {"coefficients", "insert"} =>
         \A r \in rules' : r.id[2] = "seed" => r.id \in reset'.gone
  BY <1>2 DEF UpdatesInv
<1> QED
  BY <1>5, <1>6, <1>7, <1>8, <1>9 DEF UpdatesInv

LEMMA InsertWrites ==
    ASSUME KeysInv, UpdatesInv, NEW q \in Requests, InsertRule(q)
    PROVE  /\ UpdatesInv'
           /\ \A r \in rules, s \in rules' : r.id = s.id => r = s
<1>0. PICK row : row = req[q].row
  OBVIOUS
<1>1. /\ ~ Ended(q) /\ req[q].at = "lock" /\ Name(q) = "createRule"
      /\ Name(q) \in RuleSave
  BY DEF InsertRule, Selected, Ended, Answers, RuleSave
<1>2. CASE Ends(q, "taken") /\ UNCHANGED <<rules, reset>>
  BY <1>1, <1>2, EndWithoutRule DEF Answers, UpdatesInv
<1>3. CASE /\ rules' = rules \cup {row} /\ Ends(q, "ok") /\ Wrote({row.id})
  <2>1. row.rev = q /\ row.id[2] = q
    BY <1>0, <1>1 DEF UpdatesInv, UpdateStands
  <2>2. \A r \in rules : r.id # row.id
    BY <1>1, <2>1 DEF UpdatesInv, Mark
  <2>3. Mark(row.id[2])' /\ row.id[2] # "seed"
    <3>1. Alters(q) /\ req'[q].at = "ok"
      BY <1>3, EndsAlters DEF KeysInv
    <3>2. Mark(q)' /\ q # "seed"
      BY <3>1, RequestNames DEF Mark, Ended, Answers
    <3> QED
      BY <2>1, <3>2
  <2>4. PICK old : old = {}
    OBVIOUS
  <2>5. /\ old \subseteq rules /\ rules' = (rules \ old) \cup {row}
        /\ \A r \in rules : r.id = row.id => r \in old
    BY <1>3, <2>2, <2>4
  <2>6. UpdatesInv'
    BY <1>1, <1>3, <2>1, <2>3, <2>5, RuleWritten
  <2> QED
    BY <1>3, <2>2, <2>6 DEF UpdatesInv
<1> QED
  BY <1>0, <1>2, <1>3 DEF InsertRule

\* What an update of a rule may not do to the formulas its patch leaves out.
Preserves(q, old, new) ==
    /\ "cost" \notin DOMAIN req[q].op.patch => new.cost = old.cost
    /\ "labor" \notin DOMAIN req[q].op.patch => new.labor = old.labor

LEMMA UpdateWrites ==
    ASSUME KeysInv, UpdatesInv, NEW q \in Requests, UpdateRule(q)
    PROVE  /\ UpdatesInv'
           /\ \A r \in rules, s \in rules' :
                 r.id = s.id => r = s \/ (s.rev = q /\ Preserves(q, r, s))
<1>0. PICK row : row = req[q].row
  OBVIOUS
<1>1. /\ ~ Ended(q) /\ req[q].at = "lock" /\ Name(q) = "updateRule"
      /\ Name(q) \in RuleSave /\ req[q].target.id \notin reset.gone
      /\ TableOf(Name(q)) = rules
  BY DEF UpdateRule, Selected, Ended, Answers, RuleSave, OptionSave, TableOf
<1>2. CASE Ends(q, NotCurrent(q)) /\ UNCHANGED <<rules, reset>>
  <2>1. NotCurrent(q) \in Answers
    BY DEF NotCurrent, Answers
  <2>2. UpdatesInv'
    BY <1>1, <1>2, <2>1, EndWithoutRule
  <2> QED
    BY <1>2, <2>2 DEF UpdatesInv
<1>3. CASE /\ Current(q) # {} /\ rules' = (rules \ Current(q)) \cup {row}
           /\ Ends(q, "ok") /\ Wrote({row.id})
  <2>1. /\ row.rev = q /\ row.id = req[q].target.id
        /\ \A r \in rules : r.id = row.id /\ r.rev = req[q].target.rev =>
                               Preserves(q, r, row)
    BY <1>0, <1>1 DEF UpdatesInv, UpdateStands, Preserves
  <2>2. PICK seen \in rules : /\ seen.id = row.id /\ seen.rev = req[q].target.rev
                              /\ seen \in Current(q)
    BY <1>1, <1>3, <2>1 DEF Current
  <2>3. \A r \in rules : r.id = row.id => r = seen
    BY <2>2 DEF UpdatesInv
  <2>4. PICK old : old = Current(q)
    OBVIOUS
  <2>5. /\ old \subseteq rules /\ rules' = (rules \ old) \cup {row}
        /\ \A r \in rules : r.id = row.id => r \in old
    BY <1>1, <1>3, <2>2, <2>3, <2>4 DEF Current
  <2>6. Mark(row.id[2])'
    <3>1. Mark(row.id[2])
      BY <2>2 DEF UpdatesInv
    <3>2. Alters(q) /\ reset'.at = reset.at
      BY <1>3, EndsAlters, WroteLate DEF KeysInv
    <3> QED
      BY <1>1, <3>1, <3>2, MarksStay
  <2>7. reset.at \in {"coefficients", "insert"} => row.id[2] # "seed"
    BY <1>1, <2>1, <2>2 DEF UpdatesInv
  <2>8. UpdatesInv'
    BY <1>1, <1>3, <2>1, <2>5, <2>6, <2>7, RuleWritten
  <2>9. ASSUME NEW r \in rules, NEW s \in rules', r.id = s.id
        PROVE  r = s \/ (s.rev = q /\ Preserves(q, r, s))
    <3>1. CASE s = row
      BY <2>1, <2>2, <2>3, <2>9, <3>1
    <3>2. CASE s # row
      BY <2>5, <2>9, <3>2 DEF UpdatesInv
    <3> QED
      BY <3>1, <3>2
  <2> QED
    BY <2>8, <2>9
<1> QED
  BY <1>0, <1>2, <1>3 DEF UpdateRule

LEMMA BeginRuleUpdates ==
    ASSUME KeysInv, UpdatesInv, NEW q \in Requests,
           BeginCreateRule(q) \/ BeginUpdateRule(q)
    PROVE  UpdatesInv'
<1>1. /\ ~ Ended(q) /\ req[q].at = "begin" /\ Name(q) \in RuleSave
      /\ UNCHANGED <<coefficients, rules, options, reset>>
  BY DEF BeginCreateRule, BeginUpdateRule, Ended, Answers, RuleSave
<1>2. CASE \E a \in Answers : Ends(q, a)
  BY <1>1, <1>2, EndWithoutRule
<1>3. ASSUME NEW row, Prepared(q, row)
      PROVE  /\ Alters(q) /\ req'[q].at = "select" /\ req'[q].row = row
             /\ req'[q].target = req[q].target /\ Name(q)' = Name(q)
  BY <1>3 DEF Prepared, KeysInv, Shapes, IsRequest, Alters, Name
<1>4. CASE BeginCreateRule(q)
  <2>1. PICK new : new = [id |-> <<"rule", q, req[q].op.slot>>, slot |-> req[q].op.slot,
                          cost |-> req[q].op.patch.cost,
                          labor |-> req[q].op.patch.labor, rev |-> q]
    OBVIOUS
  <2>2. Ends(q, "taken") \/ Prepared(q, new)
    BY <1>4, <2>1 DEF BeginCreateRule
  <2>3. CASE Prepared(q, new)
    <3>1. /\ Alters(q) /\ req'[q].at = "select" /\ req'[q].row = new
          /\ Name(q)' = "createRule"
      BY <1>3, <1>4, <2>3 DEF BeginCreateRule
    <3>2. new.rev = q /\ new.id = <<"rule", q, req[q].op.slot>>
      BY <2>1
    <3>3. UpdateStands(q)'
      BY <3>1, <3>2 DEF UpdateStands, Alters
    <3> QED
      BY <1>1, <3>1, <3>3, NoRuleWritten
  <2> QED
    BY <1>2, <2>2, <2>3 DEF Answers
<1>5. CASE BeginUpdateRule(q)
  <2>1. \/ Ends(q, "notFound")
        \/ \E row \in rules :
              /\ row.id = req[q].target.id
              /\ Prepared(q, [Patched(row, req[q].op.patch) EXCEPT !.rev = q])
    BY <1>5 DEF BeginUpdateRule, RowsWithId
  <2>2. ASSUME NEW row \in rules, row.id = req[q].target.id,
               Prepared(q, [Patched(row, req[q].op.patch) EXCEPT !.rev = q])
        PROVE  UpdatesInv'
    <3>1. PICK new : new = [Patched(row, req[q].op.patch) EXCEPT !.rev = q]
      OBVIOUS
    <3>2. /\ Alters(q) /\ req'[q].at = "select" /\ req'[q].row = new
          /\ req'[q].target = req[q].target /\ Name(q)' = "updateRule"
          /\ Name(q) = "updateRule"
      BY <1>3, <1>5, <2>2, <3>1 DEF BeginUpdateRule
    <3>3. DOMAIN row = {"id", "slot", "cost", "labor", "rev"}
      BY DEF KeysInv, RowsStand, IsRule
    <3>4. /\ new.id = row.id /\ new.rev = q
          /\ "cost" \notin DOMAIN req[q].op.patch => new.cost = row.cost
          /\ "labor" \notin DOMAIN req[q].op.patch => new.labor = row.labor
      BY <3>1, <3>3 DEF Patched
    <3>5. \A r \in rules : r.id = req[q].target.id => r = row
      BY <2>2 DEF UpdatesInv
    <3>6. Mark(req[q].target.rev)
      BY <1>1, <3>2 DEF UpdatesInv, UpdateStands
    <3>7. \A x : Mark(x) => Mark(x)'
      BY <1>1, <3>2, MarksStay
    <3>8. UpdateStands(q)'
      BY <1>1, <2>2, <3>2, <3>4, <3>5, <3>6, <3>7 DEF UpdateStands, Alters, RuleSave
    <3> QED
      BY <1>1, <3>2, <3>8, NoRuleWritten
  <2> QED
    BY <1>2, <2>1, <2>2 DEF Answers
<1> QED
  BY <1>4, <1>5

LEMMA LockRuleUpdates ==
    ASSUME KeysInv, UpdatesInv, NEW q \in Requests,
           SelectForShare(q) \/ LockForShare(q)
    PROVE  UpdatesInv'
<1>1. /\ ~ Ended(q) /\ req[q].at \in {"select", "lock"}
      /\ UNCHANGED <<coefficients, rules, options, reset>>
  BY DEF SelectForShare, LockForShare, Ended, Answers
<1>2. /\ Alters(q) /\ req'[q].at = "lock"
      /\ req'[q].target = req[q].target /\ req'[q].row = req[q].row
  <2>1. ASSUME NEW wanted, req' = [req EXCEPT ![q].at = "lock", ![q].want = wanted]
        PROVE  /\ Alters(q) /\ req'[q].at = "lock"
               /\ req'[q].target = req[q].target /\ req'[q].row = req[q].row
    BY <2>1 DEF KeysInv, Shapes, IsRequest, Alters
  <2>2. ASSUME req[q].at = "lock", NEW id, NEW locked,
               req' = [req EXCEPT ![q].want = @ \ {id}, ![q].share = @ \cup locked]
        PROVE  /\ Alters(q) /\ req'[q].at = "lock"
               /\ req'[q].target = req[q].target /\ req'[q].row = req[q].row
    BY <2>2 DEF KeysInv, Shapes, IsRequest, Alters
  <2> QED
    BY <2>1, <2>2 DEF SelectForShare, LockForShare
<1>3. \A x : Mark(x) => Mark(x)'
  BY <1>1, <1>2, MarksStay
<1>4. UpdateStands(q)'
  BY <1>1, <1>2, <1>3 DEF UpdatesInv, UpdateStands, Alters, Name
<1> QED
  BY <1>1, <1>2, <1>4, NoRuleWritten

LEMMA SubmitUpdates ==
    ASSUME KeysInv, UpdatesInv, NEW q \in Requests, Submit(q)
    PROVE  UpdatesInv'
<1>1. /\ ~ Ended(q) /\ UNCHANGED <<coefficients, rules, options, reset>>
  BY DEF Submit, Ended, Answers
<1>2. /\ Alters(q) /\ req'[q].at = "begin"
      /\ Name(q) = "updateRule" => \E row \in rules : req'[q].target = row
  <2>1. /\ Alters(q) /\ req'[q].at = "begin"
        /\ Name(q) \in Targeted =>
              \E row \in TableOf(Name(q)) : req'[q].target = row
    BY DEF Submit, Moves, KeysInv, Shapes, IsRequest, Alters
  <2>2. Name(q) = "updateRule" => Name(q) \in Targeted /\ TableOf(Name(q)) = rules
    BY DEF Targeted, TableOf, RuleSave, OptionSave
  <2> QED
    BY <2>1, <2>2
<1>3. Name(q) = "updateRule" => Mark(req'[q].target.rev)
  BY <1>2 DEF UpdatesInv
<1>4. UpdateStands(q)'
  <2>1. Name(q)' = Name(q)
    BY <1>2 DEF Alters, Name
  <2>2. ASSUME Name(q) = "updateRule"
        PROVE  \E x : x = req'[q].target.rev /\ Mark(x)'
    <3>1. PICK x : x = req'[q].target.rev
      OBVIOUS
    <3>2. Mark(x)'
      BY <1>1, <1>2, <1>3, <2>2, <3>1, MarksStay
    <3> QED
      BY <3>1, <3>2
  <2> QED
    BY <1>2, <2>1, <2>2 DEF UpdateStands
<1> QED
  BY <1>1, <1>2, <1>4, NoRuleWritten

\* Who saves no rule has no rule to lose.
LEMMA OthersUpdates ==
    ASSUME KeysInv, UpdatesInv, NEW q \in Requests,
           BeginOption(q) \/ LockForUpdate(q) \/ CheckUnused(q)
    PROVE  UpdatesInv'
<1>1. /\ ~ Ended(q) /\ UNCHANGED <<coefficients, rules, options, reset>>
      /\ req[q].at # "check" => Name(q) \notin RuleSave
  BY DEF BeginOption, LockForUpdate, CheckUnused, Ended, Answers, RuleSave,
         OptionSave, CoefficientEdit
<1>2. CASE \E a \in Answers : Ends(q, a)
  BY <1>1, <1>2, EndWithoutRule
<1>3. CASE BeginOption(q)
  <2>1. ASSUME NEW a, NEW row,
               \/ \E keys : req' = [req EXCEPT ![q].at = a, ![q].keys = keys,
                                               ![q].row = row]
               \/ req' = [req EXCEPT ![q].at = a, ![q].row = row]
        PROVE  Alters(q)
    BY <2>1 DEF KeysInv, Shapes, IsRequest, Alters
  <2>2. \/ \E a \in Answers : Ends(q, a)
        \/ \E a, keys, row : req' = [req EXCEPT ![q].at = a, ![q].keys = keys,
                                                ![q].row = row]
        \/ \E a, row : req' = [req EXCEPT ![q].at = a, ![q].row = row]
    <3> DEFINE op == req[q].op
               target == req[q].target
               Three(a, keys, row) == req' = [req EXCEPT ![q].at = a, ![q].keys = keys,
                                                         ![q].row = row]
               Two(a, row) == req' = [req EXCEPT ![q].at = a, ![q].row = row]
    <3>1. \/ Ends(q, "notFound") \/ Ends(q, "stale")
          \/ Three("select", op.keys, [id |-> <<"option", q, q>>, keys |-> op.keys,
                                       rev |-> q])
          \/ Three("select", op.keys, [target EXCEPT !.keys = op.keys, !.rev = q])
          \/ Two("lock", [target EXCEPT !.rev = q])
      BY <1>3 DEF BeginOption
    <3>2. "notFound" \in Answers /\ "stale" \in Answers
      BY DEF Answers
    <3> HIDE DEF Three, Two
    <3>3. \/ \E a \in Answers : Ends(q, a)
          \/ \E a, keys, row : Three(a, keys, row)
          \/ \E a, row : Two(a, row)
      BY <3>1, <3>2
    <3> QED
      BY <3>3 DEF Three, Two
  <2>3. CASE Alters(q)
    <3>1. req[q].at = "begin"
      BY <1>3 DEF BeginOption
    <3>2. UpdateStands(q)'
      BY <1>1, <2>3, <3>1 DEF UpdateStands, Alters, Name, RuleSave
    <3> QED
      BY <1>1, <2>3, <3>2, NoRuleWritten
  <2> QED
    BY <1>2, <2>1, <2>2, <2>3
<1>4. CASE LockForUpdate(q) \/ CheckUnused(q)
  <2>1. ASSUME NEW id, req' = [req EXCEPT ![q].at = "check", ![q].excl = {id}]
        PROVE  Alters(q) /\ req'[q].at = "check"
    BY <2>1 DEF KeysInv, Shapes, IsRequest, Alters
  <2>2. Moves(q, "write") => Alters(q) /\ req'[q].at = "write"
    BY MovesAlters DEF KeysInv
  <2>3. \/ \E a \in Answers : Ends(q, a)
        \/ Alters(q) /\ req'[q].at \in {"check", "write"}
    BY <1>4, <2>1, <2>2 DEF LockForUpdate, CheckUnused, Answers
  <2>4. CASE Alters(q) /\ req'[q].at \in {"check", "write"}
    <3>1. UpdateStands(q)'
      BY <2>4 DEF UpdateStands
    <3> QED
      BY <1>1, <2>4, <3>1, NoRuleWritten
  <2> QED
    BY <1>2, <2>3, <2>4
<1> QED
  BY <1>3, <1>4

\* Every other step of a request ends it, and brings no rule.
LEMMA EndsUpdates ==
    ASSUME KeysInv, UpdatesInv, NEW q \in Requests,
           \/ Refuse(q) \/ NoKeyFound(q) \/ Expire(q)
           \/ InsertOption(q) \/ UpdateOption(q) \/ RemoveRule(q) \/ RemoveOption(q)
           \/ CreateCoefficient(q) \/ UpdateCoefficient(q) \/ RemoveCoefficient(q)
    PROVE  /\ UpdatesInv'
           /\ \A r \in rules, s \in rules' : r.id = s.id => r = s
<1>1. ~ Ended(q) /\ rules' \subseteq rules
  BY DEF Refuse, NoKeyFound, Expire, InsertOption, UpdateOption, RemoveRule,
         RemoveOption, CreateCoefficient, UpdateCoefficient, RemoveCoefficient,
         InTransaction, Selected, Ended, Answers
<1>2. UNCHANGED reset \/ \E ids : Wrote(ids)
  BY DEF Refuse, NoKeyFound, Expire, InsertOption, UpdateOption, RemoveRule,
         RemoveOption, CreateCoefficient, UpdateCoefficient, RemoveCoefficient
<1>3. \E a \in Answers : Ends(q, a)
  BY DEF Refuse, NoKeyFound, Expire, InsertOption, UpdateOption, RemoveRule,
         RemoveOption, CreateCoefficient, UpdateCoefficient, RemoveCoefficient,
         NotCurrent, Answers
<1>4. UpdatesInv'
  BY <1>1, <1>2, <1>3, EndWithoutRule
<1> QED
  BY <1>1, <1>4 DEF UpdatesInv

LEMMA ResetUpdates ==
    ASSUME KeysInv, UpdatesInv,
           \/ ResetStarts \/ DeleteOptions \/ DeleteRules \/ DeleteCoefficient
           \/ CoefficientsDeleted \/ ResetFails \/ UNCHANGED vars
    PROVE  UpdatesInv'
<1>1. DOMAIN reset = {"at", "want", "gone", "late"}
  BY DEF KeysInv, Shapes
<1>2. UNCHANGED <<coefficients, rules, options, req>>
  BY DEF ResetStarts, DeleteOptions, DeleteRules, DeleteCoefficient,
         CoefficientsDeleted, ResetFails, ResetStep, vars
<1>3. reset.at = "done" => reset'.at = "done"
  BY DEF ResetStarts, DeleteOptions, DeleteRules, DeleteCoefficient,
         CoefficientsDeleted, ResetFails, ResetStep, vars
<1>4. reset'.at \in {"coefficients", "insert"} =>
         \/ \A r \in rules : r.id \in reset'.gone
         \/ reset.at \in {"coefficients", "insert"} /\ reset.gone \subseteq reset'.gone
  <2> DEFINE ids == {r.id : r \in rules}
  <2>1. CASE DeleteRules
    <3>1. reset'.gone = reset.gone \cup ids
      BY <1>1, <2>1 DEF DeleteRules, ResetStep
    <3> QED
      BY <3>1
  <2>2. CASE DeleteCoefficient
    <3>1. PICK found : reset.at = "coefficients" /\ reset'.gone = reset.gone \cup found
      BY <1>1, <2>2 DEF DeleteCoefficient, ResetStep
    <3> QED
      BY <3>1
  <2>3. CASE CoefficientsDeleted
    BY <1>1, <2>3 DEF CoefficientsDeleted, ResetStep
  <2>4. CASE ResetStarts \/ DeleteOptions \/ ResetFails
    BY <1>1, <2>4 DEF ResetStarts, DeleteOptions, ResetFails, ResetStep
  <2>5. CASE UNCHANGED vars
    BY <2>5 DEF vars
  <2> QED
    BY <2>1, <2>2, <2>3, <2>4, <2>5
<1>5. \A x : Mark(x) => Mark(x)'
  BY <1>2, <1>3 DEF Mark, Ended
<1>6. ASSUME NEW q \in Requests PROVE UpdateStands(q)'
  BY <1>2, <1>5 DEF UpdatesInv, UpdateStands, Name
<1> QED
  BY <1>2, <1>4, <1>5, <1>6 DEF UpdatesInv

LEMMA CommitUpdates ==
    ASSUME KeysInv, UpdatesInv, ResetCommits
    PROVE  /\ UpdatesInv'
           /\ \A r \in rules, s \in rules' : s.rev \in Requests => s \in rules
<1> DEFINE seeds == SeedRuleRows("reset")
<1>1. /\ reset.at = "insert" /\ req' = req /\ reset'.at = "done"
      /\ rules' = Kept(rules) \cup seeds
  BY DEF ResetCommits, KeysInv, Shapes
<1>2. /\ \A r \in seeds : r.id[2] = "seed" /\ r.rev = "reset"
      /\ \A r, s \in seeds : r.id = s.id => r = s
  BY DEF SeedRuleRows
<1> HIDE DEF seeds
<1>3. \A r \in Kept(rules) : r \in rules /\ r.id[2] # "seed"
  BY <1>1 DEF UpdatesInv, Kept
<1>4. \A x : Mark(x) => Mark(x)'
  BY <1>1 DEF Mark, Ended
<1>5. Mark("reset")' /\ Mark("seed")'
  BY <1>1, RequestNames DEF Mark
<1>6. \A r \in rules' : Mark(r.id[2])' /\ Mark(r.rev)'
  BY <1>1, <1>2, <1>3, <1>4, <1>5 DEF UpdatesInv
<1>7. \A r, s \in rules' : r.id = s.id => r = s
  BY <1>1, <1>2, <1>3 DEF UpdatesInv
<1>8. ASSUME NEW q \in Requests PROVE UpdateStands(q)'
  <2>1. req'[q] = req[q] /\ UpdateStands(q)
    BY <1>1 DEF UpdatesInv
  <2>2. \A r \in rules' : r \in rules \/ r.rev = "reset"
    BY <1>1, <1>2, <1>3
  <2>3. Mark(req[q].target.rev) => req[q].target.rev # "reset"
    BY <1>1 DEF Mark
  <2> QED
    BY <1>4, <2>1, <2>2, <2>3 DEF UpdateStands, Name
<1>9. UpdatesInv'
  BY <1>1, <1>6, <1>7, <1>8 DEF UpdatesInv
<1>10. \A s \in rules' : s.rev \in Requests => s \in rules
  BY <1>1, <1>2, <1>3, RequestNames
<1> QED
  BY <1>9, <1>10

LEMMA UpdatesInit == Init => UpdatesInv
<1> SUFFICES ASSUME Init PROVE UpdatesInv
  OBVIOUS
<1>1. rules = SeedRuleRows("seed") /\ reset.at = "idle"
  BY DEF Init
<1>2. /\ \A r \in rules : r.id[2] = "seed" /\ r.rev = "seed"
      /\ \A r, s \in rules : r.id = s.id => r = s
  BY <1>1 DEF SeedRuleRows
<1>3. Mark("seed")
  BY RequestNames DEF Mark
<1>4. \A q \in Requests : req[q].at = "form"
  BY DEF Init, Fresh
<1> QED
  BY <1>1, <1>2, <1>3, <1>4 DEF UpdatesInv, UpdateStands

\* A request writes the rule it updates and no other; nobody else writes a rule.
LEMMA UpdatesStep ==
    ASSUME KeysInv, UpdatesInv, [Next]_vars
    PROVE  /\ UpdatesInv'
           /\ \A q \in Requests : \A r \in rules, s \in rules' :
                 r.id = s.id /\ s.rev = q /\ r.rev # q => Preserves(q, r, s)
<1> DEFINE Lossless == \A q \in Requests : \A r \in rules, s \in rules' :
                          r.id = s.id /\ s.rev = q /\ r.rev # q => Preserves(q, r, s)
<1>1. \A r \in rules, s \in rules : r.id = s.id => r = s
  BY DEF UpdatesInv
<1>2. ASSUME NEW p \in Requests, Submit(p) \/ RequestStep(p)
      PROVE  UpdatesInv' /\ Lossless
  <2>1. CASE \/ Submit(p) \/ BeginCreateRule(p) \/ BeginUpdateRule(p) \/ BeginOption(p)
             \/ SelectForShare(p) \/ LockForShare(p)
             \/ LockForUpdate(p) \/ CheckUnused(p)
    <3>1. rules' = rules
      BY <2>1 DEF Submit, BeginCreateRule, BeginUpdateRule, BeginOption, SelectForShare,
                  LockForShare, LockForUpdate, CheckUnused
    <3>2. UpdatesInv'
      BY <2>1, SubmitUpdates, BeginRuleUpdates, LockRuleUpdates, OthersUpdates
    <3> QED
      BY <1>1, <3>1, <3>2
  <2>2. CASE InsertRule(p)
    BY <2>2, InsertWrites
  <2>3. CASE UpdateRule(p)
    <3>1. /\ UpdatesInv'
          /\ \A r \in rules, s \in rules' :
                r.id = s.id => r = s \/ (s.rev = p /\ Preserves(p, r, s))
      BY <2>3, UpdateWrites
    <3> QED
      BY <3>1
  <2>4. CASE \/ Refuse(p) \/ NoKeyFound(p) \/ Expire(p)
             \/ InsertOption(p) \/ UpdateOption(p) \/ RemoveRule(p) \/ RemoveOption(p)
             \/ CreateCoefficient(p) \/ UpdateCoefficient(p) \/ RemoveCoefficient(p)
    BY <2>4, EndsUpdates
  <2> QED
    BY <1>2, <2>1, <2>2, <2>3, <2>4 DEF RequestStep
<1>3. CASE \/ ResetStarts \/ DeleteOptions \/ DeleteRules \/ DeleteCoefficient
           \/ CoefficientsDeleted \/ ResetFails \/ UNCHANGED vars
  <2>1. rules' = rules
    BY <1>3 DEF ResetStarts, DeleteOptions, DeleteRules, DeleteCoefficient,
                CoefficientsDeleted, ResetFails, ResetStep, vars
  <2> QED
    BY <1>1, <1>3, <2>1, ResetUpdates
<1>4. CASE ResetCommits
  <2>1. /\ UpdatesInv'
        /\ \A r \in rules, s \in rules' : s.rev \in Requests => s \in rules
    BY <1>4, CommitUpdates
  <2> QED
    BY <1>1, <2>1
<1> QED
  BY <1>2, <1>3, <1>4 DEF Next, ResetNext

\* An update of a rule rewrites all its formulas and never undoes a change that was
\* committed since the row was read.
THEOREM UpdatesKept == Spec => NoLostUpdate
<1> DEFINE Lossless ==
        \A q \in Requests : \A old \in rules, new \in rules' :
            old.id = new.id /\ new.rev = q /\ old.rev # q =>
               /\ "cost" \notin DOMAIN req[q].op.patch => new.cost = old.cost
               /\ "labor" \notin DOMAIN req[q].op.patch => new.labor = old.labor
<1>1. KeysInv /\ UpdatesInv /\ [Next]_vars => UpdatesInv' /\ Lossless
  BY UpdatesStep DEF Preserves
<1> QED
  BY <1>1, KeysInit, KeysStep, UpdatesInit, PTL DEF Spec, NoLostUpdate
-----------------------------------------------------------------------------
(* Types, and the unique slot of a rule.  The slot of a rule is part of its  *)
(* id, so the row an update writes has the slot of the row it replaces, also *)
(* when that was deleted and seeded again since the update read it.          *)

RuleTyped(r) ==
    r.slot = r.id[3] /\ r.slot \in Slots \cup {Object} /\ RuleKeys(r) \subseteq Keys

Places == {"form", "begin", "select", "lock", "check", "write"} \cup Answers

\* What a request has read and prepared is typed like the row it will write.
RequestTyped(q) ==
    /\ req[q].op \in Operations[q]
    /\ req[q].at \in Places
    /\ req[q].keys \subseteq Keys
    /\ req[q].at \in {"begin", "select", "lock"}
          /\ Name(q) \in {"updateOption", "patchOption"} =>
             req[q].target.keys \subseteq Keys
    /\ req[q].at \in {"select", "lock"} =>
          /\ Name(q) \in RuleSave => RuleTyped(req[q].row)
          /\ Name(q) = "createRule" => req[q].row.slot = req[q].op.slot
          /\ Name(q) \in OptionSave => req[q].row.keys \subseteq Keys

ResetPlaces ==
    {"idle", "options", "rules", "coefficients", "insert", "done", "failed"}

SlotsUnique(table) ==
    \A r, s \in table : r.slot = s.slot /\ r.slot # Object => r = s

TypesInv ==
    /\ \A c \in coefficients : c.key \in Keys
    /\ \A r \in rules : RuleTyped(r)
    /\ \A o \in options : o.keys \subseteq Keys
    /\ \A q \in Requests : RequestTyped(q)
    /\ reset.at \in ResetPlaces
    /\ SlotsUnique(rules)

\* What the operations say about the fields a request brings.
LEMMA OperationFields ==
    ASSUME NEW q \in Requests, req[q].op \in Operations[q]
    PROVE  LET op == req[q].op
           IN  /\ op.name = "createRule" =>
                     /\ op.slot \in Slots \cup {Object}
                     /\ op.patch.cost \subseteq Keys /\ op.patch.labor \subseteq Keys
               /\ op.name = "updateRule" =>
                     /\ "cost" \in DOMAIN op.patch => op.patch.cost \subseteq Keys
                     /\ "labor" \in DOMAIN op.patch => op.patch.labor \subseteq Keys
               /\ op.name \in {"createOption", "updateOption"} =>
                     op.keys \subseteq Keys
               /\ op.name \in {"createCoefficient", "renameCoefficient"} =>
                     op.key \in Keys
<1> DEFINE op == req[q].op
<1>1. op \in Operation
  BY OperationsAssumption
<1> HIDE DEF op
<1>2. op.name = "createRule" =>
         op.slot \in Slots \cup {Object} /\ op.patch \in Formulas
  BY <1>1 DEF Operation
<1>3. op.name = "updateRule" => op.patch \in Patches
  BY <1>1 DEF Operation
<1>4. /\ op.name \in {"createOption", "updateOption"} => op.keys \subseteq Keys
      /\ op.name \in {"createCoefficient", "renameCoefficient"} => op.key \in Keys
  BY <1>1 DEF Operation
<1>5. \A f \in Formulas : f.cost \subseteq Keys /\ f.labor \subseteq Keys
  BY DEF Formulas
<1>6. \A f \in Patches : /\ "cost" \in DOMAIN f => f.cost \subseteq Keys
                         /\ "labor" \in DOMAIN f => f.labor \subseteq Keys
  BY <1>5 DEF Patches
<1> QED
  BY <1>2, <1>3, <1>4, <1>5, <1>6 DEF op

\* A step of one request changes the types of nothing but what it writes.
LEMMA OneTyped ==
    ASSUME TypesInv, NEW q \in Requests, Alters(q), RequestTyped(q)',
           reset'.at = reset.at,
           \A c \in coefficients' \ coefficients : c.key \in Keys,
           \A r \in rules' \ rules : RuleTyped(r),
           \A o \in options' \ options : o.keys \subseteq Keys,
           SlotsUnique(rules')
    PROVE  TypesInv'
<1>1. ASSUME NEW p \in Requests PROVE RequestTyped(p)'
  <2>1. CASE p # q
    BY <2>1 DEF TypesInv, Alters, RequestTyped, Name, RuleTyped, RuleKeys
  <2> QED
    BY <2>1
<1>2. \A r \in rules' : RuleTyped(r)
  BY DEF TypesInv
<1> QED
  BY <1>1, <1>2 DEF TypesInv, SlotsUnique, RuleTyped, RuleKeys

LEMMA QuietTyped ==
    ASSUME TypesInv, NEW q \in Requests, Alters(q), RequestTyped(q)',
           UNCHANGED <<coefficients, rules, options, reset>>
    PROVE  TypesInv'
BY OneTyped DEF TypesInv, SlotsUnique

\* A request that ends keeps its operation and its keys.
LEMMA EndTyped ==
    ASSUME KeysInv, TypesInv, NEW q \in Requests, NEW a \in Answers, Ends(q, a)
    PROVE  Alters(q) /\ RequestTyped(q)'
<1>1. Alters(q) /\ req'[q].at = a /\ req'[q].keys = req[q].keys
  BY DEF KeysInv, Shapes, IsRequest, Ends, Alters
<1>2. a \notin {"begin", "select", "lock"}
  BY DEF Answers
<1> QED
  BY <1>1, <1>2 DEF TypesInv, RequestTyped, Alters, Places

\* A request that goes on without having prepared or read anything new.
LEMMA GoesOnTyped ==
    ASSUME TypesInv, NEW q \in Requests, Alters(q), req'[q].at \in Places,
           req'[q].keys = req[q].keys, req'[q].target = req[q].target,
           req'[q].row = req[q].row,
           req'[q].at \in {"begin", "select", "lock"} =>
              req[q].at \in {"begin", "select", "lock"},
           req'[q].at \in {"select", "lock"} => req[q].at \in {"select", "lock"}
    PROVE  RequestTyped(q)'
BY DEF TypesInv, RequestTyped, Alters, Name, RuleTyped, RuleKeys

LEMMA QuietEndTyped ==
    ASSUME KeysInv, TypesInv, NEW q \in Requests, NEW a \in Answers, Ends(q, a),
           UNCHANGED <<coefficients, rules, options, reset>>
    PROVE  TypesInv'
BY EndTyped, QuietTyped

LEMMA SubmitTyped ==
    ASSUME KeysInv, TypesInv, NEW q \in Requests, Submit(q)
    PROVE  TypesInv'
<1>1. /\ UNCHANGED <<coefficients, rules, options, reset>>
      /\ Alters(q) /\ req'[q].at = "begin" /\ req'[q].keys = req[q].keys
      /\ Name(q) \in Targeted => req'[q].target \in TableOf(Name(q))
  BY DEF Submit, Moves, KeysInv, Shapes, IsRequest, Alters
<1>2. Name(q)' \in {"updateOption", "patchOption"} => req'[q].target \in options
  BY <1>1 DEF Alters, Name, Targeted, TableOf, RuleSave, OptionSave
<1>3. RequestTyped(q)'
  BY <1>1, <1>2 DEF TypesInv, RequestTyped, Alters, Places
<1> QED
  BY <1>1, <1>3, QuietTyped

LEMMA BeginRuleTyped ==
    ASSUME KeysInv, TypesInv, NEW q \in Requests,
           BeginCreateRule(q) \/ BeginUpdateRule(q)
    PROVE  TypesInv'
<1>1. /\ Name(q) \in RuleSave
      /\ UNCHANGED <<coefficients, rules, options, reset>>
  BY DEF BeginCreateRule, BeginUpdateRule, RuleSave
<1>2. CASE \E a \in Answers : Ends(q, a)
  BY <1>1, <1>2, QuietEndTyped
<1>3. ASSUME NEW row, RuleTyped(row), Prepared(q, row),
             Name(q) = "createRule" => row.slot = req[q].op.slot
      PROVE  TypesInv'
  <2>1. /\ Alters(q) /\ req'[q].at = "select" /\ req'[q].row = row
        /\ req'[q].keys = RuleKeys(row)
    BY <1>3 DEF Prepared, KeysInv, Shapes, IsRequest, Alters
  <2>2. RequestTyped(q)'
    BY <1>1, <1>3, <2>1 DEF TypesInv, RequestTyped, Alters, Name, Places, RuleTyped,
                            RuleKeys, RuleSave, OptionSave
  <2> QED
    BY <1>1, <2>1, <2>2, QuietTyped
<1>4. CASE BeginCreateRule(q)
  <2> DEFINE op == req[q].op
             new == [id |-> <<"rule", q, op.slot>>, slot |-> op.slot,
                     cost |-> op.patch.cost, labor |-> op.patch.labor, rev |-> q]
  <2>1. Ends(q, "taken") \/ (Prepared(q, new) /\ Name(q) = "createRule")
    BY <1>4 DEF BeginCreateRule
  <2>2. Name(q) = "createRule" => RuleTyped(new) /\ new.slot = op.slot
    BY OperationFields DEF TypesInv, RequestTyped, Name, RuleTyped, RuleKeys
  <2> HIDE DEF new
  <2> QED
    BY <1>2, <1>3, <2>1, <2>2 DEF Answers
<1>5. CASE BeginUpdateRule(q)
  <2>1. \/ Ends(q, "notFound")
        \/ \E row \in rules :
              Prepared(q, [Patched(row, req[q].op.patch) EXCEPT !.rev = q])
    BY <1>5 DEF BeginUpdateRule, RowsWithId
  <2>2. ASSUME NEW row \in rules
        PROVE  RuleTyped([Patched(row, req[q].op.patch) EXCEPT !.rev = q])
    <3>1. DOMAIN row = {"id", "slot", "cost", "labor", "rev"}
      BY DEF KeysInv, RowsStand, IsRule
    <3>2. Name(q) = "updateRule" /\ req[q].op \in Operations[q]
      BY <1>5 DEF BeginUpdateRule, TypesInv, RequestTyped
    <3>3. PICK new : new = [Patched(row, req[q].op.patch) EXCEPT !.rev = q]
      OBVIOUS
    <3>4. /\ new.id = row.id /\ new.slot = row.slot
          /\ new.cost = row.cost
                \/ ("cost" \in DOMAIN req[q].op.patch /\ new.cost = req[q].op.patch.cost)
          /\ new.labor = row.labor
                \/ ("labor" \in DOMAIN req[q].op.patch
                       /\ new.labor = req[q].op.patch.labor)
      BY <3>1, <3>3 DEF Patched
    <3>5. RuleTyped(row)
      BY DEF TypesInv
    <3>6. new.cost \subseteq Keys /\ new.labor \subseteq Keys
      BY <3>2, <3>4, <3>5, OperationFields DEF RuleTyped, RuleKeys, Name
    <3> QED
      BY <3>3, <3>4, <3>5, <3>6 DEF RuleTyped, RuleKeys
  <2>3. Name(q) # "createRule"
    BY <1>5 DEF BeginUpdateRule
  <2> QED
    BY <1>2, <1>3, <2>1, <2>2, <2>3 DEF Answers
<1> QED
  BY <1>4, <1>5

LEMMA BeginOptionTyped ==
    ASSUME KeysInv, TypesInv, NEW q \in Requests, BeginOption(q)
    PROVE  TypesInv'
<1> DEFINE op == req[q].op
           target == req[q].target
<1>1. /\ req[q].at = "begin" /\ Name(q) \in OptionSave
      /\ UNCHANGED <<coefficients, rules, options, reset>>
  BY DEF BeginOption
<1>2. CASE Ends(q, "notFound") \/ Ends(q, "stale")
  BY <1>1, <1>2, QuietEndTyped DEF Answers
<1>3. ASSUME NEW a \in {"select", "lock"}, NEW keys, NEW row,
             keys \subseteq Keys, row.keys \subseteq Keys,
             req' = [req EXCEPT ![q].at = a, ![q].keys = keys, ![q].row = row]
      PROVE  TypesInv'
  <2>1. /\ Alters(q) /\ req'[q].at = a /\ req'[q].row = row
        /\ req'[q].keys = keys /\ req'[q].target = target
    BY <1>3 DEF KeysInv, Shapes, IsRequest, Alters
  <2>2. RequestTyped(q)'
    BY <1>1, <1>3, <2>1 DEF TypesInv, RequestTyped, Alters, Name, Places, RuleSave,
                            OptionSave
  <2> QED
    BY <1>1, <2>1, <2>2, QuietTyped
<1>4. ASSUME NEW row, row.keys \subseteq Keys,
             req' = [req EXCEPT ![q].at = "lock", ![q].row = row]
      PROVE  TypesInv'
  <2>1. /\ Alters(q) /\ req'[q].at = "lock" /\ req'[q].row = row
        /\ req'[q].keys = req[q].keys /\ req'[q].target = target
    BY <1>4 DEF KeysInv, Shapes, IsRequest, Alters
  <2>2. RequestTyped(q)'
    BY <1>1, <1>4, <2>1 DEF TypesInv, RequestTyped, Alters, Name, Places, RuleSave,
                            OptionSave
  <2> QED
    BY <1>1, <2>1, <2>2, QuietTyped
<1>5. op.name \in {"createOption", "updateOption"} => op.keys \subseteq Keys
  BY OperationFields DEF TypesInv, RequestTyped
<1>6. target \in options =>
         DOMAIN target = {"id", "keys", "rev"} /\ target.keys \subseteq Keys
  BY DEF KeysInv, RowsStand, IsOption, TypesInv
<1>7. CASE /\ op.name = "createOption"
           /\ req' = [req EXCEPT ![q].at = "select", ![q].keys = op.keys,
                                 ![q].row = [id |-> <<"option", q, q>>,
                                             keys |-> op.keys, rev |-> q]]
  <2> DEFINE new == [id |-> <<"option", q, q>>, keys |-> op.keys, rev |-> q]
  <2>1. new.keys \subseteq Keys
    BY <1>5, <1>7
  <2> HIDE DEF new
  <2> QED
    BY <1>3, <1>5, <1>7, <2>1 DEF new
<1>8. CASE /\ op.name = "updateOption" /\ target \in options
           /\ req' = [req EXCEPT ![q].at = "select", ![q].keys = op.keys,
                                 ![q].row = [target EXCEPT !.keys = op.keys, !.rev = q]]
  <2> DEFINE new == [target EXCEPT !.keys = op.keys, !.rev = q]
  <2>1. new.keys \subseteq Keys
    BY <1>5, <1>6, <1>8
  <2> HIDE DEF new
  <2> QED
    BY <1>3, <1>5, <1>8, <2>1 DEF new
<1>9. CASE /\ target \in options
           /\ req' = [req EXCEPT ![q].at = "lock", ![q].row = [target EXCEPT !.rev = q]]
  <2> DEFINE new == [target EXCEPT !.rev = q]
  <2>1. new.keys \subseteq Keys
    BY <1>6, <1>9
  <2> HIDE DEF new
  <2> QED
    BY <1>4, <1>9, <2>1 DEF new
<1> QED
  BY <1>2, <1>7, <1>8, <1>9 DEF BeginOption, RowsWithId

\* The selects and the checks leave what was prepared alone.
LEMMA LocksTyped ==
    ASSUME KeysInv, TypesInv, NEW q \in Requests,
           SelectForShare(q) \/ LockForShare(q) \/ LockForUpdate(q) \/ CheckUnused(q)
    PROVE  TypesInv'
<1>1. UNCHANGED <<coefficients, rules, options, reset>>
  BY DEF SelectForShare, LockForShare, LockForUpdate, CheckUnused
<1>2. CASE \E a \in Answers : Ends(q, a)
  BY <1>1, <1>2, QuietEndTyped
<1>3. ASSUME Alters(q), req'[q].target = req[q].target, req'[q].row = req[q].row,
             req'[q].keys = req[q].keys,
             \/ req[q].at \in {"select", "lock"} /\ req'[q].at = "lock"
             \/ req'[q].at \in {"check", "write"}
      PROVE  TypesInv'
  <2>1. RequestTyped(q)'
    BY <1>3, GoesOnTyped DEF Places
  <2> QED
    BY <1>1, <1>3, <2>1, QuietTyped
<1>4. CASE SelectForShare(q) \/ LockForShare(q)
  <2>1. ASSUME NEW wanted, req' = [req EXCEPT ![q].at = "lock", ![q].want = wanted]
        PROVE  /\ Alters(q) /\ req'[q].at = "lock" /\ req'[q].keys = req[q].keys
               /\ req'[q].target = req[q].target /\ req'[q].row = req[q].row
    BY <2>1 DEF KeysInv, Shapes, IsRequest, Alters
  <2>2. ASSUME req[q].at = "lock", NEW id, NEW locked,
               req' = [req EXCEPT ![q].want = @ \ {id}, ![q].share = @ \cup locked]
        PROVE  /\ Alters(q) /\ req'[q].at = "lock" /\ req'[q].keys = req[q].keys
               /\ req'[q].target = req[q].target /\ req'[q].row = req[q].row
    BY <2>2 DEF KeysInv, Shapes, IsRequest, Alters
  <2> QED
    BY <1>3, <1>4, <2>1, <2>2 DEF SelectForShare, LockForShare
<1>5. CASE LockForUpdate(q) \/ CheckUnused(q)
  <2>1. ASSUME NEW id, req' = [req EXCEPT ![q].at = "check", ![q].excl = {id}]
        PROVE  /\ Alters(q) /\ req'[q].at = "check" /\ req'[q].keys = req[q].keys
               /\ req'[q].target = req[q].target /\ req'[q].row = req[q].row
    BY <2>1 DEF KeysInv, Shapes, IsRequest, Alters
  <2>2. ASSUME Moves(q, "write")
        PROVE  TypesInv'
    BY <1>3, <2>2, MovesAlters DEF KeysInv
  <2>3. \/ \E a \in Answers : Ends(q, a)
        \/ \E id : req' = [req EXCEPT ![q].at = "check", ![q].excl = {id}]
        \/ Moves(q, "write")
    BY <1>5 DEF LockForUpdate, CheckUnused, Answers
  <2> QED
    BY <1>2, <1>3, <2>1, <2>2, <2>3
<1> QED
  BY <1>4, <1>5

\* A rule written is one nobody has, or takes the place of the row with its id.
LEMMA RuleSaveTyped ==
    ASSUME KeysInv, TypesInv, UpdatesInv, NEW q \in Requests,
           InsertRule(q) \/ UpdateRule(q)
    PROVE  TypesInv'
<1>1. /\ req[q].at = "lock" /\ UNCHANGED <<coefficients, options>>
      /\ \E a \in Answers : Ends(q, a)
      /\ UNCHANGED reset \/ \E ids : Wrote(ids)
  BY DEF InsertRule, UpdateRule, Selected, NotCurrent, Answers
<1>2. Alters(q) /\ RequestTyped(q)' /\ reset'.at = reset.at
  BY <1>1, EndTyped, WroteLate DEF KeysInv
<1>3. ASSUME rules' = rules PROVE TypesInv'
  BY <1>1, <1>2, <1>3, OneTyped DEF TypesInv
<1>4. Name(q) \in RuleSave /\ RuleTyped(req[q].row)
  BY <1>1 DEF InsertRule, UpdateRule, RuleSave, TypesInv, RequestTyped
<1>5. CASE InsertRule(q) /\ rules' # rules
  <2>1. /\ rules' = rules \cup {req[q].row} /\ Name(q) = "createRule"
        /\ \A r \in rules : req[q].op.slot = Object \/ r.slot # req[q].op.slot
    BY <1>5 DEF InsertRule
  <2>2. req[q].row.slot = req[q].op.slot
    BY <1>1, <2>1 DEF TypesInv, RequestTyped
  <2>3. SlotsUnique(rules')
    BY <2>1, <2>2 DEF TypesInv, SlotsUnique
  <2> QED
    BY <1>1, <1>2, <1>4, <2>1, <2>3, OneTyped
<1>6. CASE UpdateRule(q) /\ rules' # rules
  <2>1. /\ rules' = (rules \ Current(q)) \cup {req[q].row} /\ Current(q) # {}
        /\ Name(q) = "updateRule"
    BY <1>6 DEF UpdateRule
  <2>2. Current(q) \subseteq rules /\ \A r \in Current(q) : r.id = req[q].target.id
    <3>1. TableOf(Name(q)) = rules
      BY <2>1 DEF TableOf, RuleSave, OptionSave
    <3> QED
      BY <3>1 DEF Current
  <2>3. PICK old \in Current(q) : TRUE
    BY <2>1
  <2>4. req[q].row.id = old.id
    BY <1>1, <2>1, <2>2 DEF UpdatesInv, UpdateStands
  <2>5. req[q].row.slot = old.slot
    BY <1>4, <2>2, <2>4 DEF TypesInv, RuleTyped
  <2>6. SlotsUnique(rules')
    BY <2>1, <2>2, <2>5 DEF TypesInv, SlotsUnique
  <2> QED
    BY <1>1, <1>2, <1>4, <2>1, <2>6, OneTyped
<1> QED
  BY <1>3, <1>5, <1>6

LEMMA OptionSaveTyped ==
    ASSUME KeysInv, TypesInv, NEW q \in Requests, InsertOption(q) \/ UpdateOption(q)
    PROVE  TypesInv'
<1>1. /\ req[q].at = "lock" /\ Name(q) \in OptionSave
      /\ UNCHANGED <<coefficients, rules>>
      /\ options' \subseteq options \cup {req[q].row}
      /\ \E a \in Answers : Ends(q, a)
      /\ UNCHANGED reset \/ \E ids : Wrote(ids)
  BY DEF InsertOption, UpdateOption, Selected, NotCurrent, OptionSave, Answers
<1>2. Alters(q) /\ RequestTyped(q)' /\ reset'.at = reset.at
  BY <1>1, EndTyped, WroteLate DEF KeysInv
<1>3. req[q].row.keys \subseteq Keys
  BY <1>1 DEF TypesInv, RequestTyped
<1> QED
  BY <1>1, <1>2, <1>3, OneTyped DEF TypesInv

LEMMA RemoveRowTyped ==
    ASSUME KeysInv, TypesInv, NEW q \in Requests,
           RemoveRule(q) \/ RemoveOption(q) \/ RemoveCoefficient(q)
    PROVE  TypesInv'
<1>1. /\ coefficients' \subseteq coefficients /\ rules' \subseteq rules
      /\ options' \subseteq options /\ UNCHANGED reset
      /\ \E a \in Answers : Ends(q, a)
  BY DEF RemoveRule, RemoveOption, RemoveCoefficient, Answers
<1>2. Alters(q) /\ RequestTyped(q)'
  BY <1>1, EndTyped
<1>3. SlotsUnique(rules')
  BY <1>1 DEF TypesInv, SlotsUnique
<1> QED
  BY <1>1, <1>2, <1>3, OneTyped

LEMMA CoefficientTyped ==
    ASSUME KeysInv, TypesInv, NEW q \in Requests,
           CreateCoefficient(q) \/ UpdateCoefficient(q)
    PROVE  TypesInv'
<1>1. /\ UNCHANGED <<rules, options>>
      /\ \E a \in Answers : Ends(q, a)
      /\ UNCHANGED reset \/ \E ids : Wrote(ids)
  BY DEF CreateCoefficient, UpdateCoefficient, Answers
<1>2. Alters(q) /\ RequestTyped(q)' /\ reset'.at = reset.at
  BY <1>1, EndTyped, WroteLate DEF KeysInv
<1>3. Name(q) \in {"createCoefficient", "renameCoefficient"} => req[q].op.key \in Keys
  BY OperationFields DEF TypesInv, RequestTyped, Name
<1>4. \A c \in coefficients' \ coefficients : c.key \in Keys
  <2>1. CASE CreateCoefficient(q)
    <3> DEFINE new == [id |-> <<"coefficient", q, req[q].op.key>>, key |-> req[q].op.key,
                       rev |-> q]
    <3>1. coefficients' \subseteq coefficients \cup {new} /\ Name(q) = "createCoefficient"
      BY <2>1 DEF CreateCoefficient
    <3>2. new.key = req[q].op.key
      OBVIOUS
    <3> QED
      BY <1>3, <3>1, <3>2
  <2>2. CASE UpdateCoefficient(q)
    <3> DEFINE key(row) == IF Name(q) = "renameCoefficient" THEN req[q].op.key ELSE row.key
    <3>1. PICK row \in coefficients :
             coefficients' \subseteq
                coefficients \cup {[row EXCEPT !.key = key(row), !.rev = q]}
      BY <2>2 DEF UpdateCoefficient, RowsWithId
    <3>2. DOMAIN row = {"id", "key", "rev"} /\ row.key \in Keys
      BY DEF KeysInv, RowsStand, IsCoefficient, TypesInv
    <3>3. key(row) \in Keys
      BY <1>3, <3>2
    <3> HIDE DEF key
    <3>4. [row EXCEPT !.key = key(row), !.rev = q].key = key(row)
      BY <3>2
    <3> QED
      BY <3>1, <3>3, <3>4
  <2> QED
    BY <2>1, <2>2
<1> QED
  BY <1>1, <1>2, <1>4, OneTyped DEF TypesInv

\* The rows of the dataset.
LEMMA SeedRowsTyped ==
    ASSUME NEW time
    PROVE  /\ \A c \in SeedCoefficientRows(time) : c.key \in Keys
           /\ \A r \in SeedRuleRows(time) : RuleTyped(r) /\ r.slot \in DOMAIN SeedRules
           /\ \A o \in SeedOptionRows(time) : o.keys \subseteq Keys
           /\ SlotsUnique(SeedRuleRows(time))
<1>1. /\ SeedKeys \subseteq Keys /\ DOMAIN SeedRules \subseteq Slots \cup {Object}
      /\ \A slot \in DOMAIN SeedRules :
            SeedRules[slot].cost \cup SeedRules[slot].labor \subseteq Keys
      /\ \A name \in DOMAIN SeedOptions : SeedOptions[name] \subseteq Keys
  BY SeedAssumption DEF SeedValid
<1>2. \A c \in SeedCoefficientRows(time) : c.key \in Keys
  BY <1>1 DEF SeedCoefficientRows
<1>3. /\ \A r \in SeedRuleRows(time) : RuleTyped(r) /\ r.slot \in DOMAIN SeedRules
      /\ SlotsUnique(SeedRuleRows(time))
  BY <1>1 DEF SeedRuleRows, RuleTyped, RuleKeys, SlotsUnique
<1>4. \A o \in SeedOptionRows(time) : o.keys \subseteq Keys
  BY <1>1 DEF SeedOptionRows
<1> QED
  BY <1>2, <1>3, <1>4

LEMMA ResetTyped ==
    ASSUME KeysInv, TypesInv, ResetStarts \/ ResetNext
    PROVE  TypesInv'
<1>1. DOMAIN reset = {"at", "want", "gone", "late"}
  BY DEF KeysInv, Shapes
<1>2. req' = req /\ reset'.at \in ResetPlaces
  BY <1>1 DEF ResetStarts, ResetNext, DeleteOptions, DeleteRules, DeleteCoefficient,
              CoefficientsDeleted, ResetCommits, ResetFails, ResetStep, ResetPlaces,
              TypesInv
<1>3. CASE UNCHANGED <<coefficients, rules, options>>
  BY <1>2, <1>3 DEF TypesInv, RuleTyped, RuleKeys, RequestTyped, Name, SlotsUnique
<1>4. CASE ResetCommits
  <2> DEFINE Cs == SeedCoefficientRows("reset")
             Rs == SeedRuleRows("reset")
             Os == SeedOptionRows("reset")
  <2>1. /\ coefficients' \subseteq coefficients \cup Cs
        /\ rules' = Kept(rules) \cup Rs /\ Kept(rules) \subseteq rules
        /\ options' \subseteq options \cup Os
        /\ \A r \in Kept(rules) : r.slot = Object \/ r.slot \notin DOMAIN SeedRules
    BY <1>4 DEF ResetCommits, Kept, Conflict
  <2>2. /\ \A c \in Cs : c.key \in Keys
        /\ \A r \in Rs : RuleTyped(r) /\ r.slot \in DOMAIN SeedRules
        /\ \A o \in Os : o.keys \subseteq Keys
        /\ SlotsUnique(Rs)
    BY SeedRowsTyped
  <2> HIDE DEF Cs, Rs, Os
  <2>3. \A r \in rules' : RuleTyped(r)
    BY <2>1, <2>2 DEF TypesInv
  <2>4. SlotsUnique(rules')
    BY <2>1, <2>2 DEF TypesInv, SlotsUnique
  <2>5. \A q \in Requests : RequestTyped(q)'
    BY <1>2 DEF TypesInv, RequestTyped, Name, RuleTyped, RuleKeys
  <2> QED
    BY <1>2, <2>1, <2>2, <2>3, <2>4, <2>5 DEF TypesInv, RuleTyped, RuleKeys, SlotsUnique
<1> QED
  BY <1>3, <1>4 DEF ResetStarts, ResetNext, DeleteOptions, DeleteRules, DeleteCoefficient,
                    CoefficientsDeleted, ResetFails, ResetStep

LEMMA TypesInit == Init => TypesInv
<1> SUFFICES ASSUME Init PROVE TypesInv
  OBVIOUS
<1>1. /\ coefficients = SeedCoefficientRows("seed") /\ rules = SeedRuleRows("seed")
      /\ options = SeedOptionRows("seed") /\ reset.at = "idle"
  BY DEF Init
<1>2. /\ \A c \in coefficients : c.key \in Keys
      /\ \A r \in rules : RuleTyped(r)
      /\ \A o \in options : o.keys \subseteq Keys
      /\ SlotsUnique(rules)
  BY <1>1, SeedRowsTyped
<1>3. ASSUME NEW q \in Requests PROVE RequestTyped(q)
  <2>1. req[q].op \in Operations[q] /\ req[q].at = "form" /\ req[q].keys = {}
    BY DEF Init, Fresh
  <2> QED
    BY <2>1 DEF RequestTyped, Places
<1> QED
  BY <1>1, <1>2, <1>3 DEF TypesInv, ResetPlaces

LEMMA TypesStep ==
    ASSUME KeysInv, UpdatesInv, TypesInv, [Next]_vars
    PROVE  TypesInv'
<1>1. CASE UNCHANGED vars
  BY <1>1 DEF vars, TypesInv, RuleTyped, RuleKeys, RequestTyped, Name, SlotsUnique
<1>2. ASSUME NEW q \in Requests, Submit(q) \/ RequestStep(q)
      PROVE  TypesInv'
  <2>1. CASE Refuse(q) \/ NoKeyFound(q) \/ Expire(q)
    <3>1. PICK a \in Answers : Ends(q, a)
      BY <2>1 DEF Refuse, NoKeyFound, Expire, Answers
    <3> QED
      BY <2>1, <3>1, QuietEndTyped DEF Refuse, NoKeyFound, Expire
  <2> QED
    BY <1>2, <2>1, SubmitTyped, BeginRuleTyped, BeginOptionTyped, LocksTyped,
       RuleSaveTyped, OptionSaveTyped, RemoveRowTyped, CoefficientTyped DEF RequestStep
<1> QED
  BY <1>1, <1>2, ResetTyped DEF Next

\* Every row mentions keys that are keys, a coefficient's key is stored once, and a
\* category, a material type or a surface has one rule at most, whatever edits and
\* resets overlap (the unique indexes, the conflict answers of rules.service.ts and
\* coefficients.service.ts, the schema of the dataset).
THEOREM RowsAreSound == Spec => []TypeOK
<1>1. KeysInv /\ TypesInv => TypeOK
  BY DEF KeysInv, RowsStand, TypesInv, RequestTyped, RuleTyped, Places, ResetPlaces,
         SlotsUnique, TypeOK
<1> QED
  BY <1>1, KeysInit, KeysStep, UpdatesInit, UpdatesStep, TypesInit, TypesStep, PTL DEF Spec
=============================================================================
