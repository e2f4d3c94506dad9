---------------------------- MODULE MCBackOffice ----------------------------
(***************************************************************************)
(* Small instances of the parts of the back office that share nothing: the *)
(* lists arranged by hand, the exchange rate, the leads and the accounts.  *)
(* A behaviour picks one of them and runs it; the others stay as they were *)
(* at the start.                                                           *)
(***************************************************************************)
EXTENDS OrderedLists, ExchangeRate, LeadWorkflow, Accounts

VARIABLE part

backOfficeVars == <<part, listVars, rateVars, leadVars, accountVars>>

(* Two kinds of options, the package and the styles, each with two items.  *)
BaseOption(id, list, order) ==
    [id |-> id, list |-> list, order |-> order,
     status |-> "PUBLISHED", price |-> TRUE, keys |-> FALSE, unit |-> "PIECE",
     min |-> 1, max |-> 2, rooms |-> FALSE, code |-> FALSE]

SmallItems ==
    {[code |-> TRUE] @@ BaseOption("o1", "ENGINEERING", 0),
     BaseOption("o2", "ENGINEERING", 1),
     BaseOption("o3", "ADDITIONAL", 0),
     [id |-> "e1", list |-> "package", order |-> 0,
      status |-> "PUBLISHED", included |-> TRUE, price |-> FALSE,
      unit |-> "none"],
     [id |-> "s1", list |-> "styles", order |-> 0,
      status |-> "PUBLISHED"],
     [id |-> "s2", list |-> "styles", order |-> 1,
      status |-> "PUBLISHED"]}

PatchOf(id, patch) == [verb |-> "patch", id |-> id, patch |-> patch]
StatusOf(id) == [verb |-> "status", id |-> id, patch |-> [status |-> "ARCHIVED"]]
RemoveOf(id) == [verb |-> "remove", id |-> id]
ReorderOf(list, ids) == [verb |-> "reorder", list |-> list, ids |-> ids]
NewOption(fields) ==
    [verb |-> "create", row |-> fields @@
       [list |-> "ENGINEERING", price |-> TRUE, keys |-> FALSE,
        unit |-> "PROJECT", min |-> 0, max |-> 0, rooms |-> FALSE,
        code |-> FALSE]]

Shaping ==
    {PatchOf("o2", [min |-> 2]), PatchOf("o2", [max |-> 1]),
     PatchOf("o2", [unit |-> "ROOM", rooms |-> TRUE]),
     PatchOf("o2", [price |-> FALSE, keys |-> TRUE]),
     PatchOf("o2", [unit |-> "PROJECT"]),
     PatchOf("o2", [rooms |-> TRUE]),
     PatchOf("e1", [included |-> FALSE, price |-> TRUE, unit |-> "SQM"]),
     PatchOf("e1", [price |-> TRUE, unit |-> "SQM"]),
     PatchOf("e1", [included |-> TRUE])}

Moving ==
    {PatchOf("o2", [list |-> "ADDITIONAL"]), PatchOf("o1", [list |-> "ADDITIONAL"]),
     StatusOf("o1"), StatusOf("e1"), RemoveOf("o1"), RemoveOf("o2"),
     RemoveOf("s2"), NewOption([list |-> "ADDITIONAL"]),
     NewOption([unit |-> "PIECE", min |-> 2, max |-> 1])}

Arranging ==
    {ReorderOf("ENGINEERING", <<"o2", "o1">>),
     ReorderOf("ENGINEERING", <<"o1">>),
     ReorderOf("ENGINEERING", <<"o1", "new">>),
     ReorderOf("ADDITIONAL", <<"new", "o3">>),
     ReorderOf("styles", <<"s2", "s1">>),
     NewOption([unit |-> "ROOM", rooms |-> TRUE])}

(* A new item has the name of the editor that makes it.                    *)
SmallEdits == [e \in {"other", "third", "new"} |->
    CASE e = "other" -> Shaping \cup Moving
      [] e = "new" -> Shaping \cup Arranging \cup
                         {NewOption([list |-> "ADDITIONAL"])}
      [] e = "third" -> Arranging \cup {RemoveOf("o2"),
                           PatchOf("o2", [list |-> "ADDITIONAL"])}]

(* Each part of the run leaves the variables of the others alone.          *)
Lists ==
    /\ part = "lists" /\ ListsNext
    /\ UNCHANGED <<rateVars, leadVars, accountVars>>
Rates ==
    /\ \/ part = "refresh" /\ RefreshNext
       \/ part = "manual" /\ ManualNext
    /\ UNCHANGED <<listVars, leadVars, accountVars>>
LeadsPart ==
    /\ part = "leads" /\ LeadsNext
    /\ UNCHANGED <<listVars, rateVars, accountVars>>
AccountsPart ==
    /\ \/ part \in {"lockout", "sessions"} /\ AccountTick
       \/ part = "lockout" /\ LockoutNext
       \/ part = "sessions" /\ SessionNext
    /\ UNCHANGED <<listVars, rateVars, leadVars>>

\* The lists start from the dataset only where they are run.
Init ==
    /\ part \in {"lists", "refresh", "manual", "leads", "lockout", "sessions"}
    /\ IF part = "lists" THEN ListsInit
       ELSE items = {} /\ edit = << >> /\ rerun = FALSE
    /\ RatesInit /\ LeadsInit /\ AccountsInit
Next == UNCHANGED part /\ (Lists \/ Rates \/ LeadsPart \/ AccountsPart)
Spec == Init /\ [][Next]_backOfficeVars

BackOfficeSymmetry == Permutations(RateProcesses)
=============================================================================
