--------------------------- MODULE MCCoefficients ---------------------------
(* The instance: the dataset has one coefficient, one rule and one option   *)
(* that mention it; a second key is the administrators' own.                *)
EXTENDS Coefficients

CONSTANTS k1, k2, s1, s2, q1, q2, q3

MCRequests == {q1, q2, q3}

MCKeys == {k1, k2}
MCSlots == {s1, s2}
MCSeedKeys == {k1}
MCSeedRules == [slot \in {s1} |-> [cost |-> {k1}, labor |-> {}]]
MCSeedOptions == [name \in {"o"} |-> {k1}]

Rule(slot, cost) == [name |-> "createRule", slot |-> slot,
                     patch |-> [cost |-> cost, labor |-> {}]]
Only(n) == [name |-> n]

\* One request is about coefficients, one mostly about rules, one about all
\* three tables.
MCOperations ==
    [q \in MCRequests |->
        CASE q = q1 -> {[name |-> "createCoefficient", key |-> k2],
                        [name |-> "renameCoefficient", key |-> k2],
                        Only("removeCoefficient")}
          [] q = q2 -> {Rule(s2, {k1, k2}), Rule(s1, {k1}),
                        Rule(Object, {k2}),
                        [name |-> "updateRule", patch |-> [cost |-> {}]],
                        [name |-> "updateOption", keys |-> {k2}],
                        Only("removeRule")}
          [] q = q3 -> {[name |-> "updateRule", patch |-> [labor |-> {k2}]],
                        [name |-> "createOption", keys |-> {k2}],
                        [name |-> "updateOption", keys |-> {}],
                        [name |-> "createCoefficient", key |-> k1],
                        Only("changeCoefficient"), Only("removeCoefficient"),
                        Only("patchOption"), Only("removeOption"),
                        Only("removeRule")}]
=============================================================================
