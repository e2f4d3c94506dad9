-------------------------- MODULE IdempotentStore --------------------------
(***************************************************************************)
(* What the Idempotency-Key handling of the public writes promises, free   *)
(* of tables, transactions and clocks: a ledger that remembers, for a slot *)
(* (scope and key), which request body was performed and by which request, *)
(* and one decision per request.  ProjectWrites implements this module.    *)
(***************************************************************************)
CONSTANTS
    Request,    \* requests; a request also names what it creates
    Slot,       \* (scope, key) pairs
    Body,       \* request bodies, told apart by their hash
    Pending,    \* the decision of a request nothing was decided for yet
    Reused,     \* the decision IDEMPOTENCY_KEY_REUSED
    Failed      \* any other error, a crash included

VARIABLES
    slot, body, \* what each request asks for; never changes
    ledger,     \* the remembered entries
    decision    \* the request whose effect answers a request, or an error

abstractVars == <<slot, body, ledger, decision>>

Entry == [slot : Slot, body : Body, result : Request]

EntriesOf(p) == {e \in ledger : e.slot = slot[p]}

Init ==
    /\ body \in [Request -> Body]
    /\ ledger = {}
    /\ decision = [p \in Request |-> Pending]

Decide(p, d) ==
    /\ decision[p] = Pending
    /\ decision' = [decision EXCEPT ![p] = d]
    /\ UNCHANGED <<slot, body>>

\* The effect happens, is remembered and answers the request, all at once.
Perform(p) ==
    /\ slot[p] \in Slot
    /\ EntriesOf(p) = {}
    /\ ledger' = ledger \cup {[slot |-> slot[p], body |-> body[p], result |-> p]}
    /\ Decide(p, p)

\* A repeat is answered by the remembered effect and has none of its own.
Repeat(p) ==
    /\ \E e \in EntriesOf(p) : e.body = body[p] /\ Decide(p, e.result)
    /\ UNCHANGED ledger

\* A different body under a remembered key is refused.
Refuse(p) ==
    /\ \E e \in EntriesOf(p) : e.body # body[p]
    /\ Decide(p, Reused)
    /\ UNCHANGED ledger

Fail(p) ==
    /\ Decide(p, Failed)
    /\ UNCHANGED ledger

\* Entries age out, or go with the lead an administrator deletes.
Forget ==
    /\ ledger' \in SUBSET ledger
    /\ UNCHANGED <<slot, body, decision>>

Next ==
    \/ \E p \in Request : Perform(p) \/ Repeat(p) \/ Refuse(p) \/ Fail(p)
    \/ Forget

Spec == Init /\ [][Next]_abstractVars
=============================================================================
