-------------------------- MODULE MCProjectWrites --------------------------
(***************************************************************************)
(* Small instances of ProjectWrites for TLC.                               *)
(***************************************************************************)
EXTENDS ProjectWrites, TLC

CONSTANTS r1, r2, r3, c0, c1, k1, k2

TwoRequests == {r1, r2}
ThreeRequests == {r1, r2, r3}
OneSaved == {c0}
TwoSaved == {c0, c1}

BodyOf(kind, number) == [kind |-> kind, calc |-> c0, version |-> number]

\* Two recalculations with different bases: a key reused for another body, and
\* a base that exists only after the other one.
RaceBodies ==
    {BodyOf("save", 1), BodyOf("draftLead", 1),
     BodyOf("recalculate", 1), BodyOf("recalculate", 2)}

\* Recalculations of two calculations besides: under one key, one of them waits
\* for the key while it holds its calculation.
WaitingBodies ==
    RaceBodies \cup {[kind |-> "recalculate", calc |-> c1, version |-> 1]}

\* What the maintenance tasks and the administrator can take away, beside what
\* they cannot.
LifetimeBodies ==
    {BodyOf("recalculate", 1), BodyOf("draftLead", 1),
     BodyOf("storedLead", 1), BodyOf("honeypot", 1)}

LeadBodies == {BodyOf("draftLead", 1), BodyOf("storedLead", 1)}

RequestSymmetry == Permutations(Request)
RequestKeySymmetry == Permutations(Request) \cup Permutations(Key)
=============================================================================
