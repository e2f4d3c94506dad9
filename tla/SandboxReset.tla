---------------------------- MODULE SandboxReset ----------------------------
(***************************************************************************)
(* SandboxService and SandboxSchedule: the daily reset of the demo data.   *)
(* There is no scheduler: a maintenance call or an administrator's request *)
(* that finds the reset due performs it.  The row sandbox_state holds the  *)
(* next instant and a lock that expires, each process caches the instant.  *)
(*                                                                         *)
(* Instants are kept relative to the clock: next and cached as the time    *)
(* still to go, the lock and `now` of a running reset as their age.  Every *)
(* age and delay is capped where no comparison can tell it from a larger   *)
(* one, so time never has to stop.                                         *)
(***************************************************************************)
EXTENDS Integers

CONSTANTS
    Instance,       \* processes: one, or two while a deployment rolls over
    Nothing,        \* null
    Period,         \* a day
    LockTimeout,    \* LOCK_TIMEOUT_MS
    Retry,          \* RETRY_AFTER_FAILURE_MS
    TxTimeout,      \* RESET_TRANSACTION_MAX_WAIT_MS + RESET_TRANSACTION_TIMEOUT_MS
    Lag             \* how old `now` may be before the claim, and how long the
                    \* result of the transaction may take to be recorded

ASSUME TimeAssumption ==
    /\ Period \in Nat /\ LockTimeout \in Nat /\ Retry \in Nat
    /\ TxTimeout \in Nat /\ Lag \in Nat
    /\ Period > 2 * Lag + TxTimeout
    /\ Retry > 2 * Lag + TxTimeout
    /\ Retry <= Period
\* The lock outlives a reset: 600 s against 150 s and the delays around them.
ASSUME LeaseAssumption == LockTimeout >= 2 * Lag + TxTimeout
ASSUME NothingAssumption == Nothing \notin Int

VARIABLES
    next,       \* sandbox_state.next_reset_at, as time to go
    lock,       \* sandbox_state.locked_at, as its age, or null
    cached,     \* per process: cachedNextResetAt, as time to go, or null
    pc,         \* per process: where its performReset (inFlightReset) is
    age,        \* per process: the age of the `now` it was called with
    daily,      \* time to go to the next SANDBOX_RESET_TIME
    done        \* history: the reset of this day is recorded

vars == <<next, lock, cached, pc, age, daily, done>>

Oldest == LockTimeout + Lag + 1     \* an age above it makes no difference
Clip(delay) == IF delay < -Lag THEN -Lag ELSE delay

Stage == {"idle", "asked", "claimed", "failed", "committed", "cleanup"}

\* The age a reset may reach in each stage before its timeout strikes.
Deadline(stage) ==
    IF stage = "asked" THEN Lag
    ELSE IF stage = "claimed" THEN Lag + TxTimeout
    ELSE 2 * Lag + TxTimeout

Init ==
    /\ daily \in 1 .. Period
    /\ next = daily
    /\ lock = Nothing
    /\ cached = [i \in Instance |-> Nothing]
    /\ pc = [i \in Instance |-> "idle"]
    /\ age = [i \in Instance |-> 0]
    /\ done = FALSE

Enter(i, stage) == pc' = [pc EXCEPT ![i] = stage]

Leave(i, stage) ==
    /\ Enter(i, stage)
    /\ age' = [age EXCEPT ![i] = 0]

Cache(i, delay) == cached' = [cached EXCEPT ![i] = Clip(delay)]

-----------------------------------------------------------------------------
\* refreshNextResetAt: the maintenance, the session endpoint, or a process
\* without a cached instant reads the row.
Refresh(i) ==
    /\ Cache(i, next)
    /\ UNCHANGED <<next, lock, pc, age, daily, done>>

Ask(i, a) ==
    /\ pc[i] = "idle"
    /\ Enter(i, "asked")
    /\ age' = [age EXCEPT ![i] = a]

\* The maintenance finds the reset due in the database; its instant was taken
\* before the tasks that ran earlier.  While a reset is in flight, further
\* calls join it (inFlightReset).
AskByMaintenance(i) ==
    /\ \E a \in 0 .. Lag : next <= -a /\ Ask(i, a)
    /\ Cache(i, next)
    /\ UNCHANGED <<next, lock, daily, done>>

\* An administrator's request, or the start of the process, catches up when the
\* cached instant has passed; its instant may be older than the cached one.
CatchUp(i) ==
    /\ cached[i] # Nothing
    /\ \E a \in 0 .. Lag : cached[i] <= -a /\ Ask(i, a)
    /\ UNCHANGED <<next, lock, cached, daily, done>>

\* Mutant of Due: the claim trusts the check made before.
AlreadyChecked(i) == TRUE

Due(i) == next <= -age[i]

\* Mutant of Locked: the claim does not look at the lock.
LockIgnored(i) == FALSE

\* Mutant of Locked: the lock of a crashed process is never taken over.
LockedForEver(i) == lock # Nothing

\* lockedAt is null or before now - LOCK_TIMEOUT_MS
Locked(i) == lock # Nothing /\ lock <= age[i] + LockTimeout

\* SandboxService.claim: one conditional update.
Claim(i) ==
    /\ pc[i] = "asked"
    /\ Due(i)
    /\ ~ Locked(i)
    /\ lock' = age[i]
    /\ Enter(i, "claimed")
    /\ UNCHANGED <<next, cached, age, daily, done>>

\* Mutant of Skip: a process that did not get the lock releases it.
SkipAndRelease(i) ==
    /\ pc[i] = "asked"
    /\ ~ Due(i) \/ Locked(i)
    /\ Cache(i, next)
    /\ lock' = Nothing
    /\ Leave(i, "idle")
    /\ UNCHANGED <<next, daily, done>>

\* The update matched no row: the reset is skipped and the instant read again.
Skip(i) ==
    /\ pc[i] = "asked"
    /\ ~ Due(i) \/ Locked(i)
    /\ Cache(i, next)
    /\ Leave(i, "idle")
    /\ UNCHANGED <<next, lock, daily, done>>

\* A database error before the claim.
AskFails(i) ==
    /\ pc[i] = "asked"
    /\ Leave(i, "idle")
    /\ UNCHANGED <<next, lock, cached, daily, done>>

\* The transaction replaces the data of every participant.
Commit(i) ==
    /\ pc[i] = "claimed"
    /\ Enter(i, "committed")
    /\ UNCHANGED <<next, lock, cached, age, daily, done>>

\* The transaction fails or times out; the acknowledgement of a commit may also
\* be lost, which the service takes for a failure.
Abort(i) ==
    /\ pc[i] = "claimed"
    /\ Enter(i, "failed")
    /\ UNCHANGED <<next, lock, cached, age, daily, done>>

\* recordFailure: the instant is cached first, then written; the write may fail
\* and leave the row locked and due.
RecordFailure(i) ==
    /\ pc[i] = "failed"
    /\ Cache(i, Retry - age[i])
    /\ \/ /\ next' = Clip(Retry - age[i])
          /\ lock' = Nothing
       \/ UNCHANGED <<next, lock>>
    /\ Leave(i, "idle")
    /\ UNCHANGED <<daily, done>>

\* SANDBOX_RESET_TIME came round between `now` and the clock.
DayPassed(i) == Period - daily < age[i]

\* Mutant of NextDaily: the search begins with tomorrow.
SkipToday(i) == daily + Period

\* computeNextResetAt(now): the first reset time after the instant of the call.
NextDaily(i) == IF DayPassed(i) THEN daily - Period ELSE daily

\* recordSuccess: when the write fails, the lock alone is released, or not even
\* that; the row stays due and the cache says tomorrow.
RecordSuccess(i) ==
    /\ pc[i] = "committed"
    /\ Cache(i, NextDaily(i))
    /\ \/ /\ next' = Clip(NextDaily(i))
          /\ lock' = Nothing
          /\ done' = ~ DayPassed(i)
       \/ /\ lock' \in {lock, Nothing}
          /\ UNCHANGED <<next, done>>
    /\ Leave(i, "cleanup")
    /\ UNCHANGED daily

\* runAfterCommit: a failing participant is logged, the others still run.
Cleanup(i) ==
    /\ pc[i] = "cleanup"
    /\ Leave(i, "idle")
    /\ UNCHANGED <<next, lock, cached, daily, done>>

\* The process dies: an open transaction is rolled back, its memory is lost.
Crash(i) ==
    /\ cached' = [cached EXCEPT ![i] = Nothing]
    /\ Leave(i, "idle")
    /\ UNCHANGED <<next, lock, daily, done>>

\* Time passes, but no stage outlives its deadline.
Tick ==
    /\ \A i \in Instance : age[i] < Deadline(pc[i])
    /\ next' = Clip(next - 1)
    /\ lock' = IF lock = Nothing \/ lock = Oldest THEN lock ELSE lock + 1
    /\ cached' = [i \in Instance |->
            IF cached[i] = Nothing THEN Nothing ELSE Clip(cached[i] - 1)]
    /\ age' = [i \in Instance |->
            IF pc[i] \in {"idle", "cleanup"} THEN 0 ELSE age[i] + 1]
    /\ daily' = IF daily = 1 THEN Period ELSE daily - 1
    /\ done' = (done /\ daily # 1)
    /\ UNCHANGED pc

-----------------------------------------------------------------------------
Step(i) == Claim(i) \/ Skip(i) \/ AskFails(i) \/ Commit(i) \/ Abort(i)
              \/ RecordFailure(i) \/ RecordSuccess(i) \/ Cleanup(i)

Next ==
    \/ \E i \in Instance : Refresh(i) \/ AskByMaintenance(i) \/ CatchUp(i)
                           \/ Step(i) \/ Crash(i)
    \/ Tick

Spec == Init /\ [][Next]_vars

\* Time goes on for ever (a stage left at its deadline lets it pass), the
\* maintenance is called again and again, and not every attempt fails.
Fairness ==
    /\ []<><<Tick>>_vars
    /\ \A i \in Instance : WF_vars(Step(i))
    /\ WF_vars(\E i \in Instance : AskByMaintenance(i))
    /\ SF_vars(\E i \in Instance : Claim(i))
    /\ SF_vars(\E i \in Instance : Commit(i))

FairSpec == Spec /\ Fairness

-----------------------------------------------------------------------------
\* In particular a reset is never put off by more than a day.
TypeOK ==
    /\ next \in -Lag .. Period
    /\ lock \in 0 .. Oldest \cup {Nothing}
    /\ cached \in [Instance -> -Lag .. Period \cup {Nothing}]
    /\ pc \in [Instance -> Stage]
    /\ age \in [Instance -> 0 .. 2 * Lag + TxTimeout]
    /\ daily \in 1 .. Period
    /\ done \in BOOLEAN

\* From its claim until its result is recorded, a reset holds the lock, and it
\* is its own: no other process has taken it over, released it or run a reset
\* beside it, though the lock is not fenced and nobody checks it again.
OwnLock ==
    \A i \in Instance : pc[i] \in {"claimed", "failed", "committed"} => lock = age[i]

\* The data is never replaced by two processes at the same time, even when one
\* of them takes the lock of a reset that is too old for dead.
ResetsExclude ==
    \A i, j \in Instance :
        /\ pc[i] \in {"claimed", "failed", "committed"}
        /\ pc[j] \in {"claimed", "failed", "committed"}
        => i = j

\* A day whose reset is recorded is not reset again: what visitors did after
\* the reset stays until the next reset time, however many requests found the
\* reset due before it was performed.
OncePerDay == done => \A i \in Instance : pc[i] # "claimed"

\* A due reset is performed in the end, whatever crashed, failed or could not
\* be recorded before: neither a forgotten lock nor a stale cached instant
\* keeps it from happening.
DueResets == next <= 0 ~> \E i \in Instance : pc[i] = "committed"
=============================================================================
