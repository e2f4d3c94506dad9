------------------------ MODULE SandboxResetProofs ------------------------
(***************************************************************************)
(* Proofs about SandboxReset: a reset that claimed the lock keeps it, no   *)
(* two resets run beside each other, and no day is reset twice, for every  *)
(* number of processes and every choice of times that satisfies the        *)
(* assumptions of the module.                                              *)
(***************************************************************************)
EXTENDS SandboxReset, TLAPS

\* The stages in which a reset holds the lock.
Holding == {"claimed", "failed", "committed"}

\* A stage never outlives its deadline: Tick stops at it.
AgeBound ==
    /\ \A i \in Instance : pc[i] \in {"idle", "cleanup"} => age[i] = 0
    /\ \A i \in Instance : age[i] <= Deadline(pc[i])

\* A recorded reset sets the row to the next reset time, and nobody is between
\* a claim and its record.
DayDone ==
    done => /\ next = daily
            /\ \A i \in Instance : pc[i] \notin Holding

LockInv == TypeOK /\ AgeBound /\ OwnLock /\ ResetsExclude /\ DayDone

USE DEF Stage, Oldest

LEMMA Constants ==
    /\ Period \in Nat /\ LockTimeout \in Nat /\ Retry \in Nat
    /\ TxTimeout \in Nat /\ Lag \in Nat
    /\ Period > 2 * Lag + TxTimeout
    /\ Retry > 2 * Lag + TxTimeout
    /\ Retry <= Period
    /\ LockTimeout >= 2 * Lag + TxTimeout
    /\ Nothing \notin Int
BY TimeAssumption, LeaseAssumption, NothingAssumption

\* A delay is clipped from below only.
LEMMA ClipRange ==
    ASSUME NEW d \in Int, d <= Period
    PROVE  /\ Clip(d) \in -Lag .. Period
           /\ d >= -Lag => Clip(d) = d
BY Constants DEF Clip

LEMMA DeadlineRange ==
    ASSUME NEW stage
    PROVE  /\ Deadline(stage) \in Nat
           /\ Deadline(stage) <= 2 * Lag + TxTimeout
BY Constants DEF Deadline

\* What one process does to the others: nothing.
LEMMA EnterOne ==
    ASSUME LockInv, NEW i \in Instance, NEW stage \in Stage, Enter(i, stage)
    PROVE  /\ pc' \in [Instance -> Stage]
           /\ pc'[i] = stage
           /\ \A j \in Instance : j # i => pc'[j] = pc[j]
BY DEF LockInv, TypeOK, Enter

LEMMA AgeZero ==
    ASSUME LockInv, NEW i \in Instance, NEW a \in Nat, a <= 2 * Lag + TxTimeout,
           age' = [age EXCEPT ![i] = a]
    PROVE  /\ age' \in [Instance -> 0 .. 2 * Lag + TxTimeout]
           /\ age'[i] = a
           /\ \A j \in Instance : j # i => age'[j] = age[j]
BY Constants DEF LockInv, TypeOK

\* A process that enters a stage without the lock, and changes neither the row
\* nor the day, keeps the invariant.
LEMMA QuietMove ==
    ASSUME LockInv, NEW i \in Instance, NEW stage \in Stage \ Holding,
           NEW a \in Nat, a <= Deadline(stage),
           stage \in {"idle", "cleanup"} => a = 0,
           Enter(i, stage), age' = [age EXCEPT ![i] = a],
           cached' \in [Instance -> -Lag .. Period \cup {Nothing}],
           UNCHANGED <<next, lock, daily, done>>
    PROVE  LockInv'
<1>1. a <= 2 * Lag + TxTimeout
  BY DeadlineRange, Constants
<1>2. /\ pc' \in [Instance -> Stage]
      /\ pc'[i] = stage
      /\ \A j \in Instance : j # i => pc'[j] = pc[j]
  BY EnterOne
<1>3. /\ age' \in [Instance -> 0 .. 2 * Lag + TxTimeout]
      /\ age'[i] = a
      /\ \A j \in Instance : j # i => age'[j] = age[j]
  BY <1>1, AgeZero
<1>4. TypeOK'
  BY <1>2, <1>3 DEF LockInv, TypeOK
<1>5. AgeBound'
  BY <1>2, <1>3 DEF LockInv, AgeBound, Deadline
<1>6. \A j \in Instance : pc'[j] \in Holding =>
         pc[j] \in Holding /\ age'[j] = age[j]
  BY <1>2, <1>3 DEF Holding
<1>7. OwnLock'
  BY <1>6 DEF LockInv, OwnLock, Holding
<1>8. ResetsExclude'
  BY <1>6 DEF LockInv, ResetsExclude, Holding
<1>9. DayDone'
  BY <1>6 DEF LockInv, DayDone
<1>10. QED BY <1>4, <1>5, <1>7, <1>8, <1>9 DEF LockInv

LEMMA CacheRange ==
    ASSUME LockInv, NEW i \in Instance, NEW d \in Int, d <= Period, Cache(i, d)
    PROVE  cached' \in [Instance -> -Lag .. Period \cup {Nothing}]
BY ClipRange DEF LockInv, TypeOK, Cache

LEMMA NextCached ==
    ASSUME LockInv, NEW i \in Instance, Cache(i, next)
    PROVE  cached' \in [Instance -> -Lag .. Period \cup {Nothing}]
<1>1. next \in Int /\ next <= Period
  BY Constants DEF LockInv, TypeOK
<1>2. QED BY <1>1, CacheRange

LEMMA IdleStart ==
    ASSUME LockInv, NEW i \in Instance, Leave(i, "idle"),
           cached' \in [Instance -> -Lag .. Period \cup {Nothing}],
           UNCHANGED <<next, lock, daily, done>>
    PROVE  LockInv'
<1>1. "idle" \in Stage \ Holding
  BY DEF Holding
<1>2. 0 \in Nat /\ 0 <= Deadline("idle")
  BY DeadlineRange
<1>3. Enter(i, "idle") /\ age' = [age EXCEPT ![i] = 0]
  BY DEF Leave
<1>4. QED BY <1>1, <1>2, <1>3, QuietMove

LEMMA Asked ==
    ASSUME LockInv, NEW i \in Instance, NEW a \in 0 .. Lag, Ask(i, a),
           cached' \in [Instance -> -Lag .. Period \cup {Nothing}],
           UNCHANGED <<next, lock, daily, done>>
    PROVE  LockInv'
<1>1. "asked" \in Stage \ Holding
  BY DEF Holding
<1>2. a \in Nat /\ a <= Deadline("asked")
  BY Constants DEF Deadline
<1>3. Enter(i, "asked") /\ age' = [age EXCEPT ![i] = a]
  BY DEF Ask
<1>4. QED BY <1>1, <1>2, <1>3, QuietMove

-----------------------------------------------------------------------------
\* Nobody holds the lock of another process when a claim succeeds: the lock of
\* a running reset is younger than the timeout.
LEMMA ClaimAlone ==
    ASSUME LockInv, NEW i \in Instance, pc[i] = "asked", ~ Locked(i)
    PROVE  \A j \in Instance : pc[j] \notin Holding
<1> SUFFICES ASSUME NEW j \in Instance, pc[j] \in Holding PROVE FALSE
  OBVIOUS
<1>1. lock = age[j]
  BY DEF LockInv, OwnLock, Holding
<1>2. age[i] \in Nat /\ age[j] \in Nat /\ age[j] <= 2 * Lag + TxTimeout
  BY Constants DEF LockInv, TypeOK
<1>3. lock # Nothing
  BY <1>1, <1>2, Constants
<1>4. lock <= age[i] + LockTimeout
  BY <1>1, <1>2, Constants
<1>5. QED BY <1>3, <1>4 DEF Locked

LEMMA ClaimStep ==
    ASSUME LockInv, NEW i \in Instance, Claim(i)
    PROVE  LockInv'
<1>1. \A j \in Instance : pc[j] \notin Holding
  BY ClaimAlone DEF Claim
<1>2. /\ pc' \in [Instance -> Stage]
      /\ pc'[i] = "claimed"
      /\ \A j \in Instance : j # i => pc'[j] = pc[j]
  BY EnterOne DEF Claim
<1>3. \A j \in Instance : pc'[j] \in Holding => j = i
  BY <1>1, <1>2
<1>4. age[i] \in 0 .. 2 * Lag + TxTimeout /\ age[i] <= Lag
  BY DEF LockInv, TypeOK, AgeBound, Claim, Deadline
<1>5. lock' = age[i] /\ lock' \in 0 .. Oldest
  BY <1>4, Constants DEF Claim
<1>6. TypeOK'
  BY <1>2, <1>5 DEF LockInv, TypeOK, Claim
<1>7. AgeBound'
  BY <1>2, <1>4, Constants DEF LockInv, AgeBound, Deadline, Claim
<1>8. OwnLock'
  BY <1>3, <1>5 DEF OwnLock, Claim, Holding
<1>9. ResetsExclude'
  BY <1>3 DEF ResetsExclude, Holding
<1>10. ~ done
  <2>1. next <= -age[i] /\ daily >= 1 /\ next \in Int /\ daily \in Int
    BY Constants DEF Claim, Due, LockInv, TypeOK
  <2>2. next # daily
    BY <2>1, <1>4
  <2>3. QED BY <2>2 DEF LockInv, DayDone
<1>11. DayDone'
  BY <1>10 DEF DayDone, Claim
<1>12. QED BY <1>6, <1>7, <1>8, <1>9, <1>11 DEF LockInv

\* Commit and Abort: the reset that claimed goes on with its lock.
LEMMA GoOn ==
    ASSUME LockInv, NEW i \in Instance, pc[i] = "claimed",
           NEW stage \in {"failed", "committed"}, Enter(i, stage),
           UNCHANGED <<next, lock, cached, age, daily, done>>
    PROVE  LockInv'
<1>1. /\ pc' \in [Instance -> Stage]
      /\ pc'[i] = stage
      /\ \A j \in Instance : j # i => pc'[j] = pc[j]
  BY EnterOne
<1>2. \A j \in Instance : pc'[j] \in Holding => pc[j] \in Holding
  BY <1>1 DEF Holding
<1>3. TypeOK'
  BY <1>1 DEF LockInv, TypeOK
<1>4. AgeBound'
  <2>1. age[i] \in Nat /\ age[i] <= 2 * Lag + TxTimeout
    BY Constants DEF LockInv, TypeOK
  <2>2. QED BY <1>1, <2>1 DEF LockInv, AgeBound, Deadline
<1>5. OwnLock'
  BY <1>2 DEF LockInv, OwnLock, Holding
<1>6. ResetsExclude'
  BY <1>2 DEF LockInv, ResetsExclude, Holding
<1>7. DayDone'
  BY <1>2 DEF LockInv, DayDone
<1>8. QED BY <1>3, <1>4, <1>5, <1>6, <1>7 DEF LockInv

\* A reset that ends: nobody holds the lock afterwards, so it may be released.
LEMMA LeaveAlone ==
    ASSUME LockInv, NEW i \in Instance, pc[i] \in Holding,
           NEW stage \in {"idle", "cleanup"}, Leave(i, stage)
    PROVE  /\ \A j \in Instance : pc'[j] \notin Holding
           /\ pc' \in [Instance -> Stage]
           /\ age' \in [Instance -> 0 .. 2 * Lag + TxTimeout]
           /\ AgeBound'
<1>1. /\ pc' \in [Instance -> Stage]
      /\ pc'[i] = stage
      /\ \A j \in Instance : j # i => pc'[j] = pc[j]
  BY EnterOne DEF Leave
<1>2. /\ age' \in [Instance -> 0 .. 2 * Lag + TxTimeout]
      /\ age'[i] = 0
      /\ \A j \in Instance : j # i => age'[j] = age[j]
  <2>1. 0 \in Nat /\ 0 <= 2 * Lag + TxTimeout
    BY Constants
  <2>2. QED BY <2>1, AgeZero DEF Leave
<1>3. \A j \in Instance : pc'[j] \notin Holding
  BY <1>1 DEF LockInv, ResetsExclude, Holding
<1>4. AgeBound'
  BY <1>1, <1>2, DeadlineRange, Constants DEF LockInv, AgeBound
<1>5. QED BY <1>1, <1>2, <1>3, <1>4

LEMMA RecordFailureStep ==
    ASSUME LockInv, NEW i \in Instance, RecordFailure(i)
    PROVE  LockInv'
<1>1. pc[i] \in Holding /\ Leave(i, "idle")
  BY DEF RecordFailure, Holding
<1>2. /\ \A j \in Instance : pc'[j] \notin Holding
      /\ pc' \in [Instance -> Stage]
      /\ age' \in [Instance -> 0 .. 2 * Lag + TxTimeout]
      /\ AgeBound'
  BY <1>1, LeaveAlone
<1>3. Retry - age[i] \in Int /\ Retry - age[i] <= Period
  BY Constants DEF LockInv, TypeOK
<1>4. cached' \in [Instance -> -Lag .. Period \cup {Nothing}]
  BY <1>3, CacheRange DEF RecordFailure
<1>5. next' \in -Lag .. Period
  BY <1>3, ClipRange DEF RecordFailure, LockInv, TypeOK
<1>6. TypeOK'
  BY <1>2, <1>4, <1>5 DEF LockInv, TypeOK, RecordFailure
<1>7. OwnLock' /\ ResetsExclude'
  BY <1>2 DEF OwnLock, ResetsExclude, Holding
<1>8. DayDone'
  BY <1>1 DEF LockInv, DayDone, RecordFailure
<1>9. QED BY <1>2, <1>6, <1>7, <1>8 DEF LockInv

LEMMA RecordSuccessStep ==
    ASSUME LockInv, NEW i \in Instance, RecordSuccess(i)
    PROVE  LockInv'
<1>1. pc[i] \in Holding /\ Leave(i, "cleanup")
  BY DEF RecordSuccess, Holding
<1>2. /\ \A j \in Instance : pc'[j] \notin Holding
      /\ pc' \in [Instance -> Stage]
      /\ age' \in [Instance -> 0 .. 2 * Lag + TxTimeout]
      /\ AgeBound'
  BY <1>1, LeaveAlone
<1>3. daily \in Int /\ daily >= 1 /\ daily <= Period
  BY Constants DEF LockInv, TypeOK
<1>4. NextDaily(i) \in Int /\ NextDaily(i) <= Period
  BY <1>3, Constants DEF NextDaily
<1>5. cached' \in [Instance -> -Lag .. Period \cup {Nothing}]
  BY <1>4, CacheRange DEF RecordSuccess
<1>6. next' \in -Lag .. Period
  BY <1>4, ClipRange DEF RecordSuccess, LockInv, TypeOK
<1>7. TypeOK'
  BY <1>2, <1>5, <1>6 DEF LockInv, TypeOK, RecordSuccess
<1>8. OwnLock' /\ ResetsExclude'
  BY <1>2 DEF OwnLock, ResetsExclude, Holding
<1>9. ASSUME done' PROVE next' = daily'
  <2>1. ~ done
    BY <1>1 DEF LockInv, DayDone
  <2>2. ~ DayPassed(i) /\ next' = Clip(NextDaily(i)) /\ daily' = daily
    BY <1>9, <2>1 DEF RecordSuccess
  <2>3. NextDaily(i) = daily
    BY <2>2 DEF NextDaily
  <2>4. Clip(daily) = daily
    BY <1>3, ClipRange, Constants
  <2>5. QED BY <2>2, <2>3, <2>4
<1>10. DayDone'
  BY <1>2, <1>9 DEF DayDone
<1>11. QED BY <1>2, <1>7, <1>8, <1>10 DEF LockInv

\* The lock ages with the reset that holds it.
LEMMA TickStep ==
    ASSUME LockInv, Tick
    PROVE  LockInv'
<1>1. /\ next \in Int /\ next <= Period /\ next >= -Lag
      /\ daily \in Int /\ daily >= 1 /\ daily <= Period
  BY Constants DEF LockInv, TypeOK
<1>2. next' = Clip(next - 1) /\ next' \in -Lag .. Period
  <2>1. next - 1 \in Int /\ next - 1 <= Period
    BY <1>1, Constants
  <2>2. QED BY <2>1, ClipRange DEF Tick
<1>3. lock' \in 0 .. Oldest \cup {Nothing}
  BY Constants DEF LockInv, TypeOK, Tick
<1>4. cached' \in [Instance -> -Lag .. Period \cup {Nothing}]
  <2>1. ASSUME NEW i \in Instance, cached[i] # Nothing
        PROVE  Clip(cached[i] - 1) \in -Lag .. Period
    <3>1. cached[i] \in Int /\ cached[i] - 1 \in Int /\ cached[i] - 1 <= Period
      BY <2>1, Constants DEF LockInv, TypeOK
    <3>2. QED BY <3>1, ClipRange
  <2>2. QED BY <2>1 DEF Tick
<1>5. \A i \in Instance :
        /\ age[i] \in Nat
        /\ age[i] < Deadline(pc[i])
        /\ age'[i] = IF pc[i] \in {"idle", "cleanup"} THEN 0 ELSE age[i] + 1
  BY Constants DEF LockInv, TypeOK, Tick
<1>6. pc' = pc /\ AgeBound'
  BY <1>5, DeadlineRange DEF AgeBound, Tick
<1>7. age' \in [Instance -> 0 .. 2 * Lag + TxTimeout]
  <2>1. \A i \in Instance : age'[i] \in 0 .. 2 * Lag + TxTimeout
    BY <1>5, DeadlineRange, Constants
  <2>2. QED BY <2>1 DEF Tick
<1>8. TypeOK'
  BY <1>1, <1>2, <1>3, <1>4, <1>6, <1>7, Constants DEF LockInv, TypeOK, Tick
<1>9. OwnLock'
  <2> SUFFICES ASSUME NEW i \in Instance, pc[i] \in Holding
               PROVE  lock' = age'[i]
    BY <1>6 DEF OwnLock, Holding
  <2>1. lock = age[i]
    BY DEF LockInv, OwnLock, Holding
  <2>2. age'[i] = age[i] + 1
    BY <1>5 DEF Holding
  <2>3. age[i] <= 2 * Lag + TxTimeout /\ age[i] \in Nat
    BY Constants DEF LockInv, TypeOK
  <2>4. lock # Nothing /\ lock # Oldest
    BY <2>1, <2>3, Constants
  <2>5. QED BY <2>1, <2>2, <2>4 DEF Tick
<1>10. ResetsExclude'
  BY <1>6 DEF LockInv, ResetsExclude
<1>11. ASSUME done' PROVE next' = daily'
  <2>1. done /\ daily # 1 /\ daily' = daily - 1
    BY <1>11 DEF Tick
  <2>2. next = daily
    BY <2>1 DEF LockInv, DayDone
  <2>3. next - 1 \in Int /\ next - 1 <= Period /\ next - 1 >= -Lag
    BY <1>1, <2>2, Constants
  <2>4. Clip(next - 1) = next - 1
    BY <2>3, ClipRange
  <2>5. QED BY <1>2, <2>1, <2>2, <2>4
<1>12. DayDone'
  BY <1>6, <1>11 DEF LockInv, DayDone, Tick
<1>13. QED BY <1>6, <1>8, <1>9, <1>10, <1>12 DEF LockInv

-----------------------------------------------------------------------------
LEMMA LockInit == Init => LockInv
<1> SUFFICES ASSUME Init PROVE LockInv
  OBVIOUS
<1>1. TypeOK
  <2>1. next \in -Lag .. Period /\ daily \in 1 .. Period
    <3>1. daily \in Int /\ daily >= 1 /\ daily <= Period /\ next = daily
      BY Constants DEF Init
    <3>2. QED BY <3>1, Constants
  <2>2. age \in [Instance -> 0 .. 2 * Lag + TxTimeout]
    BY Constants DEF Init
  <2>3. QED BY <2>1, <2>2 DEF Init, TypeOK
<1>2. AgeBound
  BY DeadlineRange DEF Init, AgeBound
<1>3. OwnLock /\ ResetsExclude /\ DayDone
  BY DEF Init, OwnLock, ResetsExclude, DayDone
<1>4. QED BY <1>1, <1>2, <1>3 DEF LockInv

LEMMA LockStep == LockInv /\ [Next]_vars => LockInv'
<1> SUFFICES ASSUME LockInv, [Next]_vars PROVE LockInv'
  OBVIOUS
<1>1. ASSUME NEW i \in Instance, Refresh(i) PROVE LockInv'
  <2>1. cached' \in [Instance -> -Lag .. Period \cup {Nothing}]
    BY <1>1, NextCached DEF Refresh
  <2>2. UNCHANGED <<next, lock, pc, age, daily, done>>
    BY <1>1 DEF Refresh
  <2>3. QED BY <2>1, <2>2
    DEF LockInv, TypeOK, AgeBound, OwnLock, ResetsExclude, DayDone
<1>2. ASSUME NEW i \in Instance, AskByMaintenance(i) PROVE LockInv'
  <2>1. PICK a \in 0 .. Lag : Ask(i, a)
    BY <1>2 DEF AskByMaintenance
  <2>2. QED BY <1>2, <2>1, Asked, NextCached DEF AskByMaintenance
<1>3. ASSUME NEW i \in Instance, CatchUp(i) PROVE LockInv'
  <2>1. PICK a \in 0 .. Lag : Ask(i, a)
    BY <1>3 DEF CatchUp
  <2>2. cached' \in [Instance -> -Lag .. Period \cup {Nothing}]
    BY <1>3 DEF CatchUp, LockInv, TypeOK
  <2>3. QED BY <1>3, <2>1, <2>2, Asked DEF CatchUp
<1>4. ASSUME NEW i \in Instance, Claim(i) PROVE LockInv'
  BY <1>4, ClaimStep
<1>5. ASSUME NEW i \in Instance, Skip(i) PROVE LockInv'
  BY <1>5, IdleStart, NextCached DEF Skip
<1>6. ASSUME NEW i \in Instance, AskFails(i) PROVE LockInv'
  <2>1. cached' \in [Instance -> -Lag .. Period \cup {Nothing}]
    BY <1>6 DEF AskFails, LockInv, TypeOK
  <2>2. QED BY <1>6, <2>1, IdleStart DEF AskFails
<1>7. ASSUME NEW i \in Instance, Commit(i) PROVE LockInv'
  BY <1>7, GoOn DEF Commit
<1>8. ASSUME NEW i \in Instance, Abort(i) PROVE LockInv'
  BY <1>8, GoOn DEF Abort
<1>9. ASSUME NEW i \in Instance, RecordFailure(i) PROVE LockInv'
  BY <1>9, RecordFailureStep
<1>10. ASSUME NEW i \in Instance, RecordSuccess(i) PROVE LockInv'
  BY <1>10, RecordSuccessStep
<1>11. ASSUME NEW i \in Instance, Cleanup(i) PROVE LockInv'
  <2>1. cached' \in [Instance -> -Lag .. Period \cup {Nothing}]
    BY <1>11 DEF Cleanup, LockInv, TypeOK
  <2>2. QED BY <1>11, <2>1, IdleStart DEF Cleanup
<1>12. ASSUME NEW i \in Instance, Crash(i) PROVE LockInv'
  <2>1. cached' \in [Instance -> -Lag .. Period \cup {Nothing}]
    BY <1>12 DEF Crash, LockInv, TypeOK
  <2>2. QED BY <1>12, <2>1, IdleStart DEF Crash
<1>13. CASE Tick
  BY <1>13, TickStep
<1>14. CASE UNCHANGED vars
  BY <1>14 DEF vars, LockInv, TypeOK, AgeBound, OwnLock, ResetsExclude, DayDone
<1>15. QED
  BY <1>1, <1>2, <1>3, <1>4, <1>5, <1>6, <1>7, <1>8, <1>9, <1>10, <1>11,
     <1>12, <1>13, <1>14 DEF Next, Step

LEMMA LockInvariant == Spec => []LockInv
BY LockInit, LockStep, PTL DEF Spec

\* The row, the caches and the ages of the resets keep their ranges: a reset is
\* never put off by more than a day (recordFailure, recordSuccess).
THEOREM ResetTypes == Spec => []TypeOK
<1>1. LockInv => TypeOK
  BY DEF LockInv
<1>2. QED BY <1>1, LockInvariant, PTL

\* A reset that claimed the lock has it until its result is recorded, although
\* the lock expires and is not fenced (claim, recordSuccess, recordFailure).
THEOREM LockIsKept == Spec => []OwnLock
<1>1. LockInv => OwnLock
  BY DEF LockInv
<1>2. QED BY <1>1, LockInvariant, PTL

\* Any number of processes run at most one reset at a time.
THEOREM OneResetAtATime == Spec => []ResetsExclude
<1>1. LockInv => ResetsExclude
  BY DEF LockInv
<1>2. QED BY <1>1, LockInvariant, PTL

\* A day whose reset is recorded is not reset again.
THEOREM NoSecondReset == Spec => []OncePerDay
<1>1. LockInv => OncePerDay
  BY DEF LockInv, DayDone, OncePerDay, Holding
<1>2. QED BY <1>1, LockInvariant, PTL
=============================================================================
