------------------------ MODULE ProjectWritesProofs ------------------------
(***************************************************************************)
(* Theorems about ProjectWrites, for any number of requests, keys, bodies  *)
(* and any time to live.                                                   *)
(***************************************************************************)
EXTENDS ProjectWrites, TLAPS

-----------------------------------------------------------------------------
\* Every scope the code writes is one of the three of the table's enum.
LEMMA ScopeOfKind ==
    ASSUME NEW kind \in Kind
    PROVE  ScopeOf(kind) \in Scope
BY DEF ScopeOf, Kind, Scope

\* A request's slot is a slot of the table as soon as its key is not missing.
LEMMA SlotOfRequest ==
    ASSUME TypeOK, NEW p \in Request, key[p] # NoKey
    PROVE  SlotOf(p) \in Slot
BY BodyAssumption, ScopeOfKind DEF TypeOK, SlotOf, Slot

\* Only requests with a key pass the interceptor.
KeyPresent ==
    \A p \in Request : pc[p] \notin {"idle", "done"} => key[p] # NoKey

\* A request inside its transaction knows the version it writes or refers to.
VersionHeld ==
    \A p \in Request : pc[p] \in {"record", "commit"} =>
        tx[p].number \in Nat \ {0} /\ tx[p].version \in CalcId

\* What an action needs to keep every variable in its type.
TypeInv == TypeOK /\ KeyPresent /\ VersionHeld

LEMMA TypeInit == Init => TypeInv
<1> SUFFICES ASSUME Init PROVE TypeInv
  OBVIOUS
<1> USE IdAssumption, RetentionAssumption
<1>1. TypeOK
  BY DEF Init, TypeOK, Where, Status, Version, CalcId, NoTx, NoAnswer, Never, Tx, Answer
<1>2. KeyPresent /\ VersionHeld
  BY DEF Init, KeyPresent, VersionHeld
<1> QED
  BY <1>1, <1>2 DEF TypeInv

LEMMA GotoType ==
    ASSUME TypeOK, NEW p \in Request, NEW place \in Where, Goto(p, place)
    PROVE  pc' \in [Request -> Where] /\ pc'[p] = place
BY DEF TypeOK, Goto

LEMMA FinishType ==
    ASSUME TypeOK, NEW p \in Request, NEW status \in Status, NEW shown \in SUBSET Nat,
           Finish(p, status, shown)
    PROVE  pc' \in [Request -> Where] /\ answer' \in [Request -> Answer] /\ pc'[p] = "done"
BY DEF TypeOK, Finish, Goto, Answer, Where

LEMMA AnswerFromType ==
    ASSUME TypeOK, NEW p \in Request, NEW r \in keys, AnswerFrom(p, r)
    PROVE  /\ pc' \in [Request -> Where]
           /\ answer' \in [Request -> Answer]
           /\ served' \in [Request -> Request \cup {Nobody}]
           /\ pc'[p] \in {"done", "replay"}
<1>0. r.result \in Request
  BY DEF TypeOK, Row
<1>1. CASE r.body # body[p]
  BY <1>1, FinishType, "KEY_REUSED" \in Status DEF AnswerFrom, TypeOK, Status
<1>2. CASE r.body = body[p]
  BY <1>2, <1>0, GotoType DEF AnswerFrom, TypeOK, Where
<1> QED
  BY <1>1, <1>2

\* A row found for a request shows that the request has a key.
LEMMA FoundMeansKey ==
    ASSUME TypeOK, NEW p \in Request, NEW r \in Find(SlotOf(p))
    PROVE  key[p] # NoKey
<1>1. SlotOf(p) \in Scope \X Key
  BY DEF Find, TypeOK, Row, Slot
<1> QED
  BY <1>1, IdAssumption DEF SlotOf

LEMMA LookUpType ==
    ASSUME TypeInv, NEW p \in Request, LookUp(p)
    PROVE  TypeInv'
<1>1. TypeOK'
  <2>1. CASE key[p] = NoKey /\ Finish(p, "KEY_REQUIRED", {}) /\ UNCHANGED served
    BY <2>1, FinishType, "KEY_REQUIRED" \in Status DEF TypeInv, TypeOK, LookUp, dbVars, history, Status
  <2>2. CASE \E r \in Find(SlotOf(p)) : AnswerFrom(p, r)
    BY <2>2, AnswerFromType DEF TypeInv, TypeOK, LookUp, Find, dbVars, history
  <2>3. CASE Goto(p, "prepare") /\ UNCHANGED <<served, answer>>
    BY <2>3, GotoType DEF TypeInv, TypeOK, LookUp, Where, dbVars, history
  <2> QED
    BY <2>1, <2>2, <2>3 DEF LookUp
<1>2. KeyPresent'
  <2>1. pc'[p] # "done" => key[p] # NoKey
    BY FoundMeansKey DEF TypeInv, TypeOK, LookUp, Finish, Goto
  <2> QED
    BY <2>1 DEF TypeInv, TypeOK, KeyPresent, LookUp, AnswerFrom, Goto, Finish
<1>3. VersionHeld'
  BY DEF TypeInv, TypeOK, VersionHeld, LookUp, AnswerFrom, Goto, Finish
<1> QED
  BY <1>1, <1>2, <1>3 DEF TypeInv

LEMMA PrepareType ==
    ASSUME TypeInv, NEW p \in Request, Prepare(p)
    PROVE  TypeInv'
<1>1. TypeOK'
  BY FinishType, GotoType, {"NOT_FOUND", "FAILED"} \subseteq Status, "write" \in Where
     DEF TypeInv, TypeOK, Prepare, dbVars, history, Status, Where
<1>2. KeyPresent' /\ VersionHeld'
  BY DEF TypeInv, TypeOK, KeyPresent, VersionHeld, Prepare, Goto, Finish
<1> QED
  BY <1>1, <1>2 DEF TypeInv

LEMMA BodyType ==
    ASSUME TypeOK, NEW p \in Request
    PROVE  body[p].kind \in Kind /\ body[p].calc \in CalcId
BY BodyAssumption DEF TypeOK

LEMMA WriteType ==
    ASSUME TypeInv, NEW p \in Request, Write(p)
    PROVE  TypeInv'
<1>1. \E n \in Nat \ {0}, v \in CalcId : tx' = [tx EXCEPT ![p] = Begun(n, v)]
  <2>0. p \in CalcId
    BY DEF CalcId
  <2>1. CASE body[p].kind \in {"save", "draftLead", "honeypot"}
    BY <2>1, <2>0 DEF Write
  <2>2. CASE body[p].kind = "recalculate"
    <3>1. NextNumber(p) \in Nat \ {0}
      BY BodyType DEF TypeInv, TypeOK, NextNumber
    <3> QED
      BY <2>2, <2>0, <3>1 DEF Write
  <2>3. CASE body[p].kind = "storedLead"
    BY <2>3 DEF Write, StoredVersion, VersionsOf, TypeInv, TypeOK, Version
  <2> QED
    BY <2>1, <2>2, <2>3, BodyType DEF Kind, TypeInv
<1>2. TypeOK'
  BY <1>1, GotoType, "record" \in Where DEF TypeInv, TypeOK, Write, Begun, Tx, dbVars, history, Where
<1>3. KeyPresent'
  BY DEF TypeInv, TypeOK, KeyPresent, Write, Goto
<1>4. VersionHeld'
  BY <1>1 DEF TypeInv, TypeOK, VersionHeld, Write, Begun, Goto
<1> QED
  BY <1>2, <1>3, <1>4 DEF TypeInv

LEMMA RecordType ==
    ASSUME TypeInv, NEW p \in Request, Record(p)
    PROVE  TypeInv'
<1>1. tx' \in [Request -> Tx]
  <2>1. CASE tx' = [tx EXCEPT ![p] = NoTx]
    BY <2>1 DEF TypeInv, TypeOK, Tx, NoTx
  <2>2. CASE tx' = [tx EXCEPT ![p].recordedAt = now]
    <3>1. [tx[p] EXCEPT !.recordedAt = now] \in Tx
      BY DEF TypeInv, TypeOK, Tx
    <3> QED
      BY <2>2, <3>1 DEF TypeInv, TypeOK
  <2> QED
    BY <2>1, <2>2 DEF Record
<1>2. TypeOK'
  BY <1>1, GotoType, {"conflict", "commit"} \subseteq Where
     DEF Record, TypeInv, TypeOK, Where, dbVars, history
<1>3. KeyPresent' /\ VersionHeld'
  BY DEF TypeInv, TypeOK, KeyPresent, VersionHeld, Record, Goto, Tx
<1> QED
  BY <1>2, <1>3 DEF TypeInv

LEMMA CommitType ==
    ASSUME TypeInv, NEW p \in Request, Commit(p)
    PROVE  TypeInv'
<1>0. /\ tx[p].number \in Nat \ {0}
      /\ tx[p].version \in CalcId
      /\ tx[p].startedAt \in Nat
      /\ tx[p].recordedAt \in Nat
      /\ SlotOf(p) \in Slot
      /\ p \in CalcId
      /\ TargetOf(p) \in CalcId
  BY SlotOfRequest, BodyType DEF TypeInv, TypeOK, KeyPresent, VersionHeld, Commit, Tx, CalcId, TargetOf
<1>1. NewRow(p) \in Row
  BY <1>0 DEF NewRow, Row, TypeInv, TypeOK
<1>2. NewVersions(p) \subseteq Version
  BY <1>0 DEF NewVersions, Version
<1>3. NewLatest(p) \in [CalcId -> Nat]
  BY <1>0 DEF NewLatest, TypeInv, TypeOK
<1>4. NewLeads(p) \subseteq Lead
  BY <1>0 DEF NewLeads, Lead
<1>5. tx' \in [Request -> Tx]
  BY DEF Commit, TypeInv, TypeOK, Tx, NoTx
<1>6. AfterPurge(p, tx[p].recordedAt) \subseteq Row
  BY DEF AfterPurge, TypeInv, TypeOK
<1>7. TypeOK'
  BY <1>0, <1>1, <1>2, <1>3, <1>4, <1>5, <1>6, GotoType, "respond" \in Where
     DEF Commit, TypeInv, TypeOK, Where
<1>8. KeyPresent' /\ VersionHeld'
  BY DEF TypeInv, TypeOK, KeyPresent, VersionHeld, Commit, Goto
<1> QED
  BY <1>7, <1>8 DEF TypeInv

LEMMA FindWinnerType ==
    ASSUME TypeInv, NEW p \in Request, FindWinner(p)
    PROVE  TypeInv'
<1>1. TypeOK'
  BY AnswerFromType, FinishType, "KEY_CONFLICT" \in Status
     DEF TypeInv, TypeOK, FindWinner, Find, dbVars, history, Status
<1>2. KeyPresent' /\ VersionHeld'
  BY DEF TypeInv, TypeOK, KeyPresent, VersionHeld, FindWinner, AnswerFrom, Goto, Finish
<1> QED
  BY <1>1, <1>2 DEF TypeInv

LEMMA SummariesType ==
    ASSUME TypeOK, NEW v \in versions
    PROVE  SummariesUpTo(v) \in SUBSET Nat
BY DEF TypeOK, SummariesUpTo, VersionsOf, Version

LEMMA ReplayType ==
    ASSUME TypeInv, NEW p \in Request, Replay(p)
    PROVE  TypeInv'
<1>1. TypeOK'
  BY SummariesType, FinishType, {"ok", "FAILED"} \subseteq Status
     DEF TypeInv, TypeOK, Replay, dbVars, history, Status
<1>2. KeyPresent' /\ VersionHeld'
  BY DEF TypeInv, TypeOK, KeyPresent, VersionHeld, Replay, Goto, Finish
<1> QED
  BY <1>1, <1>2 DEF TypeInv

LEMMA RespondType ==
    ASSUME TypeInv, NEW p \in Request, Respond(p)
    PROVE  TypeInv'
<1>1. TypeOK'
  BY SummariesType, FinishType, "ok" \in Status
     DEF TypeInv, TypeOK, Respond, dbVars, history, Status
<1>2. KeyPresent' /\ VersionHeld'
  BY DEF TypeInv, TypeOK, KeyPresent, VersionHeld, Respond, Goto, Finish
<1> QED
  BY <1>1, <1>2 DEF TypeInv

LEMMA LoseType ==
    ASSUME TypeInv, NEW p \in Request, Lose(p)
    PROVE  TypeInv'
<1>1. tx' \in [Request -> Tx]
  BY DEF Lose, TypeInv, TypeOK, Tx, NoTx
<1>2. TypeOK'
  BY <1>1, FinishType, "lost" \in Status DEF TypeInv, TypeOK, Lose, dbVars, history, Status
<1>3. KeyPresent' /\ VersionHeld'
  BY DEF TypeInv, TypeOK, KeyPresent, VersionHeld, Lose, Goto, Finish
<1> QED
  BY <1>2, <1>3 DEF TypeInv

\* A maintenance run keeps its instant.
LEMMA TaskEndsRuns ==
    ASSUME runs \subseteq Run, NEW m \in runs, NEW t, TaskEnds(m, t)
    PROVE  \A n \in runs' : n \in Run /\ \E o \in runs : n.at = o.at
BY DEF TaskEnds, Run

LEMMA RunStepRuns ==
    ASSUME runs \subseteq Run, NEW m \in runs, RunStep(m)
    PROVE  \A n \in runs' : n \in Run /\ \E o \in runs : n.at = o.at
<1>1. CASE \E t : TaskEnds(m, t)
  BY <1>1, TaskEndsRuns
<1>2. CASE runs' = (runs \ {m}) \cup {[m EXCEPT !.due = TRUE]}
  BY <1>2 DEF Run
<1> QED
  BY <1>1, <1>2 DEF RunStep, CheckRetention, RunRetention, RunCleanup, TaskFails

\* The administrator, the tasks and the clock leave the requests alone.
LEMMA EnvironmentType ==
    ASSUME TypeInv,
           \/ \E p \in Request : DeleteLead(p)
           \/ \E d \in RetentionDays : ChangeRetention(d)
           \/ StartMaintenance
           \/ \E m \in runs : RunStep(m)
           \/ Tick
           \/ UNCHANGED vars
    PROVE  TypeInv'
<1> USE TimeAssumption, TaskAssumption DEF TypeInv, TypeOK, dbVars, requestVars, history
<1>1. TypeOK'
  <2>1. ASSUME NEW p \in Request, DeleteLead(p) PROVE TypeOK'
    BY <2>1 DEF DeleteLead, KeysOfLead
  <2>2. ASSUME NEW d \in RetentionDays, ChangeRetention(d) PROVE TypeOK'
    BY <2>2 DEF ChangeRetention
  <2>3. CASE StartMaintenance
    <3>1. [at |-> now, left |-> Task, due |-> FALSE] \in Run
      BY DEF Run
    <3> QED
      BY <2>3, <3>1 DEF StartMaintenance
  <2>4. ASSUME NEW m \in runs, RunStep(m) PROVE TypeOK'
    <3>1. runs' \subseteq Run
      BY <2>4, RunStepRuns
    <3>2. m.at \in Nat
      BY DEF Run
    <3> QED
      BY <2>4, <3>1, <3>2 DEF RunStep, CheckRetention, RunRetention, RunCleanup, TaskFails
  <2>5. CASE Tick
    BY <2>5 DEF Tick
  <2>6. CASE UNCHANGED vars
    BY <2>6 DEF vars
  <2> QED
    BY <2>1, <2>2, <2>3, <2>4, <2>5, <2>6
<1>2. KeyPresent' /\ VersionHeld'
  BY DEF KeyPresent, VersionHeld, DeleteLead, ChangeRetention, StartMaintenance, RunStep,
         CheckRetention, RunRetention, RunCleanup, TaskFails, Tick, vars
<1> QED
  BY <1>1, <1>2

LEMMA TypeStep == TypeInv /\ [Next]_vars => TypeInv'
BY LookUpType, PrepareType, WriteType, RecordType, CommitType, FindWinnerType, ReplayType, RespondType,
   LoseType, EnvironmentType DEF Next, Step

\* Every row, request and setting keeps its type: in particular a lead always
\* has a version, and no row is written for a request without a key.
THEOREM TypeCorrect == Spec => []TypeOK
<1>1. TypeInv => TypeOK
  BY DEF TypeInv
<1> QED
  BY <1>1, TypeInit, TypeStep, PTL DEF Spec

-----------------------------------------------------------------------------
\* The argument for one effect per key.  An effect and its row are committed
\* together; a row goes only when it is too old or its lead is deleted; so a
\* recent effect still has its row, and a second one collides with it.  Between
\* the insert of a key and its commit nobody else inserts it: they wait.

\* A request that has not passed its transaction has no effect.
NotYet ==
    \A p \in Request : pc[p] \in {"idle", "prepare", "write", "record", "commit", "conflict"}
                           => recordedAt[p] = Never

\* Nothing recorded lies in the future.
PastOnly ==
    \A p \in Request :
        /\ recordedAt[p] <= now
        /\ erasedAt[p] <= now
        /\ erasedAt[p] # Never => recordedAt[p] # Never

RunsPast == \A m \in runs : m.at <= now

\* A row describes the effect of the request it names.
RowsSound ==
    \A r \in keys :
        /\ recordedAt[r.result] # Never
        /\ r.slot = SlotOf(r.result)
        /\ r.body = body[r.result]
        /\ r.createdAt = recordedAt[r.result]

\* A recent effect has its row.
Remembered ==
    \A p \in Request :
        /\ recordedAt[p] # Never
        /\ erasedAt[p] = Never
        /\ now - recordedAt[p] <= Ttl
        => \E r \in keys : r.result = p

\* The primary key of idempotency_keys.
SlotUnique == \A r, s \in keys : r.slot = s.slot => r = s

\* The effect of q was forgotten at the given instant.
Forgotten(q, at) ==
    /\ recordedAt[q] <= at
    /\ at - recordedAt[q] > Ttl \/ (erasedAt[q] # Never /\ erasedAt[q] <= at)

\* A transaction that has inserted its key is the only one, and found every
\* earlier effect of the key forgotten.
KeyHeld ==
    /\ \A p \in Request : pc[p] = "commit" =>
        /\ tx[p].recordedAt <= now
        /\ \A r \in keys : r.slot = SlotOf(p) => Expired(r, tx[p].recordedAt)
        /\ \A q \in Request : recordedAt[q] # Never /\ SlotOf(q) = SlotOf(p)
               => Forgotten(q, tx[p].recordedAt)
    /\ \A p, q \in Request : pc[p] = "commit" /\ HoldsKey(q, SlotOf(p)) => p = q

EffectInv ==
    /\ TypeInv
    /\ KeyHeld
    /\ NotYet
    /\ PastOnly
    /\ RunsPast
    /\ RowsSound
    /\ Remembered
    /\ SlotUnique
    /\ OneEffectPerKey

LEMMA EffectInit == Init => EffectInv
<1> SUFFICES ASSUME Init PROVE EffectInv
  OBVIOUS
<1>1. /\ KeyHeld /\ NotYet /\ PastOnly /\ RunsPast /\ RowsSound /\ Remembered
      /\ SlotUnique /\ OneEffectPerKey
  BY DEF Init, KeyHeld, HoldsKey, NotYet, PastOnly, RunsPast, RowsSound, Remembered, SlotUnique, OneEffectPerKey, Never
<1> QED
  BY <1>1, TypeInit DEF EffectInv

\* A held key stays held while its transaction, its slot and what was forgotten
\* stay as they are, and rows only go.
LEMMA KeyHeldStays ==
    ASSUME EffectInv, TypeInv', UNCHANGED <<key, body, recordedAt>>,
           keys' \subseteq keys, now' >= now,
           \A q \in Request : erasedAt[q] # Never => erasedAt'[q] = erasedAt[q],
           \A q \in Request : pc'[q] = "commit" => pc[q] = "commit" /\ tx'[q] = tx[q]
    PROVE  KeyHeld'
<1> USE DEF EffectInv, TypeInv, TypeOK
<1>1. \A q \in Request : SlotOf(q)' = SlotOf(q)
  BY DEF SlotOf
<1>2. ASSUME NEW p \in Request, pc'[p] = "commit"
      PROVE  /\ tx'[p].recordedAt <= now'
             /\ \A r \in keys' : r.slot = SlotOf(p) => Expired(r, tx'[p].recordedAt)
             /\ \A q \in Request : recordedAt[q] # Never /\ SlotOf(q) = SlotOf(p)
                    => Forgotten(q, tx'[p].recordedAt)
  BY <1>2 DEF KeyHeld, Tx
<1>3. ASSUME NEW q \in Request, NEW at, Forgotten(q, at) PROVE Forgotten(q, at)'
  BY <1>3 DEF Forgotten
<1>4. \A p, q \in Request : pc'[p] = "commit" /\ HoldsKey(q, SlotOf(p))' => p = q
  BY <1>1 DEF KeyHeld, HoldsKey
<1>5. \A r, at : Expired(r, at)' <=> Expired(r, at)
  BY DEF Expired
<1> QED
  BY <1>1, <1>2, <1>3, <1>4, <1>5 DEF KeyHeld

\* Steps that touch neither the keys, nor the clock, nor the history.
LEMMA QuietStep ==
    ASSUME EffectInv, TypeInv', KeyHeld', NotYet', RunsPast',
           UNCHANGED <<now, keys, key, body, recordedAt, erasedAt>>
    PROVE  EffectInv'
<1>1. \A p \in Request : SlotOf(p)' = SlotOf(p)
  BY DEF SlotOf
<1>2. PastOnly' /\ Remembered' /\ SlotUnique'
  BY DEF EffectInv, PastOnly, Remembered, SlotUnique
<1>3. RowsSound'
  BY <1>1 DEF EffectInv, RowsSound, TypeInv, TypeOK, Row
<1>4. OneEffectPerKey'
  BY <1>1 DEF EffectInv, OneEffectPerKey
<1> QED
  BY <1>2, <1>3, <1>4 DEF EffectInv

LEMMA RequestStepQuiet ==
    ASSUME EffectInv, TypeInv', NEW p \in Request,
           \/ LookUp(p) \/ Prepare(p) \/ Write(p) \/ FindWinner(p)
           \/ Replay(p) \/ Respond(p) \/ Lose(p)
    PROVE  EffectInv'
<1> USE DEF EffectInv, TypeInv, TypeOK, NotYet, Goto, Finish
<1>1. NotYet'
  <2>1. CASE LookUp(p)
    BY <2>1 DEF LookUp, AnswerFrom, history
  <2>2. CASE Prepare(p)
    BY <2>2 DEF Prepare, history
  <2>3. CASE Write(p)
    BY <2>3 DEF Write, history
  <2>4. CASE FindWinner(p)
    BY <2>4 DEF FindWinner, AnswerFrom, history
  <2>5. CASE Replay(p)
    BY <2>5 DEF Replay, history
  <2>6. CASE Respond(p)
    BY <2>6 DEF Respond, history
  <2>7. CASE Lose(p)
    BY <2>7 DEF Lose, history
  <2> QED
    BY <2>1, <2>2, <2>3, <2>4, <2>5, <2>6, <2>7
<1>2. UNCHANGED <<now, runs, keys, key, body, recordedAt, erasedAt>>
  BY DEF LookUp, Prepare, Write, FindWinner, Replay, Respond, Lose, dbVars, history
<1>3. /\ pc'[p] # "commit"
      /\ \A q \in Request \ {p} : pc'[q] = pc[q] /\ tx'[q] = tx[q]
  BY DEF LookUp, Prepare, Write, FindWinner, Replay, Respond, Lose, AnswerFrom
<1>4. KeyHeld'
  BY <1>2, <1>3, KeyHeldStays
<1> QED
  BY <1>1, <1>2, <1>4, QuietStep DEF RunsPast

\* A key that is remembered stops the transaction of a second request.
LEMMA RememberedCollides ==
    ASSUME EffectInv, NEW p \in Request, NEW q \in Request, SlotOf(p) = SlotOf(q),
           recordedAt[q] # Never, erasedAt[q] = Never, now - recordedAt[q] <= Ttl
    PROVE  Collides(p)
<1>1. PICK r \in keys : r.result = q
  BY DEF EffectInv, Remembered
<1>2. r.slot = SlotOf(p) /\ r.createdAt = recordedAt[q]
  BY <1>1 DEF EffectInv, RowsSound
<1>3. ~ Expired(r, now)
  BY <1>2, TimeAssumption DEF Expired, EffectInv, TypeInv, TypeOK, Never
<1> QED
  BY <1>2, <1>3 DEF Collides, AfterPurge

LEMMA RecordEffect ==
    ASSUME EffectInv, TypeInv', NEW p \in Request, Record(p)
    PROVE  EffectInv'
<1> USE DEF EffectInv, TypeInv, TypeOK
<1>0. /\ UNCHANGED <<now, runs, keys, key, body, recordedAt, erasedAt>>
      /\ pc[p] = "record"
      /\ \A q \in Request \ {p} : pc'[q] = pc[q] /\ tx'[q] = tx[q]
  BY DEF Record, Goto, dbVars, history
<1>1. NotYet' /\ RunsPast'
  BY <1>0 DEF NotYet, RunsPast, Record, Goto
<1>2. KeyHeld'
  <2>1. CASE Collides(p)
    <3>1. pc'[p] # "commit"
      BY <2>1 DEF Record, Goto
    <3> QED
      BY <1>0, <3>1, KeyHeldStays
  <2>2. CASE ~ Collides(p)
    <3>0. \A q \in Request : SlotOf(q)' = SlotOf(q)
      BY <1>0 DEF SlotOf
    <3>1. tx'[p].recordedAt = now /\ \A q \in Request : ~ HoldsKey(q, SlotOf(p))
      BY <2>2 DEF Record, Tx
    <3>2. \A r \in keys : r.slot = SlotOf(p) => Expired(r, now)
      BY <2>2 DEF Collides, AfterPurge
    <3>3. \A q \in Request : recordedAt[q] # Never /\ SlotOf(q) = SlotOf(p) => Forgotten(q, now)
      BY <2>2, RememberedCollides, TimeAssumption DEF Forgotten, PastOnly, Never
    <3>4. ASSUME NEW a \in Request, pc'[a] = "commit"
          PROVE  /\ tx'[a].recordedAt <= now
                 /\ \A r \in keys : r.slot = SlotOf(a) => Expired(r, tx'[a].recordedAt)
                 /\ \A q \in Request : recordedAt[q] # Never /\ SlotOf(q) = SlotOf(a)
                        => Forgotten(q, tx'[a].recordedAt)
      BY <1>0, <3>1, <3>2, <3>3, <3>4 DEF KeyHeld
    <3>5. ASSUME NEW a \in Request, NEW b \in Request, pc'[a] = "commit", pc'[b] = "commit",
                 SlotOf(a) = SlotOf(b)
          PROVE  a = b
      BY <1>0, <3>1, <3>5 DEF KeyHeld, HoldsKey
    <3> QED
      BY <1>0, <3>0, <3>4, <3>5 DEF KeyHeld, HoldsKey, Expired, Forgotten
  <2> QED
    BY <2>1, <2>2
<1> QED
  BY <1>0, <1>1, <1>2, QuietStep

LEMMA CommitEffect ==
    ASSUME EffectInv, TypeInv', NEW p \in Request, Commit(p)
    PROVE  EffectInv'
<1> USE DEF EffectInv, TypeInv, TypeOK
<1> DEFINE at == tx[p].recordedAt
<1>1. /\ keys' = AfterPurge(p, at) \cup {NewRow(p)}
      /\ recordedAt' = [recordedAt EXCEPT ![p] = at]
      /\ pc' = [pc EXCEPT ![p] = "respond"]
      /\ pc[p] = "commit"
      /\ \A q \in Request \ {p} : tx'[q] = tx[q]
      /\ UNCHANGED <<now, key, body, erasedAt>>
  BY DEF Commit, Goto
<1>a. /\ at \in Nat /\ at <= now
      /\ \A r \in keys : r.slot = SlotOf(p) => Expired(r, at)
      /\ \A q \in Request : recordedAt[q] # Never /\ SlotOf(q) = SlotOf(p) => Forgotten(q, at)
      /\ \A q \in Request \ {p} : pc[q] = "commit" => SlotOf(q) # SlotOf(p)
  BY <1>1 DEF KeyHeld, HoldsKey, Tx
<1> HIDE DEF at
<1>2. \A q \in Request : SlotOf(q)' = SlotOf(q)
  BY <1>1 DEF SlotOf
<1>3. recordedAt[p] = Never /\ erasedAt[p] = Never
  BY <1>1 DEF NotYet, PastOnly
<1>4. NotYet' /\ RunsPast'
  BY <1>1 DEF NotYet, RunsPast, Commit
<1>5. PastOnly'
  BY <1>1, <1>a DEF PastOnly, Never
<1>6. RowsSound'
  <2> SUFFICES ASSUME NEW r \in keys'
               PROVE  /\ recordedAt'[r.result] # Never
                      /\ r.slot = SlotOf(r.result)'
                      /\ r.body = body'[r.result]
                      /\ r.createdAt = recordedAt'[r.result]
    BY DEF RowsSound
  <2>1. CASE r \in AfterPurge(p, at)
    <3>1. r \in keys /\ r.result \in Request
      BY <2>1 DEF AfterPurge, Row
    <3>2. r.result # p
      BY <3>1, <1>3 DEF RowsSound
    <3> QED
      BY <3>1, <3>2, <1>1, <1>2 DEF RowsSound
  <2>2. CASE r = NewRow(p)
    BY <2>2, <1>1, <1>2, <1>a DEF NewRow, Never, at
  <2> QED
    BY <2>1, <2>2, <1>1
<1>7. Remembered'
  <2> SUFFICES ASSUME NEW q \in Request, recordedAt'[q] # Never, erasedAt'[q] = Never,
                      now' - recordedAt'[q] <= Ttl
               PROVE  \E r \in keys' : r.result = q
    BY DEF Remembered
  <2>1. CASE q = p
    <3>1. NewRow(p) \in keys' /\ NewRow(p).result = p
      BY <1>1 DEF NewRow
    <3> QED
      BY <2>1, <3>1
  <2>2. CASE q # p
    <3>1. PICK r \in keys : r.result = q
      BY <2>2, <1>1 DEF Remembered
    <3>2. r.createdAt = recordedAt[q] /\ recordedAt[q] = recordedAt'[q] /\ now' = now
      BY <3>1, <2>2, <1>1 DEF RowsSound
    <3>3. ~ Expired(r, at)
      BY <1>a, <2>2, <3>1, <3>2, TimeAssumption DEF Expired, Never
    <3> QED
      BY <3>1, <3>3, <1>1 DEF AfterPurge
  <2> QED
    BY <2>1, <2>2
<1>8. SlotUnique'
  BY <1>1, <1>a DEF SlotUnique, AfterPurge, NewRow
<1>9. KeyHeld'
  <2>1. ASSUME NEW q \in Request, pc'[q] = "commit"
        PROVE  /\ tx'[q].recordedAt <= now'
               /\ \A r \in keys' : r.slot = SlotOf(q) => Expired(r, tx'[q].recordedAt)
               /\ \A o \in Request : recordedAt'[o] # Never /\ SlotOf(o) = SlotOf(q)
                      => Forgotten(o, tx[q].recordedAt)'
    <3>1. q # p /\ pc[q] = "commit" /\ tx'[q] = tx[q] /\ SlotOf(q) # SlotOf(p)
      BY <1>1, <1>a, <2>1
    <3>2. tx[q].recordedAt <= now /\ tx[q].recordedAt = tx'[q].recordedAt /\ now' = now
      BY <1>1, <3>1 DEF KeyHeld
    <3>3. \A r \in keys' : r.slot = SlotOf(q) => Expired(r, tx[q].recordedAt)
      BY <1>1, <3>1 DEF KeyHeld, AfterPurge, NewRow
    <3>4. ASSUME NEW o \in Request, recordedAt'[o] # Never, SlotOf(o) = SlotOf(q)
          PROVE  Forgotten(o, tx[q].recordedAt)'
      <4>1. o # p /\ recordedAt'[o] = recordedAt[o] /\ erasedAt' = erasedAt
        BY <1>1, <3>1, <3>4
      <4>2. Forgotten(o, tx[q].recordedAt)
        BY <3>1, <3>4, <4>1 DEF KeyHeld
      <4> QED
        BY <3>2, <4>1, <4>2 DEF Forgotten
    <3> QED
      BY <3>2, <3>3, <3>4
  <2>2. \A a, b \in Request : pc'[a] = "commit" /\ HoldsKey(b, SlotOf(a))' => a = b
    BY <1>1, <1>2 DEF KeyHeld, HoldsKey
  <2> QED
    BY <1>2, <2>1, <2>2 DEF KeyHeld, Expired
<1>10. OneEffectPerKey'
  <2> SUFFICES ASSUME NEW a \in Request, NEW b \in Request, a # b,
                      recordedAt'[a] # Never, recordedAt'[b] # Never,
                      SlotOf(a)' = SlotOf(b)', recordedAt'[a] <= recordedAt'[b]
               PROVE  \/ recordedAt'[b] - recordedAt'[a] > Ttl
                      \/ erasedAt'[a] # Never /\ erasedAt'[a] <= recordedAt'[b]
                      \/ erasedAt'[b] # Never /\ erasedAt'[b] <= recordedAt'[a]
    BY DEF OneEffectPerKey
  <2>1. SlotOf(a) = SlotOf(b)
    BY <1>2
  <2>2. CASE a # p /\ b # p
    BY <2>1, <2>2, <1>1 DEF OneEffectPerKey
  <2>3. CASE b = p
    BY <2>1, <2>3, <1>1, <1>a DEF Forgotten
  <2>4. CASE a = p
    <3>1. recordedAt'[b] = recordedAt[b] /\ recordedAt'[a] = at
      BY <2>4, <1>1
    <3>2. Forgotten(b, at)
      BY <2>1, <2>4, <3>1, <1>a
    <3>3. at - recordedAt[b] <= 0
      BY <3>1, <1>a DEF Never
    <3> QED
      BY <3>1, <3>2, <3>3, <1>1, <1>a, TimeAssumption DEF Forgotten, Never
  <2> QED
    BY <2>2, <2>3, <2>4
<1> QED
  BY <1>4, <1>5, <1>6, <1>7, <1>8, <1>9, <1>10

LEMMA DeleteLeadEffect ==
    ASSUME EffectInv, TypeInv', NEW p \in Request, DeleteLead(p)
    PROVE  EffectInv'
<1> USE DEF EffectInv, TypeInv, TypeOK
<1>1. /\ keys' = keys \ KeysOfLead(p)
      /\ erasedAt' = [erasedAt EXCEPT ![p] = now]
      /\ erasedAt[p] = Never
      /\ recordedAt[p] # Never
      /\ UNCHANGED <<now, key, body, pc, tx, recordedAt>>
  BY DEF DeleteLead, requestVars
<1>2. \A q \in Request : SlotOf(q)' = SlotOf(q)
  BY <1>1 DEF SlotOf
<1>3. NotYet' /\ PastOnly' /\ RunsPast' /\ SlotUnique'
  BY <1>1 DEF NotYet, PastOnly, RunsPast, SlotUnique, Never, DeleteLead
<1>4. RowsSound'
  BY <1>1, <1>2 DEF RowsSound, Row
<1>5. Remembered'
  BY <1>1 DEF Remembered, KeysOfLead, Never
<1>6. OneEffectPerKey'
  BY <1>1, <1>2 DEF OneEffectPerKey, Never
<1>7. KeyHeld'
  BY <1>1, KeyHeldStays
<1> QED
  BY <1>3, <1>4, <1>5, <1>6, <1>7

LEMMA CleanupEffect ==
    ASSUME EffectInv, TypeInv', NEW m \in runs, RunCleanup(m)
    PROVE  EffectInv'
<1> USE TimeAssumption DEF EffectInv, TypeInv, TypeOK
<1>1. /\ keys' = {r \in keys : ~ Expired(r, m.at)}
      /\ UNCHANGED <<now, key, body, pc, tx, recordedAt, erasedAt>>
  BY DEF RunCleanup, requestVars, history
<1>0. m.at \in Nat /\ m.at <= now /\ RunsPast'
  BY <1>1, RunStepRuns DEF RunsPast, Run, RunStep
<1>2. \A q \in Request : SlotOf(q)' = SlotOf(q)
  BY <1>1 DEF SlotOf
<1>3. NotYet' /\ PastOnly' /\ SlotUnique'
  BY <1>1 DEF NotYet, PastOnly, SlotUnique
<1>4. RowsSound'
  BY <1>1, <1>2 DEF RowsSound, Row
<1>5. Remembered'
  <2> SUFFICES ASSUME NEW q \in Request, recordedAt[q] # Never, erasedAt[q] = Never,
                      now - recordedAt[q] <= Ttl
               PROVE  \E r \in keys' : r.result = q
    BY <1>1 DEF Remembered
  <2>1. PICK r \in keys : r.result = q
    BY DEF Remembered
  <2>2. ~ Expired(r, m.at)
    BY <1>0, <2>1 DEF RowsSound, Expired, PastOnly, Never
  <2> QED
    BY <2>1, <2>2, <1>1
<1>6. OneEffectPerKey'
  BY <1>1, <1>2 DEF OneEffectPerKey
<1>7. KeyHeld'
  BY <1>1, KeyHeldStays
<1> QED
  BY <1>0, <1>3, <1>4, <1>5, <1>6, <1>7

LEMMA ClockEffect ==
    ASSUME EffectInv, TypeInv', Tick \/ StartMaintenance
    PROVE  EffectInv'
<1> USE DEF EffectInv, TypeInv, TypeOK
<1>1. /\ now' >= now /\ RunsPast'
      /\ UNCHANGED <<keys, key, body, pc, tx, recordedAt, erasedAt>>
  BY DEF Tick, StartMaintenance, RunsPast, Run, dbVars, requestVars, history
<1>2. \A q \in Request : SlotOf(q)' = SlotOf(q)
  BY <1>1 DEF SlotOf
<1>3. NotYet' /\ PastOnly' /\ SlotUnique'
  BY <1>1 DEF NotYet, PastOnly, SlotUnique, Never
<1>4. RowsSound'
  BY <1>1, <1>2 DEF RowsSound, Row
<1>5. Remembered'
  BY <1>1, TimeAssumption DEF Remembered, Never
<1>6. OneEffectPerKey'
  BY <1>1, <1>2 DEF OneEffectPerKey
<1>7. KeyHeld'
  BY <1>1, KeyHeldStays
<1> QED
  BY <1>1, <1>3, <1>4, <1>5, <1>6, <1>7

LEMMA EnvironmentQuiet ==
    ASSUME EffectInv, TypeInv',
           \/ \E d \in RetentionDays : ChangeRetention(d)
           \/ \E m \in runs : RunStep(m) /\ ~ RunCleanup(m)
           \/ UNCHANGED vars
    PROVE  EffectInv'
<1>1. UNCHANGED <<now, keys, key, body, recordedAt, erasedAt, pc, tx>>
  BY DEF ChangeRetention, RunStep, CheckRetention, RunRetention, TaskFails,
         vars, dbVars, requestVars, history
<1>2. NotYet'
  BY <1>1 DEF EffectInv, NotYet
<1>3. RunsPast'
  <2>1. CASE UNCHANGED runs
    BY <1>1, <2>1 DEF EffectInv, RunsPast
  <2>2. ASSUME NEW m \in runs, RunStep(m) PROVE RunsPast'
    BY <1>1, <2>2, RunStepRuns DEF EffectInv, TypeInv, TypeOK, RunsPast
  <2> QED
    BY <2>1, <2>2 DEF ChangeRetention, vars
<1>4. KeyHeld'
  BY <1>1, KeyHeldStays DEF EffectInv, TypeInv, TypeOK
<1> QED
  BY <1>1, <1>2, <1>3, <1>4, QuietStep

LEMMA EffectStep == EffectInv /\ [Next]_vars => EffectInv'
<1> SUFFICES ASSUME EffectInv, [Next]_vars PROVE EffectInv'
  OBVIOUS
<1>1. TypeInv'
  BY TypeStep DEF EffectInv
<1>2. ASSUME NEW p \in Request, LookUp(p) \/ Step(p) \/ Lose(p) PROVE EffectInv'
  BY <1>1, <1>2, RequestStepQuiet, RecordEffect, CommitEffect DEF Step
<1>3. ASSUME NEW p \in Request, DeleteLead(p) PROVE EffectInv'
  BY <1>1, <1>3, DeleteLeadEffect
<1>4. ASSUME NEW m \in runs, RunCleanup(m) PROVE EffectInv'
  BY <1>1, <1>4, CleanupEffect
<1>5. CASE Tick \/ StartMaintenance
  BY <1>1, <1>5, ClockEffect
<1> QED
  BY <1>1, <1>2, <1>3, <1>4, <1>5, EnvironmentQuiet DEF Next

\* Two requests with the same scope and key both take effect only when the key
\* was forgotten between them: its time to live had passed, or the lead it led
\* to was deleted.
THEOREM EffectOnce == Spec => []OneEffectPerKey
<1>1. EffectInv => OneEffectPerKey
  BY DEF EffectInv
<1> QED
  BY <1>1, EffectInit, EffectStep, PTL DEF Spec

-----------------------------------------------------------------------------
\* The table of keys, the transactions and the lookups implement the ledger of
\* IdempotentStore.

\* A request is decided exactly when it leaves the lookups and its transaction.
DecidedOnce ==
    \A p \in Request :
        /\ pc[p] \in {"idle", "prepare", "write", "record", "commit", "conflict"}
              => served[p] = Nobody /\ answer[p].status = "none"
        /\ pc[p] \in {"replay", "respond"} => served[p] # Nobody

\* No transaction outlives its timeout, and a key is inserted within it.
TxYoung ==
    \A p \in Request :
        /\ pc[p] \in {"record", "commit"} =>
              tx[p].startedAt <= now /\ now - tx[p].startedAt <= TxTimeout
        /\ pc[p] = "commit" =>
              tx[p].startedAt <= tx[p].recordedAt /\ tx[p].recordedAt <= now

StoreInv == EffectInv /\ TxYoung /\ DecidedOnce

LEMMA StoreInit == Init => StoreInv
BY EffectInit DEF Init, StoreInv, TxYoung, DecidedOnce, NoAnswer

\* The clock keeps within the timeout of every open transaction.
LEMMA TxYoungStep ==
    ASSUME TypeInv, TxYoung, [Next]_vars
    PROVE  TxYoung'
<1> USE TimeAssumption DEF TypeInv, TypeOK, Tx, TxYoung
<1>1. ASSUME UNCHANGED now,
             \A q \in Request : pc'[q] \in {"record", "commit"}
                                   => pc'[q] = pc[q] /\ tx'[q] = tx[q]
      PROVE  TxYoung'
  BY <1>1
<1>2. ASSUME NEW p \in Request, Write(p) PROVE TxYoung'
  <2>1. /\ UNCHANGED now
        /\ tx'[p].startedAt = now /\ pc'[p] = "record"
        /\ \A q \in Request \ {p} : pc'[q] = pc[q] /\ tx'[q] = tx[q]
    BY <1>2, BodyType DEF Write, Goto, Kind, Begun
  <2> QED
    BY <2>1
<1>3. CASE Tick
  BY <1>3 DEF Tick, requestVars
<1>4. ASSUME NEW p \in Request,
             \/ LookUp(p) \/ Prepare(p) \/ Commit(p) \/ FindWinner(p) \/ Replay(p)
             \/ Respond(p) \/ Lose(p)
      PROVE  TxYoung'
  <2>1. UNCHANGED now
    BY <1>4 DEF LookUp, Prepare, Commit, FindWinner, Replay, Respond, Lose
  <2>2. pc'[p] \notin {"record", "commit"} /\ \A q \in Request \ {p} : pc'[q] = pc[q] /\ tx'[q] = tx[q]
    BY <1>4 DEF LookUp, Prepare, Commit, FindWinner, Replay, Respond, Lose, AnswerFrom,
                Goto, Finish
  <2> QED
    BY <1>1, <2>1, <2>2
<1>5. ASSUME \/ \E p \in Request : DeleteLead(p)
             \/ \E d \in RetentionDays : ChangeRetention(d)
             \/ StartMaintenance
             \/ \E m \in runs : RunStep(m)
             \/ UNCHANGED vars
      PROVE  UNCHANGED <<now, pc, tx>>
  BY <1>5 DEF DeleteLead, ChangeRetention, StartMaintenance, RunStep, CheckRetention,
              RunRetention, RunCleanup, TaskFails, vars, requestVars
<1>6. ASSUME NEW p \in Request, Record(p) PROVE TxYoung'
  <2>1. /\ UNCHANGED now
        /\ pc[p] = "record"
        /\ tx'[p].startedAt = tx[p].startedAt \/ pc'[p] = "conflict"
        /\ pc'[p] = "commit" => tx'[p].recordedAt = now
        /\ \A q \in Request \ {p} : pc'[q] = pc[q] /\ tx'[q] = tx[q]
    BY <1>6 DEF Record, Goto
  <2> QED
    BY <2>1
<1>7. ASSUME NEW p \in Request, LookUp(p) \/ Step(p) \/ Lose(p) PROVE TxYoung'
  BY <1>2, <1>4, <1>7, <1>6 DEF Step
<1> QED
  BY <1>1, <1>3, <1>5, <1>7 DEF Next

LEMMA DecidedStep ==
    ASSUME StoreInv, EffectInv', [Next]_vars
    PROVE  DecidedOnce'
<1> USE IdAssumption DEF StoreInv, EffectInv, TypeInv, TypeOK, DecidedOnce, Goto, Finish, Answer
<1>1. ASSUME NEW p \in Request, LookUp(p) PROVE DecidedOnce'
  BY <1>1 DEF LookUp, AnswerFrom, Find, Row, CalcId
<1>2. ASSUME NEW p \in Request, Prepare(p) PROVE DecidedOnce'
  BY <1>2 DEF Prepare
<1>3. ASSUME NEW p \in Request, Write(p) PROVE DecidedOnce'
  BY <1>3 DEF Write
<1>4. ASSUME NEW p \in Request, Record(p) \/ Commit(p) PROVE DecidedOnce'
  BY <1>4 DEF Record, Commit, CalcId
<1>5. ASSUME NEW p \in Request, FindWinner(p) PROVE DecidedOnce'
  BY <1>5 DEF FindWinner, AnswerFrom, Find, Row, CalcId
<1>7. ASSUME NEW p \in Request, Replay(p) PROVE DecidedOnce'
  BY <1>7 DEF Replay
<1>6. ASSUME NEW p \in Request, Respond(p) PROVE DecidedOnce'
  BY <1>6 DEF Respond
<1>8. ASSUME NEW p \in Request, Lose(p) PROVE DecidedOnce'
  BY <1>8 DEF Lose
<1>9. CASE UNCHANGED requestVars
  BY <1>9 DEF requestVars
<1> QED
  BY <1>1, <1>2, <1>3, <1>4, <1>5, <1>7, <1>6, <1>8, <1>9
     DEF Next, Step, DeleteLead, ChangeRetention, StartMaintenance, RunStep,
         CheckRetention, RunRetention, RunCleanup, TaskFails, Tick, vars

LEMMA StoreStep == StoreInv /\ [Next]_vars => StoreInv'
BY EffectStep, TxYoungStep, DecidedStep DEF StoreInv, EffectInv

\* A row that still answers is an entry of the ledger.
LEMMA FoundIsEntry ==
    ASSUME NEW p \in Request, NEW r \in Find(SlotOf(p))
    PROVE  [slot |-> r.slot, body |-> r.body, result |-> r.result] \in Ledger /\ r.slot = SlotOf(p)
BY DEF Find, Ledger

\* A step that decides request p, and nothing else, is a decision of the store.
LEMMA Decides ==
    ASSUME NEW p \in Request, served[p] = Nobody, answer[p].status = "none",
           \A q \in Request \ {p} : served'[q] = served[q] /\ answer'[q] = answer[q],
           UNCHANGED <<key, body>>
    PROVE  Store!Decide(p, Decision'[p])
<1>1. Decision[p] = "pending"
  BY DEF Decision
<1>2. \A q \in Request \ {p} : Decision'[q] = Decision[q]
  BY DEF Decision
<1>3. /\ Decision = [q \in Request |-> Decision[q]]
      /\ Decision' = [q \in Request |-> Decision'[q]]
  BY DEF Decision
<1>4. Decision' = [Decision EXCEPT ![p] = Decision'[p]]
  <2> HIDE DEF Decision
  <2> QED
    BY <1>2, <1>3
<1> QED
  BY <1>1, <1>4 DEF Store!Decide, SlotOf

LEMMA SameLedger ==
    ASSUME UNCHANGED <<now, keys>>
    PROVE  Ledger' = Ledger
BY DEF Ledger, Expired

\* Replaying and refusing are the two answers the store has for a known key.
LEMMA AnswerFromStore ==
    ASSUME StoreInv, NEW p \in Request, NEW r \in Find(SlotOf(p)), AnswerFrom(p, r),
           pc[p] \in {"idle", "conflict"}, UNCHANGED <<now, keys, key, body>>
    PROVE  Store!Next
<1> USE IdAssumption DEF StoreInv, EffectInv, TypeInv, TypeOK
<1> DEFINE e == [slot |-> r.slot, body |-> r.body, result |-> r.result]
<1>1. e \in Store!EntriesOf(p) /\ e.body = r.body /\ e.result = r.result
  BY FoundIsEntry DEF Store!EntriesOf
<1>2. r.result \in Request
  BY DEF Find, Row
<1>3. served[p] = Nobody /\ answer[p].status = "none"
  BY DEF DecidedOnce
<1>4. Store!Decide(p, Decision'[p])
  BY <1>3, Decides DEF AnswerFrom, Finish, Goto
<1>5. CASE r.body # body[p]
  <2>1. Decision'[p] = "reused"
    BY <1>5, <1>3 DEF AnswerFrom, Finish, Decision, Answer
  <2> QED
    BY <2>1, <1>1, <1>4, <1>5, SameLedger DEF Store!Next, Store!Refuse
<1>6. CASE r.body = body[p]
  <2>1. Decision'[p] = r.result
    BY <1>6, <1>2 DEF AnswerFrom, Decision, CalcId
  <2> QED
    BY <2>1, <1>1, <1>4, <1>6, SameLedger DEF Store!Next, Store!Repeat
<1> QED
  BY <1>5, <1>6

\* An error before anything is decided is a failure of the store.
LEMMA FinishStore ==
    ASSUME StoreInv, NEW p \in Request, NEW status \in Status \ {"none", "KEY_REUSED"},
           Finish(p, status, {}), served[p] = Nobody, answer[p].status = "none",
           UNCHANGED <<now, keys, key, body, served>>
    PROVE  Store!Next
<1> USE DEF StoreInv, EffectInv, TypeInv, TypeOK
<1>1. Store!Decide(p, Decision'[p])
  BY Decides DEF Finish
<1>2. Decision'[p] = "failed"
  BY DEF Finish, Decision, Answer
<1> QED
  BY <1>1, <1>2, SameLedger DEF Store!Next, Store!Fail

\* Steps on the way to a decision, and after it, do not show in the store.
LEMMA HiddenStep ==
    ASSUME UNCHANGED <<now, keys, key, body, served>>,
           \A q \in Request : answer'[q] = answer[q] \/ served[q] # Nobody
    PROVE  UNCHANGED Store!abstractVars
BY SameLedger DEF Store!abstractVars, Decision, SlotOf

StoreAnswers == Store!Next \/ UNCHANGED Store!abstractVars

LEMMA RequestImplements ==
    ASSUME StoreInv, NEW p \in Request,
           \/ LookUp(p) \/ Prepare(p) \/ Write(p) \/ Record(p) \/ FindWinner(p)
           \/ Replay(p) \/ Respond(p) \/ Lose(p)
    PROVE  StoreAnswers
<1> USE DEF StoreAnswers, dbVars, history
<1>0. /\ pc[p] \in {"idle", "prepare", "write", "record", "commit", "conflict"}
            => served[p] = Nobody /\ answer[p].status = "none"
      /\ pc[p] \in {"replay", "respond"} => served[p] # Nobody
  BY DEF StoreInv, DecidedOnce
<1>a. \A status, shown : Finish(p, status, shown)
          => \A q \in Request \ {p} : answer'[q] = answer[q]
  BY DEF Finish, StoreInv, EffectInv, TypeInv, TypeOK
<1>1. CASE LookUp(p)
  <2>1. CASE Finish(p, "KEY_REQUIRED", {}) /\ UNCHANGED served
    BY <1>0, <1>1, <2>1, FinishStore DEF LookUp, Status
  <2>2. CASE \E r \in Find(SlotOf(p)) : AnswerFrom(p, r)
    BY <1>1, <2>2, AnswerFromStore DEF LookUp
  <2>3. CASE UNCHANGED <<served, answer>>
    BY <1>1, <2>3, HiddenStep DEF LookUp
  <2> QED
    BY <1>1, <2>1, <2>2, <2>3 DEF LookUp
<1>2. CASE Prepare(p)
  <2>1. CASE UNCHANGED answer
    BY <1>2, <2>1, HiddenStep DEF Prepare
  <2>2. CASE Finish(p, "NOT_FOUND", {}) \/ Finish(p, "FAILED", {})
    BY <1>0, <1>2, <2>2, FinishStore DEF Prepare, Status
  <2> QED
    BY <1>2, <2>1, <2>2 DEF Prepare
<1>3. CASE Write(p) \/ Record(p)
  BY <1>3, HiddenStep DEF Write, Record
<1>4. CASE FindWinner(p)
  <2>1. CASE \E r \in Find(SlotOf(p)) : AnswerFrom(p, r)
    BY <1>4, <2>1, AnswerFromStore DEF FindWinner
  <2>2. CASE Finish(p, "KEY_CONFLICT", {}) /\ UNCHANGED served
    BY <1>0, <1>4, <2>2, FinishStore DEF FindWinner, Status
  <2> QED
    BY <1>4, <2>1, <2>2 DEF FindWinner
<1>5. CASE Replay(p)
  <2>1. \A q \in Request : answer'[q] = answer[q] \/ served[q] # Nobody
    BY <1>0, <1>5, <1>a DEF Replay
  <2> QED
    BY <1>5, <2>1, HiddenStep DEF Replay
<1>6. CASE Respond(p)
  <2>1. \A q \in Request : answer'[q] = answer[q] \/ served[q] # Nobody
    BY <1>0, <1>6, <1>a DEF Respond
  <2> QED
    BY <1>6, <2>1, HiddenStep DEF Respond
<1>7. CASE Lose(p)
  <2>1. CASE pc[p] \in {"write", "record", "commit"}
    BY <1>0, <1>7, <2>1, FinishStore DEF Lose, Status
  <2>2. CASE pc[p] = "respond"
    <3>1. \A q \in Request : answer'[q] = answer[q] \/ served[q] # Nobody
      BY <1>0, <1>7, <1>a, <2>2 DEF Lose
    <3> QED
      BY <1>7, <3>1, HiddenStep DEF Lose
  <2> QED
    BY <1>7, <2>1, <2>2 DEF Lose
<1> QED
  BY <1>1, <1>2, <1>3, <1>4, <1>5, <1>6, <1>7

LEMMA CommitImplements ==
    ASSUME StoreInv, NEW p \in Request, Commit(p)
    PROVE  StoreAnswers
<1> USE IdAssumption DEF StoreInv, EffectInv, TypeInv, TypeOK
<1> DEFINE e == [slot |-> SlotOf(p), body |-> body[p], result |-> p]
           at == tx[p].recordedAt
<1>1. /\ keys' = AfterPurge(p, at) \cup {NewRow(p)}
      /\ served' = [served EXCEPT ![p] = p]
      /\ pc[p] = "commit"
      /\ UNCHANGED <<now, key, body, answer>>
  BY DEF Commit
<1>2. Store!Decide(p, Decision'[p]) /\ Decision'[p] = p
  BY <1>1, Decides DEF DecidedOnce, Decision, CalcId
<1>3. at \in Nat /\ at <= now /\ now - at <= Ttl
  BY <1>1, TimeAssumption DEF TxYoung, Tx
<1>4. \A r \in keys : r.slot = SlotOf(p) => Expired(r, at)
  BY <1>1 DEF KeyHeld
<1>5. \A r \in keys : Expired(r, at) => Expired(r, now)
  BY <1>3, TimeAssumption DEF Expired, Row
<1>6. Store!EntriesOf(p) = {}
  BY <1>4, <1>5 DEF Store!EntriesOf, Ledger
<1>7. ~ Expired(NewRow(p), now)
  BY <1>3, TimeAssumption DEF Expired, NewRow
<1>8. Ledger' = Ledger \cup {e}
  <2>1. {r \in keys' : ~ Expired(r, now)} = {r \in keys : ~ Expired(r, now)} \cup {NewRow(p)}
    BY <1>1, <1>5, <1>7 DEF AfterPurge
  <2>2. {r \in keys' : ~ Expired(r, now')} = {r \in keys' : ~ Expired(r, now)}
    BY <1>1
  <2>3. [slot |-> NewRow(p).slot, body |-> NewRow(p).body, result |-> NewRow(p).result] = e
    BY DEF NewRow
  <2> QED
    BY <2>1, <2>2, <2>3 DEF Ledger, Expired
<1>9. SlotOf(p) \in Slot
  BY <1>1, SlotOfRequest DEF KeyPresent
<1> QED
  BY <1>2, <1>6, <1>8, <1>9 DEF StoreAnswers, Store!Next, Store!Perform

\* Deleted leads, cleaned up rows and the passing of time: entries are forgotten.
LEMMA EnvironmentImplements ==
    ASSUME StoreInv,
           \/ \E p \in Request : DeleteLead(p)
           \/ \E d \in RetentionDays : ChangeRetention(d)
           \/ StartMaintenance
           \/ \E m \in runs : RunStep(m)
           \/ Tick
           \/ UNCHANGED vars
    PROVE  StoreAnswers
<1> USE TimeAssumption DEF StoreInv, EffectInv, TypeInv, TypeOK, dbVars, requestVars, history
<1>1. UNCHANGED <<key, body, served, answer>>
  BY DEF DeleteLead, ChangeRetention, StartMaintenance, RunStep, CheckRetention, RunRetention,
         RunCleanup, TaskFails, Tick, vars
<1>2. keys' \subseteq keys /\ now' >= now /\ now' \in Nat
  BY DEF DeleteLead, ChangeRetention, StartMaintenance, RunStep, CheckRetention, RunRetention,
         RunCleanup, TaskFails, Tick, vars
<1>3. Ledger' \subseteq Ledger
  <2>1. ASSUME NEW r \in keys', ~ Expired(r, now') PROVE r \in keys /\ ~ Expired(r, now)
    BY <2>1, <1>2 DEF Expired, Row
  <2> QED
    BY <2>1 DEF Ledger
<1>4. UNCHANGED Decision /\ \A p \in Request : SlotOf(p)' = SlotOf(p)
  BY <1>1 DEF Decision, SlotOf
<1> QED
  BY <1>1, <1>3, <1>4 DEF StoreAnswers, Store!Next, Store!Forget

\* The public writes behave like one atomic ledger: every request performs when
\* its key is unknown, repeats what is remembered for the same body, is refused
\* for another body, or fails.
THEOREM StoreImplemented == Spec => StoreSpec
<1>1. Init => Store!Init
  BY DEF Init, Store!Init, Ledger, Decision, NoAnswer
<1>2. StoreInv /\ [Next]_vars => [Store!Next]_Store!abstractVars
  BY RequestImplements, CommitImplements, EnvironmentImplements DEF Next, Step, StoreAnswers
<1> QED
  BY <1>1, <1>2, StoreInit, StoreStep, PTL DEF Spec, StoreSpec, Store!Spec

-----------------------------------------------------------------------------
\* The argument for the numbers of the versions.  The row lock of a calculation
\* keeps the number a recalculation has read the next one until it commits; a
\* calculation that is only being saved is known to nobody else.

\* A version of a request, and a calculation of a request, exist only once the
\* request has committed.
VersionsOwned ==
    \A v \in versions :
        /\ v.id \in Request => recordedAt[v.id] # Never
        /\ v.calc \in Request => recordedAt[v.calc] # Never

\* The primary key of calculation_versions.
VersionIds == \A v, w \in versions : v.id = w.id => v = w

\* The calculation a recalculation adds to is there, and no other request adds
\* to it between the read of the number and the commit.
LockHeld ==
    /\ \A p \in Request :
         pc[p] \in {"write", "record", "commit"} /\ body[p].kind = "recalculate"
            => VersionsOf(body[p].calc) # {}
    /\ \A p \in Request : Holds(p, body[p].calc) => tx[p].number = NextNumber(p)
    /\ \A p, q \in Request :
         Holds(p, body[p].calc) /\ Holds(q, body[q].calc) /\ body[p].calc = body[q].calc
            => p = q

\* A new calculation starts at 1, and a lead is handed a version that is there
\* or that its own transaction writes.
VersionKnown ==
    \A p \in Request : pc[p] \in {"record", "commit"} =>
        /\ body[p].kind \in {"save", "draftLead"} => tx[p].number = 1 /\ tx[p].version = p
        /\ body[p].kind = "storedLead" => \E v \in versions : v.id = tx[p].version

NumberInv ==
    /\ EffectInv
    /\ VersionsOwned
    /\ VersionIds
    /\ LockHeld
    /\ VersionKnown
    /\ VersionsContiguous

LEMMA NumberInit == Init => NumberInv
<1> SUFFICES ASSUME Init PROVE NumberInv
  OBVIOUS
<1>1. versions = {[id |-> c, calc |-> c, number |-> 1] : c \in Saved} /\ leads = {}
  BY DEF Init
<1>2. VersionsOwned
  BY <1>1, IdAssumption DEF VersionsOwned
<1>3. VersionIds
  BY <1>1 DEF VersionIds
<1>4. LockHeld /\ VersionKnown
  BY DEF Init, LockHeld, VersionKnown, Holds
<1>5. VersionsContiguous
  <2>1. ASSUME NEW c \in CalcId PROVE {v.number : v \in VersionsOf(c)} = 1 .. latest[c]
    <3>1. CASE c \in Saved
      <4>1. VersionsOf(c) = {[id |-> c, calc |-> c, number |-> 1]}
        BY <1>1, <3>1 DEF VersionsOf
      <4>2. latest[c] = 1
        BY <3>1 DEF Init
      <4>3. {v.number : v \in VersionsOf(c)} = {1}
        BY <4>1
      <4> QED
        BY <4>2, <4>3
    <3>2. CASE c \notin Saved
      <4>1. VersionsOf(c) = {}
        BY <1>1, <3>2 DEF VersionsOf
      <4>2. latest[c] = 0
        BY <3>2 DEF Init
      <4> QED
        BY <4>1, <4>2
    <3> QED
      BY <3>1, <3>2
  <2> QED
    BY <1>1, <2>1 DEF VersionsContiguous
<1> QED
  BY <1>2, <1>3, <1>4, <1>5, EffectInit DEF NumberInv

\* A step that commits nothing, and brings no request into its transaction but
\* one whose base is there, keeps the numbers.
LEMMA NumberQuiet ==
    ASSUME NumberInv, EffectInv', UNCHANGED <<latest, versions, body, recordedAt>>,
           leads' \subseteq leads,
           \A q \in Request :
              \/ pc'[q] \notin {"write", "record", "commit"}
              \/ /\ pc'[q] = pc[q] \/ (pc[q] = "record" /\ pc'[q] = "commit")
                 /\ tx'[q].number = tx[q].number /\ tx'[q].version = tx[q].version
              \/ /\ pc'[q] = "write"
                 /\ body[q].kind = "recalculate" => VersionsOf(body[q].calc) # {}
    PROVE  NumberInv'
<1> USE DEF NumberInv
<1>1. \A c : VersionsOf(c)' = VersionsOf(c)
  BY DEF VersionsOf
<1>2. VersionsOwned' /\ VersionIds'
  BY DEF VersionsOwned, VersionIds
<1>3. LockHeld'
  BY <1>1 DEF LockHeld, Holds, NextNumber
<1>4. VersionKnown'
  BY DEF VersionKnown
<1>5. VersionsContiguous'
  BY <1>1 DEF VersionsContiguous
<1> QED
  BY <1>2, <1>3, <1>4, <1>5

LEMMA NumberWrite ==
    ASSUME NumberInv, EffectInv', NEW p \in Request, Write(p)
    PROVE  NumberInv'
<1> USE DEF NumberInv
<1>1. /\ UNCHANGED <<latest, versions, leads, body, recordedAt>>
      /\ pc[p] = "write"
      /\ pc' = [pc EXCEPT ![p] = "record"]
      /\ \A q \in Request \ {p} : tx'[q] = tx[q] /\ pc'[q] = pc[q]
      /\ pc'[p] = "record"
  BY DEF Write, Goto, dbVars, history, EffectInv, TypeInv, TypeOK
<1>2. \A c : VersionsOf(c)' = VersionsOf(c)
  BY <1>1 DEF VersionsOf
<1>3. VersionsOwned' /\ VersionIds'
  BY <1>1 DEF VersionsOwned, VersionIds
<1>4. /\ body[p].kind \in {"save", "draftLead"} => tx'[p].number = 1 /\ tx'[p].version = p
      /\ body[p].kind = "recalculate" =>
            /\ tx'[p].number = NextNumber(p)
            /\ \A q \in Request : ~ Holds(q, body[p].calc)
      /\ body[p].kind = "storedLead" => \E v \in versions : v.id = tx'[p].version
  BY DEF Write, Begun, StoredVersion, VersionsOf, EffectInv, TypeInv, TypeOK
<1>5. LockHeld'
  <2>1. ASSUME NEW q \in Request, pc'[q] \in {"write", "record", "commit"}, body[q].kind = "recalculate"
        PROVE  VersionsOf(body[q].calc) # {}
    BY <1>1, <2>1 DEF LockHeld
  <2>2. ASSUME NEW q \in Request, pc'[q] \in {"record", "commit"}, body[q].kind = "recalculate"
        PROVE  tx'[q].number = latest[body[q].calc] + 1
    BY <1>1, <1>4, <2>2 DEF LockHeld, Holds, NextNumber
  <2>3. ASSUME NEW q \in Request, pc'[q] \in {"record", "commit"}, body[q].kind = "recalculate",
               NEW r \in Request, pc'[r] \in {"record", "commit"}, body[r].kind = "recalculate",
               body[q].calc = body[r].calc
        PROVE  q = r
    BY <1>1, <1>4, <2>3 DEF LockHeld, Holds
  <2> QED
    BY <1>1, <1>2, <2>1, <2>2, <2>3 DEF LockHeld, Holds, NextNumber
<1>6. VersionKnown'
  BY <1>1, <1>4 DEF VersionKnown
<1>7. VersionsContiguous'
  BY <1>1, <1>2 DEF VersionsContiguous
<1> QED
  BY <1>3, <1>5, <1>6, <1>7

\* The number a transaction is about to commit is the next one of its
\* calculation, whose rows only this transaction touches.
LEMMA NextInLine ==
    ASSUME NumberInv, NEW p \in Request, pc[p] = "commit",
           body[p].kind \in {"save", "draftLead", "recalculate"}
    PROVE  /\ tx[p].number = latest[TargetOf(p)] + 1
           /\ \A v \in versions : v.id # p
           /\ \A v \in versions : v.calc # p
           /\ latest[p] = 0
<1> USE DEF NumberInv, EffectInv, TypeInv, TypeOK
<1>1. recordedAt[p] = Never
  BY DEF NotYet
<1>2. \A v \in versions : v.id # p /\ v.calc # p
  BY <1>1 DEF VersionsOwned
<1>3. latest[p] = 0
  <2>1. p \in CalcId /\ latest[p] \in Nat
    BY DEF CalcId
  <2>2. {v.number : v \in VersionsOf(p)} = 1 .. latest[p]
    BY <2>1 DEF VersionsContiguous
  <2>3. VersionsOf(p) = {}
    BY <1>2 DEF VersionsOf
  <2>4. 1 \notin 1 .. latest[p]
    BY <2>2, <2>3
  <2> QED
    BY <2>1, <2>4
<1>4. tx[p].number = latest[TargetOf(p)] + 1
  <2>1. CASE body[p].kind = "recalculate"
    BY <2>1 DEF LockHeld, Holds, NextNumber, TargetOf
  <2>2. CASE body[p].kind \in {"save", "draftLead"}
    BY <2>2, <1>3 DEF VersionKnown, TargetOf
  <2> QED
    BY <2>1, <2>2
<1> QED
  BY <1>2, <1>3, <1>4

\* A commit of a version continues the numbers of its calculation.
LEMMA NumberCommits ==
    ASSUME NumberInv, EffectInv', NEW p \in Request, Commit(p),
           body[p].kind \in {"save", "draftLead", "recalculate"}
    PROVE  NumberInv'
<1> USE DEF NumberInv, EffectInv, TypeInv, TypeOK
<1> DEFINE n == tx[p].number
           c0 == TargetOf(p)
           nv == [id |-> p, calc |-> c0, number |-> n]
<1>0. p \in CalcId /\ c0 \in CalcId /\ n \in Nat \ {0} /\ pc[p] = "commit"
  BY BodyType DEF CalcId, TargetOf, Commit, VersionHeld
<1>1. /\ n = latest[c0] + 1
      /\ \A v \in versions : v.id # p /\ v.calc # p
      /\ latest[p] = 0
  BY <1>0, NextInLine
<1>2. /\ versions' = versions \cup {nv}
      /\ latest' = [latest EXCEPT ![c0] = n]
      /\ leads' = leads \cup NewLeads(p)
      /\ recordedAt' = [recordedAt EXCEPT ![p] = tx[p].recordedAt]
      /\ tx[p].recordedAt \in Nat
      /\ pc' = [pc EXCEPT ![p] = "respond"]
      /\ tx' = [tx EXCEPT ![p] = NoTx]
      /\ UNCHANGED body
  BY DEF Commit, Goto, Tx, NewVersions, NewLatest
<1>3. nv.id = p /\ nv.calc = c0 /\ nv.number = n
  OBVIOUS
<1>4. c0 \in Request => c0 = p \/ recordedAt[c0] # Never
  <2>1. CASE body[p].kind = "recalculate"
    BY <1>0, <2>1 DEF LockHeld, VersionsOf, VersionsOwned, TargetOf
  <2> QED
    BY <2>1 DEF TargetOf
<1> HIDE DEF n, c0, nv
<1>5. VersionsOwned'
  BY <1>2, <1>3, <1>4 DEF VersionsOwned, Never
<1>6. VersionIds'
  BY <1>1, <1>2, <1>3 DEF VersionIds
<1>7. \A c : VersionsOf(c)' = IF c = c0 THEN VersionsOf(c) \cup {nv} ELSE VersionsOf(c)
  BY <1>2, <1>3 DEF VersionsOf
<1>8. \A q \in Request \ {p} : Holds(q, body[q].calc)' => body[q].calc # c0
  <2> SUFFICES ASSUME NEW q \in Request \ {p}, Holds(q, body[q].calc), body[q].calc = c0
               PROVE  FALSE
    BY <1>2 DEF Holds
  <2>1. CASE body[p].kind = "recalculate"
    <3>1. Holds(p, body[p].calc) /\ body[p].calc = body[q].calc
      BY <1>0, <2>1 DEF Holds, TargetOf, c0
    <3> QED
      BY <3>1 DEF LockHeld
  <2>2. CASE body[p].kind # "recalculate"
    <3>1. VersionsOf(p) # {}
      BY <2>2 DEF LockHeld, Holds, TargetOf, c0
    <3> QED
      BY <3>1, <1>1 DEF VersionsOf
  <2> QED
    BY <2>1, <2>2
<1>9. LockHeld'
  <2>1. \A q \in Request : pc'[q] \in {"write", "record", "commit"} => q # p /\ pc[q] = pc'[q] /\ tx'[q] = tx[q]
    BY <1>2
  <2>2. \A q \in Request : pc'[q] \in {"write", "record", "commit"} /\ body'[q].kind = "recalculate"
            => VersionsOf(body[q].calc)' # {}
    BY <1>2, <1>7, <2>1 DEF LockHeld
  <2>3. ASSUME NEW q \in Request, Holds(q, body[q].calc)'
        PROVE  tx'[q].number = NextNumber(q)'
    <3>1. q # p /\ Holds(q, body[q].calc) /\ tx'[q] = tx[q]
      BY <1>2, <2>1, <2>3 DEF Holds
    <3>2. latest'[body[q].calc] = latest[body[q].calc]
      BY <1>2, <1>8, <2>3, <3>1, BodyType
    <3> QED
      BY <1>2, <3>1, <3>2 DEF LockHeld, NextNumber
  <2>4. ASSUME NEW q \in Request, NEW r \in Request, Holds(q, body[q].calc)',
               Holds(r, body[r].calc)', body'[q].calc = body'[r].calc
        PROVE  q = r
    BY <1>2, <2>1, <2>4 DEF LockHeld, Holds
  <2> QED
    BY <1>2, <2>2, <2>3, <2>4 DEF LockHeld
<1>10. VersionKnown'
  BY <1>2 DEF VersionKnown
<1>11. VersionsContiguous'
  <2>1. ASSUME NEW c \in CalcId PROVE {v.number : v \in VersionsOf(c)'} = 1 .. latest'[c]
    <3>1. {v.number : v \in VersionsOf(c)} = 1 .. latest[c]
      BY DEF VersionsContiguous
    <3>2. CASE c = c0
      <4>1. {v.number : v \in VersionsOf(c)'} = {v.number : v \in VersionsOf(c)} \cup {n}
        BY <1>3, <1>7, <3>2
      <4>2. 1 .. latest[c] \cup {latest[c] + 1} = 1 .. (latest[c] + 1)
        OBVIOUS
      <4> QED
        BY <1>0, <1>1, <1>2, <3>1, <3>2, <4>1, <4>2
    <3>3. CASE c # c0
      BY <1>2, <1>7, <3>1, <3>3
    <3> QED
      BY <3>2, <3>3
  <2>2. ASSUME NEW v \in versions', NEW w \in versions', v.calc = w.calc, v.number = w.number
        PROVE  v = w
    <3>1. ASSUME NEW x \in versions, x.calc = c0 PROVE x.number # n
      <4>1. x.number \in {y.number : y \in VersionsOf(c0)}
        BY <3>1 DEF VersionsOf
      <4>2. x.number \in 1 .. latest[c0]
        BY <4>1, <1>0 DEF VersionsContiguous
      <4> QED
        BY <4>2, <1>0, <1>1
    <3> QED
      BY <1>2, <1>3, <2>2, <3>1 DEF VersionsContiguous
  <2>3. ASSUME NEW l \in leads' PROVE \E v \in versions' : v.id = l.version
    <3>1. CASE l \in leads
      BY <1>2, <3>1 DEF VersionsContiguous
    <3>2. CASE l \in NewLeads(p)
      BY <1>0, <1>2, <1>3, <3>2 DEF NewLeads, VersionKnown
    <3> QED
      BY <1>2, <3>1, <3>2
  <2> QED
    BY <2>1, <2>2, <2>3 DEF VersionsContiguous
<1> QED
  BY <1>5, <1>6, <1>9, <1>10, <1>11

\* A stored lead and a honeypot commit no version.
LEMMA NumberCommitsNone ==
    ASSUME NumberInv, EffectInv', NEW p \in Request, Commit(p),
           body[p].kind \in {"storedLead", "honeypot"}
    PROVE  NumberInv'
<1> USE DEF NumberInv, EffectInv, TypeInv, TypeOK
<1>0. NewVersions(p) = {} /\ NewLatest(p) = latest
  BY DEF NewVersions, NewLatest
<1>1. /\ UNCHANGED <<versions, latest, body>>
      /\ leads' = leads \cup NewLeads(p)
      /\ recordedAt' = [recordedAt EXCEPT ![p] = tx[p].recordedAt]
      /\ tx[p].recordedAt \in Nat
      /\ pc' = [pc EXCEPT ![p] = "respond"]
      /\ tx' = [tx EXCEPT ![p] = NoTx]
      /\ pc[p] = "commit"
  BY <1>0 DEF Commit, Goto, Tx
<1>2. \A c : VersionsOf(c)' = VersionsOf(c)
  BY <1>1 DEF VersionsOf
<1>3. VersionsOwned' /\ VersionIds'
  BY <1>1 DEF VersionsOwned, VersionIds, Never
<1>4. LockHeld' /\ VersionKnown'
  BY <1>1, <1>2 DEF LockHeld, VersionKnown, Holds, NextNumber
<1>5. \A l \in leads' : \E v \in versions : v.id = l.version
  BY <1>1 DEF NewLeads, VersionKnown, VersionsContiguous
<1>6. VersionsContiguous'
  BY <1>1, <1>2, <1>5 DEF VersionsContiguous
<1> QED
  BY <1>3, <1>4, <1>6

LEMMA NumberRequest ==
    ASSUME NumberInv, EffectInv', NEW p \in Request,
           \/ LookUp(p) \/ Prepare(p) \/ Record(p) \/ FindWinner(p)
           \/ Replay(p) \/ Respond(p) \/ Lose(p)
    PROVE  NumberInv'
<1>1. UNCHANGED <<latest, versions, leads, body, recordedAt>>
  BY DEF LookUp, Prepare, Record, FindWinner, Replay, Respond, Lose, dbVars, history
<1>2. \A q \in Request \ {p} : pc'[q] = pc[q] /\ tx'[q] = tx[q]
  BY DEF LookUp, AnswerFrom, Prepare, Record, FindWinner, Replay, Respond, Lose, Goto, Finish,
         NumberInv, EffectInv, TypeInv, TypeOK
<1>3. \/ pc'[p] \notin {"write", "record", "commit"}
      \/ /\ pc[p] = "record" /\ pc'[p] = "commit"
         /\ tx'[p].number = tx[p].number /\ tx'[p].version = tx[p].version
      \/ /\ pc'[p] = "write"
         /\ body[p].kind = "recalculate" => VersionsOf(body[p].calc) # {}
  BY DEF LookUp, AnswerFrom, Prepare, BaseFound, StoredVersion, Record, FindWinner, Replay,
         Respond, Lose, Goto, Finish, NumberInv, EffectInv, TypeInv, TypeOK, Tx
<1> QED
  BY <1>1, <1>2, <1>3, NumberQuiet

LEMMA NumberEnvironment ==
    ASSUME NumberInv, EffectInv',
           \/ \E p \in Request : DeleteLead(p)
           \/ \E d \in RetentionDays : ChangeRetention(d)
           \/ StartMaintenance
           \/ \E m \in runs : RunStep(m)
           \/ Tick
           \/ UNCHANGED vars
    PROVE  NumberInv'
<1>1. UNCHANGED <<latest, versions, body, recordedAt, pc, tx>> /\ leads' \subseteq leads
  BY DEF DeleteLead, ChangeRetention, StartMaintenance, RunStep, CheckRetention, RunRetention,
         RunCleanup, TaskFails, Tick, vars, dbVars, requestVars, history
<1> QED
  BY <1>1, NumberQuiet

LEMMA NumberStep == NumberInv /\ [Next]_vars => NumberInv'
<1> SUFFICES ASSUME NumberInv, [Next]_vars PROVE NumberInv'
  OBVIOUS
<1>1. EffectInv'
  BY EffectStep DEF NumberInv
<1>2. ASSUME NEW p \in Request, Commit(p) PROVE NumberInv'
  BY <1>1, <1>2, NumberCommits, NumberCommitsNone, BodyType
     DEF Kind, NumberInv, EffectInv, TypeInv
<1>3. ASSUME NEW p \in Request, LookUp(p) \/ Step(p) \/ Lose(p) PROVE NumberInv'
  BY <1>1, <1>2, <1>3, NumberWrite, NumberRequest DEF Step
<1> QED
  BY <1>1, <1>3, NumberEnvironment DEF Next

\* Parallel recalculations number the versions of a calculation 1, 2, 3, ...
\* without gap or repetition, up to latest_version_number, and a lead never
\* refers to a version that is not there.
THEOREM NumbersContiguous == Spec => []VersionsContiguous
<1>1. NumberInv => VersionsContiguous
  BY DEF NumberInv
<1> QED
  BY <1>1, NumberInit, NumberStep, PTL DEF Spec

-----------------------------------------------------------------------------
\* The argument for repeats.  An answer is rebuilt from the version the first
\* request committed, which no later step changes.

\* A committed request has its version, the first one of a new calculation.
VersionKept ==
    \A p \in Request :
        recordedAt[p] # Never /\ body[p].kind \in {"save", "draftLead", "recalculate"}
            => \E v \in versions :
                  v.id = p /\ (body[p].kind # "recalculate" => v.number = 1)

\* A request is served by one that committed the same body under the same key.
ServedSound ==
    \A p \in Request :
        /\ served[p] # Nobody =>
              /\ recordedAt[served[p]] # Never
              /\ SlotOf(p) = SlotOf(served[p])
              /\ body[p] = body[served[p]]
        /\ pc[p] = "respond" => served[p] = p

\* What a client was shown: the siblings up to the version that serves it.
AnswerSound ==
    \A p \in Request : answer[p].status = "ok" =>
        /\ served[p] # Nobody
        /\ body[p].kind \in {"draftLead", "storedLead", "honeypot"}
              => answer[p].versions = {}
        /\ body[p].kind \in {"save", "recalculate"}
              => \E v \in versions : v.id = served[p] /\ answer[p].versions = 1 .. v.number

RepeatInv ==
    /\ StoreInv
    /\ NumberInv
    /\ VersionKept
    /\ ServedSound
    /\ AnswerSound

LEMMA RepeatInit == Init => RepeatInv
<1> SUFFICES ASSUME Init PROVE RepeatInv
  OBVIOUS
<1>1. VersionKept /\ ServedSound /\ AnswerSound
  BY DEF Init, VersionKept, ServedSound, AnswerSound, NoAnswer
<1> QED
  BY <1>1, StoreInit, NumberInit DEF RepeatInv

\* The siblings shown with a version are the numbers up to its own.
LEMMA SummariesContiguous ==
    ASSUME NumberInv, NEW v \in versions
    PROVE  SummariesUpTo(v) = 1 .. v.number
<1> USE DEF NumberInv, EffectInv, TypeInv, TypeOK, Version
<1>1. v.calc \in CalcId /\ v.number \in Nat /\ latest[v.calc] \in Nat
  OBVIOUS
<1>2. {w.number : w \in VersionsOf(v.calc)} = 1 .. latest[v.calc]
  BY <1>1 DEF VersionsContiguous
<1>3. SummariesUpTo(v) = {n \in {w.number : w \in VersionsOf(v.calc)} : n <= v.number}
  BY DEF SummariesUpTo
<1>4. v.number <= latest[v.calc]
  <2>1. v.number \in {w.number : w \in VersionsOf(v.calc)}
    BY DEF VersionsOf
  <2> QED
    BY <1>1, <1>2, <2>1
<1> QED
  BY <1>1, <1>2, <1>3, <1>4

\* What was committed stays committed, under the version it was committed with.
LEMMA VersionKeptStep ==
    ASSUME RepeatInv, NumberInv', [Next]_vars
    PROVE  VersionKept' /\ versions \subseteq versions'
<1> USE DEF RepeatInv, NumberInv, EffectInv, TypeInv, TypeOK
<1>1. CASE UNCHANGED <<versions, body, recordedAt>>
  BY <1>1 DEF VersionKept
<1>2. ASSUME NEW p \in Request, Commit(p)
      PROVE  VersionKept' /\ versions \subseteq versions'
  <2>1. /\ versions' = versions \cup NewVersions(p)
        /\ recordedAt' = [recordedAt EXCEPT ![p] = tx[p].recordedAt]
        /\ UNCHANGED body
        /\ pc[p] = "commit"
    BY <1>2 DEF Commit
  <2>2. body[p].kind \in {"save", "draftLead", "recalculate"}
           => \E v \in versions' : v.id = p /\ (body[p].kind # "recalculate" => v.number = 1)
    <3> DEFINE nv == [id |-> p, calc |-> TargetOf(p), number |-> tx[p].number]
    <3> SUFFICES ASSUME body[p].kind \in {"save", "draftLead", "recalculate"}
                 PROVE  nv \in versions' /\ (body[p].kind # "recalculate" => nv.number = 1)
      OBVIOUS
    <3> QED
      BY <2>1 DEF NewVersions, VersionKnown
  <2>3. VersionKept'
    BY <2>1, <2>2 DEF VersionKept
  <2> QED
    BY <2>1, <2>3
<1>3. ASSUME NEW p \in Request,
             LookUp(p) \/ Prepare(p) \/ Write(p) \/ Record(p) \/ FindWinner(p) \/ Replay(p)
                \/ Respond(p) \/ Lose(p) \/ DeleteLead(p)
      PROVE  UNCHANGED <<versions, body, recordedAt>>
  BY <1>3 DEF LookUp, Prepare, Write, Record, FindWinner, Replay, Respond, Lose, DeleteLead,
              dbVars, requestVars, history
<1>5. ASSUME \/ \E d \in RetentionDays : ChangeRetention(d)
             \/ StartMaintenance
             \/ \E m \in runs : RunStep(m)
             \/ Tick
             \/ UNCHANGED vars
      PROVE  UNCHANGED <<versions, body, recordedAt>>
  BY <1>5 DEF ChangeRetention, StartMaintenance, RunStep, CheckRetention, RunRetention,
              RunCleanup, TaskFails, Tick, vars, dbVars, requestVars, history
<1>6. ASSUME NEW p \in Request, LookUp(p) \/ Step(p) \/ Lose(p) \/ DeleteLead(p)
      PROVE  VersionKept' /\ versions \subseteq versions'
  BY <1>1, <1>2, <1>3, <1>6 DEF Step
<1> QED
  BY <1>1, <1>5, <1>6 DEF Next

\* A row that is found names a request that committed the same body.
LEMMA FoundServes ==
    ASSUME StoreInv, NEW p \in Request, NEW r \in Find(SlotOf(p)), r.body = body[p]
    PROVE  /\ recordedAt[r.result] # Never
           /\ SlotOf(p) = SlotOf(r.result)
           /\ body[p] = body[r.result]
BY DEF StoreInv, EffectInv, RowsSound, Find

\* A step of one request that serves it with a request that committed its body,
\* or leaves it served as it is, keeps the requests soundly served.
LEMMA ServedOne ==
    ASSUME RepeatInv, NEW p \in Request, UNCHANGED <<key, body>>,
           \A q \in Request : recordedAt[q] # Never => recordedAt'[q] # Never,
           \A q \in Request \ {p} : served'[q] = served[q] /\ pc'[q] = pc[q],
           \/ served'[p] = served[p]
           \/ /\ recordedAt'[served'[p]] # Never
              /\ SlotOf(p) = SlotOf(served'[p])
              /\ body[p] = body[served'[p]],
           pc'[p] = "respond" => served'[p] = p
    PROVE  ServedSound'
<1>1. \A q : SlotOf(q)' = SlotOf(q)
  BY DEF SlotOf
<1>2. \A q \in Request : served[q] \in Request \cup {Nobody}
  BY DEF RepeatInv, StoreInv, EffectInv, TypeInv, TypeOK
<1>3. ASSUME NEW q \in Request, served'[q] # Nobody
      PROVE  /\ recordedAt'[served'[q]] # Never
             /\ SlotOf(q) = SlotOf(served'[q])
             /\ body[q] = body[served'[q]]
  <2>1. CASE served'[q] = served[q]
    BY <1>2, <1>3, <2>1 DEF RepeatInv, ServedSound
  <2>2. CASE served'[q] # served[q]
    BY <2>2
  <2> QED
    BY <2>1, <2>2
<1>4. \A q \in Request : pc'[q] = "respond" => served'[q] = q
  BY DEF RepeatInv, ServedSound
<1>5. \A q \in Request : SlotOf(served[q])' = SlotOf(served'[q])
  BY DEF SlotOf
<1> QED
  BY <1>1, <1>3, <1>4, <1>5 DEF ServedSound

LEMMA ServedAnswerFrom ==
    ASSUME RepeatInv, NEW p \in Request, NEW r \in Find(SlotOf(p)), AnswerFrom(p, r),
           UNCHANGED <<key, body, recordedAt>>
    PROVE  ServedSound'
<1> USE DEF RepeatInv, StoreInv, EffectInv, TypeInv, TypeOK
<1>1. \A q \in Request \ {p} : served'[q] = served[q] /\ pc'[q] = pc[q]
  BY DEF AnswerFrom, Finish, Goto
<1>2. pc'[p] # "respond"
  BY DEF AnswerFrom, Finish, Goto
<1>3. CASE UNCHANGED served
  BY <1>1, <1>2, <1>3, ServedOne
<1>4. CASE r.body = body[p] /\ served' = [served EXCEPT ![p] = r.result]
  <2>1. served'[p] = r.result
    BY <1>4
  <2> QED
    BY <1>1, <1>2, <1>4, <2>1, FoundServes, ServedOne
<1> QED
  BY <1>3, <1>4 DEF AnswerFrom

LEMMA ServedStep ==
    ASSUME RepeatInv, [Next]_vars
    PROVE  ServedSound'
<1> USE DEF RepeatInv, StoreInv, EffectInv, TypeInv, TypeOK
<1>1. CASE UNCHANGED <<key, body, recordedAt, served, pc>>
  BY <1>1 DEF ServedSound, SlotOf
<1>2. ASSUME NEW p \in Request,
             \/ Prepare(p) \/ Write(p) \/ Record(p) \/ Replay(p) \/ Respond(p) \/ Lose(p)
      PROVE  ServedSound'
  <2>1. /\ UNCHANGED <<key, body, recordedAt, served>>
        /\ pc'[p] # "respond"
        /\ \A q \in Request \ {p} : pc'[q] = pc[q]
    BY <1>2 DEF Prepare, Write, Replay, Respond, Lose, Record, Goto, Finish, history
  <2> QED
    BY <2>1, ServedOne
<1>3. ASSUME NEW p \in Request, LookUp(p) PROVE ServedSound'
  <2>1. UNCHANGED <<key, body, recordedAt>>
    BY <1>3 DEF LookUp, history
  <2>2. CASE \E r \in Find(SlotOf(p)) : AnswerFrom(p, r)
    BY <2>1, <2>2, ServedAnswerFrom
  <2>3. CASE UNCHANGED served
    <3>1. pc'[p] # "respond" /\ \A q \in Request \ {p} : pc'[q] = pc[q]
      BY <1>3 DEF LookUp, AnswerFrom, Goto, Finish
    <3> QED
      BY <2>1, <2>3, <3>1, ServedOne
  <2> QED
    BY <1>3, <2>2, <2>3 DEF LookUp
<1>4. ASSUME NEW p \in Request, FindWinner(p) PROVE ServedSound'
  <2>1. UNCHANGED <<key, body, recordedAt>>
    BY <1>4 DEF FindWinner, history
  <2>2. CASE \E r \in Find(SlotOf(p)) : AnswerFrom(p, r)
    BY <2>1, <2>2, ServedAnswerFrom
  <2>3. CASE UNCHANGED served
    <3>1. pc'[p] # "respond" /\ \A q \in Request \ {p} : pc'[q] = pc[q]
      BY <1>4 DEF FindWinner, AnswerFrom, Goto, Finish
    <3> QED
      BY <2>1, <2>3, <3>1, ServedOne
  <2> QED
    BY <1>4, <2>2, <2>3 DEF FindWinner
<1>5. ASSUME NEW p \in Request, Commit(p) PROVE ServedSound'
  <2>1. /\ served'[p] = p
        /\ recordedAt'[p] # Never
        /\ UNCHANGED <<key, body>>
        /\ \A q \in Request : recordedAt[q] # Never => recordedAt'[q] # Never
        /\ \A q \in Request \ {p} : served'[q] = served[q] /\ pc'[q] = pc[q]
    BY <1>5 DEF Commit, Goto, Never, Tx
  <2> QED
    BY <2>1, ServedOne
<1>6. ASSUME \/ \E p \in Request : DeleteLead(p)
             \/ \E d \in RetentionDays : ChangeRetention(d)
             \/ StartMaintenance
             \/ \E m \in runs : RunStep(m)
             \/ Tick
             \/ UNCHANGED vars
      PROVE  UNCHANGED <<key, body, recordedAt, served, pc>>
  BY <1>6 DEF DeleteLead, ChangeRetention, StartMaintenance, RunStep, CheckRetention,
              RunRetention, RunCleanup, TaskFails, Tick, vars, requestVars, history
<1>7. ASSUME NEW p \in Request, LookUp(p) \/ Step(p) \/ Lose(p) PROVE ServedSound'
  BY <1>2, <1>3, <1>4, <1>5, <1>7 DEF Step
<1> QED
  BY <1>1, <1>6, <1>7 DEF Next

\* A step of one request that tells its client nothing, or what the version
\* serving it stands for, keeps the answers sound.
LEMMA AnswerOne ==
    ASSUME RepeatInv, NEW p \in Request, UNCHANGED body, versions \subseteq versions',
           \A q \in Request \ {p} : answer'[q] = answer[q] /\ served'[q] = served[q],
           answer'[p].status = "ok" =>
              /\ served'[p] # Nobody
              /\ body[p].kind \in {"draftLead", "storedLead", "honeypot"}
                    => answer'[p].versions = {}
              /\ body[p].kind \in {"save", "recalculate"}
                    => \E v \in versions :
                          v.id = served'[p] /\ answer'[p].versions = 1 .. v.number
    PROVE  AnswerSound'
BY DEF RepeatInv, AnswerSound

LEMMA AnswerReplay ==
    ASSUME RepeatInv, NEW p \in Request, Replay(p)
    PROVE  AnswerSound'
<1> USE DEF RepeatInv, NumberInv, StoreInv, EffectInv, TypeInv, TypeOK
<1>1. UNCHANGED <<body, versions, served>> /\ served[p] # Nobody
  BY DEF Replay, dbVars, DecidedOnce
<1>2. \A q \in Request \ {p} : answer'[q] = answer[q]
  BY DEF Replay, Finish
<1>3. CASE body[p].kind \in {"draftLead", "storedLead", "honeypot"}
  <2>1. answer'[p].versions = {}
    BY <1>3 DEF Replay, Finish
  <2> QED
    BY <1>1, <1>2, <1>3, <2>1, AnswerOne
<1>4. CASE body[p].kind \in {"save", "recalculate"}
  <2>1. PICK v \in versions : v.id = served[p] /\ Finish(p, "ok", SummariesUpTo(v))
    BY <1>4 DEF Replay
  <2>2. answer'[p].versions = 1 .. v.number
    BY <2>1, SummariesContiguous DEF Finish
  <2> QED
    BY <1>1, <1>2, <1>4, <2>1, <2>2, AnswerOne
<1> QED
  BY <1>3, <1>4, BodyType DEF Kind

LEMMA AnswerRespond ==
    ASSUME RepeatInv, NEW p \in Request, Respond(p)
    PROVE  AnswerSound'
<1> USE DEF RepeatInv, NumberInv, StoreInv, EffectInv, TypeInv, TypeOK
<1>1. UNCHANGED <<body, versions, served>> /\ served[p] # Nobody /\ served[p] = p
  BY DEF Respond, dbVars, DecidedOnce, ServedSound
<1>2. \A q \in Request \ {p} : answer'[q] = answer[q]
  BY DEF Respond, Finish
<1>3. CASE body[p].kind \in {"draftLead", "storedLead", "honeypot"}
  <2>1. answer'[p].versions = {}
    BY <1>3 DEF Respond, Finish
  <2> QED
    BY <1>1, <1>2, <1>3, <2>1, AnswerOne
<1>4. CASE body[p].kind = "save"
  <2>1. PICK v \in versions : v.id = p /\ v.number = 1
    BY <1>1, <1>4 DEF VersionKept, ServedSound
  <2>2. answer'[p].versions = {1}
    BY <1>4 DEF Respond, Finish
  <2>3. v.id = served'[p] /\ answer'[p].versions = 1 .. v.number
    BY <1>1, <2>1, <2>2
  <2>4. body[p].kind \notin {"draftLead", "storedLead", "honeypot"}
    BY <1>4
  <2> HIDE DEF RepeatInv, NumberInv, StoreInv, EffectInv, TypeInv, TypeOK
  <2> QED
    BY <1>1, <1>2, <2>3, <2>4, AnswerOne
<1>5. CASE body[p].kind = "recalculate"
  <2>1. PICK v \in versions : v.id = p /\ Finish(p, "ok", SummariesUpTo(v))
    BY <1>5 DEF Respond
  <2>2. answer'[p].versions = 1 .. v.number
    BY <2>1, SummariesContiguous DEF Finish
  <2> QED
    BY <1>1, <1>2, <1>5, <2>1, <2>2, AnswerOne
<1> QED
  BY <1>3, <1>4, <1>5, BodyType DEF Kind

LEMMA AnswerStep ==
    ASSUME RepeatInv, versions \subseteq versions', [Next]_vars
    PROVE  AnswerSound'
<1> USE DEF RepeatInv, StoreInv, EffectInv, TypeInv, TypeOK
<1>1. CASE UNCHANGED <<body, served, answer>>
  BY <1>1 DEF AnswerSound
<1>2. ASSUME NEW p \in Request,
             \/ LookUp(p) \/ Prepare(p) \/ Write(p) \/ Record(p) \/ Commit(p)
             \/ FindWinner(p) \/ Lose(p)
      PROVE  AnswerSound'
  <2>0. \/ answer'[p] = answer[p] /\ pc[p] \in {"idle", "prepare", "write", "record", "commit", "conflict"}
        \/ answer'[p].status # "ok"
    <3>1. ASSUME NEW status, NEW shown, Finish(p, status, shown), status # "ok"
          PROVE  answer'[p].status # "ok"
      BY <3>1 DEF Finish
    <3>2. CASE LookUp(p)
      BY <3>1, <3>2 DEF LookUp, AnswerFrom
    <3>3. CASE Prepare(p)
      BY <3>1, <3>3 DEF Prepare
    <3>4. CASE FindWinner(p)
      BY <3>1, <3>4 DEF FindWinner, AnswerFrom
    <3>5. CASE Write(p) \/ Record(p) \/ Commit(p)
      BY <3>5 DEF Write, Record, Commit
    <3>6. CASE Lose(p)
      BY <3>1, <3>6 DEF Lose
    <3> QED
      BY <1>2, <3>2, <3>3, <3>4, <3>5, <3>6
  <2>1. answer'[p].status # "ok"
    BY <2>0 DEF DecidedOnce
  <2>2. \A q \in Request \ {p} : answer'[q] = answer[q] /\ served'[q] = served[q]
    BY <1>2 DEF LookUp, Prepare, Write, Record, Commit, FindWinner, Lose, AnswerFrom, Goto, Finish
  <2>3. UNCHANGED body
    BY <1>2 DEF LookUp, Prepare, Write, Record, Commit, FindWinner, Lose
  <2> QED
    BY <2>1, <2>2, <2>3, AnswerOne
<1>3. ASSUME \/ \E p \in Request : DeleteLead(p)
             \/ \E d \in RetentionDays : ChangeRetention(d)
             \/ StartMaintenance
             \/ \E m \in runs : RunStep(m)
             \/ Tick
             \/ UNCHANGED vars
      PROVE  UNCHANGED <<body, served, answer>>
  BY <1>3 DEF DeleteLead, ChangeRetention, StartMaintenance, RunStep, CheckRetention,
              RunRetention, RunCleanup, TaskFails, Tick, vars, requestVars, history
<1>4. ASSUME NEW p \in Request, LookUp(p) \/ Step(p) \/ Lose(p) PROVE AnswerSound'
  BY <1>2, <1>4, AnswerReplay, AnswerRespond DEF Step
<1> QED
  BY <1>1, <1>3, <1>4 DEF Next

LEMMA RepeatStep == RepeatInv /\ [Next]_vars => RepeatInv'
<1> SUFFICES ASSUME RepeatInv, [Next]_vars PROVE RepeatInv'
  OBVIOUS
<1>1. StoreInv' /\ NumberInv'
  BY StoreStep, NumberStep DEF RepeatInv
<1>2. VersionKept' /\ ServedSound' /\ AnswerSound'
  BY <1>1, VersionKeptStep, ServedStep, AnswerStep
<1> QED
  BY <1>1, <1>2 DEF RepeatInv

\* A repeat tells the client what the first answer told: the same record, for
\* the same body, with the sibling versions there were then, even when the
\* calculation has been recalculated since.
THEOREM AnswersAgree == Spec => []RepeatsAgree
<1>1. RepeatInv => RepeatsAgree
  <2> SUFFICES ASSUME RepeatInv, NEW p \in Request, NEW q \in Request,
                      answer[p].status = "ok", answer[q].status = "ok", served[p] = served[q]
               PROVE  /\ SlotOf(p) = SlotOf(q)
                      /\ body[p] = body[q]
                      /\ answer[p].versions = answer[q].versions
    BY DEF RepeatsAgree
  <2>1. SlotOf(p) = SlotOf(q) /\ body[p] = body[q]
    BY DEF RepeatInv, AnswerSound, ServedSound
  <2>2. answer[p].versions = answer[q].versions
    <3>1. body[p].kind \in Kind
      BY BodyType DEF RepeatInv, NumberInv, EffectInv, TypeInv
    <3>2. CASE body[p].kind \in {"save", "recalculate"}
      <4>1. PICK v \in versions : v.id = served[p] /\ answer[p].versions = 1 .. v.number
        BY <3>2 DEF RepeatInv, AnswerSound
      <4>2. PICK w \in versions : w.id = served[q] /\ answer[q].versions = 1 .. w.number
        BY <2>1, <3>2 DEF RepeatInv, AnswerSound
      <4>3. v = w
        BY <4>1, <4>2 DEF RepeatInv, NumberInv, VersionIds
      <4> QED
        BY <4>1, <4>2, <4>3
    <3>3. CASE body[p].kind \notin {"save", "recalculate"}
      BY <2>1, <3>1, <3>3 DEF RepeatInv, AnswerSound, Kind
    <3> QED
      BY <3>2, <3>3
  <2> QED
    BY <2>1, <2>2
<1> QED
  BY <1>1, RepeatInit, RepeatStep, PTL DEF Spec

-----------------------------------------------------------------------------
\* The argument for live keys.  A row is at most one transaction younger than
\* its lead, so a retention of more than the time to live and a transaction
\* deletes a lead only when its key no longer answers.

\* A retention of a day is not enough when the time to live is a day as well.
LongRetention == \A d \in RetentionDays : d * Day >= Ttl + TxTimeout

\* A live key of a lead has its lead, started at most one transaction before.
LeadsKept ==
    \A r \in keys :
        ~ Expired(r, now) /\ r.body.kind \in {"draftLead", "storedLead"}
            => \E l \in leads : l.id = r.result /\ r.createdAt - l.createdAt <= TxTimeout

LiveKeyInv == RepeatInv /\ LeadsKept

LEMMA LiveKeyInit == Init => LiveKeyInv
BY RepeatInit DEF Init, LiveKeyInv, LeadsKept

\* Steps that delete no lead and add no key.
LEMMA LeadsKeptQuiet ==
    ASSUME LiveKeyInv, keys' \subseteq keys, leads \subseteq leads',
           now' \in Nat, now' >= now
    PROVE  LeadsKept'
<1>1. ASSUME NEW r \in keys, ~ Expired(r, now') PROVE ~ Expired(r, now)
  BY <1>1, TimeAssumption
     DEF Expired, LiveKeyInv, RepeatInv, StoreInv, EffectInv, TypeInv, TypeOK, Row
<1>2. \A r : Expired(r, now)' <=> Expired(r, now')
  BY DEF Expired
<1> QED
  BY <1>1, <1>2 DEF LiveKeyInv, LeadsKept

\* The lead of a new key is created when its transaction starts.
LEMMA LeadsKeptCommit ==
    ASSUME LiveKeyInv, NEW p \in Request, Commit(p)
    PROVE  LeadsKept'
<1> USE DEF LiveKeyInv, RepeatInv, StoreInv, EffectInv, TypeInv, TypeOK
<1> DEFINE at == tx[p].recordedAt
<1>1. /\ keys' = AfterPurge(p, at) \cup {NewRow(p)}
      /\ leads' = leads \cup NewLeads(p)
      /\ UNCHANGED now
      /\ at - tx[p].startedAt <= TxTimeout
  BY TimeAssumption DEF Commit, TxYoung, Tx
<1>2. \A r : Expired(r, now)' <=> Expired(r, now)
  BY <1>1 DEF Expired
<1>3. ASSUME NEW r \in AfterPurge(p, at), ~ Expired(r, now), r.body.kind \in {"draftLead", "storedLead"}
      PROVE  \E l \in leads' : l.id = r.result /\ r.createdAt - l.createdAt <= TxTimeout
  <2>1. r \in keys
    BY DEF AfterPurge
  <2> QED
    BY <1>1, <1>3, <2>1 DEF LeadsKept
<1>4. ASSUME body[p].kind \in {"draftLead", "storedLead"}
      PROVE  \E l \in leads' : l.id = p /\ at - l.createdAt <= TxTimeout
  <2> DEFINE l == [id |-> p, version |-> tx[p].version, createdAt |-> tx[p].startedAt]
  <2>1. l \in leads' /\ l.id = p /\ at - l.createdAt <= TxTimeout
    BY <1>1, <1>4 DEF NewLeads
  <2> QED
    BY <2>1
<1>5. NewRow(p).body = body[p] /\ NewRow(p).result = p /\ NewRow(p).createdAt = at
  BY DEF NewRow
<1> QED
  BY <1>1, <1>2, <1>3, <1>4, <1>5 DEF LeadsKept

\* The keys of a deleted lead go with it.
LEMMA LeadsKeptDelete ==
    ASSUME LiveKeyInv, NEW p \in Request, DeleteLead(p)
    PROVE  LeadsKept'
<1> USE DEF LiveKeyInv, RepeatInv, StoreInv, EffectInv, TypeInv, TypeOK
<1>1. /\ keys' = keys \ KeysOfLead(p)
      /\ leads' = {l \in leads : l.id # p}
      /\ UNCHANGED now
  BY DEF DeleteLead
<1>2. ASSUME NEW r \in keys, r.body.kind \in {"draftLead", "storedLead"}, r \notin KeysOfLead(p)
      PROVE  r.result # p
  <2>1. r.slot[1] = "LEAD"
    BY <1>2 DEF RowsSound, SlotOf, ScopeOf
  <2> QED
    BY <1>2, <2>1 DEF KeysOfLead
<1>3. \A r : Expired(r, now)' <=> Expired(r, now)
  BY <1>1 DEF Expired
<1> QED
  BY <1>1, <1>2, <1>3 DEF LeadsKept

\* The retention deletes a lead only when its key no longer answers.
LEMMA LeadsKeptRetention ==
    ASSUME LongRetention, LiveKeyInv, NEW m \in runs, RunRetention(m)
    PROVE  LeadsKept'
<1> USE TimeAssumption DEF LiveKeyInv, RepeatInv, StoreInv, EffectInv, TypeInv, TypeOK
<1>1. /\ leads' = {l \in leads : l.createdAt >= RetentionCutoff(m)}
      /\ UNCHANGED <<now, keys>>
  BY DEF RunRetention
<1>2. RetentionCutoff(m) \in Int /\ RetentionCutoff(m) <= now - (Ttl + TxTimeout)
  <2>1. m.at \in Nat /\ m.at <= now
    BY DEF RunsPast, Run
  <2>2. retention \in Nat /\ retention * Day \in Nat
    BY RetentionAssumption
  <2>3. retention * Day >= Ttl + TxTimeout
    BY DEF LongRetention
  <2> QED
    BY <2>1, <2>2, <2>3 DEF RetentionCutoff
<1>3. ASSUME NEW r \in keys, ~ Expired(r, now), NEW l \in leads,
             r.createdAt - l.createdAt <= TxTimeout
      PROVE  l.createdAt >= RetentionCutoff(m)
  BY <1>2, <1>3 DEF Expired, Row, Lead
<1>4. \A r : Expired(r, now)' <=> Expired(r, now)
  BY <1>1 DEF Expired
<1> QED
  BY <1>1, <1>3, <1>4 DEF LeadsKept

LEMMA LiveKeyStep ==
    ASSUME LongRetention, LiveKeyInv, [Next]_vars
    PROVE  LiveKeyInv'
<1>1. RepeatInv'
  BY RepeatStep DEF LiveKeyInv
<1>2. now \in Nat
  BY DEF LiveKeyInv, RepeatInv, StoreInv, EffectInv, TypeInv, TypeOK
<1>3. ASSUME NEW p \in Request,
             \/ LookUp(p) \/ Prepare(p) \/ Write(p) \/ FindWinner(p) \/ Replay(p)
             \/ Respond(p) \/ Lose(p) \/ Record(p)
      PROVE  LeadsKept'
  <2>1. UNCHANGED <<now, keys, leads>>
    BY <1>3 DEF LookUp, Prepare, Write, Record, FindWinner, Replay, Respond, Lose, dbVars
  <2> QED
    BY <1>2, <2>1, LeadsKeptQuiet
<1>4. ASSUME NEW p \in Request, LookUp(p) \/ Step(p) \/ Lose(p) PROVE LeadsKept'
  BY <1>3, <1>4, LeadsKeptCommit DEF Step
<1>5. ASSUME NEW m \in runs, RunStep(m) PROVE LeadsKept'
  <2>1. CASE RunRetention(m)
    BY <2>1, LeadsKeptRetention
  <2>2. CASE ~ RunRetention(m)
    <3>1. UNCHANGED <<now, leads>> /\ keys' \subseteq keys
      BY <1>5, <2>2 DEF RunStep, CheckRetention, RunCleanup, TaskFails, dbVars
    <3> QED
      BY <1>2, <3>1, LeadsKeptQuiet
  <2> QED
    BY <2>1, <2>2
<1>6. ASSUME \/ \E d \in RetentionDays : ChangeRetention(d)
             \/ StartMaintenance \/ Tick \/ UNCHANGED vars
      PROVE  LeadsKept'
  <2>1. UNCHANGED <<keys, leads>> /\ now' \in Nat /\ now' >= now
    BY <1>2, <1>6 DEF ChangeRetention, StartMaintenance, Tick, vars, dbVars
  <2> QED
    BY <2>1, LeadsKeptQuiet
<1> QED
  BY <1>1, <1>4, <1>5, <1>6, LeadsKeptDelete DEF Next, LiveKeyInv

\* When every retention an administrator may choose covers the time to live of
\* a key and one transaction, a key that still answers points at something:
\* neither the lead retention, nor the cleanup of keys, nor the deletion of a
\* lead leaves a live key whose replay would find nothing.
THEOREM LiveKeysResolve ==
    ASSUME LongRetention
    PROVE  Spec => []LiveKeyResolves
<1>1. LiveKeyInv => LiveKeyResolves
  BY DEF LiveKeyInv, RepeatInv, StoreInv, EffectInv, TypeInv, TypeOK, Row, LeadsKept,
         RowsSound, VersionKept, LiveKeyResolves
<1>2. LiveKeyInv /\ [Next]_vars => LiveKeyInv'
  BY LiveKeyStep
<1> QED
  BY <1>1, <1>2, LiveKeyInit, PTL DEF Spec

-----------------------------------------------------------------------------
\* With such a retention a repeat fails only for a lead that was deleted, or for
\* a key that has expired since it was found.
SucceedInv == LiveKeyInv /\ RepeatsSucceed

\* What excuses a failed repeat stays true.
LEMMA ExcuseStays ==
    ASSUME LiveKeyInv, LiveKeyInv', [Next]_vars
    PROVE  /\ now' >= now
           /\ \A q \in Request : recordedAt[q] # Never => recordedAt'[q] = recordedAt[q]
           /\ \A q \in Request : erasedAt[q] # Never => erasedAt'[q] # Never
<1> USE DEF LiveKeyInv, RepeatInv, StoreInv, EffectInv, TypeInv, TypeOK
<1>1. ASSUME NEW p \in Request, Commit(p)
      PROVE  /\ UNCHANGED <<now, erasedAt>>
             /\ \A q \in Request : recordedAt[q] # Never => recordedAt'[q] = recordedAt[q]
  BY <1>1 DEF Commit, NotYet
<1>2. ASSUME NEW p \in Request, DeleteLead(p)
      PROVE  /\ UNCHANGED <<now, recordedAt>>
             /\ \A q \in Request : erasedAt[q] # Never => erasedAt'[q] # Never
  BY <1>2 DEF DeleteLead
<1>3. ASSUME NEW p \in Request,
             \/ LookUp(p) \/ Prepare(p) \/ Write(p) \/ Record(p) \/ FindWinner(p)
             \/ Replay(p) \/ Respond(p) \/ Lose(p)
      PROVE  UNCHANGED <<now, history>>
  BY <1>3 DEF LookUp, Prepare, Write, Record, FindWinner, Replay, Respond, Lose
<1>4. ASSUME \/ \E d \in RetentionDays : ChangeRetention(d)
             \/ StartMaintenance
             \/ \E m \in runs : RunStep(m)
             \/ UNCHANGED vars
      PROVE  UNCHANGED <<now, history>>
  BY <1>4 DEF ChangeRetention, StartMaintenance, RunStep, CheckRetention, RunRetention,
              RunCleanup, TaskFails, vars
<1>5. ASSUME Tick PROVE now' >= now /\ UNCHANGED history
  BY <1>5 DEF Tick
<1>6. ASSUME NEW p \in Request, LookUp(p) \/ Step(p) \/ Lose(p) \/ DeleteLead(p)
      PROVE  /\ UNCHANGED now
             /\ \A q \in Request : recordedAt[q] # Never => recordedAt'[q] = recordedAt[q]
             /\ \A q \in Request : erasedAt[q] # Never => erasedAt'[q] # Never
  BY <1>1, <1>2, <1>3, <1>6 DEF Step, history
<1> QED
  BY <1>4, <1>5, <1>6 DEF Next, history

\* A recent effect whose lead was not deleted still has its lead.
LEMMA LeadStillThere ==
    ASSUME LiveKeyInv, NEW q \in Request, recordedAt[q] # Never, erasedAt[q] = Never,
           now - recordedAt[q] <= Ttl, body[q].kind \in {"draftLead", "storedLead"}
    PROVE  \E l \in leads : l.id = q
<1> USE DEF LiveKeyInv, RepeatInv, StoreInv, EffectInv, TypeInv, TypeOK
<1>1. PICK r \in keys : r.result = q
  BY DEF Remembered
<1>2. r.createdAt = recordedAt[q] /\ r.body = body[q]
  BY <1>1 DEF RowsSound
<1>3. ~ Expired(r, now)
  BY <1>2, TimeAssumption DEF Expired, Never
<1> QED
  BY <1>1, <1>2, <1>3 DEF LeadsKept

\* Only a replay that finds no lead fails a request that is served.
LEMMA FailsOnReplay ==
    ASSUME LiveKeyInv, [Next]_vars, NEW p \in Request,
           served'[p] # Nobody, answer'[p].status = "FAILED"
    PROVE  \/ served'[p] = served[p] /\ answer'[p] = answer[p]
           \/ /\ served'[p] = served[p]
              /\ body[p].kind \in {"draftLead", "storedLead"}
              /\ \A l \in leads : l.id # served[p]
<1> USE DEF LiveKeyInv, RepeatInv, StoreInv, EffectInv, TypeInv, TypeOK
<1>1. ASSUME NEW q \in Request, q # p, LookUp(q) \/ Step(q) \/ Lose(q)
      PROVE  served'[p] = served[p] /\ answer'[p] = answer[p]
  BY <1>1 DEF LookUp, Step, Prepare, Write, Record, Commit, FindWinner, Replay, Respond, Lose,
              AnswerFrom, Goto, Finish
<1>2. \A status, shown : Finish(p, status, shown) => answer'[p].status = status
  BY DEF Finish
<1>3. pc[p] \in {"idle", "prepare", "write", "record", "commit", "conflict"}
         => served[p] = Nobody /\ answer[p].status = "none"
  BY DEF DecidedOnce
<1>4. ~ LookUp(p) /\ ~ FindWinner(p)
  BY <1>2, <1>3 DEF LookUp, FindWinner, AnswerFrom
<1>5. ~ Prepare(p) /\ ~ Write(p) /\ ~ Record(p) /\ ~ Commit(p)
  BY <1>3 DEF Prepare, Write, Record, Commit
<1>6. ~ Respond(p) /\ ~ Lose(p)
  BY <1>2 DEF Respond, Lose
<1>7. CASE Replay(p)
  BY <1>2, <1>7 DEF Replay
<1>8. ASSUME \/ \E q \in Request : DeleteLead(q)
             \/ \E d \in RetentionDays : ChangeRetention(d)
             \/ StartMaintenance
             \/ \E m \in runs : RunStep(m)
             \/ Tick
             \/ UNCHANGED vars
      PROVE  UNCHANGED <<served, answer>>
  BY <1>8 DEF DeleteLead, ChangeRetention, StartMaintenance, RunStep, CheckRetention,
              RunRetention, RunCleanup, TaskFails, Tick, vars, requestVars
<1>9. ASSUME LookUp(p) \/ Step(p) \/ Lose(p) PROVE Replay(p)
  BY <1>4, <1>5, <1>6, <1>9 DEF Step
<1> QED
  BY <1>1, <1>7, <1>8, <1>9 DEF Next

LEMMA SucceedStep ==
    ASSUME LongRetention, SucceedInv, [Next]_vars
    PROVE  SucceedInv'
<1> USE DEF SucceedInv
<1>1. LiveKeyInv'
  BY LiveKeyStep
<1>2. SUFFICES ASSUME NEW p \in Request, served'[p] # Nobody, answer'[p].status = "FAILED"
               PROVE  \/ erasedAt'[served'[p]] # Never
                      \/ now' - recordedAt'[served'[p]] > Ttl
  BY <1>1 DEF RepeatsSucceed
<1>3. PICK q \in Request : q = served[p] /\ served'[p] = q
  BY <1>2, FailsOnReplay DEF LiveKeyInv, RepeatInv, StoreInv, EffectInv, TypeInv, TypeOK
<1>4. recordedAt[q] # Never /\ body[p] = body[q] /\ q # Nobody
  BY <1>2, <1>3 DEF LiveKeyInv, RepeatInv, ServedSound
<1>5. erasedAt[q] # Never \/ now - recordedAt[q] > Ttl
  <2>1. CASE answer'[p] = answer[p]
    BY <1>2, <1>3, <1>4, <2>1 DEF RepeatsSucceed
  <2>2. CASE body[q].kind \in {"draftLead", "storedLead"} /\ \A l \in leads : l.id # q
    BY <1>4, <2>2, LeadStillThere, TimeAssumption
       DEF LiveKeyInv, RepeatInv, StoreInv, EffectInv, TypeInv, TypeOK
  <2> QED
    BY <1>2, <1>3, <1>4, <2>1, <2>2, FailsOnReplay
<1>6. /\ now' >= now /\ now \in Nat /\ now' \in Nat
      /\ recordedAt'[q] = recordedAt[q] /\ recordedAt[q] \in Nat
      /\ erasedAt[q] # Never => erasedAt'[q] # Never
  BY <1>1, <1>4, ExcuseStays DEF LiveKeyInv, RepeatInv, StoreInv, EffectInv, TypeInv, TypeOK
<1> QED
  BY <1>3, <1>5, <1>6, TimeAssumption

\* Under the same condition on the retention, a repeat with the same key and body
\* is answered with the original result: it fails only when an administrator
\* deleted the lead, or when the key expired between the lookup and the replay.
THEOREM RepeatsAnswered ==
    ASSUME LongRetention
    PROVE  Spec => []RepeatsSucceed
<1>1. Init => SucceedInv
  BY LiveKeyInit DEF Init, SucceedInv, RepeatsSucceed
<1>2. SucceedInv => RepeatsSucceed
  BY DEF SucceedInv
<1>3. SucceedInv /\ [Next]_vars => SucceedInv'
  BY SucceedStep
<1> QED
  BY <1>1, <1>2, <1>3, PTL DEF Spec
=============================================================================
