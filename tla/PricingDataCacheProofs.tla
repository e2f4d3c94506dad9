----------------------- MODULE PricingDataCacheProofs -----------------------
(***************************************************************************)
(* Theorems about PricingDataCache, for any tables, any number of calls    *)
(* and changes, and whatever sets of tables the changes touch.             *)
(***************************************************************************)
EXTENDS PricingDataCache, TLAPS

\* Announcements never run ahead of the database, nor calls of announcements.
KnownOrder ==
    \A t \in Table :
        /\ announced[t] <= db[t]
        /\ \A r \in Reader : known[r][t] <= announced[t]

\* The cache holds everything that was announced.
CachedFresh == cached # Nothing => Between(announced, cached, db)

\* The call that began a build waits for it as long as anybody does.
OwnerWaits ==
    \A b \in Reader : Running(b) => pc[b] = "waits" /\ awaits[b] = b

\* A build has read what each waiting call needs; the build of the present
\* generation has read everything that was announced.
BuildFresh ==
    \A r \in Reader : pc[r] = "waits" =>
        LET b == awaits[r] IN
        /\ b \in Reader
        /\ begun[b] <= generation
        /\ \A t \in Table \ unread[b] :
              /\ known[r][t] <= data[b][t]
              /\ data[b][t] <= db[t]
              /\ Current(b) => announced[t] <= data[b][t]

\* A call that was answered got data.
AnswersData == \A r \in Reader : pc[r] = "got" => got[r] \in Data

CacheInv ==
    /\ TypeOK
    /\ AnswersData
    /\ KnownOrder
    /\ CachedFresh
    /\ OwnerWaits
    /\ BuildFresh
    /\ PendingRuns
    /\ FreshAnswers

LEMMA CacheInit == Init => CacheInv
<1> SUFFICES ASSUME Init PROVE CacheInv
  OBVIOUS
<1>1. NoRows \in Data
  BY DEF NoRows, Data
<1>2. TypeOK
  BY <1>1 DEF Init, TypeOK
<1>3. /\ KnownOrder /\ CachedFresh /\ OwnerWaits /\ BuildFresh /\ PendingRuns
      /\ AnswersData /\ FreshAnswers
  BY DEF Init, AnswersData, KnownOrder, CachedFresh, OwnerWaits, BuildFresh, PendingRuns, FreshAnswers,
         Running, NoRows
<1> QED
  BY <1>2, <1>3 DEF CacheInv

LEMMA HitKeeps ==
    ASSUME CacheInv, NEW r \in Reader, Hit(r)
    PROVE  CacheInv'
<1> USE DEF CacheInv, TypeOK, Data, Hit, cacheVars, buildVars
<1>1. TypeOK'
  OBVIOUS
<1>2. KnownOrder' /\ CachedFresh'
  BY DEF KnownOrder, CachedFresh, Between
<1>3. \A b \in Reader : Running(b)' <=> Running(b)
  BY DEF Running
<1>4. OwnerWaits' /\ BuildFresh' /\ PendingRuns'
  BY <1>3 DEF OwnerWaits, BuildFresh, PendingRuns, Current
<1>5. FreshAnswers' /\ AnswersData'
  BY DEF FreshAnswers, AnswersData, CachedFresh, Between
<1> QED
  BY <1>1, <1>2, <1>4, <1>5

LEMMA JoinKeeps ==
    ASSUME CacheInv, NEW r \in Reader, Join(r)
    PROVE  CacheInv'
<1> USE DEF CacheInv, TypeOK, Data, Join, Wait, buildVars
<1>1. TypeOK'
  OBVIOUS
<1>2. KnownOrder' /\ CachedFresh'
  BY DEF KnownOrder, CachedFresh, Between
<1>3. pending \in Reader /\ Running(pending) /\ Current(pending)
  BY DEF PendingRuns
<1>4. PICK q \in Reader : pc[q] = "waits" /\ awaits[q] = pending
  BY <1>3 DEF Running
<1>5. \A b \in Reader : Running(b)' <=> Running(b)
  BY <1>3 DEF Running
<1>6. OwnerWaits' /\ PendingRuns'
  BY <1>3, <1>5 DEF OwnerWaits, PendingRuns, Current
<1>7. BuildFresh'
  <2> SUFFICES ASSUME NEW s \in Reader, pc'[s] = "waits"
               PROVE  /\ awaits'[s] \in Reader
                      /\ begun[awaits'[s]] <= generation
                      /\ \A t \in Table \ unread[awaits'[s]] :
                            /\ known'[s][t] <= data[awaits'[s]][t]
                            /\ data[awaits'[s]][t] <= db[t]
                            /\ Current(awaits'[s]) => announced[t] <= data[awaits'[s]][t]
    BY DEF BuildFresh, Current
  <2>1. CASE s # r
    BY <2>1 DEF BuildFresh
  <2>2. CASE s = r
    BY <2>2, <1>3, <1>4 DEF BuildFresh, Current
  <2> QED
    BY <2>1, <2>2
<1>8. FreshAnswers' /\ AnswersData'
  BY DEF FreshAnswers, AnswersData, Between
<1> QED
  BY <1>1, <1>2, <1>6, <1>7, <1>8

LEMMA BeginKeeps ==
    ASSUME CacheInv, NEW r \in Reader, Begin(r)
    PROVE  CacheInv'
<1> USE DEF CacheInv, TypeOK, Data, Begin, Wait
<1>1. TypeOK'
  OBVIOUS
<1>2. KnownOrder' /\ CachedFresh'
  BY DEF KnownOrder, CachedFresh, Between
<1>3. ~ Running(r)
  BY DEF OwnerWaits
<1>4. /\ \A b \in Reader \ {r} : Running(b)' <=> Running(b)
      /\ Running(r)'
  BY <1>3 DEF Running
<1>5. OwnerWaits'
  BY <1>4 DEF OwnerWaits
<1>6. PendingRuns'
  BY <1>4, NothingAssumption DEF PendingRuns, Current
<1>7. BuildFresh'
  BY <1>3 DEF BuildFresh, Running, Current
<1>8. FreshAnswers' /\ AnswersData'
  BY DEF FreshAnswers, AnswersData, Between
<1> QED
  BY <1>1, <1>2, <1>5, <1>6, <1>7, <1>8

LEMMA ReadKeeps ==
    ASSUME CacheInv, NEW b \in Reader, NEW t \in Table, Read(b, t)
    PROVE  CacheInv'
<1> USE DEF CacheInv, TypeOK, Data, Read, cacheVars, callVars
<1>1. TypeOK'
  OBVIOUS
<1>2. KnownOrder' /\ CachedFresh'
  BY DEF KnownOrder, CachedFresh, Between
<1>3. \A c \in Reader : Running(c)' <=> Running(c)
  BY DEF Running
<1>4. OwnerWaits' /\ PendingRuns'
  BY <1>3 DEF OwnerWaits, PendingRuns, Current
<1>5. BuildFresh'
  <2> SUFFICES ASSUME NEW s \in Reader, pc[s] = "waits"
               PROVE  /\ awaits[s] \in Reader
                      /\ begun[awaits[s]] <= generation
                      /\ \A u \in Table \ unread'[awaits[s]] :
                            /\ known[s][u] <= data'[awaits[s]][u]
                            /\ data'[awaits[s]][u] <= db[u]
                            /\ Current(awaits[s]) => announced[u] <= data'[awaits[s]][u]
    BY DEF BuildFresh, Current
  <2>1. awaits[s] \in Reader /\ begun[awaits[s]] <= generation
    BY DEF BuildFresh
  <2>2. known[s][t] <= db[t] /\ announced[t] <= db[t]
    BY DEF KnownOrder
  <2> QED
    BY <2>1, <2>2 DEF BuildFresh
<1>6. FreshAnswers' /\ AnswersData'
  BY DEF FreshAnswers, AnswersData
<1> QED
  BY <1>1, <1>2, <1>4, <1>5, <1>6

\* What the end of a build leaves untouched: the other builds and their calls.
LEMMA SettleOthers ==
    ASSUME CacheInv, NEW b \in Reader, NEW outcome \in {"got", "failed"}, NEW value,
           Settle(b, outcome, value)
    PROVE  /\ ~ Running(b)'
           /\ \A c \in Reader \ {b} :
                 /\ Running(c)' <=> Running(c)
                 /\ begun'[c] = begun[c] /\ data'[c] = data[c] /\ unread'[c] = unread[c]
           /\ \A r \in Reader :
                 pc'[r] = "waits" => pc[r] = "waits" /\ awaits'[r] = awaits[r] /\ awaits[r] # b
BY NothingAssumption DEF CacheInv, TypeOK, Settle, Running

LEMMA SettleKeeps ==
    ASSUME CacheInv, NEW b \in Reader, NEW outcome \in {"got", "failed"}, NEW value,
           Settle(b, outcome, value), UNCHANGED <<db, generation, known, announced>>
    PROVE  KnownOrder' /\ OwnerWaits' /\ BuildFresh'
<1> USE SettleOthers DEF CacheInv
<1>1. KnownOrder'
  BY DEF KnownOrder
<1>2. OwnerWaits'
  <2> SUFFICES ASSUME NEW c \in Reader, Running(c)'
               PROVE  pc'[c] = "waits" /\ awaits'[c] = c
    BY DEF OwnerWaits
  <2>1. c # b /\ Running(c)
    OBVIOUS
  <2>2. pc[c] = "waits" /\ awaits[c] = c
    BY <2>1 DEF OwnerWaits
  <2> QED
    BY <2>1, <2>2 DEF Settle
<1>3. BuildFresh'
  BY DEF BuildFresh, Current
<1> QED
  BY <1>1, <1>2, <1>3

LEMMA FinishKeeps ==
    ASSUME CacheInv, NEW b \in Reader, Finish(b)
    PROVE  CacheInv'
<1> USE DEF CacheInv
<1>1. Settle(b, "got", data[b])
  BY DEF Finish
<1>2. KnownOrder' /\ OwnerWaits' /\ BuildFresh'
  BY <1>1, SettleKeeps DEF Finish
<1>3. NoRows \in Data
  BY DEF NoRows, Data
<1>4. TypeOK'
  BY <1>1, <1>3 DEF Finish, Settle, TypeOK
<1>5. \A r \in Reader : pc[r] = "waits" /\ awaits[r] = b => Between(known[r], data[b], db)
  BY DEF Finish, BuildFresh, Between
<1>6. FreshAnswers' /\ AnswersData'
  BY <1>1, <1>5 DEF FreshAnswers, AnswersData, Finish, Settle, TypeOK
<1>7. Current(b) => Between(announced, data[b], db)
  BY DEF Finish, Running, BuildFresh, Between
<1>8. CachedFresh'
  BY <1>7 DEF CachedFresh, Finish
<1>9. PendingRuns'
  BY <1>1, SettleOthers DEF PendingRuns, Finish, Current, TypeOK
<1> QED
  BY <1>2, <1>4, <1>6, <1>8, <1>9

LEMMA FailKeeps ==
    ASSUME CacheInv, NEW b \in Reader, Fail(b)
    PROVE  CacheInv'
<1> USE DEF CacheInv
<1>1. Settle(b, "failed", Nothing)
  BY DEF Fail
<1>2. KnownOrder' /\ OwnerWaits' /\ BuildFresh'
  BY <1>1, SettleKeeps DEF Fail
<1>3. NoRows \in Data
  BY DEF NoRows, Data
<1>4. TypeOK'
  BY <1>1, <1>3 DEF Fail, Settle, TypeOK, Dropped
<1>5. FreshAnswers' /\ AnswersData'
  BY <1>1 DEF FreshAnswers, AnswersData, Fail, Settle, TypeOK
<1>6. CachedFresh'
  BY DEF CachedFresh, Fail
<1>7. PendingRuns'
  BY <1>1, SettleOthers DEF PendingRuns, Fail, Dropped, Current, TypeOK
<1> QED
  BY <1>2, <1>4, <1>5, <1>6, <1>7

LEMMA ChangeKeeps ==
    ASSUME CacheInv, NEW c \in Change,
           (\E tables \in Touched : Commit(c, tables)) \/ StaySilent(c)
    PROVE  CacheInv'
<1> USE DEF CacheInv, cacheVars, buildVars, callVars
<1>1. /\ db' \in Data
      /\ \A t \in Table : db[t] <= db'[t]
      /\ change' \in [Change -> {"idle", "committed", "announced", "silent"}]
      /\ UNCHANGED <<cacheVars, buildVars, callVars, announced>>
  <2>1. ASSUME NEW tables \in Touched, Commit(c, tables)
        PROVE  db' \in Data /\ \A t \in Table : db[t] <= db'[t]
    BY <2>1 DEF Commit, TypeOK, Data
  <2>2. CASE StaySilent(c)
    BY <2>2 DEF StaySilent, TypeOK, Data
  <2> QED
    BY <2>1, <2>2 DEF Commit, StaySilent, TypeOK
<1>2. TypeOK'
  BY <1>1 DEF TypeOK
<1>3. KnownOrder'
  BY <1>1 DEF KnownOrder, TypeOK, Data
<1>4. CachedFresh'
  BY <1>1 DEF CachedFresh, Between, TypeOK, Data
<1>5. \A b \in Reader : Running(b)' <=> Running(b)
  BY <1>1 DEF Running
<1>6. OwnerWaits' /\ PendingRuns' /\ AnswersData'
  BY <1>1, <1>5 DEF OwnerWaits, PendingRuns, AnswersData, Current, TypeOK
<1>7. BuildFresh'
  BY <1>1 DEF BuildFresh, Current, TypeOK, Data
<1>8. FreshAnswers'
  BY <1>1 DEF FreshAnswers, AnswersData, Between, TypeOK, Data
<1> QED
  BY <1>2, <1>3, <1>4, <1>6, <1>7, <1>8

LEMMA AnnounceKeeps ==
    ASSUME CacheInv, NEW c \in Change, Announce(c)
    PROVE  CacheInv'
<1> USE DEF CacheInv, Announce, Forgotten, NextGeneration, buildVars, callVars
<1>1. TypeOK'
  BY DEF TypeOK
<1>2. KnownOrder'
  BY DEF KnownOrder, TypeOK, Data
<1>3. \A b \in Reader : Running(b)' <=> Running(b)
  BY DEF Running
<1>4. OwnerWaits' /\ PendingRuns' /\ CachedFresh' /\ FreshAnswers' /\ AnswersData'
  BY <1>3 DEF OwnerWaits, PendingRuns, CachedFresh, FreshAnswers, AnswersData
<1>5. BuildFresh'
  BY DEF BuildFresh, Current, TypeOK
<1> QED
  BY <1>1, <1>2, <1>4, <1>5

LEMMA CacheStep == CacheInv /\ [Next]_vars => CacheInv'
<1> SUFFICES ASSUME CacheInv, [Next]_vars PROVE CacheInv'
  OBVIOUS
<1>1. CASE UNCHANGED vars
  BY <1>1 DEF CacheInv, TypeOK, KnownOrder, CachedFresh, OwnerWaits, BuildFresh, PendingRuns,
              FreshAnswers, AnswersData, Running, Current, vars, cacheVars, buildVars, callVars
<1> QED
  BY <1>1, HitKeeps, JoinKeeps, BeginKeeps, ReadKeeps, FinishKeeps, FailKeeps, ChangeKeeps,
     AnnounceKeeps DEF Next, Build

\* Generations, tables and calls are what they should be: the cache holds a value
\* of every table or nothing, a pending build has a generation, nobody waits for
\* a build that does not exist (pricing-data.cache.ts).
THEOREM CacheTypes == Spec => []TypeOK
<1>1. CacheInv => TypeOK
  BY DEF CacheInv
<1> QED
  BY <1>1, CacheInit, CacheStep, PTL DEF Spec

\* Whatever get() returns includes every change announced before it was called,
\* and nothing that was not committed.
THEOREM AnswersAreFresh == Spec => []FreshAnswers
<1>1. CacheInv => FreshAnswers
  BY DEF CacheInv
<1> QED
  BY <1>1, CacheInit, CacheStep, PTL DEF Spec

\* With no change between its commit and its announcement, the cache is the
\* database: the mixture a parallel read may have seen has been dropped.
THEOREM CacheSettles == Spec => []SettledCache
<1>1. CacheInv => SettledCache
  <2> SUFFICES ASSUME CacheInv, announced = db, cached # Nothing PROVE cached = db
    BY DEF SettledCache
  <2>1. cached \in Data /\ db \in Data
    BY DEF CacheInv, TypeOK
  <2>2. Between(db, cached, db)
    BY DEF CacheInv, CachedFresh
  <2>3. ASSUME NEW t \in Table PROVE cached[t] = db[t]
    <3>1. cached[t] \in Nat /\ db[t] \in Nat
      BY <2>1 DEF Data
    <3> QED
      BY <2>2, <3>1 DEF Between
  <2> QED
    BY <2>1, <2>3 DEF Data
<1> QED
  BY <1>1, CacheInit, CacheStep, PTL DEF Spec

\* The build later calls would join is under way and of the present generation.
THEOREM PendingIsCurrent == Spec => []PendingRuns
<1>1. CacheInv => PendingRuns
  BY DEF CacheInv
<1> QED
  BY <1>1, CacheInit, CacheStep, PTL DEF Spec
=============================================================================
