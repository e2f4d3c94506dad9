-------------------------- MODULE PricingDataCache --------------------------
(***************************************************************************)
(* PricingDataService: the in-memory copy of everything a price depends    *)
(* on.  A build reads the tables in parallel, outside any transaction,     *)
(* while administrators commit changes; a change is announced             *)
(* (PricingDataService.invalidate) only after its commit.  The generation  *)
(* counter keeps a build that began before an announcement out of the      *)
(* cache.                                                                  *)
(*                                                                         *)
(* A table is represented by how often it was changed, a call of get() by  *)
(* a reader, and a build by the reader whose call began it.                *)
(***************************************************************************)
EXTENDS Integers

CONSTANTS
    Table,      \* what build() reads
    Reader,     \* calls of PricingDataService.get
    Change,     \* committed changes: an admin request, a rate, a reset
    Touched,    \* the sets of tables one transaction may change
    Nothing     \* null: no data, no build

ASSUME NothingAssumption == Nothing \notin Reader
ASSUME TouchedAssumption == Touched \subseteq SUBSET Table

VARIABLES
    db,         \* the committed tables
    cached,     \* PricingDataService.cached
    pending,    \* PricingDataService.pending
    generation, \* PricingDataService.generation
    begun,      \* per build: the generation it began with
    data,       \* per build: the tables as it read them
    unread,     \* per build: the tables it still has to read
    pc,         \* per call: idle, waits, got or failed
    awaits,     \* per call: the build it waits for
    got,        \* per call: the data it returned
    change,     \* per change: idle, committed, announced or silent
    announced,  \* history: the tables at the last announcement
    known       \* history, per call: announced when it was made

cacheVars == <<cached, pending, generation>>
buildVars == <<begun, data, unread>>
callVars == <<pc, awaits, got, known>>
vars == <<db, cacheVars, buildVars, callVars, change, announced>>

Data == [Table -> Nat]
NoRows == [t \in Table |-> 0]

Init ==
    /\ db = NoRows
    /\ cached = Nothing
    /\ pending = Nothing
    /\ generation = 0
    /\ begun = [r \in Reader |-> 0]
    /\ data = [r \in Reader |-> NoRows]
    /\ unread = [r \in Reader |-> {}]
    /\ pc = [r \in Reader |-> "idle"]
    /\ awaits = [r \in Reader |-> Nothing]
    /\ got = [r \in Reader |-> Nothing]
    /\ change = [c \in Change |-> "idle"]
    /\ announced = db
    /\ known = [r \in Reader |-> db]

\* Some call waits for the build: it has not been settled yet.
Running(b) == \E r \in Reader : pc[r] = "waits" /\ awaits[r] = b

-----------------------------------------------------------------------------
\* get() finds data in the cache.
Hit(r) ==
    /\ pc[r] = "idle"
    /\ cached # Nothing
    /\ pc' = [pc EXCEPT ![r] = "got"]
    /\ got' = [got EXCEPT ![r] = cached]
    /\ known' = [known EXCEPT ![r] = announced]
    /\ UNCHANGED <<db, cacheVars, buildVars, awaits, change, announced>>

Wait(r, b) ==
    /\ pc' = [pc EXCEPT ![r] = "waits"]
    /\ awaits' = [awaits EXCEPT ![r] = b]
    /\ known' = [known EXCEPT ![r] = announced]
    /\ UNCHANGED <<db, cached, generation, got, change, announced>>

\* get() joins the build under way.
Join(r) ==
    /\ pc[r] = "idle"
    /\ cached = Nothing
    /\ pending # Nothing
    /\ Wait(r, pending)
    /\ UNCHANGED <<pending, buildVars>>

\* get() begins a build.
Begin(r) ==
    /\ pc[r] = "idle"
    /\ cached = Nothing
    /\ pending = Nothing
    /\ pending' = r
    /\ begun' = [begun EXCEPT ![r] = generation]
    /\ unread' = [unread EXCEPT ![r] = Table]
    /\ Wait(r, r)
    /\ UNCHANGED data

\* One of the queries of build() is answered.
Read(b, t) ==
    /\ Running(b)
    /\ t \in unread[b]
    /\ data' = [data EXCEPT ![b][t] = db[t]]
    /\ unread' = [unread EXCEPT ![b] = @ \ {t}]
    /\ UNCHANGED <<db, cacheVars, begun, callVars, change, announced>>

\* Mutant of Settle: only the call that began a build returns with it.
SettleOwner(b, outcome, value) ==
    /\ pc' = [pc EXCEPT ![b] = outcome]
    /\ awaits' = [awaits EXCEPT ![b] = Nothing]
    /\ got' = [got EXCEPT ![b] = value]
    /\ data' = [data EXCEPT ![b] = NoRows]
    /\ unread' = [unread EXCEPT ![b] = {}]
    /\ begun' = [begun EXCEPT ![b] = 0]

\* Every call that waits for the build returns with it, and the build is gone.
Settle(b, outcome, value) ==
    LET waiting == {r \in Reader : pc[r] = "waits" /\ awaits[r] = b} IN
    /\ pc' = [r \in Reader |-> IF r \in waiting THEN outcome ELSE pc[r]]
    /\ awaits' = [r \in Reader |-> IF r \in waiting THEN Nothing ELSE awaits[r]]
    /\ got' = [r \in Reader |-> IF r \in waiting THEN value ELSE got[r]]
    /\ data' = [data EXCEPT ![b] = NoRows]
    /\ unread' = [unread EXCEPT ![b] = {}]
    /\ begun' = [begun EXCEPT ![b] = 0]

\* Mutant of Current: the build is kept whatever was announced meanwhile.
Whichever(b) == TRUE

\* generation === this.generation
Current(b) == begun[b] = generation

\* All queries are answered: the data is kept when nothing was announced since
\* the build began, and returned in any case.
Finish(b) ==
    /\ Running(b)
    /\ unread[b] = {}
    /\ Settle(b, "got", data[b])
    /\ \/ /\ Current(b)
          /\ cached' = data[b]
          /\ pending' = Nothing
       \/ /\ ~ Current(b)
          /\ UNCHANGED <<cached, pending>>
    /\ UNCHANGED <<db, generation, known, change, announced>>

\* Mutant of Dropped: a rejected promise stays behind.
StillPending(b) == pending

\* pending without build b: a build begun since is left alone.
Dropped(b) == IF pending = b THEN Nothing ELSE pending

\* A query fails, or the data does not satisfy PricingDataSchema.
Fail(b) ==
    /\ Running(b)
    /\ Settle(b, "failed", Nothing)
    /\ pending' = Dropped(b)
    /\ UNCHANGED <<db, cached, generation, known, change, announced>>

-----------------------------------------------------------------------------
\* The transaction of a change commits.
Commit(c, tables) ==
    /\ change[c] = "idle"
    /\ change' = [change EXCEPT ![c] = "committed"]
    /\ db' = [t \in Table |-> IF t \in tables THEN db[t] + 1 ELSE db[t]]
    /\ UNCHANGED <<cacheVars, buildVars, callVars, announced>>

\* Mutant of Forgotten: invalidate() leaves the build under way in place.
KeepPending == /\ cached' = Nothing
               /\ UNCHANGED pending

Forgotten == /\ cached' = Nothing
             /\ pending' = Nothing

\* Mutant of NextGeneration: the counter runs down.
PreviousGeneration == generation - 1

NextGeneration == generation + 1

\* invalidate(), called after the commit by the service, by the catalog and
\* exchange rate streams or by the sandbox.
Announce(c) ==
    /\ change[c] = "committed"
    /\ change' = [change EXCEPT ![c] = "announced"]
    /\ generation' = NextGeneration
    /\ Forgotten
    /\ announced' = db
    /\ UNCHANGED <<db, buildVars, callVars>>

\* A catalog handler that fails after its commit: CatalogChangeInterceptor
\* announces successful requests only, so the change stays silent.
StaySilent(c) ==
    /\ change[c] = "committed"
    /\ change' = [change EXCEPT ![c] = "silent"]
    /\ UNCHANGED <<db, cacheVars, buildVars, callVars, announced>>

-----------------------------------------------------------------------------
Build(b) == (\E t \in Table : Read(b, t)) \/ Finish(b) \/ Fail(b)

Next ==
    \/ \E r \in Reader : Hit(r) \/ Join(r) \/ Begin(r) \/ Build(r)
    \/ \E c \in Change : (\E tables \in Touched : Commit(c, tables))
                         \/ Announce(c) \/ StaySilent(c)

Spec == Init /\ [][Next]_vars

\* Queries are answered or fail: a build does not hang.
FairSpec == Spec /\ \A b \in Reader : WF_vars(Build(b))

-----------------------------------------------------------------------------
TypeOK ==
    /\ db \in Data
    /\ cached \in Data \cup {Nothing}
    /\ pending \in Reader \cup {Nothing}
    /\ generation \in Nat
    /\ begun \in [Reader -> Nat]
    /\ data \in [Reader -> Data]
    /\ unread \in [Reader -> SUBSET Table]
    /\ pc \in [Reader -> {"idle", "waits", "got", "failed"}]
    /\ awaits \in [Reader -> Reader \cup {Nothing}]
    /\ got \in [Reader -> Data \cup {Nothing}]
    /\ change \in [Change -> {"idle", "committed", "announced", "silent"}]
    /\ announced \in Data
    /\ known \in [Reader -> Data]

\* d is between two states of the tables
Between(low, d, high) == \A t \in Table : low[t] <= d[t] /\ d[t] <= high[t]

\* A price is computed from data that includes every change announced before
\* the call: no build begun before an announcement serves a call made after it.
FreshAnswers ==
    \A r \in Reader : pc[r] = "got" => Between(known[r], got[r], db)

\* The parallel reads may mix tables from before and after a transaction, but
\* not for long: once every committed change is announced, what is in the cache
\* is exactly what is in the database.
SettledCache ==
    announced = db /\ cached # Nothing => cached = db

\* A failed build is not kept: a later call begins a new one instead of being
\* rejected with the old error, and a failure never drops a younger build.
PendingRuns ==
    pending # Nothing => /\ Running(pending)
                         /\ Current(pending)
                         /\ cached = Nothing

\* Every call of get() is answered, even when its build has been superseded.
CallsEnd == \A r \in Reader : pc[r] = "waits" ~> pc[r] \in {"got", "failed"}
=============================================================================
