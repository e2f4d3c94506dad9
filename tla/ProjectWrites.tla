--------------------------- MODULE ProjectWrites ---------------------------
(***************************************************************************)
(* The public writes of modules/projects: save a calculation, recalculate  *)
(* it, submit a lead.  Every write carries an Idempotency-Key; the module  *)
(* models the interceptor that answers repeats, the three services with    *)
(* their transactions, the administrator who deletes leads, and the two    *)
(* maintenance tasks that delete old leads and old keys.                   *)
(*                                                                         *)
(* A request names whatever it creates: a calculation, a version, a lead   *)
(* (their uuids are drawn by the request).  A body stands for the hashed   *)
(* part of the request (canonicalSha256 of params, query and body).        *)
(***************************************************************************)
EXTENDS Integers, FiniteSets

CONSTANTS
    Request,            \* requests that may arrive
    Saved,              \* calculations saved long ago, version 1 each
    Key,                \* Idempotency-Key values
    NoKey,              \* a request without a valid key
    Nobody,             \* no request
    Body,               \* the bodies clients send
    Ttl,                \* IDEMPOTENCY_KEY_TTL_MS, in ticks
    Day,                \* DAY_MS, in ticks
    RetentionDays,      \* values of leadRetentionDays
    RetentionInterval,  \* RETENTION_INTERVAL_MS, in ticks
    Task,               \* maintenance tasks that run
    MaxRuns,            \* bound on maintenance runs under way
    TxTimeout,          \* Prisma's interactive transaction timeout, in ticks
    MaxTime             \* bound on the clock

CalcId == Request \cup Saved
Kind == {"save", "recalculate", "draftLead", "storedLead", "honeypot"}
Scope == {"SAVE", "RECALCULATE", "LEAD"}
Never == -1

ScopeOf(kind) ==
    IF kind = "save" THEN "SAVE"
    ELSE IF kind = "recalculate" THEN "RECALCULATE"
    ELSE "LEAD"

ASSUME BodyAssumption ==
    Body \subseteq [kind : Kind, calc : CalcId, version : Nat \ {0}]
ASSUME IdAssumption ==
    /\ Nobody \notin CalcId
    /\ NoKey \notin Key
    /\ Request \cap Saved = {}
ASSUME TaskAssumption == Task \subseteq {"lead-retention", "idempotency-keys-cleanup"}
ASSUME TimeAssumption ==
    /\ Ttl \in Nat \ {0}
    /\ Day \in Nat
    /\ RetentionInterval \in Nat
    /\ TxTimeout \in Nat \ {0}
    /\ MaxTime \in Nat
    /\ TxTimeout <= Ttl     \* seconds against a day
\* leadRetentionDays is at least 1 and a key is kept for exactly one day.
ASSUME RetentionAssumption ==
    /\ RetentionDays \subseteq Nat \ {0}
    /\ RetentionDays # {}
    /\ Day >= Ttl

VARIABLES
    now,            \* the clock
    keys,           \* table idempotency_keys
    latest,         \* calculations.latest_version_number, 0 when there is no row
    versions,       \* table calculation_versions
    leads,          \* table leads
    retention,      \* projects_settings.lead_retention_days
    lastRun,        \* projects_settings.last_retention_run_at
    runs,           \* maintenance runs under way: the instant each was called
                    \* with, its tasks still to run, and whether it has found
                    \* the lead retention due
    pc, key, body,  \* per request: where it is, its key and its body
    served,         \* per request: whose effect the answer describes
    tx,             \* per request: what its open transaction holds
    answer,         \* per request: what the client is told
    recordedAt,     \* history: when a committed request recorded its key
    erasedAt        \* history: when an administrator deleted a request's lead

dbVars == <<keys, latest, versions, leads, retention, lastRun>>
requestVars == <<pc, key, body, served, tx, answer>>
history == <<recordedAt, erasedAt>>
vars == <<now, dbVars, runs, requestVars, history>>

Slot == Scope \X Key
Row == [slot : Slot, body : Body, result : Request, createdAt : Nat]
Version == [id : CalcId, calc : CalcId, number : Nat \ {0}]
Lead == [id : Request, version : CalcId, createdAt : Nat]
Run == [at : Nat, left : SUBSET Task, due : BOOLEAN]
Where == {"idle", "prepare", "write", "record", "commit", "conflict",
          "replay", "respond", "done"}
Status == {"none", "ok", "KEY_REQUIRED", "KEY_REUSED", "KEY_CONFLICT",
           "NOT_FOUND", "FAILED", "lost"}

Tx == [startedAt : Nat, recordedAt : Nat, number : Nat, version : CalcId \cup {Nobody}]
Answer == [status : Status, versions : SUBSET Nat]

NoTx == [startedAt |-> 0, recordedAt |-> 0, number |-> 0, version |-> Nobody]
NoAnswer == [status |-> "none", versions |-> {}]

Init ==
    /\ now = 0
    /\ keys = {}
    /\ latest = [c \in CalcId |-> IF c \in Saved THEN 1 ELSE 0]
    /\ versions = {[id |-> c, calc |-> c, number |-> 1] : c \in Saved}
    /\ leads = {}
    /\ retention \in RetentionDays
    /\ lastRun = Never
    /\ runs = {}
    /\ pc = [p \in Request |-> "idle"]
    /\ key \in [Request -> Key \cup {NoKey}]
    /\ body \in [Request -> Body]
    /\ served = [p \in Request |-> Nobody]
    /\ tx = [p \in Request |-> NoTx]
    /\ answer = [p \in Request |-> NoAnswer]
    /\ recordedAt = [p \in Request |-> Never]
    /\ erasedAt = [p \in Request |-> Never]

-----------------------------------------------------------------------------
SlotOf(p) == <<ScopeOf(body[p].kind), key[p]>>

\* IdempotencyService.cutoff: a row this old no longer answers and is replaced.
Expired(r, at) == r.createdAt < at - Ttl

\* IdempotencyService.find
Find(s) == {r \in keys : r.slot = s /\ ~ Expired(r, now)}

\* Mutant of AfterPurge: the deleteMany without its createdAt filter.
PurgeWholeSlot(p, at) == {r \in keys : r.slot # SlotOf(p)}

\* What is left of the table after the deleteMany in IdempotencyService.record
AfterPurge(p, at) == {r \in keys : ~ (r.slot = SlotOf(p) /\ Expired(r, at))}

VersionsOf(c) == {v \in versions : v.calc = c}
StoredVersion(b) == {v \in VersionsOf(b.calc) : v.number = b.version}

\* Mutant of SummariesUpTo: the siblings as they are by now.
AllSummaries(v) == {w.number : w \in VersionsOf(v.calc)}

\* CalculationsService.summariesUpTo: the sibling versions shown with version v
SummariesUpTo(v) == {w.number : w \in {x \in VersionsOf(v.calc) : x.number <= v.number}}

Goto(p, place) == pc' = [pc EXCEPT ![p] = place]

Finish(p, status, shown) ==
    /\ Goto(p, "done")
    /\ answer' = [answer EXCEPT ![p] = [status |-> status, versions |-> shown]]

-----------------------------------------------------------------------------
\* Mutant of AnswerFrom: the hash is not compared.
AnswerAnyBody(p, r) ==
    /\ served' = [served EXCEPT ![p] = r.result]
    /\ Goto(p, "replay")
    /\ UNCHANGED answer

\* The interceptor compares the stored hash and replays or refuses.
AnswerFrom(p, r) ==
    \/ /\ r.body # body[p]
       /\ Finish(p, "KEY_REUSED", {})
       /\ UNCHANGED served
    \/ /\ r.body = body[p]
       /\ served' = [served EXCEPT ![p] = r.result]
       /\ Goto(p, "replay")
       /\ UNCHANGED answer

\* A request arrives, a first attempt or a repeat, and the interceptor looks at
\* the table: once per request, the throttle exemption shares the look.
LookUp(p) ==
    /\ pc[p] = "idle"
    /\ \/ /\ key[p] = NoKey
          /\ Finish(p, "KEY_REQUIRED", {})
          /\ UNCHANGED served
       \/ \E r \in Find(SlotOf(p)) : AnswerFrom(p, r)
       \/ /\ key[p] # NoKey
          /\ Find(SlotOf(p)) = {}
          /\ Goto(p, "prepare")
          /\ UNCHANGED <<served, answer>>
    /\ UNCHANGED <<now, dbVars, runs, key, body, tx, history>>

\* The version a recalculation is based on or a stored lead refers to is there.
BaseFound(p) ==
    body[p].kind \in {"recalculate", "storedLead"} => StoredVersion(body[p]) # {}

\* Everything read before the transaction: the snapshot of a save or a draft,
\* the base version of a recalculation, the version a lead refers to.  The
\* snapshot of a save, a draft or a recalculation may fail to be built.
Prepare(p) ==
    /\ pc[p] = "prepare"
    /\ \/ /\ BaseFound(p)
          /\ Goto(p, "write")
          /\ UNCHANGED answer
       \/ /\ ~ BaseFound(p)
          /\ Finish(p, "NOT_FOUND", {})
       \/ /\ BaseFound(p)
          /\ body[p].kind \in {"save", "draftLead", "recalculate"}
          /\ Finish(p, "FAILED", {})
    /\ UNCHANGED <<now, dbVars, runs, key, body, served, tx, history>>

\* Mutant of Holds: the SELECT without FOR UPDATE.
NotLocked(q, c) == FALSE

\* SELECT ... FOR UPDATE on the calculation row: held by at most one request.
Holds(q, c) ==
    pc[q] \in {"record", "commit"} /\ body[q].kind = "recalculate" /\ body[q].calc = c

NextNumber(p) == latest[body[p].calc] + 1

\* A transaction that begins now and writes, or refers to, the given version.
Begun(number, version) ==
    [startedAt |-> now, recordedAt |-> 0, number |-> number, version |-> version]

\* The first statements of the transaction; nothing of it is visible yet.
Write(p) ==
    /\ pc[p] = "write"
    /\ \/ /\ body[p].kind \in {"save", "draftLead", "honeypot"}
          /\ tx' = [tx EXCEPT ![p] = Begun(1, p)]
       \/ /\ body[p].kind = "recalculate"
          /\ \A q \in Request : ~ Holds(q, body[p].calc)
          /\ tx' = [tx EXCEPT ![p] = Begun(NextNumber(p), p)]
       \/ /\ body[p].kind = "storedLead"
          /\ \E v \in StoredVersion(body[p]) :
                tx' = [tx EXCEPT ![p] = Begun(v.number, v.id)]
    /\ Goto(p, "record")
    /\ UNCHANGED <<now, dbVars, runs, key, body, served, answer, history>>

\* The calculation a version is added to: the one recalculated, or a new one.
TargetOf(p) == IF body[p].kind = "recalculate" THEN body[p].calc ELSE p

\* The rows a request leaves behind when its transaction commits.
NewVersions(p) ==
    IF body[p].kind \in {"save", "draftLead", "recalculate"}
    THEN {[id |-> p, calc |-> TargetOf(p), number |-> tx[p].number]}
    ELSE {}

NewLatest(p) ==
    IF body[p].kind \in {"save", "draftLead", "recalculate"}
    THEN [latest EXCEPT ![TargetOf(p)] = tx[p].number]
    ELSE latest

\* Mutant of NewLeads: the version of a draft is not handed to the lead.
NewLeadsWithoutDraft(p) ==
    IF body[p].kind \in {"draftLead", "storedLead"}
    THEN {[id |-> p, createdAt |-> tx[p].startedAt,
           version |-> IF body[p].kind = "storedLead" THEN tx[p].version ELSE Nobody]}
    ELSE {}

NewLeads(p) ==
    IF body[p].kind \in {"draftLead", "storedLead"}
    THEN {[id |-> p, version |-> tx[p].version, createdAt |-> tx[p].startedAt]}
    ELSE {}

NewRow(p) ==
    [slot |-> SlotOf(p), body |-> body[p], result |-> p, createdAt |-> tx[p].recordedAt]

\* A row of slot s inserted by q and not committed yet: another transaction that
\* inserts, or purges, a row of the slot waits until q has committed or is lost.
HoldsKey(q, s) == pc[q] = "commit" /\ SlotOf(q) = s

\* The insert into idempotency_keys collides with a committed row of the slot.
Collides(p) == \E r \in AfterPurge(p, now) : r.slot = SlotOf(p)

\* IdempotencyService.record is the last statement of every transaction.  It
\* waits with everything the transaction has locked; a collision takes the whole
\* transaction back.
Record(p) ==
    /\ pc[p] = "record"
    /\ \A q \in Request : ~ HoldsKey(q, SlotOf(p))
    /\ \/ /\ Collides(p)
          /\ Goto(p, "conflict")
          /\ tx' = [tx EXCEPT ![p] = NoTx]
       \/ /\ ~ Collides(p)
          /\ Goto(p, "commit")
          /\ tx' = [tx EXCEPT ![p].recordedAt = now]
    /\ UNCHANGED <<now, dbVars, runs, key, body, served, answer, history>>

\* The transaction commits: everything it wrote becomes visible at once.
Commit(p) ==
    /\ pc[p] = "commit"
    /\ keys' = AfterPurge(p, tx[p].recordedAt) \cup {NewRow(p)}
    /\ versions' = versions \cup NewVersions(p)
    /\ latest' = NewLatest(p)
    /\ leads' = leads \cup NewLeads(p)
    /\ served' = [served EXCEPT ![p] = p]
    /\ recordedAt' = [recordedAt EXCEPT ![p] = tx[p].recordedAt]
    /\ tx' = [tx EXCEPT ![p] = NoTx]
    /\ Goto(p, "respond")
    /\ UNCHANGED <<now, retention, lastRun, runs, key, body, answer, erasedAt>>

\* Mutant of FindWinner: the interceptor waits until the winner's row is there.
WaitForWinner(p) ==
    /\ pc[p] = "conflict"
    /\ \E r \in Find(SlotOf(p)) : AnswerFrom(p, r)
    /\ UNCHANGED <<now, dbVars, runs, key, body, tx, history>>

\* After IDEMPOTENCY_KEY_CONFLICT the interceptor looks for the winner's row.
FindWinner(p) ==
    /\ pc[p] = "conflict"
    /\ \/ \E r \in Find(SlotOf(p)) : AnswerFrom(p, r)
       \/ /\ Find(SlotOf(p)) = {}
          /\ Finish(p, "KEY_CONFLICT", {})
          /\ UNCHANGED served
    /\ UNCHANGED <<now, dbVars, runs, key, body, tx, history>>

\* The loader of the scope rebuilds the response from what is stored.  A
\* honeypot is rebuilt from its row alone (fakeLeadNumber), a lead from the
\* lead row (findUniqueOrThrow), the others from the version.
Replay(p) ==
    /\ pc[p] = "replay"
    /\ \/ /\ body[p].kind = "honeypot"
          /\ Finish(p, "ok", {})
       \/ /\ body[p].kind \in {"draftLead", "storedLead"}
          /\ \E l \in leads : l.id = served[p]
          /\ Finish(p, "ok", {})
       \/ /\ body[p].kind \in {"draftLead", "storedLead"}
          /\ \A l \in leads : l.id # served[p]
          /\ Finish(p, "FAILED", {})
       \/ /\ body[p].kind \in {"save", "recalculate"}
          /\ \E v \in versions : v.id = served[p] /\ Finish(p, "ok", SummariesUpTo(v))
    /\ UNCHANGED <<now, dbVars, runs, key, body, served, tx, history>>

\* The first response.  Only a recalculation reads again after its commit.
Respond(p) ==
    /\ pc[p] = "respond"
    /\ \/ /\ body[p].kind \in {"draftLead", "storedLead", "honeypot"}
          /\ Finish(p, "ok", {})
       \/ /\ body[p].kind = "save"
          /\ Finish(p, "ok", {1})
       \/ /\ body[p].kind = "recalculate"
          /\ \E v \in versions : v.id = p /\ Finish(p, "ok", SummariesUpTo(v))
    /\ UNCHANGED <<now, dbVars, runs, key, body, served, tx, history>>

\* A crash, a broken connection or a transaction that timed out, waiting for a
\* lock or later: an open transaction is rolled back, a committed one stays and
\* the client is not told.  Elsewhere a lost request leaves nothing behind.
Lose(p) ==
    /\ pc[p] \in {"write", "record", "commit", "respond"}
    /\ Finish(p, "lost", {})
    /\ tx' = [tx EXCEPT ![p] = NoTx]
    /\ UNCHANGED <<now, dbVars, runs, key, body, served, history>>

-----------------------------------------------------------------------------
\* Mutant of KeysOfLead: the lead is deleted without its keys.
NoKeysOfLead(p) == {}

KeysOfLead(p) == {r \in keys : r.slot[1] = "LEAD" /\ r.result = p}

\* AdminLeadsService.delete: the keys of the lead go in the same transaction.
\* Deleting a lead that is already gone answers NOT_FOUND after the keys went.
DeleteLead(p) ==
    /\ body[p].kind \in {"draftLead", "storedLead"}
    /\ recordedAt[p] # Never
    /\ erasedAt[p] = Never
    /\ keys' = keys \ KeysOfLead(p)
    /\ leads' = {l \in leads : l.id # p}
    /\ erasedAt' = [erasedAt EXCEPT ![p] = now]
    /\ UNCHANGED <<now, latest, versions, retention, lastRun, runs,
                   requestVars, recordedAt>>

\* ProjectsSettingsService.update, as far as the tasks below read it.
ChangeRetention(d) ==
    /\ retention' = d
    /\ UNCHANGED <<now, keys, latest, versions, leads, lastRun, runs,
                   requestVars, history>>

\* MaintenanceRegistry.runDue takes one instant and runs the tasks one by one.
\* The workflow repeats a call it got no answer to, so runs may overlap.
StartMaintenance ==
    /\ Task # {}
    /\ Cardinality(runs) < MaxRuns
    /\ runs' = runs \cup {[at |-> now, left |-> Task, due |-> FALSE]}
    /\ UNCHANGED <<now, dbVars, requestVars, history>>

\* Task t of run m is over; the run ends with its last task.
TaskEnds(m, t) ==
    runs' = (runs \ {m}) \cup
                IF m.left = {t} THEN {}
                ELSE {[m EXCEPT !.left = @ \ {t}, !.due = FALSE]}

RetentionDue(m) == lastRun = Never \/ m.at - lastRun > RetentionInterval

\* LeadRetentionTask.isDue
CheckRetention(m) ==
    /\ "lead-retention" \in m.left
    /\ ~ m.due
    /\ \/ /\ RetentionDue(m)
          /\ runs' = (runs \ {m}) \cup {[m EXCEPT !.due = TRUE]}
       \/ /\ ~ RetentionDue(m)
          /\ TaskEnds(m, "lead-retention")
    /\ UNCHANGED <<now, dbVars, requestVars, history>>

\* Mutant of RetentionCutoff: counts the day of the run as the first day.
RetentionCutoffTooLate(m) == m.at - (retention - 1) * Day

RetentionCutoff(m) == m.at - retention * Day

\* The transaction of LeadRetentionTask.run
RunRetention(m) ==
    /\ m.due
    /\ TaskEnds(m, "lead-retention")
    /\ leads' = {l \in leads : l.createdAt >= RetentionCutoff(m)}
    /\ lastRun' = m.at
    /\ UNCHANGED <<now, keys, latest, versions, retention, requestVars, history>>

\* IdempotencyKeysCleanupTask.run
RunCleanup(m) ==
    /\ "idempotency-keys-cleanup" \in m.left
    /\ ~ m.due
    /\ TaskEnds(m, "idempotency-keys-cleanup")
    /\ keys' = {r \in keys : ~ Expired(r, m.at)}
    /\ UNCHANGED <<now, latest, versions, leads, retention, lastRun, requestVars, history>>

\* MaintenanceRegistry.runTask isolates a failing task: the next one still runs.
TaskFails(m, t) ==
    /\ t \in m.left
    /\ m.due => t = "lead-retention"
    /\ TaskEnds(m, t)
    /\ UNCHANGED <<now, dbVars, requestVars, history>>

\* MaintenanceRegistry.runTask
RunStep(m) == CheckRetention(m) \/ RunRetention(m) \/ RunCleanup(m)
                 \/ \E t \in Task : TaskFails(m, t)

\* Time passes, but no transaction outlives its timeout.
Tick ==
    /\ now < MaxTime
    /\ \A p \in Request : pc[p] \in {"record", "commit"} => now - tx[p].startedAt < TxTimeout
    /\ now' = now + 1
    /\ UNCHANGED <<dbVars, runs, requestVars, history>>

-----------------------------------------------------------------------------
Step(p) == Prepare(p) \/ Write(p) \/ Record(p) \/ Commit(p)
              \/ FindWinner(p) \/ Replay(p) \/ Respond(p)

Next ==
    \/ \E p \in Request : LookUp(p) \/ Step(p) \/ Lose(p) \/ DeleteLead(p)
    \/ \E d \in RetentionDays : ChangeRetention(d)
    \/ StartMaintenance
    \/ \E m \in runs : RunStep(m)
    \/ Tick

Spec == Init /\ [][Next]_vars

\* A request the server accepted is worked on until it is answered or lost.
FairSpec == Spec /\ \A p \in Request : WF_vars(Step(p))

-----------------------------------------------------------------------------
TypeOK ==
    /\ now \in Nat
    /\ keys \subseteq Row
    /\ latest \in [CalcId -> Nat]
    /\ versions \subseteq Version
    /\ leads \subseteq Lead
    /\ retention \in RetentionDays
    /\ lastRun \in Nat \cup {Never}
    /\ runs \subseteq Run
    /\ pc \in [Request -> Where]
    /\ key \in [Request -> Key \cup {NoKey}]
    /\ body \in [Request -> Body]
    /\ served \in [Request -> Request \cup {Nobody}]
    /\ tx \in [Request -> Tx]
    /\ answer \in [Request -> Answer]
    /\ recordedAt \in [Request -> Nat \cup {Never}]
    /\ erasedAt \in [Request -> Nat \cup {Never}]

\* Whatever the interleaving of lookups and transactions, two requests with the
\* same scope and key both take effect only when the key was forgotten between
\* them: the first effect is older than the time to live, or its lead was
\* deleted by an administrator.
OneEffectPerKey ==
    \A p, q \in Request :
        /\ p # q
        /\ recordedAt[p] # Never
        /\ recordedAt[q] # Never
        /\ SlotOf(p) = SlotOf(q)
        /\ recordedAt[p] <= recordedAt[q]
        => \/ recordedAt[q] - recordedAt[p] > Ttl
           \/ erasedAt[p] # Never /\ erasedAt[p] <= recordedAt[q]
           \/ erasedAt[q] # Never /\ erasedAt[q] <= recordedAt[p]

\* A key that still answers points at something: neither the lead retention,
\* nor the cleanup of keys, nor the deletion of a lead leaves a live key whose
\* replay would find nothing.
LiveKeyResolves ==
    \A r \in keys : ~ Expired(r, now) =>
        /\ r.body.kind \in {"draftLead", "storedLead"} => \E l \in leads : l.id = r.result
        /\ r.body.kind \in {"save", "recalculate"} => \E v \in versions : v.id = r.result

\* Parallel recalculations number the versions of a calculation 1, 2, 3, ...
\* without gap or repetition, up to latest_version_number, and a lead never
\* refers to a version that is not there.
VersionsContiguous ==
    /\ \A c \in CalcId : {v.number : v \in VersionsOf(c)} = 1 .. latest[c]
    /\ \A v, w \in versions : v.calc = w.calc /\ v.number = w.number => v = w
    /\ \A l \in leads : \E v \in versions : v.id = l.version

\* A repeat tells the client what the first answer told: the same record, for
\* the same body, with the sibling versions there were then, even when the
\* calculation has been recalculated since.
RepeatsAgree ==
    \A p, q \in Request :
        /\ answer[p].status = "ok"
        /\ answer[q].status = "ok"
        /\ served[p] = served[q]
        => /\ SlotOf(p) = SlotOf(q)
           /\ body[p] = body[q]
           /\ answer[p].versions = answer[q].versions

\* README, Idempotency: a repeat with the same key and body returns the original
\* result.  It does not fail, unless an administrator deleted the lead.
RepeatsSucceed ==
    \A p \in Request :
        served[p] # Nobody /\ answer[p].status = "FAILED"
            => \/ erasedAt[served[p]] # Never
               \/ now - recordedAt[served[p]] > Ttl

\* The ledger of the store is the table without the rows that are too old; the
\* decision about a request is whose effect answers it, or its error.
Ledger ==
    {[slot |-> r.slot, body |-> r.body, result |-> r.result] :
        r \in {x \in keys : ~ Expired(x, now)}}

Decision ==
    [p \in Request |->
        IF served[p] # Nobody THEN served[p]
        ELSE IF answer[p].status = "none" THEN "pending"
        ELSE IF answer[p].status = "KEY_REUSED" THEN "reused"
        ELSE "failed"]

Store == INSTANCE IdempotentStore
            WITH slot <- [p \in Request |-> SlotOf(p)],
                 ledger <- Ledger, decision <- Decision,
                 Pending <- "pending", Reused <- "reused", Failed <- "failed"

\* Two lookups, a transaction that may collide and a second lookup behave like
\* one atomic ledger: a request performs when its key is unknown, repeats what
\* is remembered for the same body, is refused for another body, or fails.
StoreSpec == Store!Spec

\* Every accepted request is answered or lost: neither waiting for a calculation,
\* nor waiting for another's key with a calculation locked, nor a conflict on a
\* key holds a request up for ever.
RequestsEnd == \A p \in Request : pc[p] # "idle" ~> pc[p] = "done"
=============================================================================
