# RoomWise API: a formal model

This directory is a TLA+ development of the backend in `src/`: modules that
model its stateful parts, TLC configurations that check them on small
instances, and TLAPS proofs that hold for every instance. Paths below are
relative to `src/apps/api/src/` unless they begin with `src/`.

The API is one NestJS process (two while a deployment rolls over) in front of
PostgreSQL through Prisma. Node runs one callback at a time, so processes
interleave at every `await`; the database interleaves transactions at READ
COMMITTED. There is no scheduler: a GitHub workflow calls the maintenance
endpoint once a day at 01:30 UTC (`src/.github/workflows/maintenance.yml`).

## The parts of the system

| Component | State | Operations | Hard behaviour | What makes it correct |
|---|---|---|---|---|
| Idempotent public writes (`modules/projects/idempotency`) | table `idempotency_keys` | look up, record at the end of the transaction, find the winner, replay | two requests with one key; keys that expire while a request runs; lost answers | one effect per key; a repeat gets the first answer; another body is refused |
| Calculations (`modules/projects/calculations`) | `calculations`, `calculation_versions` | save, recalculate | parallel recalculations behind a row lock; answers read after the commit | versions 1, 2, 3, ... without gaps; old answers do not change |
| Leads (`modules/projects/leads`) | `leads`, status history | submit, replay, delete, change status | deletion and retention against repeats; two administrators | a live key finds its lead; the history is a chain |
| Settings and maintenance (`modules/projects/settings`, `.../maintenance`, `common/maintenance`) | `projects_settings`, one instant per run | update; lead retention; key cleanup | a shared `now`; tasks that fail alone | nothing that still answers is deleted |
| Pricing data (`modules/pricing/pricing-data`) | memory: `cached`, `pending`, `generation` | `get`, `build`, `invalidate` | parallel reads torn by a commit; a build superseded while it runs; failing builds | data at least as new as the last announcement; a cache that is right once all is announced |
| Price status (`.../price-status.service.ts`) | bounded memory cache | `current` | an entry computed from other data than its key says | an entry tells the difference to the data it names |
| Sandbox reset (`modules/sandbox`) | row `sandbox_state`, memory: `cachedNextResetAt`, `inFlightReset` | ask, claim, reset, record, catch up | expiring lock without fencing; crashes; writes that fail after the commit | one reset at a time, once a day, always in the end |
| Coefficients and rules (`modules/pricing/coefficients`, `.../rules`) | `coefficients`, `pricing_rules` | create, update, delete, reorder, reset | two kinds of row locks taken in two orders; resets in between | every formula refers to a coefficient that exists |
| Catalog (`modules/catalog`: products, categories, options, styles, rooms, engineering, material types) | catalog tables, revisions | CRUD, publish, reorder | checks made before the update; unique sort orders | what is published is complete; orders are permutations |
| Public catalog cache (`modules/catalog/public`) | memory: entries with a time to live | `getOrLoad`, `invalidate` | shared loads against invalidation and time | no entry older than the last announcement |
| Exchange rate (`modules/pricing/exchange-rate`) | `exchange_rates`, `pricing_settings`, memory: `checkedUntil`, the fetch in flight | refresh, set and clear a manual rate, daily task | back-off, overlapping refreshes | one rate per day; a failure does not stop refreshes for ever |
| Authentication (`modules/auth`) | `admins`, `admin_sessions` | log in, log out, change the password | attempts counted in parallel | the limit on attempts; sessions end |
| Images (`modules/catalog/images`) | `images`, an external store | upload | two stores, no transaction | a row has a file |
| Calculation engine (`src/packages/calc-engine`) | none | estimate, parse, evaluate, validate | rounding, boundaries, rule order | totals add up; a formula that validates evaluates |

They interact as follows. The public controllers go through the interceptor to
the services, which write in one transaction that ends with the key's row.
Saving and recalculating read the pricing data (memory) and the catalog (tables).
A change in the administration commits first and is announced afterwards,
through `CatalogChangeInterceptor` and its notifier or through the service
itself, to the two caches. The sandbox replaces catalog and pricing tables in
one transaction and announces after it. A maintenance run takes one instant and
runs its tasks one by one; the workflow gives up after 90 seconds and calls
again, so runs can overlap.

## What is modelled now

### `ProjectWrites`: the public writes and what erases them

| Model | Code |
|---|---|
| `keys`, `versions`, `leads`, `latest`, `retention`, `lastRun` | the tables and columns of `prisma/schema.prisma` |
| `pc[p]` | where request `p` is between two awaits |
| `tx[p]` | what the open transaction of `p` has read or locked and not committed |
| `served[p]`, `answer[p]` | whose effect the response describes, and the response |
| `recordedAt`, `erasedAt` | history: when a committed request recorded its key, when its lead was erased by hand; `DeleteLead` reads both to be called for a lead that was there, once |
| `LookUp` | `IdempotencyInterceptor.intercept`, first look |
| `Prepare` | reads before the transaction (`prepareNew`, `findStoredVersion`, the base and the snapshot of a recalculation), each of which may fail |
| `Write` | first statements of the transaction; `SELECT ... FOR UPDATE` for a recalculation |
| `Record` | `IdempotencyService.record`, the last statement: it waits for an uncommitted row of the slot, then collides or inserts |
| `Commit` | the end of `$transaction`: all rows become visible |
| `FindWinner` | `catchError` after `IDEMPOTENCY_KEY_CONFLICT` |
| `Replay`, `Respond` | the loaders, and the response of a first attempt |
| `Lose` | crash, broken connection, transaction timeout, also while waiting for a lock: the client learns nothing |
| `DeleteLead`, `ChangeRetention` | `AdminLeadsService.delete`, `ProjectsSettingsService.update` |
| `runs` | the calls of `MaintenanceRegistry.runDue` under way: their `now`, the tasks left, whether `isDue` has answered |
| `StartMaintenance`, `CheckRetention`, `RunRetention`, `RunCleanup`, `TaskFails` | `runDue`, `runTask` and the two tasks |

A request is also the name of what it creates. A body stands for the hashed part
of a request, so the hash is taken to be injective. A request is either a first
attempt or a repeat: a client that tries again is another request with the same
key.

A transaction can wait for two things, and the model has both. `Write` of a
recalculation waits while another holds the row of the calculation (`Holds`, from
`Write` to the end of the transaction), and has locked nothing yet. `Record` waits
while a row of its slot is inserted and not committed (`HoldsKey`), and a
recalculation still holds its calculation then. Who holds a key waits for nothing
any more, so the two never form a circle: `RequestsEnd` checks it, since no action
that could break one (`Lose`, the clock) is fair. What `Record` finds after the wait
is a committed row, and it collides, or none, and it inserts. Nothing is visible
before `Commit`. The tasks of
a maintenance run are taken in any order, since the code takes them in the order
in which they are discovered; `MaxRuns` bounds how many runs overlap and
`MaxTime` bounds the clock.

`IdempotentStore` is the abstract specification: a ledger and one atomic
decision per request (perform, repeat, refuse, fail), and entries that are
forgotten. `ProjectWrites` implements it (`StoreSpec`) with the ledger taken as
the rows that are young enough to answer, and the decision as `served` or the
error. `LookUp` and `FindWinner` are Repeat, Refuse or Fail; `Commit` is
Perform; time, cleanup and deletions are Forget; all else stutters.

### `PricingDataCache`: the data prices are computed from

A table is represented by the number of its changes. Each call of `get` is an
element of `Reader`; a build carries the name of the call that began it.
`Hit`, `Join`, `Begin` are the three ways through `get`; `Read` answers one of
the parallel queries; `Finish` and `Fail` settle the promise, with all calls
that wait for it. `Commit` changes some tables in one transaction; `Announce`
is `invalidate`; `StaySilent` is a handler that fails after its commit.
The dependencies of `get` are read without any transaction, which the model
keeps: a build may hold tables from both sides of a commit. What it may not do
is stay in the cache (`SettledCache`).

Abstractions: one process (each has its own cache, and no announcement reaches
the other process of a rolling deployment); a build that fails validation is a
build that fails; promise callbacks that run in the same turn are one step.

### `SandboxReset`: the daily reset

`next` and `lock` are the columns of `sandbox_state`, `cached[i]` is a process's
`cachedNextResetAt`, `pc[i]` and `age[i]` its reset in flight and the age of its
`now`. Instants are kept relative to the clock and clipped where no comparison
can tell the difference, so the state space is finite without a bound on time.
`Claim` is the conditional update; `Commit` and `Abort` the transaction,
including the lost acknowledgement of a commit; `RecordSuccess` and
`RecordFailure` have an outcome for every write that can fail; `Crash` can
happen at any point. `Refresh`, `AskByMaintenance` and `CatchUp` are the callers.

Abstractions: a day has a fixed length (`Period`); `Lag` bounds the delay
between reading the clock and the claim, and between the end of the transaction
and the record of its result. The code does not enforce that second bound: it is
an assumption about the environment, named in `TimeAssumption` and
`LeaseAssumption`. When a process dies, its transaction is taken to be rolled
back at once. The relation of the real constants (lock 600 s, transaction
30 s + 120 s, retry, one day) satisfies the assumptions with room to spare.

### `Coefficients`: keys that formulas mention

| Model | Code |
|---|---|
| `coefficients`, `rules`, `options` | the three tables; nothing in the schema ties a mentioned key to its row |
| `req[q]` | a request: the form, the rows it read, the rows it holds FOR SHARE or FOR UPDATE |
| `reset` | the transaction of the sandbox reset: what it deleted, what was written meanwhile |
| `SelectForShare`, `LockForShare`, `NoKeyFound` | `assertFormulasValid` and its lock (`rules.service.ts`, `options.service.ts`) |
| `LockForUpdate`, `CheckUnused`, `UpdateCoefficient`, `RemoveCoefficient` | `coefficients.service.ts` |
| `DeleteOptions` ... `ResetCommits` | the participants of the reset in their order, statement by statement |
| `Expire` | a transaction that times out, loses its connection or a deadlock |

A SELECT under READ COMMITTED takes its snapshot first and then locks row by
row; a row it had to wait for is looked at again. The model keeps these two
steps. A row the reset has deleted and not committed blocks whoever writes it.
`DeleteRules` is the end of one statement of the reset and the snapshot of the next:
what is committed between them counts as written while the reset was open. Any
option may be removed; the code protects one by its code, so the model has more
behaviours.
`reset.late` holds what was written while the reset was open: such rows survive
it, and `UsedKeysExist` and `ResetDiscards` say exactly this.

### `CatalogPublication`: publication against edits

Five kinds of rows (`table`; a room type has its categories as a function from
category to place), the default materials of styles (`defaults`) and requests that go `Submit` (the form, with its revision), `ReadRow`, `Check` (the
checks before the write, outside of any transaction) and `Create`, `Edit`,
`ReplaceCategories`, `UpdateDefaults` or `Delete` (the compare-and-set of
`common/concurrency/revision.ts`). `Upsert` is the seed, `Replace` the reset, each
as one step; that a reset leaves rows written meanwhile is checked in
`Coefficients`. `DatasetValid` is what the dataset's schema accepts, `IsOperation`
what the forms accept: the instance is one such dataset and one such list of
operations, the proofs are about all of them. The places of categories are
written in one step: the steps in between are inside a transaction and only there
to satisfy the unique constraint. `Rows` has the helpers for records with an id. `CategoriesShown`, `ProductsListed`, `HasPage` and
`DefaultsOffered` are the queries of `public-catalog.service.ts` on one snapshot.

The code does not promise that a published product always has the surface data of
its category: two requests that each check before the other writes can break it
(write skew), and the seed may bring it about for rows administrators added; the
public catalog then answers `surface: null`, which
`public-catalog.service.test.ts:512` expects of such a product. No property rules
that skew out. `RulesKept` says that the checks are the right ones and speaks of a
request that nobody overtakes; `PublishedComplete`, about one row and its revision,
has no such exception.

### `Formula`, `Estimate`, `RuleEditing`, `SavedEstimates`: from a formula to a saved price

`Formula` has the trees the parser admits, the static check and the evaluation;
`Estimate` the lines of every section, shared surfaces and their preparation,
totals and conversion, and the checks of `pricing-estimate.service.ts`;
`RuleEditing` which rules the API accepts and what the preview shows. These are
operators. `SavedEstimates` puts them in time: administrators save and patch
rules and change the catalog, visitors save, recalculate and ask whether prices
still hold.

| Model | Code |
|---|---|
| `catalog`, `cached` | the database's pricing, and the one `PricingDataService` answers with |
| `versions` | stored snapshots, with what they were calculated from |
| `statuses` | the cache of `PriceStatusService`, least recently used first |
| `asked`, `answer` | a price status between its `await`s, and the response |

Abstractions: a number is a multiple of 1/1000 (`Scale`) below `MaxNumber`; a
formula is its tree, at most `MaxDepth` deep (4; the code 32) with `MaxNodes`
nodes (14; 200); `MaxLineCents` is 40,000 and the cache holds one entry (the code
1,000), so that limits are met. The content hash is injective. Suggestions,
texts, languages and the resolution of a style are left out. What walks a tree is
a recursive function on `Trees`, the trees that are written: a value at a node from
the values at the nodes below (`InferNode`, `WalkNode`), as the code's `infer` and
`walk` call themselves. Two string literals that meet in a comparison of
conditionals pass the static check and fail in the evaluation (`StrayString`);
`AcceptedRulesEvaluate` excepts the estimates of a pricing with such a rule. A first save that
races the deletion of what it chose stores no name for it (`snapshot.builder.ts` reads
the names after an `await`, `Snapshot` with the estimate): `SelectionsKept` speaks
of names the base version had. The length of a formula's text has no counterpart in
a tree.

### `OrderedLists`, `ExchangeRate`, `LeadWorkflow`, `Accounts`: the back office

`OrderedLists`: options of two kinds, the engineering package and the styles, each
a list under a unique constraint on its order. An edit is `OpenEdit`, `ReadItem`,
then `InsertItem` (with `PlanOrder` and one `TryAgain`), `UpdateItem`, `RemoveItem`,
or `CheckReorder` and `Reorder`, or `ReorderDeadlock`. Fields that a patch leaves out
are completed from the row read before the write, as the services do (`Complete`),
and `Written` is what the update then stores. Each list has its own routes: an
edit is opened on a row of the list it is for (`Fits`). The seed writes its rows
with a revision of its own, so that no form opened before it is current after it.

`ExchangeRate`: per process a fetch in flight (`fetch`), a request's check (`check`)
and `checkedUntil`; in the database the latest official rate and the times of
success and attempt. `FetchUsdRate`, `StoreQuote`, `FetchFails` are the stages of
`fetchAndStore`; `MaintainRate` is the daily task, `RestartRates` a new process. The
writers of the manual rate run in transactions that lock the settings row. The
value of a rate, its announcement and older rows are left out; two inserts for one
day are a fetch that fails; the outcome of a fetch and `checkedUntil` are recorded in
one step, and `isRefreshDue` is answered as the refresh begins. `Slack`, by which
`RatesSound` lets the two differ, covers what passes in between.

`LeadWorkflow`: `OpenLead` (the form), `ReadLead`, `WriteStatus` with the revision and
the row of the history in one transaction, `AddNote`, `DeleteLead`. A revision is the
name of the change that gave it.

`Accounts`: an attempt is sent, reserved by one UPDATE (`ReserveAttempt`), compared,
and, if right, clears the counter; a session is read, validated, marked at most
once in `Throttle`, expired, logged out; the clock is read with the session. The two share the clock only. `counted` and
`used` are history. `Delay` bounds the time a request takes: the lockout of the code is as exact as the
clock reading it was sent with. Of a limit of one attempt the model makes nothing: a
lockout that ends has already counted one (`AccountLimits`; the code's limit is 5).

## What the runs check

| Run | Instance | Shows |
|---|---|---|
| `ProjectWritesRaces` | 3 requests, 2 keys, 4 bodies on 1 saved calculation, times 0..2, key lifetime 1 | `OneEffectPerKey`, `VersionsContiguous`, `RepeatsAgree`, `StoreSpec` |
| `ProjectWritesLifetime` | 2 lead requests, 1 key, times 0..3, retention 2 or 3 days, both tasks, one maintenance run at a time | `TypeOK`, `RepeatsSucceed` |
| `ProjectWritesOverlap` | 1 request of any kind, else the same, two maintenance runs at a time | `LiveKeyResolves` |
| `ProjectWritesProgress` | 2 requests, 2 keys, 2 saved calculations, fair steps | `RequestsEnd` |
| `ProjectWritesOneDay` | as Lifetime, retention 1 day | a counterexample to `RepeatsSucceed` |
| `PricingDataCache` | 3 calls, 2 transactions that touch both of 2 tables | `TypeOK`, `FreshAnswers`, `SettledCache`, `PendingRuns`, `CallsEnd` |
| `SandboxReset` | 2 processes, day 8, lock 4, retry 5, transaction 2, lag 1 | `TypeOK`, `OwnLock`, `ResetsExclude`, `OncePerDay`, `DueResets` |
| `Coefficients` | 3 requests, 2 keys, a dataset of one coefficient, rule and option, one reset | `TypeOK`, `UsedKeysExist`, `ResetDiscards`, `NoLostUpdate` |
| `CatalogPublication` | 2 requests, 2 products, 3 categories, two of them of the one room type, one row of each other kind, one seed and one reset | `TypeOK`, `PublishedComplete`, `VisitorsCanFollow`, `RulesKept`, `NoLostUpdate` |
| `CatalogTranslations` | the same | a counterexample to `TranslationsPublished` |
| `SavedEstimates` | 5 datasets, rules and configurations of one or two rooms, 2 versions, 2 changes, a cache of one | `TypeOK`, `AcceptedRulesEvaluate`, `AcceptedRulesParse`, `PreparationOnce`, `TotalsAddUp`, `PreviewAgrees`, `SelectionsKept`, `PriceStatusTruthful` |
| `BackOffice` | lists: 3 editors and one seeding; rates: 2 processes, horizon 5; manual rates: 3 writers; leads: 1 lead, 3 changes, 1 note; lockout: 4 attempts, limit 2; sessions: 3 requests, 1 session | `ItemsPriced`, `ReorderKept`, `RatesSound`, `HistoryChains`, `AccessSound` |

Why these bounds. The races need two requests on one key and a third whose
effect comes between (a version added between an answer and its repeat, a base
that exists only after another recalculation, a key reused for another body). A
key lifetime of 1 with a clock up to 2 lets a key expire while a request is
between its lookup and its record, or be one tick short of it. In
`ProjectWritesProgress` the requests may recalculate one calculation, where one waits
for the row, or two calculations under one key, where one waits for the key while it
holds a row. The retention
runs need a tick more than the retention, for a lead to become old and a run of
the maintenance to be older than the clock; overlapping runs multiply the
states, so they get a run with a single request. Three calls of `get` are the build,
one that joins it and one that begins another after an announcement; two
transactions let one be announced while the other is not. In `SandboxReset`
nothing but the number of processes and the lengths is bounded; the lock is the
shortest the assumption allows (4 = 2 * 1 + 2), so that it does get taken over
while a slow reset is about to be recorded.

In `Coefficients`, three requests are what a broken lock needs: one that removes
a coefficient, one that saves a formula, and one that made the coefficient. In
`CatalogPublication` two requests with different first reads and writes, and the
two steps of the dataset between them, are enough for every check that precedes
its write; all pairs of a list of some thirty operations are tried.
`SavedEstimates` varies data rather than interleavings: the datasets differ in
what a later version can stumble over (a deleted product, a new rate, a missing
rule, a price beyond the limit), and a version made from a version made from a
version adds nothing, since a version refers to its base only. `BackOffice` is a
union: `part` is chosen at the start, the parts share no state and do not
multiply. Its lengths are the smallest with the relations of the code's (retry
before day, day before staleness, throttle before inactivity before the end of a
session); four attempts are two more than the limit, so that a lockout ends and
begins again.

Symmetry (requests, keys, attempts and the like) is used in runs without liveness only. Deadlock is not
checked: requests, calls and changes are used up, and the database may be quiet.

Each property has a mutant, a plausible bug in the code it is about, defined in
the module just before the definition it replaces; the run with the mutant ends
in a violation of the property. `PROJECT.json` lists them.

### Fairness

- `ProjectWrites`: weak fairness of each request's own steps. A handler that
  was called is continued by the event loop; a query ends or fails. Lookup (the
  arrival of a request), administrators, tasks and time have none.
- `PricingDataCache`: weak fairness of `Build`: a query is answered or fails.
  Nothing obliges a query to succeed.
- `SandboxReset`: time passes; started steps go on; the maintenance is called
  again and again (the daily workflow); and, strongly fair, not every claim and
  not every transaction is lost to failures and crashes. The last is what "in
  the end" needs: the code retries, it cannot make the database work.

The newer modules have safety properties only: a request that is refused or fails
is sent again by a person, and the refresh of the rate depends on the bank.

### Divergences between documentation and code

`src/README.md:109-111` says that a repeat within 24 hours returns the original
result. With `leadRetentionDays = 1`, which the settings accept, the lead (older
than its key by the time between two inserts of one transaction) can be deleted
while the key still answers, and the repeat ends in an unexpected error.
`ProjectWritesOneDay` shows it. The window is milliseconds in practice; a tick
of the model makes it look longer. From two days on, `LiveKeyResolves` and
`RepeatsSucceed` hold, and are proved.

`src/README.md:31-33` names "the check that blocks publishing content missing a
translation". `CategoriesService.update` (`categories.service.ts:94`) writes the
name of a published category without it, unlike the services of styles, products
and material types. `CatalogTranslations` shows a category published with its
translations and patched to one without.

## What is proved

All proofs are checked by TLAPS for every value of the constants that satisfies
the named assumptions.

| Theorem | Says | Argument |
|---|---|---|
| `TypeCorrect` (`ProjectWritesProofs`) | `Spec => []TypeOK` | `TypeInv`: types, a request past its lookup has a key, a transaction that adds a version or lead holds its version |
| `EffectOnce` | `Spec => []OneEffectPerKey` | `EffectInv`: effects and maintenance runs began in the past, rows belong to effects, and an effect that is young and not erased still has its row (`Remembered`), of which there is one per slot (`SlotUnique`). `Record` then collides with it; from the insert to the commit nobody else inserts a row of the slot (`KeyHeld`) |
| `StoreImplemented` | `Spec => StoreSpec` | `StoreInv` adds that a request is decided exactly from its answer on, and that what was too old at the insert still is at the commit, a transaction later at most (`TxYoung`); every action maps to one of the store or to a stutter |
| `NumbersContiguous` | `Spec => []VersionsContiguous` | `NumberInv`: a recalculation alone holds the row of its calculation from the read of the number to the commit, so that stays the next number (`LockHeld`); a new calculation begins at 1, and a lead is handed a version that is there (`VersionKnown`) |
| `AnswersAgree` | `Spec => []RepeatsAgree` | `RepeatInv`: who serves a request has committed the same body under the same key (`ServedSound`), and what a client is shown depends only on the version that serves it (`AnswerSound`), which no later step changes (`VersionKept`) |
| `LiveKeysResolve` | `LongRetention` implies `Spec => []LiveKeyResolves` | `LiveKeyInv`: a key is at most a transaction younger than its lead (`TxYoung`, `LeadsKept`), so a retention that covers the time to live and a transaction deletes a lead only when its key no longer answers |
| `RepeatsAnswered` | `LongRetention` implies `Spec => []RepeatsSucceed` | `SucceedInv`: a repeat that finds its key finds its row, or the row was deleted by hand or the key has expired since (`ExcuseStays`) |
| `CacheTypes` (`PricingDataCacheProofs`) | `Spec => []TypeOK` | part of `CacheInv` |
| `AnswersAreFresh` | `Spec => []FreshAnswers` | `CacheInv`: a build of the present generation has read nothing older than the last announcement, and every build nothing older than what its waiting calls knew |
| `CacheSettles` | `Spec => []SettledCache` | what is cached lies between the last announcement and the database |
| `PendingIsCurrent` | `Spec => []PendingRuns` | part of the same invariant |
| `ResetTypes` (`SandboxResetProofs`) | `Spec => []TypeOK` | with `AgeBound`, the age each stage may reach |
| `LockIsKept` | `Spec => []OwnLock` | `LockInv`: a running reset's lock is as old as its `now`, hence younger than the timeout (`ClaimAlone`), so nobody takes it over |
| `OneResetAtATime` | `Spec => []ResetsExclude` | the same lemma |
| `NoSecondReset` | `Spec => []OncePerDay` | `DayDone`: while the day is done, `next` is the next reset time and nobody is inside a reset |
| `HistoryIsAChain` (`BackOfficeProofs`) | `LeadsSpec => []HistoryChains` | `LeadInv`: a revision is in use only after the change that gave it (`RevisionsMade`), so who finds the revision it saw finds the status it saw (`StatusSeen`) and appends the right row |
| `RatesAreSound` (`BackOfficeProofs`) | `RatesSpec => []RatesSound` | `RefreshInv`: what is in flight is recent, quotes and official rates are of days they could be of, and every `checkedUntil` is justified by the official rate or the last attempt (`ChecksJustified`); `ManualInv`: who is in a transaction alone holds the settings row |
| `AccessIsSound` (`BackOfficeProofs`) | `AccountsSpec => []AccessSound` | `LockoutInv`: the attempts counted since a lockout came after it (`SinceLockout`, `LockedLongEnough`); `SessionInv`: a session is marked with its last use or little less, also in the copy a request holds (`RowStands`) |
| `KeysExist` (`CoefficientsProofs`) | `Spec => []UsedKeysExist` | `KeysInv`: rows locked for update are locked by nobody else (`LocksApart`), exist and are not deleted (`LocksStand`); so no save that holds a key FOR SHARE can bring a user of it after the check that found none (`StillUnused`); an option that still has its revision still has its keys (`TargetStands`) |
| `ResetsDiscard` | `Spec => ResetDiscards` | `DeletesStand` of the same invariant: once a table's DELETE has run, each of its rows is deleted or was written since |
| `UpdatesKept` | `Spec => NoLostUpdate` | `UpdatesInv`: a revision is in use only after the request that gave it (`Mark`), so the row prepared agrees with a rule that has the revision the form was made for (`UpdateStands`) |
| `RowsAreSound` | `Spec => []TypeOK` | `TypesInv`: the slot of a rule is part of its id (`RuleTyped`), so the row an update writes has the slot of the row it replaces; what a request has read and prepared is typed like what it will write (`RequestTyped`) |
| `IndexesHold` (`CatalogPublicationProofs`) | `Spec => []TypeOK` | `ReadInv`: the indexes and foreign keys (`Sound`), revisions and ids that bear the name of what wrote them (`NamesStand`), and for each request that a row with the id and the revision of its form is the row it read (`Stands`) |
| `NoChangeLost` | `Spec => NoLostUpdate` | `Stands`: what the compared write finds is what the form was opened on |
| `LinksLead` | `Spec => []VisitorsCanFollow` | from `Sound`, by the queries: counting the products of a category by its list or by their pages gives the same set |
| `PublishedStaysComplete` | `StylesPictured` implies `Spec => []PublishedComplete` | `ContentInv`: what the checks found about the content a request is to publish (`Cleared`) holds of the row it then writes, as `Stands` says that is the row they read |
| `UncontestedKeepsRules` | `Spec => RulesKept` | `RulesInv`: while nothing has been written since a request read, what it read and concluded is so (`Undisturbed`); then each check is the case analysis of its write |
| `PricesAlwaysUsable` (`BackOfficeProofs`) | `ListsSpec => []ItemsPriced` | `ListsInv`: rows of one id and one revision cost the same, though a reorder writes rows without a new revision (`RevisionsTell`), so the fields completed from the row that was read are right for the row that is written (`RequestsSound`) |
| `ReordersHold` | `ListsSpec => ReorderKept` | orders are never below nought (`SeenSound`) and a reorder names an item once, so the items named take the first places, and `Unique` keeps an option that came in between off them |
| `TypeCorrect` (`SavedEstimatesProofs`) | `Spec => []TypeOK` | `Inv`: every version is what the calculation makes, once more, of its configuration, its pricing and the options it already has (`VersionInv`), so facts about versions are facts about `Recalculated`, for any dataset, configuration and rules (`Sound`: no line is below zero or above the limit) |
| `RecalculationKeepsSelections` | `Spec => []SelectionsKept` | from `Inv`: an option that was deleted gets its place back before the estimate is made (`WithPlaces`), and every selection has a line, whatever becomes of it (`Keeps`) |
| `StatusesAreTruthful` | `Spec => []PriceStatusTruthful` | `StatusesInv`: an entry of the cache is the status (`StatusOf`) of the version and pricing of its key; room types are never created or deleted, so a version can be priced again under any pricing and the two keys of the cache, the one looked up and the one evaluated, never name different comparisons |
| `TotalsAreSound` | `Spec => []TotalsAddUp` | every line is of one of the five sections; sums over a filtered sequence split (`SumAmong`); each line is rounded by half a kopeck at most (`Close`) |
| `SurfacesArePreparedOnce` | `Spec => []PreparationOnce` | the lines priced on a surface are fixed before any is prepared (`CarrierAt`); the carrier is the least of them, and all of them fail when the preparation does (`LinePrepared`) |
| `PreviewsAgree` | `Spec => []PreviewAgrees` | the rule of a line is found again by its id (`RuleTyped`, ids are unique); with the sample of the line the preview's variables are those of the estimate if the line covers its surface alone (`SampleMaterial`); its preparation is in neither amount (`OfKind`) |
| `AcceptedRulesAreParsed` | `Spec => []AcceptedRulesParse` | `CatalogInv`: a saved rule has no issue of shape; a patch leaves its level and target alone |
| `SoundFormula` (`FormulaProofs`) | of a formula the check accepts for a rule: its value in a scope that holds what the rule knows is a number that is not negative, or a failure for its numbers | `Evaluates`, by induction over the tree: what the check accepts has a value of its type (below) |
| `AcceptedRulesAreSound` | `Spec => []AcceptedRulesEvaluate` | `AcceptedInv`: a saved rule was accepted with keys that are still there; each line gives its formulas a scope that holds what the rule knows; then `SoundFormula` |

None of the invariants is inductive alone. `OneEffectPerKey` speaks of two
effects and says nothing of the row that keeps the second one out; `ResetsExclude`
does not know that a lock is too young to be taken over; `SettledCache` does not
follow the builds that will fill the cache. The strengthenings supply just that.

`UsedKeysExist` does not know who holds which lock or what a check has found.
`HistoryChains` says nothing of a change between its read and its write,
`RefreshNotSuppressed` nothing of a fetch whose result is yet to be stored, and
`LockoutHolds`, which speaks of the past, nothing of the counter.
`VersionsContiguous` does not follow the number a transaction has read,
`LiveKeyResolves` nothing of the age of a lead whose key is yet to be recorded,
`PublishedComplete` nothing of a check that has passed, `ItemsPriced` nothing of
the row that was completed and is yet to be written. `RulesKept`, of single steps,
needs to know that a request nobody has overtaken still sees what it judged.

The properties of `SavedEstimates` look at stored versions and cached statuses and
know nothing of how they came about. `Inv` remembers it: a version is the estimate
of its own configuration under its own pricing, and a status the comparison its key
names. What remains is about the calculation, which no step changes any more. That
an accepted rule still evaluates after the catalog has changed is no fact about the
state either; `AcceptedInv` adds that the keys it was accepted with are there.

`SoundFormula`, and with it `AcceptedRulesAreSound`, is the soundness of a type
checker. A recursive function on trees exists because trees have a depth: it is
built for the trees of depth 0, 1, 2, ... (`UpTo`) and has one value at each
(`Along`), so that `Infer` and `Walk` can be unfolded at a node. By the depth of the
node, then: if the check found no error in a tree and noted no coefficient but those
that are there (`Fits`), a value of the tree is of the inferred type (a name of an
enum variable is inferred only for the variable), or a failure for a number, or the
tree has a stray string (`Evaluates`, `Outcome`). A check with other coefficients
finds the same as long as those it noted are among them, so a rule stays accepted
when the dataset changes. On the other side, each kind of line gives its formulas
all the names of their level, each of its type (`IsScope`, `ScopeFits`), `quantity`
included where it is allowed. The induction is by the least counterexample of a set
of naturals (`Reaches`, from the well-foundedness of <), not by a theorem with an
operator as parameter.

The proofs about `OrderedLists` take the largest of a set of orders, which is a fact
about every finite set: the lemma `Greatest` follows from the well-foundedness of strict
inclusion (a least counterexample), not from an induction theorem with an operator
as parameter.

The assumptions.

- `RateTimes`, `AccountLimits`, `TimeAssumption` and `LeaseAssumption` relate the
  lengths of time and hold of the code's constants (a transaction times out in
  seconds and a key lives for a day, for one). The clocks of `ExchangeRate`,
  `LeadWorkflow` and `Accounts` have a horizon in their guards; the proofs hold for
  every horizon.
- `FreshRevisions`, `RequestNames`, `NamesAssumption` and `RevisionsAssumption` keep
  the names of requests apart from the marks of the dataset: a UUID is new.
- `SeedAssumption` (`Coefficients`) says that the dataset mentions no coefficient it
  does not bring: `pricing-dataset.schema.ts` enforces it for rules, and the options
  in `catalog/dataset/data/options.ts` satisfy it, though no schema asks for it.
- `SeedAssumption` (`CatalogPublication`) is `DatasetValid`, what
  `catalog-dataset.schema.ts` enforces; `OperationsAssumption` and `EditsAssumption`
  say which fields the forms have, as the schemas of the requests do.
- `ItemsAssumption` (`OrderedLists`) is what the same schema enforces, with one
  exception: it does not refuse a price on a package item that is included in the
  base. The items in `catalog/dataset/data/engineering.ts` have none.
- `TreesAssumption` and `DepthAssumption` (`Formula`) say that formulas are trees the
  grammar builds, with all their nodes, and finite. `LimitsAssumption`,
  `MaxLineCentsAssumption` and `BoundsAssumption` say that limits are numbers and the
  cache can hold an entry.
- `SchemasAssumption` (`SavedEstimates`) is what `ConfigurationSchema` and
  `PricingDataSchema` say of the fields an estimate computes with; both are parsed
  before any estimate.
- `RulesAssumption`: the program gives a rule its id and its place, and a form has
  formulas where it can have them. `AcceptanceAssumption`: the rules of a dataset
  were accepted with its coefficients. Every edit is checked
  (`rules.service.ts:344-378`); for the rules that the seed and the reset bring it is
  a test that checks them (`pricing-dataset.schema.test.ts:147`). The coefficients of
  its options are there, as `KeysExist` proves of the tables.
- `RoomTypesAssumption`: room types are renamed and linked to categories; no route
  creates or deletes one, and the seed and the reset only upsert those of the
  dataset. Without it a
  version could be beyond pricing at one moment and not at the next, and a null,
  which is cached under the pricing that was looked up
  (`price-status.service.ts:51-54`), would be wrong about a pricing it was not
  evaluated with.
- `LongRetention` is a hypothesis of two theorems, not of the model: the settings
  accept a retention of one day, and then the two properties fail (see the
  divergences). Every retention from two days on satisfies it.
- `StylesPictured` is a hypothesis of `PublishedStaysComplete`: the dataset's schema
  lets a published style have no image (`imageId` is nullable). The styles in
  `catalog/dataset/data/styles.ts` have one.

Only model-checked: all liveness (`RequestsEnd`, `CallsEnd`, `DueResets`), which is
out of the proof system's reach. Every safety property a run expects to hold is
proved, under the assumptions and the hypotheses named above. What the finite
instances add is that the definitions mean what they should: each property has a
mutant that breaks it, and every action is taken.

The proofs are about the models. A number of the calculation is an integer multiple of
1/`Scale`, for any `Scale`, where the program has floating point: sums of cents are
exact in both, but what the sixteenth digit of a product does is outside of these
proofs.

## What is not modelled

`PROJECT.json` lists each component with the reason, and the hazards no property
covers with a note. Left out are:

- the public catalog's cache: the scheme of `PricingDataCache` with keys and a
  time to live;
- images: an upload to an external store and an insert, without a transaction
  that could promise anything, and the deletion of files after a reset;
- texts: a translation is there or not; formatting, languages, OpenAPI and
  presenters are not followed;
- the settings of projects besides the retention;
- the change of a password against a login under way;
- daylight saving; the skew between clocks of processes and the database;
- throttling (counters of a library), logging, configuration, health, deployment.
