---------------------------- MODULE ExchangeRate ----------------------------
(***************************************************************************)
(* The exchange rate (pricing/exchange-rate): the official one, which each *)
(* process of the API fetches from the National Bank when a visitor finds  *)
(* it stale or the maintenance finds it due, and the manual one, which     *)
(* administrators set and clear and the reset of the sandbox removes.      *)
(*                                                                         *)
(* Hours and days are counted in ticks.  Work in flight is at most Slack   *)
(* ticks old: the request to the bank and the transactions have timeouts.  *)
(* The value of a rate plays no part, so a fetch that changes it and the   *)
(* announcement of the change are not told apart from one that does not.   *)
(***************************************************************************)
EXTENDS Integers, FiniteSets, FiniteSetsExt

CONSTANTS
    RateProcesses,  \* processes of the API
    RateWriters,    \* transactions on the manual rate, at most one each
    RetryAfter,     \* one hour
    DayLength,      \* one day
    StaleAfter,     \* 26 hours
    Slack,          \* how late what was begun may end
    RateHorizon     \* bound of the clock

ASSUME RateTimes ==
    /\ RetryAfter \in Nat /\ DayLength \in Nat \ {0} /\ StaleAfter \in Nat
    /\ Slack \in Nat /\ RateHorizon \in Nat

VARIABLES
    rateClock,
    official,    \* the NBU row of the latest date, and when it was fetched
    nbu,         \* the settings about the bank: last success and last attempt
    fetch,       \* per process: the refresh in flight
    check,       \* per process: the check for staleness in flight
    checkedUntil,\* per process
    lastTry,     \* the latest begin of any refresh (not in the code)
    manualRows,  \* the MANUAL rows
    manualRate,  \* the one the settings point to, if any
    settingsLock,\* the writer that holds the row of the settings, if any
    writer       \* the transactions on the manual rate

refreshVars == <<rateClock, official, nbu, fetch, check,
                 checkedUntil, lastTry>>
manualVars == <<manualRows, manualRate, settingsLock, writer>>
rateVars == <<refreshVars, manualVars>>

Never == -1
Idle == [at |-> "idle"]
Day(t) == t \div DayLength

NoRow == [date |-> Never, fetched |-> Never]

RatesInit ==
    /\ rateClock = 0
    /\ official = NoRow /\ nbu = [success |-> Never, attempt |-> Never]
    /\ fetch = [p \in RateProcesses |-> Idle]
    /\ check = [p \in RateProcesses |-> Idle]
    /\ checkedUntil = [p \in RateProcesses |-> 0]
    /\ lastTry = Never
    /\ manualRows = {} /\ manualRate = {} /\ settingsLock = {}
    /\ writer = [w \in RateWriters |-> Idle]

-----------------------------------------------------------------------------
(* The official rate.                                                      *)

Begun == {fetch[p].now : p \in {q \in RateProcesses : fetch[q] # Idle}} \cup
         {check[p].now : p \in {q \in RateProcesses : check[q] # Idle}}

RateTick ==
    /\ rateClock < RateHorizon
    /\ \A now \in Begun : rateClock < now + Slack
    /\ rateClock' = rateClock + 1
    /\ UNCHANGED <<official, nbu, fetch, check, checkedUntil,
                   lastTry, manualVars>>

\* The bank quotes today's rate and, in the second half of the day, tomorrow's.
QuoteDate(t) == Day(t + DayLength \div 2)

\* A refresh that is in flight is shared, whenever it was begun.
Refresh(p, now) ==
    IF fetch[p] # Idle THEN UNCHANGED <<fetch, lastTry>>
    ELSE /\ fetch' = [fetch EXCEPT ![p] = [at |-> "fetching", now |-> now]]
         /\ lastTry' = Max({lastTry, now})

\* Each reading of the prices asks; nobody waits for the answer.
RequestRefreshIfStale(p) ==
    /\ check[p] = Idle /\ rateClock >= checkedUntil[p]
    /\ check' = [check EXCEPT ![p] = [at |-> "reading", now |-> rateClock]]
    /\ UNCHANGED <<rateClock, official, nbu, fetch, checkedUntil,
                   lastTry, manualVars>>

AttemptedRecently(now) ==
    nbu.attempt # Never /\ now - nbu.attempt < RetryAfter

\* Mutant: what is fresh now is taken to stay fresh as if it had just come.
FreshFromNow(now, fetched) == now + StaleAfter

FreshUntil(now, fetched) == fetched + StaleAfter

RefreshIfStale(p) ==
    /\ check[p].at = "reading"
    /\ LET now == check[p].now
           fresh == official # NoRow /\ now - official.fetched <= StaleAfter
       IN  IF fresh \/ AttemptedRecently(now)
           THEN /\ checkedUntil' = [checkedUntil EXCEPT ![p] =
                      IF fresh THEN FreshUntil(now, official.fetched)
                      ELSE nbu.attempt + RetryAfter]
                /\ check' = [check EXCEPT ![p] = Idle]
                /\ UNCHANGED <<fetch, lastTry>>
           ELSE /\ Refresh(p, now)
                /\ check' = [check EXCEPT ![p].at = "waiting"]
                /\ UNCHANGED checkedUntil
    /\ UNCHANGED <<rateClock, official, nbu, manualVars>>

IsRefreshDue(now) == nbu.success # Day(now) /\ ~ AttemptedRecently(now)

\* The maintenance asks with the time at which it began, other tasks earlier.
MaintainRate(p) ==
    /\ \E now \in Max({0, rateClock - Slack})..rateClock :
          IsRefreshDue(now) /\ Refresh(p, now)
    /\ UNCHANGED <<rateClock, official, nbu, check, checkedUntil,
                   manualVars>>

\* Whoever waits for the refresh of this process is told.
EndRefresh(p, until) ==
    /\ fetch' = [fetch EXCEPT ![p] = Idle]
    /\ check' = [check EXCEPT ![p] = IF check[p].at = "waiting" THEN Idle ELSE @]
    /\ checkedUntil' = [checkedUntil EXCEPT ![p] = until]

FetchUsdRate(p) ==
    /\ fetch[p].at = "fetching"
    /\ fetch' = [fetch EXCEPT ![p] =
                    [at |-> "storing", now |-> fetch[p].now,
                     date |-> QuoteDate(rateClock)]]
    /\ UNCHANGED <<rateClock, official, nbu, check, checkedUntil,
                   lastTry, manualVars>>

\* The row of the date is updated or made; nothing reads those of earlier dates.  Of two processes that both find none
\* the constraint lets one make it; the other fails.
StoreQuote(p) ==
    /\ fetch[p].at = "storing"
    /\ LET now == fetch[p].now
       IN  /\ official' = IF fetch[p].date < official.date THEN official
                          ELSE [date |-> fetch[p].date, fetched |-> now]
           /\ nbu' = [success |-> Day(now), attempt |-> now]
           /\ EndRefresh(p, now + StaleAfter)
    /\ UNCHANGED <<rateClock, lastTry, manualVars>>

\* The bank does not answer, or not with a quote; or somebody else has stored
\* the quote of that date meanwhile; or the database fails.  Recording the
\* failure may fail too.
FetchFails(p) ==
    /\ fetch[p] # Idle
    /\ EndRefresh(p, fetch[p].now + RetryAfter)
    /\ nbu' \in {nbu, [nbu EXCEPT !.attempt = fetch[p].now]}
    /\ UNCHANGED <<rateClock, official, lastTry, manualVars>>

\* A process that is started again knows nothing.
RestartRates(p) ==
    /\ fetch' = [fetch EXCEPT ![p] = Idle]
    /\ check' = [check EXCEPT ![p] = Idle]
    /\ checkedUntil' = [checkedUntil EXCEPT ![p] = 0]
    /\ UNCHANGED <<rateClock, official, nbu, lastTry, manualVars>>

RefreshNext ==
    \/ RateTick
    \/ \E p \in RateProcesses :
          \/ RequestRefreshIfStale(p) \/ RefreshIfStale(p) \/ MaintainRate(p)
          \/ FetchUsdRate(p) \/ StoreQuote(p) \/ FetchFails(p)
          \/ RestartRates(p)

-----------------------------------------------------------------------------
(* The manual rate.  A transaction of an administrator locks the row of    *)
(* the settings when it reads which rate is the manual one; the reset of   *)
(* the sandbox locks it by writing it.                                     *)

\* Mutant: the row is read without locking it.
ReadUnlocked(w) == TRUE

LockManualRateId(w) == settingsLock = {}

BeginWriter(w) ==
    /\ writer[w] = Idle /\ LockManualRateId(w)
    /\ \E does \in {"set", "clear"} :
          writer' = [writer EXCEPT ![w] = [at |-> does, old |-> manualRate]]
    /\ settingsLock' = {w}
    /\ UNCHANGED <<manualRows, manualRate, refreshVars>>

Commit(w) ==
    /\ writer' = [writer EXCEPT ![w] = [at |-> "done"]]
    /\ settingsLock' = settingsLock \ {w}
    /\ UNCHANGED refreshVars

SetManual(w) ==
    /\ writer[w].at = "set"
    /\ manualRows' = (manualRows \cup {w}) \ writer[w].old
    /\ manualRate' = {w}
    /\ Commit(w)

ClearManual(w) ==
    /\ writer[w].at = "clear"
    /\ IF writer[w].old = {} THEN UNCHANGED <<manualRows, manualRate>>
       ELSE manualRows' = manualRows \ writer[w].old /\ manualRate' = {}
    /\ Commit(w)

BeginReset(w) ==
    /\ writer[w] = Idle /\ settingsLock = {}
    /\ writer' = [writer EXCEPT ![w] = [at |-> "reset"]]
    /\ settingsLock' = {w}
    /\ UNCHANGED <<manualRows, manualRate, refreshVars>>

ResetRates(w) ==
    /\ writer[w].at = "reset"
    /\ manualRate' = {} /\ manualRows' = {}
    /\ Commit(w)

\* A transaction that fails, or whose process ends, leaves nothing.
RollBack(w) ==
    /\ writer[w].at \in {"set", "clear", "reset"}
    /\ UNCHANGED <<manualRows, manualRate>>
    /\ Commit(w)

ManualNext ==
    \E w \in RateWriters :
        \/ BeginWriter(w) \/ SetManual(w) \/ ClearManual(w)
        \/ BeginReset(w) \/ ResetRates(w) \/ RollBack(w)

RatesNext == RefreshNext \/ ManualNext
RatesSpec == RatesInit /\ [][RatesNext]_rateVars

-----------------------------------------------------------------------------
(* Properties.                                                             *)

\* A process asks nobody for the rate only while the official rate is fresh or
\* the bank was asked a short time ago: no order of refreshes, failures and
\* checks, of this process or another, leaves visitors with a stale rate longer
\* than that (exchange-rate.service.ts, checkedUntil).
RefreshNotSuppressed ==
    \A p \in RateProcesses :
        rateClock < checkedUntil[p] =>
            \/ /\ official # NoRow
               /\ rateClock - official.fetched <= StaleAfter + Slack
            \/ lastTry # Never /\ rateClock - lastTry <= RetryAfter + Slack

\* The only manual rate is the one the settings point to: setting, clearing and
\* resetting at once leave none behind that nobody can remove.
OneManualRate == manualRows = manualRate

RatesSound == RefreshNotSuppressed /\ OneManualRate
=============================================================================
