-------------------------- MODULE BackOfficeProofs --------------------------
(***************************************************************************)
(* The lists arranged by hand, the exchange rate, the leads and the        *)
(* accounts: each for any number of processes, of administrators and of    *)
(* items and leads, of requests and sessions, whatever the intervals, the  *)
(* limits and the statuses and however late what was begun may end.        *)
(***************************************************************************)
EXTENDS OrderedLists, ExchangeRate, LeadWorkflow, Accounts,
        FiniteSetTheorems, WellFoundedInduction, TLAPS

-----------------------------------------------------------------------------
(* The exchange rate.                                                      *)

LEMMA LaterOfTwo ==
    ASSUME NEW a \in Int, NEW b \in Int
    PROVE  /\ Max({a, b}) \in {a, b}
           /\ a <= Max({a, b}) /\ b <= Max({a, b})
<1> DEFINE Latest(x) == x \in {a, b} /\ \A y \in {a, b} : x >= y
<1>1. \E x \in {a, b} : \A y \in {a, b} : x >= y
  <2>1. CASE a <= b
    BY <2>1
  <2>2. CASE b <= a
    BY <2>2
  <2> QED
    BY <2>1, <2>2
<1>2. Max({a, b}) = CHOOSE x \in {a, b} : \A y \in {a, b} : x >= y
  BY DEF Max
<1>3. Max({a, b}) \in {a, b} /\ \A y \in {a, b} : Max({a, b}) >= y
  BY <1>1, <1>2
<1> QED
  BY <1>3

LEMMA Quotients ==
    ASSUME NEW a \in Nat, NEW b \in Nat, NEW d \in Nat \ {0}, a <= b
    PROVE  a \div d \in Nat /\ a \div d <= b \div d
  OBVIOUS

\* The bank never takes a quote back for an earlier day.
LEMMA QuotesMoveOn ==
    ASSUME NEW a \in Nat, NEW b \in Nat, a <= b
    PROVE  QuoteDate(a) \in Nat /\ QuoteDate(b) \in Nat /\ QuoteDate(a) <= QuoteDate(b)
<1>1. DayLength \in Nat \ {0} /\ DayLength \div 2 \in Nat
  BY RateTimes
<1> QED
  BY <1>1, Quotients DEF QuoteDate, Day

-----------------------------------------------------------------------------
(* The official rate.                                                      *)

Times == Nat \cup {Never}
Fetches == [at : {"fetching"}, now : Nat] \cup [at : {"storing"}, now : Nat, date : Nat]
Checks == [at : {"reading", "waiting"}, now : Nat]

RefreshTypes ==
    /\ rateClock \in Nat
    /\ official \in [date : Times, fetched : Times]
    /\ nbu \in [success : Times, attempt : Times]
    /\ fetch \in [RateProcesses -> Fetches \cup {Idle}]
    /\ check \in [RateProcesses -> Checks \cup {Idle}]
    /\ checkedUntil \in [RateProcesses -> Nat]
    /\ lastTry \in Times

\* What is in flight was begun a short time ago.
Recent(now) == now <= rateClock /\ rateClock <= now + Slack

\* A refresh in flight was begun a short time ago; its quote is of the time since.
FetchesRecent ==
    \A p \in RateProcesses : fetch[p] # Idle =>
        /\ Recent(fetch[p].now) /\ fetch[p].now <= lastTry
        /\ fetch[p].at = "storing" =>
              /\ QuoteDate(fetch[p].now) <= fetch[p].date
              /\ fetch[p].date <= QuoteDate(fetch[p].now + Slack)

ChecksRecent ==
    \A p \in RateProcesses : check[p] # Idle => Recent(check[p].now)

\* The official rate is of a day the bank could quote when it was fetched.
OfficialDated ==
    official # NoRow =>
        /\ official.fetched \in Nat /\ official.fetched <= rateClock
        /\ official.date <= QuoteDate(official.fetched + Slack)

AttemptKnown == nbu.attempt <= lastTry

\* Why a process asks nobody until then: because of the official rate, or of the
\* last attempt.
ByOfficial(until) ==
    /\ official # NoRow
    /\ until <= official.fetched + StaleAfter + Slack
    /\ until <= rateClock + StaleAfter
ByAttempt(until) == lastTry # Never /\ until <= lastTry + RetryAfter

ChecksJustified ==
    \A p \in RateProcesses :
        \/ checkedUntil[p] = 0
        \/ ByOfficial(checkedUntil[p])
        \/ ByAttempt(checkedUntil[p])

RefreshInv ==
    /\ RefreshTypes
    /\ FetchesRecent
    /\ ChecksRecent
    /\ OfficialDated
    /\ AttemptKnown
    /\ ChecksJustified

LEMMA InFlightIsNotIdle ==
    /\ \A f \in Fetches : f # Idle /\ f.now \in Nat
    /\ \A c \in Checks : c # Idle /\ c.now \in Nat
  BY DEF Fetches, Checks, Idle

LEMMA RefreshInit == RatesInit => RefreshInv
  BY DEF RatesInit, RefreshInv, RefreshTypes, Times, Never, NoRow, FetchesRecent,
         ChecksRecent, OfficialDated, AttemptKnown, ChecksJustified

LEMMA TickKeepsRefresh == RefreshInv /\ RateTick => RefreshInv'
<1> SUFFICES ASSUME RefreshInv, RateTick PROVE RefreshInv'
  OBVIOUS
<1> USE RateTimes DEF RefreshInv, RefreshTypes, RateTick, Times, Never
<1>1. \A p \in RateProcesses : fetch[p] # Idle => rateClock < fetch[p].now + Slack
  BY DEF Begun
<1>2. \A p \in RateProcesses : check[p] # Idle => rateClock < check[p].now + Slack
  BY DEF Begun
<1>3. RefreshTypes'
  OBVIOUS
<1>4. FetchesRecent'
  BY <1>1, InFlightIsNotIdle DEF FetchesRecent, Recent, QuoteDate, Day
<1>5. ChecksRecent'
  BY <1>2, InFlightIsNotIdle DEF ChecksRecent, Recent
<1>6. OfficialDated' /\ AttemptKnown'
  BY DEF OfficialDated, AttemptKnown, QuoteDate, Day
<1>7. ChecksJustified'
  BY DEF ChecksJustified, ByOfficial, ByAttempt
<1> QED
  BY <1>3, <1>4, <1>5, <1>6, <1>7

\* A refresh is begun, or joined, for a check or the maintenance of a short time ago.
LEMMA RefreshBegins ==
    ASSUME RefreshInv, NEW p \in RateProcesses, NEW now \in Nat, Recent(now),
           Refresh(p, now), UNCHANGED <<rateClock, official, nbu, checkedUntil>>
    PROVE  /\ fetch' \in [RateProcesses -> Fetches \cup {Idle}]
           /\ lastTry' \in Times /\ lastTry <= lastTry'
           /\ FetchesRecent' /\ OfficialDated' /\ AttemptKnown' /\ ChecksJustified'
<1> USE RateTimes DEF RefreshInv, RefreshTypes, Times, Never
<1>1. CASE fetch[p] # Idle
  BY <1>1 DEF Refresh, FetchesRecent, Recent, OfficialDated, AttemptKnown,
              ChecksJustified, ByOfficial, ByAttempt, QuoteDate, Day
<1>2. CASE fetch[p] = Idle
  <2>1. /\ fetch' = [fetch EXCEPT ![p] = [at |-> "fetching", now |-> now]]
        /\ lastTry' = Max({lastTry, now})
    BY <1>2 DEF Refresh
  <2>2. lastTry' \in Nat /\ lastTry <= lastTry' /\ now <= lastTry'
    <3>1. lastTry \in Int /\ now \in Int
      OBVIOUS
    <3>2. /\ Max({lastTry, now}) \in {lastTry, now}
          /\ lastTry <= Max({lastTry, now}) /\ now <= Max({lastTry, now})
      BY <3>1, LaterOfTwo
    <3> QED
      BY <2>1, <3>2
  <2>3. [at |-> "fetching", now |-> now] \in Fetches
    BY DEF Fetches
  <2>4. FetchesRecent'
    BY <2>1, <2>2, InFlightIsNotIdle DEF FetchesRecent, Recent, QuoteDate, Day
  <2>5. OfficialDated' /\ AttemptKnown'
    BY <2>2 DEF OfficialDated, AttemptKnown, QuoteDate, Day
  <2>6. ChecksJustified'
    BY <2>2 DEF ChecksJustified, ByOfficial, ByAttempt
  <2> QED
    BY <2>1, <2>2, <2>3, <2>4, <2>5, <2>6
<1> QED
  BY <1>1, <1>2

LEMMA RequestKeepsRefresh ==
    ASSUME RefreshInv, NEW p \in RateProcesses, RequestRefreshIfStale(p)
    PROVE  RefreshInv'
<1> USE RateTimes DEF RefreshInv, RefreshTypes, RequestRefreshIfStale
<1>1. [at |-> "reading", now |-> rateClock] \in Checks
  BY DEF Checks
<1>2. RefreshTypes'
  BY <1>1
<1>3. ChecksRecent'
  BY DEF ChecksRecent, Recent
<1>4. FetchesRecent' /\ OfficialDated' /\ AttemptKnown' /\ ChecksJustified'
  BY DEF FetchesRecent, Recent, OfficialDated, AttemptKnown, ChecksJustified,
         ByOfficial, ByAttempt, QuoteDate, Day
<1> QED
  BY <1>2, <1>3, <1>4

LEMMA CheckKeepsRefresh ==
    ASSUME RefreshInv, NEW p \in RateProcesses, RefreshIfStale(p)
    PROVE  RefreshInv'
<1> USE RateTimes DEF RefreshInv, RefreshTypes, Times, Never
<1> DEFINE now == check[p].now
           fresh == official # NoRow /\ now - official.fetched <= StaleAfter
<1>1. check[p] # Idle /\ check[p] \in Checks /\ now \in Nat /\ Recent(now)
  BY InFlightIsNotIdle DEF RefreshIfStale, ChecksRecent, Idle
<1>2. CASE fresh \/ AttemptedRecently(now)
  <2> DEFINE until == IF fresh THEN FreshUntil(now, official.fetched)
                      ELSE nbu.attempt + RetryAfter
  <2>1. /\ checkedUntil' = [checkedUntil EXCEPT ![p] = until]
        /\ check' = [check EXCEPT ![p] = Idle]
        /\ UNCHANGED <<fetch, lastTry, rateClock, official, nbu>>
    BY <1>2 DEF RefreshIfStale
  <2>2. until \in Nat /\ (ByOfficial(until) \/ ByAttempt(until))
    <3>1. CASE fresh
      BY <3>1 DEF FreshUntil, OfficialDated, ByOfficial
    <3>2. CASE ~ fresh
      BY <1>2, <3>2 DEF AttemptedRecently, AttemptKnown, ByAttempt
    <3> QED
      BY <3>1, <3>2
  <2> HIDE DEF until
  <2>3. RefreshTypes'
    BY <2>1, <2>2
  <2>4. ChecksRecent'
    BY <2>1 DEF ChecksRecent, Recent
  <2>5. ChecksJustified'
    BY <2>1, <2>2 DEF ChecksJustified, ByOfficial, ByAttempt
  <2>6. FetchesRecent' /\ OfficialDated' /\ AttemptKnown'
    BY <2>1 DEF FetchesRecent, Recent, OfficialDated, AttemptKnown, QuoteDate, Day
  <2> QED
    BY <2>3, <2>4, <2>5, <2>6
<1>3. CASE ~ (fresh \/ AttemptedRecently(now))
  <2>1. /\ Refresh(p, now)
        /\ check' = [check EXCEPT ![p].at = "waiting"]
        /\ UNCHANGED <<checkedUntil, rateClock, official, nbu>>
    BY <1>3 DEF RefreshIfStale
  <2>2. /\ fetch' \in [RateProcesses -> Fetches \cup {Idle}]
        /\ lastTry' \in Times
        /\ FetchesRecent' /\ OfficialDated' /\ AttemptKnown' /\ ChecksJustified'
    BY <1>1, <2>1, RefreshBegins
  <2>3. [check[p] EXCEPT !.at = "waiting"] \in Checks
        /\ [check[p] EXCEPT !.at = "waiting"].now = now
    BY <1>1 DEF Checks
  <2>4. check' = [check EXCEPT ![p] = [check[p] EXCEPT !.at = "waiting"]]
    BY <2>1
  <2>5. RefreshTypes'
    <3>1. check' \in [RateProcesses -> Checks \cup {Idle}]
      BY <2>3, <2>4
    <3> QED
      BY <2>1, <2>2, <3>1
  <2>6. ChecksRecent'
    BY <1>1, <2>1, <2>3, <2>4 DEF ChecksRecent, Recent
  <2> QED
    BY <2>2, <2>5, <2>6
<1> QED
  BY <1>2, <1>3

LEMMA MaintenanceKeepsRefresh ==
    ASSUME RefreshInv, NEW p \in RateProcesses, MaintainRate(p)
    PROVE  RefreshInv'
<1> USE RateTimes DEF RefreshInv, RefreshTypes, MaintainRate
<1>1. PICK now \in Max({0, rateClock - Slack})..rateClock : Refresh(p, now)
  OBVIOUS
<1>2. now \in Nat /\ Recent(now)
  <2>1. Max({0, rateClock - Slack}) \in {0, rateClock - Slack}
        /\ 0 <= Max({0, rateClock - Slack})
        /\ rateClock - Slack <= Max({0, rateClock - Slack})
    <3>1. 0 \in Int /\ rateClock - Slack \in Int
      OBVIOUS
    <3> QED
      BY <3>1, LaterOfTwo
  <2> QED
    BY <1>1, <2>1 DEF Recent
<1>3. /\ fetch' \in [RateProcesses -> Fetches \cup {Idle}]
      /\ lastTry' \in Times
      /\ FetchesRecent' /\ OfficialDated' /\ AttemptKnown' /\ ChecksJustified'
  BY <1>1, <1>2, RefreshBegins
<1>4. RefreshTypes' /\ ChecksRecent'
  BY <1>3 DEF ChecksRecent, Recent
<1> QED
  BY <1>3, <1>4

\* The end of a refresh, with whatever it leaves to wait for.
LEMMA RefreshEnds ==
    ASSUME RefreshInv, NEW p \in RateProcesses, NEW until \in Nat,
           EndRefresh(p, until), UNCHANGED <<rateClock, lastTry>>
    PROVE  /\ fetch' \in [RateProcesses -> Fetches \cup {Idle}]
           /\ check' \in [RateProcesses -> Checks \cup {Idle}]
           /\ checkedUntil' = [checkedUntil EXCEPT ![p] = until]
           /\ FetchesRecent' /\ ChecksRecent'
<1> USE DEF RefreshInv, RefreshTypes, EndRefresh
<1>1. \A q \in RateProcesses : fetch'[q] = IF q = p THEN Idle ELSE fetch[q]
  OBVIOUS
<1>2. \A q \in RateProcesses : check'[q] = check[q] \/ check'[q] = Idle
  OBVIOUS
<1>3. FetchesRecent'
  BY <1>1 DEF FetchesRecent, Recent, QuoteDate, Day
<1>4. ChecksRecent'
  BY <1>2 DEF ChecksRecent, Recent
<1> QED
  BY <1>3, <1>4

LEMMA FetchKeepsRefresh ==
    ASSUME RefreshInv, NEW p \in RateProcesses, FetchUsdRate(p)
    PROVE  RefreshInv'
<1> USE RateTimes DEF RefreshInv, RefreshTypes
<1> DEFINE now == fetch[p].now
           new == [at |-> "storing", now |-> now, date |-> QuoteDate(rateClock)]
<1>1. /\ now \in Nat /\ Recent(now) /\ now <= lastTry
      /\ fetch' = [fetch EXCEPT ![p] = new]
      /\ UNCHANGED <<rateClock, official, nbu, check, checkedUntil, lastTry>>
  BY InFlightIsNotIdle DEF FetchUsdRate, FetchesRecent, Idle
<1>2. /\ QuoteDate(rateClock) \in Nat
      /\ QuoteDate(now) <= QuoteDate(rateClock)
      /\ QuoteDate(rateClock) <= QuoteDate(now + Slack)
  <2>1. now + Slack \in Nat /\ now <= rateClock /\ rateClock <= now + Slack
    BY <1>1 DEF Recent
  <2> QED
    BY <1>1, <2>1, QuotesMoveOn
<1>3. new \in Fetches /\ new.now = now /\ new.date = QuoteDate(rateClock)
  BY <1>1, <1>2 DEF Fetches
<1>4. \A q \in RateProcesses : fetch'[q] = IF q = p THEN new ELSE fetch[q]
  BY <1>1
<1> HIDE DEF new
<1>5. RefreshTypes'
  BY <1>1, <1>3
<1>6. FetchesRecent'
  <2> SUFFICES ASSUME NEW q \in RateProcesses, fetch'[q] # Idle
               PROVE  /\ Recent(fetch[q].now)' /\ fetch'[q].now <= lastTry'
                      /\ fetch'[q].at = "storing" =>
                            /\ QuoteDate(fetch'[q].now) <= fetch'[q].date
                            /\ fetch'[q].date <= QuoteDate(fetch'[q].now + Slack)
    BY DEF FetchesRecent, Recent, QuoteDate, Day
  <2>1. CASE q = p
    BY <2>1, <1>1, <1>2, <1>3, <1>4 DEF Recent
  <2>2. CASE q # p
    BY <2>2, <1>1, <1>4 DEF FetchesRecent, Recent
  <2> QED
    BY <2>1, <2>2
<1>7. ChecksRecent' /\ OfficialDated' /\ AttemptKnown' /\ ChecksJustified'
  BY <1>1 DEF ChecksRecent, Recent, OfficialDated, AttemptKnown, ChecksJustified,
              ByOfficial, ByAttempt, QuoteDate, Day
<1> QED
  BY <1>5, <1>6, <1>7

\* A quote of an earlier day than the official rate was fetched before the
\* official rate, but for the slack.
LEMMA LateQuote ==
    ASSUME RefreshInv, NEW p \in RateProcesses, fetch[p].at = "storing",
           fetch[p].date < official.date
    PROVE  official # NoRow /\ fetch[p].now <= official.fetched + Slack
<1> USE RateTimes DEF RefreshInv, RefreshTypes, Times, Never
<1>1. fetch[p] # Idle /\ fetch[p].now \in Nat /\ fetch[p].date \in Nat
  BY DEF Idle, Fetches
<1>2. official # NoRow
  BY <1>1 DEF NoRow
<1>3. QuoteDate(fetch[p].now) < QuoteDate(official.fetched + Slack)
  <2>1. /\ QuoteDate(fetch[p].now) <= fetch[p].date
        /\ official.date <= QuoteDate(official.fetched + Slack)
        /\ official.fetched + Slack \in Nat
    BY <1>1, <1>2 DEF FetchesRecent, OfficialDated
  <2>2. QuoteDate(fetch[p].now) \in Nat /\ QuoteDate(official.fetched + Slack) \in Nat
    BY <1>1, <2>1, QuotesMoveOn
  <2> QED
    BY <1>1, <2>1, <2>2
<1>4. official.fetched + Slack \in Nat
  BY <1>2 DEF OfficialDated
<1>5. CASE official.fetched + Slack <= fetch[p].now
  <2>1. /\ QuoteDate(official.fetched + Slack) \in Nat /\ QuoteDate(fetch[p].now) \in Nat
        /\ QuoteDate(official.fetched + Slack) <= QuoteDate(fetch[p].now)
    BY <1>1, <1>4, <1>5, QuotesMoveOn
  <2> QED
    BY <1>3, <2>1
<1> QED
  BY <1>1, <1>2, <1>4, <1>5

LEMMA StoreKeepsRefresh ==
    ASSUME RefreshInv, NEW p \in RateProcesses, StoreQuote(p)
    PROVE  RefreshInv'
<1> USE RateTimes DEF RefreshInv, RefreshTypes, Times, Never
<1> DEFINE now == fetch[p].now
           date == fetch[p].date
<1>1. /\ fetch[p] # Idle /\ fetch[p].at = "storing"
      /\ now \in Nat /\ date \in Nat
      /\ Recent(now) /\ now <= lastTry
      /\ date <= QuoteDate(now + Slack)
  BY DEF StoreQuote, FetchesRecent, Fetches, Idle
<1>2. /\ official' = IF date < official.date THEN official
                     ELSE [date |-> date, fetched |-> now]
      /\ nbu' = [success |-> Day(now), attempt |-> now]
      /\ EndRefresh(p, now + StaleAfter)
      /\ UNCHANGED <<rateClock, lastTry>>
  BY DEF StoreQuote
<1>3. Day(now) \in Nat
  BY <1>1, Quotients DEF Day
<1>4. /\ fetch' \in [RateProcesses -> Fetches \cup {Idle}]
      /\ check' \in [RateProcesses -> Checks \cup {Idle}]
      /\ checkedUntil' = [checkedUntil EXCEPT ![p] = now + StaleAfter]
      /\ FetchesRecent' /\ ChecksRecent'
  <2>1. now + StaleAfter \in Nat
    BY <1>1
  <2> QED
    BY <1>2, <2>1, RefreshEnds
<1>5. RefreshTypes' /\ AttemptKnown'
  BY <1>1, <1>2, <1>3, <1>4 DEF AttemptKnown
<1>6. /\ official' # NoRow
      /\ now <= official'.fetched + Slack
      /\ official # NoRow /\ official' # official => official'.fetched = now
  <2>1. CASE date < official.date
    BY <1>1, <1>2, <2>1, LateQuote
  <2>2. CASE ~ (date < official.date)
    BY <1>1, <1>2, <2>2 DEF NoRow
  <2> QED
    BY <2>1, <2>2
<1>7. OfficialDated'
  <2>1. CASE date < official.date
    BY <1>2, <2>1 DEF OfficialDated, QuoteDate, Day
  <2>2. CASE ~ (date < official.date)
    <3>1. official' = [date |-> date, fetched |-> now] /\ rateClock' = rateClock
      BY <1>2, <2>2
    <3> HIDE DEF date, now
    <3> QED
      BY <1>1, <3>1 DEF OfficialDated, Recent, QuoteDate, Day
  <2> QED
    BY <2>1, <2>2
<1>8. ChecksJustified'
  <2> SUFFICES ASSUME NEW q \in RateProcesses
               PROVE  \/ checkedUntil'[q] = 0
                      \/ ByOfficial(checkedUntil[q])'
                      \/ ByAttempt(checkedUntil[q])'
    BY DEF ChecksJustified, ByOfficial, ByAttempt
  <2> DEFINE until == checkedUntil'[q]
  <2>0. until \in Nat /\ official'.fetched \in Nat
    BY <1>5, <1>6, <1>7 DEF OfficialDated
  <2>1. CASE q = p
    <3>1. until = now + StaleAfter
      BY <1>4, <2>1
    <3>2. until <= official'.fetched + StaleAfter + Slack /\ until <= rateClock + StaleAfter
      BY <1>1, <1>6, <2>0, <3>1 DEF Recent
    <3> QED
      BY <1>2, <1>6, <3>2 DEF ByOfficial
  <2>2. CASE q # p /\ until # 0 /\ ~ ByAttempt(until)
    <3>1. until = checkedUntil[q] /\ ByOfficial(until)
      BY <1>4, <2>2 DEF ChecksJustified
    <3>2. until <= official'.fetched + StaleAfter + Slack
      <4>1. CASE official' = official
        BY <3>1, <4>1 DEF ByOfficial
      <4>2. CASE official' # official
        <5>1. official'.fetched = now
          BY <1>6, <3>1, <4>2 DEF ByOfficial
        <5> QED
          BY <1>1, <2>0, <3>1, <5>1 DEF ByOfficial, Recent
      <4> QED
        BY <4>1, <4>2
    <3> QED
      BY <1>2, <1>6, <3>1, <3>2 DEF ByOfficial
  <2>3. CASE q # p /\ ByAttempt(until)
    BY <1>2, <2>3 DEF ByAttempt
  <2> QED
    BY <2>1, <2>2, <2>3
<1> QED
  BY <1>4, <1>5, <1>7, <1>8

LEMMA FailureKeepsRefresh ==
    ASSUME RefreshInv, NEW p \in RateProcesses, FetchFails(p)
    PROVE  RefreshInv'
<1> USE RateTimes DEF RefreshInv, RefreshTypes, Times, Never
<1> DEFINE now == fetch[p].now
<1>1. now \in Nat /\ Recent(now) /\ now <= lastTry
  BY InFlightIsNotIdle DEF FetchFails, FetchesRecent
<1>2. /\ EndRefresh(p, now + RetryAfter)
      /\ nbu' \in {nbu, [nbu EXCEPT !.attempt = now]}
      /\ UNCHANGED <<rateClock, official, lastTry>>
  BY DEF FetchFails
<1>3. /\ fetch' \in [RateProcesses -> Fetches \cup {Idle}]
      /\ check' \in [RateProcesses -> Checks \cup {Idle}]
      /\ checkedUntil' = [checkedUntil EXCEPT ![p] = now + RetryAfter]
      /\ FetchesRecent' /\ ChecksRecent'
  <2>1. now + RetryAfter \in Nat
    BY <1>1
  <2> QED
    BY <1>2, <2>1, RefreshEnds
<1>4. RefreshTypes' /\ AttemptKnown'
  BY <1>1, <1>2, <1>3 DEF AttemptKnown
<1>5. OfficialDated'
  BY <1>2 DEF OfficialDated, QuoteDate, Day
<1>6. ByAttempt(now + RetryAfter)
  BY <1>1 DEF ByAttempt
<1>7. ChecksJustified'
  BY <1>1, <1>2, <1>3, <1>6 DEF ChecksJustified, ByOfficial, ByAttempt
<1> QED
  BY <1>3, <1>4, <1>5, <1>7

LEMMA RestartKeepsRefresh ==
    ASSUME RefreshInv, NEW p \in RateProcesses, RestartRates(p)
    PROVE  RefreshInv'
<1> USE DEF RefreshInv, RefreshTypes, RestartRates
<1>1. RefreshTypes'
  OBVIOUS
<1>2. FetchesRecent' /\ ChecksRecent'
  BY DEF FetchesRecent, ChecksRecent, Recent, QuoteDate, Day
<1>3. OfficialDated' /\ AttemptKnown' /\ ChecksJustified'
  BY DEF OfficialDated, AttemptKnown, ChecksJustified, ByOfficial, ByAttempt,
         QuoteDate, Day
<1> QED
  BY <1>1, <1>2, <1>3

LEMMA StillRefresh == RefreshInv /\ UNCHANGED refreshVars => RefreshInv'
  BY DEF RefreshInv, RefreshTypes, refreshVars, FetchesRecent, ChecksRecent, Recent,
         OfficialDated, AttemptKnown, ChecksJustified, ByOfficial, ByAttempt,
         QuoteDate, Day

LEMMA RefreshStep == RefreshInv /\ RefreshNext => RefreshInv'
<1> SUFFICES ASSUME RefreshInv, RefreshNext PROVE RefreshInv'
  OBVIOUS
<1>1. CASE RateTick
  BY <1>1, TickKeepsRefresh
<1>2. ASSUME NEW p \in RateProcesses,
             RequestRefreshIfStale(p) \/ RefreshIfStale(p) \/ MaintainRate(p)
      PROVE  RefreshInv'
  BY <1>2, RequestKeepsRefresh, CheckKeepsRefresh, MaintenanceKeepsRefresh
<1>3. ASSUME NEW p \in RateProcesses,
             FetchUsdRate(p) \/ StoreQuote(p) \/ FetchFails(p) \/ RestartRates(p)
      PROVE  RefreshInv'
  BY <1>3, FetchKeepsRefresh, StoreKeepsRefresh, FailureKeepsRefresh,
     RestartKeepsRefresh
<1> QED
  BY <1>1, <1>2, <1>3 DEF RefreshNext

LEMMA NotSuppressed == RefreshInv => RefreshNotSuppressed
  BY RateTimes DEF RefreshInv, RefreshTypes, Times, Never, OfficialDated,
     ChecksJustified, ByOfficial, ByAttempt, RefreshNotSuppressed

-----------------------------------------------------------------------------
(* The manual rate.                                                        *)

Begins == {"set", "clear", "reset"}

\* Who is in a transaction holds the settings, so what it read is still so; the
\* manual rate is one that was set.
ManualInv ==
    /\ OneManualRate
    /\ \A w \in RateWriters : writer[w].at \in Begins => settingsLock = {w}
    /\ \A w \in RateWriters : writer[w].at \in {"set", "clear"} =>
          writer[w].old = manualRate
    /\ \A w \in manualRate : writer[w].at = "done"
    /\ manualRate \subseteq RateWriters
    /\ writer = [w \in RateWriters |-> writer[w]]

LEMMA ManualStep == ManualInv /\ ManualNext => ManualInv'
<1> SUFFICES ASSUME ManualInv, NEW w \in RateWriters,
                    \/ BeginWriter(w) \/ SetManual(w) \/ ClearManual(w)
                    \/ BeginReset(w) \/ ResetRates(w) \/ RollBack(w)
             PROVE  ManualInv'
  BY DEF ManualNext
<1> USE DEF ManualInv, OneManualRate, Begins
<1>1. CASE BeginWriter(w)
  <2>1. PICK does \in {"set", "clear"} :
           writer' = [writer EXCEPT ![w] = [at |-> does, old |-> manualRate]]
    BY <1>1 DEF BeginWriter
  <2>2. \A u \in RateWriters : writer[u].at \notin Begins
    BY <1>1 DEF BeginWriter, LockManualRateId
  <2>3. w \notin manualRate
    <3>1. writer[w] = Idle
      BY <1>1 DEF BeginWriter
    <3>2. writer[w].at = "idle"
      BY <3>1 DEF Idle
    <3> QED
      BY <3>2
  <2> QED
    BY <1>1, <2>1, <2>2, <2>3 DEF BeginWriter
<1>2. CASE BeginReset(w)
  <2>1. \A u \in RateWriters : writer[u].at \notin Begins
    BY <1>2 DEF BeginReset
  <2>2. w \notin manualRate
    BY <1>2 DEF BeginReset, Idle
  <2> QED
    BY <1>2, <2>1, <2>2 DEF BeginReset
<1>3. CASE SetManual(w) \/ ClearManual(w) \/ ResetRates(w) \/ RollBack(w)
  <2>1. /\ writer[w].at \in Begins
        /\ writer' = [writer EXCEPT ![w] = [at |-> "done"]]
    BY <1>3 DEF SetManual, ClearManual, ResetRates, RollBack, Commit
  <2>2. \A u \in RateWriters \ {w} : writer[u].at \notin Begins /\ writer'[u] = writer[u]
    BY <2>1
  <2>3. w \notin manualRate /\ writer'[w].at = "done"
    BY <2>1
  <2>4. \A u \in RateWriters : writer'[u].at \notin Begins
    BY <2>2, <2>3
  <2>5. /\ manualRows' = manualRate' /\ manualRate' \subseteq manualRate \cup {w}
    <3>1. CASE SetManual(w)
      BY <2>3, <3>1 DEF SetManual
    <3>2. CASE ClearManual(w)
      BY <3>2 DEF ClearManual
    <3>3. CASE ResetRates(w) \/ RollBack(w)
      BY <3>3 DEF ResetRates, RollBack
    <3> QED
      BY <1>3, <3>1, <3>2, <3>3
  <2> QED
    BY <2>1, <2>2, <2>3, <2>4, <2>5
<1> QED
  BY <1>1, <1>2, <1>3

-----------------------------------------------------------------------------

\* No order of refreshes, failures, checks and restarts leaves visitors with a
\* stale rate longer than the intervals say, and of the manual rates only the one
\* in force is left (exchange-rate.service.ts).
THEOREM RatesAreSound == RatesSpec => []RatesSound
<1>1. RatesInit => RefreshInv /\ ManualInv
  <2>1. RatesInit => ManualInv
    BY DEF RatesInit, ManualInv, OneManualRate, Begins, Idle
  <2> QED
    BY <2>1, RefreshInit
<1>2. RefreshInv /\ ManualInv /\ [RatesNext]_rateVars => (RefreshInv /\ ManualInv)'
  <2> SUFFICES ASSUME RefreshInv, ManualInv, [RatesNext]_rateVars
               PROVE  RefreshInv' /\ ManualInv'
    OBVIOUS
  <2>1. UNCHANGED manualVars => ManualInv'
    BY DEF ManualInv, OneManualRate, manualVars
  <2>2. CASE RefreshNext
    <3>1. UNCHANGED manualVars
      BY <2>2 DEF RefreshNext, RateTick, RequestRefreshIfStale, RefreshIfStale,
                  MaintainRate, FetchUsdRate, StoreQuote, FetchFails, RestartRates
    <3> QED
      BY <2>1, <2>2, <3>1, RefreshStep
  <2>3. CASE ManualNext
    <3>1. UNCHANGED refreshVars
      BY <2>3 DEF ManualNext, BeginWriter, SetManual, ClearManual, BeginReset,
                  ResetRates, RollBack, Commit
    <3> QED
      BY <2>3, <3>1, StillRefresh, ManualStep
  <2>4. CASE UNCHANGED rateVars
    BY <2>1, <2>4, StillRefresh DEF rateVars
  <2> QED
    BY <2>2, <2>3, <2>4 DEF RatesNext
<1>3. RefreshInv /\ ManualInv => RatesSound
  BY NotSuppressed DEF ManualInv, RatesSound
<1> QED
  BY <1>1, <1>2, <1>3, PTL DEF RatesSpec

-----------------------------------------------------------------------------
(* The leads: their history is a chain.                                    *)

Revisions == StatusEdits \cup {"first"}
AllStatuses == Statuses \cup {NoStatus, "NEW"}
HistoryRow == [from : AllStatuses, to : AllStatuses, when : Nat]
LeadRow == [status : AllStatuses, rev : Revisions]
Answer == {"sent", "write", "ok", "stale", "notFound", "sameStatus"}
Asked == [at : Answer, lead : Leads, from : AllStatuses, to : Statuses, rev : Revisions]

LeadTypes ==
    /\ leadClock \in Nat
    /\ LeadIds \subseteq Leads
    /\ leads \in [LeadIds -> LeadRow]
    /\ history \in [LeadIds -> Seq(HistoryRow)]
    /\ change \in [StatusEdits -> Asked \cup {NotAsked}]
    /\ notes \subseteq [lead : LeadIds, note : NoteEdits]

\* A revision is the name of the change that gave it: nobody holds that of a
\* change that has not been made.
RevisionsMade ==
    /\ \A l \in LeadIds : leads[l].rev \in StatusEdits =>
          change[leads[l].rev].at = "ok"
    /\ \A e \in StatusEdits : change[e] # NotAsked /\ change[e].rev \in StatusEdits =>
          change[change[e].rev].at = "ok"

\* A change about to be written that still finds the revision it saw also finds
\* the status it saw.
StatusSeen ==
    \A e \in StatusEdits :
        change[e].at = "write" /\ SeenRevision(e) =>
            /\ leads[change[e].lead].status = change[e].from
            /\ change[e].from # change[e].to

\* No row of the history is dated in the future.
NoFuture ==
    \A l \in LeadIds : history[l][Len(history[l])].when <= leadClock

LeadInv ==
    /\ LeadTypes
    /\ RevisionsMade
    /\ StatusSeen
    /\ NoFuture
    /\ HistoryChains

LEMMA LeadInit == LeadsInit => LeadInv
<1> SUFFICES ASSUME LeadsInit PROVE LeadInv
  OBVIOUS
<1> USE DEF LeadsInit
<1>1. LeadIds = Leads
  BY DEF LeadIds
<1>2. [from |-> NoStatus, to |-> "NEW", when |-> 0] \in HistoryRow
  BY DEF HistoryRow, AllStatuses
<1>3. LeadTypes
  BY <1>1, <1>2 DEF LeadTypes, LeadRow, Revisions, AllStatuses
<1>4. RevisionsMade /\ StatusSeen
  BY <1>1, FreshRevisions DEF RevisionsMade, StatusSeen, NotAsked
<1>5. NoFuture /\ HistoryChains
  BY <1>1 DEF NoFuture, HistoryChains, Chained
<1> QED
  BY <1>3, <1>4, <1>5 DEF LeadInv

LEMMA TickKeepsLeads == LeadInv /\ LeadTick => LeadInv'
<1> SUFFICES ASSUME LeadInv, LeadTick PROVE LeadInv'
  OBVIOUS
<1> USE DEF LeadInv, LeadTick, LeadTypes, LeadIds
<1>1. LeadTypes'
  OBVIOUS
<1>2. RevisionsMade' /\ StatusSeen'
  BY DEF RevisionsMade, StatusSeen, SeenRevision
<1>3. HistoryChains'
  BY DEF HistoryChains
<1>4. NoFuture'
  <2>1. \A l \in LeadIds : history[l][Len(history[l])].when \in Nat
    <3> SUFFICES ASSUME NEW l \in LeadIds PROVE history[l][Len(history[l])].when \in Nat
      OBVIOUS
    <3>1. history[l] \in Seq(HistoryRow) /\ history[l] # << >>
      BY DEF HistoryChains, Chained
    <3>2. history[l][Len(history[l])] \in HistoryRow
      BY <3>1
    <3> QED
      BY <3>2 DEF HistoryRow
  <2> QED
    BY <2>1 DEF NoFuture
<1> QED
  BY <1>1, <1>2, <1>3, <1>4

LEMMA OpenKeepsLeads ==
    ASSUME LeadInv, NEW e \in StatusEdits, OpenLead(e)
    PROVE  LeadInv'
<1> USE DEF LeadInv, OpenLead, LeadTypes, LeadIds, LeadRow
<1>1. PICK l \in LeadIds, s \in Statuses :
        change' = [change EXCEPT ![e] =
           [at |-> "sent", lead |-> l, from |-> NoStatus, to |-> s, rev |-> leads[l].rev]]
  OBVIOUS
<1>2. [at |-> "sent", lead |-> l, from |-> NoStatus, to |-> s, rev |-> leads[l].rev]
         \in Asked
  BY <1>1 DEF Asked, Answer, AllStatuses
<1>3. LeadTypes'
  BY <1>1, <1>2
<1>4. \A f \in StatusEdits : change[f].at = "ok" => change'[f] = change[f]
  BY <1>1 DEF NotAsked
<1>5. RevisionsMade'
  BY <1>1, <1>4 DEF RevisionsMade
<1>6. StatusSeen'
  BY <1>1 DEF StatusSeen, SeenRevision
<1>7. HistoryChains' /\ NoFuture'
  BY DEF HistoryChains, Chained, NoFuture
<1> QED
  BY <1>3, <1>5, <1>6, <1>7

\* What a request is told changes nothing else of it.
LEMMA AnswerKeepsRequest ==
    ASSUME LeadTypes, NEW e \in StatusEdits, change[e] # NotAsked,
           NEW answer \in Answer, Answers(e, answer)
    PROVE  /\ change' \in [StatusEdits -> Asked \cup {NotAsked}]
           /\ change'[e] \in Asked
           /\ change'[e].at = answer /\ change'[e].rev = change[e].rev
           /\ \A f \in StatusEdits \ {e} : change'[f] = change[f]
<1>1. change[e] \in Asked /\ change \in [StatusEdits -> Asked \cup {NotAsked}]
  BY DEF LeadTypes
<1>2. [change[e] EXCEPT !.at = answer] \in Asked
  BY <1>1 DEF Asked
<1>3. change' = [change EXCEPT ![e] = [change[e] EXCEPT !.at = answer]]
  BY DEF Answers
<1>4. change'[e] = [change[e] EXCEPT !.at = answer]
  BY <1>1, <1>3
<1> QED
  BY <1>1, <1>2, <1>3, <1>4 DEF Asked

LEMMA AskedIsAsked == \A c \in Asked : c # NotAsked
  BY DEF Asked, Answer, NotAsked

\* A change keeps the revision it saw, and one that was made stays made.
LEMMA RevisionsStay ==
    ASSUME RevisionsMade, NEW e \in StatusEdits, change[e] # NotAsked,
           change[e].at = "ok" => change'[e].at = "ok",
           change'[e].rev = change[e].rev,
           \A f \in StatusEdits \ {e} : change'[f] = change[f],
           DOMAIN leads' = LeadIds,
           \A l \in LeadIds : \/ leads'[l].rev = leads[l].rev
                              \/ leads'[l].rev = e /\ change'[e].at = "ok"
    PROVE  RevisionsMade'
<1>1. \A f \in StatusEdits : change[f].at = "ok" => change'[f].at = "ok"
  OBVIOUS
<1>2. ASSUME NEW l \in LeadIds', leads'[l].rev \in StatusEdits
      PROVE  change'[leads'[l].rev].at = "ok"
  <2>1. l \in LeadIds
    BY DEF LeadIds
  <2>2. CASE leads'[l].rev = leads[l].rev
    BY <2>1, <2>2, <1>1, <1>2 DEF RevisionsMade
  <2>3. CASE leads'[l].rev = e /\ change'[e].at = "ok"
    BY <2>3
  <2> QED
    BY <2>1, <2>2, <2>3
<1>3. ASSUME NEW f \in StatusEdits, change'[f] # NotAsked, change'[f].rev \in StatusEdits
      PROVE  change'[change'[f].rev].at = "ok"
  <2>1. change[f] # NotAsked /\ change'[f].rev = change[f].rev
    BY <1>3
  <2>2. change[change[f].rev].at = "ok"
    BY <2>1, <1>3 DEF RevisionsMade
  <2> QED
    BY <2>1, <2>2, <1>1, <1>3
<1> QED
  BY <1>2, <1>3 DEF RevisionsMade

LEMMA ReadKeepsLeads ==
    ASSUME LeadInv, NEW e \in StatusEdits, ReadLead(e)
    PROVE  LeadInv'
<1> USE DEF LeadInv, ReadLead, LeadTypes, LeadIds, LeadRow
<1>1. change[e] \in Asked
  BY DEF NotAsked
<1>2. CASE \E answer \in {"stale", "notFound", "sameStatus"} : Answers(e, answer)
  <2>1. PICK answer \in {"stale", "notFound", "sameStatus"} : Answers(e, answer)
    BY <1>2
  <2>2. /\ change' \in [StatusEdits -> Asked \cup {NotAsked}]
        /\ change'[e].at = answer /\ change'[e].rev = change[e].rev
        /\ change'[e] \in Asked
        /\ \A f \in StatusEdits \ {e} : change'[f] = change[f]
    BY <1>1, <2>1, AskedIsAsked, AnswerKeepsRequest DEF Answer
  <2>3. LeadTypes'
    BY <2>2
  <2>4. RevisionsMade'
    BY <1>1, <2>2, AskedIsAsked, RevisionsStay
  <2>5. StatusSeen'
    BY <2>2 DEF StatusSeen, SeenRevision
  <2>6. HistoryChains' /\ NoFuture'
    BY DEF HistoryChains, Chained, NoFuture
  <2> QED
    BY <2>3, <2>4, <2>5, <2>6
<1>3. CASE /\ change[e].lead \in LeadIds
           /\ leads[change[e].lead].status # change[e].to
           /\ change' = [change EXCEPT ![e].at = "write",
                                       ![e].from = leads[change[e].lead].status]
  <2> DEFINE status == leads[change[e].lead].status
             new == [change[e] EXCEPT !.at = "write", !.from = status]
  <2>1. status \in AllStatuses
    BY <1>3
  <2>2. /\ new \in Asked /\ new.at = "write" /\ new.from = status
        /\ new.rev = change[e].rev /\ new.lead = change[e].lead /\ new.to = change[e].to
    BY <1>1, <2>1 DEF Asked, Answer
  <2>3. change'[e] = new /\ \A f \in StatusEdits \ {e} : change'[f] = change[f]
    BY <1>3
  <2>4. change' \in [StatusEdits -> Asked \cup {NotAsked}]
    BY <1>3, <2>2, <2>3
  <2> HIDE DEF new, status
  <2>5. LeadTypes'
    BY <2>4
  <2>6. RevisionsMade'
    BY <1>1, <2>2, <2>3, AskedIsAsked, RevisionsStay
  <2>7. StatusSeen'
    BY <1>3, <2>2, <2>3 DEF StatusSeen, SeenRevision, status
  <2>8. HistoryChains' /\ NoFuture'
    BY DEF HistoryChains, Chained, NoFuture
  <2> QED
    BY <2>5, <2>6, <2>7, <2>8
<1> QED
  BY <1>2, <1>3

\* A row that takes up where the history ended makes a longer chain.
LEMMA ChainGrows ==
    ASSUME NEW rows \in Seq(HistoryRow), Chained(rows),
           NEW row \in HistoryRow,
           row.from = rows[Len(rows)].to, row.from # row.to,
           rows[Len(rows)].when <= row.when
    PROVE  /\ Chained(Append(rows, row))
           /\ Append(rows, row)[Len(Append(rows, row))] = row
<1>1. Len(rows) \in Nat \ {0}
  BY DEF Chained
<1>2. Len(Append(rows, row)) = Len(rows) + 1
  OBVIOUS
<1>3. Append(rows, row)[Len(rows) + 1] = row
  OBVIOUS
<1>4. \A i \in 1..Len(rows) : Append(rows, row)[i] = rows[i]
  OBVIOUS
<1>5. Append(rows, row) # << >>
  BY <1>1, <1>2
<1>6. ASSUME NEW i \in 2..Len(Append(rows, row))
      PROVE  /\ Append(rows, row)[i].from = Append(rows, row)[i - 1].to
             /\ Append(rows, row)[i].from # Append(rows, row)[i].to
             /\ Append(rows, row)[i - 1].when <= Append(rows, row)[i].when
  <2>1. CASE i = Len(rows) + 1
    BY <2>1, <1>1, <1>3, <1>4
  <2>2. CASE i # Len(rows) + 1
    BY <2>2, <1>1, <1>2, <1>4 DEF Chained
  <2> QED
    BY <2>1, <2>2
<1> QED
  BY <1>1, <1>2, <1>3, <1>4, <1>5, <1>6 DEF Chained

LEMMA WriteKeepsLeads ==
    ASSUME LeadInv, NEW e \in StatusEdits, WriteStatus(e)
    PROVE  LeadInv'
<1> USE DEF LeadInv, WriteStatus, LeadTypes, LeadIds
<1>1. change[e] \in Asked
  BY DEF NotAsked
<1>2. /\ change' \in [StatusEdits -> Asked \cup {NotAsked}]
      /\ change'[e].at # "write" /\ change'[e].rev = change[e].rev
      /\ change'[e] # NotAsked
      /\ \A f \in StatusEdits \ {e} : change'[f] = change[f]
      /\ SeenRevision(e) => change'[e].at = "ok"
      /\ change'[e] \in Asked
  <2>1. PICK answer \in {"ok", "stale", "notFound"} :
           Answers(e, answer) /\ (SeenRevision(e) => answer = "ok")
    OBVIOUS
  <2> QED
    BY <1>1, <2>1, AskedIsAsked, AnswerKeepsRequest DEF Answer
<1>3. \A f \in StatusEdits : change[f].at = "ok" => change'[f].at = "ok"
  BY <1>2
<1>4. CASE ~ SeenRevision(e)
  <2>1. UNCHANGED <<leads, history>>
    BY <1>4
  <2>2. LeadTypes'
    BY <1>2, <2>1
  <2>3. RevisionsMade'
    BY <1>1, <1>2, <2>1, AskedIsAsked, RevisionsStay
  <2>4. StatusSeen'
    BY <1>2, <2>1 DEF StatusSeen, SeenRevision
  <2>5. HistoryChains' /\ NoFuture'
    BY <2>1 DEF HistoryChains, Chained, NoFuture
  <2> QED
    BY <2>2, <2>3, <2>4, <2>5
<1>5. CASE SeenRevision(e)
  <2> DEFINE l == change[e].lead
             row == [from |-> change[e].from, to |-> change[e].to, when |-> leadClock]
  <2>1. /\ l \in LeadIds /\ leads[l].rev = change[e].rev
        /\ leads[l].status = change[e].from /\ change[e].from # change[e].to
    BY <1>5 DEF SeenRevision, StatusSeen
  <2>2. /\ leads' = [leads EXCEPT ![l] = [status |-> change[e].to, rev |-> e]]
        /\ history' = [history EXCEPT ![l] = Append(@, row)]
    BY <1>5
  <2>3. row \in HistoryRow /\ [status |-> change[e].to, rev |-> e] \in LeadRow
    BY <1>1 DEF Asked, HistoryRow, LeadRow, AllStatuses, Revisions
  <2>4. Chained(history[l]) /\ history[l][Len(history[l])].to = leads[l].status
    BY <2>1 DEF HistoryChains
  <2>5. /\ Chained(Append(history[l], row))
        /\ Append(history[l], row)[Len(Append(history[l], row))] = row
    <3>1. history[l] \in Seq(HistoryRow) /\ history[l][Len(history[l])].when <= leadClock
      BY <2>1 DEF NoFuture
    <3> HIDE DEF l
    <3> QED
      BY <2>1, <2>3, <2>4, <3>1, ChainGrows
  <2>6. LeadTypes'
    <3>1. Append(history[l], row) \in Seq(HistoryRow)
      BY <2>1, <2>3
    <3> HIDE DEF l, row
    <3> QED
      BY <1>2, <2>1, <2>2, <2>3, <3>1
  <2>7. RevisionsMade'
    <3>1. \A k \in LeadIds \ {l} : leads'[k] = leads[k]
      BY <2>2
    <3>2. leads'[l].rev = e /\ DOMAIN leads' = LeadIds
      BY <2>1, <2>2
    <3> QED
      BY <1>1, <1>2, <1>5, <3>1, <3>2, AskedIsAsked, RevisionsStay
  <2>8. StatusSeen'
    <3> SUFFICES ASSUME NEW f \in StatusEdits, change'[f].at = "write", SeenRevision(f)'
                 PROVE  /\ leads'[change'[f].lead].status = change'[f].from
                        /\ change'[f].from # change'[f].to
      BY DEF StatusSeen
    <3>1. f # e /\ change'[f] = change[f]
      BY <1>2
    <3>2. change[f] \in Asked /\ change[f] # NotAsked
      BY <3>1 DEF NotAsked
    <3>3. change[f].rev # e
      <4>1. change[e].at # "ok"
        OBVIOUS
      <4> QED
        BY <3>2, <4>1 DEF RevisionsMade
    <3>4. change[f].lead # l
      BY <2>1, <2>2, <3>1, <3>3 DEF SeenRevision
    <3> QED
      BY <2>2, <3>1, <3>4 DEF StatusSeen, SeenRevision
  <2>9. HistoryChains' /\ NoFuture'
    <3>1. \A k \in LeadIds \ {l} : leads'[k] = leads[k] /\ history'[k] = history[k]
      BY <2>2
    <3>2. leads'[l].status = row.to /\ history'[l] = Append(history[l], row)
      BY <2>1, <2>2
    <3>3. DOMAIN leads' = LeadIds /\ DOMAIN history' = LeadIds /\ notes' = notes
      BY <2>2
    <3>4. leadClock' = leadClock /\ row.when = leadClock
      OBVIOUS
    <3>5. /\ Chained(history'[l]) /\ history'[l][Len(history'[l])] = row
      BY <2>5, <3>2
    <3> HIDE DEF l, row
    <3>6. HistoryChains'
      <4> SUFFICES ASSUME NEW k \in LeadIds
                   PROVE  /\ Chained(history'[k])
                          /\ history'[k][Len(history'[k])].to = leads'[k].status
        BY <3>3 DEF HistoryChains
      <4>1. CASE k = l
        BY <4>1, <3>2, <3>5
      <4>2. CASE k # l
        BY <4>2, <3>1 DEF HistoryChains
      <4> QED
        BY <4>1, <4>2
    <3>7. NoFuture'
      <4> SUFFICES ASSUME NEW k \in LeadIds
                   PROVE  history'[k][Len(history'[k])].when <= leadClock
        BY <3>3, <3>4 DEF NoFuture
      <4>1. CASE k = l
        BY <4>1, <3>4, <3>5
      <4>2. CASE k # l
        BY <4>2, <3>1 DEF NoFuture
      <4> QED
        BY <4>1, <4>2
    <3> QED
      BY <3>6, <3>7
  <2> QED
    BY <2>6, <2>7, <2>8, <2>9
<1> QED
  BY <1>4, <1>5

LEMMA NoteKeepsLeads ==
    ASSUME LeadInv, NEW e \in NoteEdits, AddNote(e)
    PROVE  LeadInv'
<1> USE DEF LeadInv, AddNote, LeadTypes, LeadIds
<1>1. LeadTypes'
  OBVIOUS
<1>2. RevisionsMade' /\ StatusSeen'
  BY DEF RevisionsMade, StatusSeen, SeenRevision
<1>3. HistoryChains' /\ NoFuture'
  BY DEF HistoryChains, NoFuture
<1> QED
  BY <1>1, <1>2, <1>3

LEMMA DeleteKeepsLeads ==
    ASSUME LeadInv, NEW l \in LeadIds, DeleteLead(l)
    PROVE  LeadInv'
<1> USE DEF LeadInv, DeleteLead, LeadTypes, LeadIds
<1>1. LeadTypes'
  OBVIOUS
<1>2. RevisionsMade' /\ StatusSeen'
  BY DEF RevisionsMade, StatusSeen, SeenRevision
<1>3. HistoryChains' /\ NoFuture'
  BY DEF HistoryChains, NoFuture
<1> QED
  BY <1>1, <1>2, <1>3

LEMMA LeadStep == LeadInv /\ [LeadsNext]_leadVars => LeadInv'
<1> SUFFICES ASSUME LeadInv, [LeadsNext]_leadVars PROVE LeadInv'
  OBVIOUS
<1>1. CASE LeadTick
  BY <1>1, TickKeepsLeads
<1>2. ASSUME NEW e \in StatusEdits, OpenLead(e) \/ ReadLead(e) \/ WriteStatus(e)
      PROVE  LeadInv'
  BY <1>2, OpenKeepsLeads, ReadKeepsLeads, WriteKeepsLeads
<1>3. ASSUME NEW e \in NoteEdits, AddNote(e) PROVE LeadInv'
  BY <1>3, NoteKeepsLeads
<1>4. ASSUME NEW l \in LeadIds, DeleteLead(l) PROVE LeadInv'
  BY <1>4, DeleteKeepsLeads
<1>5. CASE UNCHANGED leadVars
  BY <1>5 DEF leadVars, LeadInv, LeadTypes, LeadIds, RevisionsMade, StatusSeen,
              SeenRevision, NoFuture, HistoryChains
<1> QED
  BY <1>1, <1>2, <1>3, <1>4, <1>5 DEF LeadsNext

\* However many administrators change a lead at once, its history tells, row by
\* row and in the order of the dates, how it came to the status it has
\* (admin-leads.service.ts, changeStatus).
THEOREM HistoryIsAChain == LeadsSpec => []HistoryChains
<1>1. LeadsSpec => []LeadInv
  BY LeadInit, LeadStep, PTL DEF LeadsSpec
<1>2. LeadInv => HistoryChains
  BY DEF LeadInv
<1> QED
  BY <1>1, <1>2, PTL

-----------------------------------------------------------------------------
(* The lockout and the sessions of an administrator.                       *)


\* What was sent reached the database a short time ago.
Prompt(now) == now <= accountClock /\ accountClock <= now + Delay

AttemptRow == [at : {"new", "verify", "locked", "wrong", "right"}]
                \cup [at : {"sent"}, now : Nat]

LockoutTypes ==
    /\ accountClock \in Nat
    /\ account \in [count : Nat, until : Nat \cup {NotLocked}]
    /\ attempt \in [Attempts -> AttemptRow]
    /\ counted \in Seq(Nat)

AttemptsPrompt ==
    \A a \in Attempts : attempt[a].at = "sent" => Prompt(attempt[a].now)

\* Attempts are counted in the order of time.
CountedInOrder ==
    /\ \A i, j \in 1..Len(counted) : i <= j => counted[i] <= counted[j]
    /\ \A i \in 1..Len(counted) : counted[i] <= accountClock

\* The attempts counted since a lockout ended came after it.
SinceLockout ==
    account.until = NotLocked =>
        /\ account.count < MaxAttempts /\ account.count <= Len(counted)
        /\ account.count < Len(counted) =>
              /\ account.count # 0
              /\ counted[Len(counted)] - counted[Len(counted) - account.count]
                   >= Lockout - Delay

LockedLongEnough ==
    account.until # NotLocked =>
        /\ counted # << >>
        /\ account.until - counted[Len(counted)] >= Lockout - Delay

LockoutInv ==
    /\ LockoutTypes
    /\ AttemptsPrompt
    /\ CountedInOrder
    /\ SinceLockout
    /\ LockedLongEnough
    /\ LockoutHolds

LEMMA LockoutInit == AccountsInit => LockoutInv
<1> SUFFICES ASSUME AccountsInit PROVE LockoutInv
  OBVIOUS
<1> USE AccountLimits DEF AccountsInit
<1>1. LockoutTypes
  BY DEF LockoutTypes, AttemptRow, Unsent, NotLocked
<1>2. AttemptsPrompt
  BY DEF AttemptsPrompt, Unsent
<1>3. CountedInOrder /\ SinceLockout /\ LockedLongEnough /\ LockoutHolds
  BY DEF CountedInOrder, SinceLockout, LockedLongEnough, LockoutHolds
<1> QED
  BY <1>1, <1>2, <1>3 DEF LockoutInv

LEMMA TickKeepsLockout == LockoutInv /\ AccountTick => LockoutInv'
<1> SUFFICES ASSUME LockoutInv, AccountTick PROVE LockoutInv'
  OBVIOUS
<1> USE AccountLimits DEF LockoutInv, LockoutTypes, AccountTick, lockoutVars
<1>1. \A a \in Attempts : attempt[a].at = "sent" => accountClock < attempt[a].now + Delay
  BY DEF InFlight
<1>2. AttemptsPrompt'
  BY <1>1 DEF AttemptsPrompt, Prompt, AttemptRow
<1>3. LockoutTypes'
  OBVIOUS
<1>4. CountedInOrder'
  <2>1. \A i \in 1..Len(counted) : counted[i] \in Nat
    OBVIOUS
  <2> QED
    BY <2>1 DEF CountedInOrder
<1>5. SinceLockout' /\ LockedLongEnough' /\ LockoutHolds'
  BY DEF SinceLockout, LockedLongEnough, LockoutHolds
<1> QED
  BY <1>2, <1>3, <1>4, <1>5

LEMMA SendKeepsLockout ==
    ASSUME LockoutInv, NEW a \in Attempts, SendPassword(a)
    PROVE  LockoutInv'
<1> USE AccountLimits DEF LockoutInv, LockoutTypes, SendPassword
<1>1. [at |-> "sent", now |-> accountClock] \in AttemptRow
  BY DEF AttemptRow
<1>2. LockoutTypes'
  BY <1>1
<1>3. AttemptsPrompt'
  BY DEF AttemptsPrompt, Prompt
<1>4. CountedInOrder' /\ SinceLockout' /\ LockedLongEnough' /\ LockoutHolds'
  BY DEF CountedInOrder, SinceLockout, LockedLongEnough, LockoutHolds
<1> QED
  BY <1>2, <1>3, <1>4

LEMMA EndKeepsLockout ==
    ASSUME LockoutInv, NEW a \in Attempts, WrongPassword(a) \/ RightPassword(a)
    PROVE  LockoutInv'
<1> USE AccountLimits DEF LockoutInv, LockoutTypes
<1>1. PICK end \in {"wrong", "right"} : attempt' = [attempt EXCEPT ![a] = [at |-> end]]
  BY DEF WrongPassword, RightPassword
<1>2. [at |-> end] \in AttemptRow /\ [at |-> end].at # "sent"
  BY <1>1 DEF AttemptRow
<1>3. accountClock' = accountClock
  BY DEF WrongPassword, RightPassword
<1>4. AttemptsPrompt'
  BY <1>1, <1>2, <1>3 DEF AttemptsPrompt, Prompt
<1>5. CASE WrongPassword(a)
  <2>1. UNCHANGED <<account, counted>>
    BY <1>5 DEF WrongPassword
  <2>2. LockoutTypes'
    BY <1>1, <1>2, <1>3, <2>1
  <2>3. CountedInOrder' /\ SinceLockout' /\ LockedLongEnough' /\ LockoutHolds'
    BY <1>3, <2>1 DEF CountedInOrder, SinceLockout, LockedLongEnough, LockoutHolds
  <2> QED
    BY <1>4, <2>2, <2>3
<1>6. CASE RightPassword(a)
  <2>1. account' = [count |-> 0, until |-> NotLocked] /\ counted' = << >>
    BY <1>6 DEF RightPassword
  <2>2. LockoutTypes'
    BY <1>1, <1>2, <1>3, <2>1
  <2>3. CountedInOrder' /\ SinceLockout' /\ LockedLongEnough' /\ LockoutHolds'
    BY <2>1 DEF CountedInOrder, SinceLockout, LockedLongEnough, LockoutHolds
  <2> QED
    BY <1>4, <2>2, <2>3
<1> QED
  BY <1>5, <1>6

LEMMA ReserveKeepsLockout ==
    ASSUME LockoutInv, NEW a \in Attempts, ReserveAttempt(a)
    PROVE  LockoutInv'
<1> USE AccountLimits
<1> DEFINE now == attempt[a].now
           n == Len(counted)
           k == account.count
           unlocked == account.until = NotLocked
<1>1. now \in Nat /\ Prompt(now) /\ accountClock' = accountClock
  BY DEF ReserveAttempt, LockoutInv, LockoutTypes, AttemptsPrompt, AttemptRow
<1>2. CASE ~ (unlocked \/ account.until <= now)
  <2>1. /\ attempt' = [attempt EXCEPT ![a] = [at |-> "locked"]]
        /\ UNCHANGED <<account, counted>>
    BY <1>2 DEF ReserveAttempt
  <2>2. [at |-> "locked"] \in AttemptRow
    BY DEF AttemptRow
  <2>3. LockoutTypes' /\ AttemptsPrompt'
    BY <1>1, <2>1, <2>2 DEF LockoutInv, LockoutTypes, AttemptsPrompt, Prompt
  <2>4. CountedInOrder' /\ SinceLockout' /\ LockedLongEnough' /\ LockoutHolds'
    BY <1>1, <2>1
       DEF LockoutInv, CountedInOrder, SinceLockout, LockedLongEnough, LockoutHolds
  <2> QED
    BY <2>3, <2>4 DEF LockoutInv
<1>3. CASE unlocked \/ account.until <= now
  <2> DEFINE locks == unlocked /\ AtLimit(account.count + 1)
  <2>1. /\ account' = [count |-> IF unlocked THEN account.count + 1 ELSE 1,
                       until |-> IF locks THEN now + Lockout ELSE NotLocked]
        /\ counted' = Append(counted, accountClock)
        /\ attempt' = [attempt EXCEPT ![a] = [at |-> "verify"]]
    BY <1>3 DEF ReserveAttempt
  <2>2. [at |-> "verify"] \in AttemptRow
    BY DEF AttemptRow
  <2>3. LockoutTypes' /\ AttemptsPrompt'
    BY <1>1, <2>1, <2>2 DEF LockoutInv, LockoutTypes, AttemptsPrompt, Prompt
  <2>4. /\ n \in Nat /\ k \in Nat /\ accountClock \in Nat
        /\ Len(counted') = n + 1 /\ counted'[n + 1] = accountClock
        /\ \A i \in 1..n : counted'[i] = counted[i] /\ counted[i] \in Nat
    BY <2>1 DEF LockoutInv, LockoutTypes
  \* The invariant, in terms of n.
  <2>5. /\ \A i, j \in 1..n : i <= j => counted[i] <= counted[j]
        /\ \A i \in 1..n : counted[i] <= accountClock
        /\ \A i \in 1..(n - MaxAttempts) :
              counted[i + MaxAttempts] - counted[i] >= Lockout - Delay
    BY DEF LockoutInv, CountedInOrder, LockoutHolds
  <2>6. /\ unlocked =>
              /\ k < MaxAttempts /\ k <= n
              /\ k < n => k # 0 /\ counted[n] - counted[n - k] >= Lockout - Delay
        /\ ~ unlocked =>
              /\ account.until \in Nat /\ n # 0
              /\ account.until - counted[n] >= Lockout - Delay
    BY DEF LockoutInv, LockoutTypes, SinceLockout, LockedLongEnough
  <2>7. /\ unlocked => account'.count = k + 1
                       /\ account'.until = IF AtLimit(k + 1) THEN now + Lockout
                                           ELSE NotLocked
        /\ ~ unlocked => account'.count = 1 /\ account'.until = NotLocked
    BY <2>1
  <2>8. ~ unlocked => account.until <= accountClock
    BY <1>1, <1>3, <2>4, <2>6 DEF Prompt
  <2>9. accountClock <= now + Delay
    BY <1>1 DEF Prompt
  <2> HIDE DEF n, k, now, unlocked, locks
  <2>10. CountedInOrder'
    <3>1. ASSUME NEW i \in 1..n + 1, NEW j \in 1..n + 1, i <= j
          PROVE  counted'[i] <= counted'[j]
      <4>1. CASE j = n + 1
        BY <3>1, <4>1, <2>4, <2>5
      <4>2. CASE j # n + 1
        BY <3>1, <4>2, <2>4, <2>5
      <4> QED
        BY <4>1, <4>2
    <3>2. \A i \in 1..n + 1 : counted'[i] <= accountClock'
      BY <1>1, <2>4, <2>5
    <3> QED
      BY <2>4, <3>1, <3>2 DEF CountedInOrder
  \* Between the attempt before the last k and this one lies a lockout.
  <2>11. /\ unlocked /\ k < n =>
               n - k \in 1..n /\ accountClock - counted[n - k] >= Lockout - Delay
         /\ ~ unlocked => accountClock - counted[n] >= Lockout - Delay
    <3>1. n # 0 => n \in 1..n /\ counted[n] \in Nat /\ counted[n] <= accountClock
      BY <2>4, <2>5
    <3>2. CASE unlocked /\ k < n
      <4>1. n - k \in 1..n
        BY <2>4, <2>6, <3>2
      <4>2. counted[n - k] \in Nat
        BY <2>4, <4>1
      <4> QED
        BY <2>4, <2>6, <3>1, <3>2, <4>1, <4>2
    <3>3. CASE ~ unlocked
      BY <2>4, <2>6, <2>8, <3>1, <3>3
    <3> QED
      BY <3>2, <3>3
  <2>12. SinceLockout'
    <3> SUFFICES ASSUME account'.until = NotLocked
                 PROVE  LET m == account'.count
                        IN  /\ m < MaxAttempts /\ m <= n + 1
                            /\ m < n + 1 =>
                                  /\ m # 0
                                  /\ counted'[n + 1] - counted'[(n + 1) - m]
                                       >= Lockout - Delay
      BY <2>4 DEF SinceLockout
    <3>1. CASE unlocked
      <4>1. account'.count = k + 1 /\ k + 1 < MaxAttempts
        BY <1>1, <2>4, <2>7, <3>1 DEF AtLimit, NotLocked
      <4>2. (n + 1) - (k + 1) = n - k
        BY <2>4
      <4>3. k < n => counted'[n - k] = counted[n - k]
        BY <2>4, <2>11, <3>1
      <4> QED
        BY <2>4, <2>6, <2>11, <3>1, <4>1, <4>2, <4>3
    <3>2. CASE ~ unlocked
      <4>1. account'.count = 1 /\ (n + 1) - 1 = n /\ counted'[n] = counted[n]
        BY <2>4, <2>6, <2>7, <3>2
      <4> QED
        BY <2>4, <2>6, <2>11, <3>2, <4>1
    <3> QED
      BY <3>1, <3>2
  <2>13. LockedLongEnough'
    <3> DEFINE until == account'.until
               last == counted'[Len(counted')]
    <3>1. until \in {NotLocked, now + Lockout}
      BY <2>7
    <3>2. counted' # << >> /\ last = accountClock
      BY <2>1, <2>4
    <3>3. until # NotLocked => until - last >= Lockout - Delay
      <4> HIDE DEF until, last
      <4> QED
        BY <1>1, <2>4, <2>9, <3>1, <3>2
    <3> QED
      BY <3>2, <3>3 DEF LockedLongEnough
  <2>14. ASSUME NEW i \in 1..n + 1 - MaxAttempts
         PROVE  counted'[i + MaxAttempts] - counted'[i] >= Lockout - Delay
    <3>1. i \in 1..n /\ counted'[i] = counted[i] /\ counted[i] \in Nat
      BY <2>4
    <3>2. CASE i = n + 1 - MaxAttempts
      <4>1. i + MaxAttempts = n + 1
        BY <2>4, <3>2
      <4>2. CASE unlocked
        <5>1. k < n /\ i <= n - k
          BY <2>4, <2>6, <3>1, <3>2, <4>2
        <5>2. n - k \in 1..n /\ accountClock - counted[n - k] >= Lockout - Delay
          BY <2>11, <4>2, <5>1
        <5>3. counted[i] <= counted[n - k] /\ counted[n - k] \in Nat
          BY <2>4, <2>5, <3>1, <5>1, <5>2
        <5> QED
          BY <2>4, <3>1, <4>1, <5>2, <5>3
      <4>3. CASE ~ unlocked
        <5>1. n \in 1..n /\ i <= n
          BY <2>4, <3>1
        <5>2. counted[i] <= counted[n] /\ counted[n] \in Nat
          BY <2>4, <2>5, <3>1, <5>1
        <5> QED
          BY <2>4, <2>11, <3>1, <4>1, <4>3, <5>2
      <4> QED
        BY <4>2, <4>3
    <3>3. CASE i # n + 1 - MaxAttempts
      <4>1. i \in 1..(n - MaxAttempts) /\ i + MaxAttempts \in 1..n
        BY <2>4, <3>3
      <4> QED
        BY <2>4, <2>5, <3>1, <4>1
    <3> QED
      BY <3>2, <3>3
  <2>15. LockoutHolds'
    BY <2>4, <2>14 DEF LockoutHolds
  <2> QED
    BY <2>3, <2>10, <2>12, <2>13, <2>15 DEF LockoutInv
<1> QED
  BY <1>2, <1>3

LEMMA LockoutStep ==
    LockoutInv /\ [AccountTick \/ LockoutNext]_<<accountClock, lockoutVars>> => LockoutInv'
<1> SUFFICES ASSUME LockoutInv,
                    [AccountTick \/ LockoutNext]_<<accountClock, lockoutVars>>
             PROVE  LockoutInv'
  OBVIOUS
<1>1. CASE AccountTick
  BY <1>1, TickKeepsLockout
<1>2. ASSUME NEW a \in Attempts,
             \/ SendPassword(a) \/ ReserveAttempt(a)
             \/ WrongPassword(a) \/ RightPassword(a)
      PROVE  LockoutInv'
  BY <1>2, SendKeepsLockout, ReserveKeepsLockout, EndKeepsLockout
<1>3. CASE UNCHANGED <<accountClock, lockoutVars>>
  BY <1>3 DEF lockoutVars, LockoutInv, LockoutTypes, AttemptsPrompt, Prompt,
              CountedInOrder, SinceLockout, LockedLongEnough, LockoutHolds
<1> QED
  BY <1>1, <1>2, <1>3 DEF LockoutNext

-----------------------------------------------------------------------------
(* Sessions.                                                               *)

\* What of a session's last request may be forgotten.
Blur == IF Throttle <= Delay THEN Delay ELSE Throttle

LEMMA BlurIsMax == Blur \in Nat /\ Blur = Max({Throttle, Delay})
<1> USE AccountLimits
<1>1. Blur \in {Throttle, Delay} /\ \A y \in {Throttle, Delay} : Blur >= y
  BY DEF Blur
<1>2. \A x \in {Throttle, Delay} :
        (\A y \in {Throttle, Delay} : x >= y) => x = Blur
  BY DEF Blur
<1>3. Max({Throttle, Delay})
        = CHOOSE x \in {Throttle, Delay} : \A y \in {Throttle, Delay} : x >= y
  BY DEF Max
<1> QED
  BY <1>1, <1>2, <1>3 DEF Blur

LEMMA GreaterOfTwo ==
    ASSUME NEW a \in Nat, NEW b \in Nat
    PROVE  Max({a, b}) = IF a <= b THEN b ELSE a
<1> DEFINE m == IF a <= b THEN b ELSE a
<1>1. m \in {a, b} /\ \A y \in {a, b} : m >= y
  OBVIOUS
<1>2. \A x \in {a, b} : (\A y \in {a, b} : x >= y) => x = m
  OBVIOUS
<1>3. Max({a, b}) = CHOOSE x \in {a, b} : \A y \in {a, b} : x >= y
  BY DEF Max
<1> HIDE DEF m
<1>4. Max({a, b}) = m
  BY <1>1, <1>2, <1>3
<1> QED
  BY <1>4 DEF m

SessionRow == [created : Nat, seen : Nat]
Known == DOMAIN used
RequestRow == [at : {"new", "unauthenticated"}]
                \cup [at : {"read", "seen", "ok", "failed", "expired"},
                      session : Known, row : SessionRow, now : Nat, used : Nat]

SessionTypes ==
    /\ accountClock \in Nat
    /\ sessions \in [DOMAIN sessions -> SessionRow]
    /\ DOMAIN sessions \subseteq Known
    /\ used \in [Known -> Nat]
    /\ request \in [Users -> RequestRow]

\* Requests in flight have read the session a short time ago, as it was marked.
ReadersPrompt ==
    \A u \in Users :
        /\ request[u].at \in {"read", "seen"} => Prompt(request[u].now)
        /\ request[u].at \in {"read", "seen", "expired"} =>
              request[u].row.seen >= request[u].used - Blur
        /\ request[u].at = "expired" => IsExpired(request[u].row, request[u].now)

\* A session is marked with its last use, or with little less.
MarkedUse ==
    /\ \A s \in Known : used[s] <= accountClock
    /\ \A s \in DOMAIN sessions : sessions[s].seen >= used[s] - Blur

\* Since a request read the session, it was only marked with a time that is not
\* much earlier than the request's own.
RowStands ==
    \A u \in Users : request[u].at = "read" =>
        LET s == request[u].session IN
        s \in DOMAIN sessions =>
            \/ sessions[s].seen >= request[u].row.seen
            \/ sessions[s].seen >= request[u].now - Delay

SessionInv ==
    /\ SessionTypes
    /\ ReadersPrompt
    /\ MarkedUse
    /\ RowStands

LEMMA SessionInit == AccountsInit => SessionInv
<1> SUFFICES ASSUME AccountsInit PROVE SessionInv
  OBVIOUS
<1> USE DEF AccountsInit, Known
<1>1. DOMAIN sessions = {} /\ DOMAIN used = {}
  OBVIOUS
<1>2. SessionTypes
  <2>1. Unsent \in RequestRow
    BY DEF Unsent, RequestRow
  <2>2. request \in [Users -> RequestRow]
    BY <2>1
  <2>3. sessions \in [{} -> SessionRow] /\ used \in [{} -> Nat]
    BY <1>1
  <2> QED
    BY <1>1, <2>2, <2>3 DEF SessionTypes
<1>3. ReadersPrompt /\ MarkedUse /\ RowStands
  BY <1>1 DEF ReadersPrompt, MarkedUse, RowStands, Unsent
<1> QED
  BY <1>2, <1>3 DEF SessionInv

LEMMA TickKeepsSessions == SessionInv /\ AccountTick => SessionInv'
<1> SUFFICES ASSUME SessionInv, AccountTick PROVE SessionInv'
  OBVIOUS
<1> USE AccountLimits DEF SessionInv, SessionTypes, AccountTick, sessionVars, Known
<1>1. \A u \in Users : request[u].at \in {"read", "seen"} =>
        accountClock < request[u].now + Delay /\ request[u].now \in Nat
  BY DEF InFlight, RequestRow
<1>2. SessionTypes'
  BY DEF RequestRow
<1>3. ReadersPrompt'
  BY <1>1 DEF ReadersPrompt, Prompt, IsExpired, Blur
<1>4. MarkedUse' /\ RowStands'
  BY DEF MarkedUse, RowStands, Blur
<1> QED
  BY <1>2, <1>3, <1>4

\* A new session is nobody's, whatever requests are under way.
LEMMA CreateKeepsSessions ==
    ASSUME SessionInv, NEW s \in Sessions, CreateSession(s)
    PROVE  SessionInv'
<1> USE AccountLimits DEF SessionInv, SessionTypes
<1> DEFINE row == [created |-> accountClock, seen |-> accountClock]
<1>1. /\ s \notin Known /\ s \notin DOMAIN sessions
      /\ UNCHANGED <<accountClock, request>>
  BY DEF CreateSession, Known
<1>2. /\ DOMAIN sessions' = DOMAIN sessions \cup {s}
      /\ \A t \in DOMAIN sessions' :
            sessions'[t] = IF t = s THEN row ELSE sessions[t]
      /\ sessions' = [t \in DOMAIN sessions' |-> sessions'[t]]
  BY DEF CreateSession
<1>3. /\ Known' = Known \cup {s}
      /\ \A t \in Known' : used'[t] = IF t = s THEN accountClock ELSE used[t]
      /\ used' = [t \in Known' |-> used'[t]]
  BY DEF CreateSession, Known
<1>4. row \in SessionRow /\ row.seen = accountClock
  BY DEF SessionRow
<1> HIDE DEF row
<1>5. SessionTypes'
  <2>1. sessions' \in [DOMAIN sessions' -> SessionRow] /\ used' \in [Known' -> Nat]
    BY <1>2, <1>3, <1>4
  <2>2. RequestRow \subseteq RequestRow'
    BY <1>3 DEF RequestRow
  <2>3. request' \in [Users -> RequestRow']
    BY <1>1, <2>2
  <2> QED
    BY <1>1, <1>2, <1>3, <2>1, <2>3
<1>6. ReadersPrompt'
  BY <1>1 DEF ReadersPrompt, Prompt, IsExpired, Blur
<1>7. MarkedUse'
  BY <1>1, <1>2, <1>3, <1>4 DEF MarkedUse, Blur
<1>8. RowStands'
  <2>1. \A u \in Users : request[u].at = "read" => request[u].session # s
    BY <1>1 DEF RequestRow
  <2> QED
    BY <1>1, <1>2, <2>1 DEF RowStands
<1> QED
  BY <1>5, <1>6, <1>7, <1>8

\* Sessions may go at any time.
LEMMA RemovalKeepsSessions ==
    ASSUME SessionInv, NEW s,
           sessions' = [t \in DOMAIN sessions \ {s} |-> sessions[t]],
           UNCHANGED <<accountClock, used>>,
           request' \in [Users -> RequestRow],
           \A u \in Users : request'[u].at = "read" => request'[u] = request[u],
           ReadersPrompt'
    PROVE  SessionInv'
<1> USE DEF SessionInv, SessionTypes, Known
<1>1. SessionTypes'
  BY DEF RequestRow
<1>2. MarkedUse'
  BY DEF MarkedUse, Blur
<1>3. RowStands'
  BY DEF RowStands
<1> QED
  BY <1>1, <1>2, <1>3

LEMMA DeleteKeepsSessions ==
    ASSUME SessionInv, NEW s \in Sessions, DeleteSession(s)
    PROVE  SessionInv'
<1>1. ReadersPrompt'
  BY DEF SessionInv, DeleteSession, ReadersPrompt, Prompt, IsExpired, Blur
<1>2. request' \in [Users -> RequestRow]
  BY DEF SessionInv, SessionTypes, DeleteSession
<1> QED
  BY <1>1, <1>2, RemovalKeepsSessions DEF DeleteSession

LEMMA ReadKeepsSessions ==
    ASSUME SessionInv, NEW u \in Users, ReadSession(u)
    PROVE  SessionInv'
<1> USE AccountLimits DEF SessionInv, SessionTypes
<1>1. /\ request[u] = Unsent /\ UNCHANGED <<accountClock, sessions, used>>
  BY DEF ReadSession
<1>2. PICK s \in DOMAIN used :
        IF s \in DOMAIN sessions
        THEN request' = [request EXCEPT ![u] =
                [at |-> "read", session |-> s, row |-> sessions[s],
                 now |-> accountClock, used |-> used[s]]]
        ELSE Replies(u, "unauthenticated")
  BY DEF ReadSession
<1>3. CASE s \in DOMAIN sessions
  <2> DEFINE new == [at |-> "read", session |-> s, row |-> sessions[s],
                     now |-> accountClock, used |-> used[s]]
  <2>1. request' = [request EXCEPT ![u] = new]
    BY <1>2, <1>3
  <2>2. /\ new \in RequestRow /\ new.at = "read" /\ new.session = s
        /\ new.row = sessions[s] /\ new.now = accountClock /\ new.used = used[s]
    BY <1>3 DEF RequestRow, Known
  <2> HIDE DEF new
  <2>3. \A v \in Users : request'[v] = IF v = u THEN new ELSE request[v]
    BY <2>1
  <2>4. SessionTypes'
    BY <1>1, <2>1, <2>2 DEF Known, RequestRow
  <2>5. new.row.seen >= new.used - Blur
    BY <1>3, <2>2 DEF MarkedUse
  <2>6. ReadersPrompt'
    BY <1>1, <2>2, <2>3, <2>5 DEF ReadersPrompt, Prompt, IsExpired, Blur
  <2>7. MarkedUse'
    BY <1>1 DEF MarkedUse, Known, Blur
  <2>8. RowStands'
    BY <1>1, <1>3, <2>2, <2>3 DEF RowStands, SessionRow
  <2> QED
    BY <2>4, <2>6, <2>7, <2>8
<1>4. CASE s \notin DOMAIN sessions
  <2>1. request' = [request EXCEPT ![u] = [at |-> "unauthenticated"]]
    BY <1>1, <1>2, <1>4 DEF Replies, Unsent
  <2>2. [at |-> "unauthenticated"] \in RequestRow
    BY DEF RequestRow
  <2>3. SessionTypes'
    BY <1>1, <2>1, <2>2 DEF Known, RequestRow
  <2>4. ReadersPrompt'
    BY <1>1, <2>1 DEF ReadersPrompt, Prompt, IsExpired, Blur
  <2>5. MarkedUse' /\ RowStands'
    BY <1>1, <2>1 DEF MarkedUse, RowStands, Known, Blur
  <2> QED
    BY <2>3, <2>4, <2>5
<1> QED
  BY <1>3, <1>4

\* What a request is told changes nothing else of it.
LEMMA RepliesKeep ==
    ASSUME SessionTypes, NEW u \in Users, request[u].at \in {"read", "seen"},
           NEW answer \in {"seen", "ok", "failed", "expired"}, Replies(u, answer)
    PROVE  /\ request' \in [Users -> RequestRow]
           /\ request'[u].at = answer
           /\ request'[u].session = request[u].session
           /\ request'[u].row = request[u].row
           /\ request'[u].now = request[u].now
           /\ request'[u].used = request[u].used
           /\ \A v \in Users \ {u} : request'[v] = request[v]
<1> DEFINE new == [request[u] EXCEPT !.at = answer]
<1>1. request' = [request EXCEPT ![u] = new]
  BY DEF Replies
<1>2. /\ new \in RequestRow /\ new.at = answer
      /\ new.session = request[u].session /\ new.row = request[u].row
      /\ new.now = request[u].now /\ new.used = request[u].used
  BY DEF SessionTypes, RequestRow
<1> HIDE DEF new
<1> QED
  BY <1>1, <1>2 DEF SessionTypes

\* The use of a session that is still there is no more than Blur ahead of its mark.
LEMMA UseNoted ==
    ASSUME SessionInv, NEW u \in Users, request[u].at \in {"read", "seen"}, LetsIn(u)
    PROVE  LET s == request[u].session
               now == request[u].now
           IN  /\ s \in Known /\ now \in Nat
               /\ used' \in [Known -> Nat] /\ Known' = Known
               /\ used'[s] = IF used[s] <= now THEN now ELSE used[s]
               /\ \A t \in Known \ {s} : used'[t] = used[t]
<1> DEFINE s == request[u].session
           now == request[u].now
<1>1. s \in Known /\ now \in Nat /\ used[s] \in Nat
  BY DEF SessionInv, SessionTypes, RequestRow
<1>2. Max({used[s], now}) = IF used[s] <= now THEN now ELSE used[s]
  BY <1>1, GreaterOfTwo
<1>3. used' = [used EXCEPT ![s] = Max({used[s], now})]
  BY DEF LetsIn
<1> HIDE DEF s, now
<1>4. /\ used' \in [Known -> Nat] /\ Known' = Known
      /\ used'[s] = IF used[s] <= now THEN now ELSE used[s]
      /\ \A t \in Known \ {s} : used'[t] = used[t]
  BY <1>1, <1>2, <1>3 DEF SessionInv, SessionTypes, Known
<1> QED
  BY <1>1, <1>4 DEF s, now

LEMMA ValidateKeepsSessions ==
    ASSUME SessionInv, NEW u \in Users, ValidateSession(u)
    PROVE  SessionInv'
<1> USE AccountLimits DEF SessionInv, SessionTypes
<1> DEFINE s == request[u].session
           row == request[u].row
           now == request[u].now
<1>1. /\ request[u].at = "read" /\ accountClock' = accountClock
      /\ s \in Known /\ row \in SessionRow /\ now \in Nat
      /\ Prompt(now) /\ row.seen >= request[u].used - Blur
  BY DEF ValidateSession, RequestRow, ReadersPrompt
<1>2. CASE IsExpired(row, now)
  <2>1. /\ sessions' = [t \in DOMAIN sessions \ {s} |-> sessions[t]]
        /\ Replies(u, "expired") /\ UNCHANGED used
    BY <1>2 DEF ValidateSession
  <2>2. /\ request' \in [Users -> RequestRow] /\ request'[u].at = "expired"
        /\ request'[u].row = row /\ request'[u].now = now
        /\ request'[u].used = request[u].used
        /\ \A v \in Users \ {u} : request'[v] = request[v]
    BY <1>1, <2>1, RepliesKeep
  <2>3. ReadersPrompt'
    <3> SUFFICES ASSUME NEW v \in Users
                 PROVE  /\ request'[v].at \in {"read", "seen"} => Prompt(request[v].now)'
                        /\ request'[v].at \in {"read", "seen", "expired"} =>
                              request'[v].row.seen >= request'[v].used - Blur
                        /\ request'[v].at = "expired" =>
                              IsExpired(request'[v].row, request'[v].now)
      BY DEF ReadersPrompt, Prompt, IsExpired, Blur
    <3>1. CASE v = u
      BY <1>1, <1>2, <2>2, <3>1
    <3>2. CASE v # u
      BY <1>1, <2>2, <3>2 DEF ReadersPrompt, Prompt
    <3> QED
      BY <3>1, <3>2
  <2> HIDE DEF s, row, now
  <2> QED
    BY <1>1, <2>1, <2>2, <2>3, RemovalKeepsSessions
<1>3. CASE ~ IsExpired(row, now)
  <2>1. /\ UNCHANGED sessions
        /\ IF now - row.seen <= Throttle THEN LetsIn(u)
           ELSE Replies(u, "seen") /\ UNCHANGED used
    BY <1>3 DEF ValidateSession
  <2>2. PICK answer \in {"ok", "seen"} : Replies(u, answer)
    BY <2>1 DEF LetsIn
  <2>3. /\ request' \in [Users -> RequestRow] /\ request'[u].at \in {"ok", "seen"}
        /\ request'[u].row = row /\ request'[u].now = now
        /\ request'[u].used = request[u].used
        /\ \A v \in Users \ {u} : request'[v] = request[v]
    BY <1>1, <2>2, RepliesKeep
  <2>4. ReadersPrompt'
    BY <1>1, <2>3 DEF ReadersPrompt, Prompt, IsExpired, Blur
  <2>5. RowStands'
    BY <1>1, <2>1, <2>3 DEF RowStands
  <2>6. CASE now - row.seen <= Throttle
    <3>1. /\ used' \in [Known -> Nat] /\ Known' = Known
          /\ used'[s] = IF used[s] <= now THEN now ELSE used[s]
          /\ \A t \in Known \ {s} : used'[t] = used[t]
      BY <1>1, <2>1, <2>6, UseNoted
    <3>2. SessionTypes'
      BY <1>1, <2>1, <2>3, <3>1 DEF RequestRow
    <3>3. s \in DOMAIN sessions => sessions[s].seen >= now - Blur
      BY <1>1, <2>6 DEF RowStands, SessionRow, Blur
    <3>4. MarkedUse'
      BY <1>1, <2>1, <3>1, <3>3 DEF MarkedUse, Prompt, Blur
    <3> QED
      BY <2>4, <2>5, <3>2, <3>4
  <2>7. CASE ~ (now - row.seen <= Throttle)
    <3>1. UNCHANGED used
      BY <2>1, <2>7
    <3>2. SessionTypes' /\ MarkedUse'
      BY <1>1, <2>1, <2>3, <3>1 DEF RequestRow, MarkedUse, Known, Blur
    <3> QED
      BY <2>4, <2>5, <3>2
  <2> QED
    BY <2>6, <2>7
<1> QED
  BY <1>2, <1>3

LEMMA MarkKeepsSessions ==
    ASSUME SessionInv, NEW u \in Users, RefreshLastSeen(u)
    PROVE  SessionInv'
<1> USE AccountLimits DEF SessionInv, SessionTypes
<1> DEFINE s == request[u].session
           now == request[u].now
<1>1. /\ request[u].at = "seen" /\ accountClock' = accountClock
      /\ s \in Known /\ now \in Nat /\ Prompt(now)
  BY DEF RefreshLastSeen, RequestRow, ReadersPrompt
<1>2. PICK answer \in {"ok", "failed"} : Replies(u, answer)
  BY DEF RefreshLastSeen, LetsIn
<1>3. /\ request' \in [Users -> RequestRow] /\ request'[u].at \in {"ok", "failed"}
      /\ \A v \in Users \ {u} : request'[v] = request[v]
  BY <1>1, <1>2, RepliesKeep
<1>4. ReadersPrompt'
  BY <1>1, <1>3 DEF ReadersPrompt, Prompt, IsExpired, Blur
<1>5. CASE s \in DOMAIN sessions
  <2> DEFINE new == Marked(sessions[s], now)
  <2>1. sessions' = [sessions EXCEPT ![s] = new] /\ LetsIn(u)
    BY <1>5 DEF RefreshLastSeen
  <2>2. new \in SessionRow /\ new.seen = now
    BY <1>1, <1>5 DEF Marked, SessionRow
  <2> HIDE DEF new
  <2>3. /\ used' \in [Known -> Nat] /\ Known' = Known
        /\ used'[s] = IF used[s] <= now THEN now ELSE used[s]
        /\ \A t \in Known \ {s} : used'[t] = used[t]
    BY <1>1, <2>1, UseNoted
  <2>4. SessionTypes'
    BY <1>1, <1>3, <1>5, <2>1, <2>2, <2>3 DEF RequestRow
  <2>5. MarkedUse'
    BY <1>1, <1>5, <2>1, <2>2, <2>3 DEF MarkedUse, Prompt, Blur
  <2>6. RowStands'
    <3> SUFFICES ASSUME NEW v \in Users, request'[v].at = "read",
                        request'[v].session \in DOMAIN sessions
                 PROVE  \/ sessions'[request'[v].session].seen >= request'[v].row.seen
                        \/ sessions'[request'[v].session].seen >= request'[v].now - Delay
      BY <2>1 DEF RowStands
    <3>1. v # u /\ request'[v] = request[v] /\ request[v].now \in Nat /\ Prompt(request[v].now)
      BY <1>3 DEF ReadersPrompt, RequestRow
    <3>2. CASE request[v].session = s
      BY <1>1, <1>5, <2>1, <2>2, <3>1, <3>2 DEF Prompt
    <3>3. CASE request[v].session # s
      BY <2>1, <3>1, <3>3 DEF RowStands
    <3> QED
      BY <3>2, <3>3
  <2> QED
    BY <1>4, <2>4, <2>5, <2>6
<1>6. CASE s \notin DOMAIN sessions
  <2>1. UNCHANGED <<sessions, used>>
    BY <1>6 DEF RefreshLastSeen
  <2>2. SessionTypes' /\ MarkedUse' /\ RowStands'
    BY <1>1, <1>3, <2>1 DEF RequestRow, MarkedUse, RowStands, Known, Blur
  <2> QED
    BY <1>4, <2>2
<1> QED
  BY <1>5, <1>6

LEMMA StillSessions ==
    SessionInv /\ UNCHANGED <<accountClock, sessionVars>> => SessionInv'
  BY DEF SessionInv, SessionTypes, sessionVars, Known, RequestRow, ReadersPrompt, Prompt,
         IsExpired, MarkedUse, RowStands, Blur

LEMMA SessionStep == SessionInv /\ SessionNext => SessionInv'
<1> SUFFICES ASSUME SessionInv, SessionNext PROVE SessionInv'
  OBVIOUS
<1>1. ASSUME NEW s \in Sessions, CreateSession(s) \/ DeleteSession(s)
      PROVE  SessionInv'
  BY <1>1, CreateKeepsSessions, DeleteKeepsSessions
<1>2. ASSUME NEW u \in Users,
             ReadSession(u) \/ ValidateSession(u) \/ RefreshLastSeen(u)
      PROVE  SessionInv'
  BY <1>2, ReadKeepsSessions, ValidateKeepsSessions, MarkKeepsSessions
<1> QED
  BY <1>1, <1>2 DEF SessionNext

LEMMA SessionsAreKept == SessionInv => SessionsKept
<1> SUFFICES ASSUME SessionInv, NEW u \in Users, request[u].at = "expired",
                    request[u].now - request[u].row.created <= AbsoluteTTL
             PROVE  request[u].now - request[u].used > InactivityTTL - Blur
  BY BlurIsMax DEF SessionsKept
<1>1. /\ request[u].row.seen >= request[u].used - Blur
      /\ IsExpired(request[u].row, request[u].now)
  BY DEF SessionInv, ReadersPrompt
<1>2. /\ request[u].now \in Nat /\ request[u].used \in Nat
      /\ request[u].row.seen \in Nat /\ request[u].row.created \in Nat
  BY DEF SessionInv, SessionTypes, RequestRow, SessionRow
<1> QED
  BY <1>1, <1>2, BlurIsMax, AccountLimits DEF IsExpired

-----------------------------------------------------------------------------

\* Attempts sent at once win nothing over the lockout, and requests at once do not
\* end a session that is in use (auth.service.ts, session.service.ts).
THEOREM AccessIsSound == AccountsSpec => []AccessSound
<1> DEFINE Inv == LockoutInv /\ SessionInv
<1>1. AccountsInit => Inv
  BY LockoutInit, SessionInit
<1>2. Inv /\ [AccountsNext]_accountVars => Inv'
  <2> SUFFICES ASSUME LockoutInv, SessionInv, [AccountsNext]_accountVars
               PROVE  LockoutInv' /\ SessionInv'
    OBVIOUS
  <2>1. CASE AccountTick
    BY <2>1, TickKeepsLockout, TickKeepsSessions
  <2>2. CASE LockoutNext
    <3>1. UNCHANGED <<accountClock, sessionVars>>
      BY <2>2 DEF LockoutNext, SendPassword, ReserveAttempt, WrongPassword, RightPassword
    <3> QED
      BY <2>2, <3>1, LockoutStep, StillSessions
  <2>3. CASE SessionNext
    <3>1. UNCHANGED <<accountClock, lockoutVars>>
      BY <2>3 DEF SessionNext, CreateSession, DeleteSession, ReadSession,
                  ValidateSession, RefreshLastSeen
    <3> QED
      BY <2>3, <3>1, LockoutStep, SessionStep
  <2>4. CASE UNCHANGED accountVars
    BY <2>4, LockoutStep, StillSessions DEF accountVars
  <2> QED
    BY <2>1, <2>2, <2>3, <2>4 DEF AccountsNext
<1>3. Inv => AccessSound
  BY SessionsAreKept DEF AccessSound, LockoutInv
<1> QED
  BY <1>1, <1>2, <1>3, PTL DEF AccountsSpec

-----------------------------------------------------------------------------
(* The ordered lists: the invariant.                                       *)

RequestFields == {"op", "at", "target", "new", "order", "retried"}

RequestKnown(e, edited) ==
    /\ DOMAIN edited = RequestFields
    /\ edited.op \in Edits[e]
    /\ edited.order \in Nat
RequestsKnown ==
    DOMAIN edit = Editors /\ \A e \in Editors : RequestKnown(e, edit[e])

\* The rows there are and those the forms were opened with.
Seen == items \cup UNION {edit[e].target : e \in Editors}

Sound(row) ==
    /\ {"id", "rev", "order"} \subseteq DOMAIN row
    /\ row.order \in Nat
    /\ HasCost(row) /\ Priced(row)
SeenSound == \A row \in Seen : Sound(row)

\* A revision is of the dataset or of the request that wrote it.
Dated(rev) ==
    /\ rev \in {"first", "seed"} \cup Editors
    /\ rev \in Editors => edit[rev].at = "ok"
    /\ rev = "seed" => rerun
SeenDated == \A row \in Seen : Dated(row.rev)

\* Rows of one id and one revision cost the same: only orders are written
\* without a new revision.
SameCost(row, other) ==
    /\ row.list = other.list
    /\ \A field \in CostFields(row.list) : row[field] = other[field]
RevisionsTell ==
    \A row, other \in Seen :
        row.id = other.id /\ row.rev = other.rev => SameCost(row, other)

\* What a request is about to write can be used; what it leaves is as opened.
SameTable(row, other) ==
    row.list = other.list \/ (IsOption(row) /\ IsOption(other))
Agrees(op, new, opened) ==
    /\ SameTable(new, opened)
    /\ \A field \in CostFields(new.list) \ (Written(op, new) \cup {"rooms"}) :
          new[field] = opened[field]
Pending(edited) ==
    /\ edited.op.verb \in {"create", "patch"} =>
          \A new \in edited.new : HasCost(new) /\ Priced(new)
    /\ edited.op.verb = "patch" =>
          \A new \in edited.new, opened \in edited.target :
             Agrees(edited.op, new, opened)
    /\ edited.op.verb = "reorder" => IsInjective(edited.op.ids)
RequestSound(edited) ==
    /\ edited.at \in {"plan", "write"} => Pending(edited)
    /\ \A opened \in edited.target :
          Fits(opened, edited.op) /\ opened.id = edited.op.id
    /\ edited.at = "sent" /\ edited.op.verb # "reorder" =>
          \E opened \in edited.target : edited.target = {opened}
RequestsSound == \A e \in Editors : RequestSound(edit[e])

ListsInv ==
    /\ IsFiniteSet(items)
    /\ RequestsKnown /\ SeenSound /\ SeenDated /\ RevisionsTell
    /\ RequestsSound

-----------------------------------------------------------------------------
(* Completed fields.                                                       *)

LEMMA CostOfOver ==
    ASSUME NEW new, NEW old
    PROVE  /\ DOMAIN Over(new, old) = DOMAIN new \cup DOMAIN old
           /\ \A f \in DOMAIN new : Over(new, old)[f] = new[f]
           /\ \A f \in DOMAIN old \ DOMAIN new : Over(new, old)[f] = old[f]
BY DEF Over

LEMMA ListsDiffer == PackageList \notin OptionKinds /\ StyleList \notin OptionKinds
                     /\ PackageList # StyleList
BY DEF OptionKinds, PackageList, StyleList

\* A completed option can be used.  What the form does not name is as it was,
\* but for the quantities and the rooms.
LEMMA OptionCompleted ==
    ASSUME NEW row, NEW patch, HasCost(row), IsOption(row),
           "list" \in DOMAIN patch => patch.list \in OptionKinds,
           NEW new \in CompleteOption(row, patch)
    PROVE  /\ HasCost(new) /\ PricedOption(new) /\ IsOption(new)
           /\ \A f \in CostFields(row.list) :
                 f \notin DOMAIN patch \cup {"min", "max", "rooms"} => new[f] = row[f]
<1> DEFINE merged == Over(patch, row)
           quantities == QuantityBounds(merged)
           rooms == PerRoom(merged.unit) /\ merged.rooms
<1>1. new = Over([rooms |-> rooms], quantities)
      /\ (Counted(merged) => Bounded(merged)) /\ OnePriceSource(merged)
  BY Zenon DEF CompleteOption
<1>2. {"list", "price", "keys", "unit", "min", "max", "rooms"} \subseteq DOMAIN row
  BY DEF HasCost, CostFields, IsOption
<1>3. /\ DOMAIN merged = DOMAIN patch \cup DOMAIN row
      /\ \A f \in DOMAIN patch : merged[f] = patch[f]
      /\ \A f \in DOMAIN row \ DOMAIN patch : merged[f] = row[f]
  BY CostOfOver
<1>4. merged.list \in OptionKinds
  BY <1>2, <1>3 DEF IsOption
<1> HIDE DEF merged
<1>5. /\ DOMAIN quantities = DOMAIN merged \cup {"min", "max"}
      /\ \A f \in DOMAIN merged \ {"min", "max"} : quantities[f] = merged[f]
      /\ Counted(merged) => quantities = merged
      /\ ~ Counted(merged) => quantities.min = NoQuantity /\ quantities.max = NoQuantity
  <2>1. CASE Counted(merged)
    BY <1>2, <1>3, <2>1 DEF QuantityBounds
  <2>2. CASE ~ Counted(merged)
    <3>1. quantities = Over([min |-> NoQuantity, max |-> NoQuantity], merged)
      BY <2>2 DEF QuantityBounds
    <3> QED
      BY <3>1, <2>2, CostOfOver
  <2> QED
    BY <2>1, <2>2
<1> HIDE DEF quantities
<1>6. /\ DOMAIN new = DOMAIN quantities \cup {"rooms"}
      /\ new.rooms = rooms
      /\ \A f \in DOMAIN quantities \ {"rooms"} : new[f] = quantities[f]
  <2> HIDE DEF rooms
  <2>1. new = Over([rooms |-> rooms], quantities)
    BY <1>1
  <2>2. /\ DOMAIN new = DOMAIN [rooms |-> rooms] \cup DOMAIN quantities
        /\ \A f \in DOMAIN [rooms |-> rooms] : new[f] = [rooms |-> rooms][f]
        /\ \A f \in DOMAIN quantities \ DOMAIN [rooms |-> rooms] : new[f] = quantities[f]
    BY <2>1 DEF Over
  <2> QED
    BY <2>2
<1>7. /\ {"list", "price", "keys", "unit", "min", "max", "rooms"} \subseteq DOMAIN new
      /\ new.list = merged.list /\ new.price = merged.price /\ new.keys = merged.keys
      /\ new.unit = merged.unit /\ new.min = quantities.min /\ new.max = quantities.max
  BY <1>2, <1>3, <1>5, <1>6
<1>8. HasCost(new) /\ IsOption(new)
  BY <1>4, <1>7 DEF HasCost, CostFields, IsOption
<1>9. PricedOption(new)
  <2>1. OnePriceSource(new)
    BY <1>1, <1>7 DEF OnePriceSource
  <2>2. Counted(new) <=> Counted(merged)
    BY <1>7 DEF Counted
  <2>3. Counted(new) => Bounded(new)
    BY <1>1, <1>5, <1>7, <2>2 DEF Bounded
  <2>4. ~ Counted(new) => new.min = NoQuantity /\ new.max = NoQuantity
    BY <1>5, <1>7, <2>2
  <2>5. new.rooms => PerRoom(new.unit)
    BY <1>6, <1>7
  <2> QED
    BY <2>1, <2>3, <2>4, <2>5 DEF PricedOption
<1>10. \A f \in CostFields(row.list) :
          f \notin DOMAIN patch \cup {"min", "max", "rooms"} => new[f] = row[f]
  <2>1. CostFields(row.list) \subseteq DOMAIN row
    BY DEF HasCost
  <2> QED
    BY <1>3, <1>5, <1>6, <2>1
<1> QED
  BY <1>8, <1>9, <1>10

LEMMA PackageItemCompleted ==
    ASSUME NEW row, NEW patch, HasCost(row), row.list = PackageList,
           "list" \in DOMAIN patch => patch.list = PackageList,
           NEW new \in CompletePackageItem(row, patch)
    PROVE  HasCost(new) /\ PricedPackageItem(new) /\ new.list = PackageList
<1> DEFINE merged == Over(patch, row)
<1>1. {"list", "included", "price", "unit"} \subseteq DOMAIN row
  BY ListsDiffer DEF HasCost, CostFields
<1>2. /\ DOMAIN merged = DOMAIN patch \cup DOMAIN row
      /\ \A f \in DOMAIN patch : merged[f] = patch[f]
      /\ \A f \in DOMAIN row \ DOMAIN patch : merged[f] = row[f]
  BY CostOfOver
<1>3. merged.list = PackageList
  BY <1>1, <1>2
<1>4. CASE merged.included
  <2>1. new = Over([price |-> FALSE, unit |-> NoUnit], merged)
    BY <1>4, Zenon DEF CompletePackageItem
  <2> HIDE DEF merged
  <2>2. /\ DOMAIN new = DOMAIN merged \cup {"price", "unit"}
        /\ new.price = FALSE /\ new.unit = NoUnit
        /\ \A f \in DOMAIN merged \ {"price", "unit"} : new[f] = merged[f]
    BY <2>1 DEF Over
  <2>3. new.included = merged.included /\ new.list = PackageList
    BY <1>1, <1>2, <1>3, <2>2
  <2>4. PricedPackageItem(new)
    BY <1>4, <2>2, <2>3 DEF PricedPackageItem
  <2> QED
    BY <1>1, <1>2, <2>2, <2>3, <2>4, ListsDiffer DEF HasCost, CostFields
<1>5. CASE ~ merged.included
  <2>1. new = merged /\ merged.price /\ merged.unit # NoUnit
    BY <1>5, Zenon DEF CompletePackageItem
  <2> HIDE DEF merged
  <2>2. PricedPackageItem(new)
    BY <1>5, <2>1 DEF PricedPackageItem
  <2> QED
    BY <1>1, <1>2, <1>3, <2>1, <2>2, ListsDiffer DEF HasCost, CostFields
<1> QED
  BY <1>4, <1>5

\* The form of an item changes its kind to another kind of option at most.
Suits(patch, row) ==
    "list" \in DOMAIN patch =>
        patch.list = row.list \/ (IsOption(row) /\ patch.list \in OptionKinds)

LEMMA Completed ==
    ASSUME NEW row, NEW patch, HasCost(row), Suits(patch, row),
           NEW new \in Complete(row, patch)
    PROVE  /\ HasCost(new) /\ Priced(new) /\ SameTable(new, row)
           /\ IsOption(row) =>
                 \A f \in CostFields(row.list) :
                    f \notin DOMAIN patch \cup {"min", "max", "rooms"} => new[f] = row[f]
<1>1. CASE IsOption(row)
  <2>1. new \in CompleteOption(row, patch)
    BY <1>1, ListsDiffer DEF Complete, IsOption
  <2>2. "list" \in DOMAIN patch => patch.list \in OptionKinds
    BY <1>1 DEF Suits, IsOption
  <2>3. /\ HasCost(new) /\ PricedOption(new) /\ IsOption(new)
        /\ \A f \in CostFields(row.list) :
              f \notin DOMAIN patch \cup {"min", "max", "rooms"} => new[f] = row[f]
    BY <1>1, <2>1, <2>2, OptionCompleted
  <2> QED
    BY <1>1, <2>3, ListsDiffer DEF Priced, SameTable, IsOption
<1>2. CASE row.list = PackageList
  <2>1. ~ IsOption(row)
    BY <1>2, ListsDiffer DEF IsOption
  <2>2. new \in CompletePackageItem(row, patch)
    BY <1>2, <2>1, ListsDiffer DEF Complete
  <2>3. HasCost(new) /\ PricedPackageItem(new) /\ new.list = PackageList
    BY <1>2, <2>1, <2>2, PackageItemCompleted DEF Suits
  <2> QED
    BY <1>2, <2>1, <2>3, ListsDiffer DEF Priced, SameTable, IsOption
<1>3. CASE row.list = StyleList
  <2>1. ~ IsOption(row)
    BY <1>3, ListsDiffer DEF IsOption
  <2>2. new = Over(patch, row)
    BY <1>3, <2>1, ListsDiffer DEF Complete
  <2>3. "list" \in DOMAIN row
    BY DEF HasCost, CostFields
  <2>4. new.list = StyleList /\ "list" \in DOMAIN new
    <3>1. patch.list = StyleList \/ "list" \notin DOMAIN patch
      BY <1>3, <2>1 DEF Suits
    <3> QED
      BY <1>3, <2>2, <2>3, <3>1 DEF Over
  <2> QED
    BY <1>3, <2>1, <2>4, ListsDiffer DEF Priced, SameTable, IsOption, HasCost, CostFields
<1> QED
  BY <1>1, <1>2, <1>3 DEF HasCost, IsOption

\* Whether the cost of an item can be used depends on its cost alone.
LEMMA PriceFollowsCost ==
    ASSUME NEW row, NEW other, HasCost(other), Priced(other), SameCost(row, other)
    PROVE  Priced(row)
<1>1. CASE IsOption(other)
  <2>1. /\ IsOption(row) /\ row.price = other.price /\ row.keys = other.keys
        /\ row.unit = other.unit /\ row.min = other.min /\ row.max = other.max
        /\ row.rooms = other.rooms
    BY <1>1 DEF SameCost, CostFields, IsOption
  <2>2. PricedOption(other)
    BY <1>1 DEF Priced
  <2>3. OnePriceSource(row) /\ PerRoom(row.unit) = PerRoom(other.unit)
        /\ Counted(row) = Counted(other) /\ Bounded(row) = Bounded(other)
    BY <2>1, <2>2 DEF PricedOption, OnePriceSource, Counted, Bounded
  <2>4. PricedOption(row)
    BY <2>1, <2>2, <2>3 DEF PricedOption
  <2>5. row.list # PackageList
    BY <2>1, ListsDiffer DEF IsOption
  <2> QED
    BY <2>4, <2>5 DEF Priced
<1>2. CASE other.list = PackageList
  <2>1. /\ row.list = PackageList /\ row.included = other.included
        /\ row.price = other.price /\ row.unit = other.unit
    BY <1>2, ListsDiffer DEF SameCost, CostFields
  <2>2. PricedPackageItem(other)
    BY <1>2 DEF Priced
  <2>3. PricedPackageItem(row)
    BY <2>1, <2>2 DEF PricedPackageItem
  <2>4. ~ IsOption(row)
    BY <2>1, ListsDiffer DEF IsOption
  <2> QED
    BY <2>3, <2>4 DEF Priced
<1>3. CASE ~ IsOption(other) /\ other.list # PackageList
  BY <1>3 DEF SameCost, Priced, IsOption
<1> QED
  BY <1>1, <1>2, <1>3

-----------------------------------------------------------------------------
(* The order behind the last item.                                         *)

\* A finite set of numbers has a greatest: a least subset without one has an
\* element, and what is left without it has a greatest.
LEMMA Greatest ==
    ASSUME NEW S, IsFiniteSet(S), S \subseteq Int, S # {}
    PROVE  Max(S) \in S /\ \A x \in S : x <= Max(S)
<1> DEFINE Bad == {U \in SUBSET S : U # {} /\ ~ \E m \in U : \A x \in U : x <= m}
           Less == StrictSubsetOrdering(S)
<1>1. Bad = {}
  <2> SUFFICES ASSUME Bad # {} PROVE FALSE
    OBVIOUS
  <2>1. IsWellFoundedOn(Less, FiniteSubsetsOf(S))
    BY FS_StrictSubsetOrderingWellFounded
  <2>2. Bad \subseteq FiniteSubsetsOf(S)
    BY FS_FiniteSubsetsOfFinite
  <2> HIDE DEF Less
  <2>3. PICK U \in Bad : \A V \in Bad : ~ (<<V, U>> \in Less)
    <3> HIDE DEF Bad
    <3> QED
      BY <2>1, <2>2, WFMin
  <2>4. PICK a \in U : TRUE
    OBVIOUS
  <2>5. U \ {a} \notin Bad
    <3>1. U \ {a} \in SUBSET S /\ U \ {a} # U
      BY <2>4
    <3>2. <<U \ {a}, U>> \in Less
      BY <3>1 DEF Less, StrictSubsetOrdering
    <3> QED
      BY <2>3, <3>2
  <2>6. CASE U = {a}
    BY <2>6
  <2>7. CASE U # {a}
    <3>1. U \ {a} # {} /\ U \ {a} \in SUBSET S
      BY <2>4, <2>7
    <3>2. PICK m \in U \ {a} : \A x \in U \ {a} : x <= m
      BY <2>5, <3>1
    <3>3. CASE a <= m
      BY <3>2, <3>3
    <3>4. CASE m < a
      BY <3>2, <3>4
    <3> QED
      BY <3>3, <3>4
  <2> QED
    BY <2>6, <2>7
<1>2. \E m \in S : \A x \in S : m >= x
  BY <1>1
<1>3. Max(S) = CHOOSE m \in S : \A x \in S : m >= x
  BY DEF Max
<1> QED
  BY <1>2, <1>3

LEMMA NextIsCount ==
    ASSUME NEW rows, IsFiniteSet(rows), \A row \in rows : row.order \in Nat
    PROVE  NextOrder(rows) \in Nat
<1> DEFINE orders == {row.order : row \in rows}
<1>1. CASE rows = {}
  BY <1>1 DEF NextOrder
<1>2. CASE rows # {}
  <2>1. IsFiniteSet(orders)
    <3> DEFINE f == [row \in rows |-> row.order]
    <3>1. f \in Surjection(rows, orders)
      BY DEF Surjection
    <3> QED
      BY <3>1, FS_Surjection
  <2>2. orders \subseteq Nat /\ orders # {}
    BY <1>2
  <2>3. Max(orders) \in orders
    <3> HIDE DEF orders
    <3>1. orders \subseteq Int
      BY <2>2
    <3> QED
      BY <2>1, <2>2, <3>1, Greatest
  <2> QED
    BY <1>2, <2>2, <2>3 DEF NextOrder
<1> QED
  BY <1>1, <1>2

-----------------------------------------------------------------------------
(* What every step comes down to.                                          *)

LEMMA CostsCompare ==
    /\ \A row : SameCost(row, row)
    /\ \A row, other : SameCost(row, other) => SameCost(other, row)
    /\ \A row, other, third :
          SameCost(row, other) /\ SameCost(other, third) => SameCost(row, third)
BY DEF SameCost

\* A request goes on and no row changes; it may have opened one.
LEMMA RequestMoves ==
    ASSUME ListsInv, NEW e \in Editors, NEW edited,
           edit' = [edit EXCEPT ![e] = edited], UNCHANGED <<items, rerun>>,
           edit[e].at # "ok",
           edited.target \subseteq edit[e].target \cup items,
           RequestKnown(e, edited), RequestSound(edited)
    PROVE  ListsInv'
<1>1. DOMAIN edit = Editors /\ edit'[e] = edited
      /\ \A other \in Editors \ {e} : edit'[other] = edit[other]
  BY DEF ListsInv, RequestsKnown
<1>2. RequestsKnown'
  BY <1>1 DEF ListsInv, RequestsKnown
<1>3. RequestsSound'
  BY <1>1 DEF ListsInv, RequestsSound
<1>4. Seen' \subseteq Seen
  <2> SUFFICES ASSUME NEW row \in Seen' PROVE row \in Seen
    OBVIOUS
  <2>1. CASE row \in items'
    BY <2>1 DEF Seen
  <2>2. ASSUME NEW other \in Editors, row \in edit'[other].target
        PROVE  row \in Seen
    <3>1. CASE other = e
      BY <1>1, <2>2, <3>1 DEF Seen
    <3>2. CASE other # e
      BY <1>1, <2>2, <3>2 DEF Seen
    <3> QED
      BY <3>1, <3>2
  <2> QED
    BY <2>1, <2>2 DEF Seen
<1>5. SeenSound' /\ RevisionsTell'
  BY <1>4 DEF ListsInv, SeenSound, RevisionsTell
<1>6. SeenDated'
  <2>1. \A rev : Dated(rev) => Dated(rev)'
    BY <1>1 DEF Dated
  <2> QED
    BY <1>4, <2>1 DEF ListsInv, SeenDated
<1> QED
  BY <1>2, <1>3, <1>5, <1>6 DEF ListsInv

\* A request is answered, or waits for its turn, with what it has.
LEMMA RequestAnswers ==
    ASSUME ListsInv, NEW e \in Editors, NEW answer, Closes(e, answer),
           answer \in {"plan", "write"} => Pending(edit[e]),
           answer = "sent" => Asks(e, "reorder"),
           UNCHANGED <<items, rerun>>, edit[e].at # "ok"
    PROVE  ListsInv'
<1> DEFINE edited == [edit[e] EXCEPT !.at = answer]
<1>1. edit' = [edit EXCEPT ![e] = edited]
  BY DEF Closes
<1>2. RequestKnown(e, edit[e]) /\ RequestSound(edit[e])
  BY DEF ListsInv, RequestsKnown, RequestsSound
<1>3. /\ edited.at = answer /\ edited.op = edit[e].op
      /\ edited.new = edit[e].new /\ edited.target = edit[e].target
      /\ RequestKnown(e, edited)
  BY <1>2 DEF RequestKnown, RequestFields
<1> HIDE DEF edited
<1>4. RequestSound(edited)
  BY <1>2, <1>3 DEF RequestSound, Pending, Asks, Ask
<1> QED
  BY <1>1, <1>3, <1>4, RequestMoves

\* Rows are written under a revision nobody has seen; the others cost what they
\* did.  No form is opened meanwhile.
Continues(row) ==
    \E old \in Seen : row.id = old.id /\ row.rev = old.rev /\ SameCost(row, old)

LEMMA RowsWritten ==
    ASSUME ListsInv, NEW rev, \A row \in Seen : row.rev # rev,
           \A e \in Editors : edit'[e].target = edit[e].target,
           \A other : Dated(other) => Dated(other)', Dated(rev)',
           \A row \in items' : Sound(row) /\ (row.rev = rev \/ Continues(row)),
           \A row, other \in items' :
              row.rev = rev /\ other.rev = rev /\ row.id = other.id
              => SameCost(row, other)
    PROVE  SeenSound' /\ SeenDated' /\ RevisionsTell'
<1>1. ASSUME NEW row \in Seen'
      PROVE  Sound(row) /\ ((row \in items' /\ row.rev = rev) \/ Continues(row))
  <2>1. CASE row \in items'
    BY <2>1
  <2>2. CASE row \notin items'
    <3>1. row \in Seen
      BY <2>2 DEF Seen
    <3> QED
      BY <3>1, CostsCompare DEF ListsInv, SeenSound, Continues
  <2> QED
    BY <2>1, <2>2
<1>2. SeenSound'
  BY <1>1 DEF SeenSound
<1>3. SeenDated'
  <2> SUFFICES ASSUME NEW row \in Seen' PROVE Dated(row.rev)'
    BY DEF SeenDated
  <2>1. CASE row.rev = rev
    BY <2>1
  <2>2. CASE Continues(row)
    <3>1. Dated(row.rev)
      BY <2>2 DEF Continues, ListsInv, SeenDated
    <3> QED
      BY <3>1
  <2> QED
    BY <1>1, <2>1, <2>2
<1>4. RevisionsTell'
  <2> SUFFICES ASSUME NEW row \in Seen', NEW other \in Seen',
                      row.id = other.id, row.rev = other.rev
               PROVE  SameCost(row, other)
    BY DEF RevisionsTell
  <2>1. CASE row.rev = rev
    <3>1. ~ Continues(row) /\ ~ Continues(other)
      BY <2>1 DEF Continues
    <3> QED
      BY <1>1, <2>1, <3>1
  <2>2. CASE row.rev # rev
    <3>1. PICK old \in Seen : row.id = old.id /\ row.rev = old.rev /\ SameCost(row, old)
      BY <1>1, <2>2 DEF Continues
    <3>2. PICK o \in Seen : other.id = o.id /\ other.rev = o.rev /\ SameCost(other, o)
      BY <1>1, <2>2 DEF Continues
    <3>3. SameCost(old, o)
      BY <3>1, <3>2 DEF ListsInv, RevisionsTell
    <3> QED
      BY <3>1, <3>2, <3>3, CostsCompare
  <2> QED
    BY <2>1, <2>2
<1> QED
  BY <1>2, <1>3, <1>4

-----------------------------------------------------------------------------
(* The start, and the dataset written again.                               *)

LEMMA ImageFinite ==
    ASSUME NEW S, IsFiniteSet(S), NEW f, DOMAIN f = S
    PROVE  IsFiniteSet({f[x] : x \in S})
<1>1. [x \in S |-> f[x]] \in Surjection(S, {f[x] : x \in S})
  BY DEF Surjection
<1> QED
  BY <1>1, FS_Surjection

LEMMA OverRevision ==
    ASSUME NEW row, NEW time, HasCost(row), Priced(row),
           {"id", "order"} \subseteq DOMAIN row, row.order \in Nat
    PROVE  LET stored == Over([rev |-> time], row)
           IN  /\ Sound(stored) /\ SameCost(stored, row)
               /\ stored.id = row.id /\ stored.rev = time /\ stored.order = row.order
<1> DEFINE stored == Over([rev |-> time], row)
<1>1. /\ DOMAIN stored = DOMAIN row \cup {"rev"}
      /\ stored.rev = time
      /\ \A f \in DOMAIN row \ {"rev"} : stored[f] = row[f]
  BY DEF Over
<1>2. CostFields(row.list) \subseteq DOMAIN row \ {"rev"} /\ "list" \in CostFields(row.list)
  BY DEF HasCost, CostFields
<1> HIDE DEF stored
<1>3. stored.list = row.list /\ \A f \in CostFields(row.list) : stored[f] = row[f]
  BY <1>1, <1>2
<1>4. SameCost(stored, row)
  BY <1>3 DEF SameCost
<1>5. HasCost(stored)
  BY <1>1, <1>2, <1>3 DEF HasCost
<1>6. Priced(stored)
  BY <1>4, PriceFollowsCost
<1>7. stored.id = row.id /\ stored.rev = time /\ stored.order = row.order
  BY <1>1
<1>8. Sound(stored)
  BY <1>1, <1>5, <1>6, <1>7 DEF Sound
<1> QED
  BY <1>4, <1>7, <1>8 DEF stored

LEMMA DatasetStored ==
    ASSUME NEW time
    PROVE  /\ IsFiniteSet(SeedItems(time))
           /\ \A row \in SeedItems(time) : Sound(row) /\ row.rev = time
           /\ \A row, other \in SeedItems(time) : row.id = other.id => row = other
<1> DEFINE stored(row) == Over([rev |-> time], row)
           f == [row \in ListItems |-> stored(row)]
<1>1. SeedItems(time) = {stored(row) : row \in ListItems}
  BY DEF SeedItems
<1>2. \A row \in ListItems : Sound(stored(row)) /\ stored(row).rev = time
                             /\ stored(row).id = row.id
  BY ItemsAssumption, OverRevision
<1> HIDE DEF stored
<1>3. IsFiniteSet(SeedItems(time))
  <2>1. IsFiniteSet({f[row] : row \in ListItems})
    <3>1. DOMAIN f = ListItems
      OBVIOUS
    <3> HIDE DEF f
    <3> QED
      BY <3>1, ItemsAssumption, ImageFinite
  <2>2. {f[row] : row \in ListItems} = {stored(row) : row \in ListItems}
    OBVIOUS
  <2> QED
    BY <1>1, <2>1, <2>2
<1>4. \A row, other \in SeedItems(time) : row.id = other.id => row = other
  BY <1>1, <1>2, ItemsAssumption
<1> QED
  BY <1>1, <1>2, <1>3, <1>4

LEMMA OrderWritten ==
    ASSUME NEW row, Sound(row), NEW n \in Nat
    PROVE  LET r == [row EXCEPT !.order = n]
           IN  Sound(r) /\ SameCost(r, row) /\ r.id = row.id /\ r.rev = row.rev
<1> DEFINE r == [row EXCEPT !.order = n]
<1>1. /\ DOMAIN r = DOMAIN row /\ r.order = n
      /\ \A f \in DOMAIN row \ {"order"} : r[f] = row[f]
  BY DEF Sound
<1>2. CostFields(row.list) \subseteq DOMAIN row \ {"order"} /\ "list" \in CostFields(row.list)
  BY DEF Sound, HasCost, CostFields
<1> HIDE DEF r
<1>3. SameCost(r, row)
  BY <1>1, <1>2 DEF SameCost
<1>4. r.id = row.id /\ r.rev = row.rev
  BY <1>1 DEF Sound
<1>5. HasCost(r) /\ Priced(r)
  BY <1>1, <1>2, <1>3, PriceFollowsCost DEF Sound, HasCost
<1>6. Sound(r)
  BY <1>1, <1>5 DEF Sound
<1> QED
  BY <1>3, <1>4, <1>6 DEF r

LEMMA ListsStart == ListsInit => ListsInv
<1> SUFFICES ASSUME ListsInit PROVE ListsInv
  OBVIOUS
<1>1. items = SeedItems("first")
  BY DEF ListsInit
<1>2. PICK op \in [Editors -> UNION {Edits[e] : e \in Editors}] :
         /\ \A e \in Editors : op[e] \in Edits[e]
         /\ edit = [e \in Editors |-> BlankEdit(op[e])]
  BY DEF ListsInit
<1>3. \A e \in Editors : /\ edit[e].at = "form" /\ edit[e].target = {}
                         /\ RequestKnown(e, edit[e])
  BY <1>2 DEF BlankEdit, RequestKnown, RequestFields
<1>4. Seen = items
  BY <1>3 DEF Seen
<1>5. IsFiniteSet(items) /\ SeenSound
  BY <1>1, <1>4, DatasetStored DEF SeenSound
<1>6. SeenDated
  BY <1>1, <1>4, DatasetStored, RevisionsAssumption DEF SeenDated, Dated
<1>7. RevisionsTell
  BY <1>1, <1>4, DatasetStored, CostsCompare DEF RevisionsTell
<1>8. RequestsKnown /\ RequestsSound
  BY <1>2, <1>3 DEF RequestsKnown, RequestsSound, RequestSound
<1> QED
  BY <1>5, <1>6, <1>7, <1>8 DEF ListsInv

LEMMA BehindKeepsCost ==
    ASSUME ListsInv, NEW row \in items
    PROVE  /\ Sound(Behind(row)) /\ SameCost(Behind(row), row)
           /\ Behind(row).id = row.id /\ Behind(row).rev = row.rev
<1> DEFINE kind == InList(ListItems, row.list)
           before == {other \in InList(items, row.list) :
                        /\ other.id \notin Ids(ListItems)
                        /\ other.order < row.order}
           n == NextOrder(kind) + Cardinality(before)
<1>1. NextOrder(kind) \in Nat
  <2>1. kind \in SUBSET ListItems
    BY DEF InList
  <2>2. IsFiniteSet(kind) /\ \A other \in kind : other.order \in Nat
    BY <2>1, ItemsAssumption, FS_Subset
  <2> HIDE DEF kind
  <2> QED
    BY <2>2, NextIsCount
<1>2. Cardinality(before) \in Nat
  <2>1. before \in SUBSET items
    BY DEF InList
  <2> HIDE DEF before
  <2> QED
    BY <2>1, FS_Subset, FS_CardinalityType DEF ListsInv
<1>3. n \in Nat
  BY <1>1, <1>2
<1>4. Behind(row) = [row EXCEPT !.order = n]
  BY DEF Behind
<1>5. Sound(row)
  BY DEF ListsInv, SeenSound, Seen
<1> HIDE DEF n
<1> QED
  BY <1>3, <1>4, <1>5, OrderWritten

LEMMA SeedKeepsLists == ListsInv /\ SeedLists => ListsInv'
<1> SUFFICES ASSUME ListsInv, SeedLists PROVE ListsInv'
  OBVIOUS
<1> DEFINE rest == {r \in items : r.id \notin Ids(ListItems)}
           moved(row) == IF IsOption(row) /\ InList(ListItems, row.list) # {}
                         THEN Behind(row) ELSE row
           f == [row \in rest |-> moved(row)]
<1>1. /\ items' = SeedItems("seed") \cup {moved(row) : row \in rest}
      /\ ~ rerun /\ rerun' /\ edit' = edit
  BY DEF SeedLists
<1>2. \A row \in rest : /\ Sound(moved(row)) /\ SameCost(moved(row), row)
                        /\ moved(row).id = row.id /\ moved(row).rev = row.rev
  <2> SUFFICES ASSUME NEW row \in rest
               PROVE  /\ Sound(moved(row)) /\ SameCost(moved(row), row)
                      /\ moved(row).id = row.id /\ moved(row).rev = row.rev
    OBVIOUS
  <2>1. row \in items /\ Sound(row) /\ SameCost(row, row)
    BY CostsCompare DEF ListsInv, SeenSound, Seen
  <2>2. /\ Sound(Behind(row)) /\ SameCost(Behind(row), row)
        /\ Behind(row).id = row.id /\ Behind(row).rev = row.rev
    BY <2>1, BehindKeepsCost
  <2>3. moved(row) = Behind(row) \/ moved(row) = row
    OBVIOUS
  <2> HIDE DEF moved
  <2> QED
    BY <2>1, <2>2, <2>3
<1> HIDE DEF moved
<1>3. IsFiniteSet(items')
  <2>1. rest \in SUBSET items
    OBVIOUS
  <2>2. IsFiniteSet(rest)
    BY <2>1, FS_Subset DEF ListsInv
  <2>3. IsFiniteSet({f[row] : row \in rest})
    <3>1. DOMAIN f = rest
      OBVIOUS
    <3> HIDE DEF f, rest
    <3> QED
      BY <2>2, <3>1, ImageFinite
  <2>4. {f[row] : row \in rest} = {moved(row) : row \in rest}
    OBVIOUS
  <2> QED
    BY <1>1, <2>3, <2>4, DatasetStored, FS_Union
<1>4. \A row \in Seen : row.rev # "seed"
  BY <1>1, RevisionsAssumption DEF ListsInv, SeenDated, Dated
<1>5. \A rev : Dated(rev) => Dated(rev)'
  BY <1>1 DEF Dated
<1>6. Dated("seed")'
  BY <1>1, RevisionsAssumption DEF Dated
<1>7. \A row \in items' : Sound(row) /\ (row.rev = "seed" \/ Continues(row))
  <2>1. \A row \in SeedItems("seed") : Sound(row) /\ row.rev = "seed"
    BY DatasetStored
  <2>2. \A row \in rest : Sound(moved(row)) /\ Continues(moved(row))
    BY <1>2 DEF Continues, Seen
  <2> QED
    BY <1>1, <2>1, <2>2
<1>8. \A row, other \in items' :
          row.rev = "seed" /\ other.rev = "seed" /\ row.id = other.id
          => SameCost(row, other)
  <2>1. \A row \in rest : moved(row).rev # "seed"
    BY <1>2, <1>4 DEF Seen
  <2> QED
    BY <1>1, <2>1, DatasetStored, CostsCompare
<1>9. SeenSound' /\ SeenDated' /\ RevisionsTell'
  BY <1>1, <1>4, <1>5, <1>6, <1>7, <1>8, RowsWritten
<1>10. RequestsKnown' /\ RequestsSound'
  BY <1>1 DEF ListsInv, RequestsKnown, RequestsSound
<1> QED
  BY <1>3, <1>9, <1>10 DEF ListsInv

-----------------------------------------------------------------------------
(* The steps of a request that change no row.                              *)

LEMMA OpenKeepsLists ==
    ASSUME ListsInv, NEW e \in Editors, OpenEdit(e)
    PROVE  ListsInv'
<1>1. /\ edit[e].at = "form" /\ UNCHANGED <<items, rerun>>
      /\ RequestKnown(e, edit[e]) /\ RequestSound(edit[e])
  BY DEF OpenEdit, ListsInv, RequestsKnown, RequestsSound
<1>2. CASE Asks(e, "create")
  <2> DEFINE new == Complete(Ask(e).row, Ask(e).row)
             at == IF new = {} THEN "invalid" ELSE "plan"
             edited == [edit[e] EXCEPT !.at = at, !.new = new]
  <2>1. edit' = [edit EXCEPT ![e] = edited]
    <3>1. edit' = [edit EXCEPT ![e].at = at, ![e].new = new]
      BY <1>2 DEF OpenEdit, Asks
    <3> HIDE DEF new, at
    <3> QED
      BY <3>1
  <2>2. \A n \in new : HasCost(n) /\ Priced(n)
    <3> SUFFICES ASSUME NEW n \in new PROVE HasCost(n) /\ Priced(n)
      OBVIOUS
    <3>1. HasCost(Ask(e).row)
      BY <1>1, <1>2, EditsAssumption DEF RequestKnown, Ask, Asks
    <3>2. Suits(Ask(e).row, Ask(e).row)
      BY DEF Suits
    <3> QED
      BY <3>1, <3>2, Completed
  <2>8. at \in {"invalid", "plan"}
    OBVIOUS
  <2> HIDE DEF new, at
  <2>3. /\ DOMAIN edited = RequestFields /\ edited.op = edit[e].op
        /\ edited.new = new /\ edited.target = edit[e].target
        /\ edited.order = edit[e].order /\ edited.at = at
    BY <1>1 DEF RequestKnown, RequestFields
  <2> HIDE DEF edited
  <2>4. RequestKnown(e, edited)
    BY <1>1, <2>3 DEF RequestKnown
  <2>5. RequestSound(edited)
    BY <1>1, <1>2, <2>2, <2>3, <2>8 DEF RequestSound, Pending, Asks, Ask
  <2> QED
    BY <1>1, <2>1, <2>3, <2>4, <2>5, RequestMoves
<1>3. CASE Asks(e, "reorder")
  <2>1. Closes(e, "sent")
    BY <1>3 DEF OpenEdit, Asks
  <2> QED
    BY <1>1, <1>3, <2>1, RequestAnswers
<1>4. CASE ~ Asks(e, "create") /\ ~ Asks(e, "reorder")
  <2>1. PICK row \in items :
           /\ Fits(row, Ask(e)) /\ row.id = Ask(e).id
           /\ edit' = [edit EXCEPT ![e].target = {row}, ![e].at =
                          IF Unread(e, row) THEN "write" ELSE "sent"]
    BY <1>4 DEF OpenEdit
  <2> DEFINE at == IF Unread(e, row) THEN "write" ELSE "sent"
             edited == [edit[e] EXCEPT !.target = {row}, !.at = at]
  <2>2. edit' = [edit EXCEPT ![e] = edited]
    BY <2>1
  <2>3. /\ DOMAIN edited = RequestFields /\ edited.op = edit[e].op
        /\ edited.target = {row} /\ edited.order = edit[e].order
        /\ edited.at = at
    BY <1>1 DEF RequestKnown, RequestFields
  <2>4. at = "write" => Asks(e, "remove")
    BY DEF Unread
  <2>5. at \in {"sent", "write"}
    OBVIOUS
  <2> HIDE DEF at, edited
  <2>6. RequestKnown(e, edited)
    BY <1>1, <2>3 DEF RequestKnown
  <2>7. RequestSound(edited)
    BY <2>1, <2>3, <2>4, <2>5 DEF RequestSound, Pending, Asks, Ask
  <2> QED
    BY <1>1, <2>2, <2>3, <2>6, <2>7, RequestMoves
<1> QED
  BY <1>2, <1>3, <1>4

\* What a form completes can be used, and agrees with the row it was opened on
\* in what the update will leave.
LEMMA CompletedAgrees ==
    ASSUME NEW e \in Editors, NEW op \in Edits[e], op.verb = "patch",
           NEW row, NEW opened, HasCost(row), SameCost(row, opened),
           Fits(opened, op), NEW new \in Complete(row, op.patch)
    PROVE  HasCost(new) /\ Priced(new) /\ Agrees(op, new, opened)
<1>1. Suits(op.patch, row)
  BY EditsAssumption DEF Suits, Fits, SameCost, IsOption
<1>2. /\ HasCost(new) /\ Priced(new) /\ SameTable(new, row)
      /\ IsOption(row) =>
            \A f \in CostFields(row.list) :
               f \notin DOMAIN op.patch \cup {"min", "max", "rooms"} => new[f] = row[f]
  BY <1>1, Completed
<1>3. SameTable(new, opened)
  BY <1>2 DEF SameTable, SameCost, IsOption
<1>4. ASSUME NEW f \in CostFields(new.list) \ (Written(op, new) \cup {"rooms"})
      PROVE  new[f] = opened[f]
  <2>1. CASE IsOption(row)
    <3>1. IsOption(new)
      BY <1>2, <2>1 DEF SameTable, IsOption
    <3>2. CostFields(new.list) = CostFields(row.list)
      BY <2>1, <3>1 DEF CostFields, IsOption
    <3>3. f \notin DOMAIN op.patch \cup {"min", "max", "rooms"}
      BY <1>4, <3>1, ListsDiffer DEF Written, IsOption
    <3>4. new[f] = row[f]
      BY <1>2, <1>4, <2>1, <3>2, <3>3
    <3> QED
      BY <1>4, <3>2, <3>4 DEF SameCost
  <2>2. CASE ~ IsOption(row)
    <3>1. new.list = row.list /\ ~ IsOption(new)
      BY <1>2, <2>2 DEF SameTable, IsOption
    <3>2. f = "list"
      <4>1. CASE new.list = PackageList
        BY <1>4, <4>1, ListsDiffer DEF Written, CostFields
      <4>2. CASE new.list # PackageList
        BY <1>4, <3>1, <4>2 DEF CostFields, IsOption
      <4> QED
        BY <4>1, <4>2
    <3> QED
      BY <3>1, <3>2 DEF SameCost
  <2> QED
    BY <2>1, <2>2
<1> QED
  BY <1>2, <1>3, <1>4 DEF Agrees

LEMMA ReadKeepsLists ==
    ASSUME ListsInv, NEW e \in Editors, ReadItem(e)
    PROVE  ListsInv'
<1> DEFINE rows == ItemWithId(Ask(e).id)
           row == CHOOSE r \in rows : TRUE
           opened == CHOOSE r \in edit[e].target : TRUE
           new == IF Asks(e, "patch") THEN Complete(row, Ask(e).patch)
                  ELSE IF Asks(e, "status") THEN {Over(Ask(e).patch, row)} ELSE {}
           at == IF Asks(e, "patch") /\ Moves(row, Ask(e).patch) THEN "plan" ELSE "write"
           edited == [edit[e] EXCEPT !.at = at, !.new = new]
<1>1. /\ edit[e].at = "sent" /\ ~ Asks(e, "reorder") /\ UNCHANGED <<items, rerun>>
      /\ RequestKnown(e, edit[e]) /\ RequestSound(edit[e])
  BY DEF ReadItem, ListsInv, RequestsKnown, RequestsSound
<1>2. \/ Closes(e, "notFound") \/ Closes(e, "stale")
      \/ Closes(e, "protected") \/ Closes(e, "invalid")
      \/ /\ rows # {}
         /\ Asks(e, "patch") => row.rev = opened.rev
         /\ edit' = [edit EXCEPT ![e].at = at, ![e].new = new]
  BY Zenon DEF ReadItem
<1>3. CASE /\ rows # {}
           /\ Asks(e, "patch") => row.rev = opened.rev
           /\ edit' = [edit EXCEPT ![e].at = at, ![e].new = new]
  <2>1. edit' = [edit EXCEPT ![e] = edited]
    <3> HIDE DEF rows, row, new, at
    <3> QED
      BY <1>3
  <2>2. row \in items /\ row.id = Ask(e).id
    <3>1. rows = {r \in items : r.id = Ask(e).id}
      BY DEF ItemWithId, WithId
    <3>2. row \in rows
      BY <1>3
    <3> HIDE DEF row
    <3> QED
      BY <3>1, <3>2
  <2> HIDE DEF rows
  <2>3. /\ DOMAIN edited = RequestFields /\ edited.op = edit[e].op
        /\ edited.new = new /\ edited.target = edit[e].target
        /\ edited.order = edit[e].order /\ edited.at = at
    <3> HIDE DEF row, new, at
    <3> QED
      BY <1>1 DEF RequestKnown, RequestFields
  <2>4. RequestKnown(e, edited)
    <3> HIDE DEF edited
    <3> QED
      BY <1>1, <2>3 DEF RequestKnown
  <2>5. edit[e].target = {opened} /\ opened \in Seen
        /\ opened.id = Ask(e).id /\ Fits(opened, Ask(e))
    <3>1. edit[e].target # {} /\ \A r \in edit[e].target : edit[e].target = {r}
      BY <1>1 DEF RequestSound, Asks, Ask
    <3> HIDE DEF edited, new, at, row
    <3> QED
      BY <1>1, <3>1 DEF RequestSound, Seen, Ask
  <2>6. ASSUME Asks(e, "patch"), NEW n \in new
        PROVE  HasCost(n) /\ Priced(n) /\ Agrees(Ask(e), n, opened)
    <3>1. n \in Complete(row, Ask(e).patch)
      BY <2>6
    <3> HIDE DEF new, row, opened, at, edited
    <3>2. row \in Seen /\ HasCost(row)
      BY <2>2 DEF ListsInv, SeenSound, Sound, Seen
    <3>3. SameCost(row, opened)
      BY <1>3, <2>2, <2>5, <2>6, <3>2 DEF ListsInv, RevisionsTell
    <3>4. Ask(e) \in Edits[e] /\ Ask(e).verb = "patch"
      BY <1>1, <2>6 DEF RequestKnown, Ask, Asks
    <3> QED
      BY <2>5, <3>1, <3>2, <3>3, <3>4, CompletedAgrees
  <2>7. at \in {"plan", "write"} /\ (Asks(e, "create") => new = {})
    BY DEF Asks
  <2> HIDE DEF row, new, at, opened, edited
  <2>8. Pending(edited)
    BY <1>1, <2>3, <2>5, <2>6, <2>7 DEF Pending, Ask, Asks
  <2>9. RequestSound(edited)
    BY <1>1, <2>3, <2>7, <2>8 DEF RequestSound, edited
  <2> QED
    BY <1>1, <2>1, <2>3, <2>4, <2>9, RequestMoves
<1> QED
  BY <1>1, <1>2, <1>3, RequestAnswers

LEMMA PlanKeepsLists ==
    ASSUME ListsInv, NEW e \in Editors, PlanOrder(e)
    PROVE  ListsInv'
<1>1. PICK new \in edit[e].new :
         edit' = [edit EXCEPT ![e].at = "write",
                              ![e].order = NextOrder(InList(items, new.list))]
  BY DEF PlanOrder
<1> DEFINE n == NextOrder(InList(items, new.list))
           edited == [edit[e] EXCEPT !.at = "write", !.order = n]
<1>2. n \in Nat
  <2> DEFINE rows == InList(items, new.list)
  <2>1. rows \in SUBSET items
    BY DEF InList
  <2>2. IsFiniteSet(rows) /\ \A row \in rows : row.order \in Nat
    <3> HIDE DEF rows
    <3> QED
      BY <2>1, FS_Subset DEF ListsInv, SeenSound, Sound, Seen
  <2> HIDE DEF rows
  <2>3. NextOrder(rows) \in Nat
    BY <2>2, NextIsCount
  <2> QED
    BY <2>3 DEF rows
<1> HIDE DEF n
<1>3. edit' = [edit EXCEPT ![e] = edited]
  BY <1>1 DEF n
<1>4. /\ edit[e].at = "plan" /\ UNCHANGED <<items, rerun>>
      /\ RequestKnown(e, edit[e]) /\ RequestSound(edit[e])
  BY DEF PlanOrder, ListsInv, RequestsKnown, RequestsSound
<1>5. /\ DOMAIN edited = RequestFields /\ edited.op = edit[e].op
      /\ edited.new = edit[e].new /\ edited.target = edit[e].target
      /\ edited.order = n /\ edited.at = "write"
  BY <1>4 DEF RequestKnown, RequestFields
<1> HIDE DEF edited
<1>6. RequestKnown(e, edited)
  BY <1>2, <1>4, <1>5 DEF RequestKnown
<1>7. RequestSound(edited)
  BY <1>4, <1>5 DEF RequestSound, Pending
<1> QED
  BY <1>3, <1>4, <1>5, <1>6, <1>7, RequestMoves

LEMMA CheckKeepsLists ==
    ASSUME ListsInv, NEW e \in Editors, CheckReorder(e)
    PROVE  ListsInv'
<1>1. /\ edit[e].at = "sent" /\ Asks(e, "reorder") /\ UNCHANGED <<items, rerun>>
  BY DEF CheckReorder
<1>2. CASE NamesAll(Ask(e).list, Ask(e).ids)
  <2>1. Closes(e, "write")
    BY <1>2 DEF CheckReorder
  <2>2. Pending(edit[e])
    BY <1>1, <1>2 DEF Pending, NamesAll, Asks, Ask
  <2> QED
    BY <1>1, <2>1, <2>2, RequestAnswers
<1>3. CASE ~ NamesAll(Ask(e).list, Ask(e).ids)
  <2>1. Closes(e, "invalid")
    BY <1>3 DEF CheckReorder
  <2> QED
    BY <1>1, <2>1, RequestAnswers
<1> QED
  BY <1>2, <1>3

\* The answer to a unique constraint.
LEMMA RetryKeepsLists ==
    ASSUME ListsInv, NEW e \in Editors, TryAgain(e), edit[e].at = "write",
           UNCHANGED <<items, rerun>>
    PROVE  ListsInv'
<1>1. CASE edit[e].retried
  BY <1>1, RequestAnswers DEF TryAgain
<1>2. CASE ~ edit[e].retried
  <2> DEFINE edited == [edit[e] EXCEPT !.at = "plan", !.retried = TRUE]
  <2>1. edit' = [edit EXCEPT ![e] = edited]
    BY <1>2 DEF TryAgain
  <2>2. RequestKnown(e, edit[e]) /\ RequestSound(edit[e])
    BY DEF ListsInv, RequestsKnown, RequestsSound
  <2>3. /\ DOMAIN edited = RequestFields /\ edited.op = edit[e].op
        /\ edited.new = edit[e].new /\ edited.target = edit[e].target
        /\ edited.order = edit[e].order /\ edited.at = "plan"
    BY <2>2 DEF RequestKnown, RequestFields
  <2> HIDE DEF edited
  <2>4. RequestKnown(e, edited)
    BY <2>2, <2>3 DEF RequestKnown
  <2>5. RequestSound(edited)
    BY <2>2, <2>3 DEF RequestSound, Pending
  <2> QED
    BY <2>1, <2>3, <2>4, <2>5, RequestMoves
<1> QED
  BY <1>1, <1>2

-----------------------------------------------------------------------------
(* The steps that write rows.                                              *)

\* Rows are written by a request that ends with it.
LEMMA RequestWrites ==
    ASSUME ListsInv, NEW e \in Editors, edit[e].at = "write", Closes(e, "ok"),
           rerun' = rerun, IsFiniteSet(items'),
           \A row \in items' : Sound(row) /\ (row.rev = e \/ Continues(row)),
           \A row, other \in items' :
              row.rev = e /\ other.rev = e /\ row.id = other.id => SameCost(row, other)
    PROVE  ListsInv'
<1>1. RequestKnown(e, edit[e]) /\ RequestSound(edit[e]) /\ DOMAIN edit = Editors
  BY DEF ListsInv, RequestsKnown, RequestsSound
<1>2. /\ edit'[e] = [edit[e] EXCEPT !.at = "ok"]
      /\ \A other \in Editors \ {e} : edit'[other] = edit[other]
      /\ DOMAIN edit' = Editors
  BY <1>1 DEF Closes
<1>3. /\ DOMAIN edit'[e] = RequestFields /\ edit'[e].at = "ok"
      /\ edit'[e].op = edit[e].op /\ edit'[e].target = edit[e].target
      /\ edit'[e].order = edit[e].order
  BY <1>1, <1>2 DEF RequestKnown, RequestFields
<1>4. \A row \in Seen : row.rev # e
  BY DEF ListsInv, SeenDated, Dated
<1>5. \A other \in Editors : edit'[other].target = edit[other].target
  BY <1>2, <1>3
<1>6. (\A rev : Dated(rev) => Dated(rev)') /\ Dated(e)'
  BY <1>2, <1>3, RevisionsAssumption DEF Dated
<1>7. SeenSound' /\ SeenDated' /\ RevisionsTell'
  BY <1>4, <1>5, <1>6, RowsWritten
<1>8. RequestKnown(e, edit[e])' /\ RequestSound(edit[e])'
  BY <1>1, <1>3 DEF RequestKnown, RequestSound
<1>9. RequestsKnown' /\ RequestsSound'
  BY <1>2, <1>8 DEF ListsInv, RequestsKnown, RequestsSound
<1> QED
  BY <1>7, <1>9 DEF ListsInv

LEMMA SeenContinues == \A row \in Seen : Continues(row)
BY CostsCompare DEF Continues

LEMMA RemoveKeepsLists ==
    ASSUME ListsInv, NEW e \in Editors, RemoveItem(e)
    PROVE  ListsInv'
<1>1. /\ edit[e].at = "write" /\ rerun' = rerun
      /\ items' = items \ ItemWithId(Ask(e).id)
  BY DEF RemoveItem
<1>2. CASE ItemWithId(Ask(e).id) = {}
  <2>1. items' = items /\ Closes(e, "notFound")
    BY <1>1, <1>2 DEF RemoveItem
  <2> QED
    BY <1>1, <2>1, RequestAnswers
<1>3. CASE ItemWithId(Ask(e).id) # {}
  <2>1. Closes(e, "ok")
    BY <1>3 DEF RemoveItem
  <2>2. items' \in SUBSET items
    BY <1>1
  <2>3. IsFiniteSet(items')
    BY <2>2, FS_Subset DEF ListsInv
  <2>4. \A row \in items' : row \in Seen /\ Sound(row) /\ row.rev # e
    BY <1>1, <2>2 DEF ListsInv, SeenSound, SeenDated, Dated, Seen
  <2> QED
    BY <1>1, <2>1, <2>3, <2>4, SeenContinues, RequestWrites
<1> QED
  BY <1>2, <1>3

LEMMA InsertKeepsLists ==
    ASSUME ListsInv, NEW e \in Editors, InsertItem(e)
    PROVE  ListsInv'
<1>1. PICK new \in edit[e].new :
         LET rows == items \cup
                {Over([id |-> e, rev |-> e, order |-> edit[e].order,
                       status |-> "DRAFT"], new)}
         IN  IF Unique(rows) THEN items' = rows /\ Closes(e, "ok")
             ELSE TryAgain(e) /\ UNCHANGED items
  BY DEF InsertItem
<1> DEFINE place == [id |-> e, rev |-> e, order |-> edit[e].order, status |-> "DRAFT"]
           row == Over(place, new)
<1>2. /\ edit[e].at = "write" /\ Asks(e, "create") /\ rerun' = rerun
      /\ edit[e].order \in Nat /\ HasCost(new) /\ Priced(new)
  BY DEF InsertItem, ListsInv, RequestsKnown, RequestKnown, RequestsSound,
         RequestSound, Pending, Asks, Ask
<1>3. /\ DOMAIN row = DOMAIN new \cup {"id", "rev", "order", "status"}
      /\ row.id = e /\ row.rev = e /\ row.order = edit[e].order
      /\ \A f \in DOMAIN new \ {"id", "rev", "order", "status"} : row[f] = new[f]
  BY DEF Over
<1> HIDE DEF row
<1>4. Sound(row)
  <2>1. /\ CostFields(new.list) \subseteq DOMAIN new \ {"id", "rev", "order", "status"}
        /\ "list" \in CostFields(new.list)
    BY <1>2 DEF HasCost, CostFields
  <2>2. SameCost(row, new)
    BY <1>3, <2>1 DEF SameCost
  <2>3. HasCost(row) /\ Priced(row)
    BY <1>2, <1>3, <2>1, <2>2, PriceFollowsCost DEF HasCost
  <2> QED
    BY <1>2, <1>3, <2>3 DEF Sound
<1>5. CASE items' = items \cup {row} /\ Closes(e, "ok")
  <2>1. IsFiniteSet(items')
    BY <1>5, FS_AddElement DEF ListsInv
  <2>2. \A other \in items : other \in Seen /\ Sound(other) /\ other.rev # e
    BY <1>2 DEF ListsInv, SeenSound, SeenDated, Dated, Seen
  <2>3. \A other \in items' : Sound(other) /\ (other.rev = e \/ Continues(other))
    BY <1>3, <1>4, <1>5, <2>2, SeenContinues
  <2>4. \A one, other \in items' :
           one.rev = e /\ other.rev = e /\ one.id = other.id => SameCost(one, other)
    BY <1>5, <2>2, CostsCompare
  <2> QED
    BY <1>2, <1>5, <2>1, <2>3, <2>4, RequestWrites
<1>6. CASE TryAgain(e) /\ UNCHANGED items
  BY <1>2, <1>6, RetryKeepsLists
<1> QED
  BY <1>1, <1>5, <1>6 DEF row

\* An update of an option leaves the rooms only if the completed unit is per room.
LEMMA PricedButRooms ==
    ASSUME NEW row, NEW new, HasCost(new), Priced(new),
           \A f \in CostFields(new.list) \ {"rooms"} : row[f] = new[f],
           IsOption(new) => row.rooms = new.rooms \/ PerRoom(new.unit)
    PROVE  Priced(row) /\ row.list = new.list
<1>1. row.list = new.list
  BY DEF CostFields
<1>2. CASE IsOption(new)
  <2>1. /\ row.price = new.price /\ row.keys = new.keys
        /\ row.unit = new.unit /\ row.min = new.min /\ row.max = new.max
    BY <1>2 DEF CostFields, IsOption
  <2>2. PricedOption(new)
    BY <1>2 DEF Priced
  <2>3. OnePriceSource(row) /\ Counted(row) = Counted(new) /\ Bounded(row) = Bounded(new)
    BY <2>1, <2>2 DEF PricedOption, OnePriceSource, Counted, Bounded
  <2>4. row.rooms => PerRoom(row.unit)
    <3>1. CASE row.rooms = new.rooms
      BY <2>1, <2>2, <3>1 DEF PricedOption
    <3>2. CASE PerRoom(new.unit)
      BY <2>1, <3>2
    <3> QED
      BY <1>2, <3>1, <3>2
  <2>5. PricedOption(row)
    BY <2>1, <2>2, <2>3, <2>4 DEF PricedOption
  <2> QED
    BY <1>1, <1>2, <2>5, ListsDiffer DEF Priced, IsOption
<1>3. CASE ~ IsOption(new)
  <2>1. CASE new.list = PackageList
    <3>1. row.included = new.included /\ row.price = new.price /\ row.unit = new.unit
      BY <2>1, ListsDiffer DEF CostFields
    <3>2. PricedPackageItem(row)
      BY <2>1, <3>1 DEF PricedPackageItem, Priced
    <3> QED
      BY <1>1, <1>3, <3>2 DEF Priced, IsOption
  <2>2. CASE new.list # PackageList
    BY <1>1, <1>3, <2>2 DEF Priced, IsOption
  <2> QED
    BY <2>1, <2>2
<1> QED
  BY <1>1, <1>2, <1>3

\* The fields an update sets.
SetFields(e, new, opened) ==
    [f \in Written(Ask(e), new) \cup {"rev"} \cup
          (IF Asks(e, "patch") /\ Moves(opened, Ask(e).patch) THEN {"order"} ELSE {})
     |-> CASE f = "rev" -> e
           [] f = "order" -> edit[e].order
           [] OTHER -> new[f]]

\* What an update writes can be used, though it was completed from an older row.
LEMMA UpdatedIsSound ==
    ASSUME ListsInv, NEW e \in Editors, edit[e].at = "write",
           Ask(e).verb \in {"patch", "status"},
           NEW new \in edit[e].new, NEW opened \in edit[e].target,
           NEW row \in AsOpened(e)
    PROVE  LET r == Over(SetFields(e, new, opened), row)
           IN  /\ Sound(r) /\ r.id = row.id /\ r.rev = e
               /\ SameTable(r, row)
<1> DEFINE set == SetFields(e, new, opened)
           r == Over(set, row)
<1>1. /\ Ask(e) \in Edits[e] /\ edit[e].order \in Nat
      /\ opened.id = Ask(e).id
      /\ Asks(e, "patch") => /\ HasCost(new) /\ Priced(new)
                             /\ Agrees(Ask(e), new, opened)
  BY DEF ListsInv, RequestsKnown, RequestKnown, RequestsSound, RequestSound,
         Pending, Asks, Ask
<1>2. row \in items /\ row.id = Ask(e).id /\ row.rev = opened.rev
  BY DEF AsOpened, ItemWithId, WithId
<1>3. Sound(row) /\ SameCost(row, opened)
  BY <1>1, <1>2 DEF ListsInv, SeenSound, RevisionsTell, Seen
<1>4. Written(Ask(e), new) \subseteq
         {"status", "code", "list", "price", "keys", "unit", "min", "max", "rooms", "included"}
  <2>1. CASE Asks(e, "status")
    BY <2>1 DEF Written, Asks
  <2>2. CASE ~ Asks(e, "status")
    <3>1. DOMAIN Ask(e).patch \subseteq
             {"code"} \cup CostFields("ENGINEERING") \cup CostFields(PackageList)
      BY <1>1, <2>2, EditsAssumption DEF Asks
    <3>2. DOMAIN Ask(e).patch \subseteq
             {"code", "list", "price", "keys", "unit", "min", "max", "rooms", "included"}
      BY <3>1 DEF CostFields, OptionKinds, PackageList
    <3> QED
      BY <2>2, <3>2 DEF Written, Asks
  <2> QED
    BY <2>1, <2>2
<1>5. /\ DOMAIN set \subseteq Written(Ask(e), new) \cup {"rev", "order"}
      /\ Written(Ask(e), new) \subseteq DOMAIN set
      /\ \A f \in Written(Ask(e), new) : set[f] = new[f]
      /\ "rev" \in DOMAIN set /\ set["rev"] = e
      /\ "order" \in DOMAIN set => set["order"] = edit[e].order
  BY <1>4 DEF SetFields
<1>6. /\ DOMAIN r = DOMAIN set \cup DOMAIN row
      /\ \A f \in DOMAIN set : r[f] = set[f]
      /\ \A f \in DOMAIN row \ DOMAIN set : r[f] = row[f]
  BY DEF Over
<1> HIDE DEF set, r
<1>7. r.id = row.id /\ r.rev = e /\ r.order \in Nat
      /\ {"id", "rev", "order"} \subseteq DOMAIN r
  BY <1>1, <1>3, <1>4, <1>5, <1>6 DEF Sound
<1>8. CostFields(row.list) \subseteq DOMAIN row /\ "list" \in CostFields(row.list)
  BY <1>3 DEF Sound, HasCost, CostFields
<1>9. CASE Asks(e, "status")
  <2>1. DOMAIN set \subseteq {"status", "rev", "order"}
    BY <1>5, <1>9 DEF Written, Asks
  <2>2. CostFields(row.list) \cap {"status", "rev", "order"} = {}
    BY DEF CostFields
  <2>3. SameCost(r, row)
    BY <1>6, <1>8, <2>1, <2>2 DEF SameCost
  <2>4. HasCost(r) /\ Priced(r)
    BY <1>3, <1>6, <1>8, <2>3, PriceFollowsCost DEF Sound, HasCost, SameCost
  <2> QED
    BY <1>7, <2>3, <2>4 DEF Sound, SameTable, SameCost, r, set
<1>10. CASE Asks(e, "patch")
  <2>1. HasCost(new) /\ Priced(new) /\ Agrees(Ask(e), new, opened)
    BY <1>1, <1>10
  <2>2. SameTable(new, row)
    BY <1>3, <2>1 DEF Agrees, SameTable, SameCost, IsOption
  <2>3. CostFields(new.list) = CostFields(row.list)
    BY <2>2 DEF SameTable, CostFields, IsOption
  <2>4. CostFields(row.list) \cap {"rev", "order"} = {}
    BY DEF CostFields
  <2>5. ASSUME NEW f \in CostFields(new.list), f \in Written(Ask(e), new) \/ f # "rooms"
        PROVE  r[f] = new[f]
    <3>1. CASE f \in Written(Ask(e), new)
      BY <1>5, <1>6, <3>1
    <3>2. CASE f \notin Written(Ask(e), new)
      <4>1. new[f] = opened[f]
        BY <2>1, <2>5, <3>2 DEF Agrees
      <4>2. row[f] = opened[f]
        BY <1>3, <2>3, <2>5 DEF SameCost
      <4>3. f \in DOMAIN row \ DOMAIN set
        BY <1>5, <1>8, <2>3, <2>4, <2>5, <3>2
      <4> QED
        BY <1>6, <4>1, <4>2, <4>3
    <3> QED
      BY <3>1, <3>2
  <2>6. IsOption(new) => r.rooms = new.rooms \/ PerRoom(new.unit)
    <3> SUFFICES ASSUME IsOption(new), ~ PerRoom(new.unit) PROVE r.rooms = new.rooms
      OBVIOUS
    <3>1. "rooms" \in Written(Ask(e), new)
      BY <1>10, ListsDiffer DEF Written, Asks, IsOption
    <3>2. "rooms" \in CostFields(new.list)
      BY DEF CostFields, IsOption
    <3> QED
      BY <2>5, <3>1, <3>2
  <2>7. Priced(r) /\ r.list = new.list
    BY <2>1, <2>5, <2>6, PricedButRooms
  <2>8. HasCost(r)
    BY <1>6, <1>8, <2>1, <2>3, <2>7 DEF HasCost
  <2> QED
    BY <1>7, <2>2, <2>7, <2>8 DEF Sound, SameTable, IsOption, r, set
<1> QED
  BY <1>9, <1>10 DEF Asks

LEMMA UpdateKeepsLists ==
    ASSUME ListsInv, NEW e \in Editors, UpdateItem(e)
    PROVE  ListsInv'
<1>1. /\ edit[e].at = "write" /\ Ask(e).verb \in {"patch", "status"}
      /\ rerun' = rerun
  BY DEF UpdateItem
<1>2. PICK new \in edit[e].new, opened \in edit[e].target :
         LET set == SetFields(e, new, opened)
             rows == (items \ AsOpened(e)) \cup {Over(set, row) : row \in AsOpened(e)}
         IN  \/ UNCHANGED items /\ (Closes(e, "notFound") \/ Closes(e, "stale"))
             \/ UNCHANGED items /\ TryAgain(e)
             \/ items' = rows /\ Closes(e, "ok")
  BY Zenon DEF UpdateItem, SetFields
<1> DEFINE set == SetFields(e, new, opened)
           rest == items \ AsOpened(e)
           f == [row \in AsOpened(e) |-> Over(set, row)]
<1>3. CASE UNCHANGED items /\ (Closes(e, "notFound") \/ Closes(e, "stale"))
  BY <1>1, <1>3, RequestAnswers
<1>4. CASE UNCHANGED items /\ TryAgain(e)
  BY <1>1, <1>4, RetryKeepsLists
<1>5. CASE /\ items' = rest \cup {Over(set, row) : row \in AsOpened(e)}
           /\ Closes(e, "ok")
  <2>1. AsOpened(e) \in SUBSET items /\ rest \in SUBSET items
    BY DEF AsOpened
  <2>2. IsFiniteSet(items')
    <3>1. IsFiniteSet(AsOpened(e)) /\ IsFiniteSet(rest)
      BY <2>1, FS_Subset DEF ListsInv
    <3>2. IsFiniteSet({f[row] : row \in AsOpened(e)})
      <4>1. DOMAIN f = AsOpened(e)
        OBVIOUS
      <4> HIDE DEF f
      <4> QED
        BY <3>1, <4>1, ImageFinite
    <3>3. {f[row] : row \in AsOpened(e)} = {Over(set, row) : row \in AsOpened(e)}
      OBVIOUS
    <3> QED
      BY <1>5, <3>1, <3>2, <3>3, FS_Union
  <2>3. \A row \in rest : row \in Seen /\ Sound(row) /\ row.rev # e
    BY <1>1, <2>1 DEF ListsInv, SeenSound, SeenDated, Dated, Seen
  <2>4. \A row \in AsOpened(e) :
           /\ Sound(Over(set, row)) /\ Over(set, row).id = row.id
           /\ Over(set, row).rev = e /\ SameTable(Over(set, row), row)
    BY <1>1, UpdatedIsSound
  <2>5. \A row, other \in AsOpened(e) : SameCost(row, other)
    <3>1. \A row \in AsOpened(e) :
             row \in Seen /\ row.id = Ask(e).id /\ row.rev = opened.rev
      BY DEF AsOpened, ItemWithId, WithId, Seen
    <3> QED
      BY <3>1 DEF ListsInv, RevisionsTell
  <2> HIDE DEF set, rest, f
  <2>6. \A row, other \in AsOpened(e) : SameCost(Over(set, row), Over(set, other))
    <3> SUFFICES ASSUME NEW row \in AsOpened(e), NEW other \in AsOpened(e)
                 PROVE  SameCost(Over(set, row), Over(set, other))
      OBVIOUS
    <3>1. HasCost(row) /\ HasCost(other) /\ SameCost(row, other)
      BY <2>1, <2>5 DEF ListsInv, SeenSound, Sound, Seen
    <3>2. CostFields(Over(set, row).list) = CostFields(row.list)
      BY <2>4 DEF SameTable, CostFields, IsOption
    <3>3. "list" \in CostFields(row.list)
      BY DEF CostFields
    <3>4. \A x \in CostFields(row.list) : Over(set, row)[x] = Over(set, other)[x]
      BY <3>1 DEF HasCost, SameCost, Over
    <3> QED
      BY <3>2, <3>3, <3>4 DEF SameCost
  <2>7. \A row \in items' : Sound(row) /\ (row.rev = e \/ Continues(row))
    BY <1>5, <2>3, <2>4, SeenContinues
  <2>8. \A row, other \in items' :
           row.rev = e /\ other.rev = e /\ row.id = other.id => SameCost(row, other)
    BY <1>5, <2>3, <2>6
  <2> QED
    BY <1>1, <1>5, <2>2, <2>7, <2>8, RequestWrites
<1> QED
  BY <1>2, <1>3, <1>4, <1>5

LEMMA ReorderedRows ==
    ASSUME ListsInv, NEW e \in Editors, Asks(e, "reorder"), NEW row \in items
    PROVE  LET ids == Ask(e).ids
               place == (CHOOSE i \in DOMAIN ids : ids[i] = row.id) - 1
           IN  /\ ids \in Seq(Range(ids)) /\ DOMAIN ids = 1..Len(ids) /\ Len(ids) \in Nat
               /\ Sound(row)
               /\ Contains(ids, row.id) =>
                     /\ place \in Nat /\ place + 1 \in DOMAIN ids
                     /\ ids[place + 1] = row.id
<1> DEFINE ids == Ask(e).ids
           spot == CHOOSE i \in DOMAIN ids : ids[i] = row.id
<1>1. ids \in Seq(Range(ids))
  BY EditsAssumption DEF ListsInv, RequestsKnown, RequestKnown, Asks, Ask
<1>2. Sound(row)
  BY DEF ListsInv, SeenSound, Seen
<1> HIDE DEF ids
<1>3. DOMAIN ids = 1..Len(ids) /\ Len(ids) \in Nat
  BY <1>1
<1>4. ASSUME Contains(ids, row.id) PROVE spot \in DOMAIN ids /\ ids[spot] = row.id
  BY <1>3, <1>4 DEF Contains
<1>5. ASSUME Contains(ids, row.id)
      PROVE  spot - 1 \in Nat /\ (spot - 1) + 1 = spot
  <2>1. spot \in 1..Len(ids)
    BY <1>3, <1>4, <1>5
  <2> HIDE DEF spot
  <2> QED
    BY <1>3, <2>1
<1> HIDE DEF spot
<1> QED
  BY <1>1, <1>2, <1>3, <1>4, <1>5 DEF ids, spot

LEMMA ReorderKeepsLists ==
    ASSUME ListsInv, NEW e \in Editors, Reorder(e)
    PROVE  ListsInv'
<1> DEFINE ids == Ask(e).ids
           moved(row) == IF Contains(ids, row.id)
                         THEN [row EXCEPT !.order =
                                  (CHOOSE i \in DOMAIN ids : ids[i] = row.id) - 1]
                         ELSE row
           f == [row \in items |-> moved(row)]
<1>1. /\ edit[e].at = "write" /\ Asks(e, "reorder") /\ rerun' = rerun
      /\ \/ UNCHANGED items /\ (Closes(e, "invalid") \/ Closes(e, "conflict"))
         \/ items' = {moved(row) : row \in items} /\ Closes(e, "ok")
  BY Zenon DEF Reorder, Reordered
<1>2. CASE UNCHANGED items /\ (Closes(e, "invalid") \/ Closes(e, "conflict"))
  BY <1>1, <1>2, RequestAnswers
<1>3. CASE items' = {moved(row) : row \in items} /\ Closes(e, "ok")
  <2>1. IsFiniteSet(items')
    <3>1. IsFiniteSet({f[row] : row \in items})
      <4>1. DOMAIN f = items
        OBVIOUS
      <4> HIDE DEF f
      <4> QED
        BY <4>1, ImageFinite DEF ListsInv
    <3>2. {f[row] : row \in items} = {moved(row) : row \in items}
      OBVIOUS
    <3> QED
      BY <1>3, <3>1, <3>2
  <2>2. ASSUME NEW row \in items
        PROVE  Sound(moved(row)) /\ Continues(moved(row)) /\ moved(row).rev # e
    <3> DEFINE place == (CHOOSE i \in DOMAIN ids : ids[i] = row.id) - 1
    <3>1. Sound(row) /\ row \in Seen /\ row.rev # e
      BY <1>1 DEF ListsInv, SeenSound, SeenDated, Dated, Seen
    <3>2. CASE Contains(ids, row.id)
      <4>1. place \in Nat /\ moved(row) = [row EXCEPT !.order = place]
        BY <1>1, <3>2, ReorderedRows
      <4> HIDE DEF place, moved
      <4>2. /\ Sound(moved(row)) /\ SameCost(moved(row), row)
            /\ moved(row).id = row.id /\ moved(row).rev = row.rev
        BY <3>1, <4>1, OrderWritten
      <4> QED
        BY <3>1, <4>2 DEF Continues
    <3>3. CASE ~ Contains(ids, row.id)
      BY <3>1, <3>3, SeenContinues
    <3> QED
      BY <3>2, <3>3
  <2> HIDE DEF moved
  <2> QED
    BY <1>1, <1>3, <2>1, <2>2, RequestWrites
<1> QED
  BY <1>1, <1>2, <1>3

LEMMA DeadlockKeepsLists ==
    ASSUME ListsInv, NEW e \in Editors, ReorderDeadlock(e)
    PROVE  ListsInv'
<1>1. /\ edit[e].at = "write" /\ UNCHANGED <<items, rerun>>
      /\ Closes(e, "failed") \/ Closes(e, "conflict")
  BY DEF ReorderDeadlock
<1> QED
  BY <1>1, RequestAnswers

-----------------------------------------------------------------------------
(* What an item costs.                                                     *)

LEMMA ListsStep == ListsInv /\ [ListsNext]_listVars => ListsInv'
<1> SUFFICES ASSUME ListsInv, [ListsNext]_listVars PROVE ListsInv'
  OBVIOUS
<1>1. ASSUME NEW e \in Editors,
             \/ OpenEdit(e) \/ ReadItem(e) \/ PlanOrder(e) \/ InsertItem(e)
             \/ UpdateItem(e) \/ RemoveItem(e)
             \/ CheckReorder(e) \/ Reorder(e) \/ ReorderDeadlock(e)
      PROVE  ListsInv'
  BY <1>1, OpenKeepsLists, ReadKeepsLists, PlanKeepsLists, InsertKeepsLists,
     UpdateKeepsLists, RemoveKeepsLists, CheckKeepsLists, ReorderKeepsLists,
     DeadlockKeepsLists
<1>2. CASE SeedLists
  BY <1>2, SeedKeepsLists
<1>3. CASE UNCHANGED listVars
  <2>1. items' = items /\ edit' = edit /\ rerun' = rerun
    BY <1>3 DEF listVars
  <2>2. Seen' = Seen /\ \A rev : Dated(rev) => Dated(rev)'
    BY <2>1 DEF Seen, Dated
  <2>3. SeenSound' /\ RevisionsTell'
    BY <2>2 DEF ListsInv, SeenSound, RevisionsTell
  <2>4. SeenDated'
    BY <2>2 DEF ListsInv, SeenDated
  <2>5. RequestsKnown' /\ RequestsSound'
    BY <2>1 DEF ListsInv, RequestsKnown, RequestsSound
  <2> QED
    BY <2>1, <2>3, <2>4, <2>5 DEF ListsInv
<1> QED
  BY <1>1, <1>2, <1>3 DEF ListsNext

\* Two edits that are each in order never leave an option or an item of the
\* package that the calculation cannot use (options.service.ts,
\* engineering.service.ts): the later one has completed the row it replaces, or is
\* refused.
THEOREM PricesAlwaysUsable == ListsSpec => []ItemsPriced
<1>1. ListsInv => ItemsPriced
  BY DEF ListsInv, SeenSound, Sound, Seen, ItemsPriced
<1> QED
  BY <1>1, ListsStart, ListsStep, PTL DEF ListsSpec

-----------------------------------------------------------------------------
(* Reordering.                                                             *)

\* Only a reorder ends a reorder well.
LEMMA OnlyReorderSucceeds ==
    ASSUME ListsInv, [ListsNext]_listVars, NEW e \in Editors,
           Asks(e, "reorder"), edit[e].at = "write", edit'[e].at = "ok"
    PROVE  /\ Unique(Reordered(Ask(e).ids))
           /\ items' = Reordered(Ask(e).ids)
<1>1. DOMAIN edit = Editors
  BY DEF ListsInv, RequestsKnown
<1>2. edit' # edit /\ ~ SeedLists
  BY DEF SeedLists
<1>3. PICK x \in Editors :
         \/ OpenEdit(x) \/ ReadItem(x) \/ PlanOrder(x) \/ InsertItem(x)
         \/ UpdateItem(x) \/ RemoveItem(x)
         \/ CheckReorder(x) \/ Reorder(x) \/ ReorderDeadlock(x)
  BY <1>2 DEF ListsNext, listVars
<1>4. x = e
  <2> SUFFICES ASSUME x # e PROVE edit'[e] = edit[e]
    OBVIOUS
  <2>1. \A a : Closes(x, a) => edit'[e] = edit[e]
    BY <1>1 DEF Closes
  <2>2. TryAgain(x) => edit'[e] = edit[e]
    BY <1>1, <2>1 DEF TryAgain
  <2>3. CASE OpenEdit(x)
    <3>1. CASE Asks(x, "create")
      BY <1>1, <2>3, <3>1 DEF OpenEdit, Asks
    <3>2. CASE Asks(x, "reorder")
      BY <2>1, <2>3, <3>2 DEF OpenEdit, Asks
    <3>3. CASE ~ Asks(x, "create") /\ ~ Asks(x, "reorder")
      BY <1>1, <2>3, <3>3 DEF OpenEdit
    <3> QED
      BY <3>1, <3>2, <3>3
  <2>4. CASE ReadItem(x)
    <3> DEFINE rows == ItemWithId(Ask(x).id)
               row == CHOOSE r \in rows : TRUE
               new == IF Asks(x, "patch") THEN Complete(row, Ask(x).patch)
                      ELSE IF Asks(x, "status") THEN {Over(Ask(x).patch, row)} ELSE {}
               at == IF Asks(x, "patch") /\ Moves(row, Ask(x).patch)
                     THEN "plan" ELSE "write"
    <3>1. \/ Closes(x, "notFound") \/ Closes(x, "stale")
          \/ Closes(x, "protected") \/ Closes(x, "invalid")
          \/ edit' = [edit EXCEPT ![x].at = at, ![x].new = new]
      BY <2>4, Zenon DEF ReadItem
    <3> HIDE DEF at, new
    <3> QED
      BY <1>1, <2>1, <3>1
  <2>5. CASE PlanOrder(x)
    BY <1>1, <2>5 DEF PlanOrder
  <2>6. CASE InsertItem(x)
    <3>1. Closes(x, "ok") \/ TryAgain(x)
      BY <2>6, Zenon DEF InsertItem
    <3> QED
      BY <2>1, <2>2, <3>1
  <2>7. CASE UpdateItem(x)
    <3>1. Closes(x, "notFound") \/ Closes(x, "stale") \/ Closes(x, "ok") \/ TryAgain(x)
      BY <2>7, Zenon DEF UpdateItem
    <3> QED
      BY <2>1, <2>2, <3>1
  <2>8. CASE RemoveItem(x) \/ CheckReorder(x) \/ ReorderDeadlock(x)
    BY <2>1, <2>8 DEF RemoveItem, CheckReorder, ReorderDeadlock
  <2>9. CASE Reorder(x)
    <3>1. Closes(x, "invalid") \/ Closes(x, "conflict") \/ Closes(x, "ok")
      BY <2>9, Zenon DEF Reorder
    <3> QED
      BY <2>1, <3>1
  <2> QED
    BY <1>3, <2>3, <2>4, <2>5, <2>6, <2>7, <2>8, <2>9
<1>5. DOMAIN edit[e] = RequestFields
  BY DEF ListsInv, RequestsKnown, RequestKnown
<1>6. \A a : Closes(e, a) => a = "ok"
  BY <1>1, <1>5 DEF Closes, RequestFields
<1>7. Reorder(e)
  <2>1. ~ OpenEdit(e) /\ ~ ReadItem(e) /\ ~ PlanOrder(e) /\ ~ CheckReorder(e)
    BY DEF OpenEdit, ReadItem, PlanOrder, CheckReorder
  <2>2. ~ InsertItem(e) /\ ~ UpdateItem(e) /\ ~ RemoveItem(e)
    BY DEF InsertItem, UpdateItem, RemoveItem, Asks
  <2>3. ~ ReorderDeadlock(e)
    <3>1. ReorderDeadlock(e) => Closes(e, "failed") \/ Closes(e, "conflict")
      BY DEF ReorderDeadlock
    <3> QED
      BY <1>6, <3>1
  <2> QED
    BY <1>3, <1>4, <2>1, <2>2, <2>3
<1>8. ~ Closes(e, "invalid") /\ ~ Closes(e, "conflict")
  BY <1>6
<1> QED
  BY <1>7, <1>8, Zenon DEF Reorder

LEMMA ReorderArranges ==
    ASSUME ListsInv, [ListsNext]_listVars, NEW e \in Editors,
           Asks(e, "reorder"), edit[e].at = "write", edit'[e].at = "ok"
    PROVE  ArrangedAsAsked(Ask(e).list, Ask(e).ids)
<1> DEFINE ids == Ask(e).ids
           list == Ask(e).list
           rows == InList(items', list)
           named == {row \in rows : Contains(ids, row.id)}
<1>1. items' = Reordered(ids) /\ Unique(items')
  BY OnlyReorderSucceeds
<1>2. IsInjective(ids)
  BY DEF ListsInv, RequestsSound, RequestSound, Pending, Asks, Ask
<1>3. DOMAIN ids = 1..Len(ids) /\ Len(ids) \in Nat
  <2>1. ids \in Seq(Range(ids))
    BY EditsAssumption DEF ListsInv, RequestsKnown, RequestKnown, Asks, Ask
  <2> HIDE DEF ids
  <2> QED
    BY <2>1
<1>4. \A row \in items' : row.order \in Nat
  BY ListsStep DEF ListsInv, SeenSound, Sound, Seen
<1>5. ASSUME NEW row \in items', Contains(ids, row.id)
      PROVE  row.order + 1 \in DOMAIN ids /\ ids[row.order + 1] = row.id
  <2>1. PICK old \in items :
           row = IF Contains(ids, old.id)
                 THEN [old EXCEPT !.order =
                          (CHOOSE i \in DOMAIN ids : ids[i] = old.id) - 1]
                 ELSE old
    BY <1>1, <1>5 DEF Reordered
  <2> DEFINE place == (CHOOSE i \in DOMAIN ids : ids[i] = old.id) - 1
  <2>2. Sound(old)
    BY ReorderedRows
  <2>3. row.id = old.id
    BY <2>1, <2>2 DEF Sound
  <2>4. Contains(ids, old.id)
    BY <1>5, <2>3
  <2>5. place \in Nat /\ place + 1 \in DOMAIN ids /\ ids[place + 1] = old.id
    BY <2>4, ReorderedRows
  <2>6. row = [old EXCEPT !.order = place]
    BY <2>1, <2>4
  <2> HIDE DEF place, ids
  <2>7. row.order = place
    BY <2>2, <2>6 DEF Sound
  <2> QED
    BY <2>3, <2>5, <2>7
<1> HIDE DEF ids, list
<1>6. ASSUME NEW row \in named, NEW other \in named
      PROVE  row.order < other.order <=>
                \E i, j \in DOMAIN ids : i < j /\ ids[i] = row.id /\ ids[j] = other.id
  <2>1. /\ row \in items' /\ other \in items'
        /\ Contains(ids, row.id) /\ Contains(ids, other.id)
    BY <1>6 DEF InList
  <2>2. /\ row.order + 1 \in DOMAIN ids /\ ids[row.order + 1] = row.id
        /\ other.order + 1 \in DOMAIN ids /\ ids[other.order + 1] = other.id
        /\ row.order \in Nat /\ other.order \in Nat
    BY <1>4, <1>5, <2>1
  <2>3. ASSUME row.order < other.order
        PROVE  \E i, j \in DOMAIN ids : i < j /\ ids[i] = row.id /\ ids[j] = other.id
    <3>1. row.order + 1 < other.order + 1
      BY <2>2, <2>3
    <3> QED
      BY <2>2, <3>1
  <2>4. ASSUME NEW i \in DOMAIN ids, NEW j \in DOMAIN ids,
               i < j, ids[i] = row.id, ids[j] = other.id
        PROVE  row.order < other.order
    <3>1. i = row.order + 1 /\ j = other.order + 1
      BY <1>2, <2>2, <2>4 DEF IsInjective
    <3> QED
      BY <2>2, <2>4, <3>1
  <2> QED
    BY <2>3, <2>4
<1>7. ASSUME list \in OptionKinds, Ids(named) = Range(ids),
             NEW row \in named, NEW other \in rows \ named
      PROVE  row.order < other.order
  <2>1. /\ row \in items' /\ other \in items' /\ other.list = list
        /\ Contains(ids, row.id) /\ ~ Contains(ids, other.id)
    BY <1>7 DEF InList
  <2>2. /\ row.order + 1 \in 1..Len(ids)
        /\ row.order \in Nat /\ other.order \in Nat
    BY <1>3, <1>4, <1>5, <2>1
  <2> SUFFICES ASSUME other.order <= row.order PROVE FALSE
    BY <2>2
  <2>3. other.order + 1 \in DOMAIN ids
    BY <1>3, <2>2
  <2>4. ids[other.order + 1] \in Ids(named)
    BY <1>7, <2>3 DEF Range
  <2>5. PICK third \in named : third.id = ids[other.order + 1]
    BY <2>4 DEF Ids
  <2>6. third \in items' /\ third.list = list /\ Contains(ids, third.id)
    BY <2>5 DEF InList
  <2>7. third.order + 1 \in DOMAIN ids /\ ids[third.order + 1] = third.id
    BY <1>5, <2>6
  <2>8. third.order = other.order
    <3>1. third.order + 1 = other.order + 1
      BY <1>2, <2>3, <2>5, <2>7 DEF IsInjective
    <3> QED
      BY <1>4, <2>1, <2>6, <3>1
  <2>9. third.id = other.id
    BY <1>1, <1>7, <2>1, <2>6, <2>8 DEF Unique, IsOption
  <2> QED
    BY <2>1, <2>6, <2>9
<1> QED
  BY <1>6, <1>7 DEF ArrangedAsAsked, ids, list

\* A reorder that succeeds has the result it was asked for, whatever happened
\* between its check and its transaction (reorder in options.service.ts,
\* engineering.service.ts and styles.service.ts).
THEOREM ReordersHold == ListsSpec => ReorderKept
<1>1. ASSUME ListsInv, [ListsNext]_listVars
      PROVE  [\A e \in DOMAIN edit :
                 Asks(e, "reorder") /\ edit[e].at = "write" /\ edit'[e].at = "ok" =>
                    ArrangedAsAsked(Ask(e).list, Ask(e).ids)]_listVars
  <2>1. DOMAIN edit = Editors
    BY <1>1 DEF ListsInv, RequestsKnown
  <2> QED
    BY <1>1, <2>1, ReorderArranges
<1> QED
  BY <1>1, ListsStart, ListsStep, PTL DEF ListsSpec, ReorderKept
=============================================================================
