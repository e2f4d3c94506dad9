------------------------------ MODULE Accounts ------------------------------
(***************************************************************************)
(* The account of an administrator (auth/auth.service): attempts to sign   *)
(* in or to change the password, which are counted and lead to a lockout;  *)
(* and the sessions (auth/session.service), which end after a week or      *)
(* after eight hours without a request.                                    *)
(*                                                                         *)
(* A request reads the clock before it asks the database, at most Delay    *)
(* ticks earlier.  Times are counted in ticks.                             *)
(***************************************************************************)
EXTENDS Integers, Sequences, FiniteSets, FiniteSetsExt, SequencesExt

CONSTANTS
    Attempts,        \* requests with a password
    MaxAttempts,     \* 5
    Lockout,         \* 15 minutes
    Users,           \* requests with a session
    Sessions,        \* the sessions there may be
    AbsoluteTTL,     \* a week
    InactivityTTL,   \* eight hours
    Throttle,        \* a minute
    Delay,           \* how late a request may reach the database
    AccountHorizon   \* bound of the clock

\* A lockout that ends has counted one attempt already, so the limit is not 1.
ASSUME AccountLimits ==
    /\ MaxAttempts \in Nat \ {0, 1}
    /\ Lockout \in Nat /\ Delay \in Nat
    /\ AbsoluteTTL \in Nat /\ InactivityTTL \in Nat /\ Throttle \in Nat
    /\ AccountHorizon \in Nat

VARIABLES
    accountClock,
    account,   \* the counted attempts and the end of the lockout
    attempt,   \* the requests with a password
    counted,   \* when attempts since the last success were counted (not in the code)
    sessions,  \* the rows: session -> when created and last seen
    request,   \* the requests with a session
    used       \* session -> the latest begin of a request it let in that has ended
               \* (not in the code)

lockoutVars == <<account, attempt, counted>>
sessionVars == <<sessions, request, used>>
accountVars == <<accountClock, lockoutVars, sessionVars>>

NotLocked == -1
Unsent == [at |-> "new"]

AccountsInit ==
    /\ accountClock = 0
    /\ account = [count |-> 0, until |-> NotLocked]
    /\ attempt = [a \in Attempts |-> Unsent]
    /\ counted = << >>
    /\ sessions = << >> /\ used = << >>
    /\ request = [u \in Users |-> Unsent]

InFlight ==
    {attempt[a].now : a \in {b \in Attempts : attempt[b].at = "sent"}} \cup
    {request[u].now : u \in {v \in Users : request[v].at \in {"read", "seen"}}}

AccountTick ==
    /\ accountClock < AccountHorizon
    /\ \A now \in InFlight : accountClock < now + Delay
    /\ accountClock' = accountClock + 1
    /\ UNCHANGED <<lockoutVars, sessionVars>>

-----------------------------------------------------------------------------
(* Passwords.                                                              *)

SendPassword(a) ==
    /\ attempt[a] = Unsent
    /\ attempt' = [attempt EXCEPT ![a] = [at |-> "sent", now |-> accountClock]]
    /\ UNCHANGED <<accountClock, account, counted, sessionVars>>

\* Mutant: one attempt more than the limit.
OverLimit(count) == count > MaxAttempts

AtLimit(count) == count >= MaxAttempts

\* One statement checks the lockout, counts the attempt and locks.
ReserveAttempt(a) ==
    /\ attempt[a].at = "sent"
    /\ LET now == attempt[a].now
           unlocked == account.until = NotLocked
       IN  IF unlocked \/ account.until <= now
           THEN /\ account' =
                     [count |-> IF unlocked THEN account.count + 1 ELSE 1,
                      until |-> IF unlocked /\ AtLimit(account.count + 1)
                                THEN now + Lockout ELSE NotLocked]
                /\ counted' = Append(counted, accountClock)
                /\ attempt' = [attempt EXCEPT ![a] = [at |-> "verify"]]
           ELSE /\ attempt' = [attempt EXCEPT ![a] = [at |-> "locked"]]
                /\ UNCHANGED <<account, counted>>
    /\ UNCHANGED <<accountClock, sessionVars>>

WrongPassword(a) ==
    /\ attempt[a].at = "verify"
    /\ attempt' = [attempt EXCEPT ![a] = [at |-> "wrong"]]
    /\ UNCHANGED <<accountClock, account, counted, sessionVars>>

\* The right password forgets the attempts and the lockout, also those of others
\* that came while it was verified.
RightPassword(a) ==
    /\ attempt[a].at = "verify"
    /\ attempt' = [attempt EXCEPT ![a] = [at |-> "right"]]
    /\ account' = [count |-> 0, until |-> NotLocked]
    /\ counted' = << >>
    /\ UNCHANGED <<accountClock, sessionVars>>

LockoutNext ==
    \E a \in Attempts :
        SendPassword(a) \/ ReserveAttempt(a) \/ WrongPassword(a) \/ RightPassword(a)

-----------------------------------------------------------------------------
(* Sessions.                                                               *)

CreateSession(s) ==
    /\ s \notin DOMAIN sessions \cup DOMAIN used
    /\ sessions' = [t \in DOMAIN sessions \cup {s} |->
          IF t = s THEN [created |-> accountClock, seen |-> accountClock]
          ELSE sessions[t]]
    /\ used' = [t \in DOMAIN used \cup {s} |->
          IF t = s THEN accountClock ELSE used[t]]
    /\ UNCHANGED <<accountClock, request, lockoutVars>>

\* Signing out, or changing the password in another session.
DeleteSession(s) ==
    /\ s \in DOMAIN sessions
    /\ sessions' = [t \in DOMAIN sessions \ {s} |-> sessions[t]]
    /\ UNCHANGED <<accountClock, request, used, lockoutVars>>

Replies(u, answer) == request' = [request EXCEPT ![u].at = answer]
LetsIn(u) ==
    /\ Replies(u, "ok")
    /\ used' = [used EXCEPT ![request[u].session] = Max({@, request[u].now})]

\* The session is read; the clock is read after that.
ReadSession(u) ==
    /\ request[u] = Unsent
    /\ \E s \in DOMAIN used :
          IF s \in DOMAIN sessions
          THEN request' = [request EXCEPT ![u] =
                  [at |-> "read", session |-> s, row |-> sessions[s],
                   now |-> accountClock, used |-> used[s]]]
          ELSE Replies(u, "unauthenticated")
    /\ UNCHANGED <<accountClock, sessions, used, lockoutVars>>

IsExpired(row, now) ==
    now - row.created > AbsoluteTTL \/ now - row.seen > InactivityTTL

\* An expired session is deleted; one that was seen a while ago is to be marked.
ValidateSession(u) ==
    /\ request[u].at = "read"
    /\ LET s == request[u].session
           row == request[u].row
           now == request[u].now
       IN  IF IsExpired(row, now)
           THEN /\ sessions' = [t \in DOMAIN sessions \ {s} |-> sessions[t]]
                /\ Replies(u, "expired") /\ UNCHANGED used
           ELSE /\ UNCHANGED sessions
                /\ IF now - row.seen <= Throttle THEN LetsIn(u)
                   ELSE Replies(u, "seen") /\ UNCHANGED used
    /\ UNCHANGED <<accountClock, lockoutVars>>

\* Mutant: the session keeps the time it was created with.
Unmarked(row, now) == row

Marked(row, now) == [row EXCEPT !.seen = now]

\* A session that was deleted meanwhile cannot be marked.
RefreshLastSeen(u) ==
    /\ request[u].at = "seen"
    /\ LET s == request[u].session
       IN  IF s \in DOMAIN sessions
           THEN /\ sessions' = [sessions EXCEPT ![s] = Marked(@, request[u].now)]
                /\ LetsIn(u)
           ELSE Replies(u, "failed") /\ UNCHANGED <<sessions, used>>
    /\ UNCHANGED <<accountClock, lockoutVars>>

SessionNext ==
    \/ \E s \in Sessions : CreateSession(s) \/ DeleteSession(s)
    \/ \E u \in Users : ReadSession(u) \/ ValidateSession(u) \/ RefreshLastSeen(u)

AccountsNext == AccountTick \/ LockoutNext \/ SessionNext
AccountsSpec == AccountsInit /\ [][AccountsNext]_accountVars

-----------------------------------------------------------------------------
(* Properties.                                                             *)

\* Since the last right password, any MaxAttempts + 1 attempts that were counted
\* take up at least the lockout, less the delay with which they may reach the
\* database: attempts sent at once, on either side of the limit or of the end of a
\* lockout, win nothing (auth.service.ts, reserveAttempt).
LockoutHolds ==
    \A i \in 1..(Len(counted) - MaxAttempts) :
        counted[i + MaxAttempts] - counted[i] >= Lockout - Delay

\* A session in its first week that was used lately is not taken for an inactive
\* one: of its last request at most the throttle is forgotten, or the delay of
\* another request that marks the session with the earlier time at which it
\* began (session.service.ts, refreshLastSeen).
SessionsKept ==
    \A u \in Users :
        /\ request[u].at = "expired"
        /\ request[u].now - request[u].row.created <= AbsoluteTTL
        => request[u].now - request[u].used > InactivityTTL - Max({Throttle, Delay})

\* The two promises of the accounts, which share nothing but the clock.
AccessSound == LockoutHolds /\ SessionsKept
=============================================================================
