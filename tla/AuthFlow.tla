------------------------------ MODULE AuthFlow ------------------------------
(***************************************************************************)
(* Login through Telegram (auth_async.py and its handlers in api.py):      *)
(* concurrent callbacks that count in the rate limiter of their address    *)
(* before they consume the state of a login under way, exchange the code   *)
(* and open a session.  Requests are the callbacks; those of one address,  *)
(* the key of the limiter, for the rest of the flow has nothing that is    *)
(* per address.                                                            *)
(*                                                                         *)
(* A step is one transaction or the calls to Telegram, save that the       *)
(* limiter's reading of its clock and the read of a state before its       *)
(* deletion are steps of their own.  Telegram's answer is arbitrary: it    *)
(* may accept a code twice or refuse it.                                   *)
(***************************************************************************)
EXTENDS RateLimiter, FiniteSets

CONSTANTS
    States,  \* random state parameters that can ever be drawn; bounds the starts
    Users,   \* Telegram accounts
    Ttl,     \* AUTH_STATE_TTL_SECONDS
    None     \* nothing

ASSUME AuthAssumption ==
    /\ IsFiniteSet(Requests) /\ IsFiniteSet(Users)
    /\ Ttl \in Nat \ {0}
    /\ None \notin States \cup Users

VARIABLES
    states,    \* states[s]: the row of auth_states
    users,     \* rows of the users table
    sessions,  \* how many rows auth_sessions has; whose they are makes no difference here
    at,        \* per callback: its step
    carries,   \* per callback: its state, and once that is consumed the user
    uses,      \* history, uses[s]: callbacks that got the verifier of s
    lost       \* history, lost[u]: logins of u that ended in an IntegrityError

limiterVars == vars
tableVars == <<states, users, sessions>>
callbackVars == <<at, carries>>
authVars == <<limiterVars, tableVars, callbackVars, uses, lost>>

Stages == {"away", "limited", "consume", "delete", "refuse", "exchange", "persist", "insert",
           "session"}

AuthTypeOK ==
    /\ TypeOK
    /\ states \in [States -> [status: {"fresh", "stored", "gone"}, expires: Nat]]
    /\ users \in SUBSET Users
    /\ sessions \in Nat
    /\ at \in [Requests -> Stages]
    /\ carries \in [Requests -> States \cup Users \cup {None}]
    /\ uses \in [States -> Nat]
    /\ lost \in [Users -> Nat]

Goto(r, stage, x) ==
    /\ at' = [at EXCEPT ![r] = stage]
    /\ carries' = [carries EXCEPT ![r] = x]

\* The handler answers: with a redirect, 403, 429 or 500.
Respond(r) == Goto(r, "away", None)

-----------------------------------------------------------------------------
(* telegram_start: the state and its verifier are stored. *)

Stored(s) == states[s].status = "stored"

Start(s) ==
    /\ states[s].status = "fresh"
    /\ states' = [states EXCEPT ![s] = [status |-> "stored", expires |-> clock + Ttl]]
    /\ UNCHANGED <<limiterVars, users, sessions, callbackVars, uses, lost>>

-----------------------------------------------------------------------------
(* telegram_callback: the limiter first *)

\* A callback with a state that was drawn; one made up is answered as one that is gone.
Callback(r, s) ==
    /\ at[r] = "away"
    /\ states[s].status # "fresh"
    /\ Begin(r)
    /\ Goto(r, "limited", s)
    /\ UNCHANGED <<tableVars, uses, lost>>

LimitPasses(r) ==
    /\ at[r] = "limited"
    /\ Reopen(r) \/ Count(r) \/ Insert(r)
    /\ Goto(r, "consume", carries[r])
    /\ UNCHANGED <<tableVars, uses, lost>>

LimitWaits(r) ==
    /\ at[r] = "limited"
    /\ SelectFindsNone(r) \/ InsertFails(r)
    /\ UNCHANGED <<tableVars, callbackVars, uses, lost>>

Rejected_GoesOn(r) == Goto(r, "consume", carries[r])
Rejected(r) == Respond(r)

LimitRejects(r) ==
    /\ at[r] = "limited"
    /\ Reject(r)
    /\ Rejected(r)
    /\ UNCHANGED <<tableVars, uses, lost>>

-----------------------------------------------------------------------------
(* consume_auth_state_async *)

ReadState(r) ==
    LET s == carries[r] IN
    /\ at[r] = "consume"
    /\ \/ ~Stored(s) /\ Respond(r)
       \/ Stored(s) /\ clock < states[s].expires /\ Goto(r, "delete", s)
       \/ Stored(s) /\ states[s].expires <= clock /\ Goto(r, "refuse", s)
    /\ UNCHANGED <<limiterVars, tableVars, uses, lost>>

\* The DELETE and its commit: nobody minds when another callback was first.
RemoveState_RolledBack(s) == states' = states
RemoveState(s) == states' = [states EXCEPT ![s] = [status |-> "gone", expires |-> 0]]

DeleteState(r) ==
    LET s == carries[r] IN
    /\ at[r] = "delete"
    /\ RemoveState(s)
    /\ uses' = [uses EXCEPT ![s] = @ + 1]
    /\ Goto(r, "exchange", None)
    /\ UNCHANGED <<limiterVars, users, sessions, lost>>

DeleteExpired(r) ==
    /\ at[r] = "refuse"
    /\ RemoveState(carries[r])
    /\ Respond(r)
    /\ UNCHANGED <<limiterVars, users, sessions, uses, lost>>

-----------------------------------------------------------------------------
(* exchange_telegram_code and verify_telegram_id_token: claims, or an error *)

Exchange(r) ==
    /\ at[r] = "exchange"
    /\ Respond(r) \/ \E u \in Users : Goto(r, "persist", u)
    /\ UNCHANGED <<limiterVars, tableVars, uses, lost>>

-----------------------------------------------------------------------------
(* create_auth_session_async.  A user who is known is updated in the        *)
(* transaction that finds the row.                                         *)

Known_Never(u) == FALSE
Known(u) == u \in users

FindUser(r) ==
    LET u == carries[r] IN
    /\ at[r] = "persist"
    /\ Goto(r, IF Known(u) THEN "session" ELSE "insert", u)
    /\ UNCHANGED <<limiterVars, tableVars, uses, lost>>

InsertUser(r) ==
    LET u == carries[r] IN
    /\ at[r] = "insert"
    /\ u \notin users
    /\ users' = users \cup {u}
    /\ Goto(r, "session", u)
    /\ UNCHANGED <<limiterVars, states, sessions, uses, lost>>

\* Nobody catches the IntegrityError.
InsertUserFails(r) ==
    LET u == carries[r] IN
    /\ at[r] = "insert"
    /\ u \in users
    /\ lost' = [lost EXCEPT ![u] = @ + 1]
    /\ Respond(r)
    /\ UNCHANGED <<limiterVars, tableVars, uses>>

OpenSession(r) ==
    /\ at[r] = "session"
    /\ sessions' = sessions + 1
    /\ Respond(r)
    /\ UNCHANGED <<limiterVars, states, users, uses, lost>>

-----------------------------------------------------------------------------
(* logout, the clock, and the end of the API's process *)

Logout ==
    /\ sessions > 0
    /\ sessions' = sessions - 1
    /\ UNCHANGED <<limiterVars, states, users, callbackVars, uses, lost>>

TimePasses == Tick /\ UNCHANGED <<tableVars, callbackVars, uses, lost>>

Dies(r) ==
    /\ at[r] # "away"
    /\ IF at[r] = "limited" THEN Abandon(r) ELSE UNCHANGED limiterVars
    /\ Respond(r)
    /\ UNCHANGED <<tableVars, uses, lost>>

-----------------------------------------------------------------------------

AuthInit ==
    /\ Init
    /\ states = [s \in States |-> [status |-> "fresh", expires |-> 0]]
    /\ users = {}
    /\ sessions = 0
    /\ at = [r \in Requests |-> "away"]
    /\ carries = [r \in Requests |-> None]
    /\ uses = [s \in States |-> 0]
    /\ lost = [u \in Users |-> 0]

CallbackStep(r) ==
    \/ LimitPasses(r) \/ LimitWaits(r) \/ LimitRejects(r)
    \/ ReadState(r) \/ DeleteState(r) \/ DeleteExpired(r) \/ Exchange(r)
    \/ FindUser(r) \/ InsertUser(r) \/ InsertUserFails(r) \/ OpenSession(r)

AuthNext ==
    \/ \E s \in States : Start(s) \/ \E r \in Requests : Callback(r, s)
    \/ \E r \in Requests : CallbackStep(r) \/ Dies(r)
    \/ Logout
    \/ TimePasses

AuthSpec == AuthInit /\ [][AuthNext]_authVars

-----------------------------------------------------------------------------
(* Properties *)

\* A state is not consumed more often than callbacks can overlap: all who get its
\* verifier read the row before the first of them deleted it.
StateReuseBounded == \A s \in States : uses[s] <= Cardinality(Requests)

\* A login that Telegram confirmed is lost only as one of several overlapping first
\* logins of its user, one of which made the user known.
OnlyFirstLoginsLost ==
    \A u \in Users : lost[u] > 0 => u \in users /\ lost[u] < Cardinality(Requests)

\* The limiter guards the whole callback: no more sessions are opened than its
\* budgets let requests through, whoever fails, dies or logs out on the way.
PastLimiter == {r \in Requests : at[r] \notin {"away", "limited"}}

LoginsWithinBudget == sessions + Cardinality(PastLimiter) <= Limit * windows
=============================================================================
