----------------------------- MODULE RateLimiter -----------------------------
(***************************************************************************)
(* enforce_rate_limit_async (security.py) for one key: concurrent requests *)
(* of the API's handlers, each with a transaction of its own on the row of *)
(* rate_limits.  A request reads the clock, then waits for the row's lock; *)
(* when there is no row it inserts one, and starts anew when another       *)
(* request was first.                                                      *)
(*                                                                         *)
(* A transaction that has the row locked keeps it locked until it commits, *)
(* so what it reads and what it writes are one step.                       *)
(***************************************************************************)
EXTENDS Integers

CONSTANTS
    Requests,  \* requests that may be under way at a time
    Limit,     \* limit
    Window,    \* window_seconds
    MaxTime    \* bound on the clock

ASSUME LimiterAssumption ==
    Limit \in Nat \ {0} /\ Window \in Nat \ {0} /\ MaxTime \in Nat

VARIABLES
    row,       \* the row of rate_limits
    clock,     \* the time of day
    pc,        \* per request: what it does next
    now,       \* per request: the time it read
    retries,   \* per request: IntegrityErrors it met
    windows,   \* history: windows opened
    total      \* history: requests let through

vars == <<row, clock, pc, now, retries, windows, total>>

NoRow == [window_start |-> 0, count |-> 0, expires_at |-> 0]

RateRows == [window_start: Nat, count: Nat, expires_at: Nat]

TypeOK ==
    /\ row \in RateRows
    /\ clock \in 0..MaxTime
    /\ pc \in [Requests -> {"idle", "select", "insert"}]
    /\ now \in [Requests -> Nat]
    /\ retries \in [Requests -> Nat]
    /\ windows \in Nat
    /\ total \in Nat

Exists == row.count > 0

-----------------------------------------------------------------------------

Begin(r) ==
    /\ pc[r] = "idle"
    /\ pc' = [pc EXCEPT ![r] = "select"]
    /\ now' = [now EXCEPT ![r] = clock]
    /\ UNCHANGED <<row, clock, retries, windows, total>>

\* The handler returns or raises; nothing of the request is left.
Answer(r) ==
    /\ pc' = [pc EXCEPT ![r] = "idle"]
    /\ now' = [now EXCEPT ![r] = 0]
    /\ retries' = [retries EXCEPT ![r] = 0]

LetThrough(r) == total' = total + 1 /\ Answer(r)

OpenWindow(r) ==
    /\ row' = [window_start |-> now[r], count |-> 1, expires_at |-> now[r] + Window]
    /\ windows' = windows + 1
    /\ LetThrough(r)

\* What the SELECT of a request sees.
Sees_Snapshot(r) == Exists /\ retries[r] = 0
Sees(r) == Exists

Lapsed_ByStart(r) == row.window_start < now[r]
Lapsed(r) == row.expires_at <= now[r]

Full_OneMore == row.count > Limit
Full == row.count >= Limit

SelectFindsNone(r) ==
    /\ pc[r] = "select"
    /\ ~Sees(r)
    /\ pc' = [pc EXCEPT ![r] = "insert"]
    /\ UNCHANGED <<row, clock, now, retries, windows, total>>

Reopen(r) ==
    /\ pc[r] = "select"
    /\ Sees(r) /\ Lapsed(r)
    /\ OpenWindow(r)
    /\ UNCHANGED clock

Count(r) ==
    /\ pc[r] = "select"
    /\ Sees(r) /\ ~Lapsed(r) /\ ~Full
    /\ row' = [row EXCEPT !.count = @ + 1]
    /\ LetThrough(r)
    /\ UNCHANGED <<clock, windows>>

Reject(r) ==
    /\ pc[r] = "select"
    /\ Sees(r) /\ ~Lapsed(r) /\ Full
    /\ Answer(r)
    /\ UNCHANGED <<row, clock, windows, total>>

\* The INSERT when the transaction commits
Insert(r) ==
    /\ pc[r] = "insert"
    /\ ~Exists
    /\ OpenWindow(r)
    /\ UNCHANGED clock

\* IntegrityError: the whole function again, with the time of now
InsertFails(r) ==
    /\ pc[r] = "insert"
    /\ Exists
    /\ pc' = [pc EXCEPT ![r] = "select"]
    /\ now' = [now EXCEPT ![r] = clock]
    /\ retries' = [retries EXCEPT ![r] = @ + 1]
    /\ UNCHANGED <<row, clock, windows, total>>

\* The API's process dies: the transaction is rolled back.
Abandon(r) ==
    /\ pc[r] # "idle"
    /\ Answer(r)
    /\ UNCHANGED <<row, clock, windows, total>>

Tick ==
    /\ clock < MaxTime
    /\ clock' = clock + 1
    /\ UNCHANGED <<row, pc, now, retries, windows, total>>

-----------------------------------------------------------------------------

Init ==
    /\ row = NoRow
    /\ clock = 0
    /\ pc = [r \in Requests |-> "idle"]
    /\ now = [r \in Requests |-> 0]
    /\ retries = [r \in Requests |-> 0]
    /\ windows = 0
    /\ total = 0

Proceed(r) ==
    SelectFindsNone(r) \/ Reopen(r) \/ Count(r) \/ Reject(r) \/ Insert(r) \/ InsertFails(r)

Next ==
    \/ \E r \in Requests : Begin(r) \/ Proceed(r) \/ Abandon(r)
    \/ Tick

Spec == Init /\ [][Next]_vars

-----------------------------------------------------------------------------
(* Properties *)

\* enforce_rate_limit_async lets at most limit requests through per window, and there
\* are no more windows than fit in the time gone by, whatever the order in which
\* requests with old and new clock readings get the row's lock.
RateBound ==
    /\ total <= Limit * windows
    /\ windows > 0 => (windows - 1) * Window <= clock

\* Rows are never removed, so a request that lost the race of the first insert cannot
\* lose it again: the recursion is one level deep.
RetriesOnce == \A r \in Requests : retries[r] <= 1

Budget == INSTANCE WindowBudget
            WITH starts <- row.window_start, used <- row.count

\* The limiter implements a budget per window: no window is opened before the last one
\* has ended, also by a request whose clock reading is old, and no request is counted
\* twice or not at all.
ImplementsBudget == Budget!BudgetSpec

-----------------------------------------------------------------------------
(* Why they hold *)

\* A window lasts Window, did not start in the future and has its place among the
\* windows so far; the requests let through before it fit the budgets of those.
LimiterInv ==
    /\ \A r \in Requests : now[r] <= clock
    /\ Exists => /\ row.expires_at = row.window_start + Window
                 /\ row.window_start <= clock
                 /\ row.count <= Limit
                 /\ windows > 0
                 /\ (windows - 1) * Window <= row.window_start
                 /\ total <= Limit * (windows - 1) + row.count
    /\ ~Exists => row = NoRow /\ windows = 0 /\ total = 0
    /\ \A r \in Requests : \/ retries[r] = 0
                           \/ Exists /\ retries[r] = 1 /\ pc[r] = "select"
=============================================================================
