---------------------------- MODULE SessionCreate ----------------------------
(***************************************************************************)
(* Concurrent POST /api/session requests (create_session_async) against    *)
(* what is to limit them: one open deployment per user, the capacity of    *)
(* the service, the user's cooldown and the cooldown of the browser's      *)
(* fingerprint.  Every check and every write is a transaction of its own.  *)
(* GET /api/session takes part because it deletes cooldowns that are over. *)
(*                                                                         *)
(* What becomes of a deployment after its creation is Lifecycle's; here it *)
(* may happen at any time (Fails, Ends, Reopens).              *)
(***************************************************************************)
EXTENDS Integers, FiniteSets

CONSTANTS
    Posts,         \* POST requests that may be under way at a time
    Gets,          \* likewise GET requests
    UserOf,        \* the user of a request
    Fingerprints,  \* browsers
    Deployments,   \* bound: deployments ever created
    Limit,         \* MAX_ACTIVE_INSTANCES
    TTL,           \* SESSION_TTL_SECONDS
    Cooldown,      \* SESSION_COOLDOWN_SECONDS
    FpCooldown,    \* FINGERPRINT_COOLDOWN_SECONDS
    Crashes,       \* whether the API may die
    MaxTime,       \* bound on the clock
    MaxReopens     \* bound: late writes that reopen a deployment

Requests == Posts \cup Gets
Users == {UserOf[r] : r \in Requests}

ASSUME CreateAssumption ==
    /\ IsFiniteSet(Posts) /\ IsFiniteSet(Deployments)
    /\ Posts # {}
    /\ Limit \in Nat \ {0}
    /\ TTL \in Nat \ {0} /\ Cooldown \in Nat \ {0} /\ FpCooldown \in Nat \ {0}
    /\ Crashes \in BOOLEAN
    /\ MaxTime \in Nat /\ MaxReopens \in Nat

VARIABLES
    deps,      \* the deployments table
    cooldown,  \* cooldowns: cooldown_until of a user, 0 without a row
    signals,   \* abuse_signals: expires_at of the row a POST inserted for a
               \* fingerprint, 0 without one
    clock,
    pc,        \* per request: its next step
    fp,        \* per request: fingerprint_hash
    now,       \* per request: the local now
    seen,      \* per request: the deployment it found, if any
    signal,    \* per request: whose row of abuse_signals it writes
    reopens    \* history: deployments that were over or failed and came back

tables == <<deps, cooldown, signals>>
locals == <<fp, now, seen, signal>>
vars == <<tables, clock, pc, locals, reopens>>

\* "active" stands for ACTIVE_STATUSES, "over" for terminated, expired, and failed and closed.
DeploymentRows ==
    [status: {"none", "active", "failed", "over"}, user: Users \cup {0}, started: Nat]

NoDeployment == [status |-> "none", user |-> 0, started |-> 0]

Steps ==
    {"idle", "find", "normalize", "fingerprint", "cooldown", "drop", "capacity", "insert",
     "set", "update_cooldown", "insert_cooldown", "set_signal", "write_signal", "answer",
     "report", "report_drop"}

TypeOK ==
    /\ deps \in [Deployments -> DeploymentRows]
    /\ cooldown \in [Users -> Nat]
    /\ signals \in [Posts \X Fingerprints -> Nat]
    /\ clock \in 0..MaxTime
    /\ pc \in [Requests -> Steps]
    /\ fp \in [Requests -> Fingerprints]
    /\ now \in [Requests -> Nat]
    /\ seen \in [Requests -> SUBSET Deployments]
    /\ signal \in [Requests -> Requests]
    /\ reopens \in 0..MaxReopens

-----------------------------------------------------------------------------

At(r, step) == pc[r] = step

Goto(r, step) == pc' = [pc EXCEPT ![r] = step]

\* A request is answered or ends with an exception; its variables are gone.
Leave(r) ==
    /\ Goto(r, "idle")
    /\ now' = [now EXCEPT ![r] = 0]
    /\ seen' = [seen EXCEPT ![r] = {}]
    /\ signal' = [signal EXCEPT ![r] = r]
    /\ UNCHANGED fp

Continue(r, step) == Goto(r, step) /\ UNCHANGED locals

PastTTL(started) == clock - started >= TTL

\* active_condition of _active_deployment_for_user_async
Open_ActiveOnly(d) == deps[d].status = "active"
Open(d) == deps[d].status \in {"active", "failed"}

OpenOf(u) == {d \in Deployments : deps[d].user = u /\ Open(d)}

Latest(ds) == {d \in ds : \A e \in ds : deps[e].started <= deps[d].started}

Arrive(r) ==
    /\ At(r, "idle")
    /\ Goto(r, IF r \in Posts THEN "find" ELSE "report")
    /\ \E f \in Fingerprints : fp' = [fp EXCEPT ![r] = f]
    /\ UNCHANGED <<tables, clock, now, seen, signal, reopens>>

\* _active_deployment_for_user_async
Find(p) ==
    /\ At(p, "find")
    /\ \/ /\ OpenOf(UserOf[p]) = {}
          /\ Goto(p, "fingerprint")
          /\ UNCHANGED seen
       \/ \E d \in Latest(OpenOf(UserOf[p])) :
            /\ seen' = [seen EXCEPT ![p] = {d}]
            /\ Goto(p, "normalize")
    /\ UNCHANGED <<tables, clock, fp, now, signal, reopens>>

\* normalize_session_async: within its TTL the deployment is the answer; else it becomes
\* terminating, which is active, and gets a cleanup job, which is Lifecycle's.
Normalize(p) ==
    /\ At(p, "normalize")
    /\ \E d \in seen[p] : Goto(p, IF PastTTL(deps[d].started) THEN "fingerprint" ELSE "report")
    /\ seen' = [seen EXCEPT ![p] = {}]
    /\ UNCHANGED <<tables, clock, fp, now, signal, reopens>>

SignalsOf(f) == {k \in Posts \X {f} : signals[k] > 0}

\* get_fingerprint_cooldown_until_async
CheckFingerprint(p) ==
    /\ At(p, "fingerprint")
    /\ IF \E k \in SignalsOf(fp[p]) : signals[k] > clock THEN Leave(p) ELSE Continue(p, "cooldown")
    /\ UNCHANGED <<tables, clock, reopens>>

\* get_cooldown_until_async, as a check of POST and for the answers of POST and GET
ReadCooldown(r) ==
    LET until == cooldown[UserOf[r]] IN
    /\ \/ At(r, "cooldown") /\ until > clock /\ Leave(r)
       \/ At(r, "cooldown") /\ until = 0 /\ Continue(r, "capacity")
       \/ At(r, "cooldown") /\ until \in 1..clock /\ Continue(r, "drop")
       \/ At(r, "report") /\ until \notin 1..clock /\ Leave(r)
       \/ At(r, "report") /\ until \in 1..clock /\ Continue(r, "report_drop")
    /\ UNCHANGED <<tables, clock, reopens>>

\* The row that was read is deleted by its key, whatever it says by now.
DropCooldown(r) ==
    /\ cooldown' = [cooldown EXCEPT ![UserOf[r]] = 0]
    /\ \/ At(r, "drop") /\ Continue(r, "capacity")
       \/ At(r, "report_drop") /\ Leave(r)
    /\ UNCHANGED <<deps, signals, clock, reopens>>

Counted == {d \in Deployments : deps[d].status = "active"}

ActiveCount == Cardinality(Counted)

Full_OneMore == ActiveCount > Limit
Full == ActiveCount >= Limit

\* ensure_capacity_available_async, and the reading of the clock after it
CheckCapacity(p) ==
    /\ At(p, "capacity")
    /\ \/ Full /\ Leave(p)
       \/ /\ ~Full
          /\ Goto(p, "insert")
          /\ now' = [now EXCEPT ![p] = clock]
          /\ UNCHANGED <<fp, seen, signal>>
    /\ UNCHANGED <<tables, clock, reopens>>

Inserted(p) == [status |-> "active", user |-> UserOf[p], started |-> now[p]]

\* The deployment and its provision job, which is Lifecycle's
Insert(p) ==
    /\ At(p, "insert")
    /\ \E d \in Deployments :
         /\ deps[d].status = "none"
         /\ deps' = [deps EXCEPT ![d] = Inserted(p)]
    /\ Continue(p, "set")
    /\ UNCHANGED <<cooldown, signals, clock, reopens>>

\* _set_cooldown_async reads the row...
SetCooldown(p) ==
    /\ At(p, "set")
    /\ Continue(p, IF cooldown[UserOf[p]] > 0 THEN "update_cooldown" ELSE "insert_cooldown")
    /\ UNCHANGED <<tables, clock, reopens>>

\* ...and updates or inserts it.  The UPDATE of a row that is gone and the INSERT of one
\* that is there raise.
WriteCooldown(p) ==
    /\ IF cooldown[UserOf[p]] > 0 THEN At(p, "update_cooldown") ELSE At(p, "insert_cooldown")
    /\ cooldown' = [cooldown EXCEPT ![UserOf[p]] = now[p] + Cooldown]
    /\ Continue(p, "set_signal")
    /\ UNCHANGED <<deps, signals, clock, reopens>>

WriteCooldownRaises(p) ==
    /\ IF cooldown[UserOf[p]] > 0 THEN At(p, "insert_cooldown") ELSE At(p, "update_cooldown")
    /\ Leave(p)
    /\ UNCHANGED <<tables, clock, reopens>>

\* set_fingerprint_cooldown_async takes the latest row that is not over...
SetSignal(p) ==
    LET live == {k \in SignalsOf(fp[p]) : signals[k] > now[p]} IN
    /\ At(p, "set_signal")
    /\ \E q \in Posts :
         /\ \/ live = {} /\ q = p
            \/ <<q, fp[p]>> \in live /\ \A k \in live : signals[k] <= signals[<<q, fp[p]>>]
         /\ signal' = [signal EXCEPT ![p] = q]
    /\ Goto(p, "write_signal")
    /\ UNCHANGED <<tables, clock, fp, now, seen, reopens>>

\* ...or a new one, in the place of the one it inserted before, which is over.
WriteSignal(p) ==
    /\ At(p, "write_signal")
    /\ signals' = [signals EXCEPT ![<<signal[p], fp[p]>>] = now[p] + FpCooldown]
    /\ Continue(p, "answer")
    /\ UNCHANGED <<deps, cooldown, clock, reopens>>

\* normalize_session_async of the new deployment: one that is past its TTL already is a
\* RuntimeError.
Answer(p) ==
    /\ At(p, "answer")
    /\ IF PastTTL(now[p]) THEN Leave(p) ELSE Continue(p, "report")
    /\ UNCHANGED <<tables, clock, reopens>>

\* The API dies, and its requests with it.
Crash ==
    /\ Crashes
    /\ \E r \in Requests : pc[r] # "idle"
    /\ pc' = [r \in Requests |-> "idle"]
    /\ now' = [r \in Requests |-> 0]
    /\ seen' = [r \in Requests |-> {}]
    /\ signal' = [r \in Requests |-> r]
    /\ UNCHANGED <<tables, clock, fp, reopens>>

-----------------------------------------------------------------------------
(* What the worker, the cleanup loop and DELETE do to a deployment *)

Becomes(d, from, to) ==
    /\ deps[d].status \in from
    /\ deps' = [deps EXCEPT ![d].status = to]
    /\ UNCHANGED <<cooldown, signals, clock, pc, locals>>

Fails(d) == Becomes(d, {"active"}, "failed") /\ UNCHANGED reopens

Ends(d) == Becomes(d, {"active", "failed"}, "over") /\ UNCHANGED reopens

\* A DELETE that read the row before it was over, or a job that fails after it.
Reopens(d) ==
    /\ reopens < MaxReopens
    /\ \/ Becomes(d, {"over", "failed"}, "active")
       \/ Becomes(d, {"over"}, "failed")
    /\ reopens' = reopens + 1

Tick ==
    /\ clock < MaxTime
    /\ clock' = clock + 1
    /\ UNCHANGED <<tables, pc, locals, reopens>>

-----------------------------------------------------------------------------

Init ==
    /\ deps = [d \in Deployments |-> NoDeployment]
    /\ cooldown = [u \in Users |-> 0]
    /\ signals = [k \in Posts \X Fingerprints |-> 0]
    /\ clock = 0
    /\ pc = [r \in Requests |-> "idle"]
    /\ fp \in [Requests -> Fingerprints]
    /\ now = [r \in Requests |-> 0]
    /\ seen = [r \in Requests |-> {}]
    /\ signal = [r \in Requests |-> r]
    /\ reopens = 0

Post(p) ==
    \/ Find(p) \/ Normalize(p) \/ CheckFingerprint(p) \/ CheckCapacity(p) \/ Insert(p)
    \/ SetCooldown(p) \/ WriteCooldown(p) \/ WriteCooldownRaises(p)
    \/ SetSignal(p) \/ WriteSignal(p) \/ Answer(p)

Next ==
    \/ \E r \in Requests : Arrive(r) \/ ReadCooldown(r) \/ DropCooldown(r)
    \/ \E p \in Posts : Post(p)
    \/ Crash
    \/ \E d \in Deployments : Fails(d) \/ Ends(d) \/ Reopens(d)
    \/ Tick

Spec == Init /\ [][Next]_vars

-----------------------------------------------------------------------------
(* Properties *)

\* ensure_capacity_available_async and the insert are two transactions: MAX_ACTIVE_INSTANCES
\* is exceeded by no more than the other POSTs that may be between the two, and by the
\* deployments that a late write made count again.
Reserved == {p \in Posts : At(p, "insert")}
CapacityBounded == ActiveCount + Cardinality(Reserved) <= Limit + Cardinality(Posts) - 1 + reopens

\* create_session_async looks for an open deployment before it creates one: a user has no
\* more of them within their TTL than POSTs at a time, those not yet inserted included.
PostsOf(u) == {p \in Posts : UserOf[p] = u}
InCreation(p) == pc[p] \in {"fingerprint", "cooldown", "drop", "capacity", "insert"}
Live(d) == deps[d].status \in {"active", "failed"} /\ ~PastTTL(deps[d].started)
LiveOf(u) == {d \in Deployments : deps[d].user = u /\ Live(d)}
OpenBounded ==
    \A u \in Users :
      Cardinality(LiveOf(u)) + Cardinality({p \in PostsOf(u) : InCreation(p)})
        <= Cardinality(PostsOf(u)) + reopens

\* "cannot request another session until the cooldown expires" (README.md:67): two
\* deployments of one user are started a cooldown apart.
CooldownKept ==
    \A d, e \in Deployments :
      /\ d # e
      /\ deps[d].status # "none" /\ deps[e].status # "none"
      /\ deps[d].user = deps[e].user
      /\ deps[d].started <= deps[e].started
      => deps[e].started - deps[d].started >= Cooldown

-----------------------------------------------------------------------------
(* Why OpenBounded holds *)

\* Apart from at most reopens of them, each live deployment has a POST of its user to itself:
\* one that does not create, and that will not when what it found is past its TTL.
Answers(p, d) ==
    /\ UserOf[p] = deps[d].user
    /\ ~InCreation(p)
    /\ At(p, "normalize") => \A x \in seen[p] : deps[d].started <= deps[x].started

OwnedBy(owner, back) ==
    /\ \A d \in Deployments \ back : Live(d) => Answers(owner[d], d)
    /\ \A d, e \in Deployments \ back : Live(d) /\ Live(e) /\ owner[d] = owner[e] => d = e

OpenInv ==
    /\ \A p \in Posts : At(p, "normalize") => \A x \in seen[p] : deps[x].status # "none"
    /\ \E owner \in [Deployments -> Posts], back \in SUBSET Deployments :
         Cardinality(back) <= reopens /\ OwnedBy(owner, back)
=============================================================================
