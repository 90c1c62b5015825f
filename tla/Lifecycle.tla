------------------------------ MODULE Lifecycle ------------------------------
(***************************************************************************)
(* One deployment from its creation to its end: its row, its jobs, its     *)
(* droplet and DNS record, the ledger row of the droplet, and everybody    *)
(* who acts on them: worker processes (worker.py), the API's DELETE and    *)
(* GET handlers and its cleanup loop (deployments_async.py, api.py).       *)
(*                                                                         *)
(* A worker's step is one database transaction or one provider call, so    *)
(* the row a handler read at its start (snap) may be stale when it acts.   *)
(* The API's read-modify-write blocks are two steps, the read and the      *)
(* commit; with those split, a worker's block may be one: a commit of the  *)
(* API that falls into it has the effect of one just before or after it.   *)
(*                                                                         *)
(* initializing stands for initializing and installing, which are members  *)
(* of the same status sets everywhere.  Events, audit rows and the mock    *)
(* provider are left out.                                                  *)
(***************************************************************************)
EXTENDS JobQueue

CONSTANTS
    Droplets,   \* droplets the account can ever hold; bounds how many are created
    Records,    \* DNS records, likewise
    None,       \* SQL null
    Deletes,    \* DELETE requests that may be under way at a time
    Gets,       \* likewise GET requests
    Loops,      \* the cleanup loop: one in every API process
    MaxFaults   \* bound: provider calls that raise, and droplets deleted by hand

Handlers == Deletes \cup Gets \cup Loops

JobKinds == {"provision", "refresh", "terminate", "cleanup"}

ASSUME LifecycleAssumption ==
    /\ Kinds = JobKinds
    /\ Deletes \cap Gets = {} /\ Deletes \cap Loops = {} /\ Gets \cap Loops = {}
    /\ Clients = Workers \cup Handlers
    /\ Workers \cap Handlers = {} /\ IsFiniteSet(Workers)
    /\ None \notin Droplets \cup Records
    /\ Droplets \cap Records = {}
    /\ MaxFaults \in Nat

VARIABLES
    dep,      \* the deployments row
    cloud,    \* cloud[d]: the droplet at the provider
    zone,     \* zone[r]: the record at the DNS provider
    ledger,   \* ledger[d]: provider_resources
    past,     \* expires_at <= now
    pc, cur, snap, ans,  \* per worker: step, job, row as read, provider's answer
    todo,     \* per worker: what reconcile_once has still to enqueue
    api,      \* per API handler: its step
    faults,   \* provider faults so far
    orphaned, \* droplets and records whose creation was answered by an error
    asked,    \* a DELETE was committed
    sent      \* sent[m]: messages of kind m sent to the user

rowVars == <<dep, past, asked>>
extVars == <<cloud, zone, faults, orphaned>>
workerVars == <<pc, cur, snap, ans, todo>>
vars == <<queueVars, rowVars, extVars, ledger, workerVars, api, sent>>

Running == {"queued", "initializing", "deploying", "ready"}
ActiveStatuses == Running \cup {"terminating"}
TerminalStatuses == {"terminated", "expired", "failed"}
SessionStatuses == ActiveStatuses \cup {"failed"}
Statuses == ActiveStatuses \cup TerminalStatuses

Rows == [status: Statuses,
         inst: Droplets \cup {None},   \* provider_instance_id
         rec: Records \cup {None},     \* dns_record_id
         closed: BOOLEAN,              \* terminated_at is set
         timing: BOOLEAN,              \* health_started_at is set
         told: BOOLEAN,                \* ready_notified
         ended: BOOLEAN]               \* terminated_notified

Answers == [status: Statuses, inst: Droplets \cup {None},
            ip: BOOLEAN,               \* the patch has a public ip, so it has DNS fields
            rec: Records \cup {None}, timing: BOOLEAN]

Steps == {"idle", "reconcile", "create", "record", "track", "expire", "poll", "apply",
          "ready_flag", "ready_send", "flag", "send", "destroy", "untrack", "close",
          "successor", "enqueue", "finish", "retry"}

TypeOK ==
    /\ QueueTypeOK
    /\ dep \in Rows
    /\ cloud \in [Droplets -> {"absent", "up", "gone"}]
    /\ zone \in [Records -> {"absent", "up", "gone"}]
    /\ ledger \in [Droplets -> {"none", "live", "deleted"}]
    /\ past \in BOOLEAN
    /\ pc \in [Workers -> Steps]
    /\ cur \in [Workers -> JobIds \cup {None}]
    /\ snap \in [Workers -> Rows]
    /\ ans \in [Workers -> Answers]
    /\ todo \in [Workers -> SUBSET (Kinds \cup {"ledger"})]
    /\ api \in [Handlers -> {"idle", "seen", "write", "enqueue"}]
    /\ faults \in 0..MaxFaults
    /\ orphaned \in SUBSET (Droplets \cup Records)
    /\ asked \in BOOLEAN
    /\ sent \in [{"ready", "ended"} -> Nat]

-----------------------------------------------------------------------------
(* Moving through a job.  A worker keeps the row it read and the provider's  *)
(* answer for as long as the handler still looks at them.                   *)

NewRow == [status |-> "queued", inst |-> None, rec |-> None, closed |-> FALSE,
           timing |-> FALSE, told |-> FALSE, ended |-> FALSE]

NoAnswer == [status |-> "queued", inst |-> None, ip |-> FALSE, rec |-> None, timing |-> FALSE]

At(w, step) == pc[w] = step

\* Steps that no longer look at the row as it was read, or at the answer.
DataDone == {"close", "ready_flag", "ready_send", "successor", "enqueue", "finish", "retry"}

Goto(w, step) ==
    /\ pc' = [pc EXCEPT ![w] = step]
    /\ snap' = [snap EXCEPT ![w] = IF step \in DataDone THEN NewRow ELSE @]
    /\ ans' = [ans EXCEPT ![w] = IF step \in DataDone THEN NoAnswer ELSE @]
    /\ UNCHANGED <<cur, todo>>

\* The provider answered; a is what the next transaction works from.
Answered(w, step, a) ==
    /\ pc' = [pc EXCEPT ![w] = step]
    /\ ans' = [ans EXCEPT ![w] = a]
    /\ UNCHANGED <<cur, snap, todo>>

\* The handler goes on with the row it just committed (session.refresh).
GotoWithRow(w, step) ==
    /\ pc' = [pc EXCEPT ![w] = step]
    /\ snap' = [snap EXCEPT ![w] = IF step \in DataDone THEN NewRow ELSE dep']
    /\ ans' = [ans EXCEPT ![w] = NoAnswer]
    /\ UNCHANGED <<cur, todo>>

Forget(w) ==
    /\ pc' = [pc EXCEPT ![w] = "idle"]
    /\ cur' = [cur EXCEPT ![w] = None]
    /\ snap' = [snap EXCEPT ![w] = NewRow]
    /\ ans' = [ans EXCEPT ![w] = NoAnswer]
    /\ todo' = [todo EXCEPT ![w] = {}]

Kind(w) == jobs[cur[w]].kind

\* What process_destroy and process_failed_deployment leave in status.
Final(k) == CASE k = "terminate" -> "terminated"
              [] k = "cleanup" -> "expired"
              [] OTHER -> "failed"

OnlyExternal == UNCHANGED <<queueVars, rowVars, ledger, api, sent>>
OnlyRow == UNCHANGED <<queueVars, extVars, ledger, api, sent>>
OnlyWorker == UNCHANGED <<queueVars, rowVars, extVars, ledger, api, sent>>

-----------------------------------------------------------------------------
(* process_job: read the job and the row, and branch on what was read.      *)

Take(w, j, step) ==
    /\ At(w, "idle")
    /\ j \in held[w]
    /\ pc' = [pc EXCEPT ![w] = step]
    /\ cur' = [cur EXCEPT ![w] = j]
    /\ snap' = [snap EXCEPT ![w] = IF step \in DataDone THEN NewRow ELSE dep]
    /\ UNCHANGED <<ans, todo>>
    /\ OnlyWorker

\* The check of process_provision, before and after the provider call.
InSession_Unchecked == TRUE
InSession_NotTerminating == dep.status \in Running
InSession == dep.status \in ActiveStatuses

HasDroplet_Unchecked(row) == FALSE
HasDroplet(row) == row.inst # None

BeginProvision(w, j) ==
    /\ jobs[j].kind = "provision"
    /\ \/ ~InSession /\ Take(w, j, "finish")
       \/ InSession /\ HasDroplet(dep) /\ Take(w, j, "record")
       \/ InSession /\ ~HasDroplet(dep) /\ Take(w, j, "create")

\* process_failed_deployment(deployment), up to its first write
FailedStep_TellsAgain(row) == IF row.closed THEN "finish" ELSE "flag"
FailedStep(row) == IF row.closed THEN "finish" ELSE IF row.ended THEN "destroy" ELSE "flag"

BeginRefresh(w, j) ==
    /\ jobs[j].kind = "refresh"
    /\ \/ dep.status \notin SessionStatuses /\ Take(w, j, "finish")
       \/ dep.status = "failed" /\ Take(w, j, FailedStep(dep))
       \/ dep.status \in ActiveStatuses /\ past /\ Take(w, j, "expire")
       \/ dep.status \in ActiveStatuses /\ ~past /\ Take(w, j, "poll")

AlreadyClosed_ByStatus(j) == dep.status = Final(jobs[j].kind)
AlreadyClosed(j) == dep.closed /\ dep.status = Final(jobs[j].kind)

BeginDestroy(w, j) ==
    /\ jobs[j].kind \in {"terminate", "cleanup"}
    /\ \/ AlreadyClosed(j) /\ dep.ended /\ Take(w, j, "finish")
       \/ AlreadyClosed(j) /\ ~dep.ended /\ Take(w, j, "flag")
       \/ ~AlreadyClosed(j) /\ Take(w, j, "destroy")

Begin(w) == \E j \in JobIds : BeginProvision(w, j) \/ BeginRefresh(w, j) \/ BeginDestroy(w, j)

-----------------------------------------------------------------------------
(* Provider and DNS calls *)

Fault == faults < MaxFaults /\ faults' = faults + 1

\* Which of the ids never used a new droplet or record gets makes no difference.
NextId(account) == CHOOSE x \in DOMAIN account : account[x] = "absent"

\* POST /droplets
NewDroplet(d) ==
    /\ cloud[d] = "absent" /\ d = NextId(cloud)
    /\ cloud' = [cloud EXCEPT ![d] = "up"]

Provisioned(d) == [NoAnswer EXCEPT !.inst = d]

\* provision_provider.  The answer may be lost after the droplet was made.
Create(w) ==
    /\ At(w, "create")
    /\ \/ /\ \E d \in Droplets : NewDroplet(d) /\ Answered(w, "record", Provisioned(d))
          /\ UNCHANGED <<zone, faults, orphaned>>
       \/ /\ Fault
          /\ Goto(w, "retry")
          /\ UNCHANGED <<cloud, zone, orphaned>>
       \/ /\ Fault
          /\ \E d \in Droplets : NewDroplet(d) /\ orphaned' = orphaned \cup {d}
          /\ Goto(w, "retry")
          /\ UNCHANGED zone
    /\ OnlyExternal

\* POST .../dns_records
NewRecord(r) ==
    /\ zone[r] = "absent" /\ r = NextId(zone)
    /\ zone' = [zone EXCEPT ![r] = "up"]

\* ensure_public_endpoint: a recorded record is used as it is; otherwise one is
\* published, or the fallback domain taken, which has no record; the latter also when
\* the answer of the former is lost.
PublishesAnew_Always(w) == TRUE
PublishesAnew(w) == snap[w].rec = None

PublishLost ==
    /\ Fault
    /\ \E r \in Records : NewRecord(r) /\ orphaned' = orphaned \cup {r}

Publish(w, rec) ==
    \/ ~PublishesAnew(w) /\ rec = snap[w].rec /\ UNCHANGED <<zone, faults, orphaned>>
    \/ PublishesAnew(w) /\ rec = None /\ UNCHANGED <<zone, faults, orphaned>>
    \/ PublishesAnew(w) /\ rec # None /\ NewRecord(rec) /\ UNCHANGED <<faults, orphaned>>
    \/ PublishesAnew(w) /\ rec = None /\ PublishLost

\* The droplet's own progress, then the health check that may overrule it.
PolledStatus(w, base) ==
    {base, "ready"} \cup (IF snap[w].timing THEN {"failed"} ELSE {})

\* refresh_provider, when it asks the provider
AskProvider(w) ==
    \/ /\ snap[w].inst = None
       /\ Answered(w, "apply", [NoAnswer EXCEPT !.status = "failed"])
       /\ UNCHANGED extVars
    \/ /\ snap[w].inst # None
       /\ cloud[snap[w].inst] # "up"
       /\ Answered(w, "apply", [NoAnswer EXCEPT !.status = "terminated"])
       /\ UNCHANGED extVars
    \/ /\ snap[w].inst # None
       /\ cloud[snap[w].inst] = "up"
       /\ \E s \in PolledStatus(w, "initializing") :
            Answered(w, "apply", [NoAnswer EXCEPT !.status = s])
       /\ UNCHANGED extVars
    \/ /\ snap[w].inst # None
       /\ cloud[snap[w].inst] = "up"
       /\ \E base \in {"initializing", "deploying"}, rec \in Records \cup {None} :
            \E s \in PolledStatus(w, base) :
              /\ Publish(w, rec)
              /\ Answered(w, "apply", [status |-> s, inst |-> None, ip |-> TRUE,
                                       rec |-> rec, timing |-> base = "deploying"])
       /\ UNCHANGED cloud
    \/ /\ Fault
       /\ Goto(w, "retry")
       /\ UNCHANGED <<cloud, zone, orphaned>>
    \/ /\ snap[w].inst # None   \* raised after the record was published
       /\ cloud[snap[w].inst] = "up"
       /\ PublishesAnew(w)
       /\ PublishLost
       /\ Goto(w, "retry")
       /\ UNCHANGED cloud

\* Within provider_refresh_interval_seconds of the last check it answers with no
\* status, and the caller takes the one it read.
Poll(w) ==
    /\ At(w, "poll")
    /\ \/ /\ Answered(w, "apply", [NoAnswer EXCEPT !.status = snap[w].status])
          /\ UNCHANGED extVars
       \/ AskProvider(w)
    /\ OnlyExternal

\* DELETE of droplets and records; one that is gone already (404) is as good.
DeleteDroplets(ds) == cloud' = [d \in Droplets |-> IF d \in ds THEN "gone" ELSE cloud[d]]
DeleteRecords(rs) == zone' = [r \in Records |-> IF r \in rs THEN "gone" ELSE zone[r]]

\* destroy_provider: the droplet, then the record, each whether or not the other
\* raised; an error of either is raised at the end.
AfterDestroyError_Swallowed == "untrack"
AfterDestroyError == "retry"

\* Unless something is recorded, the provider is not called.
NeedsDestroy_Both(row) == row.inst # None /\ row.rec # None
NeedsDestroy(row) == row.inst # None \/ row.rec # None

Named(w, id) == IF NeedsDestroy(snap[w]) THEN {id} \ {None} ELSE {}

Destroy(w) ==
    LET drop == Named(w, snap[w].inst)
        unpublish == Named(w, snap[w].rec)
    IN
    /\ At(w, "destroy")
    /\ \/ /\ DeleteDroplets(drop)
          /\ DeleteRecords(unpublish)
          /\ Goto(w, "untrack")
          /\ UNCHANGED faults
       \/ /\ drop \cup unpublish # {}
          /\ Fault
          /\ \E ds \in SUBSET drop : DeleteDroplets(ds)
          /\ \E rs \in SUBSET unpublish : DeleteRecords(rs)
          /\ Goto(w, AfterDestroyError)
    /\ UNCHANGED orphaned
    /\ OnlyExternal

\* Somebody deletes the droplet at the provider.
Vanish ==
    /\ \E d \in Droplets : cloud[d] = "up" /\ cloud' = [cloud EXCEPT ![d] = "gone"]
    /\ Fault
    /\ UNCHANGED <<zone, orphaned, workerVars>>
    /\ OnlyExternal

-----------------------------------------------------------------------------
(* process_provision after the call *)

\* apply_provider_data
ApplyProviderData(row, a) ==
    IF a.inst = None THEN row ELSE [row EXCEPT !.inst = a.inst, !.rec = None]

\* The row is read again; when the session ended meanwhile nothing is recorded.
Record(w) ==
    /\ At(w, "record")
    /\ \/ /\ ~InSession
          /\ Goto(w, "finish")
          /\ UNCHANGED rowVars
       \/ /\ InSession
          /\ dep' = [ApplyProviderData(dep, ans[w]) EXCEPT !.status = "initializing"]
          /\ Goto(w, "track")
          /\ UNCHANGED <<past, asked>>
    /\ OnlyRow

\* upsert_provider_resource_async
Upsert(d) == ledger' = [ledger EXCEPT ![d] = "live"]

\* The droplet just created, or the one the row had when the job began
Tracked(w) == IF ans[w].inst # None THEN ans[w].inst ELSE snap[w].inst

\* track_provider_resource_async
Track(w) ==
    /\ At(w, "track")
    /\ Upsert(Tracked(w))
    /\ Goto(w, "enqueue")
    /\ UNCHANGED <<queueVars, rowVars, extVars, api, sent>>

-----------------------------------------------------------------------------
(* process_refresh after the call *)

AfterApply_ReadyPollsOn(row) == IF row.status = "failed" THEN FailedStep(row) ELSE "successor"

AfterApply_TellsAgain(row) ==
    IF row.status = "ready" THEN "ready_flag"
    ELSE IF row.status = "terminated" THEN "flag"
    ELSE IF row.status = "failed" THEN FailedStep(row)
    ELSE "successor"

AfterApply(row) ==
    IF row.status = "ready" THEN (IF row.told THEN "finish" ELSE "ready_flag")
    ELSE IF row.status = "terminated" THEN (IF row.ended THEN "finish" ELSE "flag")
    ELSE IF row.status = "failed" THEN FailedStep(row)
    ELSE "successor"

\* _apply_provider_patch
ApplyProviderPatch(row, a) ==
    [row EXCEPT !.rec = IF a.ip THEN a.rec ELSE @, !.timing = @ \/ a.timing]

Apply(w) ==
    /\ At(w, "apply")
    /\ dep' = [ApplyProviderPatch(dep, ans[w]) EXCEPT !.status = ans[w].status]
    /\ GotoWithRow(w, AfterApply(dep'))
    /\ UNCHANGED <<past, asked>>
    /\ OnlyRow

\* The chain of refreshes goes on: a new job, without dedupe, then mark_job_done.
Successor(w) ==
    /\ At(w, "successor")
    /\ EnqueueAlways("refresh")
    /\ Goto(w, "finish")
    /\ UNCHANGED <<rowVars, extVars, ledger, api, sent>>

ExpireSession(w) ==
    /\ At(w, "expire")
    /\ dep' = [dep EXCEPT !.status = IF @ \in ActiveStatuses THEN "terminating" ELSE @]
    /\ Goto(w, "enqueue")
    /\ UNCHANGED <<past, asked>>
    /\ OnlyRow

-----------------------------------------------------------------------------
(* Notifications: the flag is committed, then the message sent. *)

ReadyFlag(w) ==
    /\ At(w, "ready_flag")
    /\ dep' = [dep EXCEPT !.told = TRUE]
    /\ Goto(w, "ready_send")
    /\ UNCHANGED <<past, asked>>
    /\ OnlyRow

EndFlag(w) ==
    /\ At(w, "flag")
    /\ dep' = [dep EXCEPT !.ended = TRUE]
    /\ Goto(w, "send")
    /\ UNCHANGED <<past, asked>>
    /\ OnlyRow

ReadySend(w) ==
    /\ At(w, "ready_send")
    /\ sent' = [sent EXCEPT !["ready"] = @ + 1]
    /\ Goto(w, "finish")
    /\ UNCHANGED <<queueVars, rowVars, extVars, ledger, api>>

\* process_failed_deployment notifies before it destroys, everybody else last.
EndSend(w) ==
    /\ At(w, "send")
    /\ sent' = [sent EXCEPT !["ended"] = @ + 1]
    /\ Goto(w, IF Kind(w) = "refresh" /\ snap[w].status = "failed" THEN "destroy" ELSE "finish")
    /\ UNCHANGED <<queueVars, rowVars, extVars, ledger, api>>

-----------------------------------------------------------------------------
(* process_destroy and process_failed_deployment after the call *)

\* mark_provider_resource_deleted_async: only a row that exists is marked.
MarkDeleted_OfDeployment(id) ==
    ledger' = [d \in Droplets |-> IF ledger[d] = "live" THEN "deleted" ELSE ledger[d]]
MarkDeleted(id) ==
    ledger' = [d \in Droplets |->
                 IF d = id /\ ledger[d] = "live" THEN "deleted" ELSE ledger[d]]

Untrack(w) ==
    /\ At(w, "untrack")
    /\ MarkDeleted(snap[w].inst)
    /\ Goto(w, "close")
    /\ UNCHANGED <<queueVars, rowVars, extVars, api, sent>>

Close(w) ==
    /\ At(w, "close")
    /\ dep' = [dep EXCEPT !.status = Final(Kind(w)), !.closed = TRUE]
    /\ GotoWithRow(w, IF Kind(w) = "refresh" \/ dep.ended THEN "finish" ELSE "flag")
    /\ UNCHANGED <<past, asked>>
    /\ OnlyRow

-----------------------------------------------------------------------------
(* The end of a job, and jobs enqueued with dedupe *)

Finish(w) ==
    /\ At(w, "finish")
    /\ MarkDone(w, cur[w])
    /\ Forget(w)
    /\ UNCHANGED <<rowVars, extVars, ledger, api, sent>>

\* A provision or refresh job that runs out of attempts fails the deployment,
\* whatever its status is by now.
FailsDeployment(w) == Kind(w) \in {"provision", "refresh"}

Retry(w) ==
    /\ At(w, "retry")
    /\ \/ Reschedule(w, cur[w]) /\ UNCHANGED dep
       \/ /\ FailJob(w, cur[w])
          /\ dep' = [dep EXCEPT !.status = IF FailsDeployment(w) THEN "failed" ELSE @]
    /\ Forget(w)
    /\ UNCHANGED <<past, asked, extVars, ledger, api, sent>>

Wanted(w) == IF Kind(w) = "provision" THEN "refresh" ELSE "cleanup"

Enqueue(w) ==
    /\ At(w, "enqueue")
    /\ \/ /\ checked[w] = NoKind /\ Found(Wanted(w))
          /\ Goto(w, "finish")
          /\ UNCHANGED queueVars
       \/ EnqueueCheck(w, Wanted(w)) /\ UNCHANGED workerVars
       \/ EnqueueInsert(w) /\ Goto(w, "finish")
    /\ UNCHANGED <<rowVars, extVars, ledger, api, sent>>

-----------------------------------------------------------------------------
(* run_once and reconcile_once *)

ClaimJobs(w) ==
    /\ At(w, "idle")
    /\ Claim(w)
    /\ UNCHANGED <<rowVars, extVars, ledger, workerVars, api, sent>>

Recoverable == {"queued", "initializing", "deploying", "terminating"}

OpenEnded == dep.status \in Recoverable \/ (dep.status = "failed" /\ ~dep.closed)

RecoverKind ==
    CASE dep.status = "queued" -> "provision"
      [] dep.status = "terminating" -> "terminate"
      [] OTHER -> "refresh"

\* Which rows are older than STALE_RESOURCE_GRACE_SECONDS: by updated_at that of the
\* deployment, by created_at those of the ledger.
Ages == SUBSET {"deployment", "ledger"}

\* What one pass over the tables decides to enqueue
ReconcilePlan(old) ==
    {k \in {RecoverKind} : /\ OpenEnded /\ ~past
                           /\ \/ ~\E j \in JobIds : Active(j)
                              \/ "deployment" \in old /\ dep.status # "terminating"}
    \cup {k \in {"cleanup"} : /\ "deployment" \in old
                              /\ dep.status \in {"terminated", "expired"}
                              /\ dep.inst # None /\ ~dep.closed}
    \cup {k \in {"ledger"} : "ledger" \in old /\ \E d \in Droplets : ledger[d] = "live"}

ReconcileRead(w, old) ==
    /\ At(w, "idle")
    /\ held[w] = {}
    /\ ReconcilePlan(old) # {}
    /\ todo' = [todo EXCEPT ![w] = ReconcilePlan(old)]
    /\ pc' = [pc EXCEPT ![w] = "reconcile"]
    /\ UNCHANGED <<cur, snap, ans>>
    /\ OnlyWorker

\* A ledger row counts only when its deployment, read now, is over.
ReconcileLedger(w) ==
    /\ At(w, "reconcile")
    /\ "ledger" \in todo[w]
    /\ todo' = [todo EXCEPT ![w] =
                  (@ \ {"ledger"}) \cup
                  (IF dep.status \in {"terminated", "expired"} THEN {"cleanup"} ELSE {})]
    /\ pc' = [pc EXCEPT ![w] = IF todo'[w] = {} THEN "idle" ELSE @]
    /\ UNCHANGED <<cur, snap, ans>>
    /\ OnlyWorker

ReconcileEnqueue(w) ==
    \E k \in todo[w] \ {"ledger"} :
      LET Popped == /\ todo' = [todo EXCEPT ![w] = @ \ {k}]
                    /\ pc' = [pc EXCEPT ![w] = IF todo'[w] = {} THEN "idle" ELSE @]
                    /\ UNCHANGED <<cur, snap, ans>>
      IN
      /\ At(w, "reconcile")
      /\ \/ checked[w] = NoKind /\ Found(k) /\ Popped /\ UNCHANGED queueVars
         \/ EnqueueCheck(w, k) /\ UNCHANGED workerVars
         \/ checked[w] = k /\ EnqueueInsert(w) /\ Popped
      /\ UNCHANGED <<rowVars, extVars, ledger, api, sent>>

-----------------------------------------------------------------------------
(* The API: DELETE /api/session, GET /api/session and the cleanup loop each *)
(* read the row, commit "terminating" when they read another status, and    *)
(* enqueue a job.                                                           *)

ApiGoto(h, step) == api' = [api EXCEPT ![h] = step]

\* GET finds the deployment with _active_deployment_for_user_async ...
GetFinds(h) ==
    /\ h \in Gets
    /\ api[h] = "idle"
    /\ dep.status \in ActiveStatuses \/ (dep.status = "failed" /\ ~dep.closed)
    /\ ApiGoto(h, "seen")
    /\ UNCHANGED asked

\* ... and normalize_session_async looks at the clock, and when it is over at the row.
GetReads(h) ==
    /\ h \in Gets
    /\ api[h] = "seen"
    /\ ApiGoto(h, IF ~past THEN "idle"
                  ELSE IF dep.status \in Running THEN "write" ELSE "enqueue")
    /\ UNCHANGED asked

LoopSelects_NotReady == past /\ dep.status \in ActiveStatuses \ {"ready"}
LoopSelects == past /\ dep.status \in ActiveStatuses

LoopReads(h) ==
    /\ h \in Loops
    /\ api[h] = "idle"
    /\ LoopSelects
    /\ ApiGoto(h, IF dep.status = "terminating" THEN "enqueue" ELSE "write")
    /\ UNCHANGED asked

\* DELETE, once the terminate lock is over.
DeleteReads(h) ==
    /\ h \in Deletes
    /\ api[h] = "idle"
    /\ dep.status \notin TerminalStatuses
    /\ ApiGoto(h, IF dep.status = "terminating" THEN "enqueue" ELSE "write")
    /\ asked' = (asked \/ dep.status = "terminating")

ApiOnly == UNCHANGED <<queueVars, dep, past, extVars, ledger, workerVars, sent>>

ApiReads(h) == (GetFinds(h) \/ GetReads(h) \/ LoopReads(h) \/ DeleteReads(h)) /\ ApiOnly

ApiCommits(h) ==
    /\ api[h] = "write"
    /\ dep' = [dep EXCEPT !.status = "terminating"]
    /\ asked' = (asked \/ h \in Deletes)
    /\ ApiGoto(h, "enqueue")
    /\ UNCHANGED <<queueVars, past, extVars, ledger, workerVars, sent>>

ApiWanted_UnknownKind(h) == IF h \in Deletes THEN "destroy" ELSE "cleanup"
ApiWanted(h) == IF h \in Deletes THEN "terminate" ELSE "cleanup"

ApiEnqueues(h) ==
    /\ api[h] = "enqueue"
    /\ \/ /\ checked[h] = NoKind /\ Found(ApiWanted(h))
          /\ ApiGoto(h, "idle")
          /\ UNCHANGED queueVars
       \/ EnqueueCheck(h, ApiWanted(h)) /\ UNCHANGED api
       \/ EnqueueInsert(h) /\ ApiGoto(h, "idle")
    /\ UNCHANGED <<rowVars, extVars, ledger, workerVars, sent>>

-----------------------------------------------------------------------------
(* Time and crashes *)

Expire ==
    /\ ~past
    /\ past' = TRUE
    /\ UNCHANGED <<queueVars, dep, asked, extVars, ledger, workerVars, api, sent>>

WorkerDies(w) ==
    /\ CrashWorker(w)
    /\ Forget(w)
    /\ UNCHANGED <<rowVars, extVars, ledger, api, sent>>

\* A handler raises outside a provider call, on a database error say: process_job
\* treats it as an error of the provider.  At "retry" the job's outcome cannot be
\* written either, and during reconcile_once nothing catches it: there the process dies.
HandlerRaises(w) ==
    /\ pc[w] \notin {"idle", "reconcile", "retry"}
    /\ Raise(w)
    /\ Goto(w, "retry")
    /\ UNCHANGED <<rowVars, extVars, ledger, api, sent>>

\* The API's process dies with all its handlers, or some of them raise.
ApiDies ==
    /\ \E hs \in SUBSET Handlers \ {{}} :
         /\ CrashApi(hs)
         /\ api' = [h \in Handlers |-> IF h \in hs THEN "idle" ELSE api[h]]
    /\ UNCHANGED <<rowVars, extVars, ledger, workerVars, sent>>

-----------------------------------------------------------------------------
(* create_session_async commits the queued row and its provision job. *)
Init ==
    /\ RowsOf["provision"] # {}
    /\ jobs = [j \in JobIds |->
                 IF j = CHOOSE i \in RowsOf["provision"] : TRUE
                 THEN [status |-> "queued", kind |-> "provision", attempts |-> 0]
                 ELSE NoJob]
    /\ held = [w \in Workers |-> {}]
    /\ checked = [c \in Clients |-> NoKind]
    /\ crashes = 0
    /\ overtakes = 0
    /\ dep = NewRow
    /\ cloud = [d \in Droplets |-> "absent"]
    /\ zone = [r \in Records |-> "absent"]
    /\ ledger = [d \in Droplets |-> "none"]
    /\ past = FALSE
    /\ pc = [w \in Workers |-> "idle"]
    /\ cur = [w \in Workers |-> None]
    /\ snap = [w \in Workers |-> NewRow]
    /\ ans = [w \in Workers |-> NoAnswer]
    /\ todo = [w \in Workers |-> {}]
    /\ api = [h \in Handlers |-> "idle"]
    /\ faults = 0
    /\ orphaned = {}
    /\ asked = FALSE
    /\ sent = [m \in {"ready", "ended"} |-> 0]

\* One step of a worker inside process_job.
JobStep(w) ==
    \/ Begin(w) \/ Create(w) \/ Record(w) \/ Track(w)
    \/ Poll(w) \/ Apply(w) \/ Successor(w) \/ ExpireSession(w)
    \/ ReadyFlag(w) \/ ReadySend(w) \/ EndFlag(w) \/ EndSend(w)
    \/ Destroy(w) \/ Untrack(w) \/ Close(w)
    \/ Enqueue(w) \/ Finish(w) \/ Retry(w)

Reconcile(w) ==
    (\E old \in Ages : ReconcileRead(w, old)) \/ ReconcileLedger(w) \/ ReconcileEnqueue(w)

Next ==
    \/ \E w \in Workers : JobStep(w) \/ ClaimJobs(w) \/ Reconcile(w)
                           \/ WorkerDies(w) \/ HandlerRaises(w)
    \/ \E h \in Handlers : ApiReads(h) \/ ApiCommits(h) \/ ApiEnqueues(h)
    \/ ApiDies
    \/ Expire
    \/ Vanish

Spec == Init /\ [][Next]_vars

\* A worker takes due jobs in the order of next_run_at, so no kind of job waits for
\* ever, and goes through its batch; refreshes come far enough apart to ask the provider
\* again and again; its loop comes round to reconcile_once; rows that nobody touches grow
\* old; the API's loop runs every CLEANUP_INTERVAL_SECONDS and a handler under way goes
\* on.  Nothing is assumed of DELETE and GET requests, of the expiry, of crashes and of
\* faults.
Fairness ==
    /\ \A w \in Workers :
         /\ WF_vars(JobStep(w))
         /\ SF_vars(Poll(w) /\ AskProvider(w))
         /\ WF_vars(ReconcileLedger(w) \/ ReconcileEnqueue(w))
         /\ SF_vars(ReconcileRead(w, {"deployment", "ledger"}))
         /\ \A k \in Kinds : SF_vars(ClaimJobs(w) /\ held'[w] \cap RowsOf[k] # {})
    /\ \A h \in Handlers :
         /\ WF_vars(GetReads(h) /\ ApiOnly)
         /\ WF_vars(ApiCommits(h) \/ ApiEnqueues(h))
    /\ \A h \in Loops : WF_vars(LoopReads(h) /\ ApiOnly)

FairSpec == Spec /\ Fairness

-----------------------------------------------------------------------------
(* Properties *)

\* Worker steps are sequential and the row's recorded ids are written by workers
\* only; several of the properties below hold for a single worker, which is what
\* docker-compose starts, and fail for two.

\* process_destroy wrote its final status and terminated_at.
Over == dep.closed /\ dep.status \in {"terminated", "expired"}

Released ==
    /\ dep.inst # None => cloud[dep.inst] = "gone" /\ ledger[dep.inst] # "live"
    /\ dep.rec # None => zone[dep.rec] = "gone"

\* terminated_at is first set only when the recorded droplet and DNS record are
\* gone and the ledger no longer counts the droplet, through any retries, crashes
\* and stale reads before that.
ClosingReleases == [][~dep.closed /\ dep'.closed => Released']_vars

\* A deployment shown as terminated or expired does not keep a droplet running,
\* also when a late commit of the API reopened it meanwhile.
OverMeansGone == Over /\ dep.inst # None => cloud[dep.inst] = "gone"

\* No step takes a deployment that is over back to queued, initializing, deploying
\* or ready: a provision or refresh job left over from before reads the row first.
OverStaysOver == [][Over => dep'.status \notin Running]_vars

\* provider_resources says "deleted" only of droplets that are gone.
LedgerTruthful == \A d \in Droplets : ledger[d] = "deleted" => cloud[d] = "gone"

InUse(x) ==
    \/ x \in {dep.inst, dep.rec}
    \/ \E w \in Workers : x \in {ans[w].inst, ans[w].rec}

Strays(account) == {x \in DOMAIN account : account[x] = "up" /\ ~InUse(x)} \ orphaned

\* Every droplet that runs is recorded in the row or about to be, except those whose
\* creation was answered by an error, one for each crash, one for each claim that takes a
\* job from a slow worker, and one for each further worker, who may create a second one
\* before the first is recorded.
StraysBounded ==
    Cardinality(Strays(cloud)) <= crashes + overtakes + Cardinality(Workers) - 1

\* With one worker, likewise for the DNS records that are published.
StrayRecordsBounded == Cardinality(Strays(zone)) <= crashes

\* A deployment is polled by one chain of refresh jobs (the last link may still be
\* on its way to "done" when its successor exists); a crash, a further worker and a
\* claim that takes a refresh from a slow worker may fork it once each.
ChainsBounded ==
    Cardinality(ActiveOfKind("refresh"))
      <= Cardinality(Workers) + crashes + overtakes
         + Cardinality({w \in Workers : At(w, "finish") /\ Kind(w) = "refresh"})

\* The ledger counts the droplet, or a worker is about to enter it.
Entering(w, d) == At(w, "track") /\ Tracked(w) = d

Watched(d) == ledger[d] = "live" \/ \E w \in Workers : Entering(w, d)

\* A droplet that was recorded is watched from then on for as long as it runs, also when
\* another worker records a second one over it and whoever closes the deployment, unless
\* the worker about to enter it fails there.
RecordedStaysWatched ==
    [][\A d \in Droplets :
         /\ Watched(d) \/ (dep.inst # d /\ dep'.inst = d)
         /\ cloud'[d] = "up"
         => \/ Watched(d)'
            \/ crashes' # crashes /\ \E w \in Workers : Entering(w, d)]_vars

\* A ready session that nobody asked to terminate stays ready until it expires:
\* its last refresh job ends when it becomes ready, and none is enqueued again.
ReadyIsStable ==
    [][dep.status = "ready" /\ ~past /\ ~asked' => dep'.status = "ready"]_vars

\* Likewise in a system where processes die and handlers raise, until the first does.
ReadyUntilCrash ==
    [][crashes = 0 /\ dep.status = "ready" /\ ~past /\ ~asked' => dep'.status = "ready"]_vars

\* A user is told once that the session is ready, and once that it ended.
OneNotice == \A m \in DOMAIN sent : sent[m] <= 1

\* Several workers tell the user at most once each, for the flag is committed before
\* the message is sent.
NoticesBounded == \A m \in DOMAIN sent : sent[m] <= Cardinality(Workers)

\* "Every step checks the current session status before acting": a session that is
\* being terminated is not put back into a running status.
TerminatingStays == [][dep.status = "terminating" => dep'.status \notin Running]_vars

\* From its commit on, a DELETE is carried by the handler about to enqueue for it or by a
\* terminate job, until terminated_at is set.  Only the API's death between commit and
\* enqueue can drop it, and a job out of attempts, which takes that many faults,
\* crashes and claims that take jobs from slow workers.
Carried == Found("terminate") \/ \E h \in Deletes : api[h] = "enqueue"

DeleteIsCarried ==
    [][Carried \/ asked' # asked =>
         \/ Carried' \/ dep'.closed
         \/ faults + crashes + overtakes >= MaxAttempts
         \/ ApiDies]_vars

Settled == dep.closed /\ dep.status \in TerminalStatuses /\ Released

\* A session past its TTL is eventually closed and its resources released.
CleanupHappens == past ~> Settled

\* A session whose DELETE was committed is eventually closed and its resources released,
\* also when a late commit reopened it, and before its TTL nobody else need help: a closed
\* session that is reopened after its TTL is left to the cleanup loop.
TerminationHappens == asked ~> Settled \/ past

\* "Cleanup must be enforced server-side": past the TTL, a recorded droplet does
\* not keep running.
CleanupEnforced == (past /\ dep.inst # None) ~> (dep.inst # None /\ cloud[dep.inst] = "gone")

-----------------------------------------------------------------------------
(* The promise, for one worker *)

Launched == {"initializing", "deploying", "ready"}

Phase ==
    CASE dep.status = "queued" -> "waiting"
      [] dep.status \in Launched -> "running"
      [] Over -> "over"
      [] OTHER -> "ending"

DropletState == IF dep.inst = None THEN "none" ELSE cloud[dep.inst]

Stay == INSTANCE Tenancy WITH
    phase <- Phase, mine <- dep.inst, droplet <- DropletState,
    adrift <- Strays(cloud), deaths <- crashes, told <- sent

\* All that happens to one deployment, through stale reads, retries, provider faults and
\* crashes, is a stay as it was promised.
ImplementsTenancy == Stay!TenancySpec

-----------------------------------------------------------------------------
(* Why the safety properties hold *)

\* The handlers of one worker run one after the other.
OneWorker == \A v, w \in Workers : v = w

GoneIn(f, id) == id # None => f[id] = "gone"

\* What a call deleted stays deleted until the ledger is written ...
UntrackSafe == \A w \in Workers : At(w, "untrack") => GoneIn(cloud, snap[w].inst)

\* ... and until the row is closed: the ids in the row are those of the handler's copy.
CopyCurrent(w) ==
    pc[w] \in {"poll", "apply", "flag", "send", "destroy", "untrack"} =>
        snap[w].inst = dep.inst /\ snap[w].rec = dep.rec

CloseSafe(w) ==
    /\ At(w, "untrack") => GoneIn(zone, snap[w].rec)
    /\ At(w, "close") => Released

\* A poll is of a session that is not over; what it finds terminated is gone.
PollSafe(w) ==
    /\ pc[w] \in {"poll", "apply"} => dep.status \in ActiveStatuses
    /\ At(w, "poll") => snap[w].status \in ActiveStatuses
    /\ At(w, "apply") => /\ ans[w].status # "expired"
                         /\ ans[w].status = "terminated" => GoneIn(cloud, dep.inst)

\* An id in the row or in an answer is one the provider gave out.
RecordedExists ==
    /\ dep.inst # None => cloud[dep.inst] # "absent"
    /\ \A w \in Workers :
         ans[w].inst # None => pc[w] \in {"record", "track"} /\ cloud[ans[w].inst] # "absent"

SettleInv ==
    /\ \A w \in Workers : CopyCurrent(w) /\ CloseSafe(w) /\ PollSafe(w)
    /\ RecordedExists
    /\ OverMeansGone

\* What the provider gave a worker is not in the row yet, or is what the row has, so
\* recording it forgets nothing.
HoldsSafe(w) ==
    /\ pc[w] \in {"create", "record"} => dep.status \in ActiveStatuses
    /\ At(w, "create") => dep.inst = None
    /\ ans[w].inst # None => dep.inst = (IF At(w, "record") THEN None ELSE ans[w].inst)
    /\ ans[w].rec # None => At(w, "apply") /\ ans[w].ip
    /\ At(w, "apply") /\ ans[w].ip => dep.inst # None /\ dep.rec \in {None, ans[w].rec}

Few(account) == IsFiniteSet(Strays(account)) /\ Cardinality(Strays(account)) <= crashes

StrayInv ==
    /\ dep.rec # None => dep.inst # None
    /\ \A w \in Workers : HoldsSafe(w)
    /\ Few(cloud) /\ Few(zone)

\* A chain goes on from a refresh that waits to be claimed, from a worker that holds
\* one, and from a worker about to enqueue one.  Finishing one ends a chain that its
\* successor has taken over.
Enqueuers == {w \in Workers : checked[w] = "refresh"}

Finishing(k) == {w \in Workers : At(w, "finish") /\ Kind(w) = k}

AtWork(w) ==
    /\ pc[w] \notin {"idle", "reconcile"} => cur[w] \in held[w]
    /\ pc[w] \in {"poll", "apply", "successor"} => Kind(w) = "refresh"

ChainInv ==
    /\ \A w \in Workers : AtWork(w)
    /\ \A h \in Handlers : checked[h] # "refresh"
    /\ Tally("refresh")
    /\ Chances("refresh") + Cardinality(Enqueuers)
         <= Cardinality(Workers) + crashes + overtakes + Cardinality(Finishing("refresh"))

\* Of the droplets.  Expecting: who is yet to enqueue a provision job.  Makers: who is
\* about to make a droplet, or has made one that is not the recorded one.
Expecting == {w \in Workers : "provision" \in todo[w]}

Makers == {w \in Workers : At(w, "create") \/ ans[w].inst \notin {None, dep.inst}}

\* While the session is queued there is nothing but its provisioning, and it is queued
\* only until its first droplet is recorded or it ends.
EarlyInv ==
    /\ dep.status = "queued" =>
         /\ dep.inst = None
         /\ Found("provision")
         /\ \A j \in JobIds : Active(j) \/ Held(j) => jobs[j].kind = "provision"
         /\ \A c \in Clients : checked[c] = NoKind
         /\ \A h \in Handlers : api[h] # "enqueue"
         /\ \A w \in Workers : /\ pc[w] \in {"idle", "reconcile", "create", "record", "retry"}
                               /\ todo[w] \subseteq {"provision", "ledger"}
    /\ \A w \in Workers : /\ At(w, "poll") => snap[w].status # "queued"
                          /\ At(w, "apply") => ans[w].status # "queued"

\* A droplet is in one worker's hands until the row has it, and a session that ends
\* before it has one is ended by another worker, who expects no provision job.
MakeSafe(w) ==
    /\ pc[w] \in {"create", "record", "track"} => Kind(w) = "provision"
    /\ pc[w] # "reconcile" => todo[w] = {}
    /\ checked[w] = "provision" => "provision" \in todo[w]
    /\ ans[w].inst # None =>
         /\ pc[w] \in {"record", "track"} /\ cloud[ans[w].inst] # "absent"
         /\ \A v \in Workers \ {w} : ans[v].inst # ans[w].inst
    /\ At(w, "record") => ans[w].inst # dep.inst
    /\ At(w, "track") => dep.inst # None
    /\ pc[w] \in {"create", "record"} /\ dep.inst = None /\ ~InSession =>
         \E v \in Workers \ {w} : v \notin Expecting

\* Every chance to go through a provision job may make one droplet more, until one is
\* recorded: first there is one job; when it is over, and the session with it,
\* what other workers still expect comes on top.
OneProvision ==
    /\ Found("provision")
    /\ Finishing("provision") = {}
    /\ \A w \in Workers : checked[w] # "provision"
    /\ Cardinality(Strays(cloud)) + Chances("provision") <= crashes + overtakes + 1

LateProvisions ==
    /\ dep.status # "queued"
    /\ Cardinality(Strays(cloud)) + Chances("provision") + Cardinality(Expecting)
         <= crashes + overtakes + Cardinality(Workers) - 1 + Cardinality(Finishing("provision"))

DropletInv ==
    /\ EarlyInv
    /\ \A w \in Workers : MakeSafe(w)
    /\ \A h \in Handlers : checked[h] # "provision"
    /\ dep.inst # None => cloud[dep.inst] # "absent"
    /\ Tally("provision") /\ IsFiniteSet(Strays(cloud))
    /\ IF dep.inst = None
       THEN OneProvision \/ LateProvisions
       ELSE Cardinality(Strays(cloud)) + Cardinality(Makers)
              <= crashes + overtakes + Cardinality(Workers) - 1

\* A worker is past the destroy of a terminate job only when the deployment is closed.
CarryInv ==
    /\ \A h \in Deletes : checked[h] \in {NoKind, "terminate"}
    /\ \A w \in Workers :
         pc[w] \notin {"idle", "reconcile"} /\ Kind(w) = "terminate" =>
           \/ pc[w] \in {"destroy", "untrack", "close", "retry"}
           \/ pc[w] \in {"flag", "send", "finish"} /\ dep.closed

\* Every run of a job but its last ended with a fault, or its worker died or was overtaken;
\* a fault is counted before the job is rescheduled or failed for it.
Retriers(j) == {w \in Workers : At(w, "retry") /\ cur[w] = j}

TriesPaid(j) ==
    LET spent == jobs[j].attempts + Cardinality(Retriers(j)) IN
    /\ spent <= faults + crashes + overtakes + 1
    /\ Active(j) /\ (jobs[j].status = "queued" \/ ~Held(j)) =>
         spent <= faults + crashes + overtakes

CarrySafe == CarryInv /\ \A j \in JobIds : TriesPaid(j)

\* What each step knows of the session: it is launched with a droplet, ended with a word
\* to the user at a time when it does not run, and ready only before it is over.
TenantInv ==
    /\ dep.status \in Launched => dep.inst # None
    /\ \A w \in Workers :
         /\ pc[w] \in {"ready_flag", "ready_send"} =>
              dep.inst # None /\ dep.status \in {"ready", "terminating"}
         /\ pc[w] \in {"flag", "send"} => dep.status \in TerminalStatuses \cup {"terminating"}
         /\ At(w, "poll") /\ snap[w].status \in Launched => dep.inst # None
         /\ At(w, "apply") /\ ans[w].status \in Launched => dep.inst # None

\* Messages of a kind are under way or sent only when its flag is set, and a worker
\* who sent one when it was does not come back to send another.
Flagged(m) == IF m = "ready" THEN dep.told ELSE dep.ended

SendStep(m) == IF m = "ready" THEN "ready_send" ELSE "send"

Tellers(m) ==
    {w \in Workers : pc[w] \in {IF m = "ready" THEN "ready_flag" ELSE "flag", SendStep(m)}}

NoticeInv ==
    \A m \in {"ready", "ended"} :
        /\ ~Flagged(m) => sent[m] = 0 /\ \A w \in Workers : ~At(w, SendStep(m))
        /\ sent[m] + Cardinality(Tellers(m)) <= Cardinality(Workers)
=============================================================================
