------------------------------ MODULE JobQueue ------------------------------
(***************************************************************************)
(* The deployment_jobs table of opentryrw and the processes that use it:   *)
(* the API handlers and the workers that insert rows, the workers that     *)
(* claim batches of rows, run them and write their outcome.                *)
(*                                                                         *)
(* One step is one database transaction.  Time is abstract: a queued job   *)
(* may be claimed at any moment (its next_run_at has come), the lock of a  *)
(* running job has lapsed when no live worker has the job in its batch,    *)
(* and up to MaxOvertakes claims find a lock that lapsed although a live   *)
(* worker has the job: its batch took longer than WORKER_LOCK_SECONDS.     *)
(* locked_by is left out: the code writes it and never reads it.           *)
(***************************************************************************)
EXTENDS Naturals, FiniteSets

CONSTANTS
    JobIds,       \* rows of the table; bounds how many jobs exist at a time
    Kinds,        \* kinds of job
    RowsOf,       \* RowsOf[k]: the rows a job of kind k may take
    Workers,      \* worker processes
    Clients,      \* whoever enqueues: the workers and the API's handlers
    NoKind,       \* "this client is between no dedupe check and its insert"
    MaxAttempts,  \* max_attempts of a job: 8 or 12 in the code
    BatchSize,    \* WORKER_BATCH_SIZE
    MaxOvertakes, \* bound: claims of what a slow worker still holds
    MaxCrashes    \* bound: crashes of processes and of handlers

ASSUME QueueAssumption ==
    /\ RowsOf \in [Kinds -> SUBSET JobIds]
    /\ Workers \subseteq Clients
    /\ NoKind \notin Kinds
    /\ MaxAttempts \in Nat \ {0}
    /\ BatchSize \in Nat \ {0}
    /\ MaxOvertakes \in Nat
    /\ MaxCrashes \in Nat

VARIABLES
    jobs,     \* the table: status, kind and attempts of every row
    held,     \* held[w]: the claimed ids worker w has still to go through
    checked,  \* checked[c]: the kind client c found no active job of, and is about to insert
    crashes,  \* processes that died, and handlers that raised on their own, so far
    overtakes \* times so far that a claim took a job from a live worker

queueVars == <<jobs, held, checked, crashes, overtakes>>

JobStatuses == {"none", "queued", "running", "done", "failed"}

JobRows == [status: JobStatuses, kind: Kinds \cup {NoKind}, attempts: Nat]

\* No row: not inserted yet, or finished and never read again.
NoJob == [status |-> "none", kind |-> NoKind, attempts |-> 0]

QueueTypeOK ==
    /\ jobs \in [JobIds -> JobRows]
    /\ held \in [Workers -> SUBSET JobIds]
    /\ checked \in [Clients -> Kinds \cup {NoKind}]
    /\ crashes \in 0..MaxCrashes
    /\ overtakes \in 0..MaxOvertakes

-----------------------------------------------------------------------------
(* Reading the table *)

Held(j) == \E w \in Workers : j \in held[w]

Active(j) == jobs[j].status \in {"queued", "running"}

\* A finished row is read again only by a worker that still holds its id.
Fresh(j) == ~Active(j) /\ ~Held(j)

ActiveOfKind(k) == {j \in JobIds : Active(j) /\ jobs[j].kind = k}

Found_Never(k) == FALSE
Found(k) == ActiveOfKind(k) # {}

LeaseLapsed_Never(j) == FALSE
LeaseLapsed(j) == ~Held(j) \/ overtakes < MaxOvertakes

Claimable(j) ==
    \/ jobs[j].status = "queued"
    \/ jobs[j].status = "running" /\ LeaseLapsed(j)

Due == {j \in JobIds : Claimable(j)}

-----------------------------------------------------------------------------
(* enqueue_deployment_job_async *)

Free(k) == {j \in RowsOf[k] : Fresh(j)}

\* Which of the free rows the new job gets makes no difference.
Insert(k) ==
    /\ Free(k) # {}
    /\ jobs' = [jobs EXCEPT ![CHOOSE j \in Free(k) : TRUE] =
                  [status |-> "queued", kind |-> k, attempts |-> 0]]

\* The dedupe SELECT finds nothing ...
EnqueueCheck(c, k) ==
    /\ checked[c] = NoKind
    /\ ~Found(k)
    /\ checked' = [checked EXCEPT ![c] = k]
    /\ UNCHANGED <<jobs, held, crashes, overtakes>>

\* ... and the INSERT follows, whatever was committed in between.
EnqueueInsert(c) ==
    /\ checked[c] # NoKind
    /\ Insert(checked[c])
    /\ checked' = [checked EXCEPT ![c] = NoKind]
    /\ UNCHANGED <<held, crashes, overtakes>>

\* dedupe=False
EnqueueAlways(k) ==
    /\ Insert(k)
    /\ UNCHANGED <<held, checked, crashes, overtakes>>

-----------------------------------------------------------------------------
(* claim_jobs, mark_job_done, reschedule_or_fail_job *)

\* Without the status, the row lock of the claim is all that keeps others away.
Claimed_StillQueued(row) == [row EXCEPT !.attempts = @ + 1]
Claimed(row) == [row EXCEPT !.status = "running", !.attempts = @ + 1]

\* A live worker still works on the job.
Taken(j) == jobs[j].status = "running" /\ Held(j)

ClaimBatch(w, batch) ==
    LET taken == {j \in batch : Taken(j)} IN
    /\ held[w] = {}
    /\ batch # {}
    /\ IsFiniteSet(batch) /\ Cardinality(batch) <= BatchSize
    /\ overtakes + Cardinality(taken) <= MaxOvertakes
    /\ jobs' = [j \in JobIds |-> IF j \in batch THEN Claimed(jobs[j]) ELSE jobs[j]]
    /\ held' = [held EXCEPT ![w] = batch]
    /\ overtakes' = overtakes + Cardinality(taken)
    /\ UNCHANGED <<checked, crashes>>

Claim(w) == \E batch \in SUBSET Due : ClaimBatch(w, batch)

\* The worker is through with job j; the row's new status is s.  A finished row
\* that no other worker holds is never read again, so it is forgotten.
Release(w, j, s) ==
    /\ j \in held[w]
    /\ jobs' = [jobs EXCEPT ![j] =
                  IF s # "queued" /\ \A v \in Workers \ {w} : j \notin held[v]
                  THEN NoJob
                  ELSE [@ EXCEPT !.status = s]]
    /\ held' = [held EXCEPT ![w] = @ \ {j}]
    /\ UNCHANGED <<checked, crashes, overtakes>>

MarkDone(w, j) == Release(w, j, "done")

OutOfAttempts_OneMore(j) == jobs[j].attempts > MaxAttempts
OutOfAttempts_OneLess(j) == jobs[j].attempts + 1 >= MaxAttempts
OutOfAttempts(j) == jobs[j].attempts >= MaxAttempts

FailJob(w, j) == OutOfAttempts(j) /\ Release(w, j, "failed")

Reschedule(w, j) == ~OutOfAttempts(j) /\ Release(w, j, "queued")

-----------------------------------------------------------------------------
(* Crashes: memory is lost, rows stay as they are. *)

CrashWorker(w) ==
    /\ crashes < MaxCrashes
    /\ crashes' = crashes + 1
    /\ held' = [held EXCEPT ![w] = {}]
    /\ checked' = [checked EXCEPT ![w] = NoKind]
    /\ UNCHANGED <<jobs, overtakes>>

\* Only what the clients of cs were about to insert is lost.
Lapse(cs) ==
    /\ crashes < MaxCrashes
    /\ crashes' = crashes + 1
    /\ checked' = [c \in Clients |-> IF c \in cs THEN NoKind ELSE checked[c]]
    /\ UNCHANGED <<jobs, held, overtakes>>

\* The API's process dies, or a transaction of one of its handlers raises.
CrashApi(cs) == cs \cap Workers = {} /\ Lapse(cs)

\* A transaction of worker w's handler raises: the batch goes on with the job's outcome.
Raise(w) == Lapse({w})

-----------------------------------------------------------------------------
QueueInit ==
    /\ jobs = [j \in JobIds |-> NoJob]
    /\ held = [w \in Workers |-> {}]
    /\ checked = [c \in Clients |-> NoKind]
    /\ crashes = 0
    /\ overtakes = 0

WorkerNext(w) ==
    \/ Claim(w)
    \/ \E j \in JobIds : MarkDone(w, j) \/ FailJob(w, j) \/ Reschedule(w, j)
    \/ CrashWorker(w) \/ Raise(w)

QueueNext ==
    \/ \E c \in Clients : EnqueueInsert(c) \/ \E k \in Kinds : EnqueueCheck(c, k)
    \/ \E k \in Kinds : EnqueueAlways(k)
    \/ \E w \in Workers : WorkerNext(w)
    \/ \E cs \in SUBSET Clients : CrashApi(cs)

QueueSpec == QueueInit /\ [][QueueNext]_queueVars

\* Every poll claims due jobs in the order of next_run_at, so none is passed over
\* for ever; a live worker goes through its batch.
QueueFairness ==
    \A w \in Workers : \A j \in JobIds :
        /\ SF_queueVars(\E batch \in SUBSET Due : j \in batch /\ ClaimBatch(w, batch))
        /\ WF_queueVars(MarkDone(w, j) \/ FailJob(w, j) \/ Reschedule(w, j))

FairQueueSpec == QueueSpec /\ QueueFairness

-----------------------------------------------------------------------------
(* Properties *)

\* Until a lease is shorter than a batch, no job is in the batches of two workers,
\* and the row of a job somebody works on says "running": claim_jobs hands a job out
\* again only after the process that had it died.
Exclusive ==
    overtakes = 0 =>
        \A w \in Workers : \A j \in held[w] :
            /\ jobs[j].status = "running"
            /\ \A v \in Workers : j \in held[v] => v = w

\* max_attempts is compared only when a run raises, so a job whose worker dies, or is
\* too slow, is claimed once more than it allows; never more often than that happened,
\* also when several workers write the outcome of the same job.
AttemptsBounded == \A j \in JobIds : jobs[j].attempts <= MaxAttempts + crashes + overtakes

\* Why both hold: a queued job has an attempt left, and a job whose worker died
\* has been charged for by a crash before it is claimed again.
AttemptsPaid(j) ==
    /\ jobs[j].attempts <= MaxAttempts + crashes + overtakes
    /\ jobs[j].status = "queued" => jobs[j].attempts + 1 <= MaxAttempts
    /\ jobs[j].status = "running" /\ ~Held(j) =>
         jobs[j].attempts + 1 <= MaxAttempts + crashes + overtakes

OneHolder(j) ==
    /\ jobs[j].status \in {"none", "queued", "running"}
    /\ Held(j) => jobs[j].status = "running"
    /\ \A v, w \in Workers : j \in held[v] /\ j \in held[w] => v = w

QueueInv == \A j \in JobIds : AttemptsPaid(j) /\ (overtakes = 0 => OneHolder(j))

\* Of the jobs of a kind: those that nobody works on, and who holds one, also when it
\* is another's as well or finished already.
Waiting(k) == {j \in ActiveOfKind(k) : jobs[j].status = "queued" \/ ~Held(j)}

Holdings(k) == {h \in Workers \X JobIds : h[2] \in held[h[1]] /\ jobs[h[2]].kind = k}

\* How often somebody may yet go through a job of the kind
Chances(k) == Cardinality(Waiting(k)) + Cardinality(Holdings(k))

Finite(k) == IsFiniteSet(Waiting(k)) /\ IsFiniteSet(Holdings(k)) /\ IsFiniteSet(ActiveOfKind(k))

\* More than one worker holds a job, or holds a finished one, only after take-overs.
Tally(k) == Finite(k) /\ Chances(k) <= Cardinality(ActiveOfKind(k)) + overtakes

\* Who holds what
Pairs == {h \in Workers \X JobIds : h[2] \in held[h[1]]}

OnDuty == {j \in JobIds : Taken(j)}

Progress ==
    [j \in JobIds |-> IF ~Active(j) THEN "none"
                      ELSE IF jobs[j].attempts = 0 THEN "added" ELSE "tried"]

\* A row that runs is due to one of its holders; whoever else holds one comes late.
Late == Cardinality(Pairs) - Cardinality(OnDuty)

Pool == INSTANCE WorkPool WITH
    Jobs <- JobIds, work <- Progress, taken <- overtakes, spare <- Late

\* The table keeps the promise of a pool of work: no job is over before it was run, and
\* mark_job_done or reschedule_or_fail_job write a row that is over already, or bring one
\* back, at most once for each job taken from a worker that was still running it.
ImplementsPool == Pool!PoolSpec

\* Why: what is held or running was claimed.
PoolInv ==
    /\ IsFiniteSet(Pairs)
    /\ \A j \in JobIds : Held(j) \/ jobs[j].status = "running" => jobs[j].attempts # 0

\* A job that was enqueued is run to an outcome, through retries, crashes and
\* take-overs.
EveryJobEnds == \A j \in JobIds : Active(j) ~> ~Active(j)
=============================================================================
