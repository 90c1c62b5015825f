-------------------------- MODULE Lifecycle_proofs --------------------------
(***************************************************************************)
(* Theorems of Lifecycle for any number of workers, handlers, droplets,    *)
(* crashes and faults: its types, and that it uses the job table only      *)
(* through the actions of JobQueue, so that the queue's theorems hold of   *)
(* the whole system.                                                       *)
(***************************************************************************)
EXTENDS Lifecycle, JobQueue_proofs

-----------------------------------------------------------------------------
(* The parts of TypeOK *)

WorkerTypeOK ==
    /\ pc \in [Workers -> Steps]
    /\ cur \in [Workers -> JobIds \cup {None}]
    /\ snap \in [Workers -> Rows]
    /\ ans \in [Workers -> Answers]
    /\ todo \in [Workers -> SUBSET (Kinds \cup {"ledger"})]

RowTypeOK == dep \in Rows /\ past \in BOOLEAN /\ asked \in BOOLEAN

ExtTypeOK ==
    /\ cloud \in [Droplets -> {"absent", "up", "gone"}]
    /\ zone \in [Records -> {"absent", "up", "gone"}]
    /\ faults \in 0..MaxFaults
    /\ orphaned \in SUBSET (Droplets \cup Records)

RestTypeOK ==
    /\ ledger \in [Droplets -> {"none", "live", "deleted"}]
    /\ api \in [Handlers -> {"idle", "seen", "write", "enqueue"}]
    /\ sent \in [{"ready", "ended"} -> Nat]

LEMMA TypeParts ==
    TypeOK <=> QueueTypeOK /\ WorkerTypeOK /\ RowTypeOK /\ ExtTypeOK /\ RestTypeOK
BY DEF TypeOK, WorkerTypeOK, RowTypeOK, ExtTypeOK, RestTypeOK

LEMMA NewRowType == NewRow \in Rows
BY DEF NewRow, Rows, Statuses, ActiveStatuses, Running

LEMMA NoAnswerType == NoAnswer \in Answers
BY DEF NoAnswer, Answers, Statuses, ActiveStatuses, Running

-----------------------------------------------------------------------------
(* Moving through a job keeps the workers' types. *)

LEMMA GotoType ==
    ASSUME WorkerTypeOK, NEW w \in Workers, NEW step \in Steps, Goto(w, step)
    PROVE  WorkerTypeOK'
BY NewRowType, NoAnswerType DEF WorkerTypeOK, Goto

LEMMA AnsweredType ==
    ASSUME WorkerTypeOK, NEW w \in Workers, NEW step \in Steps, NEW a \in Answers,
           Answered(w, step, a)
    PROVE  WorkerTypeOK'
BY DEF WorkerTypeOK, Answered

LEMMA GotoWithRowType ==
    ASSUME WorkerTypeOK, NEW w \in Workers, NEW step \in Steps, GotoWithRow(w, step),
           dep' \in Rows
    PROVE  WorkerTypeOK'
BY NewRowType, NoAnswerType DEF WorkerTypeOK, GotoWithRow

LEMMA ForgetType ==
    ASSUME WorkerTypeOK, NEW w \in Workers, Forget(w)
    PROVE  WorkerTypeOK'
BY NewRowType, NoAnswerType DEF WorkerTypeOK, Forget, Steps

LEMMA TakeType ==
    ASSUME WorkerTypeOK, NEW w \in Workers, NEW j \in JobIds, NEW step \in Steps,
           Take(w, j, step), dep \in Rows
    PROVE  WorkerTypeOK'
BY NewRowType DEF WorkerTypeOK, Take

-----------------------------------------------------------------------------
(* Every step of Lifecycle is a step of the queue or leaves the queue alone. *)

LEMMA KindsUsed ==
    /\ \A w \in Workers : Wanted(w) \in Kinds
    /\ \A h \in Handlers : ApiWanted(h) \in Kinds
    /\ Workers \subseteq Clients /\ Handlers \subseteq Clients
    /\ "refresh" \in Kinds
BY LifecycleAssumption DEF Wanted, ApiWanted, JobKinds

LEMMA HeldIsRow ==
    ASSUME QueueTypeOK, NEW w \in Workers, NEW j, j \in held[w]
    PROVE  j \in JobIds
BY DEF QueueTypeOK

LEMMA JobStepQueue ==
    ASSUME TypeOK, NEW w \in Workers, JobStep(w)
    PROVE  QueueNext \/ UNCHANGED queueVars
<1>0. QueueTypeOK
  BY DEF TypeOK
<1>1. CASE Begin(w)
  BY <1>1 DEF Begin, BeginProvision, BeginRefresh, BeginDestroy, Take, OnlyWorker
<1>2. CASE Create(w) \/ Poll(w) \/ Destroy(w)
  BY <1>2 DEF Create, Poll, AskProvider, Destroy, OnlyExternal
<1>3. CASE Record(w) \/ Apply(w) \/ ExpireSession(w) \/ ReadyFlag(w) \/ EndFlag(w) \/ Close(w)
  BY <1>3 DEF Record, Apply, ExpireSession, ReadyFlag, EndFlag, Close, OnlyRow
<1>4. CASE Track(w) \/ Untrack(w) \/ ReadySend(w) \/ EndSend(w)
  BY <1>4 DEF Track, Untrack, ReadySend, EndSend
<1>5. CASE Successor(w)
  BY <1>5, KindsUsed DEF Successor, QueueNext
<1>6. CASE Enqueue(w)
  BY <1>6, KindsUsed DEF Enqueue, QueueNext
<1>7. CASE Finish(w)
  <2>1. MarkDone(w, cur[w]) /\ cur[w] \in held[w]
    BY <1>7 DEF Finish, MarkDone, Release
  <2>2. cur[w] \in JobIds
    BY <1>0, <2>1, HeldIsRow
  <2> QED
    BY <2>1, <2>2 DEF QueueNext, WorkerNext
<1>8. CASE Retry(w)
  <2>1. (Reschedule(w, cur[w]) \/ FailJob(w, cur[w])) /\ cur[w] \in held[w]
    BY <1>8 DEF Retry, Reschedule, FailJob, Release
  <2>2. cur[w] \in JobIds
    BY <1>0, <2>1, HeldIsRow
  <2> QED
    BY <2>1, <2>2 DEF QueueNext, WorkerNext
<1> QED
  BY <1>1, <1>2, <1>3, <1>4, <1>5, <1>6, <1>7, <1>8 DEF JobStep

LEMMA NextQueue ==
    ASSUME TypeOK, Next
    PROVE  QueueNext \/ UNCHANGED queueVars
<1>1. CASE \E w \in Workers : JobStep(w)
  BY <1>1, JobStepQueue
<1>2. CASE \E w \in Workers : ClaimJobs(w)
  BY <1>2 DEF ClaimJobs, QueueNext, WorkerNext
<1>3. CASE \E w \in Workers : Reconcile(w)
  <2>1. PICK w \in Workers : Reconcile(w)
    BY <1>3
  <2>2. CASE ReconcileEnqueue(w)
    <3>1. PICK k \in todo[w] \ {"ledger"} :
            EnqueueCheck(w, k) \/ EnqueueInsert(w) \/ UNCHANGED queueVars
      BY <2>2 DEF ReconcileEnqueue
    <3>2. k \in Kinds /\ w \in Clients
      BY <3>1, KindsUsed DEF TypeOK
    <3> QED
      BY <3>1, <3>2 DEF QueueNext
  <2>3. CASE ReconcileLedger(w) \/ \E old \in Ages : ReconcileRead(w, old)
    BY <2>3 DEF ReconcileLedger, ReconcileRead, OnlyWorker
  <2> QED
    BY <2>1, <2>2, <2>3 DEF Reconcile
<1>4. CASE \E w \in Workers : WorkerDies(w) \/ HandlerRaises(w)
  BY <1>4 DEF WorkerDies, HandlerRaises, QueueNext, WorkerNext
<1>5. CASE \E h \in Handlers : ApiReads(h) \/ ApiCommits(h)
  BY <1>5 DEF ApiReads, ApiCommits, ApiOnly
<1>6. CASE \E h \in Handlers : ApiEnqueues(h)
  BY <1>6, KindsUsed DEF ApiEnqueues, QueueNext
<1>7. CASE ApiDies
  <2>1. PICK hs \in SUBSET Handlers : CrashApi(hs)
    BY <1>7 DEF ApiDies
  <2>2. hs \in SUBSET Clients
    BY KindsUsed
  <2> QED
    BY <2>1, <2>2 DEF QueueNext
<1>8. CASE Expire \/ Vanish
  BY <1>8 DEF Expire, Vanish, OnlyExternal
<1> QED
  BY <1>1, <1>2, <1>3, <1>4, <1>5, <1>6, <1>7, <1>8 DEF Next

-----------------------------------------------------------------------------
(* Types of each part *)

LEMMA StatusSets ==
    /\ Running \subseteq Statuses /\ ActiveStatuses \subseteq Statuses
    /\ "terminating" \in Statuses /\ "failed" \in Statuses /\ "initializing" \in Statuses
    /\ \A k : Final(k) \in Statuses
BY DEF Final, Running, ActiveStatuses, TerminalStatuses, Statuses

\* Changing one field of the row.
LEMMA RowUpdate ==
    ASSUME NEW row \in Rows
    PROVE  /\ \A s \in Statuses : [row EXCEPT !.status = s] \in Rows
           /\ \A s \in Statuses : [row EXCEPT !.status = s, !.closed = TRUE] \in Rows
           /\ [row EXCEPT !.told = TRUE] \in Rows
           /\ [row EXCEPT !.ended = TRUE] \in Rows
           /\ row.status \in Statuses
BY DEF Rows

LEMMA WorkersOf ==
    ASSUME WorkerTypeOK, NEW w \in Workers
    PROVE  ans[w] \in Answers /\ snap[w] \in Rows
BY DEF WorkerTypeOK

LEMMA FailedStepType == \A row : FailedStep(row) \in Steps
BY DEF FailedStep, Steps

LEMMA AfterApplyType == \A row : AfterApply(row) \in Steps
BY FailedStepType DEF AfterApply, Steps

LEMMA BeginType ==
    ASSUME TypeOK, NEW w \in Workers, Begin(w)
    PROVE  WorkerTypeOK' /\ RowTypeOK' /\ ExtTypeOK' /\ RestTypeOK'
<1>1. WorkerTypeOK /\ RowTypeOK /\ ExtTypeOK /\ RestTypeOK
  BY TypeParts
<1>2. PICK j \in JobIds, step \in Steps : Take(w, j, step)
  BY FailedStepType DEF Begin, BeginProvision, BeginRefresh, BeginDestroy, Steps
<1>3. WorkerTypeOK'
  BY <1>1, <1>2, TakeType DEF RowTypeOK
<1> QED
  BY <1>1, <1>2, <1>3 DEF Take, OnlyWorker, rowVars, extVars, RowTypeOK, ExtTypeOK, RestTypeOK

LEMMA CreateType ==
    ASSUME TypeOK, NEW w \in Workers, Create(w)
    PROVE  WorkerTypeOK' /\ RowTypeOK' /\ ExtTypeOK' /\ RestTypeOK'
<1>1. WorkerTypeOK /\ RowTypeOK /\ ExtTypeOK /\ RestTypeOK
  BY TypeParts
<1>2. RowTypeOK' /\ RestTypeOK'
  BY <1>1 DEF Create, OnlyExternal, rowVars, RowTypeOK, RestTypeOK
<1>3. WorkerTypeOK'
  <2>1. CASE \E d \in Droplets : Answered(w, "record", Provisioned(d))
    <3>1. \A d \in Droplets : Provisioned(d) \in Answers
      BY DEF Provisioned, NoAnswer, Answers, Statuses, ActiveStatuses, Running
    <3> QED
      BY <1>1, <2>1, <3>1, AnsweredType DEF Steps
  <2>2. CASE Goto(w, "retry")
    BY <1>1, <2>2, GotoType DEF Steps
  <2> QED
    BY <2>1, <2>2 DEF Create
<1>4. ExtTypeOK'
  <2>1. faults' \in 0..MaxFaults
    BY <1>1, LifecycleAssumption DEF Create, Fault, ExtTypeOK
  <2>2. cloud' \in [Droplets -> {"absent", "up", "gone"}] /\ zone' = zone
    BY <1>1 DEF Create, NewDroplet, ExtTypeOK
  <2>3. orphaned' \in SUBSET (Droplets \cup Records)
    BY <1>1 DEF Create, ExtTypeOK
  <2> QED
    BY <1>1, <2>1, <2>2, <2>3 DEF ExtTypeOK
<1> QED
  BY <1>2, <1>3, <1>4

LEMMA PublishType ==
    ASSUME ExtTypeOK, NEW w \in Workers, NEW rec \in Records \cup {None}, Publish(w, rec),
           cloud' = cloud
    PROVE  ExtTypeOK'
<1>1. faults' \in 0..MaxFaults
  BY LifecycleAssumption DEF Publish, PublishLost, Fault, ExtTypeOK
<1>2. zone' \in [Records -> {"absent", "up", "gone"}]
  BY DEF Publish, PublishLost, NewRecord, ExtTypeOK
<1>3. orphaned' \in SUBSET (Droplets \cup Records)
  BY DEF Publish, PublishLost, ExtTypeOK
<1> QED
  BY <1>1, <1>2, <1>3 DEF ExtTypeOK

\* The statuses an answer can carry.
LEMMA PolledStatusType ==
    ASSUME NEW w \in Workers, NEW base \in {"initializing", "deploying"}
    PROVE  PolledStatus(w, base) \subseteq Statuses
BY DEF PolledStatus, Statuses, ActiveStatuses, TerminalStatuses, Running

LEMMA PollType ==
    ASSUME TypeOK, NEW w \in Workers, Poll(w)
    PROVE  WorkerTypeOK' /\ RowTypeOK' /\ ExtTypeOK' /\ RestTypeOK'
<1>1. WorkerTypeOK /\ RowTypeOK /\ ExtTypeOK /\ RestTypeOK
  BY TypeParts
<1>2. RowTypeOK' /\ RestTypeOK'
  BY <1>1 DEF Poll, AskProvider, OnlyExternal, rowVars, RowTypeOK, RestTypeOK
<1>3. \A s \in Statuses : [NoAnswer EXCEPT !.status = s] \in Answers
  BY DEF NoAnswer, Answers
<1>4. CASE \E s \in Statuses : Answered(w, "apply", [NoAnswer EXCEPT !.status = s])
                               /\ UNCHANGED extVars
  <2>1. WorkerTypeOK'
    BY <1>1, <1>3, <1>4, AnsweredType DEF Steps
  <2>2. ExtTypeOK'
    BY <1>1, <1>4 DEF extVars, ExtTypeOK
  <2> QED
    BY <1>2, <2>1, <2>2
<1>5. CASE /\ \E base \in {"initializing", "deploying"}, rec \in Records \cup {None} :
                \E s \in PolledStatus(w, base) :
                  /\ Publish(w, rec)
                  /\ Answered(w, "apply", [status |-> s, inst |-> None, ip |-> TRUE,
                                           rec |-> rec, timing |-> base = "deploying"])
           /\ UNCHANGED cloud
  <2>0. PICK base \in {"initializing", "deploying"}, rec \in Records \cup {None} :
          \E s \in PolledStatus(w, base) :
            /\ Publish(w, rec)
            /\ Answered(w, "apply", [status |-> s, inst |-> None, ip |-> TRUE,
                                     rec |-> rec, timing |-> base = "deploying"])
    BY <1>5
  <2>1. PICK s \in PolledStatus(w, base) :
            /\ Publish(w, rec)
            /\ Answered(w, "apply", [status |-> s, inst |-> None, ip |-> TRUE,
                                     rec |-> rec, timing |-> base = "deploying"])
    BY <2>0
  <2>2. [status |-> s, inst |-> None, ip |-> TRUE, rec |-> rec, timing |-> base = "deploying"]
          \in Answers
    BY PolledStatusType DEF Answers
  <2>3. WorkerTypeOK'
    BY <1>1, <2>1, <2>2, AnsweredType DEF Steps
  <2>4. ExtTypeOK'
    BY <1>1, <1>5, <2>1, PublishType
  <2> QED
    BY <1>2, <2>3, <2>4
<1>6. CASE Fault /\ Goto(w, "retry") /\ UNCHANGED <<cloud, zone, orphaned>>
  <2>1. WorkerTypeOK'
    BY <1>1, <1>6, GotoType DEF Steps
  <2>2. ExtTypeOK'
    BY <1>1, <1>6, LifecycleAssumption DEF Fault, ExtTypeOK
  <2> QED
    BY <1>2, <2>1, <2>2
<1>7. CASE PublishLost /\ Goto(w, "retry") /\ UNCHANGED cloud
  <2>1. WorkerTypeOK'
    BY <1>1, <1>7, GotoType DEF Steps
  <2>2. ExtTypeOK'
    <3>1. faults' \in 0..MaxFaults
      BY <1>1, <1>7, LifecycleAssumption DEF PublishLost, Fault, ExtTypeOK
    <3>2. zone' \in [Records -> {"absent", "up", "gone"}]
      BY <1>1, <1>7 DEF PublishLost, NewRecord, ExtTypeOK
    <3>3. orphaned' \in SUBSET (Droplets \cup Records)
      BY <1>1, <1>7 DEF PublishLost, ExtTypeOK
    <3> QED
      BY <1>1, <1>7, <3>1, <3>2, <3>3 DEF ExtTypeOK
  <2> QED
    BY <1>2, <2>1, <2>2
<1>8. snap[w].status \in Statuses
  BY <1>1, WorkersOf, RowUpdate
<1>9. "failed" \in Statuses /\ "terminated" \in Statuses
        /\ PolledStatus(w, "initializing") \subseteq Statuses
  BY PolledStatusType DEF Statuses, TerminalStatuses
<1> QED
  BY <1>4, <1>5, <1>6, <1>7, <1>8, <1>9 DEF Poll, AskProvider

LEMMA DestroyType ==
    ASSUME TypeOK, NEW w \in Workers, Destroy(w)
    PROVE  WorkerTypeOK' /\ RowTypeOK' /\ ExtTypeOK' /\ RestTypeOK'
<1>1. WorkerTypeOK /\ RowTypeOK /\ ExtTypeOK /\ RestTypeOK
  BY TypeParts
<1>2. RowTypeOK' /\ RestTypeOK'
  BY <1>1 DEF Destroy, OnlyExternal, rowVars, RowTypeOK, RestTypeOK
<1>3. WorkerTypeOK'
  <2>1. Goto(w, "untrack") \/ Goto(w, "retry")
    BY DEF Destroy, AfterDestroyError
  <2> QED
    BY <1>1, <2>1, GotoType DEF Steps
<1>4. ExtTypeOK'
  <2>1. faults' \in 0..MaxFaults /\ orphaned' = orphaned
    BY <1>1, LifecycleAssumption DEF Destroy, Fault, ExtTypeOK
  <2>2. cloud' \in [Droplets -> {"absent", "up", "gone"}]
    BY <1>1 DEF Destroy, DeleteDroplets, ExtTypeOK
  <2>3. zone' \in [Records -> {"absent", "up", "gone"}]
    BY <1>1 DEF Destroy, DeleteRecords, ExtTypeOK
  <2> QED
    BY <1>1, <2>1, <2>2, <2>3 DEF ExtTypeOK
<1> QED
  BY <1>2, <1>3, <1>4

LEMMA RowStepType ==
    ASSUME TypeOK, NEW w \in Workers,
           Record(w) \/ Apply(w) \/ ExpireSession(w) \/ ReadyFlag(w) \/ EndFlag(w) \/ Close(w)
    PROVE  WorkerTypeOK' /\ RowTypeOK' /\ ExtTypeOK' /\ RestTypeOK'
<1>1. WorkerTypeOK /\ RowTypeOK /\ ExtTypeOK /\ RestTypeOK /\ dep \in Rows
  BY TypeParts DEF RowTypeOK
<1>2. ExtTypeOK' /\ RestTypeOK'
  BY <1>1 DEF Record, Apply, ExpireSession, ReadyFlag, EndFlag, Close, OnlyRow, extVars,
              ExtTypeOK, RestTypeOK
<1>3. dep' \in Rows
  <2>1. CASE Record(w)
    <3>1. ans[w].inst \in Droplets \cup {None}
      BY <1>1, WorkersOf DEF Answers
    <3>2. CASE ~InSession
      BY <1>1, <2>1, <3>2 DEF Record, rowVars
    <3>3. CASE InSession
      <4>1. dep' = [ApplyProviderData(dep, ans[w]) EXCEPT !.status = "initializing"]
        BY <2>1, <3>3 DEF Record
      <4>2. ApplyProviderData(dep, ans[w]) \in Rows
        BY <1>1, <3>1 DEF ApplyProviderData, Rows
      <4> QED
        BY <4>1, <4>2, RowUpdate, StatusSets
    <3> QED
      BY <3>2, <3>3
  <2>2. CASE Apply(w)
    <3>1. ans[w].status \in Statuses /\ ans[w].rec \in Records \cup {None}
            /\ ans[w].timing \in BOOLEAN
      BY <1>1, WorkersOf DEF Answers
    <3>2. ApplyProviderPatch(dep, ans[w]) \in Rows
      BY <1>1, <3>1 DEF ApplyProviderPatch, Rows
    <3> QED
      BY <2>2, <3>1, <3>2, RowUpdate DEF Apply
  <2>3. CASE ExpireSession(w)
    BY <1>1, <2>3, StatusSets DEF ExpireSession, Rows
  <2>4. CASE ReadyFlag(w) \/ EndFlag(w)
    BY <1>1, <2>4, RowUpdate DEF ReadyFlag, EndFlag
  <2>5. CASE Close(w)
    BY <1>1, <2>5, RowUpdate, StatusSets DEF Close
  <2> QED
    BY <2>1, <2>2, <2>3, <2>4, <2>5
<1>4. RowTypeOK'
  BY <1>1, <1>3 DEF Record, Apply, ExpireSession, ReadyFlag, EndFlag, Close, rowVars, RowTypeOK
<1>5. WorkerTypeOK'
  <2>1. CASE \E step \in Steps : Goto(w, step)
    BY <1>1, <2>1, GotoType
  <2>2. CASE \E step \in Steps : GotoWithRow(w, step)
    BY <1>1, <1>3, <2>2, GotoWithRowType
  <2> QED
    BY <2>1, <2>2, AfterApplyType
       DEF Record, Apply, ExpireSession, ReadyFlag, EndFlag, Close, Steps
<1> QED
  BY <1>2, <1>4, <1>5

LEMMA PlainStepType ==
    ASSUME TypeOK, NEW w \in Workers,
           \/ Track(w) \/ Untrack(w) \/ ReadySend(w) \/ EndSend(w) \/ Successor(w)
           \/ Enqueue(w) \/ HandlerRaises(w)
    PROVE  WorkerTypeOK' /\ RowTypeOK' /\ ExtTypeOK' /\ RestTypeOK'
<1>1. WorkerTypeOK /\ RowTypeOK /\ ExtTypeOK /\ RestTypeOK
  BY TypeParts
<1>2. RowTypeOK' /\ ExtTypeOK'
  BY <1>1 DEF Track, Untrack, ReadySend, EndSend, Successor, Enqueue, HandlerRaises, rowVars,
              extVars,
              RowTypeOK, ExtTypeOK
<1>3. WorkerTypeOK'
  <2>1. CASE \E step \in Steps : Goto(w, step)
    BY <1>1, <2>1, GotoType
  <2>2. CASE UNCHANGED workerVars
    BY <1>1, <2>2 DEF workerVars, WorkerTypeOK
  <2> QED
    BY <2>1, <2>2 DEF Track, Untrack, ReadySend, EndSend, Successor, Enqueue, HandlerRaises, Steps
<1>4. RestTypeOK'
  BY <1>1 DEF Track, Untrack, ReadySend, EndSend, Successor, Enqueue, HandlerRaises, Upsert,
              MarkDeleted, RestTypeOK
<1> QED
  BY <1>2, <1>3, <1>4

LEMMA EndOfJobType ==
    ASSUME TypeOK, NEW w \in Workers, Finish(w) \/ Retry(w) \/ WorkerDies(w)
    PROVE  WorkerTypeOK' /\ RowTypeOK' /\ ExtTypeOK' /\ RestTypeOK'
<1>1. WorkerTypeOK /\ RowTypeOK /\ ExtTypeOK /\ RestTypeOK /\ dep \in Rows
  BY TypeParts DEF RowTypeOK
<1>2. WorkerTypeOK'
  BY <1>1, ForgetType DEF Finish, Retry, WorkerDies
<1>3. dep' \in Rows
  <2>1. CASE Retry(w)
    <3>1. dep' = dep \/ dep' = [dep EXCEPT !.status = "failed"] \/ dep' = [dep EXCEPT !.status = @]
      BY <2>1 DEF Retry
    <3> QED
      BY <1>1, <3>1, RowUpdate, StatusSets
  <2>2. CASE Finish(w) \/ WorkerDies(w)
    BY <1>1, <2>2 DEF Finish, WorkerDies, rowVars
  <2> QED
    BY <2>1, <2>2
<1>4. RowTypeOK'
  BY <1>1, <1>3 DEF Finish, Retry, WorkerDies, rowVars, RowTypeOK
<1>5. ExtTypeOK' /\ RestTypeOK'
  BY <1>1 DEF Finish, Retry, WorkerDies, extVars, ExtTypeOK, RestTypeOK
<1> QED
  BY <1>2, <1>4, <1>5

LEMMA ReconcileType ==
    ASSUME TypeOK, NEW w \in Workers, Reconcile(w)
    PROVE  WorkerTypeOK' /\ RowTypeOK' /\ ExtTypeOK' /\ RestTypeOK'
<1>1. WorkerTypeOK /\ RowTypeOK /\ ExtTypeOK /\ RestTypeOK
  BY TypeParts
<1>2. RowTypeOK' /\ ExtTypeOK' /\ RestTypeOK'
  BY <1>1 DEF Reconcile, ReconcileRead, ReconcileLedger, ReconcileEnqueue, OnlyWorker,
              rowVars, extVars, RowTypeOK, ExtTypeOK, RestTypeOK
<1>3. todo' \in [Workers -> SUBSET (Kinds \cup {"ledger"})]
  <2>1. CASE \E old \in Ages : ReconcileRead(w, old)
    <3>1. \A old \in Ages : ReconcilePlan(old) \subseteq Kinds \cup {"ledger"}
      BY LifecycleAssumption DEF ReconcilePlan, RecoverKind, JobKinds
    <3> QED
      BY <1>1, <2>1, <3>1 DEF ReconcileRead, WorkerTypeOK
  <2>2. CASE ReconcileLedger(w)
    <3>1. "cleanup" \in Kinds
      BY LifecycleAssumption DEF JobKinds
    <3> QED
      BY <1>1, <2>2, <3>1 DEF ReconcileLedger, WorkerTypeOK
  <2>3. CASE ReconcileEnqueue(w)
    BY <1>1, <2>3 DEF ReconcileEnqueue, workerVars, WorkerTypeOK
  <2> QED
    BY <2>1, <2>2, <2>3 DEF Reconcile
<1>4. pc' \in [Workers -> Steps] /\ UNCHANGED <<cur, snap, ans>>
  BY <1>1 DEF Reconcile, ReconcileRead, ReconcileLedger, ReconcileEnqueue, workerVars,
              WorkerTypeOK, Steps
<1> QED
  BY <1>1, <1>2, <1>3, <1>4 DEF WorkerTypeOK

LEMMA ApiType ==
    ASSUME TypeOK,
           \/ \E h \in Handlers : ApiReads(h) \/ ApiCommits(h) \/ ApiEnqueues(h)
           \/ ApiDies
    PROVE  WorkerTypeOK' /\ RowTypeOK' /\ ExtTypeOK' /\ RestTypeOK'
<1>1. WorkerTypeOK /\ RowTypeOK /\ ExtTypeOK /\ RestTypeOK /\ dep \in Rows
  BY TypeParts DEF RowTypeOK
<1>2. WorkerTypeOK' /\ ExtTypeOK'
  BY <1>1 DEF ApiReads, ApiCommits, ApiEnqueues, ApiDies, ApiOnly, workerVars, extVars,
              WorkerTypeOK, ExtTypeOK
<1>3. RowTypeOK'
  <2>1. CASE \E h \in Handlers : ApiReads(h)
    BY <1>1, <2>1 DEF ApiReads, GetFinds, GetReads, LoopReads, DeleteReads, ApiOnly, RowTypeOK
  <2>2. CASE \E h \in Handlers : ApiCommits(h)
    <3>1. dep' \in Rows
      BY <1>1, <2>2, RowUpdate, StatusSets DEF ApiCommits
    <3> QED
      BY <1>1, <2>2, <3>1 DEF ApiCommits, RowTypeOK
  <2>3. CASE ApiDies \/ \E h \in Handlers : ApiEnqueues(h)
    BY <1>1, <2>3 DEF ApiDies, ApiEnqueues, rowVars, RowTypeOK
  <2> QED
    BY <2>1, <2>2, <2>3
<1>4. api' \in [Handlers -> {"idle", "seen", "write", "enqueue"}]
  BY <1>1 DEF ApiReads, GetFinds, GetReads, LoopReads, DeleteReads, ApiCommits, ApiEnqueues,
              ApiDies, ApiGoto, RestTypeOK
<1>5. UNCHANGED <<ledger, sent>>
  BY DEF ApiReads, ApiCommits, ApiEnqueues, ApiDies, ApiOnly
<1> QED
  BY <1>1, <1>2, <1>3, <1>4, <1>5 DEF RestTypeOK

-----------------------------------------------------------------------------
(* Types of the whole *)

LEMMA TypeInit == Init => TypeOK
<1> SUFFICES ASSUME Init
             PROVE  TypeOK
  OBVIOUS
<1> USE QueueAssumption, LifecycleAssumption
<1>1. QueueTypeOK
  <2>1. "provision" \in Kinds
    BY DEF JobKinds
  <2>2. [status |-> "queued", kind |-> "provision", attempts |-> 0] \in JobRows /\ NoJob \in JobRows
    BY <2>1 DEF JobRows, NoJob, JobStatuses
  <2> QED
    BY <2>2 DEF Init, QueueTypeOK
<1>2. WorkerTypeOK
  BY NewRowType, NoAnswerType DEF Init, WorkerTypeOK, Steps
<1>3. RowTypeOK
  BY NewRowType DEF Init, RowTypeOK
<1>4. ExtTypeOK /\ RestTypeOK
  BY DEF Init, ExtTypeOK, RestTypeOK
<1> QED
  BY <1>1, <1>2, <1>3, <1>4, TypeParts

LEMMA TypeStep ==
    ASSUME TypeOK, Next
    PROVE  TypeOK'
<1>1. QueueTypeOK'
  BY NextQueue, QueueTypeStep DEF TypeOK, queueVars, QueueTypeOK
<1>2. WorkerTypeOK' /\ RowTypeOK' /\ ExtTypeOK' /\ RestTypeOK'
  <2>1. CASE \E w \in Workers : JobStep(w)
    BY <2>1, BeginType, CreateType, PollType, DestroyType, RowStepType, PlainStepType,
       EndOfJobType DEF JobStep
  <2>2. CASE \E w \in Workers : ClaimJobs(w)
    BY <2>2, TypeParts DEF ClaimJobs, rowVars, extVars, workerVars,
       WorkerTypeOK, RowTypeOK, ExtTypeOK, RestTypeOK
  <2>3. CASE \E w \in Workers : Reconcile(w)
    BY <2>3, ReconcileType
  <2>4. CASE \E w \in Workers : WorkerDies(w) \/ HandlerRaises(w)
    BY <2>4, EndOfJobType, PlainStepType
  <2>5. CASE \/ \E h \in Handlers : ApiReads(h) \/ ApiCommits(h) \/ ApiEnqueues(h)
             \/ ApiDies
    BY <2>5, ApiType
  <2>6. CASE Expire
    BY <2>6, TypeParts DEF Expire, extVars, workerVars,
       WorkerTypeOK, RowTypeOK, ExtTypeOK, RestTypeOK
  <2>7. CASE Vanish
    <3>1. faults' \in 0..MaxFaults
      BY <2>7, TypeParts, LifecycleAssumption DEF Vanish, Fault, ExtTypeOK
    <3> QED
      BY <2>7, <3>1, TypeParts DEF Vanish, OnlyExternal, rowVars, workerVars,
         WorkerTypeOK, RowTypeOK, ExtTypeOK, RestTypeOK
  <2> QED
    BY <2>1, <2>2, <2>3, <2>4, <2>5, <2>6, <2>7 DEF Next
<1>3. TypeOK' <=> QueueTypeOK' /\ WorkerTypeOK' /\ RowTypeOK' /\ ExtTypeOK' /\ RestTypeOK'
  BY DEF TypeOK, WorkerTypeOK, RowTypeOK, ExtTypeOK, RestTypeOK
<1> QED
  BY <1>1, <1>2, <1>3

LEMMA TypeStutter ==
    ASSUME TypeOK, UNCHANGED vars
    PROVE  TypeOK'
BY DEF TypeOK, vars, queueVars, rowVars, extVars, workerVars, QueueTypeOK

\* The variables keep their types.
THEOREM TypeCorrect == Spec => []TypeOK
<1>1. TypeOK /\ [Next]_vars => TypeOK'
  BY TypeStep, TypeStutter
<1> QED
  BY <1>1, TypeInit, PTL DEF Spec

\* Every step of Lifecycle, as far as it concerns the job table, is one that JobQueue allows.
THEOREM UsesTheQueue == Spec => [][QueueNext]_queueVars
<1>1. TypeOK /\ [Next]_vars => [QueueNext]_queueVars
  BY NextQueue DEF vars
<1> QED
  BY <1>1, TypeCorrect, PTL DEF Spec

\* The queue's invariant holds of the whole system.
LEMMA LifecycleQueueInv == Spec => []QueueInv
<1>1. Init => QueueInv
  BY QueueAssumption DEF Init, QueueInv, OneHolder, AttemptsPaid, Held, NoJob
<1>2. QueueInv /\ TypeOK /\ [QueueNext]_queueVars => QueueInv'
  <2>1. CASE UNCHANGED queueVars
    BY <2>1 DEF queueVars, QueueInv, OneHolder, AttemptsPaid, Held
  <2> QED
    BY <2>1, QueueInvStep DEF TypeOK
<1> QED
  BY <1>1, <1>2, TypeCorrect, UsesTheQueue, PTL DEF Spec

\* With leases that outlast batches no two workers run the same job of a deployment,
\* whatever the handlers, the reconciliation and the API enqueue.
THEOREM LifecycleExclusive == Spec => []Exclusive
<1>1. TypeOK => QueueTypeOK
  BY DEF TypeOK
<1> QED
  BY <1>1, LifecycleQueueInv, TypeCorrect, InvImpliesExclusive, PTL

\* The jobs of a deployment are tried at most max_attempts times, and once more for each crash.
THEOREM LifecycleAttemptsBounded == Spec => []AttemptsBounded
<1>1. TypeOK => QueueTypeOK
  BY DEF TypeOK
<1> QED
  BY <1>1, LifecycleQueueInv, TypeCorrect, InvImpliesAttemptsBounded, PTL
=============================================================================
