-------------------------- MODULE Settlement_proofs --------------------------
(***************************************************************************)
(* What a deployment leaves behind: theorems of Lifecycle about its end.   *)
(* That the ledger is truthful and watches over what still runs is proved  *)
(* for any number of workers; the other theorems assume OneWorker, without *)
(* which they are false.                                                   *)
(***************************************************************************)
EXTENDS Lifecycle_proofs, FiniteSetTheorems

-----------------------------------------------------------------------------
(* What the ways of moving through a job do to the worker that moves, and    *)
(* that they leave the others alone                                         *)

Rests(v) == pc'[v] = pc[v] /\ snap'[v] = snap[v] /\ ans'[v] = ans[v]

OthersRest(w) == \A v \in Workers : v # w => Rests(v)

LEMMA GotoEffect ==
    ASSUME WorkerTypeOK, NEW w \in Workers, NEW step, Goto(w, step)
    PROVE  /\ pc'[w] = step
           /\ snap'[w] = IF step \in DataDone THEN NewRow ELSE snap[w]
           /\ ans'[w] = IF step \in DataDone THEN NoAnswer ELSE ans[w]
           /\ OthersRest(w)
BY DEF WorkerTypeOK, Goto, OthersRest, Rests

LEMMA AnsweredEffect ==
    ASSUME WorkerTypeOK, NEW w \in Workers, NEW step, NEW a, Answered(w, step, a)
    PROVE  pc'[w] = step /\ snap'[w] = snap[w] /\ ans'[w] = a /\ OthersRest(w)
BY DEF WorkerTypeOK, Answered, OthersRest, Rests

LEMMA GotoWithRowEffect ==
    ASSUME WorkerTypeOK, NEW w \in Workers, NEW step, GotoWithRow(w, step)
    PROVE  /\ pc'[w] = step
           /\ snap'[w] = IF step \in DataDone THEN NewRow ELSE dep'
           /\ ans'[w] = NoAnswer
           /\ OthersRest(w)
BY DEF WorkerTypeOK, GotoWithRow, OthersRest, Rests

LEMMA ForgetEffect ==
    ASSUME WorkerTypeOK, NEW w \in Workers, Forget(w)
    PROVE  pc'[w] = "idle" /\ snap'[w] = NewRow /\ ans'[w] = NoAnswer /\ OthersRest(w)
BY DEF WorkerTypeOK, Forget, OthersRest, Rests

LEMMA TakeEffect ==
    ASSUME WorkerTypeOK, NEW w \in Workers, NEW j, NEW step, Take(w, j, step)
    PROVE  /\ pc[w] = "idle" /\ pc'[w] = step
           /\ snap'[w] = IF step \in DataDone THEN NewRow ELSE dep
           /\ ans'[w] = ans[w]
           /\ OthersRest(w)
BY DEF WorkerTypeOK, Take, OthersRest, Rests, At

-----------------------------------------------------------------------------
(* What is gone stays gone, and what the provider gave out does not become   *)
(* absent again.                                                            *)

GoneStays ==
    /\ \A d \in Droplets : /\ cloud[d] = "gone" => cloud'[d] = "gone"
                           /\ cloud[d] # "absent" => cloud'[d] # "absent"
    /\ \A r \in Records : zone[r] = "gone" => zone'[r] = "gone"

\* The provider's side of every action
Frozen == UNCHANGED <<cloud, zone>>

LEMMA FrozenStays == ASSUME Frozen PROVE GoneStays
BY DEF Frozen, GoneStays

LEMMA CreateStays ==
    ASSUME ExtTypeOK, NEW w \in Workers, Create(w)
    PROVE  GoneStays
<1>1. zone' = zone
  BY DEF Create
<1>2. cloud' = cloud \/ \E d \in Droplets : NewDroplet(d)
  BY DEF Create
<1> QED
  BY <1>1, <1>2 DEF GoneStays, NewDroplet, ExtTypeOK

LEMMA PublishStays ==
    ASSUME ExtTypeOK, NEW w \in Workers, NEW rec \in Records \cup {None}, Publish(w, rec),
           cloud' = cloud
    PROVE  GoneStays
<1>1. zone' = zone \/ \E r \in Records : NewRecord(r)
  BY DEF Publish, PublishLost
<1> QED
  BY <1>1 DEF GoneStays, NewRecord, ExtTypeOK

LEMMA PollStays ==
    ASSUME ExtTypeOK, NEW w \in Workers, Poll(w)
    PROVE  GoneStays
<1>1. CASE Frozen
  BY <1>1, FrozenStays
<1>2. CASE cloud' = cloud /\ \E rec \in Records \cup {None} : Publish(w, rec)
  BY <1>2, PublishStays
<1>3. CASE cloud' = cloud /\ PublishLost
  BY <1>3 DEF PublishLost, GoneStays, NewRecord, ExtTypeOK
<1> QED
  BY <1>1, <1>2, <1>3 DEF Poll, AskProvider, Frozen, extVars

LEMMA DestroyStays ==
    ASSUME ExtTypeOK, NEW w \in Workers, Destroy(w)
    PROVE  GoneStays
<1>2. \E x : DeleteDroplets(x)
  BY DEF Destroy
<1>3. \E x : DeleteRecords(x)
  BY DEF Destroy
<1> QED
  BY <1>2, <1>3 DEF GoneStays, DeleteDroplets, DeleteRecords, ExtTypeOK

LEMMA NextStays ==
    ASSUME TypeOK, Next
    PROVE  GoneStays
<1>0. ExtTypeOK
  BY TypeParts
<1>1. CASE \E w \in Workers : Create(w) \/ Poll(w) \/ Destroy(w)
  BY <1>0, <1>1, CreateStays, PollStays, DestroyStays
<1>2. CASE Vanish
  BY <1>0, <1>2 DEF Vanish, GoneStays, ExtTypeOK
<1>3. CASE \E w \in Workers :
             Begin(w) \/ Record(w) \/ Track(w) \/ Apply(w) \/ Successor(w) \/ ExpireSession(w)
             \/ ReadyFlag(w) \/ ReadySend(w) \/ EndFlag(w) \/ EndSend(w) \/ Untrack(w) \/ Close(w)
             \/ Enqueue(w) \/ Finish(w) \/ Retry(w)
  <2>1. Frozen
    <3>1. CASE \E w \in Workers : Begin(w)
      BY <3>1 DEF Begin, BeginProvision, BeginRefresh, BeginDestroy, Take, OnlyWorker, Frozen,
                  extVars
    <3> QED
      BY <1>3, <3>1
         DEF Record, Track, Apply, Successor, ExpireSession, ReadyFlag, ReadySend, EndFlag, EndSend,
             Untrack, Close, Enqueue, Finish, Retry, OnlyRow, Frozen, extVars
  <2> QED
    BY <2>1, FrozenStays
<1>4. CASE \E w \in Workers : ClaimJobs(w) \/ Reconcile(w) \/ WorkerDies(w) \/ HandlerRaises(w)
  <2>1. Frozen
    BY <1>4 DEF ClaimJobs, Reconcile, ReconcileRead, ReconcileLedger, ReconcileEnqueue, OnlyWorker,
                WorkerDies, HandlerRaises, Frozen, extVars
  <2> QED
    BY <2>1, FrozenStays
<1>5. CASE \/ \E h \in Handlers : ApiReads(h) \/ ApiCommits(h) \/ ApiEnqueues(h)
           \/ ApiDies \/ Expire
  <2>1. Frozen
    BY <1>5 DEF ApiReads, ApiCommits, ApiEnqueues, ApiDies, Expire, ApiOnly, Frozen, extVars
  <2> QED
    BY <2>1, FrozenStays
<1> QED
  BY <1>1, <1>2, <1>3, <1>4, <1>5 DEF Next, JobStep

-----------------------------------------------------------------------------
(* The ledger *)

LedgerInv == UntrackSafe /\ LedgerTruthful

\* A worker gets to "untrack" by a destroy that succeeded, and keeps its copy there.
UntrackKept(v) ==
    At(v, "untrack")' => (At(v, "untrack") /\ snap'[v] = snap[v]) \/ GoneIn(cloud, snap[v].inst)'

LEMMA DestroyUntracks ==
    ASSUME TypeOK, NEW w \in Workers, Destroy(w)
    PROVE  \A v \in Workers : UntrackKept(v)
<1>1. WorkerTypeOK /\ snap[w] \in Rows /\ cloud \in [Droplets -> {"absent", "up", "gone"}]
  BY TypeParts, WorkersOf DEF ExtTypeOK
<1>2. CASE Goto(w, "untrack") /\ DeleteDroplets(Named(w, snap[w].inst))
  <2>1. snap'[w] = snap[w] /\ OthersRest(w)
    BY <1>1, <1>2, GotoEffect DEF DataDone
  <2>2. GoneIn(cloud', snap[w].inst)
    BY <1>1, <1>2 DEF DeleteDroplets, Named, NeedsDestroy, GoneIn, Rows
  <2> QED
    BY <2>1, <2>2 DEF UntrackKept, GoneIn, OthersRest, Rests, At
<1>3. CASE Goto(w, "retry")
  BY <1>1, <1>3, GotoEffect DEF UntrackKept, OthersRest, Rests, At
<1> QED
  BY <1>2, <1>3 DEF Destroy, AfterDestroyError

\* The steps that lead to none but other places.
Elsewhere == Steps \ {"untrack"}

LEMMA OthersUntrack ==
    ASSUME TypeOK, NEW w \in Workers, JobStep(w), ~Destroy(w)
    PROVE  \A v \in Workers : UntrackKept(v)
<1>1. WorkerTypeOK
  BY TypeParts
<1>2. CASE \E step \in Elsewhere : Goto(w, step) \/ GotoWithRow(w, step)
                                   \/ (\E j \in JobIds : Take(w, j, step))
                                   \/ (\E a : Answered(w, step, a))
  <2>1. OthersRest(w) /\ pc'[w] \in Elsewhere
    BY <1>1, <1>2, GotoEffect, GotoWithRowEffect, TakeEffect, AnsweredEffect
  <2> QED
    BY <2>1 DEF UntrackKept, OthersRest, Rests, At, Elsewhere
<1>3. CASE Forget(w)
  BY <1>1, <1>3, ForgetEffect DEF UntrackKept, OthersRest, Rests, At
<1>4. CASE UNCHANGED workerVars
  BY <1>4 DEF UntrackKept, At, workerVars
<1>5. \A row : FailedStep(row) \in Elsewhere /\ AfterApply(row) \in Elsewhere
  BY DEF FailedStep, AfterApply, Elsewhere, Steps
<1>6. CASE Begin(w)
  BY <1>2, <1>5, <1>6 DEF Begin, BeginProvision, BeginRefresh, BeginDestroy, Elsewhere, Steps
<1>7. CASE Create(w) \/ Poll(w)
  BY <1>2, <1>7 DEF Create, Poll, AskProvider, Elsewhere, Steps
<1>8. CASE Record(w) \/ Track(w) \/ Apply(w) \/ Successor(w) \/ ExpireSession(w) \/ ReadyFlag(w)
           \/ ReadySend(w) \/ EndFlag(w) \/ EndSend(w) \/ Untrack(w) \/ Close(w)
  BY <1>2, <1>5, <1>8 DEF Record, Track, Apply, Successor, ExpireSession, ReadyFlag, ReadySend,
                          EndFlag, EndSend, Untrack, Close, Elsewhere, Steps
<1>9. CASE Enqueue(w) \/ Finish(w) \/ Retry(w)
  BY <1>2, <1>3, <1>4, <1>9 DEF Enqueue, Finish, Retry, Elsewhere, Steps
<1> QED
  BY <1>6, <1>7, <1>8, <1>9 DEF JobStep

LEMMA NextUntrack ==
    ASSUME TypeOK, Next
    PROVE  \A v \in Workers : UntrackKept(v)
<1>0. WorkerTypeOK
  BY TypeParts
<1>1. CASE \E w \in Workers : JobStep(w)
  BY <1>1, DestroyUntracks, OthersUntrack
<1>2. CASE \E w \in Workers : Reconcile(w)
  BY <1>0, <1>2 DEF Reconcile, ReconcileRead, ReconcileLedger, ReconcileEnqueue, workerVars,
                    UntrackKept, At, WorkerTypeOK
<1>3. CASE \E w \in Workers : WorkerDies(w)
  BY <1>0, <1>3, ForgetEffect DEF WorkerDies, UntrackKept, OthersRest, Rests, At
<1>4. CASE UNCHANGED workerVars
  BY <1>4 DEF UntrackKept, At, workerVars
<1>5. CASE \E w \in Workers : HandlerRaises(w)
  BY <1>0, <1>5, GotoEffect DEF HandlerRaises, UntrackKept, OthersRest, Rests, At
<1> QED
  BY <1>1, <1>2, <1>3, <1>4, <1>5
     DEF Next, ClaimJobs, ApiReads, ApiCommits, ApiEnqueues, ApiDies, ApiOnly, Expire, Vanish

LEMMA LedgerStep ==
    ASSUME TypeOK, LedgerInv, Next
    PROVE  LedgerInv'
<1>1. ExtTypeOK /\ RestTypeOK /\ WorkerTypeOK /\ \A v \in Workers : snap[v] \in Rows
  BY TypeParts, WorkersOf
<1>2. UntrackSafe'
  <2>1. SUFFICES ASSUME NEW v \in Workers, At(v, "untrack")'
                 PROVE  GoneIn(cloud, snap[v].inst)'
    BY DEF UntrackSafe
  <2>2. CASE At(v, "untrack") /\ snap'[v] = snap[v]
    BY <1>1, <2>2, NextStays DEF LedgerInv, UntrackSafe, GoneIn, GoneStays, Rows
  <2> QED
    BY <2>1, <2>2, NextUntrack DEF UntrackKept
<1>3. LedgerTruthful'
  <2>1. CASE \E w \in Workers : Untrack(w)
    <3>1. \A d \in Droplets :
            ledger'[d] = "deleted" =>
              ledger[d] = "deleted" \/ \E w \in Workers : At(w, "untrack") /\ d = snap[w].inst
      BY <1>1, <2>1 DEF Untrack, MarkDeleted, RestTypeOK
    <3> QED
      BY <3>1, NextStays, LifecycleAssumption
         DEF LedgerInv, LedgerTruthful, UntrackSafe, GoneIn, GoneStays
  <2>2. CASE \E w \in Workers : Track(w)
    <3>1. \A d \in Droplets : ledger'[d] = "deleted" => ledger[d] = "deleted"
      BY <1>1, <2>2 DEF Track, Upsert, RestTypeOK
    <3> QED
      BY <3>1, NextStays DEF LedgerInv, LedgerTruthful, GoneStays
  <2>3. CASE UNCHANGED ledger
    BY <2>3, NextStays DEF LedgerInv, LedgerTruthful, GoneStays
  <2>4. CASE \E w \in Workers : JobStep(w)
    <3>1. CASE \E w \in Workers : Begin(w)
      BY <2>3, <3>1 DEF Begin, BeginProvision, BeginRefresh, BeginDestroy, Take, OnlyWorker
    <3>2. CASE \E w \in Workers : Create(w) \/ Poll(w) \/ Destroy(w)
      BY <2>3, <3>2 DEF Create, Poll, AskProvider, Destroy, OnlyExternal
    <3> QED
      BY <2>1, <2>2, <2>3, <2>4, <3>1, <3>2
         DEF JobStep, Record, Apply, Successor, ExpireSession, ReadyFlag, ReadySend,
             EndFlag, EndSend, Close, Enqueue, Finish, Retry, OnlyRow
  <2> QED
    BY <2>3, <2>4 DEF Next, ClaimJobs, Reconcile, ReconcileRead, ReconcileLedger, ReconcileEnqueue,
       WorkerDies, HandlerRaises, OnlyWorker, ApiReads, ApiCommits, ApiEnqueues, ApiDies, ApiOnly,
       Expire, Vanish, OnlyExternal
<1> QED
  BY <1>2, <1>3 DEF LedgerInv

LEMMA LedgerInvariant == Spec => []LedgerInv
<1>1. Init => LedgerInv
  BY DEF Init, LedgerInv, UntrackSafe, LedgerTruthful, At
<1>2. TypeOK /\ LedgerInv /\ [Next]_vars => LedgerInv'
  <2>1. CASE UNCHANGED vars
    BY <2>1 DEF vars, extVars, workerVars, LedgerInv, UntrackSafe, LedgerTruthful, GoneIn, At
  <2> QED
    BY <2>1, LedgerStep
<1> QED
  BY <1>1, <1>2, TypeCorrect, PTL DEF Spec

\* Whatever the number of workers, and through all retries, crashes and stale reads,
\* provider_resources says "deleted" only of droplets that are gone.
THEOREM LedgerIsTruthful == Spec => []LedgerTruthful
<1>1. LedgerInv => LedgerTruthful
  BY DEF LedgerInv
<1> QED
  BY <1>1, LedgerInvariant, PTL

-----------------------------------------------------------------------------
(* What was recorded is entered, and struck only when it is gone *)

\* A process dies, or a handler raises on its own.
Breaks(w) == WorkerDies(w) \/ HandlerRaises(w)

LEMMA BreaksEffect ==
    ASSUME TypeOK, NEW w \in Workers, Breaks(w)
    PROVE  /\ UNCHANGED <<jobs, overtakes, rowVars, extVars, ledger, api, sent>>
           /\ pc'[w] \in {"idle", "retry"} /\ snap'[w] = NewRow /\ ans'[w] = NoAnswer
           /\ OthersRest(w)
           /\ crashes \in Nat /\ crashes' = crashes + 1
<1>1. WorkerTypeOK /\ crashes \in Nat
  BY TypeParts, QueueAssumption DEF TypeOK, QueueTypeOK
<1> QED
  BY <1>1, ForgetEffect, GotoEffect
     DEF Breaks, WorkerDies, CrashWorker, HandlerRaises, Raise, Lapse, DataDone

LEMMA CrashesCount ==
    ASSUME TypeOK, Next
    PROVE  /\ crashes \in Nat /\ crashes' \in Nat /\ crashes <= crashes'
           /\ (\E w \in Workers : Breaks(w)) => crashes' = crashes + 1
<1>1. crashes \in Nat
  BY QueueAssumption DEF TypeOK, QueueTypeOK
<1>2. QueueNext \/ UNCHANGED queueVars
  BY NextQueue
<1>3. crashes' \in {crashes, crashes + 1}
  BY <1>2 DEF QueueNext, queueVars, EnqueueInsert, EnqueueCheck, EnqueueAlways, WorkerNext, Claim,
     ClaimBatch, MarkDone, FailJob, Reschedule, Release, CrashWorker, Raise, CrashApi, Lapse
<1> QED
  BY <1>1, <1>3, BreaksEffect

\* Whoever is about to enter a droplet stays there until it did.
TrackersStay ==
    \A v \in Workers : At(v, "track") => At(v, "track")' /\ Tracked(v)' = Tracked(v)

LEMMA JobTrackers ==
    ASSUME TypeOK, NEW w \in Workers, JobStep(w), ~Track(w)
    PROVE  TrackersStay
<1>1. WorkerTypeOK
  BY TypeParts
<1>2. ASSUME OthersRest(w), ~At(w, "track")
      PROVE  TrackersStay
  BY <1>2 DEF TrackersStay, OthersRest, Rests, At, Tracked
<1>3. CASE UNCHANGED workerVars
  BY <1>3 DEF TrackersStay, At, Tracked, workerVars
<1>4. CASE Begin(w)
  BY <1>1, <1>2, <1>4, TakeEffect DEF Begin, BeginProvision, BeginRefresh, BeginDestroy, At
<1>5. CASE Create(w) \/ Poll(w) \/ Record(w) \/ Apply(w) \/ Close(w)
  <2>1. ~At(w, "track")
    BY <1>5 DEF Create, Poll, AskProvider, Record, Apply, Close, At
  <2>2. \E step : Goto(w, step) \/ GotoWithRow(w, step) \/ \E a : Answered(w, step, a)
    BY <1>5 DEF Create, Poll, AskProvider, Record, Apply, Close
  <2>3. OthersRest(w)
    BY <1>1, <2>2, GotoEffect, AnsweredEffect, GotoWithRowEffect
  <2> QED
    BY <1>2, <2>1, <2>3
<1>6. CASE Successor(w) \/ ExpireSession(w) \/ ReadyFlag(w) \/ ReadySend(w) \/ EndFlag(w)
           \/ EndSend(w) \/ Destroy(w) \/ Untrack(w) \/ Enqueue(w)
  <2>1. ~At(w, "track")
    BY <1>6 DEF Successor, ExpireSession, ReadyFlag, ReadySend, EndFlag, EndSend, Destroy, Untrack,
                Enqueue, At
  <2>2. UNCHANGED workerVars \/ \E step : Goto(w, step)
    BY <1>6 DEF Successor, ExpireSession, ReadyFlag, ReadySend, EndFlag, EndSend, Destroy, Untrack,
                Enqueue
  <2> QED
    BY <1>1, <1>2, <1>3, <2>1, <2>2, GotoEffect
<1>7. CASE Finish(w) \/ Retry(w)
  BY <1>1, <1>2, <1>7, ForgetEffect DEF Finish, Retry, At
<1> QED
  BY <1>4, <1>5, <1>6, <1>7 DEF JobStep

LEMMA NextTrackers ==
    ASSUME TypeOK, Next, \A w \in Workers : ~Track(w) /\ ~Breaks(w)
    PROVE  TrackersStay
<1>1. CASE \E w \in Workers : JobStep(w)
  BY <1>1, JobTrackers
<1>2. CASE \E w \in Workers : Reconcile(w)
  BY <1>2, TypeParts DEF Reconcile, ReconcileRead, ReconcileLedger, ReconcileEnqueue, workerVars,
                         TrackersStay, Tracked, At, WorkerTypeOK
<1>3. CASE UNCHANGED workerVars
  BY <1>3 DEF TrackersStay, At, Tracked, workerVars
<1> QED
  BY <1>1, <1>2, <1>3
     DEF Next, Breaks, ClaimJobs, ApiReads, ApiCommits, ApiEnqueues, ApiDies, ApiOnly, Expire,
         Vanish

\* Only process_provision writes the droplet's id.
LEMMA OnlyRecordNames ==
    ASSUME TypeOK, Next, \A w \in Workers : ~Record(w)
    PROVE  dep'.inst = dep.inst
<1>1. dep \in Rows
  BY TypeParts DEF RowTypeOK
<1>2. ASSUME NEW r, r \in Rows, NEW s
      PROVE  [r EXCEPT !.status = s].inst = r.inst
  BY <1>2 DEF Rows
<1>3. CASE UNCHANGED dep
  BY <1>3
<1>4. CASE \E w \in Workers : Begin(w)
  BY <1>3, <1>4 DEF Begin, BeginProvision, BeginRefresh, BeginDestroy, Take, OnlyWorker, rowVars
<1>5. CASE \E w \in Workers : Apply(w) \/ ExpireSession(w) \/ ReadyFlag(w) \/ EndFlag(w)
                              \/ Close(w) \/ Retry(w)
  BY <1>1, <1>5 DEF Apply, ApplyProviderPatch, ExpireSession, ReadyFlag, EndFlag, Close, Retry, Rows
<1>6. CASE \E w \in Workers :
             Create(w) \/ Track(w) \/ Poll(w) \/ Successor(w) \/ ReadySend(w) \/ EndSend(w)
             \/ Destroy(w) \/ Untrack(w) \/ Enqueue(w) \/ Finish(w)
  BY <1>3, <1>6 DEF Create, Track, Poll, AskProvider, Successor, ReadySend, EndSend, Destroy,
                    Untrack, Enqueue, Finish, OnlyExternal, rowVars
<1>7. CASE \E w \in Workers : ClaimJobs(w) \/ Reconcile(w) \/ WorkerDies(w) \/ HandlerRaises(w)
  BY <1>3, <1>7 DEF ClaimJobs, Reconcile, ReconcileRead, ReconcileLedger, ReconcileEnqueue,
                    WorkerDies, HandlerRaises, OnlyWorker, rowVars
<1>8. CASE \/ \E h \in Handlers : ApiReads(h) \/ ApiCommits(h) \/ ApiEnqueues(h)
           \/ ApiDies \/ Expire \/ Vanish
  BY <1>1, <1>2, <1>3, <1>8 DEF ApiReads, ApiCommits, ApiEnqueues, ApiDies, ApiOnly, Expire, Vanish,
                          OnlyExternal, rowVars
<1> QED
  BY <1>4, <1>5, <1>6, <1>7, <1>8 DEF Next, JobStep

\* A row of the ledger is struck by the worker who deleted its droplet.
Strikes(w, d) == Untrack(w) /\ snap[w].inst = d

LEMMA LiveStays ==
    ASSUME TypeOK, Next, NEW d \in Droplets, ledger[d] = "live",
           \A w \in Workers : ~Strikes(w, d)
    PROVE  ledger'[d] = "live"
<1>1. RestTypeOK
  BY TypeParts
<1>2. CASE \E w \in Workers : Untrack(w) \/ Track(w)
  BY <1>1, <1>2 DEF Untrack, MarkDeleted, Track, Upsert, RestTypeOK, Strikes
<1>3. CASE UNCHANGED ledger
  BY <1>3
<1>4. CASE \E w \in Workers : JobStep(w)
  <2>1. CASE \E w \in Workers : Begin(w)
    BY <1>3, <2>1 DEF Begin, BeginProvision, BeginRefresh, BeginDestroy, Take, OnlyWorker
  <2>2. CASE \E w \in Workers : Create(w) \/ Poll(w) \/ Destroy(w)
    BY <1>3, <2>2 DEF Create, Poll, AskProvider, Destroy, OnlyExternal
  <2> QED
    BY <1>2, <1>3, <1>4, <2>1, <2>2
       DEF JobStep, Record, Apply, Successor, ExpireSession, ReadyFlag, ReadySend,
           EndFlag, EndSend, Close, Enqueue, Finish, Retry, OnlyRow
<1> QED
  BY <1>3, <1>4 DEF Next, ClaimJobs, Reconcile, ReconcileRead, ReconcileLedger, ReconcileEnqueue,
     WorkerDies, HandlerRaises, OnlyWorker, ApiReads, ApiCommits, ApiEnqueues, ApiDies, ApiOnly,
     Expire, Vanish, OnlyExternal

LEMMA EnteringStays ==
    ASSUME TypeOK, Next, NEW d \in Droplets, NEW v \in Workers, Entering(v, d)
    PROVE  Watched(d)' \/ crashes' # crashes
<1>1. CASE \E w \in Workers : Track(w)
  <2>1. PICK w \in Workers : Track(w)
    BY <1>1
  <2>2. OthersRest(w)
    BY <2>1, TypeParts, GotoEffect DEF Track
  <2>3. v = w => ledger'[d] = "live"
    BY <2>1, TypeParts DEF Track, Upsert, RestTypeOK, Entering
  <2>4. v # w => Entering(v, d)'
    BY <2>2 DEF OthersRest, Rests, At, Tracked, Entering
  <2> QED
    BY <2>3, <2>4 DEF Watched
<1>2. CASE \E w \in Workers : Breaks(w)
  BY <1>2, CrashesCount
<1>3. CASE \A w \in Workers : ~Track(w) /\ ~Breaks(w)
  BY <1>3, NextTrackers DEF TrackersStay, Entering, Watched
<1> QED
  BY <1>1, <1>2, <1>3

\* A droplet that comes into the row is about to be entered.
LEMMA RecordEnters ==
    ASSUME TypeOK, Next, dep'.inst # dep.inst
    PROVE  \E w \in Workers : Entering(w, dep.inst)'
<1>1. PICK w \in Workers : Record(w)
  BY OnlyRecordNames
<1>2. WorkerTypeOK /\ dep \in Rows /\ ans[w] \in Answers
  BY TypeParts, WorkersOf DEF RowTypeOK
<1>3. /\ Goto(w, "track")
      /\ dep' = [ApplyProviderData(dep, ans[w]) EXCEPT !.status = "initializing"]
  BY <1>1 DEF Record, rowVars
<1>4. ans[w].inst # None /\ dep'.inst = ans[w].inst
  BY <1>2, <1>3 DEF ApplyProviderData, Rows
<1>5. At(w, "track")' /\ ans'[w] = ans[w]
  BY <1>2, <1>3, GotoEffect DEF At, DataDone
<1> QED
  BY <1>4, <1>5 DEF Entering, Tracked

LEMMA WatchStep ==
    ASSUME TypeOK, LedgerInv, Next, NEW d \in Droplets,
           Watched(d) \/ (dep.inst # d /\ dep'.inst = d), cloud'[d] = "up"
    PROVE  Watched(d)' \/ (crashes' # crashes /\ \E w \in Workers : Entering(w, d))
<1>1. CASE ledger[d] = "live"
  <2>1. ASSUME NEW w \in Workers, Strikes(w, d) PROVE FALSE
    <3>1. cloud[d] = "gone"
      BY <2>1, LifecycleAssumption DEF LedgerInv, UntrackSafe, Strikes, Untrack, GoneIn
    <3> QED
      BY <3>1, NextStays DEF GoneStays
  <2> QED
    BY <1>1, <2>1, LiveStays DEF Watched
<1>2. CASE \E w \in Workers : Entering(w, d)
  BY <1>2, EnteringStays
<1>3. CASE dep.inst # d /\ dep'.inst = d
  BY <1>3, RecordEnters DEF Watched
<1> QED
  BY <1>1, <1>2, <1>3 DEF Watched

\* Any number of workers: a droplet that was recorded is watched for as long as it runs, also
\* when another worker records a second one over it or the deployment ends, for nobody strikes
\* a droplet that runs.
THEOREM RecordedIsWatched == Spec => RecordedStaysWatched
<1>1. TypeOK /\ LedgerInv /\ [Next]_vars =>
        [\A d \in Droplets :
           /\ Watched(d) \/ (dep.inst # d /\ dep'.inst = d)
           /\ cloud'[d] = "up"
           => \/ Watched(d)'
              \/ crashes' # crashes /\ \E w \in Workers : Entering(w, d)]_vars
  BY WatchStep
<1> QED
  BY <1>1, TypeCorrect, LedgerInvariant, PTL DEF Spec, RecordedStaysWatched

-----------------------------------------------------------------------------
(* One worker: what its steps keep *)

WorkerSafe(w) ==
    /\ CopyCurrent(w) /\ CloseSafe(w) /\ PollSafe(w)
    /\ ans[w].inst # None => pc[w] \in {"record", "track"} /\ cloud[ans[w].inst] # "absent"

RowSafe ==
    /\ dep.inst # None => cloud[dep.inst] # "absent"
    /\ OverMeansGone

LEMMA SettleParts ==
    SettleInv <=> RowSafe /\ \A w \in Workers : WorkerSafe(w)
BY DEF SettleInv, RecordedExists, RowSafe, WorkerSafe

LEMMA SoleSafe ==
    ASSUME OneWorker, NEW w \in Workers, WorkerSafe(w)', RowSafe'
    PROVE  SettleInv'
BY DEF OneWorker, SettleInv, RecordedExists, RowSafe, WorkerSafe

\* Closing a row and writing to the row of a deployment that is over
RowChange ==
    /\ ~dep.closed /\ dep'.closed => Released'
    /\ Over => dep'.status \notin Running

LEMMA RowAlone ==
    ASSUME UNCHANGED dep
    PROVE  RowChange
BY DEF RowChange, Over, Running

\* Steps that leave the row, the ledger and the worker alone
LEMMA RestSafe ==
    ASSUME TypeOK, SettleInv, GoneStays, UNCHANGED <<dep, ledger, pc, snap, ans>>
    PROVE  SettleInv' /\ RowChange
<1>1. dep \in Rows /\ \A w \in Workers : ans[w] \in Answers /\ snap[w] \in Rows
  BY TypeParts, WorkersOf DEF RowTypeOK
<1>2. RowSafe'
  BY <1>1 DEF SettleInv, RecordedExists, RowSafe, OverMeansGone, Over, GoneStays, Rows
<1>3. ASSUME NEW w \in Workers PROVE WorkerSafe(w)'
  <2>1. CopyCurrent(w)'
    BY DEF SettleInv, CopyCurrent
  <2>2. CloseSafe(w)'
    BY <1>1 DEF SettleInv, CloseSafe, At, GoneIn, Released, GoneStays, Rows
  <2>3. PollSafe(w)'
    BY <1>1 DEF SettleInv, PollSafe, At, GoneIn, GoneStays, Rows
  <2> QED
    BY <1>1, <2>1, <2>2, <2>3 DEF SettleInv, RecordedExists, WorkerSafe, GoneStays, Answers
<1> QED
  BY <1>2, <1>3, RowAlone, SettleParts DEF SettleInv, RecordedExists, RowSafe, WorkerSafe

\* Changes of the row that neither end the deployment nor record anything
Harmless ==
    /\ dep'.inst = dep.inst /\ dep'.rec = dep.rec /\ dep'.closed = dep.closed
    /\ dep'.status \in {dep.status, "terminating", "failed"}

LEMMA HarmlessRow ==
    ASSUME TypeOK, SettleInv, GoneStays, Harmless
    PROVE  RowSafe' /\ RowChange
<1>1. dep \in Rows
  BY TypeParts DEF RowTypeOK
<1>2. RowSafe'
  BY <1>1 DEF SettleInv, RecordedExists, RowSafe, OverMeansGone, Over, GoneStays, Harmless, Rows
<1>3. RowChange
  BY DEF RowChange, Over, Running, Harmless
<1> QED
  BY <1>2, <1>3

\* The API's commit, under the worker's feet
LEMMA TerminatingSafe ==
    ASSUME TypeOK, SettleInv, GoneStays, UNCHANGED <<ledger, pc, snap, ans>>,
           dep' = [dep EXCEPT !.status = "terminating"]
    PROVE  SettleInv' /\ RowChange
<1>1. dep \in Rows /\ \A w \in Workers : ans[w] \in Answers /\ snap[w] \in Rows
  BY TypeParts, WorkersOf DEF RowTypeOK
<1>2. /\ dep'.inst = dep.inst /\ dep'.rec = dep.rec /\ dep'.closed = dep.closed
      /\ dep'.status = "terminating"
  BY <1>1 DEF Rows
<1>3. RowSafe' /\ RowChange
  BY <1>2, HarmlessRow DEF Harmless
<1>4. ASSUME NEW w \in Workers PROVE WorkerSafe(w)'
  <2>1. CopyCurrent(w)'
    BY <1>2 DEF SettleInv, CopyCurrent
  <2>2. CloseSafe(w)'
    BY <1>1, <1>2 DEF SettleInv, CloseSafe, At, GoneIn, Released, GoneStays, Rows
  <2>3. PollSafe(w)'
    BY <1>1, <1>2 DEF SettleInv, PollSafe, At, GoneIn, GoneStays, Rows, ActiveStatuses
  <2> QED
    BY <1>1, <2>1, <2>2, <2>3 DEF SettleInv, RecordedExists, WorkerSafe, GoneStays, Answers
<1> QED
  BY <1>3, <1>4 DEF SettleInv, RecordedExists, RowSafe, WorkerSafe

\* Steps that take the worker to a place where nothing is demanded of it
Indifferent == {"idle", "reconcile", "create", "record", "track", "expire", "ready_flag", "ready_send",
                "successor", "enqueue", "finish", "retry"}

LEMMA LeaveSafe ==
    ASSUME TypeOK, OneWorker, SettleInv, GoneStays, NEW w \in Workers,
           pc'[w] \in Indifferent, ans'[w].inst = None, Harmless
    PROVE  SettleInv' /\ RowChange
<1>1. RowSafe' /\ RowChange
  BY HarmlessRow
<1>2. WorkerSafe(w)'
  BY DEF WorkerSafe, CopyCurrent, CloseSafe, PollSafe, At, Indifferent
<1> QED
  BY <1>1, <1>2, SoleSafe

LEMMA Unchanged_Harmless == ASSUME UNCHANGED dep PROVE Harmless
BY DEF Harmless

\* What TypeOK gives about the worker that moves
LEMMA Sole ==
    ASSUME TypeOK, NEW w \in Workers
    PROVE  WorkerTypeOK /\ dep \in Rows /\ snap[w] \in Rows /\ ans[w] \in Answers
           /\ cloud \in [Droplets -> {"absent", "up", "gone"}]
           /\ NoAnswer.inst = None
BY TypeParts, WorkersOf DEF RowTypeOK, ExtTypeOK, NoAnswer

LEMMA BeginSafe ==
    ASSUME TypeOK, OneWorker, SettleInv, NEW w \in Workers, Begin(w)
    PROVE  SettleInv' /\ RowChange
<1>0. PICK j \in JobIds : BeginProvision(w, j) \/ BeginRefresh(w, j) \/ BeginDestroy(w, j)
  BY DEF Begin
<1>1. Frozen /\ UNCHANGED dep
  BY <1>0 DEF BeginProvision, BeginRefresh, BeginDestroy, Take, OnlyWorker, Frozen, extVars, rowVars
<1>2. GoneStays /\ Harmless
  BY <1>1, FrozenStays, Unchanged_Harmless
<1>3. ASSUME NEW step, Take(w, j, step)
      PROVE  pc'[w] = step /\ ans'[w].inst = None
             /\ (step \notin DataDone => snap'[w] = dep)
  BY <1>3, Sole, TakeEffect DEF SettleInv, RecordedExists
<1>4. CASE \E step \in Indifferent : Take(w, j, step)
  BY <1>2, <1>3, <1>4, LeaveSafe
<1>5. CASE \E step \in {"flag", "destroy"} : Take(w, j, step)
  <2>1. pc'[w] \in {"flag", "destroy"} /\ snap'[w] = dep /\ ans'[w].inst = None
    BY <1>3, <1>5 DEF DataDone
  <2>2. WorkerSafe(w)'
    BY <1>1, <2>1 DEF WorkerSafe, CopyCurrent, CloseSafe, PollSafe, At
  <2> QED
    BY <1>2, <2>2, HarmlessRow, SoleSafe
<1>6. CASE dep.status \in ActiveStatuses /\ Take(w, j, "poll")
  <2>1. pc'[w] = "poll" /\ snap'[w] = dep /\ ans'[w].inst = None
    BY <1>3, <1>6 DEF DataDone
  <2>2. WorkerSafe(w)'
    BY <1>1, <1>6, <2>1 DEF WorkerSafe, CopyCurrent, CloseSafe, PollSafe, At
  <2> QED
    BY <1>2, <2>2, HarmlessRow, SoleSafe
<1> QED
  BY <1>0, <1>4, <1>5, <1>6
     DEF BeginProvision, BeginRefresh, BeginDestroy, FailedStep, Indifferent

LEMMA CreateSafe ==
    ASSUME TypeOK, OneWorker, SettleInv, NEW w \in Workers, Create(w)
    PROVE  SettleInv' /\ RowChange
<1>1. GoneStays /\ Harmless
  BY TypeParts, CreateStays, Unchanged_Harmless DEF Create, OnlyExternal, rowVars
<1>2. CASE Goto(w, "retry")
  <2>1. pc'[w] = "retry" /\ ans'[w].inst = None
    BY <1>2, Sole, GotoEffect DEF DataDone
  <2> QED
    BY <1>1, <2>1, LeaveSafe DEF Indifferent
<1>3. CASE \E d \in Droplets : NewDroplet(d) /\ Answered(w, "record", Provisioned(d))
  <2>1. PICK d \in Droplets : NewDroplet(d) /\ Answered(w, "record", Provisioned(d))
    BY <1>3
  <2>2. pc'[w] = "record" /\ ans'[w].inst = d /\ cloud'[d] = "up"
    BY <2>1, Sole, AnsweredEffect DEF Provisioned, NoAnswer, NewDroplet
  <2>3. WorkerSafe(w)'
    BY <2>2 DEF WorkerSafe, CopyCurrent, CloseSafe, PollSafe, At
  <2> QED
    BY <1>1, <2>3, HarmlessRow, SoleSafe
<1> QED
  BY <1>2, <1>3 DEF Create

LEMMA RecordSafe ==
    ASSUME TypeOK, OneWorker, SettleInv, NEW w \in Workers, Record(w)
    PROVE  SettleInv' /\ RowChange
<1>1. GoneStays
  BY FrozenStays DEF Record, OnlyRow, Frozen, extVars
<1>2. CASE ~InSession
  <2>1. Harmless /\ pc'[w] = "finish" /\ ans'[w].inst = None
    BY <1>2, Sole, GotoEffect, Unchanged_Harmless DEF Record, rowVars, DataDone
  <2> QED
    BY <1>1, <2>1, LeaveSafe DEF Indifferent
<1>3. CASE InSession
  <2>1. dep' = [ApplyProviderData(dep, ans[w]) EXCEPT !.status = "initializing"]
    BY <1>3 DEF Record
  <2>2. ApplyProviderData(dep, ans[w]) \in Rows
    BY Sole DEF ApplyProviderData, Rows, Answers
  <2>3. /\ dep'.status = "initializing" /\ dep'.closed = dep.closed
        /\ dep'.inst \in {dep.inst, ans[w].inst}
    BY <2>1, <2>2, Sole DEF ApplyProviderData, Rows
  <2>4. pc'[w] = "track" /\ ans'[w] = ans[w] /\ cloud' = cloud
    BY <1>3, Sole, GotoEffect DEF Record, DataDone, OnlyRow, extVars
  <2>5. RowSafe'
    BY <2>3, <2>4 DEF SettleInv, RecordedExists, RowSafe, OverMeansGone, Over
  <2>6. WorkerSafe(w)'
    BY <2>4 DEF WorkerSafe, CopyCurrent, CloseSafe, PollSafe, At, SettleInv, RecordedExists
  <2>7. RowChange
    BY <1>3, <2>3 DEF RowChange, InSession, Over, ActiveStatuses, Running
  <2> QED
    BY <2>5, <2>6, <2>7, SoleSafe
<1> QED
  BY <1>2, <1>3

LEMMA PollSettles ==
    ASSUME TypeOK, OneWorker, SettleInv, NEW w \in Workers, Poll(w)
    PROVE  SettleInv' /\ RowChange
<1>1. GoneStays /\ Harmless /\ dep' = dep
  BY TypeParts, PollStays, Unchanged_Harmless DEF Poll, AskProvider, OnlyExternal, rowVars
<1>2. CASE Goto(w, "retry")
  <2>1. pc'[w] = "retry" /\ ans'[w].inst = None
    BY <1>2, Sole, GotoEffect DEF DataDone
  <2> QED
    BY <1>1, <2>1, LeaveSafe DEF Indifferent
<1>3. ASSUME NEW a \in Answers, Answered(w, "apply", a), a.inst = None, a.status # "expired",
             a.status = "terminated" => GoneIn(cloud, dep.inst)'
      PROVE  SettleInv' /\ RowChange
  <2>1. pc'[w] = "apply" /\ snap'[w] = snap[w] /\ ans'[w] = a
    BY <1>3, Sole, AnsweredEffect
  <2>2. WorkerSafe(w)'
    BY <1>1, <1>3, <2>1
       DEF Poll, AskProvider, SettleInv, WorkerSafe, CopyCurrent, CloseSafe, PollSafe, At
  <2> QED
    BY <1>1, <2>2, HarmlessRow, SoleSafe
<1>4. CASE \E s \in Statuses : /\ Answered(w, "apply", [NoAnswer EXCEPT !.status = s])
                               /\ s # "expired" /\ (s = "terminated" => GoneIn(cloud, dep.inst)')
  <2>1. PICK s \in Statuses : /\ Answered(w, "apply", [NoAnswer EXCEPT !.status = s])
                              /\ s # "expired" /\ (s = "terminated" => GoneIn(cloud, dep.inst)')
    BY <1>4
  <2> DEFINE a == [NoAnswer EXCEPT !.status = s]
  <2>2. a \in Answers /\ a.inst = None /\ a.status = s
    BY DEF NoAnswer, Answers
  <2> HIDE DEF a
  <2>3. Answered(w, "apply", a)
    BY <2>1 DEF a
  <2> QED
    BY <1>3, <2>1, <2>2, <2>3
<1>5. CASE \E base \in {"initializing", "deploying"}, rec \in Records \cup {None} :
             \E s \in PolledStatus(w, base) :
               Answered(w, "apply", [status |-> s, inst |-> None, ip |-> TRUE,
                                     rec |-> rec, timing |-> base = "deploying"])
  <2>0. PICK base \in {"initializing", "deploying"}, rec \in Records \cup {None} :
             \E s \in PolledStatus(w, base) :
               Answered(w, "apply", [status |-> s, inst |-> None, ip |-> TRUE,
                                     rec |-> rec, timing |-> base = "deploying"])
    BY <1>5
  <2>1. PICK s \in PolledStatus(w, base) :
               Answered(w, "apply", [status |-> s, inst |-> None, ip |-> TRUE,
                                     rec |-> rec, timing |-> base = "deploying"])
    BY <2>0
  <2>2. s \in Statuses /\ s \notin {"expired", "terminated"}
    BY PolledStatusType DEF PolledStatus
  <2>3. [status |-> s, inst |-> None, ip |-> TRUE, rec |-> rec, timing |-> base = "deploying"]
          \in Answers
    BY <2>2 DEF Answers
  <2> QED
    BY <1>3, <2>1, <2>2, <2>3
<1>6. At(w, "poll") /\ snap[w].inst = dep.inst /\ snap[w].status \in ActiveStatuses
  BY DEF Poll, AskProvider, SettleInv, CopyCurrent, PollSafe, At
<1>7. snap[w].inst # None /\ cloud[snap[w].inst] # "up" => GoneIn(cloud, dep.inst)'
  BY <1>1, <1>6, Sole DEF SettleInv, RecordedExists, GoneIn, GoneStays, Rows
<1>8. /\ {"failed", "terminated"} \cup ActiveStatuses \cup PolledStatus(w, "initializing")
           \subseteq Statuses
      /\ "terminated" \notin ActiveStatuses \cup PolledStatus(w, "initializing") \cup {"failed"}
      /\ "expired" \notin ActiveStatuses \cup PolledStatus(w, "initializing")
  BY DEF PolledStatus, Statuses, ActiveStatuses, TerminalStatuses, Running
<1> QED
  BY <1>2, <1>4, <1>5, <1>6, <1>7, <1>8 DEF Poll, AskProvider

LEMMA ApplySafe ==
    ASSUME TypeOK, OneWorker, SettleInv, NEW w \in Workers, Apply(w)
    PROVE  SettleInv' /\ RowChange
<1>1. Frozen /\ GoneStays /\ ledger' = ledger
  BY FrozenStays DEF Apply, OnlyRow, Frozen, extVars
<1>2. dep' \in Rows /\ dep'.inst = dep.inst /\ dep'.closed = dep.closed /\ dep'.status = ans[w].status
  <2>1. ApplyProviderPatch(dep, ans[w]) \in Rows
    BY Sole DEF ApplyProviderPatch, Rows, Answers
  <2>2. /\ ApplyProviderPatch(dep, ans[w]).inst = dep.inst
        /\ ApplyProviderPatch(dep, ans[w]).closed = dep.closed
    BY Sole DEF ApplyProviderPatch, Rows
  <2> QED
    BY <2>1, <2>2, Sole DEF Apply, Rows, Answers
<1>3. dep.status \in ActiveStatuses /\ ans[w].status # "expired"
      /\ (ans[w].status = "terminated" => GoneIn(cloud, dep.inst))
  BY DEF Apply, SettleInv, PollSafe, At
<1>4. RowSafe'
  BY <1>1, <1>2, <1>3 DEF SettleInv, RecordedExists, RowSafe, OverMeansGone, Over, GoneIn, Frozen
<1>5. RowChange
  BY <1>2, <1>3 DEF RowChange, Over, ActiveStatuses, Running
<1>6. /\ pc'[w] = AfterApply(dep') /\ ans'[w].inst = None
      /\ AfterApply(dep') \notin DataDone => snap'[w] = dep'
  BY Sole, GotoWithRowEffect DEF Apply
<1>7. AfterApply(dep') \in {"finish", "ready_flag", "successor", "flag", "destroy"}
  BY DEF AfterApply, FailedStep
<1>8. WorkerSafe(w)'
  BY <1>6, <1>7 DEF WorkerSafe, CopyCurrent, CloseSafe, PollSafe, At, DataDone
<1> QED
  BY <1>4, <1>5, <1>8, SoleSafe

\* The steps after which the worker has nothing more to do with the row.
LEMMA TowardsEndSafe ==
    ASSUME TypeOK, OneWorker, SettleInv, NEW w \in Workers,
           Track(w) \/ Successor(w) \/ ExpireSession(w) \/ ReadyFlag(w) \/ ReadySend(w)
           \/ Finish(w) \/ Retry(w)
    PROVE  SettleInv' /\ RowChange
<1>1. GoneStays
  BY FrozenStays DEF Track, Successor, ExpireSession, ReadyFlag, ReadySend, Finish, Retry, OnlyRow,
                     Frozen, extVars
<1>2. Harmless
  BY Sole DEF Track, Successor, ExpireSession, ReadyFlag, ReadySend, Finish, Retry, rowVars,
              Harmless, Rows
<1>3. CASE \E step \in {"enqueue", "finish", "ready_send"} : Goto(w, step)
  <2>1. pc'[w] \in Indifferent /\ ans'[w].inst = None
    BY <1>3, Sole, GotoEffect DEF DataDone, Indifferent
  <2> QED
    BY <1>1, <1>2, <2>1, LeaveSafe
<1>4. CASE Forget(w)
  <2>1. pc'[w] \in Indifferent /\ ans'[w].inst = None
    BY <1>4, Sole, ForgetEffect DEF Indifferent
  <2> QED
    BY <1>1, <1>2, <2>1, LeaveSafe
<1> QED
  BY <1>3, <1>4 DEF Track, Successor, ExpireSession, ReadyFlag, ReadySend, Finish, Retry

LEMMA EnqueueSafe ==
    ASSUME TypeOK, OneWorker, SettleInv, NEW w \in Workers, Enqueue(w)
    PROVE  SettleInv' /\ RowChange
<1>1. GoneStays /\ Harmless /\ UNCHANGED <<dep, ledger>>
  BY FrozenStays, Unchanged_Harmless DEF Enqueue, Frozen, extVars, rowVars
<1>2. CASE Goto(w, "finish")
  <2>1. pc'[w] \in Indifferent /\ ans'[w].inst = None
    BY <1>2, Sole, GotoEffect DEF DataDone, Indifferent
  <2> QED
    BY <1>1, <2>1, LeaveSafe
<1>3. CASE UNCHANGED workerVars
  BY <1>1, <1>3, RestSafe DEF workerVars
<1> QED
  BY <1>2, <1>3 DEF Enqueue

LEMMA NotifySafe ==
    ASSUME TypeOK, OneWorker, SettleInv, NEW w \in Workers, EndFlag(w) \/ EndSend(w)
    PROVE  SettleInv' /\ RowChange
<1>1. GoneStays
  BY FrozenStays DEF EndFlag, EndSend, OnlyRow, Frozen, extVars
<1>2. Harmless
  BY Sole DEF EndFlag, EndSend, rowVars, Harmless, Rows
<1>3. snap[w].inst = dep.inst /\ snap[w].rec = dep.rec /\ ans[w].inst = None
  BY DEF EndFlag, EndSend, At, SettleInv, CopyCurrent, RecordedExists
<1>4. CASE \E step \in {"send", "destroy"} : Goto(w, step)
  <2>1. pc'[w] \in {"send", "destroy"} /\ snap'[w] = snap[w] /\ ans'[w] = ans[w]
    BY <1>4, Sole, GotoEffect DEF DataDone
  <2>2. WorkerSafe(w)'
    BY <1>2, <1>3, <2>1 DEF WorkerSafe, CopyCurrent, CloseSafe, PollSafe, At, Harmless
  <2> QED
    BY <1>1, <1>2, <2>2, HarmlessRow, SoleSafe
<1>5. CASE Goto(w, "finish")
  <2>1. pc'[w] \in Indifferent /\ ans'[w].inst = None
    BY <1>5, Sole, GotoEffect DEF DataDone, Indifferent
  <2> QED
    BY <1>1, <1>2, <2>1, LeaveSafe
<1> QED
  BY <1>4, <1>5 DEF EndFlag, EndSend

LEMMA DestroySafe ==
    ASSUME TypeOK, OneWorker, SettleInv, NEW w \in Workers, Destroy(w)
    PROVE  SettleInv' /\ RowChange
<1>1. GoneStays /\ Harmless /\ dep' = dep
  BY TypeParts, DestroyStays, Unchanged_Harmless DEF Destroy, OnlyExternal, rowVars
<1>2. CASE Goto(w, "retry")
  <2>1. pc'[w] \in Indifferent /\ ans'[w].inst = None
    BY <1>2, Sole, GotoEffect DEF DataDone, Indifferent
  <2> QED
    BY <1>1, <2>1, LeaveSafe
<1>3. CASE DeleteRecords(Named(w, snap[w].rec)) /\ Goto(w, "untrack")
  <2>1. pc'[w] = "untrack" /\ snap'[w] = snap[w] /\ ans'[w] = ans[w]
    BY <1>3, Sole, GotoEffect DEF DataDone
  <2>2. GoneIn(zone', snap[w].rec)
    BY <1>3, Sole DEF DeleteRecords, Named, NeedsDestroy, GoneIn, Rows
  <2>3. /\ snap[w].inst = dep.inst /\ snap[w].rec = dep.rec /\ ans[w].inst = None
    BY DEF Destroy, At, SettleInv, CopyCurrent, RecordedExists
  <2>4. WorkerSafe(w)'
    BY <1>1, <2>1, <2>2, <2>3 DEF WorkerSafe, CopyCurrent, CloseSafe, PollSafe, At, GoneIn
  <2> QED
    BY <1>1, <2>4, HarmlessRow, SoleSafe
<1> QED
  BY <1>2, <1>3 DEF Destroy, AfterDestroyError

LEMMA UntrackSettles ==
    ASSUME TypeOK, OneWorker, SettleInv, UntrackSafe, NEW w \in Workers, Untrack(w)
    PROVE  SettleInv' /\ RowChange
<1>1. GoneStays /\ Harmless /\ UNCHANGED <<dep, cloud, zone>>
  BY FrozenStays, Unchanged_Harmless DEF Untrack, Frozen, extVars, rowVars
<1>2. pc'[w] = "close" /\ ans'[w].inst = None
  BY Sole, GotoEffect DEF Untrack, DataDone
<1>3. snap[w].inst = dep.inst /\ snap[w].rec = dep.rec
  BY DEF Untrack, At, SettleInv, CopyCurrent
<1>4. GoneIn(cloud, dep.inst) /\ GoneIn(zone, dep.rec)
  BY <1>3 DEF Untrack, UntrackSafe, SettleInv, CloseSafe
<1>5. dep.inst # None => ledger'[dep.inst] # "live"
  BY <1>3, Sole DEF Untrack, MarkDeleted, Rows
<1>6. WorkerSafe(w)'
  BY <1>1, <1>2, <1>4, <1>5
     DEF WorkerSafe, CopyCurrent, CloseSafe, PollSafe, At, Released, GoneIn
<1> QED
  BY <1>1, <1>6, HarmlessRow, SoleSafe

LEMMA CloseSettles ==
    ASSUME TypeOK, OneWorker, SettleInv, NEW w \in Workers, Close(w)
    PROVE  SettleInv' /\ RowChange
<1>1. UNCHANGED <<cloud, zone, ledger>>
  BY DEF Close, OnlyRow, extVars
<1>2. /\ dep'.inst = dep.inst /\ dep'.rec = dep.rec
      /\ dep'.status \in {"terminated", "expired", "failed"}
  BY Sole DEF Close, Rows, Final
<1>3. Released
  BY DEF Close, SettleInv, CloseSafe
<1>4. Released'
  BY <1>1, <1>2, <1>3 DEF Released
<1>5. RowSafe'
  BY <1>1, <1>2, <1>3 DEF RowSafe, OverMeansGone, Released
<1>6. RowChange
  BY <1>2, <1>4 DEF RowChange, Running
<1>7. pc'[w] \in {"finish", "flag"} /\ ans'[w].inst = None /\ (pc'[w] = "flag" => snap'[w] = dep')
  BY Sole, GotoWithRowEffect DEF Close, DataDone
<1>8. WorkerSafe(w)'
  BY <1>7 DEF WorkerSafe, CopyCurrent, CloseSafe, PollSafe, At
<1> QED
  BY <1>5, <1>6, <1>8, SoleSafe

\* A worker outside its jobs
LEMMA IdleSafe ==
    ASSUME TypeOK, OneWorker, SettleInv, NEW w \in Workers,
           ClaimJobs(w) \/ Reconcile(w) \/ Breaks(w)
    PROVE  SettleInv' /\ RowChange
<1>1. GoneStays /\ Harmless /\ UNCHANGED <<dep, ledger>>
  BY FrozenStays, Unchanged_Harmless
     DEF ClaimJobs, Reconcile, ReconcileRead, ReconcileLedger, ReconcileEnqueue, OnlyWorker,
         Breaks, WorkerDies, HandlerRaises, Frozen, extVars, rowVars
<1>2. CASE Breaks(w)
  <2>1. pc'[w] \in Indifferent /\ ans'[w].inst = None
    BY <1>2, BreaksEffect DEF Indifferent, NoAnswer
  <2> QED
    BY <1>1, <2>1, LeaveSafe
<1>3. CASE UNCHANGED workerVars
  BY <1>1, <1>3, RestSafe DEF workerVars
<1>4. CASE Reconcile(w) /\ ~UNCHANGED workerVars
  <2>1. pc'[w] \in {"idle", "reconcile"} /\ ans' = ans
    BY <1>4, Sole DEF Reconcile, ReconcileRead, ReconcileLedger, ReconcileEnqueue, At, WorkerTypeOK
  <2>2. ans[w].inst = None
    BY <1>4 DEF Reconcile, ReconcileRead, ReconcileLedger, ReconcileEnqueue, At, SettleInv,
       RecordedExists
  <2> QED
    BY <1>1, <2>1, <2>2, LeaveSafe DEF Indifferent
<1> QED
  BY <1>2, <1>3, <1>4 DEF ClaimJobs

LEMMA SettleStep ==
    ASSUME TypeOK, OneWorker, UntrackSafe, SettleInv, Next
    PROVE  SettleInv' /\ RowChange
<1>1. CASE \E w \in Workers : JobStep(w)
  BY <1>1, BeginSafe, CreateSafe, RecordSafe, PollSettles, ApplySafe, TowardsEndSafe, EnqueueSafe,
     NotifySafe, DestroySafe, UntrackSettles, CloseSettles DEF JobStep
<1>2. CASE \E w \in Workers : ClaimJobs(w) \/ Reconcile(w) \/ Breaks(w)
  BY <1>2, IdleSafe
<1>3. CASE \E h \in Handlers : ApiCommits(h)
  <2>1. Frozen
    BY <1>3 DEF ApiCommits, Frozen, extVars
  <2> QED
    BY <1>3, <2>1, FrozenStays, TerminatingSafe DEF ApiCommits, workerVars
<1>4. CASE (\E h \in Handlers : ApiReads(h) \/ ApiEnqueues(h)) \/ ApiDies \/ Expire
  <2>1. Frozen /\ UNCHANGED <<dep, ledger, pc, snap, ans>>
    BY <1>4 DEF ApiReads, ApiOnly, ApiEnqueues, ApiDies, Expire, Frozen, extVars, rowVars,
                workerVars
  <2> QED
    BY <2>1, FrozenStays, RestSafe
<1>5. CASE Vanish
  <2>1. UNCHANGED <<dep, ledger, pc, snap, ans>>
    BY <1>5 DEF Vanish, OnlyExternal, rowVars, workerVars
  <2>2. GoneStays
    BY NextStays
  <2> QED
    BY <2>1, <2>2, RestSafe
<1> QED
  BY <1>1, <1>2, <1>3, <1>4, <1>5 DEF Next, Breaks

LEMMA SettleStutter ==
    ASSUME TypeOK, SettleInv, UNCHANGED vars
    PROVE  SettleInv' /\ RowChange
<1>1. Frozen /\ UNCHANGED <<dep, ledger, pc, snap, ans>>
  BY DEF vars, rowVars, extVars, workerVars, Frozen
<1> QED
  BY <1>1, FrozenStays, RestSafe

LEMMA SettleInit == Init => SettleInv
BY NewRowType DEF Init, SettleInv, CopyCurrent, CloseSafe, PollSafe, At, RecordedExists, NewRow,
   NoAnswer, OverMeansGone, Over

LEMMA SettleInvariant ==
    ASSUME OneWorker
    PROVE  Spec => []SettleInv
<1>1. TypeOK /\ LedgerInv /\ SettleInv /\ [Next]_vars => SettleInv'
  BY OneWorker, SettleStep, SettleStutter DEF LedgerInv
<1> QED
  BY <1>1, SettleInit, TypeCorrect, LedgerInvariant, PTL DEF Spec

\* A deployment shown as terminated or expired does not keep its droplet running, for
\* any number of handlers, jobs, retries, crashes and provider faults.
THEOREM OverIsGone ==
    ASSUME OneWorker
    PROVE  Spec => []OverMeansGone
<1>1. SettleInv => OverMeansGone
  BY DEF SettleInv
<1> QED
  BY <1>1, OneWorker, SettleInvariant, PTL

\* terminated_at is first set only when the recorded droplet and DNS record are gone
\* and the ledger no longer counts the droplet.
THEOREM ClosingIsSettling ==
    ASSUME OneWorker
    PROVE  Spec => ClosingReleases
<1>1. /\ TypeOK /\ LedgerInv /\ SettleInv /\ [Next]_vars
      => [~dep.closed /\ dep'.closed => Released']_vars
  BY OneWorker, SettleStep DEF LedgerInv, RowChange
<1> QED
  BY <1>1, OneWorker, TypeCorrect, LedgerInvariant, SettleInvariant, PTL DEF Spec, ClosingReleases

\* No step takes a deployment that is over back into a running status.
THEOREM OverIsFinal ==
    ASSUME OneWorker
    PROVE  Spec => OverStaysOver
<1>1. /\ TypeOK /\ LedgerInv /\ SettleInv /\ [Next]_vars
      => [Over => dep'.status \notin Running]_vars
  BY OneWorker, SettleStep DEF LedgerInv, RowChange
<1> QED
  BY <1>1, OneWorker, TypeCorrect, LedgerInvariant, SettleInvariant, PTL DEF Spec, OverStaysOver

-----------------------------------------------------------------------------
(* Strays, with one worker.  A droplet or record is made by the worker that  *)
(* writes it to the row in its next transaction (HoldsSafe), so only a crash *)
(* between the two loses it.                                                *)

KeepInv ==
    /\ dep.rec # None => dep.inst # None
    /\ \A w \in Workers : HoldsSafe(w)

LEMMA StrayParts ==
    /\ StrayInv <=> KeepInv /\ Few(cloud) /\ Few(zone)
    /\ StrayInv' <=> KeepInv' /\ Few(cloud)' /\ Few(zone)'
BY DEF StrayInv, KeepInv

LEMMA SoleKeeps ==
    ASSUME OneWorker, NEW w \in Workers, HoldsSafe(w)', (dep.rec # None => dep.inst # None)'
    PROVE  KeepInv'
BY DEF OneWorker, KeepInv

-----------------------------------------------------------------------------
(* Strays are what runs and is not accounted for. *)

Accounted(x) == InUse(x) \/ x \in orphaned

LEMMA StraysAre ==
    /\ Strays(cloud) = {d \in DOMAIN cloud : cloud[d] = "up" /\ ~Accounted(d)}
    /\ Strays(zone) = {r \in DOMAIN zone : zone[r] = "up" /\ ~Accounted(r)}
    /\ Strays(cloud)' = {d \in DOMAIN cloud' : cloud'[d] = "up" /\ ~Accounted(d)'}
    /\ Strays(zone)' = {r \in DOMAIN zone' : zone'[r] = "up" /\ ~Accounted(r)'}
BY DEF Strays, Accounted

\* A step may make no droplet or record, nor forget any, but those in lost.
Loses(lost) ==
    /\ Strays(cloud)' \subseteq Strays(cloud) \cup (lost \cap Droplets)
    /\ Strays(zone)' \subseteq Strays(zone) \cup (lost \cap Records)

LEMMA ExtTypes ==
    ASSUME TypeOK, TypeOK'
    PROVE  ExtTypeOK /\ ExtTypeOK'
BY DEF TypeOK, ExtTypeOK

LEMMA LosesIf ==
    ASSUME ExtTypeOK, ExtTypeOK', NEW lost,
           \A d \in Droplets \ lost : cloud'[d] = "up" =>
               Accounted(d)' \/ (cloud[d] = "up" /\ ~Accounted(d)),
           \A r \in Records \ lost : zone'[r] = "up" =>
               Accounted(r)' \/ (zone[r] = "up" /\ ~Accounted(r))
    PROVE  Loses(lost)
<1>1. DOMAIN cloud = Droplets /\ DOMAIN cloud' = Droplets
      /\ DOMAIN zone = Records /\ DOMAIN zone' = Records
  BY DEF ExtTypeOK
<1> QED
  BY <1>1, StraysAre DEF Loses

\* What was accounted for still is, and nothing is made.
NoneMade ==
    /\ \A d \in Droplets : cloud'[d] = "up" => cloud[d] = "up"
    /\ \A r \in Records : zone'[r] = "up" => zone[r] = "up"

StillUsed(x) == InUse(x) => InUse(x)'

LEMMA NothingLost ==
    ASSUME ExtTypeOK, ExtTypeOK', NoneMade, orphaned' = orphaned,
           \A x \in Droplets \cup Records : StillUsed(x)
    PROVE  Loses({})
<1>1. \A x \in Droplets \cup Records : Accounted(x) => Accounted(x)'
  BY DEF Accounted, StillUsed
<1> QED
  BY <1>1, LosesIf DEF NoneMade

\* Between its steps a worker's answer is in the row already, except at "record" and
\* "apply", the steps that write it there.
LEMMA RowKeeps ==
    ASSUME TypeOK, OneWorker, KeepInv, NEW w \in Workers, pc[w] \notin {"record", "apply"},
           dep'.inst = dep.inst, dep'.rec = dep.rec
    PROVE  \A x \in Droplets \cup Records : StillUsed(x)
<1>1. ans[w].inst \in {None, dep.inst} /\ ans[w].rec = None
  BY DEF KeepInv, HoldsSafe, At
<1>2. \A v \in Workers : v = w
  BY DEF OneWorker
<1>3. None \notin Droplets \cup Records
  BY LifecycleAssumption
<1>4. ASSUME NEW x \in Droplets \cup Records, InUse(x) PROVE x \in {dep.inst, dep.rec}
  BY <1>1, <1>2, <1>3, <1>4 DEF InUse
<1> QED
  BY <1>4 DEF StillUsed, InUse

-----------------------------------------------------------------------------
(* The steps *)

\* A step of a worker that has nothing to write, and gets nothing
Plain(w) ==
    /\ pc[w] \notin {"record", "apply"}
    /\ pc'[w] \notin {"create", "record", "apply"}
    /\ ans'[w] \in {ans[w], NoAnswer}
    /\ dep'.inst = dep.inst /\ dep'.rec = dep.rec
    /\ orphaned' = orphaned
    /\ NoneMade

LEMMA PlainKeeps ==
    ASSUME TypeOK, TypeOK', OneWorker, KeepInv, NEW w \in Workers, Plain(w)
    PROVE  KeepInv' /\ Loses({})
<1>1. ExtTypeOK /\ ExtTypeOK'
  BY ExtTypes
<1>2. Loses({})
  BY <1>1, RowKeeps, NothingLost DEF Plain
<1>3. HoldsSafe(w)'
  BY DEF Plain, KeepInv, HoldsSafe, At, NoAnswer
<1>4. (dep.rec # None => dep.inst # None)'
  BY DEF Plain, KeepInv
<1> QED
  BY <1>2, <1>3, <1>4, SoleKeeps

LEMMA FrozenMakesNone == ASSUME Frozen PROVE NoneMade
BY DEF Frozen, NoneMade

LEMMA BeginKeeps ==
    ASSUME TypeOK, TypeOK', OneWorker, SettleInv, KeepInv, NEW w \in Workers, Begin(w)
    PROVE  KeepInv' /\ Loses({})
<1>0. PICK j \in JobIds : BeginProvision(w, j) \/ BeginRefresh(w, j) \/ BeginDestroy(w, j)
  BY DEF Begin
<1>1. UNCHANGED <<dep, cloud, zone, orphaned>>
  BY <1>0 DEF BeginProvision, BeginRefresh, BeginDestroy, Take, OnlyWorker, extVars, rowVars
<1>2. NoneMade
  BY <1>1 DEF NoneMade
<1>3. ASSUME NEW step, Take(w, j, step)
      PROVE  pc[w] = "idle" /\ pc'[w] = step /\ ans'[w] = ans[w]
  BY <1>3, Sole, TakeEffect
<1>4. CASE \E step \in Steps \ {"create", "record", "apply"} : Take(w, j, step)
  <2>1. Plain(w)
    BY <1>1, <1>2, <1>3, <1>4 DEF Plain
  <2> QED
    BY <2>1, PlainKeeps
<1>5. CASE InSession /\ \/ Take(w, j, "record")
                        \/ ~HasDroplet(dep) /\ Take(w, j, "create")
  <2>1. pc[w] = "idle" /\ pc'[w] \in {"create", "record"} /\ ans'[w] = ans[w]
        /\ (pc'[w] = "create" => dep.inst = None)
    BY <1>3, <1>5 DEF HasDroplet
  <2>2. ans[w].inst = None
    BY <2>1 DEF SettleInv, RecordedExists
  <2>3. HoldsSafe(w)'
    BY <1>1, <1>5, <2>1, <2>2 DEF KeepInv, HoldsSafe, At, InSession
  <2>4. Loses({})
    BY <1>1, <1>2, <2>1, RowKeeps, NothingLost, ExtTypes
  <2> QED
    BY <1>1, <2>3, <2>4, SoleKeeps DEF KeepInv
<1> QED
  BY <1>0, <1>4, <1>5 DEF BeginProvision, BeginRefresh, BeginDestroy, FailedStep, Steps

LEMMA CreateKeeps ==
    ASSUME TypeOK, TypeOK', OneWorker, KeepInv, NEW w \in Workers, Create(w)
    PROVE  KeepInv' /\ Loses({})
<1>1. /\ WorkerTypeOK /\ ExtTypeOK /\ ExtTypeOK' /\ pc[w] = "create"
      /\ dep' = dep /\ zone' = zone
  BY TypeParts, ExtTypes DEF Create, OnlyExternal, rowVars, At
<1>2. \A x \in Droplets \cup Records : StillUsed(x)
  BY <1>1, RowKeeps
<1>3. CASE Goto(w, "retry") /\ UNCHANGED <<cloud, orphaned>>
  <2>1. pc'[w] = "retry" /\ ans'[w] = NoAnswer
    BY <1>1, <1>3, GotoEffect DEF DataDone
  <2>2. Plain(w)
    BY <1>1, <1>3, <2>1 DEF Plain, NoneMade
  <2> QED
    BY <2>2, PlainKeeps
<1>4. CASE \E d \in Droplets : /\ NewDroplet(d) /\ Answered(w, "record", Provisioned(d))
                               /\ orphaned' = orphaned
  <2>1. PICK d \in Droplets : NewDroplet(d) /\ Answered(w, "record", Provisioned(d))
    BY <1>4
  <2>2. /\ pc'[w] = "record" /\ ans'[w].inst = d /\ ans'[w].rec = None
        /\ \A e \in Droplets : e # d => cloud'[e] = cloud[e]
    BY <1>1, <2>1, AnsweredEffect DEF Provisioned, NoAnswer, NewDroplet, ExtTypeOK
  <2>3. HoldsSafe(w)'
    BY <1>1, <2>2 DEF KeepInv, HoldsSafe, At
  <2>4. InUse(d)'
    BY <2>2 DEF InUse
  <2>5. Loses({})
    BY <1>1, <1>2, <1>4, <2>2, <2>4, LosesIf DEF Accounted, StillUsed
  <2> QED
    BY <1>1, <2>3, <2>5, SoleKeeps DEF KeepInv
<1>5. CASE Goto(w, "retry") /\ \E d \in Droplets : NewDroplet(d) /\ orphaned' = orphaned \cup {d}
  <2>1. PICK d \in Droplets : NewDroplet(d) /\ orphaned' = orphaned \cup {d}
    BY <1>5
  <2>2. /\ pc'[w] = "retry" /\ ans'[w] = NoAnswer
        /\ \A e \in Droplets : e # d => cloud'[e] = cloud[e]
    BY <1>1, <1>5, <2>1, GotoEffect DEF DataDone, NewDroplet, ExtTypeOK
  <2>3. HoldsSafe(w)'
    BY <1>1, <2>2 DEF HoldsSafe, At, NoAnswer
  <2>4. Loses({})
    BY <1>1, <1>2, <2>1, <2>2, LosesIf DEF Accounted, StillUsed
  <2> QED
    BY <1>1, <2>3, <2>4, SoleKeeps DEF KeepInv
<1> QED
  BY <1>3, <1>4, <1>5 DEF Create

\* The new droplet gets into the row, which had none, so no record either.
LEMMA RecordKeeps ==
    ASSUME TypeOK, TypeOK', OneWorker, KeepInv, NEW w \in Workers, Record(w)
    PROVE  KeepInv' /\ Loses({})
<1>1. /\ WorkerTypeOK /\ ExtTypeOK /\ ExtTypeOK' /\ pc[w] = "record"
      /\ UNCHANGED <<cloud, zone, orphaned>>
  BY TypeParts, ExtTypes DEF Record, OnlyRow, extVars, At
<1>2. InSession
  BY <1>1 DEF KeepInv, HoldsSafe, At, InSession
<1>3. /\ dep' = [ApplyProviderData(dep, ans[w]) EXCEPT !.status = "initializing"]
      /\ pc'[w] = "track" /\ ans'[w] = ans[w]
  BY <1>1, <1>2, GotoEffect DEF Record, DataDone
<1>4. ApplyProviderData(dep, ans[w]) \in Rows
  BY Sole DEF ApplyProviderData, Rows, Answers
<1>5. CASE ans[w].inst = None
  <2>1. dep'.inst = dep.inst /\ dep'.rec = dep.rec
    BY <1>3, <1>4, <1>5 DEF ApplyProviderData, Rows
  <2>2. HoldsSafe(w)' /\ (dep.rec # None => dep.inst # None)'
    BY <1>1, <1>3, <1>5, <2>1 DEF KeepInv, HoldsSafe, At
  <2>3. \A x \in Droplets \cup Records : StillUsed(x)
    BY <1>3, <2>1 DEF StillUsed, InUse, OneWorker
  <2> QED
    BY <1>1, <2>2, <2>3, SoleKeeps, NothingLost DEF NoneMade
<1>6. CASE ans[w].inst # None
  <2>1. dep'.inst = ans[w].inst /\ dep'.rec = None
    BY <1>3, <1>6, Sole DEF ApplyProviderData, Rows
  <2>2. dep.inst = None /\ dep.rec = None
    BY <1>1, <1>6 DEF KeepInv, HoldsSafe, At
  <2>3. HoldsSafe(w)' /\ (dep.rec # None => dep.inst # None)'
    BY <1>1, <1>3, <1>6, <2>1 DEF KeepInv, HoldsSafe, At
  <2>4. \A x \in Droplets \cup Records : StillUsed(x)
    BY <1>3, <2>2, LifecycleAssumption DEF StillUsed, InUse, OneWorker
  <2> QED
    BY <1>1, <2>3, <2>4, SoleKeeps, NothingLost DEF NoneMade
<1> QED
  BY <1>5, <1>6

LEMMA ApplyKeeps ==
    ASSUME TypeOK, TypeOK', OneWorker, KeepInv, NEW w \in Workers, Apply(w)
    PROVE  KeepInv' /\ Loses({})
<1>1. /\ WorkerTypeOK /\ ExtTypeOK /\ ExtTypeOK' /\ pc[w] = "apply"
      /\ UNCHANGED <<cloud, zone, orphaned>>
  BY TypeParts, ExtTypes DEF Apply, OnlyRow, extVars, At
<1>2. ApplyProviderPatch(dep, ans[w]) \in Rows
  BY Sole DEF ApplyProviderPatch, Rows, Answers
<1>3. dep'.inst = dep.inst /\ dep'.rec = IF ans[w].ip THEN ans[w].rec ELSE dep.rec
  BY <1>2, Sole DEF Apply, ApplyProviderPatch, Rows
<1>4. pc'[w] = AfterApply(dep') /\ ans'[w] = NoAnswer
  BY <1>1, GotoWithRowEffect DEF Apply
<1>5. AfterApply(dep') \notin {"create", "record", "apply"}
  BY DEF AfterApply, FailedStep
<1>6. HoldsSafe(w)' /\ (dep.rec # None => dep.inst # None)'
  BY <1>1, <1>3, <1>4, <1>5 DEF KeepInv, HoldsSafe, At, NoAnswer
<1>7. \A x \in Droplets \cup Records : StillUsed(x)
  BY <1>1, <1>3, LifecycleAssumption DEF StillUsed, InUse, OneWorker, KeepInv, HoldsSafe, At
<1> QED
  BY <1>1, <1>6, <1>7, SoleKeeps, NothingLost DEF NoneMade

-----------------------------------------------------------------------------
(* A poll publishes a record only when the row has none. *)

LEMMA PublishKeeps ==
    ASSUME TypeOK, TypeOK', OneWorker, SettleInv, KeepInv, NEW w \in Workers, At(w, "poll"),
           NEW rec \in Records \cup {None}, Publish(w, rec),
           NEW a \in Answers, a.inst = None, a.rec = rec, a.ip, Answered(w, "apply", a),
           snap[w].inst # None, cloud' = cloud, dep' = dep
    PROVE  KeepInv' /\ Loses({})
<1>1. WorkerTypeOK /\ ExtTypeOK /\ ExtTypeOK' /\ pc[w] = "poll"
  BY TypeParts, ExtTypes DEF At
<1>2. pc'[w] = "apply" /\ ans'[w] = a
  BY <1>1, AnsweredEffect
<1>3. dep.inst = snap[w].inst /\ dep.rec = snap[w].rec
  BY <1>1 DEF SettleInv, CopyCurrent
<1>4. dep.rec \in {None, rec}
  BY <1>3 DEF Publish, PublishLost, PublishesAnew
<1>5. HoldsSafe(w)' /\ (dep.rec # None => dep.inst # None)'
  BY <1>2, <1>3, <1>4 DEF KeepInv, HoldsSafe, At
<1>6. \A x \in Droplets \cup Records : StillUsed(x)
  BY <1>1, RowKeeps
<1>7. orphaned \subseteq orphaned'
  BY DEF Publish, PublishLost
<1>8. \A r \in Records : zone'[r] = "up" => zone[r] = "up" \/ r = rec \/ r \in orphaned'
  BY <1>1 DEF Publish, PublishLost, NewRecord, ExtTypeOK
<1>9. rec # None => InUse(rec)'
  BY <1>2 DEF InUse
<1>10. Loses({})
  BY <1>1, <1>6, <1>7, <1>8, <1>9, LosesIf, LifecycleAssumption DEF Accounted, StillUsed
<1> QED
  BY <1>5, <1>10, SoleKeeps

LEMMA PollKeeps ==
    ASSUME TypeOK, TypeOK', OneWorker, SettleInv, KeepInv, NEW w \in Workers, Poll(w)
    PROVE  KeepInv' /\ Loses({})
<1>1. WorkerTypeOK /\ ExtTypeOK /\ ExtTypeOK' /\ pc[w] = "poll" /\ dep' = dep
  BY TypeParts, ExtTypes DEF Poll, AskProvider, OnlyExternal, rowVars, At
<1>2. CASE Goto(w, "retry") /\ UNCHANGED <<cloud, zone, orphaned>>
  <2>1. pc'[w] = "retry" /\ ans'[w] = NoAnswer
    BY <1>1, <1>2, GotoEffect DEF DataDone
  <2>2. Plain(w)
    BY <1>1, <1>2, <2>1 DEF Plain, NoneMade
  <2> QED
    BY <2>2, PlainKeeps
<1>3. CASE UNCHANGED extVars
           /\ \E s \in Statuses : Answered(w, "apply", [NoAnswer EXCEPT !.status = s])
  <2>1. PICK s \in Statuses : Answered(w, "apply", [NoAnswer EXCEPT !.status = s])
    BY <1>3
  <2>2. /\ pc'[w] = "apply" /\ ans'[w].inst = None /\ ans'[w].rec = None /\ ~ans'[w].ip
    BY <1>1, <2>1, AnsweredEffect DEF NoAnswer
  <2>3. HoldsSafe(w)'
    BY <2>2 DEF HoldsSafe, At
  <2>4. Loses({})
    BY <1>1, <1>3, RowKeeps, NothingLost DEF extVars, NoneMade
  <2> QED
    BY <1>1, <2>3, <2>4, SoleKeeps DEF KeepInv
<1>4. CASE /\ snap[w].inst # None /\ cloud' = cloud
           /\ \E base \in {"initializing", "deploying"}, rec \in Records \cup {None} :
                \E s \in PolledStatus(w, base) :
                  /\ Publish(w, rec)
                  /\ Answered(w, "apply", [status |-> s, inst |-> None, ip |-> TRUE,
                                           rec |-> rec, timing |-> base = "deploying"])
  <2>1. PICK base \in {"initializing", "deploying"}, rec \in Records \cup {None} :
                \E s \in PolledStatus(w, base) :
                  /\ Publish(w, rec)
                  /\ Answered(w, "apply", [status |-> s, inst |-> None, ip |-> TRUE,
                                           rec |-> rec, timing |-> base = "deploying"])
    BY <1>4
  <2>2. PICK s \in PolledStatus(w, base) :
                  /\ Publish(w, rec)
                  /\ Answered(w, "apply", [status |-> s, inst |-> None, ip |-> TRUE,
                                           rec |-> rec, timing |-> base = "deploying"])
    BY <2>1
  <2> DEFINE a == [status |-> s, inst |-> None, ip |-> TRUE, rec |-> rec,
                   timing |-> base = "deploying"]
  <2>3. a \in Answers /\ a.inst = None /\ a.rec = rec /\ a.ip
    BY PolledStatusType DEF Answers
  <2>4. Publish(w, rec) /\ Answered(w, "apply", a)
    BY <2>2
  <2> HIDE DEF a
  <2> QED
    BY <1>1, <1>4, <2>3, <2>4, PublishKeeps DEF At
<1>5. {"failed", "terminated", snap[w].status} \cup PolledStatus(w, "initializing") \subseteq Statuses
  BY PolledStatusType, Sole DEF Rows, Statuses, TerminalStatuses
<1>6. CASE Goto(w, "retry") /\ PublishLost /\ cloud' = cloud
  <2>1. pc'[w] = "retry" /\ ans'[w] = NoAnswer
    BY <1>1, <1>6, GotoEffect DEF DataDone
  <2>2. HoldsSafe(w)'
    BY <2>1 DEF HoldsSafe, At, NoAnswer
  <2>3. \A x \in Droplets \cup Records : StillUsed(x)
    BY <1>1, RowKeeps
  <2>4. \A x : x \in orphaned => x \in orphaned'
    BY <1>6 DEF PublishLost
  <2>5. \A r \in Records : zone'[r] = "up" => zone[r] = "up" \/ r \in orphaned'
    BY <1>1, <1>6 DEF PublishLost, NewRecord, ExtTypeOK
  <2>6. Loses({})
    BY <1>1, <1>6, <2>3, <2>4, <2>5, LosesIf DEF Accounted, StillUsed
  <2> QED
    BY <1>1, <2>2, <2>6, SoleKeeps DEF KeepInv
<1> QED
  BY <1>2, <1>3, <1>4, <1>5, <1>6 DEF Poll, AskProvider

-----------------------------------------------------------------------------
(* Everything else is plain, or does not concern the worker. *)

LEMMA DestroyKeeps ==
    ASSUME TypeOK, TypeOK', OneWorker, KeepInv, NEW w \in Workers, Destroy(w)
    PROVE  KeepInv' /\ Loses({})
<1>1. WorkerTypeOK /\ pc[w] = "destroy" /\ dep' = dep /\ orphaned' = orphaned
  BY TypeParts DEF Destroy, OnlyExternal, rowVars, At
<1>2. (\E x : DeleteDroplets(x)) /\ (\E x : DeleteRecords(x))
  BY DEF Destroy
<1>3. NoneMade
  BY <1>2 DEF NoneMade, DeleteDroplets, DeleteRecords
<1>4. Goto(w, "untrack") \/ Goto(w, "retry")
  BY DEF Destroy, AfterDestroyError
<1>5. pc'[w] \in {"untrack", "retry"} /\ ans'[w] \in {ans[w], NoAnswer}
  BY <1>1, <1>4, GotoEffect
<1> QED
  BY <1>1, <1>3, <1>5, PlainKeeps DEF Plain

LEMMA OtherKeeps ==
    ASSUME TypeOK, TypeOK', OneWorker, KeepInv, NEW w \in Workers,
           Track(w) \/ Successor(w) \/ ExpireSession(w) \/ ReadyFlag(w) \/ ReadySend(w)
           \/ EndFlag(w) \/ EndSend(w) \/ Untrack(w) \/ Close(w) \/ Enqueue(w) \/ Finish(w)
           \/ Retry(w)
    PROVE  KeepInv' /\ Loses({})
<1>1. WorkerTypeOK /\ dep \in Rows
  BY Sole
<1>2. Frozen /\ orphaned' = orphaned /\ pc[w] \notin {"record", "apply", "create"}
  BY DEF Track, Successor, ExpireSession, ReadyFlag, ReadySend, EndFlag, EndSend, Untrack, Close,
         Enqueue, Finish, Retry, OnlyRow, extVars, Frozen, At
<1>3. dep'.inst = dep.inst /\ dep'.rec = dep.rec
  BY <1>1 DEF Track, Successor, ExpireSession, ReadyFlag, ReadySend, EndFlag, EndSend, Untrack,
              Close, Enqueue, Finish, Retry, rowVars, Rows
<1>4. ASSUME pc'[w] \notin {"create", "record", "apply"}, ans'[w] \in {ans[w], NoAnswer}
      PROVE  KeepInv' /\ Loses({})
  BY <1>2, <1>3, <1>4, PlainKeeps, FrozenMakesNone DEF Plain
<1>5. CASE \E step \in Steps \ {"create", "record", "apply"} : Goto(w, step) \/ GotoWithRow(w, step)
  BY <1>1, <1>4, <1>5, GotoEffect, GotoWithRowEffect
<1>6. CASE Forget(w)
  BY <1>1, <1>4, <1>6, ForgetEffect
<1>7. CASE UNCHANGED workerVars
  BY <1>2, <1>4, <1>7 DEF workerVars
<1> QED
  BY <1>5, <1>6, <1>7
     DEF Track, Successor, ExpireSession, ReadyFlag, ReadySend, EndFlag, EndSend, Untrack, Close,
         Enqueue, Finish, Retry, Steps

\* The worker is not concerned: time, the API, and droplets deleted by hand.
LEMMA AwayKeeps ==
    ASSUME TypeOK, TypeOK', KeepInv, UNCHANGED <<pc, ans, orphaned>>, NoneMade,
           dep' = dep \/ dep' = [dep EXCEPT !.status = "terminating"]
    PROVE  KeepInv' /\ Loses({})
<1>1. ExtTypeOK /\ ExtTypeOK' /\ dep \in Rows
  BY TypeParts, ExtTypes DEF RowTypeOK
<1>2. /\ dep'.inst = dep.inst /\ dep'.rec = dep.rec
      /\ dep.status \in ActiveStatuses => dep'.status \in ActiveStatuses
  BY <1>1 DEF Rows, ActiveStatuses
<1>3. KeepInv'
  BY <1>2 DEF KeepInv, HoldsSafe, At
<1>4. \A x \in Droplets \cup Records : StillUsed(x)
  BY <1>2 DEF StillUsed, InUse
<1> QED
  BY <1>1, <1>3, <1>4, NothingLost

\* A worker between its jobs, and one that loses what it holds
LEMMA ReconcileKeeps ==
    ASSUME TypeOK, TypeOK', OneWorker, KeepInv, NEW w \in Workers, ClaimJobs(w) \/ Reconcile(w)
    PROVE  KeepInv' /\ Loses({})
<1>1. UNCHANGED <<dep, cloud, zone, orphaned, ans>> /\ pc[w] \in {"idle", "reconcile"}
  BY DEF ClaimJobs, Reconcile, ReconcileRead, ReconcileLedger, ReconcileEnqueue, OnlyWorker,
         rowVars, extVars, workerVars, At
<1>2. pc'[w] \in {"idle", "reconcile"}
  BY <1>1, Sole DEF ClaimJobs, Reconcile, ReconcileRead, ReconcileLedger, ReconcileEnqueue,
                    workerVars, WorkerTypeOK
<1> QED
  BY <1>1, <1>2, PlainKeeps DEF Plain, NoneMade

LEMMA DeathKeeps ==
    ASSUME TypeOK, TypeOK', OneWorker, KeepInv, NEW w \in Workers, Breaks(w)
    PROVE  KeepInv' /\ Loses({ans[w].inst, ans[w].rec})
<1>1. WorkerTypeOK /\ ExtTypeOK /\ ExtTypeOK' /\ UNCHANGED <<dep, cloud, zone, orphaned>>
  BY TypeParts, ExtTypes, BreaksEffect DEF rowVars, extVars
<1>2. pc'[w] \in {"idle", "retry"} /\ ans'[w] = NoAnswer
  BY BreaksEffect
<1>3. HoldsSafe(w)'
  BY <1>2 DEF HoldsSafe, At, NoAnswer
<1>4. \A x : InUse(x) => InUse(x)' \/ x \in {ans[w].inst, ans[w].rec}
  BY <1>1 DEF InUse, OneWorker
<1>5. Loses({ans[w].inst, ans[w].rec})
  BY <1>1, <1>4, LosesIf DEF Accounted
<1> QED
  BY <1>1, <1>3, <1>5, SoleKeeps DEF KeepInv

LEMMA NextKeeps ==
    ASSUME TypeOK, TypeOK', OneWorker, SettleInv, KeepInv, Next
    PROVE  /\ KeepInv'
           /\ \/ Loses({})
              \/ \E w \in Workers : Breaks(w) /\ Loses({ans[w].inst, ans[w].rec})
<1>1. CASE \E w \in Workers : JobStep(w)
  BY <1>1, BeginKeeps, CreateKeeps, RecordKeeps, PollKeeps, ApplyKeeps, DestroyKeeps, OtherKeeps
     DEF JobStep
<1>2. CASE \E w \in Workers : ClaimJobs(w) \/ Reconcile(w)
  BY <1>2, ReconcileKeeps
<1>3. CASE \E w \in Workers : Breaks(w)
  BY <1>3, DeathKeeps
<1>4. CASE \/ \E h \in Handlers : ApiReads(h) \/ ApiCommits(h) \/ ApiEnqueues(h)
           \/ ApiDies \/ Expire
  <2>1. Frozen /\ UNCHANGED <<pc, ans, orphaned>>
        /\ (dep' = dep \/ dep' = [dep EXCEPT !.status = "terminating"])
    BY <1>4 DEF ApiReads, ApiOnly, ApiCommits, ApiEnqueues, ApiDies, Expire, Frozen, extVars,
                rowVars, workerVars
  <2> QED
    BY <2>1, FrozenMakesNone, AwayKeeps
<1>5. CASE Vanish
  <2>1. UNCHANGED <<dep, zone, pc, ans, orphaned>>
    BY <1>5 DEF Vanish, OnlyExternal, rowVars, workerVars
  <2>2. NoneMade
    BY <1>5, <2>1, TypeParts DEF Vanish, NoneMade, ExtTypeOK
  <2> QED
    BY <2>1, <2>2, AwayKeeps
<1> QED
  BY <1>1, <1>2, <1>3, <1>4, <1>5 DEF Next, Breaks

-----------------------------------------------------------------------------
(* Counting *)

LEMMA OneMore ==
    ASSUME NEW S, NEW T, NEW x, IsFiniteSet(S), T \subseteq S \cup {x}
    PROVE  /\ IsFiniteSet(T)
           /\ Cardinality(T) \in Nat /\ Cardinality(S) \in Nat
           /\ Cardinality(T) <= Cardinality(S) + 1
<1>1. /\ IsFiniteSet(S \cup {x}) /\ Cardinality(S \cup {x}) \in Nat /\ Cardinality(S) \in Nat
      /\ Cardinality(S \cup {x}) <= Cardinality(S) + 1
  BY FS_AddElement, FS_CardinalityType
<1>2. /\ IsFiniteSet(T) /\ Cardinality(T) <= Cardinality(S \cup {x})
      /\ Cardinality(T) \in Nat
  BY <1>1, FS_Subset, FS_CardinalityType
<1> QED
  BY <1>1, <1>2

LEMMA StraysStep ==
    ASSUME TypeOK, TypeOK', OneWorker, SettleInv, StrayInv, Next
    PROVE  StrayInv'
<1>1. KeepInv /\ Few(cloud) /\ Few(zone)
  BY StrayParts
<1>2. crashes \in Nat /\ crashes' \in Nat /\ crashes <= crashes'
  BY CrashesCount
<1>3. CASE Loses({})
  <2>1. Strays(cloud)' \subseteq Strays(cloud) /\ Strays(zone)' \subseteq Strays(zone)
    BY <1>3 DEF Loses
  <2>2. /\ IsFiniteSet(Strays(cloud)') /\ Cardinality(Strays(cloud)') <= Cardinality(Strays(cloud))
        /\ IsFiniteSet(Strays(zone)') /\ Cardinality(Strays(zone)') <= Cardinality(Strays(zone))
    BY <1>1, <2>1, FS_Subset DEF Few
  <2>3. /\ Cardinality(Strays(cloud)) \in Nat /\ Cardinality(Strays(zone)) \in Nat
        /\ Cardinality(Strays(cloud)') \in Nat /\ Cardinality(Strays(zone)') \in Nat
    BY <1>1, <2>2, FS_CardinalityType DEF Few
  <2>4. Few(cloud)' /\ Few(zone)'
    BY <1>1, <1>2, <2>2, <2>3 DEF Few
  <2> QED
    BY <1>1, <2>4, NextKeeps, StrayParts
<1>4. CASE \E w \in Workers : Breaks(w) /\ Loses({ans[w].inst, ans[w].rec})
  <2>1. PICK w \in Workers : Breaks(w) /\ Loses({ans[w].inst, ans[w].rec})
    BY <1>4
  <2>2. ans[w].inst \in Droplets \cup {None} /\ ans[w].rec \in Records \cup {None}
    BY Sole DEF Answers
  <2>3. /\ Strays(cloud)' \subseteq Strays(cloud) \cup {ans[w].inst}
        /\ Strays(zone)' \subseteq Strays(zone) \cup {ans[w].rec}
    BY <2>1, <2>2, LifecycleAssumption DEF Loses
  <2>4. crashes' = crashes + 1
    BY <2>1, CrashesCount
  <2>5. /\ IsFiniteSet(Strays(cloud)') /\ Cardinality(Strays(cloud)') \in Nat
        /\ Cardinality(Strays(cloud)) \in Nat
        /\ Cardinality(Strays(cloud)') <= Cardinality(Strays(cloud)) + 1
    BY <1>1, <2>3, OneMore DEF Few
  <2>6. /\ IsFiniteSet(Strays(zone)') /\ Cardinality(Strays(zone)') \in Nat
        /\ Cardinality(Strays(zone)) \in Nat
        /\ Cardinality(Strays(zone)') <= Cardinality(Strays(zone)) + 1
    BY <1>1, <2>3, OneMore DEF Few
  <2>7. Few(cloud)' /\ Few(zone)'
    BY <1>1, <1>2, <2>4, <2>5, <2>6 DEF Few
  <2> QED
    BY <1>1, <2>7, NextKeeps, StrayParts
<1> QED
  BY <1>1, <1>3, <1>4, NextKeeps

LEMMA StrayInit == Init => StrayInv
<1> SUFFICES ASSUME Init PROVE StrayInv
  OBVIOUS
<1>1. Strays(cloud) = {} /\ Strays(zone) = {} /\ crashes = 0
  BY DEF Init, Strays
<1>2. Few(cloud) /\ Few(zone)
  BY <1>1, FS_EmptySet DEF Few
<1>3. KeepInv
  BY DEF Init, KeepInv, HoldsSafe, At, NewRow, NoAnswer
<1> QED
  BY <1>2, <1>3, StrayParts

LEMMA StrayInvariant ==
    ASSUME OneWorker
    PROVE  Spec => []StrayInv
<1>1. TypeOK /\ TypeOK' /\ SettleInv /\ StrayInv /\ [Next]_vars => StrayInv'
  <2>1. CASE UNCHANGED vars
    BY <2>1 DEF vars, queueVars, rowVars, extVars, workerVars, StrayInv, HoldsSafe, At, Few, Strays,
                InUse
  <2> QED
    BY <2>1, OneWorker, StraysStep
<1> QED
  BY <1>1, OneWorker, StrayInit, TypeCorrect, SettleInvariant, PTL DEF Spec

\* With one worker, however often it is retried, and through every crash and provider
\* fault, at most one droplet for each crash runs without being recorded in the row or
\* about to be, apart from those whose creation was answered by an error.  No claim is
\* added to the bound, as in StraysBounded: nobody takes the job of the only worker.
THEOREM StraysOfOneWorker ==
    ASSUME OneWorker
    PROVE  Spec => [](Cardinality(Strays(cloud)) <= crashes)
<1>1. StrayInv => Cardinality(Strays(cloud)) <= crashes
  BY DEF StrayInv, Few
<1> QED
  BY <1>1, OneWorker, StrayInvariant, PTL

\* Likewise for the DNS records it publishes.
THEOREM StrayRecordsAreBounded ==
    ASSUME OneWorker
    PROVE  Spec => []StrayRecordsBounded
<1>1. StrayInv => StrayRecordsBounded
  BY DEF StrayInv, Few, StrayRecordsBounded
<1> QED
  BY <1>1, OneWorker, StrayInvariant, PTL
=============================================================================
