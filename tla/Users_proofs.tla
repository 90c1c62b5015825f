---------------------------- MODULE Users_proofs ----------------------------
(***************************************************************************)
(* What users see: theorems of Lifecycle about the messages, for any       *)
(* number of workers, and about sessions that are ready, for one worker    *)
(* that does not die.                                                      *)
(***************************************************************************)
EXTENDS Bounds_proofs

Messages == {"ready", "ended"}

NoticeOf(m) ==
    /\ ~Flagged(m) => sent[m] = 0 /\ \A w \in Workers : ~At(w, SendStep(m))
    /\ sent[m] + Cardinality(Tellers(m)) <= Cardinality(Workers)

FlagStep(m) == IF m = "ready" THEN "ready_flag" ELSE "flag"

\* Where a worker is on its way to tell m
TellSteps(m) == {FlagStep(m), SendStep(m)}

LEMMA NoticeParts ==
    /\ NoticeInv <=> \A m \in Messages : NoticeOf(m)
    /\ NoticeInv' <=> \A m \in Messages : NoticeOf(m)'
BY DEF NoticeInv, NoticeOf, Messages

LEMMA WorkersCount ==
    ASSUME NEW S, NEW T, S \subseteq T, T \subseteq Workers
    PROVE  /\ Cardinality(S) \in Nat /\ Cardinality(T) \in Nat
           /\ Cardinality(S) <= Cardinality(T)
           /\ \A w \in T : w \notin S => Cardinality(S) + 1 <= Cardinality(T)
<1>1. IsFiniteSet(T) /\ IsFiniteSet(S)
  BY LifecycleAssumption, FS_Subset
<1>2. Cardinality(S) \in Nat /\ Cardinality(T) \in Nat /\ Cardinality(S) <= Cardinality(T)
  BY <1>1, FS_CardinalityType, FS_Subset
<1>3. ASSUME NEW w \in T, w \notin S
      PROVE  Cardinality(S) + 1 <= Cardinality(T)
  <2>1. IsFiniteSet(T \ {w}) /\ Cardinality(T \ {w}) = Cardinality(T) - 1
    BY <1>1, FS_RemoveElement
  <2>2. Cardinality(S) <= Cardinality(T \ {w})
    BY <1>3, <2>1, FS_Subset
  <2> QED
    BY <1>2, <2>1, <2>2
<1> QED
  BY <1>2, <1>3

-----------------------------------------------------------------------------
(* What a step may do to the messages of one kind *)

SentOK == sent \in [Messages -> Nat]

SameNotices == sent' = sent /\ dep'.told = dep.told /\ dep'.ended = dep.ended

\* Only w moves.
MovesOnly(w) == \A v \in Workers : v # w => pc'[v] = pc[v]

LEMMA QuietStep ==
    ASSUME SentOK, NEW m \in Messages, NoticeOf(m), NEW w \in Workers, MovesOnly(w), SameNotices,
           pc'[w] \notin TellSteps(m) \/ pc'[w] = pc[w]
    PROVE  NoticeOf(m)'
<1>1. Tellers(m)' \subseteq Tellers(m) /\ Tellers(m) \subseteq Workers
  BY DEF Tellers, MovesOnly, TellSteps, FlagStep
<1>2. /\ Cardinality(Tellers(m)') <= Cardinality(Tellers(m))
      /\ Cardinality(Tellers(m)) \in Nat /\ Cardinality(Tellers(m)') \in Nat
      /\ Cardinality(Workers) \in Nat
  BY <1>1, WorkersCount
<1>3. sent'[m] = sent[m] /\ sent[m] \in Nat
  BY DEF SameNotices, SentOK
<1>4. Flagged(m)' = Flagged(m)
  BY DEF SameNotices, Flagged
<1>5. \A v \in Workers : At(v, SendStep(m))' => At(v, SendStep(m))
  BY DEF At, MovesOnly, TellSteps
<1> QED
  BY <1>2, <1>3, <1>4, <1>5 DEF NoticeOf

\* A worker that found the flag unset is about to set it: nobody has sent m yet.
LEMMA AnnounceStep ==
    ASSUME SentOK, NEW m \in Messages, NoticeOf(m), NEW w \in Workers, MovesOnly(w), SameNotices,
           ~Flagged(m), pc'[w] = FlagStep(m)
    PROVE  NoticeOf(m)'
<1>1. Tellers(m)' \subseteq Workers
  BY DEF Tellers
<1>2. Cardinality(Tellers(m)') <= Cardinality(Workers) /\ Cardinality(Tellers(m)') \in Nat
  BY <1>1, WorkersCount
<1>3. sent'[m] = 0
  BY DEF SameNotices, NoticeOf
<1>4. \A v \in Workers : ~At(v, SendStep(m))'
  BY DEF At, MovesOnly, NoticeOf, FlagStep, SendStep
<1> QED
  BY <1>2, <1>3, <1>4 DEF NoticeOf

\* The flag is set.
LEMMA FlagCounts ==
    ASSUME SentOK, NEW m \in Messages, NoticeOf(m), NEW w \in Workers, MovesOnly(w), sent' = sent,
           At(w, FlagStep(m)), pc'[w] = SendStep(m), Flagged(m)'
    PROVE  NoticeOf(m)'
<1>1. Tellers(m)' \subseteq Tellers(m) /\ Tellers(m) \subseteq Workers
  BY DEF Tellers, MovesOnly, FlagStep, At
<1>2. /\ Cardinality(Tellers(m)') <= Cardinality(Tellers(m))
      /\ Cardinality(Tellers(m)) \in Nat /\ Cardinality(Tellers(m)') \in Nat
      /\ Cardinality(Workers) \in Nat
  BY <1>1, WorkersCount
<1>3. sent'[m] = sent[m] /\ sent[m] \in Nat
  BY DEF SentOK
<1> QED
  BY <1>2, <1>3 DEF NoticeOf

\* The message is sent.
LEMMA SendCounts ==
    ASSUME SentOK, NEW m \in Messages, NoticeOf(m), NEW w \in Workers, MovesOnly(w),
           sent'[m] = sent[m] + 1, At(w, SendStep(m)), pc'[w] \notin TellSteps(m),
           Flagged(m)' = Flagged(m)
    PROVE  NoticeOf(m)'
<1>1. /\ Tellers(m)' \subseteq Tellers(m) /\ Tellers(m) \subseteq Workers
      /\ w \in Tellers(m) /\ w \notin Tellers(m)'
  BY DEF Tellers, MovesOnly, TellSteps, FlagStep, At
<1>2. /\ Cardinality(Tellers(m)') + 1 <= Cardinality(Tellers(m))
      /\ Cardinality(Tellers(m)) \in Nat /\ Cardinality(Tellers(m)') \in Nat
      /\ Cardinality(Workers) \in Nat
  BY <1>1, WorkersCount
<1>3. sent[m] \in Nat /\ Flagged(m)
  BY DEF SentOK, NoticeOf
<1> QED
  BY <1>2, <1>3 DEF NoticeOf

\* A step about the other kind of message
LEMMA OtherKind ==
    ASSUME SentOK, NEW m \in Messages, NoticeOf(m), NEW w \in Workers, MovesOnly(w),
           sent'[m] = sent[m], Flagged(m)' = Flagged(m), pc'[w] \notin TellSteps(m)
    PROVE  NoticeOf(m)'
<1>1. Tellers(m)' \subseteq Tellers(m) /\ Tellers(m) \subseteq Workers
  BY DEF Tellers, MovesOnly, TellSteps, FlagStep
<1>2. /\ Cardinality(Tellers(m)') <= Cardinality(Tellers(m))
      /\ Cardinality(Tellers(m)) \in Nat /\ Cardinality(Tellers(m)') \in Nat
      /\ Cardinality(Workers) \in Nat
  BY <1>1, WorkersCount
<1>3. \A v \in Workers : At(v, SendStep(m))' => At(v, SendStep(m))
  BY DEF At, MovesOnly, TellSteps
<1> QED
  BY <1>2, <1>3 DEF NoticeOf, SentOK

-----------------------------------------------------------------------------
(* The steps *)

\* Which steps change neither the flags nor what was sent
LEMMA NoticesSame ==
    ASSUME TypeOK, Next,
           \A w \in Workers : ~(ReadyFlag(w) \/ EndFlag(w) \/ ReadySend(w) \/ EndSend(w))
    PROVE  SameNotices
<1>1. CASE UNCHANGED <<dep, sent>>
  BY <1>1 DEF SameNotices
<1>2. CASE \E w \in Workers : Begin(w)
  BY <1>1, <1>2 DEF Begin, BeginProvision, BeginRefresh, BeginDestroy, Take, OnlyWorker, rowVars
<1>3. CASE \E w \in Workers : Create(w) \/ Poll(w) \/ Destroy(w)
  BY <1>1, <1>3 DEF Create, Poll, AskProvider, Destroy, OnlyExternal, rowVars
<1>4. CASE \E w \in Workers : Track(w) \/ Successor(w) \/ Untrack(w) \/ Enqueue(w) \/ Finish(w)
                              \/ ClaimJobs(w) \/ Reconcile(w) \/ Breaks(w)
  BY <1>1, <1>4 DEF Track, Successor, Untrack, Enqueue, Finish, ClaimJobs, Reconcile, ReconcileRead,
     ReconcileLedger, ReconcileEnqueue, OnlyWorker, Breaks, WorkerDies, HandlerRaises, rowVars
<1>5. CASE \E w \in Workers : Record(w) \/ Apply(w)
  <2>1. PICK w \in Workers : Record(w) \/ Apply(w)
    BY <1>5
  <2>2. /\ ApplyProviderData(dep, ans[w]) \in Rows
        /\ ApplyProviderData(dep, ans[w]).told = dep.told
        /\ ApplyProviderData(dep, ans[w]).ended = dep.ended
    BY Sole DEF ApplyProviderData, Rows, Answers
  <2>3. /\ ApplyProviderPatch(dep, ans[w]) \in Rows
        /\ ApplyProviderPatch(dep, ans[w]).told = dep.told
        /\ ApplyProviderPatch(dep, ans[w]).ended = dep.ended
    BY Sole DEF ApplyProviderPatch, Rows, Answers
  <2> QED
    BY <2>1, <2>2, <2>3 DEF Record, Apply, OnlyRow, SameNotices, Rows, rowVars
<1>6. CASE \E w \in Workers : ExpireSession(w) \/ Close(w) \/ Retry(w)
  BY <1>6, Sole DEF ExpireSession, Close, Retry, OnlyRow, SameNotices, Rows
<1>7. CASE \E h \in Handlers : ApiCommits(h)
  BY <1>7, TypeParts DEF ApiCommits, SameNotices, RowTypeOK, Rows
<1>8. CASE (\E h \in Handlers : ApiReads(h) \/ ApiEnqueues(h)) \/ ApiDies \/ Expire \/ Vanish
  BY <1>1, <1>8 DEF ApiReads, ApiOnly, ApiEnqueues, ApiDies, Expire, Vanish, OnlyExternal, rowVars
<1> QED
  BY <1>2, <1>3, <1>4, <1>5, <1>6, <1>7, <1>8 DEF Next, Breaks, JobStep

\* The worker that commits a flag or sends
LEMMA NotifyStep ==
    ASSUME TypeOK, NEW m \in Messages, NoticeOf(m), NEW w \in Workers,
           ReadyFlag(w) \/ EndFlag(w) \/ ReadySend(w) \/ EndSend(w)
    PROVE  NoticeOf(m)'
<1>0. SentOK /\ WorkerTypeOK /\ dep \in Rows
  BY TypeParts, Sole DEF RestTypeOK, SentOK, Messages
<1> USE DEF Messages, FlagStep, SendStep, TellSteps, Flagged
<1>1. CASE ReadyFlag(w)
  <2>1. /\ pc'[w] = "ready_send" /\ MovesOnly(w) /\ At(w, "ready_flag")
        /\ dep'.told /\ dep'.ended = dep.ended /\ sent' = sent
    BY <1>0, <1>1, GotoEffect DEF ReadyFlag, OnlyRow, Rows, MovesOnly, OthersRest, Rests
  <2>2. CASE m = "ready"
    BY <1>0, <2>1, <2>2, FlagCounts
  <2>3. CASE m = "ended"
    BY <1>0, <2>1, <2>3, OtherKind
  <2> QED
    BY <2>2, <2>3
<1>2. CASE EndFlag(w)
  <2>1. /\ pc'[w] = "send" /\ MovesOnly(w) /\ At(w, "flag")
        /\ dep'.ended /\ dep'.told = dep.told /\ sent' = sent
    BY <1>0, <1>2, GotoEffect DEF EndFlag, OnlyRow, Rows, MovesOnly, OthersRest, Rests
  <2>2. CASE m = "ended"
    BY <1>0, <2>1, <2>2, FlagCounts
  <2>3. CASE m = "ready"
    BY <1>0, <2>1, <2>3, OtherKind
  <2> QED
    BY <2>2, <2>3
<1>3. CASE ReadySend(w)
  <2>1. pc'[w] = "finish" /\ MovesOnly(w) /\ At(w, "ready_send") /\ dep' = dep
    BY <1>0, <1>3, GotoEffect DEF ReadySend, rowVars, MovesOnly, OthersRest, Rests
  <2>2. sent'["ready"] = sent["ready"] + 1 /\ sent'["ended"] = sent["ended"]
    BY <1>0, <1>3 DEF ReadySend, SentOK
  <2>3. CASE m = "ready"
    BY <1>0, <2>1, <2>2, <2>3, SendCounts
  <2>4. CASE m = "ended"
    BY <1>0, <2>1, <2>2, <2>4, OtherKind
  <2> QED
    BY <2>3, <2>4
<1>4. CASE EndSend(w)
  <2>1. pc'[w] \in {"finish", "destroy"} /\ MovesOnly(w) /\ At(w, "send") /\ dep' = dep
    BY <1>0, <1>4, GotoEffect DEF EndSend, rowVars, MovesOnly, OthersRest, Rests
  <2>2. sent'["ended"] = sent["ended"] + 1 /\ sent'["ready"] = sent["ready"]
    BY <1>0, <1>4 DEF EndSend, SentOK
  <2>3. CASE m = "ended"
    BY <1>0, <2>1, <2>2, <2>3, SendCounts
  <2>4. CASE m = "ready"
    BY <1>0, <2>1, <2>2, <2>4, OtherKind
  <2> QED
    BY <2>3, <2>4
<1> QED
  BY <1>1, <1>2, <1>3, <1>4

Notifying == {"flag", "send", "ready_flag", "ready_send"}

LEMMA TellIsNotifying == \A m \in Messages : TellSteps(m) \subseteq Notifying
BY DEF TellSteps, FlagStep, SendStep, Notifying, Messages

\* The steps of a job that may lead to a notification, and the others
LEMMA JobNotices ==
    ASSUME TypeOK, NEW m \in Messages, NoticeOf(m), NEW w \in Workers, JobStep(w), SameNotices,
           ~(ReadyFlag(w) \/ EndFlag(w) \/ ReadySend(w) \/ EndSend(w))
    PROVE  NoticeOf(m)'
<1>1. WorkerTypeOK /\ SentOK
  BY Sole, TypeParts DEF RestTypeOK, SentOK, Messages
<1>2. ASSUME MovesOnly(w), pc'[w] \notin Notifying \/ pc'[w] = pc[w]
      PROVE  NoticeOf(m)'
  BY <1>1, <1>2, QuietStep, TellIsNotifying
<1>3. ASSUME MovesOnly(w),
             \/ pc'[w] = "flag" /\ ~dep.ended
             \/ pc'[w] = "ready_flag" /\ ~dep.told
      PROVE  NoticeOf(m)'
  <2>1. CASE pc'[w] \in TellSteps(m)
    <3>1. pc'[w] = FlagStep(m) /\ ~Flagged(m)
      BY <1>3, <2>1 DEF TellSteps, FlagStep, SendStep, Flagged, Messages
    <3> QED
      BY <1>1, <1>3, <3>1, AnnounceStep
  <2>2. CASE pc'[w] \notin TellSteps(m)
    BY <1>1, <1>3, <2>2, QuietStep
  <2> QED
    BY <2>1, <2>2
<1>4. CASE \E step \in Steps \ Notifying : Goto(w, step) \/ GotoWithRow(w, step)
                                \/ (\E j \in JobIds : Take(w, j, step))
                                \/ (\E a : Answered(w, step, a))
  <2>1. pc'[w] \notin Notifying /\ OthersRest(w)
    BY <1>1, <1>4, GotoEffect, GotoWithRowEffect, TakeEffect, AnsweredEffect
  <2> QED
    BY <1>2, <2>1 DEF OthersRest, Rests, MovesOnly
<1>5. CASE Forget(w)
  <2>1. pc'[w] \notin Notifying /\ OthersRest(w)
    BY <1>1, <1>5, ForgetEffect DEF Notifying
  <2> QED
    BY <1>2, <2>1 DEF OthersRest, Rests, MovesOnly
<1>6. CASE UNCHANGED workerVars
  BY <1>2, <1>6 DEF workerVars, MovesOnly
<1>7. CASE Begin(w)
  <2>1. PICK j \in JobIds : BeginProvision(w, j) \/ BeginRefresh(w, j) \/ BeginDestroy(w, j)
    BY <1>7 DEF Begin
  <2>2. CASE ~dep.ended /\ Take(w, j, "flag")
    BY <1>1, <1>3, <2>2, TakeEffect DEF OthersRest, Rests, MovesOnly
  <2>3. CASE \E step \in Steps \ Notifying : Take(w, j, step)
    BY <1>4, <2>3
  <2> QED
    BY <2>1, <2>2, <2>3 DEF BeginProvision, BeginRefresh, BeginDestroy, FailedStep, Steps, Notifying
<1>8. CASE Apply(w)
  <2>1. GotoWithRow(w, AfterApply(dep'))
    BY <1>8 DEF Apply
  <2>2. pc'[w] = AfterApply(dep') /\ MovesOnly(w)
    BY <1>1, <2>1, GotoWithRowEffect DEF OthersRest, Rests, MovesOnly
  <2>3. AfterApply(dep') \notin Notifying \/ (AfterApply(dep') = "flag" /\ ~dep'.ended)
        \/ (AfterApply(dep') = "ready_flag" /\ ~dep'.told)
    BY DEF AfterApply, FailedStep, Notifying
  <2> QED
    BY <1>2, <1>3, <2>2, <2>3 DEF SameNotices
<1>9. CASE Close(w)
  <2>1. (pc'[w] = "finish" \/ (pc'[w] = "flag" /\ ~dep.ended)) /\ MovesOnly(w)
    BY <1>1, <1>9, GotoWithRowEffect DEF Close, OthersRest, Rests, MovesOnly
  <2> QED
    BY <1>2, <1>3, <2>1 DEF Notifying
<1> QED
  BY <1>4, <1>5, <1>6, <1>7, <1>8, <1>9
     DEF JobStep, Create, Record, Track, Poll, AskProvider, Successor, ExpireSession, Destroy,
         Untrack, Enqueue,
         Finish, Retry, AfterDestroyError, Steps, Notifying

LEMMA NoticeStep ==
    ASSUME TypeOK, NEW m \in Messages, NoticeOf(m), Next
    PROVE  NoticeOf(m)'
<1>0. SentOK
  BY TypeParts DEF RestTypeOK, SentOK, Messages
<1>1. CASE \E w \in Workers : ReadyFlag(w) \/ EndFlag(w) \/ ReadySend(w) \/ EndSend(w)
  BY <1>1, NotifyStep
<1>2. CASE \A w \in Workers : ~(ReadyFlag(w) \/ EndFlag(w) \/ ReadySend(w) \/ EndSend(w))
  <2>1. SameNotices
    BY <1>2, NoticesSame
  <2>2. CASE \E w \in Workers : JobStep(w)
    BY <1>2, <2>1, <2>2, JobNotices
  <2>3. CASE \E w \in Workers : ClaimJobs(w) \/ Reconcile(w) \/ Breaks(w)
    <3>1. PICK w \in Workers : ClaimJobs(w) \/ Reconcile(w) \/ Breaks(w)
      BY <2>3
    <3>2. MovesOnly(w) /\ (pc'[w] \notin Notifying \/ pc'[w] = pc[w])
      BY <3>1, Sole, BreaksEffect
         DEF ClaimJobs, Reconcile, ReconcileRead, ReconcileLedger, ReconcileEnqueue,
             workerVars, WorkerTypeOK, At, Notifying, MovesOnly, OthersRest, Rests
    <3> QED
      BY <1>0, <2>1, <3>2, QuietStep, TellIsNotifying
  <2>4. CASE UNCHANGED pc
    BY <2>1, <2>4 DEF NoticeOf, Tellers, Flagged, SameNotices, At
  <2> QED
    BY <2>2, <2>3, <2>4
       DEF Next, Breaks, ApiReads, ApiOnly, ApiCommits, ApiEnqueues, ApiDies, Expire, Vanish,
           workerVars
<1> QED
  BY <1>1, <1>2

LEMMA NoticeInit == Init => NoticeInv
<1> SUFFICES ASSUME Init, NEW m \in Messages PROVE NoticeOf(m)
  BY NoticeParts
<1>1. Tellers(m) = {} /\ sent[m] = 0 /\ \A w \in Workers : ~At(w, SendStep(m))
  BY DEF Init, Tellers, SendStep, At, Messages
<1>2. Cardinality(Tellers(m)) <= Cardinality(Workers) /\ Cardinality(Tellers(m)) \in Nat
  BY <1>1, WorkersCount
<1> QED
  BY <1>1, <1>2 DEF NoticeOf

LEMMA NoticeInvariant == Spec => []NoticeInv
<1>1. TypeOK /\ NoticeInv /\ [Next]_vars => NoticeInv'
  <2>1. CASE UNCHANGED vars
    BY <2>1 DEF vars, rowVars, workerVars, NoticeInv, Tellers, Flagged, At
  <2>2. CASE TypeOK /\ NoticeInv /\ Next
    BY <2>2, NoticeParts, NoticeStep
  <2> QED
    BY <2>1, <2>2
<1> QED
  BY <1>1, NoticeInit, TypeCorrect, PTL DEF Spec

\* However many workers there are, each tells the user at most once that the session is
\* ready and at most once that it ended, whatever is retried, taken over or enqueued again.
THEOREM NoticesAreBounded == Spec => []NoticesBounded
<1>1. TypeOK /\ NoticeInv => NoticesBounded
  <2> SUFFICES ASSUME TypeOK, NoticeInv, NEW m \in DOMAIN sent
               PROVE  sent[m] <= Cardinality(Workers)
    BY DEF NoticesBounded
  <2>1. SentOK /\ m \in Messages
    BY TypeParts DEF RestTypeOK, SentOK, Messages
  <2>2. Cardinality(Tellers(m)) \in Nat /\ Cardinality(Workers) \in Nat
    BY WorkersCount DEF Tellers
  <2> QED
    BY <2>1, <2>2, NoticeParts DEF NoticeOf, SentOK
<1> QED
  BY <1>1, NoticeInvariant, TypeCorrect, PTL

\* With one worker a user is told once that the session is ready and once that it ended.
THEOREM NoticesOnce ==
    ASSUME OneWorker
    PROVE  Spec => []OneNotice
<1>1. Cardinality(Workers) \in {0, 1}
  <2>1. CASE Workers = {}
    BY <2>1, FS_EmptySet
  <2>2. CASE Workers # {}
    <3>1. PICK w : Workers = {w}
      BY <2>2, OneWorker DEF OneWorker
    <3> QED
      BY <3>1, FS_Singleton
  <2> QED
    BY <2>1, <2>2
<1>2. TypeOK /\ NoticesBounded => OneNotice
  BY <1>1, TypeParts DEF RestTypeOK, NoticesBounded, OneNotice
<1> QED
  BY <1>2, NoticesAreBounded, TypeCorrect, PTL

-----------------------------------------------------------------------------
(* Ready stays ready: the invariant                                          *)

\* Until a crash, the expiry or a DELETE, a provision or refresh job goes on by one
\* successor that is there before it is finished, and the reconciliation adds none.
Calm == crashes = 0 /\ ~past /\ ~asked

\* Jobs of the kinds ks that are not over
Ongoing(ks) == {j \in JobIds : (Active(j) \/ Held(j)) /\ jobs[j].kind \in ks}

\* The jobs that go on with the deployment
Onwards == Ongoing({"provision", "refresh"})

\* What each step of a handler knows of the row
StatusAt(w) ==
    /\ ~At(w, "expire")
    /\ pc[w] \in {"create", "record"} => Kind(w) = "provision" /\ dep.status = "queued"
    /\ pc[w] \in {"track", "enqueue"} => Kind(w) = "provision" /\ dep.status = "initializing"
    /\ pc[w] \in {"poll", "apply", "successor"} =>
         Kind(w) = "refresh" /\ dep.status \in {"initializing", "deploying"}
    /\ At(w, "poll") => snap[w].status = dep.status
    /\ At(w, "apply") => ans[w].status \notin {"queued", "terminating", "expired"}
    /\ pc[w] \in {"ready_flag", "ready_send"} => Kind(w) = "refresh" /\ dep.status = "ready"
    /\ pc[w] \in {"flag", "send"} =>
         dep.status \in TerminalStatuses /\ (Kind(w) = "refresh" => snap[w].status = dep.status)
    /\ pc[w] \in {"flag", "send", "destroy", "untrack", "close"} =>
         Kind(w) \in {"refresh", "terminate", "cleanup"}
    /\ pc[w] \in {"destroy", "untrack", "close"} /\ Kind(w) = "refresh" => dep.status = "failed"
    /\ At(w, "retry") /\ FailsDeployment(w) =>
         dep.status \in {"queued", "initializing", "deploying", "failed"}

\* What a pass has still to enqueue still fits the row.
PlanFits(w) ==
    /\ todo[w] # {} => At(w, "reconcile")
    /\ At(w, "reconcile") => held[w] = {}
    /\ "terminate" \notin todo[w]
    /\ "provision" \in todo[w] => dep.status = "queued"
    /\ "refresh" \in todo[w] => dep.status \in {"initializing", "deploying", "failed"}
    /\ "cleanup" \in todo[w] => dep.status \in {"terminated", "expired"}
    /\ checked[w] # NoKind =>
         \/ checked[w] \in todo[w] /\ (checked[w] = "cleanup" \/ Onwards = {})
         \/ At(w, "enqueue") /\ checked[w] = "refresh"

\* Of the jobs that go on there is one, save the job that is about to end and its successor,
\* and it fits the row.
OneOnwards(w) ==
    /\ \A i, j \in Onwards : i = j \/ (At(w, "finish") /\ cur[w] \in {i, j})
    /\ \A j \in Onwards :
         /\ jobs[j].kind = "provision" =>
              dep.status = "queued" \/ (j = cur[w] /\ pc[w] \in {"track", "enqueue", "finish"})
         /\ jobs[j].kind = "refresh" => dep.status # "queued"
         /\ dep.status = "ready" => j = cur[w] /\ pc[w] \in {"ready_flag", "ready_send", "finish"}

\* Why a ready session stays ready, with one worker
StableInv ==
    Calm =>
        /\ dep.status # "terminating"
        /\ \A h \in Handlers :
             /\ checked[h] = NoKind
             /\ \/ api[h] = "idle"
                \/ api[h] = "seen" /\ h \in Gets
                \/ api[h] = "write" /\ h \in Deletes
        /\ \A w \in Workers : StatusAt(w) /\ PlanFits(w) /\ OneOnwards(w)
        /\ Ongoing({"terminate", "cleanup"}) # {} => dep.status \in {"terminated", "expired"}

-----------------------------------------------------------------------------
(* Which jobs go on with a deployment, before and after each way to change   *)
(* the table                                                                 *)

Ahead == {"provision", "refresh"}

Ends == Ongoing({"terminate", "cleanup"})

LEMMA SameOngoing ==
    ASSUME jobs' = jobs, held' = held, NEW ks
    PROVE  Ongoing(ks)' = Ongoing(ks)
BY DEF Ongoing, Active, Held

LEMMA InsertOngoing ==
    ASSUME QueueTypeOK, NEW k \in Kinds, Insert(k), held' = held
    PROVE  \E new \in JobIds :
             /\ jobs'[new].kind = k
             /\ \A i \in JobIds : i # new => jobs'[i] = jobs[i]
             /\ \A ks : /\ new \notin Ongoing(ks)
                        /\ Ongoing(ks)' = IF k \in ks THEN Ongoing(ks) \cup {new} ELSE Ongoing(ks)
<1>1. PICK new \in JobIds :
        /\ Fresh(new)
        /\ jobs' = [jobs EXCEPT ![new] = [status |-> "queued", kind |-> k, attempts |-> 0]]
  BY QueueAssumption DEF Insert, Free
<1>2. /\ jobs'[new].kind = k /\ jobs'[new].status = "queued"
      /\ \A i \in JobIds : i # new => jobs'[i] = jobs[i]
  BY <1>1 DEF QueueTypeOK
<1>3. \A i \in JobIds : Held(i)' <=> Held(i)
  BY DEF Held
<1>4. ~Active(new) /\ ~Held(new)
  BY <1>1 DEF Fresh
<1>5. Active(new)' /\ \A i \in JobIds : i # new => (Active(i)' <=> Active(i))
  BY <1>2 DEF Active
<1>6. ASSUME NEW ks
      PROVE  /\ new \notin Ongoing(ks)
             /\ Ongoing(ks)' = IF k \in ks THEN Ongoing(ks) \cup {new} ELSE Ongoing(ks)
  BY <1>2, <1>3, <1>4, <1>5 DEF Ongoing
<1> QED
  BY <1>2, <1>6

LEMMA ClaimOngoing ==
    ASSUME QueueTypeOK, OneWorker, NEW w \in Workers, Claim(w)
    PROVE  /\ \A j \in JobIds : jobs'[j].kind = jobs[j].kind
           /\ \A ks : Ongoing(ks)' = Ongoing(ks)
<1>1. PICK batch \in SUBSET Due : ClaimBatch(w, batch)
  BY DEF Claim
<1>2. \A j \in JobIds : /\ jobs'[j] = IF j \in batch THEN Claimed(jobs[j]) ELSE jobs[j]
                        /\ jobs[j] \in JobRows
  BY <1>1 DEF ClaimBatch, QueueTypeOK
<1>3. \A j \in JobIds : /\ jobs'[j].kind = jobs[j].kind
                        /\ j \in batch => jobs'[j].status = "running"
  BY <1>2 DEF Claimed, JobRows
<1>4. \A j \in batch : j \in JobIds /\ Active(j)
  BY DEF Due, Claimable, Active
<1>5. \A j \in JobIds : (Active(j) \/ Held(j))' <=> Active(j) \/ Held(j)
  <2>1. \A j \in JobIds : (Held(j)' <=> j \in batch) /\ ~Held(j)
    BY <1>1 DEF ClaimBatch, Held, OneWorker, QueueTypeOK
  <2> QED
    BY <1>2, <1>3, <1>4, <2>1 DEF Active
<1> QED
  BY <1>3, <1>5 DEF Ongoing

LEMMA ReleaseOngoing ==
    ASSUME QueueTypeOK, OneWorker, NEW w \in Workers, NEW j \in JobIds,
           NEW s \in {"done", "failed", "queued"}, Release(w, j, s)
    PROVE  /\ \A i \in JobIds : i # j => jobs'[i] = jobs[i]
           /\ s = "queued" => jobs'[j].kind = jobs[j].kind
           /\ \A ks : Ongoing(ks)' = IF s = "queued" THEN Ongoing(ks) ELSE Ongoing(ks) \ {j}
<1>1. jobs[j] \in JobRows /\ j \in held[w] /\ held'[w] = held[w] \ {j}
  BY DEF Release, QueueTypeOK
<1>2. jobs' = [jobs EXCEPT ![j] = IF s # "queued" THEN NoJob ELSE [jobs[j] EXCEPT !.status = s]]
  BY DEF Release, OneWorker
<1>3. \A i \in JobIds : i # j => jobs'[i] = jobs[i]
  BY <1>2 DEF QueueTypeOK
<1>4. \A i \in JobIds : i # j => ((Active(i) \/ Held(i))' <=> Active(i) \/ Held(i))
  BY <1>1, <1>3 DEF Active, Held, OneWorker
<1>5. ~Held(j)' /\ Held(j)
  BY <1>1 DEF Held, OneWorker
<1>6. CASE s = "queued"
  <2>1. jobs'[j].kind = jobs[j].kind /\ Active(j)'
    BY <1>1, <1>2, <1>6 DEF Active, QueueTypeOK, JobRows
  <2> QED
    BY <1>3, <1>4, <1>5, <1>6, <2>1 DEF Ongoing
<1>7. CASE s # "queued"
  <2>1. ~Active(j)'
    BY <1>2, <1>7 DEF Active, NoJob, QueueTypeOK
  <2> QED
    BY <1>3, <1>4, <1>5, <1>7, <2>1 DEF Ongoing
<1> QED
  BY <1>6, <1>7

-----------------------------------------------------------------------------
(* The invariant, for the one worker there is *)

ApiCalm ==
    \A h \in Handlers :
        /\ checked[h] = NoKind
        /\ \/ api[h] = "idle"
           \/ api[h] = "seen" /\ h \in Gets
           \/ api[h] = "write" /\ h \in Deletes

EndsFit == Ends # {} => dep.status \in {"terminated", "expired"}

\* What StableInv says of worker w
StableOf(w) ==
    /\ dep.status # "terminating"
    /\ ApiCalm /\ EndsFit
    /\ StatusAt(w) /\ PlanFits(w) /\ OneOnwards(w)

LEMMA StableParts ==
    ASSUME OneWorker, NEW w \in Workers
    PROVE  /\ StableInv <=> (Calm => StableOf(w))
           /\ StableInv' <=> (Calm' => StableOf(w)')
BY DEF StableInv, StableOf, ApiCalm, EndsFit, Ends, OneWorker

\* What the table says is as before.
SameTable == UNCHANGED <<jobs, held, checked>>

LEMMA SameTableFacts ==
    ASSUME SameTable
    PROVE  /\ Onwards' = Onwards /\ Ends' = Ends
           /\ jobs' = jobs /\ held' = held /\ checked' = checked
BY SameOngoing DEF SameTable, Onwards, Ends

\* A job that goes on, when no other does, and what its kind says of the row
LEMMA SoleOnwards ==
    ASSUME NEW w \in Workers, OneOnwards(w), AtWork(w), cur[w] \in JobIds, ~At(w, "finish"),
           pc[w] \notin {"idle", "reconcile"}, Kind(w) \in Ahead
    PROVE  Onwards = {cur[w]}
<1>1. cur[w] \in Onwards
  BY DEF AtWork, Onwards, Ongoing, Held, Kind, Ahead
<1> QED
  BY <1>1 DEF OneOnwards

LEMMA CurIsJob ==
    ASSUME QueueTypeOK, NEW w \in Workers, AtWork(w), pc[w] \notin {"idle", "reconcile"}
    PROVE  cur[w] \in JobIds
BY DEF AtWork, QueueTypeOK

\* Between its jobs and its passes a worker has nothing to enqueue, so a step inside a
\* job keeps PlanFits.
LEMMA JobKeepsPlan ==
    ASSUME NEW w \in Workers, PlanFits(w), pc[w] # "reconcile", pc'[w] # "reconcile",
           todo'[w] = todo[w],
           checked'[w] = NoKind \/ (pc'[w] = "enqueue" /\ checked'[w] = "refresh")
    PROVE  PlanFits(w)'
BY DEF PlanFits, At

\* Steps that leave the table and the status as they are
LEMMA SameStatusOnwards ==
    ASSUME NEW w \in Workers, OneOnwards(w), SameTable, dep'.status = dep.status,
           pc[w] \in {"idle", "reconcile"} \/ cur'[w] = cur[w],
           pc[w] # "finish",
           pc[w] \in {"track", "enqueue"} => pc'[w] \in {"track", "enqueue", "finish"},
           pc[w] \in {"ready_flag", "ready_send"} => pc'[w] \in {"ready_flag", "ready_send", "finish"}
    PROVE  OneOnwards(w)'
<1>1. Onwards' = Onwards /\ jobs' = jobs
  BY SameTableFacts
<1>2. \A i, j \in Onwards : i = j
  BY DEF OneOnwards, At
<1>3. ASSUME NEW j \in Onwards
      PROVE  /\ jobs[j].kind = "provision" =>
                  dep.status = "queued" \/ (j = cur'[w] /\ pc'[w] \in {"track", "enqueue", "finish"})
             /\ jobs[j].kind = "refresh" => dep.status # "queued"
             /\ dep.status = "ready" =>
                  j = cur'[w] /\ pc'[w] \in {"ready_flag", "ready_send", "finish"}
  BY DEF OneOnwards
<1> QED
  BY <1>1, <1>2, <1>3 DEF OneOnwards

\* A step inside a job that leaves the table alone and the status as it is
LEMMA CalmMove ==
    ASSUME NEW w \in Workers, StableOf(w), SameTable, UNCHANGED <<api, todo>>,
           dep'.status = dep.status,
           pc[w] = "idle" \/ cur'[w] = cur[w],
           pc[w] \notin {"reconcile", "finish"}, pc'[w] # "reconcile",
           pc[w] = "enqueue" => checked[w] = NoKind \/ pc'[w] = "enqueue",
           pc[w] \in {"track", "enqueue"} => pc'[w] \in {"track", "enqueue", "finish"},
           pc[w] \in {"ready_flag", "ready_send"} => pc'[w] \in {"ready_flag", "ready_send", "finish"},
           StatusAt(w)'
    PROVE  StableOf(w)'
<1>1. OneOnwards(w)'
  BY SameStatusOnwards DEF StableOf
<1>2. Ends' = Ends /\ checked' = checked
  BY SameTableFacts
<1>3. ApiCalm' /\ EndsFit'
  BY <1>2 DEF StableOf, ApiCalm, EndsFit
<1>4. PlanFits(w)'
  <2>1. checked[w] = NoKind \/ (pc[w] = "enqueue" /\ checked[w] = "refresh")
    BY DEF StableOf, PlanFits, At
  <2> QED
    BY <1>2, <2>1, JobKeepsPlan DEF StableOf
<1> QED
  BY <1>1, <1>3, <1>4 DEF StableOf

-----------------------------------------------------------------------------
(* The steps of a job *)

\* How a step moves the worker; the job stays the same.
LEMMA GotoMoves ==
    ASSUME TypeOK, NEW w \in Workers, NEW step,
           Goto(w, step) \/ GotoWithRow(w, step) \/ \E a : Answered(w, step, a)
    PROVE  /\ pc'[w] = step /\ cur' = cur /\ todo' = todo
           /\ jobs' = jobs => Kind(w)' = Kind(w)
BY TypeParts, GotoEffect, GotoWithRowEffect, AnsweredEffect DEF Goto, GotoWithRow, Answered, Kind

LEMMA BeginStable ==
    ASSUME TypeOK, NEW w \in Workers, Calm, StableOf(w), Begin(w)
    PROVE  StableOf(w)'
<1>0. WorkerTypeOK /\ QueueTypeOK /\ dep \in Rows
  BY Sole DEF TypeOK
<1>1. PICK j \in JobIds : BeginProvision(w, j) \/ BeginRefresh(w, j) \/ BeginDestroy(w, j)
  BY DEF Begin
<1>2. PICK step : Take(w, j, step)
  BY <1>1 DEF BeginProvision, BeginRefresh, BeginDestroy
<1>3. /\ pc[w] = "idle" /\ pc'[w] = step /\ cur'[w] = j /\ j \in held[w]
      /\ snap'[w] = IF step \in DataDone THEN NewRow ELSE dep
      /\ SameTable /\ dep' = dep /\ UNCHANGED <<api, todo>>
  BY <1>0, <1>2, TakeEffect DEF Take, OnlyWorker, rowVars, queueVars, SameTable, WorkerTypeOK
<1>4. Kind(w)' = jobs[j].kind
  BY <1>3 DEF Kind, SameTable
<1>5. Held(j)
  BY <1>3 DEF Held
<1>6. jobs[j].kind \in Ahead => j \in Onwards
  BY <1>5 DEF Onwards, Ongoing, Ahead
<1>7. StatusAt(w)' /\ pc'[w] # "reconcile"
  <2> USE <1>3, <1>4 DEF StatusAt, At
  <2>1. CASE BeginProvision(w, j)
    <3>1. dep.status = "queued" /\ jobs[j].kind = "provision"
      BY <1>6, <2>1 DEF BeginProvision, StableOf, OneOnwards, Ahead
    <3>2. pc'[w] \in {"finish", "record", "create"}
      BY <1>0, <2>1, TakeEffect DEF BeginProvision
    <3> QED
      BY <3>1, <3>2
  <2>2. CASE BeginRefresh(w, j)
    <3>1. dep.status \notin {"queued", "ready", "terminating"} /\ jobs[j].kind = "refresh"
      BY <1>6, <2>2 DEF BeginRefresh, StableOf, OneOnwards, Ahead
    <3>2. dep.status \in {"initializing", "deploying", "failed", "terminated", "expired"}
      BY <1>0, <3>1 DEF Rows, Statuses, ActiveStatuses, Running, TerminalStatuses
    <3>3. \/ pc'[w] = "finish"
          \/ dep.status = "failed" /\ pc'[w] \in {"finish", "destroy", "flag"}
          \/ dep.status \in ActiveStatuses /\ pc'[w] = "poll"
      BY <1>0, <2>2, TakeEffect DEF BeginRefresh, FailedStep, Calm
    <3>4. CASE pc'[w] = "finish"
      BY <3>4
    <3>5. CASE dep.status = "failed" /\ pc'[w] \in {"destroy", "flag"}
      BY <3>1, <3>5 DEF TerminalStatuses, DataDone
    <3>6. CASE dep.status \in ActiveStatuses /\ pc'[w] = "poll"
      <4>1. dep.status \in {"initializing", "deploying"}
        BY <3>2, <3>6 DEF ActiveStatuses, Running
      <4> QED
        BY <3>1, <3>6, <4>1 DEF DataDone
    <3> QED
      BY <3>3, <3>4, <3>5, <3>6
  <2>3. CASE BeginDestroy(w, j)
    <3>1. j \in Ends
      BY <1>5, <2>3 DEF BeginDestroy, Ends, Ongoing
    <3>2. dep.status \in TerminalStatuses /\ jobs[j].kind \in {"terminate", "cleanup"}
      BY <2>3, <3>1 DEF BeginDestroy, StableOf, EndsFit, TerminalStatuses
    <3>3. pc'[w] \in {"finish", "flag", "destroy"}
      BY <1>0, <2>3, TakeEffect DEF BeginDestroy
    <3> QED
      BY <3>2, <3>3
  <2> QED
    BY <1>1, <2>1, <2>2, <2>3
<1> QED
  BY <1>3, <1>7, CalmMove

\* Steps that neither change the row's status nor the table
LEMMA ProviderStable ==
    ASSUME TypeOK, NEW w \in Workers, AtWork(w), StableOf(w),
           Create(w) \/ Poll(w) \/ Destroy(w)
    PROVE  StableOf(w)'
<1>1. SameTable /\ dep' = dep /\ api' = api
  BY DEF Create, Poll, AskProvider, Destroy, OnlyExternal, rowVars, queueVars, SameTable
<1>2. CASE Create(w)
  <2>1. PICK step \in {"record", "retry"} : Goto(w, step) \/ \E a : Answered(w, step, a)
    BY <1>2 DEF Create
  <2>2. /\ pc[w] = "create" /\ pc'[w] = step /\ cur' = cur /\ todo' = todo
        /\ Kind(w)' = Kind(w)
    BY <1>1, <1>2, <2>1, GotoMoves DEF Create, At, SameTable
  <2>3. StatusAt(w)'
    BY <1>1, <2>1, <2>2 DEF StableOf, StatusAt, At, FailsDeployment
  <2> QED
    BY <1>1, <2>1, <2>2, <2>3, CalmMove
<1>3. CASE Poll(w)
  <2>1. \/ Goto(w, "retry")
        \/ \E a : Answered(w, "apply", a) /\ a.status \notin {"queued", "terminating", "expired"}
    <3> DEFINE Fine(a) == Answered(w, "apply", a) /\ a.status \notin {"queued", "terminating", "expired"}
    <3>1. \A s : [NoAnswer EXCEPT !.status = s].status = s
      BY DEF NoAnswer
    <3>2. ASSUME NEW s, s \notin {"queued", "terminating", "expired"},
                 Answered(w, "apply", [NoAnswer EXCEPT !.status = s])
          PROVE  \E a : Fine(a)
      BY <3>1, <3>2
    <3>3. snap[w].status \in {"initializing", "deploying"}
      BY <1>3 DEF Poll, AskProvider, StableOf, StatusAt, At
    <3>4. \A base \in {"initializing", "deploying"} : \A s \in PolledStatus(w, base) :
            s \notin {"queued", "terminating", "expired"}
      BY DEF PolledStatus
    <3>5. ASSUME NEW base \in {"initializing", "deploying"}, NEW rec,
                 NEW s \in PolledStatus(w, base),
                 Answered(w, "apply", [status |-> s, inst |-> None, ip |-> TRUE,
                                       rec |-> rec, timing |-> base = "deploying"])
          PROVE  \E a : Fine(a)
      <4>1. [status |-> s, inst |-> None, ip |-> TRUE,
             rec |-> rec, timing |-> base = "deploying"].status = s
        OBVIOUS
      <4> QED
        BY <3>4, <3>5, <4>1
    <3>6. \/ Goto(w, "retry")
          \/ \E s \in {snap[w].status, "failed", "terminated"} \cup PolledStatus(w, "initializing") :
               Answered(w, "apply", [NoAnswer EXCEPT !.status = s])
          \/ \E base \in {"initializing", "deploying"}, rec \in Records \cup {None} :
               \E s \in PolledStatus(w, base) :
                 Answered(w, "apply", [status |-> s, inst |-> None, ip |-> TRUE,
                                       rec |-> rec, timing |-> base = "deploying"])
      BY <1>3, Zenon DEF Poll, AskProvider
    <3> HIDE DEF Fine
    <3>7. Goto(w, "retry") \/ \E a : Fine(a)
      BY <3>2, <3>3, <3>4, <3>5, <3>6
    <3> QED
      BY <3>7 DEF Fine
  <2>2. /\ pc[w] = "poll" /\ cur' = cur /\ todo' = todo /\ Kind(w)' = Kind(w)
        /\ \/ pc'[w] = "retry"
           \/ pc'[w] = "apply" /\ ans'[w].status \notin {"queued", "terminating", "expired"}
    BY <1>1, <1>3, <2>1, GotoMoves, TypeParts, AnsweredEffect DEF Poll, AskProvider, At, SameTable
  <2>3. StatusAt(w)'
    BY <1>1, <2>2 DEF StableOf, StatusAt, At, FailsDeployment
  <2> QED
    BY <1>1, <2>2, <2>3, CalmMove
<1>4. CASE Destroy(w)
  <2>1. PICK step \in {"untrack", "retry"} : Goto(w, step)
    BY <1>4 DEF Destroy, AfterDestroyError
  <2>2. /\ pc[w] = "destroy" /\ pc'[w] = step /\ cur' = cur /\ todo' = todo
        /\ Kind(w)' = Kind(w)
    BY <1>1, <1>4, <2>1, GotoMoves DEF Destroy, At, SameTable
  <2>3. StatusAt(w)'
    BY <1>1, <2>1, <2>2 DEF StableOf, StatusAt, At, FailsDeployment
  <2> QED
    BY <1>1, <2>1, <2>2, <2>3, CalmMove
<1> QED
  BY <1>2, <1>3, <1>4

LEMMA PlainStable ==
    ASSUME TypeOK, NEW w \in Workers, AtWork(w), StableOf(w),
           \/ Track(w) \/ ReadyFlag(w) \/ ReadySend(w) \/ EndFlag(w) \/ EndSend(w) \/ Untrack(w)
    PROVE  StableOf(w)'
<1>1. SameTable /\ dep'.status = dep.status /\ api' = api
  BY Sole DEF Track, ReadyFlag, ReadySend, EndFlag, EndSend, Untrack, OnlyRow, rowVars, queueVars,
              SameTable, Rows
<1>2. PICK step : Goto(w, step)
  BY DEF Track, ReadyFlag, ReadySend, EndFlag, EndSend, Untrack
<1>3. /\ pc'[w] = step /\ cur' = cur /\ todo' = todo /\ Kind(w)' = Kind(w)
      /\ snap'[w] = IF step \in DataDone THEN NewRow ELSE snap[w]
  BY <1>1, <1>2, Sole, GotoMoves, GotoEffect DEF SameTable
<1>4. StatusAt(w)' /\ pc[w] \notin {"reconcile", "finish", "enqueue"} /\ step # "reconcile"
      /\ (pc[w] = "track" => step = "enqueue")
      /\ (pc[w] \in {"ready_flag", "ready_send"} => step \in {"ready_send", "finish"})
  <2> USE <1>1, <1>3 DEF StableOf, StatusAt, At
  <2>1. ASSUME NEW s, Goto(w, s) PROVE pc'[w] = s
    BY <2>1, Sole, GotoEffect
  <2>2. CASE Track(w) \/ ReadyFlag(w) \/ ReadySend(w)
    BY <2>1, <2>2 DEF Track, ReadyFlag, ReadySend
  <2>3. CASE EndFlag(w)
    BY <2>1, <2>3 DEF EndFlag, DataDone
  <2>4. CASE EndSend(w)
    BY <2>1, <2>4 DEF EndSend
  <2>5. CASE Untrack(w)
    BY <2>1, <2>5 DEF Untrack
  <2> QED
    BY <2>2, <2>3, <2>4, <2>5
<1> QED
  BY <1>1, <1>3, <1>4, CalmMove

-----------------------------------------------------------------------------
(* The steps of a job that write the status *)

\* Inside a job nothing is left to enqueue.
LEMMA NothingChecked ==
    ASSUME NEW w \in Workers, PlanFits(w), pc[w] \notin {"reconcile", "enqueue"}
    PROVE  checked[w] = NoKind /\ todo[w] = {}
BY DEF PlanFits, At

LEMMA RowMove ==
    ASSUME NEW w \in Workers, StableOf(w), SameTable, UNCHANGED <<api, todo>>,
           pc[w] \notin {"reconcile", "enqueue"}, pc'[w] # "reconcile",
           dep'.status # "terminating",
           Ends # {} => dep'.status \in {"terminated", "expired"},
           OneOnwards(w)', StatusAt(w)'
    PROVE  StableOf(w)'
<1>1. Ends' = Ends /\ checked' = checked
  BY SameTableFacts
<1>2. ApiCalm' /\ EndsFit'
  BY <1>1 DEF StableOf, ApiCalm, EndsFit
<1>3. PlanFits(w)'
  BY <1>1, NothingChecked, JobKeepsPlan DEF StableOf
<1> QED
  BY <1>2, <1>3 DEF StableOf

\* The job of the worker goes on, and is the only one that does.
LEMMA OnlyCur ==
    ASSUME NEW w \in Workers, Onwards' \subseteq {cur'[w]},
           Kind(w)' = "provision" => dep'.status = "queued" \/ pc'[w] \in {"track", "enqueue", "finish"},
           Kind(w)' = "refresh" => dep'.status # "queued",
           dep'.status = "ready" => pc'[w] \in {"ready_flag", "ready_send", "finish"}
    PROVE  OneOnwards(w)'
BY DEF OneOnwards, Kind

LEMMA RecordStable ==
    ASSUME TypeOK, NEW w \in Workers, AtWork(w), StableOf(w), Record(w)
    PROVE  StableOf(w)'
<1>1. /\ pc[w] = "record" /\ Kind(w) = "provision" /\ dep.status = "queued"
      /\ SameTable /\ api' = api
  BY DEF Record, StableOf, StatusAt, At, OnlyRow, queueVars, SameTable
<1>2. Goto(w, "track") /\ dep' = [ApplyProviderData(dep, ans[w]) EXCEPT !.status = "initializing"]
  BY <1>1 DEF Record, InSession, ActiveStatuses, Running
<1>3. dep'.status = "initializing"
  BY <1>2, Sole DEF ApplyProviderData, Rows
<1>4. pc'[w] = "track" /\ cur' = cur /\ todo' = todo /\ Kind(w)' = "provision"
  BY <1>1, <1>2, GotoMoves DEF SameTable
<1>5. StatusAt(w)'
  BY <1>3, <1>4 DEF StatusAt, At
<1>6. Onwards' = {cur[w]}
  BY <1>1, CurIsJob, SoleOnwards, SameTableFacts DEF TypeOK, StableOf, Ahead, At
<1>7. OneOnwards(w)'
  BY <1>3, <1>4, <1>6, OnlyCur
<1>8. Ends = {}
  BY <1>1 DEF StableOf, EndsFit
<1> QED
  BY <1>1, <1>3, <1>4, <1>5, <1>7, <1>8, RowMove

LEMMA ApplyStable ==
    ASSUME TypeOK, NEW w \in Workers, AtWork(w), StableOf(w), Apply(w)
    PROVE  StableOf(w)'
<1>1. /\ pc[w] = "apply" /\ Kind(w) = "refresh" /\ SameTable /\ api' = api
      /\ dep.status \in {"initializing", "deploying"}
      /\ ans[w].status \notin {"queued", "terminating", "expired"}
  BY DEF Apply, StableOf, StatusAt, At, OnlyRow, queueVars, SameTable
<1>2. dep'.status = ans[w].status
  BY Sole DEF Apply, ApplyProviderPatch, Rows
<1>3. GotoWithRow(w, AfterApply(dep'))
  BY DEF Apply
<1>4. /\ pc'[w] = AfterApply(dep') /\ cur' = cur /\ todo' = todo /\ Kind(w)' = "refresh"
      /\ snap'[w] = IF AfterApply(dep') \in DataDone THEN NewRow ELSE dep'
  BY <1>1, <1>3, Sole, GotoMoves, GotoWithRowEffect DEF SameTable
<1>5. dep'.status \in {"initializing", "deploying", "ready", "terminated", "failed"}
  BY <1>1, <1>2, Sole DEF Answers, Statuses, ActiveStatuses, Running, TerminalStatuses
<1>6. /\ dep'.status = "ready" => pc'[w] \in {"ready_flag", "finish"}
      /\ dep'.status = "terminated" => pc'[w] \in {"flag", "finish"}
      /\ dep'.status = "failed" => pc'[w] \in {"flag", "destroy", "finish"}
      /\ dep'.status \in {"initializing", "deploying"} => pc'[w] = "successor"
  BY <1>4 DEF AfterApply, FailedStep
<1>7. StatusAt(w)' /\ pc'[w] # "reconcile"
  BY <1>4, <1>5, <1>6 DEF StatusAt, At, DataDone, TerminalStatuses
<1>8. Onwards' = {cur[w]}
  BY <1>1, CurIsJob, SoleOnwards, SameTableFacts DEF TypeOK, StableOf, Ahead, At
<1>9. OneOnwards(w)'
  BY <1>4, <1>5, <1>6, <1>8, OnlyCur
<1>10. Ends = {}
  BY <1>1 DEF StableOf, EndsFit
<1> QED
  BY <1>1, <1>4, <1>5, <1>7, <1>9, <1>10, RowMove

LEMMA CloseStable ==
    ASSUME TypeOK, NEW w \in Workers, AtWork(w), StableOf(w), Close(w)
    PROVE  StableOf(w)'
<1>1. /\ pc[w] = "close" /\ Kind(w) \in {"refresh", "terminate", "cleanup"}
      /\ Kind(w) = "refresh" => dep.status = "failed"
      /\ SameTable /\ api' = api
  BY DEF Close, StableOf, StatusAt, At, OnlyRow, queueVars, SameTable
<1>2. dep'.status = Final(Kind(w))
  BY Sole DEF Close, Rows
<1>3. PICK step \in {"finish", "flag"} :
        GotoWithRow(w, step) /\ (Kind(w) = "refresh" => step = "finish")
  BY DEF Close
<1>4. pc'[w] = step /\ cur' = cur /\ todo' = todo /\ Kind(w)' = Kind(w)
  BY <1>1, <1>3, Sole, GotoMoves DEF SameTable
<1>5. /\ cur[w] \in JobIds /\ Held(cur[w])
      /\ Onwards' = Onwards /\ jobs' = jobs
  BY <1>1, CurIsJob, SameTableFacts DEF TypeOK, AtWork, Held
<1>6. CASE Kind(w) = "refresh"
  <2>1. dep'.status = "failed" /\ pc'[w] = "finish"
    BY <1>2, <1>3, <1>4, <1>6 DEF Final
  <2>2. Onwards' = {cur[w]}
    BY <1>1, <1>5, <1>6, SoleOnwards DEF StableOf, Ahead, At
  <2>3. OneOnwards(w)' /\ StatusAt(w)'
    BY <1>4, <1>6, <2>1, <2>2, OnlyCur DEF StatusAt, At
  <2>4. Ends = {}
    BY <1>1, <1>6 DEF StableOf, EndsFit
  <2> QED
    BY <1>1, <1>4, <2>1, <2>3, <2>4, RowMove
<1>7. CASE Kind(w) \in {"terminate", "cleanup"}
  <2>1. cur[w] \in Ends
    BY <1>5, <1>7 DEF Ends, Ongoing, Kind
  <2>2. dep.status \in {"terminated", "expired"} /\ dep'.status \in {"terminated", "expired"}
    BY <1>2, <1>7, <2>1 DEF StableOf, EndsFit, Final
  <2>3. \A i, j \in Onwards : i = j
    BY <1>1 DEF StableOf, OneOnwards, At
  <2>4. \A j \in Onwards : jobs[j].kind # "provision"
    BY <1>1, <2>2 DEF StableOf, OneOnwards
  <2>5. OneOnwards(w)'
    BY <1>5, <2>2, <2>3, <2>4 DEF OneOnwards
  <2>6. StatusAt(w)'
    BY <1>3, <1>4, <1>7, <2>2 DEF StatusAt, At, TerminalStatuses
  <2> QED
    BY <1>1, <1>3, <1>4, <2>2, <2>5, <2>6, RowMove
<1> QED
  BY <1>1, <1>6, <1>7

-----------------------------------------------------------------------------
(* The steps that write the table *)

\* A job of kind k is added, when no other goes on but the one that is about to end.
LEMMA InsertStable ==
    ASSUME QueueTypeOK, NEW w \in Workers, OneOnwards(w), NEW k \in Ahead \cap Kinds, Insert(k),
           held' = held, dep' = dep, cur' = cur,
           Onwards = {} \/ (Onwards = {cur[w]} /\ pc'[w] = "finish"),
           dep.status # "ready",
           k = "provision" <=> dep.status = "queued"
    PROVE  OneOnwards(w)' /\ Ends' = Ends
<1>1. PICK new \in JobIds :
        /\ jobs'[new].kind = k
        /\ \A i \in JobIds : i # new => jobs'[i] = jobs[i]
        /\ \A ks : /\ new \notin Ongoing(ks)
                   /\ Ongoing(ks)' = IF k \in ks THEN Ongoing(ks) \cup {new} ELSE Ongoing(ks)
  BY InsertOngoing
<1>2. Onwards' = Onwards \cup {new} /\ new \notin Onwards /\ Ends' = Ends
  BY <1>1 DEF Onwards, Ends, Ahead
<1>3. \A i, j \in Onwards' : i = j \/ (At(w, "finish")' /\ cur'[w] \in {i, j})
  BY <1>2 DEF At
<1>4. ASSUME NEW j \in Onwards, Onwards = {cur[w]}, pc'[w] = "finish"
      PROVE  jobs'[j] = jobs[j] /\ j = cur[w] /\ (jobs[j].kind = "refresh" => dep.status # "queued")
  BY <1>1, <1>2, <1>4 DEF OneOnwards, Onwards, Ongoing
<1>5. ASSUME NEW j \in Onwards'
      PROVE  /\ jobs'[j].kind = "provision" =>
                  dep'.status = "queued"
                    \/ (j = cur'[w] /\ pc'[w] \in {"track", "enqueue", "finish"})
             /\ jobs'[j].kind = "refresh" => dep'.status # "queued"
  <2>1. CASE j = new
    BY <1>1, <2>1
  <2>2. CASE j # new
    BY <1>2, <1>4, <2>2
  <2> QED
    BY <2>1, <2>2
<1> QED
  BY <1>2, <1>3, <1>5 DEF OneOnwards

\* A refresh follows the job that ends, which is the only one to go on.
LEMMA FollowStable ==
    ASSUME TypeOK, NEW w \in Workers, AtWork(w), StableOf(w), Insert("refresh"),
           pc[w] \in {"successor", "enqueue"}, Goto(w, "finish"),
           UNCHANGED <<held, dep, api>>,
           checked'[w] = NoKind, \A h \in Handlers : checked'[h] = checked[h]
    PROVE  StableOf(w)'
<1>1. QueueTypeOK /\ "refresh" \in Ahead \cap Kinds
  BY KindsUsed DEF TypeOK, Ahead
<1>2. Kind(w) \in Ahead /\ dep.status \in {"initializing", "deploying"}
  BY DEF StableOf, StatusAt, Ahead
<1>3. Onwards = {cur[w]}
  BY <1>1, <1>2, CurIsJob, SoleOnwards DEF StableOf, At
<1>4. pc'[w] = "finish" /\ cur' = cur /\ todo' = todo
  BY Sole, GotoEffect DEF Goto
<1>5. OneOnwards(w)' /\ Ends' = Ends
  BY <1>1, <1>2, <1>3, <1>4, InsertStable DEF StableOf
<1>6. StatusAt(w)'
  BY <1>4 DEF StatusAt, At
<1>7. PlanFits(w)'
  BY <1>4, JobKeepsPlan DEF StableOf
<1> QED
  BY <1>2, <1>5, <1>6, <1>7 DEF StableOf, ApiCalm, EndsFit

LEMMA SuccessorStable ==
    ASSUME TypeOK, NEW w \in Workers, AtWork(w), StableOf(w), Successor(w)
    PROVE  StableOf(w)'
<1>1. pc[w] = "successor" /\ checked[w] = NoKind
  BY NothingChecked DEF Successor, At, StableOf
<1> QED
  BY <1>1, FollowStable DEF Successor, EnqueueAlways, rowVars

\* The dedupe check
LEMMA CheckStable ==
    ASSUME TypeOK, OneWorker, NEW w \in Workers, StableOf(w), NEW k \in Kinds,
           EnqueueCheck(w, k), UNCHANGED <<workerVars, dep, api>>,
           \/ At(w, "enqueue") /\ k = "refresh"
           \/ At(w, "reconcile") /\ k \in todo[w]
    PROVE  StableOf(w)'
<1>1. /\ ~Found(k) /\ UNCHANGED <<jobs, held, pc, cur, snap, ans, todo>>
      /\ checked'[w] = k /\ \A h \in Handlers : checked'[h] = checked[h]
  BY ChainTypes DEF EnqueueCheck, workerVars
<1>2. Onwards' = Onwards /\ Ends' = Ends
  BY <1>1, SameOngoing DEF Onwards, Ends
<1>3. OneOnwards(w)' /\ StatusAt(w)' /\ ApiCalm' /\ EndsFit'
  BY <1>1, <1>2
     DEF StableOf, OneOnwards, StatusAt, ApiCalm, EndsFit, At, Kind, FailsDeployment
<1>4. ASSUME At(w, "reconcile"), k \in todo[w], k # "cleanup"
      PROVE  Onwards = {}
  <2>1. k \in Ahead /\ \A j \in JobIds : ~Held(j)
    BY <1>4, LifecycleAssumption DEF StableOf, PlanFits, Ahead, JobKinds, Held, OneWorker
  <2>2. \A j \in Onwards : Active(j) /\ jobs[j].kind \in Ahead /\ jobs[j].kind # k
    BY <1>1, <2>1 DEF Onwards, Ongoing, Ahead, Found, ActiveOfKind
  <2>3. \A j \in Onwards : /\ jobs[j].kind = "provision" => dep.status = "queued"
                           /\ jobs[j].kind = "refresh" => dep.status # "queued"
    BY <1>4 DEF StableOf, OneOnwards, At
  <2>4. IF k = "provision" THEN dep.status = "queued" ELSE dep.status # "queued"
    BY <1>4, <2>1 DEF StableOf, PlanFits, Ahead
  <2> QED
    BY <2>1, <2>2, <2>3, <2>4 DEF Ahead
<1>5. PlanFits(w)'
  BY <1>1, <1>2, <1>4 DEF StableOf, PlanFits, At
<1> QED
  BY <1>3, <1>5 DEF StableOf

LEMMA EnqueueStable ==
    ASSUME TypeOK, OneWorker, NEW w \in Workers, AtWork(w), StableOf(w), Enqueue(w)
    PROVE  StableOf(w)'
<1>1. /\ pc[w] = "enqueue" /\ Wanted(w) = "refresh" /\ UNCHANGED <<dep, api>>
      /\ checked[w] \in {NoKind, "refresh"}
  BY DEF Enqueue, StableOf, StatusAt, PlanFits, Wanted, At, rowVars
<1>2. CASE checked[w] = NoKind /\ Goto(w, "finish") /\ UNCHANGED queueVars
  <2>1. SameTable /\ pc'[w] = "finish" /\ cur' = cur /\ todo' = todo
    BY <1>2, Sole, GotoEffect DEF queueVars, SameTable, Goto
  <2>2. StatusAt(w)'
    BY <2>1 DEF StatusAt, At
  <2> QED
    BY <1>1, <1>2, <2>1, <2>2, CalmMove
<1>3. CASE EnqueueCheck(w, Wanted(w)) /\ UNCHANGED workerVars
  BY <1>1, <1>3, KindsUsed, CheckStable DEF At
<1>4. CASE EnqueueInsert(w) /\ Goto(w, "finish")
  <2>1. /\ Insert("refresh") /\ held' = held /\ checked'[w] = NoKind
        /\ \A h \in Handlers : checked'[h] = checked[h]
    BY <1>1, <1>4, ChainTypes DEF EnqueueInsert
  <2> QED
    BY <1>1, <1>4, <2>1, FollowStable
<1> QED
  BY <1>1, <1>2, <1>3, <1>4 DEF Enqueue

\* A worker that is through with a job has nothing left to enqueue.
LEMMA BackToIdle ==
    ASSUME NEW w \in Workers, StableOf(w), pc[w] \notin {"reconcile", "enqueue"},
           checked' = checked, api' = api,
           pc'[w] = "idle", todo'[w] = {}, dep'.status # "terminating",
           EndsFit', OneOnwards(w)'
    PROVE  StableOf(w)'
<1>1. StatusAt(w)' /\ PlanFits(w)'
  BY NothingChecked DEF StableOf, StatusAt, PlanFits, At
<1> QED
  BY <1>1 DEF StableOf, ApiCalm

\* A job ends, and the row fits those that remain.
LEMMA EndStable ==
    ASSUME TypeOK, OneWorker, NEW w \in Workers, AtWork(w), StableOf(w),
           pc[w] \in {"finish", "retry"}, NEW s \in {"done", "failed"}, Release(w, cur[w], s),
           Forget(w), api' = api,
           dep' = dep \/ (dep'.status = "failed" /\ Onwards \subseteq {cur[w]} /\ Ends = {})
    PROVE  StableOf(w)'
<1>1. cur[w] \in JobIds /\ QueueTypeOK
  BY CurIsJob DEF TypeOK
<1>2. /\ \A i \in JobIds : i # cur[w] => jobs'[i] = jobs[i]
      /\ Onwards' = Onwards \ {cur[w]} /\ Ends' = Ends \ {cur[w]}
  BY <1>1, ReleaseOngoing DEF Onwards, Ends
<1>3. pc'[w] = "idle" /\ todo'[w] = {} /\ checked' = checked
  BY TypeParts DEF Forget, WorkerTypeOK, Release
<1>4. CASE dep' = dep
  <2>1. \A i, j \in Onwards' : i = j
    BY <1>2 DEF StableOf, OneOnwards
  <2>2. ASSUME NEW j \in Onwards'
        PROVE  /\ jobs'[j] = jobs[j]
               /\ jobs[j].kind = "provision" => dep.status = "queued"
               /\ jobs[j].kind = "refresh" => dep.status # "queued"
               /\ dep.status # "ready"
    BY <1>2 DEF StableOf, OneOnwards, Onwards, Ongoing
  <2>3. OneOnwards(w)' /\ EndsFit'
    BY <1>2, <1>4, <2>1, <2>2 DEF OneOnwards, EndsFit, StableOf
  <2> QED
    BY <1>3, <1>4, <2>3, BackToIdle DEF StableOf
<1>5. CASE dep'.status = "failed" /\ Onwards \subseteq {cur[w]} /\ Ends = {}
  <2>1. OneOnwards(w)' /\ EndsFit'
    BY <1>2, <1>5 DEF OneOnwards, EndsFit
  <2> QED
    BY <1>3, <1>5, <2>1, BackToIdle
<1> QED
  BY <1>4, <1>5

LEMMA FinishStable ==
    ASSUME TypeOK, OneWorker, NEW w \in Workers, AtWork(w), StableOf(w), Finish(w)
    PROVE  StableOf(w)'
BY EndStable DEF Finish, MarkDone, At, rowVars

LEMMA RetryStable ==
    ASSUME TypeOK, OneWorker, NEW w \in Workers, AtWork(w), StableOf(w), Retry(w)
    PROVE  StableOf(w)'
<1>1. pc[w] = "retry" /\ Forget(w) /\ api' = api
  BY DEF Retry, At
<1>2. cur[w] \in JobIds /\ QueueTypeOK
  BY <1>1, CurIsJob DEF TypeOK
<1>3. CASE Reschedule(w, cur[w]) /\ UNCHANGED dep
  <2>1. /\ \A j \in JobIds : jobs'[j].kind = jobs[j].kind
        /\ Onwards' = Onwards /\ Ends' = Ends
    BY <1>2, <1>3, ReleaseOngoing DEF Reschedule, Onwards, Ends
  <2>2. pc'[w] = "idle" /\ todo'[w] = {} /\ checked' = checked
    BY <1>1, <1>3, TypeParts DEF Forget, WorkerTypeOK, Reschedule, Release
  <2>3. \A i, j \in Onwards : i = j
    BY <1>1 DEF StableOf, OneOnwards, At
  <2>4. \A j \in Onwards : /\ j \in JobIds
                           /\ jobs[j].kind = "provision" => dep.status = "queued"
                           /\ jobs[j].kind = "refresh" => dep.status # "queued"
                           /\ dep.status # "ready"
    BY <1>1 DEF StableOf, OneOnwards, Onwards, Ongoing
  <2>5. OneOnwards(w)' /\ EndsFit'
    BY <1>3, <2>1, <2>3, <2>4 DEF OneOnwards, EndsFit, StableOf
  <2> QED
    BY <1>1, <1>3, <2>2, <2>5, BackToIdle DEF StableOf
<1>4. CASE FailJob(w, cur[w])
           /\ dep' = [dep EXCEPT !.status = IF FailsDeployment(w) THEN "failed" ELSE @]
  <2>1. CASE FailsDeployment(w)
    <3>1. Onwards \subseteq {cur[w]}
      BY <1>1, <1>2, <2>1, SoleOnwards DEF StableOf, FailsDeployment, Ahead, At
    <3>2. Ends = {}
      BY <1>1, <2>1 DEF StableOf, StatusAt, EndsFit, At
    <3>3. dep'.status = "failed"
      BY <1>4, <2>1, Sole DEF Rows
    <3> QED
      BY <1>1, <1>4, <3>1, <3>2, <3>3, EndStable DEF FailJob
  <2>2. CASE ~FailsDeployment(w)
    <3>1. dep' = dep
      BY <1>4, <2>2, Sole DEF Rows
    <3> QED
      BY <1>1, <1>4, <3>1, EndStable DEF FailJob
  <2> QED
    BY <2>1, <2>2
<1> QED
  BY <1>3, <1>4 DEF Retry

LEMMA ClaimStable ==
    ASSUME TypeOK, OneWorker, NEW w \in Workers, StableOf(w), ClaimJobs(w)
    PROVE  StableOf(w)'
<1>1. /\ pc[w] = "idle" /\ Claim(w) /\ UNCHANGED <<dep, api, pc, cur, snap, ans, todo>>
  BY DEF ClaimJobs, At, rowVars, workerVars
<1>2. /\ \A j \in JobIds : jobs'[j].kind = jobs[j].kind
      /\ Onwards' = Onwards /\ Ends' = Ends
  BY <1>1, ClaimOngoing DEF TypeOK, Onwards, Ends
<1>3. checked' = checked
  BY <1>1 DEF Claim, ClaimBatch
<1>4. todo[w] = {}
  BY <1>1 DEF StableOf, PlanFits, At
<1>5. \A j \in Onwards : j \in JobIds
  BY DEF Onwards, Ongoing
<1>6. OneOnwards(w)' /\ EndsFit'
  BY <1>1, <1>2, <1>5 DEF StableOf, OneOnwards, EndsFit, At
<1> QED
  BY <1>1, <1>3, <1>4, <1>6, BackToIdle DEF StableOf

-----------------------------------------------------------------------------
(* reconcile_once *)

\* A step of a pass that leaves the table alone
LEMMA PassStable ==
    ASSUME NEW w \in Workers, StableOf(w), SameTable, pc[w] \in {"idle", "reconcile"},
           UNCHANGED <<dep, api>>, pc'[w] \in {"idle", "reconcile"}, PlanFits(w)'
    PROVE  StableOf(w)'
<1>1. Onwards' = Onwards /\ Ends' = Ends /\ jobs' = jobs /\ checked' = checked
  BY SameTableFacts
<1>2. OneOnwards(w)' /\ StatusAt(w)'
  BY <1>1 DEF StableOf, OneOnwards, StatusAt, At
<1> QED
  BY <1>1, <1>2 DEF StableOf, ApiCalm, EndsFit

LEMMA ReadStable ==
    ASSUME TypeOK, NEW w \in Workers, StableOf(w), NEW old \in Ages, ReconcileRead(w, old)
    PROVE  StableOf(w)'
<1>1. /\ pc[w] = "idle" /\ pc'[w] = "reconcile" /\ todo'[w] = ReconcilePlan(old)
      /\ held[w] = {} /\ SameTable /\ UNCHANGED <<dep, api>>
  BY TypeParts DEF ReconcileRead, OnlyWorker, WorkerTypeOK, At, SameTable, queueVars, rowVars
<1>2. checked[w] = NoKind
  BY <1>1, NothingChecked DEF StableOf
<1>3. LET plan == ReconcilePlan(old) IN
        /\ "terminate" \notin plan
        /\ "provision" \in plan => dep.status = "queued"
        /\ "refresh" \in plan => dep.status \in {"initializing", "deploying", "failed"}
        /\ "cleanup" \in plan => dep.status \in {"terminated", "expired"}
  BY DEF ReconcilePlan, RecoverKind, OpenEnded, Recoverable, StableOf
<1>4. PlanFits(w)'
  BY <1>1, <1>2, <1>3 DEF PlanFits, At, SameTable
<1> QED
  BY <1>1, <1>4, PassStable

LEMMA LedgerStable ==
    ASSUME TypeOK, NEW w \in Workers, StableOf(w), ReconcileLedger(w)
    PROVE  StableOf(w)'
<1>1. /\ pc[w] = "reconcile" /\ SameTable /\ UNCHANGED <<dep, api>>
      /\ todo'[w] = (todo[w] \ {"ledger"}) \cup
                      (IF dep.status \in {"terminated", "expired"} THEN {"cleanup"} ELSE {})
      /\ pc'[w] = IF todo'[w] = {} THEN "idle" ELSE "reconcile"
  BY TypeParts DEF ReconcileLedger, OnlyWorker, WorkerTypeOK, At, SameTable, queueVars, rowVars
<1>2. checked[w] = NoKind \/ checked[w] # "ledger"
  BY ChainTypes, LifecycleAssumption DEF JobKinds
<1>3. Onwards' = Onwards /\ held' = held /\ checked' = checked
  BY <1>1, SameTableFacts
<1>4. PlanFits(w)'
  BY <1>1, <1>2, <1>3 DEF PlanFits, StableOf, At
<1> QED
  BY <1>1, <1>4, PassStable

LEMMA PassInsertStable ==
    ASSUME TypeOK, NEW w \in Workers, StableOf(w), At(w, "reconcile"),
           checked[w] \in todo[w] \ {"ledger"}, EnqueueInsert(w),
           UNCHANGED <<dep, api, cur>>,
           todo'[w] = todo[w] \ {checked[w]},
           pc'[w] = IF todo'[w] = {} THEN "idle" ELSE "reconcile"
    PROVE  StableOf(w)'
<1> DEFINE k == checked[w]
<1>1. /\ k \in Kinds /\ k # NoKind /\ k # "terminate" /\ QueueTypeOK
      /\ Insert(k) /\ held' = held /\ checked'[w] = NoKind
      /\ \A h \in Handlers : checked'[h] = checked[h]
  BY ChainTypes DEF EnqueueInsert, StableOf, PlanFits
<1>2. StatusAt(w)' /\ PlanFits(w)' /\ ApiCalm'
  BY <1>1 DEF StatusAt, PlanFits, StableOf, ApiCalm, At
<1>3. CASE k = "cleanup"
  <2>1. dep.status \in {"terminated", "expired"}
    BY <1>3 DEF StableOf, PlanFits
  <2>2. PICK new \in JobIds :
          /\ jobs'[new].kind = k
          /\ \A i \in JobIds : i # new => jobs'[i] = jobs[i]
          /\ \A ks : /\ new \notin Ongoing(ks)
                     /\ Ongoing(ks)' = IF k \in ks THEN Ongoing(ks) \cup {new} ELSE Ongoing(ks)
    BY <1>1, InsertOngoing
  <2>3. Onwards' = Onwards /\ \A j \in Onwards : jobs'[j] = jobs[j]
    BY <1>3, <2>2 DEF Onwards, Ongoing
  <2>4. OneOnwards(w)'
    BY <2>1, <2>3 DEF OneOnwards, StableOf, At
  <2> QED
    BY <1>2, <2>1, <2>4 DEF StableOf, EndsFit
<1>4. CASE k # "cleanup"
  <2>1. k \in Ahead \cap Kinds /\ Onwards = {}
    BY <1>1, <1>4, LifecycleAssumption DEF StableOf, PlanFits, Ahead, At, JobKinds
  <2>2. /\ dep.status # "ready"
        /\ k = "provision" <=> dep.status = "queued"
    BY <2>1 DEF StableOf, PlanFits, Ahead
  <2>3. OneOnwards(w)' /\ Ends' = Ends
    BY <1>1, <2>1, <2>2, InsertStable DEF StableOf
  <2> QED
    BY <1>2, <2>3 DEF StableOf, EndsFit
<1> QED
  BY <1>3, <1>4

LEMMA PassEnqueueStable ==
    ASSUME TypeOK, OneWorker, NEW w \in Workers, StableOf(w), ReconcileEnqueue(w)
    PROVE  StableOf(w)'
<1>1. PICK k \in todo[w] \ {"ledger"} :
        /\ pc[w] = "reconcile" /\ UNCHANGED <<dep, api>>
        /\ \/ /\ (checked[w] = NoKind /\ UNCHANGED queueVars) \/ (checked[w] = k /\ EnqueueInsert(w))
              /\ todo' = [todo EXCEPT ![w] = todo[w] \ {k}]
              /\ pc' = [pc EXCEPT ![w] = IF todo'[w] = {} THEN "idle" ELSE pc[w]]
              /\ UNCHANGED cur
           \/ EnqueueCheck(w, k) /\ UNCHANGED workerVars
  BY DEF ReconcileEnqueue, At, rowVars
<1>2. k \in Kinds
  BY TypeParts DEF WorkerTypeOK
<1>3. CASE EnqueueCheck(w, k) /\ UNCHANGED workerVars
  BY <1>1, <1>2, <1>3, CheckStable DEF At
<1>4. CASE /\ (checked[w] = NoKind /\ UNCHANGED queueVars) \/ (checked[w] = k /\ EnqueueInsert(w))
           /\ todo' = [todo EXCEPT ![w] = todo[w] \ {k}]
           /\ pc' = [pc EXCEPT ![w] = IF todo'[w] = {} THEN "idle" ELSE pc[w]]
           /\ UNCHANGED cur
  <2>1. /\ todo'[w] = todo[w] \ {k}
        /\ pc'[w] = IF todo'[w] = {} THEN "idle" ELSE "reconcile"
    BY <1>1, <1>4, TypeParts DEF WorkerTypeOK
  <2>2. CASE checked[w] = k /\ EnqueueInsert(w)
    BY <1>1, <1>4, <2>1, <2>2, PassInsertStable DEF At
  <2>3. CASE checked[w] = NoKind /\ UNCHANGED queueVars
    <3>1. SameTable
      BY <2>3 DEF queueVars, SameTable
    <3>2. PlanFits(w)'
      BY <1>1, <2>1, <2>3, <3>1 DEF PlanFits, StableOf, At, SameTable
    <3> QED
      BY <1>1, <2>1, <3>1, <3>2, PassStable
  <2> QED
    BY <1>4, <2>2, <2>3
<1> QED
  BY <1>1, <1>3, <1>4

-----------------------------------------------------------------------------
(* The whole *)

LEMMA WorkersKeepAsked ==
    ASSUME NEW w \in Workers, JobStep(w) \/ ClaimJobs(w) \/ Reconcile(w) \/ Breaks(w)
    PROVE  past' = past /\ asked' = asked
BY DEF JobStep, ClaimJobs, Reconcile, Breaks, WorkerDies, HandlerRaises, Begin, BeginProvision,
       BeginRefresh, BeginDestroy,
   Take, Create, Record, Track, Poll, AskProvider, Apply, Successor, ExpireSession, ReadyFlag,
   ReadySend, EndFlag,
   EndSend, Destroy, Untrack, Close, Enqueue, Finish, Retry, ReconcileRead, ReconcileLedger,
   ReconcileEnqueue, OnlyExternal, OnlyWorker, rowVars

\* No step takes back a crash, the expiry or a DELETE.
LEMMA CalmBefore ==
    ASSUME TypeOK, Next, Calm'
    PROVE  Calm /\ crashes' = crashes
<1>1. CASE \E w \in Workers : JobStep(w) \/ ClaimJobs(w) \/ Reconcile(w) \/ Breaks(w)
  <2>1. past' = past /\ asked' = asked
    BY <1>1, WorkersKeepAsked
  <2> QED
    BY <2>1, CrashesCount DEF Calm
<1>2. CASE \/ \E h \in Handlers : ApiReads(h) \/ ApiCommits(h) \/ ApiEnqueues(h)
           \/ ApiDies \/ Expire \/ Vanish
  <2>1. past => past'
    BY <1>2 DEF ApiReads, ApiOnly, ApiCommits, ApiEnqueues, ApiDies, Expire, Vanish, OnlyExternal,
                rowVars
  <2>2. CASE asked' = asked
    BY <2>1, <2>2, CrashesCount DEF Calm
  <2>3. CASE \E h \in Handlers : DeleteReads(h) \/ ApiCommits(h)
    <3>1. asked => asked'
      BY <2>3 DEF DeleteReads, ApiCommits
    <3> QED
      BY <2>1, <3>1, CrashesCount DEF Calm
  <2> QED
    BY <1>2, <2>2, <2>3
       DEF ApiReads, GetFinds, GetReads, LoopReads, ApiEnqueues, ApiDies, Expire, Vanish,
           OnlyExternal, rowVars
<1> QED
  BY <1>1, <1>2 DEF Next, Breaks, Breaks

LEMMA AwayStable ==
    ASSUME TypeOK, NEW w \in Workers, StableOf(w), Calm, Calm',
           \/ \E h \in Handlers : ApiReads(h) \/ ApiCommits(h) \/ ApiEnqueues(h)
           \/ ApiDies \/ Expire \/ Vanish
    PROVE  StableOf(w)' /\ dep' = dep
<1>1. \A h \in Handlers : ~ApiCommits(h) /\ ~ApiEnqueues(h)
  BY DEF StableOf, ApiCalm, ApiCommits, ApiEnqueues, Calm
<1>2. ~ApiDies /\ ~Expire
  BY DEF ApiDies, CrashApi, Lapse, Expire, Calm
<1>3. SameTable /\ UNCHANGED <<dep, workerVars>> /\ ApiCalm'
  <2>1. CASE Vanish
    BY <2>1 DEF Vanish, OnlyExternal, queueVars, rowVars, SameTable, StableOf, ApiCalm
  <2>2. CASE \E h \in Handlers : ApiReads(h)
    <3>1. PICK h \in Handlers : (DeleteReads(h) \/ GetFinds(h) \/ GetReads(h)) /\ ApiOnly
      BY <2>2 DEF ApiReads, LoopReads, LoopSelects, Calm
    <3>2. \/ ApiGoto(h, "write") /\ h \in Deletes
          \/ ApiGoto(h, "seen") /\ h \in Gets
          \/ ApiGoto(h, "idle")
      BY <3>1 DEF DeleteReads, GetFinds, GetReads, Calm
    <3> QED
      BY <3>1, <3>2, TypeParts
         DEF ApiOnly, queueVars, SameTable, StableOf, ApiCalm, ApiGoto, RestTypeOK
  <2> QED
    BY <1>1, <1>2, <2>1, <2>2
<1>4. Onwards' = Onwards /\ Ends' = Ends /\ UNCHANGED <<jobs, held, checked>>
  BY <1>3, SameTableFacts
<1> QED
  BY <1>3, <1>4 DEF workerVars, StableOf, EndsFit, OneOnwards, StatusAt, PlanFits, At, Kind,
                    FailsDeployment

LEMMA StableStep ==
    ASSUME TypeOK, OneWorker, Workers # {}, ChainInv, StableInv, Next
    PROVE  StableInv'
<1> SUFFICES ASSUME Calm' PROVE StableInv'
  BY DEF StableInv
<1>1. Calm /\ crashes' = crashes
  BY CalmBefore
<1>2. \A w \in Workers : StableOf(w) /\ AtWork(w) /\ (StableOf(w)' => StableInv')
  BY <1>1, StableParts DEF ChainInv
<1>3. CASE \E w \in Workers : JobStep(w) \/ ClaimJobs(w) \/ Reconcile(w) \/ Breaks(w)
  <2>1. PICK w \in Workers : JobStep(w) \/ ClaimJobs(w) \/ Reconcile(w) \/ Breaks(w)
    BY <1>3
  <2>2. ~Breaks(w)
    BY <1>1, QueueAssumption DEF Breaks, WorkerDies, HandlerRaises, CrashWorker, Raise, Lapse, Calm
  <2>3. ~ExpireSession(w)
    BY <1>2 DEF ExpireSession, StableOf, StatusAt
  <2>4. StableOf(w)'
    BY <1>1, <1>2, <2>1, <2>2, <2>3, BeginStable, ProviderStable, PlainStable, RecordStable,
       ApplyStable, CloseStable, SuccessorStable, EnqueueStable, FinishStable, RetryStable,
       ClaimStable, ReadStable, LedgerStable, PassEnqueueStable DEF JobStep, Reconcile
  <2> QED
    BY <1>2, <2>4
<1>4. CASE \/ \E h \in Handlers : ApiReads(h) \/ ApiCommits(h) \/ ApiEnqueues(h)
           \/ ApiDies \/ Expire \/ Vanish
  <2>1. \A w \in Workers : StableOf(w)'
    BY <1>1, <1>2, <1>4, AwayStable
  <2> QED
    BY <1>2, <2>1, Workers # {}
<1> QED
  BY <1>3, <1>4 DEF Next, Breaks, Breaks

LEMMA StableInit == Init => StableInv
<1> SUFFICES ASSUME Init PROVE StableInv
  OBVIOUS
<1>1. PICK first : /\ \A j \in JobIds : j # first => jobs[j] = NoJob
                   /\ \A j \in JobIds : j = first => jobs[j].kind = "provision"
  <2> DEFINE first == CHOOSE i \in RowsOf["provision"] : TRUE
  <2> QED
    BY DEF Init
<1>2. \A j \in JobIds : j # first => ~Active(j)
  BY <1>1 DEF NoJob, Active
<1>3. \A j \in JobIds : ~Held(j)
  BY DEF Init, Held
<1>4. Onwards \subseteq {first} /\ Ends = {}
  BY <1>1, <1>2, <1>3 DEF Onwards, Ends, Ongoing
<1>5. dep.status = "queued"
  BY DEF Init, NewRow
<1>6. \A w \in Workers : OneOnwards(w)
  BY <1>1, <1>4, <1>5 DEF OneOnwards, Onwards, Ongoing
<1>7. \A w \in Workers : StatusAt(w) /\ PlanFits(w)
  BY QueueAssumption, LifecycleAssumption DEF Init, StatusAt, PlanFits, At
<1>8. ApiCalm
  BY KindsUsed DEF Init, ApiCalm
<1> QED
  BY <1>4, <1>5, <1>6, <1>7, <1>8 DEF StableInv, ApiCalm, Ends

LEMMA StableInvariant ==
    ASSUME OneWorker, Workers # {}
    PROVE  Spec => []StableInv
<1>1. StableInv /\ UNCHANGED vars => StableInv'
  <2> SUFFICES ASSUME StableInv, UNCHANGED vars PROVE StableInv'
    OBVIOUS
  <2>1. PICK w \in Workers : TRUE
    BY Workers # {}
  <2>2. /\ UNCHANGED <<jobs, held, checked, crashes, dep, past, asked, pc, cur, snap, ans, todo, api>>
        /\ \A ks : Ongoing(ks)' = Ongoing(ks)
    BY SameOngoing DEF vars, queueVars, rowVars, workerVars
  <2>3. (Calm' <=> Calm) /\ Onwards' = Onwards /\ Ends' = Ends
    BY <2>2 DEF Calm, Onwards, Ends
  <2>4. StableOf(w) => StableOf(w)'
    BY <2>2, <2>3 DEF StableOf, ApiCalm, EndsFit, StatusAt, PlanFits, OneOnwards, At, Kind,
                      FailsDeployment
  <2> QED
    BY <2>3, <2>4, StableParts
<1>2. TypeOK /\ ChainInv /\ StableInv /\ [Next]_vars => StableInv'
  BY <1>1, StableStep
<1> QED
  BY <1>2, StableInit, TypeCorrect, ChainInvariant, PTL DEF Spec

\* While the session is ready, the worker has nothing to write into its status.
LEMMA JobKeepsReady ==
    ASSUME TypeOK, NEW w \in Workers, AtWork(w), StableOf(w), dep.status = "ready", JobStep(w)
    PROVE  dep'.status = "ready"
<1>1. ~Record(w) /\ ~Apply(w) /\ ~ExpireSession(w)
  BY DEF Record, Apply, ExpireSession, StableOf, StatusAt, At
<1>2. ASSUME Close(w) PROVE FALSE
  <2>1. pc[w] = "close" /\ Kind(w) \in {"terminate", "cleanup"}
    BY <1>2 DEF Close, StableOf, StatusAt, At
  <2>2. cur[w] \in Ends
    BY <2>1, CurIsJob DEF TypeOK, AtWork, Ends, Ongoing, Held, Kind
  <2> QED
    BY <2>2 DEF StableOf, EndsFit
<1>3. CASE Retry(w)
  BY <1>3, Sole DEF Retry, StableOf, StatusAt, At, Rows
<1>4. CASE Track(w) \/ ReadyFlag(w) \/ ReadySend(w) \/ EndFlag(w) \/ EndSend(w) \/ Untrack(w)
  BY <1>4, Sole
     DEF Track, ReadyFlag, ReadySend, EndFlag, EndSend, Untrack, OnlyRow, rowVars, Rows
<1>5. CASE Begin(w) \/ Create(w) \/ Poll(w) \/ Destroy(w) \/ Successor(w) \/ Enqueue(w) \/ Finish(w)
  BY <1>5 DEF Begin, BeginProvision, BeginRefresh, BeginDestroy, Take, Create, Poll, AskProvider,
              Destroy,
              Successor, Enqueue, Finish, OnlyExternal, OnlyWorker, rowVars
<1> QED
  BY <1>1, <1>2, <1>3, <1>4, <1>5 DEF JobStep

\* Until a process dies for the first time, a ready session stays ready until it expires or
\* a DELETE is committed: no refresh, no failed attempt and no pass of the reconciliation
\* touches it.
THEOREM ReadyStaysUntilCrash ==
    ASSUME OneWorker, Workers # {}
    PROVE  Spec => ReadyUntilCrash
<1> DEFINE Keeps ==
             crashes = 0 /\ dep.status = "ready" /\ ~past /\ ~asked' => dep'.status = "ready"
<1>1. TypeOK /\ ChainInv /\ StableInv /\ Next => Keeps
  <2> SUFFICES ASSUME TypeOK, ChainInv, StableInv, Next,
                      crashes = 0, dep.status = "ready", ~past, ~asked'
               PROVE  dep'.status = "ready"
    OBVIOUS
  <2>1. CASE \E w \in Workers : JobStep(w) \/ ClaimJobs(w) \/ Reconcile(w) \/ Breaks(w)
    <3>1. PICK w \in Workers : JobStep(w) \/ ClaimJobs(w) \/ Reconcile(w) \/ Breaks(w)
      BY <2>1
    <3>2. CASE JobStep(w)
      <4>1. asked' = asked
        BY <3>2, WorkersKeepAsked
      <4>2. StableOf(w) /\ AtWork(w)
        BY <4>1, StableParts DEF Calm, ChainInv
      <4> QED
        BY <3>2, <4>2, JobKeepsReady
    <3> QED
      BY <3>1, <3>2 DEF ClaimJobs, Reconcile, Breaks, WorkerDies, HandlerRaises, ReconcileRead,
                        ReconcileLedger,
                        ReconcileEnqueue, OnlyWorker, rowVars
  <2>2. CASE \E h \in Handlers : ApiCommits(h)
    <3>1. PICK h \in Handlers : ApiCommits(h)
      BY <2>2
    <3>2. ~asked /\ h \notin Deletes /\ api[h] = "write"
      BY <3>1, TypeParts DEF ApiCommits, RowTypeOK
    <3>3. FALSE
      BY <3>2, Workers # {}, StableParts DEF Calm, StableOf, ApiCalm
    <3> QED
      BY <3>3
  <2> QED
    BY <2>1, <2>2 DEF Next, Breaks, ApiReads, ApiOnly, ApiEnqueues, ApiDies, Expire, Vanish,
                      OnlyExternal,
                      rowVars
<1>2. TypeOK /\ ChainInv /\ StableInv /\ [Next]_vars => [Keeps]_vars
  BY <1>1
<1> QED
  BY <1>2, TypeCorrect, ChainInvariant, StableInvariant, PTL DEF Spec, ReadyUntilCrash

\* So it stays ready where no process dies.
THEOREM ReadyStays ==
    ASSUME OneWorker, Workers # {}, MaxCrashes = 0
    PROVE  Spec => ReadyIsStable
<1>1. TypeOK => crashes = 0
  BY MaxCrashes = 0 DEF TypeOK, QueueTypeOK
<1>2. Spec => [][crashes = 0 /\ dep.status = "ready" /\ ~past /\ ~asked'
                   => dep'.status = "ready"]_vars
  BY OneWorker, Workers # {}, ReadyStaysUntilCrash DEF ReadyUntilCrash
<1>3. /\ TypeOK
      /\ [crashes = 0 /\ dep.status = "ready" /\ ~past /\ ~asked' => dep'.status = "ready"]_vars
      => [dep.status = "ready" /\ ~past /\ ~asked' => dep'.status = "ready"]_vars
  BY <1>1
<1> QED
  BY <1>2, <1>3, TypeCorrect, PTL DEF ReadyIsStable

-----------------------------------------------------------------------------
(* The stay: what each step knows of the session *)

LaunchedHas == dep.status \in Launched => dep.inst # None

TenantOf(w) ==
    /\ pc[w] \in {"ready_flag", "ready_send"} =>
         dep.inst # None /\ dep.status \in {"ready", "terminating"}
    /\ pc[w] \in {"flag", "send"} => dep.status \in TerminalStatuses \cup {"terminating"}
    /\ At(w, "poll") /\ snap[w].status \in Launched => dep.inst # None
    /\ At(w, "apply") /\ ans[w].status \in Launched => dep.inst # None

LEMMA TenantParts ==
    /\ TenantInv <=> LaunchedHas /\ \A w \in Workers : TenantOf(w)
    /\ TenantInv' <=> LaunchedHas' /\ \A w \in Workers : TenantOf(w)'
BY DEF TenantInv, LaunchedHas, TenantOf

LEMMA SoleTenant ==
    ASSUME OneWorker, NEW w \in Workers, LaunchedHas', TenantOf(w)'
    PROVE  TenantInv'
BY TenantParts DEF OneWorker

\* The steps of which TenantInv speaks
Speaking == {"ready_flag", "ready_send", "flag", "send", "poll", "apply"}

LEMMA SilentTenant ==
    ASSUME OneWorker, NEW w \in Workers, pc'[w] \notin Speaking, LaunchedHas'
    PROVE  TenantInv'
<1>1. TenantOf(w)'
  BY DEF TenantOf, Speaking, At
<1> QED
  BY <1>1, SoleTenant

\* What may happen to the row while the stay goes on
RowStays == dep'.inst = dep.inst /\ dep'.closed = dep.closed

Dims == RowStays /\ dep'.status \in {dep.status, "terminating", "failed"}

LEMMA DimsLaunched ==
    ASSUME LaunchedHas, Dims
    PROVE  LaunchedHas'
BY DEF LaunchedHas, Dims, RowStays, Launched

LEMMA BeginTenant ==
    ASSUME TypeOK, OneWorker, TenantInv, NEW w \in Workers, Begin(w)
    PROVE  TenantInv'
<1>1. dep' = dep /\ (pc'[w] = "poll" => snap'[w] = dep)
  BY BeginEffect
<1>2. LaunchedHas /\ LaunchedHas'
  BY <1>1, TenantParts DEF LaunchedHas
<1>3. PICK j \in JobIds : BeginProvision(w, j) \/ BeginRefresh(w, j) \/ BeginDestroy(w, j)
  BY DEF Begin
<1>4. \A step : Take(w, j, step) => pc'[w] = step
  BY Sole, TakeEffect
<1>5. /\ pc'[w] \notin {"ready_flag", "ready_send", "send", "apply"}
      /\ pc'[w] = "flag" => dep.status \in TerminalStatuses
  BY <1>3, <1>4
     DEF BeginProvision, BeginRefresh, BeginDestroy, FailedStep, AlreadyClosed, Final,
         TerminalStatuses
<1>6. TenantOf(w)'
  BY <1>1, <1>2, <1>5 DEF TenantOf, LaunchedHas, At
<1> QED
  BY <1>2, <1>6, SoleTenant

LEMMA PollTenant ==
    ASSUME TypeOK, OneWorker, SettleInv, TenantInv, NEW w \in Workers, Poll(w)
    PROVE  TenantInv'
<1>1. dep' = dep /\ pc[w] = "poll"
  BY DEF Poll, AskProvider, OnlyExternal, rowVars, At
<1>2. LaunchedHas'
  BY <1>1, TenantParts DEF LaunchedHas
<1>3. snap[w].inst = dep.inst
  BY <1>1 DEF SettleInv, CopyCurrent
<1>4. snap[w].status \in Launched => dep.inst # None
  BY <1>1, TenantParts DEF TenantOf, At
<1>5. CASE Goto(w, "retry")
  <2>1. pc'[w] = "retry"
    BY <1>5, Sole, GotoEffect
  <2> QED
    BY <1>2, <2>1, SilentTenant DEF Speaking
<1>6. ASSUME NEW a, Answered(w, "apply", a), a.status \in Launched => dep.inst # None
      PROVE  TenantInv'
  <2>1. pc'[w] = "apply" /\ ans'[w] = a
    BY <1>6, Sole, AnsweredEffect
  <2>2. TenantOf(w)'
    BY <1>1, <1>6, <2>1 DEF TenantOf, At
  <2> QED
    BY <1>2, <2>2, SoleTenant
<1>7. \/ Goto(w, "retry")
      \/ \E a : Answered(w, "apply", a) /\ (a.status \in Launched => dep.inst # None)
  <2>1. \A s : [NoAnswer EXCEPT !.status = s].status = s
    BY DEF NoAnswer
  <2>2. CASE Answered(w, "apply", [NoAnswer EXCEPT !.status = snap[w].status])
    BY <1>4, <2>1, <2>2
  <2>3. CASE \E s \in {"failed", "terminated"} :
               Answered(w, "apply", [NoAnswer EXCEPT !.status = s])
    BY <2>1, <2>3 DEF Launched
  <2>4. CASE snap[w].inst # None /\ \E a : Answered(w, "apply", a)
    BY <1>3, <2>4
  <2> QED
    BY <2>2, <2>3, <2>4 DEF Poll, AskProvider
<1> QED
  BY <1>5, <1>6, <1>7

\* What the answer of a poll makes of the row
LEMMA ApplyEffect ==
    ASSUME TypeOK, NEW w \in Workers, Apply(w)
    PROVE  /\ pc[w] = "apply" /\ pc'[w] = AfterApply(dep')
           /\ RowStays /\ dep'.status = ans[w].status
           /\ UNCHANGED <<cloud, sent, crashes>>
<1>1. dep \in Rows /\ WorkerTypeOK
  BY Sole
<1>2. /\ dep' = [ApplyProviderPatch(dep, ans[w]) EXCEPT !.status = ans[w].status]
      /\ GotoWithRow(w, AfterApply(dep')) /\ pc[w] = "apply"
      /\ UNCHANGED <<cloud, sent, crashes>>
  BY DEF Apply, At, OnlyRow, extVars, queueVars
<1>3. RowStays /\ dep'.status = ans[w].status
  BY <1>1, <1>2 DEF ApplyProviderPatch, Rows, RowStays
<1>4. pc'[w] = AfterApply(dep')
  BY <1>1, <1>2, GotoWithRowEffect
<1> QED
  BY <1>2, <1>3, <1>4

LEMMA ApplyTenant ==
    ASSUME TypeOK, OneWorker, TenantInv, NEW w \in Workers, Apply(w)
    PROVE  TenantInv'
<1>1. /\ pc[w] = "apply" /\ pc'[w] = AfterApply(dep')
      /\ dep'.inst = dep.inst /\ dep'.status = ans[w].status
  BY ApplyEffect DEF RowStays
<1>2. dep'.status \in Launched => dep'.inst # None
  BY <1>1, TenantParts DEF TenantOf, At
<1>3. /\ pc'[w] \notin {"ready_send", "send", "poll", "apply"}
      /\ pc'[w] = "ready_flag" => dep'.status = "ready"
      /\ pc'[w] = "flag" => dep'.status \in {"terminated", "failed"}
  BY <1>1 DEF AfterApply, FailedStep
<1>4. TenantOf(w)'
  BY <1>2, <1>3 DEF TenantOf, At, Launched, TerminalStatuses
<1> QED
  BY <1>2, <1>4, SoleTenant DEF LaunchedHas

\* Steps after which the handler knows nothing of the session that matters
LEMMA SilentSteps ==
    ASSUME TypeOK, NEW w \in Workers,
           \/ Create(w) \/ Track(w) \/ Successor(w) \/ ExpireSession(w) \/ ReadySend(w)
           \/ EndSend(w) \/ Destroy(w) \/ Untrack(w) \/ Enqueue(w) \/ Finish(w) \/ Retry(w)
           \/ ClaimJobs(w) \/ Reconcile(w) \/ Breaks(w)
    PROVE  \/ Dims /\ pc'[w] \notin Speaking
           \/ UNCHANGED <<dep, pc, snap, ans>>
<1>1. dep \in Rows /\ WorkerTypeOK
  BY Sole
<1>2. ASSUME UNCHANGED dep PROVE Dims
  BY <1>2 DEF Dims, RowStays
<1>3. ASSUME NEW step, Goto(w, step) \/ GotoWithRow(w, step) PROVE pc'[w] = step
  BY <1>1, <1>3, GotoEffect, GotoWithRowEffect
<1>4. CASE Create(w)
  <2>1. UNCHANGED dep /\ pc'[w] \in {"record", "retry"}
    BY <1>4, CreateEffect
  <2> QED
    BY <1>2, <2>1 DEF Speaking
<1>5. CASE Track(w) \/ Successor(w) \/ Destroy(w) \/ Untrack(w) \/ ReadySend(w) \/ EndSend(w)
  <2>1. UNCHANGED dep
    BY <1>5 DEF Track, Successor, Destroy, Untrack, ReadySend, EndSend, OnlyExternal, rowVars
  <2>2. \E step : Goto(w, step) /\ step \notin Speaking
    BY <1>5 DEF Track, Successor, Destroy, AfterDestroyError, Untrack, ReadySend, EndSend, Speaking
  <2> QED
    BY <1>2, <1>3, <2>1, <2>2
<1>6. CASE ExpireSession(w)
  <2>1. dep' = [dep EXCEPT !.status = IF @ \in ActiveStatuses THEN "terminating" ELSE @]
        /\ pc'[w] = "enqueue"
    BY <1>3, <1>6 DEF ExpireSession
  <2>2. Dims
    BY <1>1, <2>1 DEF Dims, RowStays, Rows
  <2> QED
    BY <2>1, <2>2 DEF Speaking
<1>7. CASE Enqueue(w)
  <2>1. UNCHANGED dep
    BY <1>7 DEF Enqueue, rowVars
  <2>2. UNCHANGED <<pc, snap, ans>> \/ pc'[w] = "finish"
    BY <1>3, <1>7 DEF Enqueue, workerVars
  <2> QED
    BY <1>2, <2>1, <2>2 DEF Speaking
<1>8. CASE Finish(w) \/ Retry(w) \/ Breaks(w)
  <2>1. pc'[w] \in {"idle", "retry"}
    BY <1>1, <1>8, ForgetEffect, BreaksEffect DEF Finish, Retry
  <2>2. \/ dep' = dep
        \/ \E s \in {dep.status, "failed"} : dep' = [dep EXCEPT !.status = s]
    BY <1>8, BreaksEffect DEF Finish, Retry, rowVars
  <2>3. Dims
    BY <1>1, <2>2 DEF Dims, RowStays, Rows
  <2> QED
    BY <2>1, <2>3 DEF Speaking
<1>9. CASE ClaimJobs(w)
  BY <1>9 DEF ClaimJobs, rowVars, workerVars
<1>10. CASE Reconcile(w)
  <2>1. UNCHANGED dep
    BY <1>10 DEF Reconcile, ReconcileRead, ReconcileLedger, ReconcileEnqueue, OnlyWorker, rowVars
  <2>2. UNCHANGED <<pc, snap, ans>> \/ pc'[w] \in {"idle", "reconcile"}
    BY <1>1, <1>10
       DEF Reconcile, ReconcileRead, ReconcileLedger, ReconcileEnqueue, workerVars, At, WorkerTypeOK
  <2> QED
    BY <1>2, <2>1, <2>2 DEF Speaking
<1> QED
  BY <1>4, <1>5, <1>6, <1>7, <1>8, <1>9, <1>10

LEMMA FlagTenant ==
    ASSUME TypeOK, OneWorker, TenantInv, NEW w \in Workers, ReadyFlag(w) \/ EndFlag(w)
    PROVE  TenantInv' /\ RowStays /\ dep'.status = dep.status
<1>1. dep \in Rows /\ LaunchedHas /\ TenantOf(w)
  BY Sole, TenantParts
<1>2. RowStays /\ dep'.status = dep.status
  BY <1>1 DEF ReadyFlag, EndFlag, RowStays, Rows
<1>3. \/ pc[w] = "ready_flag" /\ pc'[w] = "ready_send"
      \/ pc[w] = "flag" /\ pc'[w] = "send"
  BY Sole, GotoEffect DEF ReadyFlag, EndFlag, At
<1>4. LaunchedHas' /\ TenantOf(w)'
  BY <1>1, <1>2, <1>3 DEF LaunchedHas, TenantOf, RowStays, At
<1> QED
  BY <1>2, <1>4, SoleTenant

\* What closes the row
LEMMA CloseEffect ==
    ASSUME TypeOK, NEW w \in Workers, Close(w)
    PROVE  /\ pc[w] = "close" /\ pc'[w] \in {"finish", "flag"}
           /\ dep'.inst = dep.inst /\ dep'.closed /\ dep'.status \in TerminalStatuses
           /\ UNCHANGED <<cloud, sent, crashes>>
<1>1. dep \in Rows /\ WorkerTypeOK
  BY Sole
<1>2. /\ dep' = [dep EXCEPT !.status = Final(Kind(w)), !.closed = TRUE]
      /\ pc[w] = "close" /\ UNCHANGED <<cloud, sent, crashes>>
      /\ \E step \in {"finish", "flag"} : GotoWithRow(w, step)
  BY DEF Close, At, OnlyRow, extVars, queueVars
<1>3. Final(Kind(w)) \in TerminalStatuses
  BY DEF Final, TerminalStatuses
<1>4. pc'[w] \in {"finish", "flag"}
  BY <1>1, <1>2, GotoWithRowEffect
<1> QED
  BY <1>1, <1>2, <1>3, <1>4 DEF Rows

LEMMA CloseTenant ==
    ASSUME TypeOK, OneWorker, TenantInv, NEW w \in Workers, Close(w)
    PROVE  TenantInv'
<1>1. pc'[w] \in {"finish", "flag"} /\ dep'.status \in TerminalStatuses
  BY CloseEffect
<1>2. LaunchedHas' /\ TenantOf(w)'
  BY <1>1 DEF LaunchedHas, Launched, TerminalStatuses, TenantOf, At
<1> QED
  BY <1>2, SoleTenant

LEMMA RecordTenant ==
    ASSUME TypeOK, OneWorker, AllSafe, TenantInv, NEW w \in Workers, Record(w)
    PROVE  TenantInv'
<1>1. /\ pc[w] = "record" /\ pc'[w] \in {"finish", "track"}
      /\ dep' = dep \/ dep'.inst = (IF ans[w].inst = None THEN dep.inst ELSE ans[w].inst)
  BY RecordEffect
<1>2. ans[w].inst # dep.inst
  BY <1>1 DEF AllSafe, MakeSafe, At
<1>3. LaunchedHas'
  BY <1>1, <1>2, TenantParts DEF LaunchedHas
<1> QED
  BY <1>1, <1>3, SilentTenant DEF Speaking

\* The API's commit, which the worker may learn of at any step
LEMMA AwayTenant ==
    ASSUME TypeOK, TenantInv, Away
    PROVE  TenantInv' /\ Dims
<1>1. dep \in Rows /\ UNCHANGED workerVars
  BY AwayEffect, TypeParts DEF RowTypeOK
<1>2. dep' = dep \/ dep' = [dep EXCEPT !.status = "terminating"]
  BY DEF Away, ApiReads, ApiOnly, ApiCommits, ApiEnqueues, ApiDies, Expire, Vanish, OnlyExternal,
         rowVars
<1>3. Dims /\ dep'.status \in {dep.status, "terminating"}
  BY <1>1, <1>2 DEF Dims, RowStays, Rows
<1>4. LaunchedHas'
  BY <1>3, TenantParts, DimsLaunched
<1>5. ASSUME NEW w \in Workers PROVE TenantOf(w)'
  BY <1>1, <1>3, TenantParts DEF TenantOf, At, workerVars, Dims, RowStays
<1> QED
  BY <1>3, <1>4, <1>5, TenantParts

LEMMA TenantStep ==
    ASSUME TypeOK, OneWorker, AllSafe, SettleInv, TenantInv, Next
    PROVE  TenantInv'
<1>1. ASSUME NEW w \in Workers, Dims, pc'[w] \notin Speaking PROVE TenantInv'
  BY <1>1, DimsLaunched, SilentTenant, TenantParts
<1>2. UNCHANGED <<dep, pc, snap, ans>> => TenantInv'
  BY DEF TenantInv, At
<1>3. CASE \E w \in Workers : WorkerStep(w)
  BY <1>1, <1>2, <1>3, SilentSteps, BeginTenant, PollTenant, ApplyTenant, FlagTenant, CloseTenant,
     RecordTenant DEF WorkerStep, JobStep
<1> QED
  BY <1>3, NextSteps, AwayTenant

LEMMA TenantInit == Init => TenantInv
BY DEF Init, TenantInv, NewRow, Launched, At

LEMMA TenantInvariant ==
    ASSUME OneWorker, Workers # {}
    PROVE  Spec => []TenantInv
<1>1. TenantInv /\ UNCHANGED vars => TenantInv'
  BY DEF vars, rowVars, workerVars, TenantInv, At
<1>2. TypeOK /\ SettleInv /\ Guarded /\ TenantInv /\ [Next]_vars => TenantInv'
  BY <1>1, OneWorker, TenantStep DEF Guarded
<1> QED
  BY <1>2, OneWorker, Workers # {}, TenantInit, TypeCorrect, SettleInvariant, GuardedInvariant, PTL
     DEF Spec

-----------------------------------------------------------------------------
(* The stay: steps of the system are steps of Tenancy. *)

StayRest == UNCHANGED <<Phase, dep.inst, DropletState, sent>>

\* All but the droplets adrift and the deaths
StayMove ==
    \/ \E d \in Droplets : Stay!Obtain(d)
    \/ Stay!Turn \/ Stay!Stop \/ Stay!Close
    \/ \E m \in {"ready", "ended"} : Stay!Tell(m)
    \/ StayRest

\* A step that leaves the row and the messages alone can only stop the droplet.
LEMMA RowRests ==
    ASSUME TypeOK, TypeOK', SettleInv, GoneStays, UNCHANGED <<dep, sent>>
    PROVE  StayMove
<1>1. Phase' = Phase
  BY DEF Phase, Over
<1>2. CASE dep.inst = None
  BY <1>1, <1>2 DEF StayMove, StayRest, DropletState
<1>3. CASE dep.inst # None
  <2>1. /\ dep.inst \in Droplets /\ cloud[dep.inst] \in {"up", "gone"}
        /\ cloud'[dep.inst] \in {"up", "gone"}
    BY <1>3, TypeParts, ExtTypes DEF RowTypeOK, Rows, ExtTypeOK, SettleInv, RecordedExists,
                                     GoneStays
  <2>2. DropletState = cloud[dep.inst] /\ DropletState' = cloud'[dep.inst]
    BY <1>3 DEF DropletState
  <2>3. cloud[dep.inst] = "gone" => cloud'[dep.inst] = "gone"
    BY <2>1 DEF GoneStays
  <2>4. CASE DropletState' = DropletState
    BY <1>1, <2>4 DEF StayMove, StayRest
  <2>5. CASE DropletState = "up" /\ DropletState' = "gone"
    BY <1>1, <2>5 DEF StayMove, Stay!Stop
  <2> QED
    BY <2>1, <2>2, <2>3, <2>4, <2>5
<1> QED
  BY <1>2, <1>3

LEMMA DimsTurns ==
    ASSUME Dims, UNCHANGED <<cloud, sent>>
    PROVE  StayMove
<1>1. dep'.inst = dep.inst /\ DropletState' = DropletState
  BY DEF Dims, RowStays, DropletState
<1>2. CASE dep'.status = dep.status
  <2>1. Phase' = Phase
    BY <1>2 DEF Phase, Over, Dims, RowStays
  <2> QED
    BY <1>1, <2>1 DEF StayMove, StayRest
<1>3. CASE dep'.status \in {"terminating", "failed"}
  <2>1. Phase' = "ending"
    BY <1>3 DEF Phase, Over, Launched
  <2> QED
    BY <1>1, <2>1 DEF StayMove, Stay!Turn
<1> QED
  BY <1>2, <1>3 DEF Dims

LEMMA RecordStays ==
    ASSUME TypeOK, OneWorker, SettleInv, KeepInv, AllSafe, NEW w \in Workers, Record(w)
    PROVE  StayMove
<1>1. /\ UNCHANGED <<cloud, sent>> /\ pc[w] = "record"
      /\ \/ dep' = dep
         \/ /\ InSession /\ dep'.status = "initializing"
            /\ dep'.inst = IF ans[w].inst = None THEN dep.inst ELSE ans[w].inst
  BY RecordEffect DEF Record, OnlyRow
<1>2. ans[w].inst # dep.inst /\ (ans[w].inst # None => dep.inst = None)
  BY <1>1 DEF AllSafe, MakeSafe, KeepInv, HoldsSafe, At
<1>3. CASE dep' = dep
  BY <1>1, <1>3 DEF StayMove, StayRest, Phase, Over, DropletState
<1>4. CASE /\ InSession /\ dep'.status = "initializing"
           /\ dep'.inst = IF ans[w].inst = None THEN dep.inst ELSE ans[w].inst
  <2>1. Phase # "over" /\ Phase' = "running"
    BY <1>4 DEF Phase, Over, InSession, ActiveStatuses, Running, Launched
  <2>2. CASE ans[w].inst = None
    <3>1. dep.inst # None /\ dep'.inst = dep.inst /\ DropletState' = DropletState
      BY <1>1, <1>2, <1>4, <2>2 DEF DropletState
    <3> QED
      BY <1>1, <2>1, <3>1 DEF StayMove, Stay!Turn
  <2>3. CASE ans[w].inst # None
    <3>1. ans[w].inst \in Droplets /\ dep.inst = None /\ dep'.inst = ans[w].inst
      BY <1>2, <1>4, <2>3, Sole DEF Answers
    <3>2. cloud[ans[w].inst] \in {"up", "gone"}
      BY <2>3, <3>1, Sole, SettleParts DEF WorkerSafe
    <3>3. DropletState' \in {"up", "gone"}
      BY <1>1, <2>3, <3>1, <3>2 DEF DropletState
    <3>4. Stay!Obtain(ans[w].inst)
      BY <1>1, <2>1, <3>1, <3>3 DEF Stay!Obtain
    <3> QED
      BY <3>1, <3>4 DEF StayMove
  <2> QED
    BY <2>2, <2>3
<1> QED
  BY <1>1, <1>3, <1>4

\* A droplet that a poll does not find is gone.
LEMMA ApplyStays ==
    ASSUME TypeOK, SettleInv, EarlyInv, TenantInv, NEW w \in Workers, Apply(w)
    PROVE  StayMove
<1>1. /\ pc[w] = "apply" /\ RowStays /\ dep'.status = ans[w].status
      /\ UNCHANGED <<cloud, sent>> /\ dep \in Rows
  BY ApplyEffect, Sole
<1>2. dep'.inst = dep.inst /\ dep'.closed = dep.closed /\ DropletState' = DropletState
  BY <1>1 DEF RowStays, DropletState
<1>3. /\ dep.status \in ActiveStatuses /\ dep.status # "queued"
      /\ ans[w].status \notin {"expired", "queued"}
      /\ ans[w].status = "terminated" => GoneIn(cloud, dep.inst)
      /\ ans[w].status \in Launched => dep.inst # None
      /\ ans[w].status \in Statuses
  BY <1>1, TenantParts, Sole DEF SettleInv, PollSafe, EarlyInv, TenantOf, At, Answers
<1>4. Phase \in {"running", "ending"}
  BY <1>3 DEF Phase, Over, ActiveStatuses, Running, Launched
<1>5. CASE ans[w].status \in Launched
  <2>0. dep'.status \in {"initializing", "deploying", "ready"}
    BY <1>1, <1>5 DEF Launched
  <2>1. Phase' = "running"
    BY <2>0 DEF Phase, Over, Launched
  <2> QED
    BY <1>1, <1>2, <1>3, <1>4, <1>5, <2>1 DEF StayMove, Stay!Turn
<1>6. CASE ans[w].status = "terminated" /\ dep.closed
  <2>1. Phase' = "over"
    BY <1>1, <1>2, <1>6 DEF Phase, Over, Launched
  <2>2. DropletState # "up"
    BY <1>3, <1>6 DEF DropletState, GoneIn
  <2> QED
    BY <1>1, <1>2, <1>4, <2>1, <2>2 DEF StayMove, Stay!Close
<1>7. CASE /\ ans[w].status \in {"terminating", "failed", "terminated"}
           /\ ~(ans[w].status = "terminated" /\ dep.closed)
  <2>1. Phase' = "ending"
    BY <1>1, <1>2, <1>7 DEF Phase, Over, Launched
  <2> QED
    BY <1>1, <1>2, <2>1 DEF StayMove, Stay!Turn
<1> QED
  BY <1>3, <1>5, <1>6, <1>7
     DEF Statuses, ActiveStatuses, TerminalStatuses, Running, Launched

LEMMA CloseStays ==
    ASSUME TypeOK, SettleInv, EarlyInv, NEW w \in Workers, Close(w)
    PROVE  StayMove
<1>1. /\ pc[w] = "close" /\ dep'.inst = dep.inst /\ dep'.closed
      /\ dep'.status \in TerminalStatuses /\ UNCHANGED <<cloud, sent>>
  BY CloseEffect
<1>2. DropletState' = DropletState /\ DropletState # "up"
  BY <1>1 DEF DropletState, SettleInv, CloseSafe, Released, At
<1>3. Phase # "waiting"
  BY <1>1 DEF EarlyInv, Phase
<1>4. CASE dep'.status = "failed"
  <2>1. Phase' = "ending"
    BY <1>4 DEF Phase, Over, Launched
  <2> QED
    BY <1>1, <1>2, <2>1 DEF StayMove, Stay!Turn
<1>5. CASE dep'.status \in {"terminated", "expired"}
  <2>1. Phase' = "over"
    BY <1>1, <1>5 DEF Phase, Over, Launched
  <2>2. Phase \in {"running", "ending", "over"}
    BY <1>3 DEF Phase
  <2> QED
    BY <1>1, <1>2, <2>1, <2>2 DEF StayMove, StayRest, Stay!Close
<1> QED
  BY <1>1, <1>4, <1>5 DEF TerminalStatuses

\* A worker that is about to send a message has not sent it before.
LEMMA SendStays ==
    ASSUME TypeOK, OneWorker, NoticeInv, TenantInv, NEW w \in Workers, NEW m \in Messages,
           pc[w] = SendStep(m), sent' = [sent EXCEPT ![m] = @ + 1], UNCHANGED <<dep, cloud>>
    PROVE  StayMove
<1>1. sent \in [Messages -> Nat] /\ dep \in Rows
  BY TypeParts DEF RestTypeOK, RowTypeOK, Messages
<1>2. Cardinality(Workers) = 1 /\ Workers = {w}
  BY FS_Singleton DEF OneWorker
<1>3. Cardinality(Tellers(m)) = 1
  <2>1. Tellers(m) = {w}
    BY <1>2 DEF Tellers
  <2> QED
    BY <2>1, FS_Singleton
<1>4. sent[m] = 0
  BY <1>1, <1>2, <1>3 DEF NoticeInv, Messages
<1>5. sent' = [sent EXCEPT ![m] = 1]
  BY <1>1, <1>4
<1>6. UNCHANGED <<Phase, dep.inst, DropletState>>
  BY DEF Phase, Over, DropletState
<1>7. m = "ready" => dep.inst # None /\ Phase # "over"
  BY TenantParts DEF TenantOf, SendStep, Phase, Over, Launched
<1>8. m = "ended" => Phase \in {"ending", "over"}
  BY TenantParts DEF TenantOf, SendStep, Phase, Over, Launched, TerminalStatuses
<1> QED
  BY <1>4, <1>5, <1>6, <1>7, <1>8 DEF StayMove, Stay!Tell, Messages

LEMMA SendEffect ==
    ASSUME TypeOK, NEW w \in Workers, ReadySend(w) \/ EndSend(w)
    PROVE  /\ UNCHANGED <<dep, cloud>>
           /\ \E m \in Messages : pc[w] = SendStep(m) /\ sent' = [sent EXCEPT ![m] = @ + 1]
<1>1. UNCHANGED <<dep, cloud>>
  BY DEF ReadySend, EndSend, rowVars, extVars
<1>2. CASE ReadySend(w)
  BY <1>1, <1>2 DEF ReadySend, Messages, SendStep, At
<1>3. CASE EndSend(w)
  BY <1>1, <1>3 DEF EndSend, Messages, SendStep, At
<1> QED
  BY <1>2, <1>3

StayInv ==
    TypeOK /\ SettleInv /\ KeepInv /\ NoticeInv /\ Guarded /\ TenantInv

LEMMA StayWorker ==
    ASSUME StayInv, TypeOK', OneWorker, NEW w \in Workers, WorkerStep(w), Next
    PROVE  StayMove
<1>1. TypeOK /\ SettleInv /\ KeepInv /\ NoticeInv /\ EarlyInv /\ AllSafe /\ TenantInv
  BY DEF StayInv, Guarded
<1>2. GoneStays
  BY <1>1, NextStays
<1>3. UNCHANGED <<dep, sent>> => StayMove
  BY <1>1, <1>2, RowRests
<1>4. CASE Begin(w) \/ Create(w) \/ Poll(w) \/ Track(w) \/ Successor(w) \/ Destroy(w) \/ Untrack(w)
           \/ Enqueue(w) \/ Finish(w) \/ ClaimJobs(w) \/ Reconcile(w) \/ Breaks(w)
  <2>1. CASE Begin(w)
    BY <1>3, <2>1 DEF Begin, BeginProvision, BeginRefresh, BeginDestroy, Take, OnlyWorker, rowVars
  <2>2. CASE Reconcile(w) \/ ClaimJobs(w) \/ Breaks(w)
    BY <1>3, <2>2 DEF Reconcile, ReconcileRead, ReconcileLedger, ReconcileEnqueue, OnlyWorker,
                      rowVars, ClaimJobs, Breaks, WorkerDies, HandlerRaises
  <2> QED
    BY <1>3, <1>4, <2>1, <2>2
       DEF Create, Poll, AskProvider, Track, Successor, Destroy, Untrack, Enqueue, Finish,
           OnlyExternal, rowVars
<1>5. CASE Record(w)
  BY <1>1, <1>5, RecordStays
<1>6. CASE Apply(w)
  BY <1>1, <1>6, ApplyStays
<1>7. CASE Close(w)
  BY <1>1, <1>7, CloseStays
<1>8. CASE ExpireSession(w) \/ Retry(w)
  <2>1. UNCHANGED <<cloud, sent>>
    BY <1>8 DEF ExpireSession, Retry, OnlyRow, extVars
  <2>2. Dims \/ UNCHANGED dep
    BY <1>1, <1>8, SilentSteps
  <2> QED
    BY <1>3, <2>1, <2>2, DimsTurns
<1>9. CASE ReadyFlag(w) \/ EndFlag(w)
  <2>1. UNCHANGED <<cloud, sent>>
    BY <1>9 DEF ReadyFlag, EndFlag, OnlyRow, extVars
  <2>2. Dims
    BY <1>1, <1>9, FlagTenant DEF Dims
  <2> QED
    BY <2>1, <2>2, DimsTurns
<1>10. CASE ReadySend(w) \/ EndSend(w)
  BY <1>1, <1>10, SendEffect, SendStays
<1> QED
  BY <1>4, <1>5, <1>6, <1>7, <1>8, <1>9, <1>10 DEF WorkerStep, JobStep

LEMMA StayAway ==
    ASSUME StayInv, TypeOK', Next, Away
    PROVE  StayMove
<1>1. TypeOK /\ SettleInv /\ TenantInv
  BY DEF StayInv
<1>2. GoneStays
  BY <1>1, NextStays
<1>3. CASE \E h \in Handlers : ApiCommits(h)
  <2>1. UNCHANGED <<cloud, sent>>
    BY <1>3 DEF ApiCommits, extVars
  <2> QED
    BY <1>1, <2>1, AwayTenant, DimsTurns
<1>4. CASE UNCHANGED <<dep, sent>>
  BY <1>1, <1>2, <1>4, RowRests
<1> QED
  BY <1>3, <1>4
     DEF Away, ApiReads, ApiOnly, ApiEnqueues, ApiDies, Expire, Vanish, OnlyExternal, rowVars

\* Only a death is one.
LEMMA DeathsOnly ==
    ASSUME StayInv, Next
    PROVE  \/ crashes' = crashes
           \/ /\ crashes' = crashes + 1 /\ UNCHANGED <<dep, cloud, sent>>
<1>1. TypeOK /\ AllSafe
  BY DEF StayInv, Guarded
<1>2. ASSUME NEW w \in Workers, WorkerStep(w)
      PROVE  crashes' = crashes \/ (crashes' = crashes + 1 /\ UNCHANGED <<dep, cloud, sent>>)
  BY <1>1, <1>2, CrashesPaid DEF Breaks, WorkerDies, HandlerRaises, rowVars, extVars
<1>3. CASE Away
  BY <1>3 DEF Away, ApiReads, ApiOnly, ApiCommits, ApiEnqueues, EnqueueCheck, EnqueueInsert,
              ApiDies,
              CrashApi, Lapse, Expire, Vanish, OnlyExternal, queueVars, rowVars, extVars
<1> QED
  BY <1>2, <1>3, NextSteps

LEMMA StayStep ==
    ASSUME StayInv, TypeOK', OneWorker, Next
    PROVE  Stay!TenancyNext
<1>1. StayMove
  BY StayWorker, StayAway, NextSteps
<1>2. TypeOK /\ SettleInv /\ KeepInv
  BY DEF StayInv
<1>3. \/ Loses({})
      \/ \E w \in Workers : Breaks(w) /\ Loses({ans[w].inst, ans[w].rec})
  BY <1>2, NextKeeps
<1>4. CASE Loses({}) /\ crashes' = crashes
  <2>1. Strays(cloud)' \subseteq Strays(cloud)
    BY <1>4 DEF Loses
  <2> QED
    BY <1>1, <1>4, <2>1 DEF StayMove, StayRest, Stay!TenancyNext
<1>5. ASSUME NEW d \in Droplets \cup {None}, UNCHANGED <<dep, cloud, sent>>, crashes' = crashes + 1,
             Strays(cloud)' \subseteq Strays(cloud) \cup ({d} \ {None})
      PROVE  Stay!TenancyNext
  <2>1. UNCHANGED <<Phase, dep.inst, DropletState, sent>>
    BY <1>5 DEF Phase, Over, DropletState
  <2> QED
    BY <1>5, <2>1 DEF Stay!TenancyNext, Stay!Die
<1>6. CASE Loses({}) /\ crashes' # crashes
  <2>1. Strays(cloud)' \subseteq Strays(cloud) \cup ({None} \ {None})
    BY <1>6 DEF Loses
  <2> QED
    BY <1>5, <1>6, <2>1, DeathsOnly
<1>7. CASE \E w \in Workers : Breaks(w) /\ Loses({ans[w].inst, ans[w].rec})
  <2>1. PICK w \in Workers : Breaks(w) /\ Loses({ans[w].inst, ans[w].rec})
    BY <1>7
  <2>2. ans[w].inst \in Droplets \cup {None} /\ ans[w].rec \in Records \cup {None}
    BY <1>2, Sole DEF Answers
  <2>3. Strays(cloud)' \subseteq Strays(cloud) \cup ({ans[w].inst} \ {None})
    BY <2>1, <2>2, LifecycleAssumption DEF Loses
  <2>4. UNCHANGED <<dep, cloud, sent>> /\ crashes' = crashes + 1
    BY <1>2, <2>1, DeathEffect DEF Breaks, WorkerDies, HandlerRaises
  <2> QED
    BY <1>5, <2>2, <2>3, <2>4
<1> QED
  BY <1>3, <1>4, <1>6, <1>7

LEMMA StayInit == Init => Stay!TenancyInit
<1> SUFFICES ASSUME Init PROVE Stay!TenancyInit
  OBVIOUS
<1>1. Strays(cloud) = {}
  BY DEF Init, Strays
<1>2. dep.status = "queued" /\ dep.inst = None
  BY DEF Init, NewRow
<1>3. Phase = "waiting" /\ DropletState = "none"
  BY <1>2 DEF Phase, Over, Launched, DropletState
<1> QED
  BY <1>1, <1>2, <1>3 DEF Init, Stay!TenancyInit

\* One worker's deployment is a stay as Tenancy promises it: one droplet, recorded once and
\* never exchanged, gone when the stay is over, which then never runs again; no other droplet
\* adrift but one for each process that died; and each message once, and at its time.
THEOREM LifecycleIsTenancy ==
    ASSUME OneWorker, Workers # {}
    PROVE  Spec => ImplementsTenancy
<1>1. StayInv /\ UNCHANGED vars => UNCHANGED Stay!tenancyVars
  BY DEF vars, queueVars, rowVars, extVars, workerVars, Stay!tenancyVars, Phase, Over, DropletState,
         Strays, InUse
<1>2. StayInv /\ StayInv' /\ [Next]_vars => [Stay!TenancyNext]_(Stay!tenancyVars)
  BY <1>1, OneWorker, StayStep DEF StayInv
<1>3. TypeOK /\ SettleInv /\ StrayInv /\ NoticeInv /\ Guarded /\ TenantInv => StayInv
  BY StrayParts DEF StayInv
<1> QED
  BY <1>2, <1>3, OneWorker, Workers # {}, StayInit, TypeCorrect, SettleInvariant, StrayInvariant,
     NoticeInvariant, GuardedInvariant, TenantInvariant, PTL
     DEF Spec, ImplementsTenancy, Stay!TenancySpec

-----------------------------------------------------------------------------
(* A committed DELETE: what its handler checked for, and how far a worker   *)
(* is with its terminate job                                                *)

CarryAt(w) ==
    pc[w] \notin {"idle", "reconcile"} /\ Kind(w) = "terminate" =>
      \/ pc[w] \in {"destroy", "untrack", "close", "retry"}
      \/ pc[w] \in {"flag", "send", "finish"} /\ dep.closed

ApiCarries == \A h \in Deletes : checked[h] \in {NoKind, "terminate"}

LEMMA CarryParts ==
    /\ CarryInv <=> ApiCarries /\ \A w \in Workers : CarryAt(w)
    /\ CarryInv' <=> ApiCarries' /\ \A w \in Workers : CarryAt(w)'
BY DEF CarryInv, ApiCarries, CarryAt

\* terminated_at is never taken back.
LEMMA ClosedStays ==
    ASSUME TypeOK, Next, dep.closed
    PROVE  dep'.closed
<1>1. dep \in Rows
  BY TypeParts DEF RowTypeOK
<1>2. CASE Away
  BY <1>1, <1>2 DEF Away, ApiReads, ApiOnly, ApiCommits, ApiEnqueues, ApiDies, Expire, Vanish,
                    OnlyExternal, rowVars, Rows
<1>3. ASSUME NEW w \in Workers, WorkerStep(w) PROVE dep'.closed
  <2>1. CASE Begin(w)
    BY <2>1, BeginEffect
  <2>2. CASE Record(w) \/ Apply(w)
    BY <1>1, <2>2 DEF Record, Apply, ApplyProviderData, ApplyProviderPatch, Rows, rowVars
  <2>3. CASE ExpireSession(w) \/ ReadyFlag(w) \/ EndFlag(w) \/ Close(w) \/ Retry(w)
    BY <1>1, <2>3 DEF ExpireSession, ReadyFlag, EndFlag, Close, Retry, Rows
  <2>4. CASE \/ Create(w) \/ Poll(w) \/ Destroy(w) \/ Track(w) \/ Untrack(w) \/ ReadySend(w)
             \/ EndSend(w) \/ Successor(w) \/ Enqueue(w) \/ Finish(w)
    BY <2>4 DEF Create, Poll, AskProvider, Destroy, OnlyExternal, Track, Untrack, ReadySend,
                EndSend, Successor,
                Enqueue, Finish, rowVars
  <2>5. CASE ClaimJobs(w) \/ Reconcile(w) \/ Breaks(w)
    BY <2>5 DEF ClaimJobs, Reconcile, ReconcileRead, ReconcileLedger, ReconcileEnqueue, Breaks,
                WorkerDies, HandlerRaises,
                OnlyWorker, rowVars
  <2> QED
    BY <1>3, <2>1, <2>2, <2>3, <2>4, <2>5 DEF WorkerStep, JobStep
<1> QED
  BY <1>2, <1>3, NextSteps

LEMMA OthersCarry ==
    ASSUME NEW v \in Workers, AtWork(v), CarryAt(v), Idles(v), dep.closed => dep'.closed
    PROVE  CarryAt(v)'
BY DEF AtWork, CarryAt, Idles, Stays, KindsKept, Kind

\* From step to step of a destroy
LEMMA DestroyCarries ==
    ASSUME TypeOK, NEW w \in Workers, CarryAt(w),
           \/ EndFlag(w) \/ EndSend(w) \/ Destroy(w) \/ Untrack(w) \/ Close(w)
    PROVE  CarryAt(w)'
<1>1. WorkerTypeOK /\ dep \in Rows
  BY TypeParts DEF RowTypeOK
<1>2. UNCHANGED <<jobs, cur>>
  BY DEF EndFlag, EndSend, Destroy, Untrack, Close, OnlyExternal, OnlyRow, queueVars, Goto,
         GotoWithRow
<1>3. Kind(w)' = Kind(w)
  BY <1>2 DEF Kind
<1>4. CASE EndFlag(w)
  BY <1>1, <1>3, <1>4 DEF EndFlag, Goto, CarryAt, At, WorkerTypeOK, Rows
<1>5. CASE EndSend(w)
  BY <1>1, <1>3, <1>5 DEF EndSend, Goto, CarryAt, At, WorkerTypeOK, rowVars
<1>6. CASE Destroy(w)
  <2>1. pc'[w] \in {"untrack", "retry"}
    BY <1>1, <1>6 DEF Destroy, Goto, AfterDestroyError, WorkerTypeOK
  <2> QED
    BY <2>1 DEF CarryAt
<1>7. CASE Untrack(w)
  BY <1>1, <1>7 DEF Untrack, Goto, CarryAt, WorkerTypeOK
<1>8. CASE Close(w)
  <2>1. pc'[w] \in {"finish", "flag"} /\ dep'.closed
    BY <1>1, <1>8 DEF Close, GotoWithRow, WorkerTypeOK, Rows
  <2> QED
    BY <2>1 DEF CarryAt
<1> QED
  BY <1>4, <1>5, <1>6, <1>7, <1>8

LEMMA JobCarries ==
    ASSUME TypeOK, NEW w \in Workers, AtWork(w), CarryAt(w), JobStep(w)
    PROVE  CarryAt(w)'
<1>1. WorkerTypeOK /\ QueueTypeOK
  BY TypeParts
<1>2. CASE Begin(w)
  <2>1. PICK j \in JobIds : BeginProvision(w, j) \/ BeginRefresh(w, j) \/ BeginDestroy(w, j)
    BY <1>2 DEF Begin
  <2>2. cur'[w] = j /\ UNCHANGED <<jobs, dep>>
    BY <1>1, <2>1 DEF BeginProvision, BeginRefresh, BeginDestroy, Take, OnlyWorker, queueVars,
                      rowVars, WorkerTypeOK
  <2>3. CASE BeginProvision(w, j) \/ BeginRefresh(w, j)
    BY <2>2, <2>3 DEF BeginProvision, BeginRefresh, CarryAt, Kind
  <2>4. CASE BeginDestroy(w, j)
    BY <1>1, <2>2, <2>4 DEF BeginDestroy, AlreadyClosed, Take, CarryAt, WorkerTypeOK
  <2> QED
    BY <2>1, <2>3, <2>4
<1>3. CASE \/ EndFlag(w) \/ EndSend(w) \/ Destroy(w) \/ Untrack(w) \/ Close(w)
  BY <1>3, DestroyCarries
<1>4. CASE \/ Create(w) \/ Record(w) \/ Track(w) \/ Poll(w) \/ Apply(w) \/ ExpireSession(w)
           \/ ReadyFlag(w) \/ ReadySend(w)
  <2>1. /\ UNCHANGED <<jobs, cur>>
        /\ pc[w] \in {"create", "record", "track", "poll", "apply", "expire", "ready_flag",
                      "ready_send"}
    BY <1>4 DEF Create, Record, Track, Poll, AskProvider, Apply, ExpireSession, ReadyFlag,
                ReadySend, At,
                OnlyExternal, OnlyRow, queueVars, Goto, GotoWithRow, Answered
  <2> QED
    BY <2>1 DEF CarryAt, Kind
<1>5. CASE Successor(w) \/ Enqueue(w)
  <2>1. pc[w] \in {"successor", "enqueue"} /\ cur' = cur
    BY <1>5 DEF Successor, Enqueue, At, Goto, workerVars
  <2>2. jobs'[cur[w]].kind = jobs[cur[w]].kind
    <3>1. CASE UNCHANGED jobs
      BY <3>1
    <3>2. CASE \E k \in Kinds : Insert(k) /\ held' = held
      BY <1>1, <2>1, <3>2, InsertKeepsKinds DEF AtWork, KindsKept
    <3> QED
      BY <1>1, <1>5, <3>1, <3>2, KindsUsed, ChainTypes
         DEF Successor, Enqueue, EnqueueAlways, EnqueueCheck, EnqueueInsert, queueVars
  <2> QED
    BY <2>1, <2>2 DEF CarryAt, Kind
<1>6. CASE Finish(w) \/ Retry(w)
  BY <1>6, EndEffect DEF CarryAt
<1> QED
  BY <1>2, <1>3, <1>4, <1>5, <1>6 DEF JobStep

LEMMA WorkerCarries ==
    ASSUME TypeOK, NEW w \in Workers, AtWork(w), CarryAt(w), WorkerStep(w)
    PROVE  CarryAt(w)'
<1>1. WorkerTypeOK
  BY TypeParts
<1>2. CASE JobStep(w)
  BY <1>2, JobCarries
<1>3. CASE ClaimJobs(w)
  BY <1>3, ClaimEffect DEF CarryAt, workerVars
<1>4. CASE Breaks(w)
  BY <1>4, DeathEffect DEF CarryAt
<1>5. CASE Reconcile(w)
  <2>1. pc'[w] \in {"idle", "reconcile"}
    BY <1>1, <1>5 DEF Reconcile, ReconcileRead, ReconcileLedger, ReconcileEnqueue, At, workerVars,
                      WorkerTypeOK
  <2> QED
    BY <2>1 DEF CarryAt
<1> QED
  BY <1>2, <1>3, <1>4, <1>5 DEF WorkerStep

\* The dedupe check of a DELETE asks for a terminate job.
LEMMA ApiCarriesStep ==
    ASSUME TypeOK, ApiCarries, Next
    PROVE  ApiCarries'
<1>1. \A h \in Deletes : h \in Handlers /\ ApiWanted(h) = "terminate"
  BY DEF Handlers, ApiWanted
<1> QED
  BY <1>1, HandlersCheck DEF ApiCarries

LEMMA CarryStep ==
    ASSUME TypeOK, ChainInv, CarryInv, Next
    PROVE  CarryInv'
<1>1. /\ ApiCarries' /\ (dep.closed => dep'.closed)
      /\ \A v \in Workers : AtWork(v) /\ CarryAt(v)
  BY CarryParts, ApiCarriesStep, ClosedStays, ChainParts
<1>2. CASE Away
  BY <1>1, <1>2, AwayAlone, OthersCarry, CarryParts
<1>3. ASSUME NEW w \in Workers, WorkerStep(w) PROVE CarryInv'
  <2>1. OthersIdle(w) /\ CarryAt(w)'
    BY <1>1, <1>3, StepAlone, WorkerCarries DEF WorkerStep
  <2>2. \A v \in Workers \ {w} : CarryAt(v)'
    BY <1>1, <2>1, OthersCarry DEF OthersIdle
  <2> QED
    BY <1>1, <2>1, <2>2, CarryParts
<1> QED
  BY <1>2, <1>3, NextSteps

-----------------------------------------------------------------------------
(* How often a job is tried: what each run but the last cost                *)

Price == faults + crashes + overtakes

LEMMA PriceAfter ==
    ASSUME faults' \in Nat, crashes' \in Nat, overtakes' \in Nat,
           faults \in Nat, crashes \in Nat, overtakes \in Nat
    PROVE  /\ Price' \in Nat
           /\ \A n \in Nat : faults + crashes + overtakes + n <= faults' + crashes' + overtakes' =>
                              Price + n <= Price'
<1>1. Price' = faults' + crashes' + overtakes' /\ Price = faults + crashes + overtakes
  BY DEF Price
<1>2. \A f, c, o \in Nat : f + c + o \in Nat
  OBVIOUS
<1>3. Price' \in Nat
  BY <1>1, <1>2, Zenon
<1>4. ASSUME NEW n \in Nat,
             faults + crashes + overtakes + n <= faults' + crashes' + overtakes'
      PROVE  Price + n <= Price'
  BY <1>1, <1>4, Zenon
<1> QED
  BY <1>3, <1>4

Spent(j) == jobs[j].attempts + Cardinality(Retriers(j))

\* The next claim of the job will be another try, not paid for by a take-over.
Waits(j) == Active(j) /\ (jobs[j].status = "queued" \/ ~Held(j))

AllPaid == \A j \in JobIds : TriesPaid(j)

LEMMA TriesParts ==
    ASSUME NEW j
    PROVE  /\ TriesPaid(j) <=> Spent(j) <= Price + 1 /\ (Waits(j) => Spent(j) <= Price)
           /\ TriesPaid(j)' <=> Spent(j)' <= Price' + 1 /\ (Waits(j)' => Spent(j)' <= Price')
BY DEF TriesPaid, Spent, Price, Waits

LEMMA TriesTypes ==
    ASSUME TypeOK
    PROVE  /\ faults \in Nat /\ crashes \in Nat /\ overtakes \in Nat /\ Price \in Nat
           /\ \A j \in JobIds : /\ jobs[j].attempts \in Nat /\ Cardinality(Retriers(j)) \in Nat
                                /\ Spent(j) \in Nat
<1>1. faults \in Nat /\ crashes \in Nat /\ overtakes \in Nat
  BY TypeParts, QueueAssumption, LifecycleAssumption DEF ExtTypeOK, QueueTypeOK
<1>2. Price \in Nat
  BY <1>1 DEF Price
<1>3. ASSUME NEW j \in JobIds
      PROVE  jobs[j].attempts \in Nat /\ Cardinality(Retriers(j)) \in Nat
  <2>1. Retriers(j) \subseteq Workers
    BY DEF Retriers
  <2> QED
    BY <2>1, TypeParts, WorkersCount DEF QueueTypeOK, JobRows
<1>4. \A j \in JobIds : Spent(j) \in Nat
  BY <1>3 DEF Spent
<1> QED
  BY <1>1, <1>2, <1>3, <1>4

LEMMA TriesAfter ==
    ASSUME TypeOK, TypeOK', NEW j \in JobIds
    PROVE  Price' \in Nat /\ Spent(j)' \in Nat
<1>1. faults' \in Nat /\ crashes' \in Nat /\ overtakes' \in Nat
  BY QueueAssumption, LifecycleAssumption DEF TypeOK, QueueTypeOK
<1>2. Price' \in Nat
  BY <1>1, PriceAfter, TriesTypes
<1>3. Retriers(j)' \subseteq Workers
  BY DEF Retriers
<1>4. jobs'[j].attempts \in Nat /\ Cardinality(Retriers(j)') \in Nat
  BY <1>3, WorkersCount DEF TypeOK, QueueTypeOK, JobRows
<1>5. Spent(j)' \in Nat
  BY <1>4 DEF Spent
<1> QED
  BY <1>2, <1>5

\* A job is tried once more than before, if at all, and that is paid for.
LEMMA PaidStep ==
    ASSUME TypeOK, TypeOK', NEW j \in JobIds, TriesPaid(j), NEW d \in Nat,
           Spent(j)' <= Spent(j) + d, Price + d <= Price', Waits(j)' => Waits(j)
    PROVE  TriesPaid(j)'
<1>1. Price \in Nat /\ Spent(j) \in Nat
  BY TriesTypes
<1>2. Price' \in Nat /\ Spent(j)' \in Nat
  BY TriesAfter
<1>3. Spent(j) <= Price + 1 /\ (Waits(j) => Spent(j) <= Price)
  BY TriesParts
<1>4. Spent(j)' <= Price' + 1 /\ (Waits(j)' => Spent(j)' <= Price')
  BY <1>1, <1>2, <1>3
<1> QED
  BY <1>4, TriesParts

\* Who moves, but not to a retry, is no retrier afterwards.
LEMMA RetriersShrink ==
    ASSUME NEW w \in Workers, OthersIdle(w), pc'[w] # "retry", NEW j
    PROVE  /\ Cardinality(Retriers(j)) \in Nat /\ Cardinality(Retriers(j)') \in Nat
           /\ Cardinality(Retriers(j)') <= Cardinality(Retriers(j))
           /\ w \in Retriers(j) => Cardinality(Retriers(j)') + 1 <= Cardinality(Retriers(j))
<1>1. Retriers(j)' \subseteq Retriers(j) /\ Retriers(j) \subseteq Workers /\ w \notin Retriers(j)'
  BY DEF Retriers, OthersIdle, Idles, Stays, At
<1> QED
  BY <1>1, WorkersCount

\* The row and who holds it stay; at most w comes to retry, for a fault or an error.
LEMMA QuietTries ==
    ASSUME TypeOK, TypeOK', AllPaid, NEW w \in Workers, OthersIdle(w),
           UNCHANGED <<jobs, held, overtakes>>,
           \/ crashes' = crashes /\ faults' = faults + 1
           \/ crashes' = crashes + 1 /\ faults' = faults
    PROVE  AllPaid'
<1> SUFFICES ASSUME NEW j \in JobIds PROVE TriesPaid(j)'
  BY DEF AllPaid
<1>1. Waits(j)' => Waits(j)
  BY DEF Waits, Active, Held
<1>2. jobs'[j].attempts = jobs[j].attempts /\ jobs[j].attempts \in Nat
  BY TriesTypes
<1>3. Retriers(j)' \subseteq Retriers(j) \cup {w} /\ Retriers(j) \subseteq Workers
  BY DEF Retriers, OthersIdle, Idles, Stays, At
<1>4. /\ Cardinality(Retriers(j)') \in Nat /\ Cardinality(Retriers(j)) \in Nat
      /\ Cardinality(Retriers(j)') <= Cardinality(Retriers(j)) + 1
  <2>1. IsFiniteSet(Retriers(j)) /\ Cardinality(Retriers(j)) \in Nat
    BY <1>3, WorkersCount, LifecycleAssumption, FS_Subset
  <2>2. /\ Cardinality(Retriers(j) \cup {w}) <= Cardinality(Retriers(j)) + 1
        /\ Cardinality(Retriers(j) \cup {w}) \in Nat
    BY <2>1, OneIn
  <2>3. /\ Cardinality(Retriers(j)') \in Nat
        /\ Cardinality(Retriers(j)') <= Cardinality(Retriers(j) \cup {w})
    BY <1>3, WorkersCount
  <2> QED
    BY <2>1, <2>2, <2>3
<1>5. Spent(j)' <= Spent(j) + 1
  BY <1>2, <1>4 DEF Spent
<1>6. Price + 1 <= Price'
  <2>1. faults \in Nat /\ crashes \in Nat /\ overtakes \in Nat
    BY TriesTypes
  <2> QED
    BY <2>1 DEF Price
<1> QED
  BY <1>1, <1>5, <1>6, PaidStep DEF AllPaid

\* Nobody comes to retry, and no fault is lost.
NoRetry == faults' = faults /\ \A j : /\ Cardinality(Retriers(j)) \in Nat
                                   /\ Cardinality(Retriers(j)') \in Nat
                                   /\ Cardinality(Retriers(j)') <= Cardinality(Retriers(j))

\* A row that stays as it is, and is held by no fewer
LEMMA RowPaid ==
    ASSUME TypeOK, TypeOK', AllPaid, NoRetry, crashes <= crashes', overtakes <= overtakes',
           NEW j \in JobIds, jobs'[j] = jobs[j], Held(j) => Held(j)'
    PROVE  TriesPaid(j)'
<1>1. Waits(j)' => Waits(j)
  BY DEF Waits, Active
<1>2. /\ faults \in Nat /\ crashes \in Nat /\ overtakes \in Nat /\ jobs[j].attempts \in Nat
      /\ crashes' \in Nat /\ overtakes' \in Nat
  BY TriesTypes, QueueAssumption DEF TypeOK, QueueTypeOK
<1>3. Spent(j)' <= Spent(j) + 0
  BY <1>2 DEF Spent, NoRetry
<1>4. Price + 0 <= Price'
  <2>1. faults + crashes + overtakes + 0 <= faults' + crashes' + overtakes'
    BY <1>2 DEF NoRetry
  <2> QED
    BY <1>2, <2>1, PriceAfter DEF NoRetry
<1> QED
  BY <1>1, <1>3, <1>4, PaidStep DEF AllPaid

LEMMA InsertTries ==
    ASSUME TypeOK, TypeOK', AllPaid, NoRetry, NEW k \in Kinds, Insert(k), held' = held,
           crashes' = crashes, overtakes' = overtakes, \A w \in Workers : AtWork(w)
    PROVE  AllPaid'
<1> SUFFICES ASSUME NEW j \in JobIds PROVE TriesPaid(j)'
  BY DEF AllPaid
<1>1. PICK i \in JobIds :
        /\ Fresh(i)
        /\ jobs' = [jobs EXCEPT ![i] = [status |-> "queued", kind |-> k, attempts |-> 0]]
  BY QueueAssumption DEF Insert, Free
<1>2. crashes \in Nat /\ overtakes \in Nat /\ Price \in Nat /\ QueueTypeOK
  BY TriesTypes, TypeParts
<1>3. CASE j # i
  BY <1>1, <1>2, <1>3, RowPaid DEF Held, QueueTypeOK
<1>4. CASE j = i
  <2>1. Retriers(j) = {}
    BY <1>1, <1>4 DEF Retriers, At, AtWork, Fresh, Held
  <2>2. Cardinality(Retriers(j)) = 0
    BY <2>1, FS_EmptySet
  <2>3. Spent(j)' = 0
    BY <1>1, <1>2, <1>4, <2>2 DEF Spent, NoRetry, QueueTypeOK
  <2>4. Price' = Price
    BY DEF Price, NoRetry
  <2> QED
    BY <1>2, <2>3, <2>4, TriesParts
<1> QED
  BY <1>3, <1>4

\* Take-overs alone raise the price.
LEMMA TakenPays ==
    ASSUME TypeOK, TypeOK', faults' = faults, crashes' = crashes,
           NEW n \in Nat, overtakes + n <= overtakes'
    PROVE  Price + n <= Price'
<1>1. faults \in Nat /\ crashes \in Nat /\ overtakes \in Nat /\ overtakes' \in Nat
  BY TriesTypes, QueueAssumption DEF TypeOK, QueueTypeOK
<1>2. \A f, c, o, p \in Nat : o + n <= p => f + c + o + n <= f + c + p
  OBVIOUS
<1>3. faults + crashes + overtakes + n <= faults + crashes + overtakes'
  BY <1>1, <1>2, Zenon
<1>4. Price' = faults + crashes + overtakes' /\ Price = faults + crashes + overtakes
  BY DEF Price
<1> QED
  BY <1>3, <1>4, Zenon

LEMMA ClaimTries ==
    ASSUME TypeOK, TypeOK', AllPaid, NoRetry, NEW w \in Workers, Claim(w)
    PROVE  AllPaid'
<1> SUFFICES ASSUME NEW j \in JobIds PROVE TriesPaid(j)'
  BY DEF AllPaid
<1>1. PICK batch \in SUBSET Due : ClaimBatch(w, batch)
  BY DEF Claim
<1>2. /\ QueueTypeOK /\ crashes' = crashes /\ held[w] = {} /\ held' = [held EXCEPT ![w] = batch]
      /\ jobs' = [i \in JobIds |-> IF i \in batch THEN Claimed(jobs[i]) ELSE jobs[i]]
  BY <1>1, TypeParts DEF ClaimBatch
<1>3. overtakes <= overtakes' /\ ((\E i \in batch : Taken(i)) => overtakes + 1 <= overtakes')
  BY <1>1, <1>2, ClaimPrice
<1>4. /\ faults \in Nat /\ crashes \in Nat /\ overtakes \in Nat /\ overtakes' \in Nat
      /\ Price \in Nat /\ Spent(j) \in Nat /\ jobs[j].attempts \in Nat
  BY TriesTypes, QueueAssumption DEF TypeOK, QueueTypeOK
<1>5. CASE j \notin batch
  <2>1. Held(j) => Held(j)'
    BY <1>2 DEF Held, QueueTypeOK
  <2> QED
    BY <1>2, <1>3, <1>4, <1>5, <2>1, RowPaid
<1>6. CASE j \in batch
  <2>1. /\ jobs'[j].attempts = jobs[j].attempts + 1 /\ jobs'[j].status = "running"
        /\ Held(j)'
    BY <1>2, <1>6 DEF Claimed, QueueTypeOK, JobRows, Held
  <2>2. ~Waits(j)'
    BY <2>1 DEF Waits
  <2>3. Spent(j)' <= Spent(j) + 1
    BY <1>4, <2>1 DEF Spent, NoRetry
  <2>4. Price <= Price' /\ Price' \in Nat /\ (Taken(j) => Price + 1 <= Price')
    <3>1. \A n \in Nat : overtakes + n <= overtakes' => Price + n <= Price'
      BY <1>2, TakenPays DEF NoRetry
    <3>2. Price + 0 <= Price' /\ (Taken(j) => Price + 1 <= Price')
      BY <1>3, <1>4, <1>6, <3>1
    <3>3. Price' \in Nat
      BY TriesAfter
    <3> QED
      BY <1>4, <3>2, <3>3
  <2>5. Taken(j) \/ Waits(j)
    BY <1>6 DEF Due, Claimable, Taken, Waits, Active
  <2>6. Spent(j) <= Price + 1 /\ (Waits(j) => Spent(j) <= Price)
    BY TriesParts DEF AllPaid
  <2>7. Spent(j)' \in Nat
    BY TriesAfter
  <2>8. Spent(j)' <= Price' + 1
    BY <1>4, <2>3, <2>4, <2>5, <2>6, <2>7
  <2> QED
    BY <2>2, <2>8, TriesParts
<1> QED
  BY <1>5, <1>6

\* A job is rescheduled by a worker that came to retry it.
LEMMA ReleaseTries ==
    ASSUME TypeOK, TypeOK', AllPaid, NoRetry, NEW w \in Workers, NEW i \in JobIds,
           NEW s \in {"done", "failed", "queued"}, Release(w, i, s),
           s = "queued" => Cardinality(Retriers(i)') + 1 <= Cardinality(Retriers(i))
    PROVE  AllPaid'
<1> SUFFICES ASSUME NEW j \in JobIds PROVE TriesPaid(j)'
  BY DEF AllPaid
<1>1. /\ QueueTypeOK /\ crashes' = crashes /\ overtakes' = overtakes
      /\ held' = [held EXCEPT ![w] = @ \ {i}]
      /\ jobs' = [jobs EXCEPT ![i] = IF s # "queued" /\ \A v \in Workers \ {w} : i \notin held[v]
                                     THEN NoJob ELSE [@ EXCEPT !.status = s]]
  BY TypeParts DEF Release
<1>2. /\ Price \in Nat /\ Spent(j) \in Nat /\ jobs[j].attempts \in Nat /\ jobs[j] \in JobRows
      /\ crashes \in Nat /\ overtakes \in Nat /\ Spent(j)' \in Nat
  BY <1>1, TriesTypes, TriesAfter DEF QueueTypeOK
<1>3. CASE j # i
  <2>1. Held(j) => Held(j)'
    BY <1>1, <1>3 DEF Held, QueueTypeOK
  <2> QED
    BY <1>1, <1>2, <1>3, <2>1, RowPaid DEF QueueTypeOK
<1>4. CASE j = i
  <2>1. /\ jobs'[j].attempts \in Nat /\ jobs'[j].attempts <= jobs[j].attempts
        /\ s # "queued" => jobs'[j].status \in {"none", "done", "failed"}
    BY <1>1, <1>2, <1>4 DEF NoJob, JobRows, QueueTypeOK
  <2>2. Price' = Price /\ Spent(j)' <= Spent(j)
    BY <1>1, <1>2, <2>1 DEF Price, Spent, NoRetry
  <2>3. Spent(j) <= Price + 1
    BY TriesParts DEF AllPaid
  <2>4. CASE s # "queued"
    <3>1. ~Waits(j)'
      BY <2>1, <2>4 DEF Waits, Active
    <3> QED
      BY <1>2, <2>2, <2>3, <3>1, TriesParts
  <2>5. CASE s = "queued"
    <3>1. Spent(j)' + 1 <= Spent(j)
      BY <1>2, <1>4, <2>1, <2>5 DEF Spent, NoRetry
    <3> QED
      BY <1>2, <2>2, <2>3, <3>1, TriesParts
  <2> QED
    BY <2>4, <2>5
<1> QED
  BY <1>3, <1>4

LEMMA DeathTries ==
    ASSUME TypeOK, TypeOK', AllPaid, NoRetry, UNCHANGED <<jobs, overtakes>>, crashes' = crashes + 1
    PROVE  AllPaid'
<1> SUFFICES ASSUME NEW j \in JobIds PROVE TriesPaid(j)'
  BY DEF AllPaid
<1>1. /\ Price \in Nat /\ Spent(j) \in Nat /\ jobs[j].attempts \in Nat /\ faults \in Nat
      /\ crashes \in Nat /\ overtakes \in Nat /\ Spent(j)' \in Nat
  BY TriesTypes, TriesAfter
<1>2. Price' = Price + 1 /\ Spent(j)' <= Spent(j)
  BY <1>1 DEF Price, Spent, NoRetry
<1>3. Spent(j) <= Price + 1
  BY TriesParts DEF AllPaid
<1> QED
  BY <1>1, <1>2, <1>3, TriesParts

\* A fault is counted in the step that comes to retry for it.
LEMMA FaultsCounted ==
    ASSUME TypeOK, NEW w \in Workers, JobStep(w)
    PROVE  \/ faults' = faults /\ pc'[w] # "retry"
           \/ faults' = faults + 1 /\ UNCHANGED queueVars
<1>1. WorkerTypeOK
  BY TypeParts
<1>2. CASE Begin(w)
  <2>1. PICK j \in JobIds : BeginProvision(w, j) \/ BeginRefresh(w, j) \/ BeginDestroy(w, j)
    BY <1>2 DEF Begin
  <2>2. UNCHANGED faults /\ \A step : Take(w, j, step) => pc'[w] = step
    BY <1>1, <2>1, TakeEffect
       DEF BeginProvision, BeginRefresh, BeginDestroy, Take, OnlyWorker, extVars
  <2>3. FailedStep(dep) # "retry"
    BY DEF FailedStep
  <2> QED
    BY <2>1, <2>2, <2>3 DEF BeginProvision, BeginRefresh, BeginDestroy
<1>3. CASE Create(w)
  BY <1>1, <1>3 DEF Create, Fault, OnlyExternal, Answered, WorkerTypeOK
<1>4. CASE Poll(w)
  <2>1. UNCHANGED queueVars
    BY <1>4 DEF Poll, OnlyExternal
  <2>2. \/ Goto(w, "retry") /\ (Fault \/ PublishLost)
        \/ \E rec \in Records \cup {None} :
             Publish(w, rec) /\ \E a : Answered(w, "apply", a)
        \/ UNCHANGED extVars /\ \E a : Answered(w, "apply", a)
    BY <1>4 DEF Poll, AskProvider
  <2>3. \A a : Answered(w, "apply", a) => pc'[w] = "apply"
    BY <1>1 DEF Answered, WorkerTypeOK
  <2>4. \A rec \in Records \cup {None} : Publish(w, rec) => faults' = faults \/ faults' = faults + 1
    BY DEF Publish, PublishLost, Fault
  <2> QED
    BY <2>1, <2>2, <2>3, <2>4 DEF PublishLost, Fault, extVars
<1>5. CASE Destroy(w)
  BY <1>1, <1>5 DEF Destroy, Fault, OnlyExternal, Goto, WorkerTypeOK
<1>6. CASE Apply(w)
  <2>1. AfterApply(dep') # "retry"
    BY DEF AfterApply, FailedStep
  <2> QED
    BY <1>1, <1>6, <2>1 DEF Apply, OnlyRow, extVars, GotoWithRow, WorkerTypeOK
<1>7. CASE Record(w) \/ ExpireSession(w) \/ ReadyFlag(w) \/ EndFlag(w) \/ Close(w)
  BY <1>1, <1>7 DEF Record, ExpireSession, ReadyFlag, EndFlag, Close, OnlyRow, extVars, Goto,
                    GotoWithRow, WorkerTypeOK
<1>8. CASE Track(w) \/ Untrack(w) \/ ReadySend(w) \/ EndSend(w) \/ Successor(w) \/ Enqueue(w)
  BY <1>1, <1>8 DEF Track, Untrack, ReadySend, EndSend, Successor, Enqueue, extVars, workerVars,
                    Goto, WorkerTypeOK, At
<1>9. CASE Finish(w) \/ Retry(w)
  BY <1>9, EndEffect DEF Finish, Retry, extVars
<1> QED
  BY <1>2, <1>3, <1>4, <1>5, <1>6, <1>7, <1>8, <1>9 DEF JobStep

\* The table as it was, or with one job more
LEMMA TableTries ==
    ASSUME TypeOK, TypeOK', AllPaid, NoRetry, \A v \in Workers : AtWork(v),
           \/ UNCHANGED queueVars
           \/ \E k \in Kinds : EnqueueAlways(k) \/ \E c \in Clients : EnqueueCheck(c, k)
           \/ \E c \in Clients : EnqueueInsert(c)
    PROVE  AllPaid'
<1>1. CASE UNCHANGED queueVars \/ \E k \in Kinds, c \in Clients : EnqueueCheck(c, k)
  <2>1. UNCHANGED <<jobs, held, crashes, overtakes>>
    BY <1>1 DEF queueVars, EnqueueCheck
  <2>2. crashes \in Nat /\ overtakes \in Nat
    BY TriesTypes
  <2>3. ASSUME NEW j \in JobIds PROVE TriesPaid(j)'
    BY <2>1, <2>2, RowPaid DEF Held
  <2> QED
    BY <2>3 DEF AllPaid
<1>2. CASE \/ \E k \in Kinds : EnqueueAlways(k)
           \/ \E c \in Clients : EnqueueInsert(c)
  <2>1. checked \in [Clients -> Kinds \cup {NoKind}]
    BY ChainTypes
  <2>2. PICK k \in Kinds : Insert(k)
    BY <1>2, <2>1 DEF EnqueueAlways, EnqueueInsert
  <2>3. UNCHANGED <<held, crashes, overtakes>>
    BY <1>2 DEF EnqueueAlways, EnqueueInsert
  <2> QED
    BY <2>2, <2>3, InsertTries
<1> QED
  BY <1>1, <1>2

\* A step of w that comes to no retry
LEMMA WithoutRetry ==
    ASSUME NEW w \in Workers, OthersIdle(w), pc'[w] # "retry", faults' = faults
    PROVE  NoRetry
BY RetriersShrink DEF NoRetry

LEMMA JobTries ==
    ASSUME TypeOK, TypeOK', AllPaid, \A v \in Workers : AtWork(v), NEW w \in Workers, JobStep(w)
    PROVE  AllPaid'
<1>1. OthersIdle(w) /\ w \in Clients
  BY StepAlone, ChainTypes
<1>2. CASE faults' = faults + 1 /\ UNCHANGED queueVars
  BY <1>1, <1>2, QuietTries DEF queueVars
<1>3. CASE faults' = faults /\ pc'[w] # "retry"
  <2>1. NoRetry
    BY <1>1, <1>3, WithoutRetry
  <2>2. CASE Finish(w) \/ Retry(w)
    <3>1. PICK i \in JobIds : i = cur[w]
      BY <2>2, EndEffect
    <3>2. PICK s \in {"done", "failed", "queued"} :
            Release(w, i, s) /\ (pc[w] = "finish" => s = "done")
      BY <2>2, <3>1, EndEffect
    <3>3. s = "queued" => w \in Retriers(i)
      BY <2>2, <3>1, <3>2, EndEffect DEF Retriers, At
    <3>4. s = "queued" => Cardinality(Retriers(i)') + 1 <= Cardinality(Retriers(i))
      BY <1>1, <1>3, <3>3, RetriersShrink
    <3> QED
      BY <2>1, <3>2, <3>4, ReleaseTries
  <2>3. CASE ~(Finish(w) \/ Retry(w))
    BY <1>1, <2>1, <2>3, JobQueueUse, TableTries
  <2> QED
    BY <2>2, <2>3
<1> QED
  BY <1>2, <1>3, FaultsCounted

LEMMA PassTries ==
    ASSUME TypeOK, TypeOK', AllPaid, \A v \in Workers : AtWork(v), NEW w \in Workers, Reconcile(w)
    PROVE  AllPaid'
<1>1. WorkerTypeOK /\ OthersIdle(w) /\ w \in Clients
  BY TypeParts, StepAlone, ChainTypes
<1>2. pc'[w] # "retry" /\ faults' = faults
  BY <1>1 DEF Reconcile, ReconcileRead, ReconcileLedger, ReconcileEnqueue, OnlyWorker, At, extVars,
              workerVars, WorkerTypeOK
<1>3. UNCHANGED queueVars \/ (\E k \in Kinds : EnqueueCheck(w, k)) \/ EnqueueInsert(w)
  <2>1. todo[w] \ {"ledger"} \subseteq Kinds
    BY <1>1 DEF WorkerTypeOK
  <2> QED
    BY <2>1 DEF Reconcile, ReconcileRead, ReconcileLedger, ReconcileEnqueue, OnlyWorker
<1>4. NoRetry
  BY <1>1, <1>2, WithoutRetry
<1> QED
  BY <1>1, <1>3, <1>4, TableTries

LEMMA VanishTries ==
    ASSUME TypeOK, TypeOK', AllPaid, Vanish
    PROVE  AllPaid'
<1> SUFFICES ASSUME NEW j \in JobIds PROVE TriesPaid(j)'
  BY DEF AllPaid
<1>1. UNCHANGED queueVars /\ UNCHANGED workerVars /\ faults' = faults + 1
  BY DEF Vanish, Fault, OnlyExternal
<1>2. /\ faults \in Nat /\ crashes \in Nat /\ overtakes \in Nat /\ faults' \in Nat
      /\ Spent(j) \in Nat
  BY TriesTypes, LifecycleAssumption DEF TypeOK
<1>3. Spent(j)' = Spent(j) /\ (Waits(j)' <=> Waits(j))
  BY <1>1 DEF Spent, Retriers, At, Waits, Active, Held, queueVars, workerVars
<1>4. Price + 0 <= Price'
  BY <1>1, <1>2 DEF Price, queueVars
<1>5. Spent(j)' <= Spent(j) + 0
  BY <1>2, <1>3
<1> QED
  BY <1>3, <1>4, <1>5, PaidStep DEF AllPaid

LEMMA AwayTries ==
    ASSUME TypeOK, TypeOK', AllPaid, \A v \in Workers : AtWork(v), Away
    PROVE  AllPaid'
<1>1. CASE Vanish
  BY <1>1, VanishTries
<1>2. CASE ~Vanish
  <2>1. UNCHANGED workerVars /\ faults' = faults
    BY <1>2 DEF Away, ApiReads, ApiOnly, ApiCommits, ApiEnqueues, ApiDies, Expire, extVars
  <2>2. \A j : Retriers(j) \subseteq Workers /\ Retriers(j)' = Retriers(j)
    BY <2>1 DEF Retriers, At, workerVars
  <2>3. NoRetry
    BY <2>1, <2>2, WorkersCount DEF NoRetry
  <2>4. CASE ApiDies
    BY <2>3, <2>4, DeathTries DEF ApiDies, CrashApi, Lapse
  <2>5. CASE ~ApiDies
    <3>1. \A h \in Handlers : ApiWanted(h) \in Kinds /\ h \in Clients
      BY KindsUsed, LifecycleAssumption DEF ApiWanted
    <3>2. \/ UNCHANGED queueVars
          \/ \E h \in Handlers : EnqueueCheck(h, ApiWanted(h)) \/ EnqueueInsert(h)
      BY <1>2, <2>5 DEF Away, ApiReads, ApiOnly, ApiCommits, ApiEnqueues, Expire, queueVars
    <3> QED
      BY <2>3, <3>1, <3>2, TableTries
  <2> QED
    BY <2>4, <2>5
<1> QED
  BY <1>1, <1>2

LEMMA TriesStep ==
    ASSUME TypeOK, TypeOK', ChainInv, AllPaid, Next
    PROVE  AllPaid'
<1>1. \A v \in Workers : AtWork(v)
  BY ChainParts
<1>2. CASE Away
  BY <1>1, <1>2, AwayTries
<1>3. ASSUME NEW w \in Workers, WorkerStep(w) PROVE AllPaid'
  <2>1. OthersIdle(w)
    BY <1>3, StepAlone DEF WorkerStep
  <2>2. CASE JobStep(w)
    BY <1>1, <2>2, JobTries
  <2>3. CASE Reconcile(w)
    BY <1>1, <2>3, PassTries
  <2>4. CASE ClaimJobs(w)
    <3>1. pc'[w] # "retry" /\ faults' = faults /\ Claim(w)
      BY <2>4, ClaimEffect DEF ClaimJobs, workerVars, extVars
    <3> QED
      BY <2>1, <3>1, WithoutRetry, ClaimTries
  <2>5. CASE Breaks(w)
    <3>1. UNCHANGED <<jobs, overtakes, faults>> /\ crashes' = crashes + 1
      BY <2>5, BreaksEffect DEF extVars
    <3>2. CASE WorkerDies(w)
      <4>1. pc'[w] # "retry"
        BY <3>2, TypeParts, ForgetEffect DEF WorkerDies
      <4> QED
        BY <2>1, <3>1, <4>1, WithoutRetry, DeathTries
    <3>3. CASE HandlerRaises(w)
      <4>1. held' = held
        BY <3>3 DEF HandlerRaises, Raise, Lapse
      <4> QED
        BY <2>1, <3>1, <4>1, QuietTries
    <3> QED
      BY <2>5, <3>2, <3>3 DEF Breaks
  <2> QED
    BY <1>3, <2>2, <2>3, <2>4, <2>5 DEF WorkerStep
<1> QED
  BY <1>2, <1>3, NextSteps

LEMMA CarryInit == Init => CarrySafe
<1> SUFFICES ASSUME Init PROVE CarrySafe
  OBVIOUS
<1>1. CarryInv
  BY LifecycleAssumption DEF Init, CarryInv, Handlers
<1>2. ASSUME NEW j \in JobIds PROVE TriesPaid(j)
  <2>1. Retriers(j) = {}
    BY DEF Init, Retriers, At
  <2>2. Cardinality(Retriers(j)) = 0
    BY <2>1, FS_EmptySet
  <2>3. jobs[j].attempts = 0 /\ faults = 0 /\ crashes = 0 /\ overtakes = 0
    BY DEF Init, NoJob
  <2> QED
    BY <2>2, <2>3 DEF TriesPaid
<1> QED
  BY <1>1, <1>2 DEF CarrySafe

\* How far the terminate jobs are, and how often each job was tried and why.
LEMMA CarryInvariant == Spec => []CarrySafe
<1>1. CarrySafe <=> CarryInv /\ AllPaid
  BY DEF CarrySafe, AllPaid
<1>2. CarrySafe' <=> CarryInv' /\ AllPaid'
  BY DEF CarrySafe, AllPaid
<1>3. CarrySafe /\ UNCHANGED vars => CarrySafe'
  BY DEF vars, queueVars, rowVars, extVars, workerVars, CarrySafe, CarryInv, Kind, TriesPaid,
         Retriers, At, Active, Held
<1>4. TypeOK /\ TypeOK' /\ ChainInv /\ CarrySafe /\ [Next]_vars => CarrySafe'
  BY <1>1, <1>2, <1>3, CarryStep, TriesStep
<1> QED
  BY <1>4, CarryInit, TypeCorrect, ChainInvariant, PTL DEF Spec

-----------------------------------------------------------------------------
(* Who carries the DELETE from one step to the next                         *)

Asking == \E h \in Deletes : api[h] = "enqueue"

LEMMA CarriedParts ==
    /\ Carried <=> Found("terminate") \/ Asking
    /\ Carried' <=> Found("terminate")' \/ Asking'
BY DEF Carried, Asking

\* A job of the kind stays active unless somebody releases it.
LEMMA FoundKept ==
    ASSUME QueueTypeOK, NEW k, Found(k),
           jobs' = jobs \/ (\E n \in Kinds : Insert(n)) \/ (\E w \in Workers : Claim(w))
    PROVE  Found(k)'
<1>1. PICK j \in JobIds : Active(j) /\ jobs[j].kind = k
  BY DEF Found, ActiveOfKind
<1>2. Active(j)' /\ jobs'[j].kind = k
  <2>1. CASE jobs' = jobs
    BY <1>1, <2>1 DEF Active
  <2>2. CASE \E n \in Kinds : Insert(n)
    <3>1. PICK n \in Kinds, i \in JobIds :
            /\ Fresh(i)
            /\ jobs' = [jobs EXCEPT ![i] = [status |-> "queued", kind |-> n, attempts |-> 0]]
      BY <2>2, QueueAssumption DEF Insert, Free
    <3> QED
      BY <1>1, <3>1 DEF Fresh, Active, QueueTypeOK
  <2>3. CASE \E w \in Workers : Claim(w)
    <3>1. PICK batch \in SUBSET Due :
            jobs' = [i \in JobIds |-> IF i \in batch THEN Claimed(jobs[i]) ELSE jobs[i]]
      BY <2>3 DEF Claim, ClaimBatch
    <3> QED
      BY <1>1, <3>1 DEF Claimed, Active, QueueTypeOK, JobRows
  <2> QED
    BY <2>1, <2>2, <2>3
<1> QED
  BY <1>2 DEF Found, ActiveOfKind

LEMMA InsertFinds ==
    ASSUME QueueTypeOK, NEW k \in Kinds, Insert(k)
    PROVE  Found(k)'
<1>1. PICK i \in JobIds :
        jobs' = [jobs EXCEPT ![i] = [status |-> "queued", kind |-> k, attempts |-> 0]]
  BY QueueAssumption DEF Insert, Free
<1>2. Active(i)' /\ jobs'[i].kind = k
  BY <1>1 DEF Active, QueueTypeOK
<1> QED
  BY <1>2 DEF Found, ActiveOfKind

\* A terminate job is released only when the deployment is closed, to be tried again,
\* or when it is out of attempts, which were paid for.
LEMMA EndKeepsJob ==
    ASSUME TypeOK, CarrySafe, NEW w \in Workers, AtWork(w), Finish(w) \/ Retry(w),
           Found("terminate"), ~dep'.closed, Price < MaxAttempts
    PROVE  Found("terminate")'
<1>1. QueueTypeOK /\ cur[w] \in JobIds
  BY TypeParts, EndEffect
<1>2. PICK j \in JobIds : Active(j) /\ jobs[j].kind = "terminate"
  BY DEF Found, ActiveOfKind
<1>3. PICK s \in {"done", "failed", "queued"} : Release(w, cur[w], s)
  BY EndEffect
<1>4. CASE j # cur[w] \/ (Retry(w) /\ Reschedule(w, cur[w]))
  <2>1. Active(j)' /\ jobs'[j].kind = "terminate"
    <3>1. CASE j # cur[w]
      BY <1>1, <1>2, <1>3, <3>1 DEF Release, Active, QueueTypeOK
    <3>2. CASE Reschedule(w, cur[w])
      BY <1>1, <1>2, <3>2 DEF Reschedule, Release, Active, QueueTypeOK, JobRows
    <3> QED
      BY <1>4, <3>1, <3>2
  <2> QED
    BY <2>1 DEF Found, ActiveOfKind
<1>5. CASE j = cur[w] /\ Finish(w)
  <2>1. CarryAt(w)
    BY CarryParts DEF CarrySafe
  <2>2. dep.closed /\ dep' = dep
    BY <1>2, <1>5, <2>1 DEF CarryAt, Finish, At, Kind, rowVars
  <2> QED
    BY <2>2
<1>6. CASE j = cur[w] /\ Retry(w) /\ FailJob(w, cur[w])
  <2>1. jobs[j].attempts >= MaxAttempts
    BY <1>6 DEF FailJob, OutOfAttempts
  <2>2. w \in Retriers(j) /\ Retriers(j) \subseteq Workers
    BY <1>6 DEF Retry, Retriers
  <2>3. Cardinality({}) + 1 <= Cardinality(Retriers(j))
    BY <2>2, WorkersCount
  <2>4. Cardinality({}) = 0
    BY FS_EmptySet
  <2>5. Spent(j) <= Price + 1
    BY TriesParts DEF CarrySafe
  <2>6. FALSE
    BY <2>1, <2>3, <2>4, <2>5, TriesTypes, QueueAssumption DEF Spent
  <2> QED
    BY <2>6
<1> QED
  BY <1>4, <1>5, <1>6 DEF Retry

LEMMA WorkerKeepsJob ==
    ASSUME TypeOK, CarrySafe, NEW w \in Workers, AtWork(w), WorkerStep(w),
           Found("terminate"), ~dep'.closed, Price < MaxAttempts
    PROVE  Found("terminate")'
<1>1. QueueTypeOK /\ WorkerTypeOK /\ checked \in [Clients -> Kinds \cup {NoKind}] /\ w \in Clients
  BY TypeParts, ChainTypes
<1>2. CASE Finish(w) \/ Retry(w)
  BY <1>2, EndKeepsJob
<1>3. CASE UNCHANGED queueVars \/ \E k \in Kinds : EnqueueCheck(w, k) \/ EnqueueAlways(k)
  BY <1>1, <1>3, FoundKept DEF queueVars, EnqueueCheck, EnqueueAlways
<1>4. CASE EnqueueInsert(w)
  BY <1>1, <1>4, FoundKept DEF EnqueueInsert
<1>5. CASE ClaimJobs(w)
  BY <1>1, <1>5, FoundKept DEF ClaimJobs
<1>6. CASE Breaks(w)
  BY <1>1, <1>6, FoundKept, DeathEffect
<1>7. CASE Reconcile(w)
  <2>1. todo[w] \ {"ledger"} \subseteq Kinds
    BY <1>1 DEF WorkerTypeOK
  <2>2. UNCHANGED queueVars \/ (\E k \in Kinds : EnqueueCheck(w, k)) \/ EnqueueInsert(w)
    BY <1>7, <2>1 DEF Reconcile, ReconcileRead, ReconcileLedger, ReconcileEnqueue, OnlyWorker
  <2> QED
    BY <1>3, <1>4, <2>2
<1>8. CASE JobStep(w) /\ ~(Finish(w) \/ Retry(w))
  BY <1>3, <1>4, <1>8, JobQueueUse
<1> QED
  BY <1>2, <1>5, <1>6, <1>7, <1>8 DEF WorkerStep

\* An API handler takes its time between commit and enqueue, but does not forget.
LEMMA ApiKeepsAsking ==
    ASSUME TypeOK, CarrySafe, Away, ~ApiDies, Carried \/ asked' # asked
    PROVE  Carried'
<1>1. /\ QueueTypeOK /\ checked \in [Clients -> Kinds \cup {NoKind}]
      /\ api \in [Handlers -> {"idle", "seen", "write", "enqueue"}] /\ Deletes \subseteq Handlers
  BY TypeParts, ChainTypes DEF RestTypeOK, Handlers
<1>2. CASE Expire \/ Vanish
  <2>1. UNCHANGED <<jobs, api, asked>>
    BY <1>2 DEF Expire, Vanish, OnlyExternal, queueVars, rowVars
  <2> QED
    BY <2>1 DEF Carried, Found, ActiveOfKind, Active
<1>3. ASSUME NEW h \in Handlers, ApiReads(h) PROVE Carried'
  <2>1. jobs' = jobs
    BY <1>3 DEF ApiReads, ApiOnly, queueVars
  <2>2. Found("terminate") => Found("terminate")'
    BY <1>1, <2>1, FoundKept
  <2>3. CASE DeleteReads(h)
    <3>1. dep.status = "terminating" => Asking'
      BY <1>1, <2>3 DEF DeleteReads, ApiGoto, Asking
    <3>2. Asking => Asking'
      BY <1>1, <2>3 DEF DeleteReads, ApiGoto, Asking
    <3>3. asked' # asked => dep.status = "terminating"
      BY <2>3, TypeParts DEF DeleteReads, RowTypeOK
    <3> QED
      BY <2>2, <3>1, <3>2, <3>3, CarriedParts
  <2>4. CASE GetFinds(h) \/ GetReads(h) \/ LoopReads(h)
    <3>1. asked' = asked /\ h \notin Deletes
      BY <2>4, LifecycleAssumption DEF GetFinds, GetReads, LoopReads
    <3>2. \A g \in Deletes : api'[g] = api[g]
      BY <1>1, <2>4, <3>1 DEF GetFinds, GetReads, LoopReads, ApiGoto
    <3> QED
      BY <2>2, <3>1, <3>2, CarriedParts DEF Asking
  <2> QED
    BY <1>3, <2>3, <2>4 DEF ApiReads
<1>4. ASSUME NEW h \in Handlers, ApiCommits(h) PROVE Carried'
  <2>1. Found("terminate") => Found("terminate")'
    BY <1>1, <1>4, FoundKept DEF ApiCommits, queueVars
  <2>2. (Asking => Asking') /\ (h \in Deletes => Asking')
    BY <1>1, <1>4 DEF ApiCommits, ApiGoto, Asking
  <2>3. asked' # asked => h \in Deletes
    BY <1>4, TypeParts DEF ApiCommits, RowTypeOK
  <2> QED
    BY <2>1, <2>2, <2>3, CarriedParts
<1>5. ASSUME NEW h \in Handlers, ApiEnqueues(h) PROVE Carried'
  <2>1. asked' = asked /\ h \in Clients /\ ApiWanted(h) \in Kinds
    BY <1>5, KindsUsed, LifecycleAssumption DEF ApiEnqueues, rowVars, ApiWanted
  <2>2. Found("terminate") => Found("terminate")'
    BY <1>1, <1>5, <2>1, FoundKept DEF ApiEnqueues, EnqueueCheck, EnqueueInsert, queueVars
  <2>3. \A g \in Deletes \ {h} : api'[g] = api[g]
    BY <1>1, <1>5 DEF ApiEnqueues, ApiGoto
  <2>4. h \in Deletes => Found("terminate") \/ Found("terminate")' \/ UNCHANGED api
    <3>1. CASE checked[h] = NoKind
      BY <1>5, <3>1 DEF ApiEnqueues, ApiWanted, EnqueueInsert
    <3>2. CASE checked[h] # NoKind
      <4>1. EnqueueInsert(h)
        BY <1>5, <3>2 DEF ApiEnqueues, EnqueueCheck
      <4>2. h \in Deletes => checked[h] = "terminate"
        BY <3>2 DEF CarrySafe, CarryInv
      <4> QED
        BY <1>1, <2>1, <4>1, <4>2, InsertFinds, KindsUsed DEF EnqueueInsert
    <3> QED
      BY <3>1, <3>2
  <2> QED
    BY <2>1, <2>2, <2>3, <2>4, CarriedParts DEF Asking
<1> QED
  BY <1>2, <1>3, <1>4, <1>5 DEF Away

\* A DELETE that was committed is not dropped: with any number of workers, until terminated_at
\* is set there is a handler about to enqueue for it or a terminate job in the table, unless
\* the API died or the jobs' attempts were used up by as many faults, deaths and take-overs.
THEOREM DeleteIsCarriedOn == Spec => DeleteIsCarried
<1> DEFINE Goes ==
             Carried \/ asked' # asked =>
               \/ Carried' \/ dep'.closed
               \/ faults + crashes + overtakes >= MaxAttempts
               \/ ApiDies
<1>1. TypeOK /\ ChainInv /\ CarrySafe /\ Next => Goes
  <2> SUFFICES ASSUME TypeOK, ChainInv, CarrySafe, Next, Carried \/ asked' # asked, ~dep'.closed,
                      ~(faults + crashes + overtakes >= MaxAttempts), ~ApiDies
               PROVE  Carried'
    OBVIOUS
  <2>1. Price < MaxAttempts
    BY TriesTypes, QueueAssumption DEF Price
  <2>2. CASE Away
    BY <2>2, ApiKeepsAsking
  <2>3. ASSUME NEW w \in Workers, WorkerStep(w) PROVE Carried'
    <3>1. asked' = asked /\ UNCHANGED api
      BY <2>3, WorkersKeepAsked, WorkersLeaveApi DEF WorkerStep
    <3>2. Asking => Asking'
      BY <3>1 DEF Asking
    <3>3. Found("terminate") => Found("terminate")'
      BY <2>1, <2>3, ChainParts, WorkerKeepsJob
    <3> QED
      BY <3>1, <3>2, <3>3, CarriedParts
  <2> QED
    BY <2>2, <2>3, NextSteps
<1>2. TypeOK /\ ChainInv /\ CarrySafe /\ [Next]_vars => [Goes]_vars
  BY <1>1
<1> QED
  BY <1>2, TypeCorrect, ChainInvariant, CarryInvariant, PTL DEF Spec, DeleteIsCarried
=============================================================================
