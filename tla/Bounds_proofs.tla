----------------------------- MODULE Bounds_proofs -----------------------------
(***************************************************************************)
(* How many chains of refresh jobs poll a deployment, and how many         *)
(* droplets run that nobody has recorded: theorems of Lifecycle for any    *)
(* number of workers, batches of any size, crashes and claims that take    *)
(* jobs from slow workers.                                                 *)
(*                                                                         *)
(* A job that waits, and every worker that holds one, can still be gone    *)
(* through once.  So what is counted is not rows but chances, of which     *)
(* JobQueue_proofs shows that they grow only with an insert or a           *)
(* take-over.  A chance to refresh is one to enqueue a successor: the      *)
(* first part shows that a refresh is inserted only when another ends or   *)
(* when none was found.  A chance to provision is one to make a droplet:   *)
(* the second part shows that it is used up, lost with a crash, or passed  *)
(* on to the row, which keeps one droplet and lets go of it only for       *)
(* another.                                                                *)
(***************************************************************************)
EXTENDS Settlement_proofs

-----------------------------------------------------------------------------
(* The parts of ChainInv *)

Budget ==
    Chances("refresh") + Cardinality(Enqueuers)
      <= Cardinality(Workers) + crashes + overtakes + Cardinality(Finishing("refresh"))

\* The API's handlers enqueue no refresh.
ApiApart == \A h \in Handlers : checked[h] # "refresh"

LEMMA ChainParts ==
    /\ ChainInv <=> (\A w \in Workers : AtWork(w)) /\ ApiApart /\ Tally("refresh") /\ Budget
    /\ ChainInv' <=> (\A w \in Workers : AtWork(w)') /\ ApiApart'
                   /\ Tally("refresh")' /\ Budget'
BY DEF ChainInv, ApiApart, Tally, Finite, Budget, Chances

LEMMA ChainTypes ==
    ASSUME TypeOK
    PROVE  /\ QueueTypeOK /\ WorkerTypeOK /\ crashes \in Nat /\ overtakes \in Nat
           /\ checked \in [Clients -> Kinds \cup {NoKind}]
           /\ \A w \in Workers : w \in Clients /\ w \notin Handlers
           /\ "refresh" \in Kinds /\ NoKind # "refresh"
BY TypeParts, Prices, KindsUsed, QueueAssumption, LifecycleAssumption DEF QueueTypeOK

\* Whether one worker is in a set of workers
LEMMA Shift ==
    ASSUME NEW S, NEW T, S \subseteq Workers, T \subseteq Workers,
           NEW w, S \ {w} = T \ {w}
    PROVE  /\ Cardinality(S) \in Nat /\ Cardinality(T) \in Nat
           /\ (w \in S <=> w \in T) => Cardinality(S) = Cardinality(T)
           /\ w \in S /\ w \notin T => Cardinality(S) = Cardinality(T) + 1
           /\ w \notin S /\ w \in T => Cardinality(S) + 1 = Cardinality(T)
<1>1. IsFiniteSet(S) /\ IsFiniteSet(T) /\ Cardinality(S) \in Nat /\ Cardinality(T) \in Nat
  BY LifecycleAssumption, FS_Subset, FS_CardinalityType
<1>2. (w \in S <=> w \in T) => S = T
  OBVIOUS
<1>3. ASSUME w \in S, w \notin T PROVE Cardinality(S) = Cardinality(T) + 1
  <2>1. S = T \cup {w}
    BY <1>3
  <2> QED
    BY <1>1, <1>3, <2>1, OneIn
<1>4. ASSUME w \notin S, w \in T PROVE Cardinality(S) + 1 = Cardinality(T)
  <2>1. T = S \cup {w}
    BY <1>4
  <2> QED
    BY <1>1, <1>4, <2>1, OneIn
<1> QED
  BY <1>1, <1>2, <1>3, <1>4

-----------------------------------------------------------------------------
(* The other workers *)

\* What worker v holds is still what it was.
KindsKept(v) == held'[v] = held[v] /\ \A j \in held[v] : jobs'[j].kind = jobs[j].kind

Stays(v) == pc'[v] = pc[v] /\ cur'[v] = cur[v] /\ checked'[v] = checked[v] /\ KindsKept(v)

LEMMA InsertKeepsKinds ==
    ASSUME QueueTypeOK, NEW k \in Kinds, Insert(k), held' = held, NEW v \in Workers
    PROVE  KindsKept(v)
<1>1. PICK j \in JobIds :
        /\ Fresh(j)
        /\ jobs' = [jobs EXCEPT ![j] = [status |-> "queued", kind |-> k, attempts |-> 0]]
  BY QueueAssumption DEF Insert, Free
<1> QED
  BY <1>1 DEF KindsKept, Fresh, Held, QueueTypeOK

LEMMA ClaimKeepsKinds ==
    ASSUME QueueTypeOK, NEW w \in Workers, Claim(w), NEW v \in Workers \ {w}
    PROVE  KindsKept(v)
<1>0. PICK batch \in SUBSET Due :
        /\ jobs' = [j \in JobIds |-> IF j \in batch THEN Claimed(jobs[j]) ELSE jobs[j]]
        /\ held' = [held EXCEPT ![w] = batch]
  BY DEF Claim, ClaimBatch
<1>1. \A j \in JobIds : jobs'[j].kind = jobs[j].kind
  BY <1>0 DEF Claimed, QueueTypeOK, JobRows
<1>2. held'[v] = held[v] /\ held[v] \subseteq JobIds
  BY <1>0 DEF QueueTypeOK
<1> QED
  BY <1>1, <1>2 DEF KindsKept

LEMMA ReleaseKeepsKinds ==
    ASSUME QueueTypeOK, NEW w \in Workers, NEW j \in JobIds,
           NEW s \in {"done", "failed", "queued"}, Release(w, j, s), NEW v \in Workers \ {w}
    PROVE  KindsKept(v)
<1>1. held'[v] = held[v] /\ held[v] \subseteq JobIds
  BY DEF Release, QueueTypeOK
<1>2. ASSUME NEW i \in held[v] PROVE jobs'[i].kind = jobs[i].kind
  <2>1. CASE i # j
    BY <1>1, <2>1 DEF Release, QueueTypeOK
  <2>2. CASE i = j
    <3>1. jobs' = [jobs EXCEPT ![j] = [jobs[j] EXCEPT !.status = s]]
      BY <1>2, <2>2 DEF Release
    <3> QED
      BY <2>2, <3>1 DEF QueueTypeOK, JobRows
  <2> QED
    BY <2>1, <2>2
<1> QED
  BY <1>1, <1>2 DEF KindsKept

LEMMA StaysAtWork ==
    ASSUME NEW v \in Workers, AtWork(v), Stays(v)
    PROVE  /\ AtWork(v)'
           /\ v \in Finishing("refresh")' <=> v \in Finishing("refresh")
           /\ v \in Enqueuers' <=> v \in Enqueuers
BY DEF AtWork, Stays, KindsKept, Kind, Finishing, Enqueuers, At

\* A step of worker w, and what has to be shown of it
LEMMA StepOf ==
    ASSUME TypeOK, TypeOK', ChainInv, NEW w \in Workers, \A v \in Workers \ {w} : Stays(v),
           AtWork(w)', ApiApart', Tally("refresh")',
           Chances("refresh")' + Cardinality(Enqueuers') + crashes + overtakes
             + Cardinality(Finishing("refresh"))
             <= Chances("refresh") + Cardinality(Enqueuers) + crashes' + overtakes'
                  + Cardinality(Finishing("refresh")')
    PROVE  ChainInv'
<1>1. \A v \in Workers : AtWork(v)'
  BY ChainParts, StaysAtWork
<1>2. /\ Cardinality(Enqueuers) \in Nat /\ Cardinality(Enqueuers') \in Nat
      /\ Cardinality(Finishing("refresh")) \in Nat /\ Cardinality(Finishing("refresh")') \in Nat
      /\ Cardinality(Workers) \in Nat
  BY LifecycleAssumption, FS_Subset, FS_CardinalityType DEF Enqueuers, Finishing
<1>3. /\ Chances("refresh") \in Nat /\ Chances("refresh")' \in Nat /\ Budget
  <2>1. Finite("refresh") /\ Budget
    BY ChainParts DEF Tally
  <2> QED
    BY <2>1, Sizes, SizesAfter
<1>4. crashes \in Nat /\ overtakes \in Nat /\ crashes' \in Nat /\ overtakes' \in Nat
  BY QueueAssumption DEF TypeOK, QueueTypeOK
<1>5. Budget'
  BY <1>2, <1>3, <1>4 DEF Budget
<1> QED
  BY <1>1, <1>5, ChainParts

\* Where the sets of workers that enqueue and finish change at most in w
LEMMA CrewOf ==
    ASSUME ChainInv, NEW w \in Workers, \A v \in Workers \ {w} : Stays(v)
    PROVE  /\ Enqueuers \subseteq Workers /\ Enqueuers' \subseteq Workers
           /\ Finishing("refresh") \subseteq Workers /\ Finishing("refresh")' \subseteq Workers
           /\ Enqueuers' \ {w} = Enqueuers \ {w}
           /\ Finishing("refresh")' \ {w} = Finishing("refresh") \ {w}
<1>1. \A v \in Workers \ {w} : (v \in Finishing("refresh")' <=> v \in Finishing("refresh"))
                               /\ (v \in Enqueuers' <=> v \in Enqueuers)
  BY ChainParts, StaysAtWork
<1>2. /\ Enqueuers \subseteq Workers /\ Enqueuers' \subseteq Workers
      /\ Finishing("refresh") \subseteq Workers /\ Finishing("refresh")' \subseteq Workers
  BY DEF Enqueuers, Finishing
<1> QED
  BY <1>1, <1>2

-----------------------------------------------------------------------------
(* Steps that leave the queue alone *)

LEMMA QuietChains ==
    ASSUME TypeOK, TypeOK', ChainInv, NEW w \in Workers, UNCHANGED queueVars,
           \A v \in Workers \ {w} : pc'[v] = pc[v] /\ cur'[v] = cur[v],
           pc[w] # "finish", AtWork(w)'
    PROVE  ChainInv'
<1>1. \A v \in Workers \ {w} : Stays(v)
  BY DEF queueVars, Stays, KindsKept
<1>2. Tally("refresh") /\ ApiApart /\ Finite("refresh")
  BY ChainParts DEF Tally
<1>3. Waiting("refresh")' = Waiting("refresh")
      /\ Holdings("refresh")' = Holdings("refresh")
      /\ ActiveOfKind("refresh")' = ActiveOfKind("refresh")
  BY DEF queueVars, Waiting, Holdings, ActiveOfKind, Active, Held
<1>4. NoChance("refresh") /\ ApiApart' /\ Enqueuers' = Enqueuers /\ crashes' = crashes
  BY <1>2, <1>3, SameSets DEF TypeOK, queueVars, ApiApart, Enqueuers
<1>5. w \notin Finishing("refresh")
  BY DEF Finishing, At
<1>6. /\ Cardinality(Finishing("refresh")) \in Nat /\ Cardinality(Finishing("refresh")') \in Nat
      /\ Cardinality(Finishing("refresh")) <= Cardinality(Finishing("refresh")')
  BY <1>1, <1>5, CrewOf, Shift
<1>7. Cardinality(Enqueuers) \in Nat /\ Chances("refresh") \in Nat /\ overtakes \in Nat
      /\ crashes \in Nat
  BY <1>1, <1>2, CrewOf, Shift, Sizes, ChainTypes
<1>8. Chances("refresh")' = Chances("refresh") /\ overtakes' = overtakes
  BY <1>3 DEF Chances, queueVars
<1> QED
  BY <1>1, <1>4, <1>6, <1>7, <1>8, StepOf DEF NoChance

\* Where a worker is, and on which job
Moved(w, step, j) ==
    /\ pc'[w] = step /\ cur'[w] = j
    /\ \A v \in Workers \ {w} : pc'[v] = pc[v] /\ cur'[v] = cur[v]

LEMMA MovesTo ==
    ASSUME WorkerTypeOK, NEW w \in Workers, NEW step
    PROVE  /\ Goto(w, step) \/ GotoWithRow(w, step) => Moved(w, step, cur[w])
           /\ \A a : Answered(w, step, a) => Moved(w, step, cur[w])
           /\ \A j : Take(w, j, step) => Moved(w, step, j) /\ pc[w] = "idle" /\ j \in held[w]
           /\ Forget(w) => Moved(w, "idle", None)
BY DEF WorkerTypeOK, Goto, GotoWithRow, Answered, Take, Forget, Moved, At

\* The handlers of a refresh are the only ones to poll.
LEMMA BeginChains ==
    ASSUME TypeOK, TypeOK', ChainInv, NEW w \in Workers, Begin(w)
    PROVE  ChainInv'
<1>1. WorkerTypeOK /\ UNCHANGED queueVars
  BY TypeParts DEF Begin, BeginProvision, BeginRefresh, BeginDestroy, Take, OnlyWorker
<1>2. PICK j \in JobIds, step \in Steps :
        /\ Take(w, j, step)
        /\ step \in {"poll", "apply", "successor"} => jobs[j].kind = "refresh"
  BY DEF Begin, BeginProvision, BeginRefresh, BeginDestroy, FailedStep, Steps
<1>3. Moved(w, step, j) /\ pc[w] = "idle" /\ j \in held[w]
  BY <1>1, <1>2, MovesTo
<1>4. AtWork(w)'
  BY <1>1, <1>2, <1>3 DEF AtWork, Moved, queueVars, Kind
<1> QED
  BY <1>1, <1>3, <1>4, QuietChains DEF Moved

LEMMA HandlerChains ==
    ASSUME TypeOK, TypeOK', ChainInv, NEW w \in Workers,
           \/ Create(w) \/ Record(w) \/ Track(w) \/ Poll(w) \/ Apply(w) \/ ExpireSession(w)
           \/ ReadyFlag(w) \/ ReadySend(w) \/ EndFlag(w) \/ EndSend(w)
           \/ Destroy(w) \/ Untrack(w) \/ Close(w)
    PROVE  ChainInv'
<1>1. WorkerTypeOK /\ UNCHANGED queueVars
  BY TypeParts DEF Create, Record, Track, Poll, AskProvider, Apply, ExpireSession, ReadyFlag,
                   ReadySend,
     EndFlag, EndSend, Destroy, Untrack, Close, OnlyExternal, OnlyRow
<1>2. pc[w] \notin {"idle", "reconcile", "finish"}
  BY DEF Create, Record, Track, Poll, AskProvider, Apply, ExpireSession, ReadyFlag, ReadySend,
     EndFlag, EndSend, Destroy, Untrack, Close, At
<1>3. AtWork(w)
  BY ChainParts
<1>4. ASSUME NEW step, Moved(w, step, cur[w]),
             step \in {"poll", "apply", "successor"} => pc[w] \in {"poll", "apply"}
      PROVE  ChainInv'
  <2>1. AtWork(w)'
    BY <1>1, <1>2, <1>3, <1>4 DEF AtWork, Moved, queueVars, Kind
  <2> QED
    BY <1>1, <1>2, <1>4, <2>1, QuietChains DEF Moved
<1>5. CASE Poll(w)
  <2>1. pc[w] = "poll" /\ \E step \in Steps : Goto(w, step) \/ \E a : Answered(w, step, a)
    BY <1>5 DEF Poll, AskProvider, At, Steps
  <2> QED
    BY <1>1, <1>4, <2>1, MovesTo
<1>6. CASE Apply(w)
  <2>1. pc[w] = "apply" /\ GotoWithRow(w, AfterApply(dep'))
    BY <1>6 DEF Apply, At
  <2> QED
    BY <1>1, <1>4, <2>1, MovesTo
<1>7. CASE Create(w)
  <2>1. (\E d \in Droplets : Answered(w, "record", Provisioned(d))) \/ Goto(w, "retry")
    BY <1>7 DEF Create
  <2>2. Moved(w, "record", cur[w]) \/ Moved(w, "retry", cur[w])
    BY <1>1, <2>1, MovesTo
  <2> QED
    BY <1>4, <2>2
<1>8. CASE \/ Record(w) \/ Track(w) \/ ExpireSession(w) \/ ReadyFlag(w) \/ ReadySend(w)
           \/ EndFlag(w) \/ EndSend(w) \/ Destroy(w) \/ Untrack(w) \/ Close(w)
  <2>1. \E step \in Steps \ {"poll", "apply", "successor"} : Goto(w, step) \/ GotoWithRow(w, step)
    BY <1>8 DEF Record, Track, ExpireSession, ReadyFlag, ReadySend, EndFlag, EndSend, Destroy,
                AfterDestroyError, Untrack, Close, Steps
  <2> QED
    BY <1>1, <1>4, <2>1, MovesTo
<1> QED
  BY <1>5, <1>6, <1>7, <1>8

-----------------------------------------------------------------------------
(* Enqueuing: a check that finds no refresh finds no chance but for         *)
(* take-overs, whoever else is about to insert one.                         *)

LEMMA CheckChains ==
    ASSUME TypeOK, ChainInv, NEW w \in Workers, NEW k \in Kinds, EnqueueCheck(w, k),
           UNCHANGED workerVars
    PROVE  ChainInv'
<1>1. /\ checked[w] = NoKind /\ ~Found(k) /\ checked' = [checked EXCEPT ![w] = k]
      /\ UNCHANGED <<jobs, held, crashes, overtakes, pc, cur>>
  BY DEF EnqueueCheck, workerVars
<1>2. (\A v \in Workers : AtWork(v)) /\ ApiApart /\ Tally("refresh") /\ Budget
      /\ Finite("refresh")
  BY ChainParts DEF Tally
<1>3. /\ Waiting("refresh")' = Waiting("refresh")
      /\ Holdings("refresh")' = Holdings("refresh")
      /\ ActiveOfKind("refresh")' = ActiveOfKind("refresh")
      /\ Finishing("refresh")' = Finishing("refresh")
  BY <1>1 DEF Waiting, Holdings, ActiveOfKind, Active, Held, Finishing, At, Kind
<1>4. Tally("refresh")' /\ Chances("refresh")' = Chances("refresh")
  BY <1>1, <1>2, <1>3 DEF Tally, Finite, Chances
<1>5. (\A v \in Workers : AtWork(v)') /\ ApiApart'
  BY <1>1, <1>2, ChainTypes DEF AtWork, Kind, ApiApart
<1>6. /\ Cardinality(Finishing("refresh")) \in Nat /\ Cardinality(Workers) \in Nat
      /\ Cardinality(Enqueuers') \in Nat /\ Cardinality(Enqueuers') <= Cardinality(Workers)
      /\ Chances("refresh") \in Nat /\ overtakes \in Nat /\ crashes \in Nat
  <2>1. Enqueuers' \subseteq Workers /\ Finishing("refresh") \subseteq Workers
    BY DEF Enqueuers, Finishing
  <2> QED
    BY <1>2, <2>1, LifecycleAssumption, FS_Subset, FS_CardinalityType, Sizes, ChainTypes
<1>7. CASE k = "refresh"
  <2>1. ActiveOfKind("refresh") = {}
    BY <1>1, <1>7 DEF Found
  <2>2. Chances("refresh") <= overtakes
    BY <1>2, <1>6, <2>1, FS_EmptySet DEF Tally
  <2>3. Budget'
    BY <1>1, <1>3, <1>4, <1>6, <2>2 DEF Budget
  <2> QED
    BY <1>4, <1>5, <2>3, ChainParts
<1>8. CASE k # "refresh"
  <2>1. Enqueuers' = Enqueuers
    BY <1>1, <1>8, ChainTypes DEF Enqueuers
  <2>2. Budget'
    BY <1>1, <1>2, <1>3, <1>4, <2>1 DEF Budget
  <2> QED
    BY <1>4, <1>5, <2>2, ChainParts
<1> QED
  BY <1>7, <1>8

\* The worker inserts what it found none of.
LEMMA InsertChains ==
    ASSUME TypeOK, TypeOK', ChainInv, NEW w \in Workers, EnqueueInsert(w), pc[w] # "finish",
           \A v \in Workers \ {w} : pc'[v] = pc[v] /\ cur'[v] = cur[v],
           cur'[w] = cur[w], pc'[w] \in {"finish", "reconcile", "idle"},
           pc'[w] = "finish" => pc[w] \notin {"idle", "reconcile"}
    PROVE  ChainInv'
<1>1. /\ checked[w] # NoKind /\ Insert(checked[w]) /\ checked' = [checked EXCEPT ![w] = NoKind]
      /\ UNCHANGED <<held, crashes, overtakes>>
  BY DEF EnqueueInsert
<1>2. QueueTypeOK /\ Tally("refresh") /\ ApiApart /\ AtWork(w) /\ Finite("refresh")
      /\ "refresh" \in Kinds /\ checked[w] \in Kinds
  BY <1>1, ChainParts, ChainTypes DEF Tally
<1>3. \A v \in Workers : KindsKept(v)
  BY <1>1, <1>2, InsertKeepsKinds
<1>4. \A v \in Workers \ {w} : Stays(v)
  BY <1>1, <1>3, ChainTypes DEF Stays
<1>5. AtWork(w)' /\ ApiApart'
  BY <1>1, <1>2, ChainTypes DEF AtWork, ApiApart
<1>6. /\ Cardinality(Finishing("refresh")) \in Nat /\ Cardinality(Finishing("refresh")') \in Nat
      /\ Cardinality(Finishing("refresh")) <= Cardinality(Finishing("refresh")')
  <2>1. w \notin Finishing("refresh")
    BY DEF Finishing, At
  <2> QED
    BY <1>4, <2>1, CrewOf, Shift
<1>7. Chances("refresh") \in Nat /\ overtakes \in Nat /\ crashes \in Nat
  BY <1>2, Sizes, ChainTypes
<1>8. w \notin Enqueuers'
  BY <1>1, ChainTypes DEF Enqueuers
<1>9. CASE checked[w] = "refresh"
  <2>1. OneChance("refresh")
    BY <1>1, <1>2, <1>9, InsertSameCount
  <2>2. w \in Enqueuers
    BY <1>9 DEF Enqueuers
  <2>3. /\ Cardinality(Enqueuers) \in Nat /\ Cardinality(Enqueuers') \in Nat
        /\ Cardinality(Enqueuers) = Cardinality(Enqueuers') + 1
    BY <1>4, <1>8, <2>2, CrewOf, Shift
  <2>4. Chances("refresh")' \in Nat
    BY <2>1, SizesAfter DEF OneChance
  <2> QED
    BY <1>1, <1>4, <1>5, <1>6, <1>7, <2>1, <2>3, <2>4, StepOf DEF OneChance
<1>10. CASE checked[w] # "refresh"
  <2>1. NoChance("refresh")
    BY <1>1, <1>2, <1>10, InsertOtherCount
  <2>2. w \notin Enqueuers
    BY <1>10 DEF Enqueuers
  <2>3. /\ Cardinality(Enqueuers) \in Nat /\ Cardinality(Enqueuers') \in Nat
        /\ Cardinality(Enqueuers) = Cardinality(Enqueuers')
    BY <1>4, <1>8, <2>2, CrewOf, Shift
  <2>4. Chances("refresh")' <= Chances("refresh") /\ Chances("refresh")' \in Nat
        /\ Tally("refresh")'
    BY <1>1, <1>2, <2>1, NoChanceLeq
  <2> QED
    BY <1>1, <1>4, <1>5, <1>6, <1>7, <2>3, <2>4, StepOf
<1> QED
  BY <1>9, <1>10

LEMMA EnqueueChains ==
    ASSUME TypeOK, TypeOK', ChainInv, NEW w \in Workers, Enqueue(w)
    PROVE  ChainInv'
<1>1. WorkerTypeOK /\ pc[w] = "enqueue" /\ AtWork(w) /\ Wanted(w) \in Kinds
  BY TypeParts, ChainParts, KindsUsed DEF Enqueue, At
<1>2. CASE UNCHANGED queueVars /\ Goto(w, "finish")
  <2>1. Moved(w, "finish", cur[w])
    BY <1>1, <1>2, MovesTo
  <2>2. AtWork(w)'
    BY <1>1, <1>2, <2>1 DEF AtWork, Moved, queueVars
  <2> QED
    BY <1>1, <1>2, <2>1, <2>2, QuietChains DEF Moved
<1>3. CASE EnqueueCheck(w, Wanted(w)) /\ UNCHANGED workerVars
  BY <1>1, <1>3, CheckChains
<1>4. CASE EnqueueInsert(w) /\ Goto(w, "finish")
  <2>1. Moved(w, "finish", cur[w])
    BY <1>1, <1>4, MovesTo
  <2> QED
    BY <1>1, <1>4, <2>1, InsertChains DEF Moved
<1> QED
  BY <1>2, <1>3, <1>4 DEF Enqueue

LEMMA ReconcileChains ==
    ASSUME TypeOK, TypeOK', ChainInv, NEW w \in Workers, Reconcile(w)
    PROVE  ChainInv'
<1>1. WorkerTypeOK
  BY TypeParts
<1>2. CASE ReconcileLedger(w) \/ \E old \in Ages : ReconcileRead(w, old)
  <2>1. /\ UNCHANGED queueVars /\ cur' = cur /\ pc[w] # "finish"
        /\ pc'[w] \in {"idle", "reconcile"}
        /\ \A v \in Workers \ {w} : pc'[v] = pc[v]
    BY <1>1, <1>2 DEF ReconcileLedger, ReconcileRead, OnlyWorker, At, WorkerTypeOK
  <2> QED
    BY <2>1, QuietChains DEF AtWork
<1>3. CASE ReconcileEnqueue(w)
  <2>1. PICK k \in todo[w] \ {"ledger"} :
          /\ pc[w] = "reconcile"
          /\ \/ /\ UNCHANGED queueVars \/ EnqueueInsert(w)
                /\ pc' = [pc EXCEPT ![w] = IF todo'[w] = {} THEN "idle" ELSE pc[w]]
                /\ cur' = cur
             \/ EnqueueCheck(w, k) /\ UNCHANGED workerVars
    BY <1>3 DEF ReconcileEnqueue, At
  <2>2. k \in Kinds
    BY <1>1, <2>1 DEF WorkerTypeOK
  <2>3. CASE EnqueueCheck(w, k) /\ UNCHANGED workerVars
    BY <2>2, <2>3, CheckChains
  <2>4. CASE /\ UNCHANGED queueVars \/ EnqueueInsert(w)
             /\ pc' = [pc EXCEPT ![w] = IF todo'[w] = {} THEN "idle" ELSE pc[w]]
             /\ cur' = cur
    <3>1. pc'[w] \in {"idle", "reconcile"} /\ \A v \in Workers \ {w} : pc'[v] = pc[v]
      BY <1>1, <2>1, <2>4 DEF WorkerTypeOK
    <3>2. AtWork(w)'
      BY <3>1 DEF AtWork
    <3>3. CASE UNCHANGED queueVars
      BY <2>1, <2>4, <3>1, <3>2, <3>3, QuietChains
    <3>4. CASE EnqueueInsert(w)
      BY <2>1, <2>4, <3>1, <3>4, InsertChains
    <3> QED
      BY <2>4, <3>3, <3>4
  <2> QED
    BY <2>1, <2>3, <2>4
<1> QED
  BY <1>2, <1>3 DEF Reconcile

\* A refresh that finds the session in progress has itself followed, and is about to end.
LEMMA SuccessorChains ==
    ASSUME TypeOK, TypeOK', ChainInv, NEW w \in Workers, Successor(w)
    PROVE  ChainInv'
<1>1. QueueTypeOK /\ WorkerTypeOK /\ Tally("refresh") /\ ApiApart /\ AtWork(w)
      /\ Finite("refresh")
      /\ "refresh" \in Kinds
  BY TypeParts, ChainParts, ChainTypes DEF Tally
<1>2. /\ Insert("refresh") /\ UNCHANGED <<held, checked, crashes, overtakes>>
      /\ pc[w] = "successor" /\ Goto(w, "finish")
  BY DEF Successor, EnqueueAlways, At
<1>3. Moved(w, "finish", cur[w])
  BY <1>1, <1>2, MovesTo
<1>4. \A v \in Workers : KindsKept(v)
  BY <1>1, <1>2, InsertKeepsKinds
<1>5. \A v \in Workers \ {w} : Stays(v)
  BY <1>2, <1>3, <1>4 DEF Stays, Moved
<1>6. AtWork(w)' /\ ApiApart'
  BY <1>1, <1>2, <1>3 DEF AtWork, ApiApart, Moved
<1>7. w \notin Finishing("refresh") /\ w \in Finishing("refresh")'
  BY <1>1, <1>2, <1>3, <1>4 DEF Finishing, At, AtWork, Kind, KindsKept, Moved
<1>8. /\ Cardinality(Finishing("refresh")) \in Nat /\ Cardinality(Finishing("refresh")') \in Nat
      /\ Cardinality(Finishing("refresh")) + 1 = Cardinality(Finishing("refresh")')
  BY <1>5, <1>7, CrewOf, Shift
<1>9. Enqueuers' = Enqueuers /\ Cardinality(Enqueuers) \in Nat
  BY <1>2, <1>5, CrewOf, Shift DEF Enqueuers
<1>10. OneChance("refresh")
  BY <1>1, <1>2, InsertSameCount
<1>11. Chances("refresh") \in Nat /\ overtakes \in Nat /\ crashes \in Nat
       /\ Chances("refresh")' \in Nat
  BY <1>1, <1>10, Sizes, SizesAfter, ChainTypes DEF OneChance
<1> QED
  BY <1>2, <1>5, <1>6, <1>8, <1>9, <1>10, <1>11, StepOf DEF OneChance

-----------------------------------------------------------------------------
(* The end of a job, a new batch, a crash *)

\* A job ends: a refresh that is done has a successor or needs none.
LEMMA EndChains ==
    ASSUME TypeOK, TypeOK', ChainInv, NEW w \in Workers, NEW s \in {"done", "failed", "queued"},
           Release(w, cur[w], s), Forget(w), pc[w] \in {"finish", "retry"},
           pc[w] = "finish" => s = "done"
    PROVE  ChainInv'
<1>1. QueueTypeOK /\ WorkerTypeOK /\ Tally("refresh") /\ ApiApart /\ Finite("refresh")
  BY TypeParts, ChainParts DEF Tally
<1>2. Moved(w, "idle", None)
  BY <1>1, MovesTo
<1>3. cur[w] \in JobIds /\ UNCHANGED <<checked, crashes, overtakes>>
  BY <1>1 DEF Release, QueueTypeOK
<1>4. \A v \in Workers \ {w} : Stays(v)
  BY <1>1, <1>2, <1>3, ReleaseKeepsKinds DEF Stays, Moved
<1>5. AtWork(w)' /\ ApiApart'
  BY <1>1, <1>2, <1>3 DEF AtWork, Moved, ApiApart
<1>6. Enqueuers' = Enqueuers /\ Cardinality(Enqueuers) \in Nat
  BY <1>3, <1>4, CrewOf, Shift DEF Enqueuers
<1>7. w \notin Finishing("refresh")'
  BY <1>2 DEF Finishing, At, Moved
<1>8. Chances("refresh") \in Nat /\ overtakes \in Nat /\ crashes \in Nat
  BY <1>1, Sizes, ChainTypes
<1>9. CASE jobs[cur[w]].kind = "refresh" /\ s # "queued"
  <2>1. ChanceLess("refresh")
    BY <1>1, <1>3, <1>9, EndCount
  <2>2. /\ Cardinality(Finishing("refresh")) \in Nat
        /\ Cardinality(Finishing("refresh")') \in Nat
        /\ Cardinality(Finishing("refresh")) <= Cardinality(Finishing("refresh")') + 1
    BY <1>4, <1>7, CrewOf, Shift
  <2>3. Chances("refresh")' \in Nat
    BY <2>1, SizesAfter DEF ChanceLess
  <2> QED
    BY <1>3, <1>4, <1>5, <1>6, <1>8, <2>1, <2>2, <2>3, StepOf DEF ChanceLess
<1>10. CASE ~(jobs[cur[w]].kind = "refresh" /\ s # "queued")
  <2>1. NoChance("refresh")
    BY <1>1, <1>3, <1>10, RequeueCount, ReleaseOtherCount, KindsUsed
  <2>2. w \notin Finishing("refresh")
    BY <1>10 DEF Finishing, At, Kind
  <2>3. /\ Cardinality(Finishing("refresh")) \in Nat
        /\ Cardinality(Finishing("refresh")') \in Nat
        /\ Cardinality(Finishing("refresh")) = Cardinality(Finishing("refresh")')
    BY <1>4, <1>7, <2>2, CrewOf, Shift
  <2>4. Chances("refresh")' <= Chances("refresh") /\ Chances("refresh")' \in Nat
        /\ Tally("refresh")'
    BY <1>1, <1>3, <2>1, NoChanceLeq
  <2> QED
    BY <1>3, <1>4, <1>5, <1>6, <1>8, <2>3, <2>4, StepOf
<1> QED
  BY <1>9, <1>10

LEMMA FinishChains ==
    ASSUME TypeOK, TypeOK', ChainInv, NEW w \in Workers, Finish(w) \/ Retry(w)
    PROVE  ChainInv'
<1>1. Forget(w) /\ pc[w] \in {"finish", "retry"}
  BY DEF Finish, Retry, At
<1>2. PICK s \in {"done", "failed", "queued"} :
        Release(w, cur[w], s) /\ (pc[w] = "finish" => s = "done")
  BY DEF Finish, Retry, At, MarkDone, Reschedule, FailJob
<1> QED
  BY <1>1, <1>2, EndChains

LEMMA ClaimChains ==
    ASSUME TypeOK, TypeOK', ChainInv, NEW w \in Workers, ClaimJobs(w)
    PROVE  ChainInv'
<1>1. QueueTypeOK /\ Tally("refresh") /\ ApiApart /\ Finite("refresh")
  BY TypeParts, ChainParts DEF Tally
<1>2. pc[w] = "idle" /\ Claim(w) /\ UNCHANGED <<checked, crashes, pc, cur>>
  BY DEF ClaimJobs, Claim, ClaimBatch, workerVars, At
<1>3. \A v \in Workers \ {w} : Stays(v)
  BY <1>1, <1>2, ClaimKeepsKinds DEF Stays
<1>4. AtWork(w)' /\ ApiApart'
  BY <1>1, <1>2 DEF AtWork, ApiApart
<1>5. NoChance("refresh")
  BY <1>1, <1>2, ClaimCount DEF Claim
<1>6. w \notin Finishing("refresh") /\ w \notin Finishing("refresh")'
  BY <1>2 DEF Finishing, At
<1>7. /\ Cardinality(Finishing("refresh")) \in Nat
      /\ Cardinality(Finishing("refresh")') = Cardinality(Finishing("refresh"))
      /\ Cardinality(Enqueuers) \in Nat /\ Enqueuers' = Enqueuers
  BY <1>2, <1>3, <1>6, CrewOf, Shift DEF Enqueuers
<1>8. Chances("refresh") \in Nat /\ Chances("refresh")' \in Nat /\ overtakes \in Nat
      /\ crashes \in Nat
      /\ overtakes' \in Nat
  BY <1>1, <1>5, Sizes, SizesAfter, ChainTypes, QueueAssumption DEF NoChance, TypeOK, QueueTypeOK
<1>9. Chances("refresh")' + overtakes <= Chances("refresh") + overtakes'
      /\ Tally("refresh")' /\ crashes' = crashes
  BY <1>2, <1>5 DEF NoChance
<1> DEFINE n == Cardinality(Enqueuers) m == Cardinality(Finishing("refresh"))
<1>10. n \in Nat /\ m \in Nat /\ Cardinality(Enqueuers') = n
       /\ Cardinality(Finishing("refresh")') = m
  BY <1>7
<1> HIDE DEF n, m
<1>11. Chances("refresh")' + n + crashes + overtakes + m
            <= Chances("refresh") + n + crashes + overtakes' + m
  BY <1>8, <1>9, <1>10, AddBoth
<1>12. Chances("refresh")' + Cardinality(Enqueuers') + crashes + overtakes
         + Cardinality(Finishing("refresh"))
         <= Chances("refresh") + Cardinality(Enqueuers) + crashes' + overtakes'
              + Cardinality(Finishing("refresh")')
  BY <1>9, <1>10, <1>11 DEF n, m
<1> QED
  BY <1>3, <1>4, <1>9, <1>12, StepOf

\* What a process that dies and a handler that raises do to the queue
CrashOf(w) == CrashWorker(w) \/ Raise(w)

LEMMA CrashOfEffect ==
    ASSUME QueueTypeOK, NEW w \in Workers, CrashOf(w)
    PROVE  /\ crashes' = crashes + 1 /\ UNCHANGED <<jobs, overtakes>>
           /\ checked' = [checked EXCEPT ![w] = NoKind]
           /\ held' \in {held, [held EXCEPT ![w] = {}]}
BY DEF CrashOf, CrashWorker, Raise, Lapse, QueueTypeOK

LEMMA CrashOfCount ==
    ASSUME NEW k, QueueTypeOK, Tally(k), NEW w \in Workers, CrashOf(w)
    PROVE  NoChance(k)
<1>1. CASE CrashWorker(w)
  BY <1>1, CrashCount
<1>2. CASE Raise(w)
  <2>1. UNCHANGED <<jobs, held, overtakes>>
    BY <1>2 DEF Raise, Lapse
  <2>2. Waiting(k)' = Waiting(k) /\ Holdings(k)' = Holdings(k) /\ ActiveOfKind(k)' = ActiveOfKind(k)
    BY <2>1 DEF Waiting, Holdings, ActiveOfKind, Active, Held
  <2> QED
    BY <2>1, <2>2, SameSets DEF Tally
<1> QED
  BY <1>1, <1>2 DEF CrashOf

LEMMA BreaksMoves ==
    ASSUME WorkerTypeOK, NEW w \in Workers, Breaks(w)
    PROVE  CrashOf(w) /\ (Moved(w, "idle", None) \/ Moved(w, "retry", cur[w]))
BY MovesTo DEF Breaks, WorkerDies, HandlerRaises, CrashOf

LEMMA DeathChains ==
    ASSUME TypeOK, TypeOK', ChainInv, NEW w \in Workers, Breaks(w)
    PROVE  ChainInv'
<1>1. QueueTypeOK /\ WorkerTypeOK /\ Tally("refresh") /\ ApiApart /\ Finite("refresh")
      /\ AtWork(w)
  BY TypeParts, ChainParts DEF Tally
<1>2. /\ crashes' = crashes + 1 /\ UNCHANGED <<jobs, overtakes>>
      /\ checked' = [checked EXCEPT ![w] = NoKind]
      /\ held' \in {held, [held EXCEPT ![w] = {}]}
  BY <1>1, BreaksMoves, CrashOfEffect
<1>3. \/ Moved(w, "idle", None)
      \/ Moved(w, "retry", cur[w]) /\ pc[w] \notin {"idle", "reconcile"} /\ held' = held
  BY <1>1, MovesTo DEF Breaks, WorkerDies, HandlerRaises, Raise, Lapse
<1>4. \A v \in Workers \ {w} : Stays(v)
  BY <1>1, <1>2, <1>3, ChainTypes DEF Stays, KindsKept, Moved, QueueTypeOK
<1>5. AtWork(w)' /\ ApiApart'
  BY <1>1, <1>2, <1>3, ChainTypes DEF AtWork, ApiApart, Moved
<1>6. NoChance("refresh")
  BY <1>1, BreaksMoves, CrashOfCount
<1>7. w \notin Finishing("refresh")' /\ w \notin Enqueuers'
  BY <1>2, <1>3, ChainTypes DEF Finishing, Enqueuers, At, Moved
<1>8. /\ Cardinality(Finishing("refresh")) \in Nat /\ Cardinality(Finishing("refresh")') \in Nat
      /\ Cardinality(Finishing("refresh")) <= Cardinality(Finishing("refresh")') + 1
      /\ Cardinality(Enqueuers) \in Nat /\ Cardinality(Enqueuers') \in Nat
      /\ Cardinality(Enqueuers') <= Cardinality(Enqueuers)
  BY <1>4, <1>7, CrewOf, Shift
<1>9. Chances("refresh") \in Nat /\ Chances("refresh")' \in Nat
      /\ Chances("refresh")' <= Chances("refresh") /\ Tally("refresh")'
      /\ overtakes \in Nat /\ crashes \in Nat
  BY <1>1, <1>2, <1>6, Sizes, NoChanceLeq, ChainTypes
<1> QED
  BY <1>2, <1>4, <1>5, <1>8, <1>9, StepOf

-----------------------------------------------------------------------------
(* The API enqueues no refresh; its processes and the rest concern no worker. *)

LEMMA ApiChains ==
    ASSUME TypeOK, TypeOK', ChainInv, UNCHANGED <<pc, cur, held, overtakes>>,
           crashes' \in {crashes, crashes + 1},
           \A w \in Workers : checked'[w] = checked[w],
           ApiApart',
           jobs' = jobs \/ \E k \in Kinds : k # "refresh" /\ Insert(k)
    PROVE  ChainInv'
<1>1. QueueTypeOK /\ (\A v \in Workers : AtWork(v)) /\ Tally("refresh") /\ Budget
      /\ Finite("refresh")
  BY ChainParts, TypeParts DEF Tally
<1>2. NoChance("refresh")
  <2>1. CASE jobs' = jobs
    <3>1. Waiting("refresh")' = Waiting("refresh")
          /\ Holdings("refresh")' = Holdings("refresh")
          /\ ActiveOfKind("refresh")' = ActiveOfKind("refresh")
      BY <2>1 DEF Waiting, Holdings, ActiveOfKind, Active, Held
    <3> QED
      BY <1>1, <3>1, SameSets
  <2> QED
    BY <1>1, <2>1, InsertOtherCount
<1>3. \A v \in Workers : KindsKept(v)
  BY <1>1, InsertKeepsKinds DEF KindsKept
<1>4. \A v \in Workers : Stays(v)
  BY <1>3 DEF Stays
<1>5. \A v \in Workers : AtWork(v)'
  BY <1>1, <1>4, StaysAtWork
<1>6. Finishing("refresh")' = Finishing("refresh") /\ Enqueuers' = Enqueuers
  BY <1>1, <1>4, StaysAtWork DEF Finishing, Enqueuers
<1>7. Cardinality(Finishing("refresh")) \in Nat /\ Cardinality(Enqueuers) \in Nat
      /\ Cardinality(Workers) \in Nat
  BY LifecycleAssumption, FS_Subset, FS_CardinalityType DEF Finishing, Enqueuers
<1>8. Chances("refresh") \in Nat /\ Chances("refresh")' \in Nat
      /\ Chances("refresh")' <= Chances("refresh") /\ Tally("refresh")'
      /\ overtakes \in Nat /\ crashes \in Nat
  BY <1>1, <1>2, Sizes, NoChanceLeq, ChainTypes
<1>9. Budget'
  BY <1>1, <1>6, <1>7, <1>8 DEF Budget
<1> QED
  BY <1>5, <1>8, <1>9, ChainParts

LEMMA AwayChains ==
    ASSUME TypeOK, TypeOK', ChainInv,
           \/ \E h \in Handlers : ApiReads(h) \/ ApiCommits(h) \/ ApiEnqueues(h)
           \/ ApiDies \/ Expire \/ Vanish
    PROVE  ChainInv'
<1>1. UNCHANGED <<pc, cur>>
  BY DEF ApiReads, ApiOnly, ApiCommits, ApiEnqueues, ApiDies, Expire, Vanish, workerVars
<1>2. ApiApart
  BY ChainParts
<1>3. CASE UNCHANGED queueVars
  BY <1>1, <1>2, <1>3, ApiChains DEF queueVars, ApiApart
<1>4. CASE ApiDies
  <2>0. PICK hs \in SUBSET Handlers : CrashApi(hs)
    BY <1>4 DEF ApiDies
  <2>1. /\ UNCHANGED <<jobs, held, overtakes>> /\ crashes' = crashes + 1
        /\ checked' = [c \in Clients |-> IF c \in hs THEN NoKind ELSE checked[c]]
        /\ hs \cap Workers = {}
    BY <2>0 DEF CrashApi, Lapse
  <2>2. Handlers \subseteq Clients
    BY KindsUsed
  <2>3. ApiApart'
    BY <1>2, <2>1, <2>2, ChainTypes DEF ApiApart
  <2> QED
    BY <1>1, <2>1, <2>3, ChainTypes, ApiChains
<1>5. CASE \E h \in Handlers : ApiEnqueues(h)
  <2>1. PICK h \in Handlers : ApiEnqueues(h)
    BY <1>5
  <2>2. /\ ApiWanted(h) # "refresh" /\ h \in Clients /\ h \notin Workers
        /\ checked[h] \in Kinds \cup {NoKind}
    BY KindsUsed, ChainTypes DEF ApiWanted
  <2>3. CASE EnqueueCheck(h, ApiWanted(h))
    <3>1. /\ UNCHANGED <<jobs, held, overtakes, crashes>>
          /\ checked' = [checked EXCEPT ![h] = ApiWanted(h)]
      BY <2>3 DEF EnqueueCheck
    <3>2. ApiApart' /\ \A w \in Workers : checked'[w] = checked[w]
      BY <1>2, <2>2, <3>1, ChainTypes DEF ApiApart
    <3> QED
      BY <1>1, <3>1, <3>2, ApiChains
  <2>4. CASE EnqueueInsert(h)
    <3>1. /\ UNCHANGED <<held, overtakes, crashes>> /\ checked[h] # NoKind
          /\ Insert(checked[h]) /\ checked' = [checked EXCEPT ![h] = NoKind]
      BY <2>4 DEF EnqueueInsert
    <3>2. ApiApart' /\ \A w \in Workers : checked'[w] = checked[w]
      BY <1>2, <2>2, <3>1, ChainTypes DEF ApiApart
    <3>3. checked[h] \in Kinds /\ checked[h] # "refresh"
      BY <1>2, <2>2, <3>1 DEF ApiApart
    <3> QED
      BY <1>1, <3>1, <3>2, <3>3, ApiChains
  <2> QED
    BY <1>3, <2>1, <2>3, <2>4 DEF ApiEnqueues
<1> QED
  BY <1>3, <1>4, <1>5 DEF ApiReads, ApiOnly, ApiCommits, Expire, Vanish, OnlyExternal

-----------------------------------------------------------------------------
(* The whole *)

LEMMA ChainStep ==
    ASSUME TypeOK, TypeOK', ChainInv, Next
    PROVE  ChainInv'
BY BeginChains, HandlerChains, EnqueueChains, SuccessorChains, FinishChains, ReconcileChains,
   ClaimChains, DeathChains, AwayChains DEF Next, Breaks, JobStep

LEMMA ChainInit == Init => ChainInv
<1> SUFFICES ASSUME Init PROVE ChainInv
  OBVIOUS
<1>1. ActiveOfKind("refresh") = {} /\ Waiting("refresh") = {} /\ Holdings("refresh") = {}
      /\ Enqueuers = {} /\ Finishing("refresh") = {}
  BY QueueAssumption, LifecycleAssumption, KindsUsed
     DEF Init, Waiting, Holdings, Enqueuers, Finishing, ActiveOfKind, Active, At, NoJob
<1>2. crashes = 0 /\ overtakes = 0 /\ Cardinality(Workers) \in Nat
  BY LifecycleAssumption, FS_CardinalityType DEF Init
<1>3. Tally("refresh") /\ Budget
  BY <1>1, <1>2, FS_EmptySet DEF Tally, Finite, Chances, Budget
<1>4. ApiApart /\ \A w \in Workers : AtWork(w)
  BY KindsUsed, QueueAssumption DEF Init, ApiApart, AtWork
<1> QED
  BY <1>3, <1>4, ChainParts

LEMMA ChainInvariant == Spec => []ChainInv
<1>1. ChainInv /\ UNCHANGED vars => ChainInv'
  BY DEF vars, queueVars, workerVars, ChainInv, AtWork, Kind, Tally, Finite, Chances, ActiveOfKind,
         Active, Waiting, Held, Holdings, Enqueuers, Finishing, At
<1>2. TypeOK /\ TypeOK' /\ ChainInv /\ [Next]_vars => ChainInv'
  BY <1>1, ChainStep
<1> QED
  BY <1>2, ChainInit, TypeCorrect, PTL DEF Spec

\* However many workers poll a deployment, with batches of any size and through all
\* retries, their refresh jobs are at most one for each worker, each crash, each job
\* taken from a slow worker, and each worker about to finish one.
THEOREM ChainsAreBounded == Spec => []ChainsBounded
<1>1. TypeOK /\ ChainInv => ChainsBounded
  <2> SUFFICES ASSUME TypeOK, ChainInv PROVE ChainsBounded
    OBVIOUS
  <2>1. Finite("refresh") /\ Budget
    BY ChainParts DEF Tally
  <2>2. /\ Cardinality(Enqueuers) \in Nat /\ Cardinality(Finishing("refresh")) \in Nat
        /\ Cardinality(Workers) \in Nat
    BY LifecycleAssumption, FS_Subset, FS_CardinalityType DEF Finishing, Enqueuers
  <2>3. /\ Cardinality(ActiveOfKind("refresh")) <= Chances("refresh")
        /\ Chances("refresh") \in Nat /\ Cardinality(ActiveOfKind("refresh")) \in Nat
        /\ crashes \in Nat /\ overtakes \in Nat
    BY <2>1, ChancesBound, Sizes, ChainTypes
  <2> QED
    BY <2>1, <2>2, <2>3 DEF Budget, ChainsBounded, Finishing
<1> QED
  BY <1>1, ChainInvariant, TypeCorrect, PTL

-----------------------------------------------------------------------------
(* A step of one worker leaves the others what they have. *)

Idles(v) == Stays(v) /\ Rests(v) /\ todo'[v] = todo[v]

OthersIdle(w) == \A v \in Workers \ {w} : Idles(v)

\* The ways of moving through a job
Moves(w) ==
    \/ UNCHANGED workerVars
    \/ \E step \in Steps : \/ Goto(w, step) \/ GotoWithRow(w, step)
                           \/ \E a : Answered(w, step, a)
                           \/ \E j : Take(w, j, step)
    \/ Forget(w)

LEMMA MovesAlone ==
    ASSUME WorkerTypeOK, NEW w \in Workers, Moves(w), NEW v \in Workers \ {w}
    PROVE  pc'[v] = pc[v] /\ cur'[v] = cur[v] /\ Rests(v) /\ todo'[v] = todo[v]
<1>1. CASE UNCHANGED workerVars
  BY <1>1 DEF workerVars, Rests
<1>2. CASE \E step : Goto(w, step)
  BY <1>2 DEF WorkerTypeOK, Goto, Rests
<1>3. CASE \E step : GotoWithRow(w, step)
  BY <1>3 DEF WorkerTypeOK, GotoWithRow, Rests
<1>4. CASE \E step : \E a : Answered(w, step, a)
  BY <1>4 DEF WorkerTypeOK, Answered, Rests
<1>5. CASE \E step : \E j : Take(w, j, step)
  BY <1>5 DEF WorkerTypeOK, Take, Rests
<1>6. CASE Forget(w)
  BY <1>6 DEF WorkerTypeOK, Forget, Rests
<1> QED
  BY <1>1, <1>2, <1>3, <1>4, <1>5, <1>6 DEF Moves

LEMMA JobMoves ==
    ASSUME TypeOK, NEW w \in Workers, JobStep(w)
    PROVE  Moves(w)
<1>1. CASE Begin(w)
  <2>1. \E j \in JobIds, step \in Steps : Take(w, j, step)
    BY <1>1 DEF Begin, BeginProvision, BeginRefresh, BeginDestroy, FailedStep, Steps
  <2> QED
    BY <2>1 DEF Moves
<1>2. CASE Create(w)
  BY <1>2 DEF Create, Moves, Steps
<1>3. CASE Poll(w)
  BY <1>3 DEF Poll, AskProvider, Moves, Steps
<1>4. CASE Apply(w)
  BY <1>4, AfterApplyType DEF Apply, Moves
<1>5. CASE \/ Record(w) \/ Track(w) \/ Successor(w) \/ ExpireSession(w) \/ ReadyFlag(w)
           \/ ReadySend(w) \/ EndFlag(w) \/ EndSend(w) \/ Destroy(w) \/ Untrack(w) \/ Close(w)
           \/ Enqueue(w)
  <2>1. UNCHANGED workerVars \/ \E step \in Steps : Goto(w, step) \/ GotoWithRow(w, step)
    BY <1>5 DEF Record, Track, Successor, ExpireSession, ReadyFlag, ReadySend, EndFlag, EndSend,
                Destroy, AfterDestroyError, Untrack, Close, Enqueue, Steps
  <2> QED
    BY <2>1 DEF Moves
<1>6. CASE Finish(w) \/ Retry(w)
  BY <1>6 DEF Finish, Retry, Moves
<1> QED
  BY <1>1, <1>2, <1>3, <1>4, <1>5, <1>6 DEF JobStep

\* What a step of worker w may do to the queue
LEMMA QueueAlone ==
    ASSUME TypeOK, NEW w \in Workers, NEW v \in Workers \ {w},
           \/ UNCHANGED queueVars
           \/ \E k \in Kinds : EnqueueCheck(w, k) \/ EnqueueAlways(k)
           \/ EnqueueInsert(w)
           \/ Claim(w)
           \/ \E s \in {"done", "failed", "queued"} : Release(w, cur[w], s)
           \/ CrashOf(w)
    PROVE  KindsKept(v) /\ checked'[v] = checked[v]
<1>1. QueueTypeOK /\ checked \in [Clients -> Kinds \cup {NoKind}] /\ v \in Clients /\ w \in Clients
  BY ChainTypes
<1>2. CASE UNCHANGED queueVars
  BY <1>2 DEF queueVars, KindsKept
<1>3. CASE \E k \in Kinds : EnqueueCheck(w, k)
  BY <1>1, <1>3 DEF EnqueueCheck, KindsKept
<1>4. CASE \E k \in Kinds : EnqueueAlways(k)
  BY <1>1, <1>4, InsertKeepsKinds DEF EnqueueAlways
<1>5. CASE EnqueueInsert(w)
  <2>1. /\ checked[w] \in Kinds /\ Insert(checked[w]) /\ held' = held
        /\ checked' = [checked EXCEPT ![w] = NoKind]
    BY <1>1, <1>5 DEF EnqueueInsert
  <2> QED
    BY <1>1, <2>1, InsertKeepsKinds
<1>6. CASE Claim(w)
  BY <1>1, <1>6, ClaimKeepsKinds DEF Claim, ClaimBatch
<1>7. CASE \E s \in {"done", "failed", "queued"} : Release(w, cur[w], s)
  <2>1. PICK s \in {"done", "failed", "queued"} : Release(w, cur[w], s)
    BY <1>7
  <2>2. cur[w] \in JobIds /\ checked' = checked
    BY <1>1, <2>1, HeldIsRow DEF Release
  <2> QED
    BY <1>1, <2>1, <2>2, ReleaseKeepsKinds
<1>8. CASE CrashOf(w)
  BY <1>1, <1>8 DEF CrashOf, CrashWorker, Raise, Lapse, KindsKept, QueueTypeOK
<1> QED
  BY <1>2, <1>3, <1>4, <1>5, <1>6, <1>7, <1>8

LEMMA JobQueueUse ==
    ASSUME TypeOK, NEW w \in Workers, JobStep(w)
    PROVE  \/ UNCHANGED queueVars
           \/ \E k \in Kinds : EnqueueCheck(w, k) \/ EnqueueAlways(k)
           \/ EnqueueInsert(w)
           \/ /\ Finish(w) \/ Retry(w)
              /\ \E s \in {"done", "failed", "queued"} : Release(w, cur[w], s)
<1>1. CASE Begin(w)
  BY <1>1 DEF Begin, BeginProvision, BeginRefresh, BeginDestroy, Take, OnlyWorker
<1>2. CASE \/ Create(w) \/ Poll(w) \/ Destroy(w) \/ Record(w) \/ Apply(w) \/ ExpireSession(w)
           \/ ReadyFlag(w) \/ EndFlag(w) \/ Close(w) \/ Track(w) \/ Untrack(w) \/ ReadySend(w)
           \/ EndSend(w)
  BY <1>2 DEF Create, Poll, AskProvider, Destroy, OnlyExternal, Record, Apply, ExpireSession,
              ReadyFlag, EndFlag,
              Close, OnlyRow, Track, Untrack, ReadySend, EndSend
<1>3. CASE Successor(w) \/ Enqueue(w)
  BY <1>3, KindsUsed DEF Successor, Enqueue
<1>4. CASE Finish(w) \/ Retry(w)
  BY <1>4 DEF Finish, Retry, MarkDone, Reschedule, FailJob
<1> QED
  BY <1>1, <1>2, <1>3, <1>4 DEF JobStep

LEMMA StepAlone ==
    ASSUME TypeOK, NEW w \in Workers,
           JobStep(w) \/ ClaimJobs(w) \/ Reconcile(w) \/ Breaks(w)
    PROVE  OthersIdle(w)
<1> SUFFICES ASSUME NEW v \in Workers \ {w} PROVE Idles(v)
  BY DEF OthersIdle
<1>1. WorkerTypeOK
  BY TypeParts
<1>2. pc'[v] = pc[v] /\ cur'[v] = cur[v] /\ Rests(v) /\ todo'[v] = todo[v]
  <2>1. CASE JobStep(w) \/ ClaimJobs(w) \/ Breaks(w)
    BY <1>1, <2>1, JobMoves, MovesAlone
       DEF ClaimJobs, Breaks, WorkerDies, HandlerRaises, Moves, Steps
  <2>2. CASE Reconcile(w)
    BY <1>1, <2>2 DEF Reconcile, ReconcileRead, ReconcileLedger, ReconcileEnqueue, workerVars,
                      WorkerTypeOK, Rests
  <2> QED
    BY <2>1, <2>2
<1>3. KindsKept(v) /\ checked'[v] = checked[v]
  <2>1. CASE JobStep(w)
    BY <2>1, JobQueueUse, QueueAlone
  <2>2. CASE ClaimJobs(w) \/ Breaks(w)
    BY <1>1, <2>2, QueueAlone, BreaksMoves DEF ClaimJobs
  <2>3. CASE Reconcile(w)
    <3>1. \/ UNCHANGED queueVars \/ EnqueueInsert(w)
          \/ \E k \in todo[w] \ {"ledger"} : EnqueueCheck(w, k)
      BY <2>3 DEF Reconcile, ReconcileRead, ReconcileLedger, ReconcileEnqueue, OnlyWorker
    <3>2. todo[w] \ {"ledger"} \subseteq Kinds
      BY <1>1 DEF WorkerTypeOK
    <3> QED
      BY <3>1, <3>2, QueueAlone
  <2> QED
    BY <2>1, <2>2, <2>3
<1> QED
  BY <1>2, <1>3 DEF Idles, Stays

Away ==
    \/ \E h \in Handlers : ApiReads(h) \/ ApiCommits(h) \/ ApiEnqueues(h)
    \/ ApiDies \/ Expire \/ Vanish

LEMMA AwayAlone ==
    ASSUME TypeOK, Away
    PROVE  \A v \in Workers : Idles(v)
<1>1. UNCHANGED workerVars
  BY DEF Away, ApiReads, ApiOnly, ApiCommits, ApiEnqueues, ApiDies, Expire, Vanish
<1>2. \A v \in Workers : KindsKept(v) /\ checked'[v] = checked[v]
  <2>1. CASE UNCHANGED queueVars
    BY <2>1 DEF queueVars, KindsKept
  <2>2. CASE ApiDies
    BY <2>2, ChainTypes DEF ApiDies, CrashApi, Lapse, KindsKept
  <2>3. CASE \E h \in Handlers : ApiEnqueues(h)
    <3>1. PICK h \in Handlers : ApiEnqueues(h)
      BY <2>3
    <3>2. QueueTypeOK /\ checked \in [Clients -> Kinds \cup {NoKind}] /\ h \in Clients
          /\ h \notin Workers
      BY ChainTypes, KindsUsed
    <3>3. CASE EnqueueCheck(h, ApiWanted(h))
      BY <3>2, <3>3, ChainTypes DEF EnqueueCheck, KindsKept
    <3>4. CASE EnqueueInsert(h)
      <4>1. /\ checked[h] \in Kinds /\ Insert(checked[h]) /\ held' = held
            /\ checked' = [checked EXCEPT ![h] = NoKind]
        BY <3>2, <3>4 DEF EnqueueInsert
      <4> QED
        BY <3>2, <4>1, ChainTypes, InsertKeepsKinds
    <3> QED
      BY <2>1, <3>1, <3>3, <3>4 DEF ApiEnqueues
  <2> QED
    BY <2>1, <2>2, <2>3 DEF Away, ApiReads, ApiOnly, ApiCommits, Expire, Vanish, OnlyExternal
<1> QED
  BY <1>1, <1>2 DEF Idles, Stays, Rests, workerVars

-----------------------------------------------------------------------------
(* The session is queued until a droplet is recorded or it ends. *)

EarlyState ==
    /\ dep.inst = None
    /\ Found("provision")
    /\ \A j \in JobIds : Active(j) \/ Held(j) => jobs[j].kind = "provision"
    /\ \A c \in Clients : checked[c] = NoKind
    /\ \A h \in Handlers : api[h] # "enqueue"
    /\ \A w \in Workers : /\ pc[w] \in {"idle", "reconcile", "create", "record", "retry"}
                          /\ todo[w] \subseteq {"provision", "ledger"}

\* Nobody polls or applies the answer of a poll to a queued session.
PollsLate(w) ==
    /\ At(w, "poll") => snap[w].status # "queued"
    /\ At(w, "apply") => ans[w].status # "queued"

LEMMA EarlyParts ==
    /\ EarlyInv <=> (dep.status = "queued" => EarlyState) /\ \A w \in Workers : PollsLate(w)
    /\ EarlyInv' <=> (dep'.status = "queued" => EarlyState') /\ \A w \in Workers : PollsLate(w)'
BY DEF EarlyInv, EarlyState, PollsLate

LEMMA RowKeepsStatus ==
    ASSUME NEW r \in Rows
    PROVE  /\ [r EXCEPT !.told = TRUE].status = r.status
           /\ [r EXCEPT !.ended = TRUE].status = r.status
           /\ \A s : [r EXCEPT !.status = s].status = s
           /\ \A s : [r EXCEPT !.status = s, !.closed = TRUE].status = s
BY DEF Rows

\* No step takes a session back to queued.
LEMMA NeverQueued ==
    ASSUME TypeOK, \A w \in Workers : PollsLate(w), Next, dep'.status = "queued"
    PROVE  dep.status = "queued"
<1>1. dep \in Rows
  BY TypeParts DEF RowTypeOK
<1>2. CASE UNCHANGED dep
  BY <1>2
<1>3. CASE \E w \in Workers : Record(w)
  <2>1. PICK w \in Workers : Record(w)
    BY <1>3
  <2>2. ApplyProviderData(dep, ans[w]) \in Rows
    BY <1>1, TypeParts DEF ApplyProviderData, Rows, WorkerTypeOK, Answers
  <2>3. \/ dep' = dep
        \/ dep' = [ApplyProviderData(dep, ans[w]) EXCEPT !.status = "initializing"]
    BY <2>1 DEF Record, rowVars
  <2>4. [ApplyProviderData(dep, ans[w]) EXCEPT !.status = "initializing"].status = "initializing"
    BY <2>2 DEF Rows
  <2> QED
    BY <2>3, <2>4
<1>4. CASE \E w \in Workers : Apply(w)
  <2>1. PICK w \in Workers : Apply(w)
    BY <1>4
  <2>2. ApplyProviderPatch(dep, ans[w]) \in Rows
    BY <1>1, TypeParts DEF ApplyProviderPatch, Rows, WorkerTypeOK, Answers
  <2>3. dep'.status = ans[w].status /\ At(w, "apply")
    BY <2>1, <2>2, RowKeepsStatus DEF Apply
  <2> QED
    BY <2>3 DEF PollsLate
<1>5. CASE \E w \in Workers : ExpireSession(w) \/ ReadyFlag(w) \/ EndFlag(w) \/ Close(w) \/ Retry(w)
  <2>1. PICK w \in Workers :
          ExpireSession(w) \/ ReadyFlag(w) \/ EndFlag(w) \/ Close(w) \/ Retry(w)
    BY <1>5
  <2>2. CASE ExpireSession(w)
    BY <1>1, <2>2, RowKeepsStatus DEF ExpireSession
  <2>3. CASE ReadyFlag(w) \/ EndFlag(w)
    BY <1>1, <2>3, RowKeepsStatus DEF ReadyFlag, EndFlag
  <2>4. CASE Close(w)
    BY <1>1, <2>4, RowKeepsStatus DEF Close, Final
  <2>5. CASE Retry(w)
    BY <1>1, <1>2, <2>5 DEF Retry, Rows
  <2> QED
    BY <2>1, <2>2, <2>3, <2>4, <2>5
<1>6. CASE \E w \in Workers :
             \/ Begin(w) \/ Create(w) \/ Track(w) \/ Poll(w) \/ Successor(w) \/ ReadySend(w)
             \/ EndSend(w) \/ Destroy(w) \/ Untrack(w) \/ Enqueue(w) \/ Finish(w)
  <2>1. CASE \E w \in Workers : Begin(w)
    BY <1>2, <2>1 DEF Begin, BeginProvision, BeginRefresh, BeginDestroy, Take, OnlyWorker, rowVars
  <2> QED
    BY <1>2, <1>6, <2>1
       DEF Create, Track, Poll, AskProvider, Successor, ReadySend, EndSend, Destroy, Untrack,
           Enqueue,
           Finish, OnlyExternal, rowVars
<1>7. CASE \E w \in Workers : ClaimJobs(w) \/ Reconcile(w) \/ Breaks(w)
  BY <1>2, <1>7 DEF ClaimJobs, Reconcile, ReconcileRead, ReconcileLedger, ReconcileEnqueue,
                    Breaks, WorkerDies, HandlerRaises, OnlyWorker, rowVars
<1>8. CASE Away
  BY <1>1, <1>2, <1>8, RowKeepsStatus
     DEF Away, ApiReads, ApiCommits, ApiEnqueues, ApiDies, ApiOnly, Expire, Vanish, OnlyExternal,
         rowVars
<1> QED
  BY <1>3, <1>4, <1>5, <1>6, <1>7, <1>8 DEF Next, Breaks, JobStep, Away

-----------------------------------------------------------------------------
(* What each kind of step does to the worker, the row and the droplets *)

\* The provider makes no droplet and takes back no error.
NoneUp ==
    /\ \A d \in Droplets : cloud'[d] = "up" => cloud[d] = "up"
    /\ orphaned \subseteq orphaned'

LEMMA StillNoneUp == ASSUME UNCHANGED <<cloud, orphaned>> PROVE NoneUp
BY DEF NoneUp

\* The handlers after process_provision's call, and the other handlers
Later(w) ==
    \/ Poll(w) \/ Apply(w) \/ Successor(w) \/ ExpireSession(w)
    \/ ReadyFlag(w) \/ ReadySend(w) \/ EndFlag(w) \/ EndSend(w)
    \/ Destroy(w) \/ Untrack(w) \/ Close(w) \/ Enqueue(w)

LEMMA BeginEffect ==
    ASSUME TypeOK, NEW w \in Workers, Begin(w)
    PROVE  /\ UNCHANGED <<queueVars, dep, past, asked, cloud, orphaned>>
           /\ pc[w] = "idle" /\ ans'[w] = ans[w] /\ todo'[w] = todo[w]
           /\ cur'[w] \in held[w] /\ cur'[w] \in JobIds
           /\ pc'[w] \notin {"idle", "reconcile", "track", "apply"}
           /\ pc'[w] \in {"create", "record"} =>
                InSession /\ jobs[cur'[w]].kind = "provision"
           /\ pc'[w] = "create" => dep.inst = None
           /\ pc'[w] = "record" => dep.inst # None
           /\ jobs[cur'[w]].kind = "provision" /\ pc'[w] \notin {"create", "record"} =>
                pc'[w] = "finish" /\ ~InSession
           /\ pc'[w] = "poll" => snap'[w] = dep
<1>1. WorkerTypeOK
  BY TypeParts
<1>2. PICK j \in JobIds : BeginProvision(w, j) \/ BeginRefresh(w, j) \/ BeginDestroy(w, j)
  BY DEF Begin
<1>3. ASSUME NEW step, Take(w, j, step)
      PROVE  /\ UNCHANGED <<queueVars, dep, past, asked, cloud, orphaned>>
             /\ pc[w] = "idle" /\ ans'[w] = ans[w] /\ todo'[w] = todo[w]
             /\ cur'[w] = j /\ j \in held[w] /\ pc'[w] = step
             /\ step \notin DataDone => snap'[w] = dep
  BY <1>1, <1>3 DEF Take, OnlyWorker, rowVars, extVars, WorkerTypeOK, At
<1>4. CASE BeginProvision(w, j)
  <2>1. jobs[j].kind = "provision"
    BY <1>4 DEF BeginProvision
  <2>2. CASE ~InSession /\ Take(w, j, "finish")
    BY <1>3, <2>1, <2>2
  <2>3. CASE InSession /\ HasDroplet(dep) /\ Take(w, j, "record")
    BY <1>3, <2>1, <2>3 DEF HasDroplet
  <2>4. CASE InSession /\ ~HasDroplet(dep) /\ Take(w, j, "create")
    BY <1>3, <2>1, <2>4 DEF HasDroplet
  <2> QED
    BY <1>4, <2>2, <2>3, <2>4 DEF BeginProvision
<1>5. CASE BeginRefresh(w, j) \/ BeginDestroy(w, j)
  <2>1. \E step \in {"finish", "flag", "destroy", "expire", "poll"} : Take(w, j, step)
    BY <1>5 DEF BeginRefresh, BeginDestroy, FailedStep
  <2>2. jobs[j].kind # "provision"
    BY <1>5 DEF BeginRefresh, BeginDestroy
  <2>3. PICK step \in {"finish", "flag", "destroy", "expire", "poll"} : Take(w, j, step)
    BY <2>1
  <2> QED
    BY <1>3, <2>2, <2>3 DEF DataDone
<1> QED
  BY <1>2, <1>4, <1>5

LEMMA SameJob ==
    ASSUME NEW w, NEW step
    PROVE  Goto(w, step) \/ GotoWithRow(w, step) \/ (\E a : Answered(w, step, a)) =>
             cur' = cur /\ todo' = todo
BY DEF Goto, GotoWithRow, Answered

\* A poll's answer names no droplet, and finds nothing queued that was not.
LEMMA PollAnswer ==
    ASSUME NEW w \in Workers, Poll(w)
    PROVE  \/ Goto(w, "retry")
           \/ \E a : /\ Answered(w, "apply", a) /\ a.inst = None
                     /\ snap[w].status # "queued" => a.status # "queued"
<1>1. ASSUME NEW s, Answered(w, "apply", [NoAnswer EXCEPT !.status = s]),
             s = "queued" => s = snap[w].status
      PROVE  \E a : /\ Answered(w, "apply", a) /\ a.inst = None
                    /\ snap[w].status # "queued" => a.status # "queued"
  BY <1>1 DEF NoAnswer
<1>2. ASSUME NEW s, NEW rec, NEW b, s # "queued",
             Answered(w, "apply", [status |-> s, inst |-> None, ip |-> TRUE, rec |-> rec,
                                   timing |-> b])
      PROVE  \E a : /\ Answered(w, "apply", a) /\ a.inst = None
                    /\ snap[w].status # "queued" => a.status # "queued"
  BY <1>2
<1>3. \A base \in {"initializing", "deploying"} : "queued" \notin PolledStatus(w, base)
  BY DEF PolledStatus
<1>4. \/ Goto(w, "retry")
      \/ \E s \in {"failed", "terminated", snap[w].status} \cup PolledStatus(w, "initializing") :
           Answered(w, "apply", [NoAnswer EXCEPT !.status = s])
      \/ \E base \in {"initializing", "deploying"}, rec \in Records \cup {None} :
           \E s \in PolledStatus(w, base) :
             Answered(w, "apply", [status |-> s, inst |-> None, ip |-> TRUE, rec |-> rec,
                                   timing |-> base = "deploying"])
  BY DEF Poll, AskProvider
<1>5. CASE \E s \in {"failed", "terminated", snap[w].status} \cup PolledStatus(w, "initializing") :
             Answered(w, "apply", [NoAnswer EXCEPT !.status = s])
  BY <1>1, <1>3, <1>5
<1>6. CASE \E base \in {"initializing", "deploying"}, rec \in Records \cup {None} :
           \E s \in PolledStatus(w, base) :
             Answered(w, "apply", [status |-> s, inst |-> None, ip |-> TRUE, rec |-> rec,
                                   timing |-> base = "deploying"])
  BY <1>2, <1>3, <1>6
<1> QED
  BY <1>4, <1>5, <1>6

LEMMA LaterPlace ==
    ASSUME TypeOK, NEW w \in Workers, Later(w)
    PROVE  /\ pc[w] \notin {"idle", "reconcile", "create", "record", "track", "finish", "retry"}
           /\ pc'[w] \notin {"idle", "reconcile", "create", "record", "track", "poll"}
           /\ pc'[w] = "apply" => pc[w] = "poll"
           /\ ans'[w].inst \in {None, ans[w].inst}
           /\ todo'[w] = todo[w] /\ cur'[w] = cur[w]
<1>1. WorkerTypeOK /\ NoAnswer.inst = None
  BY TypeParts DEF NoAnswer
<1>2. CASE Poll(w)
  <2>1. pc[w] = "poll"
    BY <1>2 DEF Poll, AskProvider, At
  <2>2. Goto(w, "retry") \/ \E a : Answered(w, "apply", a) /\ a.inst = None
    BY <1>2, PollAnswer
  <2>3. CASE Goto(w, "retry")
    BY <1>1, <2>1, <2>3, GotoEffect, SameJob DEF DataDone
  <2>4. CASE \E a : Answered(w, "apply", a) /\ a.inst = None
    <3>1. PICK a : Answered(w, "apply", a) /\ a.inst = None
      BY <2>4
    <3>2. pc'[w] = "apply" /\ ans'[w] = a /\ cur' = cur /\ todo' = todo
      BY <1>1, <3>1, AnsweredEffect, SameJob
    <3> QED
      BY <2>1, <3>1, <3>2
  <2> QED
    BY <2>2, <2>3, <2>4
<1>3. CASE Apply(w)
  <2>1. pc[w] = "apply" /\ GotoWithRow(w, AfterApply(dep'))
    BY <1>3 DEF Apply, At
  <2>2. AfterApply(dep') \in {"finish", "ready_flag", "flag", "destroy", "successor"}
    BY DEF AfterApply, FailedStep
  <2> QED
    BY <1>1, <2>1, <2>2, GotoWithRowEffect, SameJob
<1>4. CASE \/ Successor(w) \/ ExpireSession(w) \/ ReadyFlag(w) \/ ReadySend(w) \/ EndFlag(w)
           \/ EndSend(w) \/ Destroy(w) \/ Untrack(w) \/ Close(w) \/ Enqueue(w)
  <2>1. pc[w] \in {"successor", "expire", "ready_flag", "ready_send", "flag", "send", "destroy",
                   "untrack", "close", "enqueue"}
    BY <1>4 DEF Successor, ExpireSession, ReadyFlag, ReadySend, EndFlag, EndSend, Destroy, Untrack,
                Close, Enqueue, At
  <2>2. \/ UNCHANGED workerVars
        \/ \E step \in {"finish", "enqueue", "ready_send", "send", "destroy", "untrack", "retry",
                        "close", "flag"} : Goto(w, step) \/ GotoWithRow(w, step)
    BY <1>4 DEF Successor, ExpireSession, ReadyFlag, ReadySend, EndFlag, EndSend, Destroy,
                AfterDestroyError, Untrack, Close, Enqueue
  <2>3. CASE UNCHANGED workerVars
    BY <2>1, <2>3 DEF workerVars
  <2>4. CASE \E step \in {"finish", "enqueue", "ready_send", "send", "destroy", "untrack", "retry",
                          "close", "flag"} : Goto(w, step)
    BY <1>1, <2>1, <2>4, GotoEffect, SameJob
  <2>5. CASE \E step \in {"finish", "enqueue", "ready_send", "send", "destroy", "untrack", "retry",
                          "close", "flag"} : GotoWithRow(w, step)
    BY <1>1, <2>1, <2>5, GotoWithRowEffect, SameJob
  <2> QED
    BY <2>2, <2>3, <2>4, <2>5
<1> QED
  BY <1>2, <1>3, <1>4 DEF Later

LEMMA LaterRow ==
    ASSUME TypeOK, NEW w \in Workers, Later(w)
    PROVE  dep'.inst = dep.inst /\ NoneUp /\ UNCHANGED <<crashes, overtakes>>
<1>1. ExtTypeOK /\ dep \in Rows
  BY TypeParts DEF RowTypeOK
<1>2. dep'.inst = dep.inst
  BY <1>1 DEF Later, Poll, AskProvider, Apply, ApplyProviderPatch, Successor, ExpireSession,
              ReadyFlag, ReadySend,
              EndFlag, EndSend, Destroy, Untrack, Close, Enqueue, OnlyExternal, rowVars, Rows
<1>3. NoneUp
  <2>1. CASE Poll(w)
    BY <2>1 DEF Poll, AskProvider, Publish, PublishLost, NoneUp, extVars
  <2>2. CASE Destroy(w)
    <3>1. (\E x : DeleteDroplets(x)) /\ orphaned' = orphaned
      BY <2>2 DEF Destroy
    <3> QED
      BY <3>1 DEF DeleteDroplets, NoneUp
  <2> QED
    BY <2>1, <2>2, StillNoneUp
       DEF Later, Apply, Successor, ExpireSession, ReadyFlag, ReadySend, EndFlag, EndSend, Untrack,
           Close, Enqueue, OnlyRow, extVars
<1>4. UNCHANGED <<crashes, overtakes>>
  BY DEF Later, Poll, AskProvider, Apply, Successor, ExpireSession, ReadyFlag, ReadySend, EndFlag,
         EndSend,
         Destroy, Untrack, Close, Enqueue, OnlyExternal, OnlyRow, queueVars, EnqueueAlways,
         EnqueueCheck, EnqueueInsert
<1> QED
  BY <1>2, <1>3, <1>4

LEMMA CreateEffect ==
    ASSUME TypeOK, NEW w \in Workers, Create(w)
    PROVE  /\ UNCHANGED <<queueVars, dep>> /\ orphaned \subseteq orphaned'
           /\ pc[w] = "create" /\ todo'[w] = todo[w] /\ cur'[w] = cur[w]
           /\ \/ /\ pc'[w] = "record" /\ ans'[w].inst \in Droplets
                 /\ cloud[ans'[w].inst] = "absent" /\ cloud'[ans'[w].inst] = "up"
                 /\ \A e \in Droplets \ {ans'[w].inst} : cloud'[e] = cloud[e]
              \/ /\ pc'[w] = "retry" /\ ans'[w] = NoAnswer
                 /\ \A e \in Droplets : cloud'[e] = "up" => cloud[e] = "up" \/ e \in orphaned'
<1>1. WorkerTypeOK /\ ExtTypeOK
  BY TypeParts
<1>2. UNCHANGED <<queueVars, dep>> /\ orphaned \subseteq orphaned' /\ pc[w] = "create"
  BY DEF Create, OnlyExternal, rowVars, At
<1>3. CASE Goto(w, "retry")
  <2>1. pc'[w] = "retry" /\ ans'[w] = NoAnswer /\ todo' = todo /\ cur' = cur
    BY <1>1, <1>3, GotoEffect, SameJob DEF DataDone
  <2>2. \A e \in Droplets : cloud'[e] = "up" => cloud[e] = "up" \/ e \in orphaned'
    <3>1. CASE cloud' = cloud
      BY <3>1
    <3>2. CASE \E d \in Droplets : NewDroplet(d) /\ orphaned' = orphaned \cup {d}
      BY <1>1, <3>2 DEF NewDroplet, ExtTypeOK
    <3>3. \A a : ~Answered(w, "record", a)
      BY <1>1, <2>1, AnsweredEffect
    <3> QED
      BY <3>1, <3>2, <3>3 DEF Create
  <2> QED
    BY <1>2, <2>1, <2>2
<1>4. CASE \E d \in Droplets : NewDroplet(d) /\ Answered(w, "record", Provisioned(d))
  <2>1. PICK d \in Droplets : NewDroplet(d) /\ Answered(w, "record", Provisioned(d))
    BY <1>4
  <2>2. /\ pc'[w] = "record" /\ ans'[w] = Provisioned(d) /\ todo' = todo /\ cur' = cur
    BY <1>1, <2>1, AnsweredEffect, SameJob
  <2>3. ans'[w].inst = d
    BY <2>2 DEF Provisioned, NoAnswer
  <2>4. /\ cloud[d] = "absent" /\ cloud'[d] = "up"
        /\ \A e \in Droplets : e # d => cloud'[e] = cloud[e]
    BY <1>1, <2>1 DEF NewDroplet, ExtTypeOK
  <2> QED
    BY <1>2, <2>2, <2>3, <2>4
<1> QED
  BY <1>3, <1>4 DEF Create

LEMMA RecordEffect ==
    ASSUME TypeOK, NEW w \in Workers, Record(w)
    PROVE  /\ UNCHANGED <<queueVars, cloud, orphaned>>
           /\ pc[w] = "record" /\ todo'[w] = todo[w] /\ cur'[w] = cur[w]
           /\ \/ ~InSession /\ dep' = dep /\ pc'[w] = "finish" /\ ans'[w] = NoAnswer
              \/ /\ InSession /\ pc'[w] = "track" /\ ans'[w] = ans[w]
                 /\ dep'.inst = IF ans[w].inst = None THEN dep.inst ELSE ans[w].inst
                 /\ dep'.status = "initializing"
<1>1. WorkerTypeOK /\ dep \in Rows /\ ans[w] \in Answers
  BY Sole
<1>2. UNCHANGED <<queueVars, cloud, orphaned>> /\ pc[w] = "record"
  BY DEF Record, OnlyRow, extVars, At
<1>3. CASE ~InSession /\ Goto(w, "finish") /\ UNCHANGED rowVars
  BY <1>1, <1>2, <1>3, GotoEffect, SameJob DEF DataDone, rowVars
<1>4. CASE /\ InSession /\ Goto(w, "track")
           /\ dep' = [ApplyProviderData(dep, ans[w]) EXCEPT !.status = "initializing"]
  <2>1. pc'[w] = "track" /\ ans'[w] = ans[w] /\ todo' = todo /\ cur' = cur
    BY <1>1, <1>4, GotoEffect, SameJob DEF DataDone
  <2>2. /\ dep'.inst = IF ans[w].inst = None THEN dep.inst ELSE ans[w].inst
        /\ dep'.status = "initializing"
    BY <1>1, <1>4 DEF ApplyProviderData, Rows, Answers
  <2> QED
    BY <1>2, <1>4, <2>1, <2>2
<1> QED
  BY <1>3, <1>4 DEF Record

LEMMA TrackEffect ==
    ASSUME TypeOK, NEW w \in Workers, Track(w)
    PROVE  /\ UNCHANGED <<queueVars, dep, cloud, orphaned>>
           /\ pc[w] = "track" /\ todo'[w] = todo[w] /\ cur'[w] = cur[w]
           /\ pc'[w] = "enqueue" /\ ans'[w] = NoAnswer
<1>1. WorkerTypeOK /\ Goto(w, "enqueue")
  BY TypeParts DEF Track
<1> QED
  BY <1>1, GotoEffect, SameJob DEF Track, DataDone, rowVars, extVars, At

LEMMA EndEffect ==
    ASSUME TypeOK, NEW w \in Workers, Finish(w) \/ Retry(w)
    PROVE  /\ UNCHANGED <<cloud, orphaned, checked, crashes, overtakes>>
           /\ dep'.inst = dep.inst
           /\ pc[w] \in {"finish", "retry"} /\ pc'[w] = "idle" /\ ans'[w] = NoAnswer
           /\ todo'[w] = {}
           /\ cur[w] \in JobIds /\ cur[w] \in held[w]
           /\ \E s \in {"done", "failed", "queued"} :
                /\ Release(w, cur[w], s)
                /\ pc[w] = "finish" => s = "done" /\ dep' = dep
                /\ s = "queued" => dep' = dep
                /\ pc[w] = "retry" /\ s # "queued" /\ Kind(w) = "provision" =>
                     dep'.status = "failed"
<1>1. QueueTypeOK /\ WorkerTypeOK /\ dep \in Rows /\ Forget(w)
  BY TypeParts DEF Finish, Retry, RowTypeOK
<1>2. pc'[w] = "idle" /\ ans'[w] = NoAnswer /\ todo'[w] = {}
  BY <1>1, ForgetEffect DEF Forget, WorkerTypeOK
<1>3. CASE Finish(w)
  <2>1. Release(w, cur[w], "done") /\ UNCHANGED <<dep, cloud, orphaned>> /\ pc[w] = "finish"
    BY <1>3 DEF Finish, MarkDone, rowVars, extVars, At
  <2> QED
    BY <1>1, <1>2, <2>1, HeldIsRow DEF Release
<1>4. CASE Retry(w)
  <2>1. UNCHANGED <<cloud, orphaned>> /\ pc[w] = "retry"
    BY <1>4 DEF Retry, extVars, At
  <2>2. CASE Reschedule(w, cur[w]) /\ UNCHANGED dep
    <3>1. Release(w, cur[w], "queued")
      BY <2>2 DEF Reschedule
    <3> QED
      BY <1>1, <1>2, <2>1, <2>2, <3>1, HeldIsRow DEF Release
  <2>3. CASE /\ FailJob(w, cur[w])
             /\ dep' = [dep EXCEPT !.status = IF FailsDeployment(w) THEN "failed" ELSE @]
    <3>1. Release(w, cur[w], "failed")
      BY <2>3 DEF FailJob
    <3>2. dep'.inst = dep.inst /\ (Kind(w) = "provision" => dep'.status = "failed")
      BY <1>1, <2>3 DEF FailsDeployment, Rows
    <3> QED
      BY <1>1, <1>2, <2>1, <3>1, <3>2, HeldIsRow DEF Release
  <2> QED
    BY <1>4, <2>2, <2>3 DEF Retry
<1> QED
  BY <1>3, <1>4

LEMMA DeathEffect ==
    ASSUME TypeOK, NEW w \in Workers, Breaks(w)
    PROVE  /\ CrashOf(w) /\ UNCHANGED <<dep, cloud, orphaned, jobs, overtakes>>
           /\ pc'[w] \in {"idle", "retry"} /\ ans'[w] = NoAnswer /\ checked'[w] = NoKind
           /\ crashes' = crashes + 1
           /\ todo'[w] \in {todo[w], {}}
           /\ (pc[w] # "reconcile" => todo[w] = {}) => todo'[w] = {}
<1>1. /\ WorkerTypeOK /\ checked \in [Clients -> Kinds \cup {NoKind}] /\ w \in Clients
      /\ QueueTypeOK
  BY TypeParts, ChainTypes
<1>2. CrashOf(w) /\ checked'[w] = NoKind
  BY <1>1, BreaksMoves, CrashOfEffect
<1>3. /\ todo'[w] \in {todo[w], {}}
      /\ (pc[w] # "reconcile" => todo[w] = {}) => todo'[w] = {}
  BY <1>1 DEF Breaks, WorkerDies, HandlerRaises, Forget, Goto, WorkerTypeOK
<1> QED
  BY <1>2, <1>3, BreaksEffect DEF rowVars, extVars

LEMMA ClaimEffect ==
    ASSUME NEW w \in Workers, ClaimJobs(w)
    PROVE  /\ Claim(w) /\ UNCHANGED <<dep, cloud, orphaned, workerVars, checked, crashes>>
           /\ pc[w] = "idle"
BY DEF ClaimJobs, Claim, ClaimBatch, rowVars, extVars, At

\* What reconcile_once may do about a provision job
LEMMA ReconcileEffect ==
    ASSUME TypeOK, NEW w \in Workers, Reconcile(w), pc[w] # "reconcile" => todo[w] = {}
    PROVE  /\ UNCHANGED <<dep, cloud, orphaned, ans, cur, crashes, overtakes, held>>
           /\ pc[w] \in {"idle", "reconcile"} /\ pc'[w] \in {"idle", "reconcile"}
           /\ pc'[w] # "reconcile" => todo'[w] = {}
           /\ dep.status = "queued" /\ todo[w] \subseteq {"provision", "ledger"} =>
                todo'[w] \subseteq {"provision", "ledger"}
           /\ dep.status # "queued" /\ "provision" \in todo'[w] => "provision" \in todo[w]
           /\ \/ /\ UNCHANGED queueVars
                 /\ checked[w] = "provision" /\ "provision" \in todo[w] => "provision" \in todo'[w]
              \/ \E k \in todo[w] \ {"ledger"} : EnqueueCheck(w, k) /\ todo'[w] = todo[w]
              \/ \E k \in todo[w] \ {"ledger"} :
                   checked[w] = k /\ EnqueueInsert(w) /\ todo'[w] = todo[w] \ {k}
<1>1. WorkerTypeOK /\ NoKind # "provision"
  BY TypeParts, LifecycleAssumption, QueueAssumption DEF JobKinds
<1>2. CASE \E old \in Ages : ReconcileRead(w, old)
  <2>1. PICK old \in Ages : ReconcileRead(w, old)
    BY <1>2
  <2>2. /\ UNCHANGED <<dep, cloud, orphaned, ans, cur, queueVars>> /\ pc[w] = "idle"
        /\ pc'[w] = "reconcile" /\ todo'[w] = ReconcilePlan(old)
    BY <1>1, <2>1 DEF ReconcileRead, OnlyWorker, rowVars, extVars, WorkerTypeOK, At
  <2>3. dep.status = "queued" => ReconcilePlan(old) \subseteq {"provision", "ledger"}
    BY DEF ReconcilePlan, RecoverKind
  <2>4. dep.status # "queued" => "provision" \notin ReconcilePlan(old)
    BY DEF ReconcilePlan, RecoverKind
  <2> QED
    BY <2>2, <2>3, <2>4 DEF queueVars
<1>3. CASE ReconcileLedger(w)
  <2>1. /\ UNCHANGED <<dep, cloud, orphaned, ans, cur, queueVars>> /\ pc[w] = "reconcile"
        /\ todo'[w] = (todo[w] \ {"ledger"}) \cup
             (IF dep.status \in {"terminated", "expired"} THEN {"cleanup"} ELSE {})
        /\ pc'[w] = IF todo'[w] = {} THEN "idle" ELSE pc[w]
    BY <1>1, <1>3 DEF ReconcileLedger, OnlyWorker, rowVars, extVars, WorkerTypeOK, At
  <2>2. dep.status = "queued" => todo'[w] = todo[w] \ {"ledger"}
    BY <2>1
  <2>3. "provision" \in todo'[w] <=> "provision" \in todo[w]
    BY <2>1
  <2> QED
    BY <2>1, <2>2, <2>3 DEF queueVars
<1>4. CASE ReconcileEnqueue(w)
  <2>1. PICK k \in todo[w] \ {"ledger"} :
          LET Popped == /\ todo' = [todo EXCEPT ![w] = @ \ {k}]
                        /\ pc' = [pc EXCEPT ![w] = IF todo'[w] = {} THEN "idle" ELSE @]
                        /\ UNCHANGED <<cur, snap, ans>>
          IN
          /\ At(w, "reconcile")
          /\ \/ checked[w] = NoKind /\ Found(k) /\ Popped /\ UNCHANGED queueVars
             \/ EnqueueCheck(w, k) /\ UNCHANGED workerVars
             \/ checked[w] = k /\ EnqueueInsert(w) /\ Popped
          /\ UNCHANGED <<rowVars, extVars, ledger, api, sent>>
    BY <1>4 DEF ReconcileEnqueue
  <2>2. UNCHANGED <<dep, cloud, orphaned>> /\ pc[w] = "reconcile"
    BY <2>1 DEF rowVars, extVars, At
  <2>3. CASE EnqueueCheck(w, k) /\ UNCHANGED workerVars
    BY <2>2, <2>3 DEF workerVars, EnqueueCheck
  <2>4. CASE /\ todo' = [todo EXCEPT ![w] = @ \ {k}]
             /\ pc' = [pc EXCEPT ![w] = IF todo'[w] = {} THEN "idle" ELSE @]
             /\ UNCHANGED <<cur, snap, ans>>
             /\ \/ checked[w] = NoKind /\ UNCHANGED queueVars
                \/ checked[w] = k /\ EnqueueInsert(w)
    <3>1. /\ todo'[w] = todo[w] \ {k}
          /\ pc'[w] = IF todo'[w] = {} THEN "idle" ELSE "reconcile"
      BY <1>1, <2>2, <2>4 DEF WorkerTypeOK
    <3>2. UNCHANGED <<crashes, overtakes, held>>
      BY <2>4 DEF queueVars, EnqueueInsert
    <3>3. \/ UNCHANGED queueVars /\ checked[w] # "provision"
          \/ checked[w] = k /\ EnqueueInsert(w)
      BY <1>1, <2>4
    <3> QED
      BY <2>2, <2>4, <3>1, <3>2, <3>3
  <2> QED
    BY <2>1, <2>3, <2>4
<1> QED
  BY <1>2, <1>3, <1>4 DEF Reconcile

LEMMA AwayEffect ==
    ASSUME TypeOK, Away
    PROVE  /\ UNCHANGED workerVars /\ NoneUp /\ dep'.inst = dep.inst /\ overtakes' = overtakes
           /\ dep' # dep => dep'.status = "terminating" /\ UNCHANGED queueVars
<1>1. dep \in Rows /\ ExtTypeOK
  BY TypeParts DEF RowTypeOK
<1>2. UNCHANGED workerVars
  BY DEF Away, ApiReads, ApiOnly, ApiCommits, ApiEnqueues, ApiDies, Expire, Vanish
<1>3. NoneUp
  <2>1. CASE Vanish
    BY <1>1, <2>1 DEF Vanish, NoneUp, ExtTypeOK
  <2> QED
    BY <2>1, StillNoneUp
       DEF Away, ApiReads, ApiOnly, ApiCommits, ApiEnqueues, ApiDies, Expire, extVars
<1>4. dep'.inst = dep.inst /\ (dep' # dep => dep'.status = "terminating" /\ UNCHANGED queueVars)
  BY <1>1 DEF Away, ApiReads, ApiOnly, ApiCommits, ApiEnqueues, ApiDies, Expire, Vanish,
              OnlyExternal, rowVars, Rows
<1>5. overtakes' = overtakes
  BY DEF Away, ApiReads, ApiOnly, ApiCommits, ApiEnqueues, EnqueueCheck, EnqueueInsert, ApiDies,
         CrashApi, Lapse, Expire, Vanish, OnlyExternal, queueVars
<1> QED
  BY <1>2, <1>3, <1>4, <1>5

-----------------------------------------------------------------------------
(* A queued session *)

LEMMA PollsLateStep ==
    ASSUME TypeOK, EarlyInv, Next
    PROVE  \A w \in Workers : PollsLate(w)'
<1>1. /\ dep.status = "queued" => EarlyState
      /\ \A v \in Workers : PollsLate(v)
  BY EarlyParts
<1>2. ASSUME NEW v \in Workers, Rests(v) PROVE PollsLate(v)'
  BY <1>1, <1>2 DEF PollsLate, Rests, At
<1>3. ASSUME NEW w \in Workers, NEW v \in Workers,
             JobStep(w) \/ ClaimJobs(w) \/ Reconcile(w) \/ Breaks(w)
      PROVE  PollsLate(v)'
  <2>1. CASE v # w
    BY <1>2, <1>3, <2>1, StepAlone DEF OthersIdle, Idles
  <2>2. CASE v = w
    <3>1. CASE Begin(w)
      <4>1. PICK j \in JobIds : BeginProvision(w, j) \/ BeginRefresh(w, j) \/ BeginDestroy(w, j)
        BY <3>1 DEF Begin
      <4>2. j \in held[w]
        BY <4>1 DEF BeginProvision, BeginRefresh, BeginDestroy, Take
      <4>3. CASE dep.status = "queued"
        <5>1. jobs[j].kind = "provision"
          BY <1>1, <4>2, <4>3 DEF EarlyState, Held
        <5>2. BeginProvision(w, j)
          BY <4>1, <5>1 DEF BeginRefresh, BeginDestroy
        <5>3. pc'[w] \in {"finish", "record", "create"}
          BY <5>2, TypeParts, TakeEffect DEF BeginProvision
        <5> QED
          BY <2>2, <5>3 DEF PollsLate, At
      <4>4. CASE dep.status # "queued"
        BY <2>2, <3>1, <4>4, BeginEffect DEF PollsLate, At
      <4> QED
        BY <4>3, <4>4
    <3>2. CASE Poll(w)
      <4>1. WorkerTypeOK /\ pc[w] = "poll"
        BY <3>2, TypeParts DEF Poll, AskProvider, At
      <4>2. CASE Goto(w, "retry")
        BY <2>2, <4>1, <4>2, GotoEffect DEF PollsLate, At
      <4>3. CASE \E a : Answered(w, "apply", a) /\ (snap[w].status # "queued" => a.status # "queued")
        BY <1>1, <2>2, <4>1, <4>3, AnsweredEffect DEF PollsLate, At
      <4> QED
        BY <3>2, <4>2, <4>3, PollAnswer
    <3>3. CASE Later(w) /\ ~Poll(w)
      <4>1. pc[w] = "poll" => Poll(w)
        BY <3>3 DEF Later, Apply, Successor, ExpireSession, ReadyFlag, ReadySend, EndFlag, EndSend,
                    Destroy, Untrack, Close, Enqueue, At
      <4>2. pc'[w] \notin {"poll", "apply"}
        BY <3>3, <4>1, LaterPlace
      <4> QED
        BY <2>2, <4>2 DEF PollsLate, At
    <3>4. CASE Create(w) \/ Record(w) \/ Track(w) \/ Finish(w) \/ Retry(w) \/ Breaks(w)
      <4>1. pc'[w] \notin {"poll", "apply"}
        BY <3>4, CreateEffect, RecordEffect, TrackEffect, EndEffect, DeathEffect
      <4> QED
        BY <2>2, <4>1 DEF PollsLate, At
    <3>5. CASE ClaimJobs(w)
      <4>1. UNCHANGED workerVars
        BY <3>5, ClaimEffect
      <4> QED
        BY <1>2, <4>1 DEF workerVars, Rests
    <3>6. CASE Reconcile(w)
      <4>1. pc'[w] \in {"idle", "reconcile"}
        BY <3>6, TypeParts
           DEF Reconcile, ReconcileRead, ReconcileLedger, ReconcileEnqueue, WorkerTypeOK,
               workerVars,
               At
      <4> QED
        BY <2>2, <4>1 DEF PollsLate, At
    <3> QED
      BY <1>3, <3>1, <3>2, <3>3, <3>4, <3>5, <3>6 DEF JobStep, Later
  <2> QED
    BY <2>1, <2>2
<1>4. CASE Away
  BY <1>2, <1>4, AwayAlone DEF Idles
<1> QED
  BY <1>3, <1>4 DEF Next, Breaks, Away

\* There is nothing but provisioning in the queue.
EarlyQueue ==
    /\ Found("provision")
    /\ \A j \in JobIds : Active(j) \/ Held(j) => jobs[j].kind = "provision"

LEMMA EarlyQueueKeeps ==
    ASSUME QueueTypeOK, EarlyQueue,
           \/ UNCHANGED <<jobs, held>>
           \/ \E w \in Workers : \/ Claim(w) \/ CrashOf(w)
                                 \/ \E j \in JobIds : Release(w, j, "queued")
    PROVE  EarlyQueue'
<1>1. PICK i \in JobIds : Active(i) /\ jobs[i].kind = "provision"
  BY DEF EarlyQueue, Found, ActiveOfKind
<1>2. CASE UNCHANGED <<jobs, held>>
  BY <1>2 DEF EarlyQueue, Found, ActiveOfKind, Active, Held
<1>3. CASE \E w \in Workers : Claim(w)
  <2>1. PICK w \in Workers, batch \in SUBSET Due : ClaimBatch(w, batch)
    BY <1>3 DEF Claim
  <2>2. /\ jobs' = [j \in JobIds |-> IF j \in batch THEN Claimed(jobs[j]) ELSE jobs[j]]
        /\ held' = [held EXCEPT ![w] = batch]
    BY <2>1 DEF ClaimBatch
  <2>3. ASSUME NEW j \in JobIds
        PROVE  /\ jobs'[j].kind = jobs[j].kind
               /\ jobs'[j].status = IF j \in batch THEN "running" ELSE jobs[j].status
    BY <2>2 DEF Claimed, QueueTypeOK, JobRows
  <2>4. \A j \in batch : j \in JobIds /\ Active(j)
    BY DEF Due, Claimable, Active
  <2>5. \A j \in JobIds : Active(j)' <=> Active(j)
    BY <2>3, <2>4 DEF Active
  <2>6. \A j \in JobIds : Held(j)' => Held(j) \/ j \in batch
    BY <2>2 DEF Held, QueueTypeOK
  <2> QED
    BY <1>1, <2>3, <2>4, <2>5, <2>6 DEF EarlyQueue, Found, ActiveOfKind
<1>4. CASE \E w \in Workers : CrashOf(w)
  BY <1>4 DEF CrashOf, CrashWorker, Raise, Lapse, QueueTypeOK, EarlyQueue, Found, ActiveOfKind,
              Active, Held
<1>5. CASE \E w \in Workers : \E j \in JobIds : Release(w, j, "queued")
  <2>1. PICK w \in Workers, j \in JobIds : Release(w, j, "queued")
    BY <1>5
  <2>2. /\ j \in held[w] /\ held' = [held EXCEPT ![w] = @ \ {j}]
        /\ jobs' = [jobs EXCEPT ![j].status = "queued"]
    BY <2>1 DEF Release
  <2>3. jobs[j].kind = "provision"
    BY <2>2 DEF EarlyQueue, Held
  <2>4. \A e \in JobIds : /\ jobs'[e].kind = jobs[e].kind
                          /\ jobs'[e].status = IF e = j THEN "queued" ELSE jobs[e].status
    BY <2>2 DEF QueueTypeOK, JobRows
  <2>5. \A e \in JobIds : Held(e)' => Held(e)
    BY <2>2 DEF Held, QueueTypeOK
  <2>6. ASSUME NEW e \in JobIds, Active(e)' \/ Held(e)' PROVE jobs'[e].kind = "provision"
    BY <2>3, <2>4, <2>5, <2>6 DEF Active, EarlyQueue
  <2>7. Found("provision")'
    BY <2>3, <2>4 DEF Found, ActiveOfKind, Active
  <2> QED
    BY <2>6, <2>7 DEF EarlyQueue
<1> QED
  BY <1>2, <1>3, <1>4, <1>5

LEMMA WorkersLeaveApi ==
    ASSUME NEW w \in Workers, JobStep(w) \/ ClaimJobs(w) \/ Reconcile(w) \/ Breaks(w)
    PROVE  UNCHANGED api
<1>1. CASE Begin(w)
  BY <1>1 DEF Begin, BeginProvision, BeginRefresh, BeginDestroy, Take, OnlyWorker
<1>2. CASE Create(w) \/ Record(w) \/ Track(w) \/ Later(w) \/ Finish(w) \/ Retry(w)
  BY <1>2 DEF Create, Record, Track, Later, Poll, AskProvider, Apply, Successor, ExpireSession,
              ReadyFlag,
              ReadySend, EndFlag, EndSend, Destroy, Untrack, Close, Enqueue, Finish, Retry,
              OnlyExternal, OnlyRow
<1>3. CASE ClaimJobs(w) \/ Reconcile(w) \/ Breaks(w)
  BY <1>3 DEF ClaimJobs, Reconcile, ReconcileRead, ReconcileLedger, ReconcileEnqueue, Breaks,
              WorkerDies, HandlerRaises,
              OnlyWorker
<1> QED
  BY <1>1, <1>2, <1>3 DEF JobStep, Later

LEMMA EarlyWorker ==
    ASSUME NEW w \in Workers, EarlyState, OthersIdle(w), UNCHANGED <<dep, api>>, EarlyQueue',
           \A c \in Clients : checked'[c] = NoKind,
           pc'[w] \in {"idle", "reconcile", "create", "record", "retry"},
           todo'[w] \subseteq {"provision", "ledger"}
    PROVE  EarlyState'
<1>1. \A v \in Workers : /\ pc'[v] \in {"idle", "reconcile", "create", "record", "retry"}
                         /\ todo'[v] \subseteq {"provision", "ledger"}
  BY DEF EarlyState, OthersIdle, Idles, Stays
<1> QED
  BY <1>1 DEF EarlyState, EarlyQueue

\* Nothing but the worker's own provisioning, and reconcile_once, which finds its job, goes
\* on in a queued session.
LEMMA EarlyStateStep ==
    ASSUME TypeOK, EarlyInv, Next, dep'.status = "queued"
    PROVE  EarlyState'
<1>1. dep.status = "queued" /\ EarlyState /\ EarlyQueue
  BY EarlyParts, NeverQueued DEF EarlyState, EarlyQueue
<1>2. /\ QueueTypeOK /\ Handlers \subseteq Clients /\ Workers \subseteq Clients
      /\ checked \in [Clients -> Kinds \cup {NoKind}] /\ NoKind \notin Kinds /\ InSession
  BY <1>1, ChainTypes, KindsUsed, QueueAssumption DEF InSession, ActiveStatuses, Running
<1>3. ASSUME NEW w \in Workers, JobStep(w) \/ ClaimJobs(w) \/ Reconcile(w) \/ Breaks(w)
      PROVE  EarlyState'
  <2>1. OthersIdle(w) /\ api' = api
    BY <1>3, StepAlone, WorkersLeaveApi
  <2>2. pc[w] \in {"idle", "reconcile", "create", "record", "retry"}
        /\ todo[w] \subseteq {"provision", "ledger"}
    BY <1>1 DEF EarlyState
  <2>3. CASE Begin(w)
    <3>1. jobs[cur'[w]].kind = "provision"
      BY <1>1, <2>3, BeginEffect DEF EarlyQueue, Held
    <3>2. pc'[w] \in {"create", "record"} /\ UNCHANGED <<queueVars, dep>> /\ todo'[w] = todo[w]
      BY <1>2, <2>3, <3>1, BeginEffect
    <3>3. EarlyQueue' /\ \A c \in Clients : checked'[c] = NoKind
      BY <1>1, <1>2, <3>2, EarlyQueueKeeps DEF queueVars, EarlyState
    <3> QED
      BY <1>1, <2>1, <2>2, <3>2, <3>3, EarlyWorker
  <2>4. CASE Create(w)
    <3>1. pc'[w] \in {"record", "retry"} /\ UNCHANGED <<queueVars, dep>> /\ todo'[w] = todo[w]
      BY <2>4, CreateEffect
    <3>2. EarlyQueue' /\ \A c \in Clients : checked'[c] = NoKind
      BY <1>1, <1>2, <3>1, EarlyQueueKeeps DEF queueVars, EarlyState
    <3> QED
      BY <1>1, <2>1, <2>2, <3>1, <3>2, EarlyWorker
  <2>5. CASE Record(w) \/ Track(w) \/ Later(w) \/ Finish(w)
    <3>1. ~Track(w) /\ ~Later(w) /\ ~Finish(w)
      BY <2>2, LaterPlace DEF Track, Finish, At
    <3> QED
      BY <1>2, <2>5, <3>1, RecordEffect
  <2>6. CASE Retry(w)
    <3>1. PICK s \in {"done", "failed", "queued"} :
            /\ Release(w, cur[w], s)
            /\ s = "queued" => dep' = dep
            /\ pc[w] = "retry" /\ s # "queued" /\ Kind(w) = "provision" => dep'.status = "failed"
      BY <2>6, EndEffect
    <3>2. Kind(w) = "provision" /\ pc[w] = "retry" /\ cur[w] \in JobIds
      BY <1>1, <2>6, EndEffect DEF EarlyQueue, Held, Kind, Retry, At
    <3>3. s = "queued" /\ dep' = dep
      BY <3>1, <3>2
    <3>4. EarlyQueue'
      BY <1>1, <1>2, <3>1, <3>2, <3>3, EarlyQueueKeeps
    <3>5. /\ pc'[w] = "idle" /\ todo'[w] = {} /\ \A c \in Clients : checked'[c] = NoKind
      BY <1>1, <2>6, EndEffect DEF EarlyState
    <3> QED
      BY <1>1, <2>1, <3>3, <3>4, <3>5, EarlyWorker
  <2>7. CASE ClaimJobs(w)
    <3>1. Claim(w) /\ UNCHANGED <<dep, workerVars, checked>>
      BY <2>7, ClaimEffect
    <3>2. EarlyQueue'
      BY <1>1, <1>2, <3>1, EarlyQueueKeeps
    <3> QED
      BY <1>1, <2>1, <2>2, <3>1, <3>2, EarlyWorker DEF workerVars, EarlyState
  <2>8. CASE Reconcile(w)
    <3>1. w \in Clients /\ checked[w] = NoKind
      BY <1>1, <1>2 DEF EarlyState
    <3>2. ~EnqueueInsert(w)
      BY <3>1 DEF EnqueueInsert
    <3>3. ASSUME NEW k \in todo[w] \ {"ledger"} PROVE ~EnqueueCheck(w, k)
      BY <1>1, <2>2 DEF EnqueueCheck, EarlyQueue
    <3>4. CASE \E old \in Ages : ReconcileRead(w, old)
      <4>1. PICK old \in Ages : ReconcileRead(w, old)
        BY <3>4
      <4>2. /\ UNCHANGED <<dep, queueVars>> /\ pc'[w] = "reconcile"
            /\ todo'[w] = ReconcilePlan(old)
        BY <4>1, TypeParts DEF ReconcileRead, OnlyWorker, rowVars, WorkerTypeOK
      <4>3. ReconcilePlan(old) \subseteq {"provision", "ledger"}
        BY <1>1 DEF ReconcilePlan, RecoverKind
      <4>4. EarlyQueue' /\ \A c \in Clients : checked'[c] = NoKind
        BY <1>1, <1>2, <4>2, EarlyQueueKeeps DEF queueVars, EarlyState
      <4> QED
        BY <1>1, <2>1, <4>2, <4>3, <4>4, EarlyWorker
    <3>5. CASE ReconcileLedger(w) \/ ReconcileEnqueue(w)
      <4>1. pc[w] = "reconcile"
        BY <3>5 DEF ReconcileLedger, ReconcileEnqueue, At
      <4>2. /\ UNCHANGED <<dep, queueVars>> /\ pc'[w] \in {"idle", "reconcile"}
            /\ todo'[w] \subseteq {"provision", "ledger"}
        BY <1>1, <2>2, <2>8, <3>2, <3>3, <4>1, ReconcileEffect
      <4>3. EarlyQueue' /\ \A c \in Clients : checked'[c] = NoKind
        BY <1>1, <1>2, <4>2, EarlyQueueKeeps DEF queueVars, EarlyState
      <4> QED
        BY <1>1, <2>1, <4>2, <4>3, EarlyWorker
    <3> QED
      BY <2>8, <3>4, <3>5 DEF Reconcile
  <2>9. CASE Breaks(w)
    <3>1. CrashOf(w) /\ UNCHANGED <<dep, jobs>> /\ pc'[w] \in {"idle", "retry"}
          /\ todo'[w] \subseteq {"provision", "ledger"}
      BY <1>1, <2>9, DeathEffect DEF EarlyState
    <3>2. EarlyQueue'
      BY <1>1, <1>2, <3>1, EarlyQueueKeeps
    <3>3. \A c \in Clients : checked'[c] = NoKind
      BY <1>1, <1>2, <3>1 DEF CrashOf, CrashWorker, Raise, Lapse, EarlyState
    <3> QED
      BY <1>1, <2>1, <3>1, <3>2, <3>3, EarlyWorker
  <2> QED
    BY <1>3, <2>3, <2>4, <2>5, <2>6, <2>7, <2>8, <2>9 DEF JobStep, Later
<1>4. CASE Away
  <2>1. dep' = dep /\ UNCHANGED workerVars
    BY <1>1, <1>4, AwayEffect
  <2>2. \A h \in Handlers : ~ApiEnqueues(h)
    BY <1>1 DEF EarlyState, ApiEnqueues
  <2>3. \A h \in Handlers : ~ApiCommits(h)
    BY <1>1, <2>1, TypeParts DEF ApiCommits, RowTypeOK, Rows
  <2>4. EarlyQueue' /\ \A c \in Clients : checked'[c] = NoKind
    <3>1. CASE UNCHANGED queueVars
      BY <1>1, <1>2, <3>1, EarlyQueueKeeps DEF queueVars, EarlyState
    <3>2. CASE ApiDies
      <4>1. UNCHANGED <<jobs, held>>
            /\ \E hs : checked' = [c \in Clients |-> IF c \in hs THEN NoKind ELSE checked[c]]
        BY <3>2 DEF ApiDies, CrashApi, Lapse
      <4> QED
        BY <1>1, <1>2, <4>1, EarlyQueueKeeps DEF EarlyState
    <3> QED
      BY <1>4, <2>2, <3>1, <3>2
         DEF Away, ApiReads, ApiOnly, ApiCommits, Expire, Vanish, OnlyExternal
  <2>5. \A h \in Handlers : api'[h] # "enqueue"
    <3>1. CASE UNCHANGED api
      BY <1>1, <3>1 DEF EarlyState
    <3>2. CASE \E h \in Handlers : ApiReads(h)
      <4>1. PICK h \in Handlers : ApiReads(h)
        BY <3>2
      <4>2. dep.status \in Running /\ dep.status # "terminating"
        BY <1>1 DEF Running
      <4>3. \E step \in {"idle", "seen", "write"} : api' = [api EXCEPT ![h] = step]
        BY <4>1, <4>2 DEF ApiReads, GetFinds, GetReads, LoopReads, DeleteReads, ApiGoto
      <4> QED
        BY <1>1, <4>3, TypeParts DEF EarlyState, RestTypeOK
    <3>3. CASE ApiDies
      <4>1. PICK hs \in SUBSET Handlers :
              api' = [h \in Handlers |-> IF h \in hs THEN "idle" ELSE api[h]]
        BY <3>3 DEF ApiDies
      <4> QED
        BY <1>1, <4>1 DEF EarlyState
    <3> QED
      BY <1>4, <2>2, <2>3, <3>1, <3>2, <3>3 DEF Away, Expire, Vanish, OnlyExternal
  <2> QED
    BY <1>1, <2>1, <2>4, <2>5 DEF EarlyState, EarlyQueue, workerVars
<1> QED
  BY <1>3, <1>4 DEF Next, Breaks, Away

LEMMA EarlyStep ==
    ASSUME TypeOK, EarlyInv, Next
    PROVE  EarlyInv'
BY PollsLateStep, EarlyStateStep, EarlyParts

-----------------------------------------------------------------------------
(* Droplets in the workers' hands *)

AllSafe == \A w \in Workers : MakeSafe(w)

WorkerStep(w) == JobStep(w) \/ ClaimJobs(w) \/ Reconcile(w) \/ Breaks(w)

LEMMA NextSteps == Next => (\E w \in Workers : WorkerStep(w)) \/ Away
BY DEF Next, Breaks, WorkerStep, Away

\* Only while the session is queued does anybody come to expect a provision job.
LEMMA ExpectingShrinks ==
    ASSUME TypeOK, AllSafe, Next, dep.status # "queued"
    PROVE  Expecting' \subseteq Expecting
<1>1. ASSUME NEW w \in Workers, WorkerStep(w) PROVE Expecting' \subseteq Expecting
  <2>1. OthersIdle(w)
    BY <1>1, StepAlone DEF WorkerStep
  <2>2. "provision" \in todo'[w] => "provision" \in todo[w]
    <3>1. CASE Begin(w) \/ Create(w) \/ Record(w) \/ Track(w) \/ Later(w)
      BY <3>1, BeginEffect, CreateEffect, RecordEffect, TrackEffect, LaterPlace
    <3>2. CASE Finish(w) \/ Retry(w) \/ Breaks(w)
      BY <3>2, EndEffect, DeathEffect
    <3>3. CASE ClaimJobs(w)
      BY <3>3, ClaimEffect DEF workerVars
    <3>4. CASE Reconcile(w)
      BY <3>4, ReconcileEffect DEF AllSafe, MakeSafe
    <3> QED
      BY <1>1, <3>1, <3>2, <3>3, <3>4 DEF WorkerStep, JobStep, Later
  <2> QED
    BY <2>1, <2>2 DEF Expecting, OthersIdle, Idles
<1>2. CASE Away
  BY <1>2, AwayEffect DEF workerVars, Expecting
<1> QED
  BY <1>1, <1>2, NextSteps

\* Whoever ends the session is then neither making a droplet nor reconciling.
LEMMA SessionEnds ==
    ASSUME TypeOK, AllSafe, Next, InSession, ~InSession'
    PROVE  \E u \in Workers : pc'[u] \notin {"create", "record"} /\ u \notin Expecting'
<1>1. dep' # dep /\ dep'.status \notin ActiveStatuses
  BY DEF InSession
<1>2. ASSUME NEW w \in Workers, WorkerStep(w)
      PROVE  pc'[w] \notin {"create", "record"} /\ todo'[w] = {}
  <2>1. CASE Begin(w) \/ Create(w) \/ Record(w) \/ Track(w)
    BY <1>1, <2>1, BeginEffect, CreateEffect, RecordEffect, TrackEffect DEF ActiveStatuses, Running
  <2>2. CASE Later(w)
    BY <2>2, LaterPlace DEF AllSafe, MakeSafe
  <2>3. CASE Finish(w) \/ Retry(w)
    BY <2>3, EndEffect
  <2>4. CASE ClaimJobs(w) \/ Reconcile(w) \/ Breaks(w)
    BY <1>1, <2>4, ClaimEffect, ReconcileEffect, DeathEffect DEF AllSafe, MakeSafe
  <2> QED
    BY <1>2, <2>1, <2>2, <2>3, <2>4 DEF WorkerStep, JobStep, Later
<1>3. ~Away
  BY <1>1, AwayEffect DEF ActiveStatuses
<1> QED
  BY <1>2, <1>3, NextSteps DEF Expecting

LEMMA SpareHands ==
    ASSUME TypeOK, AllSafe, Next, NEW v \in Workers, pc[v] \in {"create", "record"},
           pc'[v] \in {"create", "record"}, dep.inst = None, ~InSession'
    PROVE  \E u \in Workers \ {v} : u \notin Expecting'
<1>1. CASE InSession
  BY <1>1, SessionEnds
<1>2. CASE ~InSession
  <2>1. PICK u \in Workers \ {v} : u \notin Expecting
    BY <1>2 DEF AllSafe, MakeSafe
  <2>2. dep.status # "queued"
    BY <1>2 DEF InSession, ActiveStatuses, Running
  <2> QED
    BY <2>1, <2>2, ExpectingShrinks
<1> QED
  BY <1>1, <1>2

\* The worker that does not move
LEMMA IdleMake ==
    ASSUME TypeOK, AllSafe, \A u \in Workers : AtWork(u), Next, NEW v \in Workers, Idles(v),
           dep.inst # None => dep'.inst # None,
           \A u \in Workers \ {v} : \/ ans'[u].inst \in {None, ans[u].inst}
                                    \/ cloud[ans'[u].inst] = "absent",
           \/ dep'.inst = dep.inst
           \/ \E u \in Workers \ {v} : ans[u].inst # None /\ dep'.inst = ans[u].inst
    PROVE  MakeSafe(v)'
<1>0. /\ MakeSafe(v) /\ AtWork(v)
      /\ pc'[v] = pc[v] /\ cur'[v] = cur[v] /\ ans'[v] = ans[v] /\ todo'[v] = todo[v]
      /\ checked'[v] = checked[v] /\ KindsKept(v)
  BY DEF AllSafe, Idles, Stays, Rests
<1>1. GoneStays /\ ans[v].inst \in Droplets \cup {None}
  BY NextStays, TypeParts, WorkersOf DEF Answers
<1>2. pc'[v] \in {"create", "record", "track"} => Kind(v)' = "provision"
  BY <1>0 DEF MakeSafe, AtWork, KindsKept, Kind
<1>3. /\ pc'[v] # "reconcile" => todo'[v] = {}
      /\ checked'[v] = "provision" => "provision" \in todo'[v]
  BY <1>0 DEF MakeSafe
<1>4. ASSUME ans'[v].inst # None
      PROVE  /\ pc'[v] \in {"record", "track"} /\ cloud'[ans'[v].inst] # "absent"
             /\ \A u \in Workers \ {v} : ans'[u].inst # ans'[v].inst
  <2>1. pc[v] \in {"record", "track"} /\ ans[v].inst \in Droplets /\ cloud[ans[v].inst] # "absent"
        /\ \A u \in Workers \ {v} : ans[u].inst # ans[v].inst
    BY <1>0, <1>1, <1>4 DEF MakeSafe
  <2> QED
    BY <1>0, <1>1, <1>4, <2>1 DEF GoneStays
<1>5. At(v, "record")' => ans'[v].inst # dep'.inst
  <2> SUFFICES ASSUME pc'[v] = "record" PROVE ans'[v].inst # dep'.inst
    BY DEF At
  <2>1. ans[v].inst # dep.inst
    BY <1>0 DEF MakeSafe, At
  <2>2. ASSUME NEW u \in Workers \ {v}, ans[u].inst # None, dep'.inst = ans[u].inst
        PROVE  ans[v].inst # dep'.inst
    BY <1>0, <2>2 DEF MakeSafe
  <2> QED
    BY <1>0, <2>1, <2>2
<1>6. At(v, "track")' => dep'.inst # None
  BY <1>0 DEF MakeSafe, At
<1>7. pc'[v] \in {"create", "record"} /\ dep'.inst = None /\ ~InSession' =>
        \E u \in Workers \ {v} : u \notin Expecting'
  BY <1>0, SpareHands
<1> QED
  BY <1>2, <1>3, <1>4, <1>5, <1>6, <1>7 DEF MakeSafe

\* A worker that makes no droplet, nor holds one
LEMMA DoneMake ==
    ASSUME NEW w \in Workers, pc'[w] \notin {"create", "record", "track"}, ans'[w].inst = None,
           pc'[w] # "reconcile" => todo'[w] = {},
           checked'[w] = "provision" => "provision" \in todo'[w]
    PROVE  MakeSafe(w)'
BY DEF MakeSafe, At

\* The worker that moves
LEMMA MoverMake ==
    ASSUME TypeOK, AllSafe, NEW w \in Workers, AtWork(w), WorkerStep(w), Next,
           dep.inst # None => cloud[dep.inst] # "absent"
    PROVE  MakeSafe(w)'
<1>1. /\ MakeSafe(w) /\ "refresh" # "provision" /\ "cleanup" # "provision" /\ NoKind # "provision"
      /\ QueueTypeOK /\ checked \in [Clients -> Kinds \cup {NoKind}] /\ w \in Clients
      /\ ans[w] \in Answers /\ dep \in Rows /\ None \notin Droplets /\ NoAnswer.inst = None
  BY ChainTypes, Sole, QueueAssumption, LifecycleAssumption DEF AllSafe, JobKinds
<1>2. pc[w] \notin {"record", "track"} => ans[w].inst = None
  BY <1>1 DEF MakeSafe
<1>3. CASE Begin(w)
  <2>1. /\ UNCHANGED <<queueVars, dep>> /\ ans'[w].inst = None /\ todo'[w] = {}
        /\ checked'[w] # "provision" /\ pc'[w] # "track"
    BY <1>1, <1>2, <1>3, BeginEffect DEF MakeSafe, queueVars
  <2>2. CASE pc'[w] \in {"create", "record"}
    <3>1. InSession' /\ Kind(w)' = "provision" /\ (pc'[w] = "record" => dep.inst # None)
      BY <1>3, <2>1, <2>2, BeginEffect DEF Kind, queueVars, InSession
    <3> QED
      BY <2>1, <2>2, <3>1 DEF MakeSafe, At
  <2> QED
    BY <2>1, <2>2, DoneMake
<1>4. CASE Create(w)
  <2>1. /\ UNCHANGED <<queueVars, dep>> /\ todo'[w] = {} /\ cur'[w] = cur[w] /\ pc[w] = "create"
        /\ checked'[w] # "provision" /\ Kind(w) = "provision"
    BY <1>1, <1>4, CreateEffect DEF MakeSafe, queueVars
  <2>2. CASE pc'[w] = "retry" /\ ans'[w] = NoAnswer
    BY <1>1, <2>1, <2>2, DoneMake
  <2>3. CASE /\ pc'[w] = "record" /\ ans'[w].inst \in Droplets
             /\ cloud[ans'[w].inst] = "absent" /\ cloud'[ans'[w].inst] = "up"
    <3>1. Kind(w)' = "provision"
      BY <2>1 DEF Kind, queueVars
    <3>2. ASSUME NEW u \in Workers \ {w} PROVE ans'[u].inst # ans'[w].inst
      <4>1. ans'[u] = ans[u]
        BY <1>4, StepAlone DEF OthersIdle, Idles, Rests, JobStep
      <4> QED
        BY <1>1, <2>3, <4>1 DEF AllSafe, MakeSafe
    <3>3. ans'[w].inst # dep'.inst
      BY <1>1, <2>1, <2>3
    <3>4. dep'.inst = None /\ ~InSession' => \E u \in Workers \ {w} : u \notin Expecting'
      BY <2>1, <2>3, SpareHands
    <3> QED
      BY <1>1, <2>1, <2>3, <3>1, <3>2, <3>3, <3>4 DEF MakeSafe, At
  <2> QED
    BY <1>4, <2>2, <2>3, CreateEffect
<1>5. CASE Record(w)
  <2>1. /\ UNCHANGED <<queueVars, cloud>> /\ todo'[w] = {} /\ cur'[w] = cur[w] /\ pc[w] = "record"
        /\ checked'[w] # "provision" /\ Kind(w) = "provision"
    BY <1>1, <1>5, RecordEffect DEF MakeSafe, queueVars
  <2>2. CASE pc'[w] = "finish" /\ ans'[w] = NoAnswer
    BY <1>1, <2>1, <2>2, DoneMake
  <2>3. CASE /\ pc'[w] = "track" /\ ans'[w] = ans[w]
             /\ dep'.inst = IF ans[w].inst = None THEN dep.inst ELSE ans[w].inst
    <3>1. Kind(w)' = "provision"
      BY <2>1 DEF Kind, queueVars
    <3>2. dep'.inst # None
      BY <1>1, <2>1, <2>3 DEF MakeSafe, At
    <3>3. ASSUME NEW u \in Workers \ {w} PROVE ans'[u] = ans[u]
      BY <1>5, StepAlone DEF OthersIdle, Idles, Rests, JobStep
    <3> QED
      BY <1>1, <2>1, <2>3, <3>1, <3>2, <3>3 DEF MakeSafe, At
  <2> QED
    BY <1>5, <2>2, <2>3, RecordEffect
<1>6. CASE Track(w)
  BY <1>1, <1>6, TrackEffect, DoneMake DEF MakeSafe, queueVars
<1>7. CASE Later(w)
  <2>1. /\ pc'[w] \notin {"create", "record", "track"} /\ ans'[w].inst = None
        /\ todo'[w] = {}
    BY <1>1, <1>2, <1>7, LaterPlace DEF MakeSafe
  <2>2. checked[w] # "provision"
    BY <1>1, <1>7, LaterPlace DEF MakeSafe
  <2>3. checked'[w] # "provision"
    <3>1. CASE checked' = checked
      BY <2>2, <3>1
    <3>2. CASE EnqueueCheck(w, Wanted(w)) \/ EnqueueInsert(w)
      BY <1>1, <3>2 DEF EnqueueCheck, EnqueueInsert, Wanted
    <3> QED
      BY <1>7, <3>1, <3>2
         DEF Later, Poll, AskProvider, Apply, Successor, EnqueueAlways, ExpireSession, ReadyFlag,
             ReadySend,
             EndFlag, EndSend, Destroy, Untrack, Close, Enqueue, OnlyExternal, OnlyRow, queueVars
  <2> QED
    BY <2>1, <2>3, DoneMake
<1>8. CASE Finish(w) \/ Retry(w) \/ Breaks(w)
  <2>1. /\ pc'[w] \in {"idle", "retry"} /\ ans'[w] = NoAnswer /\ todo'[w] = {}
        /\ (checked'[w] = checked[w] /\ pc[w] # "reconcile") \/ checked'[w] = NoKind
    BY <1>1, <1>8, EndEffect, DeathEffect DEF MakeSafe
  <2>2. checked'[w] # "provision"
    BY <1>1, <2>1 DEF MakeSafe
  <2> QED
    BY <1>1, <2>1, <2>2, DoneMake
<1>9. CASE ClaimJobs(w)
  <2>1. UNCHANGED <<workerVars, checked>> /\ pc[w] = "idle"
    BY <1>9, ClaimEffect
  <2> QED
    BY <1>1, <1>2, <2>1, DoneMake DEF workerVars, MakeSafe
<1>10. CASE Reconcile(w)
  <2>1. pc[w] # "reconcile" => todo[w] = {}
    BY <1>1 DEF MakeSafe
  <2>2. /\ pc'[w] \in {"idle", "reconcile"} /\ ans'[w].inst = None
        /\ (pc'[w] # "reconcile" => todo'[w] = {})
    BY <1>2, <1>10, <2>1, ReconcileEffect
  <2>3. checked'[w] = "provision" => "provision" \in todo'[w]
    <3>1. CASE /\ UNCHANGED queueVars
               /\ checked[w] = "provision" /\ "provision" \in todo[w] => "provision" \in todo'[w]
      BY <1>1, <3>1 DEF MakeSafe, queueVars
    <3>2. CASE \E k \in todo[w] \ {"ledger"} : EnqueueCheck(w, k) /\ todo'[w] = todo[w]
      BY <1>1, <3>2 DEF EnqueueCheck
    <3>3. CASE EnqueueInsert(w)
      BY <1>1, <3>3 DEF EnqueueInsert
    <3> QED
      BY <1>10, <2>1, <3>1, <3>2, <3>3, ReconcileEffect
  <2> QED
    BY <2>2, <2>3, DoneMake
<1> QED
  BY <1>3, <1>4, <1>5, <1>6, <1>7, <1>8, <1>9, <1>10 DEF WorkerStep, JobStep, Later

\* What a step does to the droplet's id in the row
LEMMA RowNames ==
    ASSUME TypeOK, NEW w \in Workers, WorkerStep(w)
    PROVE  /\ dep.inst # None => dep'.inst # None
           /\ ~Record(w) => dep'.inst = dep.inst
           /\ dep'.inst = dep.inst \/ (ans[w].inst # None /\ dep'.inst = ans[w].inst)
<1>1. CASE Record(w)
  BY <1>1, RecordEffect
<1>2. CASE Begin(w) \/ Create(w) \/ Track(w) \/ Later(w) \/ Finish(w) \/ Retry(w)
  BY <1>2, BeginEffect, CreateEffect, TrackEffect, LaterRow, EndEffect
<1>3. CASE ClaimJobs(w) \/ Reconcile(w) \/ Breaks(w)
  BY <1>3, ClaimEffect, DeathEffect DEF Reconcile, ReconcileRead, ReconcileLedger,
     ReconcileEnqueue, OnlyWorker, rowVars
<1> QED
  BY <1>1, <1>2, <1>3 DEF WorkerStep, JobStep, Later

LEMMA MakeStep ==
    ASSUME TypeOK, AllSafe, \A u \in Workers : AtWork(u), Next,
           dep.inst # None => cloud[dep.inst] # "absent"
    PROVE  AllSafe'
<1>1. ASSUME NEW w \in Workers, WorkerStep(w), NEW v \in Workers PROVE MakeSafe(v)'
  <2>1. CASE v = w
    BY <1>1, <2>1, MoverMake
  <2>2. CASE v # w
    <3>1. OthersIdle(w)
      BY <1>1, StepAlone DEF WorkerStep
    <3>2. ans'[w].inst \in {None, ans[w].inst} \/ cloud[ans'[w].inst] = "absent"
      <4>1. NoAnswer.inst = None
        BY DEF NoAnswer
      <4>2. CASE Begin(w) \/ Create(w) \/ Record(w) \/ Track(w) \/ Later(w)
        BY <4>1, <4>2, BeginEffect, CreateEffect, RecordEffect, TrackEffect, LaterPlace
      <4>3. CASE Finish(w) \/ Retry(w) \/ Breaks(w)
        BY <4>1, <4>3, EndEffect, DeathEffect
      <4>4. CASE ClaimJobs(w) \/ Reconcile(w)
        BY <4>4 DEF ClaimJobs, Reconcile, ReconcileRead, ReconcileLedger, ReconcileEnqueue,
                    workerVars
      <4> QED
        BY <1>1, <4>2, <4>3, <4>4 DEF WorkerStep, JobStep, Later
    <3>3. \A u \in Workers \ {v} : \/ ans'[u].inst \in {None, ans[u].inst}
                                   \/ cloud[ans'[u].inst] = "absent"
      BY <3>1, <3>2 DEF OthersIdle, Idles, Rests
    <3>4. /\ dep.inst # None => dep'.inst # None
          /\ dep'.inst = dep.inst
             \/ \E u \in Workers \ {v} : ans[u].inst # None /\ dep'.inst = ans[u].inst
      BY <1>1, <2>2, RowNames
    <3> QED
      BY <2>2, <3>1, <3>3, <3>4, IdleMake DEF OthersIdle
  <2> QED
    BY <2>1, <2>2
<1>2. CASE Away
  <2>1. (\A v \in Workers : Idles(v)) /\ dep'.inst = dep.inst /\ ans' = ans
    BY <1>2, AwayAlone, AwayEffect DEF workerVars
  <2>2. \A v \in Workers : MakeSafe(v)'
    BY <2>1, IdleMake
  <2> QED
    BY <2>2 DEF AllSafe
<1> QED
  BY <1>1, <1>2, NextSteps DEF AllSafe

-----------------------------------------------------------------------------
(* The row's droplet exists; the API enqueues no provision job. *)

LEMMA RowExistsStep ==
    ASSUME TypeOK, AllSafe, Next, dep.inst # None => cloud[dep.inst] # "absent"
    PROVE  dep'.inst # None => cloud'[dep'.inst] # "absent"
<1>1. GoneStays /\ dep.inst \in Droplets \cup {None}
  BY NextStays, TypeParts DEF RowTypeOK, Rows
<1>2. CASE dep'.inst = dep.inst
  BY <1>1, <1>2 DEF GoneStays
<1>3. CASE \E w \in Workers : ans[w].inst # None /\ dep'.inst = ans[w].inst
  <2>1. PICK w \in Workers : ans[w].inst # None /\ dep'.inst = ans[w].inst
    BY <1>3
  <2>2. ans[w].inst \in Droplets /\ cloud[ans[w].inst] # "absent"
    BY <2>1, Sole DEF AllSafe, MakeSafe, Answers
  <2> QED
    BY <1>1, <2>1, <2>2 DEF GoneStays
<1>4. Away => dep'.inst = dep.inst
  BY AwayEffect
<1> QED
  BY <1>2, <1>3, <1>4, NextSteps, RowNames

\* A handler checks for the kind it wants, and for no other.
LEMMA HandlersCheck ==
    ASSUME TypeOK, Next, NEW h \in Handlers
    PROVE  checked'[h] \in {checked[h], NoKind, ApiWanted(h)}
<1>1. /\ checked \in [Clients -> Kinds \cup {NoKind}]
      /\ Workers \subseteq Clients /\ Handlers \subseteq Clients /\ Workers \cap Handlers = {}
  BY ChainTypes, QueueAssumption, LifecycleAssumption
<1>2. ASSUME NEW w \in Workers, WorkerStep(w) PROVE checked'[h] = checked[h]
  <2>1. \/ UNCHANGED checked \/ checked' = [checked EXCEPT ![w] = NoKind]
        \/ \E k : checked' = [checked EXCEPT ![w] = k]
    <3>1. CASE JobStep(w)
      BY <3>1, JobQueueUse DEF queueVars, EnqueueCheck, EnqueueAlways, EnqueueInsert, Release
    <3>2. CASE ClaimJobs(w) \/ Reconcile(w)
      BY <3>2 DEF ClaimJobs, Claim, ClaimBatch, Reconcile, ReconcileRead, ReconcileLedger,
                  ReconcileEnqueue, OnlyWorker, EnqueueCheck, EnqueueInsert, queueVars
    <3>3. CASE Breaks(w)
      BY <3>3, TypeParts, ChainTypes, BreaksMoves, CrashOfEffect
    <3> QED
      BY <1>2, <3>1, <3>2, <3>3 DEF WorkerStep
  <2> QED
    BY <1>1, <2>1
<1>3. CASE Away
  <2>1. CASE ApiDies
    BY <1>1, <2>1 DEF ApiDies, CrashApi, Lapse
  <2>2. CASE \E g \in Handlers : ApiEnqueues(g)
    <3>1. PICK g \in Handlers : ApiEnqueues(g)
      BY <2>2
    <3>2. \/ UNCHANGED checked \/ checked' = [checked EXCEPT ![g] = NoKind]
          \/ checked' = [checked EXCEPT ![g] = ApiWanted(g)]
      BY <3>1 DEF ApiEnqueues, EnqueueCheck, EnqueueInsert, queueVars
    <3> QED
      BY <1>1, <3>2
  <2> QED
    BY <1>3, <2>1, <2>2
       DEF Away, ApiReads, ApiOnly, ApiCommits, Expire, Vanish, OnlyExternal, queueVars
<1> QED
  BY <1>2, <1>3, NextSteps

ApiMakesNone == \A h \in Handlers : checked[h] # "provision"

LEMMA ApiMakesNoneStep ==
    ASSUME TypeOK, ApiMakesNone, Next
    PROVE  ApiMakesNone'
<1>1. \A h \in Handlers : ApiWanted(h) # "provision"
  BY DEF ApiWanted
<1>2. NoKind # "provision"
  BY QueueAssumption, LifecycleAssumption DEF JobKinds
<1> QED
  BY <1>1, <1>2, HandlersCheck DEF ApiMakesNone

-----------------------------------------------------------------------------
(* The provision jobs *)

\* Nobody gets a chance to go through a provision job, and none ends.
ProvisionKept ==
    NoChance("provision") /\ ActiveOfKind("provision") \subseteq ActiveOfKind("provision")'

LEMMA ProvisionQuiet ==
    ASSUME TypeOK, Tally("provision"),
           \/ UNCHANGED queueVars
           \/ \E c \in Clients, k \in Kinds : EnqueueCheck(c, k)
           \/ \E k \in Kinds : k # "provision" /\ EnqueueAlways(k)
           \/ \E c \in Clients : checked[c] # "provision" /\ EnqueueInsert(c)
           \/ \E w \in Workers : Claim(w) \/ CrashOf(w)
           \/ \E hs \in SUBSET Handlers : CrashApi(hs)
           \/ \E w \in Workers, j \in JobIds, s \in {"done", "failed", "queued"} :
                Release(w, j, s) /\ (jobs[j].kind = "provision" => s = "queued")
    PROVE  ProvisionKept
<1>1. QueueTypeOK /\ checked \in [Clients -> Kinds \cup {NoKind}] /\ "provision" \in Kinds
  BY ChainTypes, LifecycleAssumption DEF JobKinds
<1>2. ASSUME UNCHANGED <<jobs, held, overtakes>> PROVE ProvisionKept
  <2>1. Waiting("provision")' = Waiting("provision")
        /\ Holdings("provision")' = Holdings("provision")
        /\ ActiveOfKind("provision")' = ActiveOfKind("provision")
    BY <1>2 DEF Waiting, Holdings, ActiveOfKind, Active, Held
  <2> QED
    BY <1>1, <1>2, <2>1, SameSets DEF ProvisionKept
<1>3. ASSUME NEW k \in Kinds, k # "provision", Insert(k), UNCHANGED <<held, overtakes>>
      PROVE  ProvisionKept
  BY <1>1, <1>3, InsertOtherSets, SameSets DEF ProvisionKept
<1>4. CASE \E w \in Workers : Claim(w)
  <2>1. PICK w \in Workers, batch \in SUBSET Due : ClaimBatch(w, batch)
    BY <1>4 DEF Claim
  <2>2. ActiveOfKind("provision")' = ActiveOfKind("provision")
    BY <1>1, <2>1, ClaimSets
  <2>3. NoChance("provision")
    BY <1>1, <2>1, ClaimCount
  <2> QED
    BY <2>2, <2>3 DEF ProvisionKept
<1>5. CASE \E w \in Workers : CrashOf(w)
  <2>1. PICK w \in Workers : CrashOf(w)
    BY <1>5
  <2>2. ActiveOfKind("provision")' = ActiveOfKind("provision")
    BY <1>1, <2>1, CrashOfEffect DEF ActiveOfKind, Active
  <2>3. NoChance("provision")
    BY <1>1, <2>1, CrashOfCount
  <2> QED
    BY <2>2, <2>3 DEF ProvisionKept
<1>6. CASE \E w \in Workers, j \in JobIds, s \in {"done", "failed", "queued"} :
             Release(w, j, s) /\ (jobs[j].kind = "provision" => s = "queued")
  <2>1. PICK w \in Workers, j \in JobIds, s \in {"done", "failed", "queued"} :
          Release(w, j, s) /\ (jobs[j].kind = "provision" => s = "queued")
    BY <1>6
  <2>2. CASE jobs[j].kind # "provision"
    <3>1. NoChance("provision")
      BY <1>1, <2>1, <2>2, ReleaseOtherCount
    <3>2. ActiveOfKind("provision")' = ActiveOfKind("provision")
      BY <1>1, <2>1, <2>2, ReleaseOtherSets
    <3> QED
      BY <3>1, <3>2 DEF ProvisionKept
  <2>3. CASE jobs[j].kind = "provision"
    <3>1. NoChance("provision")
      BY <1>1, <2>1, <2>3, RequeueCount
    <3>2. s = "queued" /\ Release(w, j, s)
      BY <2>1, <2>3
    <3>3. s = "queued" =>
            /\ Waiting("provision")' = Waiting("provision") \cup {j}
            /\ ActiveOfKind("provision")' = ActiveOfKind("provision") \cup {j}
      BY <1>1, <2>3, <3>2, ReleaseSets
    <3> QED
      BY <3>1, <3>2, <3>3 DEF ProvisionKept
  <2> QED
    BY <2>2, <2>3
<1>7. CASE \/ UNCHANGED queueVars
           \/ \E hs \in SUBSET Handlers : CrashApi(hs)
           \/ \E c \in Clients, k \in Kinds : EnqueueCheck(c, k)
  BY <1>2, <1>7 DEF queueVars, CrashApi, Lapse, EnqueueCheck
<1>8. CASE \E k \in Kinds : k # "provision" /\ EnqueueAlways(k)
  BY <1>3, <1>8 DEF EnqueueAlways
<1>9. CASE \E c \in Clients : checked[c] # "provision" /\ EnqueueInsert(c)
  BY <1>1, <1>3, <1>9 DEF EnqueueInsert
<1> QED
  BY <1>4, <1>5, <1>6, <1>7, <1>8, <1>9

-----------------------------------------------------------------------------
(* The counts *)

\* Droplets that run unrecorded, provision jobs still expected, workers about to finish
\* one, workers that make another droplet; what crashes and take-overs pay for, and the
\* workers but one
Lost == Cardinality(Strays(cloud))
Yet == Cardinality(Expecting)
Ending == Cardinality(Finishing("provision"))
Making == Cardinality(Makers)
Paid == crashes + overtakes
Spare == Cardinality(Workers) - 1

LEMMA Counts ==
    ASSUME TypeOK, IsFiniteSet(Strays(cloud)), Tally("provision")
    PROVE  /\ Lost \in Nat /\ Yet \in Nat /\ Ending \in Nat /\ Making \in Nat /\ Paid \in Nat
           /\ Chances("provision") \in Nat
<1>1. Expecting \subseteq Workers /\ Finishing("provision") \subseteq Workers /\ Makers \subseteq Workers
  BY DEF Expecting, Finishing, Makers
<1>2. Yet \in Nat /\ Ending \in Nat /\ Making \in Nat
  BY <1>1, LifecycleAssumption, FS_Subset, FS_CardinalityType DEF Yet, Ending, Making
<1>3. Lost \in Nat /\ Paid \in Nat
  BY FS_CardinalityType, ChainTypes DEF Lost, Paid
<1> QED
  BY <1>2, <1>3, Sizes DEF Tally

LEMMA Sum == \A a, b \in Nat : a + b \in Nat
OBVIOUS

LEMMA Grows == \A a, b, c \in Nat : a <= b => a + c <= b + c
OBVIOUS

LEMMA PaidAfter == ASSUME crashes' \in Nat, overtakes' \in Nat PROVE Paid' \in Nat
BY Sum DEF Paid

LEMMA CountsAfter ==
    ASSUME TypeOK', IsFiniteSet(Strays(cloud)'), Tally("provision")'
    PROVE  /\ Lost' \in Nat /\ Yet' \in Nat /\ Ending' \in Nat /\ Making' \in Nat /\ Paid' \in Nat
           /\ Chances("provision")' \in Nat
<1>1. /\ Expecting' \subseteq Workers /\ Finishing("provision")' \subseteq Workers
      /\ Makers' \subseteq Workers
  BY DEF Expecting, Finishing, Makers
<1>2. Yet' \in Nat /\ Ending' \in Nat /\ Making' \in Nat
  BY <1>1, LifecycleAssumption, FS_Subset, FS_CardinalityType DEF Yet, Ending, Making
<1>3. Lost' \in Nat
  BY FS_CardinalityType DEF Lost
<1>4. crashes' \in Nat /\ overtakes' \in Nat
  BY QueueAssumption DEF TypeOK, QueueTypeOK
<1>5. Paid' \in Nat
  BY <1>4, PaidAfter
<1> QED
  BY <1>2, <1>3, <1>5, SizesAfter

LEMMA SpareCount == Workers # {} => Spare \in Nat
BY LifecycleAssumption, FS_CardinalityType, FS_EmptySet DEF Spare

\* The two ways in which the droplets to come are bounded before one is recorded, and
\* how those that run without being recorded are afterwards
One ==
    /\ Found("provision") /\ Finishing("provision") = {}
    /\ \A w \in Workers : checked[w] # "provision"
    /\ Lost + Chances("provision") <= Paid + 1

LateOnes ==
    dep.status # "queued" /\ Lost + Chances("provision") + Yet <= Paid + Spare + Ending

Recorded == Lost + Making <= Paid + Spare

Bound == IF dep.inst = None THEN One \/ LateOnes ELSE Recorded

RowExists == dep.inst # None => cloud[dep.inst] # "absent"

LEMMA DropletParts ==
    ASSUME TypeOK, Workers # {}
    PROVE  DropletInv <=> /\ EarlyInv /\ AllSafe /\ ApiMakesNone /\ RowExists
                          /\ Tally("provision") /\ IsFiniteSet(Strays(cloud)) /\ Bound
<1> SUFFICES ASSUME Tally("provision"), IsFiniteSet(Strays(cloud))
             PROVE  /\ OneProvision <=> One
                    /\ LateProvisions <=> LateOnes
                    /\ Lost + Making <= crashes + overtakes + Cardinality(Workers) - 1 <=> Recorded
  BY DEF DropletInv, AllSafe, ApiMakesNone, RowExists, Bound, Lost, Making
<1>1. /\ crashes \in Nat /\ overtakes \in Nat /\ Cardinality(Workers) \in Nat
  BY ChainTypes, LifecycleAssumption, FS_CardinalityType
<1>2. Lost \in Nat /\ Yet \in Nat /\ Ending \in Nat /\ Making \in Nat /\ Chances("provision") \in Nat
  BY Counts
<1>3. OneProvision <=> One
  BY DEF OneProvision, One, Lost, Paid
<1>4. LateProvisions <=>
        /\ dep.status # "queued"
        /\ Lost + Chances("provision") + Yet
             <= crashes + overtakes + Cardinality(Workers) - 1 + Ending
  BY DEF LateProvisions, Lost, Yet, Ending
<1>5. LateProvisions <=> LateOnes
  BY <1>1, <1>2, <1>4 DEF LateOnes, Paid, Spare
<1>6. Lost + Making <= crashes + overtakes + Cardinality(Workers) - 1 <=> Recorded
  BY <1>1, <1>2 DEF Recorded, Paid, Spare
<1> QED
  BY <1>3, <1>5, <1>6

-----------------------------------------------------------------------------
(* What a worker's step does to the sets *)

LEMMA StraysAfter ==
    ASSUME TypeOK, TypeOK', NEW w \in Workers, OthersIdle(w), NEW lost,
           orphaned \subseteq orphaned',
           \A d \in Droplets : cloud'[d] = "up" =>
               cloud[d] = "up" \/ d \in orphaned' \/ d = ans'[w].inst,
           \A d \in Droplets : d \in {dep.inst, ans[w].inst} =>
               d \in {dep'.inst, ans'[w].inst} \cup lost
    PROVE  Strays(cloud)' \subseteq Strays(cloud) \cup lost
<1> SUFFICES ASSUME NEW d \in Strays(cloud)', d \notin lost PROVE d \in Strays(cloud)
  OBVIOUS
<1>1. DOMAIN cloud = Droplets /\ DOMAIN cloud' = Droplets
  BY DEF TypeOK
<1>2. d \in Droplets /\ cloud'[d] = "up" /\ ~InUse(d)' /\ d \notin orphaned'
  BY <1>1 DEF Strays
<1>3. d \notin {dep'.inst, ans'[w].inst} /\ \A v \in Workers : d # ans'[v].inst
  BY <1>2 DEF InUse
<1>4. cloud[d] = "up" /\ d \notin orphaned /\ d \notin {dep.inst, ans[w].inst}
  BY <1>2, <1>3
<1>5. \A v \in Workers : d # ans[v].inst
  BY <1>3, <1>4 DEF OthersIdle, Idles, Rests
<1>6. d # dep.rec /\ \A v \in Workers : d # ans[v].rec
  BY <1>2, LifecycleAssumption, Sole DEF Rows, Answers
<1> QED
  BY <1>1, <1>4, <1>5, <1>6 DEF Strays, InUse

\* Where a step of w may change the sets of workers
LEMMA CrewsAfter ==
    ASSUME NEW w \in Workers, OthersIdle(w), \A v \in Workers : AtWork(v)
    PROVE  /\ Expecting' \subseteq Workers /\ Expecting' \ {w} = Expecting \ {w}
           /\ Expecting \subseteq Workers
           /\ Finishing("provision")' \subseteq Workers /\ Finishing("provision") \subseteq Workers
           /\ Finishing("provision")' \ {w} = Finishing("provision") \ {w}
           /\ Makers' \subseteq Workers /\ Makers \subseteq Workers
           /\ dep'.inst = dep.inst => Makers' \ {w} = Makers \ {w}
<1>1. ASSUME NEW v \in Workers, v # w
      PROVE  /\ v \in Expecting' <=> v \in Expecting
             /\ v \in Finishing("provision")' <=> v \in Finishing("provision")
             /\ dep'.inst = dep.inst => (v \in Makers' <=> v \in Makers)
  <2>1. /\ pc'[v] = pc[v] /\ cur'[v] = cur[v] /\ ans'[v] = ans[v] /\ todo'[v] = todo[v]
        /\ KindsKept(v)
    BY <1>1 DEF OthersIdle, Idles, Stays, Rests
  <2>2. v \in Finishing("provision")' <=> v \in Finishing("provision")
    BY <2>1 DEF Finishing, At, Kind, AtWork, KindsKept
  <2> QED
    BY <2>1, <2>2 DEF Expecting, Makers, At
<1> QED
  BY <1>1 DEF Expecting, Finishing, Makers

LEMMA WorkerStrays ==
    ASSUME TypeOK, TypeOK', AllSafe, NEW w \in Workers, WorkerStep(w)
    PROVE  /\ ~(Track(w) \/ Record(w) \/ Breaks(w)) => Strays(cloud)' \subseteq Strays(cloud)
           /\ dep'.inst = dep.inst =>
                Strays(cloud)' \subseteq Strays(cloud) \cup ({ans[w].inst} \ {None, dep.inst})
           /\ Record(w) /\ dep.inst = None /\ dep'.inst # None =>
                Strays(cloud)' \subseteq Strays(cloud)
           /\ Record(w) => Strays(cloud)' \subseteq Strays(cloud) \cup {dep.inst, ans[w].inst}
<1>0. OthersIdle(w) /\ NoAnswer.inst = None /\ None \notin Droplets
  BY StepAlone, LifecycleAssumption DEF WorkerStep, NoAnswer
<1>1. pc[w] \notin {"record", "track"} => ans[w].inst = None
  BY DEF AllSafe, MakeSafe
<1>2. ASSUME NoneUp
      PROVE  /\ orphaned \subseteq orphaned'
             /\ \A d \in Droplets : cloud'[d] = "up" =>
                  cloud[d] = "up" \/ d \in orphaned' \/ d = ans'[w].inst
  BY <1>2 DEF NoneUp
<1>3. ASSUME NEW lost, NoneUp,
             \A d \in Droplets : d \in {dep.inst, ans[w].inst} =>
               d \in {dep'.inst, ans'[w].inst} \cup lost
      PROVE  Strays(cloud)' \subseteq Strays(cloud) \cup lost
  BY <1>0, <1>2, <1>3, StraysAfter
<1>4. CASE Create(w)
  <2>1. /\ dep' = dep /\ orphaned \subseteq orphaned' /\ ans[w].inst = None
        /\ \A d \in Droplets : cloud'[d] = "up" =>
             cloud[d] = "up" \/ d \in orphaned' \/ d = ans'[w].inst
    BY <1>1, <1>4, CreateEffect
  <2>2. Strays(cloud)' \subseteq Strays(cloud) \cup {}
    BY <1>0, <2>1, StraysAfter
  <2> QED
    BY <1>4, <2>1, <2>2 DEF Create, Record, At
<1>5. CASE Begin(w) \/ Later(w) \/ Finish(w) \/ Retry(w) \/ ClaimJobs(w) \/ Reconcile(w)
  <2>1. NoneUp /\ dep'.inst = dep.inst
    BY <1>5, BeginEffect, LaterRow, EndEffect, ClaimEffect, ReconcileEffect, StillNoneUp
       DEF AllSafe, MakeSafe
  <2>2. pc[w] \notin {"record", "track"}
    BY <1>5, BeginEffect, LaterPlace, EndEffect, ClaimEffect, ReconcileEffect DEF AllSafe, MakeSafe
  <2>3. Strays(cloud)' \subseteq Strays(cloud) \cup {}
    BY <1>0, <1>1, <1>3, <2>1, <2>2
  <2> QED
    BY <2>2, <2>3 DEF Record, At
<1>6. CASE Track(w) \/ Breaks(w)
  <2>1. NoneUp /\ dep' = dep
    BY <1>6, TrackEffect, DeathEffect, StillNoneUp
  <2>2. Strays(cloud)' \subseteq Strays(cloud) \cup ({ans[w].inst} \ {None, dep.inst})
    BY <1>0, <1>3, <2>1
  <2> QED
    BY <1>6, <2>1, <2>2
<1>7. CASE Record(w)
  <2>1. NoneUp
    BY <1>7, RecordEffect, StillNoneUp
  <2>2. ASSUME dep'.inst = dep.inst
        PROVE Strays(cloud)' \subseteq Strays(cloud) \cup ({ans[w].inst} \ {None, dep.inst})
    BY <1>0, <1>3, <2>1, <2>2
  <2>3. ASSUME dep.inst = None, dep'.inst # None
        PROVE  Strays(cloud)' \subseteq Strays(cloud)
    <3>1. ans[w].inst = dep'.inst
      BY <1>7, <2>3, RecordEffect
    <3>2. Strays(cloud)' \subseteq Strays(cloud) \cup {}
      BY <1>0, <1>3, <2>1, <2>3, <3>1
    <3> QED
      BY <3>2
  <2>4. Strays(cloud)' \subseteq Strays(cloud) \cup {dep.inst, ans[w].inst}
    BY <1>3, <2>1
  <2> QED
    BY <1>7, <2>2, <2>3, <2>4
<1> QED
  BY <1>4, <1>5, <1>6, <1>7 DEF WorkerStep, JobStep, Later

LEMMA AwayStrays ==
    ASSUME TypeOK, TypeOK', Away
    PROVE  Strays(cloud)' \subseteq Strays(cloud)
<1>1. ans' = ans /\ NoneUp /\ dep'.inst = dep.inst
  BY AwayEffect DEF workerVars
<1> SUFFICES ASSUME NEW d \in Strays(cloud)' PROVE d \in Strays(cloud)
  OBVIOUS
<1>2. DOMAIN cloud = Droplets /\ DOMAIN cloud' = Droplets
  BY DEF TypeOK
<1>3. d \in Droplets /\ cloud[d] = "up" /\ ~InUse(d)' /\ d \notin orphaned
  BY <1>1, <1>2 DEF Strays, NoneUp
<1>4. d # dep.inst /\ \A v \in Workers : d # ans[v].inst
  BY <1>1, <1>3 DEF InUse
<1>5. d # dep.rec /\ \A v \in Workers : d # ans[v].rec
  <2>1. dep.rec \in Records \cup {None}
    BY TypeParts DEF RowTypeOK, Rows
  <2>2. ASSUME NEW v \in Workers PROVE ans[v].rec \in Records \cup {None}
    BY Sole DEF Answers
  <2> QED
    BY <1>3, <2>1, <2>2, LifecycleAssumption
<1> QED
  BY <1>2, <1>3, <1>4, <1>5 DEF Strays, InUse

\* What a worker's step does to the provision jobs
LEMMA WorkerQueue ==
    ASSUME TypeOK, AllSafe, Tally("provision"), NEW w \in Workers, WorkerStep(w)
    PROVE  \/ ProvisionKept
           \/ /\ Finish(w) \/ (Retry(w) /\ dep'.status = "failed")
              /\ ChanceLess("provision") /\ Kind(w) = "provision"
           \/ /\ Reconcile(w) /\ OneChance("provision") /\ checked[w] = "provision"
              /\ "provision" \in todo[w] /\ todo'[w] = todo[w] \ {"provision"}
<1>1. /\ QueueTypeOK /\ "provision" \in Kinds /\ "refresh" \in Kinds /\ "refresh" # "provision"
      /\ w \in Clients
  BY ChainTypes, LifecycleAssumption DEF JobKinds
<1>2. CASE UNCHANGED queueVars
  BY <1>2, ProvisionQuiet
<1>3. CASE \/ Begin(w) \/ Create(w) \/ Record(w) \/ Track(w)
  BY <1>2, <1>3, BeginEffect, CreateEffect, RecordEffect, TrackEffect
<1>4. CASE Later(w)
  <2>1. \/ UNCHANGED queueVars
        \/ EnqueueCheck(w, Wanted(w)) /\ Wanted(w) \in Kinds
        \/ EnqueueAlways("refresh")
        \/ EnqueueInsert(w)
    BY <1>4, KindsUsed
       DEF Later, Poll, AskProvider, Apply, Successor, ExpireSession, ReadyFlag, ReadySend,
           EndFlag, EndSend,
           Destroy, Untrack, Close, Enqueue, OnlyExternal, OnlyRow
  <2>2. checked[w] # "provision"
    BY <1>4, LaterPlace DEF AllSafe, MakeSafe
  <2> QED
    BY <1>1, <2>1, <2>2, ProvisionQuiet
<1>5. CASE Finish(w) \/ Retry(w)
  <2>1. PICK s \in {"done", "failed", "queued"} :
          /\ Release(w, cur[w], s)
          /\ pc[w] = "finish" => s = "done" /\ dep' = dep
          /\ pc[w] = "retry" /\ s # "queued" /\ Kind(w) = "provision" => dep'.status = "failed"
    BY <1>5, EndEffect
  <2>2. cur[w] \in JobIds
    BY <1>5, EndEffect
  <2>3. CASE Kind(w) = "provision" => s = "queued"
    <3>1. Release(w, cur[w], s) /\ (jobs[cur[w]].kind = "provision" => s = "queued")
      BY <2>1, <2>3 DEF Kind
    <3> QED
      BY <2>2, <3>1, ProvisionQuiet
  <2>4. CASE Kind(w) = "provision" /\ s # "queued"
    <3>1. ChanceLess("provision")
      BY <1>1, <2>1, <2>2, <2>4, EndCount DEF Kind
    <3>2. Finish(w) \/ (Retry(w) /\ dep'.status = "failed")
      <4>1. Retry(w) => pc[w] = "retry"
        BY DEF Retry, At
      <4> QED
        BY <1>5, <2>1, <2>4, <4>1
    <3> QED
      BY <2>4, <3>1, <3>2
  <2> QED
    BY <2>3, <2>4
<1>6. CASE ClaimJobs(w) \/ Breaks(w)
  BY <1>6, ClaimEffect, DeathEffect, ProvisionQuiet
<1>7. CASE Reconcile(w)
  <2>1. \/ UNCHANGED queueVars
        \/ \E k \in todo[w] \ {"ledger"} : EnqueueCheck(w, k)
        \/ \E k \in todo[w] \ {"ledger"} :
             checked[w] = k /\ EnqueueInsert(w) /\ todo'[w] = todo[w] \ {k}
    BY <1>7, ReconcileEffect DEF AllSafe, MakeSafe
  <2>2. todo[w] \ {"ledger"} \subseteq Kinds
    BY TypeParts DEF WorkerTypeOK
  <2>3. CASE \E k \in todo[w] \ {"ledger"} :
               checked[w] = k /\ EnqueueInsert(w) /\ todo'[w] = todo[w] \ {k}
    <3>1. PICK k \in todo[w] \ {"ledger"} :
            checked[w] = k /\ EnqueueInsert(w) /\ todo'[w] = todo[w] \ {k}
      BY <2>3
    <3>2. CASE k = "provision"
      <4>1. OneChance("provision")
        BY <1>1, <3>1, <3>2, InsertSameCount DEF EnqueueInsert
      <4> QED
        BY <1>7, <3>1, <3>2, <4>1
    <3>3. CASE k # "provision"
      BY <1>1, <3>1, <3>3, ProvisionQuiet
    <3> QED
      BY <3>2, <3>3
  <2>4. CASE UNCHANGED queueVars \/ \E k \in todo[w] \ {"ledger"} : EnqueueCheck(w, k)
    <3>1. UNCHANGED queueVars \/ \E k \in Kinds : EnqueueCheck(w, k)
      BY <2>2, <2>4
    <3> QED
      BY <1>1, <3>1, ProvisionQuiet
  <2> QED
    BY <2>1, <2>3, <2>4
<1> QED
  BY <1>3, <1>4, <1>5, <1>6, <1>7 DEF WorkerStep, JobStep, Later

LEMMA AwayQueue ==
    ASSUME TypeOK, ApiMakesNone, Tally("provision"), Away
    PROVE  ProvisionKept
<1>1. \/ UNCHANGED queueVars
      \/ (\E hs \in SUBSET Handlers : CrashApi(hs))
      \/ \E h \in Handlers : EnqueueCheck(h, ApiWanted(h)) \/ EnqueueInsert(h)
  BY DEF Away, ApiReads, ApiOnly, ApiCommits, ApiEnqueues, ApiDies, Expire, Vanish, OnlyExternal,
         queueVars
<1>2. \A h \in Handlers : h \in Clients /\ ApiWanted(h) \in Kinds /\ checked[h] # "provision"
  BY KindsUsed DEF ApiMakesNone
<1> QED
  BY <1>1, <1>2, ProvisionQuiet

LEMMA TallyStep ==
    ASSUME TypeOK, AllSafe, ApiMakesNone, Tally("provision"), Next
    PROVE  Tally("provision")'
BY WorkerQueue, AwayQueue, NextSteps DEF ProvisionKept, NoChance, ChanceLess, OneChance

LEMMA FiniteStep ==
    ASSUME TypeOK, TypeOK', AllSafe, IsFiniteSet(Strays(cloud)), Next
    PROVE  IsFiniteSet(Strays(cloud)')
<1>1. CASE \E w \in Workers : WorkerStep(w)
  <2>1. PICK w \in Workers : WorkerStep(w)
    BY <1>1
  <2>2. Strays(cloud)' \subseteq Strays(cloud) \cup {dep.inst, ans[w].inst}
    <3>1. CASE Record(w)
      BY <2>1, <3>1, WorkerStrays
    <3>2. CASE ~Record(w)
      BY <2>1, <3>2, WorkerStrays, RowNames
    <3> QED
      BY <3>1, <3>2
  <2>3. Strays(cloud)' \subseteq (Strays(cloud) \cup {dep.inst}) \cup {ans[w].inst}
    BY <2>2
  <2> QED
    BY <2>3, FS_AddElement, FS_Subset
<1>2. CASE Away
  <2>1. Strays(cloud)' \subseteq Strays(cloud)
    BY <1>2, AwayStrays
  <2> QED
    BY <2>1, FS_Subset
<1> QED
  BY <1>1, <1>2, NextSteps

-----------------------------------------------------------------------------
(* The bounds, from one state to the next *)

\* All that is counted is finite, before a step and after it.
Counted ==
    /\ TypeOK /\ TypeOK' /\ Workers # {}
    /\ Tally("provision") /\ Tally("provision")'
    /\ IsFiniteSet(Strays(cloud)) /\ IsFiniteSet(Strays(cloud)')

LEMMA Numerals ==
    ASSUME Counted
    PROVE  /\ Lost \in Nat /\ Yet \in Nat /\ Ending \in Nat /\ Making \in Nat /\ Paid \in Nat
           /\ Lost' \in Nat /\ Yet' \in Nat /\ Ending' \in Nat /\ Making' \in Nat /\ Paid' \in Nat
           /\ Chances("provision") \in Nat /\ Chances("provision")' \in Nat
           /\ Spare \in Nat /\ Spare' = Spare
<1>1. Spare' = Spare
  BY DEF Spare
<1> QED
  BY <1>1, Counts, CountsAfter, SpareCount DEF Counted

LEMMA OneKept ==
    ASSUME Counted, One, Found("provision")', Finishing("provision")' = {},
           \A w \in Workers : checked'[w] # "provision",
           Lost' + Chances("provision")' + Paid <= Lost + Chances("provision") + Paid'
    PROVE  One'
<1>1. Lost + Chances("provision") <= Paid + 1
  BY DEF One
<1>2. Lost' + Chances("provision")' <= Paid' + 1
  BY <1>1, Numerals
<1> QED
  BY <1>2 DEF One

LEMMA OneToLate ==
    ASSUME Counted, One, dep'.status # "queued",
           Lost' + Chances("provision")' + Yet' + Paid + 1
             <= Lost + Chances("provision") + Paid' + Spare + Ending'
    PROVE  LateOnes'
<1>1. Lost + Chances("provision") <= Paid + 1
  BY DEF One
<1>2. Lost' + Chances("provision")' + Yet' <= Paid' + Spare + Ending'
  BY <1>1, Numerals
<1> QED
  BY <1>2, Numerals DEF LateOnes

LEMMA LateKept ==
    ASSUME Counted, LateOnes, dep'.status # "queued",
           Lost' + Chances("provision")' + Yet' + Paid + Ending
             <= Lost + Chances("provision") + Yet + Paid' + Ending'
    PROVE  LateOnes'
<1>1. Lost + Chances("provision") + Yet <= Paid + Spare + Ending
  BY DEF LateOnes
<1>2. Lost' + Chances("provision")' + Yet' <= Paid' + Spare + Ending'
  BY <1>1, Numerals
<1> QED
  BY <1>2, Numerals DEF LateOnes

LEMMA RecordedKept ==
    ASSUME Counted, Recorded, Lost' + Making' + Paid <= Lost + Making + Paid'
    PROVE  Recorded'
<1>1. Lost + Making <= Paid + Spare
  BY DEF Recorded
<1>2. Lost' + Making' <= Paid' + Spare
  BY <1>1, Numerals
<1> QED
  BY <1>2, Numerals DEF Recorded

\* A worker who expects none, and a second one
LEMMA SpareOf ==
    ASSUME Counted, NEW w \in Workers, w \notin Expecting'
    PROVE  /\ Yet' <= Spare
           /\ \A v \in Workers \ {w} : v \notin Expecting' => Yet' + 1 <= Spare
<1>1. Expecting' \subseteq Workers \ {w} /\ IsFiniteSet(Workers)
  BY LifecycleAssumption DEF Expecting
<1>2. IsFiniteSet(Workers \ {w}) /\ Cardinality(Workers \ {w}) = Spare
  BY <1>1, FS_RemoveElement DEF Spare
<1>3. Cardinality(Expecting') <= Cardinality(Workers \ {w})
  BY <1>1, <1>2, FS_Subset
<1>4. ASSUME NEW v \in Workers \ {w}, v \notin Expecting' PROVE Yet' + 1 <= Spare
  <2>1. IsFiniteSet((Workers \ {w}) \ {v}) /\ Cardinality((Workers \ {w}) \ {v}) = Spare - 1
    BY <1>2, FS_RemoveElement
  <2>2. Expecting' \subseteq (Workers \ {w}) \ {v}
    BY <1>1, <1>4
  <2>3. Cardinality(Expecting') <= Cardinality((Workers \ {w}) \ {v})
    BY <2>1, <2>2, FS_Subset
  <2>4. Yet' <= Spare - 1
    BY <2>1, <2>3 DEF Yet
  <2> QED
    BY <2>4, Numerals
<1>5. Yet' <= Spare
  BY <1>2, <1>3 DEF Yet
<1> QED
  BY <1>4, <1>5

\* Fewer may be lost than the crashes pay for, when nobody gets a chance more.
LEMMA Load ==
    ASSUME Counted, NoChance("provision"), Lost' + crashes <= Lost + crashes'
    PROVE  Lost' + Chances("provision")' + Paid <= Lost + Chances("provision") + Paid'
<1> DEFINE c == Chances("provision") c2 == Chances("provision")' l == Lost l2 == Lost'
           k == crashes k2 == crashes' o == overtakes o2 == overtakes'
<1>1. c \in Nat /\ c2 \in Nat /\ l \in Nat /\ l2 \in Nat
  BY Numerals
<1>2. k \in Nat /\ o \in Nat /\ k2 \in Nat /\ o2 \in Nat
  BY ChainTypes, QueueAssumption DEF Counted, TypeOK, QueueTypeOK
<1>3. c2 + o <= c + o2 /\ l2 + k <= l + k2
  BY DEF NoChance
<1> HIDE DEF c, c2, l, l2, k, k2, o, o2
<1>4. l2 + c2 + (k + o) <= l + c + (k2 + o2)
  BY <1>1, <1>2, <1>3
<1> QED
  BY <1>4 DEF c, c2, l, l2, k, k2, o, o2, Paid

\* How many droplets a step may lose
LEMMA LostNone ==
    ASSUME Counted, Strays(cloud)' \subseteq Strays(cloud)
    PROVE  Lost' <= Lost
BY FS_Subset DEF Counted, Lost

LEMMA LostOne ==
    ASSUME Counted, NEW d, Strays(cloud)' \subseteq Strays(cloud) \cup {d}
    PROVE  Lost' <= Lost + 1
BY OneMore DEF Counted, Lost

-----------------------------------------------------------------------------
(* Until a droplet is recorded *)

\* A step between states of which the other parts of the invariant are known
Alert ==
    /\ Counted /\ EarlyInv /\ EarlyInv' /\ AllSafe /\ AllSafe' /\ Next
    /\ \A v \in Workers : AtWork(v)

LEMMA LateLasts ==
    ASSUME Alert, LateOnes
    PROVE  dep'.status # "queued" /\ Yet' <= Yet
<1>1. dep.status # "queued" /\ TypeOK /\ \A v \in Workers : PollsLate(v)
  BY EarlyParts DEF Alert, Counted, LateOnes
<1>2. dep'.status # "queued"
  BY <1>1, NeverQueued DEF Alert
<1>3. Expecting' \subseteq Expecting
  BY <1>1, ExpectingShrinks DEF Alert
<1>4. IsFiniteSet(Expecting)
  BY LifecycleAssumption, FS_Subset DEF Expecting
<1> QED
  BY <1>2, <1>3, <1>4, FS_Subset DEF Yet

LEMMA CrewCounts ==
    ASSUME Alert, NEW w \in Workers, WorkerStep(w)
    PROVE  /\ w \notin Finishing("provision") => Ending <= Ending'
           /\ w \notin Finishing("provision") /\ w \in Finishing("provision")' => Ending' = Ending + 1
           /\ w \in Finishing("provision") /\ w \notin Finishing("provision")' => Ending' + 1 = Ending
           /\ w \in Expecting /\ w \notin Expecting' => Yet' + 1 = Yet
           /\ Finishing("provision") = {} /\ w \notin Finishing("provision")' =>
                Finishing("provision")' = {}
<1>1. OthersIdle(w) /\ \A v \in Workers : AtWork(v)
  BY StepAlone DEF Alert, Counted, WorkerStep
<1>2. /\ Expecting' \subseteq Workers /\ Expecting' \ {w} = Expecting \ {w}
      /\ Expecting \subseteq Workers
      /\ Finishing("provision")' \subseteq Workers /\ Finishing("provision") \subseteq Workers
      /\ Finishing("provision")' \ {w} = Finishing("provision") \ {w}
  BY <1>1, CrewsAfter
<1>3. /\ w \notin Finishing("provision") => Ending <= Ending'
      /\ w \notin Finishing("provision") /\ w \in Finishing("provision")' => Ending' = Ending + 1
      /\ w \in Finishing("provision") /\ w \notin Finishing("provision")' => Ending' + 1 = Ending
  <2>1. /\ Cardinality(Finishing("provision")) \in Nat /\ Cardinality(Finishing("provision")') \in Nat
        /\ (w \in Finishing("provision") <=> w \in Finishing("provision")') =>
             Cardinality(Finishing("provision")) = Cardinality(Finishing("provision")')
        /\ w \in Finishing("provision") /\ w \notin Finishing("provision")' =>
             Cardinality(Finishing("provision")) = Cardinality(Finishing("provision")') + 1
        /\ w \notin Finishing("provision") /\ w \in Finishing("provision")' =>
             Cardinality(Finishing("provision")) + 1 = Cardinality(Finishing("provision")')
    BY <1>2, Shift
  <2> QED
    BY <2>1 DEF Ending
<1>4. w \in Expecting /\ w \notin Expecting' => Yet' + 1 = Yet
  BY <1>2, Shift DEF Yet
<1>5. Finishing("provision") = {} /\ w \notin Finishing("provision")' => Finishing("provision")' = {}
  BY <1>2
<1> QED
  BY <1>3, <1>4, <1>5

\* A worker about to finish the provision job expects none; the session is not queued.
LEMMA FinisherExpectsNone ==
    ASSUME Alert, NEW w \in Workers, pc'[w] \in {"finish", "idle"}
    PROVE  /\ w \notin Expecting'
           /\ pc'[w] = "finish" => dep'.status # "queued"
<1>1. MakeSafe(w)' /\ EarlyInv'
  BY DEF Alert, AllSafe
<1>2. w \notin Expecting'
  BY <1>1 DEF MakeSafe, Expecting
<1>3. pc'[w] = "finish" => dep'.status # "queued"
  BY <1>1 DEF EarlyInv
<1> QED
  BY <1>2, <1>3

LEMMA QuietBound ==
    ASSUME Alert, NEW w \in Workers, WorkerStep(w), One \/ LateOnes, ProvisionKept,
           Lost' + crashes <= Lost + crashes', w \notin Finishing("provision"),
           checked'[w] = "provision" => checked[w] = "provision" \/ ~Found("provision")
    PROVE  One' \/ LateOnes'
<1>1. NoChance("provision") /\ Counted
  BY DEF ProvisionKept, Alert
<1>2. Lost' + Chances("provision")' + Paid <= Lost + Chances("provision") + Paid'
  BY <1>1, Load
<1>3. CASE One /\ w \notin Finishing("provision")'
  <2>1. Finishing("provision")' = {}
    BY <1>3, CrewCounts DEF One
  <2>2. \A v \in Workers : checked'[v] # "provision"
    <3>1. OthersIdle(w)
      BY StepAlone DEF Alert, Counted, WorkerStep
    <3> QED
      BY <1>3, <3>1 DEF One, OthersIdle, Idles, Stays
  <2>3. Found("provision")'
    BY <1>3 DEF ProvisionKept, One, Found
  <2> QED
    BY <1>1, <1>2, <1>3, <2>1, <2>2, <2>3, OneKept
<1>4. CASE One /\ w \in Finishing("provision")'
  <2>1. pc'[w] = "finish"
    BY <1>4 DEF Finishing, At
  <2>2. w \notin Expecting' /\ dep'.status # "queued"
    BY <2>1, FinisherExpectsNone
  <2>3. Yet' <= Spare /\ Ending' = Ending + 1
    BY <1>1, <1>4, <2>2, SpareOf, CrewCounts
  <2>4. Lost' + Chances("provision")' + Yet' + Paid + 1
          <= Lost + Chances("provision") + Paid' + Spare + Ending'
    BY <1>1, <1>2, <2>3, Numerals
  <2> QED
    BY <1>1, <1>4, <2>2, <2>4, OneToLate
<1>5. CASE LateOnes
  <2>1. dep'.status # "queued" /\ Yet' <= Yet /\ Ending <= Ending'
    BY <1>5, LateLasts, CrewCounts
  <2>2. Lost' + Chances("provision")' + Yet' + Paid + Ending
          <= Lost + Chances("provision") + Yet + Paid' + Ending'
    BY <1>1, <1>2, <2>1, Numerals
  <2> QED
    BY <1>1, <1>5, <2>1, <2>2, LateKept
<1> QED
  BY <1>3, <1>4, <1>5

\* What a worker's step adds to the price of the droplets
LEMMA CrashesPaid ==
    ASSUME TypeOK, AllSafe, NEW w \in Workers, WorkerStep(w)
    PROVE  /\ Breaks(w) => crashes' = crashes + 1
           /\ ~Breaks(w) => crashes' = crashes
<1>1. ASSUME Begin(w) \/ Create(w) \/ Record(w) \/ Track(w)
      PROVE  crashes' = crashes
  BY <1>1, BeginEffect, CreateEffect, RecordEffect, TrackEffect DEF queueVars
<1>2. ASSUME Later(w) \/ Finish(w) \/ Retry(w) PROVE crashes' = crashes
  BY <1>2, LaterRow, EndEffect
<1>3. ASSUME ClaimJobs(w) \/ Reconcile(w) PROVE crashes' = crashes
  BY <1>3, ClaimEffect, ReconcileEffect DEF AllSafe, MakeSafe
<1>4. Breaks(w) => crashes' = crashes + 1
  BY DeathEffect
<1> QED
  BY <1>1, <1>2, <1>3, <1>4 DEF WorkerStep, JobStep, Later

\* Which step a worker takes, by where it is
LEMMA StepFrom ==
    ASSUME TypeOK, AllSafe, NEW w \in Workers, WorkerStep(w)
    PROVE  /\ pc[w] = "finish" => Finish(w) \/ Breaks(w)
           /\ pc[w] = "track" => Track(w) \/ Breaks(w)
           /\ pc'[w] = "reconcile" => Reconcile(w)
           /\ Track(w) => pc[w] = "track"
<1>1. /\ Begin(w) => pc[w] = "idle" /\ pc'[w] # "reconcile"
      /\ Create(w) => pc[w] = "create" /\ pc'[w] # "reconcile"
      /\ Record(w) => pc[w] = "record" /\ pc'[w] # "reconcile"
      /\ Track(w) => pc[w] = "track" /\ pc'[w] # "reconcile"
  BY BeginEffect, CreateEffect, RecordEffect, TrackEffect
<1>2. /\ Later(w) => pc[w] \notin {"finish", "track"} /\ pc'[w] # "reconcile"
      /\ Finish(w) \/ Retry(w) => pc'[w] = "idle"
      /\ Retry(w) => pc[w] = "retry"
      /\ Finish(w) => pc[w] = "finish"
  BY LaterPlace, EndEffect DEF Retry, Finish, At
<1>3. /\ ClaimJobs(w) => pc[w] = "idle" /\ pc'[w] = pc[w]
      /\ Reconcile(w) => pc[w] \in {"idle", "reconcile"}
      /\ Breaks(w) => pc'[w] # "reconcile"
  BY ClaimEffect, ReconcileEffect, DeathEffect DEF AllSafe, MakeSafe, workerVars
<1> QED
  BY <1>1, <1>2, <1>3 DEF WorkerStep, JobStep, Later

\* Who comes to insert a provision job, and whether the table had none
LEMMA ChecksFirst ==
    ASSUME Alert, NEW w \in Workers, WorkerStep(w), checked'[w] = "provision"
    PROVE  checked[w] = "provision" \/ ~Found("provision")
<1>1. /\ TypeOK /\ AllSafe /\ MakeSafe(w)' /\ w \in Clients /\ NoKind # "provision"
      /\ checked \in [Clients -> Kinds \cup {NoKind}]
  BY ChainTypes, QueueAssumption, LifecycleAssumption DEF Alert, Counted, AllSafe, JobKinds
<1>2. pc'[w] = "reconcile"
  BY <1>1 DEF MakeSafe
<1>3. Reconcile(w)
  BY <1>1, <1>2, StepFrom
<1>4. \/ UNCHANGED queueVars
      \/ \E k \in todo[w] \ {"ledger"} : EnqueueCheck(w, k)
      \/ EnqueueInsert(w)
  BY <1>1, <1>3, ReconcileEffect DEF MakeSafe, AllSafe
<1>5. CASE \E k \in todo[w] \ {"ledger"} : EnqueueCheck(w, k)
  BY <1>1, <1>5 DEF EnqueueCheck
<1>6. ~EnqueueInsert(w)
  BY <1>1 DEF EnqueueInsert
<1> QED
  BY <1>4, <1>5, <1>6 DEF queueVars

LEMMA WorkerBound ==
    ASSUME Alert, NEW w \in Workers, WorkerStep(w), One \/ LateOnes,
           dep.inst = None, dep'.inst = None
    PROVE  One' \/ LateOnes'
<1>1. /\ Counted /\ TypeOK /\ TypeOK' /\ AllSafe /\ EarlyInv /\ AtWork(w) /\ MakeSafe(w)
      /\ Tally("provision") /\ QueueTypeOK /\ "provision" \in Kinds
  BY ChainTypes, LifecycleAssumption DEF Alert, Counted, AllSafe, JobKinds
<1>2. ~Track(w)
  BY <1>1, StepFrom DEF MakeSafe, At
<1>3. crashes \in Nat /\ Lost \in Nat /\ Lost' \in Nat
  BY <1>1, ChainTypes, Numerals
<1>4. Strays(cloud)' \subseteq Strays(cloud) \cup {ans[w].inst} /\ Lost' <= Lost + 1
  <2>1. Strays(cloud)' \subseteq Strays(cloud) \cup {ans[w].inst}
    BY <1>1, WorkerStrays
  <2> QED
    BY <1>1, <2>1, LostOne
<1>5. ~Record(w) /\ ~Breaks(w) => Lost' <= Lost /\ crashes' = crashes
  BY <1>1, <1>2, WorkerStrays, LostNone, CrashesPaid
<1>6. ~Record(w) => Lost' + crashes <= Lost + crashes'
  <2>1. CASE Breaks(w)
    BY <1>1, <1>3, <1>4, <2>1, CrashesPaid
  <2> QED
    BY <1>1, <1>3, <1>5, <2>1
<1>7. w \in Finishing("provision") => pc[w] = "finish" /\ Kind(w) = "provision" /\ LateOnes
  BY DEF Finishing, At, One
<1>8. CASE Record(w)
  <2>1. /\ UNCHANGED queueVars /\ ~InSession /\ dep' = dep /\ pc'[w] = "finish"
        /\ pc[w] = "record" /\ cur'[w] = cur[w] /\ Kind(w) = "provision"
    BY <1>1, <1>8, RecordEffect DEF MakeSafe, At
  <2>2. w \notin Finishing("provision") /\ w \in Finishing("provision")'
    BY <2>1 DEF Finishing, At, Kind, queueVars
  <2>3. Ending' = Ending + 1
    BY <2>2, CrewCounts
  <2>4. Chances("provision")' = Chances("provision") /\ Paid' = Paid
    BY <2>1 DEF Chances, Waiting, Holdings, ActiveOfKind, Active, Held, Paid, queueVars
  <2>5. dep'.status # "queued" /\ w \notin Expecting'
    BY <2>1, FinisherExpectsNone
  <2>6. CASE One
    <3>1. PICK v \in Workers \ {w} : v \notin Expecting
      BY <1>1, <2>1 DEF MakeSafe
    <3>2. v \notin Expecting'
      <4>1. OthersIdle(w)
        BY <1>1, StepAlone DEF WorkerStep
      <4> QED
        BY <3>1, <4>1 DEF OthersIdle, Idles, Expecting
    <3>3. Yet' + 1 <= Spare
      BY <1>1, <2>5, <3>2, SpareOf
    <3>4. Lost' + Chances("provision")' + Yet' + Paid + 1
            <= Lost + Chances("provision") + Paid' + Spare + Ending'
      BY <1>1, <1>4, <2>3, <2>4, <3>3, Numerals
    <3> QED
      BY <1>1, <2>5, <2>6, <3>4, OneToLate
  <2>7. CASE LateOnes
    <3>1. Yet' <= Yet
      BY <2>7, LateLasts
    <3>2. Lost' + Chances("provision")' + Yet' + Paid + Ending
            <= Lost + Chances("provision") + Yet + Paid' + Ending'
      BY <1>1, <1>4, <2>3, <2>4, <3>1, Numerals
    <3> QED
      BY <1>1, <2>5, <2>7, <3>2, LateKept
  <2> QED
    BY <2>6, <2>7
<1>9. CASE ~Record(w) /\ w \notin Finishing("provision") /\ ProvisionKept
  BY <1>6, <1>9, ChecksFirst, QuietBound
<1>10. ASSUME w \in Finishing("provision"), Finish(w)
       PROVE  LateOnes'
  <2>1. /\ Release(w, cur[w], "done") /\ cur[w] \in JobIds /\ pc'[w] = "idle"
        /\ UNCHANGED <<crashes, overtakes>>
    BY <1>1, <1>7, <1>10, EndEffect
  <2>2. ChanceLess("provision")
    BY <1>1, <1>7, <1>10, <2>1, EndCount DEF Kind
  <2>3. Ending' + 1 = Ending /\ Lost' <= Lost
    <3>1. w \notin Finishing("provision")'
      BY <2>1 DEF Finishing, At
    <3>2. ~Record(w) /\ ~Breaks(w)
      BY <1>10, <2>1, CrashesPaid, <1>3, <1>1 DEF Finish, Record, At
    <3> QED
      BY <1>5, <1>10, <3>1, <3>2, CrewCounts
  <2>4. LateOnes /\ dep'.status # "queued" /\ Yet' <= Yet
    BY <1>7, <1>10, LateLasts
  <2>5. Chances("provision")' + 1 <= Chances("provision") /\ Paid' = Paid
    BY <2>1, <2>2 DEF ChanceLess, Paid
  <2>6. Lost' + Chances("provision")' + Yet' + Paid + Ending
          <= Lost + Chances("provision") + Yet + Paid' + Ending'
    BY <1>1, <2>3, <2>4, <2>5, Numerals
  <2> QED
    BY <1>1, <2>4, <2>6, LateKept
<1>11. ASSUME w \in Finishing("provision"), Breaks(w)
       PROVE  LateOnes'
  <2>1. ans[w].inst = None
    BY <1>1, <1>7, <1>11 DEF MakeSafe
  <2>2. Lost' <= Lost
    <3>1. dep' = dep
      BY <1>1, <1>11, DeathEffect
    <3>2. Strays(cloud)' \subseteq Strays(cloud)
      BY <1>1, <2>1, <3>1, WorkerStrays
    <3> QED
      BY <1>1, <3>2, LostNone
  <2>3. Ending' + 1 = Ending
    <3>1. w \notin Finishing("provision")'
      BY <1>1, <1>11, DeathEffect DEF Finishing, At
    <3> QED
      BY <1>11, <3>1, CrewCounts
  <2>4. LateOnes /\ dep'.status # "queued" /\ Yet' <= Yet
    BY <1>7, <1>11, LateLasts
  <2>5. NoChance("provision") /\ crashes' = crashes + 1 /\ overtakes' = overtakes
    BY <1>1, <1>11, DeathEffect, CrashOfCount
  <2>6. Chances("provision")' <= Chances("provision") /\ Paid' = Paid + 1
    <3>1. overtakes \in Nat
      BY <1>1, ChainTypes
    <3> QED
      BY <1>1, <1>3, <2>5, <3>1, NoChanceLeq DEF Paid
  <2>7. Lost' + Chances("provision")' + Yet' + Paid + Ending
          <= Lost + Chances("provision") + Yet + Paid' + Ending'
    BY <1>1, <2>2, <2>3, <2>4, <2>6, Numerals
  <2> QED
    BY <1>1, <2>4, <2>7, LateKept
<1>12. CASE w \notin Finishing("provision") /\ ~ProvisionKept /\ ~Record(w)
  <2>1. CASE /\ Finish(w) \/ (Retry(w) /\ dep'.status = "failed")
             /\ ChanceLess("provision") /\ Kind(w) = "provision"
    <3>1. Retry(w) /\ dep'.status = "failed"
      BY <1>12, <2>1 DEF Finish, Finishing
    <3>2. /\ Chances("provision")' + 1 <= Chances("provision") /\ Paid' = Paid
          /\ pc'[w] = "idle" /\ Lost' <= Lost
      <4>1. UNCHANGED <<crashes, overtakes>> /\ pc'[w] = "idle"
        BY <1>1, <3>1, EndEffect
      <4>2. ~Breaks(w)
        BY <1>1, <1>3, <4>1, CrashesPaid
      <4> QED
        BY <1>5, <1>12, <2>1, <4>1, <4>2 DEF ChanceLess, Paid
    <3>3. w \notin Expecting' /\ Yet' <= Spare /\ Ending <= Ending'
      BY <1>1, <1>12, <3>2, FinisherExpectsNone, SpareOf, CrewCounts
    <3>4. CASE One
      <4>1. Lost' + Chances("provision")' + Yet' + Paid + 1
              <= Lost + Chances("provision") + Paid' + Spare + Ending'
        BY <1>1, <3>2, <3>3, Numerals
      <4> QED
        BY <1>1, <3>1, <3>4, <4>1, OneToLate
    <3>5. CASE LateOnes
      <4>1. Yet' <= Yet
        BY <3>5, LateLasts
      <4>2. Lost' + Chances("provision")' + Yet' + Paid + Ending
              <= Lost + Chances("provision") + Yet + Paid' + Ending'
        BY <1>1, <3>2, <3>3, <4>1, Numerals
      <4> QED
        BY <1>1, <3>1, <3>5, <4>2, LateKept
    <3> QED
      BY <3>4, <3>5
  <2>2. CASE /\ Reconcile(w) /\ OneChance("provision") /\ checked[w] = "provision"
             /\ "provision" \in todo[w] /\ todo'[w] = todo[w] \ {"provision"}
    <3>1. LateOnes
      BY <2>2 DEF One
    <3>2. UNCHANGED <<crashes, overtakes>>
      BY <1>1, <2>2, ReconcileEffect DEF MakeSafe
    <3>3. Lost' <= Lost
      <4>1. ~Breaks(w)
        BY <1>1, <1>3, <3>2, CrashesPaid
      <4> QED
        BY <1>5, <1>12, <4>1
    <3>4. dep'.status # "queued" /\ Yet' + 1 = Yet /\ Ending <= Ending'
      <4>1. w \in Expecting /\ w \notin Expecting'
        BY <2>2 DEF Expecting
      <4> QED
        BY <1>12, <3>1, <4>1, LateLasts, CrewCounts
    <3>5. Chances("provision")' <= Chances("provision") + 1 /\ Paid' = Paid
      BY <2>2, <3>2 DEF OneChance, Paid
    <3>6. Lost' + Chances("provision")' + Yet' + Paid + Ending
            <= Lost + Chances("provision") + Yet + Paid' + Ending'
      BY <1>1, <3>3, <3>4, <3>5, Numerals
    <3> QED
      BY <1>1, <3>1, <3>4, <3>6, LateKept
  <2> QED
    BY <1>1, <1>12, <2>1, <2>2, WorkerQueue
<1> QED
  <2>1. w \in Finishing("provision") => Finish(w) \/ Breaks(w)
    BY <1>1, <1>7, StepFrom
  <2> QED
    BY <1>8, <1>9, <1>10, <1>11, <1>12, <2>1

\* The API, the clock and the provider take no part in it.
LEMMA AwayBound ==
    ASSUME Alert, Away, ApiMakesNone, Bound
    PROVE  Bound'
<1>1. /\ Counted /\ TypeOK /\ TypeOK' /\ Tally("provision") /\ (\A v \in Workers : AtWork(v))
  BY DEF Alert, Counted
<1>2. (\A v \in Workers : Idles(v)) /\ UNCHANGED workerVars /\ dep'.inst = dep.inst
      /\ overtakes' = overtakes
  BY <1>1, AwayAlone, AwayEffect
<1>3. Strays(cloud)' \subseteq Strays(cloud) /\ Lost' <= Lost
  BY <1>1, AwayStrays, LostNone
<1>4. crashes \in Nat /\ crashes' \in Nat /\ overtakes \in Nat /\ crashes <= crashes'
  <2>1. crashes' = crashes \/ crashes' = crashes + 1
    BY DEF Away, ApiReads, ApiOnly, ApiCommits, ApiEnqueues, EnqueueCheck, EnqueueInsert, ApiDies,
           CrashApi, Lapse, Expire, Vanish, OnlyExternal, queueVars
  <2> QED
    BY <1>1, <2>1, ChainTypes
<1>5. ProvisionKept /\ NoChance("provision")
  BY <1>1, AwayQueue DEF ProvisionKept
<1>6. Lost' + Chances("provision")' + Paid <= Lost + Chances("provision") + Paid'
  <2>1. Lost' + crashes <= Lost + crashes'
    BY <1>1, <1>3, <1>4, Numerals
  <2> QED
    BY <1>1, <1>5, <2>1, Load
<1>7. Finishing("provision")' = Finishing("provision") /\ Ending' = Ending
  <2>1. ASSUME NEW v \in Workers
        PROVE  v \in Finishing("provision")' <=> v \in Finishing("provision")
    <3>1. pc'[v] = pc[v] /\ cur'[v] = cur[v] /\ KindsKept(v) /\ AtWork(v)
      BY <1>1, <1>2 DEF Idles, Stays
    <3> QED
      BY <3>1 DEF Finishing, At, Kind, AtWork, KindsKept
  <2>2. Finishing("provision")' = Finishing("provision")
    BY <2>1 DEF Finishing
  <2> QED
    BY <2>2 DEF Ending
<1>8. Yet' = Yet /\ Makers' = Makers /\ Making' = Making
  BY <1>2 DEF workerVars, Expecting, Yet, Makers, Making, At
<1>9. CASE dep.inst = None
  <2>1. CASE One
    <3>1. \A v \in Workers : checked'[v] # "provision"
      BY <1>2, <2>1 DEF One, Idles, Stays
    <3>2. Found("provision")'
      BY <1>5, <2>1 DEF ProvisionKept, One, Found
    <3>3. Finishing("provision")' = {}
      BY <1>7, <2>1 DEF One
    <3>4. One'
      BY <1>1, <1>6, <2>1, <3>1, <3>2, <3>3, OneKept
    <3> QED
      BY <1>2, <1>9, <3>4 DEF Bound
  <2>2. CASE LateOnes
    <3>1. dep'.status # "queued"
      BY <2>2, LateLasts
    <3>2. Lost' + Chances("provision")' + Yet' + Paid + Ending
            <= Lost + Chances("provision") + Yet + Paid' + Ending'
      BY <1>1, <1>6, <1>7, <1>8, Numerals
    <3>3. LateOnes'
      BY <1>1, <2>2, <3>1, <3>2, LateKept
    <3> QED
      BY <1>2, <1>9, <3>3 DEF Bound
  <2> QED
    BY <1>9, <2>1, <2>2 DEF Bound
<1>10. CASE dep.inst # None
  <2>1. Paid <= Paid'
    <3>1. crashes + overtakes <= crashes' + overtakes
      BY <1>4, Grows
    <3> QED
      BY <1>2, <3>1 DEF Paid
  <2>2. Lost' + Making' + Paid <= Lost + Making + Paid'
    BY <1>1, <1>3, <1>8, <2>1, Numerals
  <2>3. Recorded /\ dep'.inst # None
    BY <1>2, <1>10 DEF Bound
  <2>4. Recorded'
    BY <1>1, <2>2, <2>3, RecordedKept
  <2> QED
    BY <2>3, <2>4 DEF Bound
<1> QED
  BY <1>9, <1>10

-----------------------------------------------------------------------------
(* When the first droplet is recorded *)

\* Everybody who makes a droplet, has made one or is about to finish the job has a chance.
LEMMA HandsHold ==
    ASSUME TypeOK, Tally("provision"), NEW S, S \subseteq Workers,
           \A v \in S : cur[v] \in held[v] /\ Kind(v) = "provision"
    PROVE  Cardinality(S) <= Chances("provision")
<1> DEFINE H == Holdings("provision")
           mine == [v \in S |-> <<v, cur[v]>>]
<1>1. /\ IsFiniteSet(H) /\ Finite("provision") /\ TypeOK /\ QueueTypeOK
  BY ChainTypes DEF Tally, Finite
<1>2. \A v \in S : mine[v] \in H
  <2> TAKE v \in S
  <2>1. cur[v] \in JobIds /\ v \in Workers /\ cur[v] \in held[v] /\ jobs[cur[v]].kind = "provision"
    BY <1>1, HeldIsRow DEF Kind
  <2> QED
    BY <2>1 DEF Holdings
<1>3. mine \in Injection(S, H)
  <2>1. mine \in [S -> H]
    BY <1>2
  <2>2. IsInjective(mine)
    BY DEF IsInjective
  <2> QED
    BY <2>1, <2>2 DEF Injection
<1>4. Cardinality(S) <= Cardinality(H)
  BY <1>1, <1>3, FS_Injection
<1>5. Cardinality(S) \in Nat
  BY LifecycleAssumption, FS_Subset, FS_CardinalityType
<1>6. Cardinality(H) \in Nat /\ Cardinality(Waiting("provision")) \in Nat
  BY <1>1, Sizes
<1> QED
  BY <1>4, <1>5, <1>6 DEF Chances

LEMMA RecordsFirst ==
    ASSUME Alert, NEW w \in Workers, WorkerStep(w), One \/ LateOnes,
           dep.inst = None, dep'.inst # None
    PROVE  Recorded'
<1>1. /\ Counted /\ TypeOK /\ TypeOK' /\ AllSafe /\ AllSafe' /\ Next
      /\ (\A v \in Workers : AtWork(v))
  BY DEF Alert, Counted
<1>2. Record(w)
  BY <1>1, RowNames
<1>3. /\ UNCHANGED queueVars /\ pc[w] = "record" /\ pc'[w] = "track" /\ ans'[w] = ans[w]
      /\ dep'.inst = ans[w].inst
  BY <1>1, <1>2, RecordEffect
<1>4. OthersIdle(w)
  BY <1>1, StepAlone DEF WorkerStep
<1>5. Lost' <= Lost /\ Paid' = Paid
  <2>1. Strays(cloud)' \subseteq Strays(cloud)
    BY <1>1, <1>2, WorkerStrays
  <2> QED
    BY <1>1, <1>3, <2>1, LostNone DEF Paid, queueVars
<1> DEFINE F == Finishing("provision")
<1>6. /\ F \subseteq Workers /\ Makers' \subseteq Workers
      /\ w \notin F /\ w \notin Makers' /\ F \cap Makers' = {}
  <2>1. w \notin F /\ w \notin Makers'
    BY <1>3 DEF Finishing, Makers, At
  <2>2. ASSUME NEW v \in Workers, v \in F, v \in Makers' PROVE FALSE
    <3>1. v # w /\ pc[v] = "finish" /\ ans[v].inst = None
      BY <1>1, <2>1, <2>2 DEF Finishing, At, AllSafe, MakeSafe
    <3>2. pc'[v] = pc[v] /\ ans'[v] = ans[v]
      BY <1>4, <3>1 DEF OthersIdle, Idles, Stays, Rests
    <3> QED
      BY <2>2, <3>1, <3>2 DEF Makers, At
  <2> QED
    BY <2>1, <2>2 DEF Finishing, Makers
<1>7. Cardinality((F \cup Makers') \cup {w}) <= Chances("provision")
  <2>1. ASSUME NEW v \in (F \cup Makers') \cup {w}
        PROVE  cur[v] \in held[v] /\ Kind(v) = "provision"
    <3>1. v \in Workers /\ AtWork(v) /\ MakeSafe(v)
      BY <1>1, <1>6 DEF AllSafe
    <3>2. CASE v \in F
      BY <3>1, <3>2 DEF Finishing, At, AtWork
    <3>3. CASE v = w
      BY <1>3, <3>1, <3>3 DEF AtWork, MakeSafe
    <3>4. CASE v \in Makers' /\ v # w
      <4>1. pc'[v] = pc[v] /\ ans'[v] = ans[v]
        BY <1>4, <3>1, <3>4 DEF OthersIdle, Idles, Stays, Rests
      <4>2. pc[v] = "create" \/ ans[v].inst # None
        BY <3>4, <4>1 DEF Makers, At
      <4>3. pc[v] \in {"create", "record", "track"}
        BY <3>1, <4>2 DEF MakeSafe
      <4> QED
        BY <3>1, <4>3 DEF AtWork, MakeSafe
    <3> QED
      BY <2>1, <3>2, <3>3, <3>4
  <2> QED
    BY <1>1, <1>6, <2>1, HandsHold DEF Counted
<1>8. Ending + Making' + 1 <= Chances("provision")
  <2>1. IsFiniteSet(F) /\ IsFiniteSet(Makers')
    BY <1>6, LifecycleAssumption, FS_Subset
  <2>2. IsFiniteSet(F \cup Makers') /\ Cardinality(F \cup Makers') = Ending + Making'
    BY <1>6, <2>1, DisjointUnion DEF Ending, Making
  <2>3. Cardinality((F \cup Makers') \cup {w}) = Cardinality(F \cup Makers') + 1
    BY <1>6, <2>2, OneIn
  <2> QED
    BY <1>7, <2>2, <2>3
<1>9. CASE One
  <2>1. Lost + Chances("provision") <= Paid + 1
    BY <1>9 DEF One
  <2>2. Lost' + Making' <= Paid' + Spare
    BY <1>1, <1>5, <1>8, <2>1, Numerals
  <2> QED
    BY <1>1, <2>2, Numerals DEF Recorded
<1>10. CASE LateOnes
  <2>1. Lost + Chances("provision") + Yet <= Paid + Spare + Ending
    BY <1>10 DEF LateOnes
  <2>2. Lost' + Making' <= Paid' + Spare
    BY <1>1, <1>5, <1>8, <2>1, Numerals
  <2> QED
    BY <1>1, <2>2, Numerals DEF Recorded
<1> QED
  BY <1>9, <1>10

-----------------------------------------------------------------------------
(* While one is recorded: whoever makes another may lose it or the recorded one. *)

LEMMA OvertakesGrow ==
    ASSUME TypeOK, AllSafe, NEW w \in Workers, WorkerStep(w)
    PROVE  overtakes <= overtakes'
<1>1. overtakes \in Nat /\ QueueTypeOK
  BY ChainTypes
<1>2. CASE ClaimJobs(w)
  BY <1>1, <1>2, ClaimPrice DEF ClaimJobs, Claim
<1>3. CASE Begin(w) \/ Create(w) \/ Record(w) \/ Track(w)
  BY <1>1, <1>3, BeginEffect, CreateEffect, RecordEffect, TrackEffect DEF queueVars
<1>4. CASE Later(w) \/ Finish(w) \/ Retry(w) \/ Breaks(w) \/ Reconcile(w)
  BY <1>1, <1>4, LaterRow, EndEffect, DeathEffect, ReconcileEffect DEF AllSafe, MakeSafe
<1> QED
  BY <1>2, <1>3, <1>4 DEF WorkerStep, JobStep, Later

LEMMA PaidGrows ==
    ASSUME TypeOK, TypeOK', AllSafe, NEW w \in Workers, WorkerStep(w)
    PROVE  /\ Paid <= Paid'
           /\ Breaks(w) => Paid + 1 <= Paid'
<1> DEFINE k == crashes k2 == crashes' o == overtakes o2 == overtakes'
<1>1. k \in Nat /\ o \in Nat /\ k2 \in Nat /\ o2 \in Nat
  BY ChainTypes, QueueAssumption DEF TypeOK, QueueTypeOK
<1>2. o <= o2 /\ (Breaks(w) => k2 = k + 1) /\ (~Breaks(w) => k2 = k)
  BY OvertakesGrow, CrashesPaid
<1> HIDE DEF k, k2, o, o2
<1>3. k + o <= k2 + o2 /\ (Breaks(w) => k + o + 1 <= k2 + o2)
  BY <1>1, <1>2
<1> QED
  BY <1>3 DEF k, k2, o, o2, Paid

LEMMA MakersShrink ==
    ASSUME Alert, NEW w \in Workers, WorkerStep(w), dep.inst # None, dep'.inst = dep.inst,
           w \in Makers'
    PROVE  w \in Makers
<1>1. TypeOK /\ AllSafe /\ MakeSafe(w) /\ NoAnswer.inst = None
  BY DEF Alert, Counted, AllSafe, NoAnswer
<1>2. pc'[w] = "create" \/ ans'[w].inst \notin {None, dep.inst}
  BY DEF Makers, At
<1>3. CASE Begin(w) \/ Record(w) \/ Later(w)
  <2>1. pc'[w] # "create" /\ ans'[w].inst \in {None, ans[w].inst}
    BY <1>1, <1>3, BeginEffect, RecordEffect, LaterPlace
  <2> QED
    BY <1>2, <2>1 DEF Makers
<1>4. CASE Create(w)
  BY <1>4 DEF Create, Makers
<1>5. CASE Track(w) \/ Finish(w) \/ Retry(w) \/ Breaks(w)
  BY <1>1, <1>2, <1>5, TrackEffect, EndEffect, DeathEffect
<1>6. CASE ClaimJobs(w) \/ Reconcile(w)
  <2>1. ans' = ans /\ (pc'[w] = "create" => pc[w] = "create")
    BY <1>1, <1>6, ClaimEffect, ReconcileEffect DEF MakeSafe, workerVars
  <2> QED
    BY <1>2, <2>1 DEF Makers, At
<1> QED
  BY <1>3, <1>4, <1>5, <1>6 DEF WorkerStep, JobStep, Later

LEMMA RecordedStays ==
    ASSUME Alert, NEW w \in Workers, WorkerStep(w), Recorded, dep.inst # None, dep'.inst = dep.inst
    PROVE  Recorded'
<1>1. /\ Counted /\ TypeOK /\ TypeOK' /\ AllSafe /\ MakeSafe(w) /\ OthersIdle(w)
      /\ (\A v \in Workers : AtWork(v)) /\ NoAnswer.inst = None
  BY StepAlone DEF Alert, Counted, WorkerStep, AllSafe, NoAnswer
<1>2. /\ Makers' \subseteq Workers /\ Makers \subseteq Workers /\ Makers' \ {w} = Makers \ {w}
  BY <1>1, CrewsAfter
<1>3. Making' <= Making /\ (w \in Makers /\ w \notin Makers' => Making' + 1 = Making)
  <2>1. w \in Makers' => w \in Makers
    BY MakersShrink
  <2>2. /\ Cardinality(Makers) \in Nat /\ Cardinality(Makers') \in Nat
        /\ (w \in Makers <=> w \in Makers') => Cardinality(Makers) = Cardinality(Makers')
        /\ w \in Makers /\ w \notin Makers' => Cardinality(Makers) = Cardinality(Makers') + 1
    BY <1>2, Shift
  <2> QED
    BY <2>1, <2>2 DEF Making
<1>4. Paid <= Paid' /\ (Breaks(w) => Paid + 1 <= Paid')
  BY <1>1, PaidGrows
<1>5. Strays(cloud)' \subseteq Strays(cloud) \cup ({ans[w].inst} \ {None, dep.inst})
  BY <1>1, WorkerStrays
<1>6. CASE Strays(cloud)' \subseteq Strays(cloud)
  <2>1. Lost' <= Lost
    BY <1>1, <1>6, LostNone
  <2>2. Lost' + Making' + Paid <= Lost + Making + Paid'
    BY <1>1, <1>3, <1>4, <2>1, Numerals
  <2> QED
    BY <1>1, <2>2, RecordedKept
<1>7. CASE ans[w].inst \notin {None, dep.inst} /\ (Track(w) \/ Record(w) \/ Breaks(w))
  <2>1. Lost' <= Lost + 1
    <3>1. Strays(cloud)' \subseteq Strays(cloud) \cup {ans[w].inst}
      BY <1>5
    <3> QED
      BY <1>1, <3>1, LostOne
  <2>2. CASE Breaks(w)
    <3>1. Lost' + Making' + Paid <= Lost + Making + Paid'
      BY <1>1, <1>3, <1>4, <2>1, <2>2, Numerals
    <3> QED
      BY <1>1, <3>1, RecordedKept
  <2>3. CASE Track(w) \/ Record(w)
    <3>1. pc'[w] # "create" /\ ans'[w].inst = None
      BY <1>1, <1>7, <2>3, TrackEffect, RecordEffect
    <3>2. w \in Makers /\ w \notin Makers'
      BY <1>7, <3>1 DEF Makers, At
    <3>3. Lost' + Making' + Paid <= Lost + Making + Paid'
      BY <1>1, <1>3, <1>4, <2>1, <3>2, Numerals
    <3> QED
      BY <1>1, <3>3, RecordedKept
  <2> QED
    BY <1>7, <2>2, <2>3
<1> QED
  BY <1>1, <1>5, <1>6, <1>7, WorkerStrays

\* The row gets another droplet: the one it had is lost, or in another worker's hands.
LEMMA RecordedAnew ==
    ASSUME Alert, NEW w \in Workers, WorkerStep(w), Recorded, dep.inst # None, dep'.inst # dep.inst
    PROVE  Recorded'
<1>1. /\ Counted /\ TypeOK /\ TypeOK' /\ AllSafe /\ MakeSafe(w) /\ OthersIdle(w)
      /\ (\A v \in Workers : AtWork(v))
  BY StepAlone DEF Alert, Counted, WorkerStep, AllSafe
<1>2. Record(w) /\ ans[w].inst # None /\ dep'.inst = ans[w].inst
  BY <1>1, RowNames
<1>3. /\ UNCHANGED queueVars /\ pc[w] = "record" /\ pc'[w] = "track" /\ ans'[w] = ans[w]
      /\ UNCHANGED <<cloud, orphaned>>
  BY <1>1, <1>2, RecordEffect
<1>4. \A v \in Workers \ {w} : ans'[v] = ans[v] /\ pc'[v] = pc[v] /\ ans[v].inst # ans[w].inst
  BY <1>1, <1>2 DEF OthersIdle, Idles, Stays, Rests, MakeSafe
<1>5. w \in Makers /\ w \notin Makers' /\ Makers \subseteq Workers /\ Makers' \subseteq Workers
  BY <1>2, <1>3 DEF Makers, At
<1>6. Paid' = Paid
  BY <1>3 DEF Paid, queueVars
<1>7. IsFiniteSet(Makers) /\ IsFiniteSet(Makers')
  BY <1>5, LifecycleAssumption, FS_Subset
<1>8. CASE \E u \in Workers \ {w} : ans[u].inst = dep.inst
  <2>1. PICK u \in Workers \ {w} : ans[u].inst = dep.inst
    BY <1>8
  <2>2. \A v \in Workers \ {u} : ans[v].inst # dep.inst
    BY <1>1, <2>1 DEF AllSafe, MakeSafe
  <2>3. Makers' \subseteq (Makers \ {w}) \cup {u}
    <3>1. ASSUME NEW v \in Makers', v # u PROVE v \in Makers \ {w}
      <4>1. v \in Workers /\ v # w /\ (pc[v] = "create" \/ ans[v].inst # None)
        BY <1>4, <1>5, <3>1 DEF Makers, At
      <4>2. ans[v].inst # dep.inst
        BY <2>2, <3>1, <4>1
      <4> QED
        BY <4>1, <4>2 DEF Makers, At
    <3> QED
      BY <3>1
  <2>4. Making' <= Making
    <3>1. /\ IsFiniteSet(Makers \ {w}) /\ Cardinality(Makers) = Cardinality(Makers \ {w}) + 1
          /\ Cardinality(Makers \ {w}) \in Nat
      BY <1>5, <1>7, OneOut
    <3>2. Cardinality(Makers') <= Cardinality(Makers \ {w}) + 1
      BY <2>3, <3>1, OneMore
    <3> QED
      BY <3>1, <3>2 DEF Making
  <2>5. Lost' <= Lost
    <3>1. u \in Workers /\ ans'[u].inst = dep.inst /\ u # w
      BY <1>4, <2>1
    <3>2. dep.inst \notin Strays(cloud)'
      <4>1. PICK d : d = dep.inst
        OBVIOUS
      <4>2. InUse(d)'
        BY <3>1, <4>1 DEF InUse
      <4>3. d \notin Strays(cloud)'
        BY <4>2 DEF Strays
      <4> QED
        BY <4>1, <4>3
    <3>3. ans[w].inst \notin Strays(cloud)'
      BY <1>2 DEF Strays, InUse
    <3>4. Strays(cloud)' \subseteq Strays(cloud) \cup {dep.inst, ans[w].inst}
      BY <1>1, <1>2, WorkerStrays
    <3>5. Strays(cloud)' \subseteq Strays(cloud)
      BY <3>2, <3>3, <3>4
    <3> QED
      BY <1>1, <3>5, LostNone
  <2>6. Lost' + Making' + Paid <= Lost + Making + Paid'
    BY <1>1, <1>6, <2>4, <2>5, Numerals
  <2> QED
    BY <1>1, <2>6, RecordedKept
<1>9. CASE \A u \in Workers \ {w} : ans[u].inst # dep.inst
  <2>1. Makers' = Makers \ {w}
    <3>1. ASSUME NEW v \in Workers \ {w} PROVE v \in Makers' <=> v \in Makers
      BY <1>2, <1>4, <1>9 DEF Makers, At
    <3> QED
      BY <1>5, <3>1
  <2>2. Making' + 1 = Making
    BY <1>5, <1>7, <2>1, OneOut DEF Making
  <2>3. Lost' <= Lost + 1
    <3>1. ans[w].inst \notin Strays(cloud)'
      BY <1>2 DEF Strays, InUse
    <3>2. Strays(cloud)' \subseteq Strays(cloud) \cup {dep.inst, ans[w].inst}
      BY <1>1, <1>2, WorkerStrays
    <3>3. Strays(cloud)' \subseteq Strays(cloud) \cup {dep.inst}
      BY <3>1, <3>2
    <3> QED
      BY <1>1, <3>3, LostOne
  <2>4. Lost' + Making' + Paid <= Lost + Making + Paid'
    BY <1>1, <1>6, <2>2, <2>3, Numerals
  <2> QED
    BY <1>1, <2>4, RecordedKept
<1> QED
  BY <1>8, <1>9

-----------------------------------------------------------------------------
(* The whole *)

LEMMA BoundStep ==
    ASSUME Alert, ApiMakesNone, Bound
    PROVE  Bound'
<1>1. CASE Away
  BY <1>1, AwayBound
<1>2. CASE \E w \in Workers : WorkerStep(w)
  <2>1. PICK w \in Workers : WorkerStep(w)
    BY <1>2
  <2>2. CASE dep.inst = None /\ dep'.inst = None
    <3>1. One' \/ LateOnes'
      BY <2>1, <2>2, WorkerBound DEF Bound
    <3> QED
      BY <2>2, <3>1 DEF Bound
  <2>3. CASE dep.inst = None /\ dep'.inst # None
    <3>1. Recorded'
      BY <2>1, <2>3, RecordsFirst DEF Bound
    <3> QED
      BY <2>3, <3>1 DEF Bound
  <2>4. CASE dep.inst # None
    <3>1. dep'.inst # None
      BY <2>1, <2>4, RowNames DEF Alert, Counted
    <3>2. Recorded'
      BY <2>1, <2>4, RecordedStays, RecordedAnew DEF Bound
    <3> QED
      BY <3>1, <3>2 DEF Bound
  <2> QED
    BY <2>2, <2>3, <2>4
<1> QED
  BY <1>1, <1>2, NextSteps DEF Alert

\* DropletInv part by part, with the bounds in terms of the counts
Guarded ==
    /\ EarlyInv /\ AllSafe /\ ApiMakesNone /\ RowExists
    /\ Tally("provision") /\ IsFiniteSet(Strays(cloud)) /\ Bound

LEMMA GuardedStep ==
    ASSUME TypeOK, TypeOK', Workers # {}, \A w \in Workers : AtWork(w), Guarded, Next
    PROVE  Guarded'
<1>1. EarlyInv' /\ AllSafe' /\ ApiMakesNone'
  BY EarlyStep, MakeStep, ApiMakesNoneStep DEF Guarded, RowExists
<1>2. RowExists'
  BY RowExistsStep DEF Guarded, RowExists
<1>3. Tally("provision")' /\ IsFiniteSet(Strays(cloud)')
  BY TallyStep, FiniteStep DEF Guarded
<1>4. Alert
  BY <1>1, <1>3 DEF Alert, Counted, Guarded
<1>5. Bound'
  BY <1>4, BoundStep DEF Guarded
<1> QED
  BY <1>1, <1>2, <1>3, <1>5 DEF Guarded

LEMMA GuardedInit ==
    ASSUME Workers # {}, Init, TypeOK
    PROVE  Guarded
<1>1. NoKind # "provision" /\ NoKind \notin Kinds /\ "provision" \in Kinds
  BY QueueAssumption, LifecycleAssumption DEF JobKinds
<1>2. /\ dep = NewRow /\ NewRow.inst = None /\ NewRow.status = "queued" /\ NoAnswer.inst = None
      /\ orphaned = {} /\ crashes = 0 /\ overtakes = 0
  BY DEF Init, NewRow, NoAnswer
<1>3. \A w \in Workers : pc[w] = "idle" /\ todo[w] = {} /\ ans[w] = NoAnswer /\ held[w] = {}
  BY DEF Init
<1>4. /\ \A h \in Handlers : api[h] = "idle"
      /\ \A c \in Clients : checked[c] = NoKind
      /\ \A d \in Droplets : cloud[d] = "absent"
  BY DEF Init
<1>5. PICK i \in JobIds :
        jobs = [j \in JobIds |->
                  IF j = i THEN [status |-> "queued", kind |-> "provision", attempts |-> 0]
                  ELSE NoJob]
  <2>1. (CHOOSE i \in RowsOf["provision"] : TRUE) \in JobIds
    BY <1>1, QueueAssumption DEF Init
  <2> QED
    BY <2>1 DEF Init
<1>6. \A j \in JobIds : Active(j) \/ Held(j) => j = i
  BY <1>3, <1>5 DEF Active, Held, NoJob
<1>7. jobs[i].kind = "provision" /\ jobs[i].status = "queued"
  BY <1>5
<1>8. ActiveOfKind("provision") = {i} /\ Waiting("provision") = {i} /\ Holdings("provision") = {}
  BY <1>3, <1>6, <1>7 DEF ActiveOfKind, Active, Waiting, Holdings
<1>9. EarlyInv
  BY <1>2, <1>3, <1>4, <1>6, <1>7, <1>8 DEF EarlyInv, Found, At
<1>10. AllSafe
  BY <1>1, <1>2, <1>3, <1>4, ChainTypes DEF AllSafe, MakeSafe, At
<1>11. ApiMakesNone /\ RowExists
  BY <1>1, <1>2, <1>4, KindsUsed DEF ApiMakesNone, RowExists
<1>12. /\ IsFiniteSet({i}) /\ Cardinality({i}) = 1 /\ IsFiniteSet({}) /\ Cardinality({}) = 0
  BY FS_Singleton, FS_EmptySet
<1>13. Tally("provision") /\ Chances("provision") = 1
  BY <1>2, <1>8, <1>12 DEF Tally, Finite, Chances
<1>14. Strays(cloud) = {}
  BY <1>4 DEF Strays, Init
<1>15. One
  <2>1. Finishing("provision") = {}
    BY <1>3 DEF Finishing, At
  <2>2. Found("provision")
    BY <1>8 DEF Found
  <2>3. \A w \in Workers : checked[w] # "provision"
    BY <1>1, <1>4, ChainTypes
  <2>4. Lost = 0 /\ Paid = 0
    BY <1>2, <1>12, <1>14 DEF Lost, Paid
  <2> QED
    BY <1>13, <2>1, <2>2, <2>3, <2>4 DEF One
<1> QED
  BY <1>2, <1>9, <1>10, <1>11, <1>12, <1>13, <1>14, <1>15 DEF Guarded, Bound

LEMMA GuardedInvariant == ASSUME Workers # {} PROVE Spec => []Guarded
<1>1. Guarded /\ UNCHANGED vars => Guarded'
  BY DEF vars, queueVars, rowVars, extVars, workerVars, Guarded, EarlyInv, Found, Active, Held, At,
         AllSafe, MakeSafe, Kind, InSession, Expecting, ApiMakesNone, RowExists, Tally, Finite,
         Chances, ActiveOfKind, Waiting, Holdings, Strays, InUse, Bound, One, LateOnes, Recorded,
         Lost, Yet, Ending, Making, Paid, Finishing, Makers
<1>2. TypeOK /\ TypeOK' /\ ChainInv /\ Guarded /\ [Next]_vars => Guarded'
  BY <1>1, GuardedStep, ChainParts
<1>3. Init /\ TypeOK => Guarded
  BY GuardedInit
<1> QED
  BY <1>2, <1>3, TypeCorrect, ChainInvariant, PTL DEF Spec

LEMMA DropletInvariant == ASSUME Workers # {} PROVE Spec => []DropletInv
<1>1. TypeOK /\ Guarded => DropletInv
  BY DropletParts DEF Guarded
<1> QED
  BY <1>1, GuardedInvariant, TypeCorrect, PTL

\* However many workers there are, with batches of any size and through all retries,
\* the droplets that run unrecorded are at most one for each crash, each job taken from a
\* slow worker, and each worker but one, besides those answered by an error.
THEOREM StraysAreBounded == ASSUME Workers # {} PROVE Spec => []StraysBounded
<1>1. TypeOK /\ ChainInv /\ Guarded => StraysBounded
  <2> SUFFICES ASSUME TypeOK, ChainInv, Guarded PROVE StraysBounded
    OBVIOUS
  <2>1. /\ Tally("provision") /\ IsFiniteSet(Strays(cloud)) /\ Finite("provision")
        /\ \A v \in Workers : AtWork(v)
    BY ChainParts DEF Guarded, Tally
  <2>2. /\ Lost \in Nat /\ Yet \in Nat /\ Ending \in Nat /\ Making \in Nat /\ Paid \in Nat
        /\ Chances("provision") \in Nat /\ Spare \in Nat
    BY <2>1, Counts, SpareCount
  <2>3. Lost <= Paid + Spare
    <3>1. CASE dep.inst # None
      BY <2>2, <3>1 DEF Guarded, Bound, Recorded
    <3>2. CASE dep.inst = None /\ One
      <4>1. ActiveOfKind("provision") # {} /\ IsFiniteSet(ActiveOfKind("provision"))
        BY <2>1, <3>2 DEF One, Found, Finite
      <4>2. Cardinality(ActiveOfKind("provision")) \in Nat \ {0}
        BY <4>1, FS_CardinalityType, FS_EmptySet
      <4>3. Cardinality(ActiveOfKind("provision")) <= Chances("provision")
        BY <2>1, ChancesBound
      <4> QED
        BY <2>2, <3>2, <4>2, <4>3 DEF One
    <3>3. CASE dep.inst = None /\ LateOnes
      <4>1. \A v \in Finishing("provision") : cur[v] \in held[v] /\ Kind(v) = "provision"
        BY <2>1 DEF Finishing, At, AtWork
      <4>2. Ending <= Chances("provision")
        <5>1. Finishing("provision") \subseteq Workers
          BY DEF Finishing
        <5> QED
          BY <2>1, <4>1, <5>1, HandsHold DEF Ending
      <4> QED
        BY <2>2, <3>3, <4>2 DEF LateOnes
    <3> QED
      BY <3>1, <3>2, <3>3 DEF Guarded, Bound
  <2>4. crashes \in Nat /\ overtakes \in Nat /\ Cardinality(Workers) \in Nat
    BY ChainTypes, LifecycleAssumption, FS_CardinalityType
  <2> QED
    BY <2>2, <2>3, <2>4 DEF StraysBounded, Lost, Paid, Spare
<1> QED
  BY <1>1, ChainInvariant, GuardedInvariant, TypeCorrect, PTL
=============================================================================
