--------------------------- MODULE JobQueue_proofs ---------------------------
(***************************************************************************)
(* Theorems of JobQueue for any number of rows, workers and crashes, with  *)
(* their proofs.  The step lemmas are about QueueNext alone, so they also  *)
(* hold in every module whose steps are QueueNext steps or leave the table *)
(* alone; Lifecycle_proofs uses them so.                                   *)
(***************************************************************************)
EXTENDS JobQueue, FiniteSetTheorems, TLAPS

-----------------------------------------------------------------------------
(* What the steps have in common *)

\* What extra claims were paid with.
SamePrice == crashes' = crashes /\ overtakes' = overtakes

\* Every action of QueueNext as one of six ways to change the table.
CommonStep ==
    \/ \E k \in Kinds : Insert(k) /\ held' = held /\ SamePrice
    \/ jobs' = jobs /\ held' = held /\ SamePrice
    \/ \E w \in Workers, batch \in SUBSET Due : ClaimBatch(w, batch)
    \/ \E w \in Workers, j \in JobIds : Release(w, j, "done") \/ Release(w, j, "failed")
    \/ \E w \in Workers, j \in JobIds : ~OutOfAttempts(j) /\ Release(w, j, "queued")
    \/ \E w \in Workers : CrashWorker(w)
    \/ \E cs \in SUBSET Clients : Lapse(cs)

LEMMA StepCases ==
    ASSUME QueueTypeOK, QueueNext
    PROVE  CommonStep
<1>1. CASE \E c \in Clients : EnqueueInsert(c)
  <2>1. PICK c \in Clients : EnqueueInsert(c)
    BY <1>1
  <2>2. checked[c] \in Kinds
    BY <2>1 DEF QueueTypeOK, EnqueueInsert
  <2> QED
    BY <2>1, <2>2 DEF EnqueueInsert, CommonStep, SamePrice
<1>2. CASE \E c \in Clients : \E k \in Kinds : EnqueueCheck(c, k)
  BY <1>2 DEF EnqueueCheck, CommonStep, SamePrice
<1>3. CASE \E k \in Kinds : EnqueueAlways(k)
  BY <1>3 DEF EnqueueAlways, CommonStep, SamePrice
<1>4. CASE \E w \in Workers : WorkerNext(w)
  <2>1. PICK w \in Workers : WorkerNext(w)
    BY <1>4
  <2>2. CASE Raise(w)
    BY <2>2, QueueAssumption DEF Raise, CommonStep
  <2> QED
    BY <2>1, <2>2 DEF WorkerNext, Claim, MarkDone, FailJob, Reschedule, CommonStep
<1>5. CASE \E cs \in SUBSET Clients : CrashApi(cs)
  BY <1>5 DEF CrashApi, CommonStep
<1> QED
  BY <1>1, <1>2, <1>3, <1>4, <1>5 DEF QueueNext

-----------------------------------------------------------------------------
(* Types *)

LEMMA InsertType ==
    ASSUME QueueTypeOK, NEW k \in Kinds, Insert(k)
    PROVE  jobs' \in [JobIds -> JobRows]
<1>1. PICK j \in RowsOf[k] :
        jobs' = [jobs EXCEPT ![j] = [status |-> "queued", kind |-> k, attempts |-> 0]]
  BY DEF Insert, Free
<1>2. [status |-> "queued", kind |-> k, attempts |-> 0] \in JobRows
  BY DEF JobRows, JobStatuses
<1> QED
  BY <1>1, <1>2 DEF QueueTypeOK

LEMMA ReleaseType ==
    ASSUME QueueTypeOK, NEW w \in Workers, NEW j \in JobIds,
           NEW s \in {"done", "failed", "queued"}, Release(w, j, s)
    PROVE  QueueTypeOK'
<1>1. NoJob \in JobRows
  BY DEF NoJob, JobRows, JobStatuses
<1>2. [jobs[j] EXCEPT !.status = s] \in JobRows
  BY DEF QueueTypeOK, JobRows, JobStatuses
<1> QED
  BY <1>1, <1>2 DEF Release, QueueTypeOK

\* What a claim is charged.
LEMMA ClaimPrice ==
    ASSUME QueueTypeOK, NEW w \in Workers, NEW batch \in SUBSET Due, ClaimBatch(w, batch)
    PROVE  /\ overtakes' \in 0..MaxOvertakes /\ overtakes <= overtakes'
           /\ (\E j \in batch : Taken(j)) => overtakes + 1 <= overtakes'
<1> DEFINE taken == {j \in batch : Taken(j)}
<1>1. IsFiniteSet(taken)
  BY FS_Subset DEF ClaimBatch
<1>2. Cardinality(taken) \in Nat /\ (taken # {} => Cardinality(taken) # 0)
  BY <1>1, FS_CardinalityType, FS_EmptySet
<1>3. overtakes + Cardinality(taken) <= MaxOvertakes /\ overtakes' = overtakes + Cardinality(taken)
  BY DEF ClaimBatch
<1>4. (\E j \in batch : Taken(j)) => taken # {}
  OBVIOUS
<1> HIDE DEF taken
<1>5. overtakes \in 0..MaxOvertakes /\ MaxOvertakes \in Nat
  BY QueueAssumption DEF QueueTypeOK
<1> QED
  BY <1>2, <1>3, <1>4, <1>5

LEMMA ClaimType ==
    ASSUME QueueTypeOK, NEW w \in Workers, NEW batch \in SUBSET Due, ClaimBatch(w, batch)
    PROVE  QueueTypeOK'
<1>1. ASSUME NEW j \in JobIds
      PROVE  Claimed(jobs[j]) \in JobRows
  <2>1. jobs[j] \in JobRows /\ jobs[j].attempts + 1 \in Nat
    BY DEF QueueTypeOK, JobRows
  <2> QED
    BY <2>1 DEF Claimed, JobRows, JobStatuses
<1>2. overtakes' \in 0..MaxOvertakes
  BY ClaimPrice
<1>3. batch \subseteq JobIds
  BY DEF Due
<1> QED
  BY <1>1, <1>2, <1>3 DEF ClaimBatch, QueueTypeOK

\* Every step of the queue keeps its types.
LEMMA QueueTypeStep ==
    ASSUME QueueTypeOK, QueueNext
    PROVE  QueueTypeOK'
<1> USE QueueAssumption
<1>1. CASE \E c \in Clients : EnqueueInsert(c)
  <2>1. PICK c \in Clients : EnqueueInsert(c)
    BY <1>1
  <2>2. checked[c] \in Kinds
    BY <2>1 DEF QueueTypeOK, EnqueueInsert
  <2> QED
    BY <2>1, <2>2, InsertType DEF EnqueueInsert, QueueTypeOK
<1>2. CASE \E c \in Clients : \E k \in Kinds : EnqueueCheck(c, k)
  BY <1>2 DEF EnqueueCheck, QueueTypeOK
<1>3. CASE \E k \in Kinds : EnqueueAlways(k)
  BY <1>3, InsertType DEF EnqueueAlways, QueueTypeOK
<1>4. CASE \E w \in Workers : WorkerNext(w)
  <2>1. PICK w \in Workers : WorkerNext(w)
    BY <1>4
  <2>2. CASE Claim(w)
    BY <2>2, ClaimType DEF Claim
  <2>3. CASE \E j \in JobIds : MarkDone(w, j) \/ FailJob(w, j) \/ Reschedule(w, j)
    BY <2>3, ReleaseType DEF MarkDone, FailJob, Reschedule
  <2>4. CASE CrashWorker(w)
    BY <2>4 DEF CrashWorker, QueueTypeOK
  <2>5. CASE Raise(w)
    BY <2>5 DEF Raise, Lapse, QueueTypeOK
  <2> QED
    BY <2>1, <2>2, <2>3, <2>4, <2>5 DEF WorkerNext
<1>5. CASE \E cs \in SUBSET Clients : CrashApi(cs)
  BY <1>5 DEF CrashApi, Lapse, QueueTypeOK
<1> QED
  BY <1>1, <1>2, <1>3, <1>4, <1>5 DEF QueueNext

\* The variables keep their types.
THEOREM QueueTypeCorrect == QueueSpec => []QueueTypeOK
<1>1. QueueInit => QueueTypeOK
  BY QueueAssumption DEF QueueInit, QueueTypeOK, NoJob, JobRows, JobStatuses
<1>2. QueueTypeOK /\ [QueueNext]_queueVars => QueueTypeOK'
  BY QueueTypeStep DEF queueVars, QueueTypeOK
<1> QED
  BY <1>1, <1>2, PTL DEF QueueSpec

-----------------------------------------------------------------------------
(* Leases and attempts *)

\* Good(i) is what QueueInv says of row i.
Good(i) == AttemptsPaid(i) /\ (overtakes = 0 => OneHolder(i))


\* A row that a step leaves alone, with its holders, stays good: the price only grows.
LEMMA UntouchedStaysGood ==
    ASSUME QueueTypeOK, QueueTypeOK', NEW i \in JobIds, Good(i),
           jobs'[i] = jobs[i], crashes <= crashes', overtakes <= overtakes',
           \A w \in Workers : i \in held'[w] <=> i \in held[w]
    PROVE  Good(i)'
<1>1. /\ crashes \in Nat /\ overtakes \in Nat /\ MaxAttempts \in Nat /\ jobs[i].attempts \in Nat
      /\ crashes' \in Nat /\ overtakes' \in Nat
  BY QueueAssumption DEF QueueTypeOK, JobRows
<1>2. Held(i)' <=> Held(i)
  BY DEF Held
<1>3. AttemptsPaid(i)'
  BY <1>1, <1>2 DEF Good, AttemptsPaid
<1>4. overtakes' = 0 => OneHolder(i)'
  BY <1>1, <1>2 DEF Good, OneHolder
<1> QED
  BY <1>3, <1>4 DEF Good

LEMMA InsertGood ==
    ASSUME QueueTypeOK, QueueTypeOK', NEW k \in Kinds, Insert(k),
           held' = held, SamePrice, \A i \in JobIds : Good(i)
    PROVE  \A i \in JobIds : Good(i)'
<1> USE QueueAssumption
<1>1. PICK j \in RowsOf[k] :
        /\ Fresh(j)
        /\ jobs' = [jobs EXCEPT ![j] = [status |-> "queued", kind |-> k, attempts |-> 0]]
  BY DEF Insert, Free
<1>2. j \in JobIds
  OBVIOUS
<1>3. crashes \in Nat /\ overtakes \in Nat /\ crashes' = crashes /\ overtakes' = overtakes
  BY DEF QueueTypeOK, SamePrice
<1> TAKE i \in JobIds
<1>4. CASE i # j
  BY <1>1, <1>3, <1>4, UntouchedStaysGood DEF QueueTypeOK
<1>5. CASE i = j
  <2>1. jobs'[i] = [status |-> "queued", kind |-> k, attempts |-> 0]
    BY <1>1, <1>2, <1>5 DEF QueueTypeOK
  <2>2. ~Held(i)'
    BY <1>1, <1>5 DEF Fresh, Held
  <2>3. AttemptsPaid(i)'
    BY <1>3, <2>1 DEF AttemptsPaid
  <2>4. OneHolder(i)'
    BY <2>1, <2>2 DEF OneHolder, Held
  <2> QED
    BY <2>3, <2>4 DEF Good
<1> QED
  BY <1>4, <1>5

\* A row that is claimed was queued, or a crash or this very claim pays for it.
LEMMA ClaimGood ==
    ASSUME QueueTypeOK, QueueTypeOK',
           NEW w \in Workers, NEW batch \in SUBSET Due, ClaimBatch(w, batch),
           \A i \in JobIds : Good(i)
    PROVE  \A i \in JobIds : Good(i)'
<1> USE QueueAssumption
<1> TAKE i \in JobIds
<1>0. crashes \in Nat /\ overtakes \in Nat /\ overtakes' \in Nat /\ crashes' = crashes
  BY DEF ClaimBatch, QueueTypeOK
<1>1. /\ crashes \in Nat /\ overtakes \in Nat /\ crashes' = crashes
      /\ overtakes' \in Nat /\ overtakes <= overtakes'
      /\ (\E j \in batch : Taken(j)) => overtakes + 1 <= overtakes'
  BY <1>0, ClaimPrice
<1>2. held' = [held EXCEPT ![w] = batch] /\ held[w] = {}
  BY DEF ClaimBatch
<1>3. CASE i \notin batch
  <2>1. jobs'[i] = jobs[i]
    BY <1>3 DEF ClaimBatch
  <2>2. \A v \in Workers : i \in held'[v] <=> i \in held[v]
    BY <1>2, <1>3 DEF QueueTypeOK
  <2> QED
    BY <1>1, <2>1, <2>2, UntouchedStaysGood
<1>4. CASE i \in batch
  <2>1. Claimable(i) /\ Good(i)
    BY <1>4 DEF Due
  <2>2. jobs[i] \in JobRows /\ jobs[i].attempts \in Nat
    BY DEF QueueTypeOK, JobRows
  <2>3. jobs'[i].status = "running" /\ jobs'[i].attempts = jobs[i].attempts + 1
    BY <1>4, <2>2 DEF ClaimBatch, Claimed, JobRows
  <2>4. Held(i)'
    BY <1>2, <1>4 DEF Held, QueueTypeOK
  <2>5. jobs'[i].attempts <= MaxAttempts + crashes' + overtakes'
    <3>1. CASE jobs[i].status = "queued"
      BY <1>1, <2>1, <2>2, <2>3, <3>1 DEF Good, AttemptsPaid
    <3>2. CASE jobs[i].status = "running" /\ ~Held(i)
      BY <1>1, <2>1, <2>2, <2>3, <3>2 DEF Good, AttemptsPaid
    <3>3. CASE jobs[i].status = "running" /\ Held(i)
      <4>1. overtakes + 1 <= overtakes'
        BY <1>1, <1>4, <3>3 DEF Taken
      <4> QED
        BY <1>1, <2>1, <2>2, <2>3, <4>1 DEF Good, AttemptsPaid
    <3> QED
      BY <2>1, <3>1, <3>2, <3>3 DEF Claimable
  <2>6. AttemptsPaid(i)'
    BY <2>3, <2>4, <2>5 DEF AttemptsPaid
  <2>7. ASSUME overtakes' = 0
        PROVE  OneHolder(i)'
    <3>1. overtakes = 0 /\ ~Taken(i)
      BY <1>1, <1>4, <2>7
    <3>2. ~Held(i)
      BY <2>1, <3>1 DEF Good, OneHolder, Taken
    <3>3. \A v \in Workers : i \in held'[v] <=> v = w
      BY <1>2, <1>4, <3>2 DEF Held, QueueTypeOK
    <3> QED
      BY <2>3, <3>3 DEF OneHolder
  <2> QED
    BY <2>6, <2>7 DEF Good
<1> QED
  BY <1>3, <1>4

LEMMA ReleaseGood ==
    ASSUME QueueTypeOK, QueueTypeOK',
           NEW w \in Workers, NEW j \in JobIds, NEW s \in {"done", "failed", "queued"},
           Release(w, j, s), s = "queued" => ~OutOfAttempts(j),
           \A i \in JobIds : Good(i)
    PROVE  \A i \in JobIds : Good(i)'
<1> USE QueueAssumption
<1> TAKE i \in JobIds
<1>1. /\ crashes \in Nat /\ crashes' = crashes
      /\ overtakes \in Nat /\ overtakes' = overtakes
  BY DEF QueueTypeOK, Release
<1>2. held' = [held EXCEPT ![w] = held[w] \ {j}]
  BY DEF Release
<1>3. CASE i # j
  <2>1. jobs'[i] = jobs[i]
    BY <1>3 DEF Release, QueueTypeOK
  <2>2. \A v \in Workers : i \in held'[v] <=> i \in held[v]
    BY <1>2, <1>3 DEF QueueTypeOK
  <2> QED
    BY <1>1, <2>1, <2>2, UntouchedStaysGood
<1>4. CASE i = j
  <2>1. jobs[j] \in JobRows /\ jobs[j].attempts \in Nat
    BY DEF QueueTypeOK, JobRows
  <2>2. \/ jobs'[j] = NoJob
        \/ jobs'[j].status = s /\ jobs'[j].attempts = jobs[j].attempts
    BY <2>1 DEF Release, QueueTypeOK, JobRows
  <2>3. s = "queued" =>
          jobs'[j].status = "queued" /\ jobs'[j].attempts = jobs[j].attempts
    BY <2>1 DEF Release, QueueTypeOK, JobRows
  <2>4. AttemptsPaid(i)'
    <3>1. CASE s = "queued"
      <4>1. jobs[j].attempts + 1 <= MaxAttempts
        BY <2>1, <3>1 DEF OutOfAttempts
      <4> QED
        BY <1>1, <1>4, <2>1, <2>3, <3>1, <4>1 DEF AttemptsPaid
    <3>2. CASE s # "queued"
      BY <1>1, <1>4, <2>1, <2>2, <3>2 DEF AttemptsPaid, Good, NoJob
    <3> QED
      BY <3>1, <3>2
  <2>5. ASSUME overtakes' = 0
        PROVE  OneHolder(i)'
    <3>1. \A v \in Workers : j \in held[v] => v = w
      BY <1>1, <2>5 DEF Good, OneHolder, Release
    <3>2. ~Held(i)'
      BY <1>2, <1>4, <3>1 DEF Held, QueueTypeOK
    <3>3. s # "queued" => jobs'[j] = NoJob
      BY <3>1 DEF Release, QueueTypeOK
    <3>4. jobs'[i].status \in {"none", "queued"}
      BY <1>4, <2>3, <3>3 DEF NoJob
    <3> QED
      BY <3>2, <3>4 DEF OneHolder, Held
  <2> QED
    BY <2>4, <2>5 DEF Good
<1> QED
  BY <1>3, <1>4

LEMMA CrashWorkerGood ==
    ASSUME QueueTypeOK, QueueTypeOK', NEW w \in Workers, CrashWorker(w),
           \A i \in JobIds : Good(i)
    PROVE  \A i \in JobIds : Good(i)'
<1> USE QueueAssumption
<1> TAKE i \in JobIds
<1>1. /\ crashes \in Nat /\ crashes' = crashes + 1 /\ jobs' = jobs
      /\ overtakes \in Nat /\ overtakes' = overtakes
  BY DEF QueueTypeOK, CrashWorker
<1>2. held' = [held EXCEPT ![w] = {}]
  BY DEF CrashWorker
<1>3. jobs[i].attempts \in Nat
  BY DEF QueueTypeOK, JobRows
<1>4. AttemptsPaid(i)'
  BY <1>1, <1>3 DEF Good, AttemptsPaid
<1>5. OneHolder(i) => OneHolder(i)'
  BY <1>1, <1>2 DEF OneHolder, Held, QueueTypeOK
<1> QED
  BY <1>1, <1>4, <1>5 DEF Good

LEMMA LapseGood ==
    ASSUME QueueTypeOK, QueueTypeOK', NEW cs, Lapse(cs), \A i \in JobIds : Good(i)
    PROVE  \A i \in JobIds : Good(i)'
<1>1. /\ crashes \in Nat /\ crashes' = crashes + 1 /\ jobs' = jobs /\ held' = held
      /\ overtakes \in Nat /\ overtakes' = overtakes
  BY QueueAssumption DEF Lapse, QueueTypeOK
<1> QED
  BY <1>1, UntouchedStaysGood

\* Every step of the queue keeps its invariant.
LEMMA QueueInvStep ==
    ASSUME QueueTypeOK, QueueInv, QueueNext
    PROVE  QueueInv'
<1>1. SUFFICES \A i \in JobIds : Good(i)'
  BY DEF QueueInv, Good
<1>2. \A i \in JobIds : Good(i)
  BY DEF QueueInv, Good
<1>3. QueueTypeOK'
  BY QueueTypeStep
<1>4. CommonStep
  BY StepCases
<1>5. CASE \E k \in Kinds : Insert(k) /\ held' = held /\ SamePrice
  BY <1>2, <1>3, <1>5, InsertGood
<1>6. CASE jobs' = jobs /\ held' = held /\ SamePrice
  BY <1>2, <1>6 DEF Good, OneHolder, AttemptsPaid, Held, SamePrice
<1>7. CASE \E w \in Workers, batch \in SUBSET Due : ClaimBatch(w, batch)
  BY <1>2, <1>3, <1>7, ClaimGood
<1>8. CASE \E w \in Workers, j \in JobIds : Release(w, j, "done") \/ Release(w, j, "failed")
  BY <1>2, <1>3, <1>8, ReleaseGood
<1>9. CASE \E w \in Workers, j \in JobIds : ~OutOfAttempts(j) /\ Release(w, j, "queued")
  BY <1>2, <1>3, <1>9, ReleaseGood
<1>10. CASE \E w \in Workers : CrashWorker(w)
  BY <1>2, <1>3, <1>10, CrashWorkerGood
<1>11. CASE \E cs \in SUBSET Clients : Lapse(cs)
  BY <1>2, <1>3, <1>11, LapseGood
<1> QED
  BY <1>4, <1>5, <1>6, <1>7, <1>8, <1>9, <1>10, <1>11 DEF CommonStep

LEMMA QueueInvInit == QueueInit => QueueInv
BY QueueAssumption DEF QueueInit, QueueInv, OneHolder, AttemptsPaid, Held, NoJob

\* The inductive invariant of the queue.
THEOREM QueueInvariant == QueueSpec => []QueueInv
<1>1. QueueInv /\ QueueTypeOK /\ [QueueNext]_queueVars => QueueInv'
  <2>1. CASE UNCHANGED queueVars
    BY <2>1 DEF queueVars, QueueInv, OneHolder, AttemptsPaid, Held
  <2> QED
    BY <2>1, QueueInvStep
<1> QED
  BY <1>1, QueueInvInit, QueueTypeCorrect, PTL DEF QueueSpec

LEMMA InvImpliesExclusive == QueueInv /\ QueueTypeOK => Exclusive
BY DEF QueueInv, QueueTypeOK, Exclusive, OneHolder, Held

LEMMA InvImpliesAttemptsBounded == QueueInv => AttemptsBounded
BY DEF QueueInv, AttemptsPaid, AttemptsBounded

\* Until a lease is shorter than a batch, no job is in two workers' batches.
THEOREM ExclusiveHolds == QueueSpec => []Exclusive
BY QueueInvariant, QueueTypeCorrect, InvImpliesExclusive, PTL

\* No job is claimed more often than max_attempts, the crashes so far and the claims
\* that took jobs from slow workers allow.
THEOREM AttemptsBoundedHolds == QueueSpec => []AttemptsBounded
BY QueueInvariant, InvImpliesAttemptsBounded, PTL

-----------------------------------------------------------------------------
(* The table as a pool of work *)

\* A worker holds as many pairs as rows.
LEMMA PairsCount ==
    ASSUME NEW w, NEW R, IsFiniteSet(R)
    PROVE  /\ IsFiniteSet({w} \X R) /\ Cardinality({w} \X R) = Cardinality(R)
           /\ Cardinality(R) \in Nat
<1>1. IsFiniteSet({w}) /\ Cardinality({w}) = 1
  BY FS_Singleton
<1>2. Cardinality(R) \in Nat
  BY FS_CardinalityType
<1>3. IsFiniteSet({w} \X R) /\ Cardinality({w} \X R) = 1 * Cardinality(R)
  BY <1>1, FS_Product
<1> QED
  BY <1>2, <1>3

\* One element more or less
LEMMA OneIn ==
    ASSUME NEW S, NEW x, IsFiniteSet(S)
    PROVE  /\ IsFiniteSet(S \cup {x})
           /\ Cardinality(S) \in Nat /\ Cardinality(S \cup {x}) \in Nat
           /\ Cardinality(S) <= Cardinality(S \cup {x})
           /\ Cardinality(S \cup {x}) <= Cardinality(S) + 1
           /\ x \notin S => Cardinality(S \cup {x}) = Cardinality(S) + 1
<1>1. IsFiniteSet(S \cup {x}) /\ Cardinality(S) \in Nat /\ Cardinality(S \cup {x}) \in Nat
  BY FS_AddElement, FS_CardinalityType
<1>2. x \in S => Cardinality(S \cup {x}) = Cardinality(S)
  BY FS_AddElement
<1>3. x \notin S => Cardinality(S \cup {x}) = Cardinality(S) + 1
  BY FS_AddElement
<1> QED
  BY <1>1, <1>2, <1>3

LEMMA OneOut ==
    ASSUME NEW S, NEW x, IsFiniteSet(S)
    PROVE  /\ IsFiniteSet(S \ {x})
           /\ Cardinality(S) \in Nat /\ Cardinality(S \ {x}) \in Nat
           /\ Cardinality(S \ {x}) <= Cardinality(S)
           /\ Cardinality(S) <= Cardinality(S \ {x}) + 1
           /\ x \in S => Cardinality(S) = Cardinality(S \ {x}) + 1
<1>1. IsFiniteSet(S \ {x}) /\ Cardinality(S) \in Nat /\ Cardinality(S \ {x}) \in Nat
  BY FS_RemoveElement, FS_CardinalityType
<1>2. x \in S => Cardinality(S \ {x}) = Cardinality(S) - 1
  BY FS_RemoveElement
<1>3. x \notin S => S \ {x} = S
  OBVIOUS
<1>4. CASE x \in S
  <2> DEFINE n == Cardinality(S) m == Cardinality(S \ {x})
  <2>1. n \in Nat /\ m \in Nat /\ m = n - 1
    BY <1>1, <1>2, <1>4
  <2>2. n = m + 1 /\ m <= n /\ n <= m + 1
    BY <2>1
  <2> QED
    BY <1>1, <2>1, <2>2
<1>5. CASE x \notin S
  BY <1>1, <1>3, <1>5
<1> QED
  BY <1>4, <1>5

LEMMA DisjointUnion ==
    ASSUME NEW S, NEW T, IsFiniteSet(S), IsFiniteSet(T), S \cap T = {}
    PROVE  /\ IsFiniteSet(S \cup T)
           /\ Cardinality(S \cup T) = Cardinality(S) + Cardinality(T)
<1>1. /\ IsFiniteSet(S \cup T)
      /\ Cardinality(S \cup T) = Cardinality(S) + Cardinality(T) - Cardinality(S \cap T)
  BY FS_Union
<1>2. Cardinality(S \cap T) = 0
  BY FS_EmptySet
<1>3. Cardinality(S) \in Nat /\ Cardinality(T) \in Nat
  BY FS_CardinalityType
<1> QED
  BY <1>1, <1>2, <1>3

\* Who holds a job covers it.
LEMMA Covered ==
    ASSUME NEW P, NEW D, IsFiniteSet(P), \A d \in D : \E p \in P : p[2] = d
    PROVE  /\ IsFiniteSet(D)
           /\ Cardinality(D) \in Nat /\ Cardinality(P) \in Nat
           /\ Cardinality(D) <= Cardinality(P)
<1> DEFINE f == [d \in D |-> CHOOSE p \in P : p[2] = d]
<1>1. \A d \in D : f[d] \in P /\ f[d][2] = d
  OBVIOUS
<1>2. f \in Injection(D, P)
  BY <1>1 DEF Injection, IsInjective
<1> QED
  BY <1>2, FS_Injection, FS_CardinalityType

LEMMA Numbers ==
    PoolInv => /\ IsFiniteSet(OnDuty)
               /\ Cardinality(OnDuty) \in Nat /\ Cardinality(Pairs) \in Nat
               /\ Cardinality(OnDuty) <= Cardinality(Pairs)
<1>1. \A j \in OnDuty : \E h \in Pairs : h[2] = j
  <2> TAKE j \in OnDuty
  <2>1. PICK w \in Workers : j \in held[w]
    BY DEF OnDuty, Taken, Held
  <2>2. <<w, j>> \in Pairs
    BY <2>1 DEF Pairs, OnDuty
  <2> QED
    BY <2>2
<1> QED
  BY <1>1, Covered DEF PoolInv

LEMMA NumbersAfter ==
    PoolInv' => (/\ IsFiniteSet(OnDuty)
                 /\ Cardinality(OnDuty) \in Nat /\ Cardinality(Pairs) \in Nat
                 /\ Cardinality(OnDuty) <= Cardinality(Pairs))'
BY Numbers, PTL

LEMMA AddedToPool ==
    ASSUME QueueTypeOK, PoolInv, NEW k \in Kinds, Insert(k), held' = held, SamePrice
    PROVE  PoolInv' /\ \E j \in JobIds : Pool!Add(j)
<1>1. PICK j \in JobIds :
        /\ Fresh(j)
        /\ jobs' = [jobs EXCEPT ![j] = [status |-> "queued", kind |-> k, attempts |-> 0]]
  BY QueueAssumption DEF Insert, Free
<1>2. /\ jobs'[j] = [status |-> "queued", kind |-> k, attempts |-> 0]
      /\ \A i \in JobIds : i # j => jobs'[i] = jobs[i]
  BY <1>1 DEF QueueTypeOK
<1>3. Pairs' = Pairs /\ \A i \in JobIds : Held(i)' <=> Held(i)
  BY DEF Pairs, Held
<1>4. ~Active(j) /\ ~Held(j)
  BY <1>1 DEF Fresh
<1>5. OnDuty' = OnDuty
  BY <1>2, <1>3, <1>4 DEF OnDuty, Taken
<1>6. PoolInv'
  BY <1>2, <1>3, <1>4 DEF PoolInv
<1>7. Progress[j] = "none"
  BY <1>4 DEF Progress
<1>8. Progress' = [Progress EXCEPT ![j] = "added"]
  <2>1. Active(j)' /\ jobs'[j].attempts = 0
    BY <1>2 DEF Active
  <2>2. \A i \in JobIds : i # j => jobs'[i] = jobs[i] /\ (Active(i)' <=> Active(i))
    BY <1>2 DEF Active
  <2>3. \A i \in JobIds : Progress'[i] = IF i = j THEN "added" ELSE Progress[i]
    BY <2>1, <2>2 DEF Progress
  <2> QED
    BY <2>3 DEF Progress
<1>9. overtakes' = overtakes /\ Late' = Late
  BY <1>3, <1>5 DEF SamePrice, Late
<1> QED
  BY <1>6, <1>7, <1>8, <1>9 DEF Pool!Add

\* A claim makes as many late outcomes possible as it takes jobs.
LEMMA ClaimMakesLate ==
    ASSUME QueueTypeOK, PoolInv,
           NEW w \in Workers, NEW batch \in SUBSET Due, ClaimBatch(w, batch)
    PROVE  /\ IsFiniteSet(Pairs')
           /\ overtakes' \in Nat /\ overtakes <= overtakes'
           /\ Late' = Late + (overtakes' - overtakes)
<1> DEFINE taken == {j \in batch : Taken(j)}
<1>1. /\ held' = [held EXCEPT ![w] = batch] /\ held[w] = {}
      /\ IsFiniteSet(batch) /\ batch \subseteq JobIds
      /\ overtakes' = overtakes + Cardinality(taken)
  BY DEF ClaimBatch, Due
<1>2. \A v \in Workers : held'[v] = IF v = w THEN batch ELSE held[v]
  BY <1>1 DEF QueueTypeOK
<1>3. Pairs' = Pairs \cup ({w} \X batch) /\ Pairs \cap ({w} \X batch) = {}
  BY <1>1, <1>2 DEF Pairs
<1>4. OnDuty' = OnDuty \cup batch /\ OnDuty \cap batch = taken
  <2>1. \A j \in batch : Taken(j)'
    <3> TAKE j \in batch
    <3>1. jobs'[j] = Claimed(jobs[j]) /\ jobs[j] \in JobRows
      BY <1>1 DEF ClaimBatch, QueueTypeOK
    <3>2. jobs'[j].status = "running"
      BY <3>1 DEF Claimed, JobRows
    <3> QED
      BY <1>2, <3>2 DEF Taken, Held
  <2>2. \A j \in JobIds \ batch : jobs'[j] = jobs[j] /\ (Held(j)' <=> Held(j))
    BY <1>1, <1>2 DEF ClaimBatch, Held
  <2> QED
    BY <1>1, <2>1, <2>2 DEF OnDuty, Taken
<1>5. /\ IsFiniteSet(Pairs) /\ Cardinality(Pairs) \in Nat
      /\ IsFiniteSet(OnDuty) /\ Cardinality(OnDuty) \in Nat
  BY Numbers DEF PoolInv
<1>6. /\ IsFiniteSet({w} \X batch) /\ Cardinality({w} \X batch) = Cardinality(batch)
      /\ Cardinality(batch) \in Nat
  BY <1>1, PairsCount
<1>7. IsFiniteSet(Pairs') /\ Cardinality(Pairs') = Cardinality(Pairs) + Cardinality(batch)
  BY <1>3, <1>5, <1>6, DisjointUnion
<1>8. /\ Cardinality(taken) \in Nat
      /\ Cardinality(OnDuty') = Cardinality(OnDuty) + Cardinality(batch) - Cardinality(taken)
  <2>1. IsFiniteSet(taken)
    BY <1>1, FS_Subset
  <2>2. Cardinality(taken) \in Nat
    BY <2>1, FS_CardinalityType
  <2>3. Cardinality(OnDuty \cup batch) =
          Cardinality(OnDuty) + Cardinality(batch) - Cardinality(OnDuty \cap batch)
    BY <1>1, <1>5, FS_Union
  <2> QED
    BY <1>4, <2>2, <2>3
<1> HIDE DEF taken
<1>9. overtakes \in Nat
  BY QueueAssumption DEF QueueTypeOK
<1> QED
  BY <1>1, <1>5, <1>6, <1>7, <1>8, <1>9 DEF Late

LEMMA TriedInPool ==
    ASSUME QueueTypeOK, PoolInv,
           NEW w \in Workers, NEW batch \in SUBSET Due, ClaimBatch(w, batch)
    PROVE  PoolInv' /\ Pool!Try(batch)
<1>1. /\ IsFiniteSet(Pairs')
      /\ overtakes' >= overtakes /\ Late' = Late + (overtakes' - overtakes)
  <2>1. overtakes' \in Nat /\ overtakes \in Nat /\ overtakes <= overtakes'
    BY ClaimMakesLate, QueueAssumption DEF QueueTypeOK
  <2> QED
    BY <2>1, ClaimMakesLate
<1>2. \A v \in Workers : held'[v] = IF v = w THEN batch ELSE held[v]
  BY DEF ClaimBatch, QueueTypeOK
<1>3. ASSUME NEW j \in batch
      PROVE  /\ j \in JobIds /\ Active(j) /\ jobs'[j].status = "running"
             /\ jobs'[j].attempts # 0
  <2>1. jobs'[j] = Claimed(jobs[j]) /\ jobs[j] \in JobRows /\ j \in JobIds /\ Active(j)
    BY DEF ClaimBatch, QueueTypeOK, Due, Claimable, Active
  <2> QED
    BY <2>1 DEF Claimed, JobRows
<1>4. \A j \in JobIds \ batch : jobs'[j] = jobs[j] /\ (Held(j)' <=> Held(j))
  BY <1>2 DEF ClaimBatch, Held
<1>5. PoolInv'
  BY <1>1, <1>3, <1>4 DEF PoolInv
<1>6. \A j \in batch : Progress[j] # "none"
  BY <1>3 DEF Progress
<1>7. Progress' = [j \in JobIds |-> IF j \in batch THEN "tried" ELSE Progress[j]]
  BY <1>3, <1>4 DEF Progress, Active
<1> QED
  BY <1>1, <1>5, <1>6, <1>7 DEF Pool!Try

\* What a release does to the pairs, the rows on duty and the row itself.
LEMMA ReleasedSets ==
    ASSUME QueueTypeOK, PoolInv, NEW w \in Workers, NEW j \in JobIds,
           NEW s \in {"done", "failed", "queued"}, Release(w, j, s)
    PROVE  /\ Pairs' = Pairs \ {<<w, j>>} /\ <<w, j>> \in Pairs
           /\ OnDuty' = OnDuty \ {j}
           /\ \A i \in JobIds : i # j => jobs'[i] = jobs[i] /\ (Held(i)' <=> Held(i))
           /\ Active(j)' => s = "queued"
           /\ s = "queued" => Active(j)'
           /\ Held(j)' \/ Active(j)' => jobs'[j].attempts # 0
<1>1. \A v \in Workers : held'[v] = IF v = w THEN held[w] \ {j} ELSE held[v]
  BY DEF Release, QueueTypeOK
<1>2. j \in held[w]
  BY DEF Release
<1>3. Pairs' = Pairs \ {<<w, j>>} /\ <<w, j>> \in Pairs
  BY <1>1, <1>2 DEF Pairs
<1>4. \A i \in JobIds : i # j => jobs'[i] = jobs[i] /\ (Held(i)' <=> Held(i))
  BY <1>1 DEF Release, QueueTypeOK, Held
<1>5. jobs[j] \in JobRows /\ jobs[j].attempts # 0
  BY <1>2 DEF QueueTypeOK, PoolInv, Held
<1>6. jobs'[j] = IF s # "queued" /\ \A v \in Workers \ {w} : j \notin held[v]
                 THEN NoJob ELSE [jobs[j] EXCEPT !.status = s]
  BY DEF Release, QueueTypeOK
<1>7. CASE jobs'[j] = NoJob /\ s # "queued" /\ \A v \in Workers \ {w} : j \notin held[v]
  <2>1. jobs'[j].status = "none" /\ ~Held(j)'
    BY <1>1, <1>7 DEF NoJob, Held
  <2>2. OnDuty' = OnDuty \ {j}
    BY <1>4, <2>1 DEF OnDuty, Taken
  <2> QED
    BY <1>3, <1>4, <1>7, <2>1, <2>2 DEF Active
<1>8. CASE jobs'[j] = [jobs[j] EXCEPT !.status = s]
  <2>1. jobs'[j].status = s /\ jobs'[j].attempts # 0
    BY <1>5, <1>8 DEF JobRows
  <2>2. OnDuty' = OnDuty \ {j}
    BY <1>4, <2>1 DEF OnDuty, Taken
  <2> QED
    BY <1>3, <1>4, <2>1, <2>2 DEF Active
<1> QED
  BY <1>6, <1>7, <1>8

\* The holder of a row that runs ends the job or gives it back; any other is one of
\* those who come late.
LEMMA EndedInPool ==
    ASSUME QueueTypeOK, PoolInv, NEW w \in Workers, NEW j \in JobIds,
           NEW s \in {"done", "failed", "queued"}, Release(w, j, s)
    PROVE  PoolInv' /\ (Pool!End(j) \/ Pool!EndLate(j) \/ UNCHANGED <<Progress, overtakes, Late>>)
<1>1. /\ Pairs' = Pairs \ {<<w, j>>} /\ <<w, j>> \in Pairs
      /\ OnDuty' = OnDuty \ {j}
      /\ \A i \in JobIds : i # j => jobs'[i] = jobs[i] /\ (Held(i)' <=> Held(i))
      /\ Active(j)' => s = "queued"
      /\ s = "queued" => Active(j)'
      /\ Held(j)' \/ Active(j)' => jobs'[j].attempts # 0
  BY ReleasedSets
<1>2. /\ IsFiniteSet(Pairs) /\ IsFiniteSet(OnDuty)
      /\ Cardinality(OnDuty) \in Nat /\ Cardinality(Pairs) \in Nat
  BY Numbers DEF PoolInv
<1>3. /\ IsFiniteSet(Pairs') /\ Cardinality(Pairs') \in Nat
      /\ Cardinality(Pairs) = Cardinality(Pairs') + 1
  BY <1>1, <1>2, OneOut
<1>4. PoolInv'
  BY <1>1, <1>3 DEF PoolInv, Active
<1>5. /\ Cardinality(OnDuty') \in Nat
      /\ Cardinality(OnDuty') <= Cardinality(Pairs')
  BY <1>4, NumbersAfter
<1>6. overtakes' = overtakes /\ Held(j) /\ jobs[j].attempts # 0
  BY DEF Release, Held, PoolInv
<1>7. /\ Progress = [i \in JobIds |-> Progress[i]]
      /\ Progress' = [i \in JobIds |-> Progress'[i]]
  BY DEF Progress
<1>8. \A i \in JobIds : i # j => Progress'[i] = Progress[i]
  BY <1>1 DEF Progress, Active
<1>9. /\ s = "queued" => Progress'[j] = "tried"
      /\ s # "queued" => Progress'[j] = "none"
  BY <1>1 DEF Progress, Active
<1>10. CASE j \in OnDuty
  <2>1. Cardinality(OnDuty) = Cardinality(OnDuty') + 1
    BY <1>1, <1>2, <1>10, OneOut
  <2>2. Late' = Late
    BY <1>2, <1>3, <1>5, <2>1 DEF Late
  <2>3. Progress[j] = "tried"
    BY <1>6, <1>10 DEF Progress, OnDuty, Taken, Active
  <2>4. CASE s = "queued"
    <3>1. Progress' = Progress
      BY <1>7, <1>8, <1>9, <2>3, <2>4
    <3> QED
      BY <1>4, <1>6, <2>2, <3>1
  <2>5. CASE s # "queued"
    <3>1. Progress' = [Progress EXCEPT ![j] = "none"]
      BY <1>7, <1>8, <1>9, <2>5
    <3> QED
      BY <1>4, <1>6, <2>2, <2>3, <3>1 DEF Pool!End
  <2> QED
    BY <2>4, <2>5
<1>11. CASE j \notin OnDuty
  <2>1. OnDuty' = OnDuty
    BY <1>1, <1>11
  <2>2. Late' = Late - 1 /\ Late > 0
    BY <1>2, <1>3, <1>5, <2>1 DEF Late
  <2>3. Progress[j] # "added"
    BY <1>6 DEF Progress
  <2>4. Progress'[j] \in {"none", "tried"}
    BY <1>9
  <2>5. Progress' = [Progress EXCEPT ![j] = Progress'[j]]
    BY <1>7, <1>8
  <2> QED
    BY <1>4, <1>6, <2>2, <2>3, <2>4, <2>5 DEF Pool!EndLate
<1> QED
  BY <1>10, <1>11

LEMMA DiedInPool ==
    ASSUME QueueTypeOK, PoolInv, NEW w \in Workers, CrashWorker(w)
    PROVE  PoolInv' /\ Pool!Die
<1> DEFINE gone == {h \in Pairs : h[1] = w}
           off  == {j \in OnDuty : j \in held[w] /\ ~Held(j)'}
<1>1. jobs' = jobs /\ overtakes' = overtakes /\ held' = [held EXCEPT ![w] = {}]
  BY DEF CrashWorker
<1>2. \A v \in Workers : held'[v] = IF v = w THEN {} ELSE held[v]
  BY <1>1 DEF QueueTypeOK
<1>3. Pairs = Pairs' \cup gone /\ Pairs' \cap gone = {}
  BY <1>2 DEF Pairs
<1>4. OnDuty = OnDuty' \cup off /\ OnDuty' \cap off = {}
  BY <1>1, <1>2 DEF OnDuty, Taken, Held
<1>5. IsFiniteSet(Pairs') /\ IsFiniteSet(gone)
  BY <1>3, FS_Subset DEF PoolInv
<1>6. PoolInv'
  <2>1. \A j \in JobIds : Held(j)' => Held(j)
    BY <1>2 DEF Held
  <2> QED
    BY <1>1, <1>5, <2>1 DEF PoolInv
<1>7. \A j \in off : \E h \in gone : h[2] = j
  <2> TAKE j \in off
  <2>1. <<w, j>> \in gone
    BY DEF Pairs, OnDuty
  <2> QED
    BY <2>1
<1>8. /\ IsFiniteSet(off) /\ Cardinality(off) \in Nat /\ Cardinality(gone) \in Nat
      /\ Cardinality(off) <= Cardinality(gone)
  <2> HIDE DEF off, gone
  <2> QED
    BY <1>5, <1>7, Covered
<1>9. /\ IsFiniteSet(OnDuty') /\ Cardinality(OnDuty') \in Nat /\ Cardinality(Pairs') \in Nat
      /\ Cardinality(OnDuty') <= Cardinality(Pairs')
  BY <1>6, NumbersAfter
<1>10. Cardinality(Pairs) = Cardinality(Pairs') + Cardinality(gone)
  <2> HIDE DEF gone
  <2> QED
    BY <1>3, <1>5, DisjointUnion
<1>11. Cardinality(OnDuty) = Cardinality(OnDuty') + Cardinality(off)
  <2> HIDE DEF off
  <2> QED
    BY <1>4, <1>8, <1>9, DisjointUnion
<1> HIDE DEF off, gone
<1>12. Late' \in 0..Late
  BY <1>8, <1>9, <1>10, <1>11 DEF Late
<1>13. Progress' = Progress
  BY <1>1 DEF Progress, Active
<1> QED
  BY <1>1, <1>6, <1>12, <1>13 DEF Pool!Die

\* Nobody's row or batch changes.
LEMMA SamePool ==
    ASSUME PoolInv, jobs' = jobs, held' = held, overtakes' = overtakes
    PROVE  PoolInv' /\ UNCHANGED <<Progress, overtakes, Late>>
<1>1. Pairs' = Pairs /\ OnDuty' = OnDuty /\ \A j \in JobIds : Held(j)' <=> Held(j)
  BY DEF Pairs, OnDuty, Taken, Held
<1> QED
  BY <1>1 DEF PoolInv, Progress, Active, Late

\* Every step of the queue is a step of the pool or leaves it as it is.
LEMMA PoolStep ==
    ASSUME QueueTypeOK, PoolInv, QueueNext
    PROVE  PoolInv' /\ (Pool!PoolNext \/ UNCHANGED Pool!poolVars)
<1> USE DEF Pool!PoolNext, Pool!poolVars
<1>1. CommonStep
  BY StepCases
<1>2. CASE \E k \in Kinds : Insert(k) /\ held' = held /\ SamePrice
  BY <1>2, AddedToPool
<1>3. CASE jobs' = jobs /\ held' = held /\ SamePrice
  BY <1>3, SamePool DEF SamePrice
<1>4. CASE \E w \in Workers, batch \in SUBSET Due : ClaimBatch(w, batch)
  BY <1>4, TriedInPool DEF Due
<1>5. CASE \E w \in Workers, j \in JobIds, s \in {"done", "failed", "queued"} : Release(w, j, s)
  BY <1>5, EndedInPool
<1>6. CASE \E w \in Workers : CrashWorker(w)
  BY <1>6, DiedInPool
<1>7. CASE \E cs \in SUBSET Clients : Lapse(cs)
  BY <1>7, SamePool DEF Lapse
<1> QED
  BY <1>1, <1>2, <1>3, <1>4, <1>5, <1>6, <1>7 DEF CommonStep

LEMMA PoolStart == QueueInit => PoolInv /\ Pool!PoolInit
<1> SUFFICES ASSUME QueueInit
             PROVE  PoolInv /\ Pool!PoolInit
  OBVIOUS
<1>1. \A j \in JobIds : ~Active(j) /\ ~Held(j) /\ jobs[j].status # "running"
  BY DEF QueueInit, Active, Held, NoJob
<1>2. Pairs = {} /\ OnDuty = {}
  BY <1>1 DEF QueueInit, Pairs, OnDuty, Taken
<1>3. PoolInv
  BY <1>1, <1>2, FS_EmptySet DEF PoolInv
<1>4. Late = 0
  BY <1>2, FS_EmptySet DEF Late
<1>5. Progress = [j \in JobIds |-> "none"]
  BY <1>1 DEF Progress
<1> QED
  BY <1>3, <1>4, <1>5 DEF QueueInit, Pool!PoolInit

\* The table and its workers are a pool of work: no job is over before it was run, and no
\* outcome is written late more often than jobs were taken from workers still at them.
THEOREM QueueImplementsPool == QueueSpec => ImplementsPool
<1>1. QueueTypeOK /\ PoolInv /\ [QueueNext]_queueVars =>
        PoolInv' /\ [Pool!PoolNext]_(Pool!poolVars)
  <2>1. CASE UNCHANGED queueVars
    BY <2>1, SamePool DEF queueVars, Pool!poolVars
  <2> QED
    BY <2>1, PoolStep
<1> QED
  BY <1>1, PoolStart, QueueTypeCorrect, PTL DEF QueueSpec, ImplementsPool, Pool!PoolSpec

-----------------------------------------------------------------------------
(* The jobs of one kind.  A job that waits, and every worker that holds one, *)
(* is a chance that somebody goes through it.  For each way to change the    *)
(* table: the chances of a kind grow only with an insert of that kind or     *)
(* with a take-over.                                                         *)

LEMMA Sizes ==
    ASSUME NEW k, Finite(k)
    PROVE  /\ Cardinality(Waiting(k)) \in Nat /\ Cardinality(Holdings(k)) \in Nat
           /\ Cardinality(ActiveOfKind(k)) \in Nat /\ Chances(k) \in Nat
BY FS_CardinalityType DEF Finite, Chances

LEMMA Prices ==
    ASSUME QueueTypeOK
    PROVE  crashes \in Nat /\ overtakes \in Nat
BY QueueAssumption DEF QueueTypeOK

-----------------------------------------------------------------------------
(* The sets before and after each way to change the table *)

LEMMA InsertOtherSets ==
    ASSUME NEW k, QueueTypeOK, NEW o \in Kinds, o # k, Insert(o), held' = held
    PROVE  /\ Waiting(k)' = Waiting(k)
           /\ Holdings(k)' = Holdings(k)
           /\ ActiveOfKind(k)' = ActiveOfKind(k)
<1>1. PICK j \in JobIds :
        /\ Fresh(j)
        /\ jobs' = [jobs EXCEPT ![j] = [status |-> "queued", kind |-> o, attempts |-> 0]]
  BY QueueAssumption DEF Insert, Free
<1>2. \A i \in JobIds : i # j => jobs'[i] = jobs[i]
  BY <1>1 DEF QueueTypeOK
<1>3. jobs'[j].kind = o
  BY <1>1 DEF QueueTypeOK
<1>4. \A i \in JobIds : Held(i)' = Held(i)
  BY DEF Held
<1>5. ActiveOfKind(k)' = ActiveOfKind(k)
  BY <1>1, <1>2, <1>3 DEF ActiveOfKind, Active, Fresh
<1>6. Waiting(k)' = Waiting(k)
  BY <1>1, <1>2, <1>3, <1>4, <1>5 DEF Waiting, ActiveOfKind, Active
<1>7. Holdings(k)' = Holdings(k)
  BY <1>1, <1>2 DEF Holdings, Fresh, Held
<1> QED
  BY <1>5, <1>6, <1>7

LEMMA InsertSameSets ==
    ASSUME NEW k \in Kinds, QueueTypeOK, Insert(k), held' = held
    PROVE  \E j \in JobIds : /\ j \notin ActiveOfKind(k) /\ j \notin Waiting(k)
                             /\ Waiting(k)' = Waiting(k) \cup {j}
                             /\ ActiveOfKind(k)' = ActiveOfKind(k) \cup {j}
                             /\ Holdings(k)' = Holdings(k)
<1>1. PICK j \in JobIds :
        /\ Fresh(j)
        /\ jobs' = [jobs EXCEPT ![j] = [status |-> "queued", kind |-> k, attempts |-> 0]]
  BY QueueAssumption DEF Insert, Free
<1>2. \A i \in JobIds : i # j => jobs'[i] = jobs[i]
  BY <1>1 DEF QueueTypeOK
<1>3. jobs'[j].kind = k /\ jobs'[j].status = "queued"
  BY <1>1 DEF QueueTypeOK
<1>4. \A i \in JobIds : Held(i)' = Held(i)
  BY DEF Held
<1>5. j \notin ActiveOfKind(k) /\ j \notin Waiting(k)
  BY <1>1 DEF Waiting, ActiveOfKind, Fresh
<1>6. ActiveOfKind(k)' = ActiveOfKind(k) \cup {j}
  BY <1>2, <1>3 DEF ActiveOfKind, Active
<1>7. Waiting(k)' = Waiting(k) \cup {j}
  BY <1>2, <1>3, <1>4 DEF Waiting, ActiveOfKind, Active
<1>8. Holdings(k)' = Holdings(k)
  BY <1>1, <1>2 DEF Holdings, Fresh, Held
<1> QED
  BY <1>5, <1>6, <1>7, <1>8

LEMMA ClaimSets ==
    ASSUME NEW k, QueueTypeOK, NEW w \in Workers, NEW batch \in SUBSET Due,
           ClaimBatch(w, batch)
    PROVE  LET claimed == {j \in batch : jobs[j].kind = k} IN
           /\ Waiting(k)' = Waiting(k) \ claimed
           /\ Holdings(k)' = Holdings(k) \cup ({w} \X claimed)
           /\ Holdings(k) \cap ({w} \X claimed) = {}
           /\ ActiveOfKind(k)' = ActiveOfKind(k)
           /\ claimed \subseteq (claimed \cap Waiting(k)) \cup {j \in batch : Taken(j)}
           /\ IsFiniteSet(batch)
           /\ overtakes' = overtakes + Cardinality({j \in batch : Taken(j)})
<1> DEFINE claimed == {j \in batch : jobs[j].kind = k}
<1>1. /\ held[w] = {} /\ held' = [held EXCEPT ![w] = batch] /\ IsFiniteSet(batch)
      /\ overtakes' = overtakes + Cardinality({j \in batch : Taken(j)})
      /\ jobs' = [j \in JobIds |-> IF j \in batch THEN Claimed(jobs[j]) ELSE jobs[j]]
  BY DEF ClaimBatch
<1>2. batch \subseteq JobIds /\ \A j \in batch : Claimable(j)
  BY DEF Due
<1>3. \A j \in JobIds : jobs'[j].kind = jobs[j].kind
  BY <1>1 DEF Claimed, QueueTypeOK, JobRows
<1>4. \A j \in batch : jobs'[j].status = "running" /\ Held(j)' /\ Active(j)
  BY <1>1, <1>2 DEF Claimed, QueueTypeOK, JobRows, Held, Claimable, Active
<1>5. \A j \in JobIds \ batch : jobs'[j] = jobs[j] /\ Held(j)' = Held(j)
  BY <1>1 DEF Held, QueueTypeOK
<1>6. ActiveOfKind(k)' = ActiveOfKind(k)
  BY <1>2, <1>3, <1>4, <1>5 DEF ActiveOfKind, Active
<1>7. Waiting(k)' = Waiting(k) \ claimed
  BY <1>2, <1>3, <1>4, <1>5 DEF Waiting, ActiveOfKind, Active
<1>8. Holdings(k)' = Holdings(k) \cup ({w} \X claimed)
  BY <1>1, <1>2, <1>3 DEF Holdings, QueueTypeOK
<1>9. Holdings(k) \cap ({w} \X claimed) = {}
  BY <1>1 DEF Holdings
<1>10. claimed \subseteq (claimed \cap Waiting(k)) \cup {j \in batch : Taken(j)}
  BY <1>2, <1>4 DEF Claimable, Waiting, ActiveOfKind, Taken
<1> QED
  BY <1>1, <1>6, <1>7, <1>8, <1>9, <1>10

LEMMA ReleaseOtherSets ==
    ASSUME NEW k \in Kinds, QueueTypeOK, NEW w \in Workers, NEW j \in JobIds,
           NEW s \in {"done", "failed", "queued"}, Release(w, j, s), jobs[j].kind # k
    PROVE  /\ Waiting(k)' = Waiting(k)
           /\ Holdings(k)' = Holdings(k)
           /\ ActiveOfKind(k)' = ActiveOfKind(k)
<1>1. j \in held[w] /\ held' = [held EXCEPT ![w] = held[w] \ {j}]
  BY DEF Release
<1>2. \A i \in JobIds : i # j => jobs'[i] = jobs[i] /\ Held(i)' = Held(i)
  BY <1>1 DEF Release, QueueTypeOK, Held
<1>3. jobs'[j].kind # k
  BY QueueAssumption DEF Release, QueueTypeOK, NoJob, JobRows
<1>4. ActiveOfKind(k)' = ActiveOfKind(k)
  BY <1>2, <1>3 DEF ActiveOfKind, Active
<1>5. Waiting(k)' = Waiting(k)
  BY <1>2, <1>3 DEF Waiting, ActiveOfKind, Active
<1>6. Holdings(k)' = Holdings(k)
  BY <1>1, <1>2, <1>3 DEF Holdings, QueueTypeOK
<1> QED
  BY <1>4, <1>5, <1>6

LEMMA ReleaseSets ==
    ASSUME NEW k, QueueTypeOK, NEW w \in Workers, NEW j \in JobIds,
           NEW s \in {"done", "failed", "queued"}, Release(w, j, s), jobs[j].kind = k
    PROVE  /\ <<w, j>> \in Holdings(k) /\ Holdings(k)' = Holdings(k) \ {<<w, j>>}
           /\ s = "queued" =>
                Waiting(k)' = Waiting(k) \cup {j} /\ ActiveOfKind(k)' = ActiveOfKind(k) \cup {j}
           /\ s # "queued" =>
                Waiting(k)' = Waiting(k) \ {j} /\ ActiveOfKind(k)' = ActiveOfKind(k) \ {j}
<1>1. j \in held[w] /\ held' = [held EXCEPT ![w] = held[w] \ {j}]
  BY DEF Release
<1>2. \A i \in JobIds : i # j => jobs'[i] = jobs[i] /\ Held(i)' = Held(i)
  BY <1>1 DEF Release, QueueTypeOK, Held
<1>3. jobs[j] \in JobRows
  BY DEF QueueTypeOK
<1>4. \/ s = "queued" /\ jobs'[j].status = "queued" /\ jobs'[j].kind = k
      \/ s # "queued" /\ jobs'[j].status \notin {"queued", "running"}
  BY <1>3 DEF Release, QueueTypeOK, NoJob, JobRows
<1>5. \A v \in Workers \ {w} : j \in held[v] => jobs'[j].kind = k
  BY <1>3 DEF Release, QueueTypeOK, JobRows
<1>6. \A v \in Workers, i \in JobIds :
        (i \in held'[v] /\ jobs'[i].kind = k)
          <=> (i \in held[v] /\ jobs[i].kind = k) /\ ~(v = w /\ i = j)
  <2> TAKE v \in Workers, i \in JobIds
  <2>1. CASE i # j
    BY <1>1, <1>2, <2>1 DEF QueueTypeOK
  <2>2. CASE i = j
    BY <1>1, <1>5, <2>2 DEF QueueTypeOK
  <2> QED
    BY <2>1, <2>2
<1>7. <<w, j>> \in Holdings(k) /\ Holdings(k)' = Holdings(k) \ {<<w, j>>}
  BY <1>1, <1>6 DEF Holdings
<1>8. s = "queued" =>
        Waiting(k)' = Waiting(k) \cup {j} /\ ActiveOfKind(k)' = ActiveOfKind(k) \cup {j}
  BY <1>2, <1>4 DEF Waiting, ActiveOfKind, Active
<1>9. s # "queued" => Waiting(k)' = Waiting(k) \ {j} /\ ActiveOfKind(k)' = ActiveOfKind(k) \ {j}
  BY <1>2, <1>4 DEF Waiting, ActiveOfKind, Active
<1> QED
  BY <1>7, <1>8, <1>9

LEMMA CrashSets ==
    ASSUME NEW k, QueueTypeOK, NEW w \in Workers, CrashWorker(w)
    PROVE  LET lost == {j \in held[w] : jobs[j].kind = k} IN
           /\ {w} \X lost \subseteq Holdings(k) /\ Holdings(k)' = Holdings(k) \ ({w} \X lost)
           /\ Waiting(k)' \subseteq Waiting(k) \cup lost
           /\ ActiveOfKind(k)' = ActiveOfKind(k)
<1> DEFINE lost == {j \in held[w] : jobs[j].kind = k}
<1>1. jobs' = jobs /\ held' = [held EXCEPT ![w] = {}]
  BY DEF CrashWorker
<1>2. held[w] \subseteq JobIds
  BY DEF QueueTypeOK
<1>3. {w} \X lost \subseteq Holdings(k)
  BY <1>2 DEF Holdings
<1>4. Holdings(k)' = Holdings(k) \ ({w} \X lost)
  BY <1>1 DEF Holdings, QueueTypeOK
<1>5. \A j \in JobIds : Held(j) => Held(j)' \/ j \in held[w]
  BY <1>1 DEF Held, QueueTypeOK
<1>6. Waiting(k)' \subseteq Waiting(k) \cup lost
  BY <1>1, <1>5 DEF Waiting, ActiveOfKind, Active
<1>7. ActiveOfKind(k)' = ActiveOfKind(k)
  BY <1>1 DEF ActiveOfKind, Active
<1> QED
  BY <1>3, <1>4, <1>6, <1>7

-----------------------------------------------------------------------------
(* The counts before and after *)

NoChance(k) == Tally(k)' /\ Chances(k)' + overtakes <= Chances(k) + overtakes'

OneChance(k) == Tally(k)' /\ Chances(k)' <= Chances(k) + 1 /\ overtakes' = overtakes

ChanceLess(k) == Tally(k)' /\ Chances(k)' + 1 <= Chances(k) /\ overtakes' = overtakes

LEMMA SizesAfter ==
    ASSUME NEW k, Tally(k)'
    PROVE  Chances(k)' \in Nat
<1>1. Cardinality(Waiting(k)') \in Nat /\ Cardinality(Holdings(k)') \in Nat
  BY FS_CardinalityType DEF Tally, Finite
<1> QED
  BY <1>1 DEF Chances

LEMMA Cancel ==
    ASSUME NEW a \in Nat, NEW b \in Nat, NEW n \in Nat, a + n <= b + n
    PROVE  a <= b
OBVIOUS

LEMMA AddBoth ==
    ASSUME NEW a \in Nat, NEW b \in Nat, NEW o \in Nat, NEW p \in Nat, a + o <= b + p,
           NEW n \in Nat, NEW c \in Nat, NEW m \in Nat
    PROVE  a + n + c + o + m <= b + n + c + p + m
OBVIOUS

LEMMA NoChanceLeq ==
    ASSUME NEW k, QueueTypeOK, Tally(k), NoChance(k), overtakes' = overtakes
    PROVE  Chances(k)' <= Chances(k) /\ Chances(k)' \in Nat /\ Tally(k)'
<1>1. Chances(k) \in Nat /\ Chances(k)' \in Nat /\ overtakes \in Nat
  BY Sizes, SizesAfter, Prices DEF Tally, NoChance
<1>2. Chances(k)' + overtakes <= Chances(k) + overtakes /\ Tally(k)'
  BY DEF NoChance
<1> QED
  BY <1>1, <1>2, Cancel

LEMMA SameSets ==
    ASSUME NEW k, QueueTypeOK, Tally(k), overtakes' = overtakes,
           Waiting(k)' = Waiting(k), Holdings(k)' = Holdings(k),
           ActiveOfKind(k)' = ActiveOfKind(k)
    PROVE  NoChance(k)
<1>1. Finite(k)' /\ Chances(k)' = Chances(k)
  BY DEF Tally, Finite, Chances
<1>2. Chances(k) \in Nat /\ overtakes \in Nat
  BY Sizes, Prices DEF Tally
<1> QED
  BY <1>1, <1>2 DEF Tally, NoChance

LEMMA InsertOtherCount ==
    ASSUME NEW k, QueueTypeOK, Tally(k), NEW o \in Kinds, o # k, Insert(o),
           held' = held, overtakes' = overtakes
    PROVE  NoChance(k)
BY InsertOtherSets, SameSets

LEMMA InsertSameCount ==
    ASSUME NEW k \in Kinds, QueueTypeOK, Tally(k), Insert(k),
           held' = held, overtakes' = overtakes
    PROVE  OneChance(k)
<1>1. PICK j \in JobIds : /\ j \notin ActiveOfKind(k) /\ j \notin Waiting(k)
                          /\ Waiting(k)' = Waiting(k) \cup {j}
                          /\ ActiveOfKind(k)' = ActiveOfKind(k) \cup {j}
                          /\ Holdings(k)' = Holdings(k)
  BY InsertSameSets
<1>2. Finite(k) /\ Chances(k) <= Cardinality(ActiveOfKind(k)) + overtakes /\ overtakes \in Nat
  BY Prices DEF Tally
<1>3. /\ IsFiniteSet(Waiting(k)') /\ Cardinality(Waiting(k)') = Cardinality(Waiting(k)) + 1
      /\ IsFiniteSet(ActiveOfKind(k)')
      /\ Cardinality(ActiveOfKind(k)') = Cardinality(ActiveOfKind(k)) + 1
      /\ IsFiniteSet(Holdings(k)') /\ Cardinality(Holdings(k)') = Cardinality(Holdings(k))
  BY <1>1, <1>2, OneIn DEF Finite
<1>4. Chances(k)' = Chances(k) + 1 /\ Chances(k) \in Nat
  BY <1>2, <1>3, Sizes DEF Chances
<1>5. overtakes' = overtakes
  OBVIOUS
<1> QED
  BY <1>1, <1>2, <1>3, <1>4, <1>5, Sizes DEF OneChance, Tally, Finite

LEMMA ReleaseOtherCount ==
    ASSUME NEW k \in Kinds, QueueTypeOK, Tally(k), NEW w \in Workers, NEW j \in JobIds,
           NEW s \in {"done", "failed", "queued"}, Release(w, j, s), jobs[j].kind # k
    PROVE  NoChance(k)
<1>1. overtakes' = overtakes
  BY DEF Release
<1> QED
  BY <1>1, ReleaseOtherSets, SameSets

LEMMA RequeueCount ==
    ASSUME NEW k, QueueTypeOK, Tally(k), NEW w \in Workers, NEW j \in JobIds,
           Release(w, j, "queued"),
           jobs[j].kind = k
    PROVE  NoChance(k)
<1>1. /\ <<w, j>> \in Holdings(k) /\ Holdings(k)' = Holdings(k) \ {<<w, j>>}
      /\ Waiting(k)' = Waiting(k) \cup {j} /\ ActiveOfKind(k)' = ActiveOfKind(k) \cup {j}
  BY ReleaseSets
<1>2. Finite(k) /\ Chances(k) <= Cardinality(ActiveOfKind(k)) + overtakes /\ overtakes \in Nat
      /\ overtakes' = overtakes
  BY Prices DEF Tally, Release
<1>3. /\ IsFiniteSet(Waiting(k)') /\ Cardinality(Waiting(k)') <= Cardinality(Waiting(k)) + 1
      /\ IsFiniteSet(ActiveOfKind(k)')
      /\ Cardinality(ActiveOfKind(k)) <= Cardinality(ActiveOfKind(k)')
  <2>1. /\ IsFiniteSet(Waiting(k) \cup {j})
        /\ Cardinality(Waiting(k) \cup {j}) <= Cardinality(Waiting(k)) + 1
    BY <1>2, OneIn DEF Finite
  <2>2. /\ IsFiniteSet(ActiveOfKind(k) \cup {j})
        /\ Cardinality(ActiveOfKind(k)) <= Cardinality(ActiveOfKind(k) \cup {j})
    BY <1>2, OneIn DEF Finite
  <2> QED
    BY <1>1, <2>1, <2>2
<1>4. IsFiniteSet(Holdings(k)') /\ Cardinality(Holdings(k)) = Cardinality(Holdings(k)') + 1
  <2>1. /\ IsFiniteSet(Holdings(k) \ {<<w, j>>})
        /\ Cardinality(Holdings(k)) = Cardinality(Holdings(k) \ {<<w, j>>}) + 1
    BY <1>1, <1>2, OneOut DEF Finite
  <2> QED
    BY <1>1, <2>1
<1>5. /\ Cardinality(Waiting(k)') \in Nat /\ Cardinality(Holdings(k)') \in Nat
      /\ Cardinality(ActiveOfKind(k)') \in Nat
  BY <1>3, <1>4, FS_CardinalityType
<1>6. Chances(k)' <= Chances(k)
  BY <1>2, <1>3, <1>4, <1>5, Sizes DEF Chances
<1>7. Chances(k)' \in Nat
  BY <1>5 DEF Chances
<1> QED
  BY <1>2, <1>3, <1>4, <1>5, <1>6, <1>7, Sizes DEF NoChance, Tally, Finite

LEMMA EndCount ==
    ASSUME NEW k, QueueTypeOK, Tally(k), NEW w \in Workers, NEW j \in JobIds,
           NEW s \in {"done", "failed"},
           Release(w, j, s), jobs[j].kind = k
    PROVE  ChanceLess(k)
<1>1. /\ <<w, j>> \in Holdings(k) /\ Holdings(k)' = Holdings(k) \ {<<w, j>>}
      /\ Waiting(k)' = Waiting(k) \ {j} /\ ActiveOfKind(k)' = ActiveOfKind(k) \ {j}
  BY ReleaseSets
<1>2. Finite(k) /\ Chances(k) <= Cardinality(ActiveOfKind(k)) + overtakes /\ overtakes \in Nat
      /\ overtakes' = overtakes
  BY Prices DEF Tally, Release
<1>3. /\ IsFiniteSet(Waiting(k)') /\ Cardinality(Waiting(k)') <= Cardinality(Waiting(k))
      /\ IsFiniteSet(ActiveOfKind(k)')
      /\ Cardinality(ActiveOfKind(k)) <= Cardinality(ActiveOfKind(k)') + 1
      /\ IsFiniteSet(Holdings(k)') /\ Cardinality(Holdings(k)) = Cardinality(Holdings(k)') + 1
  <2>1. /\ IsFiniteSet(Waiting(k) \ {j})
        /\ Cardinality(Waiting(k) \ {j}) <= Cardinality(Waiting(k))
    BY <1>2, OneOut DEF Finite
  <2>2. /\ IsFiniteSet(ActiveOfKind(k) \ {j})
        /\ Cardinality(ActiveOfKind(k)) <= Cardinality(ActiveOfKind(k) \ {j}) + 1
    BY <1>2, OneOut DEF Finite
  <2>3. /\ IsFiniteSet(Holdings(k) \ {<<w, j>>})
        /\ Cardinality(Holdings(k)) = Cardinality(Holdings(k) \ {<<w, j>>}) + 1
    BY <1>1, <1>2, OneOut DEF Finite
  <2> QED
    BY <1>1, <2>1, <2>2, <2>3
<1>4. /\ Cardinality(Waiting(k)') \in Nat /\ Cardinality(Holdings(k)') \in Nat
      /\ Cardinality(ActiveOfKind(k)') \in Nat
  BY <1>3, FS_CardinalityType
<1>5. Chances(k)' + 1 <= Chances(k)
  BY <1>2, <1>3, <1>4, Sizes DEF Chances
<1>6. Chances(k)' \in Nat
  BY <1>4 DEF Chances
<1> QED
  BY <1>2, <1>3, <1>4, <1>5, <1>6, Sizes DEF ChanceLess, Tally, Finite

LEMMA ClaimCount ==
    ASSUME NEW k, QueueTypeOK, Tally(k), NEW w \in Workers,
           NEW batch \in SUBSET Due, ClaimBatch(w, batch)
    PROVE  NoChance(k)
<1> DEFINE claimed == {j \in batch : jobs[j].kind = k}
           known == claimed \cap Waiting(k)
           taken == {j \in batch : Taken(j)}
<1>1. /\ Waiting(k)' = Waiting(k) \ claimed
      /\ Holdings(k)' = Holdings(k) \cup ({w} \X claimed)
      /\ Holdings(k) \cap ({w} \X claimed) = {}
      /\ ActiveOfKind(k)' = ActiveOfKind(k)
      /\ claimed \subseteq known \cup taken
      /\ IsFiniteSet(batch)
      /\ overtakes' = overtakes + Cardinality(taken)
  BY ClaimSets
<1>2. Finite(k) /\ Chances(k) <= Cardinality(ActiveOfKind(k)) + overtakes /\ overtakes \in Nat
  BY Prices DEF Tally
<1>3. /\ IsFiniteSet(claimed) /\ IsFiniteSet(known) /\ IsFiniteSet(taken)
      /\ Cardinality(claimed) \in Nat
      /\ Cardinality(known) \in Nat
      /\ Cardinality(taken) \in Nat
  BY <1>1, FS_Subset, FS_CardinalityType
<1>4. Cardinality(claimed) <= Cardinality(known) + Cardinality(taken)
  <2>1. /\ IsFiniteSet(known \cup taken)
        /\ Cardinality(known \cup taken)
             = Cardinality(known) + Cardinality(taken) - Cardinality(known \cap taken)
    BY <1>3, FS_Union
  <2>2. Cardinality(known \cap taken) \in Nat
    BY <1>3, FS_Intersection, FS_CardinalityType
  <2>3. Cardinality(claimed) <= Cardinality(known \cup taken)
        /\ Cardinality(known \cup taken) \in Nat
    BY <1>1, <2>1, FS_Subset, FS_CardinalityType
  <2> QED
    BY <1>3, <2>1, <2>2, <2>3
<1>5. /\ IsFiniteSet(Waiting(k)')
      /\ Cardinality(Waiting(k)') = Cardinality(Waiting(k)) - Cardinality(known)
  <2>1. /\ IsFiniteSet(Waiting(k) \ claimed)
        /\ Cardinality(Waiting(k) \ claimed)
             = Cardinality(Waiting(k)) - Cardinality(Waiting(k) \cap claimed)
    BY <1>2, FS_Difference DEF Finite
  <2>2. Waiting(k) \cap claimed = known
    OBVIOUS
  <2> QED
    BY <1>1, <2>1, <2>2
<1>6. /\ IsFiniteSet(Holdings(k)')
      /\ Cardinality(Holdings(k)') = Cardinality(Holdings(k)) + Cardinality(claimed)
  <2>1. IsFiniteSet({w} \X claimed) /\ Cardinality({w} \X claimed) = Cardinality(claimed)
    BY <1>3, PairsCount
  <2>2. Cardinality(Holdings(k) \cap ({w} \X claimed)) = 0
    BY <1>1, FS_EmptySet
  <2>3. /\ IsFiniteSet(Holdings(k) \cup ({w} \X claimed))
        /\ Cardinality(Holdings(k) \cup ({w} \X claimed))
             = Cardinality(Holdings(k)) + Cardinality({w} \X claimed)
                 - Cardinality(Holdings(k) \cap ({w} \X claimed))
    BY <1>2, <2>1, FS_Union DEF Finite
  <2> QED
    BY <1>1, <1>2, <1>3, <2>1, <2>2, <2>3, Sizes
<1>7. Chances(k)' = Chances(k) + Cardinality(claimed) - Cardinality(known)
  BY <1>2, <1>3, <1>5, <1>6, Sizes DEF Chances
<1> HIDE DEF claimed, known, taken
<1>8. Chances(k)' \in Int /\ Chances(k)' + overtakes <= Chances(k) + overtakes'
  BY <1>1, <1>2, <1>3, <1>4, <1>7, Sizes
<1>9. Tally(k)'
  BY <1>1, <1>2, <1>3, <1>5, <1>6, <1>8, Sizes DEF Tally, Finite
<1> QED
  BY <1>8, <1>9 DEF NoChance

LEMMA CrashCount ==
    ASSUME NEW k, QueueTypeOK, Tally(k), NEW w \in Workers, CrashWorker(w)
    PROVE  NoChance(k)
<1> DEFINE lost == {j \in held[w] : jobs[j].kind = k}
<1>1. /\ {w} \X lost \subseteq Holdings(k) /\ Holdings(k)' = Holdings(k) \ ({w} \X lost)
      /\ Waiting(k)' \subseteq Waiting(k) \cup lost
      /\ ActiveOfKind(k)' = ActiveOfKind(k) /\ overtakes' = overtakes
  BY CrashSets DEF CrashWorker
<1>2. Finite(k) /\ Chances(k) <= Cardinality(ActiveOfKind(k)) + overtakes /\ overtakes \in Nat
  BY Prices DEF Tally
<1>3. IsFiniteSet(lost) /\ Cardinality({w} \X lost) = Cardinality(lost)
      /\ Cardinality(lost) \in Nat
  <2>1. lost \subseteq {h[2] : h \in Holdings(k)}
    <3>1. ASSUME NEW j \in lost PROVE j \in {h[2] : h \in Holdings(k)}
      <4>1. <<w, j>> \in Holdings(k) /\ <<w, j>>[2] = j
        BY <1>1
      <4> QED
        BY <4>1
    <3> QED
      BY <3>1
  <2>2. IsFiniteSet({h[2] : h \in Holdings(k)})
    <3> DEFINE second == [h \in Holdings(k) |-> h[2]]
    <3>1. second \in Surjection(Holdings(k), {h[2] : h \in Holdings(k)})
      BY DEF Surjection
    <3> QED
      BY <1>2, <3>1, FS_Surjection DEF Finite
  <2>3. IsFiniteSet(lost)
    BY <2>1, <2>2, FS_Subset
  <2> QED
    BY <2>3, PairsCount
<1>4. /\ IsFiniteSet(Holdings(k)')
      /\ Cardinality(Holdings(k)') = Cardinality(Holdings(k)) - Cardinality(lost)
  <2>1. Holdings(k) \cap ({w} \X lost) = {w} \X lost
    BY <1>1
  <2>2. /\ IsFiniteSet(Holdings(k) \ ({w} \X lost))
        /\ Cardinality(Holdings(k) \ ({w} \X lost))
             = Cardinality(Holdings(k)) - Cardinality(Holdings(k) \cap ({w} \X lost))
    BY <1>2, FS_Difference DEF Finite
  <2> QED
    BY <1>1, <1>3, <2>1, <2>2
<1>5. /\ IsFiniteSet(Waiting(k)') /\ Cardinality(Waiting(k)') \in Nat
      /\ Cardinality(Waiting(k)') <= Cardinality(Waiting(k)) + Cardinality(lost)
  <2>1. /\ IsFiniteSet(Waiting(k) \cup lost)
        /\ Cardinality(Waiting(k) \cup lost)
             = Cardinality(Waiting(k)) + Cardinality(lost) - Cardinality(Waiting(k) \cap lost)
    BY <1>2, <1>3, FS_Union DEF Finite
  <2>2. Cardinality(Waiting(k) \cap lost) \in Nat
    BY <1>2, <1>3, FS_Intersection, FS_CardinalityType DEF Finite
  <2>3. /\ IsFiniteSet(Waiting(k)') /\ Cardinality(Waiting(k)') \in Nat
        /\ Cardinality(Waiting(k)') <= Cardinality(Waiting(k) \cup lost)
        /\ Cardinality(Waiting(k) \cup lost) \in Nat
    BY <1>1, <2>1, FS_Subset, FS_CardinalityType
  <2> QED
    BY <1>2, <1>3, <2>1, <2>2, <2>3, Sizes
<1> HIDE DEF lost
<1>6. Cardinality(Holdings(k)') \in Nat
  BY <1>4, FS_CardinalityType
<1>7. Chances(k)' \in Nat /\ Chances(k)' <= Chances(k)
  BY <1>2, <1>3, <1>4, <1>5, <1>6, Sizes DEF Chances
<1> QED
  BY <1>1, <1>2, <1>4, <1>5, <1>7, Sizes DEF NoChance, Tally, Finite

\* Every active job is a chance.
LEMMA ChancesBound ==
    ASSUME NEW k, Finite(k)
    PROVE  Cardinality(ActiveOfKind(k)) <= Chances(k)
<1> DEFINE second == [h \in Holdings(k) |-> h[2]]
           Seconds == {h[2] : h \in Holdings(k)}
<1>1. second \in Surjection(Holdings(k), Seconds)
  BY DEF Surjection
<1> HIDE DEF second
<1>2. IsFiniteSet(Seconds) /\ Cardinality(Seconds) <= Cardinality(Holdings(k))
      /\ Cardinality(Seconds) \in Nat
  BY <1>1, FS_Surjection, FS_CardinalityType DEF Finite
<1>3. ActiveOfKind(k) \subseteq Waiting(k) \cup Seconds
  <2>1. ASSUME NEW j \in ActiveOfKind(k), j \notin Waiting(k) PROVE j \in Seconds
    <3>1. PICK w \in Workers : j \in held[w]
      BY <2>1 DEF ActiveOfKind, Waiting, Held
    <3>2. <<w, j>> \in Holdings(k) /\ <<w, j>>[2] = j
      BY <2>1, <3>1 DEF Holdings, ActiveOfKind
    <3> QED
      BY <3>2
  <2> QED
    BY <2>1
<1> HIDE DEF Seconds
<1>4. /\ IsFiniteSet(Waiting(k) \cup Seconds)
      /\ Cardinality(Waiting(k) \cup Seconds)
           = Cardinality(Waiting(k)) + Cardinality(Seconds)
               - Cardinality(Waiting(k) \cap Seconds)
  BY <1>2, FS_Union DEF Finite
<1>5. Cardinality(Waiting(k) \cap Seconds) \in Nat
  BY <1>2, FS_Intersection, FS_CardinalityType DEF Finite
<1>6. Cardinality(ActiveOfKind(k)) <= Cardinality(Waiting(k) \cup Seconds)
      /\ Cardinality(Waiting(k) \cup Seconds) \in Nat
  BY <1>3, <1>4, FS_Subset, FS_CardinalityType
<1> QED
  BY <1>2, <1>4, <1>5, <1>6, Sizes DEF Chances
=============================================================================
