------------------------- MODULE RateLimiter_proofs -------------------------
(***************************************************************************)
(* Theorems of RateLimiter for any number of requests, limit, window and   *)
(* stretch of time.                                                        *)
(***************************************************************************)
EXTENDS RateLimiter, TLAPS

-----------------------------------------------------------------------------
(* Types *)

LEMMA LimiterTypeInit == Init => TypeOK
BY LimiterAssumption DEF Init, TypeOK, NoRow, RateRows

LEMMA AnswerType ==
    ASSUME TypeOK, NEW r \in Requests, Answer(r)
    PROVE  /\ pc' \in [Requests -> {"idle", "select", "insert"}]
           /\ now' \in [Requests -> Nat]
           /\ retries' \in [Requests -> Nat]
BY DEF TypeOK, Answer

LEMMA LimiterTypeStep == TypeOK /\ [Next]_vars => TypeOK'
<1> SUFFICES ASSUME TypeOK, [Next]_vars
             PROVE  TypeOK'
  OBVIOUS
<1> USE LimiterAssumption
<1>1. ASSUME NEW r \in Requests, Begin(r) \/ SelectFindsNone(r) \/ InsertFails(r)
      PROVE  TypeOK'
  BY <1>1 DEF Begin, SelectFindsNone, InsertFails, TypeOK
<1>2. ASSUME NEW r \in Requests, Reopen(r) \/ Insert(r)
      PROVE  TypeOK'
  <2>1. row' \in RateRows /\ windows' \in Nat /\ total' \in Nat /\ clock' = clock
    BY <1>2 DEF Reopen, Insert, OpenWindow, LetThrough, TypeOK, RateRows
  <2> QED
    BY <1>2, <2>1, AnswerType DEF Reopen, Insert, OpenWindow, LetThrough, TypeOK
<1>3. ASSUME NEW r \in Requests, Count(r) \/ Reject(r) \/ Abandon(r)
      PROVE  TypeOK'
  <2>1. row' \in RateRows /\ windows' \in Nat /\ total' \in Nat /\ clock' = clock
    BY <1>3 DEF Count, Reject, Abandon, LetThrough, TypeOK, RateRows
  <2> QED
    BY <1>3, <2>1, AnswerType DEF Count, Reject, Abandon, LetThrough, TypeOK
<1>4. CASE Tick
  BY <1>4 DEF Tick, TypeOK
<1>5. CASE UNCHANGED vars
  BY <1>5 DEF vars, TypeOK
<1> QED
  BY <1>1, <1>2, <1>3, <1>4, <1>5 DEF Next, Proceed

\* The variables keep their types.
THEOREM LimiterTypeCorrect == Spec => []TypeOK
BY LimiterTypeInit, LimiterTypeStep, PTL DEF Spec

-----------------------------------------------------------------------------
(* The invariant *)

\* The budgets of all windows but the last, and of the last
LEMMA OneBudgetMore ==
    ASSUME NEW m \in Nat, NEW n \in Nat, n > 0
    PROVE  m * (n - 1) + m = m * n
OBVIOUS

\* What the invariant says of requests
RequestInv(r) ==
    /\ now[r] <= clock
    /\ retries[r] = 0 \/ (Exists /\ retries[r] = 1 /\ pc[r] = "select")

\* ... and of the row
WindowInv ==
    /\ Exists => /\ row.expires_at = row.window_start + Window
                 /\ row.window_start <= clock
                 /\ row.count <= Limit
                 /\ windows > 0
                 /\ (windows - 1) * Window <= row.window_start
                 /\ total <= Limit * (windows - 1) + row.count
    /\ ~Exists => row = NoRow /\ windows = 0 /\ total = 0

LEMMA LimiterParts == LimiterInv <=> WindowInv /\ \A r \in Requests : RequestInv(r)
BY DEF LimiterInv, WindowInv, RequestInv

LEMMA AnswerInv ==
    ASSUME TypeOK, LimiterInv, NEW r \in Requests, Answer(r), Exists', clock' = clock
    PROVE  \A q \in Requests : RequestInv(q)'
BY LimiterParts DEF Answer, RequestInv, TypeOK

\* A request that ends without writing leaves the others as they are.
LEMMA AnswerGone ==
    ASSUME TypeOK, LimiterInv, NEW r \in Requests, Answer(r), UNCHANGED <<row, clock>>
    PROVE  \A q \in Requests : RequestInv(q)'
BY LimiterParts DEF Answer, RequestInv, TypeOK, Exists

LEMMA OpenInv ==
    ASSUME TypeOK, LimiterInv, NEW r \in Requests, OpenWindow(r), clock' = clock,
           Exists => Lapsed(r)
    PROVE  LimiterInv'
<1> USE LimiterAssumption
<1>0. now[r] \in Nat /\ now[r] <= clock /\ windows \in Nat /\ total \in Nat /\ row \in RateRows
  BY DEF LimiterInv, TypeOK
<1>1. /\ row'.window_start = now[r] /\ row'.count = 1 /\ row'.expires_at = now[r] + Window
      /\ windows' = windows + 1 /\ total' = total + 1
  BY DEF OpenWindow, LetThrough
<1>2. Exists' /\ \A q \in Requests : RequestInv(q)'
  BY <1>1, AnswerInv DEF OpenWindow, LetThrough, Exists
<1>3. windows * Window <= now[r] /\ total <= Limit * windows
  <2>1. CASE Exists
    <3>1. /\ (windows - 1) * Window + Window <= now[r]
          /\ total <= Limit * (windows - 1) + Limit
          /\ windows > 0
      <4>1. row.count \in Nat /\ row.window_start \in Nat
        BY <1>0 DEF RateRows
      <4>2. (windows - 1) * Window \in Int /\ Limit * (windows - 1) \in Int
        BY <1>0
      <4>3. /\ row.window_start + Window <= now[r] /\ row.count <= Limit /\ windows > 0
            /\ (windows - 1) * Window <= row.window_start
            /\ total <= Limit * (windows - 1) + row.count
        BY <2>1 DEF LimiterInv, Lapsed
      <4> HIDE DEF RateRows
      <4> QED
        BY <1>0, <4>1, <4>2, <4>3
    <3> QED
      BY <1>0, <3>1, OneBudgetMore
  <2>2. CASE ~Exists
    BY <1>0, <2>2 DEF LimiterInv
  <2> QED
    BY <2>1, <2>2
<1>4. WindowInv'
  <2>1. windows' - 1 = windows
    BY <1>0, <1>1
  <2> QED
    BY <1>0, <1>1, <1>2, <1>3, <2>1 DEF WindowInv
<1> QED
  BY <1>2, <1>4 DEF LimiterInv, WindowInv, RequestInv

LEMMA CountInv ==
    ASSUME TypeOK, LimiterInv, NEW r \in Requests, Count(r)
    PROVE  LimiterInv'
<1> USE LimiterAssumption
<1>1. row' = [row EXCEPT !.count = @ + 1] /\ row \in RateRows /\ row.count < Limit /\ Exists
      /\ total' = total + 1 /\ windows' = windows /\ clock' = clock /\ total \in Nat
  BY DEF Count, LetThrough, TypeOK, Full, Sees, RateRows
<1>2. /\ row'.count = row.count + 1 /\ row'.window_start = row.window_start
      /\ row'.expires_at = row.expires_at /\ row.count \in Nat
  BY <1>1 DEF RateRows
<1>3. Exists' /\ \A q \in Requests : RequestInv(q)'
  BY <1>1, <1>2, AnswerInv DEF Count, LetThrough, Exists
<1>4. WindowInv'
  <2> DEFINE before == Limit * (windows - 1)
  <2>1. before \in Int /\ total <= before + row.count /\ before' = before
    BY <1>1 DEF LimiterInv, TypeOK
  <2> HIDE DEF before
  <2>2. total' <= before' + row'.count
    BY <1>1, <1>2, <2>1
  <2> QED
    BY <1>1, <1>2, <1>3, <2>2 DEF LimiterInv, WindowInv, before
<1> QED
  BY <1>3, <1>4 DEF LimiterInv, WindowInv, RequestInv

LEMMA LimiterStep == TypeOK /\ LimiterInv /\ [Next]_vars => LimiterInv'
<1> SUFFICES ASSUME TypeOK, LimiterInv, [Next]_vars
             PROVE  LimiterInv'
  OBVIOUS
<1>0. LimiterInv' <=> WindowInv' /\ \A r \in Requests : RequestInv(r)'
  BY DEF LimiterInv, WindowInv, RequestInv
<1>1. ASSUME NEW r \in Requests, Begin(r) \/ SelectFindsNone(r) \/ InsertFails(r)
      PROVE  LimiterInv'
  <2>1. WindowInv'
    BY <1>1, LimiterParts DEF Begin, SelectFindsNone, InsertFails, WindowInv, Exists
  <2>2. \A q \in Requests : RequestInv(q)'
    BY <1>1, LimiterParts DEF Begin, SelectFindsNone, InsertFails, RequestInv, Exists, Sees, TypeOK
  <2> QED
    BY <1>0, <2>1, <2>2
<1>2. ASSUME NEW r \in Requests, Reopen(r) \/ Insert(r)
      PROVE  LimiterInv'
  BY <1>2, OpenInv DEF Reopen, Insert
<1>3. ASSUME NEW r \in Requests, Count(r)
      PROVE  LimiterInv'
  BY <1>3, CountInv
<1>4. ASSUME NEW r \in Requests, Reject(r) \/ Abandon(r)
      PROVE  LimiterInv'
  <2>1. WindowInv'
    BY <1>4, LimiterParts DEF Reject, Abandon, WindowInv, Exists
  <2>2. \A q \in Requests : RequestInv(q)'
    BY <1>4, AnswerGone DEF Reject, Abandon
  <2> QED
    BY <1>0, <2>1, <2>2
<1>5. CASE Tick
  <2>1. clock' = clock + 1 /\ clock \in Nat
    BY <1>5, LimiterAssumption DEF Tick, TypeOK
  <2>2. row.window_start \in Nat /\ \A r \in Requests : now[r] \in Nat
    BY DEF TypeOK, RateRows
  <2>3. UNCHANGED <<row, pc, now, retries, windows, total>>
    BY <1>5 DEF Tick
  <2>4. WindowInv'
    BY <2>1, <2>2, <2>3, LimiterParts DEF WindowInv, Exists
  <2>5. \A q \in Requests : RequestInv(q)'
    BY <2>1, <2>2, <2>3, LimiterParts DEF RequestInv, Exists
  <2> QED
    BY <1>0, <2>4, <2>5
<1>6. CASE UNCHANGED vars
  BY <1>6 DEF vars, LimiterInv, Exists
<1> QED
  BY <1>1, <1>2, <1>3, <1>4, <1>5, <1>6 DEF Next, Proceed

LEMMA LimiterInvInit == Init => LimiterInv
BY DEF Init, LimiterInv, Exists, NoRow

THEOREM LimiterInvariant == Spec => []LimiterInv
BY LimiterInvInit, LimiterStep, LimiterTypeCorrect, PTL DEF Spec

-----------------------------------------------------------------------------
(* What follows *)

\* Never more than limit requests per window are let through, and never more windows
\* opened than fit in the time gone by, for any interleaving of any number of requests.
THEOREM RateBoundHolds == Spec => []RateBound
<1>1. TypeOK /\ LimiterInv => RateBound
  <2> SUFFICES ASSUME TypeOK, LimiterInv
               PROVE  RateBound
    OBVIOUS
  <2>1. CASE Exists
    <3>1. /\ windows \in Nat /\ windows > 0 /\ Limit \in Nat /\ total \in Nat /\ row.count \in Nat
          /\ clock \in Nat /\ row.window_start \in Nat /\ Window \in Nat
      BY <2>1, LimiterAssumption DEF TypeOK, LimiterInv, RateRows
    <3>2. Limit * (windows - 1) + Limit = Limit * windows
      BY <3>1, OneBudgetMore
    <3>3. Limit * (windows - 1) \in Int /\ (windows - 1) * Window \in Int /\ Limit * windows \in Int
      BY <3>1
    <3>4. /\ total <= Limit * (windows - 1) + row.count /\ row.count <= Limit
          /\ (windows - 1) * Window <= row.window_start /\ row.window_start <= clock
      BY <2>1 DEF LimiterInv
    <3>5. total <= Limit * windows /\ (windows - 1) * Window <= clock
      BY <3>1, <3>2, <3>3, <3>4
    <3> QED
      BY <3>5 DEF RateBound
  <2>2. CASE ~Exists
    BY <2>2, LimiterAssumption DEF LimiterInv, RateBound
  <2> QED
    BY <2>1, <2>2
<1> QED
  BY <1>1, LimiterTypeCorrect, LimiterInvariant, PTL

\* A request that lost the race of the first insert does not lose it again.
THEOREM RetriesOnceHolds == Spec => []RetriesOnce
<1>1. LimiterInv => RetriesOnce
  <2> SUFFICES ASSUME LimiterInv, NEW r \in Requests
               PROVE  retries[r] <= 1
    BY DEF RetriesOnce
  <2>1. retries[r] = 0 \/ retries[r] = 1
    BY DEF LimiterInv
  <2> QED
    BY <2>1
<1> QED
  BY <1>1, LimiterTypeCorrect, LimiterInvariant, PTL

\* The limiter implements the budget per window.
THEOREM LimiterImplementsBudget == Spec => ImplementsBudget
<1>1. Init => Budget!BudgetInit
  BY DEF Init, NoRow, Budget!BudgetInit
<1>2. TypeOK /\ LimiterInv /\ [Next]_vars => [Budget!BudgetNext]_(Budget!budgetVars)
  <2> SUFFICES ASSUME TypeOK, LimiterInv, Next
               PROVE  Budget!BudgetNext \/ UNCHANGED Budget!budgetVars
    BY DEF vars, Budget!budgetVars
  <2>1. CASE \E r \in Requests : Begin(r) \/ SelectFindsNone(r) \/ InsertFails(r) \/ Reject(r) \/ Abandon(r)
    BY <2>1 DEF Begin, SelectFindsNone, InsertFails, Reject, Abandon, Budget!budgetVars
  <2>2. CASE Tick
    BY <2>2 DEF Tick, Budget!budgetVars
  <2>3. ASSUME NEW r \in Requests, OpenWindow(r), Exists => Lapsed(r)
        PROVE  Budget!Open
    <3>1. row'.window_start = now[r] /\ row'.count = 1 /\ now[r] \in Nat
      BY <2>3 DEF OpenWindow, TypeOK
    <3>2. windows > 0 => now[r] >= row.window_start + Window
      BY <2>3, LimiterAssumption DEF LimiterInv, Lapsed, TypeOK, RateRows
    <3> QED
      BY <2>3, <3>1, <3>2 DEF Budget!Open, OpenWindow, LetThrough
  <2>4. ASSUME NEW r \in Requests, Count(r)
        PROVE  Budget!Spend
    <3>1. row.count < Limit /\ windows > 0 /\ row'.count = row.count + 1
          /\ row'.window_start = row.window_start
      BY <2>4, LimiterAssumption DEF Count, Full, Sees, LimiterInv, TypeOK, RateRows
    <3> QED
      BY <2>4, <3>1 DEF Count, LetThrough, Budget!Spend
  <2> QED
    BY <2>1, <2>2, <2>3, <2>4 DEF Next, Proceed, Reopen, Insert, Budget!BudgetNext
<1> QED
  BY <1>1, <1>2, LimiterTypeCorrect, LimiterInvariant, PTL
     DEF Spec, ImplementsBudget, Budget!BudgetSpec
=============================================================================
