--------------------------- MODULE AuthFlow_proofs ---------------------------
(***************************************************************************)
(* Theorems of AuthFlow for any number of callbacks, states and users: it  *)
(* keeps what the limiter alone promises, and its own three bounds.        *)
(***************************************************************************)
EXTENDS AuthFlow, RateLimiter_proofs, FiniteSetTheorems

-----------------------------------------------------------------------------
(* The composition: every step of a login is a step of the limiter, or none *)
(* of its business.                                                        *)

LEMMA AuthStepIsLimiterStep == [AuthNext]_authVars => [Next]_vars
<1> SUFFICES ASSUME [AuthNext]_authVars
             PROVE  [Next]_vars
  OBVIOUS
<1> USE DEF limiterVars
<1>1. ASSUME NEW r \in Requests, CallbackStep(r) \/ Dies(r)
      PROVE  [Next]_vars
  <2>1. CASE LimitPasses(r) \/ LimitWaits(r) \/ LimitRejects(r)
    BY <2>1 DEF LimitPasses, LimitWaits, LimitRejects, Rejected, Next, Proceed
  <2>2. CASE ReadState(r) \/ DeleteState(r) \/ DeleteExpired(r) \/ Exchange(r)
    BY <2>2 DEF ReadState, DeleteState, DeleteExpired, Exchange
  <2>3. CASE FindUser(r) \/ InsertUser(r) \/ InsertUserFails(r) \/ OpenSession(r)
    BY <2>3 DEF FindUser, Known, InsertUser, InsertUserFails, OpenSession
  <2>4. CASE Dies(r)
    BY <2>4 DEF Dies, Next
  <2> QED
    BY <1>1, <2>1, <2>2, <2>3, <2>4 DEF CallbackStep
<1>2. ASSUME NEW s \in States, Start(s)
      PROVE  [Next]_vars
  BY <1>2 DEF Start
<1>3. ASSUME NEW s \in States, NEW r \in Requests, Callback(r, s)
      PROVE  [Next]_vars
  BY <1>3 DEF Callback, Next
<1>4. CASE Logout \/ TimePasses
  BY <1>4 DEF Logout, TimePasses, Next
<1>5. CASE UNCHANGED authVars
  BY <1>5 DEF authVars
<1> QED
  BY <1>1, <1>2, <1>3, <1>4, <1>5 DEF AuthNext

LEMMA AuthImplementsLimiter == AuthSpec => Spec
<1>1. AuthInit => Init
  BY DEF AuthInit
<1> QED
  BY <1>1, AuthStepIsLimiterStep, PTL DEF AuthSpec, Spec

\* The budget of the limiter holds with the login around it, callbacks that die with
\* their process included.
THEOREM LoginKeepsRateBound == AuthSpec => []RateBound
BY AuthImplementsLimiter, RateBoundHolds, PTL

\* ... and so does its implementation of the abstract budget.
THEOREM LoginKeepsBudget == AuthSpec => ImplementsBudget
BY AuthImplementsLimiter, LimiterImplementsBudget, PTL

-----------------------------------------------------------------------------
(* Types *)

StateRows == [status: {"fresh", "stored", "gone"}, expires: Nat]

LoginTypeOK ==
    /\ states \in [States -> StateRows]
    /\ users \in SUBSET Users
    /\ sessions \in Nat
    /\ at \in [Requests -> Stages]
    /\ carries \in [Requests -> States \cup Users \cup {None}]
    /\ uses \in [States -> Nat]
    /\ lost \in [Users -> Nat]
    /\ \A r \in Requests : /\ at[r] \in {"limited", "consume", "delete", "refuse"} => carries[r] \in States
                           /\ at[r] \in {"persist", "insert", "session"} => carries[r] \in Users

LEMMA GotoType ==
    ASSUME LoginTypeOK, NEW r \in Requests, NEW stage \in Stages,
           NEW x \in States \cup Users \cup {None}, Goto(r, stage, x),
           stage \in {"limited", "consume", "delete", "refuse"} => x \in States,
           stage \in {"persist", "insert", "session"} => x \in Users
    PROVE  /\ at' \in [Requests -> Stages]
           /\ carries' \in [Requests -> States \cup Users \cup {None}]
           /\ \A q \in Requests :
                /\ at'[q] \in {"limited", "consume", "delete", "refuse"} => carries'[q] \in States
                /\ at'[q] \in {"persist", "insert", "session"} => carries'[q] \in Users
BY DEF LoginTypeOK, Goto

LEMMA RespondType ==
    ASSUME LoginTypeOK, NEW r \in Requests, Respond(r)
    PROVE  /\ at' \in [Requests -> Stages]
           /\ carries' \in [Requests -> States \cup Users \cup {None}]
           /\ \A q \in Requests :
                /\ at'[q] \in {"limited", "consume", "delete", "refuse"} => carries'[q] \in States
                /\ at'[q] \in {"persist", "insert", "session"} => carries'[q] \in Users
BY DEF LoginTypeOK, Respond, Goto, Stages

LEMMA LoginTypeStep == TypeOK /\ LoginTypeOK /\ [AuthNext]_authVars => LoginTypeOK'
<1> SUFFICES ASSUME TypeOK, LoginTypeOK, [AuthNext]_authVars
             PROVE  LoginTypeOK'
  OBVIOUS
<1> USE DEF tableVars, callbackVars
<1>1. ASSUME NEW s \in States, Start(s)
      PROVE  LoginTypeOK'
  <2>1. clock + Ttl \in Nat
    BY AuthAssumption DEF TypeOK
  <2> QED
    BY <1>1, <2>1 DEF Start, LoginTypeOK, StateRows
<1>2. ASSUME NEW s \in States, NEW r \in Requests, Callback(r, s)
      PROVE  LoginTypeOK'
  <2>1. "limited" \in Stages
    BY DEF Stages
  <2> QED
    BY <1>2, <2>1, GotoType DEF Callback, LoginTypeOK
<1>3. ASSUME NEW r \in Requests, LimitPasses(r)
      PROVE  LoginTypeOK'
  <2>1. "consume" \in Stages /\ carries[r] \in States
    BY <1>3 DEF Stages, LimitPasses, LoginTypeOK
  <2> QED
    BY <1>3, <2>1, GotoType DEF LimitPasses, LoginTypeOK
<1>4. ASSUME NEW r \in Requests, LimitRejects(r) \/ Dies(r)
      PROVE  LoginTypeOK'
  BY <1>4, RespondType DEF LimitRejects, Rejected, Dies, LoginTypeOK
<1>5. ASSUME NEW r \in Requests, ReadState(r)
      PROVE  LoginTypeOK'
  <2>1. "delete" \in Stages /\ "refuse" \in Stages /\ carries[r] \in States
    BY <1>5 DEF Stages, ReadState, LoginTypeOK
  <2>2. CASE Respond(r)
    BY <1>5, <2>2, RespondType DEF ReadState, LoginTypeOK
  <2>3. CASE Goto(r, "delete", carries[r]) \/ Goto(r, "refuse", carries[r])
    BY <1>5, <2>1, <2>3, GotoType DEF ReadState, LoginTypeOK
  <2> QED
    BY <1>5, <2>2, <2>3 DEF ReadState
<1>6. ASSUME NEW r \in Requests, DeleteState(r)
      PROVE  LoginTypeOK'
  <2>1. "exchange" \in Stages /\ carries[r] \in States
    BY <1>6 DEF Stages, DeleteState, LoginTypeOK
  <2>2. states' \in [States -> StateRows] /\ uses' \in [States -> Nat]
    BY <1>6, <2>1 DEF DeleteState, RemoveState, LoginTypeOK, StateRows
  <2> QED
    BY <1>6, <2>1, <2>2, GotoType DEF DeleteState, LoginTypeOK
<1>7. ASSUME NEW r \in Requests, DeleteExpired(r)
      PROVE  LoginTypeOK'
  <2>1. states' \in [States -> StateRows]
    BY <1>7 DEF DeleteExpired, RemoveState, LoginTypeOK, StateRows
  <2> QED
    BY <1>7, <2>1, RespondType DEF DeleteExpired, LoginTypeOK
<1>8. ASSUME NEW r \in Requests, Exchange(r)
      PROVE  LoginTypeOK'
  <2>1. CASE Respond(r)
    BY <1>8, <2>1, RespondType DEF Exchange, LoginTypeOK
  <2>2. ASSUME NEW u \in Users, Goto(r, "persist", u)
        PROVE  LoginTypeOK'
    <3>1. "persist" \in Stages
      BY DEF Stages
    <3> QED
      BY <1>8, <2>2, <3>1, GotoType DEF Exchange, LoginTypeOK
  <2> QED
    BY <1>8, <2>1, <2>2 DEF Exchange
<1>9. ASSUME NEW r \in Requests, FindUser(r) \/ InsertUser(r)
      PROVE  LoginTypeOK'
  <2>1. "session" \in Stages /\ "insert" \in Stages /\ carries[r] \in Users
    BY <1>9 DEF Stages, FindUser, Known, InsertUser, LoginTypeOK
  <2>2. users' \in SUBSET Users
    BY <1>9, <2>1 DEF FindUser, Known, InsertUser, LoginTypeOK
  <2>3. Goto(r, "session", carries[r]) \/ Goto(r, "insert", carries[r])
    BY <1>9 DEF FindUser, Known, InsertUser
  <2> QED
    BY <1>9, <2>1, <2>2, <2>3, GotoType DEF FindUser, Known, InsertUser, LoginTypeOK
<1>10. ASSUME NEW r \in Requests, InsertUserFails(r)
       PROVE  LoginTypeOK'
  <2>1. lost' \in [Users -> Nat]
    BY <1>10 DEF InsertUserFails, LoginTypeOK
  <2> QED
    BY <1>10, <2>1, RespondType DEF InsertUserFails, LoginTypeOK
<1>11. ASSUME NEW r \in Requests, OpenSession(r)
       PROVE  LoginTypeOK'
  BY <1>11, RespondType DEF OpenSession, LoginTypeOK
<1>12. ASSUME NEW r \in Requests, LimitWaits(r)
       PROVE  LoginTypeOK'
  BY <1>12 DEF LimitWaits, LoginTypeOK
<1>13. CASE Logout \/ TimePasses
  BY <1>13 DEF Logout, TimePasses, LoginTypeOK
<1>14. CASE UNCHANGED authVars
  BY <1>14 DEF authVars, LoginTypeOK
<1> QED
  BY <1>1, <1>2, <1>3, <1>4, <1>5, <1>6, <1>7, <1>8, <1>9, <1>10, <1>11, <1>12, <1>13, <1>14
     DEF AuthNext, CallbackStep

LEMMA LoginTypes == AuthSpec => [](TypeOK /\ LoginTypeOK)
<1>1. AuthInit => LoginTypeOK
  BY DEF AuthInit, LoginTypeOK, StateRows, Stages
<1> QED
  BY <1>1, AuthImplementsLimiter, LimiterTypeCorrect, LoginTypeStep, PTL DEF AuthSpec

\* The variables keep their types; a callback carries a state until it has consumed
\* it and a user once Telegram named one.
THEOREM AuthTypeCorrect == AuthSpec => []AuthTypeOK
<1>1. TypeOK /\ LoginTypeOK => AuthTypeOK
  BY DEF LoginTypeOK, AuthTypeOK, StateRows
<1> QED
  BY <1>1, LoginTypes, PTL

-----------------------------------------------------------------------------
(* Counting callbacks *)

LEMMA RequestsCount ==
    ASSUME NEW S, NEW T, S \subseteq T, T \subseteq Requests
    PROVE  /\ Cardinality(S) \in Nat /\ Cardinality(T) \in Nat
           /\ Cardinality(S) <= Cardinality(T)
           /\ \A r \in T : S \subseteq T \ {r} => Cardinality(S) < Cardinality(T)
<1>1. IsFiniteSet(T) /\ IsFiniteSet(S)
  BY AuthAssumption, FS_Subset
<1>2. Cardinality(S) \in Nat /\ Cardinality(T) \in Nat /\ Cardinality(S) <= Cardinality(T)
  BY <1>1, FS_CardinalityType, FS_Subset
<1>3. ASSUME NEW r \in T, S \subseteq T \ {r}
      PROVE  Cardinality(S) < Cardinality(T)
  <2>1. IsFiniteSet(T \ {r}) /\ Cardinality(T \ {r}) = Cardinality(T) - 1
    BY <1>1, FS_RemoveElement
  <2>2. Cardinality(S) <= Cardinality(T \ {r})
    BY <1>3, <2>1, FS_Subset
  <2> QED
    BY <1>2, <2>1, <2>2
<1> QED
  BY <1>2, <1>3

Overlap == Cardinality(Requests)

LEMMA OverlapType == Overlap \in Nat
BY RequestsCount DEF Overlap

-----------------------------------------------------------------------------
(* One state: once it is gone, only those who read it before still count. *)

Readers(s) == {r \in Requests : at[r] = "delete" /\ carries[r] = s}

ReuseInv(s) ==
    IF states[s].status = "gone" THEN uses[s] + Cardinality(Readers(s)) <= Overlap
                                 ELSE uses[s] = 0

LEMMA ReuseKept ==
    ASSUME LoginTypeOK, LoginTypeOK', NEW s \in States, ReuseInv(s),
           states'[s].status = states[s].status, uses'[s] = uses[s],
           states[s].status = "gone" => Readers(s)' \subseteq Readers(s)
    PROVE  ReuseInv(s)'
<1>1. CASE states[s].status = "gone"
  <2>1. /\ Cardinality(Readers(s)') \in Nat /\ Cardinality(Readers(s)) \in Nat
        /\ Cardinality(Readers(s)') <= Cardinality(Readers(s))
    BY <1>1, RequestsCount DEF Readers
  <2>2. uses[s] \in Nat /\ uses[s] + Cardinality(Readers(s)) <= Overlap
    BY <1>1 DEF LoginTypeOK, ReuseInv
  <2>3. uses'[s] + Cardinality(Readers(s)') <= Overlap
    BY <2>1, <2>2, OverlapType
  <2>4. Overlap' = Overlap /\ Cardinality(Readers(s))' = Cardinality(Readers(s)')
    BY DEF Overlap
  <2> QED
    BY <1>1, <2>3, <2>4 DEF ReuseInv
<1>2. CASE states[s].status # "gone"
  BY <1>2 DEF ReuseInv
<1> QED
  BY <1>1, <1>2

\* The callback that deletes the row, or finds that it was deleted before
LEMMA ReuseDeletes ==
    ASSUME LoginTypeOK, LoginTypeOK', NEW r \in Requests, DeleteState(r),
           NEW s \in States, carries[r] = s, ReuseInv(s)
    PROVE  ReuseInv(s)'
<1>1. r \in Readers(s)
  BY DEF DeleteState, Readers
<1>2. Readers(s)' \subseteq Readers(s) \ {r}
  BY DEF Readers, DeleteState, Goto, LoginTypeOK
<1>3. /\ Cardinality(Readers(s)') \in Nat /\ Cardinality(Readers(s)) \in Nat
      /\ Cardinality(Readers(s)') < Cardinality(Readers(s)) /\ Cardinality(Readers(s)) <= Overlap
  <2>1. Readers(s) \subseteq Requests
    BY DEF Readers
  <2> QED
    BY <1>1, <1>2, <2>1, RequestsCount DEF Overlap
<1>4. states'[s].status = "gone" /\ uses'[s] = uses[s] + 1 /\ uses[s] \in Nat
  BY DEF DeleteState, RemoveState, LoginTypeOK
<1>5. uses[s] = 0 \/ uses[s] + Cardinality(Readers(s)) <= Overlap
  BY DEF ReuseInv
<1>6. uses'[s] + Cardinality(Readers(s)') <= Overlap
  BY <1>3, <1>4, <1>5, OverlapType
<1> QED
  BY <1>4, <1>6 DEF ReuseInv, Overlap

\* ... or deletes it because it is past its TTL
LEMMA ReuseRefuses ==
    ASSUME LoginTypeOK, LoginTypeOK', NEW r \in Requests, DeleteExpired(r),
           NEW s \in States, carries[r] = s, ReuseInv(s)
    PROVE  ReuseInv(s)'
<1>1. Readers(s)' \subseteq Readers(s) /\ Readers(s) \subseteq Requests
  BY DEF Readers, DeleteExpired, Respond, Goto, LoginTypeOK
<1>2. /\ Cardinality(Readers(s)') \in Nat /\ Cardinality(Readers(s)) \in Nat
      /\ Cardinality(Readers(s)') <= Cardinality(Readers(s)) /\ Cardinality(Readers(s)) <= Overlap
  BY <1>1, RequestsCount DEF Overlap
<1>3. states'[s].status = "gone" /\ uses'[s] = uses[s] /\ uses[s] \in Nat
  BY DEF DeleteExpired, RemoveState, LoginTypeOK
<1>4. uses[s] = 0 \/ uses[s] + Cardinality(Readers(s)) <= Overlap
  BY DEF ReuseInv
<1>5. uses'[s] + Cardinality(Readers(s)') <= Overlap
  BY <1>2, <1>3, <1>4, OverlapType
<1> QED
  BY <1>3, <1>5 DEF ReuseInv, Overlap

LEMMA ReuseStep ==
    ASSUME LoginTypeOK, LoginTypeOK', [AuthNext]_authVars, NEW s \in States, ReuseInv(s)
    PROVE  ReuseInv(s)'
<1> USE DEF tableVars, callbackVars
<1>1. ASSUME NEW z \in States, Start(z)
      PROVE  ReuseInv(s)'
  <2>1. CASE z = s
    BY <1>1, <2>1 DEF Start, ReuseInv, LoginTypeOK
  <2>2. CASE z # s
    BY <1>1, <2>2, ReuseKept DEF Start, LoginTypeOK, Readers
  <2> QED
    BY <2>1, <2>2
<1>2. ASSUME NEW r \in Requests, DeleteState(r)
      PROVE  ReuseInv(s)'
  <2>1. CASE carries[r] = s
    BY <1>2, <2>1, ReuseDeletes
  <2>2. CASE carries[r] # s
    <3>1. states'[s] = states[s] /\ uses'[s] = uses[s]
      BY <1>2, <2>2 DEF DeleteState, RemoveState, LoginTypeOK
    <3>2. Readers(s)' \subseteq Readers(s)
      BY <1>2, <2>2 DEF DeleteState, Readers, Goto, LoginTypeOK
    <3> QED
      BY <3>1, <3>2, ReuseKept
  <2> QED
    BY <2>1, <2>2
<1>3. ASSUME NEW r \in Requests, DeleteExpired(r)
      PROVE  ReuseInv(s)'
  <2>1. CASE carries[r] = s
    BY <1>3, <2>1, ReuseRefuses
  <2>2. CASE carries[r] # s
    <3>1. states'[s] = states[s] /\ uses'[s] = uses[s]
      BY <1>3, <2>2 DEF DeleteExpired, RemoveState, LoginTypeOK
    <3>2. Readers(s)' \subseteq Readers(s)
      BY <1>3, <2>2 DEF DeleteExpired, Readers, Respond, Goto, LoginTypeOK
    <3> QED
      BY <3>1, <3>2, ReuseKept
  <2> QED
    BY <2>1, <2>2
<1>4. ASSUME NEW r \in Requests, ReadState(r)
      PROVE  ReuseInv(s)'
  <2>1. states[s].status = "gone" => Readers(s)' \subseteq Readers(s)
    BY <1>4 DEF ReadState, Readers, Respond, Goto, Stored, LoginTypeOK
  <2> QED
    BY <1>4, <2>1, ReuseKept DEF ReadState
<1>5. ASSUME NEW r \in Requests,
             LimitPasses(r) \/ LimitRejects(r) \/ Dies(r) \/ Exchange(r) \/ FindUser(r)
               \/ InsertUser(r) \/ InsertUserFails(r) \/ OpenSession(r)
      PROVE  ReuseInv(s)'
  <2>1. Readers(s)' \subseteq Readers(s)
    BY <1>5 DEF LimitPasses, LimitRejects, Rejected, Dies, Exchange, FindUser, Known, InsertUser, InsertUserFails,
                OpenSession, Readers, Respond, Goto, LoginTypeOK
  <2>2. states' = states /\ uses' = uses
    BY <1>5 DEF LimitPasses, LimitRejects, Rejected, Dies, Exchange, FindUser, Known, InsertUser, InsertUserFails,
                OpenSession
  <2> QED
    BY <2>1, <2>2, ReuseKept
<1>6. ASSUME NEW r \in Requests, NEW z \in States, Callback(r, z)
      PROVE  ReuseInv(s)'
  <2>1. Readers(s)' \subseteq Readers(s)
    BY <1>6 DEF Callback, Readers, Goto, LoginTypeOK
  <2> QED
    BY <1>6, <2>1, ReuseKept DEF Callback
<1>7. CASE Logout \/ TimePasses \/ (\E r \in Requests : LimitWaits(r)) \/ UNCHANGED authVars
  <2>1. UNCHANGED <<states, uses, callbackVars>>
    BY <1>7 DEF Logout, TimePasses, LimitWaits, authVars
  <2>2. Readers(s)' \subseteq Readers(s)
    BY <2>1 DEF Readers
  <2> QED
    BY <2>1, <2>2, ReuseKept
<1> QED
  BY <1>1, <1>2, <1>3, <1>4, <1>5, <1>6, <1>7 DEF AuthNext, CallbackStep

\* However callbacks with one state overlap, no more of them get its verifier than
\* the API answers at a time.
THEOREM StateReuseHolds == AuthSpec => []StateReuseBounded
<1> DEFINE Inv == \A s \in States : ReuseInv(s)
<1>1. AuthInit => Inv
  BY DEF AuthInit, ReuseInv
<1>2. LoginTypeOK /\ LoginTypeOK' /\ Inv /\ [AuthNext]_authVars => Inv'
  BY ReuseStep
<1>3. LoginTypeOK /\ Inv => StateReuseBounded
  <2> SUFFICES ASSUME LoginTypeOK, Inv, NEW s \in States
               PROVE  uses[s] <= Cardinality(Requests)
    BY DEF StateReuseBounded
  <2>1. Cardinality(Readers(s)) \in Nat /\ uses[s] \in Nat
    BY RequestsCount DEF Readers, LoginTypeOK
  <2>2. uses[s] <= Overlap
    BY <2>1, OverlapType DEF ReuseInv
  <2> QED
    BY <2>2 DEF Overlap
<1> HIDE DEF Inv
<1> QED
  BY <1>1, <1>2, <1>3, LoginTypes, PTL DEF AuthSpec

-----------------------------------------------------------------------------
(* One user: after the first INSERT only those who looked before it fail.   *)

Inserters(u) == {r \in Requests : at[r] = "insert" /\ carries[r] = u}

LossInv(u) ==
    IF u \in users THEN lost[u] + Cardinality(Inserters(u)) < Overlap ELSE lost[u] = 0

LEMMA LossKept ==
    ASSUME LoginTypeOK, LoginTypeOK', NEW u \in Users, LossInv(u),
           u \in users' <=> u \in users, lost'[u] = lost[u],
           u \in users => Inserters(u)' \subseteq Inserters(u)
    PROVE  LossInv(u)'
<1>1. CASE u \in users
  <2>1. /\ Cardinality(Inserters(u)') \in Nat /\ Cardinality(Inserters(u)) \in Nat
        /\ Cardinality(Inserters(u)') <= Cardinality(Inserters(u))
    BY <1>1, RequestsCount DEF Inserters
  <2>2. lost[u] \in Nat /\ lost[u] + Cardinality(Inserters(u)) < Overlap
    BY <1>1 DEF LoginTypeOK, LossInv
  <2>3. lost'[u] + Cardinality(Inserters(u)') < Overlap
    BY <2>1, <2>2, OverlapType
  <2> QED
    BY <1>1, <2>3 DEF LossInv, Overlap
<1>2. CASE u \notin users
  BY <1>2 DEF LossInv
<1> QED
  BY <1>1, <1>2

\* The INSERT, whether it is the first or fails
LEMMA LossInserts ==
    ASSUME LoginTypeOK, LoginTypeOK', NEW r \in Requests, InsertUser(r) \/ InsertUserFails(r),
           NEW u \in Users, carries[r] = u, LossInv(u)
    PROVE  LossInv(u)'
<1>1. r \in Inserters(u) /\ Inserters(u) \subseteq Requests
  BY DEF InsertUser, InsertUserFails, Inserters
<1>2. Inserters(u)' \subseteq Inserters(u) \ {r}
  BY DEF Inserters, InsertUser, InsertUserFails, Respond, Goto, LoginTypeOK
<1>3. /\ Cardinality(Inserters(u)') \in Nat /\ Cardinality(Inserters(u)) \in Nat
      /\ Cardinality(Inserters(u)') < Cardinality(Inserters(u))
      /\ Cardinality(Inserters(u)) <= Overlap
  BY <1>1, <1>2, RequestsCount DEF Overlap
<1>4. u \in users' /\ lost[u] \in Nat
  BY DEF InsertUser, InsertUserFails, LoginTypeOK, tableVars
<1>5. lost'[u] + Cardinality(Inserters(u)') < Overlap
  <2>1. CASE InsertUser(r)
    <3>1. lost[u] = 0 /\ lost'[u] = lost[u]
      BY <2>1 DEF InsertUser, LossInv
    <3> QED
      BY <1>3, <3>1, OverlapType
  <2>2. CASE InsertUserFails(r)
    <3>1. lost'[u] = lost[u] + 1 /\ lost[u] + Cardinality(Inserters(u)) < Overlap
      BY <2>2 DEF InsertUserFails, LossInv, LoginTypeOK
    <3> QED
      BY <1>3, <1>4, <3>1, OverlapType
  <2> QED
    BY <2>1, <2>2
<1> QED
  BY <1>4, <1>5 DEF LossInv, Overlap

LEMMA LossStep ==
    ASSUME LoginTypeOK, LoginTypeOK', [AuthNext]_authVars, NEW u \in Users, LossInv(u)
    PROVE  LossInv(u)'
<1> USE DEF tableVars, callbackVars
<1>1. ASSUME NEW r \in Requests, InsertUser(r) \/ InsertUserFails(r)
      PROVE  LossInv(u)'
  <2>1. CASE carries[r] = u
    BY <1>1, <2>1, LossInserts
  <2>2. CASE carries[r] # u
    <3>1. (u \in users' <=> u \in users) /\ lost'[u] = lost[u]
      BY <1>1, <2>2 DEF InsertUser, InsertUserFails, LoginTypeOK
    <3>2. Inserters(u)' \subseteq Inserters(u)
      BY <1>1, <2>2 DEF InsertUser, InsertUserFails, Inserters, Respond, Goto, LoginTypeOK
    <3> QED
      BY <3>1, <3>2, LossKept
  <2> QED
    BY <2>1, <2>2
<1>2. ASSUME NEW r \in Requests, FindUser(r)
      PROVE  LossInv(u)'
  <2>1. u \in users => Inserters(u)' \subseteq Inserters(u)
    BY <1>2 DEF FindUser, Known, Inserters, Goto, LoginTypeOK
  <2> QED
    BY <1>2, <2>1, LossKept DEF FindUser, Known
<1>3. ASSUME NEW r \in Requests,
             LimitPasses(r) \/ LimitRejects(r) \/ Dies(r) \/ Exchange(r) \/ ReadState(r)
               \/ DeleteState(r) \/ DeleteExpired(r) \/ OpenSession(r)
      PROVE  LossInv(u)'
  <2>1. Inserters(u)' \subseteq Inserters(u)
    BY <1>3 DEF LimitPasses, LimitRejects, Rejected, Dies, Exchange, ReadState, DeleteState, DeleteExpired,
                OpenSession, Inserters, Respond, Goto, LoginTypeOK
  <2>2. users' = users /\ lost' = lost
    BY <1>3 DEF LimitPasses, LimitRejects, Rejected, Dies, Exchange, ReadState, DeleteState, DeleteExpired,
                OpenSession
  <2> QED
    BY <2>1, <2>2, LossKept
<1>4. ASSUME NEW r \in Requests, NEW z \in States, Callback(r, z)
      PROVE  LossInv(u)'
  <2>1. Inserters(u)' \subseteq Inserters(u)
    BY <1>4 DEF Callback, Inserters, Goto, LoginTypeOK
  <2> QED
    BY <1>4, <2>1, LossKept DEF Callback
<1>5. CASE \/ Logout \/ TimePasses \/ \E r \in Requests : LimitWaits(r)
           \/ (\E s \in States : Start(s)) \/ UNCHANGED authVars
  <2>1. UNCHANGED <<users, lost, callbackVars>>
    BY <1>5 DEF Logout, TimePasses, LimitWaits, Start, authVars
  <2>2. Inserters(u)' \subseteq Inserters(u)
    BY <2>1 DEF Inserters
  <2> QED
    BY <2>1, <2>2, LossKept
<1> QED
  BY <1>1, <1>2, <1>3, <1>4, <1>5 DEF AuthNext, CallbackStep

\* A login that Telegram confirmed fails on the users table only beside another first
\* login of the same user that succeeded, and never once the user is known.
THEOREM OnlyFirstLoginsLostHolds == AuthSpec => []OnlyFirstLoginsLost
<1> DEFINE Inv == \A u \in Users : LossInv(u)
<1>1. AuthInit => Inv
  BY DEF AuthInit, LossInv
<1>2. LoginTypeOK /\ LoginTypeOK' /\ Inv /\ [AuthNext]_authVars => Inv'
  BY LossStep
<1>3. LoginTypeOK /\ Inv => OnlyFirstLoginsLost
  <2> SUFFICES ASSUME LoginTypeOK, Inv, NEW u \in Users, lost[u] > 0
               PROVE  u \in users /\ lost[u] < Cardinality(Requests)
    BY DEF OnlyFirstLoginsLost
  <2>1. Cardinality(Inserters(u)) \in Nat /\ lost[u] \in Nat
    BY RequestsCount DEF Inserters, LoginTypeOK
  <2>2. u \in users /\ lost[u] < Overlap
    BY <2>1, OverlapType DEF LossInv
  <2> QED
    BY <2>2 DEF Overlap
<1> HIDE DEF Inv
<1> QED
  BY <1>1, <1>2, <1>3, LoginTypes, PTL DEF AuthSpec

-----------------------------------------------------------------------------
(* Sessions against the limiter's count *)

LoginCount == sessions + Cardinality(PastLimiter) <= total

\* Callbacks only leave.
LEMMA CountKept ==
    ASSUME TypeOK, TypeOK', LoginTypeOK, LoginTypeOK', LoginCount, total' >= total, sessions' <= sessions,
           PastLimiter' \subseteq PastLimiter
    PROVE  LoginCount'
<1>1. /\ Cardinality(PastLimiter') \in Nat /\ Cardinality(PastLimiter) \in Nat
      /\ Cardinality(PastLimiter') <= Cardinality(PastLimiter)
  BY RequestsCount DEF PastLimiter
<1> QED
  BY <1>1 DEF LoginCount, TypeOK, LoginTypeOK

\* A set with one element taken out is at most one smaller.
LEMMA OneLess ==
    ASSUME NEW S, IsFiniteSet(S), NEW x
    PROVE  Cardinality(S \ {x}) >= Cardinality(S) - 1
<1>1. Cardinality(S) \in Nat
  BY FS_CardinalityType
<1>2. Cardinality(S \ {x}) = IF x \in S THEN Cardinality(S) - 1 ELSE Cardinality(S)
  BY FS_RemoveElement
<1> QED
  BY <1>1, <1>2

LEMMA CountStep ==
    ASSUME TypeOK, TypeOK', LoginTypeOK, LoginTypeOK', [AuthNext]_authVars, LoginCount
    PROVE  LoginCount'
<1> USE DEF tableVars, callbackVars
<1>1. ASSUME NEW r \in Requests, LimitPasses(r)
      PROVE  LoginCount'
  <2>1. total' = total + 1 /\ sessions' = sessions
    BY <1>1 DEF LimitPasses, Reopen, Count, Insert, OpenWindow, LetThrough
  <2>2. PastLimiter' \ {r} \subseteq PastLimiter /\ PastLimiter \subseteq Requests
    BY <1>1 DEF LimitPasses, Goto, PastLimiter, LoginTypeOK
  <2>3. Cardinality(PastLimiter') <= Cardinality(PastLimiter) + 1
        /\ Cardinality(PastLimiter') \in Nat /\ Cardinality(PastLimiter) \in Nat
    <3>1. IsFiniteSet(PastLimiter') /\ Cardinality(PastLimiter') \in Nat
      <4>1. PastLimiter' \in SUBSET Requests
        BY DEF PastLimiter
      <4> QED
        BY <4>1, AuthAssumption, FS_Subset, FS_CardinalityType
    <3>2. Cardinality(PastLimiter' \ {r}) >= Cardinality(PastLimiter') - 1
      BY <3>1, OneLess
    <3>3. Cardinality(PastLimiter' \ {r}) <= Cardinality(PastLimiter)
          /\ Cardinality(PastLimiter' \ {r}) \in Nat /\ Cardinality(PastLimiter) \in Nat
      BY <2>2, RequestsCount
    <3> QED
      BY <3>1, <3>2, <3>3
  <2> QED
    BY <2>1, <2>3 DEF LoginCount, TypeOK, LoginTypeOK
<1>2. ASSUME NEW r \in Requests, OpenSession(r)
      PROVE  LoginCount'
  <2>1. total' = total /\ sessions' = sessions + 1
    BY <1>2 DEF OpenSession, limiterVars, vars
  <2>2. r \in PastLimiter /\ PastLimiter' \subseteq PastLimiter \ {r} /\ PastLimiter \subseteq Requests
    BY <1>2 DEF OpenSession, Respond, Goto, PastLimiter, LoginTypeOK
  <2>3. /\ Cardinality(PastLimiter') < Cardinality(PastLimiter)
        /\ Cardinality(PastLimiter') \in Nat /\ Cardinality(PastLimiter) \in Nat
    BY <2>2, RequestsCount
  <2> QED
    BY <2>1, <2>3 DEF LoginCount, TypeOK, LoginTypeOK
<1>3. ASSUME NEW r \in Requests,
             LimitRejects(r) \/ Dies(r) \/ Exchange(r) \/ ReadState(r) \/ DeleteState(r)
               \/ DeleteExpired(r) \/ FindUser(r) \/ InsertUser(r) \/ InsertUserFails(r)
      PROVE  LoginCount'
  <2>1. PastLimiter' \subseteq PastLimiter
    BY <1>3 DEF LimitRejects, Rejected, Dies, Exchange, ReadState, DeleteState, DeleteExpired, FindUser, Known,
                InsertUser, InsertUserFails, PastLimiter, Respond, Goto, LoginTypeOK
  <2>2. total' = total /\ sessions' = sessions
    BY <1>3 DEF LimitRejects, Rejected, Dies, Exchange, ReadState, DeleteState, DeleteExpired, FindUser, Known,
                InsertUser, InsertUserFails, Reject, Abandon, limiterVars, vars
  <2> QED
    BY <2>1, <2>2, CountKept DEF TypeOK, LoginTypeOK
<1>4. ASSUME NEW r \in Requests, NEW z \in States, Callback(r, z)
      PROVE  LoginCount'
  <2>1. PastLimiter' \subseteq PastLimiter /\ total' = total /\ sessions' = sessions
    BY <1>4 DEF Callback, Begin, Goto, PastLimiter, LoginTypeOK
  <2> QED
    BY <2>1, CountKept DEF TypeOK, LoginTypeOK
<1>5. CASE \/ Logout \/ TimePasses \/ \E r \in Requests : LimitWaits(r)
           \/ (\E s \in States : Start(s)) \/ UNCHANGED authVars
  <2>1. total' = total /\ UNCHANGED callbackVars
    BY <1>5 DEF Logout, TimePasses, Tick, LimitWaits, SelectFindsNone, InsertFails, Start, authVars,
                limiterVars, vars
  <2>2. sessions' <= sessions
    BY <1>5 DEF Logout, TimePasses, LimitWaits, Start, authVars, LoginTypeOK
  <2>3. PastLimiter' \subseteq PastLimiter
    BY <2>1 DEF PastLimiter
  <2> QED
    BY <2>1, <2>2, <2>3, CountKept DEF TypeOK
<1> QED
  BY <1>1, <1>2, <1>3, <1>4, <1>5 DEF AuthNext, CallbackStep

\* The sessions that exist, and the callbacks that may still open one, are within the
\* limiter's budgets, for any order in which callbacks pass it, fail and die.
THEOREM LoginsWithinBudgetHolds == AuthSpec => []LoginsWithinBudget
<1>1. AuthInit => LoginCount
  <2> SUFFICES ASSUME AuthInit
               PROVE  LoginCount
    OBVIOUS
  <2>1. PastLimiter = {} /\ sessions = 0 /\ total = 0
    BY DEF AuthInit, Init, PastLimiter
  <2> QED
    BY <2>1, FS_EmptySet DEF LoginCount
<1>2. TypeOK /\ TypeOK' /\ LoginTypeOK /\ LoginTypeOK' /\ LoginCount /\ [AuthNext]_authVars => LoginCount'
  BY CountStep
<1>3. TypeOK /\ LoginTypeOK /\ LoginCount /\ RateBound => LoginsWithinBudget
  <2> SUFFICES ASSUME TypeOK, LoginTypeOK, LoginCount, RateBound
               PROVE  LoginsWithinBudget
    OBVIOUS
  <2>1. Cardinality(PastLimiter) \in Nat /\ sessions \in Nat /\ total \in Nat
    BY RequestsCount DEF PastLimiter, TypeOK, LoginTypeOK
  <2>2. Limit * windows \in Int /\ total <= Limit * windows
    BY LimiterAssumption DEF TypeOK, RateBound
  <2> QED
    BY <2>1, <2>2 DEF LoginCount, LoginsWithinBudget
<1> QED
  BY <1>1, <1>2, <1>3, LoginTypes, LoginKeepsRateBound, PTL DEF AuthSpec
=============================================================================
