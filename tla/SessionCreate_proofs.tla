------------------------ MODULE SessionCreate_proofs ------------------------
(***************************************************************************)
(* What limits concurrent POSTs, for any number of requests, users and     *)
(* deployments: the types, the capacity bound, the bound on the open       *)
(* deployments of a user.                                                  *)
(***************************************************************************)
EXTENDS SessionCreate, FiniteSetTheorems, TLAPS

-----------------------------------------------------------------------------
(* Types *)

LEMMA TypeInit == Init => TypeOK
<1> SUFFICES ASSUME Init PROVE TypeOK
  OBVIOUS
<1>1. deps \in [Deployments -> DeploymentRows]
  BY DEF Init, NoDeployment, DeploymentRows
<1> QED
  BY <1>1, CreateAssumption DEF Init, TypeOK, Steps

LocalTypes ==
    /\ pc \in [Requests -> Steps]
    /\ fp \in [Requests -> Fingerprints]
    /\ now \in [Requests -> Nat]
    /\ seen \in [Requests -> SUBSET Deployments]
    /\ signal \in [Requests -> Requests]

TableTypes ==
    /\ deps \in [Deployments -> DeploymentRows]
    /\ cooldown \in [Users -> Nat]
    /\ signals \in [Posts \X Fingerprints -> Nat]
    /\ clock \in 0..MaxTime
    /\ reopens \in 0..MaxReopens

LEMMA TypeParts == TypeOK <=> LocalTypes /\ TableTypes
BY DEF TypeOK, LocalTypes, TableTypes

LEMMA LeaveTypes ==
    ASSUME LocalTypes, NEW r \in Requests, Leave(r)
    PROVE  LocalTypes'
BY DEF LocalTypes, Leave, Goto, Steps

LEMMA ContinueTypes ==
    ASSUME LocalTypes, NEW r \in Requests, NEW s \in Steps, Continue(r, s)
    PROVE  LocalTypes'
BY DEF LocalTypes, Continue, Goto, locals

LEMMA TypeStep == TypeOK /\ [Next]_vars => TypeOK'
<1> SUFFICES ASSUME LocalTypes, TableTypes, [Next]_vars PROVE LocalTypes' /\ TableTypes'
  BY TypeParts DEF TypeOK, LocalTypes, TableTypes
<1> USE DEF tables
<1>1. ASSUME NEW r \in Requests, Arrive(r) PROVE LocalTypes' /\ TableTypes'
  BY <1>1 DEF Arrive, Goto, LocalTypes, TableTypes, Steps
<1>2. ASSUME NEW r \in Requests, ReadCooldown(r) PROVE LocalTypes' /\ TableTypes'
  <2>1. Leave(r) \/ Continue(r, "capacity") \/ Continue(r, "drop") \/ Continue(r, "report_drop")
    BY <1>2 DEF ReadCooldown
  <2>2. LocalTypes'
    BY <2>1, LeaveTypes, ContinueTypes DEF Steps
  <2> QED
    BY <1>2, <2>2 DEF ReadCooldown, TableTypes
<1>3. ASSUME NEW r \in Requests, DropCooldown(r) PROVE LocalTypes' /\ TableTypes'
  <2>1. Leave(r) \/ Continue(r, "capacity")
    BY <1>3 DEF DropCooldown
  <2>2. LocalTypes'
    BY <2>1, LeaveTypes, ContinueTypes DEF Steps
  <2> QED
    BY <1>3, <2>2 DEF DropCooldown, TableTypes
<1>4. ASSUME NEW p \in Posts, Post(p) PROVE LocalTypes' /\ TableTypes'
  <2>0. p \in Requests
    BY DEF Requests
  <2>1. CASE Find(p)
    <3>1. LocalTypes'
      BY <2>0, <2>1 DEF Find, Goto, LocalTypes, Steps, Latest, OpenOf
    <3> QED
      BY <2>1, <3>1 DEF Find, TableTypes
  <2>2. CASE Normalize(p)
    <3>1. LocalTypes'
      BY <2>0, <2>2 DEF Normalize, Goto, LocalTypes, Steps
    <3> QED
      BY <2>2, <3>1 DEF Normalize, TableTypes
  <2>3. CASE CheckFingerprint(p)
    <3>1. Leave(p) \/ Continue(p, "cooldown")
      BY <2>3 DEF CheckFingerprint
    <3>2. LocalTypes'
      BY <2>0, <3>1, LeaveTypes, ContinueTypes DEF Steps
    <3> QED
      BY <2>3, <3>2 DEF CheckFingerprint, TableTypes
  <2>4. CASE CheckCapacity(p)
    <3>1. LocalTypes'
      <4>1. CASE Leave(p)
        BY <2>0, <4>1, LeaveTypes
      <4>2. CASE ~Leave(p)
        BY <2>0, <2>4, <4>2 DEF CheckCapacity, Goto, LocalTypes, TableTypes, Steps
      <4> QED
        BY <4>1, <4>2
    <3> QED
      BY <2>4, <3>1 DEF CheckCapacity, TableTypes
  <2>5. CASE Insert(p)
    <3>1. LocalTypes'
      BY <2>0, <2>5, ContinueTypes DEF Insert, Steps
    <3>2. Inserted(p) \in DeploymentRows
      BY <2>0 DEF Inserted, DeploymentRows, Users, LocalTypes
    <3> QED
      BY <2>5, <3>1, <3>2 DEF Insert, TableTypes
  <2>6. CASE SetCooldown(p)
    <3>1. Continue(p, "update_cooldown") \/ Continue(p, "insert_cooldown")
      BY <2>6 DEF SetCooldown
    <3>2. LocalTypes'
      BY <2>0, <3>1, ContinueTypes DEF Steps
    <3> QED
      BY <2>6, <3>2 DEF SetCooldown, TableTypes
  <2>7. CASE WriteCooldown(p)
    <3>1. LocalTypes'
      BY <2>0, <2>7, ContinueTypes DEF WriteCooldown, Steps
    <3>2. now[p] + Cooldown \in Nat
      BY <2>0, CreateAssumption DEF LocalTypes
    <3> QED
      BY <2>7, <3>1, <3>2 DEF WriteCooldown, TableTypes
  <2>8. CASE WriteCooldownRaises(p)
    <3>1. LocalTypes'
      BY <2>0, <2>8, LeaveTypes DEF WriteCooldownRaises
    <3> QED
      BY <2>8, <3>1 DEF WriteCooldownRaises, TableTypes
  <2>9. CASE SetSignal(p)
    <3>1. LocalTypes'
      BY <2>0, <2>9 DEF SetSignal, Goto, LocalTypes, Steps, Requests
    <3> QED
      BY <2>9, <3>1 DEF SetSignal, TableTypes
  <2>10. CASE WriteSignal(p)
    <3>1. LocalTypes'
      BY <2>0, <2>10, ContinueTypes DEF WriteSignal, Steps
    <3>2. now[p] + FpCooldown \in Nat
      BY <2>0, CreateAssumption DEF LocalTypes
    <3> QED
      BY <2>10, <3>1, <3>2 DEF WriteSignal, TableTypes
  <2>11. CASE Answer(p)
    <3>1. Leave(p) \/ Continue(p, "report")
      BY <2>11 DEF Answer
    <3>2. LocalTypes'
      BY <2>0, <3>1, LeaveTypes, ContinueTypes DEF Steps
    <3> QED
      BY <2>11, <3>2 DEF Answer, TableTypes
  <2> QED
    BY <1>4, <2>1, <2>2, <2>3, <2>4, <2>5, <2>6, <2>7, <2>8, <2>9, <2>10, <2>11 DEF Post
<1>5. CASE Crash
  BY <1>5 DEF Crash, LocalTypes, TableTypes, Steps
<1>6. ASSUME NEW d \in Deployments, Fails(d) \/ Ends(d) \/ Reopens(d) PROVE LocalTypes' /\ TableTypes'
  <2>1. LocalTypes'
    BY <1>6 DEF Fails, Ends, Reopens, Becomes, locals, LocalTypes
  <2>2. deps' \in [Deployments -> DeploymentRows]
    BY <1>6 DEF Fails, Ends, Reopens, Becomes, TableTypes, DeploymentRows
  <2>3. reopens' \in 0..MaxReopens
    BY <1>6, CreateAssumption DEF Fails, Ends, Reopens, TableTypes
  <2> QED
    BY <1>6, <2>1, <2>2, <2>3 DEF Fails, Ends, Reopens, Becomes, TableTypes
<1>7. CASE Tick
  BY <1>7, CreateAssumption DEF Tick, locals, LocalTypes, TableTypes
<1>8. CASE UNCHANGED vars
  BY <1>8 DEF vars, locals, LocalTypes, TableTypes
<1> QED
  BY <1>1, <1>2, <1>3, <1>4, <1>5, <1>6, <1>7, <1>8 DEF Next

\* The variables keep their types.
THEOREM CreateTypeCorrect == Spec => []TypeOK
BY TypeInit, TypeStep, PTL DEF Spec

-----------------------------------------------------------------------------
(* Capacity *)

LEMMA Finite ==
    /\ IsFiniteSet(Counted) /\ Cardinality(Counted) \in Nat
    /\ IsFiniteSet(Reserved) /\ Cardinality(Reserved) \in Nat
    /\ Cardinality(Posts) \in Nat
BY CreateAssumption, FS_Subset, FS_CardinalityType DEF Counted, Reserved

\* What takes no place keeps the bound.
LEMMA NoMoreTaken ==
    ASSUME TypeOK, TypeOK', CapacityBounded, reopens' = reopens,
           Counted' \subseteq Counted, Reserved' \subseteq Reserved
    PROVE  CapacityBounded'
<1>1. Cardinality(Counted') <= Cardinality(Counted) /\ Cardinality(Counted') \in Nat
  BY Finite, FS_Subset, FS_CardinalityType
<1>2. Cardinality(Reserved') <= Cardinality(Reserved) /\ Cardinality(Reserved') \in Nat
  BY Finite, FS_Subset, FS_CardinalityType
<1> QED
  BY <1>1, <1>2, Finite, CreateAssumption DEF CapacityBounded, ActiveCount, TypeOK

\* A request that goes to another step than insert
LEMMA ReservedShrinks ==
    ASSUME TypeOK, NEW r \in Requests, NEW s, s # "insert", Goto(r, s)
    PROVE  Reserved' \subseteq Reserved
BY DEF Reserved, At, Goto, TypeOK

LEMMA CapacityInit == Init => CapacityBounded
<1> SUFFICES ASSUME Init PROVE CapacityBounded
  OBVIOUS
<1>1. Counted = {} /\ Reserved = {}
  BY DEF Init, Counted, NoDeployment, Reserved, At, Requests
<1>2. Cardinality(Posts) # 0
  BY CreateAssumption, FS_EmptySet
<1> QED
  BY <1>1, <1>2, Finite, FS_EmptySet, CreateAssumption DEF Init, CapacityBounded, ActiveCount

LEMMA CapacityStep == TypeOK /\ CapacityBounded /\ [Next]_vars => CapacityBounded'
<1> SUFFICES ASSUME TypeOK, CapacityBounded, [Next]_vars PROVE CapacityBounded'
  OBVIOUS
<1>0. TypeOK'
  BY TypeStep
<1>1. ASSUME NEW r \in Requests, Arrive(r) \/ ReadCooldown(r) \/ DropCooldown(r) PROVE CapacityBounded'
  <2>1. \E s : s # "insert" /\ Goto(r, s)
    BY <1>1 DEF Arrive, ReadCooldown, DropCooldown, Leave, Continue
  <2>2. Reserved' \subseteq Reserved
    BY <2>1, ReservedShrinks
  <2>3. deps' = deps /\ reopens' = reopens
    BY <1>1 DEF Arrive, ReadCooldown, DropCooldown, tables
  <2> QED
    BY <1>0, <2>2, <2>3, NoMoreTaken DEF Counted
<1>2. ASSUME NEW p \in Posts, Post(p) PROVE CapacityBounded'
  <2>0. p \in Requests
    BY DEF Requests
  <2>1. CASE Insert(p)
    <3>1. PICK d \in Deployments : deps[d].status = "none" /\ deps' = [deps EXCEPT ![d] = Inserted(p)]
      BY <2>1 DEF Insert
    <3>2. Counted' = Counted \cup {d} /\ d \notin Counted
      BY <3>1 DEF Counted, Inserted, TypeOK
    <3>3. Reserved' = Reserved \ {p} /\ p \in Reserved
      BY <2>0, <2>1 DEF Insert, Reserved, At, Continue, Goto, TypeOK
    <3>4. Cardinality(Counted') = Cardinality(Counted) + 1
      BY <3>2, Finite, FS_AddElement
    <3>5. Cardinality(Reserved') = Cardinality(Reserved) - 1
      BY <3>3, Finite, FS_RemoveElement
    <3> QED
      BY <2>1, <3>4, <3>5, Finite, CreateAssumption DEF Insert, CapacityBounded, ActiveCount, TypeOK
  <2>2. CASE CheckCapacity(p) /\ ~Full
    <3>1. \/ Goto(p, "insert") /\ At(p, "capacity") /\ deps' = deps /\ reopens' = reopens
          \/ Leave(p)
      BY <2>2 DEF CheckCapacity, tables
    <3>2. CASE Leave(p)
      <4>1. Reserved' \subseteq Reserved
        BY <2>0, <3>2, ReservedShrinks DEF Leave
      <4> QED
        BY <1>0, <2>2, <4>1, NoMoreTaken DEF CheckCapacity, tables, Counted
    <3>3. CASE Goto(p, "insert") /\ At(p, "capacity") /\ deps' = deps /\ reopens' = reopens
      <4>1. Cardinality(Reserved') <= Cardinality(Posts) /\ Cardinality(Reserved') \in Nat
        <5>1. Reserved' \in SUBSET Posts
          BY DEF Reserved
        <5> QED
          BY <5>1, CreateAssumption, FS_Subset, FS_CardinalityType
      <4>2. Counted' = Counted
        BY <3>3 DEF Counted
      <4>3. Cardinality(Counted) < Limit
        BY <2>2, Finite, CreateAssumption DEF Full, ActiveCount
      <4> QED
        BY <3>3, <4>1, <4>2, <4>3, Finite, CreateAssumption DEF CapacityBounded, ActiveCount, TypeOK
    <3> QED
      BY <3>1, <3>2, <3>3
  <2>3. CASE ~Insert(p) /\ ~(CheckCapacity(p) /\ ~Full)
    <3>1. \E s : s # "insert" /\ Goto(p, s)
      <4>1. CASE Find(p)
        BY <4>1 DEF Find
      <4>2. CASE Normalize(p)
        BY <4>2 DEF Normalize
      <4>3. CASE CheckFingerprint(p) \/ Answer(p)
        BY <4>3 DEF CheckFingerprint, Answer, Leave, Continue
      <4>4. CASE CheckCapacity(p)
        BY <4>4, <2>3 DEF CheckCapacity, Leave
      <4>5. CASE SetCooldown(p) \/ WriteCooldown(p) \/ WriteCooldownRaises(p)
        BY <4>5 DEF SetCooldown, WriteCooldown, WriteCooldownRaises, Leave, Continue
      <4>6. CASE SetSignal(p) \/ WriteSignal(p)
        BY <4>6 DEF SetSignal, WriteSignal, Continue
      <4> QED
        BY <1>2, <2>3, <4>1, <4>2, <4>3, <4>4, <4>5, <4>6 DEF Post
    <3>2. Reserved' \subseteq Reserved
      BY <2>0, <3>1, ReservedShrinks
    <3>3. deps' = deps /\ reopens' = reopens
      BY <1>2, <2>3
      DEF Post, Find, Normalize, CheckFingerprint, CheckCapacity, SetCooldown, WriteCooldown,
          WriteCooldownRaises, SetSignal, WriteSignal, Answer, tables
    <3> QED
      BY <1>0, <3>2, <3>3, NoMoreTaken DEF Counted
  <2> QED
    BY <2>1, <2>2, <2>3
<1>3. CASE Crash
  <2>1. Reserved' \subseteq Reserved
    BY <1>3 DEF Crash, Reserved, At, Requests
  <2> QED
    BY <1>0, <1>3, <2>1, NoMoreTaken DEF Crash, tables, Counted
<1>4. ASSUME NEW d \in Deployments, Fails(d) \/ Ends(d) PROVE CapacityBounded'
  <2>1. Counted' \subseteq Counted
    BY <1>4 DEF Fails, Ends, Becomes, Counted, TypeOK, DeploymentRows
  <2>2. Reserved' = Reserved /\ reopens' = reopens
    BY <1>4 DEF Fails, Ends, Becomes, Reserved, At
  <2> QED
    BY <1>0, <2>1, <2>2, NoMoreTaken
<1>5. ASSUME NEW d \in Deployments, Reopens(d) PROVE CapacityBounded'
  <2>1. Counted' \subseteq Counted \cup {d}
    BY <1>5 DEF Reopens, Becomes, Counted, TypeOK, DeploymentRows
  <2>2. Cardinality(Counted') <= Cardinality(Counted) + 1 /\ Cardinality(Counted') \in Nat
    <3>1. /\ IsFiniteSet(Counted \cup {d})
          /\ Cardinality(Counted \cup {d}) \in {Cardinality(Counted), Cardinality(Counted) + 1}
      BY Finite, FS_AddElement
    <3>2. /\ Cardinality(Counted') <= Cardinality(Counted \cup {d})
          /\ IsFiniteSet(Counted')
      BY <2>1, <3>1, FS_Subset
    <3> QED
      BY <3>1, <3>2, Finite, FS_CardinalityType
  <2>3. Reserved' = Reserved /\ reopens' = reopens + 1
    BY <1>5 DEF Reopens, Becomes, Reserved, At
  <2> QED
    BY <2>2, <2>3, Finite, CreateAssumption DEF CapacityBounded, ActiveCount, TypeOK
<1>6. CASE Tick \/ UNCHANGED vars
  <2>1. Counted' = Counted /\ Reserved' = Reserved /\ reopens' = reopens
    BY <1>6 DEF Tick, vars, tables, Counted, Reserved, At
  <2> QED
    BY <1>0, <2>1, NoMoreTaken
<1> QED
  BY <1>1, <1>2, <1>3, <1>4, <1>5, <1>6 DEF Next

\* However many POSTs race for the last place, MAX_ACTIVE_INSTANCES is exceeded by no more
\* than the POSTs beside the first, and by what late writes made count again.
THEOREM CapacityIsBounded == Spec => []CapacityBounded
<1>1. TypeOK /\ CapacityBounded /\ [Next]_vars => CapacityBounded'
  BY CapacityStep
<1> QED
  BY <1>1, CapacityInit, CreateTypeCorrect, PTL DEF Spec

-----------------------------------------------------------------------------
(* One open deployment per user and POST *)

\* Deployments keep what matters, and none becomes live.
DeploymentsSteady ==
    /\ reopens' = reopens
    /\ \A d \in Deployments :
         /\ deps'[d].user = deps[d].user
         /\ deps'[d].started = deps[d].started
         /\ deps[d].status # "none" => deps'[d].status # "none"
         /\ Live(d)' => Live(d)

\* No POST starts to create or looks at another deployment.
PostSteady(p) ==
    /\ InCreation(p)' => InCreation(p)
    /\ At(p, "normalize")' => At(p, "normalize") /\ seen'[p] = seen[p]

LEMMA SteadyKeeps ==
    ASSUME TypeOK, OpenInv, DeploymentsSteady, \A p \in Posts : PostSteady(p)
    PROVE  OpenInv'
<1>1. \A p \in Posts : At(p, "normalize")' => \A x \in seen'[p] : deps'[x].status # "none"
  BY DEF OpenInv, DeploymentsSteady, PostSteady, TypeOK, Requests
<1>2. PICK owner \in [Deployments -> Posts], back \in SUBSET Deployments :
             Cardinality(back) <= reopens /\ OwnedBy(owner, back)
  BY DEF OpenInv
<1>3. ASSUME NEW d \in Deployments \ back, Live(d)' PROVE Answers(owner[d], d)'
  <2>1. Live(d) /\ Answers(owner[d], d)
    BY <1>2, <1>3 DEF OwnedBy, DeploymentsSteady
  <2>2. seen[owner[d]] \subseteq Deployments
    BY DEF TypeOK, Requests
  <2> QED
    BY <2>1, <2>2 DEF Answers, DeploymentsSteady, PostSteady
<1>4. OwnedBy(owner, back)'
  BY <1>2, <1>3 DEF OwnedBy, DeploymentsSteady
<1> QED
  BY <1>1, <1>2, <1>4 DEF OpenInv, DeploymentsSteady

LEMMA DepsKept ==
    ASSUME deps' = deps, clock' = clock, reopens' = reopens
    PROVE  DeploymentsSteady
BY DEF DeploymentsSteady, Live, PastTTL

\* A request that goes to a step that is neither in the creation nor normalize
LEMMA GoesAway ==
    ASSUME TypeOK, NEW r \in Requests, NEW s, Goto(r, s), s # "normalize",
           \/ s \notin {"fingerprint", "cooldown", "drop", "capacity", "insert"}
           \/ InCreation(r),
           \A q \in Requests \ {r} : seen'[q] = seen[q]
    PROVE  \A p \in Posts : PostSteady(p)
BY DEF TypeOK, Goto, PostSteady, InCreation, At, Requests

LEMMA OpenInit == Init => OpenInv
<1> SUFFICES ASSUME Init PROVE OpenInv
  OBVIOUS
<1>1. \A d \in Deployments : ~Live(d)
  BY DEF Init, NoDeployment, Live
<1>2. \A p \in Posts : ~At(p, "normalize")
  BY DEF Init, At, Requests
<1>3. PICK p \in Posts : TRUE
  BY CreateAssumption
<1>4. Cardinality({}) <= reopens
  BY FS_EmptySet DEF Init
<1>5. OwnedBy([d \in Deployments |-> p], {})
  BY <1>1 DEF OwnedBy
<1> QED
  BY <1>2, <1>4, <1>5 DEF OpenInv

\* The search found nothing: nothing of this user is live.  Or it found the latest.
LEMMA FindKeeps ==
    ASSUME TypeOK, OpenInv, NEW p \in Posts, Find(p)
    PROVE  OpenInv'
<1>0. p \in Requests /\ deps' = deps /\ clock' = clock /\ reopens' = reopens
  BY DEF Find, tables, Requests
<1>1. PICK owner \in [Deployments -> Posts], back \in SUBSET Deployments :
             Cardinality(back) <= reopens /\ OwnedBy(owner, back)
  BY DEF OpenInv
<1>2. \A q \in Posts \ {p} : pc'[q] = pc[q] /\ seen'[q] = seen[q]
  BY <1>0 DEF Find, Goto, TypeOK, Requests
<1>3. \A d \in Deployments : Live(d)' = Live(d)
  BY <1>0 DEF Live, PastTTL
<1>4. CASE OpenOf(UserOf[p]) = {} /\ Goto(p, "fingerprint")
  <2>1. pc'[p] = "fingerprint"
    BY <1>0, <1>4 DEF Goto, TypeOK
  <2>2. ASSUME NEW d \in Deployments \ back, Live(d) PROVE owner[d] # p /\ Answers(owner[d], d)'
    <3>1. Answers(owner[d], d)
      BY <1>1, <2>2 DEF OwnedBy
    <3>2. deps[d].user # UserOf[p]
      BY <1>4, <2>2 DEF OpenOf, Open, Live
    <3>3. owner[d] # p
      BY <3>1, <3>2 DEF Answers
    <3> QED
      BY <1>0, <1>2, <3>1, <3>3 DEF Answers, InCreation, At
  <2>3. OwnedBy(owner, back)'
    BY <1>1, <1>3, <2>2 DEF OwnedBy
  <2>4. \A q \in Posts : At(q, "normalize")' => \A x \in seen'[q] : deps'[x].status # "none"
    BY <1>0, <1>2, <2>1 DEF OpenInv, At
  <2> QED
    BY <1>0, <1>1, <2>3, <2>4 DEF OpenInv
<1>5. ASSUME NEW x \in Latest(OpenOf(UserOf[p])),
             seen' = [seen EXCEPT ![p] = {x}], Goto(p, "normalize")
      PROVE  OpenInv'
  <2>1. pc'[p] = "normalize" /\ seen'[p] = {x}
    BY <1>0, <1>5 DEF Goto, TypeOK
  <2>2. ASSUME NEW d \in Deployments \ back, Live(d) PROVE Answers(owner[d], d)'
    <3>1. Answers(owner[d], d)
      BY <1>1, <2>2 DEF OwnedBy
    <3>2. CASE owner[d] = p
      <4>1. d \in OpenOf(UserOf[p])
        BY <2>2, <3>1, <3>2 DEF Answers, OpenOf, Open, Live
      <4>2. deps[d].started <= deps[x].started
        BY <4>1 DEF Latest
      <4> QED
        BY <1>0, <2>1, <3>1, <3>2, <4>2 DEF Answers, InCreation, At
    <3>3. CASE owner[d] # p
      BY <1>0, <1>2, <3>1, <3>3 DEF Answers, InCreation, At
    <3> QED
      BY <3>2, <3>3
  <2>3. OwnedBy(owner, back)'
    BY <1>1, <1>3, <2>2 DEF OwnedBy
  <2>4. deps[x].status # "none"
    BY DEF Latest, OpenOf, Open
  <2>5. \A q \in Posts : At(q, "normalize")' => \A y \in seen'[q] : deps'[y].status # "none"
    BY <1>0, <1>2, <2>1, <2>4 DEF OpenInv, At
  <2> QED
    BY <1>0, <1>1, <2>3, <2>5 DEF OpenInv
<1> QED
  BY <1>4, <1>5 DEF Find

\* A POST goes on to create only when what it found is past its TTL, and then all that
\* is its own is.
LEMMA NormalizeKeeps ==
    ASSUME TypeOK, OpenInv, NEW p \in Posts, Normalize(p)
    PROVE  OpenInv'
<1>0. /\ p \in Requests /\ deps' = deps /\ clock' = clock /\ reopens' = reopens
      /\ At(p, "normalize") /\ seen[p] \subseteq Deployments
  BY DEF Normalize, tables, Requests, TypeOK
<1>1. PICK owner \in [Deployments -> Posts], back \in SUBSET Deployments :
             Cardinality(back) <= reopens /\ OwnedBy(owner, back)
  BY DEF OpenInv
<1>2. \A q \in Posts \ {p} : pc'[q] = pc[q] /\ seen'[q] = seen[q]
  BY <1>0 DEF Normalize, Goto, TypeOK, Requests
<1>3. PICK x \in seen[p] : Goto(p, IF PastTTL(deps[x].started) THEN "fingerprint" ELSE "report")
  BY DEF Normalize
<1>4. /\ pc'[p] \in {"fingerprint", "report"}
      /\ pc'[p] = "fingerprint" => PastTTL(deps[x].started)
  BY <1>0, <1>3 DEF Goto, TypeOK
<1>5. ASSUME NEW d \in Deployments \ back, Live(d) PROVE Answers(owner[d], d)'
  <2>1. Answers(owner[d], d)
    BY <1>1, <1>5 DEF OwnedBy
  <2>2. CASE owner[d] = p
    <3>1. deps[d].started <= deps[x].started
      BY <1>0, <1>3, <2>1, <2>2 DEF Answers
    <3>2. ~PastTTL(deps[x].started)
      <4>1. deps[d].started \in Nat /\ deps[x].started \in Nat /\ clock \in Nat
        BY <1>0, <1>3, CreateAssumption DEF TypeOK, DeploymentRows
      <4>2. ~(clock - deps[d].started >= TTL)
        BY <1>5 DEF Live, PastTTL
      <4> QED
        BY <3>1, <4>1, <4>2, CreateAssumption DEF PastTTL
    <3> QED
      BY <1>0, <1>4, <2>1, <2>2, <3>2 DEF Answers, InCreation, At
  <2>3. CASE owner[d] # p
    BY <1>0, <1>2, <2>1, <2>3 DEF Answers, InCreation, At
  <2> QED
    BY <2>2, <2>3
<1>6. OwnedBy(owner, back)'
  BY <1>0, <1>1, <1>5 DEF OwnedBy, Live, PastTTL
<1>7. \A q \in Posts : At(q, "normalize")' => \A y \in seen'[q] : deps'[y].status # "none"
  BY <1>0, <1>2, <1>4 DEF OpenInv, At
<1> QED
  BY <1>0, <1>1, <1>6, <1>7 DEF OpenInv

\* The new deployment is that of the POST that inserted it, which had none.
LEMMA InsertKeeps ==
    ASSUME TypeOK, OpenInv, NEW p \in Posts, Insert(p)
    PROVE  OpenInv'
<1>0. p \in Requests /\ clock' = clock /\ reopens' = reopens /\ seen' = seen /\ At(p, "insert")
  BY DEF Insert, Continue, locals, Requests
<1>1. PICK owner \in [Deployments -> Posts], back \in SUBSET Deployments :
             Cardinality(back) <= reopens /\ OwnedBy(owner, back)
  BY DEF OpenInv
<1>2. /\ pc'[p] = "set"
      /\ \A q \in Posts \ {p} : pc'[q] = pc[q]
  BY <1>0 DEF Insert, Continue, Goto, TypeOK, Requests
<1>3. PICK n \in Deployments : deps[n].status = "none" /\ deps' = [deps EXCEPT ![n] = Inserted(p)]
  BY DEF Insert
<1>4. /\ deps'[n].user = UserOf[p] /\ deps'[n].status = "active"
      /\ \A d \in Deployments \ {n} : deps'[d] = deps[d]
  BY <1>3 DEF Inserted, TypeOK
<1> DEFINE mine == [owner EXCEPT ![n] = p]
           rest == back \ {n}
<1>5. mine \in [Deployments -> Posts] /\ rest \in SUBSET Deployments /\ Cardinality(rest) <= reopens'
  <2>1. IsFiniteSet(back)
    BY CreateAssumption, FS_Subset
  <2>2. Cardinality(rest) <= Cardinality(back) /\ Cardinality(rest) \in Nat /\ Cardinality(back) \in Nat
    BY <2>1, FS_Subset, FS_CardinalityType
  <2> QED
    BY <1>0, <1>1, <2>2, CreateAssumption DEF TypeOK
<1>6. ASSUME NEW d \in Deployments \ rest, d # n, Live(d)'
      PROVE  /\ d \in Deployments \ back /\ Live(d) /\ mine[d] = owner[d]
             /\ owner[d] # p /\ Answers(owner[d], d)
  <2>1. d \in Deployments \ back /\ Live(d)
    BY <1>0, <1>4, <1>6 DEF Live, PastTTL
  <2>2. Answers(owner[d], d)
    BY <1>1, <2>1 DEF OwnedBy
  <2>3. owner[d] # p
    BY <1>0, <2>2 DEF Answers, InCreation, At
  <2> QED
    BY <1>6, <2>1, <2>2, <2>3
<1>7. ASSUME NEW d \in Deployments \ rest, Live(d)' PROVE Answers(mine[d], d)'
  <2>1. CASE d = n
    BY <1>1, <1>2, <1>4, <2>1 DEF Answers, InCreation, At
  <2>2. CASE d # n
    <3>1. Answers(owner[d], d) /\ mine[d] = owner[d] /\ owner[d] # p
      BY <1>6, <1>7, <2>2
    <3>2. pc'[owner[d]] = pc[owner[d]]
      BY <1>1, <1>2, <3>1
    <3>3. At(owner[d], "normalize") => \A x \in seen[owner[d]] : x # n /\ x \in Deployments
      BY <1>1, <1>3 DEF OpenInv, TypeOK, Requests
    <3> QED
      BY <1>0, <1>4, <2>2, <3>1, <3>2, <3>3 DEF Answers, InCreation, At
  <2> QED
    BY <2>1, <2>2
<1>8. ASSUME NEW d \in Deployments \ rest, NEW e \in Deployments \ rest,
             Live(d)', Live(e)', mine[d] = mine[e]
      PROVE  d = e
  <2>1. CASE d = n \/ e = n
    BY <1>1, <1>6, <1>8, <2>1
  <2>2. CASE d # n /\ e # n
    BY <1>1, <1>6, <1>8, <2>2 DEF OwnedBy
  <2> QED
    BY <2>1, <2>2
<1>9. OwnedBy(mine, rest)'
  BY <1>7, <1>8 DEF OwnedBy
<1>10. \A q \in Posts : At(q, "normalize")' => \A y \in seen'[q] : deps'[y].status # "none"
  BY <1>0, <1>2, <1>4 DEF OpenInv, At, TypeOK, Requests
<1> QED
  BY <1>5, <1>9, <1>10 DEF OpenInv

\* What comes back is set aside.
LEMMA ReopensKeeps ==
    ASSUME TypeOK, OpenInv, NEW b \in Deployments, Reopens(b)
    PROVE  OpenInv'
<1>0. /\ clock' = clock /\ reopens' = reopens + 1 /\ pc' = pc /\ seen' = seen
      /\ deps'[b].status # "none"
      /\ \A d \in Deployments : deps'[d].user = deps[d].user /\ deps'[d].started = deps[d].started
      /\ \A d \in Deployments \ {b} : deps'[d] = deps[d]
  <2>1. PICK to \in {"active", "failed"} : Becomes(b, {"over", "failed"}, to) \/ Becomes(b, {"over"}, to)
    BY DEF Reopens
  <2>2. /\ deps' = [deps EXCEPT ![b] = [deps[b] EXCEPT !.status = to]]
        /\ clock' = clock /\ pc' = pc /\ seen' = seen
    BY <2>1 DEF Becomes, locals
  <2>3. [deps[b] EXCEPT !.status = to] \in DeploymentRows
    BY DEF TypeOK, DeploymentRows
  <2>4. /\ deps'[b] = [deps[b] EXCEPT !.status = to]
        /\ \A d \in Deployments \ {b} : deps'[d] = deps[d]
    BY <2>2 DEF TypeOK
  <2>5. deps'[b].status = to /\ deps'[b].user = deps[b].user /\ deps'[b].started = deps[b].started
    BY <2>4 DEF TypeOK, DeploymentRows
  <2>6. reopens' = reopens + 1
    BY DEF Reopens
  <2> QED
    BY <2>2, <2>4, <2>5, <2>6
<1>1. PICK owner \in [Deployments -> Posts], back \in SUBSET Deployments :
             Cardinality(back) <= reopens /\ OwnedBy(owner, back)
  BY DEF OpenInv
<1> DEFINE more == back \cup {b}
<1>2. more \in SUBSET Deployments /\ Cardinality(more) <= reopens'
  <2>1. IsFiniteSet(back) /\ Cardinality(back) \in Nat
    BY CreateAssumption, FS_Subset, FS_CardinalityType
  <2>2. Cardinality(more) \in {Cardinality(back), Cardinality(back) + 1}
    BY <2>1, FS_AddElement
  <2> QED
    BY <1>0, <1>1, <2>1, <2>2, CreateAssumption DEF TypeOK
<1>3. ASSUME NEW d \in Deployments \ more, Live(d)' PROVE Live(d) /\ Answers(owner[d], d)'
  <2>1. Live(d)
    BY <1>0, <1>3 DEF Live, PastTTL
  <2>2. Answers(owner[d], d)
    BY <1>1, <1>3, <2>1 DEF OwnedBy
  <2>3. seen[owner[d]] \subseteq Deployments
    BY DEF TypeOK, Requests
  <2> QED
    BY <1>0, <2>1, <2>2, <2>3 DEF Answers, InCreation, At
<1>4. OwnedBy(owner, more)'
  BY <1>1, <1>3 DEF OwnedBy
<1>5. \A q \in Posts : At(q, "normalize")' => \A y \in seen'[q] : deps'[y].status # "none"
  BY <1>0 DEF OpenInv, At, TypeOK, Requests
<1> QED
  BY <1>2, <1>4, <1>5 DEF OpenInv

LEMMA OpenStep == TypeOK /\ OpenInv /\ [Next]_vars => OpenInv'
<1> SUFFICES ASSUME TypeOK, OpenInv, [Next]_vars PROVE OpenInv'
  OBVIOUS
<1>1. ASSUME NEW r \in Requests, Arrive(r) \/ ReadCooldown(r) \/ DropCooldown(r) PROVE OpenInv'
  <2>1. deps' = deps /\ clock' = clock /\ reopens' = reopens
    BY <1>1 DEF Arrive, ReadCooldown, DropCooldown, tables
  <2>2. \A q \in Requests \ {r} : seen'[q] = seen[q]
    BY <1>1 DEF Arrive, ReadCooldown, DropCooldown, Leave, Continue, locals, TypeOK
  <2>3. \E s : /\ Goto(r, s) /\ s # "normalize"
               /\ \/ s \notin {"fingerprint", "cooldown", "drop", "capacity", "insert"}
                  \/ InCreation(r)
    <3>1. CASE Arrive(r)
      BY <3>1 DEF Arrive
    <3>2. CASE ReadCooldown(r)
      BY <3>2 DEF ReadCooldown, Leave, Continue, InCreation, At
    <3>3. CASE DropCooldown(r)
      BY <3>3 DEF DropCooldown, Leave, Continue, InCreation, At
    <3> QED
      BY <1>1, <3>1, <3>2, <3>3
  <2> QED
    BY <2>1, <2>2, <2>3, GoesAway, DepsKept, SteadyKeeps
<1>2. ASSUME NEW p \in Posts, Post(p) PROVE OpenInv'
  <2>1. CASE Find(p) \/ Normalize(p) \/ Insert(p)
    BY <2>1, FindKeeps, NormalizeKeeps, InsertKeeps
  <2>2. CASE ~(Find(p) \/ Normalize(p) \/ Insert(p))
    <3>0. p \in Requests
      BY DEF Requests
    <3>1. deps' = deps /\ clock' = clock /\ reopens' = reopens
      BY <1>2, <2>2
      DEF Post, CheckFingerprint, CheckCapacity, SetCooldown, WriteCooldown,
          WriteCooldownRaises, SetSignal, WriteSignal, Answer, tables
    <3>2. /\ \A q \in Requests \ {p} : seen'[q] = seen[q]
          /\ \E s : /\ Goto(p, s) /\ s # "normalize"
                   /\ \/ s \notin {"fingerprint", "cooldown", "drop", "capacity", "insert"}
                      \/ InCreation(p)
      <4>1. CASE CheckFingerprint(p)
        BY <4>1 DEF CheckFingerprint, Leave, Continue, locals, InCreation, At, TypeOK
      <4>2. CASE CheckCapacity(p)
        BY <4>2 DEF CheckCapacity, Leave, InCreation, At, TypeOK
      <4>3. CASE SetCooldown(p)
        <5>1. Continue(p, "update_cooldown") \/ Continue(p, "insert_cooldown")
          BY <4>3 DEF SetCooldown
        <5> QED
          BY <5>1 DEF Continue, locals
      <4>4. CASE WriteCooldown(p) \/ WriteCooldownRaises(p)
        <5>1. Leave(p) \/ Continue(p, "set_signal")
          BY <4>4 DEF WriteCooldown, WriteCooldownRaises
        <5> QED
          BY <5>1 DEF Leave, Continue, locals, TypeOK
      <4>5. CASE SetSignal(p)
        BY <4>5 DEF SetSignal
      <4>6. CASE WriteSignal(p)
        BY <4>6 DEF WriteSignal, Continue, locals
      <4>7. CASE Answer(p)
        <5>1. Leave(p) \/ Continue(p, "report")
          BY <4>7 DEF Answer
        <5> QED
          BY <5>1 DEF Leave, Continue, locals, TypeOK
      <4> QED
        BY <1>2, <2>2, <4>1, <4>2, <4>3, <4>4, <4>5, <4>6, <4>7 DEF Post
    <3> QED
      BY <3>0, <3>1, <3>2, GoesAway, DepsKept, SteadyKeeps
  <2> QED
    BY <2>1, <2>2
<1>3. CASE Crash
  <2>1. \A p \in Posts : PostSteady(p)
    BY <1>3 DEF Crash, PostSteady, InCreation, At, Requests
  <2>2. DeploymentsSteady
    BY <1>3, DepsKept DEF Crash, tables
  <2> QED
    BY <2>1, <2>2, SteadyKeeps
<1>4. ASSUME NEW d \in Deployments, Fails(d) \/ Ends(d) PROVE OpenInv'
  <2>1. \A p \in Posts : PostSteady(p)
    BY <1>4 DEF Fails, Ends, Becomes, locals, PostSteady, InCreation, At
  <2>2. DeploymentsSteady
    BY <1>4 DEF Fails, Ends, Becomes, DeploymentsSteady, Live, PastTTL, TypeOK, DeploymentRows
  <2> QED
    BY <2>1, <2>2, SteadyKeeps
<1>5. ASSUME NEW d \in Deployments, Reopens(d) PROVE OpenInv'
  BY <1>5, ReopensKeeps
<1>6. CASE Tick
  <2>1. \A p \in Posts : PostSteady(p)
    BY <1>6 DEF Tick, locals, PostSteady, InCreation, At
  <2>2. \A d \in Deployments : Live(d)' => Live(d)
    <3>1. clock \in Nat /\ clock' = clock + 1 /\ deps' = deps
      BY <1>6, CreateAssumption DEF Tick, TypeOK, tables
    <3>2. \A d \in Deployments : deps[d].started \in Nat
      BY DEF TypeOK, DeploymentRows
    <3> QED
      BY <3>1, <3>2, CreateAssumption DEF Live, PastTTL
  <2>3. DeploymentsSteady
    BY <1>6, <2>2 DEF Tick, tables, DeploymentsSteady
  <2> QED
    BY <2>1, <2>3, SteadyKeeps
<1>7. CASE UNCHANGED vars
  <2>1. \A p \in Posts : PostSteady(p)
    BY <1>7 DEF vars, locals, PostSteady, InCreation, At
  <2>2. DeploymentsSteady
    BY <1>7, DepsKept DEF vars, tables
  <2> QED
    BY <2>1, <2>2, SteadyKeeps
<1> QED
  BY <1>1, <1>2, <1>3, <1>4, <1>5, <1>6, <1>7 DEF Next

\* The live deployments of a user that did not come back are no more than the POSTs of the
\* user that create nothing.
LEMMA OwnersBound ==
    ASSUME TypeOK, OpenInv
    PROVE  OpenBounded
<1> SUFFICES ASSUME NEW u \in Users
             PROVE  Cardinality(LiveOf(u)) + Cardinality({p \in PostsOf(u) : InCreation(p)})
                      <= Cardinality(PostsOf(u)) + reopens
  BY DEF OpenBounded
<1> DEFINE busy == {p \in PostsOf(u) : InCreation(p)}
<1>1. PICK owner \in [Deployments -> Posts], back \in SUBSET Deployments :
             Cardinality(back) <= reopens /\ OwnedBy(owner, back)
  BY DEF OpenInv
<1>2. IsFiniteSet(LiveOf(u)) /\ IsFiniteSet(PostsOf(u)) /\ IsFiniteSet(back)
  BY CreateAssumption, FS_Subset DEF LiveOf, PostsOf
<1> DEFINE here == LiveOf(u) \ back
           f == [d \in here |-> owner[d]]
<1>3. f \in Injection(here, PostsOf(u) \ busy)
  <2>1. ASSUME NEW d \in here PROVE f[d] \in PostsOf(u) \ busy
    BY <1>1 DEF LiveOf, PostsOf, OwnedBy, Answers
  <2>2. ASSUME NEW d \in here, NEW e \in here, f[d] = f[e] PROVE d = e
    BY <1>1, <2>2 DEF LiveOf, OwnedBy
  <2> HIDE DEF here, busy
  <2>3. f \in [here -> PostsOf(u) \ busy]
    BY <2>1
  <2> QED
    BY <2>2, <2>3 DEF Injection, IsInjective
<1>4. Cardinality(here) <= Cardinality(PostsOf(u) \ busy)
  <2>1. IsFiniteSet(PostsOf(u) \ busy)
    BY <1>2, FS_Difference
  <2> HIDE DEF here, busy, f
  <2> QED
    BY <1>3, <2>1, FS_Injection
<1>5. Cardinality(PostsOf(u) \ busy) = Cardinality(PostsOf(u)) - Cardinality(busy)
  <2>1. PostsOf(u) \cap busy = busy
    OBVIOUS
  <2> QED
    BY <1>2, <2>1, FS_Difference
<1>6. Cardinality(here) = Cardinality(LiveOf(u)) - Cardinality(LiveOf(u) \cap back)
  BY <1>2, FS_Difference
<1>7. Cardinality(LiveOf(u) \cap back) <= Cardinality(back)
  BY <1>2, FS_Intersection
<1>8. /\ Cardinality(LiveOf(u)) \in Nat /\ Cardinality(PostsOf(u)) \in Nat
      /\ Cardinality(back) \in Nat /\ Cardinality(busy) \in Nat
      /\ Cardinality(LiveOf(u) \cap back) \in Nat /\ reopens \in Nat
  <2>1. IsFiniteSet(busy)
    BY <1>2, FS_Subset
  <2>2. IsFiniteSet(LiveOf(u) \cap back)
    BY <1>2, FS_Intersection
  <2> QED
    BY <1>2, <2>1, <2>2, FS_CardinalityType, CreateAssumption DEF TypeOK
<1> HIDE DEF here, busy
<1>9. Cardinality(LiveOf(u)) + Cardinality(busy) <= Cardinality(PostsOf(u)) + reopens
  BY <1>1, <1>4, <1>5, <1>6, <1>7, <1>8
<1> QED
  BY <1>9 DEF busy

\* Every live deployment has a POST of its user to itself that does not create.
THEOREM OpenInvariant == Spec => []OpenInv
<1>1. TypeOK /\ OpenInv /\ [Next]_vars => OpenInv'
  BY OpenStep
<1> QED
  BY <1>1, OpenInit, CreateTypeCorrect, PTL DEF Spec

\* A user never has more open deployments within their TTL than POSTs at a time, apart from
\* those that came back: one who does not click twice has one.
THEOREM OpenIsBounded == Spec => []OpenBounded
<1>1. TypeOK /\ OpenInv => OpenBounded
  BY OwnersBound
<1> QED
  BY <1>1, OpenInvariant, CreateTypeCorrect, PTL
=============================================================================
