------------------------- MODULE ExporterCacheProofs -------------------------
(***************************************************************************)
(* Theorems about ExporterCache, for every set of tenants, configuration,  *)
(* parallelism and number of refreshes, in three parts: who works on what  *)
(* and what is left behind; the data a scrape gets; what the cache says of *)
(* its refreshes.                                                          *)
(***************************************************************************)
EXTENDS ExporterCache, WellFoundedInduction, TLAPS

-----------------------------------------------------------------------------
(* The plans, as the proofs use them. *)

LEMMA PlanLength == Len(MainPlan) = 9 /\ Len(TenantPlan) = 12
BY DEF MainPlan, TenantPlan

LEMMA MainPlanModules == \A i \in 1..9 : MainPlan[i] \in MainModules
BY DEF MainPlan, MainModules

LEMMA TenantPlanModules == \A i \in 1..12 : TenantPlan[i] \in TenantModules
BY DEF TenantPlan, TenantModules

LEMMA MainIsNoTenant == Main \notin TenantNames
BY TenancyAssumption DEF Main

LEMMA PlanOf ==
  ASSUME NEW r \in Runners
  PROVE  /\ r = Main => Plan(r) = MainPlan /\ Len(Plan(r)) = 9
         /\ r # Main => r \in TenantNames /\ Plan(r) = TenantPlan /\ Len(Plan(r)) = 12
         /\ Len(Plan(r)) \in Nat \ {0}
         /\ \A i \in 1..Len(Plan(r)) : Plan(r)[i] \in Modules
<1>1. CASE r = Main
  <2>1. Plan(r) = MainPlan
    BY <1>1 DEF Plan
  <2>2. Len(Plan(r)) = 9
    BY <2>1, PlanLength
  <2>3. \A i \in 1..9 : MainPlan[i] \in Modules
    BY MainPlanModules DEF Modules
  <2> QED BY <1>1, <2>1, <2>2, <2>3
<1>2. CASE r # Main
  <2>1. Plan(r) = TenantPlan /\ r \in TenantNames
    BY <1>2 DEF Plan, Runners
  <2>2. Len(Plan(r)) = 12
    BY <2>1, PlanLength
  <2>3. \A i \in 1..12 : TenantPlan[i] \in Modules
    BY TenantPlanModules DEF Modules
  <2> QED BY <1>2, <2>1, <2>2, <2>3
<1> QED BY <1>1, <1>2

(* A non-empty set of naturals has a least element: Position's CHOOSE has   *)
(* something to choose.                                                     *)
LEMMA LeastElement ==
  ASSUME NEW S \in SUBSET Nat, S # {}
  PROVE  \E j \in S : \A k \in S : j <= k
<1> DEFINE R == { p \in Nat \X Nat : p[1] < p[2] }
<1>1. IsWellFoundedOn(R, Nat)
  <2>1. R = OpToRel(<, Nat)
    BY DEF OpToRel
  <2> QED BY <2>1, NatLessThanWellFounded
<1>2. PICK j \in S : \A k \in S : ~ (<<k, j>> \in R)
  BY <1>1, WFMin
<1>3. ASSUME NEW k \in S PROVE j <= k
  <2>1. <<k, j>> \in Nat \X Nat /\ ~(k < j)
    BY <1>2
  <2> QED BY <2>1, SMT
<1>4. QED
  BY <1>3

(* The next position is a later attempted one, or one past the end. *)
LEMMA PositionRange ==
  ASSUME NEW r \in Runners, NEW i \in 1..(Len(Plan(r)) + 1), NEW done, NEW tenantSet
  PROVE  /\ Position(r, i, done, tenantSet) \in i..(Len(Plan(r)) + 1)
         /\ Control(r, Position(r, i, done, tenantSet)) = "fetch"
              <=> Position(r, i, done, tenantSet) \in 1..Len(Plan(r))
         /\ Control(r, Position(r, i, done, tenantSet))
              \in (IF r = Main THEN {"fetch", "launch"} ELSE {"fetch", "finish"})
<1> DEFINE open == { j \in i..Len(Plan(r)) : Attempts(Plan(r)[j], done, tenantSet) }
<1>0. Len(Plan(r)) \in Nat \ {0}
  BY PlanOf
<1>1. Position(r, i, done, tenantSet) =
        IF open = {} THEN Len(Plan(r)) + 1
        ELSE CHOOSE j \in open : \A k \in open : j <= k
  BY DEF Position
<1>2. open \in SUBSET Nat /\ open \subseteq i..Len(Plan(r))
  BY <1>0
<1>3. Position(r, i, done, tenantSet) \in i..(Len(Plan(r)) + 1)
  <2>1. CASE open = {}
    BY <1>0, <1>1, <2>1
  <2>2. CASE open # {}
    <3>1. \E j \in open : \A k \in open : j <= k
      BY <1>2, <2>2, LeastElement
    <3>2. (CHOOSE j \in open : \A k \in open : j <= k) \in open
      BY <3>1
    <3>3. Position(r, i, done, tenantSet) \in open
      BY <1>1, <2>2, <3>2
    <3> QED BY <1>0, <1>2, <3>3
  <2> QED BY <2>1, <2>2
<1>4. QED
  BY <1>0, <1>3 DEF Control

-----------------------------------------------------------------------------
(* Type correctness. *)

LEMMA StaticTenantsType == StaticTenants \subseteq TenantNames
BY TenancyAssumption DEF StaticTenants

LEMMA DiscoveredTenantsType ==
  ASSUME NEW a \in SUBSET TenantNames, NEW b \in SUBSET TenantNames
  PROVE  DiscoveredTenants(a, b) \subseteq TenantNames
BY StaticTenantsType DEF DiscoveredTenants

LEMMA NoStateType == NoState \in Record
BY CacheAssumption DEF NoState, Record

LEMMA SetTenantsType ==
  ASSUME TypeOK, NEW next \in SUBSET TenantNames, SetTenants(next)
  PROVE  /\ tenants' \subseteq TenantNames
         /\ st' \in [StateKeys -> Record]
         /\ rows' \in [RowKeys -> 0..MaxCycle]
         /\ up' \in [TenantNames -> {"none", "up", "down"}]
<1>1. tenants' \subseteq TenantNames
  BY DEF SetTenants
<1>2. st' \in [StateKeys -> Record]
  BY NoStateType DEF SetTenants, TypeOK
<1>3. rows' \in [RowKeys -> 0..MaxCycle]
  BY CacheAssumption DEF SetTenants, TypeOK
<1>4. up' \in [TenantNames -> {"none", "up", "down"}]
  BY DEF SetTenants, TypeOK
<1> QED BY <1>1, <1>2, <1>3, <1>4

LEMMA ContinueControl ==
  ASSUME ControlOK, NEW r \in Runners, NEW i \in 1..(Len(Plan(r)) + 1),
         NEW done, NEW tenantSet, Continue(r, i, done, tenantSet)
  PROVE  ControlOK'
<1> DEFINE p == Position(r, i, done, tenantSet)
<1>1. /\ p \in 1..(Len(Plan(r)) + 1)
      /\ Control(r, p) = "fetch" <=> p \in 1..Len(Plan(r))
      /\ Control(r, p) \in (IF r = Main THEN {"fetch", "launch"} ELSE {"fetch", "finish"})
  BY PositionRange, PlanOf
<1>2. at' = [at EXCEPT ![r] = p] /\ pc' = [pc EXCEPT ![r] = Control(r, p)]
  BY DEF Continue
<1> HIDE DEF p
<1>3. at' \in [Runners -> Nat] /\ \A q \in Runners : at'[q] \in 1..(Len(Plan(q)) + 1)
  BY <1>1, <1>2, PlanOf DEF ControlOK
<1>4. /\ pc' \in [Runners -> MainControls \union WorkerControls]
      /\ pc'[Main] \in MainControls
      /\ \A t \in TenantNames : pc'[t] \in WorkerControls
  BY <1>1, <1>2, MainIsNoTenant
  DEF ControlOK, Runners, MainControls, WorkerControls, Working
<1>5. \A q \in Runners : pc'[q] \in Attempting => at'[q] \in 1..Len(Plan(q))
  BY <1>1, <1>2 DEF ControlOK, Attempting
<1> QED BY <1>3, <1>4, <1>5 DEF ControlOK, Plan

\* A step of one runner that leaves its position alone.
LEMMA StepControl ==
  ASSUME ControlOK, NEW r \in Runners, NEW c, pc' = [pc EXCEPT ![r] = c],
         r = Main => c \in MainControls, r # Main => c \in WorkerControls,
         c \in Attempting => pc[r] \in Attempting, UNCHANGED at
  PROVE  ControlOK'
<1>1. /\ pc' \in [Runners -> MainControls \union WorkerControls]
      /\ pc'[Main] \in MainControls
      /\ \A t \in TenantNames : pc'[t] \in WorkerControls
  BY MainIsNoTenant DEF ControlOK, Runners
<1>2. \A q \in Runners : pc'[q] \in Attempting => at'[q] \in 1..Len(Plan(q))
  BY DEF ControlOK
<1> QED BY <1>1, <1>2 DEF ControlOK, Plan

LEMMA ModuleType ==
  ASSUME ControlOK, NEW r \in Runners, pc[r] \in Attempting
  PROVE  /\ Module(r) \in Modules
         /\ at[r] + 1 \in 1..(Len(Plan(r)) + 1)
<1>1. at[r] \in 1..Len(Plan(r)) /\ Len(Plan(r)) \in Nat
  BY PlanOf DEF ControlOK
<1> QED BY <1>1, PlanOf DEF Module

LEMMA InitType == Init => TypeOK
<1> SUFFICES ASSUME Init PROVE TypeOK
  OBVIOUS
<1>1. ControlOK
  BY PlanOf DEF Init, ControlOK, MainControls, WorkerControls, Attempting, Runners
<1>2. bad \in [Runners -> BOOLEAN] /\ ctxDone \in BOOLEAN
  BY Zenon DEF Init
<1>3. st \in [StateKeys -> Record]
  BY NoStateType DEF Init
<1>4. ok \in [Runners -> SUBSET Modules]
  BY DEF Init
<1> QED BY <1>1, <1>2, <1>3, <1>4, CacheAssumption DEF Init, TypeOK

LEMMA NextType == TypeOK /\ [Next]_vars => TypeOK'
<1> SUFFICES ASSUME TypeOK, [Next]_vars PROVE TypeOK'
  OBVIOUS
<1> USE CacheAssumption
<1>0. Main \in Runners /\ TenantNames \subseteq Runners
  BY DEF Runners
<1>1. CASE Begin
  <2>1. targets' \subseteq TenantNames
    BY <1>1, StaticTenantsType DEF Begin
  <2>2. /\ tenants' \subseteq TenantNames
        /\ st' \in [StateKeys -> Record]
        /\ rows' \in [RowKeys -> 0..MaxCycle]
        /\ up' \in [TenantNames -> {"none", "up", "down"}]
    BY <1>1, StaticTenantsType, SetTenantsType DEF Begin, TypeOK
  <2>3. ControlOK'
    <3>1. Continue(Main, 1, {}, targets')
      BY <1>1 DEF Begin
    <3>2. 1 \in 1..(Len(Plan(Main)) + 1)
      BY <1>0, PlanOf
    <3> QED BY <1>0, <3>1, <3>2, ContinueControl DEF TypeOK
  <2>4. cycle' \in 0..MaxCycle
    BY <1>1 DEF Begin, TypeOK
  <2> QED BY <1>1, <2>1, <2>2, <2>3, <2>4 DEF Begin, TypeOK
<1>2. CASE Fallback
  <2>1. pc[Main] \in Attempting
    BY <1>2 DEF Fallback, Attempting
  <2>2. targets' \subseteq TenantNames
    BY <1>2, StaticTenantsType DEF Fallback, TypeOK
  <2>3. /\ tenants' \subseteq TenantNames
        /\ st' \in [StateKeys -> Record]
        /\ rows' \in [RowKeys -> 0..MaxCycle]
        /\ up' \in [TenantNames -> {"none", "up", "down"}]
    BY <1>2, StaticTenantsType, SetTenantsType DEF Fallback, TypeOK
  <2>4. ControlOK'
    BY <1>0, <1>2, <2>1, ContinueControl, ModuleType DEF Fallback, TypeOK
  <2> QED BY <1>2, <2>2, <2>3, <2>4 DEF Fallback, TypeOK
<1>3. CASE Launch
  <2>1. /\ pc' \in [Runners -> MainControls \union WorkerControls]
        /\ pc'[Main] \in MainControls
        /\ \A t \in TenantNames : pc'[t] \in WorkerControls
    BY <1>0, <1>3, MainIsNoTenant
    DEF Launch, TypeOK, ControlOK, MainControls, WorkerControls
  <2>2. \A r \in Runners : pc'[r] \in Attempting => pc[r] \in Attempting
    BY <1>3 DEF Launch, Attempting
  <2>3. ControlOK'
    BY <1>3, <2>1, <2>2 DEF Launch, TypeOK, ControlOK, Plan
  <2> QED BY <1>3, <2>3 DEF Launch, TypeOK
<1>4. CASE Join
  <2>1. ControlOK'
    BY <1>4, PlanOf
    DEF Join, ControlOK, Runners, MainControls, WorkerControls, Attempting, Plan
  <2> QED BY <1>4, <2>1 DEF Join, TypeOK
<1>5. ASSUME NEW t \in TenantNames, WorkerStep(t) PROVE TypeOK'
  <2> USE MainIsNoTenant
  <2>1. CASE Enter(t)
    <3>1. ControlOK'
      BY <1>0, <2>1, StepControl DEF Enter, TypeOK, WorkerControls, Attempting
    <3> QED BY <2>1, <3>1 DEF Enter, TypeOK
  <2>2. CASE EnterLate(t) \/ GiveUp(t)
    <3>1. ControlOK'
      BY <1>0, <2>2, StepControl
      DEF EnterLate, GiveUp, Skip, TypeOK, WorkerControls, Attempting
    <3> QED BY <1>0, <2>2, <3>1 DEF EnterLate, GiveUp, Skip, TypeOK
  <2>3. CASE Acquire(t)
    <3>1. ControlOK'
      BY <1>0, <2>3, ContinueControl, PlanOf DEF Acquire, TypeOK
    <3> QED BY <2>3, <3>1 DEF Acquire, TypeOK
  <2>4. CASE Finish(t)
    <3>1. ControlOK'
      BY <1>0, <2>4, StepControl DEF Finish, TypeOK, WorkerControls, Attempting
    <3> QED BY <2>4, <3>1 DEF Finish, TypeOK
  <2> QED BY <1>5, <2>1, <2>2, <2>3, <2>4 DEF WorkerStep
<1>6. ASSUME NEW r \in Runners, ModuleStep(r) PROVE TypeOK'
  <2>1. CASE Fetch(r)
    <3>1. ControlOK'
      BY <2>1, StepControl
      DEF Fetch, TypeOK, MainControls, WorkerControls, Working, Attempting
    <3>2. targets' \subseteq TenantNames
      BY <2>1, DiscoveredTenantsType DEF Fetch, Discover, TypeOK
    <3> QED BY <2>1, <3>1, <3>2 DEF Fetch, TypeOK
  <2>2. CASE Render(r)
    <3>1. ControlOK'
      BY <2>2, StepControl
      DEF Render, TypeOK, MainControls, WorkerControls, Working, Attempting
    <3>2. /\ tenants' \subseteq TenantNames
          /\ st' \in [StateKeys -> Record]
          /\ rows' \in [RowKeys -> 0..MaxCycle]
          /\ up' \in [TenantNames -> {"none", "up", "down"}]
      <4>1. CASE Module(r) = "tenant_discovery"
        <5>1. SetTenants(targets)
          BY <2>2, <4>1 DEF Render, OwnerLabelled
        <5>2. targets \in SUBSET TenantNames
          BY DEF TypeOK
        <5> QED BY <5>1, <5>2, SetTenantsType
      <4>2. CASE Module(r) # "tenant_discovery"
        BY <2>2, <4>2 DEF Render, RenderOwned, TypeOK
      <4> QED BY <4>1, <4>2
    <3> QED BY <2>2, <3>1, <3>2 DEF Render, TypeOK
  <2>3. CASE RecordSuccess(r)
    <3>1. pc[r] \in Attempting
      BY <2>3 DEF RecordSuccess, Attempting
    <3>2. ControlOK'
      BY <2>3, <3>1, ContinueControl, ModuleType DEF RecordSuccess, TypeOK
    <3>3. Succeeded \in Record
      BY DEF Succeeded, Record, TypeOK
    <3>4. st' \in [StateKeys -> Record]
      BY <2>3, <3>3 DEF RecordSuccess, TypeOK
    <3>5. ok' \in [Runners -> SUBSET Modules]
      BY <2>3, <3>1, ModuleType DEF RecordSuccess, TypeOK
    <3> QED BY <2>3, <3>2, <3>4, <3>5 DEF RecordSuccess, TypeOK
  <2>4. CASE RecordFailure(r)
    <3>1. pc[r] \in Attempting
      BY <2>4 DEF RecordFailure, Attempting
    <3>2. ControlOK'
      <4>1. CASE Module(r) = "tenant_discovery"
        <5>1. r = Main
          BY <4>1, <3>1, PlanOf, TenantPlanModules
          DEF TypeOK, ControlOK, Module, TenantModules
        <5> QED BY <2>4, <3>1, <4>1, <5>1, StepControl
                DEF RecordFailure, TypeOK, MainControls
      <4>2. CASE Module(r) # "tenant_discovery"
        BY <2>4, <3>1, <4>2, ContinueControl, ModuleType DEF RecordFailure, TypeOK
      <4> QED BY <4>1, <4>2
    <3>3. st' \in [StateKeys -> Record]
      BY <2>4 DEF RecordFailure, TypeOK, Record
    <3> QED BY <2>4, <3>2, <3>3 DEF RecordFailure, TypeOK
  <2> QED BY <1>6, <2>1, <2>2, <2>3, <2>4 DEF ModuleStep
<1>7. CASE Cancel
  BY <1>7 DEF Cancel, runnerVars, TypeOK, ControlOK, Plan
<1>8. ASSUME NEW k \in StateKeys, GoStale(k) PROVE TypeOK'
  <2>1. st' \in [StateKeys -> Record]
    BY <1>8 DEF GoStale, TypeOK, Record
  <2> QED BY <1>8, <2>1 DEF GoStale, runnerVars, TypeOK, ControlOK, Plan
<1>9. CASE UNCHANGED vars
  BY <1>9 DEF vars, runnerVars, TypeOK, ControlOK, Plan
<1> QED BY <1>1, <1>2, <1>3, <1>4, <1>5, <1>6, <1>7, <1>8, <1>9
        DEF Next, Progress, MainStep, Rest

(* Every reachable state has the shape TypeOK describes; in particular no   *)
(* runner ever attempts a module outside its plan.                          *)
THEOREM TypeCorrect == Spec => []TypeOK
BY InitType, NextType, PTL DEF Spec

-----------------------------------------------------------------------------
(* Nothing outlives its tenant.  WorkersBelong is the strengthening that    *)
(* makes NoOrphans inductive: whoever writes under a tenant's name runs for *)
(* a tenant that is in e.tenants.                                           *)

LEMMA DiscoveryFirst ==
  Wildcard => /\ Position(Main, 1, {}, {}) = 1
              /\ MainPlan[1] = "tenant_discovery"
<1> SUFFICES ASSUME Wildcard PROVE Position(Main, 1, {}, {}) = 1
  BY DEF MainPlan
<1> DEFINE open == { j \in 1..Len(Plan(Main)) : Attempts(Plan(Main)[j], {}, {}) }
<1>1. Plan(Main)[1] = "tenant_discovery" /\ Len(Plan(Main)) = 9
  BY PlanLength DEF Plan, MainPlan
<1>2. Attempts("tenant_discovery", {}, {})
  <2>1. Wanted("tenant_discovery")
    BY DEF Wanted, Lists
  <2>2. "tenant_discovery" \notin DOMAIN ListOf
    BY DEF ListOf
  <2> QED BY <2>1, <2>2 DEF Attempts
<1>3. 1 \in open
  BY <1>1, <1>2
<1>4. (CHOOSE j \in open : \A k \in open : j <= k) = 1
  <2>1. open \subseteq 1..9 /\ \A k \in open : 1 <= k
    BY <1>1
  <2>2. \A j \in open : (\A k \in open : j <= k) => j = 1
    BY <1>3, <2>1
  <2> QED BY <1>3, <2>1, <2>2
<1>5. Position(Main, 1, {}, {}) =
        IF open = {} THEN Len(Plan(Main)) + 1
        ELSE CHOOSE j \in open : \A k \in open : j <= k
  BY DEF Position
<1> HIDE DEF open
<1> QED BY <1>3, <1>4, <1>5

LEMMA WorkerModule ==
  ASSUME ControlOK, NEW t \in TenantNames, pc[t] \in Attempting
  PROVE  Module(t) \in TenantModules /\ Module(t) # "tenant_discovery"
<1>1. t \in Runners /\ t # Main
  BY MainIsNoTenant DEF Runners
<1>2. Module(t) \in TenantModules
  BY <1>1, PlanOf, TenantPlanModules DEF ControlOK, Module
<1> QED BY <1>2 DEF TenantModules

\* Continuing the plan of a runner when the refresh knows its tenants.
LEMMA ContinueBelongs ==
  ASSUME TypeOK, WorkersBelong, NEW r \in Runners, r # Main => pc[r] # "idle",
         r = Main => targets' = tenants' /\ pc[Main] # "join",
         r # Main => UNCHANGED <<tenants, targets>>,
         NEW i \in 1..(Len(Plan(r)) + 1), NEW done, NEW tenantSet,
         Continue(r, i, done, tenantSet)
  PROVE  WorkersBelong'
<1>1. /\ at' = [at EXCEPT ![r] = Position(r, i, done, tenantSet)]
      /\ pc' = [pc EXCEPT ![r] = Control(r, Position(r, i, done, tenantSet))]
  BY DEF Continue
<1>2. Control(r, Position(r, i, done, tenantSet)) \in
        (IF r = Main THEN {"fetch", "launch"} ELSE {"fetch", "finish"})
  BY PositionRange
<1>3. CASE r = Main
  BY <1>1, <1>2, <1>3, MainIsNoTenant DEF WorkersBelong, TypeOK, ControlOK
<1>4. CASE r # Main
  <2>1. pc'[Main] = pc[Main] /\ at'[Main] = at[Main]
    BY <1>1, <1>4 DEF TypeOK, ControlOK, Runners
  <2>2. r \in TenantNames /\ pc[Main] = "join" /\ r \in tenants
    BY <1>4 DEF Runners, WorkersBelong
  <2>3. \A t \in TenantNames : pc'[t] # "idle" => pc'[Main] = "join" /\ t \in tenants'
    BY <1>1, <1>4, <2>1, <2>2 DEF WorkersBelong, TypeOK, ControlOK
  <2> QED BY <1>4, <2>1, <2>2, <2>3 DEF WorkersBelong, Module, Plan
<1> QED BY <1>3, <1>4

\* A worker's step that leaves its position alone.
LEMMA WorkerBelongs ==
  ASSUME TypeOK, WorkersBelong, NEW t \in TenantNames, NEW c, pc[t] # "idle",
         pc' = [pc EXCEPT ![t] = c], UNCHANGED <<at, tenants, targets>>
  PROVE  WorkersBelong'
<1>1. pc'[Main] = pc[Main]
  BY MainIsNoTenant DEF TypeOK, ControlOK, Runners
<1>2. \A q \in TenantNames : pc'[q] # "idle" => pc'[Main] = "join" /\ q \in tenants'
  BY <1>1 DEF WorkersBelong, TypeOK, ControlOK
<1> QED BY <1>1, <1>2 DEF WorkersBelong, Module, Plan

LEMMA InitBelongs == Init => WorkersBelong
BY DEF Init, WorkersBelong, Runners

LEMMA NextBelongs == TypeOK /\ WorkersBelong /\ [Next]_vars => WorkersBelong'
<1> SUFFICES ASSUME TypeOK, WorkersBelong, [Next]_vars PROVE WorkersBelong'
  OBVIOUS
<1>0. Main \in Runners /\ TenantNames \subseteq Runners
  BY DEF Runners
<1>1. CASE Begin
  <2>1. Continue(Main, 1, {}, targets') /\ pc[Main] = "idle"
    BY <1>1 DEF Begin
  <2>2. 1 \in 1..(Len(Plan(Main)) + 1)
    BY <1>0, PlanOf
  <2>3. CASE ~Wildcard
    <3>1. targets' = tenants'
      BY <1>1, <2>3 DEF Begin, SetTenants
    <3> QED BY <1>0, <2>1, <2>2, <3>1, ContinueBelongs
  <2>4. CASE Wildcard
    <3>1. targets' = {}
      BY <1>1, <2>4 DEF Begin
    <3>2. at' = [at EXCEPT ![Main] = 1] /\ pc' = [pc EXCEPT ![Main] = Control(Main, 1)]
      BY <2>1, <2>4, <3>1, DiscoveryFirst DEF Continue
    <3>3. Control(Main, 1) = "fetch"
      BY <1>0, PlanOf DEF Control
    <3>4. pc'[Main] = "fetch" /\ at'[Main] = 1
      BY <1>0, <3>2, <3>3 DEF TypeOK, ControlOK
    <3>5. Module(Main)' = "tenant_discovery"
      BY <2>4, <3>4, DiscoveryFirst DEF Module, Plan
    <3>6. \A t \in TenantNames : pc'[t] = "idle"
      BY <2>1, <3>2, MainIsNoTenant DEF WorkersBelong, TypeOK, ControlOK
    <3> QED BY <3>4, <3>5, <3>6 DEF WorkersBelong
  <2> QED BY <2>3, <2>4
<1>2. CASE Fallback
  <2>1. Continue(Main, at[Main] + 1, ok[Main], targets') /\ pc[Main] = "fallback"
    BY <1>2 DEF Fallback
  <2>2. targets' = tenants'
    BY <1>2 DEF Fallback, SetTenants
  <2>3. at[Main] + 1 \in 1..(Len(Plan(Main)) + 1)
    BY <1>0, <2>1, ModuleType DEF Attempting, TypeOK
  <2> QED BY <1>0, <2>1, <2>2, <2>3, ContinueBelongs
<1>3. CASE Launch
  <2>1. pc'[Main] = "join" /\ targets' = tenants'
    BY <1>0, <1>3 DEF Launch, WorkersBelong
  <2>2. \A t \in TenantNames : pc'[t] # "idle" => t \in tenants'
    BY <1>0, <1>3, MainIsNoTenant DEF Launch, WorkersBelong
  <2> QED BY <2>1, <2>2 DEF WorkersBelong
<1>4. CASE Join
  BY <1>0, <1>4 DEF Join, WorkersBelong
<1>5. ASSUME NEW t \in TenantNames, WorkerStep(t) PROVE WorkersBelong'
  <2>1. pc[t] # "idle" /\ t # Main /\ t \in Runners
    BY <1>0, <1>5, MainIsNoTenant
    DEF WorkerStep, Enter, EnterLate, Acquire, GiveUp, Finish
  <2>2. CASE Acquire(t)
    BY <2>1, <2>2, PlanOf, ContinueBelongs DEF Acquire
  <2>3. CASE ~Acquire(t)
    BY <1>5, <2>1, <2>3, WorkerBelongs
    DEF WorkerStep, Enter, EnterLate, GiveUp, Skip, Finish
  <2> QED BY <2>2, <2>3
<1>6. ASSUME NEW r \in Runners, ModuleStep(r) PROVE WorkersBelong'
  <2>1. pc[r] \in Attempting /\ pc[r] \notin {"idle", "join"}
    BY <1>6 DEF ModuleStep, Fetch, Render, RecordSuccess, RecordFailure, Attempting
  <2>2. CASE r # Main
    <3>1. r \in TenantNames /\ Module(r) # "tenant_discovery"
      BY <2>1, <2>2, WorkerModule DEF Runners, TypeOK
    <3>2. UNCHANGED <<tenants, targets>>
      BY <1>6, <3>1 DEF ModuleStep, Fetch, Render, RecordSuccess, RecordFailure
    <3>3. CASE Fetch(r) \/ Render(r)
      BY <2>1, <3>1, <3>2, <3>3, WorkerBelongs DEF Fetch, Render
    <3>4. CASE RecordSuccess(r) \/ RecordFailure(r)
      BY <2>1, <2>2, <3>1, <3>2, <3>4, ModuleType, ContinueBelongs
      DEF RecordSuccess, RecordFailure, TypeOK
    <3> QED BY <1>6, <3>3, <3>4 DEF ModuleStep
  <2>3. CASE r = Main
    <3>0. \A t \in TenantNames : pc[t] = "idle"
      BY <2>1, <2>3 DEF WorkersBelong
    <3>1. CASE Fetch(r)
      <4>1. at'[Main] = at[Main] /\ Module(Main)' = Module(Main)
        BY <3>1 DEF Fetch, Module, Plan
      <4>2. Module(Main) # "tenant_discovery" => targets = tenants
        BY <2>3, <3>1 DEF Fetch, WorkersBelong
      <4>3. pc'[Main] \in {"render", "recordErr"} \/
              (pc'[Main] = "recordOk" /\ Module(Main) # "tenant_discovery")
        BY <1>0, <2>3, <3>1 DEF Fetch, Lists, TypeOK, ControlOK
      <4>4. Module(Main) # "tenant_discovery" => UNCHANGED <<targets, tenants>>
        BY <2>3, <3>1 DEF Fetch
      <4>5. \A t \in TenantNames : pc'[t] = "idle"
        <5>1. PICK c : pc' = [pc EXCEPT ![Main] = c]
          BY <2>3, <3>1 DEF Fetch
        <5> QED BY <3>0, <5>1, MainIsNoTenant DEF TypeOK, ControlOK, Runners
      <4> QED BY <4>1, <4>2, <4>3, <4>4, <4>5 DEF WorkersBelong
    <3>2. CASE Render(r)
      <4>1. targets' = tenants'
        <5>1. CASE Module(Main) = "tenant_discovery"
          BY <2>3, <3>2, <5>1 DEF Render, SetTenants, OwnerLabelled
        <5>2. CASE Module(Main) # "tenant_discovery"
          BY <2>3, <3>2, <5>2 DEF Render, WorkersBelong
        <5> QED BY <5>1, <5>2
      <4>2. \A t \in TenantNames : pc'[t] = "idle"
        BY <2>3, <3>0, <3>2, MainIsNoTenant DEF Render, TypeOK, ControlOK
      <4> QED BY <4>1, <4>2 DEF WorkersBelong
    <3>3. CASE RecordSuccess(r)
      <4>1. targets' = tenants'
        BY <2>3, <3>3 DEF RecordSuccess, WorkersBelong
      <4> QED BY <1>0, <2>1, <2>3, <3>3, <4>1, ModuleType, ContinueBelongs
              DEF RecordSuccess, TypeOK
    <3>4. CASE RecordFailure(r)
      <4>1. CASE Module(r) = "tenant_discovery"
        <5>1. pc'[Main] = "fallback"
          BY <1>0, <2>3, <3>4, <4>1 DEF RecordFailure, TypeOK, ControlOK
        <5>2. \A t \in TenantNames : pc'[t] = "idle"
          <6>1. pc' = [pc EXCEPT ![Main] = "fallback"]
            BY <2>3, <3>4, <4>1 DEF RecordFailure
          <6> QED BY <3>0, <6>1, MainIsNoTenant DEF TypeOK, ControlOK, Runners
        <5> QED BY <5>1, <5>2 DEF WorkersBelong
      <4>2. CASE Module(r) # "tenant_discovery"
        <5>1. targets' = tenants'
          BY <2>3, <3>4, <4>2 DEF RecordFailure, WorkersBelong
        <5> QED BY <1>0, <2>1, <2>3, <3>4, <4>2, <5>1, ModuleType, ContinueBelongs
                DEF RecordFailure, TypeOK
      <4> QED BY <4>1, <4>2
    <3> QED BY <1>6, <3>1, <3>2, <3>3, <3>4 DEF ModuleStep
  <2> QED BY <2>2, <2>3
<1>7. CASE Cancel \/ (\E k \in StateKeys : GoStale(k)) \/ UNCHANGED vars
  BY <1>7 DEF Cancel, GoStale, vars, runnerVars, WorkersBelong, Module, Plan
<1> QED BY <1>1, <1>2, <1>3, <1>4, <1>5, <1>6, <1>7 DEF Next, Progress, MainStep, Rest

(* Workers exist only between Launch and Join, for tenants in e.tenants. *)
THEOREM WorkersBelongAlways == Spec => []WorkersBelong
<1>1. Init => TypeOK /\ WorkersBelong
  BY InitType, InitBelongs
<1>2. TypeOK /\ WorkersBelong /\ [Next]_vars => (TypeOK /\ WorkersBelong)'
  BY NextType, NextBelongs
<1> QED BY <1>1, <1>2, PTL DEF Spec

LEMMA InitNoOrphans == Init => NoOrphans
BY DEF Init, NoOrphans, NoState

LEMMA SetTenantsNoOrphans ==
  ASSUME TypeOK, NoOrphans, NEW next \in SUBSET TenantNames, SetTenants(next)
  PROVE  NoOrphans'
<1>1. /\ tenants' = next
      /\ \A k \in RowKeys : rows'[k] = IF k[2] \in tenants \ next THEN 0 ELSE rows[k]
      /\ \A k \in StateKeys :
           st'[k] = IF k[2] \in tenants \ next THEN NoState ELSE st[k]
      /\ \A t \in TenantNames :
           up'[t] = IF t \in tenants \ next THEN "none" ELSE up[t]
  BY DEF SetTenants
<1>2. ~NoState.seen
  BY DEF NoState
<1> QED BY <1>1, <1>2, MainIsNoTenant DEF NoOrphans

\* Writing under the name of a runner that belongs.
LEMMA RenderNoOrphans ==
  ASSUME TypeOK, NoOrphans, NEW r \in Runners, r \in tenants \union {Main}, NEW v,
         rows' = [rows EXCEPT ![RenderedKey(Module(r), r)] = v],
         UNCHANGED <<tenants, st, up>>
  PROVE  NoOrphans'
<1>1. RenderedKey(Module(r), r)[2] \in tenants \union {Main}
        \/ RenderedKey(Module(r), r) = <<"vs_metrics", "admin">>
  BY DEF RenderedKey
<1>2. \A k \in RowKeys : k # RenderedKey(Module(r), r) => rows'[k] = rows[k]
  BY DEF TypeOK
<1> QED BY <1>1, <1>2 DEF NoOrphans

LEMMA RecordNoOrphans ==
  ASSUME TypeOK, NoOrphans, NEW r \in Runners, r \in tenants \union {Main},
         \A k \in StateKeys : k # StateKey(Module(r), r) => st'[k] = st[k],
         UNCHANGED <<tenants, rows, up>>
  PROVE  NoOrphans'
<1>1. StateKey(Module(r), r)[2] \in tenants \union {Main}
        \/ StateKey(Module(r), r)[1] = "admin_vs_metrics"
  BY DEF StateKey
<1> QED BY <1>1 DEF NoOrphans

LEMMA NextNoOrphans ==
  TypeOK /\ WorkersBelong /\ NoOrphans /\ [Next]_vars => NoOrphans'
<1> SUFFICES ASSUME TypeOK, WorkersBelong, NoOrphans, [Next]_vars PROVE NoOrphans'
  OBVIOUS
<1>1. CASE Begin \/ Fallback
  <2>1. UNCHANGED <<tenants, st, rows, up>> \/ SetTenants(StaticTenants)
    BY <1>1 DEF Begin, Fallback
  <2> QED BY <2>1, StaticTenantsType, SetTenantsNoOrphans DEF NoOrphans
<1>2. CASE Launch \/ Join
  BY <1>2 DEF Launch, Join, NoOrphans
<1>3. ASSUME NEW t \in TenantNames, WorkerStep(t) PROVE NoOrphans'
  <2>1. CASE Finish(t)
    <3>1. t \in tenants
      BY <2>1 DEF Finish, WorkersBelong
    <3> QED BY <2>1, <3>1 DEF Finish, NoOrphans, TypeOK
  <2>2. CASE ~Finish(t)
    BY <1>3, <2>2 DEF WorkerStep, Enter, EnterLate, Acquire, GiveUp, Skip, NoOrphans
  <2> QED BY <2>1, <2>2
<1>4. ASSUME NEW r \in Runners, ModuleStep(r) PROVE NoOrphans'
  <2>1. r \in tenants \union {Main}
    BY <1>4 DEF ModuleStep, Fetch, Render, RecordSuccess, RecordFailure,
                WorkersBelong, Runners
  <2>2. CASE Fetch(r)
    BY <2>2 DEF Fetch, NoOrphans
  <2>3. CASE Render(r)
    <3>1. CASE SetTenants(targets)
      BY <3>1, SetTenantsNoOrphans DEF TypeOK
    <3>2. CASE RenderOwned(Module(r)) /\ Module(r) \in OwnerLabelled /\ UNCHANGED <<tenants, st, up>>
      <4>1. \A k \in RowKeys : k[1] \notin OwnerLabelled => rows'[k] = rows[k]
        BY <3>2 DEF RenderOwned
      <4> QED BY <3>2, <4>1 DEF NoOrphans
    <3>3. CASE /\ rows' = [rows EXCEPT ![RenderedKey(Module(r), r)] = cycle]
               /\ UNCHANGED <<tenants, st, up>>
      BY <2>1, <3>3, RenderNoOrphans
    <3> QED BY <2>3, <3>1, <3>2, <3>3 DEF Render
  <2>4. CASE RecordSuccess(r)
    BY <2>1, <2>4, RecordNoOrphans DEF RecordSuccess, TypeOK
  <2>5. CASE RecordFailure(r)
    <3>1. \A k \in StateKeys : k # StateKey(Module(r), r) => st'[k] = st[k]
      BY <2>5 DEF RecordFailure, TypeOK
    <3> QED BY <2>1, <2>5, <3>1, RecordNoOrphans DEF RecordFailure
  <2> QED BY <1>4, <2>2, <2>3, <2>4, <2>5 DEF ModuleStep
<1>5. ASSUME NEW key \in StateKeys, GoStale(key) PROVE NoOrphans'
  <2>1. \A k \in StateKeys : st'[k].seen = st[k].seen
    BY <1>5 DEF GoStale, TypeOK, Record
  <2> QED BY <1>5, <2>1 DEF GoStale, NoOrphans
<1>6. CASE Cancel \/ UNCHANGED vars
  BY <1>6 DEF Cancel, vars, NoOrphans
<1> QED BY <1>1, <1>2, <1>3, <1>4, <1>5, <1>6 DEF Next, Progress, MainStep, Rest

(* A tenant that is gone leaves no module state and no avi_up behind, and   *)
(* no series but the two kinds NoOrphans names, admin's raw analytics and   *)
(* the service engines it owns, however workers, discoveries and            *)
(* cancellations interleave.                                                *)
THEOREM NothingOutlivesItsTenant == Spec => []NoOrphans
<1> DEFINE IInv == TypeOK /\ WorkersBelong /\ NoOrphans
<1>1. Init => IInv
  BY InitType, InitBelongs, InitNoOrphans
<1>2. IInv /\ [Next]_vars => IInv'
  BY NextType, NextBelongs, NextNoOrphans
<1> QED BY <1>1, <1>2, PTL DEF Spec

-----------------------------------------------------------------------------
(***************************************************************************)
(* The data served: it is not taken back, its age is the age shown, and    *)
(* the cache keeps the promise of ServedCache.                             *)
(***************************************************************************)

\* The series the attempt of a runner renders.
Target(r) == RenderedKey(Module(r), r)

(* No data is newer than the refresh. *)
Bounded ==
  /\ \A k \in RowKeys : rows[k] <= cycle
  /\ \A k \in StateKeys : st[k].lastOk <= cycle

(* Between Render and Record the series rendered are those of this refresh. *)
Rendered ==
  \A r \in Runners :
    pc[r] = "recordOk" /\ Target(r) \in RowKeys /\ Module(r) \notin OwnerLabelled
      => rows[Target(r)] = cycle

(* Only modules the configuration wants are attempted: a static             *)
(* configuration is never left by a discovery.                              *)
Chosen ==
  /\ \A r \in Runners : pc[r] \in Attempting => Wanted(Module(r))
  /\ ~Wildcard => tenants \subseteq StaticTenants

CacheInv ==
  TypeOK /\ WorkersBelong /\ Bounded /\ Rendered /\ AgeMatchesData /\ Chosen

-----------------------------------------------------------------------------
(* Keys of series and of module states. *)

LEMMA WritersOf ==
  ASSUME NEW k \in ServedEntries
  PROVE  /\ k \in Writers(k) /\ Writers(k) \subseteq StateKeys
         /\ \A w \in Writers(k) : w[2] = k[2]
BY MainIsNoTenant
DEF ServedEntries, RowKeys, StateKeys, Writers, OwnerLabelled, MainModules,
    TenantModules, Lists

LEMMA NotRendered ==
  ASSUME NEW r \in Runners, NEW m \in Lists \union {"tenant_discovery"}
  PROVE  RenderedKey(m, r) \notin RowKeys
BY DEF RenderedKey, RowKeys, Lists, TenantModules, OwnerLabelled, Main

LEMMA TargetServed ==
  ASSUME NEW r \in Runners, NEW m \in Modules, m \notin OwnerLabelled,
         RenderedKey(m, r) \in RowKeys
  PROVE  /\ RenderedKey(m, r) \in ServedEntries
         /\ StateKey(m, r) \in Writers(RenderedKey(m, r))
BY DEF RenderedKey, StateKey, Writers, ServedEntries, OwnerLabelled

LEMMA WriterRenders ==
  ASSUME NEW r \in Runners, NEW m \in Modules, NEW k \in ServedEntries,
         StateKey(m, r) \in Writers(k)
  PROVE  k = RenderedKey(m, r) /\ m \notin OwnerLabelled
<1>1. k[1] # "admin_vs_metrics" /\ k[1] \notin OwnerLabelled
  BY DEF ServedEntries, RowKeys, TenantModules, OwnerLabelled
<1>2. CASE m = "admin_vs_metrics"
  BY <1>1, <1>2 DEF StateKey, Writers, RenderedKey, OwnerLabelled
<1>3. CASE m # "admin_vs_metrics"
  BY <1>1, <1>3 DEF StateKey, Writers, RenderedKey
<1> QED BY <1>2, <1>3

LEMMA OwnStateKey ==
  ASSUME TypeOK, NEW r \in Runners, pc[r] \in Attempting
  PROVE  StateKey(Module(r), r) \in StateKeys
<1>1. CASE r = Main
  <2>1. Module(r) \in MainModules
    BY <1>1, PlanOf, MainPlanModules DEF TypeOK, ControlOK, Module
  <2> QED BY <1>1, <2>1 DEF StateKey, StateKeys
<1>2. CASE r # Main
  <2>1. r \in TenantNames
    BY <1>2 DEF Runners
  <2>2. Module(r) \in TenantModules
    BY <2>1, WorkerModule DEF TypeOK
  <2> QED BY <2>1, <2>2 DEF StateKey, StateKeys, TenantModules
<1> QED BY <1>1, <1>2

(* The position a plan goes on from is that of a wanted module. *)
LEMMA PositionWanted ==
  ASSUME NEW r \in Runners, NEW i \in 1..(Len(Plan(r)) + 1), NEW done, NEW tenantSet,
         Position(r, i, done, tenantSet) \in 1..Len(Plan(r))
  PROVE  Wanted(Plan(r)[Position(r, i, done, tenantSet)])
<1> DEFINE open == { j \in i..Len(Plan(r)) : Attempts(Plan(r)[j], done, tenantSet) }
<1>0. Len(Plan(r)) \in Nat \ {0}
  BY PlanOf
<1>1. Position(r, i, done, tenantSet) =
        IF open = {} THEN Len(Plan(r)) + 1
        ELSE CHOOSE j \in open : \A k \in open : j <= k
  BY DEF Position
<1>2. open # {}
  BY <1>0, <1>1
<1>3. open \in SUBSET Nat
  BY <1>0
<1>4. \E j \in open : \A k \in open : j <= k
  BY <1>2, <1>3, LeastElement
<1>5. Position(r, i, done, tenantSet) \in open
  BY <1>1, <1>2, <1>4
<1> QED BY <1>5 DEF Attempts

-----------------------------------------------------------------------------
(* Nothing is newer than the refresh, and data is not taken back. *)

LEMMA SetTenantsEffect ==
  ASSUME TypeOK, NEW next, SetTenants(next)
  PROVE  /\ tenants' = next
         /\ \A k \in RowKeys : rows'[k] = IF k[2] \in tenants \ next THEN 0 ELSE rows[k]
         /\ \A k \in StateKeys :
              st'[k].lastOk = IF k[2] \in tenants \ next THEN 0 ELSE st[k].lastOk
BY DEF SetTenants, NoState

LEMMA StaleEffect ==
  ASSUME TypeOK, NEW key \in StateKeys, GoStale(key)
  PROVE  \A k \in StateKeys : st'[k].lastOk = st[k].lastOk
BY DEF GoStale, TypeOK, Record

LEMMA FailureEffect ==
  ASSUME TypeOK, NEW r \in Runners, RecordFailure(r)
  PROVE  \A k \in StateKeys : st'[k].lastOk = st[k].lastOk
BY DEF RecordFailure, TypeOK, Record

LEMMA SuccessEffect ==
  ASSUME TypeOK, NEW r \in Runners, RecordSuccess(r)
  PROVE  \A k \in StateKeys :
           st'[k].lastOk = IF k = StateKey(Module(r), r) THEN cycle ELSE st[k].lastOk
BY DEF RecordSuccess, Succeeded, TypeOK, Record

(* The ways a step treats the data: tenants are replaced, one module or the *)
(* series of the service engines are rendered, a success is recorded, or    *)
(* data and successes stay.                                                 *)
Retargets(next) ==
  /\ next \in SUBSET TenantNames
  /\ SetTenants(next)

Keeps ==
  /\ UNCHANGED <<tenants, rows>>
  /\ \A k \in StateKeys : st'[k].lastOk = st[k].lastOk

LEMMA Effects ==
  ASSUME TypeOK, [Next]_vars
  PROVE  \/ Begin
         \/ /\ cycle' = cycle
            /\ \/ Keeps
               \/ Fallback /\ \E next : Retargets(next)
               \/ \E r \in Runners :
                    \/ Render(r)
                    \/ RecordSuccess(r)
<1>1. CASE Begin
  BY <1>1
<1>2. CASE Fallback
  <2>1. CASE UNCHANGED <<tenants, st, rows, up>>
    BY <1>2, <2>1 DEF Fallback, Keeps
  <2>2. CASE SetTenants(StaticTenants)
    BY <1>2, <2>2, StaticTenantsType DEF Fallback, Retargets
  <2> QED BY <1>2, <2>1, <2>2 DEF Fallback
<1>3. CASE Launch \/ Join \/ Cancel \/ UNCHANGED vars
  BY <1>3 DEF Launch, Join, Cancel, vars, Keeps
<1>4. ASSUME NEW t \in TenantNames, WorkerStep(t) PROVE Keeps /\ cycle' = cycle
  BY <1>4 DEF WorkerStep, Enter, EnterLate, Acquire, GiveUp, Skip, Finish, Keeps
<1>5. ASSUME NEW r \in Runners, Fetch(r) \/ RecordFailure(r)
      PROVE  Keeps /\ cycle' = cycle
  BY <1>5, FailureEffect DEF Fetch, RecordFailure, Keeps
<1>6. ASSUME NEW r \in Runners, Render(r) \/ RecordSuccess(r) PROVE cycle' = cycle
  BY <1>6 DEF Render, RecordSuccess
<1>7. ASSUME NEW k \in StateKeys, GoStale(k) PROVE Keeps /\ cycle' = cycle
  BY <1>7, StaleEffect DEF GoStale, Keeps
<1> QED
  BY <1>1, <1>2, <1>3, <1>4, <1>5, <1>6, <1>7
  DEF Next, Progress, MainStep, ModuleStep, Rest

\* What Begin does to the data: nothing, or what a static configuration drops.
LEMMA BeginEffect ==
  ASSUME TypeOK, Begin
  PROVE  /\ cycle' = cycle + 1 /\ cycle \in Nat
         /\ UNCHANGED <<tenants, st, rows>> \/ Retargets(StaticTenants)
BY StaticTenantsType, CacheAssumption DEF Begin, Retargets, TypeOK

\* What Render does to the data.
LEMMA RenderEffect ==
  ASSUME TypeOK, NEW r \in Runners, Render(r)
  PROVE  /\ UNCHANGED at /\ Module(r)' = Module(r)
         /\ pc[r] = "render" /\ pc' = [pc EXCEPT ![r] = "recordOk"]
         /\ \/ Module(r) = "tenant_discovery" /\ Retargets(targets)
            \/ /\ Module(r) \in OwnerLabelled
               /\ UNCHANGED <<tenants, st>>
               /\ \A k \in RowKeys :
                    rows'[k] = rows[k] \/ (k[1] \in OwnerLabelled /\ rows'[k] \in {0, cycle})
            \/ /\ Module(r) \notin OwnerLabelled \union {"tenant_discovery"}
               /\ UNCHANGED <<tenants, st>>
               /\ rows' = [rows EXCEPT ![Target(r)] = cycle]
<1>1. UNCHANGED at /\ Module(r)' = Module(r) /\ pc[r] = "render"
      /\ pc' = [pc EXCEPT ![r] = "recordOk"]
  BY DEF Render, Module, Plan
<1>2. CASE Module(r) = "tenant_discovery" /\ SetTenants(targets)
  BY <1>1, <1>2 DEF Retargets, TypeOK
<1>3. CASE /\ Module(r) \in OwnerLabelled /\ RenderOwned(Module(r))
           /\ UNCHANGED <<tenants, st, up>>
  <2>1. \A k \in RowKeys :
          rows'[k] = rows[k] \/ (k[1] \in OwnerLabelled /\ rows'[k] \in {0, cycle})
    <3>1. PICK owners \in SUBSET TenantNames :
            rows' = [k \in RowKeys |->
                       IF k[1] # Module(r) THEN rows[k]
                       ELSE IF k[2] \in owners THEN cycle ELSE 0]
      BY <1>3 DEF RenderOwned
    <3>2. ASSUME NEW k \in RowKeys
          PROVE  rows'[k] = IF k[1] # Module(r) THEN rows[k]
                            ELSE IF k[2] \in owners THEN cycle ELSE 0
      BY <3>1
    <3> QED BY <1>3, <3>2
  <2> QED BY <1>1, <1>3, <2>1
<1>4. CASE /\ Module(r) \notin OwnerLabelled \union {"tenant_discovery"}
           /\ rows' = [rows EXCEPT ![Target(r)] = cycle]
           /\ UNCHANGED <<tenants, st, up>>
  BY <1>1, <1>4
<1> QED BY <1>1, <1>2, <1>3, <1>4 DEF Render, Target

LEMMA NextBounded == TypeOK /\ Bounded /\ [Next]_vars => Bounded'
<1> SUFFICES ASSUME TypeOK, Bounded, [Next]_vars PROVE Bounded'
  OBVIOUS
<1>0. cycle \in Nat
  BY CacheAssumption DEF TypeOK
<1>a. ASSUME NEW next, Retargets(next), cycle' \in {cycle, cycle + 1} PROVE Bounded'
  <2>1. /\ \A k \in RowKeys : rows'[k] \in {0, rows[k]}
        /\ \A k \in StateKeys : st'[k].lastOk \in {0, st[k].lastOk}
    BY <1>a, SetTenantsEffect DEF Retargets
  <2>2. /\ \A k \in RowKeys : rows[k] \in Nat
        /\ \A k \in StateKeys : st[k].lastOk \in Nat
    BY CacheAssumption DEF TypeOK, Record
  <2> QED BY <1>0, <1>a, <2>1, <2>2 DEF Bounded
<1>1. CASE Begin
  <2>1. CASE UNCHANGED <<tenants, st, rows>>
    <3>1. \A k \in RowKeys : rows[k] \in Nat
      BY CacheAssumption DEF TypeOK
    <3>2. \A k \in StateKeys : st[k].lastOk \in Nat
      BY CacheAssumption DEF TypeOK, Record
    <3> QED BY <1>0, <1>1, <2>1, <3>1, <3>2, BeginEffect DEF Bounded
  <2> QED BY <1>1, <1>a, <2>1, BeginEffect
<1>2. CASE Keeps /\ cycle' = cycle
  BY <1>2 DEF Keeps, Bounded
<1>3. ASSUME NEW next, Retargets(next), cycle' = cycle PROVE Bounded'
  BY <1>3, <1>a
<1>4. ASSUME NEW r \in Runners, Render(r), cycle' = cycle PROVE Bounded'
  <2>1. CASE Retargets(targets)
    BY <1>4, <1>a, <2>1
  <2>2. CASE UNCHANGED st /\ \A k \in RowKeys : rows'[k] \in {0, rows[k], cycle}
    BY <1>0, <1>4, <2>2 DEF Bounded
  <2>3. CASE UNCHANGED st /\ rows' = [rows EXCEPT ![Target(r)] = cycle]
    BY <1>0, <1>4, <2>3 DEF Bounded, TypeOK
  <2> QED BY <1>4, <2>1, <2>2, <2>3, RenderEffect
<1>5. ASSUME NEW r \in Runners, RecordSuccess(r), cycle' = cycle PROVE Bounded'
  <2>1. UNCHANGED rows
    BY <1>5 DEF RecordSuccess
  <2> QED BY <1>0, <1>5, <2>1, SuccessEffect DEF Bounded
<1> QED BY <1>1, <1>2, <1>3, <1>4, <1>5, Effects

\* What KeepLastGood says of one step.
LEMMA KeepStep ==
  ASSUME TypeOK, Bounded, [Next]_vars, NEW k \in RowKeys,
         k[1] \notin OwnerLabelled, rows'[k] < rows[k]
  PROVE  k[2] \in tenants \ tenants'
<1>0. cycle \in Nat /\ rows[k] \in Nat /\ rows[k] <= cycle
  BY CacheAssumption DEF TypeOK, Bounded
<1>1. ASSUME NEW next, Retargets(next) PROVE k[2] \in tenants \ tenants'
  BY <1>0, <1>1, SetTenantsEffect DEF Retargets
<1>2. rows'[k] # rows[k]
  BY <1>0
<1>3. CASE Begin
  BY <1>1, <1>2, <1>3, BeginEffect
<1>4. CASE Keeps
  BY <1>2, <1>4 DEF Keeps
<1>5. ASSUME NEW r \in Runners, Render(r) PROVE k[2] \in tenants \ tenants'
  <2>1. ~(rows' = [rows EXCEPT ![Target(r)] = cycle])
    BY <1>0, <1>2 DEF TypeOK
  <2> QED BY <1>1, <1>2, <1>5, <2>1, RenderEffect
<1>6. ASSUME NEW r \in Runners, RecordSuccess(r) PROVE FALSE
  BY <1>2, <1>6 DEF RecordSuccess
<1> QED BY <1>1, <1>3, <1>4, <1>5, <1>6, Effects

-----------------------------------------------------------------------------
(* The age shown is that of the data beside it. *)

\* Render is about to be recorded for the series of k.
LEMMA PublishingOwn ==
  ASSUME NEW k \in ServedEntries
  PROVE  Publishing(k) <=> /\ rows[k] = cycle
                           /\ \E r \in Runners : pc[r] = "recordOk" /\ Target(r) = k
BY DEF Publishing, Target

Aged(k) ==
  /\ \E w \in Writers(k) : st[w].lastOk = rows[k]
  /\ \A w \in Writers(k) : st[w].lastOk <= rows[k]

LEMMA AgeByEntry ==
  AgeMatchesData <=> \A k \in ServedEntries : Publishing(k) \/ Aged(k)
BY DEF AgeMatchesData, ServedEntries, Aged

(* A runner that a step leaves in its place, and one that is not at         *)
(* recordOk, or gets there without having rendered anything.                *)
Still(r) == pc'[r] = pc[r] /\ at'[r] = at[r]

Elsewhere(r) ==
  /\ pc[r] # "recordOk"
  /\ pc'[r] = "recordOk" => Target(r)' \notin RowKeys

LEMMA Undisturbed ==
  ASSUME Rendered, AgeMatchesData, Keeps, cycle' = cycle,
         \A r \in Runners : Still(r) \/ Elsewhere(r)
  PROVE  Rendered' /\ AgeMatchesData'
<1>1. \A r \in Runners : Still(r) => Target(r)' = Target(r) /\ Module(r)' = Module(r)
  BY DEF Still, Target, RenderedKey, Module, Plan
<1>2. Rendered'
  BY <1>1 DEF Rendered, Still, Elsewhere, Keeps
<1>3. ASSUME NEW k \in ServedEntries PROVE Publishing(k)' \/ Aged(k)'
  <2>1. CASE Publishing(k)
    <3>1. PICK r \in Runners : pc[r] = "recordOk" /\ Target(r) = k
      BY <2>1, PublishingOwn
    <3>2. pc'[r] = "recordOk" /\ Target(r)' = k
      BY <1>1, <3>1 DEF Still, Elsewhere
    <3> QED BY <2>1, <3>2 DEF Publishing, Target, Keeps
  <2>2. CASE Aged(k)
    <3>1. k \in RowKeys /\ \A w \in Writers(k) : w \in StateKeys
      BY WritersOf DEF ServedEntries
    <3> QED BY <2>2, <3>1 DEF Aged, Keeps, Writers
  <2> QED BY <2>1, <2>2, AgeByEntry
<1>4. AgeMatchesData'
  BY <1>3 DEF AgeMatchesData, ServedEntries, Aged
<1> QED BY <1>2, <1>4

(* Replacing the tenants drops an entry and its successes together.         *)
LEMMA RetargetedAges ==
  ASSUME TypeOK, AgeMatchesData,
         (\E next : Retargets(next)) \/ UNCHANGED <<tenants, st, rows>>,
         \A r \in Runners : Elsewhere(r)
  PROVE  Rendered' /\ AgeMatchesData'
<1>1. Rendered'
  BY DEF Rendered, Elsewhere
<1>2. ASSUME NEW k \in ServedEntries PROVE Aged(k)'
  <2>1. Aged(k)
    BY AgeByEntry, PublishingOwn DEF Elsewhere
  <2>2. k \in RowKeys /\ \A w \in Writers(k) : w \in StateKeys /\ w[2] = k[2]
    BY WritersOf DEF ServedEntries
  <2>3. CASE UNCHANGED <<tenants, st, rows>>
    BY <2>1, <2>3 DEF Aged, Writers
  <2>4. ASSUME NEW next, Retargets(next) PROVE Aged(k)'
    <3>1. CASE k[2] \in tenants \ next
      <4>1. rows'[k] = 0 /\ \A w \in Writers(k) : st'[w].lastOk = 0
        BY <2>2, <2>4, <3>1, SetTenantsEffect DEF Retargets
      <4>2. k \in Writers(k)
        BY WritersOf
      <4> QED BY <4>1, <4>2 DEF Aged, Writers
    <3>2. CASE k[2] \notin tenants \ next
      <4>1. rows'[k] = rows[k] /\ \A w \in Writers(k) : st'[w].lastOk = st[w].lastOk
        BY <2>2, <2>4, <3>2, SetTenantsEffect DEF Retargets
      <4> QED BY <2>1, <4>1 DEF Aged, Writers
    <3> QED BY <3>1, <3>2
  <2> QED BY <2>3, <2>4
<1>3. AgeMatchesData'
  BY <1>2 DEF AgeMatchesData, ServedEntries, Aged
<1> QED BY <1>1, <1>3

\* The steps of one runner leave the others in their place.
LEMMA OthersStay ==
  ASSUME TypeOK, NEW r \in Runners, NEW q \in Runners, q # r,
         ModuleStep(r) \/ (r \in TenantNames /\ WorkerStep(r))
  PROVE  Still(q)
BY DEF ModuleStep, Fetch, Render, RecordSuccess, RecordFailure, Continue, WorkerStep,
       Enter, EnterLate, Acquire, GiveUp, Skip, Finish, Still, TypeOK, ControlOK

\* No worker is about while the refresh itself is at work.
LEMMA MainAlone ==
  ASSUME WorkersBelong, pc[Main] # "join", NEW r \in Runners, r # Main
  PROVE  pc[r] = "idle"
BY DEF WorkersBelong, Runners

\* Where Continue leads: to an attempt, or past the plan.
LEMMA ContinueTo ==
  ASSUME TypeOK, NEW r \in Runners, NEW i \in 1..(Len(Plan(r)) + 1),
         NEW done, NEW tenantSet, Continue(r, i, done, tenantSet)
  PROVE  /\ pc'[r] # "recordOk"
         /\ \A q \in Runners : q # r => Still(q)
BY PositionRange DEF Continue, Still, TypeOK, ControlOK

\* The steps that neither render nor record a success.
LEMMA QuietStep ==
  ASSUME TypeOK, WorkersBelong, NEW r \in Runners,
         \/ Launch \/ Join \/ Cancel \/ UNCHANGED vars
         \/ \E k \in StateKeys : GoStale(k)
         \/ \E t \in TenantNames : WorkerStep(t)
         \/ \E q \in Runners : Fetch(q) \/ RecordFailure(q)
  PROVE  Still(r) \/ Elsewhere(r)
<1>0. Main \in Runners /\ TenantNames \subseteq Runners
  BY DEF Runners
<1>1. CASE Launch
  BY <1>0, <1>1, MainAlone DEF Launch, Still, Elsewhere
<1>2. CASE Join
  BY <1>0, <1>2 DEF Join, Elsewhere, Runners
<1>3. CASE Cancel \/ UNCHANGED vars \/ \E k \in StateKeys : GoStale(k)
  BY <1>3 DEF Cancel, vars, runnerVars, GoStale, Still
<1>4. ASSUME NEW t \in TenantNames, WorkerStep(t) PROVE Still(r) \/ Elsewhere(r)
  <2>1. CASE r # t
    BY <1>0, <1>4, <2>1, OthersStay
  <2>2. CASE r = t /\ Acquire(t)
    <3>1. pc'[t] # "recordOk"
      BY <1>0, <2>2, PlanOf, ContinueTo DEF Acquire
    <3> QED BY <2>2, <3>1 DEF Acquire, Elsewhere
  <2>3. CASE r = t /\ ~Acquire(t)
    BY <1>0, <1>4, <2>3
    DEF WorkerStep, Enter, EnterLate, GiveUp, Skip, Finish, Elsewhere, TypeOK, ControlOK
  <2> QED BY <2>1, <2>2, <2>3
<1>5. ASSUME NEW q \in Runners, Fetch(q) PROVE Still(r) \/ Elsewhere(r)
  <2>1. CASE r # q
    BY <1>5, <2>1, OthersStay DEF ModuleStep
  <2>2. CASE r = q
    <3>1. pc[q] = "fetch" /\ Module(q)' = Module(q)
      BY <1>5 DEF Fetch, Module, Plan
    <3>2. pc'[q] = "recordOk" => Module(q) \in Lists
      BY <1>5 DEF Fetch, TypeOK, ControlOK
    <3>3. Target(q)' = Target(q)
      BY <3>1 DEF Target, RenderedKey
    <3> QED BY <2>2, <3>1, <3>2, <3>3, NotRendered DEF Elsewhere, Target
  <2> QED BY <2>1, <2>2
<1>6. ASSUME NEW q \in Runners, RecordFailure(q) PROVE Still(r) \/ Elsewhere(r)
  <2>1. CASE r # q
    BY <1>6, <2>1, OthersStay DEF ModuleStep
  <2>2. CASE r = q
    <3>1. pc[q] = "recordErr" /\ at[q] + 1 \in 1..(Len(Plan(q)) + 1)
      BY <1>6, ModuleType DEF RecordFailure, Attempting, TypeOK
    <3>2. pc'[q] # "recordOk"
      BY <1>6, <3>1, ContinueTo DEF RecordFailure, TypeOK, ControlOK
    <3> QED BY <2>2, <3>1, <3>2 DEF Elsewhere
  <2> QED BY <2>1, <2>2
<1> QED BY <1>1, <1>2, <1>3, <1>4, <1>5, <1>6

\* The steps that replace the tenants leave no runner at recordOk, but the
\* discovery, which renders nothing.
LEMMA RetargetStep ==
  ASSUME TypeOK, WorkersBelong, NEW r \in Runners,
         \/ Begin \/ Fallback
         \/ Render(Main) /\ Module(Main) = "tenant_discovery"
  PROVE  Elsewhere(r)
<1>0. Main \in Runners
  BY DEF Runners
<1>1. CASE Begin
  <2>1. Continue(Main, 1, {}, targets') /\ pc[Main] = "idle" /\ 1 \in 1..(Len(Plan(Main)) + 1)
    BY <1>0, <1>1, PlanOf DEF Begin
  <2>2. pc'[Main] # "recordOk" /\ \A q \in Runners : q # Main => Still(q)
    BY <1>0, <2>1, ContinueTo
  <2> QED BY <2>1, <2>2, MainAlone DEF Elsewhere, Still
<1>2. CASE Fallback
  <2>1. pc[Main] = "fallback" /\ Continue(Main, at[Main] + 1, ok[Main], targets')
    BY <1>2 DEF Fallback
  <2>2. at[Main] + 1 \in 1..(Len(Plan(Main)) + 1)
    BY <1>0, <2>1, ModuleType DEF Attempting, TypeOK
  <2>3. pc'[Main] # "recordOk" /\ \A q \in Runners : q # Main => Still(q)
    BY <1>0, <2>1, <2>2, ContinueTo
  <2> QED BY <2>1, <2>3, MainAlone DEF Elsewhere, Still
<1>3. CASE Render(Main) /\ Module(Main) = "tenant_discovery"
  <2>1. pc[Main] = "render" /\ Module(Main)' = "tenant_discovery"
    BY <1>3 DEF Render, Module, Plan
  <2>2. Target(Main)' \notin RowKeys
    BY <1>0, <2>1, NotRendered DEF Target
  <2>3. \A q \in Runners : q # Main => Still(q)
    BY <1>0, <1>3, OthersStay DEF ModuleStep
  <2> QED BY <2>1, <2>2, <2>3, MainAlone DEF Elsewhere, Still
<1> QED BY <1>1, <1>2, <1>3

LEMMA RenderAges ==
  ASSUME TypeOK, WorkersBelong, Rendered, AgeMatchesData, NEW r \in Runners, Render(r)
  PROVE  Rendered' /\ AgeMatchesData'
<1>0. /\ pc[r] = "render" /\ pc'[r] = "recordOk" /\ cycle' = cycle
      /\ Module(r)' = Module(r) /\ Target(r)' = Target(r) /\ Module(r) \in Modules
  BY RenderEffect, ModuleType DEF TypeOK, ControlOK, Target, RenderedKey, Attempting, Render
<1>1. \A q \in Runners : q # r =>
        pc'[q] = pc[q] /\ Module(q)' = Module(q) /\ Target(q)' = Target(q)
  BY OthersStay DEF ModuleStep, Still, Module, Plan, Target, RenderedKey
<1>2. CASE Module(r) = "tenant_discovery" /\ Retargets(targets)
  <2>1. r = Main
    BY <1>0, <1>2, WorkerModule DEF Runners, TypeOK, Attempting
  <2> QED BY <1>2, <2>1, RetargetStep, RetargetedAges
<1>3. CASE /\ Module(r) \in OwnerLabelled /\ UNCHANGED <<tenants, st>>
           /\ \A k \in RowKeys : rows'[k] = rows[k] \/ k[1] \in OwnerLabelled
  <2>1. \A k \in ServedEntries : rows'[k] = rows[k]
    BY <1>3 DEF ServedEntries
  <2>2. ASSUME NEW q \in Runners, pc'[q] = "recordOk", Target(q)' \in RowKeys,
               Module(q)' \notin OwnerLabelled
        PROVE  rows'[Target(q)'] = cycle
    <3>1. q # r /\ pc[q] = "recordOk" /\ Target(q)' = Target(q) /\ Module(q)' = Module(q)
      BY <1>0, <1>1, <1>3, <2>2
    <3>2. Target(q) \in ServedEntries
      BY <2>2, <3>1, ModuleType, TargetServed DEF Target, TypeOK, Attempting
    <3> QED BY <2>1, <2>2, <3>1, <3>2 DEF Rendered
  <2>3. Rendered'
    BY <1>0, <2>2 DEF Rendered
  <2>4. ASSUME NEW k \in ServedEntries PROVE Publishing(k)' \/ Aged(k)'
    <3>1. CASE Publishing(k)
      <4>1. PICK q \in Runners : pc[q] = "recordOk" /\ Target(q) = k
        BY <3>1, PublishingOwn
      <4>2. pc'[q] = "recordOk" /\ Target(q)' = k
        BY <1>0, <1>1, <4>1
      <4> QED BY <1>0, <2>1, <3>1, <4>2 DEF Publishing, Target
    <3>2. CASE Aged(k)
      BY <1>3, <2>1, <3>2 DEF Aged, Writers
    <3> QED BY <3>1, <3>2, AgeByEntry
  <2> QED BY <2>3, <2>4 DEF AgeMatchesData, ServedEntries, Aged
<1>4. CASE /\ Module(r) \notin OwnerLabelled \union {"tenant_discovery"}
           /\ UNCHANGED <<tenants, st>>
           /\ rows' = [rows EXCEPT ![Target(r)] = cycle]
  <2>1. \A k \in RowKeys : rows'[k] = IF k = Target(r) THEN cycle ELSE rows[k]
    BY <1>4 DEF TypeOK
  <2>2. Rendered'
    BY <1>0, <1>1, <2>1 DEF Rendered
  <2>3. ASSUME NEW k \in ServedEntries PROVE Publishing(k)' \/ Aged(k)'
    <3>0. k \in RowKeys
      BY DEF ServedEntries
    <3>1. CASE k = Target(r)
      BY <1>0, <2>1, <3>0, <3>1 DEF Publishing, Target
    <3>2. CASE k # Target(r) /\ Publishing(k)
      <4>1. PICK q \in Runners : pc[q] = "recordOk" /\ Target(q) = k
        BY <3>2, PublishingOwn
      <4>2. pc'[q] = "recordOk" /\ Target(q)' = k
        BY <1>0, <1>1, <4>1
      <4> QED BY <1>0, <2>1, <3>0, <3>2, <4>2 DEF Publishing, Target
    <3>3. CASE k # Target(r) /\ Aged(k)
      BY <1>4, <2>1, <3>0, <3>3 DEF Aged, Writers
    <3> QED BY <3>1, <3>2, <3>3, AgeByEntry
  <2> QED BY <2>2, <2>3 DEF AgeMatchesData, ServedEntries, Aged
<1> QED BY <1>2, <1>3, <1>4, RenderEffect

\* A success recorded: the age follows the data of the series rendered.
LEMMA SuccessAges ==
  ASSUME TypeOK, Bounded, Rendered, AgeMatchesData, NEW r \in Runners, RecordSuccess(r)
  PROVE  Rendered' /\ AgeMatchesData'
<1>0. /\ pc[r] = "recordOk" /\ cycle' = cycle /\ UNCHANGED rows
      /\ Module(r) \in Modules /\ StateKey(Module(r), r) \in StateKeys
      /\ at[r] + 1 \in 1..(Len(Plan(r)) + 1)
  BY ModuleType, OwnStateKey DEF TypeOK, Attempting, RecordSuccess
<1>a. pc'[r] # "recordOk"
  BY <1>0, ContinueTo DEF RecordSuccess
<1>1. \A q \in Runners : q # r =>
        pc'[q] = pc[q] /\ Module(q)' = Module(q) /\ Target(q)' = Target(q)
  BY OthersStay DEF ModuleStep, Still, Module, Plan, Target, RenderedKey
<1>2. Rendered'
  BY <1>0, <1>a, <1>1 DEF Rendered
<1>3. ASSUME NEW k \in ServedEntries PROVE Publishing(k)' \/ Aged(k)'
  <2>0. k \in RowKeys /\ \A w \in Writers(k) : w \in StateKeys
    BY WritersOf DEF ServedEntries
  <2>1. CASE StateKey(Module(r), r) \in Writers(k)
    <3>1. k = Target(r) /\ rows[k] = cycle
      BY <1>0, <2>0, <2>1, WriterRenders DEF Rendered, Target
    <3>2. \A w \in Writers(k) :
            st'[w].lastOk = IF w = StateKey(Module(r), r) THEN cycle ELSE st[w].lastOk
      BY <2>0, SuccessEffect
    <3>3. \A w \in Writers(k) : st[w].lastOk <= cycle
      BY <2>0 DEF Bounded
    <3>4. cycle <= cycle
      BY CacheAssumption DEF TypeOK
    <3> QED BY <1>0, <2>1, <3>1, <3>2, <3>3, <3>4 DEF Aged, Writers
  <2>2. CASE StateKey(Module(r), r) \notin Writers(k)
    <3>1. \A w \in Writers(k) : st'[w].lastOk = st[w].lastOk
      BY <2>0, <2>2, SuccessEffect
    <3>2. CASE Aged(k)
      BY <1>0, <3>1, <3>2 DEF Aged, Writers
    <3>3. CASE Publishing(k)
      <4>1. PICK q \in Runners : pc[q] = "recordOk" /\ Target(q) = k
        BY <3>3, PublishingOwn
      <4>2. q # r
        <5>1. ASSUME Target(r) = k PROVE FALSE
          <6>1. Module(r) \notin OwnerLabelled
            BY <1>0, <5>1 DEF Target, RenderedKey, ServedEntries, OwnerLabelled
          <6> QED BY <1>0, <2>0, <2>2, <5>1, <6>1, TargetServed DEF Target
        <5> QED BY <4>1, <5>1
      <4>3. pc'[q] = "recordOk" /\ Target(q)' = k
        BY <1>1, <4>1, <4>2
      <4> QED BY <1>0, <3>3, <4>3 DEF Publishing, Target
    <3> QED BY <3>2, <3>3, AgeByEntry
  <2> QED BY <2>1, <2>2
<1> QED BY <1>2, <1>3 DEF AgeMatchesData, ServedEntries, Aged

LEMMA NextAges ==
  TypeOK /\ WorkersBelong /\ Bounded /\ Rendered /\ AgeMatchesData /\ [Next]_vars
    => Rendered' /\ AgeMatchesData'
<1> SUFFICES ASSUME TypeOK, WorkersBelong, Bounded, Rendered, AgeMatchesData, [Next]_vars
             PROVE  Rendered' /\ AgeMatchesData'
  OBVIOUS
<1>1. CASE Begin \/ Fallback
  <2>1. (\E next : Retargets(next)) \/ UNCHANGED <<tenants, st, rows>>
    BY <1>1, BeginEffect, StaticTenantsType DEF Fallback, Retargets
  <2> QED BY <1>1, <2>1, RetargetStep, RetargetedAges
<1>2. ASSUME NEW r \in Runners, Render(r) PROVE Rendered' /\ AgeMatchesData'
  BY <1>2, RenderAges
<1>3. ASSUME NEW r \in Runners, RecordSuccess(r) PROVE Rendered' /\ AgeMatchesData'
  BY <1>3, SuccessAges
<1>4. CASE /\ ~Begin /\ ~Fallback
           /\ \A r \in Runners : ~Render(r) /\ ~RecordSuccess(r)
  <2>1. Keeps /\ cycle' = cycle
    BY <1>4, Effects
  <2>2. ASSUME NEW r \in Runners PROVE Still(r) \/ Elsewhere(r)
    <3>1. \/ Launch \/ Join \/ Cancel \/ UNCHANGED vars
          \/ \E k \in StateKeys : GoStale(k)
          \/ \E t \in TenantNames : WorkerStep(t)
          \/ \E q \in Runners : Fetch(q) \/ RecordFailure(q)
      BY <1>4 DEF Next, Progress, MainStep, ModuleStep, Rest
    <3> QED BY <3>1, QuietStep
  <2> QED BY <2>1, <2>2, Undisturbed
<1> QED BY <1>1, <1>2, <1>3, <1>4

-----------------------------------------------------------------------------
(* A static configuration keeps to its tenants. *)

\* Wherever Continue leads, a module attempted is one that is wanted.
LEMMA ContinueChosen ==
  ASSUME TypeOK, Chosen, NEW r \in Runners, NEW i \in 1..(Len(Plan(r)) + 1),
         NEW done, NEW tenantSet, Continue(r, i, done, tenantSet), NEW q \in Runners,
         pc'[q] \in Attempting
  PROVE  Wanted(Module(q)')
<1>1. CASE q = r
  <2> DEFINE p == Position(r, i, done, tenantSet)
  <2>1. at'[r] = p /\ pc'[r] = Control(r, p)
    BY DEF Continue, TypeOK, ControlOK
  <2>2. p \in 1..Len(Plan(r))
    BY <1>1, <2>1, PositionRange DEF Control, Attempting
  <2>3. Wanted(Plan(r)[p])
    BY <2>2, PositionWanted
  <2>4. Module(r)' = Plan(r)[p]
    BY <2>1 DEF Module, Plan
  <2> QED BY <1>1, <2>3, <2>4
<1>2. CASE q # r
  BY <1>2, ContinueTo DEF Still, Chosen, Module, Plan
<1> QED BY <1>1, <1>2

\* A runner that goes on attempting does so at the same module.
LEMMA StaysChosen ==
  ASSUME Chosen, NEW q \in Runners, pc'[q] \in Attempting,
         pc[q] \in Attempting, at'[q] = at[q]
  PROVE  Wanted(Module(q)')
BY DEF Chosen, Module, Plan

LEMMA NextWanted ==
  ASSUME TypeOK, WorkersBelong, Chosen, [Next]_vars, NEW q \in Runners,
         pc'[q] \in Attempting
  PROVE  Wanted(Module(q)')
<1>0. Main \in Runners /\ TenantNames \subseteq Runners
  BY DEF Runners
<1>1. CASE Begin
  <2>1. Continue(Main, 1, {}, targets') /\ 1 \in 1..(Len(Plan(Main)) + 1)
    BY <1>0, <1>1, PlanOf DEF Begin
  <2> QED BY <1>0, <2>1, ContinueChosen
<1>2. CASE Fallback
  <2>1. /\ Continue(Main, at[Main] + 1, ok[Main], targets')
        /\ at[Main] + 1 \in 1..(Len(Plan(Main)) + 1)
    BY <1>0, <1>2, ModuleType DEF Fallback, Attempting, TypeOK
  <2> QED BY <1>0, <2>1, ContinueChosen
<1>3. CASE Launch
  <2>1. pc'[q] = pc[q] /\ at'[q] = at[q]
    BY <1>3 DEF Launch, Attempting
  <2> QED BY <2>1, StaysChosen
<1>4. CASE Join
  BY <1>4 DEF Join, Attempting
<1>5. CASE Cancel \/ UNCHANGED vars \/ \E k \in StateKeys : GoStale(k)
  BY <1>5, StaysChosen DEF Cancel, vars, runnerVars, GoStale
<1>6. ASSUME NEW t \in TenantNames, WorkerStep(t) PROVE Wanted(Module(q)')
  <2>1. CASE Acquire(t)
    BY <1>0, <2>1, PlanOf, ContinueChosen DEF Acquire
  <2>2. CASE ~Acquire(t)
    <3>1. q # t
      BY <1>0, <1>6, <2>2
      DEF WorkerStep, Enter, EnterLate, GiveUp, Skip, Finish, TypeOK, ControlOK, Attempting
    <3>2. pc'[q] = pc[q] /\ at'[q] = at[q]
      BY <1>0, <1>6, <3>1, OthersStay DEF Still
    <3> QED BY <3>2, StaysChosen
  <2> QED BY <2>1, <2>2
<1>7. ASSUME NEW r \in Runners, ModuleStep(r) PROVE Wanted(Module(q)')
  <2>1. CASE q # r
    <3>1. pc'[q] = pc[q] /\ at'[q] = at[q]
      BY <1>7, <2>1, OthersStay DEF Still
    <3> QED BY <3>1, StaysChosen
  <2>2. CASE q = r /\ (Fetch(r) \/ Render(r))
    BY <2>2, StaysChosen DEF Fetch, Render, Attempting
  <2>3. CASE q = r /\ (RecordSuccess(r) \/ RecordFailure(r))
    <3>1. pc[r] \in Attempting /\ at[r] + 1 \in 1..(Len(Plan(r)) + 1)
      BY <2>3, ModuleType DEF RecordSuccess, RecordFailure, Attempting, TypeOK
    <3>2. CASE UNCHANGED at
      BY <2>3, <3>1, <3>2, StaysChosen
    <3>3. CASE \E done, tenantSet : Continue(r, at[r] + 1, done, tenantSet)
      BY <2>3, <3>1, <3>3, ContinueChosen
    <3> QED BY <2>3, <3>2, <3>3 DEF RecordSuccess, RecordFailure
  <2> QED BY <1>7, <2>1, <2>2, <2>3 DEF ModuleStep
<1> QED
  BY <1>1, <1>2, <1>3, <1>4, <1>5, <1>6, <1>7 DEF Next, Progress, MainStep, Rest

LEMMA NextChosen == TypeOK /\ WorkersBelong /\ Chosen /\ [Next]_vars => Chosen'
<1> SUFFICES ASSUME TypeOK, WorkersBelong, Chosen, [Next]_vars PROVE Chosen'
  OBVIOUS
<1>1. \A q \in Runners : pc'[q] \in Attempting => Wanted(Module(q)')
  BY NextWanted
<1>2. ASSUME ~Wildcard, NEW r \in Runners, Render(r) PROVE UNCHANGED tenants
  <2>1. Module(r) # "tenant_discovery"
    <3>1. Wanted(Module(r))
      BY <1>2, RenderEffect DEF Chosen, Attempting
    <3>2. Wanted("tenant_discovery") => Wildcard
      BY DEF Wanted, Lists
    <3> QED BY <1>2, <3>1, <3>2
  <2> QED BY <1>2, <2>1 DEF Render
<1>3. ~Wildcard => tenants' \subseteq StaticTenants
  <2>1. CASE Begin
    BY <2>1 DEF Begin, SetTenants, Chosen
  <2>2. CASE Fallback
    BY <2>2 DEF Fallback, SetTenants, Chosen
  <2>3. ASSUME NEW r \in Runners, RecordSuccess(r) PROVE UNCHANGED tenants
    BY <2>3 DEF RecordSuccess
  <2> QED BY <1>2, <2>1, <2>2, <2>3, Effects DEF Keeps, Chosen
<1> QED BY <1>1, <1>3 DEF Chosen

-----------------------------------------------------------------------------
LEMMA InitCache == Init => CacheInv
<1> SUFFICES ASSUME Init PROVE CacheInv
  OBVIOUS
<1>1. \A k \in ServedEntries : k \in Writers(k) /\ Writers(k) \subseteq StateKeys
  BY WritersOf
<1>2. AgeMatchesData
  <2>1. \A k \in ServedEntries : Aged(k)
    BY <1>1 DEF Init, Aged, NoState, ServedEntries
  <2> QED BY <2>1, AgeByEntry
<1>3. Bounded /\ Rendered /\ Chosen
  BY DEF Init, Bounded, Rendered, Chosen, NoState, Attempting
<1> QED BY <1>2, <1>3, InitType, InitBelongs DEF CacheInv

LEMMA CacheInvariance == Spec => []CacheInv
<1>1. CacheInv /\ [Next]_vars => CacheInv'
  BY NextType, NextBelongs, NextBounded, NextAges, NextChosen DEF CacheInv
<1> QED BY <1>1, InitCache, PTL DEF Spec

(* The series a scrape reads were fetched by the refresh their module's last *)
(* success names, or by the running one whose success is about to be         *)
(* recorded: runModule gives back cacheMu in between.                        *)
THEOREM AgeIsThatOfTheData == Spec => []AgeMatchesData
<1>1. CacheInv => AgeMatchesData
  BY DEF CacheInv
<1> QED BY <1>1, CacheInvariance, PTL

(* No failed attempt, cancelled refresh or new refresh takes data back; only *)
(* losing its tenant does (the deletions are all followed by a rewrite under *)
(* the same hold of cacheMu, but those of setTenantsLocked).                 *)
THEOREM LastGoodKept == Spec => KeepLastGood
<1>1. CacheInv /\ [Next]_vars =>
        [\A k \in RowKeys :
           k[1] \notin OwnerLabelled /\ rows'[k] < rows[k]
             => k[2] \in tenants \ tenants']_vars
  BY KeepStep DEF CacheInv
<1> QED BY <1>1, CacheInvariance, PTL DEF Spec, KeepLastGood

-----------------------------------------------------------------------------
(* The cache keeps the promise of ServedCache. *)

\* The age of an entry is the latest success among its writers.
Latest(k, n) ==
  /\ \E w \in Writers(k) : st[w].lastOk = n
  /\ \A w \in Writers(k) : st[w].lastOk <= n

AgeRight(k) ==
  /\ AgeOf(k) \in Nat
  /\ \A n \in Nat : Latest(k, n) <=> n = AgeOf(k)

LEMMA AgeOfEntry == TypeOK => \A k \in ServedEntries : AgeRight(k)
<1> SUFFICES ASSUME TypeOK, NEW k \in ServedEntries PROVE AgeRight(k)
  OBVIOUS
<1>0. MaxCycle \in Nat
  BY CacheAssumption
<1>1. \A w \in Writers(k) : st[w].lastOk \in 0..MaxCycle
  BY WritersOf DEF TypeOK, Record
<1>2. \E n \in 0..MaxCycle : Latest(k, n)
  <2>1. CASE Writers(k) = {k}
    BY <1>0, <1>1, <2>1 DEF Latest
  <2>2. ASSUME NEW w, Writers(k) = {k, w} PROVE \E n \in 0..MaxCycle : Latest(k, n)
    <3>1. st[k].lastOk \in 0..MaxCycle /\ st[w].lastOk \in 0..MaxCycle
      BY <1>1, <2>2
    <3>2. CASE st[w].lastOk <= st[k].lastOk
      BY <1>0, <2>2, <3>1, <3>2 DEF Latest
    <3>3. CASE st[k].lastOk <= st[w].lastOk
      BY <1>0, <2>2, <3>1, <3>3 DEF Latest
    <3> QED BY <1>0, <3>1, <3>2, <3>3
  <2>3. Writers(k) = {k} \/ \E w : Writers(k) = {k, w}
    BY DEF Writers
  <2> QED BY <2>1, <2>2, <2>3
<1>3. AgeOf(k) = CHOOSE n \in 0..MaxCycle : Latest(k, n)
  BY DEF AgeOf, Latest
<1>4. AgeOf(k) \in 0..MaxCycle /\ Latest(k, AgeOf(k))
  BY <1>2, <1>3
<1>5. ASSUME NEW n \in Nat, Latest(k, n) PROVE n = AgeOf(k)
  <2>1. n \in 0..MaxCycle /\ n <= AgeOf(k)
    BY <1>1, <1>4, <1>5 DEF Latest
  <2>2. AgeOf(k) <= n
    BY <1>4, <1>5 DEF Latest
  <2> QED BY <1>0, <1>4, <2>1, <2>2
<1>6. AgeOf(k) \in Nat
  BY <1>0, <1>4
<1> QED BY <1>4, <1>5, <1>6 DEF AgeRight

\* The same of the next state.
LEMMA AgeOfEntryNext == TypeOK' => \A k \in ServedEntries : AgeRight(k)'
<1>1. (TypeOK => \A k \in ServedEntries : AgeRight(k))'
  BY AgeOfEntry, PTL
<1> QED BY <1>1

\* An entry has the age of n when n is its latest success in the next state.
LEMMA AgeBecomes ==
  ASSUME TypeOK', NEW k \in ServedEntries, NEW n \in Nat, Latest(k, n)'
  PROVE  AgeOf(k)' = n
BY AgeOfEntryNext DEF AgeRight

LEMMA AgeStays ==
  ASSUME TypeOK, TypeOK', NEW k \in ServedEntries,
         \A w \in Writers(k) : st'[w].lastOk = st[w].lastOk
  PROVE  AgeOf(k)' = AgeOf(k)
<1>1. PICK n \in Nat : n = AgeOf(k)
  BY AgeOfEntry DEF AgeRight
<1>2. Latest(k, n)
  BY <1>1, AgeOfEntry DEF AgeRight
<1>3. Latest(k, n)'
  BY <1>2 DEF Latest, Writers
<1> QED BY <1>1, <1>3, AgeBecomes

\* What a scrape sees stays as it is.
LEMMA ServedStays ==
  ASSUME TypeOK, TypeOK', UNCHANGED <<cycle, tenants>>,
         \A k \in ServedEntries : rows'[k] = rows[k],
         \A k \in ServedEntries : \A w \in Writers(k) : st'[w].lastOk = st[w].lastOk
  PROVE  UNCHANGED Served!served
<1>1. \A k \in ServedEntries : AgeOf(k)' = AgeOf(k)
  BY AgeStays
<1> QED BY <1>1 DEF Served!served

\* Replacing the tenants is Retarget; it takes entry and age together.
LEMMA ServedRetarget ==
  ASSUME TypeOK, TypeOK', NEW next, Retargets(next), cycle' = cycle
  PROVE  Served!Retarget
<1> DEFINE gone == tenants \ next
<1>1. ASSUME NEW k \in ServedEntries
      PROVE  /\ rows'[k] = IF k[2] \in gone THEN 0 ELSE rows[k]
             /\ AgeOf(k)' = IF k[2] \in gone THEN 0 ELSE AgeOf(k)
  <2>1. k \in RowKeys /\ k \in Writers(k)
        /\ \A w \in Writers(k) : w \in StateKeys /\ w[2] = k[2]
    BY WritersOf DEF ServedEntries
  <2>2. CASE k[2] \in gone
    <3>1. rows'[k] = 0 /\ \A w \in Writers(k) : st'[w].lastOk = 0
      BY <2>1, <2>2, SetTenantsEffect DEF Retargets
    <3>2. Latest(k, 0)'
      BY <2>1, <3>1 DEF Latest, Writers
    <3> QED BY <2>2, <3>1, <3>2, AgeBecomes
  <2>3. CASE k[2] \notin gone
    <3>1. rows'[k] = rows[k] /\ \A w \in Writers(k) : st'[w].lastOk = st[w].lastOk
      BY <2>1, <2>3, SetTenantsEffect DEF Retargets
    <3> QED BY <2>3, <3>1, AgeStays
  <2> QED BY <2>2, <2>3
<1>2. tenants' = next /\ next \in SUBSET TenantNames
  BY SetTenantsEffect DEF Retargets
<1>3. [k \in ServedEntries |-> rows[k]]' =
        [k \in ServedEntries |-> IF k[2] \in gone THEN 0 ELSE rows[k]]
  BY <1>1
<1>4. [k \in ServedEntries |-> AgeOf(k)]' =
        [k \in ServedEntries |-> IF k[2] \in gone THEN 0 ELSE AgeOf(k)]
  BY <1>1
<1> QED BY <1>2, <1>3, <1>4 DEF Served!Retarget

\* A static configuration drops no tenant when a refresh begins.
LEMMA ServedBegin ==
  ASSUME CacheInv, CacheInv', Begin
  PROVE  Served!StartRefresh
<1>1. /\ cycle' = cycle + 1 /\ tenants \subseteq tenants' /\ tenants' \subseteq TenantNames
      /\ \A k \in RowKeys : rows'[k] = rows[k]
      /\ \A k \in StateKeys : st'[k].lastOk = st[k].lastOk
  <2>1. CASE Wildcard
    BY <2>1 DEF Begin, CacheInv, TypeOK
  <2>2. CASE ~Wildcard
    <3>1. tenants \ StaticTenants = {} /\ SetTenants(StaticTenants) /\ cycle' = cycle + 1
      BY <2>2 DEF Begin, CacheInv, Chosen
    <3> QED BY <3>1, SetTenantsEffect, StaticTenantsType DEF CacheInv
  <2> QED BY <2>1, <2>2
<1>2. \A k \in ServedEntries : rows'[k] = rows[k]
  BY <1>1 DEF ServedEntries
<1>3. \A k \in ServedEntries : AgeOf(k)' = AgeOf(k)
  BY <1>1, WritersOf, AgeStays DEF CacheInv
<1> QED BY <1>1, <1>2, <1>3 DEF Served!StartRefresh

\* Render publishes its entry, unless it shows this refresh's data already.
LEMMA ServedRender ==
  ASSUME CacheInv, CacheInv', NEW r \in Runners, Render(r)
  PROVE  Served!Next \/ UNCHANGED Served!served
<1>0. TypeOK /\ TypeOK' /\ cycle' = cycle /\ cycle \in Nat
  BY CacheAssumption DEF CacheInv, Render, TypeOK
<1>1. CASE Retargets(targets)
  BY <1>0, <1>1, ServedRetarget DEF Served!Next
<1>2. CASE /\ UNCHANGED <<tenants, st>>
           /\ \A k \in ServedEntries : rows'[k] = rows[k]
  BY <1>0, <1>2, ServedStays
<1>3. CASE /\ Module(r) \notin OwnerLabelled /\ UNCHANGED <<tenants, st>>
           /\ rows' = [rows EXCEPT ![Target(r)] = cycle]
  <2>1. \A k \in RowKeys : rows'[k] = IF k = Target(r) THEN cycle ELSE rows[k]
    BY <1>0, <1>3 DEF TypeOK
  <2>2. CASE Target(r) \notin ServedEntries \/ rows[Target(r)] = cycle
    <3>1. \A k \in ServedEntries : rows'[k] = rows[k]
      BY <2>1, <2>2 DEF ServedEntries
    <3> QED BY <1>2, <1>3, <3>1
  <2>3. ASSUME NEW k \in ServedEntries, k = Target(r), rows[k] # cycle PROVE Served!Next
    <3>1. rows[k] < cycle
      <4>1. rows[k] \in Nat /\ rows[k] <= cycle
        BY <1>0, <2>3, CacheAssumption DEF ServedEntries, TypeOK, CacheInv, Bounded
      <4> QED BY <1>0, <2>3, <4>1
    <3>2. r = Main \/ r \in tenants
      BY <1>3 DEF CacheInv, WorkersBelong, Render, Runners
    <3>3. k[2] = Main \/ k = <<"vs_metrics", "admin">> \/ k[2] \in tenants
      BY <2>3, <3>2 DEF Target, RenderedKey
    <3>4. \A e \in ServedEntries : AgeOf(e)' = AgeOf(e)
      BY <1>0, <1>3, AgeStays
    <3>5. [e \in ServedEntries |-> rows[e]]' =
            [[e \in ServedEntries |-> rows[e]] EXCEPT ![k] = cycle]
      BY <2>1, <2>3 DEF ServedEntries
    <3>6. [e \in ServedEntries |-> AgeOf(e)]' = [e \in ServedEntries |-> AgeOf(e)]
      BY <3>4
    <3>7. Served!Publish(k)
      BY <1>0, <1>3, <2>3, <3>1, <3>3, <3>5, <3>6 DEF Served!Publish, Served!Shown
    <3> QED BY <2>3, <3>7 DEF Served!Next
  <2> QED BY <2>2, <2>3
<1> QED BY <1>0, <1>1, <1>2, <1>3, RenderEffect DEF ServedEntries

\* A recorded success acknowledges the entry it rendered.
LEMMA ServedSuccess ==
  ASSUME CacheInv, CacheInv', NEW r \in Runners, RecordSuccess(r)
  PROVE  Served!Next \/ UNCHANGED Served!served
<1> DEFINE key == StateKey(Module(r), r)
<1>0. /\ TypeOK /\ TypeOK' /\ UNCHANGED <<cycle, tenants, rows>> /\ cycle \in Nat
      /\ Module(r) \in Modules /\ pc[r] = "recordOk"
  BY CacheAssumption, ModuleType DEF CacheInv, RecordSuccess, TypeOK, Attempting
<1>1. \A k \in ServedEntries : \A w \in Writers(k) :
        st'[w].lastOk = IF w = key THEN cycle ELSE st[w].lastOk
  BY <1>0, WritersOf, SuccessEffect
<1>2. \A k \in ServedEntries : key \in Writers(k) => k = Target(r) /\ rows[k] = cycle
  BY <1>0, WriterRenders DEF Target, ServedEntries, CacheInv, Rendered
<1>3. \A k \in ServedEntries : key \notin Writers(k) => AgeOf(k)' = AgeOf(k)
  BY <1>0, <1>1, AgeStays
<1>4. CASE \A k \in ServedEntries : key \notin Writers(k)
  BY <1>0, <1>3, <1>4 DEF Served!served
<1>5. ASSUME NEW k \in ServedEntries, key \in Writers(k)
      PROVE  Served!Next \/ UNCHANGED Served!served
  <2>1. \A w \in Writers(k) : st[w].lastOk \in Nat /\ st[w].lastOk <= cycle
    BY <1>0, WritersOf, CacheAssumption DEF CacheInv, Bounded, TypeOK, Record
  <2>2. Latest(k, cycle)'
    <3>1. cycle <= cycle
      BY <1>0
    <3> QED BY <1>0, <1>1, <1>5, <2>1, <3>1 DEF Latest, Writers
  <2>3. AgeOf(k)' = cycle
    BY <1>0, <2>2, AgeBecomes
  <2>4. AgeOf(k) \in Nat /\ AgeOf(k) <= cycle
    <3>1. AgeOf(k) \in Nat /\ Latest(k, AgeOf(k))
      BY <1>0, AgeOfEntry DEF AgeRight
    <3> QED BY <2>1, <3>1 DEF Latest
  <2>5. \A e \in ServedEntries : e # k => AgeOf(e)' = AgeOf(e)
    BY <1>2, <1>3, <1>5
  <2>6. [e \in ServedEntries |-> AgeOf(e)]' =
          [[e \in ServedEntries |-> AgeOf(e)] EXCEPT ![k] = cycle]
    BY <2>3, <2>5
  <2>7. CASE AgeOf(k) = cycle
    <3>1. \A e \in ServedEntries : AgeOf(e)' = AgeOf(e)
      BY <2>3, <2>5, <2>7
    <3> QED BY <1>0, <3>1 DEF Served!served
  <2>8. CASE AgeOf(k) < cycle
    <3>1. rows[k] = cycle
      BY <1>2, <1>5
    <3>2. Served!Acknowledge(k)
      BY <1>0, <1>5, <2>6, <2>8, <3>1 DEF Served!Acknowledge
    <3> QED BY <3>2 DEF Served!Next
  <2> QED BY <1>0, <2>4, <2>7, <2>8
<1> QED BY <1>4, <1>5

LEMMA ServedStep ==
  ASSUME CacheInv, CacheInv', [Next]_vars
  PROVE  Served!Next \/ UNCHANGED Served!served
<1>0. TypeOK /\ TypeOK'
  BY DEF CacheInv
<1>1. CASE Begin
  BY <1>1, ServedBegin DEF Served!Next
<1>2. CASE Keeps /\ cycle' = cycle
  <2>1. \A k \in ServedEntries : \A w \in Writers(k) : st'[w].lastOk = st[w].lastOk
    BY <1>2, WritersOf DEF Keeps
  <2> QED BY <1>0, <1>2, <2>1, ServedStays DEF Keeps
<1>3. ASSUME NEW next, Retargets(next), cycle' = cycle PROVE Served!Next
  BY <1>0, <1>3, ServedRetarget DEF Served!Next
<1>4. ASSUME NEW r \in Runners, Render(r) PROVE Served!Next \/ UNCHANGED Served!served
  BY <1>4, ServedRender
<1>5. ASSUME NEW r \in Runners, RecordSuccess(r)
      PROVE  Served!Next \/ UNCHANGED Served!served
  BY <1>5, ServedSuccess
<1> QED BY <1>0, <1>1, <1>2, <1>3, <1>4, <1>5, Effects

LEMMA ServedInit == Init => Served!Init
<1> SUFFICES ASSUME Init PROVE Served!Init
  OBVIOUS
<1>1. TypeOK
  BY InitType
<1>2. \A k \in ServedEntries : AgeOf(k) = 0
  <2>1. \A k \in ServedEntries : Latest(k, 0)
    BY WritersOf DEF Init, Latest, NoState
  <2> QED BY <1>1, <2>1, AgeOfEntry DEF AgeRight
<1> QED BY <1>2 DEF Init, Served!Init, ServedEntries

(* The refreshing cache implements ServedCache: whatever workers, failures,  *)
(* cancellations and discoveries do, entries are replaced as a whole by the  *)
(* data of the running refresh, acknowledged only after that, and disappear  *)
(* only with their tenant.                                                   *)
THEOREM CacheServesSnapshots == Spec => ServesSnapshots
<1>1. CacheInv /\ CacheInv' /\ [Next]_vars => [Served!Next]_Served!served
  BY ServedStep
<1> QED BY <1>1, ServedInit, CacheInvariance, PTL DEF Spec, ServesSnapshots, Served!Spec

-----------------------------------------------------------------------------
(***************************************************************************)
(* What the cache says of its refreshes: what a positive answer of         *)
(* /readyz, a redrawn topology, avi_up = 1 and a nil result of RefreshOnce *)
(* mean.                                                                   *)
(***************************************************************************)

(* A state is fresh only after a success, which has a refresh.              *)
Counted ==
  /\ \A k \in StateKeys : st[k].fresh => st[k].lastOk > 0
  /\ pc[Main] # "idle" => cycle > 0

(* What a worker has done is in the states of its modules, and between      *)
(* refreshes workers have done nothing.                                     *)
DoneByWorkers ==
  \A t \in TenantNames :
    /\ pc[t] = "idle" => ok[t] = {}
    /\ \A m \in ok[t] : m \in TenantModules /\ st[<<m, t>>].lastOk = cycle

(* The topology is rendered with all of its inputs fetched in this refresh. *)
Drawing ==
  \A t \in TenantNames :
    pc[t] \in {"render", "recordOk"} /\ Module(t) = "topology"
      => TopologyInputs \subseteq ok[t]

TopologyBacked ==
  \A t \in TenantNames, m \in TopologyInputs :
    rows[<<"topology", t>>] <= st[<<m, t>>].lastOk

-----------------------------------------------------------------------------
LEMMA NextCounted == TypeOK /\ WorkersBelong /\ Counted /\ [Next]_vars => Counted'
<1> SUFFICES ASSUME TypeOK, WorkersBelong, Counted, [Next]_vars PROVE Counted'
  OBVIOUS
<1>0. cycle \in Nat /\ \A r \in Runners : pc[r] # "idle" => cycle > 0
  BY CacheAssumption DEF TypeOK, Counted, WorkersBelong, Runners
<1>1. cycle' \in {cycle, cycle + 1} /\ (cycle' = cycle \/ Begin)
  BY Effects DEF Begin
<1>2. pc'[Main] # "idle" => cycle' > 0
  <2>1. CASE Begin
    BY <1>0, <2>1 DEF Begin
  <2>2. CASE ~Begin /\ pc[Main] # "idle"
    BY <1>1, <2>2 DEF Counted
  <2>3. CASE ~Begin /\ pc[Main] = "idle"
    <3>1. ASSUME NEW r \in Runners, ModuleStep(r) \/ (r \in TenantNames /\ WorkerStep(r))
          PROVE  FALSE
      <4>1. pc[r] # "idle"
        BY <3>1 DEF ModuleStep, Fetch, Render, RecordSuccess, RecordFailure,
                    WorkerStep, Enter, EnterLate, Acquire, GiveUp, Finish
      <4> QED BY <2>3, <4>1 DEF WorkersBelong, Runners
    <3>2. pc'[Main] = pc[Main]
      BY <2>3, <3>1
      DEF Next, Progress, MainStep, Rest, Fallback, Launch, Join, Cancel, GoStale,
          vars, runnerVars, Runners
    <3> QED BY <2>3, <3>2
  <2> QED BY <2>1, <2>2, <2>3
<1>3. ASSUME NEW k \in StateKeys, st'[k].fresh PROVE st'[k].lastOk > 0
  <2>1. CASE st'[k] = st[k]
    BY <1>3, <2>1 DEF Counted
  <2>2. ASSUME NEW next, SetTenants(next) PROVE st'[k] = st[k]
    BY <1>3, <2>2 DEF SetTenants, NoState
  <2>3. ASSUME NEW r \in Runners, RecordSuccess(r) PROVE st'[k].lastOk > 0
    <3>1. cycle > 0
      BY <1>0, <2>3 DEF RecordSuccess
    <3>2. st'[k] = st[k] \/ st'[k] = Succeeded
      BY <2>3 DEF RecordSuccess, TypeOK
    <3> QED BY <2>1, <3>1, <3>2 DEF Succeeded
  <2>4. ASSUME NEW r \in Runners, RecordFailure(r) PROVE st'[k].lastOk > 0
    <3>1. st'[k].fresh = st[k].fresh /\ st'[k].lastOk = st[k].lastOk
      BY <2>4 DEF RecordFailure, TypeOK, Record
    <3> QED BY <1>3, <3>1 DEF Counted
  <2>5. ASSUME NEW key \in StateKeys, GoStale(key) PROVE st'[k].lastOk > 0
    <3>1. k # key
      BY <1>3, <2>5 DEF GoStale, TypeOK, Record
    <3> QED BY <2>1, <2>5, <3>1 DEF GoStale, TypeOK
  <2>6. ASSUME NEW r \in Runners, Render(r) PROVE st'[k] = st[k]
    BY <2>2, <2>6 DEF Render
  <2>7. CASE Begin \/ Fallback
    BY <2>1, <2>2, <2>7 DEF Begin, Fallback
  <2>8. \/ UNCHANGED st \/ Begin \/ Fallback
        \/ \E r \in Runners : Render(r) \/ RecordSuccess(r) \/ RecordFailure(r)
        \/ \E key \in StateKeys : GoStale(key)
    BY DEF Next, Progress, MainStep, Rest, ModuleStep, WorkerStep, Launch, Join, Cancel,
           Fetch, Enter, EnterLate, Acquire, GiveUp, Skip, Finish, vars
  <2> QED BY <2>1, <2>3, <2>4, <2>5, <2>6, <2>7, <2>8
<1> QED BY <1>2, <1>3 DEF Counted

LEMMA PairOf ==
  ASSUME NEW A, NEW B, NEW x \in A \X B
  PROVE  x = <<x[1], x[2]>> /\ x[1] \in A /\ x[2] \in B
OBVIOUS

\* A module readiness asks for is one of those that refresh its series.
LEMMA RequiredWrites ==
  ASSUME TypeOK, NEW k \in RequiredKeys(tenants),
         RenderedKey(k[1], k[2]) \in RowKeys, k[1] \notin OwnerLabelled
  PROVE  /\ k \in StateKeys
         /\ RenderedKey(k[1], k[2]) \in ServedEntries
         /\ k \in Writers(RenderedKey(k[1], k[2]))
<1>1. ExpectedTenants(tenants) \subseteq TenantNames
  BY StaticTenantsType DEF ExpectedTenants, TypeOK
<1>2. CASE k \in RequiredMain \X {""}
  <2>0. k = <<k[1], Main>> /\ k[1] \in RequiredMain
    <3>1. k = <<k[1], k[2]>> /\ k[1] \in RequiredMain /\ k[2] \in {""}
      BY <1>2, PairOf
    <3> QED BY <3>1 DEF Main
  <2>1. k = <<k[1], Main>> /\ k[1] \in MainModules
    BY <2>0 DEF RequiredMain
  <2>2. k[1] # "admin_vs_metrics"
    BY <2>0 DEF RequiredMain
  <2> QED BY <2>1, <2>2 DEF StateKeys, RenderedKey, ServedEntries, Writers
<1>3. CASE k = <<"admin_vs_metrics", "admin">>
  BY <1>3 DEF StateKeys, RenderedKey, ServedEntries, Writers, OwnerLabelled
<1>4. CASE k \in RequiredPerTenant \X ExpectedTenants(tenants)
  <2>1. k = <<k[1], k[2]>> /\ k[1] \in TenantModules /\ k[2] \in TenantNames
    BY <1>1, <1>4 DEF RequiredPerTenant
  <2>2. k[1] # "admin_vs_metrics"
    BY <2>1 DEF TenantModules
  <2> QED BY <2>1, <2>2 DEF StateKeys, RenderedKey, ServedEntries, Writers
<1> QED BY <1>2, <1>3, <1>4 DEF RequiredKeys

LEMMA ReadyServed ==
  ASSUME TypeOK, WorkersBelong, AgeMatchesData, Counted
  PROVE  ReadyServesData
<1> SUFFICES ASSUME Ready, NEW k \in RequiredKeys(tenants),
                    RenderedKey(k[1], k[2]) \in RowKeys, k[1] \notin OwnerLabelled
             PROVE  rows[RenderedKey(k[1], k[2])] > 0
  BY DEF ReadyServesData
<1>1. PICK e \in ServedEntries : e = RenderedKey(k[1], k[2]) /\ k \in Writers(e)
  BY RequiredWrites
<1>2. k \in StateKeys /\ st[k].lastOk > 0 /\ st[k].lastOk \in Nat /\ rows[e] \in Nat
  BY RequiredWrites, CacheAssumption DEF Ready, Counted, TypeOK, Record, ServedEntries
<1>3. CASE Aged(e)
  BY <1>1, <1>2, <1>3 DEF Aged
<1>4. CASE Publishing(e)
  <2>1. \E r \in Runners : pc[r] = "recordOk"
    BY <1>4 DEF Publishing
  <2>2. cycle > 0
    BY <2>1 DEF Counted, WorkersBelong, Runners
  <2> QED BY <1>1, <1>4, <2>2 DEF Publishing
<1> QED BY <1>1, <1>3, <1>4, AgeByEntry

-----------------------------------------------------------------------------
(* A worker that has started ends with the refresh only, in Join.           *)
LEMMA ContinueToIdle ==
  ASSUME TypeOK, NEW r \in Runners, NEW i, NEW done, NEW tenantSet,
         Continue(r, i, done, tenantSet)
  PROVE  pc'[r] # "idle"
BY DEF Continue, Control, TypeOK, ControlOK

LEMMA ModuleToIdle ==
  ASSUME TypeOK, NEW r \in Runners, ModuleStep(r)
  PROVE  pc[r] # "idle" /\ pc'[r] # "idle"
<1>1. CASE Fetch(r) \/ Render(r)
  BY <1>1 DEF Fetch, Render, TypeOK, ControlOK
<1>2. CASE RecordSuccess(r) \/ RecordFailure(r)
  BY <1>2, ContinueToIdle DEF RecordSuccess, RecordFailure, TypeOK, ControlOK
<1> QED BY <1>1, <1>2 DEF ModuleStep

LEMMA WorkerToIdle ==
  ASSUME TypeOK, NEW t \in TenantNames, WorkerStep(t)
  PROVE  pc[t] # "idle" /\ pc'[t] # "idle"
<1>0. t \in Runners
  BY DEF Runners
<1>1. CASE Acquire(t)
  BY <1>0, <1>1, ContinueToIdle DEF Acquire
<1>2. CASE ~Acquire(t)
  BY <1>0, <1>2 DEF WorkerStep, Enter, EnterLate, GiveUp, Skip, Finish, TypeOK, ControlOK
<1> QED BY <1>1, <1>2

LEMMA ToIdle ==
  ASSUME TypeOK, WorkersBelong, [Next]_vars, ~Join, NEW t \in TenantNames, pc'[t] = "idle"
  PROVE  pc[t] = "idle"
<1>0. t \in Runners /\ t # Main /\ Main \in Runners /\ TenantNames \subseteq Runners
  BY MainIsNoTenant DEF Runners
<1>1. CASE Begin \/ Fallback
  BY <1>0, <1>1, MainAlone DEF Begin, Fallback
<1>2. CASE Launch \/ Cancel \/ UNCHANGED vars \/ \E k \in StateKeys : GoStale(k)
  BY <1>0, <1>2 DEF Launch, Cancel, vars, runnerVars, GoStale
<1>3. ASSUME NEW r \in Runners, ModuleStep(r) PROVE pc[t] = "idle"
  BY <1>0, <1>3, ModuleToIdle, OthersStay DEF Still
<1>4. ASSUME NEW q \in TenantNames, WorkerStep(q) PROVE pc[t] = "idle"
  BY <1>0, <1>4, WorkerToIdle, OthersStay DEF Still
<1> QED BY <1>1, <1>2, <1>3, <1>4 DEF Next, Progress, MainStep, Rest

(* What has been done in this refresh stays done.                           *)
LEMMA StaysDone ==
  ASSUME TypeOK, DoneByWorkers, NEW t \in TenantNames, cycle' = cycle,
         ok'[t] = ok[t], pc'[t] = "idle" => pc[t] = "idle",
         \A k \in StateKeys : st'[k].lastOk \in {st[k].lastOk, cycle}
  PROVE  /\ pc'[t] = "idle" => ok'[t] = {}
         /\ \A m \in ok'[t] : m \in TenantModules /\ st'[<<m, t>>].lastOk = cycle'
<1>1. \A m \in TenantModules : <<m, t>> \in StateKeys
  BY DEF StateKeys
<1> QED BY <1>1 DEF DoneByWorkers

LEMMA NextDone == TypeOK /\ WorkersBelong /\ DoneByWorkers /\ [Next]_vars => DoneByWorkers'
<1> SUFFICES ASSUME TypeOK, WorkersBelong, DoneByWorkers, [Next]_vars,
                    NEW t \in TenantNames
             PROVE  /\ pc'[t] = "idle" => ok'[t] = {}
                    /\ \A m \in ok'[t] : /\ m \in TenantModules
                                         /\ st'[<<m, t>>].lastOk = cycle'
  BY DEF DoneByWorkers
<1>0. t \in Runners /\ Main \in Runners /\ t # Main /\ TenantNames \subseteq Runners
  BY MainIsNoTenant DEF Runners
<1>1. CASE Begin \/ Join
  BY <1>0, <1>1 DEF Begin, Join
<1>2. CASE Fallback \/ \E r \in Runners : Render(r) /\ Module(r) = "tenant_discovery"
  <2>1. pc[t] = "idle" /\ ok' = ok
    <3>1. CASE Fallback
      BY <1>0, <3>1, MainAlone DEF Fallback
    <3>2. ASSUME NEW r \in Runners, Render(r), Module(r) = "tenant_discovery"
          PROVE  pc[t] = "idle" /\ ok' = ok
      <4>1. r = Main
        BY <3>2, WorkerModule DEF Render, Runners, TypeOK, Attempting
      <4> QED BY <1>0, <3>2, <4>1, MainAlone DEF Render
    <3> QED BY <1>2, <3>1, <3>2
  <2> QED BY <2>1 DEF DoneByWorkers
<1>3. ASSUME NEW r \in Runners, RecordSuccess(r), r = t PROVE
        \A m \in ok'[t] : m \in TenantModules /\ st'[<<m, t>>].lastOk = cycle'
  <2>1. Module(t) \in TenantModules /\ cycle' = cycle /\ ok'[t] = ok[t] \union {Module(t)}
    BY <1>0, <1>3, WorkerModule DEF RecordSuccess, TypeOK, Attempting
  <2>2. StateKey(Module(t), t) = <<Module(t), t>>
    BY <2>1 DEF StateKey, TenantModules
  <2>3. \A m \in TenantModules : <<m, t>> \in StateKeys
    BY DEF StateKeys
  <2>4. \A m \in TenantModules :
          st'[<<m, t>>].lastOk = IF m = Module(t) THEN cycle ELSE st[<<m, t>>].lastOk
    BY <1>3, <2>2, <2>3, SuccessEffect
  <2> QED BY <2>1, <2>4 DEF DoneByWorkers
<1>4. ~Join => (pc'[t] = "idle" => pc[t] = "idle")
  BY ToIdle
<1>5. ASSUME NEW r \in Runners, RecordSuccess(r)
      PROVE  /\ pc'[t] = "idle" => ok'[t] = {}
             /\ \A m \in ok'[t] : m \in TenantModules /\ st'[<<m, t>>].lastOk = cycle'
  <2>1. CASE r = t
    <3>1. pc'[t] # "idle"
      BY <1>0, <1>5, <2>1, ModuleToIdle DEF ModuleStep
    <3> QED BY <1>3, <1>5, <2>1, <3>1
  <2>2. CASE r # t
    <3>1. ok'[t] = ok[t] /\ cycle' = cycle /\ pc'[t] = pc[t]
      BY <1>0, <1>5, <2>2, OthersStay DEF RecordSuccess, TypeOK, ModuleStep, Still
    <3> QED BY <1>5, <3>1, SuccessEffect, StaysDone
  <2> QED BY <2>1, <2>2
<1>6. ASSUME NEW r \in Runners, Render(r), Module(r) # "tenant_discovery"
      PROVE  /\ pc'[t] = "idle" => ok'[t] = {}
             /\ \A m \in ok'[t] : m \in TenantModules /\ st'[<<m, t>>].lastOk = cycle'
  <2>1. ok' = ok /\ cycle' = cycle /\ st' = st
    BY <1>6 DEF Render
  <2>2. pc'[t] = "idle" => pc[t] = "idle"
    BY <1>0, <1>6, OthersStay, ModuleToIdle DEF ModuleStep, Still
  <2> QED BY <2>1, <2>2, StaysDone
<1>7. CASE Keeps /\ cycle' = cycle /\ ~Begin /\ ~Join /\ \A r \in Runners : ~RecordSuccess(r)
  <2>1. ok' = ok
    BY <1>7 DEF Next, Progress, MainStep, Rest, ModuleStep, WorkerStep, Launch, Cancel,
           GoStale, Fallback, Fetch, Render, RecordFailure, Enter, EnterLate, Acquire, GiveUp,
           Skip, Finish, vars, runnerVars
  <2> QED BY <1>4, <1>7, <2>1, StaysDone DEF Keeps
<1> QED BY <1>1, <1>2, <1>5, <1>6, <1>7, Effects

-----------------------------------------------------------------------------
LEMMA WorkerContinues ==
  ASSUME TypeOK, NEW t \in TenantNames, NEW i \in 1..(Len(Plan(t)) + 1),
         NEW done, NEW tenantSet, Continue(t, i, done, tenantSet)
  PROVE  pc'[t] \in {"fetch", "finish"}
<1>1. t \in Runners /\ t # Main
  BY MainIsNoTenant DEF Runners
<1>2. pc'[t] = Control(t, Position(t, i, done, tenantSet))
  BY <1>1 DEF Continue, TypeOK, ControlOK
<1> QED BY <1>1, <1>2 DEF Control

LEMMA NextDrawing ==
  TypeOK /\ WorkersBelong /\ Drawing /\ [Next]_vars => Drawing'
<1> SUFFICES ASSUME TypeOK, WorkersBelong, Drawing, [Next]_vars, NEW t \in TenantNames,
                    pc'[t] \in {"render", "recordOk"}, Module(t)' = "topology"
             PROVE  TopologyInputs \subseteq ok'[t]
  BY DEF Drawing
<1>0. t \in Runners /\ t # Main /\ Main \in Runners /\ TenantNames \subseteq Runners
  BY MainIsNoTenant DEF Runners
<1>1. CASE Still(t) /\ ok'[t] = ok[t]
  <2>1. Module(t)' = Module(t) /\ pc'[t] = pc[t]
    BY <1>1 DEF Still, Module, Plan
  <2> QED BY <1>1, <2>1 DEF Drawing
<1>2. CASE Begin \/ Fallback \/ Join \/ Launch
  <2>1. CASE Begin \/ Fallback
    <3>1. pc[t] = "idle" /\ pc'[t] = pc[t]
      BY <1>0, <2>1, MainAlone DEF Begin, Fallback, Continue, TypeOK, ControlOK
    <3> QED BY <3>1
  <2>2. CASE Join \/ Launch
    <3>1. Still(t) \/ pc'[t] \in {"idle", "spawned"}
      BY <1>0, <2>2 DEF Join, Launch, Still
    <3>2. CASE Launch /\ Still(t)
      BY <1>1, <3>2 DEF Launch
    <3> QED BY <1>0, <2>2, <3>1, <3>2 DEF Join
  <2> QED BY <1>2, <2>1, <2>2
<1>3. CASE Cancel \/ UNCHANGED vars \/ \E k \in StateKeys : GoStale(k)
  BY <1>1, <1>3 DEF Cancel, vars, runnerVars, GoStale, Still
<1>4. ASSUME NEW q \in TenantNames, WorkerStep(q) PROVE TopologyInputs \subseteq ok'[t]
  <2>0. ok' = ok
    BY <1>4 DEF WorkerStep, Enter, EnterLate, Acquire, GiveUp, Skip, Finish
  <2>1. CASE q # t
    BY <1>0, <1>1, <1>4, <2>0, <2>1, OthersStay
  <2>2. CASE q = t /\ Acquire(t)
    BY <1>0, <2>2, PlanOf, WorkerContinues DEF Acquire
  <2>3. CASE q = t /\ ~Acquire(t)
    BY <1>0, <1>4, <2>3
    DEF WorkerStep, Enter, EnterLate, GiveUp, Skip, Finish, TypeOK, ControlOK
  <2> QED BY <2>1, <2>2, <2>3
<1>5. ASSUME NEW r \in Runners, ModuleStep(r) PROVE TopologyInputs \subseteq ok'[t]
  <2>1. CASE r # t
    <3>1. ok'[t] = ok[t]
      BY <1>0, <1>5, <2>1
      DEF ModuleStep, Fetch, Render, RecordSuccess, RecordFailure, TypeOK
    <3> QED BY <1>0, <1>1, <1>5, <2>1, <3>1, OthersStay
  <2>2. CASE r = t /\ (Fetch(t) \/ Render(t))
    <3>1. ok' = ok /\ Module(t) = "topology"
      BY <2>2 DEF Fetch, Render, Module, Plan
    <3>2. CASE Render(t)
      BY <3>1, <3>2 DEF Render, Drawing
    <3>3. CASE Fetch(t)
      <4>1. CanSucceed(t)
        BY <1>0, <3>3 DEF Fetch, TypeOK, ControlOK
      <4> QED BY <3>1, <4>1 DEF CanSucceed, LocalRenders
    <3> QED BY <2>2, <3>2, <3>3
  <2>3. CASE r = t /\ (RecordSuccess(t) \/ RecordFailure(t))
    <3>1. pc[t] \in Attempting /\ at[t] + 1 \in 1..(Len(Plan(t)) + 1)
      BY <1>0, <2>3, ModuleType DEF RecordSuccess, RecordFailure, Attempting, TypeOK
    <3>2. Module(t) # "tenant_discovery"
      BY <3>1, WorkerModule DEF TypeOK
    <3>3. \E done : Continue(t, at[t] + 1, done, targets)
      BY <2>3, <3>2 DEF RecordSuccess, RecordFailure
    <3> QED BY <1>0, <3>1, <3>3, WorkerContinues
  <2> QED BY <1>5, <2>1, <2>2, <2>3 DEF ModuleStep
<1> QED BY <1>2, <1>3, <1>4, <1>5 DEF Next, Progress, MainStep, Rest

LEMMA NextBacked ==
  TypeOK /\ Bounded /\ DoneByWorkers /\ Drawing /\ TopologyBacked /\ [Next]_vars
    => TopologyBacked'
<1> SUFFICES ASSUME TypeOK, Bounded, DoneByWorkers, Drawing, TopologyBacked, [Next]_vars,
                    NEW t \in TenantNames, NEW m \in TopologyInputs
             PROVE  rows'[<<"topology", t>>] <= st'[<<m, t>>].lastOk
  BY DEF TopologyBacked
<1> DEFINE k == <<"topology", t>>
           s == <<m, t>>
<1>0. /\ k \in RowKeys /\ s \in StateKeys /\ "topology" \notin OwnerLabelled
      /\ rows[k] <= st[s].lastOk /\ rows[k] <= cycle /\ st[s].lastOk <= cycle
      /\ cycle \in Nat /\ rows[k] \in Nat /\ st[s].lastOk \in Nat /\ t # Main
  <2>1. m \in TenantModules
    BY DEF TopologyInputs, TenantModules
  <2>2. k \in RowKeys /\ s \in StateKeys /\ "topology" \notin OwnerLabelled
    BY <2>1 DEF RowKeys, StateKeys, TenantModules, Lists, OwnerLabelled
  <2> QED BY <2>2, MainIsNoTenant, CacheAssumption
          DEF TopologyBacked, Bounded, TypeOK, Record
<1>1. CASE rows'[k] = rows[k] /\ st'[s].lastOk = st[s].lastOk
  BY <1>0, <1>1
<1>2. ASSUME NEW next, Retargets(next) PROVE rows'[k] <= st'[s].lastOk
  <2>1. k[2] = t /\ s[2] = t
    OBVIOUS
  <2> QED BY <1>0, <1>2, <2>1, SetTenantsEffect DEF Retargets
<1>3. CASE Begin
  BY <1>0, <1>1, <1>2, <1>3, BeginEffect
<1>4. CASE Keeps
  BY <1>0, <1>1, <1>4 DEF Keeps
<1>5. ASSUME NEW r \in Runners, Render(r) PROVE rows'[k] <= st'[s].lastOk
  <2>1. CASE rows'[k] = rows[k] /\ UNCHANGED st
    BY <1>0, <2>1
  <2>2. CASE UNCHANGED st /\ k = Target(r) /\ rows'[k] = cycle
    <3>1. Module(r) = "topology" /\ r = t
      BY <2>2 DEF Target, RenderedKey
    <3>2. m \in ok[t]
      BY <1>5, <3>1 DEF Render, Drawing
    <3> QED BY <1>0, <2>2, <3>2 DEF DoneByWorkers
  <2>3. CASE UNCHANGED st /\ rows' = [rows EXCEPT ![Target(r)] = cycle]
    BY <1>0, <2>1, <2>2, <2>3 DEF TypeOK
  <2>4. CASE /\ UNCHANGED st
             /\ \A e \in RowKeys : rows'[e] = rows[e] \/ e[1] \in OwnerLabelled
    BY <1>0, <2>1, <2>4
  <2> QED BY <1>2, <1>5, <2>3, <2>4, RenderEffect
<1>6. ASSUME NEW r \in Runners, RecordSuccess(r) PROVE rows'[k] <= st'[s].lastOk
  <2>1. rows' = rows /\ st'[s].lastOk \in {st[s].lastOk, cycle}
    BY <1>0, <1>6, SuccessEffect DEF RecordSuccess
  <2> QED BY <1>0, <2>1
<1> QED BY <1>2, <1>3, <1>4, <1>5, <1>6, Effects

LEMMA NotAhead ==
  ASSUME TypeOK, Bounded, AgeMatchesData, TopologyBacked
  PROVE  TopologyNotAhead
<1> SUFFICES ASSUME NEW t \in TenantNames, NEW m \in TopologyInputs, m \notin Lists
             PROVE  rows[<<"topology", t>>] <= rows[<<m, t>>]
  BY DEF TopologyNotAhead, TopologyBacked
<1>1. m \in {"pool_group", "pool_members"}
  BY DEF TopologyInputs, Lists
<1>2. PICK k \in ServedEntries : k = <<m, t>>
  BY <1>1 DEF ServedEntries, RowKeys, TenantModules, Lists, OwnerLabelled
<1>3. PICK e \in RowKeys : e = <<"topology", t>>
  BY DEF RowKeys, TenantModules, Lists
<1>4. /\ rows[e] \in Nat /\ rows[k] \in Nat /\ cycle \in Nat /\ rows[e] <= cycle
      /\ k \in StateKeys /\ st[k].lastOk \in Nat /\ rows[e] <= st[k].lastOk
  <2>1. k \in StateKeys /\ k \in RowKeys
    BY <1>2, WritersOf DEF ServedEntries
  <2> QED BY <1>2, <1>3, <2>1, CacheAssumption
          DEF TypeOK, Record, Bounded, TopologyBacked
<1>5. CASE Publishing(k)
  BY <1>2, <1>3, <1>4, <1>5 DEF Publishing
<1>6. CASE Aged(k)
  <2>1. st[k].lastOk <= rows[k]
    BY <1>6, WritersOf DEF Aged
  <2> QED BY <1>2, <1>3, <1>4, <2>1
<1> QED BY <1>5, <1>6, AgeByEntry

-----------------------------------------------------------------------------
(* What a runner without an error has left behind: every module its plan    *)
(* asks for.                                                                *)

\* Should a refresh for these tenants fetch module m?
Due(m, tenantSet) ==
  Wanted(m) /\ (m = "admin_vs_metrics" => CollectsAdminVS(tenantSet))

\* Runners begin at the top of their plan, with nothing done.
AtStart ==
  /\ \A r \in Runners : pc[r] \in {"idle", "spawned", "waiting"} => at[r] = 1
  /\ \A r \in Runners : at[r] = 1 => ok[r] = {}
  /\ pc[Main] = "fallback" => at[Main] = 1 /\ bad[Main]

\* Only runners with an error end before the end of their plan.
AtEnd ==
  \A r \in Runners :
    pc[r] \in {"launch", "join", "finish"} \/ (pc[r] = "done" /\ ~bad[r])
      => at[r] = Len(Plan(r)) + 1

\* Without an error, all that was due so far has succeeded.
DoneUpTo(r, i, done, tenantSet) ==
  \A j \in 1..Len(Plan(r)) :
    j < i /\ Due(Plan(r)[j], tenantSet) => Plan(r)[j] \in done

AllDone == \A r \in Runners : ~bad[r] => DoneUpTo(r, at[r], ok[r], targets)

LEMMA DiscoveryAtOne ==
  ASSUME TypeOK, NEW r \in Runners, pc[r] \in Attempting, Module(r) = "tenant_discovery"
  PROVE  r = Main /\ at[r] = 1
<1>1. r = Main
  BY WorkerModule DEF Runners, TypeOK
<1>2. at[r] \in 1..9 /\ MainPlan[at[r]] = "tenant_discovery"
  BY <1>1, PlanOf DEF TypeOK, ControlOK, Module
<1> QED BY <1>1, <1>2 DEF MainPlan

\* The list a module is built from comes before it, and is due with it.
LEMMA ListFirst ==
  ASSUME NEW r \in Runners, NEW j \in 1..Len(Plan(r)), NEW tenantSet,
         Due(Plan(r)[j], tenantSet), Plan(r)[j] \in DOMAIN ListOf
  PROVE  \E l \in 1..Len(Plan(r)) :
           /\ l < j /\ Plan(r)[l] = ListOf[Plan(r)[j]]
           /\ Due(Plan(r)[l], tenantSet) /\ Plan(r)[l] \notin DOMAIN ListOf
<1>1. CASE r = Main
  <2>1. Plan(r) = MainPlan /\ Len(Plan(r)) = 9
    BY <1>1, PlanOf
  <2>2. j = 7
    BY <2>1 DEF MainPlan, ListOf
  <2>3. /\ 6 < j /\ Plan(r)[j] = "se_inventory" /\ Plan(r)[6] = "se_list"
        /\ ListOf["se_inventory"] = "se_list" /\ "se_list" \notin DOMAIN ListOf
    BY <2>1, <2>2 DEF MainPlan, ListOf
  <2>4. Enabled("se_inventory") => Due("se_list", tenantSet)
    BY DEF Due, Wanted, Lists, Users
  <2>5. Due("se_inventory", tenantSet) => Enabled("se_inventory")
    BY DEF Due, Wanted, Lists
  <2> QED BY <2>1, <2>3, <2>4, <2>5
<1>2. CASE r # Main
  <2>1. Plan(r) = TenantPlan /\ Len(Plan(r)) = 12
    BY <1>2, PlanOf
  <2>2. j \in {2, 3, 5, 6, 7, 9}
    BY <2>1 DEF TenantPlan, ListOf
  <2>3. CASE j \in {2, 3}
    <3>1. /\ 1 < j /\ Plan(r)[1] = "vs_list" /\ "vs_list" \notin DOMAIN ListOf
          /\ Plan(r)[j] \in {"vs_inventory", "vs_metrics"}
          /\ ListOf[Plan(r)[j]] = "vs_list"
      BY <2>1, <2>3 DEF TenantPlan, ListOf
    <3>2. Enabled(Plan(r)[j])
      BY <3>1 DEF Due, Wanted, Lists
    <3>3. Due("vs_list", tenantSet)
      BY <3>1, <3>2 DEF Due, Wanted, Lists, Users
    <3> QED BY <2>1, <3>1, <3>3
  <2>4. CASE j \in {5, 6, 7}
    <3>1. /\ 4 < j /\ Plan(r)[4] = "pool_list" /\ "pool_list" \notin DOMAIN ListOf
          /\ Plan(r)[j] \in {"pool_inventory", "pool_metrics", "pool_members"}
          /\ ListOf[Plan(r)[j]] = "pool_list"
      BY <2>1, <2>4 DEF TenantPlan, ListOf
    <3>2. Enabled(Plan(r)[j])
      BY <3>1 DEF Due, Wanted, Lists
    <3>3. Due("pool_list", tenantSet)
      BY <3>1, <3>2 DEF Due, Wanted, Lists, Users
    <3> QED BY <2>1, <3>1, <3>3
  <2>5. CASE j = 9
    <3>1. /\ 8 < j /\ Plan(r)[8] = "vsvip_list" /\ "vsvip_list" \notin DOMAIN ListOf
          /\ Plan(r)[j] = "vsvip" /\ ListOf[Plan(r)[j]] = "vsvip_list"
      BY <2>1, <2>5 DEF TenantPlan, ListOf
    <3>2. Enabled(Plan(r)[j])
      BY <3>1 DEF Due, Wanted, Lists
    <3>3. Due("vsvip_list", tenantSet)
      BY <3>1, <3>2 DEF Due, Wanted, Lists, Users
    <3> QED BY <2>1, <3>1, <3>3
  <2> QED BY <2>2, <2>3, <2>4, <2>5
<1> QED BY <1>1, <1>2

\* What a plan passes over was not due, or was not to be had without its list.
LEMMA PassedOver ==
  ASSUME NEW r \in Runners, NEW i \in 1..(Len(Plan(r)) + 1), NEW done, NEW tenantSet,
         NEW j \in 1..Len(Plan(r)), i <= j, j < Position(r, i, done, tenantSet)
  PROVE  ~Attempts(Plan(r)[j], done, tenantSet)
<1> DEFINE open == { l \in i..Len(Plan(r)) : Attempts(Plan(r)[l], done, tenantSet) }
<1>0. Len(Plan(r)) \in Nat \ {0}
  BY PlanOf
<1>1. Position(r, i, done, tenantSet) =
        IF open = {} THEN Len(Plan(r)) + 1
        ELSE CHOOSE l \in open : \A k \in open : l <= k
  BY DEF Position
<1>2. ASSUME j \in open PROVE FALSE
  <2>1. open \in SUBSET Nat /\ open # {}
    BY <1>0, <1>2
  <2>2. \E l \in open : \A k \in open : l <= k
    BY <2>1, LeastElement
  <2>3. Position(r, i, done, tenantSet) \in Nat /\ Position(r, i, done, tenantSet) <= j
    BY <1>1, <1>2, <2>1, <2>2
  <2> QED BY <1>0, <2>3
<1> QED BY <1>0, <1>2

LEMMA Passes ==
  ASSUME NEW r \in Runners, NEW i \in 1..(Len(Plan(r)) + 1), NEW done, NEW tenantSet,
         DoneUpTo(r, i, done, tenantSet)
  PROVE  DoneUpTo(r, Position(r, i, done, tenantSet), done, tenantSet)
<1> SUFFICES ASSUME NEW j \in 1..Len(Plan(r)), j < Position(r, i, done, tenantSet),
                    Due(Plan(r)[j], tenantSet), Plan(r)[j] \notin done
             PROVE  FALSE
  BY DEF DoneUpTo
<1>0. Len(Plan(r)) \in Nat /\ i \in Nat /\ Position(r, i, done, tenantSet) \in Nat
  BY PlanOf, PositionRange
<1>1. i <= j
  BY <1>0 DEF DoneUpTo
<1>2. /\ Plan(r)[j] \in DOMAIN ListOf
      /\ ListOf[Plan(r)[j]] \notin done
  BY <1>1, PassedOver DEF Attempts, Due
<1>3. PICK l \in 1..Len(Plan(r)) :
        /\ l < j /\ Plan(r)[l] = ListOf[Plan(r)[j]]
        /\ Due(Plan(r)[l], tenantSet) /\ Plan(r)[l] \notin DOMAIN ListOf
  BY <1>2, ListFirst
<1>4. CASE l < i
  BY <1>2, <1>3, <1>4 DEF DoneUpTo
<1>5. CASE i <= l
  <2>1. l < Position(r, i, done, tenantSet)
    BY <1>0, <1>3
  <2>2. ~Attempts(Plan(r)[l], done, tenantSet)
    BY <1>5, <2>1, PassedOver
  <2> QED BY <1>3, <2>2 DEF Attempts, Due
<1> QED BY <1>0, <1>4, <1>5

-----------------------------------------------------------------------------
(* The moves a step can be for one runner.                                  *)
Pauses(r) ==
  /\ Still(r) /\ ok'[r] = ok[r] /\ bad'[r] = bad[r]
  /\ targets' = targets \/ at[r] = 1

Resets(r) == pc'[r] = "idle" /\ at'[r] = 1 /\ ok'[r] = {}

Waits(r) ==
  /\ pc[r] \in {"idle", "spawned"} /\ pc'[r] \in {"spawned", "waiting"}
  /\ at'[r] = at[r] /\ ok'[r] = ok[r]

Starts(r) == ok'[r] = {} /\ Continue(r, 1, {}, targets')

Works(r) ==
  /\ pc[r] \in {"fetch", "render"} /\ pc'[r] \in {"render", "recordOk", "recordErr"}
  /\ at'[r] = at[r] /\ ok'[r] = ok[r] /\ bad'[r] = bad[r]
  /\ targets' = targets \/ at[r] = 1

Succeeds(r) ==
  /\ pc[r] \in Attempting /\ targets' = targets /\ bad'[r] = bad[r]
  /\ ok'[r] = ok[r] \union {Module(r)}
  /\ Continue(r, at[r] + 1, ok'[r], targets)

Errs(r) ==
  /\ bad'[r] /\ ok'[r] = ok[r]
  /\ \/ pc'[r] = "done" /\ at'[r] = at[r]
     \/ pc'[r] = "fallback" /\ at'[r] = 1 /\ at[r] = 1
     \/ /\ pc[r] \in Attempting
        /\ \E tenantSet : Continue(r, at[r] + 1, ok[r], tenantSet)

Ends(r) ==
  /\ pc[r] \in {"launch", "finish"} /\ pc'[r] \in {"join", "done"}
  /\ at'[r] = at[r] /\ ok'[r] = ok[r] /\ bad'[r] = bad[r] /\ targets' = targets

Moves(r) ==
  \/ Pauses(r) \/ Resets(r) \/ Waits(r) \/ Starts(r)
  \/ Works(r) \/ Succeeds(r) \/ Errs(r) \/ Ends(r)

LEMMA MainMoves ==
  ASSUME TypeOK, WorkersBelong, AtStart, MainStep, NEW r \in Runners
  PROVE  Moves(r)
<1>0. Main \in Runners /\ (r # Main => r \in TenantNames)
  BY DEF Runners
<1>1. CASE Begin \/ Fallback
  <2>1. CASE r # Main
    <3>1. pc[r] = "idle" /\ at[r] = 1 /\ ok[r] = {}
      BY <1>1, <2>1, MainAlone DEF Begin, Fallback, AtStart
    <3>2. pc'[r] = pc[r] /\ at'[r] = at[r] /\ ok'[r] = {}
      BY <1>1, <2>1, <3>1 DEF Begin, Fallback, Continue, TypeOK, ControlOK
    <3> QED BY <3>1, <3>2 DEF Moves, Resets
  <2>2. CASE r = Main /\ Begin
    BY <2>2 DEF Begin, Moves, Starts
  <2>3. CASE r = Main /\ Fallback
    <3>1. bad'[r] /\ ok'[r] = ok[r] /\ pc[r] \in Attempting
      BY <2>3 DEF Fallback, AtStart, Attempting
    <3>2. Continue(r, at[r] + 1, ok[r], targets')
      BY <2>3 DEF Fallback
    <3> QED BY <3>1, <3>2 DEF Moves, Errs
  <2> QED BY <1>1, <2>1, <2>2, <2>3
<1>2. CASE Launch
  <2>1. CASE r = Main
    BY <1>0, <1>2, <2>1 DEF Launch, Moves, Ends
  <2>2. CASE r # Main
    <3>1. pc[r] = "idle"
      BY <1>2, <2>2, MainAlone DEF Launch
    <3>2. CASE r \in targets
      BY <1>2, <2>2, <3>1, <3>2 DEF Launch, Moves, Waits
    <3>3. CASE r \notin targets
      BY <1>2, <2>2, <3>1, <3>3 DEF Launch, Moves, Pauses, Still
    <3> QED BY <3>2, <3>3
  <2> QED BY <2>1, <2>2
<1>3. CASE Join
  BY <1>3 DEF Join, Moves, Resets
<1> QED BY <1>1, <1>2, <1>3 DEF MainStep

LEMMA WorkerMoves ==
  ASSUME TypeOK, WorkersBelong, AtStart, NEW t \in TenantNames, WorkerStep(t), NEW r \in Runners
  PROVE  Moves(r)
<1>0. t \in Runners /\ t # Main
  BY MainIsNoTenant DEF Runners
<1>1. CASE r # t
  <2>1. Still(r)
    BY <1>0, <1>1, OthersStay
  <2>2. ok'[r] = ok[r] /\ bad'[r] = bad[r] /\ targets' = targets
    BY <1>1 DEF WorkerStep, Enter, EnterLate, Acquire, GiveUp, Skip, Finish, TypeOK
  <2> QED BY <2>1, <2>2 DEF Moves, Pauses
<1>2. CASE r = t /\ Enter(t)
  BY <1>0, <1>2 DEF Enter, Moves, Waits, TypeOK, ControlOK
<1>3. CASE r = t /\ (EnterLate(t) \/ GiveUp(t))
  BY <1>0, <1>3 DEF EnterLate, GiveUp, Skip, Moves, Errs, TypeOK, ControlOK
<1>4. CASE r = t /\ Acquire(t)
  <2>1. ok'[t] = {} /\ targets' = targets
    BY <1>0, <1>4 DEF Acquire, AtStart
  <2> QED BY <1>4, <2>1 DEF Acquire, Moves, Starts
<1>5. CASE r = t /\ Finish(t)
  BY <1>0, <1>5 DEF Finish, Moves, Ends, TypeOK, ControlOK
<1> QED BY <1>1, <1>2, <1>3, <1>4, <1>5 DEF WorkerStep

LEMMA ModuleMoves ==
  ASSUME TypeOK, WorkersBelong, AtStart, NEW q \in Runners, ModuleStep(q), NEW r \in Runners
  PROVE  Moves(r)
<1>0. pc[q] \in Attempting
  BY DEF ModuleStep, Fetch, Render, RecordSuccess, RecordFailure, Attempting
<1>1. targets' = targets \/ (Fetch(q) /\ Module(q) = "tenant_discovery")
  BY DEF ModuleStep, Fetch, Render, RecordSuccess, RecordFailure
<1>2. targets' = targets \/ at[r] = 1
  <2>1. CASE Module(q) = "tenant_discovery"
    <3>1. q = Main /\ at[q] = 1
      BY <1>0, <2>1, DiscoveryAtOne
    <3>2. r # Main => pc[r] = "idle"
      BY <1>0, <3>1, MainAlone DEF Attempting
    <3> QED BY <3>1, <3>2 DEF AtStart
  <2> QED BY <1>1, <2>1
<1>3. CASE r # q
  <2>1. Still(r)
    BY <1>3, OthersStay
  <2>2. ok'[r] = ok[r] /\ bad'[r] = bad[r]
    BY <1>3 DEF ModuleStep, Fetch, Render, RecordSuccess, RecordFailure, TypeOK
  <2> QED BY <1>2, <2>1, <2>2 DEF Moves, Pauses
<1>4. CASE r = q /\ (Fetch(q) \/ Render(q))
  <2>1. /\ pc[r] \in {"fetch", "render"} /\ pc'[r] \in {"render", "recordOk", "recordErr"}
        /\ at'[r] = at[r] /\ ok'[r] = ok[r] /\ bad'[r] = bad[r]
    BY <1>4 DEF Fetch, Render, TypeOK, ControlOK
  <2> QED BY <1>2, <2>1 DEF Moves, Works
<1>5. CASE r = q /\ RecordSuccess(q)
  <2>1. ok'[r] = ok[r] \union {Module(r)} /\ bad'[r] = bad[r] /\ targets' = targets
    BY <1>5 DEF RecordSuccess, TypeOK
  <2>2. Continue(r, at[r] + 1, ok[r] \union {Module(r)}, targets)
    BY <1>5 DEF RecordSuccess
  <2> QED BY <1>0, <1>5, <2>1, <2>2 DEF Moves, Succeeds
<1>6. CASE r = q /\ RecordFailure(q)
  <2>1. bad'[r] /\ ok'[r] = ok[r]
    BY <1>6 DEF RecordFailure, TypeOK
  <2>2. CASE Module(q) = "tenant_discovery"
    <3>1. at[r] = 1 /\ at' = at /\ pc'[r] = "fallback"
      BY <1>0, <1>6, <2>2, DiscoveryAtOne DEF RecordFailure, TypeOK, ControlOK
    <3> QED BY <2>1, <3>1 DEF Moves, Errs
  <2>3. CASE Module(q) # "tenant_discovery"
    <3>1. Continue(r, at[r] + 1, ok[r], targets)
      BY <1>6, <2>3 DEF RecordFailure
    <3> QED BY <1>0, <1>6, <2>1, <3>1 DEF Moves, Errs
  <2> QED BY <2>2, <2>3
<1> QED BY <1>3, <1>4, <1>5, <1>6 DEF ModuleStep

LEMMA RunnerMoves ==
  TypeOK /\ WorkersBelong /\ AtStart /\ [Next]_vars => \A r \in Runners : Moves(r)
<1> SUFFICES ASSUME TypeOK, WorkersBelong, AtStart, [Next]_vars, NEW r \in Runners
             PROVE  Moves(r)
  OBVIOUS
<1>1. CASE Cancel \/ UNCHANGED vars \/ \E k \in StateKeys : GoStale(k)
  BY <1>1 DEF Cancel, vars, runnerVars, GoStale, Moves, Pauses, Still
<1> QED BY <1>1, MainMoves, WorkerMoves, ModuleMoves DEF Next, Progress, Rest

LEMMA ContinueAt ==
  ASSUME TypeOK, NEW r \in Runners, NEW i \in 1..(Len(Plan(r)) + 1), NEW done,
         NEW tenantSet, Continue(r, i, done, tenantSet)
  PROVE  /\ at'[r] = Position(r, i, done, tenantSet)
         /\ at'[r] \in i..(Len(Plan(r)) + 1)
         /\ pc'[r] \in {"fetch", "launch", "finish"}
         /\ pc'[r] # "fetch" => at'[r] = Len(Plan(r)) + 1
<1> DEFINE p == Position(r, i, done, tenantSet)
<1>0. Len(Plan(r)) \in Nat /\ i \in Nat
  BY PlanOf
<1>1. at'[r] = p /\ pc'[r] = Control(r, p)
  BY DEF Continue, TypeOK, ControlOK
<1>2. p \in i..(Len(Plan(r)) + 1)
  BY PositionRange
<1>3. p <= Len(Plan(r)) => Control(r, p) = "fetch"
  BY DEF Control
<1>4. Control(r, p) \in {"fetch", "launch", "finish"}
  BY DEF Control
<1> HIDE DEF p
<1>5. pc'[r] # "fetch" => p = Len(Plan(r)) + 1
  BY <1>0, <1>1, <1>2, <1>3
<1> QED BY <1>1, <1>2, <1>4, <1>5 DEF p

\* Where a plan goes on after an attempt.
LEMMA After ==
  ASSUME TypeOK, NEW r \in Runners, pc[r] \in Attempting
  PROVE  /\ at[r] \in 1..Len(Plan(r)) /\ at[r] + 1 \in 1..(Len(Plan(r)) + 1)
         /\ at[r] + 1 > 1 /\ Len(Plan(r)) \in Nat
<1>1. at[r] \in 1..Len(Plan(r)) /\ Len(Plan(r)) \in Nat
  BY PlanOf DEF TypeOK, ControlOK
<1> QED BY <1>1

LEMMA NextAtStart ==
  TypeOK /\ WorkersBelong /\ AtStart /\ [Next]_vars => AtStart'
<1> SUFFICES ASSUME TypeOK, WorkersBelong, AtStart, [Next]_vars PROVE AtStart'
  OBVIOUS
<1>1. ASSUME NEW r \in Runners
      PROVE  /\ pc'[r] \in {"idle", "spawned", "waiting"} => at'[r] = 1
             /\ at'[r] = 1 => ok'[r] = {}
             /\ pc'[r] = "fallback" => \/ at'[r] = 1 /\ bad'[r]
                                       \/ Pauses(r)
  <2>1. CASE Pauses(r) \/ Resets(r) \/ Waits(r) \/ Works(r) \/ Ends(r)
    BY <2>1 DEF AtStart, Pauses, Still, Resets, Waits, Works, Ends
  <2>2. CASE Starts(r)
    <3>1. 1 \in 1..(Len(Plan(r)) + 1)
      BY PlanOf
    <3> QED BY <2>2, <3>1, ContinueAt DEF Starts
  <2>3. CASE Succeeds(r)
    <3>1. Continue(r, at[r] + 1, ok'[r], targets) /\ pc[r] \in Attempting
      BY <2>3 DEF Succeeds
    <3>2. at'[r] \in (at[r] + 1)..(Len(Plan(r)) + 1) /\ pc'[r] \in {"fetch", "launch", "finish"}
      BY <3>1, After, ContinueAt
    <3>3. at'[r] # 1
      BY <3>1, <3>2, After
    <3> QED BY <3>2, <3>3
  <2>4. CASE Errs(r)
    <3>1. CASE pc[r] \in Attempting /\ \E tenantSet : Continue(r, at[r] + 1, ok[r], tenantSet)
      <4>1. at'[r] \in (at[r] + 1)..(Len(Plan(r)) + 1) /\ pc'[r] \in {"fetch", "launch", "finish"}
        BY <3>1, After, ContinueAt
      <4>2. at'[r] # 1
        BY <3>1, <4>1, After
      <4> QED BY <4>1, <4>2
    <3> QED BY <2>4, <3>1 DEF Errs, AtStart
  <2> QED BY <2>1, <2>2, <2>3, <2>4, RunnerMoves DEF Moves
<1>2. Main \in Runners
  BY DEF Runners
<1>3. pc'[Main] = "fallback" => at'[Main] = 1 /\ bad'[Main]
  BY <1>1, <1>2 DEF Pauses, Still, AtStart
<1> QED BY <1>1, <1>3 DEF AtStart

LEMMA NextAtEnd ==
  TypeOK /\ WorkersBelong /\ AtStart /\ AtEnd /\ [Next]_vars => AtEnd'
<1> SUFFICES ASSUME TypeOK, WorkersBelong, AtStart, AtEnd, [Next]_vars, NEW r \in Runners,
                    pc'[r] \in {"launch", "join", "finish"} \/ (pc'[r] = "done" /\ ~bad'[r])
             PROVE  at'[r] = Len(Plan(r)) + 1
  BY DEF AtEnd, Plan
<1>1. CASE Pauses(r) \/ Resets(r) \/ Waits(r) \/ Works(r) \/ Ends(r)
  BY <1>1 DEF AtEnd, Pauses, Still, Resets, Waits, Works, Ends
<1>2. CASE Starts(r)
  <2>1. 1 \in 1..(Len(Plan(r)) + 1)
    BY PlanOf
  <2> QED BY <1>2, <2>1, ContinueAt DEF Starts
<1>3. CASE Succeeds(r)
  BY <1>3, After, ContinueAt DEF Succeeds
<1>4. CASE Errs(r)
  BY <1>4, After, ContinueAt DEF Errs
<1> QED BY <1>1, <1>2, <1>3, <1>4, RunnerMoves DEF Moves

LEMMA NextAllDone ==
  TypeOK /\ WorkersBelong /\ AtStart /\ AllDone /\ [Next]_vars => AllDone'
<1> SUFFICES ASSUME TypeOK, WorkersBelong, AtStart, AllDone, [Next]_vars, NEW r \in Runners,
                    ~bad'[r]
             PROVE  DoneUpTo(r, at'[r], ok'[r], targets')
  BY DEF AllDone, DoneUpTo, Plan
<1>0. \A done, tenantSet : DoneUpTo(r, 1, done, tenantSet)
  BY PlanOf DEF DoneUpTo
<1>1. CASE Pauses(r) \/ Works(r) \/ Ends(r)
  <2>1. at'[r] = at[r] /\ ok'[r] = ok[r] /\ ~bad[r] /\ (targets' = targets \/ at[r] = 1)
    BY <1>1 DEF Pauses, Still, Works, Ends
  <2> QED BY <1>0, <2>1 DEF AllDone
<1>2. CASE Resets(r) \/ Waits(r)
  BY <1>0, <1>2 DEF Resets, Waits, AtStart
<1>3. CASE Starts(r)
  <2>1. 1 \in 1..(Len(Plan(r)) + 1)
    BY PlanOf
  <2>2. at'[r] = Position(r, 1, {}, targets')
    BY <1>3, <2>1, ContinueAt DEF Starts
  <2> QED BY <1>0, <1>3, <2>1, <2>2, Passes DEF Starts
<1>4. CASE Succeeds(r)
  <2>1. DoneUpTo(r, at[r], ok[r], targets)
    BY <1>4 DEF Succeeds, AllDone
  <2>2. at[r] \in 1..Len(Plan(r)) /\ Len(Plan(r)) \in Nat /\ pc[r] \in Attempting
    BY <1>4, After DEF Succeeds
  <2>3. DoneUpTo(r, at[r] + 1, ok'[r], targets)
    <3> SUFFICES ASSUME NEW j \in 1..Len(Plan(r)), j < at[r] + 1, Due(Plan(r)[j], targets)
                 PROVE  Plan(r)[j] \in ok'[r]
      BY DEF DoneUpTo
    <3>1. j < at[r] \/ j = at[r]
      BY <2>2
    <3> QED BY <1>4, <2>1, <3>1 DEF DoneUpTo, Succeeds, Module
  <2>4. at'[r] = Position(r, at[r] + 1, ok'[r], targets)
    BY <1>4, <2>2, After, ContinueAt DEF Succeeds
  <2>5. DoneUpTo(r, at'[r], ok'[r], targets)
    BY <2>2, <2>3, <2>4, After, Passes
  <2> QED BY <1>4, <2>5 DEF Succeeds
<1>5. CASE Errs(r)
  BY <1>5 DEF Errs
<1> QED BY <1>1, <1>2, <1>3, <1>4, <1>5, RunnerMoves DEF Moves

-----------------------------------------------------------------------------
(* What the main runner has done, and for whom the workers were launched.   *)

DoneByMain ==
  \A m \in ok[Main] : m \in MainModules /\ st[StateKey(m, Main)].lastOk = cycle

\* A worker without an error has no failing module among those it has done.
NoneFailing ==
  \A t \in TenantNames : ~bad[t] => \A m \in ok[t] : ~st[<<m, t>>].failing

Launched == pc[Main] = "join" => \A t \in targets : pc[t] # "idle"

\* A refresh of a static configuration is for the tenants configured.
Configured == ~Wildcard /\ pc[Main] # "idle" => tenants = StaticTenants

LEMMA OnlySuccessAdds ==
  ASSUME TypeOK, [Next]_vars, NEW r \in Runners
  PROVE  ok'[r] \subseteq ok[r] \/ RecordSuccess(r)
<1>1. CASE Begin \/ Join
  BY <1>1 DEF Begin, Join
<1>2. ASSUME NEW q \in Runners, RecordSuccess(q), q # r PROVE ok'[r] = ok[r]
  BY <1>2 DEF RecordSuccess, TypeOK
<1>3. UNCHANGED ok \/ Begin \/ Join \/ \E q \in Runners : RecordSuccess(q)
  BY DEF Next, Progress, MainStep, Rest, ModuleStep, WorkerStep, Launch, Cancel, GoStale,
         Fallback, Fetch, Render, RecordFailure, Enter, EnterLate, Acquire, GiveUp, Skip,
         Finish, vars, runnerVars
<1> QED BY <1>1, <1>2, <1>3

LEMMA MainKey ==
  ASSUME NEW m \in MainModules
  PROVE  StateKey(m, Main) \in StateKeys
BY DEF StateKey, StateKeys

LEMMA NextDoneByMain ==
  TypeOK /\ AtStart /\ DoneByMain /\ [Next]_vars => DoneByMain'
<1> SUFFICES ASSUME TypeOK, AtStart, DoneByMain, [Next]_vars, NEW m \in ok'[Main]
             PROVE  m \in MainModules /\ st'[StateKey(m, Main)].lastOk = cycle'
  BY DEF DoneByMain, StateKey
<1>0. Main \in Runners
  BY DEF Runners
<1>1. CASE Begin
  BY <1>0, <1>1 DEF Begin
<1>2. ASSUME at[Main] = 1, UNCHANGED ok PROVE FALSE
  BY <1>0, <1>2 DEF AtStart
<1>3. CASE Fallback
  BY <1>2, <1>3 DEF Fallback, AtStart
<1>4. ASSUME NEW r \in Runners, Render(r)
      PROVE  m \in MainModules /\ st'[StateKey(m, Main)].lastOk = cycle'
  <2>1. CASE Module(r) = "tenant_discovery"
    <3>1. pc[r] \in Attempting /\ UNCHANGED ok
      BY <1>4 DEF Render, Attempting
    <3> QED BY <1>2, <2>1, <3>1, DiscoveryAtOne
  <2>2. CASE UNCHANGED <<st, ok, cycle>>
    BY <2>2 DEF DoneByMain
  <2> QED BY <1>4, <2>1, <2>2 DEF Render
<1>5. ASSUME NEW r \in Runners, RecordSuccess(r)
      PROVE  m \in MainModules /\ st'[StateKey(m, Main)].lastOk = cycle'
  <2>0. cycle' = cycle
    BY <1>5 DEF RecordSuccess
  <2>1. CASE m \in ok[Main]
    <3>1. m \in MainModules /\ st[StateKey(m, Main)].lastOk = cycle
      BY <2>1 DEF DoneByMain
    <3> QED BY <1>5, <2>0, <3>1, MainKey, SuccessEffect
  <2>2. CASE m \notin ok[Main]
    <3>1. r = Main /\ m = Module(Main)
      BY <1>0, <1>5, <2>2 DEF RecordSuccess, TypeOK
    <3>2. Module(Main) \in MainModules
      <4>1. at[Main] \in 1..9 /\ Plan(Main) = MainPlan
        BY <1>0, <1>5, <3>1, PlanOf DEF RecordSuccess, TypeOK, ControlOK, Attempting
      <4> QED BY <4>1, MainPlanModules DEF Module
    <3> QED BY <1>5, <2>0, <3>1, <3>2, MainKey, SuccessEffect
  <2> QED BY <2>1, <2>2
<1>6. CASE Keeps /\ cycle' = cycle /\ ~RecordSuccess(Main)
  <2>1. m \in ok[Main]
    BY <1>0, <1>6, OnlySuccessAdds
  <2> QED BY <1>6, <2>1, MainKey DEF DoneByMain, Keeps
<1> QED BY <1>0, <1>1, <1>3, <1>4, <1>5, <1>6, Effects

\* Only its own worker makes the module of a tenant fail, or records it.
LEMMA OwnKey ==
  ASSUME NEW t \in TenantNames, NEW m \in TenantModules, NEW r \in Runners, NEW n,
         <<m, t>> = StateKey(n, r)
  PROVE  r = t /\ n = m
BY DEF StateKey, TenantModules

LEMMA NextNoneFailing ==
  /\ TypeOK /\ WorkersBelong /\ AtStart /\ DoneByWorkers /\ NoneFailing /\ [Next]_vars
  => NoneFailing'
<1> SUFFICES ASSUME TypeOK, WorkersBelong, AtStart, DoneByWorkers, NoneFailing, [Next]_vars,
                    NEW t \in TenantNames, ~bad'[t], NEW m \in ok'[t]
             PROVE  ~st'[<<m, t>>].failing
  BY DEF NoneFailing
<1>0. t \in Runners /\ \A q \in TenantModules : <<q, t>> \in StateKeys
  BY DEF Runners, StateKeys
<1>1. CASE RecordSuccess(t)
  <2>1. Module(t) \in TenantModules /\ StateKey(Module(t), t) = <<Module(t), t>>
    BY <1>0, <1>1, WorkerModule
    DEF RecordSuccess, TypeOK, Attempting, StateKey, TenantModules
  <2>2. \A q \in TenantModules :
          st'[<<q, t>>] = IF q = Module(t) THEN Succeeded ELSE st[<<q, t>>]
    BY <1>0, <1>1, <2>1 DEF RecordSuccess, TypeOK
  <2>3. ok'[t] = ok[t] \union {Module(t)} /\ ~bad[t]
    BY <1>0, <1>1 DEF RecordSuccess, TypeOK
  <2> QED BY <2>1, <2>2, <2>3 DEF NoneFailing, DoneByWorkers, Succeeded
<1>2. CASE ~RecordSuccess(t)
  <2>1. m \in ok[t] /\ m \in TenantModules
    BY <1>0, <1>2, OnlySuccessAdds DEF DoneByWorkers
  <2>2. ~bad[t]
    <3>1. Moves(t) /\ ok[t] # {}
      BY <1>0, <2>1, RunnerMoves
    <3> QED BY <1>0, <3>1
        DEF Moves, Pauses, Resets, Waits, Starts, Works, Succeeds, Errs, Ends, AtStart
  <2>3. ~st[<<m, t>>].failing
    BY <2>1, <2>2 DEF NoneFailing
  <2>4. ASSUME NEW next, SetTenants(next) PROVE ~st'[<<m, t>>].failing
    BY <1>0, <2>1, <2>3, <2>4 DEF SetTenants, NoState
  <2>5. ASSUME NEW r \in Runners, RecordSuccess(r) PROVE ~st'[<<m, t>>].failing
    BY <1>0, <2>1, <2>3, <2>5 DEF RecordSuccess, TypeOK, Succeeded
  <2>6. ASSUME NEW r \in Runners, RecordFailure(r) PROVE ~st'[<<m, t>>].failing
    <3>1. r # t
      BY <1>0, <2>6 DEF RecordFailure, TypeOK
    <3>2. <<m, t>> # StateKey(Module(r), r)
      BY <2>1, <3>1, OwnKey
    <3> QED BY <1>0, <2>1, <2>3, <2>6, <3>2 DEF RecordFailure, TypeOK
  <2>7. ASSUME NEW k \in StateKeys, GoStale(k) PROVE ~st'[<<m, t>>].failing
    BY <1>0, <2>1, <2>3, <2>7 DEF GoStale, TypeOK, Record
  <2>8. \/ UNCHANGED st \/ \E next : SetTenants(next)
        \/ \E r \in Runners : RecordSuccess(r) \/ RecordFailure(r)
        \/ \E k \in StateKeys : GoStale(k)
    BY DEF Next, Progress, MainStep, Rest, ModuleStep, WorkerStep, Begin, Fallback, Launch,
           Join, Cancel, Fetch, Render, Enter, EnterLate, Acquire, GiveUp, Skip, Finish, vars
  <2> QED BY <2>3, <2>4, <2>5, <2>6, <2>7, <2>8
<1> QED BY <1>1, <1>2

LEMMA NextLaunched ==
  /\ TypeOK /\ WorkersBelong /\ AtStart /\ AtEnd /\ Launched /\ [Next]_vars
  => Launched'
<1> SUFFICES ASSUME TypeOK, WorkersBelong, AtStart, AtEnd, Launched, [Next]_vars,
                    pc'[Main] = "join", NEW t \in targets'
             PROVE  pc'[t] # "idle"
  BY DEF Launched
<1>0. Main \in Runners /\ t \in TenantNames
  <2>1. TypeOK'
    BY NextType
  <2> QED BY <2>1 DEF TypeOK, Runners
<1>1. CASE Launch
  BY <1>0, <1>1, MainIsNoTenant DEF Launch, Runners
<1>2. CASE ~Launch
  <2>1. pc[Main] = "join" /\ targets' = targets
    <3>1. CASE Pauses(Main)
      <4>1. at[Main] # 1
        BY <1>0, <3>1, PlanOf DEF Pauses, Still, AtEnd
      <4> QED BY <3>1, <4>1 DEF Pauses, Still
    <3>2. ~Resets(Main) /\ ~Waits(Main) /\ ~Works(Main)
      BY DEF Resets, Waits, Works
    <3>3. ~Starts(Main) /\ ~Succeeds(Main) /\ ~Errs(Main)
      <4>1. 1 \in 1..(Len(Plan(Main)) + 1)
        BY <1>0, PlanOf
      <4> QED BY <1>0, <4>1, After, ContinueAt DEF Starts, Succeeds, Errs
    <3>4. CASE Ends(Main)
      <4>1. pc[Main] = "launch"
        BY <3>4 DEF Ends, TypeOK, ControlOK, MainControls
      <4>2. ASSUME NEW r \in Runners, ModuleStep(r) \/ (r \in TenantNames /\ WorkerStep(r))
            PROVE  FALSE
        <5>1. pc[r] # "idle" /\ pc[r] # "launch"
          BY <4>1, <4>2 DEF ModuleStep, Fetch, Render, RecordSuccess, RecordFailure,
                      WorkerStep, Enter, EnterLate, Acquire, GiveUp, Finish
        <5> QED BY <4>1, <5>1, MainAlone
      <4>3. pc'[Main] = pc[Main]
        BY <1>2, <4>1, <4>2
        DEF Next, Progress, MainStep, Rest, Begin, Fallback, Join, Cancel, GoStale, vars,
            runnerVars, Runners
      <4> QED BY <4>1, <4>3
    <3> QED BY <1>0, <3>1, <3>2, <3>3, <3>4, RunnerMoves DEF Moves
  <2>2. ~Join
    BY <1>0 DEF Join
  <2>3. pc[t] # "idle"
    BY <2>1 DEF Launched
  <2> QED BY <1>0, <2>2, <2>3, ToIdle
<1> QED BY <1>1, <1>2

\* Only Begin and Join take the refresh from and to rest.
LEMMA OnlyBegin ==
  ASSUME TypeOK, WorkersBelong, [Next]_vars, pc[Main] = "idle", ~Begin
  PROVE  UNCHANGED vars \/ \E k \in StateKeys : GoStale(k)
<1>1. ASSUME NEW r \in Runners, ModuleStep(r) \/ (r \in TenantNames /\ WorkerStep(r))
      PROVE  FALSE
  <2>1. pc[r] # "idle"
    BY <1>1 DEF ModuleStep, Fetch, Render, RecordSuccess, RecordFailure,
                WorkerStep, Enter, EnterLate, Acquire, GiveUp, Finish
  <2> QED BY <2>1, MainAlone
<1> QED BY <1>1 DEF Next, Progress, MainStep, Rest, Fallback, Launch, Join, Cancel, Runners

LEMMA NextConfigured ==
  TypeOK /\ WorkersBelong /\ Chosen /\ Configured /\ [Next]_vars => Configured'
<1> SUFFICES ASSUME TypeOK, WorkersBelong, Chosen, Configured, [Next]_vars,
                    ~Wildcard, pc'[Main] # "idle"
             PROVE  tenants' = StaticTenants
  BY DEF Configured
<1>1. CASE Begin
  BY <1>1 DEF Begin, SetTenants
<1>2. CASE ~Begin
  <2>1. pc[Main] # "idle"
    BY <1>2, OnlyBegin DEF vars, runnerVars, GoStale
  <2>2. tenants = StaticTenants
    BY <2>1 DEF Configured
  <2>3. CASE Fallback
    BY <2>2, <2>3 DEF Fallback, SetTenants
  <2>4. ASSUME NEW r \in Runners, Render(r) PROVE UNCHANGED tenants
    <3>1. Wanted(Module(r))
      BY <2>4, RenderEffect DEF Chosen, Attempting
    <3>2. Wanted("tenant_discovery") => Wildcard
      BY DEF Wanted, Lists
    <3> QED BY <2>4, <3>1, <3>2 DEF Render
  <2>5. ASSUME NEW r \in Runners, RecordSuccess(r) PROVE UNCHANGED tenants
    BY <2>5 DEF RecordSuccess
  <2> QED BY <1>2, <2>2, <2>3, <2>4, <2>5, Effects DEF Keeps
<1> QED BY <1>1, <1>2

-----------------------------------------------------------------------------
\* Every required module has its place in a plan, and is due.
LEMMA RequiredInPlan ==
  /\ \A m \in RequiredMain :
       /\ m \in MainModules /\ m # "admin_vs_metrics" /\ Wanted(m)
       /\ \E j \in 1..9 : MainPlan[j] = m
  /\ \A m \in RequiredPerTenant :
       /\ m \in TenantModules /\ m # "admin_vs_metrics" /\ Wanted(m)
       /\ \E j \in 1..12 : TenantPlan[j] = m
<1>1. ASSUME NEW m \in RequiredMain
      PROVE  /\ m \in MainModules /\ m # "admin_vs_metrics" /\ Wanted(m)
             /\ \E j \in 1..9 : MainPlan[j] = m
  <2>1. m \in MainModules /\ m # "admin_vs_metrics"
    BY DEF RequiredMain
  <2>2. Wanted(m)
    <3>1. CASE m = "tenant_discovery"
      BY <3>1 DEF RequiredMain, Wanted, Lists
    <3>2. CASE m = "se_list"
      <4>1. Enabled("se_inventory")
        BY <3>2 DEF RequiredMain
      <4> QED BY <3>2, <4>1 DEF Wanted, Lists, Users
    <3>3. CASE m \notin {"tenant_discovery", "se_list"}
      <4>1. Enabled(m)
        BY <2>1, <3>3 DEF RequiredMain
      <4>2. m \notin Lists
        BY <2>1, <3>3 DEF MainModules, Lists
      <4> QED BY <2>1, <3>3, <4>1, <4>2 DEF Wanted
    <3> QED BY <3>1, <3>2, <3>3
  <2>3. \E j \in 1..9 : MainPlan[j] = m
    <3>1. /\ MainPlan[1] = "tenant_discovery" /\ MainPlan[2] = "cluster"
          /\ MainPlan[3] = "cluster_inventory" /\ MainPlan[4] = "controller_metrics"
          /\ MainPlan[5] = "se_config" /\ MainPlan[6] = "se_list"
          /\ MainPlan[7] = "se_inventory" /\ MainPlan[8] = "se_metrics"
          /\ MainPlan[9] = "admin_vs_metrics"
      BY DEF MainPlan
    <3>2. /\ 1 \in 1..9 /\ 2 \in 1..9 /\ 3 \in 1..9 /\ 4 \in 1..9 /\ 5 \in 1..9
          /\ 6 \in 1..9 /\ 7 \in 1..9 /\ 8 \in 1..9 /\ 9 \in 1..9
      OBVIOUS
    <3> QED BY <2>1, <3>1, <3>2, Zenon DEF MainModules
  <2> QED BY <2>1, <2>2, <2>3
<1>2. ASSUME NEW m \in RequiredPerTenant
      PROVE  /\ m \in TenantModules /\ m # "admin_vs_metrics" /\ Wanted(m)
             /\ \E j \in 1..12 : TenantPlan[j] = m
  <2>1. m \in TenantModules /\ m # "admin_vs_metrics" /\ m # "tenant_discovery" /\ m # "se_list"
    BY DEF RequiredPerTenant, TenantModules
  <2>2. Wanted(m)
    <3>1. CASE m = "vs_list"
      <4>1. Enabled("vs_inventory") \/ Enabled("vs_metrics") \/ Enabled("topology")
        BY <3>1 DEF RequiredPerTenant
      <4> QED BY <3>1, <4>1 DEF Wanted, Lists, Users
    <3>2. CASE m = "pool_list"
      <4>1. \/ Enabled("pool_inventory") \/ Enabled("pool_metrics")
            \/ Enabled("pool_members")   \/ Enabled("topology")
        BY <3>2 DEF RequiredPerTenant
      <4> QED BY <3>2, <4>1 DEF Wanted, Lists, Users
    <3>3. CASE m = "vsvip_list"
      <4>1. Enabled("vsvip") \/ Enabled("topology")
        BY <3>3 DEF RequiredPerTenant
      <4> QED BY <3>3, <4>1 DEF Wanted, Lists, Users
    <3>4. CASE m \notin {"vs_list", "pool_list", "vsvip_list"}
      <4>1. Enabled(m)
        BY <3>4 DEF RequiredPerTenant
      <4>2. m \notin Lists
        BY <2>1, <3>4 DEF Lists
      <4> QED BY <2>1, <4>1, <4>2 DEF Wanted
    <3> QED BY <3>1, <3>2, <3>3, <3>4
  <2>3. \E j \in 1..12 : TenantPlan[j] = m
    <3>1. /\ TenantPlan[1] = "vs_list" /\ TenantPlan[2] = "vs_inventory"
          /\ TenantPlan[3] = "vs_metrics" /\ TenantPlan[4] = "pool_list"
          /\ TenantPlan[5] = "pool_inventory" /\ TenantPlan[6] = "pool_metrics"
          /\ TenantPlan[7] = "pool_members" /\ TenantPlan[8] = "vsvip_list"
          /\ TenantPlan[9] = "vsvip" /\ TenantPlan[10] = "pool_group"
          /\ TenantPlan[11] = "gslb" /\ TenantPlan[12] = "topology"
      BY DEF TenantPlan
    <3>2. /\ 1 \in 1..12 /\ 2 \in 1..12 /\ 3 \in 1..12 /\ 4 \in 1..12 /\ 5 \in 1..12
          /\ 6 \in 1..12 /\ 7 \in 1..12 /\ 8 \in 1..12 /\ 9 \in 1..12 /\ 10 \in 1..12
          /\ 11 \in 1..12 /\ 12 \in 1..12
      OBVIOUS
    <3> QED BY <2>1, <3>1, <3>2, Zenon DEF TenantModules
  <2> QED BY <2>1, <2>2, <2>3
<1> QED BY <1>1, <1>2

\* A runner at the end of its plan without an error has fetched what was due.
LEMMA AllFetched ==
  ASSUME AllDone, NEW r \in Runners, ~bad[r], at[r] = Len(Plan(r)) + 1
  PROVE  \A j \in 1..Len(Plan(r)) : Due(Plan(r)[j], targets) => Plan(r)[j] \in ok[r]
BY PlanOf DEF AllDone, DoneUpTo

LEMMA WorkerFetched ==
  ASSUME AllDone, DoneByWorkers, NEW t \in TenantNames, ~bad[t],
         at[t] = Len(Plan(t)) + 1, NEW m \in RequiredPerTenant
  PROVE  m \in ok[t] /\ m \in TenantModules /\ st[<<m, t>>].lastOk = cycle
<1>1. t \in Runners /\ Plan(t) = TenantPlan /\ Len(Plan(t)) = 12
  BY MainIsNoTenant, PlanOf DEF Runners
<1>2. Due(m, targets) /\ \E j \in 1..12 : TenantPlan[j] = m
  BY RequiredInPlan DEF Due
<1>3. m \in ok[t]
  BY <1>1, <1>2, AllFetched
<1> QED BY <1>3 DEF DoneByWorkers

\* A worker at the end of its plan, and the others' steps, seen from avi_up.
LEMMA UpStays ==
  ASSUME TypeOK, NEW t \in TenantNames, [Next]_vars, up'[t] = "up",
         ~Finish(t), ~RecordSuccess(t), ~RecordFailure(t)
  PROVE  /\ up[t] = "up"
         /\ \A m \in TenantModules : /\ st'[<<m, t>>].lastOk = st[<<m, t>>].lastOk
                                     /\ st'[<<m, t>>].failing = st[<<m, t>>].failing
<1>0. \A m \in TenantModules : <<m, t>> \in StateKeys
  BY DEF StateKeys
<1>1. CASE UNCHANGED <<st, up>>
  BY <1>1
<1>2. ASSUME NEW next, SetTenants(next)
      PROVE  up[t] = "up" /\ \A m \in TenantModules : st'[<<m, t>>] = st[<<m, t>>]
  <2>1. t \notin tenants \ next
    BY <1>2 DEF SetTenants
  <2> QED BY <1>0, <1>2, <2>1 DEF SetTenants
<1>3. ASSUME NEW r \in Runners, r # t, RecordSuccess(r) \/ RecordFailure(r)
      PROVE  up[t] = "up" /\ \A m \in TenantModules : st'[<<m, t>>] = st[<<m, t>>]
  <2>1. \A m \in TenantModules : <<m, t>> # StateKey(Module(r), r)
    BY <1>3, OwnKey
  <2>2. up[t] = "up"
    BY <1>3 DEF RecordSuccess, RecordFailure
  <2> QED BY <1>0, <1>3, <2>1, <2>2 DEF RecordSuccess, RecordFailure, TypeOK
<1>4. ASSUME NEW k \in StateKeys, GoStale(k)
      PROVE  /\ up[t] = "up"
             /\ \A m \in TenantModules : /\ st'[<<m, t>>].lastOk = st[<<m, t>>].lastOk
                                         /\ st'[<<m, t>>].failing = st[<<m, t>>].failing
  <2>1. up[t] = "up"
    BY <1>4 DEF GoStale
  <2> QED BY <1>0, <1>4, <2>1 DEF GoStale, TypeOK, Record
<1>5. ASSUME NEW q \in TenantNames, Finish(q)
      PROVE  up[t] = "up" /\ UNCHANGED st
  BY <1>5 DEF Finish, TypeOK
<1>6. \/ UNCHANGED <<st, up>> \/ \E next : SetTenants(next)
      \/ \E r \in Runners : RecordSuccess(r) \/ RecordFailure(r)
      \/ \E k \in StateKeys : GoStale(k)
      \/ \E q \in TenantNames : Finish(q)
  BY DEF Next, Progress, MainStep, Rest, ModuleStep, WorkerStep, Begin, Fallback, Launch,
         Join, Cancel, Fetch, Render, Enter, EnterLate, Acquire, GiveUp, Skip, vars
<1> QED BY <1>1, <1>2, <1>3, <1>4, <1>5, <1>6

\* A worker at work goes on until it finishes.
LEMMA WorkGoesOn ==
  ASSUME TypeOK, WorkersBelong, NEW t \in TenantNames, [Next]_vars,
         pc[t] \in Working \/ RecordSuccess(t) \/ RecordFailure(t), ~Finish(t)
  PROVE  pc'[t] \in Working
<1>0. t \in Runners /\ t # Main /\ TenantNames \subseteq Runners
  BY MainIsNoTenant DEF Runners
<1>1. pc[t] \in Working
  BY DEF RecordSuccess, RecordFailure, Working
<1>2. CASE Still(t)
  BY <1>1, <1>2 DEF Still
<1>3. CASE MainStep \/ Cancel \/ UNCHANGED vars \/ \E k \in StateKeys : GoStale(k)
  <2>1. pc[Main] = "join"
    BY <1>0, <1>1, MainAlone DEF Working
  <2>2. ~MainStep
    BY <1>1, <2>1 DEF MainStep, Begin, Fallback, Launch, Join, Working
  <2> QED BY <1>2, <1>3, <2>2 DEF Cancel, vars, runnerVars, GoStale, Still
<1>4. ASSUME NEW q \in TenantNames, WorkerStep(q) PROVE pc'[t] \in Working
  <2>1. CASE q # t
    BY <1>0, <1>2, <1>4, <2>1, OthersStay
  <2>2. CASE q = t
    BY <1>1, <1>4, <2>2 DEF WorkerStep, Enter, EnterLate, Acquire, GiveUp, Working
  <2> QED BY <2>1, <2>2
<1>5. ASSUME NEW r \in Runners, ModuleStep(r) PROVE pc'[t] \in Working
  <2>1. CASE r # t
    BY <1>0, <1>2, <1>5, <2>1, OthersStay
  <2>2. CASE r = t /\ (Fetch(t) \/ Render(t))
    BY <1>0, <2>2 DEF Fetch, Render, TypeOK, ControlOK, Working
  <2>3. CASE r = t /\ (RecordSuccess(t) \/ RecordFailure(t))
    <3>1. pc[t] \in Attempting /\ at[t] + 1 \in 1..(Len(Plan(t)) + 1)
      BY <1>0, <2>3, After DEF RecordSuccess, RecordFailure, Attempting
    <3>2. Module(t) # "tenant_discovery"
      BY <3>1, WorkerModule DEF TypeOK
    <3>3. \E done : Continue(t, at[t] + 1, done, targets)
      BY <2>3, <3>2 DEF RecordSuccess, RecordFailure
    <3> QED BY <1>0, <3>1, <3>3, WorkerContinues DEF Working
  <2> QED BY <1>5, <2>1, <2>2, <2>3 DEF ModuleStep
<1> QED BY <1>3, <1>4, <1>5 DEF Next, Progress, Rest

LEMMA NextUp ==
  /\ TypeOK /\ WorkersBelong /\ Counted /\ DoneByWorkers /\ AtEnd /\ AllDone
  /\ NoneFailing /\ UpMeansAllSucceeded /\ [Next]_vars
  => UpMeansAllSucceeded'
<1> SUFFICES ASSUME TypeOK, WorkersBelong, Counted, DoneByWorkers, AtEnd, AllDone,
                    NoneFailing, UpMeansAllSucceeded, [Next]_vars,
                    NEW t \in TenantNames, up'[t] = "up", pc'[t] \notin Working
             PROVE  \E c \in 1..cycle' : \A m \in RequiredPerTenant :
                      st'[<<m, t>>].lastOk = c /\ ~st'[<<m, t>>].failing
  BY DEF UpMeansAllSucceeded
<1>0. cycle \in Nat /\ t \in Runners /\ \A m \in RequiredPerTenant : m \in TenantModules
  BY RequiredInPlan, CacheAssumption DEF TypeOK, Runners
<1>1. CASE Finish(t)
  <2>1. ~bad[t] /\ at[t] = Len(Plan(t)) + 1 /\ UNCHANGED <<st, cycle>>
    BY <1>0, <1>1 DEF Finish, AtEnd, TypeOK
  <2>2. cycle \in 1..cycle
    BY <1>0, <1>1 DEF Finish, Counted, WorkersBelong
  <2>3. \A m \in RequiredPerTenant : st[<<m, t>>].lastOk = cycle /\ ~st[<<m, t>>].failing
    BY <2>1, WorkerFetched DEF NoneFailing
  <2> QED BY <2>1, <2>2, <2>3
<1>2. CASE ~Finish(t)
  <2>1. pc[t] \notin Working /\ ~RecordSuccess(t) /\ ~RecordFailure(t)
    BY <1>2, WorkGoesOn
  <2>2. /\ up[t] = "up"
        /\ \A m \in TenantModules : /\ st'[<<m, t>>].lastOk = st[<<m, t>>].lastOk
                                    /\ st'[<<m, t>>].failing = st[<<m, t>>].failing
    BY <1>2, <2>1, UpStays
  <2>3. PICK c \in 1..cycle : \A m \in RequiredPerTenant :
          st[<<m, t>>].lastOk = c /\ ~st[<<m, t>>].failing
    BY <2>1, <2>2 DEF UpMeansAllSucceeded
  <2>4. c \in 1..cycle'
    <3>1. cycle' = cycle \/ cycle' = cycle + 1
      BY Effects DEF Begin
    <3> QED BY <1>0, <3>1
  <2>5. \A m \in RequiredPerTenant : st'[<<m, t>>].lastOk = c /\ ~st'[<<m, t>>].failing
    BY <1>0, <2>2, <2>3
  <2> QED BY <2>4, <2>5
<1> QED BY <1>1, <1>2

-----------------------------------------------------------------------------
\* The three parts of what readiness asks for.
LEMMA RequiredParts ==
  ASSUME NEW tenantSet, NEW k \in RequiredKeys(tenantSet)
  PROVE  \/ k = <<k[1], Main>> /\ k[1] \in RequiredMain
         \/ k = <<"admin_vs_metrics", "admin">> /\ CollectsAdminVS(ExpectedTenants(tenantSet))
         \/ k = <<k[1], k[2]>> /\ k[1] \in RequiredPerTenant /\ k[2] \in ExpectedTenants(tenantSet)
<1>1. CASE k \in RequiredMain \X {""}
  <2>1. k = <<k[1], k[2]>> /\ k[1] \in RequiredMain /\ k[2] \in {""}
    BY <1>1, PairOf
  <2> QED BY <2>1 DEF Main
<1>2. CASE /\ CollectsAdminVS(ExpectedTenants(tenantSet))
           /\ k = <<"admin_vs_metrics", "admin">>
  BY <1>2
<1>3. CASE k \in RequiredPerTenant \X ExpectedTenants(tenantSet)
  BY <1>3, PairOf
<1> QED BY <1>1, <1>2, <1>3 DEF RequiredKeys

LEMMA RequiredStates ==
  ASSUME TypeOK, NEW k \in RequiredKeys(tenants)
  PROVE  k \in StateKeys
<1>1. ExpectedTenants(tenants) \subseteq TenantNames
  BY StaticTenantsType DEF ExpectedTenants, TypeOK
<1> QED BY <1>1, RequiredParts, RequiredInPlan DEF StateKeys

\* wg.Wait returns: every worker is done, and what they did is all there is.
LEMMA JoinedFresh ==
  ASSUME TypeOK, WorkersBelong, AtEnd, AllDone, DoneByMain, DoneByWorkers, Launched,
         Configured, Join, \A r \in Runners : ~bad[r], NEW k \in RequiredKeys(tenants)
  PROVE  st[k].lastOk = cycle
<1>0. /\ Main \in Runners /\ TenantNames \subseteq Runners
      /\ pc[Main] = "join" /\ targets = tenants /\ tenants \subseteq TenantNames
  BY DEF Runners, Join, WorkersBelong, TypeOK
<1>1. \A j \in 1..9 : Due(MainPlan[j], targets) => MainPlan[j] \in ok[Main]
  <2>1. at[Main] = Len(Plan(Main)) + 1 /\ Plan(Main) = MainPlan /\ Len(Plan(Main)) = 9
    BY <1>0, PlanOf DEF AtEnd
  <2> QED BY <1>0, <2>1, AllFetched
<1>2. CASE k = <<k[1], Main>> /\ k[1] \in RequiredMain
  <2>1. k[1] \in ok[Main]
    BY <1>1, <1>2, RequiredInPlan DEF Due
  <2>2. StateKey(k[1], Main) = k
    BY <1>2, RequiredInPlan DEF StateKey
  <2> QED BY <2>1, <2>2 DEF DoneByMain
<1>3. CASE /\ CollectsAdminVS(ExpectedTenants(tenants))
           /\ k = <<"admin_vs_metrics", "admin">>
  <2>1. Wildcard /\ Enabled("vs_metrics") /\ Enabled("admin_vs_metrics")
        /\ ExpectedTenants(tenants) # {}
    BY <1>3 DEF CollectsAdminVS
  <2>2. ExpectedTenants(tenants) = tenants
    BY <2>1 DEF ExpectedTenants
  <2>3. Wanted("admin_vs_metrics")
    BY <2>1 DEF Wanted, Lists
  <2>4. Due(MainPlan[9], targets) /\ MainPlan[9] = "admin_vs_metrics"
    BY <1>0, <1>3, <2>2, <2>3 DEF Due, MainPlan
  <2>5. "admin_vs_metrics" \in ok[Main]
    BY <1>1, <2>4
  <2> QED BY <1>3, <2>5 DEF DoneByMain, StateKey
<1>4. CASE /\ k = <<k[1], k[2]>> /\ k[1] \in RequiredPerTenant
           /\ k[2] \in ExpectedTenants(tenants)
  <2>1. k[2] \in tenants
    BY <1>0, <1>4 DEF ExpectedTenants, Configured
  <2>2. pc[k[2]] = "done" /\ ~bad[k[2]] /\ k[2] \in Runners /\ k[2] \in TenantNames
    BY <1>0, <2>1 DEF Launched, Join
  <2>3. at[k[2]] = Len(Plan(k[2])) + 1
    BY <2>2 DEF AtEnd
  <2> QED BY <1>4, <2>2, <2>3, WorkerFetched
<1> QED BY <1>2, <1>3, <1>4, RequiredParts

LEMMA NextNil ==
  /\ TypeOK /\ WorkersBelong /\ AtEnd /\ AllDone /\ DoneByMain /\ DoneByWorkers
  /\ Launched /\ Configured /\ NilMeansAllFresh /\ [Next]_vars
  => NilMeansAllFresh'
<1> SUFFICES ASSUME TypeOK, WorkersBelong, AtEnd, AllDone, DoneByMain, DoneByWorkers,
                    Launched, Configured, NilMeansAllFresh, [Next]_vars,
                    pc'[Main] = "idle", result' = "nil",
                    NEW k \in RequiredKeys(tenants')
             PROVE  st'[k].lastOk = cycle'
  BY DEF NilMeansAllFresh, RequiredKeys, ExpectedTenants, CollectsAdminVS
<1>0. Main \in Runners
  BY DEF Runners
<1>1. CASE Join
  <2>1. UNCHANGED <<st, cycle, tenants>> /\ \A r \in Runners : ~bad[r]
    BY <1>1 DEF Join
  <2> QED BY <1>1, <2>1, JoinedFresh
<1>2. CASE ~Join
  <2>1. pc[Main] = "idle"
    <3>1. CASE Begin \/ Fallback
      BY <1>0, <3>1, ContinueToIdle DEF Begin, Fallback
    <3>2. CASE Launch
      BY <1>0, <3>2 DEF Launch
    <3>3. ASSUME NEW t \in TenantNames, WorkerStep(t) PROVE pc[Main] = "idle"
      BY <1>0, <3>3, OthersStay, MainIsNoTenant DEF Still, Runners
    <3>4. ASSUME NEW r \in Runners, ModuleStep(r) PROVE pc[Main] = "idle"
      BY <1>0, <3>4, OthersStay, ModuleToIdle DEF Still
    <3>5. CASE Cancel \/ UNCHANGED vars \/ \E e \in StateKeys : GoStale(e)
      BY <3>5 DEF Cancel, vars, runnerVars, GoStale
    <3> QED BY <1>2, <3>1, <3>2, <3>3, <3>4, <3>5 DEF Next, Progress, MainStep, Rest
  <2>2. ~Begin
    BY <1>0, ContinueToIdle DEF Begin
  <2>3. UNCHANGED vars \/ \E e \in StateKeys : GoStale(e)
    BY <2>1, <2>2, OnlyBegin
  <2>4. UNCHANGED <<cycle, tenants, result>>
        /\ \A e \in StateKeys : st'[e].lastOk = st[e].lastOk
    BY <2>3, StaleEffect DEF GoStale, vars
  <2>5. st[k].lastOk = cycle /\ k \in StateKeys
    BY <2>1, <2>4, RequiredStates DEF NilMeansAllFresh
  <2> QED BY <2>4, <2>5
<1> QED BY <1>1, <1>2

-----------------------------------------------------------------------------
OutcomeInv ==
  /\ CacheInv /\ Counted /\ DoneByWorkers /\ Drawing /\ TopologyBacked
  /\ AtStart /\ AtEnd /\ AllDone /\ DoneByMain /\ NoneFailing /\ Launched /\ Configured
  /\ UpMeansAllSucceeded /\ NilMeansAllFresh

LEMMA InitOutcome == Init => OutcomeInv
<1> SUFFICES ASSUME Init PROVE OutcomeInv
  OBVIOUS
<1>1. TenantNames \subseteq Runners /\ Main \in Runners
  BY DEF Runners
<1>2. Counted /\ Launched /\ Configured
  BY <1>1 DEF Init, Counted, NoState, Launched, Configured
<1>3. DoneByWorkers /\ Drawing /\ DoneByMain /\ NoneFailing /\ AtStart /\ AtEnd
  BY <1>1 DEF Init, DoneByWorkers, Drawing, DoneByMain, NoneFailing, AtStart, AtEnd
<1>4. TopologyBacked
  <2>1. \A t \in TenantNames, m \in TopologyInputs :
          <<"topology", t>> \in RowKeys /\ <<m, t>> \in StateKeys
    BY DEF TopologyInputs, TenantModules, RowKeys, StateKeys, Lists
  <2>2. \A t \in TenantNames, m \in TopologyInputs :
          rows[<<"topology", t>>] = 0 /\ st[<<m, t>>].lastOk = 0
    BY <2>1 DEF Init, NoState
  <2>3. 0 <= 0
    OBVIOUS
  <2> QED BY <2>2, <2>3, Zenon DEF TopologyBacked
<1>5. AllDone
  BY PlanOf DEF Init, AllDone, DoneUpTo
<1>6. UpMeansAllSucceeded /\ NilMeansAllFresh
  BY DEF Init, UpMeansAllSucceeded, NilMeansAllFresh
<1> QED BY <1>2, <1>3, <1>4, <1>5, <1>6, InitCache DEF OutcomeInv

LEMMA OutcomeInvariance == Spec => []OutcomeInv
<1>1. OutcomeInv /\ CacheInv' /\ [Next]_vars => OutcomeInv'
  BY NextCounted, NextDone, NextDrawing, NextBacked, NextAtStart, NextAtEnd, NextAllDone,
     NextDoneByMain, NextNoneFailing, NextLaunched, NextConfigured, NextUp, NextNil
  DEF OutcomeInv, CacheInv
<1> QED BY <1>1, InitOutcome, CacheInvariance, PTL DEF Spec

(* A positive answer of /readyz is no empty promise: every series of a       *)
(* required module has been rendered at least once for every tenant now in   *)
(* e.tenants, although states and series are written under separate holds    *)
(* of cacheMu.                                                               *)
THEOREM ReadyMeansServed == Spec => []ReadyServesData
<1>1. OutcomeInv => ReadyServesData
  BY ReadyServed DEF OutcomeInv, CacheInv
<1> QED BY <1>1, OutcomeInvariance, PTL

(* The graph of a tenant is never more recent than the lists, groups and     *)
(* members it was drawn from, however refreshes fail or are cancelled:       *)
(* refreshTenant redraws it only with all of them fetched.                   *)
THEOREM TopologyBehindInputs == Spec => []TopologyNotAhead
<1>1. OutcomeInv => TopologyNotAhead
  BY NotAhead DEF OutcomeInv, CacheInv
<1> QED BY <1>1, OutcomeInvariance, PTL

(* avi_up = 1 outside of a tenant's refresh means that one refresh fetched   *)
(* every required module of the tenant and that none has failed since: the   *)
(* end of refreshTenant sees the errors of all its modules, those skipped    *)
(* for want of their list included.                                          *)
THEOREM UpIsEarned == Spec => []UpMeansAllSucceeded
<1>1. OutcomeInv => UpMeansAllSucceeded
  BY DEF OutcomeInv
<1> QED BY <1>1, OutcomeInvariance, PTL

(* RefreshOnce returns nil only when this very refresh fetched everything    *)
(* readiness asks for, of every tenant it found: no module and no worker is  *)
(* passed over without an error (the errors are joined after wg.Wait).       *)
THEOREM NilIsEarned == Spec => []NilMeansAllFresh
<1>1. OutcomeInv => NilMeansAllFresh
  BY DEF OutcomeInv
<1> QED BY <1>1, OutcomeInvariance, PTL

-----------------------------------------------------------------------------
(***************************************************************************)
(* The series of service engines: those of the last answer, and no others. *)
(***************************************************************************)

(* Between Render and Record of a module of service engines, whatever its   *)
(* series show is of this refresh: the earlier answer is gone.              *)
EnginesRendered ==
  pc[Main] = "recordOk" /\ Module(Main) \in OwnerLabelled =>
    \A k \in RowKeys : k[1] = Module(Main) /\ rows[k] # 0 => rows[k] = cycle

\* The refresh's own module, not yet or no longer one that has rendered.
MainElsewhere ==
  /\ pc[Main] # "recordOk"
  /\ pc'[Main] = "recordOk" => Module(Main)' \notin OwnerLabelled

\* A step that leaves the series of the engines, or drops some with a tenant.
LeavesEngines ==
  /\ (Still(Main) /\ cycle' = cycle) \/ MainElsewhere
  /\ \A k \in RowKeys : k[1] \in OwnerLabelled =>
       /\ rows'[k] \in {0, rows[k]}
       /\ st'[<<k[1], Main>>].lastOk = st[<<k[1], Main>>].lastOk

LEMMA OwnerKeys ==
  /\ \A m \in OwnerLabelled : <<m, Main>> \in StateKeys /\ StateKey(m, Main) = <<m, Main>>
  /\ \A m \in OwnerLabelled : \A n, r : StateKey(n, r) = <<m, Main>> => n = m /\ r = Main
  /\ "tenant_discovery" \notin OwnerLabelled
  /\ OwnerLabelled \cap (Lists \union TenantModules) = {}
<1>1. OwnerLabelled \subseteq MainModules \ {"admin_vs_metrics"}
  BY DEF OwnerLabelled, MainModules
<1>2. \A m \in OwnerLabelled : <<m, Main>> \in StateKeys /\ StateKey(m, Main) = <<m, Main>>
  BY <1>1 DEF StateKeys, StateKey
<1>3. \A m \in OwnerLabelled : \A n, r : StateKey(n, r) = <<m, Main>> => n = m /\ r = Main
  BY <1>1 DEF StateKey, Main
<1> QED BY <1>2, <1>3 DEF OwnerLabelled, Lists, TenantModules

\* Where a step leaves the refresh's own module.
LEMMA MainControl ==
  ASSUME TypeOK, [Next]_vars
  PROVE  \/ Still(Main) /\ cycle' = cycle
         \/ MainElsewhere
         \/ RecordSuccess(Main)
         \/ Render(Main)
<1>0. Main \in Runners /\ Len(Plan(Main)) \in Nat
  BY PlanOf DEF Runners
<1>1. CASE Begin
  <2>1. pc[Main] = "idle" /\ Continue(Main, 1, {}, targets')
    BY <1>1 DEF Begin
  <2>2. 1 \in 1..(Len(Plan(Main)) + 1)
    BY <1>0
  <2>3. pc'[Main] # "recordOk"
    BY <1>0, <2>1, <2>2, ContinueTo
  <2> QED BY <2>1, <2>3 DEF MainElsewhere
<1>2. CASE Fallback
  <2>1. pc[Main] = "fallback" /\ Continue(Main, at[Main] + 1, ok[Main], targets')
    BY <1>2 DEF Fallback
  <2>2. at[Main] + 1 \in 1..(Len(Plan(Main)) + 1)
    BY <1>0, <2>1, After DEF Attempting
  <2>3. pc'[Main] # "recordOk"
    BY <1>0, <2>1, <2>2, ContinueTo
  <2> QED BY <2>1, <2>3 DEF MainElsewhere
<1>3. CASE Launch \/ Join
  BY <1>0, <1>3 DEF Launch, Join, MainElsewhere
<1>4. CASE Cancel \/ UNCHANGED vars \/ \E k \in StateKeys : GoStale(k)
  BY <1>4 DEF Cancel, vars, runnerVars, GoStale, Still
<1>5. ASSUME NEW t \in TenantNames, WorkerStep(t) PROVE Still(Main) /\ cycle' = cycle
  <2>1. t \in Runners /\ t # Main
    BY MainIsNoTenant DEF Runners
  <2>2. cycle' = cycle
    BY <1>5 DEF WorkerStep, Enter, EnterLate, Acquire, GiveUp, Skip, Finish
  <2> QED BY <1>0, <1>5, <2>1, <2>2, OthersStay
<1>6. ASSUME NEW r \in Runners, r # Main, ModuleStep(r) PROVE Still(Main) /\ cycle' = cycle
  <2>1. cycle' = cycle
    BY <1>6 DEF ModuleStep, Fetch, Render, RecordSuccess, RecordFailure
  <2> QED BY <1>0, <1>6, <2>1, OthersStay
<1>7. CASE Fetch(Main)
  <2>1. pc[Main] = "fetch" /\ Module(Main)' = Module(Main)
    BY <1>7 DEF Fetch, Module, Plan
  <2>2. pc'[Main] = "recordOk" => Module(Main) \in Lists
    BY <1>0, <1>7 DEF Fetch, TypeOK, ControlOK
  <2> QED BY <2>1, <2>2, OwnerKeys DEF MainElsewhere
<1>8. CASE RecordFailure(Main)
  <2>1. pc[Main] = "recordErr"
    BY <1>8 DEF RecordFailure
  <2>2. at[Main] + 1 \in 1..(Len(Plan(Main)) + 1)
    BY <1>0, <2>1, After DEF Attempting
  <2>3. pc'[Main] # "recordOk"
    <3>1. CASE Module(Main) = "tenant_discovery"
      BY <1>0, <1>8, <3>1 DEF RecordFailure, TypeOK, ControlOK
    <3>2. CASE Module(Main) # "tenant_discovery"
      <4>1. Continue(Main, at[Main] + 1, ok[Main], targets)
        BY <1>8, <3>2 DEF RecordFailure
      <4> QED BY <1>0, <2>2, <4>1, ContinueTo
    <3> QED BY <3>1, <3>2
  <2> QED BY <2>1, <2>3 DEF MainElsewhere
<1> QED
  BY <1>1, <1>2, <1>3, <1>4, <1>5, <1>6, <1>7, <1>8
  DEF Next, Progress, MainStep, ModuleStep, Rest

\* A discovery drops what carries the name of a tenant that left, and no more.
LEMMA RetargetEngines ==
  ASSUME TypeOK, NEW next, Retargets(next), NEW k \in RowKeys, k[1] \in OwnerLabelled
  PROVE  /\ rows'[k] \in {0, rows[k]}
         /\ st'[<<k[1], Main>>].lastOk = st[<<k[1], Main>>].lastOk
<1>1. Main \notin tenants
  BY MainIsNoTenant DEF TypeOK
<1>2. <<k[1], Main>> \in StateKeys /\ <<k[1], Main>>[2] = Main
  BY OwnerKeys
<1> QED BY <1>1, <1>2, SetTenantsEffect DEF Retargets

LEMMA EngineEffects ==
  ASSUME TypeOK, [Next]_vars
  PROVE  \/ LeavesEngines
         \/ RecordSuccess(Main)
         \/ Render(Main) /\ Module(Main) \in OwnerLabelled
<1> SUFFICES ASSUME ~RecordSuccess(Main),
                    ~(Render(Main) /\ Module(Main) \in OwnerLabelled)
             PROVE  LeavesEngines
  OBVIOUS
<1>0. \A m \in OwnerLabelled : <<m, Main>> \in StateKeys
  BY OwnerKeys
<1>1. (Still(Main) /\ cycle' = cycle) \/ MainElsewhere
  <2>1. CASE Render(Main)
    <3>1. pc[Main] = "render" /\ Module(Main)' = Module(Main)
      BY <2>1 DEF Render, Module, Plan
    <3> QED BY <2>1, <3>1 DEF MainElsewhere
  <2> QED BY <2>1, MainControl
<1> SUFFICES ASSUME NEW k \in RowKeys, k[1] \in OwnerLabelled
             PROVE  /\ rows'[k] \in {0, rows[k]}
                    /\ st'[<<k[1], Main>>].lastOk = st[<<k[1], Main>>].lastOk
  BY <1>1 DEF LeavesEngines
<1>2. CASE Begin
  BY <1>2, BeginEffect, RetargetEngines
<1>3. CASE Keeps
  BY <1>0, <1>3 DEF Keeps
<1>4. ASSUME NEW next, Retargets(next)
      PROVE  /\ rows'[k] \in {0, rows[k]}
             /\ st'[<<k[1], Main>>].lastOk = st[<<k[1], Main>>].lastOk
  BY <1>4, RetargetEngines
<1>5. ASSUME NEW r \in Runners, Render(r)
      PROVE  /\ rows'[k] \in {0, rows[k]}
             /\ st'[<<k[1], Main>>].lastOk = st[<<k[1], Main>>].lastOk
  <2>1. Module(r) \notin OwnerLabelled
    <3>1. CASE r = Main
      BY <1>5, <3>1
    <3>2. CASE r # Main
      <4>1. r \in TenantNames /\ pc[r] \in Attempting
        BY <1>5, <3>2 DEF Runners, Render, Attempting
      <4>2. Module(r) \in TenantModules
        BY <4>1, WorkerModule DEF TypeOK
      <4> QED BY <4>2, OwnerKeys
    <3> QED BY <3>1, <3>2
  <2>2. CASE Retargets(targets)
    BY <1>4, <2>2
  <2>3. CASE UNCHANGED <<tenants, st>> /\ rows' = [rows EXCEPT ![Target(r)] = cycle]
    <3>1. Target(r)[1] \notin OwnerLabelled
      BY <2>1 DEF Target, RenderedKey, OwnerLabelled
    <3> QED BY <2>3, <3>1 DEF TypeOK
  <2> QED BY <1>5, <2>1, <2>2, <2>3, RenderEffect
<1>6. ASSUME NEW r \in Runners, RecordSuccess(r)
      PROVE  /\ rows'[k] \in {0, rows[k]}
             /\ st'[<<k[1], Main>>].lastOk = st[<<k[1], Main>>].lastOk
  <2>1. rows' = rows /\ r # Main
    BY <1>6 DEF RecordSuccess
  <2>2. StateKey(Module(r), r) # <<k[1], Main>>
    BY <2>1, OwnerKeys
  <2> QED BY <1>0, <1>6, <2>1, <2>2, SuccessEffect
<1> QED BY <1>2, <1>3, <1>4, <1>5, <1>6, Effects

LEMMA NextEngines ==
  TypeOK /\ EnginesOfLastAnswer /\ EnginesRendered /\ [Next]_vars
    => (EnginesOfLastAnswer /\ EnginesRendered)'
<1> SUFFICES ASSUME TypeOK, EnginesOfLastAnswer, EnginesRendered, [Next]_vars
             PROVE  EnginesOfLastAnswer' /\ EnginesRendered'
  OBVIOUS
<1>1. CASE LeavesEngines
  <2>1. CASE Still(Main) /\ cycle' = cycle
    <3>1. Module(Main)' = Module(Main) /\ pc'[Main] = pc[Main]
      BY <2>1 DEF Still, Module, Plan
    <3> QED BY <1>1, <2>1, <3>1 DEF LeavesEngines, EnginesOfLastAnswer, EnginesRendered
  <2>2. CASE MainElsewhere
    BY <1>1, <2>2 DEF MainElsewhere, LeavesEngines, EnginesOfLastAnswer, EnginesRendered
  <2> QED BY <1>1, <2>1, <2>2 DEF LeavesEngines
<1>2. CASE RecordSuccess(Main)
  <2>0. Main \in Runners /\ pc[Main] = "recordOk" /\ rows' = rows
    BY <1>2 DEF RecordSuccess, Runners
  <2>1. pc'[Main] # "recordOk"
    <3>1. at[Main] + 1 \in 1..(Len(Plan(Main)) + 1)
      BY <2>0, After DEF Attempting
    <3>2. Continue(Main, at[Main] + 1, ok[Main] \union {Module(Main)}, targets)
      BY <1>2 DEF RecordSuccess
    <3> QED BY <2>0, <3>1, <3>2, ContinueTo
  <2>2. ASSUME NEW k \in RowKeys, k[1] \in OwnerLabelled, rows'[k] # 0
        PROVE  rows'[k] = st'[<<k[1], Main>>].lastOk
    <3>1. <<k[1], Main>> \in StateKeys
      BY <2>2, OwnerKeys
    <3>2. CASE Module(Main) = k[1]
      <4>1. StateKey(Module(Main), Main) = <<k[1], Main>>
        BY <2>2, <3>2, OwnerKeys
      <4>2. rows[k] = cycle
        BY <2>0, <2>2, <3>2 DEF EnginesRendered
      <4> QED BY <1>2, <2>0, <3>1, <4>1, <4>2, SuccessEffect
    <3>3. CASE Module(Main) # k[1]
      <4>1. StateKey(Module(Main), Main) # <<k[1], Main>>
        BY <2>2, <3>3, OwnerKeys
      <4>2. rows[k] = st[<<k[1], Main>>].lastOk
        BY <2>0, <2>2, <3>3 DEF EnginesOfLastAnswer
      <4> QED BY <1>2, <2>0, <3>1, <4>1, <4>2, SuccessEffect
    <3> QED BY <3>2, <3>3
  <2> QED BY <2>1, <2>2 DEF EnginesOfLastAnswer, EnginesRendered
<1>3. CASE Render(Main) /\ Module(Main) \in OwnerLabelled
  <2>0. /\ Main \in Runners /\ pc[Main] = "render" /\ pc'[Main] = "recordOk"
        /\ Module(Main)' = Module(Main) /\ cycle' = cycle /\ st' = st
        /\ RenderOwned(Module(Main))
    BY <1>3, OwnerKeys DEF Render, Runners, Module, Plan, TypeOK, ControlOK
  <2>1. PICK owners \in SUBSET TenantNames :
          rows' = [k \in RowKeys |->
                     IF k[1] # Module(Main) THEN rows[k]
                     ELSE IF k[2] \in owners THEN cycle ELSE 0]
    BY <2>0 DEF RenderOwned
  <2>2. ASSUME NEW k \in RowKeys
        PROVE  rows'[k] = IF k[1] # Module(Main) THEN rows[k]
                          ELSE IF k[2] \in owners THEN cycle ELSE 0
    BY <2>1
  <2> QED BY <2>0, <2>2 DEF EnginesOfLastAnswer, EnginesRendered
<1> QED BY <1>1, <1>2, <1>3, EngineEffects

(* Whatever tenants the engines of earlier answers belonged to, exported or  *)
(* not, nothing of those answers is left beside the latest: the series a     *)
(* scrape finds for service engines are all of the answer their module's     *)
(* last success names, or of the one rendered and not yet recorded.          *)
THEOREM EnginesAreOfLastAnswer == Spec => []EnginesOfLastAnswer
<1>1. Init => EnginesOfLastAnswer /\ EnginesRendered
  BY DEF Init, EnginesOfLastAnswer, EnginesRendered, Runners
<1>2. (TypeOK /\ EnginesOfLastAnswer /\ EnginesRendered) /\ [Next]_vars
        => (TypeOK /\ EnginesOfLastAnswer /\ EnginesRendered)'
  BY NextType, NextEngines
<1> QED BY <1>1, <1>2, InitType, PTL DEF Spec
=============================================================================
