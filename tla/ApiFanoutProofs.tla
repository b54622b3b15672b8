---------------------------- MODULE ApiFanoutProofs ----------------------------
(***************************************************************************)
(* Theorems about ApiFanout, for any tenants and pools, any number of      *)
(* slots, and contexts that end at any moment.                             *)
(***************************************************************************)
EXTENDS ApiFanout, TLAPS

(* Outside pool_members nothing of it is left: no goroutine that could      *)
(* append to what a later refresh renders, no context, no pools.            *)
Quiet ==
  \A t \in Tenants : tenant[t] # "members" =>
    /\ listed[t] = {} /\ gathered[t] = {} /\ ~moduleDone[t] /\ ~failed[t]
    /\ \A p \in Pools : pool[t][p] = "none"

(* A pool of the list has been gathered or has a goroutine, as long as the  *)
(* context is not done and no call has failed.                              *)
AccountedFor(t) ==
  /\ gathered[t] \subseteq listed[t]
  /\ \A p \in Pools : pool[t][p] # "none" => p \in listed[t]
  /\ ~moduleDone[t] /\ ~failed[t] =>
       \A p \in listed[t] : p \in gathered[t] \/ pool[t][p] # "none"

Accounted == \A t \in Tenants : AccountedFor(t)

IInv == TypeOK /\ Quiet /\ Accounted /\ AllOrNothing

-----------------------------------------------------------------------------
(* A goroutine of a pool moves alone. *)
LEMMA PoolMoves ==
  ASSUME TypeOK, NEW t \in Tenants, NEW p \in Pools,
         NEW where \in {"none", "start", "wait", "call"}, GoPool(t, p, where)
  PROVE  /\ pool' \in [Tenants -> [Pools -> {"none", "start", "wait", "call"}]]
         /\ \A u \in Tenants, q \in Pools :
              pool'[u][q] = IF u = t /\ q = p THEN where ELSE pool[u][q]
  BY DEF TypeOK, GoPool

(* Steps of a tenant that is not in pool_members and does not get there.    *)
LEMMA QueueStep ==
  ASSUME IInv, NEW t \in Tenants, NEW where \in {"wait", "list", "done"},
         tenant[t] # "members", Go(t, where),
         UNCHANGED <<refreshDone, moduleDone, pool, listed, gathered, failed, whole>>
  PROVE  IInv'
<1>1. tenant' \in [Tenants -> {"start", "wait", "list", "members", "done"}]
      /\ \A u \in Tenants : tenant'[u] # "members" => tenant[u] # "members"
  BY DEF IInv, TypeOK, Go
<1> QED  BY <1>1 DEF IInv, TypeOK, Quiet, Accounted, AccountedFor, AllOrNothing

LEMMA SpawnStep ==
  ASSUME IInv, Spawn
  PROVE  IInv'
  BY DEF IInv, TypeOK, Quiet, Accounted, AccountedFor, AllOrNothing, Spawn

(* Every pool of the list has a goroutine to begin with. *)
LEMMA ListStep ==
  ASSUME IInv, NEW t \in Tenants, NEW items \in SUBSET Pools, List(t, items)
  PROVE  IInv'
  BY DEF IInv, TypeOK, Quiet, Accounted, AccountedFor, AllOrNothing, List, Go

(* A goroutine moves on, or leaves because the context is done. *)
LEMMA PoolLeaveStep ==
  ASSUME IInv, NEW t \in Tenants, NEW p \in Pools,
         NEW where \in {"none", "wait", "call"},
         pool[t][p] # "none", where = "none" => moduleDone[t], GoPool(t, p, where),
         UNCHANGED <<refreshDone, moduleDone, tenant, listed, gathered, failed, whole>>
  PROVE  IInv'
<1>1. /\ pool' \in [Tenants -> [Pools -> {"none", "start", "wait", "call"}]]
      /\ \A u \in Tenants, q \in Pools :
           pool'[u][q] = IF u = t /\ q = p THEN where ELSE pool[u][q]
  BY PoolMoves DEF IInv
<1>2. TypeOK' /\ AllOrNothing'
  BY <1>1 DEF IInv, TypeOK, AllOrNothing
<1>3. Quiet'
  BY <1>1 DEF IInv, Quiet
<1>4. Accounted'
  <2> SUFFICES ASSUME NEW u \in Tenants PROVE AccountedFor(u)'
    BY DEF Accounted
  <2>1. AccountedFor(u) /\ listed[u] \subseteq Pools
    BY DEF IInv, TypeOK, Accounted
  <2>2. CASE u = t
    BY <1>1, <2>1, <2>2 DEF AccountedFor
  <2>3. CASE u # t
    <3>1. \A q \in Pools : pool'[u][q] = pool[u][q]
      BY <1>1, <2>3
    <3> QED  BY <2>1, <3>1 DEF AccountedFor
  <2> QED  BY <2>2, <2>3
<1> QED  BY <1>2, <1>3, <1>4 DEF IInv

(* A call ends: its pool is gathered, or the module has failed. *)
LEMMA PoolCallStep ==
  ASSUME IInv, NEW t \in Tenants, NEW p \in Pools, PoolAnswers(t, p) \/ PoolFails(t, p)
  PROVE  IInv'
<1>1. /\ pool' \in [Tenants -> [Pools -> {"none", "start", "wait", "call"}]]
      /\ \A u \in Tenants, q \in Pools :
           pool'[u][q] = IF u = t /\ q = p THEN "none" ELSE pool[u][q]
  BY PoolMoves DEF IInv, PoolAnswers, PoolFails
<1>2. /\ UNCHANGED <<refreshDone, moduleDone, tenant, listed, whole>>
      /\ pool[t][p] = "call" /\ p \in listed[t]
  BY DEF PoolAnswers, PoolFails, IInv, Accounted, AccountedFor
<1>3. /\ gathered' \in [Tenants -> SUBSET Pools] /\ failed' \in [Tenants -> BOOLEAN]
      /\ \A u \in Tenants \ {t} : gathered'[u] = gathered[u] /\ failed'[u] = failed[u]
      /\ \/ gathered'[t] = gathered[t] \union {p} /\ failed'[t] = failed[t]
         \/ gathered'[t] = gathered[t] /\ failed'[t]
  <2>1. CASE PoolAnswers(t, p)
    BY <2>1 DEF PoolAnswers, IInv, TypeOK
  <2>2. CASE PoolFails(t, p)
    BY <2>2 DEF PoolFails, IInv, TypeOK
  <2> QED  BY <2>1, <2>2
<1>4. TypeOK' /\ AllOrNothing'
  BY <1>1, <1>2, <1>3 DEF IInv, TypeOK, AllOrNothing
<1>5. tenant[t] = "members"
  BY <1>2 DEF IInv, Quiet
<1>6. Quiet'
  BY <1>1, <1>2, <1>3, <1>5 DEF IInv, Quiet
<1>7. Accounted'
  <2> SUFFICES ASSUME NEW u \in Tenants PROVE AccountedFor(u)'
    BY DEF Accounted
  <2>1. AccountedFor(u) /\ listed[u] \subseteq Pools
    BY DEF IInv, TypeOK, Accounted
  <2>2. CASE u = t
    <3>1. \A q \in Pools : pool'[t][q] = IF q = p THEN "none" ELSE pool[t][q]
      BY <1>1
    <3> QED  BY <1>2, <1>3, <2>1, <2>2, <3>1 DEF AccountedFor
  <2>3. CASE u # t
    <3>1. \A q \in Pools : pool'[u][q] = pool[u][q]
      BY <1>1, <2>3
    <3>2. gathered'[u] = gathered[u] /\ failed'[u] = failed[u]
          /\ listed'[u] = listed[u] /\ moduleDone'[u] = moduleDone[u]
      BY <1>2, <1>3, <2>3
    <3> QED  BY <2>1, <3>1, <3>2 DEF AccountedFor
  <2> QED  BY <2>2, <2>3
<1> QED  BY <1>4, <1>6, <1>7 DEF IInv

(* When all have left, a module that is neither done nor failed has what it *)
(* listed.                                                                  *)
LEMMA CollectStep ==
  ASSUME IInv, NEW t \in Tenants, Collect(t)
  PROVE  IInv'
<1>1. ~moduleDone[t] /\ ~failed[t] => gathered[t] = listed[t]
  BY DEF IInv, TypeOK, Accounted, AccountedFor, Collect, AllLeft
<1>2. AllOrNothing'
  BY <1>1 DEF IInv, TypeOK, AllOrNothing, Collect
<1>3. TypeOK'
  BY DEF IInv, TypeOK, Collect, Leave, Go
<1>4. /\ \A p \in Pools : pool[t][p] = "none"
      /\ listed'[t] = {} /\ gathered'[t] = {} /\ ~moduleDone'[t] /\ ~failed'[t]
      /\ \A u \in Tenants \ {t} :
           /\ listed'[u] = listed[u] /\ gathered'[u] = gathered[u]
           /\ moduleDone'[u] = moduleDone[u] /\ failed'[u] = failed[u]
           /\ tenant'[u] = tenant[u]
      /\ pool' = pool
  BY DEF IInv, TypeOK, Collect, Leave, Go, AllLeft
<1>5. Quiet'
  BY <1>4 DEF IInv, Quiet
<1>6. Accounted'
  BY <1>4 DEF IInv, Accounted, AccountedFor
<1> QED  BY <1>2, <1>3, <1>5, <1>6 DEF IInv

(* Contexts end only where there is one. *)
LEMMA DeadlineStep ==
  ASSUME IInv, RefreshDeadline \/ \E t \in Tenants : ModuleDeadline(t)
  PROVE  IInv'
<1>1. /\ UNCHANGED <<tenant, pool, listed, gathered, failed, whole>>
      /\ moduleDone' \in [Tenants -> BOOLEAN] /\ refreshDone' \in BOOLEAN
      /\ \A t \in Tenants :
           (moduleDone'[t] => tenant[t] = "members") /\ (moduleDone[t] => moduleDone'[t])
  <2>1. \A t \in Tenants : moduleDone[t] => tenant[t] = "members"
    BY DEF IInv, Quiet
  <2>2. CASE RefreshDeadline
    BY <2>1, <2>2 DEF RefreshDeadline
  <2>3. CASE \E t \in Tenants : ModuleDeadline(t)
    BY <2>1, <2>3 DEF ModuleDeadline, IInv, TypeOK
  <2> QED  BY <2>2, <2>3
<1>2. TypeOK'
  BY <1>1 DEF IInv, TypeOK
<1>3. Quiet'
  BY <1>1 DEF IInv, Quiet
<1>4. AllOrNothing'
  BY <1>1 DEF IInv, AllOrNothing
<1>5. Accounted'
  BY <1>1 DEF IInv, Accounted, AccountedFor
<1> QED  BY <1>2, <1>3, <1>4, <1>5 DEF IInv

LEMMA Invariance == Spec => []IInv
<1>1. Init => IInv
  <2> SUFFICES ASSUME Init PROVE IInv
    OBVIOUS
  <2>1. TypeOK
    BY DEF Init, TypeOK
  <2>2. Quiet /\ Accounted /\ AllOrNothing
    BY DEF Init, Quiet, Accounted, AccountedFor, AllOrNothing
  <2> QED  BY <2>1, <2>2 DEF IInv
<1>2. IInv /\ [Next]_vars => IInv'
  <2> SUFFICES ASSUME IInv, [Next]_vars PROVE IInv'
    OBVIOUS
  <2>1. ASSUME NEW t \in Tenants,
               TenantQueue(t) \/ TenantEnter(t) \/ TenantGiveUp(t) \/ ListFails(t)
        PROVE  IInv'
    BY <2>1, QueueStep DEF TenantQueue, TenantEnter, TenantGiveUp, ListFails
  <2>3. ASSUME NEW t \in Tenants, NEW p \in Pools,
               PoolQueue(t, p) \/ PoolEnter(t, p) \/ PoolGiveUp(t, p)
        PROVE  IInv'
    BY <2>3, PoolLeaveStep DEF PoolQueue, PoolEnter, PoolGiveUp
  <2>2. CASE UNCHANGED vars
    BY <2>2 DEF vars, IInv, TypeOK, Quiet, Accounted, AccountedFor, AllOrNothing
  <2> QED
    BY <2>1, <2>2, <2>3, SpawnStep, ListStep, PoolCallStep, CollectStep, DeadlineStep
       DEF Next, TenantStep, PoolStep
<1> QED  BY <1>1, <1>2, PTL DEF Spec

-----------------------------------------------------------------------------
(* Every goroutine of a refresh is where its code can be.                   *)
THEOREM FanoutTypeCorrect == Spec => []TypeOK
<1>1. IInv => TypeOK
  BY DEF IInv
<1> QED  BY <1>1, Invariance, PTL

(* pool_members serves the rows of every pool of its list, or keeps those   *)
(* it had.                                                                  *)
THEOREM MembersAllOrNothing == Spec => []AllOrNothing
<1>1. IInv => AllOrNothing
  BY DEF IInv
<1> QED  BY <1>1, Invariance, PTL

(* No goroutine of a pool outlives the module that started it.              *)
THEOREM NoPoolLeftBehind ==
  Spec => [](\A t \in Tenants : tenant[t] # "members" => AllLeft(t))
<1>1. IInv => \A t \in Tenants : tenant[t] # "members" => AllLeft(t)
  BY DEF IInv, Quiet, AllLeft
<1> QED  BY <1>1, Invariance, PTL
=============================================================================
