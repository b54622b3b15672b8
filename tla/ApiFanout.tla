------------------------------- MODULE ApiFanout -------------------------------
(***************************************************************************)
(* The two levels of goroutines of a refresh: refreshTenantSet starts one  *)
(* per tenant behind a semaphore of e.parallelism slots, and under it      *)
(* collectPoolMemberDetails starts one per pool behind a semaphore of its  *)
(* own, of as many slots.  Each level checks its context before it queues  *)
(* for a slot and again while it queues, and waits for the goroutines it   *)
(* started.                                                                *)
(*                                                                         *)
(* A tenant's other requests are made one after another; they stand as one *)
(* call, the pool list.  A context, once done, stays done.                 *)
(***************************************************************************)
EXTENDS FiniteSets, Naturals

CONSTANTS
  Tenants,      \* the tenants of the exporter
  Pools,        \* bound: the pools a tenant may have
  Parallelism   \* e.parallelism

ASSUME FanoutAssumption ==
  /\ IsFiniteSet(Tenants) /\ IsFiniteSet(Pools)
  /\ Parallelism \in Nat \ {0}

VARIABLES
  refreshDone,  \* the context of the refresh is done
  moduleDone,   \* [tenant -> the context of its pool_members module is done]
  tenant,       \* [tenant -> where its goroutine is]
  pool,         \* [tenant -> [pool -> where its goroutine is]]
  listed,       \* [tenant -> the pool list pool_members works on]
  gathered,     \* [tenant -> pools whose members have been appended]
  failed,       \* [tenant -> has a pool call failed?]
  whole         \* [tenant -> were the rows it serves those of its whole pool list?]

vars == <<refreshDone, moduleDone, tenant, pool, listed, gathered, failed, whole>>

Init ==
  /\ refreshDone = FALSE
  /\ moduleDone = [t \in Tenants |-> FALSE]
  /\ tenant = [t \in Tenants |-> "done"]
  /\ pool = [t \in Tenants |-> [p \in Pools |-> "none"]]
  /\ listed = [t \in Tenants |-> {}]
  /\ gathered = [t \in Tenants |-> {}]
  /\ failed = [t \in Tenants |-> FALSE]
  /\ whole = [t \in Tenants |-> TRUE]

Go(t, where) == tenant' = [tenant EXCEPT ![t] = where]
GoPool(t, p, where) == pool' = [pool EXCEPT ![t][p] = where]

\* Requests under way for the pools of t.
Calling(t) == { p \in Pools : pool[t][p] = "call" }

-----------------------------------------------------------------------------
(* refreshTenantSet *)

Working == { t \in Tenants : tenant[t] \in {"list", "members"} }

\* A slot of the tenants' semaphore is free.
TenantSlot == Cardinality(Working) < Parallelism

\* A refresh begins once the one before it has returned.
Spawn ==
  /\ \A t \in Tenants : tenant[t] = "done"
  /\ refreshDone' = FALSE
  /\ tenant' = [t \in Tenants |-> "start"]
  /\ UNCHANGED <<moduleDone, pool, listed, gathered, failed, whole>>

TenantQueue(t) ==
  /\ tenant[t] = "start"
  /\ Go(t, IF refreshDone THEN "done" ELSE "wait")
  /\ UNCHANGED <<refreshDone, moduleDone, pool, listed, gathered, failed, whole>>

TenantEnter(t) ==
  /\ tenant[t] = "wait" /\ TenantSlot
  /\ Go(t, "list")
  /\ UNCHANGED <<refreshDone, moduleDone, pool, listed, gathered, failed, whole>>

TenantGiveUp(t) ==
  /\ tenant[t] = "wait" /\ refreshDone
  /\ Go(t, "done")
  /\ UNCHANGED <<refreshDone, moduleDone, pool, listed, gathered, failed, whole>>

\* The pool list answers: a goroutine for each of its pools.
List(t, items) ==
  /\ tenant[t] = "list"
  /\ listed' = [listed EXCEPT ![t] = items]
  /\ pool' = [pool EXCEPT ![t] =
                [p \in Pools |-> IF p \in items THEN "start" ELSE "none"]]
  /\ moduleDone' = [moduleDone EXCEPT ![t] = refreshDone]
  /\ Go(t, "members")
  /\ UNCHANGED <<refreshDone, gathered, failed, whole>>

\* poolListOK stays false: pool_members does not run.
ListFails(t) ==
  /\ tenant[t] = "list"
  /\ Go(t, "done")
  /\ UNCHANGED <<refreshDone, moduleDone, pool, listed, gathered, failed, whole>>

-----------------------------------------------------------------------------
(* collectPoolMemberDetails *)

\* Mutant: one semaphore for both levels.
PoolSlotShared(t) ==
  Cardinality(Working)
    + Cardinality({ c \in Tenants \X Pools : c[2] \in Calling(c[1]) }) < Parallelism

\* A slot of the semaphore of this tenant's pools is free.
PoolSlot(t) == Cardinality(Calling(t)) < Parallelism

PoolQueue(t, p) ==
  /\ pool[t][p] = "start"
  /\ GoPool(t, p, IF moduleDone[t] THEN "none" ELSE "wait")
  /\ UNCHANGED <<refreshDone, moduleDone, tenant, listed, gathered, failed, whole>>

PoolEnter(t, p) ==
  /\ pool[t][p] = "wait" /\ PoolSlot(t)
  /\ GoPool(t, p, "call")
  /\ UNCHANGED <<refreshDone, moduleDone, tenant, listed, gathered, failed, whole>>

\* Neither a failure nor a result: the goroutine just leaves.
PoolGiveUp(t, p) ==
  /\ pool[t][p] = "wait" /\ moduleDone[t]
  /\ GoPool(t, p, "none")
  /\ UNCHANGED <<refreshDone, moduleDone, tenant, listed, gathered, failed, whole>>

PoolAnswers(t, p) ==
  /\ pool[t][p] = "call"
  /\ GoPool(t, p, "none")
  /\ gathered' = [gathered EXCEPT ![t] = @ \union {p}]
  /\ UNCHANGED <<refreshDone, moduleDone, tenant, listed, failed, whole>>

\* Mutant: the goroutine does not leave the wait group's count.
PoolFailsUncounted(t, p) ==
  /\ pool[t][p] = "call"
  /\ GoPool(t, p, "failed")
  /\ failed' = [failed EXCEPT ![t] = TRUE]
  /\ UNCHANGED <<refreshDone, moduleDone, tenant, listed, gathered, whole>>

PoolFails(t, p) ==
  /\ pool[t][p] = "call"
  /\ GoPool(t, p, "none")
  /\ failed' = [failed EXCEPT ![t] = TRUE]
  /\ UNCHANGED <<refreshDone, moduleDone, tenant, listed, gathered, whole>>

\* wg.Wait() returns
AllLeft(t) == \A p \in Pools : pool[t][p] = "none"

\* The tenant gives its slot back; what the module gathered is gone.
Leave(t) ==
  /\ Go(t, "done")
  /\ moduleDone' = [moduleDone EXCEPT ![t] = FALSE]
  /\ listed' = [listed EXCEPT ![t] = {}]
  /\ gathered' = [gathered EXCEPT ![t] = {}]
  /\ failed' = [failed EXCEPT ![t] = FALSE]

\* Mutant: only failed calls make the module fail.
CollectUnlessFailed(t) ==
  /\ tenant[t] = "members" /\ AllLeft(t)
  /\ whole' = [whole EXCEPT ![t] = IF failed[t] THEN @ ELSE gathered[t] = listed[t]]
  /\ Leave(t)
  /\ UNCHANGED <<refreshDone, pool>>

(* The module's outcome, and its rendering when that is nil. *)
Collect(t) ==
  /\ tenant[t] = "members" /\ AllLeft(t)
  /\ whole' = [whole EXCEPT ![t] =
                  IF moduleDone[t] \/ failed[t] THEN @ ELSE gathered[t] = listed[t]]
  /\ Leave(t)
  /\ UNCHANGED <<refreshDone, pool>>

-----------------------------------------------------------------------------
\* Deadlines: of the refresh, with every context under it, or of one module.
RefreshDeadline ==
  /\ ~refreshDone /\ \E t \in Tenants : tenant[t] # "done"
  /\ refreshDone' = TRUE
  /\ moduleDone' = [t \in Tenants |-> tenant[t] = "members"]
  /\ UNCHANGED <<tenant, pool, listed, gathered, failed, whole>>

ModuleDeadline(t) ==
  /\ tenant[t] = "members" /\ ~moduleDone[t]
  /\ moduleDone' = [moduleDone EXCEPT ![t] = TRUE]
  /\ UNCHANGED <<refreshDone, tenant, pool, listed, gathered, failed, whole>>

TenantStep(t) ==
  \/ TenantQueue(t) \/ TenantEnter(t) \/ TenantGiveUp(t)
  \/ (\E items \in SUBSET Pools : List(t, items)) \/ ListFails(t) \/ Collect(t)

PoolStep(t, p) ==
  \/ PoolQueue(t, p) \/ PoolEnter(t, p) \/ PoolGiveUp(t, p)
  \/ PoolAnswers(t, p) \/ PoolFails(t, p)

Next ==
  \/ Spawn \/ RefreshDeadline
  \/ \E t \in Tenants :
       \/ TenantStep(t) \/ ModuleDeadline(t)
       \/ \E p \in Pools : PoolStep(t, p)

Spec == Init /\ [][Next]_vars

(* The runtime schedules the goroutines and the HTTP client's timeout ends  *)
(* every request: while some goroutine can move, one does.  No deadline is  *)
(* needed, and no fairness between the goroutines either.                   *)
FairSpec ==
  Spec /\ WF_vars(\E t \in Tenants : TenantStep(t) \/ \E p \in Pools : PoolStep(t, p))

-----------------------------------------------------------------------------
TypeOK ==
  /\ refreshDone \in BOOLEAN
  /\ moduleDone \in [Tenants -> BOOLEAN]
  /\ tenant \in [Tenants -> {"start", "wait", "list", "members", "done"}]
  /\ pool \in [Tenants -> [Pools -> {"none", "start", "wait", "call"}]]
  /\ listed \in [Tenants -> SUBSET Pools]
  /\ gathered \in [Tenants -> SUBSET Pools]
  /\ failed \in [Tenants -> BOOLEAN]
  /\ whole \in [Tenants -> BOOLEAN]

(* The rows pool_members serves for a tenant are replaced only by those of  *)
(* every pool of its list, although goroutines that meet a context that is  *)
(* done leave without a trace: the context is asked again after all left.   *)
AllOrNothing == \A t \in Tenants : whole[t]

(* refreshTenantSet returns, deadline or not: no goroutine of one level     *)
(* waits for a slot that only its own parent could give back.               *)
SetReturns == \A t \in Tenants : tenant[t] # "done" ~> tenant[t] = "done"
=============================================================================
