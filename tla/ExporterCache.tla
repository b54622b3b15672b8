---------------------------- MODULE ExporterCache ----------------------------
(***************************************************************************)
(* The snapshot cache of collector/cache.go: RefreshOnce runs the main     *)
(* modules one after the other, then one worker per tenant (at most        *)
(* Parallelism of them at a time), and every module attempt is three       *)
(* separate steps, because the lock is released in between:                *)
(*                                                                         *)
(*   Fetch    the requests to the controller, without the lock             *)
(*   Render   delete the series of the last good answer, write the new     *)
(*            ones (under cacheMu)                                         *)
(*   Record   update the module's state (under cacheMu again)              *)
(*                                                                         *)
(* Scrapes, /readyz and /debug/cache only read the cache under the lock:   *)
(* they may look between any two steps, which is what an invariant does.   *)
(* refreshMu lets one refresh run at a time.                               *)
(*                                                                         *)
(* Data is abstracted to the number of the refresh that fetched it.        *)
(***************************************************************************)
EXTENDS ExporterConfig, FiniteSets

CONSTANTS
  Parallelism,  \* e.parallelism
  MaxCycle,     \* bound: number of refreshes explored
  Aging         \* bound: the modules whose state may grow stale

ASSUME CacheAssumption ==
  /\ Parallelism \in Nat \ {0}
  /\ MaxCycle \in Nat
  /\ Aging \subseteq Modules

VARIABLES
  cycle,    \* number of the current, or last, refresh
  ctxDone,  \* its context is done: refreshTimeout passed, or Stop was called
  tenants,  \* e.tenants
  targets,  \* the tenants of this refresh (a local of RefreshOnce)
  pc,       \* where the refresh ("") and each tenant's worker are
  at,       \* position in the runner's plan
  ok,       \* modules of the runner that succeeded in this refresh
  bad,      \* has the runner recorded an error in this refresh
  st,       \* e.moduleStates
  rows,     \* refresh whose data the series show, 0 when there are none
  up,       \* the avi_up series of each tenant
  result    \* what the last RefreshOnce returned

runnerVars == <<pc, at, ok, bad>>
vars == <<cycle, ctxDone, tenants, targets, runnerVars, st, rows, up, result>>

-----------------------------------------------------------------------------
Main == ""
Runners == TenantNames \union {Main}

Plan(r) == IF r = Main THEN MainPlan ELSE TenantPlan

\* The tenant label a module's state carries: runModule's second argument.
StateKey(m, r) == <<m, IF m = "admin_vs_metrics" THEN "admin" ELSE r>>

StateKeys ==
  { <<m, Main>> : m \in MainModules \ {"admin_vs_metrics"} }
    \union { <<"admin_vs_metrics", "admin">> }
    \union (TenantModules \X TenantNames)

\* Series that carry the name of the tenant owning a service engine.
OwnerLabelled == {"se_config", "se_metrics"}

RowKeys ==
  { <<m, Main>> : m \in {"cluster", "cluster_inventory",
                         "controller_metrics", "se_inventory"} }
    \union (((TenantModules \ Lists) \union OwnerLabelled) \X TenantNames)

NoState == [seen |-> FALSE, lastOk |-> 0, failing |-> FALSE, fresh |-> FALSE]

Module(r) == Plan(r)[at[r]]

\* The next position of r's plan, from i on, that is attempted; one past the
\* end when there is none.
Position(r, i, done, tenantSet) ==
  LET end  == Len(Plan(r)) + 1
      open == { j \in i..Len(Plan(r)) : Attempts(Plan(r)[j], done, tenantSet) }
  IN  IF open = {} THEN end ELSE CHOOSE j \in open : \A k \in open : j <= k

\* Mutant: the end of the plan is missed by one.
ControlOffByOne(r, position) ==
  IF position <= Len(Plan(r)) + 1 THEN "fetch"
  ELSE IF r = Main THEN "launch" ELSE "finish"

Control(r, position) ==
  IF position <= Len(Plan(r)) THEN "fetch"
  ELSE IF r = Main THEN "launch" ELSE "finish"

\* Go on with the plan from position i.
Continue(r, i, done, tenantSet) ==
  LET p == Position(r, i, done, tenantSet) IN
  /\ at' = [at EXCEPT ![r] = p]
  /\ pc' = [pc EXCEPT ![r] = Control(r, p)]

-----------------------------------------------------------------------------
Init ==
  /\ cycle = 0
  /\ ctxDone = FALSE
  /\ tenants = {}
  /\ targets = {}
  /\ pc = [r \in Runners |-> "idle"]
  /\ at = [r \in Runners |-> 1]
  /\ ok = [r \in Runners |-> {}]
  /\ bad = [r \in Runners |-> FALSE]
  /\ st = [k \in StateKeys |-> NoState]
  /\ rows = [k \in RowKeys |-> 0]
  /\ up = [t \in TenantNames |-> "none"]
  /\ result = "none"

\* Mutant: e.tenants is not replaced.
SetTenantsWithoutSwitch(next) ==
  LET gone == tenants \ next IN
  /\ UNCHANGED tenants
  /\ st'   = [k \in StateKeys |-> IF k[2] \in gone THEN NoState ELSE st[k]]
  /\ rows' = [k \in RowKeys |-> IF k[2] \in gone THEN 0 ELSE rows[k]]
  /\ up'   = [t \in TenantNames |-> IF t \in gone THEN "none" ELSE up[t]]

\* Mutant: the module states of a tenant that is gone stay.
SetTenantsKeepingStates(next) ==
  LET gone == tenants \ next IN
  /\ tenants' = next
  /\ rows' = [k \in RowKeys |-> IF k[2] \in gone THEN 0 ELSE rows[k]]
  /\ up'   = [t \in TenantNames |-> IF t \in gone THEN "none" ELSE up[t]]
  /\ UNCHANGED st

\* Mutant: the series of a tenant that is gone stay.
SetTenantsKeepingRows(next) ==
  LET gone == tenants \ next IN
  /\ tenants' = next
  /\ st'   = [k \in StateKeys |-> IF k[2] \in gone THEN NoState ELSE st[k]]
  /\ up'   = [t \in TenantNames |-> IF t \in gone THEN "none" ELSE up[t]]
  /\ UNCHANGED rows

\* removeTenantCacheLocked: every series and every state labelled t goes.
SetTenants(next) ==
  LET gone == tenants \ next IN
  /\ tenants' = next
  /\ st'   = [k \in StateKeys |-> IF k[2] \in gone THEN NoState ELSE st[k]]
  /\ rows' = [k \in RowKeys |-> IF k[2] \in gone THEN 0 ELSE rows[k]]
  /\ up'   = [t \in TenantNames |-> IF t \in gone THEN "none" ELSE up[t]]

\* RefreshOnce up to the first module it attempts.  Without "*" there is
\* nothing to discover.
Begin ==
  /\ pc[Main] = "idle"
  /\ cycle < MaxCycle
  /\ cycle' = cycle + 1
  /\ ctxDone' = FALSE
  /\ ok' = [r \in Runners |-> {}]
  /\ bad' = [r \in Runners |-> FALSE]
  /\ IF Wildcard
       THEN targets' = {} /\ UNCHANGED <<tenants, st, rows, up>>
       ELSE targets' = StaticTenants /\ SetTenants(StaticTenants)
  /\ Continue(Main, 1, {}, targets')
  /\ UNCHANGED result

-----------------------------------------------------------------------------
(***************************************************************************)
(* runModule, for the module at the runner's position.                     *)
(***************************************************************************)

\* Mutant: the topology is rebuilt without asking whether the members are fresh.
CanSucceedWithoutMembers(r) ==
  CASE Module(r) = "topology" -> TopologyInputs \ {"pool_members"} \subseteq ok[r]
    [] Module(r) \in LocalRenders \union {"pool_metrics", "tenant_discovery"} -> TRUE
    [] OTHER -> ~ctxDone

\* Can the attempt succeed?  With a context that is done no request does,
\* but some modules need none: LoginTenants answers from the live session,
\* pool metrics of an empty pool list are not asked for.
CanSucceed(r) ==
  CASE Module(r) = "topology" -> TopologyInputs \subseteq ok[r]
    [] Module(r) \in LocalRenders \union {"pool_metrics", "tenant_discovery"} -> TRUE
    [] OTHER -> ~ctxDone

CanFail(r) ==
  CASE Module(r) = "topology" -> ~(TopologyInputs \subseteq ok[r])
    [] OTHER -> Module(r) \notin LocalRenders

\* The tenants a successful discovery asks for: /login's list, or /api/tenant's
\* when that is empty (a request, so only while the context lives).
Discover ==
  \E loginNames, apiNames \in SUBSET TenantNames :
    /\ ctxDone => loginNames # {}
    /\ targets' = DiscoveredTenants(loginNames, apiNames)

\* Mutant: the old series are deleted before the request is made.
FetchDeletingFirst(r) ==
  /\ pc[r] = "fetch"
  /\ \/ /\ CanSucceed(r)
        /\ IF Module(r) = "tenant_discovery" THEN Discover ELSE UNCHANGED targets
        /\ pc' = [pc EXCEPT ![r] =
                    IF Module(r) \in Lists THEN "recordOk" ELSE "render"]
     \/ /\ CanFail(r)
        /\ pc' = [pc EXCEPT ![r] = "recordErr"]
        /\ UNCHANGED targets
  /\ rows' = [k \in RowKeys |-> IF k = <<Module(r), r>> THEN 0 ELSE rows[k]]
  /\ UNCHANGED <<cycle, ctxDone, tenants, at, ok, bad, st, up, result>>

Fetch(r) ==
  /\ pc[r] = "fetch"
  /\ \/ /\ CanSucceed(r)
        /\ IF Module(r) = "tenant_discovery" THEN Discover ELSE UNCHANGED targets
        /\ pc' = [pc EXCEPT ![r] =
                    IF Module(r) \in Lists THEN "recordOk" ELSE "render"]
     \/ /\ CanFail(r)
        /\ pc' = [pc EXCEPT ![r] = "recordErr"]
        /\ UNCHANGED targets
  /\ UNCHANGED <<cycle, ctxDone, tenants, at, ok, bad, st, rows, up, result>>

\* Mutant: the series of the last answer are not reset.
RenderOwnedOver(m) ==
  \E owners \in SUBSET TenantNames :
    rows' = [k \in RowKeys |-> IF k[1] = m /\ k[2] \in owners THEN cycle ELSE rows[k]]

\* The service engines of the answer may belong to any tenants, and replace
\* all those of the last answer.
RenderOwned(m) ==
  \E owners \in SUBSET TenantNames :
    rows' = [k \in RowKeys |->
               IF k[1] # m THEN rows[k] ELSE IF k[2] \in owners THEN cycle ELSE 0]

\* Raw analytics of admin land in the series vs_metrics renders.
RenderedKey(m, r) ==
  IF m = "admin_vs_metrics" THEN <<"vs_metrics", "admin">> ELSE <<m, r>>

Render(r) ==
  /\ pc[r] = "render"
  /\ pc' = [pc EXCEPT ![r] = "recordOk"]
  /\ \/ /\ Module(r) = "tenant_discovery"
        /\ SetTenants(targets)
     \/ /\ Module(r) \in OwnerLabelled
        /\ RenderOwned(Module(r))
        /\ UNCHANGED <<tenants, st, up>>
     \/ /\ Module(r) \notin OwnerLabelled \union {"tenant_discovery"}
        /\ rows' = [rows EXCEPT ![RenderedKey(Module(r), r)] = cycle]
        /\ UNCHANGED <<tenants, st, up>>
  /\ UNCHANGED <<cycle, ctxDone, targets, at, ok, bad, result>>

Succeeded == [seen |-> TRUE, lastOk |-> cycle, failing |-> FALSE, fresh |-> TRUE]

RecordSuccess(r) ==
  LET done == ok[r] \union {Module(r)} IN
  /\ pc[r] = "recordOk"
  /\ st' = [st EXCEPT ![StateKey(Module(r), r)] = Succeeded]
  /\ ok' = [ok EXCEPT ![r] = done]
  /\ Continue(r, at[r] + 1, done, targets)
  /\ UNCHANGED <<cycle, ctxDone, tenants, targets, bad, rows, up, result>>

\* Mutant: a failed attempt counts as a success of the module.
RecordFailureAsSuccess(r) ==
  /\ pc[r] = "recordErr"
  /\ st' = [st EXCEPT ![StateKey(Module(r), r)] = Succeeded]
  /\ bad' = [bad EXCEPT ![r] = TRUE]
  /\ IF Module(r) = "tenant_discovery"
       THEN pc' = [pc EXCEPT ![r] = "fallback"] /\ UNCHANGED at
       ELSE Continue(r, at[r] + 1, ok[r], targets)
  /\ UNCHANGED <<cycle, ctxDone, tenants, targets, ok, rows, up, result>>

RecordFailure(r) ==
  /\ pc[r] = "recordErr"
  /\ st' = [st EXCEPT ![StateKey(Module(r), r)].seen = TRUE,
                      ![StateKey(Module(r), r)].failing = TRUE]
  /\ bad' = [bad EXCEPT ![r] = TRUE]
  /\ IF Module(r) = "tenant_discovery"
       THEN pc' = [pc EXCEPT ![r] = "fallback"] /\ UNCHANGED at
       ELSE Continue(r, at[r] + 1, ok[r], targets)
  /\ UNCHANGED <<cycle, ctxDone, tenants, targets, ok, rows, up, result>>

\* Discovery failed: the tenants of the last discovery, else the static ones.
Fallback ==
  /\ pc[Main] = "fallback"
  /\ IF tenants = {} /\ StaticTenants # {}
       THEN targets' = StaticTenants /\ SetTenants(StaticTenants)
       ELSE targets' = tenants /\ UNCHANGED <<tenants, st, rows, up>>
  /\ Continue(Main, at[Main] + 1, ok[Main], targets')
  /\ UNCHANGED <<cycle, ctxDone, ok, bad, result>>

-----------------------------------------------------------------------------
(***************************************************************************)
(* refreshTenantSet: one goroutine per tenant, a semaphore between them.   *)
(***************************************************************************)
Working == {"fetch", "render", "recordOk", "recordErr", "finish"}

Launch ==
  /\ pc[Main] = "launch"
  /\ pc' = [r \in Runners |-> IF r = Main THEN "join"
                              ELSE IF r \in targets THEN "spawned" ELSE pc[r]]
  /\ UNCHANGED <<cycle, ctxDone, tenants, targets, at, ok, bad, st, rows, up, result>>

\* Mutant: a worker that gives up returns without recording ctx.Err().
SkipSilently(t) ==
  /\ pc' = [pc EXCEPT ![t] = "done"]
  /\ UNCHANGED <<cycle, ctxDone, tenants, targets, at, ok, bad, st, rows, up, result>>

\* Mutant: a worker that gives up does so without wg.Done.
SkipWithoutDone(t) ==
  /\ bad' = [bad EXCEPT ![t] = TRUE]
  /\ UNCHANGED <<cycle, ctxDone, tenants, targets, pc, at, ok, st, rows, up, result>>

\* record(ctx.Err()): the worker ends without having touched the cache.
Skip(t) ==
  /\ pc' = [pc EXCEPT ![t] = "done"]
  /\ bad' = [bad EXCEPT ![t] = TRUE]
  /\ UNCHANGED <<cycle, ctxDone, tenants, targets, at, ok, st, rows, up, result>>

Enter(t) ==
  /\ pc[t] = "spawned"
  /\ ~ctxDone
  /\ pc' = [pc EXCEPT ![t] = "waiting"]
  /\ UNCHANGED <<cycle, ctxDone, tenants, targets, at, ok, bad, st, rows, up, result>>

EnterLate(t) == pc[t] = "spawned" /\ ctxDone /\ Skip(t)

Holders == { t \in TenantNames : pc[t] \in Working }

Acquire(t) ==
  /\ pc[t] = "waiting"
  /\ Cardinality(Holders) < Parallelism
  /\ Continue(t, 1, {}, targets)
  /\ UNCHANGED <<cycle, ctxDone, tenants, targets, ok, bad, st, rows, up, result>>

GiveUp(t) == pc[t] = "waiting" /\ ctxDone /\ Skip(t)

\* Mutant: avi_up is only ever raised.
FinishOnlyUp(t) ==
  /\ pc[t] = "finish"
  /\ up' = [up EXCEPT ![t] = IF bad[t] THEN @ ELSE "up"]
  /\ pc' = [pc EXCEPT ![t] = "done"]
  /\ UNCHANGED <<cycle, ctxDone, tenants, targets, at, ok, bad, st, rows, result>>

\* The end of refreshTenant sets avi_up and frees the slot.
Finish(t) ==
  /\ pc[t] = "finish"
  /\ up' = [up EXCEPT ![t] = IF bad[t] THEN "down" ELSE "up"]
  /\ pc' = [pc EXCEPT ![t] = "done"]
  /\ UNCHANGED <<cycle, ctxDone, tenants, targets, at, ok, bad, st, rows, result>>

\* wg.Wait, then errors.Join of everything recorded.
Join ==
  /\ pc[Main] = "join"
  /\ \A t \in TenantNames : pc[t] \in {"idle", "done"}
  /\ pc' = [r \in Runners |-> "idle"]
  /\ at' = [r \in Runners |-> 1]
  /\ ok' = [r \in Runners |-> {}]
  /\ result' = IF \E r \in Runners : bad[r] THEN "error" ELSE "nil"
  /\ UNCHANGED <<cycle, ctxDone, tenants, targets, bad, st, rows, up>>

-----------------------------------------------------------------------------
\* The context ends while the refresh runs.
Cancel ==
  /\ pc[Main] # "idle"
  /\ ~ctxDone
  /\ ctxDone' = TRUE
  /\ UNCHANGED <<cycle, tenants, targets, runnerVars, st, rows, up, result>>

\* Time passes: a module's last success is further back than its maxStale.
GoStale(k) ==
  /\ k[1] \in Aging
  /\ st[k].fresh
  /\ st' = [st EXCEPT ![k].fresh = FALSE]
  /\ UNCHANGED <<cycle, ctxDone, tenants, targets, runnerVars, rows, up, result>>

\* Nothing left to do within the bound: the process waits for the next tick.
Rest == pc[Main] = "idle" /\ cycle = MaxCycle /\ UNCHANGED vars

MainStep == Begin \/ Fallback \/ Launch \/ Join

WorkerStep(t) ==
  Enter(t) \/ EnterLate(t) \/ Acquire(t) \/ GiveUp(t) \/ Finish(t)

ModuleStep(r) == Fetch(r) \/ Render(r) \/ RecordSuccess(r) \/ RecordFailure(r)

Progress ==
  \/ MainStep
  \/ \E t \in TenantNames : WorkerStep(t)
  \/ \E r \in Runners : ModuleStep(r)

Next ==
  \/ Progress
  \/ Cancel
  \/ \E k \in StateKeys : GoStale(k)
  \/ Rest

Spec == Init /\ [][Next]_vars

(* Every request is bounded by a timeout (the HTTP client's, the module's   *)
(* and the refresh's), and Go schedules the runnable goroutines: while one  *)
(* of them can move, one does.                                              *)
FairSpec == Spec /\ WF_vars(Progress)

-----------------------------------------------------------------------------
\* Mutant: modules that were never attempted are not asked for.
ReadyBySeenOnly ==
  /\ RequiredKeys(tenants) # {}
  /\ \A k \in StateKeys : st[k].seen => st[k].fresh

(* What /readyz answers. *)
Ready ==
  LET required == RequiredKeys(tenants) IN
  /\ required # {}
  /\ \A k \in required : st[k].seen /\ st[k].fresh
  /\ \A k \in StateKeys : st[k].seen => st[k].fresh

-----------------------------------------------------------------------------
(***************************************************************************)
(* Properties.                                                             *)
(***************************************************************************)
Record == [seen : BOOLEAN, lastOk : 0..MaxCycle, failing : BOOLEAN, fresh : BOOLEAN]

MainControls == {"idle", "fetch", "render", "recordOk", "recordErr",
                 "fallback", "launch", "join"}
Attempting == {"fetch", "render", "recordOk", "recordErr", "fallback"}
WorkerControls == {"idle", "spawned", "waiting", "done"} \union Working

\* Where the runners may be: an attempted module has a place in the plan.
ControlOK ==
  /\ pc \in [Runners -> MainControls \union WorkerControls]
  /\ pc[Main] \in MainControls
  /\ \A t \in TenantNames : pc[t] \in WorkerControls
  /\ at \in [Runners -> Nat]
  /\ \A r \in Runners : at[r] \in 1..(Len(Plan(r)) + 1)
  /\ \A r \in Runners : pc[r] \in Attempting => at[r] \in 1..Len(Plan(r))

\* The shape of the state.
TypeOK ==
  /\ cycle \in 0..MaxCycle
  /\ ctxDone \in BOOLEAN
  /\ tenants \subseteq TenantNames
  /\ targets \subseteq TenantNames
  /\ ControlOK
  /\ ok \in [Runners -> SUBSET Modules]
  /\ bad \in [Runners -> BOOLEAN]
  /\ st \in [StateKeys -> Record]
  /\ rows \in [RowKeys -> 0..MaxCycle]
  /\ up \in [TenantNames -> {"none", "up", "down"}]
  /\ result \in {"none", "nil", "error"}

(* Workers exist only between Launch and Join, and only for tenants that    *)
(* are in e.tenants at that time: none outlives its refresh or its tenant.  *)
WorkersBelong ==
  /\ \A t \in TenantNames :
       pc[t] # "idle" => pc[Main] = "join" /\ t \in tenants
  /\ pc[Main] \in {"recordOk", "launch", "join"} => targets = tenants
  /\ pc[Main] \in {"fetch", "render", "recordErr"} /\ Module(Main) # "tenant_discovery"
       => targets = tenants

(* A tenant that left the configuration leaves nothing behind: no module    *)
(* state and no avi_up carries the name of a tenant that is not in          *)
(* e.tenants, whichever workers ran when it left (setTenantsLocked), and no *)
(* series does but two kinds that name such tenants on purpose: the raw     *)
(* analytics of admin's virtual services, and the series of service         *)
(* engines (OwnerLabelled), which name the tenant that owns the engine,     *)
(* exported or not.  EnginesOfLastAnswer says what is left of those.        *)
NoOrphans ==
  /\ \A k \in RowKeys :
       /\ rows[k] # 0
       /\ k[1] \notin OwnerLabelled
       /\ k # <<"vs_metrics", "admin">>
       => k[2] \in tenants \union {Main}
  /\ \A k \in StateKeys :
       st[k].seen /\ k[1] # "admin_vs_metrics" => k[2] \in tenants \union {Main}
  /\ \A t \in TenantNames : up[t] # "none" => t \in tenants

(* The series of service engines may name a tenant that is not exported, so *)
(* that no discovery ever drops them: only the next answer does.  All those *)
(* that a scrape finds come from the answer the module's last success       *)
(* names, or, between Render and Record, from the one just rendered; an     *)
(* engine that was deleted or changed its owner is in none of them.         *)
EnginesOfLastAnswer ==
  \A k \in RowKeys :
    k[1] \in OwnerLabelled /\ rows[k] # 0 =>
      \/ rows[k] = st[<<k[1], Main>>].lastOk
      \/ pc[Main] = "recordOk" /\ Module(Main) = k[1] /\ rows[k] = cycle

\* The module states whose success refreshes the series of k.
Writers(k) ==
  {k} \union (IF k = <<"vs_metrics", "admin">>
                THEN { <<"admin_vs_metrics", "admin">> } ELSE {})

Publishing(k) ==
  \E r \in Runners :
    /\ pc[r] = "recordOk"
    /\ RenderedKey(Module(r), r) = k
    /\ rows[k] = cycle

(* What /metrics says of the age of the data is true of the data beside it: *)
(* the series a scrape reads were fetched by the refresh its module's last  *)
(* success names, but for the moment between Render and Record, when the    *)
(* series are already newer (runModule releases the lock in between).       *)
AgeMatchesData ==
  \A k \in RowKeys :
    k[1] \notin OwnerLabelled =>
      \/ Publishing(k)
      \/ /\ \E w \in Writers(k) : st[w].lastOk = rows[k]
         /\ \A w \in Writers(k) : st[w].lastOk <= rows[k]

(* avi_up = 1 says that one single refresh fetched everything the tenant    *)
(* shows, and that no later attempt failed - until the next attempt starts. *)
UpMeansAllSucceeded ==
  \A t \in TenantNames :
    up[t] = "up" /\ pc[t] \notin Working =>
      \E c \in 1..cycle : \A m \in RequiredPerTenant :
        st[<<m, t>>].lastOk = c /\ ~st[<<m, t>>].failing

(* RefreshOnce returns nil only when everything readiness asks for, for the *)
(* tenants now in e.tenants, was fetched by this very refresh.              *)
NilMeansAllFresh ==
  pc[Main] = "idle" /\ result = "nil" =>
    \A k \in RequiredKeys(tenants) : st[k].lastOk = cycle

(* /readyz answers 200 only when every series a dashboard may ask for, of   *)
(* every current tenant, has been rendered at least once.                   *)
ReadyServesData ==
  Ready =>
    \A k \in RequiredKeys(tenants) :
      RenderedKey(k[1], k[2]) \in RowKeys /\ k[1] \notin OwnerLabelled =>
        rows[RenderedKey(k[1], k[2])] > 0

(* The topology never runs ahead of its inputs: a graph drawn in refresh c  *)
(* is backed by lists, pool groups and members at least as recent, in the   *)
(* states and in the series of the members and groups it draws.             *)
TopologyNotAhead ==
  \A t \in TenantNames :
    \A m \in TopologyInputs :
      /\ rows[<<"topology", t>>] <= st[<<m, t>>].lastOk
      /\ m \notin Lists => rows[<<"topology", t>>] <= rows[<<m, t>>]

(* Last-good retention: a failed attempt, a cancelled refresh or a restart  *)
(* of the refresh never takes data back; only losing the tenant does.       *)
KeepLastGood ==
  [][\A k \in RowKeys :
       k[1] \notin OwnerLabelled /\ rows'[k] < rows[k]
         => k[2] \in tenants \ tenants']_vars

(* Every refresh ends, however the controller answers: no worker is left    *)
(* waiting for a slot or for another worker.                                *)
RefreshReturns == pc[Main] # "idle" ~> pc[Main] = "idle"

-----------------------------------------------------------------------------
(***************************************************************************)
(* The abstract specification, and the mapping onto it.                    *)
(***************************************************************************)
ServedEntries == { k \in RowKeys : k[1] \notin OwnerLabelled }

\* The latest success among the modules that write the series of k.
AgeOf(k) ==
  CHOOSE n \in 0..MaxCycle :
    /\ \E w \in Writers(k) : st[w].lastOk = n
    /\ \A w \in Writers(k) : st[w].lastOk <= n

Served == INSTANCE ServedCache WITH
  Entries <- ServedEntries,
  OwnerOf <- [k \in ServedEntries |-> k[2]],
  Unowned <- { k \in ServedEntries : k[2] = Main \/ k = <<"vs_metrics", "admin">> },
  Tenants <- TenantNames,
  refresh <- cycle,
  known   <- tenants,
  data    <- [k \in ServedEntries |-> rows[k]],
  age     <- [k \in ServedEntries |-> AgeOf(k)]

(* The refreshing cache implements the promise: every Render replaces one   *)
(* entry by data of the running refresh, every recorded success follows its *)
(* Render, and entries disappear only with their tenant.                    *)
ServesSnapshots == Served!Spec

-----------------------------------------------------------------------------
(***************************************************************************)
(* What the documentation says, and the code does not do.                  *)
(***************************************************************************)

(* "Ready returns true when all required modules have known fresh state."   *)
(* Here even when no module's last attempt failed.                          *)
ReadyWhenRequiredFresh ==
  LET required == RequiredKeys(tenants) IN
  /\ required # {}
  /\ \A k \in required : st[k].seen /\ st[k].fresh
  /\ \A k \in StateKeys : ~st[k].failing
  => Ready
=============================================================================
