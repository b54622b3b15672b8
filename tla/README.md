# A TLA+ model of avi-exporter

avi-exporter is one Go process between an Avi controller and Prometheus. A
background refresh asks the controller for inventories, analytics and
configuration of every tenant and keeps what it gets in a cache of gauge vectors;
`/metrics`, `/readyz` and `/debug/cache` read that cache and never ask the
controller. What can go wrong is in the middle: refreshes of many tenants in
parallel, each module of which may fail or be cut off, tenants that come and go,
one login session shared by all goroutines, and answers that were read at
different moments and are joined afterwards.

Paths below are relative to the repository's root; `cache.go`, `pool.go`,
`enrichment.go`, `topology.go` and `identity_inventory.go` are in
`src/collector/` (the repository's `collector/`), `client.go`, `inventory.go` and
`markers.go` in `src/avi/`.

## 1. Inventory

| Component | Source | State | Operations |
|---|---|---|---|
| Snapshot cache and refresh | `cache.go`, `exporter.go` | gauge vectors, `moduleStates`, `tenants`, `avi_up`, all under `cacheMu`; `refreshMu` | `RefreshOnce`, `refreshTenants`, `refreshTenantSet`, `refreshTenant`, `runModule`, `setTenantsLocked`, `Ready`, scrapes |
| Configuration | `config/config.go`, `cache.go` | read once | which modules run for whom, which of them readiness requires |
| Controller session | `client.go` | csrf token, session id, tenant list, under `authMu` | `Login`, `LoginTenants`, `doRaw` with its retry, `refreshCookies`, `clearSession` |
| Fan-out of requests | `cache.go`, `pool.go` | two levels of goroutines, two kinds of semaphore, two contexts | `refreshTenantSet`, `collectPoolMemberDetails` |
| Scheduler | `cache.go` | ticker, context | `Start`, `Stop`, `schedulerLoop`, `runRefreshWithLog` |
| Page walks | `inventory.go` | none that lasts | `listAll`, `GetPoolRuntimeDetail` |
| AKO metadata | `markers.go`, `enrichment.go`, `avi/types.go` | the lists of one refresh | marker and `service_metadata` parsing, decoding of references, enrichment of virtual services and VsVips |
| Service Engine addresses | `identity_inventory.go` | none that lasts | walk over interfaces, `preferAddress` |
| Topology graph | `topology.go`, `poolgroup.go`, `pool.go` | node and edge gauges | nodes and edges of virtual services, pool groups, pools, servers, VsVips |
| Analytics queries | `avi/analytics.go`, `vs.go`, `pool.go`, `se.go`, `controller.go`, `analytics_gauges.go` | the merged answers of one attempt; analytics gauges | metric ids in batches, merging, matching series to objects, rendering |
| Rendering of inventories | `vs.go`, `vsvip.go`, `pool.go`, `poolgroup.go`, `gslb.go`, `cluster.go`, `controller.go`, `se.go` | gauge vectors | objects to labels and values |
| Metric definitions, API types, process | `exporter.go`, `collector.go`, `avi/types.go`, `main.go` | none | names and labels, JSON, flags and HTTP |

**How they interact.** The scheduler calls `RefreshOnce` at once and on every
tick. `RefreshOnce` runs its own modules one after another (tenant discovery
first, when `*` is configured), then starts one goroutine per tenant behind a
semaphore, waits for all and joins their errors. A tenant's goroutine runs its
modules in a fixed order; `pool_members` starts one goroutine per pool behind a
semaphore of its own. Every request goes through the one session. A module's
attempt asks the controller *without* the cache's lock, takes it to replace the
module's series, and takes it *again* to record the outcome. Scrapes and `/readyz`
take the same lock and may see the cache between any two of these steps.

**What is hard.** Steps between which the lock is free; a context that ends at
any of them; partial failure, module by module; tenants that leave while their
name is used; a session that several goroutines find expired at the same time;
late answers whose cookies are stored after someone cleared the session; nested
semaphores; answers that were read at different moments; a staleness bound that
must survive missed ticks; merging reports whose order nobody controls.

**What makes it correct**, component by component:

- *Cache*: the age shown is that of the data beside it; nothing but losing its
  tenant takes data back; nothing survives its tenant but what names tenants that
  are not exported on purpose, and of that only the last answer; a nil result,
  `avi_up` = 1 and a 200 from `/readyz` each mean what they say; a graph is not
  redrawn from older lists than it claims; a refresh returns.
- *Session*: one retry is enough unless the session expires again; it never
  becomes a loop; a tenant list belongs to the session in place.
- *Fan-out*: all pools of the list or none; no wait for a slot the waiter's own
  parent holds.
- *Scheduler*: refreshes go on, a stop is a stop, healthy operation is not stale.
- *Page walks*: nothing that was there all along is missed; giving up is an error.
- *Metadata*: no label is taken where the sources disagree; own labels stay.
- *Addresses*: one record per IP, management wins, no label of another role, and of
  two reports it does not matter which comes first. (Of three it can matter for
  the labels, and the code gives the controller's order no meaning.)
- *Topology*: every edge was real; a steady virtual service has the edges of its own
  pool, its own group or, without either, its policies.
- *Analytics*: one attempt or none; every metric of what stayed; labels that join.

## 2. The modules

| Module | Models | Notes |
|---|---|---|
| `ExporterConfig` | module order, lists and their users, discovery, required keys | constants and operators only |
| `ExporterCache` | the refresh and the cache | EXTENDS `ExporterConfig` |
| `ServedCache` | the promise to a scrape (abstract) | implemented by `ExporterCache` |
| `ExporterCacheProofs` | theorems about `ExporterCache` in three parts: types, workers and tenants that leave; the data served, and the refinement; what nil, `avi_up`, `/readyz` and a graph mean | TLAPS |
| `AviSession`, `AviSessionProofs` | the session and the retry; theorems | |
| `ApiFanout`, `ApiFanoutProofs` | goroutines and semaphores; theorems | |
| `Scheduler`, `SchedulerProofs` | loop, ticker, deadline, staleness; theorems | |
| `Paging` | both page walks over a changing collection | |
| `Analytics` | one group of analytics series: list, batches, rendering | |
| `AnalyticsProofs` | theorems about `Analytics` | TLAPS |
| `VSMetadata`, `VSMetadataProofs` | parsing, decoding and enrichment of AKO labels; theorems | |
| `SEAddresses` | folding of reported addresses | its names are its own, to stand beside `Paging` in the proofs |
| `InventoryProofs` | theorems about `Paging` and `SEAddresses`: what listing an inventory returns, what an engine's report folds to | EXTENDS both |
| `Topology`, `TopologyProofs` | the graph and the requests behind it; theorems | |
| `MC...` | instances for TLC | |

`PROJECT.json` maps every definition to the lines it models.

### ExporterCache

A *runner* is `RefreshOnce` itself (named `""`, as the code labels the state of
modules without a tenant) or the goroutine of a tenant. `pc[r]` says where it is,
`at[r]` which module of its plan it attempts. One attempt is three actions, for
the three times the code takes or frees the lock:

| Action | Code |
|---|---|
| `Begin` | `RefreshOnce` up to its first module; without `*` the static tenants are set |
| `Fetch` | the callback of `runModule` up to rendering; discovery's answer (`Discover`) |
| `Render` | series deleted and written under one hold of `cacheMu`; for discovery `setTenantsLocked` |
| `RecordSuccess`, `RecordFailure` | the end of `runModule`, and the caller's `if` chain up to the next module (`Continue`) |
| `Fallback` | the end of `refreshTenants` after a failed discovery |
| `Launch`, `Join` | the goroutines of `refreshTenantSet`, `wg.Wait` and `errors.Join` |
| `Enter`, `EnterLate`, `Acquire`, `GiveUp` | the two `select`s before a tenant's slot |
| `Finish` | `avi_up` and the slot given back |
| `Cancel`, `GoStale` | the context ends; time passes over a state's `maxStale` |

Data is the number of the refresh that fetched it: `rows[k]` for the series of a
module, `st[k].lastOk` for the module's last success. Attempt and error counters,
durations and `/debug/cache` are left out.

### The other modules

- `AviSession`: one caller is one goroutine; each access to the session is one
  action because `authMu` is held for just that access. A token, a cookie and a
  list are known by the session they came with. The controller opens and expires
  sessions at any time; whether it sends the session id with ordinary answers
  (`resends`) is chosen once, as the code takes over what comes, from a 401 as well
  as from any other answer. A login's answer may name tenants or none (`Naming` are
  the sessions whose login does); after one without, discovery asks `/api/tenant`,
  which to the session is a request like any other. Names of sessions
  nobody refers to are used again, so runs are endless although `Sessions` is small.
- `ApiFanout`: what `ExporterCache` leaves out below a worker: pool goroutines,
  their slots, the module's context under the refresh's, and `wg.Wait` on each level.
- `Scheduler`: discrete time. It stands still while a select has a case ready or a
  refresh has a context that is done; the ticker's channel holds one tick.
- `Paging`, `Topology`: what the code reads over several requests while the
  controller's objects change between them. The controller is external.
- `Analytics`: an attempt of `vs_metrics` (or `admin_vs_metrics`), `pool_metrics`,
  `se_metrics` or `controller_metrics`; which is chosen once (`kind`). `raw` is
  whether the series carry the labels of the answers, as those of engines,
  controllers and of a tenant admin that discovery does not list do, or those of
  the inventory. `Ask` is one request and the merging of its answer, `Advance` the
  way to the next batch, `Render` the deletion and rewriting under the lock. A
  batch is the index of the metric id that opens it, so that any sequence of ids
  in any groups is covered. Discovery deletes the series labelled with a tenant that
  leaves: the whole group of a tenant (`TenantLeaves`, after which admin's virtual
  services may go on with raw series, until `AdminReturns`), and of the engines'
  group the series whose owner it is (`OwnersLeave`).
- `Topology`: `Delivery` is every way a virtual service can deliver: to a pool or a
  group of its own or neither, and besides to what its policies select.
- `VSMetadata`, `SEAddresses`: pure algorithms. The state machine feeds them one
  object after another, in every order. Markers may also hold keys that are no label
  ("other"): they replace the ones a virtual service had all the same. `Sources` of
  `VSMetadata` are the places where an object may state a label, in the order of
  `ParseObjectMetadata`; `Parsed` is the first that is not empty. The virtual
  services linked to a VsVip are a set: the code appends them to a slice whose order
  no label depends on, as `uniqueVSMetadataValue` wants one value and the rest looks
  at a single one.

## 3. Runs

| Run | Question | Bounds |
|---|---|---|
| `discovery` | Do series, states, ages, results and readiness stay true while tenants come and go? Does the cache implement `ServedCache`, and does a refresh return? | 2 tenants, 2 slots, 3 refreshes, the two analytics modules that share series |
| `tenant` | What do `avi_up` = 1 and a redrawn topology say about the modules behind them? Are the engines served those of one answer? | static configuration of 1 tenant, its 12 modules and `se_config`, 1 more tenant that owns engines, 2 refreshes |
| `session` | Does the retry recover, and end, with other goroutines at the session? Whose is the tenant list? | 2 goroutines, 3 sessions at a time, 2 of which come with tenants, endless |
| `fanout` | Is `pool_members` all or nothing, and free of deadlock? | 2 tenants, up to 3 pools each, 2 slots, endless |
| `scheduler` | Does the default cadence keep a module fresh, and does it stop? | default ratios in units of 30 s, endless |
| `addresses` | Has the record of an IP the role and the labels it should have? | 3 reports of 2 IPs, 3 label values per field |
| `labels` | Which labels may a VsVip take from its virtual services, and which may it lack? | 3 virtual services, children included; 4 VsVips, one that contradicts itself |
| `topology` | Is each edge one that was there, and is none missing? | 2 virtual services, 2 pools, 1 group, 5 requests |
| `paging` | What can a walk over a changing collection miss? | 5 objects, pages of 2, 2 pages at most |
| `analytics` | Are the analytics served those of one attempt, complete, and do they join with the inventory? | 2 objects, 2 labels, 3 metrics of 2 groups, 2 attempts, all 4 kinds |
| `ready_required`, `relogin_race` | two sentences of the documentation the code does not keep (section 6) | 2 tenants, one of them configured beside `*`, 1 slot, 3 refreshes; as `session` |

**Why the bounds are enough.** Three refreshes are the shortest history in which a
tenant arrives, leaves and comes back, and in which `admin` is first refreshed on
its own and then as a tenant; two are enough for "the last good answer" to be older
than the attempt that failed. Two tenants on two slots give all interleavings of two
workers; a worker also finds its context done before it starts and while it waits
(`EnterLate`, `GiveUp`). In `tenant` one worker is enough, as the modules of
different tenants share no series; the tenant that is not exported is there because
engines may name it as their owner, and no discovery runs that could drop it. Two
goroutines and three session names allow an old session in a late answer, the one
another goroutine has just opened and the one being opened. Three pools on two slots
make one pool wait while its module's context ends; two tenants on two slots make
both levels full at once, the situation in which nested semaphores could deadlock.
In `scheduler` interval : deadline : staleness are those of the defaults (2 min, 2
min, 10 min). Two labels that differ and the empty one are what comparisons can tell
apart, and three reports what a fold can confuse. Five objects over pages of two
exceed the limit of two pages, as a pool would the limit of a hundred. In
`analytics` three metrics of two groups, the second group between the two of the
first, make two batches that are not runs of the list, and three for an engine; two
attempts are enough for series of an earlier one beside a failed one; two labels for
a renaming, and two objects for one that changes beside one that stays. Objects and
labels are symmetric: no definition tells one from another.

`discovery` has only the two analytics modules and discovery itself enabled, as
`DISABLED_MODULES` can, because these are the modules that two runners write the
same series with; the other modules go through the same actions with their own
place in the plan, which `tenant` runs for a tenant, and the theorems cover for
every configuration. The remaining modules of `RefreshOnce` (cluster, controller,
GSLB, service engines but `se_config`) are in the plan of the model and switched
off in the runs.

**Fairness.** `ExporterCache` and `ApiFanout` assume only that *some* goroutine
which can move does: requests end by the HTTP client's timeout, and Go schedules
runnable goroutines. Cancellation is not needed for a refresh to return, nor is any
fairness between goroutines. `AviSession` needs it per caller, since other callers
go on for ever. `Scheduler` assumes that the loop runs, that time passes and, as
`select` picks among ready cases at random, that the case of a context which stays
done is taken in the end (strong fairness of `Return`).

`Rest` in `ExporterCache` is the process waiting for a tick beyond the last
refresh explored. No run switches deadlock checking off.

**Every property has a mutant** (in `PROJECT.json`): a changed definition, kept
beside the one it replaces, under which TLC finds the property violated. The
definitions marked "Mutant" are not part of any specification.

## 4. Proofs

**`ExporterCacheProofs`** proves, for all tenants, static and disabled sets,
parallelism and number of refreshes:

- `TypeCorrect`: `Spec => []TypeOK`. The part that is not mere typing is
  `ControlOK`: an attempted module has a place in its runner's plan. It rests on
  `Position` returning a place in the plan or one past its end
  (`PositionRange`), and on both plans holding only modules of their runner.
- `WorkersBelongAlways`: `Spec => []WorkersBelong`. Workers exist only while
  `RefreshOnce` joins them and only for tenants exported at that time. That
  needs `targets = tenants` from the moment discovery is over, the second part
  of `WorkersBelong`, which is what makes it inductive.
- `NothingOutlivesItsTenant`: `Spec => []NoOrphans`. Two kinds of series name tenants
  that are not exported on purpose and are left out: raw analytics of admin's virtual
  services, and engines with the tenant that owns them. The inductive invariant is
  `TypeOK /\ WorkersBelong /\ NoOrphans`: `NoOrphans` alone is not inductive, as
  a worker of a tenant that is gone could write series under its name; by
  `WorkersBelong` no worker exists when tenants are replaced, and each writes
  under a tenant that is exported.

They assume `TenancyAssumption` and `CacheAssumption` (the empty name is no tenant,
at least one slot, natural bounds), which TLC evaluates in every run of the
module, and the library's facts on well-founded orders (a plan has a least place
to go on from). So do the other two parts of the module.

Its second part is about the data a scrape gets. `Effects` first sorts the
steps of the program by what they do to series and successes: nothing, replacing
the tenants, rendering, recording a success. The inductive invariant is `CacheInv`:

- `AgeIsThatOfTheData`: `Spec => []AgeMatchesData`. Alone it is not inductive: when
  a success is recorded the age becomes that of the running refresh, so the series
  must be of this refresh by then (`Rendered`), and no age may be newer than that
  (`Bounded`). Two runners write the series of `vs_metrics` of admin; that a step
  of one leaves the moment between Render and Record of the other alone is
  `OthersStay`.
- `LastGoodKept`: `Spec => KeepLastGood`, an action property, from `Bounded`.
- `CacheServesSnapshots`: `Spec => ServesSnapshots`, the refinement. Each step maps to
  a step of `ServedCache` or to a stutter (`ServedStep`): `Begin` to `StartRefresh`,
  `Fallback` and the rendering of discovery to `Retarget`, other renderings to
  `Publish`, recorded successes to `Acknowledge`. The age of an entry is a CHOOSE in
  the mapping; `AgeOfEntry` says that it is the latest success of its writers.
  `Chosen` is there for `StartRefresh`, which may add tenants but not drop any: a
  static configuration never runs discovery, so all it has are the static tenants.

- `EnginesAreOfLastAnswer`: `Spec => []EnginesOfLastAnswer`, for the engines' series
  `NoOrphans` leaves out. Only `RefreshOnce` itself runs their modules
  (`MainElsewhere`), so what it renders is of its refresh until it records the success
  (`EnginesRendered`), and dropping tenants only takes series away
  (`RetargetEngines`).

Its third part is about what the program says of itself, under `OutcomeInv`:

- `ReadyMeansServed`: `Spec => []ReadyServesData`, from `AgeMatchesData` and from a
  fresh state having a success behind it (`Counted`).
- `TopologyBehindInputs`: `Spec => []TopologyNotAhead`. A graph is rendered only with
  all of its inputs in `ok` (`Drawing`), and what is in `ok` has its success in the
  states of this refresh (`DoneByWorkers`).
- `UpIsEarned`: `Spec => []UpMeansAllSucceeded`, and
- `NilIsEarned`: `Spec => []NilMeansAllFresh`. Both rest on `AllDone`: a runner
  without an error has fetched every due module its plan has passed. What a plan
  passes over is not due or lacks its list (`PassedOver`); a list is due with its
  user and comes before it (`ListFirst`), so a lacking list is an error already
  (`Passes`). With that, only a runner with an error ends before the end of its plan
  (`AtEnd`), every tenant of the refresh had a worker (`Launched`), and what
  readiness requires is in the plans and due (`RequiredInPlan`), whatever is
  disabled. `Moves` is the list of moves a step can be for one runner.

**`AviSessionProofs`**, for any number of goroutines and session names:
`SessionTypeCorrect`; `ListBelongsToSession` (`[]ListOfItsSession`), for which a session
id held by a caller or an answer must be one that came with a login (`Cookies`);
and `SoloRecovery` (`[]SoloCallRecovers`), which needs that a call marked alone is
the only one (`Solitary`), that a caller at rest has its retry (`Rested`), and, place
by place in `doRaw`, what its session is worth if nothing expired (`Recovering`). It
assumes `SessionAssumption`: `None` is no session.

**`ApiFanoutProofs`**, for any finite sets of tenants and pools and at least one slot
(`FanoutAssumption`): `FanoutTypeCorrect`; `MembersAllOrNothing` (`[]AllOrNothing`);
`NoPoolLeftBehind`, that a tenant outside of `pool_members` has no goroutine of a pool
left. A pool of the list must be gathered, under way or counted as failed at any
time (`Accounted`), and outside of the module nothing is left of it (`Quiet`).

**`SchedulerProofs`**, for any interval, deadline and staleness with the deadline no
longer than the interval (`SchedulerAssumption`): `SchedulerTypeCorrect` and
`ToleratedMissesStayFresh` (`[]StaleNeedsMisses`). The invariant bounds the age of the
last success after n misses in a row by the deadline and n + 1 intervals, place by
place in the loop (`AgeBounded`), and relates the time to the next tick to that
since the refresh began (`Ticking`).

**`TopologyProofs`**, for any virtual services, pools, groups, servers and VsVips
whose node ids differ (`TopologyAssumption`; an id begins with its kind, and lists
name what exists): `ListsTypeCorrect`; `EdgesReal` (`[]EdgesWereReal`), for which what
the lists in hand say must have been true during the refresh (`Reached`);
`SteadyDrawn` and `SteadyPoolsDrawn`, for which the lists must agree on a virtual
service that stayed as it was (`Unchanged`).

**`AnalyticsProofs`** proves every invariant of `Analytics`, for all objects, labels,
sequences of metric ids, groups and numbers of attempts:

- `GroupTypeCorrect`: `Spec => []TypeOK`.
- `OneAttemptServed`: `Spec => []OneAttempt`. What is merged must be about objects
  alive during the attempt (`Alive`), what is served must be no newer than the last
  attempt (`Fresh`).
- `SteadyObjectsComplete`: `Spec => []SteadyComplete`. It needs that a steady object
  was in the list (`Steady`), that the batches before the one to ask for have been
  answered for it (`Asked`), and that every metric id lies in a batch whose opening
  id is reached (`BatchesCover`, from the least index of its group).
- `AnalyticsJoin`: `Spec => []JoinsInventory`. It needs that the inventory rendered
  in the running attempt is that of the list in hand (`Inventoried`).

The inductive invariant is the conjunction of all of these. A step lemma per
action proves it preserved; the lemmas before them are about batches
(`BatchType`, `LeastIndex`, `BatchesCover`, `BatchesStay`) and about the end of an
attempt (`RestType`, `RestForgets`).
They assume `AnalyticsAssumption`: there is a metric id, and no label is `Gone`.

**`InventoryProofs`** has two parts. The first is about `Paging`, for any collection,
any page size and any limit of pages, all positive (`PagingAssumption`), and objects
that come and go anywhere in the collection between two pages:

- `PagingTypeCorrect`: `Spec => []TypeOK`.
- `WalksLoseNothing`: `Spec => []NothingLost`. The property is about walks that have
  ended; inductive is what holds at every page (`Walking`, checked by TLC before): the
  pages so far are as long as the part of the collection before the next page, and
  without a deletion an object of the beginning that lies in that part has been read.
  An insertion moves objects to the right only, so that one that has not been read
  stays ahead of the walk (`InsertWalking`); a deletion moves them to the left, which
  is why the property excepts it. `PageHolds` and `PageAdds` say what a page is.
- `WalksGiveUpHonestly`: `Spec => []GivesUpHonestly`, for which `Read` may not exceed the
  collection.

The second part is about `SEAddresses`, for any number of reports, any labels and any
textual forms of addresses (`AddressAssumption`; labels are numbers because the code
compares them as strings, and all it needs is their order):

- `AddressTypeCorrect`, `AlwaysRichestOfItsRole`: the record of
  an address relates to *all* reports of that address as the properties say
  (`Represents`). This is inductive as it stands: one report more is one use of
  `preferAddress`, so no induction over lists is needed. `NextRepresents` is the step.
- `AlwaysEitherOrder`, from `PreferEitherOrder`: any two records at all collapse to
  the same one in either order. It rests on the order of the keys `preferAddress`
  compares ties by: two records with the same key agree in every label (`SameKey`), and
  of two keys that differ one is less (`LessDecides`, `LessOneWay`).

**`VSMetadataProofs`**, for any virtual services, configurations, labels and VsVips:

- `MetadataTypeCorrect`: `Spec => []TypeOK`.
- `NeverContested`: `Spec => []NoContestedLabel`. `LabelsOf` says which source each
  label comes from; with it each step of `fillVsVipUniqueMetadata` is shown to set its
  own label and to leave the others as they are (`FillNamespace`, `FillHost`,
  `FillServiceName`, `FillIngressName`): the pair a service or an ingress name is
  written with repeats the namespace that is in force. `Adopted` says what a VsVip
  takes over from its only virtual service, `EnrichedVsVip` what all steps make together.
- `CountedOnce`: `Spec => []SharedByOnce`, from the references in place being distinct
  and those added being new and distinct (`JoinedOnce`, `ReferencesMerged`).

They assume `MetadataAssumption`, of which one part is about the controller: it names a
virtual service once among the references of a VsVip. The code keeps what it is sent.
The invariant is inductive with that part carried along (`OwnOnce`).

The proof corrected the property. `NoContestedLabel` used to say that a VsVip whose own
label changes takes over the markers of its only virtual service *with that label*.
That is false: TLC, given a VsVip with Host 2 in its markers and Host 1 in its
`service_metadata`, and a virtual service that says only a service name, shows the
VsVip taking over markers without a Host (`enrichment.go:169-170`), so that its own
Host 1 comes to light. The property now allows for a label that either of the two
states anywhere (`States`), and only for a single virtual service; and it says in
addition that no label is missing that all virtual services agree on.

**Model-checked only**: the properties under fairness (`RefreshReturns`,
`SetReturns`, `CallsReturn`, `RefreshesGoOn`, `StopEnds`), which are out of the
prover's reach. Every safety property of the passing runs is proved. The two
violated ones are what the documentation says and the code does not do.

## 5. What is not modelled

- The rendering of inventories, metric definitions, most of the JSON decoding and
  the process: pure functions or I/O. Where they matter the models have their
  effect: an undecodable answer is a failed request, a rendering the replacement of
  a module's series.
- The text format of analytics answers, and which of their values is taken; how a
  family's name is matched with a gauge. `Analytics` has both as one choice, the
  objects an answer says nothing usable about.
- Durations: which tenants a deadline cuts off depends on how long requests take.
  The model lets it end anywhere and promises nothing about fairness between tenants.
- Data races outside the repository's own calls (`Start` and `Stop` from
  different goroutines).
- Pools, groups and servers that come and go while a topology is fetched. They are
  constants of `Topology`, so of the edges that end in nothing the model has only those
  from a VsVip to a virtual service that changed; a pool created between `pool_list` and
  the request for the groups would make one from a group.
- Raw analytics of admin's virtual services are under "admin" in `ExporterCache`; an
  answer that names another tenant is stored under that one (`vs.go:256`).
- Colours, states and chains of the topology's nodes. A server that two pools share
  may be in different states for them; the states would have to be part of each
  pool's answer, which multiplies the states of the run beyond what it can explore.
- `collectPoolMembers` (`pool.go:68-78`), which only tests call.

The hazards list in `PROJECT.json` names, line by line, what could go wrong,
which property would notice, and why some have none.

## 6. Where documentation and code part

Checked by a run (`findings` in `PROJECT.json`):

- `ready_required`: `Ready` says it is true "when all required modules have known
  fresh state" (`cache.go:852`), and `README.md:201` that `/readyz` refuses "when
  required cached module data is missing or stale". What is required,
  `requiredModuleKeysLocked` says; but `Ready` asks every state flagged as required to
  be fresh, attempted or not (`cache.go:868-872`). In the trace, a first refresh
  without `admin` among the tenants collects `admin_vs_metrics`; the second discovers
  `admin` and renders `vs_metrics` instead. The state of `admin_vs_metrics` stays,
  grows stale, and `/readyz` answers 503 with everything required fresh and no module
  failing, for as long as `admin` stays. `coverage_edges_test.go:127-143` wants `Ready`
  to be false for a stale required state beside the list, which it puts there by hand;
  that the program leaves such a state behind by itself is written nowhere.
- `relogin_race`: "On 401/419 we transparently re-login once" (`client.go:5`).
  `clearSession` does not look at which session the 401 was about. In the trace, one
  goroutine is answered 401 for a session that has expired; a second starts its call,
  sends the same session, is answered 401 too, clears it, logs in anew and finds that
  it has a session. Now the first clears that one. The retry of the second goes out
  without a session id and its call fails, although nothing expired during it.

Met while reading, with no run of their own:

- `avi_up` is described as the outcome of the tenant's last refresh
  (`exporter.go:266`, `README.md:173`). A worker that finds the context done before
  it has a slot (`cache.go:446-457`) returns an error and leaves `avi_up` as it was.
- `allGaugeVecs` "lists every GaugeVec" (`exporter.go:492`);
  the gauge of `sePctConnDropped` (`exporter.go:457`) is for a metric id that is not
  in `seMetricIDs`, so neither that list nor a request ever has it.
- Raw series of admin's virtual services are stored under the tenant an answer
  names and deleted under "admin" only (`vs.go:226-266`).
- `-parallelism` is "Maximum concurrent API requests" (`main.go:137`); the two
  levels together allow its square, the bound of two nested semaphores.
- `se_config` "retain[s its] last good metric set if a refresh fails"
  (`README.md:165`); its series also go when discovery drops the tenant they are
  labelled with, and stay away if `se_config` then fails.
- `LoginTenants` returns "the tenant list included in the authenticated /login
  response" (`client.go:171`); with a controller that sends the session id along
  with every answer, a late one restores the id after `clearSession` dropped the
  list, and an empty list is returned, as if the login had named no tenants. This is
  why `ListOfItsSession` is stated for a controller that sends the id with logins only.
- The edges of policies are not drawn for a virtual service with a pool or a group of
  its own (`topology.go:32`, `topology.go:172`), though `pool_list` tells them;
  `SteadyEdges` says which edges there are.

## 7. Plan

Order of work, the most important behaviour first; what is done is marked.

1. *Done.* `ExporterConfig`, `ExporterCache`, `ServedCache`: the refresh and the
   cache, their invariants and the refinement.
2. *Done.* `AviSession`, `ApiFanout`, `Scheduler`: what runs concurrently beside it.
3. *Done.* `Paging`, `Topology`, `VSMetadata`, `SEAddresses`: the algorithms.
4. *Done.* Type correctness, `WorkersBelong` and `NoOrphans` of `ExporterCache`.
5. *Done.* `Analytics` and its four invariants, checked and proved; the other forms
   of a pool's detail in `Paging`; decoded references in `VSMetadata`; the nodes of
   `Topology`.
6. *Done.* Theorems of `Topology`, `ApiFanout`, `AviSession` and `Scheduler`.
7. *Done.* Theorems of `ExporterCache`: ages, last good data, the refinement of
   `ServedCache`, and the meaning of nil, `avi_up`, `/readyz` and a graph.
8. Composition: `AviSession` below the workers of `ApiFanout`, to state what one
   expiry does to a whole refresh; pools in `VSMetadata`; the main modules' own
   instance.
9. *Done.* Theorems of `Paging`, `SEAddresses` and `VSMetadata`: every safety property
   of the passing runs is now proved.
10. More properties of the composition of item 8, with their theorems.
