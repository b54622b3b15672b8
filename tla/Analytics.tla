------------------------------ MODULE Analytics ------------------------------
(***************************************************************************)
(* One group of analytics series from the controller to the cache:         *)
(* collectVSAnalytics, collectRawVSAnalytics, collectPoolAnalytics,        *)
(* collectSEAnalytics and collectControllerAnalytics.  An attempt asks for *)
(* the metric ids batch by batch, without the cache's lock, while objects  *)
(* are created, deleted and renamed at the controller; the answers are     *)
(* merged and replace the group's series in one step, or not at all.       *)
(*                                                                         *)
(* The series of pools, and those of virtual services when their tenant is *)
(* exported, carry the labels of the inventory fetched before.  Those of   *)
(* service engines, controllers and a tenant admin that discovery does not *)
(* list are raw: they carry the labels of the answers themselves.          *)
(*                                                                         *)
(* A label stands for everything in a series' labels that can change while *)
(* its uuid stays, the name of its tenant included.  The group is that of  *)
(* one tenant, or of all engines or controllers; ExporterCache has the     *)
(* groups of all tenants side by side.                                     *)
(***************************************************************************)
EXTENDS Naturals, Sequences

CONSTANTS
  Objects,      \* uuids
  Labels,
  Gone,         \* no label: the object does not exist
  MetricIDs,    \* vsMetricIDs, poolMetricIDs, ...: a sequence
  GroupOf,      \* metricIDGroup: [metric ids -> what stands before the dot]
  MaxAttempts   \* bound: attempts explored

ASSUME AnalyticsAssumption ==
  /\ Gone \notin Labels
  /\ MetricIDs \in Seq(DOMAIN GroupOf) /\ MetricIDs # <<>>
  /\ MaxAttempts \in Nat

VARIABLES
  kind,       \* "vs", "pool", "se" or "controller", for good
  raw,        \* the series carry the labels of the answers
  objects,    \* controller: [Objects -> Labels \union {Gone}]
  pc,         \* "idle", "inventory", "ask" or "render"
  attempt,    \* number of the current, or last, attempt
  items,      \* the list in hand
  batch,      \* the batch to ask for: where the id is that opens it
  merged,     \* what the batches so far were answered
  inventory,  \* the inventory's series, and the attempt they were rendered in
  served,     \* the analytics series
  current,    \* history: of the attempt, objects alive at some moment of it,
              \* and objects unchanged and answered for all along
  last        \* history: the same of the last attempt that was rendered, less
              \* the unchanged ones whose tenant left discovery since

vars == <<kind, raw, objects, pc, attempt, items, batch, merged, inventory,
          served, current, last>>

Kinds == {"vs", "pool", "se", "controller"}
Metrics == { MetricIDs[i] : i \in DOMAIN MetricIDs }
Present == { o \in Objects : objects[o] # Gone }

NoItems == [o \in Objects |-> Gone]
NoInventory == [at |-> 0, rows |-> {}]
NothingShown == [at |-> 0, alive |-> {}, steady |-> {}]
NoMoments == [alive |-> {}, steady |-> {}]

Rows(list) == { <<o, list[o]>> : o \in { x \in Objects : list[x] # Gone } }

-----------------------------------------------------------------------------
(* builtinPrometheusMetricBatches                                          *)

\* An engine's metrics are asked for one by one, a controller's in one POST,
\* the others group by group.
SameBatch(i, j) ==
  CASE kind = "se"         -> i = j
    [] kind = "controller" -> TRUE
    [] OTHER               -> GroupOf[MetricIDs[i]] = GroupOf[MetricIDs[j]]

\* groupedMetricIDs: an id opens a batch unless one before it did, and a batch
\* is named by the id that opens it.
Opens(i) == \A j \in 1 .. i - 1 : ~SameBatch(i, j)
Batch(i) == { MetricIDs[j] : j \in { k \in DOMAIN MetricIDs : SameBatch(i, k) } }

-----------------------------------------------------------------------------
Init ==
  /\ kind \in Kinds
  /\ raw = (kind \in {"se", "controller"})
  /\ objects \in [Objects -> Labels \union {Gone}]
  /\ pc = "idle" /\ attempt = 0
  /\ items = NoItems /\ batch = 1 /\ merged = {}
  /\ inventory = NoInventory /\ served = {}
  /\ current = NoMoments
  /\ last = NothingShown

(* Discovery, before any module of the refresh: removeTenantCacheLocked      *)
(* deletes whatever carries the label of a tenant that leaves, ...           *)

\* ... which is all of the group of that tenant; if it is admin, the group
\* of its virtual services goes on with raw series.
TenantLeaves ==
  /\ pc = "idle" /\ ~raw
  /\ inventory' = NoInventory /\ served' = {} /\ last' = NothingShown
  /\ \/ UNCHANGED raw
     \/ kind = "vs" /\ raw' = TRUE
  /\ UNCHANGED <<kind, objects, pc, attempt, items, batch, merged, current>>

\* Discovery lists admin again: the raw series stay until the tenant's own
\* are rendered.
AdminReturns ==
  /\ pc = "idle" /\ kind = "vs" /\ raw
  /\ raw' = FALSE
  /\ UNCHANGED <<kind, objects, pc, attempt, items, batch, merged, inventory,
                 served, current, last>>

\* ... and of the service engines' group the series that name the tenant as
\* their engine's owner: those under some of the labels.
OwnersLeave(gone) ==
  /\ pc = "idle" /\ kind = "se"
  /\ served' = { s \in served : s.label \notin gone }
  /\ last' = [last EXCEPT !.steady =
       { o \in @ : \A s \in served : s.uuid = o => s.label \notin gone }]
  /\ UNCHANGED <<kind, raw, objects, pc, attempt, items, batch, merged, inventory, current>>

(* The refresh reaches the module.  What is rendered by inventory needs a    *)
(* list; without one the analytics are not attempted.                        *)
Begin ==
  /\ pc = "idle" /\ attempt < MaxAttempts
  /\ attempt' = attempt + 1
  /\ items' = IF raw THEN NoItems ELSE objects
  /\ pc' = IF raw THEN "ask" ELSE "inventory"
  /\ batch' = 1
  /\ current' = [alive |-> Present, steady |-> Present]
  /\ UNCHANGED <<kind, raw, objects, merged, inventory, served, last>>

\* What an attempt leaves when it is over.
Rest ==
  /\ pc' = "idle"
  /\ items' = NoItems /\ batch' = 1 /\ merged' = {}
  /\ current' = NoMoments

Show(series) ==
  /\ served' = series
  /\ last' = [at |-> attempt, alive |-> current.alive, steady |-> current.steady]

\* vs_inventory, pool_inventory; no pools, no request, and no series.
RenderInventory ==
  /\ pc = "inventory"
  /\ inventory' = [at |-> attempt, rows |-> Rows(items)]
  /\ IF kind = "pool" /\ items = NoItems
       THEN Rest /\ Show({})
       ELSE pc' = "ask" /\ UNCHANGED <<items, batch, merged, served, current, last>>
  /\ UNCHANGED <<kind, raw, objects, attempt>>

\* The batch is done with: the next one, or the end of them.
Advance ==
  \E next \in batch + 1 .. Len(MetricIDs) + 1 :
    /\ \A j \in batch + 1 .. next - 1 : ~Opens(j)
    /\ next <= Len(MetricIDs) => Opens(next)
    /\ batch' = next
    /\ pc' = IF next <= Len(MetricIDs) THEN "ask" ELSE "render"

(* One request.  For an object in without the answer has no value, or none   *)
(* of a type or under a family's name the exporter reads.                    *)
Ask(without) ==
  /\ pc = "ask"
  /\ merged' = merged \union
       { [metric |-> m, uuid |-> o, label |-> objects[o]] :
           m \in Batch(batch), o \in Present \ without }
  /\ current' = [current EXCEPT !.steady = @ \ without]
  /\ Advance
  /\ UNCHANGED <<kind, raw, objects, attempt, items, inventory, served, last>>

\* Mutant: what the batches before were answered is kept for the next attempt.
AskFailsKeeping ==
  /\ pc = "ask"
  /\ pc' = "idle" /\ items' = NoItems /\ batch' = 1 /\ current' = NoMoments
  /\ UNCHANGED <<kind, raw, objects, attempt, merged, inventory, served, last>>

\* Mutant: a batch that failed is left out.
AskFailsGoingOn ==
  /\ pc = "ask"
  /\ Advance
  /\ UNCHANGED <<kind, raw, objects, attempt, items, merged, inventory, served, current, last>>

\* A request fails, or its answer is no text the parser takes.
AskFails ==
  /\ pc = "ask"
  /\ Rest
  /\ UNCHANGED <<kind, raw, objects, attempt, inventory, served, last>>

\* Mutant: the labels of the answers are taken everywhere.
NewSeriesUnjoined ==
  { [metric |-> s.metric, uuid |-> s.uuid, label |-> s.label, at |-> attempt] : s \in merged }

\* An answer about an object that is not in the list is skipped.
NewSeries ==
  IF raw
    THEN { [metric |-> s.metric, uuid |-> s.uuid, label |-> s.label, at |-> attempt] :
             s \in merged }
    ELSE { [metric |-> s.metric, uuid |-> s.uuid, label |-> items[s.uuid], at |-> attempt] :
             s \in { x \in merged : items[x.uuid] # Gone } }

\* Mutant: the old series are not deleted.
RenderOver ==
  /\ pc = "render"
  /\ Show(served \union NewSeries)
  /\ Rest
  /\ UNCHANGED <<kind, raw, objects, attempt, inventory>>

\* Under the lock: the group's series are deleted and written again.
Render ==
  /\ pc = "render"
  /\ Show(NewSeries)
  /\ Rest
  /\ UNCHANGED <<kind, raw, objects, attempt, inventory>>

-----------------------------------------------------------------------------
(* The controller *)
Change(o, label) ==
  /\ label # objects[o]
  /\ objects' = [objects EXCEPT ![o] = label]
  /\ current' = IF pc = "idle" THEN NoMoments
                 ELSE [alive |-> IF label = Gone THEN current.alive ELSE current.alive \union {o},
                       steady |-> current.steady \ {o}]
  /\ UNCHANGED <<kind, raw, pc, attempt, items, batch, merged, inventory, served, last>>

Next ==
  \/ TenantLeaves \/ AdminReturns \/ \E gone \in SUBSET Labels : OwnersLeave(gone)
  \/ Begin \/ RenderInventory
  \/ (\E without \in SUBSET Objects : Ask(without)) \/ AskFails \/ Render
  \/ \E o \in Objects, label \in Labels \union {Gone} : Change(o, label)

Spec == Init /\ [][Next]_vars

-----------------------------------------------------------------------------
TypeOK ==
  /\ kind \in Kinds /\ raw \in BOOLEAN
  /\ objects \in [Objects -> Labels \union {Gone}]
  /\ pc \in {"idle", "inventory", "ask", "render"}
  /\ attempt \in 0 .. MaxAttempts
  /\ items \in [Objects -> Labels \union {Gone}]
  /\ batch \in 1 .. Len(MetricIDs) + 1
  /\ merged \subseteq [metric : Metrics, uuid : Objects, label : Labels]
  /\ inventory \in [at : 0 .. attempt, rows : SUBSET (Objects \X Labels)]
  /\ served \subseteq [metric : Metrics, uuid : Objects, label : Labels, at : 1 .. attempt]
  /\ current \in [alive : SUBSET Objects, steady : SUBSET Objects]
  /\ last \in [at : 0 .. attempt, alive : SUBSET Objects, steady : SUBSET Objects]
  /\ pc \notin {"ask", "render"} => merged = {}

(* What is served is what one single attempt saw: however many batches      *)
(* failed since, no series is of another attempt, and none is of an object  *)
(* that did not exist at some moment of that attempt.                       *)
OneAttempt == \A s \in served : s.at = last.at /\ s.uuid \in last.alive

(* All or nothing: an object that was there, unchanged and answered for     *)
(* throughout the attempt that is served has every metric of every batch,   *)
(* whatever failed since - unless its tenant left discovery since, which    *)
(* takes the series of a service engine with it although the engine stays.  *)
SteadyComplete ==
  \A o \in last.steady, m \in Metrics : \E s \in served : s.uuid = o /\ s.metric = m

(* Analytics join with the inventory: if both were rendered in one refresh, *)
(* every analytics series finds its object's inventory series, under equal  *)
(* labels, although objects are renamed between the list and the batches.   *)
JoinsInventory ==
  last.at = inventory.at => \A s \in served : <<s.uuid, s.label>> \in inventory.rows
=============================================================================
