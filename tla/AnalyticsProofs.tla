--------------------------- MODULE AnalyticsProofs ---------------------------
(***************************************************************************)
(* Proofs about Analytics, for every set of objects, labels and metric ids *)
(* and any number of attempts.                                             *)
(***************************************************************************)
EXTENDS Analytics, WellFoundedInduction, TLAPS

Running == pc # "idle"
Merging == pc \in {"ask", "render"}

-----------------------------------------------------------------------------
(* Type correctness, with the attempt in hand being a new one. *)

Fresh == Running => last.at < attempt

LEMMA Ids == /\ Len(MetricIDs) \in Nat \ {0}
             /\ DOMAIN MetricIDs = 1 .. Len(MetricIDs)
             /\ \A i \in 1 .. Len(MetricIDs) : MetricIDs[i] \in Metrics
<1>1. MetricIDs \in Seq(DOMAIN GroupOf) /\ MetricIDs # <<>>
  BY AnalyticsAssumption
<1>2. Len(MetricIDs) \in Nat /\ DOMAIN MetricIDs = 1 .. Len(MetricIDs)
  BY <1>1
<1>3. Len(MetricIDs) # 0
  BY <1>1
<1> QED BY <1>2, <1>3 DEF Metrics

LEMMA RestType ==
  ASSUME Rest
  PROVE  /\ pc' = "idle" /\ items' = NoItems /\ batch' = 1 /\ merged' = {}
         /\ items' \in [Objects -> Labels \union {Gone}]
         /\ batch' \in 1 .. Len(MetricIDs) + 1
         /\ current' = NoMoments
         /\ current' \in [alive : SUBSET Objects, steady : SUBSET Objects]
BY Ids DEF Rest, NoItems, NoMoments

LEMMA NewSeriesType ==
  ASSUME TypeOK, Fresh, pc = "render"
  PROVE  NewSeries \subseteq
           [metric : Metrics, uuid : Objects, label : Labels, at : 1 .. attempt]
<1>1. attempt \in 1 .. attempt
  BY DEF TypeOK, Fresh, Running
<1>2. \A s \in merged : s.metric \in Metrics /\ s.uuid \in Objects /\ s.label \in Labels
  BY DEF TypeOK
<1>3. \A o \in Objects : items[o] # Gone => items[o] \in Labels
  BY DEF TypeOK
<1> QED BY <1>1, <1>2, <1>3 DEF NewSeries

LEMMA BatchType ==
  ASSUME TypeOK, pc = "ask", NEW o \in Objects, objects[o] # Gone,
         NEW m \in Batch(batch)
  PROVE  [metric |-> m, uuid |-> o, label |-> objects[o]]
           \in [metric : Metrics, uuid : Objects, label : Labels]
<1>1. m \in Metrics
  BY Ids DEF Batch
<1>2. objects[o] \in Labels
  BY DEF TypeOK
<1> QED BY <1>1, <1>2

LEMMA TypeInit == Init => TypeOK /\ Fresh
<1> SUFFICES ASSUME Init PROVE TypeOK /\ Fresh
  OBVIOUS
<1> USE AnalyticsAssumption, Ids
<1>1. items \in [Objects -> Labels \union {Gone}]
  BY DEF Init, NoItems
<1> QED BY <1>1
  DEF Init, TypeOK, Fresh, Running, NoInventory, NothingShown, NoMoments

LEMMA TypeStep == TypeOK /\ Fresh /\ [Next]_vars => (TypeOK /\ Fresh)'
<1> SUFFICES ASSUME TypeOK, Fresh, [Next]_vars PROVE (TypeOK /\ Fresh)'
  OBVIOUS
<1> USE Ids
<1>1. CASE TenantLeaves
  <2>1. /\ inventory' \in [at : 0 .. attempt, rows : SUBSET (Objects \X Labels)]
        /\ served' \subseteq [metric : Metrics, uuid : Objects, label : Labels, at : 1 .. attempt]
        /\ last' \in [at : 0 .. attempt, alive : SUBSET Objects, steady : SUBSET Objects]
    BY <1>1 DEF TenantLeaves, TypeOK, NoInventory, NothingShown
  <2> QED BY <1>1, <2>1 DEF TenantLeaves, TypeOK, Fresh, Running
<1>9. CASE AdminReturns
  BY <1>9 DEF AdminReturns, TypeOK, Fresh, Running
<1>10. ASSUME NEW gone \in SUBSET Labels, OwnersLeave(gone) PROVE (TypeOK /\ Fresh)'
  <2>1. /\ served' \subseteq [metric : Metrics, uuid : Objects, label : Labels, at : 1 .. attempt]
        /\ last' \in [at : 0 .. attempt, alive : SUBSET Objects, steady : SUBSET Objects]
    BY <1>10 DEF OwnersLeave, TypeOK
  <2> QED BY <1>10, <2>1 DEF OwnersLeave, TypeOK, Fresh, Running
<1>2. CASE Begin
  <2>1. /\ items' \in [Objects -> Labels \union {Gone}]
        /\ current' \in [alive : SUBSET Objects, steady : SUBSET Objects]
    BY <1>2 DEF Begin, TypeOK, NoItems, Present
  <2>2. attempt' \in 0 .. MaxAttempts /\ attempt' = attempt + 1 /\ attempt \in Nat
    BY <1>2, AnalyticsAssumption DEF Begin, TypeOK
  <2>3. /\ inventory' \in [at : 0 .. attempt', rows : SUBSET (Objects \X Labels)]
        /\ served' \subseteq [metric : Metrics, uuid : Objects, label : Labels, at : 1 .. attempt']
        /\ last' \in [at : 0 .. attempt', alive : SUBSET Objects, steady : SUBSET Objects]
    BY <1>2, <2>2 DEF Begin, TypeOK
  <2>4. last'.at < attempt'
    BY <1>2, <2>2 DEF Begin, TypeOK
  <2> QED BY <1>2, <2>1, <2>2, <2>3, <2>4 DEF Begin, TypeOK, Fresh, Running
<1>3. CASE RenderInventory
  <2>1. inventory' \in [at : 0 .. attempt, rows : SUBSET (Objects \X Labels)]
    <3>1. Rows(items) \subseteq Objects \X Labels
      BY DEF Rows, TypeOK
    <3> QED BY <1>3, <3>1 DEF RenderInventory, TypeOK
  <2>2. CASE kind = "pool" /\ items = NoItems
    <3>1. Rest /\ Show({}) /\ UNCHANGED <<kind, raw, objects, attempt>>
      BY <1>3, <2>2 DEF RenderInventory
    <3>2. last' \in [at : 0 .. attempt, alive : SUBSET Objects, steady : SUBSET Objects]
      BY <3>1 DEF Show, TypeOK
    <3> QED BY <2>1, <3>1, <3>2, RestType DEF Show, TypeOK, Fresh, Running
  <2>3. CASE ~(kind = "pool" /\ items = NoItems)
    BY <1>3, <2>1, <2>3 DEF RenderInventory, TypeOK, Fresh, Running
  <2> QED BY <2>2, <2>3
<1>4. ASSUME NEW without \in SUBSET Objects, Ask(without) PROVE (TypeOK /\ Fresh)'
  <2>1. merged' \subseteq [metric : Metrics, uuid : Objects, label : Labels]
    BY <1>4, BatchType DEF Ask, TypeOK, Present
  <2>2. /\ batch' \in 1 .. Len(MetricIDs) + 1
        /\ pc' \in {"ask", "render"}
    BY <1>4 DEF Ask, Advance, TypeOK
  <2>3. current' \in [alive : SUBSET Objects, steady : SUBSET Objects]
    BY <1>4 DEF Ask, TypeOK
  <2> QED BY <1>4, <2>1, <2>2, <2>3 DEF Ask, TypeOK, Fresh, Running
<1>5. CASE AskFails
  BY <1>5, RestType DEF AskFails, TypeOK, Fresh, Running
<1>6. CASE Render
  <2>1. last' \in [at : 0 .. attempt, alive : SUBSET Objects, steady : SUBSET Objects]
    BY <1>6 DEF Render, Show, TypeOK
  <2>2. served' \subseteq [metric : Metrics, uuid : Objects, label : Labels, at : 1 .. attempt]
    BY <1>6, NewSeriesType DEF Render, Show
  <2> QED BY <1>6, <2>1, <2>2, RestType DEF Render, TypeOK, Fresh, Running
<1>7. ASSUME NEW o \in Objects, NEW label \in Labels \union {Gone}, Change(o, label)
      PROVE  (TypeOK /\ Fresh)'
  <2>1. objects' \in [Objects -> Labels \union {Gone}]
    BY <1>7 DEF Change, TypeOK
  <2>2. current' \in [alive : SUBSET Objects, steady : SUBSET Objects]
    BY <1>7 DEF Change, TypeOK, NoMoments
  <2> QED BY <1>7, <2>1, <2>2 DEF Change, TypeOK, Fresh, Running
<1>8. CASE UNCHANGED vars
  BY <1>8 DEF vars, TypeOK, Fresh, Running
<1> QED BY <1>1, <1>2, <1>3, <1>4, <1>5, <1>6, <1>7, <1>8, <1>9, <1>10 DEF Next

(* The state of a group keeps its shape: what is merged is dropped when an  *)
(* attempt ends, however it ends.                                           *)
THEOREM GroupTypeCorrect == Spec => []TypeOK
<1>1. Init => TypeOK /\ Fresh
  BY TypeInit
<1>2. TypeOK /\ Fresh /\ [Next]_vars => (TypeOK /\ Fresh)'
  BY TypeStep
<1> QED BY <1>1, <1>2, PTL DEF Spec

-----------------------------------------------------------------------------
(* What an attempt in hand knows. *)

\* The list and the answers are about objects that existed meanwhile.
Alive ==
  /\ Running => \A o \in Objects :
       objects[o] # Gone \/ items[o] # Gone => o \in current.alive
  /\ \A s \in merged : s.uuid \in current.alive

\* Objects that did not change are in the list as they are.
Steady ==
  Running => \A o \in current.steady :
    objects[o] # Gone /\ (~raw => items[o] # Gone)

\* Every batch opened so far was answered for them.
Asked ==
  Merging => \A i \in 1 .. batch - 1, m \in Metrics, o \in current.steady :
    Opens(i) /\ m \in Batch(i) => \E s \in merged : s.metric = m /\ s.uuid = o

\* Where the attempt is.
Order ==
  /\ pc = "render" => batch = Len(MetricIDs) + 1
  /\ pc # "render" => batch \in 1 .. Len(MetricIDs)
  /\ pc # "ask" /\ pc # "render" => batch = 1
  /\ pc = "inventory" => ~raw

\* The inventory is that of the list in hand, or of an earlier attempt.
Inventoried ==
  /\ ~raw /\ Merging => inventory = [at |-> attempt, rows |-> Rows(items)]
  /\ raw /\ Running => inventory.at < attempt

IInv ==
  /\ TypeOK /\ Fresh
  /\ Alive /\ Steady /\ Asked /\ Order /\ Inventoried
  /\ OneAttempt /\ SteadyComplete /\ JoinsInventory

(* A non-empty set of naturals has a least element. *)
LEMMA LeastIndex ==
  ASSUME NEW S \in SUBSET Nat, S # {}
  PROVE  \E j \in S : \A k \in S : j <= k
<1> DEFINE R == { p \in Nat \X Nat : p[1] < p[2] }
<1>1. IsWellFoundedOn(R, Nat)
  <2>1. R = OpToRel(<, Nat)
    BY DEF OpToRel
  <2> QED BY <2>1, NatLessThanWellFounded
<1>2. PICK j \in S : \A k \in S : ~ (<<k, j>> \in R)
  BY <1>1, WFMin
<1>3. ASSUME NEW k \in S PROVE j <= k
  <2>1. <<k, j>> \in Nat \X Nat /\ ~(k < j)
    BY <1>2
  <2> QED BY <2>1, SMT
<1> QED BY <1>3

(* Every metric is in a batch that some metric id opens. *)
LEMMA BatchesCover ==
  ASSUME NEW m \in Metrics, kind \in Kinds
  PROVE  \E i \in 1 .. Len(MetricIDs) : Opens(i) /\ m \in Batch(i)
<1>1. PICK k \in 1 .. Len(MetricIDs) : m = MetricIDs[k]
  BY Ids DEF Metrics
<1> DEFINE S == { j \in 1 .. Len(MetricIDs) : SameBatch(j, k) }
<1>2. k \in S
  BY DEF SameBatch, Kinds
<1>3. PICK i \in S : \A j \in S : i <= j
  <2>1. S \in SUBSET Nat /\ S # {}
    BY <1>2, Ids
  <2> QED BY <2>1, LeastIndex
<1>4. Opens(i)
  <2>1. ASSUME NEW j \in 1 .. i - 1 PROVE ~SameBatch(i, j)
    <3>1. j \in 1 .. Len(MetricIDs) /\ j < i /\ i \in 1 .. Len(MetricIDs)
      BY Ids
    <3>2. SameBatch(i, k) /\ ~SameBatch(j, k)
      BY <1>3, <3>1
    <3> QED BY <3>2 DEF SameBatch, Kinds
  <2> QED BY <2>1 DEF Opens
<1>5. m \in Batch(i)
  BY <1>1, <1>3, Ids DEF Batch
<1> QED BY <1>3, <1>4, <1>5
\* Whatever ends an attempt leaves nothing to know about it.
LEMMA RestForgets ==
  ASSUME Rest
  PROVE  (Alive /\ Steady /\ Asked /\ Order /\ Inventoried)'
BY Ids DEF Rest, Running, Merging, Alive, Steady, Asked, Order, Inventoried

LEMMA BatchesStay ==
  ASSUME kind' = kind
  PROVE  \A i \in 1 .. Len(MetricIDs) : Opens(i)' = Opens(i) /\ Batch(i)' = Batch(i)
BY DEF Opens, Batch, SameBatch

LEMMA InitIInv == Init => IInv
<1> SUFFICES ASSUME Init PROVE IInv
  OBVIOUS
<1>1. TypeOK /\ Fresh
  BY TypeInit
<1>2. Alive /\ Steady /\ Asked /\ Order /\ Inventoried
  BY Ids DEF Init, Running, Merging, Alive, Steady, Asked, Order, Inventoried
<1>3. OneAttempt /\ SteadyComplete /\ JoinsInventory
  BY DEF Init, OneAttempt, SteadyComplete, JoinsInventory, NothingShown
<1> QED BY <1>1, <1>2, <1>3 DEF IInv

LEMMA TenantLeavesStep ==
  ASSUME IInv, TenantLeaves
  PROVE  /\ (Alive /\ Steady /\ Asked /\ Order /\ Inventoried)'
         /\ (OneAttempt /\ SteadyComplete /\ JoinsInventory)'
<1>1. pc = "idle" /\ pc' = "idle"
  BY DEF TenantLeaves
<1>2. (Alive /\ Steady /\ Asked /\ Order /\ Inventoried)'
  BY <1>1 DEF TenantLeaves, IInv, Running, Merging, Alive, Steady, Asked, Order, Inventoried
<1>3. (OneAttempt /\ SteadyComplete /\ JoinsInventory)'
  BY DEF TenantLeaves, NothingShown, OneAttempt, SteadyComplete, JoinsInventory
<1> QED BY <1>2, <1>3

LEMMA AdminReturnsStep ==
  ASSUME IInv, AdminReturns
  PROVE  /\ (Alive /\ Steady /\ Asked /\ Order /\ Inventoried)'
         /\ (OneAttempt /\ SteadyComplete /\ JoinsInventory)'
<1>1. pc = "idle" /\ pc' = "idle"
  BY DEF AdminReturns
<1>2. (Alive /\ Steady /\ Asked /\ Order /\ Inventoried)'
  BY <1>1 DEF AdminReturns, IInv, Running, Merging, Alive, Steady, Asked, Order, Inventoried
<1>3. (OneAttempt /\ SteadyComplete /\ JoinsInventory)'
  BY DEF AdminReturns, IInv, OneAttempt, SteadyComplete, JoinsInventory
<1> QED BY <1>2, <1>3

LEMMA OwnersLeaveStep ==
  ASSUME IInv, NEW gone \in SUBSET Labels, OwnersLeave(gone)
  PROVE  /\ (Alive /\ Steady /\ Asked /\ Order /\ Inventoried)'
         /\ (OneAttempt /\ SteadyComplete /\ JoinsInventory)'
<1>1. /\ pc = "idle" /\ pc' = "idle"
      /\ UNCHANGED <<kind, raw, objects, attempt, items, batch, merged, inventory, current>>
      /\ served' = { s \in served : s.label \notin gone }
  BY DEF OwnersLeave
<1>2. /\ last'.at = last.at /\ last'.alive = last.alive
      /\ last'.steady =
           { o \in last.steady : \A s \in served : s.uuid = o => s.label \notin gone }
  BY DEF OwnersLeave, IInv, TypeOK
<1>3. (Alive /\ Steady /\ Asked /\ Order /\ Inventoried)'
  BY <1>1 DEF IInv, Running, Merging, Alive, Steady, Asked, Order, Inventoried
<1>4. OneAttempt' /\ JoinsInventory'
  BY <1>1, <1>2 DEF IInv, OneAttempt, JoinsInventory
<1>5. SteadyComplete'
  <2> SUFFICES ASSUME NEW o \in last'.steady, NEW m \in Metrics
               PROVE  \E s \in served' : s.uuid = o /\ s.metric = m
    BY DEF SteadyComplete
  <2>1. PICK s \in served : s.uuid = o /\ s.metric = m
    BY <1>2 DEF IInv, SteadyComplete
  <2>2. s \in served'
    BY <1>1, <1>2, <2>1
  <2> QED BY <2>1, <2>2
<1> QED BY <1>3, <1>4, <1>5

LEMMA BeginStep ==
  ASSUME IInv, Begin
  PROVE  /\ (Alive /\ Steady /\ Asked /\ Order /\ Inventoried)'
         /\ (OneAttempt /\ SteadyComplete /\ JoinsInventory)'
<1>1. pc = "idle" /\ merged = {} /\ merged' = {} /\ batch' = 1
  BY DEF Begin, IInv, TypeOK
<1>2. Alive'
  BY <1>1 DEF Begin, Alive, Present, NoItems
<1>3. Steady'
  BY <1>1 DEF Begin, Steady, Present
<1>4. Asked' /\ Order'
  BY <1>1, Ids DEF Begin, Asked, Order
<1>5. Inventoried'
  BY <1>1 DEF Begin, Inventoried, Merging, IInv, TypeOK
<1>6. (OneAttempt /\ SteadyComplete /\ JoinsInventory)'
  BY DEF Begin, IInv, OneAttempt, SteadyComplete, JoinsInventory
<1> QED BY <1>2, <1>3, <1>4, <1>5, <1>6

LEMMA RenderInventoryStep ==
  ASSUME IInv, RenderInventory
  PROVE  /\ (Alive /\ Steady /\ Asked /\ Order /\ Inventoried)'
         /\ (OneAttempt /\ SteadyComplete /\ JoinsInventory)'
<1>1. pc = "inventory" /\ ~raw /\ batch = 1 /\ last.at < attempt
  BY DEF RenderInventory, IInv, Order, Fresh, Running
<1>2. CASE kind = "pool" /\ items = NoItems
  <2>1. Rest /\ Show({})
    BY <1>2 DEF RenderInventory
  <2>2. current.steady = {}
    <3>1. \A o \in Objects : items[o] = Gone
      BY <1>2 DEF NoItems
    <3>2. \A o \in current.steady : o \in Objects /\ items[o] # Gone
      BY <1>1 DEF IInv, Steady, TypeOK, Running
    <3> QED BY <3>1, <3>2
  <2>3. (OneAttempt /\ SteadyComplete /\ JoinsInventory)'
    BY <2>1, <2>2 DEF Show, OneAttempt, SteadyComplete, JoinsInventory
  <2> QED BY <2>1, <2>3, RestForgets
<1>3. CASE ~(kind = "pool" /\ items = NoItems)
  <2>1. /\ pc' = "ask" /\ UNCHANGED <<kind, raw, objects, attempt, items, batch, merged, served, current, last>>
        /\ inventory' = [at |-> attempt, rows |-> Rows(items)]
    BY <1>3 DEF RenderInventory
  <2>2. Alive' /\ Steady'
    BY <1>1, <2>1 DEF IInv, Alive, Steady, Running
  <2>3. Asked' /\ Order'
    BY <1>1, <2>1, Ids DEF Asked, Order
  <2>4. Inventoried'
    <3>1. Rows(items)' = Rows(items)
      BY <2>1 DEF Rows
    <3> QED BY <1>1, <2>1, <3>1 DEF Inventoried
  <2>5. (OneAttempt /\ SteadyComplete /\ JoinsInventory)'
    BY <1>1, <2>1 DEF IInv, TypeOK, OneAttempt, SteadyComplete, JoinsInventory
  <2> QED BY <2>2, <2>3, <2>4, <2>5
<1> QED BY <1>2, <1>3

LEMMA AskStep ==
  ASSUME IInv, NEW without \in SUBSET Objects, Ask(without)
  PROVE  /\ (Alive /\ Steady /\ Asked /\ Order /\ Inventoried)'
         /\ (OneAttempt /\ SteadyComplete /\ JoinsInventory)'
<1> DEFINE answers == { [metric |-> m, uuid |-> o, label |-> objects[o]] :
                          m \in Batch(batch), o \in Present \ without }
<1>1. /\ pc = "ask" /\ batch \in 1 .. Len(MetricIDs)
      /\ merged' = merged \union answers
      /\ current'.alive = current.alive /\ current'.steady = current.steady \ without
      /\ UNCHANGED <<kind, raw, objects, attempt, items, inventory, served, last>>
  BY DEF Ask, IInv, Order, TypeOK
<1>2. PICK next \in batch + 1 .. Len(MetricIDs) + 1 :
        /\ \A j \in batch + 1 .. next - 1 : ~Opens(j)
        /\ batch' = next
        /\ pc' = IF next <= Len(MetricIDs) THEN "ask" ELSE "render"
  BY DEF Ask, Advance
<1>3. Alive'
  <2>1. \A o \in Present : o \in current.alive
    BY <1>1 DEF IInv, Alive, Running, Present
  <2>2. \A s \in answers : s.uuid \in Present
    OBVIOUS
  <2> QED BY <1>1, <2>1, <2>2 DEF IInv, Alive, Running
<1>4. Steady'
  BY <1>1 DEF IInv, Steady, Running
<1>5. Asked'
  <2> SUFFICES ASSUME NEW i \in 1 .. batch' - 1, NEW m \in Metrics, NEW o \in current'.steady,
                      Opens(i)', m \in Batch(i)'
               PROVE  \E s \in merged' : s.metric = m /\ s.uuid = o
    BY DEF Asked
  <2>1. i \in 1 .. Len(MetricIDs) /\ Opens(i) /\ m \in Batch(i) /\ i < batch' /\ o \in current.steady \ without
    BY <1>1, <1>2, Ids, BatchesStay
  <2>2. CASE i < batch
    <3>1. i \in 1 .. batch - 1
      BY <1>1, <2>1, <2>2, Ids
    <3>2. \E s \in merged : s.metric = m /\ s.uuid = o
      BY <1>1, <2>1, <3>1 DEF IInv, Asked, Merging
    <3> QED BY <1>1, <3>2
  <2>3. CASE i = batch
    <3>1. o \in Objects /\ objects[o] # Gone
      BY <1>1, <2>1 DEF IInv, Steady, Running, TypeOK
    <3>2. [metric |-> m, uuid |-> o, label |-> objects[o]] \in answers
      BY <2>1, <2>3, <3>1 DEF Present
    <3> HIDE DEF answers
    <3>3. \A x \in answers : x \in merged'
      BY <1>1
    <3> QED BY <3>2, <3>3
  <2>4. CASE i > batch
    <3>1. i \in batch + 1 .. batch' - 1
      BY <1>1, <1>2, <2>1, <2>4, Ids
    <3> QED BY <1>2, <2>1, <3>1
  <2> QED BY <1>1, <2>1, <2>2, <2>3, <2>4, Ids
<1>6. Order'
  BY <1>1, <1>2, Ids DEF Order
<1>7. Inventoried'
  <2>1. Rows(items)' = Rows(items)
    BY <1>1 DEF Rows
  <2> QED BY <1>1, <1>2, <2>1 DEF IInv, Inventoried, Merging, Running
<1>8. (OneAttempt /\ SteadyComplete /\ JoinsInventory)'
  BY <1>1 DEF IInv, OneAttempt, SteadyComplete, JoinsInventory
<1> QED BY <1>3, <1>4, <1>5, <1>6, <1>7, <1>8
LEMMA AskFailsStep ==
  ASSUME IInv, AskFails
  PROVE  /\ (Alive /\ Steady /\ Asked /\ Order /\ Inventoried)'
         /\ (OneAttempt /\ SteadyComplete /\ JoinsInventory)'
<1>1. Rest /\ UNCHANGED <<served, inventory, last>>
  BY DEF AskFails
<1>2. (OneAttempt /\ SteadyComplete /\ JoinsInventory)'
  BY <1>1 DEF IInv, OneAttempt, SteadyComplete, JoinsInventory
<1> QED BY <1>1, <1>2, RestForgets

LEMMA RenderStep ==
  ASSUME IInv, Render
  PROVE  /\ (Alive /\ Steady /\ Asked /\ Order /\ Inventoried)'
         /\ (OneAttempt /\ SteadyComplete /\ JoinsInventory)'
<1>1. /\ pc = "render" /\ Rest /\ UNCHANGED <<kind, raw, inventory>>
      /\ served' = NewSeries
      /\ last' = [at |-> attempt, alive |-> current.alive, steady |-> current.steady]
  BY DEF Render, Show
<1>2. OneAttempt'
  <2>1. \A s \in NewSeries : s.at = attempt /\ \E x \in merged : s.uuid = x.uuid
    BY DEF NewSeries
  <2>2. \A x \in merged : x.uuid \in current.alive
    BY DEF IInv, Alive
  <2> QED BY <1>1, <2>1, <2>2 DEF OneAttempt
<1>3. SteadyComplete'
  <2> SUFFICES ASSUME NEW o \in current.steady, NEW m \in Metrics
               PROVE  \E s \in NewSeries : s.uuid = o /\ s.metric = m
    BY <1>1 DEF SteadyComplete
  <2>1. PICK i \in 1 .. Len(MetricIDs) : Opens(i) /\ m \in Batch(i)
    BY BatchesCover DEF IInv, TypeOK
  <2>2. i \in 1 .. batch - 1
    BY <1>1, Ids DEF IInv, Order
  <2>3. PICK x \in merged : x.metric = m /\ x.uuid = o
    BY <1>1, <2>1, <2>2 DEF IInv, Asked, Merging
  <2>4. CASE raw
    <3>1. [metric |-> x.metric, uuid |-> x.uuid, label |-> x.label, at |-> attempt] \in NewSeries
      BY <2>4 DEF NewSeries
    <3> QED BY <2>3, <3>1
  <2>5. CASE ~raw
    <3>1. items[x.uuid] # Gone
      BY <1>1, <2>3, <2>5 DEF IInv, Steady, Running
    <3>2. [metric |-> x.metric, uuid |-> x.uuid, label |-> items[x.uuid], at |-> attempt] \in NewSeries
      BY <2>5, <3>1 DEF NewSeries
    <3> QED BY <2>3, <3>2
  <2> QED BY <2>4, <2>5
<1>4. JoinsInventory'
  <2>1. CASE raw
    <3>1. inventory.at < attempt /\ inventory.at \in Nat /\ attempt \in Nat
      BY <1>1, <2>1, AnalyticsAssumption DEF IInv, TypeOK, Inventoried, Running
    <3> QED BY <1>1, <3>1 DEF JoinsInventory
  <2>2. CASE ~raw
    <3>1. inventory.rows = Rows(items)
      BY <1>1, <2>2 DEF IInv, Inventoried, Merging
    <3>2. \A s \in NewSeries : s.uuid \in Objects /\ items[s.uuid] # Gone /\ s.label = items[s.uuid]
      BY <2>2 DEF NewSeries, IInv, TypeOK
    <3>3. \A s \in NewSeries : <<s.uuid, s.label>> \in Rows(items)
      BY <3>2 DEF Rows
    <3> QED BY <1>1, <3>1, <3>3 DEF JoinsInventory
  <2> QED BY <2>1, <2>2
<1> QED BY <1>1, <1>2, <1>3, <1>4, RestForgets

LEMMA ChangeStep ==
  ASSUME IInv, NEW o \in Objects, NEW label \in Labels \union {Gone}, Change(o, label)
  PROVE  /\ (Alive /\ Steady /\ Asked /\ Order /\ Inventoried)'
         /\ (OneAttempt /\ SteadyComplete /\ JoinsInventory)'
<1>1. /\ objects' = [objects EXCEPT ![o] = label] /\ objects \in [Objects -> Labels \union {Gone}]
      /\ UNCHANGED <<kind, raw, pc, attempt, items, batch, merged, inventory, served, last>>
  BY DEF Change, IInv, TypeOK
<1>2. (OneAttempt /\ SteadyComplete /\ JoinsInventory)'
  BY <1>1 DEF IInv, OneAttempt, SteadyComplete, JoinsInventory
<1>3. Order'
  BY <1>1 DEF IInv, Order
<1>4. Inventoried'
  <2>1. Rows(items)' = Rows(items)
    BY <1>1 DEF Rows
  <2> QED BY <1>1, <2>1 DEF IInv, Inventoried, Merging, Running
<1>5. CASE pc = "idle"
  <2>1. merged = {}
    BY <1>5 DEF IInv, TypeOK
  <2>2. (Alive /\ Steady /\ Asked)'
    BY <1>1, <1>5, <2>1 DEF Alive, Steady, Asked, Running, Merging
  <2> QED BY <1>2, <1>3, <1>4, <2>2
<1>6. CASE pc # "idle"
  <2>1. /\ current'.alive = IF label = Gone THEN current.alive ELSE current.alive \union {o}
        /\ current'.steady = current.steady \ {o}
    BY <1>6 DEF Change
  <2>2. Alive'
    BY <1>1, <1>6, <2>1 DEF IInv, Alive, Running
  <2>3. Steady'
    <3>1. \A x \in current'.steady : x \in Objects /\ x # o /\ x \in current.steady
      BY <2>1 DEF IInv, TypeOK
    <3> QED BY <1>1, <1>6, <3>1 DEF IInv, Steady, Running
  <2>4. Asked'
    <3>1. \A i \in 1 .. batch - 1 : i \in 1 .. Len(MetricIDs)
      BY Ids DEF IInv, TypeOK
    <3> QED BY <1>1, <2>1, <3>1, BatchesStay DEF IInv, Asked, Merging
  <2> QED BY <1>2, <1>3, <1>4, <2>2, <2>3, <2>4
<1> QED BY <1>5, <1>6

LEMMA StepIInv == IInv /\ [Next]_vars => IInv'
<1> SUFFICES ASSUME IInv, [Next]_vars PROVE IInv'
  OBVIOUS
<1>1. (TypeOK /\ Fresh)'
  BY TypeStep DEF IInv
<1>2. /\ (Alive /\ Steady /\ Asked /\ Order /\ Inventoried)'
      /\ (OneAttempt /\ SteadyComplete /\ JoinsInventory)'
  <2>1. CASE TenantLeaves
    BY <2>1, TenantLeavesStep
  <2>9. CASE AdminReturns
    BY <2>9, AdminReturnsStep
  <2>10. CASE \E gone \in SUBSET Labels : OwnersLeave(gone)
    BY <2>10, OwnersLeaveStep
  <2>2. CASE Begin
    BY <2>2, BeginStep
  <2>3. CASE RenderInventory
    BY <2>3, RenderInventoryStep
  <2>4. CASE \E without \in SUBSET Objects : Ask(without)
    BY <2>4, AskStep
  <2>5. CASE AskFails
    BY <2>5, AskFailsStep
  <2>6. CASE Render
    BY <2>6, RenderStep
  <2>7. CASE \E o \in Objects, label \in Labels \union {Gone} : Change(o, label)
    BY <2>7, ChangeStep
  <2>8. CASE UNCHANGED vars
    <3>1. UNCHANGED <<kind, raw, objects, pc, attempt, items, batch, merged, inventory,
                      served, current, last>>
      BY <2>8 DEF vars
    <3>2. (Alive /\ Steady /\ Order)'
      BY <3>1 DEF IInv, Alive, Steady, Order, Running
    <3>3. Asked'
      <4>1. \A i \in 1 .. batch - 1 : i \in 1 .. Len(MetricIDs)
        BY Ids DEF IInv, TypeOK
      <4> QED BY <3>1, <4>1, BatchesStay DEF IInv, Asked, Merging
    <3>4. Inventoried'
      <4>1. Rows(items)' = Rows(items)
        BY <3>1 DEF Rows
      <4> QED BY <3>1, <4>1 DEF IInv, Inventoried, Merging, Running
    <3>5. (OneAttempt /\ SteadyComplete /\ JoinsInventory)'
      BY <3>1 DEF IInv, OneAttempt, SteadyComplete, JoinsInventory
    <3> QED BY <3>2, <3>3, <3>4, <3>5
  <2> QED BY <2>1, <2>2, <2>3, <2>4, <2>5, <2>6, <2>7, <2>8, <2>9, <2>10 DEF Next
<1> QED BY <1>1, <1>2 DEF IInv

LEMMA IInvAlways == Spec => []IInv
BY InitIInv, StepIInv, PTL DEF Spec

(* No series of an analytics group mixes two attempts, or is about an       *)
(* object that did not exist during the attempt that is served, whatever    *)
(* the controller changes and whichever request fails.                      *)
THEOREM OneAttemptServed == Spec => []OneAttempt
<1>1. IInv => OneAttempt
  BY DEF IInv
<1> QED BY <1>1, IInvAlways, PTL

(* The batches together ask for every metric id: an object unchanged and    *)
(* answered for throughout the attempt is served with all of them, for as   *)
(* long as its tenant is not dropped by a later discovery.                  *)
THEOREM SteadyObjectsComplete == Spec => []SteadyComplete
<1>1. IInv => SteadyComplete
  BY DEF IInv
<1> QED BY <1>1, IInvAlways, PTL

(* Analytics and inventory of one refresh carry the same labels.            *)
THEOREM AnalyticsJoin == Spec => []JoinsInventory
<1>1. IInv => JoinsInventory
  BY DEF IInv
<1> QED BY <1>1, IInvAlways, PTL
=============================================================================
