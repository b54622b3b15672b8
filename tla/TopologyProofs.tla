---------------------------- MODULE TopologyProofs ----------------------------
(***************************************************************************)
(* Theorems about Topology, for any virtual services, pools, groups,       *)
(* servers and policies, and any way they change between the requests.     *)
(***************************************************************************)
EXTENDS Topology, TLAPS

(* What has been listed is what could be reached: the refs and the pools'   *)
(* back references name nothing beyond reached.                             *)
Reached ==
  /\ at # "vs_list" => \A v \in VSs : Reaches(delivers[v]) \subseteq reached[v]
  /\ \A v \in VSs : vsRefs[v].pool # None => vsRefs[v].pool \in reached[v]
  /\ \A p \in Pools : \A v \in poolRefs[p] : p \in reached[v]
  /\ at = "vs_list" => \A p \in Pools : poolRefs[p] = {}

(* What the lists say of a virtual service that did not change.             *)
Unchanged ==
  /\ \A v \in steady : v \in Listed <=> v \in Present
  /\ vipRefs \intersect steady \subseteq Listed
  /\ at = "vs_list" => vipRefs = {}
  /\ \A v \in steady \intersect Listed :
       vsRefs[v] = Refs(delivers[v]) \/ (~known /\ vsRefs[v] = NoRefs)
  /\ at \in {"vsvip_list", "topology"} =>
       \A v \in steady, p \in Pools : v \in poolRefs[p] <=> p \in Reaches(delivers[v])

IInv == TypeOK /\ Reached /\ Unchanged

-----------------------------------------------------------------------------
(* What a delivery holds. *)
LEMMA DeliveryType ==
  ASSUME NEW d \in Delivery \union {Absent}
  PROVE  /\ d.pool \in Pools \union {None}
         /\ d.group \in Groups \union {None}
         /\ Reaches(d) \subseteq Pools
         /\ d.pool # None => d.pool \in Reaches(d)
         /\ d.pool # None => d.group = None
         /\ Refs(d) \in [listed : BOOLEAN, pool : Pools \union {None}, group : Groups \union {None}]
         /\ Refs(d).listed /\ Refs(d).pool = d.pool /\ Refs(d).group = d.group
  BY TopologyAssumption DEF Delivery, Absent, Reaches, OwnPools, Refs

(* Nothing is reached by what does not exist. *)
LEMMA AbsentReaches == Reaches(Absent) = {}
  BY TopologyAssumption DEF Absent, Reaches, OwnPools

(* Between refreshes the lists are empty. *)
LEMMA IdleForgets ==
  ASSUME TypeOK, Idle, UNCHANGED delivers
  PROVE  IInv'
  BY TopologyAssumption DEF TypeOK, Idle, IInv, Reached, Unchanged, Listed, Unlisted

(* The refs of a virtual service after its configuration has been merged in. *)
LEMMA MergedRefs ==
  ASSUME TypeOK, NEW v \in VSs
  PROVE  /\ Merged(v) \in [listed : BOOLEAN, pool : Pools \union {None},
                           group : Groups \union {None}]
         /\ Merged(v).listed = vsRefs[v].listed
         /\ Merged(v).pool \in {vsRefs[v].pool, delivers[v].pool}
         /\ v \in Listed \intersect Present =>
              Merged(v) = [listed |-> TRUE,
                           pool  |-> IF vsRefs[v].pool = None THEN delivers[v].pool
                                     ELSE vsRefs[v].pool,
                           group |-> IF vsRefs[v].group = None THEN delivers[v].group
                                     ELSE vsRefs[v].group]
<1>1. /\ delivers[v].pool \in Pools \union {None}
      /\ delivers[v].group \in Groups \union {None}
  BY DeliveryType DEF TypeOK
<1>2. /\ vsRefs[v].pool \in Pools \union {None} /\ vsRefs[v].group \in Groups \union {None}
      /\ vsRefs[v] \in [listed : BOOLEAN, pool : Pools \union {None}, group : Groups \union {None}]
      /\ v \in Listed => vsRefs[v].listed = TRUE
  BY DEF TypeOK, Listed
<1> QED  BY <1>1, <1>2 DEF Merged

(* The type of the state is that of its parts. *)
LEMMA TypeInvariant ==
  ASSUME TypeOK, [Next]_vars
  PROVE  TypeOK'
<1> USE TopologyAssumption
<1>1. ASSUME NEW omits \in BOOLEAN, ListVS(omits) PROVE TypeOK'
  <2>1. \A v \in VSs : Reaches(delivers[v]) \subseteq Pools
    BY DeliveryType DEF TypeOK
  <2>2. \A v \in VSs :
          Refs(delivers[v]) \in [listed : BOOLEAN, pool : Pools \union {None}, group : Groups \union {None}]
    BY DeliveryType DEF TypeOK
  <2> HIDE DEF Reaches, Refs
  <2> QED  BY <1>1, <2>1, <2>2 DEF TypeOK, ListVS, Unlisted, NoRefs, vsVars
<1>2. CASE Configure
  <2>1. \A v \in VSs :
          Merged(v) \in [listed : BOOLEAN, pool : Pools \union {None}, group : Groups \union {None}]
    BY MergedRefs
  <2> HIDE DEF Merged
  <2> QED  BY <1>2, <2>1 DEF TypeOK, Configure
<1>3. CASE ConfigureFails
  BY <1>3 DEF TypeOK, ConfigureFails, vsVars
<1>4. CASE ListPools
  BY <1>4 DEF TypeOK, ListPools, Present
<1>5. CASE ListVsVips
  BY <1>5 DEF TypeOK, ListVsVips, Present
<1>6. CASE Fail
  BY <1>6, IdleForgets DEF Fail, IInv
<1>7. CASE Build
  BY <1>7, IdleForgets DEF Build, IInv
<1>8. ASSUME NEW v \in VSs, NEW d \in Delivery \union {Absent}, Change(v, d) PROVE TypeOK'
  <2>1. Reaches(d) \subseteq Pools
    BY DeliveryType
  <2> HIDE DEF Reaches
  <2>2. reached' \in [VSs -> SUBSET Pools]
    BY <1>8, <2>1 DEF TypeOK, Change
  <2>3. delivers' \in [VSs -> Delivery \union {Absent}]
    BY <1>8 DEF TypeOK, Change
  <2> QED  BY <1>8, <2>2, <2>3 DEF TypeOK, Change
<1>9. CASE UNCHANGED vars
  BY <1>9 DEF TypeOK, vars, vsVars
<1> QED  BY <1>1, <1>2, <1>3, <1>4, <1>5, <1>6, <1>7, <1>8, <1>9 DEF Next

(* No list names a pool that was not reached. *)
LEMMA ReachedInvariant ==
  ASSUME IInv, [Next]_vars
  PROVE  Reached'
<1> USE TopologyAssumption
<1>0. TypeOK /\ Reached
  BY DEF IInv
<1>a. \A v \in VSs :
        /\ delivers[v].pool # None => delivers[v].pool \in Reaches(delivers[v])
        /\ Refs(delivers[v]).pool = delivers[v].pool
  BY <1>0, DeliveryType DEF TypeOK
<1> HIDE DEF Reaches, Refs
<1>1. ASSUME NEW omits \in BOOLEAN, ListVS(omits) PROVE Reached'
  <2>1. at = "vs_list" /\ at' = "vs_config" /\ delivers' = delivers /\ poolRefs' = poolRefs
    BY <1>1 DEF ListVS
  <2>2. \A v \in VSs : reached'[v] = Reaches(delivers[v])
    BY <1>1 DEF ListVS
  <2>3. \A v \in VSs : vsRefs'[v].pool \in {None, delivers[v].pool}
    BY <1>1, <1>a DEF ListVS, Unlisted, NoRefs
  <2> QED  BY <1>0, <1>a, <2>1, <2>2, <2>3 DEF Reached
<1>2. CASE Configure
  <2>1. at = "vs_config" /\ at' = "pool_list"
        /\ UNCHANGED <<delivers, poolRefs, reached>>
    BY <1>2 DEF Configure
  <2>2. \A v \in VSs : vsRefs'[v].pool \in {vsRefs[v].pool, delivers[v].pool}
    BY <1>0, <1>2, MergedRefs DEF Configure
  <2> QED  BY <1>0, <1>a, <2>1, <2>2 DEF Reached
<1>3. CASE ConfigureFails
  BY <1>0, <1>3 DEF Reached, ConfigureFails, vsVars
<1>4. CASE ListPools
  <2>1. at = "pool_list" /\ at' = "vsvip_list" /\ UNCHANGED <<delivers, vsRefs, reached>>
    BY <1>4 DEF ListPools
  <2>2. \A p \in Pools : \A v \in poolRefs'[p] : v \in VSs /\ p \in Reaches(delivers[v])
    BY <1>4 DEF ListPools, Present
  <2> QED  BY <1>0, <2>1, <2>2 DEF Reached
<1>5. CASE ListVsVips
  BY <1>0, <1>5 DEF Reached, ListVsVips
<1>6. CASE Fail
  BY <1>0, <1>6, IdleForgets DEF Fail, IInv
<1>7. CASE Build
  BY <1>0, <1>7, IdleForgets DEF Build, IInv
<1>8. ASSUME NEW v \in VSs, NEW d \in Delivery \union {Absent}, Change(v, d) PROVE Reached'
  <2>1. delivers' = [delivers EXCEPT ![v] = d] /\ UNCHANGED <<at, vsRefs, poolRefs>>
    BY <1>8 DEF Change
  <2>2. at # "vs_list" =>
          reached' = [reached EXCEPT ![v] = @ \union Reaches(d)]
    BY <1>8 DEF Change
  <2>3. at = "vs_list" => reached' = reached
    BY <1>8 DEF Change
  <2>4. \A w \in VSs : reached[w] \subseteq reached'[w]
    BY <1>0, <2>2, <2>3 DEF TypeOK
  <2>5. at # "vs_list" => \A w \in VSs : Reaches(delivers'[w]) \subseteq reached'[w]
    BY <1>0, <2>1, <2>2 DEF TypeOK, Reached
  <2>6. \A p \in Pools : poolRefs[p] \subseteq VSs
    BY <1>0 DEF TypeOK
  <2> QED  BY <1>0, <2>1, <2>4, <2>5, <2>6 DEF Reached
<1>9. CASE UNCHANGED vars
  BY <1>0, <1>9 DEF Reached, vars, vsVars
<1> QED  BY <1>1, <1>2, <1>3, <1>4, <1>5, <1>6, <1>7, <1>8, <1>9 DEF Next

(* What the lists say of a steady virtual service stays true of it. *)
LEMMA UnchangedInvariant ==
  ASSUME IInv, [Next]_vars
  PROVE  Unchanged'
<1> USE TopologyAssumption
<1>0. TypeOK /\ Unchanged
  BY DEF IInv
<1> HIDE DEF Reaches, Refs, NoRefs, Unlisted
<1>1. ASSUME NEW omits \in BOOLEAN, ListVS(omits) PROVE Unchanged'
  <2>1. /\ at' = "vs_config" /\ delivers' = delivers /\ steady' = VSs /\ known' = ~omits
        /\ vipRefs' = vipRefs
    BY <1>1 DEF ListVS
  <2>2. \A v \in VSs :
          vsRefs'[v] = IF v \notin Present THEN Unlisted
                       ELSE IF omits THEN NoRefs ELSE Refs(delivers[v])
    BY <1>1 DEF ListVS
  <2>a. Unlisted.listed = FALSE /\ NoRefs.listed = TRUE
        /\ \A v \in VSs : Refs(delivers[v]).listed = TRUE
    BY DEF Unlisted, NoRefs, Refs
  <2>b. \A v \in VSs : vsRefs'[v].listed <=> v \in Present
    BY <2>2, <2>a
  <2>3. Listed' = Present
    BY <2>b DEF Listed, Present
  <2>4. Present' = Present
    BY <2>1 DEF Present
  <2>5. at = "vs_list"
    BY <1>1 DEF ListVS
  <2>6. vipRefs' = {}
    BY <1>0, <2>1, <2>5 DEF Unchanged
  <2>7. \A v \in VSs \intersect Present :
          vsRefs'[v] = Refs(delivers'[v]) \/ (~known' /\ vsRefs'[v] = NoRefs)
    BY <2>1, <2>2
  <2> QED  BY <2>1, <2>3, <2>4, <2>6, <2>7 DEF Unchanged
<1>2. CASE Configure
  <2>1. /\ at = "vs_config" /\ at' = "pool_list" /\ known' = TRUE
        /\ UNCHANGED <<delivers, poolRefs, vipRefs, steady>>
    BY <1>2 DEF Configure
  <2>2. \A v \in VSs : vsRefs'[v] = Merged(v)
    BY <1>2 DEF Configure
  <2>3. Listed' = Listed /\ Present' = Present
    BY <1>0, <2>1, <2>2, MergedRefs DEF Listed, Present
  <2>4. ASSUME NEW v \in steady \intersect Listed
        PROVE  Merged(v) = Refs(delivers[v])
    <3>1. v \in VSs /\ v \in Listed \intersect Present
      BY <1>0, <2>4 DEF Unchanged, TypeOK
    <3>2. vsRefs[v] = Refs(delivers[v]) \/ vsRefs[v] = NoRefs
      BY <1>0, <2>4 DEF Unchanged
    <3>3. Merged(v) = [listed |-> TRUE,
                       pool  |-> IF vsRefs[v].pool = None THEN delivers[v].pool
                                 ELSE vsRefs[v].pool,
                       group |-> IF vsRefs[v].group = None THEN delivers[v].group
                                 ELSE vsRefs[v].group]
      BY <1>0, <3>1, MergedRefs
    <3>4. \/ vsRefs[v].pool = delivers[v].pool /\ vsRefs[v].group = delivers[v].group
          \/ vsRefs[v].pool = None /\ vsRefs[v].group = None
      BY <3>2 DEF Refs, NoRefs
    <3> QED  BY <3>3, <3>4 DEF Refs
  <2>5. \A v \in steady \intersect Listed : v \in VSs
    BY DEF Listed
  <2> QED  BY <1>0, <2>1, <2>2, <2>3, <2>4, <2>5 DEF Unchanged
<1>3. CASE ConfigureFails
  <2>1. Listed' = Listed /\ Present' = Present
    BY <1>3 DEF ConfigureFails, vsVars, Listed, Present
  <2> QED  BY <1>0, <1>3, <2>1 DEF Unchanged, ConfigureFails, vsVars
<1>4. CASE ListPools
  <2>1. Listed' = Listed /\ Present' = Present
    BY <1>4 DEF ListPools, Listed, Present
  <2>2. \A p \in Pools : poolRefs'[p] = { v \in Present : p \in Reaches(delivers[v]) }
    BY <1>4 DEF ListPools
  <2>3. \A v \in VSs, p \in Pools : v \in poolRefs'[p] <=> p \in Reaches(delivers[v])
    BY <2>2, AbsentReaches DEF Present
  <2>4. steady \subseteq VSs
    BY <1>0 DEF TypeOK
  <2> QED  BY <1>0, <1>4, <2>1, <2>3, <2>4 DEF Unchanged, ListPools
<1>5. CASE ListVsVips
  <2>1. Listed' = Listed /\ Present' = Present
    BY <1>5 DEF ListVsVips, Listed, Present
  <2> QED  BY <1>0, <1>5, <2>1 DEF Unchanged, ListVsVips
<1>6. CASE Fail
  BY <1>0, <1>6, IdleForgets DEF Fail, IInv
<1>7. CASE Build
  BY <1>0, <1>7, IdleForgets DEF Build, IInv
<1>8. ASSUME NEW v \in VSs, NEW d \in Delivery \union {Absent}, Change(v, d) PROVE Unchanged'
  <2>1. /\ steady' = steady \ {v} /\ UNCHANGED <<at, vsRefs, poolRefs, vipRefs, known>>
        /\ delivers' = [delivers EXCEPT ![v] = d]
    BY <1>8 DEF Change
  <2>2. \A w \in steady' : w \in steady /\ w \in VSs /\ delivers'[w] = delivers[w]
    BY <1>0, <2>1 DEF TypeOK
  <2>3. Listed' = Listed
    BY <2>1 DEF Listed
  <2>4. \A w \in steady' : w \in Present' <=> w \in Present
    BY <2>2 DEF Present
  <2> QED  BY <1>0, <2>1, <2>2, <2>3, <2>4 DEF Unchanged
<1>9. CASE UNCHANGED vars
  <2>1. Listed' = Listed /\ Present' = Present
    BY <1>9 DEF vars, vsVars, Listed, Present
  <2> QED  BY <1>0, <1>9, <2>1 DEF Unchanged, vars, vsVars
<1> QED  BY <1>1, <1>2, <1>3, <1>4, <1>5, <1>6, <1>7, <1>8, <1>9 DEF Next

-----------------------------------------------------------------------------
LEMMA Invariance == Spec => []IInv
<1>1. Init => IInv
  BY TopologyAssumption DEF Init, IInv, TypeOK, Reached, Unchanged, Listed, Unlisted
<1>2. IInv /\ [Next]_vars => IInv'
  BY TypeInvariant, ReachedInvariant, UnchangedInvariant DEF IInv
<1> QED  BY <1>1, <1>2, PTL DEF Spec

(* The lists of a refresh keep their shape, whatever the controller's       *)
(* virtual services do between the requests.                                *)
THEOREM ListsTypeCorrect == Spec => []TypeOK
<1>1. IInv => TypeOK
  BY DEF IInv
<1> QED  BY <1>1, Invariance, PTL

(* The nodes drawn under a virtual service: kinds of nodes are disjoint, so *)
(* only its own refs and the pools that name it are drawn under it.         *)
LEMMA ShownUnder ==
  ASSUME TypeOK, NEW v \in VSs
  PROVE  Shown(v) = (IF v \in Listed /\ vsRefs[v].pool # None THEN {vsRefs[v].pool} ELSE {})
           \union (IF v \in Listed /\ vsRefs[v].group # None THEN {vsRefs[v].group} ELSE {})
           \union { p \in Pools : v \in poolRefs[p] /\ NeedsReverse(v) }
<1>1. /\ \A e \in VipEdges : e[1] \in VsVips
      /\ \A e \in PoolEdges : e[1] \in Groups
      /\ \A e \in MemberEdges : e[1] \in Pools
  BY TopologyAssumption DEF TypeOK, VipEdges, PoolEdges, MemberEdges, Listed
<1>2. v \notin VsVips /\ v \notin Groups /\ v \notin Pools
  BY TopologyAssumption
<1>3. \A x : <<v, x>> \in DirectEdges <=> v \in Listed /\ vsRefs[v].pool # None /\ x = vsRefs[v].pool
  BY DEF DirectEdges
<1>4. \A x : <<v, x>> \in GroupEdges <=> v \in Listed /\ vsRefs[v].group # None /\ x = vsRefs[v].group
  BY DEF GroupEdges
<1>5. \A x : <<v, x>> \in ReverseEdges <=> x \in Pools /\ v \in poolRefs[x] /\ NeedsReverse(v)
  BY DEF ReverseEdges
<1>6. \A e \in Edges : e = <<e[1], e[2]>>
  BY DEF Edges, VipEdges, DirectEdges, GroupEdges, ReverseEdges, PoolEdges, MemberEdges
<1>7. \A x : x \in Shown(v) <=> <<v, x>> \in Edges
  BY <1>6 DEF Shown
<1>8. \A x : <<v, x>> \in Edges <=>
              <<v, x>> \in DirectEdges \union GroupEdges \union ReverseEdges
  BY <1>1, <1>2 DEF Edges
<1> QED  BY <1>3, <1>4, <1>5, <1>7, <1>8

(* Every edge of the graph was real at some moment of its refresh, and      *)
(* hangs in the air only at a virtual service that changed meanwhile.       *)
THEOREM EdgesReal == Spec => []EdgesWereReal
<1>1. IInv => EdgesWereReal
  <2> SUFFICES ASSUME IInv PROVE EdgesWereReal
    OBVIOUS
  <2>0. TypeOK /\ Reached /\ Unchanged
    BY DEF IInv
  <2>1. ASSUME NEW v \in VSs PROVE Shown(v) \intersect Pools \subseteq reached[v]
    <3>1. vsRefs[v].group # None => vsRefs[v].group \notin Pools
      BY <2>0, TopologyAssumption DEF TypeOK
    <3>2. \A p \in Pools : v \in poolRefs[p] => p \in reached[v]
      BY <2>0 DEF Reached
    <3>3. vsRefs[v].pool # None => vsRefs[v].pool \in reached[v]
      BY <2>0 DEF Reached
    <3> QED  BY <2>0, <3>1, <3>2, <3>3, ShownUnder
  <2>2. ASSUME NEW e \in Edges
        PROVE  e[1] \in Nodes /\ (e[2] \in Nodes \/ e[2] \in VSs \ steady)
    <3>1. CASE e \in VipEdges
      <4>1. PICK v \in vipRefs \union Listed : e = <<VipOf[v], v>>
        BY <3>1 DEF VipEdges
      <4>2. v \in VSs
        BY <2>0 DEF TypeOK, Listed
      <4>3. v \in Listed \/ v \notin steady
        BY <2>0 DEF Unchanged
      <4> QED  BY <4>1, <4>2, <4>3, TopologyAssumption DEF Nodes
    <3>2. CASE e \in DirectEdges \union GroupEdges
      BY <2>0, <3>2 DEF DirectEdges, GroupEdges, TypeOK, Listed, Nodes
    <3>3. CASE e \in ReverseEdges
      <4>1. PICK p \in Pools, v \in VSs : e = <<v, p>> /\ NeedsReverse(v)
        BY <2>0, <3>3 DEF ReverseEdges, TypeOK
      <4> QED  BY <4>1 DEF NeedsReverse, Nodes
    <3>4. CASE e \in PoolEdges
      BY <3>4, TopologyAssumption DEF PoolEdges, Nodes
    <3>5. CASE e \in MemberEdges
      BY <3>5, TopologyAssumption DEF MemberEdges, Nodes
    <3> QED  BY <3>1, <3>2, <3>3, <3>4, <3>5 DEF Edges
  <2> QED  BY <2>1, <2>2 DEF EdgesWereReal
<1> QED  BY <1>1, Invariance, PTL

(* What is drawn under a steady virtual service when the graph is built.    *)
LEMMA SteadyShown ==
  ASSUME IInv, Built, NEW v \in steady \intersect Listed
  PROVE  /\ v \in VSs /\ delivers[v] \in Delivery
         /\ vsRefs[v] = Refs(delivers[v]) =>
              Shown(v) = IF delivers[v].pool # None THEN {delivers[v].pool}
                         ELSE IF delivers[v].group # None THEN {delivers[v].group}
                         ELSE delivers[v].policy
         /\ vsRefs[v] = NoRefs => Shown(v) = Reaches(delivers[v])
         /\ vsRefs[v] = Refs(delivers[v]) \/ (~known /\ vsRefs[v] = NoRefs)
<1>0. TypeOK /\ Unchanged
  BY DEF IInv
<1>1. v \in VSs /\ delivers[v] \in Delivery
  BY <1>0 DEF TypeOK, Unchanged, Present
<1>2. { p \in Pools : v \in poolRefs[p] } = Reaches(delivers[v])
  <2>1. Reaches(delivers[v]) \subseteq Pools
    BY <1>1, DeliveryType
  <2>2. \A p \in Pools : v \in poolRefs[p] <=> p \in Reaches(delivers[v])
    BY <1>0 DEF Unchanged, Built
  <2> HIDE DEF Reaches
  <2> QED  BY <2>1, <2>2
<1>3. /\ delivers[v].pool # None => delivers[v].group = None
      /\ delivers[v].pool = None /\ delivers[v].group = None =>
           Reaches(delivers[v]) = delivers[v].policy
  BY <1>1, TopologyAssumption DEF Delivery, Reaches, OwnPools
<1>4. NeedsReverse(v) <=> vsRefs[v].pool = None /\ vsRefs[v].group = None
  BY DEF NeedsReverse
<1>5. { p \in Pools : v \in poolRefs[p] /\ NeedsReverse(v) } =
        IF NeedsReverse(v) THEN Reaches(delivers[v]) ELSE {}
  BY <1>2
<1>6. ASSUME vsRefs[v] = Refs(delivers[v])
      PROVE  Shown(v) = IF delivers[v].pool # None THEN {delivers[v].pool}
                        ELSE IF delivers[v].group # None THEN {delivers[v].group}
                        ELSE delivers[v].policy
  <2>1. vsRefs[v].pool = delivers[v].pool /\ vsRefs[v].group = delivers[v].group
    BY <1>6 DEF Refs
  <2> QED  BY <1>0, <1>1, <1>3, <1>4, <1>5, <2>1, ShownUnder
<1>7. ASSUME vsRefs[v] = NoRefs PROVE Shown(v) = Reaches(delivers[v])
  <2>1. vsRefs[v].pool = None /\ vsRefs[v].group = None
    BY <1>7 DEF NoRefs
  <2> QED  BY <1>0, <1>1, <1>4, <1>5, <2>1, ShownUnder
<1> QED  BY <1>0, <1>1, <1>6, <1>7 DEF Unchanged

(* A virtual service that did not change, and whose refs are known, has     *)
(* exactly these edges: to its own pool, or else to its own group, or else  *)
(* to the pools its policies select.  Policies beside a pool or a group of  *)
(* its own are not drawn.                                                   *)
THEOREM SteadyDrawn == Spec => []SteadyEdges
<1>1. IInv => SteadyEdges
  BY SteadyShown DEF SteadyEdges
<1> QED  BY <1>1, Invariance, PTL

(* A virtual service that did not change has its own pool, or the pools of  *)
(* its own group, under it, and the pools of its policies when it has no    *)
(* pool and no group of its own; whether its refs are known or not.         *)
THEOREM SteadyPoolsDrawn == Spec => []NoSteadyPoolLost
<1>1. ASSUME IInv, Built, NEW v \in steady \intersect Listed
      PROVE  LET d     == delivers[v]
                 under == Shown(v) \union UNION { GroupPools[g] : g \in Shown(v) \intersect Groups }
             IN  /\ OwnPools(d) \subseteq under
                 /\ d.pool = None /\ d.group = None => d.policy \subseteq under
  <2>1. delivers[v] \in Delivery
    BY <1>1, SteadyShown
  <2>2. /\ OwnPools(delivers[v]) \subseteq Reaches(delivers[v])
        /\ delivers[v].policy \subseteq Reaches(delivers[v])
    BY <2>1, TopologyAssumption DEF Delivery, Reaches
  <2>3. CASE vsRefs[v] = NoRefs
    <3>1. Shown(v) = Reaches(delivers[v])
      BY <1>1, <2>3, SteadyShown
    <3> HIDE DEF OwnPools, Reaches, Shown
    <3> QED  BY <2>2, <3>1
  <2>4. CASE vsRefs[v] = Refs(delivers[v])
    <3>1. CASE delivers[v].pool # None
      <4>1. delivers[v].group = None /\ Shown(v) = {delivers[v].pool}
        BY <1>1, <2>1, <2>4, <3>1, SteadyShown, TopologyAssumption DEF Delivery
      <4> QED  BY <3>1, <4>1 DEF OwnPools
    <3>2. CASE delivers[v].pool = None /\ delivers[v].group # None
      <4>1. Shown(v) = {delivers[v].group} /\ delivers[v].group \in Groups
        BY <1>1, <2>1, <2>4, <3>2, SteadyShown DEF Delivery
      <4>2. OwnPools(delivers[v]) = GroupPools[delivers[v].group]
        BY <3>2 DEF OwnPools
      <4> QED  BY <3>2, <4>1, <4>2
    <3>3. CASE delivers[v].pool = None /\ delivers[v].group = None
      BY <1>1, <2>4, <3>3, SteadyShown DEF OwnPools
    <3> QED  BY <3>1, <3>2, <3>3
  <2> QED  BY <1>1, <2>3, <2>4, SteadyShown
<1>2. IInv => NoSteadyPoolLost
  BY <1>1 DEF NoSteadyPoolLost
<1> QED  BY <1>2, Invariance, PTL
=============================================================================
