------------------------------- MODULE Topology -------------------------------
(***************************************************************************)
(* The node graph of one tenant (collector/topology.go) and the requests   *)
(* it is drawn from.  A refresh asks the controller, one request after     *)
(* another, for the virtual services, their configuration, the pools, the  *)
(* VsVips and the pool groups, while the controller's virtual services     *)
(* come, go and change the way they deliver.                               *)
(*                                                                         *)
(* The controller's pools, groups and servers do not change: the requests  *)
(* for pool groups and pool members read constants, so what comes of a     *)
(* pool created or deleted between two requests is not a question of this  *)
(* module.  Labels, states and chains are left out: the graph is its nodes *)
(* and edges.                                                              *)
(***************************************************************************)
EXTENDS FiniteSets

CONSTANTS
  VSs, Pools, Groups, Servers, VsVips,   \* uuids
  None,
  GroupPools,   \* [Groups -> SUBSET Pools]
  ServersOf,    \* [Pools -> SUBSET Servers]
  VipOf,        \* [VSs -> VsVips]
  Policies      \* bound: sets of pools an L4 policy may select

ASSUME TopologyAssumption ==
  /\ None \notin Pools \union Groups
  /\ GroupPools \in [Groups -> SUBSET Pools]
  /\ ServersOf \in [Pools -> SUBSET Servers]
  /\ VipOf \in [VSs -> VsVips]
  /\ Policies \subseteq SUBSET Pools
  \* A node's id begins with its kind.
  /\ VSs \intersect (Pools \union Groups \union Servers \union VsVips) = {}
  /\ Pools \intersect Groups = {}

\* How a virtual service delivers: to a pool or a group of its own, or to
\* neither, and besides to what policies select.
Delivery ==
  [pool : Pools, group : {None}, policy : Policies]
    \union [pool : {None}, group : Groups \union {None}, policy : Policies]

Absent == [pool |-> None, group |-> None, policy |-> {None}]

\* The refs of a listed virtual service.
Unlisted == [listed |-> FALSE, pool |-> None, group |-> None]
NoRefs == [listed |-> TRUE, pool |-> None, group |-> None]
Refs(d) == [listed |-> TRUE, pool |-> d.pool, group |-> d.group]

\* The pools the traffic of a virtual service may reach: its own ones, by its
\* pool or its group, and those of its policies.
OwnPools(d) ==
  (IF d.pool # None THEN {d.pool} ELSE {})
    \union (IF d.group # None THEN GroupPools[d.group] ELSE {})

Reaches(d) == OwnPools(d) \union (d.policy \ {None})

VARIABLES
  delivers,   \* controller: [VSs -> Delivery \union {Absent}]
  at,         \* the request to come, "topology" once all have been answered
  vsRefs,     \* vsItems: refs of the virtual services listed
  poolRefs,   \* poolItems: [pool -> virtual services it names]
  vipRefs,    \* vsvipItems: virtual services their VsVip names
  reached,    \* history: [VSs -> pools reached since the refresh began]
  steady,     \* history: virtual services unchanged since the refresh began
  known       \* history: the refs came with the list or with the configuration

vsVars == <<vsRefs, poolRefs, vipRefs, reached, steady, known>>
vars == <<delivers, at, vsVars>>

Present == { v \in VSs : delivers[v] # Absent }
Listed == { v \in VSs : vsRefs[v].listed }

\* Between refreshes nothing is remembered of the lists.
Idle ==
  /\ at' = "vs_list"
  /\ vsRefs' = [v \in VSs |-> Unlisted]
  /\ poolRefs' = [p \in Pools |-> {}]
  /\ vipRefs' = {}
  /\ reached' = [v \in VSs |-> {}]
  /\ steady' = {}
  /\ known' = TRUE

Init ==
  /\ delivers \in [VSs -> Delivery \union {Absent}]
  /\ at = "vs_list"
  /\ vsRefs = [v \in VSs |-> Unlisted]
  /\ poolRefs = [p \in Pools |-> {}]
  /\ vipRefs = {} /\ reached = [v \in VSs |-> {}] /\ steady = {} /\ known = TRUE

-----------------------------------------------------------------------------
(* vs_list: the inventory, which may leave refs out, ... *)
ListVS(omitsRefs) ==
  /\ at = "vs_list"
  /\ vsRefs' = [v \in VSs |->
       IF v \notin Present THEN Unlisted
       ELSE IF omitsRefs THEN NoRefs ELSE Refs(delivers[v])]
  /\ known' = ~omitsRefs
  /\ reached' = [v \in VSs |-> Reaches(delivers[v])]
  /\ steady' = VSs
  /\ at' = "vs_config"
  /\ UNCHANGED <<delivers, poolRefs, vipRefs>>

\* Mutant: an empty pool ref is filled with the group's.
MergedSwapped(v) ==
  IF v \in Listed \intersect Present
    THEN [vsRefs[v] EXCEPT !.pool = IF @ = None THEN delivers[v].group ELSE @]
    ELSE vsRefs[v]

\* A ref the inventory left empty is that of the configuration.
Merged(v) ==
  IF v \in Listed \intersect Present
    THEN [listed |-> TRUE,
          pool |-> IF vsRefs[v].pool = None THEN delivers[v].pool ELSE vsRefs[v].pool,
          group |-> IF vsRefs[v].group = None THEN delivers[v].group ELSE vsRefs[v].group]
    ELSE vsRefs[v]

(* ... and the configuration, whose failure is not one of vs_list. *)
Configure ==
  /\ at = "vs_config"
  /\ vsRefs' = [v \in VSs |-> Merged(v)]
  /\ known' = TRUE
  /\ at' = "pool_list"
  /\ UNCHANGED <<delivers, poolRefs, vipRefs, reached, steady>>

ConfigureFails ==
  /\ at = "vs_config"
  /\ at' = "pool_list"
  /\ UNCHANGED <<delivers, vsVars>>

\* pool_list: each pool names the virtual services that reach it.
ListPools ==
  /\ at = "pool_list"
  /\ poolRefs' = [p \in Pools |-> { v \in Present : p \in Reaches(delivers[v]) }]
  /\ at' = "vsvip_list"
  /\ UNCHANGED <<delivers, vsRefs, vipRefs, reached, steady, known>>

ListVsVips ==
  /\ at = "vsvip_list"
  /\ vipRefs' = Present
  /\ at' = "topology"
  /\ UNCHANGED <<delivers, vsRefs, poolRefs, reached, steady, known>>

\* A list fails, or one of the members or groups: topology is not built.
Fail == at \notin {"vs_config", "topology"} /\ Idle /\ UNCHANGED delivers

-----------------------------------------------------------------------------
(* collectTopology, renderPoolGroupTopology, renderPoolMemberTopology *)

\* A VsVip's virtual services, those linked to it by enrichment included.
VipEdges == { <<VipOf[v], v>> : v \in vipRefs \union Listed }

DirectEdges == { <<v, vsRefs[v].pool>> : v \in { w \in Listed : vsRefs[w].pool # None } }

GroupEdges == { <<v, vsRefs[v].group>> : v \in { w \in Listed : vsRefs[w].group # None } }

\* Mutant: a pool group does not count as a way to deliver.
NeedsReversePool(v) == v \in Listed /\ vsRefs[v].pool = None

\* Mutant: only the refs of the virtual services are drawn.
NeedsNoReverse(v) == v \in Listed /\ vsRefs[v] = Unlisted

\* vsNeedsReversePoolEdges
NeedsReverse(v) ==
  v \in Listed /\ vsRefs[v].pool = None /\ vsRefs[v].group = None

\* Mutant: a virtual service need not be listed.
ReverseEdgesToAny ==
  UNION { { <<v, p>> : v \in { w \in poolRefs[p] : w \notin Listed \/ NeedsReverse(w) } } :
            p \in Pools }

ReverseEdges == UNION { { <<v, p>> : v \in { w \in poolRefs[p] : NeedsReverse(w) } } : p \in Pools }

PoolEdges == UNION { { <<g, p>> : p \in GroupPools[g] } : g \in Groups }
MemberEdges == UNION { { <<p, s>> : s \in ServersOf[p] } : p \in Pools }

Edges == VipEdges \union DirectEdges \union GroupEdges \union ReverseEdges
           \union PoolEdges \union MemberEdges

Nodes == VsVips \union Listed \union Pools \union Groups \union Servers

\* The tenant's rows are replaced by the graph.
Build == at = "topology" /\ Idle /\ UNCHANGED delivers

-----------------------------------------------------------------------------
(* The controller *)
Change(v, d) ==
  /\ d # delivers[v]
  /\ delivers' = [delivers EXCEPT ![v] = d]
  /\ reached' = IF at = "vs_list" THEN reached
                ELSE [reached EXCEPT ![v] = @ \union Reaches(d)]
  /\ steady' = steady \ {v}
  /\ UNCHANGED <<at, vsRefs, poolRefs, vipRefs, known>>

Next ==
  \/ \E omits \in BOOLEAN : ListVS(omits)
  \/ Configure \/ ConfigureFails \/ ListPools \/ ListVsVips \/ Fail \/ Build
  \/ \E v \in VSs, d \in Delivery \union {Absent} : Change(v, d)

Spec == Init /\ [][Next]_vars

-----------------------------------------------------------------------------
TypeOK ==
  /\ delivers \in [VSs -> Delivery \union {Absent}]
  /\ at \in {"vs_list", "vs_config", "pool_list", "vsvip_list", "topology"}
  /\ vsRefs \in [VSs -> [listed : BOOLEAN, pool : Pools \union {None},
                          group : Groups \union {None}]]
  /\ poolRefs \in [Pools -> SUBSET VSs]
  /\ vipRefs \subseteq VSs
  /\ reached \in [VSs -> SUBSET Pools]
  /\ steady \subseteq VSs
  /\ known \in BOOLEAN

Built == at = "topology"
Shown(v) == { e[2] : e \in { f \in Edges : f[1] = v } }

(* However the controller changes between the requests, a pool is drawn     *)
(* under a virtual service only if its traffic could reach the pool at some *)
(* moment of the refresh.  No edge starts from what is not drawn, and one   *)
(* that ends in it names a virtual service that changed meanwhile: it comes *)
(* from a VsVip (pools, groups and servers stay as they are here).          *)
EdgesWereReal ==
  Built =>
    /\ \A v \in VSs : Shown(v) \intersect Pools \subseteq reached[v]
    /\ \A e \in Edges : e[1] \in Nodes /\ (e[2] \in Nodes \/ e[2] \in VSs \ steady)

(* The edges of a virtual service that did not change, and whose refs came  *)
(* with the list or the configuration: to its own pool and nothing else, or *)
(* to its own group and nothing else (not to the group's pools, although    *)
(* these name it as well), or, without either, to exactly the pools its     *)
(* policies select, found from their side.  So of policies beside a pool or *)
(* a group of its own no edge is drawn (vsNeedsReversePoolEdges).           *)
SteadyEdges ==
  Built /\ known => \A v \in steady \intersect Listed :
    LET d == delivers[v] IN
    Shown(v) = IF d.pool # None THEN {d.pool}
               ELSE IF d.group # None THEN {d.group}
               ELSE d.policy

(* Refs known or not, a virtual service that did not change has its own     *)
(* pool, or those of its own group, under it; and the pools of its policies *)
(* when it has neither pool nor group of its own.                           *)
NoSteadyPoolLost ==
  Built => \A v \in steady \intersect Listed :
    LET d     == delivers[v]
        under == Shown(v) \union UNION { GroupPools[g] : g \in Shown(v) \intersect Groups }
    IN  /\ OwnPools(d) \subseteq under
        /\ d.pool = None /\ d.group = None => d.policy \subseteq under
=============================================================================
