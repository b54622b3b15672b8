------------------------------ MODULE VSMetadata ------------------------------
(***************************************************************************)
(* How virtual services and VsVips get their AKO labels: the parsing of    *)
(* avi/markers.go and the enrichment of collector/enrichment.go.  A        *)
(* tenant's VS list is merged with the VS configuration, parents take over *)
(* the namespace of their children, and later the VsVips take over what    *)
(* the virtual services linked to them agree on.                           *)
(*                                                                         *)
(* A label is a number, 0 the empty string.  The keys that no fallback     *)
(* and no score concerns are one, "other": what an object states there     *)
(* still makes its markers, or its service_metadata, not empty, and so     *)
(* decides which of two are kept.  The name and ref fields that the merge  *)
(* fills in where they are empty are parent, vip and createdBy; the others *)
(* go the same way.  A reference is the uuid it names.  The linked        *)
(* virtual services are a set: the code keeps them in the order it finds   *)
(* them, on which no label depends.                                        *)
(***************************************************************************)
EXTENDS Integers, FiniteSets, SequencesExt

CONSTANTS
  Labels,      \* label values, 0 among them
  VSItems,     \* bound: virtual services as listed; they get their uuid then
  VSConfigs,   \* bound: VS configurations, NoConfig among them
  NoConfig,    \* the configuration list failed or lacks the VS
  VsVips,      \* bound: the VsVip as the controller sends it
  MaxVS        \* bound: virtual services of a tenant

Keys == {"clustername", "Host", "IngressName", "ServiceName", "Namespace"}
Weight == [clustername |-> 1, Host |-> 2, IngressName |-> 4, ServiceName |-> 8,
           Namespace |-> 16]

MarkerKeys == Keys \union {"other"}
NoMarkers == [k \in MarkerKeys |-> 0]

\* service_metadata; the pairs are the first "namespace/name" of a list.
NoMetadata == [namespace |-> 0, ingress |-> 0, host |-> 0,
               ingressPair |-> <<0, 0>>, servicePair |-> <<0, 0>>, other |-> 0]
Metadata == [namespace : Labels, ingress : Labels, host : Labels,
             ingressPair : Labels \X Labels, servicePair : Labels \X Labels, other : Labels]

Creators == {"", "ako", "other"}   \* created_by: none, one of AKO, another

VSConfig == [parent : Nat, vip : Nat, createdBy : Creators,
             markers : [MarkerKeys -> Labels], metadata : Metadata]
VirtualService == [uuid : Nat, parent : Nat, vip : Nat, children : SUBSET Nat,
                   createdBy : Creators, markers : [MarkerKeys -> Labels], metadata : Metadata]
VsVip == [uuid : Nat \ {0}, createdBy : Creators, virtualServices : Seq([uuid : Nat, ref : Nat]),
          markers : [MarkerKeys -> Labels], metadata : Metadata]

VARIABLES
  items,   \* the tenant's virtual services; their uuids are their positions
  own,     \* the VsVip as listed and decoded
  vip,     \* the VsVip as enriched
  stage    \* "listing" with configurations, "bare" without, "listed", "enriched"

vars == <<items, own, vip, stage>>

-----------------------------------------------------------------------------
(* avi/markers.go *)

\* The first label that is not empty.
FirstOf(seq) ==
  LET hits == { i \in DOMAIN seq : seq[i] # 0 }
  IN IF hits = {} THEN 0 ELSE seq[CHOOSE i \in hits : \A j \in hits : i <= j]

\* Where an object may state a label: markers first, service_metadata in the gaps.
Sources(object) ==
  LET m == object.markers  s == object.metadata IN
  [clustername |-> <<m.clustername>>,
   Host |-> <<m.Host, s.host>>,
   IngressName |-> <<m.IngressName, s.ingress, s.ingressPair[2]>>,
   ServiceName |-> <<m.ServiceName, s.servicePair[2]>>,
   Namespace |-> <<m.Namespace, s.namespace, s.ingressPair[1], s.servicePair[1]>>]

\* ParseObjectMetadata
Parsed(object) == [k \in Keys |-> FirstOf(Sources(object)[k])]

MetadataScore(object) ==
  MapThenSumSet(LAMBDA k : IF Parsed(object)[k] # 0 THEN Weight[k] ELSE 0, Keys)

-----------------------------------------------------------------------------
(* enrichVSInventory *)

MergeConfig(vs, cfg) ==
  IF cfg = NoConfig THEN vs
  ELSE [vs EXCEPT
          !.createdBy = IF @ = "" THEN cfg.createdBy ELSE @,
          !.parent = IF @ = 0 THEN cfg.parent ELSE @,
          !.vip = IF @ = 0 THEN cfg.vip ELSE @,
          !.markers = IF cfg.markers # NoMarkers THEN cfg.markers ELSE @,
          !.metadata = IF cfg.metadata # NoMetadata THEN cfg.metadata ELSE @]

\* The namespaces the children of a virtual service state.
ChildNamespaces(list, uuid) ==
  { Parsed(vs).Namespace : vs \in { v \in Range(list) : v.parent = uuid } } \ {0}

InheritNamespaces(list) ==
  [i \in DOMAIN list |->
    IF Parsed(list[i]).Namespace = 0
         /\ \E n \in Labels : ChildNamespaces(list, list[i].uuid) = {n}
      THEN [list[i] EXCEPT !.metadata.namespace =
              CHOOSE n \in Labels : ChildNamespaces(list, list[i].uuid) = {n}]
      ELSE list[i]]

-----------------------------------------------------------------------------
(* enrichVsVipInventory *)

\* The virtual services of a VsVip: those that refer to it and their children,
\* whether the child names the parent or the parent the child.
Linked(list, uuid) ==
  { vs \in Range(list) :
      \/ vs.vip = uuid
      \/ \E p \in Range(list) :
           p.vip = uuid /\ (vs.parent = p.uuid \/ vs.uuid \in p.children) }

\* Mutant: what the VsVip already refers to is added again.
MergeReferencesAgain(dst, linked) ==
  LET refs == { [uuid |-> vs.uuid, ref |-> vs.uuid] : vs \in linked }
  IN [dst EXCEPT !.virtualServices = @ \o SetToSeq(refs)]

\* mergeVsVipVirtualServices: those it does not refer to yet.
MergeReferences(dst, linked) ==
  LET known == { r.uuid : r \in Range(dst.virtualServices) }
      refs == { [uuid |-> vs.uuid, ref |-> vs.uuid] :
                  vs \in { v \in linked : v.uuid \notin known } }
  IN [dst EXCEPT !.virtualServices = @ \o SetToSeq(refs)]

\* Mutant: an unknown creator is named so.
LinkedCreatedByUnknown(linked) ==
  LET known == { vs.createdBy : vs \in linked } \ {""}
  IN IF known # {} THEN CHOOSE c \in known : TRUE ELSE "unknown"

\* AKO, if it created one of them, or else a creator that is known.
LinkedCreatedBy(linked) ==
  LET known == { vs.createdBy : vs \in linked } \ {""}
  IN IF "ako" \in known THEN "ako"
     ELSE IF known # {} THEN CHOOSE c \in known : TRUE ELSE ""

\* The one linked virtual service stands for the VsVip where it says more.
Adopt(dst, linked) ==
  LET vs == CHOOSE v \in linked : TRUE
      single == linked = {vs}
  IN [dst EXCEPT
        !.createdBy = IF @ = "" THEN LinkedCreatedBy(linked) ELSE @,
        !.markers = IF single /\ MetadataScore(vs) > MetadataScore(dst)
                      THEN vs.markers ELSE @,
        !.metadata = IF single /\ @ = NoMetadata THEN vs.metadata ELSE @]

\* What virtual services say a label is.
Claims(linked, key) == { Parsed(vs)[key] : vs \in linked } \ {0}

\* Mutant: some label claimed, agreed on or not.
FirstClaim(linked, key) ==
  IF Claims(linked, key) = {} THEN 0 ELSE CHOOSE c \in Claims(linked, key) : TRUE

\* uniqueVSMetadataValue: what those that say something agree on, or nothing.
UniqueClaim(linked, key) ==
  IF \E c \in Labels : Claims(linked, key) = {c}
    THEN CHOOSE c \in Labels : Claims(linked, key) = {c} ELSE 0

\* fillVsVipUniqueMetadata: one label after another, each parsed afresh.
FillUnique(dst, linked) ==
  LET lacks(d, key) == Parsed(d)[key] = 0 /\ UniqueClaim(linked, key) # 0
      pair(d, key) == <<Parsed(d).Namespace, UniqueClaim(linked, key)>>
      a == IF lacks(dst, "Namespace")
             THEN [dst EXCEPT !.metadata.namespace = UniqueClaim(linked, "Namespace")]
             ELSE dst
      b == IF lacks(a, "Host")
             THEN [a EXCEPT !.metadata.host = UniqueClaim(linked, "Host")] ELSE a
      c == IF lacks(b, "ServiceName")
             THEN [b EXCEPT !.metadata.servicePair = pair(b, "ServiceName")] ELSE b
  IN IF lacks(c, "IngressName")
       THEN [c EXCEPT !.metadata.ingressPair = pair(c, "IngressName")] ELSE c

EnrichVsVip(dst, linked) ==
  IF linked = {} THEN dst
  ELSE FillUnique(Adopt(MergeReferences(dst, linked), linked), linked)

-----------------------------------------------------------------------------
\* VsRef.UnmarshalJSON: a reference given by url only gets the uuid it names.
DecodedRef(ref) == [ref EXCEPT !.uuid = FirstOf(<<@, ref.ref>>)]

Decoded(vsvip) ==
  [vsvip EXCEPT !.virtualServices = [i \in DOMAIN @ |-> DecodedRef(@[i])]]

\* A controller names a virtual service once among the references of a VsVip.
ASSUME MetadataAssumption ==
  /\ 0 \in Labels /\ Labels \subseteq Nat
  /\ VSItems \subseteq VirtualService
  /\ VSConfigs \ {NoConfig} \subseteq VSConfig
  /\ VsVips \subseteq VsVip
  /\ \A v \in VsVips : \A i, j \in DOMAIN v.virtualServices :
       Decoded(v).virtualServices[i].uuid = Decoded(v).virtualServices[j].uuid => i = j
  /\ MaxVS \in Nat

Init ==
  /\ items = <<>>
  /\ own \in { Decoded(v) : v \in VsVips }
  /\ vip = own
  /\ stage \in {"listing", "bare"}

\* An item of the VS list with its configuration, if there is one.
ListVS(item, cfg) ==
  /\ stage \in {"listing", "bare"} /\ Len(items) < MaxVS
  /\ stage = "bare" => cfg = NoConfig
  /\ items' = Append(items, MergeConfig([item EXCEPT !.uuid = Len(items) + 1], cfg))
  /\ UNCHANGED <<own, vip, stage>>

\* The end of vs_list; nothing is inherited when the configurations failed.
Listed ==
  /\ stage \in {"listing", "bare"}
  /\ items' = IF stage = "bare" THEN items ELSE InheritNamespaces(items)
  /\ stage' = "listed"
  /\ UNCHANGED <<own, vip>>

\* vsvip_list
Enrich ==
  /\ stage = "listed"
  /\ vip' = EnrichVsVip(own, Linked(items, own.uuid))
  /\ stage' = "enriched"
  /\ UNCHANGED <<items, own>>

\* The tenant's next refresh.
Again ==
  /\ stage = "enriched"
  /\ items' = <<>> /\ vip' = own
  /\ stage' \in {"listing", "bare"}
  /\ UNCHANGED own

Next ==
  \/ \E item \in VSItems, cfg \in VSConfigs : ListVS(item, cfg)
  \/ Listed \/ Enrich \/ Again

Spec == Init /\ [][Next]_vars

-----------------------------------------------------------------------------
TypeOK ==
  /\ stage \in {"listing", "bare", "listed", "enriched"}
  /\ items \in Seq(VirtualService) /\ Len(items) <= MaxVS
  /\ \A i \in DOMAIN items : items[i].uuid = i
  /\ own \in VsVip /\ vip \in VsVip

Siblings == Linked(items, own.uuid)
Enriched == stage = "enriched"

\* What an object says of a label anywhere, beneath another label too.
States(object, key) == Range(Sources(object)[key])

(* What a VsVip of several virtual services says itself stays, and it never *)
(* takes over a label that they disagree on: one of them says it and none   *)
(* contradicts, children found from either side included.  The only virtual *)
(* service of a VsVip may uncover what it or the VsVip states in another    *)
(* place.  No label is missing that all agree on, but the cluster's name.   *)
NoContestedLabel ==
  LET behind == { v \in Range(items) :
        \/ v.vip = own.uuid
        \/ \E p \in Range(items) :
             p.vip = own.uuid /\ (v.parent = p.uuid \/ v.uuid \in p.children) }
      agreed(k, c) == { Parsed(vs)[k] : vs \in behind } \ {0} = {c}
      only(vs) == behind = {vs}
  IN Enriched => \A k \in Keys :
       /\ Parsed(own)[k] # 0 /\ Parsed(vip)[k] # Parsed(own)[k] => \E vs \in behind : only(vs)
       /\ Parsed(vip)[k] \notin {0, Parsed(own)[k]} =>
            \/ agreed(k, Parsed(vip)[k])
            \/ \E vs \in behind : only(vs) /\ Parsed(vip)[k] \in States(own, k) \union States(vs, k)
       /\ k # "clustername" /\ Parsed(vip)[k] = 0 => \A c \in Labels : ~agreed(k, c)

(* vip_shared_by_vs_count counts every virtual service behind the VsVip,    *)
(* and each once, whichever way the controller referred to it.              *)
SharedByOnce ==
  Enriched /\ Siblings # {} =>
    LET uuids == [i \in DOMAIN vip.virtualServices |-> vip.virtualServices[i].uuid]
    IN IsInjective(uuids) /\ { vs.uuid : vs \in Siblings } \subseteq Range(uuids)
=============================================================================
