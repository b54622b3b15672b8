----------------------------- MODULE MCVSMetadata -----------------------------
(***************************************************************************)
(* A VsVip 1 and virtual services with one of a few sets of labels, some   *)
(* from markers and some from service_metadata, that agree or disagree.    *)
(* One VsVip says one thing in its markers and another in its metadata,    *)
(* which comes to light when it takes over the markers of its only         *)
(* virtual service.  One configuration states only what no label is made   *)
(* of, and still replaces the markers and metadata of its virtual service. *)
(* The first virtual service may be the parent of the others.              *)
(***************************************************************************)
EXTENDS VSMetadata

Mark(namespace, service, host) ==
  [NoMarkers EXCEPT !.Namespace = namespace, !.ServiceName = service, !.Host = host]

Says(markers, metadata) == [markers |-> markers, metadata |-> metadata]

Silent == Says(NoMarkers, NoMetadata)
Saying ==
  { Silent,
    Says(Mark(1, 1, 0), NoMetadata),
    Says(Mark(2, 1, 0), NoMetadata),
    Says(NoMarkers, [NoMetadata EXCEPT !.servicePair = <<1, 2>>]),
    Says([NoMarkers EXCEPT !.clustername = 1],
         [NoMetadata EXCEPT !.ingressPair = <<2, 1>>, !.host = 1]) }

Placed(p, v, c) ==
  [uuid |-> 0, parent |-> p, vip |-> v, children |-> c, createdBy |-> ""]

MCVSItems ==
  { says @@ place : says \in Saying,
      place \in { Placed(0, 1, {}), Placed(0, 1, {2}), Placed(1, 0, {}), Placed(0, 0, {}) } }

MCVSConfigs ==
  { NoConfig,
    Says(Mark(1, 0, 1), NoMetadata) @@ [parent |-> 1, vip |-> 1, createdBy |-> "ako"],
    Says([NoMarkers EXCEPT !.other = 1], [NoMetadata EXCEPT !.other = 1])
      @@ [parent |-> 0, vip |-> 0, createdBy |-> ""] }

MCVsVips ==
  { Silent @@ [uuid |-> 1, createdBy |-> "", virtualServices |-> <<[uuid |-> 0, ref |-> 1]>>],
    Says(Mark(0, 0, 2), NoMetadata)
      @@ [uuid |-> 1, createdBy |-> "other", virtualServices |-> <<>>],
    Says(NoMarkers, [NoMetadata EXCEPT !.namespace = 2])
      @@ [uuid |-> 1, createdBy |-> "", virtualServices |-> <<[uuid |-> 2, ref |-> 2]>>],
    Says(Mark(0, 0, 2), [NoMetadata EXCEPT !.host = 1])
      @@ [uuid |-> 1, createdBy |-> "", virtualServices |-> <<>>] }
=============================================================================
