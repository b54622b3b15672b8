---------------------------- MODULE MCSEAddresses ----------------------------
(***************************************************************************)
(* An engine with two addresses, one of them also reported in its          *)
(* IPv4-mapped form, and one that does not parse; interfaces that agree,   *)
(* disagree and leave gaps; a mask that is out of range.                   *)
(***************************************************************************)
EXTENDS SEAddresses

MCCanonical ==
  [r \in Raw |-> CASE r \in {"v4", "mapped"} -> "v4"
                   [] r = "v6" -> "v6"
                   [] OTHER -> NoIP]

MCVNICs ==
  { [isMgmt |-> m, interface |-> i, network |-> n, vrf |-> v] :
      m \in BOOLEAN, i \in {1, 2}, n \in {0, 1}, v \in {0, 2} }

MCVLANs ==
  { [isMgmt |-> TRUE, interface |-> 0, vrf |-> 1],
    [isMgmt |-> FALSE, interface |-> 0, vrf |-> 0] }
=============================================================================
