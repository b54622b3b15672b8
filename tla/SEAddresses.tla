------------------------------ MODULE SEAddresses ------------------------------
(***************************************************************************)
(* serviceEngineAddresses of identity_inventory.go: the addresses a        *)
(* Service Engine reports in its management fields, its VNICs and their    *)
(* VLAN interfaces, folded one after another into one record per IP.       *)
(*                                                                         *)
(* A record has a role and a tuple of labels, one per field, in the order  *)
(* of addressKey.  A label is a number, 0 the empty string, and the order  *)
(* of numbers stands for that of strings.  The name and UUID of a network  *)
(* are one field, those of a VRF another; the MAC address, a field like    *)
(* the others, is left out.                                                *)
(*                                                                         *)
(* An address as reported is a member of Raw; Canonical gives the IP it    *)
(* parses to, an IPv4-mapped form being that of its IPv4 address, or NoIP. *)
(***************************************************************************)
EXTENDS Integers, FiniteSets, SequencesExt

CONSTANTS
  Raw, IPs, NoIP,   \* addresses as reported; as parsed; the parse error
  Canonical,        \* [Raw -> IPs \union {NoIP}]
  Labels,           \* label values, 0 among them
  VNICs,            \* bound: [isMgmt, interface, network, vrf]
  VLANs,            \* bound: [isMgmt, interface, vrf]
  Masks,            \* prefix lengths; MaskOK tells the valid ones
  MaskOK,
  MaxAdds           \* bound: addresses one engine reports

ASSUME AddressAssumption ==
  /\ NoIP \notin IPs
  /\ Canonical \in [Raw -> IPs \union {NoIP}]
  /\ 0 \in Labels /\ Labels \subseteq Nat
  /\ VNICs \subseteq [isMgmt : BOOLEAN, interface : Labels, network : Labels, vrf : Labels]
  /\ VLANs \subseteq [isMgmt : BOOLEAN, interface : Labels, vrf : Labels]
  /\ MaskOK \subseteq Masks \intersect Labels
  /\ MaxAdds \in Nat

Roles == {"data", "management"}
Fields == 1 .. 4      \* Interface, Network, VRF, CIDR

Record == [role : Roles, label : [Fields -> Labels]]

NoRecord == [role |-> "none", label |-> <<0, 0, 0, 0>>]

VARIABLES
  part,     \* what is being walked: "address", "mgmtVNIC" or "dataVNICs"
  byIP,     \* [IP -> its record, or NoRecord]
  added,    \* history: candidates that parsed, with their IP
  adds      \* number of candidates so far

addressVars == <<part, byIP, added, adds>>

AddressInit ==
  /\ part = "address"
  /\ byIP = [ip \in IPs |-> NoRecord]
  /\ added = {}
  /\ adds = 0

-----------------------------------------------------------------------------
(* preferAddress and what it uses. *)

AddressScore(r) ==
  (IF r.role = "management" THEN 100 ELSE 0)
    + Cardinality({ f \in Fields : r.label[f] # 0 })

AddressKey(r) == <<IF r.role = "data" THEN 0 ELSE 1>> \o r.label

\* Keys compare like strings: by the first place where they differ.
Less(k, l) ==
  \E i \in 1 .. Len(k) : k[i] < l[i] /\ \A j \in 1 .. i - 1 : k[j] = l[j]

FillGaps(r, other) ==
  [r EXCEPT !.label = [f \in Fields |-> IF @[f] # 0 THEN @[f] ELSE other.label[f]]]

\* Mutant: on equal scores the record that is there stays.
BeatsByScore(b, a) == AddressScore(b) > AddressScore(a)

Beats(b, a) ==
  \/ AddressScore(b) > AddressScore(a)
  \/ AddressScore(b) = AddressScore(a) /\ Less(AddressKey(b), AddressKey(a))

\* Mutant: gaps are filled whatever the other record's role.
PreferFillingAlways(a, b) ==
  IF Beats(b, a) THEN FillGaps(b, a) ELSE FillGaps(a, b)

Prefer(a, b) ==
  IF a.role = b.role
    THEN IF Beats(b, a) THEN FillGaps(b, a) ELSE FillGaps(a, b)
    ELSE IF Beats(b, a) THEN b ELSE a

-----------------------------------------------------------------------------
\* The closure add: a candidate that does not parse is ignored.
Add(raw, candidate) ==
  LET ip == Canonical[raw] IN
  /\ adds < MaxAdds /\ adds' = adds + 1
  /\ IF ip = NoIP
       THEN UNCHANGED <<byIP, added>>
       ELSE /\ byIP' = [byIP EXCEPT ![ip] =
                          IF @ = NoRecord THEN candidate ELSE Prefer(@, candidate)]
            /\ added' = added \union {<<ip, candidate>>}

Candidate(isMgmt, interface, network, vrf, cidr) ==
  [role |-> IF isMgmt THEN "management" ELSE "data",
   label |-> <<interface, network, vrf, cidr>>]

\* Mutant: any mask will do.
NormalizedCIDRUnchecked(raw, mask) == IF Canonical[raw] # NoIP THEN mask ELSE 0

\* The prefix of a valid address with a mask in range, else empty.
NormalizedCIDR(raw, mask) ==
  IF Canonical[raw] # NoIP /\ mask \in MaskOK THEN mask ELSE 0

\* MgmtIPAddress and MgmtIP6Address
ManagementAddress(raw) ==
  /\ part = "address"
  /\ Add(raw, Candidate(TRUE, 0, 0, 0, 0))
  /\ UNCHANGED part

\* A network of a VNIC; every VNIC of MgmtVNIC's place is management.
VNICNetwork(vnic, raw, mask) ==
  /\ part # "address"
  /\ Add(raw, Candidate(part = "mgmtVNIC" \/ vnic.isMgmt, vnic.interface,
                        vnic.network, vnic.vrf, NormalizedCIDR(raw, mask)))
  /\ UNCHANGED part

\* A network of a VLAN interface, which falls back on its VNIC's labels.
VLANNetwork(vnic, vlan, raw, mask) ==
  /\ part # "address"
  /\ Add(raw, Candidate(part = "mgmtVNIC" \/ vnic.isMgmt \/ vlan.isMgmt,
                        IF vlan.interface = 0 THEN vnic.interface ELSE vlan.interface,
                        vnic.network,
                        IF vlan.vrf = 0 THEN vnic.vrf ELSE vlan.vrf,
                        NormalizedCIDR(raw, mask)))
  /\ UNCHANGED part

NextPart ==
  /\ part' = CASE part = "address" -> "mgmtVNIC" [] OTHER -> "dataVNICs"
  /\ UNCHANGED <<byIP, added, adds>>

AddressNext ==
  \/ NextPart
  \/ \E raw \in Raw : ManagementAddress(raw)
  \/ \E raw \in Raw, mask \in Masks, vnic \in VNICs :
       \/ VNICNetwork(vnic, raw, mask)
       \/ \E vlan \in VLANs : VLANNetwork(vnic, vlan, raw, mask)

AddressSpec == AddressInit /\ [][AddressNext]_addressVars

-----------------------------------------------------------------------------
AddressTypeOK ==
  /\ part \in {"address", "mgmtVNIC", "dataVNICs"}
  /\ byIP \in [IPs -> Record \union {NoRecord}]
  /\ added \subseteq IPs \X Record
  /\ adds \in 0 .. MaxAdds

CandidatesOf(ip) == { c[2] : c \in { d \in added : d[1] = ip } }

(* README: duplicate addresses are collapsed "preferring the management     *)
(* role and the richest available interface metadata".  However rich the    *)
(* data records are, and in whatever order they come, an IP reported by a   *)
(* management interface has that role; each label is that of a candidate of *)
(* the record's role, and is empty only when all of them leave it empty.    *)
(* Nothing leaks in from the other role.                                    *)
RichestOfItsRole ==
  \A ip \in IPs : CandidatesOf(ip) # {} =>
    LET ofRole == { c \in CandidatesOf(ip) : c.role = byIP[ip].role }
        offered(f) == { c.label[f] : c \in ofRole }
    IN /\ byIP[ip].role = "management" <=> \E c \in CandidatesOf(ip) : c.role = "management"
       /\ \A f \in Fields :
            /\ byIP[ip].label[f] \in offered(f)
            /\ byIP[ip].label[f] = 0 => offered(f) = {0}

(* Two reports of an address give the same record in either order.          *)
EitherOrder ==
  \A ip \in IPs : \A a, b \in CandidatesOf(ip) : Prefer(a, b) = Prefer(b, a)
=============================================================================
