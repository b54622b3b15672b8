----------------------------- MODULE ServedCache -----------------------------
(***************************************************************************)
(* What the exporter promises those who scrape it, without saying how a    *)
(* refresh is organised.  An entry is the set of series one module shows   *)
(* for one tenant.  It is replaced as a whole, at most once per refresh,   *)
(* by data fetched in that refresh; only then may the age reported beside  *)
(* it be that of this refresh; and it goes away with its tenant, never     *)
(* otherwise.                                                              *)
(***************************************************************************)
EXTENDS Naturals

CONSTANTS
  Entries,   \* the groups of series
  OwnerOf,   \* function: the tenant an entry belongs to
  Unowned,   \* entries that are shown whether or not their owner is known
  Tenants

VARIABLES
  refresh,   \* number of the refresh under way, or last
  known,     \* the tenants being exported
  data,      \* the refresh whose data an entry shows, 0 for none
  age        \* the refresh the reported age refers to, 0 for none

served == <<refresh, known, data, age>>

Shown(k) == k \in Unowned \/ OwnerOf[k] \in known

Init ==
  /\ refresh = 0
  /\ known = {}
  /\ data = [k \in Entries |-> 0]
  /\ age = [k \in Entries |-> 0]

\* The next refresh; statically configured tenants are known from then on.
StartRefresh ==
  /\ refresh' = refresh + 1
  /\ known' \in { next \in SUBSET Tenants : known \subseteq next }
  /\ UNCHANGED <<data, age>>

Publish(k) ==
  /\ Shown(k)
  /\ data[k] < refresh
  /\ data' = [data EXCEPT ![k] = refresh]
  /\ UNCHANGED <<refresh, known, age>>

Acknowledge(k) ==
  /\ data[k] = refresh
  /\ age[k] < refresh
  /\ age' = [age EXCEPT ![k] = refresh]
  /\ UNCHANGED <<refresh, known, data>>

Retarget ==
  \E next \in SUBSET Tenants :
    LET gone == known \ next
        Kept(f) == [k \in Entries |-> IF OwnerOf[k] \in gone THEN 0 ELSE f[k]]
    IN  /\ known' = next
        /\ data' = Kept(data)
        /\ age' = Kept(age)
        /\ UNCHANGED refresh

Next ==
  \/ StartRefresh
  \/ Retarget
  \/ \E k \in Entries : Publish(k) \/ Acknowledge(k)

Spec == Init /\ [][Next]_served
=============================================================================
