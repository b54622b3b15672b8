----------------------------- MODULE MCTopology -----------------------------
(***************************************************************************)
(* Two virtual services behind one VsVip, two pools with a server in       *)
(* common, and a group of both pools.                                      *)
(***************************************************************************)
EXTENDS Topology

CONSTANTS v1, v2, p1, p2, g1, s1, vip1

MCVSs == {v1, v2}
MCPools == {p1, p2}
MCGroupPools == [g \in {g1} |-> {p1, p2}]
MCServersOf == [p \in MCPools |-> {s1}]
MCVipOf == [v \in MCVSs |-> vip1]
MCPolicies == {{}, {p1}, {p2}}
=============================================================================
