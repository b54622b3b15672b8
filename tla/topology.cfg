CONSTANTS
  v1 = v1
  v2 = v2
  p1 = p1
  p2 = p2
  g1 = g1
  s1 = s1
  vip1 = vip1
  VSs <- MCVSs
  Pools <- MCPools
  Groups = {g1}
  Servers = {s1}
  VsVips = {vip1}
  None = None
  GroupPools <- MCGroupPools
  ServersOf <- MCServersOf
  VipOf <- MCVipOf
  Policies <- MCPolicies
SPECIFICATION Spec
INVARIANTS TypeOK EdgesWereReal SteadyEdges NoSteadyPoolLost
