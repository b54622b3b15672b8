CONSTANTS
  TenantNames <- TwoTenants
  Static <- OneTenant
  Wildcard = FALSE
  Disabled <- TenantAndSEConfig
  Parallelism = 1
  MaxCycle = 2
  Aging <- NoAging
SPECIFICATION Spec
INVARIANTS UpMeansAllSucceeded TopologyNotAhead EnginesOfLastAnswer
