CONSTANTS
  TenantNames <- TwoTenants
  Static <- OtherTenant
  Wildcard = TRUE
  Disabled <- OnlyVSMetrics
  Parallelism = 1
  MaxCycle = 3
  Aging <- AgingAdminVS
SPECIFICATION Spec
INVARIANTS ReadyWhenRequiredFresh
