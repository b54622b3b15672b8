CONSTANTS
  TenantNames <- TwoTenants
  Static <- NoTenants
  Wildcard = TRUE
  Disabled <- OnlyVSMetrics
  Parallelism = 2
  MaxCycle = 3
  Aging <- AgingAdminVS
SPECIFICATION FairSpec
INVARIANTS TypeOK WorkersBelong NoOrphans AgeMatchesData ReadyServesData NilMeansAllFresh
PROPERTIES KeepLastGood ServesSnapshots RefreshReturns
