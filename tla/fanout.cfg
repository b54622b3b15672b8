CONSTANTS
  Tenants = {t1, t2}
  Pools = {p1, p2, p3}
  Parallelism = 2
SPECIFICATION FairSpec
INVARIANTS TypeOK AllOrNothing
PROPERTIES SetReturns
