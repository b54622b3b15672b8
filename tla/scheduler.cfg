CONSTANTS
  Interval = 4
  Deadline = 4
  MaxStale = 20
  Tolerance = 2
SPECIFICATION FairSpec
INVARIANTS TypeOK StaleNeedsMisses
PROPERTIES RefreshesGoOn StopEnds
