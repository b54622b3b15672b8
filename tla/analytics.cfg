CONSTANTS
  o1 = o1
  o2 = o2
  a = a
  b = b
  Objects <- MCObjects
  Labels <- MCLabels
  Gone = Gone
  MetricIDs <- MCMetricIDs
  GroupOf <- MCGroupOf
  MaxAttempts = 2
SPECIFICATION Spec
INVARIANTS TypeOK OneAttempt SteadyComplete JoinsInventory
SYMMETRY MCSymmetry
