SPECIFICATION Spec
CONSTANTS
  Starts = {s1, s2}
  Cancels = {}
  Patches = {}
  Deletes = {}
  Workers = {w1, w2}
  RetryLimits = {1}
  TaskMaxRetries = 1
  MaxRedeliveries = 1
  MaxLosses = 0
  NoTask = NoTask
SYMMETRY Symmetry
INVARIANT TypeOK
INVARIANT ActiveHasCarrier
INVARIANT RetryWithinLimit
 
 
CHECK_DEADLOCK FALSE
