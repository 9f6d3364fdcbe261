SPECIFICATION Spec
CONSTANTS
  Starts = {s1}
  Cancels = {c1}
  Patches = {p1}
  Deletes = {}
  Workers = {w1, w2}
  RetryLimits = {0, 2}
  TaskMaxRetries = 1
  MaxRedeliveries = 1
  MaxLosses = 1
  NoTask = NoTask
SYMMETRY Symmetry
INVARIANT ActiveHasCarrier
INVARIANT RetryWithinLimit
 
CHECK_DEADLOCK FALSE
