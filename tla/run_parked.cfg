SPECIFICATION Spec
CONSTANTS
  Starts = {s1}
  Cancels = {}
  Patches = {}
  Deletes = {}
  Workers = {w1}
  RetryLimits = {0}
  TaskMaxRetries = 0
  MaxRedeliveries = 0
  MaxLosses = 0
  NoTask = NoTask
INVARIANT ParkedSaysWhy
CHECK_DEADLOCK FALSE
