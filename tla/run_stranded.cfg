SPECIFICATION Spec
CONSTANTS
  Starts = {s1, s2}
  Cancels = {}
  Patches = {}
  Deletes = {}
  Workers = {w1}
  RetryLimits = {0}
  TaskMaxRetries = 0
  MaxRedeliveries = 0
  MaxLosses = 1
  NoTask = NoTask
INVARIANT StrandedCanRestart
CHECK_DEADLOCK FALSE
