SPECIFICATION Spec
CONSTANTS
  Starts = {s1}
  Cancels = {c1}
  Patches = {}
  Deletes = {}
  Workers = {w1}
  RetryLimits = {0}
  TaskMaxRetries = 0
  MaxRedeliveries = 0
  MaxLosses = 0
  NoTask = NoTask
PROPERTY CancelledIsNotRun
CHECK_DEADLOCK FALSE
