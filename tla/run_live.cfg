SPECIFICATION FairSpec
CONSTANTS
  Starts = {s1, s2}
  Cancels = {}
  Patches = {}
  Deletes = {d1}
  Workers = {w1}
  RetryLimits = {1}
  TaskMaxRetries = 1
  MaxRedeliveries = 1
  MaxLosses = 0
  NoTask = NoTask
PROPERTY EventuallyAtRest
CHECK_DEADLOCK FALSE
