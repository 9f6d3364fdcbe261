SPECIFICATION SerialSpec
CONSTANTS
  Starts = {s1, s2}
  Cancels = {c1}
  Patches = {p1}
  Deletes = {d1}
  Workers = {w1, w2}
  RetryLimits = {0, 1}
  TaskMaxRetries = 1
  MaxRedeliveries = 1
  MaxLosses = 1
  NoTask = NoTask
 
 
PROPERTY RetriesAreCounted
CHECK_DEADLOCK FALSE
