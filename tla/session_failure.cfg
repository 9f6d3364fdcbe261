SPECIFICATION Spec
CONSTANTS
  Readers = {}
  Pipelines = {e1}
  Own = own
  ObjectiveCount = 1
  CheckOutcomes = {"PASS"}
  ChecksPerObjective = 1
  MaxDbErrors = 1
INVARIANT BrokenSinkFailsNoRun
CHECK_DEADLOCK FALSE
