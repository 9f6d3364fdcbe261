SPECIFICATION FairSpec
CONSTANTS
  Readers = {r1}
  Pipelines = {e1}
  Own = own
  ObjectiveCount = 2
  CheckOutcomes = {"PASS", "NOT_VERIFIED"}
  ChecksPerObjective = 1
  MaxDbErrors = 1
INVARIANT TypeOK
INVARIANT ReportMatchesLog
INVARIANT StreamIsFaithful
PROPERTY FollowsSessionLog
PROPERTY StreamsEnd
CHECK_DEADLOCK FALSE
