SPECIFICATION Spec
CONSTANTS
  Connections = {"c1", "c2"}
  Experiments = {"e1", "e2"}
  Publishing = "e1"
  MaxEvents = 1
  MaxMoves = 2
  MaxFaults = 1
  Runs = {"r1", "r2"}
  MaxRequests = 1
  MaxActs = 1
  MaxFailures = 1
  PageSize = 1
  MaxRuns = 2
  MaxLosses = 1
  Finals <- MCFinals
  Other = "better"
  MinuteTicks = 2
  HourTicks = 8
  MinuteLimit = 2
  HourLimit = 3
  MaxTicks = 10
  Requests = {"q1", "q2"}
  MaxTasks = 6
  Callers = {"a1", "a2"}
  LoopIds = {"l1", "l2"}
  Chain <- MCChain
  MaxCalls = 2
INVARIANTS
  TypeOK
  ChannelsMatchOwners
  
  OneRunIsFollowed
  
  
  NeverVerifiedWorse
  JudgedAsRecorded
  RetryAfterIsEnough
  GrantsAreBounded
  SessionsOnOwnLoop
  NoEngineOfDeadLoop
  
  AloneNeverFails
PROPERTY
  NeverStuckRunning
CHECK_DEADLOCK FALSE
