SPECIFICATION Spec
CONSTANTS
  Requests <- MCRequests
  Answers <- MCAnswers
  Fittable = {"gradient_boosting", "random_forest"}
  MaxAttempts = 2
  MaxChanges = 1
INVARIANTS
  TypeOK
  CompletedIsEarned
  TrainingIsBounded
  
  NothingLeftBehind
PROPERTIES
  WorkflowEnds
