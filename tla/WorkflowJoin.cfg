SPECIFICATION WfFairSpec
CONSTANTS
  Workflows <- MCWorkflows
  HttpRetries = 1
  MaxItems = 3
INVARIANTS JoinRuns
CHECK_DEADLOCK FALSE
