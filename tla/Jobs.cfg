SPECIFICATION MCSpec
CONSTANTS
  a = a
  b = b
  c = c
  x = x
  ScanIds = {j1}
  Requests = {a, b, c, x}
  OffScope = {x}
  Plans <- MCPlans
  ScanWorkers = {w1, w2}
  ScanBudget = 4
  SeenLimit = 2
  RetryLimit = 1
  TestPlans <- MCTestPlans
  Confirms = {c1, c2}
  MaxRequests = 2
  SecRetries = 1
  Workflows <- MCWorkflows
  HttpRetries = 1
  MaxItems = 3
  Callers = {r1, r2}
  LoginSteps = 2
  MaxFlows = 2
  MaxLogins = 2
  MaxAttempts = 3
  MaxTests = 2
  MaxAdded = 2
  Analysts = {s1, s2}
  Bodies <- MCBodies
  Patterns <- MCPatterns
  GitleaksRules <- MCGitleaksRules
  ScanCacheCapacity = 1
  MaxInput = 2
  MaxWaitErrors = 1
  Rows = {d1, d2, d3}
  MaxOpenings = 4
INVARIANTS SentAsPlanned ConfirmationsMatch PlansKept WalkInOrder TokensMatch LeaksFound RowsKept
PROPERTIES CancelHeard JobsEnd
CHECK_DEADLOCK FALSE
