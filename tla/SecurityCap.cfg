SPECIFICATION SecSpec
CONSTANTS
  TestPlans <- MCTestPlans
  Confirms = {c1, c2}
  MaxRequests = 2
  SecRetries = 1
INVARIANTS HardCap
CHECK_DEADLOCK FALSE
