SPECIFICATION VerdictSpec
INVARIANTS LeakReported
CHECK_DEADLOCK FALSE
