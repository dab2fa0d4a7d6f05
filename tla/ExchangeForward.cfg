SPECIFICATION Spec
CONSTANTS
  MaxCapture = 2
  InterceptCap = 3
  MaxLen = 4
  Sessions = {s1}
  NoSession = none
INVARIANT ForwardedUnchanged
CHECK_DEADLOCK FALSE
