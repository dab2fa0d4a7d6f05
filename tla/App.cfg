SPECIFICATION MCSpec
CONSTANTS
  Handlers = {h1, h2}
  Settings = {0, 1}
  Broken = broken
  Override = {1}
  Initial = 0
  MaxCalls = 4
  Browsers = {b1, b2}
  Capacity = 2
  MaxEvents = 4
  Items = {i1, i2, i3}
  NoItem = none
  MaxClears = 2
  MaxCapture = 2
  InterceptCap = 3
  MaxLen = 4
  Sessions = {s1}
  NoSession = nosession
INVARIANTS ConfigInStep ProxyInStep StreamWhole NoOrphanWait ForwardedUnlisted 
  CaptureWhole DroppedLeavesNoTrace RelayedIsCaptured FlowsTold ExposureSeen RequestsMeant
PROPERTIES AppProgresses ClearReleases GateKept
CHECK_DEADLOCK FALSE
