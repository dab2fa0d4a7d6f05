SPECIFICATION Spec
CONSTANTS
  f1 = f1  f2 = f2  f3 = f3  f4 = f4
  Consumer = Consumer
  Flows <- ThreeFlows
  Size <- UnitSize
  Fingerprint <- Distinct
  Capacity = 1
  MaxBytes = 0
  DedupEnabled = TRUE
  DedupLimit = 0
  Policy = "Block"
  MaxCloses = 0
  MaxResets = 0
INVARIANT NoSilentLoss
CHECK_DEADLOCK FALSE
