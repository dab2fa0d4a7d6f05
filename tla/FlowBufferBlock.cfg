SPECIFICATION FairSpec
CONSTANTS
  f1 = f1  f2 = f2  f3 = f3  f4 = f4
  Consumer = Consumer
  Flows <- ThreeFlows
  Size <- UnitSize
  Fingerprint <- Distinct
  Capacity = 1
  MaxBytes = 0
  DedupEnabled = FALSE
  DedupLimit = 0
  Policy = "Block"
  MaxCloses = 2
  MaxResets = 0
PROPERTIES ConsumerStopsAfterClose ImplementsChannel
CHECK_DEADLOCK FALSE
