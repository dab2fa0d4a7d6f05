SPECIFICATION FairSpec
CONSTANTS
  f1 = f1  f2 = f2  f3 = f3  f4 = f4
  Consumer = Consumer
  Flows <- MCFlows
  Size <- MCSize
  Fingerprint <- MCFingerprint
  Capacity = 2
  MaxBytes = 3
  DedupEnabled = TRUE
  DedupLimit = 2
  Policy = "DropOldest"
  MaxCloses = 1
  MaxResets = 1
INVARIANTS ByteAccounting OnePerFingerprintAndEra BufferInv
CHECK_DEADLOCK FALSE
PROPERTIES AcceptedLeaves
