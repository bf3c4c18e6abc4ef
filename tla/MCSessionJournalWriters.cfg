CONSTANTS
  i1 = i1
  i2 = i2
  b1 = b1
  b2 = b2
  b3 = b3
  Instance <- MCBoth
  Batch <- MCBatches
  Faulty <- MCFirst
  NoBatch = none
  Compact = compact
  MaxFaults = 2
  MaxCrashes = 1
  MaxCompactions = 1
SPECIFICATION FairSpec
PROPERTIES JournalIsLog HeldSavesProceed
CHECK_DEADLOCK FALSE
