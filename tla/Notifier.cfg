SPECIFICATION FairSpec
CONSTANTS
  Event <- MixedLines
  Timed <- OneLine
  Rejected <- OneLine
  MaxRetries = 2
  AgeLimit = TRUE
  MayStop = TRUE
  MaxAckLost = 1
  MaxCrashes = 1
  MaxFaults = 1
  None = None
INVARIANTS TypeOK Custody DuplicatesBounded
PROPERTIES EventuallyResolved StopFinishesOrWakeupLost ImplementsDelivery
CHECK_DEADLOCK FALSE
