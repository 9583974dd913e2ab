SPECIFICATION Spec
CONSTANTS
  Event <- MixedLines
  Timed <- OneLine
  Rejected <- NoLine
  MaxRetries = 2
  AgeLimit = FALSE
  MayStop = TRUE
  MaxAckLost = 0
  MaxCrashes = 0
  MaxFaults = 0
  None = None
INVARIANT CleanStopLosesNothing
CHECK_DEADLOCK FALSE
