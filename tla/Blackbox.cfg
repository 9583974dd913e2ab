SPECIFICATION FairSpec
CONSTANTS
  MaxClips = 3
  MaxConcurrentSaves = 2
  ClipMaxRetries = 2
INVARIANTS TypeOK SlotsCounted NoUploadAfterStop ClipsAccounted
PROPERTIES SlotFreeAgain ClipsResolved StopEndsOrNotifyMissed
CHECK_DEADLOCK FALSE
