SPECIFICATION Spec
CONSTANTS
  Slot <- Slots
  MaxId = 3
  LastBirth = 2
  ConfirmRun = 2
  TentMaxAge = 2
  Walked = 1
  MinAge = 2
  BirthAge = 2
  FirstAge = {1}
  StillMin = 1
  RecoveryLost = 1
  SuspectLost = 1
  LostLimit = 1
  DumpedLimit = 2
INVARIANT BlamedWasFirst
CHECK_DEADLOCK FALSE
