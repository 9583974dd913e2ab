SPECIFICATION FairSpec
CONSTANTS
  Person <- OnePerson
  Object <- Objects
  Nobody = Nobody
  MaxSuspicions = 2
  MaxDumps = 1
  MaxRestarts = 1
  DiskFails = TRUE
INVARIANTS FoldersAttended ReferencesHavePhotos
PROPERTIES SuspectServed ShutdownReturns
CHECK_DEADLOCK FALSE
