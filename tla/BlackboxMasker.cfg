SPECIFICATION Spec
CONSTANTS
  MaxClips = 2
  MaxConcurrentSaves = 2
  ClipMaxRetries = 1
INVARIANT MaskerNotShared
CHECK_DEADLOCK FALSE
