SPECIFICATION GroupsSpec
CONSTANTS
  Births = 4
  Out = 1
  HoldFrames = 2
INVARIANTS GroupsTypeOK EveryGroupShown TwiceOnlyByHold HeldGroupKept HiddenBriefly
