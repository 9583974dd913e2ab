SPECIFICATION FairSpec
CONSTANTS
  Shot <- Shots
  Confirm <- ConfirmName
  None <- NoName
  Retain = 2
  SweepEvery = 3
  MaxFails = 2
INVARIANTS PurgedInTime
PROPERTIES RetentionKept StopEndsLoop LidarReturns
