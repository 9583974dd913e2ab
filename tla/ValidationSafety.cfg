SPECIFICATION Spec
CONSTANTS
  Object <- OneObject
  Window = 5
  MinPct = 50
  HighPct = 80
  FrameMod = 13
  LearnFrames = 6
  MaxResets = 1
INVARIANTS ReportedOnce ReportsAreBacked CancelsAreBacked DecidedOnTime
CHECK_DEADLOCK FALSE
