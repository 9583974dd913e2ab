SPECIFICATION FairSpec
CONSTANTS
  Pid <- OnePid
  MinFrames = 3
  Repeat = 6
  Forget = 2
  Event <- Events
  Resend = 3
  Step <- Steps
  Twins = 2
  Spare = 2
INVARIANTS TypeOK AlertsJustified ShownIffOneArrives
PROPERTY StayingIntruderAlerted
