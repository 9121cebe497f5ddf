SPECIFICATION Spec
CONSTANTS
  TimersCap = 2
  MessagesCap = 2
  LineMax = 4
  Formats = {"text", "json"}
  PipeCap = 1
  Faults = {"write", "stderr"}
INVARIANTS TypeOK VerdictsAgree ExitTellsTruth
PROPERTY Ends
CHECK_DEADLOCK FALSE
