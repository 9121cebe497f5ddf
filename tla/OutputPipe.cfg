SPECIFICATION Spec
CONSTANTS
  TimersCap = 2
  MessagesCap = 2
  LineMax = 4
  Formats = {"text"}
  PipeCap = 1
  Faults = {}
INVARIANT ClosedPipeIsClean
CHECK_DEADLOCK FALSE
