SPECIFICATION LiveSpec
CONSTANTS
  Forks = TRUE
  MaxUnits = 1
  PipeCap = 1
  Faults = {"notfound", "spawn", "thread", "wait_timeout", "wait", "read"}
INVARIANTS TimeoutIsHonest NoOrphan
PROPERTIES ReturnsUnlessHeld CompletesUnlessExpired
