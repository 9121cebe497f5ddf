SPECIFICATION Spec
CONSTANTS
  Forks = TRUE
  MaxUnits = 2
  PipeCap = 1
  Faults = {"notfound", "spawn", "thread", "wait_timeout", "kill", "read"}
INVARIANTS TypeOK IInv OkIsComplete OnlyHeirsDelayJoins
PROPERTY KeepsPromise
