SPECIFICATION FairSpec
CONSTANTS
  Forks = TRUE
  MaxUnits = 1
  PipeCap = 1
  Faults = {}
PROPERTY Returns
