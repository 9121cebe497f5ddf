SPECIFICATION Spec
CONSTANTS
  Parts = {"patch"}
  LockEdits = TRUE
  Concurrent = FALSE
  Interrupts = TRUE
  Faults = {"update", "add", "commit", "tag", "build", "untag", "reset"}
  MaxRuns = 1
  MaxEdits = 1
PROPERTY RevertRestores
CHECK_DEADLOCK FALSE
