SPECIFICATION Spec
CONSTANTS
  Parts = {"patch"}
  LockEdits = TRUE
  Concurrent = TRUE
  Interrupts = TRUE
  Faults = {"update", "add", "commit", "tag", "build", "untag", "reset"}
  MaxRuns = 3
  MaxEdits = 2
INVARIANTS TypeOK TagsAreReleases PushedStays
PROPERTIES TagsNeverMove VerifiedIsClean CleanRevertRestores
CHECK_DEADLOCK FALSE
