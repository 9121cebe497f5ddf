SPECIFICATION Spec
CONSTANTS
  Keys = {"application.name", "application.process.id", "media.role"}
  Wanted = {"application.name", "application.process.id"}
  MaxLines = 6
INVARIANTS TypeOK ParsedAsWritten CutLosesOnlyTheEnd
CHECK_DEADLOCK FALSE
