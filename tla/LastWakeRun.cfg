SPECIFICATION Spec
CONSTANTS
  IRQs = {9}
  Listed = {9}
  DefaultSince = 1
  HistorySince = 2
  Counts = {2}
  Faults = {"journalctl", "status", "irq", "interrupts", "dmesg", "acpi"}
  MaxCycles = 2
  MaxClock = 3
INVARIANTS TypeOK IrqNotStale HistoryReachesReport
INVARIANTS DurationFollowsSleep QuietDurationIsOneCycle
PROPERTY QuietHistoryRepeatsReport
CHECK_DEADLOCK FALSE
