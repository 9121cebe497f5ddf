SPECIFICATION Spec
CONSTANTS
  Timers = {backup, fstrim}
  Others = {sshd}
  Elapses = {7}
  Faults = {"bus", "list", "proxy", "wake", "next", "rtc"}
  MaxReloads = 1
INVARIANTS TypeOK RowsMatchReply WakesNotInvented StableRowsAreTrue
CHECK_DEADLOCK FALSE
