SPECIFICATION Spec
CONSTANTS
  Pids = {1, 2}
  Comms = {"qemu", "app"}
  VmNames = {"qemu"}
  Whats = {"shutdown"}
  Toggling = {"lock", "audio"}
  Faults = {"bus", "comm", "locks", "pactl", "proc", "usb"}
  MaxBirths = 3
INVARIANTS TypeOK LiveHoldersNamed ResidentVmsFound QuietVerdictIsRight
CHECK_DEADLOCK FALSE
