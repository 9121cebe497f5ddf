SPECIFICATION Spec
CONSTANTS
  Slots = {0, 1}
  Readers = {"usb", "supply", "hwmon", "throttle", "cpufreq", "description", "stats"}
  Cap = 3
  MaxOdd = 2
  MaxChanges = 2
INVARIANTS TypeOK SteadyDevicesTrue RowsNotInvented ThrottleInBounds
CHECK_DEADLOCK FALSE
