SPECIFICATION Spec
CONSTANTS
  wd = wd
  p1 = p1
  p2 = p2
  None = None
  Slots = {wd, p1, p2}
  Watchdog = wd
  Events = {"redial", "relock", "mhi", "reset", "connect", "settings", "disconnect", "pin", "scan", "scanOnly", "health", "upgrade", "reboot", "fault"}
INVARIANTS NoDataCallWhileFlashing
SYMMETRY Interchangeable
