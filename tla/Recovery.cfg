SPECIFICATION RecSpec
CONSTANTS
  wd = wd
  p1 = p1
  p2 = p2
  qcm = qcm
  simA = simA
  pinA = pinA
  pinB = pinB
  None = None
  Slots = {wd, p1}
  Watchdog = wd
  Events = {"redial", "relock", "mhi", "reset", "connect", "settings", "disconnect", "pin", "scan", "scanOnly", "health", "fault"}
INVARIANTS BouncesDoNotInterleave DisconnectHeld 
PROPERTIES ScriptsEnd RightPinUnlocks StuckModemReset
CHECK_DEADLOCK FALSE
