SPECIFICATION MCSpec
CONSTANTS
  qcm = qcm
  watchdog = watchdog
  simA = simA
  simB = simB
  pinA = pinA
  pinB = pinB
  None = None
  Callers = {qcm, watchdog}
  Watchdog = watchdog
  Pins = {pinA, pinB}
  RealPin <- RealPinValue

  Cards = {simA, simB}
  OpenCards = {simB}
  UiPins = {pinA, pinB}
INVARIANTS NoEntryAfterReject UnattendedNeverPuk ChargedOnce
CHECK_DEADLOCK FALSE
