SPECIFICATION PSpec
CONSTANTS
  Ops = {"qmiwwan", "gobinet"}
  Slots = {"WDS"}
  TidMax = 3
  Slices = 2
  SyncMax = 1
  FaultMax = 1
  IndMax = 0
  ReqMax = 1
  Files = {f1}
  NB = 2
  UlCap = 1
  GenMax = 2
  MsgMax = 1
  WrMax = 1
  IoMax = 1
  Kinds = {"copy", "pend"}
  Early = FALSE
  ZeroLen = FALSE
  Plays <- MCPlays
  Home <- MCHome
  Ifaces = {"lan"}
  WriteMax = 1
  IfMax = 1
  KnownMax = 1
  LoadMax = 1
PROPERTIES ClientLetThrough BlockedCallsEnd TransportStops
CHECK_DEADLOCK FALSE
