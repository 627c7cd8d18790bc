SPECIFICATION ToolsSpec
CONSTANTS
  Starts <- MCStarts
  Configs <- MCConfigs
  TidMax = 2
  Slices = 2
  OpenMax = 2
  FaultMax = 1
  ChangeMax = 1
  Files = {f1, f2}
  NB = 2
  UlCap = 1
  GenMax = 2
  MsgMax = 2
  WrMax = 1
  IoMax = 1
  Kinds = {"copy", "pend"}
  Early = FALSE
  ZeroLen = FALSE
  Bits = {0, 1, 2, 3}
  StatusBits = {0, 1}
  BitLimit = 3
  Calls <- MCCalls
  Lists <- MCLists
  NewMax = 1
  Fds = {1, 2, 3}
  Limit = 3
  CallMax = 6
  AddressMax = 2
INVARIANTS BelievesCall  AllFlushed
PROPERTIES NotClosedForFamily
CHECK_DEADLOCK FALSE
