SPECIFICATION DevSpec
CONSTANTS
  QmapMode = 1
  UlRing = 3
  Low = 2
  High = 2
  DlRing = 2
  Budget = 1
  Plays <- MCPlays
  Lens = {1, 4, 6, 7}
  Mtu = 6
  RxMax = 6
  PktMax = 2
  Modes = {1, 2}
  Paddings = {0, 2}
  Cuts = {0, 1}
  MuxId0 = {0, 112}
  Hosts = {"a", "b"}
  StepMax = 4
  Devs = {d1, d2, d3}
  Controllers = 2
  Fds = {e1}
  ProbeMax = 3
  Faults = {"dead", "cntrl", "chan", "event", "cmd", "dev", "node",
            "assign", "enable", "region", "vectors", "irqtab", "irqvec",
            "sys_err", "ctxt", "seg", "align", "irq", "irq0", "irq1", "irq2", "bhi"}
  Pdp = 2
  Pdps <- MCPdps
  Apns = {"", "a", "b"}
  Address <- MCAddress
  ReqMax = 4
  ChangeMax = 2
  FailMax = 2
  PollMax = 2
INVARIANTS   ReferenceHeld   
CHECK_DEADLOCK FALSE
