SPECIFICATION RingSpec
CONSTANTS
  Buf = {b1, b2, b3}
  N = 3
  Channels <- AllChannels
  Late = {}
  Racy = FALSE
  FaultMax = 1
  HangMax = 1
  OpenMax = 2
  EvMax = 2
  CmdMax = 2
INVARIANTS PendingBalanced NoLostDoorbell
PROPERTIES ChannelImplementsQueue
SYMMETRY BufSymmetry
CHECK_DEADLOCK FALSE
