SPECIFICATION RingFairSpec
CONSTANTS
  Buf = {b1, b2}
  N = 3
  Channels <- UplinkChannels
  Late = {}
  Racy = FALSE
  FaultMax = 1
  HangMax = 0
  OpenMax = 2
  EvMax = 1
  CmdMax = 2
PROPERTIES EveryBufferReturned
CHECK_DEADLOCK FALSE
