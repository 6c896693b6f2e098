\* Liveness: two slots, one pool worker, two layers of one code block each.
SPECIFICATION FairSpec
CONSTANTS
  PARA_NUM_TX = 2
  PACK_CACHE = 2
  LayerNum = 2
  CbMax = 1
  FramePackets = 2
  SEM_VALUE_MAX = 2
  Workers = {w1}
  NoTask = NoTask
PROPERTIES
  FramesAreSent
  SubframesComplete
CHECK_DEADLOCK FALSE
