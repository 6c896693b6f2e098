\* One lost last packet on a ring of two frames, then a signal.
SPECIFICATION FairSpec
CONSTANTS
  PARA_NUM_RX = 2
  PACK_CACHE = 2
  SBNum = 1
  LayerNum = 1
  CbMax = 1
  SamplePackets = 1
  DataPackets = 1
  MaxLost = 1
  SEM_VALUE_MAX = 2
  Workers = {w1}
  NoTask = NoTask
PROPERTY BothExit
CHECK_DEADLOCK FALSE
