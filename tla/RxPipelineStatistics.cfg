\* The sent bits a slot compares against, on a ring of three frames.
SPECIFICATION Spec
CONSTANTS
  PARA_NUM_RX = 2
  PACK_CACHE = 3
  SBNum = 1
  LayerNum = 1
  CbMax = 1
  SamplePackets = 1
  DataPackets = 1
  MaxLost = 0
  SEM_VALUE_MAX = 1
  Workers = {w1}
  NoTask = NoTask
INVARIANT TestDataInPlace
CHECK_DEADLOCK FALSE
