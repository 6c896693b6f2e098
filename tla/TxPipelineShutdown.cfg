\* The producer's reaction to a signal, on the smallest pipeline.
SPECIFICATION FairSpec
CONSTANTS
  PARA_NUM_TX = 1
  PACK_CACHE = 1
  LayerNum = 1
  CbMax = 1
  FramePackets = 1
  SEM_VALUE_MAX = 1
  Workers = {w1}
  NoTask = NoTask
PROPERTY ProducerExits
CHECK_DEADLOCK FALSE
