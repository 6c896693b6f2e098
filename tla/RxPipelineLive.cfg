\* Liveness: two slots on a ring of two frames, one task per stage, no loss.
SPECIFICATION FairSpec
CONSTANTS
  PARA_NUM_RX = 2
  PACK_CACHE = 2
  SBNum = 1
  LayerNum = 1
  CbMax = 1
  SamplePackets = 1
  DataPackets = 1
  MaxLost = 0
  SEM_VALUE_MAX = 2
  Workers = {w1}
  NoTask = NoTask
PROPERTIES
  ReceptionGoesOn
  SubframesComplete
  BothExit
  ImplementsFrameBuffer
CHECK_DEADLOCK FALSE
