\* Two slots on a ring of three frames, one pool worker (threadNum_rx = 1), at
\* most one lost packet.
SPECIFICATION Spec
CONSTANTS
  PARA_NUM_RX = 2
  PACK_CACHE = 3
  SBNum = 2
  LayerNum = 1
  CbMax = 1
  SamplePackets = 1
  DataPackets = 1
  MaxLost = 1
  SEM_VALUE_MAX = 2
  Workers = {w1}
  NoTask = NoTask
INVARIANTS
  TypeOK
  AccountingDrift
  ReadyFramesIntact
  SamplesInPlace
  StagesQuiescent
  NoMissedRoom
CHECK_DEADLOCK FALSE
