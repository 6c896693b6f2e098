\* Three frames of six packets; losses of up to one frame's worth, one foreign packet.
SPECIFICATION Spec
CONSTANTS
  PACK_CACHE = 2
  MAX_BEAM = 2
  SamplePackets = 1
  DataPackets = 2
  PARA_NUM_RX = 1
  MaxFrames = 3
  MaxLost = 6
  MaxStray = 1
  Window = 1
INVARIANTS
  TypeOK
  StopsOnlyByLosses
  FramesAsSent
  StatisticSeesLoss
  OutOfStepForEver
PROPERTIES
  ReadyFramesKept
CHECK_DEADLOCK FALSE
