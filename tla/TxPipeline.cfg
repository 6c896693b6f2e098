\* Two slots, two pool workers, two layers of one or two code blocks, frames of
\* two packets.  PACK_CACHE = 2 lets the ring fill and wrap.
SPECIFICATION FairSpec
CONSTANTS
  PARA_NUM_TX = 2
  PACK_CACHE = 2
  LayerNum = 2
  CbMax = 2
  FramePackets = 2
  SEM_VALUE_MAX = 2
  Workers = {w1, w2}
  NoTask = NoTask
INVARIANTS
  TypeOK
  FrameAccounting
  SlotQuiescent
  NoLostIncrement
  NoOverwrite
  NoMissedFrame
PROPERTIES
  ImplementsFrameBuffer
CHECK_DEADLOCK FALSE
