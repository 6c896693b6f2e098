\* Two layers, the second of any size.
SPECIFICATION MCSpec
CONSTANTS
  LayerNum = 2
  MAX_SYMBOL_NUM = 14400
  MAX_CQI_MOD = 6
  Sizes <- MCSizes
INVARIANTS
  TypeOK
  BlocksReturn
  BlocksTile
  SymbolsTile
CHECK_DEADLOCK FALSE
