\* Two credits, one of which may be lost, one foreign packet, and rings that just
\* hold them.
SPECIFICATION FairSpec
CONSTANTS
  TokenInit = 2
  RingSize = 3
  Burst = 2
  MaxLost = 1
  MaxStray = 1
INVARIANTS
  TypeOK
  CreditConservation
  RingsHaveRoom
  StartedInOrder
PROPERTIES
  CreditsReturn
  AllStart
