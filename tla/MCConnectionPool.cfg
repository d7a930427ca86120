SPECIFICATION FairSpec
CONSTANTS
  Threads = {a, b, c, d}
  Capacity = 2
  Null = Null
INVARIANTS
  ConnectionInOnePlace
  NoLostWakeup
PROPERTIES
  Allocates
  WaitersAreServed
