SPECIFICATION FairSpec
CONSTANTS
  Cores = {c1, c2, c3}
  NoCore = NoCore
  MaxDepth = 3
  Uint16 = 65536
INVARIANTS LockInv MutualExclusion
PROPERTIES SomeoneGetsIn ImplementsMutex
CHECK_DEADLOCK FALSE
