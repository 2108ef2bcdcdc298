SPECIFICATION Spec
CONSTANTS
  CoreCount = 2
  NoCore = NoCore
  Bytes = 2
  ByteBits = 2
  PageBytes = 2
  Sizes = {0, 2, 3}
  Phys = {0, 1, 2}
INVARIANT NeverUnallocated
CHECK_DEADLOCK FALSE
