SPECIFICATION Spec
CONSTANTS
  Cores = {c1, c2}
  NoCore = NoCore
  Sizes = {0, 3}
  Word = 1048576
  PageSize = 4
  KernelStart = 6
  KernelSize = 12
  UserEnd = 0
  MaxEnd = 1000
  Uint16 = 3
INVARIANTS HeapInv BlocksDisjoint KernelBlocksInside
