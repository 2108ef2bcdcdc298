SPECIFICATION FairDiskSpec
CONSTANTS
  DiskSize = 15
  Requests <- MCRequests
  Chunk = 4
  CountMod = 4
  PrdMax = 2
  MaxFails = 2
INVARIANTS ReadServed WriteServed
 
CHECK_DEADLOCK FALSE
