SPECIFICATION Spec
CONSTANTS
  CoreCount = 2
  PageBytes = 2
  TableSize = 4
  Top = 35
  KernelPages = 6
  LowPages = 1
  BlockCounts = {3, 5, 13}
  ByteBits = 2
  Maps <- MCMaps
  Acpi <- MCAcpi
  Devices <- MCDevices
  MaxEntries = 7
  AreaPages = 4
  None = None
INVARIANTS BlocksOwned Reachable
PROPERTIES MappingsStable AddressesKept
CHECK_DEADLOCK FALSE
