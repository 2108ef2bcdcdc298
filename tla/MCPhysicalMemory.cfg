SPECIFICATION Spec
CONSTANTS
  Maps <- MCMaps
  Devices <- MCDevices
  PageSize = 2
  F = 2
  KernelSize = 4
  FirstMiB = 2
  MaxEntries = 7
  MaxTake = 2
  IntMax = 100
INVARIANTS CountsAgree NoDoubleGrant OnlyRam FailsOnlyExhausted
CHECK_DEADLOCK FALSE
