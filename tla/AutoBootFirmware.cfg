\* A read of the device tree or the firmware may fail.
SPECIFICATION FairSpec
CONSTANTS
  Type = {"zsl", "dtb", "fw"}
  MaxLbas <- MCMaxLbas
  MaxParts = 3
  MaxSize = 3
  MaxFails = 1
INVARIANTS FirmwareLoaded
CHECK_DEADLOCK FALSE
