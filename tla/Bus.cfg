SPECIFICATION BusSpec
CONSTANTS
  RomStart = 2
  RomSize = 4
  RamStart = 8
  RamSize = 4
  DmaStart = 16
  Lanes = 2
  ALLOWED_CYCLES = 9
  Values = {1}
  Targets = {3, 8, 14}
  Transfers <- MCTransfers
INVARIANTS BusInv GrantHeld
PROPERTIES AccessIsExact ReturnsAtRest RomCopyArrives AccessEnds TransferEnds
