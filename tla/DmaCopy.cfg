SPECIFICATION BusSpec
CONSTANTS
  RomStart = 2
  RomSize = 4
  RamStart = 8
  RamSize = 6
  DmaStart = 16
  Lanes = 2
  ALLOWED_CYCLES = 9
  Values = {1}
  Targets = {8, 9}
  Transfers <- CopyTransfers
PROPERTIES CopyIsExact
