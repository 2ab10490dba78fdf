SPECIFICATION Spec
CONSTANTS
  AddressBits = 4
  ArenaBits = 3
  Allowed <- MCAllowed
  Files <- MCFiles
  Cores <- MCCores
  MaxTurns = 2
  Free = 2
  FreeWord = 1
PROPERTIES CompressedBranchesReach
CHECK_DEADLOCK FALSE
