SPECIFICATION Spec
CONSTANTS
  AddressBits = 4
  ArenaBits = 3
  Allowed <- MCAllowed
  Files <- MCFiles
  Cores <- MCCores
  MaxTurns = 2
  Free = 2
  FreeWord = 1
INVARIANT TypeOK
PROPERTIES KeepsToRegions AsDocumented
CHECK_DEADLOCK FALSE
