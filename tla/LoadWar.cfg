SPECIFICATION FairSpec
CONSTANTS
  Warriors = {w1, w2, w3}
  Groups = {A, B}
  NoOne = NoOne
  ArenaSize = 8
  MemorySize = 13
  MinGap = 1
  StackSize = 1
  SharedSize = 1
  MaxWarriorSize = 2
  Lengths = {1, 3}
  OpcodeSizes = {1, 2}
  Widths = {1, 2}
  Targets <- MCTargets
  MaxRounds = 0
INVARIANTS CodeApart CodeIntact RandomKeepsGap
PROPERTY LoadingEnds
CHECK_DEADLOCK FALSE
