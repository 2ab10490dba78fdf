SPECIFICATION Spec
CONSTANTS
  Warriors = {w1, w2}
  Groups = {A, B}
  NoOne = NoOne
  ArenaSize = 3
  MemorySize = 7
  MinGap = 0
  StackSize = 1
  SharedSize = 1
  MaxWarriorSize = 1
  Lengths = {1}
  OpcodeSizes = {1, 2}
  Widths = {1, 2}
  Targets <- MCTargets
  MaxRounds = 2
INVARIANTS TypeOK AliveCounted PrivateMemory
PROPERTIES PaintedByWriter BattleSpec
CHECK_DEADLOCK FALSE
