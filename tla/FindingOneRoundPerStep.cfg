SPECIFICATION Spec
CONSTANTS
  MaxRound = 3
  MaxWars = 2
  MaxWarriors = 2
  Speeds <- MCSpeeds
  MaxFrames = 2
  SeedMod = 1
INVARIANT OneRoundPerStep
