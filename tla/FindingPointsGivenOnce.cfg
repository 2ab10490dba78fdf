SPECIFICATION Spec
CONSTANTS
  MaxRound = 2
  MaxWars = 2
  MaxWarriors = 2
  Speeds = {0}
  MaxFrames = 1
  SeedMod = 1
INVARIANT PointsGivenOnce
