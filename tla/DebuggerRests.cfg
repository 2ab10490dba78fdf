SPECIFICATION FairSpec
CONSTANTS
  MaxRound = 3
  MaxWars = 1
  MaxWarriors = 2
  Speeds <- MCTwoSpeeds
  MaxFrames = 2
  SeedMod = 1
PROPERTIES PauseSettles StepCompletes
