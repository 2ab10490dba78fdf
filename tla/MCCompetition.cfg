SPECIFICATION FairSpec
CONSTANTS
  MaxRound = 3
  MaxWars = 2
  MaxWarriors = 2
  Speeds <- MCSlow
  MaxFrames = 2
  SeedMod = 1
INVARIANTS TypeOK NoLostWakeup WarsCountedOnce WarRunsToTheEnd NoWarOutlivesItsEnd
PROPERTIES TournamentSpec CompetitionConcludes StopIsHonoured
