SPECIFICATION Spec
CONSTANTS
  Players = {1, 2}
  Zombies = {3}
  Titles = {"A", "A1"}
  Names <- MCNames
  Plain <- MCPlain
  First <- MCFirst
  Second <- MCSecond
  Nameless = ""
  Rank <- MCRank
  Slots = {}
  Random = "random"
  Unfit = "unfit"
  Whole = 6
  MaxEdits = 1
  MaxStarts = 2
  MaxWars = 1
INVARIANTS ScoresAgree ZombiesHandedIn NoCrash
CHECK_DEADLOCK FALSE
