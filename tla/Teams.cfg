SPECIFICATION Spec
CONSTANTS
  Players = {1, 2}
  Zombies = {3}
  Titles = {"A", "A1"}
  Names <- MCNames
  Plain <- MCPlain
  First <- MCFirst
  Second <- MCSecond
  Nameless = ""
  Rank <- MCRank
  Slots = {"A000"}
  Random = "random"
  Unfit = "unfit"
  Whole = 6
  MaxEdits = 2
  MaxStarts = 1
  MaxWars = 0
INVARIANTS TypeOK TeamsTogether NamesFindGroups FixedApart
PROPERTY ThrowsOnlyAsKnown
CHECK_DEADLOCK FALSE
