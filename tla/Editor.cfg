SPECIFICATION Spec
CONSTANTS
  Codes = {a, b}
  Chars = {"x", "space", "nl", "lt"}
  NL = "nl"
  Space = "space"
  Escaped <- MCEscaped
  Texts <- MCTexts
  Disassembled <- MCDisassembled
  Inserts <- MCInserts
  TabText <- MCTabText
  NoText = NoText
  NoKey = NoKey
  Selections <- MCSelections
  MaxLength = 4
  MaxEdits = 2
  MaxClicks = 3
SYMMETRY Symmetry
INVARIANTS TypeOK BreakpointsOnLines
PROPERTIES MarksFollow EditorListens BreakpointsFollowLines
CHECK_DEADLOCK FALSE
