SPECIFICATION Spec
CONSTANTS
  ArenaSize = 6
  MemorySize = 9
  Bytes = {0, 1}
  Zero = 0
  Size <- MCSize
  Listing <- MCListing
  Layouts <- MCLayouts
  Nowhere <- MCNowhere
  MaxSessions = 2
  MaxSteps = 4
INVARIANTS TypeOK LinesTrue LinesApart DebugLineShown BreakpointsAgree
CHECK_DEADLOCK FALSE
