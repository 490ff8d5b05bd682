SPECIFICATION Spec
CONSTANTS
  Requests = {r1, r2}
  NumMessages = 3
  PageSize = 1
  MaxPages = 2
  Pair <- MCPair
  MaxRuns = 2
  MaxSwitches = 1
  MaxFaults = 1
SYMMETRY Interchangeable
CHECK_DEADLOCK FALSE
INVARIANTS
  TypeOK
  CursorIsCovered
  ImportedOnce
PROPERTIES
  CursorAdvances
