CONSTANTS
  End = 4
  MaxSize = 2
  Starts <- MCStarts
  Prefixed <- MCPrefixed
  Indirect = Indirect
  None = None
SPECIFICATION Spec
INVARIANTS
  WholeFunction
  EveryOpcodeOnce
  BlocksAreBasic
  JumpsAreEdges
  EntryReachesAll
PROPERTIES
  Progress
CHECK_DEADLOCK FALSE
