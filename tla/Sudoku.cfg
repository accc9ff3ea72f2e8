SPECIFICATION Spec
CONSTANTS
  BoxSize = 2
  Puzzles <- MCPuzzles
CHECK_DEADLOCK FALSE
INVARIANTS
  SolvesExactly
  LinksMatchStack
