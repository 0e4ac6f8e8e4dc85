CONSTANTS
  Symbols = {A, B}
  OpenT = 1
  SelT = 3
  ExitT = 4
  MaxNow = 5
  Passes <- MCPasses
SPECIFICATION Spec
INVARIANTS
  SelectsOnWholeWindow
CHECK_DEADLOCK FALSE
