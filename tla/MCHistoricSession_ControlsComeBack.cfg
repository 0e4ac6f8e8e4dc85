CONSTANTS
  Symbols = {s1, s2}
  NoSymbol = none
  MaxRuns = 2
SPECIFICATION FairSpec
PROPERTIES
  ControlsComeBack
CHECK_DEADLOCK FALSE
