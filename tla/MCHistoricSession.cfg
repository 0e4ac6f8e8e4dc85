CONSTANTS
  Symbols = {s1, s2}
  NoSymbol = none
  MaxRuns = 2
SPECIFICATION FairSpec
INVARIANTS
  TypeOK
  ReportOfSession
  ReportIsWhole
  ReportIsFinal
  OwnIsTradable
  ReplayEndsClosed
PROPERTIES
  CancelledRunEnds
CHECK_DEADLOCK FALSE
