CONSTANTS
  A = A
  B = B
  Dates = {d1, d2}
  NoDate = none
  Tickers = {A, B}
  NoTicker = none
  Lists <- MoreLists
  InitN = 1
  Total = 2
  MaxFetch = 2
  MaxClicks = 2
SPECIFICATION FairSpec
INVARIANTS
  TypeOK
  NoSpoiler
PROPERTIES
  PollKeepsChart
  Settles
CHECK_DEADLOCK FALSE
