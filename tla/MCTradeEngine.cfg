CONSTANTS
  Tickers = {A}
  NoTicker = NoTicker
  Prices = {8, 10, 12}
  Sizes = {1}
  OpenT = 0
  CrossDelay = 1
  SelT = 2
  CutoffT = 4
  ExitT = 5
  Grace = 1
  MaxLag = 1
  TpPct = 1
  SlPct = 1
  Den = 10
  MaxVol = 5
  MaxNow = 6
SPECIFICATION FairSpec
INVARIANTS
  TypeOK
  ClosedMeansFlat
  EntryContract
  NoMissedExit
  BuyHeardFirst
PROPERTIES
  EveryPositionCloses
CHECK_DEADLOCK FALSE
