CONSTANTS
  Items <- MCItems
  Workers = {w1, w2}
  NoItem = NoItem
  Bars <- MCBars
  Volumes <- MCVolumes
  OpenPrice = 10
  OpenVol = 20
  DropMin = 2
  TodayMin = 100
  Sessions = 2
  Tickers <- MCTickers
  Entries = {10, 20}
  ExitPrices = {9, 12, 20}
SPECIFICATION FairSpec
INVARIANTS
  TypeOK
  SoldOffIsRight
  ReportAddsUp
PROPERTIES
  PoolIsParallelMap
CHECK_DEADLOCK FALSE
