CONSTANTS
  Ids = {i1, i2}
  AlertIds = {i1}
  MaxEvents = 2
  ChanCap = 1
  SeenCap = 9
  MaxAdded = 3
  MaxSession = 1
SPECIFICATION FairSpec
PROPERTIES
  EveryEventIsPushed
CHECK_DEADLOCK FALSE
