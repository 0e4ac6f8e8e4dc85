CONSTANTS
  Ids = {i1, i2}
  AlertIds = {i1}
  MaxEvents = 2
  ChanCap = 1
  SeenCap = 1
  MaxAdded = 3
  MaxSession = 2
SPECIFICATION FairSpec
INVARIANTS
  TypeOK
  BroadcastInOrder
  NothingSkipped
  NoSendOnClosed
  SpokenOnce
PROPERTIES
  StoredIsShown
CHECK_DEADLOCK FALSE
