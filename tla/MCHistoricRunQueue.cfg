CONSTANTS
  Requests = {r1, r2, r3}
  NoReq = NoReq
SPECIFICATION FairSpec
INVARIANTS
  TypeOK
  OneRunAtATime
  LatestWins
PROPERTIES
  ImplementsLatest
  EventuallyServed
  ShutdownCompletes
CHECK_DEADLOCK FALSE
