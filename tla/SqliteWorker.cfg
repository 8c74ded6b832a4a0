CONSTANTS
  Calls = {c1, c2, c3}
  NoCall = NoCall
  MaxPending = 2
  MaxCrashes = 3
SPECIFICATION FairSpec
INVARIANTS TypeOK DepthCountsPending PendingIsOnItsWay
PROPERTIES CallsKeepPromise EveryCallSettles
CHECK_DEADLOCK FALSE
