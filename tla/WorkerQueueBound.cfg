CONSTANTS
  Calls = {c1, c2, c3}
  NoCall = NoCall
  MaxPending = 1
  MaxCrashes = 3
SPECIFICATION Spec
INVARIANT QueueIsBounded
CHECK_DEADLOCK FALSE
