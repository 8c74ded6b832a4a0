CONSTANTS
  Organs = {o1}
  Required = {}
  Sockets = {s1, s2}
  NoOrgan = NoOrgan
  NoSocket = NoSocket
  MaxMissed = 3
  Repeat = FALSE
  MaxPending = 3
  MaxChecks = 0
  MaxFailures = 0
  MaxRestarts = 0
SPECIFICATION Spec
CHECK_DEADLOCK FALSE
INVARIANT ConnectedIsNotDisconnected
