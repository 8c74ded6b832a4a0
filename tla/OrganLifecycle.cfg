CONSTANTS
  Organs = {o1}
  Required = {o1}
  Sockets = {s1, s2, s3}
  NoOrgan = NoOrgan
  NoSocket = NoSocket
  MaxMissed = 2
  Repeat = FALSE
  MaxPending = 2
  MaxChecks = 0
  MaxFailures = 1
  MaxRestarts = 1
SPECIFICATION Spec
SYMMETRY SocketSymmetry
INVARIANTS QuietMeansDisconnected RequiredIsWatched
CHECK_DEADLOCK FALSE
