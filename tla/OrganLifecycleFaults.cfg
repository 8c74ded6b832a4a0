CONSTANTS
  Organs = {o1, o2}
  Required = {o1}
  Sockets = {s1, s2}
  NoOrgan = NoOrgan
  NoSocket = NoSocket
  MaxMissed = 1
  Repeat = TRUE
  MaxPending = 1
  MaxChecks = 2
  MaxFailures = 1
  MaxRestarts = 1
SPECIFICATION Spec
SYMMETRY SocketSymmetry
INVARIANTS TypeOK AtMostOneClient TrackedIsDisconnected AtMostOneHom
CHECK_DEADLOCK FALSE
