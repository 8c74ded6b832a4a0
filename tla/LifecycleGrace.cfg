CONSTANTS
  Organs = {o1}
  Required = {o1}
  Sockets = {s1, s2, s3}
  NoOrgan = NoOrgan
  NoSocket = NoSocket
  MaxMissed = 3
  Repeat = FALSE
  MaxPending = 3
  MaxChecks = 0
  MaxFailures = 0
  MaxRestarts = 0
SPECIFICATION Spec
CHECK_DEADLOCK FALSE
PROPERTY ClockStartsAfterGrace
