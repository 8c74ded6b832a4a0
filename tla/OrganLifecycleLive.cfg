CONSTANTS
  Organs = {o1}
  Required = {o1}
  Sockets = {s1, s2}
  NoOrgan = NoOrgan
  NoSocket = NoSocket
  MaxMissed = 2
  Repeat = FALSE
  MaxPending = 1
  MaxChecks = 1
  MaxFailures = 1
  MaxRestarts = 1
SPECIFICATION FairSpec
PROPERTIES SilentOrganIsGivenUp MissingRequiredIsReported
CHECK_DEADLOCK FALSE
