CONSTANTS
  Vectr = Vectr
  Organs = {Vectr, o2}
  Sockets = {s1, s2, s3}
  NoOrgan = NoOrgan
  Filters <- MCFilters
  Envelopes <- MCEnvelopes
  Seeds <- MCSeeds
  MessageTypes = 2
  MaxFaults = 1
SPECIFICATION Spec
INVARIANTS TypeOK CacheMirrorsRegistry BroadcastReachesSubscribers
INVARIANTS KnownMirrorsManifest GapsByFaultOnly HealthyMeansComplete
SYMMETRY SocketSymmetry
CHECK_DEADLOCK FALSE
