CONSTANTS
  Organs = {o1, o2}
  Sockets = {s1, s2}
  NoOrgan = NoOrgan
  Principals = {o1, o2}
  Types = {"OTM", "HOM"}
  Threshold = 1
  MaxMessages = 2
  DrainLimit = 1
  MaxFaults = 1
SPECIFICATION Spec
INVARIANT GovernanceIsNotLost
CHECK_DEADLOCK FALSE
