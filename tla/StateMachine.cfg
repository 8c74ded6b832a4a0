CONSTANTS
  Entities = {j1, o1}
  LifecycleEntities = {o1}
  Machine <- MCMachine
  LifecycleSteps <- MCLifecycleSteps
  MaxHistory = 4
  MaxWrites = 2
  MaxFaults = 1
SPECIFICATION Spec
INVARIANTS TypeOK SyncHistoryIsRun DeniedNeverDispatched AnnouncedInOrder
CHECK_DEADLOCK FALSE
