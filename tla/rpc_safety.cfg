SPECIFICATION FairSpec
CONSTANTS
  Calls = {c1, c2, c3}
  QueueCap = 1
  PipeCap = 1
INVARIANTS
  WaitingIsWakeable
  RefusedNeverRuns
  ProgressBeforeResult
PROPERTIES
  ImplementsService
  DeathWakesInFlight
  InFlightReturns
CHECK_DEADLOCK FALSE
