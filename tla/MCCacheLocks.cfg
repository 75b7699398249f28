\* Up to three workers, both kinds of locks, both placements.
CONSTANTS
  None = None
  StateProvider <- MCProviders
  Side <- MCSide
  MaxWorkers = 3
  Placements <- MCPlacements
SPECIFICATION FairSpec
INVARIANTS TypeOK NeverWedged NoLostWakeup
PROPERTIES InsertReturns KeyIsHandled BookReadReturns ProgramEnds
CHECK_DEADLOCK FALSE
