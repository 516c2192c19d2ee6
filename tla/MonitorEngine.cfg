CONSTANTS
  N = 2
  MaxEvents <- MCMaxEvents
  MaxRecent = 2
  BatchSize = 1
  MaxSessions = 2
SPECIFICATION Spec
INVARIANTS
  SinksKeepEmissionOrder
  NothingDroppedByShutdown
PROPERTIES
  StopAllReturns
