CONSTANT Interval = 6
SPECIFICATION Spec
INVARIANTS
  ThreadInv
  StopWaitsAtMostOneInterval
PROPERTIES
  StopReturns
  ImplementsRunner
