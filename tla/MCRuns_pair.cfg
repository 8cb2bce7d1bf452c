\* A simulation and a live run in one process, from its start to its shutdown.
\* Deadlock is not checked: the process ends.
SPECIFICATION WorkSpec
CHECK_DEADLOCK FALSE
CONSTANTS
  sim = sim
  live = live
  Runs <- MCBoth
  Live <- MCLive
  MaxCycles = 1
  MaxStreams = 0
INVARIANTS
  TypeOK
  ActiveIsInFlight
  NothingStuck
  CompletedIsMeasured
  TargetIsOwned
PROPERTIES
  ShutdownLosesNothing
  RecordMovesForward
