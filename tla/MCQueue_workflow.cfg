\* A job log and two submitted jobs, at any time, with fleets of up to two.
\* Deadlock is not checked: the clock ends at the last instant.
SPECIFICATION Spec
CONSTANTS
  Jobs = {0, 1, 2, 3}
  Log = {0, 1}
  Seconds <- MCSeconds
  Level <- MCLevel
  Priorities = {1, 2}
  Deadlines <- MCDeadlines
  DefaultDeadline = 1
  Instants = {0, 1, 2, 4}
  Executors = {0, 1, 2}
  ArrivalWindow = 1
  MaxUpdates = 0
CHECK_DEADLOCK FALSE
INVARIANTS
  ServingAddsUp
PROPERTIES
  ServesAsAFleet
  EveryCallReturns
