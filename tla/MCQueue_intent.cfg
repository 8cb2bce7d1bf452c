\* A job log under intent: every reprioritisation between any two intervals.
\* Deadlock is not checked: the clock ends at the last instant.
SPECIFICATION Spec
CONSTANTS
  Jobs = {0, 1, 2}
  Log = {0, 1, 2}
  Seconds <- MCSeconds
  Level <- MCLevel
  Priorities = {1, 2}
  Deadlines <- MCDeadlines
  DefaultDeadline = 2
  Instants = {1, 2, 4}
  Executors <- MCExecutors
  ArrivalWindow = 1
  MaxUpdates = 2
CHECK_DEADLOCK FALSE
INVARIANTS
  TypeOK
  NoJobLost
  LevelsInOrder
  AccountsAgree
PROPERTIES
  OverdueIsCounted
  StartedIsSettled
