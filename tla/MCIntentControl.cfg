\* Two operators and a schedule at work on the same settings; then the run is
\* replayed.  Deadlock is not checked: a run ends, and so does its replay.
SPECIFICATION Spec
CHECK_DEADLOCK FALSE
CONSTANTS
  Operators = {ann, bob}
  Levels = {0, 1, 2, 3}
  Patches <- MCPatches
  Initial <- MCInitial
  Planned <- MCPlanned
  MaxCycle = 3
  MaxEdits = 2
INVARIANTS
  TypeOK
  EffectIsRecorded
  ReplayActsTheSame
PROPERTIES
  NoSilentOverwrite
  ChangesTakeEffect
  ScheduleApplies
