\* Whether a planned change leaves alone what an operator changed.
SPECIFICATION Spec
CHECK_DEADLOCK FALSE
CONSTANTS
  Operators = {ann}
  Levels = {0, 1, 2, 3}
  Patches <- MCPatches
  Initial <- MCInitial
  Planned <- MCPlanned
  MaxCycle = 3
  MaxEdits = 1
PROPERTIES
  NoChangeLost
