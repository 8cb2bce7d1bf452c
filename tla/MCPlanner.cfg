\* Every judgement over five cycles, with the settings changed once on the way.
\* Deadlock is not checked: the clock is bounded.
SPECIFICATION Spec
CHECK_DEADLOCK FALSE
CONSTANTS
  Drift <- MCDrift
  Units <- MCUnits
  Kind <- MCKind
  Walking = 1
  Events <- MCEvents
  Picks <- MCPicks
  Origin <- MCOrigin
  Truth <- MCTruth
  Size <- MCSize
  Triggers <- MCTriggers
  Estimates <- MCEstimates
  Submitted <- MCSubmitted
  Zones <- MCZones
  MinimumPicks = 2
  Worlds <- MCWorlds
  SettingsSet <- MCSettings
  Horizon = 5
  MaxChanges = 1
INVARIANTS
  JudgementsAreCurrent
  ProtectedIsNotRelaxed
  PlannerKeepsTrack
