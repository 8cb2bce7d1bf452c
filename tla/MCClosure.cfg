\* Two units, two events, three questions, every order of picks and locates.
\* Deadlock is not checked: a run ends.
SPECIFICATION Spec
CHECK_DEADLOCK FALSE
CONSTANTS
  Drift <- MCDrift
  Units <- MCUnits
  Kind <- MCKind
  Walking = 1
  Events <- MCEvents
  Picks <- MCPicks
  MinimumPicks = 2
  Origin <- MCOrigin
  Truth <- MCTruth
  TrueZone <- MCTrueZone
  ScriptedFor <- MCScriptedFor
  Estimate <- MCEstimate
  Junctions = {2, 6, 8}
  Anyone = "anyone"
  Worlds <- MCWorlds
  Questions <- MCQuestions
  Every = 2
  Horizon = 10
INVARIANTS
  DecisionsAreRight
  MapIsRight
PROPERTIES
  NothingIsRewritten
