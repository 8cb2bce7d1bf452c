\* Two events, the second while the first is located again, under each trigger.
\* Deadlock is not checked: a replay ends.
SPECIFICATION FairSpec
CHECK_DEADLOCK FALSE
CONSTANTS
  Events <- MCEvents
  Picks <- MCPicks
  MinimumPicks = 2
  Origin <- MCOrigin
  Window = 3
  DrainWindow = 2
  Duration = 3
  Triggers <- MCTriggers
  Valuations <- MCValuations
  Horizon = 6
INVARIANTS
  CatalogueAgrees
  SweepsAreExact
  WaitIsBounded
PROPERTIES
  WorkEnds
