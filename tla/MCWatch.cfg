\* Streams with room for one event, a cache that keeps two runs' views.
\* Deadlock is not checked: everyone may have gone.
SPECIFICATION Spec
CHECK_DEADLOCK FALSE
CONSTANTS
  sim = sim
  older = older
  oldest = oldest
  live = live
  one = one
  all = all
  left = left
  right = right
  Everything = Everything
  Runs <- MCRuns
  Live <- MCLive
  Watchers <- MCWatchers
  Scope <- MCScope
  Buffer = 1
  Pages <- MCPages
  ViewsKept = 2
  Scenes <- MCScenes
  MaxCycles = 1
  MaxDecisions = 2
INVARIANTS
  StreamsAreTrue
  CacheIsSound
PROPERTIES
  RunIsNotHeldUp
