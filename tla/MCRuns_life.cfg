\* A simulation or a live run, its requests and an event stream that may never
\* close, over any number of crashes, shutdowns and restarts.
SPECIFICATION LifeSpec
CONSTANTS
  sim = sim
  live = live
  Runs <- MCBoth
  Live <- MCLive
  MaxCycles = 2
  MaxStreams = 1
PROPERTIES
  RunsEnd
  ServiceStops
