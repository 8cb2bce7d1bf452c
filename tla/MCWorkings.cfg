\* Four mines, each way of working them, each kind of unit, over two days of
\* 64 instants.  Deadlock is not checked: a track ends.
SPECIFICATION Spec
CHECK_DEADLOCK FALSE
CONSTANTS
  Layouts <- MCLayouts
  Lookahead = 4
  Pace <- MCPace
  Stays <- MCStays
  Lead = 9
  Activities <- MCActivities
  Duration = 90
  Until = 100
  Day = 64
INVARIANTS
  MeasuresAreExact
  GroundHoldsThePerson
  CrewsStayOut
