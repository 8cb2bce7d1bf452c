------------------------------ MODULE Workings -------------------------------
(****************************************************************************)
(* A mine being worked: which faces are worked in each shift and when they  *)
(* are blasted (internal/activity), and where one unit goes meanwhile       *)
(* (internal/workload/workforce.go), along the tunnels of Network.  Every   *)
(* unit draws from a generator of its own, so one at a time is enough.      *)
(****************************************************************************)
EXTENDS Network

CONSTANTS
  Pace,       \* [kind of unit -> places it travels in an instant]
  Stays,      \* [kind of unit -> how long it may stay where it has gone]
  Lead,       \* clearingLead
  Activities, \* the ways the mine may be worked
  Duration,   \* of the scenario
  Until,      \* Duration and trackTail
  Day         \* 24 hours

Units == {"person", "crewed-vehicle", "autonomous-vehicle"}

ASSUME WorkingsAssumption ==
  /\ Pace \in [Units -> Nat \ {0}] /\ Pace["person"] * Lookahead < Far
  /\ Lead \in Nat /\ Duration \in Nat /\ Until \in Nat /\ Day \in Nat \ {0}
  /\ \A u \in Units : /\ Stays[u] \subseteq Nat \ {0}
                       /\ \E longest \in Stays[u] : \A stay \in Stays[u] : stay =< longest
  /\ Activities \subseteq [areas : Nat \ {0}, rotate : Nat \ {0}, start : Nat, window : Nat,
                           every : Nat, clear : Nat, reentry : Nat]
  /\ \A a \in Activities : a.start < Day /\ (a.window > 0 => a.every > 0)
  /\ \A u \in Units : \A mine \in Layouts : \A t \in DOMAIN mine : \A i \in 2..Len(mine[t].path) :
       Length(mine[t].path[i], mine[t].path[i - 1]) % Pace[u] = 0

VARIABLES
  plan,    \* activity.Plan: shifts, blasts and evacuations; NoPlan when nobody says
  unit,    \* what the unit is
  at, now, \* the node it is at and the time its track has come to
  since,   \* when it last set out
  track    \* its waypoints, as far back as its ground is asked for

journey == <<unit, at, now, since, track>>
vars == <<network, plan, journey>>

NoPlan == [shifts |-> <<>>, rotate |-> 1, blasts |-> <<>>, evacuations |-> <<>>]
Worked == plan.shifts # <<>>

Init ==
  /\ NetworkInit
  /\ plan = NoPlan
  /\ unit = "nobody" /\ at = None /\ now = 0 /\ since = 0 /\ track = <<>>

Measure == (Settle \/ Searched) /\ UNCHANGED <<plan, journey>>

\* ActiveAt, for shifts of a length.
ActiveAt(shifts, rotate, time) == shifts[Min({(time \div rotate) + 1, Len(shifts)})]

\* The blasts of a day that begin before the scenario ends.
Fired(a, day) ==
  LET count == IF a.every = 0 THEN 1 ELSE (a.window \div a.every) + 1
      times == [k \in 1..count |-> day + a.start + (k - 1) * a.every]
  IN Picked(times, {k \in 1..count : times[k] < Duration})

Times(count, every) == [k \in 1..count |-> (k - 1) * every]
Upto(length, every) == Times(Max({1, (length + every - 1) \div every}), every)

Blasts(a, shifts) ==
  LET times == FlattenSeq([d \in DOMAIN Upto(Duration, Day) |-> Fired(a, Upto(Duration, Day)[d])])
      active(i) == ActiveAt(shifts, a.rotate, times[i])
  IN [i \in DOMAIN times |-> [at |-> times[i], face |-> active(i)[((i - 1) % Len(active(i))) + 1]]]

Evacuations(a) ==
  LET every == Upto(Duration, Day)
      days  == Picked(every, {d \in DOMAIN every : Fired(a, every[d]) # <<>>})
  IN [d \in DOMAIN days |->
        LET fired == Fired(a, days[d])
        IN [clear |-> fired[1] - a.clear, reentry |-> fired[Len(fired)] + a.reentry]]

\* NewPlan: the faces of each shift are any of the mine's, in any order.
NewPlan ==
  /\ Measured /\ at = None /\ ~Worked
  /\ LET faces == ToSet(Faces(tunnels)) IN
     \E a \in Activities :
       /\ a.areas =< Cardinality(faces)
       /\ \E shifts \in [DOMAIN Upto(Duration, a.rotate) ->
                           {s \in [1..a.areas -> faces] : \A i, j \in 1..a.areas : s[i] = s[j] => i = j}] :
            plan' = [shifts |-> shifts, rotate |-> a.rotate,
                     blasts |-> Blasts(a, shifts), evacuations |-> Evacuations(a)]
  /\ UNCHANGED <<network, journey>>

\* Plan.Evacuation: the one under way or the next, if any.
Evacuation_coming(time) ==
  Picked(plan.evacuations, {i \in DOMAIN plan.evacuations : plan.evacuations[i].clear >= time})
Evacuation(time) ==
  Picked(plan.evacuations, {i \in DOMAIN plan.evacuations : plan.evacuations[i].reentry > time})

-----------------------------------------------------------------------------
\* newMovement: where production happens, or anywhere; the shaft stations; the
\* tip, where the deepest of them joins its level.
PointsOf(kinds) == UNION {ToSet(tunnels[t].path) : t \in {u \in DOMAIN tunnels : tunnels[u].kind \in kinds}}
Production == {n \in Nodes : graph.points[n] \in PointsOf({"crosscut", "ore-drive"})}
Workplaces == IF Production = {} THEN Nodes ELSE Production

Stations == {t \in DOMAIN tunnels : tunnels[t].kind = "shaft-station"}
StationEnd(t) == tunnels[t].path[Len(tunnels[t].path)]
Tip ==
  IF Stations = {} THEN Min(Workplaces)
  ELSE LET deepest == CHOOSE t \in Stations : \A s \in Stations :
                        \/ StationEnd(t)[3] < StationEnd(s)[3]
                        \/ StationEnd(t)[3] = StationEnd(s)[3] /\ t =< s
       IN NodeAt(graph, StationEnd(deepest))

Height(n) == graph.points[n][3]
Station(n) ==
  LET here == {t \in Stations : tunnels[t].path[1][3] = Height(n)}
  IN IF here = {} THEN Tip ELSE NodeAt(graph, tunnels[Max(here)].path[1])

\* The faces a crew may go to from a node: those worked, on its own level where
\* one is.
WorkedNow(n, time) ==
  LET active == {NodeAt(graph, p) : p \in ToSet(ActiveAt(plan.shifts, plan.rotate, time))}
      here   == {f \in active : Height(f) = Height(n)}
  IN IF here = {} THEN active ELSE here

Crew(u) == u # "autonomous-vehicle"

Waypoint(time, n) == [at |-> time, point |-> graph.points[n]]

\* Where the track starts.
Start ==
  /\ Measured /\ at = None
  /\ unit' \in Units
  /\ at' \in IF ~Crew(unit') THEN {Tip}
             ELSE IF Worked THEN {NodeAt(graph, p) : p \in ToSet(ActiveAt(plan.shifts, plan.rotate, 0))}
             ELSE Workplaces
  /\ track' = <<Waypoint(0, at')>>
  /\ UNCHANGED <<network, plan, now, since>>

\* Only a person's ground is asked for.
Recalled == IF unit = "person" THEN Lookahead ELSE 0

\* The waypoints a question about the time from some moment on still needs.
Kept(waypoints, time) ==
  LET passed == {i \in DOMAIN waypoints : waypoints[i].at =< time}
  IN IF passed = {} THEN waypoints ELSE SubSeq(waypoints, Max(passed), Len(waypoints))

\* When a route from here gets to a node, and the waypoints it passes.
Arrival(n) == now + routes[at].distance[n] \div Pace[unit]
Passed_end(way) ==
  IF Len(way) < 2 THEN <<>> ELSE <<Waypoint(Arrival(way[Len(way)]), way[Len(way)])>>
Passed(way) ==
  IF way = <<>> THEN <<>> ELSE Tail([i \in DOMAIN way |-> Waypoint(Arrival(way[i]), way[i])])

\* One turn of travel: along the route to a destination, if there is one, and
\* a stay there.
Go(destination, stay) ==
  LET way == To(at, destination)
  IN /\ at' = IF way = <<>> THEN at ELSE destination
     /\ now' = (IF way = <<>> THEN now ELSE Arrival(destination)) + stay
     /\ since' = now
     /\ track' = Kept(track \o Passed(way) \o <<Waypoint(now', at')>>, now - Recalled)
     /\ UNCHANGED <<network, plan, unit>>

Travelling == at # None /\ now < Until

\* person and crewedVehicle in a mine nobody described the working of: on foot
\* between working places, by vehicle anywhere.
Wander ==
  /\ Travelling /\ Crew(unit) /\ ~Worked
  /\ \E destination \in IF unit = "person" THEN Workplaces ELSE Nodes, stay \in Stays[unit] :
       Go(destination, stay)

\* autonomousVehicle: to a working place and back to the tip.
Haul ==
  /\ Travelling /\ ~Crew(unit)
  /\ \E destination \in IF at = Tip THEN Workplaces ELSE {Tip}, stay \in Stays[unit] :
       Go(destination, stay)

\* workedCrew: to the shaft station when the production areas are to be cleared
\* within Lead, else to a face.
Clearing == Evacuation(now) # <<>> /\ Evacuation(now)[1].clear =< now + Lead
Clear ==
  /\ Travelling /\ Crew(unit) /\ Worked /\ Clearing
  /\ Go(Station(at), Max({Evacuation(now)[1].reentry - now, 1}))
Work ==
  /\ Travelling /\ Crew(unit) /\ Worked /\ ~Clearing
  /\ \E destination \in WorkedNow(at, now), stay \in Stays[unit] : Go(destination, stay)

Next == Measure \/ NewPlan \/ Start \/ Wander \/ Haul \/ Clear \/ Work

Spec == Init /\ [][Next]_vars

-----------------------------------------------------------------------------
\* Entity.PositionAt, along the axis of the leg.
PositionAt(time) ==
  LET after == {i \in DOMAIN track : track[i].at > time}
      b == track[Min(after)]
      a == track[Min(after) - 1]
      part(i) == a.point[i] + ((b.point[i] - a.point[i]) * (time - a.at)) \div (b.at - a.at)
  IN IF after = {} THEN track[Len(track)].point
     ELSE IF Min(after) = 1 THEN track[1].point
     ELSE <<part(1), part(2), part(3)>>

\* Everybody relies on the measures of the network, which change no more.
MeasuresAreExact == at = None /\ plan = NoPlan => WaysAreExact

\* A person is on the ground the mine judges them by: wherever they are, and
\* whatever nobody knows of where they go next, a lookahead later they are on
\* a stretch Positioned.Reach gave for them.
GroundHoldsThePerson ==
  unit = "person" /\ at # None =>
    \A time \in Max({0, since - Lookahead})..(now - Lookahead) :
      LET then == PositionAt(time + Lookahead)
      IN then = PositionAt(time) \/ then \in Within(PositionAt(time), Pace["person"] * Lookahead)

\* When the production areas are clear at the latest: whoever set out for a
\* face before the lead, or was there to begin with, has walked there, stayed and
\* walked away.
Longest(u) ==
  Max((UNION {{routes[n].distance[m] : m \in Nodes} : n \in Nodes}) \ {Far}) \div Pace[u]
Emptied(u, e) ==
  Max({e.clear - Lead, 0}) + Max(Stays[u]) + 2 * Longest(u)

\* What Generate makes: a network in one piece and, on every level with a face,
\* a shaft station off its production.
Connected == \A m \in Nodes : routes[1].distance[m] # Far
Served ==
  /\ \A t \in Stations : tunnels[t].path[1] \notin PointsOf({"crosscut", "ore-drive"})
  /\ \A p \in ToSet(Faces(tunnels)) : \E t \in Stations : tunnels[t].path[1][3] = p[3]

\* Crews leave for blasting (activity.md): from when the last of them has left,
\* and until re-entry, no crew is anywhere near production, on any day, however
\* its routes, stays and shifts fell.
CrewsStayOut ==
  Worked /\ Crew(unit) /\ at # None /\ Connected /\ Served =>
    \A e \in {x \in ToSet(plan.evacuations) : since < x.reentry /\ now >= x.clear} :
      LET emptied == Emptied(unit, e)
      IN \A time \in Max({since, emptied})..Min({now, e.reentry - 1}) :
           PositionAt(time) \notin PointsOf({"crosscut", "ore-drive"})
=============================================================================
