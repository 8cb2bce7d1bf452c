----------------------------- MODULE Whereabouts -----------------------------
(****************************************************************************)
(* What the mine can read of where its people and vehicles are and could be *)
(* (internal/observe): the simulator's tracks, which only the oracle reads, *)
(* and the mine's own positioning, which knows a vehicle's route but not a  *)
(* person's.                                                                *)
(*                                                                          *)
(* The mine is one straight drift, so a place is a number, a stretch of     *)
(* tunnel an interval and the way along the tunnels the distance.           *)
(****************************************************************************)
EXTENDS Integers, Sequences, FiniteSetsExt

CONSTANTS
  Drift,   \* the places along the tunnel, an interval
  Units,   \* the people and vehicles underground
  Kind,    \* [Units -> what each is]
  Walking  \* workload.WalkingSpeed, in places per interval

Kinds == {"person", "crewed-vehicle", "autonomous-vehicle"}
Tracks == Seq([at: Nat, point: Drift])

Distance(p, q) == IF p < q THEN q - p ELSE p - q

\* Waypoints are in time order, and speeds whole, so that every position at a
\* whole instant is a place.
IsTrack(track) ==
  /\ track \in Tracks
  /\ \A i \in 2..Len(track) :
       /\ track[i - 1].at < track[i].at
       /\ Distance(track[i].point, track[i - 1].point) % (track[i].at - track[i - 1].at) = 0

ASSUME WhereaboutsAssumption ==
  /\ Drift \subseteq Nat \ {0} /\ \A p, q \in Drift : p..q \subseteq Drift
  /\ IsFiniteSet(Units) /\ Kind \in [Units -> Kinds]
  /\ Walking \in Nat

\* Entity.PositionAt: interpolated, and held at its first or last waypoint.
PositionAt(track, at) ==
  LET after == {i \in DOMAIN track : track[i].at > at}
      next  == Min(after)
      a == track[next - 1]
      b == track[next]
  IN IF after = {} THEN track[Len(track)].point
     ELSE IF next = 1 THEN track[1].point
     ELSE a.point + ((b.point - a.point) * (at - a.at)) \div (b.at - a.at)

\* The ground of straight lines between places of one drift.
Ground(places) == Min(places)..Max(places)

\* One unit's track from at, over lookahead.
Route_start(track, at, lookahead) == {PositionAt(track, at)}
Route(track, at, lookahead) ==
  Ground({PositionAt(track, at), PositionAt(track, at + lookahead)} \cup
         {track[i].point : i \in {k \in DOMAIN track :
                                    at < track[k].at /\ track[k].at < at + lookahead}})

\* Every stretch of tunnel within a distance of a place.
Within(from, distance) == {p \in Drift : Distance(from, p) =< distance}

Seen(tracks, protect) == {u \in Units : Kind[u] \in protect /\ tracks[u] # <<>>}

\* Tracks.Reach and Positioned.Reach: the oracle reads every route, the mine
\* a vehicle's route and how far a person could walk.
UnitReach(knowledge, tracks, u, at, lookahead) ==
  IF knowledge = "truth" \/ Kind[u] # "person" THEN Route(tracks[u], at, lookahead)
  ELSE Within(PositionAt(tracks[u], at), Walking * lookahead)

Reach(knowledge, tracks, at, lookahead, protect) ==
  UNION {UnitReach(knowledge, tracks, u, at, lookahead) : u \in Seen(tracks, protect)}

Positions(tracks, at, protect) == {PositionAt(tracks[u], at) : u \in Seen(tracks, protect)}

\* How fast the quickest unit moves anywhere on its track.
Fastest(tracks) ==
  Max({0} \cup UNION {{Distance(tracks[u][i].point, tracks[u][i - 1].point)
                         \div (tracks[u][i].at - tracks[u][i - 1].at)
                       : i \in 2..Len(tracks[u])} : u \in Units})

\* Speed bounds how fast any reach can move toward a place; Planner.New takes
\* the faster of the two views, since the settings may switch between them.
ViewSpeed(knowledge, tracks) ==
  IF knowledge = "truth" THEN Fastest(tracks) ELSE Max({Fastest(tracks), Walking})
Speed(tracks) == Max({ViewSpeed("truth", tracks), ViewSpeed("estimate", tracks)})
=============================================================================
