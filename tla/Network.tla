------------------------------- MODULE Network -------------------------------
(****************************************************************************)
(* The tunnels of a mine as a network to travel (internal/mineplan): its    *)
(* nodes and legs, the shortest routes out of each node, the ground within  *)
(* a distance of a place, and the faces the mine is worked from.            *)
(*                                                                          *)
(* Points are on a lattice and every leg runs along an axis, so that        *)
(* lengths are whole and nothing is rounded.                                *)
(****************************************************************************)
EXTENDS Integers, SequencesExt

CONSTANTS
  Layouts,   \* the mines considered: each the sequence of its tunnels
  Lookahead  \* how far ahead a person's ground is asked for, in instants

Kinds == {"shaft", "ramp", "drive", "crosscut", "ore-drive", "access", "shaft-station"}
Far   == 1000000 \* math.Inf
None  == 0       \* no node

Gap(x, y)    == IF x < y THEN y - x ELSE x - y
Length(p, q) == Gap(p[1], q[1]) + Gap(p[2], q[2]) + Gap(p[3], q[3])

Straight(p, q) == \E i \in 1..3 : \A j \in 1..3 \ {i} : p[j] = q[j]

\* The points of the straight line between two of them.
Between(x, y) == IF x < y THEN x..y ELSE y..x
Stretch(p, q) == Between(p[1], q[1]) \X Between(p[2], q[2]) \X Between(p[3], q[3])

\* The elements of a sequence at some of its places, in order.
Picked(s, places) ==
  [k \in 1..Cardinality(places) |->
     s[CHOOSE i \in places : Cardinality({j \in places : j < i}) = k - 1]]

Distinct(s) == Picked(s, {i \in DOMAIN s : \A j \in 1..(i - 1) : s[j] # s[i]})

\* The legs of some tunnels, in the order the tunnels list them.
Legs(tunnels) ==
  FlattenSeq([t \in DOMAIN tunnels |->
    LET path == tunnels[t].path
    IN [i \in 1..(Len(path) - 1) |-> <<path[i], path[i + 1]>>]])

\* Where tunnels lead: their points in the order they first reach them.
Vertices(tunnels) == Distinct(FlattenSeq(Legs(tunnels)))

\* The legs that meet at a point, in the order they were added, each from
\* there; one from a point to itself is none.
Meeting(legs, p) ==
  LET meet == Picked(legs, {i \in DOMAIN legs : legs[i][1] # legs[i][2] /\ p \in ToSet(legs[i])})
  IN [k \in DOMAIN meet |-> IF meet[k][1] = p THEN meet[k] ELSE <<p, meet[k][1]>>]

\* NewGraph: nodes are numbered by their points.
NewGraph(tunnels) ==
  LET points == Vertices(tunnels)
      meet   == [n \in DOMAIN points |-> Meeting(Legs(tunnels), points[n])]
  IN [points |-> points,
      edges  |-> [n \in DOMAIN points |->
                    [k \in DOMAIN meet[n] |->
                       [to     |-> CHOOSE m \in DOMAIN points : points[m] = meet[n][k][2],
                        length |-> Length(meet[n][k][1], meet[n][k][2])]]]]

Walkable(tunnel) == tunnel.kind # "shaft"

NodesOf(graph)     == DOMAIN graph.points
NodeAt(graph, p)   == CHOOSE n \in NodesOf(graph) : graph.points[n] = p
Degree(graph, n)   == Len(graph.edges[n])
EdgesOf(graph, n)  == ToSet(graph.edges[n])

\* Faces: the ends of crosscuts that join no drive, and ends of ore drives in
\* rock, in the order the tunnels list them.
Faces(tunnels) ==
  LET graph   == NewGraph(tunnels)
      onDrive == UNION {ToSet(tunnels[t].path) : t \in {u \in DOMAIN tunnels : tunnels[u].kind = "drive"}}
      worked(t, p) ==
        /\ p \notin onDrive
        /\ \/ t.kind = "crosscut"
           \/ t.kind = "ore-drive" /\ Degree(graph, NodeAt(graph, p)) = 1
      ends(t) == LET path == t.path IN
        Picked(<<path[1], path[Len(path)]>>, {i \in 1..2 : worked(t, <<path[1], path[Len(path)]>>[i])})
  IN Distinct(FlattenSeq([t \in DOMAIN tunnels |-> ends(tunnels[t])]))

WalkableOf(mine) == Picked(mine, {t \in DOMAIN mine : Walkable(mine[t])})

\* Tunnels join at vertices alone: a place inside two legs would be a place on
\* the first of them to NearestLeg.  And nothing is as far as math.Inf.
ASSUME NetworkAssumption ==
  /\ Lookahead \in Nat /\ Lookahead < Far
  /\ \A mine \in Layouts :
       /\ mine \in Seq([kind : Kinds, path : Seq(Int \X Int \X Int)])
       /\ \A t \in DOMAIN mine : Len(mine[t].path) >= 2
       /\ \E t \in DOMAIN mine : Walkable(mine[t])
       /\ LET ways == WalkableOf(mine) IN
          \A leg \in ToSet(Legs(ways)) :
            /\ Straight(leg[1], leg[2])
            /\ Len(Vertices(ways)) * Length(leg[1], leg[2]) < Far
            /\ \A other \in ToSet(Legs(ways)) \ {leg} :
                 Stretch(leg[1], leg[2]) \cap Stretch(other[1], other[2]) \subseteq ToSet(leg) \cap ToSet(other)

VARIABLES
  tunnels,  \* the mine's layout
  graph,    \* the network of its walkable tunnels
  search,   \* the search going on: from a node, what is known of the others
  routes    \* the searches done: Reach.distance, and the routes people take

network == <<tunnels, graph, search, routes>>

Nodes == NodesOf(graph)

From(n) == [from |-> n, done |-> {},
            distance |-> [m \in Nodes |-> IF m = n THEN 0 ELSE Far],
            previous |-> [m \in Nodes |-> None]]

NetworkInit ==
  /\ tunnels \in Layouts
  /\ graph = NewGraph(WalkableOf(tunnels))
  /\ search = From(1)
  /\ routes = <<>>

\* One turn of the loop of Routes: the nearest node not done, the first of
\* those as near, passes on what it knows.
Open == {n \in Nodes \ search.done : search.distance[n] # Far}
Current == CHOOSE n \in Open : \A m \in Open :
             \/ search.distance[n] < search.distance[m]
             \/ search.distance[n] = search.distance[m] /\ n =< m

Ways(m) == {search.distance[Current] + e.length : e \in {x \in EdgesOf(graph, Current) : x.to = m}}
Shorter(m) == \E d \in Ways(m) : d < search.distance[m]
Settle ==
  /\ Len(routes) < Cardinality(Nodes) /\ Open # {}
  /\ search' = [search EXCEPT
       !.done = @ \cup {Current},
       !.distance = [m \in Nodes |-> IF Shorter(m) THEN Min(Ways(m)) ELSE @[m]],
       !.previous = [m \in Nodes |-> IF Shorter(m) THEN Current ELSE @[m]]]
  /\ UNCHANGED <<tunnels, graph, routes>>

\* NewReach: the next node's routes.
Searched ==
  /\ Len(routes) < Cardinality(Nodes) /\ Open = {}
  /\ routes' = Append(routes, [distance |-> search.distance, previous |-> search.previous])
  /\ search' = IF search.from < Cardinality(Nodes) THEN From(search.from + 1) ELSE search
  /\ UNCHANGED <<tunnels, graph>>

Measured == Len(routes) = Cardinality(Nodes)

\* Routes.To: the nodes passed through, none when there is no way.
To(from, to) ==
  LET back[n \in 0..Cardinality(Nodes)] ==
        IF n = 0 THEN <<to>>
        ELSE LET way    == back[n - 1]
                 before == routes[from].previous[way[1]]
             IN IF before = None THEN way ELSE <<before>> \o way
  IN IF routes[from].distance[to] = Far THEN <<>> ELSE back[Cardinality(Nodes)]

Closest(p, a, b) ==
  LET clamp(i) == Max({Min({a[i], b[i]}), Min({Max({a[i], b[i]}), p[i]})})
  IN <<clamp(1), clamp(2), clamp(3)>>
Apart(p, q) == (p[1] - q[1]) * (p[1] - q[1]) + (p[2] - q[2]) * (p[2] - q[2]) + (p[3] - q[3]) * (p[3] - q[3])

\* The leg nearest a point, the first met of those as near.
NearestLeg(p) ==
  LET legs == UNION {{<<n, k>> : k \in {j \in DOMAIN graph.edges[n] : graph.edges[n][j].to >= n}} : n \in Nodes}
      end(l)  == graph.edges[l[1]][l[2]].to
      at(l)   == Closest(p, graph.points[l[1]], graph.points[end(l)])
      before(l, m) == l[1] < m[1] \/ (l[1] = m[1] /\ l[2] =< m[2])
      least   == Min({Apart(p, at(l)) : l \in legs})
      near    == {l \in legs : Apart(p, at(l)) = least}
      nearest == CHOOSE l \in near : \A m \in near : before(l, m)
  IN [a |-> nearest[1], b |-> end(nearest), at |-> at(nearest)]

Toward(p, q, d) ==
  LET step(i) == IF q[i] > p[i] THEN d ELSE IF q[i] < p[i] THEN -d ELSE 0
  IN <<p[1] + step(1), p[2] + step(2), p[3] + step(3)>>

\* Reach.Within: every stretch of tunnel within distance of a point.
Reached_one(leg, n) == Length(leg.at, graph.points[leg.a]) + routes[leg.a].distance[n]
Reached(leg, n) ==
  Min({Length(leg.at, graph.points[leg.a]) + routes[leg.a].distance[n],
       Length(leg.at, graph.points[leg.b]) + routes[leg.b].distance[n]})
Along(p, q, d) == Stretch(p, Toward(p, q, Min({d, Length(p, q)})))
Within(from, distance) ==
  LET leg == NearestLeg(from)
      entered == {n \in Nodes : Reached(leg, n) =< distance}
  IN Along(leg.at, graph.points[leg.a], distance) \cup Along(leg.at, graph.points[leg.b], distance)
     \cup UNION {UNION {Along(graph.points[n], graph.points[e.to], distance - Reached(leg, n))
                          : e \in EdgesOf(graph, n)} : n \in entered}

-----------------------------------------------------------------------------
\* The reference: the tunnels as places, and where one gets to by moving from
\* a place to one beside it on the same leg, a number of times.
Tunnelled ==
  UNION {{Stretch(graph.points[n], graph.points[e.to]) : e \in EdgesOf(graph, n)} : n \in Nodes}
Places == UNION Tunnelled
Beside == [p \in Places |-> {q \in UNION {l \in Tunnelled : p \in l} : Length(p, q) = 1}]

Around(p, farthest) ==
  LET beside == Beside
      ground[n \in 0..farthest] ==
        IF n = 0 THEN {p}
        ELSE LET before == ground[n - 1]
             IN before \cup UNION {beside[q] : q \in before \cap DOMAIN beside}
  IN ground

\* What Routes says of every pair of nodes: the way it names leads along the
\* tunnels from one to the other and is as long as it says, no way is shorter,
\* and where it names none there is none.
RoutesAreShortest ==
  Measured => \A from \in Nodes :
    LET around == Around(graph.points[from], Cardinality(Places))
    IN \A to \in Nodes :
         LET way  == To(from, to)
             said == routes[from].distance
         IN IF way = <<>> THEN graph.points[to] \notin around[Cardinality(Places)]
            ELSE /\ way[1] = from /\ way[Len(way)] = to
                 /\ \A i \in 2..Len(way) : \E e \in EdgesOf(graph, way[i - 1]) :
                      /\ e.to = way[i]
                      /\ said[way[i]] = said[way[i - 1]] + Length(graph.points[way[i - 1]], graph.points[way[i]])
                 /\ graph.points[to] \in around[said[to]]
                 /\ said[to] > 0 => graph.points[to] \notin around[said[to] - 1]

\* What Within promises (reach.go): "The ground is all of it and no more: a
\* point is on a returned segment exactly when the way there along the tunnels
\* is no longer than distance."
GroundIsExact ==
  Measured => \A p \in Places :
    LET around == Around(p, Lookahead)
    IN \A distance \in 0..Lookahead : Within(p, distance) = around[distance]

\* Routes and grounds are right together: whoever asks for one may rely on it.
WaysAreExact == RoutesAreShortest /\ GroundIsExact
=============================================================================
