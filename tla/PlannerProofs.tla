---------------------------- MODULE PlannerProofs -----------------------------
(****************************************************************************)
(* What holds of the planner for any workload, any tracks, any settings and *)
(* any drift.                                                               *)
(****************************************************************************)
EXTENDS Planner, FiniteSetTheorems, WellFoundedInduction, TLAPS

-----------------------------------------------------------------------------
(* Numbers.                                                                 *)

\* Induction on the natural numbers, for a set: the least number outside it
\* would be neither 0 nor next to one inside.
LEMMA Induction ==
  ASSUME NEW S, 0 \in S, \A n \in Nat : n \in S => n + 1 \in S
  PROVE  Nat \subseteq S
<1>1. SUFFICES ASSUME Nat \ S # {} PROVE FALSE
  OBVIOUS
<1>2. PICK n \in Nat \ S : \A k \in Nat \ S : ~ (<<k, n>> \in OpToRel(<, Nat))
  BY <1>1, NatLessThanWellFounded, WFMin
<1>3. n # 0 /\ n - 1 \in Nat /\ n - 1 < n
  OBVIOUS
<1>4. <<n - 1, n>> \in OpToRel(<, Nat)
  BY <1>3 DEF OpToRel
<1>5. n - 1 \notin S
  BY <1>3
<1>6. n - 1 \in Nat \ S
  BY <1>3, <1>5
<1> QED BY <1>2, <1>4, <1>6

\* A set of natural numbers has a least, which is its Min.
LEMMA MinIs ==
  ASSUME NEW S, S \subseteq Nat, S # {}
  PROVE  Min(S) \in S /\ \A x \in S : Min(S) =< x
<1>1. PICK n \in S : \A k \in S : ~ (<<k, n>> \in OpToRel(<, Nat))
  BY NatLessThanWellFounded, WFMin
<1>2. \A k \in S : ~ (k < n)
  BY <1>1 DEF OpToRel
<1>3. \A x \in S : n =< x
  BY <1>2
<1> QED BY <1>3 DEF Min

\* What is in a set and below all of it is its Min.
LEMMA Least ==
  ASSUME NEW S, S \subseteq Nat, NEW n \in S, \A x \in S : n =< x
  PROVE  Min(S) = n
<1>1. Min(S) \in S /\ Min(S) =< n /\ n =< Min(S)
  BY MinIs
<1>2. Min(S) \in Nat /\ n \in Nat
  BY <1>1
<1> QED BY ONLY <1>1, <1>2

\* A bounded set of integers has a greatest, which is its Max.
LEMMA MaxIs ==
  ASSUME NEW S, S \subseteq Int, S # {}, NEW b \in Int, \A x \in S : x =< b
  PROVE  Max(S) \in S /\ \A x \in S : x =< Max(S)
<1>1. PICK T : T = {n \in Nat : \E x \in S : n = b - x}
  OBVIOUS
<1>2. T \subseteq Nat /\ T # {}
  <2>1. PICK x \in S : TRUE
    OBVIOUS
  <2>2. b - x \in Nat
    BY <2>1
  <2>3. b - x \in T
    BY <1>1, <2>1, <2>2
  <2> QED BY <1>1, <2>3
<1>3. Min(T) \in T /\ \A n \in T : Min(T) =< n
  BY <1>2, MinIs
<1>4. PICK x \in S : Min(T) = b - x
  BY <1>1, <1>3
<1>5. \A y \in S : b - y \in T
  BY <1>1
<1>6. \A y \in S : x >= y
  BY <1>3, <1>4, <1>5
<1> QED BY <1>6 DEF Max

\* A product grows with its factor, up or down.
LEMMA Product ==
  ASSUME NEW v \in Int, NEW n \in Nat, NEW d \in Nat, n =< d
  PROVE  (0 =< v => 0 =< v * n /\ v * n =< v * d) /\ (v =< 0 => v * n =< 0 /\ v * d =< v * n)
OBVIOUS

-----------------------------------------------------------------------------
(* Tracks.                                                                  *)

\* The places of the drift are numbers.
LEMMA PlacesAreWhole == \A p \in Drift : p \in Nat /\ p \in Int
BY WhereaboutsAssumption

\* A track's waypoints are places at instants.
LEMMA TrackType ==
  ASSUME NEW track, IsTrack(track)
  PROVE  /\ Len(track) \in Nat /\ DOMAIN track = 1..Len(track)
         /\ \A i \in DOMAIN track : track[i].at \in Nat /\ track[i].point \in Drift
         /\ track # <<>> => 1 \in DOMAIN track /\ Len(track) \in DOMAIN track
<1>1. track \in Seq([at: Nat, point: Drift])
  BY DEF IsTrack, Tracks
<1>2. Len(track) \in Nat /\ DOMAIN track = 1..Len(track)
  BY <1>1
<1>3. \A i \in DOMAIN track : track[i].at \in Nat /\ track[i].point \in Drift
  <2> TAKE i \in DOMAIN track
  <2>1. i \in 1..Len(track)
    BY <1>2
  <2>2. PICK R : R = [at: Nat, point: Drift]
    OBVIOUS
  <2>3. track \in Seq(R)
    BY <1>1, <2>2
  <2>4. track[i] \in R
    BY <2>1, <2>3
  <2> QED BY <2>2, <2>4
<1>4. track # <<>> => Len(track) # 0
  BY <1>1
<1> QED BY <1>2, <1>3, <1>4

\* Waypoints are in time order, not only next to each other.
LEMMA TrackInOrder ==
  ASSUME NEW track, IsTrack(track)
  PROVE  \A i, j \in DOMAIN track : i < j => track[i].at < track[j].at
<1> DEFINE S == {n \in Nat : \A i \in DOMAIN track :
                    i + n + 1 \in DOMAIN track => track[i].at < track[i + n + 1].at}
<1>1. 0 \in S
  BY TrackType DEF IsTrack
<1>2. ASSUME NEW n \in Nat, n \in S PROVE n + 1 \in S
  <2> SUFFICES ASSUME NEW i \in DOMAIN track, i + (n + 1) + 1 \in DOMAIN track
               PROVE  track[i].at < track[i + (n + 1) + 1].at
    OBVIOUS
  <2>1. i \in Nat /\ i + n + 1 \in DOMAIN track
    BY TrackType
  <2>2. track[i].at < track[i + n + 1].at
    BY <1>2, <2>1
  <2> HIDE DEF S
  <2>6. DOMAIN track = 1..Len(track) /\ Len(track) \in Nat
    BY TrackType
  <2>7. i + (n + 1) + 1 \in 1..Len(track)
    BY <2>6
  <2>3. i + (n + 1) + 1 \in 2..Len(track) /\ (i + (n + 1) + 1) - 1 = i + n + 1
    BY ONLY <2>1, <2>6, <2>7, n \in Nat
  <2>4. track[i + n + 1].at < track[i + (n + 1) + 1].at
    BY <2>3 DEF IsTrack
  <2>5. track[i].at \in Nat /\ track[i + n + 1].at \in Nat /\ track[i + (n + 1) + 1].at \in Nat
    BY <2>1, TrackType
  <2> QED BY ONLY <2>2, <2>4, <2>5
<1>3. Nat \subseteq S
  <2> HIDE DEF S
  <2> QED BY <1>1, <1>2, Induction
<1> QED
  <2> TAKE i, j \in DOMAIN track
  <2> HAVE i < j
  <2>1. i \in Nat /\ j - i - 1 \in Nat /\ i + (j - i - 1) + 1 = j
    BY TrackType
  <2>2. j - i - 1 \in S
    BY <1>3, <2>1
  <2> QED BY <2>1, <2>2

\* How fast a leg is travelled, whole and signed.
LEMMA LegSpeed ==
  ASSUME NEW track, IsTrack(track), NEW i \in 2..Len(track)
  PROVE  \E v \in Int :
           /\ track[i].point - track[i - 1].point = v * (track[i].at - track[i - 1].at)
           /\ LET q == Distance(track[i].point, track[i - 1].point)
                         \div (track[i].at - track[i - 1].at)
              IN q \in Nat /\ v =< q /\ -v =< q
<1>1. i \in DOMAIN track /\ i - 1 \in DOMAIN track
  BY TrackType
<1>2. PICK a : a = track[i - 1].point
  OBVIOUS
<1>3. PICK b : b = track[i].point
  OBVIOUS
<1>4. PICK d : d = track[i].at - track[i - 1].at
  OBVIOUS
<1>5. d \in Nat \ {0} /\ a \in Nat /\ b \in Nat
  <2>1. a \in Nat /\ b \in Nat
    BY <1>1, <1>2, <1>3, TrackType, WhereaboutsAssumption
  <2>2. track[i].at \in Nat /\ track[i - 1].at \in Nat
    BY <1>1, TrackType
  <2>3. track[i - 1].at < track[i].at
    BY DEF IsTrack
  <2> QED BY <1>4, <2>1, <2>2, <2>3
<1>6. PICK x : x = Distance(b, a)
  OBVIOUS
<1>7. x \in Nat /\ x % d = 0 /\ (b - a = x \/ b - a = -x)
  <2>1. x \in Nat /\ (b - a = x \/ b - a = -x)
    BY <1>5, <1>6 DEF Distance
  <2>2. Distance(track[i].point, track[i - 1].point) % (track[i].at - track[i - 1].at) = 0
    BY DEF IsTrack
  <2> QED BY <1>2, <1>3, <1>4, <1>6, <2>1, <2>2
<1>8. PICK q : q = x \div d
  OBVIOUS
<1>9. q \in Nat /\ x = q * d
  BY <1>5, <1>7, <1>8
<1>10. b - a = q * d \/ b - a = (-q) * d
  BY <1>5, <1>7, <1>9
<1>11. \E v \in Int : b - a = v * d /\ v =< q /\ -v =< q
  BY <1>9, <1>10
<1> QED BY <1>2, <1>3, <1>4, <1>6, <1>8, <1>9, <1>11

\* Dividing by what was multiplied with gives back the number.
LEMMA ExactDivision ==
  ASSUME NEW x \in Int, NEW d \in Nat \ {0}
  PROVE  (x * d) \div d = x
OBVIOUS

\* Where a unit is while it travels a leg, both ends included.
LEMMA PositionOnLeg ==
  ASSUME NEW track, IsTrack(track), NEW i \in 2..Len(track), NEW v \in Int,
         track[i].point - track[i - 1].point = v * (track[i].at - track[i - 1].at),
         NEW t \in Nat, track[i - 1].at =< t, t =< track[i].at
  PROVE  PositionAt(track, t) = track[i - 1].point + v * (t - track[i - 1].at)
<1>1. i \in DOMAIN track /\ i - 1 \in DOMAIN track /\ i \in Nat
  BY TrackType
<1>2. PICK after : after = {k \in DOMAIN track : track[k].at > t}
  OBVIOUS
<1>3. after \subseteq Nat /\ after \subseteq DOMAIN track
  BY <1>2, TrackType
<1>4. CASE t < track[i].at
  <2>1. i \in after
    BY <1>1, <1>2, <1>4, TrackType
  <2>2. \A k \in after : i =< k
    <3> SUFFICES ASSUME NEW k \in after, k < i PROVE FALSE
      BY <1>1, <1>3
    <3>1. k = i - 1 \/ k < i - 1
      BY <1>1, <1>3
    <3>2. track[k].at =< track[i - 1].at
      BY <1>1, <1>3, <3>1, TrackInOrder, TrackType
    <3> QED BY <1>1, <1>2, <1>3, <3>2, TrackType
  <2>3. Min(after) = i
    BY <1>3, <2>1, <2>2, Least
  <2>4. PICK p : p = track[i - 1].point
    OBVIOUS
  <2>5. PICK s : s = track[i - 1].at
    OBVIOUS
  <2>6. PICK d : d = track[i].at - s
    OBVIOUS
  <2>7. d \in Nat \ {0} /\ s \in Nat /\ p \in Nat
    <3>1. track[i].at \in Nat /\ track[i - 1].at \in Nat
      BY <1>1, TrackType
    <3>2. s \in Nat /\ track[i].at - s \in Nat \ {0}
      BY <1>4, <2>5, <3>1
    <3>3. track[i - 1].point \in Drift
      BY <1>1, TrackType
    <3> QED BY <2>4, <2>6, <3>2, <3>3, WhereaboutsAssumption
  <2>8. PositionAt(track, t) = p + ((track[i].point - p) * (t - s)) \div d
    BY <1>1, <1>2, <2>1, <2>3, <2>4, <2>5, <2>6 DEF PositionAt
  <2>9. (v * d) * (t - s) = (v * (t - s)) * d
    BY <2>7
  <2>10. ((v * (t - s)) * d) \div d = v * (t - s)
    BY <2>7, ExactDivision
  <2> QED BY <2>4, <2>5, <2>6, <2>8, <2>9, <2>10
<1>5. CASE t = track[i].at
  <2>1. \A k \in after : i < k
    <3> SUFFICES ASSUME NEW k \in after, ~ (i < k) PROVE FALSE
      OBVIOUS
    <3>1. k = i \/ k < i
      BY <1>1, <1>3
    <3>2. track[k].at =< track[i].at
      BY <1>1, <1>3, <3>1, TrackInOrder, TrackType
    <3> QED BY <1>1, <1>2, <1>3, <1>5, <3>2, TrackType
  <2>2. PositionAt(track, t) = track[i].point
    <3>1. CASE i = Len(track)
      <4>1. after = {}
        BY <1>3, <2>1, <3>1, TrackType
      <4> QED BY <1>2, <3>1, <4>1 DEF PositionAt
    <3>2. CASE i # Len(track)
      <4>1. i + 1 \in DOMAIN track /\ track[i + 1].at > t
        BY <1>1, <1>5, <3>2, TrackInOrder, TrackType
      <4>2. i + 1 \in after /\ \A k \in after : i + 1 =< k
        BY <1>1, <1>2, <1>3, <2>1, <4>1
      <4>3. Min(after) = i + 1
        BY <1>3, <4>2, Least
      <4>4. (i + 1) - 1 = i /\ i + 1 # 1
        BY <1>1
      <4>5. PositionAt(track, t) = track[i].point +
               ((track[i + 1].point - track[i].point) * (t - track[i].at))
                  \div (track[i + 1].at - track[i].at)
        BY <1>2, <4>2, <4>3, <4>4 DEF PositionAt
      <4>6. PICK d : d = track[i + 1].at - track[i].at
        OBVIOUS
      <4>7. PICK w : w = track[i + 1].point - track[i].point
        OBVIOUS
      <4>8. d \in Nat \ {0} /\ w \in Int /\ t - track[i].at = 0 /\ track[i].point \in Nat
        <5>1. track[i].at \in Nat /\ track[i + 1].at \in Nat
          BY <1>1, <4>1, TrackType
        <5>2. track[i].point \in Nat /\ track[i + 1].point \in Nat
          BY <1>1, <4>1, TrackType, WhereaboutsAssumption
        <5>3. d \in Nat \ {0} /\ t - track[i].at = 0
          BY <1>5, <4>1, <4>6, <5>1
        <5> QED BY <4>7, <5>2, <5>3
      <4>9. (w * 0) \div d = 0
        BY <4>8
      <4> QED BY <4>5, <4>6, <4>7, <4>8, <4>9
    <3> QED BY <3>1, <3>2
  <2>3. track[i].point \in Nat /\ track[i - 1].point \in Nat
    BY <1>1, TrackType, WhereaboutsAssumption
  <2>4. track[i].point = track[i - 1].point + v * (t - track[i - 1].at)
    BY <1>5, <2>3
  <2> QED BY <2>2, <2>4
<1> QED BY <1>1, <1>4, <1>5, TrackType

\* Before its first waypoint and after its last a unit stands there.
LEMMA PositionAtEnds ==
  ASSUME NEW track, IsTrack(track), track # <<>>, NEW t \in Nat
  PROVE  /\ t =< track[1].at => PositionAt(track, t) = track[1].point
         /\ track[Len(track)].at =< t => PositionAt(track, t) = track[Len(track)].point
<1>1. PICK after : after = {k \in DOMAIN track : track[k].at > t}
  OBVIOUS
<1>2. after \subseteq Nat /\ after \subseteq DOMAIN track /\ 1 \in DOMAIN track
      /\ Len(track) \in DOMAIN track
  BY <1>1, TrackType
<1>3. ASSUME track[Len(track)].at =< t PROVE PositionAt(track, t) = track[Len(track)].point
  <2>1. \A k \in DOMAIN track : track[k].at =< track[Len(track)].at
    <3> TAKE k \in DOMAIN track
    <3>1. k = Len(track) \/ k < Len(track)
      BY TrackType
    <3> QED BY <1>2, <3>1, TrackInOrder, TrackType
  <2>2. after = {}
    BY <1>1, <1>2, <1>3, <2>1, TrackType
  <2> QED BY <1>1, <2>2 DEF PositionAt
<1>4. ASSUME t < track[1].at PROVE PositionAt(track, t) = track[1].point
  <2>1. 1 \in after /\ \A k \in after : 1 =< k
    BY <1>1, <1>2, <1>4, TrackType
  <2>2. Min(after) = 1
    BY <1>2, <2>1, Least
  <2> QED BY <1>1, <2>1, <2>2 DEF PositionAt
<1>5. ASSUME t = track[1].at PROVE PositionAt(track, t) = track[1].point
  <2>1. CASE Len(track) = 1
    BY <1>2, <1>3, <1>5, <2>1, TrackType
  <2>2. CASE Len(track) # 1
    <3>0. Len(track) \in Nat /\ Len(track) >= 1 /\ DOMAIN track = 1..Len(track)
      BY <1>2, TrackType
    <3>1. 2 \in 2..Len(track) /\ 2 - 1 = 1 /\ 2 \in DOMAIN track
      BY <2>2, <3>0
    <3>2. PICK v \in Int : track[2].point - track[1].point = v * (track[2].at - track[1].at)
      BY <3>1, LegSpeed
    <3>3. track[1].at =< t /\ t =< track[2].at
      BY <1>2, <1>5, <3>1, TrackInOrder, TrackType
    <3>4. PositionAt(track, t) = track[1].point + v * (t - track[1].at)
      BY <3>1, <3>2, <3>3, PositionOnLeg
    <3>5. track[1].point \in Nat
      BY <1>2, TrackType, WhereaboutsAssumption
    <3>6. t - track[1].at = 0
      BY <1>5
    <3>7. v * (t - track[1].at) = 0
      BY <3>6
    <3> QED BY <3>4, <3>5, <3>7
  <2> QED BY <2>1, <2>2
<1> QED BY <1>2, <1>3, <1>4, <1>5, TrackType

\* At any time a unit stands at an end of its track or travels one of its legs.
LEMMA OnSomeLeg ==
  ASSUME NEW track, IsTrack(track), track # <<>>, NEW t \in Nat
  PROVE  \/ t < track[1].at \/ track[Len(track)].at =< t
         \/ \E i \in 2..Len(track) : track[i - 1].at =< t /\ t < track[i].at
<1> SUFFICES ASSUME track[1].at =< t, t < track[Len(track)].at
             PROVE  \E i \in 2..Len(track) : track[i - 1].at =< t /\ t < track[i].at
  BY TrackType
<1>1. PICK after : after = {k \in DOMAIN track : track[k].at > t}
  OBVIOUS
<1>2. after \subseteq Nat /\ after \subseteq DOMAIN track /\ Len(track) \in after /\ 1 \notin after
  BY <1>1, TrackType
<1>3. PICK i : i = Min(after)
  OBVIOUS
<1>4. i \in after /\ \A k \in after : i =< k
  BY <1>2, <1>3, MinIs
<1>5. i \in 2..Len(track) /\ i - 1 \in DOMAIN track /\ i - 1 \notin after
  BY <1>2, <1>4, TrackType
<1> QED BY <1>1, <1>4, <1>5, TrackType

\* A unit is in the drift.
LEMMA PositionInDrift ==
  ASSUME NEW track, IsTrack(track), track # <<>>, NEW t \in Nat
  PROVE  PositionAt(track, t) \in Drift
<1>1. CASE t < track[1].at \/ track[Len(track)].at =< t
  BY <1>1, PositionAtEnds, TrackType
<1>2. CASE \E i \in 2..Len(track) : track[i - 1].at =< t /\ t < track[i].at
  <2>1. PICK i \in 2..Len(track) : track[i - 1].at =< t /\ t < track[i].at
    BY <1>2
  <2>2. i \in DOMAIN track /\ i - 1 \in DOMAIN track
    BY TrackType
  <2>3. PICK v \in Int : track[i].point - track[i - 1].point = v * (track[i].at - track[i - 1].at)
    BY LegSpeed
  <2>4. PositionAt(track, t) = track[i - 1].point + v * (t - track[i - 1].at)
    <3>1. track[i].at \in Nat /\ t =< track[i].at
      BY <2>1, <2>2, TrackType
    <3> QED BY <2>1, <2>3, <3>1, PositionOnLeg
  <2>5. PICK n : n = t - track[i - 1].at
    OBVIOUS
  <2>6. PICK d : d = track[i].at - track[i - 1].at
    OBVIOUS
  <2>7. n \in Nat /\ d \in Nat /\ n =< d
    BY <2>1, <2>2, <2>5, <2>6, TrackType
  <2>8. PICK a : a = track[i - 1].point
    OBVIOUS
  <2>9. PICK b : b = track[i].point
    OBVIOUS
  <2>10. a \in Drift /\ b \in Drift /\ a \in Nat /\ b \in Nat /\ b - a = v * d
    BY <2>2, <2>3, <2>6, <2>8, <2>9, TrackType, WhereaboutsAssumption
  <2>11. a + v * n \in a..b \/ a + v * n \in b..a
    BY <2>7, <2>10, Product
  <2>12. a..b \subseteq Drift /\ b..a \subseteq Drift
    BY <2>10, WhereaboutsAssumption
  <2> QED BY <2>4, <2>5, <2>8, <2>11, <2>12
<1> QED BY <1>1, <1>2, OnSomeLeg


\* At the time of a waypoint a unit is at it.
LEMMA AtWaypoint ==
  ASSUME NEW track, IsTrack(track), NEW k \in DOMAIN track
  PROVE  PositionAt(track, track[k].at) = track[k].point
<1>1. DOMAIN track = 1..Len(track) /\ Len(track) \in Nat /\ track[k].at \in Nat /\ track # <<>>
  BY TrackType
<1>2. CASE k = 1
  BY <1>1, <1>2, PositionAtEnds, TrackType
<1>3. CASE k # 1
  <2>1. k \in 2..Len(track) /\ k - 1 \in DOMAIN track
    BY <1>1, <1>3
  <2>2. PICK v \in Int : track[k].point - track[k - 1].point = v * (track[k].at - track[k - 1].at)
    BY <2>1, LegSpeed
  <2>3. track[k - 1].at \in Nat /\ track[k - 1].at =< track[k].at /\ track[k].at =< track[k].at
    <3>1. track[k - 1].at \in Nat /\ k - 1 < k
      BY <1>1, <2>1, TrackType
    <3> QED BY <1>1, <2>1, <3>1, TrackInOrder
  <2>4. PositionAt(track, track[k].at) = track[k - 1].point + v * (track[k].at - track[k - 1].at)
    BY <1>1, <2>1, <2>2, <2>3, PositionOnLeg
  <2>5. track[k].point \in Nat /\ track[k - 1].point \in Nat
    BY <2>1, TrackType, WhereaboutsAssumption
  <2> QED BY <2>2, <2>4, <2>5
<1> QED BY <1>2, <1>3

-----------------------------------------------------------------------------
(* How far a unit gets.                                                     *)

\* Distance is a metric's: natural, symmetric, and one of the two differences.
LEMMA DistanceIs ==
  ASSUME NEW p \in Int, NEW q \in Int
  PROVE  /\ Distance(p, q) \in Nat /\ Distance(p, q) = Distance(q, p)
         /\ q - p =< Distance(p, q) /\ p - q =< Distance(p, q)
         /\ Distance(p, q) = q - p \/ Distance(p, q) = p - q
BY DEF Distance

\* No leg is travelled faster than v.
Paced(track, v) ==
  \A i \in 2..Len(track) :
    (Distance(track[i].point, track[i - 1].point) \div (track[i].at - track[i - 1].at)) =< v

\* In one instant nobody moves farther than their fastest leg.
LEMMA StepIsShort ==
  ASSUME NEW track, IsTrack(track), track # <<>>, NEW v \in Nat, Paced(track, v), NEW t \in Nat
  PROVE  Distance(PositionAt(track, t), PositionAt(track, t + 1)) =< v
<1>0. t + 1 \in Nat /\ track[1].at \in Nat /\ track[Len(track)].at \in Nat
      /\ track[1].point \in Nat /\ track[Len(track)].point \in Nat
  <2>1. 1 \in DOMAIN track /\ Len(track) \in DOMAIN track
    BY TrackType
  <2>2. track[1].point \in Drift /\ track[Len(track)].point \in Drift
    BY <2>1, TrackType
  <2>3. track[1].at \in Nat /\ track[Len(track)].at \in Nat
    BY <2>1, TrackType
  <2>4. track[1].point \in Nat /\ track[Len(track)].point \in Nat
    BY <2>2, WhereaboutsAssumption
  <2> QED BY <2>3, <2>4
<1>1. CASE t < track[1].at
  <2>1. PositionAt(track, t) = track[1].point /\ PositionAt(track, t + 1) = track[1].point
    BY <1>0, <1>1, PositionAtEnds
  <2> QED BY <1>0, <2>1 DEF Distance
<1>2. CASE track[Len(track)].at =< t
  <2>1. /\ PositionAt(track, t) = track[Len(track)].point
        /\ PositionAt(track, t + 1) = track[Len(track)].point
    BY <1>0, <1>2, PositionAtEnds
  <2> QED BY <1>0, <2>1 DEF Distance
<1>3. ASSUME NEW i \in 2..Len(track), track[i - 1].at =< t, t < track[i].at
      PROVE  Distance(PositionAt(track, t), PositionAt(track, t + 1)) =< v
  <2>1. PICK w \in Int :
           /\ track[i].point - track[i - 1].point = w * (track[i].at - track[i - 1].at)
           /\ LET q == Distance(track[i].point, track[i - 1].point)
                         \div (track[i].at - track[i - 1].at)
              IN q \in Nat /\ w =< q /\ -w =< q
    BY LegSpeed
  <2>2. i \in DOMAIN track /\ i - 1 \in DOMAIN track
    BY TrackType
  <2>3. PICK a : a = track[i - 1].point
    OBVIOUS
  <2>4. PICK s : s = track[i - 1].at
    OBVIOUS
  <2>5. a \in Nat /\ s \in Nat /\ track[i].at \in Nat
    BY <2>2, <2>3, <2>4, TrackType, WhereaboutsAssumption
  <2>6. t =< track[i].at /\ track[i - 1].at =< t + 1 /\ t + 1 =< track[i].at
    BY <1>3, <2>4, <2>5
  <2>7. PositionAt(track, t) = a + w * (t - s)
    BY <1>3, <2>1, <2>3, <2>4, <2>6, PositionOnLeg
  <2>8. PositionAt(track, t + 1) = a + w * ((t + 1) - s)
    BY <1>0, <2>1, <2>3, <2>4, <2>6, PositionOnLeg
  <2>9. w * ((t + 1) - s) = w * (t - s) + w /\ w * (t - s) \in Int
    BY <2>5
  <2>10. PICK x \in Int : x = w * (t - s)
    BY <2>9
  <2>11. w =< v /\ -w =< v
    <3>1. PICK q : q = Distance(track[i].point, track[i - 1].point)
                         \div (track[i].at - track[i - 1].at)
      OBVIOUS
    <3>2. q \in Nat /\ w =< q /\ -w =< q
      BY <2>1, <3>1
    <3>3. q =< v
      BY <3>1 DEF Paced
    <3> QED BY <3>2, <3>3
  <2>12. PositionAt(track, t) = a + x /\ PositionAt(track, t + 1) = a + (x + w)
    BY <2>7, <2>8, <2>9, <2>10
  <2>13. Distance(a + x, a + (x + w)) =< v
    BY <2>5, <2>11 DEF Distance
  <2> QED BY <2>12, <2>13
<1> QED BY <1>1, <1>2, <1>3, OnSomeLeg

\* Nor, in several, farther than that for each of them.
LEMMA StepsAreShort ==
  ASSUME NEW track, IsTrack(track), track # <<>>, NEW v \in Nat, Paced(track, v), NEW t \in Nat,
         NEW n \in Nat
  PROVE  Distance(PositionAt(track, t), PositionAt(track, t + n)) =< v * n
<1> DEFINE P(m) == PositionAt(track, t + m)
           S == {m \in Nat : Distance(P(0), P(m)) =< v * m}
<1>1. \A m \in Nat : P(m) \in Nat
  <2> TAKE m \in Nat
  <2>1. t + m \in Nat
    OBVIOUS
  <2>2. P(m) \in Drift
    BY <2>1, PositionInDrift
  <2> QED BY <2>2, WhereaboutsAssumption
<1>2. 0 \in S
  <2>1. v * 0 = 0 /\ P(0) \in Nat
    BY <1>1
  <2>2. Distance(P(0), P(0)) = 0
    BY <2>1 DEF Distance
  <2> QED BY <2>1, <2>2
<1>3. ASSUME NEW m \in Nat, m \in S PROVE m + 1 \in S
  <2>1. PICK a : a = P(0)
    OBVIOUS
  <2>2. PICK b : b = P(m)
    OBVIOUS
  <2>3. PICK c : c = P(m + 1)
    OBVIOUS
  <2>4. a \in Nat /\ b \in Nat /\ c \in Nat
    <3>1. 0 \in Nat /\ m + 1 \in Nat
      OBVIOUS
    <3> HIDE DEF P
    <3> QED BY <1>1, <2>1, <2>2, <2>3, <3>1
  <2>5. Distance(a, b) =< v * m
    BY <1>3, <2>1, <2>2
  <2>6. Distance(b, c) =< v
    <3>1. t + m \in Nat /\ (t + m) + 1 = t + (m + 1)
      OBVIOUS
    <3> QED BY <2>2, <2>3, <3>1, StepIsShort
  <2>7. v * (m + 1) = v * m + v /\ v * m \in Nat
    OBVIOUS
  <2>8. PICK x \in Nat : x = v * m
    BY <2>7
  <2>9. Distance(a, c) =< x + v
    BY <2>4, <2>5, <2>6, <2>8 DEF Distance
  <2> QED BY <2>1, <2>3, <2>7, <2>8, <2>9
<1>4. Nat \subseteq S
  <2> HIDE DEF S
  <2> QED BY <1>2, <1>3, Induction
<1>5. t + 0 = t
  OBVIOUS
<1> QED BY <1>4, <1>5

-----------------------------------------------------------------------------
(* Grounds.                                                                 *)

\* A finite set of numbers is bounded.
LEMMA HasBounds ==
  ASSUME NEW S, IsFiniteSet(S), S \subseteq Nat, S # {}
  PROVE  \E b \in Nat : \A x \in S : x =< b
<1> DEFINE Bounded(T) == \E b \in Nat : \A x \in T : x =< b
           N == {n \in Nat : \A T \in SUBSET Nat :
                    IsFiniteSet(T) /\ Cardinality(T) = n => Bounded(T)}
<1>1. 0 \in N
  BY FS_EmptySet
<1>2. ASSUME NEW n \in Nat, n \in N PROVE n + 1 \in N
  <2> SUFFICES ASSUME NEW T \in SUBSET Nat, IsFiniteSet(T), Cardinality(T) = n + 1
               PROVE  Bounded(T)
    OBVIOUS
  <2>0. T # {}
    <3>1. n + 1 # 0
      OBVIOUS
    <3> QED BY <3>1, FS_EmptySet
  <2>1. PICK x \in T : TRUE
    BY <2>0
  <2>2. IsFiniteSet(T \ {x}) /\ Cardinality(T \ {x}) = (n + 1) - 1
    BY <2>1, FS_RemoveElement
  <2>3. Bounded(T \ {x})
    <3>1. T \ {x} \in SUBSET Nat /\ Cardinality(T \ {x}) = n
      BY <2>2
    <3> QED BY <1>2, <2>2, <3>1
  <2>4. PICK b \in Nat : \A y \in T \ {x} : y =< b
    BY <2>3
  <2>5. b + x \in Nat /\ \A y \in T : y =< b + x
    BY <2>1, <2>4
  <2> QED BY <2>5
<1>3. Nat \subseteq N
  <2> HIDE DEF N
  <2> QED BY <1>1, <1>2, Induction
<1>4. Cardinality(S) \in Nat
  BY FS_CardinalityType
<1> QED BY <1>3, <1>4

\* The ground of a finite set of places.
LEMMA GroundIs ==
  ASSUME NEW S, IsFiniteSet(S), S \subseteq Drift, S # {}
  PROVE  /\ Min(S) \in S /\ Max(S) \in S
         /\ \A x \in S : Min(S) =< x /\ x =< Max(S)
         /\ Ground(S) \subseteq Drift /\ S \subseteq Ground(S)
<1>1. S \subseteq Nat
  BY WhereaboutsAssumption
<1>2. Min(S) \in S /\ \A x \in S : Min(S) =< x
  BY <1>1, MinIs
<1>3. PICK b \in Nat : \A x \in S : x =< b
  BY <1>1, HasBounds
<1>4. S \subseteq Int
  BY <1>1
<1>5. Max(S) \in S /\ \A x \in S : x =< Max(S)
  <2>1. b \in Int
    BY <1>3
  <2> QED BY <1>3, <1>4, <2>1, MaxIs
<1>6. Ground(S) \subseteq Drift
  BY <1>2, <1>5, WhereaboutsAssumption DEF Ground
<1>7. S \subseteq Ground(S)
  BY <1>1, <1>2, <1>5 DEF Ground
<1> QED BY <1>2, <1>5, <1>6, <1>7

\* Everywhere in S is within v of somewhere in T.
Near(S, T, v) == \A p \in S : \E q \in T : Distance(p, q) =< v

\* The ground between places moves no more than the places do.
LEMMA GroundMoves ==
  ASSUME NEW S, IsFiniteSet(S), S \subseteq Drift, S # {},
         NEW T, IsFiniteSet(T), T \subseteq Drift, T # {},
         NEW v \in Nat, Near(S, T, v)
  PROVE  Near(Ground(S), Ground(T), v)
<1> SUFFICES ASSUME NEW p \in Ground(S)
             PROVE  \E q \in Ground(T) : Distance(p, q) =< v
  BY DEF Near
<1>1. PICK a \in T : Distance(Min(S), a) =< v
  BY GroundIs DEF Near
<1>2. PICK b \in T : Distance(Max(S), b) =< v
  BY GroundIs DEF Near
<1>3. PICK l : l = Min(T)
  OBVIOUS
<1>4. PICK h : h = Max(T)
  OBVIOUS
<1>5. l =< a /\ b =< h /\ l =< b /\ l \in T /\ h \in T
  BY <1>3, <1>4, GroundIs
<1>6. PICK m : m = Min(S)
  OBVIOUS
<1>7. PICK n : n = Max(S)
  OBVIOUS
<1>8. m \in S /\ n \in S /\ m =< p /\ p =< n /\ p \in Int
  BY <1>6, <1>7, GroundIs DEF Ground
<1>9. m \in Nat /\ n \in Nat /\ l \in Nat /\ h \in Nat /\ a \in Nat /\ b \in Nat
  BY <1>5, <1>8, WhereaboutsAssumption
<1>10. a - m =< v /\ n - b =< v
  <2>1. a - m =< Distance(m, a) /\ n - b =< Distance(n, b)
    BY <1>9 DEF Distance
  <2>2. Distance(m, a) \in Nat /\ Distance(n, b) \in Nat
    BY <1>9 DEF Distance
  <2>3. Distance(m, a) =< v /\ Distance(n, b) =< v
    BY <1>1, <1>2, <1>6, <1>7
  <2> QED BY ONLY <1>9, <2>1, <2>2, <2>3, v \in Nat
<1>11. PICK q : q = IF p < l THEN l ELSE IF h < p THEN h ELSE p
  OBVIOUS
<1>12. q \in l..h /\ Distance(p, q) =< v
  <2>1. l =< h
    BY <1>5, <1>9
  <2> QED BY ONLY <1>5, <1>8, <1>9, <1>10, <1>11, <2>1, v \in Nat DEF Distance
<1> QED BY <1>3, <1>4, <1>12 DEF Ground

\* What Route draws its ground around.
Stops(track, at, lookahead) ==
  {PositionAt(track, at), PositionAt(track, at + lookahead)} \cup
  {track[i].point : i \in {k \in DOMAIN track : at < track[k].at /\ track[k].at < at + lookahead}}

\* The stops of a route are places, and the route is the ground between them.
LEMMA StopsType ==
  ASSUME NEW track, IsTrack(track), track # <<>>, NEW at \in Nat, NEW lookahead \in Nat
  PROVE  LET S == Stops(track, at, lookahead)
         IN IsFiniteSet(S) /\ S \subseteq Drift /\ S # {} /\ Route(track, at, lookahead) = Ground(S)
<1>1. PICK K : K = {k \in DOMAIN track : at < track[k].at /\ track[k].at < at + lookahead}
  OBVIOUS
<1>2. PICK W : W = {track[i].point : i \in K}
  OBVIOUS
<1>3. IsFiniteSet(K)
  <2>0. Len(track) \in Int /\ 1 \in Int /\ DOMAIN track = 1..Len(track)
    BY TrackType
  <2>1. IsFiniteSet(1..Len(track)) /\ K \in SUBSET (1..Len(track))
    BY <1>1, <2>0, FS_Interval
  <2> QED BY <2>1, FS_Subset
<1>4. IsFiniteSet(W)
  <2>1. PICK f : f = [i \in K |-> track[i].point]
    OBVIOUS
  <2>2. f \in Surjection(K, W)
    BY <1>2, <2>1 DEF Surjection
  <2> QED BY <1>3, <2>2, FS_Surjection
<1>5. PICK E : E = {PositionAt(track, at), PositionAt(track, at + lookahead)}
  OBVIOUS
<1>6. IsFiniteSet(E)
  <2>1. IsFiniteSet({PositionAt(track, at)})
    BY FS_Singleton
  <2>2. IsFiniteSet({PositionAt(track, at)} \cup {PositionAt(track, at + lookahead)})
    BY <2>1, FS_AddElement
  <2>3. E = {PositionAt(track, at)} \cup {PositionAt(track, at + lookahead)}
    BY <1>5
  <2> QED BY <2>2, <2>3
<1>7. IsFiniteSet(E \cup W)
  BY <1>4, <1>6, FS_Union
<1>8. Stops(track, at, lookahead) = E \cup W
  BY <1>1, <1>2, <1>5 DEF Stops
<1>9. E \subseteq Drift /\ E # {}
  <2>1. at + lookahead \in Nat
    OBVIOUS
  <2>2. PositionAt(track, at) \in Drift /\ PositionAt(track, at + lookahead) \in Drift
    BY <2>1, PositionInDrift
  <2> QED BY <1>5, <2>2
<1>10. W \subseteq Drift
  BY <1>1, <1>2, TrackType
<1> QED BY <1>7, <1>8, <1>9, <1>10 DEF Route, Stops

\* From one instant to the next a route's stops move with its ends: a stop
\* left behind, or reached, is where the unit then is.
LEMMA StopsMove ==
  ASSUME NEW track, IsTrack(track), track # <<>>, NEW v \in Nat, Paced(track, v),
         NEW at \in Nat, NEW lookahead \in Nat
  PROVE  /\ Near(Stops(track, at, lookahead), Stops(track, at + 1, lookahead), v)
         /\ Near(Stops(track, at + 1, lookahead), Stops(track, at, lookahead), v)
<1>1. PICK end : end = at + lookahead
  OBVIOUS
<1>2. end \in Nat /\ at + 1 \in Nat /\ end + 1 \in Nat /\ (at + 1) + lookahead = end + 1
  BY <1>1
<1>3. PICK P : P = [t \in Nat |-> PositionAt(track, t)]
  OBVIOUS
<1>4. \A t \in Nat : P[t] \in Nat
  BY <1>3, PositionInDrift, WhereaboutsAssumption
<1>5. \A t \in Nat : Distance(P[t], P[t + 1]) =< v
  BY <1>3, StepIsShort
<1>6. \A t \in Nat : Distance(P[t + 1], P[t]) =< v
  <2> TAKE t \in Nat
  <2>1. P[t] \in Int /\ P[t + 1] \in Int
    BY <1>4
  <2> QED BY <1>5, <2>1, DistanceIs
<1>7. \A k \in DOMAIN track : track[k].at \in Nat /\ P[track[k].at] = track[k].point
  BY <1>3, AtWaypoint, TrackType
<1>8. \A k \in DOMAIN track : Distance(track[k].point, track[k].point) =< v
  <2> TAKE k \in DOMAIN track
  <2>1. track[k].point \in Nat
    BY TrackType, WhereaboutsAssumption
  <2> QED BY <2>1 DEF Distance
<1>9. \A p : p \in Stops(track, at, lookahead) <=>
        \/ p = P[at] \/ p = P[end]
        \/ \E k \in DOMAIN track : at < track[k].at /\ track[k].at < end /\ p = track[k].point
  BY <1>1, <1>2, <1>3 DEF Stops
<1>10. \A p : p \in Stops(track, at + 1, lookahead) <=>
         \/ p = P[at + 1] \/ p = P[end + 1]
         \/ \E k \in DOMAIN track :
               at + 1 < track[k].at /\ track[k].at < end + 1 /\ p = track[k].point
  BY <1>2, <1>3 DEF Stops
<1>11. ASSUME NEW p \in Stops(track, at, lookahead)
       PROVE  \E q \in Stops(track, at + 1, lookahead) : Distance(p, q) =< v
  <2>1. CASE p = P[at] \/ p = P[end]
    BY <1>2, <1>5, <1>10, <2>1
  <2>2. CASE \E k \in DOMAIN track : at < track[k].at /\ track[k].at < end /\ p = track[k].point
    <3>1. PICK k \in DOMAIN track : at < track[k].at /\ track[k].at < end /\ p = track[k].point
      BY <2>2
    <3>2. track[k].at = at + 1 \/ (at + 1 < track[k].at /\ track[k].at < end + 1)
      BY <1>2, <1>7, <3>1
    <3>3. p \in Stops(track, at + 1, lookahead)
      BY <1>7, <1>10, <3>1, <3>2
    <3> QED BY <1>8, <3>1, <3>3
  <2> QED BY <1>9, <2>1, <2>2
<1>12. ASSUME NEW p \in Stops(track, at + 1, lookahead)
       PROVE  \E q \in Stops(track, at, lookahead) : Distance(p, q) =< v
  <2>1. CASE p = P[at + 1] \/ p = P[end + 1]
    BY <1>2, <1>6, <1>9, <2>1
  <2>2. CASE \E k \in DOMAIN track :
               at + 1 < track[k].at /\ track[k].at < end + 1 /\ p = track[k].point
    <3>1. PICK k \in DOMAIN track :
            at + 1 < track[k].at /\ track[k].at < end + 1 /\ p = track[k].point
      BY <2>2
    <3>2. track[k].at = end \/ (at < track[k].at /\ track[k].at < end)
      BY <1>2, <1>7, <3>1
    <3>3. p \in Stops(track, at, lookahead)
      BY <1>7, <1>9, <3>1, <3>2
    <3> QED BY <1>8, <3>1, <3>3
  <2> QED BY <1>10, <2>1, <2>2
<1> QED BY <1>11, <1>12 DEF Near

\* In one instant a route gains and loses nothing farther than its unit moves.
LEMMA RouteMoves ==
  ASSUME NEW track, IsTrack(track), track # <<>>, NEW v \in Nat, Paced(track, v),
         NEW at \in Nat, NEW lookahead \in Nat
  PROVE  /\ Near(Route(track, at, lookahead), Route(track, at + 1, lookahead), v)
         /\ Near(Route(track, at + 1, lookahead), Route(track, at, lookahead), v)
<1>1. PICK S : S = Stops(track, at, lookahead)
  OBVIOUS
<1>2. PICK T : T = Stops(track, at + 1, lookahead)
  OBVIOUS
<1>3. at + 1 \in Nat
  OBVIOUS
<1>4. IsFiniteSet(S) /\ S \subseteq Drift /\ S # {} /\ Route(track, at, lookahead) = Ground(S)
  BY <1>1, StopsType
<1>5. IsFiniteSet(T) /\ T \subseteq Drift /\ T # {} /\ Route(track, at + 1, lookahead) = Ground(T)
  BY <1>2, <1>3, StopsType
<1>6. Near(S, T, v) /\ Near(T, S, v)
  BY <1>1, <1>2, StopsMove
<1> QED BY <1>4, <1>5, <1>6, GroundMoves

\* Nor does the ground within a distance of it.
LEMMA WithinMoves ==
  ASSUME NEW a \in Drift, NEW b \in Drift, NEW v \in Nat, Distance(a, b) =< v, NEW d \in Nat
  PROVE  Near(Within(a, d), Within(b, d), v)
<1> SUFFICES ASSUME NEW p \in Within(a, d)
             PROVE  \E q \in Within(b, d) : Distance(p, q) =< v
  BY DEF Near
<1>1. p \in Drift /\ Distance(a, p) =< d
  BY DEF Within
<1>2. a \in Nat /\ b \in Nat /\ p \in Nat
  BY <1>1, WhereaboutsAssumption
<1>3. PICK q : q = IF b + d < p THEN b + d ELSE IF p + d < b THEN b - d ELSE p
  OBVIOUS
<1>4. Distance(b, q) =< d /\ Distance(p, q) =< v /\ (q \in b..p \/ q \in p..b)
  BY <1>1, <1>2, <1>3 DEF Distance
<1>5. b..p \subseteq Drift /\ p..b \subseteq Drift
  BY <1>1, WhereaboutsAssumption
<1>6. q \in Within(b, d)
  BY <1>4, <1>5 DEF Within
<1> QED BY <1>4, <1>6

\* A world's tracks, whose units go no faster than v.
World(ways, v) == \A u \in Units : IsTrack(ways[u]) /\ Paced(ways[u], v)

\* Nor, over all units seen, the ground they may come to (observe.go Reach).
LEMMA ReachMoves ==
  ASSUME NEW ways, NEW v \in Nat, World(ways, v), NEW knowledge, NEW protect,
         NEW at \in Nat, NEW lookahead \in Nat
  PROVE  /\ Near(Reach(knowledge, ways, at, lookahead, protect),
                 Reach(knowledge, ways, at + 1, lookahead, protect), v)
         /\ Near(Reach(knowledge, ways, at + 1, lookahead, protect),
                 Reach(knowledge, ways, at, lookahead, protect), v)
<1>1. at + 1 \in Nat
  OBVIOUS
<1>2. ASSUME NEW u \in Seen(ways, protect)
      PROVE  /\ Near(UnitReach(knowledge, ways, u, at, lookahead),
                     UnitReach(knowledge, ways, u, at + 1, lookahead), v)
             /\ Near(UnitReach(knowledge, ways, u, at + 1, lookahead),
                     UnitReach(knowledge, ways, u, at, lookahead), v)
  <2>1. IsTrack(ways[u]) /\ Paced(ways[u], v) /\ ways[u] # <<>>
    BY DEF Seen, World
  <2>2. CASE knowledge = "truth" \/ Kind[u] # "person"
    BY <2>1, <2>2, RouteMoves DEF UnitReach
  <2>3. CASE ~ (knowledge = "truth" \/ Kind[u] # "person")
    <3>1. PICK a : a = PositionAt(ways[u], at)
      OBVIOUS
    <3>2. PICK b : b = PositionAt(ways[u], at + 1)
      OBVIOUS
    <3>3. a \in Drift /\ b \in Drift
      BY <1>1, <2>1, <3>1, <3>2, PositionInDrift
    <3>4. Distance(a, b) =< v
      BY <2>1, <3>1, <3>2, StepIsShort
    <3>5. Distance(b, a) =< v
      <4>1. a \in Int /\ b \in Int
        BY <3>3, WhereaboutsAssumption
      <4> QED BY <3>4, <4>1, DistanceIs
    <3>6. Walking * lookahead \in Nat
      BY WhereaboutsAssumption
    <3> QED BY <2>3, <3>1, <3>2, <3>3, <3>4, <3>5, <3>6, WithinMoves DEF UnitReach
  <2> QED BY <2>2, <2>3
<1> QED BY <1>2 DEF Near, Reach

\* That ground and their positions are places of the drift, and there are
\* none only if nobody is seen.
LEMMA ReachIs ==
  ASSUME NEW ways, \A u \in Units : IsTrack(ways[u]), NEW knowledge, NEW protect,
         NEW at \in Nat, NEW lookahead \in Nat
  PROVE  /\ Reach(knowledge, ways, at, lookahead, protect) \subseteq Drift
         /\ Reach(knowledge, ways, at, lookahead, protect) = {} <=> Seen(ways, protect) = {}
         /\ Positions(ways, at, protect) \subseteq Drift
         /\ Positions(ways, at, protect) = {} <=> Seen(ways, protect) = {}
<1>1. ASSUME NEW u \in Seen(ways, protect)
      PROVE  /\ UnitReach(knowledge, ways, u, at, lookahead) \subseteq Drift
             /\ PositionAt(ways[u], at) \in UnitReach(knowledge, ways, u, at, lookahead)
             /\ PositionAt(ways[u], at) \in Drift
  <2>1. IsTrack(ways[u]) /\ ways[u] # <<>>
    BY DEF Seen
  <2>2. PositionAt(ways[u], at) \in Drift
    BY <2>1, PositionInDrift
  <2>3. CASE knowledge = "truth" \/ Kind[u] # "person"
    <3>1. PICK S : S = Stops(ways[u], at, lookahead)
      OBVIOUS
    <3>2. IsFiniteSet(S) /\ S \subseteq Drift /\ S # {} /\ Route(ways[u], at, lookahead) = Ground(S)
      BY <2>1, <3>1, StopsType
    <3>3. PositionAt(ways[u], at) \in S
      BY <3>1 DEF Stops
    <3>4. Ground(S) \subseteq Drift /\ S \subseteq Ground(S)
      BY <3>2, GroundIs
    <3> QED BY <2>2, <2>3, <3>2, <3>3, <3>4 DEF UnitReach
  <2>4. CASE ~ (knowledge = "truth" \/ Kind[u] # "person")
    <3>1. PositionAt(ways[u], at) \in Nat /\ Walking * lookahead \in Nat
      <4>1. Walking \in Nat
        BY WhereaboutsAssumption
      <4>2. Walking * lookahead \in Nat
        BY <4>1
      <4>3. PositionAt(ways[u], at) \in Nat
        BY <2>2, PlacesAreWhole
      <4> QED BY <4>2, <4>3
    <3>2. Distance(PositionAt(ways[u], at), PositionAt(ways[u], at)) =< Walking * lookahead
      BY <3>1 DEF Distance
    <3> QED BY <2>2, <2>4, <3>2 DEF UnitReach, Within
  <2> QED BY <2>2, <2>3, <2>4
<1>2. PICK R : R = Reach(knowledge, ways, at, lookahead, protect)
  OBVIOUS
<1>3. R \subseteq Drift /\ (R = {} <=> Seen(ways, protect) = {})
  BY <1>1, <1>2 DEF Reach
<1>4. /\ Positions(ways, at, protect) \subseteq Drift
      /\ Positions(ways, at, protect) = {} <=> Seen(ways, protect) = {}
  BY <1>1 DEF Positions
<1> QED BY <1>2, <1>3, <1>4

\* A unit's own route has every place it is at on the way.
LEMMA OnRoute ==
  ASSUME NEW track, IsTrack(track), track # <<>>, NEW at \in Nat, NEW lookahead \in Nat,
         NEW t \in at..(at + lookahead)
  PROVE  PositionAt(track, t) \in Route(track, at, lookahead)
<1>1. PICK end : end = at + lookahead
  OBVIOUS
<1>2. end \in Nat /\ t \in Nat /\ at =< t /\ t =< end
  BY <1>1
<1>3. PICK S : S = Stops(track, at, lookahead)
  OBVIOUS
<1>4. S \subseteq Drift /\ S \subseteq Nat /\ Route(track, at, lookahead) = Ground(S)
  <2>1. S \subseteq Drift /\ Route(track, at, lookahead) = Ground(S)
    BY <1>3, StopsType
  <2> QED BY <2>1, WhereaboutsAssumption
<1>5. \A x \in S : Min(S) =< x /\ x =< Max(S) /\ Min(S) \in Nat /\ Max(S) \in Nat /\ x \in Ground(S)
  <2>1. IsFiniteSet(S) /\ S # {}
    BY <1>3, StopsType
  <2>2. /\ Min(S) \in S /\ Max(S) \in S /\ S \subseteq Ground(S)
        /\ \A x \in S : Min(S) =< x /\ x =< Max(S)
    BY <1>4, <2>1, GroundIs
  <2> QED BY <1>4, <2>2
<1>6. PositionAt(track, at) \in S /\ PositionAt(track, end) \in S
  BY <1>1, <1>3 DEF Stops
<1>7. \A k \in DOMAIN track : at < track[k].at /\ track[k].at < end => track[k].point \in S
  BY <1>1, <1>3 DEF Stops
<1>8. track[1].at \in Nat /\ track[Len(track)].at \in Nat
  BY TrackType
<1>9. CASE t = at \/ t = end
  BY <1>4, <1>5, <1>6, <1>9
<1>10. CASE t < track[1].at
  <2>1. at =< track[1].at /\ t =< track[1].at
    BY <1>2, <1>8, <1>10
  <2>2. PositionAt(track, t) = PositionAt(track, at)
    BY <1>2, <2>1, PositionAtEnds
  <2> QED BY <1>4, <1>5, <1>6, <2>2
<1>11. CASE track[Len(track)].at =< t
  <2>1. track[Len(track)].at =< end
    BY <1>2, <1>8, <1>11
  <2>2. PositionAt(track, t) = PositionAt(track, end)
    BY <1>2, <1>11, <2>1, PositionAtEnds
  <2> QED BY <1>4, <1>5, <1>6, <2>2
<1>12. ASSUME NEW i \in 2..Len(track), track[i - 1].at =< t, t < track[i].at, at < t, t < end
       PROVE  PositionAt(track, t) \in Route(track, at, lookahead)
  <2>1. i \in DOMAIN track /\ i - 1 \in DOMAIN track
    BY TrackType
  <2>2. PICK a : a = track[i - 1].at
    OBVIOUS
  <2>3. PICK b : b = track[i].at
    OBVIOUS
  <2>4. a \in Nat /\ b \in Nat /\ a =< t /\ t < b
    BY <1>12, <2>1, <2>2, <2>3, TrackType
  <2>5. PICK w \in Int : track[i].point - track[i - 1].point = w * (track[i].at - track[i - 1].at)
    BY LegSpeed
  <2>6. PICK p : p = track[i - 1].point
    OBVIOUS
  <2>7. p \in Nat
    BY <2>1, <2>6, TrackType, WhereaboutsAssumption
  <2>8. \A x \in Nat : a =< x /\ x =< b => PositionAt(track, x) = p + w * (x - a)
    BY <2>2, <2>3, <2>5, <2>6, PositionOnLeg
  <2>9. PICK lo : lo = IF at < a THEN a ELSE at
    OBVIOUS
  <2>10. PICK hi : hi = IF b < end THEN b ELSE end
    OBVIOUS
  <2>11. /\ lo \in Nat /\ hi \in Nat /\ lo =< t /\ t =< hi
         /\ a =< lo /\ lo =< b /\ a =< hi /\ hi =< b
    BY <1>2, <1>12, <2>4, <2>9, <2>10
  <2>12. PositionAt(track, lo) \in S
    <3>1. CASE at < a
      <4>1. a < end
        BY <1>2, <1>12, <2>4
      <4>2. track[i - 1].point \in S
        BY <1>7, <2>1, <2>2, <3>1, <4>1
      <4>3. PositionAt(track, a) = track[i - 1].point
        BY <2>1, <2>2, AtWaypoint
      <4> QED BY <2>9, <3>1, <4>2, <4>3
    <3> QED BY <1>6, <2>9, <3>1
  <2>13. PositionAt(track, hi) \in S
    <3>1. CASE b < end
      <4>1. at < b
        BY <1>2, <1>12, <2>4
      <4>2. track[i].point \in S
        BY <1>7, <2>1, <2>3, <3>1, <4>1
      <4>3. PositionAt(track, b) = track[i].point
        BY <2>1, <2>3, AtWaypoint
      <4> QED BY <2>10, <3>1, <4>2, <4>3
    <3> QED BY <1>6, <2>10, <3>1
  <2>14. PICK x \in Int : x = w * (lo - a)
    BY <2>4, <2>11
  <2>15. PICK y \in Int : y = w * (t - a)
    BY <1>2, <2>4
  <2>16. PICK z \in Int : z = w * (hi - a)
    BY <2>4, <2>11
  <2>17. (x =< y /\ y =< z) \/ (z =< y /\ y =< x)
    <3>1. PICK m : m = t - lo
      OBVIOUS
    <3>2. PICK n : n = hi - t
      OBVIOUS
    <3>3. m \in Nat /\ n \in Nat
      BY <1>2, <2>11, <3>1, <3>2
    <3>4. y - x = w * m
      BY <1>2, <2>4, <2>11, <2>14, <2>15, <3>1
    <3>5. z - y = w * n
      BY <1>2, <2>4, <2>11, <2>15, <2>16, <3>2
    <3>6. CASE 0 =< w
      <4>1. 0 =< w * m /\ 0 =< w * n
        BY <3>3, <3>6, Product
      <4> QED BY <2>14, <2>15, <2>16, <3>4, <3>5, <4>1
    <3>7. CASE w =< 0
      <4>1. w * m =< 0 /\ w * n =< 0
        BY <3>3, <3>7, Product
      <4> QED BY <2>14, <2>15, <2>16, <3>4, <3>5, <4>1
    <3> QED BY <3>6, <3>7
  <2>18. p + x \in S /\ p + z \in S /\ PositionAt(track, t) = p + y
    <3>1. t =< b
      BY <1>2, <2>4
    <3> QED BY <1>2, <2>4, <2>8, <2>11, <2>12, <2>13, <2>14, <2>15, <2>16, <3>1
  <2>19. p + y \in Min(S)..Max(S)
    <3>1. /\ Min(S) =< p + x /\ p + x =< Max(S) /\ Min(S) =< p + z /\ p + z =< Max(S)
          /\ Min(S) \in Nat /\ Max(S) \in Nat
      BY <1>5, <2>18
    <3> QED BY ONLY <2>7, <2>17, <3>1, x \in Int, y \in Int, z \in Int
  <2> QED BY <1>4, <2>18, <2>19 DEF Ground
<1>13. at < t \/ t = at
  BY <1>2
<1>14. t < end \/ t = end
  BY <1>2
<1> QED BY <1>2, <1>9, <1>10, <1>11, <1>12, <1>13, <1>14, OnSomeLeg

-----------------------------------------------------------------------------
(* Speeds.                                                                  *)

\* A function takes a finite set to a finite set.
LEMMA ImageIsFinite ==
  ASSUME NEW K, IsFiniteSet(K), NEW f
  PROVE  IsFiniteSet({f[x] : x \in K})
<1>1. PICK g : g = [x \in K |-> f[x]]
  OBVIOUS
<1>2. g \in Surjection(K, {f[x] : x \in K})
  BY <1>1 DEF Surjection
<1> QED BY <1>2, FS_Surjection

SpeedsOf(track) ==
  {Distance(track[i].point, track[i - 1].point) \div (track[i].at - track[i - 1].at)
     : i \in 2..Len(track)}

\* A track has finitely many speeds.
LEMMA SpeedsAre ==
  ASSUME NEW track, IsTrack(track)
  PROVE  IsFiniteSet(SpeedsOf(track)) /\ SpeedsOf(track) \subseteq Nat
<1>1. IsFiniteSet(2..Len(track))
  <2>1. Len(track) \in Int /\ 2 \in Int
    BY TrackType
  <2> QED BY <2>1, FS_Interval
<1>2. PICK f : f = [i \in 2..Len(track) |->
         Distance(track[i].point, track[i - 1].point) \div (track[i].at - track[i - 1].at)]
  OBVIOUS
<1>3. SpeedsOf(track) = {f[i] : i \in 2..Len(track)}
  BY <1>2 DEF SpeedsOf
<1>4. \A i \in 2..Len(track) : f[i] \in Nat
  BY <1>2, LegSpeed
<1> QED BY <1>1, <1>3, <1>4, ImageIsFinite

\* No unit is faster than the fastest.
LEMMA SpeedIs ==
  ASSUME NEW ways, \A u \in Units : IsTrack(ways[u])
  PROVE  /\ Fastest(ways) \in Nat /\ Speed(ways) \in Nat
         /\ \A u \in Units : Paced(ways[u], Fastest(ways)) /\ Paced(ways[u], Speed(ways))
<1>1. PICK G : G = {SpeedsOf(ways[u]) : u \in Units}
  OBVIOUS
<1>2. PICK F : F = {0} \cup UNION G
  OBVIOUS
<1>3. IsFiniteSet(G)
  <2>1. PICK f : f = [u \in Units |-> SpeedsOf(ways[u])]
    OBVIOUS
  <2>2. G = {f[u] : u \in Units}
    BY <1>1, <2>1
  <2> QED BY <2>2, ImageIsFinite, WhereaboutsAssumption
<1>4. \A T \in G : IsFiniteSet(T) /\ T \subseteq Nat
  BY <1>1, SpeedsAre
<1>5. IsFiniteSet(UNION G) /\ UNION G \subseteq Nat
  BY <1>3, <1>4, FS_UNION
<1>6. IsFiniteSet(F) /\ F \subseteq Nat /\ F # {}
  <2>1. IsFiniteSet((UNION G) \cup {0})
    BY <1>5, FS_AddElement
  <2>2. F = (UNION G) \cup {0}
    BY <1>2
  <2> QED BY <1>5, <2>1, <2>2
<1>7. Fastest(ways) = Max(F)
  BY <1>1, <1>2 DEF Fastest, SpeedsOf
<1>8. Max(F) \in F /\ \A x \in F : x =< Max(F)
  <2>1. PICK b \in Nat : \A x \in F : x =< b
    BY <1>6, HasBounds
  <2>2. F \subseteq Int /\ b \in Int
    BY <1>6, <2>1
  <2> QED BY <1>6, <2>1, <2>2, MaxIs
<1>9. Fastest(ways) \in Nat
  BY <1>6, <1>7, <1>8
<1>10. \A u \in Units : Paced(ways[u], Fastest(ways))
  <2>1. \A u \in Units : SpeedsOf(ways[u]) \subseteq F
    BY <1>1, <1>2
  <2> QED BY <1>7, <1>8, <2>1 DEF Paced, SpeedsOf
<1>11. ASSUME NEW x \in Nat, NEW y \in Nat
       PROVE  Max({x, y}) \in Nat /\ x =< Max({x, y}) /\ y =< Max({x, y})
  <2>1. {x, y} \subseteq Int /\ {x, y} # {} /\ x + y \in Int /\ \A z \in {x, y} : z =< x + y
    OBVIOUS
  <2>2. Max({x, y}) \in {x, y} /\ \A z \in {x, y} : z =< Max({x, y})
    BY <2>1, MaxIs
  <2> QED BY <2>2
<1>12. PICK b : b = Max({Fastest(ways), Walking})
  OBVIOUS
<1>13. b \in Nat /\ Fastest(ways) =< b
  BY <1>9, <1>11, <1>12, WhereaboutsAssumption
<1>14. Speed(ways) = Max({Fastest(ways), b})
  BY <1>12 DEF Speed, ViewSpeed
<1>15. Speed(ways) \in Nat /\ Fastest(ways) =< Speed(ways)
  BY <1>9, <1>11, <1>13, <1>14
<1>16. \A u \in Units : Paced(ways[u], Speed(ways))
  <2> TAKE u \in Units
  <2>1. \A i \in 2..Len(ways[u]) :
          (Distance(ways[u][i].point, ways[u][i - 1].point)
             \div (ways[u][i].at - ways[u][i - 1].at)) \in Nat
    BY SpeedsAre DEF SpeedsOf
  <2> SUFFICES ASSUME NEW i \in 2..Len(ways[u])
               PROVE  (Distance(ways[u][i].point, ways[u][i - 1].point)
                         \div (ways[u][i].at - ways[u][i - 1].at)) =< Speed(ways)
    BY DEF Paced
  <2>2. PICK q : q = Distance(ways[u][i].point, ways[u][i - 1].point)
                       \div (ways[u][i].at - ways[u][i - 1].at)
    OBVIOUS
  <2>3. q \in Nat /\ q =< Fastest(ways)
    BY <1>10, <2>1, <2>2 DEF Paced
  <2>4. q =< Speed(ways)
    BY <1>9, <1>15, <2>3
  <2> QED BY <2>2, <2>4
<1> QED BY <1>9, <1>10, <1>15, <1>16

\* Wherever a unit is within a lookahead is ground it could come to.
LEMMA InReach ==
  ASSUME NEW ways, \A u \in Units : IsTrack(ways[u]), NEW knowledge, NEW protect,
         NEW at \in Nat, NEW lookahead \in Nat, NEW t \in at..(at + lookahead),
         NEW u \in Seen(ways, protect),
         Kind[u] = "person" => Paced(ways[u], Walking)
  PROVE  PositionAt(ways[u], t) \in Reach(knowledge, ways, at, lookahead, protect)
<1>1. IsTrack(ways[u]) /\ ways[u] # <<>> /\ u \in Units
  BY DEF Seen
<1>2. CASE knowledge = "truth" \/ Kind[u] # "person"
  <2>1. PositionAt(ways[u], t) \in Route(ways[u], at, lookahead)
    BY <1>1, OnRoute
  <2> QED BY <1>2, <2>1 DEF Reach, UnitReach
<1>3. CASE ~ (knowledge = "truth" \/ Kind[u] # "person")
  <2>1. PICK n : n = t - at
    OBVIOUS
  <2>2. n \in Nat /\ n =< lookahead /\ at + n = t /\ t \in Nat
    BY <2>1
  <2>3. Walking \in Nat /\ Paced(ways[u], Walking)
    BY <1>3, WhereaboutsAssumption
  <2>4. Distance(PositionAt(ways[u], at), PositionAt(ways[u], t)) =< Walking * n
    BY <1>1, <2>2, <2>3, StepsAreShort
  <2>5. Walking * n =< Walking * lookahead
    BY <2>2, <2>3, Product
  <2>6. PositionAt(ways[u], t) \in Drift /\ PositionAt(ways[u], at) \in Drift
    BY <1>1, <2>2, PositionInDrift
  <2>7. Distance(PositionAt(ways[u], at), PositionAt(ways[u], t)) \in Nat
    <3>1. PositionAt(ways[u], t) \in Int /\ PositionAt(ways[u], at) \in Int
      BY <2>6, PlacesAreWhole
    <3> QED BY <3>1, DistanceIs
  <2>8. Walking * n \in Nat /\ Walking * lookahead \in Nat
    BY <2>2, <2>3
  <2>9. Distance(PositionAt(ways[u], at), PositionAt(ways[u], t)) =< Walking * lookahead
    BY ONLY <2>4, <2>5, <2>7, <2>8
  <2>10. PositionAt(ways[u], t) \in Within(PositionAt(ways[u], at), Walking * lookahead)
    BY <2>6, <2>9 DEF Within
  <2> QED BY <1>3, <2>10 DEF Reach, UnitReach
<1> QED BY <1>2, <1>3

N == Cardinality(Events)

-----------------------------------------------------------------------------
(* Events and their jobs.                                                   *)

\* Events are numbered from one.
LEMMA EventsAre == N \in Nat /\ Events = 1..N
BY PlannerAssumption, FS_CardinalityType DEF N

\* Each job is one event's, and there are finitely many.
LEMMA JobsAre ==
  /\ \A e \in Events : JobsOf(e) \subseteq Jobs /\ IsFiniteSet(JobsOf(e))
  /\ \A d, e \in Events : d # e => JobsOf(d) \cap JobsOf(e) = {}
  /\ \A j \in Jobs : \E e \in Events : j \in JobsOf(e)
  /\ IsFiniteSet(Jobs)
<1>1. \A e \in Events : IsFiniteSet(JobsOf(e))
  <2> TAKE e \in Events
  <2>1. Picks[e] \in Int /\ 1 \in Int
    BY PlannerAssumption
  <2>2. IsFiniteSet(1..Picks[e])
    BY <2>1, FS_Interval
  <2>3. IsFiniteSet({e})
    BY FS_Singleton
  <2> QED BY <2>2, <2>3, FS_Product DEF JobsOf
<1>2. PICK f : f = [e \in Events |-> JobsOf(e)]
  OBVIOUS
<1>3. IsFiniteSet({f[e] : e \in Events})
  BY ImageIsFinite, PlannerAssumption
<1>4. Jobs = UNION {f[e] : e \in Events}
  BY <1>2 DEF Jobs
<1>5. IsFiniteSet(Jobs)
  BY <1>1, <1>2, <1>3, <1>4, FS_UNION
<1>6. \A d, e \in Events : d # e => JobsOf(d) \cap JobsOf(e) = {}
  BY DEF JobsOf
<1> QED BY <1>1, <1>5, <1>6 DEF Jobs

\* Settings in use are usable: whole numbers, decay below promotion.
LEMMA SettingsAre ==
  ASSUME NEW s \in SettingsSet
  PROVE  /\ s \in Settings /\ s.lookahead \in Nat /\ s.margin \in Nat /\ s.uncertainty \in Nat
         /\ s.decayTo \in Int /\ s.promoteTo \in Int /\ s.decayTo < s.promoteTo
         /\ s.protectLevel \in Levels /\ s.promoteLevel \in Levels
         /\ s.exempt \subseteq Classes /\ s.restore \in BOOLEAN
BY PlannerAssumption DEF Usable, Settings

-----------------------------------------------------------------------------
(* What a cycle is given, and what the planner keeps, by type.              *)

ACycle(c) ==
  /\ c.at \in Nat /\ c.settings \in SettingsSet /\ c.generation \in Nat
  /\ \A e \in Events : c.location[e] \in {NoLocation} \cup Estimates[e]

Judgements(t, g) ==
  [state: States, basis: Bases, at: 0..t, slack: Nat, from: Drift \cup {Nowhere},
   asked: States, generation: 0..g]
Strikes  == [measured: BOOLEAN, from: Drift \cup {Nowhere}, distance: Nat]
Requests == [priority: Int, exempt: BOOLEAN, moved: BOOLEAN]

Books(c) ==
  [judged: [Events -> Judgements(c.at, c.generation)], struck: [Events -> Strikes],
   requested: [Jobs -> Requests], altered: Int]

-----------------------------------------------------------------------------
(* Distances.                                                               *)

\* Nearest is the least distance to any of the places, and Far only if none is.
LEMMA NearestIs ==
  ASSUME NEW places, places \subseteq Drift, NEW p \in Drift
  PROVE  /\ Nearest(places, p) \in Nat
         /\ Nearest(places, p) = Far <=> places = {}
         /\ places # {} => /\ \E q \in places : Nearest(places, p) = Distance(p, q)
                           /\ \A q \in places : Nearest(places, p) =< Distance(p, q)
                           /\ Nearest(places, p) < Far
<1>1. CASE places = {}
  BY <1>1 DEF Nearest, Far
<1>2. CASE places # {}
  <2>1. PICK D : D = {Distance(p, q) : q \in places}
    OBVIOUS
  <2>2. D # {} /\ D \subseteq Nat
    <3>1. \A q \in places : Distance(p, q) \in Nat
      <4> TAKE q \in places
      <4>1. p \in Int /\ q \in Int
        BY PlacesAreWhole
      <4> QED BY <4>1, DistanceIs
    <3> QED BY <1>2, <2>1, <3>1
  <2>3. Min(D) \in D /\ \A x \in D : Min(D) =< x
    BY <2>2, MinIs
  <2>4. Nearest(places, p) = Min(D)
    BY <1>2, <2>1 DEF Nearest
  <2>5. \A q \in places : Distance(p, q) < Far
    BY PlannerAssumption
  <2>6. Nearest(places, p) < Far /\ Nearest(places, p) \in Nat
    BY <2>1, <2>2, <2>3, <2>4, <2>5
  <2>7. Nearest(places, p) # Far
    BY <2>6 DEF Far
  <2> QED BY <1>2, <2>1, <2>3, <2>4, <2>6, <2>7
<1> QED BY <1>1, <1>2

\* Two distances no more than v apart.
Beside(x, y, v) == x =< y + v /\ y =< x + v

\* It grows by no more than the places move.
LEMMA NearestMoves ==
  ASSUME NEW S, S \subseteq Drift, S # {}, NEW T, T \subseteq Drift, NEW v \in Nat,
         Near(S, T, v), NEW p \in Drift
  PROVE  T # {} /\ Nearest(T, p) =< Nearest(S, p) + v
<1>1. PICK a \in S : Nearest(S, p) = Distance(p, a)
  BY NearestIs
<1>2. PICK b \in T : Distance(a, b) =< v
  BY <1>1 DEF Near
<1>3. Nearest(T, p) =< Distance(p, b) /\ Nearest(T, p) \in Nat
  BY <1>2, NearestIs
<1>4. p \in Nat /\ a \in Nat /\ b \in Nat
  BY <1>1, <1>2, PlacesAreWhole
<1>5. Distance(p, b) =< Distance(p, a) + v /\ Distance(p, b) \in Nat /\ Distance(p, a) \in Nat
  BY <1>2, <1>4 DEF Distance
<1> QED BY <1>1, <1>2, <1>3, <1>5

\* A world's units go no faster than Speed says.
LEMMA WorldIs ==
  ASSUME NEW w \in Worlds
  PROVE  /\ \A u \in Units : IsTrack(w[u])
         /\ Speed(w) \in Nat /\ World(w, Speed(w))
<1>1. \A u \in Units : IsTrack(w[u])
  BY PlannerAssumption
<1> QED BY <1>1, SpeedIs DEF World

\* How near anything is, was or could come moves no faster.
Nearby(e, p, s, at) ==
  Min({Nearest(Reach(s.knowledge, tracks, at, s.lookahead, s.protect), p),
       Nearest(Positions(tracks, Origin[e], s.protect), p)})

\* The Min of two numbers is one of them and above neither.
LEMMA MinOfTwo ==
  ASSUME NEW x \in Nat, NEW y \in Nat
  PROVE  /\ Min({x, y}) \in Nat /\ Min({x, y}) =< x /\ Min({x, y}) =< y
         /\ Min({x, y}) = x \/ Min({x, y}) = y
<1>1. {x, y} \subseteq Nat /\ {x, y} # {}
  OBVIOUS
<1>2. Min({x, y}) \in {x, y} /\ \A z \in {x, y} : Min({x, y}) =< z
  BY <1>1, MinIs
<1> QED BY <1>2

\* Nearby is a distance, and Far only if nobody is seen.
LEMMA NearbyIs ==
  ASSUME tracks \in Worlds, NEW e \in Events, NEW p \in Drift, NEW s \in SettingsSet, NEW at \in Nat
  PROVE  /\ Nearby(e, p, s, at) \in Nat
         /\ Nearby(e, p, s, at) = Far <=> Seen(tracks, s.protect) = {}
         /\ Nearby(e, p, s, at) =< Far
<1>1. Origin[e] \in Nat /\ s.lookahead \in Nat /\ \A u \in Units : IsTrack(tracks[u])
  BY PlannerAssumption, SettingsAre, WorldIs
<1>2. PICK R : R = Reach(s.knowledge, tracks, at, s.lookahead, s.protect)
  OBVIOUS
<1>3. PICK Q : Q = Positions(tracks, Origin[e], s.protect)
  OBVIOUS
<1>4. /\ R \subseteq Drift /\ (R = {} <=> Seen(tracks, s.protect) = {})
      /\ Q \subseteq Drift /\ (Q = {} <=> Seen(tracks, s.protect) = {})
  BY <1>1, <1>2, <1>3, ReachIs
<1>5. PICK x : x = Nearest(R, p)
  OBVIOUS
<1>6. PICK y : y = Nearest(Q, p)
  OBVIOUS
<1>7. /\ x \in Nat /\ (x = Far <=> R = {}) /\ (R # {} => x < Far)
      /\ y \in Nat /\ (y = Far <=> Q = {}) /\ (Q # {} => y < Far)
  BY <1>4, <1>5, <1>6, NearestIs
<1>8. Nearby(e, p, s, at) = Min({x, y})
  BY <1>2, <1>3, <1>5, <1>6 DEF Nearby
<1>9. Min({x, y}) \in Nat /\ (Min({x, y}) = x \/ Min({x, y}) = y)
  BY <1>7, MinOfTwo
<1> QED BY <1>4, <1>7, <1>8, <1>9 DEF Far

\* In one instant it changes by no more than anyone moves, both ways.
LEMMA NearbyMoves ==
  ASSUME tracks \in Worlds, NEW e \in Events, NEW p \in Drift, NEW s \in SettingsSet, NEW at \in Nat
  PROVE  Beside(Nearby(e, p, s, at), Nearby(e, p, s, at + 1), Speed(tracks))
<1>1. Origin[e] \in Nat /\ s.lookahead \in Nat /\ at + 1 \in Nat /\ \A u \in Units : IsTrack(tracks[u])
  BY PlannerAssumption, SettingsAre, WorldIs
<1>2. PICK R : R = Reach(s.knowledge, tracks, at, s.lookahead, s.protect)
  OBVIOUS
<1>3. PICK T : T = Reach(s.knowledge, tracks, at + 1, s.lookahead, s.protect)
  OBVIOUS
<1>4. PICK Q : Q = Positions(tracks, Origin[e], s.protect)
  OBVIOUS
<1>5. PICK v : v = Speed(tracks)
  OBVIOUS
<1>6. v \in Nat /\ World(tracks, v)
  BY <1>5, WorldIs
<1>7. Near(R, T, v) /\ Near(T, R, v)
  BY <1>1, <1>2, <1>3, <1>6, ReachMoves
<1>8. /\ R \subseteq Drift /\ (R = {} <=> Seen(tracks, s.protect) = {})
      /\ Q \subseteq Drift
  BY <1>1, <1>2, <1>4, ReachIs
<1>9. T \subseteq Drift /\ (T = {} <=> Seen(tracks, s.protect) = {})
  BY <1>1, <1>3, ReachIs
<1>10. PICK x : x = Nearest(R, p)
  OBVIOUS
<1>11. PICK y : y = Nearest(T, p)
  OBVIOUS
<1>12. PICK z : z = Nearest(Q, p)
  OBVIOUS
<1>13. x \in Nat /\ y \in Nat /\ z \in Nat
  BY <1>8, <1>9, <1>10, <1>11, <1>12, NearestIs
<1>14. x =< y + v /\ y =< x + v
  <2>1. CASE R = {}
    <3>1. x = y
      BY <1>8, <1>9, <1>10, <1>11, <2>1
    <3> QED BY <1>6, <1>13, <3>1
  <2>2. CASE R # {}
    <3>1. T # {} /\ y =< x + v
      BY <1>6, <1>7, <1>8, <1>9, <1>10, <1>11, <2>2, NearestMoves
    <3>2. x =< y + v
      BY <1>6, <1>7, <1>8, <1>9, <1>10, <1>11, <3>1, NearestMoves
    <3> QED BY <3>1, <3>2
  <2> QED BY <2>1, <2>2
<1>15. PICK m : m = Min({x, z})
  OBVIOUS
<1>16. PICK n : n = Min({y, z})
  OBVIOUS
<1>17. m \in Nat /\ m =< x /\ m =< z /\ (m = x \/ m = z)
  BY <1>13, <1>15, MinOfTwo
<1>18. n \in Nat /\ n =< y /\ n =< z /\ (n = y \/ n = z)
  BY <1>13, <1>16, MinOfTwo
<1>19. m =< n + v /\ n =< m + v
  BY ONLY <1>6, <1>13, <1>14, <1>17, <1>18
<1>20. Nearby(e, p, s, at) = m /\ Nearby(e, p, s, at + 1) = n
  BY <1>2, <1>3, <1>4, <1>10, <1>11, <1>12, <1>15, <1>16 DEF Nearby
<1> QED BY <1>5, <1>19, <1>20 DEF Beside

-----------------------------------------------------------------------------
(* The loop of Plan.                                                        *)

Considered(c) == open \cup Happened(c.at)

Start(c) ==
  [judged |-> Configured(c).judged, struck |-> Configured(c).struck,
   requested |-> requested, altered |-> altered]

Turn(b, e, c) == IF e \in Considered(c) THEN Consider(b, e, c) ELSE b

\* The planner's record as the loop leaves it event by event.
After(c) ==
  LET after[e \in 0..N] == IF e = 0 THEN Start(c) ELSE Turn(after[e - 1], e, c)
  IN after

\* A cycle's plan is what the loop over the events comes to at the last one.
LEMMA PlannedIs == ASSUME NEW c PROVE Planned(c) = After(c)[N]
BY DEF Planned, After, Start, Turn, Considered, N

\* The recursive function of that loop exists, by induction on its length.
LEMMA AfterExists ==
  ASSUME NEW c, NEW n \in Nat
  PROVE  \E f : f = [i \in 0..n |-> IF i = 0 THEN Start(c) ELSE Turn(f[i - 1], i, c)]
<1> DEFINE Has(m) == \E f : f = [i \in 0..m |-> IF i = 0 THEN Start(c) ELSE Turn(f[i - 1], i, c)]
           S == {m \in Nat : Has(m)}
<1>1. Has(0)
  <2>1. PICK f : f = [i \in 0..0 |-> Start(c)]
    OBVIOUS
  <2>2. f = [i \in 0..0 |-> IF i = 0 THEN Start(c) ELSE Turn(f[i - 1], i, c)]
    BY <2>1
  <2> QED BY <2>2
<1>2. ASSUME NEW m \in Nat, Has(m) PROVE Has(m + 1)
  <2>1. PICK f : f = [i \in 0..m |-> IF i = 0 THEN Start(c) ELSE Turn(f[i - 1], i, c)]
    BY <1>2
  <2>2. PICK g : g = [i \in 0..(m + 1) |-> IF i = m + 1 THEN Turn(f[m], m + 1, c) ELSE f[i]]
    OBVIOUS
  <2>3. ASSUME NEW i \in 0..(m + 1)
        PROVE  g[i] = IF i = 0 THEN Start(c) ELSE Turn(g[i - 1], i, c)
    <3>1. CASE i = 0
      BY <2>1, <2>2, <3>1
    <3>2. CASE i = m + 1
      <4>1. g[i] = Turn(f[m], m + 1, c) /\ g[i - 1] = f[m]
        BY <2>2, <3>2
      <4> QED BY <3>2, <4>1
    <3>3. CASE i # 0 /\ i # m + 1
      <4>1. i \in 0..m /\ i - 1 \in 0..m
        BY <3>3
      <4>2. g[i] = f[i] /\ g[i - 1] = f[i - 1] /\ f[i] = Turn(f[i - 1], i, c)
        BY <2>1, <2>2, <3>3, <4>1
      <4> QED BY <3>3, <4>2
    <3> QED BY <3>1, <3>2, <3>3
  <2>4. g = [i \in 0..(m + 1) |-> g[i]]
    BY <2>2
  <2>5. g = [i \in 0..(m + 1) |-> IF i = 0 THEN Start(c) ELSE Turn(g[i - 1], i, c)]
    BY <2>3, <2>4
  <2> QED BY <2>5
<1> HIDE DEF Has
<1>3. 0 \in S /\ \A m \in Nat : m \in S => m + 1 \in S
  BY <1>1, <1>2
<1>4. Nat \subseteq S
  <2> HIDE DEF S
  <2> QED BY <1>3, Induction
<1> QED BY <1>4 DEF Has

\* So each turn starts from what the turn before it left.
LEMMA AfterIs ==
  ASSUME NEW c
  PROVE  After(c)[0] = Start(c) /\ \A e \in Events : After(c)[e] = Turn(After(c)[e - 1], e, c)
<1>1. After(c) = [i \in 0..N |-> IF i = 0 THEN Start(c) ELSE Turn(After(c)[i - 1], i, c)]
  <2>1. \E f : f = [i \in 0..N |-> IF i = 0 THEN Start(c) ELSE Turn(f[i - 1], i, c)]
    BY AfterExists, EventsAre
  <2>2. PICK F : F = (CHOOSE f : f = [i \in 0..N |-> IF i = 0 THEN Start(c) ELSE Turn(f[i - 1], i, c)])
    OBVIOUS
  <2>3. F = [i \in 0..N |-> IF i = 0 THEN Start(c) ELSE Turn(F[i - 1], i, c)]
    BY <2>1, <2>2
  <2>4. After(c) = F
    BY <2>2 DEF After
  <2> QED BY <2>3, <2>4
<1>2. 0 \in 0..N /\ \A e \in Events : e \in 0..N /\ e # 0
  BY EventsAre
<1> QED BY <1>1, <1>2

-----------------------------------------------------------------------------
(* Sightings and decisions.                                                 *)

\* What intent may know of an event that has a job.
Sighting(e, seen) ==
  /\ seen.at \in Drift /\ seen.magnitude \in Magnitudes(e) /\ seen.uncertainty \in Nat
  /\ seen.basis \in {"truth", "location", "sensors"}

\* An event with picks was triggered somewhere, and its spread is a number.
LEMMA SpreadIs ==
  ASSUME NEW e \in Events, Picks[e] # 0
  PROVE  Triggers[e][1] \in Drift /\ Spread(e) \in Nat
<1>1. /\ Triggers[e] \in Seq(Drift) /\ Len(Triggers[e]) = Picks[e] /\ Picks[e] \in Nat \ {0}
      /\ MinimumPicks \in Nat \ {0}
  BY PlannerAssumption
<1>2. PICK m : m = Min({MinimumPicks, Picks[e]})
  OBVIOUS
<1>3. m \in 1..Picks[e]
  <2>1. m \in Nat /\ m =< Picks[e] /\ (m = MinimumPicks \/ m = Picks[e])
    BY <1>1, <1>2, MinOfTwo
  <2> QED BY <1>1, <2>1
<1>4. 1 \in 1..Len(Triggers[e]) /\ m \in 1..Len(Triggers[e])
  BY <1>1, <1>3
<1>5. Triggers[e][1] \in Drift /\ Triggers[e][m] \in Drift
  BY <1>1, <1>4
<1>6. Triggers[e][1] \in Int /\ Triggers[e][m] \in Int
  BY <1>5, PlacesAreWhole
<1> QED BY <1>2, <1>5, <1>6, DistanceIs DEF Spread

\* What is known of an event is nothing, or a place and radii to go by.
LEMMA SightIs ==
  ASSUME NEW s \in SettingsSet, NEW e \in Events, Picks[e] # 0, NEW loc,
         loc[e] \in {NoLocation} \cup Estimates[e]
  PROVE  Sight(e, s, loc) = Unseen \/ Sighting(e, Sight(e, s, loc))
<1>1. CASE s.knowledge = "truth"
  <2>1. Sight(e, s, loc) = [at |-> Truth[e], magnitude |-> Size[e], uncertainty |-> 0, basis |-> "truth"]
    BY <1>1 DEF Sight
  <2>2. Truth[e] \in Drift
    BY PlannerAssumption
  <2> QED BY <2>1, <2>2 DEF Sighting, Magnitudes
<1>2. CASE s.knowledge # "truth" /\ loc[e] # NoLocation
  <2>1. Sight(e, s, loc) = [at |-> loc[e].at, magnitude |-> loc[e].magnitude,
                            uncertainty |-> s.uncertainty, basis |-> "location"]
    BY <1>2 DEF Sight
  <2>2. loc[e] \in Estimates[e] /\ loc[e].at \in Drift
    BY <1>2, PlannerAssumption
  <2>3. loc[e].magnitude \in Magnitudes(e)
    BY <2>2 DEF Magnitudes
  <2> QED BY <2>1, <2>2, <2>3, SettingsAre DEF Sighting
<1>3. CASE s.knowledge # "truth" /\ loc[e] = NoLocation /\ s.preLocation
  <2>1. Sight(e, s, loc) = [at |-> Triggers[e][1], magnitude |-> s.preMagnitude,
                            uncertainty |-> Max({s.uncertainty, Spread(e)}), basis |-> "sensors"]
    BY <1>3 DEF Sight
  <2>2. Triggers[e][1] \in Drift /\ Spread(e) \in Nat
    BY SpreadIs
  <2>3. PICK x \in Nat : x = s.uncertainty
    BY SettingsAre
  <2>4. PICK y \in Nat : y = Spread(e)
    BY <2>2
  <2>5. Max({x, y}) \in Nat
    <3>1. {x, y} \subseteq Int /\ {x, y} # {} /\ x + y \in Int /\ \A z \in {x, y} : z =< x + y
      OBVIOUS
    <3>2. Max({x, y}) \in {x, y}
      BY <3>1, MaxIs
    <3> QED BY <3>2
  <2>6. s.preMagnitude \in Magnitudes(e)
    BY DEF Magnitudes
  <2> QED BY <2>1, <2>2, <2>3, <2>4, <2>5, <2>6 DEF Sighting
<1>4. CASE s.knowledge # "truth" /\ loc[e] = NoLocation /\ ~s.preLocation
  BY <1>4 DEF Sight
<1> QED BY <1>1, <1>2, <1>3, <1>4

\* A level in reach has a radius.
LEMMA RadiusIs ==
  ASSUME NEW s \in SettingsSet, NEW e \in Events, NEW seen, Sighting(e, seen),
         NEW l \in Levels, Reaches(seen, l)
  PROVE  Radius(seen, l, s) \in Nat
<1>1. <<seen.magnitude, l>> \in Magnitudes(e) \X Levels
  BY DEF Sighting
<1>2. Zones[<<seen.magnitude, l>>] \in Nat
  BY <1>1, PlannerAssumption DEF Reaches
<1>3. seen.uncertainty \in Nat /\ s.margin \in Nat
  BY SettingsAre DEF Sighting
<1> QED BY <1>2, <1>3 DEF Radius

\* Slack is no more than the distance to any boundary of the decision.
LEMMA SlackIs ==
  ASSUME NEW s \in SettingsSet, NEW e \in Events, NEW seen, Sighting(e, seen),
         NEW state, NEW d \in Nat
  PROVE  /\ Slack(seen, state, d, s) \in Nat
         /\ d # Far => \A b \in Boundaries(seen, state, s) : Slack(seen, state, d, s) =< Distance(d, b)
         /\ Boundaries(seen, state, s) \subseteq Nat
<1>1. Boundaries(seen, state, s) \subseteq Nat
  BY RadiusIs, SettingsAre DEF Boundaries
<1>2. CASE d = Far
  BY <1>1, <1>2 DEF Slack, Far
<1>3. CASE d # Far
  <2>1. PICK D : D = {Far} \cup {Distance(d, b) : b \in Boundaries(seen, state, s)}
    OBVIOUS
  <2>2. D \subseteq Nat /\ D # {}
    <3>1. \A b \in Boundaries(seen, state, s) : Distance(d, b) \in Nat
      <4> TAKE b \in Boundaries(seen, state, s)
      <4>1. b \in Int /\ d \in Int
        BY <1>1
      <4> QED BY <4>1, DistanceIs
    <3> QED BY <2>1, <3>1 DEF Far
  <2>3. Min(D) \in D /\ \A x \in D : Min(D) =< x
    BY <2>2, MinIs
  <2>4. Slack(seen, state, d, s) = Min(D)
    BY <1>3, <2>1 DEF Slack
  <2> QED BY <1>1, <2>1, <2>2, <2>3, <2>4
<1> QED BY <1>2, <1>3

\* An event is promoted, decayed or kept.
LEMMA DecidedIs ==
  ASSUME NEW s, NEW seen, NEW d
  PROVE  Decided(seen, d, s) \in {"promoted", "decayed", "kept"}
BY DEF Decided

\* A decision stands while the distance has changed by less than the slack.
LEMMA DecisionStands ==
  ASSUME NEW s \in SettingsSet, NEW e \in Events, NEW seen, Sighting(e, seen),
         NEW d \in Nat, NEW f \in Nat, d =< Far, f =< Far, (d = Far <=> f = Far),
         NEW v \in Nat, Beside(d, f, v), v < Slack(seen, Decided(seen, d, s), d, s)
  PROVE  Decided(seen, f, s) = Decided(seen, d, s)
<1>1. CASE d = Far
  BY <1>1
<1>2. CASE d # Far
  <2>1. PICK state : state = Decided(seen, d, s)
    OBVIOUS
  <2>2. PICK slack \in Nat : slack = Slack(seen, state, d, s)
    BY SlackIs
  <2>3. d < Far /\ f < Far /\ f # Far
    BY <1>2 DEF Far
  <2>4. \A b \in Boundaries(seen, state, s) : b \in Nat /\ (f =< b <=> d =< b)
    <3> TAKE b \in Boundaries(seen, state, s)
    <3>1. b \in Nat /\ slack =< Distance(d, b)
      BY <1>2, <2>2, SlackIs
    <3>2. v < slack
      BY <2>1, <2>2
    <3> QED BY <3>1, <3>2 DEF Distance, Beside
  <2>5. ASSUME Promotes(s), Reaches(seen, s.promoteLevel)
        PROVE  /\ Radius(seen, s.promoteLevel, s) \in Nat
               /\ (f =< Radius(seen, s.promoteLevel, s) <=> d =< Radius(seen, s.promoteLevel, s))
    <3>1. Radius(seen, s.promoteLevel, s) \in Boundaries(seen, state, s)
      BY <2>5 DEF Boundaries
    <3> QED BY <2>4, <3>1
  <2>6. ASSUME state # "promoted", Reaches(seen, s.protectLevel)
        PROVE  /\ Radius(seen, s.protectLevel, s) \in Nat
               /\ (f =< Radius(seen, s.protectLevel, s) <=> d =< Radius(seen, s.protectLevel, s))
    <3>1. Radius(seen, s.protectLevel, s) \in Boundaries(seen, state, s)
      BY <2>6 DEF Boundaries
    <3> QED BY <2>4, <3>1
  <2>7. CASE /\ Promotes(s) /\ Reaches(seen, s.promoteLevel)
             /\ d =< Radius(seen, s.promoteLevel, s)
    BY <2>3, <2>5, <2>7 DEF Decided
  <2>8. CASE ~ (/\ Promotes(s) /\ Reaches(seen, s.promoteLevel)
                /\ d =< Radius(seen, s.promoteLevel, s))
    <3>1. state # "promoted"
      BY <2>1, <2>3, <2>8 DEF Decided
    <3>2. ~ (/\ Promotes(s) /\ Reaches(seen, s.promoteLevel)
             /\ f =< Radius(seen, s.promoteLevel, s))
      BY <2>5, <2>8
    <3>3. Reaches(seen, s.protectLevel) =>
            (f > Radius(seen, s.protectLevel, s) <=> d > Radius(seen, s.protectLevel, s))
      BY <2>6, <3>1
    <3> QED BY <1>2, <2>3, <2>8, <3>2, <3>3 DEF Decided
  <2> QED BY <2>7, <2>8
<1> QED BY <1>1, <1>2

-----------------------------------------------------------------------------
(* What Plan makes of one event.                                            *)

LetGo(b, e)   == [b EXCEPT !.judged[e].state = "kept", !.judged[e].basis = "off"]
Unknown(b, e) == [b EXCEPT !.judged[e].state = "unknown", !.judged[e].basis = ""]
Assessed(b, e, c) ==
  LET seen == Sight(e, c.settings, c.location)
      strike == Strike(e, seen.at, b.struck[e], c.settings)
  IN [b EXCEPT !.judged[e] = Assess(seen, @, strike, c), !.struck[e] = strike]

\* What one turn does, by what is left of the event, the mode, and what was
\* settled or seen (consider in planner.go).
LEMMA ConsiderIs ==
  ASSUME NEW b, NEW e, NEW c
  PROVE  Consider(b, e, c) =
           IF Unfinished(e, c.done) = {} THEN Close(b, e)
           ELSE IF c.settings.mode = "off"
           THEN IF b.altered = 0 THEN LetGo(b, e) ELSE Request(LetGo(b, e), e, c)
           ELSE IF Settled(e, b.judged[e], c) THEN b
           ELSE IF Sight(e, c.settings, c.location) = Unseen THEN Request(Unknown(b, e), e, c)
           ELSE Request(Assessed(b, e, c), e, c)
BY DEF Consider, LetGo, Unknown, Assessed

\* b and r are the same but for event e.
SameBut(b, r, e) ==
  /\ \A d \in Events \ {e} : r.judged[d] = b.judged[d] /\ r.struck[d] = b.struck[d]
  /\ \A j \in Jobs \ JobsOf(e) : r.requested[j] = b.requested[j]

\* The judgement of an event once it is let go of, not known of, judged anew,
\* and once what follows from it has been asked.
LetGoNow(last)   == [last EXCEPT !.state = "kept", !.basis = "off"]
UnknownNow(last) == [last EXCEPT !.state = "unknown", !.basis = ""]
JudgedNow(last, seen, d, c) ==
  [last EXCEPT !.state = Decided(seen, d, c.settings), !.basis = seen.basis,
               !.at = c.at, !.from = seen.at,
               !.slack = Slack(seen, Decided(seen, d, c.settings), d, c.settings)]
AskedNow(last, c) == [last EXCEPT !.asked = last.state, !.generation = c.generation]

\* A judgement edited by a turn is a judgement.
LEMMA JudgementEdits ==
  ASSUME NEW t \in Nat, NEW g \in Nat, NEW last \in Judgements(t, g), NEW state \in States,
         NEW basis \in Bases, NEW from \in Drift \cup {Nowhere}, NEW slack \in Nat
  PROVE  /\ [last EXCEPT !.state = state, !.basis = basis] \in Judgements(t, g)
         /\ [last EXCEPT !.state = state, !.basis = basis, !.at = t, !.from = from, !.slack = slack]
              \in Judgements(t, g)
<1>1. t \in 0..t
  OBVIOUS
<1> QED BY <1>1 DEF Judgements

\* So is one whose request has gone out.
LEMMA AskedEdit ==
  ASSUME NEW t \in Nat, NEW g \in Nat, NEW last \in Judgements(t, g)
  PROVE  [last EXCEPT !.asked = last.state, !.generation = g] \in Judgements(t, g)
<1>1. g \in 0..g /\ last.state \in States
  BY DEF Judgements
<1> QED BY <1>1 DEF Judgements

WithJudgement(b, e, x) == [b EXCEPT !.judged[e] = x]
WithStrike(b, e, x)    == [b EXCEPT !.struck[e] = x]

\* Writing an event's judgement changes nothing else of the books.
LEMMA BookEdit ==
  ASSUME NEW c, NEW b \in Books(c), NEW e \in Events, NEW x \in Judgements(c.at, c.generation)
  PROVE  LET r == WithJudgement(b, e, x)
         IN /\ r \in Books(c) /\ SameBut(b, r, e) /\ r.judged[e] = x
            /\ r.struck = b.struck /\ r.requested = b.requested /\ r.altered = b.altered
<1>0. PICK r : r = WithJudgement(b, e, x)
  OBVIOUS
<1>1. PICK J : J = Judgements(c.at, c.generation)
  OBVIOUS
<1>2. b \in [judged: [Events -> J], struck: [Events -> Strikes], requested: [Jobs -> Requests], altered: Int]
  BY <1>1 DEF Books
<1>3. r \in [judged: [Events -> J], struck: [Events -> Strikes], requested: [Jobs -> Requests], altered: Int]
  BY <1>0, <1>1, <1>2 DEF WithJudgement
<1>4. /\ r.judged = [b.judged EXCEPT ![e] = x] /\ r.struck = b.struck
      /\ r.requested = b.requested /\ r.altered = b.altered
  BY <1>0, <1>2 DEF WithJudgement
<1>5. b.judged \in [Events -> J]
  BY <1>2
<1>6. r.judged[e] = x /\ \A d \in Events \ {e} : r.judged[d] = b.judged[d]
  BY <1>4, <1>5
<1> QED BY <1>0, <1>1, <1>3, <1>4, <1>6 DEF Books, SameBut

\* Nor does writing its strike.
LEMMA StruckEdit ==
  ASSUME NEW c, NEW b \in Books(c), NEW e \in Events, NEW x \in Strikes
  PROVE  LET r == WithStrike(b, e, x)
         IN /\ r \in Books(c) /\ SameBut(b, r, e) /\ r.struck[e] = x
            /\ r.judged = b.judged /\ r.requested = b.requested /\ r.altered = b.altered
<1>0. PICK r : r = WithStrike(b, e, x)
  OBVIOUS
<1>1. PICK J : J = Judgements(c.at, c.generation)
  OBVIOUS
<1>2. b \in [judged: [Events -> J], struck: [Events -> Strikes], requested: [Jobs -> Requests], altered: Int]
  BY <1>1 DEF Books
<1>3. r \in [judged: [Events -> J], struck: [Events -> Strikes], requested: [Jobs -> Requests], altered: Int]
  BY <1>0, <1>1, <1>2 DEF WithStrike
<1>4. /\ r.struck = [b.struck EXCEPT ![e] = x] /\ r.judged = b.judged
      /\ r.requested = b.requested /\ r.altered = b.altered
  BY <1>0, <1>2 DEF WithStrike
<1>5. b.struck \in [Events -> Strikes]
  BY <1>2
<1>6. r.struck[e] = x /\ \A d \in Events \ {e} : r.struck[d] = b.struck[d]
  BY <1>4, <1>5
<1> QED BY <1>0, <1>1, <1>3, <1>4, <1>6 DEF Books, SameBut

\* What is wanted of a job is a request.
LEMMA WantType ==
  ASSUME NEW s \in SettingsSet, NEW have \in Requests, NEW j \in Jobs, NEW state
  PROVE  Want(state, have, j, s) \in Requests
<1>1. Submitted[j] \in Int /\ s.decayTo \in Int /\ s.promoteTo \in Int /\ have.priority \in Int
      /\ have.moved \in BOOLEAN
  BY PlannerAssumption, SettingsAre DEF Requests
<1>2. PICK class : class = Class(state, have, j, s)
  OBVIOUS
<1>3. PICK p : p = CASE class = "decayed"      -> s.decayTo
                     [] class = "promoted"     -> s.promoteTo
                     [] class = "kept decayed" -> have.priority
                     [] OTHER                  -> Submitted[j]
  OBVIOUS
<1>4. p \in Int
  BY <1>1, <1>3
<1>5. Want(state, have, j, s) =
        [priority |-> p, moved |-> have.moved \/ p # Submitted[j],
         exempt |-> (IF class = "kept decayed" THEN "decayed" ELSE class) \in s.exempt]
  BY <1>2, <1>3 DEF Want
<1>6. PICK m \in BOOLEAN : m = (have.moved \/ p # Submitted[j])
  BY Zenon
<1>7. PICK as : as = IF class = "kept decayed" THEN "decayed" ELSE class
  OBVIOUS
<1>8. Want(state, have, j, s) = [priority |-> p, moved |-> m, exempt |-> as \in s.exempt]
  BY <1>5, <1>6, <1>7
<1> QED BY <1>4, <1>8, SMT DEF Requests

\* Letting an event go edits its judgement alone.
LEMMA LetGoIs ==
  ASSUME NEW c, ACycle(c), NEW b \in Books(c), NEW e \in Events
  PROVE  /\ LetGo(b, e) \in Books(c) /\ SameBut(b, LetGo(b, e), e)
         /\ LetGo(b, e).judged[e] = LetGoNow(b.judged[e])
         /\ LetGo(b, e).struck = b.struck /\ LetGo(b, e).requested = b.requested
         /\ LetGo(b, e).altered = b.altered
<1>1. PICK x : x = LetGoNow(b.judged[e])
  OBVIOUS
<1>2. b.judged[e] \in Judgements(c.at, c.generation) /\ "kept" \in States /\ "off" \in Bases
  BY DEF Books, States, Bases
<1>3. x \in Judgements(c.at, c.generation)
  BY <1>1, <1>2, JudgementEdits, Nowhere \in Drift \cup {Nowhere} DEF ACycle, LetGoNow
<1>4. LetGo(b, e) = WithJudgement(b, e, x)
  BY <1>1 DEF LetGo, WithJudgement, Books, LetGoNow
<1> QED BY <1>1, <1>3, <1>4, BookEdit

\* So does finding it unknown.
LEMMA UnknownIs ==
  ASSUME NEW c, ACycle(c), NEW b \in Books(c), NEW e \in Events
  PROVE  /\ Unknown(b, e) \in Books(c) /\ SameBut(b, Unknown(b, e), e)
         /\ Unknown(b, e).judged[e] = UnknownNow(b.judged[e])
         /\ Unknown(b, e).struck = b.struck /\ Unknown(b, e).requested = b.requested
         /\ Unknown(b, e).altered = b.altered
<1>1. PICK x : x = UnknownNow(b.judged[e])
  OBVIOUS
<1>2. b.judged[e] \in Judgements(c.at, c.generation) /\ "unknown" \in States /\ "" \in Bases
  BY DEF Books, States, Bases
<1>3. x \in Judgements(c.at, c.generation)
  BY <1>1, <1>2, JudgementEdits, Nowhere \in Drift \cup {Nowhere} DEF ACycle, UnknownNow
<1>4. Unknown(b, e) = WithJudgement(b, e, x)
  BY <1>1 DEF Unknown, WithJudgement, Books, UnknownNow
<1> QED BY <1>1, <1>3, <1>4, BookEdit

\* A strike is kept if it was measured from there, and measured if not.
LEMMA StrikeIs ==
  ASSUME tracks \in Worlds, NEW e \in Events, NEW p \in Drift, NEW known \in Strikes, NEW s \in SettingsSet
  PROVE  /\ Strike(e, p, known, s) \in Strikes /\ Strike(e, p, known, s).measured
         /\ Strike(e, p, known, s).from = p
         /\ \/ Strike(e, p, known, s) = known
            \/ Strike(e, p, known, s).distance = Nearest(Positions(tracks, Origin[e], s.protect), p)
<1>1. CASE known.measured /\ known.from = p
  BY <1>1 DEF Strike, Strikes
<1>2. CASE ~ (known.measured /\ known.from = p)
  <2>1. Origin[e] \in Nat /\ s.lookahead \in Nat /\ \A u \in Units : IsTrack(tracks[u])
    BY PlannerAssumption, SettingsAre, WorldIs
  <2>2. Positions(tracks, Origin[e], s.protect) \subseteq Drift
    BY <2>1, ReachIs
  <2>3. Nearest(Positions(tracks, Origin[e], s.protect), p) \in Nat
    BY <2>2, NearestIs
  <2> QED BY <1>2, <2>3 DEF Strike, Strikes
<1> QED BY <1>1, <1>2

\* Assessing an event edits its judgement and strike alone, to what its
\* distance says.
LEMMA AssessedIs ==
  ASSUME tracks \in Worlds, NEW c, ACycle(c), NEW b \in Books(c), NEW e \in Events,
         Picks[e] # 0, NEW seen, seen = Sight(e, c.settings, c.location), seen # Unseen,
         NEW strike, strike = Strike(e, seen.at, b.struck[e], c.settings),
         NEW d, d = DistanceTo(seen.at, strike, c)
  PROVE  /\ Assessed(b, e, c) \in Books(c) /\ SameBut(b, Assessed(b, e, c), e)
         /\ Assessed(b, e, c).requested = b.requested /\ Assessed(b, e, c).altered = b.altered
         /\ Assessed(b, e, c).struck[e] = strike /\ strike \in Strikes /\ d \in Nat
         /\ Assessed(b, e, c).judged[e] =
              JudgedNow(b.judged[e], seen, d, c)
<1>1. Sighting(e, seen) /\ c.settings \in SettingsSet /\ c.at \in Nat
  BY SightIs DEF ACycle
<1>2. seen.at \in Drift /\ seen.basis \in Bases
  BY <1>1 DEF Sighting, Bases
<1>3. b.struck[e] \in Strikes /\ b.judged[e] \in Judgements(c.at, c.generation)
  BY DEF Books
<1>4. strike \in Strikes
  BY <1>1, <1>2, <1>3, StrikeIs
<1>5. d \in Nat
  <2>1. c.settings.lookahead \in Nat /\ \A u \in Units : IsTrack(tracks[u])
    BY <1>1, SettingsAre, WorldIs
  <2>2. PICK R : R = Reach(c.settings.knowledge, tracks, c.at, c.settings.lookahead, c.settings.protect)
    OBVIOUS
  <2>3. R \subseteq Drift
    BY <1>1, <2>1, <2>2, ReachIs
  <2>4. Nearest(R, seen.at) \in Nat /\ strike.distance \in Nat
    BY <1>2, <1>4, <2>3, NearestIs DEF Strikes
  <2> QED BY <2>2, <2>4, MinOfTwo DEF DistanceTo
<1>6. PICK state : state = Decided(seen, d, c.settings)
  OBVIOUS
<1>7. state \in States
  BY <1>6, DecidedIs DEF States
<1>8. PICK slack \in Nat : slack = Slack(seen, state, d, c.settings)
  BY <1>1, <1>5, SlackIs
<1>9. PICK x : x = [b.judged[e] EXCEPT !.state = state, !.basis = seen.basis, !.at = c.at,
                                       !.from = seen.at, !.slack = slack]
  OBVIOUS
<1>10. x \in Judgements(c.at, c.generation)
  BY <1>1, <1>2, <1>3, <1>7, <1>9, JudgementEdits DEF ACycle
<1>11. Assess(seen, b.judged[e], strike, c) = x
  BY <1>3, <1>6, <1>8, <1>9 DEF Assess, Judgements
<1>12. Assessed(b, e, c) = [b EXCEPT !.judged[e] = x, !.struck[e] = strike]
  BY <1>11 DEF Assessed, Books
<1>13. PICK r : r = WithJudgement(b, e, x)
  OBVIOUS
<1>14. /\ r \in Books(c) /\ SameBut(b, r, e) /\ r.judged[e] = x
       /\ r.struck = b.struck /\ r.requested = b.requested /\ r.altered = b.altered
  BY <1>10, <1>13, BookEdit
<1>15. Assessed(b, e, c) = WithStrike(r, e, strike)
  BY <1>12, <1>13, <1>14 DEF Books, WithJudgement, WithStrike
<1>16. PICK q : q = Assessed(b, e, c)
  OBVIOUS
<1>17. /\ q \in Books(c) /\ SameBut(r, q, e) /\ q.struck[e] = strike
       /\ q.judged = r.judged /\ q.requested = r.requested /\ q.altered = r.altered
  BY <1>4, <1>14, <1>15, <1>16, StruckEdit
<1>18. SameBut(b, q, e)
  BY <1>14, <1>17 DEF SameBut
<1>19. x = JudgedNow(b.judged[e], seen, d, c)
  BY <1>6, <1>8, <1>9 DEF JudgedNow
<1> QED BY <1>4, <1>5, <1>14, <1>16, <1>17, <1>18, <1>19

\* An event has finitely many displaced jobs.
LEMMA DisplacedAre ==
  ASSUME NEW e \in Events, NEW asked
  PROVE  /\ DisplacedOf(e, asked) \subseteq JobsOf(e) /\ IsFiniteSet(DisplacedOf(e, asked))
         /\ Cardinality(DisplacedOf(e, asked)) \in Nat
<1>1. DisplacedOf(e, asked) \in SUBSET JobsOf(e)
  BY DEF DisplacedOf
<1>2. IsFiniteSet(DisplacedOf(e, asked))
  BY <1>1, JobsAre, FS_Subset
<1> QED BY <1>1, <1>2, FS_CardinalityType

\* What is asked for event e, and how altered keeps count of it.
LEMMA RequestIs ==
  ASSUME NEW c, ACycle(c), NEW b \in Books(c), NEW e \in Events
  PROVE  LET r == Request(b, e, c) IN
         /\ r \in Books(c) /\ SameBut(b, r, e) /\ r.struck = b.struck
         /\ r.judged[e] = AskedNow(b.judged[e], c)
         /\ \A j \in Jobs \ Unfinished(e, c.done) : r.requested[j] = b.requested[j]
         /\ r.altered = b.altered + Cardinality(DisplacedOf(e, r.requested))
                                  - Cardinality(DisplacedOf(e, b.requested))
         /\ \/ /\ b.judged[e].asked = b.judged[e].state /\ b.judged[e].generation = c.generation
               /\ r.requested = b.requested
            \/ \A j \in Unfinished(e, c.done) :
                 r.requested[j] = Want(b.judged[e].state, b.requested[j], j, c.settings)
<1>0. PICK r : r = Request(b, e, c)
  OBVIOUS
<1>1. PICK last : last = b.judged[e]
  OBVIOUS
<1>2. last \in Judgements(c.at, c.generation) /\ c.generation \in Nat /\ c.settings \in SettingsSet
  BY <1>1 DEF Books, ACycle
<1>3. CASE last.asked = last.state /\ last.generation = c.generation
  <2>1. r = b
    BY <1>0, <1>1, <1>3 DEF Request
  <2>2. last = AskedNow(last, c)
    BY <1>2, <1>3 DEF Judgements, AskedNow
  <2>3. PICK k \in Nat : k = Cardinality(DisplacedOf(e, b.requested))
    BY DisplacedAre
  <2>4. b.altered = b.altered + k - k
    BY <2>3 DEF Books
  <2>5. SameBut(b, b, e)
    BY DEF SameBut
  <2> QED BY <1>0, <1>1, <1>3, <2>1, <2>2, <2>3, <2>4, <2>5
<1>4. CASE ~ (last.asked = last.state /\ last.generation = c.generation)
  <2>1. PICK asked : asked = [j \in Jobs |->
            IF j \in Unfinished(e, c.done)
            THEN Want(last.state, b.requested[j], j, c.settings) ELSE b.requested[j]]
    OBVIOUS
  <2>2. asked \in [Jobs -> Requests]
    BY <1>2, <2>1, WantType DEF Books
  <2>3. PICK k \in Nat : k = Cardinality(DisplacedOf(e, b.requested))
    BY DisplacedAre
  <2>4. PICK l \in Nat : l = Cardinality(DisplacedOf(e, asked))
    BY DisplacedAre
  <2>5. PICK x : x = [last EXCEPT !.asked = last.state, !.generation = c.generation]
    OBVIOUS
  <2>6. x \in Judgements(c.at, c.generation)
    BY <1>2, <2>5, AskedEdit DEF ACycle
  <2>7. r = [b EXCEPT !.judged[e].asked = last.state, !.judged[e].generation = c.generation,
                      !.requested = asked, !.altered = @ + l - k]
    BY <1>0, <1>1, <1>4, <2>1, <2>3, <2>4 DEF Request
  <2>8. r = [b EXCEPT !.judged[e] = x, !.requested = asked, !.altered = @ + l - k]
    <3>1. b.judged[e] = last /\ e \in DOMAIN b.judged /\ DOMAIN last =
             {"state", "basis", "at", "slack", "from", "asked", "generation"}
      BY <1>1, <1>2 DEF Books, Judgements
    <3>2. [b.judged EXCEPT ![e].asked = last.state, ![e].generation = c.generation] =
            [b.judged EXCEPT ![e] = x]
      BY <2>5, <3>1 DEF Books
    <3> QED BY <2>7, <3>2 DEF Books
  <2>9. /\ r.judged = [b.judged EXCEPT ![e] = x] /\ r.struck = b.struck
        /\ r.requested = asked /\ r.altered = b.altered + l - k
    BY <2>8 DEF Books
  <2>10. b.altered + l - k \in Int
    BY <2>3, <2>4 DEF Books
  <2>11. r \in Books(c)
    BY <2>2, <2>6, <2>8, <2>10 DEF Books
  <2>12. SameBut(b, r, e)
    BY <2>1, <2>9 DEF SameBut, Unfinished, Books
  <2>13. \A j \in Jobs \ Unfinished(e, c.done) : r.requested[j] = b.requested[j]
    BY <2>1, <2>9
  <2>14. \A j \in Unfinished(e, c.done) :
           r.requested[j] = Want(b.judged[e].state, b.requested[j], j, c.settings)
    BY <1>1, <2>1, <2>9, JobsAre DEF Unfinished
  <2>15. r.judged[e] = x
    BY <2>9 DEF Books
  <2>16. x = AskedNow(last, c)
    BY <2>5 DEF AskedNow
  <2> QED BY <1>0, <1>1, <2>3, <2>4, <2>9, <2>11, <2>12, <2>13, <2>14, <2>15, <2>16
<1> QED BY <1>3, <1>4

\* Consider keeps the record's type, leaves every other event alone, and has
\* altered count what it did.
LEMMA ConsiderKeeps ==
  ASSUME tracks \in Worlds, NEW c, ACycle(c), NEW b \in Books(c), NEW e \in Events,
         NEW r, r = Consider(b, e, c)
  PROVE  /\ r \in Books(c) /\ SameBut(b, r, e)
         /\ Unfinished(e, c.done) = {} =>
              /\ r.requested = b.requested /\ r.judged = b.judged /\ r.struck = b.struck
              /\ r.altered = b.altered - Cardinality(DisplacedOf(e, b.requested))
         /\ Unfinished(e, c.done) # {} =>
              r.altered = b.altered + Cardinality(DisplacedOf(e, r.requested))
                                    - Cardinality(DisplacedOf(e, b.requested))
         /\ \A j \in Jobs \ Unfinished(e, c.done) : r.requested[j] = b.requested[j]
<1>1. PICK k \in Nat : k = Cardinality(DisplacedOf(e, b.requested))
  BY DisplacedAre
<1>2. b.altered \in Int
  BY DEF Books
<1>3. ASSUME NEW q \in Books(c), SameBut(b, q, e), q.requested = b.requested, q.altered = b.altered
      PROVE  /\ q.altered = b.altered + Cardinality(DisplacedOf(e, q.requested))
                                      - Cardinality(DisplacedOf(e, b.requested))
             /\ LET p == Request(q, e, c)
                IN /\ p \in Books(c) /\ SameBut(b, p, e)
                   /\ \A j \in Jobs \ Unfinished(e, c.done) : p.requested[j] = b.requested[j]
                   /\ p.altered = b.altered + Cardinality(DisplacedOf(e, p.requested))
                                            - Cardinality(DisplacedOf(e, b.requested))
  <2>1. q.altered = b.altered + Cardinality(DisplacedOf(e, q.requested))
                              - Cardinality(DisplacedOf(e, b.requested))
    BY <1>1, <1>2, <1>3
  <2>2. PICK p : p = Request(q, e, c)
    OBVIOUS
  <2>3. /\ p \in Books(c) /\ SameBut(q, p, e)
        /\ \A j \in Jobs \ Unfinished(e, c.done) : p.requested[j] = q.requested[j]
        /\ p.altered = q.altered + Cardinality(DisplacedOf(e, p.requested))
                                 - Cardinality(DisplacedOf(e, q.requested))
    <3>1. q \in Books(c) /\ ACycle(c) /\ e \in Events
      OBVIOUS
    <3> QED BY ONLY <2>2, <3>1, RequestIs
  <2>4. SameBut(b, p, e)
    BY <1>3, <2>3 DEF SameBut
  <2> QED BY <1>3, <2>1, <2>2, <2>3, <2>4
<1>4. SameBut(b, b, e)
  BY DEF SameBut
<1>5. CASE Unfinished(e, c.done) = {}
  <2>1. r = [b EXCEPT !.altered = @ - k]
    BY <1>1, <1>5, ConsiderIs DEF Close
  <2>2. /\ r.requested = b.requested /\ r.judged = b.judged /\ r.struck = b.struck
        /\ r.altered = b.altered - k
    BY <2>1 DEF Books
  <2>3. b.altered - k \in Int
    BY <1>1, <1>2
  <2>4. r \in Books(c)
    BY <2>1, <2>3 DEF Books
  <2>5. SameBut(b, r, e)
    BY <2>2 DEF SameBut
  <2> QED BY <1>1, <1>5, <2>2, <2>4, <2>5
<1>6. CASE Unfinished(e, c.done) # {} /\ c.settings.mode = "off"
  <2>1. PICK q : q = LetGo(b, e)
    OBVIOUS
  <2>2. q \in Books(c) /\ SameBut(b, q, e) /\ q.requested = b.requested /\ q.altered = b.altered
    BY <2>1, LetGoIs
  <2>3. r = q \/ r = Request(q, e, c)
    BY <1>6, <2>1, ConsiderIs
  <2> QED BY <1>3, <1>6, <2>2, <2>3
<1>7. CASE /\ Unfinished(e, c.done) # {} /\ c.settings.mode # "off"
           /\ Settled(e, b.judged[e], c)
  <2>1. r = b
    BY <1>7, ConsiderIs
  <2> QED BY <1>3, <1>4, <1>7, <2>1
<1>8. CASE /\ Unfinished(e, c.done) # {} /\ c.settings.mode # "off"
           /\ ~Settled(e, b.judged[e], c)
  <2>1. PICK seen : seen = Sight(e, c.settings, c.location)
    OBVIOUS
  <2>2. CASE seen = Unseen
    <3>1. PICK q : q = Unknown(b, e)
      OBVIOUS
    <3>2. q \in Books(c) /\ SameBut(b, q, e) /\ q.requested = b.requested /\ q.altered = b.altered
      BY <3>1, UnknownIs
    <3>3. r = Request(q, e, c)
      BY <1>8, <2>1, <2>2, <3>1, ConsiderIs
    <3> QED BY <1>3, <1>8, <3>2, <3>3
  <2>3. CASE seen # Unseen
    <3>1. PICK q : q = Assessed(b, e, c)
      OBVIOUS
    <3>2. Picks[e] # 0
      <4>1. Picks[e] = 0 => JobsOf(e) = {}
        BY DEF JobsOf
      <4> QED BY <1>8, <4>1 DEF Unfinished
    <3>3. q \in Books(c) /\ SameBut(b, q, e) /\ q.requested = b.requested /\ q.altered = b.altered
      <4>1. PICK strike : strike = Strike(e, seen.at, b.struck[e], c.settings)
        OBVIOUS
      <4>2. PICK d : d = DistanceTo(seen.at, strike, c)
        OBVIOUS
      <4>3. tracks \in Worlds /\ ACycle(c) /\ b \in Books(c) /\ e \in Events
        OBVIOUS
      <4> QED BY ONLY <2>1, <2>3, <3>1, <3>2, <4>1, <4>2, <4>3, AssessedIs
    <3>4. r = Request(q, e, c)
      BY <1>8, <2>1, <2>3, <3>1, ConsiderIs
    <3> QED BY <1>3, <1>8, <3>3, <3>4
  <2> QED BY <2>2, <2>3
<1> QED BY <1>5, <1>6, <1>7, <1>8

-----------------------------------------------------------------------------
(* The loop as a whole: it makes of an event what its turn makes of it, and *)
(* altered counts the events it has still to close.                         *)

\* b and r are the same in all that is of event d.
SameOf(b, r, d) ==
  /\ r.judged[d] = b.judged[d] /\ r.struck[d] = b.struck[d]
  /\ \A j \in JobsOf(d) : r.requested[j] = b.requested[j]

\* A turn leaves other events as they were.
LEMMA OthersAreSame ==
  ASSUME NEW b, NEW r, NEW e \in Events, SameBut(b, r, e), NEW d \in Events, d # e
  PROVE  SameOf(b, r, d)
<1>1. \A j \in JobsOf(d) : j \in Jobs \ JobsOf(e)
  BY JobsAre
<1> QED BY <1>1 DEF SameBut, SameOf

\* The jobs of some events that are asked to be elsewhere than submitted.
Moved(asked, E) == UNION {DisplacedOf(d, asked) : d \in E}

\* The displaced jobs of some events are finitely many jobs.
LEMMA MovedIs ==
  ASSUME NEW asked, NEW E \in SUBSET Events
  PROVE  /\ Moved(asked, E) \subseteq Jobs /\ IsFiniteSet(Moved(asked, E))
         /\ Cardinality(Moved(asked, E)) \in 0..Cardinality(Jobs) /\ Cardinality(Jobs) \in Nat
<1>1. Moved(asked, E) \in SUBSET Jobs
  BY JobsAre, DisplacedAre DEF Moved
<1>2. IsFiniteSet(Moved(asked, E)) /\ Cardinality(Moved(asked, E)) =< Cardinality(Jobs)
  BY <1>1, JobsAre, FS_Subset
<1>3. Cardinality(Moved(asked, E)) \in Nat /\ Cardinality(Jobs) \in Nat
  BY <1>2, JobsAre, FS_CardinalityType
<1> QED BY <1>1, <1>2, <1>3

\* One event's displaced jobs add to those of the others.
LEMMA MovedSplits ==
  ASSUME NEW asked, NEW E \in SUBSET Events, NEW e \in E
  PROVE  Cardinality(Moved(asked, E)) =
           Cardinality(DisplacedOf(e, asked)) + Cardinality(Moved(asked, E \ {e}))
<1>1. PICK D : D = DisplacedOf(e, asked)
  OBVIOUS
<1>2. PICK M : M = Moved(asked, E \ {e})
  OBVIOUS
<1>3. IsFiniteSet(D) /\ D \subseteq JobsOf(e)
  BY <1>1, DisplacedAre
<1>4. IsFiniteSet(M)
  <2>1. E \ {e} \in SUBSET Events
    OBVIOUS
  <2> QED BY <1>2, <2>1, MovedIs
<1>5. Moved(asked, E) = D \cup M
  BY <1>1, <1>2 DEF Moved
<1>6. D \cap M = {}
  <2> SUFFICES ASSUME NEW j \in D, NEW d \in E \ {e}, j \in DisplacedOf(d, asked) PROVE FALSE
    BY <1>2 DEF Moved
  <2>1. j \in JobsOf(d) /\ j \in JobsOf(e) /\ d \in Events /\ e \in Events /\ d # e
    BY <1>3, DisplacedAre
  <2> QED BY <2>1, JobsAre
<1>7. Cardinality(D \cup M) = Cardinality(D) + Cardinality(M) - Cardinality(D \cap M)
  BY <1>3, <1>4, FS_Union
<1>8. Cardinality(D \cap M) = 0
  BY <1>6, FS_EmptySet
<1>9. Cardinality(D) \in Nat /\ Cardinality(M) \in Nat
  BY <1>3, <1>4, FS_CardinalityType
<1> QED BY <1>1, <1>2, <1>5, <1>7, <1>8, <1>9

\* They are the same if the requests are.
LEMMA MovedSame ==
  ASSUME NEW asked, NEW had, NEW E, \A d \in E : \A j \in JobsOf(d) : asked[j] = had[j]
  PROVE  Moved(asked, E) = Moved(had, E)
<1>1. \A d \in E : DisplacedOf(d, asked) = DisplacedOf(d, had)
  BY DEF DisplacedOf
<1> QED BY <1>1 DEF Moved

\* What a cycle finds as it should be when it plans.
Ready(c) ==
  /\ tracks \in Worlds /\ open \subseteq Events /\ next \subseteq Events
  /\ ACycle(c) /\ Start(c) \in Books(c)
  /\ altered = Cardinality(Moved(requested, Considered(c)))

\* The events the loop considers, but those it has closed once it is past n.
Rest(c, n) == {d \in Considered(c) : d =< n => Unfinished(d, c.done) # {}}

Looped(c, n) ==
  /\ After(c)[n] \in Books(c)
  /\ After(c)[n].altered = Cardinality(Moved(After(c)[n].requested, Rest(c, n)))
  /\ \A d \in Events :
       /\ d > n => SameOf(Start(c), After(c)[n], d)
       /\ d =< n => SameOf(After(c)[d], After(c)[n], d)

\* What counts after a turn: a finished event counts no more, others still do.
LEMMA RestIs ==
  ASSUME NEW c, Ready(c), NEW n \in Nat, n + 1 \in Events
  PROVE  /\ Considered(c) \in SUBSET Events /\ Rest(c, n) \in SUBSET Events
         /\ n + 1 \notin Considered(c) => Rest(c, n + 1) = Rest(c, n)
         /\ n + 1 \in Considered(c) =>
              /\ n + 1 \in Rest(c, n)
              /\ Unfinished(n + 1, c.done) # {} => Rest(c, n + 1) = Rest(c, n)
              /\ Unfinished(n + 1, c.done) = {} => Rest(c, n + 1) = Rest(c, n) \ {n + 1}
<1>1. Considered(c) \in SUBSET Events /\ Rest(c, n) \in SUBSET Events
  BY DEF Ready, Considered, Happened, Rest
<1>2. \A d \in Events : d \in Nat
  BY EventsAre
<1>3. \A d \in Events : (d =< n + 1) <=> (d =< n \/ d = n + 1)
  BY <1>2
<1>4. n + 1 \in Considered(c) => n + 1 \in Rest(c, n)
  BY DEF Rest
<1>5. \A d \in Considered(c) :
        d \in Rest(c, n + 1) <=> (d \in Rest(c, n) /\ (d = n + 1 => Unfinished(d, c.done) # {}))
  BY <1>1, <1>3 DEF Rest
<1>6. Rest(c, n + 1) \subseteq Considered(c) /\ Rest(c, n) \subseteq Considered(c)
  BY DEF Rest
<1> QED BY <1>1, <1>4, <1>5, <1>6

\* A turn keeps altered the number of displaced jobs of what is not finished,
\* of the requests before it and after it.
LEMMA TurnKeepsCount ==
  ASSUME NEW c, Ready(c), NEW n \in Nat, n + 1 \in Events, Looped(c, n)
  PROVE  /\ After(c)[n + 1] \in Books(c) /\ SameBut(After(c)[n], After(c)[n + 1], n + 1)
         /\ After(c)[n + 1].altered =
              Cardinality(Moved(After(c)[n + 1].requested, Rest(c, n + 1)))
<1>1. PICK b : b = After(c)[n]
  OBVIOUS
<1>2. PICK r : r = After(c)[n + 1]
  OBVIOUS
<1>3. PICK e \in Events : e = n + 1
  OBVIOUS
<1>4. r = Turn(b, e, c)
  <2>1. e - 1 = n
    BY <1>3
  <2> QED BY <1>1, <1>2, <1>3, <2>1, AfterIs
<1>5. b \in Books(c) /\ b.altered = Cardinality(Moved(b.requested, Rest(c, n)))
  BY <1>1 DEF Looped
<1>6. CASE e \notin Considered(c)
  <2>1. r = b /\ Rest(c, n + 1) = Rest(c, n)
    BY <1>3, <1>4, <1>6, RestIs DEF Turn
  <2> QED BY <1>1, <1>2, <1>5, <2>1 DEF SameBut
<1>7. CASE e \in Considered(c)
  <2>1. r = Consider(b, e, c)
    BY <1>4, <1>7 DEF Turn
  <2>2. PICK E \in SUBSET Events : E = Rest(c, n)
    BY <1>3, RestIs
  <2>3. e \in E
    BY <1>3, <1>7, <2>2, RestIs
  <2>4. PICK k \in Nat : k = Cardinality(DisplacedOf(e, b.requested))
    BY DisplacedAre
  <2>5. PICK l \in Nat : l = Cardinality(DisplacedOf(e, r.requested))
    BY DisplacedAre
  <2>6. PICK m \in Nat : m = Cardinality(Moved(b.requested, E \ {e}))
    <3>1. E \ {e} \in SUBSET Events
      OBVIOUS
    <3>2. Cardinality(Moved(b.requested, E \ {e})) \in 0..Cardinality(Jobs) /\ Cardinality(Jobs) \in Nat
      BY <3>1, MovedIs
    <3> QED BY <3>2
  <2>7. /\ r \in Books(c) /\ SameBut(b, r, e)
        /\ Unfinished(e, c.done) = {} => r.altered = b.altered - k
        /\ Unfinished(e, c.done) # {} => r.altered = b.altered + l - k
    <3>1. tracks \in Worlds /\ ACycle(c) /\ b \in Books(c) /\ e \in Events
      BY <1>5 DEF Ready
    <3>2. /\ r \in Books(c) /\ SameBut(b, r, e)
          /\ Unfinished(e, c.done) = {} =>
               r.altered = b.altered - Cardinality(DisplacedOf(e, b.requested))
          /\ Unfinished(e, c.done) # {} =>
               r.altered = b.altered + Cardinality(DisplacedOf(e, r.requested))
                                     - Cardinality(DisplacedOf(e, b.requested))
      BY ONLY <2>1, <3>1, ConsiderKeeps
    <3> QED BY <2>4, <2>5, <3>2
  <2>8. b.altered = k + m
    BY <1>5, <2>2, <2>3, <2>4, <2>6, MovedSplits
  <2>9. Moved(r.requested, E \ {e}) = Moved(b.requested, E \ {e})
    <3>1. \A d \in E \ {e} : SameOf(b, r, d)
      BY <2>7, OthersAreSame
    <3>2. \A d \in E \ {e} : \A j \in JobsOf(d) : r.requested[j] = b.requested[j]
      BY <3>1 DEF SameOf
    <3> QED BY <3>2, MovedSame
  <2>10. CASE Unfinished(e, c.done) = {}
    <3>1. Rest(c, n + 1) = E \ {e}
      BY <1>3, <1>7, <2>2, <2>10, RestIs
    <3>2. r.altered = m
      BY <2>4, <2>6, <2>7, <2>8, <2>10
    <3> QED BY <1>1, <1>2, <1>3, <2>6, <2>7, <2>9, <3>1, <3>2
  <2>11. CASE Unfinished(e, c.done) # {}
    <3>1. Rest(c, n + 1) = E
      BY <1>3, <1>7, <2>2, <2>11, RestIs
    <3>2. r.altered = l + m
      BY <2>4, <2>5, <2>6, <2>7, <2>8, <2>11
    <3>3. Cardinality(Moved(r.requested, E)) = l + m
      BY <2>3, <2>5, <2>6, <2>9, MovedSplits
    <3> QED BY <1>1, <1>2, <1>3, <2>7, <3>1, <3>2, <3>3
  <2> QED BY <2>10, <2>11
<1> QED BY <1>6, <1>7

\* So does the whole loop, by induction on its turns.
LEMMA LoopRuns ==
  ASSUME NEW c, Ready(c)
  PROVE  \A n \in 0..N : Looped(c, n)
<1> DEFINE S == {n \in Nat : n =< N => Looped(c, n)}
<1>1. Looped(c, 0)
  <2>1. After(c)[0] = Start(c) /\ \A d \in Events : d > 0 /\ ~(d =< 0)
    BY AfterIs, EventsAre
  <2>2. Rest(c, 0) = Considered(c)
    BY <2>1 DEF Rest, Ready, Considered, Happened
  <2>3. Start(c).altered = altered /\ Start(c).requested = requested
    BY DEF Start
  <2>4. \A d \in Events : SameOf(Start(c), Start(c), d)
    BY DEF SameOf
  <2> QED BY <2>1, <2>2, <2>3, <2>4 DEF Looped, Ready
<1>2. ASSUME NEW n \in Nat, n + 1 =< N, Looped(c, n) PROVE Looped(c, n + 1)
  <2>1. n + 1 \in Events
    BY <1>2, EventsAre
  <2>2. PICK b : b = After(c)[n]
    OBVIOUS
  <2>3. PICK r : r = After(c)[n + 1]
    OBVIOUS
  <2>4. /\ r \in Books(c) /\ SameBut(b, r, n + 1)
        /\ r.altered = Cardinality(Moved(r.requested, Rest(c, n + 1)))
    BY <1>2, <2>1, <2>2, <2>3, TurnKeepsCount
  <2>5. ASSUME NEW d \in Events
        PROVE  /\ d > n + 1 => SameOf(Start(c), r, d)
               /\ d =< n + 1 => SameOf(After(c)[d], r, d)
    <3>1. d \in Nat
      BY EventsAre
    <3>2. d # n + 1 => SameOf(b, r, d)
      BY <2>1, <2>4, OthersAreSame
    <3>3. CASE d = n + 1
      <4>1. ~(d > n + 1) /\ After(c)[d] = r
        BY <2>3, <3>3
      <4> QED BY <4>1 DEF SameOf
    <3>4. CASE d > n + 1
      <4>1. d > n /\ d # n + 1 /\ ~(d =< n + 1)
        BY <3>1, <3>4
      <4>2. SameOf(Start(c), b, d)
        BY <1>2, <2>2, <4>1 DEF Looped
      <4> QED BY <3>2, <4>1, <4>2 DEF SameOf
    <3>5. CASE d =< n
      <4>1. ~(d > n + 1) /\ d # n + 1
        BY <3>1, <3>5
      <4>2. SameOf(After(c)[d], b, d)
        BY <1>2, <2>2, <3>5 DEF Looped
      <4> QED BY <3>2, <4>1, <4>2 DEF SameOf
    <3> QED BY <3>1, <3>3, <3>4, <3>5
  <2> QED BY <2>3, <2>4, <2>5 DEF Looped
<1>3. 0 \in S
  BY <1>1
<1>4. \A n \in Nat : n \in S => n + 1 \in S
  <2> SUFFICES ASSUME NEW n \in Nat, n \in S, n + 1 =< N PROVE Looped(c, n + 1)
    OBVIOUS
  <2>1. n =< N
    BY EventsAre
  <2> QED BY <1>2, <2>1
<1>5. Nat \subseteq S
  <2> HIDE DEF S
  <2> QED BY <1>3, <1>4, Induction
<1> QED BY <1>5, EventsAre

\* What an event's turn makes of it is what the cycle makes of it.
LEMMA TurnIs ==
  ASSUME NEW c, Ready(c), NEW e \in Events
  PROVE  \E b \in Books(c) :
           /\ SameOf(Start(c), b, e) /\ SameOf(Turn(b, e, c), Planned(c), e)
           /\ e \in Considered(c) /\ b.altered = 0 => DisplacedOf(e, b.requested) = {}
<1>1. PICK n \in Nat : n + 1 = e /\ n \in 0..N /\ e \in 0..N /\ N \in 0..N /\ e =< N /\ e > n
                       /\ n = e - 1
  <2>1. e \in 1..N /\ N \in Nat
    BY EventsAre
  <2>2. e - 1 \in Nat /\ e - 1 \in 0..N /\ (e - 1) + 1 = e /\ e > e - 1
    BY <2>1
  <2> QED BY <2>1, <2>2
<1>2. PICK b : b = After(c)[n]
  OBVIOUS
<1>3. Looped(c, n) /\ Looped(c, N)
  BY <1>1, LoopRuns
<1>4. b \in Books(c) /\ SameOf(Start(c), b, e)
  BY <1>1, <1>2, <1>3 DEF Looped
<1>5. After(c)[e] = Turn(b, e, c)
  BY <1>1, <1>2, AfterIs
<1>6. SameOf(Turn(b, e, c), Planned(c), e)
  BY <1>1, <1>3, <1>5, PlannedIs DEF Looped
<1>7. ASSUME e \in Considered(c), b.altered = 0 PROVE DisplacedOf(e, b.requested) = {}
  <2>1. PICK E \in SUBSET Events : E = Rest(c, n)
    BY <1>1, RestIs
  <2>2. e \in E
    BY <1>1, <1>7, <2>1, RestIs
  <2>3. Cardinality(Moved(b.requested, E)) = 0
    BY <1>2, <1>3, <1>7, <2>1 DEF Looped
  <2>4. Moved(b.requested, E) = {}
    BY <2>3, MovedIs, FS_EmptySet
  <2> QED BY <2>2, <2>4 DEF Moved
<1> QED BY <1>4, <1>6, <1>7

\* And altered is left counting the events that are still open.
LEMMA PlanIsKept ==
  ASSUME NEW c, Ready(c)
  PROVE  /\ Planned(c) \in Books(c)
         /\ Planned(c).altered =
              Cardinality(Moved(Planned(c).requested,
                                {e \in Considered(c) : Unfinished(e, c.done) # {}}))
<1>1. N \in 0..N /\ \A e \in Events : e =< N
  BY EventsAre
<1>2. Looped(c, N)
  BY <1>1, LoopRuns
<1>3. Rest(c, N) = {e \in Considered(c) : Unfinished(e, c.done) # {}}
  BY <1>1 DEF Rest, Ready, Considered, Happened
<1> QED BY <1>2, <1>3, PlannedIs DEF Looped

-----------------------------------------------------------------------------
(* One event with intent switched off.                                      *)

\* With intent off, what is wanted displaces nothing.
LEMMA WantOff ==
  ASSUME NEW s \in SettingsSet, s.mode = "off", NEW have \in Requests, NEW j \in Jobs
  PROVE  ~Displaces(Want("kept", have, j, s), j)
<1>1. Class("kept", have, j, s) = ""
  BY DEF Class
<1>2. "" \notin s.exempt
  BY SettingsAre DEF Classes
<1>3. Want("kept", have, j, s).priority = Submitted[j]
  BY <1>1 DEF Want
<1>4. ~Want("kept", have, j, s).exempt
  BY <1>1, <1>2 DEF Want
<1> QED BY <1>3, <1>4 DEF Displaces

\* With intent off, a turn leaves an event with nothing displaced.
LEMMA ConsiderOff ==
  ASSUME NEW c, ACycle(c), c.settings.mode = "off", NEW b \in Books(c), NEW e \in Events,
         Unfinished(e, c.done) # {},
         b.altered = 0 => DisplacedOf(e, b.requested) = {},
         b.judged[e].generation = c.generation =>
           \A j \in Unfinished(e, c.done) : ~Displaces(b.requested[j], j)
  PROVE  LET r == Consider(b, e, c)
         IN /\ r.judged[e].state = "kept" /\ r.judged[e].basis = "off"
            /\ \A j \in Unfinished(e, c.done) : ~Displaces(r.requested[j], j)
<1>1. PICK r : r = Consider(b, e, c)
  OBVIOUS
<1>2. PICK q : q = LetGo(b, e)
  OBVIOUS
<1>3. /\ q \in Books(c) /\ q.judged[e] = LetGoNow(b.judged[e])
      /\ q.requested = b.requested /\ q.altered = b.altered
  BY <1>2, LetGoIs
<1>4. b.judged[e] \in Judgements(c.at, c.generation)
  BY DEF Books
<1>5. /\ q.judged[e].state = "kept" /\ q.judged[e].basis = "off"
      /\ q.judged[e].generation = b.judged[e].generation
  BY <1>3, <1>4 DEF LetGoNow, Judgements
<1>6. \A j \in Unfinished(e, c.done) : j \in Jobs /\ j \in JobsOf(e)
  BY JobsAre DEF Unfinished
<1>7. CASE b.altered = 0
  <2>1. r = q
    BY <1>1, <1>2, <1>7, ConsiderIs
  <2>2. \A j \in JobsOf(e) : ~Displaces(b.requested[j], j)
    BY <1>7 DEF DisplacedOf
  <2> QED BY <1>1, <1>3, <1>5, <1>6, <2>1, <2>2
<1>8. CASE b.altered # 0
  <2>1. r = Request(q, e, c)
    BY <1>1, <1>2, <1>8, ConsiderIs
  <2>2. /\ r.judged[e] = AskedNow(q.judged[e], c)
        /\ \/ /\ q.judged[e].asked = q.judged[e].state /\ q.judged[e].generation = c.generation
              /\ r.requested = q.requested
           \/ \A j \in Unfinished(e, c.done) :
                r.requested[j] = Want(q.judged[e].state, q.requested[j], j, c.settings)
    <3>1. ACycle(c) /\ q \in Books(c) /\ e \in Events
      BY <1>3
    <3> QED BY ONLY <2>1, <3>1, RequestIs
  <2>3. r.judged[e].state = "kept" /\ r.judged[e].basis = "off"
    <3>1. q.judged[e] \in Judgements(c.at, c.generation)
      BY <1>3 DEF Books
    <3> QED BY <1>5, <2>2, <3>1 DEF AskedNow, Judgements
  <2>4. ASSUME NEW j \in Unfinished(e, c.done) PROVE ~Displaces(r.requested[j], j)
    <3>1. CASE q.judged[e].generation = c.generation /\ r.requested = q.requested
      BY <1>3, <1>5, <3>1
    <3>2. CASE r.requested[j] = Want(q.judged[e].state, q.requested[j], j, c.settings)
      <4>1. q.requested[j] \in Requests /\ c.settings \in SettingsSet
        BY <1>3, <1>6 DEF Books, ACycle
      <4> QED BY <1>5, <1>6, <3>2, <4>1, WantOff
    <3> QED BY <2>2, <3>1, <3>2
  <2> QED BY <1>1, <2>3, <2>4
<1> QED BY <1>7, <1>8

-----------------------------------------------------------------------------
(* The planner keeps track of what it asked for.                            *)

\* An event not yet seen has not been judged, and nothing is asked of it.
Untouched == \A e \in next : judged[e] = NoJudgement /\ DisplacedOf(e, requested) = {}

\* Switched off, every event is let go of and its work put back.
Undone ==
  settings.mode = "off" => \A e \in open :
    /\ judged[e].state = "kept" /\ judged[e].basis = "off"
    /\ \A j \in JobsOf(e) : status[j] # "finished" => ~Displaces(requested[j], j)

\* What was last told of an event is how it stands, if that was worth telling.
TellsAll ==
  \A e \in Events :
    \/ told[e] = Verdict(judged[e])
    \/ told[e] = Untold /\ (judged[e].state = "unknown" \/ judged[e].basis = "off")

KeepsTrack ==
  /\ TypeOK /\ location = [e \in Events |-> location[e]]
  /\ AlteredCounts /\ AskedIsHeld /\ Untouched /\ Undone /\ TellsAll

\* A step is a cycle c, and what Plan makes of it.
Steps(c) ==
  /\ Ready(c)
  /\ c.at = now + 1 /\ c.settings \in SettingsSet
  /\ c.generation \in {generation, generation + 1}
  /\ c.generation = generation => now > 0 /\ c.settings = settings
  /\ \A e \in Events : location[e] # NoLocation => c.location[e] = location[e]
  /\ \A j \in Jobs : /\ j \in c.done <=> status'[j] = "finished"
                     /\ status[j] = "finished" => j \in c.done
                     /\ status'[j] = "waiting" => status[j] = "waiting"
  /\ status' \in [Jobs -> {"waiting", "running", "finished"}]
  /\ tracks' = tracks /\ now' = c.at /\ settings' = c.settings /\ generation' = c.generation
  /\ location' = c.location /\ location' = [e \in Events |-> location'[e]]
  /\ now' \in 0..Horizon /\ generation' \in 1..(MaxChanges + 2)
  /\ next' = next \ Happened(c.at)
  /\ open' = {e \in Considered(c) : Unfinished(e, c.done) # {}}
  /\ judged' = Planned(c).judged /\ struck' = Planned(c).struck
  /\ requested' = Planned(c).requested /\ altered' = Planned(c).altered
  /\ held' = Reprioritised(Planned(c).requested, status')
  /\ told' = [e \in Events |-> Told(told[e], Verdict(judged[e]), Verdict(Planned(c).judged[e]))]

\* The loop starts from what the planner remembers, with nothing settled if the
\* settings are new.
LEMMA StartIs ==
  ASSUME KeepsTrack, NEW c, c.at = now + 1, c.generation \in {generation, generation + 1}
  PROVE  /\ Start(c) \in Books(c)
         /\ \A e \in Events :
              Start(c).judged[e] =
                IF c.generation = generation THEN judged[e] ELSE [judged[e] EXCEPT !.slack = 0]
         /\ \A e \in Events :
              Start(c).struck[e] = IF c.generation = generation THEN struck[e] ELSE Unmeasured
         /\ Start(c).requested = requested /\ Start(c).altered = altered
<1>1. /\ now \in Nat /\ generation \in Nat
      /\ judged \in [Events -> Judgements(now, generation)]
      /\ struck \in [Events -> Strikes] /\ requested \in [Jobs -> Requests] /\ altered \in Int
  <2>1. Horizon \in Nat /\ MaxChanges \in Nat /\ Cardinality(Jobs) \in Nat
    BY PlannerAssumption, JobsAre, FS_CardinalityType
  <2> QED BY <2>1 DEF KeepsTrack, TypeOK, Judgements, Strikes, Requests
<1>2. 0..now \subseteq 0..c.at /\ 0..generation \subseteq 0..c.generation
  BY <1>1
<1>3. Judgements(now, generation) \subseteq Judgements(c.at, c.generation)
  BY <1>2 DEF Judgements
<1>4. \A e \in Events : [judged[e] EXCEPT !.slack = 0] \in Judgements(c.at, c.generation)
  <2> TAKE e \in Events
  <2>1. judged[e] \in Judgements(c.at, c.generation)
    BY <1>1, <1>3
  <2> QED BY <2>1 DEF Judgements
<1>5. Unmeasured \in Strikes
  BY DEF Unmeasured, Strikes, Far
<1>6. CASE c.generation = generation
  <2>1. Configured(c).judged = judged /\ Configured(c).struck = struck
    BY <1>6 DEF Configured
  <2>2. judged \in [Events -> Judgements(c.at, c.generation)]
    BY <1>1, <1>3
  <2> QED BY <1>1, <1>6, <2>1, <2>2 DEF Start, Books
<1>7. CASE c.generation # generation
  <2>1. /\ Configured(c).judged = [e \in Events |-> [judged[e] EXCEPT !.slack = 0]]
        /\ Configured(c).struck = [e \in Events |-> Unmeasured]
    BY <1>7 DEF Configured
  <2> QED BY <1>1, <1>4, <1>5, <1>7, <2>1 DEF Start, Books
<1> QED BY <1>6, <1>7

\* Every step of the system is a cycle of the planner.
LEMMA StepIs ==
  ASSUME KeepsTrack, Next
  PROVE  \E c : Steps(c)
<1>1. PICK s \in SettingsSet, g \in {generation, generation + 1} :
        g =< MaxChanges + 2 /\
        \E st \in Served(now + 1) : \E loc \in Locations(st) : Cycle(st, loc, s, g)
  BY DEF Next
<1>2. PICK st \in Served(now + 1) : \E loc \in Locations(st) : Cycle(st, loc, s, g)
  BY <1>1
<1>3. PICK loc \in Locations(st) : Cycle(st, loc, s, g)
  BY <1>2
<1>4. PICK c : c = [at |-> now + 1, settings |-> s, generation |-> g, location |-> loc,
                    done |-> {j \in Jobs : st[j] = "finished"}]
  OBVIOUS
<1>5. /\ c.at = now + 1 /\ c.settings = s /\ c.generation = g /\ c.location = loc
      /\ c.done = {j \in Jobs : st[j] = "finished"}
  BY <1>4
<1>6. /\ now < Horizon
      /\ g = generation => now > 0 /\ s = settings
      /\ now' = c.at
      /\ status' = st /\ location' = loc /\ settings' = s /\ generation' = g
      /\ next' = next \ Happened(c.at)
      /\ open' = {e \in open \cup Happened(c.at) : Unfinished(e, c.done) # {}}
      /\ judged' = Planned(c).judged /\ struck' = Planned(c).struck
      /\ requested' = Planned(c).requested /\ altered' = Planned(c).altered
      /\ held' = Reprioritised(Planned(c).requested, st)
      /\ told' = [e \in Events |-> Told(told[e], Verdict(judged[e]), Verdict(Planned(c).judged[e]))]
      /\ tracks' = tracks
  BY <1>3, <1>4 DEF Cycle
<1>7. TypeOK /\ location = [e \in Events |-> location[e]]
  BY DEF KeepsTrack
<1>8. /\ st \in [Jobs -> {"waiting", "running", "finished"}]
      /\ \A j \in Jobs : /\ status[j] = "finished" => st[j] = "finished"
                         /\ st[j] = "waiting" => status[j] = "waiting"
  <2>1. status \in [Jobs -> {"waiting", "running", "finished"}]
    BY <1>7 DEF TypeOK
  <2>2. CASE st = status
    BY <2>1, <2>2
  <2>3. CASE \E i \in Arrived(now + 1), to \in {"running", "finished"} :
               status[i] = "waiting" /\ st = [status EXCEPT ![i] = to]
    BY <2>1, <2>3 DEF Arrived
  <2>4. CASE \E i \in Jobs : status[i] = "running" /\ st = [status EXCEPT ![i] = "finished"]
    BY <2>1, <2>4
  <2> QED BY <2>2, <2>3, <2>4 DEF Served
<1>9. /\ loc = [e \in Events |-> loc[e]]
      /\ \A e \in Events : /\ loc[e] \in {NoLocation} \cup Estimates[e]
                           /\ location[e] # NoLocation => loc[e] = location[e]
  <2>1. \A e \in Events : location[e] \in {NoLocation} \cup Estimates[e]
    BY <1>7 DEF TypeOK
  <2>2. CASE loc = location
    BY <1>7, <2>1, <2>2
  <2>3. CASE \E d \in Events : \E l \in Estimates[d] :
               location[d] = NoLocation /\ loc = [location EXCEPT ![d] = l]
    <3>1. PICK d \in Events : \E l \in Estimates[d] :
            location[d] = NoLocation /\ loc = [location EXCEPT ![d] = l]
      BY <2>3
    <3>2. PICK l \in Estimates[d] : location[d] = NoLocation /\ loc = [location EXCEPT ![d] = l]
      BY <3>1
    <3>3. loc = [e \in Events |-> IF e = d THEN l ELSE location[e]]
      BY <1>7, <3>2
    <3> QED BY <2>1, <3>2, <3>3
  <2>4. ASSUME loc # location
        PROVE  \E d \in Events : \E l \in Estimates[d] :
                 location[d] = NoLocation /\ loc = [location EXCEPT ![d] = l]
    <3>1. PICK d \in {i \in Events : /\ location[i] = NoLocation
                                    /\ Cardinality({j \in JobsOf(i) : st[j] = "finished"}) >= MinimumPicks} :
            loc \in {[location EXCEPT ![d] = l] : l \in Estimates[d]}
      BY <2>4 DEF Locations
    <3> QED BY <3>1
  <2> QED BY <2>2, <2>3, <2>4
<1>10. now \in Nat /\ generation \in Nat /\ generation >= 1 /\ Horizon \in Nat /\ MaxChanges \in Nat
  BY <1>7, PlannerAssumption DEF TypeOK
<1>11. tracks \in Worlds /\ open \subseteq Events /\ next \subseteq Events
  BY <1>7 DEF TypeOK
<1>12. ACycle(c)
  BY <1>1, <1>5, <1>9, <1>10 DEF ACycle
<1>13. Start(c) \in Books(c)
  BY <1>1, <1>5, StartIs
<1>14. altered = Cardinality(Moved(requested, Considered(c)))
  <2>1. altered = Cardinality(Moved(requested, open))
    BY DEF KeepsTrack, AlteredCounts, Moved
  <2>2. \A e \in Happened(c.at) : DisplacedOf(e, requested) = {}
    BY DEF KeepsTrack, Untouched, Happened
  <2>3. Moved(requested, Considered(c)) = Moved(requested, open)
    BY <2>2 DEF Moved, Considered
  <2> QED BY <2>1, <2>3
<1>15. Ready(c)
  BY <1>11, <1>12, <1>13, <1>14 DEF Ready
<1>16. now' \in 0..Horizon /\ generation' \in 1..(MaxChanges + 2)
  BY <1>1, <1>5, <1>6, <1>10
<1>17. \A j \in Jobs : /\ j \in c.done <=> status'[j] = "finished"
                       /\ status[j] = "finished" => j \in c.done
                       /\ status'[j] = "waiting" => status[j] = "waiting"
  BY <1>5, <1>6, <1>8
<1>18. open' = {e \in Considered(c) : Unfinished(e, c.done) # {}}
  BY <1>6 DEF Considered
<1>19. Steps(c)
  BY <1>1, <1>5, <1>6, <1>8, <1>9, <1>15, <1>16, <1>17, <1>18 DEF Steps
<1> QED BY <1>19

\* What a step leaves of an event it does not consider, and what it starts
\* from with one it does.
LEMMA OfEach ==
  ASSUME KeepsTrack, NEW c, Steps(c), NEW e \in Events
  PROVE  \E b \in Books(c) :
           /\ b.judged[e] = IF c.generation = generation
                            THEN judged[e] ELSE [judged[e] EXCEPT !.slack = 0]
           /\ b.struck[e] = IF c.generation = generation THEN struck[e] ELSE Unmeasured
           /\ \A j \in JobsOf(e) : b.requested[j] = requested[j]
           /\ e \in Considered(c) /\ b.altered = 0 => DisplacedOf(e, b.requested) = {}
           /\ SameOf(Turn(b, e, c), Planned(c), e)
<1>1. Ready(c)
  BY DEF Steps
<1>2. PICK b \in Books(c) :
         /\ SameOf(Start(c), b, e) /\ SameOf(Turn(b, e, c), Planned(c), e)
         /\ e \in Considered(c) /\ b.altered = 0 => DisplacedOf(e, b.requested) = {}
  BY <1>1, TurnIs
<1>3. c.at = now + 1 /\ c.generation \in {generation, generation + 1}
  BY DEF Steps
<1>4. PICK a : a = Start(c)
  OBVIOUS
<1>5. /\ a.judged[e] = IF c.generation = generation
                       THEN judged[e] ELSE [judged[e] EXCEPT !.slack = 0]
      /\ a.struck[e] = IF c.generation = generation THEN struck[e] ELSE Unmeasured
      /\ a.requested = requested
  BY <1>3, <1>4, StartIs
<1>6. /\ b.judged[e] = a.judged[e] /\ b.struck[e] = a.struck[e]
      /\ \A j \in JobsOf(e) : b.requested[j] = a.requested[j]
  BY <1>2, <1>4 DEF SameOf
<1>7. /\ b.judged[e] = IF c.generation = generation
                       THEN judged[e] ELSE [judged[e] EXCEPT !.slack = 0]
      /\ b.struck[e] = IF c.generation = generation THEN struck[e] ELSE Unmeasured
      /\ \A j \in JobsOf(e) : b.requested[j] = requested[j]
  BY ONLY <1>5, <1>6
<1> WITNESS b \in Books(c)
<1> QED BY <1>2, <1>7

\* The planner starts with a track that is kept.
LEMMA KeepsTrackInit == Init => KeepsTrack
<1> SUFFICES ASSUME Init PROVE KeepsTrack
  OBVIOUS
<1>1. /\ tracks \in Worlds /\ now = 0 /\ status = [j \in Jobs |-> "waiting"]
      /\ location = [e \in Events |-> NoLocation] /\ settings \in SettingsSet /\ generation = 1
      /\ next = Events /\ open = {} /\ judged = [e \in Events |-> NoJudgement]
      /\ struck = [e \in Events |-> Unmeasured]
      /\ requested = [j \in Jobs |-> [priority |-> Submitted[j], exempt |-> FALSE, moved |-> FALSE]]
      /\ altered = 0 /\ held = [j \in Jobs |-> AsSubmitted(j)] /\ told = [e \in Events |-> Untold]
  BY DEF Init
<1>2. \A j \in Jobs : Submitted[j] \in Int
  BY PlannerAssumption
<1>3. TypeOK
  <2>1. Horizon \in Nat /\ MaxChanges \in Nat /\ Cardinality(Jobs) \in Nat
    BY PlannerAssumption, JobsAre, FS_CardinalityType
  <2>2. NoJudgement \in [state: States, basis: Bases, at: 0..now, slack: Nat,
                         from: Drift \cup {Nowhere}, asked: States, generation: 0..generation]
    <3>1. 0 \in 0..now /\ 0 \in 0..generation
      BY <1>1
    <3> QED BY <3>1 DEF NoJudgement, States, Bases
  <2>3. Unmeasured \in [measured: BOOLEAN, from: Drift \cup {Nowhere}, distance: Nat]
    BY DEF Unmeasured, Far
  <2>4. requested \in [Jobs -> [priority: Int, exempt: BOOLEAN, moved: BOOLEAN]]
    BY <1>1, <1>2
  <2>5. held \in [Jobs -> [priority: Int, exempt: BOOLEAN]]
    BY <1>1, <1>2 DEF AsSubmitted
  <2>6. Untold \in [state: States, basis: Bases]
    BY DEF Untold, States, Bases
  <2>7. now \in 0..Horizon /\ generation \in 1..(MaxChanges + 2) /\ altered \in 0..Cardinality(Jobs)
    BY <1>1, <2>1
  <2>8. /\ judged \in [Events -> [state: States, basis: Bases, at: 0..now, slack: Nat,
                                  from: Drift \cup {Nowhere}, asked: States, generation: 0..generation]]
        /\ struck \in [Events -> [measured: BOOLEAN, from: Drift \cup {Nowhere}, distance: Nat]]
        /\ told \in [Events -> [state: States, basis: Bases]]
    BY <1>1, <2>2, <2>3, <2>6
  <2>9. /\ status \in [Jobs -> {"waiting", "running", "finished"}]
        /\ \A e \in Events : location[e] \in {NoLocation} \cup Estimates[e]
        /\ next \subseteq Events /\ open \subseteq Events \ next
    BY <1>1
  <2> QED BY <1>1, <2>4, <2>5, <2>7, <2>8, <2>9 DEF TypeOK
<1>4. location = [e \in Events |-> location[e]]
  BY <1>1
<1>5. AlteredCounts
  <2>1. UNION {DisplacedOf(e, requested) : e \in open} = {}
    BY <1>1
  <2> QED BY <1>1, <2>1, FS_EmptySet DEF AlteredCounts
<1>6. AskedIsHeld
  BY <1>1 DEF AskedIsHeld, AsSubmitted
<1>7. Untouched
  <2>1. \A e \in Events : \A j \in JobsOf(e) : ~Displaces(requested[j], j)
    <3> TAKE e \in Events
    <3> TAKE j \in JobsOf(e)
    <3>1. requested[j] = [priority |-> Submitted[j], exempt |-> FALSE, moved |-> FALSE]
      BY <1>1, JobsAre
    <3> QED BY <3>1 DEF Displaces
  <2> QED BY <1>1, <2>1 DEF Untouched, DisplacedOf
<1>8. Undone
  BY <1>1 DEF Undone
<1>9. TellsAll
  BY <1>1 DEF TellsAll, Verdict, NoJudgement, Untold
<1> QED BY <1>3, <1>4, <1>5, <1>6, <1>7, <1>8, <1>9 DEF KeepsTrack

\* A cycle keeps the types, and altered counts what is displaced.
LEMMA TypeStep == ASSUME KeepsTrack, NEW c, Steps(c) PROVE TypeOK' /\ AlteredCounts'
<1>1. PICK p : p = Planned(c)
  OBVIOUS
<1>2. Ready(c)
  BY DEF Steps
<1>3. /\ p \in Books(c)
      /\ p.altered = Cardinality(Moved(p.requested, {e \in Considered(c) : Unfinished(e, c.done) # {}}))
  BY <1>1, <1>2, PlanIsKept
<1>4. /\ c.settings \in SettingsSet
      /\ status' \in [Jobs -> {"waiting", "running", "finished"}]
      /\ tracks' = tracks /\ now' = c.at /\ settings' = c.settings /\ generation' = c.generation
      /\ location' = c.location
      /\ now' \in 0..Horizon /\ generation' \in 1..(MaxChanges + 2)
      /\ next' = next \ Happened(c.at)
      /\ open' = {e \in Considered(c) : Unfinished(e, c.done) # {}}
      /\ judged' = p.judged /\ struck' = p.struck
      /\ requested' = p.requested /\ altered' = p.altered
      /\ held' = Reprioritised(p.requested, status')
      /\ told' = [e \in Events |-> Told(told[e], Verdict(judged[e]), Verdict(p.judged[e]))]
  BY <1>1 DEF Steps
<1>5. TypeOK
  BY DEF KeepsTrack
<1>6. tracks' \in Worlds /\ \A e \in Events : location'[e] \in {NoLocation} \cup Estimates[e]
  BY <1>2, <1>4 DEF Ready, ACycle
<1>7. next \subseteq Events /\ open \subseteq Events \ next
  BY <1>5 DEF TypeOK
<1>8. next' \subseteq Events /\ open' \subseteq Events \ next' /\ open' \in SUBSET Events
  BY <1>4, <1>7 DEF Considered, Happened
<1>9. /\ judged' \in [Events -> [state: States, basis: Bases, at: 0..now', slack: Nat,
                                 from: Drift \cup {Nowhere}, asked: States, generation: 0..generation']]
      /\ struck' \in [Events -> [measured: BOOLEAN, from: Drift \cup {Nowhere}, distance: Nat]]
      /\ requested' \in [Jobs -> [priority: Int, exempt: BOOLEAN, moved: BOOLEAN]]
  BY <1>3, <1>4 DEF Books, Judgements, Strikes, Requests
<1>10. AlteredCounts'
  BY <1>3, <1>4 DEF AlteredCounts, Moved
<1>11. altered' \in 0..Cardinality(Jobs)
  BY <1>3, <1>4, <1>8, MovedIs
<1>12. held' \in [Jobs -> [priority: Int, exempt: BOOLEAN]]
  <2>1. \A j \in Jobs : held'[j] \in [priority: Int, exempt: BOOLEAN]
    <3> TAKE j \in Jobs
    <3>1. p.requested[j] \in Requests /\ held[j] \in [priority: Int, exempt: BOOLEAN]
      BY <1>3, <1>5 DEF Books, TypeOK
    <3> QED BY <1>4, <3>1 DEF Reprioritised, Requests
  <2> QED BY <1>4, <2>1 DEF Reprioritised
<1>13. told' \in [Events -> [state: States, basis: Bases]]
  <2>1. \A e \in Events : told'[e] \in [state: States, basis: Bases]
    <3> TAKE e \in Events
    <3>1. p.judged[e] \in Judgements(c.at, c.generation) /\ told[e] \in [state: States, basis: Bases]
      BY <1>3, <1>5 DEF Books, TypeOK
    <3>2. Verdict(p.judged[e]) \in [state: States, basis: Bases]
      BY <3>1 DEF Verdict, Judgements
    <3> QED BY <1>4, <3>1, <3>2 DEF Told
  <2> QED BY <1>4, <2>1
<1> QED BY <1>4, <1>6, <1>8, <1>9, <1>10, <1>11, <1>12, <1>13 DEF TypeOK

\* What was requested is what the queue holds.
LEMMA AskedStep == ASSUME KeepsTrack, NEW c, Steps(c) PROVE AskedIsHeld'
<1>1. PICK p : p = Planned(c)
  OBVIOUS
<1>2. p \in Books(c)
  BY <1>1, PlanIsKept DEF Steps
<1>3. /\ requested' = p.requested /\ held' = Reprioritised(p.requested, status')
      /\ \A j \in Jobs : status'[j] = "waiting" => status[j] = "waiting"
  BY <1>1 DEF Steps
<1>4. AskedIsHeld
  BY DEF KeepsTrack
<1>5. ASSUME NEW j \in Jobs, status'[j] = "waiting"
      PROVE  held'[j] = [priority |-> requested'[j].priority, exempt |-> requested'[j].exempt]
  <2>1. held'[j] = IF p.requested[j] # requested[j]
                   THEN [priority |-> p.requested[j].priority, exempt |-> p.requested[j].exempt]
                   ELSE held[j]
    BY <1>3, <1>5 DEF Reprioritised
  <2>2. held[j] = [priority |-> requested[j].priority, exempt |-> requested[j].exempt]
    BY <1>3, <1>4, <1>5 DEF AskedIsHeld
  <2> QED BY <1>3, <2>1, <2>2
<1> QED BY <1>5 DEF AskedIsHeld

\* A cycle leaves events it has not come to untouched.
LEMMA UntouchedStep == ASSUME KeepsTrack, NEW c, Steps(c) PROVE Untouched'
<1> SUFFICES ASSUME NEW e \in next' PROVE judged'[e] = NoJudgement /\ DisplacedOf(e, requested') = {}
  BY DEF Untouched
<1>1. PICK p : p = Planned(c)
  OBVIOUS
<1>2. next' = next \ Happened(c.at) /\ judged' = p.judged /\ requested' = p.requested
  BY <1>1 DEF Steps
<1>3. next \subseteq Events /\ open \subseteq Events \ next /\ Untouched
  BY DEF KeepsTrack, TypeOK
<1>4. e \in next /\ e \in Events /\ e \notin Considered(c)
  BY <1>2, <1>3 DEF Considered
<1>5. judged[e] = NoJudgement /\ DisplacedOf(e, requested) = {}
  BY <1>3, <1>4 DEF Untouched
<1>6. PICK b \in Books(c) :
        /\ b.judged[e] = IF c.generation = generation
                         THEN judged[e] ELSE [judged[e] EXCEPT !.slack = 0]
        /\ \A j \in JobsOf(e) : b.requested[j] = requested[j]
        /\ SameOf(Turn(b, e, c), p, e)
  BY <1>1, <1>4, OfEach
<1>7. Turn(b, e, c) = b
  BY <1>4 DEF Turn
<1>8. p.judged[e] = b.judged[e] /\ \A j \in JobsOf(e) : p.requested[j] = requested[j]
  BY <1>6, <1>7 DEF SameOf
<1>9. p.judged[e] = NoJudgement
  <2>1. NoJudgement \in Judgements(0, 0) /\ NoJudgement.slack = 0
    BY DEF NoJudgement, Judgements, States, Bases
  <2>2. [NoJudgement EXCEPT !.slack = 0] = NoJudgement
    BY <2>1 DEF Judgements
  <2> QED BY <1>5, <1>6, <1>8, <2>2
<1>10. DisplacedOf(e, p.requested) = DisplacedOf(e, requested)
  BY <1>8 DEF DisplacedOf
<1> QED BY <1>2, <1>5, <1>9, <1>10

\* With intent off, everything is undone.
LEMMA UndoneStep == ASSUME KeepsTrack, NEW c, Steps(c) PROVE Undone'
<1>1. PICK p : p = Planned(c)
  OBVIOUS
<1>2. /\ judged' = p.judged /\ requested' = p.requested /\ settings' = c.settings
      /\ open' = {e \in Considered(c) : Unfinished(e, c.done) # {}}
      /\ \A j \in Jobs : /\ j \in c.done <=> status'[j] = "finished"
                         /\ status[j] = "finished" => j \in c.done
  BY <1>1 DEF Steps
<1>3. /\ Ready(c) /\ c.generation \in {generation, generation + 1}
      /\ c.generation = generation => now > 0 /\ c.settings = settings
  BY DEF Steps
<1> SUFFICES ASSUME c.settings.mode = "off", NEW e \in open'
             PROVE  /\ p.judged[e].state = "kept" /\ p.judged[e].basis = "off"
                    /\ \A j \in JobsOf(e) : status'[j] # "finished" => ~Displaces(p.requested[j], j)
  BY <1>2 DEF Undone
<1>4. e \in Considered(c) /\ e \in Events /\ Unfinished(e, c.done) # {}
  BY <1>2, <1>3 DEF Ready, Considered, Happened
<1>5. PICK b \in Books(c) :
        /\ b.judged[e] = IF c.generation = generation
                         THEN judged[e] ELSE [judged[e] EXCEPT !.slack = 0]
        /\ \A j \in JobsOf(e) : b.requested[j] = requested[j]
        /\ b.altered = 0 => DisplacedOf(e, b.requested) = {}
        /\ SameOf(Turn(b, e, c), p, e)
  BY <1>1, <1>4, OfEach
<1>6. PICK r : r = Consider(b, e, c)
  OBVIOUS
<1>7. SameOf(r, p, e)
  BY <1>4, <1>5, <1>6 DEF Turn
<1>8. ASSUME b.judged[e].generation = c.generation, NEW j \in Unfinished(e, c.done)
      PROVE  ~Displaces(b.requested[j], j)
  <2>1. generation \in Nat /\ generation >= 1 /\ judged[e].generation \in 0..generation
        /\ judged[e] \in [state: States, basis: Bases, at: 0..now, slack: Nat,
                          from: Drift \cup {Nowhere}, asked: States, generation: 0..generation]
    BY <1>4, PlannerAssumption DEF KeepsTrack, TypeOK
  <2>2. b.judged[e].generation = judged[e].generation
    BY <1>5, <2>1
  <2>3. c.generation = generation /\ c.settings = settings
    BY <1>3, <1>8, <2>1, <2>2
  <2>4. j \in JobsOf(e) /\ j \in Jobs /\ status[j] # "finished"
    BY <1>2, <1>4, <1>8, JobsAre DEF Unfinished
  <2>5. CASE e \in open
    BY <1>5, <2>3, <2>4, <2>5 DEF KeepsTrack, Undone
  <2>6. CASE e \notin open
    <3>1. e \in next
      BY <1>4, <2>6 DEF Considered, Happened
    <3>2. DisplacedOf(e, requested) = {}
      BY <3>1 DEF KeepsTrack, Untouched
    <3> QED BY <1>5, <2>4, <3>2 DEF DisplacedOf
  <2> QED BY <2>5, <2>6
<1>9. /\ r.judged[e].state = "kept" /\ r.judged[e].basis = "off"
      /\ \A j \in Unfinished(e, c.done) : ~Displaces(r.requested[j], j)
  <2>1. ACycle(c) /\ b \in Books(c) /\ c.settings.mode = "off"
    BY <1>3 DEF Ready
  <2>2. b.judged[e].generation = c.generation =>
          \A j \in Unfinished(e, c.done) : ~Displaces(b.requested[j], j)
    BY <1>8
  <2>3. b.altered = 0 => DisplacedOf(e, b.requested) = {}
    BY <1>5
  <2>4. e \in Events /\ Unfinished(e, c.done) # {}
    BY <1>4
  <2> QED BY ONLY <1>6, <2>1, <2>2, <2>3, <2>4, ConsiderOff
<1>10. \A j \in JobsOf(e) : status'[j] # "finished" => j \in Unfinished(e, c.done)
  BY <1>2, <1>4, JobsAre DEF Unfinished
<1> QED BY <1>7, <1>9, <1>10 DEF SameOf

\* After a cycle, too, what was last told of an event is how it stands.
LEMMA TellsStep == ASSUME KeepsTrack, NEW c, Steps(c) PROVE TellsAll'
<1>1. /\ judged' = Planned(c).judged
      /\ told' = [e \in Events |-> Told(told[e], Verdict(judged[e]), Verdict(Planned(c).judged[e]))]
  BY DEF Steps
<1> SUFFICES ASSUME NEW e \in Events
             PROVE  \/ told'[e] = Verdict(judged'[e])
                    \/ told'[e] = Untold /\ (judged'[e].state = "unknown" \/ judged'[e].basis = "off")
  BY DEF TellsAll, Verdict
<1>2. told'[e] = Told(told[e], Verdict(judged[e]), Verdict(judged'[e]))
  BY <1>1
<1>3. \/ told[e] = Verdict(judged[e])
      \/ told[e] = Untold /\ (judged[e].state = "unknown" \/ judged[e].basis = "off")
  BY DEF KeepsTrack, TellsAll
<1>4. CASE Verdict(judged'[e]) = Verdict(judged[e])
  <2>1. judged'[e].state = judged[e].state /\ judged'[e].basis = judged[e].basis
    BY <1>4 DEF Verdict
  <2> QED BY <1>2, <1>3, <1>4, <2>1 DEF Told
<1>5. CASE /\ Verdict(judged'[e]) # Verdict(judged[e]) /\ Verdict(judged[e]) = Untold
           /\ Verdict(judged'[e]).state = "unknown" \/ Verdict(judged'[e]).basis = "off"
  <2>1. told'[e] = told[e] /\ told[e] = Untold
    BY <1>2, <1>3, <1>5 DEF Told
  <2> QED BY <1>5, <2>1 DEF Verdict
<1>6. CASE /\ Verdict(judged'[e]) # Verdict(judged[e])
           /\ ~ (/\ Verdict(judged[e]) = Untold
                 /\ Verdict(judged'[e]).state = "unknown" \/ Verdict(judged'[e]).basis = "off")
  BY <1>2, <1>6 DEF Told
<1> QED BY <1>4, <1>5, <1>6

\* A cycle keeps the planner's track.
LEMMA KeepsTrackStep == ASSUME KeepsTrack, NEW c, Steps(c) PROVE KeepsTrack'
<1>1. (location = [e \in Events |-> location[e]])'
  BY DEF Steps
<1> QED BY <1>1, TypeStep, AskedStep, UntouchedStep, UndoneStep, TellsStep DEF KeepsTrack

\* So does every step.
LEMMA KeepsTrackNext == KeepsTrack /\ [Next]_vars => KeepsTrack'
<1>1. ASSUME KeepsTrack, Next PROVE KeepsTrack'
  <2>1. PICK c : Steps(c)
    BY <1>1, StepIs
  <2> QED BY <1>1, <2>1, KeepsTrackStep
<1>2. ASSUME KeepsTrack, UNCHANGED vars PROVE KeepsTrack'
  <2>1. /\ tracks' = tracks /\ now' = now /\ status' = status /\ location' = location
        /\ settings' = settings /\ generation' = generation /\ next' = next /\ open' = open
        /\ judged' = judged /\ struck' = struck /\ requested' = requested /\ altered' = altered
        /\ held' = held /\ told' = told
    BY <1>2 DEF vars, plan
  <2> QED BY <1>2, <2>1 DEF KeepsTrack, TypeOK, AlteredCounts, AskedIsHeld, Untouched, Undone, TellsAll
<1> QED BY <1>1, <1>2

\* That track is what the property asks.
LEMMA KeepsTrackGives == KeepsTrack => PlannerKeepsTrack
<1> SUFFICES ASSUME KeepsTrack PROVE UndoneWhenOff
  BY DEF KeepsTrack, PlannerKeepsTrack
<1> SUFFICES ASSUME settings.mode = "off", NEW e \in open
             PROVE  /\ \A j \in JobsOf(e) : status[j] = "waiting" => held[j] = AsSubmitted(j)
                    /\ told[e] \in {Untold, [state |-> "kept", basis |-> "off"]}
  BY DEF UndoneWhenOff
<1>1. /\ e \in Events /\ TypeOK /\ Undone /\ AskedIsHeld /\ TellsAll
  BY DEF KeepsTrack, TypeOK
<1>2. /\ judged[e].state = "kept" /\ judged[e].basis = "off"
      /\ \A j \in JobsOf(e) : status[j] # "finished" => ~Displaces(requested[j], j)
  BY <1>1 DEF Undone
<1>3. told[e] \in {Untold, [state |-> "kept", basis |-> "off"]}
  BY <1>1, <1>2 DEF TellsAll, Verdict
<1>4. ASSUME NEW j \in JobsOf(e), status[j] = "waiting" PROVE held[j] = AsSubmitted(j)
  <2>1. j \in Jobs /\ ~Displaces(requested[j], j)
    BY <1>1, <1>2, <1>4, JobsAre
  <2>2. held[j] = [priority |-> requested[j].priority, exempt |-> requested[j].exempt]
    BY <1>1, <1>4, <2>1 DEF AskedIsHeld
  <2>3. requested[j].exempt \in BOOLEAN
    BY <1>1, <2>1 DEF TypeOK
  <2>4. requested[j].priority = Submitted[j] /\ requested[j].exempt = FALSE
    BY <2>1, <2>3 DEF Displaces
  <2> QED BY <2>2, <2>4 DEF AsSubmitted
<1> QED BY <1>3, <1>4

\* The planner's record of its requests is what it asked for and what the
\* queue did, its count of them is right, and intent switched off undoes them
\* all (planner.go request, close and Plan): for any workload and settings.
THEOREM RequestsAreTracked == Spec => []PlannerKeepsTrack
<1>1. Init => KeepsTrack
  BY KeepsTrackInit
<1>2. KeepsTrack /\ [Next]_vars => KeepsTrack'
  BY KeepsTrackNext
<1>3. KeepsTrack => PlannerKeepsTrack
  BY KeepsTrackGives
<1> QED BY <1>1, <1>2, <1>3, PTL DEF Spec

-----------------------------------------------------------------------------
(* What is known of who an event struck.                                    *)

\* A measured strike is the one the settings in force would measure.
Measured(known, e, s) ==
  known.measured =>
    /\ known.from \in Drift
    /\ known.distance = Nearest(Positions(tracks, Origin[e], s.protect), known.from)

\* A strike once measured is the distance to whatever was nearest the place.
LEMMA StrikeIsMeasured ==
  ASSUME tracks \in Worlds, NEW e \in Events, NEW p \in Drift, NEW known \in Strikes,
         NEW s \in SettingsSet, Measured(known, e, s)
  PROVE  LET k == Strike(e, p, known, s)
         IN /\ k.distance = Nearest(Positions(tracks, Origin[e], s.protect), p)
            /\ Measured(k, e, s)
<1>1. PICK k : k = Strike(e, p, known, s)
  OBVIOUS
<1>2. CASE known.measured /\ known.from = p
  BY <1>1, <1>2 DEF Strike, Measured
<1>3. CASE ~ (known.measured /\ known.from = p)
  BY <1>1, <1>3 DEF Strike, Measured
<1> QED BY <1>1, <1>2, <1>3

\* An event with work left has picks.
LEMMA HasPicks ==
  ASSUME NEW e \in Events, NEW done, Unfinished(e, done) # {}
  PROVE  Picks[e] # 0
<1>1. Picks[e] = 0 => JobsOf(e) = {}
  BY DEF JobsOf
<1> QED BY <1>1 DEF Unfinished

\* A turn leaves no strike measured wrong.
LEMMA StaysMeasured ==
  ASSUME tracks \in Worlds, NEW c, ACycle(c), NEW b \in Books(c), NEW e \in Events,
         Measured(b.struck[e], e, c.settings)
  PROVE  Measured(Turn(b, e, c).struck[e], e, c.settings)
<1>1. PICK r : r = Consider(b, e, c)
  OBVIOUS
<1>2. SUFFICES Measured(r.struck[e], e, c.settings)
  BY <1>1 DEF Turn
<1>3. \A q \in Books(c) : Request(q, e, c).struck = q.struck
  BY RequestIs
<1>4. CASE Unfinished(e, c.done) = {}
  <2>1. r.struck = b.struck
    BY <1>1, <1>4, ConsiderIs DEF Close, Books
  <2> QED BY <2>1
<1>5. CASE Unfinished(e, c.done) # {} /\ c.settings.mode = "off"
  <2>1. PICK q : q = LetGo(b, e)
    OBVIOUS
  <2>2. q \in Books(c) /\ q.struck = b.struck
    BY <2>1, LetGoIs
  <2>3. r = q \/ r = Request(q, e, c)
    BY <1>1, <1>5, <2>1, ConsiderIs
  <2> QED BY <1>3, <2>2, <2>3
<1>6. CASE Unfinished(e, c.done) # {} /\ c.settings.mode # "off" /\ Settled(e, b.judged[e], c)
  <2>1. r = b
    BY <1>1, <1>6, ConsiderIs
  <2> QED BY <2>1
<1>7. CASE Unfinished(e, c.done) # {} /\ c.settings.mode # "off" /\ ~Settled(e, b.judged[e], c)
  <2>1. PICK seen : seen = Sight(e, c.settings, c.location)
    OBVIOUS
  <2>2. CASE seen = Unseen
    <3>1. PICK q : q = Unknown(b, e)
      OBVIOUS
    <3>2. q \in Books(c) /\ q.struck = b.struck
      BY <3>1, UnknownIs
    <3>3. r = Request(q, e, c)
      BY <1>1, <1>7, <2>1, <2>2, <3>1, ConsiderIs
    <3> QED BY <1>3, <3>2, <3>3
  <2>3. CASE seen # Unseen
    <3>1. PICK q : q = Assessed(b, e, c)
      OBVIOUS
    <3>2. PICK strike : strike = Strike(e, seen.at, b.struck[e], c.settings)
      OBVIOUS
    <3>3. PICK d : d = DistanceTo(seen.at, strike, c)
      OBVIOUS
    <3>4. tracks \in Worlds /\ ACycle(c) /\ b \in Books(c) /\ e \in Events /\ Picks[e] # 0
      BY <1>7, HasPicks
    <3>5. q \in Books(c) /\ q.struck[e] = strike
      BY ONLY <2>1, <2>3, <3>1, <3>2, <3>3, <3>4, AssessedIs
    <3>6. r = Request(q, e, c)
      BY <1>1, <1>7, <2>1, <2>3, <3>1, ConsiderIs
    <3>7. seen.at \in Drift /\ b.struck[e] \in Strikes /\ c.settings \in SettingsSet
      BY <2>1, <2>3, <3>4, SightIs DEF ACycle, Sighting, Books
    <3>8. Measured(strike, e, c.settings)
      BY <3>2, <3>4, <3>7, StrikeIsMeasured
    <3> QED BY <1>3, <3>5, <3>6, <3>8
  <2> QED BY <2>2, <2>3
<1> QED BY <1>4, <1>5, <1>6, <1>7

-----------------------------------------------------------------------------
(* A judgement that has settled.                                            *)

\* Within one generation a location is all that an event's sighting gains, and
\* a sighting that has not moved has not changed.
LEMMA SightStays ==
  ASSUME NEW s \in SettingsSet, NEW e \in Events, NEW loc, NEW was,
         loc[e] \in {NoLocation} \cup Estimates[e],
         was[e] # NoLocation => loc[e] = was[e]
  PROVE  /\ Sight(e, s, loc) = Unseen => Sight(e, s, was) = Unseen
         /\ Sight(e, s, was) # Unseen /\ Sight(e, s, loc).at = Sight(e, s, was).at =>
              Sight(e, s, loc) = Sight(e, s, was)
<1>1. CASE s.knowledge = "truth"
  BY <1>1 DEF Sight
<1>2. CASE s.knowledge # "truth" /\ loc[e] = was[e]
  BY <1>2 DEF Sight
<1>3. CASE s.knowledge # "truth" /\ was[e] = NoLocation /\ loc[e] # NoLocation
  <2>1. Sight(e, s, loc) = [at |-> loc[e].at, magnitude |-> loc[e].magnitude,
                            uncertainty |-> s.uncertainty, basis |-> "location"]
    BY <1>3 DEF Sight
  <2>2. Sight(e, s, loc).basis = "location" /\ Sight(e, s, loc).at = loc[e].at
    BY <2>1
  <2>3. Sight(e, s, loc) # Unseen
    <3>1. Unseen.basis = ""
      BY DEF Unseen
    <3> QED BY <2>2, <3>1
  <2>4. loc[e].at # Triggers[e][1]
    BY <1>3, PlannerAssumption
  <2>5. Sight(e, s, was) = Unseen \/ Sight(e, s, was).at = Triggers[e][1]
    BY <1>3 DEF Sight
  <2> QED BY <2>2, <2>3, <2>4, <2>5
<1> QED BY <1>1, <1>2, <1>3

\* A judgement x of what is seen of e was made at a distance d, and is what
\* the distance at an instant would decide.
Stands(x, e, seen, s, at, d) ==
  /\ d =< Far /\ (d = Far <=> Nearby(e, seen.at, s, at) = Far)
  /\ x.state = Decided(seen, d, s) /\ x.basis = seen.basis /\ x.from = seen.at
  /\ x.slack = Slack(seen, Decided(seen, d, s), d, s)
  /\ Beside(d, Nearby(e, seen.at, s, at), Speed(tracks) * (at - x.at))
  /\ Decided(seen, Nearby(e, seen.at, s, at), s) = Decided(seen, d, s)

\* A judgement with slack left stands one instant more: in that time nothing
\* comes or goes far enough to cross a boundary.
LEMMA SettledStands ==
  ASSUME tracks \in Worlds, NEW e \in Events, NEW s \in SettingsSet, NEW seen, Sighting(e, seen),
         NEW t \in Nat, NEW x, x.at \in 0..(t + 1), NEW d \in Nat, Stands(x, e, seen, s, t, d),
         x.slack > 0, Speed(tracks) > 0 => (t + 1 - x.at) * Speed(tracks) < x.slack
  PROVE  Stands(x, e, seen, s, t + 1, d)
<1>1. seen.at \in Drift
  BY DEF Sighting
<1>2. PICK f : f = Nearby(e, seen.at, s, t)
  OBVIOUS
<1>3. PICK h : h = Nearby(e, seen.at, s, t + 1)
  OBVIOUS
<1>4. PICK v \in Nat : v = Speed(tracks)
  BY WorldIs
<1>5. /\ f \in Nat /\ f =< Far /\ (f = Far <=> Seen(tracks, s.protect) = {})
      /\ h \in Nat /\ h =< Far /\ (h = Far <=> Seen(tracks, s.protect) = {})
  <2>1. t + 1 \in Nat
    OBVIOUS
  <2> QED BY <1>1, <1>2, <1>3, <2>1, NearbyIs
<1>6. f =< h + v /\ h =< f + v
  BY <1>1, <1>2, <1>3, <1>4, NearbyMoves DEF Beside
<1>7. PICK n \in Nat : n = t + 1 - x.at
  OBVIOUS
<1>8. /\ d =< Far /\ (d = Far <=> f = Far)
      /\ x.slack = Slack(seen, Decided(seen, d, s), d, s)
      /\ d =< f + v * (n - 1) /\ f =< d + v * (n - 1)
  <2>1. t - x.at = n - 1
    BY <1>7
  <2> QED BY <1>2, <1>4, <2>1 DEF Stands, Beside
<1>9. v * n \in Nat /\ v * n = v * (n - 1) + v /\ v * (n - 1) \in Int
  <2>1. v * n = v * (n - 1) + v
    BY ONLY v \in Nat, n \in Nat
  <2>2. v * n \in Nat /\ v * (n - 1) \in Int
    BY ONLY v \in Nat, n \in Nat
  <2> QED BY <2>1, <2>2
<1>10. d =< h + v * n /\ h =< d + v * n
  BY ONLY <1>5, <1>6, <1>8, <1>9, v \in Nat, d \in Nat
<1>11. PICK slack \in Nat : slack = x.slack
  BY <1>8, SlackIs
<1>12. v * n < slack
  <2>1. CASE v = 0
    <3>1. v * n = 0
      BY <2>1
    <3> QED BY <1>11, <3>1
  <2>2. CASE v # 0
    <3>1. n * v < slack
      BY <1>4, <1>7, <1>11, <2>2
    <3>2. n * v = v * n
      OBVIOUS
    <3> QED BY <3>1, <3>2
  <2> QED BY <2>1, <2>2
<1>13. Decided(seen, h, s) = Decided(seen, d, s)
  <2>1. PICK w \in Nat : w = v * n
    BY <1>9
  <2>2. d = Far <=> h = Far
    BY <1>5, <1>8
  <2>3. Beside(d, h, w)
    BY <1>10, <2>1 DEF Beside
  <2>4. w < Slack(seen, Decided(seen, d, s), d, s)
    BY <1>8, <1>11, <1>12, <2>1
  <2>5. d =< Far /\ h =< Far /\ h \in Nat
    BY <1>5, <1>8
  <2> QED BY <2>2, <2>3, <2>4, <2>5, DecisionStands
<1>14. Beside(d, h, Speed(tracks) * (t + 1 - x.at))
  BY <1>4, <1>7, <1>10 DEF Beside
<1>15. d = Far <=> h = Far
  BY <1>5, <1>8
<1> QED BY <1>3, <1>8, <1>13, <1>14, <1>15 DEF Stands

-----------------------------------------------------------------------------
(* One event with intent switched on.                                       *)

\* The jobs of an event are asked to follow the judgement r has of it.
Follows(b, r, e, c) ==
  \/ /\ b.judged[e].asked = r.judged[e].state /\ b.judged[e].generation = c.generation
     /\ r.requested = b.requested
  \/ \A j \in Unfinished(e, c.done) :
       r.requested[j] = Want(r.judged[e].state, b.requested[j], j, c.settings)

\* x is a judgement y of event e, asked for.
Asks(x, y, c) ==
  /\ x.state = y.state /\ x.basis = y.basis /\ x.at = y.at /\ x.slack = y.slack
  /\ x.from = y.from /\ x.asked = y.state /\ x.generation = c.generation

\* After a request, each job of the event is wanted as the judgement says.
LEMMA RequestFollows ==
  ASSUME NEW c, ACycle(c), NEW b \in Books(c), NEW q \in Books(c), NEW e \in Events,
         q.requested = b.requested, q.judged[e].asked = b.judged[e].asked,
         q.judged[e].generation = b.judged[e].generation
  PROVE  LET r == Request(q, e, c)
         IN Asks(r.judged[e], q.judged[e], c) /\ Follows(b, r, e, c)
<1>1. PICK r : r = Request(q, e, c)
  OBVIOUS
<1>2. /\ r.judged[e] = AskedNow(q.judged[e], c)
      /\ \/ /\ q.judged[e].asked = q.judged[e].state /\ q.judged[e].generation = c.generation
            /\ r.requested = q.requested
         \/ \A j \in Unfinished(e, c.done) :
              r.requested[j] = Want(q.judged[e].state, q.requested[j], j, c.settings)
  <2>1. ACycle(c) /\ q \in Books(c) /\ e \in Events
    OBVIOUS
  <2> QED BY ONLY <1>1, <2>1, RequestIs
<1>3. Asks(r.judged[e], q.judged[e], c)
  <2>1. q.judged[e] \in Judgements(c.at, c.generation)
    BY DEF Books
  <2> QED BY <1>2, <2>1 DEF AskedNow, Judgements, Asks
<1>4. r.judged[e].state = q.judged[e].state
  BY <1>3 DEF Asks
<1>5. Follows(b, r, e, c)
  BY <1>2, <1>4 DEF Follows
<1> QED BY <1>1, <1>3, <1>5

\* The judgement x of event e is the one everything judged afresh would make,
\* and has been asked for.
CurrentOf(x, e, s, loc, at, g) ==
  /\ x.asked = x.state /\ x.generation = g
  /\ Sight(e, s, loc) = Unseen => x.state = "unknown" /\ x.basis = "" /\ x.slack = 0
  /\ Sight(e, s, loc) # Unseen => \E d \in Nat : Stands(x, e, Sight(e, s, loc), s, at, d)

\* The distance a turn goes by is the nearest of what was struck and whoever may
\* come near.
LEMMA DistanceIsNearby ==
  ASSUME tracks \in Worlds, NEW c, ACycle(c), NEW e \in Events, NEW p \in Drift,
         NEW known \in Strikes, Measured(known, e, c.settings)
  PROVE  DistanceTo(p, Strike(e, p, known, c.settings), c) = Nearby(e, p, c.settings, c.at)
<1>1. PICK k : k = Strike(e, p, known, c.settings)
  OBVIOUS
<1>2. c.settings \in SettingsSet
  BY DEF ACycle
<1>3. k.distance = Nearest(Positions(tracks, Origin[e], c.settings.protect), p)
  BY <1>1, <1>2, StrikeIsMeasured
<1> QED BY <1>1, <1>3 DEF DistanceTo, Nearby

\* A judgement just reached stands.
LEMMA JudgedStands ==
  ASSUME tracks \in Worlds, NEW c, ACycle(c), NEW e \in Events, NEW seen, Sighting(e, seen),
         NEW last \in Judgements(c.at, c.generation),
         NEW d \in Nat, d = Nearby(e, seen.at, c.settings, c.at),
         NEW x, Asks(x, JudgedNow(last, seen, d, c), c)
  PROVE  Stands(x, e, seen, c.settings, c.at, d)
<1>1. PICK y : y = JudgedNow(last, seen, d, c)
  OBVIOUS
<1>2. /\ y.state = Decided(seen, d, c.settings) /\ y.basis = seen.basis
      /\ y.at = c.at /\ y.from = seen.at
      /\ y.slack = Slack(seen, Decided(seen, d, c.settings), d, c.settings)
  BY <1>1 DEF JudgedNow, Judgements
<1>3. /\ x.state = y.state /\ x.basis = y.basis /\ x.at = y.at /\ x.slack = y.slack
      /\ x.from = y.from
  BY <1>1 DEF Asks
<1>4. seen.at \in Drift /\ c.settings \in SettingsSet /\ c.at \in Nat
  BY DEF Sighting, ACycle
<1>5. d =< Far
  BY <1>4, NearbyIs
<1>6. PICK v \in Nat : v = Speed(tracks)
  BY WorldIs
<1>7. v * (c.at - c.at) = 0
  <2>1. c.at - c.at = 0
    BY <1>4
  <2> QED BY <2>1
<1>8. Beside(d, Nearby(e, seen.at, c.settings, c.at), Speed(tracks) * (c.at - x.at))
  BY <1>2, <1>3, <1>6, <1>7 DEF Beside
<1> QED BY <1>2, <1>3, <1>5, <1>8 DEF Stands

\* What is asked of an event's jobs is not relaxed while it is to be kept.
RestoredOf(x, asked, e, s, done) ==
  s.restore /\ x.state \in {"kept", "promoted"} =>
    \A j \in Unfinished(e, done) : asked[j].priority >= Submitted[j]

\* With restore on, what is not decayed is no less urgent than submitted.
LEMMA WantRestores ==
  ASSUME NEW s \in SettingsSet, s.restore, NEW have, NEW j \in Jobs,
         NEW state \in {"kept", "promoted"}
  PROVE  Want(state, have, j, s).priority >= Submitted[j]
<1>1. PICK class : class = Class(state, have, j, s)
  OBVIOUS
<1>2. class \in {"", "promoted", "restored"} /\ (class = "promoted" => s.promoteTo > Submitted[j])
  BY <1>1 DEF Class
<1>3. Want(state, have, j, s).priority = IF class = "promoted" THEN s.promoteTo ELSE Submitted[j]
  BY <1>1, <1>2 DEF Want
<1>4. Submitted[j] \in Int /\ s.promoteTo \in Int
  BY PlannerAssumption, SettingsAre
<1>5. CASE class = "promoted"
  <2>1. Want(state, have, j, s).priority = s.promoteTo /\ s.promoteTo > Submitted[j]
    BY <1>2, <1>3, <1>5
  <2> QED BY <1>4, <2>1
<1>6. CASE class # "promoted"
  BY <1>3, <1>4, <1>6
<1> QED BY <1>5, <1>6

\* A judgement made this generation was current a cycle ago.
WasCurrent(b, e, c, was, t) ==
  /\ b.judged[e].generation # c.generation => b.judged[e].slack = 0
  /\ b.judged[e].generation = c.generation =>
       /\ CurrentOf(b.judged[e], e, c.settings, was, t, c.generation)
       /\ RestoredOf(b.judged[e], b.requested, e, c.settings, c.done)

\* With intent on, a turn leaves each event with the judgement that judging it
\* afresh would reach, and with requests that follow it.
LEMMA ConsiderOn ==
  ASSUME tracks \in Worlds, NEW c, ACycle(c), c.settings.mode # "off", NEW b \in Books(c),
         NEW e \in Events, Unfinished(e, c.done) # {}, Measured(b.struck[e], e, c.settings),
         NEW t \in Nat, c.at = t + 1, NEW was,
         was[e] \in {NoLocation} \cup Estimates[e], was[e] # NoLocation => c.location[e] = was[e],
         WasCurrent(b, e, c, was, t)
  PROVE  LET r == Consider(b, e, c)
         IN /\ CurrentOf(r.judged[e], e, c.settings, c.location, c.at, c.generation)
            /\ r = b \/ Follows(b, r, e, c)
            /\ r = b => b.judged[e].generation = c.generation \/ Follows(b, r, e, c)
<1>1. PICK r : r = Consider(b, e, c)
  OBVIOUS
<1>2. PICK s \in SettingsSet : s = c.settings
  BY DEF ACycle
<1>3. PICK seen : seen = Sight(e, s, c.location)
  OBVIOUS
<1>4. PICK last \in Judgements(c.at, c.generation) : last = b.judged[e]
  BY DEF Books
<1>5. Picks[e] # 0 /\ c.location[e] \in {NoLocation} \cup Estimates[e]
  BY HasPicks DEF ACycle
<1>6. seen = Unseen \/ Sighting(e, seen)
  BY <1>3, <1>5, SightIs
<1>7. /\ seen = Unseen => Sight(e, s, was) = Unseen
      /\ Sight(e, s, was) # Unseen /\ seen.at = Sight(e, s, was).at => seen = Sight(e, s, was)
  BY <1>3, <1>5, SightStays
<1>8. /\ last.generation # c.generation => last.slack = 0
      /\ last.generation = c.generation => CurrentOf(last, e, s, was, t, c.generation)
  BY <1>2, <1>4 DEF WasCurrent
<1>9. CASE Settled(e, last, c)
  <2>1. r = b
    BY <1>1, <1>4, <1>9, ConsiderIs
  <2>2. /\ last.slack > 0 /\ last.generation = c.generation /\ seen.at = last.from
        /\ Speed(tracks) > 0 => (c.at - last.at) * Speed(tracks) < last.slack
    BY <1>2, <1>3, <1>9 DEF Settled
  <2>3. CurrentOf(last, e, s, was, t, c.generation)
    BY <1>8, <2>2
  <2>4. PICK old : old = Sight(e, s, was)
    OBVIOUS
  <2>5. last.slack \in Nat /\ last.at \in 0..(t + 1)
    BY <1>4 DEF Judgements
  <2>6. old # Unseen
    <3>1. old = Unseen => last.slack = 0
      BY <2>3, <2>4 DEF CurrentOf
    <3> QED BY <2>2, <2>5, <3>1
  <2>7. PICK d \in Nat : Stands(last, e, old, s, t, d)
    BY <2>3, <2>4, <2>6 DEF CurrentOf
  <2>8. seen = old
    BY <1>7, <2>2, <2>4, <2>6, <2>7 DEF Stands
  <2>9. Sighting(e, seen) /\ Stands(last, e, seen, s, t, d)
    BY <1>6, <2>6, <2>7, <2>8
  <2>10. Speed(tracks) > 0 => (t + 1 - last.at) * Speed(tracks) < last.slack
    <3>1. PICK n : n = c.at - last.at
      OBVIOUS
    <3>2. Speed(tracks) > 0 => n * Speed(tracks) < last.slack
      BY <2>2, <3>1
    <3>3. n = t + 1 - last.at
      BY <2>5, <3>1
    <3> QED BY <3>2, <3>3
  <2>11. Stands(last, e, seen, s, t + 1, d)
    BY <2>2, <2>5, <2>9, <2>10, SettledStands
  <2>12. CurrentOf(last, e, s, c.location, t + 1, c.generation)
    BY <1>3, <2>3, <2>6, <2>8, <2>11 DEF CurrentOf
  <2> QED BY <1>1, <1>2, <1>4, <2>1, <2>2, <2>12
<1>10. CASE ~Settled(e, last, c) /\ seen = Unseen
  <2>1. PICK q : q = Unknown(b, e)
    OBVIOUS
  <2>2. q \in Books(c) /\ q.requested = b.requested /\ q.judged[e] = UnknownNow(last)
    BY <1>4, <2>1, UnknownIs
  <2>3. /\ q.judged[e].state = "unknown" /\ q.judged[e].basis = "" /\ q.judged[e].slack = last.slack
        /\ q.judged[e].asked = last.asked /\ q.judged[e].generation = last.generation
    BY <2>2 DEF UnknownNow, Judgements
  <2>4. r = Request(q, e, c)
    BY <1>1, <1>2, <1>3, <1>4, <1>10, <2>1, ConsiderIs
  <2>5. Asks(r.judged[e], q.judged[e], c) /\ Follows(b, r, e, c)
    BY <1>4, <2>2, <2>3, <2>4, RequestFollows
  <2>6. last.slack = 0
    <3>1. Sight(e, s, was) = Unseen
      BY <1>7, <1>10
    <3> QED BY <1>8, <3>1 DEF CurrentOf
  <2>7. CurrentOf(r.judged[e], e, s, c.location, c.at, c.generation)
    BY <1>3, <1>10, <2>3, <2>5, <2>6 DEF CurrentOf, Asks
  <2> QED BY <1>1, <1>2, <2>5, <2>7
<1>11. CASE ~Settled(e, last, c) /\ seen # Unseen
  <2>1. PICK q : q = Assessed(b, e, c)
    OBVIOUS
  <2>2. PICK strike : strike = Strike(e, seen.at, b.struck[e], s)
    OBVIOUS
  <2>3. PICK d : d = DistanceTo(seen.at, strike, c)
    OBVIOUS
  <2>4. tracks \in Worlds /\ ACycle(c) /\ b \in Books(c) /\ e \in Events
    OBVIOUS
  <2>5. /\ q \in Books(c) /\ q.requested = b.requested /\ d \in Nat
        /\ q.judged[e] = JudgedNow(b.judged[e], seen, d, c)
    BY ONLY <1>2, <1>3, <1>5, <1>11, <2>1, <2>2, <2>3, <2>4, AssessedIs
  <2>6. q.judged[e].asked = last.asked /\ q.judged[e].generation = last.generation
    BY <1>4, <2>5 DEF JudgedNow, Judgements
  <2>7. r = Request(q, e, c)
    BY <1>1, <1>2, <1>3, <1>4, <1>11, <2>1, ConsiderIs
  <2>8. Asks(r.judged[e], q.judged[e], c) /\ Follows(b, r, e, c)
    BY <1>4, <2>5, <2>6, <2>7, RequestFollows
  <2>9. d = Nearby(e, seen.at, s, c.at)
    <3>1. seen.at \in Drift /\ b.struck[e] \in Strikes
      BY <1>6, <1>11 DEF Sighting, Books
    <3> QED BY <1>2, <2>2, <2>3, <3>1, DistanceIsNearby
  <2>10. Stands(r.judged[e], e, seen, s, c.at, d)
    BY <1>2, <1>4, <1>6, <1>11, <2>5, <2>8, <2>9, JudgedStands
  <2>11. CurrentOf(r.judged[e], e, s, c.location, c.at, c.generation)
    BY <1>3, <1>11, <2>5, <2>8, <2>10 DEF CurrentOf, Asks
  <2> QED BY <1>1, <1>2, <2>8, <2>11
<1> QED BY <1>9, <1>10, <1>11

\* And, with restore on, with no job less urgent than submitted unless decayed.
LEMMA ConsiderRestores ==
  ASSUME tracks \in Worlds, NEW c, ACycle(c), NEW b \in Books(c), NEW e \in Events, NEW was, NEW t,
         WasCurrent(b, e, c, was, t), NEW r,
         r = b \/ Follows(b, r, e, c),
         r = b => b.judged[e].generation = c.generation \/ Follows(b, r, e, c)
  PROVE  RestoredOf(r.judged[e], r.requested, e, c.settings, c.done)
<1> SUFFICES ASSUME c.settings.restore, r.judged[e].state \in {"kept", "promoted"},
                    NEW j \in Unfinished(e, c.done)
             PROVE  r.requested[j].priority >= Submitted[j]
  BY DEF RestoredOf
<1>1. c.settings \in SettingsSet /\ j \in Jobs
  BY JobsAre DEF ACycle, Unfinished
<1>2. CASE b.judged[e].generation = c.generation /\ r = b
  BY <1>2 DEF WasCurrent, RestoredOf
<1>3. CASE /\ b.judged[e].asked = r.judged[e].state /\ b.judged[e].generation = c.generation
           /\ r.requested = b.requested
  <2>1. b.judged[e].state = r.judged[e].state
    BY <1>3 DEF WasCurrent, CurrentOf
  <2> QED BY <1>3, <2>1 DEF WasCurrent, RestoredOf
<1>4. CASE r.requested[j] = Want(r.judged[e].state, b.requested[j], j, c.settings)
  BY <1>1, <1>4, WantRestores
<1> QED BY <1>2, <1>3, <1>4 DEF Follows

-----------------------------------------------------------------------------
(* Every judgement is current.                                              *)

Done == {j \in Jobs : status[j] = "finished"}

MeasuredOnce == \A e \in Events : Measured(struck[e], e, settings)

Current ==
  settings.mode # "off" => \A e \in open :
    /\ Unfinished(e, Done) # {}
    /\ CurrentOf(judged[e], e, settings, location, now, generation)
    /\ RestoredOf(judged[e], requested, e, settings, Done)

Judges == KeepsTrack /\ MeasuredOnce /\ Current

\* Judgements are current before the first cycle.
LEMMA JudgesInit == Init => Judges
<1> SUFFICES ASSUME Init PROVE Judges
  OBVIOUS
<1>1. MeasuredOnce
  BY DEF Init, MeasuredOnce, Measured, Unmeasured
<1>2. Current
  BY DEF Init, Current
<1> QED BY <1>1, <1>2, KeepsTrackInit DEF Judges

\* A cycle leaves every strike measured right.
LEMMA MeasuredStep == ASSUME Judges, NEW c, Steps(c) PROVE MeasuredOnce'
<1>1. PICK p : p = Planned(c)
  OBVIOUS
<1>2. struck' = p.struck /\ settings' = c.settings /\ tracks' = tracks /\ Ready(c)
      /\ (c.generation = generation => c.settings = settings)
  BY <1>1 DEF Steps
<1>3. ASSUME NEW e \in Events PROVE Measured(p.struck[e], e, c.settings)
  <2>1. PICK b \in Books(c) :
          /\ b.struck[e] = IF c.generation = generation THEN struck[e] ELSE Unmeasured
          /\ SameOf(Turn(b, e, c), p, e)
    BY <1>1, OfEach DEF Judges
  <2>2. Measured(b.struck[e], e, c.settings)
    <3>1. CASE c.generation = generation
      BY <1>2, <2>1, <3>1 DEF Judges, MeasuredOnce
    <3>2. CASE c.generation # generation
      BY <2>1, <3>2 DEF Measured, Unmeasured
    <3> QED BY <3>1, <3>2
  <2>3. tracks \in Worlds /\ ACycle(c)
    BY <1>2 DEF Ready
  <2>4. Measured(Turn(b, e, c).struck[e], e, c.settings)
    BY <2>2, <2>3, StaysMeasured
  <2> QED BY <2>1, <2>4 DEF SameOf
<1> QED BY <1>2, <1>3 DEF MeasuredOnce, Measured

\* What a turn finds of its event is current as of the cycle before.
LEMMA WasIs ==
  ASSUME Judges, NEW c, Steps(c), c.settings.mode # "off", NEW e \in Events, e \in Considered(c),
         NEW b \in Books(c),
         b.judged[e] = IF c.generation = generation THEN judged[e] ELSE [judged[e] EXCEPT !.slack = 0],
         \A j \in JobsOf(e) : b.requested[j] = requested[j],
         NEW was, was = location, NEW t, t = now
  PROVE  WasCurrent(b, e, c, was, t)
<1>1. /\ generation \in Nat /\ generation >= 1 /\ judged[e] \in Judgements(now, generation)
      /\ next \subseteq Events /\ open \subseteq Events
  BY PlannerAssumption DEF Judges, KeepsTrack, TypeOK, Judgements
<1>2. judged[e].generation \in Nat /\ judged[e].generation =< generation
  BY <1>1 DEF Judgements
<1>3. c.generation = generation \/ c.generation = generation + 1
  BY DEF Steps
<1>4. CASE c.generation # generation
  <2>1. b.judged[e].slack = 0 /\ b.judged[e].generation = judged[e].generation
    BY <1>1, <1>4 DEF Judgements
  <2>2. b.judged[e].generation # c.generation
    BY <1>1, <1>2, <1>3, <1>4, <2>1
  <2> QED BY <2>1, <2>2 DEF WasCurrent
<1>5. CASE c.generation = generation /\ e \in open
  <2>1. c.settings = settings /\ b.judged[e] = judged[e]
    BY <1>5 DEF Steps
  <2>2. /\ CurrentOf(judged[e], e, settings, location, now, generation)
        /\ RestoredOf(judged[e], requested, e, settings, Done)
    BY <1>5, <2>1 DEF Judges, Current
  <2>3. CurrentOf(b.judged[e], e, c.settings, was, t, c.generation)
    BY <1>5, <2>1, <2>2
  <2>4. b.judged[e].generation = c.generation
    BY <2>3 DEF CurrentOf
  <2>5. Unfinished(e, c.done) \subseteq Unfinished(e, Done) /\ Unfinished(e, c.done) \subseteq JobsOf(e)
    <3>1. \A j \in Jobs : status[j] = "finished" => j \in c.done
      BY DEF Steps
    <3> QED BY <3>1 DEF Unfinished, Done
  <2>6. RestoredOf(b.judged[e], b.requested, e, c.settings, c.done)
    BY <2>1, <2>2, <2>5 DEF RestoredOf
  <2> QED BY <2>3, <2>4, <2>6 DEF WasCurrent
<1>6. CASE c.generation = generation /\ e \notin open
  <2>1. e \in next
    BY <1>6 DEF Considered, Happened
  <2>2. judged[e] = NoJudgement
    BY <2>1 DEF Judges, KeepsTrack, Untouched
  <2>3. b.judged[e].slack = 0 /\ b.judged[e].generation = 0
    <3>1. b.judged[e] = NoJudgement
      BY <1>6, <2>2
    <3>2. NoJudgement.slack = 0 /\ NoJudgement.generation = 0
      BY DEF NoJudgement
    <3> QED BY <3>1, <3>2
  <2> QED BY <1>1, <1>6, <2>3 DEF WasCurrent
<1> QED BY <1>4, <1>5, <1>6

\* A cycle leaves every judgement current.
LEMMA CurrentStep == ASSUME Judges, NEW c, Steps(c) PROVE Current'
<1>1. PICK p : p = Planned(c)
  OBVIOUS
<1>2. /\ judged' = p.judged /\ requested' = p.requested /\ settings' = c.settings
      /\ tracks' = tracks /\ location' = c.location /\ now' = c.at /\ generation' = c.generation
      /\ open' = {e \in Considered(c) : Unfinished(e, c.done) # {}}
      /\ \A j \in Jobs : j \in c.done <=> status'[j] = "finished"
  BY <1>1 DEF Steps
<1>3. /\ Ready(c) /\ c.at = now + 1
      /\ c.generation = generation => c.settings = settings
      /\ \A e \in Events : location[e] # NoLocation => c.location[e] = location[e]
  BY DEF Steps
<1>4. tracks \in Worlds /\ ACycle(c) /\ Considered(c) \subseteq Events
  BY <1>3 DEF Ready, Considered, Happened
<1>5. PICK was : was = location
  OBVIOUS
<1>6. PICK t \in Nat : t = now
  BY PlannerAssumption DEF Judges, KeepsTrack, TypeOK
<1>7. ASSUME c.settings.mode # "off", NEW e \in Considered(c), Unfinished(e, c.done) # {}
      PROVE  /\ CurrentOf(p.judged[e], e, c.settings, c.location, c.at, c.generation)
             /\ RestoredOf(p.judged[e], p.requested, e, c.settings, c.done)
  <2>1. e \in Events
    BY <1>4
  <2>2. PICK b \in Books(c) :
          /\ b.judged[e] = IF c.generation = generation
                           THEN judged[e] ELSE [judged[e] EXCEPT !.slack = 0]
          /\ b.struck[e] = IF c.generation = generation THEN struck[e] ELSE Unmeasured
          /\ \A j \in JobsOf(e) : b.requested[j] = requested[j]
          /\ SameOf(Turn(b, e, c), p, e)
    BY <1>1, <2>1, OfEach DEF Judges
  <2>3. PICK r : r = Consider(b, e, c)
    OBVIOUS
  <2>4. SameOf(r, p, e)
    BY <1>7, <2>2, <2>3 DEF Turn
  <2>5. WasCurrent(b, e, c, was, t)
    BY <1>5, <1>6, <1>7, <2>1, <2>2, WasIs
  <2>6. Measured(b.struck[e], e, c.settings)
    <3>1. CASE c.generation = generation
      BY <1>3, <2>1, <2>2, <3>1 DEF Judges, MeasuredOnce
    <3>2. CASE c.generation # generation
      BY <2>2, <3>2 DEF Measured, Unmeasured
    <3> QED BY <3>1, <3>2
  <2>7. c.at = t + 1 /\ was[e] \in {NoLocation} \cup Estimates[e]
        /\ (was[e] # NoLocation => c.location[e] = was[e])
    BY <1>3, <1>5, <1>6, <2>1 DEF Judges, KeepsTrack, TypeOK
  <2>8. /\ tracks \in Worlds /\ ACycle(c) /\ c.settings.mode # "off" /\ b \in Books(c)
        /\ Unfinished(e, c.done) # {} /\ t \in Nat
    BY <1>4, <1>7
  <2>9. /\ CurrentOf(r.judged[e], e, c.settings, c.location, c.at, c.generation)
        /\ r = b \/ Follows(b, r, e, c)
        /\ r = b => b.judged[e].generation = c.generation \/ Follows(b, r, e, c)
    BY ONLY <2>1, <2>3, <2>5, <2>6, <2>7, <2>8, ConsiderOn
  <2>10. RestoredOf(r.judged[e], r.requested, e, c.settings, c.done)
    BY <2>1, <2>5, <2>8, <2>9, ConsiderRestores
  <2>11. /\ p.judged[e] = r.judged[e] /\ \A j \in JobsOf(e) : p.requested[j] = r.requested[j]
    BY <2>4 DEF SameOf
  <2> QED BY <2>9, <2>10, <2>11 DEF RestoredOf, Unfinished
<1>8. \A e \in Events : Unfinished(e, Done') = Unfinished(e, c.done)
  BY <1>2, JobsAre DEF Unfinished, Done
<1>9. ASSUME settings'.mode # "off", NEW e \in open'
      PROVE  /\ Unfinished(e, Done') # {}
             /\ CurrentOf(judged[e], e, settings, location, now, generation)'
             /\ RestoredOf(judged'[e], requested', e, settings', Done')
  <2>1. e \in Considered(c) /\ e \in Events /\ Unfinished(e, c.done) # {} /\ c.settings.mode # "off"
    BY <1>2, <1>4, <1>9
  <2>2. /\ CurrentOf(p.judged[e], e, c.settings, c.location, c.at, c.generation)
        /\ RestoredOf(p.judged[e], p.requested, e, c.settings, c.done)
    BY <1>7, <2>1
  <2>3. CurrentOf(judged[e], e, settings, location, now, generation)'
    BY <1>2, <2>2 DEF CurrentOf, Stands, Nearby
  <2>4. RestoredOf(judged'[e], requested', e, settings', Done')
    BY <1>2, <1>8, <2>1, <2>2 DEF RestoredOf
  <2> QED BY <1>8, <2>1, <2>3, <2>4
<1> QED BY <1>9 DEF Current, RestoredOf, Unfinished

\* So does every step.
LEMMA JudgesNext == Judges /\ [Next]_vars => Judges'
<1>1. ASSUME Judges, Next PROVE Judges'
  <2>1. PICK c : Steps(c)
    BY <1>1, StepIs DEF Judges
  <2> QED BY <1>1, <2>1, KeepsTrackStep, MeasuredStep, CurrentStep DEF Judges
<1>2. ASSUME Judges, UNCHANGED vars PROVE Judges'
  <2>1. /\ tracks' = tracks /\ now' = now /\ status' = status /\ location' = location
        /\ settings' = settings /\ generation' = generation /\ open' = open
        /\ judged' = judged /\ struck' = struck /\ requested' = requested
    BY <1>2 DEF vars, plan
  <2>2. KeepsTrack'
    BY <1>2, KeepsTrackNext DEF Judges
  <2>3. MeasuredOnce'
    BY <1>2, <2>1 DEF Judges, MeasuredOnce, Measured
  <2>4. Current'
    <3>1. Done' = Done
      BY <2>1 DEF Done
    <3>2. ASSUME NEW e \in open, CurrentOf(judged[e], e, settings, location, now, generation)
          PROVE  CurrentOf(judged[e], e, settings, location, now, generation)'
      BY <2>1, <3>2 DEF CurrentOf, Stands, Nearby
    <3>3. \A e \in open :
            RestoredOf(judged[e], requested, e, settings, Done) =>
              RestoredOf(judged[e], requested, e, settings, Done)'
      BY <2>1, <3>1 DEF RestoredOf
    <3> QED BY <1>2, <2>1, <3>1, <3>2, <3>3 DEF Judges, Current, Unfinished
  <2> QED BY <2>2, <2>3, <2>4 DEF Judges
<1> QED BY <1>1, <1>2

\* Current judgements are what the property asks.
LEMMA JudgesGives == Judges => JudgementsAreCurrent
<1> SUFFICES ASSUME Judges, settings.mode # "off", NEW e \in open, NEW seen,
                    seen = Sight(e, settings, location)
             PROVE  /\ Verdict(judged[e]) =
                         IF seen = Unseen THEN [state |-> "unknown", basis |-> ""]
                         ELSE [state |-> Decided(seen, Afresh(e, seen), settings), basis |-> seen.basis]
                    /\ judged[e].asked = judged[e].state
  BY DEF JudgementsAreCurrent
<1>1. CurrentOf(judged[e], e, settings, location, now, generation)
  BY DEF Judges, Current
<1>2. Afresh(e, seen) = Nearby(e, seen.at, settings, now)
  BY DEF Afresh, Nearby
<1>3. CASE seen = Unseen
  BY <1>1, <1>3 DEF CurrentOf, Verdict
<1>4. CASE seen # Unseen
  <2>1. PICK d \in Nat : Stands(judged[e], e, seen, settings, now, d)
    BY <1>1, <1>4 DEF CurrentOf
  <2>2. /\ judged[e].state = Decided(seen, Nearby(e, seen.at, settings, now), settings)
        /\ judged[e].basis = seen.basis
    BY <2>1 DEF Stands
  <2> QED BY <1>1, <1>2, <1>4, <2>2 DEF CurrentOf, Verdict
<1> QED BY <1>3, <1>4

\* Skipping what has settled (planner.go settled, with its slack and the
\* speed of the fastest unit, strikeOf's measured strikes and Configure's
\* resets) never changes what Plan decides: every cycle, for any tracks and
\* settings, each open event is judged as judging it anew would.
THEOREM SettledIsCurrent == Spec => []JudgementsAreCurrent
<1>1. Init => Judges
  BY JudgesInit
<1>2. Judges /\ [Next]_vars => Judges'
  BY JudgesNext
<1>3. Judges => JudgementsAreCurrent
  BY JudgesGives
<1> QED BY <1>1, <1>2, <1>3, PTL DEF Spec

-----------------------------------------------------------------------------
(* What intent protects is not relaxed.                                     *)

\* No person walks faster than a person is taken to.
LEMMA WalkersWalk ==
  ASSUME NEW w \in Worlds, NEW u \in Units, Kind[u] = "person"
  PROVE  Paced(w[u], Walking)
<1>1. PICK alone : alone = [v \in Units |-> IF v = u THEN w[u] ELSE <<>>]
  OBVIOUS
<1>2. IsTrack(w[u]) /\ Fastest(alone) =< Walking
  BY <1>1, PlannerAssumption
<1>3. IsTrack(<<>>)
  <2>1. <<>> \in Tracks /\ Len(<<>>) = 0
    BY DEF Tracks
  <2>2. 2..Len(<<>>) = {}
    BY <2>1
  <2> QED BY <2>1, <2>2 DEF IsTrack
<1>4. \A v \in Units : IsTrack(alone[v])
  BY <1>1, <1>2, <1>3
<1>5. Fastest(alone) \in Nat /\ Paced(alone[u], Fastest(alone)) /\ alone[u] = w[u]
  BY <1>1, <1>4, SpeedIs
<1>6. Walking \in Nat
  BY WhereaboutsAssumption
<1>7. SpeedsOf(w[u]) \subseteq Nat
  BY <1>2, SpeedsAre
<1>8. ASSUME NEW i \in 2..Len(w[u])
      PROVE  (Distance(w[u][i].point, w[u][i - 1].point) \div (w[u][i].at - w[u][i - 1].at)) =< Walking
  <2>1. PICK q : q = Distance(w[u][i].point, w[u][i - 1].point) \div (w[u][i].at - w[u][i - 1].at)
    OBVIOUS
  <2>2. q \in SpeedsOf(w[u])
    BY <2>1 DEF SpeedsOf
  <2>3. q =< Fastest(alone)
    BY <1>5, <2>1 DEF Paced
  <2> QED BY <1>2, <1>5, <1>6, <1>7, <2>1, <2>2, <2>3
<1> QED BY <1>8 DEF Paced

\* Where someone protected was, is or could come is no further than Nearby.
LEMMA NoFurther ==
  ASSUME tracks \in Worlds, NEW e \in Events, NEW p \in Drift, NEW s \in SettingsSet, NEW at \in Nat,
         NEW u \in Seen(tracks, s.protect), NEW t \in {Origin[e]} \cup (at..(at + s.lookahead)),
         NEW R \in Nat, Distance(PositionAt(tracks[u], t), p) =< R
  PROVE  Nearby(e, p, s, at) =< R /\ Nearby(e, p, s, at) < Far /\ Nearby(e, p, s, at) \in Nat
<1>1. Origin[e] \in Nat /\ s.lookahead \in Nat /\ \A v \in Units : IsTrack(tracks[v])
  BY PlannerAssumption, SettingsAre, WorldIs
<1>2. PICK P : P = Reach(s.knowledge, tracks, at, s.lookahead, s.protect)
  OBVIOUS
<1>3. PICK Q : Q = Positions(tracks, Origin[e], s.protect)
  OBVIOUS
<1>4. P \subseteq Drift /\ Q \subseteq Drift
  BY <1>1, <1>2, <1>3, ReachIs
<1>5. u \in Units /\ Seen(tracks, s.protect) # {}
  BY DEF Seen
<1>6. PICK x : x = Nearest(P, p)
  OBVIOUS
<1>7. PICK y : y = Nearest(Q, p)
  OBVIOUS
<1>8. x \in Nat /\ y \in Nat
  BY <1>4, <1>6, <1>7, NearestIs
<1>9. Nearby(e, p, s, at) =< x /\ Nearby(e, p, s, at) =< y
  BY <1>2, <1>3, <1>6, <1>7, <1>8, MinOfTwo DEF Nearby
<1>10. PICK q : q = PositionAt(tracks[u], t)
  OBVIOUS
<1>11. q \in P \/ q \in Q
  <2>1. CASE t = Origin[e]
    BY <1>3, <1>10, <2>1 DEF Positions
  <2>2. CASE t \in at..(at + s.lookahead)
    <3>1. Kind[u] = "person" => Paced(tracks[u], Walking)
      BY <1>5, WalkersWalk
    <3> QED BY <1>1, <1>2, <1>10, <2>2, <3>1, InReach
  <2> QED BY <2>1, <2>2
<1>12. x =< Distance(p, q) \/ y =< Distance(p, q)
  BY <1>4, <1>6, <1>7, <1>11, NearestIs
<1>13. q \in Int /\ p \in Int
  BY <1>4, <1>11, PlacesAreWhole
<1>14. Distance(p, q) \in Nat /\ Distance(p, q) = Distance(q, p)
  BY <1>13, DistanceIs
<1>15. Nearby(e, p, s, at) \in Nat /\ Nearby(e, p, s, at) =< Far /\ Nearby(e, p, s, at) # Far
  BY <1>5, NearbyIs
<1>16. Distance(p, q) =< R
  BY <1>10, <1>14
<1>17. Nearby(e, p, s, at) < Far
  BY <1>15 DEF Far
<1> QED BY <1>8, <1>9, <1>12, <1>14, <1>15, <1>16, <1>17

\* An event in reach of someone protected is promoted or kept.
LEMMA ProtectedIsKept ==
  ASSUME Judges, NEW e \in open, settings.mode # "off", NEW u \in Units, Protects(e, u)
  PROVE  judged[e].state \in {"promoted", "kept"}
<1>1. PICK seen : seen = Sight(e, settings, location)
  OBVIOUS
<1>2. PICK s \in SettingsSet : s = settings
  BY DEF Judges, KeepsTrack, TypeOK
<1>3. PICK at \in Nat : at = now
  BY PlannerAssumption DEF Judges, KeepsTrack, TypeOK
<1>4. /\ u \in Seen(tracks, s.protect) /\ seen # Unseen /\ Reaches(seen, s.protectLevel)
      /\ \E t \in {Origin[e]} \cup (at..(at + s.lookahead)) :
           Distance(PositionAt(tracks[u], t), seen.at) =< Radius(seen, s.protectLevel, s)
  BY <1>1, <1>2, <1>3 DEF Protects
<1>5. /\ tracks \in Worlds /\ e \in Events /\ Picks[e] # 0
      /\ location[e] \in {NoLocation} \cup Estimates[e]
      /\ CurrentOf(judged[e], e, settings, location, now, generation)
  <2>1. e \in Events /\ Unfinished(e, Done) # {}
    BY DEF Judges, KeepsTrack, TypeOK, Current
  <2>2. Picks[e] = 0 => JobsOf(e) = {}
    BY DEF JobsOf
  <2>3. Picks[e] # 0
    BY <2>1, <2>2 DEF Unfinished
  <2> QED BY <2>1, <2>3 DEF Judges, KeepsTrack, TypeOK, Current
<1>6. Sighting(e, seen)
  <2>1. PICK loc : loc = location
    OBVIOUS
  <2> QED BY <1>1, <1>2, <1>4, <1>5, <2>1, SightIs
<1>7. seen.at \in Drift /\ s.protectLevel \in Levels
  BY <1>6, SettingsAre DEF Sighting
<1>8. PICK R \in Nat : R = Radius(seen, s.protectLevel, s)
  BY <1>4, <1>5, <1>6, <1>7, RadiusIs
<1>9. PICK f : f = Nearby(e, seen.at, s, at)
  OBVIOUS
<1>10. f =< R /\ f < Far /\ f \in Nat
  <2>1. PICK t \in {Origin[e]} \cup (at..(at + s.lookahead)) :
          Distance(PositionAt(tracks[u], t), seen.at) =< R
    BY <1>4, <1>8
  <2> QED BY <1>4, <1>5, <1>7, <1>9, <2>1, NoFurther
<1>11. f # Far /\ ~(f > R)
  BY <1>10 DEF Far
<1>12. Decided(seen, f, s) \in {"promoted", "kept"}
  BY <1>4, <1>8, <1>11 DEF Decided
<1>13. PICK d \in Nat : Stands(judged[e], e, seen, settings, now, d)
  BY <1>1, <1>4, <1>5 DEF CurrentOf
<1> QED BY <1>2, <1>3, <1>9, <1>12, <1>13 DEF Stands

\* So none of its work is relaxed.
LEMMA JudgesProtect == Judges => ProtectedIsNotRelaxed
<1> SUFFICES ASSUME Judges, NEW e \in open, settings.mode # "off", NEW u \in Units, Protects(e, u)
             PROVE  /\ Valued(e)
                    /\ settings.restore => \A j \in JobsOf(e) :
                         status[j] = "waiting" => held[j].priority >= Submitted[j]
  BY DEF ProtectedIsNotRelaxed
<1>1. judged[e].state \in {"promoted", "kept"}
  BY ProtectedIsKept
<1>2. e \in Events /\ AskedIsHeld /\ RestoredOf(judged[e], requested, e, settings, Done)
  BY DEF Judges, KeepsTrack, TypeOK, Current
<1>3. ASSUME settings.restore, NEW j \in JobsOf(e), status[j] = "waiting"
      PROVE  held[j].priority >= Submitted[j]
  <2>1. j \in Jobs /\ j \in Unfinished(e, Done)
    BY <1>2, <1>3, JobsAre DEF Unfinished, Done
  <2>2. requested[j].priority >= Submitted[j]
    BY <1>1, <1>2, <1>3, <2>1 DEF RestoredOf
  <2>3. held[j] = [priority |-> requested[j].priority, exempt |-> requested[j].exempt]
    BY <1>2, <1>3, <2>1 DEF AskedIsHeld
  <2> QED BY <2>2, <2>3
<1> QED BY <1>1, <1>3 DEF Valued

\* What intent is for, of any mine, any events and whoever walks or drives
\* where: work on an event whose zone reaches anyone protected, as they were,
\* are or will be within the lookahead, is not relaxed.
THEOREM NobodyProtectedIsForgotten == Spec => []ProtectedIsNotRelaxed
<1>1. Init => Judges
  BY JudgesInit
<1>2. Judges /\ [Next]_vars => Judges'
  BY JudgesNext
<1>3. Judges => ProtectedIsNotRelaxed
  BY JudgesProtect
<1> QED BY <1>1, <1>2, <1>3, PTL DEF Spec

=============================================================================
