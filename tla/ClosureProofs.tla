---------------------------- MODULE ClosureProofs ----------------------------
(****************************************************************************)
(* What the use cases read out of a run's record is right: the records      *)
(* (Records), the map of closed ground and its sums (MapHolds), that an     *)
(* answer given stands (AnswersStand), and the decisions (DecisionsHold).   *)
(****************************************************************************)
EXTENDS Closure, FiniteSetTheorems, WellFoundedInduction, TLAPS

-----------------------------------------------------------------------------
(* Numbers.                                                                 *)

\* Induction on the natural numbers, for a set: the least number outside it
\* would be neither 0 nor next to one inside.
LEMMA Induction ==
  ASSUME NEW S, 0 \in S, \A n \in Nat : n \in S => n + 1 \in S
  PROVE  Nat \subseteq S
<1>1. SUFFICES ASSUME Nat \ S # {} PROVE FALSE
  OBVIOUS
<1>2. PICK n \in Nat \ S : \A k \in Nat \ S : ~ (<<k, n>> \in OpToRel(<, Nat))
  BY <1>1, NatLessThanWellFounded, WFMin
<1>3. n # 0 /\ n - 1 \in Nat /\ n - 1 < n
  OBVIOUS
<1>4. <<n - 1, n>> \in OpToRel(<, Nat)
  BY <1>3 DEF OpToRel
<1>5. n - 1 \notin S
  BY <1>3
<1>6. n - 1 \in Nat \ S
  BY <1>3, <1>5
<1> QED BY <1>2, <1>4, <1>6

\* A set of natural numbers has a least, which is its Min.
LEMMA MinIs ==
  ASSUME NEW S, S \subseteq Nat, S # {}
  PROVE  Min(S) \in S /\ \A x \in S : Min(S) =< x
<1>1. PICK n \in S : \A k \in S : ~ (<<k, n>> \in OpToRel(<, Nat))
  BY NatLessThanWellFounded, WFMin
<1>2. \A k \in S : ~ (k < n)
  BY <1>1 DEF OpToRel
<1>3. \A x \in S : n =< x
  BY <1>2
<1> QED BY <1>3 DEF Min

\* What is in a set and below all of it is its Min.
LEMMA Least ==
  ASSUME NEW S, S \subseteq Nat, NEW n \in S, \A x \in S : n =< x
  PROVE  Min(S) = n
<1>1. Min(S) \in S /\ Min(S) =< n /\ n =< Min(S)
  BY MinIs
<1>2. Min(S) \in Nat /\ n \in Nat
  BY <1>1
<1> QED BY ONLY <1>1, <1>2

\* A bounded set of integers has a greatest, which is its Max.
LEMMA MaxIs ==
  ASSUME NEW S, S \subseteq Int, S # {}, NEW b \in Int, \A x \in S : x =< b
  PROVE  Max(S) \in S /\ \A x \in S : x =< Max(S)
<1>1. PICK T : T = {n \in Nat : \E x \in S : n = b - x}
  OBVIOUS
<1>2. T \subseteq Nat /\ T # {}
  <2>1. PICK x \in S : TRUE
    OBVIOUS
  <2>2. b - x \in Nat
    BY <2>1
  <2>3. b - x \in T
    BY <1>1, <2>1, <2>2
  <2> QED BY <1>1, <2>3
<1>3. Min(T) \in T /\ \A n \in T : Min(T) =< n
  BY <1>2, MinIs
<1>4. PICK x \in S : Min(T) = b - x
  BY <1>1, <1>3
<1>5. \A y \in S : b - y \in T
  BY <1>1
<1>6. \A y \in S : x >= y
  BY <1>3, <1>4, <1>5
<1> QED BY <1>6 DEF Max

\* A product grows with its factor, up or down.
LEMMA Product ==
  ASSUME NEW v \in Int, NEW n \in Nat, NEW d \in Nat, n =< d
  PROVE  (0 =< v => 0 =< v * n /\ v * n =< v * d) /\ (v =< 0 => v * n =< 0 /\ v * d =< v * n)
OBVIOUS

-----------------------------------------------------------------------------
(* Tracks.                                                                  *)

\* The places of the drift are numbers.
LEMMA PlacesAreWhole == \A p \in Drift : p \in Nat /\ p \in Int
BY WhereaboutsAssumption

\* A track's waypoints are places at instants.
LEMMA TrackType ==
  ASSUME NEW track, IsTrack(track)
  PROVE  /\ Len(track) \in Nat /\ DOMAIN track = 1..Len(track)
         /\ \A i \in DOMAIN track : track[i].at \in Nat /\ track[i].point \in Drift
         /\ track # <<>> => 1 \in DOMAIN track /\ Len(track) \in DOMAIN track
<1>1. track \in Seq([at: Nat, point: Drift])
  BY DEF IsTrack, Tracks
<1>2. Len(track) \in Nat /\ DOMAIN track = 1..Len(track)
  BY <1>1
<1>3. \A i \in DOMAIN track : track[i].at \in Nat /\ track[i].point \in Drift
  <2> TAKE i \in DOMAIN track
  <2>1. i \in 1..Len(track)
    BY <1>2
  <2>2. PICK R : R = [at: Nat, point: Drift]
    OBVIOUS
  <2>3. track \in Seq(R)
    BY <1>1, <2>2
  <2>4. track[i] \in R
    BY <2>1, <2>3
  <2> QED BY <2>2, <2>4
<1>4. track # <<>> => Len(track) # 0
  BY <1>1
<1> QED BY <1>2, <1>3, <1>4

\* Waypoints are in time order, not only next to each other.
LEMMA TrackInOrder ==
  ASSUME NEW track, IsTrack(track)
  PROVE  \A i, j \in DOMAIN track : i < j => track[i].at < track[j].at
<1> DEFINE S == {n \in Nat : \A i \in DOMAIN track :
                    i + n + 1 \in DOMAIN track => track[i].at < track[i + n + 1].at}
<1>1. 0 \in S
  BY TrackType DEF IsTrack
<1>2. ASSUME NEW n \in Nat, n \in S PROVE n + 1 \in S
  <2> SUFFICES ASSUME NEW i \in DOMAIN track, i + (n + 1) + 1 \in DOMAIN track
               PROVE  track[i].at < track[i + (n + 1) + 1].at
    OBVIOUS
  <2>1. i \in Nat /\ i + n + 1 \in DOMAIN track
    BY TrackType
  <2>2. track[i].at < track[i + n + 1].at
    BY <1>2, <2>1
  <2> HIDE DEF S
  <2>6. DOMAIN track = 1..Len(track) /\ Len(track) \in Nat
    BY TrackType
  <2>7. i + (n + 1) + 1 \in 1..Len(track)
    BY <2>6
  <2>3. i + (n + 1) + 1 \in 2..Len(track) /\ (i + (n + 1) + 1) - 1 = i + n + 1
    BY ONLY <2>1, <2>6, <2>7, n \in Nat
  <2>4. track[i + n + 1].at < track[i + (n + 1) + 1].at
    BY <2>3 DEF IsTrack
  <2>5. track[i].at \in Nat /\ track[i + n + 1].at \in Nat /\ track[i + (n + 1) + 1].at \in Nat
    BY <2>1, TrackType
  <2> QED BY ONLY <2>2, <2>4, <2>5
<1>3. Nat \subseteq S
  <2> HIDE DEF S
  <2> QED BY <1>1, <1>2, Induction
<1> QED
  <2> TAKE i, j \in DOMAIN track
  <2> HAVE i < j
  <2>1. i \in Nat /\ j - i - 1 \in Nat /\ i + (j - i - 1) + 1 = j
    BY TrackType
  <2>2. j - i - 1 \in S
    BY <1>3, <2>1
  <2> QED BY <2>1, <2>2

\* How fast a leg is travelled, whole and signed.
LEMMA LegSpeed ==
  ASSUME NEW track, IsTrack(track), NEW i \in 2..Len(track)
  PROVE  \E v \in Int :
           /\ track[i].point - track[i - 1].point = v * (track[i].at - track[i - 1].at)
           /\ LET q == Distance(track[i].point, track[i - 1].point)
                         \div (track[i].at - track[i - 1].at)
              IN q \in Nat /\ v =< q /\ -v =< q
<1>1. i \in DOMAIN track /\ i - 1 \in DOMAIN track
  BY TrackType
<1>2. PICK a : a = track[i - 1].point
  OBVIOUS
<1>3. PICK b : b = track[i].point
  OBVIOUS
<1>4. PICK d : d = track[i].at - track[i - 1].at
  OBVIOUS
<1>5. d \in Nat \ {0} /\ a \in Nat /\ b \in Nat
  <2>1. a \in Nat /\ b \in Nat
    BY <1>1, <1>2, <1>3, TrackType, WhereaboutsAssumption
  <2>2. track[i].at \in Nat /\ track[i - 1].at \in Nat
    BY <1>1, TrackType
  <2>3. track[i - 1].at < track[i].at
    BY DEF IsTrack
  <2> QED BY <1>4, <2>1, <2>2, <2>3
<1>6. PICK x : x = Distance(b, a)
  OBVIOUS
<1>7. x \in Nat /\ x % d = 0 /\ (b - a = x \/ b - a = -x)
  <2>1. x \in Nat /\ (b - a = x \/ b - a = -x)
    BY <1>5, <1>6 DEF Distance
  <2>2. Distance(track[i].point, track[i - 1].point) % (track[i].at - track[i - 1].at) = 0
    BY DEF IsTrack
  <2> QED BY <1>2, <1>3, <1>4, <1>6, <2>1, <2>2
<1>8. PICK q : q = x \div d
  OBVIOUS
<1>9. q \in Nat /\ x = q * d
  BY <1>5, <1>7, <1>8
<1>10. b - a = q * d \/ b - a = (-q) * d
  BY <1>5, <1>7, <1>9
<1>11. \E v \in Int : b - a = v * d /\ v =< q /\ -v =< q
  BY <1>9, <1>10
<1> QED BY <1>2, <1>3, <1>4, <1>6, <1>8, <1>9, <1>11

\* Dividing by what was multiplied with gives back the number.
LEMMA ExactDivision ==
  ASSUME NEW x \in Int, NEW d \in Nat \ {0}
  PROVE  (x * d) \div d = x
OBVIOUS

\* Where a unit is while it travels a leg, both ends included.
LEMMA PositionOnLeg ==
  ASSUME NEW track, IsTrack(track), NEW i \in 2..Len(track), NEW v \in Int,
         track[i].point - track[i - 1].point = v * (track[i].at - track[i - 1].at),
         NEW t \in Nat, track[i - 1].at =< t, t =< track[i].at
  PROVE  PositionAt(track, t) = track[i - 1].point + v * (t - track[i - 1].at)
<1>1. i \in DOMAIN track /\ i - 1 \in DOMAIN track /\ i \in Nat
  BY TrackType
<1>2. PICK after : after = {k \in DOMAIN track : track[k].at > t}
  OBVIOUS
<1>3. after \subseteq Nat /\ after \subseteq DOMAIN track
  BY <1>2, TrackType
<1>4. CASE t < track[i].at
  <2>1. i \in after
    BY <1>1, <1>2, <1>4, TrackType
  <2>2. \A k \in after : i =< k
    <3> SUFFICES ASSUME NEW k \in after, k < i PROVE FALSE
      BY <1>1, <1>3
    <3>1. k = i - 1 \/ k < i - 1
      BY <1>1, <1>3
    <3>2. track[k].at =< track[i - 1].at
      BY <1>1, <1>3, <3>1, TrackInOrder, TrackType
    <3> QED BY <1>1, <1>2, <1>3, <3>2, TrackType
  <2>3. Min(after) = i
    BY <1>3, <2>1, <2>2, Least
  <2>4. PICK p : p = track[i - 1].point
    OBVIOUS
  <2>5. PICK s : s = track[i - 1].at
    OBVIOUS
  <2>6. PICK d : d = track[i].at - s
    OBVIOUS
  <2>7. d \in Nat \ {0} /\ s \in Nat /\ p \in Nat
    <3>1. track[i].at \in Nat /\ track[i - 1].at \in Nat
      BY <1>1, TrackType
    <3>2. s \in Nat /\ track[i].at - s \in Nat \ {0}
      BY <1>4, <2>5, <3>1
    <3>3. track[i - 1].point \in Drift
      BY <1>1, TrackType
    <3> QED BY <2>4, <2>6, <3>2, <3>3, WhereaboutsAssumption
  <2>8. PositionAt(track, t) = p + ((track[i].point - p) * (t - s)) \div d
    BY <1>1, <1>2, <2>1, <2>3, <2>4, <2>5, <2>6 DEF PositionAt
  <2>9. (v * d) * (t - s) = (v * (t - s)) * d
    BY <2>7
  <2>10. ((v * (t - s)) * d) \div d = v * (t - s)
    BY <2>7, ExactDivision
  <2> QED BY <2>4, <2>5, <2>6, <2>8, <2>9, <2>10
<1>5. CASE t = track[i].at
  <2>1. \A k \in after : i < k
    <3> SUFFICES ASSUME NEW k \in after, ~ (i < k) PROVE FALSE
      OBVIOUS
    <3>1. k = i \/ k < i
      BY <1>1, <1>3
    <3>2. track[k].at =< track[i].at
      BY <1>1, <1>3, <3>1, TrackInOrder, TrackType
    <3> QED BY <1>1, <1>2, <1>3, <1>5, <3>2, TrackType
  <2>2. PositionAt(track, t) = track[i].point
    <3>1. CASE i = Len(track)
      <4>1. after = {}
        BY <1>3, <2>1, <3>1, TrackType
      <4> QED BY <1>2, <3>1, <4>1 DEF PositionAt
    <3>2. CASE i # Len(track)
      <4>1. i + 1 \in DOMAIN track /\ track[i + 1].at > t
        BY <1>1, <1>5, <3>2, TrackInOrder, TrackType
      <4>2. i + 1 \in after /\ \A k \in after : i + 1 =< k
        BY <1>1, <1>2, <1>3, <2>1, <4>1
      <4>3. Min(after) = i + 1
        BY <1>3, <4>2, Least
      <4>4. (i + 1) - 1 = i /\ i + 1 # 1
        BY <1>1
      <4>5. PositionAt(track, t) = track[i].point +
               ((track[i + 1].point - track[i].point) * (t - track[i].at))
                  \div (track[i + 1].at - track[i].at)
        BY <1>2, <4>2, <4>3, <4>4 DEF PositionAt
      <4>6. PICK d : d = track[i + 1].at - track[i].at
        OBVIOUS
      <4>7. PICK w : w = track[i + 1].point - track[i].point
        OBVIOUS
      <4>8. d \in Nat \ {0} /\ w \in Int /\ t - track[i].at = 0 /\ track[i].point \in Nat
        <5>1. track[i].at \in Nat /\ track[i + 1].at \in Nat
          BY <1>1, <4>1, TrackType
        <5>2. track[i].point \in Nat /\ track[i + 1].point \in Nat
          BY <1>1, <4>1, TrackType, WhereaboutsAssumption
        <5>3. d \in Nat \ {0} /\ t - track[i].at = 0
          BY <1>5, <4>1, <4>6, <5>1
        <5> QED BY <4>7, <5>2, <5>3
      <4>9. (w * 0) \div d = 0
        BY <4>8
      <4> QED BY <4>5, <4>6, <4>7, <4>8, <4>9
    <3> QED BY <3>1, <3>2
  <2>3. track[i].point \in Nat /\ track[i - 1].point \in Nat
    BY <1>1, TrackType, WhereaboutsAssumption
  <2>4. track[i].point = track[i - 1].point + v * (t - track[i - 1].at)
    BY <1>5, <2>3
  <2> QED BY <2>2, <2>4
<1> QED BY <1>1, <1>4, <1>5, TrackType

\* Before its first waypoint and after its last a unit stands there.
LEMMA PositionAtEnds ==
  ASSUME NEW track, IsTrack(track), track # <<>>, NEW t \in Nat
  PROVE  /\ t =< track[1].at => PositionAt(track, t) = track[1].point
         /\ track[Len(track)].at =< t => PositionAt(track, t) = track[Len(track)].point
<1>1. PICK after : after = {k \in DOMAIN track : track[k].at > t}
  OBVIOUS
<1>2. after \subseteq Nat /\ after \subseteq DOMAIN track /\ 1 \in DOMAIN track
      /\ Len(track) \in DOMAIN track
  BY <1>1, TrackType
<1>3. ASSUME track[Len(track)].at =< t PROVE PositionAt(track, t) = track[Len(track)].point
  <2>1. \A k \in DOMAIN track : track[k].at =< track[Len(track)].at
    <3> TAKE k \in DOMAIN track
    <3>1. k = Len(track) \/ k < Len(track)
      BY TrackType
    <3> QED BY <1>2, <3>1, TrackInOrder, TrackType
  <2>2. after = {}
    BY <1>1, <1>2, <1>3, <2>1, TrackType
  <2> QED BY <1>1, <2>2 DEF PositionAt
<1>4. ASSUME t < track[1].at PROVE PositionAt(track, t) = track[1].point
  <2>1. 1 \in after /\ \A k \in after : 1 =< k
    BY <1>1, <1>2, <1>4, TrackType
  <2>2. Min(after) = 1
    BY <1>2, <2>1, Least
  <2> QED BY <1>1, <2>1, <2>2 DEF PositionAt
<1>5. ASSUME t = track[1].at PROVE PositionAt(track, t) = track[1].point
  <2>1. CASE Len(track) = 1
    BY <1>2, <1>3, <1>5, <2>1, TrackType
  <2>2. CASE Len(track) # 1
    <3>0. Len(track) \in Nat /\ Len(track) >= 1 /\ DOMAIN track = 1..Len(track)
      BY <1>2, TrackType
    <3>1. 2 \in 2..Len(track) /\ 2 - 1 = 1 /\ 2 \in DOMAIN track
      BY <2>2, <3>0
    <3>2. PICK v \in Int : track[2].point - track[1].point = v * (track[2].at - track[1].at)
      BY <3>1, LegSpeed
    <3>3. track[1].at =< t /\ t =< track[2].at
      BY <1>2, <1>5, <3>1, TrackInOrder, TrackType
    <3>4. PositionAt(track, t) = track[1].point + v * (t - track[1].at)
      BY <3>1, <3>2, <3>3, PositionOnLeg
    <3>5. track[1].point \in Nat
      BY <1>2, TrackType, WhereaboutsAssumption
    <3>6. t - track[1].at = 0
      BY <1>5
    <3>7. v * (t - track[1].at) = 0
      BY <3>6
    <3> QED BY <3>4, <3>5, <3>7
  <2> QED BY <2>1, <2>2
<1> QED BY <1>2, <1>3, <1>4, <1>5, TrackType

\* At any time a unit stands at an end of its track or travels one of its legs.
LEMMA OnSomeLeg ==
  ASSUME NEW track, IsTrack(track), track # <<>>, NEW t \in Nat
  PROVE  \/ t < track[1].at \/ track[Len(track)].at =< t
         \/ \E i \in 2..Len(track) : track[i - 1].at =< t /\ t < track[i].at
<1> SUFFICES ASSUME track[1].at =< t, t < track[Len(track)].at
             PROVE  \E i \in 2..Len(track) : track[i - 1].at =< t /\ t < track[i].at
  BY TrackType
<1>1. PICK after : after = {k \in DOMAIN track : track[k].at > t}
  OBVIOUS
<1>2. after \subseteq Nat /\ after \subseteq DOMAIN track /\ Len(track) \in after /\ 1 \notin after
  BY <1>1, TrackType
<1>3. PICK i : i = Min(after)
  OBVIOUS
<1>4. i \in after /\ \A k \in after : i =< k
  BY <1>2, <1>3, MinIs
<1>5. i \in 2..Len(track) /\ i - 1 \in DOMAIN track /\ i - 1 \notin after
  BY <1>2, <1>4, TrackType
<1> QED BY <1>1, <1>4, <1>5, TrackType

\* A unit is in the drift.
LEMMA PositionInDrift ==
  ASSUME NEW track, IsTrack(track), track # <<>>, NEW t \in Nat
  PROVE  PositionAt(track, t) \in Drift
<1>1. CASE t < track[1].at \/ track[Len(track)].at =< t
  BY <1>1, PositionAtEnds, TrackType
<1>2. CASE \E i \in 2..Len(track) : track[i - 1].at =< t /\ t < track[i].at
  <2>1. PICK i \in 2..Len(track) : track[i - 1].at =< t /\ t < track[i].at
    BY <1>2
  <2>2. i \in DOMAIN track /\ i - 1 \in DOMAIN track
    BY TrackType
  <2>3. PICK v \in Int : track[i].point - track[i - 1].point = v * (track[i].at - track[i - 1].at)
    BY LegSpeed
  <2>4. PositionAt(track, t) = track[i - 1].point + v * (t - track[i - 1].at)
    <3>1. track[i].at \in Nat /\ t =< track[i].at
      BY <2>1, <2>2, TrackType
    <3> QED BY <2>1, <2>3, <3>1, PositionOnLeg
  <2>5. PICK n : n = t - track[i - 1].at
    OBVIOUS
  <2>6. PICK d : d = track[i].at - track[i - 1].at
    OBVIOUS
  <2>7. n \in Nat /\ d \in Nat /\ n =< d
    BY <2>1, <2>2, <2>5, <2>6, TrackType
  <2>8. PICK a : a = track[i - 1].point
    OBVIOUS
  <2>9. PICK b : b = track[i].point
    OBVIOUS
  <2>10. a \in Drift /\ b \in Drift /\ a \in Nat /\ b \in Nat /\ b - a = v * d
    BY <2>2, <2>3, <2>6, <2>8, <2>9, TrackType, WhereaboutsAssumption
  <2>11. a + v * n \in a..b \/ a + v * n \in b..a
    BY <2>7, <2>10, Product
  <2>12. a..b \subseteq Drift /\ b..a \subseteq Drift
    BY <2>10, WhereaboutsAssumption
  <2> QED BY <2>4, <2>5, <2>8, <2>11, <2>12
<1> QED BY <1>1, <1>2, OnSomeLeg


-----------------------------------------------------------------------------
(* Finite sets.                                                             *)

\* A finite set of numbers is bounded.
LEMMA HasBounds ==
  ASSUME NEW S, IsFiniteSet(S), S \subseteq Nat, S # {}
  PROVE  \E b \in Nat : \A x \in S : x =< b
<1> DEFINE Bounded(T) == \E b \in Nat : \A x \in T : x =< b
           N == {n \in Nat : \A T \in SUBSET Nat :
                    IsFiniteSet(T) /\ Cardinality(T) = n => Bounded(T)}
<1>1. 0 \in N
  BY FS_EmptySet
<1>2. ASSUME NEW n \in Nat, n \in N PROVE n + 1 \in N
  <2> SUFFICES ASSUME NEW T \in SUBSET Nat, IsFiniteSet(T), Cardinality(T) = n + 1
               PROVE  Bounded(T)
    OBVIOUS
  <2>0. T # {}
    <3>1. n + 1 # 0
      OBVIOUS
    <3> QED BY <3>1, FS_EmptySet
  <2>1. PICK x \in T : TRUE
    BY <2>0
  <2>2. IsFiniteSet(T \ {x}) /\ Cardinality(T \ {x}) = (n + 1) - 1
    BY <2>1, FS_RemoveElement
  <2>3. Bounded(T \ {x})
    <3>1. T \ {x} \in SUBSET Nat /\ Cardinality(T \ {x}) = n
      BY <2>2
    <3> QED BY <1>2, <2>2, <3>1
  <2>4. PICK b \in Nat : \A y \in T \ {x} : y =< b
    BY <2>3
  <2>5. b + x \in Nat /\ \A y \in T : y =< b + x
    BY <2>1, <2>4
  <2> QED BY <2>5
<1>3. Nat \subseteq N
  <2> HIDE DEF N
  <2> QED BY <1>1, <1>2, Induction
<1>4. Cardinality(S) \in Nat
  BY FS_CardinalityType
<1> QED BY <1>3, <1>4

\* A function takes a finite set to a finite set.
LEMMA ImageIsFinite ==
  ASSUME NEW K, IsFiniteSet(K), NEW f
  PROVE  IsFiniteSet({f[x] : x \in K})
<1>1. PICK g : g = [x \in K |-> f[x]]
  OBVIOUS
<1>2. g \in Surjection(K, {f[x] : x \in K})
  BY <1>1 DEF Surjection
<1> QED BY <1>2, FS_Surjection

-----------------------------------------------------------------------------
(* Spans: what merging, measuring and walking them gives.                   *)

Spans == {s \in [from: Nat, until: Nat] : s.from < s.until}
During(s, t) == s.from =< t /\ t < s.until

\* Spans in time order, with time between them.
IsRow(m) ==
  /\ m \in Seq(Spans)
  /\ \A i, j \in DOMAIN m : i < j => m[i].until < m[j].from

\* A row's spans are spans of whole numbers.
LEMMA RowType ==
  ASSUME NEW m, IsRow(m)
  PROVE  /\ Len(m) \in Nat /\ DOMAIN m = 1..Len(m)
         /\ \A i \in DOMAIN m : /\ m[i] \in Spans /\ m[i].from \in Nat /\ m[i].until \in Nat
                                /\ m[i].from < m[i].until
<1>1. m \in Seq(Spans)
  BY DEF IsRow
<1>2. Len(m) \in Nat /\ DOMAIN m = 1..Len(m)
  BY <1>1
<1>3. \A i \in 1..Len(m) : m[i] \in Spans
  BY <1>1
<1>4. \A s \in Spans : s.from \in Nat /\ s.until \in Nat /\ s.from < s.until
  BY DEF Spans
<1> QED BY <1>2, <1>3, <1>4

\* The larger of two numbers is the Max of the pair.
LEMMA LargerIs ==
  ASSUME NEW a \in Int, NEW b \in Int
  PROVE  Max({a, b}) = IF a < b THEN b ELSE a
<1>1. PICK c : c = IF a < b THEN b ELSE a
  OBVIOUS
<1>2. c \in Int /\ \A x \in {a, b} : x =< c
  BY <1>1
<1>3. {a, b} \subseteq Int /\ {a, b} # {}
  OBVIOUS
<1>4. PICK m : m = Max({a, b})
  OBVIOUS
<1>5. m \in {a, b} /\ \A x \in {a, b} : x =< m
  BY ONLY <1>2, <1>3, <1>4, MaxIs
<1> QED BY ONLY <1>4, <1>5, a \in Int, b \in Int

\* The smaller of two numbers is the Min of the pair.
LEMMA SmallerIs ==
  ASSUME NEW a \in Int, NEW b \in Int
  PROVE  Min({a, b}) = IF a < b THEN a ELSE b
BY DEF Min

\* Joining a span that begins after all others keeps a row and the time it covers.
LEMMA JoinIs ==
  ASSUME NEW m, IsRow(m), NEW s \in Spans, \A i \in DOMAIN m : m[i].from =< s.from
  PROVE  LET r == Join(m, s)
         IN /\ IsRow(r) /\ r # <<>>
            /\ \A t \in Nat : Holds(r, t) <=> Holds(m, t) \/ During(s, t)
            /\ \A i \in DOMAIN r :
                 /\ r[i].from = s.from \/ \E k \in DOMAIN m : r[i].from = m[k].from
                 /\ r[i].until = s.until \/ \E k \in DOMAIN m : r[i].until = m[k].until
<1>1. PICK n : n = Len(m)
  OBVIOUS
<1>2. /\ n \in Nat /\ DOMAIN m = 1..n /\ m \in Seq(Spans)
      /\ \A i \in 1..n : /\ m[i] \in Spans /\ m[i].from \in Nat /\ m[i].until \in Nat
                         /\ m[i].from < m[i].until
  BY <1>1, RowType DEF IsRow
<1>3. s.from \in Nat /\ s.until \in Nat /\ s.from < s.until
  BY DEF Spans
<1>4. \A i, j \in 1..n : i < j => m[i].until < m[j].from
  BY <1>2 DEF IsRow
<1>5. PICK r : r = Join(m, s)
  OBVIOUS
<1>6. CASE m = <<>> \/ s.from > m[n].until
  <2>1. r = Append(m, s)
    BY <1>1, <1>5, <1>6 DEF Join, LastOf
  <2>2. Len(r) = n + 1 /\ DOMAIN r = 1..(n + 1) /\ r \in Seq(Spans)
    BY <1>1, <1>2, <2>1
  <2>3. \A i \in 1..n : r[i] = m[i]
    BY <1>1, <1>2, <2>1
  <2>4. r[n + 1] = s
    BY <1>1, <1>2, <2>1
  <2>5. \A i \in 1..n : m[i].until < s.from
    <3>1. CASE m = <<>>
      BY <1>1, <3>1
    <3>2. CASE m # <<>> /\ s.from > m[n].until
      <4> TAKE i \in 1..n
      <4>1. i = n \/ m[i].until < m[n].from
        BY <1>2, <1>4
      <4> QED BY <1>2, <1>3, <3>2, <4>1
    <3> QED BY <1>6, <3>1, <3>2
  <2>6. ASSUME NEW i \in 1..(n + 1), NEW j \in 1..(n + 1), i < j
        PROVE  r[i].until < r[j].from
    <3>1. i \in 1..n
      BY <2>6, <1>2
    <3>2. CASE j = n + 1
      BY <2>3, <2>4, <2>5, <3>1, <3>2
    <3>3. CASE j # n + 1
      BY <1>2, <1>4, <2>3, <2>6, <3>1, <3>3
    <3> QED BY <3>2, <3>3
  <2>7. ASSUME NEW t \in Nat PROVE Holds(r, t) <=> Holds(m, t) \/ During(s, t)
    <3>1. Holds(r, t) <=> \E i \in 1..(n + 1) : r[i].from =< t /\ t < r[i].until
      BY <2>2 DEF Holds
    <3>2. Holds(m, t) <=> \E i \in 1..n : m[i].from =< t /\ t < m[i].until
      BY <1>2 DEF Holds
    <3>3. \A i \in 1..(n + 1) : i \in 1..n \/ i = n + 1
      BY <1>2
    <3>4. n + 1 \in 1..(n + 1) /\ 1..n \subseteq 1..(n + 1)
      BY <1>2
    <3> QED BY <2>3, <2>4, <3>1, <3>2, <3>3, <3>4 DEF During
  <2>8. \A i \in DOMAIN r :
          /\ r[i].from = s.from \/ \E k \in DOMAIN m : r[i].from = m[k].from
          /\ r[i].until = s.until \/ \E k \in DOMAIN m : r[i].until = m[k].until
    <3>1. \A i \in 1..(n + 1) : i \in 1..n \/ i = n + 1
      BY <1>2
    <3> QED BY <1>2, <2>2, <2>3, <2>4, <3>1
  <2>9. r # <<>>
    BY <1>2, <2>2
  <2>10. IsRow(r)
    BY <2>2, <2>6 DEF IsRow
  <2> QED BY <1>5, <2>7, <2>8, <2>9, <2>10
<1>7. CASE ~ (m = <<>> \/ s.from > m[n].until)
  <2>1. n \in 1..n
    BY <1>1, <1>2, <1>7
  <2>2. PICK u : u = Max({m[n].until, s.until})
    OBVIOUS
  <2>3. u = IF m[n].until < s.until THEN s.until ELSE m[n].until
    <3>1. m[n].until \in Int /\ s.until \in Int
      BY <1>2, <1>3, <2>1
    <3> QED BY <2>2, <3>1, LargerIs
  <2>4. r = [m EXCEPT ![n].until = u]
    BY <1>1, <1>5, <1>7, <2>2 DEF Join, LastOf
  <2>5. m[n] \in [from: Nat, until: Nat]
    BY <1>2, <2>1 DEF Spans
  <2>6. PICK l : l = [m[n] EXCEPT !.until = u]
    OBVIOUS
  <2>7. l \in Spans /\ l.from = m[n].from /\ l.until = u
    <3>1. u \in Nat /\ m[n].from < u
      BY <1>2, <1>3, <2>1, <2>3
    <3> QED BY <2>5, <2>6, <3>1 DEF Spans
  <2>8. r = [m EXCEPT ![n] = l]
    BY <2>4, <2>6
  <2>9. r \in Seq(Spans) /\ Len(r) = n /\ DOMAIN r = 1..n
    BY <1>1, <1>2, <2>1, <2>7, <2>8
  <2>10. r[n] = l /\ \A i \in 1..n : i # n => r[i] = m[i]
    BY <1>2, <2>1, <2>8
  <2>11. ASSUME NEW i \in 1..n, NEW j \in 1..n, i < j PROVE r[i].until < r[j].from
    <3>1. i # n
      BY <1>2, <2>11
    <3>2. r[i] = m[i] /\ r[j].from = m[j].from
      BY <2>7, <2>10, <3>1
    <3> QED BY <1>4, <2>11, <3>2
  <2>12. m[n].from =< s.from /\ s.from =< m[n].until
    <3>1. m[n].from =< s.from
      BY <1>2, <2>1
    <3>2. ~ (s.from > m[n].until)
      BY <1>7
    <3>3. m[n].until \in Nat
      BY <1>2, <2>1
    <3> QED BY <1>3, <3>1, <3>2, <3>3
  <2>13. ASSUME NEW t \in Nat PROVE During(l, t) <=> During(m[n], t) \/ During(s, t)
    <3>1. PICK a : a = m[n].from
      OBVIOUS
    <3>2. PICK b : b = m[n].until
      OBVIOUS
    <3>3. a \in Nat /\ b \in Nat /\ a < b /\ a =< s.from /\ s.from =< b
      BY <1>2, <2>1, <2>12, <3>1, <3>2
    <3>4. u = IF b < s.until THEN s.until ELSE b
      BY <2>3, <3>2
    <3>5. (a =< t /\ t < u) <=> (a =< t /\ t < b) \/ (s.from =< t /\ t < s.until)
      BY ONLY <1>3, <3>3, <3>4, t \in Nat
    <3> QED BY <2>7, <3>1, <3>2, <3>5 DEF During
  <2>14. ASSUME NEW t \in Nat PROVE Holds(r, t) <=> Holds(m, t) \/ During(s, t)
    <3>1. Holds(r, t) <=> \E i \in 1..n : During(r[i], t)
      BY <2>9 DEF Holds, During
    <3>2. Holds(m, t) <=> \E i \in 1..n : During(m[i], t)
      BY <1>2 DEF Holds, During
    <3> QED BY <2>1, <2>10, <2>13, <3>1, <3>2
  <2>15. \A i \in DOMAIN r :
          /\ r[i].from = s.from \/ \E k \in DOMAIN m : r[i].from = m[k].from
          /\ r[i].until = s.until \/ \E k \in DOMAIN m : r[i].until = m[k].until
    BY <1>2, <2>1, <2>3, <2>7, <2>9, <2>10
  <2>16. r # <<>>
    BY <2>1, <2>9
  <2>17. IsRow(r)
    BY <2>9, <2>11 DEF IsRow
  <2> QED BY <1>5, <2>14, <2>15, <2>16, <2>17
<1> QED BY <1>6, <1>7

\* The span that begins last.
Latest(S) == CHOOSE s \in S : \A t \in S : t.from =< s.from

\* Some span of a finite set starts no earlier than any other.
LEMMA LatestIs ==
  ASSUME NEW S, S \subseteq Spans, IsFiniteSet(S), S # {}
  PROVE  Latest(S) \in S /\ \A t \in S : t.from =< Latest(S).from
<1>1. PICK F : F = {s.from : s \in S}
  OBVIOUS
<1>2. IsFiniteSet(F)
  <2>1. PICK f : f = [s \in S |-> s.from]
    OBVIOUS
  <2>2. F = {f[s] : s \in S}
    BY <1>1, <2>1
  <2> QED BY <2>2, ImageIsFinite
<1>3. F \subseteq Nat /\ F # {}
  BY <1>1 DEF Spans
<1>4. PICK b \in Nat : \A x \in F : x =< b
  BY <1>2, <1>3, HasBounds
<1>5. F \subseteq Int /\ b \in Int
  BY <1>3
<1>6. Max(F) \in F /\ \A x \in F : x =< Max(F)
  BY <1>3, <1>4, <1>5, MaxIs
<1>7. PICK s \in S : \A t \in S : t.from =< s.from
  BY <1>1, <1>6
<1> QED BY <1>7 DEF Latest

\* Merging as a function of the spans still to join.
Turned(g, S) == IF S = {} THEN <<>> ELSE Join(g[S \ {Latest(S)}], Latest(S))
MergeOf(spans) == CHOOSE g : g = [S \in SUBSET spans |-> Turned(g, S)]

\* Merged is the recursive function MergeOf names, taken at the whole set.
LEMMA MergedIsOf == ASSUME NEW spans PROVE Merged(spans) = MergeOf(spans)[spans]
BY DEF Merged, MergeOf, Turned, Latest

\* The recursive function merged is built on exists, by induction on the size
\* of the set.
LEMMA MergeExists ==
  ASSUME NEW spans, spans \subseteq Spans, IsFiniteSet(spans)
  PROVE  \E g : g = [S \in SUBSET spans |-> Turned(g, S)]
<1> DEFINE Small(n) == {S \in SUBSET spans : Cardinality(S) =< n}
           Has(n) == \E g : g = [S \in Small(n) |-> Turned(g, S)]
           N == {n \in Nat : Has(n)}
<1>0. \A S \in SUBSET spans : IsFiniteSet(S) /\ Cardinality(S) \in Nat
                              /\ (S = {} <=> Cardinality(S) = 0)
  BY FS_Subset, FS_CardinalityType, FS_EmptySet
<1>1. Has(0)
  <2>1. \A S \in Small(0) : S = {}
    BY <1>0
  <2>2. PICK g : g = [S \in Small(0) |-> <<>>]
    OBVIOUS
  <2>3. \A S \in Small(0) : Turned(g, S) = <<>>
    BY <2>1 DEF Turned
  <2>4. g = [S \in Small(0) |-> Turned(g, S)]
    BY <2>2, <2>3
  <2> QED BY <2>4
<1>2. ASSUME NEW n \in Nat, Has(n) PROVE Has(n + 1)
  <2>1. PICK f : f = [S \in Small(n) |-> Turned(f, S)]
    BY <1>2
  <2>2. PICK g : g = [S \in Small(n + 1) |-> Turned(f, S)]
    OBVIOUS
  <2>3. \A S \in Small(n) : S \in Small(n + 1) /\ g[S] = f[S]
    <3> SUFFICES ASSUME NEW S \in Small(n) PROVE S \in Small(n + 1) /\ g[S] = f[S]
      OBVIOUS
    <3>1. S \in Small(n + 1)
      BY <1>0
    <3> QED BY <2>1, <2>2, <3>1
  <2>4. ASSUME NEW S \in Small(n + 1) PROVE Turned(f, S) = Turned(g, S)
    <3>1. CASE S = {}
      BY <3>1 DEF Turned
    <3>2. CASE S # {}
      <4>1. S \in SUBSET spans /\ S \subseteq Spans /\ IsFiniteSet(S)
        BY <1>0
      <4>2. Latest(S) \in S
        BY <3>2, <4>1, LatestIs
      <4>3. S \ {Latest(S)} \in Small(n)
        <5>1. Cardinality(S \ {Latest(S)}) = Cardinality(S) - 1
          BY <4>1, <4>2, FS_RemoveElement
        <5>2. Cardinality(S) \in Nat /\ Cardinality(S) =< n + 1
          BY <1>0, <4>1
        <5>3. Cardinality(S) - 1 =< n
          BY <5>2
        <5> QED BY <4>1, <5>1, <5>3
      <4> QED BY <2>3, <4>3 DEF Turned
    <3> QED BY <3>1, <3>2
  <2>5. g = [S \in Small(n + 1) |-> Turned(g, S)]
    <3> HIDE DEF Small
    <3> QED BY <2>2, <2>4
  <2> QED BY <2>5
<1> HIDE DEF Has
<1>3. 0 \in N /\ \A n \in Nat : n \in N => n + 1 \in N
  BY <1>1, <1>2
<1>4. Nat \subseteq N
  <2> HIDE DEF N
  <2> QED BY <1>3, Induction
<1>5. PICK n \in Nat : n = Cardinality(spans)
  BY FS_CardinalityType
<1>6. Small(n) = SUBSET spans
  <2>1. \A S \in SUBSET spans : Cardinality(S) =< n
    BY <1>5, FS_Subset
  <2> QED BY <2>1
<1>7. Has(n)
  BY <1>4
<1> QED BY <1>6, <1>7 DEF Has

\* Merging gives a row that covers what the spans cover and begins and ends
\* where some of them do.
LEMMA MergedIs ==
  ASSUME NEW spans, spans \subseteq Spans, IsFiniteSet(spans)
  PROVE  LET m == Merged(spans)
         IN /\ IsRow(m)
            /\ \A t \in Nat : Holds(m, t) <=> \E s \in spans : During(s, t)
            /\ \A i \in DOMAIN m : /\ \E s \in spans : m[i].from = s.from
                                   /\ \E s \in spans : m[i].until = s.until
<1> DEFINE Right(m, S) ==
             /\ IsRow(m)
             /\ \A t \in Nat : Holds(m, t) <=> \E s \in S : During(s, t)
             /\ \A i \in DOMAIN m : /\ \E s \in S : m[i].from = s.from
                                    /\ \E s \in S : m[i].until = s.until
<1>1. PICK g : g = MergeOf(spans)
  OBVIOUS
<1>2. \A S \in SUBSET spans : g[S] = Turned(g, S)
  <2>1. g = [S \in SUBSET spans |-> Turned(g, S)]
    BY <1>1, MergeExists DEF MergeOf
  <2> QED BY <2>1
<1>3. Right(<<>>, {})
  BY DEF IsRow, Holds
<1>4. ASSUME NEW S \in SUBSET spans, S # {}, Right(g[S \ {Latest(S)}], S \ {Latest(S)})
      PROVE  Right(g[S], S)
  <2>1. S \subseteq Spans /\ IsFiniteSet(S)
    BY FS_Subset
  <2>2. PICK l : l = Latest(S)
    OBVIOUS
  <2>3. l \in S /\ l \in Spans /\ \A t \in S : t.from =< l.from
    BY <1>4, <2>1, <2>2, LatestIs
  <2>4. PICK m : m = g[S \ {l}]
    OBVIOUS
  <2>5. Right(m, S \ {l})
    BY <1>4, <2>2, <2>4
  <2>6. IsRow(m) /\ \A i \in DOMAIN m : m[i].from =< l.from
    BY <2>3, <2>5
  <2>7. PICK r : r = Join(m, l)
    OBVIOUS
  <2>8. /\ IsRow(r)
        /\ \A t \in Nat : Holds(r, t) <=> Holds(m, t) \/ During(l, t)
        /\ \A i \in DOMAIN r :
             /\ r[i].from = l.from \/ \E k \in DOMAIN m : r[i].from = m[k].from
             /\ r[i].until = l.until \/ \E k \in DOMAIN m : r[i].until = m[k].until
    BY ONLY <2>3, <2>6, <2>7, JoinIs
  <2>9. \A t \in Nat : Holds(r, t) <=> \E s \in S : During(s, t)
    BY <2>3, <2>5, <2>8
  <2>10. \A i \in DOMAIN r : /\ \E s \in S : r[i].from = s.from
                             /\ \E s \in S : r[i].until = s.until
    BY <2>3, <2>5, <2>8
  <2>11. g[S] = r
    BY <1>2, <1>4, <2>2, <2>4, <2>7 DEF Turned
  <2> QED BY <2>8, <2>9, <2>10, <2>11
<1> HIDE DEF Right
<1> DEFINE N == {n \in Nat : \A S \in SUBSET spans : Cardinality(S) = n => Right(g[S], S)}
<1>0. \A S \in SUBSET spans : IsFiniteSet(S) /\ Cardinality(S) \in Nat
                              /\ (S = {} <=> Cardinality(S) = 0)
  BY FS_Subset, FS_CardinalityType, FS_EmptySet
<1>5. 0 \in N
  <2>1. {} \in SUBSET spans /\ g[{}] = <<>>
    BY <1>2 DEF Turned
  <2> QED BY <1>0, <1>3, <2>1
<1>6. ASSUME NEW n \in Nat, n \in N PROVE n + 1 \in N
  <2> SUFFICES ASSUME NEW S \in SUBSET spans, Cardinality(S) = n + 1 PROVE Right(g[S], S)
    OBVIOUS
  <2>1. S # {} /\ S \subseteq Spans /\ IsFiniteSet(S)
    BY <1>0
  <2>2. Latest(S) \in S
    BY <2>1, LatestIs
  <2>3. Cardinality(S \ {Latest(S)}) = (n + 1) - 1
    BY <2>1, <2>2, FS_RemoveElement
  <2>4. Cardinality(S \ {Latest(S)}) = n /\ S \ {Latest(S)} \in SUBSET spans
    BY <2>3
  <2>5. Right(g[S \ {Latest(S)}], S \ {Latest(S)})
    BY <1>6, <2>4
  <2> QED BY <1>4, <2>1, <2>5
<1>7. Nat \subseteq N
  <2> HIDE DEF N
  <2> QED BY <1>5, <1>6, Induction
<1>8. Right(g[spans], spans)
  BY <1>0, <1>7
<1> QED BY <1>1, <1>8, MergedIsOf DEF Right

-----------------------------------------------------------------------------
(* Measuring spans.                                                         *)

\* The instants of a row's spans from one of them on, or up to one of them.
UpTo(m, i)   == {t \in Nat : \E k \in 1..i : During(m[k], t)}
FromOn(m, i) == {t \in Nat : \E k \in i..Len(m) : During(m[k], t)}

\* A span holds as many instants as it is long.
LEMMA SpanIs ==
  ASSUME NEW s \in Spans
  PROVE  /\ {t \in Nat : During(s, t)} = s.from..(s.until - 1)
         /\ IsFiniteSet({t \in Nat : During(s, t)})
         /\ Cardinality({t \in Nat : During(s, t)}) = s.until - s.from
<1>1. s.from \in Nat /\ s.until \in Nat /\ s.from < s.until
  BY DEF Spans
<1>2. {t \in Nat : During(s, t)} = s.from..(s.until - 1)
  BY <1>1 DEF During
<1>3. /\ IsFiniteSet(s.from..(s.until - 1))
      /\ Cardinality(s.from..(s.until - 1)) = s.until - s.from
  <2>1. s.from \in Int /\ s.until - 1 \in Int /\ ~ (s.from > s.until - 1)
    BY <1>1
  <2>2. Cardinality(s.from..(s.until - 1)) = (s.until - 1) - s.from + 1
    BY <2>1, FS_Interval
  <2>3. (s.until - 1) - s.from + 1 = s.until - s.from
    BY <1>1
  <2>4. IsFiniteSet(s.from..(s.until - 1))
    BY <2>1, FS_Interval
  <2> QED BY ONLY <2>2, <2>3, <2>4
<1> QED BY <1>2, <1>3

\* One more span of a row adds its length to the instants counted so far.
LEMMA UpToIs ==
  ASSUME NEW m, IsRow(m), NEW i \in 1..Len(m)
  PROVE  /\ IsFiniteSet(UpTo(m, i - 1)) =>
              /\ IsFiniteSet(UpTo(m, i))
              /\ Cardinality(UpTo(m, i)) = Cardinality(UpTo(m, i - 1)) + (m[i].until - m[i].from)
<1> SUFFICES ASSUME IsFiniteSet(UpTo(m, i - 1))
             PROVE  /\ IsFiniteSet(UpTo(m, i))
                    /\ Cardinality(UpTo(m, i)) =
                         Cardinality(UpTo(m, i - 1)) + (m[i].until - m[i].from)
  OBVIOUS
<1>1. Len(m) \in Nat /\ DOMAIN m = 1..Len(m) /\ m[i] \in Spans
  BY RowType
<1>2. PICK A : A = UpTo(m, i - 1)
  OBVIOUS
<1>3. PICK B : B = {t \in Nat : During(m[i], t)}
  OBVIOUS
<1>4. UpTo(m, i) = A \cup B
  <2>1. \A k \in 1..i : k \in 1..(i - 1) \/ k = i
    BY <1>1
  <2>2. i \in 1..i /\ 1..(i - 1) \subseteq 1..i
    BY <1>1
  <2> QED BY <1>2, <1>3, <2>1, <2>2 DEF UpTo
<1>5. A \cap B = {}
  <2> SUFFICES ASSUME NEW t \in Nat, NEW k \in 1..(i - 1), During(m[k], t), During(m[i], t)
               PROVE  FALSE
    BY <1>2, <1>3 DEF UpTo
  <2>1. k \in DOMAIN m /\ i \in DOMAIN m /\ k < i
    BY <1>1
  <2>2. m[k].until < m[i].from
    BY <2>1 DEF IsRow
  <2>3. m[k].until \in Nat /\ m[i].from \in Nat
    BY <2>1, RowType
  <2> QED BY <2>2, <2>3 DEF During
<1>6. IsFiniteSet(A) /\ IsFiniteSet(B) /\ Cardinality(B) = m[i].until - m[i].from
  BY <1>1, <1>2, <1>3, SpanIs
<1>7. /\ IsFiniteSet(A \cup B)
      /\ Cardinality(A \cup B) = Cardinality(A) + Cardinality(B) - Cardinality(A \cap B)
  BY <1>6, FS_Union
<1>8. Cardinality(A \cap B) = 0
  BY <1>5, FS_EmptySet
<1>9. Cardinality(A) \in Nat /\ Cardinality(B) \in Nat
  BY <1>6, FS_CardinalityType
<1> QED BY <1>2, <1>4, <1>6, <1>7, <1>8, <1>9

\* What the first spans of a row hold is finite, however many they are.
LEMMA UpToAll ==
  ASSUME NEW m, IsRow(m)
  PROVE  \A i \in 0..Len(m) : IsFiniteSet(UpTo(m, i))
<1> DEFINE N == {n \in Nat : n =< Len(m) => IsFiniteSet(UpTo(m, n))}
<1>1. Len(m) \in Nat
  BY RowType
<1>2. UpTo(m, 0) = {}
  BY DEF UpTo
<1>3. 0 \in N
  BY <1>2, FS_EmptySet
<1>4. ASSUME NEW n \in Nat, n \in N PROVE n + 1 \in N
  <2> SUFFICES ASSUME n + 1 =< Len(m) PROVE IsFiniteSet(UpTo(m, n + 1))
    OBVIOUS
  <2>1. n + 1 \in 1..Len(m) /\ (n + 1) - 1 = n /\ n =< Len(m)
    BY <1>1
  <2> QED BY <1>4, <2>1, UpToIs
<1>5. Nat \subseteq N
  <2> HIDE DEF N
  <2> QED BY <1>3, <1>4, Induction
<1> QED BY <1>1, <1>5

\* length is the number of instants covered.
LEMMA LengthIs ==
  ASSUME NEW m, IsRow(m)
  PROVE  LET held == {t \in Nat : Holds(m, t)}
         IN IsFiniteSet(held) /\ Length(m) = Cardinality(held)
<1> DEFINE Sums(f) == f = [i \in 0..Len(m) |->
                             IF i = 0 THEN 0 ELSE f[i - 1] + m[i].until - m[i].from]
<1>1. Len(m) \in Nat /\ DOMAIN m = 1..Len(m)
  BY RowType
<1>2. PICK f : f = [i \in 0..Len(m) |-> Cardinality(UpTo(m, i))]
  OBVIOUS
<1>3. \A i \in 0..Len(m) : f[i] = IF i = 0 THEN 0 ELSE f[i - 1] + m[i].until - m[i].from
  <2> TAKE i \in 0..Len(m)
  <2>1. CASE i = 0
    <3>1. UpTo(m, i) = {}
      BY <2>1 DEF UpTo
    <3> QED BY <1>2, <2>1, <3>1, FS_EmptySet
  <2>2. CASE i # 0
    <3>1. i \in 1..Len(m) /\ i - 1 \in 0..Len(m)
      BY <1>1, <2>2
    <3>2. f[i] = Cardinality(UpTo(m, i)) /\ f[i - 1] = Cardinality(UpTo(m, i - 1))
      BY <1>2, <3>1
    <3> QED BY <2>2, <3>1, <3>2, UpToAll, UpToIs
  <2> QED BY <2>1, <2>2
<1>4. Sums(f)
  BY <1>2, <1>3
<1>5. PICK g : g = CHOOSE h : Sums(h)
  OBVIOUS
<1>6. Sums(g)
  BY <1>4, <1>5
<1>7. \A i \in 0..Len(m) : g[i] = IF i = 0 THEN 0 ELSE g[i - 1] + m[i].until - m[i].from
  BY <1>6
<1>8. Length(m) = g[Len(m)]
  BY <1>5 DEF Length
<1> HIDE DEF Sums
<1> DEFINE N == {n \in Nat : n =< Len(m) => g[n] = f[n]}
<1>9. 0 \in N
  BY <1>1, <1>3, <1>7
<1>10. ASSUME NEW n \in Nat, n \in N PROVE n + 1 \in N
  <2> SUFFICES ASSUME n + 1 =< Len(m) PROVE g[n + 1] = f[n + 1]
    OBVIOUS
  <2>1. n + 1 \in 0..Len(m) /\ n + 1 # 0 /\ (n + 1) - 1 = n /\ n =< Len(m)
    BY <1>1
  <2> QED BY <1>3, <1>7, <1>10, <2>1
<1>11. Nat \subseteq N
  <2> HIDE DEF N
  <2> QED BY <1>9, <1>10, Induction
<1>12. Length(m) = Cardinality(UpTo(m, Len(m)))
  BY <1>1, <1>2, <1>8, <1>11
<1>13. UpTo(m, Len(m)) = {t \in Nat : Holds(m, t)}
  BY <1>1 DEF UpTo, Holds, During
<1>14. IsFiniteSet(UpTo(m, Len(m)))
  BY <1>1, UpToAll
<1> QED BY <1>12, <1>13, <1>14

-----------------------------------------------------------------------------
(* Walking two rows.                                                        *)

Instants_of(s) == {t \in Nat : During(s, t)}

\* What a row holds from one span on is that span's instants and, later than
\* all of them, what it holds from the next.
LEMMA FromOnIs ==
  ASSUME NEW m, IsRow(m), NEW i \in Nat \ {0}
  PROVE  /\ IsFiniteSet(FromOn(m, i))
         /\ i \in 1..Len(m) =>
              /\ FromOn(m, i) = Instants_of(m[i]) \cup FromOn(m, i + 1)
              /\ \A t \in FromOn(m, i + 1) : m[i].until < t
         /\ i > Len(m) => FromOn(m, i) = {}
<1>1. Len(m) \in Nat /\ DOMAIN m = 1..Len(m)
  BY RowType
<1>2. IsFiniteSet(FromOn(m, i))
  <2>1. FromOn(m, i) \subseteq UpTo(m, Len(m))
    BY <1>1 DEF FromOn, UpTo
  <2>2. IsFiniteSet(UpTo(m, Len(m)))
    BY <1>1, UpToAll
  <2> QED BY <2>1, <2>2, FS_Subset
<1>3. ASSUME i \in 1..Len(m)
      PROVE  /\ FromOn(m, i) = Instants_of(m[i]) \cup FromOn(m, i + 1)
             /\ \A t \in FromOn(m, i + 1) : m[i].until < t
  <2>1. \A k \in i..Len(m) : k = i \/ k \in (i + 1)..Len(m)
    BY <1>1, <1>3
  <2>2. i \in i..Len(m) /\ (i + 1)..Len(m) \subseteq i..Len(m)
    BY <1>1, <1>3
  <2>3. FromOn(m, i) = Instants_of(m[i]) \cup FromOn(m, i + 1)
    BY <2>1, <2>2 DEF FromOn, Instants_of
  <2>4. ASSUME NEW t \in Nat, NEW k \in (i + 1)..Len(m), During(m[k], t) PROVE m[i].until < t
    <3>1. k \in DOMAIN m /\ i \in DOMAIN m /\ i < k
      BY <1>1, <1>3
    <3>2. m[i].until < m[k].from
      BY <3>1 DEF IsRow
    <3>3. m[i].until \in Nat /\ m[k].from \in Nat
      BY <3>1, RowType
    <3> QED BY <2>4, <3>2, <3>3 DEF During
  <2> QED BY <2>3, <2>4 DEF FromOn
<1>4. ASSUME i > Len(m) PROVE FromOn(m, i) = {}
  <2>1. i..Len(m) = {}
    BY <1>1, <1>4
  <2> QED BY <2>1 DEF FromOn
<1> QED BY <1>2, <1>3, <1>4

\* Two spans overlap for as long as there are instants in both.
LEMMA OverlapIs ==
  ASSUME NEW s \in Spans, NEW r \in Spans
  PROVE  /\ IsFiniteSet(Instants_of(s) \cap Instants_of(r))
         /\ Overlap(s, r) = Cardinality(Instants_of(s) \cap Instants_of(r))
         /\ Overlap(s, r) = Overlap(r, s)
<1>1. /\ s.from \in Nat /\ s.until \in Nat /\ s.from < s.until
      /\ r.from \in Nat /\ r.until \in Nat /\ r.from < r.until
  BY DEF Spans
<1>2. PICK a : a = IF s.from < r.from THEN r.from ELSE s.from
  OBVIOUS
<1>3. PICK b : b = IF s.until < r.until THEN s.until ELSE r.until
  OBVIOUS
<1>4. a \in Nat /\ b \in Nat /\ b - a \in Int /\ b - 1 \in Int
  BY <1>1, <1>2, <1>3
<1>5. PICK n : n = IF 0 < b - a THEN b - a ELSE 0
  OBVIOUS
<1>6. Max({s.from, r.from}) = a /\ Max({r.from, s.from}) = a
  BY <1>1, <1>2, LargerIs
<1>7. Min({s.until, r.until}) = b /\ Min({r.until, s.until}) = b
  BY <1>1, <1>3, SmallerIs
<1>8. Max({0, b - a}) = n
  BY <1>4, <1>5, LargerIs
<1>9. Overlap(s, r) = n /\ Overlap(r, s) = n
  BY <1>6, <1>7, <1>8 DEF Overlap
<1>10. Instants_of(s) \cap Instants_of(r) = a..(b - 1)
  <2>1. \A t \in Nat : During(s, t) /\ During(r, t) <=> a =< t /\ t =< b - 1
    BY <1>1, <1>2, <1>3 DEF During
  <2> QED BY <1>4, <2>1 DEF Instants_of
<1>11. IsFiniteSet(a..(b - 1)) /\ Cardinality(a..(b - 1)) = IF a > b - 1 THEN 0 ELSE (b - 1) - a + 1
  BY <1>4, FS_Interval
<1>12. Cardinality(a..(b - 1)) = n
  BY <1>4, <1>5, <1>11
<1> QED BY <1>9, <1>10, <1>11, <1>12

\* What two rows have in common from two of their spans on, where the first of
\* them ends no later than the other.
LEMMA CommonSplits ==
  ASSUME NEW a, IsRow(a), NEW b, IsRow(b), NEW i \in 1..Len(a), NEW j \in 1..Len(b),
         a[i].until =< b[j].until
  PROVE  Cardinality(FromOn(a, i) \cap FromOn(b, j)) =
           Overlap(a[i], b[j]) + Cardinality(FromOn(a, i + 1) \cap FromOn(b, j))
<1>1. /\ Len(a) \in Nat /\ DOMAIN a = 1..Len(a) /\ Len(b) \in Nat /\ DOMAIN b = 1..Len(b)
      /\ i \in Nat \ {0} /\ j \in Nat \ {0} /\ i + 1 \in Nat \ {0}
  BY RowType
<1>2. a[i] \in Spans /\ b[j] \in Spans /\ a[i].until \in Nat /\ b[j].until \in Nat
  BY <1>1, RowType
<1>3. PICK A : A = FromOn(a, i + 1)
  OBVIOUS
<1>4. PICK B : B = FromOn(b, j)
  OBVIOUS
<1>5. PICK C : C = FromOn(b, j + 1)
  OBVIOUS
<1>6. /\ IsFiniteSet(A) /\ FromOn(a, i) = Instants_of(a[i]) \cup A
      /\ \A t \in A : a[i].until < t
  BY <1>1, <1>3, FromOnIs
<1>7. B = Instants_of(b[j]) \cup C /\ \A t \in C : b[j].until < t
  BY <1>1, <1>4, <1>5, FromOnIs
<1>8. A \subseteq Nat /\ C \subseteq Nat
  BY <1>3, <1>5 DEF FromOn
<1>9. \A t \in Instants_of(a[i]) : t \in Nat /\ t < a[i].until
  BY DEF Instants_of, During
<1>10. PICK D : D = Instants_of(a[i]) \cap Instants_of(b[j])
  OBVIOUS
<1>11. Instants_of(a[i]) \cap C = {}
  BY <1>2, <1>7, <1>8, <1>9
<1>12. Instants_of(a[i]) \cap A = {}
  BY <1>2, <1>6, <1>8, <1>9
<1>13. FromOn(a, i) \cap B = D \cup (A \cap B)
  BY <1>6, <1>7, <1>10, <1>11
<1>14. D \cap (A \cap B) = {}
  BY <1>10, <1>12
<1>15. IsFiniteSet(D) /\ Cardinality(D) = Overlap(a[i], b[j])
  BY <1>2, <1>10, OverlapIs
<1>16. IsFiniteSet(A \cap B)
  BY <1>6, FS_Subset
<1>17. Cardinality(D \cup (A \cap B)) =
         Cardinality(D) + Cardinality(A \cap B) - Cardinality(D \cap (A \cap B))
  BY <1>15, <1>16, FS_Union
<1>18. Cardinality(D \cap (A \cap B)) = 0 /\ Cardinality(D) \in Nat /\ Cardinality(A \cap B) \in Nat
  BY <1>14, <1>15, <1>16, FS_EmptySet, FS_CardinalityType
<1>19. Cardinality(D \cup (A \cap B)) = Overlap(a[i], b[j]) + Cardinality(A \cap B)
  BY ONLY <1>15, <1>17, <1>18
<1> QED BY ONLY <1>3, <1>4, <1>13, <1>19

Pairs(a, b) == (1..(Len(a) + 1)) \X (1..(Len(b) + 1))
Onward(a, b, i, j) == IF a[i].until < b[j].until THEN <<i + 1, j>> ELSE <<i, j + 1>>
Walked(a, b, w, i, j) ==
  IF i > Len(a) \/ j > Len(b) THEN 0 ELSE Overlap(a[i], b[j]) + w[Onward(a, b, i, j)]
WalkOf(a, b) == CHOOSE w : w = [at \in Pairs(a, b) |-> Walked(a, b, w, at[1], at[2])]

\* Intersection is the recursive function WalkOf names, begun at both heads.
LEMMA IntersectionIsOf == ASSUME NEW a, NEW b PROVE Intersection(a, b) = WalkOf(a, b)[<<1, 1>>]
BY DEF Intersection, WalkOf, Walked, Onward, Pairs

\* intersection is the number of instants both rows cover.
LEMMA IntersectionIs ==
  ASSUME NEW a, IsRow(a), NEW b, IsRow(b)
  PROVE  Intersection(a, b) = Cardinality({t \in Nat : Holds(a, t) /\ Holds(b, t)})
<1>1. Len(a) \in Nat /\ DOMAIN a = 1..Len(a) /\ Len(b) \in Nat /\ DOMAIN b = 1..Len(b)
  BY RowType
<1> DEFINE Common(i, j) == Cardinality(FromOn(a, i) \cap FromOn(b, j))
<1>2. PICK v : v = [at \in Pairs(a, b) |-> Common(at[1], at[2])]
  OBVIOUS
<1>3. ASSUME NEW i \in 1..(Len(a) + 1), NEW j \in 1..(Len(b) + 1)
      PROVE  /\ <<i, j>> \in Pairs(a, b) /\ v[<<i, j>>] = Common(i, j)
             /\ i =< Len(a) /\ j =< Len(b) =>
                  /\ Onward(a, b, i, j) \in Pairs(a, b)
                  /\ \/ Onward(a, b, i, j) = <<i + 1, j>>
                     \/ Onward(a, b, i, j) = <<i, j + 1>>
  <2> HIDE DEF Common
  <2>1. <<i, j>> \in Pairs(a, b)
    BY DEF Pairs
  <2>2. v[<<i, j>>] = Common(i, j)
    BY <1>2, <2>1
  <2>3. ASSUME i =< Len(a), j =< Len(b)
        PROVE  <<i + 1, j>> \in Pairs(a, b) /\ <<i, j + 1>> \in Pairs(a, b)
    <3>1. i + 1 \in 1..(Len(a) + 1) /\ j + 1 \in 1..(Len(b) + 1)
      BY <1>1, <2>3
    <3> QED BY <3>1 DEF Pairs
  <2> QED BY <2>1, <2>2, <2>3 DEF Onward
<1>4. ASSUME NEW i \in 1..(Len(a) + 1), NEW j \in 1..(Len(b) + 1)
      PROVE  v[<<i, j>>] = Walked(a, b, v, i, j)
  <2>0. i \in Nat \ {0} /\ j \in Nat \ {0} /\ v[<<i, j>>] = Common(i, j)
    <3>1. i \in Nat \ {0} /\ j \in Nat \ {0}
      BY <1>1
    <3> QED BY ONLY <1>3, <3>1, i \in 1..(Len(a) + 1), j \in 1..(Len(b) + 1)
  <2>1. CASE i > Len(a) \/ j > Len(b)
    <3>1. FromOn(a, i) \cap FromOn(b, j) = {}
      BY <2>0, <2>1, FromOnIs
    <3> QED BY <2>0, <2>1, <3>1, FS_EmptySet DEF Walked
  <2>2. CASE ~ (i > Len(a) \/ j > Len(b))
    <3>1. i \in 1..Len(a) /\ j \in 1..Len(b) /\ i + 1 \in 1..(Len(a) + 1) /\ j + 1 \in 1..(Len(b) + 1)
      BY <1>1, <2>2
    <3>2. a[i].until \in Nat /\ b[j].until \in Nat
      BY <1>1, <3>1, RowType
    <3>3. CASE a[i].until < b[j].until
      <4>1. Common(i, j) = Overlap(a[i], b[j]) + Common(i + 1, j)
        BY <3>1, <3>2, <3>3, CommonSplits
      <4>2. v[<<i + 1, j>>] = Common(i + 1, j)
        BY <1>3, <3>1
      <4> QED BY <2>0, <2>2, <3>3, <4>1, <4>2 DEF Walked, Onward
    <3>4. CASE ~ (a[i].until < b[j].until)
      <4>1. Cardinality(FromOn(b, j) \cap FromOn(a, i)) =
              Overlap(b[j], a[i]) + Cardinality(FromOn(b, j + 1) \cap FromOn(a, i))
        BY <3>1, <3>2, <3>4, CommonSplits
      <4>2. Overlap(b[j], a[i]) = Overlap(a[i], b[j])
        BY <1>1, <3>1, RowType, OverlapIs
      <4>3. /\ FromOn(b, j) \cap FromOn(a, i) = FromOn(a, i) \cap FromOn(b, j)
            /\ FromOn(b, j + 1) \cap FromOn(a, i) = FromOn(a, i) \cap FromOn(b, j + 1)
        OBVIOUS
      <4>4. Common(i, j) = Overlap(a[i], b[j]) + Common(i, j + 1)
        BY <4>1, <4>2, <4>3
      <4>5. v[<<i, j + 1>>] = Common(i, j + 1)
        BY <1>3, <3>1
      <4> QED BY <2>0, <2>2, <3>4, <4>4, <4>5 DEF Walked, Onward
    <3> QED BY <3>3, <3>4
  <2> QED BY <2>1, <2>2
<1> DEFINE Walks(w) == w = [at \in Pairs(a, b) |-> Walked(a, b, w, at[1], at[2])]
<1>5. Walks(v)
  <2>1. ASSUME NEW at \in Pairs(a, b) PROVE v[at] = Walked(a, b, v, at[1], at[2])
    <3>1. at[1] \in 1..(Len(a) + 1) /\ at[2] \in 1..(Len(b) + 1) /\ at = <<at[1], at[2]>>
      BY DEF Pairs
    <3>2. PICK i \in 1..(Len(a) + 1) : i = at[1]
      BY <3>1
    <3>3. PICK j \in 1..(Len(b) + 1) : j = at[2]
      BY <3>1
    <3>4. at = <<i, j>>
      BY <3>1, <3>2, <3>3
    <3>5. v[<<i, j>>] = Walked(a, b, v, i, j)
      BY <1>4
    <3> QED BY <3>2, <3>3, <3>4, <3>5
  <2>2. v = [at \in Pairs(a, b) |-> v[at]]
    BY <1>2
  <2> QED BY <2>1, <2>2
<1>6. PICK g : g = WalkOf(a, b)
  OBVIOUS
<1>7. Walks(g)
  BY <1>5, <1>6 DEF WalkOf
<1>8. ASSUME NEW i \in 1..(Len(a) + 1), NEW j \in 1..(Len(b) + 1)
      PROVE  g[<<i, j>>] = Walked(a, b, g, i, j)
  <2>1. <<i, j>> \in Pairs(a, b) /\ <<i, j>>[1] = i /\ <<i, j>>[2] = j
    BY <1>3
  <2> QED BY <1>7, <2>1
<1> HIDE DEF Walks
<1> DEFINE N == {n \in Nat : \A i \in 1..(Len(a) + 1), j \in 1..(Len(b) + 1) :
                    (Len(a) + 1 - i) + (Len(b) + 1 - j) =< n => g[<<i, j>>] = v[<<i, j>>]}
<1>9. 0 \in N
  <2> SUFFICES ASSUME NEW i \in 1..(Len(a) + 1), NEW j \in 1..(Len(b) + 1),
                      (Len(a) + 1 - i) + (Len(b) + 1 - j) =< 0
               PROVE  g[<<i, j>>] = v[<<i, j>>]
    OBVIOUS
  <2>1. i > Len(a)
    BY <1>1
  <2>2. g[<<i, j>>] = 0 /\ v[<<i, j>>] = 0
    BY <1>4, <1>8, <2>1 DEF Walked
  <2> QED BY <2>2
<1>10. ASSUME NEW n \in Nat, n \in N PROVE n + 1 \in N
  <2> SUFFICES ASSUME NEW i \in 1..(Len(a) + 1), NEW j \in 1..(Len(b) + 1),
                      (Len(a) + 1 - i) + (Len(b) + 1 - j) =< n + 1
               PROVE  g[<<i, j>>] = v[<<i, j>>]
    OBVIOUS
  <2>1. CASE i > Len(a) \/ j > Len(b)
    BY <1>4, <1>8, <2>1 DEF Walked
  <2>2. CASE ~ (i > Len(a) \/ j > Len(b))
    <3>1. i =< Len(a) /\ j =< Len(b) /\ i + 1 \in 1..(Len(a) + 1) /\ j + 1 \in 1..(Len(b) + 1)
      BY <1>1, <2>2
    <3>2. /\ (Len(a) + 1 - (i + 1)) + (Len(b) + 1 - j) =< n
          /\ (Len(a) + 1 - i) + (Len(b) + 1 - (j + 1)) =< n
      BY <1>1
    <3>3. g[<<i + 1, j>>] = v[<<i + 1, j>>]
      BY <1>10, <3>1, <3>2
    <3>4. g[<<i, j + 1>>] = v[<<i, j + 1>>]
      BY <1>10, <3>1, <3>2
    <3>5. g[Onward(a, b, i, j)] = v[Onward(a, b, i, j)]
      BY <3>3, <3>4 DEF Onward
    <3> QED BY <1>4, <1>8, <2>2, <3>5 DEF Walked
  <2> QED BY <2>1, <2>2
<1>11. Nat \subseteq N
  <2> HIDE DEF N
  <2> QED BY <1>9, <1>10, Induction
<1>12. g[<<1, 1>>] = v[<<1, 1>>]
  <2>1. 1 \in 1..(Len(a) + 1) /\ 1 \in 1..(Len(b) + 1) /\ Len(a) + Len(b) \in Nat
        /\ (Len(a) + 1 - 1) + (Len(b) + 1 - 1) =< Len(a) + Len(b)
    BY <1>1
  <2> QED BY <1>11, <2>1
<1>13. v[<<1, 1>>] = Common(1, 1)
  <2>1. 1 \in 1..(Len(a) + 1) /\ 1 \in 1..(Len(b) + 1)
    BY <1>1
  <2> QED BY <1>3, <2>1
<1>14. FromOn(a, 1) \cap FromOn(b, 1) = {t \in Nat : Holds(a, t) /\ Holds(b, t)}
  BY <1>1 DEF FromOn, Holds, During
<1> QED BY <1>6, <1>12, <1>13, <1>14, IntersectionIsOf

-----------------------------------------------------------------------------
(* What a run records of an event.                                          *)

Recorded(e, r, t) ==
  /\ r \in EventRecord(0..t)
  /\ r.processed =< Picks[e] /\ (r.processed # 0 => Origin[e] < t)
  /\ r.located = 0 <=> r.locatedAt = 0
  /\ r.located # 0 => r.located \in MinimumPicks..r.processed /\ Origin[e] < r.locatedAt
  /\ r.processedAt # 0 => r.processed = Picks[e] /\ Origin[e] < r.processedAt
  /\ r.processed = Picks[e] /\ r.processed # 0 => r.processedAt # 0
  /\ r.final # 0 => r.final = Picks[e] /\ r.located # 0 /\ r.processedAt # 0
  /\ ~deferred /\ r.processedAt # 0 /\ r.located # 0 =>
       r.final # 0 /\ r.locatedAt =< r.processedAt

Records ==
  /\ tracks \in Worlds /\ question \in Questions /\ deferred \in BOOLEAN
  /\ now \in 0..Horizon
  /\ record \in [Events -> EventRecord(0..now)]
  /\ \A e \in Events : Recorded(e, record[e], now)

\* A location once given stays, and what is new is of the instant it came.
Grows(r, s, t) ==
  /\ r.located # 0 => s.located = r.located /\ s.locatedAt = r.locatedAt
  /\ r.processedAt # 0 => s.processedAt = r.processedAt
  /\ r.final # 0 => s.final = r.final
  /\ s.locatedAt = r.locatedAt \/ s.locatedAt = t
  /\ s.processedAt = r.processedAt \/ s.processedAt = t
  /\ ~deferred /\ s.final # r.final => s.processedAt = t

\* What solving makes of an event's record: the first location if there was
\* none, the final one if every pick is done.
LEMMA SolveIs ==
  ASSUME NEW e \in Events, NEW t \in Nat, NEW r \in EventRecord(0..t)
  PROVE  LET s == Solve(e, r, t)
         IN /\ s \in EventRecord(0..t)
            /\ s.processed = r.processed /\ s.processedAt = r.processedAt
            /\ s.located = IF r.processed >= MinimumPicks /\ r.locatedAt = 0
                           THEN r.processed ELSE r.located
            /\ s.locatedAt = IF r.processed >= MinimumPicks /\ r.locatedAt = 0
                             THEN t ELSE r.locatedAt
            /\ s.final = IF r.processed >= MinimumPicks /\ Picks[e] - r.processed = 0
                         THEN r.processed ELSE r.final
<1>1. /\ r.processed \in Nat /\ r.processedAt \in 0..t /\ r.locatedAt \in 0..t
      /\ r.located \in Nat /\ r.final \in Nat /\ t \in 0..t
  BY DEF EventRecord
<1>2. PICK k : k = First(r, t)
  OBVIOUS
<1>3. /\ k \in EventRecord(0..t)
      /\ k.processed = r.processed /\ k.processedAt = r.processedAt /\ k.final = r.final
      /\ k.located = IF r.locatedAt = 0 THEN r.processed ELSE r.located
      /\ k.locatedAt = IF r.locatedAt = 0 THEN t ELSE r.locatedAt
  <2>1. CASE r.locatedAt # 0
    BY <1>2, <2>1 DEF First
  <2>2. CASE r.locatedAt = 0
    <3>1. k = [r EXCEPT !.locatedAt = t, !.located = r.processed]
      BY <1>2, <2>2 DEF First
    <3> QED BY <1>1, <2>2, <3>1 DEF EventRecord
  <2> QED BY <2>1, <2>2
<1>4. PICK f : f = [k EXCEPT !.final = r.processed]
  OBVIOUS
<1>5. /\ f \in EventRecord(0..t) /\ f.final = r.processed
      /\ f.processed = k.processed /\ f.processedAt = k.processedAt
      /\ f.located = k.located /\ f.locatedAt = k.locatedAt
  BY <1>1, <1>3, <1>4 DEF EventRecord
<1>6. Solve(e, r, t) = IF ~ (r.processed >= MinimumPicks) THEN r
                       ELSE IF Picks[e] - r.processed = 0 THEN f ELSE k
  BY <1>2, <1>4 DEF Solve, CanLocate, AllProcessed, Remaining
<1> QED BY <1>3, <1>5, <1>6

\* What an interval makes of an event's record.
Next_of(e, r, n, located, t) == Observe(e, Locate(e, r, located, t), n, t, deferred)

\* What Observe makes of a record: the picks are counted, and unless locating
\* is deferred the event is solved at once.
LEMMA CountedIs ==
  ASSUME NEW e \in Events, NEW t \in Nat, NEW r \in EventRecord(0..t), NEW n \in Nat, n # 0
  PROVE  \E c \in EventRecord(0..t) :
           /\ c.processed = r.processed + n /\ c.located = r.located
           /\ c.locatedAt = r.locatedAt /\ c.final = r.final
           /\ c.processedAt = IF r.processedAt = 0 /\ Picks[e] - c.processed = 0
                              THEN t ELSE r.processedAt
           /\ Observe(e, r, n, t, deferred) = IF deferred THEN c ELSE Solve(e, c, t)
<1>1. /\ r.processed \in Nat /\ r.processedAt \in 0..t /\ r.locatedAt \in 0..t
      /\ r.located \in Nat /\ r.final \in Nat /\ t \in 0..t /\ r.processed + n \in Nat
  BY DEF EventRecord
<1>2. PICK k : k = [r EXCEPT !.processed = @ + n]
  OBVIOUS
<1>3. /\ k \in EventRecord(0..t) /\ k.processed = r.processed + n
      /\ k.processedAt = r.processedAt /\ k.located = r.located
      /\ k.locatedAt = r.locatedAt /\ k.final = r.final
  BY <1>1, <1>2 DEF EventRecord
<1>4. PICK c : c = IF k.processedAt = 0 /\ Picks[e] - k.processed = 0
                   THEN [k EXCEPT !.processedAt = t] ELSE k
  OBVIOUS
<1>5. /\ c \in EventRecord(0..t) /\ c.processed = k.processed
      /\ c.processedAt = IF k.processedAt = 0 /\ Picks[e] - k.processed = 0
                         THEN t ELSE k.processedAt
      /\ c.located = k.located /\ c.locatedAt = k.locatedAt /\ c.final = k.final
  <2>1. PICK d : d = [k EXCEPT !.processedAt = t]
    OBVIOUS
  <2>2. /\ d \in EventRecord(0..t) /\ d.processedAt = t /\ d.processed = k.processed
        /\ d.located = k.located /\ d.locatedAt = k.locatedAt /\ d.final = k.final
    BY <1>1, <1>3, <2>1 DEF EventRecord
  <2> QED BY <1>3, <1>4, <2>1, <2>2
<1>6. Observe(e, r, n, t, deferred) = IF deferred THEN c ELSE Solve(e, c, t)
  BY <1>2, <1>4 DEF Observe, AllProcessed, Remaining
<1> QED BY <1>3, <1>5, <1>6

\* A record that is right at one instant is right later on.
LEMMA RecordedLater ==
  ASSUME NEW e \in Events, NEW u \in Nat, NEW t \in Nat, u < t, NEW r, Recorded(e, r, u)
  PROVE  Recorded(e, r, t) /\ r \in EventRecord(0..t)
BY CatalogueAssumption, UseCasesAssumption DEF Recorded, EventRecord

\* What one interval makes of an event's record is a right record, and only
\* grows: no location is lost, moved or dated back.
LEMMA NextOfIs ==
  ASSUME deferred \in BOOLEAN, NEW e \in Events, NEW u \in Nat, NEW t \in Nat, u < t,
         NEW r, Recorded(e, r, u), NEW n \in Nat, n =< Picks[e] - r.processed, n # 0 => Origin[e] < t,
         NEW located, e \in located => deferred /\ r.locatedAt = 0 /\ CanLocate(r)
  PROVE  LET s == Next_of(e, r, n, located, t)
         IN Recorded(e, s, t) /\ Grows(r, s, t) /\ s \in EventRecord(0..t)
<1>0. /\ Picks[e] \in Nat /\ MinimumPicks \in Nat \ {0} /\ Origin[e] \in Nat
      /\ Recorded(e, r, t) /\ r \in EventRecord(0..t)
  BY CatalogueAssumption, UseCasesAssumption, RecordedLater
<1>1. /\ r.processed \in Nat /\ r.processedAt \in 0..u /\ r.locatedAt \in 0..u
      /\ r.located \in Nat /\ r.final \in Nat
  BY DEF Recorded, EventRecord
<1>2. PICK l : l = Locate(e, r, located, t)
  OBVIOUS
<1>3. /\ Recorded(e, l, t) /\ Grows(r, l, t) /\ l \in EventRecord(0..t) /\ l.processed = r.processed
      /\ ~deferred => l = r
  <2>1. CASE e \notin located
    <3>1. l = r
      BY <1>2, <2>1 DEF Locate
    <3> QED BY <1>0, <3>1 DEF Grows
  <2>2. CASE e \in located
    <3>1. l = Solve(e, r, t) /\ r.processed >= MinimumPicks /\ r.locatedAt = 0 /\ deferred
      BY <1>2, <2>2 DEF Locate, CanLocate
    <3>2. /\ l \in EventRecord(0..t)
          /\ l.processed = r.processed /\ l.processedAt = r.processedAt
          /\ l.located = r.processed /\ l.locatedAt = t
          /\ l.final = IF Picks[e] - r.processed = 0 THEN r.processed ELSE r.final
      BY <1>0, <3>1, SolveIs
    <3>3. r.located = 0 /\ r.final = 0
      BY <3>1 DEF Recorded
    <3>4. Recorded(e, l, t)
      BY <1>0, <1>1, <3>1, <3>2, <3>3 DEF Recorded
    <3>5. Grows(r, l, t)
      BY <1>0, <1>1, <3>1, <3>2, <3>3 DEF Grows
    <3> QED BY <3>1, <3>2, <3>4, <3>5
  <2> QED BY <2>1, <2>2
<1>4. PICK s : s = Observe(e, l, n, t, deferred)
  OBVIOUS
<1>5. CASE n = 0
  <2>1. s = l
    BY <1>4, <1>5 DEF Observe
  <2> QED BY <1>2, <1>3, <1>4, <2>1 DEF Next_of
<1>6. CASE n # 0
  <2>1. PICK c \in EventRecord(0..t) :
           /\ c.processed = l.processed + n /\ c.located = l.located
           /\ c.locatedAt = l.locatedAt /\ c.final = l.final
           /\ c.processedAt = IF l.processedAt = 0 /\ Picks[e] - c.processed = 0
                              THEN t ELSE l.processedAt
           /\ s = IF deferred THEN c ELSE Solve(e, c, t)
    BY <1>3, <1>4, <1>6, CountedIs
  <2>2. l.processedAt = 0 /\ l.final = 0
    BY <1>0, <1>1, <1>3, <1>6 DEF Recorded
  <2>5. /\ c.processed \in Nat /\ c.processed = r.processed + n /\ c.processed =< Picks[e]
        /\ c.processed # 0 /\ Origin[e] < t /\ l.processed =< c.processed
    BY <1>0, <1>1, <1>3, <1>6, <2>1
  <2>6. /\ l.located = 0 <=> l.locatedAt = 0
        /\ l.located # 0 => l.located \in MinimumPicks..l.processed /\ Origin[e] < l.locatedAt
        /\ l.located \in Nat /\ l.locatedAt \in 0..t /\ l.processed \in Nat
    BY <1>3 DEF Recorded, EventRecord
  <2>7. r.processedAt = 0 /\ r.final = 0
    BY <1>0, <1>1, <1>6 DEF Recorded
  <2>3. CASE deferred
    <3>1. s = c
      BY <2>1, <2>3
    <3>2. Recorded(e, s, t)
      <4>1. s \in EventRecord(0..t)
        BY <2>1, <3>1
      <4>2. s.processed =< Picks[e] /\ (s.processed # 0 => Origin[e] < t)
        BY <2>1, <2>5, <3>1
      <4>3. /\ s.located = 0 <=> s.locatedAt = 0
            /\ s.located # 0 => s.located \in MinimumPicks..s.processed /\ Origin[e] < s.locatedAt
        BY <2>1, <2>5, <2>6, <3>1
      <4>4. /\ s.processedAt # 0 => s.processed = Picks[e] /\ Origin[e] < s.processedAt
            /\ s.processed = Picks[e] /\ s.processed # 0 => s.processedAt # 0
        BY <1>0, <2>1, <2>2, <2>5, <3>1
      <4>5. s.final = 0
        BY <2>1, <2>2, <3>1
      <4> QED BY <2>3, <4>1, <4>2, <4>3, <4>4, <4>5 DEF Recorded
    <3>3. Grows(r, s, t)
      <4>1. /\ r.located # 0 => s.located = r.located /\ s.locatedAt = r.locatedAt
            /\ s.locatedAt = r.locatedAt \/ s.locatedAt = t
        BY <1>3, <2>1, <3>1 DEF Grows
      <4>2. /\ r.processedAt = 0 /\ r.final = 0
            /\ s.processedAt = r.processedAt \/ s.processedAt = t
        BY <2>1, <2>2, <2>7, <3>1
      <4> QED BY <2>3, <4>1, <4>2 DEF Grows
    <3> QED BY <1>2, <1>4, <2>1, <3>1, <3>2, <3>3 DEF Next_of
  <2>4. CASE ~deferred
    <3>1. l = r /\ s = Solve(e, c, t)
      BY <1>3, <2>1, <2>4
    <3>2. /\ s \in EventRecord(0..t)
          /\ s.processed = c.processed /\ s.processedAt = c.processedAt
          /\ s.located = IF c.processed >= MinimumPicks /\ c.locatedAt = 0
                         THEN c.processed ELSE c.located
          /\ s.locatedAt = IF c.processed >= MinimumPicks /\ c.locatedAt = 0
                           THEN t ELSE c.locatedAt
          /\ s.final = IF c.processed >= MinimumPicks /\ Picks[e] - c.processed = 0
                       THEN c.processed ELSE c.final
      BY <3>1, SolveIs
    <3>5. /\ c.locatedAt = r.locatedAt /\ c.located = r.located /\ c.final = 0
          /\ c.processedAt = IF c.processed = Picks[e] THEN t ELSE 0
          /\ t \in Nat \ {0}
      BY <1>0, <1>1, <2>1, <2>2, <2>5, <3>1
    <3>3. Recorded(e, s, t)
      <4>2. s.processed =< Picks[e] /\ (s.processed # 0 => Origin[e] < t)
        BY <2>5, <3>2
      <4>3. s.located = 0 <=> s.locatedAt = 0
        BY <2>5, <2>6, <3>1, <3>2, <3>5
      <4>4. s.located # 0 => s.located \in MinimumPicks..s.processed /\ Origin[e] < s.locatedAt
        BY <1>0, <2>5, <2>6, <3>1, <3>2, <3>5
      <4>5. /\ s.processedAt # 0 => s.processed = Picks[e] /\ Origin[e] < s.processedAt
            /\ s.processed = Picks[e] /\ s.processed # 0 => s.processedAt # 0
        BY <1>0, <2>5, <3>2, <3>5
      <4>6. s.final # 0 => s.final = Picks[e] /\ s.located # 0 /\ s.processedAt # 0
        BY <1>0, <2>5, <2>6, <3>1, <3>2, <3>5
      <4>7. s.processedAt # 0 /\ s.located # 0 => s.final # 0 /\ s.locatedAt =< s.processedAt
        BY <1>0, <1>1, <2>5, <2>6, <3>1, <3>2, <3>5, <4>4
      <4> QED BY <3>2, <4>2, <4>3, <4>4, <4>5, <4>6, <4>7 DEF Recorded
    <3>4. Grows(r, s, t)
      <4>1. /\ r.located # 0 => s.located = r.located /\ s.locatedAt = r.locatedAt
            /\ s.locatedAt = r.locatedAt \/ s.locatedAt = t
        BY <2>6, <3>1, <3>2, <3>5
      <4>2. s.processedAt = r.processedAt \/ s.processedAt = t
        BY <2>7, <3>2, <3>5
      <4>3. s.final # r.final => s.processedAt = t
        BY <1>0, <2>5, <2>7, <3>2, <3>5
      <4> QED BY <2>7, <4>1, <4>2, <4>3 DEF Grows
    <3> QED BY <1>2, <1>4, <3>2, <3>3, <3>4 DEF Next_of
  <2> QED BY <2>3, <2>4
<1> QED BY <1>5, <1>6

\* Records hold before the first interval.
LEMMA RecordsInit == Init => Records
<1> SUFFICES ASSUME Init PROVE Records
  OBVIOUS
<1>1. Unprocessed \in EventRecord(0..0)
  BY DEF Unprocessed, EventRecord
<1>2. ASSUME NEW e \in Events PROVE Recorded(e, record[e], 0)
  <2>1. record[e] = Unprocessed
    BY DEF Init, NewCatalogue
  <2>2. Picks[e] \in Nat
    BY CatalogueAssumption
  <2> QED BY <1>1, <2>1, <2>2 DEF Recorded, Unprocessed
<1>3. record \in [Events -> EventRecord(0..0)]
  BY <1>1 DEF Init, NewCatalogue
<1> QED BY <1>2, <1>3, UseCasesAssumption DEF Init, Records

\* What an interval does to the run, as one step of each event's record.
LEMMA IntervalIs ==
  ASSUME Records, NEW picks \in Finishing, NEW located \in SUBSET Locatable, Interval(picks, located)
  PROVE  /\ now \in Nat /\ now' = now + Every /\ now < now' /\ now' \in 0..Horizon
         /\ UNCHANGED <<tracks, question, deferred>>
         /\ record' \in [Events -> EventRecord(0..now')]
         /\ \A e \in Events : Recorded(e, record'[e], now') /\ Grows(record[e], record'[e], now')
<1>1. /\ now \in Nat /\ Every \in Nat \ {0} /\ Horizon \in Nat
      /\ now' = now + Every /\ now + Every =< Horizon
      /\ UNCHANGED <<tracks, question, deferred>>
      /\ deferred \in BOOLEAN
  BY UseCasesAssumption DEF Interval, Records
<1>2. record' = [e \in Events |-> Next_of(e, record[e], picks[e], located, now')]
  BY DEF Interval, Next_of
<1>3. ASSUME NEW e \in Events
      PROVE  LET s == Next_of(e, record[e], picks[e], located, now')
             IN Recorded(e, s, now') /\ Grows(record[e], s, now') /\ s \in EventRecord(0..now')
  <2>1. PICK t : t = now'
    OBVIOUS
  <2>2. Recorded(e, record[e], now) /\ now \in Nat /\ t \in Nat /\ now < t
    BY <1>1, <2>1 DEF Records
  <2>3. PICK n : n = picks[e]
    OBVIOUS
  <2>4. n \in Nat /\ n =< Picks[e] - record[e].processed /\ (n # 0 => Origin[e] < t)
    <3>1. picks[e] \in 0..Max({Picks[x] : x \in Events})
      BY DEF Finishing
    <3>2. picks[e] =< Remaining(e, record[e]) /\ (picks[e] > 0 => Origin[e] < now + Every)
      BY DEF Finishing
    <3>3. IsFiniteSet(Events) /\ \A x \in Events : Picks[x] \in Nat
      BY CatalogueAssumption, UseCasesAssumption
    <3>4. picks[e] \in Nat
      BY <3>1
    <3> QED BY <1>1, <2>1, <2>3, <3>2, <3>4 DEF Remaining
  <2>5. e \in located => deferred /\ record[e].locatedAt = 0 /\ CanLocate(record[e])
    BY DEF Locatable
  <2> HIDE <2>1, <2>3
  <2>6. LET s == Next_of(e, record[e], n, located, t)
        IN Recorded(e, s, t) /\ Grows(record[e], s, t) /\ s \in EventRecord(0..t)
    BY <1>1, <2>2, <2>4, <2>5, NextOfIs
  <2> QED BY <2>1, <2>3, <2>6
<1>4. record' \in [Events -> EventRecord(0..now')]
  BY <1>2, <1>3
<1>5. \A e \in Events : Recorded(e, record'[e], now') /\ Grows(record[e], record'[e], now')
  BY <1>2, <1>3
<1> QED BY <1>1, <1>4, <1>5

\* An interval of the run keeps every record right.
LEMMA RecordsNext == Records /\ [Next]_vars => Records'
<1> SUFFICES ASSUME Records, [Next]_vars PROVE Records'
  OBVIOUS
<1>1. CASE Next
  <2>1. PICK picks \in Finishing, located \in SUBSET Locatable : Interval(picks, located)
    BY <1>1 DEF Next
  <2>2. /\ now' \in 0..Horizon /\ UNCHANGED <<tracks, question, deferred>>
        /\ record' \in [Events -> EventRecord(0..now')]
        /\ \A e \in Events : Recorded(e, record'[e], now')
    BY <2>1, IntervalIs
  <2>3. \A e \in Events : Recorded(e, record[e], now)'
    BY <2>2 DEF Recorded
  <2> QED BY <2>2, <2>3 DEF Records
<1>2. CASE UNCHANGED vars
  BY <1>2 DEF Records, Recorded, vars
<1> QED BY <1>1, <1>2

\* At every moment of every run, each event's record is what the picks and
\* locates so far make of it (what FromRun reads of a run).
THEOREM RecordsHold == Spec => []Records
BY RecordsInit, RecordsNext, PTL DEF Spec

-----------------------------------------------------------------------------
(* The zones the events contributed, and the rows of spans they make.       *)

Reaches(z, p)            == Distance(p, z.at) =< z.reach
CoveredBy(locations, p)  == \E l \in locations : l.reach # Nowhere /\ Distance(p, l.at) =< l.reach + question.extra
Under(zones, p, t)       == \E z \in zones : During(z, t) /\ Reaches(z, p)

\* A question's window is a window of whole numbers.
LEMMA WindowIs ==
  ASSUME Records, NEW e \in Events
  PROVE  /\ Origin[e] \in Nat /\ Until(e) \in Nat /\ Origin[e] < Until(e)
         /\ question.extra \in Nat /\ question.reaction \in Nat /\ question.window \in Nat \ {0}
<1>1. question \in Questions /\ Origin[e] \in Nat
  BY UseCasesAssumption DEF Records
<1>2. question.window \in Nat \ {0} /\ question.extra \in Nat /\ question.reaction \in Nat
  BY <1>1, UseCasesAssumption
<1> QED BY <1>1, <1>2 DEF Until

\* What a record says of locations: a first one exactly if the event was
\* located, a final one only if it was located and processed too.
LEMMA LocationsAre ==
  ASSUME Records, NEW e \in Events
  PROVE  /\ Located(e) \in Nat /\ Processed(e) \in Nat
         /\ IsFiniteSet(FirstOf(e)) /\ IsFiniteSet(FinalOf(e))
         /\ \A l \in FirstOf(e) \cup FinalOf(e) : l.at \in Drift /\ l.reach \in Nat \cup {Nowhere}
         /\ FirstOf(e) = {} <=> Located(e) = 0
         /\ FinalOf(e) # {} => Located(e) # 0 /\ Processed(e) # 0
         /\ FinalOf(e) = {} <=> record[e].final = 0
<1>1. PICK r : r = record[e]
  OBVIOUS
<1>2. Recorded(e, r, now) /\ now \in Nat
  BY <1>1, UseCasesAssumption DEF Records
<1>3. /\ r.processed \in Nat /\ r.processedAt \in Nat /\ r.locatedAt \in Nat
      /\ r.located \in Nat /\ r.final \in Nat
      /\ Picks[e] \in Nat /\ MinimumPicks \in Nat
  BY <1>2, CatalogueAssumption DEF Recorded, EventRecord
<1>4. Located(e) = r.locatedAt /\ Processed(e) = r.processedAt
  BY <1>1 DEF Located, Processed
<1>5. /\ r.processed =< Picks[e]
      /\ r.located = 0 <=> r.locatedAt = 0
      /\ r.located # 0 => r.located \in MinimumPicks..r.processed
      /\ r.final # 0 => r.final = Picks[e] /\ r.located # 0 /\ r.processedAt # 0
  BY <1>2 DEF Recorded
<1>6. \A n \in MinimumPicks..Picks[e] :
        Estimate[e][n].at \in Drift /\ Estimate[e][n].reach \in Nat \cup {Nowhere}
  BY UseCasesAssumption
<1>7. FirstOf(e) = IF r.located = 0 THEN {} ELSE {Estimate[e][r.located]}
  BY <1>1 DEF FirstOf
<1>8. FinalOf(e) = IF r.final = 0 THEN {} ELSE {Estimate[e][r.final]}
  BY <1>1 DEF FinalOf
<1>9. IsFiniteSet(FirstOf(e)) /\ IsFiniteSet(FinalOf(e))
  <2>1. \A x : IsFiniteSet({x})
    BY FS_Singleton
  <2>2. IsFiniteSet({})
    BY FS_EmptySet
  <2> QED BY <1>7, <1>8, <2>1, <2>2
<1>10. r.located # 0 => r.located \in MinimumPicks..Picks[e]
  BY <1>3, <1>5
<1>11. r.final # 0 => r.final \in MinimumPicks..Picks[e]
  BY <1>3, <1>5
<1>12. \A l \in FirstOf(e) \cup FinalOf(e) : l.at \in Drift /\ l.reach \in Nat \cup {Nowhere}
  BY <1>6, <1>7, <1>8, <1>10, <1>11
<1>13. (FirstOf(e) = {} <=> Located(e) = 0) /\ (FinalOf(e) = {} <=> record[e].final = 0)
  BY <1>1, <1>4, <1>5, <1>7, <1>8
<1>14. FinalOf(e) # {} => Located(e) # 0 /\ Processed(e) # 0
  BY <1>4, <1>5, <1>8
<1> QED BY <1>3, <1>4, <1>9, <1>12, <1>13, <1>14

\* drawn closes what its locations cover from one instant to another, and
\* nothing if the window is empty.
LEMMA DrawnIs ==
  ASSUME NEW from \in Nat, NEW until \in Nat, NEW locations, IsFiniteSet(locations)
  PROVE  LET zones == Drawn(from, until, locations)
         IN /\ IsFiniteSet(zones)
            /\ \A z \in zones : z.from = from /\ z.until = until /\ from < until
            /\ \A p, t \in Nat : Under(zones, p, t) <=> from =< t /\ t < until /\ CoveredBy(locations, p)
<1>1. PICK f : f = [l \in locations |->
                     [from |-> from, until |-> until, at |-> l.at, reach |-> l.reach + question.extra]]
  OBVIOUS
<1>2. PICK K : K = {x \in locations : x.reach # Nowhere /\ from < until}
  OBVIOUS
<1>3. Drawn(from, until, locations) = {f[l] : l \in K}
  BY <1>1, <1>2 DEF Drawn
<1>4. IsFiniteSet(K)
  BY <1>2, FS_Subset
<1>5. \A l \in K : /\ f[l].from = from /\ f[l].until = until /\ f[l].at = l.at
                   /\ f[l].reach = l.reach + question.extra
  BY <1>1, <1>2
<1>6. IsFiniteSet({f[l] : l \in K})
  BY <1>4, ImageIsFinite
<1>7. ASSUME NEW p \in Nat, NEW t \in Nat
      PROVE  Under({f[l] : l \in K}, p, t) <=> from =< t /\ t < until /\ CoveredBy(locations, p)
  <2>1. \A l \in K : /\ During(f[l], t) <=> from =< t /\ t < until
                     /\ Reaches(f[l], p) <=> Distance(p, l.at) =< l.reach + question.extra
    BY <1>5 DEF During, Reaches
  <2>2. Under({f[l] : l \in K}, p, t) <=> \E l \in K : During(f[l], t) /\ Reaches(f[l], p)
    BY DEF Under
  <2>3. from =< t /\ t < until => from < until
    OBVIOUS
  <2>4. CASE from < until
    BY <1>2, <2>1, <2>2, <2>4 DEF CoveredBy
  <2>5. CASE ~ (from < until)
    BY <1>2, <2>2, <2>3, <2>5
  <2> QED BY <2>4, <2>5
<1>8. \A l \in K : from < until
  BY <1>2
<1> QED BY <1>3, <1>5, <1>6, <1>7, <1>8

\* The locations an event's zones draw at an instant of its window.
Shown(e, t) ==
  (IF Located(e) # 0 /\ t >= Located(e) /\ (Processed(e) = 0 \/ t < Processed(e)) THEN FirstOf(e) ELSE {})
  \cup (IF Processed(e) # 0 /\ t >= Processed(e) THEN FinalOf(e) ELSE {})

\* An event's closures close, at each instant of its window, what the location
\* shown at that instant covers.
LEMMA ClosuresAre ==
  ASSUME Records, NEW e \in Events
  PROVE  /\ IsFiniteSet(Closures(e))
         /\ \A z \in Closures(e) : /\ z.from \in Nat /\ z.until \in Nat /\ z.from < z.until
                                   /\ Origin[e] =< z.from /\ z.until =< Until(e)
         /\ \A p, t \in Nat : Under(Closures(e), p, t) <=>
                                Origin[e] =< t /\ t < Until(e) /\ CoveredBy(Shown(e, t), p)
<1>1. PICK o, w, l, d : o = Origin[e] /\ w = Until(e) /\ l = Located(e) /\ d = Processed(e)
  OBVIOUS
<1>2. o \in Nat /\ w \in Nat /\ o < w /\ l \in Nat /\ d \in Nat
  BY <1>1, WindowIs, LocationsAre
<1>3. PICK first, final : first = FirstOf(e) /\ final = FinalOf(e)
  OBVIOUS
<1>4. IsFiniteSet(first) /\ IsFiniteSet(final) /\ IsFiniteSet({})
  BY <1>3, LocationsAre, FS_EmptySet
<1>5. PICK b, k, c : /\ b = IF l < o THEN o ELSE l
                     /\ c = IF d < o THEN o ELSE d
                     /\ k = IF d = 0 THEN w ELSE IF w < d THEN w ELSE d
  OBVIOUS
<1>6. b \in Nat /\ c \in Nat /\ k \in Nat /\ b = Max({l, o}) /\ c = Max({d, o})
      /\ (d # 0 => k = Min({w, d})) /\ (d = 0 => k = w)
  <2>1. Max({l, o}) = IF l < o THEN o ELSE l
    BY <1>2, LargerIs
  <2>2. Max({d, o}) = IF d < o THEN o ELSE d
    BY <1>2, LargerIs
  <2>3. Min({w, d}) = IF w < d THEN w ELSE d
    BY <1>2, SmallerIs
  <2> QED BY <1>2, <1>5, <2>1, <2>2, <2>3
<1>7. PICK early, late : /\ early = IF l = 0 THEN {} ELSE Drawn(b, k, first)
                         /\ late = IF d = 0 THEN {} ELSE Drawn(c, w, final)
  OBVIOUS
<1>8. Closures(e) = early \cup late
  BY <1>1, <1>3, <1>6, <1>7 DEF Closures
<1>9. /\ IsFiniteSet(Drawn(b, k, first))
      /\ \A z \in Drawn(b, k, first) : z.from = b /\ z.until = k /\ b < k
      /\ \A p, t \in Nat : Under(Drawn(b, k, first), p, t) <=> b =< t /\ t < k /\ CoveredBy(first, p)
  <2>1. b \in Nat /\ k \in Nat /\ IsFiniteSet(first)
    BY <1>4, <1>6
  <2> QED BY ONLY <2>1, DrawnIs
<1>14. /\ IsFiniteSet(Drawn(c, w, final))
       /\ \A z \in Drawn(c, w, final) : z.from = c /\ z.until = w /\ c < w
       /\ \A p, t \in Nat : Under(Drawn(c, w, final), p, t) <=> c =< t /\ t < w /\ CoveredBy(final, p)
  <2>1. c \in Nat /\ w \in Nat /\ IsFiniteSet(final)
    BY <1>2, <1>4, <1>6
  <2> QED BY ONLY <2>1, DrawnIs
<1>10. IsFiniteSet(early) /\ IsFiniteSet(late)
  BY <1>4, <1>7, <1>9, <1>14
<1>11. IsFiniteSet(early \cup late)
  BY <1>10, FS_Union
<1>12. \A z \in early \cup late : /\ z.from \in Nat /\ z.until \in Nat /\ z.from < z.until
                                  /\ o =< z.from /\ z.until =< w
  BY <1>2, <1>5, <1>6, <1>7, <1>9, <1>14
<1>13. ASSUME NEW p \in Nat, NEW t \in Nat
       PROVE  Under(early \cup late, p, t) <=> o =< t /\ t < w /\ CoveredBy(Shown(e, t), p)
  <2>1. Under(early \cup late, p, t) <=> Under(early, p, t) \/ Under(late, p, t)
    BY DEF Under
  <2>2. \A S, T : CoveredBy(S \cup T, p) <=> CoveredBy(S, p) \/ CoveredBy(T, p)
    BY DEF CoveredBy
  <2>3. ~ CoveredBy({}, p) /\ ~ Under({}, p, t)
    BY DEF CoveredBy, Under
  <2>4. Under(early, p, t) <=> l # 0 /\ b =< t /\ t < k /\ CoveredBy(first, p)
    BY <1>7, <1>9, <2>3
  <2>5. Under(late, p, t) <=> d # 0 /\ c =< t /\ t < w /\ CoveredBy(final, p)
    BY <1>7, <1>14, <2>3
  <2>6. Shown(e, t) = (IF l # 0 /\ t >= l /\ (d = 0 \/ t < d) THEN first ELSE {})
                      \cup (IF d # 0 /\ t >= d THEN final ELSE {})
    BY <1>1, <1>3 DEF Shown
  <2>7. CoveredBy(Shown(e, t), p) <=> \/ (l # 0 /\ t >= l /\ (d = 0 \/ t < d) /\ CoveredBy(first, p))
                                      \/ (d # 0 /\ t >= d /\ CoveredBy(final, p))
    BY <2>2, <2>3, <2>6
  <2>8. /\ b =< t <=> l =< t /\ o =< t
        /\ c =< t <=> d =< t /\ o =< t
        /\ t < k <=> t < w /\ (d = 0 \/ t < d)
    BY <1>2, <1>5
  <2> QED BY <1>2, <2>1, <2>4, <2>5, <2>7, <2>8
<1> QED BY <1>1, <1>8, <1>11, <1>12, <1>13

Zones == UNION {Closures(e) : e \in Events}

\* The zones of the map are those of its events.
LEMMA ZonesAre ==
  ASSUME Records
  PROVE  /\ IsFiniteSet(Zones)
         /\ \A z \in Zones : z.from \in Nat /\ z.until \in Nat /\ z.from < z.until
         /\ \A z \in Zones : \E e \in Events : z \in Closures(e)
         /\ \A p, t \in Nat : Under(Zones, p, t) <=> \E e \in Events : Under(Closures(e), p, t)
<1>1. PICK f : f = [e \in Events |-> Closures(e)]
  OBVIOUS
<1>2. IsFiniteSet({f[e] : e \in Events})
  BY UseCasesAssumption, ImageIsFinite
<1>3. \A e \in Events : f[e] = Closures(e) /\ IsFiniteSet(Closures(e))
  BY <1>1, ClosuresAre
<1>4. Zones = UNION {f[e] : e \in Events}
  BY <1>3 DEF Zones
<1>5. IsFiniteSet(UNION {f[e] : e \in Events})
  <2>1. PICK S : S = {f[e] : e \in Events}
    OBVIOUS
  <2>2. \A T \in S : IsFiniteSet(T)
    BY <1>3, <2>1
  <2>3. IsFiniteSet(S)
    BY <1>2, <2>1
  <2>4. IsFiniteSet(UNION S)
    BY <2>2, <2>3, FS_UNION
  <2> QED BY <2>1, <2>4
<1>6. \A z \in Zones : \E e \in Events : z \in Closures(e)
  BY DEF Zones
<1>7. \A z \in Zones : z.from \in Nat /\ z.until \in Nat /\ z.from < z.until
  BY <1>6, ClosuresAre
<1>8. ASSUME NEW p \in Nat, NEW t \in Nat
      PROVE  Under(Zones, p, t) <=> \E e \in Events : Under(Closures(e), p, t)
  BY DEF Under, Zones
<1> QED BY <1>4, <1>5, <1>6, <1>7, <1>8

\* Span makes a span.
LEMMA ASpan ==
  ASSUME NEW from \in Nat, NEW until \in Nat, from < until
  PROVE  LET s == Span(from, until) IN s \in Spans /\ s.from = from /\ s.until = until
BY DEF Span, Spans

\* The spans of zones that reach a place.
SpansOf(zones) == {Span(z.from, z.until) : z \in zones}

\* The spans of zones hold the instants the zones hold.
LEMMA SpansOfAre ==
  ASSUME NEW zones, IsFiniteSet(zones),
         \A z \in zones : z.from \in Nat /\ z.until \in Nat /\ z.from < z.until
  PROVE  /\ IsFiniteSet(SpansOf(zones)) /\ SpansOf(zones) \subseteq Spans
         /\ \A s \in SpansOf(zones) : \E z \in zones : s.from = z.from /\ s.until = z.until
         /\ \A t : (\E s \in SpansOf(zones) : During(s, t)) <=> \E z \in zones : During(z, t)
<1>1. PICK f : f = [z \in zones |-> Span(z.from, z.until)]
  OBVIOUS
<1>2. SpansOf(zones) = {f[z] : z \in zones} /\ \A z \in zones : f[z] = Span(z.from, z.until)
  BY <1>1 DEF SpansOf
<1>3. IsFiniteSet({f[z] : z \in zones})
  BY ImageIsFinite
<1>4. \A z \in zones : f[z].from = z.from /\ f[z].until = z.until /\ f[z] \in Spans
  BY <1>2, ASpan
<1>5. \A t : \A z \in zones : During(f[z], t) <=> During(z, t)
  BY <1>4 DEF During
<1> QED BY <1>2, <1>3, <1>4, <1>5

\* What the map of a place says.
LEMMA ShutIs ==
  ASSUME Records, NEW p \in Drift
  PROVE  /\ IsRow(Shut[p])
         /\ \A t \in Nat : Holds(Shut[p], t) <=> Under(Zones, p, t)
         /\ \A i \in DOMAIN Shut[p] :
              /\ \E z \in Zones : Reaches(z, p) /\ Shut[p][i].from = z.from
              /\ \E z \in Zones : Reaches(z, p) /\ Shut[p][i].until = z.until
<1>1. PICK zones : zones = {x \in Zones : Distance(p, x.at) =< x.reach}
  OBVIOUS
<1>2. IsFiniteSet(zones) /\ \A z \in zones : z.from \in Nat /\ z.until \in Nat /\ z.from < z.until
  BY <1>1, ZonesAre, FS_Subset
<1>3. Shut[p] = Merged(SpansOf(zones))
  BY <1>1 DEF Shut, Zones, SpansOf
<1>4. PICK spans : spans = SpansOf(zones)
  OBVIOUS
<1>5. /\ IsFiniteSet(spans) /\ spans \subseteq Spans
      /\ \A s \in spans : \E z \in zones : s.from = z.from /\ s.until = z.until
      /\ \A t : (\E s \in spans : During(s, t)) <=> \E z \in zones : During(z, t)
  BY <1>2, <1>4, SpansOfAre
<1>6. PICK m : m = Merged(spans)
  OBVIOUS
<1>7. /\ IsRow(m)
      /\ \A t \in Nat : Holds(m, t) <=> \E s \in spans : During(s, t)
      /\ \A i \in DOMAIN m : /\ \E s \in spans : m[i].from = s.from
                             /\ \E s \in spans : m[i].until = s.until
  BY <1>5, <1>6, MergedIs
<1>8. \A t \in Nat : Holds(m, t) <=> Under(Zones, p, t)
  BY <1>1, <1>5, <1>7 DEF Under, Reaches
<1>9. \A i \in DOMAIN m : /\ \E z \in Zones : Reaches(z, p) /\ m[i].from = z.from
                          /\ \E z \in Zones : Reaches(z, p) /\ m[i].until = z.until
  BY <1>1, <1>5, <1>7 DEF Reaches
<1> QED BY <1>3, <1>4, <1>6, <1>7, <1>8, <1>9

\* Merging the windows of the events in whose reach a place is gives a row, which
\* holds exactly the instants at which it is dangerous.
LEMMA DangerousIs ==
  ASSUME Records, NEW p \in Drift
  PROVE  /\ IsRow(Dangerous[p])
         /\ \A t \in Nat : Holds(Dangerous[p], t) <=> DangerousAt(p, t)
<1>1. PICK K : K = {x \in Events : p \in Endangered(x)}
  OBVIOUS
<1>2. PICK f : f = [e \in K |-> Span(Origin[e], Until(e))]
  OBVIOUS
<1>3. PICK spans : spans = {f[e] : e \in K}
  OBVIOUS
<1>4. \A e \in K : /\ e \in Events /\ f[e] = Span(Origin[e], Until(e))
                   /\ f[e].from = Origin[e] /\ f[e].until = Until(e)
  BY <1>1, <1>2 DEF Span
<1>5. Dangerous[p] = Merged(spans)
  <2>1. Dangerous[p] = Merged({Span(Origin[e], Until(e)) : e \in {x \in Events : p \in Endangered(x)}})
    BY ONLY p \in Drift DEF Dangerous
  <2>2. {Span(Origin[e], Until(e)) : e \in K} = spans
    BY ONLY <1>3, <1>4
  <2> QED BY ONLY <1>1, <2>1, <2>2
<1>6. IsFiniteSet(spans)
  <2>1. IsFiniteSet(K)
    BY <1>1, UseCasesAssumption, FS_Subset
  <2> QED BY <1>3, <2>1, ImageIsFinite
<1>7. spans \subseteq Spans
  <2>1. ASSUME NEW e \in K PROVE f[e] \in Spans
    <3>1. Origin[e] \in Nat /\ Until(e) \in Nat /\ Origin[e] < Until(e)
      BY <1>4, WindowIs
    <3> QED BY <1>4, <3>1, ASpan
  <2> QED BY <1>3, <2>1
<1>8. \A t : (\E s \in spans : During(s, t)) <=> \E e \in K : Origin[e] =< t /\ t < Until(e)
  BY <1>3, <1>4 DEF During
<1>9. \A t : (\E e \in K : Origin[e] =< t /\ t < Until(e)) <=> DangerousAt(p, t)
  BY <1>1 DEF DangerousAt
<1>10. PICK m : m = Merged(spans)
  OBVIOUS
<1>11. IsRow(m) /\ \A t \in Nat : Holds(m, t) <=> \E s \in spans : During(s, t)
  BY <1>6, <1>7, <1>10, MergedIs
<1> QED BY <1>5, <1>8, <1>9, <1>10, <1>11

-----------------------------------------------------------------------------
(* The map is right.                                                        *)

\* Instants are natural numbers.
LEMMA InstantsAre == \A t \in Instants : t \in Nat
BY DEF Instants

\* Without a locate stage, what the mine had at an instant is what the map shows.
LEMMA HadIs ==
  ASSUME Records, ~deferred, NEW e \in Events, NEW t \in Nat
  PROVE  Had(e, t) = Shown(e, t)
<1>1. /\ Located(e) \in Nat /\ Processed(e) \in Nat
      /\ FirstOf(e) = {} <=> Located(e) = 0
      /\ FinalOf(e) # {} => Located(e) # 0 /\ Processed(e) # 0
      /\ FinalOf(e) = {} <=> record[e].final = 0
  BY LocationsAre
<1>2. Processed(e) # 0 /\ Located(e) # 0 => record[e].final # 0 /\ Located(e) =< Processed(e)
  <2>1. Recorded(e, record[e], now)
    BY DEF Records
  <2>2. Processed(e) = record[e].processedAt /\ Located(e) = record[e].locatedAt
    BY DEF Processed, Located
  <2>3. record[e].located # 0 <=> record[e].locatedAt # 0
    BY <2>1 DEF Recorded
  <2>4. record[e].processedAt # 0 /\ record[e].located # 0 =>
           record[e].final # 0 /\ record[e].locatedAt =< record[e].processedAt
    BY <2>1 DEF Recorded
  <2> QED BY <2>2, <2>3, <2>4
<1>3. CASE Processed(e) = 0
  BY <1>1, <1>3 DEF Had, Shown
<1>4. CASE Processed(e) # 0 /\ Located(e) = 0
  BY <1>1, <1>4 DEF Had, Shown
<1>5. CASE Processed(e) # 0 /\ Located(e) # 0
  BY <1>1, <1>2, <1>5 DEF Had, Shown
<1> QED BY <1>3, <1>4, <1>5

\* The map closes what the mine had at each instant, where locations are found
\* at once.
LEMMA HadAtOnce == Records => MapIsWhatWasHadAtOnce
<1> SUFFICES ASSUME Records, ~deferred, NEW p \in Drift, NEW t \in Instants
             PROVE  Holds(Shut[p], t) <=> ClosedAt(p, t)
  BY DEF MapIsWhatWasHadAtOnce, MapIsWhatTheMineHad
<1>1. t \in Nat /\ p \in Nat
  BY InstantsAre, PlacesAreWhole
<1>2. Holds(Shut[p], t) <=> \E e \in Events : Under(Closures(e), p, t)
  BY <1>1, ShutIs, ZonesAre
<1>3. \A e \in Events : Under(Closures(e), p, t) <=>
                          Origin[e] =< t /\ t < Until(e) /\ CoveredBy(Had(e, t), p)
  BY <1>1, ClosuresAre, HadIs
<1>4. ClosedAt(p, t) <=> \E e \in Events : Origin[e] =< t /\ t < Until(e) /\ CoveredBy(Had(e, t), p)
  BY DEF ClosedAt, CoveredBy
<1> QED BY <1>2, <1>3, <1>4

\* Every event's window lies within the instants counted.
LEMMA WindowsAreInstants ==
  ASSUME Records, NEW e \in Events, NEW t \in Nat, t < Until(e)
  PROVE  t \in Instants
<1>1. PICK f : f = [x \in Events |-> Until(x)]
  OBVIOUS
<1>2. PICK ends : ends = {f[x] : x \in Events}
  OBVIOUS
<1>3. ends = {Until(x) : x \in Events}
  BY <1>1, <1>2
<1>4. IsFiniteSet(ends) /\ ends \subseteq Nat /\ Until(e) \in ends /\ ends \subseteq Int
  <2>1. IsFiniteSet(ends)
    BY <1>2, UseCasesAssumption, ImageIsFinite
  <2>2. \A x \in Events : Until(x) \in Nat
    BY WindowIs
  <2> QED BY <1>3, <2>1, <2>2
<1>5. PICK b \in Nat : \A x \in ends : x =< b
  BY <1>4, HasBounds
<1>6. Max(ends) \in ends /\ \A x \in ends : x =< Max(ends)
  <2>1. b \in Int /\ ends # {}
    BY <1>4, <1>5
  <2> QED BY ONLY <1>4, <1>5, <2>1, MaxIs
<1>7. Max(ends) \in Nat /\ t < Max(ends)
  <2>1. PICK m : m = Max(ends)
    OBVIOUS
  <2>2. m \in Nat /\ Until(e) =< m /\ Until(e) \in Nat
    BY <1>4, <1>6, <2>1
  <2> QED BY <2>1, <2>2
<1> QED BY <1>3, <1>7 DEF Instants

\* The sums of the map are what counting instants gives: no time closed twice
\* and none lost in merging and intersecting.
LEMMA AddingUp == Records => SpansAddUp
<1> SUFFICES ASSUME Records, NEW p \in Drift,
                    NEW closed, closed = UNION {z.from..(z.until - 1) :
                                  z \in {x \in Zones : Distance(p, x.at) =< x.reach}},
                    NEW danger, danger = {t \in Instants : DangerousAt(p, t)}
             PROVE  Measured(Dangerous[p], Shut[p]) =
                      [hazard |-> Cardinality(danger), closed |-> Cardinality(closed),
                       both |-> Cardinality(danger \cap closed)]
  BY DEF SpansAddUp, Zones
<1>1. PICK d, s : d = Dangerous[p] /\ s = Shut[p]
  OBVIOUS
<1>2. /\ IsRow(d) /\ IsRow(s) /\ p \in Nat
      /\ \A t \in Nat : Holds(d, t) <=> DangerousAt(p, t)
      /\ \A t \in Nat : Holds(s, t) <=> Under(Zones, p, t)
  BY <1>1, DangerousIs, ShutIs, PlacesAreWhole
<1>3. danger = {t \in Nat : Holds(d, t)}
  <2>1. \A t \in Nat : DangerousAt(p, t) => t \in Instants
    BY WindowsAreInstants DEF DangerousAt
  <2> QED BY <1>2, <2>1, InstantsAre
<1>4. closed = {t \in Nat : Holds(s, t)}
  <2>1. \A z \in Zones : z.from \in Nat /\ z.until \in Nat
    BY ZonesAre
  <2>2. \A z \in Zones : \A t : t \in z.from..(z.until - 1) <=> t \in Nat /\ During(z, t)
    BY <2>1 DEF During
  <2> QED BY <1>2, <2>2 DEF Under, Reaches
<1>5. danger \cap closed = {t \in Nat : Holds(d, t) /\ Holds(s, t)}
  BY <1>3, <1>4
<1>6. Length(d) = Cardinality(danger) /\ Length(s) = Cardinality(closed)
  BY <1>2, <1>3, <1>4, LengthIs
<1>7. Intersection(d, s) = Cardinality(danger \cap closed)
  BY <1>2, <1>5, IntersectionIs
<1> QED BY <1>1, <1>6, <1>7 DEF Measured

\* Where a row is first covered, one of its spans begins.
LEMMA BeginsWhereCovered ==
  ASSUME NEW m, IsRow(m), NEW t \in Nat, t # 0, Holds(m, t), ~ Holds(m, t - 1)
  PROVE  \E i \in DOMAIN m : m[i].from = t
<1>1. PICK i \in DOMAIN m : m[i].from =< t /\ t < m[i].until
  BY DEF Holds
<1>2. m[i].from \in Nat /\ m[i].until \in Nat
  BY RowType
<1>3. ~ (m[i].from =< t - 1 /\ t - 1 < m[i].until)
  BY DEF Holds
<1> QED BY <1>1, <1>2, <1>3

\* Ground is reported all closed at the first instant at which it was.
LEMMA FirstIsComplete == Records => CompleteIsFirst
<1> SUFFICES ASSUME Records, NEW e \in Events, Endangered(e) # {},
                    NEW shut, shut = Shut
             PROVE  CompleteAt(e, shut) =
                      FirstOfAll({t \in Origin[e]..(Until(e) - 1) :
                                    \A p \in Endangered(e) : Holds(shut[p], t)})
  BY DEF CompleteIsFirst
<1>1. PICK ground : ground = Endangered(e)
  OBVIOUS
<1>2. ground \subseteq Drift /\ \A p \in ground : IsRow(shut[p])
  BY <1>1, ShutIs DEF Endangered
<1>3. PICK within : within = {t \in Origin[e]..(Until(e) - 1) : \A p \in ground : Holds(shut[p], t)}
  OBVIOUS
<1>4. PICK found : found = {t \in Candidates(e, shut) : \A p \in ground : Holds(shut[p], t)}
  OBVIOUS
<1>5. Origin[e] \in Nat /\ Until(e) \in Nat /\ Origin[e] < Until(e)
  BY WindowIs
<1>6. Candidates(e, shut) \subseteq Origin[e]..(Until(e) - 1)
  <2>1. \A p \in ground : \A i \in DOMAIN shut[p] : shut[p][i].from \in Nat
    BY <1>2, RowType
  <2> QED BY <1>1, <1>5, <2>1 DEF Candidates
<1>7. found \subseteq within /\ within \subseteq Nat
  BY <1>3, <1>4, <1>5, <1>6
<1>8. within # {} => Min(within) \in found
  <2> SUFFICES ASSUME within # {} PROVE Min(within) \in found
    OBVIOUS
  <2>1. PICK m : m = Min(within)
    OBVIOUS
  <2>2. m \in within /\ \A t \in within : m =< t
    BY <1>7, <2>1, MinIs
  <2>3. m \in Nat /\ Origin[e] =< m /\ m < Until(e) /\ \A p \in ground : Holds(shut[p], m)
    BY <1>3, <1>5, <2>2
  <2>4. m \in Candidates(e, shut)
    <3>1. CASE m = Origin[e]
      BY <3>1 DEF Candidates
    <3>2. CASE m # Origin[e]
      <4>1. m - 1 \in Origin[e]..(Until(e) - 1) /\ ~ (m =< m - 1) /\ m # 0
        BY <1>5, <2>3, <3>2
      <4>2. m - 1 \notin within
        BY <2>2, <4>1
      <4>3. PICK p \in ground : ~ Holds(shut[p], m - 1)
        BY <1>3, <4>1, <4>2
      <4>4. \E i \in DOMAIN shut[p] : shut[p][i].from = m
        BY <1>2, <2>3, <4>1, <4>3, BeginsWhereCovered
      <4>5. Origin[e] < m
        BY <1>5, <2>3, <3>2
      <4> QED BY <1>1, <2>3, <4>4, <4>5 DEF Candidates
    <3> QED BY <3>1, <3>2
  <2> QED BY <1>4, <2>1, <2>3, <2>4
<1>9. FirstOfAll(found) = FirstOfAll(within)
  <2>1. CASE within = {}
    BY <1>7, <2>1 DEF FirstOfAll
  <2>2. CASE within # {}
    <3>1. Min(within) \in found /\ \A t \in within : Min(within) =< t
      BY <1>7, <1>8, <2>2, MinIs
    <3>2. Min(found) = Min(within)
      BY <1>7, <3>1, Least
    <3> QED BY <2>2, <3>1, <3>2 DEF FirstOfAll
  <2> QED BY <2>1, <2>2
<1> QED BY <1>1, <1>3, <1>4, <1>9 DEF CompleteAt

-----------------------------------------------------------------------------
(* Adding up what the map closes and opens.                                 *)

Openings == Switches(Shut, "from")
Endings  == Switches(Shut, "until")

\* What peak walks through is one opening and one closing for each span of each
\* place.
LEMMA SwitchesAre ==
  ASSUME Records
  PROVE  /\ IsFiniteSet(Openings) /\ IsFiniteSet(Endings)
         /\ \A s \in Openings : \E p \in Drift : \E i \in DOMAIN Shut[p] :
              s = [at |-> Shut[p][i].from, order |-> <<p, 2 * i>>]
         /\ \A s \in Endings : \E p \in Drift : \E i \in DOMAIN Shut[p] :
              s = [at |-> Shut[p][i].until, order |-> <<p, 2 * i + 1>>]
         /\ \A p \in Drift : \A i \in DOMAIN Shut[p] :
              /\ [at |-> Shut[p][i].from, order |-> <<p, 2 * i>>] \in Openings
              /\ [at |-> Shut[p][i].until, order |-> <<p, 2 * i + 1>>] \in Endings
<1>1. PICK shut : shut = Shut
  OBVIOUS
<1>2. \A p \in Drift : IsRow(shut[p]) /\ Len(shut[p]) \in Nat /\ DOMAIN shut[p] = 1..Len(shut[p])
  BY <1>1, ShutIs, RowType
<1>3. ASSUME NEW way
      PROVE  IsFiniteSet(Switches(shut, way))
  <2>1. PICK f : f = [p \in Drift |->
           {[at |-> shut[p][i][way], order |-> <<p, IF way = "from" THEN 2 * i ELSE 2 * i + 1>>]
              : i \in DOMAIN shut[p]}]
    OBVIOUS
  <2>2. ASSUME NEW p \in Drift PROVE IsFiniteSet(f[p])
    <3>1. PICK g : g = [i \in DOMAIN shut[p] |->
             [at |-> shut[p][i][way], order |-> <<p, IF way = "from" THEN 2 * i ELSE 2 * i + 1>>]]
      OBVIOUS
    <3>2. f[p] = {g[i] : i \in DOMAIN shut[p]}
      BY <2>1, <3>1
    <3>3. IsFiniteSet(DOMAIN shut[p])
      <4>1. 1 \in Int /\ Len(shut[p]) \in Int
        BY <1>2
      <4>2. IsFiniteSet(1..Len(shut[p]))
        BY <4>1, FS_Interval
      <4> QED BY <1>2, <4>2
    <3> QED BY <3>2, <3>3, ImageIsFinite
  <2>3. PICK S : S = {f[p] : p \in Drift}
    OBVIOUS
  <2>4. IsFiniteSet(S)
    BY <2>3, UseCasesAssumption, ImageIsFinite
  <2>5. \A T \in S : IsFiniteSet(T)
    BY <2>2, <2>3
  <2>6. Switches(shut, way) = UNION S
    BY <2>1, <2>3 DEF Switches
  <2> QED BY <2>4, <2>5, <2>6, FS_UNION
<1>4. IsFiniteSet(Openings) /\ IsFiniteSet(Endings)
  BY <1>1, <1>3 DEF Openings, Endings
<1>5. Openings = UNION {{[at |-> shut[p][i].from, order |-> <<p, 2 * i>>]
                           : i \in DOMAIN shut[p]} : p \in Drift}
  BY <1>1 DEF Openings, Switches
<1>6. Endings = UNION {{[at |-> shut[p][i].until, order |-> <<p, 2 * i + 1>>]
                           : i \in DOMAIN shut[p]} : p \in Drift}
  BY <1>1 DEF Endings, Switches
<1> QED BY <1>1, <1>4, <1>5, <1>6

\* A finite set of numbered things has a latest.
LEMMA LatestOf ==
  ASSUME NEW G, IsFiniteSet(G), G # {}, NEW f, \A x \in G : f[x] \in Nat
  PROVE  \E m \in G : \A x \in G : f[x] =< f[m]
<1>1. PICK S : S = {f[x] : x \in G}
  OBVIOUS
<1>2. IsFiniteSet(S) /\ S \subseteq Nat /\ S # {}
  BY <1>1, ImageIsFinite
<1>3. PICK b \in Nat : \A x \in S : x =< b
  BY <1>2, HasBounds
<1>4. Max(S) \in S /\ \A x \in S : x =< Max(S)
  <2>1. b \in Int /\ S \subseteq Int
    BY <1>2, <1>3
  <2> QED BY ONLY <1>2, <1>3, <2>1, MaxIs
<1> QED BY <1>1, <1>4

\* Of finitely many switches, one is preceded by all.
LEMMA LastSwitch ==
  ASSUME NEW G, IsFiniteSet(G), G # {},
         \A s \in G : s.at \in Nat /\ s.order[1] \in Nat /\ s.order[2] \in Nat
  PROVE  \E m \in G : \A s \in G : Precedes(s, m)
<1>1. PICK f : f = [s \in G |-> s.at]
  OBVIOUS
<1>2. PICK a \in G : \A s \in G : s.at =< a.at
  <2>1. \A s \in G : f[s] \in Nat /\ f[s] = s.at
    BY <1>1
  <2>2. \E m \in G : \A x \in G : f[x] =< f[m]
    BY <2>1, LatestOf
  <2> QED BY <2>1, <2>2
<1>3. PICK A : A = {s \in G : s.at = a.at}
  OBVIOUS
<1>4. IsFiniteSet(A) /\ A # {} /\ A \subseteq G
  BY <1>3, FS_Subset
<1>5. PICK g : g = [s \in A |-> s.order[1]]
  OBVIOUS
<1>6. PICK b \in A : \A s \in A : s.order[1] =< b.order[1]
  <2>1. \A s \in A : g[s] \in Nat /\ g[s] = s.order[1]
    BY <1>4, <1>5
  <2>2. \E m \in A : \A x \in A : g[x] =< g[m]
    BY <1>4, <2>1, LatestOf
  <2> QED BY <2>1, <2>2
<1>7. PICK B : B = {s \in A : s.order[1] = b.order[1]}
  OBVIOUS
<1>8. IsFiniteSet(B) /\ B # {} /\ B \subseteq A
  BY <1>4, <1>7, FS_Subset
<1>9. PICK h : h = [s \in B |-> s.order[2]]
  OBVIOUS
<1>10. PICK c \in B : \A s \in B : s.order[2] =< c.order[2]
  <2>1. \A s \in B : h[s] \in Nat /\ h[s] = s.order[2]
    BY <1>4, <1>8, <1>9
  <2>2. \E m \in B : \A x \in B : h[x] =< h[m]
    BY <1>8, <2>1, LatestOf
  <2> QED BY <2>1, <2>2
<1>11. c \in G /\ c.at = a.at /\ c.order[1] = b.order[1] /\ c.order[1] \in Nat
  BY <1>3, <1>4, <1>7, <1>8
<1>12. ASSUME NEW s \in G PROVE Precedes(s, c)
  <2>1. s.at \in Nat /\ a.at \in Nat /\ s.at =< a.at
    BY <1>2
  <2>2. CASE s.at < a.at
    BY <1>11, <2>2 DEF Precedes
  <2>3. CASE s.at = a.at
    <3>1. s \in A /\ s.order[1] =< b.order[1] /\ s.order[1] \in Nat /\ b.order[1] \in Nat
      BY <1>3, <1>4, <1>6, <2>3
    <3>2. CASE s.order[1] < b.order[1]
      BY <1>11, <2>3, <3>2 DEF Precedes
    <3>3. CASE s.order[1] = b.order[1]
      <4>1. s.order[2] =< c.order[2]
        BY <1>7, <1>10, <3>1, <3>3
      <4> QED BY <1>11, <2>3, <3>3, <4>1 DEF Precedes
    <3> QED BY <3>1, <3>2, <3>3
  <2> QED BY <2>1, <2>2, <2>3
<1> QED BY <1>11, <1>12

\* What is got from every member of a finite set is no more than the set.
LEMMA NoMore ==
  ASSUME NEW K, IsFiniteSet(K), NEW f, NEW T, T \subseteq {f[x] : x \in K}
  PROVE  IsFiniteSet(T) /\ Cardinality(T) =< Cardinality(K)
<1>1. PICK g : g = [x \in K |-> f[x]]
  OBVIOUS
<1>2. g \in Surjection(K, {f[x] : x \in K})
  BY <1>1 DEF Surjection
<1>3. PICK S : S = {f[x] : x \in K}
  OBVIOUS
<1>4. IsFiniteSet(S) /\ Cardinality(S) =< Cardinality(K)
  BY <1>2, <1>3, FS_Surjection
<1>5. IsFiniteSet(T) /\ Cardinality(T) =< Cardinality(S)
  BY <1>3, <1>4, FS_Subset
<1>6. Cardinality(S) \in Nat /\ Cardinality(K) \in Nat /\ Cardinality(T) \in Nat
  BY <1>4, <1>5, FS_CardinalityType
<1> QED BY <1>4, <1>5, <1>6

\* What has been closed, and opened again, up to a switch.
Opened(s) == Cardinality({x \in Openings : Precedes(x, s)})
Ended(s)  == Cardinality({x \in Endings : Precedes(x, s)})

\* peak is the most that was closed and not opened again at any closing, or none.
LEMMA PeakIs ==
  ASSUME Records
  PROVE  /\ Peak(Shut) \in Int /\ 0 =< Peak(Shut)
         /\ \A s \in Openings : Opened(s) - Ended(s) =< Peak(Shut)
         /\ Peak(Shut) = 0 \/ \E s \in Openings : Peak(Shut) = Opened(s) - Ended(s)
<1>1. PICK sums : sums = {0} \cup {Opened(s) - Ended(s) : s \in Openings}
  OBVIOUS
<1>2. Peak(Shut) = Max(sums)
  BY <1>1 DEF Peak, Openings, Endings, Opened, Ended
<1>3. \A s : Opened(s) \in Nat /\ Ended(s) \in Nat /\ Opened(s) =< Cardinality(Openings)
  <2> TAKE s
  <2>1. PICK A, B : A = {x \in Openings : Precedes(x, s)} /\ B = {x \in Endings : Precedes(x, s)}
    OBVIOUS
  <2>2. IsFiniteSet(A) /\ IsFiniteSet(B) /\ Cardinality(A) =< Cardinality(Openings)
    BY <2>1, SwitchesAre, FS_Subset
  <2>3. Cardinality(A) \in Nat /\ Cardinality(B) \in Nat
    BY <2>2, FS_CardinalityType
  <2> QED BY <2>1, <2>2, <2>3 DEF Opened, Ended
<1>4. PICK b : b = Cardinality(Openings)
  OBVIOUS
<1>5. b \in Nat
  BY <1>4, SwitchesAre, FS_CardinalityType
<1>6. \A s \in Openings : Opened(s) - Ended(s) \in Int /\ Opened(s) - Ended(s) =< b
  BY <1>3, <1>4, <1>5
<1>7. sums \subseteq Int /\ sums # {} /\ b \in Int /\ 0 \in sums /\ \A x \in sums : x =< b
  BY <1>1, <1>5, <1>6
<1>8. Max(sums) \in sums /\ \A x \in sums : x =< Max(sums)
  BY ONLY <1>7, MaxIs
<1> QED BY <1>1, <1>2, <1>7, <1>8

\* peak adds up no less ground than was ever closed at one instant: it looks at
\* the count when the last of what is closed then has been added.
LEMMA PeakSees ==
  ASSUME Records, NEW t \in Instants
  PROVE  Cardinality({p \in Drift : Holds(Shut[p], t)}) =< Peak(Shut)
<1>a. PICK shut : shut = Shut
  OBVIOUS
<1> SUFFICES Cardinality({p \in Drift : Holds(shut[p], t)}) =< Peak(shut)
  BY <1>a
<1>0. t \in Nat
  BY InstantsAre
<1>1. PICK F, E : F = Openings /\ E = Endings
  OBVIOUS
<1>2. /\ IsFiniteSet(F) /\ IsFiniteSet(E)
      /\ \A s \in F : \E p \in Drift : \E i \in DOMAIN shut[p] :
           s = [at |-> shut[p][i].from, order |-> <<p, 2 * i>>]
      /\ \A s \in E : \E p \in Drift : \E i \in DOMAIN shut[p] :
           s = [at |-> shut[p][i].until, order |-> <<p, 2 * i + 1>>]
      /\ \A p \in Drift : \A i \in DOMAIN shut[p] :
           [at |-> shut[p][i].from, order |-> <<p, 2 * i>>] \in F
  BY <1>a, <1>1, SwitchesAre
<1>3. \A p \in Drift : \A i \in DOMAIN shut[p] :
        /\ i \in Nat /\ p \in Nat /\ shut[p][i].from \in Nat /\ shut[p][i].until \in Nat
        /\ shut[p][i].from < shut[p][i].until
  BY <1>a, ShutIs, RowType, PlacesAreWhole
<1>4. \A s \in F : s.at \in Nat /\ s.order[1] \in Nat /\ s.order[2] \in Nat
  BY <1>2, <1>3
<1>5. /\ Peak(shut) \in Int /\ 0 =< Peak(shut)
      /\ \A s \in F : Opened(s) - Ended(s) =< Peak(shut)
  BY <1>a, <1>1, PeakIs
<1>9. PICK H : H = {p \in Drift : Holds(shut[p], t)}
  OBVIOUS
<1>10. CASE H = {}
  <2>1. Cardinality(H) = 0
    BY <1>10, FS_EmptySet
  <2> QED BY <1>5, <1>9, <2>1
<1>11. CASE H # {}
  <2>1. PICK G : G = {s \in F : s.at =< t}
    OBVIOUS
  <2>2. PICK open, past :
          /\ open = {s \in G : \E p \in Drift : \E i \in DOMAIN shut[p] :
                        s.order = <<p, 2 * i>> /\ t < shut[p][i].until}
          /\ past = {s \in G : \E p \in Drift : \E i \in DOMAIN shut[p] :
                        s.order = <<p, 2 * i>> /\ shut[p][i].until =< t}
    OBVIOUS
  <2>3. IsFiniteSet(G) /\ IsFiniteSet(open) /\ IsFiniteSet(past)
    BY <1>2, <2>1, <2>2, FS_Subset
  <2>4. G = open \cup past /\ open \cap past = {}
    <3>1. G \subseteq open \cup past
      <4> SUFFICES ASSUME NEW s \in G PROVE s \in open \cup past
        OBVIOUS
      <4>1. PICK p \in Drift : \E i \in DOMAIN shut[p] :
              s = [at |-> shut[p][i].from, order |-> <<p, 2 * i>>]
        BY <1>2, <2>1
      <4>2. PICK i \in DOMAIN shut[p] : s = [at |-> shut[p][i].from, order |-> <<p, 2 * i>>]
        BY <4>1
      <4>3. s.order = <<p, 2 * i>> /\ shut[p][i].until \in Nat
        BY <1>3, <4>2
      <4>4. t < shut[p][i].until \/ shut[p][i].until =< t
        BY <1>0, <4>3
      <4> QED BY <2>2, <4>3, <4>4
    <3>2. open \cap past = {}
      <4> SUFFICES ASSUME NEW s \in open, s \in past PROVE FALSE
        OBVIOUS
      <4>1. PICK p \in Drift : \E i \in DOMAIN shut[p] : s.order = <<p, 2 * i>> /\ t < shut[p][i].until
        BY <2>2
      <4>2. PICK i \in DOMAIN shut[p] : s.order = <<p, 2 * i>> /\ t < shut[p][i].until
        BY <4>1
      <4>3. PICK q \in Drift : \E j \in DOMAIN shut[q] : s.order = <<q, 2 * j>> /\ shut[q][j].until =< t
        BY <2>2
      <4>4. PICK j \in DOMAIN shut[q] : s.order = <<q, 2 * j>> /\ shut[q][j].until =< t
        BY <4>3
      <4>5. p = q /\ 2 * i = 2 * j /\ i \in Nat /\ j \in Nat
        BY <1>3, <4>2, <4>4
      <4>6. i = j
        BY <4>5
      <4>7. shut[p][i].until \in Nat
        BY <1>3
      <4> QED BY <1>0, <4>2, <4>4, <4>5, <4>6, <4>7
    <3> QED BY <2>2, <3>1, <3>2
  <2>5. /\ Cardinality(G) = Cardinality(open) + Cardinality(past)
        /\ Cardinality(open) \in Nat /\ Cardinality(past) \in Nat
    <3>1. Cardinality(open \cup past) = Cardinality(open) + Cardinality(past) - Cardinality(open \cap past)
      BY <2>3, FS_Union
    <3>2. Cardinality(open \cap past) = 0
      BY <2>4, FS_EmptySet
    <3>3. Cardinality(open) \in Nat /\ Cardinality(past) \in Nat
      BY <2>3, FS_CardinalityType
    <3> QED BY <2>4, <3>1, <3>2, <3>3
  <2>6. ASSUME NEW p \in H PROVE \E s \in open : s.order[1] = p
    <3>1. PICK i \in DOMAIN shut[p] : shut[p][i].from =< t /\ t < shut[p][i].until
      BY <1>9 DEF Holds
    <3>2. PICK s : s = [at |-> shut[p][i].from, order |-> <<p, 2 * i>>]
      OBVIOUS
    <3>3. p \in Drift /\ s \in F /\ s.at = shut[p][i].from /\ s.order = <<p, 2 * i>> /\ s.order[1] = p
      BY <1>2, <1>9, <3>2
    <3> QED BY <2>1, <2>2, <3>1, <3>3
  <2>7. Cardinality(H) =< Cardinality(open)
    <3>1. PICK f : f = [s \in open |-> s.order[1]]
      OBVIOUS
    <3>2. H \subseteq {f[s] : s \in open}
      BY <2>6, <3>1
    <3> QED BY <2>3, <3>2, NoMore
  <2>8. PICK s \in G : \A x \in G : Precedes(x, s)
    <3>1. G # {}
      BY <1>11, <2>2, <2>6
    <3>2. \A x \in G : x.at \in Nat /\ x.order[1] \in Nat /\ x.order[2] \in Nat
      BY <1>4, <2>1
    <3> QED BY <2>3, <3>1, <3>2, LastSwitch
  <2>9. s \in F /\ s.at =< t /\ s.at \in Nat
    BY <1>4, <2>1
  <2>10. {x \in F : Precedes(x, s)} = G
    <3>1. \A x \in F : Precedes(x, s) => x.at =< s.at
      BY <1>4, <2>9 DEF Precedes
    <3> QED BY <1>0, <1>4, <2>1, <2>8, <2>9, <3>1
  <2>11. PICK over : over = {x \in E : Precedes(x, s)}
    OBVIOUS
  <2>12. ASSUME NEW x \in over
         PROVE  \E p \in Drift : \E i \in DOMAIN shut[p] :
                  /\ x = [at |-> shut[p][i].until, order |-> <<p, 2 * i + 1>>]
                  /\ [at |-> shut[p][i].from, order |-> <<p, 2 * i>>] \in past
    <3>1. PICK p \in Drift : \E i \in DOMAIN shut[p] :
            x = [at |-> shut[p][i].until, order |-> <<p, 2 * i + 1>>]
      BY <1>2, <2>11
    <3>2. PICK i \in DOMAIN shut[p] : x = [at |-> shut[p][i].until, order |-> <<p, 2 * i + 1>>]
      BY <3>1
    <3>3. PICK y : y = [at |-> shut[p][i].from, order |-> <<p, 2 * i>>]
      OBVIOUS
    <3>4. /\ x.at = shut[p][i].until /\ y.at = shut[p][i].from /\ y.order = <<p, 2 * i>> /\ y \in F
          /\ shut[p][i].from \in Nat /\ shut[p][i].until \in Nat
          /\ shut[p][i].from < shut[p][i].until
      BY <1>2, <1>3, <3>2, <3>3
    <3>5. x.at =< s.at
      BY <2>9, <2>11, <3>4 DEF Precedes
    <3>6. shut[p][i].until =< t /\ y.at =< t
      BY <1>0, <2>9, <3>4, <3>5
    <3>7. y \in past
      BY <2>1, <2>2, <3>4, <3>6
    <3> QED BY <3>2, <3>3, <3>7
  <2>13. Cardinality(over) =< Cardinality(past)
    <3> DEFINE after(y) == [at |-> shut[y.order[1]][y.order[2] \div 2].until,
                            order |-> <<y.order[1], y.order[2] + 1>>]
    <3>1. PICK f : f = [y \in past |-> after(y)]
      OBVIOUS
    <3>2. ASSUME NEW x \in over PROVE \E y \in past : x = f[y]
      <4>1. PICK p \in Drift : \E i \in DOMAIN shut[p] :
                  /\ x = [at |-> shut[p][i].until, order |-> <<p, 2 * i + 1>>]
                  /\ [at |-> shut[p][i].from, order |-> <<p, 2 * i>>] \in past
        BY <2>12
      <4>2. PICK i \in DOMAIN shut[p] :
                  /\ x = [at |-> shut[p][i].until, order |-> <<p, 2 * i + 1>>]
                  /\ [at |-> shut[p][i].from, order |-> <<p, 2 * i>>] \in past
        BY <4>1
      <4>3. PICK y : y = [at |-> shut[p][i].from, order |-> <<p, 2 * i>>]
        OBVIOUS
      <4>4. y \in past /\ y.order[1] = p /\ y.order[2] = 2 * i
        BY <4>2, <4>3
      <4>5. i \in Nat /\ (2 * i) \div 2 = i
        BY <1>3
      <4>6. after(y) = x
        BY <4>2, <4>4, <4>5
      <4> QED BY <3>1, <4>4, <4>6
    <3>3. over \subseteq {f[y] : y \in past}
      BY <3>2
    <3> QED BY <2>3, <3>3, NoMore
  <2>14. Cardinality(over) \in Nat /\ Cardinality(H) \in Nat
    <3>1. IsFiniteSet(over) /\ IsFiniteSet(H)
      BY <1>2, <1>9, <2>11, UseCasesAssumption, FS_Subset
    <3> QED BY <3>1, FS_CardinalityType
  <2>15. Opened(s) = Cardinality(G) /\ Ended(s) = Cardinality(over)
    BY <1>1, <2>10, <2>11 DEF Opened, Ended
  <2>16. Opened(s) - Ended(s) =< Peak(shut)
    BY <1>5, <2>9
  <2> QED BY ONLY <1>5, <1>9, <2>5, <2>7, <2>13, <2>14, <2>15, <2>16
<1> QED BY <1>9, <1>10, <1>11

\* peak adds up no more than was closed midway through some instant: what is
\* counted at a closing was closed at that instant, or just before it where the
\* place comes later in the order.
LEMMA PeakIsReached ==
  ASSUME Records, Peak(Shut) > 0
  PROVE  \E t \in Instants, q \in Drift :
           Peak(Shut) =< Cardinality({p \in Drift : IF p =< q THEN Holds(Shut[p], t)
                                                             ELSE Holds(Shut[p], t - 1)})
<1>1. PICK shut, F, E : shut = Shut /\ F = Openings /\ E = Endings
  OBVIOUS
<1>2. /\ IsFiniteSet(F) /\ IsFiniteSet(E)
      /\ \A s \in F : \E p \in Drift : \E i \in DOMAIN shut[p] :
           s = [at |-> shut[p][i].from, order |-> <<p, 2 * i>>]
      /\ \A p \in Drift : \A i \in DOMAIN shut[p] :
           [at |-> shut[p][i].until, order |-> <<p, 2 * i + 1>>] \in E
  BY <1>1, SwitchesAre
<1>3. /\ \A p \in Drift : \A i \in DOMAIN shut[p] :
           /\ i \in Nat /\ p \in Nat /\ shut[p][i].from \in Nat /\ shut[p][i].until \in Nat
           /\ shut[p][i].from < shut[p][i].until
      /\ \A p \in Drift : \A i, j \in DOMAIN shut[p] : i < j => shut[p][i].until < shut[p][j].from
  BY <1>1, ShutIs, RowType, PlacesAreWhole DEF IsRow
<1>4. Peak(shut) \in Int /\ \E s \in F : Peak(shut) = Opened(s) - Ended(s)
  BY <1>1, PeakIs
<1>5. PICK s \in F : Peak(shut) = Opened(s) - Ended(s)
  BY <1>4
<1>6. PICK q \in Drift : \E j \in DOMAIN shut[q] :
        s = [at |-> shut[q][j].from, order |-> <<q, 2 * j>>]
  BY <1>2
<1>7. PICK j \in DOMAIN shut[q] : s = [at |-> shut[q][j].from, order |-> <<q, 2 * j>>]
  BY <1>6
<1>8. PICK t : t = shut[q][j].from
  OBVIOUS
<1>9. t \in Nat /\ t \in Instants /\ s.at = t /\ s.order[1] = q /\ s.order[2] = 2 * j
  <2>1. \E z \in Zones : t = z.from
    BY <1>1, <1>8, ShutIs
  <2>2. \E e \in Events : t \in Nat /\ t < Until(e)
    <3>1. PICK z \in Zones : t = z.from
      BY <2>1
    <3>2. PICK e \in Events : z \in Closures(e)
      BY ZonesAre
    <3>3. z.from \in Nat /\ z.until \in Nat /\ z.from < z.until /\ z.until =< Until(e)
      BY <3>2, ClosuresAre
    <3>4. Until(e) \in Nat
      BY WindowIs
    <3> QED BY <3>1, <3>3, <3>4
  <2>3. t \in Instants
    BY <2>2, WindowsAreInstants
  <2> QED BY <1>7, <1>8, <2>2, <2>3
<1>10. PICK M : M = {p \in Drift : IF p =< q THEN Holds(shut[p], t) ELSE Holds(shut[p], t - 1)}
  OBVIOUS
<1>11. PICK G, over : G = {x \in F : Precedes(x, s)} /\ over = {x \in E : Precedes(x, s)}
  OBVIOUS
<1> DEFINE row(x)   == x.order[1]
           place(x) == x.order[2] \div 2
           until(x) == shut[row(x)][place(x)].until
           after(x) == [at |-> until(x), order |-> <<row(x), x.order[2] + 1>>]
<1>12. ASSUME NEW x \in F
       PROVE  /\ row(x) \in Drift /\ row(x) \in Nat
              /\ place(x) \in DOMAIN shut[row(x)] /\ place(x) \in Nat
              /\ x.at = shut[row(x)][place(x)].from /\ x.at \in Nat
              /\ until(x) \in Nat /\ x.at < until(x)
              /\ x.order[2] = 2 * place(x) /\ x.order = <<row(x), 2 * place(x)>>
              /\ x = [at |-> x.at, order |-> x.order]
              /\ after(x) \in E
  <2>1. PICK p \in Drift : \E i \in DOMAIN shut[p] :
          x = [at |-> shut[p][i].from, order |-> <<p, 2 * i>>]
    BY <1>2
  <2>2. PICK i \in DOMAIN shut[p] : x = [at |-> shut[p][i].from, order |-> <<p, 2 * i>>]
    BY <2>1
  <2>3. x.at = shut[p][i].from /\ x.order = <<p, 2 * i>> /\ x.order[1] = p /\ x.order[2] = 2 * i
    BY <2>2
  <2>4. i \in Nat /\ (2 * i) \div 2 = i
    BY <1>3
  <2>5. row(x) = p /\ place(x) = i
    BY <2>3, <2>4
  <2>6. after(x) = [at |-> shut[p][i].until, order |-> <<p, 2 * i + 1>>]
    BY <2>3, <2>5
  <2>7. after(x) \in E
    BY <1>2, <2>6
  <2> HIDE DEF after
  <2> QED BY <1>3, <2>2, <2>3, <2>5, <2>7
<1>13. PICK past, still : /\ past = {x \in G : Precedes(after(x), s)}
                          /\ still = {x \in G : ~Precedes(after(x), s)}
  OBVIOUS
<1>14. IsFiniteSet(G) /\ IsFiniteSet(over) /\ IsFiniteSet(past) /\ IsFiniteSet(still)
  BY <1>2, <1>11, <1>13, FS_Subset
<1>15. Cardinality(past) =< Cardinality(over)
  <2> DEFINE before(y) == [at |-> shut[y.order[1]][(y.order[2] - 1) \div 2].from,
                           order |-> <<y.order[1], y.order[2] - 1>>]
  <2>1. PICK f : f = [y \in over |-> before(y)]
    OBVIOUS
  <2>2. ASSUME NEW x \in past PROVE \E y \in over : x = f[y]
    <3>1. x \in F /\ Precedes(after(x), s)
      BY <1>11, <1>13
    <3>2. after(x) \in over
      BY <1>11, <1>12, <3>1
    <3>3. PICK p, i : p = row(x) /\ i = place(x)
      OBVIOUS
    <3>4. /\ i \in Nat /\ x.order[2] = 2 * i /\ x.at = shut[p][i].from /\ x.order = <<p, 2 * i>>
          /\ x = [at |-> x.at, order |-> x.order]
      BY <1>12, <3>1, <3>3
    <3>5. after(x).order[1] = p /\ after(x).order[2] = 2 * i + 1
      BY <3>3, <3>4
    <3>6. ((2 * i + 1) - 1) = 2 * i /\ (2 * i) \div 2 = i
      BY <3>4
    <3>7. before(after(x)) = [at |-> shut[p][i].from, order |-> <<p, 2 * i>>]
      <4> HIDE DEF after
      <4> QED BY <3>5, <3>6
    <3>8. before(after(x)) = x
      <4> HIDE DEF after, before
      <4> QED BY <3>4, <3>7
    <3> HIDE DEF after, before
    <3>9. f[after(x)] = x
      BY <2>1, <3>2, <3>8
    <3> QED BY <3>2, <3>9
  <2>3. past \subseteq {f[y] : y \in over}
    BY <2>2
  <2> QED BY <1>14, <2>3, NoMore
<1>16. ASSUME NEW x \in still
       PROVE  /\ x \in F /\ row(x) \in M
              /\ row(x) =< q => x.at =< t /\ t < until(x)
              /\ q < row(x) => x.at =< t - 1 /\ t - 1 < until(x) /\ t - 1 \in Nat
  <2>1. x \in F /\ Precedes(x, s) /\ ~Precedes(after(x), s)
    BY <1>11, <1>13
  <2>2. PICK p, i, d : p = row(x) /\ i = place(x) /\ d = until(x)
    OBVIOUS
  <2>3. /\ p \in Drift /\ p \in Nat /\ i \in DOMAIN shut[p] /\ i \in Nat
        /\ x.at = shut[p][i].from /\ x.at \in Nat /\ d = shut[p][i].until /\ d \in Nat /\ x.at < d
        /\ x.order[1] = p /\ x.order[2] = 2 * i
    BY <1>12, <2>1, <2>2
  <2>4. q \in Nat /\ j \in Nat
    BY <1>3
  <2>5. \/ x.at < t
        \/ x.at = t /\ p < q
        \/ x.at = t /\ p = q /\ 2 * i =< 2 * j
    BY <1>9, <2>1, <2>3 DEF Precedes
  <2>6. /\ ~(d < t)
        /\ ~(d = t /\ p < q)
        /\ ~(d = t /\ p = q /\ 2 * i + 1 =< 2 * j)
    <3>1. after(x).at = d /\ after(x).order[1] = p /\ after(x).order[2] = 2 * i + 1
      BY <2>2, <2>3
    <3> HIDE DEF after
    <3> QED BY <1>9, <2>1, <3>1 DEF Precedes
  <2>7. p = q => x.at =< t /\ t < d
    <3> SUFFICES ASSUME p = q PROVE x.at =< t /\ t < d
      OBVIOUS
    <3>1. i < j => d < t
      BY <1>3, <1>8, <2>3
    <3>2. i = j => x.at = t
      BY <1>8, <2>3
    <3>3. j < i => t < x.at
      <4>1. j < i => shut[q][j].until < x.at
        BY <1>3, <2>3
      <4>2. t < shut[q][j].until /\ shut[q][j].until \in Nat
        BY <1>3, <1>8
      <4> QED BY <1>9, <2>3, <4>1, <4>2
    <3> QED BY <1>9, <2>3, <2>4, <2>5, <2>6, <3>1, <3>2, <3>3
  <2>8. p < q => x.at =< t /\ t < d
    BY <1>9, <2>3, <2>5, <2>6
  <2>9. q < p => x.at =< t - 1 /\ t - 1 < d /\ t - 1 \in Nat
    BY <1>9, <2>3, <2>4, <2>5, <2>6
  <2>10. p =< q => Holds(shut[p], t)
    BY <2>3, <2>4, <2>7, <2>8 DEF Holds
  <2>11. q < p => Holds(shut[p], t - 1)
    BY <2>3, <2>9 DEF Holds
  <2>12. p \in M
    BY <1>10, <2>3, <2>4, <2>10, <2>11
  <2>13. p =< q => x.at =< t /\ t < d
    BY <2>3, <2>4, <2>7, <2>8
  <2> HIDE DEF row, place, until, after
  <2> QED BY <2>1, <2>2, <2>9, <2>12, <2>13
<1>17. Cardinality(still) =< Cardinality(M) /\ IsFiniteSet(M)
  <2>1. PICK f : f = [x \in still |-> row(x)]
    OBVIOUS
  <2>2. ASSUME NEW x \in still, NEW y \in still, row(x) = row(y) PROVE x = y
    <3>1. PICK p, i, k : p = row(x) /\ i = place(x) /\ k = place(y)
      OBVIOUS
    <3>2. /\ p \in Drift /\ p \in Nat /\ i \in DOMAIN shut[p] /\ k \in DOMAIN shut[p]
          /\ i \in Nat /\ k \in Nat
          /\ x.at = shut[p][i].from /\ y.at = shut[p][k].from
          /\ x.order = <<p, 2 * i>> /\ y.order = <<p, 2 * k>>
          /\ x = [at |-> x.at, order |-> x.order] /\ y = [at |-> y.at, order |-> y.order]
      BY <1>12, <1>16, <2>2, <3>1
    <3>3. i < k => shut[p][i].until < shut[p][k].from
      BY <1>3, <3>2
    <3>4. k < i => shut[p][k].until < shut[p][i].from
      BY <1>3, <3>2
    <3>5. /\ until(x) = shut[p][i].until /\ until(y) = shut[p][k].until
          /\ until(x) \in Nat /\ until(y) \in Nat /\ x.at \in Nat /\ y.at \in Nat
      BY <1>12, <1>16, <2>2, <3>1
    <3>6. q \in Nat
      BY <1>3
    <3>7. \E u \in Nat : x.at =< u /\ u < until(x) /\ y.at =< u /\ u < until(y)
      <4>1. CASE p =< q
        BY <1>9, <1>16, <2>2, <3>1, <4>1
      <4>2. CASE q < p
        BY <1>16, <2>2, <3>1, <4>2
      <4> QED BY <3>2, <3>6, <4>1, <4>2
    <3>8. PICK u \in Nat : x.at =< u /\ u < until(x) /\ y.at =< u /\ u < until(y)
      BY <3>7
    <3>9. i = k
      <4> HIDE DEF until
      <4> QED BY <3>2, <3>3, <3>4, <3>5, <3>8
    <3> QED BY <3>2, <3>9
  <2>3. f \in Injection(still, M)
    <3>1. f \in [still -> M]
      BY <1>16, <2>1
    <3>2. \A x, y \in still : f[x] = f[y] => x = y
      BY <2>1, <2>2
    <3> QED BY <3>1, <3>2 DEF Injection, IsInjective
  <2>4. IsFiniteSet(M)
    BY <1>10, UseCasesAssumption, FS_Subset
  <2> QED BY <2>3, <2>4, FS_Injection
<1>18. Cardinality(G) = Cardinality(past) + Cardinality(still)
  <2>1. G = past \cup still /\ past \cap still = {}
    BY <1>13
  <2>2. Cardinality(past \cup still) =
          Cardinality(past) + Cardinality(still) - Cardinality(past \cap still)
    BY <1>14, FS_Union
  <2>3. Cardinality(past \cap still) = 0
    BY <2>1, FS_EmptySet
  <2>4. Cardinality(past) \in Nat /\ Cardinality(still) \in Nat
    BY <1>14, FS_CardinalityType
  <2> QED BY <2>1, <2>2, <2>3, <2>4
<1>19. Opened(s) = Cardinality(G) /\ Ended(s) = Cardinality(over)
  BY <1>1, <1>11 DEF Opened, Ended
<1>20. /\ Cardinality(past) \in Nat /\ Cardinality(still) \in Nat
       /\ Cardinality(over) \in Nat /\ Cardinality(M) \in Nat
  BY <1>14, <1>17, FS_CardinalityType
<1>21. Peak(shut) =< Cardinality(M)
  BY ONLY <1>5, <1>15, <1>17, <1>18, <1>19, <1>20
<1> QED BY <1>1, <1>9, <1>10, <1>21

\* So the peak hides nothing, and makes up nothing but at instants that touch.
LEMMA PeakIsRight == Records => PeakIsSeen
BY PeakSees, PeakIsReached DEF PeakIsSeen

\* What use case 2 reports of its map, whatever the run went through: the
\* ground closed is what the mine knew to close, the times add up, ground is
\* reported closed when it first was, and the peak hides nothing and adds no
\* more than touches at one instant.
THEOREM MapHolds == Spec => []MapIsRight
<1>1. Records => MapIsRight
  BY HadAtOnce, AddingUp, FirstIsComplete, PeakIsRight DEF MapIsRight
<1> QED BY <1>1, RecordsHold, PTL

-----------------------------------------------------------------------------
(* An answer given stands.                                                  *)

\* What the map says of a place until an instant, read from the record.
ShutSays ==
  \A p \in Drift, t \in Nat : Holds(Shut[p], t) <=>
    \E e \in Events : Origin[e] =< t /\ t < Until(e) /\ CoveredBy(Shown(e, t), p)

\* Shut says of each place and instant whether the map closes it then.
LEMMA ShutSaysWhat == Records => ShutSays
<1> SUFFICES ASSUME Records, NEW p \in Drift, NEW t \in Nat
             PROVE  Holds(Shut[p], t) <=>
                      \E e \in Events : Origin[e] =< t /\ t < Until(e) /\ CoveredBy(Shown(e, t), p)
  BY DEF ShutSays
<1>1. p \in Nat
  BY PlacesAreWhole
<1>2. Holds(Shut[p], t) <=> \E e \in Events : Under(Closures(e), p, t)
  BY <1>1, ShutIs, ZonesAre
<1> QED BY <1>1, <1>2, ClosuresAre

\* What an interval leaves of an event's times and locations.
LEMMA LocationsStay ==
  ASSUME Records, NEW e \in Events, Recorded(e, record'[e], now'), Grows(record[e], record'[e], now'),
         now' \in Nat, now < now', now \in Nat
  PROVE  /\ Located(e) # 0 => Located(e)' = Located(e) /\ FirstOf(e)' = FirstOf(e)
         /\ Processed(e) # 0 => Processed(e)' = Processed(e)
         /\ FinalOf(e) # {} => FinalOf(e)' = FinalOf(e)
         /\ Located(e) = 0 => Located(e)' \in {0, now'}
         /\ Processed(e) = 0 => Processed(e)' \in {0, now'}
         /\ ~deferred /\ Processed(e) # 0 => FinalOf(e)' = FinalOf(e)
<1>1. PICK r, s : r = record[e] /\ s = record'[e]
  OBVIOUS
<1>2. Recorded(e, r, now) /\ Recorded(e, s, now') /\ Grows(r, s, now')
  BY <1>1 DEF Records
<1>3. /\ Located(e) = r.locatedAt /\ Processed(e) = r.processedAt
      /\ Located(e)' = s.locatedAt /\ Processed(e)' = s.processedAt
  BY <1>1 DEF Located, Processed
<1>4. /\ FirstOf(e) = IF r.located = 0 THEN {} ELSE {Estimate[e][r.located]}
      /\ FirstOf(e)' = IF s.located = 0 THEN {} ELSE {Estimate[e][s.located]}
      /\ FinalOf(e) = IF r.final = 0 THEN {} ELSE {Estimate[e][r.final]}
      /\ FinalOf(e)' = IF s.final = 0 THEN {} ELSE {Estimate[e][s.final]}
  BY <1>1 DEF FirstOf, FinalOf
<1>5. r.located = 0 <=> r.locatedAt = 0
  BY <1>2 DEF Recorded
<1>6. /\ r.located # 0 => s.located = r.located /\ s.locatedAt = r.locatedAt
      /\ r.processedAt # 0 => s.processedAt = r.processedAt
      /\ r.final # 0 => s.final = r.final
      /\ s.locatedAt = r.locatedAt \/ s.locatedAt = now'
      /\ s.processedAt = r.processedAt \/ s.processedAt = now'
      /\ ~deferred /\ s.final # r.final => s.processedAt = now'
  BY <1>2 DEF Grows
<1>7. r.processedAt \in 0..now
  BY <1>2 DEF Recorded, EventRecord
<1>8. ~deferred /\ Processed(e) # 0 => FinalOf(e)' = FinalOf(e)
  <2>1. r.processedAt # 0 => s.processedAt # now'
    BY <1>6, <1>7
  <2> QED BY <1>3, <1>4, <1>6, <2>1
<1>9. Located(e) # 0 => Located(e)' = Located(e) /\ FirstOf(e)' = FirstOf(e)
  BY <1>3, <1>4, <1>5, <1>6
<1>10. Processed(e) # 0 => Processed(e)' = Processed(e)
  BY <1>3, <1>6
<1>11. FinalOf(e) # {} => FinalOf(e)' = FinalOf(e)
  BY <1>4, <1>6
<1>12. /\ Located(e) = 0 => Located(e)' \in {0, now'}
       /\ Processed(e) = 0 => Processed(e)' \in {0, now'}
  BY <1>3, <1>6
<1> QED BY <1>8, <1>9, <1>10, <1>11, <1>12

\* When a need was met does not change as the run goes on recording.
LEMMA NeedsStay ==
  ASSUME Records, [Next]_vars, NEW e \in Events, NEW place \in Drift,
         MetAt(question.need, e, place) # 0
  PROVE  MetAt(question.need, e, place)' = MetAt(question.need, e, place)
<1>1. CASE Next
  <2>1. PICK picks \in Finishing, located \in SUBSET Locatable : Interval(picks, located)
    BY <1>1 DEF Next
  <2>2. /\ now \in Nat /\ now' \in Nat /\ now < now' /\ question' = question
        /\ Recorded(e, record'[e], now') /\ Grows(record[e], record'[e], now')
    <3>1. now' \in 0..Horizon /\ Horizon \in Nat
      BY <2>1, IntervalIs, UseCasesAssumption
    <3> QED BY <2>1, <3>1, IntervalIs
  <2>3. /\ Located(e) # 0 => Located(e)' = Located(e) /\ FirstOf(e)' = FirstOf(e)
        /\ Processed(e) # 0 => Processed(e)' = Processed(e)
        /\ FinalOf(e) # {} => FinalOf(e)' = FinalOf(e)
    BY <2>2, LocationsStay
  <2>4. /\ FirstOf(e) = {} <=> Located(e) = 0
        /\ FinalOf(e) # {} => Located(e) # 0 /\ Processed(e) # 0
    BY LocationsAre
  <2>5. CASE question.need = "first-location"
    BY <2>2, <2>3, <2>5 DEF MetAt
  <2>6. CASE question.need # "first-location" /\ \E l \in FirstOf(e) : Covers(l, place)
    <3>1. FirstOf(e) # {} /\ FirstOf(e)' = FirstOf(e) /\ Located(e)' = Located(e)
      BY <2>3, <2>4, <2>6
    <3> QED BY <2>2, <2>6, <3>1 DEF MetAt
  <2>7. CASE question.need # "first-location" /\ ~ \E l \in FirstOf(e) : Covers(l, place)
    <3>1. \E l \in FinalOf(e) : Covers(l, place)
      BY <2>7 DEF MetAt
    <3>2. FinalOf(e)' = FinalOf(e) /\ FirstOf(e)' = FirstOf(e) /\ Processed(e)' = Processed(e)
      BY <2>3, <2>4, <3>1
    <3> QED BY <2>2, <2>7, <3>1, <3>2 DEF MetAt
  <2> QED BY <2>5, <2>6, <2>7
<1>2. CASE UNCHANGED vars
  BY <1>2 DEF vars, MetAt, Located, Processed, FirstOf, FinalOf, Covers
<1> QED BY <1>1, <1>2

\* What the mine had until now was the same before the interval that followed.
LEMMA ShownStays ==
  ASSUME Records, [Next]_vars, ~deferred, NEW e \in Events, NEW t \in Nat, t =< now
  PROVE  Shown(e, t)' = Shown(e, t)
<1>0. CASE UNCHANGED vars
  BY <1>0 DEF vars, Shown, Located, Processed, FirstOf, FinalOf
<1> SUFFICES ASSUME Next PROVE Shown(e, t)' = Shown(e, t)
  BY <1>0
<1>1. PICK picks \in Finishing, located \in SUBSET Locatable : Interval(picks, located)
  BY DEF Next
<1>2. /\ now \in Nat /\ now' \in Nat /\ now < now'
      /\ Recorded(e, record'[e], now') /\ Grows(record[e], record'[e], now')
  <2>1. now' \in 0..Horizon /\ Horizon \in Nat
    BY <1>1, IntervalIs, UseCasesAssumption
  <2> QED BY <1>1, <2>1, IntervalIs
<1>3. /\ Located(e) # 0 => Located(e)' = Located(e) /\ FirstOf(e)' = FirstOf(e)
      /\ Processed(e) # 0 => Processed(e)' = Processed(e)
      /\ Located(e) = 0 => Located(e)' \in {0, now'}
      /\ Processed(e) = 0 => Processed(e)' \in {0, now'}
      /\ Processed(e) # 0 => FinalOf(e)' = FinalOf(e)
  BY <1>2, LocationsStay
<1>4. Located(e) \in Nat /\ Processed(e) \in Nat
  BY LocationsAre
<1>5. ~ (t >= now') /\ now' # 0 /\ t < now'
  BY <1>2
<1>6. /\ Processed(e)' = 0 \/ t < Processed(e)' <=> Processed(e) = 0 \/ t < Processed(e)
      /\ Processed(e)' # 0 /\ t >= Processed(e)' <=> Processed(e) # 0 /\ t >= Processed(e)
      /\ Located(e)' # 0 /\ t >= Located(e)' <=> Located(e) # 0 /\ t >= Located(e)
  BY <1>2, <1>3, <1>4, <1>5
<1> QED BY <1>3, <1>6 DEF Shown

\* An event's ground is complete at the first instant all of it was closed.
CompletesFirst ==
  \A e \in Events : Endangered(e) # {} =>
    CompleteAt(e, Shut) =
      FirstOfAll({t \in Origin[e]..(Until(e) - 1) : \A p \in Endangered(e) : Holds(Shut[p], t)})

\* The instant of completion is the first at which every place was closed.
LEMMA CompletesFirstHolds == Records => CompletesFirst
BY FirstIsComplete DEF CompleteIsFirst, CompletesFirst

\* An interval leaves the map of the instants until its beginning as it was.
LEMMA PastStays ==
  ASSUME Records, [Next]_vars, ShutSays, ShutSays', ~deferred, NEW p \in Drift,
         NEW t \in Nat, t =< now
  PROVE  Holds(Shut[p], t)' <=> Holds(Shut[p], t)
<1>1. question' = question
  BY IntervalIs DEF Next, vars
<1>2. \A d \in Events : Until(d)' = Until(d)
  BY <1>1 DEF Until
<1>3. \A d \in Events : Shown(d, t)' = Shown(d, t)
  BY ShownStays
<1>4. \A d \in Events : CoveredBy(Shown(d, t), p)' <=> CoveredBy(Shown(d, t), p)
  BY <1>1, <1>3 DEF CoveredBy
<1>5. Holds(Shut[p], t) <=>
        \E d \in Events : Origin[d] =< t /\ t < Until(d) /\ CoveredBy(Shown(d, t), p)
  BY DEF ShutSays
<1>6. Holds(Shut[p], t)' <=>
        \E d \in Events : Origin[d] =< t /\ t < Until(d)' /\ CoveredBy(Shown(d, t), p)'
  BY DEF ShutSays
<1> QED BY <1>2, <1>4, <1>5, <1>6

\* Two sets that agree until some instant agree on a first one up to it.
LEMMA FirstsAgree ==
  ASSUME NEW W, W \subseteq Nat, NEW V, V \subseteq Nat, NEW n \in Nat,
         \A x \in Nat : x =< n => (x \in W <=> x \in V),
         NEW t \in FirstOfAll(W), t =< n
  PROVE  t \in FirstOfAll(V)
<1>1. W # {} /\ t = Min(W)
  BY DEF FirstOfAll
<1>2. t \in W /\ \A x \in W : t =< x
  BY <1>1, MinIs
<1>3. t \in Nat /\ t \in V
  BY <1>2
<1>4. ASSUME NEW x \in V PROVE t =< x
  <2>1. x \in Nat
    OBVIOUS
  <2>2. CASE x =< n
    BY <1>2, <2>1, <2>2
  <2>3. CASE ~ (x =< n)
    BY <1>3, <2>1, <2>3
  <2> QED BY <2>2, <2>3
<1>5. Min(V) = t
  BY <1>3, <1>4, Least
<1> QED BY <1>3, <1>5 DEF FirstOfAll

\* Nor does an interval move, add or drop a completion that is past.
LEMMA CompletionsStay ==
  ASSUME Records, [Next]_vars, Records', ShutSays, ShutSays', CompletesFirst, CompletesFirst', ~deferred
  PROVE  {c \in Completions : c[2] =< now} = {c \in Completions' : c[2] =< now}
<1>1. now \in Nat
  BY UseCasesAssumption DEF Records
<1>2. question' = question
  BY IntervalIs DEF Next, vars
<1>3. ASSUME NEW e \in Events, Endangered(e) # {}, NEW t, t =< now
      PROVE  t \in CompleteAt(e, Shut) <=> t \in CompleteAt(e, Shut)'
  <2>1. /\ Origin[e] \in Nat /\ Until(e) \in Nat /\ Until(e)' = Until(e)
        /\ Endangered(e)' = Endangered(e) /\ Endangered(e) \subseteq Drift
    BY <1>2, WindowIs DEF Endangered, Until
  <2>2. PICK W, V :
          /\ W = {x \in Origin[e]..(Until(e) - 1) : \A p \in Endangered(e) : Holds(Shut[p], x)}
          /\ V = {x \in Origin[e]..(Until(e) - 1) : \A p \in Endangered(e) : Holds(Shut[p], x)'}
    OBVIOUS
  <2>3. CompleteAt(e, Shut) = FirstOfAll(W)
    BY <1>3, <2>2 DEF CompletesFirst
  <2>4. CompleteAt(e, Shut)' = FirstOfAll(V)
    BY <1>3, <2>1, <2>2 DEF CompletesFirst, FirstOfAll
  <2>5. W \subseteq Nat /\ V \subseteq Nat
    BY <2>1, <2>2
  <2>6. \A x \in Nat : x =< now => (x \in W <=> x \in V)
    BY <2>1, <2>2, PastStays
  <2>7. ASSUME t \in FirstOfAll(W) PROVE t \in FirstOfAll(V)
    BY ONLY <1>1, <1>3, <2>5, <2>6, <2>7, FirstsAgree
  <2>8. ASSUME t \in FirstOfAll(V) PROVE t \in FirstOfAll(W)
    BY ONLY <1>1, <1>3, <2>5, <2>6, <2>8, FirstsAgree
  <2> QED BY <2>3, <2>4, <2>7, <2>8
<1>4. Completions = UNION {{<<e, t>> : t \in CompleteAt(e, Shut)} : e \in {x \in Events : Endangered(x) # {}}}
  BY DEF Completions
<1>5. Completions' = UNION {{<<e, t>> : t \in CompleteAt(e, Shut)'} : e \in {x \in Events : Endangered(x) # {}}}
  BY DEF Completions, Endangered
<1> QED BY <1>3, <1>4, <1>5

\* An answer a recorded run gives is not taken back while the run goes on
\* recording: when a need was met never changes once it was, and neither what
\* ground was closed at instants that are past, nor when it first all was.
THEOREM AnswersStand == Spec => NothingIsRewritten
<1>1. Records => ShutSays /\ CompletesFirst
  BY ShutSaysWhat, CompletesFirstHolds
<1>2. Records /\ [Next]_vars => Records'
  BY RecordsNext
<1>3. Records' => ShutSays' /\ CompletesFirst'
  BY <1>1, PTL
<1>4. ASSUME Records, [Next]_vars, ~deferred
      PROVE  LET was == Shut
                 is == Shut'
             IN \A p \in Drift, t \in 0..now : Holds(was[p], t) <=> Holds(is[p], t)
  <2>1. now \in Nat
    BY <1>4, UseCasesAssumption DEF Records
  <2>2. ASSUME NEW p \in Drift, NEW t \in 0..now
        PROVE  Holds(Shut[p], t) <=> Holds(Shut[p], t)'
    BY <1>1, <1>2, <1>3, <1>4, <2>1, PastStays
  <2> QED BY <2>2 DEF Holds
<1>5. Records /\ [Next]_vars =>
        [/\ \A e \in Events, place \in Drift :
             MetAt(question.need, e, place) # 0 =>
               MetAt(question.need, e, place)' = MetAt(question.need, e, place)
         /\ ~deferred =>
              /\ LET was == Shut
                     is == Shut'
                 IN \A p \in Drift, t \in 0..now : Holds(was[p], t) <=> Holds(is[p], t)
              /\ {c \in Completions : c[2] =< now} = {c \in Completions' : c[2] =< now}]_vars
  BY <1>1, <1>2, <1>3, <1>4, NeedsStay, CompletionsStay
<1> QED BY <1>5, RecordsHold, PTL DEF Spec, NothingIsRewritten

-----------------------------------------------------------------------------
(* Where units cross the edge of a zone.                                    *)

\* Everywhere on the track the unit moves one place per instant or stands.
Unhurried(track) ==
  \A i \in 2..Len(track) :
    Distance(track[i].point, track[i - 1].point) \in {0, track[i].at - track[i - 1].at}

\* On a leg a unit moves one place an instant one way, the other, or not at all.
LEMMA LegIs ==
  ASSUME NEW track, IsTrack(track), Unhurried(track), NEW i \in 1..(Len(track) - 1)
  PROVE  \E v \in {-1, 0, 1} : \A t \in Nat : track[i].at =< t /\ t =< track[i + 1].at =>
           PositionAt(track, t) = track[i].point + v * (t - track[i].at)
<1>1. /\ Len(track) \in Nat /\ DOMAIN track = 1..Len(track)
      /\ i + 1 \in 2..Len(track) /\ (i + 1) - 1 = i /\ i \in DOMAIN track /\ i + 1 \in DOMAIN track
  BY TrackType
<1>2. PICK a, b, p, q : /\ a = track[i].at /\ b = track[i + 1].at
                        /\ p = track[i].point /\ q = track[i + 1].point
  OBVIOUS
<1>3. a \in Nat /\ b \in Nat /\ p \in Nat /\ q \in Nat
  BY <1>1, <1>2, TrackType, PlacesAreWhole
<1>4. Distance(q, p) \in {0, b - a}
  BY <1>1, <1>2 DEF Unhurried
<1>5. PICK v \in {-1, 0, 1} : q - p = v * (b - a)
  <2>1. Distance(q, p) = IF q < p THEN p - q ELSE q - p
    BY DEF Distance
  <2>2. q - p = 0 * (b - a) \/ q - p = 1 * (b - a) \/ q - p = (-1) * (b - a)
    BY <1>3, <1>4, <2>1
  <2> QED BY <2>2
<1>6. ASSUME NEW t \in Nat, a =< t, t =< b
      PROVE  PositionAt(track, t) = p + v * (t - a)
  <2>1. PICK j : j = i + 1
    OBVIOUS
  <2>2. /\ j \in 2..Len(track) /\ track[j].at = b /\ track[j - 1].at = a /\ track[j].point = q
        /\ track[j - 1].point = p
    BY <1>1, <1>2, <2>1
  <2>3. /\ v \in Int /\ track[j].point - track[j - 1].point = v * (track[j].at - track[j - 1].at)
        /\ track[j - 1].at =< t /\ t =< track[j].at
    BY <1>5, <1>6, <2>2
  <2>4. PositionAt(track, t) = track[j - 1].point + v * (t - track[j - 1].at)
    BY <2>2, <2>3, PositionOnLeg
  <2> QED BY <2>2, <2>4
<1> QED BY <1>2, <1>6

\* Where the way of n instants from a, in the direction v, crosses the edge.
EdgeOf(centre, radius, v, entering) == IF entering THEN centre - v * radius ELSE centre + v * radius

Leads(a, b, v, n, centre, radius, entering) ==
  /\ a \in Int /\ b \in Int /\ centre \in Int /\ radius \in Nat /\ entering \in BOOLEAN
  /\ v \in {-1, 0, 1} /\ n \in Nat \ {0} /\ b = a + v * n

\* A stretch walked at that speed crosses a zone's surface in at most one place,
\* the edge on the side it comes from or goes to.
LEMMA SurfaceIs ==
  ASSUME NEW a, NEW b, NEW v, NEW n, NEW centre, NEW radius, NEW entering,
         Leads(a, b, v, n, centre, radius, entering)
  PROVE  Surface(a, b, centre, radius, entering) =
           IF v # 0 /\ EdgeOf(centre, radius, v, entering) \in (IF v = 1 THEN a..b ELSE b..a)
           THEN {EdgeOf(centre, radius, v, entering)} ELSE {}
<1>0. /\ a \in Int /\ b \in Int /\ centre \in Int /\ radius \in Nat /\ entering \in BOOLEAN
      /\ v \in {-1, 0, 1} /\ n \in Nat /\ n # 0 /\ b = a + v * n
  BY DEF Leads
<1>1. Ground({a, b}) = IF a < b THEN a..b ELSE b..a
  <2>1. Max({a, b}) = IF a < b THEN b ELSE a
    BY <1>0, LargerIs
  <2>2. Min({a, b}) = IF a < b THEN a ELSE b
    BY <1>0, SmallerIs
  <2> QED BY <2>1, <2>2 DEF Ground
<1>2. PICK edge : edge = IF a < b THEN (IF entering THEN centre - radius ELSE centre + radius)
                         ELSE (IF entering THEN centre + radius ELSE centre - radius)
  OBVIOUS
<1>4. Surface(a, b, centre, radius, entering) =
        IF a # b /\ edge \in Ground({a, b}) THEN {edge} ELSE {}
  <2>1. (IF a < b THEN centre + (IF entering THEN 0 - radius ELSE radius)
         ELSE centre - (IF entering THEN 0 - radius ELSE radius)) = edge
    BY <1>0, <1>2
  <2> QED BY <2>1 DEF Surface
<1>5. CASE v = 0
  <2>1. a = b
    BY <1>0, <1>5
  <2> QED BY <1>4, <1>5, <2>1
<1>6. CASE v = 1
  <2>1. b = a + n /\ a < b /\ edge = EdgeOf(centre, radius, v, entering)
    BY <1>0, <1>2, <1>6 DEF EdgeOf
  <2>2. Surface(a, b, centre, radius, entering) = IF edge \in a..b THEN {edge} ELSE {}
    BY <1>1, <1>4, <2>1
  <2> QED BY ONLY <1>6, <2>1, <2>2
<1>7. CASE v = -1
  <2>1. b = a - n /\ ~ (a < b) /\ a # b /\ edge = EdgeOf(centre, radius, v, entering)
    BY <1>0, <1>2, <1>7 DEF EdgeOf
  <2>2. Surface(a, b, centre, radius, entering) = IF edge \in b..a THEN {edge} ELSE {}
    BY <1>1, <1>4, <2>1
  <2>3. v # 0 /\ v # 1
    BY <1>7
  <2> QED BY ONLY <2>1, <2>2, <2>3
<1> QED BY <1>0, <1>5, <1>6, <1>7

\* The unit is on a leg on the way at an instant, in the direction v.
OnLeg(track, i, v, from, until, t) ==
  /\ from =< t /\ t =< until /\ track[i].at =< t /\ t =< track[i + 1].at
  /\ \A x \in Nat : track[i].at =< x /\ x =< track[i + 1].at =>
       PositionAt(track, x) = track[i].point + v * (x - track[i].at)

\* Every crossing found is on the surface and in the window; and a unit that
\* walks over the surface in the window, on some leg, is found to cross it.
LEMMA CrossingsAre ==
  ASSUME NEW e \in Events, NEW u \in Units, IsTrack(tracks[u]), Unhurried(tracks[u]),
         TrueZone[e] \in Nat, NEW from \in Nat, NEW until \in Nat, NEW entering \in BOOLEAN
  PROVE  /\ \A t \in Crossings(u, e, from, until, entering) :
              /\ t \in Nat /\ from =< t /\ t =< until
              /\ Distance(PositionAt(tracks[u], t), Truth[e]) = TrueZone[e]
         /\ \A t \in Nat : \A i \in 1..(Len(tracks[u]) - 1) : \A v \in {-1, 1} :
              /\ OnLeg(tracks[u], i, v, from, until, t)
              /\ from < tracks[u][i + 1].at /\ tracks[u][i].at < until /\ from < until
              /\ PositionAt(tracks[u], t) = EdgeOf(Truth[e], TrueZone[e], v, entering)
              => t \in Crossings(u, e, from, until, entering)
<1>1. PICK track, centre, radius : track = tracks[u] /\ centre = Truth[e] /\ radius = TrueZone[e]
  OBVIOUS
<1>2. IsTrack(track) /\ Unhurried(track) /\ centre \in Nat /\ radius \in Nat
  BY <1>1, UseCasesAssumption, PlacesAreWhole
<1>3. Len(track) \in Nat /\ DOMAIN track = 1..Len(track)
  BY <1>2, TrackType
<1> DEFINE start(i) == IF track[i].at < from THEN from ELSE track[i].at
           end(i) == IF track[i + 1].at < until THEN track[i + 1].at ELSE until
           a(i) == PositionAt(track, start(i))
           b(i) == PositionAt(track, end(i))
           legs == {k \in 1..(Len(track) - 1) : start(k) < end(k)}
           on(i) == {start(i) + Distance(a(i), edge) : edge \in Surface(a(i), b(i), centre, radius, entering)}
<1>4. \A i \in 1..(Len(track) - 1) : /\ track[i].at \in Nat /\ track[i + 1].at \in Nat
                                     /\ track[i].at < track[i + 1].at
                                     /\ track[i].point \in Nat
  <2> TAKE i \in 1..(Len(track) - 1)
  <2>1. i \in DOMAIN track /\ i + 1 \in DOMAIN track /\ i < i + 1
    BY <1>3
  <2> QED BY <1>2, <2>1, TrackType, TrackInOrder, PlacesAreWhole
<1>5. \A i \in 1..(Len(track) - 1) : /\ Max({track[i].at, from}) = start(i)
                                     /\ Min({track[i + 1].at, until}) = end(i)
  <2> TAKE i \in 1..(Len(track) - 1)
  <2>1. track[i].at \in Int /\ track[i + 1].at \in Int /\ from \in Int /\ until \in Int
    BY <1>4
  <2>2. Max({track[i].at, from}) = IF track[i].at < from THEN from ELSE track[i].at
    BY ONLY <2>1, LargerIs
  <2>3. Min({track[i + 1].at, until}) = IF track[i + 1].at < until THEN track[i + 1].at ELSE until
    BY ONLY <2>1, SmallerIs
  <2> QED BY <2>2, <2>3
<1>6. \A t : t \in Crossings(u, e, from, until, entering) <=> \E i \in legs : t \in on(i)
  <2> TAKE t
  <2>1. t \in Crossings(u, e, from, until, entering) <=>
          \E i \in 1..(Len(track) - 1) :
            t \in LegCrossings(track, Max({track[i].at, from}), Min({track[i + 1].at, until}), e, entering)
    BY <1>1 DEF Crossings
  <2>2. ASSUME NEW i \in 1..(Len(track) - 1)
        PROVE  t \in LegCrossings(track, start(i), end(i), e, entering) <=> i \in legs /\ t \in on(i)
    <3>1. PICK f, l : f = start(i) /\ l = end(i)
      OBVIOUS
    <3> HIDE DEF start, end
    <3>2. LegCrossings(track, f, l, e, entering) =
            IF f < l THEN {f + Distance(PositionAt(track, f), edge) :
                             edge \in Surface(PositionAt(track, f), PositionAt(track, l), centre, radius, entering)}
            ELSE {}
      BY <1>1 DEF LegCrossings
    <3>3. on(i) = {f + Distance(PositionAt(track, f), edge) :
                    edge \in Surface(PositionAt(track, f), PositionAt(track, l), centre, radius, entering)}
      BY <3>1 DEF a, b
    <3>4. i \in legs <=> f < l
      BY <3>1
    <3> HIDE DEF on, legs
    <3> QED BY <3>1, <3>2, <3>3, <3>4
  <2>3. \A i \in legs : i \in 1..(Len(track) - 1)
    OBVIOUS
  <2> HIDE DEF legs, on, start, end
  <2> QED BY <1>5, <2>1, <2>2, <2>3
<1>7. ASSUME NEW i \in legs, NEW v \in {-1, 0, 1},
             \A t \in Nat : track[i].at =< t /\ t =< track[i + 1].at =>
               PositionAt(track, t) = track[i].point + v * (t - track[i].at)
      PROVE  /\ start(i) \in Nat /\ end(i) \in Nat /\ start(i) < end(i)
             /\ from =< start(i) /\ end(i) =< until
             /\ track[i].at =< start(i) /\ end(i) =< track[i + 1].at
             /\ a(i) \in Int /\ b(i) \in Int
             /\ \A t \in Nat : start(i) =< t /\ t =< end(i) =>
                  PositionAt(track, t) = a(i) + v * (t - start(i))
             /\ b(i) = a(i) + v * (end(i) - start(i))
  <2>1. PICK s, f, m, n, p : /\ s = start(i) /\ f = end(i) /\ m = track[i].at /\ n = track[i + 1].at
                             /\ p = track[i].point
    OBVIOUS
  <2>2. /\ m \in Nat /\ n \in Nat /\ m < n /\ p \in Nat /\ s < f
        /\ s = IF m < from THEN from ELSE m
        /\ f = IF n < until THEN n ELSE until
    BY <1>4, <2>1
  <2>3. /\ s \in Nat /\ f \in Nat /\ from =< s /\ f =< until /\ m =< s /\ f =< n
    BY <2>2
  <2>4. \A t \in Nat : m =< t /\ t =< n => PositionAt(track, t) = p + v * (t - m)
    BY <1>7, <2>1
  <2>5. PositionAt(track, s) = p + v * (s - m) /\ PositionAt(track, f) = p + v * (f - m)
    <3>1. m =< s /\ s =< n /\ m =< f /\ f =< n /\ s \in Nat /\ f \in Nat
      BY <2>2, <2>3
    <3> QED BY <2>4, <3>1
  <2>6. ASSUME NEW t \in Nat, s =< t, t =< f
        PROVE  PositionAt(track, t) = PositionAt(track, s) + v * (t - s)
    <3>1. PositionAt(track, t) = p + v * (t - m)
      BY <2>2, <2>3, <2>4, <2>6
    <3>2. p + v * (t - m) = (p + v * (s - m)) + v * (t - s)
      BY <2>2, <2>3
    <3> QED BY <2>5, <3>1, <3>2
  <2>7. PositionAt(track, s) \in Int /\ PositionAt(track, f) \in Int
    BY <2>2, <2>3, <2>5
  <2>8. PositionAt(track, f) = PositionAt(track, s) + v * (f - s)
    BY <2>2, <2>3, <2>6
  <2> QED BY <2>1, <2>2, <2>3, <2>6, <2>7, <2>8
<1> HIDE DEF start, end, a, b
<1>8. ASSUME NEW t \in Crossings(u, e, from, until, entering)
      PROVE  t \in Nat /\ from =< t /\ t =< until /\ Distance(PositionAt(track, t), centre) = radius
  <2>1. PICK i \in legs : t \in on(i)
    BY <1>6
  <2>2. PICK edge \in Surface(a(i), b(i), centre, radius, entering) : t = start(i) + Distance(a(i), edge)
    BY <2>1
  <2>3. PICK v \in {-1, 0, 1} : \A x \in Nat : track[i].at =< x /\ x =< track[i + 1].at =>
               PositionAt(track, x) = track[i].point + v * (x - track[i].at)
    BY <1>2, <2>1, LegIs
  <2>4. PICK s, f, p, q : s = start(i) /\ f = end(i) /\ p = a(i) /\ q = b(i)
    OBVIOUS
  <2>5. /\ s \in Nat /\ f \in Nat /\ s < f /\ from =< s /\ f =< until
        /\ p \in Int /\ q \in Int /\ q = p + v * (f - s)
        /\ \A x \in Nat : s =< x /\ x =< f => PositionAt(track, x) = p + v * (x - s)
    BY <1>7, <2>3, <2>4
  <2>6. f - s \in Nat /\ f - s # 0 /\ centre \in Int
    BY <1>2, <2>5
  <2>7. /\ v # 0 /\ edge = EdgeOf(centre, radius, v, entering)
        /\ Distance(p, edge) \in 0..(f - s) /\ edge = p + v * Distance(p, edge)
    <3>1. edge \in Surface(p, q, centre, radius, entering)
      BY <2>2, <2>4
    <3>2. PICK n : n = f - s
      OBVIOUS
    <3>3. /\ p \in Int /\ q \in Int /\ centre \in Int /\ radius \in Nat /\ n \in Nat /\ n # 0
          /\ Leads(p, q, v, n, centre, radius, entering)
      BY <1>2, <2>5, <2>6, <3>2 DEF Leads
    <3>4. Surface(p, q, centre, radius, entering) =
            IF v # 0 /\ EdgeOf(centre, radius, v, entering) \in (IF v = 1 THEN p..q ELSE q..p)
            THEN {EdgeOf(centre, radius, v, entering)} ELSE {}
      BY ONLY <3>3, SurfaceIs
    <3>5. v # 0 /\ edge = EdgeOf(centre, radius, v, entering) /\ edge \in (IF v = 1 THEN p..q ELSE q..p)
      BY ONLY <3>1, <3>4
    <3>6. Distance(p, edge) \in 0..(f - s) /\ edge = p + v * Distance(p, edge)
      <4>1. CASE v = 1
        BY <2>5, <3>5, <4>1 DEF Distance
      <4>2. CASE v = -1
        BY <2>5, <3>5, <4>2 DEF Distance
      <4> QED BY <3>5, <4>1, <4>2
    <3> QED BY <3>5, <3>6
  <2>8. t = s + Distance(p, edge)
    BY <2>2, <2>4
  <2>9. t \in Nat /\ s =< t /\ t =< f /\ t - s = Distance(p, edge)
    <3>1. PICK k : k = Distance(p, edge)
      OBVIOUS
    <3>2. k \in 0..(f - s) /\ t = s + k /\ s \in Nat /\ f \in Nat
      BY <2>5, <2>7, <2>8, <3>1
    <3>3. t \in Nat /\ s =< t /\ t =< f /\ t - s = k
      BY ONLY <3>2
    <3> QED BY ONLY <3>1, <3>3
  <2>10. PositionAt(track, t) = edge
    <3>1. PositionAt(track, t) = p + v * (t - s)
      BY ONLY <2>5, <2>9
    <3>2. edge = p + v * (t - s)
      BY ONLY <2>7, <2>9
    <3> QED BY ONLY <3>1, <3>2
  <2>11. Distance(edge, centre) = radius
    BY <1>2, <2>7 DEF EdgeOf, Distance
  <2> QED BY <2>5, <2>9, <2>10, <2>11
<1>9. ASSUME NEW t \in Nat, NEW i \in 1..(Len(track) - 1), NEW v \in {-1, 1},
             OnLeg(track, i, v, from, until, t),
             from < track[i + 1].at, track[i].at < until, from < until,
             PositionAt(track, t) = EdgeOf(centre, radius, v, entering)
      PROVE  t \in Crossings(u, e, from, until, entering)
  <2>1. start(i) < end(i) /\ start(i) =< t /\ t =< end(i)
    BY <1>4, <1>9 DEF OnLeg, start, end
  <2>2. i \in legs
    BY <2>1
  <2>3. PICK s, f, p, q : s = start(i) /\ f = end(i) /\ p = a(i) /\ q = b(i)
    OBVIOUS
  <2>4. /\ s \in Nat /\ f \in Nat /\ s < f
        /\ p \in Int /\ q \in Int /\ q = p + v * (f - s)
        /\ \A x \in Nat : s =< x /\ x =< f => PositionAt(track, x) = p + v * (x - s)
    <3>1. \A x \in Nat : track[i].at =< x /\ x =< track[i + 1].at =>
               PositionAt(track, x) = track[i].point + v * (x - track[i].at)
      BY <1>9 DEF OnLeg
    <3> QED BY <1>7, <2>2, <2>3, <3>1
  <2>5. PICK k : k = t - s
    OBVIOUS
  <2>6. k \in 0..(f - s) /\ t = s + k /\ f - s \in Nat /\ f - s # 0 /\ centre \in Int
    <3>1. s =< t /\ t =< f
      BY <2>1, <2>3
    <3>2. centre \in Int
      BY <1>2
    <3> QED BY ONLY <2>4, <2>5, <3>1, <3>2, t \in Nat
  <2>7. p + v * k = EdgeOf(centre, radius, v, entering)
    BY <1>9, <2>1, <2>3, <2>4, <2>5
  <2>8. p + v * k \in Surface(p, q, centre, radius, entering) /\ Distance(p, p + v * k) = k
    <3>1. PICK n : n = f - s
      OBVIOUS
    <3>2. /\ p \in Int /\ q \in Int /\ centre \in Int /\ radius \in Nat /\ n \in Nat /\ n # 0
          /\ v # 0 /\ Leads(p, q, v, n, centre, radius, entering) /\ k \in 0..n
      BY <1>2, <2>4, <2>6, <3>1 DEF Leads
    <3>3. PICK edge : edge = EdgeOf(centre, radius, v, entering)
      OBVIOUS
    <3>4. edge = p + v * k
      BY <2>7, <3>3
    <3>5. edge \in (IF v = 1 THEN p..q ELSE q..p) /\ Distance(p, edge) = k
      <4>1. CASE v = 1
        BY <2>4, <2>6, <3>4, <4>1 DEF Distance
      <4>2. CASE v = -1
        BY <2>4, <2>6, <3>4, <4>2 DEF Distance
      <4> QED BY <4>1, <4>2
    <3>6. edge \in Surface(p, q, centre, radius, entering)
      <4>1. Surface(p, q, centre, radius, entering) =
              IF v # 0 /\ EdgeOf(centre, radius, v, entering) \in (IF v = 1 THEN p..q ELSE q..p)
              THEN {EdgeOf(centre, radius, v, entering)} ELSE {}
        BY ONLY <3>2, SurfaceIs
      <4> QED BY ONLY <3>2, <3>3, <3>5, <4>1
    <3> QED BY <3>4, <3>5, <3>6
  <2>9. t \in on(i)
    BY <2>3, <2>6, <2>8
  <2> QED BY <1>6, <2>2, <2>9
<1> QED BY <1>1, <1>8, <1>9

\* Where a unit is somewhere else an instant later, it is on a leg.
LEMMA MovesOnLeg ==
  ASSUME NEW track, IsTrack(track), track # <<>>, Unhurried(track), NEW t \in Nat,
         PositionAt(track, t) # PositionAt(track, t + 1)
  PROVE  \E i \in 1..(Len(track) - 1) : \E v \in {-1, 1} :
           /\ track[i].at =< t /\ t + 1 =< track[i + 1].at
           /\ \A x \in Nat : track[i].at =< x /\ x =< track[i + 1].at =>
                PositionAt(track, x) = track[i].point + v * (x - track[i].at)
           /\ PositionAt(track, t + 1) = PositionAt(track, t) + v
<1>1. /\ Len(track) \in Nat /\ DOMAIN track = 1..Len(track) /\ t + 1 \in Nat
      /\ 1 \in DOMAIN track /\ Len(track) \in DOMAIN track
      /\ \A i \in DOMAIN track : track[i].at \in Nat /\ track[i].point \in Nat
  BY TrackType, PlacesAreWhole
<1>2. ~ (t < track[1].at)
  <2> SUFFICES ASSUME t < track[1].at PROVE FALSE
    OBVIOUS
  <2>1. track[1].at \in Nat
    BY <1>1
  <2>2. t =< track[1].at /\ t + 1 =< track[1].at
    BY <2>1
  <2> QED BY <1>1, <2>2, PositionAtEnds
<1>3. ~ (track[Len(track)].at =< t)
  <2> SUFFICES ASSUME track[Len(track)].at =< t PROVE FALSE
    OBVIOUS
  <2>1. track[Len(track)].at \in Nat
    BY <1>1
  <2>2. track[Len(track)].at =< t + 1
    BY <2>1
  <2> QED BY <1>1, <2>2, PositionAtEnds
<1>4. PICK j \in 2..Len(track) : track[j - 1].at =< t /\ t < track[j].at
  BY <1>2, <1>3, OnSomeLeg
<1>5. PICK i : i = j - 1
  OBVIOUS
<1>6. /\ i \in 1..(Len(track) - 1) /\ i + 1 = j /\ i \in DOMAIN track /\ i + 1 \in DOMAIN track
      /\ track[i].at =< t /\ t < track[i + 1].at
  BY <1>1, <1>4, <1>5
<1>7. PICK v \in {-1, 0, 1} : \A x \in Nat : track[i].at =< x /\ x =< track[i + 1].at =>
        PositionAt(track, x) = track[i].point + v * (x - track[i].at)
  BY <1>6, LegIs
<1>8. PICK m, n, p : m = track[i].at /\ n = track[i + 1].at /\ p = track[i].point
  OBVIOUS
<1>9. m \in Nat /\ n \in Nat /\ p \in Nat /\ m =< t /\ t + 1 =< n /\ t =< n /\ m =< t + 1
  BY <1>1, <1>6, <1>8
<1>10. PositionAt(track, t) = p + v * (t - m) /\ PositionAt(track, t + 1) = p + v * ((t + 1) - m)
  BY <1>1, <1>7, <1>8, <1>9
<1>11. p + v * ((t + 1) - m) = (p + v * (t - m)) + v
  BY <1>9
<1>12. v # 0
  BY <1>9, <1>10, <1>11
<1>13. v \in {-1, 1}
  BY <1>12
<1> QED BY <1>6, <1>7, <1>8, <1>9, <1>10, <1>11, <1>13

\* Where it is outside a zone an instant after it was inside or the other way
\* round, the edge is where it was inside, and crossing finds it.
LEMMA CrossedWhere ==
  ASSUME NEW e \in Events, NEW u \in Units, IsTrack(tracks[u]), tracks[u] # <<>>, Unhurried(tracks[u]),
         TrueZone[e] \in Nat, NEW from \in Nat, NEW until \in Nat,
         NEW t \in Nat, from =< t, t + 1 =< until
  PROVE  /\ ~ Inside(u, e, t) /\ Inside(u, e, t + 1) => t + 1 \in Crossings(u, e, from, until, TRUE)
         /\ Inside(u, e, t) /\ ~ Inside(u, e, t + 1) => t \in Crossings(u, e, from, until, FALSE)
<1>1. PICK track, centre, radius, p, q :
        /\ track = tracks[u] /\ centre = Truth[e] /\ radius = TrueZone[e]
        /\ p = PositionAt(track, t) /\ q = PositionAt(track, t + 1)
  OBVIOUS
<1>2. centre \in Nat /\ radius \in Nat /\ p \in Nat /\ q \in Nat /\ t + 1 \in Nat
  <2>1. centre \in Drift /\ t + 1 \in Nat
    BY <1>1, UseCasesAssumption
  <2>2. p \in Drift /\ q \in Drift
    BY <1>1, <2>1, PositionInDrift
  <2> QED BY <1>1, <2>1, <2>2, PlacesAreWhole
<1>3. /\ Inside(u, e, t) <=> Distance(p, centre) =< radius
      /\ Inside(u, e, t + 1) <=> Distance(q, centre) =< radius
  BY <1>1 DEF Inside
<1>4. CASE p = q
  BY <1>3, <1>4
<1>5. CASE p # q
  <2>1. PICK i \in 1..(Len(track) - 1) : \E v \in {-1, 1} :
           /\ track[i].at =< t /\ t + 1 =< track[i + 1].at
           /\ \A x \in Nat : track[i].at =< x /\ x =< track[i + 1].at =>
                PositionAt(track, x) = track[i].point + v * (x - track[i].at)
           /\ q = p + v
    BY <1>1, <1>5, MovesOnLeg
  <2>2. PICK v \in {-1, 1} :
           /\ track[i].at =< t /\ t + 1 =< track[i + 1].at
           /\ \A x \in Nat : track[i].at =< x /\ x =< track[i + 1].at =>
                PositionAt(track, x) = track[i].point + v * (x - track[i].at)
           /\ q = p + v
    BY <2>1
  <2>3. track[i].at \in Nat /\ track[i + 1].at \in Nat
    <3>1. i \in DOMAIN track /\ i + 1 \in DOMAIN track
      BY <1>1, TrackType
    <3> QED BY <1>1, <3>1, TrackType
  <2>4. /\ from < track[i + 1].at /\ track[i].at < until /\ from < until
        /\ track[i].at =< t + 1 /\ t =< track[i + 1].at /\ t =< until /\ from =< t + 1
    BY <2>2, <2>3
  <2>5. OnLeg(track, i, v, from, until, t) /\ OnLeg(track, i, v, from, until, t + 1)
    BY <2>2, <2>4 DEF OnLeg
  <2>6. \A x \in {t, t + 1} : \A entering \in BOOLEAN :
          PositionAt(track, x) = EdgeOf(centre, radius, v, entering) =>
            x \in Crossings(u, e, from, until, entering)
    <3> TAKE x \in {t, t + 1}
    <3> TAKE entering \in BOOLEAN
    <3>1. x \in Nat /\ OnLeg(track, i, v, from, until, x)
      BY <1>2, <2>5
    <3> QED BY <1>1, <2>4, <3>1, CrossingsAre
  <2>7. ASSUME Distance(p, centre) > radius, Distance(q, centre) =< radius
        PROVE  q = EdgeOf(centre, radius, v, TRUE)
    BY <1>2, <2>2, <2>7 DEF Distance, EdgeOf
  <2>8. ASSUME Distance(p, centre) =< radius, Distance(q, centre) > radius
        PROVE  p = EdgeOf(centre, radius, v, FALSE)
    BY <1>2, <2>2, <2>8 DEF Distance, EdgeOf
  <2>9. Distance(p, centre) \in Nat /\ Distance(q, centre) \in Nat
    BY <1>2 DEF Distance
  <2>10. ASSUME ~ Inside(u, e, t), Inside(u, e, t + 1)
         PROVE  t + 1 \in Crossings(u, e, from, until, TRUE)
    <3>1. q = EdgeOf(centre, radius, v, TRUE)
      <4>1. ~ (Distance(p, centre) =< radius) /\ Distance(q, centre) =< radius
        BY <1>3, <2>10
      <4>2. Distance(p, centre) > radius
        BY <1>2, <2>9, <4>1
      <4> QED BY <2>7, <4>1, <4>2
    <3> QED BY <1>1, <2>6, <3>1
  <2>11. ASSUME Inside(u, e, t), ~ Inside(u, e, t + 1)
         PROVE  t \in Crossings(u, e, from, until, FALSE)
    <3>1. p = EdgeOf(centre, radius, v, FALSE)
      <4>1. Distance(p, centre) =< radius /\ ~ (Distance(q, centre) =< radius)
        BY <1>3, <2>11
      <4>2. Distance(q, centre) > radius
        BY <1>2, <2>9, <4>1
      <4> QED BY <2>8, <4>1, <4>2
    <3> QED BY <1>1, <2>6, <3>1
  <2> QED BY <2>10, <2>11
<1> QED BY <1>4, <1>5

\* Those concerned by an event are units with a track.
LEMMA ConcernedIs ==
  ASSUME Records, NEW e \in Events, NEW u \in Concerned(e)
  PROVE  /\ u \in Units /\ IsTrack(tracks[u]) /\ tracks[u] # <<>> /\ Unhurried(tracks[u])
         /\ TrueZone[e] \in Nat
<1>1. u \in Units /\ tracks[u] # <<>> /\ TrueZone[e] # Nowhere
  BY DEF Concerned, Seen
<1>2. tracks \in Worlds /\ TrueZone[e] \in Nat \cup {Nowhere}
  BY UseCasesAssumption DEF Records
<1>3. IsTrack(tracks[u])
  BY <1>1, <1>2, UseCasesAssumption
<1>4. Unhurried(tracks[u])
  BY <1>1, <1>2, UseCasesAssumption DEF Unhurried
<1> QED BY <1>1, <1>2, <1>3, <1>4

\* What crossing finds and when.
LEMMA CrossingIs ==
  ASSUME Records, NEW e \in Events, NEW u \in Concerned(e)
  PROVE  LET within == {t \in Origin[e]..Until(e) : Inside(u, e, t)}
             outside == (Origin[e]..Until(e)) \ within
         IN /\ ~ Inside(u, e, Origin[e]) => Entry(u, e) = FirstOfAll(within) /\ Exit(u, e) = {}
            /\ Inside(u, e, Origin[e]) =>
                 /\ Entry(u, e) = {}
                 /\ outside # {} => Exit(u, e) # {}
                 /\ \A t \in Exit(u, e) :
                      /\ t \in Origin[e]..Until(e)
                      /\ Distance(PositionAt(tracks[u], t), Truth[e]) = TrueZone[e]
                      /\ \A s \in outside : t < s
<1>1. PICK o, w : o = Origin[e] /\ w = Until(e)
  OBVIOUS
<1>2. o \in Nat /\ w \in Nat /\ o < w
  BY <1>1, WindowIs
<1>3. PICK within, outside :
        within = {t \in o..w : Inside(u, e, t)} /\ outside = (o..w) \ within
  OBVIOUS
<1>4. /\ u \in Units /\ IsTrack(tracks[u]) /\ tracks[u] # <<>> /\ Unhurried(tracks[u])
      /\ TrueZone[e] \in Nat
  BY ConcernedIs
<1>5. \A t : t \in within <=> t \in o..w /\ Inside(u, e, t)
  BY <1>3
<1>6. within \subseteq Nat /\ outside \subseteq Nat
  BY <1>2, <1>3
<1>7. \A entering \in BOOLEAN : \A t \in Crossings(u, e, o, w, entering) :
        /\ t \in o..w
        /\ Distance(PositionAt(tracks[u], t), Truth[e]) = TrueZone[e]
        /\ Inside(u, e, t)
  <2> TAKE entering \in BOOLEAN
  <2> TAKE t \in Crossings(u, e, o, w, entering)
  <2>1. /\ t \in Nat /\ o =< t /\ t =< w
        /\ Distance(PositionAt(tracks[u], t), Truth[e]) = TrueZone[e]
    BY <1>2, <1>4, CrossingsAre
  <2> QED BY <1>2, <1>4, <2>1 DEF Inside
<1>8. ASSUME ~ Inside(u, e, o)
      PROVE  FirstOfAll(Crossings(u, e, o, w, TRUE)) = FirstOfAll(within)
  <2>1. PICK C : C = Crossings(u, e, o, w, TRUE)
    OBVIOUS
  <2>2. C \subseteq within
    BY <1>5, <1>7, <2>1
  <2>3. CASE within = {}
    BY <2>1, <2>2, <2>3 DEF FirstOfAll
  <2>4. CASE within # {}
    <3>1. PICK m : m = Min(within)
      OBVIOUS
    <3>2. m \in within /\ \A x \in within : m =< x
      BY <1>6, <2>4, <3>1, MinIs
    <3>3. m \in o..w /\ Inside(u, e, m) /\ m # o
      BY <1>5, <1>8, <3>2
    <3>4. PICK k : k = m - 1
      OBVIOUS
    <3>5. k \in Nat /\ o =< k /\ k + 1 =< w /\ k + 1 = m /\ k \in o..w /\ ~ (m =< k)
      BY <1>2, <3>3, <3>4
    <3>6. ~ Inside(u, e, k)
      BY <1>5, <3>2, <3>5
    <3>7. k + 1 \in Crossings(u, e, o, w, TRUE)
      BY <1>2, <1>4, <3>3, <3>5, <3>6, CrossedWhere
    <3>8. m \in C /\ \A x \in C : m =< x
      BY <2>1, <2>2, <3>2, <3>5, <3>7
    <3>9. Min(C) = m
      BY <1>6, <2>2, <3>8, Least
    <3> QED BY <2>1, <2>4, <3>1, <3>8, <3>9 DEF FirstOfAll
  <2> QED BY <2>3, <2>4
<1>9. ASSUME Inside(u, e, o)
      PROVE  LET exit == FirstOfAll(Crossings(u, e, o, w, FALSE))
             IN /\ outside # {} => exit # {}
                /\ \A t \in exit : /\ t \in o..w
                                   /\ Distance(PositionAt(tracks[u], t), Truth[e]) = TrueZone[e]
                                   /\ \A s \in outside : t < s
  <2>1. PICK C : C = Crossings(u, e, o, w, FALSE)
    OBVIOUS
  <2>2. C \subseteq Nat
    <3>1. C \subseteq o..w
      BY <1>7, <2>1
    <3> QED BY <1>2, <3>1
  <2>3. ASSUME NEW s \in outside PROVE \E k \in C : k < s
    <3>1. PICK m : m = Min(outside)
      OBVIOUS
    <3>2. m \in outside /\ \A x \in outside : m =< x
      BY <1>6, <3>1, MinIs
    <3>3. m \in o..w /\ ~ Inside(u, e, m) /\ m # o
      BY <1>3, <1>9, <3>2
    <3>4. PICK k : k = m - 1
      OBVIOUS
    <3>5. k \in Nat /\ o =< k /\ k + 1 =< w /\ k + 1 = m /\ k \in o..w /\ ~ (m =< k)
      BY <1>2, <3>3, <3>4
    <3>6. Inside(u, e, k)
      BY <1>3, <3>2, <3>5
    <3>7. k \in Crossings(u, e, o, w, FALSE)
      BY <1>2, <1>4, <3>3, <3>5, <3>6, CrossedWhere
    <3>8. m =< s /\ s \in Nat /\ m \in Nat
      BY <1>6, <3>2
    <3>9. k < s
      BY <3>5, <3>8
    <3>10. k \in C
      BY <2>1, <3>7
    <3> QED BY <3>9, <3>10
  <2>4. FirstOfAll(C) = IF C = {} THEN {} ELSE {Min(C)}
    BY DEF FirstOfAll
  <2>5. outside # {} => C # {}
    BY <2>3
  <2>6. ASSUME C # {}
        PROVE  /\ Min(C) \in o..w /\ Distance(PositionAt(tracks[u], Min(C)), Truth[e]) = TrueZone[e]
               /\ \A s \in outside : Min(C) < s
    <3>1. PICK m : m = Min(C)
      OBVIOUS
    <3>2. m \in C /\ \A x \in C : m =< x
      BY <2>2, <2>6, <3>1, MinIs
    <3>3. \A s \in outside : m < s
      <4> TAKE s \in outside
      <4>1. PICK k \in C : k < s
        BY <2>3
      <4>2. m =< k /\ m \in Nat /\ k \in Nat /\ s \in Nat
        BY <1>6, <2>2, <3>2
      <4> QED BY <4>1, <4>2
    <3> QED BY <1>7, <2>1, <3>1, <3>2, <3>3
  <2> QED BY <2>1, <2>4, <2>5, <2>6
<1>10. /\ ~ Inside(u, e, o) => Entry(u, e) = FirstOfAll(within) /\ Exit(u, e) = {}
       /\ Inside(u, e, o) => Entry(u, e) = {} /\ Exit(u, e) = FirstOfAll(Crossings(u, e, o, w, FALSE))
  BY <1>1, <1>8 DEF Entry, Exit
<1> QED BY <1>1, <1>3, <1>9, <1>10

\* An entry the code solves for, leg by leg, is the first instant at which the
\* unit is inside; an exit is on the surface, before any instant outside.
LEMMA CrossingsFirst == Records => CrossingsAreFirst
BY CrossingIs DEF CrossingsAreFirst

-----------------------------------------------------------------------------
(* The decisions.                                                           *)

\* The fields of a decision.
LEMMA DecisionIs ==
  ASSUME NEW e, NEW u, NEW place, NEW closes
  PROVE  LET d == Decision(e, u, place, closes)
         IN /\ d.event = e /\ d.unit = u /\ d.opens = Origin[e] /\ d.closes = closes
            /\ d.met = MetAt(question.need, e, place)
BY DEF Decision

TurnOf(e, u, entry)    == Decision(e, u, PositionAt(tracks[u], entry), entry - question.reaction)
RerouteOf(e, u, entry) == Decision(e, u, PositionAt(tracks[u], entry), RerouteCloses(u, e, entry))
LeadOf(e, u) ==
  Decision(e, u, PositionAt(tracks[u], Origin[e]), Min({Until(e)} \cup Exit(u, e)) - question.reaction)

\* Each use case's decisions, one for each entry or for each unit inside.
LEMMA DecisionsAre ==
  /\ \A d : d \in TurnBack <=> \E e \in Events : \E u \in Concerned(e) : \E n \in Entry(u, e) : d = TurnOf(e, u, n)
  /\ \A d : d \in Reroute <=> \E e \in Events : \E u \in Concerned(e) : \E n \in Entry(u, e) : d = RerouteOf(e, u, n)
  /\ \A d : d \in WayOut <=> \E e \in Events : \E u \in Concerned(e) : Inside(u, e, Origin[e]) /\ d = LeadOf(e, u)
<1>1. \A d : d \in TurnBack <=> \E e \in Events : \E u \in Concerned(e) : \E n \in Entry(u, e) : d = TurnOf(e, u, n)
  BY DEF TurnBack, TurnOf
<1>2. \A d : d \in Reroute <=> \E e \in Events : \E u \in Concerned(e) : \E n \in Entry(u, e) : d = RerouteOf(e, u, n)
  BY DEF Reroute, RerouteOf
<1>3. \A d : d \in WayOut <=> \E e \in Events : \E u \in Concerned(e) : Inside(u, e, Origin[e]) /\ d = LeadOf(e, u)
  BY DEF WayOut, LeadOf
<1> QED BY <1>1, <1>2, <1>3

\* There is one entry if the unit was outside and is inside some time, and
\* else none.
LEMMA EntryIsOne ==
  ASSUME Records, NEW e \in Events, NEW u \in Concerned(e)
  PROVE  /\ Inside(u, e, Origin[e]) => Entry(u, e) = {}
         /\ ~ Inside(u, e, Origin[e]) =>
              \/ Entry(u, e) = {} /\ ~ \E t \in Origin[e]..Until(e) : Inside(u, e, t)
              \/ \E n \in Origin[e]..Until(e) :
                   Origin[e] < n /\ Inside(u, e, n) /\ Entry(u, e) = {n}
<1>1. PICK within : within = {t \in Origin[e]..Until(e) : Inside(u, e, t)}
  OBVIOUS
<1>2. /\ ~ Inside(u, e, Origin[e]) => Entry(u, e) = FirstOfAll(within)
      /\ Inside(u, e, Origin[e]) => Entry(u, e) = {}
  BY <1>1, CrossingIs
<1>3. Origin[e] \in Nat /\ Until(e) \in Nat /\ Origin[e] < Until(e)
  BY WindowIs
<1>4. CASE Inside(u, e, Origin[e])
  BY <1>2, <1>4
<1>5. CASE ~ Inside(u, e, Origin[e]) /\ within = {}
  <2>1. FirstOfAll(within) = {}
    BY <1>5 DEF FirstOfAll
  <2>2. Entry(u, e) = {}
    BY <1>2, <1>5, <2>1
  <2>3. ~ \E t \in Origin[e]..Until(e) : Inside(u, e, t)
    BY <1>1, <1>5
  <2> QED BY <1>5, <2>2, <2>3
<1>6. CASE ~ Inside(u, e, Origin[e]) /\ within # {}
  <2>1. PICK n : n = Min(within)
    OBVIOUS
  <2>2. within \subseteq Nat
    BY <1>1, <1>3
  <2>3. n \in within
    BY <1>6, <2>1, <2>2, MinIs
  <2>4. n \in Origin[e]..Until(e) /\ Inside(u, e, n) /\ n # Origin[e]
    BY <1>1, <1>6, <2>3
  <2>5. Origin[e] < n
    BY <1>3, <2>4
  <2>6. FirstOfAll(within) = {n}
    BY <1>6, <2>1 DEF FirstOfAll
  <2>7. Entry(u, e) = {n}
    BY <1>2, <1>6, <2>6
  <2> QED BY <1>6, <2>4, <2>5, <2>7
<1> QED BY <1>4, <1>5, <1>6

\* Whoever is in a zone at any instant while it matters is decided about, once.
LEMMA DecidedFor == Records => EveryoneIsDecidedFor
<1> SUFFICES ASSUME Records, NEW e \in Events, NEW u \in Concerned(e),
                    NEW turned, turned = {d \in TurnBack : d.event = e /\ d.unit = u},
                    NEW led, led = {d \in WayOut : d.event = e /\ d.unit = u}
             PROVE  /\ Cardinality(turned) + Cardinality(led) =
                         IF \E t \in Origin[e]..Until(e) : Inside(u, e, t) THEN 1 ELSE 0
                    /\ led # {} <=> Inside(u, e, Origin[e])
  BY DEF EveryoneIsDecidedFor
<1>1. \A x : Cardinality({x}) = 1
  BY FS_Singleton
<1>2. Cardinality({}) = 0
  BY FS_EmptySet
<1>3. \A d : d \in turned <=> \E n \in Entry(u, e) : d = TurnOf(e, u, n)
  <2>1. \A x \in Events : \A v : \A n : TurnOf(x, v, n).event = x /\ TurnOf(x, v, n).unit = v
    BY DecisionIs DEF TurnOf
  <2> QED BY <2>1, DecisionsAre
<1>4. \A d : d \in led <=> Inside(u, e, Origin[e]) /\ d = LeadOf(e, u)
  <2>1. \A x \in Events : \A v : LeadOf(x, v).event = x /\ LeadOf(x, v).unit = v
    BY DecisionIs DEF LeadOf
  <2> QED BY <2>1, DecisionsAre
<1>5. Origin[e] \in Origin[e]..Until(e)
  BY WindowIs
<1>6. CASE Inside(u, e, Origin[e])
  <2>1. Entry(u, e) = {}
    BY <1>6, EntryIsOne
  <2>2. turned = {}
    BY <1>3, <2>1
  <2>3. led = {LeadOf(e, u)}
    BY <1>4, <1>6
  <2>4. Cardinality(turned) = 0 /\ Cardinality(led) = 1
    BY <1>1, <1>2, <2>2, <2>3
  <2> QED BY <1>5, <1>6, <2>3, <2>4
<1>7. CASE ~ Inside(u, e, Origin[e])
  <2>1. led = {}
    BY <1>4, <1>7
  <2>2. CASE Entry(u, e) = {} /\ ~ \E t \in Origin[e]..Until(e) : Inside(u, e, t)
    <3>1. turned = {}
      BY <1>3, <2>2
    <3>2. Cardinality(turned) = 0 /\ Cardinality(led) = 0
      BY <1>2, <2>1, <3>1
    <3> QED BY <1>7, <2>1, <2>2, <3>2
  <2>3. CASE \E n \in Origin[e]..Until(e) : Origin[e] < n /\ Inside(u, e, n) /\ Entry(u, e) = {n}
    <3>1. PICK n \in Origin[e]..Until(e) : Inside(u, e, n) /\ Entry(u, e) = {n}
      BY <2>3
    <3>2. turned = {TurnOf(e, u, n)}
      BY <1>3, <3>1
    <3>3. Cardinality(turned) = 1 /\ Cardinality(led) = 0
      BY <1>1, <1>2, <2>1, <3>2
    <3> QED BY <1>7, <2>1, <3>1, <3>3
  <2> QED BY <1>7, <2>2, <2>3, EntryIsOne
<1> QED BY <1>6, <1>7

\* Nothing is known of an event before it happens.
LEMMA KnownAfter ==
  ASSUME Records, NEW e \in Events, NEW need, NEW place
  PROVE  MetAt(need, e, place) \in Nat /\ (MetAt(need, e, place) # 0 => Origin[e] < MetAt(need, e, place))
<1>1. Located(e) \in Nat /\ Processed(e) \in Nat
  BY LocationsAre
<1>2. Recorded(e, record[e], now)
  BY DEF Records
<1>3. Located(e) # 0 => Origin[e] < Located(e)
  <2>1. record[e].locatedAt # 0 => record[e].located # 0
    BY <1>2 DEF Recorded
  <2>2. record[e].located # 0 => Origin[e] < record[e].locatedAt
    BY <1>2 DEF Recorded
  <2> QED BY <2>1, <2>2 DEF Located
<1>4. Processed(e) # 0 => Origin[e] < Processed(e)
  <2>1. record[e].processedAt # 0 => Origin[e] < record[e].processedAt
    BY <1>2 DEF Recorded
  <2> QED BY <2>1 DEF Processed
<1> QED BY <1>1, <1>3, <1>4 DEF MetAt

\* The junctions a unit passes before it enters.
LEMMA PassedIs ==
  ASSUME Records, NEW e \in Events, NEW u \in Concerned(e), NEW n \in Nat
  PROVE  \/ RerouteCloses(u, e, n) = Origin[e]
         \/ RerouteCloses(u, e, n) \in Int /\ RerouteCloses(u, e, n) < n - question.reaction
<1>1. PICK track, passed : track = tracks[u] /\ passed = LastJunction(u, e, n)
  OBVIOUS
<1>2. \A x \in passed : x \in Nat /\ x < n
  <2>1. \A i \in DOMAIN track : track[i].at \in Nat
    BY <1>1, ConcernedIs, TrackType
  <2> QED BY <1>1, <2>1 DEF LastJunction
<1>3. CASE passed = {}
  BY <1>1, <1>3 DEF RerouteCloses
<1>4. CASE passed # {}
  <2>1. n \in Int /\ passed \subseteq Int /\ \A x \in passed : x =< n
    BY <1>2
  <2>2. Max(passed) \in passed
    BY <1>4, <2>1, MaxIs
  <2>3. Max(passed) \in Nat /\ Max(passed) < n /\ question.reaction \in Nat
    BY <1>2, <2>2, WindowIs
  <2>4. RerouteCloses(u, e, n) = Max(passed) - question.reaction
    BY <1>1, <1>4 DEF RerouteCloses
  <2>5. PICK m : m = Max(passed)
    OBVIOUS
  <2>6. m - question.reaction \in Int /\ m - question.reaction < n - question.reaction
    BY <2>3, <2>5
  <2> QED BY <2>4, <2>5, <2>6
<1> QED BY <1>3, <1>4

\* A decision that closed before it opened could not have been made in time.
LEMMA LostIsLost == Records => UnwinnableIsLost
<1> SUFFICES ASSUME Records PROVE UnwinnableIsLost
  OBVIOUS
<1>1. ASSUME NEW e \in Events, NEW u, NEW place, NEW closes \in Int,
             Unwinnable(Decision(e, u, place, closes))
      PROVE  ~ InTime(Decision(e, u, place, closes))
  <2>1. PICK d : d = Decision(e, u, place, closes)
    OBVIOUS
  <2>2. d.opens = Origin[e] /\ d.closes = closes /\ d.met = MetAt(question.need, e, place)
    BY <2>1, DecisionIs
  <2>3. d.met \in Nat /\ (d.met # 0 => Origin[e] < d.met) /\ Origin[e] \in Nat
    BY <2>2, KnownAfter, WindowIs
  <2>4. closes =< Origin[e]
    BY <1>1, <2>1, <2>2 DEF Unwinnable
  <2> QED BY <2>1, <2>2, <2>3, <2>4 DEF InTime
<1>2. \A e \in Events : \A u \in Concerned(e) : \A n \in Entry(u, e) : n \in Nat /\ Origin[e] < n
  <2> TAKE e \in Events
  <2> TAKE u \in Concerned(e)
  <2> TAKE n \in Entry(u, e)
  <2>1. n \in Origin[e]..Until(e) /\ Origin[e] < n
    BY EntryIsOne
  <2>2. Origin[e] \in Nat /\ Until(e) \in Nat
    BY WindowIs
  <2> QED BY <2>1, <2>2
<1>3. \A e \in Events : Origin[e] \in Nat /\ Until(e) \in Nat /\ question.reaction \in Nat
  BY WindowIs
<1>4. \A d \in TurnBack : Unwinnable(d) => ~ InTime(d)
  <2> SUFFICES ASSUME NEW d \in TurnBack, Unwinnable(d) PROVE ~ InTime(d)
    OBVIOUS
  <2>1. PICK e \in Events : \E u \in Concerned(e) : \E n \in Entry(u, e) : d = TurnOf(e, u, n)
    BY DecisionsAre
  <2>2. PICK u \in Concerned(e) : \E n \in Entry(u, e) : d = TurnOf(e, u, n)
    BY <2>1
  <2>3. PICK n \in Entry(u, e) : d = TurnOf(e, u, n)
    BY <2>2
  <2>4. n - question.reaction \in Int
    BY <1>2, <1>3
  <2> QED BY <1>1, <2>3, <2>4 DEF TurnOf
<1>5. ASSUME NEW e \in Events, NEW u \in Concerned(e), NEW n \in Entry(u, e)
      PROVE  RerouteCloses(u, e, n) \in Int
  BY <1>2, <1>3, PassedIs
<1>6. \A d \in Reroute : Unwinnable(d) => ~ InTime(d)
  <2> SUFFICES ASSUME NEW d \in Reroute, Unwinnable(d) PROVE ~ InTime(d)
    OBVIOUS
  <2>1. PICK e \in Events : \E u \in Concerned(e) : \E n \in Entry(u, e) : d = RerouteOf(e, u, n)
    BY DecisionsAre
  <2>2. PICK u \in Concerned(e) : \E n \in Entry(u, e) : d = RerouteOf(e, u, n)
    BY <2>1
  <2>3. PICK n \in Entry(u, e) : d = RerouteOf(e, u, n)
    BY <2>2
  <2> QED BY <1>1, <1>5, <2>3 DEF RerouteOf
<1>7. \A d \in WayOut : Unwinnable(d) => ~ InTime(d)
  <2> SUFFICES ASSUME NEW d \in WayOut, Unwinnable(d) PROVE ~ InTime(d)
    OBVIOUS
  <2>1. PICK e \in Events : \E u \in Concerned(e) : Inside(u, e, Origin[e]) /\ d = LeadOf(e, u)
    BY DecisionsAre
  <2>2. PICK u \in Concerned(e) : Inside(u, e, Origin[e]) /\ d = LeadOf(e, u)
    BY <2>1
  <2>3. PICK S : S = {Until(e)} \cup Exit(u, e)
    OBVIOUS
  <2>4. S \subseteq Nat /\ S # {}
    <3>1. \A t \in Exit(u, e) : t \in Origin[e]..Until(e)
      BY <2>2, CrossingIs
    <3> QED BY <1>3, <2>3, <3>1
  <2>5. Min(S) \in Nat
    BY <2>4, MinIs
  <2>6. PICK m : m = Min(S)
    OBVIOUS
  <2>7. m - question.reaction \in Int
    BY <1>3, <2>5, <2>6
  <2> QED BY <1>1, <2>2, <2>3, <2>6, <2>7 DEF LeadOf
<1>8. ASSUME NEW r \in Reroute, InTime(r)
      PROVE  \E t \in TurnBack : t.event = r.event /\ t.unit = r.unit /\ InTime(t)
  <2>1. PICK e \in Events : \E u \in Concerned(e) : \E n \in Entry(u, e) : r = RerouteOf(e, u, n)
    BY DecisionsAre
  <2>2. PICK u \in Concerned(e) : \E n \in Entry(u, e) : r = RerouteOf(e, u, n)
    BY <2>1
  <2>3. PICK n \in Entry(u, e) : r = RerouteOf(e, u, n)
    BY <2>2
  <2>4. PICK t : t = TurnOf(e, u, n)
    OBVIOUS
  <2>5. t \in TurnBack
    BY <2>4, DecisionsAre
  <2>6. /\ t.event = e /\ t.unit = u /\ t.closes = n - question.reaction
        /\ t.met = MetAt(question.need, e, PositionAt(tracks[u], n))
    BY <2>4, DecisionIs DEF TurnOf
  <2>7. /\ r.event = e /\ r.unit = u /\ r.opens = Origin[e] /\ r.closes = RerouteCloses(u, e, n)
        /\ r.met = MetAt(question.need, e, PositionAt(tracks[u], n))
    BY <2>3, DecisionIs DEF RerouteOf
  <2>8. r.closes \in Int /\ n \in Nat /\ Origin[e] \in Nat /\ question.reaction \in Nat
    BY <1>2, <1>3, <1>5, <2>7
  <2>9. r.closes < n - question.reaction
    <3>1. ~ Unwinnable(r)
      BY <1>6, <1>8
    <3>2. r.closes # Origin[e]
      BY <2>7, <2>8, <3>1 DEF Unwinnable
    <3> QED BY <2>7, <2>8, <3>2, PassedIs
  <2>10. t.met \in Nat /\ t.met = r.met
    BY <2>6, <2>7, KnownAfter
  <2>11. r.met # 0 /\ r.met =< r.closes
    BY <1>8 DEF InTime
  <2>12. t.met # 0 /\ t.met =< t.closes
    BY <2>6, <2>8, <2>9, <2>10, <2>11
  <2> QED BY <2>5, <2>6, <2>7, <2>12 DEF InTime
<1> QED BY <1>4, <1>6, <1>7, <1>8 DEF UnwinnableIsLost

\* The decisions of use case 1, whatever the run went through: crossings are
\* found where and when they are, whoever is ever inside is decided about
\* once, and what Summarise counts as lost could not have been in time.
THEOREM DecisionsHold == Spec => []DecisionsAreRight
<1>1. Records => TypeOK
  BY DEF Records, TypeOK
<1>2. Records => DecisionsAreRight
  BY <1>1, CrossingsFirst, DecidedFor, LostIsLost DEF DecisionsAreRight
<1> QED BY <1>2, RecordsHold, PTL
=============================================================================
