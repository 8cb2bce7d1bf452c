--------------------------- MODULE WorkingsProofs ----------------------------
(****************************************************************************)
(* What holds of a mine being worked, for any layout whose tunnels meet at  *)
(* vertices alone, any pace that divides its legs, any stays, lead, day and *)
(* ways of working it, and any lookahead.                                   *)
(*                                                                          *)
(* The network comes first: NewGraph makes nodes, each a point once, and    *)
(* legs that meet there alone (Sound).  A search knows the shortest way     *)
(* through the nodes it has done (Searching), so that the routes found are  *)
(* shortest (Found), and where one gets to from a place is a matter of the  *)
(* two ends of its leg (GroundExact).                                       *)
(*                                                                          *)
(* Then the journeys along it: a track is a trail that stays or walks a leg *)
(* from each waypoint to the next (UnderWay), so that an instant moves one  *)
(* a pace along a leg at most and a lookahead's worth of them stays on the  *)
(* ground around.  A crew is at a face it leaves in time or at a station it *)
(* came to in time (CrewSound), since the evacuation it looks at is the     *)
(* first to come (InOrder).                                                 *)
(****************************************************************************)
EXTENDS Workings, FiniteSetTheorems, WellFoundedInduction, TLAPS

-----------------------------------------------------------------------------
(* Numbers.                                                                 *)
\* Induction over the naturals, for a set.
LEMMA Induction ==
  ASSUME NEW S, 0 \in S, \A n \in Nat : n \in S => n + 1 \in S
  PROVE  Nat \subseteq S
<1>1. SUFFICES ASSUME Nat \ S # {} PROVE FALSE
  OBVIOUS
<1>2. PICK n \in Nat \ S : \A k \in Nat \ S : ~ (<<k, n>> \in OpToRel(<, Nat))
  BY <1>1, NatLessThanWellFounded, WFMin
<1>3. n # 0 /\ n - 1 \in Nat /\ n - 1 < n
  OBVIOUS
<1>4. <<n - 1, n>> \in OpToRel(<, Nat)
  BY <1>3 DEF OpToRel
<1>5. n - 1 \notin S
  BY <1>3
<1>6. n - 1 \in Nat \ S
  BY <1>3, <1>5
<1> QED BY <1>2, <1>4, <1>6

\* Some of the naturals have a least.
LEMMA LeastOf ==
  ASSUME NEW S, S \subseteq Nat, S # {}
  PROVE  \E n \in S : \A x \in S : n =< x
<1>1. PICK n \in S : \A k \in S : ~ (<<k, n>> \in OpToRel(<, Nat))
  BY NatLessThanWellFounded, WFMin
<1>2. \A k \in S : ~ (k < n)
  BY <1>1 DEF OpToRel
<1> QED BY <1>2

\* The lesser of two numbers.
LEMMA MinOfTwo ==
  ASSUME NEW x \in Int, NEW y \in Int
  PROVE  Min({x, y}) = IF x < y THEN x ELSE y
BY DEF Min

\* The greater of two numbers.
LEMMA MaxOfTwo ==
  ASSUME NEW x \in Int, NEW y \in Int
  PROVE  Max({x, y}) = IF x < y THEN y ELSE x
BY DEF Max

-----------------------------------------------------------------------------
(* Points and stretches.                                                    *)
Points == Int \X Int \X Int

\* Points are what their coordinates are.
LEMMA SamePoint ==
  ASSUME NEW p \in Points, NEW q \in Points, p[1] = q[1], p[2] = q[2], p[3] = q[3]
  PROVE  p = q
BY DEF Points

\* The coordinates of a point are whole.
LEMMA PointType ==
  ASSUME NEW p \in Points
  PROVE  p[1] \in Int /\ p[2] \in Int /\ p[3] \in Int
BY DEF Points

Amid(x, a, b) == (a =< x /\ x =< b) \/ (b =< x /\ x =< a)

\* What it is for a point to be on a stretch, coordinate by coordinate.
LEMMA OnStretch ==
  ASSUME NEW p \in Points, NEW q \in Points, NEW r
  PROVE  r \in Stretch(p, q) <=>
           r \in Points /\ Amid(r[1], p[1], q[1]) /\ Amid(r[2], p[2], q[2]) /\ Amid(r[3], p[3], q[3])
BY DEF Points, Stretch, Between, Amid

\* The gap between two coordinates is a distance.
LEMMA GapIs ==
  ASSUME NEW x \in Int, NEW y \in Int
  PROVE  /\ Gap(x, y) \in Nat /\ Gap(x, y) = Gap(y, x)
         /\ Gap(x, y) = 0 <=> x = y
         /\ \A z \in Int : Gap(x, y) =< Gap(x, z) + Gap(z, y)
BY DEF Gap

\* The gaps to a coordinate on the way add up.
LEMMA GapOn ==
  ASSUME NEW x \in Int, NEW y \in Int, NEW z \in Int, Amid(z, x, y)
  PROVE  Gap(x, z) + Gap(z, y) = Gap(x, y)
BY DEF Gap, Amid

\* The length between two points is a distance.
LEMMA LengthType ==
  ASSUME NEW p \in Points, NEW q \in Points
  PROVE  /\ Length(p, q) \in Nat
         /\ Length(p, q) = Length(q, p)
         /\ (Length(p, q) = 0 <=> p = q)
<1>1. p[1] \in Int /\ p[2] \in Int /\ p[3] \in Int /\ q[1] \in Int /\ q[2] \in Int /\ q[3] \in Int
  BY PointType
<1>2. \A i \in {1, 2, 3} : /\ Gap(p[i], q[i]) \in Nat /\ Gap(p[i], q[i]) = Gap(q[i], p[i])
                           /\ Gap(p[i], q[i]) = 0 <=> p[i] = q[i]
  BY <1>1, GapIs
<1>3. Length(p, q) = 0 => p[1] = q[1] /\ p[2] = q[2] /\ p[3] = q[3]
  BY <1>2 DEF Length
<1>4. Length(p, q) = 0 => p = q
  BY <1>3, SamePoint
<1> QED BY <1>2, <1>4 DEF Length

\* A detour is no shorter.
LEMMA Triangle ==
  ASSUME NEW p \in Points, NEW q \in Points, NEW r \in Points
  PROVE  Length(p, r) =< Length(p, q) + Length(q, r)
<1>1. /\ p[1] \in Int /\ p[2] \in Int /\ p[3] \in Int /\ q[1] \in Int /\ q[2] \in Int /\ q[3] \in Int
      /\ r[1] \in Int /\ r[2] \in Int /\ r[3] \in Int
  BY PointType
<1>2. \A i \in {1, 2, 3} : /\ Gap(p[i], r[i]) =< Gap(p[i], q[i]) + Gap(q[i], r[i])
                           /\ Gap(p[i], q[i]) \in Nat /\ Gap(q[i], r[i]) \in Nat /\ Gap(p[i], r[i]) \in Nat
  BY <1>1, GapIs
<1> QED BY <1>2 DEF Length

\* A stretch is the same from either end.
LEMMA StretchSymmetric ==
  ASSUME NEW p \in Points, NEW q \in Points
  PROVE  Stretch(p, q) = Stretch(q, p)
<1>1. \A r : r \in Stretch(p, q) <=> r \in Stretch(q, p)
  BY OnStretch DEF Amid
<1> QED BY <1>1 DEF Stretch

\* A stretch has both its ends on it.
LEMMA EndsOn ==
  ASSUME NEW p \in Points, NEW q \in Points
  PROVE  p \in Stretch(p, q) /\ q \in Stretch(p, q) /\ Stretch(p, q) \subseteq Points
<1>1. p[1] \in Int /\ p[2] \in Int /\ p[3] \in Int /\ q[1] \in Int /\ q[2] \in Int /\ q[3] \in Int
  BY PointType
<1>2. \A x, y \in Int : Amid(x, x, y) /\ Amid(y, x, y)
  BY DEF Amid
<1> QED BY <1>1, <1>2, OnStretch

\* A point on a stretch divides its length.
LEMMA LengthOn ==
  ASSUME NEW p \in Points, NEW q \in Points, NEW r \in Stretch(p, q)
  PROVE  Length(p, r) + Length(r, q) = Length(p, q)
<1>1. r \in Points
  BY OnStretch
<1>2. /\ p[1] \in Int /\ p[2] \in Int /\ p[3] \in Int /\ q[1] \in Int /\ q[2] \in Int /\ q[3] \in Int
      /\ r[1] \in Int /\ r[2] \in Int /\ r[3] \in Int
  BY <1>1, PointType
<1>3. Amid(r[1], p[1], q[1]) /\ Amid(r[2], p[2], q[2]) /\ Amid(r[3], p[3], q[3])
  BY OnStretch
<1>4. \A i \in {1, 2, 3} : /\ Gap(p[i], r[i]) + Gap(r[i], q[i]) = Gap(p[i], q[i])
                           /\ Gap(p[i], r[i]) \in Nat /\ Gap(r[i], q[i]) \in Nat
  <2>1. TAKE i \in {1, 2, 3}
  <2>2. p[i] \in Int /\ q[i] \in Int /\ r[i] \in Int /\ Amid(r[i], p[i], q[i])
    BY <1>2, <1>3
  <2>3. Gap(p[i], r[i]) + Gap(r[i], q[i]) = Gap(p[i], q[i])
    BY <2>2, GapOn
  <2>4. Gap(p[i], r[i]) \in Nat /\ Gap(r[i], q[i]) \in Nat
    BY <2>2, GapIs
  <2> QED BY <2>3, <2>4
<1> QED BY <1>4 DEF Length

\* A straight stretch runs along one coordinate.
LEMMA StraightIs ==
  ASSUME NEW p \in Points, NEW q \in Points, Straight(p, q)
  PROVE  \/ p[1] = q[1] /\ p[2] = q[2]
         \/ p[1] = q[1] /\ p[3] = q[3]
         \/ p[2] = q[2] /\ p[3] = q[3]
BY DEF Straight

\* Two equal coordinates make a leg run along an axis.
LEMMA IsStraight ==
  ASSUME NEW p, NEW q,
         \/ p[1] = q[1] /\ p[2] = q[2]
         \/ p[1] = q[1] /\ p[3] = q[3]
         \/ p[2] = q[2] /\ p[3] = q[3]
  PROVE  Straight(p, q)
<1>1. CASE p[1] = q[1] /\ p[2] = q[2]
  <2>1. \A j \in 1..3 \ {3} : p[j] = q[j]
    BY <1>1
  <2> QED BY <2>1 DEF Straight
<1>2. CASE p[1] = q[1] /\ p[3] = q[3]
  <2>1. \A j \in 1..3 \ {2} : p[j] = q[j]
    BY <1>2
  <2> QED BY <2>1 DEF Straight
<1>3. CASE p[2] = q[2] /\ p[3] = q[3]
  <2>1. \A j \in 1..3 \ {1} : p[j] = q[j]
    BY <1>3
  <2> QED BY <2>1 DEF Straight
<1> QED BY <1>1, <1>2, <1>3

\* What lies between lies between from either end.
LEMMA AmidIs ==
  ASSUME NEW a \in Int, NEW b \in Int, NEW x \in Int, NEW y \in Int, Amid(x, a, b)
  PROVE  /\ a = b => x = a
         /\ Amid(y, x, a) => Amid(y, a, b)
         /\ Amid(y, x, b) => Amid(y, a, b)
         /\ Amid(y, a, b) => Amid(y, x, a) \/ Amid(y, x, b)
         /\ Amid(x, x, a) /\ Amid(a, a, b) /\ Amid(b, a, b) 
BY DEF Amid

\* From a point on a stretch, the two parts it divides it into are all of it.
LEMMA PartsOf ==
  ASSUME NEW p \in Points, NEW q \in Points, NEW r \in Stretch(p, q), Straight(p, q)
  PROVE  /\ Stretch(r, p) \subseteq Stretch(p, q)
         /\ Stretch(r, q) \subseteq Stretch(p, q)
         /\ Stretch(p, q) \subseteq Stretch(r, p) \cup Stretch(r, q)
         /\ Straight(r, p) /\ Straight(r, q) /\ r \in Points
<1>1. r \in Points
  BY OnStretch
<1>2. /\ p[1] \in Int /\ p[2] \in Int /\ p[3] \in Int /\ q[1] \in Int /\ q[2] \in Int /\ q[3] \in Int
      /\ r[1] \in Int /\ r[2] \in Int /\ r[3] \in Int
  BY <1>1, PointType
<1>3. Amid(r[1], p[1], q[1]) /\ Amid(r[2], p[2], q[2]) /\ Amid(r[3], p[3], q[3])
  BY OnStretch
<1>4. \/ p[1] = q[1] /\ p[2] = q[2]
      \/ p[1] = q[1] /\ p[3] = q[3]
      \/ p[2] = q[2] /\ p[3] = q[3]
  BY StraightIs
<1>5. \A i \in {1, 2, 3} : p[i] = q[i] => r[i] = p[i]
  BY <1>2, <1>3, AmidIs
<1>6. Straight(r, p) /\ Straight(r, q)
  <2>1. CASE p[1] = q[1] /\ p[2] = q[2]
    BY <1>5, <2>1, IsStraight
  <2>2. CASE p[1] = q[1] /\ p[3] = q[3]
    BY <1>5, <2>2, IsStraight
  <2>3. CASE p[2] = q[2] /\ p[3] = q[3]
    BY <1>5, <2>3, IsStraight
  <2> QED BY <1>4, <2>1, <2>2, <2>3
<1>7. ASSUME NEW s \in Points
      PROVE  /\ s \in Stretch(r, p) \/ s \in Stretch(r, q) => s \in Stretch(p, q)
             /\ s \in Stretch(p, q) => s \in Stretch(r, p) \/ s \in Stretch(r, q)
  <2>1. s[1] \in Int /\ s[2] \in Int /\ s[3] \in Int
    BY PointType
  <2>2. \A i \in {1, 2, 3} :
          /\ Amid(s[i], r[i], p[i]) \/ Amid(s[i], r[i], q[i]) => Amid(s[i], p[i], q[i])
          /\ Amid(s[i], p[i], q[i]) => Amid(s[i], r[i], p[i]) \/ Amid(s[i], r[i], q[i])
          /\ Amid(s[i], p[i], q[i]) /\ p[i] = q[i] => Amid(s[i], r[i], p[i]) /\ Amid(s[i], r[i], q[i])
    BY <1>2, <1>3, <2>1, AmidIs
  <2>3. /\ s \in Stretch(p, q) <=> Amid(s[1], p[1], q[1]) /\ Amid(s[2], p[2], q[2]) /\ Amid(s[3], p[3], q[3])
        /\ s \in Stretch(r, p) <=> Amid(s[1], r[1], p[1]) /\ Amid(s[2], r[2], p[2]) /\ Amid(s[3], r[3], p[3])
        /\ s \in Stretch(r, q) <=> Amid(s[1], r[1], q[1]) /\ Amid(s[2], r[2], q[2]) /\ Amid(s[3], r[3], q[3])
    BY <1>1, OnStretch
  <2> QED BY <1>4, <2>2, <2>3
<1>8. Stretch(r, p) \subseteq Points /\ Stretch(r, q) \subseteq Points /\ Stretch(p, q) \subseteq Points
  BY <1>1, EndsOn
<1> QED BY <1>1, <1>6, <1>7, <1>8

\* One coordinate of the point a distance toward another.
Pass(x, y, d) == x + (IF y > x THEN d ELSE IF y < x THEN -d ELSE 0)

\* Going some way from one coordinate to another: how far one gets and what
\* one passes.
LEMMA PassIs ==
  ASSUME NEW x \in Int, NEW y \in Int, NEW d \in Nat, d =< Gap(x, y) \/ x = y
  PROVE  /\ Pass(x, y, d) \in Int /\ Amid(Pass(x, y, d), x, y)
         /\ Gap(x, Pass(x, y, d)) = IF x = y THEN 0 ELSE d
         /\ \A z \in Int : Amid(z, x, Pass(x, y, d)) <=> Amid(z, x, y) /\ Gap(x, z) =< d
BY DEF Pass, Gap, Amid

\* Toward goes along each coordinate.
LEMMA TowardIs ==
  ASSUME NEW p \in Points, NEW q \in Points, NEW d \in Nat
  PROVE  /\ Toward(p, q, d) = <<Pass(p[1], q[1], d), Pass(p[2], q[2], d), Pass(p[3], q[3], d)>>
         /\ Toward(p, q, d) \in Points
<1>1. Toward(p, q, d) = <<Pass(p[1], q[1], d), Pass(p[2], q[2], d), Pass(p[3], q[3], d)>>
  BY DEF Toward, Pass
<1> QED BY <1>1, PointType DEF Points, Pass

\* The coordinates of the ends of a straight stretch and of a point on it: all
\* but one are the same.
LEMMA LineHas ==
  ASSUME NEW p \in Points, NEW q \in Points, Straight(p, q), NEW r \in Stretch(p, q)
  PROVE  \E i \in {1, 2, 3} :
           /\ \A j \in {1, 2, 3} \ {i} : p[j] = q[j] /\ r[j] = p[j]
           /\ Amid(r[i], p[i], q[i])
           /\ Length(p, r) = Gap(p[i], r[i]) /\ Length(p, q) = Gap(p[i], q[i])
<1>1. r \in Points
  BY OnStretch
<1>2. \A i \in {1, 2, 3} : p[i] \in Int /\ q[i] \in Int /\ r[i] \in Int /\ Amid(r[i], p[i], q[i])
  BY <1>1, PointType, OnStretch
<1>3. \A i \in {1, 2, 3} : p[i] = q[i] => r[i] = p[i] /\ Gap(p[i], r[i]) = 0 /\ Gap(p[i], q[i]) = 0
  BY <1>2, AmidIs, GapIs
<1>4. \A i \in {1, 2, 3} : Gap(p[i], r[i]) \in Nat /\ Gap(p[i], q[i]) \in Nat
  BY <1>2, GapIs
<1>5. PICK i \in {1, 2, 3} : \A j \in {1, 2, 3} \ {i} : p[j] = q[j]
  BY StraightIs
<1>6. \A j \in {1, 2, 3} \ {i} : p[j] = q[j] /\ r[j] = p[j] /\ Gap(p[j], r[j]) = 0 /\ Gap(p[j], q[j]) = 0
  BY <1>3, <1>5
<1>7. Length(p, r) = Gap(p[i], r[i]) /\ Length(p, q) = Gap(p[i], q[i])
  BY <1>4, <1>6 DEF Length
<1> QED BY <1>2, <1>6, <1>7

\* On a straight stretch, the length between two points is the difference of
\* their distances from its end.
LEMMA LineIs ==
  ASSUME NEW p \in Points, NEW q \in Points, Straight(p, q),
         NEW r \in Stretch(p, q), NEW s \in Stretch(p, q)
  PROVE  Length(r, s) = Gap(Length(p, r), Length(p, s))
<1>1. r \in Points /\ s \in Points
  BY OnStretch
<1>2. \A i \in {1, 2, 3} : p[i] \in Int /\ q[i] \in Int /\ r[i] \in Int /\ s[i] \in Int
                           /\ Amid(r[i], p[i], q[i]) /\ Amid(s[i], p[i], q[i])
  BY <1>1, PointType, OnStretch
<1>3. PICK i \in {1, 2, 3} : \A j \in {1, 2, 3} \ {i} : p[j] = q[j]
  BY StraightIs
<1>4. \A j \in {1, 2, 3} \ {i} : r[j] = p[j] /\ s[j] = p[j]
  BY <1>2, <1>3, AmidIs
<1>5. \A j \in {1, 2, 3} \ {i} : Gap(r[j], s[j]) = 0 /\ Gap(p[j], r[j]) = 0 /\ Gap(p[j], s[j]) = 0
  BY <1>2, <1>4 DEF Gap
<1>6. \A x, y, a, b \in Int : Amid(x, a, b) /\ Amid(y, a, b) => Gap(x, y) = Gap(Gap(a, x), Gap(a, y))
  BY DEF Amid, Gap
<1>7. Gap(r[i], s[i]) = Gap(Gap(p[i], r[i]), Gap(p[i], s[i]))
  BY <1>2, <1>6
<1>8. Gap(r[i], s[i]) \in Nat /\ Gap(p[i], r[i]) \in Nat /\ Gap(p[i], s[i]) \in Nat
  BY <1>2, GapIs
<1>9. Length(r, s) = Gap(r[i], s[i]) /\ Length(p, r) = Gap(p[i], r[i]) /\ Length(p, s) = Gap(p[i], s[i])
  BY <1>5, <1>8 DEF Length
<1> QED BY <1>7, <1>9

\* The point a distance along a straight stretch.
LEMMA TowardOn ==
  ASSUME NEW p \in Points, NEW q \in Points, Straight(p, q), NEW d \in 0..Length(p, q)
  PROVE  /\ Toward(p, q, d) \in Stretch(p, q)
         /\ Length(p, Toward(p, q, d)) = d
<1>1. \A i \in {1, 2, 3} : p[i] \in Int /\ q[i] \in Int /\ Gap(p[i], q[i]) \in Nat
  BY PointType, GapIs
<1>2. PICK i \in {1, 2, 3} : \A j \in {1, 2, 3} \ {i} : p[j] = q[j]
  BY StraightIs
<1>3. \A j \in {1, 2, 3} \ {i} : Gap(p[j], q[j]) = 0
  BY <1>1, <1>2 DEF Gap
<1>4. Length(p, q) = Gap(p[i], q[i])
  BY <1>1, <1>3 DEF Length
<1>5. d \in Nat /\ d =< Gap(p[i], q[i])
  BY <1>1, <1>4
<1>6. PICK t : t = Toward(p, q, d)
  OBVIOUS
<1>7. t \in Points /\ \A j \in {1, 2, 3} : t[j] = Pass(p[j], q[j], d)
  <2>1. t = <<Pass(p[1], q[1], d), Pass(p[2], q[2], d), Pass(p[3], q[3], d)>> /\ t \in Points
    BY <1>5, <1>6, TowardIs
  <2>2. t[1] = Pass(p[1], q[1], d) /\ t[2] = Pass(p[2], q[2], d) /\ t[3] = Pass(p[3], q[3], d)
    BY <2>1
  <2> QED BY <2>1, <2>2
<1>8. \A j \in {1, 2, 3} : d =< Gap(p[j], q[j]) \/ p[j] = q[j]
  BY <1>2, <1>5
<1>9. \A j \in {1, 2, 3} : Amid(t[j], p[j], q[j]) /\ Gap(p[j], t[j]) = IF p[j] = q[j] THEN 0 ELSE d
  <2>1. TAKE j \in {1, 2, 3}
  <2>5. PICK z : z = t[j]
    OBVIOUS
  <2>2. PICK x \in Int, y \in Int : x = p[j] /\ y = q[j] /\ z = t[j]
    BY <1>1, <2>5
  <2>3. z = Pass(x, y, d) /\ (d =< Gap(x, y) \/ x = y)
    BY <1>7, <1>8, <2>2
  <2>4. Amid(z, x, y) /\ Gap(x, z) = IF x = y THEN 0 ELSE d
    BY <1>5, <2>3, PassIs
  <2> QED BY <2>2, <2>4
<1>10. t \in Stretch(p, q)
  BY <1>7, <1>9, OnStretch
<1>11. \A j \in {1, 2, 3} \ {i} : Gap(p[j], t[j]) = 0
  BY <1>2, <1>9
<1>12. Gap(p[i], t[i]) = d
  <2>1. p[i] = q[i] => d = 0
    BY <1>1, <1>5 DEF Gap
  <2> QED BY <1>9, <2>1
<1>13. Length(p, t) = d
  BY <1>5, <1>11, <1>12 DEF Length
<1> QED BY <1>6, <1>10, <1>13

\* A stretch so far along another is the points of that one no farther.
LEMMA AlongIs ==
  ASSUME NEW p \in Points, NEW q \in Points, Straight(p, q), NEW d \in Nat, NEW r
  PROVE  r \in Along(p, q, d) <=> r \in Stretch(p, q) /\ Length(p, r) =< d
<1>1. Length(p, q) \in Nat
  BY LengthType
<1>2. PICK m \in 0..Length(p, q) : m = IF d < Length(p, q) THEN d ELSE Length(p, q)
  BY <1>1
<1>3. Min({d, Length(p, q)}) = m
  BY <1>1, <1>2, MinOfTwo
<1>4. PICK t : t = Toward(p, q, m)
  OBVIOUS
<1>5. t \in Stretch(p, q) /\ Length(p, t) = m /\ t \in Points
  BY <1>4, TowardOn, OnStretch
<1>6. Along(p, q, d) = Stretch(p, t)
  BY <1>3, <1>4 DEF Along
<1>7. Stretch(t, p) \subseteq Stretch(p, q) /\ Stretch(p, t) = Stretch(t, p)
  BY <1>5, PartsOf, StretchSymmetric
<1>8. ASSUME r \in Stretch(p, t) PROVE r \in Stretch(p, q) /\ Length(p, r) =< d
  <2>1. r \in Stretch(p, q) /\ r \in Points
    BY <1>7, <1>8, OnStretch
  <2>2. Length(p, r) + Length(r, t) = m /\ Length(p, r) \in Nat /\ Length(r, t) \in Nat
    BY <1>5, <1>8, <2>1, LengthOn, LengthType
  <2> QED BY <1>1, <1>2, <2>1, <2>2
<1>9. ASSUME r \in Stretch(p, q), Length(p, r) =< d PROVE r \in Stretch(p, t)
  <2>1. r \in Points
    BY <1>9, OnStretch
  <2>2. Length(p, r) \in Nat /\ Length(r, q) \in Nat /\ Length(p, r) + Length(r, q) = Length(p, q)
    BY <1>9, <2>1, LengthOn, LengthType
  <2>3. Length(p, r) =< m
    BY <1>1, <1>2, <1>9, <2>2
  <2>4. r \in Stretch(t, p) \/ r \in Stretch(t, q)
    BY <1>5, <1>9, PartsOf
  <2>5. ASSUME r \in Stretch(t, q) PROVE r = t
    <3>1. Length(t, r) + Length(r, q) = Length(t, q) /\ Length(p, t) + Length(t, q) = Length(p, q)
      BY <1>5, <2>5, LengthOn
    <3>2. Length(t, r) \in Nat /\ Length(t, q) \in Nat
      BY <1>5, <2>1, LengthType
    <3>3. Length(t, r) = 0
      BY <1>1, <1>2, <1>5, <2>2, <2>3, <3>1, <3>2
    <3> QED BY <1>5, <2>1, <3>3, LengthType
  <2>6. t \in Stretch(p, t)
    BY <1>5, EndsOn
  <2> QED BY <1>7, <2>4, <2>5, <2>6
<1> QED BY <1>6, <1>8, <1>9

\* A straight stretch has finitely many points.
LEMMA StretchFinite ==
  ASSUME NEW p \in Points, NEW q \in Points, Straight(p, q)
  PROVE  IsFiniteSet(Stretch(p, q))
<1> DEFINE S == Stretch(p, q)
           f == [r \in S |-> Length(p, r)]
<1>1. \A r \in S : r \in Points
  BY OnStretch
<1>2. \A r \in S : Length(p, r) \in Nat /\ Length(r, q) \in Nat /\ Length(p, r) + Length(r, q) = Length(p, q)
  BY <1>1, LengthOn, LengthType
<1>3. Length(p, q) \in Nat
  BY LengthType
<1>4. f \in [S -> 0..Length(p, q)]
  BY <1>2, <1>3
<1>5. ASSUME NEW r \in S, NEW s \in S, f[r] = f[s] PROVE r = s
  <2>1. Length(r, s) = 0
    BY <1>2, <1>5, LineIs DEF Gap
  <2> QED BY <1>1, <2>1, LengthType
<1>6. f \in Injection(S, 0..Length(p, q))
  BY <1>4, <1>5 DEF Injection, IsInjective
<1>7. IsFiniteSet(0..Length(p, q))
  BY <1>3, FS_Interval
<1> HIDE DEF f
<1> QED BY <1>6, <1>7, FS_Injection

-----------------------------------------------------------------------------
(* Closest and Apart.                                                       *)

\* A point is the closest of a box to itself exactly when it is in it.
LEMMA ClosestIs ==
  ASSUME NEW p \in Points, NEW a \in Points, NEW b \in Points
  PROVE  /\ Closest(p, a, b) \in Points
         /\ Closest(p, a, b) = p <=> p \in Stretch(a, b)
<1> DEFINE clamp(i) == Max({Min({a[i], b[i]}), Min({Max({a[i], b[i]}), p[i]})})
<1>1. \A i \in {1, 2, 3} : p[i] \in Int /\ a[i] \in Int /\ b[i] \in Int
  BY PointType
<1>2. Closest(p, a, b) = <<clamp(1), clamp(2), clamp(3)>>
  BY DEF Closest
<1>3. ASSUME NEW x \in Int, NEW y \in Int, NEW z \in Int
      PROVE  /\ Max({Min({x, y}), Min({Max({x, y}), z})}) \in Int
             /\ Max({Min({x, y}), Min({Max({x, y}), z})}) = z <=> Amid(z, x, y)
  <2>1. PICK low \in Int : low = IF x < y THEN x ELSE y
    OBVIOUS
  <2>2. PICK high \in Int : high = IF x < y THEN y ELSE x
    OBVIOUS
  <2>3. PICK mid \in Int : mid = IF high < z THEN high ELSE z
    OBVIOUS
  <2>4. Min({x, y}) = low /\ Max({x, y}) = high /\ Min({high, z}) = mid
    BY <2>1, <2>2, <2>3, MinOfTwo, MaxOfTwo
  <2>5. Max({low, mid}) = IF low < mid THEN mid ELSE low
    BY MaxOfTwo
  <2> QED BY <2>1, <2>2, <2>3, <2>4, <2>5 DEF Amid
<1>4. \A i \in {1, 2, 3} : clamp(i) \in Int /\ (clamp(i) = p[i] <=> Amid(p[i], a[i], b[i]))
  BY <1>1, <1>3
<1> HIDE DEF clamp
<1>5. Closest(p, a, b) \in Points
  BY <1>2, <1>4 DEF Points
<1>6. Closest(p, a, b) = p <=> \A i \in {1, 2, 3} : clamp(i) = p[i]
  BY <1>2, <1>5, SamePoint
<1> QED BY <1>4, <1>5, <1>6, OnStretch

\* Points are no distance apart exactly when they are the same.
LEMMA ApartIs ==
  ASSUME NEW p \in Points, NEW q \in Points
  PROVE  Apart(p, q) \in Nat /\ (Apart(p, q) = 0 <=> p = q)
<1>1. \A x \in Int : x * x \in Nat /\ (x * x = 0 <=> x = 0)
  OBVIOUS
<1>2. \A i \in {1, 2, 3} : p[i] \in Int /\ q[i] \in Int
  BY PointType
<1>3. PICK x \in Int, y \in Int, z \in Int : x = p[1] - q[1] /\ y = p[2] - q[2] /\ z = p[3] - q[3]
  BY <1>2
<1>4. PICK xx \in Nat, yy \in Nat, zz \in Nat : xx = x * x /\ yy = y * y /\ zz = z * z
  BY <1>1
<1>5. Apart(p, q) = xx + yy + zz
  BY <1>3, <1>4 DEF Apart
<1>6. Apart(p, q) = 0 <=> x = 0 /\ y = 0 /\ z = 0
  BY <1>1, <1>4, <1>5
<1>7. x = 0 /\ y = 0 /\ z = 0 <=> p = q
  BY <1>2, <1>3, SamePoint
<1> QED BY <1>5, <1>6, <1>7

-----------------------------------------------------------------------------
(* Sequences.                                                               *)

Builds(f, V, v0, step, n) == f \in [0..n -> V] /\ f[0] = v0 /\ \A i \in 1..n : f[i] = step[i][f[i - 1]]

\* A function defined by recursion on an initial segment of the naturals exists.
LEMMA Recursion ==
  ASSUME NEW V, NEW v0 \in V, NEW step \in [Nat -> [V -> V]], NEW n \in Nat
  PROVE  \E f : Builds(f, V, v0, step, n)
<1> DEFINE Has(m) == \E f : Builds(f, V, v0, step, m)
           S == {m \in Nat : Has(m)}
<1>1. Has(0)
  <2>1. PICK f : f = [i \in 0..0 |-> v0]
    OBVIOUS
  <2> QED BY <2>1 DEF Builds
<1>2. ASSUME NEW m \in Nat, Has(m) PROVE Has(m + 1)
  <2>1. PICK f : f \in [0..m -> V] /\ f[0] = v0 /\ \A i \in 1..m : f[i] = step[i][f[i - 1]]
    BY <1>2 DEF Builds
  <2>2. PICK v \in V : v = step[m + 1][f[m]]
    BY <2>1
  <2>3. PICK g : g = [i \in 0..(m + 1) |-> IF i = m + 1 THEN v ELSE f[i]]
    OBVIOUS
  <2>4. g \in [0..(m + 1) -> V] /\ g[0] = v0
    BY <2>1, <2>2, <2>3
  <2>5. ASSUME NEW i \in 1..(m + 1) PROVE g[i] = step[i][g[i - 1]]
    <3>1. CASE i = m + 1
      <4>1. g[i] = v /\ g[i - 1] = f[m]
        BY <2>3, <3>1
      <4> QED BY <2>2, <3>1, <4>1
    <3>2. CASE i # m + 1
      <4>1. i \in 1..m /\ g[i] = f[i] /\ g[i - 1] = f[i - 1]
        BY <2>3, <3>2
      <4> QED BY <2>1, <4>1
    <3> QED BY <3>1, <3>2
  <2> QED BY <2>4, <2>5 DEF Builds
<1> HIDE DEF Has
<1>3. 0 \in S /\ \A m \in Nat : m \in S => m + 1 \in S
  BY <1>1, <1>2
<1>4. Nat \subseteq S
  <2> HIDE DEF S
  <2> QED BY <1>3, Induction
<1> QED BY <1>4 DEF Has

\* The loop of FlattenSeq.
Flattened(seqs) ==
  LET flatten[i \in 1..Len(seqs)] == IF i = 1 THEN seqs[i] ELSE flatten[i - 1] \o seqs[i]
  IN flatten

\* FlattenSeq is its recursive function.
LEMMA FlattenIs ==
  ASSUME NEW seqs
  PROVE  FlattenSeq(seqs) = IF Len(seqs) = 0 THEN seqs ELSE Flattened(seqs)[Len(seqs)]
BY DEF FlattenSeq, Flattened

\* There is a function that flattens a sequence of sequences.
LEMMA FlattenedExists ==
  ASSUME NEW X, NEW seqs \in Seq(Seq(X)), Len(seqs) > 0
  PROVE  \E f : f = [i \in 1..Len(seqs) |-> IF i = 1 THEN seqs[i] ELSE f[i - 1] \o seqs[i]]
<1>1. PICK n \in Nat : n = Len(seqs) /\ n > 0 /\ DOMAIN seqs = 1..n
  OBVIOUS
<1>2. PICK V : V = Seq(X)
  OBVIOUS
<1>3. <<>> \in V /\ \A i \in 1..n : seqs[i] \in V
  BY <1>1, <1>2
<1>4. \A s, t \in V : s \o t \in V
  BY <1>2
<1>5. PICK step : step = [i \in Nat |-> [v \in V |-> IF i \in 1..n THEN v \o seqs[i] ELSE v]]
  OBVIOUS
<1>6. step \in [Nat -> [V -> V]]
  BY <1>3, <1>4, <1>5
<1>7. PICK f : f \in [0..n -> V] /\ f[0] = <<>> /\ \A i \in 1..n : f[i] = step[i][f[i - 1]]
  <2>1. PICK v0 \in V : v0 = <<>>
    BY <1>3
  <2>2. \E f : Builds(f, V, v0, step, n)
    BY <1>6, Recursion
  <2> QED BY <2>1, <2>2 DEF Builds
<1>8. \A i \in 1..n : f[i] = f[i - 1] \o seqs[i]
  <2>1. TAKE i \in 1..n
  <2>2. i \in Nat /\ i - 1 \in 0..n
    OBVIOUS
  <2>3. f[i - 1] \in V
    BY <1>7, <2>2
  <2>4. step[i][f[i - 1]] = f[i - 1] \o seqs[i]
    BY <1>5, <2>2, <2>3
  <2> QED BY <1>7, <2>4
<1>9. f[1] = seqs[1]
  <2>1. 1 \in 1..n /\ 1 - 1 = 0
    BY <1>1
  <2>2. f[1] = <<>> \o seqs[1] /\ seqs[1] \in Seq(X)
    BY <1>2, <1>3, <1>7, <1>8, <2>1
  <2> QED BY <2>2
<1>10. PICK g : g = [i \in 1..n |-> f[i]]
  OBVIOUS
<1>11. ASSUME NEW i \in 1..n PROVE g[i] = IF i = 1 THEN seqs[i] ELSE g[i - 1] \o seqs[i]
  <2>1. CASE i = 1
    BY <1>9, <1>10, <2>1
  <2>2. CASE i # 1
    <3>1. i - 1 \in 1..n /\ g[i - 1] = f[i - 1] /\ g[i] = f[i]
      BY <1>10, <2>2
    <3> QED BY <1>8, <2>2, <3>1
  <2> QED BY <2>1, <2>2
<1>12. g = [i \in 1..n |-> g[i]]
  BY <1>10
<1>13. g = [i \in 1..n |-> IF i = 1 THEN seqs[i] ELSE g[i - 1] \o seqs[i]]
  BY <1>11, <1>12
<1> QED BY <1>1, <1>13

\* So the recursive function is that.
LEMMA FlattenedIs ==
  ASSUME NEW X, NEW seqs \in Seq(Seq(X)), Len(seqs) > 0
  PROVE  Flattened(seqs) =
           [i \in 1..Len(seqs) |-> IF i = 1 THEN seqs[i] ELSE Flattened(seqs)[i - 1] \o seqs[i]]
<1>1. \E f : f = [i \in 1..Len(seqs) |-> IF i = 1 THEN seqs[i] ELSE f[i - 1] \o seqs[i]]
  BY FlattenedExists
<1>2. PICK F : F = (CHOOSE f : f = [i \in 1..Len(seqs) |-> IF i = 1 THEN seqs[i] ELSE f[i - 1] \o seqs[i]])
  OBVIOUS
<1>3. F = [i \in 1..Len(seqs) |-> IF i = 1 THEN seqs[i] ELSE F[i - 1] \o seqs[i]]
  BY <1>1, <1>2
<1>4. Flattened(seqs) = F
  BY <1>2 DEF Flattened
<1> QED BY <1>3, <1>4

\* The elements of a sequence, and of two joined.
LEMMA SetIs ==
  ASSUME NEW X, NEW s \in Seq(X)
  PROVE  \A x : x \in ToSet(s) <=> \E i \in 1..Len(s) : x = s[i]
<1>1. DOMAIN s = 1..Len(s)
  OBVIOUS
<1> QED BY <1>1 DEF ToSet

\* What joining two sequences gives.
LEMMA JoinIs ==
  ASSUME NEW X, NEW s \in Seq(X), NEW t \in Seq(X)
  PROVE  /\ s \o t \in Seq(X) /\ Len(s \o t) = Len(s) + Len(t)
         /\ \A x : x \in ToSet(s \o t) <=> x \in ToSet(s) \/ x \in ToSet(t)
<1>1. PICK st, m, n : st = s \o t /\ m = Len(s) /\ n = Len(t)
  OBVIOUS
<1>2. st \in Seq(X) /\ m \in Nat /\ n \in Nat /\ Len(st) = m + n
  BY <1>1
<1>3. \A i \in 1..m : st[i] = s[i]
  BY <1>1, <1>2
<1>4. \A i \in 1..n : st[m + i] = t[i]
  BY <1>1, <1>2
<1>5. ASSUME NEW x, x \in ToSet(st) PROVE x \in ToSet(s) \/ x \in ToSet(t)
  <2>0. \E i \in 1..Len(st) : x = st[i]
    BY <1>2, <1>5, SetIs
  <2>1. PICK i \in 1..(m + n) : x = st[i]
    BY <1>2, <2>0
  <2>2. CASE i =< m
    BY <1>1, <1>2, <1>3, <2>1, <2>2, SetIs
  <2>3. CASE i > m
    <3>1. i - m \in 1..n /\ m + (i - m) = i
      BY <1>2, <2>3
    <3>2. x = t[i - m]
      BY <1>4, <2>1, <3>1
    <3> QED BY <1>1, <1>2, <3>1, <3>2, SetIs
  <2> QED BY <1>2, <2>2, <2>3
<1>6. ASSUME NEW x, x \in ToSet(s) PROVE x \in ToSet(st)
  <2>1. PICK i \in 1..m : x = s[i]
    BY <1>1, <1>2, <1>6, SetIs
  <2>2. i \in 1..(m + n) /\ x = st[i]
    BY <1>2, <1>3, <2>1
  <2> QED BY <1>1, <1>2, <2>2, SetIs
<1>7. ASSUME NEW x, x \in ToSet(t) PROVE x \in ToSet(st)
  <2>1. PICK i \in 1..n : x = t[i]
    BY <1>1, <1>2, <1>7, SetIs
  <2>2. m + i \in 1..(m + n) /\ x = st[m + i]
    BY <1>2, <1>4, <2>1
  <2> QED BY <1>1, <1>2, <2>2, SetIs
<1> QED BY <1>1, <1>2, <1>5, <1>6, <1>7

\* FlattenSeq has the elements of the sequences it is given.
LEMMA FlattenHas ==
  ASSUME NEW X, NEW seqs \in Seq(Seq(X))
  PROVE  /\ FlattenSeq(seqs) \in Seq(X)
         /\ \A x : x \in ToSet(FlattenSeq(seqs)) <=> \E i \in DOMAIN seqs : x \in ToSet(seqs[i])
<1>1. CASE Len(seqs) = 0
  <2>1. FlattenSeq(seqs) = seqs /\ seqs = <<>>
    BY <1>1, FlattenIs
  <2> QED BY <2>1 DEF ToSet
<1>2. CASE Len(seqs) > 0
  <2>1. PICK n \in Nat : n = Len(seqs) /\ n > 0 /\ DOMAIN seqs = 1..n /\ \A i \in 1..n : seqs[i] \in Seq(X)
    BY <1>2
  <2>2. PICK f : f = Flattened(seqs)
    OBVIOUS
  <2>3. f = [i \in 1..n |-> IF i = 1 THEN seqs[i] ELSE f[i - 1] \o seqs[i]]
    BY <1>2, <2>1, <2>2, FlattenedIs
  <2> DEFINE Has(k) == /\ f[k] \in Seq(X)
                       /\ \A x : x \in ToSet(f[k]) <=> \E i \in 1..k : x \in ToSet(seqs[i])
             S == {k \in Nat : k + 1 =< n => Has(k + 1)}
  <2>4. 0 \in S
    <3>1. f[1] = seqs[1]
      BY <2>1, <2>3
    <3> QED BY <2>1, <3>1
  <2>5. ASSUME NEW k \in Nat, k \in S PROVE k + 1 \in S
    <3>1. SUFFICES ASSUME k + 2 =< n PROVE Has(k + 2)
      <4>1. (k + 1) + 1 = k + 2 /\ k + 1 \in Nat
        OBVIOUS
      <4> QED BY <4>1
    <3>2. k + 1 =< n /\ k + 1 \in 1..n /\ k + 2 \in 1..n /\ k + 2 # 1 /\ (k + 2) - 1 = k + 1
      BY <2>1, <3>1
    <3>3. Has(k + 1)
      BY <2>5, <3>2
    <3>4. f[k + 2] = f[k + 1] \o seqs[k + 2]
      BY <2>3, <3>2
    <3>5. PICK s \in Seq(X), t \in Seq(X) : s = f[k + 1] /\ t = seqs[k + 2]
      BY <2>1, <3>2, <3>3
    <3>6. s \o t \in Seq(X) /\ \A x : x \in ToSet(s \o t) <=> x \in ToSet(s) \/ x \in ToSet(t)
      BY JoinIs
    <3>7. 1..(k + 2) = 1..(k + 1) \cup {k + 2}
      OBVIOUS
    <3> QED BY <3>3, <3>4, <3>5, <3>6, <3>7
  <2>6. Nat \subseteq S
    <3> HIDE DEF S
    <3> QED BY <2>4, <2>5, Induction
  <2>7. n - 1 \in Nat /\ (n - 1) + 1 = n
    BY <2>1
  <2>8. n - 1 \in S
    BY <2>6, <2>7
  <2>9. Has(n)
    BY <2>7, <2>8
  <2>10. FlattenSeq(seqs) = f[n]
    BY <1>2, <2>1, <2>2, FlattenIs
  <2> QED BY <2>1, <2>9, <2>10
<1>3. Len(seqs) \in Nat
  OBVIOUS
<1> QED BY <1>1, <1>2, <1>3

\* The place of a sequence that Picked takes its k-th element from.
Place(places, k) == CHOOSE i \in places : Cardinality({j \in places : j < i}) = k - 1

\* Of some places, one has k - 1 of them before it, for each k.
LEMMA PlaceExists ==
  ASSUME NEW m \in Nat
  PROVE  \A S \in SUBSET (1..m) : \A k \in 1..Cardinality(S) :
           \E i \in S : Cardinality({j \in S : j < i}) = k - 1
<1> DEFINE Has(S) == \A k \in 1..Cardinality(S) : \E i \in S : Cardinality({j \in S : j < i}) = k - 1
           R == {n \in Nat : \A S \in SUBSET (1..n) : Has(S)}
<1>1. 0 \in R
  <2>1. \A S \in SUBSET (1..0) : S = {}
    OBVIOUS
  <2>2. \A k \in 1..Cardinality({}) : FALSE
    BY FS_EmptySet
  <2> QED BY <2>1, <2>2
<1>2. ASSUME NEW n \in Nat, n \in R PROVE n + 1 \in R
  <2>1. SUFFICES ASSUME NEW S \in SUBSET (1..(n + 1)) PROVE Has(S)
    OBVIOUS
  <2>2. IsFiniteSet(S)
    <3>1. IsFiniteSet(1..(n + 1))
      BY FS_Interval
    <3> QED BY <2>1, <3>1, FS_Subset
  <2> DEFINE T == S \ {n + 1}
  <2>3. T \in SUBSET (1..n)
    OBVIOUS
  <2>4. Has(T)
    BY <1>2, <2>3
  <2>5. CASE n + 1 \notin S
    <3>1. T = S
      BY <2>5
    <3> QED BY <2>4, <3>1
  <2>6. CASE n + 1 \in S
    <3>1. Cardinality(T) = Cardinality(S) - 1 /\ Cardinality(S) \in Nat
      BY <2>2, <2>6, FS_RemoveElement, FS_CardinalityType
    <3>2. {j \in S : j < n + 1} = T
      <4>1. \A j \in S : j \in 1..(n + 1)
        BY <2>1
      <4>2. \A j \in S : j < n + 1 <=> j # n + 1
        BY <4>1
      <4> QED BY <4>2
    <3>3. \A i \in T : {j \in S : j < i} = {j \in T : j < i}
      BY <2>1
    <3> HIDE DEF T
    <3>4. ASSUME NEW k \in 1..Cardinality(S)
          PROVE  \E i \in S : Cardinality({j \in S : j < i}) = k - 1
      <4>1. CASE k = Cardinality(S)
        BY <2>6, <3>1, <3>2, <4>1
      <4>2. CASE k # Cardinality(S)
        <5>1. k \in 1..Cardinality(T)
          BY <3>1, <4>2
        <5>2. PICK i \in T : Cardinality({j \in T : j < i}) = k - 1
          BY <2>4, <5>1
        <5>3. i \in S /\ Cardinality({j \in S : j < i}) = k - 1
          BY <3>3, <5>2 DEF T
        <5> QED BY <5>3
      <4> QED BY <4>1, <4>2
    <3> QED BY <3>4
  <2> QED BY <2>5, <2>6
<1>3. Nat \subseteq R
  <2> HIDE DEF R
  <2> QED BY <1>1, <1>2, Induction
<1> QED BY <1>3

\* Each of some places is taken once, in order.
LEMMA PlaceIs ==
  ASSUME NEW m \in Nat, NEW S \in SUBSET (1..m)
  PROVE  /\ Cardinality(S) \in Nat
         /\ \A k \in 1..Cardinality(S) : Place(S, k) \in S /\ Cardinality({j \in S : j < Place(S, k)}) = k - 1
         /\ \A i \in S : \E k \in 1..Cardinality(S) : Place(S, k) = i
<1>1. IsFiniteSet(S) /\ Cardinality(S) \in Nat
  <2>1. IsFiniteSet(1..m)
    BY FS_Interval
  <2> QED BY <2>1, FS_Subset, FS_CardinalityType
<1>2. ASSUME NEW k \in 1..Cardinality(S)
      PROVE  Place(S, k) \in S /\ Cardinality({j \in S : j < Place(S, k)}) = k - 1
  <2>1. \E i \in S : Cardinality({j \in S : j < i}) = k - 1
    BY PlaceExists
  <2> QED BY <2>1 DEF Place
<1>3. ASSUME NEW i \in S PROVE \E k \in 1..Cardinality(S) : Place(S, k) = i
  <2> DEFINE B(x) == {j \in S : j < x}
  <2>1. \A x \in S : IsFiniteSet(B(x)) /\ Cardinality(B(x)) \in Nat
    BY <1>1, FS_Subset, FS_CardinalityType
  <2>2. ASSUME NEW x \in S, NEW y \in S, x < y PROVE Cardinality(B(x)) < Cardinality(B(y))
    <3>1. x \in Nat /\ y \in Nat /\ \A j \in S : j \in Nat
      OBVIOUS
    <3>2. x \in B(y) /\ x \notin B(x) /\ B(x) \in SUBSET B(y)
      <4>1. \A j \in S : j < x => j < y
        BY <2>2, <3>1
      <4>2. ~ (x < x)
        BY <3>1
      <4>3. \A j : j \in B(x) => j \in B(y)
        BY <4>1
      <4> QED BY <2>2, <4>2, <4>3
    <3>3. Cardinality(B(x)) =< Cardinality(B(y)) /\ Cardinality(B(x)) # Cardinality(B(y))
      <4> HIDE DEF B
      <4> QED BY <2>1, <3>2, FS_Subset
    <3> QED BY <2>1, <3>3
  <2>3. Cardinality(B(i)) < Cardinality(S)
    <3>1. B(i) \in SUBSET S /\ i \notin B(i)
      OBVIOUS
    <3>2. Cardinality(B(i)) =< Cardinality(S) /\ Cardinality(B(i)) # Cardinality(S)
      <4> HIDE DEF B
      <4> QED BY <1>1, <3>1, FS_Subset
    <3> QED BY <1>1, <2>1, <3>2
  <2>4. PICK k \in 1..Cardinality(S) : Cardinality(B(i)) = k - 1
    <3>1. Cardinality(B(i)) + 1 \in 1..Cardinality(S) /\ Cardinality(B(i)) = (Cardinality(B(i)) + 1) - 1
      BY <1>1, <2>1, <2>3
    <3> QED BY <3>1
  <2>5. Place(S, k) \in S /\ Cardinality(B(Place(S, k))) = k - 1
    BY <1>2
  <2>6. Place(S, k) = i
    <3>1. PICK x \in S : x = Place(S, k)
      BY <2>5
    <3>2. Cardinality(B(x)) = Cardinality(B(i))
      BY <2>4, <2>5, <3>1
    <3>3. ~ (x < i) /\ ~ (i < x)
      BY <2>1, <2>2, <3>2
    <3> QED BY <3>1, <3>3
  <2> QED BY <2>6
<1> QED BY <1>1, <1>2, <1>3

\* What Picked takes.
LEMMA PickedIs ==
  ASSUME NEW X, NEW s \in Seq(X), NEW S \in SUBSET (1..Len(s))
  PROVE  /\ Picked(s, S) \in Seq(X)
         /\ Len(Picked(s, S)) = Cardinality(S) /\ Cardinality(S) \in Nat
         /\ \A k \in 1..Cardinality(S) : Place(S, k) \in S /\ Picked(s, S)[k] = s[Place(S, k)]
         /\ \A x : x \in ToSet(Picked(s, S)) <=> \E i \in S : x = s[i]
<1>1. Len(s) \in Nat /\ \A i \in 1..Len(s) : s[i] \in X
  OBVIOUS
<1>2. PICK c \in Nat : c = Cardinality(S)
  BY <1>1, PlaceIs
<1>3. /\ \A k \in 1..c : Place(S, k) \in S
      /\ \A i \in S : \E k \in 1..c : Place(S, k) = i
  BY <1>1, <1>2, PlaceIs
<1>4. PICK p : p = Picked(s, S)
  OBVIOUS
<1>5. p = [k \in 1..c |-> s[Place(S, k)]]
  BY <1>2, <1>4 DEF Picked, Place
<1>6. \A k \in 1..c : p[k] \in X
  BY <1>1, <1>3, <1>5
<1>7. p \in Seq(X) /\ Len(p) = c
  BY <1>5, <1>6
<1>8. \A x : x \in ToSet(p) <=> \E k \in 1..c : x = p[k]
  BY <1>5 DEF ToSet
<1>9. \A x : x \in ToSet(p) <=> \E i \in S : x = s[i]
  BY <1>3, <1>5, <1>8
<1> QED BY <1>2, <1>3, <1>4, <1>5, <1>7, <1>9

\* Distinct keeps each element once.
LEMMA DistinctIs ==
  ASSUME NEW X, NEW s \in Seq(X)
  PROVE  /\ Distinct(s) \in Seq(X)
         /\ ToSet(Distinct(s)) = ToSet(s)
         /\ \A k, l \in 1..Len(Distinct(s)) : Distinct(s)[k] = Distinct(s)[l] => k = l
<1> DEFINE S == {i \in DOMAIN s : \A j \in 1..(i - 1) : s[j] # s[i]}
<1>1. DOMAIN s = 1..Len(s) /\ Len(s) \in Nat
  OBVIOUS
<1>2. S \in SUBSET (1..Len(s))
  BY <1>1
<1>3. Distinct(s) = Picked(s, S)
  BY DEF Distinct
<1>4. \A i, j \in S : s[i] = s[j] => i = j
  <2>1. SUFFICES ASSUME NEW i \in S, NEW j \in S, i < j PROVE s[i] # s[j]
    BY <1>2
  <2> QED BY <1>2, <2>1
<1>5. \A i \in 1..Len(s) : \E j \in S : s[j] = s[i]
  <2>1. TAKE i \in 1..Len(s)
  <2>2. PICK E : E = {n \in 1..Len(s) : s[n] = s[i]}
    OBVIOUS
  <2>3. PICK n \in E : \A x \in E : n =< x
    <3>1. E \subseteq Nat /\ E # {}
      BY <2>2
    <3> QED BY <3>1, LeastOf
  <2>4. \A j \in 1..(n - 1) : s[j] # s[n]
    BY <1>1, <2>2, <2>3
  <2> QED BY <1>1, <2>2, <2>3, <2>4
<1> HIDE DEF S
<1>6. PICK p : p = Picked(s, S)
  OBVIOUS
<1>7. /\ p \in Seq(X) /\ Len(p) = Cardinality(S)
      /\ \A k \in 1..Cardinality(S) : Place(S, k) \in S /\ p[k] = s[Place(S, k)]
      /\ \A x : x \in ToSet(p) <=> \E i \in S : x = s[i]
  BY <1>2, <1>6, PickedIs
<1>8. ToSet(p) = ToSet(s)
  <2>1. \A x : x \in ToSet(s) <=> \E i \in 1..Len(s) : x = s[i]
    BY SetIs
  <2>2. \A i \in S : i \in 1..Len(s)
    BY ONLY <1>2
  <2>3. \A x : x \in ToSet(p) <=> x \in ToSet(s)
    <3>1. ASSUME NEW x, x \in ToSet(p) PROVE x \in ToSet(s)
      <4>1. PICK i \in S : x = s[i]
        BY <1>7, <3>1
      <4> QED BY <2>1, <2>2, <4>1
    <3>2. ASSUME NEW x, x \in ToSet(s) PROVE x \in ToSet(p)
      <4>1. PICK i \in 1..Len(s) : x = s[i]
        BY <2>1, <3>2
      <4>2. PICK j \in S : s[j] = s[i]
        BY <1>5, <4>1
      <4> QED BY <1>7, <4>1, <4>2
    <3> QED BY <3>1, <3>2
  <2> QED BY <2>3
<1>9. \A k, l \in 1..Len(p) : p[k] = p[l] => k = l
  <2>1. SUFFICES ASSUME NEW k \in 1..Len(p), NEW l \in 1..Len(p), p[k] = p[l] PROVE k = l
    OBVIOUS
  <2>2. Place(S, k) = Place(S, l)
    BY <1>4, <1>7, <2>1
  <2>3. Cardinality({j \in S : j < Place(S, k)}) = k - 1 /\ Cardinality({j \in S : j < Place(S, l)}) = l - 1
    BY <1>1, <1>2, <1>7, PlaceIs
  <2>4. k - 1 = l - 1
    BY <2>2, <2>3
  <2>5. k \in Int /\ l \in Int
    OBVIOUS
  <2> QED BY <2>4, <2>5
<1> QED BY <1>3, <1>6, <1>7, <1>8, <1>9

-----------------------------------------------------------------------------
(* The network of a mine.                                                   *)

Tunnels == [kind : Kinds, path : Seq(Points)]

\* A leg is a pair and a sequence of its two ends.
LEMMA PairIs ==
  ASSUME NEW l \in Points \X Points
  PROVE  /\ l = <<l[1], l[2]>> /\ l[1] \in Points /\ l[2] \in Points
         /\ l \in Seq(Points) /\ ToSet(l) = {l[1], l[2]}
<1>1. PICK a \in Points, b \in Points : l = <<a, b>>
  OBVIOUS
<1>2. l \in Seq(Points) /\ Len(l) = 2 /\ l[1] = a /\ l[2] = b
  BY <1>1
<1>3. \A x : x \in ToSet(l) <=> \E i \in 1..2 : x = l[i]
  BY <1>2, SetIs
<1>4. \A x : x \in ToSet(l) <=> x = l[1] \/ x = l[2]
  <2>1. 1 \in 1..2 /\ 2 \in 1..2 /\ \A i \in 1..2 : i = 1 \/ i = 2
    OBVIOUS
  <2> QED BY <1>3, <2>1
<1> QED BY <1>1, <1>2, <1>4

\* The legs of tunnels lead from each point of a path to the next.
LEMMA LegsAre ==
  ASSUME NEW ts \in Seq(Tunnels), \A t \in DOMAIN ts : Len(ts[t].path) >= 2
  PROVE  /\ Legs(ts) \in Seq(Points \X Points)
         /\ \A l : l \in ToSet(Legs(ts)) <=>
              \E t \in DOMAIN ts : \E i \in 1..(Len(ts[t].path) - 1) : l = <<ts[t].path[i], ts[t].path[i + 1]>>
<1> DEFINE of(t) == [i \in 1..(Len(ts[t].path) - 1) |-> <<ts[t].path[i], ts[t].path[i + 1]>>]
           seqs  == [t \in DOMAIN ts |-> of(t)]
<1>1. DOMAIN ts = 1..Len(ts) /\ Len(ts) \in Nat
  OBVIOUS
<1>2. ASSUME NEW t \in DOMAIN ts
      PROVE  /\ of(t) \in Seq(Points \X Points)
             /\ \A l : l \in ToSet(of(t)) <=> \E i \in 1..(Len(ts[t].path) - 1) : l = <<ts[t].path[i], ts[t].path[i + 1]>>
  <2>1. PICK path, n : path = ts[t].path /\ n = Len(path) - 1
    OBVIOUS
  <2>2. path \in Seq(Points) /\ Len(path) >= 2
    <3>1. ts[t] \in Tunnels
      BY <1>1
    <3> QED BY <2>1, <3>1 DEF Tunnels
  <2>3. n \in Nat /\ n + 1 = Len(path)
    BY <2>1, <2>2
  <2>4. \A i \in 1..n : path[i] \in Points /\ path[i + 1] \in Points
    BY <2>2, <2>3
  <2>5. PICK s : s = [i \in 1..n |-> <<path[i], path[i + 1]>>]
    OBVIOUS
  <2>6. \A i \in 1..n : s[i] \in Points \X Points
    BY <2>4, <2>5
  <2>7. s \in Seq(Points \X Points) /\ Len(s) = n
    BY <2>3, <2>5, <2>6
  <2>8. \A l : l \in ToSet(s) <=> \E i \in 1..n : l = <<path[i], path[i + 1]>>
    BY <2>5 DEF ToSet
  <2>9. of(t) = s
    BY <2>1, <2>5
  <2> QED BY <2>1, <2>7, <2>8, <2>9
<1>3. Legs(ts) = FlattenSeq(seqs)
  BY DEF Legs
<1> HIDE DEF of
<1>4. PICK X : X = Points \X Points
  OBVIOUS
<1>5. \A t \in DOMAIN ts : of(t) \in Seq(X)
  BY <1>2, <1>4
<1>6. PICK s : s = seqs
  OBVIOUS
<1>7. s \in Seq(Seq(X)) /\ DOMAIN s = DOMAIN ts /\ \A t \in DOMAIN ts : s[t] = of(t)
  BY <1>1, <1>5, <1>6
<1>8. FlattenSeq(s) \in Seq(X) /\ \A l : l \in ToSet(FlattenSeq(s)) <=> \E t \in DOMAIN s : l \in ToSet(s[t])
  BY <1>7, FlattenHas
<1>9. Legs(ts) = FlattenSeq(s)
  BY <1>3, <1>6
<1>10. \A l : l \in ToSet(Legs(ts)) <=> \E t \in DOMAIN ts : l \in ToSet(of(t))
  BY <1>7, <1>8, <1>9
<1> QED BY <1>2, <1>4, <1>8, <1>9, <1>10

\* The vertices of tunnels are the ends of their legs, each once.
LEMMA VerticesAre ==
  ASSUME NEW ts \in Seq(Tunnels), \A t \in DOMAIN ts : Len(ts[t].path) >= 2
  PROVE  /\ Vertices(ts) \in Seq(Points)
         /\ \A p : p \in ToSet(Vertices(ts)) <=> \E l \in ToSet(Legs(ts)) : p = l[1] \/ p = l[2]
         /\ \A k, l \in 1..Len(Vertices(ts)) : Vertices(ts)[k] = Vertices(ts)[l] => k = l
<1>1. PICK legs \in Seq(Points \X Points) : legs = Legs(ts)
  BY LegsAre
<1>2. DOMAIN legs = 1..Len(legs) /\ Len(legs) \in Nat /\ \A i \in DOMAIN legs : legs[i] \in Points \X Points
  OBVIOUS
<1>3. \A i \in DOMAIN legs : legs[i] \in Seq(Points) /\ ToSet(legs[i]) = {legs[i][1], legs[i][2]}
  BY <1>2, PairIs
<1>4. legs \in Seq(Seq(Points))
  BY <1>2, <1>3
<1>5. PICK all : all = FlattenSeq(legs)
  OBVIOUS
<1>6. all \in Seq(Points) /\ \A p : p \in ToSet(all) <=> \E i \in DOMAIN legs : p \in ToSet(legs[i])
  BY <1>4, <1>5, FlattenHas
<1>7. \A l : l \in ToSet(legs) <=> \E i \in DOMAIN legs : l = legs[i]
  BY DEF ToSet
<1>8. \A p : p \in ToSet(all) <=> \E l \in ToSet(legs) : p = l[1] \/ p = l[2]
  BY <1>3, <1>6, <1>7
<1>9. Vertices(ts) = Distinct(all)
  BY <1>1, <1>5 DEF Vertices
<1> QED BY <1>1, <1>6, <1>8, <1>9, DistinctIs

\* The legs that meet at a point, each from there.
LEMMA MeetingIs ==
  ASSUME NEW legs \in Seq(Points \X Points), NEW p \in Points
  PROVE  /\ Meeting(legs, p) \in Seq(Points \X Points)
         /\ \A l : l \in ToSet(Meeting(legs, p)) <=>
              \E q \in Points : /\ l = <<p, q>> /\ p # q
                                /\ <<p, q>> \in ToSet(legs) \/ <<q, p>> \in ToSet(legs)
<1> DEFINE S == {i \in DOMAIN legs : legs[i][1] # legs[i][2] /\ p \in ToSet(legs[i])}
<1>1. DOMAIN legs = 1..Len(legs) /\ Len(legs) \in Nat
  OBVIOUS
<1>2. S \in SUBSET (1..Len(legs))
  BY <1>1
<1>3. PICK X : X = Points \X Points
  OBVIOUS
<1>4. PICK meet : meet = Picked(legs, S)
  OBVIOUS
<1>5. meet \in Seq(X) /\ \A l : l \in ToSet(meet) <=> \E i \in S : l = legs[i]
  <2> HIDE DEF S
  <2> QED BY <1>2, <1>3, <1>4, PickedIs
<1>6. \A l : l \in ToSet(legs) <=> \E i \in DOMAIN legs : l = legs[i]
  BY DEF ToSet
<1>7. \A l : l \in ToSet(meet) <=> l \in ToSet(legs) /\ l[1] # l[2] /\ p \in ToSet(l)
  BY <1>5, <1>6
<1>8. \A l \in ToSet(legs) : l \in Points \X Points
  BY <1>1, <1>6
<1>9. PICK out : out = [k \in DOMAIN meet |-> IF meet[k][1] = p THEN meet[k] ELSE <<p, meet[k][1]>>]
  OBVIOUS
<1>10. out = Meeting(legs, p)
  BY <1>4, <1>9 DEF Meeting
<1>11. DOMAIN meet = 1..Len(meet) /\ Len(meet) \in Nat /\ \A k \in DOMAIN meet : meet[k] \in ToSet(meet)
  BY <1>5 DEF ToSet
<1>12. ASSUME NEW l \in ToSet(meet)
       PROVE  /\ l \in Points \X Points /\ l = <<l[1], l[2]>> /\ l[1] \in Points /\ l[2] \in Points
              /\ l[1] # l[2] /\ (p = l[1] \/ p = l[2]) /\ l \in ToSet(legs)
  <2>1. l \in ToSet(legs) /\ l[1] # l[2] /\ p \in ToSet(l) /\ l \in Points \X Points
    BY <1>7, <1>8
  <2> QED BY <2>1, PairIs
<1>13. \A k \in DOMAIN meet : out[k] \in Points \X Points
  BY <1>9, <1>11, <1>12
<1>14. out \in Seq(Points \X Points)
  BY <1>9, <1>11, <1>13
<1>15. ASSUME NEW l, l \in ToSet(out)
       PROVE  \E q \in Points : /\ l = <<p, q>> /\ p # q
                                /\ <<p, q>> \in ToSet(legs) \/ <<q, p>> \in ToSet(legs)
  <2>1. PICK k \in DOMAIN meet : l = out[k]
    BY <1>9, <1>15 DEF ToSet
  <2>2. PICK m \in ToSet(meet) : m = meet[k]
    BY <1>11
  <2>3. CASE m[1] = p
    BY <1>9, <1>12, <2>1, <2>2, <2>3
  <2>4. CASE m[1] # p
    BY <1>9, <1>12, <2>1, <2>2, <2>4
  <2> QED BY <2>3, <2>4
<1>16. ASSUME NEW q \in Points, p # q, <<p, q>> \in ToSet(legs) \/ <<q, p>> \in ToSet(legs)
       PROVE  <<p, q>> \in ToSet(out)
  <2>1. \A a, b \in Points : ToSet(<<a, b>>) = {a, b}
    <3>1. TAKE a, b \in Points
    <3>2. PICK l \in Points \X Points : l = <<a, b>>
      OBVIOUS
    <3> QED BY <3>2, PairIs
  <2>2. CASE <<p, q>> \in ToSet(legs)
    <3>1. <<p, q>> \in ToSet(meet)
      BY <1>7, <1>16, <2>1, <2>2
    <3>2. PICK k \in DOMAIN meet : <<p, q>> = meet[k]
      BY <3>1 DEF ToSet
    <3>3. out[k] = <<p, q>>
      BY <1>9, <3>2
    <3> QED BY <1>9, <3>3 DEF ToSet
  <2>3. CASE <<q, p>> \in ToSet(legs)
    <3>1. <<q, p>> \in ToSet(meet)
      BY <1>7, <1>16, <2>1, <2>3
    <3>2. PICK k \in DOMAIN meet : <<q, p>> = meet[k]
      BY <3>1 DEF ToSet
    <3>3. out[k] = <<p, q>>
      BY <1>9, <1>16, <3>2
    <3> QED BY <1>9, <3>3 DEF ToSet
  <2> QED BY <1>16, <2>2, <2>3
<1> QED BY <1>10, <1>14, <1>15, <1>16

P(n) == graph.points[n]
Leg(n, e) == Stretch(P(n), P(e.to))

\* A network of straight legs that meet at their nodes alone, each travelled
\* either way.
NodesSound ==
  /\ graph.points \in Seq(Points) /\ Len(graph.points) > 0
  /\ \A n, m \in Nodes : P(n) = P(m) => n = m
EdgesTyped ==
  /\ DOMAIN graph.edges = Nodes
  /\ \A n \in Nodes : graph.edges[n] \in Seq([to : Nodes, length : Nat])
EdgesStraight ==
  \A n \in Nodes : \A e \in EdgesOf(graph, n) :
    /\ e.to \in Nodes /\ e.to # n
    /\ Straight(P(n), P(e.to)) /\ e.length = Length(P(n), P(e.to))
    /\ Len(graph.points) * e.length < Far
    /\ \E f \in EdgesOf(graph, e.to) : f.to = n
EdgesMeet ==
  \A n, u \in Nodes : \A e \in EdgesOf(graph, n) :
    /\ P(u) \in Leg(n, e) => u = n \/ u = e.to
    /\ \A f \in EdgesOf(graph, u) : \A x \in Leg(n, e) \cap Leg(u, f) :
         \/ u = n /\ f.to = e.to
         \/ u = e.to /\ f.to = n
         \/ (x = P(n) \/ x = P(e.to)) /\ (x = P(u) \/ x = P(f.to))
Sound == NodesSound /\ EdgesTyped /\ EdgesStraight /\ EdgesMeet

\* A function on the first numbers is a sequence.
LEMMA SeqIs ==
  ASSUME NEW X, NEW d \in Nat, NEW f \in [1..d -> X]
  PROVE  f \in Seq(X) /\ Len(f) = d
OBVIOUS

\* The layouts considered, and the tunnels one walks in them.
LEMMA LayoutsAre ==
  ASSUME NEW mine \in Layouts
  PROVE  /\ mine \in Seq(Tunnels) /\ \A t \in DOMAIN mine : Len(mine[t].path) >= 2
         /\ WalkableOf(mine) \in Seq(Tunnels)
         /\ \A x : x \in ToSet(WalkableOf(mine)) <=> \E t \in DOMAIN mine : Walkable(mine[t]) /\ x = mine[t]
         /\ \A t \in DOMAIN WalkableOf(mine) : Len(WalkableOf(mine)[t].path) >= 2
         /\ WalkableOf(mine) # <<>>
<1> DEFINE S == {t \in DOMAIN mine : Walkable(mine[t])}
<1>1. /\ mine \in Seq(Tunnels) /\ \A t \in DOMAIN mine : Len(mine[t].path) >= 2
      /\ \E t \in DOMAIN mine : Walkable(mine[t])
  BY NetworkAssumption DEF Tunnels, Points
<1>2. DOMAIN mine = 1..Len(mine) /\ Len(mine) \in Nat
  BY <1>1
<1>3. S \in SUBSET (1..Len(mine))
  BY <1>2
<1>4. PICK w : w = WalkableOf(mine) /\ w = Picked(mine, S)
  BY DEF WalkableOf
<1>5. w \in Seq(Tunnels) /\ \A x : x \in ToSet(w) <=> \E t \in S : x = mine[t]
  <2> HIDE DEF S
  <2> QED BY <1>1, <1>3, <1>4, PickedIs
<1>6. \A t \in DOMAIN w : w[t] \in ToSet(w)
  BY DEF ToSet
<1>7. \A t \in DOMAIN w : Len(w[t].path) >= 2
  BY <1>1, <1>5, <1>6
<1>8. w # <<>>
  <2>1. PICK x : x \in ToSet(w)
    BY <1>1, <1>5
  <2> QED BY <2>1 DEF ToSet
<1> QED BY <1>1, <1>4, <1>5, <1>7, <1>8

\* The legs of a mine that are walked.
LEMMA WalkedLegs ==
  ASSUME NEW mine \in Layouts
  PROVE  \A l \in ToSet(Legs(WalkableOf(mine))) :
           /\ l \in Points \X Points
           /\ Straight(l[1], l[2])
           /\ Len(Vertices(WalkableOf(mine))) * Length(l[1], l[2]) < Far
           /\ \A k \in ToSet(Legs(WalkableOf(mine))) : \A x \in Points :
                x \in Stretch(l[1], l[2]) /\ x \in Stretch(k[1], k[2]) /\ k # l =>
                  (x = l[1] \/ x = l[2]) /\ (x = k[1] \/ x = k[2])
<1>1. PICK w \in Seq(Tunnels) : w = WalkableOf(mine) /\ \A t \in DOMAIN w : Len(w[t].path) >= 2
  BY LayoutsAre
<1>2. PICK legs : legs = Legs(w)
  OBVIOUS
<1>3. legs \in Seq(Points \X Points)
  BY <1>1, <1>2, LegsAre
<1>4. \A l \in ToSet(legs) :
            /\ Straight(l[1], l[2])
            /\ Len(Vertices(w)) * Length(l[1], l[2]) < Far
            /\ \A k \in ToSet(legs) \ {l} :
                 Stretch(l[1], l[2]) \cap Stretch(k[1], k[2]) \subseteq ToSet(l) \cap ToSet(k)
  BY <1>1, <1>2, NetworkAssumption
<1>5. \A l \in ToSet(legs) : l \in Points \X Points /\ ToSet(l) = {l[1], l[2]}
  <2>1. \A i \in DOMAIN legs : legs[i] \in Points \X Points
    BY <1>3
  <2>2. \A l \in ToSet(legs) : l \in Points \X Points
    BY <2>1 DEF ToSet
  <2> QED BY <2>2, PairIs
<1>6. ASSUME NEW l \in ToSet(legs), NEW k \in ToSet(legs), NEW x \in Points,
             x \in Stretch(l[1], l[2]), x \in Stretch(k[1], k[2]), k # l
      PROVE  (x = l[1] \/ x = l[2]) /\ (x = k[1] \/ x = k[2])
  <2>1. x \in ToSet(l) /\ x \in ToSet(k)
    BY <1>4, <1>6
  <2> QED BY <1>5, <2>1
<1> QED BY <1>1, <1>2, <1>4, <1>5, <1>6

\* NewGraph makes a sound network: nodes are points, each once, legs run along
\* axes, lead back, and meet at nodes alone.
LEMMA GraphIsSound ==
  ASSUME tunnels \in Layouts, graph = NewGraph(WalkableOf(tunnels))
  PROVE  /\ Sound
         /\ graph.points = Vertices(WalkableOf(tunnels))
         /\ \A n \in Nodes : \A e \in EdgesOf(graph, n) :
              LET legs == ToSet(Legs(WalkableOf(tunnels)))
              IN <<P(n), P(e.to)>> \in legs \/ <<P(e.to), P(n)>> \in legs
<1>1. PICK w \in Seq(Tunnels) : w = WalkableOf(tunnels) /\ w # <<>> /\ \A t \in DOMAIN w : Len(w[t].path) >= 2
  BY LayoutsAre
<1>2. PICK legs \in Seq(Points \X Points) : legs = Legs(w)
  BY <1>1, LegsAre
<1>3. PICK points \in Seq(Points) : points = Vertices(w)
  BY <1>1, VerticesAre
<1>4. /\ \A p : p \in ToSet(points) <=> \E l \in ToSet(legs) : p = l[1] \/ p = l[2]
      /\ \A k, l \in 1..Len(points) : points[k] = points[l] => k = l
  BY <1>1, <1>2, <1>3, VerticesAre
<1>5. DOMAIN points = 1..Len(points) /\ Len(points) \in Nat /\ \A n \in DOMAIN points : points[n] \in Points
  OBVIOUS
<1>6. PICK meet : meet = [n \in DOMAIN points |-> Meeting(legs, points[n])]
  OBVIOUS
<1>7. PICK edges : edges = [n \in DOMAIN points |->
                     [k \in DOMAIN meet[n] |->
                        [to     |-> CHOOSE m \in DOMAIN points : points[m] = meet[n][k][2],
                         length |-> Length(meet[n][k][1], meet[n][k][2])]]]
  OBVIOUS
<1>8. graph = [points |-> points, edges |-> edges]
  BY <1>1, <1>2, <1>3, <1>6, <1>7 DEF NewGraph
<1>9. graph.points = points /\ graph.edges = edges /\ Nodes = DOMAIN points /\ Nodes = 1..Len(points)
  BY <1>5, <1>8 DEF Nodes, NodesOf
<1>10. \A p : p \in ToSet(points) <=> \E n \in Nodes : p = points[n]
  BY <1>9 DEF ToSet
<1>11. \A l \in ToSet(legs) :
           /\ l \in Points \X Points
           /\ Straight(l[1], l[2])
           /\ Len(points) * Length(l[1], l[2]) < Far
           /\ \A k \in ToSet(legs) : \A x \in Points :
                x \in Stretch(l[1], l[2]) /\ x \in Stretch(k[1], k[2]) /\ k # l =>
                  (x = l[1] \/ x = l[2]) /\ (x = k[1] \/ x = k[2])
  BY <1>1, <1>2, <1>3, WalkedLegs
<1>12. ASSUME NEW n \in Nodes
       PROVE  /\ meet[n] \in Seq(Points \X Points)
              /\ \A l : l \in ToSet(meet[n]) <=>
                   \E q \in Points : /\ l = <<points[n], q>> /\ points[n] # q
                                     /\ <<points[n], q>> \in ToSet(legs) \/ <<q, points[n]>> \in ToSet(legs)
  <2>1. points[n] \in Points /\ meet[n] = Meeting(legs, points[n])
    BY <1>5, <1>6, <1>9
  <2>2. PICK p \in Points : p = points[n]
    BY <2>1
  <2>3. /\ Meeting(legs, p) \in Seq(Points \X Points)
        /\ \A l : l \in ToSet(Meeting(legs, p)) <=>
             \E q \in Points : /\ l = <<p, q>> /\ p # q
                               /\ <<p, q>> \in ToSet(legs) \/ <<q, p>> \in ToSet(legs)
    BY MeetingIs
  <2> QED BY ONLY <2>1, <2>2, <2>3
<1>13. ASSUME NEW n \in Nodes, NEW q \in Points, <<points[n], q>> \in ToSet(legs) \/ <<q, points[n]>> \in ToSet(legs)
       PROVE  \E m \in Nodes : points[m] = q
  <2>1. \A a, b \in Points : <<a, b>>[1] = a /\ <<a, b>>[2] = b
    OBVIOUS
  <2>2. q \in ToSet(points)
    BY <1>4, <1>5, <1>9, <1>13, <2>1
  <2> QED BY <1>10, <2>2
<1>14. ASSUME NEW n \in Nodes
       PROVE  /\ edges[n] \in Seq([to : Nodes, length : Nat])
              /\ \A e : e \in ToSet(edges[n]) <=>
                   \E m \in Nodes : /\ e = [to |-> m, length |-> Length(points[n], points[m])] /\ m # n
                                    /\ <<points[n], points[m]>> \in ToSet(legs) \/ <<points[m], points[n]>> \in ToSet(legs)
  <2>1. DOMAIN meet[n] = 1..Len(meet[n]) /\ Len(meet[n]) \in Nat
    BY <1>12
  <2>2. ASSUME NEW k \in DOMAIN meet[n]
        PROVE  \E m \in Nodes : /\ edges[n][k] = [to |-> m, length |-> Length(points[n], points[m])] /\ m # n
                                /\ meet[n][k] = <<points[n], points[m]>>
                                /\ <<points[n], points[m]>> \in ToSet(legs) \/ <<points[m], points[n]>> \in ToSet(legs)
    <3>1. meet[n][k] \in ToSet(meet[n])
      BY DEF ToSet
    <3>2. PICK q \in Points : /\ meet[n][k] = <<points[n], q>> /\ points[n] # q
                              /\ <<points[n], q>> \in ToSet(legs) \/ <<q, points[n]>> \in ToSet(legs)
      BY <1>12, <3>1
    <3>3. PICK m \in Nodes : points[m] = q
      BY <1>13, <3>2
    <3>4. (CHOOSE x \in DOMAIN points : points[x] = meet[n][k][2]) = m
      BY <1>4, <1>5, <1>9, <3>2, <3>3
    <3>5. edges[n][k] = [to     |-> CHOOSE x \in DOMAIN points : points[x] = meet[n][k][2],
                         length |-> Length(meet[n][k][1], meet[n][k][2])]
      BY <1>7, <1>9
    <3>6. meet[n][k][1] = points[n] /\ meet[n][k][2] = points[m]
      BY <3>2, <3>3
    <3> QED BY <3>2, <3>3, <3>4, <3>5, <3>6
  <2>3. DOMAIN edges[n] = 1..Len(meet[n])
    BY <1>7, <1>9, <2>1
  <2>4. ASSUME NEW m \in Nodes, m # n,
               <<points[n], points[m]>> \in ToSet(legs) \/ <<points[m], points[n]>> \in ToSet(legs)
        PROVE  [to |-> m, length |-> Length(points[n], points[m])] \in ToSet(edges[n])
    <3>1. points[n] # points[m] /\ points[m] \in Points
      BY <1>4, <1>5, <1>9, <2>4
    <3>2. <<points[n], points[m]>> \in ToSet(meet[n])
      BY <1>12, <2>4, <3>1
    <3>3. PICK k \in DOMAIN meet[n] : meet[n][k] = <<points[n], points[m]>>
      BY <3>2 DEF ToSet
    <3>4. PICK x \in Nodes : edges[n][k] = [to |-> x, length |-> Length(points[n], points[x])]
                             /\ meet[n][k] = <<points[n], points[x]>>
      BY <2>2
    <3>5. x = m
      <4>1. points[x] = points[m]
        BY <3>3, <3>4
      <4> QED BY <1>4, <1>9, <4>1
    <3> QED BY <2>1, <2>3, <3>4, <3>5 DEF ToSet
  <2>5. ASSUME NEW k \in 1..Len(meet[n]) PROVE edges[n][k] \in [to : Nodes, length : Nat]
    <3>1. PICK m \in Nodes : edges[n][k] = [to |-> m, length |-> Length(points[n], points[m])]
      BY <2>1, <2>2
    <3>2. Length(points[n], points[m]) \in Nat
      BY <1>5, <1>9, LengthType
    <3> QED BY <3>1, <3>2
  <2>6. edges[n] \in Seq([to : Nodes, length : Nat])
    <3>1. PICK s, X, d : s = edges[n] /\ X = [to : Nodes, length : Nat] /\ d = Len(meet[n])
      OBVIOUS
    <3>2. s = [k \in DOMAIN meet[n] |->
                 [to     |-> CHOOSE m \in DOMAIN points : points[m] = meet[n][k][2],
                  length |-> Length(meet[n][k][1], meet[n][k][2])]]
      BY <1>7, <1>9, <3>1
    <3>3. s = [k \in DOMAIN meet[n] |-> s[k]]
      BY <3>2
    <3>4. d \in Nat /\ s = [k \in 1..d |-> s[k]] /\ \A k \in 1..d : s[k] \in X
      BY <2>1, <2>5, <3>1, <3>3
    <3>5. s \in Seq(X)
      <4>1. s \in [1..d -> X]
        BY <3>4
      <4> QED BY <3>4, <4>1, SeqIs
    <3> QED BY <3>1, <3>5
  <2>7. ASSUME NEW e, e \in ToSet(edges[n])
        PROVE  \E m \in Nodes : /\ e = [to |-> m, length |-> Length(points[n], points[m])] /\ m # n
                                /\ <<points[n], points[m]>> \in ToSet(legs) \/ <<points[m], points[n]>> \in ToSet(legs)
    <3>1. PICK k \in DOMAIN meet[n] : e = edges[n][k]
      BY <2>1, <2>3, <2>7 DEF ToSet
    <3> QED BY <2>2, <3>1
  <2> QED BY <2>4, <2>6, <2>7
<1>15. NodesSound
  <2>1. PICK t : t \in DOMAIN w
    <3>1. DOMAIN w = 1..Len(w) /\ Len(w) \in Nat
      OBVIOUS
    <3>2. Len(w) # 0
      BY <1>1
    <3>3. 1 \in 1..Len(w)
      BY <3>1, <3>2
    <3> QED BY <3>1, <3>3
  <2>2. Len(w[t].path) >= 2
    BY <1>1, <2>1
  <2>3. w[t].path \in Seq(Points)
    <3>1. w[t] \in Tunnels
      BY <2>1
    <3> QED BY <3>1 DEF Tunnels
  <2>4. 1 \in 1..(Len(w[t].path) - 1)
    BY <2>2, <2>3
  <2>5. <<w[t].path[1], w[t].path[2]>> \in ToSet(legs)
    <3>1. <<w[t].path[1], w[t].path[1 + 1]>> \in ToSet(Legs(w))
      BY <1>1, <2>1, <2>4, LegsAre
    <3> QED BY <1>2, <3>1
  <2>6. \E p : p \in ToSet(points)
    BY <1>4, <2>5
  <2>7. Len(points) > 0
    BY <1>5, <1>9, <1>10, <2>6
  <2> QED BY <1>4, <1>9, <2>7 DEF NodesSound, P
<1>16. EdgesTyped
  BY <1>7, <1>9, <1>14 DEF EdgesTyped
<1>17. ASSUME NEW n \in Nodes, NEW e \in EdgesOf(graph, n)
       PROVE  /\ e.to \in Nodes /\ e.to # n /\ e.length = Length(points[n], points[e.to])
              /\ points[n] \in Points /\ points[e.to] \in Points
              /\ <<points[n], points[e.to]>> \in ToSet(legs) \/ <<points[e.to], points[n]>> \in ToSet(legs)
  <2>1. e \in ToSet(edges[n])
    BY <1>9 DEF EdgesOf
  <2>2. PICK m \in Nodes : /\ e = [to |-> m, length |-> Length(points[n], points[m])] /\ m # n
                           /\ <<points[n], points[m]>> \in ToSet(legs) \/ <<points[m], points[n]>> \in ToSet(legs)
    BY <1>14, <2>1
  <2> QED BY <1>5, <1>9, <2>2
<1>18. ASSUME NEW a \in Points, NEW b \in Points, <<a, b>> \in ToSet(legs)
       PROVE  /\ Straight(a, b) /\ Straight(b, a) /\ Len(points) * Length(a, b) < Far
              /\ \A l \in ToSet(legs) : \A x \in Points :
                   x \in Stretch(a, b) /\ x \in Stretch(l[1], l[2]) /\ l # <<a, b>> =>
                     (x = a \/ x = b) /\ (x = l[1] \/ x = l[2])
  <2>1. PICK l \in ToSet(legs) : l = <<a, b>> /\ l[1] = a /\ l[2] = b
    BY <1>18
  <2>2. Straight(a, b) => Straight(b, a)
    BY DEF Straight
  <2> QED BY <1>11, <2>1, <2>2
<1>19. EdgesStraight
  <2>1. SUFFICES ASSUME NEW n \in Nodes, NEW e \in EdgesOf(graph, n)
                 PROVE  /\ Straight(points[n], points[e.to])
                        /\ Len(points) * e.length < Far
                        /\ \E f \in EdgesOf(graph, e.to) : f.to = n
    <3>1. \A n \in Nodes : \A e \in EdgesOf(graph, n) :
            e.to \in Nodes /\ e.to # n /\ e.length = Length(points[n], points[e.to])
      BY <1>17
    <3> QED BY <1>9, <3>1 DEF EdgesStraight, P
  <2>2. /\ e.to \in Nodes /\ e.to # n /\ e.length = Length(points[n], points[e.to])
        /\ points[n] \in Points /\ points[e.to] \in Points
        /\ <<points[n], points[e.to]>> \in ToSet(legs) \/ <<points[e.to], points[n]>> \in ToSet(legs)
    BY <1>17
  <2>3. Length(points[n], points[e.to]) = Length(points[e.to], points[n])
    BY <2>2, LengthType
  <2>4. Straight(points[n], points[e.to]) /\ Len(points) * e.length < Far
    <3>1. CASE <<points[n], points[e.to]>> \in ToSet(legs)
      BY <1>18, <2>2, <3>1
    <3>2. CASE <<points[e.to], points[n]>> \in ToSet(legs)
      BY <1>18, <2>2, <2>3, <3>2
    <3> QED BY <2>2, <3>1, <3>2
  <2>5. PICK m \in Nodes : m = e.to
    BY <2>2
  <2>6. PICK f : f = [to |-> n, length |-> Length(points[m], points[n])]
    OBVIOUS
  <2>7. f \in ToSet(edges[m])
    BY <1>14, <2>2, <2>5, <2>6
  <2>8. f \in EdgesOf(graph, e.to) /\ f.to = n
    BY <1>9, <2>5, <2>6, <2>7 DEF EdgesOf
  <2> QED BY <2>4, <2>8
<1>20. EdgesMeet
  <2>1. ASSUME NEW n \in Nodes, NEW e \in EdgesOf(graph, n)
        PROVE  \E l \in ToSet(legs) :
                 /\ l = <<points[n], points[e.to]>> \/ l = <<points[e.to], points[n]>>
                 /\ Stretch(points[n], points[e.to]) = Stretch(l[1], l[2])
                 /\ points[n] \in Points /\ points[e.to] \in Points /\ e.to \in Nodes
    <3>1. /\ points[n] \in Points /\ points[e.to] \in Points /\ e.to \in Nodes
          /\ <<points[n], points[e.to]>> \in ToSet(legs) \/ <<points[e.to], points[n]>> \in ToSet(legs)
      BY <1>17
    <3>2. Stretch(points[n], points[e.to]) = Stretch(points[e.to], points[n])
      BY <3>1, StretchSymmetric
    <3> QED BY <3>1, <3>2
  <2>2. ASSUME NEW n \in Nodes, NEW u \in Nodes, NEW e \in EdgesOf(graph, n), P(u) \in Leg(n, e)
        PROVE  u = n \/ u = e.to
    <3>1. PICK l \in ToSet(legs) :
                 /\ l = <<points[n], points[e.to]>> \/ l = <<points[e.to], points[n]>>
                 /\ Stretch(points[n], points[e.to]) = Stretch(l[1], l[2])
                 /\ points[n] \in Points /\ points[e.to] \in Points /\ e.to \in Nodes
      BY <2>1
    <3>2. points[u] \in Stretch(l[1], l[2]) /\ points[u] \in Points
      BY <1>5, <1>9, <2>2, <3>1 DEF P, Leg
    <3>3. PICK k \in ToSet(legs) : points[u] = k[1] \/ points[u] = k[2]
      BY <1>4, <1>10
    <3>4. k \in Points \X Points
      BY <1>11
    <3>5. points[u] \in Stretch(k[1], k[2])
      BY <3>3, <3>4, PairIs, EndsOn
    <3>6. points[u] = l[1] \/ points[u] = l[2]
      BY <1>11, <3>2, <3>3, <3>5
    <3>7. points[u] = points[n] \/ points[u] = points[e.to]
      BY <3>1, <3>6
    <3> QED BY <1>4, <1>9, <3>1, <3>7
  <2>3. ASSUME NEW n \in Nodes, NEW u \in Nodes, NEW e \in EdgesOf(graph, n), NEW f \in EdgesOf(graph, u),
               NEW x, x \in Leg(n, e), x \in Leg(u, f)
        PROVE  \/ u = n /\ f.to = e.to
               \/ u = e.to /\ f.to = n
               \/ (x = P(n) \/ x = P(e.to)) /\ (x = P(u) \/ x = P(f.to))
    <3>1. PICK l \in ToSet(legs) :
                 /\ l = <<points[n], points[e.to]>> \/ l = <<points[e.to], points[n]>>
                 /\ Stretch(points[n], points[e.to]) = Stretch(l[1], l[2])
                 /\ points[n] \in Points /\ points[e.to] \in Points /\ e.to \in Nodes
      BY <2>1
    <3>2. PICK k \in ToSet(legs) :
                 /\ k = <<points[u], points[f.to]>> \/ k = <<points[f.to], points[u]>>
                 /\ Stretch(points[u], points[f.to]) = Stretch(k[1], k[2])
                 /\ points[u] \in Points /\ points[f.to] \in Points /\ f.to \in Nodes
      BY <2>1
    <3>3. x \in Stretch(l[1], l[2]) /\ x \in Stretch(k[1], k[2])
      BY <1>9, <2>3, <3>1, <3>2 DEF P, Leg
    <3>4. x \in Points
      BY <1>9, <2>3, <3>1, EndsOn DEF P, Leg
    <3>5. CASE k = l
      <4>1. \/ points[n] = points[u] /\ points[e.to] = points[f.to]
            \/ points[n] = points[f.to] /\ points[e.to] = points[u]
        BY <3>1, <3>2, <3>5
      <4> QED BY <1>4, <1>9, <3>1, <3>2, <4>1
    <3>6. CASE k # l
      <4>1. (x = l[1] \/ x = l[2]) /\ (x = k[1] \/ x = k[2])
        BY <1>11, <3>3, <3>4, <3>6
      <4> QED BY <1>9, <3>1, <3>2, <4>1 DEF P
    <3> QED BY <3>5, <3>6
  <2> QED BY <2>2, <2>3 DEF EdgesMeet
<1>21. \A n \in Nodes : \A e \in EdgesOf(graph, n) :
         <<P(n), P(e.to)>> \in ToSet(legs) \/ <<P(e.to), P(n)>> \in ToSet(legs)
  BY <1>9, <1>17 DEF P
<1> QED BY <1>1, <1>2, <1>3, <1>9, <1>15, <1>16, <1>19, <1>20, <1>21 DEF Sound

\* The least of some naturals.
LEMMA MinIs ==
  ASSUME NEW S, S \subseteq Nat, S # {}
  PROVE  Min(S) \in S /\ \A x \in S : Min(S) =< x
<1>1. \E n \in S : \A x \in S : n =< x
  BY LeastOf
<1> QED BY <1>1 DEF Min

-----------------------------------------------------------------------------
(* The searches.                                                            *)

\* No leg is longer than this, so that no route is as long as Far.
Longest_leg == (Far - 1) \div Len(graph.points)

Distances == [Nodes -> Nat]
Previous  == [Nodes -> Nodes \cup {None}]

\* How a node's distance came about: by a leg from the node before it.
TracedBy(distance, previous, from, m) ==
  IF distance[m] = Far THEN previous[m] = None
  ELSE \/ m = from
       \/ /\ previous[m] \in Nodes /\ distance[previous[m]] # Far
          /\ \E e \in EdgesOf(graph, previous[m]) : e.to = m /\ distance[m] = distance[previous[m]] + e.length

Rooted(r, from) ==
  /\ r.distance \in Distances /\ r.previous \in Previous
  /\ r.distance[from] = 0 /\ r.previous[from] = None
  /\ \A m \in Nodes : TracedBy(r.distance, r.previous, from, m)

\* The search going on: the nodes done are the nearest, and have passed on
\* what they know.
Searching(s) ==
  /\ s \in [from : Nodes, done : SUBSET Nodes, distance : Distances, previous : Previous]
  /\ Rooted(s, s.from)
  /\ \A n \in Nodes : /\ s.distance[n] # Far => s.distance[n] =< Cardinality(s.done) * Longest_leg
                      /\ s.previous[n] \in s.done \cup {None}
  /\ \A n \in s.done :
       /\ s.distance[n] # Far
       /\ \A e \in EdgesOf(graph, n) : s.distance[e.to] # Far /\ s.distance[e.to] =< s.distance[n] + e.length
       /\ \A m \in Nodes \ s.done : s.distance[n] =< s.distance[m]
SearchSound == Searching(search)

\* A search done.
Found(r, from) ==
  /\ Rooted(r, from)
  /\ \A n \in Nodes : r.distance[n] # Far =>
       /\ r.distance[n] < Far
       /\ \A e \in EdgesOf(graph, n) : r.distance[e.to] # Far /\ r.distance[e.to] =< r.distance[n] + e.length

RoutesSound ==
  /\ routes \in Seq([distance : Distances, previous : Previous])
  /\ Len(routes) =< Cardinality(Nodes)
  /\ Len(routes) < Cardinality(Nodes) => search.from = Len(routes) + 1
  /\ \A k \in 1..Len(routes) : Found(routes[k], k)

NetworkSound ==
  /\ tunnels \in Layouts /\ graph = NewGraph(WalkableOf(tunnels))
  /\ SearchSound /\ RoutesSound

\* Far is a number.
LEMMA FarIs == Far \in Nat /\ Far > 0
BY SMT DEF Far

\* The nodes of a sound network.
LEMMA NodesAre ==
  ASSUME Sound
  PROVE  /\ Nodes = 1..Len(graph.points) /\ Len(graph.points) \in Nat /\ Len(graph.points) > 0
         /\ Cardinality(Nodes) = Len(graph.points) /\ IsFiniteSet(Nodes)
         /\ \A n \in Nodes : P(n) \in Points
<1>1. Nodes = 1..Len(graph.points) /\ Len(graph.points) \in Nat /\ Len(graph.points) > 0
  BY DEF Sound, NodesSound, Nodes, NodesOf
<1>2. Cardinality(1..Len(graph.points)) = Len(graph.points) /\ IsFiniteSet(1..Len(graph.points))
  BY <1>1, FS_Interval
<1>3. \A n \in Nodes : P(n) \in Points
  BY <1>1 DEF Sound, NodesSound, P
<1> QED BY <1>1, <1>2, <1>3

\* A quotient is a natural.
LEMMA Quotient ==
  ASSUME NEW f \in Nat, NEW n \in Nat, n > 0
  PROVE  f \div n \in Nat
OBVIOUS

\* A quotient falls short of what was divided.
LEMMA QuotientBelow ==
  ASSUME NEW f \in Nat, NEW n \in Nat, n > 0
  PROVE  n * (f \div n) =< f
OBVIOUS

\* A product no more than a number has its factor no more than the quotient.
LEMMA QuotientMost ==
  ASSUME NEW f \in Nat, NEW n \in Nat, n > 0, NEW d \in Nat, n * d =< f
  PROVE  d =< f \div n
<1>1. PICK q \in Nat : q = f \div n
  BY Quotient
<1>2. f < n * q + n
  BY <1>1
<1>3. CASE q + 1 =< d
  <2>1. n * (q + 1) =< n * d
    BY <1>3
  <2>2. n * (q + 1) = n * q + n
    OBVIOUS
  <2>3. PICK x \in Nat, y \in Nat : x = n * q /\ y = n * d
    OBVIOUS
  <2> QED BY <1>2, <2>1, <2>2, <2>3
<1> QED BY <1>1, <1>3

\* Every leg is as long as the longest at most, and no way is as long as Far.
LEMMA LongestLeg ==
  ASSUME Sound
  PROVE  /\ Longest_leg \in Nat /\ Len(graph.points) * Longest_leg < Far
         /\ \A n \in Nodes : \A e \in EdgesOf(graph, n) :
              /\ e.to \in Nodes /\ e.to # n
              /\ e.length \in Nat /\ 1 =< e.length /\ e.length =< Longest_leg
<1>1. PICK N \in Nat : N = Len(graph.points) /\ N > 0
  BY NodesAre
<1>2. PICK F \in Nat : F = Far - 1 /\ F < Far
  BY FarIs
<1>3. PICK L \in Nat : L = F \div N
  BY <1>1, Quotient
<1>4. N * L =< F
  BY <1>1, <1>3, QuotientBelow
<1>5. ASSUME NEW n \in Nodes, NEW e \in EdgesOf(graph, n)
      PROVE  e.to \in Nodes /\ e.to # n /\ e.length \in Nat /\ 1 =< e.length /\ e.length =< L
  <2>1. e.to \in Nodes /\ e.to # n /\ e.length = Length(P(n), P(e.to)) /\ N * e.length < Far
    BY <1>1 DEF Sound, EdgesStraight
  <2>2. P(n) \in Points /\ P(e.to) \in Points /\ P(n) # P(e.to)
    BY <2>1, NodesAre DEF Sound, NodesSound
  <2>3. PICK d \in Nat : d = e.length /\ d # 0
    BY <2>1, <2>2, LengthType
  <2>4. PICK Nd \in Nat : Nd = N * d
    BY <1>1
  <2>5. Nd =< F
    BY <1>2, <2>1, <2>3, <2>4, FarIs
  <2>6. d =< L
    BY <1>1, <1>3, <2>4, <2>5, QuotientMost
  <2> QED BY <2>1, <2>3, <2>6
<1>6. Longest_leg = L
  BY <1>1, <1>2, <1>3 DEF Longest_leg
<1>7. N * L < Far
  <2>1. PICK NL \in Nat : NL = N * L
    BY <1>1
  <2> QED BY <1>2, <1>4, <2>1, FarIs
<1> QED BY <1>1, <1>5, <1>6, <1>7

\* The search begins.
LEMMA FromSearches ==
  ASSUME Sound, NEW n \in Nodes, NEW s, s = From(n)
  PROVE  Searching(s)
<1>1. /\ s.from = n /\ s.done = {}
      /\ s.distance = [m \in Nodes |-> IF m = n THEN 0 ELSE Far]
      /\ s.previous = [m \in Nodes |-> None]
  BY DEF From
<1>2. s.distance \in Distances /\ s.previous \in Previous
  BY <1>1, FarIs DEF Distances, Previous, None
<1>3. \A m \in Nodes : TracedBy(s.distance, s.previous, n, m)
  BY <1>1 DEF TracedBy
<1>4. Rooted(s, n)
  BY <1>1, <1>2, <1>3 DEF Rooted
<1>6. s \in [from : Nodes, done : SUBSET Nodes, distance : Distances, previous : Previous]
  BY <1>1, <1>2 DEF From
<1>5. Cardinality({}) = 0 /\ 0 * Longest_leg = 0
  BY FS_EmptySet, LongestLeg
<1> QED BY <1>1, <1>4, <1>5, <1>6 DEF Searching

\* A search begins sound.
LEMMA FromIs ==
  ASSUME Sound, NEW n \in Nodes, search = From(n)
  PROVE  SearchSound
BY FromSearches DEF SearchSound

\* The node settled next is open, and none that is open is nearer.
LEMMA CurrentIs ==
  ASSUME Sound, SearchSound, Open # {}
  PROVE  Current \in Open /\ \A m \in Open : search.distance[Current] =< search.distance[m]
<1>1. PICK dist : dist = search.distance
  OBVIOUS
<1>2. dist \in [Nodes -> Nat] /\ Open \subseteq Nodes
  BY <1>1 DEF SearchSound, Searching, Rooted, Distances, Open
<1>3. PICK D : D = {dist[n] : n \in Open}
  OBVIOUS
<1>4. D \subseteq Nat /\ D # {}
  BY <1>2, <1>3
<1>5. PICK d \in D : \A x \in D : d =< x
  BY <1>4, LeastOf
<1>6. PICK E : E = {n \in Open : dist[n] = d}
  OBVIOUS
<1>7. E \subseteq Nat /\ E # {}
  BY <1>2, <1>3, <1>5, <1>6, NodesAre
<1>8. PICK c \in E : \A n \in E : c =< n
  BY <1>7, LeastOf
<1>9. c \in Open /\ \A m \in Open : dist[c] < dist[m] \/ (dist[c] = dist[m] /\ c =< m)
  <2>1. SUFFICES ASSUME NEW m \in Open PROVE dist[c] < dist[m] \/ (dist[c] = dist[m] /\ c =< m)
    BY <1>6
  <2>2. dist[c] = d /\ d =< dist[m] /\ d \in Nat /\ dist[m] \in Nat
    BY <1>2, <1>3, <1>4, <1>5, <1>6
  <2>3. CASE dist[m] = d
    BY <1>6, <1>8, <2>2, <2>3
  <2> QED BY <2>2, <2>3
<1>10. \E n \in Open : \A m \in Open : search.distance[n] < search.distance[m] \/ (search.distance[n] = search.distance[m] /\ n =< m)
  BY <1>1, <1>9
<1>11. Current \in Open /\ \A m \in Open : search.distance[Current] < search.distance[m] \/ (search.distance[Current] = search.distance[m] /\ Current =< m)
  BY <1>10 DEF Current
<1> QED BY <1>1, <1>2, <1>11

\* What the ways through the node being settled come to.
LEMMA WaysAre ==
  ASSUME Sound, SearchSound, Open # {}, NEW m \in Nodes
  PROVE  LET d == IF Shorter(m) THEN Min(Ways(m)) ELSE search.distance[m]
         IN /\ d \in Nat /\ d =< search.distance[m]
            /\ Shorter(m) => \E e \in EdgesOf(graph, Current) :
                               e.to = m /\ d = search.distance[Current] + e.length /\ d < search.distance[m]
            /\ \A e \in EdgesOf(graph, Current) : e.to = m => d =< search.distance[Current] + e.length
<1>1. Current \in Nodes
  BY CurrentIs DEF Open
<1>2. PICK c \in Nat : c = search.distance[Current]
  BY <1>1 DEF SearchSound, Searching, Rooted, Distances
<1>3. PICK x \in Nat : x = search.distance[m]
  BY DEF SearchSound, Searching, Rooted, Distances
<1>4. PICK W : W = Ways(m)
  OBVIOUS
<1>5. \A w : w \in W <=> \E e \in EdgesOf(graph, Current) : e.to = m /\ w = c + e.length
  BY <1>2, <1>4 DEF Ways
<1>6. W \subseteq Nat
  BY <1>1, <1>2, <1>5, LongestLeg
<1>7. CASE Shorter(m)
  <2>1. PICK w \in W : w < x
    BY <1>3, <1>4, <1>7 DEF Shorter
  <2>2. Min(W) \in W /\ \A v \in W : Min(W) =< v
    BY <1>6, <2>1, MinIs
  <2>3. Min(W) < x /\ Min(W) \in Nat
    <3>1. w \in Nat /\ Min(W) \in Nat /\ Min(W) =< w
      BY <1>6, <2>1, <2>2
    <3> QED BY <2>1, <3>1
  <2>4. \E e \in EdgesOf(graph, Current) : e.to = m /\ Min(W) = c + e.length
    BY <1>5, <2>2
  <2>5. \A e \in EdgesOf(graph, Current) : e.to = m => Min(W) =< c + e.length
    BY <1>5, <2>2
  <2> QED BY <1>2, <1>3, <1>4, <1>7, <2>3, <2>4, <2>5
<1>8. CASE ~Shorter(m)
  <2>1. \A w \in W : ~ (w < x)
    BY <1>3, <1>4, <1>8 DEF Shorter
  <2>2. \A w \in W : x =< w
    BY <1>6, <2>1
  <2>3. \A e \in EdgesOf(graph, Current) : e.to = m => x =< c + e.length
    BY <1>5, <2>2
  <2> QED BY <1>2, <1>3, <1>8, <2>3
<1> QED BY <1>7, <1>8

\* Settling the nearest node keeps the search sound.
LEMMA SettleKeeps ==
  ASSUME Sound, SearchSound, Open # {},
         NEW s,
         s = [search EXCEPT
                !.done = @ \cup {Current},
                !.distance = [m \in Nodes |-> IF Shorter(m) THEN Min(Ways(m)) ELSE @[m]],
                !.previous = [m \in Nodes |-> IF Shorter(m) THEN Current ELSE @[m]]]
  PROVE  Searching(s)
<1>1. PICK c : c = Current
  OBVIOUS
<1>2. PICK from, done, old, before : from = search.from /\ done = search.done /\ old = search.distance /\ before = search.previous
  OBVIOUS
<1>3. /\ search \in [from : Nodes, done : SUBSET Nodes, distance : Distances, previous : Previous]
      /\ from \in Nodes /\ done \in SUBSET Nodes /\ old \in [Nodes -> Nat] /\ before \in [Nodes -> Nodes \cup {None}]
      /\ old[from] = 0 /\ before[from] = None
      /\ \A m \in Nodes : TracedBy(old, before, from, m)
      /\ \A n \in Nodes : old[n] # Far => old[n] =< Cardinality(done) * Longest_leg
      /\ \A n \in Nodes : before[n] \in done \cup {None}
      /\ \A n \in done :
           /\ old[n] # Far
           /\ \A e \in EdgesOf(graph, n) : old[e.to] # Far /\ old[e.to] =< old[n] + e.length
           /\ \A m \in Nodes \ done : old[n] =< old[m]
  BY <1>2 DEF SearchSound, Searching, Rooted, Distances, Previous
<1>4. /\ c \in Nodes /\ c \notin done /\ old[c] # Far
      /\ \A m \in Nodes \ done : old[m] # Far => old[c] =< old[m]
  BY <1>1, <1>2, CurrentIs DEF Open
<1>5. PICK new : new = [m \in Nodes |-> IF Shorter(m) THEN Min(Ways(m)) ELSE old[m]]
  OBVIOUS
<1>6. PICK prev : prev = [m \in Nodes |-> IF Shorter(m) THEN c ELSE before[m]]
  OBVIOUS
<1>7. \A m \in Nodes :
        /\ new[m] \in Nat /\ new[m] =< old[m]
        /\ Shorter(m) => /\ prev[m] = c /\ new[m] < old[m]
                         /\ \E e \in EdgesOf(graph, c) : e.to = m /\ new[m] = old[c] + e.length
        /\ ~Shorter(m) => prev[m] = before[m] /\ new[m] = old[m]
        /\ \A e \in EdgesOf(graph, c) : e.to = m => new[m] =< old[c] + e.length
  <2>1. TAKE m \in Nodes
  <2>2. PICK d : d = new[m]
    OBVIOUS
  <2>3. d = IF Shorter(m) THEN Min(Ways(m)) ELSE search.distance[m]
    BY <1>2, <1>5, <2>2
  <2>4. /\ d \in Nat /\ d =< old[m]
        /\ Shorter(m) => \E e \in EdgesOf(graph, c) : e.to = m /\ d = old[c] + e.length /\ d < old[m]
        /\ \A e \in EdgesOf(graph, c) : e.to = m => d =< old[c] + e.length
    BY <1>1, <1>2, <2>3, WaysAre
  <2> QED BY <1>2, <1>5, <1>6, <2>2, <2>3, <2>4
<1>8. /\ s = [from |-> from, done |-> done \cup {c}, distance |-> new, previous |-> prev]
      /\ s.from = from /\ s.done = done \cup {c} /\ s.distance = new /\ s.previous = prev
  BY <1>1, <1>2, <1>3, <1>5, <1>6
<1>9. new \in Distances /\ prev \in Previous
  BY <1>3, <1>4, <1>5, <1>6, <1>7 DEF Distances, Previous
<1>10. /\ Longest_leg \in Nat /\ Far \in Nat
       /\ \A n \in Nodes : \A e \in EdgesOf(graph, n) :
            /\ e.to \in Nodes /\ e.to # n
            /\ e.length \in Nat /\ 1 =< e.length /\ e.length =< Longest_leg
  BY LongestLeg, FarIs
<1>11. \A n \in done \cup {c} : new[n] = old[n] /\ prev[n] = before[n] /\ old[n] =< old[c] /\ ~Shorter(n) /\ old[n] # Far
  <2>1. SUFFICES ASSUME NEW n \in done \cup {c}
                 PROVE  ~Shorter(n) /\ old[n] =< old[c] /\ old[n] # Far
    BY <1>3, <1>4, <1>7
  <2>2. n \in Nodes /\ old[n] =< old[c] /\ old[n] \in Nat /\ old[c] \in Nat /\ old[n] # Far
    BY <1>3, <1>4
  <2>3. ASSUME Shorter(n) PROVE FALSE
    <3>1. PICK e \in EdgesOf(graph, c) : new[n] = old[c] + e.length /\ new[n] < old[n]
      BY <1>7, <2>2, <2>3
    <3>2. e.length \in Nat
      BY <1>4, <1>10
    <3> QED BY <2>2, <3>1, <3>2
  <2> QED BY <2>2, <2>3
<1>12. \A m \in Nodes \ (done \cup {c}) : old[c] =< new[m]
  <2>1. TAKE m \in Nodes \ (done \cup {c})
  <2>2. CASE Shorter(m)
    <3>1. PICK e \in EdgesOf(graph, c) : new[m] = old[c] + e.length
      BY <1>7, <2>2
    <3>2. e.length \in Nat /\ old[c] \in Nat
      BY <1>3, <1>4, <1>10
    <3> QED BY <3>1, <3>2
  <2>3. CASE ~Shorter(m) /\ old[m] # Far
    BY <1>4, <1>7, <2>3
  <2>4. CASE ~Shorter(m) /\ old[m] = Far
    <3>1. PICK N \in Nat, k \in Nat : N = Cardinality(Nodes) /\ k = Cardinality(done) /\ k =< N /\ N = Len(graph.points)
      BY <1>3, NodesAre, FS_Subset, FS_CardinalityType
    <3>2. PICK L \in Nat : L = Longest_leg
      BY <1>10
    <3>3. old[c] =< k * L /\ N * L < Far /\ old[c] \in Nat
      BY <1>3, <1>4, <3>1, <3>2, LongestLeg
    <3>4. k * L =< N * L
      BY <3>1
    <3>5. PICK x \in Nat, y \in Nat : x = k * L /\ y = N * L
      OBVIOUS
    <3>6. old[c] =< Far
      BY <1>10, <3>3, <3>4, <3>5
    <3> QED BY <1>7, <2>4, <3>6
  <2> QED BY <2>2, <2>3, <2>4
<1>13. \A e \in EdgesOf(graph, c) : old[c] + e.length < Far
  <2>1. TAKE e \in EdgesOf(graph, c)
  <2>2. PICK N \in Nat, k \in Nat : N = Cardinality(Nodes) /\ k = Cardinality(done) /\ k + 1 =< N /\ N = Len(graph.points)
    <3>1. IsFiniteSet(done) /\ IsFiniteSet(Nodes)
      BY <1>3, NodesAre, FS_Subset
    <3>2. done \cup {c} \in SUBSET Nodes
      BY <1>3, <1>4
    <3>3. Cardinality(done \cup {c}) = Cardinality(done) + 1
      BY <1>4, <3>1, FS_AddElement
    <3>4. Cardinality(done \cup {c}) =< Cardinality(Nodes)
      BY <3>1, <3>2, FS_Subset
    <3> QED BY <3>1, <3>3, <3>4, NodesAre, FS_CardinalityType
  <2>3. PICK L \in Nat : L = Longest_leg
    BY <1>10
  <2>4. old[c] =< k * L /\ N * L < Far /\ old[c] \in Nat /\ e.length \in Nat /\ e.length =< L
    BY <1>3, <1>4, <1>10, <2>2, <2>3, LongestLeg
  <2>5. (k + 1) * L =< N * L /\ (k + 1) * L = k * L + L
    <3>1. PICK d \in Nat : N = (k + 1) + d
      <4>1. N - (k + 1) \in Nat /\ N = (k + 1) + (N - (k + 1))
        BY ONLY <2>2
      <4> QED BY ONLY <4>1
    <3>2. PICK x \in Nat, y \in Nat : x = k * L /\ y = d * L
      OBVIOUS
    <3>3. (k + 1) * L = x + L
      BY ONLY <3>2
    <3>4. ((k + 1) + d) * L = x + L + y
      BY ONLY <3>2
    <3> QED BY ONLY <3>1, <3>2, <3>3, <3>4
  <2>6. PICK x \in Nat, y \in Nat, z \in Nat : x = k * L /\ y = N * L /\ z = (k + 1) * L
    OBVIOUS
  <2> QED BY <1>10, <2>4, <2>5, <2>6
<1>14. Rooted(s, s.from)
  <2>1. new[from] = 0 /\ prev[from] = None
    <3>1. from \in Nodes /\ old[from] = 0 /\ before[from] = None
      BY <1>3
    <3>2. new[from] \in Nat /\ new[from] =< 0 /\ (Shorter(from) => new[from] < 0)
      BY <1>7, <3>1
    <3> QED BY <1>7, <3>1, <3>2
  <2>2. ASSUME NEW m \in Nodes PROVE TracedBy(new, prev, from, m)
    <3>1. CASE Shorter(m)
      <4>1. prev[m] = c /\ \E e \in EdgesOf(graph, c) : e.to = m /\ new[m] = new[c] + e.length
        BY <1>7, <1>11, <3>1
      <4>2. new[c] # Far /\ new[m] # Far
        <5>1. new[c] # Far
          BY <1>4, <1>11
        <5>2. PICK e \in EdgesOf(graph, c) : new[m] = old[c] + e.length
          BY <1>7, <3>1
        <5>3. new[m] < Far
          BY <1>13, <5>2
        <5> QED BY <1>7, <1>10, <5>1, <5>3
      <4> QED BY <1>4, <4>1, <4>2 DEF TracedBy
    <3>2. CASE ~Shorter(m)
      <4>1. new[m] = old[m] /\ prev[m] = before[m] /\ TracedBy(old, before, from, m)
        BY <1>3, <1>7, <3>2
      <4>2. CASE old[m] = Far \/ m = from
        BY <4>1, <4>2 DEF TracedBy
      <4>3. CASE old[m] # Far /\ m # from
        <5>1. PICK e \in EdgesOf(graph, before[m]) : e.to = m /\ old[m] = old[before[m]] + e.length
          BY <4>1, <4>3 DEF TracedBy
        <5>2. before[m] \in Nodes /\ old[before[m]] # Far /\ e.length \in Nat /\ 1 =< e.length
          BY <1>10, <4>1, <4>3 DEF TracedBy
        <5>3. old[before[m]] \in Nat
          BY <1>3, <5>2
        <5>4. new[before[m]] = old[before[m]]
          <6>1. before[m] # None
            BY <5>2, NodesAre DEF None
          <6> QED BY <1>3, <1>11, <6>1
        <5> QED BY <4>1, <5>1, <5>2, <5>4 DEF TracedBy
      <4> QED BY <4>2, <4>3
    <3> QED BY <3>1, <3>2
  <2> QED BY <1>8, <1>9, <2>1, <2>2 DEF Rooted
<1>15. s \in [from : Nodes, done : SUBSET Nodes, distance : Distances, previous : Previous]
  BY <1>3, <1>4, <1>8, <1>9
<1>16. ASSUME NEW n \in Nodes
       PROVE  /\ new[n] # Far => new[n] =< Cardinality(done \cup {c}) * Longest_leg
              /\ prev[n] \in (done \cup {c}) \cup {None}
  <2>1. prev[n] \in (done \cup {c}) \cup {None}
    BY <1>3, <1>7
  <2>2. PICK k \in Nat : k = Cardinality(done) /\ Cardinality(done \cup {c}) = k + 1
    <3>1. IsFiniteSet(done)
      BY <1>3, NodesAre, FS_Subset
    <3> QED BY <1>4, <3>1, FS_AddElement, FS_CardinalityType
  <2>3. PICK L \in Nat : L = Longest_leg
    BY <1>10
  <2>4. (k + 1) * L = k * L + L
    OBVIOUS
  <2>5. PICK x \in Nat, y \in Nat : x = k * L /\ y = (k + 1) * L
    OBVIOUS
  <2>6. old[c] =< x /\ old[c] \in Nat
    BY <1>3, <1>4, <2>2, <2>3, <2>5
  <2>7. new[n] # Far => new[n] =< y
    <3>1. CASE Shorter(n)
      <4>1. PICK e \in EdgesOf(graph, c) : new[n] = old[c] + e.length
        BY <1>7, <3>1
      <4>2. e.length \in Nat /\ e.length =< L
        BY <1>4, <1>10, <2>3
      <4> QED BY <2>4, <2>5, <2>6, <4>1, <4>2
    <3>2. CASE ~Shorter(n)
      <4>1. new[n] = old[n] /\ old[n] \in Nat /\ (old[n] # Far => old[n] =< x)
        BY <1>3, <1>7, <2>2, <2>3, <2>5, <3>2
      <4> QED BY <2>4, <2>5, <4>1
    <3> QED BY <3>1, <3>2
  <2> QED BY <2>1, <2>2, <2>3, <2>5, <2>7
<1>17. ASSUME NEW n \in done \cup {c}
       PROVE  /\ new[n] # Far
              /\ \A e \in EdgesOf(graph, n) : new[e.to] # Far /\ new[e.to] =< new[n] + e.length
              /\ \A m \in Nodes \ (done \cup {c}) : new[n] =< new[m]
  <2>1. new[n] = old[n] /\ new[n] # Far /\ new[n] =< old[c] /\ n \in Nodes /\ new[n] \in Nat /\ old[c] \in Nat
    BY <1>3, <1>4, <1>7, <1>11
  <2>2. \A m \in Nodes \ (done \cup {c}) : new[n] =< new[m]
    BY <1>7, <1>12, <2>1
  <2>3. ASSUME NEW e \in EdgesOf(graph, n) PROVE new[e.to] # Far /\ new[e.to] =< new[n] + e.length
    <3>1. e.to \in Nodes /\ e.length \in Nat
      BY <1>10, <2>1
    <3>2. CASE n = c
      <4>1. new[e.to] =< old[c] + e.length /\ old[c] + e.length < Far /\ new[e.to] \in Nat
        BY <1>7, <1>13, <3>1, <3>2
      <4> QED BY <1>10, <2>1, <3>1, <3>2, <4>1
    <3>3. CASE n \in done
      <4>1. /\ new[e.to] \in Nat /\ old[e.to] \in Nat /\ new[e.to] =< old[e.to]
            /\ old[e.to] # Far /\ old[e.to] =< old[n] + e.length
        BY <1>3, <1>7, <3>1, <3>3
      <4>2. new[e.to] # Far
        <5>1. CASE Shorter(e.to)
          <6>1. PICK f \in EdgesOf(graph, c) : new[e.to] = old[c] + f.length
            BY <1>7, <3>1, <5>1
          <6> QED BY <1>10, <1>13, <4>1, <6>1
        <5>2. CASE ~Shorter(e.to)
          BY <1>7, <3>1, <4>1, <5>2
        <5> QED BY <5>1, <5>2
      <4> QED BY <2>1, <3>1, <4>1, <4>2
    <3> QED BY <3>2, <3>3
  <2> QED BY <2>1, <2>2, <2>3
<1> QED BY <1>8, <1>14, <1>15, <1>16, <1>17 DEF Searching

\* The nodes stay with the graph.
LEMMA NodesStay == ASSUME graph' = graph PROVE Nodes' = Nodes
BY DEF Nodes, NodesOf

\* A search of the same graph stays sound.
LEMMA SearchStays ==
  ASSUME graph' = graph, Searching(search')
  PROVE  SearchSound'
<1>1. PICK s : s = search'
  OBVIOUS
<1>2. Searching(s)
  BY <1>1
<1>3. Searching(s)'
  BY <1>2, NodesStay DEF Searching, Rooted, TracedBy, Distances, Previous, EdgesOf, Longest_leg
<1> QED BY <1>1, <1>3 DEF SearchSound

\* A search with nothing left to settle is done.
LEMMA SearchDone ==
  ASSUME Sound, SearchSound, Open = {}
  PROVE  Found([distance |-> search.distance, previous |-> search.previous], search.from)
<1>1. PICK r : r = [distance |-> search.distance, previous |-> search.previous]
  OBVIOUS
<1>2. r.distance = search.distance /\ r.previous = search.previous
  BY <1>1
<1>3. Rooted(r, search.from)
  BY <1>2 DEF SearchSound, Searching, Rooted
<1>4. ASSUME NEW n \in Nodes, search.distance[n] # Far
      PROVE  /\ search.distance[n] < Far
             /\ \A e \in EdgesOf(graph, n) :
                  search.distance[e.to] # Far /\ search.distance[e.to] =< search.distance[n] + e.length
  <2>1. n \in search.done
    BY <1>4 DEF Open
  <2>2. \A m \in Nodes : search.distance[m] # Far => search.distance[m] < Far
    <3>1. TAKE m \in Nodes
    <3>2. search.done \in SUBSET Nodes /\ search.distance[m] \in Nat
      BY DEF SearchSound, Searching, Rooted, Distances
    <3>3. PICK N \in Nat, k \in Nat : N = Len(graph.points) /\ k = Cardinality(search.done) /\ k =< N
      BY <3>2, NodesAre, FS_Subset, FS_CardinalityType
    <3>4. PICK L \in Nat : L = Longest_leg
      BY LongestLeg
    <3>5. N * L < Far /\ (search.distance[m] # Far => search.distance[m] =< k * L)
      BY <3>3, <3>4, LongestLeg DEF SearchSound, Searching
    <3>6. k * L =< N * L
      BY <3>3
    <3>7. PICK x \in Nat, y \in Nat : x = k * L /\ y = N * L
      OBVIOUS
    <3> QED BY <3>2, <3>5, <3>6, <3>7, FarIs
  <2> QED BY <1>4, <2>1, <2>2 DEF SearchSound, Searching
<1> QED BY <1>1, <1>2, <1>3, <1>4 DEF Found

\* The network begins sound.
LEMMA NetworkBegins ==
  ASSUME NetworkInit
  PROVE  NetworkSound
<1>1. tunnels \in Layouts /\ graph = NewGraph(WalkableOf(tunnels)) /\ search = From(1) /\ routes = <<>>
  BY DEF NetworkInit
<1>2. Sound
  BY <1>1, GraphIsSound
<1>3. 1 \in Nodes /\ Cardinality(Nodes) \in Nat /\ Cardinality(Nodes) > 0
  BY <1>2, NodesAre
<1>4. SearchSound
  BY <1>1, <1>2, <1>3, FromIs
<1>5. search.from = 1 /\ Len(routes) = 0
  BY <1>1 DEF From
<1>6. routes \in Seq([distance : Distances, previous : Previous])
  BY <1>1
<1>7. RoutesSound
  BY <1>3, <1>5, <1>6 DEF RoutesSound
<1> QED BY <1>1, <1>4, <1>7 DEF NetworkSound

\* Routes found in the same graph stay sound.
LEMMA RoutesStay ==
  ASSUME graph' = graph,
         NEW r, r = routes', r \in Seq([distance : Distances, previous : Previous]),
         Len(r) =< Cardinality(Nodes),
         Len(r) < Cardinality(Nodes) => search'.from = Len(r) + 1,
         \A k \in 1..Len(r) : Found(r[k], k)
  PROVE  RoutesSound'
<1>1. Nodes' = Nodes /\ Distances' = Distances /\ Previous' = Previous
  BY NodesStay DEF Distances, Previous
<1>2. \A distance, previous, from, m : TracedBy(distance, previous, from, m)' <=> TracedBy(distance, previous, from, m)
  BY <1>1 DEF TracedBy
<1>3. \A x, from : Rooted(x, from)' <=> Rooted(x, from)
  BY <1>1, <1>2 DEF Rooted
<1>4. \A k \in 1..Len(r) : Found(r[k], k)'
  <2>1. TAKE k \in 1..Len(r)
  <2>2. Found(r[k], k)
    OBVIOUS
  <2> QED BY <1>1, <1>3, <2>2 DEF Found
<1>5. \A k \in 1..Len(routes') : Found(routes[k], k)'
  BY <1>4 
<1> QED BY <1>1, <1>5, NodesStay DEF RoutesSound

\* A turn of the search, or its end, keeps the network sound.
LEMMA NetworkStays ==
  ASSUME NetworkSound, Settle \/ Searched
  PROVE  NetworkSound'
<1>1. tunnels' = tunnels /\ graph' = graph
  BY DEF Settle, Searched
<1>2. Sound /\ SearchSound /\ RoutesSound /\ tunnels \in Layouts /\ graph = NewGraph(WalkableOf(tunnels))
  BY GraphIsSound DEF NetworkSound
<1>3. Cardinality(Nodes) \in Nat /\ Nodes = 1..Cardinality(Nodes)
  BY <1>2, NodesAre
<1>4. CASE Settle
  <2>1. PICK s : s = search'
    OBVIOUS
  <2>2. Searching(s)
    BY <1>2, <1>4, <2>1, SettleKeeps DEF Settle
  <2>3. SearchSound'
    BY <1>1, <2>1, <2>2, SearchStays
  <2>4. routes' = routes /\ search'.from = search.from
    BY <1>2, <1>4 DEF Settle, SearchSound, Searching
  <2>5. RoutesSound'
    <3>1. PICK r : r = routes'
      OBVIOUS
    <3>2. /\ r \in Seq([distance : Distances, previous : Previous])
          /\ Len(r) =< Cardinality(Nodes)
          /\ Len(r) < Cardinality(Nodes) => search'.from = Len(r) + 1
          /\ \A k \in 1..Len(r) : Found(r[k], k)
      BY <1>2, <2>4, <3>1 DEF RoutesSound
    <3> QED BY <1>1, <3>1, <3>2, RoutesStay
  <2> QED BY <1>1, <1>2, <2>3, <2>5 DEF NetworkSound
<1>5. CASE Searched
  <2>1. PICK r : r = [distance |-> search.distance, previous |-> search.previous]
    OBVIOUS
  <2>2. r \in [distance : Distances, previous : Previous]
    BY <1>2, <2>1 DEF SearchSound, Searching
  <2>3. /\ Len(routes) < Cardinality(Nodes) /\ Open = {} /\ routes' = Append(routes, r)
        /\ search' = IF search.from < Cardinality(Nodes) THEN From(search.from + 1) ELSE search
    BY <1>5, <2>1 DEF Searched
  <2>4. search.from = Len(routes) + 1 /\ Found(r, search.from)
    BY <1>2, <2>1, <2>3, SearchDone DEF RoutesSound
  <2>5. /\ routes' \in Seq([distance : Distances, previous : Previous])
        /\ Len(routes') = Len(routes) + 1 /\ Len(routes) \in Nat
        /\ \A k \in 1..Len(routes) : routes'[k] = routes[k]
        /\ routes'[Len(routes) + 1] = r
    BY <1>2, <2>2, <2>3 DEF RoutesSound
  <2>6. \A k \in 1..Len(routes') : Found(routes'[k], k)
    <3>1. TAKE k \in 1..Len(routes')
    <3>2. CASE k \in 1..Len(routes)
      BY <1>2, <2>5, <3>2 DEF RoutesSound
    <3>3. CASE k = Len(routes) + 1
      BY <2>4, <2>5, <3>3
    <3> QED BY <2>5, <3>2, <3>3
  <2>7. Len(routes') < Cardinality(Nodes) => search'.from = Len(routes') + 1
    BY <1>3, <2>3, <2>4, <2>5 DEF From
  <2>8. RoutesSound'
    <3>1. PICK done : done = routes'
      OBVIOUS
    <3>2. /\ done \in Seq([distance : Distances, previous : Previous])
          /\ Len(done) =< Cardinality(Nodes)
          /\ Len(done) < Cardinality(Nodes) => search'.from = Len(done) + 1
          /\ \A k \in 1..Len(done) : Found(done[k], k)
      <4>1. done \in Seq([distance : Distances, previous : Previous])
        BY ONLY <2>5, <3>1
      <4>2. Len(done) =< Cardinality(Nodes)
        <5>1. Len(routes) < Cardinality(Nodes) /\ Len(routes) \in Nat /\ Len(done) = Len(routes) + 1
          BY ONLY <2>3, <2>5, <3>1
        <5>2. PICK size \in Nat : size = Cardinality(Nodes)
          BY <1>3, NodesAre
        <5> QED BY ONLY <5>1, <5>2, size \in Nat
      <4>3. Len(done) < Cardinality(Nodes) => search'.from = Len(done) + 1
        BY ONLY <2>7, <3>1
      <4>4. \A k \in 1..Len(done) : Found(done[k], k)
        BY ONLY <2>6, <3>1
      <4> QED BY ONLY <4>1, <4>2, <4>3, <4>4
    <3> QED BY <1>1, <3>1, <3>2, RoutesStay
  <2>9. \E s : s = search' /\ Searching(s)
    <3>1. CASE search.from < Cardinality(Nodes)
      <4>1. search' = From(search.from + 1) /\ search.from + 1 \in Nodes
        BY <1>3, <2>3, <2>4, <2>5, <3>1
      <4> QED BY <1>2, <4>1, FromSearches
    <3>2. CASE ~(search.from < Cardinality(Nodes))
      BY <1>2, <2>3, <3>2 DEF SearchSound
    <3> QED BY <3>1, <3>2
  <2>10. SearchSound'
    BY <1>1, <2>9, SearchStays
  <2> QED BY <1>1, <1>2, <2>8, <2>10 DEF NetworkSound
<1> QED BY <1>4, <1>5

\* A network that does not change stays sound.
LEMMA NetworkKept ==
  ASSUME NetworkSound, UNCHANGED network
  PROVE  NetworkSound'
<1>1. tunnels' = tunnels /\ graph' = graph /\ search' = search /\ routes' = routes
  BY DEF network
<1>2. SearchSound'
  BY <1>1, SearchStays DEF NetworkSound, SearchSound
<1>3. RoutesSound'
  BY <1>1, RoutesStay DEF NetworkSound, RoutesSound
<1> QED BY <1>1, <1>2, <1>3 DEF NetworkSound

-----------------------------------------------------------------------------
(* The ways.                                                                *)

\* A sequence with something put before it.
LEMMA PrefixIs ==
  ASSUME NEW X, NEW x \in X, NEW s \in Seq(X)
  PROVE  LET t == <<x>> \o s
         IN /\ t \in Seq(X) /\ Len(t) = Len(s) + 1 /\ t # <<>> /\ t[1] = x
            /\ \A i \in 2..Len(t) : t[i] = s[i - 1]
OBVIOUS

\* The way back that To follows, a node more each time.
Back(from, to) ==
  LET back[n \in 0..Cardinality(Nodes)] ==
        IF n = 0 THEN <<to>>
        ELSE LET way    == back[n - 1]
                 before == routes[from].previous[way[1]]
             IN IF before = None THEN way ELSE <<before>> \o way
  IN back

\* Routes.To is its recursive function.
LEMMA ToIs ==
  ASSUME NEW from, NEW to
  PROVE  To(from, to) = IF routes[from].distance[to] = Far THEN <<>> ELSE Back(from, to)[Cardinality(Nodes)]
BY DEF To, Back

\* What its recursion says.
GoesBack(f, N, prev, to) ==
  f = [n \in 0..N |-> IF n = 0 THEN <<to>>
                      ELSE IF prev[f[n - 1][1]] = None THEN f[n - 1]
                           ELSE <<prev[f[n - 1][1]]>> \o f[n - 1]]

\* There is a function that goes back from a node.
LEMMA BackExists ==
  ASSUME NEW N \in Nat, NEW S, NEW prev \in [S -> S \cup {None}], NEW to \in S
  PROVE  \E f : GoesBack(f, N, prev, to)
<1>1. PICK V : V = {w \in Seq(S) : w # <<>>}
  OBVIOUS
<1>2. PICK v0 \in V : v0 = <<to>>
  <2>1. <<to>> \in Seq(S) /\ <<to>> # <<>>
    OBVIOUS
  <2> QED BY <1>1, <2>1
<1>3. PICK turn : turn = [w \in V |-> IF prev[w[1]] = None THEN w ELSE <<prev[w[1]]>> \o w]
  OBVIOUS
<1>4. turn \in [V -> V]
  <2>1. SUFFICES ASSUME NEW w \in V PROVE turn[w] \in V
    BY <1>3
  <2>2. w \in Seq(S) /\ w[1] \in S
    BY <1>1
  <2>3. CASE prev[w[1]] = None
    BY <1>3, <2>3
  <2>4. CASE prev[w[1]] # None
    <3>1. prev[w[1]] \in S
      BY <2>2, <2>4
    <3>2. <<prev[w[1]]>> \o w \in V
      BY <1>1, <2>2, <3>1, PrefixIs
    <3> QED BY <1>3, <2>4, <3>2
  <2> QED BY <2>3, <2>4
<1>5. PICK step : step = [n \in Nat |-> turn]
  OBVIOUS
<1>6. step \in [Nat -> [V -> V]]
  BY <1>4, <1>5
<1>7. PICK g : Builds(g, V, v0, step, N)
  BY <1>6, Recursion
<1>8. g \in [0..N -> V] /\ g[0] = <<to>> /\ \A n \in 1..N : g[n] = turn[g[n - 1]]
  <2>1. \A n \in 1..N : step[n] = turn
    BY <1>5
  <2> QED BY <1>2, <1>7, <2>1 DEF Builds
<1>9. \A n \in 0..N : g[n] = IF n = 0 THEN <<to>>
                             ELSE IF prev[g[n - 1][1]] = None THEN g[n - 1] ELSE <<prev[g[n - 1][1]]>> \o g[n - 1]
  <2>1. TAKE n \in 0..N
  <2>2. CASE n = 0
    BY <1>8, <2>2
  <2>3. CASE n # 0
    <3>1. n \in 1..N /\ g[n - 1] \in V
      BY <1>8, <2>3
    <3> QED BY <1>3, <1>8, <2>3, <3>1
  <2> QED BY <2>2, <2>3
<1>10. g = [n \in 0..N |-> g[n]]
  BY <1>8
<1>11. g = [n \in 0..N |-> IF n = 0 THEN <<to>>
                           ELSE IF prev[g[n - 1][1]] = None THEN g[n - 1] ELSE <<prev[g[n - 1][1]]>> \o g[n - 1]]
  BY <1>9, <1>10
<1> QED BY <1>11 DEF GoesBack

\* So the recursive function is that.
LEMMA BackIs ==
  ASSUME Sound, NEW from \in Nodes, Found(routes[from], from), NEW to \in Nodes
  PROVE  LET prev == routes[from].previous
             back == Back(from, to)
         IN \A n \in 0..Cardinality(Nodes) :
              back[n] = IF n = 0 THEN <<to>>
                        ELSE IF prev[back[n - 1][1]] = None THEN back[n - 1]
                             ELSE <<prev[back[n - 1][1]]>> \o back[n - 1]
<1>1. PICK prev : prev = routes[from].previous
  OBVIOUS
<1>2. prev \in [Nodes -> Nodes \cup {None}]
  BY <1>1 DEF Found, Rooted, Previous
<1>3. PICK N \in Nat : N = Cardinality(Nodes)
  BY NodesAre
<1>4. \E f : GoesBack(f, N, prev, to)
  BY <1>2, BackExists
<1>5. PICK back : back = CHOOSE f : GoesBack(f, N, prev, to)
  OBVIOUS
<1>6. GoesBack(back, N, prev, to)
  BY <1>4, <1>5
<1>7. Back(from, to) = back
  BY <1>1, <1>3, <1>5 DEF Back, GoesBack
<1>8. back = [n \in 0..N |-> IF n = 0 THEN <<to>>
                                  ELSE IF prev[back[n - 1][1]] = None THEN back[n - 1]
                                       ELSE <<prev[back[n - 1][1]]>> \o back[n - 1]]
  BY <1>6 DEF GoesBack
<1> QED BY <1>1, <1>3, <1>7, <1>8

\* A way leads along legs, each node as much farther than the one before.
Leads(way, to, distance) ==
  /\ way \in Seq(Nodes) /\ way # <<>>
  /\ way[Len(way)] = to
  /\ \A i \in 1..Len(way) : distance[way[i]] # Far
  /\ \A i \in 2..Len(way) : \E e \in EdgesOf(graph, way[i - 1]) :
       e.to = way[i] /\ distance[way[i]] = distance[way[i - 1]] + e.length

Nearer(distance, n) == {m \in Nodes : distance[m] < distance[n]}

\* Nearer nodes have fewer nodes nearer than they are.
LEMMA FewerNearer ==
  ASSUME Sound, NEW distance \in Distances, NEW n \in Nodes
  PROVE  /\ Cardinality(Nearer(distance, n)) \in Nat
         /\ Cardinality(Nearer(distance, n)) < Cardinality(Nodes)
         /\ \A m \in Nodes : distance[m] < distance[n] =>
              Cardinality(Nearer(distance, m)) < Cardinality(Nearer(distance, n))
<1>1. IsFiniteSet(Nodes)
  BY NodesAre
<1>2. ASSUME NEW S \in SUBSET Nodes, NEW R \in SUBSET S, NEW x \in S \ R
      PROVE  Cardinality(R) \in Nat /\ Cardinality(R) < Cardinality(S)
  <2>1. IsFiniteSet(S) /\ IsFiniteSet(R)
    BY <1>1, FS_Subset
  <2>2. Cardinality(R) =< Cardinality(S) /\ (Cardinality(R) = Cardinality(S) => R = S)
    BY <2>1, FS_Subset
  <2>3. Cardinality(R) \in Nat /\ Cardinality(S) \in Nat
    BY <2>1, FS_CardinalityType
  <2> QED BY <2>2, <2>3
<1>3. \A m \in Nodes : Nearer(distance, m) \in SUBSET Nodes /\ m \notin Nearer(distance, m)
  BY DEF Nearer, Distances
<1>4. Cardinality(Nearer(distance, n)) \in Nat /\ Cardinality(Nearer(distance, n)) < Cardinality(Nodes)
  BY <1>2, <1>3
<1>5. ASSUME NEW m \in Nodes, distance[m] < distance[n]
      PROVE  Cardinality(Nearer(distance, m)) < Cardinality(Nearer(distance, n))
  <2>1. Nearer(distance, m) \in SUBSET Nearer(distance, n) /\ m \in Nearer(distance, n)
    BY <1>5 DEF Nearer, Distances
  <2> QED BY <1>2, <1>3, <2>1
<1> QED BY <1>4, <1>5

\* The way from one node to another that has one.
LEMMA WayIs ==
  ASSUME Sound, NEW from \in Nodes, Found(routes[from], from), NEW to \in Nodes,
         routes[from].distance[to] # Far
  PROVE  Leads(To(from, to), to, routes[from].distance) /\ To(from, to)[1] = from
<1>1. PICK prev, dist : prev = routes[from].previous /\ dist = routes[from].distance
  OBVIOUS
<1>2. /\ prev \in [Nodes -> Nodes \cup {None}] /\ dist \in Distances /\ dist \in [Nodes -> Nat]
      /\ prev[from] = None /\ \A m \in Nodes : TracedBy(dist, prev, from, m)
  BY <1>1 DEF Found, Rooted, Previous, Distances
<1>3. PICK N \in Nat : N = Cardinality(Nodes) /\ N > 0
  BY NodesAre
<1>4. PICK back : back = Back(from, to)
  OBVIOUS
<1>5. /\ back[0] = <<to>>
      /\ \A n \in 1..N : back[n] = IF prev[back[n - 1][1]] = None THEN back[n - 1]
                                   ELSE <<prev[back[n - 1][1]]>> \o back[n - 1]
  <2>1. \A n \in 0..N : back[n] = IF n = 0 THEN <<to>>
                        ELSE IF prev[back[n - 1][1]] = None THEN back[n - 1]
                             ELSE <<prev[back[n - 1][1]]>> \o back[n - 1]
    BY <1>1, <1>3, <1>4, BackIs
  <2>2. 0 \in 0..N /\ \A n \in 1..N : n \in 0..N /\ n # 0
    OBVIOUS
  <2>3. back[0] = <<to>>
    BY <2>1, <2>2
  <2>4. ASSUME NEW n \in 1..N
        PROVE  back[n] = IF prev[back[n - 1][1]] = None THEN back[n - 1]
                         ELSE <<prev[back[n - 1][1]]>> \o back[n - 1]
    BY <2>1, <2>2
  <2> QED BY <2>3, <2>4
<1> DEFINE Ok(n) == /\ Leads(back[n], to, dist)
                    /\ back[n][1] = from \/ Cardinality(Nearer(dist, back[n][1])) + n + 1 =< N
           S == {n \in Nat : n =< N => Ok(n)}
<1>6. Ok(0)
  <2>1. Leads(<<to>>, to, dist)
    BY <1>1 DEF Leads
  <2>2. Cardinality(Nearer(dist, to)) \in Nat /\ Cardinality(Nearer(dist, to)) < N
    BY <1>2, <1>3, FewerNearer
  <2> QED BY <1>5, <2>1, <2>2
<1>7. ASSUME NEW n \in Nat, n + 1 =< N, Ok(n) PROVE Ok(n + 1)
  <2>1. PICK w : w = back[n]
    OBVIOUS
  <2>2. Leads(w, to, dist) /\ w \in Seq(Nodes) /\ w # <<>> /\ w[1] \in Nodes
    <3>1. Leads(w, to, dist)
      BY <1>7, <2>1
    <3>2. w \in Seq(Nodes) /\ w # <<>>
      BY ONLY <3>1 DEF Leads
    <3>3. w[1] \in Nodes
      BY ONLY <3>2
    <3> QED BY ONLY <3>1, <3>2, <3>3
  <2>3. back[n + 1] = IF prev[w[1]] = None THEN w ELSE <<prev[w[1]]>> \o w
    BY <1>5, <1>7, <2>1
  <2>4. dist[w[1]] # Far /\ TracedBy(dist, prev, from, w[1])
    <3>1. 1 \in 1..Len(w)
      BY <2>2
    <3> QED BY <1>2, <2>2, <3>1 DEF Leads
  <2>5. CASE w[1] = from
    BY <1>2, <2>1, <2>2, <2>3, <2>5
  <2>6. CASE w[1] # from
    <3>1. PICK b : b = prev[w[1]]
      OBVIOUS
    <3>2. b \in Nodes /\ dist[b] # Far /\ \E e \in EdgesOf(graph, b) : e.to = w[1] /\ dist[w[1]] = dist[b] + e.length
      BY <2>4, <2>6, <3>1 DEF TracedBy
    <3>3. PICK e \in EdgesOf(graph, b) : e.to = w[1] /\ dist[w[1]] = dist[b] + e.length
      BY <3>2
    <3>4. b # None
      BY <3>2, NodesAre DEF None
    <3>5. PICK v : v = <<b>> \o w
      OBVIOUS
    <3>6. v \in Seq(Nodes) /\ Len(v) = Len(w) + 1 /\ v # <<>> /\ v[1] = b /\ \A i \in 2..Len(v) : v[i] = w[i - 1]
      BY <2>2, <3>2, <3>5, PrefixIs
    <3>7. back[n + 1] = v
      BY <2>3, <3>1, <3>4, <3>5
    <3>8. Leads(v, to, dist)
      <4>1. PICK l \in Nat : l = Len(w) /\ l >= 1 /\ Len(v) = l + 1
        BY <2>2, <3>6
      <4>2. v[Len(v)] = to
        BY <2>2, <3>6, <4>1 DEF Leads
      <4>3. ASSUME NEW i \in 1..Len(v) PROVE dist[v[i]] # Far
        <5>1. CASE i = 1
          BY <3>2, <3>6, <5>1
        <5>2. CASE i # 1
          <6>1. i \in 2..Len(v) /\ i - 1 \in 1..Len(w)
            BY <4>1, <5>2
          <6> QED BY <2>2, <3>6, <6>1 DEF Leads
        <5> QED BY <5>1, <5>2
      <4>4. ASSUME NEW i \in 2..Len(v)
            PROVE  \E f \in EdgesOf(graph, v[i - 1]) : f.to = v[i] /\ dist[v[i]] = dist[v[i - 1]] + f.length
        <5>1. CASE i = 2
          <6>1. v[i] = w[1] /\ v[i - 1] = b
            BY <3>6, <5>1
          <6> QED BY <3>3, <6>1
        <5>2. CASE i # 2
          <6>1. i - 1 \in 2..Len(w) /\ v[i] = w[i - 1] /\ v[i - 1] = w[i - 1 - 1]
            BY <3>6, <4>1, <5>2
          <6>2. \E f \in EdgesOf(graph, w[i - 1 - 1]) : f.to = w[i - 1] /\ dist[w[i - 1]] = dist[w[i - 1 - 1]] + f.length
            BY <2>2, <6>1 DEF Leads
          <6> QED BY <6>1, <6>2
        <5> QED BY <5>1, <5>2
      <4> QED BY <3>6, <4>2, <4>3, <4>4 DEF Leads
    <3>9. dist[b] < dist[w[1]]
      <4>1. e.length \in Nat /\ 1 =< e.length
        BY <3>2, LongestLeg
      <4> QED BY <1>2, <3>2, <3>3, <4>1
    <3>10. Cardinality(Nearer(dist, b)) + (n + 1) + 1 =< N
      <4>1. PICK x, y : x = Cardinality(Nearer(dist, b)) /\ y = Cardinality(Nearer(dist, w[1]))
        OBVIOUS
      <4>2. x \in Nat /\ y \in Nat /\ x < y
        BY <1>2, <2>2, <3>2, <3>9, <4>1, FewerNearer
      <4>3. y + n + 1 =< N
        BY <1>7, <2>1, <2>6, <4>1
      <4> QED BY <4>1, <4>2, <4>3
    <3> QED BY <3>6, <3>7, <3>8, <3>10
  <2> QED BY <2>5, <2>6
<1> HIDE DEF Ok
<1>8. 0 \in S /\ \A n \in Nat : n \in S => n + 1 \in S
  BY <1>6, <1>7
<1>9. N \in S
  <2> HIDE DEF S
  <2> QED BY <1>8, Induction
<1>10. Leads(back[N], to, dist) /\ back[N][1] = from
  <2>1. Leads(back[N], to, dist) /\ (back[N][1] = from \/ Cardinality(Nearer(dist, back[N][1])) + N + 1 =< N)
    BY <1>9 DEF Ok
  <2>2. back[N][1] \in Nodes
    BY <2>1 DEF Leads
  <2>3. Cardinality(Nearer(dist, back[N][1])) \in Nat
    BY <1>2, <2>2, FewerNearer
  <2> QED BY <2>1, <2>3
<1> QED BY <1>1, <1>3, <1>4, <1>10, ToIs

-----------------------------------------------------------------------------
(* The places of the tunnels and moving from one to the next.               *)

\* A function takes finitely many things to finitely many.
LEMMA ImageIsFinite ==
  ASSUME NEW K, IsFiniteSet(K), NEW f
  PROVE  IsFiniteSet({f[x] : x \in K})
<1>1. PICK g : g = [x \in K |-> f[x]]
  OBVIOUS
<1>2. g \in Surjection(K, {f[x] : x \in K})
  BY <1>1 DEF Surjection
<1> QED BY <1>2, FS_Surjection

\* The legs, as they lead from their nodes.
LEMMA LegIs ==
  ASSUME Sound, NEW n \in Nodes, NEW e \in EdgesOf(graph, n)
  PROVE  /\ e.to \in Nodes /\ e.to # n /\ P(n) \in Points /\ P(e.to) \in Points
         /\ Straight(P(n), P(e.to)) /\ e.length = Length(P(n), P(e.to)) /\ e.length \in Nat /\ e.length >= 1
         /\ Leg(n, e) \subseteq Points /\ P(n) \in Leg(n, e) /\ P(e.to) \in Leg(n, e)
         /\ \E f \in EdgesOf(graph, e.to) : f.to = n /\ Leg(e.to, f) = Leg(n, e) /\ f.length = e.length
<1>1. e.to \in Nodes /\ e.to # n /\ e.length \in Nat /\ e.length >= 1 /\ P(n) \in Points /\ P(e.to) \in Points
  BY LongestLeg, NodesAre
<1>2. Straight(P(n), P(e.to)) /\ e.length = Length(P(n), P(e.to)) /\ \E f \in EdgesOf(graph, e.to) : f.to = n
  BY DEF Sound, EdgesStraight
<1>3. Leg(n, e) \subseteq Points /\ P(n) \in Leg(n, e) /\ P(e.to) \in Leg(n, e)
  BY <1>1, EndsOn DEF Leg
<1>4. PICK f \in EdgesOf(graph, e.to) : f.to = n
  BY <1>2
<1>5. Leg(e.to, f) = Leg(n, e)
  BY <1>1, <1>4, StretchSymmetric DEF Leg
<1>6. f.length = Length(P(e.to), P(n))
  BY <1>1, <1>4 DEF Sound, EdgesStraight
<1>7. f.length = e.length
  BY <1>1, <1>2, <1>6, LengthType
<1> QED BY <1>1, <1>2, <1>3, <1>4, <1>5, <1>7

\* The tunnels are the legs.
LEMMA TunnelledIs ==
  ASSUME NEW l
  PROVE  l \in Tunnelled <=> \E n \in Nodes : \E e \in EdgesOf(graph, n) : l = Leg(n, e)
BY DEF Tunnelled, Leg, P

\* The places are what lies on a leg, finitely many.
LEMMA PlacesAre ==
  ASSUME Sound
  PROVE  /\ \A x : x \in Places <=> \E n \in Nodes : \E e \in EdgesOf(graph, n) : x \in Leg(n, e)
         /\ Places \subseteq Points
         /\ IsFiniteSet(Places) /\ Cardinality(Places) \in Nat
<1>1. \A x : x \in Places <=> \E n \in Nodes : \E e \in EdgesOf(graph, n) : x \in Leg(n, e)
  BY TunnelledIs DEF Places
<1>2. Places \subseteq Points
  BY <1>1, LegIs
<1>3. ASSUME NEW n \in Nodes
      PROVE  IsFiniteSet({Stretch(graph.points[n], graph.points[e.to]) : e \in EdgesOf(graph, n)})
  <2>1. graph.edges[n] \in Seq([to : Nodes, length : Nat])
    BY DEF Sound, EdgesTyped
  <2>2. PICK d \in Nat : d = Len(graph.edges[n]) /\ DOMAIN graph.edges[n] = 1..d
    BY <2>1
  <2>3. PICK f : f = [k \in 1..d |-> Stretch(graph.points[n], graph.points[graph.edges[n][k].to])]
    OBVIOUS
  <2>4. \A e : e \in EdgesOf(graph, n) <=> \E k \in 1..d : e = graph.edges[n][k]
    BY <2>2 DEF EdgesOf, ToSet
  <2>5. {Stretch(graph.points[n], graph.points[e.to]) : e \in EdgesOf(graph, n)} = {f[k] : k \in 1..d}
    <3>1. ASSUME NEW x
          PROVE  x \in {Stretch(graph.points[n], graph.points[e.to]) : e \in EdgesOf(graph, n)}
                   <=> x \in {f[k] : k \in 1..d}
      <4>1. \A k \in 1..d : f[k] = Stretch(graph.points[n], graph.points[graph.edges[n][k].to])
        BY <2>3
      <4>2. x \in {f[k] : k \in 1..d} <=> \E k \in 1..d : x = Stretch(graph.points[n], graph.points[graph.edges[n][k].to])
        BY <4>1
      <4> QED BY <2>4, <4>2
    <3> QED BY <3>1
  <2>6. IsFiniteSet(1..d)
    BY FS_Interval
  <2> QED BY <2>5, <2>6, ImageIsFinite
<1>4. IsFiniteSet(Tunnelled)
  <2>1. PICK f : f = [n \in Nodes |-> {Stretch(graph.points[n], graph.points[e.to]) : e \in EdgesOf(graph, n)}]
    OBVIOUS
  <2>2. PICK G : G = {f[n] : n \in Nodes}
    OBVIOUS
  <2>3. IsFiniteSet(G)
    BY <2>2, NodesAre, ImageIsFinite
  <2>4. \A T \in G : IsFiniteSet(T)
    BY <1>3, <2>1, <2>2
  <2>5. Tunnelled = UNION G
    <3>1. G = {{Stretch(graph.points[n], graph.points[e.to]) : e \in EdgesOf(graph, n)} : n \in Nodes}
      BY <2>1, <2>2
    <3> QED BY <3>1 DEF Tunnelled
  <2> QED BY <2>3, <2>4, <2>5, FS_UNION
<1>5. \A l \in Tunnelled : IsFiniteSet(l)
  BY TunnelledIs, LegIs, StretchFinite DEF Leg
<1>6. IsFiniteSet(Places)
  BY <1>4, <1>5, FS_UNION DEF Places
<1> QED BY <1>1, <1>2, <1>6, FS_CardinalityType

\* One place next to another.
Next_to(q, x) == \E n \in Nodes : \E e \in EdgesOf(graph, n) : q \in Leg(n, e) /\ x \in Leg(n, e) /\ Length(q, x) = 1

\* Beside a place is what is next to it on a leg.
LEMMA BesideIs ==
  ASSUME Sound, NEW q, NEW x
  PROVE  q \in DOMAIN Beside /\ x \in Beside[q] <=> Next_to(q, x)
<1>1. q \in DOMAIN Beside <=> q \in Places
  BY DEF Beside
<1>2. q \in Places => (x \in Beside[q] <=> \E l \in Tunnelled : q \in l /\ x \in l /\ Length(q, x) = 1)
  BY DEF Beside
<1>3. Next_to(q, x) <=> \E l \in Tunnelled : q \in l /\ x \in l /\ Length(q, x) = 1
  BY TunnelledIs DEF Next_to
<1>4. Next_to(q, x) => q \in Places
  BY PlacesAre DEF Next_to
<1> QED BY <1>1, <1>2, <1>3, <1>4

\* What the recursion of Around says.
GoesAround(f, p, farthest, beside) ==
  f = [n \in 0..farthest |-> IF n = 0 THEN {p}
                             ELSE f[n - 1] \cup UNION {beside[q] : q \in f[n - 1] \cap DOMAIN beside}]

\* There is a function that goes around a place.
LEMMA AroundExists ==
  ASSUME Sound, NEW p \in Points, NEW farthest \in Nat
  PROVE  \E f : GoesAround(f, p, farthest, Beside)
<1>1. PICK beside : beside = Beside
  OBVIOUS
<1>2. PICK turn : turn = [W \in SUBSET Points |-> W \cup UNION {beside[q] : q \in W \cap DOMAIN beside}]
  OBVIOUS
<1>3. turn \in [SUBSET Points -> SUBSET Points]
  <2>1. ASSUME NEW W \in SUBSET Points, NEW x \in turn[W] PROVE x \in Points
    <3>1. x \in W \/ \E q \in W \cap DOMAIN beside : x \in beside[q]
      BY <1>2, <2>1
    <3>2. ASSUME NEW q \in DOMAIN beside, x \in beside[q] PROVE x \in Points
      BY <1>1, <3>2, BesideIs, LegIs DEF Next_to
    <3> QED BY <3>1, <3>2
  <2> QED BY <1>2, <2>1
<1>4. PICK step : step = [n \in Nat |-> turn]
  OBVIOUS
<1>12. PICK V : V = SUBSET Points
  OBVIOUS
<1>13. PICK v0 \in V : v0 = {p}
  BY <1>12
<1>6. step \in [Nat -> [V -> V]]
  BY <1>3, <1>4, <1>12
<1>7. PICK g : Builds(g, V, v0, step, farthest)
  BY <1>6, Recursion
<1>8. g \in [0..farthest -> SUBSET Points] /\ g[0] = {p} /\ \A n \in 1..farthest : g[n] = turn[g[n - 1]]
  <2>1. \A n \in 1..farthest : step[n] = turn
    BY <1>4
  <2> QED BY <1>12, <1>13, <1>7, <2>1 DEF Builds
<1>9. \A n \in 0..farthest : g[n] = IF n = 0 THEN {p} ELSE g[n - 1] \cup UNION {beside[q] : q \in g[n - 1] \cap DOMAIN beside}
  <2>1. TAKE n \in 0..farthest
  <2>2. CASE n = 0
    BY <1>8, <2>2
  <2>3. CASE n # 0
    <3>1. n \in 1..farthest /\ g[n - 1] \in SUBSET Points
      BY <1>8, <2>3
    <3> QED BY <1>2, <1>8, <2>3, <3>1
  <2> QED BY <2>2, <2>3
<1>10. g = [n \in 0..farthest |-> g[n]]
  BY <1>8
<1>14. GoesAround(g, p, farthest, beside)
  <2>1. g = [n \in 0..farthest |-> IF n = 0 THEN {p} ELSE g[n - 1] \cup UNION {beside[q] : q \in g[n - 1] \cap DOMAIN beside}]
    BY <1>9, <1>10
  <2> QED BY <2>1 DEF GoesAround
<1> QED BY <1>1, <1>14

\* Where one gets to in no step, and in one more.
LEMMA AroundIs ==
  ASSUME Sound, NEW p \in Points, NEW farthest \in Nat
  PROVE  /\ Around(p, farthest)[0] = {p}
         /\ \A k \in 1..farthest : \A x :
              x \in Around(p, farthest)[k] <=>
                \/ x \in Around(p, farthest)[k - 1]
                \/ \E q \in Around(p, farthest)[k - 1] : Next_to(q, x)
<1>1. PICK f : f = CHOOSE g : GoesAround(g, p, farthest, Beside)
  OBVIOUS
<1>2. GoesAround(f, p, farthest, Beside)
  BY <1>1, AroundExists
<1>3. Around(p, farthest) = f
  BY <1>1 DEF Around, GoesAround
<1>7. PICK beside : beside = Beside
  OBVIOUS
<1>8. GoesAround(f, p, farthest, beside)
  BY <1>2, <1>7
<1>4. f = [n \in 0..farthest |-> IF n = 0 THEN {p}
                                 ELSE f[n - 1] \cup UNION {beside[q] : q \in f[n - 1] \cap DOMAIN beside}]
  BY <1>8 DEF GoesAround
<1>5. f[0] = {p}
  BY <1>4
<1>6. ASSUME NEW k \in 1..farthest, NEW x
      PROVE  x \in f[k] <=> x \in f[k - 1] \/ \E q \in f[k - 1] : Next_to(q, x)
  <2>1. f[k] = f[k - 1] \cup UNION {Beside[q] : q \in f[k - 1] \cap DOMAIN Beside}
    <3>3. k \in 0..farthest /\ k # 0
      OBVIOUS
    <3>4. f[k] = IF k = 0 THEN {p} ELSE f[k - 1] \cup UNION {beside[q] : q \in f[k - 1] \cap DOMAIN beside}
      BY <1>4, <3>3
    <3> QED BY <1>7, <3>3, <3>4
  <2>2. x \in f[k] <=> x \in f[k - 1] \/ \E q \in f[k - 1] : q \in DOMAIN Beside /\ x \in Beside[q]
    BY <2>1
  <2> QED BY <2>2, BesideIs
<1> QED BY <1>3, <1>5, <1>6

-----------------------------------------------------------------------------
(* The ground around a place.                                               *)

\* On a straight stretch there is a point just before any other.
LEMMA JustBefore ==
  ASSUME NEW a \in Points, NEW b \in Points, Straight(a, b),
         NEW q \in Stretch(a, b), NEW x \in Stretch(a, b), q # x
  PROVE  \E y \in Stretch(a, b) : Length(y, x) = 1 /\ Length(q, y) + 1 = Length(q, x)
<1>1. q \in Points /\ x \in Points
  BY EndsOn
<1>2. \E c \in {a, b} : x \in Stretch(q, c) /\ Straight(q, c) /\ Stretch(q, c) \subseteq Stretch(a, b)
  BY PartsOf
<1>3. PICK c \in {a, b} : x \in Stretch(q, c) /\ Straight(q, c) /\ Stretch(q, c) \subseteq Stretch(a, b)
  BY <1>2
<1>4. Straight(x, q) /\ Stretch(x, q) \subseteq Stretch(q, c)
  BY <1>1, <1>3, PartsOf
<1>5. Length(x, q) \in Nat /\ Length(x, q) # 0 /\ Length(x, q) = Length(q, x)
  BY <1>1, LengthType
<1>6. PICK y \in Stretch(x, q) : Length(x, y) = 1
  <2>1. 1 \in 0..Length(x, q)
    BY <1>5
  <2> QED BY <1>1, <1>4, <2>1, TowardOn
<1>7. y \in Points /\ Length(x, y) + Length(y, q) = Length(x, q)
  BY <1>1, EndsOn, LengthOn
<1>8. Length(y, x) = Length(x, y) /\ Length(q, y) = Length(y, q) /\ Length(y, q) \in Nat
  BY <1>1, <1>7, LengthType
<1> QED BY <1>3, <1>4, <1>5, <1>6, <1>7, <1>8

\* The ground goes on growing.
LEMMA AroundGrows ==
  ASSUME Sound, NEW p \in Points, NEW K \in Nat, NEW j \in Nat, NEW m \in Nat, j + m =< K
  PROVE  Around(p, K)[j] \subseteq Around(p, K)[j + m]
<1> DEFINE S == {i \in Nat : j + i =< K => Around(p, K)[j] \subseteq Around(p, K)[j + i]}
<1>1. 0 \in S
  OBVIOUS
<1>2. ASSUME NEW i \in Nat, i \in S PROVE i + 1 \in S
  <2>1. SUFFICES ASSUME j + (i + 1) =< K PROVE Around(p, K)[j] \subseteq Around(p, K)[j + (i + 1)]
    OBVIOUS
  <2>2. PICK k \in 1..K : k = j + (i + 1) /\ k - 1 = j + i
    BY <2>1
  <2>3. Around(p, K)[k - 1] \subseteq Around(p, K)[k]
    BY AroundIs
  <2> QED BY <1>2, <2>2, <2>3
<1>3. Nat \subseteq S
  <2> HIDE DEF S
  <2> QED BY <1>1, <1>2, Induction
<1> QED BY <1>3

\* Along a leg one gets as far as one's steps.
LEMMA StepsAlong ==
  ASSUME Sound, NEW p \in Points, NEW K \in Nat, NEW n \in Nodes, NEW e \in EdgesOf(graph, n),
         NEW j \in Nat, NEW q \in Around(p, K)[j], q \in Leg(n, e),
         NEW m \in Nat, j + m =< K, NEW x \in Leg(n, e), Length(q, x) =< m
  PROVE  x \in Around(p, K)[j + m]
<1> DEFINE Gets(i) == j + i =< K => \A y \in Leg(n, e) : Length(q, y) =< i => y \in Around(p, K)[j + i]
           S == {i \in Nat : Gets(i)}
<1>1. P(n) \in Points /\ P(e.to) \in Points /\ Straight(P(n), P(e.to)) /\ Leg(n, e) \subseteq Points /\ q \in Points
  BY LegIs
<1>2. Gets(0)
  <2>1. SUFFICES ASSUME NEW y \in Leg(n, e), Length(q, y) =< 0 PROVE y \in Around(p, K)[j + 0]
    OBVIOUS
  <2>2. y \in Points
    BY <1>1
  <2>3. y = q
    BY <1>1, <2>1, <2>2, LengthType
  <2> QED BY <2>3
<1>3. ASSUME NEW i \in Nat, Gets(i) PROVE Gets(i + 1)
  <2>1. SUFFICES ASSUME j + (i + 1) =< K, NEW y \in Leg(n, e), Length(q, y) =< i + 1
                 PROVE  y \in Around(p, K)[j + (i + 1)]
    OBVIOUS
  <2>2. PICK k \in 1..K : k = j + (i + 1) /\ k - 1 = j + i
    BY <2>1
  <2>3. CASE q = y
    <3>1. j + (i + 1) =< K /\ i + 1 \in Nat
      BY <2>1
    <3> QED BY <2>3, <3>1, AroundGrows
  <2>4. CASE q # y
    <3>1. PICK z \in Leg(n, e) : Length(z, y) = 1 /\ Length(q, z) + 1 = Length(q, y)
      BY <1>1, <2>1, <2>4, JustBefore DEF Leg
    <3>2. z \in Points /\ y \in Points
      BY <1>1
    <3>3. Length(q, z) \in Nat /\ Length(q, y) \in Nat
      BY <1>1, <3>2, LengthType
    <3>4. z \in Around(p, K)[k - 1]
      BY <1>3, <2>1, <2>2, <3>1, <3>3
    <3>5. Next_to(z, y)
      BY <3>1 DEF Next_to
    <3> QED BY <2>2, <3>4, <3>5, AroundIs
  <2> QED BY <2>3, <2>4
<1> HIDE DEF Gets
<1>4. 0 \in S /\ \A i \in Nat : i \in S => i + 1 \in S
  BY <1>2, <1>3
<1>5. m \in S
  <2> HIDE DEF S
  <2> QED BY <1>4, Induction
<1> QED BY <1>5 DEF Gets

\* How far nodes are from a place, for all who are no farther than K.
Measures(R, p, K) ==
  /\ R \in [Nodes -> Nat]
  /\ \A n \in Nodes : P(n) = p => R[n] = 0
  /\ \A n \in Nodes : \A e \in EdgesOf(graph, n) :
       /\ R[n] + e.length =< K => R[e.to] =< R[n] + e.length
       /\ p \in Leg(n, e) => R[n] =< Length(p, P(n))
  /\ \A n \in Nodes : R[n] =< K =>
       \/ P(n) = p
       \/ \E e \in EdgesOf(graph, n) : p \in Leg(n, e) /\ Length(p, P(n)) =< R[n]
       \/ \E m \in Nodes : \E e \in EdgesOf(graph, m) : e.to = n /\ R[m] + e.length =< R[n]

\* The ground: along the legs a place is on, and along the legs from the nodes
\* it reaches.
OnGround(x, p, R, k) ==
  \/ x = p
  \/ \E n \in Nodes : \E e \in EdgesOf(graph, n) :
       /\ x \in Leg(n, e)
       /\ (p \in Leg(n, e) /\ Length(p, x) =< k) \/ R[n] + Length(P(n), x) =< k

\* One gets to a node in as many steps as it is far.
LEMMA GetsToNode ==
  ASSUME Sound, NEW p \in Points, NEW K \in Nat, NEW R, Measures(R, p, K),
         NEW n \in Nodes, NEW k \in 0..K, R[n] =< k
  PROVE  P(n) \in Around(p, K)[k]
<1> DEFINE Gets(r) == \A m \in Nodes : R[m] =< r /\ r =< K => P(m) \in Around(p, K)[r]
           S == {r \in Nat : Gets(r)}
<1>1. R \in [Nodes -> Nat] /\ p \in Around(p, K)[0]
  BY AroundIs DEF Measures
<1>2. ASSUME NEW r \in Nat, \A s \in 0..(r - 1) : Gets(s) PROVE Gets(r)
  <2>1. SUFFICES ASSUME NEW m \in Nodes, R[m] =< r, r =< K PROVE P(m) \in Around(p, K)[r]
    OBVIOUS
  <2>2. R[m] \in Nat /\ R[m] =< K /\ r = 0 + r
    BY <1>1, <2>1
  <2>3. CASE P(m) = p
    <3>1. Around(p, K)[0] \subseteq Around(p, K)[0 + r]
      BY <2>1, <2>2, AroundGrows
    <3> QED BY <1>1, <2>2, <2>3, <3>1
  <2>4. ASSUME NEW e \in EdgesOf(graph, m), p \in Leg(m, e), Length(p, P(m)) =< R[m]
        PROVE  P(m) \in Around(p, K)[r]
    <3>1. P(m) \in Leg(m, e) /\ P(m) \in Points
      BY LegIs
    <3>2. Length(p, P(m)) =< r
      <4>1. Length(p, P(m)) \in Nat
        BY <3>1, LengthType
      <4> QED BY <2>1, <2>2, <2>4, <4>1
    <3>3. P(m) \in Around(p, K)[0 + r]
      BY <1>1, <2>1, <2>2, <2>4, <3>1, <3>2, StepsAlong
    <3> QED BY <2>2, <3>3
  <2>5. ASSUME NEW b \in Nodes, NEW e \in EdgesOf(graph, b), e.to = m, R[b] + e.length =< R[m]
        PROVE  P(m) \in Around(p, K)[r]
    <3>1. e.length \in Nat /\ e.length >= 1 /\ e.length = Length(P(b), P(m)) /\ P(b) \in Leg(b, e) /\ P(m) \in Leg(b, e)
      BY <2>5, LegIs
    <3>2. R[b] \in Nat /\ R[b] \in 0..(r - 1) /\ R[b] =< K /\ R[b] + (r - R[b]) = r /\ r - R[b] \in Nat /\ e.length =< r - R[b]
      BY <1>1, <2>1, <2>2, <2>5, <3>1
    <3>3. P(b) \in Around(p, K)[R[b]]
      BY <1>2, <3>2
    <3>4. PICK j \in Nat, i \in Nat : j = R[b] /\ i = r - R[b] /\ j + i = r
      BY <3>2
    <3>5. P(m) \in Around(p, K)[j + i]
      BY <2>1, <3>1, <3>2, <3>3, <3>4, StepsAlong
    <3> QED BY <3>4, <3>5
  <2> QED BY <2>1, <2>2, <2>3, <2>4, <2>5 DEF Measures
<1> HIDE DEF Gets
<1>3. \A r \in Nat : \A s \in 0..r : Gets(s)
  <2> DEFINE T == {r \in Nat : \A s \in 0..r : Gets(s)}
  <2>1. 0 \in T
    BY <1>2
  <2>2. ASSUME NEW r \in Nat, r \in T PROVE r + 1 \in T
    <3>1. \A s \in 0..((r + 1) - 1) : Gets(s)
      BY <2>2
    <3>2. Gets(r + 1)
      BY <1>2, <3>1
    <3> QED BY <2>2, <3>2
  <2>3. Nat \subseteq T
    <3> HIDE DEF T
    <3> QED BY <2>1, <2>2, Induction
  <2> QED BY <2>3
<1>4. Gets(k)
  BY <1>3
<1> QED BY <1>4 DEF Gets

\* Whatever is on the ground is got to.
LEMMA GroundIsReached ==
  ASSUME Sound, NEW p \in Points, NEW K \in Nat, NEW R, Measures(R, p, K),
         NEW k \in 0..K, NEW x, OnGround(x, p, R, k)
  PROVE  x \in Around(p, K)[k]
<1>1. R \in [Nodes -> Nat] /\ p \in Around(p, K)[0] /\ 0 + k = k /\ k \in Nat
  BY AroundIs DEF Measures
<1>2. CASE x = p
  <2>0. 0 \in Nat /\ k \in Nat /\ 0 + k =< K
    OBVIOUS
  <2>1. Around(p, K)[0] \subseteq Around(p, K)[0 + k]
    BY <2>0, AroundGrows
  <2> QED BY <1>1, <1>2, <2>1
<1>3. ASSUME NEW n \in Nodes, NEW e \in EdgesOf(graph, n), x \in Leg(n, e), p \in Leg(n, e), Length(p, x) =< k
      PROVE  x \in Around(p, K)[k]
  <2>1. x \in Around(p, K)[0 + k]
    BY <1>1, <1>3, StepsAlong
  <2> QED BY <1>1, <2>1
<1>4. ASSUME NEW n \in Nodes, NEW e \in EdgesOf(graph, n), x \in Leg(n, e), R[n] + Length(P(n), x) =< k
      PROVE  x \in Around(p, K)[k]
  <2>1. P(n) \in Leg(n, e) /\ P(n) \in Points /\ x \in Points
    BY <1>4, LegIs
  <2>2. Length(P(n), x) \in Nat /\ R[n] \in Nat
    BY <1>1, <2>1, LengthType
  <2>3. PICK j \in Nat, m \in Nat : j = R[n] /\ m = k - R[n] /\ j + m = k /\ Length(P(n), x) =< m /\ j \in 0..K
    BY <1>1, <1>4, <2>2
  <2>4. P(n) \in Around(p, K)[j]
    BY <2>2, <2>3, GetsToNode
  <2>5. x \in Around(p, K)[j + m]
    BY <1>4, <2>1, <2>3, <2>4, StepsAlong
  <2> QED BY <2>3, <2>5
<1> QED BY <1>2, <1>3, <1>4 DEF OnGround

\* From a node within reach, the ground goes on along its legs.
LEMMA GroundGoesOn ==
  ASSUME Sound, NEW p \in Points, NEW K \in Nat, NEW R, Measures(R, p, K),
         NEW z \in Nodes, NEW n \in Nodes, NEW e \in EdgesOf(graph, n), z = n \/ z = e.to,
         NEW k \in Nat, R[z] =< k, NEW x \in Leg(n, e), Length(P(z), x) = 1
  PROVE  OnGround(x, p, R, k + 1)
<1>1. R[z] \in Nat
  BY DEF Measures
<1>2. R[z] + Length(P(z), x) =< k + 1
  BY <1>1
<1>3. \E f \in EdgesOf(graph, z) : x \in Leg(z, f)
  BY LegIs
<1> QED BY <1>2, <1>3 DEF OnGround

\* A node on the ground is as near as that.
LEMMA NodeOnGround ==
  ASSUME Sound, NEW p \in Points, NEW K \in Nat, NEW R, Measures(R, p, K),
         NEW n \in Nodes, NEW k \in 0..K, OnGround(P(n), p, R, k)
  PROVE  R[n] =< k
<1>1. R \in [Nodes -> Nat]
  BY DEF Measures
<1>2. CASE P(n) = p
  BY <1>1, <1>2 DEF Measures
<1>3. ASSUME NEW u \in Nodes, NEW f \in EdgesOf(graph, u), P(n) \in Leg(u, f)
      PROVE  n = u \/ n = f.to
  BY <1>3 DEF Sound, EdgesMeet
<1>4. ASSUME NEW u \in Nodes, NEW f \in EdgesOf(graph, u), P(n) \in Leg(u, f), p \in Leg(u, f), Length(p, P(n)) =< k
      PROVE  R[n] =< k
  <2>1. \E e \in EdgesOf(graph, n) : p \in Leg(n, e)
    BY <1>3, <1>4, LegIs
  <2>2. R[n] =< Length(p, P(n))
    BY <2>1 DEF Measures
  <2>3. Length(p, P(n)) \in Nat
    BY NodesAre, LengthType
  <2> QED BY <1>1, <1>4, <2>2, <2>3
<1>5. ASSUME NEW u \in Nodes, NEW f \in EdgesOf(graph, u), P(n) \in Leg(u, f), R[u] + Length(P(u), P(n)) =< k
      PROVE  R[n] =< k
  <2>1. CASE n = u
    <3>1. Length(P(u), P(n)) \in Nat
      BY NodesAre, LengthType
    <3> QED BY <1>1, <1>5, <2>1, <3>1
  <2>2. CASE n = f.to
    <3>1. f.length = Length(P(u), P(n)) /\ f.length \in Nat
      BY <2>2, LegIs
    <3>2. R[u] + f.length =< K
      BY <1>1, <1>5, <3>1
    <3>3. R[n] =< R[u] + f.length
      BY <2>2, <3>2 DEF Measures
    <3> QED BY <1>1, <1>5, <3>1, <3>3
  <2> QED BY <1>3, <1>5, <2>1, <2>2
<1> QED BY <1>2, <1>4, <1>5 DEF OnGround

\* A step from the ground is on the ground a step farther.
LEMMA GroundStep ==
  ASSUME Sound, NEW p \in Points, NEW K \in Nat, NEW R, Measures(R, p, K),
         NEW k \in Nat, k + 1 =< K, NEW q, OnGround(q, p, R, k), NEW x, Next_to(q, x)
  PROVE  OnGround(x, p, R, k + 1)
<1>9. PICK n \in Nodes : \E e \in EdgesOf(graph, n) : q \in Leg(n, e) /\ x \in Leg(n, e) /\ Length(q, x) = 1
  BY DEF Next_to
<1>1. PICK e \in EdgesOf(graph, n) : q \in Leg(n, e) /\ x \in Leg(n, e) /\ Length(q, x) = 1
  BY <1>9
<1>2. q \in Points /\ x \in Points /\ P(n) \in Points /\ P(e.to) \in Points /\ e.to \in Nodes
  BY <1>1, LegIs
<1>3. R \in [Nodes -> Nat] /\ k \in 0..K
  BY DEF Measures
\* q is a node of the leg, got to in as many steps
<1>4. ASSUME NEW z \in Nodes, q = P(z), z = n \/ z = e.to
      PROVE  OnGround(x, p, R, k + 1)
  <2>1. R[z] =< k
    BY <1>3, <1>4, NodeOnGround
  <2>2. Length(P(z), x) = 1
    BY <1>1, <1>4
  <2> QED BY <1>1, <1>4, <2>1, <2>2, GroundGoesOn
<1>5. CASE q = p
  BY <1>1, <1>3, <1>5 DEF OnGround
\* the leg that brought q to the ground is the same or meets this one at q
<1>6. ASSUME NEW u \in Nodes, NEW f \in EdgesOf(graph, u), q \in Leg(u, f)
      PROVE  \/ Leg(u, f) = Leg(n, e)
             \/ \E z \in Nodes : q = P(z) /\ (z = n \/ z = e.to)
  <2>1. \/ u = n /\ f.to = e.to
        \/ u = e.to /\ f.to = n
        \/ q = P(n) \/ q = P(e.to)
    BY <1>1, <1>6 DEF Sound, EdgesMeet
  <2>2. CASE u = n /\ f.to = e.to
    BY <2>2 DEF Leg
  <2>3. CASE u = e.to /\ f.to = n
    BY <1>2, <2>3, StretchSymmetric DEF Leg
  <2> QED BY <1>2, <2>1, <2>2, <2>3
<1>7. ASSUME NEW u \in Nodes, NEW f \in EdgesOf(graph, u), q \in Leg(u, f), p \in Leg(u, f), Length(p, q) =< k
      PROVE  OnGround(x, p, R, k + 1)
  <2>1. CASE Leg(u, f) = Leg(n, e)
    <3>1. Length(p, x) =< Length(p, q) + Length(q, x) /\ Length(p, x) \in Nat /\ Length(p, q) \in Nat
      BY <1>2, Triangle, LengthType
    <3>2. Length(p, x) =< k + 1
      BY <1>1, <1>7, <3>1
    <3> QED BY <1>1, <1>7, <2>1, <3>2 DEF OnGround
  <2> QED BY <1>4, <1>6, <1>7, <2>1
<1>8. ASSUME NEW u \in Nodes, NEW f \in EdgesOf(graph, u), q \in Leg(u, f), R[u] + Length(P(u), q) =< k
      PROVE  OnGround(x, p, R, k + 1)
  <2>1. CASE Leg(u, f) = Leg(n, e)
    <3>1. P(u) \in Points
      BY NodesAre
    <3>2. Length(P(u), x) =< Length(P(u), q) + Length(q, x) /\ Length(P(u), x) \in Nat /\ Length(P(u), q) \in Nat
      BY <1>2, <3>1, Triangle, LengthType
    <3>3. R[u] + Length(P(u), x) =< k + 1
      BY <1>1, <1>3, <1>8, <3>2
    <3> QED BY <1>1, <2>1, <3>3 DEF OnGround
  <2> QED BY <1>4, <1>6, <1>8, <2>1
<1> QED BY <1>5, <1>7, <1>8 DEF OnGround

\* Ground within a distance is within a longer one.
LEMMA GroundWidens ==
  ASSUME Sound, NEW p \in Points, NEW R \in [Nodes -> Nat], NEW k \in Nat, NEW x, OnGround(x, p, R, k)
  PROVE  OnGround(x, p, R, k + 1)
<1>1. ASSUME NEW n \in Nodes, NEW e \in EdgesOf(graph, n), x \in Leg(n, e)
      PROVE  /\ Length(p, x) =< k => Length(p, x) =< k + 1
             /\ R[n] + Length(P(n), x) =< k => R[n] + Length(P(n), x) =< k + 1
  <2>1. x \in Points /\ P(n) \in Points
    BY <1>1, LegIs
  <2>2. Length(p, x) \in Nat /\ Length(P(n), x) \in Nat /\ R[n] \in Nat
    BY <2>1, LengthType
  <2> QED BY <2>2
<1> QED BY <1>1 DEF OnGround

\* One gets to the ground and no farther.
LEMMA GroundIs ==
  ASSUME Sound, NEW p \in Points, NEW K \in Nat, NEW R, Measures(R, p, K), NEW k \in 0..K
  PROVE  /\ \A x : x \in Around(p, K)[k] <=> OnGround(x, p, R, k)
         /\ \A n \in Nodes : P(n) \in Around(p, K)[k] <=> R[n] =< k
<1> DEFINE S == {i \in Nat : i =< K => \A x : x \in Around(p, K)[i] => OnGround(x, p, R, i)}
<1>1. 0 \in S
  BY AroundIs DEF OnGround
<1>2. ASSUME NEW i \in Nat, i \in S PROVE i + 1 \in S
  <2>1. SUFFICES ASSUME i + 1 =< K, NEW x, x \in Around(p, K)[i + 1] PROVE OnGround(x, p, R, i + 1)
    OBVIOUS
  <2>2. PICK j \in 1..K : j = i + 1 /\ j - 1 = i
    BY <2>1
  <2>3. x \in Around(p, K)[i] \/ \E q \in Around(p, K)[i] : Next_to(q, x)
    BY <2>1, <2>2, AroundIs
  <2>4. CASE x \in Around(p, K)[i]
    <3>1. OnGround(x, p, R, i) /\ R \in [Nodes -> Nat]
      BY <1>2, <2>1, <2>4 DEF Measures
    <3> QED BY <3>1, GroundWidens
  <2>5. CASE \E q \in Around(p, K)[i] : Next_to(q, x)
    <3>1. PICK q \in Around(p, K)[i] : Next_to(q, x)
      BY <2>5
    <3>2. OnGround(q, p, R, i)
      BY <1>2, <2>1
    <3> QED BY <2>1, <3>1, <3>2, GroundStep
  <2> QED BY <2>3, <2>4, <2>5
<1>3. k \in S
  <2> HIDE DEF S
  <2> QED BY <1>1, <1>2, Induction
<1>4. \A x : x \in Around(p, K)[k] <=> OnGround(x, p, R, k)
  BY <1>3, GroundIsReached
<1>5. \A n \in Nodes : P(n) \in Around(p, K)[k] <=> R[n] =< k
  BY <1>4, GetsToNode, NodeOnGround
<1> QED BY <1>4, <1>5

-----------------------------------------------------------------------------
(* The leg a place is on.                                                   *)
LegsOut == UNION {{<<n, k>> : k \in {j \in DOMAIN graph.edges[n] : graph.edges[n][j].to >= n}} : n \in Nodes}
EndOf(l) == graph.edges[l[1]][l[2]].to
On(p, l) == Closest(p, graph.points[l[1]], graph.points[EndOf(l)])
NoLater(l, m) == l[1] < m[1] \/ (l[1] = m[1] /\ l[2] =< m[2])
Nearest(p) == {l \in LegsOut : Apart(p, On(p, l)) = Min({Apart(p, On(p, m)) : m \in LegsOut})}

\* NearestLeg, said of the legs as a set.
LEMMA NearestLegIs ==
  ASSUME NEW p
  PROVE  LET nearest == CHOOSE l \in Nearest(p) : \A m \in Nearest(p) : NoLater(l, m)
         IN NearestLeg(p) = [a |-> nearest[1], b |-> EndOf(nearest), at |-> On(p, nearest)]
BY DEF NearestLeg, Nearest, LegsOut, EndOf, On, NoLater

\* Every leg is listed once, from the lesser of its ends.
LEMMA LegsOutAre ==
  ASSUME Sound, NEW l
  PROVE  l \in LegsOut <=> \E n \in Nodes : \E k \in 1..Len(graph.edges[n]) :
                             l = <<n, k>> /\ graph.edges[n][k].to >= n
<1>1. \A n \in Nodes : DOMAIN graph.edges[n] = 1..Len(graph.edges[n])
  BY DEF Sound, EdgesTyped
<1> QED BY <1>1 DEF LegsOut

\* The ends of a listed leg are nodes, joined by an edge.
LEMMA LegOut ==
  ASSUME Sound, NEW l \in LegsOut
  PROVE  /\ l[1] \in Nodes /\ l[1] \in Nat /\ l[2] \in Nat
         /\ \E e \in EdgesOf(graph, l[1]) : EndOf(l) = e.to
<1>1. PICK n \in Nodes : \E k \in 1..Len(graph.edges[n]) : l = <<n, k>>
  BY LegsOutAre
<1>2. graph.edges[n] \in Seq([to : Nodes, length : Nat])
  BY DEF Sound, EdgesTyped
<1>3. PICK k \in 1..Len(graph.edges[n]) : l = <<n, k>>
  BY <1>1
<1>4. graph.edges[n][k] \in EdgesOf(graph, n)
  BY <1>2 DEF EdgesOf, ToSet
<1>5. n \in Nat /\ k \in Nat
  BY <1>2, NodesAre
<1>6. l[1] = n /\ l[2] = k
  BY <1>3
<1> QED BY <1>4, <1>5, <1>6 DEF EndOf

\* The first of some pairs of numbers.
LEMMA FirstExists ==
  ASSUME NEW L, L # {}, \A l \in L : l[1] \in Nat /\ l[2] \in Nat
  PROVE  \E l \in L : \A m \in L : NoLater(l, m)
<1>1. PICK A : A = {l[1] : l \in L}
  OBVIOUS
<1>2. A \subseteq Nat /\ A # {}
  BY <1>1
<1>3. PICK a \in A : \A x \in A : a =< x
  BY <1>2, LeastOf
<1>4. PICK B : B = {l[2] : l \in {m \in L : m[1] = a}}
  OBVIOUS
<1>5. B \subseteq Nat /\ B # {}
  BY <1>1, <1>4
<1>6. PICK b \in B : \A x \in B : b =< x
  BY <1>5, LeastOf
<1>7. PICK l \in L : l[1] = a /\ l[2] = b
  BY <1>4
<1>8. ASSUME NEW m \in L PROVE NoLater(l, m)
  <2>1. m[1] \in A /\ a =< m[1] /\ m[1] \in Nat /\ a \in Nat
    BY <1>1, <1>2, <1>3
  <2>2. CASE m[1] = a
    <3>1. m[2] \in B
      BY <1>4, <2>2
    <3> QED BY <1>6, <1>7, <2>2, <3>1 DEF NoLater
  <2> QED BY <1>7, <2>1, <2>2 DEF NoLater
<1> QED BY <1>8

\* The leg nearest a place is one it is on.
LEMMA PlaceOnLeg ==
  ASSUME Sound, NEW p \in Places
  PROVE  LET leg == NearestLeg(p)
         IN /\ leg.at = p /\ leg.a \in Nodes
            /\ \E e \in EdgesOf(graph, leg.a) : leg.b = e.to /\ p \in Leg(leg.a, e)
<1>1. p \in Points
  BY PlacesAre
<1>2. PICK n \in Nodes : \E e \in EdgesOf(graph, n) : p \in Leg(n, e)
  BY PlacesAre
<1>3. PICK e \in EdgesOf(graph, n) : p \in Leg(n, e)
  BY <1>2
<1>4. ASSUME NEW l \in LegsOut
      PROVE  /\ Apart(p, On(p, l)) \in Nat /\ (Apart(p, On(p, l)) = 0 <=> On(p, l) = p)
             /\ \E f \in EdgesOf(graph, l[1]) : EndOf(l) = f.to /\ (On(p, l) = p <=> p \in Leg(l[1], f))
  <2>1. PICK f \in EdgesOf(graph, l[1]) : EndOf(l) = f.to
    BY LegOut
  <2>2. l[1] \in Nodes
    BY LegOut
  <2>3. P(l[1]) \in Points /\ P(f.to) \in Points
    BY <2>2, LegIs
  <2>4. On(p, l) = Closest(p, P(l[1]), P(f.to))
    BY <2>1 DEF On, P
  <2>5. On(p, l) \in Points /\ (On(p, l) = p <=> p \in Leg(l[1], f))
    BY <1>1, <2>3, <2>4, ClosestIs DEF Leg
  <2>6. Apart(p, On(p, l)) \in Nat /\ (Apart(p, On(p, l)) = 0 <=> On(p, l) = p)
    BY <1>1, <2>5, ApartIs
  <2> QED BY <2>1, <2>5, <2>6
<1>5. \E l \in LegsOut : On(p, l) = p
  <2>1. ASSUME NEW m \in Nodes, NEW f \in EdgesOf(graph, m), p \in Leg(m, f), f.to >= m
        PROVE  \E l \in LegsOut : On(p, l) = p
    <3>1. graph.edges[m] \in Seq([to : Nodes, length : Nat])
      BY DEF Sound, EdgesTyped
    <3>2. PICK k \in 1..Len(graph.edges[m]) : f = graph.edges[m][k]
      BY <3>1 DEF EdgesOf, ToSet
    <3>3. PICK l : l = <<m, k>>
      OBVIOUS
    <3>4. l \in LegsOut /\ EndOf(l) = f.to /\ l[1] = m
      BY <2>1, <3>2, <3>3, LegsOutAre DEF EndOf
    <3>5. P(m) \in Points /\ P(f.to) \in Points
      BY LegIs
    <3>6. On(p, l) = Closest(p, P(m), P(f.to))
      BY <3>4 DEF On, P
    <3>7. On(p, l) = p
      BY <1>1, <2>1, <3>5, <3>6, ClosestIs DEF Leg
    <3> QED BY <3>4, <3>7
  <2>2. CASE e.to >= n
    BY <1>3, <2>1, <2>2
  <2>3. CASE ~ (e.to >= n)
    <3>1. e.to \in Nodes /\ \E f \in EdgesOf(graph, e.to) : f.to = n /\ Leg(e.to, f) = Leg(n, e)
      BY LegIs
    <3>2. n >= e.to
      BY <2>3, <3>1, NodesAre
    <3> QED BY <1>3, <2>1, <3>1, <3>2
  <2> QED BY <2>2, <2>3
<1>6. PICK D : D = {Apart(p, On(p, l)) : l \in LegsOut}
  OBVIOUS
<1>7. D \subseteq Nat /\ 0 \in D
  BY <1>4, <1>5, <1>6
<1>8. Min(D) = 0
  <2>1. Min(D) \in D /\ \A x \in D : Min(D) =< x
    BY <1>7, MinIs
  <2>2. Min(D) \in Nat /\ Min(D) =< 0
    BY <1>7, <2>1
  <2> QED BY <2>2
<1>9. \A l : l \in Nearest(p) <=> l \in LegsOut /\ On(p, l) = p
  BY <1>4, <1>6, <1>8 DEF Nearest
<1>10. PICK nearest : nearest = CHOOSE l \in Nearest(p) : \A m \in Nearest(p) : NoLater(l, m)
  OBVIOUS
<1>11. nearest \in Nearest(p)
  <2>1. \E l \in Nearest(p) : \A m \in Nearest(p) : NoLater(l, m)
    BY <1>5, <1>9, LegOut, FirstExists
  <2> QED BY <1>10, <2>1
<1>12. NearestLeg(p) = [a |-> nearest[1], b |-> EndOf(nearest), at |-> On(p, nearest)]
  BY <1>10, NearestLegIs
<1>13. nearest \in LegsOut /\ On(p, nearest) = p
  BY <1>9, <1>11
<1>14. nearest[1] \in Nodes /\ \E f \in EdgesOf(graph, nearest[1]) : EndOf(nearest) = f.to /\ p \in Leg(nearest[1], f)
  BY <1>4, <1>13, LegOut
<1> QED BY <1>12, <1>13, <1>14

-----------------------------------------------------------------------------
(* Within.                                                                  *)

\* Reached, measured along both ways from a place on a leg.
LEMMA ReachedIs ==
  ASSUME Sound, RoutesSound, Measured, NEW a \in Nodes, NEW e \in EdgesOf(graph, a), NEW p \in Leg(a, e),
         NEW leg, leg = [a |-> a, b |-> e.to, at |-> p], NEW n \in Nodes
  PROVE  /\ Reached(leg, n) \in Nat
         /\ \A c \in {a, e.to} : Reached(leg, n) =< Length(p, P(c)) + routes[c].distance[n]
         /\ \E c \in {a, e.to} : Reached(leg, n) = Length(p, P(c)) + routes[c].distance[n]
<1>1. e.to \in Nodes /\ p \in Points /\ P(a) \in Points /\ P(e.to) \in Points
  BY LegIs
<1>2. \A c \in Nodes : routes[c].distance \in [Nodes -> Nat]
  BY NodesAre DEF RoutesSound, Measured, Found, Rooted, Distances
<1>3. PICK x \in Nat : x = Length(p, P(a)) + routes[a].distance[n]
  BY <1>1, <1>2, LengthType
<1>4. PICK y \in Nat : y = Length(p, P(e.to)) + routes[e.to].distance[n]
  BY <1>1, <1>2, LengthType
<1>5. Reached(leg, n) = Min({x, y})
  BY <1>3, <1>4 DEF Reached, P
<1>6. Min({x, y}) = IF x < y THEN x ELSE y
  BY MinOfTwo
<1> QED BY <1>3, <1>4, <1>5, <1>6

\* What Found says of routes from a node, and every node's are found.
LEMMA RouteIs ==
  ASSUME Sound, RoutesSound, Measured, NEW c \in Nodes
  PROVE  /\ Found(routes[c], c)
         /\ routes[c].distance \in [Nodes -> Nat] /\ routes[c].distance[c] = 0
         /\ \A n \in Nodes : routes[c].distance[n] # Far =>
              /\ routes[c].distance[n] < Far
              /\ \A e \in EdgesOf(graph, n) : routes[c].distance[e.to] # Far /\ routes[c].distance[e.to] =< routes[c].distance[n] + e.length
         /\ \A n \in Nodes : routes[c].distance[n] # Far /\ n # c =>
              \E m \in Nodes : \E e \in EdgesOf(graph, m) :
                e.to = n /\ routes[c].distance[m] # Far /\ routes[c].distance[n] = routes[c].distance[m] + e.length
<1>1. c \in 1..Len(routes)
  BY NodesAre DEF Measured
<1>2. Found(routes[c], c)
  BY <1>1 DEF RoutesSound
<1>3. routes[c].distance \in [Nodes -> Nat] /\ routes[c].distance[c] = 0
  BY <1>2 DEF Found, Rooted, Distances
<1>4. ASSUME NEW n \in Nodes, routes[c].distance[n] # Far, n # c
      PROVE  \E m \in Nodes : \E e \in EdgesOf(graph, m) :
               e.to = n /\ routes[c].distance[m] # Far /\ routes[c].distance[n] = routes[c].distance[m] + e.length
  <2>1. TracedBy(routes[c].distance, routes[c].previous, c, n)
    BY <1>2 DEF Found, Rooted
  <2> QED BY <1>4, <2>1 DEF TracedBy
<1> QED BY <1>2, <1>3, <1>4 DEF Found

\* Reached measures every node from a place on a leg.
LEMMA ReachedMeasures ==
  ASSUME Sound, RoutesSound, Measured, NEW a \in Nodes, NEW e \in EdgesOf(graph, a), NEW p \in Leg(a, e),
         NEW leg, leg = [a |-> a, b |-> e.to, at |-> p], NEW K \in Nat, K < Far,
         NEW R, R = [n \in Nodes |-> Reached(leg, n)]
  PROVE  Measures(R, p, K)
<1>1. e.to \in Nodes /\ p \in Points /\ P(a) \in Points /\ P(e.to) \in Points
  BY LegIs
<1>2. PICK B : B = {a, e.to}
  OBVIOUS
<1>3. B \subseteq Nodes
  BY <1>1, <1>2
<1>4. PICK d : d = [c \in Nodes |-> routes[c].distance]
  OBVIOUS
<1>5. \A c \in Nodes :
        /\ d[c] \in [Nodes -> Nat] /\ d[c][c] = 0
        /\ \A n \in Nodes : d[c][n] # Far =>
             \A f \in EdgesOf(graph, n) : d[c][f.to] # Far /\ d[c][f.to] =< d[c][n] + f.length
        /\ \A n \in Nodes : d[c][n] # Far /\ n # c =>
             \E m \in Nodes : \E f \in EdgesOf(graph, m) : f.to = n /\ d[c][n] = d[c][m] + f.length
  BY <1>4, RouteIs
<1>6. \A c \in B : Length(p, P(c)) \in Nat
  BY <1>1, <1>2, LengthType
<1>7. \A n \in Nodes :
        /\ R[n] \in Nat
        /\ \A c \in B : R[n] =< Length(p, P(c)) + d[c][n]
        /\ \E c \in B : R[n] = Length(p, P(c)) + d[c][n]
  BY <1>2, <1>3, <1>4, ReachedIs
<1>8. R \in [Nodes -> Nat]
  BY <1>7
\* where a place is an end of the leg, it is at no distance
<1>9. ASSUME NEW z \in B, P(z) = p PROVE R[z] = 0 /\ \A n \in Nodes : R[n] =< d[z][n]
  <2>1. z \in Nodes /\ Length(p, P(z)) = 0 /\ d[z][z] = 0
    BY <1>1, <1>3, <1>5, <1>9, LengthType
  <2>2. \A n \in Nodes : R[n] =< d[z][n]
    <3>1. TAKE n \in Nodes
    <3>2. d[z][n] \in Nat /\ R[n] =< 0 + d[z][n] /\ R[n] \in Nat
      BY <1>5, <1>7, <2>1
    <3> QED BY <3>2
  <2>3. R[z] \in Nat /\ R[z] =< 0
    BY <1>7, <2>1, <2>2
  <2> QED BY <2>2, <2>3
<1>10. ASSUME NEW n \in Nodes, P(n) = p PROVE R[n] = 0
  <2>1. n \in B
    BY <1>2, <1>10 DEF Sound, EdgesMeet
  <2> QED BY <1>9, <1>10, <2>1
<1>11. ASSUME NEW n \in Nodes, NEW f \in EdgesOf(graph, n), R[n] + f.length =< K
       PROVE  R[f.to] =< R[n] + f.length
  <2>1. PICK c \in B : R[n] = Length(p, P(c)) + d[c][n]
    BY <1>7
  <2>2. f.length \in Nat /\ f.to \in Nodes /\ c \in Nodes /\ Length(p, P(c)) \in Nat /\ Far \in Nat
    BY <1>3, <1>6, LegIs, FarIs
  <2>3. d[c][n] \in Nat /\ d[c][f.to] \in Nat
    BY <1>5, <2>2
  <2>4. d[c][n] # Far
    BY <1>11, <2>1, <2>2, <2>3
  <2>5. d[c][f.to] =< d[c][n] + f.length
    BY <1>5, <2>2, <2>4
  <2>6. R[f.to] =< Length(p, P(c)) + d[c][f.to] /\ R[f.to] \in Nat
    BY <1>7, <2>2
  <2> QED BY <2>1, <2>2, <2>3, <2>5, <2>6
<1>12. ASSUME NEW n \in Nodes, NEW f \in EdgesOf(graph, n), p \in Leg(n, f)
       PROVE  R[n] =< Length(p, P(n))
  <2>0. f.to \in Nodes /\ P(n) \in Points /\ P(f.to) \in Points
    BY LegIs
  <2>1. \/ n = a /\ f.to = e.to
        \/ n = e.to /\ f.to = a
        \/ (p = P(a) \/ p = P(e.to)) /\ (p = P(n) \/ p = P(f.to))
    BY <1>12 DEF Sound, EdgesMeet
  <2>2. CASE n \in B
    <3>1. d[n][n] = 0 /\ Length(p, P(n)) \in Nat /\ R[n] =< Length(p, P(n)) + d[n][n]
      BY <1>5, <1>6, <1>7, <2>2
    <3> QED BY <1>7, <3>1
  <2>3. CASE p = P(n)
    BY <1>1, <1>10, <2>3, LengthType
  <2>4. ASSUME NEW z \in B, p = P(z), p = P(f.to) PROVE R[n] =< Length(p, P(n))
    <3>1. z = f.to
      BY <1>3, <2>0, <2>4 DEF Sound, NodesSound
    <3>2. PICK g \in EdgesOf(graph, z) : g.to = n /\ g.length = f.length
      BY <3>1, LegIs
    <3>3. d[z][n] =< d[z][z] + g.length
      <4>1. d[z][z] = 0 /\ z \in Nodes /\ 0 # Far
        BY <1>3, <1>5, FarIs
      <4> QED BY <1>5, <3>2, <4>1
    <3>4. d[z][n] \in Nat /\ d[z][z] = 0 /\ g.length = Length(p, P(n)) /\ g.length \in Nat /\ R[n] =< d[z][n] /\ R[n] \in Nat
      <4>1. g.length = Length(P(z), P(n)) /\ g.length \in Nat
        BY <1>3, <3>2, LegIs
      <4> QED BY <1>3, <1>5, <1>7, <1>9, <2>4, <4>1
    <3> QED BY <3>3, <3>4
  <2> QED BY <1>2, <2>1, <2>2, <2>3, <2>4
<1>13. ASSUME NEW n \in Nodes, R[n] =< K
       PROVE  \/ P(n) = p
              \/ \E f \in EdgesOf(graph, n) : p \in Leg(n, f) /\ Length(p, P(n)) =< R[n]
              \/ \E m \in Nodes : \E f \in EdgesOf(graph, m) : f.to = n /\ R[m] + f.length =< R[n]
  <2>1. PICK c \in B : R[n] = Length(p, P(c)) + d[c][n]
    BY <1>7
  <2>2. c \in Nodes /\ Length(p, P(c)) \in Nat /\ d[c][n] \in Nat /\ Far \in Nat /\ d[c][c] = 0
    BY <1>3, <1>5, <1>6, FarIs
  <2>3. d[c][n] # Far
    BY <1>13, <2>1, <2>2
  <2>4. CASE n = c
    <3>1. \E f \in EdgesOf(graph, n) : p \in Leg(n, f)
      BY <1>2, <2>4, LegIs
    <3> QED BY <2>1, <2>2, <2>4, <3>1
  <2>5. CASE n # c
    <3>1. PICK m \in Nodes : \E f \in EdgesOf(graph, m) : f.to = n /\ d[c][n] = d[c][m] + f.length
      BY <1>5, <2>2, <2>3, <2>5
    <3>2. PICK f \in EdgesOf(graph, m) : f.to = n /\ d[c][n] = d[c][m] + f.length
      BY <3>1
    <3>3. R[m] =< Length(p, P(c)) + d[c][m] /\ R[m] \in Nat /\ d[c][m] \in Nat /\ f.length \in Nat
      BY <1>5, <1>7, <2>2, LegIs
    <3>4. R[m] + f.length =< R[n]
      BY <2>1, <2>2, <3>2, <3>3
    <3> QED BY <3>2, <3>4
  <2> QED BY <2>4, <2>5
<1> QED BY <1>8, <1>10, <1>11, <1>12, <1>13 DEF Measures

\* Within gives the ground.
LEMMA WithinIs ==
  ASSUME Sound, RoutesSound, Measured, NEW a \in Nodes, NEW e \in EdgesOf(graph, a), NEW p \in Leg(a, e),
         NEW leg, leg = [a |-> a, b |-> e.to, at |-> p], NearestLeg(p) = leg,
         NEW K \in Nat, K < Far,
         NEW R, R = [n \in Nodes |-> Reached(leg, n)], NEW d \in 0..K
  PROVE  \A x : x \in Within(p, d) <=> OnGround(x, p, R, d)
<1>1. e.to \in Nodes /\ p \in Points /\ P(a) \in Points /\ P(e.to) \in Points /\ Straight(P(a), P(e.to)) /\ d \in Nat
  BY LegIs
<1>2. Measures(R, p, K) /\ R \in [Nodes -> Nat] /\ \A n \in Nodes : P(n) = p => R[n] = 0
  <2>1. Measures(R, p, K)
    BY ReachedMeasures
  <2> QED BY <2>1 DEF Measures
<1>3. /\ Stretch(p, P(a)) \subseteq Leg(a, e) /\ Stretch(p, P(e.to)) \subseteq Leg(a, e)
      /\ Leg(a, e) \subseteq Stretch(p, P(a)) \cup Stretch(p, P(e.to))
      /\ Straight(p, P(a)) /\ Straight(p, P(e.to))
  BY <1>1, PartsOf DEF Leg
<1>4. \A x : x \in Within(p, d) <=>
        \/ x \in Along(p, P(a), d) \/ x \in Along(p, P(e.to), d)
        \/ \E n \in Nodes : \E f \in EdgesOf(graph, n) : R[n] =< d /\ x \in Along(P(n), P(f.to), d - R[n])
  <2>1. \A n \in Nodes : R[n] = Reached(leg, n)
    OBVIOUS
  <2>2. leg.a = a /\ leg.b = e.to /\ leg.at = p
    OBVIOUS
  <2>3. Within(p, d) =
          Along(p, P(a), d) \cup Along(p, P(e.to), d)
          \cup UNION {UNION {Along(P(n), P(f.to), d - Reached(leg, n)) : f \in EdgesOf(graph, n)}
                        : n \in {m \in Nodes : Reached(leg, m) =< d}}
    BY <2>2 DEF Within, P
  <2>4. PICK G : G = UNION {UNION {Along(P(n), P(f.to), d - Reached(leg, n)) : f \in EdgesOf(graph, n)}
                        : n \in {m \in Nodes : Reached(leg, m) =< d}}
    OBVIOUS
  <2>5. \A x : x \in G <=> \E n \in Nodes : \E f \in EdgesOf(graph, n) :
                             Reached(leg, n) =< d /\ x \in Along(P(n), P(f.to), d - Reached(leg, n))
    BY <2>4
  <2>6. \A x : x \in G <=> \E n \in Nodes : \E f \in EdgesOf(graph, n) : R[n] =< d /\ x \in Along(P(n), P(f.to), d - R[n])
    BY <2>1, <2>5
  <2> QED BY <2>3, <2>4, <2>6
<1>5. ASSUME NEW x, NEW n \in Nodes, NEW f \in EdgesOf(graph, n)
      PROVE  R[n] =< d /\ x \in Along(P(n), P(f.to), d - R[n]) <=> x \in Leg(n, f) /\ R[n] + Length(P(n), x) =< d
  <2>1. P(n) \in Points /\ P(f.to) \in Points /\ Straight(P(n), P(f.to)) /\ R[n] \in Nat
    BY <1>2, LegIs
  <2>2. CASE R[n] =< d
    <3>1. PICK c \in Nat : c = d - R[n]
      BY <1>1, <2>1, <2>2
    <3>2. x \in Along(P(n), P(f.to), c) <=> x \in Leg(n, f) /\ Length(P(n), x) =< c
      BY <2>1, AlongIs DEF Leg
    <3>3. x \in Leg(n, f) => Length(P(n), x) \in Nat
      BY <2>1, LegIs, LengthType
    <3> QED BY <1>1, <2>1, <2>2, <3>1, <3>2, <3>3
  <2>3. CASE ~(R[n] =< d)
    <3>1. x \in Leg(n, f) => Length(P(n), x) \in Nat
      BY <2>1, LegIs, LengthType
    <3> QED BY <1>1, <2>1, <2>3, <3>1
  <2> QED BY <2>2, <2>3
<1>6. ASSUME NEW x
      PROVE  /\ x \in Along(p, P(a), d) <=> x \in Stretch(p, P(a)) /\ Length(p, x) =< d
             /\ x \in Along(p, P(e.to), d) <=> x \in Stretch(p, P(e.to)) /\ Length(p, x) =< d
  BY <1>1, <1>3, AlongIs
<1>7. ASSUME NEW x, x \in Within(p, d) PROVE OnGround(x, p, R, d)
  <2>1. CASE x \in Along(p, P(a), d) \/ x \in Along(p, P(e.to), d)
    <3>1. x \in Leg(a, e) /\ Length(p, x) =< d
      BY <1>3, <1>6, <2>1
    <3> QED BY <3>1 DEF OnGround
  <2>2. CASE \E n \in Nodes : \E f \in EdgesOf(graph, n) : R[n] =< d /\ x \in Along(P(n), P(f.to), d - R[n])
    BY <1>5, <2>2 DEF OnGround
  <2> QED BY <1>4, <1>7, <2>1, <2>2
<1>8. ASSUME NEW x, OnGround(x, p, R, d) PROVE x \in Within(p, d)
  <2>1. CASE x = p
    <3>1. p \in Stretch(p, P(a)) /\ Length(p, p) =< d
      BY <1>1, EndsOn, LengthType
    <3> QED BY <1>4, <1>6, <2>1, <3>1
  <2>2. ASSUME NEW n \in Nodes, NEW f \in EdgesOf(graph, n), x \in Leg(n, f), p \in Leg(n, f), Length(p, x) =< d
        PROVE  x \in Within(p, d)
    <3>1. \/ n = a /\ f.to = e.to
          \/ n = e.to /\ f.to = a
          \/ (p = P(a) \/ p = P(e.to)) /\ (p = P(n) \/ p = P(f.to))
      BY <2>2 DEF Sound, EdgesMeet
    <3>2. CASE (n = a /\ f.to = e.to) \/ (n = e.to /\ f.to = a)
      <4>1. Leg(n, f) = Leg(a, e)
        BY <1>1, <3>2, StretchSymmetric DEF Leg
      <4> QED BY <1>3, <1>4, <1>6, <2>2, <4>1
    <3>3. ASSUME NEW z \in Nodes, p = P(z), z = n \/ z = f.to PROVE x \in Within(p, d)
      <4>1. R[z] = 0
        BY <1>2, <3>3
      <4>2. \E g \in EdgesOf(graph, z) : x \in Leg(z, g)
        BY <2>2, <3>3, LegIs
      <4>3. x \in Points
        BY <2>2, LegIs
      <4>4. R[z] + Length(P(z), x) =< d
        BY <1>1, <2>2, <3>3, <4>1, <4>3, LengthType
      <4> QED BY <1>4, <1>5, <4>2, <4>4
    <3>4. f.to \in Nodes
      BY LegIs
    <3> QED BY <3>1, <3>2, <3>3, <3>4
  <2>3. ASSUME NEW n \in Nodes, NEW f \in EdgesOf(graph, n), x \in Leg(n, f), R[n] + Length(P(n), x) =< d
        PROVE  x \in Within(p, d)
    BY <1>4, <1>5, <2>3
  <2> QED BY <1>8, <2>1, <2>2, <2>3 DEF OnGround
<1> QED BY <1>7, <1>8

\* The ground Within gives is where one gets to.
LEMMA WithinExact ==
  ASSUME Sound, RoutesSound, Measured, NEW p \in Places, NEW K \in Nat, K < Far, NEW d \in 0..K
  PROVE  \A x : x \in Within(p, d) <=> x \in Around(p, K)[d]
<1>1. PICK leg : leg = NearestLeg(p)
  OBVIOUS
<1>2. PICK a \in Nodes : a = leg.a
  BY <1>1, PlaceOnLeg
<1>3. PICK e \in EdgesOf(graph, a) : leg.b = e.to /\ p \in Leg(a, e)
  BY <1>1, <1>2, PlaceOnLeg
<1>4. leg = [a |-> a, b |-> e.to, at |-> p]
  <2>1. leg.at = p
    BY <1>1, PlaceOnLeg
  <2>2. leg = [a |-> leg.a, b |-> leg.b, at |-> leg.at]
    BY <1>1 DEF NearestLeg
  <2> QED BY <1>2, <1>3, <2>1, <2>2
<1>5. PICK R : R = [n \in Nodes |-> Reached(leg, n)]
  OBVIOUS
<1>6. \A x : x \in Within(p, d) <=> OnGround(x, p, R, d)
  BY <1>1, <1>3, <1>4, <1>5, WithinIs
<1>7. Measures(R, p, K)
  BY <1>3, <1>4, <1>5, ReachedMeasures
<1>8. p \in Points
  BY PlacesAre
<1>9. \A x : x \in Around(p, K)[d] <=> OnGround(x, p, R, d)
  BY <1>7, <1>8, GroundIs
<1> QED BY <1>6, <1>9

\* Reach.Within gives exactly the ground within the distance, of any place.
LEMMA GroundExact ==
  ASSUME Sound, RoutesSound
  PROVE  GroundIsExact
<1>1. SUFFICES ASSUME Measured, NEW p \in Places, NEW distance \in 0..Lookahead
               PROVE  Within(p, distance) = Around(p, Lookahead)[distance]
  BY DEF GroundIsExact
<1>2. Lookahead \in Nat /\ Lookahead < Far
  BY NetworkAssumption
<1>3. \A x : x \in Within(p, distance) <=> x \in Around(p, Lookahead)[distance]
  BY <1>1, <1>2, WithinExact
<1> QED BY <1>3

-----------------------------------------------------------------------------
(* The routes.                                                              *)

\* The routes from a node measure every other from it.
LEMMA RoutesMeasure ==
  ASSUME Sound, RoutesSound, Measured, NEW from \in Nodes, NEW K \in Nat,
         NEW R, R = [n \in Nodes |-> IF routes[from].distance[n] = Far THEN K + 1 ELSE routes[from].distance[n]]
  PROVE  Measures(R, P(from), K)
<1>1. PICK d : d = routes[from].distance
  OBVIOUS
<1>2. /\ d \in [Nodes -> Nat] /\ d[from] = 0 /\ Far \in Nat /\ Far > 0
      /\ \A n \in Nodes : d[n] # Far => \A e \in EdgesOf(graph, n) : d[e.to] # Far /\ d[e.to] =< d[n] + e.length
      /\ \A n \in Nodes : d[n] # Far /\ n # from =>
           \E m \in Nodes : \E e \in EdgesOf(graph, m) : e.to = n /\ d[m] # Far /\ d[n] = d[m] + e.length
  BY <1>1, RouteIs, FarIs
<1>3. /\ R \in [Nodes -> Nat]
      /\ \A n \in Nodes : /\ R[n] = IF d[n] = Far THEN K + 1 ELSE d[n]
                          /\ R[n] \in Nat /\ (R[n] =< K => d[n] # Far /\ R[n] = d[n])
  BY <1>1, <1>2
<1>4. ASSUME NEW n \in Nodes, P(n) = P(from) PROVE R[n] = 0
  <2>1. n = from
    BY <1>4 DEF Sound, NodesSound
  <2> QED BY <1>2, <1>3, <2>1
<1>5. ASSUME NEW n \in Nodes, NEW e \in EdgesOf(graph, n), R[n] + e.length =< K
      PROVE  R[e.to] =< R[n] + e.length
  <2>1. e.length \in Nat /\ e.to \in Nodes
    BY LegIs
  <2>2. R[n] =< K
    BY <1>3, <1>5, <2>1
  <2>3. d[n] # Far /\ R[n] = d[n] /\ d[e.to] # Far /\ d[e.to] =< d[n] + e.length
    BY <1>2, <1>3, <2>2
  <2> QED BY <1>3, <2>1, <2>3
<1>6. ASSUME NEW n \in Nodes, NEW e \in EdgesOf(graph, n), P(from) \in Leg(n, e)
      PROVE  R[n] =< Length(P(from), P(n))
  <2>1. from = n \/ from = e.to
    BY <1>6 DEF Sound, EdgesMeet
  <2>2. CASE from = n
    BY <1>4, <2>2, NodesAre, LengthType
  <2>3. CASE from = e.to
    <3>1. PICK f \in EdgesOf(graph, from) : f.to = n
      BY <2>3, LegIs
    <3>2. f.length = Length(P(from), P(n)) /\ f.length \in Nat
      BY <3>1, LegIs
    <3>3. d[n] # Far /\ d[n] =< 0 + f.length
      BY <1>2, <3>1
    <3> QED BY <1>3, <3>2, <3>3
  <2> QED BY <2>1, <2>2, <2>3
<1>7. ASSUME NEW n \in Nodes, R[n] =< K
      PROVE  \/ P(n) = P(from)
             \/ \E m \in Nodes : \E e \in EdgesOf(graph, m) : e.to = n /\ R[m] + e.length =< R[n]
  <2>1. d[n] # Far /\ R[n] = d[n]
    BY <1>3, <1>7
  <2>2. CASE n # from
    <3>1. PICK m \in Nodes : \E e \in EdgesOf(graph, m) : e.to = n /\ d[m] # Far /\ d[n] = d[m] + e.length
      BY <1>2, <2>1, <2>2
    <3>2. PICK e \in EdgesOf(graph, m) : e.to = n /\ d[m] # Far /\ d[n] = d[m] + e.length
      BY <3>1
    <3>3. R[m] = d[m] /\ e.length \in Nat /\ d[m] \in Nat
      BY <1>2, <1>3, <3>2, LegIs
    <3> QED BY <2>1, <3>2, <3>3
  <2> QED BY <2>2
<1> QED BY <1>3, <1>4, <1>5, <1>6, <1>7 DEF Measures

\* One gets to a node in as many steps as its route is long, and not in fewer.
LEMMA RoutesExact ==
  ASSUME Sound, RoutesSound, Measured, NEW from \in Nodes, NEW to \in Nodes, NEW K \in Nat, NEW k \in 0..K
  PROVE  /\ P(to) \in Around(P(from), K)[k] <=> routes[from].distance[to] # Far /\ routes[from].distance[to] =< k
         /\ Around(P(from), K)[k] \subseteq Places \cup {P(from)}
<1>1. PICK R : R = [n \in Nodes |-> IF routes[from].distance[n] = Far THEN K + 1 ELSE routes[from].distance[n]]
  OBVIOUS
<1>2. Measures(R, P(from), K) /\ P(from) \in Points
  BY <1>1, RoutesMeasure, NodesAre
<1>3. P(to) \in Around(P(from), K)[k] <=> R[to] =< k
  BY <1>2, GroundIs
<1>4. routes[from].distance[to] \in Nat /\ Far \in Nat
  BY RouteIs, FarIs
<1>5. Around(P(from), K)[k] \subseteq Places \cup {P(from)}
  <2>1. \A x : OnGround(x, P(from), R, k) => x = P(from) \/ x \in Places
    BY PlacesAre DEF OnGround
  <2> QED BY <1>2, <2>1, GroundIs
<1>6. R[to] = IF routes[from].distance[to] = Far THEN K + 1 ELSE routes[from].distance[to]
  BY <1>1
<1>7. R[to] =< k <=> routes[from].distance[to] # Far /\ routes[from].distance[to] =< k
  BY <1>4, <1>6
<1> QED BY <1>3, <1>5, <1>7

\* Where one gets nowhere new in a step, one never does.
LEMMA AroundStops ==
  ASSUME Sound, NEW p \in Points, NEW K \in Nat, NEW k \in 1..K,
         Around(p, K)[k] = Around(p, K)[k - 1], NEW j \in k..K
  PROVE  Around(p, K)[j] = Around(p, K)[k]
<1> DEFINE S == {i \in Nat : k + i =< K => Around(p, K)[k + i] = Around(p, K)[k]}
<1>1. 0 \in S
  OBVIOUS
<1>2. ASSUME NEW i \in Nat, i \in S PROVE i + 1 \in S
  <2>1. SUFFICES ASSUME k + (i + 1) =< K PROVE Around(p, K)[k + (i + 1)] = Around(p, K)[k]
    OBVIOUS
  <2>2. PICK m \in 1..K : m = k + (i + 1) /\ m - 1 = k + i
    BY <2>1
  <2>3. Around(p, K)[m - 1] = Around(p, K)[k]
    BY <1>2, <2>1, <2>2
  <2>4. \A x : x \in Around(p, K)[m] <=> x \in Around(p, K)[k] \/ \E q \in Around(p, K)[k] : Next_to(q, x)
    BY <2>3, AroundIs
  <2>5. \A x : x \in Around(p, K)[k] <=> x \in Around(p, K)[k] \/ \E q \in Around(p, K)[k] : Next_to(q, x)
    BY AroundIs
  <2>6. \A x : x \in Around(p, K)[m] <=> x \in Around(p, K)[k]
    BY <2>4, <2>5
  <2> QED BY <2>2, <2>6
<1>3. j - k \in S
  <2> HIDE DEF S
  <2> QED BY <1>1, <1>2, Induction
<1>4. k + (j - k) = j /\ j =< K
  OBVIOUS
<1> QED BY <1>3, <1>4

\* No route is longer than there are places.
LEMMA RoutesWithinPlaces ==
  ASSUME Sound, RoutesSound, Measured, NEW from \in Nodes, NEW to \in Nodes, routes[from].distance[to] # Far
  PROVE  routes[from].distance[to] =< Cardinality(Places)
<1>1. PICK K \in Nat : K = routes[from].distance[to]
  BY RouteIs
<1>2. PICK p \in Points : p = P(from)
  BY NodesAre
<1>3. PICK A : A = Around(p, K)
  OBVIOUS
<1>4. PICK W : W = Places \cup {p}
  OBVIOUS
<1>5. IsFiniteSet(W) /\ Cardinality(W) =< Cardinality(Places) + 1 /\ Cardinality(W) \in Nat /\ Cardinality(Places) \in Nat
  <2>1. IsFiniteSet(Places) /\ Cardinality(Places) \in Nat
    BY PlacesAre
  <2>2. IsFiniteSet(W) /\ (p \notin Places => Cardinality(W) = Cardinality(Places) + 1)
    BY <1>4, <2>1, FS_AddElement
  <2>3. p \in Places => W = Places
    BY <1>4
  <2> QED BY <2>1, <2>2, <2>3
<1>6. \A k \in 0..K : A[k] \subseteq W /\ (P(to) \in A[k] <=> K =< k)
  BY <1>1, <1>2, <1>3, <1>4, RoutesExact
<1>7. ASSUME NEW k \in 1..K PROVE A[k] # A[k - 1] /\ A[k - 1] \subseteq A[k]
  <2>1. ASSUME A[k] = A[k - 1] PROVE FALSE
    <3>1. K \in k..K /\ k - 1 \in 0..K /\ K \in 0..K /\ ~(K =< k - 1) /\ K =< K
      OBVIOUS
    <3>2. A[K] = A[k]
      BY <1>3, <2>1, <3>1, AroundStops
    <3>3. P(to) \in A[K] /\ P(to) \notin A[k - 1]
      BY <1>6, <3>1
    <3> QED BY <2>1, <3>2, <3>3
  <2>2. A[k - 1] \subseteq A[k]
    BY <1>3, AroundIs
  <2> QED BY <2>1, <2>2
<1> DEFINE Big(k) == k =< K => Cardinality(A[k]) \in Nat /\ Cardinality(A[k]) >= k + 1
           S == {k \in Nat : Big(k)}
<1>8. Big(0)
  <2>1. A[0] = {p}
    BY <1>3, AroundIs
  <2> QED BY <2>1, FS_Singleton
<1>9. ASSUME NEW k \in Nat, Big(k) PROVE Big(k + 1)
  <2>1. SUFFICES ASSUME k + 1 =< K PROVE Cardinality(A[k + 1]) \in Nat /\ Cardinality(A[k + 1]) >= (k + 1) + 1
    OBVIOUS
  <2>2. k + 1 \in 1..K /\ k \in 0..K /\ k + 1 \in 0..K /\ (k + 1) - 1 = k
    BY <2>1
  <2>3. A[k + 1] # A[k] /\ A[k] \subseteq A[k + 1]
    BY <1>7, <2>2
  <2>4. IsFiniteSet(A[k + 1])
    BY <1>5, <1>6, <2>2, FS_Subset
  <2>5. IsFiniteSet(A[k]) /\ Cardinality(A[k]) =< Cardinality(A[k + 1]) /\ Cardinality(A[k]) # Cardinality(A[k + 1])
    BY <2>3, <2>4, FS_Subset
  <2>6. Cardinality(A[k + 1]) \in Nat
    BY <2>4, FS_CardinalityType
  <2> QED BY <1>9, <2>2, <2>5, <2>6
<1> HIDE DEF Big
<1>10. 0 \in S /\ \A k \in Nat : k \in S => k + 1 \in S
  BY <1>8, <1>9
<1>11. K \in S
  <2> HIDE DEF S
  <2> QED BY <1>10, Induction
<1>12. Cardinality(A[K]) \in Nat /\ Cardinality(A[K]) >= K + 1
  BY <1>11 DEF Big
<1>13. Cardinality(A[K]) =< Cardinality(W)
  <2>1. A[K] \subseteq W
    BY <1>6
  <2> QED BY <1>5, <2>1, FS_Subset
<1> QED BY <1>1, <1>5, <1>12, <1>13

\* Routes gives the shortest way there is, between any two nodes.
LEMMA RoutesShortest ==
  ASSUME Sound, RoutesSound
  PROVE  RoutesAreShortest
<1>1. SUFFICES ASSUME Measured, NEW from \in Nodes, NEW to \in Nodes
      PROVE  LET around == Around(graph.points[from], Cardinality(Places))
                 way  == To(from, to)
                 said == routes[from].distance
             IN IF way = <<>> THEN graph.points[to] \notin around[Cardinality(Places)]
                ELSE /\ way[1] = from /\ way[Len(way)] = to
                     /\ \A i \in 2..Len(way) : \E e \in EdgesOf(graph, way[i - 1]) :
                          /\ e.to = way[i]
                          /\ said[way[i]] = said[way[i - 1]] + Length(graph.points[way[i - 1]], graph.points[way[i]])
                     /\ graph.points[to] \in around[said[to]]
                     /\ said[to] > 0 => graph.points[to] \notin around[said[to] - 1]
  BY DEF RoutesAreShortest
<1>2. PICK K \in Nat : K = Cardinality(Places)
  BY PlacesAre
<1>3. PICK said : said = routes[from].distance
  OBVIOUS
<1>4. PICK way : way = To(from, to)
  OBVIOUS
<1>5. PICK A : A = Around(P(from), K)
  OBVIOUS
<1>6. \A k \in 0..K : P(to) \in A[k] <=> said[to] # Far /\ said[to] =< k
  BY <1>1, <1>3, <1>5, RoutesExact
<1>7. said[to] \in Nat
  BY <1>1, <1>3, RouteIs
<1>8. CASE said[to] = Far
  <2>1. way = <<>>
    BY <1>3, <1>4, <1>8, ToIs
  <2>2. P(to) \notin A[K]
    BY <1>6, <1>8
  <2> QED BY <1>2, <1>4, <1>5, <2>1, <2>2 DEF P
<1>9. CASE said[to] # Far
  <2>1. Leads(way, to, said) /\ way[1] = from
    BY <1>1, <1>3, <1>4, <1>9, WayIs, RouteIs
  <2>2. said[to] =< K
    BY <1>1, <1>2, <1>3, <1>9, RoutesWithinPlaces
  <2>3. P(to) \in A[said[to]] /\ (said[to] > 0 => P(to) \notin A[said[to] - 1])
    <3>1. said[to] \in 0..K /\ (said[to] > 0 => said[to] - 1 \in 0..K /\ ~(said[to] =< said[to] - 1))
      BY <1>7, <2>2
    <3> QED BY <1>6, <1>9, <3>1, <1>7
  <2>4. ASSUME NEW i \in 2..Len(way)
        PROVE  \E e \in EdgesOf(graph, way[i - 1]) :
                 e.to = way[i] /\ said[way[i]] = said[way[i - 1]] + Length(P(way[i - 1]), P(way[i]))
    <3>1. way \in Seq(Nodes) /\ i - 1 \in 1..Len(way)
      BY <2>1 DEF Leads
    <3>2. way[i - 1] \in Nodes
      BY <3>1
    <3>3. PICK e \in EdgesOf(graph, way[i - 1]) : e.to = way[i] /\ said[way[i]] = said[way[i - 1]] + e.length
      BY <2>1 DEF Leads
    <3>4. e.length = Length(P(way[i - 1]), P(way[i]))
      BY <3>2, <3>3, LegIs
    <3> QED BY <3>3, <3>4
  <2>5. way # <<>> /\ way[Len(way)] = to
    BY <2>1 DEF Leads
  <2> QED BY <1>2, <1>3, <1>4, <1>5, <2>1, <2>3, <2>4, <2>5 DEF P
<1> QED BY <1>8, <1>9

\* In a sound network both hold.
LEMMA WaysExact == NetworkSound => WaysAreExact
BY GraphIsSound, RoutesShortest, GroundExact DEF NetworkSound, WaysAreExact

-----------------------------------------------------------------------------
(* The network while the mine is worked.                                    *)

\* No step of anybody disturbs the network.
LEMMA NetworkStep ==
  ASSUME NetworkSound, [Next]_vars
  PROVE  NetworkSound'
<1>1. CASE Measure
  BY <1>1, NetworkStays DEF Measure
<1>2. CASE NewPlan \/ Start
  BY <1>2, NetworkKept DEF NewPlan, Start
<1>3. CASE Wander \/ Haul \/ Clear \/ Work
  <2>1. UNCHANGED network
    BY <1>3 DEF Wander, Haul, Clear, Work, Go
  <2> QED BY <2>1, NetworkKept
<1>4. CASE UNCHANGED vars
  BY <1>4, NetworkKept DEF vars
<1> QED BY <1>1, <1>2, <1>3, <1>4 DEF Next

\* In every mine the network is built as its tunnels run, and each search of
\* mineplan's Routes knows, at every turn, the shortest way through the nodes it
\* has done.
THEOREM NetworkIsSound == Spec => []NetworkSound
<1>1. Init => NetworkSound
  BY NetworkBegins DEF Init
<1>2. NetworkSound /\ [Next]_vars => NetworkSound'
  BY NetworkStep
<1> QED BY <1>1, <1>2, PTL DEF Spec

\* In every mine, for every lookahead: what Routes and Reach.Within say of the
\* measured network is exact, the routes shortest, the grounds all there is within
\* the distance and no more (internal/mineplan/travel.go, reach.go).
THEOREM MeasuresExact == Spec => []MeasuresAreExact
<1>1. NetworkSound => MeasuresAreExact
  BY WaysExact DEF MeasuresAreExact
<1> QED BY <1>1, NetworkIsSound, PTL

-----------------------------------------------------------------------------
(* Where units may go.                                                      *)

\* Every point of a walkable tunnel is a node.
LEMMA PointsAreNodes ==
  ASSUME NetworkSound, NEW t \in DOMAIN tunnels, Walkable(tunnels[t]), NEW p \in ToSet(tunnels[t].path)
  PROVE  NodeAt(graph, p) \in Nodes /\ P(NodeAt(graph, p)) = p
<1>1. PICK w \in Seq(Tunnels) : w = WalkableOf(tunnels) /\ \A u \in DOMAIN w : Len(w[u].path) >= 2
  BY LayoutsAre DEF NetworkSound
<1>2. tunnels[t] \in ToSet(w)
  BY <1>1, LayoutsAre DEF NetworkSound
<1>3. PICK u \in DOMAIN w : w[u] = tunnels[t]
  BY <1>2 DEF ToSet
<1>4. PICK path \in Seq(Points) : path = w[u].path /\ Len(path) >= 2
  <2>1. w[u] \in Tunnels /\ Len(w[u].path) >= 2
    BY <1>1
  <2> QED BY <2>1 DEF Tunnels
<1>5. PICK i \in 1..Len(path) : p = path[i]
  BY <1>3, <1>4 DEF ToSet
<1>6. \E l \in ToSet(Legs(w)) : p = l[1] \/ p = l[2]
  <2>1. \A j \in 1..(Len(path) - 1) : <<path[j], path[j + 1]>> \in ToSet(Legs(w))
    BY <1>1, <1>4, LegsAre
  <2>2. CASE i < Len(path)
    <3>1. i \in 1..(Len(path) - 1)
      BY <1>4, <2>2
    <3> QED BY <1>5, <2>1, <3>1
  <2>3. CASE i = Len(path)
    <3>1. i - 1 \in 1..(Len(path) - 1) /\ (i - 1) + 1 = i
      BY <1>4, <2>3
    <3>2. <<path[i - 1], path[i]>> \in ToSet(Legs(w))
      BY <2>1, <3>1
    <3> QED BY <1>5, <3>2
  <2> QED BY <1>5, <2>2, <2>3
<1>7. p \in ToSet(Vertices(w))
  BY <1>1, <1>6, VerticesAre
<1>8. graph.points = Vertices(w)
  BY <1>1, GraphIsSound DEF NetworkSound
<1>9. \E n \in Nodes : graph.points[n] = p
  BY <1>7, <1>8 DEF ToSet, Nodes, NodesOf
<1> QED BY <1>9 DEF NodeAt, P, Nodes

\* A mine's faces are ends of tunnels one walks.
LEMMA FacesAre ==
  ASSUME NEW mine \in Layouts, NEW p \in ToSet(Faces(mine))
  PROVE  \E t \in DOMAIN mine : Walkable(mine[t]) /\ p \in ToSet(mine[t].path)
<1>1. mine \in Seq(Tunnels) /\ \A t \in DOMAIN mine : Len(mine[t].path) >= 2
  BY LayoutsAre
<1>2. PICK onDrive : onDrive = UNION {ToSet(mine[t].path) : t \in {u \in DOMAIN mine : mine[u].kind = "drive"}}
  OBVIOUS
<1> DEFINE worked(t, q) == /\ q \notin onDrive
                           /\ \/ t.kind = "crosscut"
                              \/ t.kind = "ore-drive" /\ Degree(NewGraph(mine), NodeAt(NewGraph(mine), q)) = 1
           pair(t) == <<t.path[1], t.path[Len(t.path)]>>
           chosen(t) == {i \in 1..2 : worked(t, pair(t)[i])}
<1>3. PICK seqs : seqs = [t \in DOMAIN mine |-> Picked(pair(mine[t]), chosen(mine[t]))]
  OBVIOUS
<1>4. Faces(mine) = Distinct(FlattenSeq(seqs))
  BY <1>2, <1>3 DEF Faces
<1>5. ASSUME NEW t \in DOMAIN mine
      PROVE  /\ seqs[t] \in Seq(Points)
             /\ \A q \in ToSet(seqs[t]) : Walkable(mine[t]) /\ q \in ToSet(mine[t].path)
  <2>1. mine[t].path \in Seq(Points) /\ Len(mine[t].path) >= 2
    <3>1. mine[t] \in Tunnels /\ Len(mine[t].path) >= 2
      BY <1>1
    <3> QED BY <3>1 DEF Tunnels
  <2>2. PICK s : s = pair(mine[t])
    OBVIOUS
  <2>3. s \in Seq(Points) /\ Len(s) = 2 /\ \A i \in 1..2 : s[i] \in ToSet(mine[t].path)
    BY <2>1, <2>2 DEF ToSet
  <2>4. PICK S : S = chosen(mine[t])
    OBVIOUS
  <2>5. S \in SUBSET (1..2) /\ \A i \in S : mine[t].kind = "crosscut" \/ mine[t].kind = "ore-drive"
    BY <2>4
  <2>6. seqs[t] = Picked(s, S)
    BY <1>3, <2>2, <2>4
  <2>7. seqs[t] \in Seq(Points) /\ \A q : q \in ToSet(seqs[t]) <=> \E i \in S : q = s[i]
    <3>1. S \in SUBSET (1..Len(s))
      BY <2>3, <2>5
    <3>2. s \in Seq(Points)
      BY <2>3
    <3>3. Picked(s, S) \in Seq(Points) /\ \A q : q \in ToSet(Picked(s, S)) <=> \E i \in S : q = s[i]
      BY <3>1, <3>2, PickedIs
    <3> QED BY <2>6, <3>3
  <2>8. (mine[t].kind = "crosscut" \/ mine[t].kind = "ore-drive") => Walkable(mine[t])
    BY DEF Walkable
  <2> QED BY <2>3, <2>5, <2>7, <2>8
<1>6. seqs \in Seq(Seq(Points))
  <2>1. PICK d \in Nat : d = Len(mine) /\ DOMAIN mine = 1..d
    BY <1>1
  <2>2. seqs \in [1..d -> Seq(Points)]
    BY <1>3, <1>5, <2>1
  <2> QED BY <2>2, SeqIs
<1>7. FlattenSeq(seqs) \in Seq(Points) /\ \A q : q \in ToSet(FlattenSeq(seqs)) <=> \E t \in DOMAIN seqs : q \in ToSet(seqs[t])
  BY <1>6, FlattenHas
<1>8. p \in ToSet(FlattenSeq(seqs))
  BY <1>4, <1>7, DistinctIs
<1>9. PICK t \in DOMAIN mine : p \in ToSet(seqs[t])
  BY <1>3, <1>7, <1>8
<1> QED BY <1>5, <1>9

\* Of some places of a sequence, one is least by any whole measure of them, the
\* first of those that are.
LEMMA FirstLeast ==
  ASSUME NEW n \in Nat, NEW S \in SUBSET (1..n), S # {}, NEW h \in [1..n -> Int]
  PROVE  \E t \in S : \A s \in S : h[t] < h[s] \/ (h[t] = h[s] /\ t =< s)
<1> DEFINE Least(A) == A # {} => \E t \in A : \A s \in A : h[t] < h[s] \/ (h[t] = h[s] /\ t =< s)
           Has(m) == Least(S \cap (1..m))
           T == {m \in Nat : m =< n => Has(m)}
<1>1. 0 \in T
  OBVIOUS
<1>2. ASSUME NEW m \in Nat, m + 1 =< n, Has(m) PROVE Has(m + 1)
  <2>1. \A x : x \in S \cap (1..(m + 1)) <=> x \in S \cap (1..m) \/ (x \in S /\ x = m + 1)
    OBVIOUS
  <2>2. CASE m + 1 \notin S
    <3>1. S \cap (1..(m + 1)) = S \cap (1..m)
      BY <2>1, <2>2
    <3> HIDE DEF Least
    <3> QED BY <1>2, <3>1
  <2>3. CASE m + 1 \in S /\ S \cap (1..m) = {}
    <3>1. S \cap (1..(m + 1)) = {m + 1}
      BY <2>1, <2>3
    <3>2. Least({m + 1})
      OBVIOUS
    <3> HIDE DEF Least
    <3> QED BY <3>1, <3>2
  <2>4. CASE m + 1 \in S /\ S \cap (1..m) # {}
    <3>1. PICK t \in S \cap (1..m) : \A s \in S \cap (1..m) : h[t] < h[s] \/ (h[t] = h[s] /\ t =< s)
      BY <1>2, <2>4
    <3>2. h[t] \in Int /\ h[m + 1] \in Int /\ t \in 1..m /\ \A s \in S : h[s] \in Int /\ s \in Int
      BY <1>2
    <3>3. CASE h[m + 1] < h[t]
      <4>1. \A s \in S \cap (1..(m + 1)) : h[m + 1] < h[s] \/ (h[m + 1] = h[s] /\ m + 1 =< s)
        BY <2>1, <3>1, <3>2, <3>3
      <4> QED BY <2>1, <2>4, <4>1
    <3>4. CASE ~(h[m + 1] < h[t])
      <4>1. ASSUME NEW s \in S \cap (1..(m + 1)) PROVE h[t] < h[s] \/ (h[t] = h[s] /\ t =< s)
        <5>1. CASE s \in S \cap (1..m)
          BY ONLY <3>1, <5>1
        <5>2. CASE s = m + 1
          BY ONLY <1>2, <3>2, <3>4, <5>2
        <5> QED BY ONLY <2>1, <4>1, <5>1, <5>2
      <4> QED BY <2>1, <3>1, <4>1
    <3> QED BY <3>3, <3>4
  <2> QED BY <2>2, <2>3, <2>4
<1> HIDE DEF Has
<1>3. \A m \in Nat : m \in T => m + 1 \in T
  BY <1>2
<1>4. n \in T
  <2> HIDE DEF T
  <2> QED BY <1>1, <1>3, Induction
<1>5. S \cap (1..n) = S
  OBVIOUS
<1>6. Least(S)
  <2>1. Has(n)
    BY ONLY <1>4, n \in Nat
  <2> HIDE DEF Least
  <2> QED BY ONLY <1>5, <2>1 DEF Has
<1> QED BY <1>6

\* The greatest of some places.
LEMMA MaxIs ==
  ASSUME NEW n \in Nat, NEW S \in SUBSET (1..n), S # {}
  PROVE  Max(S) \in S /\ \A s \in S : s =< Max(S)
<1>1. PICK h : h = [i \in 1..n |-> -i]
  OBVIOUS
<1>2. h \in [1..n -> Int]
  BY <1>1
<1>3. PICK t \in S : \A s \in S : h[t] < h[s] \/ (h[t] = h[s] /\ t =< s)
  BY <1>2, FirstLeast
<1>4. \A s \in S : s =< t
  <2>1. TAKE s \in S
  <2>2. h[t] = -t /\ h[s] = -s /\ s \in 1..n /\ t \in 1..n
    BY <1>1
  <2> QED BY <1>3, <2>2
<1>5. \E x \in S : \A y \in S : x >= y
  BY <1>4
<1>6. Max(S) \in S /\ \A y \in S : Max(S) >= y
  BY <1>5 DEF Max
<1> QED BY <1>6

-----------------------------------------------------------------------------
(* The plan.                                                                *)
Evacuated == [clear : Int, reentry : Int]

\* The parameters of a way of working are naturals.
LEMMA ActivityIs ==
  ASSUME NEW a \in Activities
  PROVE  /\ a.areas \in Nat /\ a.areas > 0 /\ a.rotate \in Nat /\ a.rotate > 0
         /\ a.start \in Nat /\ a.window \in Nat /\ a.every \in Nat /\ a.clear \in Nat /\ a.reentry \in Nat
         /\ a.window > 0 => a.every > 0
BY WorkingsAssumption

\* There is at least one of the times up to a length.
LEMMA UptoIs ==
  ASSUME NEW length \in Nat, NEW every \in Nat, every > 0
  PROVE  /\ Upto(length, every) \in Seq(Int)
         /\ \E c \in Nat : c > 0 /\ DOMAIN Upto(length, every) = 1..c
<1>1. PICK q \in Int : q = (length + every - 1) \div every
  OBVIOUS
<1>2. PICK c \in Nat : c = Max({1, q}) /\ c > 0
  <2>1. Max({1, q}) = IF 1 < q THEN q ELSE 1
    BY MaxOfTwo
  <2> QED BY <2>1
<1>3. PICK f : f = [k \in 1..c |-> (k - 1) * every]
  OBVIOUS
<1>4. f \in [1..c -> Int]
  <2>1. \A k \in 1..c : (k - 1) * every \in Int
    OBVIOUS
  <2> QED BY <1>3, <2>1
<1>5. Upto(length, every) = f
  BY <1>1, <1>2, <1>3 DEF Upto, Times
<1>6. f \in Seq(Int)
  BY <1>4, SeqIs
<1> QED BY <1>2, <1>4, <1>5, <1>6

\* The blasts of a day are at times.
LEMMA FiredIs ==
  ASSUME NEW a \in Activities, NEW day \in Int
  PROVE  Fired(a, day) \in Seq(Int)
<1>1. PICK count \in Nat : count = IF a.every = 0 THEN 1 ELSE (a.window \div a.every) + 1
  <2>1. CASE a.every = 0
    BY <2>1
  <2>2. CASE a.every # 0
    <3>1. PICK w \in Nat, e \in Nat : w = a.window /\ e = a.every /\ e > 0
      BY <2>2, ActivityIs
    <3>2. w \div e \in Nat
      BY <3>1, Quotient
    <3> QED BY ONLY <2>2, <3>1, <3>2
  <2> QED BY <2>1, <2>2
<1>2. PICK times : times = [k \in 1..count |-> day + a.start + (k - 1) * a.every]
  OBVIOUS
<1>3. times \in [1..count -> Int]
  <2>1. \A k \in 1..count : day + a.start + (k - 1) * a.every \in Int
    BY ActivityIs
  <2> QED BY <1>2, <2>1
<1>4. times \in Seq(Int) /\ Len(times) = count
  BY <1>3, SeqIs
<1>5. PICK S : S = {k \in 1..count : times[k] < Duration}
  OBVIOUS
<1>6. Fired(a, day) = Picked(times, S)
  BY <1>1, <1>2, <1>5 DEF Fired
<1>7. S \in SUBSET (1..Len(times))
  BY <1>4, <1>5
<1> QED BY <1>4, <1>6, <1>7, PickedIs

\* Evacuations begin and end at times.
LEMMA EvacuationsAre ==
  ASSUME NEW a \in Activities
  PROVE  Evacuations(a) \in Seq(Evacuated)
<1>1. PICK every \in Seq(Int) : every = Upto(Duration, Day)
  BY UptoIs, WorkingsAssumption
<1>2. PICK S : S = {d \in DOMAIN every : Fired(a, every[d]) # <<>>}
  OBVIOUS
<1>3. S \in SUBSET (1..Len(every))
  BY <1>1, <1>2
<1>4. PICK days : days = Picked(every, S)
  OBVIOUS
<1>5. days \in Seq(Int) /\ \A x \in ToSet(days) : \E d \in S : x = every[d]
  BY <1>1, <1>3, <1>4, PickedIs
<1>6. PICK n \in Nat : n = Len(days) /\ DOMAIN days = 1..n
  BY <1>5
<1>7. PICK f : f = [d \in DOMAIN days |->
                      [clear |-> Fired(a, days[d])[1] - a.clear,
                       reentry |-> Fired(a, days[d])[Len(Fired(a, days[d]))] + a.reentry]]
  OBVIOUS
<1>8. ASSUME NEW d \in 1..n PROVE f[d] \in Evacuated
  <2>1. days[d] \in ToSet(days) /\ days[d] \in Int
    BY <1>5, <1>6 DEF ToSet
  <2>2. PICK fired \in Seq(Int) : fired = Fired(a, days[d])
    BY <2>1, FiredIs
  <2>3. fired # <<>>
    BY <1>2, <1>5, <2>1, <2>2
  <2>4. fired[1] \in Int /\ fired[Len(fired)] \in Int
    BY <2>2, <2>3
  <2>5. f[d] = [clear |-> fired[1] - a.clear, reentry |-> fired[Len(fired)] + a.reentry]
    BY <1>6, <1>7, <2>2
  <2>6. fired[1] - a.clear \in Int /\ fired[Len(fired)] + a.reentry \in Int
    BY <2>4, ActivityIs
  <2> QED BY <2>5, <2>6 DEF Evacuated
<1>9. f \in [1..n -> Evacuated]
  BY <1>6, <1>7, <1>8
<1>10. Evacuations(a) = f
  BY <1>1, <1>2, <1>4, <1>7 DEF Evacuations
<1> QED BY <1>9, <1>10, SeqIs

PlanSound ==
  Worked => /\ plan.shifts \in Seq({s \in Seq(Points) : ToSet(s) \subseteq ToSet(Faces(tunnels))})
            /\ plan.rotate \in Nat \ {0}
            /\ plan.evacuations \in Seq(Evacuated)

\* NewPlan makes a sound plan.
LEMMA PlanMade ==
  ASSUME NetworkSound, NewPlan
  PROVE  PlanSound'
<1>1. PICK faces : faces = ToSet(Faces(tunnels))
  OBVIOUS
<1>2. PICK a \in Activities :
        \E shifts \in [DOMAIN Upto(Duration, a.rotate) ->
                        {s \in [1..a.areas -> faces] : \A i, j \in 1..a.areas : s[i] = s[j] => i = j}] :
          plan' = [shifts |-> shifts, rotate |-> a.rotate, blasts |-> Blasts(a, shifts), evacuations |-> Evacuations(a)]
  BY <1>1 DEF NewPlan
<1>3. PICK shifts \in [DOMAIN Upto(Duration, a.rotate) -> [1..a.areas -> faces]] :
          plan' = [shifts |-> shifts, rotate |-> a.rotate, blasts |-> Blasts(a, shifts), evacuations |-> Evacuations(a)]
  BY <1>2
<1>4. PICK c \in Nat : DOMAIN Upto(Duration, a.rotate) = 1..c
  BY UptoIs, ActivityIs, WorkingsAssumption
<1>5. faces \subseteq Points
  <2>1. SUFFICES ASSUME NEW p \in faces PROVE p \in Points
    OBVIOUS
  <2>2. PICK t \in DOMAIN tunnels : p \in ToSet(tunnels[t].path)
    BY <1>1, FacesAre DEF NetworkSound
  <2>3. tunnels \in Seq(Tunnels)
    BY LayoutsAre DEF NetworkSound
  <2>4. tunnels[t] \in Tunnels
    BY <2>3
  <2>5. tunnels[t].path \in Seq(Points)
    BY <2>4 DEF Tunnels
  <2> QED BY <2>2, <2>5 DEF ToSet
<1>6. PICK X : X = {s \in Seq(Points) : ToSet(s) \subseteq faces}
  OBVIOUS
<1>7. \A s \in [1..a.areas -> faces] : s \in X
  <2>1. TAKE s \in [1..a.areas -> faces]
  <2>2. s \in [1..a.areas -> Points] /\ a.areas \in Nat
    BY <1>5, ActivityIs
  <2>3. s \in Seq(Points)
    BY <2>2, SeqIs
  <2>4. ToSet(s) \subseteq faces
    BY DEF ToSet
  <2> QED BY <1>6, <2>3, <2>4
<1>8. shifts \in [1..c -> X]
  BY <1>3, <1>4, <1>7
<1>9. shifts \in Seq(X)
  BY <1>8, SeqIs
<1>10. plan'.shifts = shifts /\ plan'.rotate = a.rotate /\ plan'.evacuations = Evacuations(a)
  BY <1>3
<1>11. tunnels' = tunnels
  BY DEF NewPlan, network
<1>12. a.rotate \in Nat \ {0} /\ Evacuations(a) \in Seq(Evacuated)
  BY ActivityIs, EvacuationsAre
<1>13. ToSet(Faces(tunnels'))  = faces
  BY <1>1, <1>11
<1> QED BY <1>6, <1>9, <1>10, <1>12, <1>13 DEF PlanSound

\* Where the faces are.
FaceNodes == {NodeAt(graph, p) : p \in ToSet(Faces(tunnels))}

\* Every face is at a node, and that node is at the face.
LEMMA FaceAt ==
  ASSUME NetworkSound, NEW p \in ToSet(Faces(tunnels))
  PROVE  NodeAt(graph, p) \in Nodes /\ P(NodeAt(graph, p)) = p
<1>1. PICK t \in DOMAIN tunnels : Walkable(tunnels[t]) /\ p \in ToSet(tunnels[t].path)
  BY FacesAre DEF NetworkSound
<1> QED BY <1>1, PointsAreNodes

\* The faces worked at a time are faces.
LEMMA WorkedAre ==
  ASSUME NetworkSound, PlanSound, Worked, NEW time \in Nat
  PROVE  {NodeAt(graph, p) : p \in ToSet(ActiveAt(plan.shifts, plan.rotate, time))} \subseteq FaceNodes
<1>1. PICK shifts, rotate : shifts = plan.shifts /\ rotate = plan.rotate
  OBVIOUS
<1>2. /\ shifts \in Seq({s \in Seq(Points) : ToSet(s) \subseteq ToSet(Faces(tunnels))}) /\ shifts # <<>>
      /\ rotate \in Nat /\ rotate > 0
  BY <1>1 DEF PlanSound, Worked
<1>3. PICK q \in Nat : q = time \div rotate
  BY <1>2, Quotient
<1>4. PICK l \in Nat : l = Len(shifts) /\ l > 0
  BY <1>2
<1>5. Min({q + 1, l}) \in 1..l
  <2>1. Min({q + 1, l}) = IF q + 1 < l THEN q + 1 ELSE l
    BY MinOfTwo
  <2> QED BY <1>4, <2>1
<1>6. ActiveAt(shifts, rotate, time) = shifts[Min({q + 1, l})]
  BY <1>3, <1>4 DEF ActiveAt
<1>7. ToSet(ActiveAt(shifts, rotate, time)) \subseteq ToSet(Faces(tunnels))
  BY <1>2, <1>4, <1>5, <1>6
<1> QED BY <1>1, <1>7 DEF FaceNodes

\* Stations are tunnels, from a node to a node.
LEMMA StationsAre ==
  ASSUME NetworkSound, NEW t \in Stations
  PROVE  /\ t \in 1..Len(tunnels) /\ Len(tunnels) \in Nat
         /\ tunnels[t].path[1] \in Points /\ NodeAt(graph, tunnels[t].path[1]) \in Nodes
         /\ StationEnd(t) \in Points /\ NodeAt(graph, StationEnd(t)) \in Nodes
<1>1. tunnels \in Seq(Tunnels) /\ \A u \in DOMAIN tunnels : Len(tunnels[u].path) >= 2
  BY LayoutsAre DEF NetworkSound
<1>2. t \in DOMAIN tunnels /\ DOMAIN tunnels = 1..Len(tunnels) /\ Len(tunnels) \in Nat /\ Walkable(tunnels[t])
  BY <1>1 DEF Stations, Walkable
<1>3. tunnels[t] \in Tunnels /\ Len(tunnels[t].path) >= 2
  BY <1>1, <1>2
<1>4. PICK path \in Seq(Points) : path = tunnels[t].path /\ Len(path) >= 2
  BY <1>3 DEF Tunnels
<1>5. path[1] \in Points /\ path[Len(path)] \in Points /\ path[1] \in ToSet(path) /\ path[Len(path)] \in ToSet(path)
  BY <1>4 DEF ToSet
<1>6. NodeAt(graph, path[1]) \in Nodes /\ NodeAt(graph, path[Len(path)]) \in Nodes
  BY <1>2, <1>4, <1>5, PointsAreNodes
<1> QED BY <1>2, <1>4, <1>5, <1>6 DEF StationEnd

\* There is somewhere to work.
LEMMA WorkplacesAre ==
  ASSUME NetworkSound
  PROVE  Workplaces \subseteq Nodes /\ Workplaces # {}
<1>1. Sound
  BY GraphIsSound DEF NetworkSound
<1>2. 1 \in Nodes
  BY <1>1, NodesAre
<1> QED BY <1>2 DEF Workplaces, Production

\* The tip is a node.
LEMMA TipIs ==
  ASSUME NetworkSound
  PROVE  Tip \in Nodes
<1>1. Sound
  BY GraphIsSound DEF NetworkSound
<1>2. CASE Stations = {}
  <2>1. Workplaces \subseteq Nat /\ Workplaces # {}
    BY <1>1, WorkplacesAre, NodesAre
  <2>2. Min(Workplaces) \in Workplaces
    BY <2>1, MinIs
  <2> QED BY <1>2, <2>2, WorkplacesAre DEF Tip
<1>3. CASE Stations # {}
  <2>1. PICK n \in Nat : n = Len(tunnels) /\ Stations \subseteq 1..n
    BY <1>3, StationsAre
  <2>2. PICK h : h = [t \in 1..n |-> IF t \in Stations THEN StationEnd(t)[3] ELSE 0]
    OBVIOUS
  <2>3. h \in [1..n -> Int]
    <3>1. \A t \in Stations : StationEnd(t)[3] \in Int
      BY StationsAre, PointType
    <3> QED BY <2>2, <3>1
  <2>4. PICK t \in Stations : \A s \in Stations : h[t] < h[s] \/ (h[t] = h[s] /\ t =< s)
    <3>1. Stations \in SUBSET (1..n) /\ Stations # {}
      BY ONLY <1>3, <2>1
    <3> QED BY ONLY <2>1, <2>3, <3>1, FirstLeast
  <2>5. \A s \in Stations : h[s] = StationEnd(s)[3]
    BY <2>1, <2>2
  <2>6. \E d \in Stations : \A s \in Stations :
          \/ StationEnd(d)[3] < StationEnd(s)[3]
          \/ StationEnd(d)[3] = StationEnd(s)[3] /\ d =< s
    BY <2>4, <2>5
  <2>7. PICK deepest : deepest = CHOOSE d \in Stations : \A s \in Stations :
          \/ StationEnd(d)[3] < StationEnd(s)[3]
          \/ StationEnd(d)[3] = StationEnd(s)[3] /\ d =< s
    OBVIOUS
  <2>8. deepest \in Stations
    BY <2>6, <2>7
  <2>9. Tip = NodeAt(graph, StationEnd(deepest))
    BY <1>3, <2>7 DEF Tip
  <2> QED BY <2>8, <2>9, StationsAre
<1> QED BY <1>2, <1>3

\* The station of a node is a node.
LEMMA StationIs ==
  ASSUME NetworkSound, NEW n
  PROVE  Station(n) \in Nodes
<1>1. PICK here : here = {t \in Stations : tunnels[t].path[1][3] = Height(n)}
  OBVIOUS
<1>2. CASE here = {}
  BY <1>1, <1>2, TipIs DEF Station
<1>3. CASE here # {}
  <2>1. PICK l \in Nat : l = Len(tunnels) /\ here \subseteq 1..l
    BY <1>1, <1>3, StationsAre
  <2>2. Max(here) \in here
    BY <1>3, <2>1, MaxIs
  <2>3. Max(here) \in Stations
    BY <1>1, <2>2
  <2>4. Station(n) = NodeAt(graph, tunnels[Max(here)].path[1])
    BY <1>1, <1>3 DEF Station
  <2> QED BY <2>3, <2>4, StationsAre
<1> QED BY <1>2, <1>3

\* The next evacuation is one of the plan.
LEMMA EvacuationIs ==
  ASSUME PlanSound, Worked, NEW time, Evacuation(time) # <<>>
  PROVE  Evacuation(time)[1] \in Evacuated
<1>1. PICK s \in Seq(Evacuated) : s = plan.evacuations
  BY DEF PlanSound
<1>2. PICK S : S = {i \in DOMAIN s : s[i].reentry > time}
  OBVIOUS
<1>3. S \in SUBSET (1..Len(s))
  BY <1>2
<1>4. Evacuation(time) = Picked(s, S)
  BY <1>1, <1>2 DEF Evacuation
<1>5. Picked(s, S) \in Seq(Evacuated)
  BY <1>3, PickedIs
<1> QED BY <1>4, <1>5

-----------------------------------------------------------------------------
(* Trails: the waypoints of somebody who stays where they are or walks a    *)
(* leg at a pace, from each to the next.                                    *)
Waypoints == [at : Nat, point : Points]

Beat(a, b, pace) ==
  /\ a.at < b.at
  /\ \/ a.point = b.point
     \/ \E n \in Nodes : \E e \in EdgesOf(graph, n) :
          P(n) = a.point /\ P(e.to) = b.point /\ e.length = pace * (b.at - a.at)

Trail(s, pace) ==
  /\ s \in Seq(Waypoints) /\ s # <<>>
  /\ \A i \in 2..Len(s) : Beat(s[i - 1], s[i], pace)

\* What a trail is, waypoint by waypoint.
LEMMA TrailHas ==
  ASSUME NEW s, NEW pace, Trail(s, pace)
  PROVE  /\ Len(s) \in Nat /\ Len(s) >= 1 /\ DOMAIN s = 1..Len(s)
         /\ \A i \in 1..Len(s) : s[i] \in Waypoints /\ s[i].at \in Nat /\ s[i].point \in Points
<1>1. s \in Seq(Waypoints) /\ s # <<>>
  BY DEF Trail
<1>2. \A i \in 1..Len(s) : s[i] \in Waypoints
  BY <1>1
<1>3. \A x \in Waypoints : x.at \in Nat /\ x.point \in Points
  BY DEF Waypoints
<1> QED BY <1>1, <1>2, <1>3

TrailFrom(s, a, b, pace) == Trail(s, pace) /\ s[1] = a /\ s[Len(s)] = b

\* A trail that begins where another ends goes on with it.
LEMMA TrailJoins ==
  ASSUME NEW pace, NEW s, NEW t, NEW x, NEW y, NEW z,
         TrailFrom(s, x, y, pace), TrailFrom(t, y, z, pace)
  PROVE  TrailFrom(s \o Tail(t), x, z, pace)
<1>0. Trail(s, pace) /\ Trail(t, pace) /\ s[1] = x /\ s[Len(s)] = t[1] /\ t[Len(t)] = z
  BY DEF TrailFrom
<1>1. s \in Seq(Waypoints) /\ t \in Seq(Waypoints) /\ s # <<>> /\ t # <<>>
  BY <1>0 DEF Trail
<1>2. PICK a \in Nat : a = Len(s) /\ a > 0
  BY <1>1
<1>3. PICK b \in Nat : b = Len(t) /\ b > 0
  BY <1>1
<1>4. PICK u : u = Tail(t)
  OBVIOUS
<1>5. u \in Seq(Waypoints) /\ Len(u) = b - 1 /\ \A i \in 1..(b - 1) : u[i] = t[i + 1]
  BY <1>1, <1>3, <1>4
<1>6. PICK j : j = s \o u
  OBVIOUS
<1>7. /\ j \in Seq(Waypoints) /\ Len(j) = a + b - 1
      /\ \A i \in 1..a : j[i] = s[i]
      /\ \A i \in (a + 1)..(a + b - 1) : j[i] = u[i - a]
  <2>1. j \in Seq(Waypoints) /\ Len(j) = Len(s) + Len(u)
    BY <1>1, <1>5, <1>6, JoinIs
  <2>2. \A i \in 1..(Len(s) + Len(u)) : j[i] = IF i =< Len(s) THEN s[i] ELSE u[i - Len(s)]
    BY <1>1, <1>5, <1>6
  <2>3. Len(s) = a /\ Len(u) = b - 1 /\ Len(s) + Len(u) = a + b - 1
    BY <1>2, <1>3, <1>5
  <2>4. \A i \in 1..a : j[i] = s[i]
    BY <2>2, <2>3, <1>2, <1>3
  <2>5. \A i \in (a + 1)..(a + b - 1) : j[i] = u[i - a]
    BY <2>2, <2>3, <1>2, <1>3
  <2> QED BY <2>1, <2>3, <2>4, <2>5
<1>8. \A i \in 1..b : j[a + i - 1] = t[i]
  <2>1. TAKE i \in 1..b
  <2>2. CASE i = 1
    BY <1>0, <1>2, <1>3, <1>7, <2>2
  <2>3. CASE i # 1
    <3>1. i - 1 \in 1..(b - 1) /\ a + i - 1 \in (a + 1)..(a + b - 1) /\ (a + i - 1) - a = i - 1 /\ (i - 1) + 1 = i
      BY <1>2, <1>3, <2>3
    <3> QED BY <1>5, <1>7, <3>1
  <2> QED BY <2>2, <2>3
<1>9. ASSUME NEW i \in 2..Len(j) PROVE Beat(j[i - 1], j[i], pace)
  <2>1. CASE i =< a
    <3>1. i \in 2..Len(s) /\ i \in 1..a /\ i - 1 \in 1..a
      BY <1>2, <1>9, <2>1
    <3>2. Beat(s[i - 1], s[i], pace)
      BY <1>0, <3>1 DEF Trail
    <3> QED BY <1>7, <3>1, <3>2
  <2>2. CASE i > a
    <3>1. PICK k \in 2..b : i = a + k - 1
      <4>1. i - a + 1 \in 2..b /\ i = a + (i - a + 1) - 1
        BY <1>2, <1>3, <1>7, <1>9, <2>2
      <4> QED BY <4>1
    <3>2. k \in 2..Len(t) /\ k \in 1..b /\ k - 1 \in 1..b /\ i - 1 = a + (k - 1) - 1
      BY <1>2, <1>3, <3>1
    <3>3. Beat(t[k - 1], t[k], pace)
      BY <1>0, <3>2 DEF Trail
    <3>4. j[i] = t[k] /\ j[i - 1] = t[k - 1]
      BY <1>8, <3>1, <3>2
    <3> QED BY <3>3, <3>4
  <2> QED BY <1>2, <1>7, <1>9, <2>1, <2>2
<1>10. Trail(j, pace)
  <2>1. j # <<>>
    BY <1>2, <1>3, <1>7
  <2> QED BY <1>7, <1>9, <2>1 DEF Trail
<1>11. j[1] = s[1]
  BY <1>2, <1>7
<1>12. j[Len(j)] = t[b]
  <2>1. b \in 1..b /\ Len(j) = a + b - 1
    BY <1>3, <1>7
  <2> QED BY <1>8, <2>1
<1>13. TrailFrom(j, x, z, pace)
  BY <1>0, <1>3, <1>10, <1>11, <1>12 DEF TrailFrom
<1> QED BY <1>4, <1>6, <1>13

\* A trail goes on with one waypoint more.
LEMMA TrailGrows ==
  ASSUME NEW pace, NEW s, NEW x, NEW y, TrailFrom(s, x, y, pace), NEW w \in Waypoints, Beat(y, w, pace)
  PROVE  TrailFrom(s \o <<w>>, x, w, pace)
<1>0. Trail(s, pace) /\ s[Len(s)] = y
  BY DEF TrailFrom
<1>1. y \in Waypoints
  BY <1>0, TrailHas
<1>2. PICK t : t = <<y, w>>
  OBVIOUS
<1>3. t \in Seq(Waypoints) /\ Len(t) = 2 /\ t[1] = y /\ t[2] = w /\ Tail(t) = <<w>> /\ t # <<>>
  BY <1>1, <1>2
<1>4. \A i \in 2..Len(t) : Beat(t[i - 1], t[i], pace)
  <2>1. TAKE i \in 2..Len(t)
  <2>2. i = 2 /\ i - 1 = 1
    BY <1>3
  <2> QED BY <1>3, <2>2
<1>5. Trail(t, pace)
  BY <1>3, <1>4 DEF Trail
<1>6. TrailFrom(t, y, w, pace)
  BY <1>3, <1>5 DEF TrailFrom
<1>7. TrailFrom(s \o Tail(t), x, w, pace)
  BY <1>6, TrailJoins
<1> QED BY <1>3, <1>7

\* What is kept of a trail is one, ends as it does, and goes back as far as was
\* asked or as there is.
LEMMA TrailKept ==
  ASSUME NEW pace, NEW s, NEW x, NEW y, TrailFrom(s, x, y, pace), NEW time \in Int
  PROVE  \E c : TrailFrom(Kept(s, time), c, y, pace) /\ (c.at =< time \/ c = x)
<1>0. Trail(s, pace) /\ s[1] = x /\ s[Len(s)] = y
  BY DEF TrailFrom
<1>1. PICK a \in Nat : a = Len(s) /\ a >= 1 /\ DOMAIN s = 1..a
  BY <1>0, TrailHas
<1>2. PICK passed : passed = {i \in DOMAIN s : s[i].at =< time}
  OBVIOUS
<1>3. CASE passed = {}
  <2>1. Kept(s, time) = s
    BY <1>2, <1>3 DEF Kept
  <2> QED BY <2>1
<1>4. CASE passed # {}
  <2>1. passed \in SUBSET (1..a)
    BY <1>1, <1>2
  <2>2. PICK m \in passed : m = Max(passed)
    BY <1>4, <2>1, MaxIs
  <2>3. m \in 1..a /\ s[m].at =< time
    BY <1>2, <2>1, <2>2
  <2>4. PICK k : k = SubSeq(s, m, a)
    OBVIOUS
  <2>5. Kept(s, time) = k
    BY <1>1, <1>2, <1>4, <2>2, <2>4 DEF Kept
  <2>6. s \in Seq(Waypoints)
    BY <1>0 DEF Trail
  <2>7. k \in Seq(Waypoints) /\ Len(k) = a - m + 1 /\ \A i \in 1..(a - m + 1) : k[i] = s[m + i - 1]
    BY <1>1, <2>3, <2>4, <2>6
  <2>8. ASSUME NEW i \in 2..Len(k) PROVE Beat(k[i - 1], k[i], pace)
    <3>1. m + i - 1 \in 2..a /\ i \in 1..(a - m + 1) /\ i - 1 \in 1..(a - m + 1) /\ m + (i - 1) - 1 = (m + i - 1) - 1
      BY <1>1, <2>3, <2>7, <2>8
    <3>2. Beat(s[(m + i - 1) - 1], s[m + i - 1], pace)
      BY <1>0, <1>1, <3>1 DEF Trail
    <3>3. k[i] = s[m + i - 1] /\ k[i - 1] = s[(m + i - 1) - 1]
      BY <2>7, <3>1
    <3> QED BY <3>2, <3>3
  <2>9. k # <<>>
    BY <1>1, <2>3, <2>7
  <2>10. Trail(k, pace)
    BY <2>7, <2>8, <2>9 DEF Trail
  <2>11. k[1] = s[m] /\ k[Len(k)] = s[a]
    <3>1. 1 \in 1..(a - m + 1) /\ a - m + 1 \in 1..(a - m + 1) /\ m + 1 - 1 = m /\ m + (a - m + 1) - 1 = a
      BY <1>1, <2>3
    <3> QED BY <2>7, <3>1
  <2>12. TrailFrom(k, s[m], y, pace)
    BY <1>0, <1>1, <2>10, <2>11 DEF TrailFrom
  <2> QED BY <2>3, <2>5, <2>12
<1> QED BY <1>3, <1>4

\* What is kept of a trail has the waypoint before the last where that is not
\* too long ago.
LEMMA KeptEnds ==
  ASSUME NEW pace, NEW s, NEW x, NEW y, TrailFrom(s, x, y, pace), NEW time \in Int,
         Len(s) >= 2, time =< s[Len(s) - 1].at
  PROVE  Len(Kept(s, time)) >= 2 /\ Kept(s, time)[Len(Kept(s, time)) - 1] = s[Len(s) - 1]
<1>0. Trail(s, pace)
  BY DEF TrailFrom
<1>1. PICK a \in Nat : a = Len(s) /\ a >= 2 /\ DOMAIN s = 1..a
  BY <1>0, TrailHas
<1>2. PICK passed : passed = {i \in DOMAIN s : s[i].at =< time}
  OBVIOUS
<1>3. CASE passed = {}
  <2>1. Kept(s, time) = s
    BY <1>2, <1>3 DEF Kept
  <2> QED BY <2>1
<1>4. CASE passed # {}
  <2>1. passed \in SUBSET (1..a)
    BY <1>1, <1>2
  <2>2. PICK m \in passed : m = Max(passed)
    BY <1>4, <2>1, MaxIs
  <2>3. m \in 1..a /\ s[m].at =< time
    BY <1>2, <2>1, <2>2
  <2>4. m # a
    <3>1. a \in 2..Len(s) /\ a \in 1..Len(s) /\ a - 1 \in 1..Len(s)
      BY <1>1
    <3>2. s[a - 1].at < s[a].at
      BY <1>0, <3>1 DEF Trail, Beat
    <3>3. s[a - 1].at \in Nat /\ s[a].at \in Nat
      BY <1>0, <3>1, TrailHas
    <3>4. time < s[a].at
      BY <1>1, <3>2, <3>3
    <3> QED BY <2>3, <3>3, <3>4
  <2>5. PICK k : k = SubSeq(s, m, a)
    OBVIOUS
  <2>6. Kept(s, time) = k
    BY <1>1, <1>2, <1>4, <2>2, <2>5 DEF Kept
  <2>7. s \in Seq(Waypoints)
    BY <1>0 DEF Trail
  <2>8. k \in Seq(Waypoints) /\ Len(k) = a - m + 1 /\ \A i \in 1..(a - m + 1) : k[i] = s[m + i - 1]
    BY <1>1, <2>3, <2>5, <2>7
  <2>9. a - m \in 1..(a - m + 1) /\ m + (a - m) - 1 = a - 1 /\ (a - m + 1) - 1 = a - m /\ a - m + 1 >= 2
    BY <1>1, <2>3, <2>4
  <2> QED BY <1>1, <2>6, <2>8, <2>9
<1> QED BY <1>3, <1>4

-----------------------------------------------------------------------------
(* Travel takes whole instants.                                             *)
\* A pace is a number of places.
LEMMA PaceIs ==
  ASSUME NEW u \in Units
  PROVE  Pace[u] \in Nat /\ Pace[u] > 0
BY WorkingsAssumption

\* What a pace divides is so many paces.
LEMMA Divides ==
  ASSUME NEW x \in Nat, NEW p \in Nat, p > 0, x % p = 0
  PROVE  \E m \in Nat : x = p * m
<1>1. PICK q \in Nat : q = x \div p
  BY Quotient
<1>2. x = p * (x \div p) + (x % p)
  OBVIOUS
<1>3. x = p * q + 0
  BY <1>1, <1>2
<1>4. p * q \in Nat
  OBVIOUS
<1>5. x = p * q
  BY <1>3, <1>4
<1> QED BY <1>5

\* So many paces take so many instants.
LEMMA DividesBack ==
  ASSUME NEW m \in Nat, NEW p \in Nat, p > 0
  PROVE  (p * m) \div p = m
OBVIOUS

\* Instants more are paces more.
LEMMA MoreIs ==
  ASSUME NEW p \in Nat, p > 0, NEW m \in Nat, NEW k \in Nat, k > 0
  PROVE  p * (m + k) = p * m + p * k /\ p * m \in Nat /\ p * k \in Nat
OBVIOUS

\* Every leg is travelled in whole instants, whoever travels.
LEMMA WholeLegs ==
  ASSUME NetworkSound, NEW u \in Units, NEW n \in Nodes, NEW e \in EdgesOf(graph, n)
  PROVE  \E m \in Nat : m > 0 /\ e.length = Pace[u] * m
<1>1. Sound /\ tunnels \in Layouts /\ graph = NewGraph(WalkableOf(tunnels))
  BY GraphIsSound DEF NetworkSound
<1>2. PICK w \in Seq(Tunnels) : w = WalkableOf(tunnels) /\ \A t \in DOMAIN w : Len(w[t].path) >= 2
  BY <1>1, LayoutsAre
<1>3. <<P(n), P(e.to)>> \in ToSet(Legs(w)) \/ <<P(e.to), P(n)>> \in ToSet(Legs(w))
  BY <1>1, <1>2, GraphIsSound
<1>4. P(n) \in Points /\ P(e.to) \in Points /\ e.length = Length(P(n), P(e.to)) /\ e.length \in Nat /\ e.length >= 1
  BY <1>1, LegIs
<1>5. \A p, q \in Points : <<p, q>> \in ToSet(Legs(w)) => Length(q, p) % Pace[u] = 0
  <2>1. TAKE p, q \in Points
  <2>2. HAVE <<p, q>> \in ToSet(Legs(w))
  <2>3. PICK t \in DOMAIN w : \E i \in 1..(Len(w[t].path) - 1) : <<p, q>> = <<w[t].path[i], w[t].path[i + 1]>>
    <3>1. \A l : l \in ToSet(Legs(w)) <=>
            \E t \in DOMAIN w : \E i \in 1..(Len(w[t].path) - 1) : l = <<w[t].path[i], w[t].path[i + 1]>>
      BY <1>2, LegsAre
    <3> QED BY <2>2, <3>1
  <2>4. PICK i \in 1..(Len(w[t].path) - 1) : p = w[t].path[i] /\ q = w[t].path[i + 1]
    BY <2>3
  <2>5. w[t] \in ToSet(w)
    BY <1>2 DEF ToSet
  <2>6. PICK v \in DOMAIN tunnels : w[t] = tunnels[v]
    BY <1>1, <1>2, <2>5, LayoutsAre
  <2>7. PICK path \in Seq(Points) : path = tunnels[v].path
    <3>1. w[t] \in Tunnels
      BY <1>2
    <3> QED BY <2>6, <3>1 DEF Tunnels
  <2>8. i + 1 \in 2..Len(path) /\ (i + 1) - 1 = i
    BY <2>4, <2>6, <2>7
  <2>9. Length(tunnels[v].path[i + 1], tunnels[v].path[(i + 1) - 1]) % Pace[u] = 0
    BY <1>1, <2>7, <2>8, WorkingsAssumption
  <2> QED BY <2>4, <2>6, <2>8, <2>9
<1>6. Length(P(n), P(e.to)) = Length(P(e.to), P(n))
  BY <1>4, LengthType
<1>7. e.length % Pace[u] = 0
  BY <1>3, <1>4, <1>5, <1>6
<1>8. PICK m \in Nat : e.length = Pace[u] * m
  BY <1>4, <1>7, PaceIs, Divides
<1>9. m # 0
  BY <1>4, <1>8, PaceIs
<1> QED BY <1>8, <1>9

\* A way from one node to another that takes whole instants, by the measure of
\* the nodes' distances from the first.
WholeWay(way, from, to, R, pace) ==
  /\ way \in Seq(Nodes) /\ Len(way) \in Nat /\ Len(way) >= 1 /\ way[1] = from /\ way[Len(way)] = to
  /\ \A i \in 1..Len(way) : \E m \in Nat : R[way[i]] = pace * m
  /\ R[from] = 0
  /\ \A i \in 2..Len(way) : \E e \in EdgesOf(graph, way[i - 1]) :
       e.to = way[i] /\ R[way[i]] = R[way[i - 1]] + e.length

\* So does every way, to each node it passes, and later to each than to the one
\* before.
LEMMA WholeWays ==
  ASSUME NetworkSound, Measured, NEW u \in Units, NEW from \in Nodes, NEW to \in Nodes,
         routes[from].distance[to] # Far
  PROVE  WholeWay(To(from, to), from, to, routes[from].distance, Pace[u])
<1>0. PICK way : way = To(from, to)
  OBVIOUS
<1>1. Sound /\ RoutesSound
  BY GraphIsSound DEF NetworkSound
<1>2. PICK R : R = routes[from].distance
  OBVIOUS
<1>3. Found(routes[from], from) /\ R \in [Nodes -> Nat] /\ R[from] = 0
  BY <1>1, <1>2, RouteIs
<1>4. Leads(way, to, R) /\ way[1] = from
  BY <1>0, <1>1, <1>2, <1>3, WayIs
<1>5. way \in Seq(Nodes) /\ Len(way) \in Nat /\ Len(way) >= 1 /\ way[Len(way)] = to
  BY <1>4 DEF Leads
<1>6. \A i \in 2..Len(way) : \E e \in EdgesOf(graph, way[i - 1]) : e.to = way[i] /\ R[way[i]] = R[way[i - 1]] + e.length
  BY <1>4 DEF Leads
<1> DEFINE Whole(i) == \E m \in Nat : R[way[i]] = Pace[u] * m
           S == {i \in Nat : i < Len(way) => Whole(i + 1)}
<1>7. 0 \in S
  <2>1. R[way[1]] = Pace[u] * 0
    BY <1>3, <1>4, PaceIs
  <2> QED BY <2>1
<1>8. ASSUME NEW i \in Nat, i \in S PROVE i + 1 \in S
  <2> SUFFICES ASSUME i + 1 < Len(way) PROVE Whole(i + 2)
    OBVIOUS
  <2>1. PICK m \in Nat : R[way[i + 1]] = Pace[u] * m
    BY <1>5, <1>8
  <2>2. i + 2 \in 2..Len(way) /\ (i + 2) - 1 = i + 1 /\ i + 1 \in 1..Len(way) /\ i + 2 \in 1..Len(way)
    BY <1>5
  <2>3. PICK e \in EdgesOf(graph, way[i + 1]) : e.to = way[i + 2] /\ R[way[i + 2]] = R[way[i + 1]] + e.length
    BY <1>6, <2>2
  <2>4. way[i + 1] \in Nodes
    BY <1>5, <2>2
  <2>5. PICK k \in Nat : k > 0 /\ e.length = Pace[u] * k
    BY <2>4, WholeLegs
  <2>6. R[way[i + 2]] = Pace[u] * (m + k) /\ m + k \in Nat
    BY <2>1, <2>3, <2>5, PaceIs, MoreIs
  <2> QED BY <2>6
<1> HIDE DEF Whole
<1>9. \A i \in Nat : i \in S
  <2> HIDE DEF S
  <2> QED BY <1>7, <1>8, Induction
<1>10. \A i \in 1..Len(way) : Whole(i)
  <2>1. TAKE i \in 1..Len(way)
  <2>2. i - 1 \in Nat /\ i - 1 < Len(way) /\ (i - 1) + 1 = i
    BY <1>5
  <2>3. i - 1 \in S
    BY <1>9, <2>2
  <2> QED BY <2>2, <2>3
<1>11. WholeWay(way, from, to, R, Pace[u])
  BY <1>3, <1>4, <1>5, <1>6, <1>10 DEF Whole, WholeWay
<1> QED BY <1>0, <1>2, <1>11

\* The track of somebody under way is a trail that ends where and when they
\* are, and goes back as far as its ground is asked for.
UnderWay ==
  /\ Measured /\ at \in Nodes /\ unit \in Units
  /\ now \in Nat /\ since \in Nat /\ since =< now
  /\ TrailFrom(track, track[1], Waypoint(now, at), Pace[unit])
  /\ track[1].at = 0 \/ track[1].at =< since - Recalled
JourneySound == IF at = None THEN now = 0 /\ since = 0 ELSE UnderWay

\* The waypoints a way passes are a trail from where it begins.
LEMMA PassedIs ==
  ASSUME NetworkSound, UnderWay, NEW to \in Nodes, routes[at].distance[to] # Far,
         NEW way, way = To(at, to)
  PROVE  LET full == [i \in DOMAIN way |-> Waypoint(Arrival(way[i]), way[i])]
         IN /\ TrailFrom(full, Waypoint(now, at), Waypoint(Arrival(to), to), Pace[unit])
            /\ way # <<>> /\ Passed(way) = Tail(full)
            /\ Arrival(to) \in Nat /\ Arrival(to) >= now
<1>1. Measured /\ at \in Nodes /\ unit \in Units /\ now \in Nat
  BY DEF UnderWay
<1>2. PICK pace \in Nat : pace = Pace[unit] /\ pace > 0
  BY <1>1, PaceIs
<1>3. PICK R : R = routes[at].distance
  OBVIOUS
<1>4. /\ way \in Seq(Nodes) /\ Len(way) \in Nat /\ Len(way) >= 1 /\ way[1] = at /\ way[Len(way)] = to
      /\ \A i \in 1..Len(way) : \E m \in Nat : R[way[i]] = pace * m
      /\ R[at] = 0
      /\ \A i \in 2..Len(way) : \E e \in EdgesOf(graph, way[i - 1]) :
           e.to = way[i] /\ R[way[i]] = R[way[i - 1]] + e.length
  <2>1. WholeWay(To(at, to), at, to, routes[at].distance, Pace[unit])
    BY <1>1, WholeWays
  <2> QED BY <1>2, <1>3, <2>1 DEF WholeWay
<1>5. PICK l \in Nat : l = Len(way) /\ l >= 1 /\ DOMAIN way = 1..l
  BY <1>4
<1>6. PICK full : full = [i \in DOMAIN way |-> Waypoint(Arrival(way[i]), way[i])]
  OBVIOUS
<1>7. \A n : Arrival(n) = now + R[n] \div pace
  BY <1>2, <1>3 DEF Arrival
<1>8. ASSUME NEW i \in 1..l
      PROVE  \E m \in Nat : R[way[i]] = pace * m /\ Arrival(way[i]) = now + m
  <2>1. PICK m \in Nat : R[way[i]] = pace * m
    BY <1>4, <1>5
  <2>2. R[way[i]] \div pace = m
    BY <1>2, <2>1, DividesBack
  <2> QED BY <1>7, <2>1, <2>2
<1>9. ASSUME NEW i \in 1..l
      PROVE  full[i] \in Waypoints /\ full[i].at = Arrival(way[i]) /\ full[i].point = P(way[i])
  <2>1. Arrival(way[i]) \in Nat
    BY <1>1, <1>8
  <2>2. way[i] \in Nodes
    BY <1>4, <1>5
  <2>3. P(way[i]) \in Points
    BY <2>2, NodesAre, GraphIsSound DEF NetworkSound
  <2>4. full[i] = [at |-> Arrival(way[i]), point |-> P(way[i])]
    BY <1>5, <1>6 DEF Waypoint, P
  <2> QED BY <2>1, <2>3, <2>4 DEF Waypoints
<1>10. full \in Seq(Waypoints) /\ Len(full) = l /\ full # <<>>
  <2>1. full \in [1..l -> Waypoints]
    BY <1>5, <1>6, <1>9
  <2>2. full \in Seq(Waypoints) /\ Len(full) = l
    BY <2>1, SeqIs
  <2> QED BY <1>5, <2>2
<1>11. ASSUME NEW i \in 2..l PROVE Beat(full[i - 1], full[i], pace)
  <2>1. i \in 1..l /\ i - 1 \in 1..l /\ i \in 2..Len(way)
    BY <1>5
  <2>2. PICK a \in Nat : R[way[i - 1]] = pace * a /\ Arrival(way[i - 1]) = now + a
    BY <1>8, <2>1
  <2>3. PICK b \in Nat : R[way[i]] = pace * b /\ Arrival(way[i]) = now + b
    BY <1>8, <2>1
  <2>4. way[i - 1] \in Nodes
    BY <1>4, <1>5, <2>1
  <2>5. PICK e \in EdgesOf(graph, way[i - 1]) : e.to = way[i] /\ R[way[i]] = R[way[i - 1]] + e.length
    BY <1>4, <2>1
  <2>6. PICK k \in Nat : k > 0 /\ e.length = pace * k
    BY <1>1, <1>2, <2>4, WholeLegs
  <2>7. pace * b = pace * (a + k)
    BY <1>2, <2>2, <2>3, <2>5, <2>6, MoreIs
  <2>8. b = a + k
    <3>1. (pace * b) \div pace = b /\ (pace * (a + k)) \div pace = a + k
      BY <1>2, DividesBack
    <3> QED BY <2>7, <3>1
  <2>9. full[i].at - full[i - 1].at = k /\ full[i - 1].at < full[i].at
    BY <1>1, <1>9, <2>1, <2>2, <2>3, <2>6, <2>8
  <2>10. full[i - 1].point = P(way[i - 1]) /\ full[i].point = P(e.to)
    BY <1>9, <2>1, <2>5
  <2> QED BY <2>4, <2>6, <2>9, <2>10 DEF Beat
<1>12. Trail(full, pace)
  BY <1>10, <1>11 DEF Trail
<1>13. full[1] = Waypoint(now, at)
  <2>1. PICK m \in Nat : R[way[1]] = pace * m /\ Arrival(way[1]) = now + m
    BY <1>5, <1>8
  <2>2. (pace * m) \div pace = m /\ (pace * 0) \div pace = 0
    BY <1>2, DividesBack
  <2>3. pace * 0 = 0 /\ R[way[1]] = 0
    BY <1>2, <1>4
  <2>4. m = 0
    BY <2>1, <2>2, <2>3
  <2>5. Arrival(way[1]) = now
    BY <1>1, <2>1, <2>4
  <2> QED BY <1>4, <1>5, <1>6, <2>5
<1>14. full[Len(full)] = Waypoint(Arrival(to), to)
  BY <1>4, <1>5, <1>6, <1>10
<1>15. way # <<>> /\ Passed(way) = Tail(full)
  BY <1>4, <1>6 DEF Passed
<1>16. Arrival(to) \in Nat /\ Arrival(to) >= now
  <2>1. PICK m \in Nat : Arrival(way[l]) = now + m
    BY <1>5, <1>8
  <2> QED BY <1>1, <1>4, <1>5, <2>1
<1>17. TrailFrom(full, Waypoint(now, at), Waypoint(Arrival(to), to), pace)
  BY <1>12, <1>13, <1>14 DEF TrailFrom
<1> QED BY <1>2, <1>6, <1>15, <1>16, <1>17

\* Where and when somebody who goes somewhere comes.
There(to) == IF To(at, to) = <<>> THEN at ELSE to
Come(to)  == IF To(at, to) = <<>> THEN now ELSE Arrival(to)

\* Whoever goes somewhere has a trail that leads there.
LEMMA GoWalks ==
  ASSUME NetworkSound, UnderWay, NEW to \in Nodes
  PROVE  /\ There(to) \in Nodes /\ Come(to) \in Nat /\ Come(to) >= now
         /\ TrailFrom(track \o Passed(To(at, to)), track[1], Waypoint(Come(to), There(to)), Pace[unit])
<1>0. PICK pace, first : pace = Pace[unit] /\ first = track[1]
  OBVIOUS
<1>9. PICK way : way = To(at, to)
  OBVIOUS
<1>1. at \in Nodes /\ now \in Nat
  BY DEF UnderWay
<1>2. TrailFrom(track, first, Waypoint(now, at), pace)
  BY <1>0 DEF UnderWay
<1>3. CASE routes[at].distance[to] = Far
  <2>1. way = <<>>
    BY <1>3, <1>9, ToIs
  <2>2. Passed(way) = <<>>
    BY <2>1 DEF Passed
  <2>3. track \in Seq(Waypoints)
    BY <1>2 DEF Trail, TrailFrom
  <2>4. track \o Passed(way) = track
    BY <2>2, <2>3
  <2>5. There(to) = at /\ Come(to) = now
    BY <1>9, <2>1 DEF There, Come
  <2> QED BY <1>0, <1>1, <1>2, <1>9, <2>4, <2>5
<1>4. CASE routes[at].distance[to] # Far
  <2>1. PICK full : /\ TrailFrom(full, Waypoint(now, at), Waypoint(Arrival(to), to), pace)
                    /\ way # <<>> /\ Passed(way) = Tail(full)
                    /\ Arrival(to) \in Nat /\ Arrival(to) >= now
    BY <1>0, <1>4, <1>9, PassedIs
  <2>2. TrailFrom(track \o Tail(full), first, Waypoint(Arrival(to), to), pace)
    BY <1>2, <2>1, TrailJoins
  <2>3. There(to) = to /\ Come(to) = Arrival(to)
    BY <1>9, <2>1 DEF There, Come
  <2> QED BY <1>0, <1>9, <2>1, <2>2, <2>3
<1> QED BY <1>3, <1>4

\* Whoever goes somewhere and stays has a trail that goes on.
LEMMA GoIs ==
  ASSUME NetworkSound, UnderWay, NEW to \in Nodes, NEW stay \in Nat, stay > 0, Go(to, stay)
  PROVE  /\ UnderWay'
         /\ at' = There(to) /\ now' = Come(to) + stay /\ since' = now
         /\ Come(to) \in Nat /\ Come(to) >= now
         /\ Len(track') >= 2 /\ track'[Len(track') - 1] = Waypoint(Come(to), There(to))
<1>1. Measured /\ at \in Nodes /\ unit \in Units /\ now \in Nat /\ since \in Nat /\ since =< now
  BY DEF UnderWay
<1>2. PICK pace, first : pace = Pace[unit] /\ first = track[1] /\ TrailFrom(track, first, Waypoint(now, at), pace)
  BY DEF UnderWay
<1>3. PICK way : way = To(at, to)
  OBVIOUS
<1>4. PICK there, come : there = There(to) /\ come = Come(to)
  OBVIOUS
<1>5. there = (IF way = <<>> THEN at ELSE to) /\ come = (IF way = <<>> THEN now ELSE Arrival(to))
  BY <1>3, <1>4 DEF There, Come
<1>6. PICK walked : walked = track \o Passed(way)
  OBVIOUS
<1>7. /\ there \in Nodes /\ come \in Nat /\ come >= now
      /\ TrailFrom(walked, first, Waypoint(come, there), pace)
  BY <1>2, <1>3, <1>4, <1>6, GoWalks
<1>8. PICK w : w = Waypoint(come + stay, there)
  OBVIOUS
<1>9. w \in Waypoints /\ Beat(Waypoint(come, there), w, pace)
  <2>1. P(there) \in Points
    BY <1>7, NodesAre, GraphIsSound DEF NetworkSound
  <2>2. w = [at |-> come + stay, point |-> P(there)] /\ Waypoint(come, there) = [at |-> come, point |-> P(there)]
    BY <1>7, <1>8 DEF Waypoint, P
  <2>3. come + stay \in Nat /\ come < come + stay
    BY <1>7
  <2>4. w \in Waypoints
    BY <2>1, <2>2, <2>3 DEF Waypoints
  <2>5. Beat(Waypoint(come, there), w, pace)
    BY <2>2, <2>3 DEF Beat
  <2> QED BY <2>4, <2>5
<1>10. PICK all : all = walked \o <<w>>
  OBVIOUS
<1>11. TrailFrom(all, first, w, pace)
  BY <1>7, <1>9, <1>10, TrailGrows
<1>12. Recalled \in Nat
  BY NetworkAssumption DEF Recalled
<1>13. PICK back \in Int : back = now - Recalled
  BY <1>1, <1>12
<1>14. PICK kept : kept = Kept(all, back)
  OBVIOUS
<1>15. PICK c : TrailFrom(kept, c, w, pace) /\ (c.at =< back \/ c = first)
  BY <1>11, <1>13, <1>14, TrailKept
<1>23. Len(kept) >= 2 /\ kept[Len(kept) - 1] = Waypoint(come, there)
  <2>1. /\ Len(all) >= 2 /\ all[Len(all) - 1] = Waypoint(come, there)
    <3>1. PICK m \in Nat : m = Len(walked) /\ m >= 1 /\ walked[m] = Waypoint(come, there) /\ walked \in Seq(Waypoints)
      <4>1. Trail(walked, pace) /\ walked[Len(walked)] = Waypoint(come, there)
        BY <1>7 DEF TrailFrom
      <4>2. walked \in Seq(Waypoints)
        BY <4>1 DEF Trail
      <4> QED BY <4>1, <4>2, TrailHas
    <3>2. Len(all) = m + 1 /\ all[m] = walked[m]
      BY <1>9, <1>10, <3>1
    <3> QED BY <3>1, <3>2
  <2>2. Waypoint(come, there).at = come
    BY DEF Waypoint
  <2>3. back =< come
    BY <1>1, <1>7, <1>12, <1>13
  <2> QED BY <1>11, <1>13, <1>14, <2>1, <2>2, <2>3, KeptEnds
<1>16. track' = kept /\ at' = there /\ now' = come + stay /\ since' = now /\ unit' = unit /\ UNCHANGED network
  <2>1. at' = there /\ now' = come + stay /\ since' = now /\ unit' = unit /\ UNCHANGED network
    BY <1>3, <1>5 DEF Go
  <2>2. graph' = graph
    BY <2>1 DEF network
  <2>3. [at |-> now', point |-> graph.points[at']] = w
    BY <1>8, <2>1 DEF Waypoint
  <2>4. track' = Kept((track \o Passed(way)) \o <<w>>, now - Recalled)
    BY <1>3, <1>8, <2>1, <2>2 DEF Go, Waypoint
  <2> QED BY <1>6, <1>10, <1>13, <1>14, <2>1, <2>4
<1>17. graph' = graph /\ routes' = routes
  BY <1>16 DEF network
<1>18. TrailFrom(kept, c, w, pace)'
  BY <1>15, <1>17 DEF TrailFrom, Trail, Beat, Nodes, NodesOf, EdgesOf, P
<1>19. w = Waypoint(now, at)' /\ c = kept[1]
  BY <1>8, <1>15, <1>16, <1>17 DEF Waypoint, TrailFrom
<1>20. TrailFrom(track, track[1], Waypoint(now, at), Pace[unit])'
  BY <1>2, <1>16, <1>18, <1>19
<1>21. c.at = 0 \/ c.at =< since' - Recalled'
  <2>1. Recalled' = Recalled
    BY <1>16 DEF Recalled
  <2>2. first.at \in Nat /\ (first.at = 0 \/ first.at =< since - Recalled)
    <3>1. Trail(track, pace)
      BY <1>2 DEF TrailFrom
    <3> QED BY <1>2, <3>1, TrailHas DEF UnderWay
  <2>3. c.at \in Nat
    <3>1. Trail(kept, pace)
      BY <1>15 DEF TrailFrom
    <3> QED BY <1>19, <3>1, TrailHas
  <2> QED BY <1>1, <1>12, <1>13, <1>15, <1>16, <2>1, <2>2, <2>3
<1>22. Measured' /\ at' \in Nodes' /\ unit' \in Units /\ now' \in Nat /\ since' \in Nat /\ since' =< now'
  BY <1>1, <1>7, <1>16, <1>17 DEF Measured, Nodes, NodesOf
<1>24. UnderWay'
  BY <1>16, <1>19, <1>20, <1>21, <1>22 DEF UnderWay
<1> QED BY <1>4, <1>7, <1>16, <1>23, <1>24

WorkingsSound == NetworkSound /\ PlanSound /\ JourneySound

\* The workings begin sound.
LEMMA WorkingsBegin ==
  ASSUME Init
  PROVE  WorkingsSound
<1>1. NetworkSound
  BY NetworkBegins DEF Init
<1>2. PlanSound
  BY DEF Init, PlanSound, Worked, NoPlan
<1>3. JourneySound
  BY DEF Init, JourneySound
<1> QED BY <1>1, <1>2, <1>3 DEF WorkingsSound

\* The plan is kept with the tunnels.
LEMMA PlanKept ==
  ASSUME PlanSound, plan' = plan, tunnels' = tunnels
  PROVE  PlanSound'
BY DEF PlanSound, Worked

\* A journey that does not go on stays sound.
LEMMA JourneyKept ==
  ASSUME JourneySound, UNCHANGED journey, UNCHANGED network
  PROVE  JourneySound'
<1>1. /\ graph' = graph /\ routes' = routes /\ at' = at /\ unit' = unit /\ now' = now /\ since' = since
      /\ track' = track
  BY DEF journey, network
<1> QED BY <1>1 DEF JourneySound, UnderWay, Measured, TrailFrom, Trail, Beat, Waypoint, Recalled, Nodes, NodesOf,
                    EdgesOf, P

\* None is no node.
LEMMA NoneIs ==
  ASSUME NetworkSound, NEW n \in Nodes
  PROVE  n # None
BY NodesAre, GraphIsSound DEF NetworkSound, None

\* Where somebody sets out from is where their track begins.
LEMMA StartIs ==
  ASSUME WorkingsSound, Start
  PROVE  JourneySound'
<1>1. /\ Measured /\ at = None /\ unit' \in Units /\ track' = <<[at |-> 0, point |-> graph.points[at']]>>
      /\ UNCHANGED network /\ now' = now /\ since' = since
      /\ at' \in IF ~Crew(unit') THEN {Tip}
                 ELSE IF Worked THEN {NodeAt(graph, p) : p \in ToSet(ActiveAt(plan.shifts, plan.rotate, 0))}
                 ELSE Workplaces
  BY DEF Start, Waypoint
<1>2. NetworkSound /\ PlanSound /\ now = 0 /\ since = 0
  BY <1>1 DEF WorkingsSound, JourneySound
<1>3. at' \in Nodes
  <2>1. Tip \in Nodes /\ Workplaces \subseteq Nodes
    BY <1>2, TipIs, WorkplacesAre
  <2>2. Worked => {NodeAt(graph, p) : p \in ToSet(ActiveAt(plan.shifts, plan.rotate, 0))} \subseteq Nodes
    BY <1>2, WorkedAre, FaceAt DEF FaceNodes
  <2> QED BY <1>1, <2>1, <2>2
<1>4. PICK n \in Nodes : n = at'
  BY <1>3
<1>5. P(n) \in Points /\ n # None
  BY <1>2, NoneIs, NodesAre, GraphIsSound DEF NetworkSound
<1>6. PICK w : w = [at |-> 0, point |-> P(n)]
  OBVIOUS
<1>7. PICK s : s = <<w>>
  OBVIOUS
<1>8. w \in Waypoints /\ w.at = 0
  BY <1>5, <1>6 DEF Waypoints
<1>9. s \in Seq(Waypoints) /\ Len(s) = 1 /\ s # <<>> /\ s[1] = w
  BY <1>7, <1>8
<1>10. graph' = graph /\ routes' = routes
  BY <1>1 DEF network
<1>11. track' = s
  BY <1>1, <1>4, <1>6, <1>7 DEF P
<1>12. w = Waypoint(now, at)'
  BY <1>1, <1>2, <1>4, <1>6, <1>10 DEF Waypoint, P
<1>13. TrailFrom(s, w, w, Pace[unit'])
  BY <1>9 DEF TrailFrom, Trail
<1>14. TrailFrom(track, track[1], Waypoint(now, at), Pace[unit])'
  BY <1>9, <1>10, <1>11, <1>12, <1>13 DEF TrailFrom, Trail, Beat, Nodes, NodesOf, EdgesOf, P
<1>15. UnderWay'
  <2>1. track'[1].at = 0
    BY <1>8, <1>9, <1>11
  <2>2. Measured' /\ at' \in Nodes' /\ unit' \in Units /\ now' = 0 /\ since' = 0
    BY <1>1, <1>2, <1>3, <1>10 DEF Measured, Nodes, NodesOf
  <2> QED BY <1>14, <2>1, <2>2 DEF UnderWay
<1> QED BY <1>4, <1>5, <1>15 DEF JourneySound

\* Whoever goes somewhere ends there.
LEMMA Goes ==
  ASSUME WorkingsSound, at # None, NEW to \in Nodes, NEW stay \in Nat, stay > 0, Go(to, stay)
  PROVE  JourneySound'
<1>1. NetworkSound /\ UnderWay
  BY DEF WorkingsSound, JourneySound
<1>2. UnderWay'
  BY <1>1, GoIs
<1>3. Nodes' = Nodes
  BY DEF Go, network, Nodes, NodesOf
<1>4. PICK n \in Nodes : n = at'
  BY <1>2, <1>3 DEF UnderWay
<1>5. at' # None
  BY <1>1, <1>4, NoneIs
<1> QED BY <1>2, <1>5 DEF JourneySound

\* Every step keeps the workings sound.
LEMMA WorkingsStep ==
  ASSUME WorkingsSound, [Next]_vars
  PROVE  WorkingsSound'
<1>1. NetworkSound /\ PlanSound /\ JourneySound
  BY DEF WorkingsSound
<1>2. NetworkSound'
  BY <1>1, NetworkStep
<1>3. CASE Measure
  <2>1. plan' = plan /\ UNCHANGED journey /\ tunnels' = tunnels /\ ~Measured
    <3>1. plan' = plan /\ UNCHANGED journey /\ tunnels' = tunnels /\ Len(routes) < Cardinality(Nodes)
      BY <1>3 DEF Measure, Settle, Searched
    <3>2. Len(routes) \in Nat
      BY <1>1 DEF NetworkSound, RoutesSound
    <3>3. Cardinality(Nodes) \in Nat
      BY <1>1, NodesAre, GraphIsSound DEF NetworkSound
    <3> QED BY <3>1, <3>2, <3>3 DEF Measured
  <2>2. at = None /\ now = 0 /\ since = 0
    BY <1>1, <2>1 DEF JourneySound, UnderWay
  <2>3. JourneySound'
    BY <2>1, <2>2 DEF JourneySound, journey
  <2> QED BY <1>1, <1>2, <2>1, <2>3, PlanKept DEF WorkingsSound
<1>4. CASE NewPlan
  <2>1. PlanSound'
    BY <1>1, <1>4, PlanMade
  <2>2. JourneySound'
    BY <1>1, <1>4, JourneyKept DEF NewPlan
  <2> QED BY <1>2, <2>1, <2>2 DEF WorkingsSound
<1>5. CASE Start
  <2>1. JourneySound'
    BY <1>5, StartIs
  <2>2. PlanSound'
    BY <1>1, <1>5, PlanKept DEF Start, network
  <2> QED BY <1>2, <2>1, <2>2 DEF WorkingsSound
<1>6. CASE Wander \/ Haul \/ Clear \/ Work
  <2>1. plan' = plan /\ tunnels' = tunnels /\ at # None
    BY <1>6 DEF Wander, Haul, Clear, Work, Go, network, Travelling
  <2>2. at \in Nodes /\ unit \in Units /\ now \in Nat
    BY <1>1, <2>1 DEF JourneySound, UnderWay
  <2>3. Stays[unit] \subseteq Nat \ {0}
    BY <2>2, WorkingsAssumption
  <2>4. Workplaces \subseteq Nodes /\ Tip \in Nodes /\ Station(at) \in Nodes
    BY <1>1, TipIs, WorkplacesAre, StationIs
  <2>5. \E to \in Nodes : \E stay \in Nat : stay > 0 /\ Go(to, stay)
    <3>1. CASE Wander
      <4>1. PICK to \in Nodes : \E stay \in Stays[unit] : Go(to, stay)
        BY <2>4, <3>1 DEF Wander
      <4> QED BY <2>3, <4>1
    <3>2. CASE Haul
      <4>1. PICK to \in Nodes : \E stay \in Stays[unit] : Go(to, stay)
        BY <2>4, <3>2 DEF Haul
      <4> QED BY <2>3, <4>1
    <3>3. CASE Clear
      <4>1. Worked /\ Evacuation(now) # <<>> /\ Go(Station(at), Max({Evacuation(now)[1].reentry - now, 1}))
        BY <3>3 DEF Clear, Clearing
      <4>2. Evacuation(now)[1] \in Evacuated
        BY <1>1, <4>1, EvacuationIs
      <4>3. PICK x \in Int : x = Evacuation(now)[1].reentry - now
        BY <2>2, <4>2 DEF Evacuated
      <4>4. Max({x, 1}) = IF x < 1 THEN 1 ELSE x
        BY MaxOfTwo
      <4>5. PICK y : y = Max({x, 1})
        OBVIOUS
      <4>6. y \in Nat /\ y > 0
        BY <4>3, <4>4, <4>5
      <4>7. Go(Station(at), y)
        BY <4>1, <4>3, <4>5
      <4> QED BY <2>4, <4>6, <4>7
    <3>4. CASE Work
      <4>1. WorkedNow(at, now) \subseteq Nodes
        <5>1. {NodeAt(graph, p) : p \in ToSet(ActiveAt(plan.shifts, plan.rotate, now))} \subseteq Nodes
          BY <1>1, <2>2, <3>4, WorkedAre, FaceAt DEF Work, FaceNodes
        <5> QED BY <5>1 DEF WorkedNow
      <4>2. PICK to \in Nodes : \E stay \in Stays[unit] : Go(to, stay)
        BY <4>1, <3>4 DEF Work
      <4> QED BY <2>3, <4>2
    <3> QED BY <1>6, <3>1, <3>2, <3>3, <3>4
  <2>6. JourneySound'
    BY <2>1, <2>5, Goes
  <2> QED BY <1>1, <1>2, <2>1, <2>6, PlanKept DEF WorkingsSound
<1>7. CASE UNCHANGED vars
  <2>1. UNCHANGED network /\ UNCHANGED journey /\ plan' = plan /\ tunnels' = tunnels
    BY <1>7 DEF vars, network
  <2> QED BY <1>1, <1>2, <2>1, PlanKept, JourneyKept DEF WorkingsSound
<1> QED BY <1>3, <1>4, <1>5, <1>6, <1>7 DEF Next

\* In every mine, worked any way: the track of every unit is a trail, each
\* waypoint a stay or a walk along one leg at the unit's pace, that ends where and
\* when the unit is and goes back as far as its ground is asked for
\* (internal/workload/workforce.go).
THEOREM WorkingsAreSound == Spec => []WorkingsSound
<1>1. Init => WorkingsSound
  BY WorkingsBegin
<1>2. WorkingsSound /\ [Next]_vars => WorkingsSound'
  BY WorkingsStep
<1> QED BY <1>1, <1>2, PTL DEF Spec

-----------------------------------------------------------------------------
(* Where somebody is between two waypoints.                                 *)

\* The waypoints of a trail are in order.
LEMMA TrailInOrder ==
  ASSUME NEW s, NEW pace, Trail(s, pace), NEW i \in 1..Len(s), NEW j \in 1..Len(s), i =< j
  PROVE  s[i].at =< s[j].at
<1>1. PICK l \in Nat : l = Len(s) /\ l >= 1
  BY TrailHas
<1> DEFINE S == {k \in Nat : i + k =< l => s[i].at =< s[i + k].at}
<1>2. 0 \in S
  <2>1. i + 0 = i /\ s[i].at \in Nat
    BY <1>1, TrailHas
  <2> QED BY <2>1
<1>3. ASSUME NEW k \in Nat, k \in S PROVE k + 1 \in S
  <2> SUFFICES ASSUME i + (k + 1) =< l PROVE s[i].at =< s[i + (k + 1)].at
    OBVIOUS
  <2>1. i + (k + 1) \in 2..Len(s) /\ (i + (k + 1)) - 1 = i + k /\ i + k \in 1..Len(s) /\ i + (k + 1) \in 1..Len(s)
    BY <1>1
  <2>2. s[i + k].at < s[i + (k + 1)].at
    BY <2>1 DEF Trail, Beat
  <2>3. s[i].at =< s[i + k].at
    BY <1>1, <1>3, <2>1
  <2>4. s[i].at \in Nat /\ s[i + k].at \in Nat /\ s[i + (k + 1)].at \in Nat
    BY <1>1, <2>1, TrailHas
  <2> QED BY ONLY <2>2, <2>3, <2>4
<1>4. \A k \in Nat : k \in S
  <2> HIDE DEF S
  <2> QED BY <1>2, <1>3, Induction
<1>5. j - i \in Nat /\ i + (j - i) = j /\ j =< l
  BY <1>1
<1>6. j - i \in S
  BY <1>4, <1>5
<1> QED BY <1>5, <1>6

\* A time a trail covers is between two of its waypoints.
LEMMA TrailCovers ==
  ASSUME NEW s, NEW pace, Trail(s, pace), NEW t \in Int, s[1].at =< t, t < s[Len(s)].at
  PROVE  \E i \in 2..Len(s) : s[i - 1].at =< t /\ t < s[i].at
<1>1. PICK l \in Nat : l = Len(s) /\ l >= 1 /\ \A i \in 1..l : s[i].at \in Nat
  BY TrailHas
<1>2. PICK A : A = {i \in 1..l : s[i].at > t}
  OBVIOUS
<1>3. A \subseteq Nat /\ l \in A
  BY <1>1, <1>2
<1>4. PICK i \in A : \A x \in A : i =< x
  BY <1>3, LeastOf
<1>5. i \in 1..l /\ s[i].at > t
  BY <1>2, <1>4
<1>6. i # 1
  BY <1>1, <1>5
<1>7. i - 1 \in 1..l /\ i - 1 \notin A
  BY <1>1, <1>4, <1>5, <1>6
<1>8. s[i - 1].at =< t
  BY <1>1, <1>2, <1>7
<1> QED BY <1>1, <1>5, <1>6, <1>8

\* One coordinate of the place between two waypoints.
Share(a, b, k, d) == a + ((b - a) * k) \div d

\* Entity.PositionAt, of one coordinate: as far along as the pace takes one.
LEMMA CoordinateIs ==
  ASSUME NEW a \in Int, NEW b \in Int, NEW pace \in Nat, pace > 0, NEW d \in Nat, d > 0, NEW k \in Nat, k =< d,
         a = b \/ Gap(a, b) = pace * d, NEW far, far = pace * k
  PROVE  Share(a, b, k, d) = Pass(a, b, far)
<1>1. CASE a = b
  <2>1. (b - a) * k = 0 /\ 0 \div d = 0
    BY <1>1
  <2> QED BY <1>1, <2>1 DEF Pass, Share
<1>2. CASE a < b
  <2>1. b - a = pace * d
    BY <1>2 DEF Gap
  <2>2. (b - a) * k = (pace * k) * d
    BY <2>1
  <2>3. PICK x \in Int : x = pace * k
    OBVIOUS
  <2>4. (x * d) \div d = x
    OBVIOUS
  <2> QED BY <1>2, <2>2, <2>3, <2>4 DEF Pass, Share
<1>3. CASE b < a
  <2>1. a - b = pace * d
    BY <1>3 DEF Gap
  <2>2. PICK x \in Int : x = -(pace * k)
    OBVIOUS
  <2>3. (b - a) * k = x * d
    <3>1. b - a = -(pace * d)
      BY <2>1
    <3>2. -(pace * d) * k = -(pace * k) * d
      OBVIOUS
    <3> QED BY <2>2, <3>1, <3>2
  <2>4. (x * d) \div d = x
    OBVIOUS
  <2> QED BY <1>3, <2>2, <2>3, <2>4 DEF Pass, Share
<1> QED BY <1>1, <1>2, <1>3

\* A point is the triple of its coordinates.
LEMMA PointIs ==
  ASSUME NEW p \in Points
  PROVE  <<p[1], p[2], p[3]>> = p
BY DEF Points

\* Between two waypoints one is where one stays, or as far along the leg as
\* one's pace takes one.
LEMMA PositionIs ==
  ASSUME Sound, NEW pace \in Nat, pace > 0, Trail(track, pace), NEW i \in 2..Len(track),
         NEW t \in Nat, track[i - 1].at =< t, t =< track[i].at
  PROVE  LET a == track[i - 1]
             b == track[i]
         IN PositionAt(t) = IF a.point = b.point THEN a.point ELSE Toward(a.point, b.point, pace * (t - a.at))
<1>1. PICK s : s = track
  OBVIOUS
<1>2. PICK l \in Nat : /\ l = Len(s) /\ l >= 1 /\ DOMAIN s = 1..l
                       /\ \A j \in 1..l : s[j].at \in Nat /\ s[j].point \in Points
  BY <1>1, TrailHas
<1>3. i \in 1..l /\ i - 1 \in 1..l /\ i \in 2..l
  BY <1>1, <1>2
<1>4. PICK a, b : a = s[i - 1] /\ b = s[i]
  OBVIOUS
<1>5. a.at \in Nat /\ b.at \in Nat /\ a.point \in Points /\ b.point \in Points /\ a.at =< t /\ t =< b.at
  BY <1>1, <1>2, <1>3, <1>4
<1>6. Beat(a, b, pace)
  BY <1>1, <1>2, <1>3, <1>4 DEF Trail
<1>7. PICK d \in Nat : d = b.at - a.at /\ d > 0
  BY <1>5, <1>6 DEF Beat
<1>8. PICK k \in Nat : k = t - a.at /\ k =< d
  BY <1>5, <1>7
<1>9. PICK after : after = {j \in DOMAIN s : s[j].at > t}
  OBVIOUS
<1>10. after \subseteq 1..l
  BY <1>2, <1>9
<1>11. \A j \in after : j >= i
  <2>1. SUFFICES ASSUME NEW j \in after, j < i PROVE FALSE
    BY <1>3, <1>10
  <2>2. j \in 1..Len(s) /\ i - 1 \in 1..Len(s) /\ j =< i - 1
    BY <1>2, <1>3, <1>10, <2>1
  <2>3. s[j].at =< s[i - 1].at
    BY <1>1, <2>2, TrailInOrder
  <2> QED BY <1>2, <1>4, <1>5, <1>9, <1>10, <2>1, <2>2, <2>3
<1>12. a.point # b.point =>
         \E n \in Nodes : \E e \in EdgesOf(graph, n) : P(n) = a.point /\ P(e.to) = b.point /\ e.length = pace * d
  BY <1>6, <1>7 DEF Beat
<1>13. CASE t < b.at
  <2>1. i \in after
    BY <1>2, <1>3, <1>4, <1>9, <1>13
  <2>2. Min(after) = i
    <3>1. after \subseteq Nat
      BY <1>10
    <3>2. Min(after) \in after /\ \A x \in after : Min(after) =< x
      BY <2>1, <3>1, MinIs
    <3>3. Min(after) >= i /\ Min(after) =< i /\ Min(after) \in Nat
      BY <1>11, <2>1, <3>1, <3>2
    <3> QED BY <1>3, <3>3
  <2> DEFINE part(c) == a.point[c] + ((b.point[c] - a.point[c]) * (t - a.at)) \div (b.at - a.at)
  <2>3. PositionAt(t) = <<part(1), part(2), part(3)>>
    <3>1. after # {} /\ Min(after) # 1
      BY <1>3, <2>1, <2>2
    <3> QED BY <1>1, <1>4, <1>9, <2>2, <3>1 DEF PositionAt
  <2>4. \A c \in 1..3 : part(c) = a.point[c] + ((b.point[c] - a.point[c]) * k) \div d
    BY <1>7, <1>8
  <2>5. \A c \in 1..3 : a.point[c] \in Int /\ b.point[c] \in Int
    BY <1>5, PointType
  <2>6. CASE a.point = b.point
    <3>1. \A c \in 1..3 : part(c) = a.point[c]
      <4>1. TAKE c \in 1..3
      <4>2. PICK x \in Int : x = a.point[c]
        BY <2>5
      <4>3. part(c) = x + ((x - x) * k) \div d
        BY <2>4, <2>6, <4>2
      <4>4. (x - x) * k = 0 /\ 0 \div d = 0
        BY <1>7
      <4> QED BY <4>2, <4>3, <4>4
    <3>2. <<a.point[1], a.point[2], a.point[3]>> = a.point
      BY <1>5, PointIs
    <3>3. PositionAt(t) = a.point
      <4> HIDE DEF part
      <4> QED BY <2>3, <3>1, <3>2
    <3> QED BY <1>1, <1>4, <2>6, <3>3
  <2>7. CASE a.point # b.point
    <3>1. PICK n \in Nodes : \E e \in EdgesOf(graph, n) : P(n) = a.point /\ P(e.to) = b.point /\ e.length = pace * d
      BY <1>12, <2>7
    <3>2. PICK e \in EdgesOf(graph, n) : P(n) = a.point /\ P(e.to) = b.point /\ e.length = pace * d
      BY <3>1
    <3>3. Straight(a.point, b.point) /\ Length(a.point, b.point) = pace * d
      BY <3>2, LegIs
    <3>4. b.point \in Stretch(a.point, b.point)
      BY <1>5, EndsOn
    <3>5. PICK g \in {1, 2, 3} : /\ \A j \in {1, 2, 3} \ {g} : a.point[j] = b.point[j]
                                 /\ Length(a.point, b.point) = Gap(a.point[g], b.point[g])
      <4>1. PICK p \in Points : p = a.point
        BY <1>5
      <4>2. PICK q \in Points : q = b.point
        BY <1>5
      <4>3. Straight(p, q) /\ q \in Stretch(p, q)
        BY <3>3, <3>4, <4>1, <4>2
      <4>4. PICK g \in {1, 2, 3} :
               /\ \A j \in {1, 2, 3} \ {g} : p[j] = q[j] /\ q[j] = p[j]
               /\ Amid(q[g], p[g], q[g])
               /\ Length(p, q) = Gap(p[g], q[g]) /\ Length(p, q) = Gap(p[g], q[g])
        BY <4>3, LineHas
      <4> QED BY <4>1, <4>2, <4>4
    <3>6. \A c \in 1..3 : a.point[c] = b.point[c] \/ Gap(a.point[c], b.point[c]) = pace * d
      BY <3>3, <3>5
    <3>7. \A c \in 1..3 : part(c) = Pass(a.point[c], b.point[c], pace * k)
      <4>1. TAKE c \in 1..3
      <4>2. a.point[c] + ((b.point[c] - a.point[c]) * k) \div d = Pass(a.point[c], b.point[c], pace * k)
        <5>1. PICK x \in Int : x = a.point[c]
          BY <2>5
        <5>2. PICK y \in Int : y = b.point[c]
          BY <2>5
        <5>3. x = y \/ Gap(x, y) = pace * d
          BY <3>6, <5>1, <5>2
        <5>4. x + ((y - x) * k) \div d = Pass(x, y, pace * k)
          <6>1. PICK far : far = pace * k
            OBVIOUS
          <6>2. pace \in Nat /\ pace > 0 /\ d \in Nat /\ d > 0 /\ k \in Nat /\ k =< d
            BY <1>7, <1>8
          <6>3. Share(x, y, k, d) = Pass(x, y, far)
            BY <5>3, <6>1, <6>2, CoordinateIs
          <6> QED BY <6>1, <6>3 DEF Share
        <5> QED BY <5>1, <5>2, <5>4
      <4> HIDE DEF part
      <4> QED BY <2>4, <4>2
    <3>8. pace * k \in Nat
      OBVIOUS
    <3>9. PositionAt(t) = Toward(a.point, b.point, pace * k)
      <4>1. PICK x \in Nat : x = pace * k
        BY <3>8
      <4>2. PICK p \in Points : p = a.point
        BY <1>5
      <4>3. PICK q \in Points : q = b.point
        BY <1>5
      <4>4. Toward(p, q, x) = <<Pass(p[1], q[1], x), Pass(p[2], q[2], x), Pass(p[3], q[3], x)>>
        BY TowardIs
      <4>5. part(1) = Pass(p[1], q[1], x) /\ part(2) = Pass(p[2], q[2], x) /\ part(3) = Pass(p[3], q[3], x)
        <5> HIDE DEF part
        <5> QED BY <3>7, <4>1, <4>2, <4>3
      <4> HIDE DEF part
      <4> QED BY <2>3, <4>1, <4>2, <4>3, <4>4, <4>5
    <3> QED BY <1>1, <1>4, <1>8, <2>7, <3>9
  <2> QED BY <2>6, <2>7
<1>14. CASE t = b.at
  <2>1. PositionAt(t) = b.point
    <3>1. CASE i = l
      <4>1. after = {}
        <5>1. SUFFICES ASSUME NEW j \in after PROVE FALSE
          OBVIOUS
        <5>2. j = i
          BY <1>3, <1>10, <1>11, <3>1
        <5> QED BY <1>4, <1>5, <1>9, <1>14, <5>2
      <4> QED BY <1>1, <1>2, <1>4, <1>9, <3>1, <4>1 DEF PositionAt
    <3>2. CASE i < l
      <4>1. i + 1 \in 1..l /\ i + 1 \in 2..Len(s) /\ (i + 1) - 1 = i
        BY <1>2, <1>3, <3>2
      <4>2. PICK z : z = s[i + 1]
        OBVIOUS
      <4>3. z.at \in Nat /\ z.point \in Points /\ b.at < z.at
        <5>1. Beat(s[(i + 1) - 1], s[i + 1], pace)
          BY <1>1, <4>1 DEF Trail
        <5> QED BY <1>2, <1>4, <4>1, <4>2, <5>1 DEF Beat
      <4>4. i + 1 \in after
        BY <1>2, <1>5, <1>9, <1>14, <4>1, <4>2, <4>3
      <4>5. Min(after) = i + 1
        <5>1. after \subseteq Nat
          BY <1>10
        <5>2. Min(after) \in after /\ \A x \in after : Min(after) =< x
          BY <4>4, <5>1, MinIs
        <5>3. i \notin after
          BY <1>4, <1>5, <1>9, <1>14
        <5>4. Min(after) >= i /\ Min(after) # i /\ Min(after) =< i + 1 /\ Min(after) \in Nat
          BY <1>11, <4>4, <5>1, <5>2, <5>3
        <5> QED BY <1>3, <5>4
      <4> DEFINE part(c) == b.point[c] + ((z.point[c] - b.point[c]) * (t - b.at)) \div (z.at - b.at)
      <4>6. PositionAt(t) = <<part(1), part(2), part(3)>>
        <5>1. after # {} /\ Min(after) # 1 /\ Min(after) - 1 = i
          BY <1>3, <4>4, <4>5
        <5> QED BY <1>1, <1>4, <1>9, <4>2, <4>5, <5>1 DEF PositionAt
      <4>7. \A c \in 1..3 : b.point[c] \in Int /\ z.point[c] \in Int
        BY <1>5, <4>3, PointType
      <4>8. \A c \in 1..3 : part(c) = b.point[c]
        <5>1. TAKE c \in 1..3
        <5>2. PICK q \in Nat : q = z.at - b.at /\ q > 0
          BY <1>5, <4>3
        <5>3. PICK y \in Int : y = z.point[c] - b.point[c]
          <6>1. z.point[c] \in Int /\ b.point[c] \in Int
            BY ONLY <4>7, c \in 1..3
          <6> QED BY ONLY <6>1
        <5>4. t - b.at = 0
          BY <1>5, <1>14
        <5>5. part(c) = b.point[c] + (y * 0) \div q
          BY <5>2, <5>3, <5>4
        <5>6. (y * 0) \div q = 0
          BY <5>2
        <5>7. PICK x \in Int : x = b.point[c]
          BY <4>7
        <5>8. part(c) = x + 0
          <6> HIDE DEF part
          <6> QED BY <5>5, <5>6, <5>7
        <5> HIDE DEF part
        <5> QED BY <5>7, <5>8
      <4>9. <<b.point[1], b.point[2], b.point[3]>> = b.point
        BY <1>5, PointIs
      <4> HIDE DEF part
      <4> QED BY <4>6, <4>8, <4>9
    <3> QED BY <1>3, <3>1, <3>2
  <2>2. CASE a.point = b.point
    BY <1>1, <1>4, <2>1, <2>2
  <2>3. CASE a.point # b.point
    <3>1. PICK n \in Nodes : \E e \in EdgesOf(graph, n) : P(n) = a.point /\ P(e.to) = b.point /\ e.length = pace * d
      BY <1>12, <2>3
    <3>2. PICK e \in EdgesOf(graph, n) : P(n) = a.point /\ P(e.to) = b.point /\ e.length = pace * d
      BY <3>1
    <3>3. Straight(a.point, b.point) /\ Length(a.point, b.point) = pace * d
      BY <3>2, LegIs
    <3>4. PICK x \in Nat : x = pace * d /\ x = Length(a.point, b.point)
      BY <3>3
    <3>5. x \in 0..Length(a.point, b.point)
      BY <3>4
    <3>6. Toward(a.point, b.point, x) \in Stretch(a.point, b.point) /\ Length(a.point, Toward(a.point, b.point, x)) = x
      BY <1>5, <3>3, <3>5, TowardOn
    <3>7. PICK y \in Points : y = Toward(a.point, b.point, x) /\ y \in Stretch(a.point, b.point) /\ Length(a.point, y) = x
      BY <1>5, <3>6, EndsOn
    <3>8. Length(y, b.point) = 0
      <4>1. Length(a.point, y) + Length(y, b.point) = Length(a.point, b.point)
        BY <1>5, <3>7, LengthOn
      <4>2. Length(y, b.point) \in Nat
        BY <1>5, LengthType
      <4> QED BY <3>4, <3>7, <4>1, <4>2
    <3>9. y = b.point
      BY <1>5, <3>8, LengthType
    <3>10. t - a.at = d
      BY <1>5, <1>7, <1>14
    <3> QED BY <1>1, <1>4, <2>1, <2>3, <3>4, <3>7, <3>9, <3>10
  <2> QED BY <2>2, <2>3
<1> QED BY <1>5, <1>13, <1>14

\* How far one gets in an instant: nowhere, or along a leg by one's pace.
Moved(p, q, pace) ==
  \/ p = q
  \/ \E n \in Nodes : \E e \in EdgesOf(graph, n) : p \in Leg(n, e) /\ q \in Leg(n, e) /\ Length(p, q) = pace

\* From one instant to the next one stays or moves a pace along a leg.
LEMMA InstantIs ==
  ASSUME Sound, NEW pace \in Nat, pace > 0, NEW x, NEW y, TrailFrom(track, x, y, pace),
         NEW t \in Nat, x.at =< t, t < y.at
  PROVE  PositionAt(t) \in Points /\ PositionAt(t + 1) \in Points /\ Moved(PositionAt(t), PositionAt(t + 1), pace)
<1>1. Trail(track, pace) /\ track[1] = x /\ track[Len(track)] = y
  BY DEF TrailFrom
<1>2. PICK i \in 2..Len(track) : track[i - 1].at =< t /\ t < track[i].at
  BY <1>1, TrailCovers
<1>3. PICK a, b : a = track[i - 1] /\ b = track[i]
  OBVIOUS
<1>4. /\ i \in 1..Len(track) /\ i - 1 \in 1..Len(track)
      /\ a.at \in Nat /\ b.at \in Nat /\ a.point \in Points /\ b.point \in Points /\ Beat(a, b, pace)
  <2>1. i \in 1..Len(track) /\ i - 1 \in 1..Len(track)
    BY <1>1, <1>2, TrailHas
  <2>2. Beat(a, b, pace)
    BY <1>1, <1>2, <1>3 DEF Trail
  <2> QED BY <1>1, <1>3, <2>1, <2>2, TrailHas
<1>5. t + 1 \in Nat /\ a.at =< t /\ t =< b.at /\ a.at =< t + 1 /\ t + 1 =< b.at
  BY <1>2, <1>3, <1>4
<1>6. PositionAt(t) = IF a.point = b.point THEN a.point ELSE Toward(a.point, b.point, pace * (t - a.at))
  BY <1>1, <1>2, <1>3, <1>5, PositionIs
<1>7. PositionAt(t + 1) = IF a.point = b.point THEN a.point ELSE Toward(a.point, b.point, pace * ((t + 1) - a.at))
  BY <1>1, <1>2, <1>3, <1>5, PositionIs
<1>8. CASE a.point = b.point
  BY <1>4, <1>6, <1>7, <1>8 DEF Moved
<1>9. CASE a.point # b.point
  <2>1. PICK n \in Nodes : \E e \in EdgesOf(graph, n) :
          P(n) = a.point /\ P(e.to) = b.point /\ e.length = pace * (b.at - a.at)
    BY <1>4, <1>9 DEF Beat
  <2>2. PICK e \in EdgesOf(graph, n) : P(n) = a.point /\ P(e.to) = b.point /\ e.length = pace * (b.at - a.at)
    BY <2>1
  <2>3. PICK p \in Points : p = P(n)
    BY <1>4, <2>2
  <2>4. PICK q \in Points : q = P(e.to)
    BY <1>4, <2>2
  <2>5. Straight(p, q) /\ e.length = Length(p, q) /\ Leg(n, e) = Stretch(p, q)
    BY <2>3, <2>4, LegIs DEF Leg
  <2>6. PICK k \in Nat : k = t - a.at /\ k + 1 =< b.at - a.at /\ (t + 1) - a.at = k + 1
    <3>1. PICK from \in Nat, until \in Nat : from = a.at /\ until = b.at
      BY <1>4
    <3>2. from =< t /\ t + 1 =< until
      BY <1>5, <3>1
    <3>3. t - from \in Nat /\ (t - from) + 1 =< until - from /\ (t + 1) - from = (t - from) + 1
      BY ONLY <3>2, t \in Nat, from \in Nat, until \in Nat
    <3> QED BY ONLY <3>1, <3>3
  <2>7. PICK m \in Nat : b.at - a.at = k + 1 + m
    <3>1. PICK d \in Int : d = b.at - a.at
      BY <1>4
    <3>2. d - (k + 1) \in Nat /\ d = k + 1 + (d - (k + 1))
      BY ONLY <2>6, <3>1, k \in Nat, d \in Int
    <3> QED BY ONLY <3>1, <3>2
  <2>8. PICK f \in Nat : f = pace * k
    OBVIOUS
  <2>9. pace * (k + 1) = f + pace
    BY <2>8
  <2>10. f + pace =< Length(p, q)
    <3>1. Length(p, q) = pace * (k + 1 + m)
      BY <2>2, <2>5, <2>7
    <3>2. PICK g \in Nat : g = pace * m
      OBVIOUS
    <3>3. pace * (k + 1 + m) = f + pace + g
      BY <2>8, <3>2
    <3> QED BY <3>1, <3>2, <3>3
  <2>11. f \in 0..Length(p, q) /\ f + pace \in 0..Length(p, q)
    BY <2>8, <2>10, LengthType
  <2>12. PICK u : u = Toward(p, q, f)
    OBVIOUS
  <2>13. PICK v : v = Toward(p, q, f + pace)
    OBVIOUS
  <2>14. u \in Stretch(p, q) /\ Length(p, u) = f /\ v \in Stretch(p, q) /\ Length(p, v) = f + pace
    BY <2>5, <2>11, <2>12, <2>13, TowardOn
  <2>15. Length(u, v) = Gap(f, f + pace)
    BY <2>5, <2>14, LineIs
  <2>16. Gap(f, f + pace) = pace
    BY <2>8 DEF Gap
  <2>17. u \in Points /\ v \in Points
    BY <2>14, EndsOn
  <2>18. PositionAt(t) = u
    BY <1>6, <1>9, <2>2, <2>3, <2>4, <2>6, <2>8, <2>12
  <2>19. PositionAt(t + 1) = v
    BY <1>7, <1>9, <2>2, <2>3, <2>4, <2>6, <2>9, <2>13
  <2> QED BY <2>5, <2>14, <2>15, <2>16, <2>17, <2>18, <2>19 DEF Moved
<1> QED BY <1>8, <1>9

\* From a place that is on no tunnel one gets nowhere.
LEMMA NowhereToGo ==
  ASSUME Sound, NEW p \in Points, p \notin Places, NEW K \in Nat, NEW k \in 0..K
  PROVE  Around(p, K)[k] = {p}
<1> DEFINE S == {j \in Nat : j =< K => Around(p, K)[j] = {p}}
<1>1. 0 \in S
  BY AroundIs
<1>2. ASSUME NEW j \in Nat, j \in S PROVE j + 1 \in S
  <2> SUFFICES ASSUME j + 1 =< K PROVE Around(p, K)[j + 1] = {p}
    OBVIOUS
  <2>1. Around(p, K)[j] = {p}
    BY <1>2
  <2>2. j + 1 \in 1..K /\ (j + 1) - 1 = j
    OBVIOUS
  <2>3. \A x : x \in Around(p, K)[j + 1] <=> x \in Around(p, K)[j] \/ \E q \in Around(p, K)[j] : Next_to(q, x)
    BY <2>2, AroundIs
  <2>4. \A x : ~Next_to(p, x)
    BY PlacesAre DEF Next_to
  <2> QED BY <2>1, <2>3, <2>4
<1>3. \A j \in Nat : j \in S
  <2> HIDE DEF S
  <2> QED BY <1>1, <1>2, Induction
<1> QED BY <1>3

\* In some instants one gets no farther than one's pace takes one.
LEMMA InstantsAre ==
  ASSUME Sound, NEW pace \in Nat, pace > 0, NEW x, NEW y, TrailFrom(track, x, y, pace), y.at \in Nat,
         NEW t \in Nat, x.at =< t, NEW l \in Nat, l > 0, t + l =< y.at, NEW K, K = pace * l
  PROVE  /\ PositionAt(t) \in Points /\ K \in Nat
         /\ PositionAt(t + l) \in Around(PositionAt(t), K)[K]
<1>1. x.at \in Nat
  <2>1. Trail(track, pace) /\ track[1] = x
    BY DEF TrailFrom
  <2> QED BY <2>1, TrailHas
<1>2. K \in Nat
  OBVIOUS
<1>3. PICK p \in Points : p = PositionAt(t)
  <2>1. t < y.at
    OBVIOUS
  <2> QED BY <2>1, InstantIs
<1> DEFINE Gone(k) == PositionAt(t + k) \in Around(p, K)[pace * k]
           S == {k \in Nat : k =< l => Gone(k)}
<1>4. 0 \in S
  <2>1. Around(p, K)[0] = {p}
    BY <1>2, AroundIs
  <2>2. t + 0 = t /\ pace * 0 = 0
    OBVIOUS
  <2> QED BY <1>3, <2>1, <2>2
<1>5. ASSUME NEW k \in Nat, k + 1 =< l, Gone(k) PROVE Gone(k + 1)
  <2>1. t + k \in Nat /\ x.at =< t + k /\ t + k < y.at /\ t + (k + 1) = (t + k) + 1
    BY <1>1, <1>5
  <2>2. PICK q \in Points : q = PositionAt(t + k)
    BY <2>1, InstantIs
  <2>3. PICK r \in Points : r = PositionAt(t + (k + 1))
    BY <2>1, InstantIs
  <2>4. Moved(q, r, pace)
    BY <2>1, <2>2, <2>3, InstantIs
  <2>5. PICK j \in Nat : j = pace * k
    OBVIOUS
  <2>6. pace * (k + 1) = j + pace /\ j + pace =< K
    <3>1. PICK m \in Nat : l = k + 1 + m
      <4>1. l - (k + 1) \in Nat /\ l = k + 1 + (l - (k + 1))
        BY <1>5
      <4> QED BY <4>1
    <3>2. PICK g \in Nat : g = pace * m
      OBVIOUS
    <3>3. pace * (k + 1 + m) = j + pace + g /\ pace * (k + 1) = j + pace
      BY <2>5, <3>2
    <3>4. K = j + pace + g
      BY <3>1, <3>3
    <3> QED BY <3>2, <3>3, <3>4
  <2>7. q \in Around(p, K)[j]
    BY <1>5, <2>2, <2>5
  <2>8. r \in Around(p, K)[j + pace]
    <3>1. CASE q = r
      BY <1>2, <2>6, <2>7, <3>1, AroundGrows
    <3>2. CASE q # r
      <4>1. PICK n \in Nodes : \E e \in EdgesOf(graph, n) : q \in Leg(n, e) /\ r \in Leg(n, e) /\ Length(q, r) = pace
        BY <2>4, <3>2 DEF Moved
      <4>2. PICK e \in EdgesOf(graph, n) : q \in Leg(n, e) /\ r \in Leg(n, e) /\ Length(q, r) = pace
        BY <4>1
      <4>3. Length(q, r) =< pace
        BY <4>2
      <4> QED BY <1>2, <2>6, <2>7, <4>2, <4>3, StepsAlong
    <3> QED BY <3>1, <3>2
  <2> QED BY <2>3, <2>6, <2>8
<1>6. \A k \in Nat : k \in S
  <2>1. \A k \in Nat : k \in S => k + 1 \in S
    <3> HIDE DEF Gone
    <3> QED BY <1>5
  <2> HIDE DEF S
  <2> QED BY <1>4, <2>1, Induction
<1>7. Gone(l)
  <2> HIDE DEF Gone
  <2> QED BY <1>6
<1> QED BY <1>2, <1>3, <1>7

\* Where a person is later is on the ground around where they were.
LEMMA GroundHolds ==
  ASSUME WorkingsSound
  PROVE  GroundHoldsThePerson
<1> SUFFICES ASSUME unit = "person", at # None,
                    NEW time \in Max({0, since - Lookahead})..(now - Lookahead)
             PROVE  \/ PositionAt(time + Lookahead) = PositionAt(time)
                    \/ PositionAt(time + Lookahead) \in Within(PositionAt(time), Pace["person"] * Lookahead)
  BY DEF GroundHoldsThePerson
<1>1. Sound /\ RoutesSound /\ UnderWay
  BY GraphIsSound DEF WorkingsSound, NetworkSound, JourneySound
<1>2. /\ Measured /\ now \in Nat /\ since \in Nat /\ at \in Nodes
      /\ TrailFrom(track, track[1], Waypoint(now, at), Pace["person"])
      /\ track[1].at = 0 \/ track[1].at =< since - Lookahead
  BY <1>1 DEF UnderWay, Recalled
<1>3. PICK pace \in Nat : pace = Pace["person"] /\ pace > 0
  BY PaceIs DEF Units
<1>4. PICK l \in Nat : l = Lookahead
  BY NetworkAssumption
<1>5. PICK x, y : x = track[1] /\ y = Waypoint(now, at) /\ TrailFrom(track, x, y, pace)
  BY <1>2, <1>3
<1>6. y.at = now
  BY <1>5 DEF Waypoint
<1>7. x.at \in Nat
  <2>1. Trail(track, pace)
    BY <1>5 DEF TrailFrom
  <2> QED BY <1>5, <2>1, TrailHas
<1>8. time \in Nat /\ x.at =< time /\ time + l =< now
  <2>1. since - l \in Int
    BY <1>2, <1>4
  <2>2. Max({0, since - l}) = IF 0 < since - l THEN since - l ELSE 0
    BY <2>1, MaxOfTwo
  <2>3. time \in Max({0, since - l})..(now - l)
    BY <1>4
  <2>4. PICK z \in Nat : z = Max({0, since - l}) /\ z >= 0 /\ z >= since - l
    BY <1>2, <2>1, <2>2
  <2>5. time \in z..(now - l)
    BY <2>3, <2>4
  <2>6. time \in Nat /\ time >= z /\ time =< now - l
    BY <1>2, <2>4, <2>5
  <2> QED BY <1>2, <1>4, <1>5, <1>7, <2>4, <2>6
<1>9. CASE l = 0
  <2>1. time + Lookahead = time
    BY <1>4, <1>8, <1>9
  <2> QED BY <2>1
<1>10. CASE l > 0
  <2>1. PICK K : K = pace * l
    OBVIOUS
  <2>2. y.at \in Nat /\ time + l =< y.at
    BY <1>2, <1>6, <1>8
  <2>3. /\ PositionAt(time) \in Points /\ K \in Nat
        /\ PositionAt(time + l) \in Around(PositionAt(time), K)[K]
    BY <1>1, <1>3, <1>5, <1>8, <1>10, <2>1, <2>2, InstantsAre
  <2>4. PICK p \in Points : p = PositionAt(time)
    BY <2>3
  <2>5. PICK q : q = PositionAt(time + l)
    OBVIOUS
  <2>6. q \in Around(p, K)[K] /\ K \in 0..K
    BY <2>3, <2>4, <2>5
  <2>7. CASE p \in Places
    <3>1. K < Far
      BY <1>3, <1>4, <2>1, WorkingsAssumption
    <3>2. q \in Within(p, K)
      BY <1>1, <1>2, <2>3, <2>6, <2>7, <3>1, WithinExact
    <3> QED BY <1>3, <1>4, <2>1, <2>4, <2>5, <3>2
  <2>8. CASE p \notin Places
    <3>1. Around(p, K)[K] = {p}
      BY <1>1, <2>3, <2>6, <2>8, NowhereToGo
    <3>2. q = p
      BY <2>6, <3>1
    <3> QED BY <1>4, <2>4, <2>5, <3>2
  <2> QED BY <2>7, <2>8
<1> QED BY <1>9, <1>10

\* In every mine, for every lookahead: a person is, a lookahead later, on the
\* ground Positioned.Reach gave for where they were (internal/seismic/exposure.go,
\* internal/workload/positioned.go).
THEOREM GroundAlwaysHolds == Spec => []GroundHoldsThePerson
<1>1. WorkingsSound => GroundHoldsThePerson
  BY GroundHolds
<1> QED BY <1>1, WorkingsAreSound, PTL

-----------------------------------------------------------------------------
(* Evacuations, in the order they come.                                     *)

\* Picked keeps the order.
LEMMA PlaceInOrder ==
  ASSUME NEW m \in Nat, NEW S \in SUBSET (1..m), NEW k \in 1..Cardinality(S), NEW l \in 1..Cardinality(S), k < l
  PROVE  Place(S, k) < Place(S, l)
<1>1. Cardinality(S) \in Nat
  BY PlaceIs
<1>2. Place(S, k) \in S /\ Cardinality({j \in S : j < Place(S, k)}) = k - 1
  BY PlaceIs
<1>3. Place(S, l) \in S /\ Cardinality({j \in S : j < Place(S, l)}) = l - 1
  BY PlaceIs
<1>4. PICK x \in 1..m : x = Place(S, k)
  BY <1>2
<1>5. PICK y \in 1..m : y = Place(S, l)
  BY <1>3
<1>6. SUFFICES ASSUME y =< x PROVE FALSE
  BY <1>4, <1>5
<1>7. PICK A : A = {j \in S : j < x}
  OBVIOUS
<1>8. PICK B : B = {j \in S : j < y}
  OBVIOUS
<1>9. B \subseteq A
  <2>1. \A j \in S : j \in Int /\ (j < y => j < x)
    BY <1>6
  <2> QED BY <1>7, <1>8, <2>1
<1>10. IsFiniteSet(A)
  <2>1. IsFiniteSet(1..m)
    BY FS_Interval
  <2>2. A \subseteq 1..m
    BY <1>7
  <2> QED BY <2>1, <2>2, FS_Subset
<1>11. Cardinality(B) =< Cardinality(A)
  BY <1>9, <1>10, FS_Subset
<1>12. Cardinality(A) = k - 1 /\ Cardinality(B) = l - 1
  BY <1>2, <1>3, <1>4, <1>5, <1>7, <1>8
<1> QED BY <1>1, <1>11, <1>12

\* Picked begins with the first.
LEMMA PickedFirst ==
  ASSUME NEW X, NEW s \in Seq(X), NEW S \in SUBSET (1..Len(s)), S # {}
  PROVE  Picked(s, S) # <<>> /\ \E i \in S : Picked(s, S)[1] = s[i] /\ \A j \in S : i =< j
<1>1. PICK p : p = Picked(s, S)
  OBVIOUS
<1>2. /\ p \in Seq(X) /\ Len(p) = Cardinality(S) /\ Cardinality(S) \in Nat
      /\ \A k \in 1..Cardinality(S) : Place(S, k) \in S /\ p[k] = s[Place(S, k)]
  BY <1>1, PickedIs
<1>3. PICK m \in Nat : m = Len(s)
  OBVIOUS
<1>4. IsFiniteSet(S)
  <2>1. IsFiniteSet(1..m)
    BY FS_Interval
  <2> QED BY <1>3, <2>1, FS_Subset
<1>5. Cardinality(S) # 0
  BY <1>4, FS_EmptySet
<1>6. 1 \in 1..Cardinality(S)
  BY <1>2, <1>5
<1>7. PICK i \in S : i = Place(S, 1) /\ p[1] = s[i]
  BY <1>2, <1>6
<1>8. PICK A : A = {j \in S : j < i}
  OBVIOUS
<1>9. Cardinality(A) = 0
  <2>1. Cardinality({j \in S : j < Place(S, 1)}) = 1 - 1
    BY <1>3, <1>6, PlaceIs
  <2> QED BY <1>7, <1>8, <2>1
<1>10. IsFiniteSet(A)
  BY <1>4, <1>8, FS_Subset
<1>11. A = {}
  BY <1>9, <1>10, FS_EmptySet
<1>12. \A j \in S : i =< j
  BY <1>8, <1>11
<1>13. p # <<>>
  BY <1>2, <1>6
<1> QED BY <1>1, <1>7, <1>12, <1>13

\* The first blast of a day, if there is any, is at the hour it starts.
LEMMA FiredFirst ==
  ASSUME NEW a \in Activities, NEW day \in Int, Fired(a, day) # <<>>
  PROVE  Fired(a, day)[1] = day + a.start
<1>1. PICK count \in Nat : count = (IF a.every = 0 THEN 1 ELSE (a.window \div a.every) + 1) /\ count > 0
  <2>1. CASE a.every = 0
    BY <2>1
  <2>2. CASE a.every # 0
    <3>1. PICK w \in Nat, e \in Nat : w = a.window /\ e = a.every /\ e > 0
      BY <2>2, ActivityIs
    <3>2. w \div e \in Nat
      BY <3>1, Quotient
    <3> QED BY ONLY <2>2, <3>1, <3>2
  <2> QED BY <2>1, <2>2
<1>2. PICK times : times = [k \in 1..count |-> day + a.start + (k - 1) * a.every]
  OBVIOUS
<1>3. \A k \in 1..count : times[k] \in Int /\ times[k] = day + a.start + (k - 1) * a.every
  BY <1>2, ActivityIs
<1>4. times \in Seq(Int) /\ Len(times) = count
  BY <1>2, <1>3, SeqIs
<1>5. PICK S : S = {k \in 1..count : times[k] < Duration}
  OBVIOUS
<1>6. Fired(a, day) = Picked(times, S)
  BY <1>1, <1>2, <1>5 DEF Fired
<1>7. S \in SUBSET (1..Len(times))
  BY <1>4, <1>5
<1>8. S # {}
  <2>1. SUFFICES ASSUME S = {} PROVE FALSE
    OBVIOUS
  <2>2. Picked(times, S) \in Seq(Int) /\ Len(Picked(times, S)) = Cardinality(S)
    BY <1>4, <1>7, PickedIs
  <2>3. Cardinality(S) = 0
    BY <2>1, FS_EmptySet
  <2> QED BY <1>6, <2>2, <2>3
<1>9. PICK i \in S : Picked(times, S)[1] = times[i] /\ \A j \in S : i =< j
  BY <1>4, <1>7, <1>8, PickedFirst
<1>10. times[1] = day + a.start
  <2>1. times[1] = day + a.start + 0 * a.every /\ 0 * a.every = 0
    BY <1>1, <1>3, ActivityIs
  <2> QED BY <2>1, ActivityIs
<1>11. 1 \in S
  <2>1. PICK k \in Nat : k = i - 1 /\ i \in 1..count
    BY <1>5
  <2>2. k * a.every \in Nat
    BY ActivityIs
  <2>3. times[i] = day + a.start + k * a.every
    BY <1>3, <2>1
  <2>4. times[1] =< times[i]
    BY <1>10, <2>2, <2>3, ActivityIs
  <2>5. times[i] < Duration
    BY <1>5
  <2>6. times[1] < Duration
    <3>1. times[1] \in Int /\ times[i] \in Int
      BY <1>1, <1>3, <2>1
    <3>2. Duration \in Int
      BY WorkingsAssumption
    <3> QED BY <2>4, <2>5, <3>1, <3>2
  <2> QED BY <1>1, <1>5, <2>6
<1>12. i = 1
  BY <1>5, <1>9, <1>11
<1> QED BY <1>6, <1>9, <1>10, <1>12

\* Evacuations come in order.
LEMMA EvacuationsInOrder ==
  ASSUME NEW a \in Activities, NEW i \in DOMAIN Evacuations(a), NEW j \in DOMAIN Evacuations(a), i =< j
  PROVE  Evacuations(a)[i].clear =< Evacuations(a)[j].clear
<1>1. PICK every \in Seq(Int) : every = Upto(Duration, Day)
  BY UptoIs, WorkingsAssumption
<1>2. PICK S : S = {d \in DOMAIN every : Fired(a, every[d]) # <<>>}
  OBVIOUS
<1>3. S \in SUBSET (1..Len(every))
  BY <1>1, <1>2
<1>4. PICK days : days = Picked(every, S)
  OBVIOUS
<1>5. PICK n \in Nat : n = Cardinality(S) /\ n = Len(days) /\ DOMAIN days = 1..n
  BY <1>3, <1>4, PickedIs
<1>6. \A d \in 1..n : Place(S, d) \in S /\ days[d] = every[Place(S, d)]
  BY <1>3, <1>4, <1>5, PickedIs
<1>7. \A d \in 1..n : Evacuations(a)[d].clear = Fired(a, days[d])[1] - a.clear /\ DOMAIN Evacuations(a) = 1..n
  BY <1>1, <1>2, <1>4, <1>5 DEF Evacuations
<1>8. DOMAIN Evacuations(a) = 1..n
  BY <1>1, <1>2, <1>4, <1>5 DEF Evacuations
<1>9. \A d \in 1..n : Fired(a, days[d])[1] = days[d] + a.start /\ days[d] \in Int
  <2>1. TAKE d \in 1..n
  <2>2. Place(S, d) \in DOMAIN every /\ Fired(a, days[d]) # <<>>
    BY <1>2, <1>6
  <2>3. days[d] \in Int
    BY <1>1, <1>6, <2>2
  <2> QED BY <2>2, <2>3, FiredFirst
<1>10. days[i] =< days[j]
  <2>1. i \in 1..n /\ j \in 1..n
    BY <1>8
  <2>2. PICK x \in S : x = Place(S, i)
    BY <1>6, <2>1
  <2>3. PICK y \in S : y = Place(S, j)
    BY <1>6, <2>1
  <2>4. x =< y
    <3>1. CASE i = j
      BY <1>3, <2>2, <2>3, <3>1
    <3>2. CASE i < j
      <4>1. PICK m \in Nat : m = Len(every)
        BY <1>1
      <4>2. Place(S, i) < Place(S, j)
        BY <1>3, <1>5, <2>1, <3>2, <4>1, PlaceInOrder
      <4> QED BY <1>3, <2>2, <2>3, <4>2
    <3> QED BY <2>1, <3>1, <3>2
  <2>5. x \in DOMAIN every /\ y \in DOMAIN every /\ x \in Nat /\ y \in Nat
    BY <1>1, <1>2, <1>3
  <2>6. \A d \in DOMAIN every : every[d] = (d - 1) * Day
    BY <1>1 DEF Upto, Times
  <2>7. PICK k \in Nat : y = x + k
    <3>1. y - x \in Nat /\ y = x + (y - x)
      BY <2>4, <2>5
    <3> QED BY <3>1
  <2>8. Day \in Nat
    BY WorkingsAssumption
  <2>9. PICK g \in Int : g = (x - 1) * Day
    BY <2>5, <2>8
  <2>10. PICK h \in Nat : h = k * Day
    BY <2>8
  <2>11. (y - 1) * Day = g + h
    <3>1. y - 1 = (x - 1) + k
      BY <2>5, <2>7
    <3>2. ((x - 1) + k) * Day = (x - 1) * Day + k * Day
      BY <2>5, <2>8
    <3> QED BY <2>9, <2>10, <3>1, <3>2
  <2>12. days[i] = g /\ days[j] = g + h
    BY <1>6, <2>1, <2>2, <2>3, <2>5, <2>6, <2>9, <2>11
  <2> QED BY <2>9, <2>10, <2>12
<1>11. i \in 1..n /\ j \in 1..n
  BY <1>8
<1>12. PICK x \in Int : x = days[i]
  BY <1>9, <1>11
<1>13. PICK y \in Int : y = days[j]
  BY <1>9, <1>11
<1>14. PICK c \in Nat : c = a.clear
  BY ActivityIs
<1>15. PICK r \in Nat : r = a.start
  BY ActivityIs
<1>16. Fired(a, days[i])[1] = x + r /\ Fired(a, days[j])[1] = y + r
  <2>1. Fired(a, days[i])[1] = days[i] + a.start /\ Fired(a, days[j])[1] = days[j] + a.start
    BY <1>9, <1>11
  <2> QED BY <1>12, <1>13, <1>15, <2>1
<1>17. Evacuations(a)[i].clear = (x + r) - c
  <2>1. Evacuations(a)[i].clear = Fired(a, days[i])[1] - a.clear
    BY <1>7, <1>11
  <2> QED BY <1>14, <1>16, <2>1
<1>18. Evacuations(a)[j].clear = (y + r) - c
  <2>1. Evacuations(a)[j].clear = Fired(a, days[j])[1] - a.clear
    BY <1>7, <1>11
  <2> QED BY <1>14, <1>16, <2>1
<1>19. x =< y
  BY <1>10, <1>12, <1>13
<1> QED BY <1>17, <1>18, <1>19

InOrder ==
  Worked => \A i, j \in DOMAIN plan.evacuations :
              i =< j => plan.evacuations[i].clear =< plan.evacuations[j].clear

\* The one under way, or the next, is the first to be cleared for.
LEMMA EvacuationFirst ==
  ASSUME PlanSound, InOrder, Worked, NEW time, NEW e \in ToSet(plan.evacuations), e.reentry > time
  PROVE  Evacuation(time) # <<>> /\ Evacuation(time)[1].clear =< e.clear
<1>1. PICK s \in Seq(Evacuated) : s = plan.evacuations
  BY DEF PlanSound
<1>2. PICK S : S = {i \in DOMAIN s : s[i].reentry > time}
  OBVIOUS
<1>3. S \in SUBSET (1..Len(s)) /\ S \subseteq DOMAIN s
  BY <1>2
<1>4. PICK k \in DOMAIN s : e = s[k]
  BY <1>1 DEF ToSet
<1>5. k \in S
  BY <1>2, <1>4
<1>6. Evacuation(time) = Picked(s, S)
  BY <1>1, <1>2 DEF Evacuation
<1>7. PICK i \in S : Picked(s, S)[1] = s[i] /\ \A j \in S : i =< j
  BY <1>3, <1>5, PickedFirst
<1>8. Picked(s, S) # <<>>
  BY <1>3, <1>5, PickedFirst
<1>9. s[i].clear =< s[k].clear
  BY <1>1, <1>3, <1>5, <1>7 DEF InOrder
<1> QED BY <1>4, <1>6, <1>7, <1>8, <1>9

-----------------------------------------------------------------------------
(* How long crews are away.                                                 *)
\* The greatest of some numbers up to another.
LEMMA MaxUpto ==
  ASSUME NEW n \in Nat, NEW S \in SUBSET (0..n), S # {}
  PROVE  Max(S) \in S /\ \A s \in S : s =< Max(S)
<1>1. PICK T : T = {x \in 0..n : n - x \in S}
  OBVIOUS
<1>2. T \subseteq Nat
  BY <1>1
<1>3. T # {}
  <2>1. PICK s \in S : s \in 0..n
    OBVIOUS
  <2>2. n - s \in 0..n /\ n - (n - s) = s
    BY <2>1
  <2> QED BY <1>1, <2>1, <2>2
<1>4. PICK t \in T : \A x \in T : t =< x
  BY <1>2, <1>3, LeastOf
<1>5. t \in 0..n /\ n - t \in S
  BY <1>1
<1>6. PICK m \in S : m = n - t
  BY <1>5
<1>7. \A s \in S : s =< m
  <2>1. TAKE s \in S
  <2>2. s \in 0..n /\ n - s \in 0..n /\ n - (n - s) = s
    OBVIOUS
  <2>3. n - s \in T
    BY <1>1, <2>2
  <2>4. t =< n - s
    BY <1>4, <2>3
  <2> QED BY <1>5, <1>6, <2>2, <2>4
<1>8. \E x \in S : \A y \in S : x >= y
  BY <1>7
<1>9. Max(S) \in S /\ \A y \in S : Max(S) >= y
  BY <1>8 DEF Max
<1> QED BY <1>9

\* The longest stay.
LEMMA LongestStay ==
  ASSUME NEW u \in Units
  PROVE  Max(Stays[u]) \in Nat /\ Max(Stays[u]) > 0 /\ \A stay \in Stays[u] : stay =< Max(Stays[u])
<1>1. PICK S : S = Stays[u] /\ S \subseteq Nat \ {0} /\ \E longest \in S : \A stay \in S : stay =< longest
  BY WorkingsAssumption
<1>2. PICK longest \in S : \A stay \in S : stay =< longest
  BY <1>1
<1>3. \A stay \in S : longest >= stay
  BY <1>1, <1>2
<1>4. Max(S) \in S /\ \A y \in S : Max(S) >= y
  BY <1>2, <1>3 DEF Max
<1> QED BY <1>1, <1>4

\* No way takes longer than the longest.
LEMMA LongestWay ==
  ASSUME Sound, RoutesSound, Measured, NEW u \in Units
  PROVE  /\ Longest(u) \in Nat
         /\ \A n, m \in Nodes : routes[n].distance[m] # Far =>
              routes[n].distance[m] \div Pace[u] =< Longest(u)
<1> DEFINE S == (UNION {{routes[n].distance[m] : m \in Nodes} : n \in Nodes}) \ {Far}
<1>0. Longest(u) = Max(S) \div Pace[u]
  BY DEF Longest
<1>1. \A d : d \in S <=> d # Far /\ \E n \in Nodes : \E m \in Nodes : d = routes[n].distance[m]
  OBVIOUS
<1> HIDE DEF S
<1>2. PICK F \in Nat : F = Far
  BY FarIs
<1>3. \A n, m \in Nodes : /\ routes[n].distance[m] \in Nat
                          /\ routes[n].distance[m] # F => routes[n].distance[m] \in 0..F /\ routes[n].distance[m] \in S
  <2>1. TAKE n, m \in Nodes
  <2>2. PICK R : R = routes[n].distance
    OBVIOUS
  <2>3. R \in [Nodes -> Nat] /\ \A x \in Nodes : R[x] # Far => R[x] < Far
    BY <2>2, RouteIs
  <2>4. R[m] \in Nat /\ (R[m] # F => R[m] \in 0..F)
    BY <1>2, <2>3
  <2>5. R[m] # F => R[m] \in S
    BY <1>1, <1>2, <2>2
  <2> QED BY <2>2, <2>4, <2>5
<1>4. S \in SUBSET (0..F)
  BY <1>1, <1>2, <1>3
<1>5. S # {}
  <2>1. 1 \in Nodes
    BY NodesAre
  <2>2. routes[1].distance[1] = 0
    BY <2>1, RouteIs
  <2>3. F # 0
    BY <1>2, FarIs
  <2> QED BY <1>3, <2>1, <2>2, <2>3
<1>6. PICK l \in S : l = Max(S) /\ \A s \in S : s =< l
  BY <1>4, <1>5, MaxUpto
<1>7. PICK pace \in Nat : pace = Pace[u] /\ pace > 0
  BY PaceIs
<1>8. l \in Nat
  BY <1>4
<1>9. PICK q \in Nat : q = l \div pace
  BY <1>7, <1>8, Quotient
<1>10. Longest(u) = q
  BY <1>0, <1>6, <1>7, <1>9
<1>11. ASSUME NEW d \in S PROVE d \div pace =< q
  <2>1. d \in Nat /\ d =< l
    BY <1>4, <1>6
  <2>2. PICK k \in Nat : k = d \div pace
    BY <1>7, <2>1, Quotient
  <2>3. pace * k =< d
    BY <1>7, <2>1, <2>2, QuotientBelow
  <2>4. PICK g \in Nat : g = pace * k
    BY <1>7
  <2>5. pace * k =< l
    BY <1>8, <2>1, <2>3, <2>4
  <2>6. k =< l \div pace
    BY <1>7, <1>8, <2>5, QuotientMost
  <2> QED BY <1>9, <2>2, <2>6
<1> QED BY <1>2, <1>3, <1>7, <1>10, <1>11

\* A set of nodes that legs do not leave is not left along a way, either way.
LEMMA WayStays ==
  ASSUME Sound, NEW F, NEW way, NEW to, NEW R, Leads(way, to, R),
         \A n \in Nodes : \A e \in EdgesOf(graph, n) : n \in F <=> e.to \in F
  PROVE  way[1] \in F <=> to \in F
<1>1. PICK l \in Nat : l = Len(way) /\ l >= 1 /\ way \in Seq(Nodes) /\ way[l] = to
  BY DEF Leads
<1> DEFINE S == {k \in Nat : k < l => (way[1] \in F <=> way[k + 1] \in F)}
<1>2. 0 \in S
  OBVIOUS
<1>3. ASSUME NEW k \in Nat, k \in S PROVE k + 1 \in S
  <2> SUFFICES ASSUME k + 1 < l PROVE way[1] \in F <=> way[(k + 1) + 1] \in F
    OBVIOUS
  <2>1. (k + 1) + 1 \in 2..Len(way) /\ ((k + 1) + 1) - 1 = k + 1 /\ k + 1 \in 1..Len(way)
    BY <1>1
  <2>2. PICK e \in EdgesOf(graph, way[k + 1]) : e.to = way[(k + 1) + 1]
    BY <2>1 DEF Leads
  <2>3. way[k + 1] \in Nodes
    BY <1>1, <2>1
  <2>4. way[k + 1] \in F <=> way[(k + 1) + 1] \in F
    BY <2>2, <2>3
  <2>5. way[1] \in F <=> way[k + 1] \in F
    BY <1>1, <1>3
  <2> QED BY <2>4, <2>5
<1>4. \A k \in Nat : k \in S
  <2> HIDE DEF S
  <2> QED BY <1>2, <1>3, Induction
<1>5. l - 1 \in S /\ l - 1 < l /\ (l - 1) + 1 = l
  BY <1>1, <1>4
<1> QED BY <1>1, <1>5

\* In a network in one piece there is a way from every node to every other.
LEMMA AllConnected ==
  ASSUME Sound, RoutesSound, Measured, Connected, NEW n \in Nodes, NEW m \in Nodes
  PROVE  routes[n].distance[m] # Far
<1>1. PICK F : F = {x \in Nodes : routes[n].distance[x] # Far}
  OBVIOUS
<1>2. ASSUME NEW x \in F, NEW e \in EdgesOf(graph, x) PROVE e.to \in F
  <2>1. x \in Nodes /\ routes[n].distance[x] # Far
    BY <1>1
  <2>2. e.to \in Nodes
    BY <2>1, LegIs
  <2>3. routes[n].distance[e.to] # Far
    BY <2>1, RouteIs
  <2> QED BY <1>1, <2>2, <2>3
<1>3. \A x \in Nodes : \A e \in EdgesOf(graph, x) : x \in F <=> e.to \in F
  <2>1. TAKE x \in Nodes
  <2>2. TAKE e \in EdgesOf(graph, x)
  <2>3. PICK f \in EdgesOf(graph, e.to) : f.to = x
    BY LegIs
  <2> QED BY <1>2, <2>3
<1>4. ASSUME NEW x \in Nodes PROVE 1 \in F <=> x \in F
  <2>1. 1 \in Nodes
    BY NodesAre
  <2>2. Found(routes[1], 1) /\ routes[1].distance[x] # Far
    BY <2>1, RouteIs DEF Connected
  <2>3. Leads(To(1, x), x, routes[1].distance) /\ To(1, x)[1] = 1
    BY <2>1, <2>2, WayIs
  <2>4. To(1, x)[1] \in F <=> x \in F
    BY <1>3, <2>3, WayStays
  <2> QED BY <2>3, <2>4
<1>5. n \in F
  <2>1. routes[n].distance[n] = 0
    BY RouteIs
  <2> QED BY <1>1, <2>1, FarIs
<1>6. m \in F
  BY <1>4, <1>5
<1> QED BY <1>1, <1>6

\* Whoever goes somewhere in such a network comes there, no later than the
\* longest way takes.
LEMMA ComesThere ==
  ASSUME NetworkSound, UnderWay, Connected, NEW to \in Nodes
  PROVE  There(to) = to /\ Come(to) =< now + Longest(unit)
<1>1. Sound /\ RoutesSound /\ Measured /\ at \in Nodes /\ unit \in Units /\ now \in Nat
  BY GraphIsSound DEF NetworkSound, UnderWay
<1>2. routes[at].distance[to] # Far
  BY <1>1, AllConnected
<1>3. To(at, to) # <<>>
  BY <1>2, PassedIs
<1>4. There(to) = to /\ Come(to) = now + routes[at].distance[to] \div Pace[unit]
  BY <1>3 DEF There, Come, Arrival
<1>5. PICK d : d = routes[at].distance[to] \div Pace[unit]
  OBVIOUS
<1>6. d =< Longest(unit) /\ Longest(unit) \in Nat
  BY <1>1, <1>2, <1>5, LongestWay
<1>7. Come(to) \in Nat
  BY GoWalks
<1>8. d \in Nat
  <2>1. routes[at].distance[to] \in Nat
    BY <1>1, RouteIs
  <2> QED BY <1>1, <1>5, <2>1, PaceIs, Quotient
<1> QED BY <1>1, <1>4, <1>5, <1>6, <1>8

-----------------------------------------------------------------------------
(* Crews, out of production.                                                *)
Stationed == {n \in Nodes : P(n) \notin PointsOf({"crosscut", "ore-drive"}) /\ Station(n) = n}

\* When whoever stays somewhere ahead of an evacuation has set out at the latest.
Late(u, e) == Max({e.clear - Lead, 0}) + Max(Stays[u]) + Longest(u)

\* A crew is at a face, in time, or at a station it came to in time.
AtFace ==
  /\ at \in FaceNodes
  /\ \A e \in ToSet(plan.evacuations) : e.reentry > since => now < Late(unit, e)
AtStation ==
  /\ at \in Stationed
  /\ \E come \in since..now :
       /\ Len(track) >= 2 /\ track[Len(track) - 1] = Waypoint(come, at)
       /\ \A e \in ToSet(plan.evacuations) : e.reentry > since => come = since \/ come =< Emptied(unit, e)
Planned == Worked /\ Connected /\ Served
CrewSound == at # None /\ Crew(unit) /\ Planned => AtFace \/ AtStation

\* A station serves the faces of its level.
LEMMA FacesServed ==
  ASSUME NetworkSound, Served, NEW n \in FaceNodes
  PROVE  n \in Nodes /\ Station(n) \in Stationed
<1>1. PICK p \in ToSet(Faces(tunnels)) : n = NodeAt(graph, p)
  BY DEF FaceNodes
<1>2. n \in Nodes /\ P(n) = p
  BY <1>1, FaceAt
<1>3. PICK here : here = {t \in Stations : tunnels[t].path[1][3] = Height(n)}
  OBVIOUS
<1>4. here # {}
  <2>1. PICK t \in Stations : tunnels[t].path[1][3] = p[3]
    BY <1>1 DEF Served
  <2>2. Height(n) = p[3]
    BY <1>2 DEF Height, P
  <2> QED BY <1>3, <2>1, <2>2
<1>5. PICK t \in here : t = Max(here)
  <2>1. PICK l \in Nat : l = Len(tunnels) /\ here \subseteq 1..l
    BY <1>3, <1>4, StationsAre
  <2>2. Max(here) \in here
    BY <1>4, <2>1, MaxIs
  <2> QED BY <2>2
<1>6. PICK q : q = tunnels[t].path[1]
  OBVIOUS
<1>7. t \in Stations /\ q[3] = Height(n)
  BY <1>3, <1>5, <1>6
<1>8. PICK s : s = NodeAt(graph, q)
  OBVIOUS
<1>9. Station(n) = s
  BY <1>3, <1>4, <1>5, <1>6, <1>8 DEF Station
<1>10. s \in Nodes /\ P(s) = q
  <2>1. tunnels \in Seq(Tunnels) /\ \A u \in DOMAIN tunnels : Len(tunnels[u].path) >= 2
    BY LayoutsAre DEF NetworkSound
  <2>2. t \in DOMAIN tunnels /\ Walkable(tunnels[t])
    BY <1>7 DEF Stations, Walkable
  <2>3. tunnels[t] \in Tunnels /\ Len(tunnels[t].path) >= 2
    BY <2>1, <2>2
  <2>4. PICK path \in Seq(Points) : path = tunnels[t].path /\ Len(path) >= 2
    BY <2>3 DEF Tunnels
  <2>5. q \in ToSet(tunnels[t].path)
    BY <1>6, <2>4 DEF ToSet
  <2> QED BY <1>8, <2>2, <2>5, PointsAreNodes
<1>11. P(s) \notin PointsOf({"crosscut", "ore-drive"})
  BY <1>6, <1>7, <1>10 DEF Served
<1>12. Station(s) = s
  <2>1. Height(s) = Height(n)
    BY <1>7, <1>10 DEF Height, P
  <2> QED BY <1>9, <2>1 DEF Station
<1> QED BY <1>2, <1>9, <1>10, <1>11, <1>12 DEF Stationed

\* When a crew has left at the latest, and when it has come.
LEMMA LateIs ==
  ASSUME NetworkSound, Measured, PlanSound, Worked, NEW u \in Units, NEW e \in ToSet(plan.evacuations)
  PROVE  /\ Late(u, e) \in Nat /\ Longest(u) \in Nat /\ Emptied(u, e) = Late(u, e) + Longest(u)
         /\ Late(u, e) > Longest(u)
         /\ \A stay \in Stays[u] : Late(u, e) >= (e.clear - Lead) + stay + Longest(u)
         /\ e.clear \in Int /\ e.reentry \in Int
<1>1. Sound /\ RoutesSound
  BY GraphIsSound DEF NetworkSound
<1>2. PICK long \in Nat : long = Longest(u)
  BY <1>1, LongestWay
<1>3. PICK stays \in Nat : stays = Max(Stays[u]) /\ stays > 0 /\ \A stay \in Stays[u] : stay =< stays
  BY LongestStay
<1>4. e \in Evacuated
  BY DEF PlanSound, ToSet
<1>5. e.clear \in Int /\ e.reentry \in Int /\ Lead \in Nat
  BY <1>4, WorkingsAssumption DEF Evacuated
<1>6. PICK c \in Int : c = e.clear - Lead
  BY <1>5
<1>7. Max({c, 0}) = IF c < 0 THEN 0 ELSE c
  BY MaxOfTwo
<1>8. PICK m \in Nat : m = Max({c, 0}) /\ m >= c
  BY <1>7
<1>9. Late(u, e) = m + stays + long
  BY <1>2, <1>3, <1>6, <1>8 DEF Late
<1>10. Emptied(u, e) = m + stays + 2 * long
  BY <1>2, <1>3, <1>6, <1>8 DEF Emptied
<1>11. ASSUME NEW stay \in Stays[u] PROVE Late(u, e) >= (e.clear - Lead) + stay + Longest(u)
  <2>1. stay \in Nat /\ stay =< stays
    BY <1>3, WorkingsAssumption
  <2> QED BY <1>2, <1>6, <1>8, <1>9, <2>1
<1>12. Late(u, e) \in Nat /\ Emptied(u, e) = Late(u, e) + long /\ Late(u, e) > long
  BY <1>2, <1>3, <1>8, <1>9, <1>10
<1> QED BY <1>2, <1>5, <1>11, <1>12

\* The tip of a mine, of its graph, tunnels, stations and working places.
TipOf(g, mine, stations, places) ==
  IF stations = {} THEN Min(places)
  ELSE LET deepest == CHOOSE t \in stations : \A s \in stations :
                        \/ mine[t].path[Len(mine[t].path)][3] < mine[s].path[Len(mine[s].path)][3]
                        \/ /\ mine[t].path[Len(mine[t].path)][3] = mine[s].path[Len(mine[s].path)][3]
                           /\ t =< s
       IN NodeAt(g, mine[deepest].path[Len(mine[deepest].path)])

\* None of it changes while a crew is under way.
LEMMA GroundKept ==
  ASSUME UNCHANGED network, plan' = plan
  PROVE  /\ FaceNodes' = FaceNodes /\ Stationed' = Stationed /\ (Planned' <=> Planned)
         /\ \A u, e : Late(u, e)' = Late(u, e) /\ Emptied(u, e)' = Emptied(u, e)
         /\ \A n : Station(n)' = Station(n)
<1>1. graph' = graph /\ routes' = routes /\ tunnels' = tunnels
  BY DEF network
<1>2. Nodes' = Nodes /\ \A n : P(n)' = P(n)
  BY <1>1 DEF Nodes, NodesOf, P
<1>3. \A kinds : PointsOf(kinds)' = PointsOf(kinds)
  BY <1>1 DEF PointsOf
<1>4. Stations' = Stations
  BY <1>1 DEF Stations
<1>5. Workplaces' = Workplaces
  BY <1>1, <1>2, <1>3 DEF Workplaces, Production
<1>7. Tip' = Tip
  <2>1. Tip = TipOf(graph, tunnels, Stations, Workplaces)
    BY DEF Tip, TipOf, StationEnd
  <2>2. Tip' = TipOf(graph', tunnels', Stations', Workplaces')
    BY DEF Tip, TipOf, StationEnd
  <2> QED BY <1>1, <1>4, <1>5, <2>1, <2>2
<1>8. \A n : Station(n)' = Station(n)
  BY <1>1, <1>4, <1>7 DEF Station, Height
<1>9. Stationed' = Stationed
  BY <1>2, <1>3, <1>8 DEF Stationed
<1>10. FaceNodes' = FaceNodes
  BY <1>1 DEF FaceNodes
<1>11. \A u : Longest(u)' = Longest(u)
  BY <1>1, <1>2 DEF Longest
<1>12. \A u, e : Late(u, e)' = Late(u, e) /\ Emptied(u, e)' = Emptied(u, e)
  BY <1>11 DEF Late, Emptied
<1>13. (Planned' <=> Planned)
  BY <1>1, <1>2, <1>3, <1>4 DEF Planned, Worked, Connected, Served
<1> QED BY <1>8, <1>9, <1>10, <1>12, <1>13

\* A crew starts at a face, in time.
LEMMA CrewStarts ==
  ASSUME WorkingsSound, Start
  PROVE  CrewSound'
<1> SUFFICES ASSUME Crew(unit'), Planned' PROVE AtFace'
  BY DEF CrewSound, Crew
<1>1. /\ Measured /\ at = None /\ unit' \in Units /\ UNCHANGED network /\ plan' = plan /\ now' = now /\ since' = since
      /\ Worked => at' \in {NodeAt(graph, p) : p \in ToSet(ActiveAt(plan.shifts, plan.rotate, 0))}
  BY DEF Start
<1>2. NetworkSound /\ PlanSound /\ now = 0 /\ since = 0
  BY <1>1 DEF WorkingsSound, JourneySound
<1>3. /\ FaceNodes' = FaceNodes /\ (Planned' <=> Planned)
      /\ \A u, e : Late(u, e)' = Late(u, e)
  BY <1>1, GroundKept
<1>4. Worked
  BY <1>3 DEF Planned
<1>5. at' \in FaceNodes'
  <2>1. {NodeAt(graph, p) : p \in ToSet(ActiveAt(plan.shifts, plan.rotate, 0))} \subseteq FaceNodes
    BY <1>2, <1>4, WorkedAre
  <2> QED BY <1>1, <1>3, <1>4, <2>1
<1>6. ASSUME NEW e \in ToSet(plan.evacuations) PROVE now' < Late(unit', e)
  <2>1. Late(unit', e) \in Nat /\ Longest(unit') \in Nat /\ Late(unit', e) > Longest(unit')
    BY <1>1, <1>2, <1>4, LateIs
  <2> QED BY <1>1, <1>2, <2>1
<1>7. \A e \in ToSet(plan'.evacuations) : now' < Late(unit, e)'
  BY <1>1, <1>3, <1>6
<1> QED BY <1>5, <1>7 DEF AtFace

\* A crew that goes to work sets out in time.
LEMMA CrewWorks ==
  ASSUME WorkingsSound, InOrder, Work
  PROVE  CrewSound'
<1>1. PICK to \in WorkedNow(at, now), stay \in Stays[unit] : Go(to, stay)
  BY DEF Work
<1>2. NetworkSound /\ PlanSound /\ UnderWay /\ Worked /\ ~Clearing
  BY DEF WorkingsSound, JourneySound, Work, Travelling
<1>3. Measured /\ at \in Nodes /\ unit \in Units /\ now \in Nat
  BY <1>2 DEF UnderWay
<1>4. UNCHANGED network /\ plan' = plan /\ unit' = unit
  BY <1>1 DEF Go
<1>5. /\ FaceNodes' = FaceNodes /\ (Planned' <=> Planned)
      /\ \A u, e : Late(u, e)' = Late(u, e)
  BY <1>4, GroundKept
<1> SUFFICES ASSUME Planned PROVE AtFace'
  BY <1>5 DEF CrewSound
<1>6. to \in FaceNodes
  <2>1. {NodeAt(graph, p) : p \in ToSet(ActiveAt(plan.shifts, plan.rotate, now))} \subseteq FaceNodes
    BY <1>2, <1>3, WorkedAre
  <2> QED BY <1>1, <2>1 DEF WorkedNow
<1>7. to \in Nodes
  BY <1>2, <1>6, FacesServed DEF Planned
<1>8. stay \in Nat /\ stay > 0
  BY <1>3, WorkingsAssumption
<1>9. at' = There(to) /\ now' = Come(to) + stay /\ since' = now /\ Come(to) \in Nat
  BY <1>1, <1>2, <1>7, <1>8, GoIs
<1>10. There(to) = to /\ Come(to) =< now + Longest(unit)
  BY <1>2, <1>7, ComesThere DEF Planned
<1>11. ASSUME NEW e \in ToSet(plan.evacuations), e.reentry > now PROVE now' < Late(unit, e)
  <2>1. /\ Late(unit, e) \in Nat /\ Longest(unit) \in Nat
        /\ Late(unit, e) >= (e.clear - Lead) + stay + Longest(unit)
        /\ e.clear \in Int
    BY <1>2, <1>3, LateIs
  <2>2. Evacuation(now) # <<>> /\ Evacuation(now)[1].clear =< e.clear
    BY <1>2, <1>11, EvacuationFirst
  <2>3. PICK clear \in Int : clear = Evacuation(now)[1].clear
    <3>1. Evacuation(now)[1] \in Evacuated
      BY <1>2, <2>2, EvacuationIs
    <3> QED BY <3>1 DEF Evacuated
  <2>4. ~(clear =< now + Lead)
    BY <1>2, <2>2, <2>3 DEF Clearing
  <2>5. Lead \in Nat
    BY WorkingsAssumption
  <2>6. PICK long \in Nat : long = Longest(unit)
    BY <2>1
  <2>7. PICK c \in Int : c = e.clear
    BY <2>1
  <2>8. PICK late \in Nat : late = Late(unit, e)
    BY <2>1
  <2>9. late >= (c - Lead) + stay + long
    BY <2>1, <2>6, <2>7, <2>8
  <2>10. c > now + Lead
    BY <1>3, <2>2, <2>3, <2>4, <2>5, <2>7
  <2>11. now' =< now + long + stay
    BY <1>3, <1>8, <1>9, <1>10, <2>6
  <2>12. now' \in Nat
    BY <1>8, <1>9
  <2> QED BY <1>3, <1>8, <2>5, <2>8, <2>9, <2>10, <2>11, <2>12
<1>12. at' \in FaceNodes'
  BY <1>5, <1>6, <1>9, <1>10
<1>13. \A e \in ToSet(plan'.evacuations) : e.reentry > since' => now' < Late(unit, e)'
  BY <1>4, <1>5, <1>9, <1>11
<1> QED BY <1>12, <1>13 DEF AtFace

\* A crew that clears out comes to a station in time, or is there already.
LEMMA CrewClears ==
  ASSUME WorkingsSound, CrewSound, Clear
  PROVE  CrewSound'
<1>1. PICK to, stay : to = Station(at) /\ stay = Max({Evacuation(now)[1].reentry - now, 1}) /\ Go(to, stay)
  BY DEF Clear
<1>2. NetworkSound /\ PlanSound /\ UnderWay /\ Worked /\ Clearing /\ Crew(unit) /\ at # None
  BY DEF WorkingsSound, JourneySound, Clear, Travelling
<1>3. Measured /\ at \in Nodes /\ unit \in Units /\ now \in Nat /\ since \in Nat /\ since =< now
  BY <1>2 DEF UnderWay
<1>4. UNCHANGED network /\ plan' = plan /\ unit' = unit
  BY <1>1 DEF Go
<1>5. /\ Stationed' = Stationed /\ (Planned' <=> Planned)
      /\ \A u, e : Emptied(u, e)' = Emptied(u, e)
  BY <1>4, GroundKept
<1> SUFFICES ASSUME Planned PROVE AtStation'
  BY <1>5 DEF CrewSound
<1>6. to \in Nodes
  BY <1>1, <1>2, StationIs
<1>7. stay \in Nat /\ stay > 0
  <2>1. Evacuation(now)[1] \in Evacuated
    BY <1>2, EvacuationIs DEF Clearing
  <2>2. PICK x \in Int : x = Evacuation(now)[1].reentry - now
    BY <1>3, <2>1 DEF Evacuated
  <2>3. Max({x, 1}) = IF x < 1 THEN 1 ELSE x
    BY MaxOfTwo
  <2> QED BY <1>1, <2>2, <2>3
<1>8. /\ at' = There(to) /\ now' = Come(to) + stay /\ since' = now /\ Come(to) \in Nat /\ Come(to) >= now
      /\ Len(track') >= 2 /\ track'[Len(track') - 1] = Waypoint(Come(to), There(to))
  BY <1>1, <1>2, <1>6, <1>7, GoIs
<1>9. There(to) = to /\ Come(to) =< now + Longest(unit)
  BY <1>2, <1>6, ComesThere DEF Planned
<1>10. PICK come \in Nat : come = Come(to)
  BY <1>8
<1>11. /\ to \in Stationed
       /\ \A e \in ToSet(plan.evacuations) : e.reentry > now => come = now \/ come =< Emptied(unit, e)
  <2>1. CASE AtFace
    <3>1. to \in Stationed
      BY <1>1, <1>2, <2>1, FacesServed DEF AtFace, Planned
    <3>2. ASSUME NEW e \in ToSet(plan.evacuations), e.reentry > now PROVE come =< Emptied(unit, e)
      <4>1. /\ Late(unit, e) \in Nat /\ Longest(unit) \in Nat
            /\ Emptied(unit, e) = Late(unit, e) + Longest(unit) /\ e.reentry \in Int
        BY <1>2, <1>3, LateIs
      <4>2. now < Late(unit, e)
        BY <1>3, <2>1, <3>2, <4>1 DEF AtFace
      <4> QED BY <1>3, <1>9, <1>10, <4>1, <4>2
    <3> QED BY <3>1, <3>2
  <2>2. CASE AtStation
    <3>1. at \in Stationed /\ to = at
      BY <1>1, <2>2 DEF AtStation, Stationed
    <3>2. Sound /\ RoutesSound
      BY <1>2, GraphIsSound DEF NetworkSound
    <3>3. routes[at].distance[at] = 0
      BY <1>3, <3>2, RouteIs
    <3>4. come = now
      <4>1. come = now \/ come = Arrival(at)
        BY <1>10, <3>1 DEF Come
      <4>2. PICK pace \in Nat : pace = Pace[unit] /\ pace > 0
        BY <1>3, PaceIs
      <4>3. 0 \div pace = 0
        BY <4>2
      <4>4. Arrival(at) = now + 0
        BY <3>3, <4>2, <4>3 DEF Arrival
      <4> QED BY <1>3, <4>1, <4>4
    <3> QED BY <3>1, <3>4
  <2> QED BY <1>2, <2>1, <2>2 DEF CrewSound
<1>12. Waypoint(come, to) = Waypoint(come, at)'
  <2>1. graph' = graph
    BY <1>4 DEF network
  <2> QED BY <1>8, <1>9, <2>1 DEF Waypoint
<1>13. come \in since'..now'
  BY <1>3, <1>7, <1>8, <1>10
<1>14. \A e \in ToSet(plan'.evacuations) : e.reentry > since' => come = since' \/ come =< Emptied(unit, e)'
  BY <1>4, <1>5, <1>8, <1>11
<1>15. at' \in Stationed'
  BY <1>5, <1>8, <1>9, <1>11
<1>16. Len(track') >= 2 /\ track'[Len(track') - 1] = Waypoint(come, at)'
  BY <1>8, <1>9, <1>10, <1>12
<1> QED BY <1>13, <1>14, <1>15, <1>16 DEF AtStation

\* Evacuations stay in order.
LEMMA OrderKept ==
  ASSUME WorkingsSound, InOrder, [Next]_vars
  PROVE  InOrder'
<1>1. CASE NewPlan
  <2>1. PICK a \in Activities : plan'.evacuations = Evacuations(a)
    <3>1. \E a \in Activities : \E shifts : plan' = [shifts |-> shifts, rotate |-> a.rotate,
                     blasts |-> Blasts(a, shifts), evacuations |-> Evacuations(a)]
      BY <1>1 DEF NewPlan
    <3> QED BY <3>1
  <2> QED BY <2>1, EvacuationsInOrder DEF InOrder
<1>2. CASE ~NewPlan
  <2>1. plan' = plan
    BY <1>2 DEF Next, Measure, Start, Wander, Haul, Clear, Work, Go, vars
  <2> QED BY <2>1 DEF InOrder, Worked
<1> QED BY <1>1, <1>2

\* Every step keeps crews at a face in time or at a station they came to in time.
LEMMA CrewStep ==
  ASSUME WorkingsSound, InOrder, CrewSound, [Next]_vars
  PROVE  CrewSound'
<1>1. CASE Measure
  <2>1. at' = at /\ ~Measured
    <3>1. at' = at /\ Len(routes) < Cardinality(Nodes)
      BY <1>1 DEF Measure, Settle, Searched, journey
    <3>2. Len(routes) \in Nat
      BY DEF WorkingsSound, NetworkSound, RoutesSound
    <3>3. Cardinality(Nodes) \in Nat
      BY NodesAre, GraphIsSound DEF WorkingsSound, NetworkSound
    <3> QED BY <3>1, <3>2, <3>3 DEF Measured
  <2>2. at = None
    BY <2>1 DEF WorkingsSound, JourneySound, UnderWay
  <2> QED BY <2>1, <2>2 DEF CrewSound
<1>2. CASE NewPlan
  BY <1>2 DEF NewPlan, journey, CrewSound
<1>3. CASE Start
  BY <1>3, CrewStarts
<1>4. CASE Wander
  <2>1. plan' = plan /\ ~Worked
    BY <1>4 DEF Wander, Go
  <2> QED BY <2>1 DEF CrewSound, Planned, Worked
<1>5. CASE Haul
  <2>1. unit' = unit /\ ~Crew(unit)
    BY <1>5 DEF Haul, Go
  <2> QED BY <2>1 DEF CrewSound, Crew
<1>6. CASE Clear
  BY <1>6, CrewClears
<1>7. CASE Work
  BY <1>7, CrewWorks
<1>8. CASE UNCHANGED vars
  <2>1. /\ UNCHANGED network /\ plan' = plan /\ unit' = unit /\ at' = at /\ now' = now /\ since' = since
        /\ track' = track /\ graph' = graph
    BY <1>8 DEF vars, journey, network
  <2>2. /\ FaceNodes' = FaceNodes /\ Stationed' = Stationed /\ (Planned' <=> Planned)
        /\ \A u, e : Late(u, e)' = Late(u, e) /\ Emptied(u, e)' = Emptied(u, e)
    BY <2>1, GroundKept
  <2>3. \A t, n : Waypoint(t, n)' = Waypoint(t, n)
    BY <2>1 DEF Waypoint
  <2>4. AtFace => AtFace'
    BY <2>1, <2>2 DEF AtFace
  <2>5. AtStation => AtStation'
    BY <2>1, <2>2, <2>3 DEF AtStation
  <2> QED BY <2>1, <2>2, <2>4, <2>5 DEF CrewSound, Crew
<1> QED BY <1>1, <1>2, <1>3, <1>4, <1>5, <1>6, <1>7, <1>8 DEF Next

\* A crew at a face sets out in time; one at a station is where it came to.
LEMMA CrewsOut ==
  ASSUME WorkingsSound, CrewSound
  PROVE  CrewsStayOut
<1> SUFFICES ASSUME Worked, Crew(unit), at # None, Connected, Served,
                    NEW e \in ToSet(plan.evacuations), since < e.reentry, now >= e.clear,
                    NEW time \in Max({since, Emptied(unit, e)})..Min({now, e.reentry - 1})
             PROVE  PositionAt(time) \notin PointsOf({"crosscut", "ore-drive"})
  BY DEF CrewsStayOut
<1>1. NetworkSound /\ PlanSound /\ UnderWay /\ Sound
  BY GraphIsSound DEF WorkingsSound, JourneySound, NetworkSound
<1>2. Measured /\ at \in Nodes /\ unit \in Units /\ now \in Nat /\ since \in Nat /\ since =< now
  BY <1>1 DEF UnderWay
<1>3. PICK late, long \in Nat :
        /\ late = Late(unit, e) /\ long = Longest(unit) /\ Emptied(unit, e) = late + long
        /\ e.clear \in Int /\ e.reentry \in Int
  BY <1>1, <1>2, LateIs
<1>4. PICK r \in Int : r = e.reentry
  BY <1>3
<1>5. time \in Nat /\ time >= since /\ time >= late + long /\ time =< now
  <2>1. Max({since, late + long}) = IF since < late + long THEN late + long ELSE since
    BY <1>2, MaxOfTwo
  <2>2. Min({now, r - 1}) = IF now < r - 1 THEN now ELSE r - 1
    BY <1>2, MinOfTwo
  <2>3. PICK low \in Nat : low = Max({since, late + long}) /\ low >= since /\ low >= late + long
    BY <1>2, <2>1
  <2>4. PICK high \in Int : high = Min({now, r - 1}) /\ high =< now
    BY <1>2, <2>2
  <2>5. time \in low..high
    BY <1>3, <1>4, <2>3, <2>4
  <2> QED BY <1>2, <2>3, <2>4, <2>5
<1>6. r > since
  BY <1>2, <1>4
<1>7. CASE AtFace
  <2>1. now < late
    BY <1>2, <1>3, <1>4, <1>6, <1>7 DEF AtFace
  <2> QED BY <1>2, <1>5, <2>1
<1>8. CASE AtStation
  <2>1. PICK come \in since..now :
          /\ Len(track) >= 2 /\ track[Len(track) - 1] = Waypoint(come, at)
          /\ come = since \/ come =< late + long
    BY <1>2, <1>3, <1>4, <1>6, <1>8 DEF AtStation
  <2>2. come =< time /\ come \in Nat
    BY <1>2, <1>5, <2>1
  <2>3. PICK pace \in Nat : pace = Pace[unit] /\ pace > 0
    BY <1>2, PaceIs
  <2>4. Trail(track, pace) /\ track[Len(track)] = Waypoint(now, at)
    BY <1>1, <2>3 DEF UnderWay, TrailFrom
  <2>5. PICK l \in Nat : l = Len(track) /\ l >= 2 /\ l \in 2..Len(track)
    BY <2>1, <2>4, TrailHas
  <2>6. track[l - 1].at = come /\ track[l].at = now /\ track[l - 1].point = P(at) /\ track[l].point = P(at)
    BY <2>1, <2>4, <2>5 DEF Waypoint, P
  <2>7. PositionAt(time) = P(at)
    BY <1>1, <1>5, <2>2, <2>3, <2>4, <2>5, <2>6, PositionIs
  <2> QED BY <1>8, <2>7 DEF AtStation, Stationed
<1> QED BY <1>7, <1>8 DEF CrewSound, Planned

\* In every mine Generate could make, worked any way, for every pace, stay and
\* lead: from when the last crew has left and until re-entry no crew is in
\* production, on any day (internal/activity, internal/workload/workforce.go).
THEOREM CrewsAreOut == Spec => []CrewsStayOut
<1>1. Init => InOrder /\ CrewSound
  BY DEF Init, InOrder, CrewSound, Worked, NoPlan
<1>2. WorkingsSound /\ InOrder /\ CrewSound /\ [Next]_vars => InOrder' /\ CrewSound'
  BY OrderKept, CrewStep
<1>3. WorkingsSound /\ CrewSound => CrewsStayOut
  BY CrewsOut
<1> QED BY <1>1, <1>2, <1>3, WorkingsAreSound, PTL DEF Spec
=============================================================================
