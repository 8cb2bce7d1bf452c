------------------------------- MODULE Closure -------------------------------
(****************************************************************************)
(* Use case 2 of internal/usecase/closure.go: the map of ground to keep out *)
(* of that a run's locations drew, measured against the ground its events   *)
(* made dangerous.  A span is the stretch of time from an instant until     *)
(* another, not included, as covers reads it.                               *)
(****************************************************************************)
EXTENDS UseCases

Span(from, until) == [from |-> from, until |-> until]
LastOf(spans) == spans[Len(spans)]

\* merged: the spans in time order with overlaps joined.
Join(done, s) ==
  IF done = <<>> \/ s.from > LastOf(done).until THEN Append(done, s)
  ELSE [done EXCEPT ![Len(done)].until = Max({@, s.until})]
Merged(spans) ==
  LET joined[S \in SUBSET spans] ==
        IF S = {} THEN <<>>
        ELSE LET latest == CHOOSE s \in S : \A t \in S : t.from =< s.from
             IN Join(joined[S \ {latest}], latest)
  IN joined[spans]

Length(spans) ==
  LET total[i \in 0..Len(spans)] ==
        IF i = 0 THEN 0 ELSE total[i - 1] + spans[i].until - spans[i].from
  IN total[Len(spans)]

Overlap(s, t) == Max({0, Min({s.until, t.until}) - Max({s.from, t.from})})

\* intersection: how long merged spans overlap, walking both.
Intersection(a, b) ==
  LET walk[at \in (1..(Len(a) + 1)) \X (1..(Len(b) + 1))] ==
        LET i == at[1]
            j == at[2]
        IN IF i > Len(a) \/ j > Len(b) THEN 0
           ELSE Overlap(a[i], b[j]) +
                  walk[IF a[i].until < b[j].until THEN <<i + 1, j>> ELSE <<i, j + 1>>]
  IN walk[<<1, 1>>]

Holds(spans, at) == \E i \in DOMAIN spans : spans[i].from =< at /\ at < spans[i].until
-----------------------------------------------------------------------------
\* The zones an event contributed: its first location's until all its picks
\* are processed, its final location's from then on.
Drawn(from, until, locations) ==
  {[from |-> from, until |-> until, at |-> l.at, reach |-> l.reach + question.extra] :
     l \in {x \in locations : x.reach # Nowhere /\ from < until}}

Closures_kept(e) ==
  (IF Located(e) = 0 THEN {} ELSE Drawn(Max({Located(e), Origin[e]}), Until(e), FirstOf(e)))
  \cup
  (IF Processed(e) = 0 THEN {} ELSE Drawn(Max({Processed(e), Origin[e]}), Until(e), FinalOf(e)))
Closures_backdated(e) ==
  (IF Located(e) = 0 THEN {}
   ELSE Drawn(Max({Located(e), Origin[e]}),
              IF Processed(e) = 0 THEN Until(e) ELSE Min({Until(e), Processed(e)}), FirstOf(e)))
  \cup
  (IF Processed(e) = 0 THEN {} ELSE Drawn(Origin[e], Until(e), FinalOf(e)))
Closures(e) ==
  (IF Located(e) = 0 THEN {}
   ELSE Drawn(Max({Located(e), Origin[e]}),
              IF Processed(e) = 0 THEN Until(e) ELSE Min({Until(e), Processed(e)}), FirstOf(e)))
  \cup
  (IF Processed(e) = 0 THEN {} ELSE Drawn(Max({Processed(e), Origin[e]}), Until(e), FinalOf(e)))

Endangered(e) == {p \in Drift : TrueZone[e] # Nowhere /\ Distance(p, Truth[e]) =< TrueZone[e]}

\* When every sample of tunnel was dangerous, and when the map had it closed.
Dangerous ==
  [p \in Drift |-> Merged({Span(Origin[e], Until(e)) : e \in {x \in Events : p \in Endangered(x)}})]
Shut ==
  LET zones == UNION {Closures(e) : e \in Events}
  IN [p \in Drift |->
        Merged({Span(z.from, z.until) : z \in {x \in zones : Distance(p, x.at) =< x.reach}})]

\* completeAfter: the first moment an event's ground was all closed at once,
\* as the set of at most one instant.
Candidates(e, shut) ==
  {Origin[e]} \cup {t \in UNION {{shut[p][i].from : i \in DOMAIN shut[p]} : p \in Endangered(e)} :
                     Origin[e] < t /\ t < Until(e)}
CompleteAt(e, shut) ==
  FirstOfAll({t \in Candidates(e, shut) : \A p \in Endangered(e) : Holds(shut[p], t)})

\* What the map closes and opens, in the order peak adds it up: by instant,
\* and at one instant by sample, each of its closures before its end.
Switches(shut, way) ==
  UNION {{[at |-> shut[p][i][way], order |-> <<p, IF way = "from" THEN 2 * i ELSE 2 * i + 1>>]
            : i \in DOMAIN shut[p]} : p \in Drift}
Precedes(s, t) ==
  \/ s.at < t.at
  \/ s.at = t.at /\ s.order[1] < t.order[1]
  \/ s.at = t.at /\ s.order[1] = t.order[1] /\ s.order[2] =< t.order[2]

Peak(shut) ==
  LET opened(t) == Cardinality({s \in Switches(shut, "from") : Precedes(s, t)})
      ended(t) == Cardinality({s \in Switches(shut, "until") : Precedes(s, t)})
  IN Max({0} \cup {opened(t) - ended(t) : t \in Switches(shut, "from")})

\* Map, as far as a sample is measured.
Measured(dangerous, shut) ==
  [hazard |-> Length(dangerous), closed |-> Length(shut), both |-> Intersection(dangerous, shut)]
-----------------------------------------------------------------------------
\* The location the mine had of an event at an instant: the final one once it
\* is located and every pick is in, the first one before.
Had(e, at) ==
  IF record[e].final # 0 /\ at >= Located(e) /\ at >= Processed(e) THEN FinalOf(e)
  ELSE IF Located(e) # 0 /\ at >= Located(e) THEN FirstOf(e) ELSE {}

ClosedAt(p, at) ==
  \E e \in Events : Origin[e] =< at /\ at < Until(e) /\
    \E l \in Had(e, at) : l.reach # Nowhere /\ Distance(p, l.at) =< l.reach + question.extra
DangerousAt(p, at) == \E e \in Events : Origin[e] =< at /\ at < Until(e) /\ p \in Endangered(e)

Instants == 0..Max({Until(e) : e \in Events})

\* closure.go draws "from when the mine had the location until it had a better
\* one or the window ended": the map closes, at every instant, the ground of
\* the locations the mine had then, whichever events they are of.
MapIsWhatTheMineHad ==
  LET shut == Shut
  IN \A p \in Drift, t \in Instants : Holds(shut[p], t) <=> ClosedAt(p, t)

\* It does where an event is located as soon as it has the picks.
MapIsWhatWasHadAtOnce == ~deferred => MapIsWhatTheMineHad

\* Merging and walking the spans of every sample measures what there is: the
\* time it was dangerous, closed, and both, counted instant by instant.
SpansAddUp ==
  LET zones == UNION {Closures(e) : e \in Events}
      dangerous == Dangerous
      shut == Shut
  IN \A p \in Drift :
       LET closed == UNION {z.from..(z.until - 1) :
                              z \in {x \in zones : Distance(p, x.at) =< x.reach}}
           danger == {t \in Instants : DangerousAt(p, t)}
       IN Measured(dangerous[p], shut[p]) =
            [hazard |-> Cardinality(danger), closed |-> Cardinality(closed),
             both |-> Cardinality(danger \cap closed)]

\* Looking only where some closure begins (completeAfter) misses no earlier
\* moment at which an event's ground was all closed, and reports none outside
\* its window.
CompleteIsFirst ==
  LET shut == Shut
  IN \A e \in Events : Endangered(e) # {} =>
       CompleteAt(e, shut) =
         FirstOfAll({t \in Origin[e]..(Until(e) - 1) :
                       \A p \in Endangered(e) : Holds(shut[p], t)})

\* When every event's ground was first all closed.
Completions ==
  LET shut == Shut
  IN UNION {{<<e, t>> : t \in CompleteAt(e, shut)} : e \in {x \in Events : Endangered(x) # {}}}

\* An answer given stands, however the run goes on recording.  Wherever a
\* decision is made, what says when its need was met never changes, although
\* the final location comes after the first (usecase.go Warning.MetAt); and
\* the map of what is past is never redrawn, nor when ground was first all
\* closed, since a better location moves it from then on only (closure.go
\* closures, completeAfter).
NothingIsRewritten ==
  [][/\ \A e \in Events, place \in Drift :
          MetAt(question.need, e, place) # 0 =>
            MetAt(question.need, e, place)' = MetAt(question.need, e, place)
     /\ ~deferred =>
          /\ LET was == Shut
                 is == Shut'
             IN \A p \in Drift, t \in 0..now : Holds(was[p], t) <=> Holds(is[p], t)
          /\ {c \in Completions : c[2] =< now} = {c \in Completions' : c[2] =< now}]_vars

\* The decisions of use case 1 are those the run's units wanted, each at its
\* moment (usecase.go, zone.go, track.go).
DecisionsAreRight ==
  TypeOK /\ CrossingsAreFirst /\ EveryoneIsDecidedFor /\ UnwinnableIsLost

\* peak adds up no less than what was ever closed at once.  It may add up more
\* where one sample's ground opens at the instant another's closes, for it goes
\* through them sample by sample: but no more than what was closed at an
\* instant by the samples up to one, and just before it by those after that.
PeakIsSeen ==
  LET shut == Shut
      midway(t, q) == {p \in Drift : IF p =< q THEN Holds(shut[p], t) ELSE Holds(shut[p], t - 1)}
  IN /\ \A t \in Instants : Cardinality({p \in Drift : Holds(shut[p], t)}) =< Peak(shut)
     /\ Peak(shut) > 0 =>
          \E t \in Instants, q \in Drift : Peak(shut) =< Cardinality(midway(t, q))

\* The map of use case 2, and what is summed up from it, is right.
MapIsRight == MapIsWhatWasHadAtOnce /\ SpansAddUp /\ CompleteIsFirst /\ PeakIsSeen
=============================================================================
