------------------------------ MODULE UseCases -------------------------------
(****************************************************************************)
(* The questions internal/usecase asks of a recorded run: which decisions   *)
(* its events asked for, whether what each waited on came in time, and how  *)
(* the map of closed ground covers the ground that was dangerous.           *)
(*                                                                          *)
(* The run is in flight and records what its catalogue makes of the picks   *)
(* and the locates that finish; a question reads what is recorded at any    *)
(* moment.  A place is one sample of tunnel and stands for one metre; units *)
(* move one place per instant or stand, so that a unit crosses the edge of  *)
(* a zone at a whole instant.  The level asked for is that of TrueZone and  *)
(* of the reach of Estimate.                                                *)
(****************************************************************************)
EXTENDS Catalogue, Whereabouts, SequencesExt

CONSTANTS
  Origin,      \* [Events -> when the event happens]
  Truth,       \* [Events -> where it happens]
  TrueZone,    \* [Events -> how far it reaches the level, Nowhere if it does not]
  ScriptedFor, \* [Events -> the unit it was scripted for, Anyone if for none]
  Estimate,    \* [Events -> what locating it from so many picks gives]
  Junctions,   \* where three or more ways meet
  Anyone,
  Worlds,      \* where the units may go: [Units -> Tracks]
  Questions,   \* the parameters asked with
  Every,       \* the decision interval
  Horizon      \* bound on the clock

Nowhere == -1

ASSUME UseCasesAssumption ==
  /\ IsFiniteSet(Events) /\ IsFiniteSet(Drift) /\ Junctions \subseteq Drift
  /\ Every \in Nat \ {0} /\ Horizon \in Nat
  /\ Origin \in [Events -> Nat] /\ Truth \in [Events -> Drift]
  /\ TrueZone \in [Events -> Nat \cup {Nowhere}]
  /\ ScriptedFor \in [Events -> Units \cup {Anyone}] /\ Anyone \notin Units
  /\ \A e \in Events : \A n \in MinimumPicks..Picks[e] :
       Estimate[e][n].at \in Drift /\ Estimate[e][n].reach \in Nat \cup {Nowhere}
  /\ \A w \in Worlds, u \in Units :
       /\ IsTrack(w[u])
       /\ \A i \in 2..Len(w[u]) :
            Distance(w[u][i].point, w[u][i - 1].point) \in {0, w[u][i].at - w[u][i - 1].at}
  /\ \A q \in Questions :
       /\ q.window \in Nat \ {0} /\ q.reaction \in Nat /\ q.extra \in Nat
       /\ q.kinds \subseteq Kinds /\ q.about \subseteq Events /\ q.need \in {"first-location", "warning"}

VARIABLES
  tracks,    \* World.Units: where everyone goes
  question,  \* what is asked of the run
  deferred,  \* whether the run has a locate stage of its own
  now,       \* the instant of its last interval
  record     \* what it has recorded of each event

vars == <<tracks, question, deferred, now, record>>

Init ==
  /\ tracks \in Worlds
  /\ question \in Questions
  /\ deferred \in BOOLEAN
  /\ now = 0
  /\ record = NewCatalogue

\* The events whose locate job may finish: the workflow reports the first
\* locate of an event only, and submits none before it has the picks.
Locatable == {e \in Events : deferred /\ record[e].locatedAt = 0 /\ CanLocate(record[e])}

\* An interval of the run: picks[e] more picks of an event and some locates.
Interval(picks, located) ==
  /\ now + Every =< Horizon
  /\ now' = now + Every
  /\ record' = [e \in Events |->
       Observe(e, Locate(e, record[e], located, now'), picks[e], now', deferred)]
  /\ UNCHANGED <<tracks, question, deferred>>

Finishing == {picks \in [Events -> 0..Max({Picks[e] : e \in Events})] :
  \A e \in Events : /\ picks[e] =< Remaining(e, record[e])
                    /\ picks[e] > 0 => Origin[e] < now + Every}

Next == \E picks \in Finishing, located \in SUBSET Locatable : Interval(picks, located)

Spec == Init /\ [][Next]_vars
-----------------------------------------------------------------------------
\* What the mine had and when; instant 0 is for never.
Located(e)   == record[e].locatedAt
Processed(e) == record[e].processedAt
FirstOf(e)   == IF record[e].located = 0 THEN {} ELSE {Estimate[e][record[e].located]}
FinalOf(e)   == IF record[e].final = 0 THEN {} ELSE {Estimate[e][record[e].final]}

Covers(location, place) ==
  location.reach # Nowhere /\ Distance(location.at, place) =< location.reach

\* Need.MetAt, 0 when it never was.
MetAt(need, e, place) ==
  IF need = "first-location" THEN Located(e)
  ELSE IF \E l \in FirstOf(e) : Covers(l, place) THEN Located(e)
  ELSE IF \E l \in FinalOf(e) : Covers(l, place) THEN Processed(e)
  ELSE 0
-----------------------------------------------------------------------------
\* Where units cross the edge of a zone (usecase/track.go).

Inside(u, e, at) == Distance(PositionAt(tracks[u], at), Truth[e]) =< TrueZone[e]

\* surface: the places where the way from a to b crosses the edge.
Surface(a, b, centre, radius, entering) ==
  LET ahead == IF entering THEN 0 - radius ELSE radius
      edge == IF a < b THEN centre + ahead ELSE centre - ahead
  IN IF a # b /\ edge \in Ground({a, b}) THEN {edge} ELSE {}

\* crossing, as the instants of all crossings; the code takes the first.
LegCrossings(track, start, end, e, entering) ==
  LET a == PositionAt(track, start)
      b == PositionAt(track, end)
  IN IF start < end
     THEN {start + Distance(a, edge) : edge \in Surface(a, b, Truth[e], TrueZone[e], entering)} ELSE {}

Crossings(u, e, from, until, entering) ==
  LET track == tracks[u]
  IN UNION {LegCrossings(track, Max({track[i].at, from}), Min({track[i + 1].at, until}), e, entering)
              : i \in 1..(Len(track) - 1)}

Until(e) == Origin[e] + question.window

\* firstEntry and firstExit, as the set of at most one instant.
FirstOfAll(instants) == IF instants = {} THEN {} ELSE {Min(instants)}
Entry_again(u, e) == FirstOfAll(Crossings(u, e, Origin[e], Until(e), TRUE))
Entry(u, e) ==
  IF Inside(u, e, Origin[e]) THEN {} ELSE FirstOfAll(Crossings(u, e, Origin[e], Until(e), TRUE))
Exit(u, e) ==
  IF Inside(u, e, Origin[e]) THEN FirstOfAll(Crossings(u, e, Origin[e], Until(e), FALSE)) ELSE {}
-----------------------------------------------------------------------------
\* The decisions (usecase/zone.go).

\* Whom an event is decided about for.
Concerned(e) ==
  {u \in Seen(tracks, question.kinds) :
     TrueZone[e] # Nowhere /\ e \in question.about /\ ScriptedFor[e] \in {Anyone, u}}

Decision(e, u, place, closes) ==
  [event |-> e, unit |-> u, opens |-> Origin[e], closes |-> closes,
   met |-> MetAt(question.need, e, place)]

TurnBack ==
  UNION {UNION {{Decision(e, u, PositionAt(tracks[u], entry), entry - question.reaction)
                   : entry \in Entry(u, e)} : u \in Concerned(e)} : e \in Events}

WayOut ==
  UNION {{Decision(e, u, PositionAt(tracks[u], Origin[e]), Min({Until(e)} \cup Exit(u, e)) - question.reaction)
            : u \in {v \in Concerned(e) : Inside(v, e, Origin[e])}} : e \in Events}

\* The last junction a unit passes before the entry, while it can turn.
LastJunction(u, e, entry) ==
  {tracks[u][i].at : i \in {k \in DOMAIN tracks[u] :
     /\ Origin[e] =< tracks[u][k].at /\ tracks[u][k].at < entry
     /\ tracks[u][k].point \in Junctions}}

RerouteCloses(u, e, entry) ==
  LET passed == LastJunction(u, e, entry)
  IN IF passed = {} THEN Origin[e] ELSE Max(passed) - question.reaction

Reroute ==
  UNION {UNION {{Decision(e, u, PositionAt(tracks[u], entry), RerouteCloses(u, e, entry))
                   : entry \in Entry(u, e)} : u \in Concerned(e)} : e \in Events}

\* Score.
InTime(d) == d.met # 0 /\ d.met =< d.closes

\* What Summarise counts as lost however fast the processing.
Unwinnable(d) == d.closes =< d.opens
-----------------------------------------------------------------------------
\* Every variable holds what a run may have recorded.
TypeOK ==
  /\ tracks \in Worlds /\ question \in Questions /\ deferred \in BOOLEAN
  /\ now \in 0..Horizon
  /\ record \in [Events -> EventRecord(0..now)]

\* Solving for the crossings leg by leg (track.go) misses none: a unit that
\* was outside a zone enters it at the first instant it is inside, and one
\* that was inside stands on the edge when it leaves, not having been outside.
CrossingsAreFirst ==
  \A e \in Events : \A u \in Concerned(e) :
    LET within == {t \in Origin[e]..Until(e) : Inside(u, e, t)}
        outside == (Origin[e]..Until(e)) \ within
    IN IF Inside(u, e, Origin[e])
       THEN /\ outside # {} => Exit(u, e) # {}
            /\ \A t \in Exit(u, e) :
                 /\ Distance(PositionAt(tracks[u], t), Truth[e]) = TrueZone[e]
                 /\ \A s \in outside : t < s
       ELSE Entry(u, e) = FirstOfAll(within)

\* Summarise's promise about the unwinnable: nothing was in time for a
\* decision that closed no later than it opened, and a reroute in time leaves
\* time for the turn-back of the same unit, which the later moment decides.
UnwinnableIsLost ==
  /\ \A d \in TurnBack \cup WayOut \cup Reroute : Unwinnable(d) => ~InTime(d)
  /\ \A r \in Reroute : InTime(r) =>
       \E t \in TurnBack : t.event = r.event /\ t.unit = r.unit /\ InTime(t)

\* Whoever is in a zone while it matters is decided about, once: led out when
\* the event found it inside, turned back and rerouted when it came later.
EveryoneIsDecidedFor ==
  \A e \in Events : \A u \in Concerned(e) :
    LET turned == {d \in TurnBack : d.event = e /\ d.unit = u}
        led == {d \in WayOut : d.event = e /\ d.unit = u}
    IN /\ Cardinality(turned) + Cardinality(led) =
            IF \E t \in Origin[e]..Until(e) : Inside(u, e, t) THEN 1 ELSE 0
       /\ led # {} <=> Inside(u, e, Origin[e])
=============================================================================
