------------------------------- MODULE Planner -------------------------------
(****************************************************************************)
(* The mine's intent (internal/intent/planner.go): every cycle it judges    *)
(* each event with work outstanding by who is, or could come, within reach  *)
(* of it, and asks the queue to move that event's jobs.  It works from what *)
(* the catalogue has learnt and from the whereabouts it may know of, and    *)
(* keeps its own record of what it has asked for.                           *)
(*                                                                          *)
(* One step is one cycle of the engine, which runs in one goroutine: the    *)
(* work that started and finished, the catalogue's first locations, the     *)
(* settings in force (applyIntent of internal/run/engine.go), Plan, and     *)
(* what the queue makes of its updates.                                     *)
(****************************************************************************)
EXTENDS Whereabouts, FiniteSets

CONSTANTS
  Events, Picks,  \* a workload's events, and how many jobs each produced
  Origin,         \* [Events -> when it happened]
  Truth, Size,    \* where it really was and how large: the oracle's
  Triggers,       \* [Events -> the sensors that detected it, first first]
  Estimates,      \* [Events -> the first locations solving may give]
  Submitted,      \* [Jobs -> the priority it was submitted with]
  Zones,          \* [magnitude, level -> radius], Unreached where there is none
  MinimumPicks,   \* seismic.MinimumPicks
  Worlds,         \* the tracks the units may have
  SettingsSet,    \* the settings operators may put in force
  Horizon,        \* bound on the clock
  MaxChanges      \* bound on how often they change

JobsOf(e) == {e} \X (1..Picks[e])
Jobs      == UNION {JobsOf(e) : e \in Events}
Unreached == -1
Far       == 1000000 \* math.Inf(1)
Nowhere   == 0       \* domain.Point{}

Levels  == {"moderate", "high", "very-high"}
Classes == {"decayed", "promoted", "restored"}
Settings ==
  [mode: {"off", "decay", "promote", "both"}, knowledge: {"estimate", "truth"},
   preLocation: BOOLEAN, preMagnitude: Nat, protect: SUBSET Kinds, lookahead: Nat,
   protectLevel: Levels, promoteLevel: Levels, margin: Nat, uncertainty: Nat,
   decayTo: Int, promoteTo: Int, restore: BOOLEAN, exempt: SUBSET Classes]

\* IntentSettings.Validate
Usable(s) == s \in Settings /\ s.decayTo < s.promoteTo
Decays(s)   == s.mode \in {"decay", "both"}
Promotes(s) == s.mode \in {"promote", "both"}

\* How large an event may be taken to be.
Magnitudes(e) ==
  {Size[e]} \cup {l.magnitude : l \in Estimates[e]} \cup {s.preMagnitude : s \in SettingsSet}

\* A location solved from picks never falls on the sensor that came first, so
\* a position tells what an event was judged from.  Nothing is as far as Far.
ASSUME PlannerAssumption ==
  /\ IsFiniteSet(Events) /\ Events = 1..Cardinality(Events)
  /\ Picks \in [Events -> Nat] /\ Origin \in [Events -> Nat]
  /\ \A d, e \in Events : d =< e => Origin[d] =< Origin[e]
  /\ \A e \in Events : Truth[e] \in Drift /\ Triggers[e] \in Seq(Drift) /\ Len(Triggers[e]) = Picks[e]
  /\ \A e \in Events : \A l \in Estimates[e] : l.at \in Drift /\ l.at # Triggers[e][1]
  /\ \A e \in Events : \A z \in Magnitudes(e) \X Levels : Zones[z] \in Nat \cup {Unreached}
  /\ \A p, q \in Drift : Distance(p, q) < Far
  /\ Submitted \in [Jobs -> Int]
  /\ MinimumPicks \in Nat \ {0} /\ Horizon \in Nat /\ MaxChanges \in Nat
  /\ \A w \in Worlds : DOMAIN w = Units /\ \A u \in Units : IsTrack(w[u])
  /\ \A w \in Worlds, u \in Units :
       Kind[u] = "person" => Fastest([v \in Units |-> IF v = u THEN w[u] ELSE <<>>]) =< Walking
  /\ \A s \in SettingsSet : Usable(s)

VARIABLES
  tracks,    \* where the units really go; it never changes
  now,       \* the cycle's instant
  status,    \* [Jobs -> how far the queue is with it]
  location,  \* [Events -> catalogue.Location, NoLocation before there is one]
  settings, generation,
  next,      \* p.next: the events not yet seen
  open,      \* p.open
  judged, struck,
  requested, altered,
  held,      \* [Jobs -> where the queue has it]
  told       \* [Events -> the last transition recorded of it]

plan == <<next, open, judged, struck, requested, altered>>
vars == <<tracks, now, status, location, settings, generation, plan, held, told>>

NoLocation  == [at |-> Nowhere, magnitude |-> 0]
NoJudgement == [state |-> "", basis |-> "", at |-> 0, slack |-> 0, from |-> Nowhere,
                asked |-> "", generation |-> 0]
Unmeasured  == [measured |-> FALSE, from |-> Nowhere, distance |-> Far]
Untold      == [state |-> "", basis |-> ""]
AsSubmitted(j) == [priority |-> Submitted[j], exempt |-> FALSE]

Init ==
  /\ tracks \in Worlds
  /\ now = 0
  /\ status = [j \in Jobs |-> "waiting"]
  /\ location = [e \in Events |-> NoLocation]
  /\ settings \in SettingsSet /\ generation = 1
  /\ next = Events /\ open = {}
  /\ judged = [e \in Events |-> NoJudgement]
  /\ struck = [e \in Events |-> Unmeasured]
  /\ requested = [j \in Jobs |-> [priority |-> Submitted[j], exempt |-> FALSE, moved |-> FALSE]]
  /\ altered = 0
  /\ held = [j \in Jobs |-> AsSubmitted(j)]
  /\ told = [e \in Events |-> Untold]
-----------------------------------------------------------------------------
\* What intent knows about an event: a sighting, or none.

Unseen == [at |-> Nowhere, magnitude |-> 0, uncertainty |-> 0, basis |-> ""]

\* How far the event may be from the first sensor to trigger.
Spread(e) ==
  Distance(Triggers[e][1], Triggers[e][Min({MinimumPicks, Picks[e]})])

Sight(e, s, loc) ==
  CASE s.knowledge = "truth" ->
         [at |-> Truth[e], magnitude |-> Size[e], uncertainty |-> 0, basis |-> "truth"]
    [] s.knowledge # "truth" /\ loc[e] # NoLocation ->
         [at |-> loc[e].at, magnitude |-> loc[e].magnitude,
          uncertainty |-> s.uncertainty, basis |-> "location"]
    [] s.knowledge # "truth" /\ loc[e] = NoLocation /\ s.preLocation ->
         [at |-> Triggers[e][1], magnitude |-> s.preMagnitude,
          uncertainty |-> Max({s.uncertainty, Spread(e)}), basis |-> "sensors"]
    [] OTHER -> Unseen

Reaches(seen, level) == Zones[<<seen.magnitude, level>>] # Unreached
Radius(seen, level, s) == Zones[<<seen.magnitude, level>>] + seen.uncertainty + s.margin

\* observe.Nearest, Far when nothing is protected.
Nearest(places, p) ==
  IF places = {} THEN Far ELSE Min({Distance(p, q) : q \in places})

\* strikeOf: who was nearest when the event happened, measured once a position.
Strike(e, from, known, s) ==
  IF known.measured /\ known.from = from THEN known
  ELSE [measured |-> TRUE, from |-> from,
        distance |-> Nearest(Positions(tracks, Origin[e], s.protect), from)]

\* The state assess decides on, and the boundaries that decided it.
Decided(seen, distance, s) ==
  LET promoted ==
        /\ Promotes(s) /\ Reaches(seen, s.promoteLevel)
        /\ distance < Far /\ distance =< Radius(seen, s.promoteLevel, s)
      spared ==
        \/ distance = Far \/ ~Reaches(seen, s.protectLevel)
        \/ distance > Radius(seen, s.protectLevel, s)
  IN IF promoted THEN "promoted" ELSE IF Decays(s) /\ spared THEN "decayed" ELSE "kept"

Boundaries(seen, state, s) ==
  {Radius(seen, l, s) : l \in
     {m \in {s.promoteLevel} : Promotes(s) /\ Reaches(seen, m)} \cup
     {m \in {s.protectLevel} : state # "promoted" /\ Reaches(seen, m)}}

Slack(seen, state, distance, s) ==
  IF distance = Far THEN Far
  ELSE Min({Far} \cup {Distance(distance, b) : b \in Boundaries(seen, state, s)})

\* A cycle as Plan sees it: [at, settings, generation, location, done].

\* How near anything protected is, was or could come to where an event is.
DistanceTo(p, strike, c) ==
  LET s == c.settings
  IN Min({Nearest(Reach(s.knowledge, tracks, c.at, s.lookahead, s.protect), p), strike.distance})

\* assess: the judgement of a seen event, given who was struck by it.
Assess(seen, before, strike, c) ==
  LET distance == DistanceTo(seen.at, strike, c)
      state == Decided(seen, distance, c.settings)
  IN [before EXCEPT !.state = state, !.basis = seen.basis, !.at = c.at, !.from = seen.at,
                    !.slack = Slack(seen, state, distance, c.settings)]

\* settled: whether a judgement cannot have changed since it was made.
Settled_moved(e, last, c) ==
  /\ last.slack > 0 /\ last.asked # "" /\ last.generation = c.generation
  /\ Speed(tracks) > 0 => (c.at - last.at) * Speed(tracks) < last.slack
Settled(e, last, c) ==
  /\ last.slack > 0 /\ last.asked # "" /\ last.generation = c.generation
  /\ Speed(tracks) > 0 => (c.at - last.at) * Speed(tracks) < last.slack
  /\ Sight(e, c.settings, c.location).at = last.from
-----------------------------------------------------------------------------
\* What intent asks for.

Displaces(r, j) == r.priority # Submitted[j] \/ r.exempt

\* What intent does to a job of an event in a state; a decay that is final
\* stands whatever comes near the event, "kept decayed".
Class(state, have, j, s) ==
  CASE state = "decayed" /\ s.decayTo < Submitted[j] -> "decayed"
    [] state = "promoted" /\ s.promoteTo > Submitted[j] -> "promoted"
    [] OTHER -> IF s.mode = "off" THEN ""
                ELSE IF ~s.restore /\ have.priority < Submitted[j] THEN "kept decayed"
                ELSE IF have.moved THEN "restored" ELSE ""

Want(state, have, j, s) ==
  LET class == Class(state, have, j, s)
      priority == CASE class = "decayed"      -> s.decayTo
                    [] class = "promoted"     -> s.promoteTo
                    [] class = "kept decayed" -> have.priority
                    [] OTHER                  -> Submitted[j]
  IN [priority |-> priority,
      moved    |-> have.moved \/ priority # Submitted[j],
      exempt   |-> (IF class = "kept decayed" THEN "decayed" ELSE class) \in s.exempt]

Unfinished(e, done) == JobsOf(e) \ done
DisplacedOf(e, asked) == {j \in JobsOf(e) : Displaces(asked[j], j)}

\* request: b is the planner's record as the loop over the open events has it.
Request(b, e, c) ==
  LET last == b.judged[e]
      asked == [j \in Jobs |->
                  IF j \in Unfinished(e, c.done)
                  THEN Want(last.state, b.requested[j], j, c.settings) ELSE b.requested[j]]
  IN IF last.asked = last.state /\ last.generation = c.generation THEN b
     ELSE [b EXCEPT
            !.judged[e].asked = last.state, !.judged[e].generation = c.generation,
            !.requested = asked,
            !.altered = @ + Cardinality(DisplacedOf(e, asked))
                          - Cardinality(DisplacedOf(e, b.requested))]

\* close: an event whose work is done is forgotten.
Close_counted(b, e) == b
Close(b, e) == [b EXCEPT !.altered = @ - Cardinality(DisplacedOf(e, b.requested))]

\* What Plan makes of one open event.
Consider(b, e, c) ==
  LET seen   == Sight(e, c.settings, c.location)
      strike == Strike(e, seen.at, b.struck[e], c.settings)
      let_go == [b EXCEPT !.judged[e].state = "kept", !.judged[e].basis = "off"]
      unknown == [b EXCEPT !.judged[e].state = "unknown", !.judged[e].basis = ""]
      assessed == [b EXCEPT !.judged[e] = Assess(seen, @, strike, c), !.struck[e] = strike]
  IN IF Unfinished(e, c.done) = {} THEN Close(b, e)
     ELSE IF c.settings.mode = "off"
     THEN IF b.altered = 0 THEN let_go ELSE Request(let_go, e, c)
     ELSE IF Settled(e, b.judged[e], c) THEN b
     ELSE Request(IF seen = Unseen THEN unknown ELSE assessed, e, c)

\* Configure: everything is judged and measured again.
Configured(c) ==
  IF c.generation = generation THEN [judged |-> judged, struck |-> struck]
  ELSE [judged |-> [e \in Events |-> [judged[e] EXCEPT !.slack = 0]],
        struck |-> [e \in Events |-> Unmeasured]]

\* Valued, what a sweep's trigger is told.
Valued(e) == judged[e].state \in {"promoted", "kept"}

Happened(at) == {e \in next : Origin[e] =< at}

\* Plan, over the open events in order.
Planned(c) ==
  LET from == Configured(c)
      after[e \in 0..Cardinality(Events)] ==
        IF e = 0
        THEN [judged |-> from.judged, struck |-> from.struck,
              requested |-> requested, altered |-> altered]
        ELSE LET b == after[e - 1]
             IN IF e \in open \cup Happened(c.at) THEN Consider(b, e, c) ELSE b
  IN after[Cardinality(Events)]

\* judge: a first judgement that says nothing is not worth recording.
Verdict(j) == [state |-> j.state, basis |-> j.basis]
Told(record, last, verdict) ==
  IF verdict = last \/ (last = Untold /\ (verdict.state = "unknown" \/ verdict.basis = "off"))
  THEN record ELSE verdict

\* Reprioritise: work that has started is too late to move.
Reprioritised(asked, st) ==
  [j \in Jobs |->
     IF asked[j] # requested[j] /\ st[j] = "waiting"
     THEN [priority |-> asked[j].priority, exempt |-> asked[j].exempt] ELSE held[j]]
-----------------------------------------------------------------------------
Arrived(at) == {j \in Jobs : Origin[j[1]] =< at}

\* What an interval's service does to the queue: a job starts, finishes, or
\* does both.
Served(at) ==
  {status} \cup
  {[status EXCEPT ![j] = to] : j \in {i \in Arrived(at) : status[i] = "waiting"},
                               to \in {"running", "finished"}} \cup
  {[status EXCEPT ![j] = "finished"] : j \in {i \in Jobs : status[i] = "running"}}

\* An event is located once enough of its picks are processed: at once, or
\* when its workflow has located it.
Locations(st) ==
  {location} \cup
  UNION {{[location EXCEPT ![e] = l] : l \in Estimates[e]} :
           e \in {d \in Events :
                    /\ location[d] = NoLocation
                    /\ Cardinality({j \in JobsOf(d) : st[j] = "finished"}) >= MinimumPicks}}

\* The settings are put in force, as version 1, in the first cycle.
Cycle(st, loc, s, g) ==
  LET c == [at |-> now + 1, settings |-> s, generation |-> g, location |-> loc,
            done |-> {j \in Jobs : st[j] = "finished"}]
      p == Planned(c)
  IN /\ now < Horizon
     /\ g = generation => now > 0 /\ s = settings
     /\ now = 0 => s = settings
     /\ now' = c.at
     /\ status' = st /\ location' = loc /\ settings' = s /\ generation' = g
     /\ next' = next \ Happened(c.at)
     /\ open' = {e \in open \cup Happened(c.at) : Unfinished(e, c.done) # {}}
     /\ judged' = p.judged /\ struck' = p.struck
     /\ requested' = p.requested /\ altered' = p.altered
     /\ held' = Reprioritised(p.requested, st)
     /\ told' = [e \in Events |-> Told(told[e], Verdict(judged[e]), Verdict(p.judged[e]))]
     /\ UNCHANGED tracks

Next ==
  \E s \in SettingsSet, g \in {generation, generation + 1} : g =< MaxChanges + 2 /\
    \E st \in Served(now + 1) : \E loc \in Locations(st) : Cycle(st, loc, s, g)

Spec == Init /\ [][Next]_vars
-----------------------------------------------------------------------------
States == {"", "unknown", "kept", "decayed", "promoted"}
Bases  == {"", "off", "truth", "location", "sensors"}

\* Every variable holds what its Go counterpart may hold.
TypeOK ==
  /\ tracks \in Worlds /\ now \in 0..Horizon
  /\ status \in [Jobs -> {"waiting", "running", "finished"}]
  /\ \A e \in Events : location[e] \in {NoLocation} \cup Estimates[e]
  /\ settings \in SettingsSet /\ generation \in 1..(MaxChanges + 2)
  /\ next \subseteq Events /\ open \subseteq Events \ next
  /\ judged \in [Events -> [state: States, basis: Bases, at: 0..now, slack: Nat,
                            from: Drift \cup {Nowhere}, asked: States, generation: 0..generation]]
  /\ struck \in [Events -> [measured: BOOLEAN, from: Drift \cup {Nowhere}, distance: Nat]]
  /\ requested \in [Jobs -> [priority: Int, exempt: BOOLEAN, moved: BOOLEAN]]
  /\ altered \in 0..Cardinality(Jobs)
  /\ held \in [Jobs -> [priority: Int, exempt: BOOLEAN]]
  /\ told \in [Events -> [state: States, basis: Bases]]

\* How near anything protected is, was or could come, measured afresh.
Afresh(e, seen) ==
  Min({Nearest(Reach(settings.knowledge, tracks, now, settings.lookahead, settings.protect), seen.at),
       Nearest(Positions(tracks, Origin[e], settings.protect), seen.at)})

\* Skipping settled judgements (planner.go settled, its slack, its speed, the
\* measured strike and Configure's resets) decides what judging everything
\* every cycle decides, and every job is asked to follow the judgement.
JudgementsAreCurrent ==
  settings.mode # "off" => \A e \in open : LET seen == Sight(e, settings, location) IN
    /\ Verdict(judged[e]) =
         IF seen = Unseen THEN [state |-> "unknown", basis |-> ""]
         ELSE [state |-> Decided(seen, Afresh(e, seen), settings), basis |-> seen.basis]
    /\ judged[e].asked = judged[e].state

Protects(e, u) ==
  LET seen == Sight(e, settings, location)
      near(at) == Distance(PositionAt(tracks[u], at), seen.at) =< Radius(seen, settings.protectLevel, settings)
  IN /\ u \in Seen(tracks, settings.protect) /\ seen # Unseen /\ Reaches(seen, settings.protectLevel)
     /\ near(Origin[e]) \/ \E at \in now..(now + settings.lookahead) : near(at)

\* What intent is for: the waiting work of an event whose zone reaches where
\* someone protected really was, is or will be within the lookahead is not
\* relaxed, whichever view the mine reads, unless decay was made final; and
\* the sweeps that ask (Valued) are told it matters.
ProtectedIsNotRelaxed ==
  \A e \in open : settings.mode # "off" /\ (\E u \in Units : Protects(e, u)) =>
    /\ Valued(e)
    /\ settings.restore => \A j \in JobsOf(e) :
         status[j] = "waiting" => held[j].priority >= Submitted[j]

\* altered is raised and lowered in request and close and tells Plan whether
\* switching off has anything to undo (planner.go): it is how many jobs of
\* open events are asked to be elsewhere than submitted.
AlteredCounts == altered = Cardinality(UNION {DisplacedOf(e, requested) : e \in open})

\* Intent switched off puts everything back: no waiting job is left moved or
\* exempt, and every judgement on record has been let go of.
UndoneWhenOff ==
  settings.mode = "off" => \A e \in open :
    /\ \A j \in JobsOf(e) : status[j] = "waiting" => held[j] = AsSubmitted(j)
    /\ told[e] \in {Untold, [state |-> "kept", basis |-> "off"]}

\* The planner keeps its own record of what it asked for, and never asks
\* twice: work still waiting is where that record says.
AskedIsHeld ==
  \A j \in Jobs : status[j] = "waiting" =>
    held[j] = [priority |-> requested[j].priority, exempt |-> requested[j].exempt]

\* What the planner keeps of its requests is what it asked for and the queue
\* did, with which Plan decides whether there is anything to do; and so intent
\* switched off undoes all of it.
PlannerKeepsTrack == TypeOK /\ AlteredCounts /\ AskedIsHeld /\ UndoneWhenOff
=============================================================================
