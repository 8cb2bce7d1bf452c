------------------------------- MODULE Pipeline ------------------------------
(****************************************************************************)
(* The mine's workflow of internal/pipeline: picks are processed, a trigger *)
(* decides when an associate sweep groups what is ready, and each event a   *)
(* sweep grouped is located.  Composed, as simulate of internal/run/        *)
(* engine.go composes them every interval, with the catalogue of events and *)
(* with the queue, which finishes any of the work it holds.                 *)
(*                                                                          *)
(* Time is counted in decision intervals.  A sweep is identified by the     *)
(* instant it was decided at (there is at most one), a locate by its sweep  *)
(* and its event: the identities submit draws say no more.  Costs and       *)
(* priorities matter only to the queue.                                     *)
(****************************************************************************)
EXTENDS Catalogue, FiniteSets, Sequences, SequencesExt

CONSTANTS
  Origin,      \* [Events -> when the event happens and its picks are submitted]
  Window,      \* Plan.Window, how far back a sweep looks
  DrainWindow, \* drainWindow, how far back the drain rate looks
  Duration,    \* Scenario.Duration, before which a run does not end
  Triggers,    \* the sweep specs a scenario may have; kind "none" has no pipeline
  Valuations,  \* what the planner may report of which events it values
  Horizon      \* bound on the clock, past which no event is in the window

\* domain.TriggerSpec.problems; Pressure is absent where backlog is 0.
Usable(t) ==
  /\ t.kind \in {"none", "fixed", "when-drained", "just-in-time", "adaptive"}
  /\ t.kind = "fixed" => t.every > 0
  /\ t.kind = "adaptive" /\ t.max > 0 => t.min =< t.max

ASSUME PipelineAssumption ==
  /\ IsFiniteSet(Events)
  /\ Origin \in [Events -> Nat]
  /\ Window \in Nat \ {0} /\ DrainWindow \in Nat \ {0}
  /\ Duration \in Nat /\ Horizon \in Nat
  /\ Duration < Horizon /\ \A e \in Events : Origin[e] + Window < Horizon
  /\ Valuations \subseteq SUBSET Events
  /\ \A t \in Triggers :
       /\ t \in [kind: STRING, every: Nat, deadline: Nat, min: Nat, max: Nat,
                 backlog: Nat, floor: Nat]
       /\ Usable(t)

VARIABLES
  trigger,     \* the scenario's trigger; it never changes
  now,         \* the instant of the last interval replayed
  issued,      \* p.issued: the sweeps and locates that have not finished
  state,       \* p.state: per event what the workflow knows
  lastSweep,   \* p.lastSweep
  swept,       \* p.swept
  completions, \* p.completions: when recent picks finished
  catalogue,   \* the catalogue's record of each event
  ended        \* whether the replay has left its loop

workflow == <<state, lastSweep, swept, completions>>
vars == <<trigger, now, issued, workflow, catalogue, ended>>

Deferred == trigger.kind # "none"

Associate(t, E) == [stage |-> "associate", at |-> t, events |-> E]
LocateJob(t, e) == [stage |-> "locate", sweep |-> t, event |-> e]

Staged(jobs, stage) == {j \in jobs : j.stage = stage}

Init ==
  /\ trigger \in Triggers
  /\ now = 0
  /\ issued = {}
  /\ state = [e \in Events |-> [processed |-> 0, unswept |-> 0, located |-> FALSE]]
  /\ lastSweep = 0
  /\ swept = FALSE
  /\ completions = <<>>
  /\ catalogue = NewCatalogue
  /\ ended = FALSE

InWindow(e, at) == Origin[e] =< at /\ at - Origin[e] =< Window
-----------------------------------------------------------------------------
\* The picks f counts over E.
Total(f, E) == Cardinality(UNION {{e} \X (1..f[e]) : e \in E})
Happened(at) == {e \in Events : Origin[e] =< at}
\* What observe tells the trigger, given the state `s` of every event.
Observation(s, at, recent, valued) ==
  LET pending == [e \in Events |-> Picks[e] - s[e].processed]
      ready   == [e \in Events |-> s[e].unswept]
  IN [pending   |-> Total(pending, Happened(at)),
      ready     |-> Total(ready, {e \in Events : InWindow(e, at)}),
      valued    |-> Total(pending, Happened(at) \cap valued),
      drained   |-> Len(recent),
      over      |-> IF at < DrainWindow THEN at ELSE DrainWindow,
      sinceLast |-> IF swept THEN at - lastSweep ELSE at]

Waited(limit, o) == limit > 0 /\ o.sinceLast >= limit

\* Whether clearing the backlog at the observed rate would pass Max.
WouldPass(t, o) ==
  /\ t.max > 0
  /\ o.sinceLast * o.drained + o.pending * o.over > t.max * o.drained

FixedDecides(t, o) == o.sinceLast >= t.every /\ o.ready > 0
WhenDrainedDecides_patient(t, o) == o.ready > 0 /\ o.pending = 0
WhenDrainedDecides(t, o) ==
  o.ready > 0 /\ (o.pending = 0 \/ Waited(t.deadline, o))
JustInTimeDecides(t, o) ==
  o.ready > 0 /\ (o.valued = 0 \/ Waited(t.deadline, o))
AdaptiveDecides(t, o) ==
  /\ o.ready > 0
  /\ t.min > 0 => o.sinceLast >= t.min
  /\ \/ Waited(t.max, o)
     \/ o.pending = 0
     \/ o.drained > 0 /\ WouldPass(t, o)

\* UnderPressure over the trigger it wraps.
UnderPressure(t, o) ==
  /\ t.backlog > 0 /\ o.ready >= t.backlog
  /\ t.floor > 0 => o.sinceLast >= t.floor

Decides(t, o) ==
  \/ t.kind = "fixed" /\ FixedDecides(t, o)
  \/ t.kind = "when-drained" /\ WhenDrainedDecides(t, o)
  \/ t.kind = "just-in-time" /\ JustInTimeDecides(t, o)
  \/ t.kind = "adaptive" /\ AdaptiveDecides(t, o)
  \/ t.kind # "none" /\ UnderPressure(t, o)
-----------------------------------------------------------------------------
Candidates(s, at) ==
  {e \in Events : InWindow(e, at) /\ s[e].unswept > 0 /\ s[e].processed >= MinimumPicks}

\* Advance's loop over what finished: picks counted, locates done with.
AfterFinished(picks, finished) ==
  [e \in Events |->
     [processed |-> state[e].processed + picks[e],
      unswept   |-> state[e].unswept + picks[e],
      located   |-> \/ state[e].located
                    \/ \E j \in Staged(finished, "locate") : j.event = e]]

\* step.Located: the events whose first locate finished.
NewlyLocated(finished) ==
  {e \in Events : ~state[e].located /\ \E j \in Staged(finished, "locate") : j.event = e}

Emitted(finished) ==
  UNION {{LocateJob(j.at, e) : e \in j.events} : j \in Staged(finished, "associate")}

Taken_lost(s, E) == [e \in Events |-> [s[e] EXCEPT !.unswept = 0]]
Taken(s, E) == [e \in Events |-> IF e \in E THEN [s[e] EXCEPT !.unswept = 0] ELSE s[e]]

\* The completions a trigger may still look at, with this interval's: they are
\* in order of time, so those too old are the first of them.
Recent(picks, at) ==
  LET drop == Cardinality({i \in DOMAIN completions : completions[i] + DrainWindow < at})
  IN SubSeq(completions, drop + 1, Len(completions)) \o [i \in 1..Total(picks, Events) |-> at]

\* The picks the queue may finish in an interval: any that have arrived.
Arrived(at) ==
  {picks \in [Events -> 0..Max({Picks[e] : e \in Events})] :
     \A e \in Events : /\ picks[e] =< Remaining(e, catalogue[e])
                       /\ picks[e] > 0 => Origin[e] =< at}

Tick == IF now < Horizon THEN now + 1 ELSE now

\* Replay is over once the scenario is, and nothing is left to run.
Over_early(at, jobs, records) ==
  at > Duration /\ \A e \in Events : AllProcessed(e, records[e])
Over(at, jobs, records) ==
  at > Duration /\ jobs = {} /\ \A e \in Events : AllProcessed(e, records[e])

(****************************************************************************)
(* One interval of simulate: the queue finishes picks and issued work,      *)
(* Advance turns it into more, and the catalogue is told of locates before  *)
(* it is told of picks.                                                     *)
(****************************************************************************)
Workflow(picks, finished, valued, at) ==
  LET s       == AfterFinished(picks, finished)
      recent  == Recent(picks, at)
      grouped == IF Decides(trigger, Observation(s, at, recent, valued))
                 THEN Candidates(s, at) ELSE {}
      sweep   == IF grouped = {} THEN {} ELSE {Associate(at, grouped)}
  IN /\ state' = Taken(s, grouped)
     /\ lastSweep' = IF grouped = {} THEN lastSweep ELSE at
     /\ swept' = (swept \/ grouped # {})
     /\ completions' = recent
     /\ issued' = (issued \ finished) \cup Emitted(finished) \cup sweep

Interval(picks, finished, valued) ==
  LET at == Tick
      located == IF Deferred THEN NewlyLocated(finished) ELSE {}
  IN /\ ~ended
     /\ now' = at
     /\ IF Deferred THEN Workflow(picks, finished, valued, at) ELSE UNCHANGED <<issued, workflow>>
     /\ catalogue' = [e \in Events |->
          Observe(e, Locate(e, catalogue[e], located, at), picks[e], at, Deferred)]
     /\ ended' = Over(at, issued', catalogue')
     /\ UNCHANGED trigger

Next ==
  \E picks \in Arrived(Tick), finished \in SUBSET issued, valued \in Valuations :
    Interval(picks, finished, valued)

Spec == Init /\ [][Next]_vars

\* The loop goes on.  At the Horizon an interval in which nothing finishes
\* changes nothing: fairness there says that a fleet holding work finishes some.
FairSpec == Spec /\ WF_vars(Next)
-----------------------------------------------------------------------------
Jobs == {Associate(t, E) : t \in 1..Horizon, E \in (SUBSET Events) \ {{}}}
        \cup {LocateJob(t, e) : t \in 1..Horizon, e \in Events}

\* Every variable holds what its Go counterpart may hold.
TypeOK ==
  /\ trigger \in Triggers
  /\ now \in 0..Horizon
  /\ issued \subseteq Jobs
  /\ state \in [Events -> [processed: Nat, unswept: Nat, located: BOOLEAN]]
  /\ lastSweep \in 0..now
  /\ swept \in BOOLEAN
  /\ completions \in Seq(0..now)
  /\ catalogue \in [Events -> EventRecord(0..now)]
  /\ ended \in BOOLEAN

\* The sweeps and locates under way for an event.
Under(e) ==
  {j \in Staged(issued, "associate") : e \in j.events}
    \cup {j \in Staged(issued, "locate") : j.event = e}

\* The workflow and the catalogue count picks and locations independently
\* (pipeline.go Advance, catalogue.go Observe and Locate): what one calls
\* located has a location in the other, although the catalogue refuses to
\* solve from too few picks and is told of locates before picks.
LocatedAgrees ==
  \A e \in Events :
    /\ Deferred => /\ state[e].processed = catalogue[e].processed
                   /\ state[e].located <=> catalogue[e].locatedAt # 0
    /\ catalogue[e].locatedAt # 0 => catalogue[e].located >= MinimumPicks

\* sweep zeroes unswept before the sweep has run: a pick that is counted
\* neither as unswept nor for a located event is in the hands of a sweep or a
\* locate still under way, so no event loses its location for good.
NothingForgotten ==
  Deferred => \A e \in Events :
    state[e].unswept < state[e].processed => state[e].located \/ Under(e) # {}

\* Sweeps overlap (pipeline.go sweep): each that takes an event up does so for
\* picks no earlier one had, so an event with nothing new is not located again
\* and its re-locates are bounded by its picks.
RelocatesNeedPicks ==
  \A e \in Events : Under(e) # {} =>
    Cardinality(Under(e)) + MinimumPicks =< state[e].processed - state[e].unswept + 1

\* A sweep takes up every pick once: none is dropped, none is swept again.
SweepsAreExact == NothingForgotten /\ RelocatesNeedPicks

\* The longest a trigger lets ready work wait, 0 where it names no limit.
Patience(t) ==
  IF t.kind = "fixed" THEN t.every
  ELSE IF t.kind = "adaptive" THEN t.max ELSE t.deadline

\* trigger.go's promise that waiting is bounded: whatever the backlog, the
\* drain rate, the values and the pressure, an event that could be located is
\* not left beyond the trigger's own limit since the last sweep.
WaitIsBounded ==
  ~ended /\ Patience(trigger) > 0 /\ Candidates(state, now) # {} =>
    (IF swept THEN now - lastSweep ELSE now) < Patience(trigger)

\* The catalogue's final location (catalogue.go solve) is from every pick, and
\* without a locate stage every event with the picks for it has one by the
\* time the replay ends.
FinalIsFromAll ==
  \A e \in Events :
    /\ catalogue[e].final > 0 =>
         catalogue[e].final = Picks[e] /\ catalogue[e].processedAt # 0
    /\ ended /\ ~Deferred /\ Picks[e] >= MinimumPicks => catalogue[e].final = Picks[e]

\* An event a sweep has taken up is located, whatever else is under way.
SweptIsLocated == \A e \in Events : Under(e) # {} ~> state[e].located

\* Sweeps and locates beget no work without end: the replay leaves its loop.
ReplayEnds == <>ended

\* What the workflow and the catalogue hold of an event is of a piece.
CatalogueAgrees == TypeOK /\ LocatedAgrees /\ FinalIsFromAll

\* Whatever the trigger, what was begun is finished and then all is over.
WorkEnds == SweptIsLocated /\ ReplayEnds
=============================================================================
