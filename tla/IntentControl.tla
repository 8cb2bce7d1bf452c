---------------------------- MODULE IntentControl ----------------------------
(****************************************************************************)
(* The intent of one run while it is in flight: the Control of              *)
(* internal/intent/control.go, the operators who change it through          *)
(* internal/api/intent.go, and the engine, which brings it up to date at    *)
(* the start of every cycle (applyIntent of internal/run/engine.go) and     *)
(* records what takes effect.  A run that has ended can be replayed: a new  *)
(* run gets the recorded changes as its schedule.                           *)
(*                                                                          *)
(* Each method of Control is one critical section and one step.  Of the     *)
(* settings two fields are kept, which are valid only together.             *)
(****************************************************************************)
EXTENDS Integers, Sequences, FiniteSets

CONSTANTS
  Operators, \* whoever sends requests
  Levels,    \* the priorities decay_to and promote_to may be set to
  Patches,   \* the patches operators send: functions of some of Fields
  Initial,   \* the settings the run is created with
  Planned,   \* the schedule it is created with
  MaxCycle,  \* bound on the cycles of a run
  MaxEdits   \* bound on the changes operators ask for

Fields   == {"decay_to", "promote_to"}
Settings == [Fields -> Levels]
Partial  == UNION {[F -> Levels] : F \in SUBSET Fields}
Sources  == {"initial", "schedule", "operator"}
Steps    == [cycle : Nat \ {0}, patch : Partial, version : Nat, source : Sources]

Valid(s)    == s["decay_to"] < s["promote_to"] \* IntentSettings.Validate
Apply(s, p) == [f \in Fields |-> IF f \in DOMAIN p THEN p[f] ELSE s[f]]

\* RunIntent.Validate: every step applies to what the steps before it left.
ValidFrom(s, steps) ==
  LET after[i \in 0 .. Len(steps)] ==
        IF i = 0 THEN s ELSE Apply(after[i - 1], steps[i].patch)
  IN \A i \in 0 .. Len(steps) : Valid(after[i])

ASSUME IntentAssumption ==
  /\ Levels \subseteq Int
  /\ Patches \subseteq Partial
  /\ Initial \in Settings /\ Valid(Initial)
  /\ Planned \in Seq(Steps) /\ ValidFrom(Initial, Planned)
  /\ \A i, j \in 1 .. Len(Planned) : i <= j => Planned[i].cycle <= Planned[j].cycle
  /\ MaxCycle \in Nat \ {0} /\ MaxEdits \in Nat

VARIABLES
  settings, version, source, \* the Control
  active,   \* whether the run is in Manager.intents
  view,     \* [Operators -> what getRunIntent last answered, version 0 if never]
  request,  \* [Operators -> the patchRunIntent request that found the Control]
  edits,    \* how many there were, of the run and its replay
  meddled,  \* whether this run had any (history)
  pc,       \* where in its cycle the engine is
  cycle,    \* sequence, the cycle it is in
  schedule, \* loop.schedule
  next,     \* loop.next
  read,     \* current, the settings a planned change is applied to
  applied,  \* loop.version
  planner,  \* the settings the planner acts on
  changes,  \* the rows of run_intent_changes
  original  \* those of the run this one replays; empty when it replays none

control == <<settings, version, source>>
people  == <<view, request, edits, meddled>>
loop    == <<schedule, next, read>>
effect  == <<applied, planner, changes>>
vars    == <<control, active, people, pc, cycle, loop, effect, original>>

NoView    == [version |-> 0, settings |-> Initial]
NoRequest == [patch |-> <<>>, expected |-> -1, seen |-> Initial]

\* The run as createRun, NewControl and newIntentLoop leave it.
Init ==
  /\ settings = Initial /\ version = 1 /\ source = "initial"
  /\ active = TRUE
  /\ view = [o \in Operators |-> NoView]
  /\ request = [o \in Operators |-> NoRequest] /\ edits = 0 /\ meddled = FALSE
  /\ pc = "plan" /\ cycle = 1
  /\ schedule = Planned /\ next = 1
  /\ read = [settings |-> Initial, source |-> "initial"]
  /\ applied = 0 /\ planner = Initial /\ changes = {}
  /\ original = {}

-----------------------------------------------------------------------------
\* Operators.  A request with expected 0 names no version.

Current(o) ==
  /\ active
  /\ view' = [view EXCEPT ![o] = [version |-> version, settings |-> settings]]
  /\ UNCHANGED <<control, active, request, edits, meddled, pc, cycle, loop, effect, original>>

\* patchRunIntent looks the Control up before it reads the patch; seen is what
\* the operator has seen of the settings (history).
Find(o, p, named) ==
  /\ active /\ edits < MaxEdits
  /\ request[o] = NoRequest
  /\ named => view[o] # NoView
  /\ request' = [request EXCEPT ![o] =
       [patch |-> p, expected |-> IF named THEN view[o].version ELSE 0,
        seen |-> view[o].settings]]
  /\ edits' = edits + 1 /\ meddled' = TRUE
  /\ UNCHANGED <<control, active, view, pc, cycle, loop, effect, original>>

Accepts_unchecked(r) == r.expected \in {0, version}

Accepts_older(r) ==
  /\ r.expected <= version
  /\ Valid(Apply(settings, r.patch))

\* Control.Patch accepts a change that is valid and not made against a stale
\* version.
Accepts(r) ==
  /\ r.expected \in {0, version}
  /\ Valid(Apply(settings, r.patch))

Patch(o) ==
  /\ request[o] # NoRequest
  /\ request' = [request EXCEPT ![o] = NoRequest]
  /\ \/ /\ Accepts(request[o])
        /\ settings' = Apply(settings, request[o].patch)
        /\ version' = version + 1 /\ source' = "operator"
     \/ ~Accepts(request[o]) /\ UNCHANGED control
  /\ UNCHANGED <<active, view, edits, meddled, pc, cycle, loop, effect, original>>

-----------------------------------------------------------------------------
\* The engine, cycle by cycle.

Due == next <= Len(schedule) /\ schedule[next].cycle <= cycle

At(from, to) == pc = from /\ pc' = to

ReadCurrent_initial ==
  /\ Due
  /\ At("plan", IF Valid(Apply(Initial, schedule[next].patch)) THEN "replay"
                ELSE "over")
  /\ next' = next + 1
  /\ read' = [read EXCEPT !.settings = Initial]
  /\ UNCHANGED <<control, active, people, cycle, schedule, effect, original>>

\* applyIntent takes the next planned change and reads the settings it is to
\* be applied to; the run fails when it does not apply.
ReadCurrent ==
  /\ Due
  /\ At("plan", IF Valid(Apply(settings, schedule[next].patch)) THEN "replay"
                ELSE "over")
  /\ next' = next + 1
  /\ read' = [read EXCEPT !.settings = settings]
  /\ UNCHANGED <<control, active, people, cycle, schedule, effect, original>>

\* Control.Replay of the step taken last: it keeps its version when it can.
Taken == schedule[next - 1]

ReplayedVersion(v) == IF v <= version THEN version + 1 ELSE v

Replay ==
  /\ At("replay", "plan")
  /\ settings' = Apply(read.settings, Taken.patch)
  /\ version' = ReplayedVersion(Taken.version)
  /\ source' = Taken.source
  /\ UNCHANGED <<active, people, cycle, loop, effect, original>>

TakeEffect_first ==
  /\ ~Due
  /\ At("plan", IF applied # 0 THEN "work" ELSE "record")
  /\ applied' = IF applied # 0 THEN applied ELSE version
  /\ planner' = IF applied # 0 THEN planner ELSE settings
  /\ read' = [settings |-> settings, source |-> source]
  /\ UNCHANGED <<control, active, people, cycle, schedule, next, changes, original>>

\* Current, then Configure when the version is not the one applied last.
TakeEffect ==
  /\ ~Due
  /\ At("plan", IF version = applied THEN "work" ELSE "record")
  /\ applied' = version
  /\ planner' = IF version = applied THEN planner ELSE settings
  /\ read' = [settings |-> settings, source |-> source]
  /\ UNCHANGED <<control, active, people, cycle, schedule, next, changes, original>>

Change_current == [version |-> version, cycle |-> cycle, settings |-> planner,
                   source |-> source]

\* SaveIntentChange inserts or replaces a version; the run fails with it.
Change == [version |-> applied, cycle |-> cycle, settings |-> planner,
           source |-> read.source]

SaveIntentChange ==
  /\ \/ /\ At("record", "work")
        /\ changes' = {c \in changes : c.version # applied} \cup {Change}
     \/ At("record", "over") /\ UNCHANGED changes
  /\ UNCHANGED <<control, active, people, cycle, loop, applied, planner, original>>

\* The rest of the cycle, after which the run goes on, is over or has failed.
Work ==
  /\ \/ At("work", "plan") /\ cycle < MaxCycle /\ cycle' = cycle + 1
     \/ At("work", "over") /\ UNCHANGED cycle
  /\ UNCHANGED <<control, active, people, loop, effect, original>>

\* The goroutine of Manager.Start unwinds.
Unwind ==
  /\ pc = "over" /\ active
  /\ active' = FALSE
  /\ UNCHANGED <<control, people, pc, cycle, loop, effect, original>>

-----------------------------------------------------------------------------
\* A replay: a new run with the settings of the first change, and the others
\* as its schedule, each with the version and the source it had.

First == CHOOSE c \in changes : \A d \in changes : c.version <= d.version

Step_unversioned(c) ==
  [cycle |-> c.cycle, patch |-> c.settings, version |-> 0, source |-> c.source]

Step(c) == [cycle |-> c.cycle, patch |-> c.settings, version |-> c.version,
            source |-> c.source]

\* The one sequence of these changes that IntentChanges lists: by version.
Schedules(cs) ==
  {s \in [1 .. Cardinality(cs) -> {Step(c) : c \in cs}] :
     \A i, j \in DOMAIN s : i < j => s[i].version < s[j].version}

StartReplay ==
  /\ ~active /\ original = {} /\ changes # {}
  /\ \A o \in Operators : request[o] = NoRequest
  /\ settings' = First.settings /\ version' = 1 /\ source' = "initial"
  /\ active' = TRUE
  /\ view' = [o \in Operators |-> NoView] /\ meddled' = FALSE
  /\ pc' = "plan" /\ cycle' = 1
  /\ schedule' \in Schedules(changes \ {First}) /\ next' = 1
  /\ read' = [settings |-> First.settings, source |-> "initial"]
  /\ applied' = 0 /\ planner' = First.settings /\ changes' = {}
  /\ original' = changes
  /\ UNCHANGED <<request, edits>>

-----------------------------------------------------------------------------
Engine == ReadCurrent \/ Replay \/ TakeEffect \/ SaveIntentChange \/ Work \/ Unwind

Operator(o) ==
  \/ Current(o) \/ Patch(o)
  \/ \E p \in Patches, named \in BOOLEAN : Find(o, p, named)

Next == Engine \/ StartReplay \/ \E o \in Operators : Operator(o)
Spec == Init /\ [][Next]_vars

-----------------------------------------------------------------------------
(* Properties. *)

Changes == [version : Nat, cycle : 1 .. MaxCycle, settings : Settings,
            source : Sources]

\* Every variable stays in its range, and the settings in force are usable.
TypeOK ==
  /\ settings \in Settings /\ Valid(settings)
  /\ version \in Nat \ {0} /\ source \in Sources
  /\ active \in BOOLEAN
  /\ \A o \in Operators :
       /\ view[o].version \in Nat /\ view[o].settings \in Settings
       /\ request[o] = NoRequest \/ request[o].patch \in Patches
  /\ edits \in 0 .. MaxEdits /\ meddled \in BOOLEAN
  /\ pc \in {"plan", "replay", "record", "work", "over"}
  /\ cycle \in 1 .. MaxCycle
  /\ next \in 1 .. Len(schedule) + 1
  /\ applied \in 0 .. version /\ planner \in Settings
  /\ changes \subseteq Changes /\ original \subseteq Changes

\* A change that names the version it was made against is accepted only while
\* the settings are those its operator saw: two operators who do, and the
\* engine's replays between them, cannot silently overwrite each other.
NoSilentOverwrite == [][\A o \in Operators :
  request'[o] = NoRequest /\ request[o].expected > 0 /\ version' # version
    => settings = request[o].seen]_vars

\* The settings a cycle works under are those of the latest recorded change,
\* recorded with this cycle or an earlier one, and cycles and versions grow
\* together: every version that takes effect is recorded with its cycle.
EffectIsRecorded ==
  /\ pc = "work" => \E c \in changes :
       /\ c.version = applied /\ c.settings = planner
       /\ \A d \in changes : d.version <= c.version
  /\ \A c, d \in changes : c.version < d.version <=> c.cycle < d.cycle

\* A change of intent, planned or asked for, alters only what it names: what
\* others changed before it stands.
NoChangeLost ==
  [][pc = "replay" /\ pc' = "plan" => settings' = Apply(settings, Taken.patch)]_vars

\* As long as no operator changes it, a replay works under the same settings in
\* the same cycles, and from its second cycle on records them with the same
\* versions and sources.
ReplayActsTheSame == original # {} /\ ~meddled /\ pc = "work" =>
  LET past == {c \in original : c.cycle <= cycle}
  IN /\ {<<c.cycle, c.settings>> : c \in changes} = {<<c.cycle, c.settings>> : c \in past}
     /\ {c \in changes : c.cycle > 1} = {c \in past : c.cycle > 1}

\* A schedule checked when the run was created applies while the run is in
\* flight, unless an operator changed what it is applied to.
ScheduleApplies ==
  [][pc = "plan" /\ pc' = "over" => edits > 0 /\ original = {}]_vars

\* A change takes effect at the start of the next cycle: every cycle that
\* begins after a change was accepted works under that change or a later one.
ChangesTakeEffect == \A v \in 2 .. 1 + MaxEdits, c \in 1 .. MaxCycle - 1 :
  [](version >= v /\ cycle = c =>
       [](original = {} /\ cycle > c /\ pc = "work" => applied >= v))
=============================================================================
