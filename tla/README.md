# A TLA+ verification project for simlab-api

simlab-api replays seismic-processing workloads and asks a real autoscaler, cycle by cycle, how many
executors to run. This directory holds TLA+ modules translated from its source, TLC configurations that
check them on small instances, and theorems about them checked by TLAPS.

- `PROJECT.json` lists the components, the runs, which definition models which lines (`map`), the
  hazards with the properties that would catch them, the mutants that show each property can fail, the
  findings and the theorems.
- To check a run: `tlc -config MCRuns_pair.cfg MCRuns`. To check the proofs: `tlapm RunsProofs.tla`.

Paths below are relative to `src/`.

## 1. The system

| part | state it keeps | operations | called by |
|---|---|---|---|
| api (`internal/api`) | open event streams | handlers to create, cancel, delete and watch runs, to read and patch intent, to save scenarios and settings | clients, each request on a goroutine of its own |
| app (`internal/app`) | the HTTP server | serve, then shut down in two stages: the server (30 s), then the runs | the process |
| runner (`internal/runner`) | `active`, `intents` and `done` by run, a wait group | `Start`, `Cancel`, `IsActive`, `Active`, `Intent`, `Done`, `Prepare`, `Shutdown` | api, app |
| run engine (`internal/run`) | local to a run: queue, catalogue, pipeline, planner, metrics | `Execute`, which goes to `simulate` or `observe`; one cycle is intent, decision, interval, record | runner, one goroutine per run |
| queue (`internal/queue`) | the job log and submitted work, levels, what is in progress, counters | `New`, `Advance`, `Submit`, `Reprioritise`, two snapshots, reports | engine, through orchestrator |
| pipeline (`internal/pipeline`) | what is waiting to be swept and located | five triggers, `Advance`, which turns finished jobs into new ones | engine |
| catalogue (`internal/workload/catalogue.go`) | per event, the picks done, the estimate and what intent did | `Complete`, `RecordIntent` | engine |
| intent control (`internal/intent/control.go`) | settings, version, source | `Current`, `Patch`, `Replay` | api (patches), engine (once a cycle) |
| intent planner (`internal/intent/planner.go`) | judgements and requested priorities by event | `Configure`, `Plan`, locating | engine |
| orchestrator (`internal/orchestrator`) | what it was granted | `Restrict` and the forwarded operations | engine |
| events hub (`internal/events`) | subscribers by run, each with a bounded buffer | `Publish`, `Subscribe`, unsubscribe | engine, api |
| store (`internal/store`) | the Postgres tables and their migrations | one statement or transaction per method | all |
| autoscaler client (`internal/autoscaler`) | none | targets, plans, decisions over HTTP | engine, api |
| mine (`mineplan`) | a graph of the tunnels, measured once | shortest routes, ground within reach, faces | generation, observe |
| generation (`workload`, `activity`, `seismic`, `hazard`) | pure functions of a scenario and a seed | build jobs, events, shifts, blasts, everyone's tracks | engine, once per run |
| observe (`internal/observe`) | the tracks, the mine's graph | where units are, and where they could be by the end of a lookahead | planner, api |
| use cases (`internal/usecase`) | none: pure functions of a run's record | what had to be decided when, whether the mine knew in time, what ground to close | api |
| domain (`internal/domain`) | types | validation, patching | all |

How they interact. `createRun` stores the run, then its intent, has the runner prepare it and starts it;
the request is answered while the engine goes on in its own goroutine with a context of its own.
The engine writes status, cycles, metrics and intent changes to the store, creates a target of its own
in the autoscaler, and removes it when it returns. Operators reach a run in flight through the runner's maps:
`Cancel` cancels its context, `patchRunIntent` changes its `Control`, which the engine reads at the next
cycle. The queue, the pipeline and the planner belong to the engine's goroutine alone.

### What is hard about it, and what would make it correct

- **Queue**: one goroutine, but long histories. Jobs move between levels, start, are stranded by a scale-down
  and finish. The counters are kept at many different lines; the scan for breaches stops early; the order of a
  level is what three functions rely on. Correct means: no job lost or duplicated, every counter counts what its
  name says, levels in deadline order, verdicts settled once given, and the two halves the autoscaler sees add
  up to the queue.
- **Runner, engine, api, app, store**: requests, engines and the shutdown interleave; every call may fail or be
  answered late; the process may be killed. Correct means: the maps say what is in flight, the record of a run
  moves forward and never lies, no run is shown as running with nobody at work on it, targets are removed, a
  cancelled run ends, a shutdown loses nothing.
- **Intent control**: several operators and the engine's schedule change the same settings; a cycle sees one
  version. Correct means: no silent overwrite, what takes effect is recorded, a replay acts the same.
- **Pipeline and catalogue**: sweeps overlap, triggers wait for a backlog or a deadline, locates finish in any
  order. Correct means: every pick is swept once, each event is located when it should be, and the two
  components, which count picks independently, agree.
- **Planner**: judgements are skipped while nothing can have changed, and requests are remembered rather than
  read back. Correct means: the same judgements as judging everything every cycle, nobody relaxed who is in
  reach, and everything undone when intent is switched off.
- **Hub, streams and pages**: watchers fall behind, come and go while a run publishes; pages build the same view
  twice. Correct means: no send on a closed channel, no run held up, nothing missed by a client that reads the
  record back, a cache that holds what it says.
- **Use cases**: what a decision needed and when it had it is read out of a run's record. Correct means: every
  crossing found, the map closes what the mine knew, its measures add up, and an answer given stands.
- **Mine, activity and movement**: routes, reachable ground, shifts, blasts and crews. Correct means: routes are
  shortest, ground is exact, nobody leaves the ground they are judged by, and crews are out while it is blasted.
- **Migrations**: two instances may start at once.

## 2. Modules

| module | models | built on |
|---|---|---|
| `Fleet` | abstract: what a fleet of executors does to a run's work | |
| `Queue` | `internal/queue/queue.go` | refines `Fleet` |
| `QueueProofs` | theorems about `Spec` of `Queue`: no job lost, every account right, the order of levels and what relies on it, the refinement | `Queue` |
| `RunRecord` | abstract: what the `runs` table promises its readers | |
| `Runs` | the life of a run: handlers, runner, engine, targets, shutdown, crash, restart | refines `RunRecord` |
| `RunsProofs` | theorems about `Spec` of `Runs`, the refinement included | `Runs` |
| `IntentControl` | the control, the operators, `applyIntent`, the record of changes and its replay | |
| `IntentProofs` | theorems about `Spec` of `IntentControl` | `IntentControl` |
| `Catalogue` | `internal/workload/catalogue.go`, as operators on an event's record | |
| `Pipeline` | `internal/pipeline`, composed with the catalogue and any queue as `simulate` does | `Catalogue` |
| `PipelineProofs` | theorems about `Spec` of `Pipeline` | `Pipeline` |
| `Whereabouts` | `internal/observe`, as operators over a straight drift | |
| `Planner` | `internal/intent/planner.go` and `space.go`, composed with the queue's answer | `Whereabouts` |
| `PlannerProofs` | how positions, routes and reaches move, and theorems about `Spec` of `Planner` | `Planner` |
| `UseCases` | `internal/usecase`: decisions about units | `Catalogue`, `Whereabouts` |
| `Closure` | `internal/usecase/closure.go`: the closure map | `UseCases` |
| `ClosureProofs` | theorems about `Spec` of `Closure`, on what the use cases read and answer | `Closure` |
| `Hub` | `internal/events/hub.go` and the streams served from it | |
| `Watch` | runs that record and publish, live targets observed, pages and the cache of views | `Hub` |
| `WatchProofs` | theorems about `Spec` of `Watch` | `Watch` |
| `Network` | `internal/mineplan`: graph, routes, reach, faces | |
| `Workings` | `internal/activity` and `internal/workload/workforce.go` | `Network` |
| `WorkingsProofs` | theorems about `Spec` of `Workings`, the network's first | `Workings` |
| `MCQueue`, `MCRuns`, `MCIntentControl`, `MCPipeline`, `MCPlanner`, `MCClosure`, `MCWatch`, `MCWorkings` | instances for TLC | the module each is named for |

A configuration is named after its MC module, with the run's name where a module has several.

### 2.1 Queue

State. A job is its number (`generate.go` numbers the log in submission order and `pipeline.go` goes on
from there). `job[j]` is the `queued` record; `levels` and `ahead` are the levels, each as a set and the order
within it, which makes `merge` and `countBreaches` plain set definitions; `running` and `todo` are the
list in progress while `serve` goes through it; `log` and `tail` are what has not been admitted of the two
streams; `stats` and `exemptWaiting` are the counters; `pc` and `call` are the loop a call is in and its
locals. `finished` and `reported` keep what calls returned.

Actions. A call is a sequence of steps, one per iteration of its loops: `Advance`; `AdmitArrival`,
`AdmitSubmitted`, `ArrivalsOver`; `ServeRunning`, `RunningServed`; `ServeWaiting`, `WaitingServed`;
`CountBreaches`. `Reprioritise` is `Update` for each update of the batch and `MergeMovers`. `Submit` is one job
at a time, a batch being several. The snapshots are operators.

Simplifications. Durations and executor-seconds are natural numbers of one unit. The wait statistics, the
counts of `Applied`, the `recent` slice that only feeds a rate, and the reports `Waiting` and
`DepthBySubmittedPriority` are not modelled; they read what is modelled and change none of it.

Runs.

| run | instance | shows |
|---|---|---|
| `queue_intent` | 3 jobs of the log (one longer than an interval), 2 levels, one with a deadline of its own, 3 instants, fleets of -1 and 2, up to 2 updates between two intervals, any job to any level, exempt or not, deadline restarted or not | nothing is lost, levels stay in order, the accounts agree and verdicts stand, whatever intent does between intervals |
| `queue_workflow` | 2 jobs of the log, 2 submitted at any instant, fleets of 0 to 2, no updates | nothing lost when a fleet shrinks to none in the middle of the work, reports add up, `Fleet` is implemented, and every call returns |

`Fleet` is the abstract specification: a job is coming, waiting, working, due (working, with its turn in this
interval still to come) or done; an interval serves what is due before what waits, each job once and for no
longer than the interval, and is over only when the budget is spent or nobody waits. It knows no level, order,
deadline or counter. `ServesAsAFleet` says that `Queue` implements it under `PlaceOf` and `LeftOf`: what is in
progress is due from `Advance` until `serve` has come to it, and what a spent budget leaves untouched goes back
to working.

`NoJobLost` puts every job in exactly one place. `LevelsInOrder` is `LevelsAreQueues`, `DeadlineOrder` and `MostUrgentFirst` (what is
started is more urgent than all that is left). `AccountsAgree` is `CountersMatchJobs` (with `ExemptCounted`, about the counter that decides how the autoscaler's
view is split), `VerdictsAgree` (the two
verdicts agree unless something moved the job), `BurstSplit` (the two halves shown to the autoscaler add up) and
`ReceivingIsVisible`. `OverdueIsCounted` says that the early stop of the scan misses nobody, `StartedIsSettled`
that a verdict once given stands. `ServingAddsUp` is `NoJobLost`, `NoOvercommit`, `ReportsAddUp` and
`VerdictsAgree` with work submitted in flight.

Why the bounds are enough. Order, merging and early stopping need two jobs in a level and one
that moves past them; a third job of another length makes a scale-down strand one and keep another. Two updates
cover a job that moves away and back in one batch. An instant of double length lets more than one
job of a level become late between two scans. Nothing in the code depends on more than the head of a level and
its neighbour, or on more than two levels.

Fairness: `WF_vars(Steps)`. A call by the one goroutine that owns the simulator runs to its end. No
configuration of the queue checks deadlock: the clock ends at the last instant.

### 2.2 Runs, and the record they refine

State. `row` is the status column, `measured` the runs with a metrics row, `handler` how far
each `createRun` has got, `deleting` the deletions between their check and their statement, `active`, `intents`,
`cancelled`, `joined` the runner's maps, contexts and wait group, `pc`, `result` and `cycles` the engine's
goroutine, `target` the autoscaler's side, `service` the state of `app.Run`. Three history variables
name a failure for the properties: `unrecorded`, `unanswered` and `unremoved`.

Actions. One step is a critical section or one call of the store or the autoscaler, and every call may fail.
`createRun` is `SaveRun`, `SaveIntent`, `Prepare`, `Register`, `Launch`, `Answer`, with `Refuse` for what fails.
`Register` and `Launch` are the two halves of `Manager.Start`: the map is written under the lock, the wait group
joined after it. `deleteRun` is `CheckDelete` and `DeleteRun`. The engine is `Begin`, `SendCreate` to
`NotCreated`, `Setup`, `NextCycle` and `Interval` or their failures, `Drain`, `RemoveTarget` (the deferred
call), `Decide` (the switch of `Execute`), `SaveMetrics`, `Record`, and the goroutine's deferred `Unwind` and
`Leave`. `app.Run` is `StopServing`, `CancelAll`, `Exit`, `TimeOut` and `ServerFails`; `Crash` may come at any
time, and `Restart` starts a new process on the same tables, which resumes nothing.

`RunRecord` is the abstract specification: pending, perhaps running, one end, `cancelled` only if
somebody asked for it, deleted at any time. `RecordMovesForward` says that `Runs` implements it
with `status <- row` and `asked <- cancelled`.

Runs.

| run | instance | shows |
|---|---|---|
| `runs_pair` | a simulation and a live run in one process until its shutdown, no streams, 1 cycle | the registry, the wait group, the record, the metrics and the targets agree, whatever the two runs, their requests and the shutdown do to each other |
| `runs_life` | one run, a simulation of up to 2 cycles or a live run, one stream, any number of crashes, shutdowns and restarts | a cancelled run ends, a simulation ends (`RunsEnd`), a service asked to stop stops (`ServiceStops`) |

Why the bounds are enough. Two runs meet only in the maps, the wait group and the shutdown; one of each mode
covers both engines. Cycle bounds of 1 and 2 have the engine meet its limit before, at and after
draining. A live run has no bound of its own: nothing but its cancellation, a failed call or the end of the process
ends it, so in `runs_life` it is the case in which `RunsEnd` rests on the engine looking at its context. `runs_pair` has no crashes and no streams, to keep two runs within reach; the theorems
below prove its invariants with both, for any number of runs.

Fairness: weakly fair `Handler(r)`, `Engine(r)` for every run and `Finish`. Go runs every goroutine that
can run; a call of the autoscaler ends by the client's timeout; a call of the store is assumed to be
answered or to fail; the 30 seconds of `server.Shutdown` pass. Requests, streams, crashes and restarts
are not fair. `AutoscalerCreates` is not fair either: a request on its way may never arrive.
With streams that may stay open for ever, `ServiceStops` holds only because of the time limit.

Left out: that `Execute` validates the run once more and returns without recording anything when it is not valid
(`engine.go:160-162`). It cannot happen: `createRun` validates the same run before it is stored, and so do `SaveRun`
and the checks of the table. `ServiceStops` counts runs that are abandoned as stopped, since the process ends;
that they are abandoned after the time limit is in section 4.

Worth knowing: nobody can slip past the wait group although `wg.Add(1)` comes after the
lock is released, because `manager.Shutdown` is called only after `server.Shutdown` has waited for every
handler (`ShutdownLosesNothing`, proved).

### 2.3 IntentControl

State. `settings`, `version`, `source` are the `Control`; `view` is what each operator's last GET answered,
`request` a PATCH that has found the control and not yet locked it; `pc`, `cycle`, `schedule`, `next`, `read`,
`applied` are `applyIntent`'s locals and loop; `planner` is what `Configure` was last given; `changes` is
`run_intent_changes`; `original` is that table of the run being replayed, and `meddled` is a history variable that
says whether an operator has asked for a change in the run in flight. Of the settings two fields are kept,
`decay_to` and `promote_to`, which are valid only together (`DecayTo < PromoteTo`): that is what makes a patch
that was valid become invalid, and a patch of one field keep the other.

Actions. `Current`, `Find` and `Patch` for operators. In the engine `ReadCurrent` (takes a due step
of the schedule and reads), `Replay`, `TakeEffect`, `SaveIntentChange` (may fail), `Work` and `Unwind`.
`StartReplay` starts a run from the recorded changes, as
`TestAnOperatorsChangeIsRecordedAndReplaysExactly` does. A failed `SaveIntentChange` ends the run with the
table as it was; what is left in doubt is only whether the row of a run that failed exists.

Runs.

| run | instance | shows |
|---|---|---|
| `intent` | 2 operators, 3 patches, up to 2 accepted changes, a schedule with steps at cycles 2 and 3, 3 cycles, then a replay of what was recorded, operators acting on either | `EffectIsRecorded`, `NoSilentOverwrite`, `ReplayActsTheSame`, `ChangesTakeEffect`; and `ScheduleApplies`: only an operator can make a planned step fail |
| `intent_lost` | 1 operator and a schedule | finding 1 |

Why the bounds are enough. Two operators who have seen the same version, and the engine's own change between
them, are all that a conflict needs. Three cycles have one before the schedule, and a replay repeats as the first step of
its schedule what the run began with. A replayed change brings the version it had, which an operator may have
passed meanwhile: so operators act on a replay as on any run, the bound of 2 being on accepted changes of
both together, and `ReplayActsTheSame` is about the replays nobody meddles with. That versions still increase in the
others, and that nothing is overwritten in them, is `EffectIsRecorded` and `NoSilentOverwrite`.

These runs assume no fairness: every property is a safety property (`ChangesTakeEffect` is one written with
nested `[]`). Deadlock is not checked, since a run and its replay end.

### 2.4 Catalogue and Pipeline

State. `Catalogue` is one record per event with the operators `Observe`, `Locate` and `Solve` on it; a location
is how many picks it was solved from. `Pipeline` has `state` (per event: processed, unswept, located), `issued`
(the sweeps and locates under way), `lastSweep`, `swept`, `completions`, the catalogue's records, and the
instant.

Actions. One step, `Interval`, is one turn of the loop of `simulate`: any of the work the queue holds finishes,
the catalogue observes it, the workflow's `Advance` counts picks, has finished sweeps emit locates, and asks the
trigger whether to sweep. The five triggers, `UnderPressure` included, are operators on the observation the code
hands them.

Run `pipeline`: two events of 3 and 2 picks (two are enough for a location), the second in the window of the
first, seven triggers, a window of 3 intervals, a clock of 6. It shows `CatalogueAgrees` (the workflow and the
catalogue count the same picks and agree on what is located), `SweepsAreExact` (overlapping sweeps forget no
pick and take none up twice), `WaitIsBounded` (no trigger leaves work that could be located beyond its own
limit) and `WorkEnds` (what a sweep takes up is located and the replay leaves its loop). Three picks are one
more than a location takes, so that an event is located again; two events are one that a sweep has and one it
comes too early for.

Fairness: `WF_vars(Next)`. The engine's loop goes on, and a fleet that holds work finishes some; at the horizon
an interval in which nothing finishes changes nothing, so that is all the fairness says.

### 2.5 Whereabouts and Planner

State. `Whereabouts` has both views of where units are: the oracle reads tracks, the mine a vehicle's route and
how far a person could walk. The mine is one straight drift, so a place is a number; 2.8 has the network.
`Planner` has the planner's fields under their names (`next`, `open`, `judged`, `struck`, `requested`,
`altered`), what the queue holds (`held`), what the record was told (`told`), the settings in force and their
generation.

Actions. One step, `Cycle`, is one cycle of the engine: some work starts and finishes, the catalogue learns a
location, `Configure` may put other settings in force, `Plan` considers the open events in order, and the queue
does what it still can.

Run `planner`: a drift of nine places, a person and a vehicle in two worlds, events of 3 and 1 picks, four
settings (decay by estimate, off, oracle with both, before location) changed once at any cycle, five cycles.
`JudgementsAreCurrent` compares what the planner believes with judging every open event afresh in every cycle:
skipping settled judgements loses nothing. `ProtectedIsNotRelaxed` is what intent is for, stated of the tracks
themselves: waiting work of an event within reach of someone protected is not relaxed. `PlannerKeepsTrack` is
about what it remembers: `altered` counts what it says, what was asked is what the queue holds, and intent
switched off undoes everything.

`PlannerAssumption` and `WhereaboutsAssumption` are what the code relies on without saying it: the drift has no
holes and the units are finitely many; nothing in the mine is as far as `math.Inf`; a zone has a radius or is
not there; a person walks no faster than `workload.WalkingSpeed`, at which `workforce.go` moves every person;
and a location never falls on the sensor that came first, since a judgement is recognised by its position.

### 2.6 UseCases and Closure

State. `tracks`, the `question` asked, whether there is a locate stage, and the catalogue's `record` as the run
fills it in. Everything else is a pure operator of these, as in the code: needs and when they are met, crossings
of a zone, the three kinds of decision, and the closure map with its spans, merging, intersection, completion
and peak.

Run `closure`: nine places, two units in three worlds, three questions, intervals of 2 up to 10.
`DecisionsAreRight`: crossings found leg by leg are those found instant by instant, everybody who is in a zone
while it matters is decided about once, what closed before it opened is lost. `MapIsRight`: the map closes what
the mine had at each instant, its sums are what counting instants gives, ground was first all closed when it
says, and the peak is no less than what was ever closed at once, and no more than what was closed midway through some
instant, once the samples up to one have closed and opened theirs. `NothingIsRewritten`: what a run records later never
changes when a need was met, nor redraws the map of what is past, nor moves when ground was first all closed, once
that is past. It says "past" because the map of a run in flight also answers for instants still to come, and a
location that is found before them moves the ground; without it the property is false and cannot be proved. The first event's final location corrects its first and the second has only
one; the units pass through, stand in a zone, turn back inside or never get there.

Simplifications. The drift is straight and a leg is walked at one place an instant, or stood still
(`UseCasesAssumption`, which also has finitely many events and places), so that the root of `surface`'s quadratic
is a whole instant and not a fraction to be rounded.

### 2.7 Hub and Watch

State. `Hub` is the subscribers, their bounded channels, each publisher's call in progress and each request's
progress through the lock: a `sync.RWMutex` in which a waiting writer holds up further readers. `Watch` adds the
engines (`pc`, `cycles`, what is `recorded`, the mine as it is recorded in three calls), the live target's
decisions, and pages with the cache of views.

Actions. `Enter`, `Deliver` (one turn of the loop of `Publish`, in any order) and leaving; `Ask`, `Subscribe`,
`Unsubscribe`, `Receive`. A run is `Begin`, `SaveMine` three times, `Cycle` or `Observe`, `Drain`,
`LosesAnswer`, `Fails`, `End`; a page is `Look`, `ReadLayout`, `ReadEntities`, `Keep`; `Reread` is a client that
reads the record back after subscribing.

Runs `watch` and `watch_ground`: five scenes (a simulation or a live run with one stream and failing calls; one
with two streams; both with one stream of everything; a simulation and two finished runs with two pages),
channels with room for one event, a cache of two views, one cycle, two decisions of a live target, at one instant or
at two, before, after or between the polls of the run. `StreamsAreTrue` (no send on a
closed channel; what is sent is recorded; a client that re-reads misses nothing), `CacheIsSound`,
`RunIsNotHeldUp`; `watch_ground` is finding 2. Room for one event is already too little; a cache of two meets
its third run. The scenes keep apart what does not interact: pages never touch the hub.
Runs are not deleted here: of a deleted run the cache goes on answering with the views it has, whose mine no longer
changes, until others take its place (`api/ground.go:75`).

Fairness: weakly fair per engine, per publisher and per request that waits for the lock, all goroutines Go schedules.
Clients are not fair: one may never read nor leave.

### 2.8 Network and Workings

State. `tunnels`, their `graph`, the `search` under way and the `routes` already found; then the `plan` of
activity (shifts, blasts, evacuations) and one unit with where it is, its time and its track.

Actions. `Settle` is one turn of the loop of `Routes`, `Searched` the next node's turn in `NewReach`. `NewPlan`
takes any order of the faces. `Start` and `Wander`, `Haul`, `Clear`, `Work` are the turns of `travel` with each
chooser of `workforce.go`; every draw is a choice. Units draw from generators of their own and never meet, so
one at a time is enough. `To`, `NearestLeg`, `Within` and `PositionAt` are operators.

Run `workings`: a level with a loop, two levels joined by a ramp, a mine in two parts, and one that nobody
works; two kinds of activity; two days of 64 instants, of about five minutes. `MeasuresAreExact`: what the
search finds of each pair of nodes, and the ground `Within` returns around every place, are what walking place
by place gives. `GroundHoldsThePerson`: wherever a person goes, a lookahead later they are on ground they were
judged by. `CrewsStayOut`: from when the last crew has walked out until re-entry, no crew is near production, on
any day. It says "has walked out" and not "clearing begins" because of the observation in section 4. It is about mines
that are `Connected` and `Served`, as `mineplan.Generate` makes them (`mineplan/mineplan.go:118-150`: every
level's station joins its drive, which its crosscuts join): without a station on its level a crew goes to
`Tip`, and without a way it stays where it is. Three of the four mines are in one piece, two of them have faces.
Since a crew is at a face to begin with, however soon the first blast, `Emptied` counts from `e.clear - Lead` or from
the start, whichever is later.

Simplifications. Points are on a lattice and legs along its axes, so lengths are whole, and a pace divides every leg:
the rounding of waypoints is left out. `NetworkAssumption` says so, and that tunnels meet at vertices alone, as
`NewGraph` has it, that there is a tunnel to walk, and that no way is as far as `math.Inf`.
`WorkingsAssumption` adds what the code takes for granted: every unit stays somewhere for a time and for no longer
than some longest time, a day's first blast is within the day, a window for several blasts has an interval
between them, and nobody walks as far as `math.Inf` in a lookahead. A window may go on after midnight, and the
first kind of activity has one that does.

## 3. What is proved

TLAPS proves the following for every value of the constants that satisfies the modules' named assumptions
(`JobsAssumption`, `LevelsAssumption`, `BoundsAssumption`; `RunsAssumption`; `IntentAssumption`;
`CatalogueAssumption`, `PipelineAssumption`; `WhereaboutsAssumption`, `PlannerAssumption`; `UseCasesAssumption`;
`HubAssumption`, `WatchAssumption`; `NetworkAssumption`, `WorkingsAssumption`), which TLC evaluates on the
instances above.

| module | theorem | says |
|---|---|---|
| `QueueProofs` | `TypeCorrect` | `Spec => []TypeOK`: no remaining time, budget or counter goes below zero |
| | `EveryJobAccountedFor`, `ExemptNeverDrifts` | `NoJobLost`, `ExemptCounted` |
| | `AccountsHold` | the inductive accounts, half-way through every loop too |
| | `ServingIsRight`, `CountersAreRight` | `ServingAddsUp`; `CountersMatchJobs` |
| | `SettledStays` | `Spec => StartedIsSettled`: a verdict once given stands |
| | `LevelsStayQueues` | `LevelsAreQueues`, whatever is submitted and updated |
| | `FleetRefined` | `Spec => ServesAsAFleet`: `Queue` implements `Fleet`, whatever is called in whatever order |
| | `LevelsKeepOrder`, `AccountsAreRight`, `NoBreachIsMissed` | `LevelsInOrder`, `AccountsAgree`, `OverdueIsCounted`, where nothing is submitted |
| `RunsProofs` | `TypeCorrect`, `RegistryIsRight`, `NoRunIsStuck`, `CompletionIsMeasured`, `TargetsAreOwned` | the state invariants of `Runs`, for any number of runs |
| | `ShutdownIsClean` | `Spec => ShutdownLosesNothing` |
| | `Refinement` | `Spec => RecordMovesForward`: `Runs` implements `RunRecord` |
| `IntentProofs` | `TypeCorrect`, `RecordIsComplete` | `TypeOK`, the settings in force are always usable; `EffectIsRecorded` |
| | `VersionsGuard`, `ChangesAreTakenUp` | `NoSilentOverwrite`, `ChangesTakeEffect` |
| | `ReplayIsFaithful` | `Spec => []ReplayActsTheSame`, for a run and a replay of any length |
| | `SchedulesApply` | `Spec => ScheduleApplies`, for a schedule of any length |
| `PipelineProofs` | `Catalogues`, `Sweeps`, `Waits` | `CatalogueAgrees`, `SweepsAreExact`, `WaitIsBounded`, for any events, picks and trigger |
| `PlannerProofs` | `ReachMoves` | in an instant the ground units may come to gains nothing farther from what it was than the fastest of them moves |
| | `InReach` | wherever a unit will be within the lookahead is ground it may come to, as either view has it |
| | `RequestsAreTracked` | `PlannerKeepsTrack`, for any events, settings and number of cycles |
| | `SettledIsCurrent` | `JudgementsAreCurrent`: skipping what is settled loses nothing, however long it is skipped |
| | `NobodyProtectedIsForgotten` | `ProtectedIsNotRelaxed`: no work of an event within reach of someone protected is relaxed |
| `ClosureProofs` | `RecordsHold` | at every moment of every run, each event's record is what picks and locates made of it |
| | `DecisionsHold` | `DecisionsAreRight`, for any events, tracks and question |
| | `MapHolds` | `MapIsRight`: no time is closed twice, lost or invented, the peak hides nothing, and it makes up nothing but where spans touch |
| | `AnswersStand` | `Spec => NothingIsRewritten` |
| `WatchProofs` | `Streams`, `Cache` | `StreamsAreTrue`, `CacheIsSound`, for any number of runs, streams and pages |
| `WorkingsProofs` | `NetworkIsSound` | `Spec => []NetworkSound`: the network is its tunnels', and a search is right at every turn |
| | `MeasuresExact` | `MeasuresAreExact`: in any mine, routes are shortest and grounds exact, for any lookahead |
| | `WorkingsAreSound` | `Spec => []WorkingsSound`: every track stays or walks a leg at its unit's pace, from waypoint to waypoint |
| | `GroundAlwaysHolds` | `GroundHoldsThePerson`, in any mine |
| | `CrewsAreOut` | `CrewsStayOut`, for any way of working the mine, any pace, stay and lead |

Arguments. Each module names the invariant that is inductive and has one lemma per action on it; what several
actions need is a lemma of its own.

- *Queue.* `TypeOK` is inductive by itself. `NoJobLost` is inductive relative to it: it already says where a job is
  while a call is half way (`todo`, jobs that are `moving`). Its proof rests on three lemmas about lists
  without repetition. `ExemptCounted` is inductive relative to both. `Accounts` adds what the other properties
  need of the middle of a call: `Counted` (each counter is the number of jobs it names), `Reporting` (what was
  reported and what this interval is about to report add up to the totals), `Verdicts` (a job's two verdicts
  agree unless something moved it, and nothing has passed them on a job that has not started) and `Budgeted` (at
  every point of the loops, what is left of the budget is no more than the executors without work have to give). Every line that changes a counter adds one job to the counted set or takes one
  away, which the lemmas on cardinality turn into plus or minus one.
- *The queue as a fleet.* Nobody being lost or in two places (`NoJobLost`), every job has the one place the
  mapping gives it (`Placed`); `Clocked` says that between calls there is no interval and no budget, and that
  `serve` leaves budget over only when nobody waits. On these each action is one lemma: a step of the fleet
  (`AdvanceBegins`, `AdmitArrives`, `ServeRunningServes`, `ServeWaitingServes`, `CountBreachesEnds`), its `Strand` or
  nothing (`ArrivalsOverStrands`), or nothing the fleet can see (`TheRestIsHidden`).
- *Order in the queue.* A level is a set and the order within it, so that a level is a queue is not given:
  `MergeMakesARow` shows it of the merge. `Order` is `KeptInOrder` (deadline order in each level), `Arrived`
  (no deadline runs from later than what the log has still to deliver), `StartedEarlier` and `UrgentSoFar` (what the loop has started is more
  urgent than all that is left). It needs `LogOnly == Log = Jobs`: with submitted work it is false, which is the
  first observation of section 4, and the proofs stop exactly where the code relies on it (`AdmitSubmitted`, and
  the snapshot's `recentArrivals`). `queue_intent` is such an instance.
- *Runs.* The invariants readers care about are not inductive. `IInv` adds `HandlersAgree` (a run is stored
  before it has an engine and has no end before its engine says so; once the server has shut down
  there is no request) and `EnginesAgree` (what an engine is about to record is true). The refinement is one
  step per action on top of `IInv`.
- *Intent.* `IInv` adds `VersionsAgree` (whatever was read bears a version up to the present one, and the
  same version means the same settings) and `RecordIsBehind` (the table is behind what is applied exactly
  while the engine is about to write to it, and has it as its latest change otherwise). `ReplayInv` is about the
  replay, as long as nobody meddles with it: the original's first row is what it began with, its rows are in the order of cycles and versions, the
  replay's schedule is what of those rows is still to come, and its own record is those that have been.
  `TakenUp` follows a change from its acceptance to the cycle that works under it. `OnSchedule` says that unless
  an operator interfered, the settings in force are what `ValidFrom` checked the schedule on when the run was
  created; it needs that the recursive function `ValidFrom` is built on exists.
- *Pipeline.* `IInv` is `CatalogueOK` (each record is what `Observe` and `Locate` can make of the picks done, and
  an event with every pick has its final location where no workflow defers it), `WorkflowType`, `WorkflowOK` (the
  workflow's counts are the catalogue's, and nothing is under way for an event that could not be located) with
  `SweepsAreExact`, and `WaitIsBounded` as it stands. A turn is shown in the
  order of the code: completions, catalogue, hand-on, trigger.
- *Whereabouts.* A track is a sequence of legs, so each fact about a position is shown on a leg and at its ends:
  `StepIsShort` (in an instant nobody moves farther than the fastest leg), `StepsAreShort` (over several),
  `AtWaypoint`, `OnRoute`. What a reach gains in an instant is what its edges move (`GroundMoves`, `RouteMoves`,
  `WithinMoves`, `ReachMoves`).
- *Planner.* The loop of `Plan` is the recursive function `After`; a turn changes its own event alone and
  `altered` counts the events it has still to come to as before and the others as after (`LoopRuns`, `TurnIs`).
  `KeepsTrack` is what the planner remembers: `AskedIsHeld`, `Untouched`, `Undone`, `TellsAll`. `Judges` adds
  `MeasuredOnce` (a strike, once measured, is the distance to whatever is nearest the event's own sensors) and
  `Current`: each judgement was reached at some distance, since when `Nearby` has moved by no more than `Speed`
  for every instant, and the slack says that this cannot have crossed a boundary (`NearbyMoves`,
  `DecisionStands`). Settings of another generation are judged afresh, and in one generation a sighting
  changes once, when it gains a location. `ProtectedIsNotRelaxed` follows since the reach holds every place
  where a protected unit will be (`InReach`).
- *Use cases.* `Records` is inductive: each event's record is `Recorded`, and an interval makes it another that only
  `Grows` (`NextOfIs`), which gives `AnswersStand`. The rest follows in any state. The map is `ClosuresAre` (at each
  instant of its window an event closes what the location shown then covers), and its sums are counts of
  instants: merging gives a row, apart and in order, of exactly the instants given (`MergedIs`), a row is as long as
  it has instants (`LengthIs`), and the walk over two rows counts those in both (`IntersectionIs`). Ground can
  first be all closed only where some closure begins (`BeginsWhereCovered`), which is why the code looks there
  alone. `PeakSees` finds the turn of the loop at which everything closed at an instant has been added;
  `PeakIsReached` shows that what is counted at a turn and not taken off again is one span of each place closed then or
  just before. For decisions, a leg is a straight walk (`LegIs`), which crosses a zone's surface at one edge at most
  (`SurfaceIs`); between the last instant outside and the first inside a unit is on a leg that does, so a crossing
  is found (`CrossingsAre`, `CrossingsFirst`).
- *Watch.* `IInv` is `HubOK` (the lock, the subscribers and the calls in progress), `RecordOK` (what is on its
  way is recorded), `EngineOK` (where each engine is, from what it has recorded) and `PagesOK` (the cache and
  what pages have read so far).

- *Network.* `Sound` is what `NewGraph` makes, read off its sequences: a node for each vertex and no other, legs that
  lead both ways, are as long as their ends are apart and meet at nodes alone. `Searching` is Dijkstra's invariant:
  what a search holds of a node is the length of a way (`previous` leads back along it), what is done is no
  farther than what is open, and has passed on what it knows. When nothing is open it is `Found`, from which the
  ways `To` reads off are walks (`WayIs`) and, distances being potentials that no leg undercuts, shortest. That
  the reference's walk from place to place comes to the same (`RoutesShortest`, `GroundExact`) is induction on the
  distance: the ground around a place is known on each leg from the distances of its ends (`OnGround`), one step
  further widens it by one on each.
- *Journeys.* A track is a `Trail`: each waypoint a stay or a whole leg at the unit's pace from the one before. `UnderWay`
  says so of whoever is about, that the trail ends where and when they are, and goes back as far as their ground is
  asked for, which is what `Kept` must not lose. Between two waypoints `PositionAt` is as far along
  the leg as the pace takes one (`PositionIs`), so an instant moves a person a pace along one leg (`InstantIs`) and a
  lookahead moves them no farther than `Around` goes (`InstantsAre`), which is what `Within` gives.
- *Crews.* `CrewsStayOut` is not inductive: it says nothing of when a crew at a face will leave. `CrewSound` is: a
  crew is at a face, and its stay ends by when those the next evacuation finds there have left (`Late`); or it is at a
  station off production, where it came in time or was already. It rests on `InOrder` (the first evacuation still to
  end is the first to begin, so not clearing for it is not clearing for any), on every way taking
  `Longest` at most (`ComesThere`), and on the station of a face's level being its own station (`FacesServed`).

Every strengthened invariant was checked with TLC, as an invariant of the module's run, before it was proved.

Recursive functions. The library's induction theorems take an operator as a parameter, which cannot be
instantiated here. Where a proof needs induction it is on a set instead: the numbers for which the claim fails
have a least one by `WFMin` and `NatLessThanWellFounded`, which leads to a contradiction (`AfterExists` of
`IntentProofs`; `Induction`, with which `PlannerProofs` goes round the loop of `Plan`, `ClosureProofs` along merged
spans, sums and walks, and `WorkingsProofs` back along a way and out around a place). That a recursive function is
what it is written to be needs one that is: `BackExists`, `AroundExists` and `FlattenedExists` build it up to each number.
`PlannerProofs` and `ClosureProofs` each have the lemmas on tracks they use, and each module its own on numbers.

Only model-checked:

- what rests on fairness (`EveryCallReturns`, `RunsEnd`, `ServiceStops`, `WorkEnds`, `RunIsNotHeldUp`), which is
  out of this prover's reach;
- `LevelsInOrder`, `AccountsAgree` and `OverdueIsCounted` with submitted work are not stated, being false
  there; `ServingAddsUp` is proved with it.

## 4. Findings

Each is a run that TLC finds violated, where the code does one thing and a comment or a doc says another.

1. `intent_lost`: a change an operator made between the engine's read and its write of a planned change is
   overwritten (`run/engine.go:600`).
2. `watch_ground`: a page that asks for a run's ground while the run records its mine has views without units
   built, and the cache keeps them: the page goes on drawing empty ground (`api/ground.go:75`).

Observations met while modelling, which have no run of their own:

- Work submitted by the pipeline may stand behind jobs of the log with later deadlines, so a level need not be
  in the order its readers rely on, and the scan for breaches may stop before a late job (`queue/queue.go:244`);
  and a level whose recent arrivals were all submitted may be missing from the snapshot (`queue/queue.go:563`).
  `queue_intent` checks both where nothing is submitted.
- A run may start between `deleteRun`'s check and its deletion (`api/runs.go:209`). `RunRecord` lets a run be
  deleted at any time: what is checked is that nothing of it comes back and that what it holds is given back.
- An open event stream makes the server's shutdown time out, and then runs are abandoned instead of stopped
  (`app/app.go:142`).
- A decision of a live target that another follows between two polls is never recorded, nor is one made at the
  instant of the one last seen (`run/engine.go:425`). `Decides` has both; no property says that each is recorded.
- A target whose creation was not answered is never removed (`run/engine.go:222`).
- A run whose intent changed before its first cycle is not replayed with the same versions
  (`intent/control.go:72`).
- A PATCH that found a run in flight may be accepted after the run ended, by a control nobody reads any more
  (`api/intent.go:60`).
- With a locate stage, an event whose last pick comes after its last locate has no final location
  (`pipeline/pipeline.go:203`), although `workload/catalogue.go:189-191` has one follow from every pick and
  `docs/use-cases.md:122` draws the map from it; and a final location that does come comes after `processedAt`,
  which use cases take for its time.
- With `restore` off, work that was decayed is raised again when its event is promoted
  (`intent/planner.go:452`), although `docs/intent.md:45` says that decay is then final.
- `Planner.Valued` calls open events valued after intent was switched off, their state being `kept`
  (`intent/planner.go:209`).
- `peak` counts two spans that touch at one instant as overlapping or not by the order of samples
  (`usecase/closure.go:433`). `MapIsRight` bounds what that may add.
- `clearingLead` is 45 minutes, "the longest it may walk to a face and stay there"
  (`workload/workforce.go:250-253`), but people stay 45 to 120 minutes (`workload/workforce.go:153`): a crew
  that chose its face just before may be there when clearing begins, and when it is blasted. `docs/activity.md`
  says such a crew leaves early. `CrewsStayOut` states what does hold.
- A person where two tunnels cross without a shared vertex is taken to be on the first, and so may be given
  another tunnel's ground (`mineplan/reach.go:89`).

## 5. What is not modelled, and why

- **Geometry and physics** (`seismic`, `hazard`, the drawing of `mineplan/mineplan.go`, `domain/geometry.go`):
  floating-point formulas, out of TLC's and the provers' reach. Their results (radii, estimates, distances) are
  constants.
- **Random generation** (`workload/generate.go`, `encounter.go`, the events of `activity`): draws from seeded
  streams. What the rest relies on, jobs numbered in submission order, is an assumption of `Queue`.
- **SQL and JSON**: a store call is atomic and may fail; encodings are left out. So are the handlers that only
  encode what a store or autoscaler call returned.
- **Statistics**: waits, percentiles and shares of summaries, costs of a cycle.
- **`orchestrator`**: an interface that forwards to the queue; `Restrict` is called by tests only.
- **Migrations**: one transaction per file; which of two instances wins is for Postgres.
- **Configuration, build information, import rules, deployment, the autoscaler fake**: no behaviour over time.

## 6. Plan

What remains, in order:

1. An abstract life of an event (picked, swept, located) that `Pipeline` implements.
2. One cycle of `simulate` with queue, workflow, planner and fleet in one module, with the capacity shifted by
   one interval.
