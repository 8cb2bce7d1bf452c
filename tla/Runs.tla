-------------------------------- MODULE Runs ---------------------------------
(****************************************************************************)
(* The life of a run: the handlers of internal/api/runs.go that create,     *)
(* cancel, delete and watch it, the Manager of internal/runner/manager.go   *)
(* that keeps what is in flight, Execute, simulate and observe of           *)
(* internal/run/engine.go as far as they touch the record and the target,   *)
(* and the order in which internal/app/app.go shuts the service down.       *)
(*                                                                          *)
(* A handler and an engine are processes of their own; a step is a critical *)
(* section or one call of the store or the autoscaler.  Every such call may *)
(* fail, and the process may be killed between any two steps.  m.done has   *)
(* the keys of m.active, and both change under one lock: active is both.    *)
(****************************************************************************)
EXTENDS Naturals

CONSTANTS
  Runs,      \* run identities; newID makes one per createRun
  Live,      \* those of mode live; the others are simulations
  MaxCycles, \* maxCycles, the bound of a run that never drains
  MaxStreams \* bound on the event streams open at once

ASSUME RunsAssumption ==
  Live \subseteq Runs /\ MaxCycles \in Nat /\ MaxStreams \in Nat

VARIABLES
  row,        \* [Runs -> the status column]
  measured,   \* runs with a row in run_metrics
  unrecorded, \* runs whose last SetStatus failed (history)
  handler,    \* [Runs -> where the createRun request has got to]
  deleting,   \* runs a deleteRun request found not in flight, not yet deleted
  streams,    \* event streams being served
  active,     \* m.active and m.done: runs in flight
  intents,    \* m.intents
  cancelled,  \* runs whose context is cancelled
  joined,     \* m.wg: engines Shutdown waits for
  pc,         \* [Runs -> where the engine's goroutine is]
  result,     \* [Runs -> how the replay ended, then the status to record]
  cycles,     \* [Runs -> intervals replayed]
  target,     \* [Runs -> the autoscaler's ephemeral target]
  unanswered, \* runs whose CreateTarget failed on this side only (history)
  unremoved,  \* runs whose DeleteTarget failed (history)
  service     \* what app.Run is doing

record  == <<row, measured, unrecorded>>
http    == <<handler, deleting, streams>>
manager == <<active, intents, cancelled, joined>>
engine  == <<pc, result, cycles>>
fleet   == <<target, unanswered, unremoved>>
vars    == <<record, http, manager, engine, fleet, service>>

Terminal  == {"completed", "failed", "cancelled"}
Handling  == {"saved", "intended", "prepared", "registered", "launched"}
Holding   == {"creating", "setup", "check", "interval", "remove"}
Executing == Holding \cup {"begin", "create", "decide", "metrics", "record"}
InFlight  == Executing \cup {"unwind", "leave"}
Down      == {"exited", "abandoned", "killed"}

Exists(r) == row[r] \notin {"none", "deleted"}
Serves    == service \in {"serving", "draining"}

Init ==
  /\ row = [r \in Runs |-> "none"] /\ measured = {} /\ unrecorded = {}
  /\ handler = [r \in Runs |-> "none"] /\ deleting = {} /\ streams = 0
  /\ active = {} /\ intents = {} /\ cancelled = {} /\ joined = {}
  /\ pc = [r \in Runs |-> "none"] /\ result = [r \in Runs |-> "none"]
  /\ cycles = [r \in Runs |-> 0]
  /\ target = [r \in Runs |-> "none"] /\ unanswered = {} /\ unremoved = {}
  /\ service = "serving"

-----------------------------------------------------------------------------
\* createRun, call by call.

Handles(r, from, to) ==
  /\ handler[r] = from
  /\ handler' = [handler EXCEPT ![r] = to]
  /\ UNCHANGED <<deleting, streams>>

SaveRun(r) ==
  /\ Serves
  /\ Handles(r, "none", "saved")
  /\ row' = [row EXCEPT ![r] = "pending"]
  /\ UNCHANGED <<measured, unrecorded, manager, engine, fleet, service>>

SaveIntent(r) ==
  /\ r \notin Live /\ Exists(r)
  /\ Handles(r, "saved", "intended")
  /\ UNCHANGED <<record, manager, engine, fleet, service>>

Prepare(r) ==
  /\ Exists(r)
  /\ Handles(r, IF r \in Live THEN "saved" ELSE "intended", "prepared")
  /\ UNCHANGED <<record, manager, engine, fleet, service>>

\* A failing call answers the request; the row stays as SaveRun left it.
Refuse(r) ==
  /\ \E at \in {"saved", "intended"} : Handles(r, at, "refused")
  /\ UNCHANGED <<record, manager, engine, fleet, service>>

\* Manager.Start up to releasing the lock.
Register(r) ==
  /\ r \notin active
  /\ Handles(r, "prepared", "registered")
  /\ active' = active \cup {r}
  /\ intents' = intents \cup ({r} \ Live)
  /\ UNCHANGED <<cancelled, joined, record, engine, fleet, service>>

Launch_unjoined(r) ==
  /\ Handles(r, "registered", "launched")
  /\ pc' = [pc EXCEPT ![r] = "begin"]
  /\ UNCHANGED <<active, intents, cancelled, joined, result, cycles, record,
                 fleet, service>>

\* The rest of Start: wg.Add(1), then the goroutine.
Launch(r) ==
  /\ Handles(r, "registered", "launched")
  /\ joined' = joined \cup {r}
  /\ pc' = [pc EXCEPT ![r] = "begin"]
  /\ UNCHANGED <<active, intents, cancelled, result, cycles, record, fleet,
                 service>>

Answer(r) ==
  /\ Handles(r, "launched", "answered")
  /\ UNCHANGED <<record, manager, engine, fleet, service>>

-----------------------------------------------------------------------------
\* The other requests.

Cancel(r) ==
  /\ Serves /\ r \in active
  /\ cancelled' = cancelled \cup {r}
  /\ UNCHANGED <<active, intents, joined, record, http, engine, fleet, service>>

\* deleteRun asks the Manager first and the store after.
CheckDelete(r) ==
  /\ Serves /\ Exists(r) /\ r \notin active
  /\ deleting' = deleting \cup {r}
  /\ UNCHANGED <<handler, streams, record, manager, engine, fleet, service>>

DeleteRun(r) ==
  /\ r \in deleting /\ deleting' = deleting \ {r}
  /\ \/ /\ row' = [row EXCEPT ![r] = "deleted"]
        /\ measured' = measured \ {r} \* ON DELETE CASCADE
     \/ UNCHANGED <<row, measured>>
  /\ UNCHANGED <<unrecorded, handler, streams, manager, engine, fleet, service>>

Stream ==
  /\ \/ Serves /\ streams < MaxStreams /\ streams' = streams + 1
     \/ streams > 0 /\ streams' = streams - 1
  /\ UNCHANGED <<handler, deleting, record, manager, engine, fleet, service>>

-----------------------------------------------------------------------------
\* The engine: Execute, with simulate for a simulation and observe for a live
\* run.  A call that is given the run's context fails once that is cancelled,
\* unless it was answered first; one under WithoutCancel does not.

Goes(r, from, to) ==
  /\ pc[r] = from
  /\ pc' = [pc EXCEPT ![r] = to]

Unwinding_drained(r) == "decide"

\* Where an error or the end of the replay leads: simulate has deferred the
\* removal of its target, observe has no target of its own.
Unwinding(r) == IF r \in Live THEN "decide" ELSE "remove"

Fails(r, from, to) ==
  /\ Goes(r, from, to)
  /\ result' = [result EXCEPT ![r] = "error"]
  /\ UNCHANGED <<cycles, record, http, manager, service>>

\* SetStatus(running), its failure ignored.
Begin(r) ==
  /\ Goes(r, "begin", IF r \in Live THEN "setup" ELSE "create")
  /\ \/ row[r] = "pending" /\ row' = [row EXCEPT ![r] = "running"]
     \/ UNCHANGED row
  /\ UNCHANGED <<measured, unrecorded, result, cycles, http, manager, fleet,
                 service>>

SendCreate(r) ==
  /\ Goes(r, "create", "creating")
  /\ target' = [target EXCEPT ![r] = "requested"]
  /\ UNCHANGED <<unanswered, unremoved, result, cycles, record, http, manager,
                 service>>

\* A cancelled context stops a request that was not sent; neither is one sent
\* for a workload that cannot be built.
DoNotCreate(r) == Fails(r, "create", "decide") /\ UNCHANGED fleet

Created(r) ==
  /\ target[r] = "present"
  /\ Goes(r, "creating", "setup")
  /\ UNCHANGED <<result, cycles, record, http, manager, fleet, service>>

\* No success was heard: the removal is not deferred yet.
NotCreated(r) ==
  /\ Fails(r, "creating", "decide")
  /\ unanswered' = unanswered \cup {r}
  /\ UNCHANGED <<target, unremoved>>

\* Settings, provenance, layout, events and entities.
Setup(r) ==
  /\ Exists(r)
  /\ Goes(r, "setup", "check")
  /\ UNCHANGED <<result, cycles, record, http, manager, fleet, service>>

SetupFails(r) == Fails(r, "setup", Unwinding(r)) /\ UNCHANGED fleet

NextCycle_late(r) ==
  /\ r \notin cancelled /\ (r \in Live \/ cycles[r] <= MaxCycles)
  /\ Goes(r, "check", "interval")
  /\ UNCHANGED <<result, cycles, record, http, manager, fleet, service>>

NextCycle_heedless(r) ==
  /\ r \in Live \/ cycles[r] < MaxCycles
  /\ Goes(r, "check", "interval")
  /\ UNCHANGED <<result, cycles, record, http, manager, fleet, service>>

\* The head of the loop: the context, then the cycle bound.
NextCycle(r) ==
  /\ r \notin cancelled /\ (r \in Live \/ cycles[r] < MaxCycles)
  /\ Goes(r, "check", "interval")
  /\ UNCHANGED <<result, cycles, record, http, manager, fleet, service>>

StopCycles(r) ==
  /\ r \in cancelled \/ (r \notin Live /\ cycles[r] >= MaxCycles)
  /\ Fails(r, "check", Unwinding(r)) /\ UNCHANGED fleet

\* One interval: a simulation records its cycle, a live run a decision when
\* there is a new one, so that it need not touch the store.
Interval(r) ==
  /\ r \in Live \/ Exists(r)
  /\ Goes(r, "interval", "check")
  /\ cycles' = IF r \in Live THEN cycles ELSE [cycles EXCEPT ![r] = @ + 1]
  /\ UNCHANGED <<result, record, http, manager, fleet, service>>

IntervalFails(r) == Fails(r, "interval", Unwinding(r)) /\ UNCHANGED fleet

\* The queue is empty and the scenario over; only a simulation drains.
Drain(r) ==
  /\ r \notin Live
  /\ Goes(r, "interval", "remove")
  /\ result' = [result EXCEPT ![r] = "drained"]
  /\ UNCHANGED <<cycles, record, http, manager, fleet, service>>

\* The deferred DeleteTarget, its failure ignored.
RemoveTarget(r) ==
  /\ Goes(r, "remove", "decide")
  /\ \/ target' = [target EXCEPT ![r] = "removed"] /\ UNCHANGED unremoved
     \/ unremoved' = unremoved \cup {r} /\ UNCHANGED target
  /\ UNCHANGED <<unanswered, result, cycles, record, http, manager, service>>

Verdict_stopped(r) == IF result[r] = "error" THEN "cancelled" ELSE result[r]

\* The switch of Execute.
Verdict(r) ==
  CASE result[r] = "drained" -> "drained"
    [] result[r] = "error" /\ r \in cancelled -> "cancelled"
    [] OTHER -> "failed"

Decide(r) ==
  /\ Goes(r, "decide", IF result[r] = "drained" THEN "metrics" ELSE "record")
  /\ result' = [result EXCEPT ![r] = Verdict(r)]
  /\ UNCHANGED <<cycles, record, http, manager, fleet, service>>

SaveMetrics_ignored(r) ==
  /\ Goes(r, "metrics", "record")
  /\ result' = [result EXCEPT ![r] = "completed"]
  /\ measured' \in {measured, measured \cup IF Exists(r) THEN {r} ELSE {}}
  /\ UNCHANGED <<row, unrecorded, cycles, http, manager, fleet, service>>

SaveMetrics_returns(r) ==
  /\ \/ /\ Exists(r) /\ Goes(r, "metrics", "record")
        /\ measured' = measured \cup {r}
        /\ result' = [result EXCEPT ![r] = "completed"]
     \/ Goes(r, "metrics", "unwind") /\ UNCHANGED <<measured, result>>
  /\ UNCHANGED <<row, unrecorded, cycles, http, manager, fleet, service>>

\* A failure may be of the answer alone: the metrics are stored all the same.
SaveMetrics(r) ==
  /\ Goes(r, "metrics", "record")
  /\ \/ /\ Exists(r) /\ measured' = measured \cup {r}
        /\ result' = [result EXCEPT ![r] = "completed"]
     \/ /\ result' = [result EXCEPT ![r] = "failed"]
        /\ measured' \in {measured, measured \cup IF Exists(r) THEN {r} ELSE {}}
  /\ UNCHANGED <<row, unrecorded, cycles, http, manager, fleet, service>>

\* SetStatus of the verdict, its failure ignored.
Record(r) ==
  /\ Goes(r, "record", "unwind")
  /\ \/ Exists(r) /\ row' = [row EXCEPT ![r] = result[r]] /\ UNCHANGED unrecorded
     \/ unrecorded' = unrecorded \cup {r} /\ UNCHANGED row
  /\ UNCHANGED <<measured, result, cycles, http, manager, fleet, service>>

\* The deferred functions of Start's goroutine, innermost first.
Unwind(r) ==
  /\ Goes(r, "unwind", "leave")
  /\ active' = active \ {r} /\ intents' = intents \ {r}
  /\ UNCHANGED <<cancelled, joined, result, cycles, record, http, fleet, service>>

Leave(r) ==
  /\ Goes(r, "leave", "over")
  /\ joined' = joined \ {r}
  /\ UNCHANGED <<active, intents, cancelled, result, cycles, record, http,
                 fleet, service>>

\* The autoscaler takes a request, whether or not somebody still waits.
AutoscalerCreates(r) ==
  /\ target[r] = "requested"
  /\ target' = [target EXCEPT ![r] = "present"]
  /\ UNCHANGED <<unanswered, unremoved, record, http, manager, engine, service>>

-----------------------------------------------------------------------------
\* app.Run.

Becomes(from, to) == service \in from /\ service' = to

\* The process is gone, and all it held in memory.
Dies ==
  /\ handler' = [r \in Runs |-> IF handler[r] \in Handling THEN "lost"
                                ELSE handler[r]]
  /\ pc' = [r \in Runs |-> IF pc[r] \in InFlight THEN "lost" ELSE pc[r]]
  /\ deleting' = {} /\ streams' = 0
  /\ active' = {} /\ intents' = {} /\ joined' = {}
  /\ UNCHANGED <<cancelled, result, cycles, record, fleet>>

\* SIGTERM: server.Shutdown takes no new connection.
StopServing ==
  /\ Becomes({"serving"}, "draining")
  /\ UNCHANGED <<record, http, manager, engine, fleet>>

Idle_streams == streams = 0

Idle == streams = 0 /\ deleting = {} /\ \A r \in Runs : handler[r] \notin Handling

CancelAll_waits ==
  /\ Becomes({"draining"}, "stopping")
  /\ Idle
  /\ UNCHANGED <<record, http, manager, engine, fleet>>

\* server.Shutdown returns nil; manager.Shutdown cancels what is in flight.
CancelAll ==
  /\ Becomes({"draining"}, "stopping")
  /\ Idle
  /\ cancelled' = cancelled \cup active
  /\ UNCHANGED <<active, intents, joined, record, http, engine, fleet>>

\* wg.Wait returns, and with it main.
Exit == Becomes({"stopping"}, "exited") /\ joined = {} /\ Dies

\* server.Shutdown gives up after 30 seconds and app.Run returns its error.
TimeOut == Becomes({"draining"}, "abandoned") /\ ~Idle /\ Dies

\* ListenAndServe fails and app.Run returns its error.
ServerFails == Becomes({"serving"}, "abandoned") /\ Dies

Crash == Becomes({"serving", "draining", "stopping"}, "killed") /\ Dies

\* A new process on the same database; runs it did not start are not resumed.
Restart ==
  /\ Becomes(Down, "serving")
  /\ UNCHANGED <<record, http, manager, engine, fleet>>

-----------------------------------------------------------------------------
Handler(r) ==
  SaveIntent(r) \/ Prepare(r) \/ Refuse(r) \/ Register(r) \/ Launch(r) \/ Answer(r)

Request(r) == SaveRun(r) \/ Cancel(r) \/ CheckDelete(r) \/ DeleteRun(r)

Engine(r) ==
  \/ Begin(r) \/ SendCreate(r) \/ DoNotCreate(r) \/ Created(r) \/ NotCreated(r)
  \/ Setup(r) \/ SetupFails(r)
  \/ NextCycle(r) \/ StopCycles(r) \/ Interval(r) \/ IntervalFails(r) \/ Drain(r)
  \/ RemoveTarget(r) \/ Decide(r) \/ SaveMetrics(r) \/ Record(r)
  \/ Unwind(r) \/ Leave(r)

Finish   == CancelAll \/ Exit \/ TimeOut
Shutdown == StopServing \/ Finish
Restarts == ServerFails \/ Crash \/ Restart

\* Everything but unasked ends of the process.
Work ==
  \/ \E r \in Runs : Request(r) \/ Handler(r) \/ Engine(r) \/ AutoscalerCreates(r)
  \/ Stream
  \/ Shutdown

Next == Work \/ Restarts
Spec == Init /\ [][Next]_vars

\* Go runs every runnable goroutine, calls of the store and the autoscaler
\* return (the client has a timeout), and the 30 seconds of Shutdown pass.
Fairness ==
  /\ \A r \in Runs : WF_vars(Handler(r)) /\ WF_vars(Engine(r))
  /\ WF_vars(Finish)

FairSpec == Spec /\ Fairness

-----------------------------------------------------------------------------
(* Properties. *)

\* Every variable stays in its range.
TypeOK ==
  /\ row \in [Runs -> {"none", "pending", "running", "deleted"} \cup Terminal]
  /\ handler \in [Runs -> {"none", "answered", "refused", "lost"} \cup Handling]
  /\ pc \in [Runs -> {"none", "over", "lost"} \cup InFlight]
  /\ result \in [Runs -> {"none", "drained", "error"} \cup Terminal]
  /\ cycles \in [Runs -> 0 .. MaxCycles]
  /\ target \in [Runs -> {"none", "requested", "present", "removed"}]
  /\ streams \in 0 .. MaxStreams
  /\ service \in {"serving", "draining", "stopping"} \cup Down
  /\ measured \subseteq Runs /\ unrecorded \subseteq Runs
  /\ deleting \subseteq Runs /\ active \subseteq Runs /\ intents \subseteq Runs
  /\ cancelled \subseteq Runs /\ joined \subseteq Runs
  /\ unanswered \subseteq Runs /\ unremoved \subseteq Runs

\* What IsActive, Intent and Shutdown's wait group say is what is going on: a
\* run is active from its registration until its goroutine unwinds, a
\* simulation's intent can be reached exactly as long, and the group holds the
\* goroutines that have not returned (Start and its deferred functions).
ActiveIsInFlight ==
  /\ active = {r \in Runs : handler[r] = "registered"
                            \/ pc[r] \in Executing \cup {"unwind"}}
  /\ intents = active \ Live
  /\ joined = {r \in Runs : pc[r] \in InFlight}

\* A run the table shows as pending or running has somebody at work on it, or
\* its request failed half way, or its last status write did, or the process
\* died: whoever wakes from Done finds the verdict in the table.
NothingStuck == \A r \in Runs :
  row[r] \in {"pending", "running"} =>
    \/ handler[r] \in (Handling \ {"launched"}) \cup {"refused", "lost"}
    \/ pc[r] \in Executing \cup {"lost"}
    \/ r \in unrecorded

\* A run shown as completed has its metrics, and only a simulation completes;
\* a run with metrics is shown as completed, or as failed when their write
\* seemed to fail, unless its engine has yet to say so or never could.  All
\* of this while other requests delete runs.
CompletedIsMeasured == \A r \in Runs :
  /\ row[r] = "completed" => r \in measured /\ r \notin Live
  /\ r \in measured => \/ row[r] \in {"completed", "failed"}
                        \/ pc[r] \in {"record", "lost"} \/ r \in unrecorded

\* A target exists, or may yet come to exist, only while its run holds it, or
\* because a call about it failed or the process died: the record of a run
\* that ended in any other way says so after the target is gone.
TargetIsOwned == \A r \in Runs :
  target[r] \in {"requested", "present"} =>
    pc[r] \in Holding \cup {"lost"} \/ r \in unanswered \cup unremoved

\* A shutdown that runs to its end has let every request answer and every
\* engine return: nothing dies with the process (Manager.Shutdown and the
\* order of app.Run).
ShutdownLosesNothing ==
  [][service' = "exited" /\ service # "exited" =>
       \A r \in Runs : handler[r] \notin Handling /\ pc[r] \notin InFlight]_vars

\* Whatever requests, engines, shutdowns and crashes do to each other, the
\* table tells the story of RunRecord.
Abstract == INSTANCE RunRecord WITH status <- row, asked <- cancelled
RecordMovesForward == Abstract!Spec

\* A cancelled run ends, whatever it was doing: nothing else ends a live one.
CancelledRunEnds ==
  \A r \in Runs : r \in active \cap cancelled ~> r \notin active

\* A simulation ends by itself, drained or at its cycle bound.
SimulationEnds ==
  \A r \in Runs \ Live : pc[r] \in Executing ~> pc[r] \in {"over", "lost"}

\* No run goes on for ever: a cancelled one is off the registry whatever it was
\* doing, and a simulation needs nobody to cancel it.
RunsEnd == CancelledRunEnds /\ SimulationEnds

\* Asked to stop, the service does, although a live run in flight would go on
\* for ever and a stream may never close.
ServiceStops == service \in {"draining", "stopping"} ~> service \in Down
=============================================================================
