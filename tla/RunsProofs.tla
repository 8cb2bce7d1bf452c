------------------------------ MODULE RunsProofs ------------------------------
(****************************************************************************)
(* What holds of any number of runs, live or simulated, for every cycle     *)
(* bound.  The invariants of Runs say what a reader of the table, of the    *)
(* manager or of the autoscaler can rely on; IInv adds what the handlers    *)
(* and the engines keep among themselves, and is inductive.                 *)
(****************************************************************************)
EXTENDS Runs, TLAPS

BeforeLaunch ==
  {"none", "saved", "intended", "prepared", "registered", "refused"}

\* A run is stored before anything else happens to it, has no engine before
\* createRun launches one, and no end before its engine records it; once the
\* server has shut down no request is left.
HandlersAgree == \A r \in Runs :
  /\ handler[r] = "none" <=> row[r] = "none"
  /\ handler[r] \in BeforeLaunch => pc[r] = "none"
  /\ row[r] \in Terminal => pc[r] \in {"unwind", "leave", "over", "lost"}
  /\ r \in deleting => row[r] # "none"
  /\ service = "stopping" => handler[r] \notin Handling

\* What Execute is about to record is true; only a simulation has a target,
\* drains or has metrics.
EnginesAgree == \A r \in Runs :
  /\ pc[r] = "interval" /\ r \notin Live => cycles[r] < MaxCycles
  /\ pc[r] \in {"remove", "decide"} => result[r] \in {"drained", "error"}
  /\ pc[r] = "record" =>
       /\ result[r] \in Terminal
       /\ result[r] = "cancelled" => r \in cancelled
       /\ result[r] = "completed" /\ Exists(r) => r \in measured
  /\ result[r] \in {"drained", "completed"} => r \notin Live
  /\ r \in Live => /\ target[r] = "none"
                   /\ pc[r] \notin {"create", "creating", "remove", "metrics"}
  /\ r \in measured =>
       /\ Exists(r)
       /\ pc[r] \in {"record", "unwind", "leave", "over", "lost"}
       /\ pc[r] = "record" => result[r] \in {"completed", "failed"}

IInv ==
  /\ TypeOK
  /\ HandlersAgree /\ EnginesAgree
  /\ ActiveIsInFlight
  /\ NothingStuck
  /\ CompletedIsMeasured
  /\ TargetIsOwned

\* The invariant holds before the first request.
LEMMA Initially == Init => IInv
BY RunsAssumption
DEF Init, IInv, TypeOK, HandlersAgree, EnginesAgree, ActiveIsInFlight,
    NothingStuck, CompletedIsMeasured, TargetIsOwned, BeforeLaunch, Exists,
    Terminal, Handling, Holding, Executing, InFlight, Down

\* No request, engine, shutdown or end of the process breaks the invariant.
LEMMA Inductive == IInv /\ [Next]_vars => IInv'
<1> SUFFICES ASSUME IInv, [Next]_vars
             PROVE  IInv'
  OBVIOUS
<1> USE RunsAssumption
    DEF IInv, TypeOK, HandlersAgree, EnginesAgree, ActiveIsInFlight,
        NothingStuck, CompletedIsMeasured, TargetIsOwned, BeforeLaunch, Exists,
        Terminal, Handling, Holding, Executing, InFlight, Down,
        record, http, manager, engine, fleet
<1>1. ASSUME NEW r \in Runs, Request(r)
      PROVE  IInv'
  <2>1. CASE SaveRun(r)
    BY <2>1 DEF SaveRun, Handles, Serves
  <2>2. CASE Cancel(r)
    BY <2>2 DEF Cancel
  <2>3. CASE CheckDelete(r)
    BY <2>3 DEF CheckDelete
  <2>4. CASE DeleteRun(r)
    BY <2>4 DEF DeleteRun
  <2>5. QED
    BY <1>1, <2>1, <2>2, <2>3, <2>4 DEF Request
<1>2. ASSUME NEW r \in Runs, Handler(r)
      PROVE  IInv'
  <2> USE DEF Handles
  <2>1. CASE SaveIntent(r)
    BY <2>1 DEF SaveIntent
  <2>2. CASE Prepare(r)
    BY <2>2 DEF Prepare
  <2>3. CASE Refuse(r)
    BY <2>3 DEF Refuse
  <2>4. CASE Register(r)
    BY <2>4 DEF Register
  <2>5. CASE Launch(r)
    BY <2>5 DEF Launch
  <2>6. CASE Answer(r)
    BY <2>6 DEF Answer
  <2>7. QED
    BY <1>2, <2>1, <2>2, <2>3, <2>4, <2>5, <2>6 DEF Handler
<1>3. ASSUME NEW r \in Runs, Engine(r)
      PROVE  IInv'
  <2> USE DEF Goes, Fails, Unwinding
  <2>1. CASE Begin(r)
    BY <2>1 DEF Begin
  <2>2. CASE SendCreate(r) \/ DoNotCreate(r)
    BY <2>2 DEF SendCreate, DoNotCreate
  <2>3. CASE Created(r) \/ NotCreated(r)
    BY <2>3 DEF Created, NotCreated
  <2>4. CASE Setup(r) \/ SetupFails(r)
    BY <2>4 DEF Setup, SetupFails
  <2>5. CASE NextCycle(r) \/ StopCycles(r)
    BY <2>5 DEF NextCycle, StopCycles
  <2>6. CASE Interval(r) \/ IntervalFails(r) \/ Drain(r)
    BY <2>6 DEF Interval, IntervalFails, Drain
  <2>7. CASE RemoveTarget(r)
    BY <2>7 DEF RemoveTarget
  <2>8. CASE Decide(r)
    BY <2>8 DEF Decide, Verdict
  <2>9. CASE SaveMetrics(r)
    BY <2>9 DEF SaveMetrics
  <2>10. CASE Record(r)
    BY <2>10 DEF Record
  <2>11. CASE Unwind(r) \/ Leave(r)
    BY <2>11 DEF Unwind, Leave
  <2>12. QED
    BY <1>3, <2>1, <2>2, <2>3, <2>4, <2>5, <2>6, <2>7, <2>8, <2>9, <2>10, <2>11
    DEF Engine
<1>4. ASSUME NEW r \in Runs, AutoscalerCreates(r)
      PROVE  IInv'
  BY <1>4 DEF AutoscalerCreates
<1>5. CASE Stream
  BY <1>5 DEF Stream
<1>6. CASE StopServing \/ CancelAll \/ Restart
  BY <1>6 DEF StopServing, CancelAll, Restart, Becomes, Idle
<1>7. CASE Exit \/ TimeOut \/ ServerFails \/ Crash
  BY <1>7 DEF Exit, TimeOut, ServerFails, Crash, Becomes, Dies
<1>8. CASE UNCHANGED vars
  BY <1>8 DEF vars
<1>9. QED
  BY <1>1, <1>2, <1>3, <1>4, <1>5, <1>6, <1>7, <1>8
  DEF Next, Work, Shutdown, Finish, Restarts

\* And at every moment after, whatever crashes.
THEOREM Invariant == Spec => []IInv
BY Initially, Inductive, PTL DEF Spec

\* Every variable stays in its range, cycles below their bound included.
THEOREM TypeCorrect == Spec => []TypeOK
<1>1. IInv => TypeOK
  BY DEF IInv
<1>2. QED
  BY <1>1, Invariant, PTL

\* What the manager says is in flight is what is in flight.
THEOREM RegistryIsRight == Spec => []ActiveIsInFlight
<1>1. IInv => ActiveIsInFlight
  BY DEF IInv
<1>2. QED
  BY <1>1, Invariant, PTL

\* No run is shown as pending or running for ever without a failure behind it.
THEOREM NoRunIsStuck == Spec => []NothingStuck
<1>1. IInv => NothingStuck
  BY DEF IInv
<1>2. QED
  BY <1>1, Invariant, PTL

\* Completed and measured go together.
THEOREM CompletionIsMeasured == Spec => []CompletedIsMeasured
<1>1. IInv => CompletedIsMeasured
  BY DEF IInv
<1>2. QED
  BY <1>1, Invariant, PTL

\* A target outlives its run only through a failure.
THEOREM TargetsAreOwned == Spec => []TargetIsOwned
<1>1. IInv => TargetIsOwned
  BY DEF IInv
<1>2. QED
  BY <1>1, Invariant, PTL

\* The wait group is empty only when no engine is at work, and by then every
\* request has been answered: a finished shutdown has lost nothing.
THEOREM ShutdownIsClean == Spec => ShutdownLosesNothing
<1> DEFINE Clean == service' = "exited" /\ service # "exited" =>
       \A r \in Runs : handler[r] \notin Handling /\ pc[r] \notin InFlight
<1>1. IInv /\ [Next]_vars => [Clean]_vars
  <2> SUFFICES ASSUME IInv, [Next]_vars, service' = "exited", service # "exited"
               PROVE  \A r \in Runs : handler[r] \notin Handling /\ pc[r] \notin InFlight
    OBVIOUS
  <2>1. Exit
    BY DEF Next, Work, Request, Handler, Engine, Shutdown, Finish, Restarts,
           SaveRun, Cancel, CheckDelete, DeleteRun, SaveIntent, Prepare, Refuse,
           Register, Launch, Answer, Begin, SendCreate, DoNotCreate, Created,
           NotCreated, Setup, SetupFails, NextCycle, StopCycles, Interval,
           IntervalFails, Drain, RemoveTarget, Decide, SaveMetrics, Record,
           Unwind, Leave, AutoscalerCreates, Stream, StopServing, CancelAll,
           TimeOut, ServerFails, Crash, Restart, Fails, Becomes, vars
  <2>2. service = "stopping" /\ joined = {}
    BY <2>1 DEF Exit, Becomes
  <2>3. QED
    BY <2>2 DEF IInv, HandlersAgree, ActiveIsInFlight
<1>2. QED
  BY <1>1, Invariant, PTL DEF Spec, ShutdownLosesNothing

\* The table tells the story of RunRecord: what a run's engine, handler and
\* deleters write between them is one creation, at most one end and a deletion.
THEOREM Refinement == Spec => RecordMovesForward
<1>1. Init => Abstract!Init
  BY DEF Init, Abstract!Init
<1>2. IInv /\ [Next]_vars => [Abstract!Next]_Abstract!vars
  <2> SUFFICES ASSUME IInv, [Next]_vars
               PROVE  [Abstract!Next]_Abstract!vars
    OBVIOUS
  <2> USE DEF Abstract!Next, Abstract!vars, Abstract!Moves
  <2>1. ASSUME NEW r \in Runs, SaveRun(r)
        PROVE  Abstract!Create(r)
    BY <2>1 DEF SaveRun, Handles, Abstract!Create, IInv, HandlersAgree, manager
  <2>2. ASSUME NEW r \in Runs, DeleteRun(r)
        PROVE  Abstract!Delete(r) \/ UNCHANGED Abstract!vars
    BY <2>2 DEF DeleteRun, Abstract!Delete, Abstract!Terminal, IInv, TypeOK,
                HandlersAgree, Terminal, manager
  <2>3. ASSUME NEW r \in Runs, Begin(r)
        PROVE  Abstract!Start(r) \/ UNCHANGED Abstract!vars
    BY <2>3 DEF Begin, Abstract!Start, manager
  <2>4. ASSUME NEW r \in Runs, Record(r)
        PROVE  Abstract!End(r) \/ UNCHANGED Abstract!vars
    BY <2>4 DEF Record, Goes, Abstract!End, Abstract!Terminal, Exists, IInv,
                TypeOK, HandlersAgree, EnginesAgree, Terminal, manager
  <2>5. ASSUME \/ CancelAll
               \/ \E r \in Runs : Cancel(r)
        PROVE  Abstract!Ask
    BY <2>5 DEF CancelAll, Cancel, Abstract!Ask, IInv, TypeOK, record
  <2>6. ASSUME NEW r \in Runs, Handler(r) \/ CheckDelete(r) \/ AutoscalerCreates(r)
        PROVE  UNCHANGED Abstract!vars
    BY <2>6 DEF Handler, SaveIntent, Prepare, Refuse, Register, Launch, Answer,
                CheckDelete, AutoscalerCreates, record, manager
  <2>7. ASSUME NEW r \in Runs, Engine(r), ~Begin(r), ~Record(r)
        PROVE  UNCHANGED Abstract!vars
    BY <2>7 DEF Engine, SendCreate, DoNotCreate, Created, NotCreated, Setup,
                SetupFails, NextCycle, StopCycles, Interval, IntervalFails,
                Drain, RemoveTarget, Decide, SaveMetrics, Unwind, Leave, Fails,
                record, manager
  <2>8. ASSUME Stream \/ StopServing \/ Exit \/ TimeOut \/ Restarts
        PROVE  UNCHANGED Abstract!vars
    BY <2>8 DEF Stream, StopServing, Exit, TimeOut, Restarts, ServerFails, Crash,
                Restart, Dies, record, manager
  <2>9. ASSUME UNCHANGED vars
        PROVE  UNCHANGED Abstract!vars
    BY <2>9 DEF vars, record, manager
  <2>10. QED
    BY <2>1, <2>2, <2>3, <2>4, <2>5, <2>6, <2>7, <2>8, <2>9
    DEF Next, Work, Request, Shutdown, Finish
<1>3. QED
  BY <1>1, <1>2, Invariant, PTL DEF Spec, RecordMovesForward, Abstract!Spec
=============================================================================
