-------------------------------- MODULE Queue --------------------------------
(****************************************************************************)
(* The job-level simulation a run replays through: queue.Simulator of       *)
(* internal/queue/queue.go.                                                 *)
(*                                                                          *)
(* A job is its identity, a natural number: generate.go numbers the log by  *)
(* position in submission order and pipeline.go goes on counting from       *)
(* there.  Durations and executor-seconds are natural numbers of one unit.  *)
(*                                                                          *)
(* A method of the Simulator is a sequence of steps, one per iteration of   *)
(* its loops; pc names the loop it is in and is "idle" between calls, which *)
(* is where the one goroutine that owns the Simulator makes the next call.  *)
(* A level, a slice in the source, is the set levels[p] in the order ahead: *)
(* <<i, j>> \in ahead when i stands before j in their level.  That makes    *)
(* the loops over a level (merge, countBreaches) plain set definitions.     *)
(****************************************************************************)
EXTENDS Integers, Sequences, FiniteSets

CONSTANTS
  Jobs,            \* identities of all the work a run may ever hold
  Log,             \* those of the job log handed to New; the rest is submitted
  Seconds,         \* [Jobs -> execution time]
  Level,           \* [Jobs -> priority a job is submitted at]
  Priorities,      \* the priority levels in use
  Deadlines,       \* deadline of each level that has one of its own
  DefaultDeadline, \* deadline of every other level
  Instants,        \* the times a clock or a submission may take
  Executors,       \* the executor counts Advance may be called with
  ArrivalWindow,   \* how far back the reported arrival rate looks
  MaxUpdates       \* bound on the updates sent between two Advances

ASSUME JobsAssumption ==
  /\ Jobs \subseteq Nat /\ IsFiniteSet(Jobs) /\ Log \subseteq Jobs
  /\ Seconds \in [Jobs -> Nat \ {0}]
  /\ Level \in [Jobs -> Priorities]

ASSUME LevelsAssumption ==
  /\ Priorities \subseteq Int
  /\ Deadlines \in [DOMAIN Deadlines -> Nat]
  /\ DefaultDeadline \in Nat

ASSUME BoundsAssumption ==
  /\ Instants \subseteq Nat
  /\ Executors \subseteq Int
  /\ ArrivalWindow \in Nat /\ MaxUpdates \in Nat

VARIABLES
  now,           \* the simulator's clock
  at,            \* [Jobs -> SubmittedAt]; 0 until a job is handed over
  log,           \* arrivals[next:], the part of the log not yet reached
  tail,          \* submittedWork[nextSubmitted:]
  jobs,          \* identities in the jobs map: everything ever admitted
  job,           \* [Jobs -> the queued record]
  levels,        \* [Priorities -> the jobs waiting there]
  ahead,         \* the order within the levels
  running,       \* started and unfinished; during serve, the stillRunning part
  todo,          \* during serve, the part of running not reached yet
  finished,      \* every identity returned in a Progress.Finished
  stats,         \* the counters behind Stats
  exemptWaiting, \* how many waiting jobs are exempt from cloud burst
  pc,            \* the loop the current call is in
  call,          \* locals of the current call
  reported       \* what the Progress values returned so far add up to

time  == <<now, at>>
feeds == <<log, tail, jobs>>
queue == <<levels, ahead>>
vars  == <<now, at, log, tail, jobs, job, levels, ahead, running, todo,
           finished, stats, exemptWaiting, pc, call, reported>>

Workflow == Jobs \ Log

Least(a, b)    == IF a <= b THEN a ELSE b
Greatest(a, b) == IF a >= b THEN a ELSE b

\* A counter n that b, when it holds, adds one to.
CountIf(b, n) == IF b THEN n + 1 ELSE n

\* Deadlines.For
For(p) == IF p \in DOMAIN Deadlines THEN Deadlines[p] ELSE DefaultDeadline

Never == -1

\* The order of a submission stream: by time, and for one time by identity.
SubmittedBefore(i, j) == at[i] < at[j] \/ (at[i] = at[j] /\ i < j)

\* before: the order within a level, by deadline origin and then identity.
Before(i, j) ==
  \/ job[i].from < job[j].from
  \/ job[i].from = job[j].from /\ i < j

\* The first of a submission stream.
IsNext(j, stream) == j \in stream /\ \A i \in stream \ {j} : SubmittedBefore(j, i)

IsHead(j, p) == j \in levels[p] /\ \A i \in levels[p] : <<i, j>> \notin ahead

\* sortedLevels and the scan over it: the most urgent level with work in it.
IsTop(p) == levels[p] # {} /\ \A q \in Priorities : q > p => levels[q] = {}

SomeoneWaits == \E p \in Priorities : levels[p] # {}

Waiting == UNION {levels[p] : p \in Priorities}

\* depth: everything admitted and unfinished.
Depth == Len(running) + Cardinality(Waiting)

\* How late a job would be were it to start now, against the level it holds
\* from its deadline origin, and as it was submitted.
Late(j)            == now - job[j].from > For(job[j].prio)
LateAsSubmitted_held(j) == now - at[j] > For(job[j].prio)
LateAsSubmitted(j) == now - at[j] > For(Level[j])

\* What one executor can give a job in this interval out of what is left.
Work_unbounded(j) == Least(job[j].remaining, call.budget)
Work(j) == Least(Least(call.interval, job[j].remaining), call.budget)

Finishes(j) == job[j].remaining = Work(j)

\* The budget once job j has been worked on.
BudgetLeft(j) == call.budget - Work(j)

\* judgeStart: whether a job starting now is a breach not counted already, by
\* the level it holds and by the one it was submitted at.
StartBreaches(j) ==
  job[j].started = Never /\ ~job[j].breached /\ Late(j)

StartBreachesAs(j) ==
  job[j].started = Never /\ ~job[j].breachedAs /\ LateAsSubmitted(j)

\* Whether a waiting job is counted as breached once it has started.
BreachedAtStart_rejudged(j) == Late(j)
BreachedAtStart(j) == job[j].breached \/ StartBreaches(j)

\* The exempt jobs still waiting once job j has left its level.
ExemptLeft_kept(j) == exemptWaiting
ExemptLeft(j) == IF job[j].exempt THEN exemptWaiting - 1 ELSE exemptWaiting

-----------------------------------------------------------------------------

\* A queued record as admit makes it.
Admitted(j) ==
  [prio |-> Level[j], from |-> at[j], remaining |-> Seconds[j],
   started |-> Never, waiting |-> TRUE, exempt |-> FALSE, moving |-> FALSE,
   moved |-> FALSE, breached |-> FALSE, breachedAs |-> FALSE]

NoRecord ==
  [prio |-> 0, from |-> 0, remaining |-> 0,
   started |-> Never, waiting |-> FALSE, exempt |-> FALSE, moving |-> FALSE,
   moved |-> FALSE, breached |-> FALSE, breachedAs |-> FALSE]

NoCall == [interval |-> 0, executors |-> 0, budget |-> 0, carried |-> 0,
           completed |-> 0, late |-> 0, updates |-> 0]

\* New
Init ==
  /\ now = 0
  /\ at \in {f \in [Jobs -> Instants \cup {0}] :
              /\ \A j \in Log : f[j] \in Instants
              /\ \A j \in Workflow : f[j] = 0}
  /\ log = Log /\ tail = {} /\ jobs = {}
  /\ job = [j \in Jobs |-> NoRecord]
  /\ levels = [p \in Priorities |-> {}] /\ ahead = {}
  /\ running = <<>> /\ todo = <<>> /\ finished = {}
  /\ stats = [submitted |-> 0, completed |-> 0, breached |-> 0,
              breachedAs |-> 0, reprioritised |-> 0, peakDepth |-> 0]
  /\ exemptWaiting = 0
  /\ pc = "idle" /\ call = NoCall
  /\ reported = [completed |-> 0, breached |-> 0]

\* A fleet size as Advance counts it.
Ready_unclamped(executors) == executors
Ready(executors) == Greatest(0, executors)

\* Advance, up to its first loop.  A call that does not move the clock forward
\* returns at once and changes nothing.
Advance(to, executors) ==
  /\ pc = "idle"
  /\ to > now
  /\ now' = to
  /\ pc' = "arrivals"
  /\ call' = [NoCall EXCEPT
       !.interval  = to - now,
       !.executors = Ready(executors),
       !.budget    = Ready(executors) * (to - now),
       !.carried   = Len(running)]
  /\ UNCHANGED <<at, feeds, job, queue, running, todo, finished, stats,
                 exemptWaiting, reported>>

\* admit: the job joins the back of its level and its deadline starts running.
Admit(j) ==
  LET p == Level[j] IN
  /\ job' = [job EXCEPT ![j] = Admitted(j)]
  /\ levels' = [levels EXCEPT ![p] = @ \cup {j}]
  /\ ahead' = ahead \cup {<<i, j>> : i \in levels[p]}
  /\ jobs' = jobs \cup {j}
  /\ stats' = [stats EXCEPT !.submitted = @ + 1]

\* admitArrivals, first loop: the job log up to the clock.
AdmitArrival(j) ==
  /\ pc = "arrivals"
  /\ IsNext(j, log) /\ at[j] <= now
  /\ Admit(j)
  /\ log' = log \ {j}
  /\ UNCHANGED <<time, tail, running, todo, finished, exemptWaiting, pc, call,
                 reported>>

\* admitArrivals, second loop: the submitted work up to the clock.
AdmitSubmitted(j) ==
  /\ pc = "arrivals"
  /\ \A i \in log : at[i] > now
  /\ IsNext(j, tail) /\ at[j] <= now
  /\ Admit(j)
  /\ tail' = tail \ {j}
  /\ UNCHANGED <<time, log, running, todo, finished, exemptWaiting, pc, call,
                 reported>>

\* Both loops over: the peak is measured, and serve begins.  With no budget it
\* returns before touching anything.
ArrivalsOver ==
  /\ pc = "arrivals"
  /\ \A i \in log \cup tail : at[i] > now
  /\ stats' = [stats EXCEPT !.peakDepth = Greatest(@, Depth)]
  /\ IF call.budget > 0
     THEN pc' = "running" /\ todo' = running /\ running' = <<>>
     ELSE pc' = "count" /\ UNCHANGED <<running, todo>>
  /\ UNCHANGED <<time, feeds, job, queue, finished, exemptWaiting, call,
                 reported>>

-----------------------------------------------------------------------------

\* What is in progress once the budget runs out half-way through it.
CarriedForward_dropped == running
CarriedForward == running \o todo

\* serve, first loop: an executor that has started a job stays on it.  Once the
\* budget is spent the rest is carried forward untouched.
ServeRunning ==
  LET j == Head(todo) IN
  /\ pc = "running"
  /\ todo # <<>>
  /\ IF call.budget = 0
     THEN /\ running' = CarriedForward
          /\ todo' = <<>>
          /\ UNCHANGED <<job, finished, stats, call>>
     ELSE /\ todo' = Tail(todo)
          /\ job' = [job EXCEPT ![j].remaining = @ - Work(j)]
          /\ IF Finishes(j)
             THEN /\ finished' = finished \cup {j}
                  /\ stats' = [stats EXCEPT !.completed = @ + 1]
                  /\ call' = [call EXCEPT !.budget = BudgetLeft(j),
                                          !.completed = @ + 1]
                  /\ UNCHANGED running
             ELSE /\ running' = Append(running, j)
                  /\ call' = [call EXCEPT !.budget = BudgetLeft(j)]
                  /\ UNCHANGED <<finished, stats>>
  /\ UNCHANGED <<time, feeds, queue, exemptWaiting, pc, reported>>

RunningServed ==
  /\ pc = "running"
  /\ todo = <<>>
  /\ pc' = "waiting"
  /\ UNCHANGED <<time, feeds, job, queue, running, todo, finished, stats,
                 exemptWaiting, call, reported>>

\* What taking job j out of its level and working on it leaves of it.
Picked(j) ==
  [job[j] EXCEPT
     !.started    = IF @ = Never THEN now ELSE @,
     !.waiting    = FALSE,
     !.breached   = BreachedAtStart(j),
     !.breachedAs = @ \/ StartBreachesAs(j),
     !.remaining  = @ - Work(j)]

\* serve, second loop, with judgeStart and complete: the head of the most
\* urgent level leaves it, is judged if this is its start, and is worked on.
ServeWaiting(p, j) ==
  /\ pc = "waiting"
  /\ call.budget > 0
  /\ IsTop(p) /\ IsHead(j, p)
  /\ job' = [job EXCEPT ![j] = Picked(j)]
  /\ levels' = [levels EXCEPT ![p] = @ \ {j}]
  /\ ahead' = {e \in ahead : e[1] # j /\ e[2] # j}
  /\ exemptWaiting' = ExemptLeft(j)
  /\ stats' = [stats EXCEPT
       !.breached   = CountIf(StartBreaches(j), @),
       !.breachedAs = CountIf(StartBreachesAs(j), @),
       !.completed  = CountIf(Finishes(j), @)]
  /\ call' = [call EXCEPT
       !.budget    = BudgetLeft(j),
       !.late      = CountIf(StartBreaches(j), @),
       !.completed = CountIf(Finishes(j), @)]
  /\ finished' = IF Finishes(j) THEN finished \cup {j} ELSE finished
  /\ running' = IF Finishes(j) THEN running ELSE Append(running, j)
  /\ UNCHANGED <<time, feeds, todo, pc, reported>>

\* The second loop ends with the budget, or with the waiting work.
NothingToServe_idle == call.budget = 0
NothingToServe == call.budget = 0 \/ ~SomeoneWaits

WaitingServed ==
  /\ pc = "waiting"
  /\ NothingToServe
  /\ pc' = "count"
  /\ UNCHANGED <<time, feeds, job, queue, running, todo, finished, stats,
                 exemptWaiting, call, reported>>

\* The unbreached jobs of level p the scan of countBreaches reaches: it stops
\* at the first job that is neither counted already nor past its deadline.
NewlyBreached_first(p) ==
  {j \in levels[p] :
     \A i \in levels[p] :
       (i = j \/ <<i, j>> \in ahead)
         => (~job[i].breached /\ now - job[i].from > For(p))}
NewlyBreached(p) ==
  {j \in levels[p] :
     /\ ~job[j].breached
     /\ \A i \in levels[p] :
          (i = j \/ <<i, j>> \in ahead)
            => (job[i].breached \/ now - job[i].from > For(p))}

\* Progress.Breached: the late starts and what the scan counted.
ProgressBreached(newly) == call.late + Cardinality(newly)

\* countBreaches, and the return of Advance with its Progress.
CountBreaches ==
  LET newly == UNION {NewlyBreached(p) : p \in Priorities} IN
  /\ pc = "count"
  /\ job' = [j \in Jobs |-> [job[j] EXCEPT !.breached = @ \/ j \in newly]]
  /\ stats' = [stats EXCEPT !.breached = @ + Cardinality(newly)]
  /\ reported' = [completed |-> reported.completed + call.completed,
                  breached  |-> reported.breached + ProgressBreached(newly)]
  /\ pc' = "idle" /\ call' = NoCall
  /\ UNCHANGED <<time, feeds, queue, running, todo, finished, exemptWaiting>>

-----------------------------------------------------------------------------

\* Submit of one job asked for at time t.  An identity already in the queue or
\* already pending is refused, and a time gone by is brought up to the clock.
\* The caller numbers its jobs upwards (Pipeline.submit), so the stable sort of
\* the pending work by time is the order SubmittedBefore.  A batch is one
\* Submit per job, up to the first that is refused.
Submit(j, t) ==
  /\ pc = "idle"
  /\ \A i \in Workflow : i < j => i \in jobs \cup tail
  /\ j \notin jobs \cup tail
  /\ at' = [at EXCEPT ![j] = Greatest(t, now)]
  /\ tail' = tail \cup {j}
  /\ UNCHANGED <<now, log, jobs, job, queue, running, todo, finished, stats,
                 exemptWaiting, pc, call, reported>>

\* The work a Reprioritise may still change; the rest is TooLate.
Movable_admitted(j) == j \in jobs
Movable(j) == j \in jobs /\ job[j].waiting

\* What an update leaves of a waiting job: exemption is set either way, and a
\* deadline restarts only with a change of priority.
Updated(j, p, exempt, restart) ==
  [job[j] EXCEPT !.exempt = exempt, !.prio = p,
                 !.moving = @ \/ p # job[j].prio,
                 !.moved  = @ \/ p # job[j].prio,
                 !.from   = IF p # job[j].prio /\ restart THEN now ELSE @]

\* Whether an update is the first to change the job's priority.
FirstMove(j, p) == p # job[j].prio /\ ~job[j].moved

\* Reprioritise, first loop: one update of a batch sent at the current instant.
Update(j, p, exempt, restart) ==
  /\ pc \in {"idle", "reprioritise"} /\ call.updates < MaxUpdates
  /\ pc' = "reprioritise"
  /\ call' = [call EXCEPT !.updates = @ + 1]
  /\ IF Movable(j)
     THEN /\ job' = [job EXCEPT ![j] = Updated(j, p, exempt, restart)]
          /\ exemptWaiting' =
               CASE exempt /\ ~job[j].exempt -> exemptWaiting + 1
                 [] ~exempt /\ job[j].exempt -> exemptWaiting - 1
                 [] OTHER -> exemptWaiting
          /\ stats' = [stats EXCEPT
               !.reprioritised = CountIf(FirstMove(j, p), @)]
     ELSE UNCHANGED <<job, exemptWaiting, stats>>
  /\ UNCHANGED <<time, feeds, queue, running, todo, finished, reported>>

Moving  == {j \in jobs : job[j].moving}
Kept(p) == {j \in levels[p] : ~job[j].moving}

\* Whether the merge emits mover i before j, which stayed in level p: when it
\* goes before j itself or before a job that stands ahead of j.
Overtakes(i, j, p) ==
  \E k \in Kept(p) : (k = j \/ <<k, j>> \in ahead) /\ Before(i, k)

\* The order the movers and the jobs that stayed are merged in, for two of one
\* level: movers among themselves by before, the others as they stood.
MergedBefore_appended(i, j) ==
  \/ ~job[i].moving /\ ~job[j].moving /\ <<i, j>> \in ahead
  \/ job[i].moving /\ job[j].moving /\ Before(i, j)
  \/ ~job[i].moving /\ job[j].moving
MergedBefore(i, j) ==
  \/ ~job[i].moving /\ ~job[j].moving /\ <<i, j>> \in ahead
  \/ job[i].moving /\ job[j].moving /\ Before(i, j)
  \/ job[i].moving /\ ~job[j].moving /\ Overtakes(i, j, job[j].prio)
  \/ ~job[i].moving /\ job[j].moving /\ ~Overtakes(j, i, job[i].prio)

MergedOrder ==
  {e \in Waiting \X Waiting :
     job[e[1]].prio = job[e[2]].prio /\ MergedBefore(e[1], e[2])}

\* Reprioritise, the rest: every mover leaves its level and they are merged
\* into their new levels.
MergeMovers ==
  /\ pc = "reprioritise"
  /\ levels' = [p \in Priorities |->
                  Kept(p) \cup {j \in Moving : job[j].prio = p}]
  /\ ahead' = MergedOrder
  /\ job' = [j \in Jobs |-> [job[j] EXCEPT !.moving = FALSE]]
  /\ pc' = "idle"
  /\ UNCHANGED <<time, feeds, running, todo, finished, stats, exemptWaiting,
                 call, reported>>

-----------------------------------------------------------------------------

\* The calls, made by whoever drives the queue.
Calls ==
  \/ \E to \in Instants, n \in Executors : Advance(to, n)
  \/ \E j \in Workflow, t \in Instants : Submit(j, t)
  \/ \E j \in Jobs, p \in Priorities, exempt, restart \in BOOLEAN :
       Update(j, p, exempt, restart)

\* The rest of a call once made.
Steps ==
  \/ \E j \in Jobs : AdmitArrival(j) \/ AdmitSubmitted(j)
  \/ ArrivalsOver
  \/ ServeRunning \/ RunningServed
  \/ \E p \in Priorities, j \in Jobs : ServeWaiting(p, j)
  \/ WaitingServed
  \/ CountBreaches
  \/ MergeMovers

Next == Calls \/ Steps

\* A call made is run to its end; nobody has to make one.
Spec == Init /\ [][Next]_vars /\ WF_vars(Steps)

-----------------------------------------------------------------------------

\* ageOf
Age(j) == Greatest(0, now - job[j].from)

\* recentArrivalsByLevel, for one level.
RecentArrivals(p) ==
  Cardinality({j \in Log \cap jobs : Level[j] = p /\ at[j] >= now - ArrivalWindow})

\* The first of the jobs S of level p in the level's order.
FirstOf(S) == CHOOSE j \in S : \A i \in S : <<i, j>> \notin ahead

\* One level's aggregate over the jobs S it has of one kind.
Aggregate(S, arrivals) ==
  [depth    |-> Cardinality(S),
   oldest   |-> IF S = {} THEN 0 ELSE Age(FirstOf(S)),
   arrivals |-> arrivals]

\* Snapshot; the rate is left as the count it is computed from.
Snapshot ==
  [p \in {q \in Priorities : levels[q] # {} \/ RecentArrivals(q) > 0} |->
     Aggregate(levels[p], RecentArrivals(p))]

ExemptIn(p)  == {j \in levels[p] : job[j].exempt}
CountedIn(p) == levels[p] \ ExemptIn(p)

\* SnapshotByBurst, with its shortcut for nothing exempt.
SnapshotCounted ==
  IF exemptWaiting = 0 THEN Snapshot
  ELSE [p \in {q \in Priorities : CountedIn(q) # {} \/ RecentArrivals(q) > 0} |->
          Aggregate(CountedIn(p), RecentArrivals(p))]

SnapshotExempt ==
  IF exemptWaiting = 0 THEN <<>>
  ELSE [p \in {q \in Priorities : ExemptIn(q) # {}} |->
          Aggregate(ExemptIn(p), 0)]

\* Done
Done == log = {} /\ tail = {} /\ ~SomeoneWaits /\ running = <<>>

-----------------------------------------------------------------------------
(****************************************************************************)
(* Properties.                                                              *)
(****************************************************************************)

QueuedRecord ==
  [prio : Int, from : Nat, remaining : Nat, started : Nat \cup {Never},
   waiting : BOOLEAN, exempt : BOOLEAN, moving : BOOLEAN, moved : BOOLEAN,
   breached : BOOLEAN, breachedAs : BOOLEAN]

Counters == [submitted : Nat, completed : Nat, breached : Nat,
             breachedAs : Nat, reprioritised : Nat, peakDepth : Nat]

Locals == [interval : Nat, executors : Nat, budget : Nat, carried : Nat,
           completed : Nat, late : Nat, updates : Nat]

\* Every variable of the Simulator keeps its type.
TypeOK ==
  /\ now \in Nat /\ at \in [Jobs -> Nat]
  /\ log \subseteq Log /\ tail \subseteq Workflow /\ jobs \subseteq Jobs
  /\ job \in [Jobs -> QueuedRecord]
  /\ \A j \in jobs : job[j].prio \in Priorities
  /\ levels \in [Priorities -> SUBSET Jobs]
  /\ ahead \subseteq Jobs \X Jobs
  /\ running \in Seq(Jobs) /\ todo \in Seq(Jobs)
  /\ finished \subseteq Jobs
  /\ stats \in Counters
  /\ exemptWaiting \in Int
  /\ pc \in {"idle", "arrivals", "running", "waiting", "count", "reprioritise"}
  /\ call \in Locals
  /\ reported \in [completed : Nat, breached : Nat]

Started(j)  == job[j].started # Never
InList(j, s) == \E i \in DOMAIN s : s[i] = j
NoRepeat(s)  == \A i, k \in DOMAIN s : s[i] = s[k] => i = k
InProgress(j) == InList(j, running) \/ InList(j, todo)

\* Every job handed over is in exactly one place: not yet reached, in the one
\* level its record names, in progress, or returned as finished.  A scale-down
\* in the middle of serve, or a reprioritisation in any order, loses and
\* duplicates none (TestNoJobIsEverLostHoweverTheFleetChanges).
NoJobLost ==
  /\ log \cap jobs = {} /\ tail \cap jobs = {} /\ Log \subseteq log \cup jobs
  /\ finished \subseteq jobs
  /\ \A j \in jobs :
       /\ job[j].waiting <=> ~Started(j)
       /\ job[j].waiting <=> ~(InProgress(j) \/ j \in finished)
       /\ ~(InProgress(j) /\ j \in finished)
       /\ ~(InList(j, running) /\ InList(j, todo))
  /\ \A j \in Jobs : InProgress(j) => j \in jobs
  /\ NoRepeat(running) /\ NoRepeat(todo)
  /\ \A p \in Priorities, j \in Jobs : j \in levels[p] =>
       /\ j \in jobs /\ job[j].waiting
       /\ ~job[j].moving => job[j].prio = p
       /\ \A q \in Priorities : j \in levels[q] => q = p
  /\ \A j \in jobs : job[j].waiting => \E p \in Priorities : j \in levels[p]
  /\ \A j \in Jobs : job[j].waiting => j \in jobs
  /\ \A j \in Jobs : job[j].moving => job[j].waiting /\ pc = "reprioritise"
  /\ todo # <<>> => pc = "running"

\* The split the autoscaler is shown rests on a counter kept by four different
\* lines; it is always the number of waiting jobs that are exempt.
ExemptCounted ==
  exemptWaiting = Cardinality({j \in jobs : job[j].waiting /\ job[j].exempt})

\* Each counter of Stats counts jobs, each once, whatever was late, moved or
\* finished in whichever loop.
CountersMatchJobs ==
  /\ ExemptCounted
  /\ stats.submitted = Cardinality(jobs)
  /\ stats.completed = Cardinality(finished)
  /\ stats.breached = Cardinality({j \in jobs : job[j].breached})
  /\ stats.breachedAs = Cardinality({j \in jobs : job[j].breachedAs})
  /\ stats.reprioritised = Cardinality({j \in jobs : job[j].moved})

\* The completions and breaches the cycles of a run report one by one add up to
\* the totals its metrics state: no breach is reported both by a late start and
\* by the scan of the waiting work, and none by neither.
ReportsAddUp ==
  pc \in {"idle", "reprioritise"} =>
    /\ reported.completed = stats.completed
    /\ reported.breached = stats.breached

\* A started job carries the verdict on the SLA it was submitted under, and one
\* whose priority nothing ever changed is judged the same by both counts
\* (TestWithoutReprioritisationBothBreachCountsAgree).
VerdictsAgree ==
  \A j \in jobs : Started(j) =>
    /\ job[j].breachedAs <=> job[j].started - at[j] > For(Level[j])
    /\ ~job[j].moved => (job[j].breached <=> job[j].breachedAs)

\* Executor-seconds are handed out so that work in progress never outnumbers
\* the executors, beyond what a scale-down left stranded.
NoOvercommit ==
  pc = "count" => Len(running) <= Greatest(call.executors, call.carried)

\* The order in a level is a strict total order on it and nothing else.
LevelsAreQueues ==
  /\ \A e \in ahead : \E p \in Priorities : e[1] \in levels[p] /\ e[2] \in levels[p]
  /\ \A p \in Priorities : \A i, j \in levels[p] :
       /\ <<i, j>> \in ahead => <<j, i>> \notin ahead
       /\ i # j => (<<i, j>> \in ahead \/ <<j, i>> \in ahead)
       /\ \A k \in levels[p] :
            <<i, j>> \in ahead /\ <<j, k>> \in ahead => <<i, k>> \in ahead

\* "A level is kept in this order, so its head is always the job closest to
\* breaching": nobody stands behind a job with a later deadline origin.  merge,
\* countBreaches and Snapshot all rely on it.
DeadlineOrder ==
  pc # "reprioritise" =>
    \A p \in Priorities : \A i, j \in levels[p] :
      <<i, j>> \in ahead => job[i].from <= job[j].from

\* What an interval starts is more urgent than all it leaves waiting: by level,
\* and within a level by deadline.
MostUrgentFirst ==
  pc = "count" =>
    \A i \in jobs, j \in Waiting : job[i].started = now =>
      \/ job[i].prio > job[j].prio
      \/ job[i].prio = job[j].prio /\ job[i].from <= job[j].from

\* When Advance returns, every job still waiting past its deadline has been
\* counted, however the scan stops early.
OverdueIsCounted ==
  [][pc = "count" => \A j \in Waiting : Late(j) => job'[j].breached]_vars

\* Reprioritising, advancing and submitting never reopen what is settled: a
\* breach is not erased by a promotion, and a job that has started keeps its
\* priority, its deadline origin and both verdicts.
StartedIsSettled ==
  [][\A j \in jobs :
       /\ job[j].breached => job'[j].breached
       /\ Started(j) =>
            /\ job'[j].prio = job[j].prio /\ job'[j].from = job[j].from
            /\ job'[j].started = job[j].started
            /\ job'[j].exempt = job[j].exempt
            /\ job'[j].breached = job[j].breached
            /\ job'[j].breachedAs = job[j].breachedAs]_vars

\* The two halves the autoscaler is shown are the queue: depths add up, the
\* older of the two heads is the level's oldest, and exempt work is never among
\* the counted.
BurstSplit ==
  pc = "idle" =>
    LET depth(s, p)  == IF p \in DOMAIN s THEN s[p].depth ELSE 0
        oldest(s, p) == IF p \in DOMAIN s THEN s[p].oldest ELSE 0 IN
    \A p \in Priorities :
      /\ depth(SnapshotCounted, p) + depth(SnapshotExempt, p) = depth(Snapshot, p)
      /\ depth(SnapshotExempt, p) = Cardinality(ExemptIn(p))
      /\ Greatest(oldest(SnapshotCounted, p), oldest(SnapshotExempt, p))
           = oldest(Snapshot, p)

\* "A level that is empty but still receiving work has to be visible": a level
\* that received a job within the window is part of the snapshot.
ReceivingIsVisible ==
  pc = "idle" =>
    \A j \in jobs : at[j] >= now - ArrivalWindow => Level[j] \in DOMAIN Snapshot

\* A level is one queue in deadline order, levels are taken by urgency, and the
\* scan and the snapshot may rely on both.
LevelsInOrder == LevelsAreQueues /\ DeadlineOrder /\ MostUrgentFirst

\* What Stats counts is what the jobs themselves went through, and what the
\* autoscaler is shown is the queue, to the last level.
AccountsAgree == CountersMatchJobs /\ VerdictsAgree /\ BurstSplit /\ ReceivingIsVisible

\* Whatever is submitted in flight and however the fleet changes, each job is
\* served once, by no more than the fleet, and counted and reported once.
ServingAddsUp == NoJobLost /\ NoOvercommit /\ ReportsAddUp /\ VerdictsAgree

\* Where a fleet has its work: what is in progress when an interval begins is
\* due until serve has come to it.
PlaceOf(j) ==
  IF j \notin jobs THEN "coming"
  ELSE IF j \in finished THEN "done"
  ELSE IF j \in Waiting THEN "waiting"
  ELSE IF InList(j, todo) \/ (InList(j, running) /\ pc = "arrivals") THEN "due"
  ELSE IF InList(j, running) THEN "working"
  ELSE "lost"
LeftOf(j) == IF j \in jobs THEN job[j].remaining ELSE Seconds[j]

Abstract == INSTANCE Fleet WITH
  Fleets   <- {Ready(n) : n \in Executors},
  place    <- [j \in Jobs |-> PlaceOf(j)],
  left     <- [j \in Jobs |-> LeftOf(j)],
  interval <- call.interval,
  budget   <- call.budget

\* Whatever is called, the queue does to its work what a fleet does: it keeps
\* executors on what they started, gives a job no more than one executor at a
\* time, and leaves none idle while work waits, whichever loop it is in.
ServesAsAFleet == Abstract!Spec

\* Every call returns: no loop of the Simulator goes round without progress.
EveryCallReturns == (pc # "idle") ~> (pc = "idle")
=============================================================================
