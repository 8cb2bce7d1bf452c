----------------------------- MODULE QueueProofs -----------------------------
(****************************************************************************)
(* What holds of the queue for every job log, deadline and fleet.           *)
(****************************************************************************)
EXTENDS Queue, FiniteSetTheorems, WellFoundedInduction, TLAPS

\* What one executor gives a job is more neither than the job needs nor than
\* the budget has left (serve's two math.Min).
LEMMA WorkBounds ==
  ASSUME TypeOK, NEW j \in Jobs
  PROVE  /\ Work(j) \in Nat
         /\ job[j].remaining - Work(j) \in Nat
         /\ call.budget - Work(j) \in Nat
<1>1. call.interval \in Nat /\ call.budget \in Nat /\ job[j].remaining \in Nat
  BY DEF TypeOK, Locals, QueuedRecord
<1> QED
  BY <1>1 DEF Work, Least

\* A set of jobs has a number.
LEMMA JobsAreFinite ==
  ASSUME NEW S \in SUBSET Jobs
  PROVE  IsFiniteSet(S) /\ Cardinality(S) \in Nat
BY JobsAssumption, FS_Subset, FS_CardinalityType

\* A counter stays a number.
LEMMA CountIfType ==
  ASSUME NEW b, NEW n \in Nat
  PROVE  CountIf(b, n) \in Nat
BY DEF CountIf

\* Type correctness is preserved by every step of the Simulator.
LEMMA TypeStep == TypeOK /\ [Next]_vars => TypeOK'
<1> SUFFICES ASSUME TypeOK, [Next]_vars
             PROVE  TypeOK'
  OBVIOUS
<1>a. call \in Locals /\ stats \in Counters /\ job \in [Jobs -> QueuedRecord]
  BY DEF TypeOK
<1> USE DEF time, feeds, queue
<1>1. ASSUME NEW to \in Instants, NEW n \in Executors, Advance(to, n)
      PROVE  TypeOK'
  <2>1. to \in Nat /\ n \in Int /\ now \in Nat /\ to - now \in Nat
    BY <1>1, BoundsAssumption DEF Advance, TypeOK
  <2>2. Ready(n) \in Nat
    BY <2>1 DEF Ready, Greatest
  <2>3. Ready(n) * (to - now) \in Nat
    BY <2>1, <2>2
  <2>4. Len(running) \in Nat
    BY DEF TypeOK
  <2>5. call' \in Locals
    BY <1>1, <2>1, <2>2, <2>3, <2>4 DEF Advance, Locals, NoCall
  <2>6. QED
    BY <1>1, <2>1, <2>5 DEF Advance, TypeOK
<1>2. ASSUME NEW j \in Workflow, NEW t \in Instants, Submit(j, t)
      PROVE  TypeOK'
  <2>1. Greatest(t, now) \in Nat
    BY BoundsAssumption DEF TypeOK, Greatest
  <2>2. QED
    BY <1>2, <2>1 DEF Submit, TypeOK, Workflow
<1>3. ASSUME NEW j \in Jobs, NEW p \in Priorities,
             NEW exempt \in BOOLEAN, NEW restart \in BOOLEAN,
             Update(j, p, exempt, restart)
      PROVE  TypeOK'
  <2>1. call' \in Locals
    <3>1. call' = [call EXCEPT !.updates = @ + 1]
      BY <1>3 DEF Update
    <3>2. QED
      BY <3>1, <1>a DEF Locals
  <2>2. Updated(j, p, exempt, restart) \in QueuedRecord
    <3>1. job[j] \in QueuedRecord /\ p \in Int /\ now \in Nat
      BY <1>a, LevelsAssumption DEF TypeOK
    <3>2. (job[j].moving \/ p # job[j].prio) \in BOOLEAN
             /\ (job[j].moved \/ p # job[j].prio) \in BOOLEAN
      OBVIOUS
    <3>3. (IF p # job[j].prio /\ restart THEN now ELSE job[j].from) \in Nat
      BY <3>1 DEF QueuedRecord
    <3>4. QED
      BY ZenonT(60), <3>1, <3>2, <3>3 DEF Updated, QueuedRecord
  <2>3. Updated(j, p, exempt, restart).prio = p
    BY <1>a DEF Updated, QueuedRecord
  <2>4. job' \in [Jobs -> QueuedRecord] /\ \A i \in jobs : job'[i].prio \in Priorities
    <3>1. job' = job \/ job' = [job EXCEPT ![j] = Updated(j, p, exempt, restart)]
      BY <1>3 DEF Update
    <3>2. QED
      BY <3>1, <1>a, <2>2, <2>3 DEF TypeOK
  <2>5. stats' \in Counters
    <3>1. stats' = stats \/ stats' = [stats EXCEPT
                               !.reprioritised = CountIf(FirstMove(j, p), @)]
      BY <1>3 DEF Update
    <3>2. CountIf(FirstMove(j, p), stats.reprioritised) \in Nat
      BY <1>a, CountIfType DEF Counters
    <3>3. QED
      BY <3>1, <3>2, <1>a DEF Counters
  <2>6. exemptWaiting' \in Int
    <3>1. exemptWaiting' \in {exemptWaiting, exemptWaiting + 1, exemptWaiting - 1}
      BY <1>3 DEF Update
    <3>2. QED
      BY <3>1 DEF TypeOK
  <2>7. QED
    BY <1>3, <2>1, <2>4, <2>5, <2>6 DEF Update, TypeOK
<1>4. ASSUME NEW j \in Jobs, Admit(j), AdmitArrival(j) \/ AdmitSubmitted(j)
      PROVE  TypeOK'
  <2>1. Level[j] \in Priorities /\ Seconds[j] \in Nat
    BY JobsAssumption
  <2>2. Admitted(j) \in QueuedRecord /\ Admitted(j).prio \in Priorities
    <3>1. at[j] \in Nat /\ Level[j] \in Int
      BY <2>1, LevelsAssumption DEF TypeOK
    <3>2. QED
      BY <2>1, <3>1 DEF Admitted, QueuedRecord
  <2>3. job' \in [Jobs -> QueuedRecord] /\ \A i \in jobs' : job'[i].prio \in Priorities
    <3>1. job' = [job EXCEPT ![j] = Admitted(j)] /\ jobs' = jobs \cup {j}
      BY <1>4 DEF Admit
    <3>2. QED
      BY <3>1, <1>a, <2>2 DEF TypeOK
  <2>4. levels' \in [Priorities -> SUBSET Jobs] /\ ahead' \subseteq Jobs \X Jobs
    BY <1>4, <2>1 DEF Admit, TypeOK
  <2>5. stats' \in Counters /\ jobs' \subseteq Jobs
    <3>1. stats' = [stats EXCEPT !.submitted = @ + 1]
      BY <1>4 DEF Admit
    <3>2. stats' \in Counters
      BY <3>1, <1>a DEF Counters
    <3>3. QED
      BY <1>4, <3>2 DEF Admit, TypeOK
  <2>6. QED
    BY <1>4, <2>3, <2>4, <2>5 DEF AdmitArrival, AdmitSubmitted, TypeOK
<1>5. ASSUME ArrivalsOver
      PROVE  TypeOK'
  <2>1. Depth \in Nat
    <3>1. Waiting \in SUBSET Jobs
      BY DEF Waiting, TypeOK
    <3>2. QED
      BY <3>1, JobsAreFinite DEF Depth, TypeOK
  <2>2. stats' \in Counters
    <3>1. stats' = [stats EXCEPT !.peakDepth = Greatest(@, Depth)]
      BY <1>5 DEF ArrivalsOver
    <3>2. Greatest(stats.peakDepth, Depth) \in Nat
      BY <2>1, <1>a DEF Counters, Greatest
    <3>3. QED
      BY <3>1, <3>2, <1>a DEF Counters
  <2>3. pc' \in {"running", "count"} /\ running' \in Seq(Jobs) /\ todo' \in Seq(Jobs)
    <3>1. running \in Seq(Jobs) /\ todo \in Seq(Jobs) /\ <<>> \in Seq(Jobs)
      BY DEF TypeOK
    <3>2. \/ pc' = "running" /\ todo' = running /\ running' = <<>>
          \/ pc' = "count" /\ todo' = todo /\ running' = running
      BY <1>5 DEF ArrivalsOver
    <3>3. QED
      BY <3>1, <3>2
  <2>4. QED
    BY <1>5, <2>2, <2>3 DEF ArrivalsOver, TypeOK
<1>6. ASSUME ServeRunning
      PROVE  TypeOK'
  <2> DEFINE j == Head(todo)
  <2>1. j \in Jobs /\ Tail(todo) \in Seq(Jobs) /\ Append(running, j) \in Seq(Jobs)
    BY <1>6 DEF ServeRunning, TypeOK
  <2>2. running \o todo \in Seq(Jobs)
    BY DEF TypeOK
  <2>3. job' \in [Jobs -> QueuedRecord] /\ \A i \in jobs : job'[i].prio = job[i].prio
    <3>1. job' = job \/ job' = [job EXCEPT ![j].remaining = @ - Work(j)]
      BY <1>6 DEF ServeRunning
    <3>2. job[j].remaining - Work(j) \in Nat
      BY <2>1, WorkBounds
    <3>3. [job[j] EXCEPT !.remaining = @ - Work(j)] \in QueuedRecord
      BY <3>2, <2>1, <1>a DEF QueuedRecord
    <3>4. [job[j] EXCEPT !.remaining = @ - Work(j)].prio = job[j].prio
      BY <2>1, <1>a DEF QueuedRecord
    <3>5. CASE job' = job
      BY <3>5, <1>a
    <3>6. CASE job' = [job EXCEPT ![j].remaining = @ - Work(j)]
      <4>1. job' = [job EXCEPT ![j] = [job[j] EXCEPT !.remaining = @ - Work(j)]]
        BY <3>6
      <4>2. QED
        BY <4>1, <3>3, <3>4, <2>1, <1>a DEF TypeOK
    <3>7. QED
      BY <3>1, <3>5, <3>6
  <2>4. call' \in Locals
    <3>1. \/ call' = call
          \/ call' = [call EXCEPT !.budget = BudgetLeft(j), !.completed = @ + 1]
          \/ call' = [call EXCEPT !.budget = BudgetLeft(j)]
      BY <1>6 DEF ServeRunning
    <3>2. BudgetLeft(j) \in Nat
      BY <2>1, WorkBounds DEF BudgetLeft
    <3>3. [call EXCEPT !.budget = BudgetLeft(j)] \in Locals
      BY <3>2, <1>a DEF Locals
    <3>4. [call EXCEPT !.budget = BudgetLeft(j), !.completed = @ + 1] \in Locals
      <4>1. call.completed + 1 \in Nat
        BY <1>a DEF Locals
      <4>2. QED
        BY <4>1, <3>2, <1>a DEF Locals
    <3>5. QED
      BY <3>1, <3>3, <3>4, <1>a
  <2>5. stats' \in Counters
    <3>1. stats' = stats \/ stats' = [stats EXCEPT !.completed = @ + 1]
      BY <1>6 DEF ServeRunning
    <3>2. [stats EXCEPT !.completed = @ + 1] \in Counters
      BY <1>a DEF Counters
    <3>3. QED
      BY <3>1, <3>2, <1>a
  <2>6. /\ running' \in Seq(Jobs) /\ todo' \in Seq(Jobs) /\ finished' \subseteq Jobs
    <3>1. running' \in {running, running \o todo, Append(running, j)}
      BY <1>6 DEF ServeRunning, CarriedForward
    <3>2. todo' \in {<<>>, Tail(todo)} /\ finished' \in {finished, finished \cup {j}}
      BY <1>6 DEF ServeRunning
    <3>3. <<>> \in Seq(Jobs)
      OBVIOUS
    <3>4. QED
      BY <3>1, <3>2, <3>3, <2>1, <2>2 DEF TypeOK
  <2>7. QED
    BY <1>6, <2>3, <2>4, <2>5, <2>6 DEF ServeRunning, TypeOK
<1>7. ASSUME RunningServed \/ WaitingServed
      PROVE  TypeOK'
  BY <1>7 DEF RunningServed, WaitingServed, TypeOK
<1>8. ASSUME NEW p \in Priorities, NEW j \in Jobs, ServeWaiting(p, j)
      PROVE  TypeOK'
  <2>1. job' \in [Jobs -> QueuedRecord] /\ \A i \in jobs : job'[i].prio = job[i].prio
    <3>1. job' = [job EXCEPT ![j] = Picked(j)]
      BY <1>8 DEF ServeWaiting
    <3>2. job[j] \in QueuedRecord /\ job[j].remaining - Work(j) \in Nat
      BY <1>a, WorkBounds
    <3>3. BreachedAtStart(j) \in BOOLEAN
            /\ (job[j].breachedAs \/ StartBreachesAs(j)) \in BOOLEAN
      BY <3>2 DEF BreachedAtStart, QueuedRecord
    <3>4. (IF job[j].started = Never THEN now ELSE job[j].started) \in Nat \cup {Never}
      BY <3>2 DEF TypeOK, QueuedRecord
    <3>5. Picked(j) \in QueuedRecord /\ Picked(j).prio = job[j].prio
      BY ZenonT(60), <3>2, <3>3, <3>4 DEF Picked, QueuedRecord
    <3>6. QED
      BY <3>1, <3>5, <1>a
  <2>2. call' \in Locals
    <3>1. call' = [call EXCEPT
             !.budget    = BudgetLeft(j),
             !.late      = CountIf(StartBreaches(j), @),
             !.completed = CountIf(Finishes(j), @)]
      BY <1>8 DEF ServeWaiting
    <3>2. BudgetLeft(j) \in Nat
      BY WorkBounds DEF BudgetLeft
    <3>3. CountIf(StartBreaches(j), call.late) \in Nat
            /\ CountIf(Finishes(j), call.completed) \in Nat
      BY <1>a, CountIfType DEF Locals
    <3>4. QED
      BY <3>1, <3>2, <3>3, <1>a DEF Locals
  <2>3. stats' \in Counters
    <3>1. stats' = [stats EXCEPT
             !.breached   = CountIf(StartBreaches(j), @),
             !.breachedAs = CountIf(StartBreachesAs(j), @),
             !.completed  = CountIf(Finishes(j), @)]
      BY <1>8 DEF ServeWaiting
    <3>2. /\ CountIf(StartBreaches(j), stats.breached) \in Nat
          /\ CountIf(StartBreachesAs(j), stats.breachedAs) \in Nat
          /\ CountIf(Finishes(j), stats.completed) \in Nat
      BY <1>a, CountIfType DEF Counters
    <3>3. QED
      BY <3>1, <3>2, <1>a DEF Counters
  <2>4. exemptWaiting' \in Int
    BY <1>8 DEF ServeWaiting, TypeOK, ExemptLeft
  <2>5. running' \in Seq(Jobs) /\ finished' \subseteq Jobs
    BY <1>8 DEF ServeWaiting, TypeOK
  <2>6. levels' \in [Priorities -> SUBSET Jobs] /\ ahead' \subseteq Jobs \X Jobs
    BY <1>8 DEF ServeWaiting, TypeOK
  <2>7. QED
    BY <1>8, <2>1, <2>2, <2>3, <2>4, <2>5, <2>6 DEF ServeWaiting, TypeOK
<1>9. ASSUME CountBreaches
      PROVE  TypeOK'
  <2> DEFINE newly == UNION {NewlyBreached(p) : p \in Priorities}
  <2>1. newly \in SUBSET Jobs
    BY DEF NewlyBreached, TypeOK
  <2>2. Cardinality(newly) \in Nat
    BY <2>1, JobsAreFinite
  <2>3. job' \in [Jobs -> QueuedRecord] /\ \A i \in jobs : job'[i].prio = job[i].prio
    <3>1. job' = [j \in Jobs |-> [job[j] EXCEPT !.breached = @ \/ j \in newly]]
      BY <1>9 DEF CountBreaches
    <3>2. \A j \in Jobs : (job[j].breached \/ j \in newly) \in BOOLEAN
      OBVIOUS
    <3>3. ASSUME NEW j \in Jobs
          PROVE  job'[j] \in QueuedRecord /\ job'[j].prio = job[j].prio
      <4>1. job'[j] = [job[j] EXCEPT !.breached = @ \/ j \in newly]
        BY <3>1
      <4>2. job[j] \in QueuedRecord /\ (job[j].breached \/ j \in newly) \in BOOLEAN
        BY <3>2, <1>a
      <4>3. QED
        BY <4>1, <4>2 DEF QueuedRecord
    <3>4. QED
      BY <3>1, <3>3 DEF TypeOK
  <2>4. stats' \in Counters
    <3>1. stats' = [stats EXCEPT !.breached = @ + Cardinality(newly)]
      BY <1>9 DEF CountBreaches
    <3>2. QED
      BY <3>1, <2>2, <1>a DEF Counters
  <2>5. reported' \in [completed : Nat, breached : Nat]
    <3>1. reported' = [completed |-> reported.completed + call.completed,
                       breached  |-> reported.breached + ProgressBreached(newly)]
      BY <1>9 DEF CountBreaches
    <3>2. ProgressBreached(newly) \in Nat
      BY <2>2, <1>a DEF ProgressBreached, Locals
    <3>3. QED
      BY <3>1, <3>2, <1>a DEF TypeOK, Locals
  <2>6. call' \in Locals
    BY <1>9 DEF CountBreaches, NoCall, Locals
  <2>7. QED
    BY <1>9, <2>3, <2>4, <2>5, <2>6 DEF CountBreaches, TypeOK
<1>10. ASSUME MergeMovers
       PROVE  TypeOK'
  <2>1. job' \in [Jobs -> QueuedRecord] /\ \A i \in jobs : job'[i].prio = job[i].prio
    <3>1. job' = [j \in Jobs |-> [job[j] EXCEPT !.moving = FALSE]]
      BY <1>10 DEF MergeMovers
    <3>2. job \in [Jobs -> QueuedRecord] /\ jobs \subseteq Jobs
      BY DEF TypeOK
    <3>3. ASSUME NEW i \in Jobs
          PROVE  /\ [job[i] EXCEPT !.moving = FALSE] \in QueuedRecord
                 /\ [job[i] EXCEPT !.moving = FALSE].prio = job[i].prio
      <4>1. job[i] \in QueuedRecord
        BY ONLY <3>2, <3>3
      <4>2. QED
        BY ONLY <4>1 DEF QueuedRecord
    <3>4. QED
      BY ONLY <3>1, <3>2, <3>3
  <2>2. levels' \in [Priorities -> SUBSET Jobs]
    BY <1>10 DEF MergeMovers, Kept, Moving, TypeOK
  <2>3. ahead' \subseteq Jobs \X Jobs
    BY <1>10 DEF MergeMovers, MergedOrder, Waiting, TypeOK
  <2>4. QED
    BY <1>10, <2>1, <2>2, <2>3 DEF MergeMovers, TypeOK
<1>11. CASE UNCHANGED vars
  BY <1>11 DEF vars, TypeOK
<1>12. QED
  BY <1>1, <1>2, <1>3, <1>4, <1>5, <1>6, <1>7, <1>8, <1>9, <1>10, <1>11
  DEF Next, Calls, Steps, AdmitArrival, AdmitSubmitted

\* A new simulator is well typed.
LEMMA TypeInit == Init => TypeOK
<1> SUFFICES ASSUME Init
             PROVE  TypeOK
  OBVIOUS
<1>1. at \in [Jobs -> Nat]
  <2>1. at \in [Jobs -> Instants \cup {0}]
    BY DEF Init
  <2>2. \A i \in Instants \cup {0} : i \in Nat
    BY BoundsAssumption
  <2>3. QED
    BY <2>1, <2>2
<1>2. job \in [Jobs -> QueuedRecord]
  BY DEF Init, NoRecord, QueuedRecord
<1>3. call \in Locals /\ stats \in Counters
  BY DEF Init, Counters, Locals, NoCall
<1>4. QED
  BY <1>1, <1>2, <1>3, JobsAssumption DEF Init, TypeOK

\* Every variable of the Simulator keeps its type, whatever is called when.
THEOREM TypeCorrect == Spec => []TypeOK
<1>1. QED
  BY TypeInit, TypeStep, PTL DEF Spec

-----------------------------------------------------------------------------

\* A list of jobs, its head and its tail.
LEMMA TailOfList ==
  ASSUME NEW s \in Seq(Jobs), s # <<>>
  PROVE  /\ \A j : InList(j, s) <=> j = Head(s) \/ InList(j, Tail(s))
         /\ NoRepeat(s) => NoRepeat(Tail(s)) /\ ~InList(Head(s), Tail(s))
<1>1. /\ Len(s) \in Nat \ {0} /\ Tail(s) \in Seq(Jobs) /\ Head(s) = s[1]
      /\ Len(Tail(s)) = Len(s) - 1
      /\ \A i \in 1 .. Len(s) - 1 : Tail(s)[i] = s[i + 1]
      /\ DOMAIN s = 1 .. Len(s) /\ DOMAIN Tail(s) = 1 .. Len(s) - 1
  OBVIOUS
<1>2. ASSUME NEW j, InList(j, s)
      PROVE  j = Head(s) \/ InList(j, Tail(s))
  <2>1. PICK i \in 1 .. Len(s) : s[i] = j
    BY <1>1, <1>2 DEF InList
  <2>2. CASE i = 1
    BY <1>1, <2>1, <2>2
  <2>3. CASE i # 1
    <3>1. i - 1 \in 1 .. Len(s) - 1 /\ Tail(s)[i - 1] = j
      BY <1>1, <2>1, <2>3
    <3>2. QED
      BY <1>1, <3>1 DEF InList
  <2>4. QED
    BY <2>2, <2>3
<1>3. ASSUME NEW j, InList(j, Tail(s))
      PROVE  InList(j, s)
  <2>1. PICK i \in 1 .. Len(s) - 1 : Tail(s)[i] = j
    BY <1>1, <1>3 DEF InList
  <2>2. i + 1 \in 1 .. Len(s) /\ s[i + 1] = j
    BY <1>1, <2>1
  <2>3. QED
    BY <1>1, <2>2 DEF InList
<1>4. InList(Head(s), s)
  BY <1>1 DEF InList
<1>5. ASSUME NoRepeat(s)
      PROVE  NoRepeat(Tail(s)) /\ ~InList(Head(s), Tail(s))
  <2>1. ASSUME NEW i \in 1 .. Len(s) - 1, NEW k \in 1 .. Len(s) - 1,
               Tail(s)[i] = Tail(s)[k]
        PROVE  i = k
    <3>1. i + 1 \in 1 .. Len(s) /\ k + 1 \in 1 .. Len(s) /\ s[i + 1] = s[k + 1]
      BY <1>1, <2>1
    <3>2. i + 1 = k + 1
      BY <1>1, <1>5, <3>1 DEF NoRepeat
    <3>3. QED
      BY <3>2
  <2>2. ASSUME NEW i \in 1 .. Len(s) - 1, Tail(s)[i] = Head(s)
        PROVE  FALSE
    <3>1. i + 1 \in 1 .. Len(s) /\ 1 \in 1 .. Len(s) /\ s[i + 1] = s[1]
      BY <1>1, <2>2
    <3>2. i + 1 = 1
      BY <1>1, <1>5, <3>1 DEF NoRepeat
    <3>3. QED
      BY <3>2
  <2>3. QED
    BY <1>1, <2>1, <2>2 DEF NoRepeat, InList
<1>6. QED
  BY <1>2, <1>3, <1>4, <1>5

\* A list of jobs with one more at its end.
LEMMA AppendToList ==
  ASSUME NEW s \in Seq(Jobs), NEW e \in Jobs
  PROVE  /\ \A j : InList(j, Append(s, e)) <=> InList(j, s) \/ j = e
         /\ NoRepeat(s) /\ ~InList(e, s) => NoRepeat(Append(s, e))
<1> DEFINE t == Append(s, e)
<1>1. /\ Len(s) \in Nat /\ DOMAIN s = 1 .. Len(s) /\ DOMAIN t = 1 .. Len(s) + 1
      /\ t[Len(s) + 1] = e /\ \A i \in 1 .. Len(s) : t[i] = s[i]
  OBVIOUS
<1> HIDE DEF t
<1>2. ASSUME NEW j
      PROVE  InList(j, t) <=> InList(j, s) \/ j = e
  BY <1>1 DEF InList
<1>3. ASSUME NoRepeat(s), ~InList(e, s)
      PROVE  NoRepeat(t)
  <2> SUFFICES ASSUME NEW i \in 1 .. Len(s) + 1, NEW k \in 1 .. Len(s) + 1,
                      t[i] = t[k]
               PROVE  i = k
    BY <1>1 DEF NoRepeat
  <2>1. CASE i = Len(s) + 1 \/ k = Len(s) + 1
    BY <1>1, <1>3, <2>1 DEF InList
  <2>2. CASE i # Len(s) + 1 /\ k # Len(s) + 1
    <3>1. i \in 1 .. Len(s) /\ k \in 1 .. Len(s) /\ s[i] = s[k]
      BY <1>1, <2>2
    <3>2. QED
      BY <1>1, <1>3, <3>1 DEF NoRepeat
  <2>3. QED
    BY <2>1, <2>2
<1>4. QED
  BY <1>2, <1>3 DEF t

\* Two lists of jobs, one after the other.
LEMMA ConcatOfLists ==
  ASSUME NEW s \in Seq(Jobs), NEW u \in Seq(Jobs)
  PROVE  /\ \A j : InList(j, s \o u) <=> InList(j, s) \/ InList(j, u)
         /\ NoRepeat(s) /\ NoRepeat(u) /\ (\A j \in Jobs : ~(InList(j, s) /\ InList(j, u)))
              => NoRepeat(s \o u)
<1> DEFINE t == s \o u
<1>1. /\ Len(s) \in Nat /\ Len(u) \in Nat
      /\ DOMAIN s = 1 .. Len(s) /\ DOMAIN u = 1 .. Len(u)
      /\ DOMAIN t = 1 .. Len(s) + Len(u)
      /\ \A i \in 1 .. Len(s) : t[i] = s[i] /\ s[i] \in Jobs
      /\ \A i \in Len(s) + 1 .. Len(s) + Len(u) : t[i] = u[i - Len(s)]
  OBVIOUS
<1> HIDE DEF t
<1>2. ASSUME NEW j
      PROVE  InList(j, t) <=> InList(j, s) \/ InList(j, u)
  <2>1. ASSUME InList(j, t)
        PROVE  InList(j, s) \/ InList(j, u)
    <3>1. PICK i \in 1 .. Len(s) + Len(u) : t[i] = j
      BY <1>1, <2>1 DEF InList
    <3>2. CASE i <= Len(s)
      BY <1>1, <3>1, <3>2 DEF InList
    <3>3. CASE i > Len(s)
      <4>1. i - Len(s) \in 1 .. Len(u) /\ u[i - Len(s)] = j
        BY <1>1, <3>1, <3>3
      <4>2. QED
        BY <1>1, <4>1 DEF InList
    <3>4. QED
      BY <1>1, <3>2, <3>3
  <2>2. ASSUME InList(j, s)
        PROVE  InList(j, t)
    BY <1>1, <2>2 DEF InList
  <2>3. ASSUME InList(j, u)
        PROVE  InList(j, t)
    <3>1. PICK i \in 1 .. Len(u) : u[i] = j
      BY <1>1, <2>3 DEF InList
    <3>2. i + Len(s) \in Len(s) + 1 .. Len(s) + Len(u) /\ (i + Len(s)) - Len(s) = i
      BY <1>1
    <3>3. t[i + Len(s)] = j /\ i + Len(s) \in DOMAIN t
      BY <1>1, <3>1, <3>2
    <3>4. QED
      BY <3>3 DEF InList
  <2>4. QED
    BY <2>1, <2>2, <2>3
<1>3. ASSUME NoRepeat(s), NoRepeat(u), \A j \in Jobs : ~(InList(j, s) /\ InList(j, u))
      PROVE  NoRepeat(t)
  <2> SUFFICES ASSUME NEW i \in 1 .. Len(s) + Len(u), NEW k \in 1 .. Len(s) + Len(u),
                      t[i] = t[k]
               PROVE  i = k
    BY <1>1 DEF NoRepeat
  <2>1. CASE i <= Len(s) /\ k <= Len(s)
    BY <1>1, <1>3, <2>1 DEF NoRepeat
  <2>2. CASE i > Len(s) /\ k > Len(s)
    <3>1. /\ i - Len(s) \in DOMAIN u /\ k - Len(s) \in DOMAIN u
          /\ u[i - Len(s)] = u[k - Len(s)]
      BY <1>1, <2>2
    <3>2. i - Len(s) = k - Len(s)
      BY <1>3, <3>1 DEF NoRepeat
    <3>3. QED
      BY <1>1, <3>2
  <2>3. ASSUME NEW a \in 1 .. Len(s), NEW b \in Len(s) + 1 .. Len(s) + Len(u), t[a] = t[b]
        PROVE  FALSE
    <3>1. s[a] = u[b - Len(s)] /\ b - Len(s) \in DOMAIN u /\ a \in DOMAIN s /\ s[a] \in Jobs
      BY <1>1, <2>3
    <3>2. InList(s[a], s) /\ InList(s[a], u)
      BY <3>1 DEF InList
    <3>3. QED
      BY <1>3, <3>1, <3>2
  <2>4. QED
    BY <1>1, <2>1, <2>2, <2>3
<1>4. QED
  BY <1>2, <1>3 DEF t

-----------------------------------------------------------------------------

\* Every step leaves every job in exactly one place.
LEMMA NoJobLostStep == TypeOK /\ NoJobLost /\ [Next]_vars => NoJobLost'
<1> SUFFICES ASSUME TypeOK, NoJobLost, [Next]_vars
             PROVE  NoJobLost'
  OBVIOUS
<1>a. /\ job \in [Jobs -> QueuedRecord] /\ running \in Seq(Jobs) /\ todo \in Seq(Jobs)
      /\ levels \in [Priorities -> SUBSET Jobs] /\ jobs \subseteq Jobs
      /\ log \subseteq Log /\ tail \subseteq Workflow /\ now \in Nat
      /\ finished \subseteq Jobs
  BY DEF TypeOK
<1> USE DEF time, feeds, queue
<1>1. ASSUME NEW to \in Instants, NEW n \in Executors, Advance(to, n)
      PROVE  NoJobLost'
  <2>1. /\ UNCHANGED <<log, tail, jobs, job, levels, running, todo, finished>>
        /\ pc = "idle"
    BY <1>1 DEF Advance
  <2>2. QED
    BY <2>1 DEF NoJobLost, InProgress, InList, NoRepeat, Started
<1>2. ASSUME NEW j \in Workflow, NEW t \in Instants, Submit(j, t)
      PROVE  NoJobLost'
  <2>1. /\ UNCHANGED <<log, jobs, job, levels, running, todo, finished, pc>>
        /\ tail' = tail \cup {j} /\ j \notin jobs
    BY <1>2 DEF Submit
  <2>2. QED
    BY <2>1 DEF NoJobLost, InProgress, InList, NoRepeat, Started
<1>3. ASSUME NEW j \in Jobs, NEW p \in Priorities,
             NEW exempt \in BOOLEAN, NEW restart \in BOOLEAN,
             Update(j, p, exempt, restart)
      PROVE  NoJobLost'
  <2>1. /\ UNCHANGED <<log, tail, jobs, levels, running, todo, finished>>
        /\ pc \in {"idle", "reprioritise"} /\ pc' = "reprioritise"
    BY <1>3 DEF Update
  <2>2. \A i \in Jobs : /\ job'[i].waiting = job[i].waiting
                        /\ job'[i].started = job[i].started
                        /\ job[i].moving => job'[i].moving
                        /\ ~job'[i].moving => job'[i].prio = job[i].prio
                        /\ job'[i].moving => job[i].moving \/ job[i].waiting
    <3>1. CASE Movable(j)
      <4>1. job' = [job EXCEPT ![j] = Updated(j, p, exempt, restart)]
        BY <1>3, <3>1 DEF Update
      <4>2. LET u == Updated(j, p, exempt, restart) IN
              /\ u.waiting = job[j].waiting /\ u.started = job[j].started
              /\ u.moving = (job[j].moving \/ p # job[j].prio) /\ u.prio = p
        BY <1>a DEF Updated, QueuedRecord
      <4>3. QED
        BY <4>1, <4>2, <3>1, <1>a DEF Movable
    <3>2. CASE ~Movable(j)
      BY <1>3, <3>2 DEF Update
    <3>3. QED
      BY <3>1, <3>2
  <2>3. \A i \in Jobs : Started(i)' = Started(i) /\ InProgress(i)' = InProgress(i)
    BY <2>1, <2>2 DEF Started, InProgress, InList
  <2>4. \A i \in Jobs : /\ InList(i, running)' = InList(i, running)
                        /\ InList(i, todo)' = InList(i, todo)
    BY <2>1 DEF InList
  <2>5. NoRepeat(running)' /\ NoRepeat(todo)'
    BY <2>1 DEF NoJobLost, NoRepeat
  <2>6. QED
    BY <2>1, <2>2, <2>3, <2>4, <2>5, <1>a DEF NoJobLost
<1>4. ASSUME NEW j \in Jobs, AdmitArrival(j) \/ AdmitSubmitted(j)
      PROVE  NoJobLost'
  <2>1. /\ UNCHANGED <<running, todo, finished, pc>> /\ pc = "arrivals"
        /\ \/ j \in log /\ log' = log \ {j} /\ tail' = tail
           \/ j \in tail /\ tail' = tail \ {j} /\ log' = log
        /\ Admit(j)
    BY <1>4 DEF AdmitArrival, AdmitSubmitted, IsNext
  <2>2. /\ job' = [job EXCEPT ![j] = Admitted(j)] /\ jobs' = jobs \cup {j}
        /\ levels' = [levels EXCEPT ![Level[j]] = @ \cup {j}]
    BY <2>1 DEF Admit
  <2>3. /\ Admitted(j).waiting = TRUE /\ Admitted(j).moving = FALSE
        /\ Admitted(j).started = Never /\ Admitted(j).prio = Level[j]
    BY DEF Admitted
  <2>4. Level[j] \in Priorities
    BY JobsAssumption
  <2>5. j \notin jobs /\ log \cap tail = {}
    BY <2>1, <1>a DEF NoJobLost, Workflow
  <2>6. ~InProgress(j) /\ j \notin finished /\ \A p \in Priorities : j \notin levels[p]
    BY <2>5 DEF NoJobLost
  <2>7. \A i \in Jobs : i # j => job'[i] = job[i]
    BY <2>2, <1>a
  <2>8. job'[j] = Admitted(j)
    BY <2>2, <1>a
  <2>9. \A i \in Jobs : /\ InProgress(i)' = InProgress(i)
                        /\ InList(i, running)' = InList(i, running)
                        /\ InList(i, todo)' = InList(i, todo)
    BY <2>1 DEF InProgress, InList
  <2>10. \A i \in Jobs : Started(i)' = (Started(i) /\ i # j)
    BY <2>3, <2>7, <2>8, <2>5 DEF Started
  <2>11. NoRepeat(running)' /\ NoRepeat(todo)'
    BY <2>1 DEF NoJobLost, NoRepeat
  <2>12. \A p \in Priorities : levels'[p] = IF p = Level[j] THEN levels[p] \cup {j} ELSE levels[p]
    BY <2>2, <1>a
  <2>13. /\ log' \cap jobs' = {} /\ tail' \cap jobs' = {} /\ Log \subseteq log' \cup jobs'
         /\ finished' \subseteq jobs'
    BY <2>1, <2>2, <2>5 DEF NoJobLost
  <2>14. \A i \in jobs' :
           /\ job'[i].waiting <=> ~Started(i)'
           /\ job'[i].waiting <=> ~(InProgress(i)' \/ i \in finished')
           /\ ~(InProgress(i)' /\ i \in finished')
           /\ ~(InList(i, running)' /\ InList(i, todo)')
    BY ZenonT(60), <2>1, <2>2, <2>3, <2>6, <2>7, <2>8, <2>9, <2>10, <1>a DEF NoJobLost, InProgress
  <2>15. \A p \in Priorities, i \in Jobs : i \in levels'[p] =>
           /\ i \in jobs' /\ job'[i].waiting
           /\ ~job'[i].moving => job'[i].prio = p
           /\ \A q \in Priorities : i \in levels'[q] => q = p
    BY <2>2, <2>3, <2>6, <2>7, <2>8, <2>12, <1>a DEF NoJobLost
  <2>16. \A i \in jobs' : job'[i].waiting => \E p \in Priorities : i \in levels'[p]
    BY <2>2, <2>4, <2>7, <2>12, <1>a DEF NoJobLost
  <2>17. /\ \A i \in Jobs : job'[i].waiting => i \in jobs'
         /\ \A i \in Jobs : ~job'[i].moving
         /\ todo' # <<>> => pc' = "running"
         /\ \A i \in Jobs : InProgress(i)' => i \in jobs'
    BY <2>1, <2>2, <2>3, <2>7, <2>8, <2>9, <1>a DEF NoJobLost
  <2>18. QED
    BY <2>11, <2>13, <2>14, <2>15, <2>16, <2>17 DEF NoJobLost
<1>5. ASSUME ArrivalsOver
      PROVE  NoJobLost'
  <2>1. /\ UNCHANGED <<log, tail, jobs, job, levels, finished>> /\ pc = "arrivals"
        /\ \/ pc' = "running" /\ todo' = running /\ running' = <<>>
           \/ pc' = "count" /\ UNCHANGED <<running, todo>>
    BY <1>5 DEF ArrivalsOver
  <2>2. todo = <<>>
    BY <2>1 DEF NoJobLost
  <2>3. \A i : ~InList(i, <<>>)
    BY DEF InList
  <2>4. NoRepeat(<<>>)
    BY DEF NoRepeat
  <2>5. \A i : InProgress(i)' = InProgress(i) /\ Started(i)' = Started(i)
    BY <2>1, <2>2, <2>3 DEF InProgress, Started
  <2>6. \A i : ~(InList(i, running)' /\ InList(i, todo)')
    BY <2>1, <2>2, <2>3
  <2>7. NoRepeat(running)' /\ NoRepeat(todo)'
    BY <2>1, <2>2, <2>4 DEF NoJobLost
  <2>8. QED
    BY <2>1, <2>2, <2>5, <2>6, <2>7 DEF NoJobLost
<1>6. ASSUME ServeRunning
      PROVE  NoJobLost'
  <2> DEFINE j == Head(todo)
  <2>1. /\ UNCHANGED <<log, tail, jobs, levels, pc>> /\ pc = "running" /\ todo # <<>>
    BY <1>6 DEF ServeRunning
  <2>2. j \in Jobs /\ Tail(todo) \in Seq(Jobs)
    BY <2>1, <1>a
  <2>3. /\ \A i : InList(i, todo) <=> i = j \/ InList(i, Tail(todo))
        /\ NoRepeat(Tail(todo)) /\ ~InList(j, Tail(todo)) /\ InList(j, todo)
    BY <2>1, <1>a, TailOfList DEF NoJobLost
  <2>4. \A i \in Jobs : /\ job'[i].waiting = job[i].waiting
                        /\ job'[i].started = job[i].started
                        /\ job'[i].moving = job[i].moving
                        /\ job'[i].prio = job[i].prio
    <3>1. job' = job \/ job' = [job EXCEPT ![j].remaining = @ - Work(j)]
      BY <1>6 DEF ServeRunning
    <3>2. CASE job' = job
      BY <3>2
    <3>3. CASE job' = [job EXCEPT ![j].remaining = @ - Work(j)]
      BY <3>3, <2>2, <1>a DEF QueuedRecord
    <3>4. QED
      BY <3>1, <3>2, <3>3
  <2>5. \A i \in Jobs : Started(i)' = Started(i)
    BY <2>4 DEF Started
  <2>6. InProgress(j) /\ j \in jobs /\ j \notin finished /\ ~InList(j, running)
    BY <2>2, <2>3 DEF NoJobLost, InProgress
  <2>7. /\ finished' \subseteq jobs'
        /\ \A i \in jobs : (InProgress(i)' \/ i \in finished')
                             <=> (InProgress(i) \/ i \in finished)
        /\ \A i \in Jobs : /\ ~(InProgress(i)' /\ i \in finished')
                           /\ ~(InList(i, running)' /\ InList(i, todo)')
                           /\ InProgress(i)' => i \in jobs'
        /\ NoRepeat(running)' /\ NoRepeat(todo)'
    <3>0. /\ finished \subseteq jobs /\ jobs' = jobs
          /\ NoRepeat(running) /\ NoRepeat(todo)
          /\ \A i \in Jobs : InProgress(i) => i \in jobs
          /\ \A i \in jobs : /\ ~(InProgress(i) /\ i \in finished)
                             /\ ~(InList(i, running) /\ InList(i, todo))
      BY <2>1 DEF NoJobLost
    <3>1. CASE running' = running \o todo /\ todo' = <<>> /\ finished' = finished
      <4>1. \A i : ~InList(i, <<>>)
        BY DEF InList
      <4>2. NoRepeat(<<>>)
        BY DEF NoRepeat
      <4>3. \A i \in Jobs : ~(InList(i, running) /\ InList(i, todo))
        BY <3>0 DEF InProgress
      <4>4. /\ \A i : InList(i, running') <=> InProgress(i)
            /\ NoRepeat(running')
        BY <3>0, <3>1, <4>3, <1>a, ConcatOfLists DEF InProgress
      <4>5. \A i : InProgress(i)' = InProgress(i)
        BY <3>1, <4>1, <4>4 DEF InProgress
      <4>6. QED
        BY <3>0, <3>1, <4>1, <4>2, <4>4, <4>5, <1>a
    <3>2. CASE running' = running /\ todo' = Tail(todo) /\ finished' = finished \cup {j}
      <4>1. \A i \in Jobs : InProgress(i)' <=> InProgress(i) /\ i # j
        BY <2>3, <2>6, <3>2 DEF InProgress
      <4>2. \A i \in Jobs : ~(InList(i, running)' /\ InList(i, todo)')
        BY <2>3, <3>0, <3>2 DEF InProgress
      <4>3. QED
        BY <2>3, <2>6, <3>0, <3>2, <4>1, <4>2, <1>a
    <3>3. CASE running' = Append(running, j) /\ todo' = Tail(todo) /\ finished' = finished
      <4>1. /\ \A i : InList(i, running') <=> InList(i, running) \/ i = j
            /\ NoRepeat(running')
        BY <2>2, <2>6, <3>0, <3>3, <1>a, AppendToList
      <4>2. \A i \in Jobs : InProgress(i)' <=> InProgress(i)
        BY <2>3, <3>3, <4>1 DEF InProgress
      <4>3. \A i \in Jobs : ~(InList(i, running)' /\ InList(i, todo)')
        BY <2>3, <3>0, <3>3, <4>1 DEF InProgress
      <4>4. QED
        BY <2>3, <3>0, <3>3, <4>1, <4>2, <4>3, <1>a
    <3>4. QED
      BY <1>6, <3>1, <3>2, <3>3 DEF ServeRunning, CarriedForward
  <2>8. QED
    BY ZenonT(60), <2>1, <2>4, <2>5, <2>7, <1>a DEF NoJobLost
<1>7. ASSUME RunningServed \/ WaitingServed
      PROVE  NoJobLost'
  <2>1. /\ UNCHANGED <<log, tail, jobs, job, levels, running, todo, finished>>
        /\ pc \in {"running", "waiting"} /\ todo = <<>>
    BY <1>7 DEF RunningServed, WaitingServed, NoJobLost
  <2>2. QED
    BY <2>1 DEF NoJobLost, InProgress, InList, NoRepeat, Started
<1>8. ASSUME NEW p \in Priorities, NEW j \in Jobs, ServeWaiting(p, j)
      PROVE  NoJobLost'
  <2>1. /\ UNCHANGED <<log, tail, jobs, todo, pc>> /\ pc = "waiting"
        /\ job' = [job EXCEPT ![j] = Picked(j)]
        /\ levels' = [levels EXCEPT ![p] = @ \ {j}]
        /\ j \in levels[p]
        /\ \/ finished' = finished \cup {j} /\ running' = running
           \/ finished' = finished /\ running' = Append(running, j)
    BY <1>8 DEF ServeWaiting, IsHead
  <2>2. /\ j \in jobs /\ job[j].waiting /\ ~Started(j)
        /\ ~InProgress(j) /\ j \notin finished
        /\ \A q \in Priorities : j \in levels[q] => q = p
    BY <2>1 DEF NoJobLost
  <2>3. /\ Picked(j).waiting = FALSE /\ Picked(j).moving = job[j].moving
        /\ Picked(j).started # Never
    BY <1>a DEF Picked, QueuedRecord, Never
  <2>4. job'[j] = Picked(j) /\ \A i \in Jobs : i # j => job'[i] = job[i]
    BY <2>1, <1>a
  <2>5. \A i \in Jobs : Started(i)' <=> (Started(i) \/ i = j)
    BY <2>3, <2>4 DEF Started
  <2>6. /\ \A i \in Jobs : (InProgress(i)' \/ i \in finished')
                             <=> (InProgress(i) \/ i \in finished \/ i = j)
        /\ \A i \in jobs : /\ ~(InProgress(i)' /\ i \in finished')
                           /\ ~(InList(i, running)' /\ InList(i, todo)')
        /\ \A i \in Jobs : InProgress(i)' => InProgress(i) \/ i = j
        /\ NoRepeat(running)' /\ NoRepeat(todo)'
    <3>0. /\ NoRepeat(running) /\ NoRepeat(todo)
          /\ \A i \in jobs : /\ ~(InProgress(i) /\ i \in finished)
                             /\ ~(InList(i, running) /\ InList(i, todo))
      BY DEF NoJobLost
    <3>1. CASE finished' = finished \cup {j} /\ running' = running
      <4>1. \A i : InProgress(i)' = InProgress(i)
        BY <2>1, <3>1 DEF InProgress
      <4>2. QED
        BY <2>1, <2>2, <3>0, <3>1, <4>1
    <3>2. CASE finished' = finished /\ running' = Append(running, j)
      <4>1. ~InList(j, running) /\ ~InList(j, todo)
        BY <2>2 DEF InProgress
      <4>2. /\ \A i : InList(i, running') <=> InList(i, running) \/ i = j
            /\ NoRepeat(running')
        BY <3>0, <3>2, <4>1, <1>a, AppendToList
      <4>3. \A i : InProgress(i)' <=> InProgress(i) \/ i = j
        BY <2>1, <4>2 DEF InProgress
      <4>4. QED
        BY <2>1, <2>2, <3>0, <3>2, <4>1, <4>2, <4>3
    <3>3. QED
      BY <2>1, <3>1, <3>2
  <2>7. \A q \in Priorities : levels'[q] = levels[q] \ {j}
    BY <2>1, <2>2, <1>a
  <2>8. job[j].moving = FALSE
    BY <2>1, <1>a DEF NoJobLost, QueuedRecord
  <2>9. finished' \subseteq jobs' /\ jobs' = jobs /\ log' = log /\ tail' = tail
    BY <2>1, <2>2 DEF NoJobLost
  <2>10. \A i \in jobs' :
           /\ job'[i].waiting <=> ~Started(i)'
           /\ job'[i].waiting <=> ~(InProgress(i)' \/ i \in finished')
           /\ ~(InProgress(i)' /\ i \in finished')
           /\ ~(InList(i, running)' /\ InList(i, todo)')
    BY <2>2, <2>3, <2>4, <2>5, <2>6, <2>9, <1>a DEF NoJobLost
  <2>11. \A q \in Priorities, i \in Jobs : i \in levels'[q] =>
           /\ i \in jobs' /\ job'[i].waiting
           /\ ~job'[i].moving => job'[i].prio = q
           /\ \A r \in Priorities : i \in levels'[r] => r = q
    BY <2>4, <2>7, <2>9 DEF NoJobLost
  <2>12. \A i \in jobs' : job'[i].waiting => \E q \in Priorities : i \in levels'[q]
    BY <2>3, <2>4, <2>7, <2>9, <1>a DEF NoJobLost
  <2>13. /\ \A i \in Jobs : job'[i].waiting => i \in jobs'
         /\ \A i \in Jobs : ~job'[i].moving
         /\ todo' = <<>>
         /\ \A i \in Jobs : InProgress(i)' => i \in jobs'
    BY <2>1, <2>2, <2>3, <2>4, <2>6, <2>8, <2>9, <1>a DEF NoJobLost
  <2>14. QED
    BY <2>6, <2>9, <2>10, <2>11, <2>12, <2>13 DEF NoJobLost
<1>9. ASSUME CountBreaches
      PROVE  NoJobLost'
  <2> DEFINE newly == UNION {NewlyBreached(p) : p \in Priorities}
  <2>1. /\ UNCHANGED <<log, tail, jobs, levels, running, todo, finished>> /\ pc = "count"
        /\ job' = [j \in Jobs |-> [job[j] EXCEPT !.breached = @ \/ j \in newly]]
    BY <1>9 DEF CountBreaches
  <2>2. \A i \in Jobs : /\ job'[i].waiting = job[i].waiting
                        /\ job'[i].started = job[i].started
                        /\ job'[i].moving = job[i].moving
                        /\ job'[i].prio = job[i].prio
    BY <2>1, <1>a DEF QueuedRecord
  <2>3. \A i \in Jobs : Started(i)' = Started(i)
    BY <2>2 DEF Started
  <2>4. \A i \in Jobs : /\ InProgress(i)' = InProgress(i)
                        /\ InList(i, running)' = InList(i, running)
                        /\ InList(i, todo)' = InList(i, todo)
    BY <2>1 DEF InProgress, InList
  <2>5. NoRepeat(running)' /\ NoRepeat(todo)'
    BY <2>1 DEF NoJobLost, NoRepeat
  <2>6. QED
    BY SMTT(60), <2>1, <2>2, <2>3, <2>4, <2>5, <1>a DEF NoJobLost
<1>10. ASSUME MergeMovers
       PROVE  NoJobLost'
  <2>1. /\ UNCHANGED <<log, tail, jobs, running, todo, finished>> /\ pc = "reprioritise"
        /\ job' = [j \in Jobs |-> [job[j] EXCEPT !.moving = FALSE]]
        /\ levels' = [p \in Priorities |->
                        Kept(p) \cup {j \in Moving : job[j].prio = p}]
    BY <1>10 DEF MergeMovers
  <2>2. \A i \in Jobs : /\ job'[i].waiting = job[i].waiting
                        /\ job'[i].started = job[i].started
                        /\ ~job'[i].moving
                        /\ job'[i].prio = job[i].prio
    BY <2>1, <1>a DEF QueuedRecord
  <2>3. \A i \in Jobs : Started(i)' = Started(i)
    BY <2>2 DEF Started
  <2>4. \A i \in Jobs : /\ InProgress(i)' = InProgress(i)
                        /\ InList(i, running)' = InList(i, running)
                        /\ InList(i, todo)' = InList(i, todo)
    BY <2>1 DEF InProgress, InList
  <2>5. NoRepeat(running)' /\ NoRepeat(todo)'
    BY <2>1 DEF NoJobLost, NoRepeat
  <2>6. \A p \in Priorities, i \in Jobs :
          i \in levels'[p] <=> job[i].waiting /\ job[i].prio = p
    <3>1. ASSUME NEW p \in Priorities, NEW i \in Jobs
          PROVE  i \in levels'[p] <=> job[i].waiting /\ job[i].prio = p
      <4>1. i \in levels'[p] <=> \/ i \in levels[p] /\ ~job[i].moving
                                 \/ i \in jobs /\ job[i].moving /\ job[i].prio = p
        BY <2>1 DEF Kept, Moving
      <4>2. QED
        BY <4>1, <1>a DEF NoJobLost, QueuedRecord
    <3>2. QED
      BY <3>1
  <2>7. \A i \in jobs : job[i].prio \in Priorities
    BY DEF TypeOK
  <2>8. \A p \in Priorities, i \in Jobs : i \in levels'[p] =>
          /\ i \in jobs' /\ job'[i].waiting
          /\ ~job'[i].moving => job'[i].prio = p
          /\ \A q \in Priorities : i \in levels'[q] => q = p
    BY <2>1, <2>2, <2>6 DEF NoJobLost
  <2>9. \A i \in jobs' : job'[i].waiting => \E p \in Priorities : i \in levels'[p]
    BY <2>1, <2>2, <2>6, <2>7, <1>a
  <2>10. /\ \A i \in Jobs : job'[i].waiting => i \in jobs'
         /\ todo' = <<>>
    BY <2>1, <2>2 DEF NoJobLost
  <2>11. \A i \in jobs' :
           /\ job'[i].waiting <=> ~Started(i)'
           /\ job'[i].waiting <=> ~(InProgress(i)' \/ i \in finished')
           /\ ~(InProgress(i)' /\ i \in finished')
           /\ ~(InList(i, running)' /\ InList(i, todo)')
    BY <2>1, <2>2, <2>3, <2>4, <1>a DEF NoJobLost
  <2>12. /\ log' \cap jobs' = {} /\ tail' \cap jobs' = {} /\ Log \subseteq log' \cup jobs'
         /\ finished' \subseteq jobs'
         /\ \A i \in Jobs : InProgress(i)' => i \in jobs'
    BY <2>1, <2>4 DEF NoJobLost
  <2>13. QED
    BY <2>2, <2>5, <2>8, <2>9, <2>10, <2>11, <2>12 DEF NoJobLost
<1>11. CASE UNCHANGED vars
  BY <1>11 DEF vars, NoJobLost, InProgress, InList, NoRepeat, Started
<1>12. QED
  BY <1>1, <1>2, <1>3, <1>4, <1>5, <1>6, <1>7, <1>8, <1>9, <1>10, <1>11
  DEF Next, Calls, Steps

\* However the fleet shrinks and grows, whatever is submitted and whichever
\* way the work is reordered, every job handed to the queue is in exactly one
\* place: not reached, waiting in its level, in progress, or finished.
THEOREM EveryJobAccountedFor == Spec => []NoJobLost
<1>1. Init => NoJobLost
  <2> SUFFICES ASSUME Init
               PROVE  NoJobLost
    OBVIOUS
  <2>1. \A j \in Jobs : ~job[j].waiting /\ ~job[j].moving
    BY DEF Init, NoRecord
  <2>2. \A j : ~InList(j, <<>>)
    BY DEF InList
  <2>3. QED
    BY <2>1, <2>2 DEF Init, NoJobLost, NoRepeat, InProgress
<1>2. QED
  BY <1>1, NoJobLostStep, TypeCorrect, PTL DEF Spec

-----------------------------------------------------------------------------

ExemptSet == {j \in jobs : job[j].waiting /\ job[j].exempt}

\* The counter of exempt waiting jobs moves exactly with their number.
LEMMA ExemptStep == TypeOK /\ NoJobLost /\ ExemptCounted /\ [Next]_vars => ExemptCounted'
<1> SUFFICES ASSUME TypeOK, NoJobLost, ExemptCounted, [Next]_vars
             PROVE  exemptWaiting' = Cardinality(ExemptSet')
  BY DEF ExemptCounted, ExemptSet
<1>a. /\ job \in [Jobs -> QueuedRecord] /\ jobs \subseteq Jobs
      /\ levels \in [Priorities -> SUBSET Jobs]
      /\ exemptWaiting = Cardinality(ExemptSet)
      /\ IsFiniteSet(ExemptSet) /\ exemptWaiting \in Nat
  BY JobsAreFinite DEF TypeOK, ExemptCounted, ExemptSet
<1> USE DEF time, feeds, queue
<1>0. SUFFICES \/ exemptWaiting' = exemptWaiting /\ ExemptSet' = ExemptSet
               \/ \E j \in Jobs \ ExemptSet :
                    exemptWaiting' = exemptWaiting + 1 /\ ExemptSet' = ExemptSet \cup {j}
               \/ \E j \in ExemptSet :
                    exemptWaiting' = exemptWaiting - 1 /\ ExemptSet' = ExemptSet \ {j}
  <2>1. CASE exemptWaiting' = exemptWaiting /\ ExemptSet' = ExemptSet
    BY <2>1, <1>a
  <2>2. ASSUME NEW j \in Jobs \ ExemptSet,
               exemptWaiting' = exemptWaiting + 1, ExemptSet' = ExemptSet \cup {j}
        PROVE  exemptWaiting' = Cardinality(ExemptSet')
    BY <2>2, <1>a, FS_AddElement
  <2>3. ASSUME NEW j \in ExemptSet,
               exemptWaiting' = exemptWaiting - 1, ExemptSet' = ExemptSet \ {j}
        PROVE  exemptWaiting' = Cardinality(ExemptSet')
    BY <2>3, <1>a, FS_RemoveElement
  <2>4. QED
    BY <2>1, <2>2, <2>3, <1>0
<1>1. ASSUME NEW to \in Instants, NEW n \in Executors, Advance(to, n)
      PROVE  exemptWaiting' = exemptWaiting /\ ExemptSet' = ExemptSet
  BY <1>1 DEF Advance, ExemptSet
<1>2. ASSUME NEW j \in Workflow, NEW t \in Instants, Submit(j, t)
      PROVE  exemptWaiting' = exemptWaiting /\ ExemptSet' = ExemptSet
  BY <1>2 DEF Submit, ExemptSet
<1>3. ASSUME NEW j \in Jobs, NEW p \in Priorities,
             NEW exempt \in BOOLEAN, NEW restart \in BOOLEAN,
             Update(j, p, exempt, restart)
      PROVE  \/ exemptWaiting' = exemptWaiting /\ ExemptSet' = ExemptSet
             \/ /\ j \notin ExemptSet
                /\ exemptWaiting' = exemptWaiting + 1 /\ ExemptSet' = ExemptSet \cup {j}
             \/ /\ j \in ExemptSet
                /\ exemptWaiting' = exemptWaiting - 1 /\ ExemptSet' = ExemptSet \ {j}
  <2>1. CASE ~Movable(j)
    BY <1>3, <2>1 DEF Update, ExemptSet
  <2>2. CASE Movable(j)
    <3>1. /\ job' = [job EXCEPT ![j] = Updated(j, p, exempt, restart)] /\ jobs' = jobs
          /\ j \in jobs /\ job[j].waiting
      BY <1>3, <2>2 DEF Update, Movable
    <3>2. LET u == Updated(j, p, exempt, restart) IN
            u.exempt = exempt /\ u.waiting = job[j].waiting
      BY <1>a DEF Updated, QueuedRecord
    <3>3. ASSUME NEW i \in jobs
          PROVE  i \in ExemptSet' <=> IF i = j THEN exempt ELSE i \in ExemptSet
      BY <3>1, <3>2, <1>a DEF ExemptSet
    <3>4. ExemptSet' \subseteq jobs /\ ExemptSet \subseteq jobs
      BY <3>1 DEF ExemptSet
    <3>5. j \in ExemptSet <=> job[j].exempt
      BY <3>1 DEF ExemptSet
    <3>6. CASE exempt /\ ~job[j].exempt
      <4>1. exemptWaiting' = exemptWaiting + 1
        BY <1>3, <2>2, <3>6 DEF Update
      <4>2. ExemptSet' = ExemptSet \cup {j}
        BY <3>1, <3>3, <3>4, <3>6
      <4>3. QED
        BY <4>1, <4>2, <3>5, <3>6
    <3>7. CASE ~exempt /\ job[j].exempt
      <4>1. exemptWaiting' = exemptWaiting - 1
        BY <1>3, <2>2, <3>7 DEF Update
      <4>2. ExemptSet' = ExemptSet \ {j}
        BY <3>1, <3>3, <3>4, <3>7
      <4>3. QED
        BY <4>1, <4>2, <3>5, <3>7
    <3>8. CASE exempt = job[j].exempt
      <4>1. exemptWaiting' = exemptWaiting
        BY <1>3, <2>2, <3>8 DEF Update
      <4>2. ExemptSet' = ExemptSet
        BY <3>1, <3>3, <3>4, <3>5, <3>8
      <4>3. QED
        BY <4>1, <4>2
    <3>9. job[j].exempt \in BOOLEAN
      BY <1>a DEF QueuedRecord
    <3>10. QED
      BY <3>6, <3>7, <3>8, <3>9
  <2>3. QED
    BY <2>1, <2>2
<1>4. ASSUME NEW j \in Jobs, AdmitArrival(j) \/ AdmitSubmitted(j)
      PROVE  exemptWaiting' = exemptWaiting /\ ExemptSet' = ExemptSet
  <2>1. /\ exemptWaiting' = exemptWaiting /\ (j \in log \/ j \in tail)
        /\ job' = [job EXCEPT ![j] = Admitted(j)] /\ jobs' = jobs \cup {j}
    BY <1>4 DEF AdmitArrival, AdmitSubmitted, IsNext, Admit
  <2>2. j \notin jobs /\ Admitted(j).exempt = FALSE
    BY <2>1 DEF NoJobLost, Admitted
  <2>3. QED
    BY <2>1, <2>2, <1>a DEF ExemptSet
<1>5. ASSUME ArrivalsOver \/ RunningServed \/ WaitingServed
      PROVE  exemptWaiting' = exemptWaiting /\ ExemptSet' = ExemptSet
  BY <1>5 DEF ArrivalsOver, RunningServed, WaitingServed, ExemptSet
<1>6. ASSUME ServeRunning
      PROVE  exemptWaiting' = exemptWaiting /\ ExemptSet' = ExemptSet
  <2>1. exemptWaiting' = exemptWaiting /\ jobs' = jobs /\ todo # <<>>
    BY <1>6 DEF ServeRunning
  <2>2. Head(todo) \in Jobs
    BY <2>1 DEF TypeOK
  <2>3. \/ job' = job
        \/ job' = [job EXCEPT ![Head(todo)].remaining = @ - Work(Head(todo))]
    BY <1>6 DEF ServeRunning
  <2>4. \A i \in Jobs : job'[i].waiting = job[i].waiting /\ job'[i].exempt = job[i].exempt
    <3>1. CASE job' = job
      BY <3>1
    <3>2. CASE job' = [job EXCEPT ![Head(todo)].remaining = @ - Work(Head(todo))]
      BY <3>2, <2>2, <1>a DEF QueuedRecord
    <3>3. QED
      BY <2>3, <3>1, <3>2
  <2>5. QED
    BY <2>1, <2>4, <1>a DEF ExemptSet
<1>8. ASSUME NEW p \in Priorities, NEW j \in Jobs, ServeWaiting(p, j)
      PROVE  \/ exemptWaiting' = exemptWaiting /\ ExemptSet' = ExemptSet
             \/ /\ j \in ExemptSet
                /\ exemptWaiting' = exemptWaiting - 1 /\ ExemptSet' = ExemptSet \ {j}
  <2>1. /\ exemptWaiting' = ExemptLeft(j) /\ jobs' = jobs /\ j \in levels[p]
        /\ job' = [job EXCEPT ![j] = Picked(j)]
    BY <1>8 DEF ServeWaiting, IsHead
  <2>2. j \in jobs /\ job[j].waiting
    BY <2>1 DEF NoJobLost
  <2>3. Picked(j).waiting = FALSE
    BY <1>a DEF Picked, QueuedRecord
  <2>4. ExemptSet' = ExemptSet \ {j}
    BY <2>1, <2>3, <1>a DEF ExemptSet
  <2>5. CASE job[j].exempt
    BY <2>1, <2>2, <2>4, <2>5 DEF ExemptLeft, ExemptSet
  <2>6. CASE ~job[j].exempt
    BY <2>1, <2>4, <2>6 DEF ExemptLeft, ExemptSet
  <2>7. QED
    BY <2>5, <2>6
<1>9. ASSUME CountBreaches
      PROVE  exemptWaiting' = exemptWaiting /\ ExemptSet' = ExemptSet
  <2> DEFINE newly == UNION {NewlyBreached(p) : p \in Priorities}
  <2>1. /\ exemptWaiting' = exemptWaiting /\ jobs' = jobs
        /\ job' = [j \in Jobs |-> [job[j] EXCEPT !.breached = @ \/ j \in newly]]
    BY <1>9 DEF CountBreaches
  <2>2. \A i \in Jobs : job'[i].waiting = job[i].waiting /\ job'[i].exempt = job[i].exempt
    BY <2>1, <1>a DEF QueuedRecord
  <2>3. QED
    BY <2>1, <2>2, <1>a DEF ExemptSet
<1>10. ASSUME MergeMovers
       PROVE  exemptWaiting' = exemptWaiting /\ ExemptSet' = ExemptSet
  <2>1. /\ exemptWaiting' = exemptWaiting /\ jobs' = jobs
        /\ job' = [j \in Jobs |-> [job[j] EXCEPT !.moving = FALSE]]
    BY <1>10 DEF MergeMovers
  <2>2. \A i \in Jobs : job'[i].waiting = job[i].waiting /\ job'[i].exempt = job[i].exempt
    BY <2>1, <1>a DEF QueuedRecord
  <2>3. QED
    BY <2>1, <2>2, <1>a DEF ExemptSet
<1>11. ASSUME UNCHANGED vars
       PROVE  exemptWaiting' = exemptWaiting /\ ExemptSet' = ExemptSet
  BY <1>11 DEF vars, ExemptSet
<1>12. QED
  BY <1>1, <1>2, <1>3, <1>4, <1>5, <1>6, <1>8, <1>9, <1>10, <1>11, <1>a
  DEF Next, Calls, Steps, ExemptSet

\* What the autoscaler is told may not buy cloud capacity is what intent made
\* exempt and is still waiting: the counter the split rests on never drifts.
THEOREM ExemptNeverDrifts == Spec => []ExemptCounted
<1>1. Init => ExemptCounted
  <2> SUFFICES ASSUME Init
               PROVE  ExemptCounted
    OBVIOUS
  <2>1. {j \in jobs : job[j].waiting /\ job[j].exempt} = {}
    BY DEF Init
  <2>2. QED
    BY <2>1, FS_EmptySet DEF Init, ExemptCounted
<1>2. QED
  BY <1>1, ExemptStep, TypeCorrect, EveryJobAccountedFor, PTL DEF Spec

-----------------------------------------------------------------------------
(****************************************************************************)
(* What the queue serves, counts and reports: no more than the fleet, each  *)
(* job once, under the verdict it earned.                                   *)
(****************************************************************************)

\* What a job says about itself other than the work left in it.
SameVerdicts(i) ==
  /\ job'[i].prio = job[i].prio /\ job'[i].from = job[i].from
  /\ job'[i].started = job[i].started /\ job'[i].moved = job[i].moved
  /\ job'[i].breached = job[i].breached /\ job'[i].breachedAs = job[i].breachedAs

SameJobs == jobs' = jobs /\ \A i \in Jobs : SameVerdicts(i)

\* The jobs each counter of Stats counts.
BreachedJobs   == {j \in jobs : job[j].breached}
BreachedAsJobs == {j \in jobs : job[j].breachedAs}
MovedJobs      == {j \in jobs : job[j].moved}

\* What the cycles reported and what this call has still to report are the
\* counters, at every step of a call.
Reporting ==
  /\ reported.completed + call.completed = stats.completed
  /\ reported.breached + call.late = stats.breached
  /\ pc \in {"idle", "reprioritise"} => call.completed = 0 /\ call.late = 0

\* A job that has not started carries no verdict on the SLA it was submitted
\* under; while nothing has changed its priority it is the job admit made, and
\* it is counted as breached only once its deadline has gone by.
Unstarted(j) ==
  /\ ~job[j].breachedAs
  /\ ~job[j].moved =>
       /\ job[j].prio = Level[j] /\ job[j].from = at[j]
       /\ job[j].breached => LateAsSubmitted(j)

Verdicts ==
  /\ VerdictsAgree
  /\ \A j \in jobs : ~Started(j) => Unstarted(j)

\* The budget left, unless it is spent, is no more than the executors without
\* work have to give.
Fits ==
  call.budget = 0 \/ call.budget <= (call.executors - Len(running)) * call.interval

\* Work in progress never outnumbers the executors, beyond what the call found.
Bounded == Len(running) <= Greatest(call.executors, call.carried)

Budgeted ==
  /\ pc = "arrivals" => /\ Len(running) = call.carried /\ todo = <<>>
                        /\ call.budget = call.executors * call.interval
  /\ pc = "running"  => Len(running) + Len(todo) <= call.carried /\ Fits
  /\ pc = "waiting"  => Bounded /\ Fits
  /\ pc = "count"    => Bounded

-----------------------------------------------------------------------------

\* A job admitted is new to the queue, and no other changes.
LEMMA AdmitEffect ==
  ASSUME TypeOK, NoJobLost, NEW j \in Jobs, AdmitArrival(j) \/ AdmitSubmitted(j)
  PROVE  /\ j \notin jobs /\ jobs' = jobs \cup {j}
         /\ job'[j] = Admitted(j) /\ \A i \in Jobs \ {j} : job'[i] = job[i]
         /\ stats' = [stats EXCEPT !.submitted = @ + 1]
         /\ pc = "arrivals"
         /\ UNCHANGED <<now, at, running, todo, finished, pc, call, reported>>
<1>1. /\ Admit(j) /\ (j \in log \/ j \in tail) /\ pc = "arrivals"
      /\ UNCHANGED <<now, at, running, todo, finished, pc, call, reported>>
  BY DEF AdmitArrival, AdmitSubmitted, IsNext, time
<1>2. j \notin jobs
  BY <1>1 DEF NoJobLost
<1>3. job' = [job EXCEPT ![j] = Admitted(j)] /\ job \in [Jobs -> QueuedRecord]
  BY <1>1 DEF Admit, TypeOK
<1> QED
  BY <1>1, <1>2, <1>3 DEF Admit

\* An executor that goes on with a job changes nothing it is judged by.
LEMMA ServeRunningEffect ==
  ASSUME TypeOK, NoJobLost, ServeRunning
  PROVE  /\ SameJobs
         /\ UNCHANGED <<now, at, pc, reported>> /\ pc = "running" /\ todo # <<>>
         /\ \/ /\ call.budget = 0 /\ running' = running \o todo /\ todo' = <<>>
               /\ UNCHANGED <<finished, stats, call>>
            \/ /\ todo' = Tail(todo)
               /\ \E j \in Jobs :
                    /\ j \notin finished /\ Finishes(j) /\ running' = running
                    /\ finished' = finished \cup {j}
                    /\ stats' = [stats EXCEPT !.completed = @ + 1]
                    /\ call' = [call EXCEPT !.budget = BudgetLeft(j), !.completed = @ + 1]
            \/ /\ todo' = Tail(todo)
               /\ \E j \in Jobs :
                    /\ ~Finishes(j) /\ running' = Append(running, j)
                    /\ call' = [call EXCEPT !.budget = BudgetLeft(j)]
                    /\ UNCHANGED <<finished, stats>>
<1> DEFINE j == Head(todo)
<1>1. todo # <<>> /\ pc = "running" /\ UNCHANGED <<now, at, pc, reported, jobs>>
  BY DEF ServeRunning, time, feeds
<1>2. todo \in Seq(Jobs) /\ job \in [Jobs -> QueuedRecord]
  BY DEF TypeOK
<1>3. j \in Jobs /\ InList(j, todo)
  BY <1>1, <1>2, TailOfList
<1>4. j \notin finished
  BY <1>3 DEF NoJobLost, InProgress
<1>5. SameJobs
  <2>1. job' = job \/ job' = [job EXCEPT ![j].remaining = @ - Work(j)]
    BY DEF ServeRunning
  <2>2. CASE job' = job
    BY <1>1, <2>2 DEF SameJobs, SameVerdicts
  <2>3. CASE job' = [job EXCEPT ![j].remaining = @ - Work(j)]
    BY <1>1, <1>2, <1>3, <2>3 DEF SameJobs, SameVerdicts, QueuedRecord
  <2>4. QED
    BY <2>1, <2>2, <2>3
<1>6. CASE call.budget = 0
  BY <1>1, <1>5, <1>6 DEF ServeRunning, CarriedForward
<1>7. CASE call.budget # 0 /\ Finishes(j)
  BY <1>1, <1>3, <1>4, <1>5, <1>7 DEF ServeRunning
<1>8. CASE call.budget # 0 /\ ~Finishes(j)
  BY <1>1, <1>3, <1>5, <1>8 DEF ServeRunning
<1>9. QED
  BY <1>6, <1>7, <1>8

\* A job taken out of its level starts now, is judged, and nobody else changes.
LEMMA ServeWaitingEffect ==
  ASSUME TypeOK, NoJobLost, NEW p \in Priorities, NEW j \in Jobs, ServeWaiting(p, j)
  PROVE  /\ j \in jobs /\ ~Started(j) /\ j \notin finished /\ jobs' = jobs
         /\ \A i \in Jobs \ {j} : job'[i] = job[i]
         /\ job'[j].prio = job[j].prio /\ job'[j].from = job[j].from
         /\ job'[j].moved = job[j].moved /\ job'[j].started = now
         /\ job'[j].breached = (job[j].breached \/ Late(j))
         /\ job'[j].breachedAs = (job[j].breachedAs \/ LateAsSubmitted(j))
         /\ StartBreaches(j) <=> ~job[j].breached /\ Late(j)
         /\ StartBreachesAs(j) <=> ~job[j].breachedAs /\ LateAsSubmitted(j)
         /\ pc = "waiting" /\ call.budget > 0
         /\ UNCHANGED <<now, at, todo, pc, reported>>
<1>1. /\ j \in levels[p] /\ pc = "waiting" /\ call.budget > 0
      /\ UNCHANGED <<now, at, todo, pc, reported, jobs>>
      /\ job' = [job EXCEPT ![j] = Picked(j)]
  BY DEF ServeWaiting, IsHead, time, feeds
<1>2. job \in [Jobs -> QueuedRecord]
  BY DEF TypeOK
<1>3. j \in jobs /\ job[j].waiting
  BY <1>1 DEF NoJobLost
<1>4. ~Started(j) /\ j \notin finished /\ job[j].started = Never
  BY <1>3 DEF NoJobLost, Started
<1>5. /\ Picked(j).prio = job[j].prio /\ Picked(j).from = job[j].from
      /\ Picked(j).moved = job[j].moved
      /\ Picked(j).started = (IF job[j].started = Never THEN now ELSE job[j].started)
      /\ Picked(j).breached = BreachedAtStart(j)
      /\ Picked(j).breachedAs = (job[j].breachedAs \/ StartBreachesAs(j))
  BY <1>2 DEF Picked, QueuedRecord
<1>6. /\ StartBreaches(j) <=> ~job[j].breached /\ Late(j)
      /\ StartBreachesAs(j) <=> ~job[j].breachedAs /\ LateAsSubmitted(j)
  BY <1>4 DEF StartBreaches, StartBreachesAs
<1>7. /\ job[j].breached \in BOOLEAN /\ job[j].breachedAs \in BOOLEAN
  BY <1>2 DEF QueuedRecord
<1>8. /\ BreachedAtStart(j) = (job[j].breached \/ Late(j))
      /\ (job[j].breachedAs \/ StartBreachesAs(j)) = (job[j].breachedAs \/ LateAsSubmitted(j))
  BY <1>6, <1>7 DEF BreachedAtStart
<1>9. job'[j] = Picked(j) /\ \A i \in Jobs \ {j} : job'[i] = job[i]
  BY <1>1, <1>2
<1> QED
  BY <1>1, <1>3, <1>4, <1>5, <1>6, <1>8, <1>9

\* The scan only adds breaches, to waiting jobs that had none.
LEMMA CountBreachesEffect ==
  ASSUME TypeOK, NoJobLost, CountBreaches
  PROVE  \E newly \in SUBSET jobs :
           /\ \A i \in newly : /\ ~Started(i) /\ ~job[i].breached
                               /\ ~job[i].moving => Late(i)
           /\ jobs' = jobs
           /\ \A i \in Jobs :
                /\ job'[i].prio = job[i].prio /\ job'[i].from = job[i].from
                /\ job'[i].started = job[i].started /\ job'[i].moved = job[i].moved
                /\ job'[i].breachedAs = job[i].breachedAs
                /\ job'[i].breached = (job[i].breached \/ i \in newly)
           /\ stats' = [stats EXCEPT !.breached = @ + Cardinality(newly)]
           /\ reported' = [completed |-> reported.completed + call.completed,
                           breached  |-> reported.breached + (call.late + Cardinality(newly))]
           /\ pc = "count" /\ pc' = "idle" /\ call' = NoCall
           /\ UNCHANGED <<now, at, running, todo, finished>>
<1> DEFINE newly == UNION {NewlyBreached(p) : p \in Priorities}
<1>1. /\ job' = [i \in Jobs |-> [job[i] EXCEPT !.breached = @ \/ i \in newly]]
      /\ stats' = [stats EXCEPT !.breached = @ + Cardinality(newly)]
      /\ reported' = [completed |-> reported.completed + call.completed,
                      breached  |-> reported.breached + ProgressBreached(newly)]
      /\ pc = "count" /\ pc' = "idle" /\ call' = NoCall
      /\ UNCHANGED <<now, at, running, todo, finished, jobs>>
  BY DEF CountBreaches, time, feeds
<1>2. job \in [Jobs -> QueuedRecord] /\ levels \in [Priorities -> SUBSET Jobs]
  BY DEF TypeOK
<1>3. ASSUME NEW i \in newly
      PROVE  /\ i \in jobs /\ ~Started(i) /\ ~job[i].breached
             /\ ~job[i].moving => Late(i)
  <2>1. PICK p \in Priorities : i \in NewlyBreached(p)
    OBVIOUS
  <2>2. /\ i \in levels[p] /\ ~job[i].breached
        /\ job[i].breached \/ now - job[i].from > For(p)
    BY <2>1 DEF NewlyBreached
  <2>3. i \in jobs /\ job[i].waiting /\ (~job[i].moving => job[i].prio = p)
    BY <1>2, <2>2 DEF NoJobLost
  <2>4. ~Started(i)
    BY <2>3 DEF NoJobLost
  <2>5. QED
    BY <2>2, <2>3, <2>4 DEF Late
<1>4. \A i \in Jobs :
        /\ job'[i].prio = job[i].prio /\ job'[i].from = job[i].from
        /\ job'[i].started = job[i].started /\ job'[i].moved = job[i].moved
        /\ job'[i].breachedAs = job[i].breachedAs
        /\ job'[i].breached = (job[i].breached \/ i \in newly)
  <2> HIDE DEF newly
  <2>1. QED
    BY <1>1, <1>2 DEF QueuedRecord
<1>5. newly \in SUBSET jobs
  BY <1>3
<1> HIDE DEF newly
<1> QED
  BY <1>1, <1>3, <1>4, <1>5 DEF ProgressBreached

\* An update reaches a waiting job or none; it changes neither a verdict nor a
\* start, and counts the first change of a priority.
LEMMA UpdateEffect ==
  ASSUME TypeOK, NoJobLost, NEW j \in Jobs, NEW p \in Priorities,
         NEW exempt \in BOOLEAN, NEW restart \in BOOLEAN,
         Update(j, p, exempt, restart)
  PROVE  /\ jobs' = jobs /\ \A i \in Jobs \ {j} : SameVerdicts(i)
         /\ job'[j].started = job[j].started
         /\ job'[j].breached = job[j].breached /\ job'[j].breachedAs = job[j].breachedAs
         /\ \/ SameVerdicts(j) /\ stats' = stats
            \/ /\ j \in jobs /\ ~Started(j)
               /\ job'[j].moved = (job[j].moved \/ p # job[j].prio)
               /\ p = job[j].prio => SameVerdicts(j)
               /\ stats' = [stats EXCEPT
                    !.reprioritised = CountIf(p # job[j].prio /\ ~job[j].moved, @)]
         /\ UNCHANGED <<now, at, running, todo, finished, reported>>
         /\ pc \in {"idle", "reprioritise"} /\ pc' = "reprioritise"
         /\ call' = [call EXCEPT !.updates = @ + 1]
<1>1. /\ UNCHANGED <<now, at, running, todo, finished, reported, jobs>>
      /\ pc \in {"idle", "reprioritise"} /\ pc' = "reprioritise"
      /\ call' = [call EXCEPT !.updates = @ + 1]
  BY DEF Update, time, feeds
<1>2. job \in [Jobs -> QueuedRecord]
  BY DEF TypeOK
<1>3. CASE ~Movable(j)
  <2>1. job' = job /\ stats' = stats
    BY <1>3 DEF Update
  <2>2. QED
    BY <1>1, <2>1 DEF SameVerdicts
<1>4. CASE Movable(j)
  <2>1. /\ job' = [job EXCEPT ![j] = Updated(j, p, exempt, restart)]
        /\ stats' = [stats EXCEPT
                    !.reprioritised = CountIf(p # job[j].prio /\ ~job[j].moved, @)]
    BY <1>4 DEF Update, FirstMove
  <2>2. j \in jobs /\ ~Started(j)
    BY <1>4 DEF Movable, NoJobLost
  <2>3. PICK u : u = Updated(j, p, exempt, restart)
    OBVIOUS
  <2>4. /\ u.started = job[j].started /\ u.breached = job[j].breached
        /\ u.breachedAs = job[j].breachedAs /\ u.prio = p
        /\ u.moved = (job[j].moved \/ p # job[j].prio)
        /\ u.from = (IF p # job[j].prio /\ restart THEN now ELSE job[j].from)
    BY <1>2, <2>3 DEF Updated, QueuedRecord
  <2>5. job'[j] = u /\ \A i \in Jobs \ {j} : job'[i] = job[i]
    BY <1>2, <2>1, <2>3
  <2>6. p = job[j].prio => SameVerdicts(j)
    <3>1. job[j].moved \in BOOLEAN
      BY <1>2 DEF QueuedRecord
    <3>2. QED
      BY <3>1, <2>4, <2>5 DEF SameVerdicts
  <2>7. QED
    BY <1>1, <2>1, <2>2, <2>4, <2>5, <2>6 DEF SameVerdicts
<1>5. QED
  BY <1>3, <1>4

\* Merging the movers reorders the levels and leaves every verdict alone.
LEMMA MergeEffect ==
  ASSUME TypeOK, MergeMovers
  PROVE  /\ SameJobs
         /\ UNCHANGED <<now, at, running, todo, finished, stats, call, reported>>
         /\ pc = "reprioritise" /\ pc' = "idle"
<1>1. /\ job' = [i \in Jobs |-> [job[i] EXCEPT !.moving = FALSE]]
      /\ UNCHANGED <<now, at, jobs, running, todo, finished, stats, call, reported>>
      /\ pc = "reprioritise" /\ pc' = "idle"
  BY DEF MergeMovers, time, feeds
<1>2. job \in [Jobs -> QueuedRecord]
  BY DEF TypeOK
<1>3. SameJobs
  BY <1>1, <1>2 DEF SameJobs, SameVerdicts, QueuedRecord
<1> QED
  BY <1>1, <1>3

-----------------------------------------------------------------------------

\* A set of jobs with one more, and two sets of jobs that share none.
LEMMA OneMore ==
  ASSUME NEW S \in SUBSET Jobs, NEW T, NEW j \in Jobs \ S, T = S \cup {j}
  PROVE  Cardinality(T) = Cardinality(S) + 1
BY JobsAreFinite, FS_AddElement

\* Jobs of two groups apart add up.
LEMMA ManyMore ==
  ASSUME NEW S \in SUBSET Jobs, NEW N \in SUBSET Jobs, S \cap N = {}
  PROVE  Cardinality(S \cup N) = Cardinality(S) + Cardinality(N)
<1>1. IsFiniteSet(S) /\ IsFiniteSet(N)
  BY JobsAreFinite
<1>2. Cardinality(S \cup N) = Cardinality(S) + Cardinality(N) - Cardinality(S \cap N)
  BY <1>1, FS_Union
<1>3. Cardinality(S \cap N) = 0 /\ Cardinality(S) \in Nat /\ Cardinality(N) \in Nat
  BY JobsAreFinite, FS_EmptySet
<1> QED
  BY <1>2, <1>3

\* Steps that change no verdict keep the sets the counters count.
LEMMA SameSets ==
  ASSUME TypeOK, SameJobs
  PROVE  /\ BreachedJobs' = BreachedJobs /\ BreachedAsJobs' = BreachedAsJobs
         /\ MovedJobs' = MovedJobs
BY DEF SameJobs, SameVerdicts, BreachedJobs, BreachedAsJobs, MovedJobs, TypeOK

\* The counters of Stats, over the sets by name.
Counted ==
  /\ stats.submitted = Cardinality(jobs)
  /\ stats.completed = Cardinality(finished)
  /\ stats.breached = Cardinality(BreachedJobs)
  /\ stats.breachedAs = Cardinality(BreachedAsJobs)
  /\ stats.reprioritised = Cardinality(MovedJobs)

\* Every step keeps each counter the number of jobs it is named for.
LEMMA CountedStep ==
  TypeOK /\ NoJobLost /\ Counted /\ [Next]_vars => Counted'
<1> SUFFICES ASSUME TypeOK, NoJobLost, Counted, [Next]_vars
             PROVE  Counted'
  OBVIOUS
<1>a. /\ stats \in Counters /\ job \in [Jobs -> QueuedRecord]
      /\ jobs \in SUBSET Jobs /\ finished \in SUBSET Jobs
      /\ BreachedJobs \in SUBSET Jobs /\ BreachedAsJobs \in SUBSET Jobs
      /\ MovedJobs \in SUBSET Jobs
  BY DEF TypeOK, BreachedJobs, BreachedAsJobs, MovedJobs
<1>1. ASSUME SameJobs, finished' = finished, stats' = stats
      PROVE  Counted'
  BY <1>1, SameSets DEF Counted, SameJobs
<1>2. ASSUME NEW to \in Instants, NEW n \in Executors, Advance(to, n)
      PROVE  Counted'
  BY <1>1, <1>2 DEF Advance, feeds, SameJobs, SameVerdicts
<1>3. ASSUME NEW j \in Workflow, NEW t \in Instants, Submit(j, t)
      PROVE  Counted'
  BY <1>1, <1>3 DEF Submit, SameJobs, SameVerdicts
<1>4. ASSUME NEW j \in Jobs, NEW p \in Priorities,
             NEW exempt \in BOOLEAN, NEW restart \in BOOLEAN,
             Update(j, p, exempt, restart)
      PROVE  Counted'
  <2>1. /\ jobs' = jobs /\ \A i \in Jobs \ {j} : SameVerdicts(i)
        /\ job'[j].started = job[j].started
        /\ job'[j].breached = job[j].breached /\ job'[j].breachedAs = job[j].breachedAs
        /\ \/ SameVerdicts(j) /\ stats' = stats
           \/ /\ j \in jobs /\ ~Started(j)
              /\ job'[j].moved = (job[j].moved \/ p # job[j].prio)
              /\ p = job[j].prio => SameVerdicts(j)
              /\ stats' = [stats EXCEPT
                   !.reprioritised = CountIf(p # job[j].prio /\ ~job[j].moved, @)]
        /\ finished' = finished
    BY <1>4, UpdateEffect
  <2>2. CASE SameVerdicts(j) /\ stats' = stats
    <3>1. SameJobs
      BY <2>1, <2>2 DEF SameJobs
    <3>2. QED
      BY <1>1, <2>1, <2>2, <3>1
  <2>3. CASE /\ j \in jobs /\ job'[j].moved = (job[j].moved \/ p # job[j].prio)
             /\ stats' = [stats EXCEPT
                   !.reprioritised = CountIf(p # job[j].prio /\ ~job[j].moved, @)]
    <3>1. BreachedJobs' = BreachedJobs /\ BreachedAsJobs' = BreachedAsJobs
      BY <2>1, <1>a DEF BreachedJobs, BreachedAsJobs, SameVerdicts
    <3>2. stats'.reprioritised = Cardinality(MovedJobs')
      <4>1. MovedJobs' = IF p # job[j].prio THEN MovedJobs \cup {j} ELSE MovedJobs
        BY <2>1, <2>3, <1>a DEF MovedJobs, SameVerdicts
      <4>2. CASE p # job[j].prio /\ ~job[j].moved
        <5>1. MovedJobs' = MovedJobs \cup {j} /\ j \in Jobs \ MovedJobs
          BY <4>1, <4>2 DEF MovedJobs
        <5>2. Cardinality(MovedJobs') = Cardinality(MovedJobs) + 1
          BY <5>1, <1>a, OneMore
        <5>3. stats'.reprioritised = stats.reprioritised + 1
          BY <2>3, <4>2, <1>a DEF CountIf, Counters
        <5>4. QED
          BY <5>2, <5>3 DEF Counted
      <4>3. CASE ~(p # job[j].prio /\ ~job[j].moved)
        <5>1. MovedJobs' = MovedJobs
          BY <4>1, <4>3, <2>3 DEF MovedJobs
        <5>2. stats'.reprioritised = stats.reprioritised
          BY <2>3, <4>3, <1>a DEF CountIf, Counters
        <5>3. QED
          BY <5>1, <5>2 DEF Counted
      <4>4. QED
        BY <4>2, <4>3
    <3>3. /\ stats'.submitted = stats.submitted /\ stats'.completed = stats.completed
          /\ stats'.breached = stats.breached /\ stats'.breachedAs = stats.breachedAs
      BY <2>3, <1>a DEF Counters
    <3>4. QED
      BY <2>1, <3>1, <3>2, <3>3 DEF Counted
  <2>4. QED
    BY <2>1, <2>2, <2>3
<1>5. ASSUME NEW j \in Jobs, AdmitArrival(j) \/ AdmitSubmitted(j)
      PROVE  Counted'
  <2>1. /\ j \notin jobs /\ jobs' = jobs \cup {j}
        /\ job'[j] = Admitted(j) /\ \A i \in Jobs \ {j} : job'[i] = job[i]
        /\ stats' = [stats EXCEPT !.submitted = @ + 1] /\ finished' = finished
    BY <1>5, AdmitEffect
  <2>2. /\ Admitted(j).breached = FALSE /\ Admitted(j).breachedAs = FALSE
        /\ Admitted(j).moved = FALSE
    BY DEF Admitted
  <2>3. /\ BreachedJobs' = BreachedJobs /\ BreachedAsJobs' = BreachedAsJobs
        /\ MovedJobs' = MovedJobs
    BY <2>1, <2>2, <1>a DEF BreachedJobs, BreachedAsJobs, MovedJobs
  <2>4. Cardinality(jobs') = Cardinality(jobs) + 1
    BY <2>1, <1>a, OneMore
  <2>5. QED
    BY <2>1, <2>3, <2>4, <1>a DEF Counted, Counters
<1>6. ASSUME ArrivalsOver
      PROVE  Counted'
  <2>1. /\ SameJobs /\ finished' = finished
        /\ stats' = [stats EXCEPT !.peakDepth = Greatest(@, Depth)]
    BY <1>6 DEF ArrivalsOver, feeds, SameJobs, SameVerdicts
  <2>2. QED
    BY <2>1, <1>a, SameSets DEF Counted, Counters, SameJobs
<1>7. ASSUME ServeRunning
      PROVE  Counted'
  <2>1. SameJobs
    BY <1>7, ServeRunningEffect
  <2>2. \/ UNCHANGED <<finished, stats>>
        \/ \E j \in Jobs \ finished :
             /\ finished' = finished \cup {j}
             /\ stats' = [stats EXCEPT !.completed = @ + 1]
    BY <1>7, ServeRunningEffect
  <2>3. CASE UNCHANGED <<finished, stats>>
    BY <1>1, <2>1, <2>3
  <2>4. ASSUME NEW j \in Jobs \ finished, finished' = finished \cup {j},
               stats' = [stats EXCEPT !.completed = @ + 1]
        PROVE  Counted'
    <3>1. Cardinality(finished') = Cardinality(finished) + 1
      BY <2>4, <1>a, OneMore
    <3>2. QED
      BY <2>1, <2>4, <3>1, <1>a, SameSets DEF Counted, Counters, SameJobs
  <2>5. QED
    BY <2>2, <2>3, <2>4
<1>8. ASSUME RunningServed \/ WaitingServed
      PROVE  Counted'
  BY <1>1, <1>8 DEF RunningServed, WaitingServed, feeds, SameJobs, SameVerdicts
<1>9. ASSUME NEW p \in Priorities, NEW j \in Jobs, ServeWaiting(p, j)
      PROVE  Counted'
  <2>1. /\ j \in jobs /\ ~Started(j) /\ j \notin finished /\ jobs' = jobs
        /\ \A i \in Jobs \ {j} : job'[i] = job[i]
        /\ job'[j].moved = job[j].moved
        /\ job'[j].breached = (job[j].breached \/ Late(j))
        /\ job'[j].breachedAs = (job[j].breachedAs \/ LateAsSubmitted(j))
        /\ StartBreaches(j) <=> ~job[j].breached /\ Late(j)
        /\ StartBreachesAs(j) <=> ~job[j].breachedAs /\ LateAsSubmitted(j)
    BY <1>9, ServeWaitingEffect
  <2>2. /\ stats' = [stats EXCEPT
             !.breached   = CountIf(StartBreaches(j), @),
             !.breachedAs = CountIf(StartBreachesAs(j), @),
             !.completed  = CountIf(Finishes(j), @)]
        /\ finished' = IF Finishes(j) THEN finished \cup {j} ELSE finished
    BY <1>9 DEF ServeWaiting
  <2>3. /\ stats'.submitted = stats.submitted /\ stats'.reprioritised = stats.reprioritised
        /\ stats'.breached = CountIf(StartBreaches(j), stats.breached)
        /\ stats'.breachedAs = CountIf(StartBreachesAs(j), stats.breachedAs)
        /\ stats'.completed = CountIf(Finishes(j), stats.completed)
    BY <2>2, <1>a DEF Counters
  <2>4. MovedJobs' = MovedJobs
    <3>1. \A i \in jobs : job'[i].moved = job[i].moved
      BY <2>1, <1>a
    <3>2. QED
      BY <2>1, <3>1 DEF MovedJobs
  <2>5. stats'.completed = Cardinality(finished')
    <3>1. CASE Finishes(j)
      <4>1. Cardinality(finished') = Cardinality(finished) + 1
        BY <2>1, <2>2, <3>1, <1>a, OneMore
      <4>2. QED
        BY <2>3, <3>1, <4>1 DEF Counted, CountIf
    <3>2. CASE ~Finishes(j)
      BY <2>2, <2>3, <3>2 DEF Counted, CountIf
    <3>3. QED
      BY <3>1, <3>2
  <2>6. stats'.breached = Cardinality(BreachedJobs')
    <3>1. CASE StartBreaches(j)
      <4>1. BreachedJobs' = BreachedJobs \cup {j} /\ j \in Jobs \ BreachedJobs
        BY <2>1, <3>1, <1>a DEF BreachedJobs
      <4>2. Cardinality(BreachedJobs') = Cardinality(BreachedJobs) + 1
        BY <4>1, <1>a, OneMore
      <4>3. QED
        BY <2>3, <3>1, <4>2 DEF Counted, CountIf
    <3>2. CASE ~StartBreaches(j)
      <4>1. BreachedJobs' = BreachedJobs
        BY <2>1, <3>2, <1>a DEF BreachedJobs
      <4>2. QED
        BY <2>3, <3>2, <4>1 DEF Counted, CountIf
    <3>3. QED
      BY <3>1, <3>2
  <2>7. stats'.breachedAs = Cardinality(BreachedAsJobs')
    <3>1. CASE StartBreachesAs(j)
      <4>1. BreachedAsJobs' = BreachedAsJobs \cup {j} /\ j \in Jobs \ BreachedAsJobs
        BY <2>1, <3>1, <1>a DEF BreachedAsJobs
      <4>2. Cardinality(BreachedAsJobs') = Cardinality(BreachedAsJobs) + 1
        BY <4>1, <1>a, OneMore
      <4>3. QED
        BY <2>3, <3>1, <4>2 DEF Counted, CountIf
    <3>2. CASE ~StartBreachesAs(j)
      <4>1. BreachedAsJobs' = BreachedAsJobs
        BY <2>1, <3>2, <1>a DEF BreachedAsJobs
      <4>2. QED
        BY <2>3, <3>2, <4>1 DEF Counted, CountIf
    <3>3. QED
      BY <3>1, <3>2
  <2>8. QED
    BY <2>1, <2>3, <2>4, <2>5, <2>6, <2>7 DEF Counted
<1>10. ASSUME CountBreaches
       PROVE  Counted'
  <2>1. PICK newly \in SUBSET jobs :
           /\ \A i \in newly : ~Started(i) /\ ~job[i].breached
           /\ jobs' = jobs
           /\ \A i \in Jobs :
                /\ job'[i].moved = job[i].moved
                /\ job'[i].breachedAs = job[i].breachedAs
                /\ job'[i].breached = (job[i].breached \/ i \in newly)
           /\ stats' = [stats EXCEPT !.breached = @ + Cardinality(newly)]
           /\ finished' = finished
    BY <1>10, CountBreachesEffect
  <2>2. /\ BreachedJobs' = BreachedJobs \cup newly /\ BreachedJobs \cap newly = {}
        /\ BreachedAsJobs' = BreachedAsJobs /\ MovedJobs' = MovedJobs
    BY <2>1, <1>a DEF BreachedJobs, BreachedAsJobs, MovedJobs
  <2>3. Cardinality(BreachedJobs \cup newly) = Cardinality(BreachedJobs) + Cardinality(newly)
    BY <2>2, <1>a, ManyMore
  <2>4. QED
    BY <2>1, <2>2, <2>3, <1>a DEF Counted, Counters
<1>11. ASSUME MergeMovers
       PROVE  Counted'
  BY <1>1, <1>11, MergeEffect
<1>12. CASE UNCHANGED vars
  BY <1>1, <1>12 DEF vars, SameJobs, SameVerdicts
<1>13. QED
  BY <1>2, <1>3, <1>4, <1>5, <1>6, <1>7, <1>8, <1>9, <1>10, <1>11, <1>12
  DEF Next, Calls, Steps

-----------------------------------------------------------------------------

\* At every step of a call, what is reported and what the call has still to
\* report are the counters.
LEMMA ReportingStep ==
  TypeOK /\ NoJobLost /\ Reporting /\ [Next]_vars => Reporting'
<1> SUFFICES ASSUME TypeOK, NoJobLost, Reporting, [Next]_vars
             PROVE  Reporting'
  OBVIOUS
<1>a. /\ stats \in Counters /\ call \in Locals
      /\ reported \in [completed : Nat, breached : Nat]
  BY DEF TypeOK
<1>1. ASSUME reported' = reported, stats'.completed = stats.completed,
             stats'.breached = stats.breached,
             call'.completed = call.completed, call'.late = call.late,
             pc' \in {"idle", "reprioritise"} => pc \in {"idle", "reprioritise"}
      PROVE  Reporting'
  BY <1>1 DEF Reporting
<1>2. ASSUME NEW to \in Instants, NEW n \in Executors, Advance(to, n)
      PROVE  Reporting'
  <2>1. /\ UNCHANGED <<stats, reported>> /\ pc = "idle" /\ pc' = "arrivals"
        /\ call'.completed = 0 /\ call'.late = 0
    BY <1>2 DEF Advance, NoCall
  <2>2. QED
    BY <1>1, <2>1 DEF Reporting
<1>3. ASSUME NEW j \in Workflow, NEW t \in Instants, Submit(j, t)
      PROVE  Reporting'
  BY <1>1, <1>3 DEF Submit
<1>4. ASSUME NEW j \in Jobs, NEW p \in Priorities,
             NEW exempt \in BOOLEAN, NEW restart \in BOOLEAN,
             Update(j, p, exempt, restart)
      PROVE  Reporting'
  <2>1. /\ reported' = reported /\ pc \in {"idle", "reprioritise"}
        /\ call' = [call EXCEPT !.updates = @ + 1]
        /\ \/ stats' = stats
           \/ stats' = [stats EXCEPT
                !.reprioritised = CountIf(p # job[j].prio /\ ~job[j].moved, @)]
    BY <1>4, UpdateEffect
  <2>2. call'.completed = call.completed /\ call'.late = call.late
    BY <2>1, <1>a DEF Locals
  <2>3. stats'.completed = stats.completed /\ stats'.breached = stats.breached
    BY <2>1, <1>a DEF Counters
  <2>4. QED
    BY <1>1, <2>1, <2>2, <2>3
<1>5. ASSUME NEW j \in Jobs, AdmitArrival(j) \/ AdmitSubmitted(j)
      PROVE  Reporting'
  <2>1. stats' = [stats EXCEPT !.submitted = @ + 1] /\ UNCHANGED <<pc, call, reported>>
    BY <1>5, AdmitEffect
  <2>2. stats'.completed = stats.completed /\ stats'.breached = stats.breached
    BY <2>1, <1>a DEF Counters
  <2>3. QED
    BY <1>1, <2>1, <2>2
<1>6. ASSUME ArrivalsOver
      PROVE  Reporting'
  <2>1. /\ stats' = [stats EXCEPT !.peakDepth = Greatest(@, Depth)]
        /\ UNCHANGED <<call, reported>> /\ pc' \in {"running", "count"}
    BY <1>6 DEF ArrivalsOver
  <2>2. stats'.completed = stats.completed /\ stats'.breached = stats.breached
    BY <2>1, <1>a DEF Counters
  <2>3. QED
    BY <1>1, <2>1, <2>2
<1>7. ASSUME ServeRunning
      PROVE  Reporting'
  <2>1. UNCHANGED <<pc, reported>> /\ pc = "running"
    BY <1>7, ServeRunningEffect
  <2>2. \/ UNCHANGED <<stats, call>>
        \/ \E j \in Jobs :
             /\ stats' = [stats EXCEPT !.completed = @ + 1]
             /\ call' = [call EXCEPT !.budget = BudgetLeft(j), !.completed = @ + 1]
        \/ \E j \in Jobs : stats' = stats /\ call' = [call EXCEPT !.budget = BudgetLeft(j)]
    BY <1>7, ServeRunningEffect
  <2>3. /\ stats'.breached = stats.breached /\ call'.late = call.late
        /\ \/ stats'.completed = stats.completed /\ call'.completed = call.completed
           \/ /\ stats'.completed = stats.completed + 1
              /\ call'.completed = call.completed + 1
    BY <2>2, <1>a DEF Counters, Locals
  <2>4. QED
    BY <2>1, <2>3, <1>a DEF Reporting, Counters, Locals
<1>8. ASSUME RunningServed \/ WaitingServed
      PROVE  Reporting'
  BY <1>1, <1>8 DEF RunningServed, WaitingServed
<1>9. ASSUME NEW p \in Priorities, NEW j \in Jobs, ServeWaiting(p, j)
      PROVE  Reporting'
  <2>1. pc = "waiting" /\ UNCHANGED <<pc, reported>>
    BY <1>9, ServeWaitingEffect
  <2>2. /\ stats' = [stats EXCEPT
             !.breached   = CountIf(StartBreaches(j), @),
             !.breachedAs = CountIf(StartBreachesAs(j), @),
             !.completed  = CountIf(Finishes(j), @)]
        /\ call' = [call EXCEPT
             !.budget    = BudgetLeft(j),
             !.late      = CountIf(StartBreaches(j), @),
             !.completed = CountIf(Finishes(j), @)]
    BY <1>9 DEF ServeWaiting
  <2>3. /\ stats'.breached = CountIf(StartBreaches(j), stats.breached)
        /\ stats'.completed = CountIf(Finishes(j), stats.completed)
        /\ call'.late = CountIf(StartBreaches(j), call.late)
        /\ call'.completed = CountIf(Finishes(j), call.completed)
    BY <2>2, <1>a DEF Counters, Locals
  <2>4. /\ reported.completed + call'.completed = stats'.completed
        /\ reported.breached + call'.late = stats'.breached
    BY <2>3, <1>a DEF Reporting, CountIf, Counters, Locals
  <2>5. QED
    BY <2>1, <2>4 DEF Reporting
<1>10. ASSUME CountBreaches
       PROVE  Reporting'
  <2>1. PICK newly \in SUBSET jobs :
           /\ stats' = [stats EXCEPT !.breached = @ + Cardinality(newly)]
           /\ reported' = [completed |-> reported.completed + call.completed,
                           breached  |-> reported.breached + (call.late + Cardinality(newly))]
           /\ pc' = "idle" /\ call' = NoCall
    BY <1>10, CountBreachesEffect
  <2>2. newly \in SUBSET Jobs
    BY <2>1 DEF TypeOK
  <2>3. Cardinality(newly) \in Nat
    BY <2>2, JobsAreFinite
  <2>4. /\ stats'.completed = stats.completed
        /\ stats'.breached = stats.breached + Cardinality(newly)
        /\ call'.completed = 0 /\ call'.late = 0
        /\ reported'.completed = reported.completed + call.completed
        /\ reported'.breached = reported.breached + (call.late + Cardinality(newly))
    BY <2>1, <1>a DEF Counters, NoCall
  <2>5. QED
    BY <2>3, <2>4, <1>a DEF Reporting, Counters, Locals
<1>11. ASSUME MergeMovers
       PROVE  Reporting'
  BY <1>1, <1>11, MergeEffect
<1>12. CASE UNCHANGED vars
  BY <1>1, <1>12 DEF vars
<1>13. QED
  BY <1>2, <1>3, <1>4, <1>5, <1>6, <1>7, <1>8, <1>9, <1>10, <1>11, <1>12
  DEF Next, Calls, Steps

-----------------------------------------------------------------------------

\* A deadline is a number.
LEMMA DeadlineType == \A p : For(p) \in Nat
BY LevelsAssumption DEF For

\* A job the step leaves as it is, with the clock no earlier, keeps what was
\* true of its verdicts.
LEMMA VerdictKept ==
  ASSUME TypeOK, Verdicts, NEW j \in jobs, SameVerdicts(j), j \in jobs',
         at'[j] = at[j], now' \in Nat, now' >= now
  PROVE  /\ Started(j)' =>
              /\ job'[j].breachedAs <=> job'[j].started - at'[j] > For(Level[j])
              /\ ~job'[j].moved => (job'[j].breached <=> job'[j].breachedAs)
         /\ ~Started(j)' => Unstarted(j)'
<1>1. /\ now \in Nat /\ at[j] \in Nat /\ For(Level[j]) \in Nat
  BY DeadlineType DEF TypeOK
<1>2. Started(j)' <=> Started(j)
  BY DEF Started, SameVerdicts
<1>3. ASSUME Started(j)
      PROVE  /\ job'[j].breachedAs <=> job'[j].started - at'[j] > For(Level[j])
             /\ ~job'[j].moved => (job'[j].breached <=> job'[j].breachedAs)
  BY <1>3 DEF Verdicts, VerdictsAgree, SameVerdicts
<1>4. ASSUME ~Started(j)
      PROVE  Unstarted(j)'
  <2>1. Unstarted(j)
    BY <1>4 DEF Verdicts
  <2>2. LateAsSubmitted(j) => LateAsSubmitted(j)'
    BY <1>1 DEF LateAsSubmitted
  <2>3. QED
    BY <2>1, <2>2 DEF Unstarted, SameVerdicts
<1> QED
  BY <1>2, <1>3, <1>4

\* Every step keeps the two verdicts on a job in agreement.
LEMMA VerdictsStep ==
  TypeOK /\ NoJobLost /\ Verdicts /\ [Next]_vars => Verdicts'
<1> SUFFICES ASSUME TypeOK, NoJobLost, Verdicts, [Next]_vars
             PROVE  Verdicts'
  OBVIOUS
<1>a. /\ job \in [Jobs -> QueuedRecord] /\ jobs \subseteq Jobs
      /\ now \in Nat /\ at \in [Jobs -> Nat]
  BY DEF TypeOK
<1> DEFINE Good(j) ==
      /\ Started(j)' =>
           /\ job'[j].breachedAs <=> job'[j].started - at'[j] > For(Level[j])
           /\ ~job'[j].moved => (job'[j].breached <=> job'[j].breachedAs)
      /\ ~Started(j)' => Unstarted(j)'
<1>b. SUFFICES \A j \in jobs' : Good(j)
  BY DEF Verdicts, VerdictsAgree
<1>1. ASSUME SameJobs, at' = at, now' \in Nat, now' >= now
      PROVE  \A j \in jobs' : Good(j)
  BY <1>1, <1>a, VerdictKept DEF SameJobs
<1>2. ASSUME NEW to \in Instants, NEW n \in Executors, Advance(to, n)
      PROVE  \A j \in jobs' : Good(j)
  <2>1. SameJobs /\ at' = at /\ now' = to /\ to > now
    BY <1>2 DEF Advance, feeds, SameJobs, SameVerdicts
  <2>2. now' \in Nat /\ now' >= now
    BY <2>1, <1>a, BoundsAssumption
  <2>3. QED
    BY <1>1, <2>1, <2>2
<1>3. ASSUME NEW j \in Workflow, NEW t \in Instants, Submit(j, t)
      PROVE  \A i \in jobs' : Good(i)
  <2>1. /\ j \notin jobs /\ jobs' = jobs /\ job' = job /\ now' = now
        /\ at' = [at EXCEPT ![j] = Greatest(t, now)]
    BY <1>3 DEF Submit
  <2>2. \A i \in jobs : SameVerdicts(i) /\ at'[i] = at[i]
    BY <2>1, <1>a DEF SameVerdicts
  <2>3. now' \in Nat /\ now' >= now
    BY <2>1, <1>a
  <2>4. QED
    BY <2>1, <2>2, <2>3, VerdictKept
<1>4. ASSUME NEW j \in Jobs, NEW p \in Priorities,
             NEW exempt \in BOOLEAN, NEW restart \in BOOLEAN,
             Update(j, p, exempt, restart)
      PROVE  \A i \in jobs' : Good(i)
  <2>1. /\ jobs' = jobs /\ \A i \in Jobs \ {j} : SameVerdicts(i)
        /\ job'[j].started = job[j].started
        /\ job'[j].breached = job[j].breached /\ job'[j].breachedAs = job[j].breachedAs
        /\ \/ SameVerdicts(j)
           \/ /\ j \in jobs /\ ~Started(j)
              /\ job'[j].moved = (job[j].moved \/ p # job[j].prio)
              /\ p = job[j].prio => SameVerdicts(j)
        /\ now' = now /\ at' = at
    BY <1>4, UpdateEffect
  <2>2. now' \in Nat /\ now' >= now
    BY <2>1, <1>a
  <2>3. CASE SameVerdicts(j)
    <3>1. SameJobs
      BY <2>1, <2>3 DEF SameJobs
    <3>2. QED
      BY <1>1, <2>1, <2>2, <3>1
  <2>4. CASE /\ j \in jobs /\ ~Started(j) /\ ~SameVerdicts(j)
             /\ job'[j].moved = (job[j].moved \/ p # job[j].prio)
             /\ p # job[j].prio
    <3>1. Good(j)
      <4>1. ~Started(j)' /\ job'[j].moved
        BY <2>1, <2>4 DEF Started
      <4>2. ~job'[j].breachedAs
        BY <2>1, <2>4 DEF Verdicts, Unstarted
      <4>3. QED
        BY <4>1, <4>2 DEF Unstarted
    <3>2. ASSUME NEW i \in jobs, i # j
          PROVE  Good(i)
      <4>1. SameVerdicts(i) /\ i \in jobs' /\ at'[i] = at[i]
        BY <2>1, <3>2, <1>a
      <4>2. QED
        BY <4>1, <2>2, VerdictKept
    <3>3. QED
      BY <2>1, <3>1, <3>2
  <2>5. QED
    BY <2>1, <2>3, <2>4
<1>5. ASSUME NEW j \in Jobs, AdmitArrival(j) \/ AdmitSubmitted(j)
      PROVE  \A i \in jobs' : Good(i)
  <2>1. /\ j \notin jobs /\ jobs' = jobs \cup {j}
        /\ job'[j] = Admitted(j) /\ \A i \in Jobs \ {j} : job'[i] = job[i]
        /\ now' = now /\ at' = at
    BY <1>5, AdmitEffect
  <2>2. Good(j)
    <3>1. /\ Admitted(j).started = Never /\ Admitted(j).breachedAs = FALSE
          /\ Admitted(j).breached = FALSE
          /\ Admitted(j).prio = Level[j] /\ Admitted(j).from = at[j]
      BY DEF Admitted
    <3>2. QED
      BY <2>1, <3>1 DEF Started, Unstarted
  <2>3. ASSUME NEW i \in jobs
        PROVE  Good(i)
    <3>1. SameVerdicts(i) /\ i \in jobs' /\ at'[i] = at[i] /\ now' \in Nat /\ now' >= now
      BY <2>1, <1>a DEF SameVerdicts
    <3>2. QED
      BY <3>1, VerdictKept
  <2>4. QED
    BY <2>1, <2>2, <2>3
<1>6. ASSUME ArrivalsOver \/ RunningServed \/ WaitingServed
      PROVE  \A j \in jobs' : Good(j)
  <2>1. SameJobs /\ at' = at /\ now' = now
    BY <1>6 DEF ArrivalsOver, RunningServed, WaitingServed, feeds, time, SameJobs, SameVerdicts
  <2>2. QED
    BY <1>1, <2>1, <1>a
<1>7. ASSUME ServeRunning
      PROVE  \A j \in jobs' : Good(j)
  <2>1. SameJobs /\ UNCHANGED <<now, at>>
    BY <1>7, ServeRunningEffect
  <2>2. QED
    BY <1>1, <2>1, <1>a
<1>8. ASSUME NEW p \in Priorities, NEW j \in Jobs, ServeWaiting(p, j)
      PROVE  \A i \in jobs' : Good(i)
  <2>1. /\ j \in jobs /\ ~Started(j) /\ jobs' = jobs
        /\ \A i \in Jobs \ {j} : job'[i] = job[i]
        /\ job'[j].moved = job[j].moved /\ job'[j].started = now
        /\ job'[j].breached = (job[j].breached \/ Late(j))
        /\ job'[j].breachedAs = (job[j].breachedAs \/ LateAsSubmitted(j))
        /\ now' = now /\ at' = at
    BY <1>8, ServeWaitingEffect
  <2>2. Good(j)
    <3>1. Started(j)'
      BY <2>1, <1>a DEF Started, Never
    <3>2. Unstarted(j)
      BY <2>1 DEF Verdicts
    <3>3. job'[j].breachedAs <=> LateAsSubmitted(j)
      BY <2>1, <3>2 DEF Unstarted
    <3>4. ASSUME ~job'[j].moved
          PROVE  (job'[j].breached <=> LateAsSubmitted(j))
      <4>1. /\ job[j].prio = Level[j] /\ job[j].from = at[j]
            /\ job[j].breached => LateAsSubmitted(j)
        BY <2>1, <3>2, <3>4 DEF Unstarted
      <4>2. (Late(j) <=> LateAsSubmitted(j))
        BY <4>1 DEF Late, LateAsSubmitted
      <4>3. QED
        BY <2>1, <4>1, <4>2
    <3>5. (LateAsSubmitted(j) <=> job'[j].started - at'[j] > For(Level[j]))
      BY <2>1 DEF LateAsSubmitted
    <3>6. QED
      BY <3>1, <3>3, <3>4, <3>5
  <2>3. ASSUME NEW i \in jobs, i # j
        PROVE  Good(i)
    <3>1. SameVerdicts(i) /\ i \in jobs' /\ at'[i] = at[i] /\ now' \in Nat /\ now' >= now
      BY <2>1, <2>3, <1>a DEF SameVerdicts
    <3>2. QED
      BY <3>1, VerdictKept
  <2>4. QED
    BY <2>1, <2>2, <2>3
<1>9. ASSUME CountBreaches
      PROVE  \A j \in jobs' : Good(j)
  <2>1. PICK newly \in SUBSET jobs :
           /\ \A i \in newly : ~Started(i) /\ (~job[i].moving => Late(i))
           /\ jobs' = jobs
           /\ \A i \in Jobs :
                /\ job'[i].prio = job[i].prio /\ job'[i].from = job[i].from
                /\ job'[i].started = job[i].started /\ job'[i].moved = job[i].moved
                /\ job'[i].breachedAs = job[i].breachedAs
                /\ job'[i].breached = (job[i].breached \/ i \in newly)
           /\ pc = "count" /\ now' = now /\ at' = at
    BY <1>9, CountBreachesEffect
  <2>2. ASSUME NEW i \in jobs, i \notin newly
        PROVE  Good(i)
    <3>1. SameVerdicts(i)
      <4>1. job[i].breached \in BOOLEAN
        BY <1>a DEF QueuedRecord
      <4>2. QED
        BY <2>1, <2>2, <4>1, <1>a DEF SameVerdicts
    <3>2. i \in jobs' /\ at'[i] = at[i] /\ now' \in Nat /\ now' >= now
      BY <2>1, <1>a
    <3>3. QED
      BY <3>1, <3>2, VerdictKept
  <2>3. ASSUME NEW i \in newly
        PROVE  Good(i)
    <3>1. ~Started(i) /\ i \in jobs
      BY <2>1
    <3>2. ~Started(i)' /\ Unstarted(i)
      BY <2>1, <3>1, <1>a DEF Started, Verdicts
    <3>3. Late(i)
      <4>1. ~job[i].moving
        BY <2>1, <1>a DEF NoJobLost
      <4>2. QED
        BY <2>1, <4>1
    <3>4. ASSUME ~job'[i].moved
          PROVE  /\ job'[i].prio = Level[i] /\ job'[i].from = at'[i]
                 /\ LateAsSubmitted(i)'
      <4>1. job[i].prio = Level[i] /\ job[i].from = at[i]
        BY <2>1, <3>1, <3>2, <3>4, <1>a DEF Unstarted
      <4>2. LateAsSubmitted(i)
        BY <4>1, <3>3 DEF Late, LateAsSubmitted
      <4>3. QED
        BY <2>1, <3>1, <4>1, <4>2, <1>a DEF LateAsSubmitted
    <3>5. ~job'[i].breachedAs
      BY <2>1, <3>1, <3>2, <1>a DEF Unstarted
    <3>6. Unstarted(i)'
      BY <3>4, <3>5 DEF Unstarted
    <3>7. QED
      BY <3>2, <3>6
  <2>4. QED
    BY <2>1, <2>2, <2>3
<1>10. ASSUME MergeMovers
       PROVE  \A j \in jobs' : Good(j)
  <2>1. SameJobs /\ UNCHANGED <<now, at>>
    BY <1>10, MergeEffect
  <2>2. QED
    BY <1>1, <2>1, <1>a
<1>11. CASE UNCHANGED vars
  <2>1. SameJobs /\ at' = at /\ now' = now
    BY <1>11 DEF vars, SameJobs, SameVerdicts
  <2>2. QED
    BY <1>1, <2>1, <1>a
<1>12. QED
  BY <1>2, <1>3, <1>4, <1>5, <1>6, <1>7, <1>8, <1>9, <1>10, <1>11
  DEF Next, Calls, Steps

-----------------------------------------------------------------------------

\* One executor fewer gives an interval less; no executor gives nothing.
LEMMA OneExecutorLess ==
  ASSUME NEW e \in Int, NEW v \in Nat
  PROVE  /\ (e - 1) * v = e * v - v
         /\ e <= 0 => e * v <= 0
<1>1. (e - 1) * v = e * v - v
  OBVIOUS
<1>2. ASSUME e <= 0
      PROVE  e * v <= 0
  <2>1. 0 - e \in Nat
    BY <1>2
  <2>2. (0 - e) * v \in Nat
    BY <2>1
  <2>3. (0 - e) * v = 0 - e * v
    OBVIOUS
  <2>4. e * v \in Int
    OBVIOUS
  <2>5. QED
    BY <2>2, <2>3, <2>4
<1> QED
  BY <1>1, <1>2

\* An executor that stays on its job has given it the interval, unless it gave
\* it the last of the budget.
LEMMA FitsOneMore ==
  ASSUME TypeOK, NEW j \in Jobs, Fits, call.budget > 0, ~Finishes(j)
  PROVE  \/ BudgetLeft(j) = 0
         \/ BudgetLeft(j) <= (call.executors - (Len(running) + 1)) * call.interval
<1>1. /\ call.budget \in Nat /\ call.interval \in Nat /\ call.executors \in Nat
      /\ job[j].remaining \in Nat /\ Len(running) \in Nat
  BY DEF TypeOK, Locals, QueuedRecord
<1>2. Work(j) = call.interval \/ Work(j) = call.budget
  BY <1>1 DEF Work, Least, Finishes
<1>3. CASE Work(j) = call.budget
  BY <1>1, <1>3 DEF BudgetLeft
<1>4. CASE Work(j) = call.interval
  <2>1. BudgetLeft(j) = call.budget - call.interval
    BY <1>4 DEF BudgetLeft
  <2>2. PICK e \in Int : e = call.executors - Len(running)
    BY <1>1
  <2>3. call.budget <= e * call.interval
    BY <1>1, <2>2 DEF Fits
  <2>4. (e - 1) * call.interval = e * call.interval - call.interval
    BY <1>1, OneExecutorLess
  <2>5. e - 1 = call.executors - (Len(running) + 1)
    BY <1>1, <2>2
  <2>6. e * call.interval \in Int
    BY <1>1
  <2>7. BudgetLeft(j) <= (e - 1) * call.interval
    BY <1>1, <2>1, <2>3, <2>4, <2>6
  <2>8. QED
    BY <2>5, <2>7
<1>5. QED
  BY <1>2, <1>3, <1>4

\* While there is budget left there is an executor without work.
LEMMA FitsMeansRoom ==
  ASSUME TypeOK, Fits, call.budget > 0
  PROVE  Len(running) + 1 <= call.executors
<1>1. /\ call.budget \in Nat /\ call.interval \in Nat /\ call.executors \in Nat
      /\ Len(running) \in Nat
  BY DEF TypeOK, Locals
<1>2. PICK e \in Int : e = call.executors - Len(running)
  BY <1>1
<1>3. call.budget <= e * call.interval /\ e * call.interval \in Int
  BY <1>1, <1>2 DEF Fits
<1>4. ~(e <= 0)
  BY <1>1, <1>3, OneExecutorLess
<1> QED
  BY <1>1, <1>2, <1>4

\* Every step keeps what is left of the budget within what the fleet has left.
LEMMA BudgetedStep ==
  TypeOK /\ NoJobLost /\ Budgeted /\ [Next]_vars => Budgeted'
<1> SUFFICES ASSUME TypeOK, NoJobLost, Budgeted, [Next]_vars
             PROVE  Budgeted'
  OBVIOUS
<1>a. /\ running \in Seq(Jobs) /\ todo \in Seq(Jobs) /\ call \in Locals
      /\ Len(running) \in Nat /\ Len(todo) \in Nat
      /\ call.budget \in Nat /\ call.executors \in Nat /\ call.carried \in Nat
      /\ call.interval \in Nat /\ now \in Nat
  BY DEF TypeOK, Locals
<1>1. ASSUME pc' \in {"idle", "reprioritise"}
      PROVE  Budgeted'
  BY <1>1 DEF Budgeted
<1>2. ASSUME NEW to \in Instants, NEW n \in Executors, Advance(to, n)
      PROVE  Budgeted'
  <2>1. /\ pc = "idle" /\ pc' = "arrivals" /\ UNCHANGED <<running, todo>>
        /\ call'.executors = Ready(n) /\ call'.interval = to - now
        /\ call'.budget = Ready(n) * (to - now) /\ call'.carried = Len(running)
    BY <1>2 DEF Advance, NoCall
  <2>2. todo = <<>>
    BY <2>1 DEF NoJobLost
  <2>3. QED
    BY <2>1, <2>2 DEF Budgeted
<1>3. ASSUME NEW j \in Workflow, NEW t \in Instants, Submit(j, t)
      PROVE  Budgeted'
  BY <1>1, <1>3 DEF Submit
<1>4. ASSUME NEW j \in Jobs, NEW p \in Priorities,
             NEW exempt \in BOOLEAN, NEW restart \in BOOLEAN,
             Update(j, p, exempt, restart)
      PROVE  Budgeted'
  BY <1>1, <1>4 DEF Update
<1>5. ASSUME NEW j \in Jobs, AdmitArrival(j) \/ AdmitSubmitted(j)
      PROVE  Budgeted'
  <2>1. UNCHANGED <<pc, running, todo, call>>
    BY <1>5, AdmitEffect
  <2>2. QED
    BY <2>1 DEF Budgeted, Bounded, Fits
<1>6. ASSUME ArrivalsOver
      PROVE  Budgeted'
  <2>1. /\ pc = "arrivals" /\ call' = call
        /\ Len(running) = call.carried /\ call.budget = call.executors * call.interval
    BY <1>6 DEF ArrivalsOver, Budgeted
  <2>2. CASE call.budget > 0
    <3>1. pc' = "running" /\ todo' = running /\ running' = <<>>
      BY <1>6, <2>2 DEF ArrivalsOver
    <3>2. Len(running') = 0 /\ Len(todo') = call.carried
      BY <2>1, <3>1
    <3>3. call.executors - 0 = call.executors
      BY <1>a
    <3>4. Fits'
      BY <2>1, <3>2, <3>3, <1>a DEF Fits
    <3>5. Len(running') + Len(todo') <= call'.carried
      BY <2>1, <3>2, <1>a
    <3>6. QED
      BY <3>1, <3>4, <3>5 DEF Budgeted
  <2>3. CASE ~(call.budget > 0)
    <3>1. pc' = "count" /\ running' = running
      BY <1>6, <2>3 DEF ArrivalsOver
    <3>2. Bounded'
      BY <2>1, <3>1, <1>a DEF Bounded, Greatest
    <3>3. QED
      BY <3>1, <3>2 DEF Budgeted
  <2>4. QED
    BY <2>2, <2>3
<1>7. ASSUME ServeRunning
      PROVE  Budgeted'
  <2>1. /\ pc = "running" /\ pc' = pc /\ todo # <<>>
        /\ Len(running) + Len(todo) <= call.carried /\ Fits
    BY <1>7, ServeRunningEffect DEF Budgeted
  <2>2. SUFFICES Len(running') + Len(todo') <= call'.carried /\ Fits'
    BY <2>1 DEF Budgeted
  <2>3. /\ Len(Tail(todo)) = Len(todo) - 1 /\ Len(running \o todo) = Len(running) + Len(todo)
        /\ \A j \in Jobs : Len(Append(running, j)) = Len(running) + 1
    BY <2>1, <1>a
  <2>4. \/ /\ call.budget = 0 /\ running' = running \o todo /\ todo' = <<>>
           /\ call' = call
        \/ /\ todo' = Tail(todo) /\ running' = running
           /\ \E j \in Jobs :
                call' = [call EXCEPT !.budget = BudgetLeft(j), !.completed = @ + 1]
        \/ /\ todo' = Tail(todo)
           /\ \E j \in Jobs :
                /\ ~Finishes(j) /\ running' = Append(running, j)
                /\ call' = [call EXCEPT !.budget = BudgetLeft(j)]
    BY <1>7, ServeRunningEffect
  <2>5. CASE call.budget = 0 /\ running' = running \o todo /\ todo' = <<>> /\ call' = call
    <3>1. Len(running') + Len(todo') <= call'.carried
      BY <2>1, <2>3, <2>5, <1>a
    <3>2. QED
      BY <2>5, <3>1 DEF Fits
  <2>6. ASSUME NEW j \in Jobs, todo' = Tail(todo), running' = running,
               call' = [call EXCEPT !.budget = BudgetLeft(j), !.completed = @ + 1]
        PROVE  Len(running') + Len(todo') <= call'.carried /\ Fits'
    <3>1. /\ call'.budget = BudgetLeft(j) /\ call'.carried = call.carried
          /\ call'.executors = call.executors /\ call'.interval = call.interval
      BY <2>6, <1>a DEF Locals
    <3>2. BudgetLeft(j) \in Nat /\ BudgetLeft(j) <= call.budget
      BY <1>a, WorkBounds DEF BudgetLeft
    <3>3. (call.executors - Len(running)) * call.interval \in Int
      BY <1>a
    <3>4. Fits'
      BY <2>1, <2>6, <3>1, <3>2, <3>3, <1>a DEF Fits
    <3>5. QED
      BY <2>1, <2>3, <2>6, <3>1, <3>4, <1>a
  <2>7. ASSUME NEW j \in Jobs, todo' = Tail(todo), ~Finishes(j),
               running' = Append(running, j),
               call' = [call EXCEPT !.budget = BudgetLeft(j)]
        PROVE  Len(running') + Len(todo') <= call'.carried /\ Fits'
    <3>1. /\ call'.budget = BudgetLeft(j) /\ call'.carried = call.carried
          /\ call'.executors = call.executors /\ call'.interval = call.interval
          /\ Len(running') = Len(running) + 1
      BY <2>3, <2>7, <1>a DEF Locals
    <3>2. BudgetLeft(j) \in Nat /\ BudgetLeft(j) <= call.budget
      BY <1>a, WorkBounds DEF BudgetLeft
    <3>3. Fits'
      <4>1. CASE call.budget = 0
        BY <3>1, <3>2, <4>1, <1>a DEF Fits
      <4>2. CASE call.budget > 0
        <5>1. \/ BudgetLeft(j) = 0
              \/ BudgetLeft(j) <= (call.executors - (Len(running) + 1)) * call.interval
          BY <2>1, <2>7, <4>2, FitsOneMore
        <5>2. QED
          BY <3>1, <5>1 DEF Fits
      <4>3. QED
        BY <4>1, <4>2, <1>a
    <3>4. QED
      BY <2>1, <2>3, <2>7, <3>1, <3>3, <1>a
  <2>8. QED
    BY <2>4, <2>5, <2>6, <2>7
<1>8. ASSUME RunningServed
      PROVE  Budgeted'
  <2>1. /\ pc = "running" /\ pc' = "waiting" /\ UNCHANGED <<running, todo, call>>
        /\ todo = <<>> /\ Len(running) + Len(todo) <= call.carried /\ Fits
    BY <1>8 DEF RunningServed, Budgeted
  <2>2. Len(todo) = 0
    BY <2>1
  <2>3. Bounded'
    BY <2>1, <2>2, <1>a DEF Bounded, Greatest
  <2>4. QED
    BY <2>1, <2>3 DEF Budgeted, Fits
<1>9. ASSUME NEW p \in Priorities, NEW j \in Jobs, ServeWaiting(p, j)
      PROVE  Budgeted'
  <2>1. /\ pc = "waiting" /\ pc' = pc /\ call.budget > 0 /\ Bounded /\ Fits
    BY <1>9, ServeWaitingEffect DEF Budgeted
  <2>2. /\ call' = [call EXCEPT
             !.budget    = BudgetLeft(j),
             !.late      = CountIf(StartBreaches(j), @),
             !.completed = CountIf(Finishes(j), @)]
        /\ running' = IF Finishes(j) THEN running ELSE Append(running, j)
    BY <1>9 DEF ServeWaiting
  <2>3. /\ call'.budget = BudgetLeft(j) /\ call'.carried = call.carried
        /\ call'.executors = call.executors /\ call'.interval = call.interval
    BY <2>2, <1>a DEF Locals
  <2>4. BudgetLeft(j) \in Nat /\ BudgetLeft(j) <= call.budget
    BY <1>a, WorkBounds DEF BudgetLeft
  <2>5. CASE Finishes(j)
    <3>1. running' = running /\ Bounded'
      BY <2>1, <2>2, <2>3, <2>5 DEF Bounded
    <3>2. (call.executors - Len(running)) * call.interval \in Int
      BY <1>a
    <3>3. Fits'
      BY <2>1, <2>3, <2>4, <3>1, <3>2, <1>a DEF Fits
    <3>4. QED
      BY <2>1, <3>1, <3>3 DEF Budgeted
  <2>6. CASE ~Finishes(j)
    <3>1. Len(running') = Len(running) + 1
      BY <2>2, <2>6, <1>a
    <3>2. Bounded'
      <4>1. Len(running) + 1 <= call.executors
        BY <2>1, FitsMeansRoom
      <4>2. QED
        BY <2>3, <3>1, <4>1, <1>a DEF Bounded, Greatest
    <3>3. \/ BudgetLeft(j) = 0
          \/ BudgetLeft(j) <= (call.executors - (Len(running) + 1)) * call.interval
      BY <2>1, <2>6, FitsOneMore
    <3>4. Fits'
      BY <2>3, <3>1, <3>3 DEF Fits
    <3>5. QED
      BY <2>1, <3>2, <3>4 DEF Budgeted
  <2>7. QED
    BY <2>5, <2>6
<1>10. ASSUME WaitingServed
       PROVE  Budgeted'
  <2>1. pc = "waiting" /\ pc' = "count" /\ UNCHANGED <<running, todo, call>> /\ Bounded
    BY <1>10 DEF WaitingServed, Budgeted
  <2>2. QED
    BY <2>1 DEF Budgeted, Bounded
<1>11. ASSUME CountBreaches \/ MergeMovers
       PROVE  Budgeted'
  BY <1>1, <1>11 DEF CountBreaches, MergeMovers
<1>12. CASE UNCHANGED vars
  BY <1>12 DEF vars, Budgeted, Bounded, Fits
<1>13. QED
  BY <1>2, <1>3, <1>4, <1>5, <1>6, <1>7, <1>8, <1>9, <1>10, <1>11, <1>12
  DEF Next, Calls, Steps

-----------------------------------------------------------------------------

\* ServingAddsUp and the counters are not inductive by themselves: a report is
\* checked at the end of a call, a verdict once a job has started and the fleet
\* once an interval is served.  Accounts says what holds before that.
Accounts == Counted /\ Reporting /\ Verdicts /\ Budgeted

\* A new simulator's accounts are right, being empty.
LEMMA AccountsInit == Init => Accounts
<1> SUFFICES ASSUME Init
             PROVE  Accounts
  OBVIOUS
<1>1. /\ jobs = {} /\ finished = {} /\ pc = "idle" /\ call = NoCall
      /\ stats.submitted = 0 /\ stats.completed = 0 /\ stats.breached = 0
      /\ stats.breachedAs = 0 /\ stats.reprioritised = 0
      /\ reported.completed = 0 /\ reported.breached = 0
  BY DEF Init
<1>2. BreachedJobs = {} /\ BreachedAsJobs = {} /\ MovedJobs = {}
  BY <1>1 DEF BreachedJobs, BreachedAsJobs, MovedJobs
<1>3. Counted
  BY <1>1, <1>2, FS_EmptySet DEF Counted
<1>4. Reporting
  BY <1>1 DEF Reporting, NoCall
<1>5. Verdicts
  BY <1>1 DEF Verdicts, VerdictsAgree
<1>6. Budgeted
  BY <1>1 DEF Budgeted
<1> QED
  BY <1>3, <1>4, <1>5, <1>6 DEF Accounts

\* At every step of every call the counters, the reports, the verdicts and the
\* budget are right.
THEOREM AccountsHold == Spec => []Accounts
<1>1. TypeOK /\ NoJobLost /\ Accounts /\ [Next]_vars => Accounts'
  BY CountedStep, ReportingStep, VerdictsStep, BudgetedStep DEF Accounts
<1>2. QED
  BY <1>1, AccountsInit, TypeCorrect, EveryJobAccountedFor, PTL DEF Spec

\* Each job is served once, by no more than the fleet and what a scale-down
\* left stranded, counted once and reported once, and carries the verdict on
\* the SLA it was submitted under: serve, judgeStart, countBreaches and Advance
\* together, for any log, deadlines, fleet sizes and submitted work.
THEOREM ServingIsRight == Spec => []ServingAddsUp
<1>1. TypeOK /\ NoJobLost /\ Accounts => ServingAddsUp
  <2> SUFFICES ASSUME TypeOK, NoJobLost, Accounts
               PROVE  ServingAddsUp
    OBVIOUS
  <2>1. NoOvercommit
    BY DEF Accounts, Budgeted, Bounded, NoOvercommit
  <2>2. reported.completed \in Nat /\ reported.breached \in Nat
    BY DEF TypeOK
  <2>3. ReportsAddUp
    BY <2>2 DEF Accounts, Reporting, ReportsAddUp
  <2>4. VerdictsAgree
    BY DEF Accounts, Verdicts
  <2>5. QED
    BY <2>1, <2>3, <2>4 DEF ServingAddsUp
<1>2. QED
  BY <1>1, AccountsHold, TypeCorrect, EveryJobAccountedFor, PTL

\* Each counter of Stats is the number of jobs it is about, whichever loop
\* they were submitted, started, finished, breached or moved in.
THEOREM CountersAreRight == Spec => []CountersMatchJobs
<1>1. ExemptCounted /\ Accounts => CountersMatchJobs
  BY DEF Accounts, Counted, CountersMatchJobs, BreachedJobs, BreachedAsJobs, MovedJobs
<1>2. QED
  BY <1>1, ExemptNeverDrifts, AccountsHold, PTL

-----------------------------------------------------------------------------

\* No step touches what is settled.
LEMMA SettledStep ==
  ASSUME TypeOK, NoJobLost, [Next]_vars, NEW k \in jobs
  PROVE  /\ job[k].breached => job'[k].breached
         /\ Started(k) =>
              /\ job'[k].prio = job[k].prio /\ job'[k].from = job[k].from
              /\ job'[k].started = job[k].started
              /\ job'[k].exempt = job[k].exempt
              /\ job'[k].breached = job[k].breached
              /\ job'[k].breachedAs = job[k].breachedAs
<1> DEFINE Settled ==
      /\ job[k].breached => job'[k].breached
      /\ Started(k) =>
           /\ job'[k].prio = job[k].prio /\ job'[k].from = job[k].from
           /\ job'[k].started = job[k].started
           /\ job'[k].exempt = job[k].exempt
           /\ job'[k].breached = job[k].breached
           /\ job'[k].breachedAs = job[k].breachedAs
<1> SUFFICES Settled
  OBVIOUS
<1>a. job \in [Jobs -> QueuedRecord] /\ k \in Jobs /\ job[k].breached \in BOOLEAN
  BY DEF TypeOK, QueuedRecord
<1>1. ASSUME SameVerdicts(k), job'[k].exempt = job[k].exempt
      PROVE  Settled
  BY <1>1 DEF SameVerdicts
<1>2. ASSUME job'[k] = job[k]
      PROVE  Settled
  BY <1>2
<1>3. ASSUME NEW to \in Instants, NEW n \in Executors, Advance(to, n)
      PROVE  Settled
  BY <1>2, <1>3 DEF Advance
<1>4. ASSUME NEW j \in Workflow, NEW t \in Instants, Submit(j, t)
      PROVE  Settled
  BY <1>2, <1>4 DEF Submit
<1>5. ASSUME NEW j \in Jobs, NEW p \in Priorities,
             NEW exempt \in BOOLEAN, NEW restart \in BOOLEAN,
             Update(j, p, exempt, restart)
      PROVE  Settled
  <2>1. CASE ~Movable(j) \/ j # k
    <3>1. job'[k] = job[k]
      BY <1>5, <2>1, <1>a DEF Update
    <3>2. QED
      BY <1>2, <3>1
  <2>2. CASE Movable(j) /\ j = k
    <3>1. ~Started(k)
      BY <2>2 DEF Movable, NoJobLost
    <3>2. job'[k].breached = job[k].breached
      BY <1>5, <2>2, UpdateEffect
    <3>3. QED
      BY <3>1, <3>2
  <2>3. QED
    BY <2>1, <2>2
<1>6. ASSUME NEW j \in Jobs, AdmitArrival(j) \/ AdmitSubmitted(j)
      PROVE  Settled
  <2>1. j \notin jobs /\ \A i \in Jobs \ {j} : job'[i] = job[i]
    BY <1>6, AdmitEffect
  <2>2. QED
    BY <1>2, <2>1, <1>a
<1>7. ASSUME ArrivalsOver \/ RunningServed \/ WaitingServed
      PROVE  Settled
  BY <1>2, <1>7 DEF ArrivalsOver, RunningServed, WaitingServed
<1>8. ASSUME ServeRunning
      PROVE  Settled
  <2>1. SameVerdicts(k)
    BY <1>8, <1>a, ServeRunningEffect DEF SameJobs
  <2>2. \/ job' = job
        \/ job' = [job EXCEPT ![Head(todo)].remaining = @ - Work(Head(todo))]
    BY <1>8 DEF ServeRunning
  <2>3. job'[k].exempt = job[k].exempt
    BY <2>2, <1>a DEF QueuedRecord
  <2>4. QED
    BY <1>1, <2>1, <2>3
<1>9. ASSUME NEW p \in Priorities, NEW j \in Jobs, ServeWaiting(p, j)
      PROVE  Settled
  <2>1. /\ ~Started(j) /\ \A i \in Jobs \ {j} : job'[i] = job[i]
        /\ job'[j].breached = (job[j].breached \/ Late(j))
    BY <1>9, ServeWaitingEffect
  <2>2. CASE k = j
    BY <2>1, <2>2
  <2>3. CASE k # j
    BY <1>2, <2>1, <2>3, <1>a
  <2>4. QED
    BY <2>2, <2>3
<1>10. ASSUME CountBreaches
       PROVE  Settled
  <2>1. PICK newly \in SUBSET jobs :
           /\ \A i \in newly : ~Started(i)
           /\ \A i \in Jobs :
                /\ job'[i].prio = job[i].prio /\ job'[i].from = job[i].from
                /\ job'[i].started = job[i].started /\ job'[i].moved = job[i].moved
                /\ job'[i].breachedAs = job[i].breachedAs
                /\ job'[i].breached = (job[i].breached \/ i \in newly)
    BY <1>10, CountBreachesEffect
  <2>2. job'[k].exempt = job[k].exempt
    <3>1. PICK N : job' = [i \in Jobs |-> [job[i] EXCEPT !.breached = @ \/ i \in N]]
      BY <1>10 DEF CountBreaches
    <3>2. QED
      BY <3>1, <1>a DEF QueuedRecord
  <2>3. QED
    BY <2>1, <2>2, <1>a
<1>11. ASSUME MergeMovers
       PROVE  Settled
  <2>1. SameVerdicts(k)
    BY <1>11, <1>a, MergeEffect DEF SameJobs
  <2>2. job'[k].exempt = job[k].exempt
    BY <1>11, <1>a DEF MergeMovers, QueuedRecord
  <2>3. QED
    BY <1>1, <2>1, <2>2
<1>12. CASE UNCHANGED vars
  BY <1>2, <1>12 DEF vars
<1> HIDE DEF Settled
<1>13. QED
  BY <1>3, <1>4, <1>5, <1>6, <1>7, <1>8, <1>9, <1>10, <1>11, <1>12
  DEF Next, Calls, Steps

\* A promotion never erases a breach, and a job that has started keeps its
\* priority, its deadline origin, its exemption and both verdicts, whatever is
\* called afterwards.
THEOREM SettledStays == Spec => StartedIsSettled
<1>1. TypeOK /\ NoJobLost /\ [Next]_vars =>
        [\A j \in jobs :
           /\ job[j].breached => job'[j].breached
           /\ Started(j) =>
                /\ job'[j].prio = job[j].prio /\ job'[j].from = job[j].from
                /\ job'[j].started = job[j].started
                /\ job'[j].exempt = job[j].exempt
                /\ job'[j].breached = job[j].breached
                /\ job'[j].breachedAs = job[j].breachedAs]_vars
  BY SettledStep
<1>2. QED
  BY <1>1, TypeCorrect, EveryJobAccountedFor, PTL DEF Spec, StartedIsSettled

-----------------------------------------------------------------------------
(* The order the queue serves its work in: that a level is a queue, and,    *)
(* for a run that is its job log alone, that the queue is in deadline       *)
(* order, which the scan of the breaches and the snapshots rely on.         *)

\* A run into which nothing is submitted: all its work is the job log.
LogOnly == Log = Jobs

\* The jobs of a level that no update has moved stand in deadline order, in
\* the middle of a reprioritisation too.
KeptInOrder ==
  \A p \in Priorities : \A i, j \in Kept(p) :
    <<i, j>> \in ahead => job[i].from <= job[j].from

\* Deadlines of what was admitted run from no later than now, nor than the
\* submission of anything the log has still to deliver.
Arrived ==
  /\ \A i \in jobs : /\ job[i].from <= now
                     /\ \A j \in log : job[i].from <= at[j]
  /\ pc # "arrivals" => \A j \in log : now <= at[j]

\* Nothing starts before serve takes it from its level.
StartedEarlier ==
  \A i \in jobs : /\ job[i].started <= now
                  /\ pc \in {"arrivals", "running"} => job[i].started < now

\* What this interval has started so far is more urgent than all it has not.
UrgentSoFar ==
  pc \in {"waiting", "count"} =>
    \A i \in jobs, j \in Waiting : job[i].started = now =>
      \/ job[i].prio > job[j].prio
      \/ job[i].prio = job[j].prio /\ job[i].from <= job[j].from

Order == KeptInOrder /\ Arrived /\ StartedEarlier /\ UrgentSoFar

\* R puts the members of S in a row.
InARow(R, S) ==
  \A i, j \in S :
    /\ <<i, j>> \in R => <<j, i>> \notin R
    /\ i # j => (<<i, j>> \in R \/ <<j, i>> \in R)
    /\ \A k \in S : <<i, j>> \in R /\ <<j, k>> \in R => <<i, k>> \in R

WithinLevels ==
  \A e \in ahead : \E p \in Priorities : e[1] \in levels[p] /\ e[2] \in levels[p]

\* A level is a queue if it is within the level and its order a row.
LEMMA QueuesInRows ==
  LevelsAreQueues <=> (WithinLevels /\ \A p \in Priorities : InARow(ahead, levels[p]))
BY DEF LevelsAreQueues, WithinLevels, InARow

-----------------------------------------------------------------------------

\* A job that joins a level stands behind everyone in it.
LEMMA AdmitAtTheBack ==
  ASSUME TypeOK, NoJobLost, LevelsAreQueues, NEW j \in Jobs,
         AdmitArrival(j) \/ AdmitSubmitted(j)
  PROVE  /\ Level[j] \in Priorities /\ \A p \in Priorities : j \notin levels[p]
         /\ \A p \in Priorities :
              levels'[p] = IF p = Level[j] THEN levels[p] \cup {j} ELSE levels[p]
         /\ ahead' = ahead \cup {<<i, j>> : i \in levels[Level[j]]}
         /\ \A i, k : i # j /\ k # j => (<<i, k>> \in ahead' <=> <<i, k>> \in ahead)
         /\ \A k : <<j, k>> \notin ahead'
         /\ \A i : <<i, j>> \in ahead' <=> i \in levels[Level[j]]
<1>1. /\ levels' = [levels EXCEPT ![Level[j]] = @ \cup {j}]
      /\ ahead' = ahead \cup {<<i, j>> : i \in levels[Level[j]]}
      /\ j \in log \/ j \in tail
  BY DEF AdmitArrival, AdmitSubmitted, Admit, IsNext
<1>2. levels \in [Priorities -> SUBSET Jobs] /\ Level[j] \in Priorities
  BY JobsAssumption DEF TypeOK
<1>3. \A p \in Priorities : j \notin levels[p]
  BY <1>1 DEF NoJobLost
<1>4. \A p \in Priorities :
        levels'[p] = IF p = Level[j] THEN levels[p] \cup {j} ELSE levels[p]
  BY <1>1, <1>2
<1>5. \A e \in ahead : e[1] # j /\ e[2] # j
  BY <1>3 DEF LevelsAreQueues
<1>6. /\ \A i, k : i # j /\ k # j => (<<i, k>> \in ahead' <=> <<i, k>> \in ahead)
      /\ \A k : <<j, k>> \notin ahead'
      /\ \A i : <<i, j>> \in ahead' <=> i \in levels[Level[j]]
  <2>1. ASSUME NEW i, NEW k
        PROVE  <<i, k>> \in ahead' <=> <<i, k>> \in ahead \/ (k = j /\ i \in levels[Level[j]])
    BY <1>1
  <2>2. \A k : <<j, k>> \notin ahead /\ <<k, j>> \notin ahead
    BY <1>5
  <2>3. QED
    BY <2>1, <2>2, <1>2, <1>3
<1> QED
  BY <1>1, <1>2, <1>3, <1>4, <1>6

\* Admitting a job puts it at the end of its level.
LEMMA AdmitKeepsRows ==
  ASSUME TypeOK, NoJobLost, LevelsAreQueues, NEW j \in Jobs,
         AdmitArrival(j) \/ AdmitSubmitted(j)
  PROVE  LevelsAreQueues'
<1>1. Level[j] \in Priorities
  BY AdmitAtTheBack
<1>2. \A p \in Priorities : j \notin levels[p]
  BY AdmitAtTheBack
<1>3. \A p \in Priorities :
        levels'[p] = IF p = Level[j] THEN levels[p] \cup {j} ELSE levels[p]
  BY AdmitAtTheBack
<1>4. ahead' = ahead \cup {<<i, j>> : i \in levels[Level[j]]}
  BY AdmitAtTheBack
<1>5. /\ \A i, k : i # j /\ k # j => (<<i, k>> \in ahead' <=> <<i, k>> \in ahead)
      /\ \A k : <<j, k>> \notin ahead'
      /\ \A i : <<i, j>> \in ahead' <=> i \in levels[Level[j]]
  BY AdmitAtTheBack
<1>6. WithinLevels'
  <2>1. ASSUME NEW e \in ahead'
        PROVE  \E p \in Priorities : e[1] \in levels'[p] /\ e[2] \in levels'[p]
    <3>1. CASE e \in ahead
      BY <3>1, <1>3 DEF LevelsAreQueues
    <3>2. CASE e \in {<<i, j>> : i \in levels[Level[j]]}
      <4>1. PICK i \in levels[Level[j]] : e = <<i, j>>
        BY <3>2
      <4>2. i \in levels'[Level[j]] /\ j \in levels'[Level[j]] /\ e[1] = i /\ e[2] = j
        BY <4>1, <1>1, <1>3
      <4>3. QED
        BY <4>2, <1>1
    <3>3. QED
      BY <1>4, <3>1, <3>2
  <2>2. QED
    BY <2>1 DEF WithinLevels
<1>7. ASSUME NEW p \in Priorities
      PROVE  InARow(ahead', levels'[p])
  <2>1. InARow(ahead, levels[p])
    BY QueuesInRows
  <2>2. CASE p # Level[j]
    <3>1. levels'[p] = levels[p] /\ j \notin levels[p]
      BY <1>2, <1>3, <2>2
    <3>2. QED
      BY <1>5, <2>1, <3>1 DEF InARow
  <2>3. CASE p = Level[j]
    <3>1. levels'[p] = levels[p] \cup {j} /\ j \notin levels[p]
      BY <1>2, <1>3, <2>3
    <3>2. \A i : <<i, j>> \in ahead' <=> i \in levels[p]
      BY <1>5, <2>3
    <3>3. QED
      BY <1>5, <2>1, <3>1, <3>2 DEF InARow
  <2>4. QED
    BY <2>2, <2>3
<1>8. QED
  BY <1>6, <1>7 DEF LevelsAreQueues, WithinLevels, InARow

\* A job that leaves its level leaves the others in their row.
LEMMA ServeKeepsRows ==
  ASSUME TypeOK, NoJobLost, LevelsAreQueues, NEW p \in Priorities, NEW j \in Jobs,
         ServeWaiting(p, j)
  PROVE  LevelsAreQueues'
<1>1. /\ levels' = [levels EXCEPT ![p] = @ \ {j}] /\ j \in levels[p]
      /\ ahead' = {e \in ahead : e[1] # j /\ e[2] # j}
  BY DEF ServeWaiting, IsHead
<1>2. levels \in [Priorities -> SUBSET Jobs]
  BY DEF TypeOK
<1>3. \A q \in Priorities : levels'[q] = levels[q] \ {j}
  <2>1. \A q \in Priorities : j \in levels[q] => q = p
    BY <1>1, <1>2 DEF NoJobLost
  <2>2. QED
    BY <1>1, <1>2, <2>1
<1>4. \A i, k : i # j /\ k # j => (<<i, k>> \in ahead' <=> <<i, k>> \in ahead)
  BY <1>1
<1>5. WithinLevels'
  BY <1>1, <1>3 DEF LevelsAreQueues, WithinLevels
<1>6. ASSUME NEW q \in Priorities
      PROVE  InARow(ahead', levels'[q])
  <2>1. InARow(ahead, levels[q])
    BY QueuesInRows
  <2>2. levels'[q] = levels[q] \ {j}
    BY <1>3
  <2>3. QED
    BY <1>4, <2>1, <2>2 DEF InARow
<1>7. QED
  BY <1>5, <1>6 DEF LevelsAreQueues, WithinLevels, InARow

-----------------------------------------------------------------------------

\* The order a slice is sorted in puts any jobs in a row.
LEMMA BeforeIsARow ==
  ASSUME TypeOK, NEW i \in Jobs, NEW j \in Jobs
  PROVE  /\ Before(i, j) => ~Before(j, i)
         /\ i # j => Before(i, j) \/ Before(j, i)
         /\ \A k \in Jobs : Before(i, j) /\ Before(j, k) => Before(i, k)
         /\ Before(i, j) => job[i].from <= job[j].from
         /\ ~Before(i, j) => job[j].from <= job[i].from
<1>1. \A k \in Jobs : job[k].from \in Nat /\ k \in Nat
  BY JobsAssumption DEF TypeOK, QueuedRecord
<1> QED
  BY <1>1 DEF Before

\* The cut a mover makes in a level: whoever stands behind a job it goes before
\* is overtaken too, and an earlier mover overtakes as much.
LEMMA OvertakesIsACut ==
  ASSUME TypeOK, NEW p \in Priorities, InARow(ahead, levels[p]),
         NEW m \in Jobs, NEW j \in Kept(p)
  PROVE  /\ \A k \in Kept(p) : <<j, k>> \in ahead /\ Overtakes(m, j, p) => Overtakes(m, k, p)
         /\ \A k \in Kept(p) : ~Overtakes(m, k, p) /\ Overtakes(m, j, p)
                                 => <<k, j>> \in ahead
         /\ \A n \in Jobs : Before(n, m) /\ Overtakes(m, j, p) => Overtakes(n, j, p)
<1>a. \A k \in Kept(p) : k \in levels[p] /\ k \in Jobs
  BY DEF Kept, TypeOK
<1>1. ASSUME NEW k \in Kept(p), <<j, k>> \in ahead, Overtakes(m, j, p)
      PROVE  Overtakes(m, k, p)
  <2>1. PICK w \in Kept(p) : (w = j \/ <<w, j>> \in ahead) /\ Before(m, w)
    BY <1>1 DEF Overtakes
  <2>2. <<w, k>> \in ahead
    BY <1>1, <1>a, <2>1 DEF InARow
  <2>3. QED
    BY <2>1, <2>2 DEF Overtakes
<1>2. ASSUME NEW k \in Kept(p), ~Overtakes(m, k, p), Overtakes(m, j, p)
      PROVE  <<k, j>> \in ahead
  <2>1. k # j
    BY <1>2
  <2>2. ~(<<j, k>> \in ahead)
    BY <1>1, <1>2
  <2>3. QED
    BY <2>1, <2>2, <1>a DEF InARow
<1>3. ASSUME NEW n \in Jobs, Before(n, m), Overtakes(m, j, p)
      PROVE  Overtakes(n, j, p)
  <2>1. PICK w \in Kept(p) : (w = j \/ <<w, j>> \in ahead) /\ Before(m, w)
    BY <1>3 DEF Overtakes
  <2>2. Before(n, w)
    BY <1>3, <1>a, <2>1, BeforeIsARow
  <2>3. QED
    BY <2>1, <2>2 DEF Overtakes
<1>4. QED
  BY <1>1, <1>2, <1>3

\* The jobs of level p once the movers are merged in.
Merged(p) == {i \in jobs : job[i].waiting /\ job[i].prio = p}

\* What merge makes of the levels: those that stay and those that moved there.
LEMMA MergedLevels ==
  ASSUME TypeOK, NoJobLost, MergeMovers
  PROVE  /\ \A p \in Priorities : levels'[p] = Merged(p)
         /\ \A p \in Priorities : \A i \in Merged(p) :
              i \in Jobs /\ i \in Waiting /\ (job[i].moving \/ i \in Kept(p))
         /\ \A i \in Waiting : i \in Merged(job[i].prio) /\ job[i].prio \in Priorities
         /\ \A i, j : <<i, j>> \in ahead' <=>
              /\ i \in Waiting /\ j \in Waiting
              /\ job[i].prio = job[j].prio /\ MergedBefore(i, j)
<1>a. /\ job \in [Jobs -> QueuedRecord] /\ levels \in [Priorities -> SUBSET Jobs]
      /\ jobs \subseteq Jobs /\ \A i \in jobs : job[i].prio \in Priorities
  BY DEF TypeOK
<1>1. /\ levels' = [p \in Priorities |-> Kept(p) \cup {i \in Moving : job[i].prio = p}]
      /\ ahead' = MergedOrder
  BY DEF MergeMovers
<1>2. ASSUME NEW p \in Priorities
      PROVE  levels'[p] = Merged(p)
  <2>1. levels'[p] = Kept(p) \cup {i \in Moving : job[i].prio = p}
    BY <1>1
  <2>2. ASSUME NEW i \in Kept(p)
        PROVE  i \in Merged(p)
    <3>1. i \in levels[p] /\ i \in Jobs /\ ~job[i].moving
      BY <1>a, <2>2 DEF Kept
    <3>2. QED
      BY <3>1 DEF NoJobLost, Merged
  <2>3. ASSUME NEW i \in Moving, job[i].prio = p
        PROVE  i \in Merged(p)
    BY <1>a, <2>3 DEF Moving, NoJobLost, Merged
  <2>4. ASSUME NEW i \in Merged(p), ~job[i].moving
        PROVE  i \in Kept(p)
    <3>1. i \in jobs /\ job[i].waiting /\ job[i].prio = p
      BY DEF Merged
    <3>2. PICK q \in Priorities : i \in levels[q]
      BY <3>1 DEF NoJobLost
    <3>3. q = p
      BY <1>a, <2>4, <3>1, <3>2 DEF NoJobLost
    <3>4. QED
      BY <2>4, <3>2, <3>3 DEF Kept
  <2>5. ASSUME NEW i \in Merged(p), job[i].moving
        PROVE  i \in Moving /\ job[i].prio = p
    BY <2>5 DEF Merged, Moving
  <2>6. QED
    BY <2>1, <2>2, <2>3, <2>4, <2>5
<1>3. ASSUME NEW p \in Priorities, NEW i \in Merged(p)
      PROVE  i \in Jobs /\ i \in Waiting /\ (job[i].moving \/ i \in Kept(p))
  <2>1. i \in jobs /\ job[i].waiting /\ job[i].prio = p /\ i \in Jobs
    BY <1>a DEF Merged
  <2>2. PICK q \in Priorities : i \in levels[q]
    BY <2>1 DEF NoJobLost
  <2>3. ~job[i].moving => i \in Kept(p)
    BY <2>1, <2>2 DEF NoJobLost, Kept
  <2>4. QED
    BY <2>1, <2>2, <2>3 DEF Waiting
<1>4. ASSUME NEW i \in Waiting
      PROVE  i \in Merged(job[i].prio) /\ job[i].prio \in Priorities
  <2>1. PICK q \in Priorities : i \in levels[q]
    BY DEF Waiting
  <2>2. i \in jobs /\ job[i].waiting
    BY <1>a, <2>1 DEF NoJobLost
  <2>3. QED
    BY <1>a, <2>2 DEF Merged
<1>5. \A i, j : <<i, j>> \in ahead' <=>
        /\ i \in Waiting /\ j \in Waiting
        /\ job[i].prio = job[j].prio /\ MergedBefore(i, j)
  BY <1>1 DEF MergedOrder
<1>6. QED
  BY <1>2, <1>3, <1>4, <1>5

\* The four ways two jobs of one level may be merged.
LEMMA MergedTwo ==
  ASSUME NEW i, NEW j
  PROVE  /\ ~job[i].moving /\ ~job[j].moving => (MergedBefore(i, j) <=> <<i, j>> \in ahead)
         /\ job[i].moving /\ job[j].moving => (MergedBefore(i, j) <=> Before(i, j))
         /\ job[i].moving /\ ~job[j].moving
              => (MergedBefore(i, j) <=> Overtakes(i, j, job[j].prio))
         /\ ~job[i].moving /\ job[j].moving
              => (MergedBefore(i, j) <=> ~Overtakes(j, i, job[i].prio))
BY DEF MergedBefore

\* merge puts the jobs of a level in a row, however many moved and wherever
\* their deadlines fall among those that stayed.
LEMMA MergeMakesARow ==
  ASSUME TypeOK, NoJobLost, LevelsAreQueues, MergeMovers, NEW p \in Priorities,
         NEW i \in Merged(p), NEW j \in Merged(p)
  PROVE  /\ MergedBefore(i, j) => ~MergedBefore(j, i)
         /\ i # j => MergedBefore(i, j) \/ MergedBefore(j, i)
         /\ \A k \in Merged(p) :
              MergedBefore(i, j) /\ MergedBefore(j, k) => MergedBefore(i, k)
<1>a. \A k \in Merged(p) : /\ k \in Jobs /\ job[k].prio = p
                           /\ (job[k].moving \/ k \in Kept(p))
  BY MergedLevels DEF Merged
<1>b. InARow(ahead, levels[p])
  BY QueuesInRows
<1>c. \A k \in Kept(p) : k \in levels[p] /\ ~job[k].moving
  BY DEF Kept
<1>1. MergedBefore(i, j) => ~MergedBefore(j, i)
  <2>1. CASE job[i].moving /\ job[j].moving
    BY <1>a, <2>1, MergedTwo, BeforeIsARow
  <2>2. CASE ~job[i].moving /\ ~job[j].moving
    <3>1. i \in levels[p] /\ j \in levels[p]
      BY <1>a, <1>c, <2>2
    <3>2. QED
      BY <1>b, <2>2, <3>1, MergedTwo DEF InARow
  <2>3. CASE (job[i].moving /\ ~job[j].moving) \/ (~job[i].moving /\ job[j].moving)
    BY <1>a, <2>3, MergedTwo
  <2>4. QED
    BY <2>1, <2>2, <2>3
<1>2. i # j => MergedBefore(i, j) \/ MergedBefore(j, i)
  <2>1. CASE job[i].moving /\ job[j].moving
    BY <1>a, <2>1, MergedTwo, BeforeIsARow
  <2>2. CASE ~job[i].moving /\ ~job[j].moving
    <3>1. i \in levels[p] /\ j \in levels[p]
      BY <1>a, <1>c, <2>2
    <3>2. QED
      BY <1>b, <2>2, <3>1, MergedTwo DEF InARow
  <2>3. CASE (job[i].moving /\ ~job[j].moving) \/ (~job[i].moving /\ job[j].moving)
    BY <1>a, <2>3, MergedTwo
  <2>4. QED
    BY <2>1, <2>2, <2>3
<1>3. ASSUME NEW k \in Merged(p), MergedBefore(i, j), MergedBefore(j, k)
      PROVE  MergedBefore(i, k)
  <2>1. CASE ~job[i].moving /\ ~job[j].moving /\ ~job[k].moving
    <3>1. i \in levels[p] /\ j \in levels[p] /\ k \in levels[p]
      BY <1>a, <1>c, <2>1
    <3>2. <<i, j>> \in ahead /\ <<j, k>> \in ahead
      BY <1>3, <2>1, MergedTwo
    <3>3. <<i, k>> \in ahead
      BY <1>b, <3>1, <3>2 DEF InARow
    <3>4. QED
      BY <2>1, <3>3, MergedTwo
  <2>2. CASE job[i].moving /\ job[j].moving /\ job[k].moving
    <3>1. Before(i, j) /\ Before(j, k)
      BY <1>3, <2>2, MergedTwo
    <3>2. Before(i, k)
      BY <1>a, <3>1, BeforeIsARow
    <3>3. QED
      BY <2>2, <3>2, MergedTwo
  <2>3. CASE job[i].moving /\ ~job[j].moving /\ ~job[k].moving
    <3>1. Overtakes(i, j, p) /\ <<j, k>> \in ahead
      BY <1>a, <1>3, <2>3, MergedTwo
    <3>2. j \in Kept(p) /\ k \in Kept(p) /\ i \in Jobs
      BY <1>a, <2>3
    <3>3. Overtakes(i, k, p)
      BY <1>b, <3>1, <3>2, OvertakesIsACut
    <3>4. QED
      BY <1>a, <2>3, <3>3, MergedTwo
  <2>4. CASE ~job[i].moving /\ job[j].moving /\ ~job[k].moving
    <3>1. ~Overtakes(j, i, p) /\ Overtakes(j, k, p)
      <4>1. ~Overtakes(j, i, job[i].prio)
        BY <1>3, <2>4, MergedTwo
      <4>2. Overtakes(j, k, job[k].prio)
        BY <1>3, <2>4, MergedTwo
      <4>3. QED
        BY <1>a, <4>1, <4>2
    <3>2. i \in Kept(p) /\ k \in Kept(p) /\ j \in Jobs
      BY <1>a, <2>4
    <3>3. <<i, k>> \in ahead
      BY <1>b, <3>1, <3>2, OvertakesIsACut
    <3>4. QED
      BY <2>4, <3>3, MergedTwo
  <2>5. CASE ~job[i].moving /\ ~job[j].moving /\ job[k].moving
    <3>1. <<i, j>> \in ahead /\ ~Overtakes(k, j, p)
      BY <1>a, <1>3, <2>5, MergedTwo
    <3>2. i \in Kept(p) /\ j \in Kept(p) /\ k \in Jobs
      BY <1>a, <2>5
    <3>3. ~Overtakes(k, i, p)
      BY <1>b, <3>1, <3>2, OvertakesIsACut
    <3>4. QED
      BY <1>a, <2>5, <3>3, MergedTwo
  <2>6. CASE job[i].moving /\ job[j].moving /\ ~job[k].moving
    <3>1. Before(i, j) /\ Overtakes(j, k, p)
      BY <1>a, <1>3, <2>6, MergedTwo
    <3>2. k \in Kept(p) /\ i \in Jobs /\ j \in Jobs
      BY <1>a, <2>6
    <3>3. Overtakes(i, k, p)
      BY <1>b, <3>1, <3>2, OvertakesIsACut
    <3>4. QED
      BY <1>a, <2>6, <3>3, MergedTwo
  <2>7. CASE job[i].moving /\ ~job[j].moving /\ job[k].moving
    <3>1. Overtakes(i, j, p) /\ ~Overtakes(k, j, p)
      <4>1. Overtakes(i, j, job[j].prio)
        BY <1>3, <2>7, MergedTwo
      <4>2. ~Overtakes(k, j, job[j].prio)
        BY <1>3, <2>7, MergedTwo
      <4>3. QED
        BY <1>a, <4>1, <4>2
    <3>2. j \in Kept(p) /\ i \in Jobs /\ k \in Jobs
      BY <1>a, <2>7
    <3>3. i # k /\ ~Before(k, i)
      BY <1>b, <3>1, <3>2, OvertakesIsACut
    <3>4. Before(i, k)
      BY <3>2, <3>3, BeforeIsARow
    <3>5. QED
      BY <2>7, <3>4, MergedTwo
  <2>8. CASE ~job[i].moving /\ job[j].moving /\ job[k].moving
    <3>1. ~Overtakes(j, i, p) /\ Before(j, k)
      <4>1. ~Overtakes(j, i, job[i].prio)
        BY <1>3, <2>8, MergedTwo
      <4>2. Before(j, k)
        BY <1>3, <2>8, MergedTwo
      <4>3. QED
        BY <1>a, <4>1, <4>2
    <3>2. i \in Kept(p) /\ j \in Jobs /\ k \in Jobs
      BY <1>a, <2>8
    <3>3. ~Overtakes(k, i, p)
      BY <1>b, <3>1, <3>2, OvertakesIsACut
    <3>4. QED
      BY <1>a, <2>8, <3>3, MergedTwo
  <2>9. QED
    BY <2>1, <2>2, <2>3, <2>4, <2>5, <2>6, <2>7, <2>8
<1>4. QED
  BY <1>1, <1>2, <1>3

\* Merging leaves rows.
LEMMA MergeKeepsRows ==
  ASSUME TypeOK, NoJobLost, LevelsAreQueues, MergeMovers
  PROVE  LevelsAreQueues'
<1>1. WithinLevels'
  <2>1. ASSUME NEW e \in ahead'
        PROVE  \E p \in Priorities : e[1] \in levels'[p] /\ e[2] \in levels'[p]
    <3>1. ahead' = MergedOrder
      BY DEF MergeMovers
    <3>2. e = <<e[1], e[2]>> /\ e[1] \in Waiting /\ e[2] \in Waiting
            /\ job[e[1]].prio = job[e[2]].prio
      BY <3>1 DEF MergedOrder
    <3>3. /\ job[e[1]].prio \in Priorities
          /\ e[1] \in Merged(job[e[1]].prio) /\ e[2] \in Merged(job[e[2]].prio)
      BY <3>2, MergedLevels
    <3>4. QED
      BY <3>2, <3>3, MergedLevels
  <2>2. QED
    BY <2>1 DEF WithinLevels
<1>2. ASSUME NEW p \in Priorities
      PROVE  InARow(ahead', levels'[p])
  <2>1. levels'[p] = Merged(p)
    BY MergedLevels
  <2>2. \A i, j \in Merged(p) : <<i, j>> \in ahead' <=> MergedBefore(i, j)
    <3>1. \A i \in Merged(p) : i \in Waiting /\ job[i].prio = p
      BY MergedLevels DEF Merged
    <3>2. QED
      BY <3>1, MergedLevels
  <2>3. \A i, j \in Merged(p) :
          /\ MergedBefore(i, j) => ~MergedBefore(j, i)
          /\ i # j => MergedBefore(i, j) \/ MergedBefore(j, i)
          /\ \A k \in Merged(p) :
               MergedBefore(i, j) /\ MergedBefore(j, k) => MergedBefore(i, k)
    BY MergeMakesARow
  <2>4. ASSUME NEW i \in Merged(p), NEW j \in Merged(p)
        PROVE  /\ <<i, j>> \in ahead' => <<j, i>> \notin ahead'
               /\ i # j => (<<i, j>> \in ahead' \/ <<j, i>> \in ahead')
               /\ \A k \in Merged(p) :
                    <<i, j>> \in ahead' /\ <<j, k>> \in ahead' => <<i, k>> \in ahead'
    <3>1. (<<i, j>> \in ahead' <=> MergedBefore(i, j))
            /\ (<<j, i>> \in ahead' <=> MergedBefore(j, i))
      BY <2>2
    <3>2. ASSUME NEW k \in Merged(p), <<i, j>> \in ahead', <<j, k>> \in ahead'
          PROVE  <<i, k>> \in ahead'
      <4>1. MergedBefore(i, j) /\ MergedBefore(j, k)
        BY <2>2, <3>2
      <4>2. MergedBefore(i, k)
        BY <2>3, <4>1
      <4>3. QED
        BY <2>2, <4>2
    <3>3. QED
      BY <2>3, <3>1, <3>2
  <2>5. InARow(ahead', Merged(p))
    BY ONLY <2>4 DEF InARow
  <2>6. QED
    BY ONLY <2>1, <2>5
<1>3. QED
  BY <1>1, <1>2 DEF LevelsAreQueues, WithinLevels, InARow

\* So does every step.
LEMMA RowsStep == TypeOK /\ NoJobLost /\ LevelsAreQueues /\ [Next]_vars => LevelsAreQueues'
<1> SUFFICES ASSUME TypeOK, NoJobLost, LevelsAreQueues, [Next]_vars
             PROVE  LevelsAreQueues'
  OBVIOUS
<1>1. ASSUME UNCHANGED queue
      PROVE  LevelsAreQueues'
  <2>1. levels' = levels /\ ahead' = ahead
    BY <1>1 DEF queue
  <2>2. WithinLevels'
    BY <2>1 DEF LevelsAreQueues, WithinLevels
  <2>3. ASSUME NEW p \in Priorities
        PROVE  InARow(ahead', levels'[p])
    <3>1. InARow(ahead, levels[p])
      BY QueuesInRows
    <3>2. QED
      BY <2>1, <3>1
  <2>4. QED
    BY <2>2, <2>3 DEF LevelsAreQueues, WithinLevels, InARow
<1>2. ASSUME NEW to \in Instants, NEW n \in Executors, Advance(to, n)
      PROVE  UNCHANGED queue
  BY <1>2 DEF Advance
<1>3. ASSUME NEW j \in Workflow, NEW t \in Instants, Submit(j, t)
      PROVE  UNCHANGED queue
  BY <1>3 DEF Submit
<1>4. ASSUME NEW j \in Jobs, NEW p \in Priorities,
             NEW exempt \in BOOLEAN, NEW restart \in BOOLEAN,
             Update(j, p, exempt, restart)
      PROVE  UNCHANGED queue
  BY <1>4 DEF Update
<1>5. ASSUME ArrivalsOver \/ ServeRunning \/ RunningServed \/ WaitingServed
               \/ CountBreaches
      PROVE  UNCHANGED queue
  BY <1>5 DEF ArrivalsOver, ServeRunning, RunningServed, WaitingServed, CountBreaches
<1>6. CASE UNCHANGED vars
  BY <1>1, <1>6 DEF vars, queue
<1>7. QED
  BY <1>1, <1>2, <1>3, <1>4, <1>5, <1>6, AdmitKeepsRows, ServeKeepsRows, MergeKeepsRows
  DEF Next, Calls, Steps

\* A level is a queue, for any log, submitted work and batch of updates: a
\* job stands once in its level, and for two jobs of a level merge, admit and
\* serve agree on which is ahead.
THEOREM LevelsStayQueues == Spec => []LevelsAreQueues
<1>1. Init => LevelsAreQueues
  BY DEF Init, LevelsAreQueues
<1>2. QED
  BY <1>1, RowsStep, TypeCorrect, EveryJobAccountedFor, PTL DEF Spec

-----------------------------------------------------------------------------

\* Outside a reprioritisation every waiting job is in the level its record
\* names, and none is on the move.
LEMMA NothingMoves ==
  ASSUME TypeOK, NoJobLost, pc # "reprioritise"
  PROVE  /\ \A i \in Jobs : ~job[i].moving
         /\ \A p \in Priorities : Kept(p) = levels[p]
         /\ \A p \in Priorities : \A i \in levels[p] :
              i \in Jobs /\ i \in jobs /\ ~Started(i) /\ job[i].prio = p
         /\ \A i \in Waiting : job[i].prio \in Priorities /\ i \in levels[job[i].prio]
<1>1. levels \in [Priorities -> SUBSET Jobs]
  BY DEF TypeOK
<1>2. \A i \in Jobs : ~job[i].moving
  BY DEF NoJobLost
<1>3. \A p \in Priorities : Kept(p) = levels[p]
  BY <1>1, <1>2 DEF Kept
<1>4. ASSUME NEW p \in Priorities, NEW i \in levels[p]
      PROVE  i \in Jobs /\ i \in jobs /\ ~Started(i) /\ job[i].prio = p
  <2>1. i \in Jobs
    BY <1>1
  <2>2. i \in jobs /\ job[i].waiting /\ job[i].prio = p
    BY <1>2, <2>1 DEF NoJobLost
  <2>3. QED
    BY <2>1, <2>2 DEF NoJobLost
<1>5. \A i \in Waiting : job[i].prio \in Priorities /\ i \in levels[job[i].prio]
  BY <1>4 DEF Waiting
<1> QED
  BY <1>2, <1>3, <1>4, <1>5

\* Deadline origins are numbers.
LEMMA FromType ==
  ASSUME TypeOK, NEW i \in Jobs
  PROVE  job[i].from \in Nat /\ job[i].started \in Nat \cup {Never} /\ at[i] \in Nat
           /\ now \in Nat
BY DEF TypeOK, QueuedRecord

\* Two jobs that merge puts one before the other are in deadline order.
LEMMA MergeIsInOrder ==
  ASSUME TypeOK, NoJobLost, LevelsAreQueues, KeptInOrder, MergeMovers,
         NEW p \in Priorities, NEW i \in Merged(p), NEW j \in Merged(p),
         MergedBefore(i, j)
  PROVE  job[i].from <= job[j].from
<1>a. /\ i \in Jobs /\ job[i].prio = p /\ (job[i].moving \/ i \in Kept(p))
      /\ j \in Jobs /\ job[j].prio = p /\ (job[j].moving \/ j \in Kept(p))
  BY MergedLevels DEF Merged
<1>1. CASE job[i].moving /\ job[j].moving
  <2>1. Before(i, j)
    BY <1>1, MergedTwo
  <2>2. QED
    BY <1>a, <2>1, BeforeIsARow
<1>2. CASE ~job[i].moving /\ ~job[j].moving
  <2>1. <<i, j>> \in ahead
    BY <1>2, MergedTwo
  <2>2. QED
    BY <1>a, <1>2, <2>1 DEF KeptInOrder
<1>3. CASE job[i].moving /\ ~job[j].moving
  <2>1. Overtakes(i, j, job[j].prio)
    BY <1>3, MergedTwo
  <2>2. PICK w \in Kept(p) : (w = j \/ <<w, j>> \in ahead) /\ Before(i, w)
    BY <1>a, <2>1 DEF Overtakes
  <2>3. w \in Jobs
    BY <2>2 DEF Kept, TypeOK
  <2>4. job[i].from <= job[w].from
    BY <1>a, <2>2, <2>3, BeforeIsARow
  <2>5. job[w].from <= job[j].from
    BY <1>a, <1>3, <2>2, <2>3, FromType DEF KeptInOrder
  <2>6. QED
    BY <1>a, <2>3, <2>4, <2>5, FromType
<1>4. CASE ~job[i].moving /\ job[j].moving
  <2>1. ~Overtakes(j, i, job[i].prio)
    BY <1>4, MergedTwo
  <2>2. ~Before(j, i)
    BY <1>a, <1>4, <2>1 DEF Overtakes
  <2>3. QED
    BY <1>a, <2>2, BeforeIsARow
<1>5. QED
  BY <1>1, <1>2, <1>3, <1>4

\* No step puts a job behind one whose deadline is later.
LEMMA KeptInOrderStep ==
  ASSUME LogOnly, TypeOK, NoJobLost, LevelsAreQueues, KeptInOrder, Arrived, [Next]_vars
  PROVE  KeptInOrder'
<1>a. job \in [Jobs -> QueuedRecord] /\ levels \in [Priorities -> SUBSET Jobs]
  BY DEF TypeOK
<1>1. ASSUME levels' = levels, ahead' = ahead,
             \A i \in Jobs : ~job'[i].moving => ~job[i].moving /\ job'[i].from = job[i].from
      PROVE  KeptInOrder'
  <2>1. ASSUME NEW p \in Priorities, NEW i \in Kept(p)'
        PROVE  i \in Kept(p) /\ job'[i].from = job[i].from
    BY <1>1, <1>a, <2>1 DEF Kept
  <2>2. QED
    BY <1>1, <2>1 DEF KeptInOrder
<1>2. ASSUME UNCHANGED <<levels, ahead, job>>
      PROVE  KeptInOrder'
  BY <1>1, <1>2
<1>3. ASSUME NEW to \in Instants, NEW n \in Executors, Advance(to, n)
      PROVE  KeptInOrder'
  BY <1>2, <1>3 DEF Advance, queue
<1>4. ASSUME NEW j \in Workflow, NEW t \in Instants, Submit(j, t)
      PROVE  KeptInOrder'
  BY <1>2, <1>4 DEF Submit, queue
<1>5. ASSUME NEW j \in Jobs, NEW p \in Priorities,
             NEW exempt \in BOOLEAN, NEW restart \in BOOLEAN,
             Update(j, p, exempt, restart)
      PROVE  KeptInOrder'
  <2>1. levels' = levels /\ ahead' = ahead
    BY <1>5 DEF Update, queue
  <2>2. job' = job \/ job' = [job EXCEPT ![j] = Updated(j, p, exempt, restart)]
    BY <1>5 DEF Update
  <2>3. PICK u : u = Updated(j, p, exempt, restart)
    OBVIOUS
  <2>4. /\ u.moving = (job[j].moving \/ p # job[j].prio)
        /\ u.from = (IF p # job[j].prio /\ restart THEN now ELSE job[j].from)
    BY <1>a, <2>3 DEF Updated, QueuedRecord
  <2>5. \A i \in Jobs : ~job'[i].moving => ~job[i].moving /\ job'[i].from = job[i].from
    BY <1>a, <2>2, <2>3, <2>4
  <2>6. QED
    BY <1>1, <2>1, <2>5
<1>6. ASSUME NEW j \in Jobs, AdmitArrival(j) \/ AdmitSubmitted(j)
      PROVE  KeptInOrder'
  <2>1. /\ Level[j] \in Priorities /\ \A p \in Priorities : j \notin levels[p]
        /\ \A p \in Priorities :
              levels'[p] = IF p = Level[j] THEN levels[p] \cup {j} ELSE levels[p]
        /\ \A i, k : i # j /\ k # j => (<<i, k>> \in ahead' <=> <<i, k>> \in ahead)
        /\ \A k : <<j, k>> \notin ahead'
        /\ \A i : <<i, j>> \in ahead' <=> i \in levels[Level[j]]
    BY <1>6, AdmitAtTheBack
  <2>2. /\ job'[j] = Admitted(j) /\ \A i \in Jobs \ {j} : job'[i] = job[i]
        /\ pc = "arrivals"
    BY <1>6, AdmitEffect
  <2>3. j \in log
    BY <1>6 DEF AdmitArrival, AdmitSubmitted, IsNext, LogOnly, Workflow, TypeOK
  <2>4. job'[j].from = at[j]
    BY <2>2 DEF Admitted
  <2>5. ASSUME NEW p \in Priorities, NEW i \in Kept(p)', i # j
        PROVE  i \in Kept(p) /\ job'[i] = job[i] /\ job[i].from <= at[j]
    <3>1. i \in levels'[p] /\ ~job'[i].moving
      BY <2>5 DEF Kept
    <3>2. levels'[p] = IF p = Level[j] THEN levels[p] \cup {j} ELSE levels[p]
      BY <2>1
    <3>3. i \in levels[p]
      BY <2>5, <3>1, <3>2
    <3>4. i \in levels[p] /\ i \in Jobs /\ job'[i] = job[i]
      BY <1>a, <2>2, <2>5, <3>3
    <3>5. i \in Kept(p)
      BY <3>1, <3>4 DEF Kept
    <3>6. i \in jobs
      BY <2>2, <3>4, NothingMoves
    <3>7. QED
      BY <2>3, <3>4, <3>5, <3>6 DEF Arrived
  <2>6. ASSUME NEW p \in Priorities, NEW i \in Kept(p)', NEW k \in Kept(p)', <<i, k>> \in ahead'
        PROVE  job'[i].from <= job'[k].from
    <3>1. i # j
      BY <2>1, <2>6
    <3>2. CASE k = j
      BY <2>4, <2>5, <3>1, <3>2
    <3>3. CASE k # j
      BY <2>1, <2>5, <2>6, <3>1, <3>3 DEF KeptInOrder
    <3>4. QED
      BY <3>2, <3>3
  <2>7. QED
    BY <2>6 DEF KeptInOrder
<1>7. ASSUME ArrivalsOver \/ RunningServed \/ WaitingServed
      PROVE  KeptInOrder'
  BY <1>2, <1>7 DEF ArrivalsOver, RunningServed, WaitingServed, queue
<1>8. ASSUME ServeRunning
      PROVE  KeptInOrder'
  <2>1. /\ levels' = levels /\ ahead' = ahead
        /\ \/ job' = job
           \/ job' = [job EXCEPT ![Head(todo)].remaining = @ - Work(Head(todo))]
    BY <1>8 DEF ServeRunning, queue
  <2>2. \A i \in Jobs : job'[i].moving = job[i].moving /\ job'[i].from = job[i].from
    BY <1>a, <2>1 DEF QueuedRecord
  <2>3. QED
    BY <1>1, <2>1, <2>2
<1>9. ASSUME NEW p \in Priorities, NEW j \in Jobs, ServeWaiting(p, j)
      PROVE  KeptInOrder'
  <2>1. /\ levels' = [levels EXCEPT ![p] = @ \ {j}] /\ j \in levels[p]
        /\ ahead' = {e \in ahead : e[1] # j /\ e[2] # j}
    BY <1>9 DEF ServeWaiting, IsHead
  <2>2. \A i \in Jobs \ {j} : job'[i] = job[i]
    BY <1>9, ServeWaitingEffect
  <2>3. ASSUME NEW q \in Priorities, NEW i \in Kept(q)'
        PROVE  i \in Kept(q) /\ job'[i] = job[i]
    <3>1. i \in levels[q] /\ i # j /\ i \in Jobs
      BY <1>a, <2>1, <2>3 DEF Kept, NoJobLost
    <3>2. QED
      BY <2>2, <2>3, <3>1 DEF Kept
  <2>4. \A e \in ahead' : e \in ahead
    BY <2>1
  <2>5. QED
    BY <2>3, <2>4 DEF KeptInOrder
<1>10. ASSUME CountBreaches
       PROVE  KeptInOrder'
  <2>1. PICK N : job' = [i \in Jobs |-> [job[i] EXCEPT !.breached = @ \/ i \in N]]
    BY <1>10 DEF CountBreaches
  <2>2. \A i \in Jobs : job'[i].moving = job[i].moving /\ job'[i].from = job[i].from
    BY <1>a, <2>1 DEF QueuedRecord
  <2>3. levels' = levels /\ ahead' = ahead
    BY <1>10 DEF CountBreaches, queue
  <2>4. QED
    BY <1>1, <2>2, <2>3
<1>11. ASSUME MergeMovers
       PROVE  KeptInOrder'
  <2>1. SameJobs
    BY <1>11, MergeEffect
  <2>2. ASSUME NEW p \in Priorities, NEW i \in Kept(p)', NEW j \in Kept(p)', <<i, j>> \in ahead'
        PROVE  job'[i].from <= job'[j].from
    <3>1. i \in Merged(p) /\ j \in Merged(p)
      BY <1>11, <2>2, MergedLevels DEF Kept
    <3>2. MergedBefore(i, j)
      BY <1>11, <2>2, MergedLevels
    <3>3. job[i].from <= job[j].from
      BY <1>11, <3>1, <3>2, MergeIsInOrder
    <3>4. i \in Jobs /\ j \in Jobs
      BY <1>11, <3>1, MergedLevels
    <3>5. QED
      BY <2>1, <3>3, <3>4 DEF SameJobs, SameVerdicts
  <2>3. QED
    BY <2>2 DEF KeptInOrder
<1>12. CASE UNCHANGED vars
  BY <1>2, <1>12 DEF vars
<1>13. QED
  BY <1>3, <1>4, <1>5, <1>6, <1>7, <1>8, <1>9, <1>10, <1>11, <1>12
  DEF Next, Calls, Steps

\* Deadlines go on running from before anything the log has still to deliver.
LEMMA ArrivedStep ==
  ASSUME LogOnly, TypeOK, NoJobLost, Arrived, [Next]_vars
  PROVE  Arrived'
<1>a. /\ job \in [Jobs -> QueuedRecord] /\ jobs \subseteq Jobs /\ log \subseteq Jobs
      /\ now \in Nat /\ at \in [Jobs -> Nat] /\ Workflow = {} /\ tail = {}
      /\ \A i \in Jobs : job[i].from \in Nat
  BY JobsAssumption, FromType DEF TypeOK, Workflow, LogOnly
<1>1. ASSUME UNCHANGED <<now, at, log, jobs>>,
             \A i \in Jobs : job'[i].from = job[i].from,
             pc' # "arrivals" => pc # "arrivals"
      PROVE  Arrived'
  BY <1>1, <1>a DEF Arrived
<1>2. ASSUME NEW to \in Instants, NEW n \in Executors, Advance(to, n)
      PROVE  Arrived'
  <2>1. /\ UNCHANGED <<at, log, jobs, job>> /\ now' = to /\ to > now /\ pc' = "arrivals"
    BY <1>2 DEF Advance, feeds
  <2>2. to \in Nat
    BY BoundsAssumption
  <2>3. \A i \in jobs : job[i].from <= to
    BY <1>a, <2>1, <2>2 DEF Arrived
  <2>4. QED
    BY <2>1, <2>3 DEF Arrived
<1>3. ASSUME NEW j \in Workflow, NEW t \in Instants, Submit(j, t)
      PROVE  Arrived'
  BY <1>3, <1>a
<1>4. ASSUME NEW j \in Jobs, NEW p \in Priorities,
             NEW exempt \in BOOLEAN, NEW restart \in BOOLEAN,
             Update(j, p, exempt, restart)
      PROVE  Arrived'
  <2>1. /\ UNCHANGED <<now, at, log, jobs>> /\ pc # "arrivals"
        /\ job' = job \/ job' = [job EXCEPT ![j] = Updated(j, p, exempt, restart)]
    BY <1>4 DEF Update, feeds, time
  <2>2. PICK u : u = Updated(j, p, exempt, restart)
    OBVIOUS
  <2>3. u.from = job[j].from \/ u.from = now
    BY <1>a, <2>2 DEF Updated, QueuedRecord
  <2>4. \A i \in Jobs : job'[i].from = job[i].from \/ job'[i].from = now
    BY <1>a, <2>1, <2>2, <2>3
  <2>5. QED
    BY <1>a, <2>1, <2>4 DEF Arrived
<1>5. ASSUME NEW j \in Jobs, AdmitArrival(j) \/ AdmitSubmitted(j)
      PROVE  Arrived'
  <2>1. /\ IsNext(j, log) /\ at[j] <= now /\ log' = log \ {j} /\ UNCHANGED <<now, at>>
        /\ pc' = "arrivals"
    BY <1>5, <1>a DEF AdmitArrival, AdmitSubmitted, IsNext, time
  <2>2. /\ jobs' = jobs \cup {j} /\ job'[j] = Admitted(j)
        /\ \A i \in Jobs \ {j} : job'[i] = job[i]
        /\ j \notin jobs
    BY <1>5, AdmitEffect
  <2>3. job'[j].from = at[j]
    BY <2>2 DEF Admitted
  <2>4. \A k \in log' : at[j] <= at[k]
    BY <1>a, <2>1 DEF IsNext, SubmittedBefore
  <2>5. \A i \in jobs : job'[i] = job[i]
    BY <1>a, <2>2
  <2>6. QED
    BY <2>1, <2>2, <2>3, <2>4, <2>5 DEF Arrived
<1>6. ASSUME ArrivalsOver
      PROVE  Arrived'
  <2>1. /\ UNCHANGED <<now, at, log, jobs, job>> /\ \A i \in log : at[i] > now
    BY <1>6 DEF ArrivalsOver, feeds, time
  <2>2. QED
    BY <1>a, <2>1 DEF Arrived
<1>7. ASSUME RunningServed \/ WaitingServed
      PROVE  Arrived'
  BY <1>1, <1>7 DEF RunningServed, WaitingServed, feeds, time
<1>8. ASSUME ServeRunning
      PROVE  Arrived'
  <2>1. UNCHANGED <<now, at, pc>> /\ SameJobs
    BY <1>8, ServeRunningEffect
  <2>2. log' = log
    BY <1>8 DEF ServeRunning, feeds
  <2>3. QED
    BY <1>1, <2>1, <2>2 DEF SameJobs, SameVerdicts
<1>9. ASSUME NEW p \in Priorities, NEW j \in Jobs, ServeWaiting(p, j)
      PROVE  Arrived'
  <2>1. /\ UNCHANGED <<now, at, pc, jobs>> /\ job'[j].from = job[j].from
        /\ \A i \in Jobs \ {j} : job'[i] = job[i]
    BY <1>9, ServeWaitingEffect
  <2>2. log' = log
    BY <1>9 DEF ServeWaiting, feeds
  <2>3. \A i \in Jobs : job'[i].from = job[i].from
    BY <2>1
  <2>4. QED
    BY <1>1, <2>1, <2>2, <2>3
<1>10. ASSUME CountBreaches
       PROVE  Arrived'
  <2>1. /\ UNCHANGED <<now, at, jobs>> /\ pc = "count"
        /\ \A i \in Jobs : job'[i].from = job[i].from
    BY <1>10, CountBreachesEffect
  <2>2. log' = log
    BY <1>10 DEF CountBreaches, feeds
  <2>3. QED
    BY <1>1, <2>1, <2>2
<1>11. ASSUME MergeMovers
       PROVE  Arrived'
  <2>1. UNCHANGED <<now, at>> /\ SameJobs /\ pc = "reprioritise"
    BY <1>11, MergeEffect
  <2>2. log' = log
    BY <1>11 DEF MergeMovers, feeds
  <2>3. QED
    BY <1>1, <2>1, <2>2 DEF SameJobs, SameVerdicts
<1>12. CASE UNCHANGED vars
  BY <1>1, <1>12 DEF vars
<1>13. QED
  BY <1>2, <1>3, <1>4, <1>5, <1>6, <1>7, <1>8, <1>9, <1>10, <1>11, <1>12
  DEF Next, Calls, Steps

\* Until serve takes the waiting work, nothing has started at the clock.
LEMMA StartedEarlierStep ==
  ASSUME TypeOK, NoJobLost, StartedEarlier, [Next]_vars
  PROVE  StartedEarlier'
<1>a. /\ job \in [Jobs -> QueuedRecord] /\ jobs \subseteq Jobs /\ now \in Nat
      /\ \A i \in Jobs : job[i].started \in Int
  BY FromType DEF TypeOK, Never
<1>1. ASSUME UNCHANGED <<now, jobs>>,
             \A i \in Jobs : job'[i].started = job[i].started,
             pc' \in {"arrivals", "running"} => pc \in {"arrivals", "running"}
      PROVE  StartedEarlier'
  BY <1>1, <1>a DEF StartedEarlier
<1>2. ASSUME NEW to \in Instants, NEW n \in Executors, Advance(to, n)
      PROVE  StartedEarlier'
  <2>1. /\ UNCHANGED <<jobs, job>> /\ now' = to /\ to > now
    BY <1>2 DEF Advance, feeds
  <2>2. to \in Nat
    BY BoundsAssumption
  <2>3. \A i \in jobs : job[i].started < to
    BY <1>a, <2>1, <2>2 DEF StartedEarlier
  <2>4. \A i \in jobs : job[i].started <= to
    BY <1>a, <2>2, <2>3
  <2>5. QED
    BY <2>1, <2>3, <2>4 DEF StartedEarlier
<1>3. ASSUME NEW j \in Workflow, NEW t \in Instants, Submit(j, t)
      PROVE  StartedEarlier'
  BY <1>1, <1>3 DEF Submit
<1>4. ASSUME NEW j \in Jobs, NEW p \in Priorities,
             NEW exempt \in BOOLEAN, NEW restart \in BOOLEAN,
             Update(j, p, exempt, restart)
      PROVE  StartedEarlier'
  <2>1. /\ UNCHANGED <<now, jobs>> /\ pc' = "reprioritise"
        /\ \A i \in Jobs \ {j} : SameVerdicts(i)
        /\ job'[j].started = job[j].started
    BY <1>4, UpdateEffect
  <2>2. \A i \in Jobs : job'[i].started = job[i].started
    BY <2>1 DEF SameVerdicts
  <2>3. QED
    BY <1>1, <2>1, <2>2
<1>5. ASSUME NEW j \in Jobs, AdmitArrival(j) \/ AdmitSubmitted(j)
      PROVE  StartedEarlier'
  <2>1. /\ j \notin jobs /\ jobs' = jobs \cup {j}
        /\ job'[j] = Admitted(j) /\ \A i \in Jobs \ {j} : job'[i] = job[i]
        /\ now' = now /\ pc = "arrivals"
    BY <1>5, AdmitEffect
  <2>2. job'[j].started = Never
    BY <2>1 DEF Admitted
  <2>3. QED
    BY <1>a, <2>1, <2>2 DEF StartedEarlier, Never
<1>6. ASSUME ArrivalsOver
      PROVE  StartedEarlier'
  <2>1. UNCHANGED <<now, jobs, job>> /\ pc = "arrivals"
    BY <1>6 DEF ArrivalsOver, feeds, time
  <2>2. QED
    BY <1>1, <2>1
<1>7. ASSUME RunningServed \/ WaitingServed
      PROVE  StartedEarlier'
  BY <1>1, <1>7 DEF RunningServed, WaitingServed, feeds, time
<1>8. ASSUME ServeRunning
      PROVE  StartedEarlier'
  BY <1>1, <1>8, ServeRunningEffect DEF SameJobs, SameVerdicts
<1>9. ASSUME NEW p \in Priorities, NEW j \in Jobs, ServeWaiting(p, j)
      PROVE  StartedEarlier'
  <2>1. /\ UNCHANGED <<now, pc, jobs>> /\ job'[j].started = now /\ pc = "waiting"
        /\ \A i \in Jobs \ {j} : job'[i] = job[i]
    BY <1>9, ServeWaitingEffect
  <2>2. \A i \in jobs : job'[i].started = now \/ job'[i].started = job[i].started
    BY <1>a, <2>1
  <2>3. QED
    BY <1>a, <2>1, <2>2 DEF StartedEarlier
<1>10. ASSUME CountBreaches
       PROVE  StartedEarlier'
  <2>1. /\ UNCHANGED <<now, jobs>> /\ pc' = "idle"
        /\ \A i \in Jobs : job'[i].started = job[i].started
    BY <1>10, CountBreachesEffect
  <2>2. QED
    BY <1>1, <2>1
<1>11. ASSUME MergeMovers
       PROVE  StartedEarlier'
  BY <1>1, <1>11, MergeEffect DEF SameJobs, SameVerdicts
<1>12. CASE UNCHANGED vars
  BY <1>1, <1>12 DEF vars
<1>13. QED
  BY <1>2, <1>3, <1>4, <1>5, <1>6, <1>7, <1>8, <1>9, <1>10, <1>11, <1>12
  DEF Next, Calls, Steps

\* What serve takes next is no less urgent than anything it leaves.
LEMMA HeadIsMostUrgent ==
  ASSUME TypeOK, NoJobLost, LevelsAreQueues, KeptInOrder,
         NEW p \in Priorities, NEW j \in Jobs, ServeWaiting(p, j), NEW k \in Waiting
  PROVE  \/ job[j].prio > job[k].prio
         \/ job[j].prio = job[k].prio /\ job[j].from <= job[k].from
<1>1. pc = "waiting" /\ j \in levels[p] /\ IsTop(p) /\ IsHead(j, p)
  BY DEF ServeWaiting, IsHead
<1>2. /\ job[k].prio \in Priorities /\ k \in levels[job[k].prio] /\ job[j].prio = p
      /\ Kept(p) = levels[p] /\ k \in Jobs
  BY <1>1, NothingMoves
<1>3. p \in Int /\ job[k].prio \in Int
  BY <1>2, LevelsAssumption
<1>4. ~(job[k].prio > p)
  BY <1>1, <1>2 DEF IsTop
<1>5. CASE job[k].prio = p
  <2>1. k \in levels[p] /\ <<k, j>> \notin ahead
    BY <1>1, <1>2, <1>5 DEF IsHead
  <2>2. CASE k = j
    BY <1>2, <1>5, <2>2, FromType
  <2>3. CASE k # j
    <3>1. InARow(ahead, levels[p])
      BY QueuesInRows
    <3>2. <<j, k>> \in ahead
      BY <1>1, <2>1, <2>3, <3>1 DEF InARow
    <3>3. job[j].from <= job[k].from
      BY <1>1, <1>2, <2>1, <3>2 DEF KeptInOrder
    <3>4. QED
      BY <1>2, <1>5, <3>3
  <2>4. QED
    BY <2>2, <2>3
<1>6. CASE job[k].prio # p
  BY <1>2, <1>3, <1>4, <1>6
<1>7. QED
  BY <1>5, <1>6

\* What a step starts is more urgent than all it leaves.
LEMMA UrgentStep ==
  ASSUME TypeOK, NoJobLost, LevelsAreQueues, KeptInOrder, StartedEarlier, UrgentSoFar,
         [Next]_vars
  PROVE  UrgentSoFar'
<1>a. /\ job \in [Jobs -> QueuedRecord] /\ jobs \subseteq Jobs /\ now \in Nat
      /\ levels \in [Priorities -> SUBSET Jobs] /\ Waiting \subseteq Jobs
      /\ \A i \in Jobs : job[i].started \in Int
  BY FromType DEF TypeOK, Never, Waiting
<1>1. ASSUME pc' \notin {"waiting", "count"}
      PROVE  UrgentSoFar'
  BY <1>1 DEF UrgentSoFar
<1>2. ASSUME UNCHANGED <<now, jobs, job, levels>>, pc \in {"arrivals", "running"}
      PROVE  UrgentSoFar'
  <2>1. \A i \in jobs : job[i].started # now
    BY <1>2, <1>a DEF StartedEarlier
  <2>2. QED
    BY <1>2, <2>1 DEF UrgentSoFar
<1>3. ASSUME NEW to \in Instants, NEW n \in Executors, Advance(to, n)
      PROVE  UrgentSoFar'
  BY <1>1, <1>3 DEF Advance
<1>4. ASSUME NEW j \in Workflow, NEW t \in Instants, Submit(j, t)
      PROVE  UrgentSoFar'
  BY <1>1, <1>4 DEF Submit
<1>5. ASSUME NEW j \in Jobs, NEW p \in Priorities,
             NEW exempt \in BOOLEAN, NEW restart \in BOOLEAN,
             Update(j, p, exempt, restart)
      PROVE  UrgentSoFar'
  BY <1>1, <1>5 DEF Update
<1>6. ASSUME NEW j \in Jobs, AdmitArrival(j) \/ AdmitSubmitted(j)
      PROVE  UrgentSoFar'
  BY <1>1, <1>6 DEF AdmitArrival, AdmitSubmitted
<1>7. ASSUME ArrivalsOver \/ RunningServed
      PROVE  UrgentSoFar'
  BY <1>2, <1>7 DEF ArrivalsOver, RunningServed, feeds, time, queue
<1>8. ASSUME ServeRunning
      PROVE  UrgentSoFar'
  <2>1. pc' = "running"
    BY <1>8, ServeRunningEffect
  <2>2. QED
    BY <1>1, <2>1
<1>9. ASSUME NEW p \in Priorities, NEW j \in Jobs, ServeWaiting(p, j)
      PROVE  UrgentSoFar'
  <2>1. /\ UNCHANGED <<now, pc, jobs>> /\ pc = "waiting"
        /\ \A i \in Jobs \ {j} : job'[i] = job[i]
        /\ job'[j].prio = job[j].prio /\ job'[j].from = job[j].from
    BY <1>9, ServeWaitingEffect
  <2>2. \A k \in Waiting' : k \in Waiting /\ k # j
    <3>1. /\ levels' = [levels EXCEPT ![p] = @ \ {j}] /\ j \in levels[p]
      BY <1>9 DEF ServeWaiting, IsHead
    <3>2. \A q \in Priorities : levels'[q] = levels[q] \ {j}
      BY <3>1, <1>a DEF NoJobLost
    <3>3. QED
      BY <3>2 DEF Waiting
  <2>3. ASSUME NEW i \in jobs', NEW k \in Waiting', job'[i].started = now'
        PROVE  \/ job'[i].prio > job'[k].prio
               \/ job'[i].prio = job'[k].prio /\ job'[i].from <= job'[k].from
    <3>1. k \in Waiting /\ job'[k] = job[k]
      BY <1>a, <2>1, <2>2
    <3>2. CASE i = j
      <4>1. \/ job[j].prio > job[k].prio
            \/ job[j].prio = job[k].prio /\ job[j].from <= job[k].from
        BY <1>9, <3>1, HeadIsMostUrgent
      <4>2. QED
        BY <2>1, <3>1, <3>2, <4>1
    <3>3. CASE i # j
      <4>1. i \in jobs /\ job'[i] = job[i] /\ job[i].started = now
        BY <1>a, <2>1, <2>3, <3>3
      <4>2. QED
        BY <2>1, <3>1, <4>1 DEF UrgentSoFar
    <3>4. QED
      BY <3>2, <3>3
  <2>4. QED
    BY <2>3 DEF UrgentSoFar
<1>10. ASSUME WaitingServed
       PROVE  UrgentSoFar'
  <2>1. UNCHANGED <<now, jobs, job, levels>> /\ pc = "waiting"
    BY <1>10 DEF WaitingServed, feeds, time, queue
  <2>2. Waiting' = Waiting
    BY <2>1 DEF Waiting
  <2>3. QED
    BY <2>1, <2>2 DEF UrgentSoFar
<1>11. ASSUME CountBreaches \/ MergeMovers
       PROVE  UrgentSoFar'
  BY <1>1, <1>11 DEF CountBreaches, MergeMovers
<1>12. CASE UNCHANGED vars
  <2>1. UNCHANGED <<now, jobs, job, levels, pc>>
    BY <1>12 DEF vars
  <2>2. Waiting' = Waiting
    BY <2>1 DEF Waiting
  <2>3. QED
    BY <2>1, <2>2 DEF UrgentSoFar
<1>13. QED
  BY <1>3, <1>4, <1>5, <1>6, <1>7, <1>8, <1>9, <1>10, <1>11, <1>12
  DEF Next, Calls, Steps

-----------------------------------------------------------------------------

\* An empty queue is in order.
LEMMA OrderInit == Init => Order
<1> SUFFICES ASSUME Init
             PROVE  Order
  OBVIOUS
<1>1. /\ jobs = {} /\ now = 0 /\ pc = "idle" /\ log = Log
      /\ \A p \in Priorities : levels[p] = {}
  BY DEF Init
<1>2. \A j \in Log : at[j] \in Nat
  BY BoundsAssumption, JobsAssumption DEF Init
<1>3. KeptInOrder
  BY <1>1 DEF KeptInOrder, Kept
<1>4. Arrived
  BY <1>1, <1>2 DEF Arrived
<1>5. StartedEarlier /\ UrgentSoFar
  BY <1>1 DEF StartedEarlier, UrgentSoFar
<1> QED
  BY <1>3, <1>4, <1>5 DEF Order

\* DeadlineOrder is not inductive by itself: a job admitted goes to the back of
\* its level unlooked at, which is in order because deadlines already running
\* started no later than anything the log has left (Arrived).
THEOREM OrderHolds == ASSUME LogOnly PROVE Spec => []Order
<1>1. TypeOK /\ NoJobLost /\ LevelsAreQueues /\ Order /\ [Next]_vars => Order'
  BY KeptInOrderStep, ArrivedStep, StartedEarlierStep, UrgentStep DEF Order
<1>2. QED
  BY <1>1, OrderInit, LevelsStayQueues, TypeCorrect, EveryJobAccountedFor, PTL DEF Spec

\* The invariant on order gives the property.
LEMMA OrderMeansInOrder ==
  ASSUME TypeOK, NoJobLost, LevelsAreQueues, Order
  PROVE  LevelsInOrder
<1>1. DeadlineOrder
  <2> SUFFICES ASSUME pc # "reprioritise", NEW p \in Priorities,
                      NEW i \in levels[p], NEW j \in levels[p], <<i, j>> \in ahead
               PROVE  job[i].from <= job[j].from
    BY DEF DeadlineOrder
  <2>1. Kept(p) = levels[p]
    BY NothingMoves
  <2>2. QED
    BY <2>1 DEF Order, KeptInOrder
<1>2. MostUrgentFirst
  BY DEF Order, UrgentSoFar, MostUrgentFirst
<1> QED
  BY <1>1, <1>2 DEF LevelsInOrder

\* While a run's work is its job log, whatever intent reprioritises, merges and
\* restarts: a level is one queue in deadline order ("A level is kept in this
\* order, so its head is always the job closest to breaching"), and what an
\* interval starts is more urgent than all it leaves waiting.
THEOREM LevelsKeepOrder == ASSUME LogOnly PROVE Spec => []LevelsInOrder
<1>1. TypeOK /\ NoJobLost /\ LevelsAreQueues /\ Order => LevelsInOrder
  BY OrderMeansInOrder
<1>2. QED
  BY <1>1, OrderHolds, LevelsStayQueues, TypeCorrect, EveryJobAccountedFor, PTL

-----------------------------------------------------------------------------

\* Some of a level, if there is anyone, have a first.
LEMMA FirstExists ==
  ASSUME TypeOK, LevelsAreQueues, NEW p \in Priorities,
         NEW S \in SUBSET levels[p], S # {}
  PROVE  \E j \in S : \A i \in S : <<i, j>> \notin ahead
<1> DEFINE Pred(j) == {i \in S : <<i, j>> \in ahead}
           Sizes   == {Cardinality(Pred(j)) : j \in S}
<1>1. S \in SUBSET Jobs /\ InARow(ahead, levels[p])
  BY QueuesInRows DEF TypeOK
<1>2. \A j : IsFiniteSet(Pred(j)) /\ Cardinality(Pred(j)) \in Nat
  <2>1. \A j : Pred(j) \in SUBSET Jobs
    BY <1>1
  <2>2. QED
    BY <2>1, JobsAreFinite
<1>3. Sizes \subseteq Nat /\ Sizes # {}
  BY <1>2
<1>4. \E n \in Sizes : \A m \in Sizes : ~(<<m, n>> \in OpToRel(<, Nat))
  <2> HIDE DEF Sizes
  <2>1. QED
    BY <1>3, NatLessThanWellFounded, WFMin
<1>5. PICK n \in Sizes : \A m \in Sizes : ~(m < n)
  BY <1>3, <1>4 DEF OpToRel
<1>6. PICK j \in S : n = Cardinality(Pred(j))
  BY <1>5
<1>7. ASSUME NEW i \in S, <<i, j>> \in ahead
      PROVE  FALSE
  <2>1. Pred(i) \subseteq Pred(j) /\ i \in Pred(j) /\ i \notin Pred(i)
    BY <1>1, <1>7 DEF InARow
  <2>2. PICK P : P = Pred(i)
    OBVIOUS
  <2>3. PICK Q : Q = Pred(j)
    OBVIOUS
  <2>4. P \in SUBSET Q /\ P # Q
    BY <2>1, <2>2, <2>3
  <2>5. /\ IsFiniteSet(Q) /\ Cardinality(Q) = n /\ n \in Nat
        /\ Cardinality(P) \in Nat /\ Cardinality(P) \in Sizes
    BY <1>2, <1>6, <2>2, <2>3
  <2>6. Cardinality(P) <= Cardinality(Q) /\ Cardinality(Q) # Cardinality(P)
    BY ONLY <2>4, <2>5, FS_Subset
  <2>7. Cardinality(P) < n
    BY ONLY <2>5, <2>6
  <2>8. QED
    BY <1>5, <2>5, <2>7
<1>8. QED
  BY <1>7

\* How long the longest waiting of some jobs has waited, as a snapshot reads it
\* off the first of them.
OldestOf(S) == IF S = {} THEN 0 ELSE Age(FirstOf(S))

\* In deadline order the first of some jobs of a level is the oldest of them.
LEMMA FirstIsOldest ==
  ASSUME TypeOK, LevelsAreQueues, DeadlineOrder, pc # "reprioritise",
         NEW p \in Priorities, NEW S \in SUBSET levels[p]
  PROVE  /\ OldestOf(S) \in Nat
         /\ \A i \in S : Age(i) <= OldestOf(S)
         /\ S # {} => \E i \in S : OldestOf(S) = Age(i)
         /\ S = {} => OldestOf(S) = 0
<1>a. /\ S \in SUBSET Jobs /\ \A i \in Jobs : Age(i) \in Nat
      /\ InARow(ahead, levels[p])
  BY QueuesInRows, FromType DEF TypeOK, Age, Greatest
<1>1. CASE S = {}
  BY <1>1 DEF OldestOf
<1>2. CASE S # {}
  <2>1. PICK j : j = FirstOf(S)
    OBVIOUS
  <2>2. j \in S /\ \A i \in S : <<i, j>> \notin ahead
    BY <1>2, <2>1, FirstExists DEF FirstOf
  <2>3. OldestOf(S) = Age(j)
    BY <1>2, <2>1 DEF OldestOf
  <2>4. ASSUME NEW i \in S
        PROVE  Age(i) <= Age(j)
    <3>1. CASE i = j
      BY <1>a, <2>2, <3>1
    <3>2. CASE i # j
      <4>1. <<j, i>> \in ahead
        BY <1>a, <2>2, <3>2 DEF InARow
      <4>2. job[j].from <= job[i].from
        BY <2>2, <4>1 DEF DeadlineOrder
      <4>3. job[j].from \in Nat /\ job[i].from \in Nat /\ now \in Nat
        BY <1>a, <2>2, FromType
      <4>4. QED
        BY <4>2, <4>3 DEF Age, Greatest
    <3>3. QED
      BY <3>1, <3>2
  <2>5. QED
    BY <1>2, <1>a, <2>2, <2>3, <2>4
<1>3. QED
  BY <1>1, <1>2

\* The older of the firsts of two parts of a level is the oldest of both.
LEMMA OldestOfBoth ==
  ASSUME TypeOK, LevelsAreQueues, DeadlineOrder, pc # "reprioritise",
         NEW p \in Priorities, NEW S \in SUBSET levels[p], NEW T \in SUBSET levels[p]
  PROVE  Greatest(OldestOf(S), OldestOf(T)) = OldestOf(S \cup T)
<1>1. /\ OldestOf(S) \in Nat /\ OldestOf(T) \in Nat /\ OldestOf(S \cup T) \in Nat
      /\ \A i \in S : Age(i) <= OldestOf(S)
      /\ \A i \in T : Age(i) <= OldestOf(T)
      /\ \A i \in S \cup T : Age(i) <= OldestOf(S \cup T)
  BY FirstIsOldest
<1>2. OldestOf(S) <= OldestOf(S \cup T)
  <2>1. CASE S = {}
    BY <1>1, <2>1, FirstIsOldest
  <2>2. CASE S # {}
    <3>1. PICK i \in S : OldestOf(S) = Age(i)
      BY <2>2, FirstIsOldest
    <3>2. QED
      BY <1>1, <3>1
  <2>3. QED
    BY <2>1, <2>2
<1>3. OldestOf(T) <= OldestOf(S \cup T)
  <2>1. CASE T = {}
    BY <1>1, <2>1, FirstIsOldest
  <2>2. CASE T # {}
    <3>1. PICK i \in T : OldestOf(T) = Age(i)
      BY <2>2, FirstIsOldest
    <3>2. QED
      BY <1>1, <3>1
  <2>3. QED
    BY <2>1, <2>2
<1>4. OldestOf(S \cup T) <= OldestOf(S) \/ OldestOf(S \cup T) <= OldestOf(T)
  <2>1. CASE S \cup T = {}
    <3>1. OldestOf(S \cup T) = 0
      BY <2>1, FirstIsOldest
    <3>2. QED
      BY <1>1, <3>1
  <2>2. CASE S \cup T # {}
    <3>1. PICK i \in S \cup T : OldestOf(S \cup T) = Age(i)
      <4>1. S \cup T \in SUBSET levels[p]
        OBVIOUS
      <4>2. QED
        BY <2>2, <4>1, FirstIsOldest
    <3>2. QED
      BY <1>1, <3>1
  <2>3. QED
    BY <2>1, <2>2
<1>5. QED
  BY <1>1, <1>2, <1>3, <1>4 DEF Greatest

DepthIn(s, p)  == IF p \in DOMAIN s THEN s[p].depth ELSE 0
OldestIn(s, p) == IF p \in DOMAIN s THEN s[p].oldest ELSE 0

\* What the aggregate of some jobs says of them.
LEMMA AggregateReads ==
  ASSUME NEW S, NEW n
  PROVE  Aggregate(S, n).depth = Cardinality(S) /\ Aggregate(S, n).oldest = OldestOf(S)
BY DEF Aggregate, OldestOf

\* A snapshot says of each level how many it has of the work it is about and
\* how long the oldest of them has waited, of a level it leaves out too.
LEMMA SnapshotReads ==
  ASSUME TypeOK, NEW p \in Priorities
  PROVE  /\ DepthIn(Snapshot, p) = Cardinality(levels[p])
         /\ OldestIn(Snapshot, p) = OldestOf(levels[p])
<1>1. PICK s : s = Snapshot
  OBVIOUS
<1>2. /\ DOMAIN s = {q \in Priorities : levels[q] # {} \/ RecentArrivals(q) > 0}
      /\ \A q \in DOMAIN s : s[q] = Aggregate(levels[q], RecentArrivals(q))
  BY <1>1 DEF Snapshot
<1>3. CASE p \in DOMAIN s
  <2>1. s[p].depth = Cardinality(levels[p]) /\ s[p].oldest = OldestOf(levels[p])
    <3>1. s[p] = Aggregate(levels[p], RecentArrivals(p))
      BY <1>2, <1>3
    <3>2. QED
      BY <3>1, AggregateReads
  <2>2. QED
    BY <1>1, <1>3, <2>1 DEF DepthIn, OldestIn
<1>4. CASE p \notin DOMAIN s
  <2>1. levels[p] = {}
    BY <1>2, <1>4
  <2>2. QED
    BY <1>1, <1>4, <2>1, FS_EmptySet DEF DepthIn, OldestIn, OldestOf
<1> QED
  BY <1>3, <1>4

\* What the first half of the snapshot says of a level.
LEMMA CountedReads ==
  ASSUME TypeOK, exemptWaiting # 0, NEW p \in Priorities
  PROVE  /\ DepthIn(SnapshotCounted, p) = Cardinality(CountedIn(p))
         /\ OldestIn(SnapshotCounted, p) = OldestOf(CountedIn(p))
<1>1. PICK s : s = SnapshotCounted
  OBVIOUS
<1>2. /\ DOMAIN s = {q \in Priorities : CountedIn(q) # {} \/ RecentArrivals(q) > 0}
      /\ \A q \in DOMAIN s : s[q] = Aggregate(CountedIn(q), RecentArrivals(q))
  BY <1>1 DEF SnapshotCounted
<1>3. CASE p \in DOMAIN s
  <2>1. s[p].depth = Cardinality(CountedIn(p)) /\ s[p].oldest = OldestOf(CountedIn(p))
    <3>1. s[p] = Aggregate(CountedIn(p), RecentArrivals(p))
      BY <1>2, <1>3
    <3>2. QED
      BY <3>1, AggregateReads
  <2>2. QED
    BY <1>1, <1>3, <2>1 DEF DepthIn, OldestIn
<1>4. CASE p \notin DOMAIN s
  <2>1. CountedIn(p) = {}
    BY <1>2, <1>4
  <2>2. QED
    BY <1>1, <1>4, <2>1, FS_EmptySet DEF DepthIn, OldestIn, OldestOf
<1> QED
  BY <1>3, <1>4

\* What the second half says of it.
LEMMA ExemptReads ==
  ASSUME TypeOK, exemptWaiting # 0, NEW p \in Priorities
  PROVE  /\ DepthIn(SnapshotExempt, p) = Cardinality(ExemptIn(p))
         /\ OldestIn(SnapshotExempt, p) = OldestOf(ExemptIn(p))
<1>1. PICK s : s = SnapshotExempt
  OBVIOUS
<1>2. /\ DOMAIN s = {q \in Priorities : ExemptIn(q) # {}}
      /\ \A q \in DOMAIN s : s[q] = Aggregate(ExemptIn(q), 0)
  BY <1>1 DEF SnapshotExempt
<1>3. CASE p \in DOMAIN s
  <2>1. s[p].depth = Cardinality(ExemptIn(p)) /\ s[p].oldest = OldestOf(ExemptIn(p))
    <3>1. s[p] = Aggregate(ExemptIn(p), 0)
      BY <1>2, <1>3
    <3>2. QED
      BY <3>1, AggregateReads
  <2>2. QED
    BY <1>1, <1>3, <2>1 DEF DepthIn, OldestIn
<1>4. CASE p \notin DOMAIN s
  <2>1. ExemptIn(p) = {}
    BY <1>2, <1>4
  <2>2. QED
    BY <1>1, <1>4, <2>1, FS_EmptySet DEF DepthIn, OldestIn, OldestOf
<1> QED
  BY <1>3, <1>4

\* The two halves shown to the autoscaler are the queue.
LEMMA SplitIsExact ==
  ASSUME TypeOK, NoJobLost, ExemptCounted, LevelsAreQueues, DeadlineOrder
  PROVE  BurstSplit
<1> SUFFICES ASSUME pc = "idle", NEW p \in Priorities
             PROVE  /\ DepthIn(SnapshotCounted, p) + DepthIn(SnapshotExempt, p)
                         = DepthIn(Snapshot, p)
                    /\ DepthIn(SnapshotExempt, p) = Cardinality(ExemptIn(p))
                    /\ Greatest(OldestIn(SnapshotCounted, p), OldestIn(SnapshotExempt, p))
                         = OldestIn(Snapshot, p)
  BY DEF BurstSplit, DepthIn, OldestIn
<1>a. /\ levels[p] \in SUBSET Jobs
      /\ ExemptIn(p) \in SUBSET levels[p] /\ CountedIn(p) \in SUBSET levels[p]
      /\ ExemptIn(p) \cup CountedIn(p) = levels[p] /\ ExemptIn(p) \cap CountedIn(p) = {}
  BY DEF TypeOK, ExemptIn, CountedIn
<1>b. OldestOf(levels[p]) \in Nat /\ Cardinality(levels[p]) \in Nat
  BY <1>a, FirstIsOldest, JobsAreFinite
<1>1. CASE exemptWaiting = 0
  <2>1. SnapshotCounted = Snapshot /\ SnapshotExempt = <<>>
    BY <1>1 DEF SnapshotCounted, SnapshotExempt
  <2>2. DOMAIN <<>> = {}
    OBVIOUS
  <2>3. DepthIn(SnapshotExempt, p) = 0 /\ OldestIn(SnapshotExempt, p) = 0
    BY <2>1, <2>2 DEF DepthIn, OldestIn
  <2>4. ExemptIn(p) = {}
    <3>1. PICK E \in SUBSET Jobs : E = {j \in jobs : job[j].waiting /\ job[j].exempt}
      BY DEF TypeOK
    <3>2. Cardinality(E) = 0 /\ IsFiniteSet(E)
      BY <1>1, <3>1, JobsAreFinite DEF ExemptCounted
    <3>3. E = {}
      BY <3>2, FS_EmptySet
    <3>4. ExemptIn(p) \subseteq E
      BY <1>a, <3>1 DEF ExemptIn, NoJobLost
    <3>5. QED
      BY <3>3, <3>4
  <2>5. Cardinality(ExemptIn(p)) = 0
    BY <2>4, FS_EmptySet
  <2>6. QED
    BY <1>b, <2>1, <2>3, <2>5, SnapshotReads DEF Greatest
<1>2. CASE exemptWaiting # 0
  <2>1. Cardinality(CountedIn(p) \cup ExemptIn(p))
          = Cardinality(CountedIn(p)) + Cardinality(ExemptIn(p))
    <3>1. CountedIn(p) \in SUBSET Jobs /\ ExemptIn(p) \in SUBSET Jobs
            /\ CountedIn(p) \cap ExemptIn(p) = {}
      BY <1>a
    <3>2. QED
      BY <3>1, ManyMore
  <2>2. Greatest(OldestOf(CountedIn(p)), OldestOf(ExemptIn(p)))
          = OldestOf(CountedIn(p) \cup ExemptIn(p))
    <3>1. pc # "reprioritise"
      OBVIOUS
    <3>2. QED
      BY <1>a, <3>1, OldestOfBoth
  <2>3. CountedIn(p) \cup ExemptIn(p) = levels[p]
    BY <1>a
  <2>4. /\ DepthIn(SnapshotCounted, p) = Cardinality(CountedIn(p))
        /\ OldestIn(SnapshotCounted, p) = OldestOf(CountedIn(p))
        /\ DepthIn(SnapshotExempt, p) = Cardinality(ExemptIn(p))
        /\ OldestIn(SnapshotExempt, p) = OldestOf(ExemptIn(p))
        /\ DepthIn(Snapshot, p) = Cardinality(levels[p])
        /\ OldestIn(Snapshot, p) = OldestOf(levels[p])
    BY <1>2, SnapshotReads, CountedReads, ExemptReads
  <2>5. QED
    BY <2>1, <2>2, <2>3, <2>4
<1> QED
  BY <1>1, <1>2

\* A level that received a job of the log within the window is in the snapshot.
LEMMA ReceivingIsShown ==
  ASSUME LogOnly, TypeOK
  PROVE  ReceivingIsVisible
<1> SUFFICES ASSUME NEW j \in jobs, at[j] >= now - ArrivalWindow
             PROVE  Level[j] \in DOMAIN Snapshot
  BY DEF ReceivingIsVisible
<1>1. j \in Jobs /\ Level[j] \in Priorities
  BY JobsAssumption DEF TypeOK
<1>2. PICK A \in SUBSET Jobs :
        A = {i \in Log \cap jobs : Level[i] = Level[j] /\ at[i] >= now - ArrivalWindow}
  BY DEF TypeOK
<1>3. j \in A /\ IsFiniteSet(A) /\ Cardinality(A) \in Nat
  BY <1>1, <1>2, JobsAreFinite DEF LogOnly
<1>4. Cardinality(A) # 0
  BY <1>3, FS_EmptySet
<1>5. RecentArrivals(Level[j]) > 0
  BY <1>2, <1>3, <1>4 DEF RecentArrivals
<1> QED
  BY <1>1, <1>5 DEF Snapshot

\* While a run's work is its job log: Stats counts what the jobs went through,
\* a job nothing moved is judged alike by both counts, the two halves of the
\* queue SnapshotByBurst returns are the queue, to the oldest job of a level,
\* and a level that is receiving work is shown.
THEOREM AccountsAreRight == ASSUME LogOnly PROVE Spec => []AccountsAgree
<1>1. TypeOK /\ NoJobLost /\ ExemptCounted /\ LevelsAreQueues /\ LevelsInOrder
        /\ ServingAddsUp /\ CountersMatchJobs => AccountsAgree
  BY SplitIsExact, ReceivingIsShown DEF AccountsAgree, LevelsInOrder, ServingAddsUp
<1>2. QED
  BY <1>1, TypeCorrect, EveryJobAccountedFor, ExemptNeverDrifts, LevelsStayQueues,
     LevelsKeepOrder, ServingIsRight, CountersAreRight, PTL

-----------------------------------------------------------------------------

\* While a run's work is its job log: though countBreaches stops at the first
\* job with time left, no waiting job past its deadline goes uncounted when
\* Advance returns.
THEOREM NoBreachIsMissed == ASSUME LogOnly PROVE Spec => OverdueIsCounted
<1>1. TypeOK /\ NoJobLost /\ LevelsInOrder /\ [Next]_vars =>
        [pc = "count" => \A j \in Waiting : Late(j) => job'[j].breached]_vars
  <2> SUFFICES ASSUME TypeOK, NoJobLost, LevelsInOrder, [Next]_vars, pc = "count",
                      vars' # vars, NEW j \in Waiting, Late(j)
               PROVE  job'[j].breached
    OBVIOUS
  <2>1. CountBreaches
    BY DEF Next, Calls, Steps, Advance, Submit, Update, AdmitArrival, AdmitSubmitted,
           ArrivalsOver, ServeRunning, RunningServed, ServeWaiting, WaitingServed, MergeMovers
  <2>2. /\ job[j].prio \in Priorities /\ j \in levels[job[j].prio] /\ j \in Jobs
        /\ \A i \in levels[job[j].prio] : i \in Jobs
    BY NothingMoves
  <2>3. \A i \in levels[job[j].prio] :
          (i = j \/ <<i, j>> \in ahead) => now - job[i].from > For(job[j].prio)
    <3>1. now - job[j].from > For(job[j].prio)
      BY DEF Late
    <3>2. ASSUME NEW i \in levels[job[j].prio], <<i, j>> \in ahead
          PROVE  now - job[i].from > For(job[j].prio)
      <4>1. job[i].from <= job[j].from
        BY <2>2, <3>2 DEF LevelsInOrder, DeadlineOrder
      <4>2. /\ job[i].from \in Nat /\ job[j].from \in Nat /\ now \in Nat
            /\ For(job[j].prio) \in Nat
        BY <2>2, FromType, DeadlineType
      <4>3. QED
        BY <3>1, <4>1, <4>2
    <3>3. QED
      BY <3>1, <3>2
  <2>4. job[j].breached \/ j \in UNION {NewlyBreached(p) : p \in Priorities}
    <3>1. ~job[j].breached => j \in NewlyBreached(job[j].prio)
      BY <2>2, <2>3 DEF NewlyBreached
    <3>2. QED
      BY <2>2, <3>1
  <2>5. job'[j].breached = (job[j].breached
                              \/ j \in UNION {NewlyBreached(p) : p \in Priorities})
    <3>1. PICK N : N = UNION {NewlyBreached(p) : p \in Priorities}
      OBVIOUS
    <3>2. job' = [i \in Jobs |-> [job[i] EXCEPT !.breached = @ \/ i \in N]]
      BY <2>1, <3>1 DEF CountBreaches
    <3>3. job \in [Jobs -> QueuedRecord]
      BY DEF TypeOK
    <3>4. job'[j].breached = (job[j].breached \/ j \in N)
      BY <2>2, <3>2, <3>3 DEF QueuedRecord
    <3>5. QED
      BY <3>1, <3>4
  <2>6. QED
    BY <2>4, <2>5
<1>2. QED
  BY <1>1, TypeCorrect, EveryJobAccountedFor, LevelsKeepOrder, PTL DEF Spec, OverdueIsCounted

-----------------------------------------------------------------------------
(* The queue does to its work what a fleet does (Fleet).                    *)

\* Between calls there is no interval and no budget, within one there is an
\* interval; and serve leaves budget over only when nobody waits.
Clocked ==
  /\ pc \in {"idle", "reprioritise"} => call.interval = 0 /\ call.budget = 0
  /\ pc \notin {"idle", "reprioritise"} => call.interval # 0
  /\ pc = "count" => call.budget = 0 \/ ~SomeoneWaits

\* Every step keeps the interval and the budget those of the call under way.
LEMMA ClockedStep == TypeOK /\ Clocked /\ [Next]_vars => Clocked'
<1> SUFFICES ASSUME TypeOK, Clocked, [Next]_vars PROVE Clocked'
  OBVIOUS
<1>a. /\ call \in Locals /\ call.interval \in Nat /\ call.budget \in Nat /\ now \in Nat
  BY DEF TypeOK, Locals
<1>1. ASSUME NEW to \in Instants, NEW n \in Executors, Advance(to, n) PROVE Clocked'
  <2>1. pc' = "arrivals" /\ call'.interval = to - now /\ to > now /\ to \in Nat
    BY <1>1, BoundsAssumption DEF Advance, NoCall
  <2>2. call'.interval # 0
    BY <1>a, <2>1
  <2> QED BY <2>1, <2>2 DEF Clocked
<1>2. ASSUME NEW j \in Workflow, NEW t \in Instants, Submit(j, t) PROVE Clocked'
  BY <1>2 DEF Submit, Clocked, SomeoneWaits, queue
<1>3. ASSUME NEW j \in Jobs, NEW p \in Priorities, NEW exempt \in BOOLEAN, NEW restart \in BOOLEAN,
             Update(j, p, exempt, restart)
      PROVE  Clocked'
  <2>1. /\ pc \in {"idle", "reprioritise"} /\ pc' = "reprioritise"
        /\ call' = [call EXCEPT !.updates = @ + 1]
    BY <1>3 DEF Update
  <2>2. call'.interval = call.interval /\ call'.budget = call.budget
    BY <1>a, <2>1 DEF Locals
  <2> QED BY <2>1, <2>2 DEF Clocked
<1>4. ASSUME NEW j \in Jobs, AdmitArrival(j) \/ AdmitSubmitted(j) PROVE Clocked'
  BY <1>4 DEF AdmitArrival, AdmitSubmitted, Clocked
<1>5. CASE ArrivalsOver
  <2>1. /\ pc = "arrivals" /\ UNCHANGED <<call, levels>>
        /\ pc' = IF call.budget > 0 THEN "running" ELSE "count"
    BY <1>5 DEF ArrivalsOver, queue
  <2>2. ~(call.budget > 0) => call.budget = 0
    BY <1>a
  <2> QED BY <2>1, <2>2 DEF Clocked
<1>6. CASE ServeRunning
  <2>1. pc = "running" /\ pc' = pc
    BY <1>6 DEF ServeRunning
  <2>2. call'.interval = call.interval
    BY <1>a, <1>6 DEF ServeRunning, Locals
  <2> QED BY <2>1, <2>2 DEF Clocked
<1>7. CASE RunningServed
  BY <1>7 DEF RunningServed, Clocked
<1>8. ASSUME NEW p \in Priorities, NEW j \in Jobs, ServeWaiting(p, j) PROVE Clocked'
  <2>1. pc = "waiting" /\ pc' = pc
    BY <1>8 DEF ServeWaiting
  <2>2. call'.interval = call.interval
    BY <1>a, <1>8 DEF ServeWaiting, Locals
  <2> QED BY <2>1, <2>2 DEF Clocked
<1>9. CASE WaitingServed
  BY <1>9 DEF WaitingServed, NothingToServe, SomeoneWaits, queue, Clocked
<1>10. CASE CountBreaches
  BY <1>10 DEF CountBreaches, NoCall, Clocked
<1>11. CASE MergeMovers
  BY <1>11 DEF MergeMovers, Clocked
<1>12. CASE UNCHANGED vars
  BY <1>12 DEF vars, Clocked, SomeoneWaits
<1> QED BY <1>1, <1>2, <1>3, <1>4, <1>5, <1>6, <1>7, <1>8, <1>9, <1>10, <1>11, <1>12
        DEF Next, Calls, Steps

\* The place of every job, read from where the queue has it.
Placed ==
  \A j \in Jobs :
    /\ j \notin jobs => PlaceOf(j) = "coming"
    /\ j \in finished => PlaceOf(j) = "done"
    /\ j \in jobs /\ job[j].waiting = TRUE => PlaceOf(j) = "waiting"
    /\ InList(j, todo) => PlaceOf(j) = "due"
    /\ InList(j, running) => PlaceOf(j) = IF pc = "arrivals" THEN "due" ELSE "working"
    /\ j \notin jobs \/ j \in finished \/ (j \in jobs /\ job[j].waiting = TRUE)
         \/ InList(j, todo) \/ InList(j, running)

\* Nobody being lost or in two places, everyone has a place.
LEMMA PlaceIs == TypeOK /\ NoJobLost => Placed
<1> SUFFICES ASSUME TypeOK, NoJobLost, NEW j \in Jobs
             PROVE  /\ j \notin jobs => PlaceOf(j) = "coming"
                    /\ j \in finished => PlaceOf(j) = "done"
                    /\ j \in jobs /\ job[j].waiting = TRUE => PlaceOf(j) = "waiting"
                    /\ InList(j, todo) => PlaceOf(j) = "due"
                    /\ InList(j, running) => PlaceOf(j) = IF pc = "arrivals" THEN "due" ELSE "working"
                    /\ j \notin jobs \/ j \in finished \/ (j \in jobs /\ job[j].waiting = TRUE)
                         \/ InList(j, todo) \/ InList(j, running)
  BY DEF Placed
<1>1. job[j].waiting \in BOOLEAN
  BY DEF TypeOK, QueuedRecord
<1>2. j \in jobs => (job[j].waiting = TRUE <=> j \in Waiting)
  BY <1>1 DEF NoJobLost, Waiting
<1>3. /\ j \in finished => j \in jobs
      /\ InList(j, todo) \/ InList(j, running) => j \in jobs
      /\ j \in jobs => (job[j].waiting = TRUE <=> ~(InList(j, todo) \/ InList(j, running) \/ j \in finished))
      /\ ~((InList(j, todo) \/ InList(j, running)) /\ j \in finished)
      /\ ~(InList(j, running) /\ InList(j, todo))
  BY <1>1 DEF NoJobLost, InProgress
<1>4. CASE j \notin jobs
  <2>1. PlaceOf(j) = "coming"
    BY <1>4 DEF PlaceOf
  <2> QED BY <1>3, <1>4, <2>1
<1>5. CASE j \in finished
  <2>1. PlaceOf(j) = "done"
    BY <1>3, <1>5 DEF PlaceOf
  <2> QED BY <1>3, <1>5, <2>1
<1>6. CASE j \in jobs /\ job[j].waiting = TRUE
  <2>1. j \in Waiting /\ j \notin finished
    BY <1>2, <1>3, <1>6
  <2>2. PlaceOf(j) = "waiting"
    BY <1>6, <2>1 DEF PlaceOf
  <2> QED BY <1>3, <1>6, <2>1, <2>2
<1>7. CASE InList(j, todo)
  <2>1. j \in jobs /\ j \notin finished /\ j \notin Waiting
    BY <1>2, <1>3, <1>7
  <2>2. PlaceOf(j) = "due"
    BY <1>7, <2>1 DEF PlaceOf
  <2> QED BY <1>3, <1>7, <2>1, <2>2
<1>8. CASE InList(j, running)
  <2>1. j \in jobs /\ j \notin finished /\ j \notin Waiting /\ ~InList(j, todo)
    BY <1>2, <1>3, <1>8
  <2>2. PlaceOf(j) = IF pc = "arrivals" THEN "due" ELSE "working"
    BY <1>8, <2>1 DEF PlaceOf
  <2> QED BY <1>3, <1>8, <2>1, <2>2
<1> QED BY <1>3, <1>4, <1>5, <1>6, <1>7, <1>8

\* A job the queue leaves where it is stays in its place.
LEMMA PlaceStays ==
  ASSUME Placed, Placed', NEW i \in Jobs, i \in jobs' <=> i \in jobs, i \in finished' <=> i \in finished,
         job'[i].waiting = job[i].waiting, InList(i, running)' <=> InList(i, running),
         InList(i, todo)' <=> InList(i, todo), pc' = "arrivals" <=> pc = "arrivals"
  PROVE  PlaceOf(i)' = PlaceOf(i)
BY DEF Placed

\* The least of three is serve's two math.Min.
LEMMA LeastOfThree ==
  ASSUME NEW a \in Nat, NEW b \in Nat, NEW c \in Nat
  PROVE  Abstract!Min({a, b, c}) = Least(Least(a, b), c)
<1>1. PICK m : m = Least(Least(a, b), c)
  OBVIOUS
<1>2. m \in {a, b, c} /\ m \in Nat /\ m =< a /\ m =< b /\ m =< c
  BY <1>1 DEF Least
<1>3. \A x \in {a, b, c} : m =< x
  BY <1>2
<1>4. \A x \in {a, b, c} : (\A y \in {a, b, c} : x =< y) => x = m
  BY <1>2
<1>5. (CHOOSE x \in {a, b, c} : \A y \in {a, b, c} : x =< y) = m
  BY <1>2, <1>3, <1>4
<1> QED BY <1>1, <1>5 DEF Abstract!Min

\* What an executor gives a job of the queue is a fleet's share for it.
LEMMA ShareIsWork ==
  ASSUME TypeOK, NEW j \in jobs
  PROVE  /\ Abstract!Share(j) = Work(j) /\ Work(j) \in Nat
         /\ LeftOf(j) = job[j].remaining
<1>1. /\ j \in Jobs /\ call.interval \in Nat /\ call.budget \in Nat /\ job[j].remaining \in Nat
  BY DEF TypeOK, Locals, QueuedRecord
<1>2. LeftOf(j) = job[j].remaining
  BY DEF LeftOf
<1>3. Abstract!Share(j) = Abstract!Min({call.interval, job[j].remaining, call.budget})
  BY <1>1, <1>2 DEF Abstract!Share
<1> QED BY <1>1, <1>2, <1>3, LeastOfThree, WorkBounds DEF Work

\* Taking up a new interval: what is in progress is due.
LEMMA AdvanceBegins ==
  ASSUME TypeOK, NoJobLost, Clocked, Placed, Placed',
         NEW to \in Instants, NEW n \in Executors, Advance(to, n)
  PROVE  Abstract!Begin
<1>1. /\ pc = "idle" /\ pc' = "arrivals" /\ to > now /\ to \in Nat /\ now \in Nat
      /\ call'.interval = to - now /\ call'.budget = Ready(n) * (to - now)
      /\ UNCHANGED <<jobs, job, running, todo, finished>>
  BY BoundsAssumption DEF Advance, NoCall, feeds, TypeOK
<1>2. \A i : ~InList(i, todo)
  BY <1>1 DEF NoJobLost, InList
<1>3. ASSUME NEW i \in Jobs
      PROVE  PlaceOf(i)' = IF PlaceOf(i) = "working" THEN "due" ELSE PlaceOf(i)
  <2>1. /\ InList(i, running)' <=> InList(i, running)
        /\ ~InList(i, todo)'
    BY <1>1, <1>2 DEF InList
  <2> QED BY <1>1, <1>2, <2>1 DEF Placed
<1>4. [j \in Jobs |-> PlaceOf(j)]'
        = [j \in Jobs |-> IF [k \in Jobs |-> PlaceOf(k)][j] = "working"
                          THEN "due" ELSE [k \in Jobs |-> PlaceOf(k)][j]]
  BY <1>3
<1>5. UNCHANGED [j \in Jobs |-> LeftOf(j)]
  BY <1>1 DEF LeftOf
<1>6. call.interval = 0 /\ call'.interval \in Nat \ {0}
  BY <1>1 DEF Clocked
<1>7. \E executors \in {Ready(m) : m \in Executors} : call'.budget = executors * call'.interval
  BY <1>1
<1> QED BY <1>4, <1>5, <1>6, <1>7 DEF Abstract!Begin, Abstract!All

\* An arrival joins what waits.
LEMMA AdmitArrives ==
  ASSUME TypeOK, NoJobLost, Placed, Placed', NEW j \in Jobs, AdmitArrival(j) \/ AdmitSubmitted(j)
  PROVE  Abstract!Arrive(j)
<1>1. /\ j \notin jobs /\ jobs' = jobs \cup {j} /\ job' = [job EXCEPT ![j] = Admitted(j)]
      /\ UNCHANGED <<running, todo, finished, pc, call>>
  BY AdmitEffect DEF AdmitArrival, AdmitSubmitted, Admit
<1>2. job'[j].waiting = TRUE /\ job'[j].remaining = Seconds[j]
  BY <1>1 DEF TypeOK, Admitted
<1>3. \A i \in Jobs \ {j} : job'[i] = job[i]
  BY <1>1 DEF TypeOK
<1>4. ASSUME NEW i \in Jobs
      PROVE  PlaceOf(i)' = IF i = j THEN "waiting" ELSE PlaceOf(i)
  <2>1. InList(i, running)' <=> InList(i, running)
    BY <1>1 DEF InList
  <2>2. InList(i, todo)' <=> InList(i, todo)
    BY <1>1 DEF InList
  <2>3. CASE i = j
    BY <1>1, <1>2, <2>3 DEF Placed
  <2>4. CASE i # j
    BY <1>1, <1>3, <2>1, <2>2, <2>4 DEF Placed
  <2> QED BY <2>3, <2>4
<1>5. \A i \in Jobs : LeftOf(i)' = LeftOf(i)
  BY <1>1, <1>2, <1>3 DEF LeftOf
<1>6. PlaceOf(j) = "coming"
  BY <1>1 DEF Placed
<1> QED BY <1>1, <1>4, <1>5, <1>6 DEF Abstract!Arrive

\* With something to serve with nothing happens to the work yet; with nothing,
\* what was due stays in progress.
LEMMA ArrivalsOverStrands ==
  ASSUME TypeOK, NoJobLost, Placed, Placed', ArrivalsOver
  PROVE  Abstract!Strand \/ UNCHANGED Abstract!vars
<1>1. /\ pc = "arrivals" /\ UNCHANGED <<jobs, job, finished, call>>
      /\ call.budget \in Nat /\ running \in Seq(Jobs)
  BY DEF ArrivalsOver, feeds, TypeOK, Locals
<1>2. \A i : ~InList(i, todo)
  BY <1>1 DEF NoJobLost, InList
<1>3. UNCHANGED [j \in Jobs |-> LeftOf(j)]
  BY <1>1 DEF LeftOf
<1>4. CASE call.budget > 0
  <2>1. pc' = "running" /\ todo' = running /\ running' = <<>>
    BY <1>4 DEF ArrivalsOver
  <2>2. ASSUME NEW i \in Jobs PROVE PlaceOf(i)' = PlaceOf(i)
    <3>1. (InList(i, todo)' <=> InList(i, running)) /\ ~InList(i, running)'
      BY <2>1 DEF InList
    <3> QED BY <1>1, <1>2, <2>1, <3>1 DEF Placed
  <2> QED BY <1>1, <1>3, <2>2 DEF Abstract!vars
<1>5. CASE ~(call.budget > 0)
  <2>1. pc' = "count" /\ UNCHANGED <<running, todo>> /\ call.budget = 0
    BY <1>1, <1>5 DEF ArrivalsOver
  <2>2. ASSUME NEW i \in Jobs
        PROVE  PlaceOf(i)' = IF PlaceOf(i) = "due" THEN "working" ELSE PlaceOf(i)
    <3>1. (InList(i, running)' <=> InList(i, running)) /\ ~InList(i, todo)'
      BY <1>2, <2>1 DEF InList
    <3> QED BY <1>1, <1>2, <2>1, <3>1 DEF Placed
  <2> QED BY <1>1, <1>3, <2>1, <2>2 DEF Abstract!Strand, Abstract!All
<1> QED BY <1>4, <1>5

\* The turn of what is in progress, or the end of the budget half-way through it.
LEMMA ServeRunningServes ==
  ASSUME TypeOK, NoJobLost, Placed, Placed', ServeRunning
  PROVE  Abstract!Strand \/ \E j \in Jobs : Abstract!Serve(j)
<1> DEFINE j == Head(todo)
<1>1. /\ pc = "running" /\ pc' = pc /\ jobs' = jobs /\ todo \in Seq(Jobs) /\ todo # <<>>
      /\ running \in Seq(Jobs) /\ call \in Locals /\ call.budget \in Nat /\ job \in [Jobs -> QueuedRecord]
  BY DEF ServeRunning, feeds, TypeOK, Locals
<1>2. j \in Jobs /\ \A i : InList(i, todo) <=> i = j \/ InList(i, Tail(todo))
  BY <1>1, TailOfList
<1>3. j \in jobs /\ ~InList(j, Tail(todo))
  BY <1>1, <1>2, TailOfList DEF NoJobLost, InProgress
<1> HIDE DEF j
<1>4. CASE call.budget = 0
  <2>1. /\ running' = running \o todo /\ todo' = <<>> /\ UNCHANGED <<job, finished, call>>
    BY <1>4 DEF ServeRunning, CarriedForward
  <2>2. ASSUME NEW i \in Jobs
        PROVE  PlaceOf(i)' = IF PlaceOf(i) = "due" THEN "working" ELSE PlaceOf(i)
    <3>a. InList(i, running \o todo) <=> InList(i, running) \/ InList(i, todo)
      BY <1>1, ConcatOfLists
    <3>b. (InList(i, running)' <=> InList(i, running \o todo)) /\ ~InList(i, todo)'
      BY <2>1 DEF InList
    <3>1. ~InList(i, todo)' /\ (InList(i, running)' <=> InList(i, running) \/ InList(i, todo))
      BY <3>a, <3>b
    <3> QED BY <1>1, <2>1, <3>1 DEF Placed
  <2>3. UNCHANGED [k \in Jobs |-> LeftOf(k)]
    BY <1>1, <2>1 DEF LeftOf
  <2> QED BY <1>4, <2>1, <2>2, <2>3 DEF Abstract!Strand, Abstract!All
<1>5. CASE call.budget # 0
  <2>1. /\ todo' = Tail(todo) /\ job' = [job EXCEPT ![j].remaining = @ - Work(j)]
        /\ IF Finishes(j)
           THEN finished' = finished \cup {j} /\ running' = running
           ELSE running' = Append(running, j) /\ finished' = finished
        /\ call'.interval = call.interval /\ call'.budget = BudgetLeft(j)
    BY <1>1, <1>5 DEF ServeRunning, Locals, j
  <2>2. /\ \A i \in Jobs : job'[i].waiting = job[i].waiting
        /\ \A i \in Jobs \ {j} : job'[i].remaining = job[i].remaining
        /\ job'[j].remaining = job[j].remaining - Work(j)
    BY <1>1, <1>2, <2>1 DEF QueuedRecord
  <2>3. ASSUME NEW i \in Jobs
        PROVE  PlaceOf(i)' = IF i = j THEN IF Finishes(j) THEN "done" ELSE "working" ELSE PlaceOf(i)
    <3>1. InList(i, todo)' <=> InList(i, Tail(todo))
      BY <2>1 DEF InList
    <3>2. CASE Finishes(j)
      <4>1. InList(i, running)' <=> InList(i, running)
        BY <2>1, <3>2 DEF InList
      <4> QED BY <1>1, <1>2, <1>3, <2>1, <2>2, <3>1, <3>2, <4>1 DEF Placed
    <3>3. CASE ~Finishes(j)
      <4>a. InList(i, Append(running, j)) <=> InList(i, running) \/ i = j
        BY <1>1, <1>2, AppendToList
      <4>b. InList(i, running)' <=> InList(i, Append(running, j))
        BY <2>1, <3>3 DEF InList
      <4>1. InList(i, running)' <=> InList(i, running) \/ i = j
        BY <4>a, <4>b
      <4> QED BY <1>1, <1>2, <1>3, <2>1, <2>2, <3>1, <3>3, <4>1 DEF Placed
    <3> QED BY <3>2, <3>3
  <2>4. \A i \in Jobs : LeftOf(i)' = IF i = j THEN job[j].remaining - Work(j) ELSE LeftOf(i)
    BY <1>1, <1>3, <2>2 DEF LeftOf
  <2>5. PlaceOf(j) = "due" /\ call.budget > 0
    BY <1>1, <1>2, <1>5 DEF Placed
  <2>6. Abstract!Serve(j)
    BY <1>2, <1>3, <2>1, <2>3, <2>4, <2>5, ShareIsWork DEF Abstract!Serve, Finishes, BudgetLeft
  <2> QED BY <1>2, <2>6
<1> QED BY <1>4, <1>5

\* A job taken from its level: only once nothing in progress is due.
LEMMA ServeWaitingServes ==
  ASSUME TypeOK, NoJobLost, Placed, Placed',
         NEW p \in Priorities, NEW j \in Jobs, ServeWaiting(p, j)
  PROVE  Abstract!Serve(j)
<1>1. /\ pc = "waiting" /\ pc' = pc /\ call.budget > 0 /\ jobs' = jobs /\ todo' = todo
      /\ running \in Seq(Jobs) /\ call \in Locals /\ job \in [Jobs -> QueuedRecord]
      /\ j \in levels[p] /\ job' = [job EXCEPT ![j] = Picked(j)]
      /\ finished' = IF Finishes(j) THEN finished \cup {j} ELSE finished
      /\ running' = IF Finishes(j) THEN running ELSE Append(running, j)
  BY DEF ServeWaiting, IsHead, feeds, TypeOK
<1>2. /\ call'.interval = call.interval /\ call'.budget = BudgetLeft(j)
  BY <1>1 DEF ServeWaiting, Locals
<1>3. j \in jobs /\ job[j].waiting = TRUE /\ \A i : ~InList(i, todo)
  BY <1>1 DEF NoJobLost, InList, QueuedRecord
<1>4. /\ job'[j].waiting = FALSE /\ job'[j].remaining = job[j].remaining - Work(j)
      /\ \A i \in Jobs \ {j} : job'[i] = job[i]
  BY <1>1 DEF Picked, QueuedRecord
<1>5. ASSUME NEW i \in Jobs
      PROVE  PlaceOf(i)' = IF i = j THEN IF Finishes(j) THEN "done" ELSE "working" ELSE PlaceOf(i)
  <2>1. ~InList(i, todo)'
    BY <1>1, <1>3 DEF InList
  <2>2. CASE Finishes(j)
    <3>1. InList(i, running)' <=> InList(i, running)
      BY <1>1, <2>2 DEF InList
    <3> QED BY <1>1, <1>3, <1>4, <2>1, <2>2, <3>1 DEF Placed
  <2>3. CASE ~Finishes(j)
    <3>1. InList(i, Append(running, j)) <=> InList(i, running) \/ i = j
      BY <1>1, AppendToList
    <3>2. InList(i, running)' <=> InList(i, Append(running, j))
      BY <1>1, <2>3 DEF InList
    <3> QED BY <1>1, <1>3, <1>4, <2>1, <2>3, <3>1, <3>2 DEF Placed
  <2> QED BY <2>2, <2>3
<1>6. \A i \in Jobs : LeftOf(i)' = IF i = j THEN job[j].remaining - Work(j) ELSE LeftOf(i)
  BY <1>1, <1>3, <1>4 DEF LeftOf
<1>7. PlaceOf(j) = "waiting"
  BY <1>3 DEF Placed
<1>8. ASSUME NEW i \in Jobs PROVE PlaceOf(i) # "due"
  BY <1>1, <1>3 DEF Placed
<1>9. Abstract!At("due") = {}
  BY <1>8 DEF Abstract!At
<1> QED BY <1>1, <1>2, <1>3, <1>5, <1>6, <1>7, <1>9, ShareIsWork
        DEF Abstract!Serve, Finishes, BudgetLeft

\* The end of an interval: nothing due, and budget over only with nobody waiting.
LEMMA CountBreachesEnds ==
  ASSUME TypeOK, NoJobLost, Clocked, Placed, Placed', CountBreaches
  PROVE  Abstract!End
<1>1. /\ pc = "count" /\ pc' = "idle" /\ call'.interval = 0 /\ call'.budget = 0
      /\ UNCHANGED <<jobs, running, todo, finished>> /\ job \in [Jobs -> QueuedRecord]
  BY DEF CountBreaches, NoCall, feeds, TypeOK
<1>2. \A i \in Jobs : job'[i].waiting = job[i].waiting /\ job'[i].remaining = job[i].remaining
  <2> DEFINE newly == UNION {NewlyBreached(p) : p \in Priorities}
  <2>1. job' = [i \in Jobs |-> [job[i] EXCEPT !.breached = @ \/ i \in newly]]
    BY DEF CountBreaches
  <2> HIDE DEF newly
  <2> QED BY <1>1, <2>1 DEF QueuedRecord
<1>3. \A i : ~InList(i, todo)
  BY <1>1 DEF NoJobLost, InList
<1>4. ASSUME NEW i \in Jobs
      PROVE  PlaceOf(i)' = PlaceOf(i) /\ PlaceOf(i) # "due"
  <2>1. (InList(i, running)' <=> InList(i, running)) /\ ~InList(i, todo)'
    BY <1>1, <1>3 DEF InList
  <2> QED BY <1>1, <1>2, <1>3, <2>1 DEF Placed
<1>5. UNCHANGED [i \in Jobs |-> LeftOf(i)]
  BY <1>1, <1>2 DEF LeftOf
<1>6. call.interval # 0 /\ (call.budget = 0 \/ Waiting = {})
  BY <1>1 DEF Clocked, SomeoneWaits, Waiting
<1>7. ASSUME Waiting = {}, NEW i \in Jobs
      PROVE  PlaceOf(i) # "waiting"
  BY <1>1, <1>3, <1>7 DEF PlaceOf
<1> QED BY <1>1, <1>4, <1>5, <1>6, <1>7 DEF Abstract!End, Abstract!At

\* What else the queue does, a fleet's work does not show.
LEMMA TheRestIsHidden ==
  ASSUME TypeOK, NoJobLost, Placed, Placed',
         \/ \E j \in Workflow, t \in Instants : Submit(j, t)
         \/ \E j \in Jobs, p \in Priorities, exempt, restart \in BOOLEAN :
              Update(j, p, exempt, restart)
         \/ RunningServed \/ WaitingServed \/ MergeMovers \/ UNCHANGED vars
  PROVE  UNCHANGED Abstract!vars
<1>1. /\ UNCHANGED <<jobs, running, todo, finished>>
      /\ pc' = "arrivals" <=> pc = "arrivals"
      /\ job \in [Jobs -> QueuedRecord] /\ call \in Locals
  BY DEF Submit, Update, RunningServed, WaitingServed, MergeMovers, feeds, vars, TypeOK
<1>2. call'.interval = call.interval /\ call'.budget = call.budget
  BY <1>1 DEF Submit, Update, RunningServed, WaitingServed, MergeMovers, vars, Locals
<1>3. \A i \in Jobs : job'[i].waiting = job[i].waiting /\ job'[i].remaining = job[i].remaining
  <2>1. ASSUME UNCHANGED job
        PROVE  \A i \in Jobs : job'[i].waiting = job[i].waiting /\ job'[i].remaining = job[i].remaining
    BY <2>1
  <2>2. ASSUME NEW j \in Jobs, NEW p, NEW exempt, NEW restart,
               job' = [job EXCEPT ![j] = Updated(j, p, exempt, restart)]
        PROVE  \A i \in Jobs : job'[i].waiting = job[i].waiting /\ job'[i].remaining = job[i].remaining
    BY <1>1, <2>2 DEF Updated, QueuedRecord
  <2>3. ASSUME NEW j \in Jobs, NEW p \in Priorities, NEW exempt \in BOOLEAN, NEW restart \in BOOLEAN,
               Update(j, p, exempt, restart)
        PROVE  UNCHANGED job \/ job' = [job EXCEPT ![j] = Updated(j, p, exempt, restart)]
    BY <2>3 DEF Update
  <2>4. CASE MergeMovers
    BY <1>1, <2>4 DEF MergeMovers, QueuedRecord
  <2>5. CASE \/ \E j \in Workflow, t \in Instants : Submit(j, t)
             \/ RunningServed \/ WaitingServed \/ UNCHANGED vars
    <3>1. UNCHANGED job
      BY <2>5 DEF Submit, RunningServed, WaitingServed, vars
    <3> QED BY <2>1, <3>1
  <2> QED BY <2>1, <2>2, <2>3, <2>4, <2>5
<1>4. ASSUME NEW i \in Jobs PROVE PlaceOf(i)' = PlaceOf(i)
  <2>1. (InList(i, running)' <=> InList(i, running)) /\ (InList(i, todo)' <=> InList(i, todo))
    BY <1>1 DEF InList
  <2> QED BY <1>1, <1>3, <2>1, PlaceStays
<1>5. \A i \in Jobs : LeftOf(i)' = LeftOf(i)
  BY <1>1, <1>3 DEF LeftOf
<1> QED BY <1>2, <1>4, <1>5 DEF Abstract!vars

\* Every step of the queue is a step of the fleet, or none of its business.
LEMMA FleetStep ==
  TypeOK /\ NoJobLost /\ Clocked /\ Placed /\ Placed' /\ [Next]_vars
    => [Abstract!Next]_Abstract!vars
<1> SUFFICES ASSUME TypeOK, NoJobLost, Clocked, Placed, Placed', [Next]_vars
             PROVE  Abstract!Next \/ UNCHANGED Abstract!vars
  OBVIOUS
<1>1. ASSUME NEW to \in Instants, NEW n \in Executors, Advance(to, n) PROVE Abstract!Next
  BY <1>1, AdvanceBegins DEF Abstract!Next
<1>2. ASSUME NEW j \in Jobs, AdmitArrival(j) \/ AdmitSubmitted(j) PROVE Abstract!Next
  BY <1>2, AdmitArrives DEF Abstract!Next
<1>3. CASE ArrivalsOver
  BY <1>3, ArrivalsOverStrands DEF Abstract!Next
<1>4. CASE ServeRunning
  BY <1>4, ServeRunningServes DEF Abstract!Next
<1>5. ASSUME NEW p \in Priorities, NEW j \in Jobs, ServeWaiting(p, j) PROVE Abstract!Next
  BY <1>5, ServeWaitingServes DEF Abstract!Next
<1>6. CASE CountBreaches
  BY <1>6, CountBreachesEnds DEF Abstract!Next
<1>7. CASE \/ \E j \in Workflow, t \in Instants : Submit(j, t)
           \/ \E j \in Jobs, p \in Priorities, exempt, restart \in BOOLEAN :
                Update(j, p, exempt, restart)
           \/ RunningServed \/ WaitingServed \/ MergeMovers \/ UNCHANGED vars
  BY <1>7, TheRestIsHidden
<1> QED BY <1>1, <1>2, <1>3, <1>4, <1>5, <1>6, <1>7 DEF Next, Calls, Steps

\* Whoever calls what, and in whatever order: work in progress is served before
\* any that waits, nothing gets more than one executor at a time, the interval
\* is not over with an executor idle and work waiting, and what is done was
\* given all its seconds.
THEOREM FleetRefined == Spec => ServesAsAFleet
<1>1. Init => Abstract!Init
  <2> SUFFICES ASSUME Init PROVE Abstract!Init
    OBVIOUS
  <2>1. \A j \in Jobs : PlaceOf(j) = "coming" /\ LeftOf(j) = Seconds[j]
    BY DEF Init, PlaceOf, LeftOf
  <2>2. [j \in Jobs |-> LeftOf(j)] = Seconds
    BY <2>1, JobsAssumption
  <2> QED BY <2>1, <2>2 DEF Abstract!Init, Init, NoCall
<1>2. Init => Clocked
  BY DEF Init, Clocked, NoCall
<1> QED BY <1>1, <1>2, ClockedStep, PlaceIs, FleetStep, TypeCorrect, EveryJobAccountedFor, PTL
        DEF Spec, ServesAsAFleet, Abstract!Spec

=============================================================================
