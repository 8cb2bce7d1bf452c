-------------------------------- MODULE Watch --------------------------------
(****************************************************************************)
(* Runs in flight and those who watch them: what internal/run/engine.go     *)
(* records and publishes as a simulation replays and as a live target is    *)
(* observed; the event streams of Hub; and the pages that ask for the       *)
(* ground a run protects (internal/api/ground.go), served from a cache of   *)
(* the last few runs' views.                                                *)
(*                                                                          *)
(* A run is one goroutine: it records, publishes, and goes on when Publish  *)
(* returns.  Any call of the store or the autoscaler may fail.              *)
(****************************************************************************)
EXTENDS Hub, FiniteSets, SequencesExt

CONSTANTS
  Live,         \* the runs that observe a target; the others are simulations
  Pages,        \* requests for protected ground
  ViewsKept,    \* viewsKept
  Scenes,       \* who takes part: runs in flight and finished, streams and
                \* pages, and whether calls fail and runs are cancelled
  MaxCycles,    \* bound on the cycles a simulation replays
  MaxDecisions  \* bound on the decisions a live target makes

ASSUME WatchAssumption ==
  /\ Live \subseteq Runs /\ ViewsKept \in Nat \ {0} /\ MaxCycles \in Nat /\ MaxDecisions \in Nat
  /\ Scenes \subseteq [runs : SUBSET Runs, finished : SUBSET Runs, watchers : SUBSET Watchers,
                      pages : SUBSET Pages, faults : BOOLEAN]

VARIABLES
  scene,     \* the one of Scenes that is played
  pc,        \* [Runs -> where Execute has got to]
  cancelled, \* runs whose context is cancelled
  cycles,    \* [Runs -> cycles recorded]
  decision,  \* [Runs -> the instant of its target's last decision, and how many
             \* it has made (external)]
  lastSeen,  \* [Runs -> the instant of the last decision observed]
  recorded,  \* the events whose fact is in the store
  unheard,   \* those whose call stored it and its answer was lost (history)
  mine,      \* [Runs -> what of its mine is: none, layout, events, units]
  reread,    \* the watchers whose client has read the record back
  page,      \* [Pages -> the request being served]
  order,     \* viewCache.order
  views      \* viewCache.views: [Runs -> the mine a view was built from]

runs  == <<pc, cancelled, cycles, decision, lastSeen, recorded, unheard, mine>>
pages == <<scene, page, order, views>>
vars  == <<hub, runs, reread, pages>>

Recordings == {"none", "layout", "events", "units"}
Idle == [phase |-> "idle"]

Init ==
  /\ scene \in Scenes
  /\ HubInit(scene.watchers)
  /\ pc = [r \in Runs |-> IF r \in scene.runs THEN "begin" ELSE "over"]
  /\ cancelled = {} /\ cycles = [r \in Runs |-> 0]
  /\ decision = [r \in Runs |-> [at |-> 0, number |-> 0]] /\ lastSeen = [r \in Runs |-> 0]
  /\ recorded = {} /\ unheard = {}
  /\ mine = [r \in Runs |-> IF r \in scene.finished THEN "units" ELSE "none"]
  /\ reread = {}
  /\ page = [p \in Pages |-> IF p \in scene.pages THEN Idle ELSE [phase |-> "closed"]]
  /\ order = <<>> /\ views = [r \in Runs |-> "none"]
-----------------------------------------------------------------------------
\* Execute, with simulate and observe.

Goes(r, from, to) ==
  /\ pc[r] = from /\ publishing[r] = Quiet
  /\ pc' = [pc EXCEPT ![r] = to]

Announces(r, kind, number) ==
  /\ publishing' = [publishing EXCEPT ![r] = Call("due", Event(r, kind, number), {})]
  /\ UNCHANGED <<watcher, subscribers, channel, settled>>

\* setStatus: the record may fail, which is ignored; the event goes out.
SetStatus(r, status) ==
  /\ \/ recorded' = recorded \cup {Event(r, status, 0)}
     \/ scene.faults /\ recorded' = recorded
  /\ Announces(r, status, 0)
  /\ UNCHANGED <<cancelled, cycles, decision, lastSeen, unheard, mine, reread, pages>>

Begin(r) == Goes(r, "begin", IF r \in Live THEN "loop" ELSE "layout") /\ SetStatus(r, "running")

\* SaveLayout, SaveSeismicEvents and SaveEntities, one call each.
Saves(r, from, to, what) ==
  /\ Goes(r, from, to)
  /\ mine' = [mine EXCEPT ![r] = what]
  /\ UNCHANGED <<hub, cancelled, cycles, decision, lastSeen, recorded, unheard, reread, pages>>
SaveMine(r) ==
  Saves(r, "layout", "events", "layout") \/ Saves(r, "events", "units", "events")
    \/ Saves(r, "units", "loop", "units")

\* A call failed, or the context was found cancelled.
Fails(r) ==
  /\ scene.faults /\ pc[r] \in {"layout", "events", "units", "loop"}
  /\ Goes(r, pc[r], "verdict")
  /\ UNCHANGED <<hub, cancelled, cycles, decision, lastSeen, recorded, unheard, mine, reread, pages>>

SavesCycle(r) ==
  /\ cycles' = [cycles EXCEPT ![r] = @ + 1]
  /\ recorded' = recorded \cup {Event(r, "cycle", cycles'[r])}
  /\ Announces(r, "cycle", cycles'[r])

\* One interval of a simulation, as far as it is recorded.
Cycle(r) ==
  /\ r \notin Live /\ r \notin cancelled /\ cycles[r] < MaxCycles
  /\ Goes(r, "loop", "loop")
  /\ SavesCycle(r)
  /\ UNCHANGED <<cancelled, decision, lastSeen, unheard, mine, reread, pages>>

\* observe finds a decision later than the last it saw; it sleeps otherwise.
\* One at the instant of the last it saw is not later.
Observe(r) ==
  /\ r \in Live /\ r \notin cancelled /\ lastSeen[r] < decision[r].at
  /\ Goes(r, "loop", "loop")
  /\ lastSeen' = [lastSeen EXCEPT ![r] = decision[r].at]
  /\ SavesCycle(r)
  /\ UNCHANGED <<cancelled, decision, unheard, mine, reread, pages>>

\* The queue is empty: SaveMetrics, or its failure.
Drain(r) ==
  /\ r \notin Live /\ r \notin cancelled
  /\ \/ Goes(r, "loop", "measured") /\ recorded' = recorded \cup {Event(r, "metrics", 0)}
        /\ Announces(r, "metrics", 0)
     \/ scene.faults /\ Goes(r, "loop", "unmeasured") /\ UNCHANGED <<hub, recorded>>
  /\ UNCHANGED <<cancelled, cycles, decision, lastSeen, unheard, mine, reread, pages>>

\* The store took a cycle or the metrics and its answer was lost.
LosesAnswer(r) ==
  /\ scene.faults
  /\ \E e \in {Event(r, "cycle", cycles[r] + 1), Event(r, "metrics", 0)} :
       /\ r \in Live => e.kind = "cycle" /\ lastSeen[r] < decision[r].at
       /\ Goes(r, "loop", IF e.kind = "cycle" THEN "verdict" ELSE "unmeasured")
       /\ recorded' = recorded \cup {e} /\ unheard' = unheard \cup {e}
  /\ UNCHANGED <<hub, cancelled, cycles, decision, lastSeen, mine, reread, pages>>

End(r) ==
  \/ Goes(r, "verdict", "over") /\ SetStatus(r, IF r \in cancelled THEN "cancelled" ELSE "failed")
  \/ Goes(r, "unmeasured", "over") /\ SetStatus(r, "failed")
  \/ Goes(r, "measured", "over") /\ SetStatus(r, "completed")

Cancel(r) ==
  /\ scene.faults /\ pc[r] # "over" /\ cancelled' = cancelled \cup {r}
  /\ UNCHANGED <<hub, pc, cycles, decision, lastSeen, recorded, unheard, mine, reread, pages>>

\* The target of a live run decides, whether or not anyone looks: after its
\* last decision, or again at the same instant.  Instant 0 is before the first.
Decides(r) ==
  /\ r \in Live /\ pc[r] # "over" /\ decision[r].number < MaxDecisions
  /\ \E later \in {0, 1} :
       /\ decision[r].at + later > 0
       /\ decision' = [decision EXCEPT ![r] = [at |-> @.at + later, number |-> @.number + 1]]
  /\ UNCHANGED <<hub, pc, cancelled, cycles, lastSeen, recorded, unheard, mine, reread, pages>>
-----------------------------------------------------------------------------
\* A client that has connected reads the run's record from the database.
Reread(w) ==
  /\ watcher[w] = "streaming" /\ w \notin reread
  /\ reread' = reread \cup {w}
  /\ settled' = [settled EXCEPT ![w] = @ \cup recorded]
  /\ UNCHANGED <<watcher, subscribers, channel, publishing, runs, pages>>
-----------------------------------------------------------------------------
\* runGround: viewCache.get, and buildViews outside its lock.

Asking(phase, r, built) == [phase |-> phase, run |-> r, built |-> built]

Serves(p, request) ==
  /\ page' = [page EXCEPT ![p] = request]
  /\ UNCHANGED <<scene, hub, runs, reread>>

Look(p, r) ==
  /\ page[p] = Idle
  /\ Serves(p, IF views[r] = "none" THEN Asking("layout", r, "none") ELSE Idle)
  /\ UNCHANGED <<order, views>>

\* A run without a recorded layout answers the request with an error.
ReadLayout(p) ==
  /\ page[p].phase = "layout"
  /\ Serves(p, IF mine[page[p].run] = "none" THEN Idle ELSE [page[p] EXCEPT !.phase = "entities"])
  /\ UNCHANGED <<order, views>>

ReadEntities(p) ==
  /\ page[p].phase = "entities"
  /\ Serves(p, Asking("built", page[p].run, mine[page[p].run]))
  /\ UNCHANGED <<order, views>>

Keep_again(p) ==
  LET r == page[p].run
      longer == Append(order, r)
      full == Len(longer) > ViewsKept
  IN /\ page[p].phase = "built"
     /\ order' = IF full THEN Tail(longer) ELSE longer
     /\ views' = [q \in Runs |->
          IF q = r THEN page[p].built ELSE IF full /\ q = Head(longer) THEN "none" ELSE views[q]]
     /\ Serves(p, Idle)

Keep(p) ==
  LET r == page[p].run
      longer == IF views[r] = "none" THEN Append(order, r) ELSE order
      full == Len(longer) > ViewsKept
  IN /\ page[p].phase = "built"
     /\ order' = IF full THEN Tail(longer) ELSE longer
     /\ views' = [q \in Runs |->
          IF q = r THEN page[p].built ELSE IF full /\ q = Head(longer) THEN "none" ELSE views[q]]
     /\ Serves(p, Idle)
-----------------------------------------------------------------------------
Executes(r) ==
  Begin(r) \/ SaveMine(r) \/ Fails(r) \/ Cycle(r) \/ Observe(r) \/ Drain(r) \/ LosesAnswer(r)
    \/ End(r)

Next ==
  \/ \E r \in Runs : Executes(r) \/ Cancel(r) \/ Decides(r)
  \/ Hubs /\ UNCHANGED <<runs, reread, pages>>
  \/ \E w \in Watchers : Reread(w)
  \/ \E p \in Pages : (\E r \in Runs : Look(p, r)) \/ ReadLayout(p) \/ ReadEntities(p) \/ Keep(p)

\* The goroutines of runs, and of requests that hold or await the hub's lock,
\* are scheduled; a client may stop reading, or never leave.
Fairness ==
  /\ \A r \in Runs : WF_vars(Executes(r)) /\ WF_vars(Publishes(r) /\ UNCHANGED <<runs, reread, pages>>)
  /\ \A w \in Watchers : WF_vars(Locking(w) /\ UNCHANGED <<runs, reread, pages>>)

Spec == Init /\ [][Next]_vars /\ Fairness
-----------------------------------------------------------------------------
TypeOK ==
  /\ HubTypeOK /\ scene \in Scenes
  /\ pc \in [Runs -> {"begin", "layout", "events", "units", "loop", "verdict", "unmeasured",
                      "measured", "over"}]
  /\ cancelled \subseteq Runs /\ reread \subseteq Watchers /\ unheard \subseteq recorded
  /\ recorded \subseteq [run : Runs, kind : Kinds, number : Nat]
  /\ \A r \in Runs : lastSeen[r] =< decision[r].at
  /\ mine \in [Runs -> Recordings] /\ views \in [Runs -> Recordings]
  /\ order \in Seq(Runs)

\* Nobody sends on a channel that Unsubscribe closed: who is yet to be reached
\* by a publisher is still subscribed.
SendsAreOpen ==
  \A r \in Readers : publishing[r].rest \subseteq subscribers

\* What a stream is sent of a run's cycles and metrics is in the store already.
SentIsRecorded ==
  \A w \in Watchers : \A e \in ToSet(channel[w]) :
    e.kind \in {"cycle", "metrics"} => e \in recorded

\* Publish has yet to reach the watcher with the event.
OnItsWay(e, w) ==
  LET call == publishing[e.run]
  IN call # Quiet /\ call.event = e /\ (call.phase = "sending" => w \in call.rest)

\* "The client that reconnects re-reads the run's cycles from the database, so
\* a dropped connection costs nothing" (api/runs.go): whoever subscribes and
\* then reads the record has, between the two, all that is recorded of what it
\* watches, but for what the hub dropped when it had fallen behind and what the
\* run itself could not know was stored.
NothingMissed ==
  \A w \in reread : watcher[w] = "streaming" =>
    \A e \in recorded \ unheard : InScope(w, e.run) =>
      e \in settled[w] \cup ToSet(channel[w]) \/ OnItsWay(e, w)

StreamsAreTrue == TypeOK /\ SendsAreOpen /\ SentIsRecorded /\ NothingMissed

\* The cache's order names the runs it has views of, each once, and no more
\* than it keeps, although two requests may both build the views of a run; it
\* has views only of a run whose mine is recorded (viewCache.get).
CacheIsSound ==
  /\ ToSet(order) = {r \in Runs : views[r] # "none"}
  /\ Cardinality(ToSet(order)) = Len(order) /\ Len(order) =< ViewsKept
  /\ \A r \in ToSet(order) : mine[r] # "none"

\* "Publish delivers an event to everyone watching, and never blocks": however
\* little the watchers read, and whenever they come and go, a run that
\* publishes goes on, and one that observes gets as far as the instant of
\* its target's last decision.
RunIsNotHeldUp ==
  /\ \A r \in Runs : publishing[r] # Quiet ~> publishing[r] = Quiet
  /\ \A r \in Live : decision[r].number = MaxDecisions ~> lastSeen[r] = decision[r].at \/ pc[r] = "over"

\* ground.go: "Served from the same views the run engine builds, so a page
\* drawing it draws what intent decided from": once a run is past recording
\* its mine, what the cache has of it was built from all of it.
GroundIsWhatIntentSees ==
  \A r \in Runs : pc[r] = "loop" /\ views[r] # "none" => views[r] = "units"
=============================================================================
