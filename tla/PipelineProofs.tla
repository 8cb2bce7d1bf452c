---------------------------- MODULE PipelineProofs ----------------------------
(****************************************************************************)
(* What holds of the workflow and the catalogue for any number of events,   *)
(* any picks, windows and triggers, and whatever finishes in an interval.   *)
(*                                                                          *)
(* The catalogue's record of an event is sound by itself.  The workflow's   *)
(* is of a piece with it because an event is only ever taken up with the    *)
(* picks for a location, and because sweeps and locates hand an event on:   *)
(* what finishes of a sweep is replaced by one locate, so that what is      *)
(* under way for an event grows by one when a sweep takes it up for picks   *)
(* no earlier one had, and never otherwise.                                 *)
(****************************************************************************)
EXTENDS Pipeline, FiniteSetTheorems, TLAPS

\* The catalogue's record of an event, by the instant t.
Sound(e, record, t) ==
  /\ record \in EventRecord(0..t)
  /\ record.processed =< Picks[e]
  /\ record.locatedAt # 0 => record.located >= MinimumPicks
  /\ record.final > 0 => record.final = Picks[e] /\ record.processedAt # 0
  /\ AllProcessed(e, record) /\ record.processed > 0 => record.processedAt # 0

\* An event with every pick for a location has its final one.
Settled(e, record) == AllProcessed(e, record) /\ CanLocate(record) => record.final = Picks[e]

CatalogueOK ==
  /\ trigger \in Triggers /\ now \in 0..Horizon /\ ended \in BOOLEAN
  /\ catalogue \in [Events -> EventRecord(0..now)]
  /\ \A e \in Events : Sound(e, catalogue[e], now) /\ (~Deferred => Settled(e, catalogue[e]))
  /\ ended => \A e \in Events : AllProcessed(e, catalogue[e])

WorkflowType ==
  /\ issued \subseteq Jobs
  /\ state \in [Events -> [processed: Nat, unswept: Nat, located: BOOLEAN]]
  /\ lastSweep \in 0..now /\ swept \in BOOLEAN /\ completions \in Seq(0..now)

\* The workflow's view of an event, and what is under way for it.
WorkflowOK ==
  /\ ~Deferred => issued = {} /\ \A e \in Events : state[e].unswept = 0
  /\ \A e \in Events :
       /\ Deferred => /\ state[e].processed = catalogue[e].processed
                      /\ state[e].located <=> catalogue[e].locatedAt # 0
       /\ state[e].unswept =< state[e].processed
       /\ IsFiniteSet(Under(e))
       /\ Under(e) # {} => state[e].processed >= MinimumPicks
  /\ SweepsAreExact

IInv == CatalogueOK /\ WorkflowType /\ WorkflowOK /\ WaitIsBounded

-----------------------------------------------------------------------------
(* The catalogue. *)

\* Locating keeps a record sound, and locates what can be.
LEMMA LocateIsSound ==
  ASSUME NEW e \in Events, NEW t \in Nat, NEW at \in Nat \ {0}, t =< at,
         NEW record, Sound(e, record, t), NEW located,
         NEW known, known = Locate(e, record, located, at)
  PROVE  /\ Sound(e, known, at) /\ known.processed = record.processed
         /\ known.locatedAt # 0 <=> (record.locatedAt # 0 \/ (e \in located /\ CanLocate(record)))
         /\ e \in located => Settled(e, known)
<1>1. /\ Picks[e] \in Nat /\ MinimumPicks \in Nat \ {0}
      /\ record.processed \in Nat /\ record.processedAt \in 0..at /\ record.locatedAt \in 0..at
      /\ record.located \in Nat /\ record.final \in Nat /\ record \in EventRecord(0..at)
  BY CatalogueAssumption DEF Sound, EventRecord
<1>2. CASE e \in located /\ CanLocate(record)
  <2>1. PICK first : first = First(record, at)
    OBVIOUS
  <2>2. /\ first \in EventRecord(0..at) /\ first.locatedAt # 0
        /\ first.processed = record.processed /\ first.processedAt = record.processedAt
        /\ first.final = record.final /\ first.located >= MinimumPicks
    <3>1. CASE record.locatedAt = 0
      <4>1. first = [record EXCEPT !.locatedAt = at, !.located = record.processed]
        BY <2>1, <3>1 DEF First
      <4>2. at \in 0..at /\ record.processed >= MinimumPicks
        BY <1>2 DEF CanLocate
      <4>3. /\ first.locatedAt = at /\ first.located = record.processed
            /\ first.processed = record.processed /\ first.processedAt = record.processedAt
            /\ first.final = record.final /\ first \in EventRecord(0..at)
        BY <1>1, <4>1, <4>2 DEF EventRecord
      <4> QED BY <4>2, <4>3
    <3>2. CASE record.locatedAt # 0
      BY <1>1, <2>1, <3>2 DEF First, Sound
    <3> QED BY <3>1, <3>2
  <2>3. known = IF AllProcessed(e, record) THEN [first EXCEPT !.final = record.processed] ELSE first
    BY <1>2, <2>1 DEF Locate, Solve
  <2>4. CASE AllProcessed(e, record)
    <3>1. /\ known \in EventRecord(0..at) /\ known.final = Picks[e] /\ known.locatedAt # 0
          /\ known.processed = record.processed /\ known.processedAt = record.processedAt
          /\ known.located >= MinimumPicks
      BY <1>1, <2>2, <2>3, <2>4 DEF AllProcessed, Remaining, EventRecord
    <3>2. known.processedAt # 0
      BY <1>1, <1>2, <2>4, <3>1 DEF Sound, CanLocate
    <3> QED BY <1>1, <1>2, <3>1, <3>2, <2>4 DEF Sound, Settled
  <2>5. CASE ~AllProcessed(e, record)
    BY <1>1, <1>2, <2>2, <2>3, <2>5 DEF Sound, Settled, AllProcessed, Remaining
  <2> QED BY <2>4, <2>5
<1>3. CASE ~(e \in located /\ CanLocate(record))
  <2>1. known = record
    BY <1>3 DEF Locate, Solve
  <2> QED BY <1>1, <1>3, <2>1 DEF Sound, Settled
<1> QED BY <1>2, <1>3

\* A location solved as the picks are counted, as a scenario without a
\* pipeline has it, is one of the same kind.
LEMMA ObserveIsSound ==
  ASSUME NEW e \in Events, NEW at \in Nat \ {0}, NEW deferred \in BOOLEAN,
         NEW record, Sound(e, record, at), NEW n \in Nat, n =< Remaining(e, record),
         ~deferred => Settled(e, record), NEW next, next = Observe(e, record, n, at, deferred)
  PROVE  /\ Sound(e, next, at) /\ next.processed = record.processed + n
         /\ deferred => next.locatedAt = record.locatedAt
         /\ ~deferred => Settled(e, next)
<1>1. /\ Picks[e] \in Nat /\ MinimumPicks \in Nat \ {0}
      /\ record.processed \in Nat /\ record.processedAt \in 0..at /\ record.locatedAt \in 0..at
      /\ record.located \in Nat /\ record.final \in Nat /\ record \in EventRecord(0..at)
  BY CatalogueAssumption DEF Sound, EventRecord
<1>2. CASE n = 0
  BY <1>1, <1>2 DEF Observe
<1>3. CASE n # 0
  <2>1. PICK counted : counted = [record EXCEPT !.processed = @ + n]
    OBVIOUS
  <2>2. /\ counted \in EventRecord(0..at) /\ counted.processed = record.processed + n
        /\ counted.processedAt = record.processedAt /\ counted.locatedAt = record.locatedAt
        /\ counted.located = record.located /\ counted.final = record.final
    BY <1>1, <2>1 DEF EventRecord
  <2>3. PICK timed : timed = IF counted.processedAt = 0 /\ AllProcessed(e, counted)
                             THEN [counted EXCEPT !.processedAt = at] ELSE counted
    OBVIOUS
  <2>4. /\ timed \in EventRecord(0..at) /\ timed.processed = record.processed + n
        /\ timed.locatedAt = record.locatedAt /\ timed.located = record.located
        /\ timed.final = record.final
        /\ AllProcessed(e, timed) \/ record.processedAt # 0 => timed.processedAt # 0
    <3>1. CASE counted.processedAt = 0 /\ AllProcessed(e, counted)
      BY <1>1, <2>2, <2>3, <3>1 DEF EventRecord
    <3>2. CASE ~(counted.processedAt = 0 /\ AllProcessed(e, counted))
      BY <1>1, <2>2, <2>3, <3>2
    <3> QED BY <3>1, <3>2
  <2>5. timed.processed =< Picks[e]
    BY <1>1, <2>4 DEF Remaining
  <2>6. Sound(e, timed, at)
    BY <1>1, <2>4, <2>5 DEF Sound
  <2>7. CASE deferred
    <3>1. next = timed
      BY <1>3, <2>1, <2>3, <2>7 DEF Observe
    <3> QED BY <2>4, <2>6, <2>7, <3>1
  <2>8. CASE ~deferred
    <3>1. e \in {e} /\ next = Locate(e, timed, {e}, at)
      BY <1>3, <2>1, <2>3, <2>8 DEF Observe, Locate
    <3>2. Sound(e, next, at) /\ next.processed = timed.processed /\ Settled(e, next)
      BY <2>6, <3>1, LocateIsSound
    <3> QED BY <2>4, <2>8, <3>2
  <2> QED BY <2>7, <2>8
<1> QED BY <1>2, <1>3

-----------------------------------------------------------------------------
(* The interval's own clock, and what it counts. *)

\* Time moves on and ends at the horizon.
LEMMA TickMovesOn ==
  ASSUME now \in 0..Horizon
  PROVE  Tick \in 1..Horizon /\ now =< Tick
BY PipelineAssumption DEF Tick

\* The picks of a set of events are a number, and there are some when there
\* are some of one of the events.
LEMMA TotalCounts ==
  ASSUME NEW S \in SUBSET Events, NEW f \in [Events -> Nat]
  PROVE  Total(f, S) \in Nat /\ \A e \in S : f[e] > 0 => Total(f, S) > 0
<1> DEFINE of == [e \in S |-> {e} \X (1..f[e])]
           sets == {{e} \X (1..f[e]) : e \in S}
<1>1. IsFiniteSet(S)
  BY PipelineAssumption, FS_Subset
<1>2. IsFiniteSet(sets)
  <2>1. of \in Surjection(S, sets)
    BY DEF Surjection
  <2> HIDE DEF of, sets
  <2> QED BY <1>1, <2>1, FS_Surjection
<1>3. \A T \in sets : IsFiniteSet(T)
  <2> SUFFICES ASSUME NEW e \in S PROVE IsFiniteSet({e} \X (1..f[e]))
    OBVIOUS
  <2>1. IsFiniteSet({e}) /\ IsFiniteSet(1..f[e])
    <3>1. f[e] \in Int /\ 1 \in Int
      OBVIOUS
    <3> QED BY <3>1, FS_Singleton, FS_Interval
  <2> QED BY <2>1, FS_Product
<1>4. IsFiniteSet(UNION sets)
  <2> HIDE DEF sets
  <2> QED BY <1>2, <1>3, FS_UNION
<1>5. Total(f, S) = Cardinality(UNION sets)
  BY DEF Total
<1>6. ASSUME NEW e \in S, f[e] > 0
      PROVE  UNION sets # {}
  <2>1. <<e, 1>> \in {e} \X (1..f[e])
    BY <1>6
  <2> QED BY <2>1
<1>7. Cardinality(UNION sets) \in Nat /\ (Cardinality(UNION sets) = 0 <=> UNION sets = {})
  <2> HIDE DEF sets
  <2> QED BY <1>4, FS_CardinalityType, FS_EmptySet
<1>8. \A e \in S : f[e] > 0 => UNION sets # {}
  BY <1>6
<1> HIDE DEF sets
<1>9. Total(f, S) \in Nat /\ (UNION sets # {} => Total(f, S) > 0)
  BY <1>5, <1>7
<1> QED BY <1>8, <1>9

\* No more picks arrive than an event has left.
LEMMA PicksArrive ==
  ASSUME NEW at, NEW picks \in Arrived(at)
  PROVE  picks \in [Events -> Nat] /\ \A e \in Events : picks[e] =< Remaining(e, catalogue[e])
<1>1. ASSUME NEW most, NEW n \in 0..most
      PROVE  n \in Nat
  OBVIOUS
<1>2. PICK most : picks \in [Events -> 0..most]
  BY DEF Arrived
<1>3. \A e \in Events : picks[e] \in Nat
  BY <1>1, <1>2
<1> QED BY <1>2, <1>3 DEF Arrived

\* The completions stay in order of time, so they are instants by now.
LEMMA RecentType ==
  ASSUME now \in 0..Horizon, completions \in Seq(0..now), NEW picks \in [Events -> Nat]
  PROVE  Recent(picks, Tick) \in Seq(0..Tick)
<1> DEFINE stale == {i \in DOMAIN completions : completions[i] + DrainWindow < Tick}
           kept  == SubSeq(completions, Cardinality(stale) + 1, Len(completions))
           new   == [i \in 1..Total(picks, Events) |-> Tick]
<1>1. Tick \in Nat /\ now =< Tick /\ now \in Nat
  BY TickMovesOn
<1>2. Cardinality(stale) \in Nat
  <2>1. Len(completions) \in Nat /\ DOMAIN completions = 1..Len(completions)
    OBVIOUS
  <2>2. IsFiniteSet(1..Len(completions)) /\ stale \in SUBSET (1..Len(completions))
    BY <2>1, FS_Interval
  <2> HIDE DEF stale
  <2> QED BY <2>2, FS_Subset, FS_CardinalityType
<1>3. completions \in Seq(0..Tick)
  BY <1>1
<1>4. kept \in Seq(0..Tick)
  <2>1. ASSUME NEW S, NEW q \in Seq(S), NEW m \in Nat
        PROVE  SubSeq(q, m + 1, Len(q)) \in Seq(S)
    OBVIOUS
  <2> HIDE DEF stale
  <2> QED BY <1>2, <1>3, <2>1
<1>5. new \in Seq(0..Tick)
  <2>1. Events \in SUBSET Events
    OBVIOUS
  <2>2. Total(picks, Events) \in Nat
    BY <2>1, TotalCounts
  <2> QED BY <1>1, <2>2
<1>6. Recent(picks, Tick) = kept \o new
  BY DEF Recent
<1> HIDE DEF kept, new
<1> QED BY <1>4, <1>5, <1>6

-----------------------------------------------------------------------------
(* An interval. *)

\* An interval keeps the catalogue sound: the picks are counted, and events
\* located where they should be.
LEMMA CatalogueKeeps ==
  ASSUME CatalogueOK, NEW picks \in Arrived(Tick), NEW finished, NEW valued,
         Interval(picks, finished, valued)
  PROVE  /\ CatalogueOK'
         /\ \A e \in Events :
              /\ catalogue'[e].processed = catalogue[e].processed + picks[e]
              /\ Deferred => (catalogue'[e].locatedAt # 0 <=>
                    \/ catalogue[e].locatedAt # 0
                    \/ e \in NewlyLocated(finished) /\ CanLocate(catalogue[e]))
<1> DEFINE located == IF Deferred THEN NewlyLocated(finished) ELSE {}
<1>1. /\ Tick \in Nat \ {0} /\ Tick \in 0..Horizon /\ now \in Nat /\ now =< Tick
      /\ picks \in [Events -> Nat] /\ \A e \in Events : picks[e] =< Remaining(e, catalogue[e])
  BY TickMovesOn, PicksArrive, PipelineAssumption DEF CatalogueOK
<1>2. /\ ~ended /\ now' = Tick /\ trigger' = trigger
      /\ catalogue' = [e \in Events |->
           Observe(e, Locate(e, catalogue[e], located, Tick), picks[e], Tick, Deferred)]
      /\ ended' = Over(Tick, issued', catalogue')
  BY DEF Interval
<1>3. Deferred \in BOOLEAN /\ Deferred' = Deferred
  BY <1>2 DEF Deferred
<1>4. ASSUME NEW e \in Events
      PROVE  /\ Sound(e, catalogue'[e], Tick) /\ (~Deferred => Settled(e, catalogue'[e]))
             /\ catalogue'[e].processed = catalogue[e].processed + picks[e]
             /\ Deferred => (catalogue'[e].locatedAt # 0 <=>
                    \/ catalogue[e].locatedAt # 0
                    \/ e \in NewlyLocated(finished) /\ CanLocate(catalogue[e]))
  <2>1. PICK known : known = Locate(e, catalogue[e], located, Tick)
    OBVIOUS
  <2>2. Sound(e, catalogue[e], now) /\ (~Deferred => Settled(e, catalogue[e]))
    BY DEF CatalogueOK
  <2>3. /\ Sound(e, known, Tick) /\ known.processed = catalogue[e].processed
        /\ known.locatedAt # 0 <=>
             (catalogue[e].locatedAt # 0 \/ (e \in located /\ CanLocate(catalogue[e])))
        /\ e \in located => Settled(e, known)
    <3> HIDE DEF located
    <3> QED BY <1>1, <2>1, <2>2, LocateIsSound
  <2>4. ~Deferred => Settled(e, known)
    BY <2>1, <2>2 DEF Locate
  <2>5. picks[e] \in Nat /\ picks[e] =< Remaining(e, known)
    BY <1>1, <2>3 DEF Remaining
  <2>6. catalogue'[e] = Observe(e, known, picks[e], Tick, Deferred)
    BY <1>2, <2>1
  <2>7. /\ Sound(e, catalogue'[e], Tick)
        /\ catalogue'[e].processed = known.processed + picks[e]
        /\ Deferred => catalogue'[e].locatedAt = known.locatedAt
        /\ ~Deferred => Settled(e, catalogue'[e])
    BY <1>1, <1>3, <2>3, <2>4, <2>5, <2>6, ObserveIsSound
  <2> QED BY <2>3, <2>7
<1>5. catalogue' \in [Events -> EventRecord(0..Tick)]
  <2>1. \A e \in Events : catalogue'[e] \in EventRecord(0..Tick)
    BY <1>4 DEF Sound
  <2> QED BY <1>2, <2>1
<1>6. ended' \in BOOLEAN /\ (ended' => \A e \in Events : AllProcessed(e, catalogue'[e]))
  BY <1>2 DEF Over
<1>7. CatalogueOK'
  BY <1>1, <1>2, <1>3, <1>4, <1>5, <1>6 DEF CatalogueOK
<1> QED BY <1>4, <1>7

-----------------------------------------------------------------------------
(* What is under way for an event. *)

About(j, e) == (j.stage = "associate" /\ e \in j.events) \/ (j.stage = "locate" /\ j.event = e)

\* What is under way for an event is the issued jobs about it.
LEMMA UnderIsAbout == \A e : Under(e) = {j \in issued : About(j, e)}
BY DEF Under, About, Staged

\* A sweep is about the events it swept, a locate about its one.
LEMMA JobsApart ==
  /\ \A t, E, e : About(Associate(t, E), e) <=> e \in E
  /\ \A t, d, e : About(LocateJob(t, d), e) <=> d = e
  /\ \A j \in Jobs : /\ j.stage = "associate" => j.at \in 1..Horizon /\ j.events \subseteq Events
                     /\ j.stage \in {"associate", "locate"}
BY DEF About, Associate, LocateJob, Jobs

\* What the pipeline issues are jobs.
LEMMA JobsAre ==
  ASSUME NEW t \in 1..Horizon
  PROVE  /\ \A E \in SUBSET Events : E # {} => Associate(t, E) \in Jobs
         /\ \A e \in Events : LocateJob(t, e) \in Jobs
<1>1. ASSUME NEW E \in SUBSET Events, E # {}
      PROVE  Associate(t, E) \in Jobs
  <2>1. E \in (SUBSET Events) \ {{}}
    BY <1>1
  <2> QED BY <2>1 DEF Jobs
<1>2. \A e \in Events : LocateJob(t, e) \in Jobs
  BY DEF Jobs
<1> QED BY <1>1, <1>2

\* What has finished of it is handed on, each sweep to one locate, or is done.
LEMMA HandsOn ==
  ASSUME NEW e \in Events, issued \subseteq Jobs, NEW finished \in SUBSET issued,
         IsFiniteSet(Under(e)),
         NEW left, left = {j \in (issued \ finished) \cup Emitted(finished) : About(j, e)}
  PROVE  /\ IsFiniteSet(left) /\ Cardinality(left) =< Cardinality(Under(e))
         /\ Under(e) = {} => left = {}
         /\ Under(e) # {} => left # {} \/ \E j \in Staged(finished, "locate") : j.event = e
<1> DEFINE next(j) == IF j \in finished /\ j.stage = "associate" THEN LocateJob(j.at, e) ELSE j
           to == [j \in Under(e) |-> next(j)]
           image == {next(j) : j \in Under(e)}
<1>1. left \subseteq image
  <2> SUFFICES ASSUME NEW j \in left PROVE j \in image
    OBVIOUS
  <2>1. CASE j \in issued \ finished
    BY <2>1, UnderIsAbout
  <2>2. CASE j \in Emitted(finished)
    <3>1. PICK k \in Staged(finished, "associate") : \E d \in k.events : j = LocateJob(k.at, d)
      BY <2>2 DEF Emitted
    <3>2. e \in k.events /\ j = LocateJob(k.at, e)
      BY <3>1, JobsApart
    <3>3. k \in Under(e) /\ j = next(k)
      BY <3>1, <3>2 DEF Under, Staged
    <3> QED BY <3>3
  <2> QED BY <2>1, <2>2
<1>2. IsFiniteSet(image) /\ Cardinality(image) =< Cardinality(Under(e))
  <2>1. to \in Surjection(Under(e), image)
    BY DEF Surjection
  <2> HIDE DEF to, image
  <2> QED BY <2>1, FS_Surjection
<1>3. IsFiniteSet(left) /\ Cardinality(left) =< Cardinality(Under(e))
  <2>1. IsFiniteSet(left) /\ Cardinality(left) =< Cardinality(image)
    <3> HIDE DEF image
    <3> QED BY <1>1, <1>2, FS_Subset
  <2>2. Cardinality(left) \in Nat /\ Cardinality(image) \in Nat /\ Cardinality(Under(e)) \in Nat
    <3> HIDE DEF image
    <3> QED BY <1>2, <2>1, FS_CardinalityType
  <2> HIDE DEF image
  <2> QED BY <1>2, <2>1, <2>2
<1>4. Under(e) = {} => left = {}
  BY <1>1
<1>5. ASSUME NEW j \in Under(e)
      PROVE  left # {} \/ \E k \in Staged(finished, "locate") : k.event = e
  <2>1. j \in issued /\ About(j, e)
    BY UnderIsAbout
  <2>2. CASE j \notin finished
    BY <2>1, <2>2
  <2>3. CASE j \in finished /\ j.stage = "associate"
    <3>1. LocateJob(j.at, e) \in Emitted(finished) /\ About(LocateJob(j.at, e), e)
      BY <2>1, <2>3, JobsApart DEF Emitted, Staged, About
    <3> QED BY <3>1
  <2>4. CASE j \in finished /\ j.stage = "locate"
    BY <2>1, <2>4 DEF Staged, About
  <2> QED BY <2>1, <2>2, <2>3, <2>4 DEF About
<1> QED BY <1>3, <1>4, <1>5

\* A sweep that takes the event up adds itself to what is under way.
LEMMA TakenUp ==
  ASSUME NEW left, IsFiniteSet(left), NEW sweep
  PROVE  /\ IsFiniteSet(left \cup {sweep})
         /\ Cardinality(left) \in Nat /\ Cardinality(left \cup {sweep}) \in Nat
         /\ Cardinality(left \cup {sweep}) =< Cardinality(left) + 1
         /\ left = {} => Cardinality(left) = 0
<1>1. /\ IsFiniteSet(left \cup {sweep})
      /\ Cardinality(left \cup {sweep}) = IF sweep \in left THEN Cardinality(left) ELSE Cardinality(left) + 1
  BY FS_AddElement
<1>2. Cardinality(left) \in Nat /\ (left = {} => Cardinality(left) = 0)
  BY FS_CardinalityType, FS_EmptySet
<1> QED BY <1>1, <1>2

-----------------------------------------------------------------------------
(* The workflow. *)

\* What a trigger that sweeps takes up has picks for a location and new ones.
LEMMA CandidatesHavePicks ==
  ASSUME NEW s, NEW at, NEW e \in Candidates(s, at)
  PROVE  e \in Events /\ InWindow(e, at) /\ s[e].unswept > 0 /\ s[e].processed >= MinimumPicks
BY DEF Candidates

\* One interval of the workflow, seen from one event.
LEMMA EventKeeps ==
  ASSUME CatalogueOK, WorkflowType, WorkflowOK, Deferred,
         NEW picks \in [Events -> Nat], NEW finished \in SUBSET issued,
         NEW s, s = AfterFinished(picks, finished),
         NEW grouped \in SUBSET Candidates(s, Tick), state' = Taken(s, grouped),
         issued' = (issued \ finished) \cup Emitted(finished)
                     \cup (IF grouped = {} THEN {} ELSE {Associate(Tick, grouped)}),
         NEW e \in Events
  PROVE  /\ state'[e].processed = state[e].processed + picks[e]
         /\ state'[e].located <=>
              (state[e].located \/ \E j \in Staged(finished, "locate") : j.event = e)
         /\ state'[e].unswept \in Nat /\ state'[e].unswept =< state'[e].processed
         /\ IsFiniteSet(Under(e)')
         /\ Under(e)' # {} => state'[e].processed >= MinimumPicks
         /\ state'[e].unswept < state'[e].processed => state'[e].located \/ Under(e)' # {}
         /\ Under(e)' # {} =>
              Cardinality(Under(e)') + MinimumPicks =< state'[e].processed - state'[e].unswept + 1
<1> DEFINE left == {j \in (issued \ finished) \cup Emitted(finished) : About(j, e)}
<1>1. /\ picks[e] \in Nat /\ MinimumPicks \in Nat \ {0}
      /\ state[e].processed \in Nat /\ state[e].unswept \in Nat /\ state[e].located \in BOOLEAN
      /\ state[e].unswept =< state[e].processed
  BY CatalogueAssumption DEF WorkflowType, WorkflowOK
<1>2. /\ s[e].processed = state[e].processed + picks[e]
      /\ s[e].unswept = state[e].unswept + picks[e]
      /\ s[e].located <=> (state[e].located \/ \E j \in Staged(finished, "locate") : j.event = e)
  BY DEF AfterFinished
<1>3. /\ state'[e].processed = s[e].processed /\ state'[e].located = s[e].located
      /\ state'[e].unswept = IF e \in grouped THEN 0 ELSE s[e].unswept
  BY DEF Taken, AfterFinished
<1>4. /\ IsFiniteSet(left) /\ Cardinality(left) =< Cardinality(Under(e))
      /\ Under(e) = {} => left = {}
      /\ Under(e) # {} => left # {} \/ \E j \in Staged(finished, "locate") : j.event = e
  <2>1. issued \subseteq Jobs /\ IsFiniteSet(Under(e))
    BY DEF WorkflowType, WorkflowOK
  <2> QED BY <2>1, HandsOn
<1>5. Under(e)' = left \cup (IF e \in grouped THEN {Associate(Tick, grouped)} ELSE {})
  <2>1. Under(e)' = {j \in issued' : About(j, e)}
    BY UnderIsAbout DEF Under, About, Staged
  <2> QED BY <2>1, JobsApart
<1>6. e \in grouped => s[e].unswept > 0 /\ s[e].processed >= MinimumPicks
  BY CandidatesHavePicks
<1>7. /\ Under(e) # {} => state[e].processed >= MinimumPicks
      /\ Under(e) # {} =>
              Cardinality(Under(e)) + MinimumPicks =< state[e].processed - state[e].unswept + 1
      /\ state[e].unswept < state[e].processed => state[e].located \/ Under(e) # {}
      /\ Cardinality(Under(e)) \in Nat
  BY FS_CardinalityType DEF WorkflowOK, SweepsAreExact, NothingForgotten, RelocatesNeedPicks
<1> HIDE DEF left
<1>8. /\ IsFiniteSet(left \cup {Associate(Tick, grouped)})
      /\ Cardinality(left) \in Nat /\ Cardinality(left \cup {Associate(Tick, grouped)}) \in Nat
      /\ Cardinality(left \cup {Associate(Tick, grouped)}) =< Cardinality(left) + 1
      /\ left = {} => Cardinality(left) = 0
  BY <1>4, TakenUp
<1>9. CASE e \in grouped
  <2>1. Under(e)' = left \cup {Associate(Tick, grouped)} /\ Under(e)' # {}
    BY <1>5, <1>9
  <2> QED BY <1>1, <1>2, <1>3, <1>4, <1>6, <1>7, <1>8, <1>9, <2>1
<1>10. CASE e \notin grouped
  <2>1. Under(e)' = left
    BY <1>5, <1>10
  <2> QED BY <1>1, <1>2, <1>3, <1>4, <1>7, <1>8, <1>10, <2>1
<1> QED BY <1>9, <1>10

\* A trigger that stays its hand on what is ready has not waited as long as it
\* ever will.
LEMMA HandStayed ==
  ASSUME trigger \in Triggers, Patience(trigger) > 0, Deferred,
         NEW o, o.ready > 0, o.sinceLast \in Nat, ~Decides(trigger, o)
  PROVE  o.sinceLast < Patience(trigger)
<1>1. /\ trigger.every \in Nat /\ trigger.deadline \in Nat /\ trigger.min \in Nat /\ trigger.max \in Nat
      /\ trigger.kind \in {"fixed", "when-drained", "just-in-time", "adaptive"}
      /\ trigger.kind = "adaptive" /\ trigger.max > 0 => trigger.min =< trigger.max
  BY PipelineAssumption DEF Usable, Deferred
<1>2. CASE trigger.kind = "fixed"
  BY <1>1, <1>2 DEF Decides, FixedDecides, Patience
<1>3. CASE trigger.kind \in {"when-drained", "just-in-time"}
  BY <1>1, <1>3 DEF Decides, WhenDrainedDecides, JustInTimeDecides, Waited, Patience
<1>4. CASE trigger.kind = "adaptive"
  BY <1>1, <1>4 DEF Decides, AdaptiveDecides, Waited, Patience
<1> QED BY <1>1, <1>2, <1>3, <1>4

\* What is ready counts whatever could be located.
LEMMA ReadyCounts ==
  ASSUME NEW s \in [Events -> [processed: Nat, unswept: Nat, located: BOOLEAN]],
         NEW at, NEW recent, NEW valued, Candidates(s, at) # {}
  PROVE  Observation(s, at, recent, valued).ready > 0
<1>1. PICK e \in Candidates(s, at) : TRUE
  OBVIOUS
<1>2. e \in {d \in Events : InWindow(d, at)} /\ s[e].unswept > 0
  BY CandidatesHavePicks
<1>3. [d \in Events |-> s[d].unswept] \in [Events -> Nat]
  OBVIOUS
<1>4. Total([d \in Events |-> s[d].unswept], {d \in Events : InWindow(d, at)}) > 0
  BY <1>2, <1>3, TotalCounts
<1> QED BY <1>4 DEF Observation

\* An interval of a mine whose workflow sweeps.
LEMMA WorkflowKeeps ==
  ASSUME CatalogueOK, CatalogueOK', WorkflowType, WorkflowOK, Deferred,
         NEW picks \in [Events -> Nat], NEW finished \in SUBSET issued, NEW valued,
         Workflow(picks, finished, valued, Tick), now' = Tick, trigger' = trigger,
         \A e \in Events :
           /\ catalogue'[e].processed = catalogue[e].processed + picks[e]
           /\ catalogue'[e].locatedAt # 0 <=>
                    \/ catalogue[e].locatedAt # 0
                    \/ e \in NewlyLocated(finished) /\ CanLocate(catalogue[e])
  PROVE  WorkflowType' /\ WorkflowOK' /\ WaitIsBounded'
<1>1. PICK s, recent : s = AfterFinished(picks, finished) /\ recent = Recent(picks, Tick)
  OBVIOUS
<1>2. PICK o : o = Observation(s, Tick, recent, valued)
  OBVIOUS
<1>3. PICK grouped : grouped = IF Decides(trigger, o) THEN Candidates(s, Tick) ELSE {}
  OBVIOUS
<1>4. /\ state' = Taken(s, grouped)
      /\ lastSweep' = IF grouped = {} THEN lastSweep ELSE Tick
      /\ swept' = (swept \/ grouped # {}) /\ completions' = recent
      /\ issued' = (issued \ finished) \cup Emitted(finished)
                     \cup (IF grouped = {} THEN {} ELSE {Associate(Tick, grouped)})
  BY <1>1, <1>2, <1>3 DEF Workflow
<1>5. /\ now \in 0..Horizon /\ now \in Nat /\ Tick \in 1..Horizon /\ Tick \in Nat /\ now =< Tick
      /\ Deferred' /\ grouped \in SUBSET Candidates(s, Tick) /\ grouped \in SUBSET Events
  BY <1>3, TickMovesOn, CandidatesHavePicks DEF CatalogueOK, Deferred
<1>6. s \in [Events -> [processed: Nat, unswept: Nat, located: BOOLEAN]]
  BY <1>1 DEF AfterFinished, WorkflowType
<1>7. WorkflowType'
  <2>1. state' \in [Events -> [processed: Nat, unswept: Nat, located: BOOLEAN]]
    BY <1>4, <1>6 DEF Taken
  <2>2. issued' \subseteq Jobs
    <3>1. Emitted(finished) \subseteq Jobs
      BY JobsApart, JobsAre DEF Emitted, Staged, WorkflowType
    <3>2. grouped # {} => Associate(Tick, grouped) \in Jobs
      BY <1>5, JobsAre
    <3> QED BY <1>4, <3>1, <3>2 DEF WorkflowType
  <2>3. completions' \in Seq(0..Tick)
    BY <1>1, <1>4, <1>5, RecentType DEF WorkflowType
  <2>4. lastSweep' \in 0..Tick /\ swept' \in BOOLEAN
    BY <1>4, <1>5 DEF WorkflowType
  <2> QED BY <2>1, <2>2, <2>3, <2>4 DEF WorkflowType
<1>8. WorkflowOK'
  <2>1. ASSUME NEW e \in Events
        PROVE  /\ state'[e].processed = state[e].processed + picks[e]
               /\ state'[e].located <=>
                    (state[e].located \/ \E j \in Staged(finished, "locate") : j.event = e)
               /\ state'[e].unswept \in Nat /\ state'[e].unswept =< state'[e].processed
               /\ IsFiniteSet(Under(e)')
               /\ Under(e)' # {} => state'[e].processed >= MinimumPicks
               /\ state'[e].unswept < state'[e].processed => state'[e].located \/ Under(e)' # {}
               /\ Under(e)' # {} =>
                    Cardinality(Under(e)') + MinimumPicks =< state'[e].processed - state'[e].unswept + 1
    BY <1>1, <1>4, <1>5, EventKeeps
  <2>2. ASSUME NEW e \in Events
        PROVE  /\ state'[e].processed = catalogue'[e].processed
               /\ state'[e].located <=> catalogue'[e].locatedAt # 0
    <3>1. /\ state[e].processed = catalogue[e].processed
          /\ state[e].located <=> catalogue[e].locatedAt # 0
          /\ Under(e) # {} => state[e].processed >= MinimumPicks
      BY DEF WorkflowOK
    <3>2. e \in NewlyLocated(finished) => CanLocate(catalogue[e])
      <4>1. e \in NewlyLocated(finished) => Under(e) # {}
        BY DEF NewlyLocated, Under, Staged
      <4> QED BY <3>1, <4>1 DEF CanLocate
    <3> QED BY <2>1, <3>1, <3>2 DEF NewlyLocated
  <2> QED BY <1>5, <2>1, <2>2 DEF WorkflowOK, SweepsAreExact, NothingForgotten, RelocatesNeedPicks
<1>9. WaitIsBounded'
  <2> SUFFICES ASSUME Patience(trigger) > 0, Candidates(state', Tick) # {}
               PROVE  (IF swept' THEN Tick - lastSweep' ELSE Tick) < Patience(trigger)
    BY DEF WaitIsBounded, Candidates, InWindow
  <2>1. \A e \in Candidates(state', Tick) : e \in Candidates(s, Tick) /\ e \notin grouped
    BY <1>4, <1>6 DEF Candidates, Taken
  <2>2. ~Decides(trigger, o) /\ grouped = {} /\ Candidates(s, Tick) # {}
    BY <1>3, <2>1
  <2>3. o.ready > 0
    BY <1>2, <1>6, <2>2, ReadyCounts
  <2>4. o.sinceLast = (IF swept' THEN Tick - lastSweep' ELSE Tick) /\ o.sinceLast \in Nat
    BY <1>2, <1>4, <1>5, <2>2 DEF Observation, WorkflowType
  <2> QED BY <2>2, <2>3, <2>4, HandStayed DEF CatalogueOK
<1> QED BY <1>7, <1>8, <1>9

-----------------------------------------------------------------------------
(* The invariant. *)

\* The invariant holds at the start of a run.
LEMMA Starts == Init => IInv
<1> SUFFICES ASSUME Init PROVE IInv
  OBVIOUS
<1>1. /\ trigger \in Triggers /\ now = 0 /\ issued = {} /\ lastSweep = 0 /\ swept = FALSE
      /\ completions = <<>> /\ ended = FALSE
      /\ state = [e \in Events |-> [processed |-> 0, unswept |-> 0, located |-> FALSE]]
      /\ catalogue = [e \in Events |-> Unprocessed]
  BY DEF Init, NewCatalogue
<1>2. /\ Picks \in [Events -> Nat] /\ MinimumPicks \in Nat \ {0}
      /\ Unprocessed \in EventRecord(0..0) /\ Unprocessed.processed = 0 /\ Unprocessed.final = 0
      /\ Unprocessed.locatedAt = 0
  BY CatalogueAssumption DEF Unprocessed, EventRecord
<1>3. \A e \in Events : Sound(e, Unprocessed, 0) /\ Settled(e, Unprocessed)
  BY <1>2 DEF Sound, Settled, CanLocate
<1>4. CatalogueOK
  <2>1. 0 \in 0..Horizon /\ FALSE \in BOOLEAN
    BY PipelineAssumption
  <2>2. catalogue \in [Events -> EventRecord(0..now)]
    BY <1>1, <1>2
  <2>3. \A e \in Events : Sound(e, catalogue[e], now) /\ (~Deferred => Settled(e, catalogue[e]))
    BY <1>1, <1>3
  <2> QED BY <1>1, <2>1, <2>2, <2>3 DEF CatalogueOK
<1>5. WorkflowType
  <2>1. state \in [Events -> [processed: Nat, unswept: Nat, located: BOOLEAN]]
    BY <1>1
  <2>2. lastSweep \in 0..now /\ issued \subseteq Jobs
    BY <1>1
  <2>3. swept \in BOOLEAN
    BY <1>1, Zenon
  <2>4. completions \in Seq(0..now)
    BY <1>1
  <2> QED BY <2>1, <2>2, <2>3, <2>4 DEF WorkflowType
<1>6. \A e \in Events : Under(e) = {} /\ IsFiniteSet(Under(e))
  BY <1>1, FS_EmptySet DEF Under, Staged
<1>7. WorkflowOK
  BY <1>1, <1>2, <1>6 DEF WorkflowOK, SweepsAreExact, NothingForgotten, RelocatesNeedPicks
<1>8. WaitIsBounded
  BY <1>1 DEF WaitIsBounded, Candidates
<1> QED BY <1>4, <1>5, <1>7, <1>8 DEF IInv

\* Without a workflow there is nothing to keep but the catalogue.
LEMMA NoWorkflowKeeps ==
  ASSUME CatalogueOK', CatalogueOK, WorkflowType, WorkflowOK, ~Deferred, trigger' = trigger, now =< now',
         UNCHANGED <<issued, workflow>>
  PROVE  WorkflowType' /\ WorkflowOK' /\ WaitIsBounded'
<1>1. ~Deferred' /\ UNCHANGED <<issued, state, lastSweep, swept, completions>>
      /\ issued = {} /\ \A e \in Events : state[e].unswept = 0
  BY DEF Deferred, workflow, WorkflowOK
<1>2. now \in Nat /\ now' \in Nat
  BY DEF CatalogueOK
<1>3. WorkflowType'
  BY <1>1, <1>2 DEF WorkflowType
<1>4. \A e \in Events : Under(e)' = {} /\ IsFiniteSet(Under(e)')
  BY <1>1, FS_EmptySet DEF Under, Staged
<1>5. WorkflowOK'
  BY <1>1, <1>4 DEF WorkflowOK, SweepsAreExact, NothingForgotten, RelocatesNeedPicks
<1>6. WaitIsBounded'
  BY <1>1 DEF WaitIsBounded, Candidates
<1> QED BY <1>3, <1>5, <1>6

\* Every interval keeps it.
LEMMA Inductive == IInv /\ [Next]_vars => IInv'
<1> SUFFICES ASSUME IInv, [Next]_vars PROVE IInv'
  OBVIOUS
<1>1. CASE Next
  <2>1. PICK picks \in Arrived(Tick), finished \in SUBSET issued, valued \in Valuations :
          Interval(picks, finished, valued)
    BY <1>1 DEF Next
  <2>2. /\ CatalogueOK'
        /\ \A e \in Events :
             /\ catalogue'[e].processed = catalogue[e].processed + picks[e]
             /\ Deferred => (catalogue'[e].locatedAt # 0 <=>
                   \/ catalogue[e].locatedAt # 0
                   \/ e \in NewlyLocated(finished) /\ CanLocate(catalogue[e]))
    BY <2>1, CatalogueKeeps DEF IInv
  <2>3. now' = Tick /\ trigger' = trigger /\ now =< now'
    BY <2>1, TickMovesOn DEF Interval, IInv, CatalogueOK
  <2>4. CASE Deferred
    <3>1. Workflow(picks, finished, valued, Tick)
      BY <2>1, <2>4 DEF Interval
    <3>2. picks \in [Events -> Nat]
      BY PicksArrive
    <3> QED BY <2>2, <2>3, <2>4, <3>1, <3>2, WorkflowKeeps DEF IInv
  <2>5. CASE ~Deferred
    <3>1. UNCHANGED <<issued, workflow>>
      BY <2>1, <2>5 DEF Interval
    <3> QED BY <2>2, <2>3, <2>5, <3>1, NoWorkflowKeeps DEF IInv
  <2> QED BY <2>4, <2>5
<1>2. CASE UNCHANGED vars
  BY <1>2 DEF vars, workflow, IInv, CatalogueOK, WorkflowType, WorkflowOK, WaitIsBounded, Sound,
    Deferred, SweepsAreExact, NothingForgotten, RelocatesNeedPicks, Under, Candidates
<1> QED BY <1>1, <1>2

\* Catalogue and workflow agree, and are what the picks made of them, at every
\* interval of every run.
THEOREM Invariant == Spec => []IInv
BY Starts, Inductive, PTL DEF Spec

-----------------------------------------------------------------------------
(* What the runs of TLC check on a small instance. *)

\* What the workflow and the catalogue count of an event independently is of a
\* piece: the same picks, the same events located, never from fewer picks than
\* it takes, and a final location that is from every pick (pipeline.go Advance,
\* catalogue.go Observe and Locate), whichever picks and jobs an interval
\* finishes and whatever the trigger.
THEOREM Catalogues == Spec => []CatalogueAgrees
<1>1. IInv => CatalogueAgrees
  <2> SUFFICES ASSUME IInv PROVE CatalogueAgrees
    OBVIOUS
  <2>1. TypeOK
    BY DEF IInv, CatalogueOK, WorkflowType, TypeOK
  <2>2. LocatedAgrees
    BY DEF IInv, CatalogueOK, WorkflowOK, Sound, LocatedAgrees
  <2>3. ASSUME NEW e \in Events, ended, ~Deferred, Picks[e] >= MinimumPicks
        PROVE  catalogue[e].final = Picks[e]
    <3>1. AllProcessed(e, catalogue[e]) /\ Settled(e, catalogue[e]) /\ catalogue[e].processed \in Nat
      BY <2>3 DEF IInv, CatalogueOK, EventRecord
    <3>2. Picks[e] \in Nat /\ MinimumPicks \in Nat
      BY CatalogueAssumption
    <3> QED BY <2>3, <3>1, <3>2 DEF Settled, CanLocate, AllProcessed, Remaining
  <2>4. FinalIsFromAll
    BY <2>3 DEF IInv, CatalogueOK, Sound, FinalIsFromAll
  <2> QED BY <2>1, <2>2, <2>4 DEF CatalogueAgrees
<1> QED BY <1>1, Invariant, PTL

\* Sweeps that overlap take up every pick once (pipeline.go sweep): an event
\* with picks that were taken up is located or has work under way, and there is
\* never more under way for it than one for each pick past the first location.
THEOREM Sweeps == Spec => []SweepsAreExact
<1>1. IInv => SweepsAreExact
  BY DEF IInv, WorkflowOK
<1> QED BY <1>1, Invariant, PTL

\* Every trigger keeps its promise (trigger.go): an event that could be located
\* is not left beyond the trigger's own limit since the last sweep, for any
\* limits its spec may set, any backlog, drain rate, values and pressure.
THEOREM Waits == Spec => []WaitIsBounded
<1>1. IInv => WaitIsBounded
  BY DEF IInv
<1> QED BY <1>1, Invariant, PTL
=============================================================================
