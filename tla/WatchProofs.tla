----------------------------- MODULE WatchProofs ------------------------------
(****************************************************************************)
(* What holds of the hub, its streams and the cache of views for any number *)
(* of runs, watchers and pages, any buffer and any bound on the cache.      *)
(*                                                                          *)
(* Of every event that is recorded and that its run knows of, a stream that *)
(* has read the record back has had it, has it in its channel, or is yet to *)
(* be reached with it: for each step either the event has just been handed  *)
(* to Publish, or nothing new is on record.  So the engine's steps are seen *)
(* as of two kinds, those that announce and those that leave the hub alone. *)
(****************************************************************************)
EXTENDS Watch, FiniteSetTheorems, TLAPS

Events == [run : Runs, kind : Kinds, number : Nat]
Decisions == [at : Nat, number : Nat]
Calls  == [phase : {"due", "sending"}, event : Events, rest : SUBSET Watchers]

\* What the hub holds has its type; a call of Publish is its run's own, and
\* one that sends has only subscribers left to reach.
HubOK ==
  /\ watcher \in [Watchers -> {"asked", "joining", "streaming", "leaving", "gone"}]
  /\ subscribers = {w \in Watchers : watcher[w] \in {"streaming", "leaving"}}
  /\ channel \in [Watchers -> Seq(Events)]
  /\ \A w \in Watchers : Len(channel[w]) =< Buffer
  /\ settled \in [Watchers -> SUBSET Events]
  /\ publishing \in [Runs -> {Quiet} \cup Calls]
  /\ \A r \in Runs : publishing[r] # Quiet => publishing[r].event.run = r
  /\ SendsAreOpen

\* What a run is about to send of its cycles and metrics is on record, as what
\* it has sent is; only who has subscribed has read the record back.
RecordOK ==
  /\ recorded \subseteq Events /\ unheard \subseteq recorded
  /\ reread \subseteq Watchers
  /\ \A w \in reread : watcher[w] \notin {"asked", "joining"}
  /\ \A r \in Runs : publishing[r] # Quiet /\ publishing[r].event.kind \in {"cycle", "metrics"} =>
       publishing[r].event \in recorded
  /\ SentIsRecorded
  /\ NothingMissed

\* What the engine and the scenario hold has its type.
EngineOK ==
  /\ scene \in Scenes
  /\ pc \in [Runs -> {"begin", "layout", "events", "units", "loop", "verdict", "unmeasured",
                      "measured", "over"}]
  /\ cancelled \subseteq Runs
  /\ cycles \in [Runs -> Nat] /\ decision \in [Runs -> Decisions] /\ lastSeen \in [Runs -> Nat]
  /\ \A r \in Runs : lastSeen[r] =< decision[r].at

Asks == [phase : {"layout", "entities", "built"}, run : Runs, built : Recordings]

\* The pages' half: what is being built, or is kept, is of a recorded mine.
PagesOK ==
  /\ mine \in [Runs -> Recordings] /\ views \in [Runs -> Recordings]
  /\ order \in Seq(Runs)
  /\ page \in [Pages -> {Idle, [phase |-> "closed"]} \cup Asks]
  /\ \A p \in Pages : page[p].phase \in {"entities", "built"} => mine[page[p].run] # "none"
  /\ \A p \in Pages : page[p].phase = "built" => page[p].built # "none"
  /\ \A r \in Runs : views[r] # "none" => mine[r] # "none"
  /\ ToSet(order) = {r \in Runs : views[r] # "none"}
  /\ IsInjective(order) /\ Len(order) =< ViewsKept

IInv == HubOK /\ RecordOK /\ EngineOK /\ PagesOK

-----------------------------------------------------------------------------
(* Sequences as channels and as the order of a cache. *)

\* What a sequence holds, once one is put behind it or its head is taken.
LEMMA AppendHolds ==
  ASSUME NEW S, NEW s \in Seq(S), NEW e \in S
  PROVE  /\ Append(s, e) \in Seq(S) /\ Len(Append(s, e)) = Len(s) + 1
         /\ ToSet(Append(s, e)) = ToSet(s) \cup {e}
<1>1. /\ Append(s, e) \in Seq(S) /\ Len(Append(s, e)) = Len(s) + 1 /\ Len(s) \in Nat
      /\ DOMAIN s = 1 .. Len(s) /\ DOMAIN Append(s, e) = 1 .. (Len(s) + 1)
      /\ Append(s, e)[Len(s) + 1] = e
      /\ \A i \in 1 .. Len(s) : Append(s, e)[i] = s[i]
  OBVIOUS
<1>2. ToSet(Append(s, e)) \subseteq ToSet(s) \cup {e}
  BY <1>1 DEF ToSet
<1>3. ToSet(s) \cup {e} \subseteq ToSet(Append(s, e))
  <2>1. \A i \in DOMAIN s : i \in DOMAIN Append(s, e) /\ s[i] = Append(s, e)[i]
    BY <1>1
  <2>2. Len(s) + 1 \in DOMAIN Append(s, e)
    BY <1>1
  <2> QED BY <2>1, <2>2, <1>1 DEF ToSet
<1> QED BY <1>1, <1>2, <1>3

\* What is left of a buffer when its head is taken.
LEMMA TailHolds ==
  ASSUME NEW S, NEW s \in Seq(S), s # <<>>
  PROVE  /\ Tail(s) \in Seq(S) /\ Len(Tail(s)) = Len(s) - 1 /\ Len(s) \in Nat \ {0}
         /\ Head(s) \in S /\ Head(s) \in ToSet(s)
         /\ ToSet(Tail(s)) \cup {Head(s)} = ToSet(s)
         /\ IsInjective(s) => IsInjective(Tail(s)) /\ Head(s) \notin ToSet(Tail(s))
<1>1. /\ Len(s) \in Nat \ {0} /\ DOMAIN s = 1 .. Len(s) /\ Head(s) = s[1] /\ Head(s) \in S
      /\ Tail(s) \in Seq(S) /\ Len(Tail(s)) = Len(s) - 1
      /\ DOMAIN Tail(s) = 1 .. (Len(s) - 1)
      /\ \A i \in 1 .. (Len(s) - 1) : Tail(s)[i] = s[i + 1]
  OBVIOUS
<1>2. Head(s) \in ToSet(s)
  BY <1>1 DEF ToSet
<1>3. ToSet(Tail(s)) \subseteq ToSet(s)
  BY <1>1 DEF ToSet
<1>4. ToSet(s) \subseteq ToSet(Tail(s)) \cup {Head(s)}
  <2>1. SUFFICES ASSUME NEW i \in DOMAIN s, i # 1
                 PROVE  \E k \in DOMAIN Tail(s) : s[i] = Tail(s)[k]
    BY <1>1 DEF ToSet
  <2>2. i - 1 \in DOMAIN Tail(s) /\ Tail(s)[i - 1] = s[i]
    BY <1>1, <2>1
  <2> QED BY <2>2
<1>5. ASSUME IsInjective(s)
      PROVE  IsInjective(Tail(s)) /\ Head(s) \notin ToSet(Tail(s))
  <2>1. IsInjective(Tail(s))
    <3> SUFFICES ASSUME NEW i \in DOMAIN Tail(s), NEW k \in DOMAIN Tail(s), Tail(s)[i] = Tail(s)[k]
                 PROVE  i = k
      BY DEF IsInjective
    <3>1. /\ i \in Nat /\ k \in Nat /\ i + 1 \in DOMAIN s /\ k + 1 \in DOMAIN s
          /\ s[i + 1] = s[k + 1]
      BY <1>1
    <3> QED BY <3>1, <1>5 DEF IsInjective
  <2>2. ASSUME NEW i \in DOMAIN Tail(s), Tail(s)[i] = Head(s)
        PROVE  FALSE
    <3>1. i \in Nat \ {0} /\ i + 1 \in DOMAIN s /\ 1 \in DOMAIN s /\ s[i + 1] = s[1]
      BY <1>1, <2>2
    <3> QED BY <3>1, <1>5 DEF IsInjective
  <2> QED BY <2>1, <2>2 DEF ToSet
<1> QED BY <1>1, <1>2, <1>3, <1>4, <1>5

\* A sequence that repeats nothing is as long as what it holds is many.
LEMMA InjectiveCounts ==
  ASSUME NEW S, NEW s \in Seq(S), IsInjective(s)
  PROVE  Cardinality(ToSet(s)) = Len(s)
<1>1. /\ Len(s) \in Nat /\ DOMAIN s = 1 .. Len(s)
      /\ \A i \in 1 .. Len(s) : s[i] \in ToSet(s)
      /\ \A e \in ToSet(s) : \E i \in 1 .. Len(s) : s[i] = e
  BY DEF ToSet
<1>2. s \in [1 .. Len(s) -> ToSet(s)]
  BY <1>1
<1>3. s \in Bijection(1 .. Len(s), ToSet(s))
  BY <1>1, <1>2 DEF IsInjective, Bijection, Injection, Surjection
<1>4. IsFiniteSet(1 .. Len(s)) /\ Cardinality(1 .. Len(s)) = Len(s)
  BY <1>1, FS_Interval
<1> QED BY <1>3, <1>4, FS_Bijection DEF ExistsBijection

-----------------------------------------------------------------------------
(* The hub. *)

\* A call of Publish is told from none by its phase, and each kind has its.
LEMMA CallsApart ==
  ASSUME NEW r \in Runs, publishing \in [Runs -> {Quiet} \cup Calls]
  PROVE  /\ publishing[r].phase \in {"due", "sending"} <=> publishing[r] # Quiet
         /\ publishing[r] # Quiet => publishing[r] \in Calls
         /\ publishing[r].phase \in {"none", "due", "sending"}
BY DEF Quiet, Calls

\* A call with subscribers left to reach is sending, and over when none is.
LEMMA SendingType ==
  ASSUME NEW e \in Events, NEW rest \in SUBSET Watchers
  PROVE  /\ rest = {} => Sending(e, rest) = Quiet
         /\ rest # {} => /\ Sending(e, rest) \in Calls /\ Sending(e, rest) # Quiet
                         /\ Sending(e, rest).phase = "sending"
                         /\ Sending(e, rest).event = e /\ Sending(e, rest).rest = rest
BY DEF Sending, Call, Calls, Quiet

\* A call that waits for the lock is due.
LEMMA CallType ==
  ASSUME NEW e \in Events
  PROVE  /\ Call("due", e, {}) \in Calls /\ Call("due", e, {}) # Quiet
         /\ Call("due", e, {}).phase = "due" /\ Call("due", e, {}).event = e
BY DEF Call, Calls, Quiet

\* A step of the engine that hands an event to Publish: its run was not
\* publishing, and nothing new is on record but that event.
Announcement(r, e) ==
  /\ publishing[r] = Quiet
  /\ publishing' = [publishing EXCEPT ![r] = Call("due", e, {})]
  /\ UNCHANGED <<watcher, subscribers, channel, settled, unheard, reread>>
  /\ recorded' \in {recorded, recorded \cup {e}}
  /\ e.kind \in {"cycle", "metrics"} => e \in recorded'

\* A step that leaves the hub alone: what is new on record nobody knows of.
Silence ==
  /\ UNCHANGED <<hub, reread>>
  /\ \E new \in SUBSET Events : recorded' = recorded \cup new /\ unheard' = unheard \cup new

\* What is published keeps the hub right: it is recorded before it is announced.
LEMMA AnnouncementKeeps ==
  ASSUME HubOK, RecordOK, NEW r \in Runs, NEW e \in Events, e.run = r, Announcement(r, e)
  PROVE  HubOK' /\ RecordOK'
<1> USE DEF HubOK, RecordOK, Announcement
<1>1. /\ publishing' \in [Runs -> {Quiet} \cup Calls]
      /\ publishing'[r].phase = "due" /\ publishing'[r] # Quiet /\ publishing'[r].event = e
      /\ \A q \in Runs \ {r} : publishing'[q] = publishing[q]
  BY CallType
<1>2. publishing[r].phase = "none"
  BY DEF Quiet
<1>3. HubOK'
  BY <1>1 DEF SendsAreOpen, Readers
<1>4. SentIsRecorded'
  BY DEF SentIsRecorded
<1>5. NothingMissed'
  <2> SUFFICES ASSUME NEW w \in reread, watcher[w] = "streaming",
                      NEW d \in recorded' \ unheard, InScope(w, d.run)
               PROVE  (d \in settled[w] \cup ToSet(channel[w]) \/ OnItsWay(d, w))'
    BY DEF NothingMissed
  <2>1. CASE d = e
    BY <1>1, <2>1 DEF OnItsWay
  <2>2. CASE d # e
    <3>1. d \in recorded /\ d.run \in Runs
      BY <2>2 DEF Events
    <3>2. d \in settled[w] \cup ToSet(channel[w]) \/ OnItsWay(d, w)
      BY <3>1 DEF NothingMissed
    <3>3. OnItsWay(d, w) => d.run # r
      BY DEF OnItsWay
    <3> QED BY <1>1, <3>1, <3>2, <3>3 DEF OnItsWay
  <2> QED BY <2>1, <2>2
<1>6. (\A q \in Runs : publishing[q] # Quiet /\ publishing[q].event.kind \in {"cycle", "metrics"} =>
          publishing[q].event \in recorded)'
  BY <1>1
<1> QED BY <1>3, <1>4, <1>5, <1>6

\* So does publishing nothing.
LEMMA SilenceKeeps ==
  ASSUME HubOK, RecordOK, Silence
  PROVE  HubOK' /\ RecordOK'
<1> USE DEF HubOK, RecordOK, Silence, hub
<1>1. HubOK'
  BY DEF SendsAreOpen, Readers
<1>2. /\ recorded' \subseteq Events /\ unheard' \subseteq recorded'
      /\ recorded \subseteq recorded' /\ recorded' \ unheard' \subseteq recorded \ unheard
  OBVIOUS
<1>3. SentIsRecorded'
  BY <1>2 DEF SentIsRecorded
<1>4. NothingMissed'
  <2> SUFFICES ASSUME NEW w \in reread, watcher[w] = "streaming",
                      NEW d \in recorded \ unheard, InScope(w, d.run)
               PROVE  d \in settled[w] \cup ToSet(channel[w]) \/ OnItsWay(d, w)
    BY <1>2 DEF NothingMissed, OnItsWay
  <2> QED BY DEF NothingMissed
<1> QED BY <1>1, <1>2, <1>3, <1>4

\* What changes of the hub when publishers get the lock while `watching` is
\* who subscribes: any of those due, and they have all of them to reach.
LEMMA AdmitKeeps ==
  ASSUME HubOK, NEW watching \in SUBSET Watchers, Admit(watching)
  PROVE  /\ publishing' \in [Runs -> {Quiet} \cup Calls]
         /\ \A r \in Runs :
              \/ publishing'[r] = publishing[r]
              \/ /\ publishing[r].phase = "due" /\ publishing[r] # Quiet
                 /\ publishing'[r] = Sending(publishing[r].event, Reaches(r, watching))
<1> USE DEF HubOK
<1>1. PICK waiting \in SUBSET {r \in Runs : publishing[r].phase = "due"} :
        publishing' = [r \in Runs |->
          IF r \in waiting THEN Sending(publishing[r].event, Reaches(r, watching)) ELSE publishing[r]]
  BY DEF Admit
<1>2. ASSUME NEW r \in Runs, r \in waiting
      PROVE  /\ publishing[r] # Quiet
             /\ Sending(publishing[r].event, Reaches(r, watching)) \in {Quiet} \cup Calls
  <2>1. publishing[r] # Quiet /\ publishing[r] \in Calls
    BY <1>2, CallsApart
  <2>2. publishing[r].event \in Events /\ Reaches(r, watching) \in SUBSET Watchers
    BY <2>1 DEF Calls, Reaches
  <2> QED BY <2>1, <2>2, SendingType
<1> QED BY <1>1, <1>2

\* What a call that starts sending has to reach is all that watch its run.
LEMMA StartsSending ==
  ASSUME NEW r \in Runs, NEW e \in Events, e.run = r,
         NEW w \in Watchers, NEW watching \in SUBSET Watchers, w \in watching, InScope(w, r)
  PROVE  LET call == Sending(e, Reaches(r, watching))
         IN  call # Quiet /\ call.event = e /\ w \in call.rest
<1>1. w \in Reaches(r, watching) /\ Reaches(r, watching) \in SUBSET Watchers
  BY DEF Reaches
<1> QED BY <1>1, SendingType

\* What is left of an event on its way once its run's call starts sending, if
\* it does: all that watch the run are to be reached.
LEMMA OnItsWayStarting ==
  ASSUME HubOK, NEW watching \in SUBSET Watchers, NEW w \in watching,
         NEW e \in Events, InScope(w, e.run), OnItsWay(e, w),
         publishing' \in [Runs -> {Quiet} \cup Calls],
         \/ publishing'[e.run] = publishing[e.run]
         \/ /\ publishing[e.run].phase = "due" /\ publishing[e.run] # Quiet
            /\ publishing'[e.run] = Sending(publishing[e.run].event, Reaches(e.run, watching))
  PROVE  OnItsWay(e, w)'
<1>1. CASE publishing'[e.run] = publishing[e.run]
  BY <1>1 DEF OnItsWay
<1>2. CASE publishing'[e.run] = Sending(publishing[e.run].event, Reaches(e.run, watching))
  <2>1. e.run \in Runs /\ publishing[e.run].event = e
    BY DEF OnItsWay, Events
  <2> QED BY <1>2, <2>1, StartsSending DEF OnItsWay
<1> QED BY <1>1, <1>2

\* Calls of Publish moving on disturb neither what runs are known to send nor,
\* where they reach only who subscribes, that nobody closed is sent to.
LEMMA CallsMoveOn ==
  ASSUME HubOK, RecordOK, UNCHANGED <<recorded>>,
         NEW watching \in SUBSET Watchers, watching = subscribers',
         publishing' \in [Runs -> {Quiet} \cup Calls],
         \A r \in Runs :
           \/ publishing'[r] = publishing[r] /\ publishing[r].rest \cap subscribers \subseteq watching
           \/ publishing'[r] = Quiet
           \/ /\ publishing[r] # Quiet /\ publishing'[r].phase = "sending"
              /\ publishing'[r].event = publishing[r].event
              /\ publishing'[r].rest \subseteq watching
  PROVE  /\ (\A r \in Runs : publishing[r] # Quiet => publishing[r].event.run = r)'
         /\ (\A r \in Runs : publishing[r] # Quiet /\ publishing[r].event.kind \in {"cycle", "metrics"} =>
               publishing[r].event \in recorded)'
         /\ SendsAreOpen'
<1> USE DEF HubOK, RecordOK
<1>1. SendsAreOpen'
  <2> SUFFICES ASSUME NEW r \in Runs, publishing'[r].phase = "sending"
               PROVE  publishing'[r].rest \subseteq subscribers'
    BY DEF SendsAreOpen, Readers
  <2>1. publishing'[r] # Quiet
    BY DEF Quiet
  <2>2. CASE publishing'[r] = publishing[r] /\ publishing[r].rest \cap subscribers \subseteq watching
    BY <2>2 DEF SendsAreOpen, Readers
  <2> QED BY <2>1, <2>2
<1> QED BY <1>1

\* So does a publisher that gets the lock,
LEMMA EnterKeeps ==
  ASSUME HubOK, RecordOK, NEW r \in Runs, Enter(r), UNCHANGED <<recorded, unheard, reread>>
  PROVE  HubOK' /\ RecordOK'
<1>1. /\ publishing[r].phase = "due" /\ publishing[r] # Quiet /\ publishing[r].event \in Events
      /\ publishing' = [publishing EXCEPT ![r] = Sending(publishing[r].event, Reaches(r, subscribers))]
      /\ UNCHANGED <<watcher, subscribers, channel, settled>>
  BY CallsApart DEF Enter, Calls, HubOK
<1>2. /\ Sending(publishing[r].event, Reaches(r, subscribers)) \in {Quiet} \cup Calls
      /\ Reaches(r, subscribers) \subseteq subscribers /\ subscribers \in SUBSET Watchers
  <2>1. Reaches(r, subscribers) \in SUBSET Watchers
    BY DEF Reaches, HubOK
  <2>2. Reaches(r, subscribers) \subseteq subscribers /\ subscribers \in SUBSET Watchers
    BY DEF Reaches, HubOK
  <2> QED BY <1>1, <2>1, <2>2, SendingType
<1>3. /\ publishing' \in [Runs -> {Quiet} \cup Calls]
      /\ \A q \in Runs \ {r} : publishing'[q] = publishing[q]
      /\ publishing'[r] = Sending(publishing[r].event, Reaches(r, subscribers))
  BY <1>1, <1>2 DEF HubOK
<1>4. \/ publishing'[r] = Quiet
      \/ /\ publishing'[r].phase = "sending" /\ publishing'[r].event = publishing[r].event
         /\ publishing'[r].rest \subseteq subscribers
  BY <1>1, <1>2, <1>3, SendingType
<1>5. /\ (\A q \in Runs : publishing[q] # Quiet => publishing[q].event.run = q)'
      /\ (\A q \in Runs : publishing[q] # Quiet /\ publishing[q].event.kind \in {"cycle", "metrics"} =>
            publishing[q].event \in recorded)'
      /\ SendsAreOpen'
  <2>1. \A q \in Runs \ {r} :
          publishing'[q] = publishing[q] /\ publishing[q].rest \cap subscribers \subseteq subscribers
    BY <1>3
  <2>2. subscribers' = subscribers
    BY <1>1
  <2> QED BY <1>1, <1>2, <1>3, <1>4, <2>1, <2>2, CallsMoveOn
<1>6. NothingMissed'
  <2> SUFFICES ASSUME NEW w \in reread, watcher[w] = "streaming",
                      NEW d \in recorded \ unheard, InScope(w, d.run), OnItsWay(d, w)
               PROVE  OnItsWay(d, w)'
    BY <1>1 DEF NothingMissed, RecordOK
  <2>1. d \in Events /\ d.run \in Runs /\ w \in subscribers
    BY DEF Events, HubOK, RecordOK
  <2> QED BY <1>1, <1>2, <1>3, <2>1, OnItsWayStarting
<1>7. SentIsRecorded'
  BY <1>1 DEF SentIsRecorded, RecordOK
<1> QED BY <1>1, <1>3, <1>5, <1>6, <1>7 DEF HubOK, RecordOK

\* Whoever is sent an event, or finds its channel full, is the one the call no
\* longer has to reach; the others are reached as before.
LEMMA DeliverKeeps ==
  ASSUME HubOK, RecordOK, NEW r \in Runs, NEW w \in Watchers, Deliver(r, w),
         UNCHANGED <<recorded, unheard, reread>>
  PROVE  HubOK' /\ RecordOK'
<1> DEFINE e == publishing[r].event  left == publishing[r].rest \ {w}
<1>1. /\ publishing[r].phase = "sending" /\ publishing[r] # Quiet /\ publishing[r] \in Calls
      /\ e \in Events /\ e.run = r /\ w \in publishing[r].rest /\ left \in SUBSET Watchers
      /\ publishing' = [publishing EXCEPT ![r] = Sending(e, left)]
      /\ UNCHANGED <<watcher, subscribers>>
  BY CallsApart DEF Deliver, Calls, HubOK
<1>2. Sending(e, left) \in {Quiet} \cup Calls
  BY <1>1, SendingType
<1>3. /\ publishing' \in [Runs -> {Quiet} \cup Calls] /\ publishing'[r] = Sending(e, left)
      /\ \A q \in Runs \ {r} : publishing'[q] = publishing[q]
  BY <1>1, <1>2 DEF HubOK
<1>4. left \subseteq subscribers /\ subscribers \in SUBSET Watchers
  BY <1>1 DEF SendsAreOpen, Readers, HubOK
<1>5. /\ (\A q \in Runs : publishing[q] # Quiet => publishing[q].event.run = q)'
      /\ (\A q \in Runs : publishing[q] # Quiet /\ publishing[q].event.kind \in {"cycle", "metrics"} =>
            publishing[q].event \in recorded)'
      /\ SendsAreOpen'
  <2>1. \/ publishing'[r] = Quiet
        \/ /\ publishing'[r].phase = "sending" /\ publishing'[r].event = e
           /\ publishing'[r].rest \subseteq subscribers
    BY <1>1, <1>3, <1>4, SendingType
  <2>2. \A q \in Runs \ {r} :
          publishing'[q] = publishing[q] /\ publishing[q].rest \cap subscribers \subseteq subscribers
    BY <1>3
  <2>3. subscribers' = subscribers
    BY <1>1
  <2> QED BY <1>1, <1>3, <1>4, <2>1, <2>2, <2>3, CallsMoveOn
<1>6. /\ channel' \in [Watchers -> Seq(Events)] /\ settled' \in [Watchers -> SUBSET Events]
      /\ \A v \in Watchers : Len(channel'[v]) =< Buffer
      /\ \A v \in Watchers \ {w} : channel'[v] = channel[v] /\ settled'[v] = settled[v]
      /\ ToSet(channel'[w]) \subseteq ToSet(channel[w]) \cup {e}
      /\ settled'[w] \cup ToSet(channel'[w]) = settled[w] \cup ToSet(channel[w]) \cup {e}
  <2>1. CASE /\ Len(channel[w]) < Buffer /\ channel' = [channel EXCEPT ![w] = Append(@, e)]
             /\ UNCHANGED settled
    <3>1. /\ Append(channel[w], e) \in Seq(Events) /\ Len(Append(channel[w], e)) = Len(channel[w]) + 1
          /\ ToSet(Append(channel[w], e)) = ToSet(channel[w]) \cup {e} /\ Len(channel[w]) \in Nat
      BY <1>1, AppendHolds DEF HubOK
    <3> QED BY <2>1, <3>1, HubAssumption DEF HubOK
  <2>2. CASE settled' = [settled EXCEPT ![w] = @ \cup {e}] /\ UNCHANGED channel
    BY <1>1, <2>2 DEF HubOK
  <2> QED BY <2>1, <2>2 DEF Deliver
<1>7. SentIsRecorded'
  <2> SUFFICES ASSUME NEW v \in Watchers, NEW d \in ToSet(channel'[v]), d.kind \in {"cycle", "metrics"}
               PROVE  d \in recorded
    BY DEF SentIsRecorded
  <2>1. d \in ToSet(channel[v]) \/ d = e
    BY <1>6
  <2>2. CASE d \in ToSet(channel[v])
    BY <2>2 DEF SentIsRecorded, RecordOK
  <2>3. CASE d = e
    BY <1>1, <2>3 DEF RecordOK
  <2> QED BY <2>1, <2>2, <2>3
<1>8. NothingMissed'
  <2> SUFFICES ASSUME NEW v \in reread, watcher[v] = "streaming",
                      NEW d \in recorded \ unheard, InScope(v, d.run)
               PROVE  d \in settled'[v] \cup ToSet(channel'[v]) \/ OnItsWay(d, v)'
    BY <1>1 DEF NothingMissed, RecordOK
  <2>1. v \in Watchers /\ (d \in settled[v] \cup ToSet(channel[v]) \/ OnItsWay(d, v))
    BY DEF NothingMissed, RecordOK
  <2>2. CASE d \in settled[v] \cup ToSet(channel[v])
    BY <1>6, <2>1, <2>2
  <2>3. CASE OnItsWay(d, v) /\ d.run # r
    <3>1. d.run \in Runs
      BY DEF Events, RecordOK
    <3> QED BY <1>3, <2>3, <3>1 DEF OnItsWay
  <2>4. CASE OnItsWay(d, v) /\ d.run = r /\ v = w
    BY <1>6, <2>4 DEF OnItsWay
  <2>5. CASE OnItsWay(d, v) /\ d.run = r /\ v # w
    <3>1. d = e /\ v \in left
      BY <1>1, <2>5 DEF OnItsWay
    <3> QED BY <1>1, <1>3, <2>5, <3>1, SendingType DEF OnItsWay
  <2> QED BY <2>1, <2>2, <2>3, <2>4, <2>5
<1> QED BY <1>1, <1>3, <1>5, <1>6, <1>7, <1>8 DEF HubOK, RecordOK

\* To wait for the lock is to be subscribed still, or not yet.
LEMMA AskKeeps ==
  ASSUME HubOK, RecordOK, NEW w \in Watchers, Ask(w), UNCHANGED <<recorded, unheard, reread>>
  PROVE  HubOK' /\ RecordOK'
<1>1. /\ UNCHANGED <<subscribers, channel, publishing, settled>>
      /\ \E from, to \in {"asked", "joining", "streaming", "leaving"} :
           /\ <<from, to>> \in {<<"asked", "joining">>, <<"streaming", "leaving">>}
           /\ watcher[w] = from /\ watcher' = [watcher EXCEPT ![w] = to]
  BY DEF Ask, Moves
<1>2. /\ watcher' \in [Watchers -> {"asked", "joining", "streaming", "leaving", "gone"}]
      /\ \A v \in Watchers :
           /\ watcher'[v] = "streaming" => watcher[v] = "streaming"
           /\ watcher'[v] \in {"streaming", "leaving"} <=> watcher[v] \in {"streaming", "leaving"}
           /\ watcher'[v] \in {"asked", "joining"} => watcher[v] \in {"asked", "joining"}
  BY <1>1 DEF HubOK
<1>3. HubOK'
  BY <1>1, <1>2 DEF HubOK, SendsAreOpen, Readers
<1>4. NothingMissed'
  <2> SUFFICES ASSUME NEW v \in reread, watcher'[v] = "streaming",
                      NEW d \in recorded \ unheard, InScope(v, d.run)
               PROVE  d \in settled[v] \cup ToSet(channel[v]) \/ OnItsWay(d, v)
    BY <1>1 DEF NothingMissed, OnItsWay
  <2> QED BY <1>2 DEF NothingMissed, RecordOK
<1> QED BY <1>1, <1>2, <1>3, <1>4 DEF RecordOK, SentIsRecorded

\* Unlock: those due who get in have to reach who subscribes by then, and who
\* was and still is subscribed is reached as it would have been.
LEMMA LockingMovesOn ==
  ASSUME HubOK, RecordOK, Readers = {}, UNCHANGED <<recorded, unheard>>,
         NEW watching \in SUBSET Watchers, watching = subscribers', Admit(watching)
  PROVE  /\ publishing' \in [Runs -> {Quiet} \cup Calls]
         /\ (\A r \in Runs : publishing[r] # Quiet => publishing[r].event.run = r)'
         /\ (\A r \in Runs : publishing[r] # Quiet /\ publishing[r].event.kind \in {"cycle", "metrics"} =>
               publishing[r].event \in recorded)'
         /\ SendsAreOpen'
         /\ \A w \in watching : \A e \in Events :
              InScope(w, e.run) /\ OnItsWay(e, w) => OnItsWay(e, w)'
<1>1. /\ publishing' \in [Runs -> {Quiet} \cup Calls]
      /\ \A r \in Runs :
           \/ publishing'[r] = publishing[r]
           \/ /\ publishing[r].phase = "due" /\ publishing[r] # Quiet
              /\ publishing'[r] = Sending(publishing[r].event, Reaches(r, watching))
  BY AdmitKeeps
<1>2. SendsAreOpen' /\ \A r \in Runs : publishing'[r] # Quiet =>
        publishing[r] # Quiet /\ publishing'[r].event = publishing[r].event
  <2>1. ASSUME NEW r \in Runs
        PROVE  /\ publishing'[r] # Quiet =>
                    publishing[r] # Quiet /\ publishing'[r].event = publishing[r].event
               /\ publishing'[r].phase = "sending" => publishing'[r].rest \subseteq watching
    <3>1. CASE publishing'[r] = publishing[r]
      BY <3>1 DEF Readers
    <3>2. CASE /\ publishing[r].phase = "due" /\ publishing[r] # Quiet
               /\ publishing'[r] = Sending(publishing[r].event, Reaches(r, watching))
      <4>1. publishing[r].event \in Events /\ Reaches(r, watching) \in SUBSET Watchers
        BY <3>2 DEF HubOK, Calls, Reaches
      <4>2. Reaches(r, watching) \subseteq watching
        BY DEF Reaches
      <4>3. publishing'[r] = Quiet => publishing'[r].phase = "none"
        BY DEF Quiet
      <4> QED BY <3>2, <4>1, <4>2, <4>3, SendingType
    <3> QED BY <1>1, <3>1, <3>2
  <2> QED BY <2>1 DEF SendsAreOpen, Readers
<1>3. ASSUME NEW w \in watching, NEW e \in Events, InScope(w, e.run), OnItsWay(e, w)
      PROVE  OnItsWay(e, w)'
  <2>1. e.run \in Runs
    BY DEF Events
  <2> QED BY <1>1, <1>3, <2>1, OnItsWayStarting
<1> QED BY <1>1, <1>2, <1>3 DEF HubOK, RecordOK

\* a stream that subscribes under it,
LEMMA SubscribeKeeps ==
  ASSUME HubOK, RecordOK, NEW w \in Watchers, Subscribe(w), UNCHANGED <<recorded, unheard, reread>>
  PROVE  HubOK' /\ RecordOK'
<1>1. /\ Readers = {} /\ watcher[w] = "joining" /\ watcher' = [watcher EXCEPT ![w] = "streaming"]
      /\ subscribers' = subscribers \cup {w} /\ Admit(subscribers') /\ UNCHANGED <<channel, settled>>
  BY DEF Subscribe, Moves
<1>2. /\ watcher' \in [Watchers -> {"asked", "joining", "streaming", "leaving", "gone"}]
      /\ \A v \in Watchers \ {w} : watcher'[v] = watcher[v]
      /\ subscribers' = {v \in Watchers : watcher'[v] \in {"streaming", "leaving"}}
      /\ subscribers' \in SUBSET Watchers /\ w \notin reread
  BY <1>1 DEF HubOK, RecordOK
<1>3. /\ publishing' \in [Runs -> {Quiet} \cup Calls]
      /\ (\A r \in Runs : publishing[r] # Quiet => publishing[r].event.run = r)'
      /\ (\A r \in Runs : publishing[r] # Quiet /\ publishing[r].event.kind \in {"cycle", "metrics"} =>
            publishing[r].event \in recorded)'
      /\ SendsAreOpen'
      /\ \A v \in subscribers' : \A e \in Events :
           InScope(v, e.run) /\ OnItsWay(e, v) => OnItsWay(e, v)'
  BY <1>1, <1>2, LockingMovesOn
<1>4. NothingMissed'
  <2> SUFFICES ASSUME NEW v \in reread, watcher'[v] = "streaming",
                      NEW d \in recorded \ unheard, InScope(v, d.run)
               PROVE  d \in settled[v] \cup ToSet(channel[v]) \/ OnItsWay(d, v)'
    BY <1>1 DEF NothingMissed
  <2>1. v \in Watchers \ {w} /\ d \in Events
    BY <1>2 DEF RecordOK
  <2>2. watcher[v] = "streaming" /\ v \in subscribers'
    BY <1>2, <2>1
  <2>3. d \in settled[v] \cup ToSet(channel[v]) \/ OnItsWay(d, v)
    BY <2>2 DEF NothingMissed, RecordOK
  <2> QED BY <1>3, <2>1, <2>2, <2>3
<1>5. HubOK'
  BY <1>1, <1>2, <1>3 DEF HubOK
<1>6. SentIsRecorded'
  BY <1>1 DEF RecordOK, SentIsRecorded
<1> QED BY <1>1, <1>2, <1>3, <1>4, <1>5, <1>6 DEF RecordOK

\* and one that leaves, whose channel is closed for nobody to send on.
LEMMA UnsubscribeKeeps ==
  ASSUME HubOK, RecordOK, NEW w \in Watchers, Unsubscribe(w), UNCHANGED <<recorded, unheard, reread>>
  PROVE  HubOK' /\ RecordOK'
<1>1. /\ Readers = {} /\ watcher[w] = "leaving" /\ watcher' = [watcher EXCEPT ![w] = "gone"]
      /\ subscribers' = subscribers \ {w} /\ Admit(subscribers')
      /\ channel' = [channel EXCEPT ![w] = <<>>] /\ UNCHANGED settled
  BY DEF Unsubscribe, Moves
<1>2. /\ watcher' \in [Watchers -> {"asked", "joining", "streaming", "leaving", "gone"}]
      /\ \A v \in Watchers \ {w} : watcher'[v] = watcher[v] /\ channel'[v] = channel[v]
      /\ watcher'[w] = "gone" /\ channel'[w] = <<>>
      /\ subscribers' = {v \in Watchers : watcher'[v] \in {"streaming", "leaving"}}
      /\ subscribers' \in SUBSET Watchers
  BY <1>1 DEF HubOK
<1>3. /\ publishing' \in [Runs -> {Quiet} \cup Calls]
      /\ (\A r \in Runs : publishing[r] # Quiet => publishing[r].event.run = r)'
      /\ (\A r \in Runs : publishing[r] # Quiet /\ publishing[r].event.kind \in {"cycle", "metrics"} =>
            publishing[r].event \in recorded)'
      /\ SendsAreOpen'
      /\ \A v \in subscribers' : \A e \in Events :
           InScope(v, e.run) /\ OnItsWay(e, v) => OnItsWay(e, v)'
  BY <1>1, <1>2, LockingMovesOn
<1>4. /\ channel' \in [Watchers -> Seq(Events)] /\ Len(<<>>) = 0
      /\ \A v \in Watchers : Len(channel'[v]) =< Buffer
  BY <1>1, <1>2, HubAssumption DEF HubOK
<1>5. NothingMissed'
  <2> SUFFICES ASSUME NEW v \in reread, watcher'[v] = "streaming",
                      NEW d \in recorded \ unheard, InScope(v, d.run)
               PROVE  d \in settled[v] \cup ToSet(channel'[v]) \/ OnItsWay(d, v)'
    BY <1>1 DEF NothingMissed
  <2>1. v \in Watchers \ {w} /\ d \in Events
    BY <1>2 DEF RecordOK
  <2>2. watcher[v] = "streaming" /\ v \in subscribers' /\ channel'[v] = channel[v]
    BY <1>2, <2>1
  <2>3. d \in settled[v] \cup ToSet(channel[v]) \/ OnItsWay(d, v)
    BY <2>2 DEF NothingMissed, RecordOK
  <2> QED BY <1>3, <2>1, <2>2, <2>3
<1>6. SentIsRecorded'
  <2> SUFFICES ASSUME NEW v \in Watchers, NEW d \in ToSet(channel'[v]), d.kind \in {"cycle", "metrics"}
               PROVE  d \in recorded
    BY DEF SentIsRecorded
  <2>1. v # w
    BY <1>2 DEF ToSet
  <2> QED BY <1>2, <2>1 DEF SentIsRecorded, RecordOK
<1>7. HubOK'
  BY <1>1, <1>2, <1>3, <1>4 DEF HubOK
<1> QED BY <1>1, <1>2, <1>3, <1>5, <1>6, <1>7 DEF RecordOK

\* What a watcher receives it has.
LEMMA ReceiveKeeps ==
  ASSUME HubOK, RecordOK, NEW w \in Watchers, Receive(w), UNCHANGED <<recorded, unheard, reread>>
  PROVE  HubOK' /\ RecordOK'
<1>1. /\ channel[w] # <<>> /\ channel[w] \in Seq(Events)
      /\ channel' = [channel EXCEPT ![w] = Tail(@)]
      /\ settled' = [settled EXCEPT ![w] = @ \cup {Head(channel[w])}]
      /\ UNCHANGED <<watcher, subscribers, publishing>>
  BY DEF Receive, HubOK
<1>2. /\ Tail(channel[w]) \in Seq(Events) /\ Len(Tail(channel[w])) =< Buffer
      /\ Head(channel[w]) \in Events
      /\ ToSet(Tail(channel[w])) \cup {Head(channel[w])} = ToSet(channel[w])
  BY <1>1, TailHolds, HubAssumption DEF HubOK
<1>3. /\ channel' \in [Watchers -> Seq(Events)] /\ settled' \in [Watchers -> SUBSET Events]
      /\ \A v \in Watchers : Len(channel'[v]) =< Buffer
      /\ \A v \in Watchers : settled'[v] \cup ToSet(channel'[v]) = settled[v] \cup ToSet(channel[v])
      /\ \A v \in Watchers : ToSet(channel'[v]) \subseteq ToSet(channel[v])
  BY <1>1, <1>2 DEF HubOK
<1>4. HubOK'
  BY <1>1, <1>3 DEF HubOK, SendsAreOpen, Readers
<1>5. SentIsRecorded'
  BY <1>3 DEF SentIsRecorded, RecordOK
<1>6. NothingMissed'
  <2> SUFFICES ASSUME NEW v \in reread, watcher[v] = "streaming",
                      NEW d \in recorded \ unheard, InScope(v, d.run)
               PROVE  d \in settled'[v] \cup ToSet(channel'[v]) \/ OnItsWay(d, v)
    BY <1>1 DEF NothingMissed, OnItsWay
  <2>1. v \in Watchers /\ (d \in settled[v] \cup ToSet(channel[v]) \/ OnItsWay(d, v))
    BY DEF NothingMissed, RecordOK
  <2> QED BY <1>3, <2>1
<1> QED BY <1>1, <1>4, <1>5, <1>6 DEF RecordOK

\* Who has read the record back has all of it.
LEMMA RereadKeeps ==
  ASSUME HubOK, RecordOK, NEW w \in Watchers, Reread(w)
  PROVE  HubOK' /\ RecordOK'
<1>1. /\ watcher[w] = "streaming" /\ reread' = reread \cup {w}
      /\ settled' = [settled EXCEPT ![w] = @ \cup recorded]
      /\ UNCHANGED <<watcher, subscribers, channel, publishing, recorded, unheard>>
  BY DEF Reread, runs
<1>2. /\ settled' \in [Watchers -> SUBSET Events] /\ recorded \subseteq settled'[w]
      /\ \A v \in Watchers : settled[v] \subseteq settled'[v]
  BY <1>1 DEF HubOK, RecordOK
<1>3. HubOK'
  BY <1>1, <1>2 DEF HubOK, SendsAreOpen, Readers
<1>4. NothingMissed'
  <2> SUFFICES ASSUME NEW v \in reread', watcher[v] = "streaming",
                      NEW d \in recorded \ unheard, InScope(v, d.run)
               PROVE  d \in settled'[v] \cup ToSet(channel[v]) \/ OnItsWay(d, v)
    BY <1>1 DEF NothingMissed, OnItsWay
  <2>1. CASE v = w
    BY <1>2, <2>1
  <2>2. CASE v # w
    BY <1>1, <1>2, <2>2 DEF NothingMissed, RecordOK
  <2> QED BY <2>1, <2>2
<1> QED BY <1>1, <1>3, <1>4 DEF RecordOK, SentIsRecorded

-----------------------------------------------------------------------------
(* The engine. *)

\* An event is what it was made of.
LEMMA EventType ==
  ASSUME NEW r \in Runs, NEW kind \in Kinds, NEW number \in Nat
  PROVE  /\ Event(r, kind, number) \in Events /\ Event(r, kind, number).run = r
         /\ Event(r, kind, number).kind = kind
BY DEF Event, Events

\* Every step of Execute announces one event of its run, or is silent; it
\* keeps the types of what the engine holds, and a mine recorded recorded.
EngineStep(r) ==
  /\ Silence \/ \E e \in Events : e.run = r /\ Announcement(r, e)
  /\ EngineOK'
  /\ mine' \in [Runs -> Recordings] /\ \A q \in Runs : mine[q] # "none" => mine'[q] # "none"
  /\ UNCHANGED pages

\* Writing the status of a run and announcing it is one of its engine's steps.
LEMMA SetStatusSteps ==
  ASSUME RecordOK, EngineOK, mine \in [Runs -> Recordings],
         NEW r \in Runs, NEW status \in Kinds \ {"cycle", "metrics"},
         NEW from, NEW to \in {"loop", "layout", "over"}, Goes(r, from, to), SetStatus(r, status)
  PROVE  EngineStep(r)
<1> DEFINE e == Event(r, status, 0)
<1>1. e \in Events /\ e.run = r /\ e.kind = status
  BY EventType
<1>2. Announcement(r, e)
  BY <1>1 DEF SetStatus, Announces, Goes, Announcement
<1>3. EngineOK'
  BY DEF EngineOK, SetStatus, Goes, pages
<1> QED BY <1>1, <1>2, <1>3 DEF EngineStep, SetStatus

\* So is saving a cycle.
LEMMA SavesCycleSteps ==
  ASSUME RecordOK, EngineOK, mine \in [Runs -> Recordings], NEW r \in Runs,
         Goes(r, "loop", "loop"), SavesCycle(r), UNCHANGED <<cancelled, decision, unheard, mine, reread, pages>>,
         lastSeen' \in {lastSeen, [lastSeen EXCEPT ![r] = decision[r].at]}
  PROVE  EngineStep(r)
<1> DEFINE e == Event(r, "cycle", cycles[r] + 1)
<1>1. cycles[r] + 1 \in Nat /\ cycles'[r] = cycles[r] + 1 /\ cycles' \in [Runs -> Nat]
  BY DEF EngineOK, SavesCycle
<1>2. e \in Events /\ e.run = r /\ e.kind = "cycle"
  BY <1>1, EventType DEF Kinds
<1>3. Announcement(r, e)
  BY <1>1, <1>2 DEF SavesCycle, Announces, Goes, Announcement
<1>4. /\ scene' \in Scenes /\ cancelled' \subseteq Runs
      /\ pc' \in [Runs -> {"begin", "layout", "events", "units", "loop", "verdict", "unmeasured",
                           "measured", "over"}]
  BY DEF EngineOK, Goes, pages
<1>5. /\ decision' \in [Runs -> Decisions] /\ lastSeen' \in [Runs -> Nat]
      /\ \A q \in Runs : lastSeen'[q] =< decision'[q].at
  BY DEF EngineOK, Decisions
<1>6. EngineOK'
  BY <1>1, <1>4, <1>5 DEF EngineOK
<1> QED BY <1>2, <1>3, <1>6 DEF EngineStep

\* A step that announces nothing and puts nothing on record but of the mine.
LEMMA QuietSteps ==
  ASSUME EngineOK, mine \in [Runs -> Recordings], NEW r \in Runs,
         UNCHANGED <<hub, recorded, unheard, reread, pages, lastSeen, cycles>>,
         pc' \in [Runs -> {"begin", "layout", "events", "units", "loop", "verdict", "unmeasured",
                      "measured", "over"}],
         cancelled' \subseteq Runs,
         decision' = decision \/ \E d \in Decisions :
           decision[r].at =< d.at /\ decision' = [decision EXCEPT ![r] = d],
         mine' \in {mine} \cup {[mine EXCEPT ![r] = what] : what \in {"layout", "events", "units"}}
  PROVE  EngineStep(r)
<1>1. \E new \in SUBSET Events : recorded' = recorded \cup new /\ unheard' = unheard \cup new
  <2>1. recorded' = recorded \cup {} /\ unheard' = unheard \cup {}
    OBVIOUS
  <2> QED BY <2>1
<1>2. Silence
  BY <1>1 DEF Silence
<1>3. decision' \in [Runs -> Decisions] /\ \A q \in Runs : lastSeen[q] =< decision'[q].at
  <2>1. CASE decision' = decision
    BY <2>1 DEF EngineOK
  <2>2. CASE decision' # decision
    <3>1. PICK d \in Decisions : decision[r].at =< d.at /\ decision' = [decision EXCEPT ![r] = d]
      BY <2>2
    <3>2. lastSeen[r] =< d.at
      BY <3>1 DEF EngineOK, Decisions
    <3> QED BY <3>1, <3>2 DEF EngineOK
  <2> QED BY <2>1, <2>2
<1>4. EngineOK'
  BY <1>3 DEF EngineOK, pages
<1> QED BY <1>2, <1>4 DEF EngineStep, Recordings

\* And everything else an engine does.
LEMMA ExecuteSteps ==
  ASSUME RecordOK, EngineOK, mine \in [Runs -> Recordings], NEW r \in Runs,
         (Executes(r) /\ UNCHANGED reread) \/ Cancel(r) \/ Decides(r)
  PROVE  EngineStep(r)
<1> USE DEF Kinds
<1>0. pc \in [Runs -> {"begin", "layout", "events", "units", "loop", "verdict", "unmeasured",
                      "measured", "over"}] /\ cancelled \subseteq Runs /\ cycles \in [Runs -> Nat]
  BY DEF EngineOK
<1>1. CASE Begin(r)
  BY <1>1, SetStatusSteps DEF Begin
<1>2. CASE SaveMine(r)
  <2>1. PICK from \in {"layout", "events", "units"}, to \in {"events", "units", "loop"},
             what \in {"layout", "events", "units"} : Saves(r, from, to, what)
    BY <1>2 DEF SaveMine
  <2> QED BY <1>0, <2>1, QuietSteps DEF Saves, Goes
<1>3. CASE Fails(r)
  BY <1>0, <1>3, QuietSteps DEF Fails, Goes
<1>4. CASE Cycle(r)
  BY <1>4, SavesCycleSteps DEF Cycle
<1>5. CASE Observe(r)
  BY <1>5, SavesCycleSteps DEF Observe
<1>6. CASE Drain(r)
  <2> DEFINE e == Event(r, "metrics", 0)
  <2>1. e \in Events /\ e.run = r /\ e.kind = "metrics"
    BY EventType
  <2>2. CASE Goes(r, "loop", "measured") /\ recorded' = recorded \cup {e} /\ Announces(r, "metrics", 0)
    <3>1. Announcement(r, e)
      BY <1>6, <2>1, <2>2 DEF Drain, Announces, Goes, Announcement
    <3>2. EngineOK'
      BY <1>6, <2>2 DEF Drain, EngineOK, Goes, pages
    <3> QED BY <1>6, <2>1, <3>1, <3>2 DEF EngineStep, Drain
  <2>3. CASE Goes(r, "loop", "unmeasured") /\ UNCHANGED <<hub, recorded>>
    BY <1>0, <1>6, <2>3, QuietSteps DEF Drain, Goes
  <2> QED BY <1>6, <2>2, <2>3 DEF Drain
<1>7. CASE LosesAnswer(r)
  <2>1. PICK e \in {Event(r, "cycle", cycles[r] + 1), Event(r, "metrics", 0)} :
          /\ Goes(r, "loop", IF e.kind = "cycle" THEN "verdict" ELSE "unmeasured")
          /\ recorded' = recorded \cup {e} /\ unheard' = unheard \cup {e}
    BY <1>7 DEF LosesAnswer
  <2>2. e \in Events
    BY <1>0, EventType
  <2>3. Silence
    BY <1>7, <2>1, <2>2 DEF LosesAnswer, Silence
  <2>4. EngineOK'
    BY <1>7, <2>1 DEF LosesAnswer, EngineOK, Goes, pages
  <2> QED BY <1>7, <2>3, <2>4 DEF EngineStep, LosesAnswer
<1>8. CASE End(r)
  BY <1>8, SetStatusSteps DEF End
<1>9. CASE Cancel(r)
  BY <1>0, <1>9, QuietSteps DEF Cancel
<1>10. CASE Decides(r)
  <2>1. PICK later \in {0, 1} :
          decision' = [decision EXCEPT ![r] = [at |-> decision[r].at + later, number |-> decision[r].number + 1]]
    BY <1>10 DEF Decides
  <2>2. LET d == [at |-> decision[r].at + later, number |-> decision[r].number + 1]
        IN d \in Decisions /\ decision[r].at =< d.at /\ decision' = [decision EXCEPT ![r] = d]
    BY <2>1 DEF EngineOK, Decisions
  <2> QED BY <1>0, <1>10, <2>2, QuietSteps DEF Decides
<1> QED BY <1>1, <1>2, <1>3, <1>4, <1>5, <1>6, <1>7, <1>8, <1>9, <1>10 DEF Executes

-----------------------------------------------------------------------------
(* The pages. *)

\* Recording more of a mine leaves what was kept, and what is being built, of
\* a recorded one.
LEMMA RecordingKeepsPages ==
  ASSUME PagesOK, mine' \in [Runs -> Recordings],
         \A q \in Runs : mine[q] # "none" => mine'[q] # "none", UNCHANGED pages
  PROVE  PagesOK'
<1>1. /\ UNCHANGED <<page, order, views>>
      /\ \A p \in Pages : page[p].phase \in {"entities", "built"} => page[p].run \in Runs
  BY DEF pages, PagesOK, Idle, Asks
<1> QED BY <1>1 DEF PagesOK

\* A page that asks is told from one that is idle or closed by its phase.
LEMMA AsksApart ==
  ASSUME PagesOK, NEW p \in Pages, page[p].phase \in {"layout", "entities", "built"}
  PROVE  page[p] \in Asks
BY DEF PagesOK, Idle, Asks

\* A page that reads keeps what pages have read so far right.
LEMMA ReadsKeepPages ==
  ASSUME PagesOK, NEW p \in Pages,
         (\E r \in Runs : Look(p, r)) \/ ReadLayout(p) \/ ReadEntities(p)
  PROVE  PagesOK'
<1>1. UNCHANGED <<mine, order, views>>
  BY DEF Look, ReadLayout, ReadEntities, Serves, runs
<1>2. PICK request :
        /\ page' = [page EXCEPT ![p] = request]
        /\ request \in {Idle} \cup Asks
        /\ request.phase \in {"entities", "built"} => mine[request.run] # "none"
        /\ request.phase = "built" => request.built # "none"
  <2>1. CASE \E r \in Runs : Look(p, r)
    <3>1. PICK r \in Runs : page' = [page EXCEPT ![p] = IF views[r] = "none" THEN Asking("layout", r, "none") ELSE Idle]
      BY <2>1 DEF Look, Serves
    <3>2. Asking("layout", r, "none") \in Asks /\ Asking("layout", r, "none").phase = "layout" /\ Idle.phase = "idle"
      BY DEF Asking, Asks, Recordings, Idle
    <3> QED BY <3>1, <3>2
  <2>2. CASE ReadLayout(p)
    <3>1. /\ page[p] \in Asks /\ page[p].phase = "layout"
          /\ page' = [page EXCEPT ![p] = IF mine[page[p].run] = "none" THEN Idle
                                         ELSE [page[p] EXCEPT !.phase = "entities"]]
      BY <2>2, AsksApart DEF ReadLayout, Serves
    <3>2. /\ [page[p] EXCEPT !.phase = "entities"] \in Asks
          /\ [page[p] EXCEPT !.phase = "entities"].run = page[p].run
          /\ [page[p] EXCEPT !.phase = "entities"].phase = "entities" /\ Idle.phase = "idle"
      BY <3>1 DEF Asks, Idle
    <3> QED BY <3>1, <3>2
  <2>3. CASE ReadEntities(p)
    <3>1. /\ page[p] \in Asks /\ page[p].phase = "entities"
          /\ page' = [page EXCEPT ![p] = Asking("built", page[p].run, mine[page[p].run])]
      BY <2>3, AsksApart DEF ReadEntities, Serves
    <3>2. page[p].run \in Runs /\ mine[page[p].run] # "none" /\ mine[page[p].run] \in Recordings
      BY <3>1 DEF PagesOK, Asks
    <3>3. LET request == Asking("built", page[p].run, mine[page[p].run])
          IN request \in Asks /\ mine[request.run] # "none" /\ request.built # "none"
      BY <3>2 DEF Asking, Asks
    <3> QED BY <3>1, <3>3
  <2> QED BY <2>1, <2>2, <2>3
<1>3. page' \in [Pages -> {Idle, [phase |-> "closed"]} \cup Asks]
  BY <1>2 DEF PagesOK
<1>4. (/\ \A q \in Pages : page[q].phase \in {"entities", "built"} => mine[page[q].run] # "none"
       /\ \A q \in Pages : page[q].phase = "built" => page[q].built # "none")'
  <2> SUFFICES ASSUME NEW q \in Pages
               PROVE  /\ page'[q].phase \in {"entities", "built"} => mine[page'[q].run] # "none"
                      /\ page'[q].phase = "built" => page'[q].built # "none"
    BY <1>1
  <2>1. CASE q = p
    BY <1>2, <2>1 DEF PagesOK
  <2>2. CASE q # p
    BY <1>2, <2>2 DEF PagesOK
  <2> QED BY <2>1, <2>2
<1> QED BY <1>1, <1>3, <1>4 DEF PagesOK

\* The views of a run are kept once, and the run asked for first makes way.
LEMMA KeepKeepsPages ==
  ASSUME PagesOK, NEW p \in Pages, Keep(p)
  PROVE  PagesOK'
<1> DEFINE r == page[p].run
           longer == IF views[r] = "none" THEN Append(order, r) ELSE order
           full == Len(longer) > ViewsKept
<1>1. /\ page[p] \in Asks /\ page[p].phase = "built"
      /\ order' = IF full THEN Tail(longer) ELSE longer
      /\ views' = [q \in Runs |->
           IF q = r THEN page[p].built ELSE IF full /\ q = Head(longer) THEN "none" ELSE views[q]]
      /\ page' = [page EXCEPT ![p] = Idle] /\ UNCHANGED mine
  BY AsksApart DEF Keep, Serves, runs
<1>2. /\ r \in Runs /\ mine[r] # "none" /\ page[p].built \in Recordings \ {"none"}
      /\ Len(order) \in Nat /\ ViewsKept \in Nat \ {0}
  BY <1>1, WatchAssumption DEF PagesOK, Asks
<1>3. /\ longer \in Seq(Runs) /\ IsInjective(longer)
      /\ ToSet(longer) = {q \in Runs : views[q] # "none"} \cup {r}
      /\ Len(longer) =< ViewsKept + 1 /\ Len(longer) \in Nat
      /\ full => Head(longer) # r
  <2>1. CASE views[r] = "none"
    <3>1. /\ longer = Append(order, r) /\ longer \in Seq(Runs) /\ Len(longer) = Len(order) + 1
          /\ ToSet(longer) = ToSet(order) \cup {r} /\ r \notin ToSet(order)
      BY <1>2, <2>1, AppendHolds DEF PagesOK
    <3>2. /\ DOMAIN longer = 1 .. (Len(order) + 1) /\ longer[Len(order) + 1] = r
          /\ DOMAIN order = 1 .. Len(order)
          /\ \A i \in 1 .. Len(order) : longer[i] = order[i] /\ order[i] # r
      BY <1>2, <3>1 DEF ToSet, PagesOK
    <3>3. IsInjective(longer)
      <4> SUFFICES ASSUME NEW i \in 1 .. (Len(order) + 1), NEW k \in 1 .. (Len(order) + 1), longer[i] = longer[k]
                   PROVE  i = k
        BY <3>2 DEF IsInjective
      <4>1. CASE i \in 1 .. Len(order) /\ k \in 1 .. Len(order)
        BY <3>2, <4>1 DEF PagesOK, IsInjective
      <4>2. CASE i = Len(order) + 1 \/ k = Len(order) + 1
        BY <1>2, <3>2, <4>2
      <4> QED BY <1>2, <4>1, <4>2
    <3>4. full => Head(longer) # r
      <4>1. SUFFICES ASSUME full PROVE longer[1] # r
        BY <3>1
      <4>2. 1 \in 1 .. Len(order)
        BY <1>2, <3>1, <4>1
      <4> QED BY <3>2, <4>2
    <3> QED BY <1>2, <3>1, <3>3, <3>4 DEF PagesOK
  <2>2. CASE views[r] # "none"
    BY <1>2, <2>2 DEF PagesOK
  <2> QED BY <2>1, <2>2
<1>4. /\ order' \in Seq(Runs) /\ IsInjective(order') /\ Len(order') =< ViewsKept
      /\ ToSet(order') = {q \in Runs : views'[q] # "none"}
  <2>1. CASE full
    <3>1. longer # <<>>
      BY <1>2, <1>3, <2>1
    <3>2. ASSUME NEW s \in Seq(Runs), s # <<>>, IsInjective(s)
          PROVE  /\ Tail(s) \in Seq(Runs) /\ Len(Tail(s)) = Len(s) - 1
                 /\ ToSet(Tail(s)) \cup {Head(s)} = ToSet(s) /\ Head(s) \in ToSet(s)
                 /\ IsInjective(Tail(s)) /\ Head(s) \notin ToSet(Tail(s))
      BY <3>2, TailHolds
    <3>3. /\ Tail(longer) \in Seq(Runs) /\ Len(Tail(longer)) = Len(longer) - 1
          /\ ToSet(Tail(longer)) \cup {Head(longer)} = ToSet(longer)
          /\ Head(longer) \in ToSet(longer)
          /\ IsInjective(Tail(longer)) /\ Head(longer) \notin ToSet(Tail(longer))
      <4> HIDE DEF longer
      <4> QED BY <1>3, <3>1, <3>2
    <3>4. order' = Tail(longer) /\ \A q \in Runs : views'[q] =
            IF q = r THEN page[p].built ELSE IF q = Head(longer) THEN "none" ELSE views[q]
      BY <1>1, <2>1
    <3>5. Len(longer) - 1 =< ViewsKept /\ ViewsKept \in Nat
      BY <1>2, <1>3
    <3> HIDE DEF longer
    <3> QED BY <1>2, <1>3, <2>1, <3>3, <3>4, <3>5
  <2>2. CASE ~full
    BY <1>1, <1>2, <1>3, <2>2
  <2> QED BY <2>1, <2>2
<1>5. views' \in [Runs -> Recordings] /\ \A q \in Runs : views'[q] # "none" => mine[q] # "none"
  BY <1>1, <1>2 DEF PagesOK, Recordings
<1>6. page' \in [Pages -> {Idle, [phase |-> "closed"]} \cup Asks] /\ Idle.phase = "idle"
  BY <1>1 DEF PagesOK, Idle
<1>7. \A q \in Pages : page'[q] = IF q = p THEN Idle ELSE page[q]
  BY <1>1 DEF PagesOK
<1> QED BY <1>1, <1>4, <1>5, <1>6, <1>7 DEF PagesOK

-----------------------------------------------------------------------------
(* The invariant. *)

\* The invariant holds before anything runs.
LEMMA Starts == Init => IInv
<1> SUFFICES ASSUME Init PROVE IInv
  OBVIOUS
<1>1. /\ watcher = [w \in Watchers |-> IF w \in scene.watchers THEN "asked" ELSE "gone"]
      /\ subscribers = {} /\ channel = [w \in Watchers |-> <<>>]
      /\ publishing = [r \in Runs |-> Quiet] /\ settled = [w \in Watchers |-> {}]
  BY DEF Init, HubInit
<1>2. /\ watcher \in [Watchers -> {"asked", "joining", "streaming", "leaving", "gone"}]
      /\ subscribers = {w \in Watchers : watcher[w] \in {"streaming", "leaving"}}
      /\ \A w \in Watchers : channel[w] = <<>> /\ Len(channel[w]) = 0 /\ ToSet(channel[w]) = {}
      /\ channel \in [Watchers -> Seq(Events)]
  BY <1>1 DEF ToSet
<1>3. HubOK
  BY <1>1, <1>2, HubAssumption DEF HubOK, SendsAreOpen, Readers, Quiet
<1>4. RecordOK
  BY <1>1, <1>2 DEF Init, RecordOK, SentIsRecorded, NothingMissed
<1>5. EngineOK
  <2>1. /\ scene \in Scenes /\ cancelled \subseteq Runs
        /\ pc \in [Runs -> {"begin", "layout", "events", "units", "loop", "verdict", "unmeasured",
                           "measured", "over"}]
        /\ cycles \in [Runs -> Nat] /\ lastSeen \in [Runs -> Nat]
    BY DEF Init
  <2>2. decision \in [Runs -> Decisions] /\ \A r \in Runs : lastSeen[r] =< decision[r].at
    BY DEF Init, Decisions
  <2> QED BY <2>1, <2>2 DEF EngineOK
<1>6. order = <<>> /\ order \in Seq(Runs) /\ Len(order) = 0 /\ ToSet(order) = {} /\ IsInjective(order)
  BY DEF Init, ToSet, IsInjective
<1>7. PagesOK
  BY <1>6, WatchAssumption DEF Init, PagesOK, Recordings, Idle
<1> QED BY <1>3, <1>4, <1>5, <1>7 DEF IInv

\* No step of an engine breaks it,
LEMMA EngineKeeps ==
  ASSUME IInv, NEW r \in Runs, Executes(r) \/ Cancel(r) \/ Decides(r)
  PROVE  IInv'
<1>1. (Executes(r) /\ UNCHANGED reread) \/ Cancel(r) \/ Decides(r)
  BY DEF Executes, Begin, SetStatus, SaveMine, Saves, Fails, Cycle, Observe, Drain, LosesAnswer, End
<1>2. RecordOK /\ EngineOK /\ mine \in [Runs -> Recordings]
  BY DEF IInv, PagesOK
<1>3. EngineStep(r)
  BY <1>1, <1>2, ExecuteSteps
<1>4. HubOK' /\ RecordOK'
  <2>1. CASE Silence
    BY <2>1, SilenceKeeps DEF IInv
  <2>2. CASE \E e \in Events : e.run = r /\ Announcement(r, e)
    BY <2>2, AnnouncementKeeps DEF IInv
  <2> QED BY <1>3, <2>1, <2>2 DEF EngineStep
<1>5. EngineOK' /\ PagesOK'
  BY <1>3, RecordingKeepsPages DEF EngineStep, IInv
<1> QED BY <1>4, <1>5 DEF IInv

\* nor any step of the hub's own.
LEMMA HubsKeep ==
  ASSUME HubOK, RecordOK, Hubs, UNCHANGED <<recorded, unheard, reread>>
  PROVE  HubOK' /\ RecordOK'
<1>1. ASSUME NEW r \in Runs, Publishes(r)
      PROVE  HubOK' /\ RecordOK'
  BY <1>1, EnterKeeps, DeliverKeeps DEF Publishes
<1>2. ASSUME NEW w \in Watchers, Ask(w) \/ Locking(w) \/ Receive(w)
      PROVE  HubOK' /\ RecordOK'
  BY <1>2, AskKeeps, SubscribeKeeps, UnsubscribeKeeps, ReceiveKeeps DEF Locking
<1> QED BY <1>1, <1>2 DEF Hubs

\* Every step keeps the invariant.
LEMMA Inductive == IInv /\ [Next]_vars => IInv'
<1> SUFFICES ASSUME IInv, [Next]_vars PROVE IInv'
  OBVIOUS
<1>1. ASSUME UNCHANGED <<runs, pages>>
      PROVE  EngineOK' /\ PagesOK'
  BY <1>1 DEF IInv, EngineOK, PagesOK, runs, pages
<1>2. ASSUME UNCHANGED <<hub, runs, reread>>
      PROVE  HubOK' /\ RecordOK'
  BY <1>2 DEF IInv, HubOK, RecordOK, hub, runs, SendsAreOpen, Readers, SentIsRecorded, NothingMissed,
              OnItsWay
<1>3. ASSUME UNCHANGED <<runs, scene>>
      PROVE  EngineOK'
  BY <1>3 DEF IInv, EngineOK, runs
<1>4. ASSUME NEW r \in Runs, Executes(r) \/ Cancel(r) \/ Decides(r)
      PROVE  IInv'
  BY <1>4, EngineKeeps
<1>5. CASE Hubs /\ UNCHANGED <<runs, reread, pages>>
  <2>1. HubOK' /\ RecordOK'
    BY <1>5, HubsKeep DEF IInv, runs
  <2> QED BY <1>1, <1>5, <2>1 DEF IInv
<1>6. ASSUME NEW w \in Watchers, Reread(w)
      PROVE  IInv'
  <2>1. HubOK' /\ RecordOK'
    BY <1>6, RereadKeeps DEF IInv
  <2> QED BY <1>1, <1>6, <2>1 DEF IInv, Reread
<1>7. ASSUME NEW p \in Pages, (\E r \in Runs : Look(p, r)) \/ ReadLayout(p) \/ ReadEntities(p) \/ Keep(p)
      PROVE  IInv'
  <2>1. UNCHANGED <<hub, runs, reread, scene>>
    BY <1>7 DEF Look, ReadLayout, ReadEntities, Keep, Serves
  <2>2. PagesOK'
    BY <1>7, ReadsKeepPages, KeepKeepsPages DEF IInv
  <2> QED BY <1>2, <1>3, <2>1, <2>2 DEF IInv
<1>8. CASE UNCHANGED vars
  BY <1>1, <1>2, <1>8 DEF vars, IInv
<1> QED BY <1>4, <1>5, <1>6, <1>7, <1>8 DEF Next

\* The hub, the record, the engines and the pages agree at every moment.
THEOREM Invariant == Spec => []IInv
BY Starts, Inductive, PTL DEF Spec

-----------------------------------------------------------------------------
(* What the runs of TLC check on small instances. *)

\* Types included.
LEMMA WhatIsTyped == IInv => TypeOK
<1> SUFFICES ASSUME IInv PROVE TypeOK
  OBVIOUS
<1>1. HubTypeOK
  BY DEF IInv, HubOK, HubTypeOK, Calls
<1> QED BY <1>1 DEF TypeOK, IInv, RecordOK, EngineOK, PagesOK, Events

\* Nobody sends on a closed channel; what a stream is sent of cycles and
\* metrics is in the store by then; and who subscribes and then reads the
\* record has, between the two, all that is recorded of what it watches, but
\* for what the hub dropped and what the run could not know was stored, for
\* any number of runs and watchers and any buffer (events/hub.go, api/runs.go,
\* run/engine.go).
THEOREM Streams == Spec => []StreamsAreTrue
<1>1. IInv => StreamsAreTrue
  BY WhatIsTyped DEF IInv, HubOK, RecordOK, StreamsAreTrue
<1> QED BY <1>1, Invariant, PTL

\* However many requests build the views of however many runs, and whatever
\* bound there is on the cache, its order names each run it has views of once
\* and no more than it keeps, and all of them have a recorded mine (viewCache
\* of internal/api/ground.go).
THEOREM Cache == Spec => []CacheIsSound
<1>1. IInv => CacheIsSound
  <2> SUFFICES ASSUME IInv PROVE CacheIsSound
    OBVIOUS
  <2>1. /\ order \in Seq(Runs) /\ IsInjective(order) /\ Len(order) =< ViewsKept
        /\ ToSet(order) = {r \in Runs : views[r] # "none"}
        /\ \A r \in Runs : views[r] # "none" => mine[r] # "none"
    BY DEF IInv, PagesOK
  <2>2. Cardinality(ToSet(order)) = Len(order)
    BY <2>1, InjectiveCounts
  <2> QED BY <2>1, <2>2 DEF CacheIsSound
<1> QED BY <1>1, Invariant, PTL
=============================================================================
