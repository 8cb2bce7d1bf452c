--------------------------------- MODULE Hub ---------------------------------
(****************************************************************************)
(* What is happening in a run fanned out to whoever watches it: the Hub of  *)
(* internal/events/hub.go and the event streams internal/api/runs.go serves *)
(* from it.                                                                 *)
(*                                                                          *)
(* Runs publish and requests subscribe and unsubscribe on goroutines of     *)
(* their own, around one sync.RWMutex: publishers share it, a request that  *)
(* waits for it keeps further publishers out, and those who waited while it *)
(* was held go next.  A watcher is one subscription: hub ids are not reused.*)
(****************************************************************************)
EXTENDS Naturals, Sequences

CONSTANTS
  Runs,
  Watchers,   \* the requests for an event stream
  Scope,      \* [Watchers -> the run it is for, or Everything]
  Everything,
  Buffer      \* bufferSize

ASSUME HubAssumption ==
  Scope \in [Watchers -> Runs \cup {Everything}] /\ Everything \notin Runs /\ Buffer \in Nat \ {0}

VARIABLES
  watcher,     \* [Watchers -> where the request has got to]
  subscribers, \* h.subscribers
  channel,     \* [Watchers -> the events sent and not yet received]
  publishing,  \* [Runs -> the call of Publish under way]
  settled      \* [Watchers -> the events it received, lost or read back (history)]

hub == <<watcher, subscribers, channel, publishing, settled>>

Kinds == {"running", "cycle", "metrics", "completed", "cancelled", "failed"}
Event(r, kind, number) == [run |-> r, kind |-> kind, number |-> number]

Quiet == [phase |-> "none"]
Call(phase, event, rest) == [phase |-> phase, event |-> event, rest |-> rest]

HubInit(requests) ==
  /\ watcher = [w \in Watchers |-> IF w \in requests THEN "asked" ELSE "gone"]
  /\ subscribers = {}
  /\ channel = [w \in Watchers |-> <<>>]
  /\ publishing = [r \in Runs |-> Quiet]
  /\ settled = [w \in Watchers |-> {}]

\* Who waits for the lock to change h.subscribers, and who reads under it.
Writers == {w \in Watchers : watcher[w] \in {"joining", "leaving"}}
Readers == {r \in Runs : publishing[r].phase = "sending"}

InScope(w, r) == Scope[w] \in {Everything, r}

Reaches(r, watching) == {w \in watching : InScope(w, r)}
-----------------------------------------------------------------------------
\* Publish, from getting the lock to giving it back; to call it and to return
\* from it changes nothing of the hub.

Sending(event, rest) == IF rest = {} THEN Quiet ELSE Call("sending", event, rest)

Enter(r) ==
  /\ publishing[r].phase = "due" /\ Writers = {}
  /\ publishing' = [publishing EXCEPT ![r] = Sending(@.event, Reaches(r, subscribers))]
  /\ UNCHANGED <<watcher, subscribers, channel, settled>>

Deliver_blocking(r, w) ==
  LET call == publishing[r]
  IN /\ call.phase = "sending" /\ w \in call.rest
     /\ Len(channel[w]) < Buffer
     /\ channel' = [channel EXCEPT ![w] = Append(@, call.event)]
     /\ publishing' = [publishing EXCEPT ![r] = Sending(call.event, call.rest \ {w})]
     /\ UNCHANGED <<watcher, subscribers, settled>>

\* One turn of the loop, in any order of the map: sent, or dropped when full.
Deliver(r, w) ==
  LET call == publishing[r]
  IN /\ call.phase = "sending" /\ w \in call.rest
     /\ \/ /\ Len(channel[w]) < Buffer
           /\ channel' = [channel EXCEPT ![w] = Append(@, call.event)]
           /\ UNCHANGED settled
        \/ /\ Len(channel[w]) >= Buffer
           /\ settled' = [settled EXCEPT ![w] = @ \cup {call.event}]
           /\ UNCHANGED channel
     /\ publishing' = [publishing EXCEPT ![r] = Sending(call.event, call.rest \ {w})]
     /\ UNCHANGED <<watcher, subscribers>>
-----------------------------------------------------------------------------
\* stream: subscribe, pass on what comes, unsubscribe when the client is gone.

Moves(w, from, to) == watcher[w] = from /\ watcher' = [watcher EXCEPT ![w] = to]

\* Subscribe and the function it returns call Lock.
Ask(w) ==
  /\ Moves(w, "asked", "joining") \/ Moves(w, "streaming", "leaving")
  /\ UNCHANGED <<subscribers, channel, publishing, settled>>

\* Unlock lets in every publisher that had called meanwhile: any that is due.
Admit(watching) ==
  \E waiting \in SUBSET {r \in Runs : publishing[r].phase = "due"} :
    publishing' = [r \in Runs |->
      IF r \in waiting THEN Sending(publishing[r].event, Reaches(r, watching)) ELSE publishing[r]]

Subscribe(w) ==
  /\ Readers = {} /\ Moves(w, "joining", "streaming")
  /\ subscribers' = subscribers \cup {w}
  /\ Admit(subscribers')
  /\ UNCHANGED <<channel, settled>>

Unsubscribe_unlocked(w) ==
  /\ Moves(w, "leaving", "gone")
  /\ subscribers' = subscribers \ {w}
  /\ channel' = [channel EXCEPT ![w] = <<>>]
  /\ Admit(subscribers')
  /\ UNCHANGED settled

\* The channel is closed with what it still holds.
Unsubscribe(w) ==
  /\ Readers = {} /\ Moves(w, "leaving", "gone")
  /\ subscribers' = subscribers \ {w}
  /\ channel' = [channel EXCEPT ![w] = <<>>]
  /\ Admit(subscribers')
  /\ UNCHANGED settled

Receive(w) ==
  /\ watcher[w] = "streaming" /\ channel[w] # <<>>
  /\ channel' = [channel EXCEPT ![w] = Tail(@)]
  /\ settled' = [settled EXCEPT ![w] = @ \cup {Head(channel[w])}]
  /\ UNCHANGED <<watcher, subscribers, publishing>>
-----------------------------------------------------------------------------
Publishes(r) == Enter(r) \/ \E w \in Watchers : Deliver(r, w)
Locking(w) == Subscribe(w) \/ Unsubscribe(w)
Hubs == (\E r \in Runs : Publishes(r)) \/ \E w \in Watchers : Ask(w) \/ Locking(w) \/ Receive(w)

HubTypeOK ==
  /\ watcher \in [Watchers -> {"asked", "joining", "streaming", "leaving", "gone"}]
  /\ subscribers = {w \in Watchers : watcher[w] \in {"streaming", "leaving"}}
  /\ \A w \in Watchers : Len(channel[w]) =< Buffer
  /\ \A r \in Runs : publishing[r] = Quiet \/ publishing[r].phase \in {"due", "sending"}
=============================================================================
