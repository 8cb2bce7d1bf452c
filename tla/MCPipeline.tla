----------------------------- MODULE MCPipeline ------------------------------
(****************************************************************************)
(* Instances of Pipeline for TLC: an event late picks join, a second one in *)
(* the same window, and every trigger alone or under pressure.              *)
(****************************************************************************)
EXTENDS Pipeline

MCEvents == {1, 2}
MCPicks  == <<3, 2>>
MCOrigin == <<0, 2>>

Trigger(kind, every, deadline, min, max) ==
  [kind |-> kind, every |-> every, deadline |-> deadline, min |-> min, max |-> max,
   backlog |-> 0, floor |-> 0]
UnderPressureOf(t, backlog, floor) == [t EXCEPT !.backlog = backlog, !.floor = floor]

Fixed      == Trigger("fixed", 1, 0, 0, 0)
Patient    == Trigger("when-drained", 0, 3, 0, 0)
JustInTime == Trigger("just-in-time", 0, 2, 0, 0)
Between    == Trigger("adaptive", 0, 0, 1, 3)

MCTriggers == {Trigger("none", 0, 0, 0, 0), Fixed, Patient, JustInTime, Between,
               UnderPressureOf(Patient, 2, 0), UnderPressureOf([Fixed EXCEPT !.every = 3], 2, 1)}
MCValuations == {{}, {1}}
=============================================================================
