-------------------------------- MODULE Fleet --------------------------------
(****************************************************************************)
(* What a fleet of executors does to a run's work, and all the rest of the  *)
(* service may rely on (queue.Simulator), without levels, orders, deadlines *)
(* or counters.  In an interval every executor gives what is in progress a  *)
(* turn first and then what waits, each job once and for no longer than the *)
(* interval; no executor is idle while work waits; and a job is done when   *)
(* all its seconds were given, and then for good.                           *)
(****************************************************************************)
EXTENDS Integers, FiniteSetsExt

CONSTANTS
  Jobs,    \* all the work a run may ever hold
  Seconds, \* [Jobs -> how long each takes]
  Fleets   \* how many executors there may be

VARIABLES
  place,    \* [Jobs -> coming, waiting, working, due (working, its turn to come) or done]
  left,     \* [Jobs -> seconds still to be given]
  interval, \* how long the interval under way is, 0 between two
  budget    \* the executor-seconds it has left

vars == <<place, left, interval, budget>>

At(where) == {j \in Jobs : place[j] = where}

Init ==
  /\ place = [j \in Jobs |-> "coming"] /\ left = Seconds
  /\ interval = 0 /\ budget = 0

\* Every job of some places goes to another.
All(from, to) == place' = [j \in Jobs |-> IF place[j] = from THEN to ELSE place[j]]

Begin ==
  /\ interval = 0 /\ interval' \in Nat \ {0}
  /\ \E executors \in Fleets : budget' = executors * interval'
  /\ All("working", "due")
  /\ UNCHANGED left

Arrive(j) ==
  /\ place[j] = "coming"
  /\ place' = [place EXCEPT ![j] = "waiting"]
  /\ UNCHANGED <<left, interval, budget>>

\* One executor's share of the interval, as far as the job and the budget go.
Share(j) == Min({interval, left[j], budget})

Serve(j) ==
  /\ budget > 0
  /\ place[j] = "due" \/ (place[j] = "waiting" /\ At("due") = {})
  /\ left' = [left EXCEPT ![j] = @ - Share(j)]
  /\ budget' = budget - Share(j)
  /\ place' = [place EXCEPT ![j] = IF left[j] = Share(j) THEN "done" ELSE "working"]
  /\ UNCHANGED interval

\* A fleet grown too small leaves what is in progress as it is.
Strand ==
  /\ budget = 0
  /\ All("due", "working")
  /\ UNCHANGED <<left, interval, budget>>

End ==
  /\ interval # 0 /\ At("due") = {} /\ (budget = 0 \/ At("waiting") = {})
  /\ interval' = 0 /\ budget' = 0
  /\ UNCHANGED <<place, left>>

Next == Begin \/ Strand \/ End \/ \E j \in Jobs : Arrive(j) \/ Serve(j)

Spec == Init /\ [][Next]_vars
=============================================================================
