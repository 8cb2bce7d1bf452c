------------------------------- MODULE MCRuns --------------------------------
(****************************************************************************)
(* Instances of Runs for TLC: a simulation and a live run, each of which    *)
(* fails, is cancelled, deleted or killed at any point.                     *)
(****************************************************************************)
EXTENDS Runs

CONSTANTS sim, live

MCBoth == {sim, live}
MCSim  == {sim}
MCLive == {live}
MCNone == {}

\* One process, from its start to its shutdown.
WorkSpec == Init /\ [][Work]_vars

\* One run, of either kind, over the process's lives: the others are never asked
\* for.  Fairness is of nothing that asks for one.
Alone == \A r, s \in Runs : handler[r] # "none" /\ handler[s] # "none" => r = s
LifeNext ==
  \/ \E r \in Runs : Request(r) /\ Alone'
  \/ \E r \in Runs : Handler(r) \/ Engine(r) \/ AutoscalerCreates(r)
  \/ Stream
  \/ Shutdown
  \/ Restarts
LifeSpec == Init /\ [][LifeNext]_vars /\ Fairness
=============================================================================
