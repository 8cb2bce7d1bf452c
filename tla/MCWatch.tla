------------------------------- MODULE MCWatch -------------------------------
(****************************************************************************)
(* Instances of Watch for TLC: a simulation and a live run watched by one   *)
(* stream of the simulation and one of everything, or a simulation and two  *)
(* finished ones, whose ground two pages ask for over and over.             *)
(****************************************************************************)
EXTENDS Watch

CONSTANTS sim, older, oldest, live, one, all, left, right

MCRuns     == {sim, older, oldest, live}
MCLive     == {live}
MCWatchers == {one, all}
MCScope    == [w \in MCWatchers |-> IF w = one THEN sim ELSE Everything]
MCPages    == {left, right}
Scene(flying, ended, streams, asking, failing) ==
  [runs |-> flying, finished |-> ended, watchers |-> streams, pages |-> asking, faults |-> failing]
MCScenes ==
  {Scene({sim}, {}, {one}, {}, TRUE), Scene({live}, {}, {all}, {}, TRUE),
   Scene({sim}, {}, MCWatchers, {}, FALSE), Scene({sim, live}, {}, {all}, {}, FALSE),
   Scene({sim}, {older, oldest}, {}, MCPages, FALSE)}
=============================================================================
