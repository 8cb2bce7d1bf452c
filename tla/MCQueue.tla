------------------------------- MODULE MCQueue -------------------------------
(****************************************************************************)
(* Instances of Queue for TLC: three or four jobs, one of them longer than  *)
(* an interval; two levels, of which one has a deadline of its own; and     *)
(* intervals of different lengths.                                          *)
(****************************************************************************)
EXTENDS Queue

MCSeconds   == [j \in Jobs |-> CASE j = 0 -> 3 [] j = 2 -> 2 [] OTHER -> 1]
MCLevel     == [j \in Jobs |-> IF j = 1 THEN 2 ELSE 1]
MCExecutors == {-1, 2} \* a fleet, and what Advance takes for none
MCDeadlines == [p \in {2} |-> 0]
=============================================================================
