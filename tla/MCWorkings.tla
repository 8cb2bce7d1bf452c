----------------------------- MODULE MCWorkings ------------------------------
(****************************************************************************)
(* Instances of Workings for TLC: a level with a loop, two levels joined by *)
(* a ramp, a mine with a crosscut that meets nothing, and one nobody works. *)
(****************************************************************************)
EXTENDS Workings

Tunnel(kind, path) == [kind |-> kind, path |-> path]

Level == <<Tunnel("shaft-station", <<<<0, 0, 0>>, <<2, 0, 0>>>>),
           Tunnel("drive", <<<<2, 0, 0>>, <<4, 0, 0>>, <<6, 0, 0>>>>),
           Tunnel("crosscut", <<<<2, 0, 0>>, <<2, 2, 0>>>>),
           Tunnel("crosscut", <<<<4, 0, 0>>, <<4, 2, 0>>>>),
           Tunnel("ore-drive", <<<<2, 2, 0>>, <<4, 2, 0>>, <<6, 2, 0>>>>)>>

TwoLevels == <<Tunnel("shaft", <<<<0, 0, 4>>, <<0, 0, 2>>, <<0, 0, 0>>>>),
               Tunnel("ramp", <<<<4, 0, 2>>, <<4, 0, 0>>>>),
               Tunnel("shaft-station", <<<<0, 0, 2>>, <<2, 0, 2>>>>),
               Tunnel("drive", <<<<2, 0, 2>>, <<4, 0, 2>>>>),
               Tunnel("crosscut", <<<<2, 0, 2>>, <<2, 2, 2>>>>),
               Tunnel("shaft-station", <<<<0, 0, 0>>, <<2, 0, 0>>>>),
               Tunnel("drive", <<<<2, 0, 0>>, <<4, 0, 0>>>>),
               Tunnel("crosscut", <<<<4, 0, 0>>, <<4, 2, 0>>>>)>>

Broken == <<Tunnel("drive", <<<<0, 0, 0>>, <<2, 0, 0>>, <<4, 0, 0>>>>),
            Tunnel("crosscut", <<<<2, 4, 0>>, <<2, 6, 0>>>>),
            Tunnel("access", <<<<4, 0, 0>>, <<4, 2, 0>>, <<0, 2, 0>>, <<0, 0, 0>>>>)>>

Bare == <<Tunnel("ramp", <<<<0, 0, 2>>, <<0, 0, 0>>, <<2, 0, 0>>, <<2, 0, 0>>, <<2, 2, 0>>>>),
          Tunnel("drive", <<<<0, 0, 2>>, <<2, 0, 2>>, <<2, 0, 0>>>>)>>

MCLayouts == {Level, TwoLevels, Broken, Bare}
MCPace  == [u \in Units |-> IF u = "person" THEN 1 ELSE 2]
MCStays == [u \in Units |-> IF u = "person" THEN {9, 24} ELSE {1}]
MCActivities ==
  {[areas |-> 1, rotate |-> 60, start |-> 50, window |-> 20, every |-> 20, clear |-> 6, reentry |-> 12],
   [areas |-> 2, rotate |-> 150, start |-> 30, window |-> 0, every |-> 0, clear |-> 6, reentry |-> 28]}
=============================================================================
