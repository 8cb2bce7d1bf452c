------------------------------ MODULE MCPlanner ------------------------------
(****************************************************************************)
(* Instances of Planner for TLC: on a drift of nine places a person walks   *)
(* past the first event while a vehicle drives past the second, or leaves   *)
(* where the first has struck; the settings differ in all that decides a  *)
(* judgement.                                                               *)
(****************************************************************************)
EXTENDS Planner

MCDrift == 1..9
MCUnits == {"walker", "truck"}
MCKind  == [u \in MCUnits |-> IF u = "walker" THEN "person" ELSE "crewed-vehicle"]

At(t, p) == [at |-> t, point |-> p]
Walks    == <<At(0, 3), At(2, 3), At(5, 6)>>
Leaves   == <<At(0, 4), At(4, 8)>>
Drives   == <<At(1, 2), At(4, 8)>>
MCWorlds ==
  {[u \in MCUnits |-> IF u = "walker" THEN Walks ELSE Drives],
   [u \in MCUnits |-> IF u = "walker" THEN Leaves ELSE <<At(0, 9)>>]}

MCEvents    == {1, 2}
MCPicks     == <<3, 1>>
MCOrigin    == <<0, 1>>
MCTruth     == <<3, 7>>
MCSize      == <<1, 1>>
MCTriggers  == <<<<2, 4, 4>>, <<7>>>>
MCEstimates == <<{[at |-> 5, magnitude |-> 1]}, {}>>
MCJobs      == {<<1, 1>>, <<1, 2>>, <<1, 3>>, <<2, 1>>}
MCSubmitted == [j \in MCJobs |-> IF j = <<1, 2>> THEN 2 ELSE 1]
MCZones     == [z \in {1} \X Levels |->
                  IF z[2] = "moderate" THEN z[1] ELSE IF z[2] = "high" THEN z[1] - 1 ELSE Unreached]

\* DefaultIntent, and what operators make of it.
Default ==
  [mode |-> "decay", knowledge |-> "estimate", preLocation |-> FALSE, preMagnitude |-> 1,
   protect |-> {"person", "crewed-vehicle"}, lookahead |-> 1,
   protectLevel |-> "moderate", promoteLevel |-> "high", margin |-> 0, uncertainty |-> 0,
   decayTo |-> 0, promoteTo |-> 2, restore |-> TRUE, exempt |-> {"restored"}]
Off    == [Default EXCEPT !.mode = "off"]
Oracle == [Default EXCEPT !.mode = "both", !.knowledge = "truth", !.exempt = {"promoted", "restored"}]
Early  == [Default EXCEPT !.preLocation = TRUE, !.protect = {"crewed-vehicle"}, !.uncertainty = 1,
                         !.restore = FALSE]

MCSettings == {Default, Off, Oracle, Early}
=============================================================================
