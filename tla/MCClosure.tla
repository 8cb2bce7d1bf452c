------------------------------ MODULE MCClosure ------------------------------
(****************************************************************************)
(* Instances of Closure for TLC: on a drift of nine places an event whose   *)
(* final location corrects its first, and a second one beside it, while a   *)
(* person and a vehicle pass through their zones, stand in them or turn.    *)
(****************************************************************************)
EXTENDS Closure

MCDrift == 1..9
MCUnits == {"walker", "truck"}
MCKind  == [u \in MCUnits |-> IF u = "walker" THEN "person" ELSE "crewed-vehicle"]

At(t, p) == [at |-> t, point |-> p]
Through  == <<At(0, 1), At(4, 5), At(6, 5), At(9, 8)>>
Leaves   == <<At(1, 4), At(3, 6), At(6, 3)>>
Returns  == <<At(0, 9), At(3, 6), At(4, 7), At(7, 4)>>
Stays    == <<At(0, 4)>>
MCWorlds ==
  {[u \in MCUnits |-> IF u = "walker" THEN w[1] ELSE w[2]] :
     w \in {<<Through, Leaves>>, <<Stays, Returns>>, <<Leaves, Through>>}}

MCEvents      == {1, 2}
MCPicks       == <<3, 2>>
MCOrigin      == <<1, 4>>
MCTruth       == <<4, 7>>
MCTrueZone    == <<1, 1>>
MCScriptedFor == <<"anyone", "walker">>
MCEstimate    ==
  <<[n \in 2..3 |-> IF n = 2 THEN [at |-> 7, reach |-> 2] ELSE [at |-> 4, reach |-> 1]],
    [n \in 2..2 |-> [at |-> 6, reach |-> 1]]>>

Ask(need, window, reaction, extra) ==
  [need |-> need, window |-> window, reaction |-> reaction, extra |-> extra,
   kinds |-> {"person", "crewed-vehicle"}, about |-> MCEvents]
MCQuestions ==
  {Ask("first-location", 6, 1, 0), Ask("warning", 4, 0, 1),
   [Ask("warning", 7, 2, 0) EXCEPT !.kinds = {"person"}, !.about = {1}]}
=============================================================================
