--------------------------- MODULE MCIntentControl ---------------------------
(****************************************************************************)
(* Instances of IntentControl for TLC: one field's patches are valid or not *)
(* depending on the other's, and a schedule changes both.                   *)
(****************************************************************************)
EXTENDS IntentControl

Set(f, n) == [x \in {f} |-> n]

MCInitial == [f \in Fields |-> IF f = "decay_to" THEN 0 ELSE 1]
MCPatches == {Set("decay_to", 1), Set("promote_to", 1), Set("promote_to", 3)}
MCPlanned ==
  <<[cycle |-> 2, patch |-> Set("promote_to", 2), version |-> 0, source |-> "schedule"],
    [cycle |-> 3, patch |-> Set("decay_to", 1), version |-> 0, source |-> "schedule"]>>
MCNothing == <<>>
=============================================================================
