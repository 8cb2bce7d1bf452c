------------------------------ MODULE RunRecord ------------------------------
(****************************************************************************)
(* What the record of a run promises to whoever reads the runs table: the   *)
(* status column of internal/store/runs.go and domain.RunStatus, without    *)
(* the service that writes it.  A run is pending when it is created, may be *)
(* seen running, ends once and for good, as cancelled only when somebody    *)
(* asked for that, and disappears when it is deleted.                       *)
(****************************************************************************)
CONSTANT Runs
VARIABLES status, asked
vars == <<status, asked>>

Terminal == {"completed", "failed", "cancelled"} \* RunStatus.Terminal

Init == status = [r \in Runs |-> "none"] /\ asked = {}

Moves(r, from, to) ==
  /\ status[r] \in from
  /\ status' = [status EXCEPT ![r] = to]
  /\ UNCHANGED asked

Create(r) == Moves(r, {"none"}, "pending")
Start(r)  == Moves(r, {"pending"}, "running")

\* Straight from pending when the write of "running" was lost.
End(r) == \E s \in Terminal :
  /\ s = "cancelled" => r \in asked
  /\ Moves(r, {"pending", "running"}, s)

Delete(r) == Moves(r, {"pending", "running"} \cup Terminal, "deleted")

Ask == asked' \in SUBSET Runs /\ asked \subseteq asked' /\ UNCHANGED status

Next == Ask \/ \E r \in Runs : Create(r) \/ Start(r) \/ End(r) \/ Delete(r)
Spec == Init /\ [][Next]_vars
=============================================================================
