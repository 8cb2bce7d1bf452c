------------------------------ MODULE Catalogue ------------------------------
(****************************************************************************)
(* The mine's catalogue of internal/workload/catalogue.go: which picks of   *)
(* an event are processed, and what location it has from them.              *)
(*                                                                          *)
(* One record per event.  Picks are told apart by nothing but their event,  *)
(* and a location is abstracted to how many of them it was solved from, 0   *)
(* for none; the layout is taken to know every sensor, so that solving      *)
(* fails only for want of picks.                                            *)
(****************************************************************************)
EXTENDS Naturals

CONSTANTS
  Events,       \* the workload's events
  Picks,        \* [Events -> how many sensors detected it]
  MinimumPicks  \* seismic.MinimumPicks, what solving for a location takes

ASSUME CatalogueAssumption ==
  Picks \in [Events -> Nat] /\ MinimumPicks \in Nat \ {0}

\* An instant, or 0 for a time the record does not have yet.
EventRecord(Instant) ==
  [processed: Nat, processedAt: Instant, locatedAt: Instant, located: Nat, final: Nat]

Unprocessed == [processed |-> 0, processedAt |-> 0, locatedAt |-> 0, located |-> 0, final |-> 0]

NewCatalogue == [e \in Events |-> Unprocessed]

Remaining(e, record)    == Picks[e] - record.processed
AllProcessed(e, record) == Remaining(e, record) = 0
CanLocate_more(record)  == record.processed > MinimumPicks
CanLocate(record)       == record.processed >= MinimumPicks

\* The first location is when an operator first had somewhere to point.
First(record, at) ==
  IF record.locatedAt = 0
  THEN [record EXCEPT !.locatedAt = at, !.located = record.processed] ELSE record

\* solve: the first location is kept, the final one is from every pick.
Solve(e, record, at) ==
  IF ~CanLocate(record) THEN record
  ELSE LET known == First(record, at) IN
       IF AllProcessed(e, record) THEN [known EXCEPT !.final = record.processed] ELSE known

\* What Observe makes of one event's record when n more picks of it finished.
Observe(e, record, n, at, deferred) ==
  LET counted == [record EXCEPT !.processed = @ + n]
      timed == IF counted.processedAt = 0 /\ AllProcessed(e, counted)
               THEN [counted EXCEPT !.processedAt = at] ELSE counted
  IN IF n = 0 THEN record ELSE IF deferred THEN timed ELSE Solve(e, timed, at)

\* What Locate makes of it when its locate job finished.
Locate(e, record, located, at) ==
  IF e \in located THEN Solve(e, record, at) ELSE record
=============================================================================
