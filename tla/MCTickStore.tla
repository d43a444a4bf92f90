----------------------------- MODULE MCTickStore -----------------------------
(* Instances of TickStore for TLC. *)
EXTENDS TickStore, TLC

(* Incidents are interchangeable: no operator orders or chooses among them. *)
IncidentSymmetry == Permutations(Incident)
=============================================================================
