---------------------------- MODULE MCIncidents -----------------------------
(* Small instances of Incidents for TLC. *)
EXTENDS Incidents, TLC

CONSTANTS x1, x2, x3, i1, i2, k1, k2

IncidentsSymmetry == Permutations(IncidentWorker)

\* Three items: one article of two sources, and two publishers.
Articles == (x1 :> "u") @@ (x2 :> "u") @@ (x3 :> "v")
Families == (x1 :> "herald") @@ (x2 :> "herald") @@ (x3 :> "times")
Reports == (x1 :> {i1}) @@ (x2 :> {i1}) @@ (x3 :> {i1})
Manuals == [k \in DecisionKeys |-> Incident \cap {i2}]
=============================================================================
