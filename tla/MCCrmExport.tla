---------------------------- MODULE MCCrmExport -----------------------------
(* Small instances of CrmExport for TLC. *)
EXTENDS CrmExport, TLC

RequestSymmetry == Permutations(Worker) \cup Permutations(Batch)
=============================================================================
