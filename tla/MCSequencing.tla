---------------------------- MODULE MCSequencing ----------------------------
(* Small instances of Sequencing for TLC. *)
EXTENDS Sequencing, TLC

EmailThenCall == <<"email", "call">>
EmailOnly == <<"email">>
EmailThenMeet == <<"email", "google_meet">>

Everything == Op \cup {"contact", "sequence", "suppression", "day"}
SuppressionOnly == Op \cup {"suppression"}
Handlers == Op
Sending == {"send_next", "approve"}

OneDomain == [e \in Enrollment |-> "example.com"]

WorkerSymmetry == Permutations(Worker)
EnrollmentSymmetry == Permutations(Worker) \cup Permutations(Enrollment)
=============================================================================
