---------------------------- MODULE ReviewPolicy ----------------------------
(***************************************************************************)
(* What stands against a target: the policy gate of scoring                *)
(* (services/scoring/policy.py) and the one of review approval             *)
(* (services/governance/policy.py).  They are two functions over what is   *)
(* meant to be the same facts; the first also looks at the evidence of the *)
(* request, the second only at the snapshot the candidate was stored with. *)
(***************************************************************************)
EXTENDS Rows, Naturals

CORROBORATION_METHODS == {"authoritative_disclosure", "independent_sources", "analyst_decision"}
OriginType == {"security_incident", "cyber_event", "event_participant", "account"}

(***************************************************************************)
(* A stored policy snapshot with the candidate's lineage and origin.       *)
(* suppressed stands for suppressed = true or suppression_allowed = false, *)
(* basis for lawful_basis with lawful_basis_required; "" is a missing key. *)
(***************************************************************************)
ReviewedSnapshot ==
  [lineage : BOOLEAN, origin : OriginType, reuse : {"", "permitted", "unknown", "prohibited"},
   suppressed : BOOLEAN, basis : {"given", "missing", "not_required"},
   retention : {"", "valid", "missing", "expired"}, stale : BOOLEAN,
   incident : {"", "candidate", "corroborated", "rejected"},
   method : CORROBORATION_METHODS \cup {"", "none"}]

\* The facts both gates take from the snapshot in the same way.
SharedBlockers(s) ==
  (IF s.lineage THEN {} ELSE {"missing_source_lineage"})
    \cup (IF s.reuse = "unknown" THEN {"participant_reuse_unknown"} ELSE {})
    \cup (IF s.reuse = "prohibited" THEN {"participant_reuse_prohibited"} ELSE {})
    \cup (IF s.suppressed THEN {"suppression_active"} ELSE {})
    \cup (IF s.basis = "missing" THEN {"missing_lawful_basis"} ELSE {})
    \cup (IF s.retention = "missing" THEN {"retention_missing"} ELSE {})
    \cup (IF s.retention = "expired" THEN {"retention_expired"} ELSE {})

Uncorroborated(origin, status, method) ==
  /\ origin = "security_incident"
  /\ status # "corroborated"
  /\ method \notin CORROBORATION_METHODS

\* governance: review_policy_blockers
review_policy_blockers(s) ==
  SharedBlockers(s)
    \cup (IF s.stale THEN {"stale_evidence"} ELSE {})
    \cup (IF Uncorroborated(s.origin, s.incident, s.method)
            THEN {"incident_not_corroborated"} ELSE {})

\* What the evidence of a scoring request adds: its age in days, if it is known,
\* and the incident's state, which counts where the snapshot does not give it.
NoAge == 10000
ScoredEvidence == [age : Nat, incident : {"", "candidate", "corroborated", "rejected"},
                   method : CORROBORATION_METHODS \cup {"", "none"}]

\* Mutant of policy_blockers_for_score: the snapshot's own mark of stale evidence is not read.
policy_blockers_by_age(s, e, maxAge) ==
  SharedBlockers(s)
    \cup (IF e.age # NoAge /\ e.age > maxAge THEN {"stale_evidence"} ELSE {})
    \cup (IF Uncorroborated(s.origin, OrElse(s.incident, e.incident), OrElse(s.method, e.method))
            THEN {"incident_not_corroborated"} ELSE {})

\* scoring: policy_blockers_for_score, with the snapshot's max_evidence_age_days.
policy_blockers_for_score(s, e, maxAge) ==
  SharedBlockers(s)
    \cup (IF s.stale \/ (e.age # NoAge /\ e.age > maxAge) THEN {"stale_evidence"} ELSE {})
    \cup (IF Uncorroborated(s.origin, OrElse(s.incident, e.incident), OrElse(s.method, e.method))
            THEN {"incident_not_corroborated"} ELSE {})
=============================================================================
