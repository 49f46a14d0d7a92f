----------------------------- MODULE Governance -----------------------------
(***************************************************************************)
(* Review governance (services/governance): analysts decide on review      *)
(* candidates one by one or in bulk, an approval creates a CRM target,     *)
(* suppressions are added.  A decision names the version of the row it was *)
(* made on; the version is compared when the row is read, not when it is   *)
(* written.  Decisions on incidents are in module Incidents.               *)
(***************************************************************************)
EXTENDS Rows, ReviewPolicy, Sequences

CONSTANTS
  Candidate,     \* review_candidates rows
  Key,           \* Idempotency-Key headers
  Analyst,       \* concurrently running requests
  Snapshot,      \* the policy snapshot of each candidate
  Bulk,          \* sets of candidates of one type and one policy snapshot
  MaxRevision    \* bound: version of a candidate or target

ASSUME GovernanceAssumption ==
  /\ Snapshot \in [Candidate -> ReviewedSnapshot]
  /\ Bulk \subseteq SUBSET Candidate
  /\ MaxRevision \in Nat
  /\ "nothing" \notin Candidate

VARIABLES
  candidate,    \* review_candidates
  decision,     \* review_decisions, by idempotency key
  crmTarget,    \* crm_targets, by the key of the decision that created them
  suppression,  \* suppressions, by idempotency key
  audited,      \* idempotency keys in audit_events
  racing,       \* history: two requests have been open at the same time
  gtx           \* the transaction each analyst's request is in

gvars == <<candidate, decision, crmTarget, suppression, audited, racing, gtx>>
-----------------------------------------------------------------------------
(* Rows *)

CandidateStatus == {"none", "open", "approved", "rejected"}

\* A decision of its own has the request's key, one of a bulk request <key>:<candidate>.
DecisionKey == {<<k>> : k \in Key} \cup (Key \X Candidate)
Undecided == [on |-> "nothing", verdict |-> "none"]

ReviewCandidate == [status : CandidateStatus, version : 1..MaxRevision]
ReviewDecision == [on : Candidate, verdict : {"approved", "rejected"}]
CrmTargetRow == [status : {"pending_export", "invalidated"}, version : 1..MaxRevision]
Suppression == {"none", "active", "inactive", "expired"}

NoTarget == [status |-> "none", version |-> 1]
Reading == [op |-> "idle"]

\* Every row has its type: a candidate is open, approved or rejected, and a decision is
\* about a candidate.
GovernanceTypeOK ==
  /\ candidate \in [Candidate -> ReviewCandidate]
  /\ decision \in [DecisionKey -> ReviewDecision \cup {Undecided}]
  /\ crmTarget \in [DecisionKey -> CrmTargetRow \cup {NoTarget}]
  /\ suppression \in [Key -> Suppression]

GovernanceInit ==
  /\ candidate = [c \in Candidate |-> [status |-> "none", version |-> 1]]
  /\ decision = [k \in DecisionKey |-> Undecided]
  /\ crmTarget = [k \in DecisionKey |-> NoTarget]
  /\ suppression = [k \in Key |-> "none"]
  /\ audited = {}
  /\ racing = FALSE
  /\ gtx = [a \in Analyst |-> Reading]

\* The request of a holds t, or has ended when t is Reading.
Holds(a, t) ==
  /\ gtx' = [gtx EXCEPT ![a] = t]
  /\ racing' = (racing \/ (t # Reading /\ \E b \in Analyst \ {a} : gtx[b] # Reading))

\* The transaction fails on a unique key, or its process dies.
GovernanceRollback(a) ==
  /\ gtx[a] # Reading
  /\ Holds(a, Reading)
  /\ UNCHANGED <<candidate, decision, crmTarget, suppression, audited>>
-----------------------------------------------------------------------------
(* Review candidates *)

\* _request_review and _request_score_review: an existing candidate is returned as it is.
RequestReview(c) ==
  /\ candidate[c].status = "none"
  /\ candidate' = [candidate EXCEPT ![c].status = "open"]
  /\ UNCHANGED <<decision, crmTarget, suppression, audited, racing, gtx>>

\* The keys of the decisions a request makes.
DecisionKeys(k, cs, bulk) == IF bulk THEN {<<k, c>> : c \in cs} ELSE {<<k>>}
DecidedBy(key, cs) == IF Len(key) = 2 THEN key[2] ELSE CHOOSE c \in cs : TRUE

\* Mutant of ReviewPolicyBlockers: the snapshot is not consulted.
ReviewPolicyBlockersIgnored(c) == {}

\* review_policy_blockers: what the candidate's own snapshot says against an approval.
ReviewPolicyBlockers(c) == review_policy_blockers(Snapshot[c])

\* _validate_candidate_decision; the request names the version the analyst looked at.
ValidateCandidateDecision(c, version) ==
  /\ candidate[c].status = "open"
  /\ candidate[c].version = version
  /\ version < MaxRevision

(***************************************************************************)
(* approve_review_candidate, reject_review_candidate and                   *)
(* bulk_decide_review_candidates up to their flush.  A bulk request fails  *)
(* as a whole when one of its candidates cannot be decided.                *)
(***************************************************************************)
DecideRead(a, k, cs, bulk, verdict) ==
  /\ gtx[a] = Reading
  /\ \A key \in DecisionKeys(k, cs, bulk) : decision[key] = Undecided
  /\ \A c \in cs : ValidateCandidateDecision(c, candidate[c].version)
  /\ verdict = "approved" => \A c \in cs : ReviewPolicyBlockers(c) = {}
  /\ Holds(a, [op |-> "decide", keys |-> DecisionKeys(k, cs, bulk), cs |-> cs,
               verdict |-> verdict, seen |-> [c \in cs |-> candidate[c]]])
  /\ UNCHANGED <<candidate, decision, crmTarget, suppression, audited>>

\* Mutant of CreateCrmTargets: every decision has a target.
CreateCrmTargetsAlways(keys, verdict) ==
  crmTarget' = [k \in DecisionKey |->
    IF k \in keys THEN [status |-> "pending_export", version |-> 1]
                  ELSE crmTarget[k]]

\* _create_crm_target
CreateCrmTargets(keys, verdict) ==
  crmTarget' = [k \in DecisionKey |->
    IF k \in keys /\ verdict = "approved"
      THEN [status |-> "pending_export", version |-> 1] ELSE crmTarget[k]]

\* The flushes and the commit: candidates, decisions, audit entries and targets.
DecideCommit(a) ==
  LET t == gtx[a]
  IN /\ t.op = "decide"
     /\ KeysFree(t.keys, audited)
     /\ candidate' = [c \in Candidate |->
          IF c \in t.cs
            THEN Merge(t.seen[c], [status |-> t.verdict, version |-> t.seen[c].version + 1],
                       candidate[c])
            ELSE candidate[c]]
     /\ decision' = [k \in DecisionKey |->
          IF k \in t.keys THEN [on |-> DecidedBy(k, t.cs), verdict |-> t.verdict]
                          ELSE decision[k]]
     /\ CreateCrmTargets(t.keys, t.verdict)
     /\ audited' = audited \cup t.keys
     /\ Holds(a, Reading)
     /\ UNCHANGED suppression

\* update_review_candidate reads a candidate, decided or not, without a version.
EditRead(a, c) ==
  /\ gtx[a] = Reading
  /\ candidate[c].status # "none"
  /\ candidate[c].version < MaxRevision
  /\ Holds(a, [op |-> "edit", c |-> c, seen |-> candidate[c]])
  /\ UNCHANGED <<candidate, decision, crmTarget, suppression, audited>>

\* Mutant of EditCommit: the row is written as it was read.
EditCommitWhole(a) ==
  LET t == gtx[a]
  IN /\ t.op = "edit"
     /\ candidate' = [candidate EXCEPT ![t.c] = [t.seen EXCEPT !.version = @ + 1]]
     /\ Holds(a, Reading)
     /\ UNCHANGED <<decision, crmTarget, suppression, audited>>

\* ... and writes its evidence and version.
EditCommit(a) ==
  LET t == gtx[a]
  IN /\ t.op = "edit"
     /\ candidate' = [candidate EXCEPT ![t.c] =
                        Merge(t.seen, [t.seen EXCEPT !.version = @ + 1], @)]
     /\ Holds(a, Reading)
     /\ UNCHANGED <<decision, crmTarget, suppression, audited>>
-----------------------------------------------------------------------------
(* CRM targets *)

\* update_crm_target reads a target; its status may be set back by hand.
TargetRead(a, k, status) ==
  /\ gtx[a] = Reading
  /\ crmTarget[k] # NoTarget
  /\ crmTarget[k].version < MaxRevision
  /\ Holds(a, [op |-> "target", key |-> k, status |-> status, seen |-> crmTarget[k]])
  /\ UNCHANGED <<candidate, decision, crmTarget, suppression, audited>>

\* The audit key names target and version: of two updates of one version one fails.
TargetUpdateKey(k, version) == <<"crm-target.update", k, version>>
TargetCommit(a) ==
  LET t == gtx[a]
      row == [status |-> t.status, version |-> t.seen.version + 1]
  IN /\ t.op = "target"
     /\ TargetUpdateKey(t.key, row.version) \notin audited
     /\ crmTarget' = [crmTarget EXCEPT ![t.key] = Merge(t.seen, row, @)]
     /\ audited' = audited \cup {TargetUpdateKey(t.key, row.version)}
     /\ Holds(a, Reading)
     /\ UNCHANGED <<candidate, decision, suppression>>
-----------------------------------------------------------------------------
(* Suppressions *)

\* create_suppression.  Its audit key is the one a decision under the same key has.
CreateSuppression(k, active) ==
  /\ suppression[k] = "none"
  /\ <<k>> \notin audited
  /\ suppression' = [suppression EXCEPT ![k] = IF active THEN "active" ELSE "inactive"]
  /\ audited' = audited \cup {<<k>>}
  /\ UNCHANGED <<candidate, decision, crmTarget, racing, gtx>>

\* The clock passes expires_at: no query finds the suppression any more.
SuppressionExpires(k) ==
  /\ suppression[k] = "active"
  /\ suppression' = [suppression EXCEPT ![k] = "expired"]
  /\ UNCHANGED <<candidate, decision, crmTarget, audited, racing, gtx>>
-----------------------------------------------------------------------------
(* The routes of the governance service; whatever they refuse changes nothing. *)

review_candidate_approve(a) ==
  \E k \in Key, c \in Candidate : DecideRead(a, k, {c}, FALSE, "approved")
review_candidate_reject(a) ==
  \E k \in Key, c \in Candidate : DecideRead(a, k, {c}, FALSE, "rejected")
review_candidates_bulk_decision(a) ==
  \E k \in Key, cs \in Bulk, verdict \in {"approved", "rejected"} :
    DecideRead(a, k, cs, TRUE, verdict)
review_candidate_update(a) == \E c \in Candidate : EditRead(a, c)
crm_target_update(a) ==
  \E k \in DecisionKey, status \in {"pending_export", "invalidated"} : TargetRead(a, k, status)
suppression_create == \E k \in Key, active \in BOOLEAN : CreateSuppression(k, active)

GovernanceNext ==
  \/ \E a \in Analyst :
       \/ review_candidate_approve(a) \/ review_candidate_reject(a)
       \/ review_candidates_bulk_decision(a) \/ review_candidate_update(a)
       \/ crm_target_update(a)
       \/ DecideCommit(a) \/ EditCommit(a) \/ TargetCommit(a)
       \/ GovernanceRollback(a)
  \/ suppression_create
  \/ \E c \in Candidate : RequestReview(c)
  \/ \E k \in Key : SuppressionExpires(k)

GovernanceSpec == GovernanceInit /\ [][GovernanceNext]_gvars
-----------------------------------------------------------------------------
(* Properties *)

(***************************************************************************)
(* A candidate somebody has decided on is never open again, whatever edits *)
(* and other decisions had read it before.                                 *)
(***************************************************************************)
DecidedIsClosed ==
  \A k \in DecisionKey, c \in Candidate :
    decision[k].on = c => candidate[c].status \in {"approved", "rejected"}

(***************************************************************************)
(* A CRM target exists exactly for the approvals of review candidates, and *)
(* for none whose policy snapshot has blockers: also in bulk, and when a   *)
(* request reuses the key of another one or of a suppression.              *)
(***************************************************************************)
TargetIsApproved ==
  \A k \in DecisionKey :
    /\ crmTarget[k] # NoTarget <=> decision[k].verdict = "approved"
    /\ crmTarget[k] # NoTarget => review_policy_blockers(Snapshot[decision[k].on]) = {}

(***************************************************************************)
(* A candidate is decided once, under however many keys requests come; but *)
(* of two requests that overlap both may find it open.                     *)
(***************************************************************************)
DecidedOnce ==
  ~racing => \A c \in Candidate, k, l \in DecisionKey :
               decision[k].on = c /\ decision[l].on = c => k = l
=============================================================================
