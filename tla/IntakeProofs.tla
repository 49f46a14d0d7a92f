--------------------------- MODULE IntakeProofs -----------------------------
(***************************************************************************)
(* From sources to decisions: proofs about the review of candidates, the   *)
(* source registry, the times of events and event intelligence.            *)
(***************************************************************************)
EXTENDS Governance, Sources, Events, TLAPS
-----------------------------------------------------------------------------
(* Review governance, for any number of candidates, keys and requests.     *)

\* Merge keeps the columns a transaction has not changed, and writes the others.
LEMMA MergeColumn ==
  ASSUME NEW seen, NEW mine, NEW now, NEW c \in DOMAIN now
  PROVE  /\ DOMAIN Merge(seen, mine, now) = DOMAIN now
         /\ mine[c] = seen[c] => Merge(seen, mine, now)[c] = now[c]
         /\ mine[c] # seen[c] => Merge(seen, mine, now)[c] = mine[c]
BY Zenon DEF Merge

\* The keys of a request are decision keys, and each decides on a candidate of its own.
LEMMA KeysDecide ==
  ASSUME NEW k \in Key, NEW cs \in SUBSET Candidate, NEW bulk \in BOOLEAN,
         ~bulk => \E c \in cs : cs = {c}
  PROVE  /\ DecisionKeys(k, cs, bulk) \subseteq DecisionKey
         /\ \A key \in DecisionKeys(k, cs, bulk) : DecidedBy(key, cs) \in cs
         /\ \A key, other \in DecisionKeys(k, cs, bulk) :
              DecidedBy(key, cs) = DecidedBy(other, cs) => key = other
<1>1. CASE bulk
  <2>1. DecisionKeys(k, cs, bulk) = {<<k, c>> : c \in cs}
    BY <1>1, Zenon DEF DecisionKeys
  <2>2. \A c \in cs : Len(<<k, c>>) = 2 /\ <<k, c>>[2] = c /\ <<k, c>> \in DecisionKey
    BY Zenon DEF DecisionKey
  <2>3. \A c \in cs : DecidedBy(<<k, c>>, cs) = c
    BY <2>2, Zenon DEF DecidedBy
  <2>. QED
    BY <2>1, <2>2, <2>3, ZenonT(60)
<1>2. CASE ~bulk
  <2>1. PICK c \in cs : cs = {c}
    BY <1>2, Zenon
  <2>2. DecisionKeys(k, cs, bulk) = {<<k>>} /\ <<k>> \in DecisionKey /\ Len(<<k>>) = 1
    BY <1>2, Zenon DEF DecisionKeys, DecisionKey
  <2>3. DecidedBy(<<k>>, cs) \in cs
    BY <2>1, <2>2 DEF DecidedBy
  <2>. QED
    BY <2>2, <2>3, Zenon
<1>. QED
  BY <1>1, <1>2, Zenon

(***************************************************************************)
(* The inductive invariant.  A decision that is under way read its         *)
(* candidates open and checked their snapshots, which do not change; its   *)
(* keys decide on them.  A target an update has read is there to stay, and *)
(* a key that has been used is audited.                                    *)
(***************************************************************************)
Closed == {"approved", "rejected"}

\* What the committed rows say of one another.
RowFacts ==
  /\ \A c \in Candidate : DOMAIN candidate[c] = {"status", "version"}
  /\ DOMAIN candidate = Candidate /\ DOMAIN decision = DecisionKey
  /\ DOMAIN crmTarget = DecisionKey /\ DOMAIN gtx = Analyst
  /\ \A k \in DecisionKey :
       crmTarget[k] # NoTarget =>
         /\ DOMAIN crmTarget[k] = {"status", "version"}
         /\ crmTarget[k].status \in {"pending_export", "invalidated"}
  /\ \A k \in DecisionKey : decision[k] # Undecided => k \in audited /\ decision[k].on \in Candidate

\* What a request that decides has read, and is about to write.
DecideFacts(t) ==
  /\ t.cs \subseteq Candidate /\ t.keys \subseteq DecisionKey
  /\ t.verdict \in Closed
  /\ \A c \in t.cs : t.seen[c].status = "open"
  /\ \A key \in t.keys : DecidedBy(key, t.cs) \in t.cs
  /\ \A key, other \in t.keys : DecidedBy(key, t.cs) = DecidedBy(other, t.cs) => key = other
  /\ t.verdict = "approved" => \A c \in t.cs : ReviewPolicyBlockers(c) = {}

\* What is known of any open request.
RequestFacts(t) ==
  /\ t.op \in {"idle", "decide", "edit", "target"}
  /\ t.op = "decide" => DecideFacts(t)
  /\ t.op = "edit" => t.c \in Candidate /\ DOMAIN t.seen = {"status", "version"}
  /\ t.op = "target" => /\ t.key \in DecisionKey /\ crmTarget[t.key] # NoTarget
                        /\ t.status \in {"pending_export", "invalidated"}

\* The inductive invariant of governance.
GovernanceInv ==
  /\ RowFacts
  /\ DecidedIsClosed
  /\ TargetIsApproved
  /\ \A a \in Analyst : RequestFacts(gtx[a])

\* It holds at the start.
LEMMA GovernanceInitial == GovernanceInit => GovernanceInv
<1>. SUFFICES ASSUME GovernanceInit PROVE GovernanceInv
  BY Zenon
<1>1. RowFacts
  BY Zenon DEF GovernanceInit, RowFacts
<1>2. DecidedIsClosed /\ TargetIsApproved
  BY GovernanceAssumption, Zenon DEF GovernanceInit, DecidedIsClosed, TargetIsApproved, Undecided
<1>3. \A a \in Analyst : RequestFacts(gtx[a])
  BY Zenon DEF GovernanceInit, RequestFacts, Reading
<1>. QED
  BY <1>1, <1>2, <1>3, Zenon DEF GovernanceInv

\* A request reads, or ends, and the rows stay as they are.
LEMMA RequestTurns ==
  ASSUME GovernanceInv, NEW a \in Analyst, NEW t, RequestFacts(t), Holds(a, t),
         UNCHANGED <<candidate, decision, crmTarget, audited>>
  PROVE  GovernanceInv'
<1>1. \A b \in Analyst : gtx'[b] = IF b = a THEN t ELSE gtx[b]
  BY Zenon DEF Holds, GovernanceInv, RowFacts
<1>2. RowFacts'
  BY Zenon DEF GovernanceInv, RowFacts, Holds
<1>3. \A b \in Analyst : RequestFacts(gtx[b])'
  BY <1>1 DEF GovernanceInv, RequestFacts, DecideFacts
<1>. QED
  BY <1>2, <1>3, Zenon DEF GovernanceInv, DecidedIsClosed, TargetIsApproved

\* A worker without a request promises nothing.
LEMMA IdleIsFine == RequestFacts(Reading)
BY Zenon DEF RequestFacts, Reading

\* The commit of a decision: its candidates are closed, its keys have decisions, and targets
\* where it approves.
LEMMA DecideCommits ==
  ASSUME GovernanceInv, NEW a \in Analyst, DecideCommit(a)
  PROVE  GovernanceInv'
<1>. DEFINE t == gtx[a]
<1>1. /\ t.op = "decide" /\ DecideFacts(t) /\ t.keys \cap audited = {}
      /\ gtx' = [gtx EXCEPT ![a] = Reading] /\ audited' = audited \cup t.keys
  BY Zenon DEF DecideCommit, GovernanceInv, RequestFacts, KeysFree, Holds
<1>2. /\ DOMAIN candidate' = Candidate
      /\ \A c \in Candidate : c \in t.cs => candidate'[c] =
           Merge(t.seen[c], [status |-> t.verdict, version |-> t.seen[c].version + 1], candidate[c])
      /\ \A c \in Candidate : c \notin t.cs => candidate'[c] = candidate[c]
  BY Zenon DEF DecideCommit
<1>3. /\ DOMAIN decision' = DecisionKey
      /\ \A k \in DecisionKey : decision'[k] =
           IF k \in t.keys THEN [on |-> DecidedBy(k, t.cs), verdict |-> t.verdict] ELSE decision[k]
  BY Zenon DEF DecideCommit
<1>4. /\ DOMAIN crmTarget' = DecisionKey
      /\ \A k \in DecisionKey : crmTarget'[k] =
           IF k \in t.keys /\ t.verdict = "approved"
             THEN [status |-> "pending_export", version |-> 1] ELSE crmTarget[k]
  BY Zenon DEF DecideCommit, CreateCrmTargets
<1>. HIDE DEF t
<1>5. \A c \in Candidate :
        /\ DOMAIN candidate'[c] = {"status", "version"}
        /\ c \in t.cs => candidate'[c].status = t.verdict
  <2>. SUFFICES ASSUME NEW c \in Candidate
                PROVE  /\ DOMAIN candidate'[c] = {"status", "version"}
                       /\ c \in t.cs => candidate'[c].status = t.verdict
    BY Zenon
  <2>1. DOMAIN candidate[c] = {"status", "version"}
    BY Zenon DEF GovernanceInv, RowFacts
  <2>2. CASE c \in t.cs
    <3>. DEFINE mine == [status |-> t.verdict, version |-> t.seen[c].version + 1]
    <3>1. mine["status"] = t.verdict /\ t.seen[c]["status"] = "open" /\ t.verdict # "open"
      BY <1>1, <2>2, Zenon DEF DecideFacts, Closed
    <3>. HIDE DEF mine
    <3>2. candidate'[c] = Merge(t.seen[c], mine, candidate[c])
      BY <1>2, <2>2, Zenon DEF mine
    <3>3. /\ DOMAIN Merge(t.seen[c], mine, candidate[c]) = DOMAIN candidate[c]
          /\ Merge(t.seen[c], mine, candidate[c])["status"] = mine["status"]
      BY <2>1, <3>1, MergeColumn
    <3>. QED
      BY <2>1, <3>1, <3>2, <3>3, Zenon
  <2>3. CASE c \notin t.cs
    BY <1>2, <2>1, <2>3, Zenon
  <2>. QED
    BY <2>2, <2>3, Zenon
<1>6. \A k \in DecisionKey : k \in t.keys => decision[k] = Undecided /\ crmTarget[k] = NoTarget
  BY <1>1 DEF GovernanceInv, RowFacts, TargetIsApproved, Undecided
<1>7. \A k \in DecisionKey : crmTarget[k] # NoTarget => crmTarget'[k] # NoTarget
  BY <1>4, <1>6, Zenon
<1>8. RowFacts'
  <2>1. \A k \in DecisionKey : crmTarget'[k] # NoTarget =>
          /\ DOMAIN crmTarget'[k] = {"status", "version"}
          /\ crmTarget'[k].status \in {"pending_export", "invalidated"}
    BY <1>4 DEF GovernanceInv, RowFacts
  <2>2. \A k \in DecisionKey : decision'[k] # Undecided =>
          k \in audited' /\ decision'[k].on \in Candidate
    BY <1>1, <1>3 DEF GovernanceInv, RowFacts, DecideFacts
  <2>. QED
    BY <1>1, <1>2, <1>3, <1>4, <1>5, <2>1, <2>2, Zenon DEF GovernanceInv, RowFacts
<1>9. DecidedIsClosed'
  <2>. SUFFICES ASSUME NEW k \in DecisionKey, NEW c \in Candidate, decision'[k].on = c
                PROVE  candidate'[c].status \in {"approved", "rejected"}
    BY Zenon DEF DecidedIsClosed
  <2>1. CASE c \in t.cs
    BY <1>1, <1>5, <2>1, Zenon DEF DecideFacts, Closed
  <2>2. CASE c \notin t.cs
    <3>1. decision[k].on = c
      BY <1>1, <1>3, <2>2 DEF DecideFacts
    <3>. QED
      BY <1>2, <2>2, <3>1, Zenon DEF GovernanceInv, DecidedIsClosed
  <2>. QED
    BY <2>1, <2>2, Zenon
<1>10. TargetIsApproved'
  <2>. SUFFICES ASSUME NEW k \in DecisionKey
                PROVE  /\ crmTarget'[k] # NoTarget <=> decision'[k].verdict = "approved"
                       /\ crmTarget'[k] # NoTarget =>
                            review_policy_blockers(Snapshot[decision'[k].on]) = {}
    BY Zenon DEF TargetIsApproved
  <2>1. CASE k \in t.keys
    <3>1. decision'[k].verdict = t.verdict /\ decision'[k].on \in t.cs
      BY <1>1, <1>3, <2>1 DEF DecideFacts
    <3>2. crmTarget'[k] # NoTarget <=> t.verdict = "approved"
      BY <1>4, <1>6, <2>1 DEF NoTarget
    <3>3. t.verdict = "approved" => review_policy_blockers(Snapshot[decision'[k].on]) = {}
      BY <1>1, <3>1, Zenon DEF DecideFacts, ReviewPolicyBlockers
    <3>. QED
      BY <3>1, <3>2, <3>3, Zenon
  <2>2. CASE k \notin t.keys
    BY <1>3, <1>4, <2>2, Zenon DEF GovernanceInv, TargetIsApproved
  <2>. QED
    BY <2>1, <2>2, Zenon
<1>11. ASSUME NEW b \in Analyst PROVE RequestFacts(gtx[b])'
  <2>1. gtx'[b] = IF b = a THEN Reading ELSE gtx[b]
    BY <1>1, Zenon DEF GovernanceInv, RowFacts
  <2>2. CASE b = a
    BY <2>1, <2>2 DEF RequestFacts, Reading
  <2>3. CASE b # a
    BY <1>7, <2>1, <2>3 DEF GovernanceInv, RequestFacts, DecideFacts
  <2>. QED
    BY <2>2, <2>3, Zenon
<1>. QED
  BY <1>8, <1>9, <1>10, <1>11, Zenon DEF GovernanceInv

\* An edit leaves the status of its candidate as others have set it.
LEMMA EditCommits ==
  ASSUME GovernanceInv, NEW a \in Analyst, EditCommit(a)
  PROVE  GovernanceInv' /\ \A c \in Candidate : candidate'[c].status = candidate[c].status
<1>. DEFINE t == gtx[a]
            mine == [t.seen EXCEPT !.version = @ + 1]
<1>1. /\ t.op = "edit" /\ t.c \in Candidate /\ DOMAIN t.seen = {"status", "version"}
      /\ gtx' = [gtx EXCEPT ![a] = Reading] /\ UNCHANGED <<decision, crmTarget, audited>>
  BY Zenon DEF EditCommit, GovernanceInv, RequestFacts, Holds
<1>2. mine["status"] = t.seen["status"]
  BY <1>1, Zenon
<1>3. candidate' = [candidate EXCEPT ![t.c] = Merge(t.seen, mine, candidate[t.c])]
  BY Zenon DEF EditCommit
<1>. HIDE DEF t, mine
<1>4. ASSUME NEW c \in Candidate
      PROVE  DOMAIN candidate'[c] = {"status", "version"} /\ candidate'[c].status = candidate[c].status
  <2>1. DOMAIN candidate[c] = {"status", "version"}
    BY Zenon DEF GovernanceInv, RowFacts
  <2>2. candidate'[c] = candidate[c] \/ (c = t.c /\ candidate'[c] = Merge(t.seen, mine, candidate[c]))
    BY <1>3, Zenon DEF GovernanceInv, RowFacts
  <2>. QED
    BY <1>2, <2>1, <2>2, MergeColumn
<1>5. RowFacts'
  BY <1>1, <1>3, <1>4, Zenon DEF GovernanceInv, RowFacts
<1>6. DecidedIsClosed' /\ TargetIsApproved'
  BY <1>1, <1>4, Zenon DEF GovernanceInv, DecidedIsClosed, TargetIsApproved
<1>7. ASSUME NEW b \in Analyst PROVE RequestFacts(gtx[b])'
  <2>1. gtx'[b] = IF b = a THEN Reading ELSE gtx[b]
    BY <1>1, Zenon DEF GovernanceInv, RowFacts
  <2>. QED
    BY <1>1, <2>1 DEF GovernanceInv, RequestFacts, DecideFacts, Reading
<1>. QED
  BY <1>4, <1>5, <1>6, <1>7, Zenon DEF GovernanceInv

\* An update of a target leaves it a target.
LEMMA TargetCommits ==
  ASSUME GovernanceInv, NEW a \in Analyst, TargetCommit(a)
  PROVE  GovernanceInv'
<1>. DEFINE t == gtx[a]
            row == [status |-> t.status, version |-> t.seen.version + 1]
<1>1. /\ t.op = "target" /\ t.key \in DecisionKey /\ crmTarget[t.key] # NoTarget
      /\ t.status \in {"pending_export", "invalidated"} /\ row["status"] = t.status
      /\ gtx' = [gtx EXCEPT ![a] = Reading] /\ UNCHANGED <<candidate, decision>>
      /\ audited \subseteq audited'
  BY Zenon DEF TargetCommit, GovernanceInv, RequestFacts, Holds
<1>2. crmTarget' = [crmTarget EXCEPT ![t.key] = Merge(t.seen, row, crmTarget[t.key])]
  BY Zenon DEF TargetCommit
<1>. HIDE DEF t, row
<1>3. ASSUME NEW k \in DecisionKey
      PROVE  /\ crmTarget'[k] # NoTarget <=> crmTarget[k] # NoTarget
             /\ crmTarget'[k] # NoTarget =>
                  /\ DOMAIN crmTarget'[k] = {"status", "version"}
                  /\ crmTarget'[k].status \in {"pending_export", "invalidated"}
  <2>1. CASE k # t.key
    BY <1>2, <2>1, Zenon DEF GovernanceInv, RowFacts
  <2>2. CASE k = t.key
    <3>1. /\ DOMAIN crmTarget[k] = {"status", "version"}
          /\ crmTarget[k]["status"] \in {"pending_export", "invalidated"}
      BY <1>1, <2>2, Zenon DEF GovernanceInv, RowFacts
    <3>2. crmTarget'[k] = Merge(t.seen, row, crmTarget[k])
      BY <1>2, <2>2, Zenon DEF GovernanceInv, RowFacts
    <3>3. /\ DOMAIN crmTarget'[k] = {"status", "version"}
          /\ crmTarget'[k]["status"] \in {"pending_export", "invalidated"}
      BY <1>1, <3>1, <3>2, MergeColumn
    <3>. QED
      BY <1>1, <2>2, <3>3 DEF NoTarget
  <2>. QED
    BY <2>1, <2>2, Zenon
<1>4. RowFacts'
  BY <1>1, <1>2, <1>3, Zenon DEF GovernanceInv, RowFacts
<1>5. DecidedIsClosed' /\ TargetIsApproved'
  BY <1>1, <1>3, Zenon DEF GovernanceInv, DecidedIsClosed, TargetIsApproved
<1>6. ASSUME NEW b \in Analyst PROVE RequestFacts(gtx[b])'
  <2>1. gtx'[b] = IF b = a THEN Reading ELSE gtx[b]
    BY <1>1, Zenon DEF GovernanceInv, RowFacts
  <2>. QED
    BY <1>3, <2>1 DEF GovernanceInv, RequestFacts, DecideFacts, Reading
<1>. QED
  BY <1>4, <1>5, <1>6, Zenon DEF GovernanceInv

\* What a request reads for a decision, by whatever route it comes.
LEMMA DecideReads ==
  ASSUME GovernanceInv, NEW a \in Analyst, NEW k \in Key, NEW cs \in SUBSET Candidate,
         NEW bulk \in BOOLEAN, ~bulk => \E c \in cs : cs = {c},
         NEW verdict \in {"approved", "rejected"}, DecideRead(a, k, cs, bulk, verdict)
  PROVE  GovernanceInv'
<1>. DEFINE t == [op |-> "decide", keys |-> DecisionKeys(k, cs, bulk), cs |-> cs,
                  verdict |-> verdict, seen |-> [c \in cs |-> candidate[c]]]
<1>1. /\ t.op = "decide" /\ t.keys = DecisionKeys(k, cs, bulk) /\ t.cs = cs
      /\ t.verdict = verdict /\ \A c \in cs : t.seen[c] = candidate[c]
  BY Zenon
<1>2. /\ Holds(a, t) /\ UNCHANGED <<candidate, decision, crmTarget, audited>>
      /\ \A c \in cs : candidate[c].status = "open"
      /\ verdict = "approved" => \A c \in cs : ReviewPolicyBlockers(c) = {}
  BY Zenon DEF DecideRead, ValidateCandidateDecision
<1>. HIDE DEF t
<1>3. RequestFacts(t)
  BY <1>1, <1>2, KeysDecide DEF RequestFacts, DecideFacts, Closed
<1>. QED
  BY <1>2, <1>3, RequestTurns, Zenon

\* Every step of governance keeps it.
LEMMA GovernanceStep == GovernanceInv /\ [GovernanceNext]_gvars => GovernanceInv'
<1>. SUFFICES ASSUME GovernanceInv, [GovernanceNext]_gvars PROVE GovernanceInv'
  BY Zenon
<1>1. CASE UNCHANGED gvars
  BY <1>1 DEF gvars, GovernanceInv, RowFacts, DecidedIsClosed, TargetIsApproved, RequestFacts,
              DecideFacts
<1>2. ASSUME NEW a \in Analyst, review_candidate_approve(a) \/ review_candidate_reject(a)
      PROVE  GovernanceInv'
  <2>1. PICK k \in Key, c \in Candidate, verdict \in {"approved", "rejected"} :
          DecideRead(a, k, {c}, FALSE, verdict)
    BY <1>2, Zenon DEF review_candidate_approve, review_candidate_reject
  <2>2. {c} \in SUBSET Candidate /\ \E d \in {c} : {c} = {d}
    BY Zenon
  <2>. QED
    BY <2>1, <2>2, DecideReads, Zenon
<1>3. ASSUME NEW a \in Analyst, review_candidates_bulk_decision(a) PROVE GovernanceInv'
  <2>1. PICK k \in Key, cs \in Bulk, verdict \in {"approved", "rejected"} :
          DecideRead(a, k, cs, TRUE, verdict)
    BY <1>3, Zenon DEF review_candidates_bulk_decision
  <2>2. cs \in SUBSET Candidate
    BY GovernanceAssumption, Zenon
  <2>. QED
    BY <2>1, <2>2, DecideReads, Zenon
<1>4. ASSUME NEW a \in Analyst, review_candidate_update(a) PROVE GovernanceInv'
  <2>1. PICK c \in Candidate : EditRead(a, c)
    BY <1>4, Zenon DEF review_candidate_update
  <2>2. RequestFacts([op |-> "edit", c |-> c, seen |-> candidate[c]])
    BY Zenon DEF RequestFacts, GovernanceInv, RowFacts
  <2>. QED
    BY <2>1, <2>2, RequestTurns, Zenon DEF EditRead
<1>5. ASSUME NEW a \in Analyst, crm_target_update(a) PROVE GovernanceInv'
  <2>1. PICK k \in DecisionKey, status \in {"pending_export", "invalidated"} :
          TargetRead(a, k, status)
    BY <1>5, Zenon DEF crm_target_update
  <2>2. RequestFacts([op |-> "target", key |-> k, status |-> status, seen |-> crmTarget[k]])
    BY <2>1, Zenon DEF RequestFacts, TargetRead
  <2>. QED
    BY <2>1, <2>2, RequestTurns, Zenon DEF TargetRead
<1>6. ASSUME NEW a \in Analyst, DecideCommit(a) \/ EditCommit(a) \/ TargetCommit(a)
      PROVE  GovernanceInv'
  BY <1>6, DecideCommits, EditCommits, TargetCommits, Zenon
<1>7. ASSUME NEW a \in Analyst, GovernanceRollback(a) PROVE GovernanceInv'
  BY <1>7, IdleIsFine, RequestTurns, Zenon DEF GovernanceRollback
<1>8. CASE suppression_create \/ \E k \in Key : SuppressionExpires(k)
  <2>1. UNCHANGED <<candidate, decision, crmTarget, gtx>> /\ audited \subseteq audited'
    BY <1>8, Zenon DEF suppression_create, CreateSuppression, SuppressionExpires
  <2>. QED
    BY <2>1 DEF GovernanceInv, RowFacts, DecidedIsClosed, TargetIsApproved, RequestFacts,
                DecideFacts
<1>9. ASSUME NEW c \in Candidate, RequestReview(c) PROVE GovernanceInv'
  <2>1. /\ candidate[c].status = "none" /\ candidate' = [candidate EXCEPT ![c].status = "open"]
        /\ UNCHANGED <<decision, crmTarget, audited, gtx>>
    BY <1>9, Zenon DEF RequestReview
  <2>2. \A d \in Candidate : /\ DOMAIN candidate'[d] = {"status", "version"}
                             /\ d # c => candidate'[d] = candidate[d]
    BY <2>1, Zenon DEF GovernanceInv, RowFacts
  <2>3. DecidedIsClosed'
    BY <2>1, <2>2, Zenon DEF GovernanceInv, DecidedIsClosed
  <2>4. RowFacts'
    BY <2>1, <2>2, Zenon DEF GovernanceInv, RowFacts
  <2>. QED
    BY <2>1, <2>3, <2>4 DEF GovernanceInv, TargetIsApproved, RequestFacts, DecideFacts
<1>. QED
  BY <1>1, <1>2, <1>3, <1>4, <1>5, <1>6, <1>7, <1>8, <1>9, Zenon DEF GovernanceNext

\* A candidate somebody has decided on is never open again, however decisions, edits and
\* requests for review overlap (review_repository.py:137).
THEOREM DecidedClosed == GovernanceSpec => []DecidedIsClosed
<1>1. GovernanceInv => DecidedIsClosed
  BY Zenon DEF GovernanceInv
<1>. QED
  BY <1>1, GovernanceInitial, GovernanceStep, PTL DEF GovernanceSpec

\* A CRM target exists exactly for the approvals of candidates without blockers: the decision
\* and the target are written by one transaction (crm_targets.py:128).
THEOREM TargetApproved == GovernanceSpec => []TargetIsApproved
<1>1. GovernanceInv => TargetIsApproved
  BY Zenon DEF GovernanceInv
<1>. QED
  BY <1>1, GovernanceInitial, GovernanceStep, PTL DEF GovernanceSpec

(***************************************************************************)
(* Requests that never overlap: the one that is open has what it read      *)
(* before it, so a candidate it decides on is still open, and an open      *)
(* candidate has no decision (DecidedIsClosed).                            *)
(***************************************************************************)
StillOpen(t) == t.op = "decide" => \A c \in t.cs : candidate[c].status = "open"

\* What holds besides, as long as one request is open at a time.
SerialInv ==
  ~racing =>
    /\ \A a, b \in Analyst : gtx[a] # Reading /\ gtx[b] # Reading => a = b
    /\ \A a \in Analyst : StillOpen(gtx[a])

\* A request opens or ends with the candidates as they are, or ends with a commit.
LEMMA SerialTurns ==
  ASSUME GovernanceInv, SerialInv, NEW a \in Analyst, NEW t, Holds(a, t), StillOpen(t)',
         UNCHANGED candidate \/ (gtx[a] # Reading /\ t = Reading)
  PROVE  SerialInv'
<1>. SUFFICES ASSUME ~racing' PROVE SerialInv'
  BY Zenon DEF SerialInv
<1>1. ~racing /\ (t # Reading => \A b \in Analyst \ {a} : gtx[b] = Reading)
  BY Zenon DEF Holds
<1>2. \A b \in Analyst : gtx'[b] = IF b = a THEN t ELSE gtx[b]
  BY Zenon DEF Holds, GovernanceInv, RowFacts
<1>3. \A b, c \in Analyst : gtx'[b] # Reading /\ gtx'[c] # Reading => b = c
  BY <1>1, <1>2, Zenon DEF SerialInv
<1>4. ASSUME NEW b \in Analyst PROVE StillOpen(gtx[b])'
  <2>1. CASE b = a
    BY <1>2, <2>1, Zenon DEF StillOpen
  <2>2. CASE b # a /\ UNCHANGED candidate
    BY <1>1, <1>2, <2>2, Zenon DEF SerialInv, StillOpen
  <2>3. CASE b # a /\ gtx[a] # Reading
    BY <1>1, <1>2, <2>3, ZenonT(60) DEF SerialInv, StillOpen, Reading
  <2>. QED
    BY <2>1, <2>2, <2>3, Zenon
<1>. QED
  BY <1>3, <1>4, Zenon DEF SerialInv

\* Every step keeps that too.
LEMMA SerialStep ==
  GovernanceInv /\ SerialInv /\ DecidedOnce /\ [GovernanceNext]_gvars => SerialInv' /\ DecidedOnce'
<1>. SUFFICES ASSUME GovernanceInv, SerialInv, DecidedOnce, [GovernanceNext]_gvars
              PROVE  SerialInv' /\ DecidedOnce'
  BY Zenon
<1>1. CASE UNCHANGED <<candidate, decision, racing, gtx>>
  BY <1>1, Zenon DEF SerialInv, StillOpen, DecidedOnce
<1>2. ASSUME NEW a \in Analyst, NEW t, Holds(a, t), UNCHANGED <<candidate, decision>>,
             StillOpen(t)
      PROVE  SerialInv' /\ DecidedOnce'
  <2>1. StillOpen(t)' /\ (racing => racing')
    BY <1>2, Zenon DEF StillOpen, Holds
  <2>. QED
    BY <1>2, <2>1, SerialTurns, Zenon DEF DecidedOnce
<1>3. StillOpen(Reading) /\ StillOpen(Reading)'
  BY Zenon DEF StillOpen, Reading
<1>4. ASSUME NEW a \in Analyst, NEW k \in Key, NEW cs, NEW bulk, NEW verdict,
             DecideRead(a, k, cs, bulk, verdict)
      PROVE  SerialInv' /\ DecidedOnce'
  <2>. DEFINE t == [op |-> "decide", keys |-> DecisionKeys(k, cs, bulk), cs |-> cs,
                    verdict |-> verdict, seen |-> [c \in cs |-> candidate[c]]]
  <2>1. StillOpen(t) /\ Holds(a, t) /\ UNCHANGED <<candidate, decision>>
    BY <1>4, Zenon DEF DecideRead, ValidateCandidateDecision, StillOpen
  <2>. HIDE DEF t
  <2>. QED
    BY <1>2, <2>1, Zenon
<1>5. ASSUME NEW a \in Analyst, NEW c \in Candidate, EditRead(a, c)
      PROVE  SerialInv' /\ DecidedOnce'
  <2>1. StillOpen([op |-> "edit", c |-> c, seen |-> candidate[c]])
    BY Zenon DEF StillOpen
  <2>. QED
    BY <1>2, <1>5, <2>1, Zenon DEF EditRead
<1>6. ASSUME NEW a \in Analyst, NEW k, NEW status, TargetRead(a, k, status)
      PROVE  SerialInv' /\ DecidedOnce'
  <2>1. StillOpen([op |-> "target", key |-> k, status |-> status, seen |-> crmTarget[k]])
    BY Zenon DEF StillOpen
  <2>. QED
    BY <1>2, <1>6, <2>1, Zenon DEF TargetRead
<1>7. ASSUME NEW a \in Analyst, TargetCommit(a) \/ GovernanceRollback(a)
      PROVE  SerialInv' /\ DecidedOnce'
  BY <1>2, <1>3, <1>7, Zenon DEF TargetCommit, GovernanceRollback
<1>8. ASSUME NEW a \in Analyst, EditCommit(a) PROVE SerialInv' /\ DecidedOnce'
  <2>1. gtx[a] # Reading /\ Holds(a, Reading) /\ UNCHANGED decision
    BY <1>8 DEF EditCommit, Reading
  <2>2. racing => racing'
    BY <2>1, Zenon DEF Holds
  <2>. QED
    BY <1>3, <2>1, <2>2, SerialTurns, Zenon DEF DecidedOnce
<1>9. ASSUME NEW a \in Analyst, DecideCommit(a) PROVE SerialInv' /\ DecidedOnce'
  <2>. DEFINE t == gtx[a]
  <2>1. /\ t.op = "decide" /\ Holds(a, Reading)
        /\ \A k \in DecisionKey : decision'[k] =
             IF k \in t.keys THEN [on |-> DecidedBy(k, t.cs), verdict |-> t.verdict]
                             ELSE decision[k]
    BY <1>9, Zenon DEF DecideCommit
  <2>2. t # Reading /\ DecideFacts(t)
    BY <2>1 DEF Reading, GovernanceInv, RequestFacts
  <2>3. racing => racing'
    BY <2>1, Zenon DEF Holds
  <2>4. SerialInv'
    BY <1>3, <2>1, <2>2, SerialTurns, Zenon
  <2>5. ASSUME ~racing', NEW c \in Candidate, NEW k \in DecisionKey, NEW l \in DecisionKey,
               decision'[k].on = c, decision'[l].on = c
        PROVE  k = l
    <3>. HIDE DEF t
    <3>1. ASSUME NEW j \in DecisionKey, j \in t.keys PROVE decision'[j].on = DecidedBy(j, t.cs)
      <4>1. decision'[j] = [on |-> DecidedBy(j, t.cs), verdict |-> t.verdict]
        BY <2>1, <3>1, Zenon
      <4>. QED
        BY <4>1
    <3>2. \A j \in DecisionKey : j \notin t.keys => decision'[j] = decision[j]
      BY <2>1, Zenon
    <3>3. CASE c \in t.cs
      <4>1. candidate[c].status = "open"
        BY <2>1, <2>5, <2>3, <3>3, Zenon DEF SerialInv, StillOpen, t
      <4>2. \A j \in DecisionKey : decision[j].on # c
        BY <4>1, Zenon DEF GovernanceInv, DecidedIsClosed
      <4>3. k \in t.keys /\ l \in t.keys
        BY <2>5, <3>2, <4>2, Zenon
      <4>. QED
        BY <2>2, <2>5, <3>1, <4>3, ZenonT(60) DEF DecideFacts
    <3>4. CASE c \notin t.cs
      <4>1. k \notin t.keys /\ l \notin t.keys
        BY <2>2, <2>5, <3>1, <3>4, ZenonT(60) DEF DecideFacts
      <4>. QED
        BY <2>5, <2>3, <3>2, <4>1, Zenon DEF DecidedOnce
    <3>. QED
      BY <3>3, <3>4, Zenon
  <2>. QED
    BY <2>4, <2>5, Zenon DEF DecidedOnce
<1>10. ASSUME NEW c \in Candidate, RequestReview(c) PROVE SerialInv' /\ DecidedOnce'
  <2>1. /\ candidate' = [candidate EXCEPT ![c].status = "open"]
        /\ UNCHANGED <<decision, racing, gtx>>
    BY <1>10, Zenon DEF RequestReview
  <2>2. \A d \in Candidate : candidate[d].status = "open" => candidate'[d].status = "open"
    BY <2>1, Zenon DEF GovernanceInv, RowFacts
  <2>3. \A a \in Analyst : StillOpen(gtx[a]) => StillOpen(gtx[a])'
    BY <2>1, <2>2, Zenon DEF StillOpen, GovernanceInv, RequestFacts, DecideFacts
  <2>. QED
    BY <2>1, <2>3, Zenon DEF SerialInv, DecidedOnce
<1>11. CASE suppression_create \/ \E k \in Key : SuppressionExpires(k)
  BY <1>1, <1>11, Zenon DEF suppression_create, CreateSuppression, SuppressionExpires
<1>. QED
  BY <1>1, <1>4, <1>5, <1>6, <1>7, <1>8, <1>9, <1>10, <1>11, Zenon DEF GovernanceNext, gvars,
     review_candidate_approve, review_candidate_reject,
      review_candidates_bulk_decision, review_candidate_update, crm_target_update

\* As long as no two requests were open at once, a candidate is decided once, whatever the keys.
THEOREM DecidedOnlyOnce == GovernanceSpec => []DecidedOnce
<1>1. GovernanceInit => SerialInv /\ DecidedOnce
  BY GovernanceAssumption
  DEF GovernanceInit, SerialInv, DecidedOnce, StillOpen, Reading, Undecided
<1>. QED
  BY <1>1, GovernanceInitial, GovernanceStep, SerialStep, PTL DEF GovernanceSpec
-----------------------------------------------------------------------------
(* When a local time stands for one instant, for every zone and time.      *)

\* A local time that is_ambiguous_local_time lets pass is shown at one instant, the one that
\* normalize_event_time stores (candidates.py:69-103).
THEOREM ResolvedIsTheInstant ==
  ASSUME NEW zone \in Zone, NEW local \in Int, ~is_ambiguous_local_time(local, zone)
  PROVE  LET utc == local - utcoffset(local, zone, 0)
         IN /\ LocalTime(zone, utc) = local
            /\ \A u \in Int : LocalTime(zone, u) = local => u = utc
BY DEF Zone, is_ambiguous_local_time, utcoffset, LocalTime, OffsetAt

\* A local time it stops is shown at no instant, or at two: nothing certain is thrown away
\* (parsers.py:195-198).
THEOREM AmbiguousIsNotOneInstant ==
  ASSUME NEW zone \in Zone, NEW local \in Int, is_ambiguous_local_time(local, zone)
  PROVE  \/ \A u \in Int : LocalTime(zone, u) # local
         \/ \E u, v \in Int : u # v /\ LocalTime(zone, u) = local /\ LocalTime(zone, v) = local
<1> DEFINE u == local - zone.before
           v == local - zone.after
<1>1. CASE zone.before < zone.after
  BY <1>1 DEF Zone, is_ambiguous_local_time, utcoffset, LocalTime, OffsetAt
<1>2. CASE zone.after <= zone.before
  <2>1. u \in Int /\ v \in Int /\ u # v /\ LocalTime(zone, u) = local /\ LocalTime(zone, v) = local
    BY <1>2 DEF Zone, is_ambiguous_local_time, utcoffset, LocalTime, OffsetAt
  <2> QED BY <2>1
<1> QED BY <1>1, <1>2 DEF Zone
-----------------------------------------------------------------------------
(* The source registry, for any number of sources, fetches and documents.  *)

(***************************************************************************)
(* The inductive invariant.  Until two fetches overlap there is one at     *)
(* most; it read the row as it is, but for a pause since, and what it has  *)
(* added extends the stored items.                                         *)
(***************************************************************************)
SourceTyped(row) ==
  /\ DOMAIN row = {"state", "failures", "succeeded"}
  /\ row.failures \in Nat /\ row.succeeded \in BOOLEAN

\* The health columns are those of the last fetch.
RowTellsFetch(row, last) ==
  /\ last = "none" => row.failures = 0 /\ ~row.succeeded /\ row.state \in {"enabled", "paused"}
  /\ last = "succeeded" => row.failures = 0 /\ row.succeeded /\ row.state \in {"enabled", "paused"}
  /\ last = "failed" => row.failures > 0 /\ row.state \in {"degraded", "paused"}
  /\ last \in {"none", "succeeded", "failed"}

\* What an open fetch holds.
FetchTyped(t) ==
  t # Asleep => /\ DOMAIN t = {"op", "s", "seen", "items", "added"}
                /\ t.op \in {"asks", "stores", "failed"}
                /\ t.s \in Source /\ SourceTyped(t.seen)

\* A fetch alone has read what is there.
SeenBefore(t) ==
  t # Asleep => /\ t.seen.failures = source[t.s].failures
                /\ t.seen.succeeded = source[t.s].succeeded
                /\ source[t.s].state \in {t.seen.state, "paused"}

\* One canonical item for each address.
OneEach(items) ==
  \A i, j \in items :
    i.src = j.src /\ i.url = j.url /\ i.duplicate = "canonical" /\ j.duplicate = "canonical"
      => i = j

\* Types of the rows and of the open fetches.
SourcesTyped ==
  /\ DOMAIN source = Source /\ DOMAIN lastFetch = Source /\ DOMAIN ftx = Fetcher
  /\ \A s \in Source : SourceTyped(source[s])
  /\ \A f \in Fetcher : FetchTyped(ftx[f])

\* What holds as long as no two fetches were open at once.
AloneInv ==
  /\ \A f, g \in Fetcher : ftx[f] # Asleep /\ ftx[g] # Asleep => f = g
  /\ \A s \in Source : RowTellsFetch(source[s], lastFetch[s])
  /\ \A f \in Fetcher : SeenBefore(ftx[f])
  /\ OneEach(rawItem)
  /\ \A f \in Fetcher : ftx[f] # Asleep => OneEach(rawItem \cup ftx[f].added)

\* The inductive invariant of the registry.
SourcesInv == SourcesTyped /\ (~overlapped => AloneInv)

\* It holds at the start.
LEMMA SourcesInitial == SourcesInit => SourcesInv
<1>. SUFFICES ASSUME SourcesInit PROVE SourcesInv
  BY Zenon
<1>1. SourcesTyped
  BY Zenon DEF SourcesInit, SourcesTyped, SourceTyped, FetchTyped
<1>2. \A f \in Fetcher : ftx[f] = Asleep
  BY Zenon DEF SourcesInit
<1>3. \A s \in Source : RowTellsFetch(source[s], lastFetch[s])
  BY Zenon DEF SourcesInit, RowTellsFetch
<1>. QED
  BY <1>1, <1>2, <1>3, Zenon DEF SourcesInit, SourcesInv, AloneInv, SeenBefore, OneEach

\* A fetch moves on and writes nothing, or ends without a trace.
LEMMA FetchMoves ==
  ASSUME SourcesInv, NEW f \in Fetcher, NEW t, Fetches(f, t), FetchTyped(t),
         UNCHANGED <<source, rawItem, lastFetch>>,
         overlapped => overlapped',
         ~overlapped' => /\ SeenBefore(t)
                         /\ t # Asleep => OneEach(rawItem \cup t.added)
                         /\ t # Asleep => \A g \in Fetcher \ {f} : ftx[g] = Asleep
  PROVE  SourcesInv'
<1>1. \A g \in Fetcher : ftx'[g] = IF g = f THEN t ELSE ftx[g]
  BY Zenon DEF Fetches, SourcesInv, SourcesTyped
<1>2. SourcesTyped'
  BY <1>1, Zenon DEF Fetches, SourcesInv, SourcesTyped
<1>3. ASSUME ~overlapped' PROVE AloneInv'
  <2>1. \A g, h \in Fetcher : ftx'[g] # Asleep /\ ftx'[h] # Asleep => g = h
    BY <1>1, <1>3, Zenon DEF SourcesInv, AloneInv
  <2>2. \A g \in Fetcher : SeenBefore(ftx'[g])
    BY <1>1, <1>3, Zenon DEF SourcesInv, AloneInv
  <2>3. \A g \in Fetcher : ftx'[g] # Asleep => OneEach(rawItem \cup ftx'[g].added)
    BY <1>1, <1>3, Zenon DEF SourcesInv, AloneInv
  <2>. QED
    BY <1>3, <2>1, <2>2, <2>3, Zenon DEF SourcesInv, AloneInv, SeenBefore
<1>. QED
  BY <1>2, <1>3, Zenon DEF SourcesInv

\* The next item joins what is stored as the one canonical item of its address, or as another.
LEMMA AddedOnce ==
  ASSUME NEW stored, NEW s, NEW x, NEW row, OneEach(stored),
         row = RawSourceItem(s, x, {i.text : i \in {i \in stored : i.src = s /\ i.url = x.url}})
  PROVE  OneEach(stored \cup {row})
<1>. DEFINE known == {i.text : i \in {i \in stored : i.src = s /\ i.url = x.url}}
<1>1. row.src = s /\ row.url = x.url /\ row.duplicate = classify_duplicate(known, x.text)
  BY Zenon DEF RawSourceItem
<1>2. row.duplicate = "canonical" => known = {}
  BY <1>1, Zenon DEF classify_duplicate
<1>3. known = {} => \A i \in stored : ~(i.src = s /\ i.url = x.url)
  BY Zenon
<1>4. \A i \in stored : i.src = row.src /\ i.url = row.url => row.duplicate # "canonical"
  BY <1>1, <1>2, <1>3, Zenon
<1>. QED
  BY <1>4 DEF OneEach

\* How a fetch ends in a commit: the row is merged, its items are stored.
LEMMA FetchCommits ==
  ASSUME SourcesInv, NEW f \in Fetcher, ftx[f] # Asleep, NEW mine, NEW last,
         SourceTyped(mine), Fetches(f, Asleep), UNCHANGED overlapped,
         source' = [source EXCEPT ![ftx[f].s] = Merge(ftx[f].seen, mine, @)],
         lastFetch' = [lastFetch EXCEPT ![ftx[f].s] = last],
         rawItem' = rawItem \/ rawItem' = rawItem \cup ftx[f].added,
         ~overlapped => RowTellsFetch(Merge(ftx[f].seen, mine, source[ftx[f].s]), last)
  PROVE  SourcesInv'
<1>. DEFINE s == ftx[f].s
            row == Merge(ftx[f].seen, mine, source[s])
<1>1. s \in Source /\ FetchTyped(ftx[f]) /\ SourceTyped(source[s])
  BY Zenon DEF SourcesInv, SourcesTyped, FetchTyped
<1>2. SourceTyped(row)
  BY <1>1, Zenon DEF SourceTyped, Merge
<1>3. /\ \A g \in Fetcher : ftx'[g] = IF g = f THEN Asleep ELSE ftx[g]
      /\ DOMAIN ftx' = Fetcher
  BY Zenon DEF Fetches, SourcesInv, SourcesTyped
<1>4. /\ \A z \in Source : source'[z] = IF z = s THEN row ELSE source[z]
      /\ \A z \in Source : lastFetch'[z] = IF z = s THEN last ELSE lastFetch[z]
      /\ DOMAIN source' = Source /\ DOMAIN lastFetch' = Source
  BY Zenon DEF SourcesInv, SourcesTyped
<1>. HIDE DEF s, row
<1>5. SourcesTyped'
  BY <1>2, <1>3, <1>4 DEF SourcesInv, SourcesTyped, FetchTyped
<1>6. ASSUME ~overlapped PROVE AloneInv'
  <2>1. \A g \in Fetcher : ftx'[g] = Asleep
    BY <1>3, <1>6, Zenon DEF SourcesInv, AloneInv
  <2>2. \A z \in Source : RowTellsFetch(source'[z], lastFetch'[z])
    BY <1>4, <1>6, Zenon DEF SourcesInv, AloneInv, s, row
  <2>3. OneEach(rawItem')
    BY <1>6, Zenon DEF SourcesInv, AloneInv
  <2>. QED
    BY <2>1, <2>2, <2>3, Zenon DEF AloneInv, SeenBefore
<1>. QED
  BY <1>5, <1>6, Zenon DEF SourcesInv

\* Every step of the registry keeps it.
LEMMA SourcesStep == SourcesInv /\ [SourcesNext]_fvars => SourcesInv'
<1>. SUFFICES ASSUME SourcesInv, [SourcesNext]_fvars PROVE SourcesInv'
  BY Zenon
<1>0. FetchTyped(Asleep) /\ SeenBefore(Asleep)
  BY Zenon DEF FetchTyped, SeenBefore
<1>1. CASE UNCHANGED fvars
  BY <1>1, Zenon DEF fvars, SourcesInv, SourcesTyped, AloneInv, SeenBefore
<1>2. ASSUME NEW f \in Fetcher, NEW s \in Source, FetchRead(f, s) PROVE SourcesInv'
  <2>. DEFINE t == [op |-> "asks", s |-> s, seen |-> source[s], items |-> <<>>, added |-> {}]
  <2>1. /\ Fetches(f, t) /\ UNCHANGED <<source, rawItem, lastFetch>> /\ ftx[f] = Asleep
        /\ overlapped' = (overlapped \/ \E g \in Fetcher : ftx[g] # Asleep)
    BY <1>2, Zenon DEF FetchRead
  <2>2. t.added = {} /\ t.s = s /\ t.seen = source[s] /\ FetchTyped(t)
    BY Zenon DEF FetchTyped, SourcesInv, SourcesTyped
  <2>. HIDE DEF t
  <2>3. (overlapped => overlapped') /\ (~overlapped' => \A g \in Fetcher : ftx[g] = Asleep)
    BY <2>1, Zenon
  <2>4. SeenBefore(t)
    BY <2>2, Zenon DEF SeenBefore
  <2>5. ~overlapped' => OneEach(rawItem \cup t.added)
    BY <2>2, <2>3, Zenon DEF SourcesInv, AloneInv
  <2>. QED
    BY <2>1, <2>2, <2>3, <2>4, <2>5, FetchMoves, Zenon
<1>3. ASSUME NEW f \in Fetcher, NEW t, ftx[f] # Asleep, Fetches(f, t), t # Asleep => t.s = ftx[f].s,
             t # Asleep => t.seen = ftx[f].seen, FetchTyped(t),
             t # Asleep => (OneEach(rawItem \cup ftx[f].added) => OneEach(rawItem \cup t.added)),
             UNCHANGED <<source, rawItem, lastFetch, overlapped>>
      PROVE  SourcesInv'
  <2>1. ~overlapped => /\ SeenBefore(t)
                       /\ t # Asleep => OneEach(rawItem \cup t.added)
                       /\ \A g \in Fetcher \ {f} : ftx[g] = Asleep
    BY <1>3, Zenon DEF SourcesInv, AloneInv, SeenBefore
  <2>. QED
    BY <1>3, <2>1, FetchMoves, Zenon
<1>4. ASSUME NEW f \in Fetcher, NEW doc, FetchAnswered(f, doc) PROVE SourcesInv'
  <2>. DEFINE t == [ftx[f] EXCEPT !.op = "stores",
                                  !.items = AdapterFetch(AdapterOf[ftx[f].s], doc)]
  <2>1. /\ Fetches(f, t) /\ UNCHANGED <<source, rawItem, lastFetch, overlapped>>
        /\ ftx[f] # Asleep /\ FetchTyped(ftx[f])
    BY <1>4 DEF FetchAnswered, Asleep, SourcesInv, SourcesTyped
  <2>2. t.s = ftx[f].s /\ t.seen = ftx[f].seen /\ t.added = ftx[f].added /\ FetchTyped(t)
    BY <2>1, Zenon DEF FetchTyped
  <2>. HIDE DEF t
  <2>. QED
    BY <1>3, <2>1, <2>2, Zenon
<1>5. ASSUME NEW f \in Fetcher, FetchRefused(f) PROVE SourcesInv'
  <2>. DEFINE t == [ftx[f] EXCEPT !.op = "failed"]
  <2>1. /\ Fetches(f, t) /\ UNCHANGED <<source, rawItem, lastFetch, overlapped>>
        /\ ftx[f] # Asleep /\ FetchTyped(ftx[f])
    BY <1>5 DEF FetchRefused, Asleep, SourcesInv, SourcesTyped
  <2>2. t.s = ftx[f].s /\ t.seen = ftx[f].seen /\ t.added = ftx[f].added /\ FetchTyped(t)
    BY <2>1, Zenon DEF FetchTyped
  <2>. HIDE DEF t
  <2>. QED
    BY <1>3, <2>1, <2>2, Zenon
<1>6. ASSUME NEW f \in Fetcher, PersistFetchedItem(f) PROVE SourcesInv'
  <2>. DEFINE x == Head(ftx[f].items)
              stored == rawItem \cup ftx[f].added
              known == {i.text : i \in {i \in stored : i.src = ftx[f].s /\ i.url = x.url}}
              row == RawSourceItem(ftx[f].s, x, known)
              old == \E i \in stored : i.key = row.key
              t == [ftx[f] EXCEPT !.items = Tail(@), !.added = IF old THEN @ ELSE @ \cup {row}]
  <2>1. /\ Fetches(f, t) /\ UNCHANGED <<source, rawItem, lastFetch, overlapped>>
        /\ ftx[f].op = "stores" /\ ftx[f] # Asleep
    BY <1>6 DEF PersistFetchedItem, Asleep
  <2>2. FetchTyped(ftx[f])
    BY Zenon DEF SourcesInv, SourcesTyped
  <2>3. OneEach(stored) => OneEach(stored \cup {row})
    <3>1. row = RawSourceItem(ftx[f].s, x,
                  {i.text : i \in {i \in stored : i.src = ftx[f].s /\ i.url = x.url}})
      BY Zenon
    <3>. HIDE DEF stored, x, row
    <3>. QED
      BY <3>1, AddedOnce
  <2>. HIDE DEF row, old
  <2>4. /\ t.s = ftx[f].s /\ t.seen = ftx[f].seen /\ FetchTyped(t)
        /\ t.added \in {ftx[f].added, ftx[f].added \cup {row}}
    BY <2>1, <2>2, Zenon DEF FetchTyped
  <2>. HIDE DEF t
  <2>5. OneEach(rawItem \cup ftx[f].added) => OneEach(rawItem \cup t.added)
    <3>1. rawItem \cup (ftx[f].added \cup {row}) = stored \cup {row}
      BY Zenon
    <3>. QED
      BY <2>3, <2>4, <3>1, Zenon
  <2>. QED
    BY <1>3, <2>1, <2>4, <2>5, ZenonT(60)
<1>7. ASSUME NEW f \in Fetcher, PersistConflict(f) \/ FetchDies(f) PROVE SourcesInv'
  <2>1. /\ Fetches(f, Asleep) /\ UNCHANGED <<source, rawItem, lastFetch, overlapped>>
        /\ ftx[f] # Asleep
    BY <1>7 DEF PersistConflict, FetchDies, Asleep
  <2>. QED
    BY <1>0, <1>3, <2>1, Zenon
<1>8. ASSUME NEW f \in Fetcher, FetchSucceeds(f) PROVE SourcesInv'
  <2>. DEFINE t == ftx[f]
              mine == [state |-> "enabled", failures |-> 0, succeeded |-> TRUE]
  <2>1. /\ t # Asleep /\ FetchTyped(t) /\ t.s \in Source /\ SourceTyped(t.seen)
        /\ SourceTyped(source[t.s]) /\ SourceTyped(mine)
    BY <1>8 DEF FetchSucceeds, Asleep, SourcesInv, SourcesTyped, FetchTyped, SourceTyped
  <2>2. ASSUME ~overlapped
        PROVE  RowTellsFetch(Merge(t.seen, mine, source[t.s]), "succeeded")
    <3>1. SeenBefore(t) /\ RowTellsFetch(source[t.s], lastFetch[t.s])
      BY <2>1, <2>2, Zenon DEF SourcesInv, AloneInv
    <3>. QED
      BY <2>1, <3>1, Zenon DEF SeenBefore, RowTellsFetch, SourceTyped, Merge
  <2>. HIDE DEF mine
  <2>. QED
    BY <1>8, <2>1, <2>2, FetchCommits, Zenon DEF FetchSucceeds, mine
<1>9. ASSUME NEW f \in Fetcher, FetchFails(f) PROVE SourcesInv'
  <2>. DEFINE t == ftx[f]
              mine == [t.seen EXCEPT !.state = "degraded", !.failures = @ + 1]
  <2>1. /\ t # Asleep /\ FetchTyped(t) /\ t.s \in Source /\ SourceTyped(t.seen)
        /\ SourceTyped(source[t.s])
    BY <1>9 DEF FetchFails, Asleep, SourcesInv, SourcesTyped, FetchTyped
  <2>2. /\ SourceTyped(mine) /\ mine.state = "degraded" /\ mine.failures = t.seen.failures + 1
        /\ mine.succeeded = t.seen.succeeded
    BY <2>1, SMTT(60) DEF SourceTyped
  <2>. HIDE DEF mine
  <2>3. ASSUME ~overlapped
        PROVE  RowTellsFetch(Merge(t.seen, mine, source[t.s]), "failed")
    <3>1. SeenBefore(t) /\ RowTellsFetch(source[t.s], lastFetch[t.s])
      BY <2>1, <2>3, Zenon DEF SourcesInv, AloneInv
    <3>. QED
      BY <2>1, <2>2, <3>1 DEF SeenBefore, RowTellsFetch, SourceTyped, Merge
  <2>. QED
    BY <1>9, <2>1, <2>2, <2>3, FetchCommits, Zenon DEF FetchFails, mine
<1>10. ASSUME NEW s \in Source, OperatorPauses(s) PROVE SourcesInv'
  <2>1. /\ source' = [source EXCEPT ![s].state = "paused"]
        /\ UNCHANGED <<rawItem, lastFetch, overlapped, ftx>>
    BY <1>10, Zenon DEF OperatorPauses
  <2>2. /\ DOMAIN source' = Source
        /\ \A z \in Source : /\ SourceTyped(source'[z])
                             /\ source'[z].failures = source[z].failures
                             /\ source'[z].succeeded = source[z].succeeded
                             /\ source'[z].state \in {source[z].state, "paused"}
    BY <2>1, Zenon DEF SourcesInv, SourcesTyped, SourceTyped
  <2>3. SourcesTyped'
    BY <2>1, <2>2, Zenon DEF SourcesInv, SourcesTyped
  <2>4. ASSUME ~overlapped PROVE AloneInv'
    <3>1. \A z \in Source : RowTellsFetch(source'[z], lastFetch[z])
      BY <2>2, <2>4 DEF SourcesInv, AloneInv, RowTellsFetch
    <3>2. \A f \in Fetcher : SeenBefore(ftx[f])'
      BY <2>1, <2>2, <2>4 DEF SourcesInv, SourcesTyped, FetchTyped, AloneInv, SeenBefore
    <3>. QED
      BY <2>1, <2>4, <3>1, <3>2, Zenon DEF SourcesInv, AloneInv
  <2>. QED
    BY <2>1, <2>3, <2>4, Zenon DEF SourcesInv
<1>. QED
  BY <1>1, <1>2, <1>4, <1>5, <1>6, <1>7, <1>8, <1>9, <1>10, Zenon DEF SourcesNext

\* Of what a source has published at one address one item is canonical, as long as fetches do
\* not overlap (source_registry.py:79).
THEOREM CanonicalOnce == SourcesSpec => []OneCanonical
<1>1. SourcesInv => OneCanonical
  BY Zenon DEF SourcesInv, AloneInv, OneEach, OneCanonical
<1>. QED
  BY <1>1, SourcesInitial, SourcesStep, PTL DEF SourcesSpec

\* Health says how the last committed fetch went, unless fetches overlapped or the source is
\* paused (source_registry.py:89).
THEOREM HealthOfLastFetch == SourcesSpec => []HealthIsOfLastFetch
<1>1. SourcesInv => HealthIsOfLastFetch
  <2>. SUFFICES ASSUME SourcesInv, ~overlapped, NEW s \in Source, NEW tooOld \in BOOLEAN,
                       source_health(source[s], tooOld) # "disabled"
                PROVE  /\ source_health(source[s], tooOld) = "degraded" <=> lastFetch[s] = "failed"
                       /\ source_health(source[s], tooOld) \in {"fresh", "stale"}
                            <=> lastFetch[s] = "succeeded"
    BY Zenon DEF HealthIsOfLastFetch
  <2>1. RowTellsFetch(source[s], lastFetch[s]) /\ SourceTyped(source[s])
    BY Zenon DEF SourcesInv, SourcesTyped, AloneInv
  <2>. QED
    BY <2>1 DEF RowTellsFetch, SourceTyped, source_health
<1>. QED
  BY <1>1, SourcesInitial, SourcesStep, PTL DEF SourcesSpec

\* Nothing that is stored or about to be is marked as a duplicate.
NoDuplicate(items) == \A i \in items : i.duplicate # "duplicate"
DuplicateInv ==
  NoDuplicate(rawItem) /\ \A f \in Fetcher : ftx[f] # Asleep => NoDuplicate(ftx[f].added)

\* What a fetch inserts is no duplicate: one has the address and the text of a stored item, which
\* the unique constraints let nobody repeat.
LEMMA PersistDuplicates ==
  ASSUME SourcesInv, DuplicateInv, NEW f \in Fetcher, PersistFetchedItem(f)
  PROVE  DuplicateInv'
<1>1. PICK t, x, stored : t = ftx[f] /\ x = Head(t.items) /\ stored = rawItem \cup t.added
  BY Zenon
<1>2. PICK known : known = {i.text : i \in {i \in stored : i.src = t.s /\ i.url = x.url}}
  BY Zenon
<1>3. PICK row : row = RawSourceItem(t.s, x, known)
  BY Zenon
<1>4. PICK added : added = IF \E i \in stored : i.key = row.key THEN t.added ELSE t.added \cup {row}
  BY Zenon
<1>5. /\ t.op = "stores" /\ rawItem' = rawItem
      /\ ~(\E i \in stored : i.key = row.key) => \A i \in stored
           \cup Unsettled(f) : ~Conflicts(row, i)
      /\ ftx' = [ftx EXCEPT ![f] = [t EXCEPT !.items = Tail(@), !.added = added]]
  BY <1>1, <1>2, <1>3, <1>4, Zenon DEF PersistFetchedItem, Fetches
<1>6. t # Asleep /\ FetchTyped(t) /\ DOMAIN ftx = Fetcher
  <2>1. Asleep.op = "idle"
    BY Zenon DEF Asleep
  <2>. QED
    BY <1>1, <1>5, <2>1, Zenon DEF SourcesInv, SourcesTyped
<1>7. PICK u : u = [t EXCEPT !.items = Tail(@), !.added = added]
  BY Zenon
<1>8. u.added = added /\ \A g \in Fetcher : ftx'[g] = IF g = f THEN u ELSE ftx[g]
  BY <1>5, <1>6, <1>7, Zenon DEF FetchTyped
<1>9. NoDuplicate(t.added)
  BY <1>1, <1>6, Zenon DEF DuplicateInv
<1>10. ~(\E i \in stored : i.key = row.key) => row.duplicate # "duplicate"
  <2>1. /\ row.src = t.s /\ row.url = x.url /\ row.text = x.text
        /\ row.duplicate = classify_duplicate(known, x.text)
    BY <1>3, Zenon DEF RawSourceItem
  <2>2. row.duplicate = "duplicate" => x.text \in known
    BY <2>1, Zenon DEF classify_duplicate
  <2>3. x.text \in known => \E i \in stored : i.src = t.s /\ i.url = x.url /\ i.text = x.text
    BY <1>2, Zenon
  <2>4. row.duplicate = "duplicate" => \E i \in stored : Conflicts(row, i)
    BY <2>1, <2>2, <2>3, Zenon DEF Conflicts
  <2>. QED
    BY <1>5, <2>4, Zenon
<1>11. NoDuplicate(added)
  BY <1>4, <1>9, <1>10, Zenon DEF NoDuplicate
<1>. QED
  BY <1>5, <1>8, <1>11, Zenon DEF DuplicateInv

\* Every step keeps duplicates out.
LEMMA DuplicateStep ==
  ASSUME SourcesInv, DuplicateInv, [SourcesNext]_fvars
  PROVE  DuplicateInv'
<1>1. Asleep.op = "idle" /\ DOMAIN ftx = Fetcher
  BY Zenon DEF Asleep, SourcesInv, SourcesTyped
<1>2. ASSUME NEW f \in Fetcher, NEW t, ftx' = [ftx EXCEPT ![f] = t],
             t # Asleep => NoDuplicate(t.added), NoDuplicate(rawItem')
      PROVE  DuplicateInv'
  <2>1. \A g \in Fetcher : ftx'[g] = IF g = f THEN t ELSE ftx[g]
    BY <1>1, <1>2, Zenon
  <2>. QED
    BY <1>2, <2>1, Zenon DEF DuplicateInv
<1>3. ASSUME NEW f \in Fetcher, NEW s, FetchRead(f, s) PROVE DuplicateInv'
  <2>1. PICK t : t = [op |-> "asks", s |-> s, seen |-> source[s], items |-> <<>>, added |-> {}]
    BY Zenon
  <2>2. ftx' = [ftx EXCEPT ![f] = t] /\ rawItem' = rawItem
    BY <1>3, <2>1, Zenon DEF FetchRead, Fetches
  <2>3. NoDuplicate(t.added)
    BY <2>1, Zenon DEF NoDuplicate
  <2>. QED
    BY <1>2, <2>2, <2>3, Zenon DEF DuplicateInv
<1>4. ASSUME NEW f \in Fetcher, ftx[f].op = "asks", NEW op, NEW items, rawItem' = rawItem,
             \/ ftx' = [ftx EXCEPT ![f] = [ftx[f] EXCEPT !.op = op]]
             \/ ftx' = [ftx EXCEPT ![f] = [ftx[f] EXCEPT !.op = op, !.items = items]]
      PROVE  DuplicateInv'
  <2>1. PICK t, u, v : t = ftx[f] /\ u = [t EXCEPT !.op = op]
          /\ v = [t EXCEPT !.op = op, !.items = items]
    BY Zenon
  <2>2. t # Asleep /\ FetchTyped(t)
    BY <1>1, <1>4, <2>1, Zenon DEF SourcesInv, SourcesTyped
  <2>3. u.added = t.added /\ v.added = t.added /\ NoDuplicate(t.added)
    BY <2>1, <2>2, Zenon DEF FetchTyped, DuplicateInv
  <2>. QED
    BY <1>2, <1>4, <2>1, <2>3, ZenonT(60) DEF DuplicateInv
<1>5. ASSUME NEW f \in Fetcher, NEW doc, FetchAnswered(f, doc) \/ FetchRefused(f)
      PROVE  DuplicateInv'
  <2>1. PICK items : items = AdapterFetch(AdapterOf[ftx[f].s], doc)
    BY Zenon
  <2>2. CASE FetchAnswered(f, doc)
    BY <1>4, <2>1, <2>2, Zenon DEF FetchAnswered, Fetches
  <2>3. CASE FetchRefused(f)
    BY <1>4, <2>3, Zenon DEF FetchRefused, Fetches
  <2>. QED
    BY <1>5, <2>2, <2>3, Zenon
<1>6. ASSUME NEW f \in Fetcher, ftx[f] # Asleep, ftx' = [ftx EXCEPT ![f] = Asleep],
             rawItem' = rawItem \/ rawItem' = rawItem \cup ftx[f].added
      PROVE  DuplicateInv'
  <2>1. NoDuplicate(rawItem')
    BY <1>6, Zenon DEF DuplicateInv, NoDuplicate
  <2>. QED
    BY <1>2, <1>6, <2>1, Zenon
<1>7. ASSUME NEW f \in Fetcher,
             PersistConflict(f) \/ FetchDies(f) \/ FetchSucceeds(f) \/ FetchFails(f)
      PROVE  DuplicateInv'
  <2>1. /\ ftx[f] # Asleep /\ ftx' = [ftx EXCEPT ![f] = Asleep]
        /\ rawItem' = rawItem \/ rawItem' = rawItem \cup ftx[f].added
    BY <1>1, <1>7, Zenon DEF PersistConflict, FetchDies, FetchSucceeds, FetchFails, Fetches
  <2>. QED
    BY <1>6, <2>1, Zenon
<1>8. ASSUME NEW s, OperatorPauses(s) PROVE DuplicateInv'
  BY <1>8, Zenon DEF OperatorPauses, DuplicateInv
<1>9. CASE UNCHANGED fvars
  BY <1>9, Zenon DEF fvars, DuplicateInv
<1>. QED
  BY <1>3, <1>5, <1>7, <1>8, <1>9, PersistDuplicates, Zenon DEF SourcesNext

\* No stored item is marked as a duplicate, overlapping fetches included: what classify_duplicate
\* calls one breaks a unique constraint when it is inserted (source_registry.py:248-292).
THEOREM DuplicatesNeverStored == SourcesSpec => []DuplicateNeverStored
<1>1. SourcesInit => DuplicateInv
  BY Zenon DEF SourcesInit, DuplicateInv, NoDuplicate
<1>2. DuplicateInv => DuplicateNeverStored
  BY Zenon DEF DuplicateInv, NoDuplicate, DuplicateNeverStored
<1>. QED
  BY <1>1, <1>2, SourcesInitial, SourcesStep, DuplicateStep, PTL DEF SourcesSpec
-----------------------------------------------------------------------------
(* Events: their coordinates, their times and what they publish.           *)

\* The columns of an event.
EventColumns(r) ==
  /\ DOMAIN r = {"format", "city", "postcode", "geocode", "coords", "provider", "timezone", "source",
                 "starts", "version"}
  /\ r.version \in Nat \ {0}

\* Coordinates from the geocoder are those of the row's address.
Placed(r) ==
  r.provider = "geocoder" =>
    /\ r.format = "in-person"
    /\ r.coords # NoCoordinates => r.coords = <<r.city, r.postcode>>
    /\ r.coords # NoCoordinates <=> r.geocode = "resolved"

\* A pass adds events as its items give them; an update has the next version.
EventTxFacts(t) ==
  /\ t.op = "pass" =>
       /\ DOMAIN t = {"op", "todo", "done", "events", "people"}
       /\ t.todo \subseteq EventItem
       /\ \A e \in DOMAIN t.events :
            \E x \in EventItem : e = EventKeyOf(x) /\ t.events[e] = DiscoveredEvent(x)
  /\ t.op = "update" =>
       /\ t.e \in EventDedupeKey /\ event[t.e] # NoEvent
       /\ EventColumns(t.seen) /\ EventColumns(t.mine) /\ Placed(t.mine)
       /\ t.mine.version = t.seen.version + 1

\* Until somebody edits it, an event says what its item does.
FreshFacts ==
  \A x \in EventItem :
    LET e == event[EventKeyOf(x)]
    IN e # NoEvent /\ e.source = x /\ e.version = 1 => e = DiscoveredEvent(x)

\* What holds as long as no two transactions were open at once.
EventsAlone ==
  /\ \A v, w \in EventWorker : etx[v] # Outside /\ etx[w] # Outside => v = w
  /\ \A e \in EventDedupeKey : event[e] # NoEvent => Placed(event[e])
  /\ \A w \in EventWorker : etx[w].op = "update" => etx[w].seen = event[etx[w].e]

\* The inductive invariant of events.
EventsInv ==
  /\ DOMAIN event = EventDedupeKey /\ DOMAIN etx = EventWorker
  /\ \A e \in EventDedupeKey : event[e] # NoEvent => EventColumns(event[e])
  /\ FreshFacts
  /\ \A w \in EventWorker : EventTxFacts(etx[w])
  /\ ~mixed => EventsAlone

\* It holds at the start.
LEMMA EventsInitial == EventsInit => EventsInv
<1>. SUFFICES ASSUME EventsInit PROVE EventsInv
  BY Zenon
<1>1. \A w \in EventWorker : etx[w] = Outside /\ etx[w].op = "idle"
  BY Zenon DEF EventsInit, Outside
<1>2. \A e \in EventDedupeKey : event[e] = NoEvent
  BY Zenon DEF EventsInit
<1>3. \A x \in EventItem : EventKeyOf(x) \in EventDedupeKey
  BY Zenon DEF EventDedupeKey
<1>4. FreshFacts
  BY <1>2, <1>3, Zenon DEF FreshFacts
<1>5. EventsAlone
  BY <1>1, <1>2, Zenon DEF EventsAlone
<1>6. \A w \in EventWorker : EventTxFacts(etx[w])
  BY <1>1, Zenon DEF EventTxFacts
<1>. QED
  BY <1>2, <1>4, <1>5, <1>6, Zenon DEF EventsInv, EventsInit

\* A new row has the columns of an event.
LEMMA NewEvent ==
  ASSUME NEW f, NEW c, NEW p, NEW g, NEW o, NEW v, NEW z, NEW s, NEW t, NEW r,
         r = [format |-> f, city |-> c, postcode |-> p, geocode |-> g, coords |-> o, provider |-> v,
              timezone |-> z, source |-> s, starts |-> t, version |-> 1]
  PROVE  EventColumns(r) /\ r.version = 1
  BY DEF EventColumns

\* What an item gives is a row, without coordinates of the geocoder.
LEMMA DiscoveredFacts ==
  ASSUME NEW x, NEW r, r = DiscoveredEvent(x)
  PROVE  /\ EventColumns(r) /\ Placed(r) /\ r # NoEvent
         /\ r.source = x /\ r.timezone = normalize_event_time(RawOf[x].start, HintOf[x]).status
         /\ r.starts = normalize_event_time(RawOf[x].start, HintOf[x]).utc
<1>1. PICK time : time = normalize_event_time(RawOf[x].start, HintOf[x])
  BY Zenon
<1>2. PICK g, c, p : /\ g = IF RawOf[x].geo THEN "resolved" ELSE "not_required"
                     /\ c = IF RawOf[x].geo THEN <<"published">> ELSE NoCoordinates
                     /\ p = IF RawOf[x].geo THEN "source" ELSE ""
  BY Zenon
<1>3. r = [format |-> RawOf[x].format, city |-> RawOf[x].city, postcode |-> RawOf[x].postcode,
           geocode |-> g, coords |-> c, provider |-> p,
           timezone |-> time.status, starts |-> time.utc, source |-> x, version |-> 1]
  BY <1>1, <1>2, Zenon DEF DiscoveredEvent
<1>4. p # "geocoder"
  BY <1>2, Zenon
<1>5. EventColumns(r) /\ Placed(r) /\ r.version = 1
  BY <1>3, <1>4 DEF EventColumns, Placed
<1>6. NoEvent.version = 0
  BY Zenon DEF NoEvent
<1>. QED
  BY <1>1, <1>3, <1>5, <1>6

\* Whatever the geocoder answers, coordinates are of the address that was asked for.
LEMMA GeocodedFacts ==
  ASSUME NEW r, EventColumns(r), NEW g \in ApplyEventGeocode(r), NEW s, s = Geocoded(r, g)
  PROVE  EventColumns(s) /\ Placed(s) /\ s.version = r.version
<1>1. /\ EventColumns(s) /\ s.version = r.version /\ s.format = r.format
      /\ s.city = r.city /\ s.postcode = r.postcode
      /\ s.geocode = g.status /\ s.coords = g.coords /\ s.provider = g.provider
  BY Zenon DEF Geocoded, EventColumns
<1>2. <<r.city, r.postcode>> # <<>>
  BY Zenon
<1>3. CASE r.format # "in-person"
  <2>1. g = Geocode("not_required", NoCoordinates, "")
    BY <1>3, Zenon DEF ApplyEventGeocode
  <2>. QED
    BY <1>1, <2>1, Zenon DEF Geocode, Placed
<1>4. CASE r.format = "in-person" /\ (r.city = "" \/ r.postcode = "")
  <2>1. g = Geocode("insufficient_address", NoCoordinates, "")
    BY <1>4, Zenon DEF ApplyEventGeocode
  <2>. QED
    BY <1>1, <2>1, Zenon DEF Geocode, Placed
<1>5. CASE r.format = "in-person" /\ ~(r.city = "" \/ r.postcode = "")
  <2>1. g \in geocode(r.city, r.postcode)
    BY <1>5, Zenon DEF ApplyEventGeocode
  <2>2. \/ /\ s.coords = <<s.city, s.postcode>> /\ s.geocode = "resolved"
        \/ /\ s.coords = NoCoordinates /\ s.geocode # "resolved"
    <3>1. CASE g = Geocode("resolved", <<r.city, r.postcode>>, "geocoder")
      BY <1>1, <3>1, Zenon DEF Geocode
    <3>2. CASE g = Geocode("not_found", NoCoordinates, "geocoder")
      BY <1>1, <3>2, Zenon DEF Geocode
    <3>3. CASE g = Geocode("failed", NoCoordinates, "geocoder")
      BY <1>1, <3>3, Zenon DEF Geocode
    <3>. QED
      BY <2>1, <3>1, <3>2, <3>3, Zenon DEF geocode
  <2>. QED
    BY <1>1, <1>2, <1>5, <2>2, Zenon DEF Placed, NoCoordinates
<1>. QED
  BY <1>3, <1>4, <1>5, Zenon

\* An update of a row leaves a row of a later version, and what it wrote if nobody wrote meanwhile.
LEMMA MergedEvent ==
  ASSUME NEW seen, NEW mine, NEW now, NEW r, r = Merge(seen, mine, now),
         EventColumns(seen), EventColumns(mine), EventColumns(now), mine.version = seen.version + 1
  PROVE  /\ EventColumns(r) /\ r.version # 1 /\ r # NoEvent
         /\ Placed(mine) /\ seen = now => Placed(r)
<1>1. /\ DOMAIN r = DOMAIN now
      /\ \A c \in DOMAIN now : r[c] = IF mine[c] = seen[c] THEN now[c] ELSE mine[c]
  BY Zenon DEF Merge
<1>2. r.version = mine.version /\ r.version \in Nat \ {0} /\ r.version # 1
  <2>1. r.version = IF mine.version = seen.version THEN now.version ELSE mine.version
    BY <1>1, Zenon DEF EventColumns
  <2>. QED
    BY <2>1 DEF EventColumns
<1>3. EventColumns(r)
  BY <1>1, <1>2, Zenon DEF EventColumns
<1>4. NoEvent.version = 0
  BY Zenon DEF NoEvent
<1>5. ASSUME Placed(mine), seen = now PROVE Placed(r)
  <2>1. /\ r.provider = mine.provider /\ r.format = mine.format /\ r.coords = mine.coords
        /\ r.city = mine.city /\ r.postcode = mine.postcode /\ r.geocode = mine.geocode
    BY <1>1, <1>5, Zenon DEF EventColumns
  <2>. QED
    BY <1>5, <2>1, Zenon DEF Placed
<1>. QED
  BY <1>2, <1>3, <1>4, <1>5, Zenon

\* A step that changes a worker's transaction and events.
LEMMA EventsMove ==
  ASSUME EventsInv, NEW w \in EventWorker, NEW t, etx' = [etx EXCEPT ![w] = t], EventTxFacts(t)',
         DOMAIN event' = EventDedupeKey,
         \A e \in EventDedupeKey : event'[e] # NoEvent => EventColumns(event'[e]),
         \A e \in EventDedupeKey : event[e] # NoEvent => event'[e] # NoEvent, FreshFacts',
         ~mixed' => /\ ~mixed /\ \A v \in EventWorker \ {w} : etx[v] = Outside
                    /\ \A e \in EventDedupeKey : event'[e] # NoEvent => Placed(event'[e])
                    /\ t.op = "update" => t.seen = event'[t.e]
  PROVE  EventsInv'
<1>1. \A v \in EventWorker : etx'[v] = IF v = w THEN t ELSE etx[v]
  BY Zenon DEF EventsInv
<1>2. ASSUME NEW v \in EventWorker PROVE EventTxFacts(etx[v])'
  <2>1. PICK u : u = etx'[v]
    BY Zenon
  <2>2. EventTxFacts(u)'
    <3>1. CASE v = w
      BY <1>1, <2>1, <3>1, Zenon
    <3>2. CASE v # w
      <4>1. EventTxFacts(u)
        BY <1>1, <2>1, <3>2, Zenon DEF EventsInv
      <4>. QED
        BY <4>1, Zenon DEF EventTxFacts
    <3>. QED
      BY <3>1, <3>2, Zenon
  <2>. QED
    BY <2>1, <2>2 DEF EventTxFacts
<1>3. ~mixed' => EventsAlone'
  <2>1. Outside.op = "idle"
    BY Zenon DEF Outside
  <2>. QED
    BY <1>1, <2>1 DEF EventsAlone
<1>4. DOMAIN etx' = EventWorker
  BY Zenon DEF EventsInv
<1>. QED
  BY <1>2, <1>3, <1>4, Zenon DEF EventsInv

\* An open transaction that met no other is the only one.
LEMMA EventAloneIs ==
  ASSUME EventsInv, NEW w \in EventWorker, etx[w] # Outside, ~mixed
  PROVE  \A v \in EventWorker \ {w} : etx[v] = Outside
  BY Zenon DEF EventsInv, EventsAlone

\* A step that only changes a worker's transaction.
LEMMA EventsQuiet ==
  ASSUME EventsInv, NEW w \in EventWorker, NEW t, etx' = [etx EXCEPT ![w] = t], EventTxFacts(t),
         event' = event,
         ~mixed' => /\ ~mixed /\ \A v \in EventWorker \ {w} : etx[v] = Outside
                    /\ t.op = "update" => t.seen = event[t.e]
  PROVE  EventsInv'
<1>1. EventTxFacts(t)' /\ FreshFacts'
  BY Zenon DEF EventTxFacts, FreshFacts, EventsInv
<1>2. /\ DOMAIN event' = EventDedupeKey
      /\ \A e \in EventDedupeKey : event'[e] # NoEvent => EventColumns(event'[e])
      /\ \A e \in EventDedupeKey : event[e] # NoEvent => event'[e] # NoEvent
  BY Zenon DEF EventsInv
<1>3. ~mixed => \A e \in EventDedupeKey : event'[e] # NoEvent => Placed(event'[e])
  BY Zenon DEF EventsInv, EventsAlone
<1>. QED
  BY <1>1, <1>2, <1>3, EventsMove, Zenon

\* A pass reads the pending items.
LEMMA EventPassReadStep ==
  ASSUME EventsInv, NEW w \in EventWorker, EventPassRead(w)
  PROVE  EventsInv'
<1>1. PICK t : t = [op |-> "pass", todo |-> {x \in EventItem : eventParse[x] = "pending"}, done |-> {},
                    events |-> [e \in {} |-> NoEvent], people |-> [p \in {} |-> NoParticipant]]
  BY Zenon
<1>2. Enters(w, t) /\ event' = event
  BY <1>1, Zenon DEF EventPassRead
<1>3. EventTxFacts(t) /\ t.op = "pass"
  BY <1>1, Zenon DEF EventTxFacts
<1>. QED
  BY <1>2, <1>3, EventsQuiet, Zenon DEF Enters

\* A pass takes the next item.
LEMMA ParseEventItemStep ==
  ASSUME EventsInv, NEW w \in EventWorker, NEW x \in EventItem, ParseEventItem(w, x)
  PROVE  EventsInv'
<1>1. PICK t : t = etx[w]
  BY Zenon
<1>2. PICK people, new :
        /\ people = {p \in PeopleOf(t, x) : participant[p] = NoParticipant /\ p \notin DOMAIN t.people}
        /\ new = IF event[EventKeyOf(x)] = NoEvent /\ EventKeyOf(x) \notin DOMAIN t.events
                   THEN {EventKeyOf(x)} ELSE {}
  BY Zenon
<1>3. PICK u : u =
        [t EXCEPT
            !.todo = @ \ {x},
            !.done = @ \cup {x},
            !.events = [k \in DOMAIN @ \cup new |-> IF k \in new THEN DiscoveredEvent(x) ELSE @[k]],
            !.people = [p \in DOMAIN @ \cup people |->
                          IF p \in people THEN DiscoveredParticipant(x) ELSE @[p]]]
  BY Zenon
<1>4. /\ t.op = "pass" /\ etx' = [etx EXCEPT ![w] = u] /\ event' = event /\ mixed' = mixed
  BY <1>1, <1>2, <1>3 DEF ParseEventItem
<1>5. EventTxFacts(t) /\ etx[w] # Outside
  <2>1. Outside.op = "idle"
    BY Zenon DEF Outside
  <2>. QED
    BY <1>1, <1>4, <2>1, Zenon DEF EventsInv
<1>6. /\ u.op = "pass" /\ DOMAIN u = DOMAIN t /\ u.todo \subseteq t.todo
      /\ u.events = [k \in DOMAIN t.events \cup new |-> IF k \in new THEN DiscoveredEvent(x) ELSE t.events[k]]
  BY <1>3, <1>4, <1>5, Zenon DEF EventTxFacts
<1>7. ASSUME NEW e \in DOMAIN u.events
      PROVE  \E y \in EventItem : e = EventKeyOf(y) /\ u.events[e] = DiscoveredEvent(y)
  <2>1. CASE e \in new
    BY <1>2, <1>6, <2>1, Zenon
  <2>2. CASE e \notin new
    BY <1>4, <1>5, <1>6, <2>2 DEF EventTxFacts
  <2>. QED
    BY <2>1, <2>2, Zenon
<1>8. EventTxFacts(u)
  BY <1>4, <1>5, <1>6, <1>7, Zenon DEF EventTxFacts
<1>. QED
  BY <1>4, <1>5, <1>6, <1>8, EventsQuiet, EventAloneIs, Zenon

\* An edit reads its event and asks the geocoder.
LEMMA UpdateReadStep ==
  ASSUME EventsInv, NEW w \in EventWorker, NEW k, NEW e \in EventDedupeKey, NEW change \in Change,
         UpdateRead(w, k, e, change)
  PROVE  EventsInv'
<1>1. PICK row : row = [Changed(event[e], change) EXCEPT !.version = @ + 1]
  BY Zenon
<1>2. PICK g \in ApplyEventGeocode(row) :
        Enters(w, [op |-> "update", key |-> k, e |-> e, seen |-> event[e], mine |-> Geocoded(row, g)])
  BY <1>1, Zenon DEF UpdateRead
<1>3. PICK t : t = [op |-> "update", key |-> k, e |-> e, seen |-> event[e], mine |-> Geocoded(row, g)]
  BY Zenon
<1>4. event[e] # NoEvent /\ EventColumns(event[e]) /\ event' = event
  BY Zenon DEF UpdateRead, EventsInv
<1>5. "version" \notin DOMAIN change
  BY DEF Change
<1>6. EventColumns(row) /\ row.version = event[e].version + 1
  <2>1. PICK q : q = Changed(event[e], change)
    BY Zenon
  <2>2. DOMAIN q = DOMAIN event[e] /\ q.version = event[e].version
    BY <1>4, <1>5, <2>1, Zenon DEF Changed, EventColumns
  <2>3. DOMAIN row = DOMAIN q /\ row.version = event[e].version + 1
    BY <1>1, <1>4, <2>1, <2>2, Zenon DEF EventColumns
  <2>. QED
    BY <1>4, <2>2, <2>3 DEF EventColumns
<1>7. PICK s : s = Geocoded(row, g)
  BY Zenon
<1>8. EventColumns(s) /\ Placed(s) /\ s.version = event[e].version + 1
  BY <1>6, <1>7, GeocodedFacts, Zenon
<1>9. EventTxFacts(t) /\ t.seen = event[t.e]
  BY <1>3, <1>4, <1>7, <1>8, Zenon DEF EventTxFacts
<1>. QED
  BY <1>2, <1>3, <1>4, <1>9, EventsQuiet, Zenon DEF Enters

\* A worker without a transaction promises nothing.
LEMMA EventLeaves ==
  ASSUME NEW t, t = Outside
  PROVE  EventTxFacts(t) /\ EventTxFacts(t)' /\ t.op # "update"
<1>1. t.op = "idle"
  BY Zenon DEF Outside
<1>. QED
  BY <1>1, Zenon DEF EventTxFacts

\* A transaction that ends without a commit.
LEMMA EventsRollbackStep ==
  ASSUME EventsInv, NEW w \in EventWorker, EventsRollback(w)
  PROVE  EventsInv'
<1>1. PICK t : t = Outside
  BY Zenon
<1>2. EventTxFacts(t) /\ t.op # "update"
  BY <1>1, EventLeaves, Zenon
<1>3. etx[w] # Outside /\ etx' = [etx EXCEPT ![w] = t] /\ event' = event /\ mixed' = mixed
  BY <1>1, Zenon DEF EventsRollback, Leaves
<1>. QED
  BY <1>2, <1>3, EventsQuiet, EventAloneIs, Zenon

\* A pass commits the events it discovered.
LEMMA EventPassCommitStep ==
  ASSUME EventsInv, NEW w \in EventWorker, EventPassCommit(w)
  PROVE  EventsInv'
<1>1. PICK t, u : t = etx[w] /\ u = Outside
  BY Zenon
<1>2. /\ t.op = "pass" /\ mixed' = mixed /\ etx' = [etx EXCEPT ![w] = u]
      /\ event' = [e \in EventDedupeKey |-> IF e \in DOMAIN t.events THEN t.events[e] ELSE event[e]]
  BY <1>1, Zenon DEF EventPassCommit, Leaves
<1>3. EventTxFacts(t) /\ etx[w] # Outside
  <2>1. Outside.op = "idle"
    BY Zenon DEF Outside
  <2>. QED
    BY <1>1, <1>2, <2>1, Zenon DEF EventsInv
<1>4. ASSUME NEW e \in EventDedupeKey, e \in DOMAIN t.events
      PROVE  \E x \in EventItem : /\ e = EventKeyOf(x) /\ event'[e] = DiscoveredEvent(x)
                                  /\ event'[e].source = x /\ EventColumns(event'[e])
                                  /\ Placed(event'[e]) /\ event'[e] # NoEvent
  <2>1. PICK x \in EventItem : e = EventKeyOf(x) /\ t.events[e] = DiscoveredEvent(x)
    BY <1>2, <1>3, <1>4, Zenon DEF EventTxFacts
  <2>2. PICK r : r = DiscoveredEvent(x)
    BY Zenon
  <2>3. event'[e] = r
    BY <1>2, <1>4, <2>1, <2>2, Zenon
  <2>4. r.source = x /\ EventColumns(r) /\ Placed(r) /\ r # NoEvent
    BY <2>2, DiscoveredFacts, Zenon
  <2>. QED
    BY <2>1, <2>2, <2>3, <2>4, Zenon
<1>5. ASSUME NEW e \in EventDedupeKey, e \notin DOMAIN t.events PROVE event'[e] = event[e]
  BY <1>2, <1>5, Zenon
<1>6. /\ DOMAIN event' = EventDedupeKey
      /\ \A e \in EventDedupeKey : event'[e] # NoEvent => EventColumns(event'[e])
      /\ \A e \in EventDedupeKey : event[e] # NoEvent => event'[e] # NoEvent
  BY <1>2, <1>4, <1>5, Zenon DEF EventsInv
<1>7. FreshFacts'
  <2>1. \A x \in EventItem : EventKeyOf(x) \in EventDedupeKey
    BY Zenon DEF EventDedupeKey
  <2>2. ASSUME NEW x \in EventItem, event'[EventKeyOf(x)] # NoEvent,
               event'[EventKeyOf(x)].source = x, event'[EventKeyOf(x)].version = 1
        PROVE  event'[EventKeyOf(x)] = DiscoveredEvent(x)
    <3>1. CASE EventKeyOf(x) \in DOMAIN t.events
      BY <1>4, <2>1, <2>2, <3>1
    <3>2. CASE EventKeyOf(x) \notin DOMAIN t.events
      BY <1>5, <2>1, <2>2, <3>2, Zenon DEF EventsInv, FreshFacts
    <3>. QED
      BY <3>1, <3>2, Zenon
  <2>. QED
    BY <2>2, Zenon DEF FreshFacts
<1>8. ASSUME ~mixed PROVE \A e \in EventDedupeKey : event'[e] # NoEvent => Placed(event'[e])
  BY <1>4, <1>5, <1>8, Zenon DEF EventsInv, EventsAlone
<1>9. EventTxFacts(u)' /\ u.op # "update"
  BY <1>1, EventLeaves, Zenon
<1>10. ~mixed => \A v \in EventWorker \ {w} : etx[v] = Outside
  BY <1>3, EventAloneIs, Zenon
<1>. QED
  BY <1>2, <1>6, <1>7, <1>8, <1>9, <1>10, EventsMove, Zenon

\* An edit commits the next version.
LEMMA UpdateCommitStep ==
  ASSUME EventsInv, NEW w \in EventWorker, UpdateCommit(w)
  PROVE  EventsInv'
<1>1. PICK t, u : t = etx[w] /\ u = Outside
  BY Zenon
<1>2. /\ t.op = "update" /\ mixed' = mixed /\ etx' = [etx EXCEPT ![w] = u]
      /\ event' = [event EXCEPT ![t.e] = Merge(t.seen, t.mine, @)]
  BY <1>1, Zenon DEF UpdateCommit, Leaves
<1>3. EventTxFacts(t) /\ etx[w] # Outside /\ DOMAIN event = EventDedupeKey
  <2>1. Outside.op = "idle"
    BY Zenon DEF Outside
  <2>. QED
    BY <1>1, <1>2, <2>1, Zenon DEF EventsInv
<1>4. PICK seen, mine, now, e : seen = t.seen /\ mine = t.mine /\ now = event[t.e] /\ e = t.e
  BY Zenon
<1>5. /\ e \in EventDedupeKey /\ now # NoEvent /\ EventColumns(now)
      /\ EventColumns(seen) /\ EventColumns(mine) /\ Placed(mine) /\ mine.version = seen.version + 1
  BY <1>2, <1>3, <1>4, Zenon DEF EventTxFacts, EventsInv
<1>6. PICK r : r = Merge(seen, mine, now)
  BY Zenon
<1>7. EventColumns(r) /\ r.version # 1 /\ r # NoEvent /\ (seen = now => Placed(r))
  BY <1>5, <1>6, MergedEvent
<1>8. \A f \in EventDedupeKey : event'[f] = IF f = e THEN r ELSE event[f]
  BY <1>2, <1>3, <1>4, <1>6, Zenon
<1>9. /\ DOMAIN event' = EventDedupeKey
      /\ \A f \in EventDedupeKey : event'[f] # NoEvent => EventColumns(event'[f])
      /\ \A f \in EventDedupeKey : event[f] # NoEvent => event'[f] # NoEvent
  BY <1>2, <1>3, <1>7, <1>8, Zenon DEF EventsInv
<1>10. FreshFacts'
  <2>1. \A x \in EventItem : EventKeyOf(x) \in EventDedupeKey
    BY Zenon DEF EventDedupeKey
  <2>. QED
    BY <1>7, <1>8, <2>1, Zenon DEF EventsInv, FreshFacts
<1>11. ASSUME ~mixed PROVE \A f \in EventDedupeKey : event'[f] # NoEvent => Placed(event'[f])
  <2>1. seen = now
    BY <1>1, <1>2, <1>4, <1>11, Zenon DEF EventsInv, EventsAlone
  <2>. QED
    BY <1>7, <1>8, <1>11, <2>1, Zenon DEF EventsInv, EventsAlone
<1>12. EventTxFacts(u)' /\ u.op # "update"
  BY <1>1, EventLeaves, Zenon
<1>13. ~mixed => \A v \in EventWorker \ {w} : etx[v] = Outside
  BY <1>3, EventAloneIs, Zenon
<1>. QED
  BY <1>2, <1>9, <1>10, <1>11, <1>12, <1>13, EventsMove, ZenonT(60)

\* No item's event has the key of a manual one.
LEMMA ManualKeysDiffer ==
  ASSUME NEW k, NEW x \in EventItem
  PROVE  <<"manual", k>> # EventKeyOf(x)
<1>1. EventKeyOf(x)[1] \in {"external", "event"}
  BY Zenon DEF EventKeyOf, build_event_dedupe_key
<1>2. <<"manual", k>>[1] = "manual"
  BY Zenon
<1>. QED
  BY <1>1, <1>2, Zenon

\* A manual event is created with its geocode.
LEMMA CreateManualEventStep ==
  ASSUME EventsInv, NEW k \in EventKeys, NEW format, NEW city, NEW postcode,
         CreateManualEvent(k, format, city, postcode)
  PROVE  EventsInv'
<1>1. PICK row : row = [format |-> format, city |-> city, postcode |-> postcode, geocode |-> "not_required",
              coords |-> NoCoordinates, provider |-> "", timezone |-> "resolved", source |-> "",
              starts |-> <<CHOOSE u \in Instants : TRUE>>, version |-> 1]
  BY Zenon
<1>2. PICK m : m = <<"manual", k>>
  BY Zenon
<1>3. PICK g \in ApplyEventGeocode(row) : event' = [event EXCEPT ![m] = Geocoded(row, g)]
  BY <1>1, <1>2, Zenon DEF CreateManualEvent
<1>4. event[m] = NoEvent /\ etx' = etx /\ mixed' = mixed
  BY <1>2, Zenon DEF CreateManualEvent
<1>5. PICK r : r = Geocoded(row, g)
  BY Zenon
<1>6. EventColumns(row)
  BY <1>1, NewEvent, Zenon
<1>7. EventColumns(r) /\ Placed(r)
  BY <1>5, <1>6, GeocodedFacts, Zenon
<1>8. r # NoEvent
  <2>1. NoEvent.version = 0
    BY Zenon DEF NoEvent
  <2>. QED
    BY <1>7, <2>1, Zenon DEF EventColumns
<1>9. /\ DOMAIN event = EventDedupeKey /\ DOMAIN event' = EventDedupeKey
      /\ \A f \in EventDedupeKey : event'[f] = IF f = m THEN r ELSE event[f]
  BY <1>3, <1>5, Zenon DEF EventsInv
<1>10. /\ \A f \in EventDedupeKey : event'[f] # NoEvent => EventColumns(event'[f])
       /\ \A f \in EventDedupeKey : event[f] # NoEvent => event'[f] = event[f]
  BY <1>4, <1>7, <1>9, Zenon DEF EventsInv
<1>11. FreshFacts'
  <2>1. \A x \in EventItem : EventKeyOf(x) \in EventDedupeKey /\ EventKeyOf(x) # m
    BY <1>2, ManualKeysDiffer, Zenon DEF EventDedupeKey
  <2>. QED
    BY <1>9, <2>1, Zenon DEF EventsInv, FreshFacts
<1>12. ASSUME NEW w \in EventWorker PROVE EventTxFacts(etx[w])'
  <2>1. PICK t : t = etx[w]
    BY Zenon
  <2>2. EventTxFacts(t)
    BY <2>1, Zenon DEF EventsInv
  <2>3. EventTxFacts(t)'
    BY <1>10, <2>2, Zenon DEF EventTxFacts
  <2>. QED
    BY <1>4, <2>1, <2>3, Zenon DEF EventTxFacts
<1>13. ASSUME ~mixed PROVE EventsAlone'
  <2>1. EventsAlone /\ \A w \in EventWorker : EventTxFacts(etx[w])
    BY <1>13, Zenon DEF EventsInv
  <2>2. \A w \in EventWorker : etx[w].op = "update" => etx[w].seen = event'[etx[w].e]
    BY <1>10, <2>1, Zenon DEF EventsAlone, EventTxFacts
  <2>3. \A f \in EventDedupeKey : event'[f] # NoEvent => Placed(event'[f])
    BY <1>7, <1>9, <2>1, Zenon DEF EventsAlone
  <2>. QED
    BY <1>4, <2>1, <2>2, <2>3, Zenon DEF EventsAlone
<1>. QED
  BY <1>4, <1>9, <1>10, <1>11, <1>12, <1>13, Zenon DEF EventsInv

\* Every step keeps the invariant.
LEMMA EventsStep ==
  ASSUME EventsInv, [EventsNext]_evars
  PROVE  EventsInv'
<1>1. ASSUME event' = event, etx' = etx, mixed' = mixed PROVE EventsInv'
  BY <1>1 DEF EventsInv, EventsAlone, FreshFacts, EventTxFacts
<1>2. CASE UNCHANGED evars
  BY <1>1, <1>2, Zenon DEF evars
<1>3. ASSUME NEW k, NEW e, NEW reuse, NEW contact, NEW export,
             CreateEventParticipant(k, e, reuse, contact, export)
      PROVE  EventsInv'
  BY <1>1, <1>3, Zenon DEF CreateEventParticipant
<1>4. ASSUME NEW x, EventItemIngested(x) PROVE EventsInv'
  BY <1>1, <1>4, Zenon DEF EventItemIngested
<1>. QED
  BY <1>2, <1>3, <1>4, EventPassReadStep, ParseEventItemStep, EventPassCommitStep, UpdateReadStep,
     UpdateCommitStep, EventsRollbackStep, CreateManualEventStep, ZenonT(60) DEF EventsNext,
     event_update, event_create_manual, event_participant_create

\* The invariant holds in every behaviour.
LEMMA EventsInvariant == EventsSpec => []EventsInv
  BY EventsInitial, EventsStep, PTL DEF EventsSpec

\* As long as edits do not overlap, coordinates from the geocoder are those of the address the event has
\* (event_intelligence/geocoding.py:38-74, events.py:143-218).
THEOREM PlacedWhereItIs == EventsSpec => []CoordinatesMatchAddress
<1>1. EventsInv => CoordinatesMatchAddress
  BY Zenon DEF EventsInv, EventsAlone, Placed, CoordinatesMatchAddress
<1>. QED
  BY <1>1, EventsInvariant, PTL

\* An event whose time is resolved has, until somebody edits it, the one instant at which its zone shows
\* the published local time, however passes and edits overlap (candidates.py:69-103, repository.py:65-139).
THEOREM TimeIsCertain == EventsSpec => []ResolvedTimeIsCertain
<1>1. ASSUME EventsInv PROVE ResolvedTimeIsCertain
  <2>1. ASSUME NEW x \in EventItem, RawOf[x].start.kind = "naive", HintOf[x].kind = "zone",
               NEW e, e = event[EventKeyOf(x)], e # NoEvent, e.source = x, e.timezone = "resolved",
               e.version = 1
        PROVE  /\ e.starts # NoInstant
               /\ {u \in Instants : LocalTime(HintOf[x].zone, u) = RawOf[x].start.local} = {e.starts[1]}
    <3>1. PICK local, zone, time : /\ local = RawOf[x].start.local /\ zone = HintOf[x].zone
                                   /\ time = normalize_event_time(RawOf[x].start, HintOf[x])
      BY Zenon
    <3>2. e = DiscoveredEvent(x)
      BY <1>1, <2>1, ZenonT(60) DEF EventsInv, FreshFacts
    <3>3. time.status = "resolved" /\ e.starts = time.utc
      BY <2>1, <3>1, <3>2, DiscoveredFacts
    <3>4. time = IF is_ambiguous_local_time(local, zone)
                   THEN NormalizedTime("ambiguous", NoInstant)
                   ELSE NormalizedTime("resolved", <<local - utcoffset(local, zone, 0)>>)
      BY <2>1, <3>1, Zenon DEF normalize_event_time
    <3>5. ~is_ambiguous_local_time(local, zone) /\ time.utc = <<local - utcoffset(local, zone, 0)>>
      BY <3>3, <3>4, Zenon DEF NormalizedTime
    <3>6. PICK utc : utc = local - utcoffset(local, zone, 0)
      BY Zenon
    <3>7. local \in Int /\ zone \in Zone /\ Instants \subseteq Int /\ utc \in Instants
      BY <2>1, <3>1, <3>3, <3>5, <3>6, EventsAssumption
    <3>8. LocalTime(zone, utc) = local /\ \A u \in Int : LocalTime(zone, u) = local => u = utc
      BY <3>5, <3>6, <3>7, ResolvedIsTheInstant, Zenon
    <3>9. e.starts = <<utc>> /\ <<utc>> # NoInstant
      BY <3>3, <3>5, <3>6, Zenon DEF NoInstant
    <3>10. e.starts[1] = utc
      BY <3>9
    <3>11. {u \in Instants : LocalTime(zone, u) = local} = {utc}
      BY <3>7, <3>8, Zenon
    <3>. QED
      BY <3>1, <3>9, <3>10, <3>11, Zenon
  <2>. QED
    BY <2>1, Zenon DEF ResolvedTimeIsCertain
<1>. QED
  BY <1>1, EventsInvariant, PTL

(***************************************************************************)
(* What items publish.  A pass has, for every item it is done with, the    *)
(* event and the participants of it, its own or stored ones; nobody takes  *)
(* a stored one away.                                                      *)
(***************************************************************************)
Permitted(r) == r.contact \/ r.export => r.reuse = "allowed"

PassFacts(t) ==
  t.op = "pass" =>
    /\ t.todo \subseteq EventItem /\ t.done \subseteq EventItem
    /\ \A e \in DOMAIN t.events : t.events[e] # NoEvent
    /\ \A p \in DOMAIN t.people : t.people[p] # NoParticipant /\ Permitted(t.people[p])
    /\ \A x \in t.done :
         /\ event[EventKeyOf(x)] # NoEvent \/ EventKeyOf(x) \in DOMAIN t.events
         /\ \A p \in PeopleOf(t, x) : participant[p] # NoParticipant \/ p \in DOMAIN t.people

PublishedInv ==
  /\ DOMAIN participant = ParticipantKey
  /\ ParsedEventIsKnown /\ ReuseIsPermitted
  /\ \A w \in EventWorker : PassFacts(etx[w])

\* The keys of what an item publishes are keys of events and participants.
LEMMA PublishedKeys ==
  ASSUME NEW x \in EventItem, NEW t
  PROVE  EventKeyOf(x) \in EventDedupeKey /\ PeopleOf(t, x) \subseteq ParticipantKey
<1>1. PICK people : people = PeopleOf(t, x)
  BY Zenon
<1>2. people \in {{build_participant_dedupe_key(EventKeyOf(y), p) : p \in RawOf[y].people} :
        y \in EventItem}
  BY <1>1, Zenon DEF PeopleOf
<1>3. people \subseteq ParticipantKey
  BY <1>2 DEF ParticipantKey
<1>. QED
  BY <1>1, <1>3, Zenon DEF EventDedupeKey

\* A participant that an item gives is used as its source permits.
LEMMA DiscoveredPermitted ==
  ASSUME NEW x, NEW r, r = DiscoveredParticipant(x)
  PROVE  r # NoParticipant /\ Permitted(r)
<1>1. PICK reuse, allowed : reuse = ReuseOf[x] /\ allowed = (ReuseOf[x] = "allowed")
  BY Zenon
<1>2. r = [reuse |-> reuse, contact |-> allowed, export |-> allowed]
  BY <1>1 DEF DiscoveredParticipant, participant_eligibility
<1>3. reuse = "allowed" \/ allowed = FALSE
  BY <1>1, Zenon
<1>4. r.reuse = reuse /\ r.contact = allowed /\ r.export = allowed
  BY <1>2
<1>5. r.reuse = "allowed" \/ (r.contact = FALSE /\ r.export = FALSE)
  BY <1>3, <1>4
<1>6. "contact" \in DOMAIN r /\ "contact" \notin DOMAIN NoParticipant
  BY <1>2 DEF NoParticipant
<1>. QED
  BY <1>5, <1>6, Zenon DEF Permitted

\* Stored events and participants stay.
PublishedStay ==
  /\ \A e \in EventDedupeKey : event[e] # NoEvent => event'[e] # NoEvent
  /\ \A p \in ParticipantKey : participant[p] # NoParticipant => participant'[p] # NoParticipant

\* As long as they stay, a pass keeps what it has.
LEMMA PassKeeps ==
  ASSUME NEW t, PassFacts(t), PublishedStay
  PROVE  PassFacts(t)'
<1>1. ASSUME t.op = "pass", NEW x \in t.done
      PROVE  /\ event'[EventKeyOf(x)] # NoEvent \/ EventKeyOf(x) \in DOMAIN t.events
             /\ \A p \in PeopleOf(t, x) : participant'[p] # NoParticipant \/ p \in DOMAIN t.people
  <2>1. x \in EventItem
    BY <1>1, Zenon DEF PassFacts
  <2>2. EventKeyOf(x) \in EventDedupeKey /\ PeopleOf(t, x) \subseteq ParticipantKey
    BY <2>1, PublishedKeys, Zenon
  <2>. QED
    BY <1>1, <2>2, Zenon DEF PassFacts, PublishedStay
<1>. QED
  BY <1>1, Zenon DEF PassFacts

\* A step of one worker that takes nothing away.
LEMMA PublishedMove ==
  ASSUME PublishedInv, PublishedStay, NEW w \in EventWorker, NEW t, DOMAIN etx = EventWorker,
         etx' = [etx EXCEPT ![w] = t], PassFacts(t)', DOMAIN participant' = ParticipantKey,
         ParsedEventIsKnown', ReuseIsPermitted'
  PROVE  PublishedInv'
<1>1. \A v \in EventWorker : etx'[v] = IF v = w THEN t ELSE etx[v]
  BY Zenon
<1>2. ASSUME NEW v \in EventWorker PROVE PassFacts(etx[v])'
  <2>1. PICK u : u = etx'[v]
    BY Zenon
  <2>2. PassFacts(u)'
    <3>1. CASE v = w
      BY <1>1, <2>1, <3>1, Zenon
    <3>2. CASE v # w
      <4>1. PassFacts(u)
        BY <1>1, <2>1, <3>2, Zenon DEF PublishedInv
      <4>. QED
        BY <4>1, PassKeeps, Zenon
    <3>. QED
      BY <3>1, <3>2, Zenon
  <2>. QED
    BY <2>1, <2>2 DEF PassFacts
<1>. QED
  BY <1>2, Zenon DEF PublishedInv

\* Parsed items stay known while what is stored stays and no other item becomes parsed.
LEMMA KnownStays ==
  ASSUME ParsedEventIsKnown, PublishedStay,
         \A x \in EventItem : eventParse'[x] = "parsed" => eventParse[x] = "parsed"
  PROVE  ParsedEventIsKnown'
<1>. SUFFICES ASSUME NEW x \in EventItem, eventParse'[x] = "parsed"
              PROVE  /\ event'[EventKeyOf(x)] # NoEvent
                     /\ \A person \in RawOf[x].people :
                          participant'[build_participant_dedupe_key(EventKeyOf(x),
                            person)] # NoParticipant
  BY Zenon DEF ParsedEventIsKnown
<1>1. PICK t : t = PeopleOf(0, x)
  BY Zenon
<1>2. EventKeyOf(x) \in EventDedupeKey /\ t \subseteq ParticipantKey
  BY <1>1, PublishedKeys, Zenon
<1>3. /\ event[EventKeyOf(x)] # NoEvent
      /\ \A p \in t : participant[p] # NoParticipant
  BY <1>1, Zenon DEF ParsedEventIsKnown, PeopleOf
<1>4. \A p \in t : participant'[p] # NoParticipant
  BY <1>2, <1>3, Zenon DEF PublishedStay
<1>. QED
  BY <1>1, <1>2, <1>3, <1>4, Zenon DEF PublishedStay, PeopleOf

\* A step of one worker that stores nothing.
LEMMA PublishedQuiet ==
  ASSUME PublishedInv, NEW w \in EventWorker, NEW t, DOMAIN etx = EventWorker,
         etx' = [etx EXCEPT ![w] = t], PassFacts(t),
         event' = event, participant' = participant, eventParse' = eventParse
  PROVE  PublishedInv'
<1>1. PublishedStay
  BY Zenon DEF PublishedStay
<1>2. PassFacts(t)'
  BY <1>1, PassKeeps, Zenon
<1>3. ParsedEventIsKnown' /\ ReuseIsPermitted' /\ DOMAIN participant' = ParticipantKey
  BY Zenon DEF PublishedInv, ParsedEventIsKnown, ReuseIsPermitted
<1>. QED
  BY <1>1, <1>2, <1>3, PublishedMove, Zenon

\* A pass takes the next item: what is missing of it is added.
LEMMA ParsePublishes ==
  ASSUME EventsInv, PublishedInv, NEW w \in EventWorker, NEW x \in EventItem, ParseEventItem(w, x)
  PROVE  PublishedInv'
<1>1. PICK t : t = etx[w]
  BY Zenon
<1>2. PICK people, new :
        /\ people = {p \in PeopleOf(t, x) : participant[p] = NoParticipant
             /\ p \notin DOMAIN t.people}
        /\ new = IF event[EventKeyOf(x)] = NoEvent /\ EventKeyOf(x) \notin DOMAIN t.events
                   THEN {EventKeyOf(x)} ELSE {}
  BY Zenon
<1>3. PICK u : u =
        [t EXCEPT
            !.todo = @ \ {x},
            !.done = @ \cup {x},
            !.events = [k \in DOMAIN @ \cup new |-> IF k \in new THEN DiscoveredEvent(x) ELSE @[k]],
            !.people = [p \in DOMAIN @ \cup people |->
                          IF p \in people THEN DiscoveredParticipant(x) ELSE @[p]]]
  BY Zenon
<1>4. /\ t.op = "pass" /\ etx' = [etx EXCEPT ![w] = u] /\ event' = event
      /\ participant' = participant /\ eventParse' = eventParse
  BY <1>1, <1>2, <1>3 DEF ParseEventItem
<1>5. EventTxFacts(t) /\ PassFacts(t) /\ DOMAIN etx = EventWorker
  BY <1>1, Zenon DEF EventsInv, PublishedInv
<1>6. /\ u.op = "pass" /\ u.todo = t.todo \ {x} /\ u.done = t.done \cup {x}
      /\ u.events = [k \in DOMAIN t.events \cup new |-> IF k \in new THEN DiscoveredEvent(x)
                                                           ELSE t.events[k]]
      /\ u.people = [p \in DOMAIN t.people \cup people |->
                       IF p \in people THEN DiscoveredParticipant(x) ELSE t.people[p]]
  BY <1>3, <1>4, <1>5, Zenon DEF EventTxFacts
<1>7. PICK found, person : found = DiscoveredEvent(x) /\ person = DiscoveredParticipant(x)
  BY Zenon
<1>8. found # NoEvent /\ person # NoParticipant /\ Permitted(person)
  BY <1>7, DiscoveredFacts, DiscoveredPermitted, Zenon
<1>9. /\ \A e \in DOMAIN u.events : u.events[e] # NoEvent
      /\ \A p \in DOMAIN u.people : u.people[p] # NoParticipant /\ Permitted(u.people[p])
  BY <1>4, <1>5, <1>6, <1>7, <1>8, Zenon DEF PassFacts
<1>10. ASSUME NEW y \in u.done
       PROVE  /\ event[EventKeyOf(y)] # NoEvent \/ EventKeyOf(y) \in DOMAIN u.events
              /\ \A p \in PeopleOf(u, y) : participant[p] # NoParticipant \/ p \in DOMAIN u.people
  <2>1. DOMAIN u.events = DOMAIN t.events \cup new /\ DOMAIN u.people = DOMAIN t.people \cup people
    BY <1>6, Zenon
  <2>2. PeopleOf(u, y) = PeopleOf(t, y)
    BY Zenon DEF PeopleOf
  <2>3. CASE y = x
    BY <1>2, <2>1, <2>2, <2>3, Zenon
  <2>4. CASE y \in t.done
    BY <1>4, <1>5, <2>1, <2>2, <2>4, Zenon DEF PassFacts
  <2>. QED
    BY <1>6, <2>3, <2>4, Zenon
<1>11. PassFacts(u)
  BY <1>4, <1>5, <1>6, <1>9, <1>10, Zenon DEF PassFacts
<1>. QED
  BY <1>4, <1>5, <1>11, PublishedQuiet, Zenon

\* A pass commits what it found.
LEMMA CommitPublishes ==
  ASSUME EventsInv, PublishedInv, NEW w \in EventWorker, EventPassCommit(w)
  PROVE  PublishedInv'
<1>1. PICK t, u : t = etx[w] /\ u = Outside
  BY Zenon
<1>2. /\ t.op = "pass" /\ etx' = [etx EXCEPT ![w] = u]
      /\ eventParse' = [x \in EventItem |-> IF x \in t.done THEN "parsed" ELSE eventParse[x]]
      /\ event' = [e \in EventDedupeKey |-> IF e \in DOMAIN t.events THEN t.events[e] ELSE event[e]]
      /\ participant' = [p \in ParticipantKey |->
                           IF p \in DOMAIN t.people THEN t.people[p] ELSE participant[p]]
  BY <1>1, Zenon DEF EventPassCommit, Leaves
<1>3. PassFacts(t) /\ DOMAIN etx = EventWorker
  BY <1>1, Zenon DEF EventsInv, PublishedInv
<1>4. PublishedStay
  BY <1>2, <1>3, Zenon DEF PublishedStay, PassFacts
<1>5. DOMAIN participant' = ParticipantKey /\ ReuseIsPermitted'
  <2>1. ASSUME NEW p \in ParticipantKey, p[1] # "manual", participant'[p] # NoParticipant
        PROVE  Permitted(participant'[p])
    <3>1. CASE p \in DOMAIN t.people
      BY <1>2, <1>3, <3>1, Zenon DEF PassFacts
    <3>2. CASE p \notin DOMAIN t.people
      BY <1>2, <2>1, <3>2, Zenon DEF PublishedInv, ReuseIsPermitted, Permitted
    <3>. QED
      BY <3>1, <3>2, Zenon
  <2>. QED
    BY <1>2, <2>1, Zenon DEF ReuseIsPermitted, Permitted
<1>6. ParsedEventIsKnown'
  <2>1. ASSUME NEW x \in EventItem, x \in t.done
        PROVE  /\ event'[EventKeyOf(x)] # NoEvent
               /\ \A p \in PeopleOf(t, x) : participant'[p] # NoParticipant
    <3>1. EventKeyOf(x) \in EventDedupeKey /\ PeopleOf(t, x) \subseteq ParticipantKey
      BY PublishedKeys, Zenon
    <3>. QED
      BY <1>2, <1>3, <2>1, <3>1, Zenon DEF PassFacts
  <2>2. ASSUME NEW x \in EventItem, x \notin t.done, eventParse'[x] = "parsed"
        PROVE  /\ event'[EventKeyOf(x)] # NoEvent
               /\ \A p \in PeopleOf(t, x) : participant'[p] # NoParticipant
    <3>1. EventKeyOf(x) \in EventDedupeKey /\ PeopleOf(t, x) \subseteq ParticipantKey
      BY PublishedKeys, Zenon
    <3>2. /\ event[EventKeyOf(x)] # NoEvent
          /\ \A p \in PeopleOf(t, x) : participant[p] # NoParticipant
      BY <1>2, <2>2, Zenon DEF PublishedInv, ParsedEventIsKnown, PeopleOf
    <3>. QED
      BY <1>4, <3>1, <3>2, Zenon DEF PublishedStay
  <2>. QED
    BY <2>1, <2>2, Zenon DEF ParsedEventIsKnown, PeopleOf
<1>7. PassFacts(u)'
  <2>1. u.op = "idle"
    BY <1>1, Zenon DEF Outside
  <2>. QED
    BY <2>1, Zenon DEF PassFacts
<1>. QED
  BY <1>2, <1>3, <1>4, <1>5, <1>6, <1>7, PublishedMove, Zenon

\* An edit of an event takes nothing away.
LEMMA UpdatePublishes ==
  ASSUME EventsInv, PublishedInv, NEW w \in EventWorker, UpdateCommit(w)
  PROVE  PublishedInv'
<1>1. PICK t, u : t = etx[w] /\ u = Outside
  BY Zenon
<1>2. /\ t.op = "update" /\ etx' = [etx EXCEPT ![w] = u]
      /\ event' = [event EXCEPT ![t.e] = Merge(t.seen, t.mine, @)]
      /\ eventParse' = eventParse /\ participant' = participant
  BY <1>1, Zenon DEF UpdateCommit, Leaves
<1>3. EventTxFacts(t) /\ DOMAIN event = EventDedupeKey /\ DOMAIN etx = EventWorker
  BY <1>1, Zenon DEF EventsInv
<1>4. PICK seen, mine, now, e : seen = t.seen /\ mine = t.mine /\ now = event[t.e] /\ e = t.e
  BY Zenon
<1>5. /\ e \in EventDedupeKey /\ EventColumns(now)
      /\ EventColumns(seen) /\ EventColumns(mine) /\ mine.version = seen.version + 1
  BY <1>2, <1>3, <1>4, Zenon DEF EventTxFacts, EventsInv
<1>6. PICK r : r = Merge(seen, mine, now)
  BY Zenon
<1>7. r # NoEvent
  BY <1>5, <1>6, MergedEvent
<1>8. \A f \in EventDedupeKey : event'[f] = IF f = e THEN r ELSE event[f]
  BY <1>2, <1>3, <1>4, <1>6, Zenon
<1>9. PublishedStay
  BY <1>2, <1>7, <1>8, Zenon DEF PublishedStay
<1>10. PassFacts(u)'
  <2>1. u.op = "idle"
    BY <1>1, Zenon DEF Outside
  <2>. QED
    BY <2>1, Zenon DEF PassFacts
<1>11. ParsedEventIsKnown'
  BY <1>2, <1>9, KnownStays, Zenon DEF PublishedInv
<1>12. ReuseIsPermitted' /\ DOMAIN participant' = ParticipantKey
  BY <1>2, Zenon DEF PublishedInv, ReuseIsPermitted
<1>. QED
  BY <1>2, <1>3, <1>9, <1>10, <1>11, <1>12, PublishedMove, Zenon

\* A step outside the workers' transactions that takes nothing away.
LEMMA PublishedElse ==
  ASSUME PublishedInv, PublishedStay, etx' = etx, DOMAIN participant' = ParticipantKey,
         \A x \in EventItem : eventParse'[x] = "parsed"
           => eventParse[x] = "parsed", ReuseIsPermitted'
  PROVE  PublishedInv'
<1>1. ParsedEventIsKnown'
  BY KnownStays, Zenon DEF PublishedInv
<1>2. ASSUME NEW w \in EventWorker PROVE PassFacts(etx[w])'
  <2>1. PICK t : t = etx[w]
    BY Zenon
  <2>2. PassFacts(t)'
    BY <2>1, PassKeeps, Zenon DEF PublishedInv
  <2>. QED
    BY <2>1, <2>2, Zenon DEF PassFacts
<1>. QED
  BY <1>1, <1>2, Zenon DEF PublishedInv

\* A participant by hand has a key of its own and what the request says.
LEMMA ParticipantPublishes ==
  ASSUME EventsInv, PublishedInv, NEW k \in EventKeys, NEW e \in EventDedupeKey, NEW reuse,
         NEW contact,
         NEW export, CreateEventParticipant(k, e, reuse, contact, export)
  PROVE  PublishedInv'
<1>1. PICK m, r : m = <<"manual", e, k>>
        /\ r = [reuse |-> reuse, contact |-> contact, export |-> export]
  BY Zenon
<1>2. /\ participant[m] = NoParticipant /\ participant' = [participant EXCEPT ![m] = r]
      /\ etx' = etx /\ eventParse' = eventParse /\ event' = event
  BY <1>1, Zenon DEF CreateEventParticipant
<1>3. /\ DOMAIN participant' = ParticipantKey
      /\ \A p \in ParticipantKey : participant'[p] = IF p = m THEN r ELSE participant[p]
  BY <1>2, Zenon DEF PublishedInv
<1>4. PublishedStay
  BY <1>2, <1>3, Zenon DEF PublishedStay
<1>5. m[1] = "manual"
  BY <1>1, Zenon
<1>6. ReuseIsPermitted'
  BY <1>3, <1>5, Zenon DEF PublishedInv, ReuseIsPermitted
<1>. QED
  BY <1>2, <1>3, <1>4, <1>6, PublishedElse, Zenon

\* Every step keeps what was published.
LEMMA PublishedStep ==
  ASSUME EventsInv, PublishedInv, [EventsNext]_evars
  PROVE  PublishedInv'
<1>1. DOMAIN event = EventDedupeKey /\ DOMAIN etx = EventWorker
        /\ DOMAIN participant = ParticipantKey
  BY Zenon DEF EventsInv, PublishedInv
<1>2. ASSUME PublishedStay, etx' = etx, participant' = participant,
             \A x \in EventItem : eventParse'[x] = "parsed" => eventParse[x] = "parsed"
      PROVE  PublishedInv'
  BY <1>1, <1>2, PublishedElse, Zenon DEF PublishedInv, ReuseIsPermitted
<1>3. CASE UNCHANGED evars
  BY <1>2, <1>3, Zenon DEF evars, PublishedStay
<1>4. ASSUME NEW x \in EventItem, EventItemIngested(x) PROVE PublishedInv'
  <2>1. /\ eventParse[x] = "absent" /\ eventParse' = [eventParse EXCEPT ![x] = "pending"]
        /\ event' = event /\ participant' = participant /\ etx' = etx
    BY <1>4, Zenon DEF EventItemIngested
  <2>2. \A y \in EventItem : eventParse'[y] = "parsed" => eventParse[y] = "parsed"
    BY <2>1
  <2>. QED
    BY <1>2, <2>1, <2>2, Zenon DEF PublishedStay
<1>5. ASSUME NEW k \in EventKeys, NEW format, NEW city, NEW postcode,
             CreateManualEvent(k, format, city, postcode)
      PROVE  PublishedInv'
  <2>1. /\ event[<<"manual", k>>] = NoEvent /\ \E r : event' = [event EXCEPT ![<<"manual", k>>] = r]
        /\ participant' = participant /\ etx' = etx /\ eventParse' = eventParse
    BY <1>5, Zenon DEF CreateManualEvent
  <2>2. PublishedStay
    BY <1>1, <2>1, Zenon DEF PublishedStay
  <2>. QED
    BY <1>2, <2>1, <2>2, Zenon
<1>6. ASSUME NEW w \in EventWorker, NEW t, etx' = [etx EXCEPT ![w] = t], t.op # "pass",
             event' = event, participant' = participant, eventParse' = eventParse
      PROVE  PublishedInv'
  BY <1>1, <1>6, PublishedQuiet, Zenon DEF PassFacts
<1>7. ASSUME NEW w \in EventWorker, EventsRollback(w) PROVE PublishedInv'
  <2>1. PICK t : t = Outside
    BY Zenon
  <2>2. t.op # "pass"
    BY <2>1, Zenon DEF Outside
  <2>. QED
    BY <1>6, <1>7, <2>1, <2>2, Zenon DEF EventsRollback, Leaves
<1>8. ASSUME NEW w \in EventWorker, NEW k, NEW e, NEW change, UpdateRead(w, k, e, change)
      PROVE  PublishedInv'
  <2>1. PICK row, g :
          /\ Enters(w, [op |-> "update", key |-> k, e |-> e, seen |-> event[e],
               mine |-> Geocoded(row, g)])
          /\ event' = event /\ participant' = participant /\ eventParse' = eventParse
    BY <1>8, Zenon DEF UpdateRead
  <2>2. PICK t : t = [op |-> "update", key |-> k, e |-> e, seen |-> event[e],
          mine |-> Geocoded(row, g)]
    BY Zenon
  <2>3. t.op # "pass"
    BY <2>2, Zenon
  <2>. QED
    BY <1>6, <2>1, <2>2, <2>3, Zenon DEF Enters
<1>9. ASSUME NEW w \in EventWorker, EventPassRead(w) PROVE PublishedInv'
  <2>1. PICK t : t = [op |-> "pass", todo |-> {x \in EventItem : eventParse[x] = "pending"},
          done |-> {},
                      events |-> [e \in {} |-> NoEvent], people |-> [p \in {} |-> NoParticipant]]
    BY Zenon
  <2>2. /\ etx' = [etx EXCEPT ![w] = t]
        /\ event' = event /\ participant' = participant /\ eventParse' = eventParse
    BY <1>9, <2>1, Zenon DEF EventPassRead, Enters
  <2>3. t.todo \subseteq EventItem /\ t.done = {} /\ DOMAIN t.events = {} /\ DOMAIN t.people = {}
    BY <2>1, Zenon
  <2>4. PassFacts(t)
    BY <2>3, Zenon DEF PassFacts
  <2>. QED
    BY <1>1, <2>2, <2>4, PublishedQuiet, Zenon
<1>. QED
  BY <1>3, <1>4, <1>5, <1>7, <1>8, <1>9, ParsePublishes, CommitPublishes, UpdatePublishes,
     ParticipantPublishes, Zenon DEF EventsNext, event_update, event_create_manual,
     event_participant_create

\* The invariant holds in every behaviour.
LEMMA PublishedInvariant == EventsSpec => []PublishedInv
<1>1. ASSUME EventsInit PROVE PublishedInv
  <2>1. \A w \in EventWorker : PassFacts(etx[w])
    BY <1>1, Zenon DEF EventsInit, Outside, PassFacts
  <2>2. ParsedEventIsKnown /\ ReuseIsPermitted /\ DOMAIN participant = ParticipantKey
    BY <1>1, Zenon DEF EventsInit, ParsedEventIsKnown, ReuseIsPermitted
  <2>. QED
    BY <2>1, <2>2, Zenon DEF PublishedInv
<1>. QED
  BY <1>1, PublishedStep, EventsInvariant, PTL DEF EventsSpec

\* A parsed item has its event and all the participants it publishes, however passes overlap and
\* whichever item created the event before (event_intelligence/repository.py:22-63).
THEOREM ParsedIsKnown == EventsSpec => []ParsedEventIsKnown
<1>1. PublishedInv => ParsedEventIsKnown
  BY Zenon DEF PublishedInv
<1>. QED
  BY <1>1, PublishedInvariant, PTL

\* A published participant is contacted or exported only if its source permits the reuse
\* (event_intelligence/candidates.py:143-145, repository.py:141-195).
THEOREM PublishedReuse == EventsSpec => []ReuseIsPermitted
<1>1. PublishedInv => ReuseIsPermitted
  BY Zenon DEF PublishedInv
<1>. QED
  BY <1>1, PublishedInvariant, PTL
=============================================================================
