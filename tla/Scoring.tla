------------------------------ MODULE Scoring -------------------------------
(***************************************************************************)
(* Candidate scoring (services/scoring): five components from 0 to 100     *)
(* make a composite score, the composite and the policy blockers choose a  *)
(* route, and every route but rejected asks for an analyst's review.       *)
(***************************************************************************)
EXTENDS ReviewPolicy, Integers, Sequences

CONSTANTS
  ScoreKey,       \* Idempotency-Key headers
  ScoreRequests,  \* the requests clients make
  Scorer          \* concurrently running requests

VARIABLES
  score,        \* candidate_scores, by idempotency key
  scoreReview,  \* the review candidate of each score
  stx           \* the transaction each request is in

svars == <<score, scoreReview, stx>>
-----------------------------------------------------------------------------
(* Components of a score *)

\* What a request says of its account, contact and evidence, as far as scoring reads it.
CandidateScoreRequest ==
  [named : BOOLEAN, employees : Nat, stack : BOOLEAN, industry : BOOLEAN, roleInScope : BOOLEAN,
   context : BOOLEAN, signals : Seq(Int), confidence : Int, authoritative : BOOLEAN,
   sources : Nat, evidenceIds : BOOLEAN, evidence : ScoredEvidence, snapshot : ReviewedSnapshot,
   maxAge : Nat]

ASSUME ScoringAssumption == ScoreRequests \subseteq CandidateScoreRequest

Between(low, n, high) == IF n < low THEN low ELSE IF n > high THEN high ELSE n

clamp(n) == Between(0, n, 100)
Points(n, condition) == IF condition THEN n ELSE 0
SumOfSignals(signals, most) ==
  LET sum[n \in 0..Len(signals)] == IF n = 0 THEN 0 ELSE sum[n - 1] + Between(0, signals[n], most)
  IN sum[Len(signals)]

FitScore(r) ==
  Points(30, r.named) + Points(20, r.employees >= 250) + Points(20, r.stack)
    + Points(15, r.industry) + Points(15, r.roleInScope)

RelevanceScore(r) ==
  Points(35, r.snapshot.origin = "security_incident")
    + Points(25, r.snapshot.origin \in {"cyber_event", "event_participant"})
    + Points(25, r.context) + SumOfSignals(r.signals, 20)

EvidenceScore(r) ==
  Points(60, r.authoritative) + Points(50, r.sources >= 2) + Points(25, r.sources = 1)
    + Points(20, r.evidenceIds \/ r.snapshot.lineage)

RecencyScore(r) ==
  IF r.evidence.age = NoAge THEN 30
  ELSE IF r.evidence.age <= 7 THEN 100
  ELSE IF r.evidence.age <= 30 THEN 75
  ELSE IF r.evidence.age <= 90 THEN 45
  ELSE 10

Components == [fit : 0..100, relevance : 0..100, recency : 0..100, confidence : 0..100,
               evidence : 0..100]

component_scores(r) ==
  [fit |-> clamp(FitScore(r)), relevance |-> clamp(RelevanceScore(r)),
   recency |-> clamp(RecencyScore(r)), confidence |-> clamp(r.confidence),
   evidence |-> clamp(EvidenceScore(r))]

(***************************************************************************)
(* round() of a number of hundredths.  The weights are binary fractions,   *)
(* so a tie may fall on either side.                                       *)
(***************************************************************************)
Rounded(n) == {m \in {n \div 100, n \div 100 + 1} :
                 (n % 100 < 50 => m = n \div 100) /\ (n % 100 > 50 => m = n \div 100 + 1)}

\* SCORING_WEIGHTS, in hundredths.
Weighted(fit, relevance, recency, confidence, evidence) ==
  25 * fit + 25 * relevance + 15 * recency + 15 * confidence + 20 * evidence

CompositeScore(r) ==
  LET c == component_scores(r)
  IN Rounded(Weighted(c.fit, c.relevance, c.recency, c.confidence, c.evidence))

Route == {"rejected", "needs_review", "crm_target_review"}

route_for_score(n, blockers) ==
  IF blockers # {} \/ n < 40 THEN "rejected"
  ELSE IF n < 70 THEN "needs_review"
  ELSE "crm_target_review"

\* score_lead: the older score of an account and its signals, which is not stored.
LeadFit(r) == Points(30, r.named) + Points(20, r.employees >= 250) + Points(20, r.stack)
                + Points(20, r.industry)
LeadIntent(r) == Between(0, SumOfSignals(r.signals, 35), 100)
score_lead(r) == {[score |-> n, threshold_met |-> n >= 60] :
                    n \in Rounded(55 * LeadFit(r) + 45 * LeadIntent(r))}
-----------------------------------------------------------------------------
(* Requests *)

Unscored == [route |-> "none"]
NoReview == [reason |-> "none"]
Scoreless == [op |-> "none"]

CandidateScore == [route : Route, composite : 0..100, request : ScoreRequests]
ScoreReview == [reason : {"score_requires_review", "score_ready_for_crm_target_review"},
                snapshot : ReviewedSnapshot]

\* Every score and review has its type; in particular the composite stays within 0 and 100.
ScoringTypeOK ==
  /\ \A k \in ScoreKey : score[k] = Unscored
       \/ (score[k].route \in Route /\ score[k].composite \in 0..100)
  /\ \A k \in ScoreKey : scoreReview[k] = NoReview
       \/ scoreReview[k].reason \in {"score_requires_review", "score_ready_for_crm_target_review"}

ScoringInit ==
  /\ score = [k \in ScoreKey |-> Unscored]
  /\ scoreReview = [k \in ScoreKey |-> NoReview]
  /\ stx = [w \in Scorer |-> Scoreless]

\* create_candidate_score up to its flush; a known key returns the stored score.
ScoreRead(w, k, r, n) ==
  /\ stx[w] = Scoreless
  /\ score[k] = Unscored
  /\ n \in CompositeScore(r)
  /\ stx' = [stx EXCEPT ![w] =
       [op |-> "score", key |-> k, row |->
         [request |-> r, composite |-> n,
          route |-> route_for_score(n, policy_blockers_for_score(r.snapshot, r.evidence, r.maxAge))]]]
  /\ UNCHANGED <<score, scoreReview>>

\* Mutant of RequestScoreReview: what is rejected is sent to review as well.
RequestScoreReviewAlways(k, row) ==
  scoreReview' = [scoreReview EXCEPT ![k] =
    [reason |-> "score_requires_review", snapshot |-> row.request.snapshot]]

\* _request_score_review: the review keeps the snapshot of the request, not its evidence.
RequestScoreReview(k, row) ==
  scoreReview' = [scoreReview EXCEPT ![k] =
    IF row.route = "rejected" THEN NoReview
    ELSE [reason |-> IF row.route = "crm_target_review" THEN "score_ready_for_crm_target_review"
                                                        ELSE "score_requires_review",
          snapshot |-> row.request.snapshot]]

\* The key is still new and the score is stored with its review.
ScoreCommit(w) ==
  LET t == stx[w]
  IN /\ t.op = "score"
     /\ score[t.key] = Unscored
     /\ score' = [score EXCEPT ![t.key] = t.row]
     /\ RequestScoreReview(t.key, t.row)
     /\ stx' = [stx EXCEPT ![w] = Scoreless]

\* The key is taken by now, or the process dies: nothing is stored.
ScoreRollback(w) ==
  /\ stx[w] # Scoreless
  /\ stx' = [stx EXCEPT ![w] = Scoreless]
  /\ UNCHANGED <<score, scoreReview>>

candidate_score(w) == \E k \in ScoreKey, r \in ScoreRequests : \E n \in CompositeScore(r) :
                        ScoreRead(w, k, r, n)

ScoringNext == \E w \in Scorer : candidate_score(w) \/ ScoreCommit(w) \/ ScoreRollback(w)
ScoringSpec == ScoringInit /\ [][ScoringNext]_svars
-----------------------------------------------------------------------------
(* Properties *)

(***************************************************************************)
(* What scoring sends to review, governance can approve: the two policy    *)
(* gates agree, except on an incident whose corroboration only the request *)
(* knew, which approval refuses because the review does not keep it.       *)
(***************************************************************************)
RoutedIsApprovable ==
  \A k \in ScoreKey : scoreReview[k] # NoReview =>
    LET s == scoreReview[k].snapshot
    IN /\ review_policy_blockers(s) \subseteq {"incident_not_corroborated"}
       /\ (s.origin # "security_incident" \/ (s.incident # "" /\ s.method # "")) => review_policy_blockers(s) = {}
=============================================================================
