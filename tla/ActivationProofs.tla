------------------------- MODULE ActivationProofs ---------------------------
(***************************************************************************)
(* From scores to prospects: proofs about scores, alerts and sequence      *)
(* definitions, the polls of mailboxes and the import of prospects.        *)
(***************************************************************************)
EXTENDS Scoring, Definitions, Alerts, InboundPoll, Prospects, TLAPS
-----------------------------------------------------------------------------
(* What holds of the scoring rules for every request, not only for the     *)
(* ones a run tries.                                                       *)

\* A request that no blocker of scoring stands against meets none of the facts that scoring and
\* approval read from the snapshot alike.
LEMMA SharedIsPartOfScoring ==
  ASSUME NEW s, NEW e, NEW maxAge, policy_blockers_for_score(s, e, maxAge) = {}
  PROVE  SharedBlockers(s) = {} /\ ~s.stale
PROOF
  BY Zenon DEF policy_blockers_for_score

\* Every blocker that approval (review_policy_blockers) can find in a snapshot which scoring
\* (policy_blockers_for_score) let through is the missing corroboration of an incident, and that
\* one only when the snapshot leaves the status or the method of corroboration to the evidence.
THEOREM ScoredIsApprovable ==
  ASSUME NEW s \in ReviewedSnapshot, NEW e \in ScoredEvidence, NEW maxAge \in Nat,
         policy_blockers_for_score(s, e, maxAge) = {}
  PROVE  /\ review_policy_blockers(s) \subseteq {"incident_not_corroborated"}
         /\ (s.origin # "security_incident" \/ (s.incident # "" /\ s.method # ""))
              => review_policy_blockers(s) = {}
PROOF
  <1>1. SharedBlockers(s) = {} /\ ~s.stale
    BY SharedIsPartOfScoring, Zenon
  <1>2. ~Uncorroborated(s.origin, OrElse(s.incident, e.incident), OrElse(s.method, e.method))
    BY Zenon DEF policy_blockers_for_score
  <1>3. (s.origin # "security_incident" \/ (s.incident # "" /\ s.method # ""))
          => ~Uncorroborated(s.origin, s.incident, s.method)
    BY <1>2, Zenon DEF Uncorroborated, OrElse
  <1>. QED
    BY <1>1, <1>3, Zenon DEF review_policy_blockers

\* Rounding hundredths to either side stays within the whole numbers around them.
LEMMA RoundedInRange ==
  ASSUME NEW w \in Nat, w <= 10000
  PROVE  \A n \in Rounded(w) : n \in Nat /\ n <= 100
PROOF
  <1>1. PICK q \in Nat : q = w \div 100 /\ 100 * q <= w /\ w < 100 * q + 100
    OBVIOUS
  <1>2. q <= 100
    BY <1>1
  <1>3. CASE q = 100
    <2>1. w % 100 = 0
      BY <1>1, <1>3
    <2>. QED
      BY <1>1, <1>3, <2>1 DEF Rounded
  <1>4. CASE q # 100
    BY <1>1, <1>2, <1>4 DEF Rounded
  <1>. QED
    BY <1>3, <1>4

\* A composite of components from 0 to 100 is from 0 to 100 however it is rounded, so a stored
\* score is one (score_candidate_preview).
THEOREM CompositeInRange ==
  ASSUME NEW f \in Nat, NEW r \in Nat, NEW t \in Nat, NEW c \in Nat, NEW e \in Nat,
         f <= 100, r <= 100, t <= 100, c <= 100, e <= 100
  PROVE  \A n \in Rounded(Weighted(f, r, t, c, e)) : n \in Nat /\ n <= 100
PROOF
  <1>. DEFINE w == Weighted(f, r, t, c, e)
  <1>1. w \in Nat /\ w <= 10000
    BY DEF Weighted
  <1>. HIDE DEF w
  <1>2. \A n \in Rounded(w) : n \in Nat /\ n <= 100
    BY <1>1, RoundedInRange
  <1>. QED
    BY <1>2, Zenon DEF w

\* The routes, from the lowest to the highest.
RouteRank(r) == IF r = "rejected" THEN 0 ELSE IF r = "needs_review" THEN 1 ELSE 2

\* More points never lead to a lower route (route_for_score).
THEOREM RouteIsMonotone ==
  ASSUME NEW m \in Int, NEW n \in Int, m <= n, NEW blockers
  PROVE  RouteRank(route_for_score(m, blockers)) <= RouteRank(route_for_score(n, blockers))
PROOF
  <1>1. CASE blockers # {} \/ m < 40
    <2>1. route_for_score(m, blockers) = "rejected"
      BY <1>1, Zenon DEF route_for_score
    <2>. QED
      BY <2>1 DEF RouteRank
  <1>2. CASE blockers = {} /\ m >= 40 /\ m < 70
    <2>1. route_for_score(m, blockers) = "needs_review"
      BY <1>2 DEF route_for_score
    <2>2. route_for_score(n, blockers) # "rejected"
      BY <1>2 DEF route_for_score
    <2>. QED
      BY <2>1, <2>2 DEF RouteRank
  <1>3. CASE blockers = {} /\ m >= 70
    <2>1. route_for_score(n, blockers) = "crm_target_review"
      BY <1>3 DEF route_for_score
    <2>. QED
      BY <2>1 DEF RouteRank
  <1>. QED
    BY <1>1, <1>2, <1>3
-----------------------------------------------------------------------------
(* From the rules to the handler *)

Gate(r) == policy_blockers_for_score(r.snapshot, r.evidence, r.maxAge)

\* A score under way that is not rejected passed the gate of scoring.
PassedTheGate(t) ==
  t # Scoreless => /\ t.row.request \in ScoreRequests
                   /\ t.row.route # "rejected" => Gate(t.row.request) = {}

\* A review can be approved but for a corroboration it does not keep.
Approvable(v) ==
  v # NoReview =>
    LET s == v.snapshot
    IN /\ review_policy_blockers(s) \subseteq {"incident_not_corroborated"}
       /\ (s.origin # "security_incident" \/ (s.incident # "" /\ s.method # ""))
            => review_policy_blockers(s) = {}

ScoringInv ==
  /\ DOMAIN stx = Scorer
  /\ DOMAIN scoreReview = ScoreKey
  /\ \A w \in Scorer : PassedTheGate(stx[w])
  /\ \A k \in ScoreKey : Approvable(scoreReview[k])

\* The review that a score leaves behind can be approved.
LEMMA RequestedIsApprovable ==
  ASSUME NEW r \in ScoreRequests, Gate(r) = {}, NEW reason
  PROVE  Approvable([reason |-> reason, snapshot |-> r.snapshot])
<1>. DEFINE v == [reason |-> reason, snapshot |-> r.snapshot]
<1>1. v.snapshot = r.snapshot
  BY Zenon
<1>2. r.snapshot \in ReviewedSnapshot /\ r.evidence \in ScoredEvidence /\ r.maxAge \in Nat
  BY ScoringAssumption, Zenon DEF CandidateScoreRequest
<1>3. LET s == r.snapshot
      IN /\ review_policy_blockers(s) \subseteq {"incident_not_corroborated"}
         /\ (s.origin # "security_incident" \/ (s.incident # "" /\ s.method # ""))
              => review_policy_blockers(s) = {}
  BY <1>2, ScoredIsApprovable, Zenon DEF Gate
<1>. QED
  BY <1>1, <1>3, Zenon DEF Approvable

\* Every step keeps the invariant.
LEMMA ScoringStep == ScoringInv /\ [ScoringNext]_svars => ScoringInv'
<1>. SUFFICES ASSUME ScoringInv, [ScoringNext]_svars PROVE ScoringInv'
  BY Zenon
<1>. USE DEF ScoringInv
<1>1. CASE UNCHANGED svars
  BY <1>1, Zenon DEF svars
<1>2. ASSUME NEW w \in Scorer, candidate_score(w)
      PROVE  ScoringInv'
  <2>1. PICK k \in ScoreKey, r \in ScoreRequests : \E n \in CompositeScore(r) : ScoreRead(w, k, r, n)
    BY <1>2, Zenon DEF candidate_score
  <2>2. PICK n \in CompositeScore(r) : ScoreRead(w, k, r, n)
    BY <2>1, Zenon
  <2>. DEFINE row == [request |-> r, composite |-> n, route |-> route_for_score(n, Gate(r))]
              t == [op |-> "score", key |-> k, row |-> row]
  <2>3. stx' = [stx EXCEPT ![w] = t] /\ UNCHANGED scoreReview
    BY <2>2, Zenon DEF ScoreRead, Gate
  <2>4. PassedTheGate(t)
    BY Zenon DEF PassedTheGate, route_for_score
  <2>. HIDE DEF t
  <2>. QED
    BY <2>3, <2>4, Zenon
<1>3. ASSUME NEW w \in Scorer, ScoreCommit(w)
      PROVE  ScoringInv'
  <2>. DEFINE t == stx[w]
              v == [reason |-> IF t.row.route = "crm_target_review"
                               THEN "score_ready_for_crm_target_review"
                               ELSE "score_requires_review",
                    snapshot |-> t.row.request.snapshot]
  <2>1. t # Scoreless /\ stx' = [stx EXCEPT ![w] = Scoreless]
    BY <1>3 DEF ScoreCommit, Scoreless
  <2>2. scoreReview' = [scoreReview EXCEPT ![t.key] =
          IF t.row.route = "rejected" THEN NoReview ELSE v]
    BY <1>3, Zenon DEF ScoreCommit, RequestScoreReview
  <2>3. t.row.route # "rejected" => Approvable(v)
    BY <2>1, RequestedIsApprovable, Zenon DEF PassedTheGate
  <2>4. Approvable(NoReview) /\ PassedTheGate(Scoreless)
    BY Zenon DEF Approvable, PassedTheGate
  <2>. HIDE DEF v
  <2>. QED
    BY <2>1, <2>2, <2>3, <2>4, Zenon
<1>4. ASSUME NEW w \in Scorer, ScoreRollback(w)
      PROVE  ScoringInv'
  <2>1. PassedTheGate(Scoreless)
    BY Zenon DEF PassedTheGate
  <2>. QED
    BY <1>4, <2>1, Zenon DEF ScoreRollback
<1>. QED
  BY <1>1, <1>2, <1>3, <1>4, Zenon DEF ScoringNext

(***************************************************************************)
(* What scoring sends to review, approval accepts, but for an incident     *)
(* whose corroboration only the request knew (scoring/policy.py:28,        *)
(* governance/policy.py:34).                                               *)
(***************************************************************************)
THEOREM RoutedApprovable == ScoringSpec => []RoutedIsApprovable
<1>1. ScoringInit => ScoringInv
  BY Zenon DEF ScoringInit, ScoringInv, PassedTheGate, Approvable
<1>2. ScoringInv => RoutedIsApprovable
  BY Zenon DEF ScoringInv, RoutedIsApprovable, Approvable
<1>. QED
  BY <1>1, <1>2, ScoringStep, PTL DEF ScoringSpec
-----------------------------------------------------------------------------
(* Sequence definitions, for any number of edits, step orders, enrollments *)
(* and versions: an enrollment stands at a step of the version it is       *)
(* pinned to, and that version does not change as long as no edit writes   *)
(* over a version it had not read.                                         *)

Edit == [stage : {"read", "flushed"}, seen : Nat, orders : SUBSET StepOrder,
         status : SequenceStatus \cup {"unnamed"}]

DefinitionTypes ==
  /\ sequences \in [status : SequenceStatus \cup {"absent"}, version : Nat]
  /\ steps \subseteq [version : Nat, order : StepOrder]
  /\ edits \in [Editor -> {NoEdit} \cup Edit]
  /\ pinned \in [DefinedEnrollment -> [version : Nat, step : Nat]]
  /\ strayed \in BOOLEAN

Enrolled(n) == pinned[n] # NotEnrolled

(***************************************************************************)
(* The inductive invariant.  Nobody is enrolled, and no edit begins,       *)
(* before there is a sequence; one edit at a time holds its row; until an  *)
(* edit strays, the one that holds it has read the present version, and    *)
(* nobody is pinned to a later one.                                        *)
(***************************************************************************)
NobodyBefore ==
  sequences.status = "absent" =>
    /\ \A n \in DefinedEnrollment : ~Enrolled(n)
    /\ \A e \in Editor : edits[e] = NoEdit
OneFlushed ==
  \A e, o \in Editor : edits[e].stage = "flushed" /\ edits[o].stage = "flushed" => e = o
ReadsThePresent ==
  ~strayed =>
    /\ \A e \in Editor : edits[e].stage = "flushed" => edits[e].seen = sequences.version
    /\ \A n \in DefinedEnrollment : Enrolled(n) => pinned[n].version <= sequences.version

DefinitionInv ==
  /\ DefinitionTypes
  /\ NobodyBefore
  /\ OneFlushed
  /\ ReadsThePresent
  /\ StandsOnOwnVersion

\* A version has the orders of its step rows.
LEMMA OrdersAreOfTheVersion ==
  ASSUME DefinitionTypes, NEW v \in Nat
  PROVE  /\ _sequence_steps(v) \subseteq StepOrder
         /\ \A o \in _sequence_steps(v) : [version |-> v, order |-> o] \in steps
<1>. SUFFICES ASSUME NEW o \in _sequence_steps(v)
              PROVE  o \in StepOrder /\ [version |-> v, order |-> o] \in steps
  BY Zenon
<1>1. PICK s \in steps : s.version = v /\ s.order = o
  BY Zenon DEF _sequence_steps
<1>2. s \in [version : Nat, order : StepOrder]
  BY Zenon DEF DefinitionTypes
<1>3. s = [version |-> v, order |-> o]
  BY <1>1, <1>2, Zenon
<1>4. QED
  BY <1>1, <1>2, <1>3, Zenon

\* It holds initially.
LEMMA DefinitionInitial == DefinitionsInit => DefinitionInv
<1>. SUFFICES ASSUME DefinitionsInit PROVE DefinitionInv
  BY Zenon
<1>. USE DEF DefinitionsInit
<1>1. DefinitionTypes
  BY Zenon DEF DefinitionTypes, NotEnrolled
<1>2. NobodyBefore /\ StandsOnOwnVersion
  BY Zenon DEF NobodyBefore, StandsOnOwnVersion, Enrolled
<1>3. OneFlushed /\ ReadsThePresent
  BY Zenon DEF OneFlushed, ReadsThePresent, NoEdit, Enrolled
<1>4. QED
  BY <1>1, <1>2, <1>3, Zenon DEF DefinitionInv

\* Creating the sequence: nobody is enrolled and nobody edits yet.
LEMMA CreateStep ==
  ASSUME DefinitionInv, NEW orders \in SUBSET StepOrder, create_sequence(orders)
  PROVE  DefinitionInv'
<1>. USE DEF DefinitionInv, create_sequence
<1>1. DefinitionTypes'
  BY DEF DefinitionTypes, SequenceStatus, StepsOf
<1>2. (NobodyBefore /\ StandsOnOwnVersion)'
  BY Zenon DEF NobodyBefore, StandsOnOwnVersion, Enrolled
<1>3. (OneFlushed /\ ReadsThePresent)'
  BY DEF OneFlushed, ReadsThePresent, NobodyBefore, NoEdit, Enrolled
<1>4. QED
  BY <1>1, <1>2, <1>3, Zenon

\* A change of the status leaves versions and steps alone.
LEMMA SetStep ==
  ASSUME DefinitionInv, NEW status \in SequenceStatus, SetSequence(status)
  PROVE  DefinitionInv'
<1>. USE DEF DefinitionInv, SetSequence, DefinitionTypes
<1>1. sequences' = [status |-> status, version |-> sequences.version]
  BY Zenon
<1>2. DefinitionTypes'
  BY <1>1, Zenon
<1>3. (NobodyBefore /\ StandsOnOwnVersion)'
  BY <1>1, Zenon DEF NobodyBefore, StandsOnOwnVersion, Enrolled, SequenceStatus
<1>4. (OneFlushed /\ ReadsThePresent)'
  BY <1>1, Zenon DEF OneFlushed, ReadsThePresent, Enrolled
<1>5. QED
  BY <1>2, <1>3, <1>4, Zenon

\* An edit begins: it is not flushed yet.
LEMMA EditStartStep ==
  ASSUME DefinitionInv, NEW e \in Editor, NEW orders \in SUBSET StepOrder,
         NEW expected \in 0..MaxDefinition, NEW status \in SequenceStatus \cup {"unnamed"},
         EditStarts(e, orders, expected, status)
  PROVE  DefinitionInv'
<1>. USE DEF DefinitionInv, EditStarts
<1>1. DefinitionTypes'
  BY Zenon DEF DefinitionTypes, Edit
<1>2. (NobodyBefore /\ StandsOnOwnVersion)'
  BY Zenon DEF NobodyBefore, StandsOnOwnVersion, Enrolled
<1>3. \A o \in Editor : edits'[o].stage = "flushed" => edits'[o] = edits[o]
  BY Zenon DEF DefinitionTypes
<1>4. (OneFlushed /\ ReadsThePresent)'
  BY <1>3 DEF OneFlushed, ReadsThePresent, Enrolled
<1>5. QED
  BY <1>1, <1>2, <1>4, Zenon

\* An edit flushes: it strays when it has not read the present version.
LEMMA EditFlushStep ==
  ASSUME DefinitionInv, NEW e \in Editor, EditFlushes(e)
  PROVE  DefinitionInv'
<1>. USE DEF DefinitionInv, EditFlushes
<1>1. edits[e] \in Edit
  BY DEF DefinitionTypes, NoEdit
<1>2. edits' = [edits EXCEPT ![e] = [stage |-> "flushed", seen |-> edits[e].seen,
                                     orders |-> edits[e].orders, status |-> edits[e].status]]
  <2>1. [edits[e] EXCEPT !.stage = "flushed"]
          = [stage |-> "flushed", seen |-> edits[e].seen, orders |-> edits[e].orders,
             status |-> edits[e].status]
    BY <1>1 DEF Edit
  <2>2. edits' = [edits EXCEPT ![e] = [edits[e] EXCEPT !.stage = "flushed"]]
    BY Zenon
  <2>3. QED
    BY <2>1, <2>2, Zenon
<1>3. DefinitionTypes'
  BY <1>1, <1>2 DEF DefinitionTypes, Edit
<1>4. (NobodyBefore /\ StandsOnOwnVersion)'
  BY DEF NobodyBefore, StandsOnOwnVersion, Enrolled, NoEdit
<1>5. \A o \in Editor : o # e => edits'[o] = edits[o] /\ edits[o].stage # "flushed"
  BY <1>2, Zenon DEF DefinitionTypes
<1>6. edits'[e].seen = edits[e].seen
  BY <1>2 DEF DefinitionTypes
<1>7. OneFlushed'
  BY <1>5, Zenon DEF OneFlushed
<1>8. ReadsThePresent'
  BY <1>5, <1>6, Zenon DEF ReadsThePresent, Enrolled, DefinitionTypes
<1>9. QED
  BY <1>3, <1>4, <1>7, <1>8, Zenon

\* An edit that the unique key refuses is over.
LEMMA EditRefuseStep ==
  ASSUME DefinitionInv, NEW e \in Editor, EditRefused(e)
  PROVE  DefinitionInv'
<1>. USE DEF DefinitionInv, EditRefused
<1>1. DefinitionTypes'
  BY Zenon DEF DefinitionTypes
<1>2. (NobodyBefore /\ StandsOnOwnVersion)'
  BY Zenon DEF NobodyBefore, StandsOnOwnVersion, Enrolled, DefinitionTypes
<1>3. \A o \in Editor : edits'[o].stage = "flushed" => edits'[o] = edits[o]
  BY Zenon DEF DefinitionTypes, NoEdit
<1>4. (OneFlushed /\ ReadsThePresent)'
  BY <1>3, Zenon DEF OneFlushed, ReadsThePresent, Enrolled
<1>5. QED
  BY <1>1, <1>2, <1>4, Zenon

\* An edit commits: steps are only added, and it was the only one with the row.
LEMMA EditCommitStep ==
  ASSUME DefinitionInv, NEW e \in Editor, EditCommits(e)
  PROVE  DefinitionInv'
<1>. USE DEF DefinitionInv, EditCommits
<1>1. edits[e] \in Edit
  BY DEF DefinitionTypes, NoEdit
<1>2. /\ sequences' = [status |-> StatusAfter(edits[e]), version |-> edits[e].seen + 1]
      /\ StatusAfter(edits[e]) \in SequenceStatus \cup {"absent"}
      /\ StatusAfter(edits[e]) = "absent" => sequences.status = "absent"
  BY <1>1, Zenon DEF DefinitionTypes, NextVersion, StatusAfter, Edit, SequenceStatus
<1>3. NewSteps(e) \subseteq [version : Nat, order : StepOrder]
  BY <1>1 DEF NewSteps, StepsOf, NextVersion, Edit
<1>4. DefinitionTypes'
  BY <1>1, <1>2, <1>3 DEF DefinitionTypes, Edit
<1>5. (NobodyBefore /\ StandsOnOwnVersion)'
  BY <1>2 DEF NobodyBefore, StandsOnOwnVersion, Enrolled, NoEdit
<1>6. \A o \in Editor : edits'[o].stage # "flushed"
  BY Zenon DEF OneFlushed, NoEdit, DefinitionTypes
<1>7. ~strayed => edits[e].seen = sequences.version
  BY Zenon DEF ReadsThePresent
<1>8. ReadsThePresent'
  BY <1>1, <1>2, <1>6, <1>7 DEF ReadsThePresent, Enrolled, DefinitionTypes, Edit
<1>9. QED
  BY <1>4, <1>5, <1>6, <1>8, Zenon DEF OneFlushed

\* Enrolling and advancing put an enrollment on a step of its version.
LEMMA PinnedStep ==
  ASSUME DefinitionInv, NEW n \in DefinedEnrollment, EnrollPinned(n) \/ AdvancePinned(n)
  PROVE  DefinitionInv'
<1>. USE DEF DefinitionInv
<1>1. PICK v \in Nat, o \in StepOrder :
        /\ o \in _sequence_steps(v)
        /\ pinned' = [pinned EXCEPT ![n] = [version |-> v, step |-> o]]
        /\ v = sequences.version \/ (Enrolled(n) /\ v = pinned[n].version)
        /\ sequences.status # "absent"
        /\ UNCHANGED <<sequences, steps, edits, strayed>>
  <2>1. CASE EnrollPinned(n)
    <3>1. PICK o \in _sequence_steps(sequences.version) :
            pinned' = [pinned EXCEPT ![n] = [version |-> sequences.version, step |-> o]]
      BY <2>1, Zenon DEF EnrollPinned, First
    <3>2. sequences.version \in Nat
      BY Zenon DEF DefinitionTypes
    <3>3. o \in StepOrder
      BY <3>2, OrdersAreOfTheVersion, Zenon
    <3>4. QED
      BY <2>1, <3>1, <3>2, <3>3, Zenon DEF EnrollPinned
  <2>2. CASE AdvancePinned(n)
    <3>1. PICK o \in Later(pinned[n]) :
            pinned' = [pinned EXCEPT ![n] = [version |-> pinned[n].version, step |-> o]]
      BY <2>2, Zenon DEF AdvancePinned, First
    <3>2. o \in _sequence_steps(pinned[n].version) /\ pinned[n].version \in Nat
      BY <3>1, Zenon DEF Later, DefinitionTypes
    <3>3. Enrolled(n) /\ sequences.status # "absent"
      BY <2>2, Zenon DEF AdvancePinned, Enrolled, NobodyBefore
    <3>4. o \in StepOrder
      BY <3>2, OrdersAreOfTheVersion, Zenon
    <3>5. QED
      BY <2>2, <3>1, <3>2, <3>3, <3>4, Zenon DEF AdvancePinned
  <2>3. QED
    BY <2>1, <2>2, Zenon
<1>2. [version |-> v, order |-> o] \in steps
  BY <1>1, OrdersAreOfTheVersion, Zenon
<1>3. o \in Nat
  BY DefinitionsAssumption, Zenon
<1>4. DefinitionTypes'
  BY <1>1, <1>3, Zenon DEF DefinitionTypes
<1>5. pinned'[n] = [version |-> v, step |-> o]
        /\ \A m \in DefinedEnrollment : m # n => pinned'[m] = pinned[m]
  BY <1>1, Zenon DEF DefinitionTypes
<1>6. StandsOnOwnVersion'
  BY <1>1, <1>2, <1>5 DEF StandsOnOwnVersion
<1>7. (NobodyBefore /\ OneFlushed)'
  BY <1>1, Zenon DEF NobodyBefore, OneFlushed
<1>8. ReadsThePresent'
  BY <1>1, <1>5 DEF ReadsThePresent, Enrolled, DefinitionTypes
<1>9. QED
  BY <1>4, <1>6, <1>7, <1>8, Zenon

\* Every step keeps the invariant.
LEMMA DefinitionStep == DefinitionInv /\ [DefinitionsNext]_dvars => DefinitionInv'
<1>1. CASE UNCHANGED dvars
  BY <1>1, Zenon DEF dvars, DefinitionInv, DefinitionTypes, NobodyBefore, OneFlushed,
     ReadsThePresent,
              StandsOnOwnVersion, Enrolled
<1>2. CASE DefinitionsNext
  BY <1>2, CreateStep, SetStep, EditStartStep, EditFlushStep, EditRefuseStep, EditCommitStep,
     PinnedStep, Zenon DEF DefinitionsNext
<1>3. QED
  BY <1>1, <1>2, Zenon

(***************************************************************************)
(* Through any edits, an enrollment stands at a step of the version it was *)
(* enrolled with (enrollments.py:78-79, state.py:15-34).                   *)
(***************************************************************************)
THEOREM EnrollmentStandsOnOwnVersion == DefinitionsSpec => []StandsOnOwnVersion
<1>1. DefinitionInv => StandsOnOwnVersion
  BY Zenon DEF DefinitionInv
<1>2. QED
  BY <1>1, DefinitionInitial, DefinitionStep, PTL DEF DefinitionsSpec

(***************************************************************************)
(* The version somebody is enrolled in is not changed by an edit, unless   *)
(* one was written over a version it had not read (definitions.py:149).    *)
(***************************************************************************)
THEOREM VersionIsFrozen == DefinitionsSpec => EnrolledVersionIsFrozen
<1>1. ASSUME DefinitionInv, [DefinitionsNext]_dvars,
             NEW n \in DefinedEnrollment, Enrolled(n), ~strayed'
      PROVE  {s \in steps' : s.version = pinned[n].version}
               = {s \in steps : s.version = pinned[n].version}
  <2>. USE <1>1 DEF DefinitionInv
  <2>1. ~strayed
    BY Zenon DEF DefinitionsNext, dvars, create_sequence, SetSequence, EditStarts, EditFlushes,
           EditRefused, EditCommits, EnrollPinned, AdvancePinned
  <2>2. sequences.status # "absent"
    BY Zenon DEF NobodyBefore
  <2>3. ASSUME NEW e \in Editor, EditCommits(e)
        PROVE  \A s \in NewSteps(e) : s.version # pinned[n].version
    <3>1. edits[e].seen = sequences.version /\ pinned[n].version <= sequences.version
      BY <2>1, <2>3, Zenon DEF ReadsThePresent, EditCommits
    <3>2. sequences.version \in Nat /\ pinned[n].version \in Nat
      BY Zenon DEF DefinitionTypes
    <3>3. \A s \in NewSteps(e) : s.version = sequences.version + 1
      BY <3>1 DEF NewSteps, StepsOf, NextVersion
    <3>4. QED
      BY <3>1, <3>2, <3>3
  <2>4. ASSUME NEW e \in Editor, EditCommits(e)
        PROVE  {s \in steps' : s.version = pinned[n].version}
                 = {s \in steps : s.version = pinned[n].version}
    BY <2>3, <2>4, Zenon DEF EditCommits
  <2>5. (\E e \in Editor : EditCommits(e)) \/ UNCHANGED steps
    BY <2>2, Zenon DEF DefinitionsNext, dvars, create_sequence, SetSequence, EditStarts,
       EditFlushes,
                EditRefused, EnrollPinned, AdvancePinned
  <2>6. QED
    BY <2>4, <2>5, Zenon
<1>2. DefinitionInv /\ [DefinitionsNext]_dvars =>
        [\A n \in DefinedEnrollment : pinned[n] # NotEnrolled /\ ~strayed' =>
           {s \in steps' : s.version = pinned[n].version}
             = {s \in steps : s.version = pinned[n].version}]_dvars
  BY <1>1, Zenon DEF Enrolled
<1>3. QED
  BY <1>2, DefinitionInitial, DefinitionStep, PTL DEF DefinitionsSpec, EnrolledVersionIsFrozen
-----------------------------------------------------------------------------
(* The alert passes, for any number of alerts, passes and limits: they     *)
(* implement a call followed by a claim, and an alert goes out twice only  *)
(* when a pass that had it was lost or overlapped another.                 *)

Hands == [todo : SUBSET Alert, sent : SUBSET Alert, failed : SUBSET Alert]

AlertsTypes ==
  /\ alerts \in [Alert -> SequenceEmailAlert]
  /\ mailed \in [Alert -> Nat]
  /\ passes \in [Sender -> Hands]

\* What a pass notes as sent, and what the table shows as sent, has been mailed.
SentIsMailed ==
  /\ \A s \in Sender : \A a \in passes[s].sent : mailed[a] > 0
  /\ \A a \in Alert : alerts[a] = "sent" => mailed[a] > 0

\* The types and SentIsMailed hold initially.
LEMMA AlertsInitial == AlertsInit => AlertsTypes /\ SentIsMailed
  BY DEF AlertsInit, AlertsTypes, SentIsMailed, SequenceEmailAlert, Resting, Hands

\* Every step keeps them.
LEMMA AlertsStep ==
  ASSUME AlertsTypes, SentIsMailed, [AlertsNext]_avars
  PROVE  AlertsTypes' /\ SentIsMailed'
<1>. USE DEF AlertsTypes, SentIsMailed, SequenceEmailAlert, Hands
<1>1. ASSUME NEW a \in Alert, create_sequence_email_alert(a)
      PROVE  AlertsTypes' /\ SentIsMailed'
  BY <1>1, ZenonT(60) DEF create_sequence_email_alert
<1>2. ASSUME NEW a \in Alert, AlertFallsDue(a)
      PROVE  AlertsTypes' /\ SentIsMailed'
  BY <1>2, Zenon DEF AlertFallsDue
<1>3. ASSUME NEW s \in Sender, process_due_sequence_email_alerts(s)
      PROVE  AlertsTypes' /\ SentIsMailed'
  <2>1. DueAlerts \subseteq Alert
    BY Zenon DEF DueAlerts
  <2>2. QED
    BY <1>3, <2>1, Zenon DEF process_due_sequence_email_alerts
<1>4. ASSUME NEW s \in Sender, AlertMailed(s)
      PROVE  AlertsTypes' /\ SentIsMailed'
  <2>1. PICK a \in Turn(s) :
          /\ MailGoesOut(a)
          /\ passes' = [passes EXCEPT ![s] = [todo |-> @.todo \ {a}, sent |-> @.sent \cup {a},
                                              failed |-> @.failed]]
          /\ UNCHANGED <<alerts, cut>>
    BY <1>4, Zenon DEF AlertMailed
  <2>2. a \in Alert
    BY Zenon DEF Turn
  <2>3. mailed' = [mailed EXCEPT ![a] = mailed[a] + 1]
    BY <2>1, Zenon DEF MailGoesOut
  <2>4. AlertsTypes'
    BY <2>1, <2>2, <2>3
  <2>5. SentIsMailed'
    BY <2>1, <2>2, <2>3
  <2>6. QED
    BY <2>4, <2>5, Zenon
<1>5. ASSUME NEW s \in Sender, AlertFails(s)
      PROVE  AlertsTypes' /\ SentIsMailed'
  <2>1. PICK a \in Turn(s) :
          /\ MailGoesOut(a) \/ UNCHANGED mailed
          /\ passes' = [passes EXCEPT ![s] = [todo |-> @.todo \ {a}, sent |-> @.sent,
                                              failed |-> @.failed \cup {a}]]
          /\ UNCHANGED <<alerts, cut>>
    BY <1>5, Zenon DEF AlertFails
  <2>2. a \in Alert
    BY Zenon DEF Turn
  <2>3. mailed' = [mailed EXCEPT ![a] = mailed[a] + 1] \/ mailed' = mailed
    BY <2>1, Zenon DEF MailGoesOut
  <2>4. AlertsTypes'
    BY <2>1, <2>2, <2>3, SMTT(60)
  <2>5. SentIsMailed'
    BY <2>1, <2>2, <2>3, SMTT(60)
  <2>6. QED
    BY <2>4, <2>5, Zenon
<1>6. ASSUME NEW s \in Sender, AlertsCommit(s)
      PROVE  AlertsTypes' /\ SentIsMailed'
  BY <1>6, Zenon DEF AlertsCommit, AlertRecorded, Resting
<1>7. ASSUME NEW s \in Sender, AlertsLost(s)
      PROVE  AlertsTypes' /\ SentIsMailed'
  BY <1>7, Zenon DEF AlertsLost, Resting
<1>8. CASE UNCHANGED avars
  BY <1>8, Zenon DEF avars
<1>9. QED
  BY <1>1, <1>2, <1>3, <1>4, <1>5, <1>6, <1>7, <1>8, Zenon DEF AlertsNext

(***************************************************************************)
(* The passes implement OutsideEffects: whatever process_due_sequence_     *)
(* email_alerts loses or repeats, the table never shows an alert as sent   *)
(* that SMTP did not take.                                                 *)
(***************************************************************************)
THEOREM AlertsRefine == AlertsSpec => AlertsCallThenClaim
<1>1. AlertsInit => Smtp!Init
  BY DEF AlertsInit, Smtp!Init
<1>2. ASSUME AlertsTypes, SentIsMailed, [AlertsNext]_avars
      PROVE  [Smtp!Next]_<<{a \in Alert : mailed[a] > 0}, {a \in Alert : alerts[a] = "sent"}>>
  <2>0. SentIsMailed'
    BY <1>2, AlertsStep, Zenon
  <2>. USE <1>2 DEF AlertsTypes, SentIsMailed, Smtp!Next, Smtp!Call, Smtp!Commit
  <2>1. ASSUME NEW a \in Alert, create_sequence_email_alert(a) \/ AlertFallsDue(a)
        PROVE  UNCHANGED <<{b \in Alert : mailed[b] > 0}, {b \in Alert : alerts[b] = "sent"}>>
    BY <2>1, Zenon DEF create_sequence_email_alert, AlertFallsDue
  <2>2. ASSUME NEW s \in Sender, process_due_sequence_email_alerts(s) \/ AlertsLost(s)
        PROVE  UNCHANGED <<{b \in Alert : mailed[b] > 0}, {b \in Alert : alerts[b] = "sent"}>>
    BY <2>2, Zenon DEF process_due_sequence_email_alerts, AlertsLost
  <2>3. ASSUME NEW s \in Sender, AlertMailed(s) \/ AlertFails(s)
        PROVE  Smtp!Call
    <3>1. PICK a \in Turn(s) : (MailGoesOut(a) \/ UNCHANGED mailed) /\ UNCHANGED alerts
      BY <2>3, Zenon DEF AlertMailed, AlertFails
    <3>2. QED
      BY <3>1 DEF MailGoesOut
  <2>4. ASSUME NEW s \in Sender, AlertsCommit(s)
        PROVE  Smtp!Commit
    BY <2>0, <2>4, Zenon DEF AlertsCommit
  <2>5. CASE UNCHANGED avars
    BY <2>5, Zenon DEF avars
  <2>6. QED
    BY <2>1, <2>2, <2>3, <2>4, <2>5, Zenon DEF AlertsNext
<1>3. QED
  BY <1>1, <1>2, AlertsInitial, AlertsStep, PTL DEF AlertsSpec, AlertsCallThenClaim, Smtp!Spec
-----------------------------------------------------------------------------
(***************************************************************************)
(* The inductive invariant behind MailedTwiceWasCut.  An alert that no     *)
(* lost or overlapping pass had is in the hands of one pass at most, is    *)
(* pending as long as it is, and was mailed only if that pass is through   *)
(* with it or has recorded it.                                             *)
(***************************************************************************)
UncutIsHeldOnce(a) ==
  /\ \A s \in Sender : a \in InHand(s) => alerts[a] = "pending"
  /\ \A s, t \in Sender : a \in InHand(s) /\ a \in InHand(t) => s = t
  /\ \A s \in Sender : a \in passes[s].todo => mailed[a] = 0
  /\ alerts[a] \in {"absent", "later", "pending"} /\ (\A s \in Sender : a \notin InHand(s))
       => mailed[a] = 0
  /\ mailed[a] <= 1

HeldOnce == \A a \in Alert : a \notin cut => UncutIsHeldOnce(a)

\* Every step of a pass keeps it, and one that is lost or overlaps puts its alerts into cut.
LEMMA HeldOnceStep ==
  ASSUME AlertsTypes, HeldOnce, [AlertsNext]_avars
  PROVE  HeldOnce'
<1>. SUFFICES ASSUME NEW a \in Alert, a \notin cut'
              PROVE  UncutIsHeldOnce(a)'
  BY Zenon DEF HeldOnce
<1>. USE DEF AlertsTypes, SequenceEmailAlert, Hands
<1>1. a \notin cut
  BY Zenon DEF AlertsNext, avars, create_sequence_email_alert, AlertFallsDue,
         process_due_sequence_email_alerts, AlertMailed, AlertFails, AlertsCommit, AlertsLost
<1>2. UncutIsHeldOnce(a)
  BY <1>1, Zenon DEF HeldOnce
<1>. USE <1>2 DEF UncutIsHeldOnce, InHand
<1>3. ASSUME NEW b \in Alert, create_sequence_email_alert(b) \/ AlertFallsDue(b)
      PROVE  UncutIsHeldOnce(a)'
  BY <1>3 DEF create_sequence_email_alert, AlertFallsDue
<1>4. ASSUME NEW s \in Sender, process_due_sequence_email_alerts(s)
      PROVE  UncutIsHeldOnce(a)'
  <2>1. a \in DueAlerts => alerts[a] = "pending" /\ \A t \in Sender : a \notin InHand(t)
    BY <1>4, ZenonT(60) DEF process_due_sequence_email_alerts, DueAlerts
  <2>2. /\ passes' = [passes EXCEPT ![s] = [todo |-> DueAlerts, sent |-> {}, failed |-> {}]]
        /\ UNCHANGED <<alerts, mailed>>
        /\ passes[s] = Resting
    BY <1>4, Zenon DEF process_due_sequence_email_alerts, Busy
  <2>3. \A t \in Sender : t # s => passes'[t] = passes[t]
    BY <2>2, Zenon
  <2>4. passes'[s] = [todo |-> DueAlerts, sent |-> {}, failed |-> {}]
    BY <2>2, Zenon
  <2>5. CASE a \in DueAlerts
    BY <2>1, <2>2, <2>3, <2>4, <2>5, SMTT(60)
  <2>6. CASE a \notin DueAlerts
    <3>1. \A t \in Sender : a \in InHand(t)' => a \in InHand(t)
      BY <2>3, <2>4, <2>6
    <3>2. \A t \in Sender : a \in InHand(t) => a \in InHand(t)'
      BY <2>2, <2>3 DEF Resting
    <3>3. \A t \in Sender : a \in passes'[t].todo => a \in passes[t].todo
      BY <2>3, <2>4, <2>6, SMTT(60)
    <3>4. QED
      BY <2>2, <3>1, <3>2, <3>3, Zenon
  <2>7. QED
    BY <2>5, <2>6, Zenon
<1>5. ASSUME NEW s \in Sender, AlertMailed(s) \/ AlertFails(s)
      PROVE  UncutIsHeldOnce(a)'
  <2>1. PICK b \in Turn(s) :
          /\ MailGoesOut(b) \/ UNCHANGED mailed
          /\ \/ passes' = [passes EXCEPT ![s] = [todo |-> @.todo \ {b},
                                                 sent |-> @.sent \cup {b}, failed |-> @.failed]]
             \/ passes' = [passes EXCEPT ![s] = [todo |-> @.todo \ {b}, sent |-> @.sent,
                                                 failed |-> @.failed \cup {b}]]
          /\ UNCHANGED <<alerts, cut>>
    BY <1>5, Zenon DEF AlertMailed, AlertFails
  <2>2. b \in passes[s].todo /\ b \in Alert
    BY Zenon DEF Turn
  <2>3. mailed' = [mailed EXCEPT ![b] = mailed[b] + 1] \/ mailed' = mailed
    BY <2>1, Zenon DEF MailGoesOut
  <2>4. \A t \in Sender : InHand(t)' = InHand(t)
    BY <2>1, <2>2
  <2>5. a # b => mailed'[a] = mailed[a]
    BY <2>3, Zenon
  <2>6. a = b => mailed'[a] \in {0, 1} /\ \A t \in Sender : a \notin passes'[t].todo
    BY <2>1, <2>2, <2>3
  <2>7. \A t \in Sender : passes'[t].todo \subseteq passes[t].todo
    BY <2>1
  <2>8. QED
    BY <2>1, <2>2, <2>4, <2>5, <2>6, <2>7
<1>6. ASSUME NEW s \in Sender, AlertsCommit(s)
      PROVE  UncutIsHeldOnce(a)'
  <2>1. /\ passes[s].todo = {}
        /\ passes' = [passes EXCEPT ![s] = Resting]
        /\ alerts'[a] = IF a \in passes[s].sent THEN "sent"
                        ELSE IF a \in passes[s].failed THEN "failed_retryable" ELSE alerts[a]
        /\ UNCHANGED mailed
    BY <1>6, Zenon DEF AlertsCommit, AlertRecorded
  <2>2. QED
    BY <2>1 DEF Resting
<1>7. ASSUME NEW s \in Sender, AlertsLost(s)
      PROVE  UncutIsHeldOnce(a)'
  <2>1. a \notin InHand(s)
    BY <1>7, Zenon DEF AlertsLost
  <2>2. passes' = [passes EXCEPT ![s] = Resting] /\ UNCHANGED <<alerts, mailed>>
    BY <1>7, Zenon DEF AlertsLost
  <2>3. QED
    BY <2>1, <2>2 DEF Resting
<1>8. CASE UNCHANGED avars
  BY <1>8, Zenon DEF avars
<1>9. QED
  BY <1>3, <1>4, <1>5, <1>6, <1>7, <1>8 DEF AlertsNext

(***************************************************************************)
(* An alert is mailed twice only if a pass that had it was lost or another *)
(* pass took it meanwhile: each pass records, in the transaction it read   *)
(* them in, all the alerts it sent (alerts.py:67-100).                     *)
(***************************************************************************)
THEOREM AlertsMailedOnce == AlertsSpec => []MailedTwiceWasCut
<1>1. AlertsInit => HeldOnce
  BY DEF AlertsInit, HeldOnce, UncutIsHeldOnce, InHand, Resting
<1>2. AlertsTypes /\ HeldOnce => MailedTwiceWasCut
  BY DEF AlertsTypes, HeldOnce, UncutIsHeldOnce, MailedTwiceWasCut
<1>3. AlertsTypes /\ SentIsMailed /\ HeldOnce /\ [AlertsNext]_avars
        => (AlertsTypes /\ SentIsMailed /\ HeldOnce)'
  BY AlertsStep, HeldOnceStep, Zenon
<1>4. QED
  BY <1>1, <1>2, <1>3, AlertsInitial, PTL DEF AlertsSpec
-----------------------------------------------------------------------------
(* Inbound polling, for any number of messages and polls.                  *)

\* What a sequence holds, after an element more and after the first one less.
LEMMA AppendHolds ==
  ASSUME NEW S, NEW s \in Seq(S), NEW h
  PROVE  /\ Append(s, h) \in Seq(S \cup {h})
         /\ h \in Range(Append(s, h)) /\ Range(s) \subseteq Range(Append(s, h))
<1>1. s \in Seq(S \cup {h})
  OBVIOUS
<1>2. /\ Append(s, h) \in Seq(S \cup {h}) /\ Len(Append(s, h)) = Len(s) + 1
      /\ Append(s, h)[Len(s) + 1] = h
      /\ \A i \in 1..Len(s) : Append(s, h)[i] = s[i]
  BY <1>1
<1>3. /\ DOMAIN s = 1..Len(s) /\ DOMAIN Append(s, h) = 1..(Len(s) + 1) /\ Len(s) \in Nat
  BY <1>1, <1>2
<1>. QED
  BY <1>2, <1>3 DEF Range

\* What holds of all messages to come holds of the rest after the first.
LEMMA TailHolds ==
  ASSUME NEW S, NEW s \in Seq(S), s # <<>>
  PROVE  /\ Tail(s) \in Seq(S)
         /\ Range(s) \subseteq {Head(s)} \cup Range(Tail(s))
<1>1. /\ Len(s) \in Nat \ {0} /\ DOMAIN s = 1..Len(s)
      /\ Tail(s) \in Seq(S) /\ DOMAIN Tail(s) = 1..(Len(s) - 1)
      /\ \A i \in 1..(Len(s) - 1) : Tail(s)[i] = s[i + 1]
      /\ Head(s) = s[1]
  OBVIOUS
<1>2. ASSUME NEW i \in 1..Len(s), i # 1 PROVE s[i] \in Range(Tail(s))
  <2>1. i - 1 \in 1..(Len(s) - 1) /\ (i - 1) + 1 = i
    BY <1>1, <1>2
  <2>2. Tail(s)[i - 1] = s[i]
    BY <1>1, <2>1, Zenon
  <2>. QED
    BY <1>1, <2>1, <2>2, Zenon DEF Range
<1>. QED
  BY <1>1, <1>2, Zenon DEF Range

(***************************************************************************)
(* The inductive invariant: once the lookup has been made there is nothing *)
(* left to fetch, there is a message to process, and one that was found    *)
(* stored is stored.                                                       *)
(***************************************************************************)
PollFacts(poll, events) ==
  /\ DOMAIN poll = {"fetch", "process", "found"}
  /\ \E S : poll.process \in Seq(S)
  /\ poll.found \in {"unread", "stored", "new"}
  /\ poll.found # "unread" => poll.process # <<>> /\ poll.fetch = <<>>
  /\ poll.found = "stored" /\ Head(poll.process) \in Mail => events[Head(poll.process)] > 0

\* The inductive invariant of the polls.
InboundInv ==
  /\ DOMAIN mailbox = Mail /\ DOMAIN polls = Poller /\ inbound \in [Mail -> Nat]
  /\ \A p \in Poller : PollFacts(polls[p], inbound)
  /\ SeenIsHandled

\* It holds at the start.
LEMMA InboundInitial == InboundInit => InboundInv
<1>. SUFFICES ASSUME InboundInit PROVE InboundInv
  BY Zenon
<1>1. <<>> \in Seq({})
  OBVIOUS
<1>2. PollFacts(NoPoll, inbound)
  BY <1>1, Zenon DEF PollFacts, NoPoll
<1>. QED
  BY <1>2 DEF InboundInit, InboundInv, SeenIsHandled

\* A mailbox without a poll promises nothing.
LEMMA NothingPolled == PollFacts(NoPoll, inbound)
<1>1. <<>> \in Seq({})
  OBVIOUS
<1>. QED
  BY <1>1, Zenon DEF PollFacts, NoPoll

\* A poll becomes poll2, and no message falls out of its hands that is not stored or dropped.
LEMMA PollMoves ==
  ASSUME InboundInv, NEW p \in Poller, NEW poll2, PollFacts(poll2, inbound),
         polls' = [polls EXCEPT ![p] = poll2], UNCHANGED inbound,
         DOMAIN mailbox' = Mail, dropped \subseteq dropped',
         \A m \in Mail : mailbox'[m] = "seen" =>
           mailbox[m] = "seen" \/ m \in Range(poll2.process),
         \A m \in Mail : m \in Range(polls[p].process) =>
           m \in Range(poll2.process) \/ m \in dropped' \/ inbound[m] > 0
  PROVE  InboundInv'
<1>1. \A q \in Poller : polls'[q] = IF q = p THEN poll2 ELSE polls[q]
  BY Zenon DEF InboundInv
<1>2. \A q \in Poller : PollFacts(polls'[q], inbound)
  BY <1>1, Zenon DEF InboundInv
<1>3. ASSUME NEW m \in Mail, mailbox'[m] = "seen"
      PROVE  \/ inbound[m] > 0
             \/ \E q \in Poller : m \in Range(polls'[q].process)
             \/ m \in dropped'
  BY <1>1, <1>3, Zenon DEF InboundInv, SeenIsHandled
<1>4. SeenIsHandled'
  BY <1>3, Zenon DEF SeenIsHandled, InboundInv
<1>. QED
  BY <1>2, <1>4, Zenon DEF InboundInv

\* Every step of a poll keeps it.
LEMMA InboundStep == InboundInv /\ [InboundNext]_ivars => InboundInv'
<1>. SUFFICES ASSUME InboundInv, [InboundNext]_ivars PROVE InboundInv'
  BY Zenon
<1>1. CASE UNCHANGED ivars
  BY <1>1, Zenon DEF ivars, InboundInv, PollFacts, SeenIsHandled
<1>2. ASSUME NEW m \in Mail, MailArrives(m) PROVE InboundInv'
  BY <1>2, Zenon DEF MailArrives, InboundInv, SeenIsHandled
<1>3. ASSUME NEW p \in Poller, PollSearches(p) PROVE InboundInv'
  <2>1. PICK f : /\ polls' = [polls EXCEPT ![p].fetch = f] /\ polls[p] = NoPoll
                 /\ UNCHANGED <<mailbox, inbound, dropped>>
    BY <1>3, Zenon DEF PollSearches
  <2>2. [NoPoll EXCEPT !.fetch = f] = [fetch |-> f, process |-> <<>>, found |-> "unread"]
    BY DEF NoPoll
  <2>3. PollFacts([fetch |-> f, process |-> <<>>, found |-> "unread"], inbound)
    <3>1. <<>> \in Seq({})
      OBVIOUS
    <3>. QED
      BY <3>1, Zenon DEF PollFacts
  <2>. QED
    BY <2>1, <2>2, <2>3, PollMoves, ZenonT(60) DEF InboundInv, NoPoll
<1>4. ASSUME NEW p \in Poller, PollFetches(p) PROVE InboundInv'
  <2>. DEFINE h == Head(polls[p].fetch)
  <2>1. PollFacts(polls[p], inbound) /\ polls[p].found = "unread"
    BY <1>4, Zenon DEF PollFetches, InboundInv, PollFacts
  <2>2. PICK S : polls[p].process \in Seq(S)
    BY <2>1, Zenon DEF PollFacts
  <2>3. /\ DOMAIN Fetched(polls[p]) = {"fetch", "process", "found"}
        /\ Fetched(polls[p]).process = Append(polls[p].process, h)
        /\ Fetched(polls[p]).found = "unread"
    BY <2>1, Zenon DEF Fetched, PollFacts
  <2>4. PollFacts(Fetched(polls[p]), inbound)
    <3>1. Append(polls[p].process, h) \in Seq(S \cup {h})
      BY <2>2, AppendHolds, Zenon
    <3>. QED
      BY <2>3, <3>1, Zenon DEF PollFacts
  <2>5. /\ DOMAIN mailbox' = Mail
        /\ \A m \in Mail : mailbox'[m] = "seen" => mailbox[m] = "seen" \/ m = h
    BY <1>4, Zenon DEF PollFetches, InboundInv
  <2>6. polls' = [polls EXCEPT ![p] = Fetched(polls[p])] /\ UNCHANGED <<inbound, dropped>>
    BY <1>4, Zenon DEF PollFetches
  <2>. HIDE DEF h
  <2>7. h \in Range(Fetched(polls[p]).process)
        /\ Range(polls[p].process) \subseteq Range(Fetched(polls[p]).process)
    BY <2>2, <2>3, AppendHolds, Zenon
  <2>8. /\ \A m \in Mail : mailbox'[m] = "seen" =>
             mailbox[m] = "seen" \/ m \in Range(Fetched(polls[p]).process)
        /\ \A m \in Mail : m \in Range(polls[p].process) => m \in Range(Fetched(polls[p]).process)
    BY <2>5, <2>7, Zenon
  <2>. QED
    BY <2>4, <2>5, <2>6, <2>8, PollMoves, Zenon
<1>5. ASSUME NEW p \in Poller, FetchRefused(p) PROVE InboundInv'
  <2>. DEFINE poll2 == [polls[p] EXCEPT !.fetch = Tail(@)]
  <2>1. PollFacts(polls[p], inbound) /\ polls[p].found = "unread"
    BY <1>5, Zenon DEF FetchRefused, InboundInv, PollFacts
  <2>2. poll2.process = polls[p].process /\ PollFacts(poll2, inbound)
    BY <2>1, Zenon DEF PollFacts
  <2>3. polls' = [polls EXCEPT ![p] = poll2] /\ UNCHANGED <<mailbox, inbound, dropped>>
    BY <1>5, Zenon DEF FetchRefused
  <2>. HIDE DEF poll2
  <2>. QED
    BY <2>2, <2>3, PollMoves, ZenonT(60) DEF InboundInv
<1>6. ASSUME NEW p \in Poller, EventLookup(p) PROVE InboundInv'
  <2>. DEFINE found == IF KeyIsStored(Head(polls[p].process)) THEN "stored" ELSE "new"
              poll2 == [polls[p] EXCEPT !.found = found]
  <2>1. /\ PollFacts(polls[p], inbound) /\ polls[p].fetch = <<>> /\ polls[p].process # <<>>
    BY <1>6, Zenon DEF EventLookup, InboundInv
  <2>2. poll2.process = polls[p].process /\ PollFacts(poll2, inbound)
    BY <2>1, Zenon DEF PollFacts, KeyIsStored
  <2>3. polls' = [polls EXCEPT ![p] = poll2] /\ UNCHANGED <<mailbox, inbound, dropped>>
    BY <1>6, Zenon DEF EventLookup
  <2>. HIDE DEF poll2
  <2>. QED
    BY <2>2, <2>3, PollMoves, Zenon DEF InboundInv
<1>7. ASSUME NEW p \in Poller, polls[p].found \in {"stored", "new"}
      PROVE  /\ PollFacts(NextEvent(polls[p]), inbound)
             /\ Range(polls[p].process) \subseteq
                  {Head(polls[p].process)} \cup Range(NextEvent(polls[p]).process)
  <2>1. PollFacts(polls[p], inbound) /\ polls[p].process # <<>>
    BY <1>7, Zenon DEF InboundInv, PollFacts
  <2>2. PICK S : polls[p].process \in Seq(S)
    BY <2>1, Zenon DEF PollFacts
  <2>3. /\ DOMAIN NextEvent(polls[p]) = {"fetch", "process", "found"}
        /\ NextEvent(polls[p]).process = Tail(polls[p].process)
        /\ NextEvent(polls[p]).found = "unread"
    BY <2>1, Zenon DEF NextEvent, PollFacts
  <2>4. /\ Tail(polls[p].process) \in Seq(S)
        /\ Range(polls[p].process) \subseteq
             {Head(polls[p].process)} \cup Range(Tail(polls[p].process))
    BY <2>1, <2>2, TailHolds, Zenon
  <2>. QED
    BY <2>3, <2>4, Zenon DEF PollFacts
<1>8. ASSUME NEW p \in Poller, EventIsStored(p) PROVE InboundInv'
  <2>1. /\ polls[p].found = "stored" /\ polls' = [polls EXCEPT ![p] = NextEvent(polls[p])]
        /\ UNCHANGED <<mailbox, inbound, dropped>>
    BY <1>8, Zenon DEF EventIsStored
  <2>2. Head(polls[p].process) \in Mail => inbound[Head(polls[p].process)] > 0
    BY <2>1, Zenon DEF InboundInv, PollFacts
  <2>3. /\ PollFacts(NextEvent(polls[p]), inbound)
        /\ \A m \in Mail : m \in Range(polls[p].process) =>
             m \in Range(NextEvent(polls[p]).process) \/ m \in dropped' \/ inbound[m] > 0
    BY <1>7, <2>1, <2>2, Zenon
  <2>4. DOMAIN mailbox' = Mail /\ \A m \in Mail : mailbox'[m] = mailbox[m]
    BY <2>1, Zenon DEF InboundInv
  <2>. QED
    BY <2>1, <2>3, <2>4, PollMoves, Zenon
<1>9. ASSUME NEW p \in Poller, EventCommits(p) PROVE InboundInv'
  <2>. DEFINE h == Head(polls[p].process)
  <2>1. /\ polls[p].found = "new" /\ polls' = [polls EXCEPT ![p] = NextEvent(polls[p])]
        /\ inbound' = [inbound EXCEPT ![h] = @ + 1] /\ UNCHANGED <<mailbox, dropped>>
        /\ ~KeyIsStored(h)
    BY <1>9, Zenon DEF EventCommits
  <2>. HIDE DEF h
  <2>2. /\ \A m \in Mail : inbound[m] \in Nat
        /\ \A m \in Mail : inbound'[m] = IF m = h THEN inbound[m] + 1 ELSE inbound[m]
        /\ DOMAIN inbound' = Mail
    BY <2>1, Zenon DEF InboundInv
  <2>3. inbound' \in [Mail -> Nat]
    <3>1. inbound' = [m \in Mail |-> IF m = h THEN inbound[m] + 1 ELSE inbound[m]]
      BY <2>1, Zenon DEF InboundInv
    <3>. QED
      BY <2>2, <3>1
  <2>4. \A q \in Poller : polls'[q] = IF q = p THEN NextEvent(polls[p]) ELSE polls[q]
    BY <2>1, Zenon DEF InboundInv
  <2>5. \A q \in Poller : PollFacts(polls'[q], inbound')
    BY <1>7, <2>1, <2>2, <2>4 DEF InboundInv, PollFacts
  <2>6. ASSUME NEW m \in Mail PROVE m \notin Nameless => inbound'[m] <= 1
    BY <2>1, <2>2 DEF InboundInv, SeenIsHandled, KeyIsStored
  <2>7. ASSUME NEW m \in Mail, mailbox[m] = "seen"
        PROVE  \/ inbound'[m] > 0
               \/ \E q \in Poller : m \in Range(polls'[q].process)
               \/ m \in dropped
    <3>1. CASE inbound[m] > 0 \/ m = h
      BY <2>2, <3>1
    <3>2. CASE m \in dropped
      BY <3>2, Zenon
    <3>3. CASE m # h /\ \E q \in Poller : m \in Range(polls[q].process)
      <4>1. PICK q \in Poller : m \in Range(polls[q].process)
        BY <3>3, Zenon
      <4>2. m \in Range(polls'[q].process)
        BY <1>7, <2>1, <2>4, <3>3, <4>1, Zenon DEF h
      <4>. QED
        BY <4>2, Zenon
    <3>. QED
      BY <2>7, <3>1, <3>2, <3>3, Zenon DEF InboundInv, SeenIsHandled
  <2>. QED
    BY <2>1, <2>3, <2>5, <2>6, <2>7, Zenon DEF InboundInv, SeenIsHandled
<1>10. ASSUME NEW p \in Poller, PollEnds(p) PROVE InboundInv'
  <2>1. /\ polls' = [polls EXCEPT ![p] = NoPoll] /\ UNCHANGED <<mailbox, inbound>>
        /\ dropped' = dropped \cup Range(polls[p].process)
    BY <1>10, Zenon DEF PollEnds
  <2>. QED
    BY <2>1, NothingPolled, PollMoves, Zenon DEF InboundInv
<1>. QED
  BY <1>1, <1>2, <1>3, <1>4, <1>5, <1>6, <1>8, <1>9, <1>10, Zenon DEF InboundNext, EventConflicts,
     PollLost

\* A message the server shows as seen is stored, in the hands of a poll, or was dropped by one
\* that ended early, and one with a Message-ID is stored once (sequence_adapters.py:71-76).
THEOREM SeenHandled == InboundSpec => []SeenIsHandled
<1>1. InboundInv => SeenIsHandled
  BY DEF InboundInv
<1>. QED
  BY <1>1, InboundInitial, InboundStep, PTL DEF InboundSpec
-----------------------------------------------------------------------------
(* Prospect import, for any number of prospects, addresses and imports.    *)

(***************************************************************************)
(* The inductive invariant.  As long as the CRM keeps the address of a     *)
(* prospect, every import of it carries that address, and a target made    *)
(* for it stands for that address; a target that an import has seen or     *)
(* stored is there to stay.                                                *)
(***************************************************************************)
ImportFacts(t) ==
  /\ t.stage \in {"none", "asked", "read", "stored"}
  /\ t.stage # "none" => t.p \in Prospect /\ (t.p \in moved \/ t.address = crm[t.p])
  /\ t.stage = "read" /\ t.target => targets[t.p] # "none"
  /\ t.stage = "stored" => t.p \in moved \/ targets[t.p] = t.address

\* The inductive invariant of imports.
ImportInv ==
  /\ DOMAIN crm = Prospect /\ DOMAIN targets = Prospect /\ DOMAIN imports = Importer
  /\ \A p \in Prospect : p \in moved \/ targets[p] \in {"none", crm[p]}
  /\ \A i \in Importer : ImportFacts(imports[i])
  /\ \A e \in enrolled :
       e[1] \in Prospect /\ (e[1] \in moved \/ (targets[e[1]] = e[2] /\ e[2] = crm[e[1]]))

\* It holds at the start.
LEMMA ProspectsInitial == ProspectsInit => ImportInv
BY DEF ProspectsInit, ImportInv, ImportFacts, NoImport

\* An import moves on with targets and prospects as they are.
LEMMA ImportMoves ==
  ASSUME ImportInv, NEW i \in Importer, NEW t, ImportFacts(t),
         imports' = [imports EXCEPT ![i] = t], UNCHANGED <<crm, targets, enrolled, moved>>
  PROVE  ImportInv'
BY DEF ImportInv, ImportFacts

\* Every step of an import keeps it.
LEMMA ProspectsStep == ImportInv /\ [ProspectsNext]_pvars => ImportInv'
<1>. SUFFICES ASSUME ImportInv, [ProspectsNext]_pvars PROVE ImportInv'
  BY Zenon
<1>1. CASE UNCHANGED pvars
  BY <1>1, Zenon DEF pvars, ImportInv, ImportFacts
<1>2. ASSUME NEW p \in Prospect, NEW m \in CrmAddress, CrmChanges(p, m) PROVE ImportInv'
  <2>1. /\ \A q \in Prospect : q \in moved' \/ (q \notin moved /\ crm'[q] = crm[q])
        /\ moved \subseteq moved' /\ DOMAIN crm' = Prospect
        /\ UNCHANGED <<targets, imports, enrolled>>
    BY <1>2, Zenon DEF CrmChanges, ImportInv
  <2>2. ASSUME NEW i \in Importer PROVE ImportFacts(imports[i])'
    BY <2>1, Zenon DEF ImportInv, ImportFacts
  <2>3. \A e \in enrolled : e[1] \in Prospect
                            /\ (e[1] \in moved' \/ (targets[e[1]] = e[2] /\ e[2] = crm'[e[1]]))
    BY <2>1, Zenon DEF ImportInv
  <2>. QED
    BY <2>1, <2>2, <2>3, Zenon DEF ImportInv
<1>3. ASSUME NEW m \in CrmAddress, ContactAppears(m) PROVE ImportInv'
  BY <1>3, Zenon DEF ContactAppears, ImportInv, ImportFacts
<1>4. ASSUME NEW i \in Importer, NEW p \in Prospect, ImportAsks(i, p) PROVE ImportInv'
  <2>1. ImportFacts([stage |-> "asked", p |-> p, address |-> crm[p]])
    BY Zenon DEF ImportFacts
  <2>. QED
    BY <1>4, <2>1, ImportMoves, Zenon DEF ImportAsks
<1>5. ASSUME NEW i \in Importer, ImportReads(i) PROVE ImportInv'
  <2>1. ImportFacts([stage |-> "read", p |-> imports[i].p, address |-> imports[i].address,
                     account |-> CompanyOf[imports[i].address] \in accounts,
                     contact |-> contacts[imports[i].address] # "none",
                     target |-> targets[imports[i].p] # "none"])
    BY <1>5, Zenon DEF ImportReads, ImportInv, ImportFacts
  <2>. QED
    BY <1>5, <2>1, ImportMoves, Zenon DEF ImportReads
<1>6. ASSUME NEW i \in Importer, ImportStores(i) PROVE ImportInv'
  <2>. DEFINE t == imports[i]
  <2>1. /\ t.stage = "read" /\ t.p \in Prospect /\ (t.p \in moved \/ t.address = crm[t.p])
        /\ t.target => targets[t.p] # "none"
        /\ ~t.target => targets[t.p] = "none"
        /\ UNCHANGED <<crm, enrolled, moved>>
        /\ DOMAIN targets' = Prospect /\ DOMAIN imports' = Importer
    BY <1>6, Zenon DEF ImportStores, KeysTaken, TargetFor, ImportInv, ImportFacts
  <2>2. \A p \in Prospect : IF p = t.p /\ ~t.target THEN targets'[p] = t.address
                                                    ELSE targets'[p] = targets[p]
    BY <1>6, <2>1, Zenon DEF ImportStores, TargetFor, ImportInv
  <2>3. \A j \in Importer : imports'[j] = IF j = i
          THEN [stage |-> "stored", p |-> t.p, address |-> t.address] ELSE imports[j]
    BY <1>6, Zenon DEF ImportStores, ImportInv
  <2>. HIDE DEF t
  <2>4. \A p \in Prospect : p \in moved \/ targets'[p] \in {"none", crm[p]}
    BY <2>1, <2>2, Zenon DEF ImportInv
  <2>5. t.p \in moved \/ targets'[t.p] = t.address
    BY <2>1, <2>2 DEF ImportInv
  <2>6. ASSUME NEW j \in Importer, j # i PROVE ImportFacts(imports[j])'
    BY <2>1, <2>2, <2>3, <2>6 DEF ImportInv, ImportFacts
  <2>7. ImportFacts(imports[i])'
    BY <2>1, <2>3, <2>5 DEF ImportFacts
  <2>8. \A e \in enrolled :
          e[1] \in Prospect /\ (e[1] \in moved \/ (targets'[e[1]] = e[2] /\ e[2] = crm[e[1]]))
    BY <2>1, <2>2 DEF ImportInv
  <2>. QED
    BY <2>1, <2>4, <2>6, <2>7, <2>8, Zenon DEF ImportInv
<1>7. ASSUME NEW i \in Importer, ImportEnrolls(i) PROVE ImportInv'
  <2>1. ImportFacts(imports[i]) /\ imports[i].stage = "stored" /\ ImportFacts(NoImport)
    BY <1>7, Zenon DEF ImportEnrolls, ImportInv, ImportFacts, NoImport
  <2>2. \A j \in Importer : imports'[j] = IF j = i THEN NoImport ELSE imports[j]
    BY <1>7, Zenon DEF ImportEnrolls, ImportInv
  <2>3. UNCHANGED <<crm, targets, moved>> /\ DOMAIN imports' = Importer
    BY <1>7, Zenon DEF ImportEnrolls, ImportInv
  <2>4. \A j \in Importer : ImportFacts(imports[j])'
    BY <2>1, <2>2, <2>3 DEF ImportInv, ImportFacts
  <2>5. \A e \in enrolled' : e \in enrolled \/ e = <<imports[i].p, imports[i].address>>
    BY <1>7, Zenon DEF ImportEnrolls
  <2>6. \A e \in enrolled' :
          e[1] \in Prospect /\ (e[1] \in moved \/ (targets[e[1]] = e[2] /\ e[2] = crm[e[1]]))
    BY <2>1, <2>5 DEF ImportInv, ImportFacts
  <2>. QED
    BY <2>3, <2>4, <2>6, Zenon DEF ImportInv
<1>8. ASSUME NEW i \in Importer, ImportEnds(i) PROVE ImportInv'
  BY <1>8, ImportMoves, Zenon DEF ImportEnds, NoImport, ImportFacts
<1>. QED
  BY <1>1, <1>2, <1>3, <1>4, <1>5, <1>6, <1>7, <1>8, Zenon DEF ProspectsNext

\* Whoever an import enrolls is the person the CRM target of the enrollment stands for, unless
\* the CRM gave the prospect another address in between (prospects.py:149-152).
THEOREM EnrolledTheTarget == ProspectsSpec => []EnrolledIsTheTarget
<1>1. ImportInv => EnrolledIsTheTarget
  BY Zenon DEF ImportInv, EnrolledIsTheTarget
<1>. QED
  BY <1>1, ProspectsInitial, ProspectsStep, PTL DEF ProspectsSpec
=============================================================================
