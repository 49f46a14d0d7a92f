----------------------------- MODULE Enrichment -----------------------------
(***************************************************************************)
(* Contact enrichment (services/enrichment_workflows): people published at *)
(* events or named with incidents become contact candidates; the policy    *)
(* blocks some of them; a web search finds the company's domain, addresses *)
(* are generated from name and domain and checked by a verifier.  Whatever *)
(* cannot be decided goes to analyst review.  Every request is one         *)
(* transaction, with the search or the verifier called in the middle of it.*)
(***************************************************************************)
EXTENDS Rows, Naturals, FiniteSets, TLC
LOCAL INSTANCE Functions

CONSTANTS
  Contact,        \* contact_enrichment_candidates, one for each idempotency key
  Payloads,       \* what the requests for them may say
  EntityCase,     \* entity_resolution_cases, by idempotency key
  CasePayload,    \* the lineage of each case, and how many accounts match its name or domain
  Address,        \* the addresses generate_email_candidates makes of a name
  PatternOf,      \* the pattern each of them was made from
  EmailRequest,   \* Idempotency-Key headers of address requests
  VerifierAnswer, \* what the verifier may say of one address, as a set of flags
  LocalProfile,   \* the runtime profile is LOCAL
  Enricher,       \* concurrently running requests
  MaxChecks       \* bound: version of an e-mail candidate

VARIABLES
  payload,  \* what the request for each contact candidate says
  tables,   \* the rows of the tables of Tables
  joined,   \* history: two requests have been open at the same time
  etx       \* the transaction each request is in

evars == <<payload, tables, joined, etx>>
-----------------------------------------------------------------------------
(* Rows *)

INCIDENT_CONTACT_ROLE_SCOPES == {"security", "it", "risk", "communications"}

ContactEnrichmentCreate ==
  [breached : BOOLEAN, origin : {"manual", "event_participant", "security_incident"},
   by_hand : BOOLEAN, lineage : BOOLEAN, reuse : {"allowed", "unknown", "prohibited"},
   role : INCIDENT_CONTACT_ROLE_SCOPES \cup {"unknown"}, domain : BOOLEAN,
   case : EntityCase \cup {"none"}, account : BOOLEAN, named : BOOLEAN]

ASSUME EnrichmentAssumption ==
  /\ Payloads \subseteq [Contact -> ContactEnrichmentCreate]
  /\ CasePayload \in [EntityCase -> [lineage : BOOLEAN, matches : Nat]]
  /\ Address \subseteq DOMAIN PatternOf
  /\ LocalProfile \in BOOLEAN
  /\ MaxChecks \in Nat

PolicyReason == {"breached_data_rejected", "missing_source_lineage",
                 "participant_reuse_not_allowed", "incident_role_out_of_scope"}
DiscoveryReason == {"domain_discovery_missing_company", "domain_discovery_role_review_required",
                    "domain_discovery_failed", "email_discovery_missing_domain",
                    "email_discovery_failed"}
ContactReason == PolicyReason \cup DiscoveryReason \cup {"entity_resolution_unresolved"}
EmailReason == {"verifier_failed", "catch_all_domain", "ambiguous_verification",
                "policy_review_required"}
CaseReason == {"missing_source_lineage", "multiple_account_matches", "no_account_match"}

\* Participant enrichment generates addresses under a key of its own.
EmailKey == (EmailRequest \cup {"participant"}) \X Contact \X Address

ContactEnrichmentCandidate ==
  [status : {"eligible", "needs_review", "blocked"}, reason : ContactReason \cup {"none"},
   linked : BOOLEAN, domain : BOOLEAN, lineage : BOOLEAN, account : BOOLEAN]
ContactRow == [status : {"stored"}, email : Address \cup {"none"}, lineage : BOOLEAN,
               account : BOOLEAN]
EmailCandidateRecord ==
  [status : {"pending", "verified", "needs_review", "failed", "invalid"}, version : 1..MaxChecks,
   review : {"not_required", "needs_review"}, reason : EmailReason \cup {"none"}]

\* A table's rows, all of them that there can be.
Tables ==
  [candidate : [Contact -> ContactEnrichmentCandidate \cup {Absent}],
   contact : [Contact -> ContactRow \cup {Absent}],
   email : [EmailKey -> EmailCandidateRecord \cup {Absent}],
   pattern : [{PatternOf[a] : a \in Address} -> {[status |-> "learned"], Absent}],
   case : [EntityCase -> [status : {"blocked", "resolved", "ambiguous", "needs_review"}] \cup {Absent}],
   source : [{"search", "manual_review"} -> {[status |-> "enabled"], Absent}],
   review : [(Contact \X ContactReason) \cup (EmailKey \X EmailReason)
               \cup (EntityCase \X CaseReason) -> {[status |-> "open"], Absent}],
   verified : [EmailKey \X (1..MaxChecks) -> {[status |-> "published"], Absent}]]

\* Every row has its type: an e-mail candidate, for one, has a verdict of the verifier's or
\* none, and a reason only from the ones review knows.
EnrichmentTypeOK ==
  /\ DOMAIN tables = {"candidate", "contact", "email", "pattern", "case", "source", "review",
                      "verified"}
  /\ \A c \in Contact :
       /\ tables.candidate[c] \in ContactEnrichmentCandidate \cup {Absent}
       /\ tables.contact[c] \in ContactRow \cup {Absent}
  /\ \A e \in EmailKey : tables.email[e] \in EmailCandidateRecord \cup {Absent}

Opened == [status |-> "open"]
Free == [op |-> "none"]

EnrichmentInit ==
  /\ payload \in Payloads
  /\ tables = [candidate |-> [c \in Contact |-> Absent],
               contact   |-> [c \in Contact |-> Absent],
               email     |-> [e \in EmailKey |-> Absent],
               pattern   |-> [p \in {PatternOf[a] : a \in Address} |-> Absent],
               case      |-> [x \in EntityCase |-> Absent],
               source    |-> [s \in {"search", "manual_review"} |-> Absent],
               review    |-> [r \in (Contact \X ContactReason) \cup (EmailKey \X EmailReason)
                                      \cup (EntityCase \X CaseReason) |-> Absent],
               verified  |-> [r \in EmailKey \X (1..MaxChecks) |-> Absent]]
  /\ joined = FALSE
  /\ etx = [w \in Enricher |-> Free]
-----------------------------------------------------------------------------
(* What the repositories do to the tables v a transaction sees *)

\* _request_review: an existing request for the same reason is returned as it is.
Reviewed(v, target, reason) == [v EXCEPT !.review[<<target, reason>>] = Opened]

\* _upsert_contact
UpsertContact(v, c) ==
  IF v.contact[c] # Absent THEN v
  ELSE [v EXCEPT !.contact[c] = [status |-> "stored", email |-> "none",
                                 lineage |-> v.candidate[c].lineage,
                                 account |-> v.candidate[c].account]]

\* A candidate's contact_id is set to its contact.
Linked(v, c) == [UpsertContact(v, c) EXCEPT !.candidate[c].linked = TRUE]

\* Mutant of evaluate_contact_policy: the reuse of a published participant is not looked at.
evaluate_contact_policy_reused(p) ==
  IF p.breached THEN "breached_data_rejected"
  ELSE IF p.origin = "manual" /\ p.by_hand THEN "none"
  ELSE IF ~p.lineage THEN "missing_source_lineage"
  ELSE IF p.origin = "security_incident" /\ p.role \notin INCIDENT_CONTACT_ROLE_SCOPES
    THEN "incident_role_out_of_scope"
  ELSE "none"

\* Why the policy blocks a candidate; "none" is eligible.
evaluate_contact_policy(p) ==
  IF p.breached THEN "breached_data_rejected"
  ELSE IF p.origin = "manual" /\ p.by_hand THEN "none"
  ELSE IF ~p.lineage THEN "missing_source_lineage"
  ELSE IF p.origin = "event_participant" /\ p.reuse # "allowed" THEN "participant_reuse_not_allowed"
  ELSE IF p.origin = "security_incident" /\ p.role \notin INCIDENT_CONTACT_ROLE_SCOPES
    THEN "incident_role_out_of_scope"
  ELSE "none"

\* A candidate whose company is not resolved waits for review, whatever the policy says.
Unresolved(v, p) == p.case # "none" /\ v.case[p.case].status # "resolved"

\* create_contact_candidate, for a request with or without a domain
CreateContactCandidate(v, c, domain) ==
  LET p == payload[c]
      policy == evaluate_contact_policy(p)
      waits == policy = "none" /\ Unresolved(v, p)
      reason == IF waits THEN "entity_resolution_unresolved" ELSE policy
      row == [status |-> IF waits THEN "needs_review"
                         ELSE IF policy = "none" THEN "eligible" ELSE "blocked",
              reason |-> reason, linked |-> FALSE, domain |-> domain, lineage |-> p.lineage,
              account |-> p.account \/ (p.case # "none" /\ ~Unresolved(v, p))]
      stored == [v EXCEPT !.candidate[c] = row]
  IN IF v.candidate[c] # Absent THEN v
     ELSE IF reason = "none" THEN Linked(stored, c)
     ELSE Reviewed(stored, c, reason)

\* A candidate for each of cs.  One does not depend on another.
CreateContactCandidates(v, cs) ==
  LET one(c) == CreateContactCandidate(v, c, payload[c].domain)
  IN [v EXCEPT
        !.candidate = [c \in Contact |-> IF c \in cs THEN one(c).candidate[c] ELSE @[c]],
        !.contact = [c \in Contact |-> IF c \in cs THEN one(c).contact[c] ELSE @[c]],
        !.review = [r \in DOMAIN @ |-> IF r[1] \in cs THEN one(r[1]).review[r] ELSE @[r]]]

\* A candidate is put aside for review, without a request for it.
SetAside(v, c, reason) ==
  [v EXCEPT !.candidate[c].status = "needs_review", !.candidate[c].reason = reason]

\* _search_source_definition: the source that searches, or reviews by hand, are recorded under.
SourceStored(v, s) == [v EXCEPT !.source[s] = [status |-> "enabled"]]

\* _mark_candidate_for_review
MarkCandidateForReview(v, c, reason) ==
  LET w == IF v.candidate[c].lineage THEN v ELSE SourceStored(v, "manual_review")
  IN Reviewed(SetAside(w, c, reason), c, reason)

\* inferred_demo_domain: in the local profile a domain is made of the company's name.
InferDemoDomain(v, c) ==
  [v EXCEPT !.candidate[c].domain = TRUE, !.candidate[c].status = "eligible",
            !.candidate[c].reason = "none"]

\* Mutant of ApplyDomainDiscovery: a search without a suitable hit asks for no review.
ApplyDomainDiscoverySilent(v, c, hit) ==
  LET w == SourceStored(v, "search")
      found == [w EXCEPT !.candidate[c].domain = TRUE, !.candidate[c].lineage = TRUE]
  IN IF hit = "official" THEN SetAside(found, c, "domain_discovery_role_review_required")
     ELSE SetAside(w, c, "domain_discovery_failed")

\* apply_domain_discovery, for the best hit of a search.
ApplyDomainDiscovery(v, c, hit) ==
  LET w == SourceStored(v, "search")
      known == [w EXCEPT !.candidate[c].lineage = @ \/ hit # "nothing"]
      found == [known EXCEPT !.candidate[c].domain = TRUE]
  IN IF hit # "official"
       THEN Reviewed(SetAside(known, c, "domain_discovery_failed"), c, "domain_discovery_failed")
     ELSE IF payload[c].role \in INCIDENT_CONTACT_ROLE_SCOPES
       THEN Linked([found EXCEPT !.candidate[c].status = "eligible",
                                 !.candidate[c].reason = "none"], c)
     ELSE SetAside(found, c, "domain_discovery_role_review_required")

\* discover_contact_candidate_domain, after the search
DiscoverDomain(v, c, hit) ==
  IF ~payload[c].named THEN SetAside(v, c, "domain_discovery_missing_company")
  ELSE LET w == ApplyDomainDiscovery(v, c, hit)
       IN IF LocalProfile /\ ~w.candidate[c].domain THEN InferDemoDomain(w, c) ELSE w

\* _email_patterns and generate_email_candidates: once patterns are learned only they are used.
GeneratedAddresses(v) ==
  LET learned == {p \in DOMAIN v.pattern : v.pattern[p] # Absent}
  IN IF learned = {} THEN Address ELSE {a \in Address : PatternOf[a] \in learned}

\* _resolve_email_contact_context: an eligible candidate with a contact, or a contact, with lineage.
HasEmailContext(v, c, byContact) ==
  IF byContact THEN v.contact[c] # Absent /\ v.contact[c].lineage
  ELSE /\ v.candidate[c] # Absent
       /\ v.candidate[c].status = "eligible"
       /\ v.candidate[c].linked
       /\ v.candidate[c].lineage

NewEmail == [status |-> "pending", version |-> 1, review |-> "not_required", reason |-> "none"]

\* persist_email_candidates
PersistEmailCandidates(v, c, k) ==
  [v EXCEPT !.email = [e \in EmailKey |->
    IF e[1] = k /\ e[2] = c /\ e[3] \in GeneratedAddresses(v) /\ @[e] = Absent
      THEN NewEmail ELSE @[e]]]

\* discover_contact_candidate_email
DiscoverEmail(v, c, k) ==
  IF ~v.candidate[c].domain /\ ~LocalProfile
    THEN MarkCandidateForReview(v, c, "email_discovery_missing_domain")
  ELSE LET w == IF v.candidate[c].domain THEN v ELSE InferDemoDomain(v, c)
           x == IF w.candidate[c].status = "eligible" /\ ~w.candidate[c].linked
                  THEN Linked(w, c) ELSE w
       IN IF HasEmailContext(x, c, FALSE) THEN PersistEmailCandidates(x, c, k)
          ELSE MarkCandidateForReview(x, c, "email_discovery_failed")

\* The verdict on one address and the reason for a review; the first flag of this order decides.
classify_verification_result(r) ==
  IF "error" \in r THEN <<"failed", "verifier_failed">>
  ELSE IF "catch_all" \in r THEN <<"needs_review", "catch_all_domain">>
  ELSE IF "ambiguous" \in r THEN <<"needs_review", "ambiguous_verification">>
  ELSE IF "role" \in r THEN <<"needs_review", "policy_review_required">>
  ELSE IF "invalid" \in r THEN <<"invalid", "none">>
  ELSE IF "valid" \in r THEN <<"verified", "none">>
  ELSE <<"needs_review", "ambiguous_verification">>

\* The record after a check; its version numbers the checks.
Checked(row, verdict) ==
  LET new == [row EXCEPT !.status = verdict[1], !.version = @ + 1]
  IN CASE verdict[1] = "verified" -> [new EXCEPT !.review = "not_required", !.reason = "none"]
       [] verdict[1] \in {"needs_review", "failed"} ->
            [new EXCEPT !.review = "needs_review", !.reason = verdict[2]]
       [] OTHER -> new

(***************************************************************************)
(* verify_email_candidates checks the records of answers one after the     *)
(* other, in the order the query returns them.  A verified address becomes *)
(* its contact's, the last one when there are several, and is announced    *)
(* under the record's new version; its pattern is learned.                 *)
(***************************************************************************)
Verdict(answers, e) == classify_verification_result(answers[e])
VerifiedBy(answers) == {e \in DOMAIN answers : Verdict(answers, e)[1] = "verified"}
ReviewsAsked(answers) ==
  {<<e, Verdict(answers, e)[2]>> :
     e \in {e \in DOMAIN answers : Verdict(answers, e)[1] \in {"needs_review", "failed"}}}

\* The record of es that comes last in the order.
LastOf(es, order) == CHOOSE e \in es : \A d \in es : order[d] <= order[e]

VerifyEmailCandidates(v, order, answers) ==
  LET good == VerifiedBy(answers)
      of(c) == {e \in good : e[2] = c}
  IN [v EXCEPT
        !.email = [e \in EmailKey |->
          IF e \in DOMAIN answers THEN Checked(@[e], Verdict(answers, e)) ELSE @[e]],
        !.contact = [c \in Contact |->
          IF of(c) # {} /\ @[c] # Absent THEN [@[c] EXCEPT !.email = LastOf(of(c), order)[3]]
          ELSE @[c]],
        !.verified = [r \in DOMAIN @ |->
          IF r[1] \in good /\ r[2] = v.email[r[1]].version + 1 THEN [status |-> "published"]
          ELSE @[r]],
        !.pattern = [p \in DOMAIN @ |->
          IF p \in {PatternOf[e[3]] : e \in good} THEN [status |-> "learned"] ELSE @[p]],
        !.review = [r \in DOMAIN @ |-> IF r \in ReviewsAsked(answers) THEN Opened ELSE @[r]]]

\* A new pattern is added without a flush, so the query for the next record does not see it
\* and adds it again; a new review request between the two flushes it.
AddedTwice(v, order, answers) ==
  \E d, e \in VerifiedBy(answers) :
    /\ order[d] < order[e]
    /\ PatternOf[d[3]] = PatternOf[e[3]]
    /\ v.pattern[PatternOf[e[3]]] = Absent
    /\ \A r \in ReviewsAsked(answers) :
         v.review[r] = Absent => order[r[1]] \notin order[d]..order[e]

\* create_entity_resolution
CreateEntityResolution(v, x) ==
  LET matches == CasePayload[x].matches
      status == IF ~CasePayload[x].lineage THEN "blocked"
                ELSE CASE matches = 1 -> "resolved" [] matches > 1 -> "ambiguous"
                       [] OTHER -> "needs_review"
      reason == CASE status = "blocked"   -> "missing_source_lineage"
                  [] status = "ambiguous" -> "multiple_account_matches"
                  [] OTHER                -> "no_account_match"
      stored == [v EXCEPT !.case[x] = [status |-> status]]
  IN IF v.case[x] # Absent THEN v
     ELSE IF status = "resolved" THEN stored ELSE Reviewed(stored, x, reason)
-----------------------------------------------------------------------------
(* Requests *)

Joins(w, t) ==
  /\ etx' = [etx EXCEPT ![w] = t]
  /\ UNCHANGED payload
  /\ joined' = (joined \/ (t # Free /\ \E u \in Enricher \ {w} : etx[u] # Free))

(***************************************************************************)
(* A request that is done waits for its commit with its changes.  It       *)
(* commits when its inserts are still free, no two contacts of an account  *)
(* get the same address, and no pattern was added twice; otherwise all of  *)
(* it is rolled back.                                                      *)
(***************************************************************************)
ContactsDiffer(v) ==
  \A c, d \in {c \in Contact : v.contact[c] # Absent} :
    (c # d /\ v.contact[c].account /\ v.contact[d].account /\ v.contact[c].email # "none")
      => v.contact[c].email # v.contact[d].email

CanCommit(t) ==
  /\ ~t.twice
  /\ InsertsAreFree(t.changes, tables)
  /\ ContactsDiffer(Committed(t.changes, tables))

Done(seen, mine) == [op |-> "ends", changes |-> Changes(seen, mine), twice |-> FALSE]

EnrichmentCommit(w) ==
  /\ etx[w].op = "ends"
  /\ CanCommit(etx[w])
  /\ tables' = Committed(etx[w].changes, tables)
  /\ Joins(w, Free)

\* The commit fails, or the process or the outside service does.
EnrichmentRollback(w) ==
  /\ etx[w] # Free
  /\ etx[w].op = "ends" => ~CanCommit(etx[w])
  /\ Joins(w, Free)
  /\ UNCHANGED tables

\* enrichment_create_entity_resolution
enrichment_create_entity_resolution(w, x) ==
  /\ etx[w] = Free
  /\ tables.case[x] = Absent
  /\ Joins(w, Done(tables, CreateEntityResolution(tables, x)))
  /\ UNCHANGED tables

\* The foreign key of a candidate refuses a case that is not stored.
CaseIsStored(c) == payload[c].case # "none" => tables.case[payload[c].case] # Absent

\* enrichment_create_contact_candidate
enrichment_create_contact_candidate(w, c) ==
  /\ etx[w] = Free
  /\ tables.candidate[c] = Absent
  /\ CaseIsStored(c)
  /\ Joins(w, Done(tables, CreateContactCandidate(tables, c, payload[c].domain)))
  /\ UNCHANGED tables

\* What create_contact_candidates_from_search says of a hit.
FromSearch(p) ==
  /\ p.origin \in {"manual", "security_incident"} /\ ~p.by_hand
  /\ p.lineage /\ ~p.breached
  /\ p.case = "none" /\ ~p.account

\* enrichment_watch_target_find_contact: a candidate for every hit of a search for people.
enrichment_watch_target_find_contact(w, cs) ==
  /\ etx[w] = Free
  /\ \A c \in cs : FromSearch(payload[c])
  /\ Joins(w, Done(tables, CreateContactCandidates(SourceStored(tables, "search"), cs)))
  /\ UNCHANGED tables

\* The candidate is read before the search.
enrichment_contact_candidate_discover_domain(w, c) ==
  /\ etx[w] = Free
  /\ tables.candidate[c] # Absent
  /\ Joins(w, [op |-> "search", c |-> c, row |-> tables.candidate[c]])
  /\ UNCHANGED tables

\* The search answers; everything but the candidate is read now.
SearchAnswers(w, hit) ==
  LET t == etx[w]
      seen == [tables EXCEPT !.candidate[t.c] = t.row]
  IN /\ t.op = "search"
     /\ Joins(w, Done(seen, DiscoverDomain(seen, t.c, hit)))
     /\ UNCHANGED tables

\* enrichment_contact_candidate_discover_email
enrichment_contact_candidate_discover_email(w, c, k) ==
  /\ etx[w] = Free
  /\ tables.candidate[c] # Absent
  /\ Joins(w, Done(tables, DiscoverEmail(tables, c, k)))
  /\ UNCHANGED tables

\* email_persist_candidates; without a context the request is refused.
email_persist_candidates(w, c, k, byContact) ==
  /\ etx[w] = Free
  /\ HasEmailContext(tables, c, byContact)
  /\ Joins(w, Done(tables, PersistEmailCandidates(tables, c, k)))
  /\ UNCHANGED tables

\* Records that a batch may name: stored, and with room for one more check.
Checkable(v) == {e \in EmailKey : v.email[e] # Absent /\ v.email[e].version < MaxChecks}

\* email_verify_batch: the records are read before the verifier is called.
email_verify_batch(w, es) ==
  /\ etx[w] = Free
  /\ es # {}
  /\ es \subseteq Checkable(tables)
  /\ Joins(w, [op |-> "verify", rows |-> [e \in es |-> tables.email[e]],
              changes |-> Changes(tables, tables)])
  /\ UNCHANGED tables

\* enrichment_event_participant_enrich_target up to the verifier's call.
enrichment_event_participant_enrich_target(w, c) ==
  LET domain == payload[c].domain \/ LocalProfile
      v == CreateContactCandidate(tables, c, domain)
      eligible == domain /\ v.candidate[c].status = "eligible"
      m == IF eligible THEN PersistEmailCandidates(v, c, "participant") ELSE v
      es == {e \in Checkable(m) : e[1] = "participant" /\ e[2] = c}
  IN /\ etx[w] = Free
     /\ payload[c].origin = "event_participant"
     /\ CaseIsStored(c)
     /\ eligible => HasEmailContext(v, c, FALSE)
     /\ Joins(w, IF eligible /\ es # {}
                   THEN [op |-> "verify", rows |-> [e \in es |-> m.email[e]],
                         changes |-> Changes(tables, m)]
                   ELSE Done(tables, m))
     /\ UNCHANGED tables

(***************************************************************************)
(* The verifier answers for every record, or leaves some out, which counts *)
(* as an error.  What the batch did not read before is read now.           *)
(***************************************************************************)
VerifierAnswers(w, order, answers) ==
  LET t == etx[w]
      inserts(u, k) == k \in DOMAIN t.changes[u] /\ t.changes[u][k].seen = Absent
      read == [tables EXCEPT !.email = [e \in EmailKey |->
                 IF e \in DOMAIN t.rows THEN t.rows[e] ELSE @[e]]]
      seen == [u \in DOMAIN read |-> [k \in DOMAIN read[u] |->
                 IF inserts(u, k) THEN Absent ELSE read[u][k]]]
      v == Committed(t.changes, read)
  IN /\ t.op = "verify"
     /\ Joins(w, [Done(seen, VerifyEmailCandidates(v, order, answers))
                    EXCEPT !.twice = AddedTwice(v, order, answers)])
     /\ UNCHANGED tables

EnrichmentNext ==
  \E w \in Enricher :
    \/ \E x \in EntityCase : enrichment_create_entity_resolution(w, x)
    \/ \E c \in Contact :
         \/ enrichment_create_contact_candidate(w, c)
         \/ enrichment_contact_candidate_discover_domain(w, c)
         \/ enrichment_event_participant_enrich_target(w, c)
         \/ \E k \in EmailRequest :
              \/ enrichment_contact_candidate_discover_email(w, c, k)
              \/ \E byContact \in BOOLEAN : email_persist_candidates(w, c, k, byContact)
    \/ \E cs \in SUBSET Contact : enrichment_watch_target_find_contact(w, cs)
    \/ \E hit \in {"official", "suspicious", "nothing"} : SearchAnswers(w, hit)
    \/ \E es \in SUBSET Checkable(tables) : email_verify_batch(w, es)
    \/ /\ etx[w].op = "verify"
       /\ LET es == DOMAIN etx[w].rows
          IN \E order \in Bijection(es, 1..Cardinality(es)), answers \in [es -> VerifierAnswer] :
               VerifierAnswers(w, order, answers)
    \/ EnrichmentCommit(w)
    \/ EnrichmentRollback(w)

EnrichmentSpec == EnrichmentInit /\ [][EnrichmentNext]_evars
-----------------------------------------------------------------------------
(* Properties *)

\* A contact's address, and every learned pattern, was verified: the event that announces it is
\* published, however requests, re-checks and failed commits mix
\* (email_repository.py, verify_email_candidates).
VerifiedIsPublished ==
  /\ \A c \in Contact : (tables.contact[c] # Absent /\ tables.contact[c].email # "none") =>
       \E k \in EmailRequest \cup {"participant"}, n \in 1..MaxChecks :
         tables.verified[<<<<k, c, tables.contact[c].email>>, n>>] # Absent
  /\ \A p \in DOMAIN tables.pattern : tables.pattern[p] # Absent =>
       \E e \in EmailKey, n \in 1..MaxChecks :
         PatternOf[e[3]] = p /\ tables.verified[<<e, n>>] # Absent

\* The reasons of DiscoveryReason that ask no one for a review.
UnrequestedReason == {"domain_discovery_missing_company", "domain_discovery_role_review_required"}

\* A candidate that is put aside for a reason has a review request for that reason, and one that
\* is eligible gives no reason, as long as requests do not overlap.
AsideIsInReview ==
  ~joined => \A c \in Contact : tables.candidate[c] # Absent =>
    LET row == tables.candidate[c]
    IN /\ (row.status = "eligible") = (row.reason = "none")
       /\ row.reason \in ContactReason \ UnrequestedReason =>
            tables.review[<<c, row.reason>>] # Absent

\* A participant whose reuse is not allowed, or a person from breached data, has a contact only
\* after a search found the company's own site, and then only in a role that incident contacts
\* are limited to (domain_repository.py:76).
BlockedContactIsInScope ==
  \A c \in Contact :
    /\ tables.contact[c] # Absent
    /\ payload[c].breached \/ (payload[c].origin = "event_participant"
                                /\ payload[c].reuse # "allowed")
    /\ ~LocalProfile
    => /\ payload[c].role \in INCIDENT_CONTACT_ROLE_SCOPES
       /\ tables.source["search"] # Absent
=============================================================================
