-------------------------- MODULE EnrichmentProofs --------------------------
(***************************************************************************)
(* From candidates to verified contacts: proofs about Enrichment, for any  *)
(* number of contacts, requests, checks and payloads.  A candidate that is *)
(* put aside has the review request its reason asks for, and a person the  *)
(* policy blocks has a contact only in a role in scope, after a search.    *)
(*                                                                         *)
(* Every repository operation maps a view of the tables to a view.  The    *)
(* first half shows that each of them keeps both facts (Keeps).  The       *)
(* second half is about requests, which read a view, wait, and commit      *)
(* their changes over what others have committed meanwhile.                *)
(***************************************************************************)
EXTENDS Enrichment, TLAPS
-----------------------------------------------------------------------------
(* Views *)

\* The tables, the columns of a candidate, and the rows that sources and requests have.
TableNames == {"candidate", "contact", "email", "pattern", "case", "source", "review", "verified"}
CandidateColumns == {"status", "reason", "linked", "domain", "lineage", "account"}
SourceNames == {"search", "manual_review"}
ReviewKey ==
  (Contact \X ContactReason) \cup (EmailKey \X EmailReason) \cup (EntityCase \X CaseReason)
SourceRow == {[status |-> "enabled"], Absent}
ReviewRow == {Opened, Absent}

\* A candidate's row as a table may have it.
FullRow(r) == r = [x \in CandidateColumns |-> r[x]]
CandidateRow(r) == r = Absent \/ FullRow(r)

\* The tables that a request or everybody sees.
View(v) ==
  /\ v = [t \in TableNames |-> v[t]]
  /\ v.candidate = [c \in Contact |-> v.candidate[c]]
  /\ v.contact = [c \in Contact |-> v.contact[c]]
  /\ v.source \in [SourceNames -> SourceRow]
  /\ v.review \in [ReviewKey -> ReviewRow]
  /\ \A c \in Contact : CandidateRow(v.candidate[c])

\* BlockedContactIsInScope, for candidates that may get a contact too.
Barred(c) ==
  /\ \/ payload[c].breached
     \/ payload[c].origin = "event_participant" /\ payload[c].reuse # "allowed"
  /\ ~LocalProfile
InScope(c) == payload[c].role \in INCIDENT_CONTACT_ROLE_SCOPES
ScopedRow(v, c) ==
  Barred(c) /\ (v.contact[c] # Absent \/ v.candidate[c].status = "eligible")
    => InScope(c) /\ v.source["search"] # Absent
Scoped(v) == \A c \in Contact : ScopedRow(v, c)

\* AsideIsInReview of a view.
AsideRow(v, c) ==
  v.candidate[c] # Absent =>
    LET row == v.candidate[c]
    IN /\ (row.status = "eligible") = (row.reason = "none")
       /\ row.reason \in ContactReason \ UnrequestedReason => v.review[<<c, row.reason>>] # Absent
Aside(v) == \A c \in Contact : AsideRow(v, c)

\* Nothing that was stored is missing.
Grown(v, w) ==
  /\ \A c \in Contact : v.candidate[c] # Absent => w.candidate[c] # Absent
  /\ \A s \in SourceNames : v.source[s] # Absent => w.source[s] # Absent
  /\ \A r \in ReviewKey : v.review[r] # Absent => w.review[r] # Absent

\* The rows of other contacts are the same.
OthersSame(v, w, c) ==
  \A d \in Contact : d # c => w.candidate[d] = v.candidate[d] /\ w.contact[d] = v.contact[d]

\* What a repository operation makes of a view.
Keeps(v, w) == View(w) /\ Scoped(w) /\ (Aside(v) => Aside(w)) /\ Grown(v, w)

\* Rows that are there are not Absent, and no row of a candidate reads as eligible without one.
LEMMA RowsDiffer ==
  /\ Opened # Absent
  /\ [status |-> "enabled"] # Absent
  /\ \A r : FullRow(r) => r # Absent
  /\ Absent.status # "eligible"
<1>1. DOMAIN Absent = {"status"}
  BY Zenon DEF Absent
<1>2. "reason" \in CandidateColumns /\ "reason" # "status"
  BY Zenon DEF CandidateColumns
<1>3. \A r : FullRow(r) => DOMAIN r = CandidateColumns
  BY Zenon DEF FullRow
<1>4. Opened.status # Absent.status /\ [status |-> "enabled"].status # Absent.status
  BY Zenon DEF Opened, Absent
<1>. QED
  BY <1>1, <1>2, <1>3, <1>4, Zenon DEF Absent

\* An operation that touches the rows of one contact.
LEMMA KeepsOne ==
  ASSUME NEW v, NEW w, NEW c \in Contact, View(v), Scoped(v), View(w), Grown(v, w),
         OthersSame(v, w, c),
         ScopedRow(w, c), Aside(v) => AsideRow(w, c)
  PROVE  Keeps(v, w)
<1>1. ASSUME NEW d \in Contact, d # c PROVE ScopedRow(w, d) /\ (AsideRow(v, d) => AsideRow(w, d))
  <2>1. w.candidate[d] = v.candidate[d] /\ w.contact[d] = v.contact[d]
    BY <1>1, Zenon DEF OthersSame
  <2>2. ScopedRow(v, d)
    BY Zenon DEF Scoped
  <2>3. "search" \in SourceNames
    BY Zenon DEF SourceNames
  <2>4. ScopedRow(w, d)
    BY <2>1, <2>2, <2>3, Zenon DEF ScopedRow, Grown
  <2>5. \A reason \in ContactReason : <<d, reason>> \in ReviewKey
    BY Zenon DEF ReviewKey
  <2>6. AsideRow(v, d) => AsideRow(w, d)
    BY <2>1, <2>5, Zenon DEF AsideRow, Grown
  <2>. QED
    BY <2>4, <2>6, Zenon
<1>. QED
  BY <1>1, Zenon DEF Keeps, Scoped, Aside

\* An operation on other tables, or on contacts that exist.
LEMMA KeepsAll ==
  ASSUME NEW v, NEW w, View(v), Scoped(v), View(w), w.candidate = v.candidate, w.source = v.source,
         \A c \in Contact : w.contact[c] # Absent => v.contact[c] # Absent,
         \A r \in ReviewKey : v.review[r] # Absent => w.review[r] # Absent
  PROVE  Keeps(v, w)
<1>1. Grown(v, w)
  BY Zenon DEF Grown
<1>2. Scoped(w)
  BY Zenon DEF Scoped, ScopedRow
<1>3. \A d \in Contact, reason \in ContactReason : <<d, reason>> \in ReviewKey
  BY Zenon DEF ReviewKey
<1>4. Aside(v) => Aside(w)
  BY <1>3, ZenonT(60) DEF Aside, AsideRow
<1>. QED
  BY <1>1, <1>2, <1>4, Zenon DEF Keeps
-----------------------------------------------------------------------------
(* What the operations are made of *)

\* v with another row for the candidate
Set(v, c, row) == [v EXCEPT !.candidate[c] = row]

\* The tables other than the candidates' are the same.
RestSame(v, w) == w.contact = v.contact /\ w.source = v.source /\ w.review = v.review

\* A view with another row of one candidate.
LEMMA SetView ==
  ASSUME NEW v, NEW c \in Contact, NEW row, View(v), FullRow(row)
  PROVE  /\ View(Set(v, c, row))
         /\ Set(v, c, row).candidate[c] = row /\ row # Absent
         /\ OthersSame(v, Set(v, c, row), c) /\ RestSame(v, Set(v, c, row))
<1>1. row # Absent
  BY RowsDiffer, Zenon
<1>. QED
  BY <1>1, Zenon DEF View, TableNames, CandidateRow, Set, OthersSame, RestSame

\* _request_review opens a request and changes no other table (review_repository.py:26-81).
LEMMA ReviewedView ==
  ASSUME NEW v, NEW t, NEW reason, View(v), <<t, reason>> \in ReviewKey
  PROVE  LET w == Reviewed(v, t, reason)
         IN /\ View(w)
            /\ w.candidate = v.candidate /\ w.contact = v.contact /\ w.source = v.source
            /\ w.review[<<t, reason>>] # Absent
            /\ \A r \in ReviewKey : v.review[r] # Absent => w.review[r] # Absent
<1>1. Opened # Absent
  BY RowsDiffer, Zenon
<1>. DEFINE w == Reviewed(v, t, reason)
<1>2. w.review = [v.review EXCEPT ![<<t, reason>>] = Opened]
  BY Zenon DEF View, TableNames, Reviewed
<1>3. /\ w = [x \in TableNames |-> w[x]]
      /\ w.candidate = v.candidate /\ w.contact = v.contact /\ w.source = v.source
  BY Zenon DEF View, TableNames, Reviewed
<1>. HIDE DEF w
<1>4. w.review \in [ReviewKey -> ReviewRow]
  BY <1>2, Zenon DEF View, ReviewRow
<1>5. View(w)
  BY <1>3, <1>4, Zenon DEF View
<1>6. \A r \in ReviewKey : v.review[r] # Absent => w.review[r] # Absent
  BY <1>1, <1>2, Zenon DEF View
<1>7. w.review[<<t, reason>>] # Absent
  BY <1>1, <1>2, Zenon DEF View
<1>. QED
  BY <1>3, <1>5, <1>6, <1>7, Zenon DEF w

\* Linking a candidate stores its contact and leaves its status and its reason.
LEMMA LinkedView ==
  ASSUME NEW v, NEW c \in Contact, View(v), v.candidate[c] # Absent
  PROVE  LET w == Linked(v, c)
         IN /\ View(w) /\ OthersSame(v, w, c)
            /\ w.candidate[c] # Absent
            /\ w.candidate[c].status = v.candidate[c].status
            /\ w.candidate[c].reason = v.candidate[c].reason
            /\ w.source = v.source /\ w.review = v.review
<1>. DEFINE w == Linked(v, c)
<1>0. PICK u : u = UpsertContact(v, c)
  BY Zenon
<1>1. /\ View(u) /\ u.candidate = v.candidate /\ u.source = v.source /\ u.review = v.review
      /\ OthersSame(v, u, c)
  BY <1>0, Zenon DEF View, TableNames, UpsertContact, OthersSame
<1>2. PICK row : row = [u.candidate[c] EXCEPT !.linked = TRUE]
  BY Zenon
<1>3. FullRow(u.candidate[c])
  BY <1>1, Zenon DEF View, CandidateRow
<1>4. FullRow(row) /\ row.status = v.candidate[c].status /\ row.reason = v.candidate[c].reason
  BY <1>1, <1>2, <1>3, Zenon DEF CandidateColumns, FullRow
<1>5. w = Set(u, c, row)
  BY <1>0, <1>2, Zenon DEF Linked, Set
<1>. HIDE DEF w
<1>8. LET x == Set(u, c, row)
      IN View(x) /\ x.candidate[c] = row /\ row # Absent /\ OthersSame(u, x, c) /\ RestSame(u, x)
  <2>1. View(u)
    BY <1>1, Zenon
  <2>2. FullRow(row)
    BY <1>4, Zenon
  <2>. QED
    BY <2>1, <2>2, SetView, Zenon
<1>6. View(w) /\ w.candidate[c] = row /\ row # Absent /\ OthersSame(u, w, c) /\ RestSame(u, w)
  BY <1>5, <1>8, Zenon
<1>7. OthersSame(v, w, c)
  BY <1>1, <1>6, Zenon DEF OthersSame
<1>. QED
  BY <1>1, <1>4, <1>6, <1>7, Zenon DEF w, RestSame

\* Storing a source run touches no row of a contact.
LEMMA SourceView ==
  ASSUME NEW v, NEW s \in SourceNames, View(v)
  PROVE  LET w == SourceStored(v, s)
         IN /\ View(w)
            /\ w.candidate = v.candidate /\ w.contact = v.contact /\ w.review = v.review
            /\ w.source[s] # Absent
            /\ \A x \in SourceNames : v.source[x] # Absent => w.source[x] # Absent
<1>. DEFINE w == SourceStored(v, s)
<1>1. w.source = [v.source EXCEPT ![s] = [status |-> "enabled"]]
  BY Zenon DEF View, TableNames, SourceStored
<1>2. /\ w = [x \in TableNames |-> w[x]]
      /\ w.candidate = v.candidate /\ w.contact = v.contact /\ w.review = v.review
  BY Zenon DEF View, TableNames, SourceStored
<1>. HIDE DEF w
<1>3. w.source \in [SourceNames -> SourceRow]
  BY <1>1, Zenon DEF View, SourceRow
<1>4. View(w)
  BY <1>2, <1>3, Zenon DEF View
<1>5. w.source[s] # Absent /\ \A x \in SourceNames : v.source[x] # Absent => w.source[x] # Absent
  BY <1>1, RowsDiffer, Zenon DEF View
<1>. QED
  BY <1>2, <1>4, <1>5, Zenon DEF w

\* A candidate whose status and reason are set.
LEMMA StatusView ==
  ASSUME NEW v, NEW c \in Contact, View(v), v.candidate[c] # Absent, NEW reason
  PROVE  /\ LET w == SetAside(v, c, reason)
            IN /\ View(w) /\ OthersSame(v, w, c) /\ RestSame(v, w)
               /\ w.candidate[c] # Absent
               /\ w.candidate[c].status = "needs_review" /\ w.candidate[c].reason = reason
         /\ LET w == InferDemoDomain(v, c)
            IN /\ View(w) /\ OthersSame(v, w, c) /\ RestSame(v, w)
               /\ w.candidate[c] # Absent
               /\ w.candidate[c].status = "eligible" /\ w.candidate[c].reason = "none"
<1>1. PICK row : row = [v.candidate[c] EXCEPT !.status = "needs_review", !.reason = reason]
  BY Zenon
<1>2. PICK demo :
        demo = [v.candidate[c] EXCEPT !.domain = TRUE, !.status = "eligible", !.reason = "none"]
  BY Zenon
<1>3. FullRow(v.candidate[c])
  BY Zenon DEF View, CandidateRow
<1>4. /\ FullRow(row) /\ row.status = "needs_review" /\ row.reason = reason
      /\ FullRow(demo) /\ demo.status = "eligible" /\ demo.reason = "none"
  BY <1>1, <1>2, <1>3, Zenon DEF CandidateColumns, FullRow
<1>5. SetAside(v, c, reason) = Set(v, c, row) /\ InferDemoDomain(v, c) = Set(v, c, demo)
  BY <1>1, <1>2, ZenonT(60) DEF SetAside, InferDemoDomain, View, TableNames, Set
<1>6. LET x == Set(v, c, row)
      IN View(x) /\ x.candidate[c] = row /\ row # Absent /\ OthersSame(v, x, c) /\ RestSame(v, x)
  BY <1>4, SetView, Zenon
<1>7. LET x == Set(v, c, demo)
      IN View(x) /\ x.candidate[c] = demo /\ demo # Absent /\ OthersSame(v, x, c) /\ RestSame(v, x)
  BY <1>4, SetView, Zenon
<1>. QED
  BY <1>4, <1>5, <1>6, <1>7, Zenon
-----------------------------------------------------------------------------
(* The operations *)

\* evaluate_contact_policy names a reason of the policy, and names one for whoever it blocks.
LEMMA PolicyReasons ==
  ASSUME NEW p
  PROVE  /\ evaluate_contact_policy(p) \in PolicyReason \cup {"none"}
         /\ p.breached \/ (p.origin = "event_participant" /\ p.reuse # "allowed")
              => evaluate_contact_policy(p) # "none"
<1>. QED
  BY Zenon DEF evaluate_contact_policy, PolicyReason

\* create_contact_candidate, which links the candidate only if nothing stands against it.
LEMMA CreateKeeps ==
  ASSUME NEW v, View(v), Scoped(v), NEW c \in Contact, NEW domain
  PROVE  LET w == CreateContactCandidate(v, c, domain)
         IN Keeps(v, w) /\ w.candidate[c] # Absent /\ w.source = v.source
<1>. DEFINE w == CreateContactCandidate(v, c, domain)
<1>1. CASE v.candidate[c] # Absent
  <2>1. w = v
    BY <1>1, Zenon DEF CreateContactCandidate
  <2>. QED
    BY <1>1, <2>1, Zenon DEF Keeps, Grown
<1>2. CASE v.candidate[c] = Absent
  <2>1. PICK reason, row :
          /\ w = IF reason = "none" THEN Linked(Set(v, c, row), c)
                 ELSE Reviewed(Set(v, c, row), c, reason)
          /\ FullRow(row) /\ row.reason = reason /\ (row.status = "eligible" <=> reason = "none")
          /\ reason \in PolicyReason \cup {"entity_resolution_unresolved", "none"}
          /\ evaluate_contact_policy(payload[c]) # "none" => reason # "none"
    <3>. DEFINE p == payload[c]
                policy == evaluate_contact_policy(p)
                waits == policy = "none" /\ Unresolved(v, p)
                why == IF waits THEN "entity_resolution_unresolved" ELSE policy
                new == [status |-> IF waits THEN "needs_review"
                                   ELSE IF policy = "none" THEN "eligible" ELSE "blocked",
                        reason |-> why, linked |-> FALSE, domain |-> domain, lineage |-> p.lineage,
                        account |-> p.account \/ (p.case # "none" /\ ~Unresolved(v, p))]
    <3>1. w = IF why = "none" THEN Linked(Set(v, c, new), c) ELSE Reviewed(Set(v, c, new), c, why)
      BY <1>2, Zenon DEF CreateContactCandidate, Set
    <3>2. policy \in PolicyReason \cup {"none"}
      BY PolicyReasons, Zenon
    <3>3. why \in PolicyReason \cup {"entity_resolution_unresolved", "none"}
            /\ (policy # "none" => why # "none")
      BY <3>2, Zenon
    <3>4. FullRow(new) /\ new.reason = why /\ (new.status = "eligible" <=> why = "none")
      <4>. HIDE DEF policy
      <4>. QED
        BY Zenon DEF CandidateColumns, FullRow
    <3>. HIDE DEF new, why
    <3>. QED
      BY <3>1, <3>3, <3>4, Zenon
  <2>. HIDE DEF w
  <2>2. PICK u : u = Set(v, c, row)
    BY Zenon
  <2>3. /\ View(u) /\ u.candidate[c] = row /\ row # Absent
        /\ OthersSame(v, u, c) /\ RestSame(v, u)
    BY <2>1, <2>2, SetView, Zenon
  <2>4. w = IF reason = "none" THEN Linked(u, c) ELSE Reviewed(u, c, reason)
    BY <2>1, <2>2, Zenon
  <2>5. "search" \in SourceNames
    BY Zenon DEF SourceNames
  <2>6. ScopedRow(v, c)
    BY Zenon DEF Scoped
  <2>7. CASE reason = "none"
    <3>0. w = Linked(u, c) /\ u.candidate[c] # Absent
      BY <2>3, <2>4, <2>7, Zenon
    <3>1. /\ View(w) /\ OthersSame(u, w, c) /\ w.candidate[c] # Absent
          /\ w.candidate[c].status = u.candidate[c].status
          /\ w.candidate[c].reason = u.candidate[c].reason
          /\ w.source = u.source /\ w.review = u.review
      BY <2>3, <3>0, LinkedView, Zenon
    <3>2. ~Barred(c)
      BY <2>1, <2>7, PolicyReasons, Zenon DEF Barred
    <3>3. Grown(v, w) /\ OthersSame(v, w, c) /\ w.source = v.source
      BY <1>2, <2>3, <3>1, ZenonT(60) DEF Grown, OthersSame, RestSame
    <3>4. ScopedRow(w, c)
      BY <3>2, Zenon DEF ScopedRow
    <3>5. AsideRow(w, c)
      BY <2>1, <2>3, <2>7, <3>1, Zenon DEF AsideRow, ContactReason, PolicyReason, DiscoveryReason
    <3>6. Keeps(v, w)
      BY <3>1, <3>3, <3>4, <3>5, KeepsOne, Zenon
    <3>. QED
      BY <3>1, <3>3, <3>6, Zenon DEF w
  <2>8. CASE reason # "none"
    <3>1. reason \in ContactReason
      BY <2>1, <2>8, Zenon DEF ContactReason
    <3>2. <<c, reason>> \in ReviewKey
      BY <3>1, Zenon DEF ReviewKey
    <3>0. w = Reviewed(u, c, reason)
      BY <2>4, <2>8, Zenon
    <3>3. /\ View(w) /\ w.candidate = u.candidate /\ w.contact = u.contact /\ w.source = u.source
          /\ w.review[<<c, reason>>] # Absent
          /\ \A r \in ReviewKey : u.review[r] # Absent => w.review[r] # Absent
      BY <2>3, <3>0, <3>2, ReviewedView
    <3>4. Grown(v, w) /\ OthersSame(v, w, c) /\ w.source = v.source
      BY <1>2, <2>3, <3>3, Zenon DEF Grown, OthersSame, RestSame
    <3>5. ScopedRow(w, c)
      BY <2>1, <2>3, <2>6, <2>8, <3>3, ZenonT(60) DEF ScopedRow, RestSame
    <3>6. AsideRow(w, c)
      BY <2>1, <2>3, <2>8, <3>3, Zenon DEF AsideRow
    <3>7. Keeps(v, w) /\ w.candidate[c] # Absent
      BY <2>3, <3>3, <3>4, <3>5, <3>6, KeepsOne, Zenon
    <3>. QED
      BY <3>4, <3>7, Zenon DEF w
  <2>. QED
    BY <2>7, <2>8, Zenon DEF w
<1>. QED
  BY <1>1, <1>2, Zenon

\* create_contact_candidates_from_search: the candidates of one search, in any order.
LEMMA CreateAllKeeps ==
  ASSUME NEW v, View(v), Scoped(v), NEW cs \in SUBSET Contact
  PROVE  Keeps(v, CreateContactCandidates(v, cs))
<1>. DEFINE one(c) == CreateContactCandidate(v, c, payload[c].domain)
            w == CreateContactCandidates(v, cs)
<1>1. \A c \in Contact : Keeps(v, one(c)) /\ one(c).candidate[c] # Absent
        /\ one(c).source = v.source
  BY CreateKeeps, Zenon
<1>2. /\ w = [t \in TableNames |-> w[t]]
      /\ w.candidate = [c \in Contact |-> IF c \in cs THEN one(c).candidate[c] ELSE v.candidate[c]]
      /\ w.contact = [c \in Contact |-> IF c \in cs THEN one(c).contact[c] ELSE v.contact[c]]
      /\ w.review = [r \in ReviewKey |-> IF r[1] \in cs THEN one(r[1]).review[r] ELSE v.review[r]]
      /\ w.source = v.source
  <2>. HIDE DEF one
  <2>1. w = [v EXCEPT
        !.candidate = [c \in Contact |-> IF c \in cs THEN one(c).candidate[c] ELSE @[c]],
        !.contact = [c \in Contact |-> IF c \in cs THEN one(c).contact[c] ELSE @[c]],
        !.review = [r \in DOMAIN @ |-> IF r[1] \in cs THEN one(r[1]).review[r] ELSE @[r]]]
    BY Zenon DEF CreateContactCandidates, one
  <2>. HIDE DEF w
  <2>2. DOMAIN v.review = ReviewKey
    BY Zenon DEF View
  <2>. QED
    BY <2>1, <2>2, Zenon DEF View, TableNames
<1>. HIDE DEF w, one
<1>3. \A c \in Contact :
        /\ CandidateRow(one(c).candidate[c])
        /\ one(c).review \in [ReviewKey -> ReviewRow]
        /\ Grown(v, one(c)) /\ ScopedRow(one(c), c) /\ (Aside(v) => AsideRow(one(c), c))
  BY <1>1, Zenon DEF Keeps, View, Scoped, Aside
<1>4. \A r \in ReviewKey : w.review[r] \in ReviewRow
        /\ (v.review[r] # Absent => w.review[r] # Absent)
  <2>. TAKE r \in ReviewKey
  <2>1. CASE r[1] \in cs
    <3>1. w.review[r] = one(r[1]).review[r] /\ r[1] \in Contact
      BY <1>2, <2>1, Zenon
    <3>. QED
      BY <1>3, <3>1, Zenon DEF Grown
  <2>2. CASE r[1] \notin cs
    <3>1. w.review[r] = v.review[r]
      BY <1>2, <2>2, Zenon
    <3>. QED
      BY <3>1, Zenon DEF View
  <2>. QED
    BY <2>1, <2>2, Zenon
<1>5. View(w)
  <2>1. w.review \in [ReviewKey -> ReviewRow]
    BY <1>2, <1>4, Zenon
  <2>2. \A c \in Contact : CandidateRow(w.candidate[c])
    BY <1>2, <1>3, Zenon DEF View
  <2>3. w.candidate = [c \in Contact |-> w.candidate[c]]
          /\ w.contact = [c \in Contact |-> w.contact[c]]
    BY <1>2, Zenon
  <2>4. w.source \in [SourceNames -> SourceRow]
    BY <1>2, Zenon DEF View
  <2>. QED
    BY <1>2, <2>1, <2>2, <2>3, <2>4, Zenon DEF View
<1>6. ASSUME NEW c \in Contact
      PROVE  ScopedRow(w, c) /\ (Aside(v) => AsideRow(w, c))
               /\ (v.candidate[c] # Absent => w.candidate[c] # Absent)
  <2>1. \A reason \in ContactReason : <<c, reason>> \in ReviewKey /\ <<c, reason>>[1] = c
    BY Zenon DEF ReviewKey
  <2>2. CASE c \in cs
    <3>1. w.candidate[c] = one(c).candidate[c] /\ w.contact[c] = one(c).contact[c]
            /\ w.source = one(c).source
      BY <1>1, <1>2, <2>2, Zenon
    <3>2. \A reason \in ContactReason : w.review[<<c, reason>>] = one(c).review[<<c, reason>>]
      BY <1>2, <2>1, <2>2, Zenon
    <3>3. ScopedRow(w, c) /\ w.candidate[c] # Absent
      BY <1>1, <1>3, <3>1, Zenon DEF ScopedRow
    <3>4. AsideRow(one(c), c) => AsideRow(w, c)
      BY <3>1, <3>2, Zenon DEF AsideRow
    <3>. QED
      BY <1>3, <3>3, <3>4, Zenon
  <2>3. CASE c \notin cs
    <3>1. w.candidate[c] = v.candidate[c] /\ w.contact[c] = v.contact[c] /\ w.source = v.source
      BY <1>2, <2>3, Zenon
    <3>2. \A reason \in ContactReason : w.review[<<c, reason>>] = v.review[<<c, reason>>]
      BY <1>2, <2>1, <2>3, Zenon
    <3>3. ScopedRow(w, c)
      BY <3>1, Zenon DEF ScopedRow, Scoped
    <3>4. AsideRow(v, c) => AsideRow(w, c)
      BY <3>1, <3>2, Zenon DEF AsideRow
    <3>. QED
      BY <3>1, <3>3, <3>4, Zenon DEF Aside
  <2>. QED
    BY <2>2, <2>3, Zenon
<1>. QED
  BY <1>2, <1>4, <1>5, <1>6, Zenon DEF Keeps, Scoped, Aside, Grown, w

\* A candidate that stays or becomes put aside, with the request for it.
LEMMA AsideKeeps ==
  ASSUME NEW v, NEW w, NEW c \in Contact, View(v), Scoped(v), View(w), OthersSame(v, w, c),
         Grown(v, w),
         w.contact = v.contact, w.candidate[c] # Absent, w.candidate[c].status = "needs_review",
         NEW reason \in ContactReason, w.candidate[c].reason = reason,
         reason \in UnrequestedReason \/ w.review[<<c, reason>>] # Absent
  PROVE  Keeps(v, w)
<1>1. ScopedRow(v, c) /\ "search" \in SourceNames
  BY Zenon DEF Scoped, SourceNames
<1>2. "needs_review" # "eligible" /\ reason # "none"
  BY Zenon DEF ContactReason, PolicyReason, DiscoveryReason
<1>3. ScopedRow(w, c)
  BY <1>1, <1>2, Zenon DEF ScopedRow, Grown
<1>4. AsideRow(w, c)
  BY <1>2, Zenon DEF AsideRow
<1>. QED
  BY <1>3, <1>4, KeepsOne, Zenon

\* The reasons that discovery gives are reasons of contacts, and can be asked about.
LEMMA ReasonKinds ==
  /\ {"domain_discovery_missing_company", "domain_discovery_role_review_required",
      "domain_discovery_failed", "email_discovery_missing_domain", "email_discovery_failed"}
       \subseteq ContactReason
  /\ {"domain_discovery_missing_company", "domain_discovery_role_review_required"}
       \subseteq UnrequestedReason
  /\ \A c \in Contact, reason \in ContactReason : <<c, reason>> \in ReviewKey
  /\ "search" \in SourceNames /\ "manual_review" \in SourceNames
<1>1. \A c \in Contact, reason \in ContactReason : <<c, reason>> \in ReviewKey
  BY Zenon DEF ReviewKey
<1>. QED
  BY <1>1, Zenon DEF ContactReason, DiscoveryReason, UnrequestedReason, SourceNames

\* What one operation after the other does keeps both facts.
LEMMA KeepsTrans ==
  ASSUME NEW u, NEW v, NEW w, Keeps(u, v), Keeps(v, w)
  PROVE  Keeps(u, w)
<1>1. Grown(u, w)
  BY Zenon DEF Keeps, Grown
<1>. QED
  BY <1>1, Zenon DEF Keeps

\* Storing a source run keeps them.
LEMMA SourceKeeps ==
  ASSUME NEW v, View(v), Scoped(v), NEW s \in SourceNames
  PROVE  Keeps(v, SourceStored(v, s))
<1>. DEFINE w == SourceStored(v, s)
<1>1. /\ View(w) /\ w.candidate = v.candidate /\ w.contact = v.contact /\ w.review = v.review
      /\ \A x \in SourceNames : v.source[x] # Absent => w.source[x] # Absent
  BY SourceView, Zenon
<1>. HIDE DEF w
<1>2. Grown(v, w)
  BY <1>1, Zenon DEF Grown
<1>3. Scoped(w) /\ (Aside(v) => Aside(w))
  BY <1>1, ReasonKinds, ZenonT(60) DEF Scoped, ScopedRow, Aside, AsideRow
<1>. QED
  BY <1>1, <1>2, <1>3, Zenon DEF Keeps, w

\* Setting a candidate aside keeps them, with the request or for a reason that asks for none.
LEMMA SetAsideKeeps ==
  ASSUME NEW v, View(v), Scoped(v), NEW c \in Contact, v.candidate[c] # Absent,
         NEW reason \in ContactReason
  PROVE  /\ reason \in UnrequestedReason => Keeps(v, SetAside(v, c, reason))
         /\ Keeps(v, Reviewed(SetAside(v, c, reason), c, reason))
<1>1. PICK w : w = SetAside(v, c, reason)
  BY Zenon
<1>2. PICK x : x = Reviewed(w, c, reason)
  BY Zenon
<1>3. /\ View(w) /\ OthersSame(v, w, c) /\ RestSame(v, w) /\ w.candidate[c] # Absent
      /\ w.candidate[c].status = "needs_review" /\ w.candidate[c].reason = reason
  BY <1>1, StatusView
<1>4. <<c, reason>> \in ReviewKey
  BY ReasonKinds, Zenon
<1>5. /\ View(x) /\ x.candidate = w.candidate /\ x.contact = w.contact /\ x.source = w.source
      /\ x.review[<<c, reason>>] # Absent
      /\ \A r \in ReviewKey : w.review[r] # Absent => x.review[r] # Absent
  BY <1>2, <1>3, <1>4, ReviewedView
<1>6. Grown(v, w) /\ w.contact = v.contact
  BY <1>3, Zenon DEF Grown, OthersSame, RestSame
<1>7. Grown(v, x) /\ x.contact = v.contact /\ OthersSame(v, x, c)
  BY <1>3, <1>5, Zenon DEF Grown, OthersSame, RestSame
<1>8. reason \in UnrequestedReason => Keeps(v, w)
  BY <1>3, <1>6, AsideKeeps, Zenon
<1>9. Keeps(v, x)
  BY <1>3, <1>5, <1>7, AsideKeeps, Zenon
<1>. QED
  BY <1>1, <1>2, <1>8, <1>9, Zenon

\* A candidate that is linked is eligible, and was before or is in scope.
LEMMA EligibleKeeps ==
  ASSUME NEW v, NEW w, NEW c \in Contact, View(v), Scoped(v), View(w), OthersSame(v, w, c),
         Grown(v, w),
         w.candidate[c] # Absent, w.candidate[c].status = "eligible",
         Aside(v) => w.candidate[c].reason = "none",
         Barred(c) => InScope(c) /\ w.source["search"] # Absent
  PROVE  Keeps(v, w)
<1>2. "none" \notin ContactReason
  BY Zenon DEF ContactReason, PolicyReason, DiscoveryReason
<1>3. ScopedRow(w, c)
  BY Zenon DEF ScopedRow
<1>4. Aside(v) => AsideRow(w, c)
  BY <1>2, Zenon DEF AsideRow
<1>. QED
  BY <1>3, <1>4, KeepsOne, Zenon

\* Linking an eligible candidate keeps them.
LEMMA LinkedKeeps ==
  ASSUME NEW v, View(v), Scoped(v), NEW c \in Contact, v.candidate[c] # Absent,
         v.candidate[c].status = "eligible"
  PROVE  Keeps(v, Linked(v, c)) /\ Linked(v, c).candidate[c] # Absent
<1>1. PICK w : w = Linked(v, c)
  BY Zenon
<1>2. /\ View(w) /\ OthersSame(v, w, c) /\ w.candidate[c] # Absent
      /\ w.candidate[c].status = v.candidate[c].status
      /\ w.candidate[c].reason = v.candidate[c].reason
      /\ w.source = v.source /\ w.review = v.review
  BY <1>1, LinkedView, Zenon
<1>3. Grown(v, w)
  BY <1>2, Zenon DEF Grown, OthersSame
<1>4. Aside(v) => w.candidate[c].reason = "none"
  BY <1>2, Zenon DEF Aside, AsideRow
<1>5. Barred(c) => InScope(c) /\ w.source["search"] # Absent
  BY <1>2, Zenon DEF Scoped, ScopedRow
<1>6. Keeps(v, w)
  BY <1>2, <1>3, <1>4, <1>5, EligibleKeeps, Zenon
<1>. QED
  BY <1>1, <1>2, <1>6, Zenon

\* A row whose status stays or becomes eligible for a reason.
LEMMA SetKeeps ==
  ASSUME NEW v, View(v), Scoped(v), NEW c \in Contact, v.candidate[c] # Absent, NEW row,
         FullRow(row)
  PROVE  LET w == Set(v, c, row)
         IN /\ w.candidate[c] = row /\ row # Absent /\ w.source = v.source
            /\ row.status = v.candidate[c].status /\ row.reason = v.candidate[c].reason
                 => Keeps(v, w)
            /\ /\ row.status = "eligible" /\ row.reason = "none"
               /\ Barred(c) => InScope(c) /\ v.source["search"] # Absent
               => Keeps(v, w)
<1>1. PICK w : w = Set(v, c, row)
  BY Zenon
<1>2. View(w) /\ w.candidate[c] = row /\ row # Absent /\ OthersSame(v, w, c) /\ RestSame(v, w)
  BY <1>1, SetView, Zenon
<1>3. Grown(v, w) /\ w.source = v.source
  BY <1>2, Zenon DEF Grown, OthersSame, RestSame
<1>4. ASSUME row.status = v.candidate[c].status, row.reason = v.candidate[c].reason
      PROVE  Keeps(v, w)
  <2>1. ScopedRow(w, c)
    BY <1>2, <1>4, Zenon DEF Scoped, ScopedRow, RestSame
  <2>2. AsideRow(v, c) => AsideRow(w, c)
    BY <1>2, <1>4, Zenon DEF AsideRow, RestSame
  <2>3. Aside(v) => AsideRow(w, c)
    BY <2>2, Zenon DEF Aside
  <2>. QED
    BY <1>2, <1>3, <2>1, <2>3, KeepsOne, Zenon
<1>5. ASSUME row.status = "eligible", row.reason = "none",
             Barred(c) => InScope(c) /\ v.source["search"] # Absent
      PROVE Keeps(v, w)
  <2>1. Barred(c) => InScope(c) /\ w.source["search"] # Absent
    BY <1>3, <1>5, Zenon
  <2>2. w.candidate[c] # Absent /\ w.candidate[c].status = "eligible"
          /\ w.candidate[c].reason = "none"
    BY <1>2, <1>5, Zenon
  <2>3. View(w) /\ OthersSame(v, w, c)
    BY <1>2, Zenon
  <2>. QED
    BY <1>3, <2>1, <2>2, <2>3, EligibleKeeps, Zenon
<1>. QED
  BY <1>1, <1>2, <1>3, <1>4, <1>5, Zenon

\* The row of a candidate that is there has all its columns.
LEMMA RowAt ==
  ASSUME NEW v, View(v), NEW c \in Contact, v.candidate[c] # Absent
  PROVE  FullRow(v.candidate[c])
<1>. QED
  BY Zenon DEF View, CandidateRow

\* The domain that the local profile infers makes the candidate eligible: no one is barred there.
LEMMA InferKeeps ==
  ASSUME NEW v, View(v), Scoped(v), NEW c \in Contact, v.candidate[c] # Absent, LocalProfile
  PROVE  /\ Keeps(v, InferDemoDomain(v, c))
         /\ InferDemoDomain(v, c).candidate[c] # Absent
         /\ InferDemoDomain(v, c).candidate[c].status = "eligible"
<1>1. PICK w : w = InferDemoDomain(v, c)
  BY Zenon
<1>2. /\ View(w) /\ OthersSame(v, w, c) /\ RestSame(v, w) /\ w.candidate[c] # Absent
      /\ w.candidate[c].status = "eligible" /\ w.candidate[c].reason = "none"
  BY <1>1, StatusView, ZenonT(60)
<1>3. Grown(v, w)
  BY <1>2, Zenon DEF Grown, OthersSame, RestSame
<1>4. ~Barred(c)
  BY Zenon DEF Barred
<1>5. Keeps(v, w)
  BY <1>2, <1>3, <1>4, EligibleKeeps, Zenon
<1>. QED
  BY <1>1, <1>2, <1>5, Zenon

\* Domain discovery, whatever the search answers (domain_repository.py).
LEMMA DiscoverDomainKeeps ==
  ASSUME NEW v, View(v), Scoped(v), NEW c \in Contact, v.candidate[c] # Absent, NEW hit
  PROVE  Keeps(v, DiscoverDomain(v, c, hit))
<1>1. CASE ~payload[c].named
  <2>1. DiscoverDomain(v, c, hit) = SetAside(v, c, "domain_discovery_missing_company")
    BY <1>1, Zenon DEF DiscoverDomain
  <2>. QED
    BY <2>1, SetAsideKeeps, ReasonKinds, Zenon
<1>2. CASE payload[c].named
  <2>1. PICK x : x = ApplyDomainDiscovery(v, c, hit)
    BY Zenon
  <2>2. Keeps(v, x)
    <3>1. PICK w : w = SourceStored(v, "search")
      BY Zenon
    <3>2. "search" \in SourceNames
      BY ReasonKinds, Zenon
    <3>3. View(w) /\ w.candidate = v.candidate /\ w.source["search"] # Absent
      BY <3>1, <3>2, SourceView, Zenon
    <3>4. Keeps(v, w) /\ Scoped(w) /\ w.candidate[c] # Absent
      BY <3>1, <3>2, <3>3, SourceKeeps, Zenon DEF Keeps
    <3>5. PICK r : r = [w.candidate[c] EXCEPT !.lineage = @ \/ hit # "nothing"]
      BY Zenon
    <3>6. PICK f : f = [r EXCEPT !.domain = TRUE]
      BY Zenon
    <3>7. PICK g : g = [f EXCEPT !.status = "eligible", !.reason = "none"]
      BY Zenon
    <3>8. FullRow(w.candidate[c])
      BY <3>3, <3>4, RowAt, Zenon
    <3>9. FullRow(r) /\ r.status = w.candidate[c].status /\ r.reason = w.candidate[c].reason
      BY <3>5, <3>8, Zenon DEF FullRow, CandidateColumns
    <3>10. FullRow(f) /\ f.status = r.status /\ f.reason = r.reason
      BY <3>6, <3>9, Zenon DEF FullRow, CandidateColumns
    <3>11. FullRow(g) /\ g.status = "eligible" /\ g.reason = "none"
      BY <3>7, <3>10, Zenon DEF FullRow, CandidateColumns
    <3>12. PICK known : known = Set(w, c, r)
      BY Zenon
    <3>13. PICK found : found = Set(known, c, f)
      BY Zenon
    <3>14. PICK good : good = Set(found, c, g)
      BY Zenon
    <3>15. Keeps(w, known) /\ View(known) /\ Scoped(known) /\ known.candidate[c] = r /\ r # Absent
           /\ known.source = w.source
      BY <3>3, <3>4, <3>9, <3>12, SetKeeps DEF Keeps
    <3>16. Keeps(known, found) /\ View(found) /\ Scoped(found) /\ found.candidate[c] = f
             /\ f # Absent
           /\ found.source = known.source
      BY <3>10, <3>13, <3>15, SetKeeps DEF Keeps
    <3>17. good.candidate[c] = g /\ g # Absent /\ (InScope(c) => Keeps(found, good))
      <4>1. found.source["search"] # Absent /\ found.candidate[c] # Absent
        BY <3>3, <3>15, <3>16, Zenon
      <4>2. View(found) /\ Scoped(found)
        BY <3>16, ZenonT(60)
      <4>. QED
        BY <3>11, <3>14, <4>1, <4>2, SetKeeps
    <3>18. x = IF hit # "official"
                 THEN Reviewed(SetAside(known, c, "domain_discovery_failed"), c,
                               "domain_discovery_failed")
               ELSE IF InScope(c) THEN Linked(good, c)
               ELSE SetAside(found, c, "domain_discovery_role_review_required")
      <4>1. known = [w EXCEPT !.candidate[c].lineage = @ \/ hit # "nothing"]
        BY <3>3, <3>5, <3>12, Zenon DEF Set, View, TableNames
      <4>2. found = [known EXCEPT !.candidate[c].domain = TRUE]
        BY <3>6, <3>13, <3>15, Zenon DEF Set, View, TableNames
      <4>3. good = [found EXCEPT !.candidate[c].status = "eligible", !.candidate[c].reason = "none"]
        BY <3>7, <3>14, <3>16, Zenon DEF Set, View, TableNames
      <4>. QED
        BY <2>1, <3>1, <4>1, <4>2, <4>3 DEF ApplyDomainDiscovery, InScope
    <3>19. Keeps(v, known)
      BY <3>4, <3>15, KeepsTrans, Zenon
    <3>20. CASE hit # "official"
      <4>1. Keeps(known,
              Reviewed(SetAside(known, c, "domain_discovery_failed"), c, "domain_discovery_failed"))
        BY <3>15, SetAsideKeeps, ReasonKinds, Zenon
      <4>. QED
        BY <3>18, <3>19, <3>20, <4>1, KeepsTrans, Zenon
    <3>21. Keeps(v, found)
      BY <3>16, <3>19, KeepsTrans, Zenon
    <3>22. CASE hit = "official" /\ InScope(c)
      <4>1. View(good) /\ Scoped(good) /\ Keeps(v, good)
        BY <3>17, <3>21, <3>22, KeepsTrans, Zenon DEF Keeps
      <4>2. Keeps(good, Linked(good, c))
        BY <3>11, <3>17, <4>1, LinkedKeeps, Zenon
      <4>. QED
        BY <3>18, <3>22, <4>1, <4>2, KeepsTrans, Zenon
    <3>23. CASE hit = "official" /\ ~InScope(c)
      <4>1. Keeps(found, SetAside(found, c, "domain_discovery_role_review_required"))
        BY <3>16, SetAsideKeeps, ReasonKinds, Zenon
      <4>. QED
        BY <3>18, <3>21, <3>23, <4>1, KeepsTrans, Zenon
    <3>. QED
      BY <3>20, <3>22, <3>23, Zenon
  <2>3. View(x) /\ Scoped(x) /\ x.candidate[c] # Absent
    BY <2>2, Zenon DEF Keeps, Grown
  <2>4. DiscoverDomain(v, c, hit) = IF LocalProfile /\ ~x.candidate[c].domain
                                       THEN InferDemoDomain(x, c) ELSE x
    BY <1>2, <2>1, Zenon DEF DiscoverDomain
  <2>5. LocalProfile => Keeps(x, InferDemoDomain(x, c))
    BY <2>3, InferKeeps, Zenon
  <2>. QED
    BY <2>2, <2>4, <2>5, KeepsTrans, Zenon
<1>. QED
  BY <1>1, <1>2, Zenon

\* Storing addresses touches no candidate and no request.
LEMMA PersistKeeps ==
  ASSUME NEW v, View(v), Scoped(v), NEW c, NEW k
  PROVE  LET w == PersistEmailCandidates(v, c, k)
         IN Keeps(v, w) /\ w.candidate = v.candidate /\ w.review = v.review
<1>1. PICK w : w = PersistEmailCandidates(v, c, k)
  BY Zenon
<1>2. PICK f : w = [v EXCEPT !.email = f]
  BY <1>1, Zenon DEF PersistEmailCandidates
<1>3. View(w) /\ w.candidate = v.candidate /\ w.source = v.source /\ w.contact = v.contact
        /\ w.review = v.review
  BY <1>2, Zenon DEF View, TableNames
<1>4. Keeps(v, w)
  BY <1>3, KeepsAll, Zenon
<1>. QED
  BY <1>1, <1>3, <1>4, Zenon

\* A candidate that is marked for review has its request.
LEMMA MarkKeeps ==
  ASSUME NEW v, View(v), Scoped(v), NEW c \in Contact, v.candidate[c] # Absent,
         NEW reason \in ContactReason
  PROVE  Keeps(v, MarkCandidateForReview(v, c, reason))
<1>1. PICK w : w = IF v.candidate[c].lineage THEN v ELSE SourceStored(v, "manual_review")
  BY Zenon
<1>2. Keeps(v, v)
  BY Zenon DEF Keeps, Grown
<1>3. Keeps(v, SourceStored(v, "manual_review"))
  BY SourceKeeps, ReasonKinds, Zenon
<1>4. Keeps(v, w)
  BY <1>1, <1>2, <1>3, Zenon
<1>5. View(w) /\ Scoped(w) /\ w.candidate[c] # Absent
  BY <1>4, Zenon DEF Keeps, Grown
<1>6. MarkCandidateForReview(v, c, reason) = Reviewed(SetAside(w, c, reason), c, reason)
  BY <1>1, Zenon DEF MarkCandidateForReview
<1>. QED
  BY <1>4, <1>5, <1>6, SetAsideKeeps, KeepsTrans, Zenon

\* Email discovery for one candidate.
LEMMA DiscoverEmailKeeps ==
  ASSUME NEW v, View(v), Scoped(v), NEW c \in Contact, v.candidate[c] # Absent, NEW k
  PROVE  Keeps(v, DiscoverEmail(v, c, k))
<1>1. CASE ~v.candidate[c].domain /\ ~LocalProfile
  <2>1. DiscoverEmail(v, c, k) = MarkCandidateForReview(v, c, "email_discovery_missing_domain")
    BY <1>1, Zenon DEF DiscoverEmail
  <2>. QED
    BY <2>1, MarkKeeps, ReasonKinds, Zenon
<1>2. CASE ~(~v.candidate[c].domain /\ ~LocalProfile)
  <2>1. PICK w : w = IF v.candidate[c].domain THEN v ELSE InferDemoDomain(v, c)
    BY Zenon
  <2>2. PICK x : x = IF w.candidate[c].status = "eligible" /\ ~w.candidate[c].linked
                        THEN Linked(w, c) ELSE w
    BY Zenon
  <2>3. DiscoverEmail(v, c, k) = IF HasEmailContext(x, c, FALSE)
                                    THEN PersistEmailCandidates(x, c, k)
                                 ELSE MarkCandidateForReview(x, c, "email_discovery_failed")
    BY <1>2, <2>1, <2>2, Zenon DEF DiscoverEmail
  <2>4. Keeps(v, v) /\ (LocalProfile => Keeps(v, InferDemoDomain(v, c)))
    BY InferKeeps, Zenon DEF Keeps, Grown
  <2>5. Keeps(v, w)
    BY <1>2, <2>1, <2>4, Zenon
  <2>6. View(w) /\ Scoped(w) /\ w.candidate[c] # Absent /\ Keeps(w, w)
    BY <2>5, Zenon DEF Keeps, Grown
  <2>7. Keeps(w, x)
    BY <2>2, <2>6, LinkedKeeps, Zenon
  <2>8. View(x) /\ Scoped(x) /\ x.candidate[c] # Absent /\ Keeps(v, x)
    BY <2>5, <2>6, <2>7, KeepsTrans, Zenon DEF Keeps, Grown
  <2>9. Keeps(x, PersistEmailCandidates(x, c, k))
    BY <2>8, PersistKeeps, Zenon
  <2>10. Keeps(x, MarkCandidateForReview(x, c, "email_discovery_failed"))
    BY <2>8, MarkKeeps, ReasonKinds, Zenon
  <2>. QED
    BY <2>3, <2>8, <2>9, <2>10, KeepsTrans, Zenon
<1>. QED
  BY <1>1, <1>2, Zenon

\* verify_email_candidates writes addresses and contacts that are there, and only opens requests.
LEMMA VerifyKeeps ==
  ASSUME NEW v, View(v), Scoped(v), NEW order, NEW answers
  PROVE  LET w == VerifyEmailCandidates(v, order, answers)
         IN Keeps(v, w) /\ w.candidate = v.candidate
<1>. DEFINE good == VerifiedBy(answers)
            of(c) == {e \in good : e[2] = c}
<1>1. PICK w : w = VerifyEmailCandidates(v, order, answers)
  BY Zenon
<1>2. PICK em, ve, pa, co, re :
        /\ w = [v EXCEPT !.email = em, !.contact = co, !.verified = ve, !.pattern = pa,
             !.review = re]
        /\ co = [c \in Contact |-> IF of(c) # {} /\ v.contact[c] # Absent
                                     THEN [v.contact[c] EXCEPT !.email = LastOf(of(c), order)[3]]
                                   ELSE v.contact[c]]
        /\ re = [r \in DOMAIN v.review |-> IF r \in ReviewsAsked(answers) THEN Opened
                                              ELSE v.review[r]]
  BY <1>1, Zenon DEF VerifyEmailCandidates
<1>3. /\ w = [t \in TableNames |-> w[t]] /\ w.candidate = v.candidate /\ w.source = v.source
      /\ w.contact = co /\ w.review = re
  BY <1>2, Zenon DEF View, TableNames
<1>4. DOMAIN v.review = ReviewKey /\ v.review \in [ReviewKey -> ReviewRow]
  BY Zenon DEF View
<1>5. /\ w.review \in [ReviewKey -> ReviewRow]
      /\ \A r \in ReviewKey : v.review[r] # Absent => w.review[r] # Absent
  <2>1. Opened \in ReviewRow /\ Opened # Absent
    BY RowsDiffer, Zenon DEF ReviewRow
  <2>2. w.review = [r \in ReviewKey |-> IF r \in ReviewsAsked(answers) THEN Opened ELSE v.review[r]]
    BY <1>2, <1>3, <1>4, Zenon
  <2>. QED
    BY <1>4, <2>1, <2>2, Zenon
<1>6. /\ w.contact = [c \in Contact |-> w.contact[c]]
      /\ \A c \in Contact : w.contact[c] # Absent => v.contact[c] # Absent
  <2>1. w.contact = co
    BY <1>3, Zenon
  <2>. HIDE DEF of
  <2>2. \A c \in Contact : v.contact[c] = Absent => co[c] = Absent
    BY <1>2, Zenon
  <2>3. co = [c \in Contact |-> co[c]]
    BY <1>2, Zenon
  <2>. QED
    BY <2>1, <2>2, <2>3, Zenon
<1>7. View(w)
  BY <1>3, <1>5, <1>6, Zenon DEF View
<1>8. Keeps(v, w)
  BY <1>3, <1>5, <1>6, <1>7, KeepsAll, Zenon
<1>. QED
  BY <1>1, <1>3, <1>8, Zenon

\* create_entity_resolution: a case that is not resolved gets its request.
LEMMA CaseKeeps ==
  ASSUME NEW v, View(v), Scoped(v), NEW x \in EntityCase
  PROVE  Keeps(v, CreateEntityResolution(v, x))
<1>. DEFINE matches == CasePayload[x].matches
            status == IF ~CasePayload[x].lineage THEN "blocked"
                      ELSE CASE matches = 1 -> "resolved" [] matches > 1 -> "ambiguous"
                             [] OTHER -> "needs_review"
            reason == CASE status = "blocked"   -> "missing_source_lineage"
                        [] status = "ambiguous" -> "multiple_account_matches"
                        [] OTHER                -> "no_account_match"
            u == [v EXCEPT !.case[x] = [status |-> status]]
            w == CreateEntityResolution(v, x)
<1>1. w = IF v.case[x] # Absent THEN v ELSE IF status = "resolved" THEN u
                                               ELSE Reviewed(u, x, reason)
  BY Zenon DEF CreateEntityResolution
<1>. HIDE DEF w, status
<1>2. reason \in CaseReason
  BY Zenon DEF CaseReason
<1>. HIDE DEF reason
<1>3. View(u) /\ u.candidate = v.candidate /\ u.source = v.source /\ u.contact = v.contact
        /\ u.review = v.review
  BY Zenon DEF View, TableNames
<1>. HIDE DEF u
<1>4. Keeps(v, u)
  BY <1>3, KeepsAll, Zenon
<1>5. PICK y : y = Reviewed(u, x, reason)
  BY Zenon
<1>6. <<x, reason>> \in ReviewKey
  BY <1>2, Zenon DEF ReviewKey
<1>7. /\ View(y) /\ y.candidate = u.candidate /\ y.contact = u.contact /\ y.source = u.source
      /\ \A r \in ReviewKey : u.review[r] # Absent => y.review[r] # Absent
  BY <1>3, <1>5, <1>6, ReviewedView
<1>8. Keeps(v, y)
  BY <1>3, <1>7, KeepsAll, Zenon
<1>9. Keeps(v, v)
  BY Zenon DEF Keeps, Grown
<1>. QED
  BY <1>1, <1>4, <1>5, <1>8, <1>9, Zenon DEF w
-----------------------------------------------------------------------------
(* Transactions *)

\* The search is on record, or will be when the changes are committed.
Cleared(changes, c) ==
  InScope(c) /\ (tables.source["search"] # Absent \/ "search" \in DOMAIN changes.source)

\* What is known of the changes of a request that will commit.
ChangesOK(changes) ==
  /\ \A c \in Contact : c \in DOMAIN changes.contact /\ Barred(c) => Cleared(changes, c)
  /\ \A c \in Contact : c \in DOMAIN changes.candidate =>
       LET x == changes.candidate[c]
       IN /\ IF x.seen = Absent THEN FullRow(x.mine) ELSE tables.candidate[c] # Absent
          /\ x.mine.status = "eligible" /\ Barred(c) => Cleared(changes, c)
          /\ ~joined => x.seen = tables.candidate[c]
  /\ \A s \in SourceNames : s \in DOMAIN changes.source =>
       changes.source[s].seen = Absent /\ changes.source[s].mine = [status |-> "enabled"]
  /\ \A r \in ReviewKey : r \in DOMAIN changes.review =>
       /\ changes.review[r].seen = Absent /\ changes.review[r].mine = Opened
       /\ ~joined => tables.review[r] = Absent
  /\ ~joined => Aside(Committed(changes, tables))

\* What a request has read may be old, but it was in the tables.
Read(seen) ==
  /\ View(seen)
  /\ \A c \in Contact : /\ seen.candidate[c] # Absent => tables.candidate[c] # Absent
                        /\ seen.contact[c] \in {Absent, tables.contact[c]}
  /\ \A s \in SourceNames : seen.source[s] \in {Absent, tables.source[s]}
  /\ ~joined => /\ \A c \in Contact : seen.candidate[c] = tables.candidate[c]
                /\ \A r \in ReviewKey : seen.review[r] = tables.review[r]

\* The changes of a request are the rows it left other than it read them.
LEMMA ChangesAre ==
  ASSUME NEW seen, NEW mine, View(mine), NEW t \in TableNames, NEW k
  PROVE  LET ch == Changes(seen, mine)
         IN /\ k \in DOMAIN ch[t] <=> k \in DOMAIN mine[t] /\ seen[t][k] # mine[t][k]
            /\ k \in DOMAIN ch[t] => /\ ch[t][k].seen = seen[t][k]
                                     /\ ch[t][k].mine = mine[t][k]
<1>1. t \in DOMAIN mine
  BY Zenon DEF View
<1>. QED
  BY <1>1, Zenon DEF Changes

\* The row of a view after the commit of changes.
After(changes, now, t, k) ==
  IF k \notin DOMAIN changes[t] THEN now[t][k]
  ELSE IF changes[t][k].seen = Absent THEN changes[t][k].mine
  ELSE Merge(changes[t][k].seen, changes[t][k].mine, now[t][k])

IsCommitted(w, changes, now) ==
  /\ w = [t \in TableNames |-> w[t]]
  /\ w.candidate = [c \in Contact |-> After(changes, now, "candidate", c)]
  /\ w.contact = [c \in Contact |-> After(changes, now, "contact", c)]
  /\ w.source = [s \in SourceNames |-> After(changes, now, "source", s)]
  /\ w.review = [r \in ReviewKey |-> After(changes, now, "review", r)]

\* The tables after a commit, row by row.
LEMMA CommittedIs ==
  ASSUME NEW changes, NEW now, View(now)
  PROVE  IsCommitted(Committed(changes, now), changes, now)
<1>1. /\ DOMAIN now = TableNames
      /\ DOMAIN now.candidate = Contact /\ DOMAIN now.contact = Contact
      /\ DOMAIN now.source = SourceNames /\ DOMAIN now.review = ReviewKey
  BY Zenon DEF View
<1>2. {"candidate", "contact", "source", "review"} \subseteq TableNames
  BY Zenon DEF TableNames
<1>3. Committed(changes, now) =
        [t \in TableNames |-> [k \in DOMAIN now[t] |-> After(changes, now, t, k)]]
  BY <1>1, Zenon DEF Committed, After
<1>. QED
  BY <1>1, <1>2, <1>3, Zenon DEF IsCommitted

\* An UPDATE writes the columns the request changed over the row as it is now.
LEMMA MergeRow ==
  ASSUME NEW seen, NEW mine, NEW now, FullRow(now)
  PROVE  /\ FullRow(Merge(seen, mine, now))
         /\ Merge(seen, mine, now).status \in {mine.status, now.status}
         /\ FullRow(mine) /\ seen = now => Merge(seen, mine, now) = mine
<1>1. DOMAIN now = CandidateColumns /\ "status" \in CandidateColumns
  BY Zenon DEF FullRow, CandidateColumns
<1>. QED
  BY <1>1, ZenonT(60) DEF Merge, FullRow

\* The same tables but for the ones these facts are not about.
Like(now) ==
  /\ now.candidate = tables.candidate /\ now.contact = tables.contact
  /\ now.source = tables.source /\ now.review = tables.review

\* A commit keeps both facts, also over rows that others have changed since they were read.
LEMMA CommitKeeps ==
  ASSUME View(tables), Scoped(tables), NEW changes, ChangesOK(changes), NEW now, View(now),
         Like(now)
  PROVE  LET w == Committed(changes, now)
         IN View(w) /\ Scoped(w) /\ Grown(now, w) /\ (~joined => Aside(w))
<1>1. PICK w : w = Committed(changes, now)
  BY Zenon
<1>2. /\ w = [t \in TableNames |-> w[t]]
      /\ w.candidate = [c \in Contact |-> After(changes, now, "candidate", c)]
      /\ w.contact = [c \in Contact |-> After(changes, now, "contact", c)]
      /\ w.source = [s \in SourceNames |-> After(changes, now, "source", s)]
      /\ w.review = [r \in ReviewKey |-> After(changes, now, "review", r)]
  <2>1. IsCommitted(w, changes, now)
    BY <1>1, CommittedIs, Zenon
  <2>. QED
    BY <2>1, Zenon DEF IsCommitted
<1>3. \A s \in SourceNames : w.source[s] = IF s \in DOMAIN changes.source
                                              THEN [status |-> "enabled"] ELSE now.source[s]
  <2>1. \A s \in SourceNames : w.source[s] = After(changes, now, "source", s)
    BY <1>2, Zenon
  <2>2. ASSUME NEW s \in SourceNames, s \in DOMAIN changes.source
        PROVE  changes.source[s].seen = Absent /\ changes.source[s].mine = [status |-> "enabled"]
    BY <2>2, Zenon DEF ChangesOK
  <2>. QED
    BY <2>1, <2>2, Zenon DEF After
<1>4. \A r \in ReviewKey : w.review[r] = IF r \in DOMAIN changes.review THEN Opened
                                            ELSE now.review[r]
  <2>1. \A r \in ReviewKey : w.review[r] = After(changes, now, "review", r)
    BY <1>2, Zenon
  <2>2. ASSUME NEW r \in ReviewKey, r \in DOMAIN changes.review
        PROVE  changes.review[r].seen = Absent /\ changes.review[r].mine = Opened
    BY <2>2, Zenon DEF ChangesOK
  <2>. QED
    BY <2>1, <2>2, Zenon DEF After
<1>5. ASSUME NEW c \in Contact
      PROVE  /\ CandidateRow(w.candidate[c])
             /\ now.candidate[c] # Absent => w.candidate[c] # Absent
             /\ w.candidate[c].status = "eligible" =>
                  \/ now.candidate[c].status = "eligible"
                  \/ c \in DOMAIN changes.candidate /\ changes.candidate[c].mine.status = "eligible"
  <2>1. w.candidate[c] = After(changes, now, "candidate", c)
    BY <1>2, Zenon
  <2>2. CASE c \notin DOMAIN changes.candidate
    BY <2>1, <2>2, Zenon DEF After, View
  <2>3. CASE c \in DOMAIN changes.candidate /\ changes.candidate[c].seen = Absent
    <3>1. w.candidate[c] = changes.candidate[c].mine
      BY <2>1, <2>3, Zenon DEF After
    <3>2. FullRow(changes.candidate[c].mine)
      BY <2>3, Zenon DEF ChangesOK
    <3>. QED
      BY <2>3, <3>1, <3>2, RowsDiffer, Zenon DEF CandidateRow
  <2>4. CASE c \in DOMAIN changes.candidate /\ changes.candidate[c].seen # Absent
    <3>1. w.candidate[c] = Merge(changes.candidate[c].seen, changes.candidate[c].mine,
            now.candidate[c])
      BY <2>1, <2>4, Zenon DEF After
    <3>2. now.candidate[c] # Absent
      BY <2>4, Zenon DEF ChangesOK, Like
    <3>3. FullRow(now.candidate[c])
      BY <3>2, RowAt, Zenon
    <3>4. FullRow(w.candidate[c])
            /\ w.candidate[c].status \in {changes.candidate[c].mine.status, now.candidate[c].status}
      BY <3>1, <3>3, MergeRow
    <3>. QED
      BY <2>4, <3>4, RowsDiffer, Zenon DEF CandidateRow
  <2>. QED
    BY <2>2, <2>3, <2>4, Zenon
<1>6. View(w)
  <2>1. [status |-> "enabled"] \in SourceRow /\ Opened \in ReviewRow
    BY Zenon DEF SourceRow, ReviewRow
  <2>2. now.source \in [SourceNames -> SourceRow] /\ now.review \in [ReviewKey -> ReviewRow]
    BY Zenon DEF View
  <2>3. (\A s \in SourceNames : w.source[s] \in SourceRow)
          /\ \A r \in ReviewKey : w.review[r] \in ReviewRow
    BY <1>3, <1>4, <2>1, <2>2, Zenon
  <2>4. w.source \in [SourceNames -> SourceRow]
    BY <1>2, <2>3, Zenon
  <2>5. w.review \in [ReviewKey -> ReviewRow]
    BY <1>2, <2>3, Zenon
  <2>6. w.candidate = [c \in Contact |-> w.candidate[c]]
    BY <1>2, Zenon
  <2>7. w.contact = [c \in Contact |-> w.contact[c]]
    BY <1>2, Zenon
  <2>8. w = [t \in TableNames |-> w[t]]
    BY <1>2, Zenon
  <2>. QED
    BY <1>5, <2>4, <2>5, <2>6, <2>7, <2>8, Zenon DEF View
<1>7. Grown(now, w)
  BY <1>3, <1>4, <1>5, RowsDiffer, Zenon DEF Grown
<1>8. ASSUME NEW c \in Contact PROVE ScopedRow(w, c)
  <2>1. SUFFICES ASSUME Barred(c), w.contact[c] # Absent \/ w.candidate[c].status = "eligible"
                 PROVE  InScope(c) /\ w.source["search"] # Absent
    BY Zenon DEF ScopedRow
  <2>2. "search" \in SourceNames /\ [status |-> "enabled"] # Absent
    BY ReasonKinds, RowsDiffer, Zenon
  <2>3. Cleared(changes, c) => InScope(c) /\ w.source["search"] # Absent
    BY <1>3, <2>2, Zenon DEF Cleared, Like
  <2>4. CASE c \in DOMAIN changes.contact
    BY <2>1, <2>3, <2>4, Zenon DEF ChangesOK
  <2>5. CASE c \notin DOMAIN changes.contact
    <3>1. w.contact[c] = now.contact[c]
      BY <1>2, <2>5, Zenon DEF After
    <3>2. CASE c \in DOMAIN changes.candidate /\ changes.candidate[c].mine.status = "eligible"
      BY <2>1, <2>3, <3>2, Zenon DEF ChangesOK
    <3>3. CASE now.contact[c] # Absent \/ now.candidate[c].status = "eligible"
      <4>1. ScopedRow(tables, c)
        BY Zenon DEF Scoped
      <4>2. InScope(c) /\ now.source["search"] # Absent
        BY <2>1, <3>3, <4>1, Zenon DEF ScopedRow, Like
      <4>. QED
        BY <1>7, <2>2, <4>2, Zenon DEF Grown
    <3>. QED
      BY <1>5, <2>1, <3>1, <3>2, <3>3, Zenon
  <2>. QED
    BY <2>4, <2>5, Zenon
<1>9. ASSUME ~joined PROVE Aside(w)
  <2>1. PICK u : u = Committed(changes, tables)
    BY Zenon
  <2>2. Aside(u)
    BY <1>9, <2>1, Zenon DEF ChangesOK
  <2>3. /\ u.candidate = [c \in Contact |-> After(changes, tables, "candidate", c)]
        /\ u.review = [r \in ReviewKey |-> After(changes, tables, "review", r)]
    <3>1. IsCommitted(u, changes, tables)
      BY <2>1, CommittedIs, Zenon
    <3>. QED
      BY <3>1, Zenon DEF IsCommitted
  <2>4. /\ \A c \in Contact :
             After(changes, tables, "candidate", c) = After(changes, now, "candidate", c)
        /\ \A r \in ReviewKey :
             After(changes, tables, "review", r) = After(changes, now, "review", r)
    BY Zenon DEF After, Like
  <2>5. (\A c \in Contact : u.candidate[c] = w.candidate[c])
          /\ \A r \in ReviewKey : u.review[r] = w.review[r]
    <3>1. ASSUME NEW c \in Contact PROVE u.candidate[c] = w.candidate[c]
      BY <1>2, <2>3, <2>4, ZenonT(60)
    <3>2. ASSUME NEW r \in ReviewKey PROVE u.review[r] = w.review[r]
      BY <1>2, <2>3, <2>4, Zenon
    <3>. QED
      BY <3>1, <3>2, Zenon
  <2>6. \A c \in Contact : AsideRow(u, c) => AsideRow(w, c)
    BY <2>5, ReasonKinds, Zenon DEF AsideRow
  <2>. QED
    BY <2>2, <2>6, Zenon DEF Aside
<1>. QED
  BY <1>1, <1>6, <1>7, <1>8, <1>9, Zenon DEF Scoped

\* The changes of a request are those of a view that grew from what was read.
LEMMA DoneOK ==
  ASSUME View(tables), Scoped(tables), NEW seen, Read(seen), NEW mine, View(mine), Scoped(mine),
         Grown(seen, mine), ~joined => Aside(mine)
  PROVE  ChangesOK(Changes(seen, mine))
<1>1. PICK ch : ch = Changes(seen, mine)
  BY Zenon
<1>2. \A t \in TableNames : \A k :
        /\ k \in DOMAIN ch[t] <=> k \in DOMAIN mine[t] /\ seen[t][k] # mine[t][k]
        /\ k \in DOMAIN ch[t] => ch[t][k].seen = seen[t][k] /\ ch[t][k].mine = mine[t][k]
  BY <1>1, ChangesAre
<1>3. "candidate" \in TableNames /\ "contact" \in TableNames /\ "source" \in TableNames
        /\ "review" \in TableNames
  BY Zenon DEF TableNames
<1>4. DOMAIN mine.candidate = Contact /\ DOMAIN mine.contact = Contact
        /\ DOMAIN mine.source = SourceNames
      /\ DOMAIN mine.review = ReviewKey
  BY Zenon DEF View
<1>5. /\ \A c : c \in DOMAIN ch.candidate <=> c \in Contact /\ seen.candidate[c] # mine.candidate[c]
      /\ \A c : c \in DOMAIN ch.candidate =>
           ch.candidate[c].seen = seen.candidate[c] /\ ch.candidate[c].mine = mine.candidate[c]
  BY <1>2, <1>3, <1>4, ZenonT(60)
<1>6. \A c : c \in DOMAIN ch.contact <=> c \in Contact /\ seen.contact[c] # mine.contact[c]
  BY <1>2, <1>3, <1>4, Zenon
<1>7. /\ \A s : s \in DOMAIN ch.source <=> s \in SourceNames /\ seen.source[s] # mine.source[s]
      /\ \A s : s \in DOMAIN ch.source =>
           ch.source[s].seen = seen.source[s] /\ ch.source[s].mine = mine.source[s]
  BY <1>2, <1>3, <1>4, Zenon
<1>8. /\ \A r : r \in DOMAIN ch.review <=> r \in ReviewKey /\ seen.review[r] # mine.review[r]
      /\ \A r : r \in DOMAIN ch.review =>
           ch.review[r].seen = seen.review[r] /\ ch.review[r].mine = mine.review[r]
  BY <1>2, <1>3, <1>4, Zenon
<1>9. ASSUME NEW c \in Contact, InScope(c), mine.source["search"] # Absent PROVE Cleared(ch, c)
  BY <1>7, <1>9, ReasonKinds, Zenon DEF Cleared, Read
<1>10. ASSUME NEW c \in Contact, c \in DOMAIN ch.contact, Barred(c) PROVE Cleared(ch, c)
  <2>1. CASE mine.contact[c] # Absent
    BY <1>9, <1>10, <2>1, Zenon DEF Scoped, ScopedRow
  <2>2. CASE mine.contact[c] = Absent
    <3>1. tables.contact[c] # Absent
      BY <1>6, <1>10, <2>2, Zenon DEF Read
    <3>. QED
      BY <1>10, <3>1, Zenon DEF Scoped, ScopedRow, Cleared
  <2>. QED
    BY <2>1, <2>2, Zenon
<1>11. ASSUME NEW c \in Contact, c \in DOMAIN ch.candidate
       PROVE  LET x == ch.candidate[c]
              IN /\ IF x.seen = Absent THEN FullRow(x.mine) ELSE tables.candidate[c] # Absent
                 /\ x.mine.status = "eligible" /\ Barred(c) => Cleared(ch, c)
                 /\ ~joined => x.seen = tables.candidate[c]
  <2>1. /\ seen.candidate[c] # mine.candidate[c] /\ ch.candidate[c].seen = seen.candidate[c]
        /\ ch.candidate[c].mine = mine.candidate[c]
    BY <1>5, <1>11, Zenon
  <2>2. IF seen.candidate[c] = Absent THEN FullRow(mine.candidate[c])
           ELSE tables.candidate[c] # Absent
    BY <2>1, Zenon DEF Read, View, CandidateRow
  <2>3. mine.candidate[c].status = "eligible" /\ Barred(c) => Cleared(ch, c)
    BY <1>9, Zenon DEF Scoped, ScopedRow
  <2>4. ~joined => seen.candidate[c] = tables.candidate[c]
    BY Zenon DEF Read
  <2>. QED
    BY <2>1, <2>2, <2>3, <2>4, Zenon
<1>12. ASSUME NEW s \in SourceNames, s \in DOMAIN ch.source
       PROVE  ch.source[s].seen = Absent /\ ch.source[s].mine = [status |-> "enabled"]
  <2>1. seen.source[s] \in SourceRow /\ mine.source[s] \in SourceRow
    BY Zenon DEF Read, View
  <2>. QED
    BY <1>7, <1>12, <2>1, Zenon DEF SourceRow, Grown
<1>13. ASSUME NEW r \in ReviewKey, r \in DOMAIN ch.review
       PROVE  ch.review[r].seen = Absent /\ ch.review[r].mine = Opened
                /\ (~joined => tables.review[r] = Absent)
  <2>1. seen.review[r] \in ReviewRow /\ mine.review[r] \in ReviewRow
    BY Zenon DEF Read, View
  <2>2. seen.review[r] = Absent /\ mine.review[r] = Opened
    BY <1>8, <1>13, <2>1, Zenon DEF ReviewRow, Grown
  <2>3. ~joined => seen.review[r] = tables.review[r]
    BY Zenon DEF Read
  <2>. QED
    BY <1>8, <1>13, <2>2, <2>3, Zenon
<1>14. ASSUME ~joined PROVE Aside(Committed(ch, tables))
  <2>1. PICK u : u = Committed(ch, tables)
    BY Zenon
  <2>2. /\ u.candidate = [c \in Contact |-> After(ch, tables, "candidate", c)]
        /\ u.review = [r \in ReviewKey |-> After(ch, tables, "review", r)]
    <3>1. IsCommitted(u, ch, tables)
      BY <2>1, CommittedIs, Zenon
    <3>. QED
      BY <3>1, Zenon DEF IsCommitted
  <2>3. ASSUME NEW c \in Contact PROVE u.candidate[c] = mine.candidate[c]
    <3>1. u.candidate[c] = After(ch, tables, "candidate", c)
            /\ seen.candidate[c] = tables.candidate[c]
      BY <1>14, <2>2, ZenonT(60) DEF Read
    <3>2. CASE c \notin DOMAIN ch.candidate
      BY <1>5, <3>1, <3>2, Zenon DEF After
    <3>3. CASE c \in DOMAIN ch.candidate /\ seen.candidate[c] = Absent
      BY <1>5, <3>1, <3>3, Zenon DEF After
    <3>4. CASE c \in DOMAIN ch.candidate /\ seen.candidate[c] # Absent
      <4>1. u.candidate[c] = Merge(seen.candidate[c], mine.candidate[c], tables.candidate[c])
        BY <1>5, <3>1, <3>4, Zenon DEF After
      <4>2. mine.candidate[c] # Absent /\ tables.candidate[c] # Absent
        BY <3>1, <3>4, Zenon DEF Grown
      <4>3. FullRow(mine.candidate[c]) /\ FullRow(tables.candidate[c])
        BY <4>2, RowAt, Zenon
      <4>. QED
        BY <3>1, <4>1, <4>3, MergeRow
    <3>. QED
      BY <3>2, <3>3, <3>4, Zenon
  <2>4. ASSUME NEW r \in ReviewKey PROVE mine.review[r] # Absent => u.review[r] # Absent
    <3>1. u.review[r] = After(ch, tables, "review", r) /\ seen.review[r] = tables.review[r]
      BY <1>14, <2>2, ZenonT(60) DEF Read
    <3>2. CASE r \notin DOMAIN ch.review
      BY <1>8, <3>1, <3>2, Zenon DEF After
    <3>3. CASE r \in DOMAIN ch.review
      BY <1>13, <3>1, <3>3, RowsDiffer, Zenon DEF After
    <3>. QED
      BY <3>2, <3>3, Zenon
  <2>5. \A c \in Contact : AsideRow(mine, c) => AsideRow(u, c)
    BY <2>3, <2>4, ReasonKinds, Zenon DEF AsideRow
  <2>. QED
    BY <1>14, <2>1, <2>5, Zenon DEF Aside
<1>. QED
  BY <1>1, <1>10, <1>11, <1>12, <1>13, <1>14, Zenon DEF ChangesOK

\* A request that waits for its search.
SearchOK(t) ==
  /\ t.op = "search"
  /\ t.c \in Contact /\ FullRow(t.row) /\ tables.candidate[t.c] # Absent
  /\ t.row.status = "eligible" /\ Barred(t.c) => InScope(t.c) /\ tables.source["search"] # Absent
  /\ ~joined => t.row = tables.candidate[t.c]

\* An open request waits for its search, or holds changes that may be committed.
TxOK(t) == t # Free => SearchOK(t) \/ (t.op \in {"ends", "verify"} /\ ChangesOK(t.changes))

(***************************************************************************)
(* The inductive invariant.  The two properties speak of committed rows;   *)
(* a commit preserves them because of what every open request holds: the   *)
(* grounds on which it found a candidate eligible stay grounds, since      *)
(* source runs are never deleted, and as long as requests do not overlap   *)
(* the one that is open has read the tables as they are.                   *)
(***************************************************************************)
EnrichmentInv ==
  /\ View(tables) /\ Scoped(tables)
  /\ etx = [w \in Enricher |-> etx[w]]
  /\ \A w \in Enricher : TxOK(etx[w])
  /\ ~joined => Aside(tables) /\ \A w, u \in Enricher : etx[w] # Free /\ etx[u] # Free => w = u

\* What a request holds stays true while others commit.
LEMMA TxStays ==
  ASSUME UNCHANGED payload, joined => joined', Grown(tables, tables'), tables' = tables \/ joined',
         NEW t, TxOK(t)
  PROVE  TxOK(t)'
<1>1. \A c : (Barred(c)' <=> Barred(c)) /\ (InScope(c)' <=> InScope(c))
  BY Zenon DEF Barred, InScope
<1>2. "search" \in SourceNames
  BY ReasonKinds, Zenon
<1>3. ASSUME t # Free, SearchOK(t) PROVE SearchOK(t)'
  <2>1. t.c \in Contact /\ tables'.candidate[t.c] # Absent
    BY <1>3, Zenon DEF SearchOK, Grown
  <2>2. t.row.status = "eligible" /\ Barred(t.c)
          => InScope(t.c) /\ tables'.source["search"] # Absent
    BY <1>2, <1>3, Zenon DEF SearchOK, Grown
  <2>3. ~joined' => t.row = tables'.candidate[t.c]
    BY <1>3, Zenon DEF SearchOK
  <2>. QED
    BY <1>1, <1>3, <2>1, <2>2, <2>3, Zenon DEF SearchOK
<1>4. ASSUME NEW changes, ChangesOK(changes) PROVE ChangesOK(changes)'
  <2>1. ASSUME NEW c \in Contact, Cleared(changes, c) PROVE Cleared(changes, c)'
    BY <1>1, <1>2, <2>1, Zenon DEF Cleared, Grown
  <2>2. \A c \in Contact : c \in DOMAIN changes.contact /\ Barred(c)' => Cleared(changes, c)'
    BY <1>1, <1>4, <2>1, Zenon DEF ChangesOK
  <2>3. ASSUME NEW c \in Contact, c \in DOMAIN changes.candidate
        PROVE  LET x == changes.candidate[c]
               IN /\ IF x.seen = Absent THEN FullRow(x.mine) ELSE tables'.candidate[c] # Absent
                  /\ x.mine.status = "eligible" /\ Barred(c)' => Cleared(changes, c)'
                  /\ ~joined' => x.seen = tables'.candidate[c]
    <3>1. LET x == changes.candidate[c]
          IN /\ IF x.seen = Absent THEN FullRow(x.mine) ELSE tables.candidate[c] # Absent
             /\ x.mine.status = "eligible" /\ Barred(c) => Cleared(changes, c)
             /\ ~joined => x.seen = tables.candidate[c]
      BY <1>4, <2>3, Zenon DEF ChangesOK
    <3>. QED
      BY <1>1, <2>1, <3>1, Zenon DEF Grown
  <2>4. \A s \in SourceNames : s \in DOMAIN changes.source =>
          changes.source[s].seen = Absent /\ changes.source[s].mine = [status |-> "enabled"]
    BY <1>4, Zenon DEF ChangesOK
  <2>5. \A r \in ReviewKey : r \in DOMAIN changes.review =>
          /\ changes.review[r].seen = Absent /\ changes.review[r].mine = Opened
          /\ ~joined' => tables'.review[r] = Absent
    BY <1>4, Zenon DEF ChangesOK
  <2>6. ~joined' => Aside(Committed(changes, tables'))
    BY <1>4, Zenon DEF ChangesOK
  <2>. QED
    BY <2>2, <2>3, <2>4, <2>5, <2>6, Zenon DEF ChangesOK
<1>. QED
  BY <1>3, <1>4, Zenon DEF TxOK

\* A request that reads, waits or gives up.
LEMMA RequestStep ==
  ASSUME EnrichmentInv, NEW w \in Enricher, NEW t, TxOK(t), Joins(w, t), UNCHANGED tables
  PROVE  EnrichmentInv'
<1>1. /\ etx' = [etx EXCEPT ![w] = t] /\ payload' = payload /\ tables' = tables
      /\ joined' = (joined \/ (t # Free /\ \E u \in Enricher \ {w} : etx[u] # Free))
  BY Zenon DEF Joins
<1>2. joined => joined'
  BY <1>1, Zenon
<1>3. \A u \in Enricher : etx'[u] = IF u = w THEN t ELSE etx[u]
  BY <1>1, Zenon DEF EnrichmentInv
<1>4. Grown(tables, tables')
  BY <1>1, Zenon DEF Grown
<1>5. ASSUME NEW x, TxOK(x) PROVE TxOK(x)'
  BY <1>1, <1>2, <1>4, <1>5, TxStays, Zenon
<1>6. ASSUME NEW u \in Enricher PROVE TxOK(etx[u])'
  <2>1. PICK x : x = IF u = w THEN t ELSE etx[u]
    BY Zenon
  <2>2. TxOK(x)
    BY <2>1, Zenon DEF EnrichmentInv
  <2>3. TxOK(x)' /\ etx'[u] = x
    BY <1>3, <1>5, <2>1, <2>2, Zenon
  <2>. QED
    BY <2>3, Zenon DEF TxOK, SearchOK
<1>7. View(tables)' /\ Scoped(tables)'
  BY <1>1, Zenon DEF EnrichmentInv, Scoped, ScopedRow, Barred, InScope
<1>8. etx' = [u \in Enricher |-> etx'[u]]
  BY <1>1, Zenon DEF EnrichmentInv
<1>9. ASSUME ~joined'
      PROVE  Aside(tables)' /\ \A v, u \in Enricher : etx'[v] # Free /\ etx'[u] # Free => v = u
  <2>1. ~joined /\ (t = Free \/ \A u \in Enricher \ {w} : etx[u] = Free)
    BY <1>1, <1>9, Zenon
  <2>2. Aside(tables)'
    BY <1>1, <2>1, Zenon DEF EnrichmentInv
  <2>. QED
    BY <1>3, <2>1, <2>2, Zenon DEF EnrichmentInv
<1>. QED
  BY <1>6, <1>7, <1>8, <1>9, Zenon DEF EnrichmentInv

\* The step that commits.
LEMMA CommitStep ==
  ASSUME EnrichmentInv, NEW w \in Enricher, EnrichmentCommit(w)
  PROVE  EnrichmentInv'
<1>1. PICK changes : changes = etx[w].changes
  BY Zenon
<1>2. /\ etx' = [etx EXCEPT ![w] = Free] /\ payload' = payload
      /\ tables' = Committed(changes, tables)
      /\ joined' <=> joined
  BY <1>1, Zenon DEF EnrichmentCommit, Joins
<1>3. etx[w].op = "ends" /\ etx[w] # Free
  BY DEF EnrichmentCommit, Free
<1>4. ChangesOK(changes)
  <2>1. "ends" # "search"
    BY Zenon
  <2>. QED
    BY <1>1, <1>3, <2>1, Zenon DEF EnrichmentInv, TxOK, SearchOK
<1>5. View(tables) /\ Scoped(tables) /\ Like(tables)
  BY Zenon DEF EnrichmentInv, Like
<1>6. PICK n : n = Committed(changes, tables)
  BY Zenon
<1>7. View(n) /\ Scoped(n) /\ Grown(tables, n) /\ (~joined => Aside(n))
  BY <1>4, <1>5, <1>6, CommitKeeps, Zenon
<1>8. tables' = n
  BY <1>2, <1>6, Zenon
<1>9. \A u \in Enricher : etx'[u] = IF u = w THEN Free ELSE etx[u]
  BY <1>2, Zenon DEF EnrichmentInv
<1>10. ASSUME NEW u \in Enricher PROVE TxOK(etx[u])'
  <2>1. CASE u = w
    BY <1>9, <2>1, Zenon DEF TxOK
  <2>2. CASE u # w /\ etx[u] = Free
    BY <1>9, <2>2, Zenon DEF TxOK
  <2>3. CASE u # w /\ etx[u] # Free
    <3>1. joined
      BY <1>3, <2>3, Zenon DEF EnrichmentInv
    <3>2. PICK x : x = etx[u]
      BY Zenon
    <3>3. TxOK(x)
      BY <3>2, Zenon DEF EnrichmentInv
    <3>4. Grown(tables, tables')
      BY <1>7, <1>8, Zenon
    <3>5. TxOK(x)'
      BY <1>2, <3>1, <3>3, <3>4, TxStays, Zenon
    <3>6. etx'[u] = x
      BY <1>9, <2>3, <3>2, Zenon
    <3>. QED
      BY <3>5, <3>6, Zenon DEF TxOK, SearchOK
  <2>. QED
    BY <2>1, <2>2, <2>3, Zenon
<1>11. View(tables)' /\ Scoped(tables)'
  BY <1>2, <1>7, <1>8, Zenon DEF Scoped, ScopedRow, Barred, InScope
<1>12. etx' = [u \in Enricher |-> etx'[u]]
  BY <1>2, Zenon DEF EnrichmentInv
<1>13. ASSUME ~joined'
       PROVE  Aside(tables)' /\ \A v, u \in Enricher : etx'[v] # Free /\ etx'[u] # Free => v = u
  <2>1. ~joined
    BY <1>2, <1>13, Zenon
  <2>2. Aside(tables)'
    BY <1>7, <1>8, <2>1, Zenon
  <2>. QED
    BY <1>9, <2>1, <2>2, Zenon DEF EnrichmentInv
<1>. QED
  BY <1>10, <1>11, <1>12, <1>13, Zenon DEF EnrichmentInv

\* A request that reads the tables as they are and works on them.
LEMMA ReadNow ==
  ASSUME EnrichmentInv
  PROVE  /\ View(tables) /\ Scoped(tables) /\ Read(tables)
         /\ \A mine : Keeps(tables, mine)
              => ChangesOK(Changes(tables, mine)) /\ TxOK(Done(tables, mine))
<1>1. View(tables) /\ Scoped(tables) /\ Read(tables)
  BY Zenon DEF EnrichmentInv, Read
<1>2. ASSUME NEW mine, Keeps(tables, mine) PROVE ChangesOK(Changes(tables, mine))
  <2>1. View(mine) /\ Scoped(mine) /\ Grown(tables, mine) /\ (~joined => Aside(mine))
    BY <1>2, Zenon DEF Keeps, EnrichmentInv
  <2>. QED
    BY <1>1, <2>1, DoneOK, Zenon
<1>3. \A seen, mine : Done(seen, mine).op = "ends" /\ Done(seen, mine).changes = Changes(seen, mine)
  BY Zenon DEF Done
<1>. QED
  BY <1>1, <1>2, <1>3, Zenon DEF TxOK

\* The steps of requests that read everything at once.
LEMMA OneStep ==
  ASSUME EnrichmentInv, NEW w \in Enricher, NEW mine, Keeps(tables, mine),
         Joins(w, Done(tables, mine)), UNCHANGED tables
  PROVE  EnrichmentInv'
<1>. QED
  BY ReadNow, RequestStep, Zenon

\* The step in which a search answers the request that waits for it.
LEMMA SearchAnswersStep ==
  ASSUME EnrichmentInv, NEW w \in Enricher, NEW hit, SearchAnswers(w, hit)
  PROVE  EnrichmentInv'
<1>1. PICK t : t = etx[w]
  BY Zenon
<1>2. PICK seen : seen = Set(tables, t.c, t.row)
  BY Zenon
<1>3. PICK mine : mine = DiscoverDomain(seen, t.c, hit)
  BY Zenon
<1>4. t.op = "search" /\ Joins(w, Done(seen, mine)) /\ UNCHANGED tables
  BY <1>1, <1>2, <1>3, Zenon DEF SearchAnswers, Set
<1>5. View(tables) /\ Scoped(tables)
  BY Zenon DEF EnrichmentInv
<1>6. SearchOK(t)
  <2>1. t # Free /\ t.op \notin {"ends", "verify"}
    BY <1>4 DEF Free
  <2>. QED
    BY <1>1, <2>1, Zenon DEF EnrichmentInv, TxOK
<1>7. t.c \in Contact /\ FullRow(t.row)
  BY <1>6, Zenon DEF SearchOK
<1>8. /\ View(seen) /\ seen.candidate[t.c] = t.row /\ t.row # Absent
      /\ OthersSame(tables, seen, t.c) /\ RestSame(tables, seen)
  BY <1>2, <1>5, <1>7, SetView, Zenon
<1>9. Scoped(seen)
  <2>1. ScopedRow(seen, t.c)
    BY <1>5, <1>6, <1>7, <1>8, Zenon DEF ScopedRow, Scoped, SearchOK, RestSame
  <2>2. \A c \in Contact : c # t.c => ScopedRow(seen, c)
    BY <1>5, <1>8, Zenon DEF ScopedRow, Scoped, OthersSame, RestSame
  <2>. QED
    BY <2>1, <2>2, Zenon DEF Scoped
<1>10. Read(seen)
  <2>1. \A c \in Contact : /\ seen.candidate[c] # Absent => tables.candidate[c] # Absent
                           /\ ~joined => seen.candidate[c] = tables.candidate[c]
    BY <1>6, <1>8, Zenon DEF SearchOK, OthersSame
  <2>. QED
    BY <1>8, <2>1, Zenon DEF Read, RestSame
<1>11. Keeps(seen, mine)
  BY <1>3, <1>7, <1>8, <1>9, DiscoverDomainKeeps, Zenon
<1>12. ~joined => Aside(seen)
  <2>1. ASSUME ~joined PROVE \A c \in Contact : AsideRow(tables, c) => AsideRow(seen, c)
    BY <1>8, <1>10, <2>1, Zenon DEF AsideRow, Read, RestSame
  <2>. QED
    BY <2>1, Zenon DEF EnrichmentInv, Aside
<1>13. ChangesOK(Changes(seen, mine))
  <2>1. View(mine) /\ Scoped(mine) /\ Grown(seen, mine) /\ (~joined => Aside(mine))
    BY <1>11, <1>12, Zenon DEF Keeps
  <2>. QED
    BY <1>5, <1>10, <2>1, DoneOK, Zenon
<1>14. TxOK(Done(seen, mine))
  <2>1. Done(seen, mine).op = "ends" /\ Done(seen, mine).changes = Changes(seen, mine)
    BY Zenon DEF Done
  <2>. QED
    BY <1>13, <2>1, Zenon DEF TxOK
<1>. QED
  BY <1>4, <1>14, RequestStep, Zenon

\* The step in which the verifier answers: it works on what was read, with what was flushed.
LEMMA VerifierAnswersStep ==
  ASSUME EnrichmentInv, NEW w \in Enricher, NEW order, NEW answers,
         VerifierAnswers(w, order, answers)
  PROVE  EnrichmentInv'
<1>. DEFINE changes == etx[w].changes
            inserts(u, k) == k \in DOMAIN changes[u] /\ changes[u][k].seen = Absent
            read == [tables EXCEPT !.email = [e \in EmailKey |->
                       IF e \in DOMAIN etx[w].rows THEN etx[w].rows[e] ELSE @[e]]]
            seen == [u \in DOMAIN read |-> [k \in DOMAIN read[u] |->
                       IF inserts(u, k) THEN Absent ELSE read[u][k]]]
            v == Committed(changes, read)
            mine == VerifyEmailCandidates(v, order, answers)
            x == [Done(seen, mine) EXCEPT !.twice = AddedTwice(v, order, answers)]
<1>6. Joins(w, x)
  BY Zenon DEF VerifierAnswers
<1>. HIDE DEF x, mine, v, seen, read, changes
<1>7. etx[w].op = "verify" /\ UNCHANGED tables
  BY Zenon DEF VerifierAnswers
<1>8. ChangesOK(changes)
  <2>1. etx[w] # Free /\ etx[w].op # "search"
    BY <1>7 DEF Free
  <2>. QED
    BY <2>1, Zenon DEF EnrichmentInv, TxOK, SearchOK, changes
<1>9. View(tables) /\ Scoped(tables)
  BY Zenon DEF EnrichmentInv
<1>10. View(read) /\ Like(read)
  BY <1>9, Zenon DEF View, Like, TableNames, read
<1>11. View(v) /\ Scoped(v) /\ Grown(read, v) /\ (~joined => Aside(v))
  BY <1>8, <1>9, <1>10, CommitKeeps, Zenon DEF v
<1>12. Keeps(v, mine)
  BY <1>11, VerifyKeeps, Zenon DEF mine
<1>. HIDE DEF inserts
<1>13. /\ seen = [u \in TableNames |-> seen[u]]
       /\ seen.candidate = [c \in Contact |-> IF inserts("candidate", c) THEN Absent
                                                 ELSE tables.candidate[c]]
       /\ seen.contact = [c \in Contact |-> IF inserts("contact", c) THEN Absent
                                               ELSE tables.contact[c]]
       /\ seen.source = [s \in SourceNames |-> IF inserts("source", s) THEN Absent
                                                  ELSE tables.source[s]]
       /\ seen.review = [r \in ReviewKey |-> IF inserts("review", r) THEN Absent
                                                ELSE tables.review[r]]
  <2>1. /\ DOMAIN read = TableNames
        /\ DOMAIN read.candidate = Contact /\ DOMAIN read.contact = Contact
        /\ DOMAIN read.source = SourceNames /\ DOMAIN read.review = ReviewKey
    BY <1>10, Zenon DEF View
  <2>2. {"candidate", "contact", "source", "review"} \subseteq TableNames
    BY Zenon DEF TableNames
  <2>. QED
    BY <1>10, <2>1, <2>2, Zenon DEF Like, seen
<1>14. View(seen)
  <2>1. Absent \in SourceRow /\ Absent \in ReviewRow /\ CandidateRow(Absent)
    BY Zenon DEF SourceRow, ReviewRow, CandidateRow
  <2>2. /\ tables.source \in [SourceNames -> SourceRow]
        /\ tables.review \in [ReviewKey -> ReviewRow]
        /\ \A c \in Contact : CandidateRow(tables.candidate[c])
    BY <1>9, Zenon DEF View
  <2>3. seen.source \in [SourceNames -> SourceRow] /\ seen.review \in [ReviewKey -> ReviewRow]
    BY <1>13, <2>1, <2>2, SMT
  <2>4. /\ seen.candidate = [c \in Contact |-> seen.candidate[c]]
        /\ seen.contact = [c \in Contact |-> seen.contact[c]]
    BY <1>13, Zenon
  <2>5. \A c \in Contact : CandidateRow(seen.candidate[c])
    BY <1>13, <2>1, <2>2, Zenon
  <2>6. seen = [u \in TableNames |-> seen[u]]
    BY <1>13, Zenon
  <2>. QED
    BY <2>3, <2>4, <2>5, <2>6, Zenon DEF View
<1>15. Read(seen)
  <2>1. \A c \in Contact : /\ seen.candidate[c] # Absent => tables.candidate[c] # Absent
                           /\ seen.contact[c] \in {Absent, tables.contact[c]}
    BY <1>13, Zenon
  <2>2. \A s \in SourceNames : seen.source[s] \in {Absent, tables.source[s]}
    BY <1>13, Zenon
  <2>3. ASSUME ~joined, NEW c \in Contact PROVE seen.candidate[c] = tables.candidate[c]
    <3>1. inserts("candidate", c) => tables.candidate[c] = Absent
      BY <1>8, <2>3, Zenon DEF ChangesOK, inserts
    <3>. QED
      BY <1>13, <3>1, ZenonT(60)
  <2>4. ASSUME ~joined, NEW r \in ReviewKey PROVE seen.review[r] = tables.review[r]
    <3>1. inserts("review", r) => tables.review[r] = Absent
      BY <1>8, <2>4, Zenon DEF ChangesOK, inserts
    <3>. QED
      BY <1>13, <3>1, Zenon
  <2>. QED
    BY <1>14, <2>1, <2>2, <2>3, <2>4, Zenon DEF Read
<1>16. Grown(seen, mine)
  <2>1. Grown(seen, read)
    <3>1. \A c \in Contact : seen.candidate[c] # Absent => read.candidate[c] # Absent
      BY <1>10, <1>13, SMT DEF Like
    <3>2. \A s \in SourceNames : seen.source[s] # Absent => read.source[s] # Absent
      BY <1>10, <1>13, SMT DEF Like
    <3>3. \A r \in ReviewKey : seen.review[r] # Absent => read.review[r] # Absent
      BY <1>10, <1>13, SMT DEF Like
    <3>. QED
      BY <3>1, <3>2, <3>3, Zenon DEF Grown
  <2>2. Grown(v, mine)
    BY <1>12, Zenon DEF Keeps
  <2>. QED
    BY <1>11, <2>1, <2>2, Zenon DEF Grown
<1>17. ChangesOK(Changes(seen, mine))
  <2>1. View(mine) /\ Scoped(mine) /\ (~joined => Aside(mine))
    BY <1>11, <1>12, Zenon DEF Keeps
  <2>. QED
    BY <1>9, <1>15, <1>16, <2>1, DoneOK, Zenon
<1>19. TxOK(x)
  <2>1. x.op = "ends" /\ x.changes = Changes(seen, mine)
    BY Zenon DEF Done, x
  <2>. QED
    BY <1>17, <2>1, Zenon DEF TxOK
<1>. QED
  BY <1>6, <1>7, <1>19, RequestStep, Zenon

\* Every step preserves the invariant, one case per route.
LEMMA EnrichmentStep ==
  ASSUME EnrichmentInv, [EnrichmentNext]_evars
  PROVE  EnrichmentInv'
<1>1. CASE UNCHANGED evars
  <2>1. payload' = payload /\ tables' = tables /\ joined' = joined /\ etx' = etx
    BY <1>1, Zenon DEF evars
  <2>2. Grown(tables, tables')
    BY <2>1, Zenon DEF Grown
  <2>3. ASSUME NEW t, TxOK(t) PROVE TxOK(t)'
    BY <2>1, <2>2, <2>3, TxStays, Zenon
  <2>4. ASSUME NEW w \in Enricher PROVE TxOK(etx[w])'
    <3>1. PICK t : t = etx[w]
      BY Zenon
    <3>2. TxOK(t)' /\ etx'[w] = t
      BY <2>1, <2>3, <3>1, Zenon DEF EnrichmentInv
    <3>. QED
      BY <3>2, Zenon DEF TxOK, SearchOK
  <2>5. Scoped(tables)'
    BY <2>1, Zenon DEF EnrichmentInv, Scoped, ScopedRow, Barred, InScope
  <2>. QED
    BY <2>1, <2>4, <2>5, Zenon DEF EnrichmentInv
<1>2. ASSUME NEW w \in Enricher, NEW x \in EntityCase, enrichment_create_entity_resolution(w, x)
      PROVE  EnrichmentInv'
  <2>1. Keeps(tables, CreateEntityResolution(tables, x))
    BY ReadNow, CaseKeeps, Zenon
  <2>. QED
    BY <1>2, <2>1, OneStep, Zenon DEF enrichment_create_entity_resolution
<1>3. ASSUME NEW w \in Enricher, NEW c \in Contact, enrichment_create_contact_candidate(w, c)
      PROVE  EnrichmentInv'
  <2>1. Keeps(tables, CreateContactCandidate(tables, c, payload[c].domain))
    BY ReadNow, CreateKeeps, Zenon
  <2>. QED
    BY <1>3, <2>1, OneStep, Zenon DEF enrichment_create_contact_candidate
<1>4. ASSUME NEW w \in Enricher, NEW c \in Contact,
             enrichment_contact_candidate_discover_domain(w, c)
      PROVE  EnrichmentInv'
  <2>1. PICK t : t = [op |-> "search", c |-> c, row |-> tables.candidate[c]]
    BY Zenon
  <2>2. t.op = "search" /\ t.c = c /\ t.row = tables.candidate[c]
    BY <2>1, Zenon
  <2>3. Joins(w, t) /\ UNCHANGED tables /\ tables.candidate[c] # Absent
    BY <1>4, <2>1, Zenon DEF enrichment_contact_candidate_discover_domain
  <2>4. FullRow(tables.candidate[c])
    BY <2>3, ReadNow, RowAt, ZenonT(60)
  <2>5. ScopedRow(tables, c)
    BY ReadNow, Zenon DEF Scoped
  <2>6. TxOK(t)
    BY <2>2, <2>3, <2>4, <2>5, Zenon DEF TxOK, SearchOK, ScopedRow
  <2>. QED
    BY <2>3, <2>6, RequestStep, Zenon
<1>5. ASSUME NEW w \in Enricher, NEW c \in Contact, enrichment_event_participant_enrich_target(w, c)
      PROVE  EnrichmentInv'
  <2>1. PICK domain : domain = (payload[c].domain \/ LocalProfile)
    BY Zenon
  <2>2. PICK v : v = CreateContactCandidate(tables, c, domain)
    BY Zenon
  <2>3. PICK m : m = IF domain /\ v.candidate[c].status = "eligible"
                        THEN PersistEmailCandidates(v, c, "participant") ELSE v
    BY Zenon
  <2>4. Keeps(tables, v)
    BY <2>2, ReadNow, CreateKeeps, Zenon
  <2>5. Keeps(v, PersistEmailCandidates(v, c, "participant")) /\ Keeps(v, v)
    <3>1. View(v) /\ Scoped(v)
      BY <2>4, Zenon DEF Keeps
    <3>2. Keeps(v, v)
      BY <3>1, Zenon DEF Keeps, Grown
    <3>. QED
      BY <3>1, <3>2, PersistKeeps, Zenon
  <2>6. Keeps(tables, m)
    <3>1. Keeps(v, m)
      BY <2>3, <2>5, Zenon
    <3>. QED
      BY <2>4, <3>1, KeepsTrans, Zenon
  <2>7. PICK rows : /\ \/ Joins(w, [op |-> "verify", rows |-> rows, changes |-> Changes(tables, m)])
                       \/ Joins(w, Done(tables, m))
                    /\ UNCHANGED tables
    BY <1>5, <2>1, <2>2, <2>3, Zenon DEF enrichment_event_participant_enrich_target
  <2>8. TxOK([op |-> "verify", rows |-> rows, changes |-> Changes(tables, m)])
    <3>1. PICK t : t = [op |-> "verify", rows |-> rows, changes |-> Changes(tables, m)]
      BY Zenon
    <3>2. t.op = "verify" /\ t.changes = Changes(tables, m)
      BY <3>1, Zenon
    <3>3. ChangesOK(Changes(tables, m))
      BY <2>6, ReadNow, Zenon
    <3>. QED
      BY <3>1, <3>2, <3>3, Zenon DEF TxOK
  <2>. QED
    BY <2>6, <2>7, <2>8, OneStep, RequestStep, Zenon
<1>6. ASSUME NEW w \in Enricher, NEW c \in Contact, NEW k \in EmailRequest,
             enrichment_contact_candidate_discover_email(w, c, k)
      PROVE  EnrichmentInv'
  <2>1. tables.candidate[c] # Absent
    BY <1>6, Zenon DEF enrichment_contact_candidate_discover_email
  <2>2. Keeps(tables, DiscoverEmail(tables, c, k))
    BY <2>1, ReadNow, DiscoverEmailKeeps, Zenon
  <2>. QED
    BY <1>6, <2>2, OneStep, Zenon DEF enrichment_contact_candidate_discover_email
<1>7. ASSUME NEW w \in Enricher, NEW c \in Contact, NEW k \in EmailRequest,
             NEW byContact \in BOOLEAN,
             email_persist_candidates(w, c, k, byContact)
      PROVE  EnrichmentInv'
  <2>1. Keeps(tables, PersistEmailCandidates(tables, c, k))
    BY ReadNow, PersistKeeps, Zenon
  <2>. QED
    BY <1>7, <2>1, OneStep, Zenon DEF email_persist_candidates
<1>8. ASSUME NEW w \in Enricher, NEW cs \in SUBSET Contact,
             enrichment_watch_target_find_contact(w, cs)
      PROVE  EnrichmentInv'
  <2>1. PICK v : v = SourceStored(tables, "search")
    BY Zenon
  <2>2. Keeps(tables, v)
    BY <2>1, ReadNow, SourceKeeps, ReasonKinds, Zenon
  <2>3. Keeps(v, CreateContactCandidates(v, cs))
    BY <2>2, CreateAllKeeps, Zenon DEF Keeps
  <2>4. Keeps(tables, CreateContactCandidates(v, cs))
    BY <2>2, <2>3, KeepsTrans, Zenon
  <2>. QED
    BY <1>8, <2>1, <2>4, OneStep, Zenon DEF enrichment_watch_target_find_contact
<1>9. ASSUME NEW w \in Enricher, NEW es, email_verify_batch(w, es)
      PROVE  EnrichmentInv'
  <2>1. Keeps(tables, tables)
    BY ReadNow, Zenon DEF Keeps, Grown
  <2>2. PICK t : t = [op |-> "verify", rows |-> [e \in es |-> tables.email[e]],
          changes |-> Changes(tables, tables)]
    BY Zenon
  <2>3. t.op = "verify" /\ t.changes = Changes(tables, tables)
    BY <2>2, Zenon
  <2>4. Joins(w, t) /\ UNCHANGED tables
    BY <1>9, <2>2, Zenon DEF email_verify_batch
  <2>5. TxOK(t)
    BY <2>1, <2>3, ReadNow, Zenon DEF TxOK
  <2>. QED
    BY <2>4, <2>5, RequestStep, Zenon
<1>10. ASSUME NEW w \in Enricher, EnrichmentRollback(w)
       PROVE  EnrichmentInv'
  <2>1. TxOK(Free)
    BY Zenon DEF TxOK
  <2>. QED
    BY <1>10, <2>1, RequestStep, Zenon DEF EnrichmentRollback
<1>11. ASSUME EnrichmentNext PROVE EnrichmentInv'
  BY <1>2, <1>3, <1>4, <1>5, <1>6, <1>7, <1>8, <1>9, <1>10, <1>11, SearchAnswersStep,
     VerifierAnswersStep,
     CommitStep, ZenonT(60) DEF EnrichmentNext
<1>. QED
  BY <1>1, <1>11, Zenon

\* The empty tables satisfy it.
LEMMA EnrichmentStart ==
  ASSUME EnrichmentInit
  PROVE  EnrichmentInv
<1>1. View(tables)
  BY Zenon DEF EnrichmentInit, View, TableNames, CandidateRow, SourceNames, ReviewKey, SourceRow,
     ReviewRow
<1>2. \A c \in Contact : tables.candidate[c] = Absent /\ tables.contact[c] = Absent
  BY Zenon DEF EnrichmentInit
<1>3. Absent.status # "eligible"
  BY RowsDiffer, Zenon
<1>4. Scoped(tables) /\ Aside(tables)
  BY <1>2, <1>3, Zenon DEF Scoped, ScopedRow, Aside, AsideRow
<1>5. etx = [w \in Enricher |-> etx[w]] /\ \A w \in Enricher : etx[w] = Free
  BY Zenon DEF EnrichmentInit
<1>. QED
  BY <1>1, <1>4, <1>5, Zenon DEF EnrichmentInv, TxOK

\* EnrichmentInv holds for ever.
LEMMA EnrichmentInvariant == EnrichmentSpec => []EnrichmentInv
<1>. QED
  BY EnrichmentStart, EnrichmentStep, PTL DEF EnrichmentSpec

\* A candidate that is put aside for a reason has the review request for it, and an eligible one
\* gives no reason, as long as requests do not overlap (review_repository.py, _request_review).
THEOREM AsideInReview == EnrichmentSpec => []AsideIsInReview
<1>1. EnrichmentInv => AsideIsInReview
  BY Zenon DEF EnrichmentInv, AsideIsInReview, Aside, AsideRow
<1>. QED
  BY <1>1, EnrichmentInvariant, PTL

\* A participant whose reuse is not allowed, or a person from breached data, has a contact only in
\* a role that incident contacts are limited to and after a search that was recorded, however
\* requests overlap, re-check, fail and commit (domain_repository.py:76).
THEOREM BlockedInScope == EnrichmentSpec => []BlockedContactIsInScope
<1>1. EnrichmentInv => BlockedContactIsInScope
  BY Zenon DEF EnrichmentInv, BlockedContactIsInScope, Scoped, ScopedRow, Barred, InScope
<1>. QED
  BY <1>1, EnrichmentInvariant, PTL
=============================================================================
