----------------------------- MODULE Incidents ------------------------------
(***************************************************************************)
(* Incident intelligence (services/incident_intelligence) with the         *)
(* decisions that governance takes on incidents                            *)
(* (services/governance/incidents.py).  A parsing pass turns the pending   *)
(* items of the source registry into articles, incidents and evidence, all *)
(* in one transaction; analysts corroborate, reject, revert, edit and      *)
(* promote the same incidents meanwhile.                                   *)
(***************************************************************************)
EXTENDS Rows, ReviewPolicy

CONSTANTS
  Item,            \* raw_source_items of incident sources
  ArticleOf,       \* the address of each item, which is its article's dedupe key
  FamilyOf,        \* the evidence family (publisher) of each item
  Authoritative,   \* the items that are authoritative disclosures
  IncidentsOf,     \* the dedupe keys of the incidents an item reports
  Incident,        \* dedupe keys of security_incidents
  Manual,          \* the ones a manual request creates, by its key
  Company,         \* companies that can be watched
  DecisionKeys,    \* Idempotency-Key headers
  IncidentWorker,  \* concurrently open transactions
  MaxIncidentVersion,  \* bound: version of an incident
  PassDies         \* whether a worker may die in a transaction

\* Manual incidents have dedupe keys of their own ("manual-incident:..."), which no item reports.
ASSUME IncidentsAssumption ==
  /\ IncidentsOf \in [Item -> SUBSET Incident]
  /\ Authoritative \subseteq Item
  /\ Manual \in [DecisionKeys -> SUBSET Incident]
  /\ \A k \in DecisionKeys, x \in Item : Manual[k] \cap IncidentsOf[x] = {}
  /\ Company # {}
  /\ "" \notin Incident

VARIABLES
  parse,       \* parse_status of the items; "absent" before they are fetched
  article,     \* news_articles, by dedupe key
  incident,    \* security_incidents, by dedupe key
  evidence,    \* security_incident_evidence: incident, article, family
  corroborationEvents,  \* outbox keys security_incident.corroborated:<id>:<method>
  incidentDecision,     \* review_decisions on incidents, by key
  auditKeys,   \* audit_events keys of edits and promotions
  watched,     \* watch_targets of companies: the incident each came from
  crossed,     \* history: two transactions have been open at the same time
  itx          \* the transaction each worker is in

ivars == <<parse, article, incident, evidence, corroborationEvents, incidentDecision,
           auditKeys, watched, crossed, itx>>
-----------------------------------------------------------------------------
(* Rows *)

IncidentStatus == {"candidate", "corroborated", "rejected"}
CorroborationMethod == {"none"} \cup CORROBORATION_METHODS
SecurityIncident ==
  [status : IncidentStatus, method : CorroborationMethod,
   families : SUBSET ({FamilyOf[x] : x \in Item} \cup {"manual"}),
   company : Company \cup {""}, ref : DecisionKeys \cup {""}, version : 1..MaxIncidentVersion]
Unknown == [status |-> "none"]
NotRead == [status |-> "not read"]
NoDecision == [on |-> "nothing", verdict |-> "none"]
NoTx == [op |-> "idle"]

\* Every row has its type, an unknown incident none at all.
IncidentsTypeOK ==
  /\ parse \in [Item -> {"absent", "pending", "parsed"}]
  /\ article \subseteq {ArticleOf[x] : x \in Item}
  /\ incident \in [Incident -> SecurityIncident \cup {Unknown}]
  /\ incidentDecision \in [DecisionKeys -> [on : Incident, verdict : {"approved", "rejected"}]
                                             \cup {NoDecision}]
  /\ watched \in [Company -> Incident \cup {""}]

IncidentsInit ==
  /\ parse = [x \in Item |-> "absent"]
  /\ article = {}
  /\ incident = [i \in Incident |-> Unknown]
  /\ evidence = {}
  /\ corroborationEvents = {}
  /\ incidentDecision = [k \in DecisionKeys |-> NoDecision]
  /\ auditKeys = {}
  /\ watched = [c \in Company |-> ""]
  /\ crossed = FALSE
  /\ itx = [w \in IncidentWorker |-> NoTx]

Opens(w, t) ==
  /\ itx[w] = NoTx
  /\ itx' = [itx EXCEPT ![w] = t]
  /\ crossed' = (crossed \/ \E v \in IncidentWorker : itx[v] # NoTx)
Closes(w) == itx' = [itx EXCEPT ![w] = NoTx] /\ UNCHANGED crossed

\* The source registry has stored an item of an incident source.
ItemIngested(x) ==
  /\ parse[x] = "absent"
  /\ parse' = [parse EXCEPT ![x] = "pending"]
  /\ UNCHANGED <<article, incident, evidence, corroborationEvents, incidentDecision,
                 auditKeys, watched, crossed, itx>>
-----------------------------------------------------------------------------
(* parse_pending_items *)

ParseRead(w) ==
  LET todo == {x \in Item : parse[x] = "pending"}
  IN /\ todo # {}
     /\ Opens(w, [op |-> "parse", todo |-> todo, done |-> {}, articles |-> {}, links |-> {},
                  unflushed |-> {}, clash |-> FALSE, events |-> {}, seen |-> [i \in Incident |-> NotRead],
                  mine |-> [i \in Incident |-> NotRead]])
     /\ UNCHANGED <<parse, article, incident, evidence, corroborationEvents, incidentDecision,
                    auditKeys, watched>>

\* The incident as the article reports it, before its corroboration is considered.
Reported(row, x) ==
  IF row = Unknown
    THEN [status |-> "candidate", method |-> "none", families |-> {FamilyOf[x]},
          company |-> CHOOSE c \in Company : TRUE, ref |-> "", version |-> 1]
    ELSE [row EXCEPT !.families = @ \cup {FamilyOf[x]}]

\* len(set(evidence_families)) >= 2
Independent(families) == \E f, g \in families : f # g

\* Mutant of ApplyCorroboration: a rejected incident is corroborated as well.
ApplyCorroborationAlways(row, x) ==
  CASE x \in Authoritative ->
         [row EXCEPT !.status = "corroborated", !.method = "authoritative_disclosure"]
    [] x \notin Authoritative /\ Independent(row.families) ->
         [row EXCEPT !.status = "corroborated", !.method = "independent_sources"]
    [] OTHER -> row

\* Mutant of ApplyCorroboration: one evidence family is enough.
ApplyCorroborationOne(row, x) ==
  CASE row.status = "rejected" -> row
    [] row.status # "rejected" /\ x \in Authoritative ->
         [row EXCEPT !.status = "corroborated", !.method = "authoritative_disclosure"]
    [] OTHER -> [row EXCEPT !.status = "corroborated", !.method = "independent_sources"]

\* _apply_corroboration
ApplyCorroboration(row, x) ==
  CASE row.status = "rejected" -> row
    [] row.status # "rejected" /\ x \in Authoritative ->
         [row EXCEPT !.status = "corroborated", !.method = "authoritative_disclosure"]
    [] row.status # "rejected" /\ x \notin Authoritative /\ Independent(row.families) ->
         [row EXCEPT !.status = "corroborated", !.method = "independent_sources"]
    [] OTHER -> row

\* upsert_incident: a row the session has loaded is not read again.
UpsertIncident(t, i, x) ==
  ApplyCorroboration(Reported(IF t.seen[i] = NotRead THEN incident[i] ELSE t.mine[i], x), x)

BecameCorroborated(t, i, x) ==
  LET before == IF t.seen[i] = NotRead THEN incident[i] ELSE t.mine[i]
  IN before.status # "corroborated" /\ UpsertIncident(t, i, x).status = "corroborated"

\* What another pass has inserted and not committed makes an insert wait.
Inserting(w) == {v \in IncidentWorker \ {w} : itx[v].op = "parse"}
InsertWaits(w, x) ==
  \E v \in Inserting(w) :
    \/ ArticleOf[x] \in itx[v].articles \ article
    \/ \E i \in IncidentsOf[x] : itx[v].seen[i] = Unknown

\* Inserting an article or an incident flushes all that the session has pending.
Flushes(t, x) ==
  \/ ArticleOf[x] \notin article \cup t.articles
  \/ \E i \in IncidentsOf[x] : t.seen[i] = NotRead /\ incident[i] = Unknown

\* Mutant of NewLinks: only an incident the item creates gets its evidence.
NewLinksOfNew(t, x) ==
  {<<i, ArticleOf[x]>> : i \in {i \in IncidentsOf[x] : t.seen[i] = NotRead /\ incident[i] = Unknown}}

(***************************************************************************)
(* _link_evidence adds the links its query does not find; the query does   *)
(* not see what the session has added and not flushed.  The incidents an   *)
(* item creates are taken before the ones it finds.                        *)
(***************************************************************************)
NewLinks(t, x) ==
  {<<i, ArticleOf[x]>> : i \in IncidentsOf[x]}
    \ (evidence \cup (IF Flushes(t, x) THEN t.links ELSE t.links \ t.unflushed))

\* upsert_article, upsert_incident and _link_evidence for one item.
ParseItem(w, x) ==
  LET t == itx[w]
      links == NewLinks(t, x)
  IN /\ t.op = "parse"
     /\ x \in t.todo
     /\ ~InsertWaits(w, x)
     /\ itx' = [itx EXCEPT ![w] =
          [t EXCEPT
            !.todo = @ \ {x},
            !.done = @ \cup {x},
            !.articles = @ \cup {ArticleOf[x]},
            !.links = @ \cup links,
            !.unflushed = IF Flushes(t, x) THEN links ELSE @ \cup links,
            !.clash = @ \/ ~KeysFree(links, t.links),
            !.events = @ \cup {<<i, UpsertIncident(t, i, x).method>> :
                                 i \in {i \in IncidentsOf[x] : BecameCorroborated(t, i, x)}},
            !.seen = [i \in Incident |->
                        IF i \in IncidentsOf[x] /\ @[i] = NotRead THEN incident[i] ELSE @[i]],
            !.mine = [i \in Incident |->
                        IF i \in IncidentsOf[x] THEN UpsertIncident(t, i, x) ELSE @[i]]]]
     /\ UNCHANGED <<parse, article, incident, evidence, corroborationEvents, incidentDecision,
                    auditKeys, watched, crossed>>

\* All that the pass inserts is unique.
PassIsUnique(t) ==
  /\ ~t.clash
  /\ KeysFree(t.links, evidence)
  /\ KeysFree(t.events, corroborationEvents)

\* The row after the commit of a pass that read seen and holds mine.
Settled(seen, mine, now) ==
  CASE seen = NotRead -> now
    [] seen = Unknown -> mine
    [] OTHER -> Merge(seen, mine, now)

ParseCommit(w) ==
  LET t == itx[w]
  IN /\ t.op = "parse"
     /\ t.todo = {}
     /\ PassIsUnique(t)
     /\ parse' = [x \in Item |-> IF x \in t.done THEN "parsed" ELSE parse[x]]
     /\ article' = article \cup t.articles
     /\ incident' = [i \in Incident |-> Settled(t.seen[i], t.mine[i], incident[i])]
     /\ evidence' = evidence \cup t.links
     /\ corroborationEvents' = corroborationEvents \cup t.events
     /\ Closes(w)
     /\ UNCHANGED <<incidentDecision, auditKeys, watched>>

(***************************************************************************)
(* A pass that meets one article twice may add its evidence twice; the     *)
(* event of a second corroboration by the same method has the key of the   *)
(* first.  The insert fails, the session is rolled back, and what the loop *)
(* notes on the items is lost with everything else.                        *)
(***************************************************************************)
ParseConflict(w) ==
  /\ itx[w].op = "parse"
  /\ ~PassIsUnique(itx[w])
  /\ Closes(w)
  /\ UNCHANGED <<parse, article, incident, evidence, corroborationEvents, incidentDecision,
                 auditKeys, watched>>

\* A worker dies, or a concurrent insert of the same key fails the transaction.
TransactionDies(w) ==
  /\ PassDies
  /\ itx[w] # NoTx
  /\ Closes(w)
  /\ UNCHANGED <<parse, article, incident, evidence, corroborationEvents, incidentDecision,
                 auditKeys, watched>>
-----------------------------------------------------------------------------
(* Analysts *)

\* create_manual_incident
CreateManualIncident(k) ==
  /\ Manual[k] # {}
  /\ \A i \in Manual[k] : incident[i] = Unknown
  /\ incident' = [i \in Incident |->
       IF i \in Manual[k]
         THEN [status |-> "candidate", method |-> "none", families |-> {"manual"},
               company |-> CHOOSE c \in Company : TRUE, ref |-> "", version |-> 1]
         ELSE incident[i]]
  /\ UNCHANGED <<parse, article, evidence, corroborationEvents, incidentDecision, auditKeys,
                 watched, crossed, itx>>

\* A request that changes one incident of the version it names, to row.
IncidentRead(w, i, row, effects) ==
  /\ incident[i] # Unknown
  /\ incident[i].version < MaxIncidentVersion
  /\ Opens(w, [op |-> "row", i |-> i, seen |-> incident[i], mine |-> row, key |-> effects.key,
               verdict |-> effects.verdict, audits |-> effects.audits, watches |-> effects.watches])
  /\ UNCHANGED <<parse, article, incident, evidence, corroborationEvents, incidentDecision,
                 auditKeys, watched>>

Decides(k, verdict) == [key |-> k, verdict |-> verdict, audits |-> {}, watches |-> ""]
Edits(k, company) == [key |-> k, verdict |-> "none", audits |-> {k}, watches |-> company]

\* update_incident: the companies it affects, of which the first is the primary one.
UpdateIncident(w, k, i, company) ==
  IncidentRead(w, i, [incident[i] EXCEPT !.company = company, !.version = @ + 1], Edits(k, ""))

\* corroborate_incident, from any status
CorroborateIncident(w, k, i, method, sources) ==
  /\ incidentDecision[k] = NoDecision
  /\ method = "independent_sources" => sources >= 2
  /\ IncidentRead(w, i, [incident[i] EXCEPT !.status = "corroborated", !.method = method,
                                            !.ref = k, !.version = @ + 1], Decides(k, "approved"))

\* reject_incident, from any status; the method stays what it was
RejectIncident(w, k, i) ==
  /\ incidentDecision[k] = NoDecision
  /\ IncidentRead(w, i, [incident[i] EXCEPT !.status = "rejected", !.version = @ + 1],
                  Decides(k, "rejected"))

\* revert_incident
RevertIncident(w, k, i) ==
  /\ incidentDecision[k] = NoDecision
  /\ incident[i].status = "corroborated"
  /\ IncidentRead(w, i, [incident[i] EXCEPT !.status = "candidate", !.method = "none",
                                            !.ref = k, !.version = @ + 1], Decides(k, "rejected"))

\* promote_incident_to_watchlist: a candidate becomes corroborated, its method stays.
PromoteIncident(w, k, i) ==
  /\ incident[i].status \in {"candidate", "corroborated"}
  /\ incident[i].company # ""
  /\ IncidentRead(w, i,
       IF incident[i].status = "candidate"
         THEN [incident[i] EXCEPT !.status = "corroborated", !.version = @ + 1]
         ELSE incident[i],
       Edits(k, incident[i].company))

\* The commit of any of them; create_watch_target audits only what it creates.
IncidentCommit(w) ==
  LET t == itx[w]
      creates == t.watches # "" /\ watched[t.watches] = ""
      audits == IF t.watches = "" \/ creates THEN t.audits ELSE {}
  IN /\ t.op = "row"
     /\ KeysFree(audits, auditKeys)
     /\ t.verdict # "none" => incidentDecision[t.key] = NoDecision
     /\ incident' = [incident EXCEPT ![t.i] = Merge(t.seen, t.mine, @)]
     /\ incidentDecision' = [k \in DecisionKeys |->
          IF k = t.key /\ t.verdict # "none" THEN [on |-> t.i, verdict |-> t.verdict]
                                             ELSE incidentDecision[k]]
     /\ auditKeys' = auditKeys \cup audits
     /\ watched' = [c \in Company |-> IF creates /\ c = t.watches THEN t.i ELSE watched[c]]
     /\ Closes(w)
     /\ UNCHANGED <<parse, article, evidence, corroborationEvents>>

\* ... or its failure on a key that has been used.
IncidentConflict(w) ==
  /\ itx[w].op = "row"
  /\ \/ itx[w].verdict # "none" /\ incidentDecision[itx[w].key] # NoDecision
     \/ ~KeysFree(itx[w].audits, auditKeys)
  /\ Closes(w)
  /\ UNCHANGED <<parse, article, incident, evidence, corroborationEvents, incidentDecision,
                 auditKeys, watched>>
-----------------------------------------------------------------------------
(* The routes *)

intelligence_patch_incident(w) ==
  \E k \in DecisionKeys, i \in Incident, c \in Company \cup {""} : UpdateIncident(w, k, i, c)
incident_corroborate(w) ==
  \E k \in DecisionKeys, i \in Incident, method \in CORROBORATION_METHODS, sources \in {1, 2} :
    CorroborateIncident(w, k, i, method, sources)
incident_reject(w) == \E k \in DecisionKeys, i \in Incident : RejectIncident(w, k, i)
incident_revert(w) == \E k \in DecisionKeys, i \in Incident : RevertIncident(w, k, i)
intelligence_promote_incident_to_watchlist(w) ==
  \E k \in DecisionKeys, i \in Incident : PromoteIncident(w, k, i)
intelligence_create_manual_incident == \E k \in DecisionKeys : CreateManualIncident(k)

ParseStep(w) == ParseRead(w) \/ (\E x \in Item : ParseItem(w, x)) \/ ParseCommit(w)
                  \/ ParseConflict(w)

IncidentsNext ==
  \/ \E w \in IncidentWorker :
       \/ ParseRead(w) \/ (\E x \in Item : ParseItem(w, x)) \/ ParseCommit(w) \/ ParseConflict(w)
       \/ intelligence_patch_incident(w) \/ incident_corroborate(w) \/ incident_reject(w)
       \/ incident_revert(w) \/ intelligence_promote_incident_to_watchlist(w)
       \/ IncidentCommit(w) \/ IncidentConflict(w) \/ TransactionDies(w)
  \/ intelligence_create_manual_incident
  \/ \E x \in Item : ItemIngested(x)

IncidentsSpec == IncidentsInit /\ [][IncidentsNext]_ivars
-----------------------------------------------------------------------------
(* Properties *)

(***************************************************************************)
(* A parsed item has its article, and each incident it reports has that    *)
(* article as evidence and the item's family among its families, whatever  *)
(* passes and decisions overlapped; the family may be lost only if they    *)
(* did.                                                                    *)
(***************************************************************************)
ParsedIsLinked ==
  \A x \in Item : parse[x] = "parsed" =>
    /\ ArticleOf[x] \in article
    /\ \A i \in IncidentsOf[x] :
         /\ incident[i] # Unknown
         /\ <<i, ArticleOf[x]>> \in evidence
         /\ ~crossed => FamilyOf[x] \in incident[i].families

(***************************************************************************)
(* Only an analyst takes an incident out of rejection again: more coverage *)
(* does not, as long as transactions do not overlap.                       *)
(***************************************************************************)
RejectedStaysRejected ==
  [][\A i \in Incident :
       incident[i].status = "rejected" /\ incident'[i].status # "rejected" /\ ~crossed
         => incidentDecision' # incidentDecision]_ivars

Approved(i) == \E k \in DecisionKeys : incidentDecision[k] = [on |-> i, verdict |-> "approved"]

(***************************************************************************)
(* A corroborated incident has the grounds its method names -- an          *)
(* authoritative item, two families, or an analyst's approval -- unless    *)
(* its company was promoted to a watchlist or transactions overlapped.     *)
(***************************************************************************)
CorroborationHasGrounds ==
  \A i \in Incident : incident[i].status = "corroborated" /\ ~crossed =>
    CASE incident[i].method = "authoritative_disclosure" ->
           Approved(i) \/ \E x \in Authoritative : parse[x] = "parsed" /\ i \in IncidentsOf[x]
      [] incident[i].method = "independent_sources" ->
           Approved(i) \/ Independent(incident[i].families)
      [] incident[i].method = "analyst_decision" -> Approved(i)
      [] incident[i].method = "none" -> \E c \in Company : watched[c] # ""

(***************************************************************************)
(* "parse failure is persisted on the raw item": a pending item does not   *)
(* stay pending when passes go on.                                         *)
(***************************************************************************)
PendingIsSettled == \A x \in Item : parse[x] = "pending" ~> parse[x] # "pending"

PassesGoOn == \A w \in IncidentWorker : WF_ivars(ParseStep(w)) /\ WF_ivars(IncidentCommit(w))
LiveIncidentsSpec == IncidentsSpec /\ PassesGoOn
=============================================================================
