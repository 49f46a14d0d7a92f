-------------------------- MODULE IncidentsProofs ---------------------------
(***************************************************************************)
(* Incident intelligence: proofs about parsing passes and the requests of  *)
(* analysts on the same incidents.                                         *)
(***************************************************************************)
EXTENDS Incidents, TLAPS
-----------------------------------------------------------------------------
\* The columns of an incident.
IncidentRow(r) ==
  /\ DOMAIN r = {"status", "method", "families", "company", "ref", "version"}
  /\ r.status \in IncidentStatus
  /\ r.method \in CorroborationMethod
  /\ r.company \in Company \cup {""}

\* An incident is unknown or a row.
Stored(r) == r = Unknown \/ IncidentRow(r)

\* A pass: rows it has loaded it holds, and an item it is done with has its article and links.
PassFacts(t) ==
  t.op = "parse" =>
    /\ DOMAIN t = {"op", "todo", "done", "articles", "links", "unflushed", "clash", "events",
                   "seen", "mine"}
    /\ t.todo \subseteq Item /\ t.done \subseteq Item
    /\ \A i \in Incident :
         /\ t.seen[i] = NotRead \/ Stored(t.seen[i])
         /\ t.seen[i] # NotRead => IncidentRow(t.mine[i])
         /\ IncidentRow(t.seen[i]) => incident[i] # Unknown
    /\ \A x \in t.done :
         /\ ArticleOf[x] \in t.articles
         /\ \A i \in IncidentsOf[x] : /\ t.seen[i] # NotRead
                                      /\ <<i, ArticleOf[x]>> \in evidence \cup t.links

\* A request of an analyst is about an incident that is there.
RowTxFacts(t) ==
  t.op = "row" =>
    /\ DOMAIN t = {"op", "i", "seen", "mine", "key", "verdict", "audits", "watches"}
    /\ t.i \in Incident /\ incident[t.i] # Unknown
    /\ IncidentRow(t.seen) /\ IncidentRow(t.mine)
    /\ t.key \in DecisionKeys /\ t.verdict \in {"approved", "rejected", "none"}
    /\ t.watches \in Company \cup {""}

\* A parsed item has its article, its incidents and their evidence.
ParsedFacts ==
  \A x \in Item : parse[x] = "parsed" =>
    /\ ArticleOf[x] \in article
    /\ \A i \in IncidentsOf[x] : incident[i] # Unknown /\ <<i, ArticleOf[x]>> \in evidence

\* What holds however transactions overlap.
IncidentsBase ==
  /\ DOMAIN parse = Item /\ DOMAIN incident = Incident /\ DOMAIN itx = IncidentWorker
  /\ DOMAIN watched = Company /\ DOMAIN incidentDecision = DecisionKeys
  /\ \A i \in Incident : Stored(incident[i])
  /\ ParsedFacts
  /\ \A w \in IncidentWorker : itx[w].op \in {"parse", "row"} \/ itx[w] = NoTx
  /\ \A w \in IncidentWorker : PassFacts(itx[w]) /\ RowTxFacts(itx[w])

\* What a corroborated row rests on, once the items in done are parsed.
HasGrounds(i, r, done) ==
  r.status = "corroborated" =>
    /\ r.method = "authoritative_disclosure" =>
         Approved(i) \/ \E x \in Authoritative : (parse[x] = "parsed" \/ x \in done) /\ i \in IncidentsOf[x]
    /\ r.method = "independent_sources" => Approved(i) \/ Independent(r.families)
    /\ r.method = "analyst_decision" => Approved(i)
    /\ r.method = "none" => \E c \in Company : watched[c] # ""

\* A pass alone: what it read is what is there, families only grow, rejected stays rejected.
PassAlone(t) ==
  t.op = "parse" =>
    /\ \A i \in Incident : t.seen[i] # NotRead =>
         /\ t.seen[i] = incident[i] /\ \E x \in Item : i \in IncidentsOf[x]
         /\ IncidentRow(t.seen[i]) => t.seen[i].families \subseteq t.mine[i].families
         /\ t.seen[i].status = "rejected" => t.mine[i].status = "rejected"
         /\ t.mine[i].status = "candidate" => t.mine[i].method = "none"
         /\ HasGrounds(i, t.mine[i], t.done)
    /\ \A x \in t.done : \A i \in IncidentsOf[x] : FamilyOf[x] \in t.mine[i].families

\* An analyst's request alone: it corroborates with a decision, by promotion, or not at all.
RowAlone(t) ==
  t.op = "row" =>
    /\ t.seen = incident[t.i]
    /\ t.mine.families = t.seen.families
    /\ t.mine.status = "candidate" => t.mine.method = "none"
    /\ t.seen.status = "rejected" /\ t.mine.status # "rejected" => t.verdict = "approved"
    /\ t.mine.status = "corroborated" =>
         \/ t.verdict = "approved" /\ t.mine.method # "none"
         \/ t.watches # "" /\ t.mine.method = "none"
         \/ t.seen.status = "corroborated" /\ t.mine.method = t.seen.method

\* What the rows say when transactions did not overlap: grounds, and the families of the items.
RowsAlone ==
  /\ \A i \in Incident : /\ incident[i].status = "candidate" => incident[i].method = "none"
                         /\ HasGrounds(i, incident[i], {})
  /\ \A x \in Item : parse[x] = "parsed" =>
       \A i \in IncidentsOf[x] : FamilyOf[x] \in incident[i].families

\* What holds as long as no two transactions were open at once.
AloneFacts ==
  /\ \A v, w \in IncidentWorker : itx[v] # NoTx /\ itx[w] # NoTx => v = w
  /\ RowsAlone
  /\ \A w \in IncidentWorker : PassAlone(itx[w]) /\ RowAlone(itx[w])

\* The inductive invariant of incidents.
IncidentsInv == IncidentsBase /\ (~crossed => AloneFacts)

\* It holds at the start.
LEMMA IncidentsInitial == IncidentsInit => IncidentsInv
<1>. SUFFICES ASSUME IncidentsInit PROVE IncidentsInv
  BY Zenon
<1>1. \A w \in IncidentWorker : itx[w] = NoTx /\ itx[w].op = "idle"
  BY Zenon DEF IncidentsInit, NoTx
<1>2. \A i \in Incident : incident[i] = Unknown /\ incident[i].status = "none"
  BY Zenon DEF IncidentsInit, Unknown
<1>3. \A x \in Item : parse[x] # "parsed"
  BY Zenon DEF IncidentsInit
<1>4. IncidentsBase
  BY <1>1, <1>2, <1>3, Zenon DEF IncidentsInit, IncidentsBase, Stored, PassFacts, RowTxFacts,
     ParsedFacts
<1>5. AloneFacts
  BY <1>1, <1>2, <1>3, Zenon DEF AloneFacts, RowsAlone, HasGrounds, PassAlone, RowAlone
<1>. QED
  BY <1>4, <1>5, Zenon DEF IncidentsInv

-----------------------------------------------------------------------------
\* An unknown row and one not read are no rows, and not the same.
LEMMA NoRows == ~IncidentRow(Unknown) /\ ~IncidentRow(NotRead) /\ Unknown # NotRead
<1>1. Unknown.status = "none" /\ NotRead.status = "not read"
  BY Zenon DEF Unknown, NotRead
<1>. QED
  BY <1>1, Zenon DEF IncidentRow, IncidentStatus

\* The row an item leaves: one family more, and corroborated only with grounds.
LEMMA UpsertFacts ==
  ASSUME NEW b, Stored(b), NEW x, NEW r, r = ApplyCorroboration(Reported(b, x), x)
  PROVE  /\ IncidentRow(r)
         /\ FamilyOf[x] \in r.families
         /\ IncidentRow(b) => b.families \subseteq r.families
         /\ b.status = "rejected" => r.status = "rejected"
         /\ r.status = "candidate" => b = Unknown \/ (b.status = "candidate" /\ r.method = b.method)
         /\ b = Unknown /\ r.status = "candidate" => r.method = "none"
         /\ r.status = "corroborated" =>
              \/ x \in Authoritative /\ r.method = "authoritative_disclosure"
              \/ r.method = "independent_sources" /\ Independent(r.families)
              \/ b.status = "corroborated" /\ r.method = b.method
<1>1. PICK q : q = Reported(b, x)
  BY Zenon
<1>2. /\ IncidentRow(q) /\ FamilyOf[x] \in q.families
      /\ IncidentRow(b) => /\ b.families \subseteq q.families
                           /\ q.status = b.status /\ q.method = b.method
      /\ b = Unknown => q.status = "candidate" /\ q.method = "none"
  <2>1. CASE b = Unknown
    <3>1. PICK c \in Company : c = CHOOSE d \in Company : TRUE
      BY IncidentsAssumption, Zenon
    <3>2. q = [status |-> "candidate", method |-> "none", families |-> {FamilyOf[x]},
               company |-> c, ref |-> "", version |-> 1]
      BY <1>1, <2>1, <3>1, Zenon DEF Reported
    <3>. QED
      BY <2>1, <3>2, Zenon DEF IncidentRow, IncidentStatus, CorroborationMethod, Unknown
  <2>2. CASE b # Unknown
    <3>1. IncidentRow(b)
      BY <2>2, Zenon DEF Stored
    <3>2. q = [b EXCEPT !.families = b.families \cup {FamilyOf[x]}]
      BY <1>1, <2>2, Zenon DEF Reported
    <3>. QED
      BY <2>2, <3>1, <3>2, Zenon DEF IncidentRow
  <2>. QED
    BY <2>1, <2>2, Zenon
<1>3. b = Unknown => b.status = "none"
  BY DEF Unknown
<1>4. "authoritative_disclosure" \in CorroborationMethod /\ "independent_sources" \in CorroborationMethod
  BY Zenon DEF CorroborationMethod, CORROBORATION_METHODS
<1>5. /\ r.families = q.families /\ IncidentRow(r)
      /\ \/ r = q /\ (q.status = "rejected" \/ ~(x \in Authoritative \/ Independent(q.families)))
         \/ q.status # "rejected" /\ r.status = "corroborated" /\ x \in Authoritative
              /\ r.method = "authoritative_disclosure"
         \/ q.status # "rejected" /\ r.status = "corroborated"
              /\ r.method = "independent_sources" /\ Independent(r.families)
  <2>1. CASE q.status = "rejected"
    BY <1>1, <1>2, <2>1, Zenon DEF ApplyCorroboration
  <2>2. CASE q.status # "rejected" /\ x \in Authoritative
    <3>1. r = [q EXCEPT !.status = "corroborated", !.method = "authoritative_disclosure"]
      BY <1>1, <2>2, Zenon DEF ApplyCorroboration
    <3>. QED
      BY <1>2, <1>4, <2>2, <3>1, Zenon DEF IncidentRow, IncidentStatus
  <2>3. CASE q.status # "rejected" /\ x \notin Authoritative /\ Independent(q.families)
    <3>1. r = [q EXCEPT !.status = "corroborated", !.method = "independent_sources"]
      BY <1>1, <2>3, Zenon DEF ApplyCorroboration
    <3>. QED
      BY <1>2, <1>4, <2>3, <3>1, Zenon DEF IncidentRow, IncidentStatus
  <2>4. CASE q.status # "rejected" /\ x \notin Authoritative /\ ~(Independent(q.families))
    BY <1>1, <1>2, <2>4, Zenon DEF ApplyCorroboration
  <2>. QED
    BY <2>1, <2>2, <2>3, <2>4, Zenon
<1>. QED
  BY <1>2, <1>3, <1>5, Zenon DEF Stored

\* Grounds grow with the item.
LEMMA UpsertGrounds ==
  ASSUME NEW b, Stored(b), NEW x \in Item, NEW r, r = ApplyCorroboration(Reported(b, x), x),
         NEW i \in IncidentsOf[x], NEW done, HasGrounds(i, b, done)
  PROVE  HasGrounds(i, r, done \cup {x})
<1>. SUFFICES ASSUME r.status = "corroborated" PROVE HasGrounds(i, r, done \cup {x})
  BY Zenon DEF HasGrounds
<1>1. CASE x \in Authoritative /\ r.method = "authoritative_disclosure"
  BY <1>1, Zenon DEF HasGrounds
<1>2. CASE r.method = "independent_sources" /\ Independent(r.families)
  BY <1>2, Zenon DEF HasGrounds
<1>3. CASE b.status = "corroborated" /\ r.method = b.method
  <2>1. IncidentRow(b)
    BY <1>3 DEF Stored, Unknown
  <2>2. b.families \subseteq r.families
    BY <2>1, UpsertFacts, Zenon DEF IncidentRow
  <2>3. Independent(b.families) => Independent(r.families)
    BY <2>2, Zenon DEF Independent
  <2>. QED
    BY <1>3, <2>3, Zenon DEF HasGrounds
<1>. QED
  BY <1>1, <1>2, <1>3, UpsertFacts

\* Grounds stay when items are parsed, decisions taken and companies watched.
LEMMA GroundsStay ==
  ASSUME NEW i, NEW r, NEW done, NEW more, HasGrounds(i, r, done),
         \A x \in Item : parse[x] = "parsed" \/ x \in done => parse'[x] = "parsed" \/ x \in more,
         Approved(i) => Approved(i)',
         (\E c \in Company : watched[c] # "") => \E c \in Company : watched'[c] # ""
  PROVE  HasGrounds(i, r, more)'
  BY IncidentsAssumption, Zenon DEF HasGrounds

\* What is known of a transaction stays when incidents and evidence only come.
LEMMA TxFactsStay ==
  ASSUME NEW t, PassFacts(t), RowTxFacts(t),
         \A i \in Incident : incident[i] # Unknown => incident'[i] # Unknown,
         evidence \subseteq evidence'
  PROVE  PassFacts(t)' /\ RowTxFacts(t)'
<1>1. PassFacts(t)'
  BY Zenon DEF PassFacts
<1>2. RowTxFacts(t)'
  BY Zenon DEF RowTxFacts
<1>. QED
  BY <1>1, <1>2, Zenon

\* A worker's step keeps the unconditional facts, when it does with its transaction and tables.
LEMMA BaseTx ==
  ASSUME IncidentsBase, NEW w \in IncidentWorker, NEW t, itx' = [itx EXCEPT ![w] = t],
         t.op \in {"parse", "row"} \/ t = NoTx, PassFacts(t)', RowTxFacts(t)',
         DOMAIN parse' = Item, DOMAIN incident' = Incident,
         DOMAIN watched' = Company, DOMAIN incidentDecision' = DecisionKeys,
         \A i \in Incident : Stored(incident'[i]),
         \A i \in Incident : incident[i] # Unknown => incident'[i] # Unknown,
         evidence \subseteq evidence', ParsedFacts'
  PROVE  IncidentsBase'
<1>1. \A v \in IncidentWorker : itx'[v] = IF v = w THEN t ELSE itx[v]
  BY Zenon DEF IncidentsBase
<1>2. ASSUME NEW v \in IncidentWorker
      PROVE  (PassFacts(itx[v]) /\ RowTxFacts(itx[v]))'
  <2>1. CASE v = w
    <3>1. itx'[v] = t
      BY <1>1, <2>1, Zenon
    <3>. QED
      BY <3>1, ZenonT(60) DEF PassFacts, RowTxFacts
  <2>2. CASE v # w
    <3>1. PICK u : u = itx[v]
      BY Zenon
    <3>2. itx'[v] = u
      BY <1>1, <2>2, <3>1, Zenon
    <3>3. PassFacts(u) /\ RowTxFacts(u)
      BY <3>1, Zenon DEF IncidentsBase
    <3>4. PassFacts(u)' /\ RowTxFacts(u)'
      BY <3>3, TxFactsStay, Zenon
    <3>. QED
      BY <3>2, <3>4, ZenonT(60) DEF PassFacts, RowTxFacts
  <2>. QED
    BY <2>1, <2>2, Zenon
<1>3. \A v \in IncidentWorker : itx'[v].op \in {"parse", "row"} \/ itx'[v] = NoTx
  BY <1>1, Zenon DEF IncidentsBase
<1>4. DOMAIN itx' = IncidentWorker
  BY Zenon DEF IncidentsBase
<1>. QED
  BY <1>2, <1>3, <1>4, Zenon DEF IncidentsBase

\* The same for what holds of transactions that are alone.
LEMMA AloneTx ==
  ASSUME DOMAIN itx = IncidentWorker, NEW w \in IncidentWorker, NEW t,
         itx' = [itx EXCEPT ![w] = t], \A v \in IncidentWorker \ {w} : itx[v] = NoTx,
         PassAlone(t)', RowAlone(t)', RowsAlone'
  PROVE  AloneFacts'
<1>1. \A v \in IncidentWorker : itx'[v] = IF v = w THEN t ELSE NoTx
  BY Zenon
<1>2. ASSUME NEW v \in IncidentWorker
      PROVE  (PassAlone(itx[v]) /\ RowAlone(itx[v]))'
  <2>1. CASE v = w
    <3>1. itx'[v] = t
      BY <1>1, <2>1, Zenon
    <3>. QED
      BY <3>1, ZenonT(60) DEF PassAlone, RowAlone
  <2>2. CASE v # w
    <3>1. itx'[v].op = "idle"
      BY <1>1, <2>2 DEF NoTx
    <3>. QED
      BY <3>1, Zenon DEF PassAlone, RowAlone
  <2>. QED
    BY <2>1, <2>2, Zenon
<1>. QED
  BY <1>1, <1>2, Zenon DEF AloneFacts

\* What only commits write.
tables == <<parse, article, incident, evidence, incidentDecision, watched>>

\* A step that only changes a worker's transaction.
LEMMA QuietTx ==
  ASSUME IncidentsInv, NEW w \in IncidentWorker, NEW t, itx' = [itx EXCEPT ![w] = t],
         UNCHANGED tables,
         t.op \in {"parse", "row"} \/ t = NoTx, PassFacts(t), RowTxFacts(t),
         ~crossed' => /\ ~crossed /\ \A v \in IncidentWorker \ {w} : itx[v] = NoTx
                      /\ PassAlone(t) /\ RowAlone(t)
  PROVE  IncidentsInv'
<1>1. PassFacts(t)' /\ RowTxFacts(t)'
  BY Zenon DEF tables, PassFacts, RowTxFacts
<1>2. IncidentsBase'
  <2>1. IncidentsBase /\ ParsedFacts' /\ \A i \in Incident : Stored(incident'[i])
    BY Zenon DEF IncidentsInv, IncidentsBase, ParsedFacts, tables
  <2>2. /\ DOMAIN parse' = Item /\ DOMAIN incident' = Incident
        /\ DOMAIN watched' = Company /\ DOMAIN incidentDecision' = DecisionKeys
        /\ \A i \in Incident : incident[i] # Unknown => incident'[i] # Unknown
        /\ evidence \subseteq evidence'
    BY <2>1, Zenon DEF IncidentsBase, tables
  <2>. QED
    BY <1>1, <2>1, <2>2, BaseTx, Zenon
<1>3. ASSUME ~crossed' PROVE AloneFacts'
  <2>1. RowsAlone /\ PassAlone(t) /\ RowAlone(t)
    BY <1>3, Zenon DEF IncidentsInv, AloneFacts
  <2>2. RowsAlone' /\ PassAlone(t)' /\ RowAlone(t)'
    BY <2>1, ZenonT(60) DEF RowsAlone, PassAlone, RowAlone, HasGrounds, Approved, tables
  <2>3. DOMAIN itx = IncidentWorker
    BY Zenon DEF IncidentsInv, IncidentsBase
  <2>. QED
    BY <1>3, <2>2, <2>3, AloneTx, Zenon
<1>. QED
  BY <1>2, <1>3, Zenon DEF IncidentsInv

\* An open transaction that met no other is the only one.
LEMMA AloneIs ==
  ASSUME IncidentsInv, NEW w \in IncidentWorker, itx[w] # NoTx, ~crossed
  PROVE  \A v \in IncidentWorker \ {w} : itx[v] = NoTx
  BY Zenon DEF IncidentsInv, AloneFacts

\* A transaction that ends without a commit.
LEMMA CloseStep ==
  ASSUME IncidentsInv, NEW w \in IncidentWorker, itx[w] # NoTx, Closes(w), UNCHANGED tables
  PROVE  IncidentsInv'
<1>1. PICK t : t = NoTx /\ t.op = "idle"
  BY DEF NoTx
<1>2. PassFacts(t) /\ RowTxFacts(t) /\ PassAlone(t) /\ RowAlone(t)
  BY <1>1, Zenon DEF PassFacts, RowTxFacts, PassAlone, RowAlone
<1>3. ~crossed' => ~crossed /\ \A v \in IncidentWorker \ {w} : itx[v] = NoTx
  BY AloneIs, Zenon DEF Closes
<1>4. itx' = [itx EXCEPT ![w] = t]
  BY <1>1, Zenon DEF Closes
<1>. QED
  BY <1>1, <1>2, <1>3, <1>4, QuietTx, Zenon

\* A pass reads the pending items.
LEMMA ParseReadStep ==
  ASSUME IncidentsInv, NEW w \in IncidentWorker, ParseRead(w)
  PROVE  IncidentsInv'
<1>1. PICK t : t = [op |-> "parse", todo |-> {x \in Item : parse[x] = "pending"}, done |-> {},
                    articles |-> {}, links |-> {}, unflushed |-> {}, clash |-> FALSE, events |-> {},
                    seen |-> [i \in Incident |-> NotRead], mine |-> [i \in Incident |-> NotRead]]
  BY Zenon
<1>2. Opens(w, t) /\ UNCHANGED tables
  BY <1>1, Zenon DEF ParseRead, tables
<1>3. \A i \in Incident : t.seen[i] = NotRead /\ ~IncidentRow(t.seen[i])
  BY <1>1, Zenon DEF NotRead, IncidentRow, IncidentStatus
<1>4. PassFacts(t) /\ RowTxFacts(t) /\ PassAlone(t) /\ RowAlone(t) /\ t.op = "parse"
  BY <1>1, <1>3, Zenon DEF PassFacts, RowTxFacts, PassAlone, RowAlone
<1>. QED
  BY <1>2, <1>4, QuietTx, Zenon DEF Opens

\* A request on an incident opens a transaction on the row as it is.
LEMMA RowReadStep ==
  ASSUME IncidentsInv, NEW w \in IncidentWorker, NEW i \in Incident, NEW row, NEW effects,
         IncidentRead(w, i, row, effects), IncidentRow(incident[i]) => IncidentRow(row),
         effects.key \in DecisionKeys, effects.verdict \in {"approved", "rejected", "none"},
         effects.watches \in Company \cup {""},
         row.families = incident[i].families,
         (incident[i].status = "candidate" => incident[i].method = "none") =>
           /\ row.status = "candidate" => row.method = "none"
           /\ incident[i].status = "rejected" /\ row.status # "rejected" => effects.verdict = "approved"
           /\ row.status = "corroborated" =>
                \/ effects.verdict = "approved" /\ row.method # "none"
                \/ effects.watches # "" /\ row.method = "none"
                \/ incident[i].status = "corroborated" /\ row.method = incident[i].method
  PROVE  IncidentsInv'
<1>1. PICK t : t = [op |-> "row", i |-> i, seen |-> incident[i], mine |-> row, key |-> effects.key,
                    verdict |-> effects.verdict, audits |-> effects.audits, watches |-> effects.watches]
  BY ZenonT(60)
<1>2. Opens(w, t) /\ UNCHANGED tables
  BY <1>1, ZenonT(60) DEF IncidentRead, tables
<1>3. incident[i] # Unknown /\ IncidentRow(incident[i])
  BY ZenonT(60) DEF IncidentRead, IncidentsInv, IncidentsBase, Stored
<1>4. PassFacts(t) /\ RowTxFacts(t) /\ PassAlone(t) /\ t.op = "row"
  BY <1>1, <1>3, ZenonT(60) DEF PassFacts, RowTxFacts, PassAlone
<1>5. ~crossed => RowAlone(t)
  <2>. SUFFICES ASSUME ~crossed PROVE RowAlone(t)
    BY ZenonT(60)
  <2>1. incident[i].status = "candidate" => incident[i].method = "none"
    BY Zenon DEF IncidentsInv, AloneFacts, RowsAlone
  <2>. QED
    BY <1>1, <2>1, Zenon DEF RowAlone
<1>. QED
  BY <1>2, <1>4, <1>5, QuietTx, ZenonT(60) DEF Opens

\* The requests of analysts read their incident.
LEMMA RequestStep ==
  ASSUME IncidentsInv, NEW w \in IncidentWorker, NEW k \in DecisionKeys, NEW i \in Incident
  PROVE  /\ \A c \in Company \cup {""} : UpdateIncident(w, k, i, c) => IncidentsInv'
         /\ \A method \in CORROBORATION_METHODS, sources \in {1, 2} :
              CorroborateIncident(w, k, i, method, sources) => IncidentsInv'
         /\ RejectIncident(w, k, i) => IncidentsInv'
         /\ RevertIncident(w, k, i) => IncidentsInv'
         /\ PromoteIncident(w, k, i) => IncidentsInv'
<1>. DEFINE r == incident[i]
<1>0. ASSUME NEW row, NEW effects, IncidentRead(w, i, row, effects) PROVE IncidentRow(r)
  BY <1>0, Zenon DEF IncidentRead, IncidentsInv, IncidentsBase, Stored
<1>1. ASSUME NEW c \in Company \cup {""}, UpdateIncident(w, k, i, c) PROVE IncidentsInv'
  <2>1. PICK row, e : row = [r EXCEPT !.company = c, !.version = @ + 1] /\ e = Edits(k, "")
    BY Zenon
  <2>2. IncidentRead(w, i, row, e)
    BY <1>1, <2>1, Zenon DEF UpdateIncident
  <2>3. IncidentRow(r)
    BY <1>0, <2>2, Zenon
  <2>4. IncidentRow(row) /\ row.families = r.families /\ row.status = r.status /\ row.method = r.method
    BY <2>1, <2>3, Zenon DEF IncidentRow
  <2>5. e.key = k /\ e.verdict = "none" /\ e.watches = ""
    BY <2>1, ZenonT(60) DEF Edits
  <2>. QED
    BY <2>2, <2>4, <2>5, RowReadStep, Zenon
<1>2. ASSUME NEW method \in CORROBORATION_METHODS, NEW sources \in {1, 2},
             CorroborateIncident(w, k, i, method, sources)
      PROVE  IncidentsInv'
  <2>1. PICK row, e : /\ row = [r EXCEPT !.status = "corroborated", !.method = method, !.ref = k,
                                         !.version = @ + 1]
                      /\ e = Decides(k, "approved")
    BY Zenon
  <2>2. IncidentRead(w, i, row, e)
    BY <1>2, <2>1, Zenon DEF CorroborateIncident
  <2>3. IncidentRow(r)
    BY <1>0, <2>2, Zenon
  <2>4. /\ IncidentRow(row) /\ row.families = r.families /\ row.status = "corroborated"
        /\ row.method = method /\ method # "none"
    BY <2>1, <2>3, Zenon DEF IncidentRow, IncidentStatus, CorroborationMethod, CORROBORATION_METHODS
  <2>5. e.key = k /\ e.verdict = "approved" /\ e.watches = ""
    BY <2>1, Zenon DEF Decides
  <2>. QED
    BY <2>2, <2>4, <2>5, RowReadStep, Zenon
<1>3. ASSUME RejectIncident(w, k, i) PROVE IncidentsInv'
  <2>1. PICK row, e : /\ row = [r EXCEPT !.status = "rejected", !.version = @ + 1]
                      /\ e = Decides(k, "rejected")
    BY Zenon
  <2>2. IncidentRead(w, i, row, e)
    BY <1>3, <2>1, Zenon DEF RejectIncident
  <2>3. IncidentRow(r)
    BY <1>0, <2>2, Zenon
  <2>4. IncidentRow(row) /\ row.families = r.families /\ row.status = "rejected"
    BY <2>1, <2>3, Zenon DEF IncidentRow, IncidentStatus
  <2>5. e.key = k /\ e.verdict = "rejected" /\ e.watches = ""
    BY <2>1, ZenonT(60) DEF Decides
  <2>. QED
    BY <2>2, <2>4, <2>5, RowReadStep, Zenon
<1>4. ASSUME RevertIncident(w, k, i) PROVE IncidentsInv'
  <2>1. PICK row, e : /\ row = [r EXCEPT !.status = "candidate", !.method = "none", !.ref = k,
                                         !.version = @ + 1]
                      /\ e = Decides(k, "rejected")
    BY Zenon
  <2>2. IncidentRead(w, i, row, e) /\ r.status = "corroborated"
    BY <1>4, <2>1, Zenon DEF RevertIncident
  <2>3. IncidentRow(r)
    BY <1>0, <2>2, Zenon
  <2>4. IncidentRow(row) /\ row.families = r.families /\ row.status = "candidate" /\ row.method = "none"
    BY <2>1, <2>3, Zenon DEF IncidentRow, IncidentStatus, CorroborationMethod
  <2>5. e.key = k /\ e.verdict = "rejected" /\ e.watches = ""
    BY <2>1, ZenonT(60) DEF Decides
  <2>. QED
    BY <2>2, <2>4, <2>5, RowReadStep, Zenon
<1>5. ASSUME PromoteIncident(w, k, i) PROVE IncidentsInv'
  <2>1. PICK row, e : /\ row = IF r.status = "candidate"
                                 THEN [r EXCEPT !.status = "corroborated", !.version = @ + 1] ELSE r
                      /\ e = Edits(k, r.company)
    BY Zenon
  <2>2. /\ IncidentRead(w, i, row, e) /\ r.status \in {"candidate", "corroborated"} /\ r.company # ""
    BY <1>5, <2>1, ZenonT(60) DEF PromoteIncident
  <2>3. IncidentRow(r)
    BY <1>0, <2>2, Zenon
  <2>4. IncidentRow(row) /\ row.families = r.families /\ row.status = "corroborated" /\ row.method = r.method
    BY <2>1, <2>2, <2>3, Zenon DEF IncidentRow, IncidentStatus
  <2>5. e.key = k /\ e.verdict = "none" /\ e.watches = r.company /\ r.company \in Company
    BY <2>1, <2>2, <2>3, ZenonT(60) DEF Edits, IncidentRow
  <2>. QED
    BY <2>2, <2>4, <2>5, RowReadStep, Zenon
<1>. QED
  BY <1>1, <1>2, <1>3, <1>4, <1>5, ZenonT(60)

\* A pass takes the next item.
LEMMA ParseItemStep ==
  ASSUME IncidentsInv, NEW w \in IncidentWorker, NEW x \in Item, ParseItem(w, x)
  PROVE  IncidentsInv'
<1>1. PICK t : t = itx[w]
  BY Zenon
<1>2. /\ t.op = "parse" /\ x \in t.todo /\ PassFacts(t)
      /\ ~crossed => PassAlone(t) /\ RowsAlone /\ \A v \in IncidentWorker \ {w} : itx[v] = NoTx
  <2>1. t.op = "parse" /\ x \in t.todo /\ itx[w] # NoTx
    BY <1>1 DEF ParseItem, NoTx
  <2>. QED
    BY <1>1, <2>1, AloneIs, Zenon DEF IncidentsInv, IncidentsBase, AloneFacts
<1>3. PICK u : u =
        [t EXCEPT
            !.todo = @ \ {x},
            !.done = @ \cup {x},
            !.articles = @ \cup {ArticleOf[x]},
            !.links = @ \cup NewLinks(t, x),
            !.unflushed = IF Flushes(t, x) THEN NewLinks(t, x) ELSE @ \cup NewLinks(t, x),
            !.clash = @ \/ ~KeysFree(NewLinks(t, x), t.links),
            !.events = @ \cup {<<i, UpsertIncident(t, i, x).method>> :
                                 i \in {i \in IncidentsOf[x] : BecameCorroborated(t, i, x)}},
            !.seen = [i \in Incident |->
                        IF i \in IncidentsOf[x] /\ @[i] = NotRead THEN incident[i] ELSE @[i]],
            !.mine = [i \in Incident |->
                        IF i \in IncidentsOf[x] THEN UpsertIncident(t, i, x) ELSE @[i]]]
  BY Zenon
<1>4. itx' = [itx EXCEPT ![w] = u] /\ UNCHANGED <<tables, crossed>>
  BY <1>1, <1>3 DEF ParseItem, tables
<1>5. /\ DOMAIN u = DOMAIN t /\ u.op = "parse"
      /\ u.todo = t.todo \ {x} /\ u.done = t.done \cup {x}
      /\ u.articles = t.articles \cup {ArticleOf[x]}
      /\ u.links = t.links \cup NewLinks(t, x)
      /\ \A i \in Incident :
           /\ u.seen[i] = IF i \in IncidentsOf[x] /\ t.seen[i] = NotRead THEN incident[i] ELSE t.seen[i]
           /\ u.mine[i] = IF i \in IncidentsOf[x] THEN UpsertIncident(t, i, x) ELSE t.mine[i]
  BY <1>2, <1>3, ZenonT(60) DEF PassFacts
<1>6. IncidentsOf[x] \subseteq Incident /\ \A y \in t.done : IncidentsOf[y] \subseteq Incident
  BY <1>2, IncidentsAssumption, ZenonT(60) DEF PassFacts
<1>7. \A i \in Incident : Stored(incident[i]) /\ incident[i] # NotRead
  BY NoRows, Zenon DEF IncidentsInv, IncidentsBase, Stored
\* The row that the item finds.
<1>8. ASSUME NEW i \in IncidentsOf[x]
      PROVE  \E b : /\ b = IF t.seen[i] = NotRead THEN incident[i] ELSE t.mine[i]
                    /\ Stored(b) /\ u.mine[i] = ApplyCorroboration(Reported(b, x), x)
                    /\ IncidentRow(u.mine[i])
  <2>1. PICK b : b = IF t.seen[i] = NotRead THEN incident[i] ELSE t.mine[i]
    BY Zenon
  <2>2. Stored(b)
    BY <1>2, <1>6, <1>7, <2>1, Zenon DEF PassFacts, Stored
  <2>3. u.mine[i] = ApplyCorroboration(Reported(b, x), x)
    BY <1>5, <1>6, <2>1, Zenon DEF UpsertIncident
  <2>4. IncidentRow(u.mine[i])
    BY <2>2, <2>3, UpsertFacts
  <2>. QED
    BY <2>1, <2>2, <2>3, <2>4, Zenon
<1>9. PassFacts(u) /\ RowTxFacts(u)
  <2>1. ASSUME NEW i \in Incident
        PROVE  /\ u.seen[i] = NotRead \/ Stored(u.seen[i])
               /\ u.seen[i] # NotRead => IncidentRow(u.mine[i])
               /\ IncidentRow(u.seen[i]) => incident[i] # Unknown
    <3>1. CASE i \in IncidentsOf[x]
      <4>1. IncidentRow(u.mine[i])
        BY <1>8, <3>1, Zenon
      <4>. QED
        BY <1>2, <1>5, <1>7, <4>1, NoRows DEF PassFacts
    <3>2. CASE i \notin IncidentsOf[x]
      BY <1>2, <1>5, <3>2, Zenon DEF PassFacts
    <3>. QED
      BY <3>1, <3>2, Zenon
  <2>2. ASSUME NEW y \in u.done, NEW i \in IncidentsOf[y]
        PROVE  u.seen[i] # NotRead /\ <<i, ArticleOf[y]>> \in evidence \cup u.links
    <3>1. CASE y = x
      <4>1. u.seen[i] # NotRead
        BY <1>5, <1>6, <1>7, <3>1, Zenon
      <4>2. <<i, ArticleOf[y]>> \in evidence \cup t.links \cup NewLinks(t, x)
        BY <3>1, Zenon DEF NewLinks
      <4>. QED
        BY <1>5, <4>1, <4>2, Zenon
    <3>2. CASE y # x
      <4>1. y \in t.done
        BY <1>5, <3>2, Zenon
      <4>. QED
        BY <1>2, <1>5, <1>6, <4>1, Zenon DEF PassFacts
    <3>. QED
      BY <3>1, <3>2, Zenon
  <2>3. \A y \in u.done : ArticleOf[y] \in u.articles
    BY <1>2, <1>5, Zenon DEF PassFacts
  <2>4. PassFacts(u)
    BY <1>2, <1>5, <2>1, <2>2, <2>3, Zenon DEF PassFacts
  <2>. QED
    BY <1>5, <2>4, Zenon DEF RowTxFacts
<1>10. ASSUME ~crossed PROVE PassAlone(u) /\ RowAlone(u)
  <2>0. PassAlone(t) /\ RowsAlone
    BY <1>2, <1>10, Zenon
  <2>1. ASSUME NEW i \in Incident, u.seen[i] # NotRead
        PROVE  /\ u.seen[i] = incident[i] /\ \E y \in Item : i \in IncidentsOf[y]
               /\ IncidentRow(u.seen[i]) => u.seen[i].families \subseteq u.mine[i].families
               /\ u.seen[i].status = "rejected" => u.mine[i].status = "rejected"
               /\ u.mine[i].status = "candidate" => u.mine[i].method = "none"
               /\ HasGrounds(i, u.mine[i], u.done)
    <3>1. CASE i \notin IncidentsOf[x]
      <4>1. u.seen[i] = t.seen[i] /\ u.mine[i] = t.mine[i] /\ t.seen[i] # NotRead
        BY <1>5, <2>1, <3>1, Zenon
      <4>2. HasGrounds(i, t.mine[i], t.done) => HasGrounds(i, t.mine[i], u.done)
        BY <1>5, ZenonT(60) DEF HasGrounds
      <4>. QED
        BY <1>2, <2>0, <4>1, <4>2 DEF PassAlone
    <3>2. CASE i \in IncidentsOf[x]
      <4>1. PICK b : /\ b = IF t.seen[i] = NotRead THEN incident[i] ELSE t.mine[i]
                     /\ Stored(b) /\ u.mine[i] = ApplyCorroboration(Reported(b, x), x)
                     /\ IncidentRow(u.mine[i])
        BY <1>8, <3>2, Zenon
      <4>2. PICK r : r = u.mine[i]
        BY Zenon
      <4>3. /\ IncidentRow(b) => b.families \subseteq r.families
            /\ b.status = "rejected" => r.status = "rejected"
            /\ r.status = "candidate" => b = Unknown \/ (b.status = "candidate" /\ r.method = b.method)
            /\ b = Unknown /\ r.status = "candidate" => r.method = "none"
        BY <4>1, <4>2, UpsertFacts
      <4>4. HasGrounds(i, b, t.done) /\ (b.status = "candidate" => b.method = "none")
        <5>1. CASE t.seen[i] = NotRead
          BY <2>0, <4>1, <5>1, ZenonT(60) DEF RowsAlone, HasGrounds
        <5>2. CASE t.seen[i] # NotRead
          BY <1>2, <2>0, <4>1, <5>2, Zenon DEF PassAlone
        <5>. QED
          BY <5>1, <5>2, Zenon
      <4>5. HasGrounds(i, r, u.done)
        BY <1>5, <3>2, <4>1, <4>2, <4>4, UpsertGrounds
      <4>6. r.status = "candidate" => r.method = "none"
        BY <4>3, <4>4, Zenon
      <4>7. u.seen[i] = incident[i]
        BY <1>2, <1>5, <2>0, <3>2 DEF PassAlone
      <4>8. /\ IncidentRow(u.seen[i]) => u.seen[i].families \subseteq r.families
            /\ u.seen[i].status = "rejected" => r.status = "rejected"
        <5>1. CASE t.seen[i] = NotRead
          BY <4>1, <4>3, <4>7, <5>1, Zenon
        <5>2. CASE t.seen[i] # NotRead
          <6>1. u.seen[i] = t.seen[i] /\ b = t.mine[i] /\ IncidentRow(b)
            BY <1>2, <1>5, <4>1, <5>2, Zenon DEF PassFacts
          <6>. QED
            BY <1>2, <2>0, <4>3, <5>2, <6>1, Zenon DEF PassAlone
        <5>. QED
          BY <5>1, <5>2, Zenon
      <4>. QED
        BY <3>2, <4>2, <4>5, <4>6, <4>7, <4>8, Zenon
    <3>. QED
      BY <3>1, <3>2, Zenon
  <2>2. ASSUME NEW y \in u.done, NEW i \in IncidentsOf[y]
        PROVE  FamilyOf[y] \in u.mine[i].families
    <3>1. CASE y = x
      <4>1. PICK b : Stored(b) /\ u.mine[i] = ApplyCorroboration(Reported(b, x), x)
        BY <1>8, <3>1, Zenon
      <4>. QED
        BY <3>1, <4>1, UpsertFacts, SMTT(60)
    <3>2. CASE y # x
      <4>0. y \in t.done /\ i \in Incident
        BY <1>5, <1>6, <3>2, Zenon
      <4>1. t.seen[i] # NotRead /\ IncidentRow(t.mine[i]) /\ FamilyOf[y] \in t.mine[i].families
        BY <1>2, <2>0, <4>0, ZenonT(60) DEF PassFacts, PassAlone
      <4>2. CASE i \in IncidentsOf[x]
        <5>1. PICK b : b = t.mine[i] /\ Stored(b) /\ u.mine[i] = ApplyCorroboration(Reported(b, x), x)
          BY <1>8, <4>1, <4>2, Zenon
        <5>2. b.families \subseteq u.mine[i].families
          BY <4>1, <5>1, UpsertFacts, SMTT(60)
        <5>. QED
          BY <4>1, <5>1, <5>2, Zenon
      <4>3. CASE i \notin IncidentsOf[x]
        BY <1>5, <4>0, <4>1, <4>3, Zenon
      <4>. QED
        BY <4>2, <4>3, Zenon
    <3>. QED
      BY <3>1, <3>2, Zenon
  <2>3. PassAlone(u)
    BY <2>1, <2>2, Zenon DEF PassAlone
  <2>. QED
    BY <1>5, <2>3, Zenon DEF RowAlone
<1>11. ~crossed' => /\ ~crossed /\ \A v \in IncidentWorker \ {w} : itx[v] = NoTx
                    /\ PassAlone(u) /\ RowAlone(u)
  BY <1>2, <1>4, <1>10, Zenon
<1>. QED
  BY <1>4, <1>5, <1>9, <1>11, QuietTx, Zenon

\* An update of a row leaves a row, and what it wrote if nobody wrote meanwhile.
LEMMA MergedRow ==
  ASSUME NEW seen, NEW mine, NEW now, NEW r, r = Merge(seen, mine, now),
         IncidentRow(seen), IncidentRow(mine), IncidentRow(now)
  PROVE  /\ IncidentRow(r)
         /\ seen = now => r.status = mine.status /\ r.method = mine.method /\ r.families = mine.families
<1>1. /\ DOMAIN r = DOMAIN now
      /\ \A c \in DOMAIN now : r[c] = IF mine[c] = seen[c] THEN now[c] ELSE mine[c]
  BY Zenon DEF Merge
<1>2. /\ r.status = IF mine.status = seen.status THEN now.status ELSE mine.status
      /\ r.method = IF mine.method = seen.method THEN now.method ELSE mine.method
      /\ r.families = IF mine.families = seen.families THEN now.families ELSE mine.families
      /\ r.company = IF mine.company = seen.company THEN now.company ELSE mine.company
  BY <1>1, ZenonT(60) DEF IncidentRow
<1>3. IncidentRow(r)
  BY <1>1, <1>2, ZenonT(60) DEF IncidentRow
<1>4. seen = now => r.status = mine.status /\ r.method = mine.method /\ r.families = mine.families
  BY <1>2, Zenon
<1>. QED
  BY <1>3, <1>4, Zenon

\* The rows after the commit of a pass.
LEMMA SettledRow ==
  ASSUME NEW seen, NEW mine, NEW now, NEW r, r = Settled(seen, mine, now),
         Stored(now), seen = NotRead \/ Stored(seen), seen # NotRead => IncidentRow(mine),
         IncidentRow(seen) => now # Unknown
  PROVE  /\ Stored(r)
         /\ seen # NotRead => IncidentRow(r)
         /\ now # Unknown => r # Unknown
         /\ seen = NotRead => r = now
         /\ seen # NotRead /\ seen = now =>
              r.status = mine.status /\ r.method = mine.method /\ r.families = mine.families
<1>1. CASE seen = NotRead
  BY <1>1, NoRows, Zenon DEF Settled
<1>2. CASE seen = Unknown
  <2>1. r = mine
    BY <1>2, NoRows, Zenon DEF Settled
  <2>. QED
    BY <1>2, <2>1, NoRows, Zenon DEF Stored
<1>3. CASE seen # NotRead /\ seen # Unknown
  <2>1. r = Merge(seen, mine, now)
    BY <1>3, Zenon DEF Settled
  <2>2. IncidentRow(seen) /\ IncidentRow(mine) /\ IncidentRow(now)
    BY <1>3, Zenon DEF Stored
  <2>. QED
    BY <1>3, <2>1, <2>2, MergedRow, NoRows DEF Stored
<1>. QED
  BY <1>1, <1>2, <1>3, Zenon

\* A worker without a transaction promises nothing.
LEMMA IdleFacts ==
  ASSUME NEW t, t = NoTx
  PROVE  PassFacts(t)' /\ RowTxFacts(t)' /\ PassAlone(t)' /\ RowAlone(t)'
<1>1. t.op = "idle"
  BY Zenon DEF NoTx
<1>. QED
  BY <1>1, Zenon DEF PassFacts, RowTxFacts, PassAlone, RowAlone

\* A pass commits; alone, it takes no incident out of rejection.
LEMMA ParseCommitStep ==
  ASSUME IncidentsInv, NEW w \in IncidentWorker, ParseCommit(w)
  PROVE  /\ IncidentsInv'
         /\ ~crossed => \A i \in Incident : incident[i].status = "rejected" => incident'[i].status = "rejected"
<1>1. PICK t : t = itx[w]
  BY Zenon
<1>2. /\ t.op = "parse" /\ itx[w] # NoTx /\ PassFacts(t)
      /\ ~crossed => PassAlone(t) /\ RowsAlone
  BY <1>1, SMTT(60) DEF ParseCommit, NoTx, IncidentsInv, IncidentsBase, AloneFacts
<1>3. /\ parse' = [x \in Item |-> IF x \in t.done THEN "parsed" ELSE parse[x]]
      /\ article' = article \cup t.articles
      /\ incident' = [i \in Incident |-> Settled(t.seen[i], t.mine[i], incident[i])]
      /\ evidence' = evidence \cup t.links
      /\ UNCHANGED <<crossed, incidentDecision, watched>>
      /\ itx' = [itx EXCEPT ![w] = NoTx]
  BY <1>1, Zenon DEF ParseCommit, Closes
<1>4. \A i \in Incident : Stored(incident[i])
  BY Zenon DEF IncidentsInv, IncidentsBase
<1>5. ASSUME NEW i \in Incident
      PROVE  /\ Stored(incident'[i])
             /\ t.seen[i] # NotRead => IncidentRow(incident'[i])
             /\ incident[i] # Unknown => incident'[i] # Unknown
             /\ t.seen[i] = NotRead => incident'[i] = incident[i]
             /\ t.seen[i] # NotRead /\ t.seen[i] = incident[i] =>
                  /\ incident'[i].status = t.mine[i].status /\ incident'[i].method = t.mine[i].method
                  /\ incident'[i].families = t.mine[i].families
  <2>1. incident'[i] = Settled(t.seen[i], t.mine[i], incident[i])
    BY <1>3, Zenon
  <2>2. /\ Stored(incident[i]) /\ (t.seen[i] = NotRead \/ Stored(t.seen[i]))
        /\ t.seen[i] # NotRead => IncidentRow(t.mine[i])
        /\ IncidentRow(t.seen[i]) => incident[i] # Unknown
    BY <1>2, <1>4, Zenon DEF PassFacts
  <2>. HIDE DEF PassFacts
  <2>. QED
    BY <2>1, <2>2, SettledRow
<1>0. ASSUME NEW i PROVE /\ Approved(i) => Approved(i)'
                         /\ (\E c \in Company : watched[c] # "") => \E c \in Company : watched'[c] # ""
                         /\ \A x \in Item : parse[x] = "parsed" \/ x \in t.done =>
                                           parse'[x] = "parsed" \/ x \in {}
  BY <1>3, ZenonT(60) DEF Approved
<1>6. ParsedFacts'
  <2>1. ASSUME NEW x \in Item, parse'[x] = "parsed"
        PROVE  /\ ArticleOf[x] \in article'
               /\ \A i \in IncidentsOf[x] : incident'[i] # Unknown /\ <<i, ArticleOf[x]>> \in evidence'
    <3>0. IncidentsOf[x] \subseteq Incident
      BY IncidentsAssumption, ZenonT(60)
    <3>1. CASE x \in t.done
      <4>1. /\ ArticleOf[x] \in t.articles
            /\ \A i \in IncidentsOf[x] : /\ t.seen[i] # NotRead
                                         /\ <<i, ArticleOf[x]>> \in evidence \cup t.links
        BY <1>2, <3>1, Zenon DEF PassFacts
      <4>2. \A i \in IncidentsOf[x] : incident'[i] # Unknown
        BY <1>5, <3>0, <4>1, NoRows, ZenonT(60)
      <4>. QED
        BY <1>3, <4>1, <4>2, ZenonT(60)
    <3>2. CASE x \notin t.done
      <4>1. parse[x] = "parsed"
        BY <1>3, <2>1, <3>2, Zenon
      <4>2. ParsedFacts
        BY Zenon DEF IncidentsInv, IncidentsBase
      <4>. QED
        BY <1>3, <1>5, <3>0, <4>1, <4>2, Zenon DEF ParsedFacts
    <3>. QED
      BY <3>1, <3>2, Zenon
  <2>. QED
    BY <2>1, Zenon DEF ParsedFacts
<1>7. PICK u : u = NoTx
  BY Zenon
<1>8. IncidentsBase'
  <2>1. /\ DOMAIN parse' = Item /\ DOMAIN incident' = Incident
        /\ DOMAIN watched' = Company /\ DOMAIN incidentDecision' = DecisionKeys
    BY <1>3, ZenonT(60) DEF IncidentsInv, IncidentsBase
  <2>2. evidence \subseteq evidence' /\ IncidentsBase /\ itx' = [itx EXCEPT ![w] = u]
    BY <1>3, <1>7, Zenon DEF IncidentsInv
  <2>3. PassFacts(u)' /\ RowTxFacts(u)'
    BY <1>7, IdleFacts, Zenon
  <2>. QED
    BY <1>5, <1>6, <1>7, <2>1, <2>2, <2>3, BaseTx, ZenonT(60)
\* The rest holds if no other transaction was open.
<1>9. ASSUME ~crossed
      PROVE  AloneFacts' /\ \A i \in Incident : incident[i].status = "rejected" => incident'[i].status = "rejected"
  <2>0. PassAlone(t) /\ RowsAlone
    BY <1>2, <1>9, Zenon
  <2>1. ASSUME NEW i \in Incident
        PROVE  /\ incident[i].status = "rejected" => incident'[i].status = "rejected"
               /\ incident'[i].status = "candidate" => incident'[i].method = "none"
               /\ (HasGrounds(i, incident[i], {}))'
    <3>1. PICK r : r = incident'[i]
      BY Zenon
    <3>2. CASE t.seen[i] = NotRead
      <4>1. r = incident[i]
        BY <1>5, <3>1, <3>2, Zenon
      <4>2. HasGrounds(i, r, {}) /\ (r.status = "candidate" => r.method = "none")
        BY <2>0, <4>1, Zenon DEF RowsAlone
      <4>5. HasGrounds(i, r, t.done)
        BY <4>2, ZenonT(60) DEF HasGrounds
      <4>3. HasGrounds(i, r, {})'
        BY <1>0, <4>5, GroundsStay, ZenonT(60)
      <4>4. (HasGrounds(i, incident[i], {}))'
        BY <3>1, <4>3, ZenonT(60) DEF HasGrounds
      <4>. QED
        BY <3>1, <4>1, <4>2, <4>4, Zenon
    <3>3. CASE t.seen[i] # NotRead
      <4>0. /\ t.seen[i] = incident[i] /\ HasGrounds(i, t.mine[i], t.done)
            /\ t.seen[i].status = "rejected" => t.mine[i].status = "rejected"
            /\ t.mine[i].status = "candidate" => t.mine[i].method = "none"
        BY <1>2, <2>0, <3>3, Zenon DEF PassAlone
      <4>1. r.status = t.mine[i].status /\ r.method = t.mine[i].method /\ r.families = t.mine[i].families
        BY <1>5, <3>1, <3>3, <4>0, Zenon
      <4>2. HasGrounds(i, r, t.done)
        BY <4>0, <4>1, ZenonT(60) DEF HasGrounds
      <4>3. HasGrounds(i, r, {})'
        BY <1>0, <4>2, GroundsStay, Zenon
      <4>4. (HasGrounds(i, incident[i], {}))'
        BY <3>1, <4>3, Zenon DEF HasGrounds
      <4>. QED
        BY <3>1, <4>0, <4>1, <4>4, Zenon
    <3>. QED
      BY <3>2, <3>3, Zenon
  <2>2. ASSUME NEW x \in Item, parse'[x] = "parsed", NEW i \in IncidentsOf[x]
        PROVE  FamilyOf[x] \in incident'[i].families
    <3>0. i \in Incident
      BY IncidentsAssumption, ZenonT(60)
    <3>1. CASE x \in t.done
      <4>1. t.seen[i] # NotRead /\ FamilyOf[x] \in t.mine[i].families
        BY <1>2, <2>0, <3>1, Zenon DEF PassFacts, PassAlone
      <4>2. t.seen[i] = incident[i]
        BY <1>2, <2>0, <3>0, <4>1, Zenon DEF PassAlone
      <4>. QED
        BY <1>5, <3>0, <4>1, <4>2, Zenon
    <3>2. CASE x \notin t.done
      <4>1. parse[x] = "parsed"
        BY <1>3, <2>2, <3>2, Zenon
      <4>2. incident[i] # Unknown /\ FamilyOf[x] \in incident[i].families
        BY <2>0, <4>1, ZenonT(60) DEF RowsAlone, IncidentsInv, IncidentsBase, ParsedFacts
      <4>3. CASE t.seen[i] = NotRead
        BY <1>5, <3>0, <4>2, <4>3, Zenon
      <4>4. CASE t.seen[i] # NotRead
        <5>1. t.seen[i] = incident[i] /\ IncidentRow(incident[i])
          BY <1>2, <1>4, <2>0, <3>0, <4>2, <4>4, Zenon DEF PassAlone, Stored
        <5>2. incident[i].families \subseteq t.mine[i].families
          BY <1>2, <2>0, <3>0, <4>4, <5>1, Zenon DEF PassAlone
        <5>. QED
          BY <1>5, <3>0, <4>2, <4>4, <5>1, <5>2, Zenon
      <4>. QED
        BY <4>3, <4>4, Zenon
    <3>. QED
      BY <3>1, <3>2, Zenon
  <2>3. RowsAlone'
    BY <2>1, <2>2, Zenon DEF RowsAlone
  <2>4. DOMAIN itx = IncidentWorker /\ itx' = [itx EXCEPT ![w] = u]
    BY <1>3, <1>7, Zenon DEF IncidentsInv, IncidentsBase
  <2>5. \A v \in IncidentWorker \ {w} : itx[v] = NoTx
    BY <1>2, <1>9, AloneIs, Zenon
  <2>6. PassAlone(u)' /\ RowAlone(u)'
    BY <1>7, IdleFacts, Zenon
  <2>7. AloneFacts'
    BY <2>3, <2>4, <2>5, <2>6, AloneTx, ZenonT(60)
  <2>. QED
    BY <2>1, <2>7, Zenon
<1>. QED
  BY <1>3, <1>8, <1>9, Zenon DEF IncidentsInv

\* A request of an analyst commits; alone, it ends a rejection only with a decision.
LEMMA IncidentCommitStep ==
  ASSUME IncidentsInv, NEW w \in IncidentWorker, IncidentCommit(w)
  PROVE  /\ IncidentsInv'
         /\ ~crossed => \A i \in Incident :
              incident[i].status = "rejected" /\ incident'[i].status # "rejected"
                => incidentDecision' # incidentDecision
<1>1. PICK t : t = itx[w]
  BY Zenon
<1>2. /\ t.op = "row" /\ itx[w] # NoTx /\ RowTxFacts(t)
      /\ ~crossed => RowAlone(t) /\ RowsAlone
  <2>0. t.op = "row" /\ NoTx.op = "idle"
    BY <1>1, ZenonT(60) DEF IncidentCommit, NoTx
  <2>1. t.op = "row" /\ itx[w] # NoTx
    BY <1>1, <2>0, Zenon
  <2>2. RowTxFacts(t)
    BY <1>1, Zenon DEF IncidentsInv, IncidentsBase
  <2>3. ~crossed => RowAlone(t) /\ RowsAlone
    BY <1>1, Zenon DEF IncidentsInv, AloneFacts
  <2>. QED
    BY <2>1, <2>2, <2>3, Zenon
<1>3. PICK creates \in BOOLEAN : creates = (t.watches # "" /\ watched[t.watches] = "")
  BY ZenonT(60)
<1>4. /\ t.verdict # "none" => incidentDecision[t.key] = NoDecision
      /\ incident' = [incident EXCEPT ![t.i] = Merge(t.seen, t.mine, @)]
      /\ incidentDecision' = [k \in DecisionKeys |->
           IF k = t.key /\ t.verdict # "none" THEN [on |-> t.i, verdict |-> t.verdict]
                                              ELSE incidentDecision[k]]
      /\ watched' = [c \in Company |-> IF creates /\ c = t.watches THEN t.i ELSE watched[c]]
      /\ itx' = [itx EXCEPT ![w] = NoTx]
      /\ UNCHANGED <<parse, article, evidence, crossed>>
  BY <1>1, <1>3, ZenonT(60) DEF IncidentCommit, Closes
<1>5. /\ DOMAIN parse = Item /\ DOMAIN incident = Incident /\ \A i \in Incident : Stored(incident[i])
      /\ DOMAIN itx = IncidentWorker /\ DOMAIN incidentDecision = DecisionKeys
      /\ IncidentsBase
  BY ZenonT(60) DEF IncidentsInv, IncidentsBase
<1>6. /\ t.i \in Incident /\ t.key \in DecisionKeys /\ t.watches \in Company \cup {""}
      /\ IncidentRow(t.seen) /\ IncidentRow(t.mine) /\ IncidentRow(incident[t.i])
  BY <1>2, <1>5, ZenonT(60) DEF RowTxFacts, Stored
<1>7. PICK m : m = Merge(t.seen, t.mine, incident[t.i])
  BY Zenon
<1>8. /\ IncidentRow(m) /\ m # Unknown
      /\ t.seen = incident[t.i] => /\ m.status = t.mine.status /\ m.method = t.mine.method
                                  /\ m.families = t.mine.families
  <2>1. PICK seen, mine, now : seen = t.seen /\ mine = t.mine /\ now = incident[t.i]
    BY Zenon
  <2>2. m = Merge(seen, mine, now) /\ IncidentRow(seen) /\ IncidentRow(mine) /\ IncidentRow(now)
    BY <1>6, <1>7, <2>1, ZenonT(60)
  <2>3. /\ IncidentRow(m)
        /\ seen = now => m.status = mine.status /\ m.method = mine.method /\ m.families = mine.families
    BY <2>2, MergedRow, SMTT(60)
  <2>. QED
    BY <2>1, <2>3, NoRows, Zenon
<1>9. \A i \in Incident : incident'[i] = IF i = t.i THEN m ELSE incident[i]
  BY <1>4, <1>5, <1>6, <1>7, ZenonT(60)
<1>10. PICK u : u = NoTx
  BY Zenon
<1>11. IncidentsBase'
  <2>1. /\ DOMAIN parse' = Item /\ DOMAIN incident' = Incident
        /\ DOMAIN watched' = Company /\ DOMAIN incidentDecision' = DecisionKeys
        /\ evidence \subseteq evidence' /\ itx' = [itx EXCEPT ![w] = u]
    BY <1>4, <1>5, <1>10, Zenon
  <2>2. /\ \A i \in Incident : Stored(incident'[i])
        /\ \A i \in Incident : incident[i] # Unknown => incident'[i] # Unknown
    BY <1>5, <1>8, <1>9, Zenon DEF Stored
  <2>3. ParsedFacts'
    <3>1. \A x \in Item : IncidentsOf[x] \subseteq Incident
      BY IncidentsAssumption, ZenonT(60)
    <3>2. ParsedFacts
      BY <1>5, Zenon DEF IncidentsBase
    <3>. QED
      BY <1>4, <2>2, <3>1, <3>2, Zenon DEF ParsedFacts
  <2>4. PassFacts(u)' /\ RowTxFacts(u)'
    BY <1>10, IdleFacts, Zenon
  <2>. QED
    BY <1>5, <1>10, <2>1, <2>2, <2>3, <2>4, BaseTx, ZenonT(60)
<1>12. ASSUME NEW i PROVE Approved(i) => Approved(i)'
  <2>. SUFFICES ASSUME Approved(i) PROVE Approved(i)'
    BY Zenon
  <2>1. PICK k \in DecisionKeys : incidentDecision[k] = [on |-> i, verdict |-> "approved"]
    BY Zenon DEF Approved
  <2>2. incidentDecision[k] # NoDecision
    <3>1. incidentDecision[k].verdict = "approved" /\ NoDecision.verdict = "none"
      BY <2>1, SMTT(60) DEF NoDecision
    <3>. QED
      BY <3>1, Zenon
  <2>3. incidentDecision'[k] = incidentDecision[k]
    BY <1>4, <2>2, Zenon
  <2>. QED
    BY <2>1, <2>3, Zenon DEF Approved
<1>13. (\E c \in Company : watched[c] # "") => \E c \in Company : watched'[c] # ""
  BY <1>4, <1>6, IncidentsAssumption, ZenonT(60)
<1>14. t.verdict = "approved" => Approved(t.i)' /\ incidentDecision' # incidentDecision
  <2>. SUFFICES ASSUME t.verdict = "approved" PROVE Approved(t.i)' /\ incidentDecision' # incidentDecision
    BY Zenon
  <2>1. incidentDecision'[t.key] = [on |-> t.i, verdict |-> "approved"]
    BY <1>4, <1>6, ZenonT(60)
  <2>2. incidentDecision[t.key].verdict = "none"
    BY <1>4 DEF NoDecision
  <2>3. incidentDecision'[t.key].verdict = "approved"
    BY <2>1
  <2>4. incidentDecision' # incidentDecision
    BY <2>2, <2>3, Zenon
  <2>5. Approved(t.i)'
    BY <1>6, <2>1, ZenonT(60) DEF Approved
  <2>. QED
    BY <2>4, <2>5, Zenon
<1>15. t.watches # "" => \E c \in Company : watched'[c] # ""
  BY <1>3, <1>4, <1>6, IncidentsAssumption, ZenonT(60)
<1>16. ASSUME ~crossed
       PROVE  /\ AloneFacts'
              /\ \A i \in Incident :
                   incident[i].status = "rejected" /\ incident'[i].status # "rejected"
                     => incidentDecision' # incidentDecision
  <2>0. RowAlone(t) /\ RowsAlone
    BY <1>2, <1>16, Zenon
  <2>1. /\ t.seen = incident[t.i] /\ m.status = t.mine.status /\ m.method = t.mine.method
        /\ m.families = incident[t.i].families
    <3>1. t.seen = incident[t.i] /\ t.mine.families = t.seen.families
      BY <1>2, <2>0, ZenonT(60) DEF RowAlone
    <3>. QED
      BY <1>8, <3>1, Zenon
  <2>2. ASSUME NEW i \in Incident
        PROVE  /\ incident[i].status = "rejected" /\ incident'[i].status # "rejected"
                    => incidentDecision' # incidentDecision
               /\ incident'[i].status = "candidate" => incident'[i].method = "none"
               /\ (HasGrounds(i, incident[i], {}))'
    <3>0. PICK b : b = incident[i]
      BY Zenon
    <3>1. HasGrounds(i, b, {})'
      <4>0. PICK none : none = {}
        BY ZenonT(60)
      <4>1. HasGrounds(i, b, none)
        BY <2>0, <3>0, <4>0, Zenon DEF RowsAlone
      <4>2. \A x \in Item : parse[x] = "parsed" \/ x \in none => parse'[x] = "parsed" \/ x \in none
        BY <1>4, Zenon
      <4>3. HasGrounds(i, b, none)'
        BY <1>12, <1>13, <4>1, <4>2, GroundsStay, ZenonT(60)
      <4>. QED
        BY <4>0, <4>3, Zenon
    <3>2. CASE i # t.i
      <4>1. incident'[i] = b
        BY <1>9, <3>0, <3>2, Zenon
      <4>2. (HasGrounds(i, incident[i], {}))'
        BY <3>1, <4>1, ZenonT(60) DEF HasGrounds
      <4>. QED
        BY <2>0, <3>0, <4>1, <4>2, Zenon DEF RowsAlone
    <3>3. CASE i = t.i
      <4>1. incident'[i] = m
        BY <1>9, <3>3, Zenon
      <4>2. /\ b.status = "rejected" /\ m.status # "rejected" => t.verdict = "approved"
            /\ m.status = "candidate" => m.method = "none"
            /\ m.status = "corroborated" =>
                 \/ t.verdict = "approved" /\ m.method # "none"
                 \/ t.watches # "" /\ m.method = "none"
                 \/ b.status = "corroborated" /\ m.method = b.method
            /\ m.families = b.families
        BY <1>2, <2>0, <2>1, <3>0, <3>3, ZenonT(60) DEF RowAlone
      <4>3. HasGrounds(i, m, {})'
        <5>1. CASE m.status # "corroborated"
          BY <5>1, ZenonT(60) DEF HasGrounds
        <5>2. CASE t.verdict = "approved" /\ m.method # "none"
          BY <1>14, <3>3, <5>2, ZenonT(60) DEF HasGrounds
        <5>3. CASE t.watches # "" /\ m.method = "none"
          BY <1>15, <5>3, ZenonT(60) DEF HasGrounds
        <5>4. CASE b.status = "corroborated" /\ m.method = b.method
          BY <3>1, <4>2, <5>4, ZenonT(60) DEF HasGrounds
        <5>. QED
          BY <4>2, <5>1, <5>2, <5>3, <5>4, ZenonT(60)
      <4>4. (HasGrounds(i, incident[i], {}))'
        BY <4>1, <4>3, ZenonT(60) DEF HasGrounds
      <4>. QED
        BY <1>14, <3>0, <4>1, <4>2, <4>4, ZenonT(60)
    <3>. QED
      BY <3>2, <3>3, Zenon
  <2>3. \A i \in Incident : incident'[i].families = incident[i].families
    BY <1>9, <2>1, Zenon
  <2>4. RowsAlone'
    <3>1. \A x \in Item : IncidentsOf[x] \subseteq Incident
      BY IncidentsAssumption, Zenon
    <3>2. \A x \in Item : parse'[x] = "parsed" =>
            \A i \in IncidentsOf[x] : FamilyOf[x] \in incident'[i].families
      BY <1>4, <2>0, <2>3, <3>1, Zenon DEF RowsAlone
    <3>. QED
      BY <2>2, <3>2, Zenon DEF RowsAlone
  <2>5. \A v \in IncidentWorker \ {w} : itx[v] = NoTx
    BY <1>2, <1>16, AloneIs, Zenon
  <2>6. PassAlone(u)' /\ RowAlone(u)'
    BY <1>10, IdleFacts, Zenon
  <2>7. itx' = [itx EXCEPT ![w] = u]
    BY <1>4, <1>10, Zenon
  <2>8. AloneFacts'
    BY <1>5, <2>4, <2>5, <2>6, <2>7, AloneTx, ZenonT(60)
  <2>. QED
    BY <2>2, <2>8, Zenon
<1>. QED
  BY <1>4, <1>11, <1>16, Zenon DEF IncidentsInv

\* Steps outside the transactions: a manual incident, and an item of the registry.
LEMMA OutsideStep ==
  ASSUME IncidentsInv, UNCHANGED <<article, evidence, incidentDecision, watched, crossed, itx>>,
         DOMAIN parse' = Item, DOMAIN incident' = Incident,
         \A x \in Item : parse'[x] = "parsed" <=> parse[x] = "parsed",
         \A i \in Incident :
           \/ incident'[i] = incident[i]
           \/ /\ incident[i] = Unknown /\ IncidentRow(incident'[i])
              /\ incident'[i].status = "candidate" /\ incident'[i].method = "none"
              /\ \A x \in Item : i \notin IncidentsOf[x]
  PROVE  IncidentsInv'
<1>1. \A x \in Item : IncidentsOf[x] \subseteq Incident
  BY IncidentsAssumption, Zenon
<1>2. /\ \A i \in Incident : Stored(incident'[i])
      /\ \A i \in Incident : incident[i] # Unknown => incident'[i] # Unknown
  BY NoRows, Zenon DEF Stored, IncidentsInv, IncidentsBase
<1>3. ASSUME NEW w \in IncidentWorker
      PROVE  /\ (PassFacts(itx[w]) /\ RowTxFacts(itx[w]))'
             /\ itx'[w].op \in {"parse", "row"} \/ itx'[w] = NoTx
  <2>1. PICK t : t = itx[w]
    BY Zenon
  <2>2. PassFacts(t) /\ RowTxFacts(t) /\ (t.op \in {"parse", "row"} \/ t = NoTx)
    BY <2>1, Zenon DEF IncidentsInv, IncidentsBase
  <2>3. PassFacts(t)' /\ RowTxFacts(t)'
    BY <1>2, <2>2, TxFactsStay, Zenon
  <2>4. itx'[w] = t
    BY <2>1, Zenon
  <2>5. (PassFacts(itx[w]) /\ RowTxFacts(itx[w]))'
    BY <2>3, <2>4, ZenonT(60) DEF PassFacts, RowTxFacts
  <2>. QED
    BY <2>2, <2>4, <2>5, Zenon
<1>4. ParsedFacts'
  BY <1>1, <1>2, Zenon DEF ParsedFacts, IncidentsInv, IncidentsBase
<1>5. IncidentsBase'
  BY <1>2, <1>3, <1>4, Zenon DEF IncidentsInv, IncidentsBase
<1>6. ASSUME ~crossed PROVE AloneFacts'
  <2>0. AloneFacts
    BY <1>6, Zenon DEF IncidentsInv
  <2>1. ASSUME NEW i \in Incident, NEW r, NEW done, HasGrounds(i, r, done)
        PROVE  HasGrounds(i, r, done)'
    <3>1. Approved(i) => Approved(i)'
      BY Zenon DEF Approved
    <3>. QED
      BY <2>1, <3>1, GroundsStay, ZenonT(60)
  <2>2. ASSUME NEW i \in Incident
        PROVE  /\ incident'[i].status = "candidate" => incident'[i].method = "none"
               /\ (HasGrounds(i, incident[i], {}))'
    <3>1. CASE incident'[i] = incident[i]
      <4>1. PICK r : r = incident[i]
        BY Zenon
      <4>2. HasGrounds(i, r, {})'
        BY <2>0, <2>1, <4>1, Zenon DEF AloneFacts, RowsAlone
      <4>3. (HasGrounds(i, incident[i], {}))'
        BY <3>1, <4>1, <4>2, ZenonT(60) DEF HasGrounds
      <4>. QED
        BY <2>0, <3>1, <4>3, Zenon DEF AloneFacts, RowsAlone
    <3>2. CASE incident'[i].status = "candidate" /\ incident'[i].method = "none"
      BY <3>2, Zenon DEF HasGrounds
    <3>. QED
      BY <3>1, <3>2, Zenon
  <2>3. \A x \in Item : parse'[x] = "parsed" =>
          \A i \in IncidentsOf[x] : FamilyOf[x] \in incident'[i].families
    BY <1>1, <2>0, ZenonT(60) DEF AloneFacts, RowsAlone
  <2>4. RowsAlone'
    BY <2>2, <2>3, ZenonT(60) DEF RowsAlone
  <2>5. ASSUME NEW w \in IncidentWorker PROVE (PassAlone(itx[w]) /\ RowAlone(itx[w]))'
    <3>1. PICK t : t = itx[w]
      BY Zenon
    <3>2. /\ PassAlone(t) /\ RowAlone(t) /\ PassFacts(t) /\ RowTxFacts(t)
      BY <2>0, <3>1, Zenon DEF AloneFacts, IncidentsInv, IncidentsBase
    <3>3. PassAlone(t)'
      <4>. SUFFICES ASSUME t.op = "parse" PROVE PassAlone(t)'
        BY Zenon DEF PassAlone
      <4>1. ASSUME NEW i \in Incident, t.seen[i] # NotRead
            PROVE  /\ t.seen[i] = incident'[i]
                   /\ HasGrounds(i, t.mine[i], t.done)'
        <5>1. /\ t.seen[i] = incident[i] /\ HasGrounds(i, t.mine[i], t.done)
              /\ \E x \in Item : i \in IncidentsOf[x]
          BY <3>2, <4>1, ZenonT(60) DEF PassAlone
        <5>2. PICK r, done : r = t.mine[i] /\ done = t.done
          BY Zenon
        <5>3. HasGrounds(i, r, done)'
          BY <2>1, <5>1, <5>2, Zenon
        <5>. QED
          BY <5>1, <5>2, <5>3, Zenon
      <4>. QED
        BY <3>2, <4>1, ZenonT(60) DEF PassAlone
    <3>4. RowAlone(t)'
      BY <3>2, ZenonT(60) DEF RowAlone, RowTxFacts
    <3>5. itx'[w] = t
      BY <3>1, Zenon
    <3>. QED
      BY <3>3, <3>4, <3>5, ZenonT(60) DEF PassAlone, RowAlone
  <2>6. \A v, w \in IncidentWorker : itx'[v] # NoTx /\ itx'[w] # NoTx => v = w
    BY <2>0, Zenon DEF AloneFacts
  <2>. QED
    BY <2>4, <2>5, <2>6, Zenon DEF AloneFacts
<1>. QED
  BY <1>5, <1>6, Zenon DEF IncidentsInv

\* A manual incident has a key no item reports.
LEMMA ManualStep ==
  ASSUME IncidentsInv, NEW k \in DecisionKeys, CreateManualIncident(k)
  PROVE  IncidentsInv'
<1>1. PICK c \in Company : c = CHOOSE d \in Company : TRUE
  BY IncidentsAssumption, ZenonT(60)
<1>2. PICK r : r = [status |-> "candidate", method |-> "none", families |-> {"manual"},
                    company |-> c, ref |-> "", version |-> 1]
  BY Zenon
<1>4. IncidentRow(r) /\ r.status = "candidate" /\ r.method = "none"
  BY <1>2, Zenon DEF IncidentRow, IncidentStatus, CorroborationMethod
<1>5. /\ incident' = [i \in Incident |-> IF i \in Manual[k] THEN r ELSE incident[i]]
      /\ \A i \in Manual[k] : incident[i] = Unknown
      /\ UNCHANGED <<parse, article, evidence, incidentDecision, watched, crossed, itx>>
  BY <1>1, <1>2, Zenon DEF CreateManualIncident
<1>6. \A i \in Manual[k] : \A x \in Item : i \notin IncidentsOf[x]
  BY IncidentsAssumption, ZenonT(60)
<1>7. DOMAIN parse' = Item /\ DOMAIN incident' = Incident
  BY <1>5, ZenonT(60) DEF IncidentsInv, IncidentsBase
<1>. QED
  BY <1>4, <1>5, <1>6, <1>7, OutsideStep, ZenonT(60)

\* The registry stores an item.
LEMMA IngestStep ==
  ASSUME IncidentsInv, NEW x \in Item, ItemIngested(x)
  PROVE  IncidentsInv'
<1>1. DOMAIN parse = Item /\ DOMAIN incident = Incident
  BY ZenonT(60) DEF IncidentsInv, IncidentsBase
<1>2. \A y \in Item : parse'[y] = "parsed" <=> parse[y] = "parsed"
  BY <1>1, Zenon DEF ItemIngested
<1>3. /\ UNCHANGED <<article, evidence, incidentDecision, watched, crossed, itx>>
      /\ DOMAIN parse' = Item /\ DOMAIN incident' = Incident /\ incident' = incident
  BY <1>1, Zenon DEF ItemIngested
<1>. QED
  BY <1>2, <1>3, OutsideStep, ZenonT(60)

\* No step takes an incident out of rejection without a decision, if transactions do not overlap.
KeepsRejection ==
  ~crossed => \A i \in Incident :
    incident[i].status = "rejected" /\ incident'[i].status # "rejected"
      => incidentDecision' # incidentDecision

\* Every step keeps the invariant, and rejections.
LEMMA IncidentsStep ==
  ASSUME IncidentsInv, [IncidentsNext]_ivars
  PROVE  IncidentsInv' /\ KeepsRejection
<1>. USE DEF KeepsRejection
<1>1. ASSUME UNCHANGED ivars PROVE IncidentsInv' /\ KeepsRejection
  <2>1. UNCHANGED <<article, evidence, incidentDecision, watched, crossed, itx>> /\ parse' = parse /\ incident' = incident
    BY <1>1, Zenon DEF ivars
  <2>2. DOMAIN parse' = Item /\ DOMAIN incident' = Incident
    BY <2>1, Zenon DEF IncidentsInv, IncidentsBase
  <2>3. IncidentsInv'
    BY <2>1, <2>2, OutsideStep, Zenon
  <2>. QED
    BY <2>1, <2>3, Zenon
<1>2. ASSUME NEW w \in IncidentWorker, itx[w] # NoTx, Closes(w), UNCHANGED tables
      PROVE  IncidentsInv' /\ KeepsRejection
  BY <1>2, CloseStep, Zenon DEF tables
<1>3. ASSUME NEW w \in IncidentWorker, ParseConflict(w) PROVE IncidentsInv' /\ KeepsRejection
  BY <1>2, <1>3, SMTT(60) DEF ParseConflict, NoTx, tables
<1>4. ASSUME NEW w \in IncidentWorker, IncidentConflict(w) PROVE IncidentsInv' /\ KeepsRejection
  BY <1>2, <1>4 DEF IncidentConflict, NoTx, tables
<1>5. ASSUME NEW w \in IncidentWorker, TransactionDies(w) PROVE IncidentsInv' /\ KeepsRejection
  BY <1>2, <1>5, Zenon DEF TransactionDies, tables
<1>6. ASSUME NEW w \in IncidentWorker, ParseRead(w) PROVE IncidentsInv' /\ KeepsRejection
  BY <1>6, ParseReadStep, ZenonT(60) DEF ParseRead
<1>7. ASSUME NEW w \in IncidentWorker, NEW x \in Item, ParseItem(w, x) PROVE IncidentsInv' /\ KeepsRejection
  <2>1. incident' = incident
    BY <1>7, Zenon DEF ParseItem
  <2>. QED
    BY <1>7, <2>1, ParseItemStep, Zenon
<1>8. ASSUME NEW w \in IncidentWorker, ParseCommit(w) PROVE IncidentsInv' /\ KeepsRejection
  BY <1>8, ParseCommitStep, Zenon
<1>9. ASSUME NEW w \in IncidentWorker, IncidentCommit(w) PROVE IncidentsInv' /\ KeepsRejection
  BY <1>9, IncidentCommitStep, Zenon
<1>10. ASSUME NEW w \in IncidentWorker, intelligence_patch_incident(w) PROVE IncidentsInv' /\ KeepsRejection
  <2>1. incident' = incident
    BY <1>10, ZenonT(60) DEF intelligence_patch_incident, UpdateIncident, IncidentRead
  <2>. QED
    BY <1>10, <2>1, RequestStep, ZenonT(60) DEF intelligence_patch_incident
<1>11. ASSUME NEW w \in IncidentWorker, incident_corroborate(w) PROVE IncidentsInv' /\ KeepsRejection
  <2>1. incident' = incident
    BY <1>11, SMTT(60) DEF incident_corroborate, CorroborateIncident, IncidentRead
  <2>. QED
    BY <1>11, <2>1, RequestStep, Zenon DEF incident_corroborate
<1>12. ASSUME NEW w \in IncidentWorker, incident_reject(w) PROVE IncidentsInv' /\ KeepsRejection
  <2>1. incident' = incident
    BY <1>12, Zenon DEF incident_reject, RejectIncident, IncidentRead
  <2>. QED
    BY <1>12, <2>1, RequestStep, ZenonT(60) DEF incident_reject
<1>13. ASSUME NEW w \in IncidentWorker, incident_revert(w) PROVE IncidentsInv' /\ KeepsRejection
  <2>1. incident' = incident
    BY <1>13, Zenon DEF incident_revert, RevertIncident, IncidentRead
  <2>. QED
    BY <1>13, <2>1, RequestStep, Zenon DEF incident_revert
<1>14. ASSUME NEW w \in IncidentWorker, intelligence_promote_incident_to_watchlist(w)
       PROVE  IncidentsInv' /\ KeepsRejection
  <2>1. incident' = incident
    BY <1>14, ZenonT(60) DEF intelligence_promote_incident_to_watchlist, PromoteIncident,
       IncidentRead
  <2>. QED
    BY <1>14, <2>1, RequestStep, ZenonT(60) DEF intelligence_promote_incident_to_watchlist
<1>15. ASSUME NEW k \in DecisionKeys, CreateManualIncident(k) PROVE IncidentsInv' /\ KeepsRejection
  <2>1. KeepsRejection
    <3>1. Unknown.status = "none"
      BY Zenon DEF Unknown
    <3>. QED
      BY <1>15, <3>1, ZenonT(60) DEF CreateManualIncident
  <2>. QED
    BY <1>15, <2>1, ManualStep, Zenon
<1>16. ASSUME NEW x \in Item, ItemIngested(x) PROVE IncidentsInv' /\ KeepsRejection
  BY <1>16, IngestStep, Zenon DEF ItemIngested
<1>. QED
  BY <1>1, <1>3, <1>4, <1>5, <1>6, <1>7, <1>8, <1>9, <1>10, <1>11, <1>12, <1>13, <1>14, <1>15,
     <1>16, ZenonT(60) DEF IncidentsNext, intelligence_create_manual_incident

\* The invariant holds in every behaviour.
LEMMA IncidentsInvariant == IncidentsSpec => []IncidentsInv
  BY IncidentsInitial, IncidentsStep, PTL DEF IncidentsSpec

\* A parsed item has its article, and every incident it reports is there with the article as evidence,
\* however passes and requests overlap; the family too, if none did (incident_repository.py:36-57, 243-266).
THEOREM ParsedLinked == IncidentsSpec => []ParsedIsLinked
<1>1. IncidentsInv => ParsedIsLinked
  BY Zenon DEF IncidentsInv, IncidentsBase, ParsedFacts, AloneFacts, RowsAlone, ParsedIsLinked
<1>. QED
  BY <1>1, IncidentsInvariant, PTL

\* As long as transactions do not overlap, a corroborated incident has the grounds its method names
\* (incident_repository.py:268-278, governance/incidents.py:15-202, watchlists.py:87-129).
THEOREM CorroboratedHasGrounds == IncidentsSpec => []CorroborationHasGrounds
<1>1. ASSUME IncidentsInv PROVE CorroborationHasGrounds
  <2>1. ASSUME NEW i \in Incident, incident[i].status = "corroborated", ~crossed
        PROVE  CASE incident[i].method = "authoritative_disclosure" ->
                      Approved(i) \/ \E x \in Authoritative : parse[x] = "parsed" /\ i \in IncidentsOf[x]
                 [] incident[i].method = "independent_sources" ->
                      Approved(i) \/ Independent(incident[i].families)
                 [] incident[i].method = "analyst_decision" -> Approved(i)
                 [] incident[i].method = "none" -> \E c \in Company : watched[c] # ""
    <3>1. Unknown.status = "none"
      BY Zenon DEF Unknown
    <3>2. IncidentRow(incident[i])
      BY <1>1, <2>1, <3>1, ZenonT(60) DEF IncidentsInv, IncidentsBase, Stored
    <3>3. HasGrounds(i, incident[i], {})
      BY <1>1, <2>1, Zenon DEF IncidentsInv, AloneFacts, RowsAlone
    <3>4. incident[i].method \in {"none", "authoritative_disclosure", "independent_sources", "analyst_decision"}
      BY <3>2, Zenon DEF IncidentRow, CorroborationMethod, CORROBORATION_METHODS
    <3>5. CASE incident[i].method = "none"
      BY <2>1, <3>3, <3>5, Zenon DEF HasGrounds
    <3>6. CASE incident[i].method = "authoritative_disclosure"
      BY <2>1, <3>3, <3>6, Zenon DEF HasGrounds
    <3>7. CASE incident[i].method = "independent_sources"
      BY <2>1, <3>3, <3>7, Zenon DEF HasGrounds
    <3>8. CASE incident[i].method = "analyst_decision"
      BY <2>1, <3>3, <3>8, Zenon DEF HasGrounds
    <3>. QED
      BY <3>4, <3>5, <3>6, <3>7, <3>8, ZenonT(60)
  <2>. QED
    BY <2>1, Zenon DEF CorroborationHasGrounds
<1>. QED
  BY <1>1, IncidentsInvariant, PTL

\* As long as transactions do not overlap, no step but an analyst's decision ends a rejection
\* (incident_repository.py:268-278).
THEOREM RejectionStays == IncidentsSpec => RejectedStaysRejected
<1>1. IncidentsInv /\ [IncidentsNext]_ivars =>
        [\A i \in Incident :
           incident[i].status = "rejected" /\ incident'[i].status # "rejected" /\ ~crossed
             => incidentDecision' # incidentDecision]_ivars
  BY IncidentsStep, Zenon DEF KeepsRejection
<1>. QED
  BY <1>1, IncidentsInvariant, PTL DEF IncidentsSpec, RejectedStaysRejected
=============================================================================
