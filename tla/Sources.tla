------------------------------ MODULE Sources -------------------------------
(***************************************************************************)
(* The source registry (services/source_registry.py) and its adapters      *)
(* (services/source_adapters.py).  A fetch is one transaction: it reads    *)
(* the source definition, asks the site, stores the items it did not know  *)
(* with a flush each, and notes on the definition how it went.  Nothing    *)
(* keeps two fetches of one source apart.                                  *)
(***************************************************************************)
EXTENDS Rows, Naturals, Sequences, FiniteSets

CONSTANTS
  Source,        \* source_definitions rows
  AdapterOf,     \* the adapter type of each source
  Document,      \* what a site may serve: sequences of entries
  Fetcher,       \* concurrently running fetches
  MaxFailures    \* bound: consecutive failures

VARIABLES
  source,        \* source_definitions
  rawItem,       \* raw_source_items
  lastFetch,     \* history: how the last committed fetch of a source went
  overlapped,    \* history: two fetches have been open at the same time
  ftx            \* the fetch each worker is in

fvars == <<source, rawItem, lastFetch, overlapped, ftx>>
-----------------------------------------------------------------------------
(* Adapters *)

AdapterType == {"http_page", "schema_org", "ics", "rss_atom", "scheduled_query", "gdelt_doc"}

\* One entry of a feed, calendar or page; "" is a field the site left out.
FeedEntry == [id : STRING, link : STRING, title : STRING, text : STRING]
Page == "page"  \* the address of the document itself

FetchedSourceItem(url, text, external_id) ==
  [url |-> url, text |-> text, ext |-> external_id]

parse_http_page(doc) == <<FetchedSourceItem(Page, doc, "")>>
parse_schema_org_events(doc) ==
  [n \in 1..Len(doc) |->
     FetchedSourceItem(OrElse(doc[n].link, OrElse(doc[n].id, Page)), doc[n].text, doc[n].id)]
parse_ics_events(doc) ==
  [n \in 1..Len(doc) |->
     FetchedSourceItem(OrElse(doc[n].link, Page), doc[n].text, doc[n].id)]
parse_rss_atom(doc) == parse_ics_events(doc)
parse_gdelt_doc_articles(doc) ==
  LET articles == SelectSeq(doc, LAMBDA e : e.link # "" /\ e.title # "")
  IN [n \in 1..Len(articles) |->
        FetchedSourceItem(articles[n].link, articles[n].text,
                          OrElse(articles[n].id, articles[n].link))]

\* create_adapter(type).fetch, when the site answers with doc.
AdapterFetch(type, doc) ==
  CASE type \in {"http_page", "scheduled_query"} -> parse_http_page(doc)
    [] type = "schema_org" -> parse_schema_org_events(doc)
    [] type = "ics" -> parse_ics_events(doc)
    [] type = "rss_atom" -> parse_rss_atom(doc)
    [] type = "gdelt_doc" -> parse_gdelt_doc_articles(doc)
-----------------------------------------------------------------------------
(* Rows *)

OperatingState == {"enabled", "paused", "degraded"}
SourceRow == [state : OperatingState, failures : 0..MaxFailures, succeeded : BOOLEAN]
DuplicateState == {"canonical", "duplicate", "quarantined"}
Asleep == [op |-> "idle"]

\* Source definitions and stored items have their types.
SourcesTypeOK ==
  /\ source \in [Source -> SourceRow]
  /\ \A i \in rawItem : /\ i.src \in Source
                        /\ i.duplicate \in DuplicateState
                        /\ i.parse \in {"pending", "quarantined"}
  /\ lastFetch \in [Source -> {"none", "succeeded", "failed"}]

SourcesInit ==
  /\ source = [s \in Source |-> [state |-> "enabled", failures |-> 0, succeeded |-> FALSE]]
  /\ rawItem = {}
  /\ lastFetch = [s \in Source |-> "none"]
  /\ overlapped = FALSE
  /\ ftx = [f \in Fetcher |-> Asleep]

Fetches(f, t) == ftx' = [ftx EXCEPT ![f] = t]

\* build_raw_item_idempotency_key
build_raw_item_idempotency_key(s, x) ==
  IF x.ext # "" THEN <<s, x.ext>> ELSE <<s, x.url, x.text>>

\* Mutant of classify_duplicate: changed content is taken for a new item.
classify_duplicate_changed(known, text) ==
  IF text \in known THEN "duplicate" ELSE "canonical"

\* classify_duplicate, from the contents known under the same address
classify_duplicate(known, text) ==
  CASE known = {} -> "canonical"
    [] known # {} /\ text \in known -> "duplicate"
    [] OTHER -> "quarantined"

\* The unique constraints of raw_source_items.
Conflicts(x, y) ==
  \/ x.key = y.key
  \/ x.src = y.src /\ x.ext # "" /\ x.ext = y.ext
  \/ x.src = y.src /\ x.url = y.url /\ x.text = y.text

\* A stored item; changed content is set aside for a person to look at.
RawSourceItem(s, x, known) ==
  LET duplicate == classify_duplicate(known, x.text)
  IN [src |-> s, url |-> x.url, text |-> x.text, ext |-> x.ext, duplicate |-> duplicate,
      parse |-> IF duplicate = "quarantined" THEN "quarantined" ELSE "pending",
      key |-> build_raw_item_idempotency_key(s, x)]
-----------------------------------------------------------------------------
(* fetch_source_by_id *)

\* The definition is read; whether the source is paused is not looked at.
FetchRead(f, s) ==
  /\ ftx[f] = Asleep
  /\ AdapterOf[s] \in AdapterType
  /\ Fetches(f, [op |-> "asks", s |-> s, seen |-> source[s], items |-> <<>>, added |-> {}])
  /\ overlapped' = (overlapped \/ \E g \in Fetcher : ftx[g] # Asleep)
  /\ UNCHANGED <<source, rawItem, lastFetch>>

FetchAnswered(f, doc) ==
  /\ ftx[f].op = "asks"
  /\ Fetches(f, [ftx[f] EXCEPT !.op = "stores", !.items = AdapterFetch(AdapterOf[ftx[f].s], doc)])
  /\ UNCHANGED <<source, rawItem, lastFetch, overlapped>>

FetchRefused(f) ==
  /\ ftx[f].op = "asks"
  /\ Fetches(f, [ftx[f] EXCEPT !.op = "failed"])
  /\ UNCHANGED <<source, rawItem, lastFetch, overlapped>>

\* Items others have flushed and not committed: their keys make an insert wait.
Unsettled(f) == UNION {ftx[g].added : g \in {g \in Fetcher \ {f} : ftx[g] # Asleep}}

\* The next item is known, or it is inserted and flushed.
PersistFetchedItem(f) ==
  LET t == ftx[f]
      x == Head(t.items)
      stored == rawItem \cup t.added
      known == {i.text : i \in {i \in stored : i.src = t.s /\ i.url = x.url}}
      row == RawSourceItem(t.s, x, known)
      old == \E i \in stored : i.key = row.key
  IN /\ t.op = "stores"
     /\ t.items # <<>>
     /\ ~old => \A i \in stored \cup Unsettled(f) : ~Conflicts(row, i)
     /\ Fetches(f, [t EXCEPT !.items = Tail(@), !.added = IF old THEN @ ELSE @ \cup {row}])
     /\ UNCHANGED <<source, rawItem, lastFetch, overlapped>>

(***************************************************************************)
(* The insert breaks a unique constraint.  The failed flush has rolled the *)
(* session back, so the handler that should note the failure fails in its  *)
(* turn, and the whole fetch leaves nothing behind.                        *)
(***************************************************************************)
PersistConflict(f) ==
  LET t == ftx[f]
      x == Head(t.items)
      stored == rawItem \cup t.added
      known == {i.text : i \in {i \in stored : i.src = t.s /\ i.url = x.url}}
      row == RawSourceItem(t.s, x, known)
  IN /\ t.op = "stores"
     /\ t.items # <<>>
     /\ \A i \in stored : i.key # row.key
     /\ \E i \in stored \cup Unsettled(f) : Conflicts(row, i)
     /\ Fetches(f, Asleep)
     /\ UNCHANGED <<source, rawItem, lastFetch, overlapped>>

\* The worker dies or the database is lost before the commit.
FetchDies(f) ==
  /\ ftx[f] # Asleep
  /\ Fetches(f, Asleep)
  /\ UNCHANGED <<source, rawItem, lastFetch, overlapped>>

\* Mutant of FetchSucceeds: the failures counted so far are kept.
FetchSucceedsNoReset(f) ==
  LET t == ftx[f]
  IN /\ t.op = "stores"
     /\ t.items = <<>>
     /\ source' = [source EXCEPT ![t.s] = Merge(t.seen, [t.seen EXCEPT !.state = "enabled"], @)]
     /\ rawItem' = rawItem \cup t.added
     /\ lastFetch' = [lastFetch EXCEPT ![t.s] = "succeeded"]
     /\ Fetches(f, Asleep)
     /\ UNCHANGED overlapped

\* All items are stored: the source is enabled and has no failures.
FetchSucceeds(f) ==
  LET t == ftx[f]
  IN /\ t.op = "stores"
     /\ t.items = <<>>
     /\ source' = [source EXCEPT ![t.s] =
          Merge(t.seen, [state |-> "enabled", failures |-> 0, succeeded |-> TRUE], @)]
     /\ rawItem' = rawItem \cup t.added
     /\ lastFetch' = [lastFetch EXCEPT ![t.s] = "succeeded"]
     /\ Fetches(f, Asleep)
     /\ UNCHANGED overlapped

\* The site did not answer: one failure more, and the source is degraded.
FetchFails(f) ==
  LET t == ftx[f]
  IN /\ t.op = "failed"
     /\ t.seen.failures < MaxFailures
     /\ source' = [source EXCEPT ![t.s] =
          Merge(t.seen, [t.seen EXCEPT !.state = "degraded", !.failures = @ + 1], @)]
     /\ lastFetch' = [lastFetch EXCEPT ![t.s] = "failed"]
     /\ Fetches(f, Asleep)
     /\ UNCHANGED <<rawItem, overlapped>>

\* An operator pauses a source in the database.
OperatorPauses(s) ==
  /\ source[s].state # "paused"
  /\ source' = [source EXCEPT ![s].state = "paused"]
  /\ UNCHANGED <<rawItem, lastFetch, overlapped, ftx>>
-----------------------------------------------------------------------------
(* source_health_from_definition; whether the last success is too old is the *)
(* clock's to say.                                                           *)
source_health(row, tooOld) ==
  CASE row.state = "paused" -> "disabled"
    [] row.state = "degraded" \/ (row.state # "paused" /\ row.failures > 0) -> "degraded"
    [] row.state = "enabled" /\ row.failures = 0 /\ ~row.succeeded -> "unknown"
    [] OTHER -> IF tooOld THEN "stale" ELSE "fresh"

SourcesNext ==
  \/ \E f \in Fetcher :
       \/ \E s \in Source : FetchRead(f, s)
       \/ \E doc \in Document : FetchAnswered(f, doc)
       \/ FetchRefused(f)
       \/ PersistFetchedItem(f) \/ PersistConflict(f)
       \/ FetchSucceeds(f) \/ FetchFails(f) \/ FetchDies(f)
  \/ \E s \in Source : OperatorPauses(s)

SourcesSpec == SourcesInit /\ [][SourcesNext]_fvars
-----------------------------------------------------------------------------
(* Properties *)

(***************************************************************************)
(* Of what a source has published at one address one item is canonical,    *)
(* whatever repeats, changes of content, crashes and restarts came between *)
(* -- as long as fetches do not overlap.                                   *)
(***************************************************************************)
OneCanonical ==
  ~overlapped =>
    \A i, j \in rawItem :
      /\ i.src = j.src /\ i.url = j.url
      /\ i.duplicate = "canonical" /\ j.duplicate = "canonical"
      => i = j

(***************************************************************************)
(* No stored item is marked as a duplicate: the contents that              *)
(* classify_duplicate calls one break a unique constraint when they are    *)
(* inserted.                                                               *)
(***************************************************************************)
DuplicateNeverStored == \A i \in rawItem : i.duplicate # "duplicate"

(***************************************************************************)
(* Health says how the last committed fetch went: fresh, stale, unknown or *)
(* degraded after success, failure or none at all -- unless fetches        *)
(* overlapped or the source is paused.                                     *)
(***************************************************************************)
HealthIsOfLastFetch ==
  ~overlapped => \A s \in Source, tooOld \in BOOLEAN :
    LET health == source_health(source[s], tooOld)
    IN health # "disabled" =>
         /\ health = "degraded" <=> lastFetch[s] = "failed"
         /\ health \in {"fresh", "stale"} <=> lastFetch[s] = "succeeded"
=============================================================================
