------------------------------- MODULE Events -------------------------------
(***************************************************************************)
(* Event intelligence (services/event_intelligence) and its geocoders      *)
(* (services/geocoding.py).  Parsing passes turn the pending items of      *)
(* event sources into events and participants; operators add events and    *)
(* participants by hand and edit events, whose address is geocoded inside  *)
(* the transaction that changes it.                                        *)
(***************************************************************************)
EXTENDS Rows, EventTime, FiniteSets, TLC

CONSTANTS
  EventItem,     \* raw_source_items of event sources
  RawOf,         \* what each item says: the candidate its parser sees
  ReuseOf,       \* participant_reuse_state of the item's source
  HintOf,        \* the zone its source gives for local times
  Instants,      \* the instants that times are compared over
  City, Postcode,  \* parts of an address; "" is left out
  ManualReuse,   \* reuse_state and crm_export_allowed that requests give participants
  EventKeys,     \* Idempotency-Key headers
  EventWorker,   \* concurrently open transactions
  MaxEventVersion  \* bound: version of an event

\* A local time of a source with a zone, and the instant it is read as, are times.
ASSUME EventsAssumption ==
  \A x \in EventItem : RawOf[x].start.kind = "naive" /\ HintOf[x].kind = "zone" =>
    LET time == normalize_event_time(RawOf[x].start, HintOf[x])
    IN /\ RawOf[x].start.local \in Int /\ HintOf[x].zone \in Zone
       /\ Instants \subseteq Int
       /\ time.status = "resolved" => time.utc[1] \in Instants

VARIABLES
  eventParse,    \* parse_status of the items
  event,         \* cyber_events, by dedupe key
  participant,   \* event_participants, by dedupe key
  eventAudit,    \* audit_events keys
  mixed,         \* history: two transactions have been open at the same time
  etx            \* the transaction each worker is in

evars == <<eventParse, event, participant, eventAudit, mixed, etx>>
-----------------------------------------------------------------------------
(* Candidates *)

\* build_event_dedupe_key: by the source's id, else by name, day and place.
build_event_dedupe_key(raw, utc) ==
  IF raw.ext # "" THEN <<"external", raw.series, raw.ext>>
                  ELSE <<"event", raw.series, raw.name, utc, raw.city, raw.format>>
EventKeyOf(x) == build_event_dedupe_key(RawOf[x], normalize_event_time(RawOf[x].start, HintOf[x]).utc)

\* build_participant_dedupe_key
build_participant_dedupe_key(eventKey, person) ==
  IF person.ext # "" THEN <<"external", eventKey, person.ext>>
  ELSE IF person.profile # "" THEN <<"profile", eventKey, person.profile>>
  ELSE <<"name", eventKey, person.name>>

participant_eligibility(reuse) == [contact |-> reuse = "allowed", export |-> reuse = "allowed"]

ManualKeys == {<<"manual", k>> : k \in EventKeys}
EventDedupeKey == {EventKeyOf(x) : x \in EventItem} \cup ManualKeys
ParticipantKey ==
  UNION {{build_participant_dedupe_key(EventKeyOf(x), p) : p \in RawOf[x].people} : x \in EventItem}
  \cup {<<"manual", e, k>> : e \in EventDedupeKey, k \in EventKeys}
-----------------------------------------------------------------------------
(* Geocoding *)

NoCoordinates == <<>>
Geocode(status, coords, provider) == [status |-> status, coords |-> coords, provider |-> provider]

\* What a geocoder answers for a complete address (external): where it is, or why not.
geocode(city, postcode) ==
  { Geocode("resolved", <<city, postcode>>, "geocoder"), Geocode("not_found", NoCoordinates, "geocoder"),
    Geocode("failed", NoCoordinates, "geocoder") }

\* Mutant of ApplyEventGeocode: an address that became incomplete keeps its coordinates.
ApplyEventGeocodeKeeps(row) ==
  CASE row.format # "in-person" -> {Geocode("not_required", NoCoordinates, "")}
    [] row.format = "in-person" /\ (row.city = "" \/ row.postcode = "") ->
         {Geocode("insufficient_address", row.coords, row.provider)}
    [] OTHER -> geocode(row.city, row.postcode)

\* _apply_event_geocode and _geocode_event_payload: the possible results for a row.
ApplyEventGeocode(row) ==
  CASE row.format # "in-person" -> {Geocode("not_required", NoCoordinates, "")}
    [] row.format = "in-person" /\ (row.city = "" \/ row.postcode = "") ->
         {Geocode("insufficient_address", NoCoordinates, "")}
    [] OTHER -> geocode(row.city, row.postcode)

Geocoded(row, g) == [row EXCEPT !.geocode = g.status, !.coords = g.coords, !.provider = g.provider]
-----------------------------------------------------------------------------
(* Rows *)

CyberEvent ==
  [format : {"in-person", "online", "hybrid", "unknown"},
   city : City, postcode : Postcode,
   geocode : {"resolved", "not_required", "not_configured", "insufficient_address",
              "not_found", "failed"},
   coords : {NoCoordinates, <<"published">>} \cup (City \X Postcode),
   provider : {"", "source", "geocoder"},
   timezone : {"resolved", "missing", "ambiguous"},
   source : EventItem \cup {""},
   starts : {NoInstant} \cup {<<u>> : u \in Instants},
   version : 1..MaxEventVersion]
EventParticipant ==
  [reuse : {"allowed", "unknown", "prohibited"}, contact : BOOLEAN, export : BOOLEAN]
NoEvent == [version |-> 0]
NoParticipant == [reuse |-> "none"]
Outside == [op |-> "idle"]

\* Rows have their type.
EventsTypeOK ==
  /\ eventParse \in [EventItem -> {"absent", "pending", "parsed"}]
  /\ \A e \in EventDedupeKey : event[e] # NoEvent => event[e] \in CyberEvent
  /\ participant \in [ParticipantKey -> EventParticipant \cup {NoParticipant}]

EventsInit ==
  /\ eventParse = [x \in EventItem |-> "absent"]
  /\ event = [e \in EventDedupeKey |-> NoEvent]
  /\ participant = [p \in ParticipantKey |-> NoParticipant]
  /\ eventAudit = {}
  /\ mixed = FALSE
  /\ etx = [w \in EventWorker |-> Outside]

Enters(w, t) ==
  /\ etx[w] = Outside
  /\ etx' = [etx EXCEPT ![w] = t]
  /\ mixed' = (mixed \/ \E v \in EventWorker : etx[v] # Outside)
Leaves(w) == etx' = [etx EXCEPT ![w] = Outside] /\ UNCHANGED mixed

\* The transaction fails, or its process dies.
EventsRollback(w) ==
  /\ etx[w] # Outside
  /\ Leaves(w)
  /\ UNCHANGED <<eventParse, event, participant, eventAudit>>

EventItemIngested(x) ==
  /\ eventParse[x] = "absent"
  /\ eventParse' = [eventParse EXCEPT ![x] = "pending"]
  /\ UNCHANGED <<event, participant, eventAudit, mixed, etx>>
-----------------------------------------------------------------------------
(* parse_pending_items *)

\* upsert_event: the row of a candidate; coordinates are the source's own, if it has any.
DiscoveredEvent(x) ==
  LET raw == RawOf[x]
      time == normalize_event_time(raw.start, HintOf[x])
  IN [format |-> raw.format, city |-> raw.city, postcode |-> raw.postcode,
      geocode |-> IF raw.geo THEN "resolved" ELSE "not_required",
      coords |-> IF raw.geo THEN <<"published">> ELSE NoCoordinates,
      provider |-> IF raw.geo THEN "source" ELSE "",
      timezone |-> time.status, starts |-> time.utc, source |-> x, version |-> 1]

\* upsert_participant: one that is known stays as it is.
DiscoveredParticipant(x) ==
  LET allowed == participant_eligibility(ReuseOf[x])
  IN [reuse |-> ReuseOf[x], contact |-> allowed.contact, export |-> allowed.export]

EventPassRead(w) ==
  LET todo == {x \in EventItem : eventParse[x] = "pending"}
  IN /\ todo # {}
     /\ Enters(w, [op |-> "pass", todo |-> todo, done |-> {},
                   events |-> [e \in {} |-> NoEvent], people |-> [p \in {} |-> NoParticipant]])
     /\ UNCHANGED <<eventParse, event, participant, eventAudit>>

\* participants_from_raw_item, by key
PeopleOf(t, x) == {build_participant_dedupe_key(EventKeyOf(x), p) : p \in RawOf[x].people}

\* Each insert is flushed; it waits while another pass holds the same key.
ParseEventItem(w, x) ==
  LET t == etx[w]
      e == EventKeyOf(x)
      people == {p \in PeopleOf(t, x) : participant[p] = NoParticipant /\ p \notin DOMAIN t.people}
      new == IF event[e] = NoEvent /\ e \notin DOMAIN t.events THEN {e} ELSE {}
  IN /\ t.op = "pass"
     /\ x \in t.todo
     /\ \A v \in EventWorker \ {w} : etx[v].op = "pass" =>
          KeysFree(new, DOMAIN etx[v].events) /\ KeysFree(people, DOMAIN etx[v].people)
     /\ etx' = [etx EXCEPT ![w] =
          [t EXCEPT
            !.todo = @ \ {x},
            !.done = @ \cup {x},
            !.events = [k \in DOMAIN @ \cup new |-> IF k \in new THEN DiscoveredEvent(x) ELSE @[k]],
            !.people = [p \in DOMAIN @ \cup people |->
                          IF p \in people THEN DiscoveredParticipant(x) ELSE @[p]]]]
     /\ UNCHANGED <<eventParse, event, participant, eventAudit, mixed>>

EventPassCommit(w) ==
  LET t == etx[w]
  IN /\ t.op = "pass"
     /\ t.todo = {}
     /\ eventParse' = [x \in EventItem |-> IF x \in t.done THEN "parsed" ELSE eventParse[x]]
     /\ event' = [e \in EventDedupeKey |-> IF e \in DOMAIN t.events THEN t.events[e] ELSE event[e]]
     /\ participant' = [p \in ParticipantKey |->
                          IF p \in DOMAIN t.people THEN t.people[p] ELSE participant[p]]
     /\ Leaves(w)
     /\ UNCHANGED eventAudit
-----------------------------------------------------------------------------
(* Operators *)

\* create_manual_event: an in-person event has a whole address, which is geocoded first.
CreateManualEvent(k, format, city, postcode) ==
  LET row == [format |-> format, city |-> city, postcode |-> postcode, geocode |-> "not_required",
              coords |-> NoCoordinates, provider |-> "", timezone |-> "resolved", source |-> "",
              starts |-> <<CHOOSE u \in Instants : TRUE>>, version |-> 1]
  IN /\ event[<<"manual", k>>] = NoEvent
     /\ format = "in-person" => city # "" /\ postcode # ""
     /\ KeysFree({k}, eventAudit)
     /\ \E g \in ApplyEventGeocode(row) :
          event' = [event EXCEPT ![<<"manual", k>>] = Geocoded(row, g)]
     /\ eventAudit' = eventAudit \cup {k}
     /\ UNCHANGED <<eventParse, participant, mixed, etx>>

\* create_event_participant: what may be done with it is in the request.
CreateEventParticipant(k, e, reuse, contact, export) ==
  /\ event[e] # NoEvent
  /\ participant[<<"manual", e, k>>] = NoParticipant
  /\ KeysFree({k}, eventAudit)
  /\ participant' = [participant EXCEPT ![<<"manual", e, k>>] =
                       [reuse |-> reuse, contact |-> contact, export |-> export]]
  /\ eventAudit' = eventAudit \cup {k}
  /\ UNCHANGED <<eventParse, event, mixed, etx>>

\* The fields that a request sets are changed, the others stay.
Changed(row, change) == [c \in DOMAIN row |-> IF c \in DOMAIN change THEN change[c] ELSE row[c]]

\* update_event reads the version it was asked for, changes fields and asks the geocoder.
UpdateRead(w, k, e, change) ==
  /\ event[e] # NoEvent
  /\ event[e].version < MaxEventVersion
  /\ LET row == [Changed(event[e], change) EXCEPT !.version = @ + 1]
     IN \E g \in ApplyEventGeocode(row) :
          Enters(w, [op |-> "update", key |-> k, e |-> e, seen |-> event[e],
                     mine |-> Geocoded(row, g)])
  /\ UNCHANGED <<eventParse, event, participant, eventAudit>>

UpdateCommit(w) ==
  LET t == etx[w]
  IN /\ t.op = "update"
     /\ KeysFree({t.key}, eventAudit)
     /\ event' = [event EXCEPT ![t.e] = Merge(t.seen, t.mine, @)]
     /\ eventAudit' = eventAudit \cup {t.key}
     /\ Leaves(w)
     /\ UNCHANGED <<eventParse, participant>>

\* The fields of a request: what the geocode depends on, and a start with its zone settled.
Change ==
  {[city |-> c] : c \in City} \cup {[postcode |-> p] : p \in Postcode}
    \cup {[format |-> f] : f \in {"in-person", "online"}}
    \cup {[starts |-> <<CHOOSE u \in Instants : TRUE>>, timezone |-> "resolved"]}
-----------------------------------------------------------------------------
(* The routes *)

event_create_manual ==
  \E k \in EventKeys, format \in {"in-person", "online"}, city \in City, postcode \in Postcode :
    CreateManualEvent(k, format, city, postcode)
event_update(w) ==
  \E k \in EventKeys, e \in EventDedupeKey, change \in Change : UpdateRead(w, k, e, change)
event_participant_create ==
  \E k \in EventKeys, e \in EventDedupeKey, r \in ManualReuse :
    CreateEventParticipant(k, e, r[1], TRUE, r[2])

EventsNext ==
  \/ \E w \in EventWorker :
       \/ EventPassRead(w) \/ (\E x \in EventItem : ParseEventItem(w, x)) \/ EventPassCommit(w)
       \/ event_update(w) \/ UpdateCommit(w)
       \/ EventsRollback(w)
  \/ event_create_manual
  \/ event_participant_create
  \/ \E x \in EventItem : EventItemIngested(x)

EventsSpec == EventsInit /\ [][EventsNext]_evars
-----------------------------------------------------------------------------
(* Properties *)

(***************************************************************************)
(* Coordinates from the geocoder are those of the address the event has,   *)
(* and only an event with a place has them, after any sequence of edits    *)
(* that do not overlap.                                                    *)
(***************************************************************************)
CoordinatesMatchAddress ==
  ~mixed => \A e \in EventDedupeKey : event[e] # NoEvent /\ event[e].provider = "geocoder" =>
    /\ event[e].format = "in-person"
    /\ event[e].coords # NoCoordinates => event[e].coords = <<event[e].city, event[e].postcode>>
    /\ event[e].coords # NoCoordinates <=> event[e].geocode = "resolved"

(***************************************************************************)
(* A parsed item has its event and all the participants it publishes, also *)
(* when passes overlap or another item created the event before.           *)
(***************************************************************************)
ParsedEventIsKnown ==
  \A x \in EventItem : eventParse[x] = "parsed" =>
    /\ event[EventKeyOf(x)] # NoEvent
    /\ \A person \in RawOf[x].people :
         participant[build_participant_dedupe_key(EventKeyOf(x), person)] # NoParticipant

(***************************************************************************)
(* "Published participant reuse must be explicitly permitted; unknown and  *)
(* prohibited disable contact extraction and CRM export": so it is for     *)
(* every participant that an item published.                               *)
(***************************************************************************)
ReuseIsPermitted ==
  \A p \in ParticipantKey :
    p[1] # "manual" /\ participant[p] # NoParticipant /\ (participant[p].contact \/ participant[p].export)
      => participant[p].reuse = "allowed"

(***************************************************************************)
(* An event whose time is resolved has, until somebody edits it, the one   *)
(* instant at which its zone shows the published local time; a time the    *)
(* zone skips or shows twice is never resolved.                            *)
(***************************************************************************)
ResolvedTimeIsCertain ==
  \A x \in EventItem : RawOf[x].start.kind = "naive" /\ HintOf[x].kind = "zone" =>
    LET e == event[EventKeyOf(x)]
        meant == {u \in Instants : LocalTime(HintOf[x].zone, u) = RawOf[x].start.local}
    IN e # NoEvent /\ e.source = x /\ e.timezone = "resolved" /\ e.version = 1
         => e.starts # NoInstant /\ meant = {e.starts[1]}
=============================================================================
