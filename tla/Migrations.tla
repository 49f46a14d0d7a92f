------------------------------ MODULE Migrations ----------------------------
(***************************************************************************)
(* The database schema under its migrations (migrations/versions, env.py). *)
(* A revision is the sequence of what its upgrade and its downgrade ask of *)
(* PostgreSQL; each of these may be refused (a table another one refers    *)
(* to is not dropped, a column is not dropped under a policy that reads    *)
(* it, a constraint is not added over rows that break it), and one refusal *)
(* rolls back the whole run of alembic.  A schema is its tables, who       *)
(* refers to whom, the columns and keys that a later revision changes, and *)
(* the row-security of each table.  Indexes and column types are left out. *)
(***************************************************************************)
EXTENDS Naturals, Sequences, SequencesExt

VARIABLES
  schema,
  revision,     \* alembic_version: 0 before the first
  rows,         \* what the data holds that a downgrade can stumble over
  failed,       \* the last run was refused
  draft         \* the run in its transaction: what it has made, where it is, where it goes

mvars == <<schema, revision, rows, failed, draft>>

Empty == [tables |-> {}, refs |-> {}, columns |-> {}, keys |-> {}, security |-> {}]
-----------------------------------------------------------------------------
(* What a revision may ask for, of one table or of several in a loop       *)
Asked(op, tables, names) == [op |-> op, tables |-> tables, names |-> names]

Create(t, refs) == Asked("create", {t}, refs)
Drop(t) == Asked("drop", {t}, {})
AddColumns(t, columns) == Asked("add", {t}, columns)
RemoveColumns(t, columns) == Asked("remove", {t}, columns)
AddKey(t, key) == Asked("key", {t}, {key})
DropKey(t, key) == Asked("unkey", {t}, {key})
Refer(t, to) == Asked("refer", {t}, {to})
Unrefer(t, to) == Asked("unrefer", {t}, {to})
Require(t, column) == Asked("require", {t}, {column})
Secure(tables, feature) == Asked("secure", tables, {feature})
Unsecure(tables, feature) == Asked("unsecure", tables, {feature})

DropAll(tables) == [i \in DOMAIN tables |-> Drop(tables[i])]
Without(pairs, tables) == {p \in pairs : p[1] \notin tables}

\* What PostgreSQL makes of it in a schema s over data d
Accepted(s, d, o) ==
  LET pairs == o.tables \X o.names
  IN CASE o.op = "create" -> o.tables \cap s.tables = {} /\ o.names \subseteq s.tables
       [] o.op = "drop" ->
            o.tables \subseteq s.tables /\ \A r \in s.refs : r[2] \in o.tables => r[1] = r[2]
       [] o.op = "add" -> o.tables \subseteq s.tables /\ pairs \cap s.columns = {}
       [] o.op = "remove" ->
            /\ pairs \subseteq s.columns
            /\ "security_classification" \in o.names =>
                 \A t \in o.tables : <<t, "scope policies">> \notin s.security
       [] o.op = "key" ->
            o.tables \subseteq s.tables /\ ~(o.names = {"step_order"} /\ "second version" \in d)
       [] o.op = "unkey" -> pairs \subseteq s.keys
       [] o.op = "refer" -> o.tables \cup o.names \subseteq s.tables
       [] o.op = "unrefer" -> pairs \subseteq s.refs
       [] o.op = "require" -> o.tables \subseteq s.tables /\ "step without template" \notin d
       [] o.op \in {"secure", "unsecure"} -> o.tables \subseteq s.tables

Made(s, o) ==
  LET pairs == o.tables \X o.names
  IN CASE o.op = "create" -> [s EXCEPT !.tables = @ \cup o.tables, !.refs = @ \cup pairs]
       [] o.op = "drop" ->
            [tables |-> s.tables \ o.tables, refs |-> Without(s.refs, o.tables),
             columns |-> Without(s.columns, o.tables), keys |-> Without(s.keys, o.tables),
             security |-> Without(s.security, o.tables)]
       [] o.op = "add" -> [s EXCEPT !.columns = @ \cup pairs]
       [] o.op = "remove" -> [s EXCEPT !.columns = @ \ pairs]
       [] o.op = "key" -> [s EXCEPT !.keys = @ \cup pairs]
       [] o.op = "unkey" -> [s EXCEPT !.keys = @ \ pairs]
       [] o.op = "refer" -> [s EXCEPT !.refs = @ \cup pairs]
       [] o.op = "unrefer" -> [s EXCEPT !.refs = @ \ pairs]
       [] o.op = "require" -> s
       [] o.op = "secure" -> [s EXCEPT !.security = @ \cup pairs]
       [] o.op = "unsecure" -> [s EXCEPT !.security = @ \ pairs]
-----------------------------------------------------------------------------
Up0001 ==
  <<Create("accounts", {}), Create("contacts", {"accounts"}),
    Create("leads", {"accounts", "contacts"}), Create("signals", {"accounts", "contacts"}),
    Create("email_candidates", {"contacts"}), AddColumns("email_candidates", {"confidence"}),
    Create("suppressions", {}), Create("audit_events", {}), Create("outbox_events", {})>>
Down0001 ==
  DropAll(<<"outbox_events", "audit_events", "suppressions", "email_candidates", "signals", "leads",
         "contacts", "accounts">>)

Up0002 == <<Create("source_definitions", {}), Create("raw_source_items", {"source_definitions"})>>
Down0002 == <<Drop("raw_source_items"), Drop("source_definitions")>>

\* Also seeds the event sources, and its downgrade deletes them.
Up0003 ==
  <<Create("cyber_events", {"source_definitions"}),
    Create("event_participants", {"cyber_events", "source_definitions", "raw_source_items"})>>
Down0003 == <<Drop("event_participants"), Drop("cyber_events")>>

Up0004 ==
  <<Create("news_articles", {"source_definitions"}),
    Create("security_incidents", {"source_definitions"}),
    Create("security_incident_evidence",
           {"security_incidents", "news_articles", "raw_source_items"}),
    Create("watch_targets", {"security_incidents"})>>
Down0004 ==
  <<Drop("watch_targets"), Drop("security_incident_evidence"), Drop("security_incidents"),
    Drop("news_articles")>>

ContactColumns ==
  {"source_definition_id", "source_item_ids", "origin_type", "origin_id",
   "source_policy_snapshot", "review_status", "review_reason", "idempotency_key", "version"}
add_contact_columns ==
  <<AddColumns("contacts", ContactColumns), Refer("contacts", "source_definitions"),
    AddKey("contacts", "idempotency_key")>>
drop_contact_columns ==
  <<DropKey("contacts", "idempotency_key"), Unrefer("contacts", "source_definitions"),
    RemoveColumns("contacts", ContactColumns)>>

EmailCandidateColumns ==
  {"verification_checked_at", "source_definition_id", "source_item_ids", "origin_type",
   "origin_id", "policy_snapshot", "review_status", "review_reason", "idempotency_key", "version"}
add_email_candidate_columns ==
  <<AddColumns("email_candidates", EmailCandidateColumns),
    Refer("email_candidates", "source_definitions"),
    AddKey("email_candidates", "idempotency_key")>>
drop_email_candidate_columns ==
  <<DropKey("email_candidates", "idempotency_key"),
    Unrefer("email_candidates", "source_definitions"),
    RemoveColumns("email_candidates", EmailCandidateColumns)>>

Up0005 ==
  <<Create("entity_resolution_cases", {"accounts", "source_definitions"}),
    Create("contact_enrichment_candidates",
           {"entity_resolution_cases", "accounts", "contacts", "source_definitions"}),
    Create("organization_email_patterns", {"accounts"}),
    Create("review_candidates", {"source_definitions"})>>
  \o add_contact_columns \o add_email_candidate_columns
Down0005 ==
  drop_email_candidate_columns \o drop_contact_columns
  \o <<Drop("review_candidates"), Drop("organization_email_patterns"),
       Drop("contact_enrichment_candidates"), Drop("entity_resolution_cases")>>

ReviewColumns == {"policy_snapshot_hash", "sla_due_at"}
SuppressionColumns ==
  {"contact_id", "target_type", "target_id", "expires_at", "policy_snapshot", "idempotency_key"}
add_suppression_columns ==
  <<AddColumns("suppressions", SuppressionColumns), AddKey("suppressions", "idempotency_key")>>
drop_suppression_columns ==
  <<DropKey("suppressions", "idempotency_key"), RemoveColumns("suppressions", SuppressionColumns)>>

Up0006 ==
  <<AddColumns("review_candidates", ReviewColumns)>> \o add_suppression_columns
  \o <<AddColumns("security_incidents", {"version"}),
       Create("candidate_scores", {"source_definitions"}),
       Create("review_decisions", {"review_candidates"}),
       Create("crm_targets", {"review_candidates", "review_decisions", "source_definitions"})>>
Down0006 ==
  <<Drop("crm_targets"), Drop("review_decisions"), Drop("candidate_scores"),
    RemoveColumns("security_incidents", {"version"})>>
  \o drop_suppression_columns \o <<RemoveColumns("review_candidates", ReviewColumns)>>

Up0007 ==
  <<Create("crm_export_batches", {}),
    Create("crm_export_items", {"crm_export_batches", "crm_targets"})>>
Down0007 == <<Drop("crm_export_items"), Drop("crm_export_batches")>>

Up0008 ==
  <<Create("sequences", {}), Create("sequence_steps", {"sequences"}),
    AddKey("sequence_steps", "step_order"),
    Create("sequence_enrollments", {"sequences", "crm_targets", "contacts", "accounts"}),
    Create("outbound_emails", {"sequence_enrollments", "sequence_steps", "contacts"}),
    Create("inbound_email_events", {"sequence_enrollments", "outbound_emails"}),
    Create("sequence_suppression_events",
           {"sequence_enrollments", "suppressions", "inbound_email_events"})>>
Down0008 ==
  DropAll(<<"sequence_suppression_events", "inbound_email_events", "outbound_emails",
         "sequence_enrollments", "sequence_steps", "sequences">>)

Up0009 ==
  <<Create("meeting_handoffs", {"crm_targets", "sequence_enrollments", "accounts", "contacts"}),
    Create("meeting_prep_packets", {"meeting_handoffs"}),
    Create("meeting_follow_up_tasks", {"meeting_handoffs"})>>
Down0009 ==
  <<Drop("meeting_follow_up_tasks"), Drop("meeting_prep_packets"), Drop("meeting_handoffs")>>

Up0010 == <<RemoveColumns("email_candidates", {"confidence"})>>
Down0010 == <<AddColumns("email_candidates", {"confidence"})>>

Up0011 == <<Create("sequence_email_alerts", {"sequence_enrollments"})>>
Down0011 == <<Drop("sequence_email_alerts")>>

EventColumns ==
  {"street_address", "postcode", "latitude", "longitude", "geocode_status", "geocode_provider",
   "geocode_display_name", "geocoded_at", "version"}
IncidentColumns ==
  {"incident_group_key", "primary_affected_company", "primary_affected_domain", "evidence_urls"}
Up0012 ==
  <<AddColumns("cyber_events", EventColumns), AddColumns("security_incidents", IncidentColumns)>>
Down0012 ==
  <<RemoveColumns("security_incidents", IncidentColumns),
    RemoveColumns("cyber_events", EventColumns)>>

WatchColumns ==
  {"monitoring_status", "last_monitored_at", "next_monitoring_at", "monitoring_error",
   "monitoring_summary"}
Up0013 ==
  <<AddColumns("watch_targets", WatchColumns),
    Create("watch_target_monitoring_runs", {"watch_targets"})>>
Down0013 == <<Drop("watch_target_monitoring_runs"), RemoveColumns("watch_targets", WatchColumns)>>

Up0014 ==
  <<DropKey("sequence_steps", "step_order"), AddColumns("sequences", {"definition_version"}),
    AddColumns("sequence_steps", {"definition_version", "requires_approval", "step_metadata"}),
    AddColumns("sequence_enrollments", {"definition_version"}),
    AddKey("sequence_steps", "definition_version, step_order"),
    Create("sequence_step_activities",
           {"sequence_enrollments", "sequence_steps", "outbound_emails", "meeting_handoffs"})>>
\* Mutant: forgets that a step's order was unique.
Down0014Keyless ==
  <<Drop("sequence_step_activities"), DropKey("sequence_steps", "definition_version, step_order"),
    Require("sequence_steps", "body_template"), Require("sequence_steps", "subject_template"),
    RemoveColumns("sequence_enrollments", {"definition_version"}),
    RemoveColumns("sequence_steps", {"step_metadata", "requires_approval", "definition_version"}),
    RemoveColumns("sequences", {"definition_version"})>>
Down0014 ==
  <<Drop("sequence_step_activities"), DropKey("sequence_steps", "definition_version, step_order"),
    Require("sequence_steps", "body_template"), Require("sequence_steps", "subject_template"),
    RemoveColumns("sequence_enrollments", {"definition_version"}),
    RemoveColumns("sequence_steps", {"step_metadata", "requires_approval", "definition_version"}),
    RemoveColumns("sequences", {"definition_version"}), AddKey("sequence_steps", "step_order")>>

AuditColumns ==
  {"human_subject", "service_subject", "on_behalf_of_subject", "identity_type", "operation",
   "permission", "decision", "denial_category", "assurance", "policy_version",
   "mapping_version", "environment", "request_id", "correlation_id", "network_metadata",
   "integrity_hmac"}
Up0015 ==
  <<Create("security_principals", {}), Create("security_role_bindings", {"security_principals"}),
    Create("security_sessions", {"security_principals"}),
    Create("security_emergency_grants", {"security_principals"}),
    Create("security_replay_markers", {}), Create("security_policy_versions", {}),
    AddColumns("audit_events", AuditColumns), Secure({"security_principals"}, "self policy"),
    Secure({"security_sessions"}, "self policy"), Secure({"audit_events"}, "reader policy")>>
Down0015 ==
  <<Unsecure({"audit_events"}, "reader policy"), Unsecure({"security_sessions"}, "self policy"),
    Unsecure({"security_principals"}, "self policy"), RemoveColumns("audit_events", AuditColumns)>>
  \o DropAll(<<"security_policy_versions", "security_replay_markers", "security_emergency_grants",
            "security_sessions", "security_role_bindings", "security_principals">>)

PROTECTED ==
  {"accounts", "audit_events", "candidate_scores", "contact_enrichment_candidates", "contacts",
    "crm_export_batches", "crm_export_items", "crm_targets", "email_candidates",
    "entity_resolution_cases", "event_participants", "inbound_email_events", "leads",
    "meeting_follow_up_tasks", "meeting_handoffs", "meeting_prep_packets", "news_articles",
    "outbound_emails", "outbox_events", "raw_source_items", "review_candidates",
    "review_decisions", "security_emergency_grants", "security_incident_evidence",
    "security_incidents", "security_policy_versions", "security_principals",
    "security_replay_markers", "security_role_bindings", "security_sessions",
    "sequence_email_alerts", "sequence_enrollments", "sequence_step_activities",
    "sequence_steps", "sequence_suppression_events", "sequences", "signals",
    "source_definitions", "suppressions", "watch_target_monitoring_runs", "watch_targets"}

Classification == {"security_classification", "scope_policy_version"}
Owned == {"accounts", "security_incidents", "watch_targets", "sequences", "meeting_handoffs"}
Assigned == {"review_candidates", "crm_targets", "meeting_follow_up_tasks"}
Worked ==
  {"raw_source_items", "outbox_events", "watch_target_monitoring_runs", "crm_export_items",
   "sequence_step_activities"}
Up0016 ==
  <<AddColumns("security_sessions", {"provider_roles"}), Asked("add", PROTECTED, Classification),
    Asked("add", Owned, {"owner_subject"}), Asked("add", Assigned, {"assignee_subject"}),
    Asked("add", Worked, {"owning_workload"})>>
Down0016 ==
  <<Asked("remove", Worked, {"owning_workload"}), Asked("remove", Assigned, {"assignee_subject"}),
    Asked("remove", Owned, {"owner_subject"}), Asked("remove", PROTECTED, Classification),
    RemoveColumns("security_sessions", {"provider_roles"})>>

\* The roles and their grants are left out.
Up0017 == <<Secure(PROTECTED, "scope policies")>>
Down0017 == <<Unsecure(PROTECTED, "scope policies")>>

Up0018 == <<Secure(PROTECTED, "enabled")>>
Down0018 == <<Unsecure(PROTECTED, "enabled")>>

Up0019 == <<Secure(PROTECTED, "forced")>>
Down0019 == <<Unsecure(PROTECTED, "forced")>>

Ups == <<Up0001, Up0002, Up0003, Up0004, Up0005, Up0006, Up0007, Up0008, Up0009, Up0010, Up0011,
         Up0012, Up0013, Up0014, Up0015, Up0016, Up0017, Up0018, Up0019>>
Downs == <<Down0001, Down0002, Down0003, Down0004, Down0005, Down0006, Down0007, Down0008,
           Down0009, Down0010, Down0011, Down0012, Down0013, Down0014, Down0015, Down0016,
           Down0017, Down0018, Down0019>>
-----------------------------------------------------------------------------
\* A statement of a revision, after the ones before it
Statement(got, d, o) ==
  IF got.ok /\ Accepted(got.schema, d, o)
  THEN [ok |-> TRUE, schema |-> Made(got.schema, o)]
  ELSE [ok |-> FALSE, schema |-> got.schema]

Execute(s, d, script) ==
  FoldLeft(LAMBDA got, o : Statement(got, d, o), [ok |-> TRUE, schema |-> s], script)

MigrationsInit ==
  schema = Empty /\ revision = 0 /\ rows = {} /\ failed = FALSE /\ draft = <<>>

\* do_run_migrations: one transaction for all the revisions up or down to a target
Begin(to) ==
  /\ draft = <<>>
  /\ to # revision
  /\ draft' = <<[schema |-> schema, at |-> revision, to |-> to]>>
  /\ UNCHANGED <<schema, revision, rows, failed>>

Run(script, at) ==
  LET got == Execute(draft[1].schema, rows, script)
  IN /\ IF got.ok
        THEN draft' = <<[draft[1] EXCEPT !.schema = got.schema, !.at = at]>> /\ failed' = FALSE
        ELSE draft' = <<>> /\ failed' = TRUE
     /\ UNCHANGED <<schema, revision, rows>>

Upgrade == draft # <<>> /\ draft[1].at < draft[1].to /\ Run(Ups[draft[1].at + 1], draft[1].at + 1)
Downgrade == draft # <<>> /\ draft[1].at > draft[1].to /\ Run(Downs[draft[1].at], draft[1].at - 1)

CommitMigration ==
  /\ draft # <<>>
  /\ draft[1].at = draft[1].to
  /\ schema' = draft[1].schema
  /\ revision' = draft[1].to
  /\ draft' = <<>>
  /\ UNCHANGED <<rows, failed>>

\* The connection is lost; nothing of the run remains.
MigrationDies == draft # <<>> /\ draft' = <<>> /\ UNCHANGED <<schema, revision, rows, failed>>

\* Between runs the application writes a step that sends no e-mail, or edits a definition in use.
SequencesAreEdited(row) ==
  /\ draft = <<>>
  /\ <<"sequence_steps", "definition_version">> \in schema.columns
  /\ rows' = rows \cup {row}
  /\ UNCHANGED <<schema, revision, failed, draft>>

MigrationsNext ==
  \/ \E to \in 0..Len(Ups) : Begin(to)
  \/ Upgrade \/ Downgrade \/ CommitMigration \/ MigrationDies
  \/ \E row \in {"step without template", "second version"} : SequencesAreEdited(row)

MigrationsSpec == MigrationsInit /\ [][MigrationsNext]_mvars
-----------------------------------------------------------------------------
\* Wherever a run of alembic stands, the downgrade of its last revision followed by the upgrade
\* gives back the schema it had: each downgrade undoes its upgrade, and nothing else.  Only
\* data has a migration refused, never the order of its statements: no table is dropped before
\* those that refer to it, no column under a policy (0014_sequence_activities.py:159).
DowngradeUndoes ==
  /\ \A d \in Range(draft) : d.at > 0 =>
       LET down == Execute(d.schema, {}, Downs[d.at])
       IN down.ok /\ Execute(down.schema, {}, Ups[d.at]) = [ok |-> TRUE, schema |-> d.schema]
  /\ failed => rows # {}
=============================================================================
