---------------------------- MODULE Configuration ---------------------------
(***************************************************************************)
(* What a service may start with (common/configuration.py, config.py,      *)
(* preflight.py, service.py) and what its handlers build from the same     *)
(* settings later (the factories of the adapters).  A setting is good,     *)
(* missing, a placeholder, or bad in the way its kind can be: default      *)
(* credentials, an unsafe URL, an example address, a malformed or weak     *)
(* key, an agent that identifies nobody, an insecure switch.               *)
(***************************************************************************)
EXTENDS FiniteSets

CONSTANTS
  SettingsTried     \* the settings a deployment may come with

VARIABLES
  service,          \* the service of this process (get_settings is read once)
  settings,
  running,
  adapter           \* what the last handler that asked for an adapter got

configvars == <<service, settings, running, adapter>>

RuntimeProfile == {"local", "test", "staging", "production"}

ServiceName ==
  {"gateway-service", "event-intelligence-service", "incident-intelligence-service",
   "enrichment-service", "email-intelligence-service", "crm-service", "sequencing-service",
   "meeting-handoff-service", "scoring-routing-service", "governance-service",
   "reporting-service", "ingestion-service", "console-service", "worker", "scheduler",
   "migration-job"}

\* The capabilities with a provider setting, and the kinds of provider: the live one, a
\* demonstration (or fake) one where there is one, and none
Capability == {"geocoder", "search", "news", "verifier", "crm", "calendar", "smtp", "imap"}
Provider == [c \in Capability |->
  IF c \in {"verifier", "smtp", "imap"} THEN {"live", "disabled"} ELSE {"live", "demo", "disabled"}]

CredentialsOf ==
  [c \in Capability |->
     CASE c = "news" -> {"serpapi_api_key"}
       [] c = "crm" -> {"attio_access_token"}
       [] c = "calendar" -> {"google_calendar_id", "google_client_email", "google_private_key"}
       [] c = "smtp" -> {"smtp_host", "smtp_username", "smtp_password", "smtp_from_address"}
       [] c = "imap" -> {"imap_host", "imap_username", "imap_password"}
       [] OTHER -> {}]

UrlsOf ==
  [c \in Capability |->
     CASE c = "crm" -> {"attio_base_url"}
       [] c = "geocoder" -> {"nominatim_base_url"}
       [] c = "news" -> {"serpapi_base_url"}
       [] c = "search" -> {"openserp_base_url"}
       [] c = "verifier" -> {"email_verifier_url"}
       [] OTHER -> {}]

WorkloadNames ==
  {"service_identity", "service_private_key_path", "service_private_key_id",
   "service_trust_bundle_path"}
GatewayNames ==
  {"oidc_issuer", "oidc_client_id", "oidc_redirect_uri", "oidc_post_logout_redirect_uri",
   "session_hmac_key", "oidc_transaction_encryption_key"}
Keys == {"session_hmac_key", "oidc_transaction_encryption_key", "audit_hmac_key"}
GatewaySwitches ==
  {"authentication_backend", "secure_cookies", "allowed_cors_origins", "trusted_proxy_cidrs"}
Addresses == {"google_client_email", "smtp_from_address", "smtp_username", "imap_username"}

Setting ==
  UNION {CredentialsOf[c] \cup UrlsOf[c] : c \in Capability}
    \cup WorkloadNames \cup GatewayNames \cup Keys \cup GatewaySwitches
    \cup {"database_url", "redis_url", "gateway_base_url", "nominatim_user_agent",
          "crawl_user_agent", "docs_enabled"}

strict_runtime(s) == s.profile \in {"staging", "production"}
-----------------------------------------------------------------------------
SERVICE_REQUIREMENTS ==
  [s \in ServiceName |->
     CASE s = "gateway-service" -> {"database_url", "redis_url"}
       [] s = "event-intelligence-service" -> {"database_url", "geocoder"}
       [] s = "incident-intelligence-service" -> {"database_url", "news"}
       [] s = "enrichment-service" -> {"database_url", "search", "verifier", "crawl_user_agent"}
       [] s = "email-intelligence-service" -> {"database_url", "verifier"}
       [] s = "crm-service" -> {"database_url", "crm"}
       [] s = "sequencing-service" -> {"database_url", "crm", "smtp", "imap", "calendar"}
       [] s = "meeting-handoff-service" -> {"database_url", "crm", "calendar"}
       [] s = "console-service" -> {"gateway_base_url"}
       [] s = "worker" -> {"database_url", "redis_url", "crawl_user_agent"} \cup Capability
       [] s = "scheduler" -> {"redis_url"}
       [] OTHER -> {"database_url"}]

requirements_for(name) == SERVICE_REQUIREMENTS[name]

Required(name) == requirements_for(name) \cap Capability

\* The providers and the credentials of the capabilities a service needs
ProviderIssues(s, name) ==
  {<<c, "non_live_provider">> : c \in {d \in Required(name) : s.provider[d] # "live"}}
  \cup {<<n, "missing_credential">> :
          n \in {m \in UNION {CredentialsOf[c] : c \in Required(name)} : s.value[m] = "missing"}}
  \cup {<<n, "placeholder">> :
          n \in {m \in UNION {CredentialsOf[c] : c \in Required(name)} :
                   s.value[m] = "placeholder"}}
  \cup {<<n, "bad">> :
          n \in {m \in UNION {(CredentialsOf[c] \cap (Addresses \cup {"google_private_key"}))
                                \cup UrlsOf[c] : c \in Required(name)} : s.value[m] = "bad"}}

\* The connections and agents
ConnectionIssues(s, name) ==
  {<<n, s.value[n]>> : n \in {m \in requirements_for(name) \ Capability : s.value[m] # "good"}}
  \cup {<<n, "non_identifying_user_agent">> :
          n \in {m \in {"nominatim_user_agent"} :
                   "geocoder" \in Required(name) /\ s.value[m] # "good"}}

\* Sign-in, workload credentials and keys
SecurityIssues(s, name) ==
  LET gateway == name = "gateway-service"
      named == (IF name # "migration-job" THEN WorkloadNames ELSE {})
                 \cup (IF "database_url" \in requirements_for(name) THEN {"audit_hmac_key"} ELSE {})
                 \cup (IF gateway THEN GatewayNames ELSE {})
  IN {<<n, "missing_security_configuration">> : n \in {m \in named : s.value[m] = "missing"}}
     \cup {<<n, "bad">> :
             n \in {m \in (IF gateway THEN GatewaySwitches
                             \cup {"oidc_issuer", "oidc_redirect_uri",
                                   "oidc_post_logout_redirect_uri"}
                           ELSE {}) : s.value[m] = "bad"}}
     \cup {<<n, "weak_key">> : n \in {m \in Keys : s.value[m] = "bad"}}
     \cup {<<n, "strict_docs_enabled">> : n \in {m \in {"docs_enabled"} : s.value[m] = "bad"}}

\* Mutant: only the providers are looked at, not what they need.
validate_providers_only(s, name) ==
  IF ~strict_runtime(s) THEN {}
  ELSE {<<c, "non_live_provider">> : c \in {d \in Required(name) : s.provider[d] # "live"}}

validate_configuration(s, name) ==
  IF ~strict_runtime(s) THEN {}
  ELSE ProviderIssues(s, name) \cup ConnectionIssues(s, name) \cup SecurityIssues(s, name)

-----------------------------------------------------------------------------
\* assert_adapter_allowed: by the name of the adapter and of its provider
assert_adapter_allowed(s, kind) == ~strict_runtime(s) \/ kind = "live"

Built(s, kind) == IF assert_adapter_allowed(s, kind) THEN kind ELSE "refused"

\* The live adapters that refuse to be made without what they need
GoogleCalendarClient(s) ==
  IF \E n \in CredentialsOf["calendar"] : s.value[n] = "missing" THEN "error" ELSE "live"
AttioCrmClient(s) == IF s.value["attio_access_token"] = "missing" THEN "error" ELSE "live"
StdlibSmtpSender(s) == IF s.value["smtp_host"] = "missing" THEN "error" ELSE "live"
StdlibImapPoller(s) == IF s.value["imap_host"] = "missing" THEN "error" ELSE "live"
\* Without its key it is made, and every search finds nothing.
SerpApiGoogleNewsProvider(s) == IF s.value["serpapi_api_key"] = "missing" THEN "mute" ELSE "live"

crm_client_for_settings(s) ==
  CASE s.provider["crm"] = "live" -> Built(s, AttioCrmClient(s))
    [] s.provider["crm"] = "demo" -> Built(s, "demo")
    [] OTHER -> "error"

calendar_client_for_settings(s) ==
  CASE s.provider["calendar"] = "live" -> Built(s, GoogleCalendarClient(s))
    [] s.provider["calendar"] = "demo" -> Built(s, "demo")
    [] OTHER -> "error"

geocoder_for_settings(s) == Built(s, s.provider["geocoder"])
search_provider_for_settings(s) == Built(s, s.provider["search"])
news_provider_for_settings(s) ==
  IF s.provider["news"] = "live" THEN SerpApiGoogleNewsProvider(s)
  ELSE Built(s, s.provider["news"])

Adapter(s, c) ==
  CASE c = "crm" -> crm_client_for_settings(s)
    [] c = "calendar" -> calendar_client_for_settings(s)
    [] c = "geocoder" -> geocoder_for_settings(s)
    [] c = "search" -> search_provider_for_settings(s)
    [] c = "news" -> news_provider_for_settings(s)
    [] c = "smtp" -> StdlibSmtpSender(s)
    [] c = "imap" -> StdlibImapPoller(s)
    [] c = "verifier" -> "live"

\* The capabilities the handlers on the router of a service, and the tasks of the worker, ask for
Uses(name) ==
  CASE name = "event-intelligence-service" -> {"geocoder"}
    [] name = "incident-intelligence-service" -> {"news"}
    [] name = "enrichment-service" -> {"search", "verifier"}
    [] name = "email-intelligence-service" -> {"verifier"}
    [] name = "crm-service" -> {"crm"}
    [] name = "sequencing-service" -> {"crm", "smtp", "imap"}
    [] name = "meeting-handoff-service" -> {"crm", "calendar"}
    [] name = "worker" -> {"news", "verifier", "crm", "smtp", "imap"}
    [] OTHER -> {}
-----------------------------------------------------------------------------
ConfigInit ==
  /\ service \in ServiceName
  /\ settings \in SettingsTried
  /\ running = FALSE
  /\ adapter = "none"

\* require_valid_configuration, in build_app and create_base_app and at the worker's import
Start ==
  /\ ~running
  /\ validate_configuration(settings, service) = {}
  /\ running' = TRUE
  /\ UNCHANGED <<service, settings, adapter>>

HandlerAsks(c) ==
  /\ running
  /\ c \in Uses(service)
  /\ adapter' = Adapter(settings, c)
  /\ UNCHANGED <<service, settings, running>>

ConfigNext == Start \/ \E c \in Capability : HandlerAsks(c)

ConfigSpec == ConfigInit /\ [][ConfigNext]_configvars
-----------------------------------------------------------------------------
\* A service of a strict runtime that started gets a live adapter whenever a handler asks for
\* one: validation at the start leaves nothing for the factories to refuse, to fail on or to
\* answer with an adapter that finds nothing (configuration.py:159, 350).
StartedIsEquipped == strict_runtime(settings) => adapter \in {"none", "live"}
=============================================================================
