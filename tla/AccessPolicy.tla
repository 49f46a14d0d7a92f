---------------------------- MODULE AccessPolicy ----------------------------
(***************************************************************************)
(* Who may do what (security/policy.py, operations.py, routing.py and      *)
(* perimeter.py): roles give permissions, a route has one classification,  *)
(* and a request is let through by the perimeter and then by its route.    *)
(***************************************************************************)
EXTENDS Naturals

Role == {"viewer", "analyst", "governance_reviewer", "administrator"}

BASELINE == {"session.self.read", "session.self.revoke", "profile.self.read",
             "canonical.read", "reporting.read"}
ANALYST == {"intelligence.write", "enrichment.write", "scoring.write", "watch.write",
            "crm.export", "sequence.write", "meeting.write", "assigned_work.write"}
GOVERNANCE == {"governance.read", "governance.annotate", "governance.decide",
               "governance.override", "suppression.write"}
ADMIN_ONLY == {"security.admin", "security.audit.read", "system.metrics.read",
               "system.docs.read"}

Permission == BASELINE \cup ANALYST \cup GOVERNANCE \cup ADMIN_ONLY

ROLE_PERMISSIONS ==
  [r \in Role |-> CASE r = "viewer" -> BASELINE
                    [] r = "analyst" -> BASELINE \cup ANALYST
                    [] r = "governance_reviewer" -> BASELINE \cup GOVERNANCE
                    [] r = "administrator" -> Permission]

\* Unknown roles of a provider give nothing, not even the baseline.
permissions_for_roles(roles) == UNION {ROLE_PERMISSIONS[r] : r \in roles \cap Role}

AssuranceLevel == {"aal1", "aal2_phishing_resistant", "workload"}

assurance_satisfies(actual, required) ==
  CASE required = "workload" -> actual = "workload"
    [] required = "aal2_phishing_resistant" -> actual = "aal2_phishing_resistant"
    [] OTHER -> actual # "workload"

\* maximumAge is a set: empty where a policy has no limit.
authorize(identity, permission, minimum, maximumAge, now) ==
  IF permission \notin identity.permissions THEN "permission_denied"
  ELSE IF ~assurance_satisfies(identity.assurance, minimum) THEN "step_up_required"
  ELSE IF \E age \in maximumAge : now > identity.authenticated_at + age
    THEN "recent_authentication_required"
  ELSE "allowed"
-----------------------------------------------------------------------------
(***************************************************************************)
(* The classification of a domain route.  A route is the family its name   *)
(* starts with, its method, whether its name is one of _READ_NAMES, and    *)
(* whether a review route decides (approve, reject, bulk_decision), and    *)
(* whether its path names a bulk operation or an export.                   *)
(***************************************************************************)
Family == {"reporting", "review", "suppression", "governance", "sequence", "meeting", "crm",
           "enrichment", "email", "score", "incident", "event", "system"}

DomainRoute == [family : Family, method : {"GET", "POST"}, read : BOOLEAN, decides : BOOLEAN,
                bulk : BOOLEAN]

OwnerOf(family) ==
  CASE family = "reporting" -> "reporting-service"
    [] family \in {"review", "suppression", "governance"} -> "governance-service"
    [] family = "sequence" -> "sequencing-service"
    [] family = "meeting" -> "meeting-handoff-service"
    [] family = "crm" -> "crm-service"
    [] family = "enrichment" -> "enrichment-service"
    [] family = "email" -> "email-intelligence-service"
    [] family = "score" -> "scoring-routing-service"
    [] family = "incident" -> "incident-intelligence-service"
    [] family \in {"event", "system"} -> "event-intelligence-service"

WriteOf(family) ==
  CASE family = "sequence" -> "sequence.write"
    [] family = "meeting" -> "meeting.write"
    [] family = "crm" -> "crm.export"
    [] family \in {"enrichment", "email"} -> "enrichment.write"
    [] family = "score" -> "scoring.write"
    [] OTHER -> "intelligence.write"

PermissionOf(route) ==
  IF route.family = "reporting" THEN "reporting.read"
  ELSE IF route.family \in {"review", "suppression", "governance"}
    THEN IF route.method = "GET" THEN "governance.read"
         ELSE IF route.family = "governance" \/ route.decides THEN "governance.decide"
         ELSE "governance.annotate"
  ELSE IF route.family # "score" /\ route.read THEN "canonical.read"
  ELSE WriteOf(route.family)

Privileged == {"governance.decide", "governance.override", "security.admin"}

\* Mutant: the route is privileged by its method instead of its permission.
classify_by_method(route, recent) ==
  LET permission == PermissionOf(route)
  IN [operation |-> route, owner |-> OwnerOf(route.family), permission |-> permission,
      assurance |-> "aal1", audit |-> route.method # "GET", csrf |-> route.method # "GET",
      rate |-> IF route.method = "GET" THEN "read" ELSE "mutation",
      callers |-> {"gateway-service", "console-service"}, age |-> {}]

\* recent: maximum_authentication_age_seconds, 900 seconds for a privileged operation
classify_domain_operation(route, recent) ==
  LET permission == PermissionOf(route)
      privileged == permission \in Privileged
  IN [operation |-> route, owner |-> OwnerOf(route.family), permission |-> permission,
      assurance |-> IF privileged THEN "aal2_phishing_resistant" ELSE "aal1",
      audit |-> route.method # "GET" \/ privileged, csrf |-> route.method # "GET",
      rate |-> IF route.method = "GET" THEN "read" ELSE "mutation",
      callers |-> {"gateway-service", "console-service"},
      age |-> IF privileged THEN {recent} ELSE {}]

\* SecurityRoute.secured up to the handler, for an identity that is there.
RouteDecision(identity, policy, now) ==
  IF identity.calling_service # "" /\ identity.calling_service \notin policy.callers
    THEN "caller_not_allowed"
  ELSE IF identity.calling_service # "" /\ identity.obo # {} /\ policy.operation \notin identity.obo
    THEN "operation_binding_denied"
  ELSE authorize(identity, policy.permission, policy.assurance, policy.age, now)
-----------------------------------------------------------------------------
(***************************************************************************)
(* What the perimeter looks at in a request, each as a fact about it, in   *)
(* the order of the checks; a strict runtime makes the later ones.         *)
(***************************************************************************)
Perimeter ==
  [headers_fit : BOOLEAN, query_fits : BOOLEAN, one_length : BOOLEAN, body_fits : BOOLEAN,
   identity_header : BOOLEAN, origin_allowed : BOOLEAN, plain_json : BOOLEAN, tls : BOOLEAN]

PerimeterDecision(facts, method, strict, requireTls) ==
  IF ~facts.headers_fit THEN "headers_too_large"
  ELSE IF ~facts.query_fits THEN "query_too_large"
  ELSE IF ~facts.one_length THEN "invalid_content_length"
  ELSE IF ~facts.body_fits THEN "body_too_large"
  ELSE IF facts.identity_header THEN "reserved_identity_header"
  ELSE IF strict /\ ~facts.origin_allowed THEN "origin_denied"
  ELSE IF strict /\ method # "GET" /\ ~facts.plain_json THEN "json_required"
  ELSE IF strict /\ requireTls /\ ~facts.tls THEN "tls_required"
  ELSE "allowed"
=============================================================================
