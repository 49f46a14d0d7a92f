------------------------------- MODULE Gateway ------------------------------
(***************************************************************************)
(* A request through a strict runtime (security/perimeter.py,              *)
(* authentication.py, rate_limit.py, routing.py, proxy.py, workload.py):   *)
(* perimeter, identity, rate limit and route policy of the gateway, then   *)
(* a service token and an on-behalf-of (OBO) token to the owning service,  *)
(* which resolves them, limits the rate and applies the policy again       *)
(* before its handler runs.  The clock may move and Redis may fail and     *)
(* come back between any two of these.                                     *)
(***************************************************************************)
EXTENDS AccessPolicy, Tokens

CONSTANTS
  Request,
  Routes,       \* the domain routes requests may name
  Arriving,     \* what the perimeter may find in a request
  Visitors,     \* the identities sessions resolve to (module Identity)
  Limit,        \* requests one subject may make in one window, of every class
  Window,       \* 60 seconds
  RecentAge,    \* 900 seconds
  OboLifetime,  \* 45 seconds
  ClockSkew,    \* 30 seconds
  MaxMoment,    \* bound: the clock
  MaxOutages    \* bound: failures of Redis

ASSUME GatewayAssumption ==
  /\ Routes \subseteq DomainRoute
  /\ Arriving \subseteq Perimeter
  /\ {Limit, Window, RecentAge, OboLifetime, ClockSkew, MaxMoment, MaxOutages} \subseteq Nat
  /\ Window > 0
  /\ \A v \in Visitors : v.authenticated_at \in Nat

VARIABLES
  inflight,     \* what each request is doing
  counters,     \* Redis: requests counted per class, subject and window
  fallback,     \* the same in the memory of the gateway, while Redis is away
  redisUp,
  outages,
  moment,
  passed        \* history: requests let through by the limit, per class, subject and window

gvars == <<inflight, counters, fallback, redisUp, outages, moment, passed>>

Bucket == 0..(MaxMoment \div Window)
RateClass == {"read", "mutation", "bulk", "owner"}
Subjects == {v.subject : v \in Visitors}
Zero == [k \in RateClass \X Subjects \X Bucket |-> 0]
NotSent == [at |-> "none"]

GatewayInit ==
  /\ inflight = [r \in Request |-> NotSent]
  /\ counters = Zero
  /\ fallback = Zero
  /\ redisUp = TRUE
  /\ outages = 0
  /\ moment = 0
  /\ passed = Zero

MomentPasses ==
  /\ moment < MaxMoment
  /\ moment' = moment + 1
  /\ UNCHANGED <<inflight, counters, fallback, redisUp, outages, passed>>

RedisFails ==
  /\ redisUp
  /\ outages < MaxOutages
  /\ redisUp' = FALSE
  /\ outages' = outages + 1
  /\ UNCHANGED <<inflight, counters, fallback, moment, passed>>

RedisReturns ==
  /\ ~redisUp
  /\ redisUp' = TRUE
  /\ UNCHANGED <<inflight, counters, fallback, outages, moment, passed>>

Refuse(r, code) == inflight' = [inflight EXCEPT ![r] = [at |-> "refused", code |-> code]]

\* SecurityPerimeterMiddleware, then IdentityMiddleware: no session, no identity
Arrive(r) ==
  /\ inflight[r] = NotSent
  /\ \E route \in Routes, facts \in Arriving :
       LET code == PerimeterDecision(facts, route.method, TRUE, TRUE)
       IN IF code # "allowed" THEN Refuse(r, code)
          ELSE \/ Refuse(r, "authentication_required")
               \/ \E v \in Visitors :
                    inflight' = [inflight EXCEPT ![r] =
                                   [at |-> "limit", route |-> route, visitor |-> v]]
  /\ UNCHANGED <<counters, fallback, redisUp, outages, moment, passed>>

Policy(r) == classify_domain_operation(inflight[r].route, RecentAge)

\* _classify; the limits of the classes differ only in their number.
Classify(route, service) ==
  IF route.bulk THEN "bulk"
  ELSE IF service # "gateway-service" THEN "owner"
  ELSE IF route.method = "GET" THEN "read" ELSE "mutation"

\* Mutant: every class falls back to the counter in memory.
FailOpen(class) == FALSE

FailClosed(class) == class # "read"

BucketNow == moment \div Window
KeyOf(class, subject) == <<class, subject, BucketNow>>

\* DistributedRateLimitMiddleware.dispatch: counted in Redis, or in memory for a class that
\* may go on without it
Limited(r, class, subject, next) ==
  LET key == KeyOf(class, subject)
      Count(counter) ==
        IF counter[key] + 1 > Limit
        THEN Refuse(r, "rate_limit_exceeded") /\ UNCHANGED passed
        ELSE next /\ passed' = [passed EXCEPT ![key] = @ + 1]
  IN \/ /\ redisUp
        /\ counters' = [counters EXCEPT ![key] = @ + 1]
        /\ Count(counters)
        /\ UNCHANGED fallback
     \/ /\ ~redisUp /\ FailClosed(class)
        /\ Refuse(r, "rate_limit_unavailable")
        /\ UNCHANGED <<counters, fallback, passed>>
     \/ /\ ~redisUp /\ ~FailClosed(class)
        /\ fallback' = [fallback EXCEPT ![key] = @ + 1]
        /\ Count(fallback)
        /\ UNCHANGED counters

GatewayLimits(r) ==
  /\ inflight[r].at = "limit"
  /\ Limited(r, Classify(inflight[r].route, "gateway-service"), inflight[r].visitor.subject,
             inflight' = [inflight EXCEPT ![r].at = "route"])
  /\ UNCHANGED <<redisUp, outages, moment>>

Visiting(v) ==
  [permissions |-> permissions_for_roles(v.roles), assurance |-> v.assurance,
   authenticated_at |-> v.authenticated_at, calling_service |-> "", obo |-> {}]

\* The claims of obo_token, signed for the owner and bound to the operation
Envelope(r) ==
  [token |-> Signed("ghostrecon-obo+jwt", "gateway-service", "kid", Policy(r).owner,
                    Policy(r).operation, moment, OboLifetime, r),
   subject |-> inflight[r].visitor.subject,
   permissions |-> permissions_for_roles(inflight[r].visitor.roles),
   assurance |-> inflight[r].visitor.assurance,
   authenticated_at |-> inflight[r].visitor.authenticated_at]

\* SecurityRoute at the gateway, then forward_to_owner
GatewayRoutes(r) ==
  /\ inflight[r].at = "route"
  /\ LET code == RouteDecision(Visiting(inflight[r].visitor), Policy(r), moment)
     IN IF code # "allowed" THEN Refuse(r, code)
        ELSE inflight' = [inflight EXCEPT ![r] =
               [at |-> "sent", route |-> @.route, visitor |-> @.visitor, envelope |-> Envelope(r)]]
  /\ UNCHANGED <<counters, fallback, redisUp, outages, moment, passed>>

OwnerUnavailable(r) ==
  /\ inflight[r].at = "sent"
  /\ Refuse(r, "owner_unavailable")
  /\ UNCHANGED <<counters, fallback, redisUp, outages, moment, passed>>

\* WorkloadVerifier.resolve at the owner.  The identifier of every token is fresh, so the
\* replay detector finds it unused; it has to reach Redis to say so.
OwnerResolves(r) ==
  /\ inflight[r].at = "sent"
  /\ IF redisUp /\ verify_eddsa(inflight[r].envelope.token, {"kid"}, "ghostrecon-obo+jwt",
                                "gateway-service", Policy(r).owner, OboLifetime, ClockSkew, moment)
     THEN inflight' = [inflight EXCEPT ![r].at = "owner limit"]
     ELSE Refuse(r, "invalid_authentication")
  /\ UNCHANGED <<counters, fallback, redisUp, outages, moment, passed>>

OwnerLimits(r) ==
  /\ inflight[r].at = "owner limit"
  /\ Limited(r, Classify(inflight[r].route, Policy(r).owner), inflight[r].visitor.subject,
             inflight' = [inflight EXCEPT ![r].at = "owner route"])
  /\ UNCHANGED <<redisUp, outages, moment>>

Represented(e) ==
  [permissions |-> e.permissions, assurance |-> e.assurance,
   authenticated_at |-> e.authenticated_at, calling_service |-> "gateway-service",
   obo |-> {e.token.binding}]

\* The routers that serve a route (ROUTERS): the service map is the gateway's alone.
Serves(service, route) == route.family # "system" \/ service = "gateway-service"

\* SecurityRoute at the owner, then the handler
OwnerServes(r) ==
  /\ inflight[r].at = "owner route"
  /\ LET code == RouteDecision(Represented(inflight[r].envelope), Policy(r), moment)
     IN IF ~Serves(Policy(r).owner, inflight[r].route) THEN Refuse(r, "not_found")
        ELSE IF code # "allowed" THEN Refuse(r, code)
        ELSE inflight' = [inflight EXCEPT ![r] =
               [at |-> "served", route |-> @.route, visitor |-> @.visitor, when |-> moment]]
  /\ UNCHANGED <<counters, fallback, redisUp, outages, moment, passed>>

GatewayNext ==
  \/ MomentPasses
  \/ RedisFails
  \/ RedisReturns
  \/ \E r \in Request :
       \/ Arrive(r)
       \/ GatewayLimits(r)
       \/ GatewayRoutes(r)
       \/ OwnerUnavailable(r)
       \/ OwnerResolves(r)
       \/ OwnerLimits(r)
       \/ OwnerServes(r)

GatewaySpec == GatewayInit /\ [][GatewayNext]_gvars
-----------------------------------------------------------------------------
\* Counters are numbers, and what the limit lets through was counted.
GatewayTypeOK ==
  /\ moment \in 0..MaxMoment
  /\ \A k \in DOMAIN passed : passed[k] <= counters[k] + fallback[k]

\* A handler of an owner runs only for someone who has the permission, and a decision of
\* governance only with strong and recent authentication at that moment, however long the
\* request was on its way (routing.py:70, operations.py:442).
ServedIsAuthorized ==
  \A r \in Request : inflight[r].at = "served" =>
    LET v == inflight[r].visitor
        permission == PermissionOf(inflight[r].route)
    IN /\ permission \in permissions_for_roles(v.roles)
       /\ permission \in Privileged =>
            /\ v.assurance = "aal2_phishing_resistant"
            /\ inflight[r].when <= v.authenticated_at + RecentAge

\* Nobody makes more than Limit changes in a window, whether Redis is there or not; reads may
\* be counted twice, once in Redis and once in memory (rate_limit.py:58).
RateIsBounded ==
  \A k \in DOMAIN passed : passed[k] <= IF k[1] = "read" THEN 2 * Limit ELSE Limit
=============================================================================
