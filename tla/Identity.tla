------------------------------ MODULE Identity ------------------------------
(***************************************************************************)
(* Sign-in and sessions of the gateway (security/repositories.py,          *)
(* transactions.py, service_apps/routers/auth.py).  A login is started,    *)
(* comes back as a callback that consumes it, exchanges its code, reads    *)
(* the principal, stores a session and revokes the session it replaces,    *)
(* each in a transaction of its own.  A request is admitted by resolve,    *)
(* which locks its session, and then runs its handler.  An administrator   *)
(* changes a principal under a row lock.                                   *)
(*                                                                         *)
(* Secrets, digests and cookies are left out: a request names the session  *)
(* or the login whose secret it holds.  The policy version of a principal  *)
(* never changes, sessions are never remembered.                           *)
(***************************************************************************)
EXTENDS AccessPolicy, Rows, FiniteSets

CONSTANTS
  Subject,      \* principals, all provisioned: a callback creates none
  Login,        \* states of login transactions
  SessionId,
  Caller,       \* requests that run at the same time
  Claims,       \* what the provider may answer: subject, roles, assurance
  Grants,       \* the sets of roles an administrator gives
  Idle,         \* session_idle_seconds
  Absolute,     \* session_absolute_seconds
  Recent,       \* the 900 seconds of _require_admin
  LoginTtl,     \* oidc_transaction_ttl_seconds
  MaxTime,      \* bound: the clock
  MaxChanges    \* bound: changes of one principal

ASSUME IdentityAssumption ==
  /\ {Idle, Absolute, Recent, LoginTtl, MaxTime, MaxChanges} \subseteq Nat
  /\ Grants \subseteq SUBSET Role
  /\ \A claims \in Claims : claims.subject \in Subject

VARIABLES
  principals,   \* security_principals with their security_role_bindings
  sessions,     \* security_sessions
  logins,       \* the login transactions in Redis, by state
  requests,     \* what each caller's request is doing
  clock,
  changed       \* history: how often each principal has been changed

idvars == <<principals, sessions, logins, requests, clock, changed>>
-----------------------------------------------------------------------------
(* Rows *)

SecurityPrincipal ==
  [disabled : BOOLEAN, ceiling : Grants, bindings : Grants, version : 0..MaxChanges]

\* granted, replaces and delivered are history: how often the owner had been changed when the
\* callback read it, the session this one replaces, and whether its cookie has been sent.
SecuritySession(s) ==
  [status |-> "session", owner |-> s.owner, assurance |-> s.assurance,
   authenticated_at |-> s.authenticated_at, provider_roles |-> s.provider_roles,
   idle_expires_at |-> s.idle, absolute_expires_at |-> s.absolute, revoked |-> FALSE,
   version |-> s.version, login |-> s.login, granted |-> s.granted,
   replaces |-> s.replaces, delivered |-> FALSE]

Quiet == [op |-> "none"]
NoLogin == [status |-> "unused"]

IdentityInit ==
  /\ principals \in [Subject -> {[disabled |-> FALSE, ceiling |-> g, bindings |-> g,
                                  version |-> 0] : g \in Grants}]
  /\ sessions = [s \in SessionId |-> Absent]
  /\ logins = [l \in Login |-> NoLogin]
  /\ requests = [c \in Caller |-> Quiet]
  /\ clock = 0
  /\ changed = [p \in Subject |-> 0]

Answered(c) == requests' = [requests EXCEPT ![c] = Quiet]

Tick ==
  /\ clock < MaxTime
  /\ clock' = clock + 1
  /\ UNCHANGED <<principals, sessions, logins, requests, changed>>
-----------------------------------------------------------------------------
(* Logins *)

\* OIDCTransactionRepository.put: the state is new and so is its browser binding.
Put(l, purpose, replaces) ==
  /\ logins[l] = NoLogin
  /\ logins' = [logins EXCEPT ![l] =
       [status |-> "open", purpose |-> purpose, replaces |-> replaces,
        expires |-> clock + LoginTtl]]

\* GET /auth/login: public, so no identity is known and no session is replaced
login ==
  \E l \in Login :
    /\ Put(l, "login", {})
    /\ UNCHANGED <<principals, sessions, requests, clock, changed>>

\* The script reads, compares and deletes at once.
Consume(l) ==
  /\ logins[l].status = "open"
  /\ logins[l].expires > clock
  /\ logins' = [logins EXCEPT ![l] = [status |-> "consumed"]]

CallbackConsumes(c) ==
  \E l \in Login :
    /\ requests[c] = Quiet
    /\ Consume(l)
    /\ requests' = [requests EXCEPT ![c] =
         [op |-> "exchange", login |-> l, replaces |-> logins[l].replaces]]
    /\ UNCHANGED <<principals, sessions, clock, changed>>

\* The provider answers with claims, or the exchange fails and the callback is rejected.
CallbackExchanges(c) ==
  /\ requests[c].op = "exchange"
  /\ \/ \E claims \in Claims :
          requests' = [requests EXCEPT ![c] =
            [op |-> "provision", login |-> @.login, replaces |-> @.replaces,
             claims |-> claims, at |-> clock]]
     \/ Answered(c)
  /\ UNCHANGED <<principals, sessions, logins, clock, changed>>

provision_from_claims(c) ==
  LET r == requests[c]
      p == principals[r.claims.subject]
  IN /\ r.op = "provision"
     /\ IF p.disabled THEN Answered(c)
        ELSE requests' = [requests EXCEPT ![c] =
               [op |-> "store", login |-> r.login, replaces |-> r.replaces,
                claims |-> r.claims, at |-> r.at, version |-> p.version,
                granted |-> changed[r.claims.subject]]]
     /\ UNCHANGED <<principals, sessions, logins, clock, changed>>

SessionRow(r, version) ==
  SecuritySession(
    [owner |-> r.claims.subject, assurance |-> r.claims.assurance, authenticated_at |-> r.at,
     provider_roles |-> r.claims.roles, idle |-> clock + Idle, absolute |-> clock + Absolute,
     version |-> version, login |-> r.login, granted |-> r.granted, replaces |-> r.replaces])

\* Mutant: the row carries the version the principal has when the session is stored.
NewSessionOfNow(r) == SessionRow(r, principals[r.claims.subject].version)

\* The row carries the version of the principal as provision_from_claims read it.
NewSession(r) == SessionRow(r, r.version)

create_session(c) ==
  /\ requests[c].op = "store"
  /\ \E s \in SessionId :
       /\ sessions[s] = Absent
       /\ sessions' = [sessions EXCEPT ![s] = NewSession(requests[c])]
       /\ requests' = [requests EXCEPT ![c] =
            [op |-> "rotate", session |-> s, replaces |-> requests[c].replaces]]
  /\ UNCHANGED <<principals, logins, clock, changed>>

Revoked(here) ==
  [s \in SessionId |-> IF s \in here /\ sessions[s] # Absent
                       THEN [sessions[s] EXCEPT !.revoked = TRUE] ELSE sessions[s]]

\* revoke of the session the login replaces, and the response with the new cookie
CallbackAnswers(c) ==
  /\ requests[c].op = "rotate"
  /\ LET r == requests[c]
     IN sessions' = [Revoked(r.replaces) EXCEPT ![r.session].delivered = TRUE]
  /\ Answered(c)
  /\ UNCHANGED <<principals, logins, clock, changed>>

\* The process dies, or an await raises what no handler expects.
CallbackDies(c) ==
  /\ requests[c].op \in {"provision", "store", "rotate"}
  /\ Answered(c)
  /\ UNCHANGED <<principals, sessions, logins, clock, changed>>
-----------------------------------------------------------------------------
(* Admission *)

Usable(s) ==
  LET p == principals[s.owner]
  IN /\ ~s.revoked
     /\ ~p.disabled
     /\ s.idle_expires_at > clock
     /\ s.absolute_expires_at > clock
     /\ s.version = p.version

Least(a, b) == IF a < b THEN a ELSE b

\* What resolve leaves of a usable session: it stays open for another idle period.
Seen(s) == [s EXCEPT !.idle_expires_at = Least(clock + Idle, s.absolute_expires_at)]

IdentityOf(id) ==
  LET s == sessions[id]
      p == principals[s.owner]
      roles == p.bindings \cap s.provider_roles \cap p.ceiling
  IN [subject |-> s.owner, session |-> id, roles |-> roles, assurance |-> s.assurance,
      authenticated_at |-> s.authenticated_at, permissions |-> permissions_for_roles(roles)]

\* A session that is no longer usable is revoked on sight.
resolve(c) ==
  /\ requests[c] = Quiet
  /\ \E id \in SessionId :
       LET s == sessions[id]
       IN /\ s # Absent
          /\ \/ /\ Usable(s)
                /\ sessions' = [sessions EXCEPT ![id] = Seen(s)]
                /\ requests' = [requests EXCEPT ![c] =
                                 [op |-> "admitted", identity |-> IdentityOf(id)]]
             \/ /\ ~Usable(s)
                /\ ~s.revoked
                /\ sessions' = Revoked({id})
                /\ UNCHANGED requests
  /\ UNCHANGED <<principals, logins, clock, changed>>
-----------------------------------------------------------------------------
(* Handlers *)

\* GET /auth/session and /auth/sessions, the lists of users, sessions and audit events
session_details(c) ==
  /\ requests[c].op = "admitted"
  /\ Answered(c)
  /\ UNCHANGED <<principals, sessions, logins, clock, changed>>

\* GET /auth/step-up and /auth/claims/refresh
step_up(c) ==
  /\ requests[c].op = "admitted"
  /\ \E l \in Login, purpose \in {"step_up", "claims_refresh"} :
       Put(l, purpose, {requests[c].identity.session})
  /\ Answered(c)
  /\ UNCHANGED <<principals, sessions, clock, changed>>

\* POST /auth/logout and DELETE /auth/sessions/{session_id}
logout(c) ==
  /\ requests[c].op = "admitted"
  /\ sessions' = Revoked({requests[c].identity.session})
  /\ Answered(c)
  /\ UNCHANGED <<principals, logins, clock, changed>>

SessionsOf(p) == {s \in SessionId : sessions[s] # Absent /\ sessions[s].owner = p}

logout_all(c) ==
  /\ requests[c].op = "admitted"
  /\ sessions' = Revoked(SessionsOf(requests[c].identity.subject))
  /\ Answered(c)
  /\ UNCHANGED <<principals, logins, clock, changed>>

require_admin(identity) ==
  authorize(identity, "security.admin", "aal2_phishing_resistant", {Recent}, clock) = "allowed"

security_user_sessions_revoke(c) ==
  /\ requests[c].op = "admitted"
  /\ require_admin(requests[c].identity)
  /\ \E p \in Subject : sessions' = Revoked(SessionsOf(p))
  /\ Answered(c)
  /\ UNCHANGED <<principals, logins, clock, changed>>

\* SELECT ... FOR UPDATE waits for the request that holds the row.
PrincipalIsFree(p) == \A c \in Caller : requests[c].op = "change" => requests[c].principal # p

\* PATCH /v1/security/users/{id}: the version the administrator was shown is still current
security_user_update(c) ==
  /\ requests[c].op = "admitted"
  /\ require_admin(requests[c].identity)
  /\ \E p \in Subject, disabled \in BOOLEAN, roles \in Grants :
       /\ PrincipalIsFree(p)
       /\ principals[p].version < MaxChanges
       /\ requests' = [requests EXCEPT ![c] =
            [op |-> "change", principal |-> p, disabled |-> disabled, roles |-> roles,
             version |-> principals[p].version]]
  /\ UNCHANGED <<principals, sessions, logins, clock, changed>>

\* The bindings are replaced and every open session is revoked in the same transaction.
update_principal(c) ==
  /\ requests[c].op = "change"
  /\ LET r == requests[c]
         p == r.principal
     IN /\ principals' = [principals EXCEPT ![p] =
             [disabled |-> r.disabled, ceiling |-> r.roles, bindings |-> r.roles,
              version |-> r.version + 1]]
        /\ sessions' = Revoked(SessionsOf(p))
        /\ changed' = [changed EXCEPT ![p] = @ + 1]
  /\ Answered(c)
  /\ UNCHANGED <<logins, clock>>

IdentityNext ==
  \/ Tick
  \/ login
  \/ \E c \in Caller :
       \/ CallbackConsumes(c)
       \/ CallbackExchanges(c)
       \/ provision_from_claims(c)
       \/ create_session(c)
       \/ CallbackAnswers(c)
       \/ CallbackDies(c)
       \/ resolve(c)
       \/ session_details(c)
       \/ step_up(c)
       \/ logout(c)
       \/ logout_all(c)
       \/ security_user_sessions_revoke(c)
       \/ security_user_update(c)
       \/ update_principal(c)

IdentitySpec == IdentityInit /\ [][IdentityNext]_idvars
-----------------------------------------------------------------------------
(* Properties *)

Stored == {s \in SessionId : sessions[s] # Absent}

\* Rows have their type, and no session outlives its absolute expiry: the idle period that
\* resolve grants again and again stays within it (repositories.py:191).
IdentityTypeOK ==
  /\ principals \in [Subject -> SecurityPrincipal]
  /\ clock \in 0..MaxTime
  /\ \A s \in Stored :
       /\ sessions[s].owner \in Subject
       /\ sessions[s].idle_expires_at <= sessions[s].absolute_expires_at

\* One login transaction ends in one session at most, whatever callbacks name it
\* (transactions.py:52).
LoginUsedOnce ==
  \A s, t \in Stored : sessions[s].login = sessions[t].login => s = t

\* A session that opens the door was granted by a principal that has not been changed since,
\* even if the change fell between the callback's two transactions (repositories.py:165).
AdmittedSinceChange ==
  [][\A c \in Caller :
        requests[c] = Quiet /\ requests'[c].op = "admitted" =>
          LET s == sessions[requests'[c].identity.session]
          IN s.granted = changed[s.owner]]_idvars

\* No change of a principal is lost under another one made from the same version
\* (repositories.py:279).
NoLostChange == \A p \in Subject : principals[p].version = changed[p]

\* Once the answer with the new session is on its way, the session it replaces is revoked
\* (auth.py:131).
RotatedIsRevoked ==
  \A s \in Stored : sessions[s].delivered =>
    \A t \in sessions[s].replaces : sessions[t].revoked
=============================================================================
