--------------------------- MODULE AccessProofs -----------------------------
(***************************************************************************)
(* Who is let in: proofs about signing in and the keys of tokens, the      *)
(* gateway, the delivery of signed tasks and the configuration of a        *)
(* service.                                                                *)
(***************************************************************************)
EXTENDS Identity, OidcClient, TaskDelivery, Gateway, Configuration, TLAPS
-----------------------------------------------------------------------------
(* Sign-in and sessions, for any number of principals, callers, logins and *)
(* sessions, any claims and any durations: no change of a principal is     *)
(* lost, and a session opens the door only while its owner has not been    *)
(* changed since the callback read it.                                     *)

(***************************************************************************)
(* The inductive invariant.  The version of a principal counts its         *)
(* changes, so what a callback and a session carry of it tells how often   *)
(* the owner had been changed; a change that is under way has the row lock *)
(* and still knows the present version.                                    *)
(***************************************************************************)
RequestOK(r) ==
  /\ r.op \in {"provision", "store"} => r.claims.subject \in Subject
  /\ r.op = "store" => r.granted = r.version
ChangeOK(r, rows) ==
  r.op = "change" => r.principal \in Subject /\ r.version = rows[r.principal].version
SessionOK(s) == s # Absent => s.owner \in Subject /\ s.granted = s.version

LocksHeldOnce ==
  \A c, d \in Caller :
    requests[c].op = "change" /\ requests[d].op = "change" /\ c # d
      => requests[c].principal # requests[d].principal

Domains ==
  /\ DOMAIN principals = Subject /\ changed \in [Subject -> Nat]
  /\ DOMAIN sessions = SessionId
  /\ DOMAIN requests = Caller

IdentityInv ==
  /\ Domains
  /\ NoLostChange
  /\ LocksHeldOnce
  /\ \A c \in Caller : RequestOK(requests[c]) /\ ChangeOK(requests[c], principals)
  /\ \A s \in SessionId : SessionOK(sessions[s])

\* It holds initially.
LEMMA IdentityInitial == IdentityInit => IdentityInv
<1>. SUFFICES ASSUME IdentityInit PROVE IdentityInv
  BY Zenon
<1>1. Domains /\ NoLostChange
  BY DEF IdentityInit, Domains, NoLostChange
<1>2. \A c \in Caller : requests[c].op = "none"
  BY Zenon DEF IdentityInit, Quiet
<1>3. QED
  BY <1>1, <1>2, Zenon DEF IdentityInit, IdentityInv, LocksHeldOnce, RequestOK, ChangeOK, SessionOK

\* A request becomes r, which asks for no change, and the principals stay as they are.
LEMMA RequestMoves ==
  ASSUME IdentityInv, NEW c \in Caller, NEW r,
         requests' = [requests EXCEPT ![c] = r],
         r.op # "change", RequestOK(r), UNCHANGED <<principals, changed>>,
         DOMAIN sessions' = SessionId, \A s \in SessionId : SessionOK(sessions'[s])
  PROVE  IdentityInv'
<1>. USE DEF IdentityInv, Domains
<1>1. requests'[c] = r /\ \A d \in Caller : d # c => requests'[d] = requests[d]
  BY Zenon
<1>2. Domains' /\ NoLostChange'
  BY Zenon DEF NoLostChange
<1>3. LocksHeldOnce'
  BY <1>1 DEF LocksHeldOnce
<1>4. \A d \in Caller : (RequestOK(requests[d]) /\ ChangeOK(requests[d], principals))'
  BY <1>1, Zenon DEF ChangeOK
<1>5. QED
  BY <1>2, <1>3, <1>4, Zenon

\* A request is answered.
LEMMA RequestEnds ==
  ASSUME IdentityInv, NEW c \in Caller, Answered(c), UNCHANGED <<principals, changed>>,
         DOMAIN sessions' = SessionId, \A s \in SessionId : SessionOK(sessions'[s])
  PROVE  IdentityInv'
<1>1. Quiet.op = "none" /\ RequestOK(Quiet)
  BY Zenon DEF Quiet, RequestOK
<1>2. QED
  BY <1>1, RequestMoves, Zenon DEF Answered

\* Revoking leaves the owner and the versions of a session alone.
LEMMA RevokedOK ==
  ASSUME IdentityInv, NEW here
  PROVE  DOMAIN Revoked(here) = SessionId /\ \A s \in SessionId : SessionOK(Revoked(here)[s])
  BY DEF Revoked, IdentityInv, SessionOK

\* The callback up to the new session.
LEMMA CallbackStep ==
  ASSUME IdentityInv, NEW c \in Caller,
         \/ CallbackConsumes(c) \/ CallbackExchanges(c) \/ provision_from_claims(c)
         \/ create_session(c)
  PROVE  IdentityInv'
<1>0. DOMAIN sessions = SessionId /\ \A s \in SessionId : SessionOK(sessions[s])
  BY Zenon DEF IdentityInv, Domains
<1>1. CASE CallbackConsumes(c)
  <2>1. PICK l \in Login :
          requests' = [requests EXCEPT ![c] =
            [op |-> "exchange", login |-> l, replaces |-> logins[l].replaces]]
    BY <1>1, Zenon DEF CallbackConsumes
  <2>. DEFINE r == [op |-> "exchange", login |-> l, replaces |-> logins[l].replaces]
  <2>2. r.op = "exchange" /\ RequestOK(r)
    BY Zenon DEF RequestOK
  <2>3. UNCHANGED <<principals, sessions, changed>>
    BY <1>1, Zenon DEF CallbackConsumes
  <2>4. QED
    BY <1>0, <2>1, <2>2, <2>3, RequestMoves, Zenon
<1>2. CASE CallbackExchanges(c)
  <2>1. UNCHANGED <<principals, sessions, changed>>
    BY <1>2, Zenon DEF CallbackExchanges
  <2>2. CASE Answered(c)
    BY <1>0, <2>1, <2>2, RequestEnds, Zenon
  <2>3. ASSUME NEW claims \in Claims,
               requests' = [requests EXCEPT ![c] =
                 [op |-> "provision", login |-> @.login, replaces |-> @.replaces,
                  claims |-> claims, at |-> clock]]
        PROVE  IdentityInv'
    <3>. DEFINE r == [op |-> "provision", login |-> requests[c].login,
                      replaces |-> requests[c].replaces, claims |-> claims, at |-> clock]
    <3>1. r.op = "provision" /\ RequestOK(r)
      BY IdentityAssumption, Zenon DEF RequestOK
    <3>2. requests' = [requests EXCEPT ![c] = r]
      BY <2>3, Zenon
    <3>3. QED
      BY <1>0, <2>1, <3>1, <3>2, RequestMoves, Zenon
  <2>4. QED
    BY <1>2, <2>2, <2>3, Zenon DEF CallbackExchanges
<1>3. CASE provision_from_claims(c)
  <2>. DEFINE q == requests[c]
              p == principals[q.claims.subject]
              r == [op |-> "store", login |-> q.login, replaces |-> q.replaces,
                    claims |-> q.claims, at |-> q.at, version |-> p.version,
                    granted |-> changed[q.claims.subject]]
  <2>1. UNCHANGED <<principals, sessions, changed>> /\ q.op = "provision"
    BY <1>3, Zenon DEF provision_from_claims
  <2>2. q.claims.subject \in Subject
    BY <2>1, Zenon DEF IdentityInv, RequestOK
  <2>3. r.op = "store" /\ RequestOK(r)
    BY <2>2, Zenon DEF RequestOK, IdentityInv, NoLostChange
  <2>4. Answered(c) \/ requests' = [requests EXCEPT ![c] = r]
    BY <1>3, Zenon DEF provision_from_claims
  <2>5. CASE Answered(c)
    BY <1>0, <2>1, <2>5, RequestEnds, Zenon
  <2>6. CASE requests' = [requests EXCEPT ![c] = r]
    BY <1>0, <2>1, <2>3, <2>6, RequestMoves, Zenon
  <2>7. QED
    BY <2>4, <2>5, <2>6, Zenon
<1>4. CASE create_session(c)
  <2>1. PICK s \in SessionId :
          /\ sessions' = [sessions EXCEPT ![s] = NewSession(requests[c])]
          /\ requests' = [requests EXCEPT ![c] =
               [op |-> "rotate", session |-> s, replaces |-> requests[c].replaces]]
    BY <1>4, Zenon DEF create_session
  <2>. DEFINE r == [op |-> "rotate", session |-> s, replaces |-> requests[c].replaces]
  <2>2. r.op = "rotate" /\ RequestOK(r)
    BY Zenon DEF RequestOK
  <2>3. UNCHANGED <<principals, changed>> /\ requests[c].op = "store"
    BY <1>4, Zenon DEF create_session
  <2>4. RequestOK(requests[c])
    BY Zenon DEF IdentityInv
  <2>5. SessionOK(NewSession(requests[c]))
    BY <2>3, <2>4, Zenon DEF RequestOK, SessionOK, NewSession, SessionRow, SecuritySession
  <2>6. DOMAIN sessions' = SessionId /\ \A t \in SessionId : SessionOK(sessions'[t])
    BY <1>0, <2>1, <2>5, Zenon
  <2>7. QED
    BY <2>1, <2>2, <2>3, <2>6, RequestMoves, Zenon
<1>5. QED
  BY <1>1, <1>2, <1>3, <1>4, Zenon

\* The end of a callback, and every handler that only reads, revokes or starts a login.
LEMMA AnswerStep ==
  ASSUME IdentityInv, NEW c \in Caller,
         \/ CallbackAnswers(c) \/ CallbackDies(c) \/ session_details(c) \/ step_up(c)
         \/ logout(c) \/ logout_all(c) \/ security_user_sessions_revoke(c)
  PROVE  IdentityInv'
<1>0. DOMAIN sessions = SessionId /\ \A s \in SessionId : SessionOK(sessions[s])
  BY Zenon DEF IdentityInv, Domains
<1>1. Answered(c) /\ UNCHANGED <<principals, changed>>
  BY Zenon DEF CallbackAnswers, CallbackDies, session_details, step_up, logout, logout_all,
         security_user_sessions_revoke
<1>2. CASE CallbackAnswers(c)
  <2>. DEFINE r == requests[c]
              R == Revoked(r.replaces)
  <2>1. sessions' = [R EXCEPT ![r.session].delivered = TRUE]
    BY <1>2, Zenon DEF CallbackAnswers
  <2>2. DOMAIN R = SessionId /\ \A s \in SessionId : SessionOK(R[s])
    BY RevokedOK, Zenon
  <2>. HIDE DEF R
  <2>3. DOMAIN sessions' = SessionId
    BY <2>1, <2>2, Zenon
  <2>4. ASSUME NEW s \in SessionId
        PROVE  SessionOK(sessions'[s])
    <3>1. sessions'[s] = R[s] \/ sessions'[s] = [R[s] EXCEPT !.delivered = TRUE]
      BY <2>1, <2>2, Zenon
    <3>2. [Absent EXCEPT !.delivered = TRUE] = Absent
      BY Zenon DEF Absent
    <3>3. R[s] # Absent => SessionOK([R[s] EXCEPT !.delivered = TRUE])
      BY <2>2 DEF SessionOK
    <3>4. QED
      BY <2>2, <3>1, <3>2, <3>3, Zenon DEF SessionOK
  <2>5. QED
    BY <1>1, <2>3, <2>4, RequestEnds, Zenon
<1>3. CASE sessions' = sessions
  BY <1>0, <1>1, <1>3, RequestEnds, Zenon
<1>4. ASSUME NEW here, sessions' = Revoked(here)
      PROVE  IdentityInv'
  BY <1>1, <1>4, RevokedOK, RequestEnds, Zenon
<1>5. QED
  BY <1>2, <1>3, <1>4, Zenon DEF CallbackDies, session_details, step_up, logout, logout_all,
                          security_user_sessions_revoke

\* resolve extends a usable session or revokes another one.
LEMMA ResolveStep ==
  ASSUME IdentityInv, NEW c \in Caller, resolve(c)
  PROVE  IdentityInv'
<1>0. DOMAIN sessions = SessionId /\ \A s \in SessionId : SessionOK(sessions[s])
  BY Zenon DEF IdentityInv, Domains
<1>1. UNCHANGED <<principals, changed>>
  BY Zenon DEF resolve
<1>2. PICK id \in SessionId :
        /\ sessions[id] # Absent
        /\ \/ /\ sessions' = [sessions EXCEPT ![id] = Seen(sessions[id])]
              /\ requests' = [requests EXCEPT ![c] =
                               [op |-> "admitted", identity |-> IdentityOf(id)]]
           \/ sessions' = Revoked({id}) /\ UNCHANGED requests
  BY Zenon DEF resolve
<1>3. CASE /\ sessions' = [sessions EXCEPT ![id] = Seen(sessions[id])]
           /\ requests' = [requests EXCEPT ![c] =
                            [op |-> "admitted", identity |-> IdentityOf(id)]]
  <2>1. SessionOK(Seen(sessions[id]))
    BY <1>0, <1>2 DEF SessionOK, Seen
  <2>2. DOMAIN sessions' = SessionId /\ \A s \in SessionId : SessionOK(sessions'[s])
    BY <1>0, <1>3, <2>1, Zenon
  <2>. DEFINE r == [op |-> "admitted", identity |-> IdentityOf(id)]
  <2>3. r.op = "admitted" /\ RequestOK(r)
    BY Zenon DEF RequestOK
  <2>4. QED
    BY <1>1, <1>3, <2>2, <2>3, RequestMoves, Zenon
<1>4. CASE sessions' = Revoked({id}) /\ UNCHANGED requests
  <2>1. DOMAIN sessions' = SessionId /\ \A s \in SessionId : SessionOK(sessions'[s])
    BY <1>4, RevokedOK, Zenon
  <2>2. QED
    BY <1>1, <1>4, <2>1, ZenonT(60) DEF IdentityInv, Domains, NoLostChange, LocksHeldOnce
<1>5. QED
  BY <1>2, <1>3, <1>4, Zenon

\* An administrator takes the lock of a principal nobody else changes.
LEMMA LockStep ==
  ASSUME IdentityInv, NEW c \in Caller, security_user_update(c)
  PROVE  IdentityInv'
<1>. USE DEF IdentityInv, Domains
<1>1. PICK p \in Subject, disabled \in BOOLEAN, roles \in Grants :
        /\ PrincipalIsFree(p)
        /\ requests' = [requests EXCEPT ![c] =
             [op |-> "change", principal |-> p, disabled |-> disabled, roles |-> roles,
              version |-> principals[p].version]]
  BY ZenonT(60) DEF security_user_update
<1>. DEFINE r == [op |-> "change", principal |-> p, disabled |-> disabled, roles |-> roles,
                  version |-> principals[p].version]
<1>2. UNCHANGED <<principals, sessions, changed>>
  BY Zenon DEF security_user_update
<1>3. r.op = "change" /\ r.principal = p /\ RequestOK(r) /\ ChangeOK(r, principals)
  BY Zenon DEF RequestOK, ChangeOK
<1>. HIDE DEF r
<1>4. requests'[c] = r /\ \A d \in Caller : d # c => requests'[d] = requests[d]
  BY <1>1, Zenon DEF r
<1>5. LocksHeldOnce'
  BY <1>1, <1>3, <1>4, SMTT(60) DEF LocksHeldOnce, PrincipalIsFree
<1>6. (Domains /\ NoLostChange)'
  BY <1>1, <1>2, Zenon DEF NoLostChange
<1>7. \A d \in Caller : (RequestOK(requests[d]) /\ ChangeOK(requests[d], principals))'
  BY <1>2, <1>3, <1>4, Zenon
<1>8. QED
  BY <1>2, <1>5, <1>6, <1>7, Zenon

\* The change is written: its version was the present one, and only it had the lock.
LEMMA ChangeStep ==
  ASSUME IdentityInv, NEW c \in Caller, update_principal(c)
  PROVE  IdentityInv'
<1>. USE DEF IdentityInv, Domains
<1>. DEFINE q == requests[c]
            p == q.principal
            row == [disabled |-> q.disabled, ceiling |-> q.roles, bindings |-> q.roles,
                    version |-> q.version + 1]
<1>1. /\ q.op = "change"
      /\ principals' = [principals EXCEPT ![p] = row]
      /\ changed' = [changed EXCEPT ![p] = changed[p] + 1]
      /\ sessions' = Revoked(SessionsOf(p))
      /\ requests' = [requests EXCEPT ![c] = Quiet]
  BY Zenon DEF update_principal, Answered
<1>2. p \in Subject /\ q.version = principals[p].version
  BY <1>1, Zenon DEF ChangeOK
<1>3. q.version = changed[p]
  BY <1>2, Zenon DEF NoLostChange
<1>4. principals'[p].version = changed'[p]
  BY <1>1, <1>2, <1>3, Zenon
<1>5. \A o \in Subject : o # p => principals'[o] = principals[o] /\ changed'[o] = changed[o]
  BY <1>1, Zenon
<1>6. (Domains /\ NoLostChange)'
  <2>1. DOMAIN sessions' = SessionId
    BY <1>1, RevokedOK, Zenon
  <2>2. changed' \in [Subject -> Nat]
    BY <1>1, <1>2
  <2>3. QED
    BY <1>1, <1>4, <1>5, <2>1, <2>2, Zenon DEF NoLostChange
<1>7. requests'[c].op = "none" /\ \A d \in Caller : d # c => requests'[d] = requests[d]
  BY <1>1, Zenon DEF Quiet
<1>8. LocksHeldOnce'
  BY <1>7 DEF LocksHeldOnce
<1>9. ASSUME NEW d \in Caller
      PROVE  (RequestOK(requests[d]) /\ ChangeOK(requests[d], principals))'
  <2>1. CASE d = c
    BY <1>7, <2>1, Zenon DEF RequestOK, ChangeOK
  <2>2. CASE d # c
    <3>1. requests[d].op = "change" => requests[d].principal \in Subject \ {p}
      BY <1>1, <2>2, Zenon DEF LocksHeldOnce, ChangeOK
    <3>2. QED
      BY <1>5, <1>7, <2>2, <3>1 DEF ChangeOK
  <2>3. QED
    BY <2>1, <2>2, Zenon
<1>10. \A s \in SessionId : SessionOK(sessions'[s])
  BY <1>1, RevokedOK, Zenon
<1>11. QED
  BY <1>6, <1>8, <1>9, <1>10, Zenon

\* Every step keeps the invariant.
LEMMA IdentityStep == IdentityInv /\ [IdentityNext]_idvars => IdentityInv'
<1>. SUFFICES ASSUME IdentityInv, [IdentityNext]_idvars PROVE IdentityInv'
  BY Zenon
<1>1. CASE Tick \/ login \/ UNCHANGED idvars
  BY <1>1 DEF Tick, login, idvars, IdentityInv, Domains, NoLostChange, LocksHeldOnce
<1>2. QED
  BY <1>1, CallbackStep, AnswerStep, ResolveStep, LockStep, ChangeStep, Zenon DEF IdentityNext

(***************************************************************************)
(* No change of a principal is lost under another one: the second waits    *)
(* for the row and reads what the first wrote (repositories.py:267-307).   *)
(***************************************************************************)
THEOREM NoChangeIsLost == IdentitySpec => []NoLostChange
<1>1. IdentityInv => NoLostChange
  BY Zenon DEF IdentityInv
<1>2. QED
  BY <1>1, IdentityInitial, IdentityStep, PTL DEF IdentitySpec

(***************************************************************************)
(* A session admits a request only if its owner has not been changed since *)
(* the callback that made it read the owner, wherever the change fell      *)
(* between the callback's transactions (repositories.py:165).              *)
(***************************************************************************)
THEOREM AdmittedSinceLastChange == IdentitySpec => AdmittedSinceChange
<1>1. ASSUME IdentityInv, [IdentityNext]_idvars, NEW c \in Caller,
             requests[c] = Quiet, requests'[c].op = "admitted"
      PROVE  LET s == sessions[requests'[c].identity.session]
             IN s.granted = changed[s.owner]
  <2>. USE <1>1
  <2>0. requests[c].op = "none" /\ DOMAIN requests = Caller
    BY DEF Quiet, IdentityInv, Domains
  <2>1. resolve(c)
    <3>1. ASSUME NEW d \in Caller,
                 \/ CallbackConsumes(d) \/ CallbackExchanges(d) \/ provision_from_claims(d)
                 \/ create_session(d) \/ CallbackAnswers(d) \/ CallbackDies(d)
                 \/ session_details(d) \/ step_up(d) \/ logout(d) \/ logout_all(d)
                 \/ security_user_sessions_revoke(d) \/ security_user_update(d)
                 \/ update_principal(d)
          PROVE  FALSE
      <4>1. CASE d # c
        BY <2>0, <3>1, <4>1, ZenonT(60)
           DEF CallbackConsumes, CallbackExchanges, provision_from_claims, create_session,
               CallbackAnswers, CallbackDies, session_details, step_up, logout, logout_all,
               security_user_sessions_revoke, security_user_update, update_principal, Answered
      <4>2. CASE d = c
        BY <2>0, <3>1, <4>2
           DEF CallbackConsumes, CallbackExchanges, provision_from_claims, create_session,
               CallbackAnswers, CallbackDies, session_details, step_up, logout, logout_all,
               security_user_sessions_revoke, security_user_update, update_principal
      <4>3. QED
        BY <4>1, <4>2, SMTT(60)
    <3>2. ~(Tick \/ login \/ UNCHANGED idvars)
      BY <2>0 DEF Tick, login, idvars
    <3>3. ASSUME NEW d \in Caller, resolve(d), d # c
          PROVE  FALSE
      BY <2>0, <3>3, Zenon DEF resolve
    <3>4. QED
      BY <3>1, <3>2, <3>3 DEF IdentityNext
  <2>2. PICK id \in SessionId :
          /\ sessions[id] # Absent
          /\ Usable(sessions[id])
          /\ requests' = [requests EXCEPT ![c] =
                           [op |-> "admitted", identity |-> IdentityOf(id)]]
    BY <2>0, <2>1, Zenon DEF resolve
  <2>3. requests'[c].identity.session = id
    BY <2>0, <2>2, Zenon DEF IdentityOf
  <2>4. SessionOK(sessions[id])
    BY Zenon DEF IdentityInv
  <2>5. QED
    BY <2>2, <2>3, <2>4 DEF SessionOK, Usable, IdentityInv, NoLostChange
<1>2. IdentityInv /\ [IdentityNext]_idvars =>
        [\A c \in Caller :
           requests[c] = Quiet /\ requests'[c].op = "admitted" =>
             LET s == sessions[requests'[c].identity.session]
             IN s.granted = changed[s.owner]]_idvars
  BY <1>1
<1>3. QED
  BY <1>2, IdentityInitial, IdentityStep, PTL DEF IdentitySpec, AdmittedSinceChange
-----------------------------------------------------------------------------
(***************************************************************************)
(* One session per login.  A login that is consumed stays so, at most one  *)
(* callback has it in hand and, once its session is stored, none: another  *)
(* session of the same login cannot come.  The session to be replaced is   *)
(* stored from the moment the login is put until the callback revokes it.  *)
(***************************************************************************)
WithLogin == {"exchange", "provision", "store"}

CallbackOK(r, ls, ss) ==
  /\ r.op \in WithLogin =>
       /\ r.login \in Login /\ ls[r.login].status = "consumed"
       /\ \A s \in SessionId : ss[s] # Absent => ss[s].login # r.login
       /\ \A t \in r.replaces : t \in SessionId /\ ss[t] # Absent
  /\ r.op = "rotate" =>
       /\ r.session \in SessionId /\ ss[r.session] # Absent
       /\ ss[r.session].replaces = r.replaces
  /\ r.op = "admitted" => r.identity.session \in SessionId /\ ss[r.identity.session] # Absent

OpenLoginOK(l, ls, ss) ==
  ls[l].status = "open" => \A t \in ls[l].replaces : t \in SessionId /\ ss[t] # Absent

RotationOK(s, ls, ss) ==
  ss[s] # Absent =>
    /\ {"revoked", "delivered"} \subseteq DOMAIN ss[s]
    /\ ss[s].login \in Login /\ ls[ss[s].login].status = "consumed"
    /\ \A t \in ss[s].replaces : t \in SessionId /\ ss[t] # Absent
    /\ ss[s].delivered => \A t \in ss[s].replaces : ss[t].revoked

LoginHeldOnce ==
  \A c, d \in Caller :
    requests[c].op \in WithLogin /\ requests[d].op \in WithLogin /\ c # d
      => requests[c].login # requests[d].login

RotationInv ==
  /\ DOMAIN logins = Login /\ DOMAIN sessions = SessionId /\ DOMAIN requests = Caller
  /\ LoginUsedOnce
  /\ LoginHeldOnce
  /\ \A c \in Caller : CallbackOK(requests[c], logins, sessions)
  /\ \A l \in Login : OpenLoginOK(l, logins, sessions)
  /\ \A s \in SessionId : RotationOK(s, logins, sessions)

\* Sessions as a step that creates none leaves them.
Kept(ss) ==
  /\ DOMAIN ss = SessionId
  /\ \A s \in SessionId :
       /\ ss[s] = Absent <=> sessions[s] = Absent
       /\ sessions[s] # Absent =>
            /\ {"revoked", "delivered"} \subseteq DOMAIN ss[s]
            /\ ss[s].login = sessions[s].login /\ ss[s].replaces = sessions[s].replaces
            /\ sessions[s].revoked => ss[s].revoked
            /\ ss[s].delivered =>
                 sessions[s].delivered \/ \A t \in sessions[s].replaces : ss[t].revoked

\* What a request holds is kept, while logins move on and sessions are kept.
LEMMA CallbackKept ==
  ASSUME NEW r, NEW ls, NEW ss, CallbackOK(r, logins, sessions), Kept(ss),
         \A l \in Login : logins[l].status = "consumed" => ls[l].status = "consumed"
  PROVE  CallbackOK(r, ls, ss)
<1>1. r.op \in WithLogin =>
        /\ r.login \in Login /\ ls[r.login].status = "consumed"
        /\ \A s \in SessionId : ss[s] # Absent => ss[s].login # r.login
        /\ \A t \in r.replaces : t \in SessionId /\ ss[t] # Absent
  BY Zenon DEF CallbackOK, Kept
<1>2. r.op = "rotate" =>
        /\ r.session \in SessionId /\ ss[r.session] # Absent
        /\ ss[r.session].replaces = r.replaces
  BY Zenon DEF CallbackOK, Kept
<1>3. r.op = "admitted" => r.identity.session \in SessionId /\ ss[r.identity.session] # Absent
  BY Zenon DEF CallbackOK, Kept
<1>. QED
  BY <1>1, <1>2, <1>3, Zenon DEF CallbackOK

\* A request becomes r; no session is created.
LEMMA RotationMoves ==
  ASSUME RotationInv, NEW c \in Caller, NEW r,
         DOMAIN requests' = Caller, requests'[c] = r,
         \A d \in Caller : d # c => requests'[d] = requests[d],
         DOMAIN logins' = Login,
         \A l \in Login : logins[l].status = "consumed" => logins'[l].status = "consumed",
         \A l \in Login : OpenLoginOK(l, logins', sessions),
         Kept(sessions'),
         CallbackOK(r, logins', sessions),
         r.op \in WithLogin => \A d \in Caller : d # c /\ requests[d].op \in WithLogin
                                                   => requests[d].login # r.login
  PROVE  RotationInv'
<1>1. DOMAIN sessions' = SessionId
  BY Zenon DEF Kept
<1>2. \A s \in SessionId : RotationOK(s, logins, sessions)
  BY Zenon DEF RotationInv
<1>3. LoginUsedOnce'
  <2>1. ASSUME NEW s \in SessionId, NEW t \in SessionId, sessions'[s] # Absent,
               sessions'[t] # Absent, sessions'[s].login = sessions'[t].login
        PROVE  s = t
    <3>1. /\ sessions[s] # Absent /\ sessions'[s].login = sessions[s].login
          /\ sessions[t] # Absent /\ sessions'[t].login = sessions[t].login
      BY <2>1, Zenon DEF Kept
    <3>. QED
      BY <2>1, <3>1, ZenonT(60) DEF LoginUsedOnce, Stored, RotationInv
  <2>. QED
    BY <2>1, Zenon DEF LoginUsedOnce, Stored
<1>4. LoginHeldOnce'
  BY Zenon DEF LoginHeldOnce, RotationInv
<1>5. ASSUME NEW d \in Caller PROVE CallbackOK(requests'[d], logins', sessions')
  <2>1. CASE d # c
    BY <2>1, CallbackKept, Zenon DEF RotationInv
  <2>2. CASE d = c
    <3>1. r.op \in WithLogin =>
            /\ r.login \in Login /\ logins'[r.login].status = "consumed"
            /\ \A s \in SessionId : sessions'[s] # Absent => sessions'[s].login # r.login
            /\ \A t \in r.replaces : t \in SessionId /\ sessions'[t] # Absent
      <4>. HAVE r.op \in WithLogin
      <4>1. /\ r.login \in Login /\ logins'[r.login].status = "consumed"
            /\ \A s \in SessionId : sessions[s] # Absent => sessions[s].login # r.login
            /\ \A t \in r.replaces : t \in SessionId /\ sessions[t] # Absent
        BY Zenon DEF CallbackOK
      <4>. QED
        BY <4>1, Zenon DEF Kept
    <3>2. r.op = "rotate" =>
            /\ r.session \in SessionId /\ sessions'[r.session] # Absent
            /\ sessions'[r.session].replaces = r.replaces
      BY Zenon DEF CallbackOK, Kept
    <3>3. r.op = "admitted" =>
            r.identity.session \in SessionId /\ sessions'[r.identity.session] # Absent
      BY Zenon DEF CallbackOK, Kept
    <3>. QED
      BY <2>2, <3>1, <3>2, <3>3, Zenon DEF CallbackOK
  <2>. QED
    BY <2>1, <2>2, Zenon
<1>6. \A l \in Login : OpenLoginOK(l, logins', sessions')
  BY ZenonT(60) DEF OpenLoginOK, Kept
<1>7. ASSUME NEW s \in SessionId, sessions'[s] # Absent
      PROVE  /\ {"revoked", "delivered"} \subseteq DOMAIN sessions'[s]
             /\ sessions'[s].login \in Login /\ logins'[sessions'[s].login].status = "consumed"
             /\ \A t \in sessions'[s].replaces : t \in SessionId /\ sessions'[t] # Absent
             /\ sessions'[s].delivered => \A t \in sessions'[s].replaces : sessions'[t].revoked
  <2>1. /\ sessions[s] # Absent
        /\ {"revoked", "delivered"} \subseteq DOMAIN sessions'[s]
        /\ sessions'[s].login = sessions[s].login /\ sessions'[s].replaces = sessions[s].replaces
        /\ sessions'[s].delivered =>
             sessions[s].delivered \/ \A t \in sessions[s].replaces : sessions'[t].revoked
    BY <1>7, Zenon DEF Kept
  <2>2. /\ sessions[s].login \in Login /\ logins[sessions[s].login].status = "consumed"
        /\ \A t \in sessions[s].replaces : t \in SessionId /\ sessions[t] # Absent
        /\ sessions[s].delivered => \A t \in sessions[s].replaces : sessions[t].revoked
    BY <1>2, <2>1, Zenon DEF RotationOK
  <2>3. \A t \in sessions[s].replaces :
          sessions'[t] # Absent /\ (sessions[t].revoked => sessions'[t].revoked)
    BY <2>2, Zenon DEF Kept
  <2>. QED
    BY <2>1, <2>2, <2>3, Zenon
<1>8. \A s \in SessionId : RotationOK(s, logins', sessions')
  BY <1>7, Zenon DEF RotationOK
<1>. QED
  BY <1>1, <1>3, <1>4, <1>5, <1>6, <1>8, Zenon DEF RotationInv

\* Rows have the column that says whether they are revoked.
LEMMA RevocationMarks ==
  ASSUME RotationInv
  PROVE  /\ Kept(sessions)
         /\ \A here : /\ Kept(Revoked(here))
                      /\ \A t \in SessionId : t \in here /\ sessions[t] # Absent
                           => Revoked(here)[t].revoked
<1>1. DOMAIN sessions = SessionId
      /\ \A s \in SessionId : sessions[s] # Absent
           => {"revoked", "delivered"} \subseteq DOMAIN sessions[s]
  BY Zenon DEF RotationInv, RotationOK
<1>2. Kept(sessions)
  BY <1>1, Zenon DEF Kept
<1>3. ASSUME NEW here
      PROVE  /\ Kept(Revoked(here))
             /\ \A t \in SessionId : t \in here /\ sessions[t] # Absent => Revoked(here)[t].revoked
  <2>1. DOMAIN Revoked(here) = SessionId
    BY Zenon DEF Revoked
  <2>2. ASSUME NEW s \in SessionId
        PROVE  /\ Revoked(here)[s] = Absent <=> sessions[s] = Absent
               /\ sessions[s] # Absent =>
                    /\ {"revoked", "delivered"} \subseteq DOMAIN Revoked(here)[s]
                    /\ Revoked(here)[s].login = sessions[s].login
                    /\ Revoked(here)[s].replaces = sessions[s].replaces
                    /\ sessions[s].revoked => Revoked(here)[s].revoked
                    /\ Revoked(here)[s].delivered = sessions[s].delivered
                    /\ s \in here => Revoked(here)[s].revoked
    <3>1. CASE s \in here /\ sessions[s] # Absent
      <4>1. Revoked(here)[s] = [sessions[s] EXCEPT !.revoked = TRUE]
        BY <3>1, Zenon DEF Revoked
      <4>2. "revoked" \in DOMAIN sessions[s] /\ "revoked" \notin DOMAIN Absent
        BY <1>1, <3>1 DEF Absent
      <4>3. Revoked(here)[s].revoked = TRUE /\ DOMAIN Revoked(here)[s] = DOMAIN sessions[s]
        BY <4>1, <4>2, Zenon
      <4>4. Revoked(here)[s] # Absent
        BY <4>2, <4>3, Zenon
      <4>5. /\ Revoked(here)[s].login = sessions[s].login
            /\ Revoked(here)[s].replaces = sessions[s].replaces
            /\ Revoked(here)[s].delivered = sessions[s].delivered
        BY <4>1
      <4>. QED
        BY <1>1, <3>1, <4>3, <4>4, <4>5, Zenon
    <3>2. CASE ~(s \in here /\ sessions[s] # Absent)
      <4>1. Revoked(here)[s] = sessions[s]
        BY <3>2, Zenon DEF Revoked
      <4>. QED
        BY <1>1, <3>2, <4>1, Zenon
    <3>. QED
      BY <3>1, <3>2, Zenon
  <2>. QED
    BY <2>1, <2>2, Zenon DEF Kept
<1>. QED
  BY <1>2, <1>3, Zenon

\* A request that is answered holds nothing.
LEMMA RotationEnds ==
  ASSUME RotationInv, NEW c \in Caller, Answered(c), UNCHANGED logins, Kept(sessions')
  PROVE  RotationInv'
<1>1. Quiet.op = "none" /\ "none" \notin WithLogin
  BY DEF Quiet, WithLogin
<1>2. CallbackOK(Quiet, logins', sessions)
  BY <1>1, Zenon DEF CallbackOK
<1>3. DOMAIN requests' = Caller /\ requests'[c] = Quiet
      /\ \A d \in Caller : d # c => requests'[d] = requests[d]
  BY Zenon DEF RotationInv, Answered
<1>4. DOMAIN logins' = Login /\ \A l \in Login : OpenLoginOK(l, logins', sessions)
  BY Zenon DEF RotationInv
<1>. QED
  BY <1>1, <1>2, <1>3, <1>4, RotationMoves, Zenon

\* A login that was not used is put, for a session that is stored or for none.
LEMMA PutKeeps ==
  ASSUME RotationInv, NEW l \in Login, NEW purpose, NEW replaces, Put(l, purpose, replaces),
         \A t \in replaces : t \in SessionId /\ sessions[t] # Absent
  PROVE  /\ DOMAIN logins' = Login
         /\ \A k \in Login : logins[k].status = "consumed" => logins'[k].status = "consumed"
         /\ \A k \in Login : OpenLoginOK(k, logins', sessions)
<1>. DEFINE row == [status |-> "open", purpose |-> purpose, replaces |-> replaces,
                    expires |-> clock + LoginTtl]
<1>0. logins[l] = NoLogin /\ NoLogin.status = "unused"
  BY Zenon DEF Put, NoLogin
<1>1. logins' = [logins EXCEPT ![l] = row] /\ logins[l].status = "unused"
  BY <1>0, Zenon DEF Put
<1>2. row.replaces = replaces
  BY Zenon
<1>. HIDE DEF row
<1>3. logins'[l] = row /\ DOMAIN logins' = Login
      /\ \A k \in Login : k # l => logins'[k] = logins[k]
  BY <1>1, Zenon DEF RotationInv
<1>4. \A k \in Login : OpenLoginOK(k, logins, sessions)
  BY Zenon DEF RotationInv
<1>5. \A k \in Login : OpenLoginOK(k, logins', sessions)
  BY <1>2, <1>3, <1>4, Zenon DEF OpenLoginOK
<1>6. "unused" # "consumed"
  BY Zenon
<1>. QED
  BY <1>1, <1>3, <1>5, <1>6, Zenon

\* A callback consumes a login, which nobody holds, and carries it up to its session.
LEMMA CallbackRotation ==
  ASSUME RotationInv, NEW c \in Caller,
         CallbackConsumes(c) \/ CallbackExchanges(c) \/ provision_from_claims(c)
  PROVE  RotationInv'
<1>. USE DEF WithLogin
<1>0. Kept(sessions) /\ UNCHANGED sessions
  BY RevocationMarks, Zenon DEF CallbackConsumes, CallbackExchanges, provision_from_claims
<1>1. DOMAIN requests = Caller /\ DOMAIN logins = Login
  BY Zenon DEF RotationInv
<1>2. CASE CallbackConsumes(c)
  <2>1. PICK l \in Login :
          /\ logins[l].status = "open"
          /\ logins' = [logins EXCEPT ![l] = [status |-> "consumed"]]
          /\ requests' = [requests EXCEPT ![c] =
               [op |-> "exchange", login |-> l, replaces |-> logins[l].replaces]]
    BY <1>2, Zenon DEF CallbackConsumes, Consume
  <2>. DEFINE r == [op |-> "exchange", login |-> l, replaces |-> logins[l].replaces]
  <2>2. r.op = "exchange" /\ r.login = l /\ r.replaces = logins[l].replaces
    BY Zenon
  <2>. HIDE DEF r
  <2>3. DOMAIN requests' = Caller /\ requests'[c] = r
        /\ \A d \in Caller : d # c => requests'[d] = requests[d]
    BY <1>1, <2>1, Zenon DEF r
  <2>4. DOMAIN logins' = Login /\ logins'[l].status = "consumed"
        /\ \A k \in Login : k # l => logins'[k] = logins[k]
    BY <1>1, <2>1, Zenon
  <2>5. "open" # "consumed"
    BY Zenon
  <2>6. \A k \in Login : OpenLoginOK(k, logins, sessions)
    BY Zenon DEF RotationInv
  <2>7. \A k \in Login : OpenLoginOK(k, logins', sessions)
    BY <2>4, <2>5, <2>6, Zenon DEF OpenLoginOK
  <2>8. \A d \in Caller : requests[d].op \in WithLogin => requests[d].login # l
    BY <2>1, <2>5, Zenon DEF RotationInv, CallbackOK
  <2>9. \A s \in SessionId : sessions[s] # Absent => sessions[s].login # l
    BY <2>1, <2>5, Zenon DEF RotationInv, RotationOK
  <2>10. \A t \in r.replaces : t \in SessionId /\ sessions[t] # Absent
    BY <2>1, <2>2, <2>6, Zenon DEF OpenLoginOK
  <2>11. CallbackOK(r, logins', sessions)
    BY <2>2, <2>4, <2>9, <2>10 DEF CallbackOK
  <2>12. \A k \in Login : logins[k].status = "consumed" => logins'[k].status = "consumed"
    BY <2>4, Zenon
  <2>. QED
    BY <1>0, <2>2, <2>3, <2>4, <2>7, <2>8, <2>11, <2>12, RotationMoves, Zenon
<1>3. ASSUME UNCHANGED logins, NEW r, requests' = [requests EXCEPT ![c] = r],
             r.op \in WithLogin, requests[c].op \in WithLogin,
             r.login = requests[c].login, r.replaces = requests[c].replaces
      PROVE  RotationInv'
  <2>1. DOMAIN requests' = Caller /\ requests'[c] = r
        /\ \A d \in Caller : d # c => requests'[d] = requests[d]
    BY <1>1, <1>3, Zenon
  <2>2. r.op # "rotate" /\ r.op # "admitted"
    BY <1>3
  <2>3. CallbackOK(requests[c], logins, sessions)
    BY Zenon DEF RotationInv
  <2>4. CallbackOK(r, logins', sessions)
    BY <1>3, <2>2, <2>3, Zenon DEF CallbackOK
  <2>5. \A d \in Caller : d # c /\ requests[d].op \in WithLogin => requests[d].login # r.login
    BY <1>3, Zenon DEF RotationInv, LoginHeldOnce
  <2>6. DOMAIN logins' = Login /\ \A k \in Login : OpenLoginOK(k, logins', sessions)
    BY <1>3, Zenon DEF RotationInv
  <2>. QED
    BY <1>0, <1>3, <2>1, <2>4, <2>5, <2>6, RotationMoves, Zenon
<1>4. CASE CallbackExchanges(c)
  <2>1. requests[c].op \in WithLogin /\ UNCHANGED logins
    BY <1>4 DEF CallbackExchanges
  <2>2. CASE Answered(c)
    BY <1>0, <2>1, <2>2, RotationEnds, Zenon
  <2>3. ASSUME NEW claims \in Claims,
               requests' = [requests EXCEPT ![c] =
                 [op |-> "provision", login |-> @.login, replaces |-> @.replaces,
                  claims |-> claims, at |-> clock]]
        PROVE  RotationInv'
    <3>. DEFINE r == [op |-> "provision", login |-> requests[c].login,
                      replaces |-> requests[c].replaces, claims |-> claims, at |-> clock]
    <3>1. r.op \in WithLogin /\ r.login = requests[c].login /\ r.replaces = requests[c].replaces
      BY Zenon
    <3>2. requests' = [requests EXCEPT ![c] = r]
      BY <2>3, Zenon
    <3>. HIDE DEF r
    <3>. QED
      BY <1>3, <2>1, <3>1, <3>2, Zenon
  <2>. QED
    BY <1>4, <2>2, <2>3, Zenon DEF CallbackExchanges
<1>5. CASE provision_from_claims(c)
  <2>. DEFINE q == requests[c]
              p == principals[q.claims.subject]
              r == [op |-> "store", login |-> q.login, replaces |-> q.replaces,
                    claims |-> q.claims, at |-> q.at, version |-> p.version,
                    granted |-> changed[q.claims.subject]]
  <2>1. requests[c].op \in WithLogin /\ UNCHANGED logins
    BY <1>5 DEF provision_from_claims
  <2>2. Answered(c) \/ requests' = [requests EXCEPT ![c] = r]
    BY <1>5, Zenon DEF provision_from_claims
  <2>3. CASE Answered(c)
    BY <1>0, <2>1, <2>3, RotationEnds, Zenon
  <2>4. r.op \in WithLogin /\ r.login = requests[c].login /\ r.replaces = requests[c].replaces
    BY Zenon
  <2>. HIDE DEF r
  <2>5. CASE requests' = [requests EXCEPT ![c] = r]
    BY <1>3, <2>1, <2>4, <2>5, Zenon
  <2>. QED
    BY <2>2, <2>3, <2>5, Zenon
<1>. QED
  BY <1>2, <1>4, <1>5, Zenon

\* The session of a login is stored: no other has this login, and nobody holds it any more.
LEMMA CreateRotation ==
  ASSUME RotationInv, NEW c \in Caller, create_session(c)
  PROVE  RotationInv'
<1>. DEFINE q == requests[c]
<1>1. PICK s \in SessionId :
        /\ sessions[s] = Absent
        /\ sessions' = [sessions EXCEPT ![s] = NewSession(q)]
        /\ requests' = [requests EXCEPT ![c] =
             [op |-> "rotate", session |-> s, replaces |-> q.replaces]]
  BY Zenon DEF create_session
<1>2. q.op \in WithLogin /\ UNCHANGED logins
  BY DEF create_session, WithLogin
<1>. DEFINE r == [op |-> "rotate", session |-> s, replaces |-> q.replaces]
            row == NewSession(q)
<1>3. /\ r.op = "rotate" /\ r.session = s /\ r.replaces = q.replaces
      /\ r.op \notin WithLogin /\ r.op # "admitted"
  <2>1. r.op = "rotate" /\ r.session = s /\ r.replaces = q.replaces
    BY ZenonT(60)
  <2>. HIDE DEF r
  <2>. QED
    BY <2>1, Zenon DEF WithLogin
<1>4. /\ row.login = q.login /\ row.replaces = q.replaces /\ row.delivered = FALSE
      /\ {"revoked", "delivered"} \subseteq DOMAIN row
  BY DEF NewSession, SessionRow, SecuritySession
<1>5. row # Absent
  BY <1>4 DEF Absent
<1>. HIDE DEF r, row
<1>6. DOMAIN requests' = Caller /\ requests'[c] = r
      /\ \A d \in Caller : d # c => requests'[d] = requests[d]
  BY <1>1, Zenon DEF RotationInv, r
<1>7. DOMAIN sessions' = SessionId /\ sessions'[s] = row
      /\ \A t \in SessionId : t # s => sessions'[t] = sessions[t]
  BY <1>1, Zenon DEF RotationInv, row
<1>8. /\ q.login \in Login /\ logins[q.login].status = "consumed"
      /\ \A t \in SessionId : sessions[t] # Absent => sessions[t].login # q.login
      /\ \A t \in q.replaces : t \in SessionId /\ sessions[t] # Absent
  BY <1>2, Zenon DEF RotationInv, CallbackOK
<1>9. \A t \in SessionId : sessions[t] # Absent => sessions'[t] = sessions[t] /\ t # s
  BY <1>1, <1>7, Zenon
<1>10. LoginUsedOnce'
  <2>1. ASSUME NEW t \in SessionId, NEW u \in SessionId, sessions'[t] # Absent,
               sessions'[u] # Absent, sessions'[t].login = sessions'[u].login
        PROVE  t = u
    <3>1. CASE t # s /\ u # s
      BY <1>7, <2>1, <3>1, Zenon DEF RotationInv, LoginUsedOnce, Stored
    <3>2. CASE t = s /\ u # s
      BY <1>4, <1>7, <1>8, <2>1, <3>2, Zenon
    <3>3. CASE t # s /\ u = s
      BY <1>4, <1>7, <1>8, <2>1, <3>3, Zenon
    <3>. QED
      BY <3>1, <3>2, <3>3, Zenon
  <2>. QED
    BY <2>1, Zenon DEF LoginUsedOnce, Stored
<1>11. LoginHeldOnce'
  BY <1>3, <1>6, Zenon DEF RotationInv, LoginHeldOnce
<1>12. ASSUME NEW d \in Caller PROVE CallbackOK(requests'[d], logins', sessions')
  <2>1. CASE d = c
    BY <1>3, <1>4, <1>5, <1>6, <1>7, <2>1, Zenon DEF CallbackOK
  <2>2. CASE d # c
    <3>1. PICK x : x = requests[d]
      BY Zenon
    <3>2. CallbackOK(x, logins, sessions) /\ requests'[d] = x
      BY <1>6, <2>2, <3>1, Zenon DEF RotationInv
    <3>3. x.op \in WithLogin => x.login # q.login
      BY <1>2, <2>2, <3>1, Zenon DEF RotationInv, LoginHeldOnce
    <3>4. x.op \in WithLogin =>
            /\ x.login \in Login /\ logins'[x.login].status = "consumed"
            /\ \A t \in SessionId : sessions'[t] # Absent => sessions'[t].login # x.login
            /\ \A t \in x.replaces : t \in SessionId /\ sessions'[t] # Absent
      <4>. HAVE x.op \in WithLogin
      <4>1. /\ x.login \in Login /\ logins[x.login].status = "consumed"
            /\ \A t \in SessionId : sessions[t] # Absent => sessions[t].login # x.login
            /\ \A t \in x.replaces : t \in SessionId /\ sessions[t] # Absent
        BY <3>2, Zenon DEF CallbackOK
      <4>. QED
        BY <1>2, <1>4, <1>7, <1>9, <3>3, <4>1, Zenon
    <3>5. x.op = "rotate" =>
            /\ x.session \in SessionId /\ sessions'[x.session] # Absent
            /\ sessions'[x.session].replaces = x.replaces
      BY <1>9, <3>2, Zenon DEF CallbackOK
    <3>6. x.op = "admitted" =>
            x.identity.session \in SessionId /\ sessions'[x.identity.session] # Absent
      BY <1>9, <3>2, Zenon DEF CallbackOK
    <3>. QED
      BY <3>2, <3>4, <3>5, <3>6, Zenon DEF CallbackOK
  <2>. QED
    BY <2>1, <2>2, Zenon
<1>13. \A l \in Login : OpenLoginOK(l, logins', sessions')
  BY <1>2, <1>9, Zenon DEF RotationInv, OpenLoginOK
<1>14. ASSUME NEW t \in SessionId PROVE RotationOK(t, logins', sessions')
  <2>1. CASE t = s
    BY <1>2, <1>4, <1>7, <1>8, <1>9, <2>1 DEF RotationOK
  <2>2. CASE t # s
    <3>1. RotationOK(t, logins, sessions) /\ sessions'[t] = sessions[t]
      BY <1>7, <2>2, Zenon DEF RotationInv
    <3>. QED
      BY <1>2, <1>9, <3>1, Zenon DEF RotationOK
  <2>. QED
    BY <2>1, <2>2, Zenon
<1>15. DOMAIN logins' = Login
  BY <1>2, Zenon DEF RotationInv
<1>. QED
  BY <1>6, <1>7, <1>10, <1>11, <1>12, <1>13, <1>14, <1>15, Zenon DEF RotationInv

\* The callback answers: what the new session replaces is revoked in the same step.
LEMMA AnswerRotation ==
  ASSUME RotationInv, NEW c \in Caller, CallbackAnswers(c)
  PROVE  RotationInv'
<1>. DEFINE q == requests[c]
            R == Revoked(q.replaces)
<1>1. sessions' = [R EXCEPT ![q.session].delivered = TRUE] /\ q.op = "rotate"
      /\ Answered(c) /\ UNCHANGED logins
  BY Zenon DEF CallbackAnswers
<1>2. /\ q.session \in SessionId /\ sessions[q.session] # Absent
      /\ sessions[q.session].replaces = q.replaces
  BY <1>1, Zenon DEF RotationInv, CallbackOK
<1>3. Kept(R) /\ \A t \in SessionId : t \in q.replaces /\ sessions[t] # Absent => R[t].revoked
  BY RevocationMarks, Zenon
<1>4. \A t \in q.replaces : t \in SessionId /\ sessions[t] # Absent
  BY <1>2, Zenon DEF RotationInv, RotationOK
<1>5. \A t \in q.replaces : R[t].revoked
  BY <1>3, <1>4, Zenon
<1>. HIDE DEF R
<1>6. DOMAIN R = SessionId
  BY <1>3, Zenon DEF Kept
<1>7. /\ DOMAIN sessions' = SessionId
      /\ sessions'[q.session] = [R[q.session] EXCEPT !.delivered = TRUE]
      /\ \A t \in SessionId : t # q.session => sessions'[t] = R[t]
  BY <1>1, <1>2, <1>6, Zenon
<1>8. R[q.session] # Absent /\ {"revoked", "delivered"} \subseteq DOMAIN R[q.session]
  BY <1>2, <1>3, Zenon DEF Kept
<1>9. PICK x : x = R[q.session]
  BY Zenon
<1>10. PICK y : y = [x EXCEPT !.delivered = TRUE]
  BY Zenon
<1>11. /\ DOMAIN y = DOMAIN x /\ y.login = x.login /\ y.replaces = x.replaces
       /\ y.revoked = x.revoked
  BY <1>10
<1>12. y # Absent
  BY <1>8, <1>9, <1>11 DEF Absent
<1>13. ASSUME NEW t \in SessionId
       PROVE  /\ sessions'[t] = Absent <=> sessions[t] = Absent
              /\ sessions[t] # Absent =>
                   /\ {"revoked", "delivered"} \subseteq DOMAIN sessions'[t]
                   /\ sessions'[t].login = sessions[t].login
                   /\ sessions'[t].replaces = sessions[t].replaces
                   /\ sessions[t].revoked => sessions'[t].revoked
                   /\ R[t].revoked => sessions'[t].revoked
  <2>1. CASE t = q.session
    BY <1>2, <1>3, <1>7, <1>8, <1>9, <1>10, <1>11, <1>12, <2>1, Zenon DEF Kept
  <2>2. CASE t # q.session
    BY <1>3, <1>7, <2>2, Zenon DEF Kept
  <2>. QED
    BY <2>1, <2>2, Zenon
<1>14. ASSUME NEW t \in SessionId, sessions[t] # Absent, sessions'[t].delivered
       PROVE  sessions[t].delivered \/ \A u \in sessions[t].replaces : sessions'[u].revoked
  <2>1. CASE t = q.session
    BY <1>2, <1>4, <1>5, <1>13, <2>1, Zenon
  <2>2. CASE t # q.session
    <3>1. R[t].delivered
      BY <1>7, <1>14, <2>2, Zenon
    <3>2. sessions[t].delivered \/ \A u \in sessions[t].replaces : R[u].revoked
      BY <1>3, <1>14, <3>1, Zenon DEF Kept
    <3>3. \A u \in sessions[t].replaces : u \in SessionId /\ sessions[u] # Absent
      BY <1>14, Zenon DEF RotationInv, RotationOK
    <3>. QED
      BY <1>13, <3>2, <3>3, Zenon
  <2>. QED
    BY <2>1, <2>2, Zenon
<1>15. Kept(sessions')
  BY <1>7, <1>13, <1>14, Zenon DEF Kept
<1>. QED
  BY <1>1, <1>15, RotationEnds, Zenon

\* A session that is admitted stays open for another idle period.
LEMMA ResolveRotation ==
  ASSUME RotationInv, NEW c \in Caller, resolve(c)
  PROVE  RotationInv'
<1>1. UNCHANGED logins
  BY Zenon DEF resolve
<1>2. PICK id \in SessionId :
        /\ sessions[id] # Absent
        /\ \/ /\ sessions' = [sessions EXCEPT ![id] = Seen(sessions[id])]
              /\ requests' = [requests EXCEPT ![c] =
                               [op |-> "admitted", identity |-> IdentityOf(id)]]
           \/ sessions' = Revoked({id}) /\ UNCHANGED requests
  BY Zenon DEF resolve
<1>3. DOMAIN logins' = Login /\ \A l \in Login : OpenLoginOK(l, logins', sessions)
  BY <1>1, Zenon DEF RotationInv
<1>4. CASE /\ sessions' = [sessions EXCEPT ![id] = Seen(sessions[id])]
           /\ requests' = [requests EXCEPT ![c] =
                            [op |-> "admitted", identity |-> IdentityOf(id)]]
  <2>1. PICK x : x = sessions[id]
    BY Zenon
  <2>2. PICK y : y = Seen(x)
    BY Zenon
  <2>3. /\ DOMAIN y = DOMAIN x /\ y.login = x.login /\ y.replaces = x.replaces
        /\ y.revoked = x.revoked /\ y.delivered = x.delivered
    BY <2>2 DEF Seen
  <2>4. {"revoked", "delivered"} \subseteq DOMAIN x
    BY <1>2, <2>1, Zenon DEF RotationInv, RotationOK
  <2>5. y # Absent
    BY <2>3, <2>4 DEF Absent
  <2>6. /\ DOMAIN sessions' = SessionId /\ sessions'[id] = y
        /\ \A t \in SessionId : t # id => sessions'[t] = sessions[t]
    BY <1>4, <2>1, <2>2, Zenon DEF RotationInv
  <2>7. Kept(sessions)
    BY RevocationMarks, Zenon
  <2>8. ASSUME NEW t \in SessionId
        PROVE  /\ sessions'[t] = Absent <=> sessions[t] = Absent
               /\ sessions[t] # Absent =>
                    /\ {"revoked", "delivered"} \subseteq DOMAIN sessions'[t]
                    /\ sessions'[t].login = sessions[t].login
                    /\ sessions'[t].replaces = sessions[t].replaces
                    /\ sessions[t].revoked => sessions'[t].revoked
                    /\ sessions'[t].delivered => sessions[t].delivered
    <3>1. CASE t = id
      BY <1>2, <2>1, <2>3, <2>4, <2>5, <2>6, <3>1, Zenon
    <3>2. CASE t # id
      BY <2>6, <2>7, <3>2, Zenon DEF Kept
    <3>. QED
      BY <3>1, <3>2, Zenon
  <2>9. Kept(sessions')
    BY <2>6, <2>8, ZenonT(60) DEF Kept
  <2>. DEFINE r == [op |-> "admitted", identity |-> IdentityOf(id)]
  <2>10. r.op = "admitted" /\ r.op \notin WithLogin /\ r.op # "rotate" /\ r.identity.session = id
    BY DEF WithLogin, IdentityOf
  <2>. HIDE DEF r
  <2>11. CallbackOK(r, logins', sessions)
    BY <1>2, <2>10, Zenon DEF CallbackOK
  <2>12. DOMAIN requests' = Caller /\ requests'[c] = r
         /\ \A d \in Caller : d # c => requests'[d] = requests[d]
    BY <1>4, Zenon DEF RotationInv, r
  <2>. QED
    BY <1>1, <1>3, <2>9, <2>10, <2>11, <2>12, RotationMoves, Zenon
<1>5. CASE sessions' = Revoked({id}) /\ UNCHANGED requests
  <2>1. Kept(sessions')
    BY <1>5, RevocationMarks, Zenon
  <2>2. CallbackOK(requests[c], logins', sessions) /\ DOMAIN requests' = Caller
    BY <1>1, <1>5, Zenon DEF RotationInv
  <2>3. requests[c].op \in WithLogin => \A d \in Caller :
          d # c /\ requests[d].op \in WithLogin => requests[d].login # requests[c].login
    BY Zenon DEF RotationInv, LoginHeldOnce
  <2>. QED
    BY <1>1, <1>3, <1>5, <2>1, <2>2, <2>3, RotationMoves, Zenon
<1>. QED
  BY <1>2, <1>4, <1>5, Zenon

\* Starting a login, and every handler that only reads, revokes or changes a principal.
LEMMA HandlerRotation ==
  ASSUME RotationInv, NEW c \in Caller,
         \/ CallbackDies(c) \/ session_details(c) \/ step_up(c) \/ logout(c) \/ logout_all(c)
         \/ security_user_sessions_revoke(c) \/ security_user_update(c) \/ update_principal(c)
  PROVE  RotationInv'
<1>1. Kept(sessions) /\ \A here : Kept(Revoked(here))
  BY RevocationMarks, Zenon
<1>2. CASE \/ CallbackDies(c) \/ session_details(c) \/ logout(c) \/ logout_all(c)
           \/ security_user_sessions_revoke(c) \/ update_principal(c)
  <2>1. Answered(c) /\ UNCHANGED logins
    BY <1>2, Zenon DEF CallbackDies, session_details, logout, logout_all,
       security_user_sessions_revoke, update_principal
  <2>2. sessions' = sessions \/ \E here : sessions' = Revoked(here)
    BY <1>2, Zenon DEF CallbackDies, session_details, logout, logout_all,
       security_user_sessions_revoke, update_principal
  <2>. QED
    BY <1>1, <2>1, <2>2, RotationEnds, Zenon
<1>3. CASE step_up(c)
  <2>1. PICK l \in Login, purpose \in {"step_up", "claims_refresh"} :
          Put(l, purpose, {requests[c].identity.session})
    BY <1>3, Zenon DEF step_up
  <2>2. requests[c].op = "admitted" /\ Answered(c) /\ UNCHANGED sessions
    BY <1>3, Zenon DEF step_up
  <2>3. requests[c].identity.session \in SessionId
        /\ sessions[requests[c].identity.session] # Absent
    BY <2>2, Zenon DEF RotationInv, CallbackOK
  <2>4. \A t \in {requests[c].identity.session} : t \in SessionId /\ sessions[t] # Absent
    BY <2>3, Zenon
  <2>5. /\ DOMAIN logins' = Login
        /\ \A k \in Login : logins[k].status = "consumed" => logins'[k].status = "consumed"
        /\ \A k \in Login : OpenLoginOK(k, logins', sessions)
    BY <2>1, <2>4, PutKeeps, Zenon
  <2>6. Quiet.op = "none" /\ "none" \notin WithLogin
    BY DEF Quiet, WithLogin
  <2>7. CallbackOK(Quiet, logins', sessions)
    BY <2>6, Zenon DEF CallbackOK
  <2>8. DOMAIN requests' = Caller /\ requests'[c] = Quiet
        /\ \A d \in Caller : d # c => requests'[d] = requests[d]
    BY <2>2, Zenon DEF RotationInv, Answered
  <2>9. Kept(sessions')
    BY <1>1, <2>2, Zenon
  <2>. QED
    BY <2>5, <2>6, <2>7, <2>8, <2>9, RotationMoves, Zenon
<1>4. CASE security_user_update(c)
  <2>1. UNCHANGED <<sessions, logins>>
    BY <1>4, Zenon DEF security_user_update
  <2>2. PICK p \in Subject, disabled \in BOOLEAN, roles \in Grants :
          requests' = [requests EXCEPT ![c] =
            [op |-> "change", principal |-> p, disabled |-> disabled, roles |-> roles,
             version |-> principals[p].version]]
    BY <1>4, Zenon DEF security_user_update
  <2>. DEFINE r == [op |-> "change", principal |-> p, disabled |-> disabled, roles |-> roles,
                    version |-> principals[p].version]
  <2>3. r.op \notin WithLogin /\ r.op # "rotate" /\ r.op # "admitted"
    BY DEF WithLogin
  <2>. HIDE DEF r
  <2>4. CallbackOK(r, logins', sessions)
    BY <2>3, Zenon DEF CallbackOK
  <2>5. DOMAIN requests' = Caller /\ requests'[c] = r
        /\ \A d \in Caller : d # c => requests'[d] = requests[d]
    BY <2>2, Zenon DEF RotationInv, r
  <2>6. DOMAIN logins' = Login /\ \A l \in Login : OpenLoginOK(l, logins', sessions)
    BY <2>1, Zenon DEF RotationInv
  <2>7. Kept(sessions')
    BY <1>1, <2>1, Zenon
  <2>. QED
    BY <2>1, <2>3, <2>4, <2>5, <2>6, <2>7, RotationMoves, Zenon
<1>. QED
  BY <1>2, <1>3, <1>4, Zenon

\* Every step keeps the invariant.
LEMMA RotationStep == RotationInv /\ [IdentityNext]_idvars => RotationInv'
<1>. SUFFICES ASSUME RotationInv, [IdentityNext]_idvars PROVE RotationInv'
  BY Zenon
<1>1. CASE Tick \/ UNCHANGED idvars
  <2>1. UNCHANGED <<logins, sessions, requests>>
    BY <1>1, Zenon DEF Tick, idvars
  <2>. QED
    BY <2>1, Zenon DEF RotationInv, LoginUsedOnce, Stored, LoginHeldOnce
<1>2. CASE login
  <2>1. PICK l \in Login : Put(l, "login", {})
    BY <1>2, Zenon DEF login
  <2>2. UNCHANGED <<sessions, requests>>
    BY <1>2, Zenon DEF login
  <2>3. /\ DOMAIN logins' = Login
        /\ \A k \in Login : logins[k].status = "consumed" => logins'[k].status = "consumed"
        /\ \A k \in Login : OpenLoginOK(k, logins', sessions)
    <3>1. PICK purpose, none : Put(l, purpose, none) /\ none = {}
      BY <2>1, Zenon
    <3>2. \A t \in none : t \in SessionId /\ sessions[t] # Absent
      BY <3>1, Zenon
    <3>. QED
      BY <3>1, <3>2, PutKeeps, Zenon
  <2>4. Kept(sessions)
    BY RevocationMarks, Zenon
  <2>5. \A c \in Caller : CallbackOK(requests[c], logins', sessions)
    BY <2>3, <2>4, CallbackKept, Zenon DEF RotationInv
  <2>6. ASSUME NEW s \in SessionId, RotationOK(s, logins, sessions)
        PROVE  RotationOK(s, logins', sessions)
    BY <2>3, <2>6, Zenon DEF RotationOK
  <2>7. LoginUsedOnce' /\ LoginHeldOnce'
    BY <2>2, Zenon DEF RotationInv, LoginUsedOnce, Stored, LoginHeldOnce
  <2>8. \A s \in SessionId : RotationOK(s, logins', sessions')
    BY <2>2, <2>6, Zenon DEF RotationInv
  <2>. QED
    BY <2>2, <2>3, <2>5, <2>7, <2>8, Zenon DEF RotationInv
<1>. QED
  BY <1>1, <1>2, CallbackRotation, CreateRotation, AnswerRotation, ResolveRotation,
     HandlerRotation, Zenon DEF IdentityNext

\* It holds initially.
LEMMA RotationInitial == IdentityInit => RotationInv
<1>. SUFFICES ASSUME IdentityInit PROVE RotationInv
  BY Zenon
<1>1. /\ \A c \in Caller : requests[c].op = "none"
      /\ \A l \in Login : logins[l].status = "unused"
      /\ \A s \in SessionId : sessions[s] = Absent
      /\ DOMAIN logins = Login /\ DOMAIN sessions = SessionId /\ DOMAIN requests = Caller
  BY DEF IdentityInit, Quiet, NoLogin
<1>2. "none" \notin WithLogin /\ "none" # "rotate" /\ "none" # "admitted" /\ "unused" # "open"
  BY DEF WithLogin
<1>3. \A c \in Caller : CallbackOK(requests[c], logins, sessions)
  BY <1>1, <1>2, Zenon DEF CallbackOK
<1>4. \A s \in SessionId : RotationOK(s, logins, sessions)
  BY <1>1, Zenon DEF RotationOK
<1>5. LoginUsedOnce /\ LoginHeldOnce
  BY <1>1, <1>2, Zenon DEF LoginUsedOnce, Stored, LoginHeldOnce
<1>6. \A l \in Login : OpenLoginOK(l, logins, sessions)
  BY <1>1, <1>2, Zenon DEF OpenLoginOK
<1>. QED
  BY <1>1, <1>3, <1>4, <1>5, <1>6, Zenon DEF RotationInv

(***************************************************************************)
(* A login transaction ends in one session at most, whatever callbacks     *)
(* name it and wherever they die: the script that reads it also deletes it *)
(* (transactions.py:52).                                                   *)
(***************************************************************************)
THEOREM LoginIsUsedOnce == IdentitySpec => []LoginUsedOnce
<1>1. RotationInv => LoginUsedOnce
  BY Zenon DEF RotationInv
<1>2. QED
  BY <1>1, RotationInitial, RotationStep, PTL DEF IdentitySpec

(***************************************************************************)
(* When the answer with a new session is on its way, the session that it   *)
(* replaces is revoked and stays so, whatever is resolved, revoked or      *)
(* changed meanwhile (auth.py:131).                                        *)
(***************************************************************************)
THEOREM ReplacedIsRevoked == IdentitySpec => []RotatedIsRevoked
<1>1. RotationInv => RotatedIsRevoked
  BY Zenon DEF RotationInv, RotationOK, RotatedIsRevoked, Stored
<1>2. QED
  BY <1>1, RotationInitial, RotationStep, PTL DEF IdentitySpec
-----------------------------------------------------------------------------
(* The OIDC client, for any number of exchanges, keys, rotations and       *)
(* failures: a login is refused for its signing key only if the provider   *)
(* withdrew the key after it had signed.                                   *)

Exchanged ==
  [stage : Stages, key : Key, sound : BOOLEAN, force : BOOLEAN, held : BOOLEAN]

(***************************************************************************)
(* The inductive invariant: an exchange whose key was published all the    *)
(* time has a key that is published now, and has not been refused for it.  *)
(***************************************************************************)
ExchangeOK(x) ==
  /\ exchanges[x] \in {NotYet} \cup Exchanged
  /\ exchanges[x] # NotYet /\ exchanges[x].held => exchanges[x].key \in published
  /\ exchanges[x].stage = "unknown" => ~exchanges[x].held

OidcInv ==
  /\ published \subseteq Key
  /\ exchanges \in [Exchange -> {NotYet} \cup Exchanged]
  /\ \A x \in Exchange : ExchangeOK(x)

\* One exchange is replaced by a record that keeps the invariant.
LEMMA Replaced ==
  ASSUME OidcInv, UNCHANGED published, NEW x \in Exchange, NEW r \in Exchanged,
         exchanges' = [exchanges EXCEPT ![x] = r],
         r.held => r.key \in published,
         r.stage = "unknown" => ~r.held
  PROVE  OidcInv'
<1>. USE DEF OidcInv
<1>1. exchanges'[x] = r /\ \A y \in Exchange : y # x => exchanges'[y] = exchanges[y]
  BY Zenon
<1>2. exchanges' \in [Exchange -> {NotYet} \cup Exchanged]
  BY Zenon
<1>3. QED
  BY <1>1, <1>2 DEF ExchangeOK

\* An exchange moves on to another stage, not to "unknown" while its key is held.
LEMMA StageChanges ==
  ASSUME OidcInv, UNCHANGED published, NEW x \in Exchange, exchanges[x] # NotYet,
         NEW stage \in Stages, To(x, stage),
         stage = "unknown" => ~exchanges[x].held
  PROVE  OidcInv'
<1>. DEFINE e == exchanges[x]
            r == [stage |-> stage, key |-> e.key, sound |-> e.sound, force |-> e.force,
                  held |-> e.held]
<1>1. e \in Exchanged /\ (e.held => e.key \in published)
  BY DEF OidcInv, ExchangeOK
<1>2. [e EXCEPT !.stage = stage] = r
  BY <1>1 DEF Exchanged
<1>3. exchanges' = [exchanges EXCEPT ![x] = r]
  BY <1>2, Zenon DEF To
<1>4. r \in Exchanged
  BY <1>1 DEF Exchanged
<1>5. QED
  BY <1>1, <1>3, <1>4, Replaced, Zenon

\* A verification with cached keys, or with the published ones.
LEMMA VerifyStep ==
  ASSUME OidcInv, UNCHANGED published, NEW x \in Exchange, exchanges[x] # NotYet,
         NEW keys, VerifyWith(x, keys), ~exchanges[x].force \/ keys = published
  PROVE  OidcInv'
<1>. DEFINE e == exchanges[x]
            verdict == verify_oidc_id_token(e, keys)
            again == [stage |-> "verify", key |-> e.key, sound |-> e.sound, force |-> TRUE,
                      held |-> e.held]
<1>1. e \in Exchanged /\ (e.held => e.key \in published)
  BY Zenon DEF OidcInv, ExchangeOK
<1>2. verdict = "unknown signing key" => e.key \notin keys
  BY <1>1, Zenon DEF verify_oidc_id_token, Exchanged
<1>3. CASE verdict = "verified" /\ To(x, "verified")
  BY <1>3, StageChanges DEF Stages
<1>4. CASE verdict = "invalid token" /\ To(x, "invalid")
  BY <1>4, StageChanges, Zenon DEF Stages
<1>5. CASE /\ verdict = "unknown signing key"
           /\ exchanges' = [exchanges EXCEPT ![x] = again]
  <2>1. again \in Exchanged
    BY <1>1 DEF Exchanged, Stages
  <2>2. QED
    BY <1>1, <1>5, <2>1, Replaced, ZenonT(60)
<1>6. CASE verdict = "unknown signing key" /\ e.force /\ To(x, "unknown")
  <2>1. ~e.held
    BY <1>1, <1>2, <1>6, Zenon
  <2>2. QED
    BY <1>6, <2>1, StageChanges, Zenon DEF Stages
<1>7. QED
  BY <1>3, <1>4, <1>5, <1>6, Zenon DEF VerifyWith

\* A rotation marks the exchanges whose key is withdrawn.
LEMMA RotateStep == ASSUME OidcInv, ProviderRotates PROVE OidcInv'
<1>1. published' \subseteq Key
  BY DEF OidcInv, ProviderRotates
<1>2. ASSUME NEW x \in Exchange
      PROVE  exchanges'[x] \in {NotYet} \cup Exchanged /\ ExchangeOK(x)'
  <2>. DEFINE e == exchanges[x]
  <2>0. e \in {NotYet} \cup Exchanged /\ (e.stage = "unknown" => ~e.held)
    BY DEF OidcInv, ExchangeOK
  <2>1. exchanges'[x] = IF e.stage = "none" \/ e.key \in published'
                        THEN e ELSE [e EXCEPT !.held = FALSE]
    BY DEF ProviderRotates
  <2>2. CASE e = NotYet
    BY <2>1, <2>2 DEF NotYet, ExchangeOK
  <2>3. CASE e \in Exchanged /\ e.key \in published'
    BY <2>0, <2>1, <2>3 DEF ExchangeOK
  <2>4. CASE e \in Exchanged /\ e.key \notin published'
    <3>1. e.stage # "none"
      BY <2>4, Zenon DEF Exchanged, Stages
    <3>2. exchanges'[x] = [e EXCEPT !.held = FALSE]
      BY <2>1, <2>4, <3>1
    <3>3. exchanges'[x] \in Exchanged /\ ~exchanges'[x].held
      BY <2>4, <3>2, Zenon DEF Exchanged
    <3>4. QED
      BY <3>3 DEF ExchangeOK
  <2>5. QED
    BY <2>0, <2>2, <2>3, <2>4
<1>3. exchanges' \in [Exchange -> {NotYet} \cup Exchanged]
  BY <1>2, Zenon DEF ProviderRotates
<1>4. QED
  BY <1>1, <1>2, <1>3 DEF OidcInv

\* Every step keeps the invariant.
LEMMA OidcStepKeeps == OidcInv /\ [OidcNext]_ovars => OidcInv'
<1>. SUFFICES ASSUME OidcInv, [OidcNext]_ovars PROVE OidcInv'
  BY Zenon
<1>1. CASE ProviderRotates
  BY <1>1, RotateStep, Zenon
<1>2. CASE CacheExpires \/ UNCHANGED ovars
  BY <1>2 DEF CacheExpires, ovars, OidcInv, ExchangeOK
<1>3. ASSUME NEW x \in Exchange, exchange_code(x)
      PROVE  OidcInv'
  <2>1. PICK k \in published, sound \in BOOLEAN :
          exchanges' = [exchanges EXCEPT ![x] = [stage |-> "verify", key |-> k,
                          sound |-> sound, force |-> FALSE, held |-> TRUE]]
    BY <1>3, Zenon DEF exchange_code
  <2>2. [stage |-> "verify", key |-> k, sound |-> sound, force |-> FALSE, held |-> TRUE]
          \in Exchanged
    BY Zenon DEF Exchanged, Stages, OidcInv
  <2>3. UNCHANGED published
    BY <1>3 DEF exchange_code
  <2>4. QED
    BY <2>1, <2>2, <2>3, Replaced, Zenon
<1>4. ASSUME NEW x \in Exchange, VerifyFromCache(x)
      PROVE  OidcInv'
  BY <1>4, VerifyStep DEF VerifyFromCache, CacheServes, NotYet
<1>5. ASSUME NEW x \in Exchange, AwaitLock(x)
      PROVE  OidcInv'
  BY <1>5, StageChanges DEF AwaitLock, NotYet, Stages
<1>6. ASSUME NEW x \in Exchange, AcquireLock(x)
      PROVE  OidcInv'
  <2>1. exchanges[x] # NotYet /\ UNCHANGED published
    BY <1>6 DEF AcquireLock, NotYet
  <2>2. CASE CacheServes(x) /\ VerifyWith(x, jwks.keys)
    BY <2>1, <2>2, VerifyStep, Zenon DEF CacheServes
  <2>3. CASE To(x, "fetching")
    BY <2>1, <2>3, StageChanges, Zenon DEF Stages
  <2>4. QED
    BY <1>6, <2>2, <2>3, SMTT(60) DEF AcquireLock
<1>7. ASSUME NEW x \in Exchange, Fetched(x)
      PROVE  OidcInv'
  BY <1>7, VerifyStep DEF Fetched, NotYet
<1>8. ASSUME NEW x \in Exchange, FetchFails(x)
      PROVE  OidcInv'
  BY <1>8, StageChanges DEF FetchFails, NotYet, Stages
<1>9. QED
  BY <1>1, <1>2, <1>3, <1>4, <1>5, <1>6, <1>7, <1>8 DEF OidcNext, OidcStep

(***************************************************************************)
(* No login is refused for a signing key that the provider published from  *)
(* the moment it signed: a key missing from the cache forces one refresh,  *)
(* whoever refreshes meanwhile (oidc_client.py:120-133).                   *)
(***************************************************************************)
THEOREM PublishedKeyAccepted == OidcSpec => []PublishedKeyIsAccepted
<1>1. OidcInit => OidcInv
  BY DEF OidcInit, OidcInv, ExchangeOK, NotYet
<1>2. OidcInv => PublishedKeyIsAccepted
  BY DEF OidcInv, ExchangeOK, PublishedKeyIsAccepted
<1>3. QED
  BY <1>1, <1>2, OidcStepKeeps, PTL DEF OidcSpec
-----------------------------------------------------------------------------
(* Signed tasks, for any number of messages, any lifetimes and clocks.     *)

(***************************************************************************)
(* The inductive invariant: a task that was started while its token was    *)
(* valid was started once, and the marker it left lasts as long as the     *)
(* token, or the token has expired since.                                  *)
(***************************************************************************)
StartedOnce(message, marks, now) ==
  /\ message.early \in {0, 1}
  /\ message.early = 1 => \A t \in message.tokens : t.exp <= now \/ t.exp \in marks

\* What is known of a message: its token counts from when it was made.
MessageTyped(message) ==
  /\ DOMAIN message = {"status", "tokens", "starts", "early", "refusedAt"}
  /\ message.status # "unpublished"
  /\ message.early \in Nat
  /\ \A t \in message.tokens : t.exp \in Int

\* The inductive invariant of delivery.
DeliveryInv ==
  /\ time \in Int
  /\ DOMAIN messages = Message /\ DOMAIN markers = Message
  /\ \A m \in Message : messages[m] # Unpublished =>
       /\ MessageTyped(messages[m])
       /\ strict => StartedOnce(messages[m], markers[m], time)

\* It holds at the start.
LEMMA DeliveryInitial == DeliveryInit => DeliveryInv
BY DeliveryAssumption DEF DeliveryInit, DeliveryInv

\* Every step of delivery keeps it.
LEMMA DeliveryStep == DeliveryInv /\ [DeliveryNext]_dvars => DeliveryInv'
<1>. SUFFICES ASSUME DeliveryInv, [DeliveryNext]_dvars PROVE DeliveryInv'
  BY Zenon
<1>. USE DEF DeliveryInv
<1>1. CASE UNCHANGED dvars
  BY <1>1, Zenon DEF dvars, MessageTyped, StartedOnce
<1>2. CASE TimePasses
  BY <1>2 DEF TimePasses, MessageTyped, StartedOnce
<1>3. ASSUME NEW m \in Message, PublishSigned(m) PROVE DeliveryInv'
  <2>1. PICK d \in (0 - Drift)..Drift :
          messages' = [messages EXCEPT ![m] =
            Queued({Signed("ghostrecon-task+jwt", "publisher", "kid", "queue", m, time + d,
                           Lifetime, m)})]
    BY <1>3, Zenon DEF PublishSigned
  <2>2. time + d + Lifetime \in Int
    BY DeliveryAssumption, SMTT(60)
  <2>3. MessageTyped(messages'[m]) /\ StartedOnce(messages'[m], markers[m], time)
    BY <2>1, <2>2 DEF Queued, Signed, MessageTyped, StartedOnce
  <2>. QED
    BY <1>3, <2>1, <2>3, Zenon DEF PublishSigned
<1>4. ASSUME NEW m \in Message, PublishScheduled(m) PROVE DeliveryInv'
  <2>1. MessageTyped(messages'[m]) /\ StartedOnce(messages'[m], markers[m], time)
    BY <1>4, Zenon DEF PublishScheduled, Queued, MessageTyped, StartedOnce
  <2>. QED
    BY <1>4, <2>1, Zenon DEF PublishScheduled
<1>5. ASSUME NEW m \in Message, before_start(m) PROVE DeliveryInv'
  <2>1. messages[m].status = "queued" /\ UNCHANGED <<strict, time>>
    BY <1>5, Zenon DEF before_start
  <2>2. MessageTyped(messages[m])
    BY <2>1 DEF Unpublished
  <2>3. MessageTyped(Started(m))
    BY <2>2 DEF MessageTyped, Started
  <2>4. CASE /\ ~strict
             /\ messages' = [messages EXCEPT ![m] = Started(m)]
             /\ UNCHANGED markers
    BY <2>1, <2>3, <2>4, Zenon
  <2>5. CASE /\ strict /\ Accepts(m)
             /\ messages' = [messages EXCEPT ![m] = Started(m)]
             /\ markers' = [markers EXCEPT ![m] =
                  {time + MarkerLifetime(t, time) : t \in messages[m].tokens}]
    <3>1. StartedOnce(messages[m], markers[m], time)
      BY <2>1, <2>5 DEF Unpublished
    <3>2. messages'[m] = Started(m)
          /\ markers'[m] = {time + MarkerLifetime(t, time) : t \in messages[m].tokens}
      BY <2>5, Zenon
    <3>3. StartedOnce(Started(m), markers'[m], time)
      <4>1. Started(m).tokens = messages[m].tokens
        BY <2>2, Zenon DEF Started, MessageTyped
      <4>2. CASE \E t \in messages[m].tokens : time < t.exp
        <5>1. messages[m].early = 0
          BY <2>5, <3>1, <4>2, <2>2 DEF Accepts, Marked, StartedOnce, MessageTyped
        <5>2. Started(m).early = 1
          BY <2>2, <4>2, <5>1, SMTT(60) DEF Started, MessageTyped
        <5>3. ASSUME NEW t \in messages[m].tokens, t.exp > time PROVE t.exp \in markers'[m]
          BY <2>2, <3>2, <5>3, SMTT(60) DEF MarkerLifetime, MessageTyped
        <5>. QED
          BY <2>2, <4>1, <5>2, <5>3, SMTT(60) DEF StartedOnce, MessageTyped
      <4>3. CASE ~ \E t \in messages[m].tokens : time < t.exp
        <5>1. Started(m).early = messages[m].early
          BY <2>2, <4>3, Zenon DEF Started, MessageTyped
        <5>. QED
          BY <2>2, <3>1, <4>1, <4>3, <5>1 DEF StartedOnce, MessageTyped
      <4>. QED
        BY <4>2, <4>3, Zenon
    <3>. QED
      BY <2>1, <2>3, <2>5, <3>2, <3>3, Zenon
  <2>6. CASE /\ strict /\ ~Accepts(m)
             /\ messages' = [messages EXCEPT ![m].status = "refused", ![m].refusedAt = {time}]
             /\ UNCHANGED markers
    BY <2>1, <2>2, <2>6 DEF MessageTyped, StartedOnce, Unpublished
  <2>. QED
    BY <1>5, <2>4, <2>5, <2>6, Zenon DEF before_start
<1>6. ASSUME NEW m \in Message, after_return(m) PROVE DeliveryInv'
  BY <1>6 DEF after_return, MessageTyped, StartedOnce, Unpublished
<1>7. ASSUME NEW m \in Message, WorkerLost(m) PROVE DeliveryInv'
  BY <1>7, SMTT(60) DEF WorkerLost, MessageTyped, StartedOnce, Unpublished
<1>. QED
  BY <1>1, <1>2, <1>3, <1>4, <1>5, <1>6, <1>7, Zenon DEF DeliveryNext

\* Until its token expires a task is started once at most, however often it is delivered: the
\* marker its first start leaves outlives the token (tasks.py:138).
THEOREM StartedOnceWhileValid == DeliverySpec => []RunsOnceWhileValid
<1>1. DeliveryInv => RunsOnceWhileValid
  BY SMTT(60) DEF DeliveryInv, RunsOnceWhileValid, StartedOnce
<1>. QED
  BY <1>1, DeliveryInitial, DeliveryStep, PTL DEF DeliverySpec

(***************************************************************************)
(* Why a task that never ran is refused.  The token of a message is what   *)
(* signed_task_headers wrote, its issue is no further ahead than a clock   *)
(* of a publisher may be, and a marker is left by a start alone.           *)
(***************************************************************************)
OwnToken(m, t, now) ==
  \E iat \in Int :
    /\ t = Signed("ghostrecon-task+jwt", "publisher", "kid", "queue", m, iat, Lifetime, m)
    /\ iat <= now + Drift

\* The invariant for tokens nobody else can have used.
RefusalInv ==
  \A m \in Message :
    IF messages[m] = Unpublished THEN markers[m] = {}
    ELSE /\ messages[m].starts \in Nat
         /\ messages[m].starts = 0 => markers[m] = {}
         /\ \A t \in messages[m].tokens : OwnToken(m, t, time)

\* A token that is not accepted by a worker with no marker of its message is too old.
LEMMA NotAcceptedIsOld ==
  ASSUME Drift <= Skew, Lifetime > 0, DeliveryInv, NEW m \in Message,
         markers[m] = {}, ~Accepts(m), NEW t \in messages[m].tokens, OwnToken(m, t, time)
  PROVE  time >= t.exp + Skew
<1>1. PICK iat \in Int :
        /\ t = Signed("ghostrecon-task+jwt", "publisher", "kid", "queue", m, iat, Lifetime, m)
        /\ iat <= time + Drift
  BY Zenon DEF OwnToken
<1>2. /\ t.type = "ghostrecon-task+jwt" /\ t.kid = "kid" /\ t.issuer = "publisher"
      /\ t.audience = "queue" /\ t.binding = m
      /\ t.iat = iat /\ t.nbf = iat /\ t.exp = iat + Lifetime
  BY <1>1, Zenon DEF Signed
<1>3. ~verify_eddsa(t, {"kid"}, "ghostrecon-task+jwt", "publisher", "queue", Lifetime, Skew, time)
  BY <1>2, Zenon DEF Accepts, Verifies, Marked
<1>4. /\ t.iat <= time + Skew /\ t.nbf <= time + Skew
      /\ t.exp > t.iat /\ t.exp - t.iat <= Lifetime
  BY <1>1, <1>2, DeliveryAssumption DEF DeliveryInv
<1>5. ~(t.exp > time - Skew)
  BY <1>2, <1>3, <1>4, Zenon DEF verify_eddsa
<1>. QED
  BY <1>2, <1>5, DeliveryAssumption DEF DeliveryInv

\* Every step of delivery keeps that too.
LEMMA RefusalStep ==
  ASSUME Drift <= Skew, Lifetime > 0
  PROVE  DeliveryInv /\ RefusalInv /\ RefusedForItsAge /\ [DeliveryNext]_dvars
           => RefusalInv' /\ RefusedForItsAge'
<1>. SUFFICES ASSUME DeliveryInv, RefusalInv, RefusedForItsAge, [DeliveryNext]_dvars
              PROVE  RefusalInv' /\ RefusedForItsAge'
  BY Zenon
<1>. USE DEF RefusalInv, RefusedForItsAge
<1>0. Drift \in Nat /\ time \in Int /\ DOMAIN messages = Message /\ DOMAIN markers = Message
  BY DeliveryAssumption, Zenon DEF DeliveryInv
<1>1. CASE UNCHANGED dvars
  BY <1>1, Zenon DEF dvars
<1>2. CASE TimePasses
  <2>1. ASSUME NEW m \in Message, NEW t, OwnToken(m, t, time) PROVE OwnToken(m, t, time + 1)
    BY <1>0, <2>1, SMTT(60) DEF OwnToken
  <2>. QED
    BY <1>2, <2>1, Zenon DEF TimePasses
<1>3. ASSUME NEW m \in Message, PublishSigned(m) \/ PublishScheduled(m)
      PROVE  RefusalInv' /\ RefusedForItsAge'
  <2>1. PICK tokens : /\ messages' = [messages EXCEPT ![m] = Queued(tokens)]
                      /\ \A t \in tokens : OwnToken(m, t, time)
    <3>1. CASE PublishScheduled(m)
      BY <3>1, Zenon DEF PublishScheduled
    <3>2. CASE PublishSigned(m)
      <4>. DEFINE T(d) == Signed("ghostrecon-task+jwt", "publisher", "kid", "queue", m, time + d,
                                 Lifetime, m)
      <4>1. PICK d \in (0 - Drift)..Drift : messages' = [messages EXCEPT ![m] = Queued({T(d)})]
        BY <3>2, Zenon DEF PublishSigned
      <4>2. OwnToken(m, T(d), time)
        BY <1>0 DEF OwnToken
      <4>. HIDE DEF T
      <4>. QED
        BY <4>1, <4>2, Zenon
    <3>. QED
      BY <1>3, <3>1, <3>2, Zenon
  <2>. QED
    BY <1>0, <1>3, <2>1 DEF PublishSigned, PublishScheduled, Queued
<1>4. ASSUME NEW m \in Message, before_start(m) PROVE RefusalInv' /\ RefusedForItsAge'
  <2>1. /\ messages[m].status = "queued" /\ UNCHANGED <<strict, time>>
        /\ messages[m] # Unpublished /\ MessageTyped(messages[m])
    BY <1>4, SMTT(60) DEF before_start, Unpublished, DeliveryInv
  <2>2. CASE messages' = [messages EXCEPT ![m] = Started(m)]
    <3>1. /\ Started(m).status = "running" /\ Started(m).starts = messages[m].starts + 1
          /\ Started(m).tokens = messages[m].tokens
      BY <2>1, Zenon DEF Started, MessageTyped
    <3>2. \A n \in Message \ {m} : UNCHANGED <<messages[n], markers[n]>>
      BY <1>0, <1>4, ZenonT(60) DEF before_start
    <3>3. messages'[m] = Started(m) /\ Started(m) # Unpublished /\ Started(m).starts # 0
      BY <1>0, <2>1, <2>2, <3>1 DEF Unpublished
    <3>. QED
      BY <2>1, <3>1, <3>2, <3>3
  <2>3. CASE /\ strict /\ ~Accepts(m)
             /\ messages' = [messages EXCEPT ![m].status = "refused", ![m].refusedAt = {time}]
             /\ UNCHANGED markers
    <3>1. /\ messages'[m].status = "refused" /\ messages'[m].refusedAt = {time}
          /\ messages'[m].starts = messages[m].starts
          /\ messages'[m].tokens = messages[m].tokens
      BY <1>0, <2>1, <2>3, Zenon DEF MessageTyped
    <3>2. \A n \in Message \ {m} : UNCHANGED messages[n]
      BY <1>0, <2>3, Zenon
    <3>3. messages'[m] # Unpublished
      BY <3>1 DEF Unpublished
    <3>4. messages[m].starts = 0 => \A t \in messages[m].tokens : time >= t.exp + Skew
      BY <2>1, <2>3, NotAcceptedIsOld, Zenon
    <3>. QED
      BY <2>1, <2>3, <3>1, <3>2, <3>3, <3>4, ZenonT(60)
  <2>. QED
    BY <1>4, <2>2, <2>3, Zenon DEF before_start
<1>5. ASSUME NEW m \in Message, after_return(m) \/ WorkerLost(m)
      PROVE  RefusalInv' /\ RefusedForItsAge'
  <2>1. messages[m] # Unpublished /\ MessageTyped(messages[m]) /\ UNCHANGED <<markers, time>>
    BY <1>5 DEF after_return, WorkerLost, Unpublished, DeliveryInv
  <2>2. /\ messages'[m].status \in {"returned", "queued"}
        /\ messages'[m].starts = messages[m].starts
        /\ messages'[m].tokens = messages[m].tokens
    BY <1>0, <1>5, <2>1 DEF after_return, WorkerLost, MessageTyped
  <2>3. \A n \in Message \ {m} : UNCHANGED messages[n]
    BY <1>0, <1>5, Zenon DEF after_return, WorkerLost
  <2>. QED
    BY <2>1, <2>2, <2>3 DEF Unpublished
<1>. QED
  BY <1>1, <1>2, <1>3, <1>4, <1>5, Zenon DEF DeliveryNext

\* A signed task that never ran is refused for its age alone, as long as the clocks of the
\* publishers are off by no more than the tolerance (tasks.py:111-139).
THEOREM RefusedOnlyForAge ==
  ASSUME Drift <= Skew, Lifetime > 0
  PROVE  DeliverySpec => []RefusedForItsAge
<1>1. DeliveryInit => RefusalInv /\ RefusedForItsAge
  BY DEF DeliveryInit, RefusalInv, RefusedForItsAge, Unpublished
<1>. QED
  BY <1>1, DeliveryInitial, DeliveryStep, RefusalStep, PTL DEF DeliverySpec
-----------------------------------------------------------------------------
(* A request on its way, for any routes, visitors, limits and durations.   *)

\* What SecurityRoute lets through has the permission of the route, and for a privileged one a
\* strong and recent sign-in (routing.py:70, policy.py).
LEMMA AllowedIsAuthorized ==
  ASSUME NEW identity, NEW route, NEW now \in Int, identity.authenticated_at \in Int,
         RouteDecision(identity, classify_domain_operation(route, RecentAge), now) = "allowed"
  PROVE  /\ PermissionOf(route) \in identity.permissions
         /\ PermissionOf(route) \in Privileged =>
              /\ identity.assurance = "aal2_phishing_resistant"
              /\ now <= identity.authenticated_at + RecentAge
<1>. DEFINE policy == classify_domain_operation(route, RecentAge)
<1>1. /\ policy.permission = PermissionOf(route)
      /\ PermissionOf(route) \in Privileged =>
           policy.assurance = "aal2_phishing_resistant" /\ policy.age = {RecentAge}
  BY Zenon DEF classify_domain_operation
<1>. HIDE DEF policy
<1>2. authorize(identity, policy.permission, policy.assurance, policy.age, now) = "allowed"
  BY Zenon DEF RouteDecision, policy
<1>3. /\ policy.permission \in identity.permissions
      /\ assurance_satisfies(identity.assurance, policy.assurance)
      /\ ~ \E age \in policy.age : now > identity.authenticated_at + age
  BY <1>2, Zenon DEF authorize
<1>. QED
  BY <1>1, <1>3, GatewayAssumption DEF assurance_satisfies

(***************************************************************************)
(* The inductive invariant: the on-behalf-of token says of the visitor     *)
(* what the session said, and what the limit let through was counted, by   *)
(* Redis or, for reads alone, in memory.                                   *)
(***************************************************************************)
Counter == [RateClass \X Subjects \X Bucket -> Nat]
\* A count as the limiter sees it.
AtMost(n) == IF n <= Limit THEN n ELSE Limit

\* What the limiter let pass in a window it has counted.
PassedIsCounted ==
  \A k \in RateClass \X Subjects \X Bucket :
    passed[k] <= AtMost(counters[k]) + (IF k[1] = "read" THEN AtMost(fallback[k]) ELSE 0)

\* The envelope speaks for the visitor.
OnBehalfOf(envelope, visitor) ==
  /\ envelope.permissions = permissions_for_roles(visitor.roles)
  /\ envelope.assurance = visitor.assurance
  /\ envelope.authenticated_at = visitor.authenticated_at

\* What is known of a request at each hop.
RequestInv(q) ==
  /\ q.at \in {"limit", "route"} =>
       DOMAIN q = {"at", "route", "visitor"} /\ q.visitor \in Visitors
  /\ q.at \in {"sent", "owner limit", "owner route"} =>
       /\ DOMAIN q = {"at", "route", "visitor", "envelope"} /\ q.visitor \in Visitors
       /\ OnBehalfOf(q.envelope, q.visitor)
  /\ q.at = "served" =>
       /\ PermissionOf(q.route) \in permissions_for_roles(q.visitor.roles)
       /\ PermissionOf(q.route) \in Privileged =>
            /\ q.visitor.assurance = "aal2_phishing_resistant"
            /\ q.when <= q.visitor.authenticated_at + RecentAge

\* The inductive invariant of the gateway.
GatewayInv ==
  /\ moment \in Nat
  /\ counters \in Counter /\ fallback \in Counter /\ passed \in Counter
  /\ PassedIsCounted
  /\ DOMAIN inflight = Request
  /\ \A r \in Request : RequestInv(inflight[r])

\* It holds at the start.
LEMMA GatewayInitial == GatewayInit => GatewayInv
<1>. SUFFICES ASSUME GatewayInit PROVE GatewayInv
  BY Zenon
<1>1. Zero \in Counter
  BY Zenon DEF Zero, Counter
<1>2. PassedIsCounted
  BY GatewayAssumption DEF GatewayInit, Zero, PassedIsCounted, AtMost
<1>. QED
  BY <1>1, <1>2, Zenon DEF GatewayInit, GatewayInv, RequestInv, NotSent

\* A request is refused, or moves on with the limits as they are.
LEMMA InflightMoves ==
  ASSUME GatewayInv, NEW r \in Request, NEW q, RequestInv(q),
         inflight' = [inflight EXCEPT ![r] = q],
         UNCHANGED <<counters, fallback, moment, passed>>
  PROVE  GatewayInv'
BY Zenon DEF GatewayInv, PassedIsCounted

\* A refused request promises nothing.
LEMMA RefusedIsFine == ASSUME NEW code PROVE RequestInv([at |-> "refused", code |-> code])
BY Zenon DEF RequestInv

\* A number more in one place.
LEMMA OneMore ==
  ASSUME NEW K, NEW count \in [K -> Nat], NEW key, NEW more,
         more = [count EXCEPT ![key] = @ + 1]
  PROVE  /\ more \in [K -> Nat]
         /\ \A k \in K : more[k] = IF k = key THEN count[k] + 1 ELSE count[k]
<1>1. \A k \in K : more[k] = IF k = key THEN count[k] + 1 ELSE count[k]
  BY Zenon
<1>2. \A k \in K : more[k] \in Nat
  BY <1>1
<1>3. more = [k \in K |-> IF k = key THEN count[k] + 1 ELSE count[k]]
  BY Zenon
<1>. QED
  BY <1>1, <1>2, <1>3, Zenon

\* One more is counted, and let through only where the counter is below the limit.
LEMMA AtMostCounts ==
  ASSUME NEW n \in Nat
  PROVE  /\ AtMost(n) \in Nat
         /\ AtMost(n) <= AtMost(n + 1)
         /\ n + 1 <= Limit => AtMost(n + 1) = AtMost(n) + 1
<1>1. Limit \in Nat
  BY GatewayAssumption, Zenon
<1>. QED
  BY <1>1 DEF AtMost

\* A request that passes the limit, or is refused by it.
LEMMA LimitKeeps ==
  ASSUME GatewayInv, NEW r \in Request, NEW class, NEW subject, NEW at,
         RequestInv([inflight[r] EXCEPT !.at = at]),
         Limited(r, class, subject, inflight' = [inflight EXCEPT ![r].at = at]),
         UNCHANGED moment
  PROVE  GatewayInv'
<1>. DEFINE K == RateClass \X Subjects \X Bucket
            key == KeyOf(class, subject)
<1>0. key[1] = class
  BY Zenon DEF KeyOf
<1>1. DOMAIN inflight' = Request /\ \A s \in Request : RequestInv(inflight'[s])
  <2>1. \/ inflight' = [inflight EXCEPT ![r].at = at]
        \/ \E code : Refuse(r, code)
    BY Zenon DEF Limited
  <2>. QED
    BY <2>1, RefusedIsFine DEF GatewayInv, Refuse
<1>2. /\ counters \in [K -> Nat] /\ fallback \in [K -> Nat] /\ passed \in [K -> Nat]
      /\ \A k \in K : passed[k] <= AtMost(counters[k])
                                     + (IF k[1] = "read" THEN AtMost(fallback[k]) ELSE 0)
  BY Zenon DEF GatewayInv, Counter, PassedIsCounted
<1>3. \/ UNCHANGED <<counters, fallback, passed>>
      \/ /\ counters' = [counters EXCEPT ![key] = @ + 1] /\ UNCHANGED fallback
         /\ \/ UNCHANGED passed
            \/ ~(counters[key] + 1 > Limit) /\ passed' = [passed EXCEPT ![key] = @ + 1]
      \/ /\ fallback' = [fallback EXCEPT ![key] = @ + 1] /\ UNCHANGED counters
         /\ class = "read"
         /\ \/ UNCHANGED passed
            \/ ~(fallback[key] + 1 > Limit) /\ passed' = [passed EXCEPT ![key] = @ + 1]
  BY Zenon DEF Limited, FailClosed
<1>. HIDE DEF K, key
<1>4. /\ counters' \in [K -> Nat] /\ fallback' \in [K -> Nat] /\ passed' \in [K -> Nat]
  BY <1>2, <1>3, OneMore
<1>5. ASSUME NEW k \in K
      PROVE  passed'[k] <= AtMost(counters'[k])
                             + (IF k[1] = "read" THEN AtMost(fallback'[k]) ELSE 0)
  <2>. DEFINE spare(f) == IF k[1] = "read" THEN AtMost(f[k]) ELSE 0
  <2>1. /\ counters[k] \in Nat /\ fallback[k] \in Nat /\ passed[k] \in Nat
        /\ passed[k] <= AtMost(counters[k]) + spare(fallback)
    BY <1>2, Zenon
  <2>2. spare(fallback) \in Nat
    BY <2>1, AtMostCounts, Zenon
  <2>3. CASE /\ counters' = [counters EXCEPT ![key] = @ + 1] /\ UNCHANGED fallback
             /\ \/ UNCHANGED passed
                \/ ~(counters[key] + 1 > Limit) /\ passed' = [passed EXCEPT ![key] = @ + 1]
    <3>1. counters'[k] = IF k = key THEN counters[k] + 1 ELSE counters[k]
      BY <1>2, <2>3, OneMore, Zenon
    <3>2. \/ passed'[k] = passed[k]
          \/ k = key /\ ~(counters[k] + 1 > Limit) /\ passed'[k] = passed[k] + 1
      BY <1>2, <2>3, OneMore
    <3>. HIDE DEF spare
    <3>3. passed'[k] <= AtMost(counters'[k]) + spare(fallback)
      BY <2>1, <2>2, <3>1, <3>2, AtMostCounts, GatewayAssumption
    <3>. QED
      BY <2>3, <3>3, Zenon DEF spare
  <2>4. CASE /\ fallback' = [fallback EXCEPT ![key] = @ + 1] /\ UNCHANGED counters
             /\ class = "read"
             /\ \/ UNCHANGED passed
                \/ ~(fallback[key] + 1 > Limit) /\ passed' = [passed EXCEPT ![key] = @ + 1]
    <3>1. fallback'[k] = IF k = key THEN fallback[k] + 1 ELSE fallback[k]
      BY <1>2, <2>4, OneMore, Zenon
    <3>2. \/ passed'[k] = passed[k]
          \/ /\ k = key /\ k[1] = "read"
             /\ ~(fallback[k] + 1 > Limit) /\ passed'[k] = passed[k] + 1
      BY <1>0, <1>2, <2>4, OneMore
    <3>3. passed'[k] <= AtMost(counters[k]) + spare(fallback')
      BY <2>1, <3>1, <3>2, AtMostCounts, GatewayAssumption
    <3>. QED
      BY <2>4, <3>3, Zenon
  <2>. QED
    BY <1>3, <2>1, <2>3, <2>4, Zenon
<1>. QED
  BY <1>1, <1>4, <1>5, Zenon DEF GatewayInv, Counter, PassedIsCounted, K

\* Every step of the gateway keeps it.
LEMMA GatewayStep == GatewayInv /\ [GatewayNext]_gvars => GatewayInv'
<1>. SUFFICES ASSUME GatewayInv, [GatewayNext]_gvars PROVE GatewayInv'
  BY Zenon
<1>1. CASE UNCHANGED gvars
  BY <1>1, Zenon DEF gvars, GatewayInv, PassedIsCounted
<1>2. CASE MomentPasses \/ RedisFails \/ RedisReturns
  BY <1>2 DEF MomentPasses, RedisFails, RedisReturns, GatewayInv, PassedIsCounted
<1>3. ASSUME NEW r \in Request, Arrive(r) PROVE GatewayInv'
  <2>1. UNCHANGED <<counters, fallback, moment, passed>>
    BY <1>3, Zenon DEF Arrive
  <2>2. \/ \E code : Refuse(r, code)
        \/ \E route \in Routes, v \in Visitors :
             inflight' = [inflight EXCEPT ![r] =
                            [at |-> "limit", route |-> route, visitor |-> v]]
    BY <1>3, Zenon DEF Arrive
  <2>3. ASSUME NEW route, NEW v \in Visitors
        PROVE  RequestInv([at |-> "limit", route |-> route, visitor |-> v])
    BY Zenon DEF RequestInv
  <2>. QED
    BY <2>1, <2>2, <2>3, RefusedIsFine, InflightMoves, Zenon DEF Refuse
<1>4. ASSUME NEW r \in Request, GatewayLimits(r) PROVE GatewayInv'
  <2>1. RequestInv([inflight[r] EXCEPT !.at = "route"])
    BY <1>4, Zenon DEF GatewayLimits, GatewayInv, RequestInv
  <2>. QED
    BY <1>4, <2>1, LimitKeeps, Zenon DEF GatewayLimits
<1>5. ASSUME NEW r \in Request, OwnerLimits(r) PROVE GatewayInv'
  <2>1. RequestInv([inflight[r] EXCEPT !.at = "owner route"])
    BY <1>5, Zenon DEF OwnerLimits, GatewayInv, RequestInv
  <2>. QED
    BY <1>5, <2>1, LimitKeeps, Zenon DEF OwnerLimits
<1>6. ASSUME NEW r \in Request, GatewayRoutes(r) PROVE GatewayInv'
  <2>1. UNCHANGED <<counters, fallback, moment, passed>>
    BY <1>6, Zenon DEF GatewayRoutes
  <2>. DEFINE q == [at |-> "sent", route |-> inflight[r].route, visitor |-> inflight[r].visitor,
                    envelope |-> Envelope(r)]
  <2>2. (\E code : Refuse(r, code)) \/ inflight' = [inflight EXCEPT ![r] = q]
    BY <1>6, Zenon DEF GatewayRoutes, GatewayInv
  <2>3. RequestInv(q)
    BY <1>6, Zenon DEF GatewayRoutes, GatewayInv, RequestInv, Envelope, OnBehalfOf
  <2>. QED
    BY <2>1, <2>2, <2>3, RefusedIsFine, InflightMoves, Zenon DEF Refuse
<1>7. ASSUME NEW r \in Request, OwnerUnavailable(r) \/ OwnerResolves(r) PROVE GatewayInv'
  <2>1. UNCHANGED <<counters, fallback, moment, passed>>
    BY <1>7, Zenon DEF OwnerUnavailable, OwnerResolves
  <2>. DEFINE q == [inflight[r] EXCEPT !.at = "owner limit"]
  <2>2. (\E code : Refuse(r, code)) \/ inflight' = [inflight EXCEPT ![r] = q]
    BY <1>7, Zenon DEF OwnerUnavailable, OwnerResolves, GatewayInv
  <2>3. RequestInv(q)
    BY <1>7, ZenonT(60) DEF OwnerUnavailable, OwnerResolves, GatewayInv, RequestInv
  <2>. QED
    BY <2>1, <2>2, <2>3, RefusedIsFine, InflightMoves, Zenon DEF Refuse
<1>8. ASSUME NEW r \in Request, OwnerServes(r) PROVE GatewayInv'
  <2>1. UNCHANGED <<counters, fallback, moment, passed>>
    BY <1>8, Zenon DEF OwnerServes
  <2>. DEFINE route == inflight[r].route
              visitor == inflight[r].visitor
              seen == Represented(inflight[r].envelope)
              q == [at |-> "served", route |-> route, visitor |-> visitor, when |-> moment]
  <2>2. \/ \E code : Refuse(r, code)
        \/ /\ RouteDecision(seen, classify_domain_operation(route, RecentAge), moment) = "allowed"
           /\ inflight' = [inflight EXCEPT ![r] = q]
    BY <1>8, Zenon DEF OwnerServes, GatewayInv, Policy
  <2>3. /\ seen.permissions = permissions_for_roles(visitor.roles)
        /\ seen.assurance = visitor.assurance
        /\ seen.authenticated_at = visitor.authenticated_at
        /\ visitor.authenticated_at \in Nat
    BY <1>8, GatewayAssumption, Zenon DEF OwnerServes, GatewayInv, RequestInv, OnBehalfOf,
       Represented
  <2>4. ASSUME RouteDecision(seen, classify_domain_operation(route, RecentAge), moment) = "allowed"
        PROVE  RequestInv(q)
    <3>. HIDE DEF seen, route, visitor
    <3>1. /\ PermissionOf(route) \in permissions_for_roles(visitor.roles)
          /\ PermissionOf(route) \in Privileged =>
               /\ visitor.assurance = "aal2_phishing_resistant"
               /\ moment <= visitor.authenticated_at + RecentAge
      BY <2>3, <2>4, AllowedIsAuthorized DEF GatewayInv
    <3>. QED
      BY <3>1, ZenonT(60) DEF RequestInv
  <2>. HIDE DEF q
  <2>. QED
    BY <2>1, <2>2, <2>4, RefusedIsFine, InflightMoves, Zenon DEF Refuse
<1>. QED
  BY <1>1, <1>2, <1>3, <1>4, <1>5, <1>6, <1>7, <1>8, Zenon DEF GatewayNext

\* A handler of an owner runs only for someone who has the permission of the route, and a
\* decision of governance only with a strong and recent sign-in at that moment (routing.py:70,
\* operations.py:442).
THEOREM ServedAuthorized == GatewaySpec => []ServedIsAuthorized
<1>1. GatewayInv => ServedIsAuthorized
  BY ZenonT(60) DEF GatewayInv, RequestInv, ServedIsAuthorized
<1>. QED
  BY <1>1, GatewayInitial, GatewayStep, PTL DEF GatewaySpec

\* Nobody makes more than Limit changes in a window, and twice as many reads, whenever Redis
\* comes and goes (rate_limit.py:58).
THEOREM RateBounded == GatewaySpec => []RateIsBounded
<1>1. GatewayInv => RateIsBounded
  <2>. SUFFICES ASSUME GatewayInv, NEW k \in DOMAIN passed
                PROVE  passed[k] <= IF k[1] = "read" THEN 2 * Limit ELSE Limit
    BY Zenon DEF RateIsBounded
  <2>1. /\ k \in RateClass \X Subjects \X Bucket
        /\ counters[k] \in Nat /\ fallback[k] \in Nat /\ passed[k] \in Nat
        /\ passed[k] <= AtMost(counters[k]) + (IF k[1] = "read" THEN AtMost(fallback[k]) ELSE 0)
    BY Zenon DEF GatewayInv, Counter, PassedIsCounted
  <2>2. /\ AtMost(counters[k]) \in Nat /\ AtMost(counters[k]) <= Limit
        /\ AtMost(fallback[k]) \in Nat /\ AtMost(fallback[k]) <= Limit
    BY <2>1, GatewayAssumption DEF AtMost
  <2>. QED
    BY <2>1, <2>2, GatewayAssumption
<1>. QED
  BY <1>1, GatewayInitial, GatewayStep, PTL DEF GatewaySpec
-----------------------------------------------------------------------------
(* Configuration, for any settings a deployment may come with.             *)

\* What the handlers of a service ask for is among what validation looks at.
LEMMA UsesAreRequired == \A name \in ServiceName : Uses(name) \subseteq Required(name)
<1>. SUFFICES ASSUME NEW name \in ServiceName PROVE Uses(name) \subseteq Required(name)
  BY Zenon
<1>1. Required(name) = SERVICE_REQUIREMENTS[name] \cap Capability
  BY Zenon DEF Required, requirements_for
<1>2. CASE name = "event-intelligence-service"
  BY <1>1, <1>2, Zenon DEF Uses, SERVICE_REQUIREMENTS, Capability
<1>3. CASE name = "incident-intelligence-service"
  BY <1>1, <1>3, Zenon DEF Uses, SERVICE_REQUIREMENTS, Capability
<1>4. CASE name = "enrichment-service"
  BY <1>1, <1>4, Zenon DEF Uses, SERVICE_REQUIREMENTS, Capability
<1>5. CASE name = "email-intelligence-service"
  BY <1>1, <1>5, Zenon DEF Uses, SERVICE_REQUIREMENTS, Capability
<1>6. CASE name = "crm-service"
  BY <1>1, <1>6, Zenon DEF Uses, SERVICE_REQUIREMENTS, Capability
<1>7. CASE name = "sequencing-service"
  BY <1>1, <1>7, Zenon DEF Uses, SERVICE_REQUIREMENTS, Capability
<1>8. CASE name = "meeting-handoff-service"
  BY <1>1, <1>8, Zenon DEF Uses, SERVICE_REQUIREMENTS, Capability
<1>9. CASE name = "worker"
  BY <1>1, <1>9, Zenon DEF Uses, SERVICE_REQUIREMENTS, Capability
<1>. QED
  BY <1>2, <1>3, <1>4, <1>5, <1>6, <1>7, <1>8, <1>9, Zenon DEF Uses

\* Settings that pass validation: every required capability is live and has its credentials.
LEMMA ValidIsLive ==
  ASSUME NEW s, NEW name, NEW c \in Required(name), strict_runtime(s),
         validate_configuration(s, name) = {}
  PROVE  s.provider[c] = "live" /\ \A n \in CredentialsOf[c] : s.value[n] # "missing"
<1>1. ProviderIssues(s, name) = {}
  BY Zenon DEF validate_configuration
<1>2. /\ {<<d, "non_live_provider">> : d \in {e \in Required(name) : s.provider[e] # "live"}} = {}
      /\ {<<n, "missing_credential">> :
            n \in {m \in UNION {CredentialsOf[d] : d \in Required(name)} :
                     s.value[m] = "missing"}} = {}
  BY <1>1, Zenon DEF ProviderIssues
<1>3. s.provider[c] = "live"
  BY <1>2, Zenon
<1>4. ASSUME NEW n \in CredentialsOf[c] PROVE s.value[n] # "missing"
  <2>1. n \in UNION {CredentialsOf[d] : d \in Required(name)}
    BY Zenon
  <2>. QED
    BY <1>2, <2>1, ZenonT(60)
<1>. QED
  BY <1>3, <1>4, Zenon

\* The factory of such a capability makes a live adapter.
LEMMA LiveIsBuilt ==
  ASSUME NEW s, NEW c \in Capability, s.provider[c] = "live",
         \A n \in CredentialsOf[c] : s.value[n] # "missing"
  PROVE  Adapter(s, c) = "live"
<1>. USE DEF Adapter, Built, assert_adapter_allowed
<1>1. CASE c = "crm"
  <2>1. "attio_access_token" \in CredentialsOf[c]
    BY <1>1, Zenon DEF CredentialsOf, Capability
  <2>. QED
    BY <1>1, <2>1, Zenon DEF crm_client_for_settings, AttioCrmClient
<1>2. CASE c = "calendar"
  BY <1>2, Zenon DEF calendar_client_for_settings, GoogleCalendarClient
<1>3. CASE c = "geocoder" \/ c = "search"
  BY <1>3, Zenon DEF geocoder_for_settings, search_provider_for_settings
<1>4. CASE c = "news"
  <2>1. "serpapi_api_key" \in CredentialsOf[c]
    BY <1>4, Zenon DEF CredentialsOf, Capability
  <2>. QED
    BY <1>4, <2>1, Zenon DEF news_provider_for_settings, SerpApiGoogleNewsProvider
<1>5. CASE c = "smtp"
  <2>1. "smtp_host" \in CredentialsOf[c]
    BY <1>5, Zenon DEF CredentialsOf, Capability
  <2>. QED
    BY <1>5, <2>1, Zenon DEF StdlibSmtpSender
<1>6. CASE c = "imap"
  <2>1. "imap_host" \in CredentialsOf[c]
    BY <1>6, Zenon DEF CredentialsOf, Capability
  <2>. QED
    BY <1>6, <2>1, Zenon DEF StdlibImapPoller
<1>7. CASE c = "verifier"
  BY <1>7, Zenon
<1>. QED
  BY <1>1, <1>2, <1>3, <1>4, <1>5, <1>6, <1>7, Zenon DEF Capability

\* The settings of a process that runs passed validation, and they are read once.
ConfigInv ==
  /\ service \in ServiceName
  /\ running => validate_configuration(settings, service) = {}
  /\ StartedIsEquipped

\* A service of a strict runtime that started gets a live adapter whenever a handler asks
\* (configuration.py:159, 350).
THEOREM StartedEquipped == ConfigSpec => []StartedIsEquipped
<1>1. ConfigInit => ConfigInv
  BY Zenon DEF ConfigInit, ConfigInv, StartedIsEquipped
<1>2. ConfigInv /\ [ConfigNext]_configvars => ConfigInv'
  <2>. SUFFICES ASSUME ConfigInv, [ConfigNext]_configvars PROVE ConfigInv'
    BY Zenon
  <2>1. CASE UNCHANGED configvars
    BY <2>1, Zenon DEF configvars, ConfigInv, StartedIsEquipped
  <2>2. CASE Start
    BY <2>2, Zenon DEF Start, ConfigInv, StartedIsEquipped
  <2>3. ASSUME NEW c \in Capability, HandlerAsks(c) PROVE ConfigInv'
    <3>1. strict_runtime(settings) => Adapter(settings, c) = "live"
      BY <2>3, UsesAreRequired, ValidIsLive, LiveIsBuilt, Zenon DEF HandlerAsks, ConfigInv
    <3>. QED
      BY <2>3, <3>1, Zenon DEF HandlerAsks, ConfigInv, StartedIsEquipped
  <2>. QED
    BY <2>1, <2>2, <2>3, Zenon DEF ConfigNext
<1>3. ConfigInv => StartedIsEquipped
  BY Zenon DEF ConfigInv
<1>. QED
  BY <1>1, <1>2, <1>3, PTL DEF ConfigSpec
=============================================================================
