------------------------------- MODULE Tokens -------------------------------
(***************************************************************************)
(* Signed tokens (security/jwt.py, workload.py and tasks.py): what         *)
(* a signer writes into one and what a verifier accepts.  A token is the   *)
(* record of its header and claims; a signature verifies when the public   *)
(* key that kid names is the one of the signer.  Times are in units that   *)
(* divide the lifetimes.                                                   *)
(***************************************************************************)
EXTENDS Integers

\* sign_eddsa over service_claims, obo_claims or the claims of a task: not before is a
\* second before the issue, which no unit here tells from it.
Signed(type, issuer, kid, audience, binding, issued, lifetime, jti) ==
  [type |-> type, issuer |-> issuer, kid |-> kid, audience |-> audience, binding |-> binding,
   iat |-> issued, nbf |-> issued, exp |-> issued + lifetime, jti |-> jti]

verify_eddsa(token, keys, type, issuer, audience, maximum, skew, now) ==
  /\ token.type = type
  /\ token.kid \in keys
  /\ token.issuer = issuer
  /\ token.audience = audience
  /\ token.iat <= now + skew
  /\ token.nbf <= now + skew
  /\ token.exp > now - skew
  /\ token.exp > token.iat
  /\ token.exp - token.iat <= maximum

\* The seconds a replay marker is kept: until the token expires, and for one at least.
MarkerLifetime(token, now) == IF token.exp > now THEN token.exp - now ELSE 1
=============================================================================
