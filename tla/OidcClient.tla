----------------------------- MODULE OidcClient -----------------------------
(***************************************************************************)
(* The gateway's OIDC client (security/oidc_client.py): concurrent code    *)
(* exchanges share the cached metadata and signing keys of the provider,   *)
(* which rotates its keys.  A token signed by a key that is not in the     *)
(* cache forces one refresh, under a lock, and a second verification.      *)
(***************************************************************************)
EXTENDS Naturals, FiniteSets

CONSTANTS
  Exchange,     \* callbacks that exchange a code at the same time
  Key,          \* signing keys of the provider
  Nobody,
  MaxRotations, \* bound: changes of the published keys
  MaxFailures   \* bound: provider responses that fail

ASSUME OidcAssumption == Nobody \notin Exchange /\ {MaxRotations, MaxFailures} \subseteq Nat

VARIABLES
  published,    \* the keys of the provider's JWKS document
  jwks,         \* the cached document: known, fresh, keys
  lock,         \* _refresh_lock
  exchanges,
  rotations,
  failures

ovars == <<published, jwks, lock, exchanges, rotations, failures>>

Unknown == [known |-> FALSE, fresh |-> FALSE, keys |-> {}]
NotYet == [stage |-> "none"]

OidcInit ==
  /\ published \in {{k} : k \in Key}
  /\ jwks = Unknown
  /\ lock = Nobody
  /\ exchanges = [x \in Exchange |-> NotYet]
  /\ rotations = 0
  /\ failures = 0

\* The provider adds a key, or withdraws one and keeps at least one.
ProviderRotates ==
  /\ rotations < MaxRotations
  /\ \/ \E k \in Key \ published : published' = published \cup {k}
     \/ \E k \in published : published # {k} /\ published' = published \ {k}
  /\ rotations' = rotations + 1
  /\ exchanges' = [x \in Exchange |->
       IF exchanges[x].stage = "none" \/ exchanges[x].key \in published'
       THEN exchanges[x] ELSE [exchanges[x] EXCEPT !.held = FALSE]]
  /\ UNCHANGED <<jwks, lock, failures>>

\* oidc_jwks_cache_seconds have passed.
CacheExpires ==
  /\ jwks.fresh
  /\ jwks' = [jwks EXCEPT !.fresh = FALSE]
  /\ UNCHANGED <<published, lock, exchanges, rotations, failures>>

\* The token endpoint answers with a token signed by a key the provider publishes then; its
\* issuer, audience, nonce, times and verified address are right or not.
exchange_code(x) ==
  /\ exchanges[x] = NotYet
  /\ \E k \in published, sound \in BOOLEAN :
       exchanges' = [exchanges EXCEPT ![x] =
         [stage |-> "verify", key |-> k, sound |-> sound, force |-> FALSE, held |-> TRUE]]
  /\ UNCHANGED <<published, jwks, lock, rotations, failures>>

To(x, stage) == exchanges' = [exchanges EXCEPT ![x].stage = stage]

verify_oidc_id_token(token, keys) ==
  CASE token.key \notin keys -> "unknown signing key"
    [] token.key \in keys /\ ~token.sound -> "invalid token"
    [] OTHER -> "verified"

\* _verify_with_rotation: an unknown key forces one refresh and a second try.
VerifyWith(x, keys) ==
  LET verdict == verify_oidc_id_token(exchanges[x], keys)
  IN \/ /\ verdict = "verified"
        /\ To(x, "verified")
     \/ /\ verdict = "invalid token"
        /\ To(x, "invalid")
     \/ /\ verdict = "unknown signing key"
        /\ ~exchanges[x].force
        /\ exchanges' = [exchanges EXCEPT ![x] = [stage |-> "verify", key |-> @.key,
                            sound |-> @.sound, force |-> TRUE, held |-> @.held]]
     \/ /\ verdict = "unknown signing key"
        /\ exchanges[x].force
        /\ To(x, "unknown")

\* Mutant: a cached document that is fresh is returned even when a refresh is forced.
CacheServesAny(x) == jwks.known /\ jwks.fresh

CacheServes(x) == ~exchanges[x].force /\ jwks.known /\ jwks.fresh

\* jwks() outside the lock: a fresh document, or the lock
VerifyFromCache(x) ==
  /\ exchanges[x].stage = "verify"
  /\ CacheServes(x)
  /\ VerifyWith(x, jwks.keys)
  /\ UNCHANGED <<published, jwks, lock, rotations, failures>>

AwaitLock(x) ==
  /\ exchanges[x].stage = "verify"
  /\ ~CacheServes(x)
  /\ To(x, "waiting")
  /\ UNCHANGED <<published, jwks, lock, rotations, failures>>

\* Inside the lock the cache is looked at again: another exchange may have filled it.
AcquireLock(x) ==
  /\ exchanges[x].stage = "waiting"
  /\ lock = Nobody
  /\ \/ /\ CacheServes(x)
        /\ VerifyWith(x, jwks.keys)
        /\ UNCHANGED lock
     \/ /\ ~CacheServes(x)
        /\ lock' = x
        /\ To(x, "fetching")
  /\ UNCHANGED <<published, jwks, rotations, failures>>

\* The document arrives and the lock is released; the exchange verifies with what it fetched.
Fetched(x) ==
  /\ exchanges[x].stage = "fetching"
  /\ jwks' = [known |-> TRUE, fresh |-> TRUE, keys |-> published]
  /\ lock' = Nobody
  /\ VerifyWith(x, published)
  /\ UNCHANGED <<published, rotations, failures>>

\* The provider does not answer in time, too much, or not what is expected.
FetchFails(x) ==
  /\ exchanges[x].stage = "fetching"
  /\ failures < MaxFailures
  /\ failures' = failures + 1
  /\ lock' = Nobody
  /\ To(x, "failed")
  /\ UNCHANGED <<published, jwks, rotations>>

OidcStep(x) ==
  \/ exchange_code(x)
  \/ VerifyFromCache(x)
  \/ AwaitLock(x)
  \/ AcquireLock(x)
  \/ Fetched(x)
  \/ FetchFails(x)

OidcNext ==
  \/ ProviderRotates
  \/ CacheExpires
  \/ \E x \in Exchange : OidcStep(x)

OidcSpec == OidcInit /\ [][OidcNext]_ovars
-----------------------------------------------------------------------------
Stages == {"verify", "waiting", "fetching", "verified", "invalid", "unknown", "failed"}

\* Every exchange is in a stage of its own, and the lock is with the one that fetches.
OidcTypeOK ==
  /\ published \in SUBSET Key \ {{}}
  /\ jwks \in [known : BOOLEAN, fresh : BOOLEAN, keys : SUBSET Key]
  /\ exchanges \in [Exchange -> {NotYet} \cup
       [stage : Stages, key : Key, sound : BOOLEAN, force : BOOLEAN, held : BOOLEAN]]
  /\ {x \in Exchange : exchanges[x].stage = "fetching"} = {lock} \ {Nobody}

\* A login is never refused for its signing key while the provider publishes that key, however
\* old the cached keys are and whoever else refreshes them (oidc_client.py:120).
PublishedKeyIsAccepted ==
  \A x \in Exchange : exchanges[x].stage = "unknown" => ~exchanges[x].held
=============================================================================
