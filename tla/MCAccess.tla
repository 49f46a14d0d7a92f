------------------------------ MODULE MCAccess ------------------------------
(***************************************************************************)
(* Who may do what, and what a process starts with, for TLC: sessions and  *)
(* logins, the keys of the identity provider, signed task deliveries, the  *)
(* path of a request through gateway and owner, the configuration of a     *)
(* service and the migrations of the database.  They share no state, so a  *)
(* behaviour is of one of them (focus) and the others stand still.         *)
(***************************************************************************)
EXTENDS Identity, OidcClient, TaskDelivery, Gateway, Configuration, Migrations

VARIABLE focus

accessvars == <<focus, idvars, ovars, dvars, gvars, configvars, mvars>>
-----------------------------------------------------------------------------
(* Identity: the provider vouches for more than an administrator grants.   *)
RoleGrants == {{"viewer"}, {"administrator"}}
ProviderAnswers ==
  {[subject |-> p, roles |-> {"viewer", "administrator"}, assurance |-> "aal2_phishing_resistant"]
     : p \in Subject}
-----------------------------------------------------------------------------
(* Gateway: a read, a decision, a bulk operation and a route only the      *)
(* gateway has, by an administrator with and without a strong sign-in and  *)
(* by a viewer.                                                            *)
At(family, method, bulk) ==
  [family |-> family, method |-> method, read |-> method = "GET", decides |-> FALSE, bulk |-> bulk]
DomainRoutes == {At("reporting", "GET", FALSE), At("governance", "POST", FALSE),
                 At("crm", "POST", TRUE), At("system", "GET", FALSE)}
Plain == [headers_fit |-> TRUE, query_fits |-> TRUE, one_length |-> TRUE, body_fits |-> TRUE,
          identity_header |-> FALSE, origin_allowed |-> TRUE, plain_json |-> TRUE, tls |-> TRUE]
PlainOrNot == {Plain, [Plain EXCEPT !.plain_json = FALSE]}
People ==
  {[subject |-> "admin", roles |-> {"administrator"}, authenticated_at |-> 0, assurance |-> a]
     : a \in {"aal1", "aal2_phishing_resistant"}}
  \cup {[subject |-> "viewer", roles |-> {"viewer", "unheard_of"}, authenticated_at |-> 0,
         assurance |-> "aal1"]}
-----------------------------------------------------------------------------
(* Configuration: at most one provider is not live and at most one setting *)
(* is not good.                                                            *)
Live == [c \in Capability |-> "live"]
Good == [n \in Setting |-> "good"]
OneOff ==
  {[profile |-> pr, provider |-> [Live EXCEPT ![c] = k], value |-> [Good EXCEPT ![n] = x]] :
     pr \in {"local", "production"}, c \in Capability, k \in {"live", "disabled"}, n \in Setting,
     x \in {"good", "missing", "placeholder", "bad"}}
  \cup {[profile |-> pr, provider |-> [Live EXCEPT ![c] = "demo"], value |-> Good] :
          pr \in {"local", "production"}, c \in Capability \ {"verifier", "smtp", "imap"}}
-----------------------------------------------------------------------------
AccessInit ==
  /\ focus \in {"identity", "oidc", "delivery", "gateway", "configuration", "migrations"}
  /\ IF focus = "identity" THEN TRUE
     ELSE principals = [p \in Subject |-> [disabled |-> FALSE, ceiling |-> {"viewer"},
                                           bindings |-> {"viewer"}, version |-> 0]]
  /\ IF focus = "oidc" THEN TRUE ELSE published = {CHOOSE k \in Key : TRUE}
  /\ IF focus = "delivery" THEN TRUE ELSE strict = TRUE
  /\ IF focus = "configuration" THEN ConfigInit
     ELSE /\ service = "worker" /\ running = FALSE /\ adapter = "none"
          /\ settings = [profile |-> "local", provider |-> Live, value |-> Good]
  /\ IdentityInit /\ OidcInit /\ DeliveryInit /\ GatewayInit /\ MigrationsInit

AccessNext ==
  \/ focus = "identity" /\ IdentityNext /\ UNCHANGED <<focus, ovars, dvars, gvars, configvars, mvars>>
  \/ focus = "oidc" /\ OidcNext /\ UNCHANGED <<focus, idvars, dvars, gvars, configvars, mvars>>
  \/ focus = "delivery" /\ DeliveryNext /\ UNCHANGED <<focus, idvars, ovars, gvars, configvars, mvars>>
  \/ focus = "gateway" /\ GatewayNext /\ UNCHANGED <<focus, idvars, ovars, dvars, configvars, mvars>>
  \/ focus = "configuration" /\ ConfigNext /\ UNCHANGED <<focus, idvars, ovars, dvars, gvars, mvars>>
  \/ focus = "migrations" /\ MigrationsNext /\ UNCHANGED <<focus, idvars, ovars, dvars, gvars, configvars>>

AccessSpec == AccessInit /\ [][AccessNext]_accessvars
=============================================================================
