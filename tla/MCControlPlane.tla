--------------------------- MODULE MCControlPlane ---------------------------
(* Instances of ControlPlane for TLC.                                      *)
EXTENDS ControlPlane, TLC

Body(hostname, origin_ok, mode, identity, secrets, summary) ==
    [primary_hostname |-> hostname, origin_ok |-> origin_ok,
     integration_mode |-> mode, identity_mode |-> identity,
     adapter_mode |-> "headers", secret_refs |-> secrets,
     client_change_summary |-> summary]

OidcBody(hostname) ==
    Body(hostname, TRUE, "managed_oidc", "managed",
         {"keycloak_client_secret"}, "none")
FederatedBody(hostname) ==
    Body(hostname, TRUE, "federated_db", "federated_db",
         {"federation_adapter", "federated_db_dsn"}, "none")

\* One accepted body.
OneUpsert == {OidcBody("a.example")}
\* Two bodies that differ in hostname and mode.
TwoUpserts == {OidcBody("a.example"), FederatedBody("b.example")}
OneReport == {[assessment |-> "usable", form_login |-> TRUE]}

\* The first and the last of the five files: enough for two overlapping
\* publications to leave them different.
TwoFiles == <<"auth", "envoy">>

LegacyOf(t, hostname) ==
    [tenant_id |-> t, primary_hostname |-> hostname, origin_ok |-> TRUE,
     keycloak_login |-> TRUE, no_spi |-> FALSE,
     adapter_mode |-> "translated_token"]

NoLegacy  == << >>
\* A configuration whose backend_url cannot be parsed.
BadLegacy == <<[LegacyOf("testapp", "c.example") EXCEPT !.origin_ok = FALSE]>>
OneLegacy == <<LegacyOf("testapp", "c.example")>>

HandlerSymmetry == Permutations(Handlers)
=============================================================================
