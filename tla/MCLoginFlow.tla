----------------------------- MODULE MCLoginFlow -----------------------------
(* LoginFlow with one host and two tenants, one of them with two sources   *)
(* that have it in different realms.                                       *)
EXTENDS LoginFlow

In(name, realm, keycloak) ==
    [name |-> name, realm |-> realm, client |-> name, keycloak |-> keycloak]

SomeConfigs == {In("taskpro", "taskpro", TRUE), In("taskpro", "ztam", FALSE),
                In("testapp", "taskpro", TRUE)}
=============================================================================
