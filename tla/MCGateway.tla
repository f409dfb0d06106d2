------------------------------ MODULE MCGateway ------------------------------
(* Gateway with two tenants, one of which shares its realm with unknown    *)
(* hosts; tokens and resources at which checks and entries part.           *)
EXTENDS Gateway, TLC

CONSTANTS t1, t2, h1, h2

FirstLabels == h1 :> t1 @@ h2 :> NULL
GoodIds     == {t1, t2, "unknown", "test-tenant"}
SomeIds     == GoodIds \cup {"two words"}
Realms      == t1 :> "t1" @@ t2 :> "test-tenant"
Adapters    == t1 :> "headers" @@ t2 :> "translated_token"

ResourceOf(path, query, method) == [path |-> path, query |-> query, method |-> method]

\* Fewer methods than in permissions.json, and an admin page.
OwnRoles ==
    t1 :> [user |-> [Entry({"GET"}) EXCEPT !.allowed_paths = {<<"/">>}]] @@
    t2 :> [viewer |-> Entry({"GET", "DELETE"})]

SomeNames == {"admin", "user", "viewer", "auditor"}

TokenOf(realm, azp, tenant_id, roles, role) ==
    [realm |-> realm, azp |-> azp, tenant_id |-> tenant_id,
     roles |-> roles, role |-> role, db_user_id |-> role # NULL]

SomeTokens ==
    {NULL,
     TokenOf("t1", t1, NULL, {"user"}, NULL),
     TokenOf("t1", t1, NULL, {"user", "admin"}, "auditor"),
     TokenOf("t1", NULL, t1, {"user"}, NULL),
     TokenOf("test-tenant", t2, NULL, {}, "user"),
     TokenOf("test-tenant", t2, "two words", {"auditor"}, NULL),
     TokenOf("test-tenant", t1, t2, {"viewer"}, "admin")}

SomeResources ==
    {ResourceOf(<<"/", "api", "/", "tasks">>, FALSE, "DELETE"),
     ResourceOf(<<"/", "admin", "/">>, FALSE, "GET"),
     ResourceOf(<<"/">>, FALSE, "OPTIONS"),
     ResourceOf(<<"/", "health">>, TRUE, "GET")}
=============================================================================
