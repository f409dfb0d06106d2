------------------------------ MODULE OpaPolicy ------------------------------
(***************************************************************************)
(* policies/authz.rego over the data OPA has loaded.  An expression of     *)
(* Rego that may be undefined is the set of its values: at most one.  A    *)
(* string that is compared by its beginning is the sequence of its parts.  *)
(***************************************************************************)
EXTENDS Naturals, Sequences

CONSTANTS
    TenantRoles,  \* tenant -> the role entries of its configuration
    NULL

AllowedRoles == {"admin", "editor", "user", "viewer"}

\* permissions.json: the roles other than admin, which no rule looks up, differ in
\* their methods.
Entry(methods) ==
    [allowed_paths       |-> {<<"/", "api", "/">>},
     allowed_exact_paths |-> {<<"/">>, <<"/", "dashboard.html">>, <<"/", "favicon.ico">>},
     denied_paths        |-> {<<"/", "admin", "/">>, <<"/", "admin">>},
     denied_exact_paths  |-> {},
     allowed_methods     |-> methods]

GlobalRoles ==
    [user   |-> Entry({"GET", "POST", "DELETE"}),
     editor |-> Entry({"GET", "POST", "PUT", "PATCH", "DELETE"}),
     viewer |-> Entry({"GET"})]

-----------------------------------------------------------------------------
(* A definition named after another one with a suffix is a wrong version of *)
(* it, to show that a property notices.                                     *)

\* `opa run /policies`: the files of the directory are merged at the root of the
\* data, each by its own keys.  tenants.json has one key per tenant.
Data(tenants) ==
    [key \in tenants \cup {"permissions"} |->
        IF key = "permissions" THEN [roles |-> GlobalRoles]
        ELSE [roles |-> TenantRoles[key]]]

ValueAt(doc, key) == IF key \in DOMAIN doc THEN {doc[key]} ELSE {}

\* data.tenants[tenant_id].roles[role]
TenantEntry(data, tenant, role) ==
    UNION {ValueAt(entry.roles, role) :
              entry \in UNION {ValueAt(ts, tenant) : ts \in ValueAt(data, "tenants")}}

\* _resolve_perms: a tenant's own entry for the role, else the one for everybody.
ResolvePerms(data, tenant, role) ==
    LET own == IF tenant = NULL THEN {} ELSE TenantEntry(data, tenant, role)
    IN IF own # {} THEN own ELSE ValueAt(data["permissions"].roles, role)

StartsWith(path, prefix) ==
    Len(prefix) <= Len(path) /\ SubSeq(path, 1, Len(prefix)) = prefix

Matches(path, prefixes, exact) ==
    (\E p \in prefixes : StartsWith(path, p)) \/ path \in exact

\* path_allowed, allowed_methods and path_denied, of one and the same entry.
Permits(perms, path, method) ==
    /\ Matches(path, perms.allowed_paths, perms.allowed_exact_paths)
    /\ method \in perms.allowed_methods
    /\ ~Matches(path, perms.denied_paths, perms.denied_exact_paths)

RolePermitted_Every(data, tenant, roles, path, method) ==
    \A role \in roles :
        role = "admin" \/ \E perms \in ResolvePerms(data, tenant, role) : Permits(perms, path, method)
RolePermitted(data, tenant, roles, path, method) ==
    \/ "admin" \in roles
    \/ \E role \in roles \ {"admin"} :
           \E perms \in ResolvePerms(data, tenant, role) : Permits(perms, path, method)

\* The subject has an id: check answers a token without one itself.
Allow(data, tenant, roles, path, method) ==
    roles # {} /\ RolePermitted(data, tenant, roles, path, method)
=============================================================================
