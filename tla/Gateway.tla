------------------------------- MODULE Gateway -------------------------------
(***************************************************************************)
(* A request on its way through the platform: Envoy picks a backend by its *)
(* routes and asks the middleware, whose check finds the tenant in its own *)
(* table, validates the token, and asks OPA, which has its own data.  The  *)
(* three were made of the files of a publication, each at another time.    *)
(* How the table is filled is the subject of TenantCache, keys and         *)
(* revocation of JwksCache and TokenSession, publication of ControlPlane.  *)
(***************************************************************************)
EXTENDS OpaPolicy

CONSTANTS
    Tenants,
    Hosts,
    Ids,              \* what may name a tenant, in lower case: labels, claims
    ValidIds,         \* those of them that match _TENANT_ID_RE
    Label,            \* host -> its first label, NULL when it has no dot
    Realm,            \* tenant -> the realm of its client; the client has its name
    Adapter,          \* tenant -> adapter_mode
    KC_REALM,         \* the realm used for an unknown host
    Names,            \* role names in tokens
    Tokens,           \* the tokens requests come with
    Resources,        \* what they ask for, by paths without empty or dot segments
                      \* and with a query or not, beside those ext_authz is disabled for
    MaxPublications   \* bound

Token == [realm : {Realm[t] : t \in Tenants} \cup {KC_REALM},
          azp : Tenants \cup {NULL},
          tenant_id : Ids \cup {NULL},
          roles : SUBSET Names,           \* of the realm and of clients
          role : Names \cup {NULL},       \* the custom claim
          db_user_id : BOOLEAN]           \* there is one, and it is a number

\* How a request may end.
Outcomes == {"passed", "login", "refused", "unavailable", "denied", "allowed"}

ASSUME IdsAssumption      == /\ Tenants \cup {"unknown"} \subseteq ValidIds
                             /\ ValidIds \subseteq Ids
ASSUME LabelAssumption    == Label \in [Hosts -> Ids \cup {NULL}]
ASSUME TenantAssumption   == /\ DOMAIN Realm = Tenants
                             /\ Adapter \in [Tenants -> {"headers", "translated_token"}]
                             /\ DOMAIN TenantRoles = Tenants
ASSUME TokensAssumption   == Tokens \subseteq Token \cup {NULL}
ASSUME ResourceAssumption ==
    \A r \in Resources : /\ DOMAIN r = {"path", "query", "method"}
                         /\ Len(r.path) > 0 /\ r.query \in BOOLEAN
ASSUME BoundAssumption    == MaxPublications \in Nat
ASSUME NullAssumption     == NULL \notin Ids \cup Names \cup Token \cup Outcomes

\* The tenant of each host: hostnames differ, and a tenant has one.
Hosting == {m \in [Hosts -> Tenants \cup {NULL}] :
                \A g, h \in Hosts : g # h /\ m[g] # NULL => m[g] # m[h]}

TenantsOf(m) == {m[h] : h \in Hosts} \ {NULL}

Files == <<"auth", "policies", "envoy">>   \* in the order of publish_runtime_bundles

Request ==
    [pc       : {"idle", "routed", "keys", "revoked", "asked", "done"},
     host     : Hosts \cup {NULL},
     token    : Tokens \cup {NULL},
     resource : Resources \cup {NULL},
     backend  : Tenants \cup {NULL},     \* Envoy's choice; NULL is client_app
     config   : Tenants \cup {NULL},     \* what get_tenant_config returned
     tenant   : ValidIds \cup {NULL},    \* of the input for OPA,
     roles    : SUBSET AllowedRoles,     \* and its roles
     outcome  : Outcomes \cup {NULL},
     told     : SUBSET AllowedRoles,     \* x-user-roles
     known    : BOOLEAN,                 \* the table had the host (history)
     calm     : BOOLEAN,                 \* nothing changed before check took it (history)
     entry    : BOOLEAN]                 \* OPA had loaded the tenant's entry (history)

VARIABLES
    published,  \* what the last publication writes
    written,    \* how many of its files it has written
    files,      \* runtime file -> the hosting in it
    table,      \* the middleware's tenants by host
    opa,        \* the tenants in the tenants.json OPA has loaded
    routes,     \* the virtual hosts Envoy has loaded
    request,
    publications

vars == <<published, written, files, table, opa, routes, request, publications>>
config == <<published, written, files, table, opa, routes, publications>>

Idle == [pc |-> "idle", host |-> NULL, token |-> NULL, resource |-> NULL, backend |-> NULL,
         config |-> NULL, tenant |-> NULL, roles |-> {}, outcome |-> NULL, told |-> {},
         known |-> FALSE, calm |-> FALSE, entry |-> FALSE]

FileNames == {Files[i] : i \in DOMAIN Files}

Init ==
    /\ published \in Hosting
    /\ written = Len(Files)
    /\ files = [f \in FileNames |-> published]
    /\ table = published /\ opa = TenantsOf(published) /\ routes = published
    /\ request = Idle
    /\ publications = 0

\* Everything in use is made of one and the same publication.
Settled == /\ written = Len(Files)
           /\ table = published /\ opa = TenantsOf(published) /\ routes = published

-----------------------------------------------------------------------------
(* The configuration changes.                                              *)

Publish(m) ==
    /\ publications < MaxPublications
    /\ written = Len(Files)
    /\ publications' = publications + 1
    /\ published' = m
    /\ written' = 0
    /\ request' = [request EXCEPT !.calm = @ /\ request.pc # "routed"]
    /\ UNCHANGED <<files, table, opa, routes>>

WriteFile ==
    /\ written < Len(Files)
    /\ files' = [files EXCEPT ![Files[written + 1]] = published]
    /\ written' = written + 1
    /\ UNCHANGED <<published, table, opa, routes, request, publications>>

\* The time to live is over, or OPA's watch has noticed the new file.
ReloadTable ==
    /\ table' = files["auth"]
    /\ UNCHANGED <<published, written, files, opa, routes, request, publications>>
ReloadOpa ==
    /\ opa' = TenantsOf(files["policies"])
    /\ UNCHANGED <<published, written, files, table, routes, request, publications>>

\* Requests on their way are lost.
RestartEnvoy ==
    /\ routes' = files["envoy"]
    /\ request' = Idle
    /\ UNCHANGED <<published, written, files, table, opa, publications>>

-----------------------------------------------------------------------------
(* check                                                                   *)
(* A definition named after another one with a suffix is a wrong version of *)
(* it, to show that a property notices.                                     *)

At(pc) == request.pc = pc

\* The request goes no further.
Answer(outcome) ==
    /\ request' = [Idle EXCEPT !.pc = "done", !.outcome = outcome]
    /\ UNCHANGED config

\* A request comes in when the one before has been answered.
Route(h, token, resource) ==
    /\ request.pc \in {"idle", "done"}
    /\ request' = [Idle EXCEPT !.pc = "routed", !.host = h, !.token = token,
                               !.resource = resource, !.backend = routes[h],
                               !.calm = Settled]
    /\ UNCHANGED config

\* _normalize_path drops the slash at the end.
NormalizePath(path) ==
    IF Len(path) > 1 /\ path[Len(path)] = "/" THEN SubSeq(path, 1, Len(path) - 1) ELSE path

\* A preflight request, and the paths check answers itself: with a query they are others.
Exempt == \/ request.resource.method = "OPTIONS"
          \/ /\ ~request.resource.query
             /\ NormalizePath(request.resource.path) \in
                    {<<"/", "health">>, <<"/", "metrics">>}

GetTenantConfig_Label(host) == IF Label[host] \in Tenants THEN Label[host] ELSE table[host]
GetTenantConfig(host) == table[host]

\* Up to the first await.
TakeRequest ==
    /\ At("routed")
    /\ \/ Exempt /\ Answer("passed")
       \/ /\ ~Exempt
          /\ request.token = NULL
          /\ Answer("login")
       \/ /\ ~Exempt
          /\ request.token # NULL
          /\ request' = [request EXCEPT !.pc = "keys",
                                        !.config = GetTenantConfig(request.host),
                                        !.known = table[request.host] # NULL]
          /\ UNCHANGED config

TenantConfig_Again == GetTenantConfig(request.host)
\* The configuration a step after an await goes by: the one taken at the beginning.
TenantConfig == request.config

TenantRealm == IF TenantConfig = NULL THEN KC_REALM ELSE Realm[TenantConfig]

\* get_jwks of the tenant's realm returns, or raises; signature and issuer are checked.
CheckToken ==
    /\ At("keys")
    /\ \/ /\ request.token.realm = TenantRealm
          /\ request' = [request EXCEPT !.pc = "revoked"]
          /\ UNCHANGED config
       \/ request.token.realm # TenantRealm /\ Answer("refused")
       \/ Answer("unavailable")

\* azp is compared only when the host is known.
ClientMatches ==
    /\ request.token.azp # NULL
    /\ TenantConfig # NULL => request.token.azp = TenantConfig

\* _sanitize_roles(extract_roles(claims)); spelling is a subject of FederatedUsers.
Sanitized(names) == names \cap AllowedRoles
TokenRoles_Raw(token) == token.roles \cup ({token.role} \ {NULL})
TokenRoles(token) == Sanitized(token.roles \cup ({token.role} \ {NULL}))

OrViewer(roles) == IF roles = {} THEN {"viewer"} ELSE roles

SanitizeTenantId(candidate, fallback) ==
    IF candidate \in ValidIds THEN candidate
    ELSE IF fallback \in ValidIds THEN fallback ELSE "unknown"

\* The tenant by the configuration, else by the host, else by the token.
TenantId ==
    LET Or(a, b) == IF a # NULL THEN a ELSE b
    IN  SanitizeTenantId(
            Or(TenantConfig, Or(Label[request.host],
                                Or(request.token.tenant_id, request.token.azp))),
            Or(TenantConfig, KC_REALM))

\* Redis has answered whether the token is revoked, or has not; OPA is asked.
AskOpa ==
    /\ At("revoked")
    /\ \/ /\ ClientMatches
          /\ request' = [request EXCEPT !.pc = "asked", !.tenant = TenantId,
                                        !.roles = OrViewer(TokenRoles(request.token))]
          /\ UNCHANGED config
       \/ Answer("refused")
       \/ Answer("unavailable")

Decision(roles) ==
    Allow(Data(opa), request.tenant, roles,
          NormalizePath(request.resource.path), request.resource.method)

\* The custom role, when there is one, is the one the backend is told.
ToldRoles ==
    OrViewer(Sanitized(IF request.token.role # NULL THEN {request.token.role}
                       ELSE request.roles))

\* The backend gets a token of its own, for which db_user_id is needed; there is a
\* secret to sign it with.
Translates == TenantConfig # NULL /\ Adapter[TenantConfig] = "translated_token"

Finish(outcome, told) ==
    /\ request' = [request EXCEPT !.pc = "done", !.outcome = outcome, !.told = told,
                                  !.entry = request.tenant \in opa]
    /\ UNCHANGED config

\* OPA answers by the data it has now, or does not.
TakeDecision ==
    /\ At("asked")
    /\ \/ /\ Decision(request.roles)
          /\ Translates => request.token.db_user_id
          /\ Finish("allowed", ToldRoles)
       \/ /\ Decision(request.roles)
          /\ Translates /\ ~request.token.db_user_id
          /\ Answer("refused")
       \/ ~Decision(request.roles) /\ Finish("denied", {})
       \/ Answer("unavailable")

Next ==
    \/ \E m \in Hosting : Publish(m)
    \/ WriteFile
    \/ ReloadTable
    \/ ReloadOpa
    \/ RestartEnvoy
    \/ \E h \in Hosts, token \in Tokens, resource \in Resources : Route(h, token, resource)
    \/ TakeRequest
    \/ CheckToken
    \/ AskOpa
    \/ TakeDecision

Spec == Init /\ [][Next]_vars

-----------------------------------------------------------------------------
\* Whatever is in use is a hosting, and the request has its type.
TypeOK ==
    /\ published \in Hosting
    /\ written \in 0..Len(Files)
    /\ files \in [FileNames -> Hosting]
    /\ table \in Hosting /\ opa \subseteq Tenants /\ routes \in Hosting
    /\ request \in Request
    /\ publications \in 0..MaxPublications

Allowed == request.outcome = "allowed"

\* check awaits Keycloak, Redis and OPA while tables are replaced under it.  What the
\* backend is told is what was decided: for a host check knew, the tenant is still the
\* one OPA was asked about, and the one to whose client, in whose realm, the token was
\* issued; and of the roles, of which OPA had all and the backend gets the custom one
\* alone, it is told some that OPA was asked about, or the one that may least.
ToldAsDecided ==
    Allowed =>
        /\ request.known =>
               /\ request.tenant \in Tenants
               /\ request.token.azp = request.tenant
               /\ request.token.realm = Realm[request.tenant]
        /\ request.told # {}
        /\ request.told \subseteq request.roles \cup {"viewer"}

\* Envoy finds the backend and check the tenant, each by a table of its own.  A
\* request that comes and is taken while nothing changes reaches a tenant's backend
\* only with a token of that tenant's client, and as that tenant's.
BackendsAreApart ==
    Allowed /\ request.calm /\ request.backend # NULL =>
        /\ request.tenant = request.backend
        /\ request.token.azp = request.backend
        /\ request.token.realm = Realm[request.backend]

\* Roles are tried one by one, and none at all means viewer.  A user who is given one
\* more role loses no access.
MoreRolesNeverLess ==
    At("asked") /\ Decision(request.roles) =>
        \A name \in Names :
            Decision(OrViewer(TokenRoles([request.token EXCEPT !.roles = @ \cup {name}])))

\* INTEGRATION_GUIDE.md: "Does policies/tenants.json have an entry for this tenant +
\* role? -> Use it".  OPA had loaded the entry when it decided; not so.
TenantEntriesDecide ==
    request.outcome \in {"allowed", "denied"} /\ request.entry =>
        (Allowed <=>
            \/ "admin" \in request.roles
            \/ \E role \in request.roles :
                   \E perms \in IF role \in DOMAIN TenantRoles[request.tenant]
                                THEN {TenantRoles[request.tenant][role]}
                                ELSE ValueAt(GlobalRoles, role) :
                       Permits(perms, NormalizePath(request.resource.path),
                               request.resource.method))
=============================================================================
