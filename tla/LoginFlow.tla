------------------------------ MODULE LoginFlow ------------------------------
(***************************************************************************)
(* services/auth-middleware/main.py: how a browser gets the cookie that    *)
(* check accepts.  Either through Keycloak's login page and the            *)
(* authorization-code callback, over two or three requests that each ask   *)
(* anew which tenant the host belongs to; or with a password posted to     *)
(* /ztam/login.  Calls of Keycloak's token endpoint are repeated when they *)
(* fail, also when Keycloak has carried them out.                          *)
(***************************************************************************)
EXTENDS Naturals

CONSTANTS
    Hosts, Tenants, Realms, Clients,
    Configs,      \* the tenant configurations there may be
    KC_REALM,     \* realm and client without a tenant configuration
    KC_CLIENT_ID,
    Tabs,         \* tabs of one browser
    Retries,      \* HTTP_RETRY_ATTEMPTS
    MaxLogins,    \* bound: logins begun
    MaxChanges,   \* bound: changes of the tenant tables
    NULL

Config == [name : Tenants, realm : Realms, client : Clients, keycloak : BOOLEAN]
\* Where a browser or a call goes at Keycloak, with the tenant in its redirect_uri.
Target == [realm : Realms, client : Clients, back : Tenants \cup {NULL}]
\* The issuer and azp of an access token.
Token == [realm : Realms, client : Clients]

ASSUME ConfigsAssumption == Configs \subseteq Config
ASSUME DefaultAssumption == KC_REALM \in Realms /\ KC_CLIENT_ID \in Clients
\* login_redirect and auth_callback use an unknown tenant's name as the client id.
ASSUME ClientsAssumption == Tenants \subseteq Clients
ASSUME NumbersAssumption ==
    /\ Retries \in Nat \ {0}
    /\ MaxLogins \in Nat /\ MaxChanges \in Nat
ASSUME NullAssumption == NULL \notin Config \cup Target \cup Token \cup Tenants \cup Hosts

\* What _load_tenant_cache returns: TenantCache says how it comes about.
Table == [host : [Hosts -> Configs \cup {NULL}],
          name : {m \in [Tenants -> Configs \cup {NULL}] :
                      \A t \in Tenants : m[t] # NULL => m[t].name = t}]

Steps == {"idle", "login-redirect", "login", "keycloak", "callback", "exchange",
          "password"}

Tab == [pc      : Steps,
        host    : Hosts \cup {NULL},
        tenant  : Tenants \cup {NULL},  \* the tenant parameter of the URL
        code    : Target \cup {NULL},   \* the page it logs in at, then what its code is for
        used    : BOOLEAN,              \* Keycloak has decided on the code
        to      : Target \cup {NULL},   \* where its call goes
        tries   : 0..(Retries - 1),     \* attempts of the call before this one
        lost    : 0..Retries,           \* of these, the ones without an answer (history)
        granted : 0..Retries,           \* and those Keycloak decided on (history)
        changed : BOOLEAN]              \* the tables changed since it began (history)

Cookie == [token : Token, changed : BOOLEAN]

VARIABLES
    table,      \* the tenants as the middleware sees them
    tab,
    cookie,     \* host -> ztam_auth: the realm and client (azp) of its token
    logins, changes

vars == <<table, tab, cookie, logins, changes>>

Idle == [pc |-> "idle", host |-> NULL, tenant |-> NULL, code |-> NULL, used |-> FALSE,
         to |-> NULL, tries |-> 0, lost |-> 0, granted |-> 0, changed |-> FALSE]

Init ==
    /\ table \in Table
    /\ tab = [b \in Tabs |-> Idle]
    /\ cookie = [h \in Hosts |-> NULL]
    /\ logins = 0 /\ changes = 0

-----------------------------------------------------------------------------
(* A definition named after another one with a suffix is a wrong version of *)
(* it, to show that a property notices.                                     *)

\* get_tenant_config: by the host, else by the name.
GetTenantConfig(host, name) ==
    IF table.host[host] # NULL THEN table.host[host]
    ELSE IF name # NULL THEN table.name[name]
    ELSE NULL

\* _tenant_realm, _tenant_client_id and the tenant of build_callback_url; client and
\* back are the handler's own for when there is no configuration.
TargetOf(config, client, back) ==
    IF config = NULL THEN [realm |-> KC_REALM, client |-> client, back |-> back]
    ELSE [realm |-> config.realm, client |-> config.client, back |-> config.name]

ClientOr(name) == IF name # NULL THEN name ELSE KC_CLIENT_ID

At(b, pc) == tab[b].pc = pc

\* check at host h: the token's issuer must be the tenant's realm and, if there is a
\* tenant, its azp the tenant's client.
Accepts(h, token) ==
    LET config == GetTenantConfig(h, NULL)
    IN  IF config = NULL THEN token.realm = KC_REALM
        ELSE token = [realm |-> config.realm, client |-> config.client]

\* A tab begins a login.
Begin(b, h, pc, tenant, to) ==
    /\ At(b, "idle")
    /\ logins < MaxLogins
    /\ logins' = logins + 1
    /\ tab' = [tab EXCEPT ![b] = [Idle EXCEPT !.pc = pc, !.host = h,
                                              !.tenant = tenant, !.to = to]]

-----------------------------------------------------------------------------
\* A page is asked for without a cookie: check redirects to the tenant's login or to
\* the platform's.
Visit(b, h) ==
    LET config == GetTenantConfig(h, NULL)
    IN  /\ cookie[h] = NULL
        /\ IF config # NULL /\ config.keycloak
           THEN Begin(b, h, "login-redirect", config.name, NULL)
           ELSE Begin(b, h, "login", NULL, NULL)
        /\ UNCHANGED <<table, cookie, changes>>

\* The user asks for /ztam/login, as "Sign in again" does.
SignIn(b, h) == Begin(b, h, "login", NULL, NULL) /\ UNCHANGED <<table, cookie, changes>>

\* The browser is sent to Keycloak's login page of the target.
SendTo(b, target) ==
    /\ tab' = [tab EXCEPT ![b].pc = "keycloak", ![b].code = target,
                          ![b].tenant = target.back]
    /\ UNCHANGED <<table, cookie, logins, changes>>

RedirectTarget_Default(tenant) == TargetOf(NULL, tenant, tenant)
\* /ztam/login-redirect asks by name only.
RedirectTarget(tenant) == TargetOf(table.name[tenant], tenant, tenant)

LoginRedirect(b) ==
    /\ At(b, "login-redirect")
    /\ SendTo(b, RedirectTarget(tab[b].tenant))

\* GET /ztam/login asks by host only.
LoginPage(b) ==
    /\ At(b, "login")
    /\ SendTo(b, TargetOf(GetTenantConfig(tab[b].host, NULL), KC_CLIENT_ID, NULL))

\* The user logs in at Keycloak, and the browser brings the code to the callback; or
\* gives up.
Authenticate(b) ==
    /\ At(b, "keycloak")
    /\ \/ tab' = [tab EXCEPT ![b].pc = "callback"]
       \/ tab' = [tab EXCEPT ![b] = Idle]
    /\ UNCHANGED <<table, cookie, logins, changes>>

CallbackConfig_NameFirst(h, name) ==
    IF name # NULL /\ table.name[name] # NULL THEN table.name[name]
    ELSE GetTenantConfig(h, NULL)
CallbackConfig(h, name) == GetTenantConfig(h, name)

\* auth_callback, up to its call of the token endpoint.
Callback(b) ==
    LET name == tab[b].tenant
    IN  /\ At(b, "callback")
        /\ tab' = [tab EXCEPT ![b].pc = "exchange",
                       ![b].to = TargetOf(CallbackConfig(tab[b].host, name),
                                          ClientOr(name), name)]
        /\ UNCHANGED <<table, cookie, logins, changes>>

\* POST /ztam/login, up to the same call, if the limiter lets it through.
PasswordLogin(b, h) ==
    /\ Begin(b, h, "password", NULL, TargetOf(GetTenantConfig(h, NULL), KC_CLIENT_ID, NULL))
    /\ UNCHANGED <<table, cookie, changes>>

-----------------------------------------------------------------------------
\* The handler answers: with the cookie, or with an error.
Deliver(b) ==
    /\ cookie' = [cookie EXCEPT ![tab[b].host] =
                     [token   |-> [realm |-> tab[b].to.realm, client |-> tab[b].to.client],
                      changed |-> tab[b].changed]]
    /\ tab' = [tab EXCEPT ![b] = Idle]
Refuse(b) == tab' = [tab EXCEPT ![b] = Idle] /\ UNCHANGED cookie

LastTry_Late(b) == tab[b].tries = Retries
LastTry(b) == tab[b].tries + 1 = Retries

Again_Anew(b, t) ==
    /\ tab' = [tab EXCEPT ![b] = [t EXCEPT !.tries = IF LastTry(b) THEN 0 ELSE @ + 1]]
    /\ UNCHANGED cookie
\* _request_with_retries: an attempt that failed is repeated, the last one raises.
Again(b, t) ==
    /\ tab' = [tab EXCEPT ![b] = IF LastTry(b) THEN Idle ELSE [t EXCEPT !.tries = @ + 1]]
    /\ UNCHANGED cookie

\* The histories count up to Retries.
Count(n) == IF n < Retries THEN n + 1 ELSE n

\* No answer, or one of 5xx, whether or not Keycloak has decided on the grant.
Lost(b, decided) ==
    Again(b, [tab[b] EXCEPT !.lost = Count(@),
                            !.granted = IF decided THEN Count(@) ELSE @,
                            !.used = @ \/ decided])

Rejected_Repeated(b) == Again(b, [tab[b] EXCEPT !.granted = Count(@)])
\* A status below 500 is no failure: the handler gets it and answers with an error.
Rejected(b) == Refuse(b)

Calling(b) == At(b, "exchange") \/ At(b, "password")

\* The call does not reach Keycloak, or fails there.
NotServed(b) ==
    /\ Calling(b)
    /\ Lost(b, FALSE)
    /\ UNCHANGED <<table, logins, changes>>

\* Keycloak exchanges a code once, and only for the client and the redirect_uri it
\* was issued for.
CodeFits(b) == tab[b].to = tab[b].code /\ ~tab[b].used

\* Keycloak decides on the grant, and its answer arrives or is lost.
Exchange(b) ==
    /\ At(b, "exchange")
    /\ \/ CodeFits(b) /\ Deliver(b)
       \/ ~CodeFits(b) /\ Rejected(b)
       \/ Lost(b, TRUE)
    /\ UNCHANGED <<table, logins, changes>>

\* The password is right or wrong.
PasswordGrant(b) ==
    /\ At(b, "password")
    /\ \/ Deliver(b)
       \/ Rejected(b)
       \/ Lost(b, TRUE)
    /\ UNCHANGED <<table, logins, changes>>

\* GET /ztam/logout and POST /logout delete the cookie.
Logout(h) ==
    /\ cookie[h] # NULL
    /\ cookie' = [cookie EXCEPT ![h] = NULL]
    /\ UNCHANGED <<table, tab, logins, changes>>

\* The tenant cache is loaded again and something is different.
ChangeTable(new) ==
    /\ new # table
    /\ changes < MaxChanges
    /\ changes' = changes + 1
    /\ table' = new
    /\ tab' = [b \in Tabs |-> [tab[b] EXCEPT !.changed = ~At(b, "idle")]]
    /\ cookie' = [h \in Hosts |-> IF cookie[h] = NULL THEN NULL
                                  ELSE [cookie[h] EXCEPT !.changed = TRUE]]
    /\ UNCHANGED logins

\* The bound is reached.
Rest == logins = MaxLogins /\ (\A b \in Tabs : At(b, "idle")) /\ UNCHANGED vars

Continue(b) ==
    \/ LoginRedirect(b)
    \/ LoginPage(b)
    \/ Callback(b)
    \/ NotServed(b)
    \/ Exchange(b)
    \/ PasswordGrant(b)

Next ==
    \/ \E b \in Tabs, h \in Hosts : Visit(b, h) \/ SignIn(b, h) \/ PasswordLogin(b, h)
    \/ \E b \in Tabs : Continue(b) \/ Authenticate(b)
    \/ \E h \in Hosts : Logout(h)
    \/ \E new \in Table : ChangeTable(new)
    \/ Rest

Spec == Init /\ [][Next]_vars

\* The browser follows redirects, and the middleware carries a handler on: Keycloak
\* answers, or httpx times out.  Nobody has to log in at Keycloak's page.
FairSpec == Spec /\ \A b \in Tabs : WF_vars(Continue(b))

-----------------------------------------------------------------------------
\* The tables, the tabs and the cookies have their types.
TypeOK ==
    /\ table \in Table
    /\ tab \in [Tabs -> Tab]
    /\ cookie \in [Hosts -> Cookie \cup {NULL}]
    /\ logins \in 0..MaxLogins /\ changes \in 0..MaxChanges

\* The tenant of the host is known by its name as the same tenant: the published
\* bundle and the legacy config do not differ about it.
SourcesAgree(h) == table.host[h] # NULL => table.name[table.host[h].name] = table.host[h]

\* The redirects ask by name or by host, the callback asks by host: unless the tables
\* change meanwhile, or name and host say different things, the callback brings the
\* code to the realm and client it was issued for.
CodesGoHome ==
    \A b \in Tabs :
        At(b, "exchange") /\ ~tab[b].changed /\ SourcesAgree(tab[b].host) =>
            tab[b].to = tab[b].code

\* A cookie set by a login, whichever way it went, is accepted by check at the host it
\* was set for, until the tables change: nobody logs in and is then refused.
CookieIsAccepted ==
    \A h \in Hosts :
        cookie[h] # NULL /\ ~cookie[h].changed => Accepts(h, cookie[h].token)

\* While a handler still calls Keycloak, every grant it had Keycloak decide on is one
\* whose answer it did not get: a refused password or code is not tried again, and
\* Keycloak counts one refusal per answer.
GrantsAreAccountedFor == \A b \in Tabs : tab[b].granted <= tab[b].lost

\* However often Keycloak fails, every login that reached the middleware is answered.
LoginsAreAnswered == \A b \in Tabs : Calling(b) ~> At(b, "idle")
=============================================================================
