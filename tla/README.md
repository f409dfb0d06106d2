# ZTAM: specifications, model checking and proofs

ZTAM puts applications ("tenants") behind one gateway. Envoy asks an
authentication middleware about every request; the middleware validates
Keycloak's tokens, looks at a blacklist in Redis and asks OPA for the policy
decision; a control plane (and, older than it, a set of operators' scripts)
keeps the tenants and generates the files all of them read. This directory
holds TLA+ specifications of those parts, configurations that check them with
TLC, and proofs about them for TLAPS. Paths below are relative to the
repository's root.

The first half is the inventory of the system and the plan. The second half
goes through the modules: what each models, what its runs check, what is
proved, and what is left out.

# 1. Inventory

## 1.1 Components

| Component | State | Operations | Module |
|---|---|---|---|
| Control plane, `platform/control-plane/main.py` | SQLite tables `tenants`, `tenant_revisions`; writes five runtime files | create, update, assess, validate, publish, disable, import-legacy; bootstrap script | `ControlPlane`, `TenantLifecycle` |
| Tenant tools, `scripts/tenant_manager.py`, `onboard-tenant.sh`, `offboard-tenant.sh` | `tenants/*/config.json`; the same runtime files; the tenants' realms in Keycloak | client, mappers and user storage provider of a realm; upsert, delete, assess, sync-policies, sync-auth, sync-envoy, restart of Envoy | `TenantTools` |
| Tenant cache of the middleware, `services/auth-middleware/main.py:376-475` | tables by name and by host, their date | load, look-up | `TenantCache` |
| Login limiter, `:265-269, 352-373, 558-570` | per client: attempts and end of the window | attempt, cleanup task | `RateLimiter`, `LoginQuota` |
| JWKS cache, `:239-243, 624-727` | keys per realm in the process and in Redis; one lock | `get_jwks` and its retries | `JwksCache` |
| Token check and logout, `:1046-1103, 1274-1579` | Redis blacklist; Keycloak session | check (ext_authz), POST /logout | `TokenSession` |
| Login flows, `:803-1043, 1106-1271` | where each login is, cookies | redirect of check, login page, login redirect, authorization-code callback, platform login, login proxy, browser logout | `LoginFlow` |
| Policy, `policies/authz.rego` | the data OPA has loaded: `tenants.json`, `permissions.json` | one decision | `OpaPolicy` |
| Gateway, `envoy/envoy.yaml` with `check`, `services/auth-middleware/main.py:1274-1579` | loaded routes, and the tables and data of the others | routing, the decision about a request, reloads | `Gateway` |
| Federated users, `keycloak-db-spi` | none; the application's user table, Keycloak's cache | look-up, credential check, role normalisation | `FederatedUsers` |
| REST authenticator, `keycloak-spi`, `client-app/app.py` | Keycloak user and its roles | authenticate, grant of roles | `FederatedUsers` |
| Demo application, deployment, monitoring | - | - | not planned |

## 1.2 How they interact

* The control plane's endpoints are plain `def` functions: the framework runs
  them in worker threads. Every database call opens a connection and a
  transaction of its own, so handlers interleave between calls. What they
  share with the data plane is files: `platform/published/{auth,routing,policy}/tenants.json`,
  `policies/tenants.json` and `envoy/envoy.yaml`.
* The tenant tools write three of those files (`auth`, `policies`, `envoy`)
  from `tenants/*/config.json`, without a lock and without knowing of the
  control plane.
* The middleware is one event loop. Its handlers interleave only at `await`
  (Redis, Keycloak, OPA), but the files it reads change at any time, and
  Redis, Keycloak and OPA are other processes. It reads
  `published/auth/tenants.json` and `tenants/*/config.json` (through a cache);
  OPA watches `policies/`; Envoy reads `envoy.yaml` when it starts.
* Keycloak issues tokens that the middleware validates offline; only the
  blacklist can end a token early.

## 1.3 What is hard, and what correctness means

* **Control plane.** Hard: load in one transaction, save in another; a backend
  probe of many seconds in between; several threads; five files written one
  after the other; a handler that stops half-way. Correct when: whatever is in
  a runtime file was saved as published; the history has no gaps; what is
  published was validated; between requests rows and files agree; hostnames
  are unique; a disabled tenant leaves the files.
* **Tenant tools.** Hard: two sources of truth, overlapping scripts, scripts
  that stop, in Keycloak or in the files; what is looked up before it is
  written. Correct when: one undisturbed run makes the files follow the configs
  again and leaves a realm in which users can log in, and nothing piles up in
  Keycloak that no later run takes away.
* **Tenant cache.** Hard: files read one by one while they are rewritten,
  half-written files, two sources with a precedence, a TTL. Correct when: an
  answer was read less than a TTL ago or for the request it answers, and the
  answers agree with the files once they have been quiet for a TTL.
* **Login limiter.** Hard: window boundaries, and a cleanup task. Correct
  when: a bound on what gets through in any interval, no undeserved refusal,
  and the cleanup changes neither.
* **JWKS cache.** Hard: a lock held over retries, two caches whose ages add
  up, lost and late answers. Correct when: the keys never go back, their age
  is bounded, Keycloak is asked at most once a TTL, every call comes back.
* **Check and logout.** Hard: the token may be revoked or may expire between
  the awaits of a check; a logout has several steps, any of which fails.
  Correct when: a revoked token is refused, and a session is closed only after
  its token cannot be used.
* **Login flows.** Hard: a login is several requests, each of which asks anew
  for the tenant, by name or by host, of tables that change; a retry of a
  request that was carried out (a single-use code, a password attempt).
  Correct when: a code is brought to the realm and client it was issued for, a
  cookie that was set is accepted, a refusal is final, every login is answered.
* **Policy.** Hard: a tenant's entries go over the global ones, several roles
  each with denials of their own, allow and deny by prefix and by exact path,
  and the shape in which OPA gets the data. Correct when: a tenant's entry
  decides, and another role never takes access away.
* **Gateway.** Hard: Envoy, the middleware and OPA each find the tenant in data
  of their own, loaded at different times, and a request awaits in between.
  Correct when: the tenant whose backend is reached, that of the token and the
  one OPA was asked about are the same, and the backend is told what was
  decided.
* **Federated users, REST authenticator.** Hard: a database failure that is
  reported as a wrong password; a user who changes between the look-up and the
  check; roles that are cached, or granted over successive logins and never
  withdrawn. Correct when: nobody enters without a password that was right
  during the login, nobody gets a role the application never gave, and what is
  not cached is up to date.

The places where each of these bites are listed line by line under
`hazards` in PROJECT.json, with the properties that cover them; where a property
only bounds what can go wrong, the hazard's note says so.

# 2. Plan

In the order of importance; what is done is marked.

1. `ControlPlane` with the abstract `TenantLifecycle` - **done**; all its safety
   properties and, for one handler, the refinement are proved.
2. `RateLimiter` with the abstract `LoginQuota` - **done**, all proved.
3. `JwksCache` - **done**; all but liveness proved.
4. `TokenSession` - **done**, all proved.
5. `TenantTools` - **done**, all proved.
6. `TenantCache` - **done**, all proved.
7. `OpaPolicy`: the decision of `authz.rego` as operators over the data as OPA
   merges it - **done**; checked and proved through 8.
8. `Gateway`: a request from Envoy's route over the middleware's table to the
   policy's data, each from a publication of its own time - **done**, all proved.
9. `LoginFlow` - **done**; all but liveness proved.
10. `FederatedUsers` - **done**; all but liveness proved.

Runs stay below five minutes each.

# 3. The modules

A definition that is named after another one with a suffix (`HasQuota` and
`HasQuota_OneMore`) is a wrong version of it, of the kind a slip in the code
would be. PROJECT.json lists under `mutants` which property notices which.

## 3.1 ControlPlane

**State.** `tenants` and `tenant_revisions` are the two tables; a row is a
record of the columns some guard reads (hostname, whether the backend origin
parses, modes, secret references, whether the change summary has the
user-table text, assessment, status, revision). `files` maps each runtime file
to the records its entries were rendered from. Each worker thread (`Handlers`)
has `pc`, `op` and the locals `record`, `snapshot` and `cursor`.

**Actions.** A request arrives together with its first database read
(`CreateTenant`, `UpdateTenant`, `AssessTenant`, `ValidateTenant`,
`PublishTenant`, `DisableTenant`, `ImportLegacy`); a request that is refused
there changes nothing and is no step. Then one action per further database call
or file write: `CheckPayload`, `CheckValidation`, `SaveTenant`, `ImportNext`,
`LoadPublished`, `WriteBundle`. `HandlerFails` stops a handler between two
steps (an exception, or the death of the process). `Init` is an empty database
or one filled by `scripts/bootstrap_control_plane.py`.

**Runs.**

| Run | Instance | Shows |
|---|---|---|
| `ControlPlane_concurrent` | 2 handlers, 1 tenant, 1 body, a legacy config that cannot be rendered, 2 files, 4 log rows, 1 failure | `BundledWasPublished`, `RevisionsHaveNoGaps` and `PublishedCopiesValidated` hold however handlers interleave and stop |
| `ControlPlane_serial` | 1 handler, 2 tenants, 1 body, a legacy config, 2 files, 4 log rows per tenant, 1 failure | between requests, if no handler stopped half-way: `FilesFollowRows`; `DisableTakesEffect`, `ImplementsLifecycle` |
| `ControlPlane_hostnames` | 2 handlers, 2 tenants | violation: two creates with one hostname |

*Bounds.* Two handlers are enough for every stale read (load, other save,
save) and for two overlapping publications; two files for them to leave the
files different. Four log rows let a tenant be created, validated, published
and changed again. A request is not started on a tenant whose history is
full; those under way finish, so the history may be one row per handler longer.

*Fairness.* `FairSpec` has weak fairness of a handler's own steps: a worker
thread runs its handler to the end. Nothing obliges a client to send a
request. After a failure nothing repeats the publication, so
`DisableTakesEffect` promises nothing then.

*Refinement.* `TenantLifecycle` is what an operator is promised: the phases of
a tenant, and a gateway that is only ever switched, all at once, to the
tenants published at that moment. For one request at a time `ControlPlane`
implements it (phase = status of the row, served = the last file), failures
included. With two handlers it does not, since an older snapshot may be
written last.

*Worth knowing.* `FilesFollowRows` is a property of one request at a time;
overlapping publications may leave the files different until the next one. An assessment of a published tenant
changes its row without generating the files. One imported config whose
`backend_url` cannot be parsed makes every later publication of any tenant
raise after its save. An update keeps a validated tenant validated: it may then be
published with a payload that `validate_tenant` would refuse
(`platform/control-plane/main.py:475`).

## 3.2 RateLimiter and LoginQuota

**State.** `rl_state` is `_rl_state`; `wakeup` the end of the cleanup loop's
sleep; `allowed` and `refused` record what happened. **Actions.** The three
returns of `_check_rate_limit` (`OpenWindow`, `CountAttempt`, `RefuseAttempt`),
`CleanUp`, `Tick`. Neither function awaits, so each is one step.

**Run** `RateLimiter` (2 clients, limit 2, window 2, cleanup period 3, times 0 to
5): at most twice the limit gets through in a window's length
(`AtMostTwiceTheLimit`), every 429 is deserved (`RefusalsDeserved`), and the
limiter with its cleanup implements `LoginQuota`, which has none
(`ImplementsQuota`). A cleanup period that is no multiple of the window makes
the cleanup meet windows that are live, over, and full. Five ticks hold two
windows and the boundary between them.

*Worth knowing.* `docs/architecture/ARCHITECTURE.md:80` ("Reject if IP has
exceeded 10 attempts in 60 s") describes a rolling window; the code's windows
are fixed, and twice the limit is possible. A client is
`request.client.host`; behind Envoy that is Envoy's address.

## 3.3 JwksCache

**State.** The two dictionaries of the process, the lock with its queue, the
copies in Redis with their expiry, and for each task the await it is at. A key
set is represented by the time at which Keycloak answered with it, so "older"
can be said of keys. **Actions.** `FastPath`, `Call`, `Acquire`, `RedisGet`,
`Got`, `Fetch`, `Fetched`, `RedisSetex`: one per stretch between two awaits,
with the retry helpers' attempts inside (an attempt succeeds, is lost before or
after its effect, or raises). `Restart` and `RedisLoss` are bounded.

**Run** `JwksCache` (1 realm, 2 calls, TTL 2, latency 1, 2 attempts, 1 restart,
times 0 to 8): `KeysNeverGoBack`, `NoHerd`, `KeysAtMostTwoTtlOld`, and under
fairness `CallsReturn`. Eight ticks are two TTLs in a row with all the calls in
between. Two calls are enough for one to wait for the lock while the other
fetches.

*Fairness.* `FairSpec` has weak fairness of a call's own steps. For Keycloak
`httpx` has a timeout. The Redis client is built without a socket timeout, so
that Redis answers or fails is an assumption about the network, and so is
`Latency` as a bound on a call with its retries.

*Worth knowing.* Keys taken from Redis are dated as if just fetched: keys can
be used for up to two TTLs (and the time of three calls), not the one TTL that
the docs' "cached 5 min" (`docs/architecture/ARCHITECTURE.md:98`) suggests.

## 3.4 TokenSession

**State.** Per token its `exp`, whether its Keycloak session is open and its
entry in the blacklist; per request where it is. A history records whose SETEX
was acknowledged. **Actions.** `Check`,
`Decode`, `LookUp`, `Decide`, `Forward` are the stretches of `check` between its
awaits; `Logout`, `SetEx`, `EndSession` those of POST /logout. `Second` is the
clock, `RedisLoss` a restart of Redis, which has no volume.

**Run** `TokenSession` (1 token that lives 2 s, 2 requests, 2 attempts per
Redis call, 2 failures, 1 loss of Redis): `RevokedIsRefused`,
`SessionOutlivesToken`. Tokens share nothing, so one is enough; four seconds go
past its expiry; two requests give every overlap of a check with a logout and
of two logouts. What `check` decides from the claims, the tenant and the policy
is a free choice here and the subject of `Gateway`.

*Worth knowing.* In the last second of a token the blacklist key may already
be gone while python-jose still accepts the token: `RevokedIsRefused` says so.
It also says nothing after Redis has lost its data; nothing in the code
restores the blacklist. A logout that cannot reach Redis is answered 200 and
neither revokes the token nor closes the session, although its docstring
(`services/auth-middleware/main.py:1049-1050`) says the token is invalidated
even before it expires.

## 3.5 TenantTools

**State.** `realms` is Keycloak: per tenant the secret of its client, how many
of the two mappers there are, and how many user storage providers. `configs`
and `secrets` are the hostname and client secret in `tenants/*/config.json`;
`files` the three files the scripts write; `gateway` what Envoy has loaded;
`script` the script in each operator's shell with what its current command has
looked up or read. **Actions.** `OnboardTenant`, `OffboardTenant`,
`AssessTenant` and `Publish` start a sequence of commands (`Commands` is their
order in the scripts). `LookUp` and then `EnsureClient`, `EnsureMappers` or
`EnsureProvider` are the requests of steps 3 to 5 of `onboard-tenant.sh`: what
is missing is made, and what has come up since the look-up is a conflict for
clients and mappers, not for providers. `WriteConfig` is upsert or delete,
`WriteStarter` `assess --write-config`; `LoadTenants` and `WriteFile` are the
two halves of a sync command, between which others run; `RestartEnvoy`, whose
failure the scripts report at most and run through; `Stops` ends a script between
two steps. `EnvoyRestarts` is Docker's restart. `Publish`
is `publish_runtime_bundles`, with rows of its own whose hostnames differ.

**Run** `TenantTools` (2 tenants, 2 hostnames, 2 operators, publications of all
or no tenants, 3 scripts or publications, 1 failure):

* `OnboardingRepairs`: one onboarding that runs by itself and restarts Envoy makes
  the files and the gateway follow the configs, whatever overlapped, stopped or did
  not restart before;
* `OnboardedCanLogIn`: after one for a tenant that ran by itself the secret in
  the config is the one Keycloak has and the realm is complete;
* `ProvidersAreFew`: no more providers than shells that can race.

Three scripts are two that overlap and the one that repairs. When the bound is
reached the system rests (`Rest`).

*Worth knowing.* Onboarding changes the client's secret in Keycloak three steps
before it writes the config: while it runs, and after it stopped in between,
logins use a secret Keycloak refuses. `offboard-tenant.sh` ("Remove a protected
client app and all its configurations", line 4) never runs sync-auth, so the
middleware knows the tenant until the next onboarding, and deletes a client in
`KC_REALM` only, so the tenant's realm with its client and provider stays.
`upsert` accepts a hostname another tenant has; from then on every sync fails
in `load_tenants`. It also keeps the `permissions` of an existing config when
the roles change (`scripts/tenant_manager.py:766`). A publication
of the control plane does not restart Envoy: an operator does
(`docs/operators/TENANT_CHANGE_POLICY.md:139`).

*Left out.* The contents of a config other than hostname and secret; the
hostname is compared as it is written, like in `load_tenants`.

## 3.6 TenantCache

**State.** The bundle and the configs, each possibly `Torn` (somebody is
writing it, or stopped doing so); the two tables with their date; the load in
progress with the table it has built so far. A history, `answered`, says when the
request that the last step answered came. **Actions.** `Lookup` answers a request
from fresh tables. A request that finds them due or empty loads them first:
`StartLoad`, `ReadBundle`, `ListConfigs`, `ReadConfig` (one config each) and
`Install`, which answers that request from what it has read, without asking again
whether the tables are due by now or empty (`main.py:459-462`). A load blocks the
event loop but not the writers (`WriteBundle`, `WriteConfig`, which put any value
there, so they cover both halves of a write, an overlap of two, and a writer that
stops). `Restart` empties the tables.

**Run** `TenantCache` (2 tenants, 2 hostnames, TTL 2, times 0 to 3, 2 writes):

* `AnswersRecentlyRead`: what answers a request was read less than a TTL ago, or for
  that request after it came. The second case is that of a request whose own load
  takes a TTL or more: it gets what the load read at its beginning, however old that
  is by then;
* `TableCatchesUp`: a request that comes a TTL after a tenant's files last changed
  gets for its name what they say, whatever the other files do, and one that comes a
  TTL after the last change of any file gets its host resolved by precedence. Both
  hold also for the request that loads the tables itself, and if they come out empty.
  A request that came earlier is promised nothing: it may have read a file before
  its last change.

Two writes are enough for a tenant to move from one source to the other while a
load is between them; three ticks for a load that takes a TTL, and for a load, a
change and a request a TTL after it. A load of a TTL by a request that itself comes
a TTL after a change would need a fourth: that is in the theorem only.

*Worth knowing.* A half-written bundle empties the middleware's view of the
published tenants for up to a TTL. Every writer puts only published tenants in
the bundle and legacy configs count as published, so the test for "disabled"
in `get_tenant_config` never applies to generated files; a tenant that the
control plane has disabled but that still has a legacy config is still known
to the middleware.

## 3.7 LoginFlow

**State.** `table` is what `get_tenant_config` answers from, by host and by
name; `tab` where the login of each browser tab is, with the code it carries
and the call its handler makes; `cookie` the issuer and client of the token in
`ztam_auth`. **Actions.** `Visit` (the redirect of `check`), `SignIn`,
`LoginRedirect`, `LoginPage`, `Authenticate` (Keycloak's page), `Callback`,
`PasswordLogin` are the requests; `NotServed`, `Exchange`, `PasswordGrant` an
attempt of the call of Keycloak's token endpoint, which may be lost on the way
there or back and is repeated by `_request_with_retries`; `Logout` deletes the
cookie; `ChangeTable` is a reload of the tenant cache (`TenantCache`) that finds
something else.

**Run** `LoginFlow` (1 host, 2 tenants, 3 configurations of which two are of one
tenant in different realms, 2 tabs, 2 attempts per call, 3 logins, 1 change of
the tables): `CodesGoHome`, `CookieIsAccepted`, `GrantsAreAccountedFor`, and
under fairness `LoginsAreAnswered`. Every table over those configurations is an
initial state, so one change reaches every pair of tables. Hosts share nothing.

*Fairness.* Of a tab's and its handler's steps, but not of the user at
Keycloak's page: browsers follow redirects, `httpx` has a timeout.

*Worth knowing.* The redirect asks by name, the callback by host. Where the
published bundle and a legacy config differ about a tenant (`SourcesAgree` is
false), the code is brought to another client or realm and the login fails.
After a change of realm or client the browser keeps its cookie and is answered
403, not redirected to a login. Someone who opens `/ztam/login-redirect` by
hand on a host that is no tenant's gets a cookie that `check` refuses there;
the redirect is modelled as `check` issues it. The browser's logout does not
put the token on the blacklist. After an answer was lost the repeated code is
refused, although Keycloak has opened a session.

## 3.8 FederatedUsers

**State.** `rows` is the application's table, `cache` Keycloak's user cache,
`granted` the realm roles of the users that `RestAuthenticator` makes, `login`
each login in progress. **Actions.** `PasswordLogin`, `FindUser`, `IsValid`, with
`Unreachable` and `QueryFails`, are `MySqlUserStorageProvider`; `SubmitForm`,
`AuthVerify`, `GrantRoles` are `RestAuthenticator` and the endpoint it calls;
`ChangeRow` is the application, `Evict` Keycloak.

**Run** `FederatedUsers` (1 user, 2 passwords, roles `Admin`, `manager` or none,
2 logins, 2 attempts to connect, 1 change of the row): `PasswordWasRight`,
`RolesWereHeld`, `RoleIsUpToDate`, and under fairness `LoginsEnd`. `Admin` is a
known role in another spelling, `manager` an unknown one. Every row is an initial
state; one change in the middle of a login is what makes its two queries
differ. Section 4 proves the three, and the types, for any number of all of these.
Four attempts, as in the code, only add more of the same.

*Fairness.* Of Keycloak's threads. `DriverManager.getConnection` has no login
timeout of its own, so that it comes back is an assumption about the network.

*Worth knowing.* The comment of `normalizeRole` says roles are passed through
as they are, "so each tenant can define its own role names"; the code turns
every role but four into "viewer". With cache policy DEFAULT
(`scripts/onboard-tenant.sh:465`) the role in new tokens may be as old as
Keycloak's cache entry, and `RestAuthenticator` never withdraws a role, so an
administrator who was demoted stays one. A database that is away is reported as a
wrong password.

## 3.9 Gateway and OpaPolicy

`OpaPolicy` is `policies/authz.rego` as operators without state: `Data` is what
OPA makes of the two JSON files, `ResolvePerms` the choice between a tenant's
entry and the global one, `Allow` the decision. A Rego expression that may be
undefined is the set of its values. `Gateway` extends it.

**State.** `published` is what the last publication writes and `written` how
many of its files; `table`, `opa` and `routes` are what the middleware, OPA and
Envoy have loaded; `request` is one request with what each part found for it.
Requests share nothing that `check` writes, so one at a time is enough; the
configuration changes at any of its steps. **Actions.** `Publish`, `WriteFile`,
`ReloadTable`, `ReloadOpa`, `RestartEnvoy`; for the request `Route` (Envoy),
`TakeRequest`, `CheckToken`, `AskOpa`, `TakeDecision`: `check` between its
awaits (keys, blacklist, OPA), with every early return. Whether signature,
expiry and blacklist are fine is a free choice here (`JwksCache`,
`TokenSession`).

**Runs.** `Gateway` (2 tenants, 2 hosts of which one has no dot, one tenant in
the realm of unknown hosts, one with translated tokens, 6 tokens and none, 4
resources, 2 publications):

* `ToldAsDecided`: for a host `check` knew, the tenant the backend is told is the
  one OPA was asked about and the token was issued for, however the tables
  change during the awaits; the roles told were decided about;
* `BackendsAreApart`: a request that comes when the three agree reaches a
  tenant's backend only with a token of that tenant, although for an unknown
  host `azp` is not compared and the tenant is guessed from the host's label;
* `MoreRolesNeverLess`: another role never takes access away, although each role
  has denials of its own and viewer is put in for no role.

Two publications leave the three parts in three different states; the tokens
differ in realm, client, tenant claim, roles, custom role and `db_user_id`, one for
each return of `check`. One of the resources is `/health` with a query, which
`check` does not exempt. What names a tenant for OPA is one of `Ids`; those that
match `_TENANT_ID_RE` are `ValidIds`, and `SanitizeTenantId` puts the realm or
"unknown" for the others.

`Gateway_entries` is a violation, found while modelling how the generated file
gets to the policy: `tenants.json` has its tenants at the top and OPA merges it
into the root of its data, the policy looks under `data.tenants`. A tenant's own
entry never decides.

*Worth knowing.* Between the reload of one part and of another a host may be
known to Envoy and not to the middleware, which then accepts any token of the
default realm for it. A translated token has the custom role as it is, also one
that `x-user-roles` and OPA would never get (the docstring of `extract_roles`,
`services/auth-middleware/main.py:730-736`, says only application roles reach
downstream). A path `/api/` is normalised to `/api`, which no global entry
allows, since the prefix is `/api/`.

# 4. Proofs

TLC shows a property on the instances above; the theorems hold for every value
of the constants that meets the named assumptions (`UpsertsAssumption`, ... in
`ControlPlane`; `LimitAssumption`, ... in `RateLimiter`; and so on), which TLC
evaluates on every run that gives the constants values. That covers every number
of tenants, handlers, requests, tabs, operators, users and retries, every TTL, and
every value of the bounds, which are numbers like the others. All theorems are about `Spec` (in `FederatedUsers`,
`UsersSpec`), hence also about `FairSpec` (`FairUsersSpec`).

Most assumptions say that `NULL` (or `None`) is none of the things it stands beside
and that numbers are numbers. Some say more: `Tenants` of `TenantCache` and `Operators`
of `TenantTools` are finite (a load reads its configs in order; providers are
counted), and `Upserts`, `Configs`, `Tokens` and `Rows` have the types of what
they stand for. `ValidIds` of `Gateway` contains the tenants' names, which the control
plane and `tenant_manager.py` check against patterns no wider than `_TENANT_ID_RE`,
and "unknown". `Canonical`, lower case without blanks, changes nothing when it is
applied again, and none of the four roles the platform knows. Three theorems have a
hypothesis of their own, and say so:

* `OneHandler`, one request at a time, for `ServiceImplementsLifecycle` and
  `FilesFollow`: with two it is false, see 3.1;
* `LegacyRenderable` for `FilesFollow`: an imported config whose `backend_url` cannot
  be parsed makes every later publication, of whichever tenant, raise after its save,
  see 3.1. Then rows and files differ between requests and the property is false. The
  instance of its run (`ControlPlane_serial`) has renderable configs only; the one
  config of `ControlPlane_concurrent` is not renderable;
* no tenant is named "tenants", for `MoreRolesMayMore`: OPA would take that tenant's
  entry for the table the policy looks for, see 3.9.

Every module with theorems has a conjunction `IInv` (`UsersInv`; or several, where
one builds on another), a lemma for each action that it is kept, and then the
properties as consequences. TLC has checked each `IInv` on the instance of the run before it was
proved. What each adds to the property, and why:

**ControlPlaneProofs.**

* `TypeCorrect`. `TypeOK` is not inductive: what a handler may write depends on
  where it is. `TypeInv` adds `LocalsOK` (a handler about to save or check has a
  record, a handler that writes has a file to write). The proof goes by lemmas on
  the operators that build records (`NewRecordType`, ...), then on the requests
  (`RequestTypes`) and the further steps (`ContinueTypes`).
* `OnlyPublishedIsBundled` (`BundledWasPublished`): a file holds what a snapshot
  held, so each snapshot must hold only published, logged rows
  (`SnapshotsPublished`); a snapshot is taken from the table, so each row must be
  logged (`RowsLogged`). Logs only grow, and only `SaveTenant` changes the database.
* `HistoryHasNoGaps` (`RevisionsHaveNoGaps`), `OnlyValidatedIsPublished`
  (`PublishedCopiesValidated`): these are settled when a handler builds its
  record, long before it saves it, from a row that others may have replaced in
  between. `RecordsPrepared` says so of the record in hand: the number below its
  own, and for a publication the validated row, are in the log *already*; and
  since logs only grow they still are at the save. `RowsInPlace`: a row is logged
  under its own tenant.
* `ServiceImplementsLifecycle` (`ImplementsLifecycle`): with one handler nothing
  happens between its load and its save. `RecordsCurrent` says that what it is
  about to save follows from the row as it is now, `SnapshotsCurrent` that
  what it writes are the rows as they are now. Then a save is the lifecycle's
  step of that tenant, the write of the last file its `Switch`, and every other step,
  failures included, is a stutter.
* `FilesFollow` (`FilesFollowRows`), with those: `FilesSettled` says that the files
  follow the rows whenever no publishing endpoint is under way; each one that
  begins ends with every file rewritten, for `RowsRenderable` says it cannot raise.

**PasswordLoginProofs**, about `RateLimiter`.

* `TypeCorrect`: entries keep their types; a count never passes the limit.
* `TwiceTheLimit` (`AtMostTwiceTheLimit`): the invariant adds `AttemptsSpread`
  (every attempt let through lies in its window, and attempts `Limit` apart are in
  different windows, which do not overlap) and `EntriesCount` (a live entry's
  count is the number of attempts of its window).
* `OnlyTheBusyAreRefused` (`RefusalsDeserved`), from the same invariant.
* `LimiterImplementsQuota` (`ImplementsQuota`), by the refinement mapping in
  `RateLimiter`; cleanup maps to a stutter, a tick to a second in which windows
  that are due close.

**PasswordLoginProofs**, about `FederatedUsers`. The properties speak of logins that
have their token; `UsersInv` follows each login there, and what it draws on.

* `UserOK`, of each user: its row, the role in Keycloak's cache and the roles granted
  to it come from rows it has had. A row enters `held` with the change that makes it,
  so no later change can undo this, and neither caching nor granting makes up a role.
* `SeesRows`, of each login: the row its user has now is among those it has seen, and
  those are among the ones the user has had. This is what an interleaved `ChangeRow`
  could break, and why that step is the longest of the proof.
* `SessionOK`, by the step a login is at: from the application's answer or Keycloak's
  check on, a row it has seen has its password (`RightPassword`); from the look-up on,
  its role is one the platform knows and comes from a row seen during the login, or
  from the cache (`RoleFound`); with `RestAuthenticator`'s token, every role in it was
  a row's, and the one the application answered with is among them if the realm has
  it (`RolesGranted`).

`NobodyWithoutPassword` (`PasswordWasRight`) is `RightPassword` of finished logins;
`RolesComeFromRows` (`RolesWereHeld`) needs in addition that what `normalizeRole`
returned stays as it is under `_sanitize_roles`; `RolesAreRecent`
(`RoleIsUpToDate`) combines `RoleFound` and `RolesGranted`. The steps of one login
that leave the table alone are proved alike, by `LoginStep` and `PlainStep`. The module
extends both components' modules, for which reason `FederatedUsers` has names of its
own for what the other modules call `Init`, `Next`, `Spec`, `vars`, `TypeOK` and `NULL`;
no theorem is about both.

**JwksCacheProofs.** `LockInv` is mutual exclusion: the lock's queue holds each call
once, and only its head is past the lock. So what the holder has found out about
the caches stays true until it leaves, and that is `HolderOK`: the process has no
fresh keys, later that Redis has none, the answer in hand is not older than
anything the process ever had, and the holder has been at it for at most
`Latency`. With it go `ProcessOK`, `RedisOK` (what Redis gives is the newest) and
`FetchesOK`. `KeysOnlyGetNewer`, `OneFetchPerTtl` and `KeysAreYoung` follow.

**TokenSessionProofs.** `TtlsCover` says of a logout that awaits SETEX that the ttl
it computed still reaches the end of the token whenever the attempt takes effect;
so every entry lasts at least as long as its token (`EntriesCover`). What was
acknowledged to a logout is in Redis (`RevokedIsListed`). `RevokedPassedLate`
speaks of a check that got past the lookup, `SessionsCloseLast` of a logout that
is about to close the session. The last three hold while Redis keeps its data.

**TenantToolsProofs.** `Progress` says how complete a realm is at each step of an
onboarding, `AloneOK` what a script that has had the files for itself has
already repaired (`HasSecret`, `HasFiles`); `CleanOK` that since the last mishap
each script was alone and that, but during an onboarding, the middleware's file
covers the configs. `OneOnboardingRepairs` and `OnboardedStaysReachable` rest on those. For
`DuplicatesAreBounded` (`ProvidersAreFew`) the providers of a realm are counted
together with the scripts that have found none and are about to make one: a script
enters that set only when there is none, so the sum never passes the number of
operators.

**TenantCacheProofs.** `UpToDate` describes a half-built table: if the files have not
been written since the load began, each tenant's entry is that of the bundle or,
once its config has been read, of its config; each hostname's is that of the
greatest tenant read so far; and the configs left are greater than those read. A
write ends the promise instead of keeping it. `AnswerOK`
says of the request just answered that it came when the tables it was answered from
are dated, since they were loaded for it, or comes now and they are not due.
`AnswersAreRecent` and `TablesCatchUp` follow, since the tables are dated with the
begin of their load. That a finite
set of numbers has a least and a greatest member, which `sorted` relies on, is
proved from the library's well-foundedness of the naturals (`LeastExists`,
`GreatestExists`).

**LoginFlowProofs.** `RouteOK` says, for each request of a login while the tables are
those it began with, that it goes where the tables would send it now: the tenant
in the URL is the host's, the code is for the realm and client the callback will
ask for, the token endpoint's answer will be accepted. `CodesComeHome` and
`LoginsAreAccepted` follow. `AnsweredOnce` needs no more than itself.

**GatewayProofs.** `RequestInv` keeps, for a request in `check`, what the token was
compared with: the tenant that was found once, at the first step, however often
the table is replaced after (`TakenOK`, `RealmOK`, `AskedOK`); `CalmOK` that a
request taken in a calm was routed by the same publication; `FilesOK` that the
files written so far are the publication's. `ToldIsDecided` and
`BackendsStayApart` follow. `MoreRolesMayMore` is about the policy's operators:
if no entry of a tenant is found, each role is decided about alone
(`RolePermitted`), and the replacement of "no role" by viewer loses nothing.

**Only model-checked.** Liveness (`DisableTakesEffect`, `CallsReturn`,
`LoginsAreAnswered`, `LoginsEnd`), since TLAPS does not handle fairness and
ENABLED. Every other property of a run that passes is a theorem.

# 5. Where code and documents disagree

Each is a run that ends in a violation; PROJECT.json quotes the lines.

* `ControlPlane_hostnames`: "hostname already assigned" is checked in one
  transaction and saved in another.
* `Gateway_entries`: "Does `policies/tenants.json` have an entry for this tenant
  + role? -> Use it" (`docs/operators/INTEGRATION_GUIDE.md:364`), but the policy
  looks for the entries where OPA does not put them.

Smaller ones, without a run, are under *Worth knowing* in section 3.

# 6. What is not modelled

* The demo application is a sample backend: CRUD on one table.
* `scripts/validate_deployment.py`, `scripts/smoke_test_tenant.py` and
  `demo/setup_demo.py` look at a deployment or set one up, once and in sequence,
  and keep no state. Two things met while reading them: `setup_demo.py` calls
  itself idempotent but reads the realm, and exits without it, before the step that
  creates it; `validate_deployment.py` looks for certificates under other names than
  `envoy/generate-certs.sh` gives them.
* Monitoring only reads; the middleware's counters are only written.
* The contents of messages, pages, cookies, logs and metrics are abstracted
  everywhere, and so is `deny_reason`.
* The routes for which ext_authz is disabled (`/static/`, `/ztam/` and the login
  and logout paths) do not pass `check`: the handlers behind them are in
  `LoginFlow` and `TokenSession`.
* That Envoy reaches `check` at all (`envoy.yaml` configures a gRPC service, the
  middleware serves HTTP) is taken from the documents.
* That OPA keeps its data when a file does not parse, and how long its watch
  takes, are OPA's: `ReloadOpa` may come at any time or never.
