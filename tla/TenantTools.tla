----------------------------- MODULE TenantTools -----------------------------
(***************************************************************************)
(* scripts/onboard-tenant.sh, scripts/offboard-tenant.sh and the commands  *)
(* of scripts/tenant_manager.py they run: operators keep the tenants in    *)
(* tenants/*/config.json and generate the runtime files from it, the same  *)
(* files the control plane publishes.  Onboarding first ensures the        *)
(* tenant's realm in Keycloak.  Nothing locks Keycloak, the directory or   *)
(* the files; a command looks first and writes then.                       *)
(***************************************************************************)
EXTENDS Naturals, Sequences, FiniteSets

CONSTANTS
    Tenants,
    Hostnames,
    Operators,    \* shells a script can run in
    Rows,         \* the published rows the control plane may have
    MaxRuns,      \* bound: scripts and publications started
    MaxFailures,  \* bound: scripts that stop half-way, restarts that fail
    NULL

ASSUME BoundsAssumption    == MaxRuns \in Nat /\ MaxFailures \in Nat
ASSUME OperatorsAssumption == Operators # {} /\ IsFiniteSet(Operators)

Files == {"policies", "auth", "envoy"}

\* Which tenants there are, each with its hostname: the column that must differ.
Map      == [Tenants -> Hostnames \cup {NULL}]
Distinct(m) == \A t1, t2 \in Tenants :
                   t1 # t2 /\ m[t1] # NULL => m[t1] # m[t2]

ASSUME RowsAssumption == Rows \subseteq Map

\* The commands of a script, in order (set -e stops it at one that fails).  Of
\* offboarding's steps in Keycloak none concerns the tenant's realm.
Commands ==
    [onboard  |-> <<"client", "mappers", "provider",
                    "upsert", "policies", "auth", "envoy", "restart">>,
     offboard |-> <<"delete", "policies", "envoy", "restart">>,
     assess   |-> <<"starter">>,
     publish  |-> <<"auth", "policies", "envoy">>]

Kinds == {"onboard", "offboard", "assess", "publish"}

ASSUME NullAssumption == NULL \notin Hostnames \cup Tenants \cup Kinds \cup Nat \cup Map

\* The realm of a tenant, with the client that has the tenant's name.
Mappers == <<"ztam-role", "ztam-db-user-id">>
Realm   == [secret    : Nat \cup {NULL},       \* of the client, NULL: there is none
            mappers   : 0..Len(Mappers),       \* how many of them there are
            providers : Nat]                   \* user storage providers named <tenant>-db

NoRealm == [secret |-> NULL, mappers |-> 0, providers |-> 0]

Script == [kind     : Kinds \cup {NULL},
           tenant   : Tenants \cup {NULL},
           hostname : Hostnames \cup {NULL},
           step     : Nat,
           secret   : Nat,               \* random: the number of the script
           found    : Nat \cup {NULL},   \* what a look-up in Keycloak has found
           view     : Map \cup {NULL},   \* what the command in progress has read
           alone    : BOOLEAN]           \* no other script ran beside it (history)

VARIABLES
    realms,    \* Keycloak
    configs,   \* tenants/*/config.json: the hostname,
    secrets,   \* and the client secret
    files,     \* runtime file -> the tenants in it
    gateway,   \* the tenants Envoy has loaded
    script,    \* operator -> the script in its shell
    dirty,     \* scripts overlapped or stopped, Envoy failed to restart, the control
               \* plane published or a config was written alone, since an onboarding
               \* last ran through by itself (history)
    begun,     \* tenants whose onboarding or assessment began, with no onboarding
               \* since then that ran through by itself (history)
    runs,
    failures

vars == <<realms, configs, secrets, files, gateway, script, dirty, begun, runs, failures>>
kept == <<realms, configs, secrets>>

NoScript == [kind |-> NULL, tenant |-> NULL, hostname |-> NULL, step |-> 1,
             secret |-> 0, found |-> NULL, view |-> NULL, alone |-> FALSE]

Init ==
    /\ configs \in {m \in Map : Distinct(m)}
    /\ realms = [t \in Tenants |-> IF configs[t] = NULL THEN NoRealm
                                   ELSE [secret |-> 0, mappers |-> Len(Mappers), providers |-> 1]]
    /\ secrets = [t \in Tenants |-> realms[t].secret]
    /\ files   = [f \in Files |-> configs]
    /\ gateway = configs
    /\ script  = [o \in Operators |-> NoScript]
    /\ dirty = FALSE /\ begun = {}
    /\ runs = 0 /\ failures = 0

-----------------------------------------------------------------------------
(* A definition named after another one with a suffix is a wrong version of *)
(* it, to show that a property notices.                                     *)

Running(o) == script[o].kind # NULL
Quiet      == \A o \in Operators : ~Running(o)

Command(o) == Commands[script[o].kind][script[o].step]

Last_Late(o) == script[o].step > Len(Commands[script[o].kind])
Last(o) == script[o].step = Len(Commands[script[o].kind])

\* An onboarding that runs by itself.
Repairs(o) == script[o].kind = "onboard" /\ script[o].alone

\* The script comes to its end.
RunsThrough(o) ==
    /\ script' = [script EXCEPT ![o] = NoScript]
    /\ begun' = IF Repairs(o) THEN begun \ {script[o].tenant} ELSE begun

\* The command is done: the next one follows, or the script is over.
Advance(o) ==
    IF Last(o)
    THEN RunsThrough(o) /\ dirty' = (dirty /\ ~Repairs(o))
    ELSE /\ script' = [script EXCEPT ![o].step = @ + 1, ![o].found = NULL, ![o].view = NULL]
         /\ UNCHANGED <<dirty, begun>>

\* The command fails and takes the script with it.
Abort(o) == script' = [script EXCEPT ![o] = NoScript] /\ dirty' = TRUE /\ UNCHANGED begun

Start(o, kind, t, h, view) ==
    /\ ~Running(o)
    /\ runs < MaxRuns
    /\ runs' = runs + 1
    /\ script' = [p \in Operators |->
           IF p = o
           THEN [NoScript EXCEPT !.kind = kind, !.tenant = t, !.hostname = h,
                                 !.secret = IF kind = "onboard" THEN runs' ELSE 0,
                                 !.view = view, !.alone = Quiet]
           ELSE [script[p] EXCEPT !.alone = FALSE]]
    /\ dirty' = (dirty \/ ~Quiet \/ kind \in {"publish", "assess"})
    /\ begun' = IF kind \in {"onboard", "assess"} THEN begun \cup {t} ELSE begun
    /\ UNCHANGED <<kept, files, gateway, failures>>

-----------------------------------------------------------------------------
(* Steps 2 to 5 of onboarding: what is there is looked up, what is missing *)
(* is made.                                                                *)

Found_ById(t, command) ==
    CASE command = "client"   -> IF realms[t].secret = NULL THEN 0 ELSE 1
      [] command = "mappers"  -> realms[t].mappers
      [] command = "provider" -> 0
Found(t, command) ==
    CASE command = "client"   -> IF realms[t].secret = NULL THEN 0 ELSE 1
      [] command = "mappers"  -> realms[t].mappers
      [] command = "provider" -> realms[t].providers

\* The realm itself is created, or found, and given its settings in any case.
LookUp(o) ==
    /\ Running(o)
    /\ Command(o) \in {"client", "mappers", "provider"}
    /\ script[o].found = NULL
    /\ script' = [script EXCEPT ![o].found = Found(script[o].tenant, Command(o))]
    /\ UNCHANGED <<kept, files, gateway, dirty, begun, runs, failures>>

Sending(o, command) == Running(o) /\ Command(o) = command /\ script[o].found # NULL

Put(o, field, value) == realms' = [realms EXCEPT ![script[o].tenant][field] = value]

ClientSecret_Kept(o) ==
    LET old == realms[script[o].tenant].secret IN IF old = NULL THEN script[o].secret ELSE old
\* Both payloads have the secret of this run.
ClientSecret(o) == script[o].secret

\* A client that is there is updated; one that came up since the look-up is a conflict.
EnsureClient(o) ==
    /\ Sending(o, "client")
    /\ \/ /\ script[o].found = 0 => realms[script[o].tenant].secret = NULL
          /\ Put(o, "secret", ClientSecret(o))
          /\ Advance(o)
       \/ /\ script[o].found = 0 /\ realms[script[o].tenant].secret # NULL
          /\ Abort(o)
          /\ UNCHANGED realms
    /\ UNCHANGED <<configs, secrets, files, gateway, runs, failures>>

\* The mappers that were not in the list are created one by one.
EnsureMappers(o) ==
    /\ Sending(o, "mappers")
    /\ LET found == script[o].found
           there == realms[script[o].tenant].mappers
       IN \/ found = Len(Mappers) /\ Advance(o) /\ UNCHANGED realms
          \/ /\ found < Len(Mappers) /\ there = found
             /\ Put(o, "mappers", there + 1)
             /\ script' = [script EXCEPT ![o].found = @ + 1]
             /\ UNCHANGED <<dirty, begun>>
          \/ there > found /\ Abort(o) /\ UNCHANGED realms
    /\ UNCHANGED <<configs, secrets, files, gateway, runs, failures>>

\* Every tenant has its users in a database (with --no-spi the step is left out).
\* Keycloak does not mind two components of one name; the first that is found is updated.
EnsureProvider(o) ==
    /\ Sending(o, "provider")
    /\ IF script[o].found = 0
       THEN Put(o, "providers", realms[script[o].tenant].providers + 1)
       ELSE UNCHANGED realms
    /\ Advance(o)
    /\ UNCHANGED <<configs, secrets, files, gateway, runs, failures>>

-----------------------------------------------------------------------------
(* The commands of tenant_manager.py, and publications.                    *)

OnboardTenant(o, t, h) == Start(o, "onboard", t, h, NULL)
OffboardTenant(o, t)   == Start(o, "offboard", t, NULL, NULL)
AssessTenant(o, t, h)  == Start(o, "assess", t, h, NULL)   \* with --write-config

\* publish_runtime_bundles of the control plane, with the published rows of its own
\* database; that their hostnames differ is a subject of ControlPlane.
Publish(o, rows) == Distinct(rows) /\ Start(o, "publish", NULL, NULL, rows)

\* cmd_upsert looks at one config only; cmd_delete accepts a missing one.
WriteConfig(o) ==
    /\ Running(o)
    /\ Command(o) \in {"upsert", "delete"}
    /\ configs' = [configs EXCEPT ![script[o].tenant] = script[o].hostname]
    /\ secrets' = [secrets EXCEPT ![script[o].tenant] =
                      IF Command(o) = "upsert" THEN script[o].secret ELSE NULL]
    /\ Advance(o)
    /\ UNCHANGED <<realms, files, gateway, runs, failures>>

\* cmd_assess writes a config without a secret, or, with --force, keeps the secret of
\* the one that is there; without it such a config is an error.
WriteStarter(o) ==
    LET t == script[o].tenant
    IN  /\ Running(o)
        /\ Command(o) = "starter"
        /\ \/ configs' = [configs EXCEPT ![t] = script[o].hostname] /\ Advance(o)
           \/ configs[t] # NULL /\ Abort(o) /\ UNCHANGED configs
        /\ UNCHANGED <<realms, secrets, files, gateway, runs, failures>>

\* load_tenants raises on a duplicate hostname.
Loads(m) == Distinct(m)

\* The first half of sync-policies, sync-auth and sync-envoy: load_tenants.
LoadTenants(o) ==
    /\ Running(o)
    /\ Command(o) \in Files
    /\ script[o].view = NULL
    /\ \/ Loads(configs) /\ script' = [script EXCEPT ![o].view = configs]
                          /\ UNCHANGED <<dirty, begun>>
       \/ ~Loads(configs) /\ Abort(o)
    /\ UNCHANGED <<kept, files, gateway, runs, failures>>

Written_Merged(old, view) == [t \in Tenants |-> IF view[t] = NULL THEN old[t] ELSE view[t]]
\* The generated file, or block of envoy.yaml, is replaced as a whole.
Written(old, view) == view

\* The second half: the file is rendered and written.  A publication goes on with
\* the rows it has.
WriteFile(o) ==
    /\ Running(o)
    /\ Command(o) \in Files
    /\ script[o].view # NULL
    /\ files' = [files EXCEPT ![Command(o)] = Written(@, script[o].view)]
    /\ IF script[o].kind = "publish" /\ ~Last(o)
       THEN script' = [script EXCEPT ![o].step = @ + 1] /\ UNCHANGED <<dirty, begun>>
       ELSE Advance(o)
    /\ UNCHANGED <<kept, gateway, runs, failures>>

\* docker compose restart envoy, the last command: a failure is reported at most, and the
\* script runs through, but Envoy has not loaded the routes.
RestartEnvoy(o) ==
    /\ Running(o)
    /\ Command(o) = "restart"
    /\ \/ gateway' = files["envoy"] /\ Advance(o) /\ UNCHANGED failures
       \/ /\ failures < MaxFailures
          /\ failures' = failures + 1
          /\ RunsThrough(o)
          /\ dirty' = TRUE
          /\ UNCHANGED gateway
    /\ UNCHANGED <<kept, files, runs>>

\* Docker restarts Envoy for reasons of its own.
EnvoyRestarts ==
    /\ gateway' = files["envoy"]
    /\ UNCHANGED <<kept, files, script, dirty, begun, runs, failures>>

\* A script stops between two steps: an error of the file system, a key press.
Stops(o) ==
    /\ Running(o)
    /\ failures < MaxFailures
    /\ failures' = failures + 1
    /\ Abort(o)
    /\ UNCHANGED <<kept, files, gateway, runs>>

\* The bound is reached and nobody types a command.
Rest == runs = MaxRuns /\ Quiet /\ UNCHANGED vars

Step(o) ==
    \/ \E t \in Tenants, h \in Hostnames : OnboardTenant(o, t, h)
    \/ \E t \in Tenants : OffboardTenant(o, t)
    \/ \E t \in Tenants, h \in Hostnames : AssessTenant(o, t, h)
    \/ \E rows \in Rows : Publish(o, rows)
    \/ LookUp(o)
    \/ EnsureClient(o)
    \/ EnsureMappers(o)
    \/ EnsureProvider(o)
    \/ WriteConfig(o)
    \/ WriteStarter(o)
    \/ LoadTenants(o)
    \/ WriteFile(o)
    \/ RestartEnvoy(o)
    \/ Stops(o)

Next ==
    \/ \E o \in Operators : Step(o)
    \/ EnvoyRestarts
    \/ Rest

Spec == Init /\ [][Next]_vars

-----------------------------------------------------------------------------
\* The configs, the files and the scripts have their types, and a script is at one
\* of its commands.
TypeOK ==
    /\ realms \in [Tenants -> Realm]
    /\ configs \in Map
    /\ secrets \in [Tenants -> Nat \cup {NULL}]
    /\ files \in [Files -> Map]
    /\ gateway \in Map
    /\ script \in [Operators -> Script]
    /\ \A o \in Operators : Running(o) => script[o].step \in DOMAIN Commands[script[o].kind]
    /\ dirty \in BOOLEAN /\ begun \subseteq Tenants
    /\ runs \in 0..MaxRuns /\ failures \in 0..MaxFailures

\* One onboarding that runs through by itself and restarts Envoy repairs what overlapping
\* or stopped scripts, failed restarts and publications left: from then on, between scripts, the policies, the
\* routes and the gateway are those of the configs, and the middleware's file has
\* every tenant as configured; until the next mishap.
OnboardingRepairs ==
    Quiet /\ ~dirty =>
        /\ files["policies"] = configs
        /\ files["envoy"] = configs
        /\ gateway = configs
        /\ \A t \in Tenants : configs[t] # NULL => files["auth"][t] = configs[t]

\* Each onboarding gives the client a new secret in Keycloak, and only later writes it
\* to the config, from which the middleware logs in.  Onboardings that overlap, stop
\* in between or meet a conflict may leave the two apart, or half a realm; once one
\* for the tenant has run through by itself, its users can log in, whatever went on
\* before, until the next one begins or an assessment writes its config.
OnboardedCanLogIn ==
    \A t \in Tenants : t \notin begun /\ configs[t] # NULL =>
        /\ realms[t].secret = secrets[t]
        /\ realms[t].mappers = Len(Mappers)
        /\ realms[t].providers > 0

\* Nothing takes a provider away, and Keycloak accepts two of one name: a realm has
\* never more than there were shells at work at a time.
ProvidersAreFew ==
    \A t \in Tenants : realms[t].providers <= Cardinality(Operators)
=============================================================================
