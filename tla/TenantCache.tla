----------------------------- MODULE TenantCache -----------------------------
(***************************************************************************)
(* services/auth-middleware/main.py, _load_tenant_cache and                *)
(* get_tenant_config: which tenant the middleware takes a host for.  It    *)
(* reads the published bundle and the legacy configs, keeps the result for *)
(* some seconds, and blocks the event loop meanwhile; but the control plane*)
(* and the operators' scripts write those files at any time, and not       *)
(* atomically.                                                             *)
(***************************************************************************)
EXTENDS Naturals, FiniteSets

CONSTANTS
    Tenants,     \* numbered in the order of sorted() and ORDER BY tenant_id
    Hostnames,
    TTL,         \* TENANT_CACHE_TTL, in ticks
    MaxTime,     \* bound: the clock stops here
    MaxWrites,   \* bound: writes to the files
    NULL,        \* no entry, no config
    Torn         \* a file somebody is writing: its JSON does not parse

ASSUME TenantsAssumption == Tenants \subseteq Nat \ {0} /\ IsFiniteSet(Tenants)
ASSUME NumbersAssumption == TTL \in Nat \ {0} /\ MaxTime \in Nat /\ MaxWrites \in Nat

Bundle  == 0    \* the published bundle, among the files
Sources == {"published_bundle", "legacy_config"}
Time    == 0..MaxTime

\* The published bundle: the hostname of each tenant in it.  Its writers put only
\* published tenants there, so get_tenant_config never meets a disabled one.
Map == [Tenants -> Hostnames \cup {NULL}]

\* A tenant's configuration, as the middleware keeps it.
Config == [name     : Tenants,
           hostname : Hostnames,
           source   : Sources,
           read     : Time]     \* when it was read from its file (history)

ASSUME NullAssumption ==
    /\ NULL # Torn /\ {NULL, Torn} \cap Hostnames = {}
    /\ NULL \notin Tenants /\ NULL \notin Config /\ NULL \notin Time

Table == [name : [Tenants -> Config \cup {NULL}],     \* by_name
          host : [Hostnames -> Config \cup {NULL}]]   \* by_host

\* _load_tenant_cache in progress.
Load == [step  : {"bundle", "list", "configs"},
         start : Time,
         paths : SUBSET Tenants,   \* the legacy configs still to be read
         table : Table]

VARIABLES
    now,
    bundle,       \* AUTH_METADATA_FILE: a Map, or Torn
    configs,      \* tenant -> the hostname in tenants/<name>/config.json, Torn or NULL
    cache,        \* _tenant_cache_by_name, _tenant_cache_by_host
    fetched_at,   \* _tenant_cache_fetched_at
    load,         \* the load in progress, or NULL
    answered,     \* when the request that is just answered came, or NULL (history)
    written,      \* bundle or tenant -> when its file last changed (history)
    writes

files == <<bundle, configs, written, writes>>
vars  == <<now, files, cache, fetched_at, load, answered>>

NoTable == [name |-> [t \in Tenants |-> NULL], host |-> [h \in Hostnames |-> NULL]]

Init ==
    /\ now = 0
    /\ bundle \in Map
    /\ configs \in Map
    /\ cache = NoTable
    /\ fetched_at = 0
    /\ load = NULL
    /\ answered = NULL
    /\ written = [f \in Tenants \cup {Bundle} |-> 0]
    /\ writes = 0

-----------------------------------------------------------------------------
(* A definition named after another one with a suffix is a wrong version of *)
(* it, to show that a property notices.                                     *)

\* The tables hold a tenant and are not due yet.
Fresh == cache.name # NoTable.name /\ now < fetched_at + TTL

\* get_tenant_config, with the header's host or NULL and the query's tenant or NULL.
GetTenantConfig(host, name) ==
    IF host # NULL /\ cache.host[host] # NULL THEN cache.host[host]
    ELSE IF name # NULL THEN cache.name[name]
    ELSE NULL

Entry(t, h, source) == [name |-> t, hostname |-> h, source |-> source, read |-> now]

Greatest(S) == CHOOSE t \in S : \A u \in S : u <= t
Least(S)    == CHOOSE t \in S : \A u \in S : t <= u

\* The tables of the published bundle; of two tenants with one hostname the later
\* one has it.
BundleTable ==
    LET at(h) == {t \in Tenants : bundle[t] = h}
    IN  [name |-> [t \in Tenants |->
                      IF bundle[t] = NULL THEN NULL
                      ELSE Entry(t, bundle[t], "published_bundle")],
         host |-> [h \in Hostnames |->
                      IF at(h) = {} THEN NULL
                      ELSE Entry(Greatest(at(h)), h, "published_bundle")]]

Put_IfFree(table, t, h) ==
    [name |-> [table.name EXCEPT ![t] = Entry(t, h, "legacy_config")],
     host |-> [table.host EXCEPT ![h] =
                   IF @ = NULL THEN Entry(t, h, "legacy_config") ELSE @]]
\* A legacy config goes over what is there, under its name and its hostname.
Put(table, t, h) ==
    [name |-> [table.name EXCEPT ![t] = Entry(t, h, "legacy_config")],
     host |-> [table.host EXCEPT ![h] = Entry(t, h, "legacy_config")]]

Readable_Always(t) == TRUE
\* The config of t parses; reading it raises otherwise, or if it is gone.
Readable(t) == configs[t] \in Hostnames

-----------------------------------------------------------------------------
\* A request asks for a tenant, and the tables answer it.
Lookup ==
    /\ load = NULL
    /\ Fresh
    /\ answered' = now
    /\ UNCHANGED <<now, files, cache, fetched_at, load>>

\* Or they are loaded first.
StartLoad ==
    /\ load = NULL
    /\ ~Fresh
    /\ load' = [step |-> "bundle", start |-> now, paths |-> {}, table |-> NoTable]
    /\ answered' = NULL
    /\ UNCHANGED <<now, files, cache, fetched_at>>

\* A bundle that cannot be read counts as empty.
ReadBundle ==
    /\ load # NULL
    /\ load.step = "bundle"
    /\ load' = [load EXCEPT !.step = "list",
                            !.table = IF bundle = Torn THEN @ ELSE BundleTable]
    /\ answered' = NULL
    /\ UNCHANGED <<now, files, cache, fetched_at>>

\* sorted(TENANTS_DIR.glob("*/config.json")).
ListConfigs ==
    /\ load # NULL
    /\ load.step = "list"
    /\ load' = [load EXCEPT !.step = "configs",
                            !.paths = {t \in Tenants : configs[t] # NULL}]
    /\ answered' = NULL
    /\ UNCHANGED <<now, files, cache, fetched_at>>

\* The next config; one that raises is skipped.
ReadConfig ==
    /\ load # NULL
    /\ load.step = "configs"
    /\ load.paths # {}
    /\ LET t == Least(load.paths)
       IN  load' = [load EXCEPT
               !.paths = @ \ {t},
               !.table = IF Readable(t) THEN Put(@, t, configs[t]) ELSE @]
    /\ answered' = NULL
    /\ UNCHANGED <<now, files, cache, fetched_at>>

Stamp_End == now
\* What the new tables are dated: the time before anything was read.
Stamp == load.start

\* The request that loaded the tables is answered from them at once: they are not looked
\* at again for how old they are by now, or whether they hold a tenant.
Install ==
    /\ load # NULL
    /\ load.step = "configs"
    /\ load.paths = {}
    /\ cache' = load.table
    /\ fetched_at' = Stamp
    /\ load' = NULL
    /\ answered' = load.start
    /\ UNCHANGED <<now, files>>

\* The middleware restarts.
Restart ==
    /\ cache' = NoTable
    /\ fetched_at' = 0
    /\ load' = NULL
    /\ answered' = NULL
    /\ UNCHANGED <<now, files>>

-----------------------------------------------------------------------------
Write(f) ==
    /\ writes < MaxWrites
    /\ writes' = writes + 1
    /\ written' = [written EXCEPT ![f] = now]
    /\ answered' = NULL
    /\ UNCHANGED <<now, cache, fetched_at, load>>

\* A publication or sync-auth truncates the bundle, fills it, stops in between, or
\* overlaps with another one.
WriteBundle(value) == bundle' = value /\ Write(Bundle) /\ UNCHANGED configs

\* So does upsert with a tenant's config; delete removes it.
WriteConfig(t, value) ==
    configs' = [configs EXCEPT ![t] = value] /\ Write(t) /\ UNCHANGED bundle

Tick ==
    /\ now < MaxTime
    /\ now' = now + 1
    /\ answered' = NULL
    /\ UNCHANGED <<files, cache, fetched_at, load>>

Next ==
    \/ Lookup
    \/ StartLoad
    \/ ReadBundle
    \/ ListConfigs
    \/ ReadConfig
    \/ Install
    \/ Restart
    \/ \E value \in Map \cup {Torn} : WriteBundle(value)
    \/ \E t \in Tenants, value \in Hostnames \cup {NULL, Torn} : WriteConfig(t, value)
    \/ Tick

Spec == Init /\ [][Next]_vars

-----------------------------------------------------------------------------
\* The files, the tables and the load in progress have their types.
TypeOK ==
    /\ now \in Time
    /\ bundle \in Map \cup {Torn}
    /\ configs \in [Tenants -> Hostnames \cup {NULL, Torn}]
    /\ cache \in Table
    /\ fetched_at \in Time
    /\ load \in Load \cup {NULL}
    /\ answered \in Time \cup {NULL}
    /\ written \in [Tenants \cup {Bundle} -> Time]
    /\ writes \in 0..MaxWrites

\* A request is answered with a configuration that was read from its file less than a TTL
\* ago, or else was read for this request, after it came: only a request that itself
\* waits a TTL or more for its load gets a configuration that old.
AnswersRecentlyRead ==
    answered # NULL => \A host \in Hostnames \cup {NULL}, name \in Tenants \cup {NULL} :
        LET config == GetTenantConfig(host, name)
        IN  config # NULL => config.read >= answered \/ now < config.read + TTL

\* The request just answered came a TTL or more after the file was last written.
Settled(f) == answered >= written[f] + TTL
AsConfig(config, t, h, source) ==
    config # NULL /\ config.name = t /\ config.hostname = h /\ config.source = source

\* A login for a tenant that comes a TTL after the last change of the bundle and of that
\* tenant's own config, whatever is going on with the other tenants' files, gets its
\* legacy config, else its published entry, else nothing; a host that is asked for a TTL
\* after the last change of any file is taken for the last tenant whose legacy config has
\* it, else for the last one that is published with it.  What a load saw half-written, or
\* between two writes, is forgotten by then, also by the request that loads the tables
\* itself, and if they come out empty.
TableCatchesUp ==
    LET Prefer(config, legacy, published) ==
            \* the config found is the legacy one, else the published one: <<t, h>> or none
            IF legacy # {}
            THEN \E c \in legacy : AsConfig(config, c[1], c[2], "legacy_config")
            ELSE IF published # {}
            THEN \E c \in published : AsConfig(config, c[1], c[2], "published_bundle")
            ELSE config = NULL
        InConfigs == {c \in Tenants \X Hostnames : configs[c[1]] = c[2]}
        InBundle  == {c \in Tenants \X Hostnames : bundle # Torn /\ bundle[c[1]] = c[2]}
        OfTenant(cs, t) == {c \in cs : c[1] = t}
        LastOfHost(cs, h) ==
            {c \in cs : c[2] = h /\ \A d \in cs : d[2] = h => d[1] <= c[1]}
    IN  answered # NULL /\ Settled(Bundle) =>
            /\ \A t \in Tenants : Settled(t) =>
                   Prefer(GetTenantConfig(NULL, t),
                          OfTenant(InConfigs, t), OfTenant(InBundle, t))
            /\ (\A t \in Tenants : Settled(t)) => \A h \in Hostnames :
                   Prefer(GetTenantConfig(h, NULL),
                          LastOfHost(InConfigs, h), LastOfHost(InBundle, h))
=============================================================================
