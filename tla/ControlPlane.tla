---------------------------- MODULE ControlPlane ----------------------------
(***************************************************************************)
(* platform/control-plane/main.py: the service that owns the tenant        *)
(* database and generates the runtime files.  Its endpoints are plain      *)
(* `def` functions, so the framework runs each request in a worker thread, *)
(* and every load_* and save_tenant call opens its own SQLite connection   *)
(* and transaction.  A handler is therefore a process whose atomic steps   *)
(* are those calls and the file writes; handlers interleave between them.  *)
(***************************************************************************)
EXTENDS Naturals, Sequences

CONSTANTS
    Tenants,        \* tenant ids
    Hostnames,      \* values of primary_hostname
    Handlers,       \* worker threads
    Upserts,        \* request bodies of POST /tenants and PUT /tenants/{id}
    Reports,        \* what assess_backend may return
    RuntimeFiles,   \* the files of a publication, in the order they are written
    LegacyConfigs,  \* tenants/*/config.json, in the order sorted() gives them
    ShippedTenants, \* tenants of the runtime files that come with a checkout
    MaxRevisions,   \* bound: no request starts on a tenant with this many log rows
    MaxFailures,    \* bound: handlers that stop half-way in a behaviour
    NULL,           \* no row, no record, None
    Shipped         \* an entry of a runtime file that comes with a checkout

IntegrationModes == {"managed_oidc", "form_bridge", "federated_db"}
IdentityModes    == {"managed", "federated_db"}
AdapterModes     == {"headers", "translated_token"}
Statuses         == {"draft", "validated", "published", "disabled"}
SecretNames      == {"keycloak_client_secret", "downstream_jwt_secret",
                     "federation_adapter", "federated_db_dsn"}

\* client_change_summary: absent, a text without the user-table requirement,
\* or one with it ("Provide user-table ..."), the only part ever read back.
Summaries == {"none", "plain", "user_table"}

Upsert == [primary_hostname      : Hostnames,
           origin_ok             : BOOLEAN, \* derive_backend_parts accepts it
           integration_mode      : IntegrationModes,
           identity_mode         : IdentityModes,
           adapter_mode          : AdapterModes,
           secret_refs           : SUBSET SecretNames,
           client_change_summary : Summaries]

\* The report of assess_backend: of its verdict only "blocked" is ever read, of
\* its recommended_login_mode whether it is "form".
Assessments == {"usable", "blocked"}
Report      == [assessment : Assessments, form_login : BOOLEAN]

\* A tenant payload: the columns of a body and those the service adds.
Record == [tenant_id  : Tenants,
           body       : Upsert,
           assessment : Assessments \cup {NULL},
           status     : Statuses,
           revision   : Nat \ {0}]

LegacyConfig == [tenant_id        : Tenants,
                 primary_hostname : Hostnames,
                 origin_ok        : BOOLEAN,
                 keycloak_login   : BOOLEAN, \* login_mode = "keycloak"
                 no_spi           : BOOLEAN,
                 adapter_mode     : AdapterModes]

ASSUME UpsertsAssumption == Upserts \subseteq Upsert
ASSUME ReportsAssumption == Reports \subseteq Report
ASSUME FilesAssumption   == RuntimeFiles \in Seq(STRING) \ {<< >>}
ASSUME LegacyAssumption  == LegacyConfigs \in Seq(LegacyConfig)
ASSUME NullAssumption    == /\ NULL \notin Record \cup Assessments
                            /\ Shipped \notin Record \cup {NULL}
ASSUME BoundsAssumption  == /\ MaxRevisions \in Nat \ {0}
                            /\ MaxFailures \in Nat
                            /\ ShippedTenants \subseteq Tenants

\* publish_runtime_bundles writes AllRuntimeFiles one after the other: the
\* three bundles, policies/tenants.json and envoy.yaml.  A file maps each tenant
\* to the record its entry was rendered from; each file renders columns of its
\* own, the model keeps the record they come from.
AllRuntimeFiles == <<"auth", "routing", "policy", "policies", "envoy">>
FileNames == {RuntimeFiles[i] : i \in DOMAIN RuntimeFiles}
Entry     == Record \cup {NULL, Shipped}
Rows      == [Tenants -> Record \cup {NULL}]

Actions == {"created", "updated", "assessed", "validated", "validation_failed",
            "published", "disabled", "legacy_imported", "legacy_bootstrap"}
LogRow  == [action : Actions, payload : Record]

Operations == {"create", "update", "assess", "validate", "publish", "disable",
               "import", "none"}
Steps      == {"idle", "check", "save", "import", "snapshot", "write"}

VARIABLES
    tenants,          \* table tenants: tenant -> payload of its row, or NULL
    tenant_revisions, \* table tenant_revisions: tenant -> its rows by id
    files,            \* runtime file -> tenant -> entry
    pc,               \* handler -> the step it takes next
    op,               \* handler -> the endpoint it runs
    record,           \* handler -> the payload it works on
    snapshot,         \* handler -> the published rows it renders
    cursor,           \* handler -> next legacy config, or next runtime file
    failures          \* handlers that stopped half-way so far

database == <<tenants, tenant_revisions>>
vars     == <<tenants, tenant_revisions, files, pc, op, record, snapshot,
              cursor, failures>>

NoRows == [t \in Tenants |-> NULL]

-----------------------------------------------------------------------------
(* Helpers of the handlers.  A definition named after another one with a   *)
(* suffix is a wrong version of it, to show that a property notices.       *)

\* hostname_exists: some other tenant's row has the hostname.
HostnameExists(hostname, excluding) ==
    \E t \in Tenants \ {excluding} :
        tenants[t] # NULL /\ tenants[t].body.primary_hostname = hostname

RequiredSecrets(b) ==
    (IF b.integration_mode = "federated_db"
     THEN {"federation_adapter", "federated_db_dsn"}
     ELSE {"keycloak_client_secret"})
    \cup (IF b.adapter_mode = "translated_token"
          THEN {"downstream_jwt_secret"} ELSE {})

\* validate_tenant_payload returns no error.  It reads the table for the
\* hostname and the payload for the rest.
PayloadValid(r) ==
    LET b == r.body
    IN  /\ ~HostnameExists(b.primary_hostname, r.tenant_id)
        /\ b.origin_ok
        /\ b.integration_mode = "managed_oidc" => b.identity_mode = "managed"
        /\ b.integration_mode = "federated_db" => b.identity_mode = "federated_db"
        /\ RequiredSecrets(b) \subseteq b.secret_refs

\* The further conditions of POST /tenants/{id}/validate.
ReadyForValidation(r) ==
    /\ r.assessment # NULL
    /\ r.body.integration_mode = "federated_db" =>
           /\ r.body.client_change_summary = "user_table"
           /\ r.assessment # "blocked"

\* build_client_change_summary, reduced to the sentence that is read back.
BuildSummary(mode) == IF mode = "federated_db" THEN "user_table" ELSE "plain"

NextRevision_Lost(r)  == 0
NextRevision_Twice(r) == r.revision + 2
NextRevision(r)       == r.revision + 1

WithStatus(r, status) ==
    [r EXCEPT !.status = status, !.revision = NextRevision(r)]

\* The record create_tenant builds from a request body.
NewRecord(t, u) ==
    [tenant_id  |-> t,
     body       |-> [u EXCEPT !.client_change_summary =
                         IF @ # "none" THEN @ ELSE BuildSummary(u.integration_mode)],
     assessment |-> NULL,
     status     |-> "draft",
     revision   |-> 1]

\* The record update_tenant builds: the body over the existing row, which keeps
\* its assessment and, unless the body has one, its summary.
UpdatedRecord(existing, u) ==
    [existing EXCEPT
        !.body     = [u EXCEPT !.client_change_summary =
                         IF @ # "none" THEN @
                         ELSE existing.body.client_change_summary],
        !.status   = IF @ = "published" THEN "draft" ELSE @,
        !.revision = NextRevision(existing)]

\* The record assess_tenant builds from a report.
AssessedRecord(existing, report) ==
    LET mode == IF /\ existing.body.integration_mode = "managed_oidc"
                   /\ report.form_login
                THEN "form_bridge" ELSE existing.body.integration_mode
    IN  [existing EXCEPT !.assessment = report.assessment,
                         !.body.integration_mode = mode,
                         !.body.client_change_summary = BuildSummary(mode),
                         !.revision = NextRevision(existing)]

\* legacy_tenant_to_record.
LegacyRecord(c) ==
    [tenant_id  |-> c.tenant_id,
     body       |->
        [primary_hostname      |-> c.primary_hostname,
         origin_ok             |-> c.origin_ok,
         integration_mode      |-> IF c.keycloak_login THEN "managed_oidc"
                                                       ELSE "form_bridge",
         identity_mode         |-> IF c.no_spi THEN "federated_db" ELSE "managed",
         adapter_mode          |-> c.adapter_mode,
         secret_refs           |-> {"keycloak_client_secret"} \cup
                                   (IF c.adapter_mode = "translated_token"
                                    THEN {"downstream_jwt_secret"} ELSE {}),
         client_change_summary |-> "plain"],
     assessment |-> NULL,
     status     |-> "published",
     revision   |-> 1]

PublishedRows_All == tenants

\* The rows publish_runtime_bundles selects.
PublishedRows ==
    [t \in Tenants |-> IF tenants[t] # NULL /\ tenants[t].status = "published"
                       THEN tenants[t] ELSE NULL]

\* tenant_to_runtime_shape raises on a backend origin it cannot parse.
Renderable(rows) == \A t \in Tenants : rows[t] # NULL => rows[t].body.origin_ok

-----------------------------------------------------------------------------
(* The requests.  Begin is the arrival of one in an idle thread together   *)
(* with the handler's first database read.  A request refused there (404,  *)
(* 409, 400) changes nothing and is no step.                               *)

Begin(h, operation, step, r) ==
    /\ pc[h] = "idle"
    /\ pc'     = [pc EXCEPT ![h] = step]
    /\ op'     = [op EXCEPT ![h] = operation]
    /\ record' = [record EXCEPT ![h] = r]
    /\ UNCHANGED <<database, files, snapshot, cursor, failures>>

\* The handler returns or raises: its locals are gone.
Return(h) ==
    /\ pc'       = [pc EXCEPT ![h] = "idle"]
    /\ op'       = [op EXCEPT ![h] = "none"]
    /\ record'   = [record EXCEPT ![h] = NULL]
    /\ snapshot' = [snapshot EXCEPT ![h] = NoRows]
    /\ cursor'   = [cursor EXCEPT ![h] = 1]

WithinBound(t) == Len(tenant_revisions[t]) < MaxRevisions

\* load_tenant finds a row.
Loads(t) == WithinBound(t) /\ tenants[t] # NULL

\* POST /tenants.
CreateTenant(h, t, u) ==
    /\ WithinBound(t)
    /\ tenants[t] = NULL
    /\ Begin(h, "create", "check", NewRecord(t, u))

\* PUT /tenants/{id}.
UpdateTenant(h, t, u) ==
    Loads(t) /\ Begin(h, "update", "check", UpdatedRecord(tenants[t], u))

\* POST /tenants/{id}/assess: the backend is probed between the load and the
\* save, which puts the report over the row as it was loaded.
AssessTenant(h, t, report) ==
    Loads(t) /\ Begin(h, "assess", "save", AssessedRecord(tenants[t], report))

\* POST /tenants/{id}/validate: whatever the status.
ValidateTenant(h, t) == Loads(t) /\ Begin(h, "validate", "check", tenants[t])

PublishGuard_Any(r) == r.status # "published"
PublishGuard(r)     == r.status = "validated"

\* POST /tenants/{id}/publish.
PublishTenant(h, t) ==
    /\ Loads(t)
    /\ PublishGuard(tenants[t])
    /\ Begin(h, "publish", "save", WithStatus(tenants[t], "published"))

\* POST /tenants/{id}/disable: whatever the status.
DisableTenant(h, t) ==
    Loads(t) /\ Begin(h, "disable", "save", WithStatus(tenants[t], "disabled"))

\* POST /tenants/import-legacy.
ImportLegacy(h) == Begin(h, "import", "import", NULL)

-----------------------------------------------------------------------------
(* The handlers' further steps.                                            *)

\* create_tenant and update_tenant call validate_tenant_payload; an error drops
\* the request.
CheckPayload(h) ==
    /\ pc[h] = "check"
    /\ op[h] \in {"create", "update"}
    /\ \/ /\ PayloadValid(record[h])
          /\ pc' = [pc EXCEPT ![h] = "save"]
          /\ UNCHANGED <<op, record, snapshot, cursor>>
       \/ ~PayloadValid(record[h]) /\ Return(h)
    /\ UNCHANGED <<database, files, failures>>

\* validate_tenant calls it too, and saves the row as a draft on an error.
CheckValidation(h) ==
    /\ pc[h] = "check"
    /\ op[h] = "validate"
    /\ LET passed == PayloadValid(record[h]) /\ ReadyForValidation(record[h])
       IN  record' = [record EXCEPT ![h] =
                         WithStatus(@, IF passed THEN "validated" ELSE "draft")]
    /\ pc' = [pc EXCEPT ![h] = "save"]
    /\ UNCHANGED <<database, files, op, snapshot, cursor, failures>>

\* The action each handler passes to save_tenant.
ActionOf(operation, r) ==
    CASE operation = "create"   -> "created"
      [] operation = "update"   -> "updated"
      [] operation = "assess"   -> "assessed"
      [] operation = "validate" -> IF r.status = "validated"
                                   THEN "validated" ELSE "validation_failed"
      [] operation = "publish"  -> "published"
      [] operation = "disable"  -> "disabled"
      [] OTHER                  -> "legacy_imported"

Generating_NoDisable == {"publish"}
\* The handlers that call publish_runtime_bundles after their save.
Generating == {"publish", "disable"}

\* What follows save_tenant: the bundles, the next legacy config, or the answer.
AfterSave(h) ==
    \/ /\ op[h] \in Generating
       /\ pc'     = [pc EXCEPT ![h] = "snapshot"]
       /\ record' = [record EXCEPT ![h] = NULL]
       /\ UNCHANGED <<op, snapshot, cursor>>
    \/ /\ op[h] = "import"
       /\ pc'     = [pc EXCEPT ![h] = "import"]
       /\ record' = [record EXCEPT ![h] = NULL]
       /\ cursor' = [cursor EXCEPT ![h] = @ + 1]
       /\ UNCHANGED <<op, snapshot>>
    \/ op[h] \notin Generating \cup {"import"} /\ Return(h)

\* save_tenant: the row and its log entry in one transaction.
SaveTenant(h) ==
    LET r == record[h]
        t == r.tenant_id
    IN  /\ pc[h] = "save"
        /\ tenants' = [tenants EXCEPT ![t] = r]
        /\ tenant_revisions' = [tenant_revisions EXCEPT
               ![t] = Append(@, [action |-> ActionOf(op[h], r), payload |-> r])]
        /\ AfterSave(h)
        /\ UNCHANGED <<files, failures>>

\* One round of import_legacy_tenants' loop: skip a tenant that has a row, else
\* go and save it; after the last config, generate the bundles.
ImportNext(h) ==
    /\ pc[h] = "import"
    /\ \/ /\ cursor[h] > Len(LegacyConfigs)
          /\ pc'     = [pc EXCEPT ![h] = "snapshot"]
          /\ cursor' = [cursor EXCEPT ![h] = 1]
          /\ UNCHANGED record
       \/ /\ cursor[h] <= Len(LegacyConfigs)
          /\ tenants[LegacyConfigs[cursor[h]].tenant_id] # NULL
          /\ cursor' = [cursor EXCEPT ![h] = @ + 1]
          /\ UNCHANGED <<pc, record>>
       \/ /\ cursor[h] <= Len(LegacyConfigs)
          /\ tenants[LegacyConfigs[cursor[h]].tenant_id] = NULL
          /\ pc'     = [pc EXCEPT ![h] = "save"]
          /\ record' = [record EXCEPT ![h] = LegacyRecord(LegacyConfigs[cursor[h]])]
          /\ UNCHANGED cursor
    /\ UNCHANGED <<database, files, op, snapshot, failures>>

\* publish_runtime_bundles, first part: one read of the table, then everything
\* is rendered in memory; a row that cannot be rendered raises here.
LoadPublished(h) ==
    /\ pc[h] = "snapshot"
    /\ \/ /\ Renderable(PublishedRows)
          /\ pc'       = [pc EXCEPT ![h] = "write"]
          /\ snapshot' = [snapshot EXCEPT ![h] = PublishedRows]
          /\ cursor'   = [cursor EXCEPT ![h] = 1]
          /\ UNCHANGED <<op, record>>
       \/ ~Renderable(PublishedRows) /\ Return(h)
    /\ UNCHANGED <<database, files, failures>>

LastFile_Forgotten == Len(RuntimeFiles) - 1
LastFile           == Len(RuntimeFiles)

\* Second part: the files, one after the other.
WriteBundle(h) ==
    /\ pc[h] = "write"
    /\ files' = [files EXCEPT ![RuntimeFiles[cursor[h]]] = snapshot[h]]
    /\ \/ /\ cursor[h] < LastFile
          /\ cursor' = [cursor EXCEPT ![h] = @ + 1]
          /\ UNCHANGED <<pc, op, record, snapshot>>
       \/ cursor[h] >= LastFile /\ Return(h)
    /\ UNCHANGED <<database, failures>>

\* A handler stops between two steps: an exception (a locked database, a full
\* disk, missing markers in envoy.yaml) or the death of the process, which is
\* this step for each of its handlers.
HandlerFails(h) ==
    /\ pc[h] # "idle"
    /\ failures < MaxFailures
    /\ failures' = failures + 1
    /\ Return(h)
    /\ UNCHANGED <<database, files>>

-----------------------------------------------------------------------------
\* The row scripts/bootstrap_control_plane.py writes for a tenant: that of its
\* first legacy config, as import-legacy would.
LegacyRow(t) ==
    LET configs == {i \in DOMAIN LegacyConfigs : LegacyConfigs[i].tenant_id = t}
    IN  IF configs = {} THEN NULL
        ELSE LegacyRecord(LegacyConfigs[CHOOSE i \in configs :
                                            \A j \in configs : i <= j])

EmptyDatabase ==
    /\ tenants = NoRows
    /\ tenant_revisions = [t \in Tenants |-> << >>]

\* The script rejects all configs if one is malformed, and writes no runtime file.
BootstrappedDatabase ==
    /\ \A i \in DOMAIN LegacyConfigs : LegacyConfigs[i].origin_ok
    /\ tenants = [t \in Tenants |-> LegacyRow(t)]
    /\ tenant_revisions =
           [t \in Tenants |-> IF LegacyRow(t) = NULL THEN << >>
                              ELSE <<[action  |-> "legacy_bootstrap",
                                      payload |-> LegacyRow(t)]>>]

Init ==
    /\ EmptyDatabase \/ BootstrappedDatabase
    /\ files    = [f \in FileNames |-> [t \in Tenants |->
                      IF t \in ShippedTenants THEN Shipped ELSE NULL]]
    /\ pc       = [h \in Handlers |-> "idle"]
    /\ op       = [h \in Handlers |-> "none"]
    /\ record   = [h \in Handlers |-> NULL]
    /\ snapshot = [h \in Handlers |-> NoRows]
    /\ cursor   = [h \in Handlers |-> 1]
    /\ failures = 0

Request(h) ==
    \/ \E t \in Tenants, u \in Upserts : CreateTenant(h, t, u)
    \/ \E t \in Tenants, u \in Upserts : UpdateTenant(h, t, u)
    \/ \E t \in Tenants, report \in Reports : AssessTenant(h, t, report)
    \/ \E t \in Tenants : ValidateTenant(h, t)
    \/ \E t \in Tenants : PublishTenant(h, t)
    \/ \E t \in Tenants : DisableTenant(h, t)
    \/ ImportLegacy(h)

Continue(h) ==
    \/ CheckPayload(h)
    \/ CheckValidation(h)
    \/ SaveTenant(h)
    \/ ImportNext(h)
    \/ LoadPublished(h)
    \/ WriteBundle(h)

Next == \E h \in Handlers : Request(h) \/ Continue(h) \/ HandlerFails(h)

Spec == Init /\ [][Next]_vars

\* A worker thread that has taken a request runs its handler to the end;
\* nothing makes a client send one.
FairSpec == Spec /\ \A h \in Handlers : WF_vars(Continue(h))

-----------------------------------------------------------------------------
\* The types of the two tables, the runtime files and the handlers' locals.
TypeOK ==
    /\ tenants \in Rows
    /\ tenant_revisions \in [Tenants -> Seq(LogRow)]
    /\ files \in [FileNames -> [Tenants -> Entry]]
    /\ pc \in [Handlers -> Steps]
    /\ op \in [Handlers -> Operations]
    /\ record \in [Handlers -> Record \cup {NULL}]
    /\ snapshot \in [Handlers -> Rows]
    /\ cursor \in [Handlers -> Nat \ {0}]
    /\ failures \in 0..MaxFailures

-----------------------------------------------------------------------------
(* Properties that hold however the handlers interleave and fail.          *)

\* Record r was at some time the payload of a save of tenant t.
Logged(t, r) == \E i \in DOMAIN tenant_revisions[t] :
                    tenant_revisions[t][i].payload = r

\* publish_runtime_bundles renders nothing but published rows: whatever the data
\* plane reads in a runtime file is an entry of the checkout, or was saved with
\* status "published" and is in the revision history, also when two publications
\* overlap or one stops between two files.
BundledWasPublished ==
    \A f \in FileNames, t \in Tenants :
        files[f][t] \notin {NULL, Shipped} =>
            /\ files[f][t].status = "published"
            /\ Logged(t, files[f][t])

\* Every handler numbers its save one above the row it loaded: a revision in
\* the history is 1 or comes after an entry with the number below it, so
\* GET /tenants/{id}/revisions never shows a gap (it may show a number twice).
RevisionsHaveNoGaps ==
    \A t \in Tenants : \A i \in DOMAIN tenant_revisions[t] :
        LET n == tenant_revisions[t][i].payload.revision
        IN  n = 1 \/ \E j \in 1..(i - 1) :
                         tenant_revisions[t][j].payload.revision = n - 1

\* publish_tenant publishes the row it found validated, not what others have
\* made of it since: every "published" entry of the history differs from an
\* earlier entry with status "validated" in status and revision only.
PublishedCopiesValidated ==
    \A t \in Tenants : \A i \in DOMAIN tenant_revisions[t] :
        LET row == tenant_revisions[t][i]
        IN  row.action = "published" =>
                \E j \in 1..(i - 1) :
                    LET earlier == tenant_revisions[t][j].payload
                    IN  /\ earlier.status = "validated"
                        /\ row.payload = WithStatus(earlier, "published")

-----------------------------------------------------------------------------
(* Properties of one request at a time (a single handler).                 *)

Quiescent == \A h \in Handlers : pc[h] = "idle"
\* Between requests, if no handler stopped half-way: nothing repeats what it left out.
Undisturbed == Quiescent /\ failures = 0

PhaseOf(t) == IF tenants[t] = NULL THEN "absent" ELSE tenants[t].status

\* validate_tenant_payload: "hostname already assigned".  No two rows have the
\* same primary_hostname.
HostnamesUnique ==
    \A t1, t2 \in Tenants :
        /\ t1 # t2
        /\ tenants[t1] # NULL
        /\ tenants[t2] # NULL
        => tenants[t1].body.primary_hostname # tenants[t2].body.primary_hostname

\* The entries of t's history that a publish or an import wrote.
Publications(t) == {i \in DOMAIN tenant_revisions[t] :
    tenant_revisions[t][i].action \in {"published", "legacy_imported"}}

\* Undisturbed, the middleware, OPA and Envoy are given one and the same set of
\* tenants, and it follows the rows: one that a publish or an import made
\* "published", and that still is, has entries at least as new as that publication
\* (an assessment may since have changed the row); a disabled one has none, and
\* later edits or assessments of it do not bring it back.
FilesFollowRows ==
    Undisturbed =>
        /\ \A f, g \in FileNames : files[f] = files[g]
        /\ \A f \in FileNames, t \in Tenants :
               /\ PhaseOf(t) = "published" => \A i \in Publications(t) :
                      /\ files[f][t] \notin {NULL, Shipped}
                      /\ files[f][t].revision >= tenant_revisions[t][i].payload.revision
               /\ PhaseOf(t) = "disabled" => files[f][t] = NULL

\* Disabling takes effect: a disabled row leads to files without its tenant,
\* unless validate_tenant takes the row out of "disabled" first or a handler stops.
DisableTakesEffect ==
    \A t \in Tenants :
        (PhaseOf(t) = "disabled") ~>
            \/ PhaseOf(t) # "disabled" \/ failures > 0
            \/ \A f \in FileNames : files[f][t] = NULL

-----------------------------------------------------------------------------
(* The service as its operators see it: the phase of a tenant is the status*)
(* of its row; the tenants served are those of the last file a publication *)
(* writes.                                                                 *)
Lifecycle == INSTANCE TenantLifecycle
    WITH phase  <- [t \in Tenants |-> PhaseOf(t)],
         served <- {t \in Tenants :
                       files[RuntimeFiles[Len(RuntimeFiles)]][t] # NULL},
         Legacy <- {LegacyConfigs[i].tenant_id : i \in DOMAIN LegacyConfigs}

\* One request at a time, handlers that fail half-way included, the service
\* implements TenantLifecycle: only a validated tenant is published, only
\* create, edit, validate, publish, disable and import move a tenant, and the
\* gateway's file is only ever switched to exactly the published rows.
ImplementsLifecycle == Lifecycle!Spec
=============================================================================
