-------------------------- MODULE ControlPlaneProofs --------------------------
(***************************************************************************)
(* Theorems about ControlPlane for every set of tenants, bodies and runtime*)
(* files.  For every number of handlers: type correctness, that the runtime*)
(* files never hold a row that was not saved as published, that the numbers*)
(* of the history have no gap, that nothing is published but what was      *)
(* validated.  For one request at a time: that the service implements      *)
(* TenantLifecycle, and that the runtime files follow the rows.            *)
(***************************************************************************)
EXTENDS ControlPlane, WellFoundedInduction, TLAPS

\* A handler about to check or save works on a record, one that writes is at one
\* of the files.
LocalsOK ==
    \A h \in Handlers :
        /\ pc[h] \in {"check", "save"} => record[h] \in Record
        /\ pc[h] = "write" => cursor[h] \in DOMAIN RuntimeFiles

\* Every row of the table is in the history.
RowsLogged == \A t \in Tenants : tenants[t] # NULL => Logged(t, tenants[t])

\* What a handler has loaded for rendering was saved as published.
SnapshotsPublished ==
    \A h \in Handlers, t \in Tenants :
        snapshot[h][t] # NULL =>
            /\ snapshot[h][t].status = "published"
            /\ Logged(t, snapshot[h][t])

TypeInv == TypeOK /\ LocalsOK

IInv == TypeInv /\ RowsLogged /\ SnapshotsPublished /\ BundledWasPublished

-----------------------------------------------------------------------------
\* The records the handlers build are records.
LEMMA BuildSummaryType ==
    ASSUME NEW m PROVE BuildSummary(m) \in Summaries
BY DEF BuildSummary, Summaries

LEMMA NextRevisionType ==
    ASSUME NEW r \in Record PROVE NextRevision(r) \in Nat \ {0}
<1>1. r.revision \in Nat \ {0}
  BY DEF Record
<1>. QED  BY <1>1 DEF NextRevision

LEMMA WithStatusType ==
    ASSUME NEW r \in Record, NEW s \in Statuses
    PROVE  WithStatus(r, s) \in Record
BY NextRevisionType DEF WithStatus, Record

LEMMA NewRecordType ==
    ASSUME NEW t \in Tenants, NEW u \in Upsert
    PROVE  NewRecord(t, u) \in Record
<1>1. BuildSummary(u.integration_mode) \in Summaries
  BY BuildSummaryType
<1>2. [u EXCEPT !.client_change_summary =
          IF @ # "none" THEN @ ELSE BuildSummary(u.integration_mode)] \in Upsert
  BY <1>1 DEF Upsert
<1>. QED  BY <1>2 DEF NewRecord, Record, Statuses

LEMMA UpdatedRecordType ==
    ASSUME NEW r \in Record, NEW u \in Upsert
    PROVE  UpdatedRecord(r, u) \in Record
<1>1. [u EXCEPT !.client_change_summary =
          IF @ # "none" THEN @ ELSE r.body.client_change_summary] \in Upsert
  BY DEF Upsert, Record
<1>. QED  BY <1>1, NextRevisionType DEF UpdatedRecord, Record, Statuses

LEMMA AssessedRecordType ==
    ASSUME NEW r \in Record, NEW report \in Report
    PROVE  AssessedRecord(r, report) \in Record
<1> DEFINE mode == IF /\ r.body.integration_mode = "managed_oidc"
                      /\ report.form_login
                   THEN "form_bridge" ELSE r.body.integration_mode
<1>1. mode \in IntegrationModes
  BY DEF IntegrationModes, Record, Upsert
<1>2. BuildSummary(mode) \in Summaries
  BY BuildSummaryType
<1>3. [r.body EXCEPT !.integration_mode = mode,
                     !.client_change_summary = BuildSummary(mode)] \in Upsert
  BY <1>1, <1>2 DEF Upsert, Record
<1>. QED
  BY <1>3, NextRevisionType DEF AssessedRecord, Record, Report, Upsert

LEMMA LegacyRecordType ==
    ASSUME NEW c \in LegacyConfig
    PROVE  LegacyRecord(c) \in Record
BY DEF LegacyConfig, LegacyRecord, Record, Upsert, IntegrationModes,
       IdentityModes, AdapterModes, SecretNames, Summaries, Statuses

LEMMA ActionOfType ==
    ASSUME NEW o, NEW r PROVE ActionOf(o, r) \in Actions
BY DEF ActionOf, Actions

\* The bootstrap script finds a first legacy config when there is one.
LEMMA FirstLegacyConfig ==
    ASSUME NEW t \in Tenants, LegacyRow(t) # NULL
    PROVE  \E i \in DOMAIN LegacyConfigs :
               /\ LegacyConfigs[i].tenant_id = t
               /\ LegacyRow(t) = LegacyRecord(LegacyConfigs[i])
<1> DEFINE C == {i \in DOMAIN LegacyConfigs : LegacyConfigs[i].tenant_id = t}
           R == OpToRel(<, Nat)
<1>1. C \subseteq Nat
  BY LegacyAssumption
<1>2. C # {}
  BY DEF LegacyRow
<1>3. PICK m \in C : \A j \in C : ~(<<j, m>> \in R)
  BY <1>1, <1>2, NatLessThanWellFounded, WFMin
<1>4. ASSUME NEW j \in C PROVE m <= j
  <2>1. j \in Nat /\ m \in Nat /\ ~(j < m)
    BY <1>1, <1>3 DEF OpToRel
  <2>. HIDE DEF C, R
  <2>. QED  BY ONLY <2>1
<1>5. (CHOOSE i \in C : \A j \in C : i <= j) \in C
  BY <1>3, <1>4
<1>. QED  BY <1>2, <1>5 DEF LegacyRow

LEMMA LegacyRowType ==
    ASSUME NEW t \in Tenants PROVE LegacyRow(t) \in Record \cup {NULL}
BY FirstLegacyConfig, LegacyAssumption, LegacyRecordType

-----------------------------------------------------------------------------
\* The types of the handlers' locals, and those of the shared tables.
LocalTypes ==
    /\ pc \in [Handlers -> Steps]
    /\ op \in [Handlers -> Operations]
    /\ record \in [Handlers -> Record \cup {NULL}]
    /\ snapshot \in [Handlers -> Rows]
    /\ cursor \in [Handlers -> Nat \ {0}]
    /\ LocalsOK

SharedTypes ==
    /\ tenants \in Rows
    /\ tenant_revisions \in [Tenants -> Seq(LogRow)]
    /\ files \in [FileNames -> [Tenants -> Entry]]
    /\ failures \in 0..MaxFailures

LEMMA TypeInvSplit == TypeInv <=> SharedTypes /\ LocalTypes
BY DEF TypeInv, TypeOK, SharedTypes, LocalTypes

\* A request that begins sets its handler's locals to values of their types.
LEMMA BeginTypes ==
    ASSUME TypeInv,
           NEW h \in Handlers,
           NEW operation \in Operations,
           NEW step \in {"check", "save", "import"},
           NEW r \in Record \cup {NULL},
           step \in {"check", "save"} => r \in Record,
           Begin(h, operation, step, r)
    PROVE  TypeInv'
<1>1. SharedTypes'
  BY DEF TypeInv, TypeOK, SharedTypes, Begin, database
<1>2. LocalTypes'
  <2>1. /\ (pc \in [Handlers -> Steps])'
        /\ (op \in [Handlers -> Operations])'
        /\ (record \in [Handlers -> Record \cup {NULL}])'
        /\ (snapshot \in [Handlers -> Rows])'
        /\ (cursor \in [Handlers -> Nat \ {0}])'
    BY DEF TypeInv, TypeOK, Begin, Steps
  <2>2. LocalsOK'
    BY DEF TypeInv, TypeOK, LocalsOK, Begin
  <2>. QED  BY <2>1, <2>2 DEF LocalTypes
<1>. QED  BY <1>1, <1>2 DEF TypeInv, TypeOK, SharedTypes, LocalTypes

\* So does one that ends.
LEMMA ReturnTypes ==
    ASSUME TypeInv, NEW h \in Handlers, Return(h) PROVE LocalTypes'
<1>1. NoRows \in Rows
  BY DEF NoRows, Rows
<1>2. /\ (pc \in [Handlers -> Steps])'
      /\ (op \in [Handlers -> Operations])'
      /\ (record \in [Handlers -> Record \cup {NULL}])'
      /\ (snapshot \in [Handlers -> Rows])'
      /\ (cursor \in [Handlers -> Nat \ {0}])'
  BY <1>1 DEF TypeInv, TypeOK, Return, Steps, Operations
<1>3. LocalsOK'
  BY DEF TypeInv, TypeOK, LocalsOK, Return
<1>. QED  BY <1>2, <1>3 DEF LocalTypes

LEMMA RequestTypes ==
    ASSUME TypeInv, NEW h \in Handlers, Request(h) PROVE TypeInv'
<1>1. \A t \in Tenants : tenants[t] \in Record \cup {NULL}
  BY DEF TypeInv, TypeOK, Rows
<1>2. ASSUME NEW t \in Tenants, NEW u \in Upserts, CreateTenant(h, t, u)
      PROVE  TypeInv'
  <2>1. NewRecord(t, u) \in Record
    BY NewRecordType, UpsertsAssumption
  <2>. QED  BY <1>2, <2>1, BeginTypes DEF CreateTenant, Operations
<1>3. ASSUME NEW t \in Tenants, NEW u \in Upserts, UpdateTenant(h, t, u)
      PROVE  TypeInv'
  <2>1. UpdatedRecord(tenants[t], u) \in Record
    BY <1>1, <1>3, UpdatedRecordType, UpsertsAssumption DEF UpdateTenant, Loads
  <2>. QED  BY <1>3, <2>1, BeginTypes DEF UpdateTenant, Operations
<1>4. ASSUME NEW t \in Tenants, NEW report \in Reports,
             AssessTenant(h, t, report)
      PROVE  TypeInv'
  <2>1. AssessedRecord(tenants[t], report) \in Record
    BY <1>1, <1>4, AssessedRecordType, ReportsAssumption DEF AssessTenant, Loads
  <2>. QED  BY <1>4, <2>1, BeginTypes DEF AssessTenant, Operations
<1>5. ASSUME NEW t \in Tenants, ValidateTenant(h, t) PROVE TypeInv'
  BY <1>1, <1>5, BeginTypes DEF ValidateTenant, Loads, Operations
<1>6. ASSUME NEW t \in Tenants, PublishTenant(h, t) PROVE TypeInv'
  <2>1. WithStatus(tenants[t], "published") \in Record
    BY <1>1, <1>6, WithStatusType DEF PublishTenant, Loads, Statuses
  <2>. QED  BY <1>6, <2>1, BeginTypes DEF PublishTenant, Operations
<1>7. ASSUME NEW t \in Tenants, DisableTenant(h, t) PROVE TypeInv'
  <2>1. WithStatus(tenants[t], "disabled") \in Record
    BY <1>1, <1>7, WithStatusType DEF DisableTenant, Loads, Statuses
  <2>. QED  BY <1>7, <2>1, BeginTypes DEF DisableTenant, Operations
<1>8. CASE ImportLegacy(h)
  BY <1>8, BeginTypes DEF ImportLegacy, Operations
<1>. QED
  BY <1>2, <1>3, <1>4, <1>5, <1>6, <1>7, <1>8 DEF Request

\* A step that leaves the shared state alone.
LEMMA LocalStepTypes ==
    ASSUME TypeInv, LocalTypes', UNCHANGED <<database, files, failures>>
    PROVE  TypeInv'
BY DEF TypeInv, TypeOK, LocalTypes, database

\* What follows a save keeps the types.
LEMMA AfterSaveTypes ==
    ASSUME TypeInv, NEW h \in Handlers, AfterSave(h) PROVE LocalTypes'
<1>1. CASE Return(h)
  BY <1>1, ReturnTypes
<1>2. CASE /\ pc' = [pc EXCEPT ![h] = "snapshot"]
           /\ record' = [record EXCEPT ![h] = NULL]
           /\ UNCHANGED <<op, snapshot, cursor>>
  BY <1>2 DEF TypeInv, TypeOK, LocalsOK, LocalTypes, Steps
<1>3. CASE /\ pc' = [pc EXCEPT ![h] = "import"]
           /\ record' = [record EXCEPT ![h] = NULL]
           /\ cursor' = [cursor EXCEPT ![h] = @ + 1]
           /\ UNCHANGED <<op, snapshot>>
  BY <1>3 DEF TypeInv, TypeOK, LocalsOK, LocalTypes, Steps
<1>. QED  BY <1>1, <1>2, <1>3 DEF AfterSave

\* What save_tenant writes: one row, and one entry at the end of its history.
LEMMA SavedRow ==
    ASSUME TypeInv, NEW h \in Handlers, SaveTenant(h)
    PROVE  /\ record[h] \in Record
           /\ record[h].tenant_id \in Tenants
           /\ [action  |-> ActionOf(op[h], record[h]),
               payload |-> record[h]] \in LogRow
<1>1. record[h] \in Record
  BY DEF SaveTenant, TypeInv, LocalsOK
<1>. QED  BY <1>1, ActionOfType DEF Record, LogRow

LEMMA ContinueTypes ==
    ASSUME TypeInv, NEW h \in Handlers, Continue(h) PROVE TypeInv'
<1>1. CASE CheckPayload(h)
  <2>1. CASE PayloadValid(record[h])
    BY <1>1, <2>1, LocalStepTypes
       DEF CheckPayload, TypeInv, TypeOK, LocalsOK, LocalTypes, Steps
  <2>2. CASE ~PayloadValid(record[h])
    BY <1>1, <2>2, ReturnTypes, LocalStepTypes DEF CheckPayload
  <2>. QED  BY <2>1, <2>2
<1>2. CASE CheckValidation(h)
  <2>1. record[h] \in Record
    BY <1>2 DEF CheckValidation, TypeInv, LocalsOK
  <2>2. PICK s \in {"validated", "draft"} :
            record' = [record EXCEPT ![h] = WithStatus(@, s)]
    BY <1>2 DEF CheckValidation
  <2>3. WithStatus(record[h], s) \in Record
    BY <2>1, WithStatusType DEF Statuses
  <2>4. pc' = [pc EXCEPT ![h] = "save"] /\ UNCHANGED <<op, snapshot, cursor>>
    BY <1>2 DEF CheckValidation
  <2>5. LocalTypes'
    BY <2>2, <2>3, <2>4
       DEF TypeInv, TypeOK, LocalsOK, LocalTypes, Steps
  <2>. QED  BY <1>2, <2>5, LocalStepTypes DEF CheckValidation
<1>3. CASE SaveTenant(h)
  <2>1. LocalTypes'
    BY <1>3, AfterSaveTypes DEF SaveTenant
  <2>2. /\ (tenants \in Rows)'
        /\ (files \in [FileNames -> [Tenants -> Entry]])'
        /\ (failures \in 0..MaxFailures)'
    BY <1>3, SavedRow DEF SaveTenant, TypeInv, TypeOK, Rows
  <2>3. (tenant_revisions \in [Tenants -> Seq(LogRow)])'
    <3> DEFINE t == record[h].tenant_id
               row == [action  |-> ActionOf(op[h], record[h]),
                       payload |-> record[h]]
    <3>1. t \in Tenants /\ row \in LogRow
      BY <1>3, SavedRow
    <3>2. tenant_revisions[t] \in Seq(LogRow)
      BY <3>1 DEF TypeInv, TypeOK
    <3>3. Append(tenant_revisions[t], row) \in Seq(LogRow)
      BY <3>1, <3>2
    <3>4. tenant_revisions' = [tenant_revisions EXCEPT
              ![t] = Append(tenant_revisions[t], row)]
      BY <1>3 DEF SaveTenant, TypeInv, TypeOK
    <3>. QED  BY <3>1, <3>3, <3>4 DEF TypeInv, TypeOK
  <2>. QED  BY <2>1, <2>2, <2>3 DEF TypeInv, TypeOK, LocalTypes
<1>4. CASE ImportNext(h)
  <2>1. CASE cursor[h] > Len(LegacyConfigs)
    <3>1. /\ pc' = [pc EXCEPT ![h] = "snapshot"]
          /\ cursor' = [cursor EXCEPT ![h] = 1]
          /\ UNCHANGED <<op, record, snapshot>>
      BY <1>4, <2>1, LegacyAssumption DEF ImportNext, TypeInv, TypeOK
    <3>2. LocalTypes'
      BY <3>1 DEF TypeInv, TypeOK, LocalsOK, LocalTypes, Steps
    <3>. QED  BY <1>4, <3>2, LocalStepTypes DEF ImportNext
  <2>2. CASE cursor' = [cursor EXCEPT ![h] = @ + 1] /\ UNCHANGED <<pc, record>>
    BY <1>4, <2>2, LocalStepTypes
       DEF ImportNext, TypeInv, TypeOK, LocalsOK, LocalTypes, Steps
  <2>3. CASE /\ cursor[h] <= Len(LegacyConfigs)
             /\ pc' = [pc EXCEPT ![h] = "save"]
             /\ record' = [record EXCEPT
                    ![h] = LegacyRecord(LegacyConfigs[cursor[h]])]
             /\ UNCHANGED cursor
    <3>1. cursor[h] \in DOMAIN LegacyConfigs
      BY <2>3, LegacyAssumption DEF TypeInv, TypeOK
    <3>2. LegacyRecord(LegacyConfigs[cursor[h]]) \in Record
      BY <3>1, LegacyAssumption, LegacyRecordType
    <3>3. UNCHANGED <<op, snapshot>>
      BY <1>4 DEF ImportNext
    <3>4. LocalTypes'
      BY <2>3, <3>2, <3>3 DEF TypeInv, TypeOK, LocalsOK, LocalTypes, Steps
    <3>. QED  BY <1>4, <3>4, LocalStepTypes DEF ImportNext
  <2>. QED  BY <1>4, <2>1, <2>2, <2>3 DEF ImportNext
<1>5. CASE LoadPublished(h)
  <2>1. PublishedRows \in Rows
    BY DEF PublishedRows, TypeInv, TypeOK, Rows
  <2>2. 1 \in DOMAIN RuntimeFiles
    BY FilesAssumption
  <2>3. CASE Renderable(PublishedRows)
    <3>1. /\ pc' = [pc EXCEPT ![h] = "write"]
          /\ snapshot' = [snapshot EXCEPT ![h] = PublishedRows]
          /\ cursor' = [cursor EXCEPT ![h] = 1]
          /\ UNCHANGED <<op, record>>
      BY <1>5, <2>3 DEF LoadPublished
    <3>2. LocalTypes'
      BY <2>1, <2>2, <3>1 DEF TypeInv, TypeOK, LocalsOK, LocalTypes, Steps
    <3>. QED  BY <1>5, <3>2, LocalStepTypes DEF LoadPublished
  <2>4. CASE ~Renderable(PublishedRows)
    BY <1>5, <2>4, ReturnTypes, LocalStepTypes DEF LoadPublished
  <2>. QED  BY <2>3, <2>4
<1>6. CASE WriteBundle(h)
  <2>1. cursor[h] \in DOMAIN RuntimeFiles
    BY <1>6 DEF WriteBundle, TypeInv, LocalsOK
  <2>2. /\ (tenants \in Rows)'
        /\ (tenant_revisions \in [Tenants -> Seq(LogRow)])'
        /\ (failures \in 0..MaxFailures)'
    BY <1>6 DEF WriteBundle, TypeInv, TypeOK, database
  <2>3. snapshot[h] \in [Tenants -> Entry]
    BY DEF TypeInv, TypeOK, Rows, Entry
  <2>4. (files \in [FileNames -> [Tenants -> Entry]])'
    BY <1>6, <2>3 DEF WriteBundle, TypeInv, TypeOK
  <2>5. CASE Return(h)
    BY <2>2, <2>4, <2>5, ReturnTypes DEF TypeInv, TypeOK, LocalTypes
  <2>6. CASE /\ cursor[h] < LastFile
             /\ cursor' = [cursor EXCEPT ![h] = @ + 1]
             /\ UNCHANGED <<pc, op, record, snapshot>>
    <3>1. cursor[h] + 1 \in DOMAIN RuntimeFiles
      BY <2>1, <2>6, FilesAssumption DEF LastFile
    <3>2. LocalTypes'
      BY <2>6, <3>1 DEF TypeInv, TypeOK, LocalsOK, LocalTypes
    <3>. QED  BY <2>2, <2>4, <3>2 DEF TypeInv, TypeOK, LocalTypes
  <2>. QED  BY <1>6, <2>5, <2>6 DEF WriteBundle
<1>. QED  BY <1>1, <1>2, <1>3, <1>4, <1>5, <1>6 DEF Continue

LEMMA InitTypes == Init => TypeInv
<1>. SUFFICES ASSUME Init PROVE TypeInv
  OBVIOUS
<1>1. tenants \in Rows
  <2>1. CASE EmptyDatabase
    BY <2>1 DEF EmptyDatabase, NoRows, Rows
  <2>2. CASE BootstrappedDatabase
    BY <2>2, LegacyRowType DEF BootstrappedDatabase, Rows
  <2>. QED  BY <2>1, <2>2 DEF Init
<1>2. tenant_revisions \in [Tenants -> Seq(LogRow)]
  <2>1. CASE EmptyDatabase
    BY <2>1 DEF EmptyDatabase
  <2>2. CASE BootstrappedDatabase
    <3>1. ASSUME NEW t \in Tenants, LegacyRow(t) # NULL
          PROVE  [action |-> "legacy_bootstrap", payload |-> LegacyRow(t)]
                     \in LogRow
      BY <3>1, LegacyRowType DEF LogRow, Actions
    <3>. QED  BY <2>2, <3>1 DEF BootstrappedDatabase
  <2>. QED  BY <2>1, <2>2 DEF Init
<1>3. files \in [FileNames -> [Tenants -> Entry]]
  BY DEF Init, Entry
<1>4. NoRows \in Rows
  BY DEF NoRows, Rows
<1>. QED
  BY <1>1, <1>2, <1>3, <1>4, BoundsAssumption
     DEF Init, TypeInv, TypeOK, LocalsOK, Steps, Operations

LEMMA NextTypes == TypeInv /\ [Next]_vars => TypeInv'
<1>. SUFFICES ASSUME TypeInv, [Next]_vars PROVE TypeInv'
  OBVIOUS
<1>1. ASSUME NEW h \in Handlers, Request(h) PROVE TypeInv'
  BY <1>1, RequestTypes
<1>2. ASSUME NEW h \in Handlers, Continue(h) PROVE TypeInv'
  BY <1>2, ContinueTypes
<1>3. ASSUME NEW h \in Handlers, HandlerFails(h) PROVE TypeInv'
  <2>1. LocalTypes'
    BY <1>3, ReturnTypes DEF HandlerFails
  <2>2. (failures \in 0..MaxFailures)'
    BY <1>3, BoundsAssumption DEF HandlerFails, TypeInv, TypeOK
  <2>. QED
    BY <1>3, <2>1, <2>2 DEF HandlerFails, TypeInv, TypeOK, LocalTypes, database
<1>4. CASE UNCHANGED vars
  BY <1>4 DEF TypeInv, TypeOK, LocalsOK, vars
<1>. QED  BY <1>1, <1>2, <1>3, <1>4 DEF Next

\* The database, the runtime files and the handlers' locals keep their types.
THEOREM TypeCorrect == Spec => []TypeOK
<1>1. TypeInv => TypeOK
  BY DEF TypeInv
<1>. QED  BY <1>1, InitTypes, NextTypes, PTL DEF Spec

-----------------------------------------------------------------------------
(* From a row of the table to an entry of a file: a row is in the history  *)
(* from its save on, a snapshot holds rows that were published when it was *)
(* read, a file holds snapshots, and the history only grows.               *)

\* A save extends the history by the row it writes and forgets nothing.
LEMMA SaveLogs ==
    ASSUME TypeInv, NEW h \in Handlers, SaveTenant(h),
           NEW t0 \in Tenants, NEW r0 \in Record,
           record[h] = r0, r0.tenant_id = t0
    PROVE  /\ Logged(t0, r0)'
           /\ \A t \in Tenants, r \in Record : Logged(t, r) => Logged(t, r)'
<1> DEFINE row == [action |-> ActionOf(op[h], r0), payload |-> r0]
           log == tenant_revisions[t0]
<1>1. row \in LogRow /\ log \in Seq(LogRow) /\ row.payload = r0
  BY SavedRow DEF TypeInv, TypeOK
<1>2. tenant_revisions' = [tenant_revisions EXCEPT ![t0] = Append(log, row)]
  BY DEF SaveTenant, TypeInv, TypeOK
<1>3. tenant_revisions'[t0] = Append(log, row)
  BY <1>1, <1>2 DEF TypeInv, TypeOK
<1>4. ASSUME NEW t \in Tenants, t # t0
      PROVE  tenant_revisions'[t] = tenant_revisions[t]
  BY <1>1, <1>2, <1>4 DEF TypeInv, TypeOK
<1>. HIDE DEF row, log
<1>5. Logged(t0, r0)'
  <2>1. /\ Len(log) + 1 \in DOMAIN Append(log, row)
        /\ Append(log, row)[Len(log) + 1] = row
    BY <1>1
  <2>. QED  BY <1>1, <1>3, <2>1 DEF Logged
<1>6. ASSUME NEW t \in Tenants, NEW r \in Record,
             NEW i \in DOMAIN tenant_revisions[t],
             tenant_revisions[t][i].payload = r
      PROVE  Logged(t, r)'
  <2>1. CASE t = t0
    <3>1. i \in DOMAIN log /\ log[i].payload = r
      BY <1>6, <2>1 DEF log
    <3>2. i \in DOMAIN Append(log, row) /\ Append(log, row)[i] = log[i]
      BY <1>1, <3>1
    <3>. QED  BY <1>3, <2>1, <3>1, <3>2 DEF Logged
  <2>2. CASE t # t0
    BY <1>4, <1>6, <2>2 DEF Logged
  <2>. QED  BY <2>1, <2>2
<1>. QED  BY <1>5, <1>6 DEF Logged

\* No other step touches the database.
LEMMA OnlySavesChangeDatabase ==
    ASSUME NEW h \in Handlers,
           Request(h) \/ Continue(h) \/ HandlerFails(h),
           ~SaveTenant(h)
    PROVE  UNCHANGED database
BY DEF Request, Continue, HandlerFails, Begin, database, CreateTenant,
       UpdateTenant, AssessTenant, ValidateTenant, PublishTenant,
       DisableTenant, ImportLegacy, CheckPayload, CheckValidation,
       ImportNext, LoadPublished, WriteBundle

\* The history only grows.
LEMMA LogGrows ==
    ASSUME TypeInv, [Next]_vars, NEW t \in Tenants, NEW r \in Record,
           Logged(t, r)
    PROVE  Logged(t, r)'
<1>1. ASSUME NEW h \in Handlers, SaveTenant(h) PROVE Logged(t, r)'
  BY <1>1, SavedRow, SaveLogs
<1>2. CASE UNCHANGED database
  BY <1>2 DEF Logged, database
<1>. QED
  BY <1>1, <1>2, OnlySavesChangeDatabase DEF Next, vars, database

LEMMA RowsStayLogged ==
    ASSUME TypeInv, RowsLogged, [Next]_vars PROVE RowsLogged'
<1>1. ASSUME NEW h \in Handlers, SaveTenant(h) PROVE RowsLogged'
  <2> DEFINE r0 == record[h]
             t0 == r0.tenant_id
  <2>1. r0 \in Record /\ t0 \in Tenants
    BY <1>1, SavedRow
  <2>2. tenants' = [tenants EXCEPT ![t0] = r0]
    BY <1>1 DEF SaveTenant
  <2>3. \E r \in Record, t \in Tenants :
            r = r0 /\ t = t0 /\ Logged(t, r)'
    BY <1>1, <2>1, SaveLogs
  <2>4. PICK r \in Record, t \in Tenants : r = r0 /\ t = t0 /\ Logged(t, r)'
    BY <2>3
  <2>5. ASSUME NEW u \in Tenants, tenants'[u] # NULL
        PROVE  Logged(u, tenants[u])'
    <3>1. CASE u = t0
      BY <2>2, <2>4, <3>1 DEF TypeInv, TypeOK, Rows, Logged
    <3>2. CASE u # t0
      <4>1. tenants'[u] = tenants[u]
        BY <2>2, <3>2 DEF TypeInv, TypeOK, Rows
      <4>2. PICK v \in Record : v = tenants[u]
        BY <2>5, <4>1 DEF TypeInv, TypeOK, Rows
      <4>3. Logged(u, v)
        BY <2>5, <4>1, <4>2 DEF RowsLogged
      <4>4. Logged(u, v)'
        BY <4>3, LogGrows
      <4>. QED  BY <4>1, <4>2, <4>4 DEF Logged
    <3>. QED  BY <3>1, <3>2
  <2>. QED  BY <2>5 DEF RowsLogged
<1>2. CASE UNCHANGED database
  BY <1>2 DEF RowsLogged, Logged, database
<1>. QED
  BY <1>1, <1>2, OnlySavesChangeDatabase DEF Next, vars, database

\* A handler's snapshot is kept, dropped, or read from the table.
LEMMA SnapshotSteps ==
    ASSUME TypeInv, [Next]_vars, NEW h \in Handlers
    PROVE  snapshot'[h] \in {snapshot[h], NoRows, PublishedRows}
<1>1. ASSUME NEW g \in Handlers, Request(g)
      PROVE  snapshot' = snapshot
  BY <1>1 DEF Request, Begin, CreateTenant, UpdateTenant, AssessTenant,
              ValidateTenant, PublishTenant, DisableTenant, ImportLegacy
<1>2. ASSUME NEW g \in Handlers, Continue(g) \/ HandlerFails(g)
      PROVE  \/ snapshot' = snapshot
             \/ snapshot' = [snapshot EXCEPT ![g] = NoRows]
             \/ snapshot' = [snapshot EXCEPT ![g] = PublishedRows]
  BY <1>2 DEF Continue, HandlerFails, CheckPayload, CheckValidation,
              SaveTenant, AfterSave, ImportNext, LoadPublished, WriteBundle,
              Return
<1>3. CASE UNCHANGED vars
  BY <1>3 DEF vars
<1>. QED  BY <1>1, <1>2, <1>3 DEF Next, TypeInv, TypeOK

LEMMA SnapshotsStayPublished ==
    ASSUME TypeInv, RowsLogged, SnapshotsPublished, [Next]_vars
    PROVE  SnapshotsPublished'
<1>. SUFFICES ASSUME NEW h \in Handlers, NEW t \in Tenants,
                     snapshot'[h][t] # NULL
              PROVE  /\ snapshot'[h][t].status = "published"
                     /\ Logged(t, snapshot[h][t])'
  BY DEF SnapshotsPublished
<1>1. \/ snapshot'[h][t] = snapshot[h][t]
      \/ snapshot'[h][t] = PublishedRows[t]
  BY SnapshotSteps DEF NoRows
<1>2. /\ snapshot'[h][t] \in Record
      /\ snapshot'[h][t].status = "published"
      /\ Logged(t, snapshot'[h][t])
  <2>1. CASE snapshot'[h][t] = snapshot[h][t]
    BY <2>1 DEF SnapshotsPublished, TypeInv, TypeOK, Rows
  <2>2. CASE snapshot'[h][t] = PublishedRows[t]
    BY <2>2 DEF PublishedRows, RowsLogged, TypeInv, TypeOK, Rows
  <2>. QED  BY <1>1, <2>1, <2>2
<1>3. PICK r \in Record : r = snapshot'[h][t]
  BY <1>2
<1>4. Logged(t, r)'
  BY <1>2, <1>3, LogGrows
<1>. QED  BY <1>2, <1>3, <1>4 DEF Logged

\* A step that writes a file writes a snapshot into it.
LEMMA FileSteps ==
    ASSUME TypeInv, [Next]_vars, NEW f \in FileNames
    PROVE  files'[f] = files[f] \/ \E h \in Handlers : files'[f] = snapshot[h]
<1>1. ASSUME NEW h \in Handlers, WriteBundle(h)
      PROVE  files'[f] = files[f] \/ files'[f] = snapshot[h]
  BY <1>1 DEF WriteBundle, TypeInv, TypeOK
<1>2. ASSUME NEW h \in Handlers,
             Request(h) \/ Continue(h) \/ HandlerFails(h), ~WriteBundle(h)
      PROVE  files' = files
  BY <1>2 DEF Request, Begin, CreateTenant, UpdateTenant, AssessTenant,
              ValidateTenant, PublishTenant, DisableTenant, ImportLegacy,
              Continue, HandlerFails, CheckPayload, CheckValidation,
              SaveTenant, ImportNext, LoadPublished
<1>3. CASE UNCHANGED vars
  BY <1>3 DEF vars
<1>. QED  BY <1>1, <1>2, <1>3 DEF Next

LEMMA BundlesStayPublished ==
    ASSUME TypeInv, SnapshotsPublished, BundledWasPublished, [Next]_vars
    PROVE  BundledWasPublished'
<1>. SUFFICES ASSUME NEW f \in FileNames, NEW t \in Tenants,
                     files'[f][t] \notin {NULL, Shipped}
              PROVE  /\ files'[f][t].status = "published"
                     /\ Logged(t, files[f][t])'
  BY DEF BundledWasPublished
<1>1. /\ files'[f][t] \in Record
      /\ files'[f][t].status = "published"
      /\ Logged(t, files'[f][t])
  <2>1. CASE files'[f] = files[f]
    BY <2>1 DEF BundledWasPublished, TypeInv, TypeOK, Entry
  <2>2. ASSUME NEW h \in Handlers, files'[f] = snapshot[h]
        PROVE  /\ files'[f][t] \in Record
               /\ files'[f][t].status = "published"
               /\ Logged(t, files'[f][t])
    BY <2>2 DEF SnapshotsPublished, TypeInv, TypeOK, Rows
  <2>. QED  BY <2>1, <2>2, FileSteps
<1>2. PICK r \in Record : r = files'[f][t]
  BY <1>1
<1>3. Logged(t, r)'
  BY <1>1, <1>2, LogGrows
<1>. QED  BY <1>1, <1>2, <1>3 DEF Logged

LEMMA InitInvariant == Init => IInv
<1>. SUFFICES ASSUME Init PROVE IInv
  OBVIOUS
<1>1. TypeInv
  BY InitTypes
<1>2. RowsLogged
  <2>1. CASE EmptyDatabase
    BY <2>1 DEF EmptyDatabase, NoRows, RowsLogged
  <2>2. CASE BootstrappedDatabase
    <3>1. ASSUME NEW t \in Tenants, tenants[t] # NULL
          PROVE  tenant_revisions[t] = <<[action  |-> "legacy_bootstrap",
                                          payload |-> tenants[t]]>>
      BY <2>2, <3>1 DEF BootstrappedDatabase
    <3>2. ASSUME NEW t \in Tenants, tenants[t] # NULL
          PROVE  Logged(t, tenants[t])
      <4> DEFINE row == [action  |-> "legacy_bootstrap",
                         payload |-> tenants[t]]
      <4>1. tenant_revisions[t] = <<row>>
        BY <3>1, <3>2
      <4>2. row.payload = tenants[t]
        OBVIOUS
      <4>. HIDE DEF row
      <4>3. 1 \in DOMAIN <<row>> /\ <<row>>[1] = row
        OBVIOUS
      <4>. QED  BY <4>1, <4>2, <4>3 DEF Logged
    <3>. QED  BY <3>2 DEF RowsLogged
  <2>. QED  BY <2>1, <2>2 DEF Init
<1>3. SnapshotsPublished
  BY DEF Init, SnapshotsPublished, NoRows
<1>4. BundledWasPublished
  BY DEF Init, BundledWasPublished
<1>. QED  BY <1>1, <1>2, <1>3, <1>4 DEF IInv

LEMMA InvariantStep == IInv /\ [Next]_vars => IInv'
BY NextTypes, RowsStayLogged, SnapshotsStayPublished, BundlesStayPublished
   DEF IInv

\* Whatever a runtime file holds was shipped with the checkout or saved as
\* published: for every number of handlers, overlapping publications included.
THEOREM OnlyPublishedIsBundled == Spec => []BundledWasPublished
<1>1. IInv => BundledWasPublished
  BY DEF IInv
<1>. QED  BY <1>1, InitInvariant, InvariantStep, PTL DEF Spec
-----------------------------------------------------------------------------
(* The numbers and the publications of the history.  They are settled when *)
(* a handler builds its record: from the row it loaded, which is in the    *)
(* history under its own tenant, and stays there until the save.           *)

\* The row of a tenant carries its id.
RowsInPlace ==
    \A t \in Tenants : tenants[t] # NULL => tenants[t].tenant_id = t

\* A record numbered 1, or one above an entry of its tenant's history.
Follows(r) ==
    \/ r.revision = 1
    \/ \E i \in DOMAIN tenant_revisions[r.tenant_id] :
           tenant_revisions[r.tenant_id][i].payload.revision = r.revision - 1

\* A record that is an entry of its tenant's history, published.
CopiesValidated(r) ==
    \E i \in DOMAIN tenant_revisions[r.tenant_id] :
        LET earlier == tenant_revisions[r.tenant_id][i].payload
        IN  earlier.status = "validated" /\ r = WithStatus(earlier, "published")

\* What is known of the record r of a handler of endpoint o at step p.
Prepared(p, o, r) ==
    /\ p = "import" => o = "import"
    /\ p = "check" => o \in {"create", "update", "validate"}
    /\ (p = "check" /\ o = "validate") => Logged(r.tenant_id, r)
    /\ (p = "check" /\ o # "validate") => Follows(r)
    /\ p = "save" => Follows(r)
    /\ (p = "save" /\ o = "publish") => CopiesValidated(r)

RecordsPrepared == \A h \in Handlers : Prepared(pc[h], op[h], record[h])

HistoryInv ==
    /\ RowsInPlace
    /\ RecordsPrepared
    /\ RevisionsHaveNoGaps
    /\ PublishedCopiesValidated

\* The numbers and tenants of the records the handlers build.
LEMMA WithStatusIsNext ==
    ASSUME NEW r \in Record, NEW s \in Statuses
    PROVE  /\ WithStatus(r, s).tenant_id = r.tenant_id
           /\ WithStatus(r, s).revision = r.revision + 1
BY DEF WithStatus, NextRevision, Record

LEMMA UpdatedRecordIsNext ==
    ASSUME NEW r \in Record, NEW u \in Upsert
    PROVE  /\ UpdatedRecord(r, u).tenant_id = r.tenant_id
           /\ UpdatedRecord(r, u).revision = r.revision + 1
BY DEF UpdatedRecord, NextRevision, Record

LEMMA AssessedRecordIsNext ==
    ASSUME NEW r \in Record, NEW report \in Report
    PROVE  /\ AssessedRecord(r, report).tenant_id = r.tenant_id
           /\ AssessedRecord(r, report).revision = r.revision + 1
BY DEF AssessedRecord, NextRevision, Record

\* The record after one of the history follows it.
LEMMA NextFollows ==
    ASSUME TypeInv, NEW e \in Record, Logged(e.tenant_id, e),
           NEW r \in Record,
           r.tenant_id = e.tenant_id, r.revision = e.revision + 1
    PROVE  Follows(r)
<1>1. e.tenant_id \in Tenants /\ e.revision \in Nat
  BY DEF Record
<1>2. PICK i \in DOMAIN tenant_revisions[e.tenant_id] :
          tenant_revisions[e.tenant_id][i].payload = e
  BY DEF Logged
<1>3. tenant_revisions[r.tenant_id][i].payload.revision = r.revision - 1
  BY <1>1, <1>2
<1>. QED  BY <1>2, <1>3 DEF Follows

\* What save_tenant does to the history.
LEMMA SaveAppends ==
    ASSUME TypeInv, NEW h \in Handlers, SaveTenant(h),
           NEW r0 \in Record, record[h] = r0,
           NEW row, row = [action |-> ActionOf(op[h], r0), payload |-> r0]
    PROVE  /\ row \in LogRow
           /\ \A t \in Tenants \ {r0.tenant_id} :
                  tenant_revisions'[t] = tenant_revisions[t]
           /\ tenant_revisions'[r0.tenant_id] =
                  Append(tenant_revisions[r0.tenant_id], row)
BY SavedRow DEF SaveTenant, TypeInv, TypeOK

\* An entry of the history stays at its place.
LEMMA EntriesStay ==
    ASSUME TypeInv, [Next]_vars, NEW t \in Tenants,
           NEW i \in DOMAIN tenant_revisions[t]
    PROVE  /\ i \in DOMAIN tenant_revisions'[t]
           /\ tenant_revisions'[t][i] = tenant_revisions[t][i]
<1>1. ASSUME NEW h \in Handlers, SaveTenant(h)
      PROVE  /\ i \in DOMAIN tenant_revisions'[t]
             /\ tenant_revisions'[t][i] = tenant_revisions[t][i]
  <2>1. PICK r0 \in Record : record[h] = r0
    BY <1>1, SavedRow
  <2> DEFINE row == [action |-> ActionOf(op[h], r0), payload |-> r0]
             log == tenant_revisions[t]
  <2>2. /\ row \in LogRow
        /\ \A u \in Tenants \ {r0.tenant_id} :
               tenant_revisions'[u] = tenant_revisions[u]
        /\ tenant_revisions'[r0.tenant_id] =
               Append(tenant_revisions[r0.tenant_id], row)
    BY <1>1, <2>1, SaveAppends
  <2>3. log \in Seq(LogRow)
    BY DEF TypeInv, TypeOK
  <2>. HIDE DEF row
  <2>4. i \in DOMAIN Append(log, row) /\ Append(log, row)[i] = log[i]
    BY <2>2, <2>3
  <2>5. CASE t = r0.tenant_id
    BY <2>2, <2>4, <2>5
  <2>6. CASE t # r0.tenant_id
    BY <2>2, <2>6
  <2>. QED  BY <2>5, <2>6
<1>2. CASE UNCHANGED database
  BY <1>2 DEF database
<1>. QED
  BY <1>1, <1>2, OnlySavesChangeDatabase DEF Next, vars, database

\* So what is known of a record stays true while others save.
LEMMA StaysPrepared ==
    ASSUME TypeInv, [Next]_vars, NEW p, NEW o, NEW r,
           p \in {"check", "save"} => r \in Record,
           Prepared(p, o, r)
    PROVE  Prepared(p, o, r)'
<1>1. CASE p \notin {"check", "save"}
  BY <1>1 DEF Prepared
<1>2. CASE p \in {"check", "save"}
  <2>1. r \in Record /\ r.tenant_id \in Tenants
    BY <1>2 DEF Record
  <2>2. Logged(r.tenant_id, r) => Logged(r.tenant_id, r)'
    BY <2>1, LogGrows
  <2>3. Follows(r) => Follows(r)'
    BY <2>1, EntriesStay DEF Follows
  <2>4. CopiesValidated(r) => CopiesValidated(r)'
    BY <2>1, EntriesStay DEF CopiesValidated
  <2>. QED  BY <1>2, <2>2, <2>3, <2>4 DEF Prepared
<1>. QED  BY <1>1, <1>2

\* A row of the table is in the history under its own tenant.
LEMMA LoadedRow ==
    ASSUME TypeInv, RowsLogged, RowsInPlace, NEW t \in Tenants, Loads(t)
    PROVE  /\ tenants[t] \in Record
           /\ tenants[t].tenant_id = t
           /\ Logged(t, tenants[t])
BY DEF Loads, RowsLogged, RowsInPlace, TypeInv, TypeOK, Rows

\* The record with which a request begins is prepared,
LEMMA RequestPrepares ==
    ASSUME TypeInv, RowsLogged, RowsInPlace, NEW h \in Handlers, Request(h)
    PROVE  Prepared(pc'[h], op'[h], record'[h])
<1>1. ASSUME NEW operation, NEW step, NEW r, Begin(h, operation, step, r)
      PROVE  pc'[h] = step /\ op'[h] = operation /\ record'[h] = r
  BY <1>1 DEF Begin, TypeInv, TypeOK
<1>2. ASSUME NEW t \in Tenants, NEW u \in Upserts, CreateTenant(h, t, u)
      PROVE  Prepared("check", "create", NewRecord(t, u))
  BY DEF Prepared, Follows, NewRecord
<1>3. ASSUME NEW t \in Tenants, NEW u \in Upserts, UpdateTenant(h, t, u)
      PROVE  Prepared("check", "update", UpdatedRecord(tenants[t], u))
  <2>1. Loads(t) /\ u \in Upsert
    BY <1>3, UpsertsAssumption DEF UpdateTenant
  <2>2. Follows(UpdatedRecord(tenants[t], u))
    BY <2>1, LoadedRow, NextFollows, UpdatedRecordIsNext, UpdatedRecordType
  <2>. QED  BY <2>2 DEF Prepared
<1>4. ASSUME NEW t \in Tenants, NEW report \in Reports,
             AssessTenant(h, t, report)
      PROVE  Prepared("save", "assess", AssessedRecord(tenants[t], report))
  <2>1. Loads(t) /\ report \in Report
    BY <1>4, ReportsAssumption DEF AssessTenant
  <2>2. Follows(AssessedRecord(tenants[t], report))
    BY <2>1, LoadedRow, NextFollows, AssessedRecordIsNext, AssessedRecordType
  <2>. QED  BY <2>2 DEF Prepared
<1>5. ASSUME NEW t \in Tenants, ValidateTenant(h, t)
      PROVE  Prepared("check", "validate", tenants[t])
  BY <1>5, LoadedRow DEF ValidateTenant, Prepared
<1>6. ASSUME NEW t \in Tenants, PublishTenant(h, t)
      PROVE  Prepared("save", "publish", WithStatus(tenants[t], "published"))
  <2> DEFINE r == WithStatus(tenants[t], "published")
  <2>1. Loads(t) /\ tenants[t].status = "validated"
    BY <1>6 DEF PublishTenant, PublishGuard
  <2>2. Follows(r)
    BY <2>1, LoadedRow, NextFollows, WithStatusIsNext, WithStatusType
       DEF Statuses
  <2>3. r.tenant_id = t
    BY <2>1, LoadedRow, WithStatusIsNext DEF Statuses
  <2>4. PICK i \in DOMAIN tenant_revisions[t] :
            tenant_revisions[t][i].payload = tenants[t]
    BY <2>1, LoadedRow DEF Logged
  <2>5. CopiesValidated(r)
    BY <2>1, <2>3, <2>4 DEF CopiesValidated
  <2>. QED  BY <2>2, <2>5 DEF Prepared
<1>7. ASSUME NEW t \in Tenants, DisableTenant(h, t)
      PROVE  Prepared("save", "disable", WithStatus(tenants[t], "disabled"))
  <2>1. Loads(t)
    BY <1>7 DEF DisableTenant
  <2>2. Follows(WithStatus(tenants[t], "disabled"))
    BY <2>1, LoadedRow, NextFollows, WithStatusIsNext, WithStatusType
       DEF Statuses
  <2>. QED  BY <2>2 DEF Prepared
<1>8. Prepared("import", "import", NULL)
  BY DEF Prepared
<1>c. CASE \E t \in Tenants, u \in Upserts : CreateTenant(h, t, u)
  BY <1>c, <1>1, <1>2 DEF CreateTenant
<1>u. CASE \E t \in Tenants, u \in Upserts : UpdateTenant(h, t, u)
  BY <1>u, <1>1, <1>3 DEF UpdateTenant
<1>a. CASE \E t \in Tenants, report \in Reports : AssessTenant(h, t, report)
  BY <1>a, <1>1, <1>4 DEF AssessTenant
<1>v. CASE \E t \in Tenants : ValidateTenant(h, t)
  BY <1>v, <1>1, <1>5 DEF ValidateTenant
<1>p. CASE \E t \in Tenants : PublishTenant(h, t)
  BY <1>p, <1>1, <1>6 DEF PublishTenant
<1>d. CASE \E t \in Tenants : DisableTenant(h, t)
  BY <1>d, <1>1, <1>7 DEF DisableTenant
<1>i. CASE ImportLegacy(h)
  BY <1>i, <1>1, <1>8 DEF ImportLegacy
<1>. QED
  BY <1>c, <1>u, <1>a, <1>v, <1>p, <1>d, <1>i DEF Request

\* and so is the one with which its handler goes on,
LEMMA ContinuePrepares ==
    ASSUME TypeInv, RecordsPrepared, NEW h \in Handlers,
           Continue(h) \/ HandlerFails(h)
    PROVE  Prepared(pc'[h], op'[h], record'[h])
<1>1. Prepared(pc[h], op[h], record[h])
  BY DEF RecordsPrepared
<1>2. ASSUME pc'[h] \notin {"check", "save", "import"}
      PROVE  Prepared(pc'[h], op'[h], record'[h])
  BY <1>2 DEF Prepared
<1>3. CASE Return(h)
  BY <1>2, <1>3 DEF Return, TypeInv, TypeOK
<1>4. CASE CheckPayload(h)
  <2>1. CASE PayloadValid(record[h])
    <3>1. /\ pc[h] = "check"
          /\ op[h] \in {"create", "update"}
          /\ pc'[h] = "save"
          /\ op'[h] = op[h]
          /\ record'[h] = record[h]
      BY <1>4, <2>1 DEF CheckPayload, TypeInv, TypeOK
    <3>. QED  BY <1>1, <3>1 DEF Prepared
  <2>. QED  BY <1>3, <1>4, <2>1 DEF CheckPayload
<1>5. CASE CheckValidation(h)
  <2>1. record[h] \in Record /\ pc[h] = "check" /\ op[h] = "validate"
    BY <1>5 DEF CheckValidation, TypeInv, LocalsOK
  <2>2. PICK s \in {"validated", "draft"} :
            /\ pc'[h] = "save"
            /\ op'[h] = "validate"
            /\ record'[h] = WithStatus(record[h], s)
    BY <1>5 DEF CheckValidation, TypeInv, TypeOK
  <2>3. Logged(record[h].tenant_id, record[h])
    BY <1>1, <2>1 DEF Prepared
  <2>4. Follows(WithStatus(record[h], s))
    BY <2>1, <2>3, NextFollows, WithStatusIsNext, WithStatusType DEF Statuses
  <2>. QED  BY <2>2, <2>4 DEF Prepared
<1>6. CASE SaveTenant(h)
  <2>1. CASE op[h] = "import" /\ pc'[h] = "import" /\ op'[h] = "import"
    BY <2>1 DEF Prepared
  <2>2. CASE pc'[h] = "snapshot"
    BY <1>2, <2>2
  <2>3. \/ Return(h)
        \/ pc'[h] = "snapshot"
        \/ op[h] = "import" /\ pc'[h] = "import" /\ op'[h] = "import"
    BY <1>6 DEF SaveTenant, AfterSave, TypeInv, TypeOK
  <2>. QED  BY <1>3, <2>1, <2>2, <2>3
<1>7. CASE ImportNext(h)
  <2>1. pc[h] = "import" /\ op[h] = "import" /\ op'[h] = "import"
    BY <1>1, <1>7 DEF ImportNext, Prepared, TypeInv, TypeOK
  <2>2. CASE pc'[h] = "snapshot"
    BY <1>2, <2>2
  <2>3. CASE pc'[h] = "import"
    BY <2>1, <2>3 DEF Prepared
  <2>4. CASE /\ pc'[h] = "save"
             /\ record'[h] = LegacyRecord(LegacyConfigs[cursor[h]])
    <3>1. Follows(record'[h])
      BY <2>4 DEF Follows, LegacyRecord
    <3>. QED  BY <2>1, <2>4, <3>1 DEF Prepared
  <2>5. \/ pc'[h] = "snapshot"
        \/ pc'[h] = "import"
        \/ /\ pc'[h] = "save"
           /\ record'[h] = LegacyRecord(LegacyConfigs[cursor[h]])
    BY <1>7, <2>1 DEF ImportNext, TypeInv, TypeOK
  <2>. QED  BY <2>2, <2>3, <2>4, <2>5
<1>8. CASE LoadPublished(h)
  <2>1. Return(h) \/ pc'[h] = "write"
    BY <1>8 DEF LoadPublished, TypeInv, TypeOK
  <2>. QED  BY <1>2, <1>3, <2>1
<1>9. CASE WriteBundle(h)
  <2>1. Return(h) \/ pc'[h] = "write"
    BY <1>9 DEF WriteBundle, TypeInv, TypeOK
  <2>. QED  BY <1>2, <1>3, <2>1
<1>. QED
  BY <1>3, <1>4, <1>5, <1>6, <1>7, <1>8, <1>9 DEF Continue, HandlerFails

\* while the locals of the other handlers do not change.
LEMMA OthersWait ==
    ASSUME TypeInv, NEW h \in Handlers,
           Request(h) \/ Continue(h) \/ HandlerFails(h),
           NEW g \in Handlers, g # h
    PROVE  /\ pc'[g] = pc[g]
           /\ op'[g] = op[g]
           /\ record'[g] = record[g]
<1>1. CASE Request(h)
  BY <1>1 DEF Request, Begin, CreateTenant, UpdateTenant, AssessTenant,
              ValidateTenant, PublishTenant, DisableTenant, ImportLegacy,
              TypeInv, TypeOK
<1>2. CASE Continue(h) \/ HandlerFails(h)
  BY <1>2 DEF Continue, HandlerFails, Return, CheckPayload, CheckValidation,
              SaveTenant, AfterSave, ImportNext, LoadPublished, WriteBundle,
              TypeInv, TypeOK
<1>. QED  BY <1>1, <1>2

LEMMA RecordsStayPrepared ==
    ASSUME TypeInv, RowsLogged, RowsInPlace, RecordsPrepared, [Next]_vars
    PROVE  RecordsPrepared'
<1>. SUFFICES ASSUME NEW g \in Handlers
              PROVE  Prepared(pc[g], op[g], record[g])'
  BY DEF RecordsPrepared
<1>1. Prepared(pc'[g], op'[g], record'[g])
  <2>1. ASSUME NEW h \in Handlers,
               Request(h) \/ Continue(h) \/ HandlerFails(h)
        PROVE  Prepared(pc'[g], op'[g], record'[g])
    <3>1. CASE g = h
      BY <2>1, <3>1, RequestPrepares, ContinuePrepares
    <3>2. CASE g # h
      BY <2>1, <3>2, OthersWait DEF RecordsPrepared
    <3>. QED  BY <3>1, <3>2
  <2>2. CASE UNCHANGED vars
    BY <2>2 DEF vars, RecordsPrepared
  <2>. QED  BY <2>1, <2>2 DEF Next
<1>2. TypeInv'
  BY NextTypes
<1>3. PICK p, o, r : p = pc'[g] /\ o = op'[g] /\ r = record'[g]
  OBVIOUS
<1>4. p \in {"check", "save"} => r \in Record
  BY <1>2, <1>3 DEF TypeInv, LocalsOK
<1>5. Prepared(p, o, r)
  BY <1>1, <1>3
<1>6. Prepared(p, o, r)'
  BY <1>4, <1>5, StaysPrepared
<1>. QED  BY <1>3, <1>6 DEF Prepared, Logged, Follows, CopiesValidated

LEMMA RowsStayInPlace ==
    ASSUME TypeInv, RowsInPlace, [Next]_vars PROVE RowsInPlace'
<1>1. ASSUME NEW h \in Handlers, SaveTenant(h) PROVE RowsInPlace'
  <2>1. PICK r0 \in Record : r0 = record[h]
    BY <1>1, SavedRow
  <2>2. tenants' = [tenants EXCEPT ![r0.tenant_id] = r0]
    BY <1>1, <2>1 DEF SaveTenant
  <2>. QED  BY <2>2 DEF RowsInPlace, TypeInv, TypeOK, Rows
<1>2. CASE UNCHANGED database
  BY <1>2 DEF RowsInPlace, database
<1>. QED
  BY <1>1, <1>2, OnlySavesChangeDatabase DEF Next, vars, database

\* An entry of the history, once there, has what it needs below it; the entry a
\* save adds has it in the history as it was.
LEMMA HistoryStep ==
    ASSUME TypeInv, RecordsPrepared, [Next]_vars,
           RevisionsHaveNoGaps, PublishedCopiesValidated
    PROVE  RevisionsHaveNoGaps' /\ PublishedCopiesValidated'
<1>1. ASSUME NEW h \in Handlers, SaveTenant(h)
      PROVE  RevisionsHaveNoGaps' /\ PublishedCopiesValidated'
  <2>1. PICK r0 \in Record : record[h] = r0
    BY <1>1, SavedRow
  <2> DEFINE row == [action |-> ActionOf(op[h], r0), payload |-> r0]
             t0 == r0.tenant_id
             log == tenant_revisions[t0]
  <2>2. /\ row \in LogRow
        /\ \A u \in Tenants \ {t0} :
               tenant_revisions'[u] = tenant_revisions[u]
        /\ tenant_revisions'[t0] = Append(log, row)
    BY <1>1, <2>1, SaveAppends
  <2>3. t0 \in Tenants /\ log \in Seq(LogRow)
    BY DEF TypeInv, TypeOK, Record
  <2>4. row.payload = r0 /\ (row.action = "published" => op[h] = "publish")
    BY DEF ActionOf
  <2>5. pc[h] = "save" /\ Prepared(pc[h], op[h], r0)
    BY <1>1, <2>1 DEF SaveTenant, RecordsPrepared
  <2>6. Follows(r0) /\ (row.action = "published" => CopiesValidated(r0))
    BY <2>4, <2>5 DEF Prepared
  <2>7. \A i \in DOMAIN Append(log, row) :
            \/ i = Len(log) + 1 /\ Append(log, row)[i] = row
            \/ i \in DOMAIN log /\ Append(log, row)[i] = log[i]
    <3>. HIDE DEF row, log
    <3>. QED  BY <2>2, <2>3
  <2>8. /\ DOMAIN log = 1..Len(log)
        /\ Len(log) \in Nat
        /\ \A i \in DOMAIN log : Append(log, row)[i] = log[i]
    <3>. HIDE DEF row, log
    <3>. QED  BY <2>2, <2>3
  <2>9. RevisionsHaveNoGaps'
    <3>. SUFFICES ASSUME NEW t \in Tenants, NEW i \in DOMAIN tenant_revisions'[t],
                         tenant_revisions'[t][i].payload.revision # 1
                  PROVE  \E j \in 1..(i - 1) :
                             tenant_revisions'[t][j].payload.revision =
                                 tenant_revisions'[t][i].payload.revision - 1
      BY DEF RevisionsHaveNoGaps
    <3>1. CASE t # t0
      BY <2>2, <3>1 DEF RevisionsHaveNoGaps
    <3>2. CASE t = t0 /\ i \in DOMAIN log
      <4>1. tenant_revisions'[t][i] = log[i]
        BY <2>2, <2>8, <3>2
      <4>2. PICK j \in 1..(i - 1) :
                log[j].payload.revision = log[i].payload.revision - 1
        BY <3>2, <4>1 DEF RevisionsHaveNoGaps
      <4>3. j \in DOMAIN log
        BY <2>8, <3>2, <4>2
      <4>4. tenant_revisions'[t][j] = log[j]
        BY <2>2, <2>8, <3>2, <4>3
      <4>. HIDE DEF log
      <4>. QED  BY <4>1, <4>2, <4>4
    <3>3. CASE t = t0 /\ i = Len(log) + 1 /\ Append(log, row)[i] = row
      <4>1. tenant_revisions'[t][i].payload = r0
        BY <2>2, <2>4, <3>3
      <4>2. PICK j \in DOMAIN log :
                log[j].payload.revision = r0.revision - 1
        BY <2>6, <4>1 DEF Follows
      <4>3. j \in 1..(i - 1)
        BY <2>8, <3>3
      <4>4. tenant_revisions'[t][j] = log[j]
        BY <2>2, <2>8, <3>3
      <4>. HIDE DEF log
      <4>. QED  BY <4>1, <4>2, <4>3, <4>4
    <3>. QED  BY <2>2, <2>7, <3>1, <3>2, <3>3
  <2>10. PublishedCopiesValidated'
    <3> DEFINE Good(e, r) == /\ e.status = "validated"
                             /\ r = WithStatus(e, "published")
    <3>. SUFFICES ASSUME NEW t \in Tenants, NEW i \in DOMAIN tenant_revisions'[t],
                         tenant_revisions'[t][i].action = "published"
                  PROVE  \E j \in 1..(i - 1) :
                             Good(tenant_revisions'[t][j].payload,
                                  tenant_revisions'[t][i].payload)
      BY DEF PublishedCopiesValidated
    <3>1. CASE t # t0
      BY <2>2, <3>1 DEF PublishedCopiesValidated
    <3>2. CASE t = t0 /\ i \in DOMAIN log
      <4>1. tenant_revisions'[t][i] = log[i]
        BY <2>2, <2>8, <3>2
      <4>2. PICK j \in 1..(i - 1) : Good(log[j].payload, log[i].payload)
        BY <3>2, <4>1 DEF PublishedCopiesValidated
      <4>3. j \in DOMAIN log
        BY <2>8, <3>2, <4>2
      <4>4. tenant_revisions'[t][j] = log[j]
        BY <2>2, <2>8, <3>2, <4>3
      <4>. HIDE DEF log, Good
      <4>. QED  BY <4>1, <4>2, <4>4
    <3>3. CASE t = t0 /\ i = Len(log) + 1 /\ Append(log, row)[i] = row
      <4>1. tenant_revisions'[t][i] = row
        BY <2>2, <3>3
      <4>2. PICK j \in DOMAIN log : Good(log[j].payload, r0)
        BY <2>6, <4>1 DEF CopiesValidated
      <4>3. j \in 1..(i - 1)
        BY <2>8, <3>3
      <4>4. tenant_revisions'[t][j] = log[j]
        BY <2>2, <2>8, <3>3
      <4>. HIDE DEF log, row, Good
      <4>. QED  BY <2>4, <4>1, <4>2, <4>3, <4>4
    <3>. QED  BY <2>2, <2>7, <3>1, <3>2, <3>3
  <2>. QED  BY <2>9, <2>10
<1>2. CASE UNCHANGED database
  BY <1>2 DEF RevisionsHaveNoGaps, PublishedCopiesValidated, database
<1>. QED
  BY <1>1, <1>2, OnlySavesChangeDatabase DEF Next, vars, database

LEMMA InitHistory == Init => HistoryInv
<1>. SUFFICES ASSUME Init PROVE HistoryInv
  OBVIOUS
<1>1. RecordsPrepared
  BY DEF Init, RecordsPrepared, Prepared
<1>2. CASE EmptyDatabase
  BY <1>1, <1>2 DEF EmptyDatabase, NoRows, HistoryInv, RowsInPlace,
                    RevisionsHaveNoGaps, PublishedCopiesValidated
<1>3. CASE BootstrappedDatabase
  <2>1. ASSUME NEW t \in Tenants, LegacyRow(t) # NULL
        PROVE  /\ LegacyRow(t).tenant_id = t
               /\ LegacyRow(t).revision = 1
    BY <2>1, FirstLegacyConfig DEF LegacyRecord
  <2>2. RowsInPlace
    BY <1>3, <2>1 DEF BootstrappedDatabase, RowsInPlace
  <2>3. ASSUME NEW t \in Tenants, NEW i \in DOMAIN tenant_revisions[t]
        PROVE  /\ tenant_revisions[t][i].payload.revision = 1
               /\ tenant_revisions[t][i].action # "published"
    <3>1. LegacyRow(t) # NULL
      BY <1>3, <2>3 DEF BootstrappedDatabase
    <3> DEFINE row == [action |-> "legacy_bootstrap", payload |-> LegacyRow(t)]
    <3>2. row.payload.revision = 1 /\ row.action # "published"
      BY <2>1, <3>1
    <3>3. tenant_revisions[t] = <<row>>
      BY <1>3, <3>1 DEF BootstrappedDatabase
    <3>. HIDE DEF row
    <3>4. tenant_revisions[t][i] = row
      BY <2>3, <3>3
    <3>. QED  BY <3>2, <3>4
  <2>4. RevisionsHaveNoGaps /\ PublishedCopiesValidated
    BY <2>3 DEF RevisionsHaveNoGaps, PublishedCopiesValidated
  <2>. QED  BY <1>1, <2>2, <2>4 DEF HistoryInv
<1>. QED  BY <1>2, <1>3 DEF Init

LEMMA HistoryInvariantStep ==
    IInv /\ HistoryInv /\ [Next]_vars => HistoryInv'
BY RowsStayInPlace, RecordsStayPrepared, HistoryStep DEF IInv, HistoryInv

\* However many handlers interleave and fail, the numbers of a tenant's history
\* have no gap.
THEOREM HistoryHasNoGaps == Spec => []RevisionsHaveNoGaps
<1>1. HistoryInv => RevisionsHaveNoGaps
  BY DEF HistoryInv
<1>. QED
  BY <1>1, InitInvariant, InvariantStep, InitHistory, HistoryInvariantStep,
     PTL DEF Spec

\* Nor is anything ever published that was not validated just so.
THEOREM OnlyValidatedIsPublished == Spec => []PublishedCopiesValidated
<1>1. HistoryInv => PublishedCopiesValidated
  BY DEF HistoryInv
<1>. QED
  BY <1>1, InitInvariant, InvariantStep, InitHistory, HistoryInvariantStep,
     PTL DEF Spec

-----------------------------------------------------------------------------
(* One request at a time: nothing happens between the load and the save of *)
(* a handler, nor between the read and the writes of a publication.        *)
OneHandler == \E h : Handlers = {h}

\* The legacy configurations that import-legacy can render.
LegacyRenderable == \A i \in DOMAIN LegacyConfigs : LegacyConfigs[i].origin_ok

LegacyTenants == {LegacyConfigs[i].tenant_id : i \in DOMAIN LegacyConfigs}

\* The endpoints that write the runtime files after their saves.
Publishing == Generating \cup {"import"}

\* A row is the newest entry of its history; without a row there is none.
RowsNewest ==
    \A t \in Tenants :
        /\ tenants[t] = NULL => tenant_revisions[t] = << >>
        /\ tenants[t] # NULL => \A i \in DOMAIN tenant_revisions[t] :
               tenant_revisions[t][i].payload.revision <= tenants[t].revision

\* What endpoint o makes of the row it loaded, NULL if there was none: the
\* record r it saves.
Makes(o, row, r) ==
    \/ o = "create" /\ row = NULL /\ r.status = "draft"
    \/ /\ o = "import"
       /\ row = NULL
       /\ r.status = "published"
       /\ r.tenant_id \in LegacyTenants
    \/ /\ o \in {"update", "assess", "validate", "publish", "disable"}
       /\ row # NULL
       /\ r.revision = row.revision + 1
       /\ o = "update" => r.status = IF row.status = "published" THEN "draft"
                                     ELSE row.status
       /\ o = "assess" => r.status = row.status
       /\ o = "validate" => r.status \in {"validated", "draft"}
       /\ o = "publish" => row.status = "validated" /\ r.status = "published"
       /\ o = "disable" => r.status = "disabled"

\* The record of a handler comes from the row that is still there.
RecordsCurrent ==
    \A h \in Handlers :
        LET row == tenants[record[h].tenant_id]
        IN  /\ pc[h] = "check" /\ op[h] = "validate" => row = record[h]
            /\ pc[h] = "check" /\ op[h] # "validate" =>
                   Makes(op[h], row, record[h])
            /\ pc[h] = "save" => Makes(op[h], row, record[h])

\* A handler that writes has read what is still published, and so have the
\* files it has written.
SnapshotsCurrent ==
    \A h \in Handlers : pc[h] = "write" =>
        /\ snapshot[h] = PublishedRows
        /\ \A i \in 1..(cursor[h] - 1) : files[RuntimeFiles[i]] = PublishedRows

OpsOK ==
    \A h \in Handlers :
        /\ pc[h] = "idle" => op[h] = "none"
        /\ pc[h] = "check" => op[h] \in {"create", "update", "validate"}
        /\ pc[h] = "import" => op[h] = "import"
        /\ pc[h] \in {"snapshot", "write"} => op[h] \in Publishing

SerialInv == RowsNewest /\ OpsOK /\ RecordsCurrent /\ SnapshotsCurrent

\* No row ever has a backend origin that cannot be rendered.
RowsRenderable ==
    /\ \A t \in Tenants : tenants[t] # NULL => tenants[t].body.origin_ok
    /\ \A h \in Handlers : pc[h] = "save" => record[h].body.origin_ok

\* The files agree and follow the rows: FilesFollowRows at any moment.
FilesGood ==
    /\ \A f, g \in FileNames : files[f] = files[g]
    /\ \A f \in FileNames, t \in Tenants :
           /\ PhaseOf(t) = "published" => \A i \in Publications(t) :
                  /\ files[f][t] \notin {NULL, Shipped}
                  /\ files[f][t].revision >= tenant_revisions[t][i].payload.revision
           /\ PhaseOf(t) = "disabled" => files[f][t] = NULL

\* They do until a publishing endpoint begins.
FilesSettled ==
    failures = 0 =>
        \A h \in Handlers : op[h] \notin Publishing => FilesGood

LEMMA MakesNext ==
    ASSUME NEW row \in Record, NULL # row,
           NEW o, NEW r,
           r.revision = row.revision + 1,
           \/ /\ o = "update"
              /\ r.status = IF row.status = "published" THEN "draft"
                            ELSE row.status
           \/ o = "assess" /\ r.status = row.status
           \/ o = "validate" /\ r.status \in {"validated", "draft"}
           \/ o = "publish" /\ row.status = "validated" /\ r.status = "published"
           \/ o = "disable" /\ r.status = "disabled"
    PROVE  Makes(o, row, r)
BY DEF Makes

\* A request that begins with what it makes of a row,
LEMMA SerialBegin ==
    ASSUME TypeInv, SerialInv, NEW h, Handlers = {h},
           NEW operation, NEW step \in {"check", "save", "import"}, NEW r,
           Begin(h, operation, step, r),
           step = "check" => operation \in {"create", "update", "validate"},
           step = "import" => operation = "import",
           (step = "check" /\ operation = "validate") =>
               tenants[r.tenant_id] = r,
           (step = "check" /\ operation # "validate") =>
               Makes(operation, tenants[r.tenant_id], r),
           step = "save" => Makes(operation, tenants[r.tenant_id], r)
    PROVE  SerialInv'
<1>1. /\ pc'[h] = step
      /\ op'[h] = operation
      /\ record'[h] = r
      /\ UNCHANGED database
  BY DEF Begin, TypeInv, TypeOK
<1>2. RowsNewest'
  BY <1>1 DEF SerialInv, RowsNewest, database
<1>3. OpsOK'
  BY <1>1 DEF OpsOK
<1>4. RecordsCurrent'
  BY <1>1 DEF RecordsCurrent, database
<1>5. SnapshotsCurrent'
  BY <1>1 DEF SnapshotsCurrent
<1>. QED  BY <1>2, <1>3, <1>4, <1>5 DEF SerialInv

LEMMA SerialRequest ==
    ASSUME TypeInv, RowsLogged, RowsInPlace, SerialInv,
           NEW h, Handlers = {h}, Request(h)
    PROVE  SerialInv'
<1>n. \A t \in Tenants : Loads(t) => tenants[t] # NULL
  BY DEF Loads
<1>1. ASSUME NEW t \in Tenants, NEW u \in Upserts, CreateTenant(h, t, u)
      PROVE  SerialInv'
  <2> DEFINE r == NewRecord(t, u)
  <2>1. r.tenant_id = t /\ r.status = "draft"
    BY DEF NewRecord
  <2>2. tenants[t] = NULL /\ Begin(h, "create", "check", r)
    BY <1>1 DEF CreateTenant
  <2>3. Makes("create", tenants[r.tenant_id], r)
    BY <2>1, <2>2 DEF Makes
  <2>. HIDE DEF r
  <2>. QED  BY <2>2, <2>3, SerialBegin
<1>2. ASSUME NEW t \in Tenants, NEW u \in Upserts, UpdateTenant(h, t, u)
      PROVE  SerialInv'
  <2> DEFINE r == UpdatedRecord(tenants[t], u)
  <2>1. Loads(t) /\ u \in Upsert /\ Begin(h, "update", "check", r)
    BY <1>2, UpsertsAssumption DEF UpdateTenant
  <2>2. r.tenant_id = t /\ r.revision = tenants[t].revision + 1
    BY <2>1, LoadedRow, UpdatedRecordIsNext
  <2>3. r.status = IF tenants[t].status = "published" THEN "draft"
                   ELSE tenants[t].status
    BY <2>1, LoadedRow DEF UpdatedRecord, Record
  <2>. HIDE DEF r
  <2>4. Makes("update", tenants[r.tenant_id], r)
    BY <1>n, <2>1, <2>2, <2>3, LoadedRow, MakesNext
  <2>. QED  BY <2>1, <2>4, SerialBegin
<1>3. ASSUME NEW t \in Tenants, NEW report \in Reports,
             AssessTenant(h, t, report)
      PROVE  SerialInv'
  <2> DEFINE r == AssessedRecord(tenants[t], report)
  <2>1. Loads(t) /\ report \in Report /\ Begin(h, "assess", "save", r)
    BY <1>3, ReportsAssumption DEF AssessTenant
  <2>2. r.tenant_id = t /\ r.revision = tenants[t].revision + 1
    BY <2>1, LoadedRow, AssessedRecordIsNext
  <2>3. r.status = tenants[t].status
    BY <2>1, LoadedRow DEF AssessedRecord, Record
  <2>. HIDE DEF r
  <2>4. Makes("assess", tenants[r.tenant_id], r)
    BY <1>n, <2>1, <2>2, <2>3, LoadedRow, MakesNext
  <2>. QED  BY <2>1, <2>4, SerialBegin
<1>4. ASSUME NEW t \in Tenants, ValidateTenant(h, t) PROVE SerialInv'
  <2>1. Loads(t) /\ Begin(h, "validate", "check", tenants[t])
    BY <1>4 DEF ValidateTenant
  <2>2. tenants[tenants[t].tenant_id] = tenants[t]
    BY <2>1, LoadedRow
  <2>. QED  BY <2>1, <2>2, SerialBegin
<1>5. ASSUME NEW t \in Tenants, PublishTenant(h, t) PROVE SerialInv'
  <2> DEFINE r == WithStatus(tenants[t], "published")
  <2>1. /\ Loads(t)
        /\ tenants[t].status = "validated"
        /\ Begin(h, "publish", "save", r)
    BY <1>5 DEF PublishTenant, PublishGuard
  <2>2. /\ r.tenant_id = t
        /\ r.revision = tenants[t].revision + 1
        /\ r.status = "published"
    BY <2>1, LoadedRow, WithStatusIsNext DEF Statuses, WithStatus, Record
  <2>. HIDE DEF r
  <2>3. Makes("publish", tenants[r.tenant_id], r)
    BY <1>n, <2>1, <2>2, LoadedRow, MakesNext
  <2>. QED  BY <2>1, <2>3, SerialBegin
<1>6. ASSUME NEW t \in Tenants, DisableTenant(h, t) PROVE SerialInv'
  <2> DEFINE r == WithStatus(tenants[t], "disabled")
  <2>1. Loads(t) /\ Begin(h, "disable", "save", r)
    BY <1>6 DEF DisableTenant
  <2>2. /\ r.tenant_id = t
        /\ r.revision = tenants[t].revision + 1
        /\ r.status = "disabled"
    BY <2>1, LoadedRow, WithStatusIsNext DEF Statuses, WithStatus, Record
  <2>. HIDE DEF r
  <2>3. Makes("disable", tenants[r.tenant_id], r)
    BY <1>n, <2>1, <2>2, LoadedRow, MakesNext
  <2>. QED  BY <2>1, <2>3, SerialBegin
<1>7. CASE ImportLegacy(h)
  BY <1>7, SerialBegin DEF ImportLegacy
<1>. QED
  BY <1>1, <1>2, <1>3, <1>4, <1>5, <1>6, <1>7 DEF Request

\* one that ends,
LEMMA SerialReturn ==
    ASSUME TypeInv, SerialInv, NEW h, Handlers = {h},
           Return(h), UNCHANGED database
    PROVE  SerialInv'
<1>1. pc'[h] = "idle" /\ op'[h] = "none"
  BY DEF Return, TypeInv, TypeOK
<1>2. RowsNewest'
  BY DEF SerialInv, RowsNewest, database
<1>3. OpsOK' /\ RecordsCurrent' /\ SnapshotsCurrent'
  BY <1>1 DEF OpsOK, RecordsCurrent, SnapshotsCurrent
<1>. QED  BY <1>2, <1>3 DEF SerialInv

\* and one that saves: its record is newer than all there is of the tenant.
LEMMA SerialSave ==
    ASSUME TypeInv, SerialInv, NEW h, Handlers = {h}, SaveTenant(h)
    PROVE  SerialInv'
<1>1. PICK r0 \in Record : record[h] = r0
  BY SavedRow
<1> DEFINE row == [action |-> ActionOf(op[h], r0), payload |-> r0]
           t0 == r0.tenant_id
           log == tenant_revisions[t0]
<1>2. /\ row \in LogRow
      /\ row.payload = r0
      /\ \A u \in Tenants \ {t0} : tenant_revisions'[u] = tenant_revisions[u]
      /\ tenant_revisions'[t0] = Append(log, row)
  BY <1>1, SaveAppends
<1>3. t0 \in Tenants /\ log \in Seq(LogRow)
  BY DEF TypeInv, TypeOK, Record
<1>4. /\ tenants'[t0] = r0
      /\ \A u \in Tenants \ {t0} : tenants'[u] = tenants[u]
  BY <1>1, <1>3 DEF SaveTenant, TypeInv, TypeOK, Rows
<1>5. Makes(op[h], tenants[t0], r0)
  BY <1>1 DEF SaveTenant, SerialInv, RecordsCurrent
<1>6. \A i \in DOMAIN log : log[i].payload.revision <= r0.revision
  <2>1. CASE tenants[t0] = NULL
    BY <1>3, <2>1 DEF SerialInv, RowsNewest
  <2>2. CASE tenants[t0] # NULL
    <3>1. r0.revision = tenants[t0].revision + 1
      BY <1>5, <2>2 DEF Makes
    <3>2. tenants[t0].revision \in Nat /\ r0.revision \in Nat
      BY <1>3, <2>2 DEF TypeInv, TypeOK, Rows, Record
    <3>3. ASSUME NEW i \in DOMAIN log
          PROVE  /\ log[i].payload.revision \in Nat
                 /\ log[i].payload.revision <= tenants[t0].revision
      <4>1. log[i] \in LogRow
        BY <1>3
      <4>. QED  BY <1>3, <2>2, <4>1 DEF SerialInv, RowsNewest, LogRow, Record
    <3>. QED  BY <3>1, <3>2, <3>3
  <2>. QED  BY <2>1, <2>2
<1>7. \A i \in DOMAIN Append(log, row) :
          Append(log, row)[i].payload.revision <= r0.revision
  <2>1. ASSUME NEW i \in DOMAIN Append(log, row)
        PROVE  \/ Append(log, row)[i] = row
               \/ i \in DOMAIN log /\ Append(log, row)[i] = log[i]
    <3>. HIDE DEF row, log
    <3>. QED  BY <1>2, <1>3, <2>1
  <2>2. r0.revision <= r0.revision
    BY DEF Record
  <2>. HIDE DEF row, log
  <2>. QED  BY <1>2, <1>6, <2>1, <2>2
<1>8. RowsNewest'
  <2>1. ASSUME NEW t \in Tenants, t # t0
        PROVE  /\ tenants'[t] = NULL => tenant_revisions'[t] = << >>
               /\ tenants'[t] # NULL => \A i \in DOMAIN tenant_revisions'[t] :
                      tenant_revisions'[t][i].payload.revision
                          <= tenants'[t].revision
    BY <1>2, <1>4, <2>1 DEF SerialInv, RowsNewest
  <2>2. tenants'[t0] # NULL
    BY <1>4, NullAssumption
  <2>3. \A i \in DOMAIN tenant_revisions'[t0] :
            tenant_revisions'[t0][i].payload.revision <= tenants'[t0].revision
    BY <1>2, <1>4, <1>7
  <2>. QED  BY <2>1, <2>2, <2>3 DEF RowsNewest
<1>9. OpsOK' /\ RecordsCurrent' /\ SnapshotsCurrent'
  <2>1. \/ pc'[h] = "snapshot" /\ op'[h] \in Publishing
        \/ pc'[h] = "import" /\ op'[h] = "import"
        \/ pc'[h] = "idle" /\ op'[h] = "none"
    BY DEF SaveTenant, AfterSave, Return, TypeInv, TypeOK, Publishing
  <2>. QED  BY <2>1 DEF OpsOK, RecordsCurrent, SnapshotsCurrent
<1>. QED  BY <1>8, <1>9 DEF SerialInv

\* The other steps change neither rows nor history.
LEMMA SerialContinue ==
    ASSUME TypeInv, RecordsPrepared, SerialInv, NEW h, Handlers = {h},
           Continue(h), ~SaveTenant(h)
    PROVE  SerialInv'
<1>1. UNCHANGED database
  BY OnlySavesChangeDatabase
<1>2. RowsNewest'
  BY <1>1 DEF SerialInv, RowsNewest, database
<1>3. PublishedRows' = PublishedRows
  BY <1>1 DEF PublishedRows, database
<1>r. CASE Return(h)
  BY <1>r, <1>1, SerialReturn
<1>4. CASE CheckPayload(h) /\ ~Return(h)
  <2>1. /\ pc[h] = "check"
        /\ op[h] \in {"create", "update"}
        /\ pc'[h] = "save"
        /\ op'[h] = op[h]
        /\ record'[h] = record[h]
    BY <1>4 DEF CheckPayload, TypeInv, TypeOK
  <2>2. Makes(op[h], tenants[record[h].tenant_id], record[h])
    BY <2>1 DEF SerialInv, RecordsCurrent
  <2>3. OpsOK' /\ RecordsCurrent' /\ SnapshotsCurrent'
    BY <1>1, <2>1, <2>2 DEF OpsOK, RecordsCurrent, SnapshotsCurrent, database
  <2>. QED  BY <1>2, <2>3 DEF SerialInv
<1>5. CASE CheckValidation(h)
  <2>1. record[h] \in Record /\ pc[h] = "check" /\ op[h] = "validate"
    BY <1>5 DEF CheckValidation, TypeInv, LocalsOK
  <2>2. PICK s \in {"validated", "draft"} :
            /\ pc'[h] = "save"
            /\ op'[h] = "validate"
            /\ record'[h] = WithStatus(record[h], s)
    BY <1>5 DEF CheckValidation, TypeInv, TypeOK
  <2>3. tenants[record[h].tenant_id] = record[h]
    BY <2>1 DEF SerialInv, RecordsCurrent
  <2>4. /\ record'[h].tenant_id = record[h].tenant_id
        /\ record'[h].revision = record[h].revision + 1
        /\ record'[h].status = s
    BY <2>1, <2>2, WithStatusIsNext DEF Statuses, WithStatus, Record
  <2>5. Makes("validate", tenants[record'[h].tenant_id], record'[h])
    BY <2>1, <2>2, <2>3, <2>4, MakesNext, NullAssumption
  <2>6. OpsOK' /\ RecordsCurrent' /\ SnapshotsCurrent'
    BY <1>1, <2>2, <2>5 DEF OpsOK, RecordsCurrent, SnapshotsCurrent, database
  <2>. QED  BY <1>2, <2>6 DEF SerialInv
<1>6. CASE ImportNext(h)
  <2>1. pc[h] = "import" /\ op[h] = "import" /\ op'[h] = "import"
    BY <1>6 DEF ImportNext, SerialInv, OpsOK
  <2>2. CASE pc'[h] \in {"snapshot", "import"}
    <3>1. OpsOK' /\ RecordsCurrent' /\ SnapshotsCurrent'
      BY <2>1, <2>2 DEF OpsOK, RecordsCurrent, SnapshotsCurrent, Publishing
    <3>. QED  BY <1>2, <3>1 DEF SerialInv
  <2>3. CASE /\ pc'[h] = "save"
             /\ cursor[h] <= Len(LegacyConfigs)
             /\ tenants[LegacyConfigs[cursor[h]].tenant_id] = NULL
             /\ record'[h] = LegacyRecord(LegacyConfigs[cursor[h]])
    <3>1. cursor[h] \in DOMAIN LegacyConfigs
      BY <2>3, LegacyAssumption DEF TypeInv, TypeOK
    <3>2. /\ record'[h].tenant_id = LegacyConfigs[cursor[h]].tenant_id
          /\ record'[h].tenant_id \in LegacyTenants
          /\ record'[h].status = "published"
      BY <2>3, <3>1 DEF LegacyRecord, LegacyTenants
    <3>3. Makes("import", tenants[record'[h].tenant_id], record'[h])
      BY <2>3, <3>2 DEF Makes
    <3>4. OpsOK' /\ RecordsCurrent' /\ SnapshotsCurrent'
      BY <1>1, <2>1, <2>3, <3>3
         DEF OpsOK, RecordsCurrent, SnapshotsCurrent, database
    <3>. QED  BY <1>2, <3>4 DEF SerialInv
  <2>4. \/ pc'[h] \in {"snapshot", "import"}
        \/ /\ pc'[h] = "save"
           /\ cursor[h] <= Len(LegacyConfigs)
           /\ tenants[LegacyConfigs[cursor[h]].tenant_id] = NULL
           /\ record'[h] = LegacyRecord(LegacyConfigs[cursor[h]])
    BY <1>6, <2>1 DEF ImportNext, TypeInv, TypeOK
  <2>. QED  BY <2>2, <2>3, <2>4
<1>7. CASE LoadPublished(h) /\ ~Return(h)
  <2>1. /\ pc[h] = "snapshot"
        /\ pc'[h] = "write"
        /\ op'[h] = op[h]
        /\ snapshot'[h] = PublishedRows
        /\ cursor'[h] = 1
    BY <1>7 DEF LoadPublished, TypeInv, TypeOK
  <2>2. op[h] \in Publishing
    BY <2>1 DEF SerialInv, OpsOK
  <2>3. OpsOK' /\ RecordsCurrent'
    BY <2>1, <2>2 DEF OpsOK, RecordsCurrent
  <2>4. SnapshotsCurrent'
    BY <1>3, <2>1 DEF SnapshotsCurrent
  <2>. QED  BY <1>2, <2>3, <2>4 DEF SerialInv
<1>8. CASE WriteBundle(h) /\ ~Return(h)
  <2> DEFINE f == RuntimeFiles[cursor[h]]
  <2>1. /\ pc[h] = "write"
        /\ pc'[h] = "write"
        /\ op'[h] = op[h]
        /\ snapshot'[h] = snapshot[h]
        /\ cursor'[h] = cursor[h] + 1
        /\ files' = [files EXCEPT ![f] = snapshot[h]]
    BY <1>8 DEF WriteBundle, TypeInv, TypeOK
  <2>2. /\ cursor[h] \in DOMAIN RuntimeFiles
        /\ cursor[h] \in Nat \ {0}
        /\ op[h] \in Publishing
        /\ snapshot[h] = PublishedRows
        /\ \A i \in 1..(cursor[h] - 1) : files[RuntimeFiles[i]] = PublishedRows
    BY <2>1 DEF TypeInv, TypeOK, LocalsOK, SerialInv, OpsOK, SnapshotsCurrent
  <2>3. OpsOK' /\ RecordsCurrent'
    BY <2>1, <2>2 DEF OpsOK, RecordsCurrent
  <2>4. ASSUME NEW i \in 1..cursor[h]
        PROVE  files'[RuntimeFiles[i]] = PublishedRows
    <3>1. i \in DOMAIN RuntimeFiles
      BY <2>2, FilesAssumption
    <3>2. RuntimeFiles[i] \in FileNames
      BY <3>1 DEF FileNames
    <3>3. CASE RuntimeFiles[i] = f
      BY <2>1, <2>2, <3>2, <3>3 DEF TypeInv, TypeOK
    <3>4. CASE RuntimeFiles[i] # f
      <4>1. i \in 1..(cursor[h] - 1)
        BY <2>2, <3>4
      <4>2. files[RuntimeFiles[i]] = PublishedRows
        BY <2>2, <4>1
      <4>. QED  BY <2>1, <3>2, <3>4, <4>2 DEF TypeInv, TypeOK
    <3>. QED  BY <3>3, <3>4
  <2>5. SnapshotsCurrent'
    <3>1. cursor[h] + 1 - 1 = cursor[h]
      BY <2>2
    <3>. QED  BY <1>3, <2>1, <2>2, <2>4, <3>1 DEF SnapshotsCurrent
  <2>. QED  BY <1>2, <2>3, <2>5 DEF SerialInv
<1>. QED
  BY <1>r, <1>4, <1>5, <1>6, <1>7, <1>8 DEF Continue

LEMMA SerialStep ==
    ASSUME IInv, HistoryInv, SerialInv, OneHandler, [Next]_vars
    PROVE  SerialInv'
<1>1. PICK h : Handlers = {h}
  BY DEF OneHandler
<1>2. CASE Request(h)
  BY <1>1, <1>2, SerialRequest DEF IInv, HistoryInv
<1>3. CASE SaveTenant(h)
  BY <1>1, <1>3, SerialSave DEF IInv
<1>4. CASE Continue(h) /\ ~SaveTenant(h)
  BY <1>1, <1>4, SerialContinue DEF IInv, HistoryInv
<1>5. CASE HandlerFails(h)
  BY <1>1, <1>5, SerialReturn DEF IInv, HandlerFails, database
<1>6. CASE UNCHANGED vars
  BY <1>6 DEF vars, SerialInv, RowsNewest, OpsOK, RecordsCurrent,
              SnapshotsCurrent, PublishedRows
<1>. QED  BY <1>1, <1>2, <1>3, <1>4, <1>5, <1>6 DEF Next

LEMMA InitSerial == Init => SerialInv
<1>. SUFFICES ASSUME Init PROVE SerialInv
  OBVIOUS
<1>1. OpsOK /\ RecordsCurrent /\ SnapshotsCurrent
  BY DEF Init, OpsOK, RecordsCurrent, SnapshotsCurrent
<1>2. CASE EmptyDatabase
  <2>1. RowsNewest
    BY <1>2 DEF EmptyDatabase, NoRows, RowsNewest
  <2>. QED  BY <1>1, <2>1 DEF SerialInv
<1>3. CASE BootstrappedDatabase
  <2>1. ASSUME NEW t \in Tenants, tenants[t] = NULL
        PROVE  tenant_revisions[t] = << >>
    BY <1>3, <2>1 DEF BootstrappedDatabase
  <2>2. ASSUME NEW t \in Tenants, tenants[t] # NULL,
               NEW i \in DOMAIN tenant_revisions[t]
        PROVE  tenant_revisions[t][i].payload.revision <= tenants[t].revision
    <3> DEFINE row == [action |-> "legacy_bootstrap", payload |-> tenants[t]]
    <3>1. tenant_revisions[t] = <<row>> /\ row.payload = tenants[t]
      BY <1>3, <2>2 DEF BootstrappedDatabase
    <3>2. tenants[t].revision \in Nat
      BY <2>2, InitTypes DEF TypeInv, TypeOK, Rows, Record
    <3>. HIDE DEF row
    <3>3. tenant_revisions[t][i] = row
      BY <2>2, <3>1
    <3>. QED  BY <3>1, <3>2, <3>3
  <2>3. RowsNewest
    BY <2>1, <2>2 DEF RowsNewest
  <2>. QED  BY <1>1, <2>3 DEF SerialInv
<1>. QED  BY <1>2, <1>3 DEF Init

-----------------------------------------------------------------------------
(* The service implements TenantLifecycle: a save moves its tenant as its  *)
(* endpoint may, the write of the last file switches the gateway, and the  *)
(* other steps are not seen.                                               *)

\* The values the refinement gives to TenantLifecycle's phase and served.
PhasesNow == [t \in Tenants |-> PhaseOf(t)]
ServedNow == {t \in Tenants : files[RuntimeFiles[Len(RuntimeFiles)]][t] # NULL}

\* A step that changes neither the rows nor the last file is not seen.
LEMMA UnseenStep ==
    ASSUME UNCHANGED tenants,
           UNCHANGED files[RuntimeFiles[Len(RuntimeFiles)]]
    PROVE  UNCHANGED Lifecycle!vars
BY DEF Lifecycle!vars, PhaseOf

LEMMA SaveMoves ==
    ASSUME TypeInv, SerialInv, NEW h, Handlers = {h}, SaveTenant(h)
    PROVE  [Lifecycle!Next]_(Lifecycle!vars)
<1>1. PICK r0 \in Record : record[h] = r0
  BY SavedRow
<1>2. PICK t0 \in Tenants : t0 = r0.tenant_id
  BY DEF Record
<1>3. tenants' = [tenants EXCEPT ![t0] = r0] /\ UNCHANGED files
  BY <1>1, <1>2 DEF SaveTenant
<1>4. PhasesNow' = [PhasesNow EXCEPT ![t0] = r0.status]
  <2>1. PhaseOf(t0)' = r0.status
    BY <1>3, NullAssumption DEF PhaseOf, TypeInv, TypeOK, Rows
  <2>2. \A t \in Tenants \ {t0} : PhaseOf(t)' = PhaseOf(t)
    BY <1>3 DEF PhaseOf, TypeInv, TypeOK, Rows
  <2>. QED  BY <2>1, <2>2 DEF PhasesNow
<1>5. ServedNow' = ServedNow
  BY <1>3 DEF ServedNow
<1>6. Makes(op[h], tenants[t0], r0)
  BY <1>1, <1>2 DEF SaveTenant, SerialInv, RecordsCurrent
<1>7. PhasesNow[t0] = PhaseOf(t0)
  BY DEF PhasesNow
<1> DEFINE Moves(from, to) ==
               PhaseOf(t0) \in from /\ r0.status = to
<1>8. ASSUME NEW from, NEW to, Moves(from, to)
      PROVE  Lifecycle!Move(t0, from, to)
  BY <1>4, <1>5, <1>7, <1>8
     DEF Lifecycle!Move, PhasesNow, ServedNow
<1>9. CASE tenants[t0] = NULL
  <2>1. PhaseOf(t0) = "absent"
    BY <1>9 DEF PhaseOf
  <2>2. \/ r0.status = "draft"
        \/ r0.status = "published" /\ t0 \in LegacyTenants
    BY <1>2, <1>6, <1>9 DEF Makes
  <2>3. CASE r0.status = "draft"
    BY <1>8, <2>1, <2>3 DEF Lifecycle!Create, Lifecycle!Next
  <2>4. CASE r0.status = "published" /\ t0 \in LegacyTenants
    BY <1>8, <2>1, <2>4 DEF Lifecycle!Import, Lifecycle!Next, LegacyTenants
  <2>. QED  BY <2>2, <2>3, <2>4
<1>10. CASE tenants[t0] # NULL
  <2>1. PhaseOf(t0) = tenants[t0].status /\ tenants[t0].status \in Statuses
    BY <1>10 DEF PhaseOf, TypeInv, TypeOK, Rows, Record
  <2>2. PhaseOf(t0) \in Lifecycle!Phases \ {"absent"}
    BY <2>1 DEF Statuses, Lifecycle!Phases
  <2>3. \/ r0.status = PhaseOf(t0)
        \/ Moves({"published"}, "draft")
        \/ r0.status \in {"validated", "draft", "disabled"}
        \/ Moves({"validated"}, "published")
    BY <1>6, <1>10, <2>1 DEF Makes
  <2>4. CASE r0.status = PhaseOf(t0)
    <3>1. PhasesNow' = PhasesNow
      BY <1>4, <1>7, <2>4 DEF PhasesNow
    <3>. QED  BY <1>5, <3>1 DEF Lifecycle!vars, PhasesNow, ServedNow
  <2>5. CASE Moves({"published"}, "draft")
    BY <1>8, <2>5 DEF Lifecycle!Edit, Lifecycle!Next
  <2>6. CASE r0.status = "validated"
    BY <1>8, <2>2, <2>6 DEF Lifecycle!Validate, Lifecycle!Next
  <2>7. CASE r0.status = "draft"
    BY <1>8, <2>2, <2>7 DEF Lifecycle!Reject, Lifecycle!Next
  <2>8. CASE r0.status = "disabled"
    BY <1>8, <2>2, <2>8 DEF Lifecycle!Disable, Lifecycle!Next
  <2>9. CASE Moves({"validated"}, "published")
    BY <1>8, <2>9 DEF Lifecycle!Publish, Lifecycle!Next
  <2>. QED  BY <2>3, <2>4, <2>5, <2>6, <2>7, <2>8, <2>9
<1>. QED  BY <1>9, <1>10

LEMMA WriteSwitches ==
    ASSUME TypeInv, SerialInv, NEW h, Handlers = {h}, WriteBundle(h)
    PROVE  [Lifecycle!Next]_(Lifecycle!vars)
<1> DEFINE last == RuntimeFiles[Len(RuntimeFiles)]
<1>1. /\ files' = [files EXCEPT ![RuntimeFiles[cursor[h]]] = snapshot[h]]
      /\ UNCHANGED tenants
      /\ snapshot[h] = PublishedRows
  BY DEF WriteBundle, SerialInv, SnapshotsCurrent, database
<1>2. last \in FileNames
  BY FilesAssumption DEF FileNames
<1>3. CASE RuntimeFiles[cursor[h]] # last
  <2>1. UNCHANGED files[last]
    BY <1>1, <1>2, <1>3 DEF TypeInv, TypeOK
  <2>. QED  BY <1>1, <2>1, UnseenStep
<1>4. CASE RuntimeFiles[cursor[h]] = last
  <2>1. files'[last] = PublishedRows
    BY <1>1, <1>2, <1>4 DEF TypeInv, TypeOK
  <2>2. ServedNow' = {t \in Tenants : PhaseOf(t) = "published"}
    BY <2>1, NullAssumption
       DEF ServedNow, PublishedRows, PhaseOf, TypeInv, TypeOK, Rows
  <2>3. Lifecycle!PublishedTenants = {t \in Tenants : PhaseOf(t) = "published"}
    BY DEF Lifecycle!PublishedTenants
  <2>4. PhasesNow' = PhasesNow
    BY <1>1 DEF PhasesNow, PhaseOf
  <2>5. Lifecycle!Switch
    BY <2>2, <2>3, <2>4 DEF Lifecycle!Switch, PhasesNow, ServedNow
  <2>. QED  BY <2>5 DEF Lifecycle!Next
<1>. QED  BY <1>3, <1>4

LEMMA LifecycleStep ==
    ASSUME TypeInv, SerialInv, OneHandler, [Next]_vars
    PROVE  [Lifecycle!Next]_(Lifecycle!vars)
<1>1. PICK h : Handlers = {h}
  BY DEF OneHandler
<1>2. CASE SaveTenant(h)
  BY <1>1, <1>2, SaveMoves
<1>3. CASE WriteBundle(h)
  BY <1>1, <1>3, WriteSwitches
<1>4. ASSUME Request(h) \/ Continue(h) \/ HandlerFails(h),
             ~SaveTenant(h), ~WriteBundle(h)
      PROVE  UNCHANGED <<tenants, files>>
  <2>1. UNCHANGED tenants
    BY <1>1, <1>4, OnlySavesChangeDatabase DEF database
  <2>2. UNCHANGED files
    BY <1>4 DEF Request, Begin, CreateTenant, UpdateTenant, AssessTenant,
                ValidateTenant, PublishTenant, DisableTenant, ImportLegacy,
                Continue, HandlerFails, CheckPayload, CheckValidation,
                ImportNext, LoadPublished
  <2>. QED  BY <2>1, <2>2
<1>5. CASE UNCHANGED <<tenants, files>>
  BY <1>5, UnseenStep
<1>. QED  BY <1>1, <1>2, <1>3, <1>4, <1>5 DEF Next, vars

LEMMA LifecycleInit == Init => Lifecycle!Init
<1>. SUFFICES ASSUME Init PROVE Lifecycle!Init
  OBVIOUS
<1>1. ASSUME NEW t \in Tenants
      PROVE  \/ PhaseOf(t) = "absent"
             \/ PhaseOf(t) = "published" /\ t \in LegacyTenants
  <2>1. CASE EmptyDatabase
    BY <2>1 DEF EmptyDatabase, NoRows, PhaseOf
  <2>2. CASE BootstrappedDatabase
    <3>1. tenants[t] = LegacyRow(t)
      BY <2>2 DEF BootstrappedDatabase
    <3>2. CASE LegacyRow(t) # NULL
      <4>1. LegacyRow(t).status = "published"
        BY <3>2 DEF LegacyRow, LegacyRecord
      <4>2. t \in LegacyTenants
        BY <3>2 DEF LegacyRow, LegacyTenants
      <4>. QED  BY <3>1, <3>2, <4>1, <4>2 DEF PhaseOf
    <3>. QED  BY <3>1, <3>2 DEF PhaseOf
  <2>. QED  BY <2>1, <2>2 DEF Init
<1>2. PhasesNow \in [Tenants -> {"absent", "published"}]
  BY <1>1 DEF PhasesNow
<1>3. \A t \in Tenants : PhasesNow[t] = "published" => t \in LegacyTenants
  BY <1>1 DEF PhasesNow
<1>4. ServedNow \in SUBSET Tenants
  BY DEF ServedNow
<1>. QED
  BY <1>2, <1>3, <1>4
     DEF Lifecycle!Init, PhasesNow, ServedNow, LegacyTenants

\* One request at a time, the service does for its operators what
\* TenantLifecycle says, whatever the tenants, the files and their number, and
\* wherever handlers stop half-way.
THEOREM ServiceImplementsLifecycle == OneHandler => (Spec => ImplementsLifecycle)
<1>. SUFFICES ASSUME OneHandler PROVE Spec => ImplementsLifecycle
  OBVIOUS
<1>1. Init => IInv /\ HistoryInv /\ SerialInv
  BY InitInvariant, InitHistory, InitSerial
<1>2. IInv /\ HistoryInv /\ SerialInv /\ [Next]_vars
          => (IInv /\ HistoryInv /\ SerialInv)'
  BY InvariantStep, HistoryInvariantStep, SerialStep
<1>3. IInv /\ SerialInv /\ [Next]_vars => [Lifecycle!Next]_(Lifecycle!vars)
  BY LifecycleStep DEF IInv
<1>. QED
  BY <1>1, <1>2, <1>3, LifecycleInit, PTL
     DEF Spec, ImplementsLifecycle, Lifecycle!Spec

-----------------------------------------------------------------------------
(* The runtime files follow the rows.  Every row can be rendered, so that  *)
(* a publication that begins ends with all the files written.              *)

LEMMA RowsStayRenderable ==
    ASSUME TypeInv, SerialInv, RowsRenderable, LegacyRenderable,
           NEW h, Handlers = {h},
           Request(h) \/ Continue(h) \/ HandlerFails(h)
    PROVE  RowsRenderable'
<1>1. \A t \in Tenants : tenants'[t] # NULL => tenants'[t].body.origin_ok
  <2>1. CASE SaveTenant(h)
    <3>1. PICK r0 \in Record : record[h] = r0
      BY <2>1, SavedRow
    <3>2. tenants' = [tenants EXCEPT ![r0.tenant_id] = r0]
      BY <2>1, <3>1 DEF SaveTenant
    <3>3. r0.body.origin_ok
      BY <2>1, <3>1 DEF SaveTenant, RowsRenderable
    <3>. QED  BY <3>2, <3>3 DEF RowsRenderable, TypeInv, TypeOK, Rows
  <2>2. CASE UNCHANGED database
    BY <2>2 DEF RowsRenderable, database
  <2>. QED  BY <2>1, <2>2, OnlySavesChangeDatabase
<1>2. ASSUME pc'[h] = "save" PROVE record'[h].body.origin_ok
  <2>b. ASSUME NEW operation, NEW step, NEW r, Begin(h, operation, step, r)
        PROVE  pc'[h] = step /\ record'[h] = r
    BY <2>b DEF Begin, TypeInv, TypeOK
  <2>r. \A t \in Tenants : Loads(t) =>
            tenants[t] \in Record /\ tenants[t].body.origin_ok
    BY DEF Loads, RowsRenderable, TypeInv, TypeOK, Rows
  <2>1. ASSUME NEW t \in Tenants, NEW report \in Reports,
               AssessTenant(h, t, report)
        PROVE  record'[h].body.origin_ok
    <3>1. AssessedRecord(tenants[t], report).body.origin_ok
      BY <2>1, <2>r DEF AssessTenant, AssessedRecord, Record, Upsert
    <3>. QED  BY <2>1, <2>b, <3>1 DEF AssessTenant
  <2>2. ASSUME NEW t \in Tenants, NEW s \in Statuses, NEW operation,
               Loads(t),
               Begin(h, operation, "save", WithStatus(tenants[t], s))
        PROVE  record'[h].body.origin_ok
    <3>1. WithStatus(tenants[t], s).body.origin_ok
      BY <2>2, <2>r DEF WithStatus, Record
    <3>. QED  BY <2>2, <2>b, <3>1
  <2>3. CASE Request(h)
    <3>c. ASSUME NEW t \in Tenants, NEW u \in Upserts PROVE ~CreateTenant(h, t, u)
      BY <1>2, <2>b DEF CreateTenant
    <3>u. ASSUME NEW t \in Tenants, NEW u \in Upserts PROVE ~UpdateTenant(h, t, u)
      BY <1>2, <2>b DEF UpdateTenant
    <3>v. ASSUME NEW t \in Tenants PROVE ~ValidateTenant(h, t)
      BY <1>2, <2>b DEF ValidateTenant
    <3>i. ~ImportLegacy(h)
      BY <1>2, <2>b DEF ImportLegacy
    <3>p. ASSUME NEW t \in Tenants, PublishTenant(h, t)
          PROVE  record'[h].body.origin_ok
      BY <3>p, <2>2 DEF PublishTenant, Statuses
    <3>d. ASSUME NEW t \in Tenants, DisableTenant(h, t)
          PROVE  record'[h].body.origin_ok
      BY <3>d, <2>2 DEF DisableTenant, Statuses
    <3>. QED
      BY <2>1, <2>3, <3>c, <3>u, <3>v, <3>i, <3>p, <3>d DEF Request
  <2>4. CASE CheckPayload(h)
    <3>1. PayloadValid(record[h]) /\ record'[h] = record[h]
      BY <1>2, <2>4 DEF CheckPayload, Return, TypeInv, TypeOK
    <3>. QED  BY <3>1 DEF PayloadValid
  <2>5. CASE CheckValidation(h)
    <3>1. /\ record[h] \in Record
          /\ pc[h] = "check"
          /\ op[h] = "validate"
      BY <2>5 DEF CheckValidation, TypeInv, LocalsOK
    <3>2. PICK s \in {"validated", "draft"} :
              record'[h] = WithStatus(record[h], s)
      BY <2>5 DEF CheckValidation, TypeInv, TypeOK
    <3>3. tenants[record[h].tenant_id] = record[h]
      BY <3>1 DEF SerialInv, RecordsCurrent
    <3>4. record[h].tenant_id \in Tenants
      BY <3>1 DEF Record
    <3>5. record[h].body.origin_ok
      BY <3>1, <3>3, <3>4, NullAssumption DEF RowsRenderable
    <3>6. record'[h].body = record[h].body
      BY <3>1, <3>2 DEF WithStatus, Record
    <3>. QED  BY <3>5, <3>6
  <2>6. CASE ImportNext(h)
    <3>1. /\ cursor[h] <= Len(LegacyConfigs)
          /\ record'[h] = LegacyRecord(LegacyConfigs[cursor[h]])
      BY <1>2, <2>6 DEF ImportNext, TypeInv, TypeOK
    <3>2. cursor[h] \in DOMAIN LegacyConfigs
      BY <3>1, LegacyAssumption DEF TypeInv, TypeOK
    <3>. QED  BY <3>1, <3>2 DEF LegacyRecord, LegacyRenderable
  <2>7. CASE SaveTenant(h) \/ LoadPublished(h) \/ WriteBundle(h) \/ HandlerFails(h)
    BY <1>2, <2>7
       DEF SaveTenant, AfterSave, LoadPublished, WriteBundle, HandlerFails,
           Return, TypeInv, TypeOK
  <2>. QED
    BY <2>3, <2>4, <2>5, <2>6, <2>7 DEF Continue
<1>. QED  BY <1>1, <1>2 DEF RowsRenderable

\* A save that publishes nothing leaves the files as good as they were.
LEMMA SaveKeepsFilesGood ==
    ASSUME TypeInv, SerialInv, NEW h, Handlers = {h}, SaveTenant(h),
           op[h] \notin Publishing, FilesGood
    PROVE  FilesGood'
<1>1. PICK r0 \in Record : record[h] = r0
  BY SavedRow
<1> DEFINE row == [action |-> ActionOf(op[h], r0), payload |-> r0]
           t0 == r0.tenant_id
           log == tenant_revisions[t0]
<1>2. /\ row \in LogRow
      /\ \A u \in Tenants \ {t0} : tenant_revisions'[u] = tenant_revisions[u]
      /\ tenant_revisions'[t0] = Append(log, row)
  BY <1>1, SaveAppends
<1>3. t0 \in Tenants /\ log \in Seq(LogRow)
  BY DEF TypeInv, TypeOK, Record
<1>4. tenants' = [tenants EXCEPT ![t0] = r0] /\ UNCHANGED files
  BY <1>1 DEF SaveTenant
<1>5. Makes(op[h], tenants[t0], r0)
  BY <1>1 DEF SaveTenant, SerialInv, RecordsCurrent
<1>6. row.action \notin {"published", "legacy_imported"}
  BY <1>5 DEF ActionOf, Makes, Publishing, Generating
<1>7. PhaseOf(t0)' = r0.status
  BY <1>3, <1>4, NullAssumption DEF PhaseOf, TypeInv, TypeOK, Rows
<1>8. r0.status \in {"published", "disabled"} => PhaseOf(t0) = r0.status
  <2>1. CASE tenants[t0] = NULL
    BY <1>5, <2>1 DEF Makes, Publishing
  <2>2. CASE tenants[t0] # NULL
    BY <1>5, <2>2 DEF Makes, PhaseOf, Publishing, Generating
  <2>. QED  BY <2>1, <2>2
<1>9. ASSUME NEW i \in Publications(t0)'
      PROVE  /\ i \in Publications(t0)
             /\ tenant_revisions'[t0][i] = tenant_revisions[t0][i]
  <2>1. /\ i \in DOMAIN Append(log, row)
        /\ Append(log, row)[i].action \in {"published", "legacy_imported"}
    BY <1>2 DEF Publications
  <2>2. i \in DOMAIN log /\ Append(log, row)[i] = log[i]
    <3>1. \/ Append(log, row)[i] = row
          \/ i \in DOMAIN log /\ Append(log, row)[i] = log[i]
      <4>. HIDE DEF row, log
      <4>. QED  BY <1>2, <1>3, <2>1
    <3>. HIDE DEF row, log
    <3>. QED  BY <1>6, <2>1, <3>1
  <2>3. log[i].action \in {"published", "legacy_imported"}
    <3>. HIDE DEF row, log
    <3>. QED  BY <2>1, <2>2
  <2>. QED  BY <1>2, <2>2, <2>3 DEF Publications
<1>10. ASSUME NEW f \in FileNames, NEW t \in Tenants
       PROVE  /\ PhaseOf(t)' = "published" => \A i \in Publications(t)' :
                  /\ files'[f][t] \notin {NULL, Shipped}
                  /\ files'[f][t].revision
                         >= tenant_revisions'[t][i].payload.revision
              /\ PhaseOf(t)' = "disabled" => files'[f][t] = NULL
  <2>1. CASE t = t0
    BY <1>4, <1>7, <1>8, <1>9, <2>1 DEF FilesGood
  <2>2. CASE t # t0
    <3>1. PhaseOf(t)' = PhaseOf(t) /\ Publications(t)' = Publications(t)
      BY <1>2, <1>4, <2>2 DEF PhaseOf, Publications, TypeInv, TypeOK, Rows
    <3>. QED  BY <1>2, <1>4, <2>2, <3>1 DEF FilesGood
  <2>. QED  BY <2>1, <2>2
<1>. QED  BY <1>4, <1>10 DEF FilesGood

\* The write of the last file makes them good.
LEMMA LastWriteMakesFilesGood ==
    ASSUME TypeInv, SerialInv, NEW h, Handlers = {h}, WriteBundle(h),
           cursor[h] >= LastFile
    PROVE  FilesGood'
<1> DEFINE f0 == RuntimeFiles[cursor[h]]
<1>1. /\ files' = [files EXCEPT ![f0] = PublishedRows]
      /\ UNCHANGED <<tenants, tenant_revisions>>
      /\ \A i \in 1..(cursor[h] - 1) : files[RuntimeFiles[i]] = PublishedRows
  BY DEF WriteBundle, SerialInv, SnapshotsCurrent, database
<1>2. cursor[h] \in DOMAIN RuntimeFiles /\ cursor[h] = Len(RuntimeFiles)
  BY FilesAssumption DEF WriteBundle, LastFile, TypeInv, LocalsOK
<1>3. ASSUME NEW f \in FileNames PROVE files'[f] = PublishedRows
  <2>1. PICK i \in DOMAIN RuntimeFiles : f = RuntimeFiles[i]
    BY DEF FileNames
  <2>2. CASE f = f0
    BY <1>1, <2>2 DEF TypeInv, TypeOK
  <2>3. CASE f # f0
    <3>1. i \in 1..(cursor[h] - 1)
      BY <1>2, <2>1, <2>3, FilesAssumption
    <3>. QED  BY <1>1, <2>1, <2>3, <3>1 DEF TypeInv, TypeOK
  <2>. QED  BY <2>2, <2>3
<1>4. ASSUME NEW t \in Tenants
      PROVE  /\ PhaseOf(t)' = PhaseOf(t)
             /\ Publications(t)' = Publications(t)
             /\ Publications(t) \subseteq DOMAIN tenant_revisions[t]
  BY <1>1 DEF PhaseOf, Publications
<1>5. ASSUME NEW t \in Tenants, PhaseOf(t) = "published"
      PROVE  /\ PublishedRows[t] \notin {NULL, Shipped}
             /\ \A i \in Publications(t) :
                    PublishedRows[t].revision
                        >= tenant_revisions[t][i].payload.revision
  <2>1. tenants[t] # NULL /\ PublishedRows[t] = tenants[t]
    BY <1>5 DEF PhaseOf, PublishedRows
  <2>2. tenants[t] \in Record
    BY <2>1 DEF TypeInv, TypeOK, Rows
  <2>3. ASSUME NEW i \in Publications(t)
        PROVE  tenants[t].revision >= tenant_revisions[t][i].payload.revision
    <3>1. i \in DOMAIN tenant_revisions[t]
      BY <1>4
    <3>2. tenant_revisions[t][i] \in LogRow
      BY <3>1 DEF TypeInv, TypeOK
    <3>3. tenant_revisions[t][i].payload.revision <= tenants[t].revision
      BY <2>1, <3>1 DEF SerialInv, RowsNewest
    <3>4. /\ tenant_revisions[t][i].payload.revision \in Nat
          /\ tenants[t].revision \in Nat
      BY <2>2, <3>2 DEF LogRow, Record
    <3>. QED  BY <3>3, <3>4
  <2>. QED  BY <2>1, <2>2, <2>3, NullAssumption
<1>6. ASSUME NEW t \in Tenants, PhaseOf(t) = "disabled"
      PROVE  PublishedRows[t] = NULL
  BY <1>6 DEF PhaseOf, PublishedRows
<1>. QED  BY <1>1, <1>3, <1>4, <1>5, <1>6 DEF FilesGood

LEMMA FilesStaySettled ==
    ASSUME TypeInv, SerialInv, RowsRenderable, FilesSettled,
           NEW h, Handlers = {h},
           Request(h) \/ Continue(h) \/ HandlerFails(h)
    PROVE  FilesSettled'
<1>. SUFFICES ASSUME failures' = 0, op'[h] \notin Publishing PROVE FilesGood'
  BY DEF FilesSettled
<1>1. ASSUME op[h] \notin Publishing, failures = 0,
             UNCHANGED <<database, files>>
      PROVE  FilesGood'
  BY <1>1 DEF FilesSettled, FilesGood, PhaseOf, Publications, database
<1>2. CASE Request(h)
  <2>1. pc[h] = "idle" /\ UNCHANGED <<database, files, failures>>
    BY <1>2 DEF Request, Begin, CreateTenant, UpdateTenant, AssessTenant,
                ValidateTenant, PublishTenant, DisableTenant, ImportLegacy
  <2>2. op[h] \notin Publishing
    BY <2>1 DEF SerialInv, OpsOK, Publishing, Generating
  <2>. QED  BY <1>1, <2>1, <2>2
<1>3. CASE CheckPayload(h) \/ CheckValidation(h)
  BY <1>1, <1>3
     DEF CheckPayload, CheckValidation, Publishing, Generating
<1>4. CASE SaveTenant(h)
  <2>1. failures = 0
    BY <1>4 DEF SaveTenant
  <2>2. op[h] \notin Publishing
    BY <1>4 DEF SaveTenant, AfterSave, Publishing
  <2>3. FilesGood
    BY <2>1, <2>2 DEF FilesSettled
  <2>. QED  BY <1>4, <2>2, <2>3, SaveKeepsFilesGood
<1>5. CASE ImportNext(h)
  BY <1>5 DEF ImportNext, SerialInv, OpsOK, Publishing
<1>6. CASE LoadPublished(h)
  <2>1. Renderable(PublishedRows)
    BY DEF Renderable, PublishedRows, RowsRenderable
  <2>. QED  BY <1>6, <2>1 DEF LoadPublished, SerialInv, OpsOK
<1>7. CASE WriteBundle(h)
  <2>1. cursor[h] >= LastFile
    BY <1>7 DEF WriteBundle, SerialInv, OpsOK
  <2>. QED  BY <1>7, <2>1, LastWriteMakesFilesGood
<1>8. CASE HandlerFails(h)
  BY <1>8, BoundsAssumption DEF HandlerFails, TypeInv, TypeOK
<1>. QED
  BY <1>2, <1>3, <1>4, <1>5, <1>6, <1>7, <1>8 DEF Continue

FilesInv == RowsRenderable /\ FilesSettled

LEMMA InitFiles == Init /\ LegacyRenderable => FilesInv
<1>. SUFFICES ASSUME Init, LegacyRenderable PROVE FilesInv
  OBVIOUS
<1>1. RowsRenderable
  <2>1. \A h \in Handlers : pc[h] # "save"
    BY DEF Init
  <2>2. ASSUME NEW t \in Tenants, tenants[t] # NULL
        PROVE  tenants[t].body.origin_ok
    <3>1. BootstrappedDatabase
      BY <2>2 DEF Init, EmptyDatabase, NoRows
    <3>2. \A i \in DOMAIN LegacyConfigs : LegacyRecord(LegacyConfigs[i]).body.origin_ok
      BY DEF LegacyRenderable, LegacyRecord
    <3>3. PICK i \in DOMAIN LegacyConfigs :
              tenants[t] = LegacyRecord(LegacyConfigs[i])
      BY <2>2, <3>1, FirstLegacyConfig DEF BootstrappedDatabase
    <3>. QED  BY <3>2, <3>3
  <2>. QED  BY <2>1, <2>2 DEF RowsRenderable
<1>2. FilesGood
  <2>1. ASSUME NEW t \in Tenants
        PROVE  Publications(t) = {} /\ PhaseOf(t) # "disabled"
    <3>1. CASE EmptyDatabase
      BY <3>1 DEF EmptyDatabase, NoRows, Publications, PhaseOf
    <3>2. CASE BootstrappedDatabase
      <4>1. tenants[t] = NULL \/ tenants[t].status = "published"
        BY <3>2 DEF BootstrappedDatabase, LegacyRow, LegacyRecord
      <4>2. ASSUME NEW i \in DOMAIN tenant_revisions[t]
            PROVE  tenant_revisions[t][i].action = "legacy_bootstrap"
        <5> DEFINE row == [action |-> "legacy_bootstrap", payload |-> LegacyRow(t)]
        <5>1. tenant_revisions[t] = << >> \/ tenant_revisions[t] = <<row>>
          BY <3>2 DEF BootstrappedDatabase
        <5>2. row.action = "legacy_bootstrap"
          OBVIOUS
        <5>. HIDE DEF row
        <5>. QED  BY <4>2, <5>1, <5>2
      <4>. QED  BY <4>1, <4>2 DEF Publications, PhaseOf
    <3>. QED  BY <3>1, <3>2 DEF Init
  <2>2. \A f, g \in FileNames : files[f] = files[g]
    BY DEF Init
  <2>. QED  BY <2>1, <2>2 DEF FilesGood
<1>. QED  BY <1>1, <1>2 DEF FilesInv, FilesSettled

LEMMA FilesInvStep ==
    ASSUME TypeInv, SerialInv, FilesInv, OneHandler, LegacyRenderable,
           [Next]_vars
    PROVE  FilesInv'
<1>1. PICK h : Handlers = {h}
  BY DEF OneHandler
<1>2. CASE Request(h) \/ Continue(h) \/ HandlerFails(h)
  BY <1>1, <1>2, RowsStayRenderable, FilesStaySettled DEF FilesInv
<1>3. CASE UNCHANGED vars
  BY <1>3 DEF vars, FilesInv, RowsRenderable, FilesSettled, FilesGood,
              PhaseOf, Publications
<1>. QED  BY <1>1, <1>2, <1>3 DEF Next

\* One request at a time, with legacy configurations that can be rendered, the
\* middleware, OPA and Envoy are between requests given the same tenants, as the
\* rows have them, unless a handler has stopped half-way.
THEOREM FilesFollow ==
    OneHandler /\ LegacyRenderable => (Spec => []FilesFollowRows)
<1>. SUFFICES ASSUME OneHandler, LegacyRenderable
              PROVE  Spec => []FilesFollowRows
  OBVIOUS
<1>1. Init => IInv /\ HistoryInv /\ SerialInv /\ FilesInv
  BY InitInvariant, InitHistory, InitSerial, InitFiles
<1>2. IInv /\ HistoryInv /\ SerialInv /\ FilesInv /\ [Next]_vars
          => (IInv /\ HistoryInv /\ SerialInv /\ FilesInv)'
  BY InvariantStep, HistoryInvariantStep, SerialStep, FilesInvStep DEF IInv
<1>3. SerialInv /\ FilesInv => FilesFollowRows
  <2>. SUFFICES ASSUME SerialInv, FilesInv, Undisturbed PROVE FilesGood
    BY DEF FilesGood, FilesFollowRows
  <2>1. PICK h : Handlers = {h}
    BY DEF OneHandler
  <2>2. pc[h] = "idle" /\ failures = 0
    BY <2>1 DEF Undisturbed, Quiescent
  <2>3. op[h] = "none"
    BY <2>1, <2>2 DEF SerialInv, OpsOK
  <2>. QED
    BY <2>1, <2>2, <2>3 DEF FilesInv, FilesSettled, Publishing, Generating
<1>. QED  BY <1>1, <1>2, <1>3, PTL DEF Spec
=============================================================================
