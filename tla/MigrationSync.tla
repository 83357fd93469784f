----------------------------- MODULE MigrationSync -----------------------------
(* Synchronization of an app whose schema grows: which tables and columns a pull
   asks for again after the local database was migrated.
     src/src/sync/impl/index.js             getMigrationInfo() and the two marks in
                                            local storage
     src/src/sync/impl/synchronize.js       the pull phase
     src/src/Schema/migrations/             getSyncChanges(), stepsForMigration()

   A table has one record, which is changed by other clients only; local changes
   and the push phase are the subject of module Sync, the steps of a set-up that
   of module Connection.  An app keeps all of its migrations or has none.
   Versions count the releases of the app: any of them may be started next.  *)
EXTENDS Naturals, FiniteSets

CONSTANTS
    Table,
    Column,
    EnabledAt,          \* what releases pass as migrationsEnabledAtVersion; 0: nothing
    Legacy,             \* TRUE: a version without marks may have synchronized before
    BatchPerCollection, \* TRUE: _unsafeBatchPerCollection
    MaxVersion,         \* bound on schema versions
    MaxEdits,           \* bound on changes by other clients
    MaxResets,          \* bound on unsafeResetDatabase()
    MaxFaults           \* bound on crashes, releases installed and failed calls

ASSUME MigrationSyncAssumption ==
    /\ Column # {}
    /\ MaxVersion \in Nat \ {0} /\ EnabledAt \subseteq 0..MaxVersion
    /\ Legacy \in BOOLEAN /\ BatchPerCollection \in BOOLEAN
    /\ MaxEdits \in Nat /\ MaxResets \in Nat /\ MaxFaults \in Nat

VARIABLES
    addedAt,                    \* the version that adds each column of each table
    server,                     \* the server's records; a value is the time of its writing
    clock,                      \* the server's clock
    app,                        \* the release that runs, its schema in the database
    local,                      \* the records in the local database
    lastPulledAt,               \* __hypertill_last_pulled_at; 0 for none
    lastPulledSchemaVersion,    \* __hypertill_last_pulled_schema_version; 0 for none
    sync,                       \* progress of synchronize()
    resets,
    faults

marks == <<lastPulledAt, lastPulledSchemaVersion>>
vars  == <<addedAt, server, clock, app, local, marks, sync, resets, faults>>

Versions == 1..MaxVersion
Time     == 0..(MaxEdits + 1)
Record   == [Column -> Time]
Default  == [c \in Column |-> 0]
Empty    == [t \in Table |-> Default]

(* A release as the invariants of getMigrationInfo() want it. *)
Apps == {a \in [version : Versions, migrations : BOOLEAN, enabledAt : EnabledAt] :
           a.enabledAt # 0 => a.migrations /\ a.enabledAt <= a.version}

Has(version, t, c) == addedAt[t][c] <= version

(* A table is created with the first of its columns. *)
IsCreated(t, version) ==
    /\ \E c \in Column : addedAt[t][c] = version
    /\ \A c \in Column : addedAt[t][c] >= version

(* A record as a schema of this version has it. *)
Sanitized(record, t, version) ==
    [c \in Column |-> IF Has(version, t, c) THEN record[c] ELSE 0]

NoMigration == [tables |-> {}, columns |-> {}]
Idle == [phase |-> "idle", lastPulledAt |-> 0, migration |-> NoMigration, saves |-> FALSE,
         changed |-> {}, records |-> Empty, timestamp |-> 0, left |-> {}, same |-> TRUE]

Init ==
    /\ addedAt \in [Table -> [Column -> Versions]]
    /\ server \in [Table -> {Default, [c \in Column |-> 1]}]
    /\ clock = 1
    /\ app \in Apps
    /\ \/ lastPulledAt = 0 /\ local = Empty
       \/ /\ Legacy /\ app.enabledAt = 0
          /\ lastPulledAt = 1
          /\ local = [t \in Table |-> Sanitized(server[t], t, app.version)]
    /\ lastPulledSchemaVersion = 0
    /\ sync = Idle
    /\ resets = 0
    /\ faults = 0

-----------------------------------------------------------------------------
(* The server and its other clients. *)

Write(t, c) ==
    /\ clock <= MaxEdits
    /\ clock' = clock + 1
    /\ server' = [server EXCEPT ![t][c] = clock']
    /\ UNCHANGED <<addedAt, app, local, marks, sync, resets, faults>>

(* What the protocol wants in the answer to a pull: what changed, all of the new
   tables, and the records with a value in a new column.                      *)
IsServed(t, since, migration) ==
    \/ \E c \in Column : server[t][c] > since
    \/ t \in migration.tables
    \/ \E c \in Column : <<t, c>> \in migration.columns /\ server[t][c] # 0

-----------------------------------------------------------------------------
(* Migrations. *)

(* The versions whose steps lead from one version to the other. *)
stepsForMigration(from, to) == {v \in Versions : v > from /\ v <= to}

(* Mutant: of the columns only those of the newest version. *)
getSyncChangesNewest(from, to) ==
    LET steps  == stepsForMigration(from, to)
        tables == {t \in Table : \E v \in steps : IsCreated(t, v)} IN
    [tables  |-> tables,
     columns |-> {tc \in (Table \ tables) \X Column : addedAt[tc[1]][tc[2]] = to}]

(* Columns added to a table that is asked for as a whole are left out. *)
getSyncChanges(from, to) ==
    LET steps  == stepsForMigration(from, to)
        tables == {t \in Table : \E v \in steps : IsCreated(t, v)} IN
    [tables  |-> tables,
     columns |-> {tc \in (Table \ tables) \X Column : addedAt[tc[1]][tc[2]] \in steps}]

(* The invariants of getMigrationInfo() that an app of Apps may still violate. *)
IsAhead == app.enabledAt # 0 /\ lastPulledSchemaVersion > app.version

migrateFrom ==
    IF lastPulledSchemaVersion # 0 THEN lastPulledSchemaVersion ELSE app.enabledAt

shouldMigrate ==
    app.enabledAt # 0 /\ migrateFrom < app.version /\ lastPulledAt # 0

-----------------------------------------------------------------------------
(* synchronize() *)

In(phase) == sync.phase = phase

(* getLastPulledAt(), getMigrationInfo(), and the request. *)
Start ==
    /\ In("idle") /\ ~IsAhead
    /\ sync' = [Idle EXCEPT
                  !.phase = "pulling",
                  !.lastPulledAt = lastPulledAt,
                  !.migration = IF shouldMigrate THEN getSyncChanges(migrateFrom, app.version)
                                ELSE NoMigration,
                  !.saves = shouldMigrate \/ lastPulledAt = 0]
    /\ UNCHANGED <<addedAt, server, clock, app, local, marks, resets, faults>>

Pull ==
    /\ In("pulling")
    /\ sync' = [sync EXCEPT
                  !.phase = "pulled",
                  !.changed = {t \in Table : IsServed(t, sync.lastPulledAt, sync.migration)},
                  !.records = [t \in Table |-> Sanitized(server[t], t, app.version)],
                  !.timestamp = clock]
    /\ UNCHANGED <<addedAt, server, clock, app, local, marks, resets, faults>>

(* Mutant: nobody looks whether the database was reset. *)
BeginApplyAnyway ==
    /\ In("pulled")
    /\ sync' = [sync EXCEPT !.phase = "applying", !.left = sync.changed]
    /\ UNCHANGED <<addedAt, server, clock, app, local, marks, resets, faults>>

(* The writer begins; ensureSameDatabase() and the comparison of lastPulledAt may
   end it at once.                                                           *)
BeginApply ==
    /\ In("pulled")
    /\ sync' = IF sync.same /\ sync.lastPulledAt = lastPulledAt
               THEN [sync EXCEPT !.phase = "applying", !.left = sync.changed]
               ELSE Idle
    /\ UNCHANGED <<addedAt, server, clock, app, local, marks, resets, faults>>

ApplyBatch ==
    /\ In("applying")
    /\ \E tables \in SUBSET sync.left :
         /\ IF BatchPerCollection /\ sync.left # {} THEN tables # {} ELSE tables = sync.left
         /\ local' = [t \in Table |-> IF t \in tables THEN sync.records[t] ELSE local[t]]
         /\ sync' = [sync EXCEPT !.left = @ \ tables,
                                 !.phase = IF tables = sync.left THEN "saving" ELSE @]
    /\ UNCHANGED <<addedAt, server, clock, app, marks, resets, faults>>

(* setLastPulledAt() *)
SaveLastPulledAt ==
    /\ In("saving")
    /\ lastPulledAt' = sync.timestamp
    /\ sync' = IF sync.saves THEN [sync EXCEPT !.phase = "noting"] ELSE Idle
    /\ UNCHANGED <<addedAt, server, clock, app, local, lastPulledSchemaVersion, resets, faults>>

(* setLastPulledSchemaVersion(), a transaction of its own. *)
SaveSchemaVersion ==
    /\ In("noting")
    /\ lastPulledSchemaVersion' = app.version
    /\ sync' = Idle
    /\ UNCHANGED <<addedAt, server, clock, app, local, lastPulledAt, resets, faults>>

-----------------------------------------------------------------------------
Fault == faults < MaxFaults /\ faults' = faults + 1

(* A call to the server or to the adapter rejects. *)
Fail ==
    /\ Fault
    /\ ~In("idle")
    /\ sync' = Idle
    /\ UNCHANGED <<addedAt, server, clock, app, local, marks, resets>>

(* unsafeResetDatabase() is called in a writer: not while changes are applied. *)
Reset ==
    /\ resets < MaxResets /\ resets' = resets + 1
    /\ sync.phase \in {"idle", "pulling", "pulled"}
    /\ local' = Empty
    /\ lastPulledAt' = 0
    /\ lastPulledSchemaVersion' = 0
    /\ sync' = IF In("idle") THEN sync ELSE [sync EXCEPT !.same = FALSE]
    /\ UNCHANGED <<addedAt, server, clock, app, faults>>

(* Mutant: an older app keeps the database of a newer one. *)
MigratesAlways(from, next) == from = next.version \/ next.migrations

(* The database is migrated, or else erased with all that is in local storage. *)
Migrates(from, next) == from = next.version \/ (from < next.version /\ next.migrations)

(* The app is killed, perhaps replaced by another release, and started: the columns
   a migration adds have their defaults.                                     *)
Launch(next) ==
    /\ Fault
    /\ app' = next
    /\ sync' = Idle
    /\ IF Migrates(app.version, next)
       THEN UNCHANGED <<local, marks>>
       ELSE local' = Empty /\ lastPulledAt' = 0 /\ lastPulledSchemaVersion' = 0
    /\ UNCHANGED <<addedAt, server, clock, resets>>

synchronize ==
    \/ Start \/ Pull \/ BeginApply \/ ApplyBatch \/ SaveLastPulledAt \/ SaveSchemaVersion

Next ==
    \/ \E t \in Table, c \in Column : Write(t, c)
    \/ synchronize \/ Fail
    \/ Reset
    \/ \E next \in Apps : Launch(next)

Spec == Init /\ [][Next]_vars

(* The application synchronizes again and again; whatever synchronize() awaits
   goes on.                                                                  *)
FairSpec == Spec /\ WF_vars(synchronize)

-----------------------------------------------------------------------------
TypeOK ==
    /\ addedAt \in [Table -> [Column -> Versions]]
    /\ server \in [Table -> Record] /\ local \in [Table -> Record]
    /\ clock \in Time
    /\ app \in Apps
    /\ lastPulledAt \in 0..clock
    /\ lastPulledSchemaVersion \in 0..MaxVersion
    /\ sync \in [phase : {"idle", "pulling", "pulled", "applying", "saving", "noting"},
                 lastPulledAt : 0..clock,
                 migration : [tables : SUBSET Table, columns : SUBSET (Table \X Column)],
                 saves : BOOLEAN, changed : SUBSET Table, records : [Table -> Record],
                 timestamp : 0..clock, left : SUBSET Table, same : BOOLEAN]
    /\ resets \in 0..MaxResets
    /\ faults \in 0..MaxFaults

(* The version from which a migration sync of this or a later release starts. *)
SyncedVersion ==
    IF lastPulledSchemaVersion # 0 THEN lastPulledSchemaVersion
    ELSE IF app.enabledAt # 0 THEN app.enabledAt ELSE 1

(* What the server wrote before lastPulledAt it never sends again, but to a
   migration sync: whatever column the database has is up to that time, or newer
   than the version such a sync starts from.                                  *)
NothingSkipped ==
    lastPulledAt # 0 =>
        \A t \in Table, c \in Column :
            Has(app.version, t, c) /\ server[t][c] <= lastPulledAt =>
                local[t][c] = server[t][c] \/ addedAt[t][c] > SyncedVersion

(* The version noted is never ahead of the schema: it would be a "programmer
   error" that makes each later synchronization fail.                         *)
NeverAhead == lastPulledSchemaVersion <= app.version

Consistent ==
    \A t \in Table, c \in Column : Has(app.version, t, c) => local[t][c] = server[t][c]

(* When changes and faults come to rest and the release that is left takes part in
   migration syncs, its database comes to have all that its schema has room for. *)
EventuallyConsistent == <>[](app.enabledAt # 0) => <>[]Consistent
=============================================================================
