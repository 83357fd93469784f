-------------------------- MODULE MigrationSyncProofs --------------------------
(* Proofs about MigrationSync, for every schema and every sequence of releases. *)
EXTENDS MigrationSync, TLAPS

(* Migration syncs are enabled from the first release on, or not at all: with a later
   version, NothingSkipped does not hold (MCMigrationSyncUnnoted.cfg).        *)
SinceFirstRelease == EnabledAt \subseteq {0, 1}

-----------------------------------------------------------------------------
(* The inductive invariant. *)

(* No database and no answer is ahead of the server, whose values only grow. *)
NothingIsNewer ==
    \A t \in Table, c \in Column :
        /\ server[t][c] <= clock
        /\ local[t][c] <= server[t][c]
        /\ sync.phase \in {"pulled", "applying", "saving"} =>
             sync.records[t][c] <= server[t][c]

StampsOrdered ==
    /\ clock >= 1
    /\ sync.phase \in {"applying", "saving"} => sync.same /\ sync.lastPulledAt = lastPulledAt
    /\ sync.phase \in {"pulled", "applying", "saving"} =>
         sync.lastPulledAt <= sync.timestamp /\ sync.timestamp >= 1
    /\ sync.phase \in {"pulling", "pulled"} /\ sync.same => sync.lastPulledAt = lastPulledAt

(* What is asked for is what the marks and the schema still call for. *)
MigrationIsCurrent ==
    sync.phase \in {"pulling", "pulled", "applying", "saving"} /\ sync.same =>
        /\ sync.migration = IF shouldMigrate THEN getSyncChanges(migrateFrom, app.version)
                            ELSE NoMigration
        /\ sync.saves <=> shouldMigrate \/ lastPulledAt = 0

(* The answer, as long as the server does not go on. *)
AnswerIsExact ==
    sync.phase \in {"pulled", "applying", "saving"} =>
        \A t \in Table, c \in Column :
            server[t][c] <= sync.timestamp =>
                /\ Has(app.version, t, c) => sync.records[t][c] = server[t][c]
                /\ t \notin sync.changed =>
                     /\ server[t][c] <= sync.lastPulledAt
                     /\ t \notin sync.migration.tables
                     /\ <<t, c>> \in sync.migration.columns => server[t][c] = 0

(* The database has these columns of the table as they were at this time. *)
Holds(t, time) ==
    \A c \in Column :
        Has(app.version, t, c) /\ server[t][c] <= time => local[t][c] = server[t][c]

AppliedIsHeld ==
    /\ sync.phase = "applying" =>
         sync.left \subseteq sync.changed
         /\ \A t \in sync.changed \ sync.left : Holds(t, sync.timestamp)
    /\ sync.phase = "saving" => \A t \in sync.changed : Holds(t, sync.timestamp)
    /\ sync.phase = "noting" => \A t \in Table : Holds(t, lastPulledAt)

MigrationInv ==
    /\ TypeOK /\ NothingIsNewer /\ StampsOrdered /\ MigrationIsCurrent /\ AnswerIsExact
    /\ AppliedIsHeld /\ NeverAhead /\ NothingSkipped

-----------------------------------------------------------------------------
(* What the operators return. *)

Migrations == [tables : SUBSET Table, columns : SUBSET (Table \X Column)]
Phases     == {"idle", "pulling", "pulled", "applying", "saving", "noting"}

Progress(stamps) == [phase : Phases, lastPulledAt : stamps, migration : Migrations,
                     saves : BOOLEAN, changed : SUBSET Table, records : [Table -> Record],
                     timestamp : stamps, left : SUBSET Table, same : BOOLEAN]

LEMMA DefaultTypes ==
    /\ 0 \in Time /\ 1 \in Time /\ Default \in Record /\ Empty \in [Table -> Record]
    /\ NoMigration \in Migrations
BY MigrationSyncAssumption DEF Default, Record, Time, Empty, NoMigration, Migrations

LEMMA PhaseTypes ==
    {"idle", "pulling", "pulled", "applying", "saving", "noting"} \subseteq Phases
BY DEF Phases

LEMMA IdleType ==
    ASSUME clock \in Nat
    PROVE  Idle \in Progress(0..clock)
BY DefaultTypes, PhaseTypes DEF Idle, Progress

(* The changes that steps make to the progress of the call. *)
LEMMA ProgressMade ==
    ASSUME NEW stamps, NEW x \in Progress(stamps), NEW phase \in Phases
    PROVE  /\ [x EXCEPT !.phase = phase] \in Progress(stamps)
           /\ \A t \in stamps, migration \in Migrations, saves \in BOOLEAN :
                [x EXCEPT !.phase = phase, !.lastPulledAt = t, !.migration = migration,
                          !.saves = saves] \in Progress(stamps)
           /\ \A t \in stamps, changed \in SUBSET Table, records \in [Table -> Record] :
                [x EXCEPT !.phase = phase, !.changed = changed, !.records = records,
                          !.timestamp = t] \in Progress(stamps)
           /\ \A left \in SUBSET Table :
                /\ [x EXCEPT !.phase = phase, !.left = left] \in Progress(stamps)
                /\ [x EXCEPT !.left = left, !.phase = phase] \in Progress(stamps)
           /\ [x EXCEPT !.same = FALSE] \in Progress(stamps)
BY DEF Progress

LEMMA SanitizedType ==
    ASSUME NEW record \in Record, NEW t, NEW version
    PROVE  Sanitized(record, t, version) \in Record
BY DefaultTypes DEF Sanitized, Record

LEMMA SyncChangesType ==
    ASSUME NEW from, NEW to
    PROVE  getSyncChanges(from, to) \in Migrations
BY DEF getSyncChanges, Migrations

(* Type correctness, with the progress of the call under its name. *)
LEMMA TypeIs ==
    TypeOK <=>
      /\ addedAt \in [Table -> [Column -> Versions]]
      /\ server \in [Table -> Record] /\ local \in [Table -> Record]
      /\ clock \in Time
      /\ app \in Apps
      /\ lastPulledAt \in 0..clock
      /\ lastPulledSchemaVersion \in 0..MaxVersion
      /\ sync \in Progress(0..clock)
      /\ resets \in 0..MaxResets
      /\ faults \in 0..MaxFaults
BY DEF TypeOK, Progress, Phases, Migrations

LEMMA InitialType == Init => TypeOK
<1> SUFFICES ASSUME Init PROVE TypeOK
  OBVIOUS
<1>1. clock \in Time /\ clock \in Nat /\ 0 \in 0..clock /\ 1 \in 0..clock
  BY DefaultTypes DEF Init
<1>2. server \in [Table -> Record]
  BY DefaultTypes DEF Init, Record, Default
<1>3. local \in [Table -> Record]
  BY <1>2, DefaultTypes, SanitizedType DEF Init
<1>4. sync \in Progress(0..clock)
  BY <1>1, IdleType DEF Init
<1>5. 0 \in 0..MaxVersion /\ 0 \in 0..MaxResets /\ 0 \in 0..MaxFaults
  BY MigrationSyncAssumption
<1> QED
  BY <1>1, <1>2, <1>3, <1>4, <1>5, TypeIs DEF Init

LEMMA TypeStep ==
    ASSUME TypeOK, [Next]_vars
    PROVE  TypeOK'
<1> USE MigrationSyncAssumption
<1>1. /\ clock \in Nat /\ clock \in Time /\ clock \in 0..clock /\ 0 \in 0..clock
      /\ sync \in Progress(0..clock) /\ Idle \in Progress(0..clock)
      /\ server \in [Table -> Record] /\ local \in [Table -> Record]
      /\ app \in Apps /\ app.version \in Versions /\ lastPulledAt \in 0..clock
  BY TypeIs, IdleType DEF Time, Apps
<1>2. ASSUME NEW t \in Table, NEW c \in Column, Write(t, c) PROVE TypeOK'
  <2>1. clock' \in Time /\ 0..clock \subseteq 0..clock'
    BY <1>1, <1>2 DEF Write, Time
  <2>2. server' \in [Table -> Record]
    <3>1. [server[t] EXCEPT ![c] = clock'] \in Record
      BY <1>1, <2>1 DEF Record
    <3> QED
      BY <1>1, <1>2, <3>1 DEF Write
  <2>3. Progress(0..clock) \subseteq Progress(0..clock')
    BY <2>1 DEF Progress
  <2> QED
    BY <1>1, <1>2, <2>1, <2>2, <2>3 DEF Write, marks, TypeOK, Progress, Phases, Migrations
<1>3. CASE Start
  <2>1. sync' \in Progress(0..clock)
    <3>1. (IF shouldMigrate THEN getSyncChanges(migrateFrom, app.version) ELSE NoMigration)
            \in Migrations
      BY SyncChangesType, DefaultTypes
    <3>2. (shouldMigrate \/ lastPulledAt = 0) \in BOOLEAN
      OBVIOUS
    <3> QED
      BY <1>1, <1>3, <3>1, <3>2, ProgressMade, PhaseTypes DEF Start
  <2> QED
    BY <1>3, <2>1 DEF Start, marks, TypeOK, Progress, Phases, Migrations
<1>4. CASE Pull
  <2>1. [t \in Table |-> Sanitized(server[t], t, app.version)] \in [Table -> Record]
    BY <1>1, SanitizedType
  <2>2. sync' \in Progress(0..clock)
    BY <1>1, <1>4, <2>1, ProgressMade, PhaseTypes DEF Pull
  <2> QED
    BY <1>4, <2>2 DEF Pull, marks, TypeOK, Progress, Phases, Migrations
<1>5. CASE BeginApply
  <2>1. sync.changed \in SUBSET Table
    BY <1>1 DEF Progress
  <2>2. sync' \in Progress(0..clock)
    BY <1>1, <1>5, <2>1, ProgressMade, PhaseTypes DEF BeginApply
  <2> QED
    BY <1>5, <2>2 DEF BeginApply, marks, TypeOK, Progress, Phases, Migrations
<1>6. CASE ApplyBatch
  <2>1. PICK tables \in SUBSET sync.left :
           /\ local' = [t \in Table |-> IF t \in tables THEN sync.records[t] ELSE local[t]]
           /\ sync' = [sync EXCEPT !.left = @ \ tables,
                                   !.phase = IF tables = sync.left THEN "saving" ELSE @]
    BY <1>6 DEF ApplyBatch
  <2>2. sync.left \ tables \in SUBSET Table /\ sync.records \in [Table -> Record] /\ sync.phase \in Phases
    BY <1>1 DEF Progress
  <2>3. (IF tables = sync.left THEN "saving" ELSE sync.phase) \in Phases
    BY <2>2, PhaseTypes
  <2>4. sync' \in Progress(0..clock)
    BY <1>1, <2>1, <2>2, <2>3, ProgressMade
  <2>5. local' \in [Table -> Record]
    BY <1>1, <2>1, <2>2
  <2> QED
    BY <1>6, <2>4, <2>5 DEF ApplyBatch, marks, TypeOK, Progress, Phases, Migrations
<1>7. CASE SaveLastPulledAt
  <2>1. sync.timestamp \in 0..clock
    BY <1>1 DEF Progress
  <2>2. sync' \in Progress(0..clock)
    BY <1>1, <1>7, ProgressMade, PhaseTypes DEF SaveLastPulledAt
  <2> QED
    BY <1>7, <2>1, <2>2 DEF SaveLastPulledAt, marks, TypeOK, Progress, Phases, Migrations
<1>8. CASE SaveSchemaVersion
  <2>1. app.version \in 0..MaxVersion
    BY <1>1 DEF Versions
  <2> QED
    BY <1>1, <1>8, <2>1 DEF SaveSchemaVersion, marks, TypeOK, Progress, Phases, Migrations
<1>9. CASE Fail
  <2>1. faults' \in 0..MaxFaults
    BY <1>9, TypeIs DEF Fail, Fault
  <2> QED
    BY <1>1, <1>9, <2>1 DEF Fail, marks, TypeOK, Progress, Phases, Migrations
<1>10. CASE Reset
  <2>1. resets' \in 0..MaxResets
    BY <1>10, TypeIs DEF Reset
  <2>2. sync' \in Progress(0..clock)
    <3>1. [sync EXCEPT !.same = FALSE] \in Progress(0..clock)
      BY <1>1, ProgressMade, PhaseTypes
    <3> QED
      BY <1>1, <1>10, <3>1 DEF Reset
  <2>3. /\ local' \in [Table -> Record] /\ lastPulledAt' \in 0..clock
        /\ lastPulledSchemaVersion' \in 0..MaxVersion
    BY <1>1, <1>10, DefaultTypes DEF Reset
  <2> QED
    BY <1>1, <1>10, <2>1, <2>2, <2>3 DEF Reset, TypeOK, Progress, Phases, Migrations
<1>11. ASSUME NEW next \in Apps, Launch(next) PROVE TypeOK'
  <2>1. faults' \in 0..MaxFaults
    BY <1>11, TypeIs DEF Launch, Fault
  <2>2. /\ local' \in [Table -> Record] /\ lastPulledAt' \in 0..clock
        /\ lastPulledSchemaVersion' \in 0..MaxVersion
    BY <1>1, <1>11, DefaultTypes, TypeIs DEF Launch, marks
  <2> QED
    BY <1>1, <1>11, <2>1, <2>2 DEF Launch, TypeOK, Progress, Phases, Migrations
<1>12. CASE UNCHANGED vars
  BY <1>12 DEF vars, marks, TypeOK, Progress, Phases, Migrations
<1> QED
  BY <1>2, <1>3, <1>4, <1>5, <1>6, <1>7, <1>8, <1>9, <1>10, <1>11, <1>12 DEF Next, synchronize

(* Type correctness: the marks are times and versions there were, and an answer has
   records of the schema, whatever is released, reset or fails.               *)
THEOREM TypeCorrect == Spec => []TypeOK
<1>1. Init => TypeOK
  BY InitialType
<1>2. TypeOK /\ [Next]_vars => TypeOK'
  BY TypeStep
<1> QED
  BY <1>1, <1>2, PTL DEF Spec

(* No app that was released can find a mark that is ahead of its schema. *)
THEOREM MarkIsNeverAhead == Spec => []NeverAhead
<1>1. Init => NeverAhead
  BY DEF Init, NeverAhead, Apps, Versions
<1>2. TypeOK /\ NeverAhead /\ [Next]_vars => NeverAhead'
  <2> SUFFICES ASSUME TypeOK, NeverAhead, [Next]_vars PROVE NeverAhead'
    OBVIOUS
  <2>1. /\ app.version \in Nat /\ app.version >= 1 /\ lastPulledSchemaVersion \in Nat
        /\ \A a \in Apps : a.version \in Nat /\ a.version >= 1
    BY DEF TypeOK, Apps, Versions
  <2>2. CASE SaveSchemaVersion
    BY <2>1, <2>2 DEF SaveSchemaVersion, NeverAhead
  <2>3. CASE Reset
    BY <2>1, <2>3 DEF Reset, NeverAhead
  <2>4. ASSUME NEW next \in Apps, Launch(next) PROVE NeverAhead'
    BY <2>1, <2>4 DEF Launch, NeverAhead, Migrates, marks
  <2>5. CASE UNCHANGED <<app, lastPulledSchemaVersion>>
    BY <2>5 DEF NeverAhead
  <2> QED
    BY <2>2, <2>3, <2>4, <2>5 DEF Next, synchronize, Write, Start, Pull, BeginApply,
      ApplyBatch, SaveLastPulledAt, Fail, vars, marks
<1> QED
  BY <1>1, <1>2, TypeCorrect, PTL DEF Spec

-----------------------------------------------------------------------------
(* The steps preserve the inductive invariant. *)

(* What the types say of single values. *)
LEMMA Values ==
    ASSUME TypeOK
    PROVE  /\ \A t \in Table, c \in Column :
                /\ server[t][c] \in Nat /\ local[t][c] \in Nat /\ sync.records[t][c] \in Nat
                /\ addedAt[t][c] \in Nat /\ addedAt[t][c] \in Versions
           /\ clock \in Nat
           /\ lastPulledAt \in Nat /\ lastPulledAt <= clock
           /\ sync.lastPulledAt \in Nat /\ sync.lastPulledAt <= clock
           /\ sync.timestamp \in Nat /\ sync.timestamp <= clock
           /\ app.version \in Nat /\ app.version >= 1
           /\ lastPulledSchemaVersion \in Nat
<1> USE MigrationSyncAssumption
<1>1. clock \in Nat
  BY DEF TypeOK, Time
<1>2. sync.records \in [Table -> Record]
  BY DEF TypeOK
<1>3. ASSUME NEW t \in Table, NEW c \in Column
      PROVE  /\ server[t][c] \in Nat /\ local[t][c] \in Nat /\ sync.records[t][c] \in Nat
             /\ addedAt[t][c] \in Nat /\ addedAt[t][c] \in Versions
  BY <1>2 DEF TypeOK, Record, Time, Versions
<1>4. lastPulledAt \in 0..clock /\ sync.lastPulledAt \in 0..clock /\ sync.timestamp \in 0..clock
  BY DEF TypeOK
<1>5. app.version \in Versions
  BY DEF TypeOK, Apps
<1>6. lastPulledSchemaVersion \in Nat
  BY DEF TypeOK
<1> QED
  BY <1>1, <1>3, <1>4, <1>5, <1>6 DEF Versions

LEMMA InitialInv == Init => MigrationInv
<1> SUFFICES ASSUME Init PROVE MigrationInv
  OBVIOUS
<1>1. TypeOK
  BY InitialType
<1>2. sync.phase = "idle"
  BY DEF Init, Idle
<1>3. ASSUME NEW t \in Table, NEW c \in Column
      PROVE  /\ server[t][c] <= clock /\ local[t][c] <= server[t][c]
             /\ lastPulledAt # 0 /\ Has(app.version, t, c) => local[t][c] = server[t][c]
  <2>1. server[t][c] \in {0, 1}
    BY DEF Init, Default
  <2>2. CASE lastPulledAt = 0 /\ local = Empty
    BY <2>1, <2>2 DEF Init, Empty, Default
  <2>3. CASE /\ lastPulledAt = 1
             /\ local = [u \in Table |-> Sanitized(server[u], u, app.version)]
    <3>1. local[t][c] = IF Has(app.version, t, c) THEN server[t][c] ELSE 0
      BY <2>3 DEF Sanitized
    <3> QED
      BY <2>1, <3>1 DEF Init
  <2> QED
    BY <2>2, <2>3 DEF Init
<1>4. NothingIsNewer /\ NothingSkipped
  BY <1>2, <1>3 DEF NothingIsNewer, NothingSkipped
<1>5. StampsOrdered /\ MigrationIsCurrent /\ AnswerIsExact /\ AppliedIsHeld
  BY <1>2 DEF Init, StampsOrdered, MigrationIsCurrent, AnswerIsExact, AppliedIsHeld
<1>6. NeverAhead
  BY DEF Init, NeverAhead, Apps, Versions
<1> QED
  BY <1>1, <1>4, <1>5, <1>6 DEF MigrationInv

(* Where nothing of the call is left, the invariant speaks of the database only. *)
LEMMA IdleKeeps ==
    ASSUME sync'.phase = "idle", NothingSkipped', NeverAhead', TypeOK', clock' >= 1,
           \A t \in Table, c \in Column :
             server'[t][c] <= clock' /\ local'[t][c] <= server'[t][c]
    PROVE  MigrationInv'
BY DEF MigrationInv, NothingIsNewer, StampsOrdered, MigrationIsCurrent, AnswerIsExact,
       AppliedIsHeld

(* A value written is newer than all that was pulled. *)
LEMMA WriteKeeps ==
    ASSUME MigrationInv, TypeOK', NEW t0 \in Table, NEW c0 \in Column, Write(t0, c0)
    PROVE  MigrationInv'
<1>1. TypeOK
  BY DEF MigrationInv
<1>2. /\ clock' = clock + 1 /\ addedAt' = addedAt /\ app' = app /\ local' = local
      /\ lastPulledAt' = lastPulledAt
      /\ lastPulledSchemaVersion' = lastPulledSchemaVersion /\ sync' = sync
  BY DEF Write, marks
<1>3. \A t \in Table, c \in Column :
         server'[t][c] = server[t][c] \/ server'[t][c] = clock + 1
  <2>1. server \in [Table -> [Column -> Time]]
    BY <1>1 DEF TypeOK, Record
  <2> QED
    BY <1>2, <2>1 DEF Write
<1>4. NothingIsNewer'
  BY <1>1, <1>2, <1>3, Values DEF MigrationInv, NothingIsNewer
<1>5. StampsOrdered'
  BY <1>1, <1>2, Values DEF MigrationInv, StampsOrdered
<1>6. MigrationIsCurrent'
  BY <1>2 DEF MigrationInv, MigrationIsCurrent, shouldMigrate, migrateFrom, getSyncChanges,
     stepsForMigration, IsCreated
<1>7. \A t \in Table, c \in Column :
         server'[t][c] <= clock => server'[t][c] = server[t][c]
  BY <1>1, <1>3, Values
<1>8. AnswerIsExact'
  <2> SUFFICES ASSUME sync.phase \in {"pulled", "applying", "saving"},
                      NEW t \in Table, NEW c \in Column, server'[t][c] <= sync.timestamp
               PROVE  /\ Has(app.version, t, c) => sync.records[t][c] = server'[t][c]
                      /\ t \notin sync.changed =>
                           /\ server'[t][c] <= sync.lastPulledAt
                           /\ t \notin sync.migration.tables
                           /\ <<t, c>> \in sync.migration.columns => server'[t][c] = 0
    BY <1>2 DEF AnswerIsExact, Has
  <2>1. server'[t][c] = server[t][c]
    BY <1>1, <1>3, Values
  <2> QED
    BY <2>1 DEF MigrationInv, AnswerIsExact
<1>9. ASSUME NEW t \in Table, NEW time \in Nat, time <= clock, Holds(t, time)
      PROVE  Holds(t, time)'
  BY <1>1, <1>2, <1>3, <1>9, Values DEF Holds, Has
<1>10. AppliedIsHeld'
  <2>1. /\ sync.timestamp \in Nat /\ sync.timestamp <= clock
        /\ lastPulledAt \in Nat /\ lastPulledAt <= clock /\ sync.changed \subseteq Table
    BY <1>1, Values DEF TypeOK
  <2>2. ASSUME sync.phase = "applying"
        PROVE  /\ sync.left \subseteq sync.changed
               /\ \A t \in sync.changed \ sync.left : Holds(t, sync.timestamp)'
    BY <1>2, <1>9, <2>1, <2>2 DEF MigrationInv, AppliedIsHeld
  <2>3. ASSUME sync.phase = "saving"
        PROVE  \A t \in sync.changed : Holds(t, sync.timestamp)'
    BY <1>2, <1>9, <2>1, <2>3 DEF MigrationInv, AppliedIsHeld
  <2>4. ASSUME sync.phase = "noting"
        PROVE  \A t \in Table : Holds(t, lastPulledAt)'
    BY <1>2, <1>9, <2>1, <2>4 DEF MigrationInv, AppliedIsHeld
  <2> QED
    BY <1>2, <2>2, <2>3, <2>4 DEF AppliedIsHeld
<1>11. NeverAhead'
  BY <1>2 DEF MigrationInv, NeverAhead
<1>12. NothingSkipped'
  BY <1>1, <1>2, <1>3, Values DEF MigrationInv, NothingSkipped, SyncedVersion, Has
<1> QED
  BY <1>4, <1>5, <1>6, <1>8, <1>10, <1>11, <1>12 DEF MigrationInv

(* What the steps of a call leave alone keeps the database's part of the invariant. *)
LEMMA StartKeeps ==
    ASSUME MigrationInv, TypeOK', Start
    PROVE  MigrationInv'
<1>1. /\ clock' = clock /\ server' = server /\ addedAt' = addedAt /\ app' = app
      /\ local' = local /\ lastPulledAt' = lastPulledAt
      /\ lastPulledSchemaVersion' = lastPulledSchemaVersion
  BY DEF Start, marks
<1>2. /\ sync'.phase = "pulling" /\ sync'.lastPulledAt = lastPulledAt /\ sync'.same
      /\ sync'.migration = IF shouldMigrate THEN getSyncChanges(migrateFrom, app.version)
                           ELSE NoMigration
      /\ sync'.saves = (shouldMigrate \/ lastPulledAt = 0)
  BY DEF Start, Idle
<1>3. NothingIsNewer' /\ StampsOrdered' /\ AnswerIsExact' /\ AppliedIsHeld'
  BY <1>1, <1>2 DEF MigrationInv, NothingIsNewer, StampsOrdered, AnswerIsExact, AppliedIsHeld
<1>4. MigrationIsCurrent'
  BY <1>1, <1>2 DEF MigrationIsCurrent, shouldMigrate, migrateFrom, getSyncChanges,
     stepsForMigration, IsCreated
<1>5. NeverAhead' /\ NothingSkipped'
  BY <1>1 DEF MigrationInv, NeverAhead, NothingSkipped, SyncedVersion, Has
<1> QED
  BY <1>3, <1>4, <1>5 DEF MigrationInv

LEMMA PullKeeps ==
    ASSUME MigrationInv, TypeOK', Pull
    PROVE  MigrationInv'
<1>1. /\ clock' = clock /\ server' = server /\ addedAt' = addedAt /\ app' = app
      /\ local' = local /\ lastPulledAt' = lastPulledAt
      /\ lastPulledSchemaVersion' = lastPulledSchemaVersion
  BY DEF Pull, marks
<1>2. TypeOK /\ sync \in Progress(0..clock)
  BY TypeIs DEF MigrationInv
<1>3. /\ sync.phase = "pulling" /\ sync'.phase = "pulled"
      /\ sync'.changed = {t \in Table : IsServed(t, sync.lastPulledAt, sync.migration)}
      /\ sync'.records = [t \in Table |-> Sanitized(server[t], t, app.version)]
      /\ sync'.timestamp = clock /\ sync'.same = sync.same
      /\ sync'.lastPulledAt = sync.lastPulledAt /\ sync'.migration = sync.migration
      /\ sync'.saves = sync.saves
  BY <1>2 DEF Pull, In, Progress
<1>4. \A t \in Table, c \in Column :
         sync'.records[t][c] = IF Has(app.version, t, c) THEN server[t][c] ELSE 0
  BY <1>3 DEF Sanitized
<1>5. NothingIsNewer'
  BY <1>1, <1>2, <1>3, <1>4, Values DEF MigrationInv, NothingIsNewer
<1>6. StampsOrdered'
  BY <1>1, <1>2, <1>3, Values DEF MigrationInv, StampsOrdered
<1>7. MigrationIsCurrent'
  BY <1>1, <1>3 DEF MigrationInv, MigrationIsCurrent, shouldMigrate, migrateFrom,
     getSyncChanges, stepsForMigration, IsCreated
<1>8. AnswerIsExact'
  <2> SUFFICES ASSUME NEW t \in Table, NEW c \in Column
               PROVE  /\ Has(app.version, t, c) => sync'.records[t][c] = server[t][c]
                      /\ t \notin sync'.changed =>
                           /\ server[t][c] <= sync.lastPulledAt
                           /\ t \notin sync.migration.tables
                           /\ <<t, c>> \in sync.migration.columns => server[t][c] = 0
    BY <1>1, <1>3 DEF AnswerIsExact, Has
  <2>1. Has(app.version, t, c) => sync'.records[t][c] = server[t][c]
    BY <1>4
  <2>2. server[t][c] \in Nat /\ sync.lastPulledAt \in Nat
    BY <1>2, Values
  <2>3. ASSUME t \notin sync'.changed
        PROVE  /\ server[t][c] <= sync.lastPulledAt
               /\ t \notin sync.migration.tables
               /\ <<t, c>> \in sync.migration.columns => server[t][c] = 0
    <3>1. ~IsServed(t, sync.lastPulledAt, sync.migration)
      BY <1>3, <2>3
    <3>2. ~(server[t][c] > sync.lastPulledAt)
      BY <3>1 DEF IsServed
    <3> QED
      BY <2>2, <3>1, <3>2 DEF IsServed
  <2> QED
    BY <2>1, <2>3
<1>9. AppliedIsHeld'
  BY <1>3 DEF AppliedIsHeld
<1>10. NeverAhead' /\ NothingSkipped'
  BY <1>1 DEF MigrationInv, NeverAhead, NothingSkipped, SyncedVersion, Has
<1> QED
  BY <1>5, <1>6, <1>7, <1>8, <1>9, <1>10 DEF MigrationInv

LEMMA BeginApplyKeeps ==
    ASSUME MigrationInv, TypeOK', BeginApply
    PROVE  MigrationInv'
<1>1. /\ clock' = clock /\ server' = server /\ addedAt' = addedAt /\ app' = app
      /\ local' = local /\ lastPulledAt' = lastPulledAt
      /\ lastPulledSchemaVersion' = lastPulledSchemaVersion
  BY DEF BeginApply, marks
<1>2. TypeOK /\ sync \in Progress(0..clock)
  BY TypeIs DEF MigrationInv
<1>3. NeverAhead' /\ NothingSkipped'
  BY <1>1 DEF MigrationInv, NeverAhead, NothingSkipped, SyncedVersion, Has
<1>4. CASE sync' = Idle
  <2>1. sync'.phase = "idle"
    BY <1>4 DEF Idle
  <2> QED
    BY <1>1, <1>3, <2>1, IdleKeeps DEF MigrationInv, NothingIsNewer, StampsOrdered
<1>5. CASE /\ sync.same /\ sync.lastPulledAt = lastPulledAt
           /\ sync' = [sync EXCEPT !.phase = "applying", !.left = sync.changed]
  <2>1. /\ sync.phase = "pulled" /\ sync'.phase = "applying" /\ sync'.left = sync.changed
        /\ sync'.changed = sync.changed /\ sync'.records = sync.records
        /\ sync'.timestamp = sync.timestamp /\ sync'.same = sync.same
        /\ sync'.lastPulledAt = sync.lastPulledAt /\ sync'.migration = sync.migration
        /\ sync'.saves = sync.saves
    BY <1>2, <1>5 DEF BeginApply, In, Progress
  <2>2. NothingIsNewer' /\ StampsOrdered' /\ AppliedIsHeld'
    BY <1>1, <1>5, <2>1 DEF MigrationInv, NothingIsNewer, StampsOrdered, AppliedIsHeld
  <2>3. MigrationIsCurrent'
    BY <1>1, <2>1 DEF MigrationInv, MigrationIsCurrent, shouldMigrate, migrateFrom,
       getSyncChanges, stepsForMigration, IsCreated
  <2>4. AnswerIsExact'
    BY <1>1, <2>1 DEF MigrationInv, AnswerIsExact, Has
  <2> QED
    BY <1>3, <2>2, <2>3, <2>4 DEF MigrationInv
<1> QED
  BY <1>4, <1>5 DEF BeginApply

(* A batch brings its tables to the time of the answer, which is no earlier than the
   last one.                                                                 *)
LEMMA ApplyBatchKeeps ==
    ASSUME MigrationInv, TypeOK', ApplyBatch
    PROVE  MigrationInv'
<1>1. /\ clock' = clock /\ server' = server /\ addedAt' = addedAt /\ app' = app
      /\ lastPulledAt' = lastPulledAt
      /\ lastPulledSchemaVersion' = lastPulledSchemaVersion /\ sync.phase = "applying"
  BY DEF ApplyBatch, marks, In
<1>2. TypeOK /\ sync \in Progress(0..clock)
  BY TypeIs DEF MigrationInv
<1>3. PICK tables \in SUBSET sync.left :
         /\ local' = [t \in Table |-> IF t \in tables THEN sync.records[t] ELSE local[t]]
         /\ sync' = [sync EXCEPT !.left = @ \ tables,
                                 !.phase = IF tables = sync.left THEN "saving" ELSE @]
  BY DEF ApplyBatch
<1>4. /\ sync'.phase = IF tables = sync.left THEN "saving" ELSE "applying"
      /\ sync'.left = sync.left \ tables
      /\ sync'.changed = sync.changed /\ sync'.records = sync.records
      /\ sync'.timestamp = sync.timestamp /\ sync'.same = sync.same
      /\ sync'.lastPulledAt = sync.lastPulledAt /\ sync'.migration = sync.migration
      /\ sync'.saves = sync.saves
  BY <1>1, <1>2, <1>3 DEF Progress
<1>5. sync'.phase \in {"applying", "saving"}
  BY <1>4
<1>6. /\ sync.left \subseteq sync.changed /\ sync.changed \subseteq Table
      /\ \A t \in sync.changed \ sync.left : Holds(t, sync.timestamp)
  BY <1>1, <1>2 DEF MigrationInv, AppliedIsHeld, Progress
<1>7. NothingIsNewer'
  BY <1>1, <1>3, <1>4 DEF MigrationInv, NothingIsNewer
<1>8. StampsOrdered'
  BY <1>1, <1>4, <1>5 DEF MigrationInv, StampsOrdered
<1>9. MigrationIsCurrent'
  BY <1>1, <1>4, <1>5 DEF MigrationInv, MigrationIsCurrent, shouldMigrate, migrateFrom,
     getSyncChanges, stepsForMigration, IsCreated
<1>10. AnswerIsExact'
  BY <1>1, <1>4, <1>5 DEF MigrationInv, AnswerIsExact, Has
<1>11. ASSUME NEW t \in tables, NEW c \in Column,
              Has(app.version, t, c), server[t][c] <= sync.timestamp
       PROVE  local'[t][c] = server[t][c]
  <2>1. t \in Table /\ local'[t] = sync.records[t]
    BY <1>3, <1>6
  <2> QED
    BY <1>1, <1>11, <2>1 DEF MigrationInv, AnswerIsExact
<1>12. ASSUME NEW t \in sync.changed, t \notin sync.left \ tables
       PROVE  Holds(t, sync.timestamp)'
  <2>1. CASE t \in tables
    BY <1>1, <1>4, <1>11, <2>1 DEF Holds, Has
  <2>2. CASE t \notin tables
    <3>1. Holds(t, sync.timestamp) /\ local'[t] = local[t]
      BY <1>3, <1>6, <1>12, <2>2
    <3> QED
      BY <1>1, <1>4, <3>1 DEF Holds, Has
  <2> QED
    BY <2>1, <2>2
<1>13. AppliedIsHeld'
  BY <1>3, <1>4, <1>5, <1>6, <1>12 DEF AppliedIsHeld
<1>14. NothingSkipped'
  <2> SUFFICES ASSUME lastPulledAt # 0, NEW t \in Table, NEW c \in Column,
                      Has(app.version, t, c), server[t][c] <= lastPulledAt
               PROVE  local'[t][c] = server[t][c] \/ addedAt[t][c] > SyncedVersion
    BY <1>1 DEF NothingSkipped, SyncedVersion, Has
  <2>1. CASE t \in tables
    <3>1. lastPulledAt <= sync.timestamp
      BY <1>1 DEF MigrationInv, StampsOrdered
    <3> QED
      BY <1>2, <1>11, <2>1, <3>1, Values
  <2>2. CASE t \notin tables
    BY <1>3, <2>2 DEF MigrationInv, NothingSkipped
  <2> QED
    BY <2>1, <2>2
<1>15. NeverAhead'
  BY <1>1 DEF MigrationInv, NeverAhead
<1> QED
  BY <1>7, <1>8, <1>9, <1>10, <1>13, <1>14, <1>15 DEF MigrationInv

(* Whatever column a migration adds is asked for, by itself or with its table. *)
LEMMA AddedIsAskedFor ==
    ASSUME NEW from, NEW to, NEW t \in Table, NEW c \in Column,
           addedAt[t][c] \in stepsForMigration(from, to),
           t \notin getSyncChanges(from, to).tables
    PROVE  <<t, c>> \in getSyncChanges(from, to).columns
BY DEF getSyncChanges

(* All that the server had at the time of the answer is there: what was not in it was
   there before, unless a column is new, and then it had no value.           *)
LEMMA SaveLastPulledAtKeeps ==
    ASSUME MigrationInv, TypeOK', SaveLastPulledAt
    PROVE  MigrationInv'
<1>1. /\ clock' = clock /\ server' = server /\ addedAt' = addedAt /\ app' = app
      /\ local' = local /\ lastPulledAt' = sync.timestamp
      /\ lastPulledSchemaVersion' = lastPulledSchemaVersion /\ sync.phase = "saving"
      /\ sync' = IF sync.saves THEN [sync EXCEPT !.phase = "noting"] ELSE Idle
  BY DEF SaveLastPulledAt, In
<1>2. TypeOK /\ sync \in Progress(0..clock)
  BY TypeIs DEF MigrationInv
<1>3. /\ sync.same /\ sync.lastPulledAt = lastPulledAt /\ lastPulledAt <= sync.timestamp
      /\ sync.migration = IF shouldMigrate THEN getSyncChanges(migrateFrom, app.version)
                          ELSE NoMigration
      /\ sync.saves <=> shouldMigrate \/ lastPulledAt = 0
      /\ \A t \in sync.changed : Holds(t, sync.timestamp)
  BY <1>1 DEF MigrationInv, StampsOrdered, MigrationIsCurrent, AppliedIsHeld
<1>4. sync'.phase = IF sync.saves THEN "noting" ELSE "idle"
  BY <1>1, <1>2 DEF Progress, Idle
<1>5. ASSUME NEW t \in Table, NEW c \in Column,
             Has(app.version, t, c), server[t][c] <= sync.timestamp
      PROVE  \/ local[t][c] = server[t][c]
             \/ ~sync.saves /\ addedAt[t][c] > SyncedVersion
  <2>1. CASE t \in sync.changed
    BY <1>3, <1>5, <2>1 DEF Holds
  <2>2. CASE t \notin sync.changed
    <3>1. /\ server[t][c] <= lastPulledAt
          /\ t \notin sync.migration.tables
          /\ <<t, c>> \in sync.migration.columns => server[t][c] = 0
          /\ local[t][c] <= server[t][c]
      BY <1>1, <1>3, <1>5, <2>2 DEF MigrationInv, AnswerIsExact, NothingIsNewer
    <3>2. server[t][c] = 0 => local[t][c] = server[t][c]
      BY <1>2, <3>1, Values
    <3>3. CASE lastPulledAt = 0
      BY <1>2, <3>1, <3>2, <3>3, Values
    <3>4. CASE lastPulledAt # 0 /\ local[t][c] # server[t][c]
      <4>1. addedAt[t][c] > SyncedVersion
        BY <1>5, <3>1, <3>4 DEF MigrationInv, NothingSkipped
      <4>2. ASSUME shouldMigrate PROVE FALSE
        <5>1. addedAt[t][c] \in stepsForMigration(migrateFrom, app.version)
          BY <1>2, <1>5, <4>1, <4>2, Values
             DEF stepsForMigration, Has, shouldMigrate, migrateFrom, SyncedVersion
        <5>2. server[t][c] = 0
          BY <1>3, <3>1, <4>2, <5>1, AddedIsAskedFor
        <5> QED
          BY <3>2, <3>4, <5>2
      <4> QED
        BY <1>3, <3>4, <4>1, <4>2
    <3> QED
      BY <3>3, <3>4
  <2> QED
    BY <2>1, <2>2
<1>6. NothingSkipped'
  BY <1>1, <1>5 DEF NothingSkipped, SyncedVersion, Has
<1>7. AppliedIsHeld'
  BY <1>1, <1>4, <1>5 DEF AppliedIsHeld, Holds, Has
<1>8. NothingIsNewer' /\ StampsOrdered' /\ MigrationIsCurrent' /\ AnswerIsExact'
  BY <1>1, <1>4 DEF MigrationInv, NothingIsNewer, StampsOrdered, MigrationIsCurrent,
     AnswerIsExact
<1>9. NeverAhead'
  BY <1>1 DEF MigrationInv, NeverAhead
<1> QED
  BY <1>6, <1>7, <1>8, <1>9 DEF MigrationInv

LEMMA SaveSchemaVersionKeeps ==
    ASSUME MigrationInv, TypeOK', SaveSchemaVersion
    PROVE  MigrationInv'
<1>1. /\ clock' = clock /\ server' = server /\ addedAt' = addedAt /\ app' = app
      /\ local' = local /\ lastPulledAt' = lastPulledAt
      /\ lastPulledSchemaVersion' = app.version /\ sync' = Idle
      /\ \A t \in Table : Holds(t, lastPulledAt)
  BY DEF SaveSchemaVersion, In, MigrationInv, AppliedIsHeld
<1>2. TypeOK
  BY DEF MigrationInv
<1>3. NothingSkipped'
  BY <1>1 DEF NothingSkipped, Holds, Has
<1>4. NeverAhead'
  BY <1>1, <1>2, Values DEF NeverAhead
<1>5. sync'.phase = "idle"
  BY <1>1 DEF Idle
<1> QED
  BY <1>1, <1>3, <1>4, <1>5, IdleKeeps DEF MigrationInv, NothingIsNewer, StampsOrdered

LEMMA FailKeeps ==
    ASSUME MigrationInv, TypeOK', Fail
    PROVE  MigrationInv'
<1>1. /\ clock' = clock /\ server' = server /\ addedAt' = addedAt /\ app' = app
      /\ local' = local /\ lastPulledAt' = lastPulledAt
      /\ lastPulledSchemaVersion' = lastPulledSchemaVersion /\ sync'.phase = "idle"
  BY DEF Fail, marks, Idle
<1>2. NothingSkipped' /\ NeverAhead'
  BY <1>1 DEF MigrationInv, NothingSkipped, NeverAhead, SyncedVersion, Has
<1> QED
  BY <1>1, <1>2, IdleKeeps DEF MigrationInv, NothingIsNewer, StampsOrdered

(* A call that goes on after a reset no longer finds the database it began with. *)
LEMMA ResetKeeps ==
    ASSUME MigrationInv, TypeOK', Reset
    PROVE  MigrationInv'
<1>1. /\ clock' = clock /\ server' = server /\ addedAt' = addedAt /\ app' = app
      /\ local' = Empty /\ lastPulledAt' = 0 /\ lastPulledSchemaVersion' = 0
      /\ sync' = IF sync.phase = "idle" THEN sync ELSE [sync EXCEPT !.same = FALSE]
      /\ sync.phase \in {"idle", "pulling", "pulled"}
  BY DEF Reset, In
<1>2. TypeOK /\ sync \in Progress(0..clock)
  BY TypeIs DEF MigrationInv
<1>3. NothingSkipped' /\ NeverAhead'
  BY <1>1, <1>2, Values DEF NothingSkipped, NeverAhead
<1>4. \A t \in Table, c \in Column : server'[t][c] <= clock' /\ local'[t][c] <= server'[t][c]
  BY <1>1, <1>2, Values DEF MigrationInv, NothingIsNewer, Empty, Default
<1>5. CASE sync.phase = "idle"
  BY <1>1, <1>3, <1>4, <1>5, IdleKeeps DEF MigrationInv, StampsOrdered
<1>6. CASE sync.phase # "idle"
  <2>1. /\ sync'.phase = sync.phase /\ ~sync'.same
        /\ sync'.changed = sync.changed /\ sync'.records = sync.records
        /\ sync'.timestamp = sync.timestamp
        /\ sync'.lastPulledAt = sync.lastPulledAt /\ sync'.migration = sync.migration
    BY <1>1, <1>2, <1>6 DEF Progress
  <2>2. sync.phase \in {"pulling", "pulled"}
    BY <1>1, <1>6
  <2>3. NothingIsNewer'
    BY <1>1, <1>4, <2>1 DEF MigrationInv, NothingIsNewer
  <2>4. StampsOrdered' /\ MigrationIsCurrent' /\ AppliedIsHeld'
    BY <1>1, <2>1, <2>2 DEF MigrationInv, StampsOrdered, MigrationIsCurrent, AppliedIsHeld
  <2>5. AnswerIsExact'
    BY <1>1, <2>1 DEF MigrationInv, AnswerIsExact, Has
  <2> QED
    BY <1>3, <2>3, <2>4, <2>5 DEF MigrationInv
<1> QED
  BY <1>5, <1>6

(* A column that a release adds is newer than what an earlier one noted. *)
LEMMA LaunchKeeps ==
    ASSUME SinceFirstRelease, MigrationInv, TypeOK', NEW next \in Apps, Launch(next)
    PROVE  MigrationInv'
<1>1. /\ clock' = clock /\ server' = server /\ addedAt' = addedAt /\ app' = next
      /\ sync'.phase = "idle"
  BY DEF Launch, Idle
<1>2. TypeOK /\ next.version \in Nat /\ next.version >= 1
  BY DEF MigrationInv, Apps, Versions
<1>3. CASE Migrates(app.version, next)
  <2>1. /\ local' = local /\ lastPulledAt' = lastPulledAt
        /\ lastPulledSchemaVersion' = lastPulledSchemaVersion
    BY <1>3 DEF Launch, marks
  <2>2. NeverAhead'
    BY <1>1, <1>2, <1>3, <2>1, Values DEF MigrationInv, NeverAhead, Migrates
  <2>3. app.enabledAt \in {0, 1} /\ next.enabledAt \in {0, 1}
    BY <1>2 DEF SinceFirstRelease, TypeOK, Apps
  <2>4. /\ SyncedVersion = IF lastPulledSchemaVersion # 0 THEN lastPulledSchemaVersion ELSE 1
        /\ SyncedVersion' = SyncedVersion
    BY <1>1, <2>1, <2>3 DEF SyncedVersion
  <2>5. NothingSkipped'
    <3> SUFFICES ASSUME lastPulledAt # 0, NEW t \in Table, NEW c \in Column,
                        Has(next.version, t, c), server[t][c] <= lastPulledAt
                 PROVE  local[t][c] = server[t][c] \/ addedAt[t][c] > SyncedVersion
      BY <1>1, <2>1, <2>4 DEF NothingSkipped, Has
    <3>1. CASE Has(app.version, t, c)
      BY <3>1 DEF MigrationInv, NothingSkipped
    <3>2. CASE ~Has(app.version, t, c)
      BY <1>2, <2>4, <3>2, Values DEF MigrationInv, NeverAhead, Has
    <3> QED
      BY <3>1, <3>2
  <2> QED
    BY <1>1, <2>1, <2>2, <2>5, IdleKeeps DEF MigrationInv, NothingIsNewer, StampsOrdered
<1>4. CASE ~Migrates(app.version, next)
  <2>1. local' = Empty /\ lastPulledAt' = 0 /\ lastPulledSchemaVersion' = 0
    BY <1>4 DEF Launch
  <2>2. NothingSkipped' /\ NeverAhead'
    BY <1>1, <1>2, <2>1 DEF NothingSkipped, NeverAhead
  <2>3. \A t \in Table, c \in Column :
           server'[t][c] <= clock' /\ local'[t][c] <= server'[t][c]
    BY <1>1, <1>2, <2>1, Values DEF MigrationInv, NothingIsNewer, Empty, Default
  <2> QED
    BY <1>1, <2>2, <2>3, IdleKeeps DEF MigrationInv, StampsOrdered
<1> QED
  BY <1>3, <1>4

LEMMA StutterKeeps ==
    ASSUME MigrationInv, TypeOK', UNCHANGED vars
    PROVE  MigrationInv'
<1>1. /\ clock' = clock /\ server' = server /\ addedAt' = addedAt /\ app' = app
      /\ local' = local /\ lastPulledAt' = lastPulledAt
      /\ lastPulledSchemaVersion' = lastPulledSchemaVersion /\ sync' = sync
  BY DEF vars, marks
<1> QED
  BY <1>1 DEF MigrationInv, NothingIsNewer, StampsOrdered, MigrationIsCurrent, AnswerIsExact,
     AppliedIsHeld, NeverAhead, NothingSkipped, SyncedVersion, Has, Holds, shouldMigrate,
     migrateFrom, getSyncChanges, stepsForMigration, IsCreated

(* If migration syncs are enabled from the first release on or not at all, then what the
   server wrote before lastPulledAt is in the database, or in a column that the next
   migration sync asks for: in any order of releases installed, resets, failures,
   changes by others, and interrupted synchronizations.                      *)
THEOREM NothingIsSkipped ==
    ASSUME SinceFirstRelease
    PROVE  Spec => []NothingSkipped
<1>1. Init => MigrationInv
  BY InitialInv
<1>2. MigrationInv /\ [Next]_vars => MigrationInv'
  <2> SUFFICES ASSUME MigrationInv, [Next]_vars PROVE MigrationInv'
    OBVIOUS
  <2>1. TypeOK'
    BY TypeStep DEF MigrationInv
  <2> QED
    BY <2>1, WriteKeeps, StartKeeps, PullKeeps, BeginApplyKeeps, ApplyBatchKeeps,
       SaveLastPulledAtKeeps, SaveSchemaVersionKeeps, FailKeeps, ResetKeeps, LaunchKeeps,
       StutterKeeps DEF Next, synchronize
<1>3. MigrationInv => NothingSkipped
  BY DEF MigrationInv
<1> QED
  BY <1>1, <1>2, <1>3, PTL DEF Spec
===============================================================================
