------------------------------ MODULE Connection ------------------------------
(* How the SQLite adapter and the asynchronous bridges set a database up, and what
   becomes of the calls made meanwhile.
     src/src/adapters/sqlite/index.js             _init() and its two set-ups
     src/src/adapters/sqlite/sqlite-node/         "node": called synchronously
     src/native/ios/HypertillDB/objc/             "ios"
     src/native/android/src/main/java/com/hypertill/db/   "android"
     src/src/Database/index.js                    unsafeResetDatabase()

   On a device JavaScript and the bridge exchange messages in two queues, each in
   order; the bridge handles one message after another.  Node's bridge is called
   and answers at once: nothing happens in JavaScript while a message is out.
   The process may die at any moment, and the next one may be another version of
   the app.                                                                  *)
EXTENDS Naturals, Sequences, FiniteSets, FiniteSetsExt

CONSTANTS
    Platform,       \* the bridges considered: a subset of {"node", "ios", "android"}
    Debug,          \* values of Android's BuildConfig.DEBUG
    MaxVersion,     \* bound on schema versions
    MaxCalls,       \* bound on the calls of one launch
    MaxLaunches     \* bound on launches

ASSUME ConnectionAssumption ==
    /\ Platform \subseteq {"node", "ios", "android"}
    /\ Debug \subseteq BOOLEAN
    /\ MaxVersion \in Nat \ {0} /\ MaxCalls \in Nat /\ MaxLaunches \in Nat \ {0}

VARIABLES
    platform,
    app,        \* the running version of the app
    launches,   \* launches so far
    disk,       \* the database file
    conn,       \* the bridge's connection
    waiting,    \* calls kept in the connection's queue
    outbox,     \* messages to the bridge
    inbox,      \* answers to JavaScript
    phase,      \* state of the adapter's _initPromise
    database,   \* working; resetting or broken: its adapter is the ErrorAdapter
    held,       \* the collections' caches hold records
    calls,      \* the calls of this launch
    failed,     \* history: some operation failed in this launch
    misread     \* history: the file's version was misread in this launch

native == <<disk, conn, waiting>>
js     == <<phase, database, held, calls>>
world  == <<platform, app, launches, misread>>
vars   == <<platform, app, launches, disk, conn, waiting, outbox, inbox, phase,
            database, held, calls, failed, misread>>

Versions == 1..MaxVersion
Ids      == 1..MaxCalls
Kinds    == {"read", "write", "reset"}

(* An app that passes validateAdapter(): steps are the versions its migrations lead
   to, up to the schema's without gaps; {} when it has none.                 *)
Apps == UNION {[schema : {v}, steps : {m..v : m \in 2..(v + 1)}, debug : Debug]
               : v \in Versions}

(* tables: the versions whose changes the tables have; data: something the user
   has stored.                                                               *)
Files == [version : 0..MaxVersion, tables : SUBSET Versions, data : BOOLEAN]
Empty == [version |-> 0, tables |-> {}, data |-> FALSE]

(* "settle" stands for what is left of a set-up when the waiting calls are run;
   create: the file has been erased, the tables are to be created.           *)
Message(op) == [op |-> op, id |-> 0, ok |-> TRUE, create |-> FALSE]
Answer(id, result) == [id |-> id, result |-> result]
-----------------------------------------------------------------------------
(* Migrations. *)

(* Mutant: minVersion is the first version migrations lead to. *)
MigrationStepsBehindFirst(from) ==
    IF app.steps = {} \/ from < Min(app.steps) \/ app.schema > Max(app.steps)
    THEN {}
    ELSE {v \in app.steps : v > from /\ v <= app.schema}

(* Mutant: only the upper end of the range is looked at. *)
MigrationStepsOfAny(from) ==
    IF app.steps = {} \/ app.schema > Max(app.steps) THEN {}
    ELSE {v \in app.steps : v > from /\ v <= app.schema}

(* _migrationSteps(), stepsForMigration(): {} when the range is not available. *)
MigrationSteps(from) ==
    IF app.steps = {} \/ from < Min(app.steps) - 1 \/ app.schema > Max(app.steps)
    THEN {}
    ELSE {v \in app.steps : v > from /\ v <= app.schema}

(* What the bridge takes for the file's version.  On iOS userVersion looks neither
   at the error of its query nor for a row: where it fails, the answer is 0.  *)
ReadVersions == {disk.version} \cup (IF platform = "ios" THEN {0} ELSE {})

(* isCompatible(): what initialize() answers.  A release build for Android has no
   logger to tell that the file is newer, and trips over that.               *)
Compatibility(read) ==
    CASE read = app.schema -> "ok"
      [] read = 0 -> "schema_needed"
      [] read \in 1..(app.schema - 1) -> "migrations_needed"
      [] OTHER -> IF platform = "android" /\ ~app.debug THEN "error" ELSE "schema_needed"
-----------------------------------------------------------------------------
(* The bridge: each action is about the message at the head of outbox. *)

Handles(op) == outbox # <<>> /\ Head(outbox).op = op
Answers(a)  == inbox' = Append(inbox, a)
Done        == outbox' = Tail(outbox)

(* (iOS reads the version once more to send it along; when only that read fails,
   there are no migrations from 0, and JavaScript sets up with the schema all the
   same.)                                                                    *)
Initialize == \E read \in ReadVersions :
    /\ Handles("initialize")
    /\ conn' = CASE Compatibility(read) = "ok" -> "connected"
                 [] Compatibility(read) = "error" -> "none"
                 [] OTHER -> "waiting"
    /\ misread' = (read # disk.version)
    /\ Answers(Answer(0, Compatibility(read)))
    /\ Done
    /\ UNCHANGED <<disk, waiting, js, platform, app, launches, failed>>

(* The file cannot be opened or read.  (On iOS an exception when it cannot be
   opened, see Crash; for what cannot be read see ReadVersions.)             *)
InitializeFails ==
    /\ Handles("initialize") /\ platform # "ios"
    /\ Answers(Answer(0, "error"))
    /\ Done
    /\ failed' = TRUE
    /\ UNCHANGED <<native, js, world>>

(* unsafeDestroyEverything(). *)
Erase ==
    /\ Handles("setUpWithSchema") \/ (Handles("reset") /\ conn = "connected")
    /\ ~Head(outbox).create
    /\ disk' = Empty
    /\ outbox' = [outbox EXCEPT ![1].create = TRUE]
    /\ UNCHANGED <<conn, waiting, inbox, js, world, failed>>

(* Mutant: the waiting calls go behind those that have been sent since. *)
ConnectDriverLate ==
    /\ conn' = "connected" /\ waiting' = <<>>
    /\ outbox' = <<Message("settle")>> \o Tail(outbox) \o waiting

(* connectDriverAsync(): the waiting calls are run at once, before JavaScript is
   told that the set-up is done.                                             *)
ConnectDriver ==
    /\ conn' = "connected" /\ waiting' = <<>>
    /\ outbox' = waiting \o <<Message("settle")>> \o Tail(outbox)


(* disconnectDriver(): the waiting calls are run, to be refused; iOS drops them. *)
DisconnectDriver ==
    /\ conn' = "none" /\ waiting' = <<>>
    /\ outbox' = (IF platform = "ios" THEN <<>> ELSE waiting)
                 \o <<[Message("settle") EXCEPT !.ok = FALSE]>> \o Tail(outbox)

Created == [version |-> app.schema, tables |-> 1..app.schema, data |-> FALSE]

(* The tables are created and the version is set, in a transaction. *)
SetUpWithSchema ==
    /\ Handles("setUpWithSchema") /\ Head(outbox).create
    /\ disk' = Created
    /\ ConnectDriver
    /\ UNCHANGED <<inbox, js, world, failed>>

(* In Node the exception passes through resolve() and initialize(), up to the
   promise of the adapter.  On the devices it ends the process, see Crash.   *)
SetUpWithSchemaFails ==
    /\ Handles("setUpWithSchema") /\ platform = "node"
    /\ Answers(Answer(0, "error"))
    /\ Done
    /\ failed' = TRUE
    /\ UNCHANGED <<native, js, world>>

(* A step that has been applied before is refused by SQLite, and all with it. *)
SetUpWithMigrations ==
    /\ Handles("setUpWithMigrations")
    /\ MigrationSteps(disk.version) \cap disk.tables = {}
    /\ disk' = [disk EXCEPT !.version = app.schema,
                            !.tables = @ \cup MigrationSteps(disk.version)]
    /\ ConnectDriver
    /\ UNCHANGED <<inbox, js, world, failed>>

SetUpWithMigrationsFails ==
    /\ Handles("setUpWithMigrations")
    /\ DisconnectDriver
    /\ failed' = TRUE
    /\ UNCHANGED <<disk, inbox, js, world>>

(* The rest of a set-up: its own promise is resolved or rejected. *)
Settle ==
    /\ Handles("settle")
    /\ Answers(Answer(0, IF Head(outbox).ok THEN "ok" ELSE "error"))
    /\ Done
    /\ UNCHANGED <<native, js, world, failed>>

IsCall == outbox # <<>> /\ Head(outbox).op \in Kinds

(* withDriver(), connected: find(), query(), getLocal(), ... and batch(). *)
Execute ==
    /\ IsCall /\ conn = "connected"
    /\ LET op == Head(outbox).op IN
       /\ op # "reset" => disk.tables # {}
       /\ op = "reset" => Head(outbox).create
       /\ disk' = CASE op = "read" -> disk
                    [] op = "write" -> [disk EXCEPT !.data = TRUE]
                    [] op = "reset" -> Created
       /\ Answers(Answer(Head(outbox).id,
              CASE op = "read"  -> IF disk.data THEN "record" ELSE "ok"
                [] op = "write" -> "record"
                [] op = "reset" -> "reset"))
    /\ Done
    /\ UNCHANGED <<conn, waiting, js, world, failed>>

ExecuteFails ==
    /\ IsCall /\ conn = "connected"
    /\ Answers(Answer(Head(outbox).id, "error"))
    /\ Done
    /\ failed' = TRUE
    /\ UNCHANGED <<native, js, world>>

(* withDriver(), waiting. *)
Enqueue ==
    /\ IsCall /\ conn = "waiting"
    /\ waiting' = Append(waiting, Head(outbox))
    /\ Done
    /\ UNCHANGED <<disk, conn, inbox, js, world, failed>>

(* withDriver() without a connection: refused.  iOS adds the call to a queue that
   does not exist, and it is lost.                                           *)
Refuse ==
    /\ IsCall /\ conn = "none"
    /\ inbox' = IF platform = "ios" THEN inbox
                ELSE Append(inbox, Answer(Head(outbox).id, "error"))
    /\ Done
    /\ UNCHANGED <<native, js, world, failed>>

Bridge == Initialize \/ InitializeFails \/ Erase \/ SetUpWithSchema \/ SetUpWithSchemaFails
          \/ SetUpWithMigrations \/ SetUpWithMigrationsFails \/ Settle
          \/ Execute \/ ExecuteFails \/ Enqueue \/ Refuse
-----------------------------------------------------------------------------
(* JavaScript: the answer at the head of inbox. *)

Sends(m) == outbox' = Append(outbox, m)

(* _init() and _setUpWithMigrations(): the next message depends on the answer. *)
Initialized(result) ==
    \/ /\ result = "ok"
       /\ phase' = "ready"
       /\ UNCHANGED outbox
    \/ /\ result = "error"
       /\ phase' = "failed"
       /\ UNCHANGED outbox
    \/ /\ result = "schema_needed"
       /\ Sends(Message("setUpWithSchema"))
       /\ UNCHANGED phase
    \/ /\ result = "migrations_needed" /\ MigrationSteps(disk.version) = {}
       /\ Sends(Message("setUpWithSchema"))
       /\ UNCHANGED phase
    \/ /\ result = "migrations_needed" /\ MigrationSteps(disk.version) # {}
       /\ Sends(Message("setUpWithMigrations"))
       /\ UNCHANGED phase

SetUpAnswered ==
    /\ inbox # <<>> /\ Head(inbox).id = 0
    /\ Initialized(Head(inbox).result)
    /\ inbox' = Tail(inbox)
    /\ UNCHANGED <<native, database, held, calls, world, failed>>

(* Mutant: `finally` restores the adapter. *)
DatabaseRestored(kind, result) == IF kind = "reset" THEN "working" ELSE database

(* unsafeResetDatabase() behind its await: the caches are cleared and the adapter
   is restored, unless the reset was rejected.                               *)
DatabaseAfter(kind, result) ==
    IF kind # "reset" THEN database ELSE IF result = "reset" THEN "working" ELSE "broken"

CallAnswered ==
    /\ inbox # <<>> /\ Head(inbox).id # 0
    /\ LET id == Head(inbox).id  result == Head(inbox).result IN
       /\ calls' = [calls EXCEPT ![id].status = IF result = "error" THEN "error" ELSE "ok"]
       /\ database' = DatabaseAfter(calls[id].kind, result)
       /\ held' = CASE result = "record" -> TRUE
                    [] result = "reset" -> FALSE
                    [] OTHER -> held
    /\ inbox' = Tail(inbox)
    /\ UNCHANGED <<native, outbox, phase, world, failed>>

(* Nothing else runs while Node is in a call. *)
Turn == platform = "node" => outbox = <<>> /\ inbox = <<>>

(* The collections, the queries and the writers call the adapter, whether it is set
   up or not; the ErrorAdapter throws.                                       *)
Call(kind) == \E id \in Ids :
    /\ Turn /\ database = "working"
    /\ calls[id].kind = "none" /\ \A i \in 1..(id - 1) : calls[i].kind # "none"
    /\ calls' = [calls EXCEPT ![id] = [kind |-> kind, status |-> "sent"]]
    /\ Sends([Message(kind) EXCEPT !.id = id])
    /\ database' = IF kind = "reset" THEN "resetting" ELSE database
    /\ UNCHANGED <<native, inbox, phase, held, world, failed>>

NoCalls == [id \in Ids |-> [kind |-> "none", status |-> "none"]]

(* new SQLiteAdapter(). *)
Init ==
    /\ platform \in Platform
    /\ app \in Apps
    /\ launches = 1
    /\ disk = Empty /\ conn = "none" /\ waiting = <<>>
    /\ outbox = <<Message("initialize")>> /\ inbox = <<>>
    /\ phase = "pending" /\ database = "working" /\ held = FALSE
    /\ calls = NoCalls
    /\ failed = FALSE /\ misread = FALSE

(* The process ends, and any version of the app is started next. *)
Crash ==
    /\ launches < MaxLaunches
    /\ launches' = launches + 1
    /\ app' \in Apps
    /\ conn' = "none" /\ waiting' = <<>>
    /\ outbox' = <<Message("initialize")>> /\ inbox' = <<>>
    /\ phase' = "pending" /\ database' = "working" /\ held' = FALSE
    /\ calls' = NoCalls
    /\ failed' = FALSE /\ misread' = FALSE
    /\ UNCHANGED <<platform, disk>>

Next == Bridge \/ SetUpAnswered \/ CallAnswered \/ Crash \/ \E kind \in Kinds : Call(kind)

(* The bridge's thread, and the event loop that brings its answers, go on. *)
Spec == Init /\ [][Next]_vars /\ WF_vars(Bridge) /\ WF_vars(SetUpAnswered \/ CallAnswered)
-----------------------------------------------------------------------------
(* Properties. *)

Results == {"ok", "error", "schema_needed", "migrations_needed", "record", "reset"}
Messages == [op : Kinds \cup {"initialize", "setUpWithSchema", "setUpWithMigrations", "settle"},
             id : 0..MaxCalls, ok : BOOLEAN, create : BOOLEAN]

TypeOK ==
    /\ platform \in Platform
    /\ app \in Apps
    /\ launches \in 1..MaxLaunches
    /\ disk \in Files
    /\ conn \in {"none", "waiting", "connected"}
    /\ waiting \in Seq(Messages) /\ outbox \in Seq(Messages)
    /\ inbox \in Seq([id : 0..MaxCalls, result : Results])
    /\ phase \in {"pending", "ready", "failed"}
    /\ database \in {"working", "resetting", "broken"}
    /\ held \in BOOLEAN /\ failed \in BOOLEAN /\ misread \in BOOLEAN
    /\ calls \in [Ids -> [kind : {"none"} \cup Kinds,
                          status : {"none", "sent", "ok", "error"}]]

(* A driver is used only with a file that has every table and column of the running
   app's schema, and no others, or, when a reset failed half way, nothing at all:
   whatever versions ran before, and wherever they died.                     *)
UsesItsSchema ==
    conn = "connected" =>
        \/ disk = Empty
        \/ disk.version = app.schema /\ disk.tables = 1..app.schema

(* User data is lost only by a reset the app asked for, when its migrations do not
   reach back to the file's version, or when that was misread in this launch: a
   busy or damaged file that answers no query is erased on iOS.              *)
DataIsKept ==
    [][disk.data /\ ~disk'.data =>
         \/ Head(outbox).op = "reset"
         \/ misread
         \/ disk.version > app.schema
         \/ \E v \in (disk.version + 1)..app.schema : v \notin app.steps]_vars

(* Answers come in the order of the calls, across the queue of a connection that is
   being set up: RecordCache relies on hearing of a record before its bare id. *)
AnswersInOrder == \A i, j \in Ids :
    (i < j /\ calls[j].status \in {"ok", "error"}) => calls[i].status # "sent"

(* When the Database works, the records in its caches are in the file: a reset that
   is rejected after the file was erased leaves the ErrorAdapter in its place. *)
HeldIsStored == (database = "working" /\ held) => disk.data

(* The database cannot be used any more: after a schema that could not be set up in
   Node calls wait for ever, after a failed migration iOS loses them.        *)
Stranded ==
    \/ platform = "node" /\ conn = "waiting"
    \/ platform = "ios" /\ conn = "none"

(* Otherwise every call is answered, those made before the set-up included. *)
EveryCallAnswered == \A id \in Ids :
    calls[id].status = "sent" ~> (calls[id].status # "sent" \/ (phase = "failed" /\ Stranded))

(* The adapter is set up unless an operation fails: a database that is newer than
   the app is reset, as the log message says.                                *)
NewerIsReset == phase = "failed" => failed
=============================================================================
