---------------------------- MODULE NativeDatabase ----------------------------
(* The C++ adapter: SQLite called straight from JavaScript through JSI.
     src/native/shared/: Database.cpp, Database-batch.cpp, Database-query.cpp,
     Database-sqlite.cpp, Database-turboSync.cpp, DatabaseBridge.cpp, Sqlite.cpp,
     with the parts of src/src/adapters/sqlite/index.js and
     src/src/sync/impl/synchronize.js that call it.

   A call blocks the JavaScript thread, but what it does to the file is a series
   of SQL statements, and between two of them the process may die, and another
   adapter may go on: when the app is reloaded the old connection is closed
   asynchronously, after the new one may have been opened.  Each statement is a
   step here.  Of a row only its existence is kept.  A failed assert() and an
   abort() are crashes; a release build has no asserts and goes on.          *)
EXTENDS Naturals, Sequences, FiniteSets, SequencesExt

CONSTANTS
    Id,             \* record ids of one table
    ServerIds,      \* the records a turbo sync downloads
    Adapter,        \* the adapters (Database objects) that may exist at once
    NoAdapter,
    MaxVersion,     \* schema versions of the app
    MaxBatch,       \* bound on the records written by one batch
    Locking,        \* the values of usesExclusiveLocking
    Faults          \* statements that SQLite may fail to execute for a reason
                    \* of its own (I/O error, full disk, unreadable row)

Statements == {"user_version", "select", "row", "vacuum", "begin", "schema", "migrate",
               "setVersion", "insert", "delete", "indices", "setPulled", "commit"}

ASSUME NativeAssumption ==
    /\ IsFiniteSet(Id) /\ ServerIds \subseteq Id
    /\ NoAdapter \notin Adapter
    /\ MaxVersion \in Nat \ {0} /\ MaxBatch \in Nat \ {0}
    /\ Locking \subseteq BOOLEAN
    /\ Faults \subseteq Statements

VARIABLES
    file,       \* the committed content of the database file
    version,    \* schema version of the running app
    exclusive,  \* usesExclusiveLocking
    holder,     \* the adapter whose connection holds SQLite's write lock
    conn,       \* the Database object of each adapter
    call,       \* the native call each adapter is in
    app         \* what the JavaScript of each adapter knows and does

vars == <<file, version, exclusive, holder, conn, call, app>>

(* version is the user_version, tables the version of the schema whose tables
   exist, pulled whether lastPulledAt is set.  loaded is history: the server's
   records were loaded.                                                      *)
Files == [version : 0..MaxVersion, tables : 0..MaxVersion, rows : SUBSET Id,
          pulled : BOOLEAN, loaded : BOOLEAN]
Empty == [version |-> 0, tables |-> 0, rows |-> {}, pulled |-> FALSE, loaded |-> FALSE]

(* work is the content a transaction would commit. *)
NoConnection == [open |-> FALSE, cached |-> {}, inTransaction |-> FALSE, work |-> Empty]

Ops == {"none", "initialize", "setUpWithSchema", "setUpWithMigrations",
        "unsafeResetDatabase", "find", "query", "count", "batch",
        "unsafeLoadFromSync", "setLastPulledAt"}
Statement == [do : Statements, id : SUBSET Id, version : 0..MaxVersion]

(* todo: the statements left; rows: those a query has yet to step to; full and
   bare: the records it is going to send whole, or as their id; add and remove:
   the keys a batch has collected; ok: FALSE after an exception.             *)
NoCall == [op |-> "none", todo |-> <<>>, rows |-> {}, full |-> {}, bare |-> {},
           add |-> {}, remove |-> {}, read |-> 0, ok |-> TRUE]

(* status: "setup" while the adapter initialises, "failed" when that failed,
   "gone" when its JavaScript is no more; known: the records JavaScript holds;
   sync: how far a turbo sync has come; alone: no other connection was open at
   any time since this one was.                                              *)
NoApp == [status |-> "none", known |-> {}, sync |-> "idle", alone |-> TRUE]
-----------------------------------------------------------------------------
(* The statements of each call. *)

Do(s)           == [do |-> s, id |-> {}, version |-> 0]
DoVersion(s, v) == [do |-> s, id |-> {}, version |-> v]
DoEach(s, ids)  == LET each == SetToSeq(ids)
                   IN  [k \in 1..Len(each) |-> [do |-> s, id |-> {each[k]}, version |-> 0]]

Transaction(statements) == <<Do("begin")>> \o statements \o <<Do("commit")>>

(* unsafeResetDatabase(): VACUUM in reset mode empties the file, by itself. *)
Reset(v) == <<Do("vacuum")>> \o
            Transaction(<<DoVersion("schema", v), DoVersion("setVersion", v)>>)

Migration(v) == Transaction(<<DoVersion("migrate", v), DoVersion("setVersion", v)>>)

(* Mutant: the records to delete in a transaction of their own. *)
WrittenInTwo(add, remove) ==
    Transaction(DoEach("insert", add)) \o Transaction(DoEach("delete", remove))

Written(add, remove) == Transaction(DoEach("insert", add) \o DoEach("delete", remove))

LoadFromSync ==
    Transaction(<<Do("indices")>> \o DoEach("insert", ServerIds) \o <<Do("indices")>>)

(* What SQLite refuses: a table that exists, a migration of other tables, a
   duplicate id, a table that does not exist.                                *)
Refused(d, s) ==
    \/ s.do = "schema" /\ d.tables # 0
    \/ s.do = "migrate" /\ d.tables \notin 1..(s.version - 1)
    \/ s.do = "insert" /\ s.id \cap d.rows # {}
    \/ s.do \in {"insert", "delete", "select", "indices", "setPulled"} /\ d.tables = 0

Effect(d, s) ==
    CASE s.do = "vacuum"      -> Empty
      [] s.do \in {"schema", "migrate"} -> [d EXCEPT !.tables = s.version]
      [] s.do = "setVersion" -> [d EXCEPT !.version = s.version]
      [] s.do = "insert"      -> [d EXCEPT !.rows = @ \cup s.id]
      [] s.do = "delete"      -> [d EXCEPT !.rows = @ \ s.id]
      [] s.do = "setPulled"  -> [d EXCEPT !.pulled = TRUE]
      [] OTHER                -> d
-----------------------------------------------------------------------------
(* SQLite's locks: WAL, exclusive transactions, a busy timeout. *)

Free(a) == holder \in {NoAdapter, a}

Reading(a) == call[a].rows # {}

(* An exclusive connection keeps what it has locked, from readers as well. *)
Available(a, s) ==
    CASE s.do \in {"begin", "vacuum"} ->
           Free(a) /\ (exclusive => \A b \in Adapter \ {a} : ~Reading(b))
      [] s.do \in {"user_version", "select"} -> Free(a) \/ ~exclusive
      [] OTHER -> TRUE

Content(a) == IF conn[a].inTransaction THEN conn[a].work ELSE file

MayFail(a, s) == s.do \in Faults \/ Refused(Content(a), s) \/ ~Available(a, s)

Released(a) == IF holder = a /\ ~exclusive THEN NoAdapter ELSE holder
-----------------------------------------------------------------------------
(* Execution of the statement at the head of a call. *)

Running(a) == call[a].todo # <<>>
Now(a)     == Head(call[a].todo)
Advance(a) == [call[a] EXCEPT !.todo = Tail(@)]

CanExecute(a, s) ==
    /\ Running(a) /\ Now(a).do = s
    /\ conn[a].open
    /\ Available(a, Now(a)) /\ ~Refused(Content(a), Now(a))

(* Mutant: a reset does not forget cachedRecords_. *)
BeginKeepingCache(a) ==
    /\ CanExecute(a, "begin")
    /\ holder' = a
    /\ conn' = [conn EXCEPT ![a] = [conn[a] EXCEPT !.inTransaction = TRUE, !.work = file]]
    /\ call' = [call EXCEPT ![a] = Advance(a)]
    /\ UNCHANGED <<file, version, exclusive, app>>

(* Mutant: BEGIN DEFERRED, upgraded when nobody looks. *)
BeginDeferred(a) ==
    /\ Running(a) /\ Now(a).do = "begin" /\ conn[a].open
    /\ conn' = [conn EXCEPT ![a] = [conn[a] EXCEPT !.inTransaction = TRUE, !.work = file]]
    /\ call' = [call EXCEPT ![a] = Advance(a)]
    /\ UNCHANGED <<file, version, exclusive, holder, app>>

(* beginTransaction(): BEGIN EXCLUSIVE. *)
Begin(a) ==
    /\ CanExecute(a, "begin")
    /\ holder' = a
    /\ conn' = [conn EXCEPT ![a] = [conn[a] EXCEPT !.inTransaction = TRUE, !.work = file,
                   !.cached = IF call[a].op \in {"setUpWithSchema", "unsafeResetDatabase"}
                              THEN {} ELSE @]]
    /\ call' = [call EXCEPT ![a] = Advance(a)]
    /\ UNCHANGED <<file, version, exclusive, app>>

(* A statement of a transaction. *)
Update(a) ==
    /\ Running(a) /\ conn[a].inTransaction /\ CanExecute(a, Now(a).do)
    /\ Now(a).do # "commit"
    /\ conn' = [conn EXCEPT ![a].work = Effect(@, Now(a))]
    /\ call' = [call EXCEPT ![a] =
           [Advance(a) EXCEPT !.add = @ \cup (IF Now(a).do = "insert" THEN Now(a).id ELSE {}),
                              !.remove = @ \cup (IF Now(a).do = "delete" THEN Now(a).id ELSE {})]]
    /\ UNCHANGED <<file, version, exclusive, holder, app>>

(* commit(), and what a batch does behind it before it returns: it notes which
   records JavaScript now has.                                               *)
Commit(a) ==
    /\ CanExecute(a, "commit")
    /\ file' = [conn[a].work EXCEPT !.loaded = @ \/ call[a].op = "unsafeLoadFromSync"]
    /\ holder' = Released(a)
    /\ conn' = [conn EXCEPT ![a] = [conn[a] EXCEPT !.inTransaction = FALSE, !.work = Empty,
                   !.cached = IF call[a].op = "batch"
                              THEN (@ \cup call[a].add) \ call[a].remove ELSE @]]
    /\ call' = [call EXCEPT ![a] = Advance(a)]
    /\ UNCHANGED <<version, exclusive, app>>

(* VACUUM of a connection in SQLITE_DBCONFIG_RESET_DATABASE mode. *)
Vacuum(a) ==
    /\ CanExecute(a, "vacuum")
    /\ file' = Effect(file, Now(a))
    /\ holder' = IF exclusive THEN a ELSE holder
    /\ call' = [call EXCEPT ![a] = Advance(a)]
    /\ UNCHANGED <<version, exclusive, conn, app>>

(* getUserVersion() of initialize(). *)
ReadVersion(a) ==
    /\ CanExecute(a, "user_version")
    /\ call' = [call EXCEPT ![a] = [Advance(a) EXCEPT !.read = file.version]]
    /\ UNCHANGED <<file, version, exclusive, holder, conn, app>>

(* find() of a record that is not cached, and the first step of a query: the
   statement sees the file as it is now.  find() notes the record afterwards. *)
Select(a) ==
    /\ CanExecute(a, "select")
    /\ LET wanted == Now(a).id
           found  == file.rows \cap wanted
       IN  CASE call[a].op = "find" ->
                  /\ conn' = [conn EXCEPT ![a].cached = @ \cup found]
                  /\ call' = [call EXCEPT ![a] = [Advance(a) EXCEPT !.full = found]]
             [] call[a].op = "query" ->
                  /\ call' = [call EXCEPT ![a] =
                         [call[a] EXCEPT !.rows = found,
                                         !.todo = IF found = {} THEN <<>> ELSE <<Do("row")>>]]
                  /\ UNCHANGED conn
             [] OTHER ->
                  /\ call' = [call EXCEPT ![a] = Advance(a)]
                  /\ UNCHANGED conn
    /\ UNCHANGED <<file, version, exclusive, holder, app>>

(* One row of query() or queryAsArray(): its id, or noted and sent whole. *)
Row(a) ==
    /\ CanExecute(a, "row")
    /\ \E id \in call[a].rows :
         /\ conn' = [conn EXCEPT ![a].cached = @ \cup {id}]
         /\ call' = [call EXCEPT ![a] =
                [call[a] EXCEPT
                    !.rows = @ \ {id},
                    !.todo = IF call[a].rows = {id} THEN <<>> ELSE @,
                    !.full = IF id \in conn[a].cached THEN @ ELSE @ \cup {id},
                    !.bare = IF id \in conn[a].cached THEN @ \cup {id} ELSE @]]
    /\ UNCHANGED <<file, version, exclusive, holder, app>>

(* The record a row fails on is noted before it is converted. *)
NotedInVain(a) ==
    IF Now(a).do = "row"
    THEN {{}} \cup {{id} : id \in call[a].rows}
    ELSE {{}}

(* Mutant: the exception is caught, and not thrown again. *)
FailSwallowed(a) ==
    /\ Running(a) /\ MayFail(a, Now(a))
    /\ call[a].op \notin {"setUpWithSchema", "unsafeResetDatabase"}
    /\ conn' = [conn EXCEPT ![a] = [conn[a] EXCEPT !.inTransaction = FALSE, !.work = Empty]]
    /\ call' = [call EXCEPT ![a] = [call[a] EXCEPT !.todo = <<>>, !.rows = {}]]
    /\ holder' = IF conn[a].inTransaction THEN Released(a) ELSE holder
    /\ UNCHANGED <<file, version, exclusive, app>>

(* A statement fails.  A transaction is rolled back, and the call throws; when a
   set-up with a schema or a reset fails, the process aborts: see Crash.     *)
Fail(a) ==
    /\ Running(a) /\ MayFail(a, Now(a))
    /\ call[a].op \notin {"setUpWithSchema", "unsafeResetDatabase"}
    /\ \E noted \in NotedInVain(a) :
         conn' = [conn EXCEPT ![a] = [conn[a] EXCEPT !.inTransaction = FALSE, !.work = Empty,
                                                     !.cached = @ \cup noted]]
    /\ call' = [call EXCEPT ![a] = [call[a] EXCEPT !.todo = <<>>, !.rows = {}, !.ok = FALSE]]
    /\ holder' = IF conn[a].inTransaction THEN Released(a) ELSE holder
    /\ UNCHANGED <<file, version, exclusive, app>>
-----------------------------------------------------------------------------
(* The process. *)

Init ==
    /\ file = Empty
    /\ version = 1
    /\ exclusive \in Locking
    /\ holder = NoAdapter
    /\ conn = [a \in Adapter |-> NoConnection]
    /\ call = [a \in Adapter |-> NoCall]
    /\ app = [a \in Adapter |-> NoApp]

(* The process dies, or aborts; the user installs any version and starts it. *)
Crash ==
    /\ holder' = NoAdapter
    /\ conn' = [a \in Adapter |-> NoConnection]
    /\ call' = [a \in Adapter |-> NoCall]
    /\ app' = [a \in Adapter |-> NoApp]
    /\ version' \in 1..MaxVersion
    /\ UNCHANGED <<file, exclusive>>

(* The app is reloaded: this JavaScript stops, a call it is in goes on.  (It is one
   that writes: a reload during any other is no different from one before it.) *)
Reload(a) ==
    /\ app[a].status \in {"setup", "ready", "failed"}
    /\ call[a].op \notin {"initialize", "find", "query", "count"}
    /\ app' = [app EXCEPT ![a] = [NoApp EXCEPT !.status = "gone", !.alone = app[a].alone]]
    /\ UNCHANGED <<file, version, exclusive, holder, conn, call>>

(* Database::destroy(), called when the bridge goes away: it waits for the mutex.
   It may as well do nothing, now and later: isDestroyed_ is not initialised, and
   when it happens to be true the connection stays open.                     *)
Destroy(a) ==
    /\ app[a].status = "gone" /\ call[a].op = "none"
    /\ conn' = [conn EXCEPT ![a] = NoConnection]
    /\ app' = [app EXCEPT ![a] = NoApp]
    /\ holder' = IF holder = a THEN NoAdapter ELSE holder
    /\ UNCHANGED <<file, version, exclusive, call>>
-----------------------------------------------------------------------------
(* The JavaScript of an adapter. *)

Started(op, todo) == [NoCall EXCEPT !.op = op, !.todo = todo]
Calls(a, op, todo) == call' = [call EXCEPT ![a] = Started(op, todo)]

(* new SQLiteAdapter(): nativeHypertillCreateAdapter() opens the connection, and
   _init() calls initialize() at once.  One JavaScript runs at a time.       *)
Open(a) ==
    /\ app[a].status = "none" /\ ~conn[a].open
    /\ \A b \in Adapter : app[b].status \in {"none", "gone"}
    /\ Free(a) \/ ~exclusive
    /\ conn' = [conn EXCEPT ![a] = [NoConnection EXCEPT !.open = TRUE]]
    /\ LET others == {b \in Adapter : conn[b].open} IN
       app' = [b \in Adapter |->
           CASE b = a -> [NoApp EXCEPT !.status = "setup", !.alone = others = {}]
             [] b \in others -> [app[b] EXCEPT !.alone = FALSE]
             [] OTHER -> app[b]]
    /\ Calls(a, "initialize", <<Do("user_version")>>)
    /\ UNCHANGED <<file, version, exclusive, holder>>

Answered(a, op) ==
    /\ call[a].op = op /\ call[a].todo = <<>>
    /\ app[a].status # "gone"

Returns(a) == call' = [call EXCEPT ![a] = NoCall]

(* _init(): the code initialize() answers with decides what comes next. *)
Initialized(a) ==
    /\ Answered(a, "initialize")
    /\ LET read == call[a].read IN
       \/ /\ ~call[a].ok
          /\ app' = [app EXCEPT ![a].status = "failed"]
          /\ Returns(a)
       \/ /\ call[a].ok /\ read = version
          /\ app' = [app EXCEPT ![a].status = "ready"]
          /\ Returns(a)
       \/ /\ call[a].ok /\ read # version      \* no tables, newer, or no way to migrate
          /\ Calls(a, "setUpWithSchema", Reset(version))
          /\ UNCHANGED app
       \/ /\ call[a].ok /\ read \in 1..(version - 1)
          /\ Calls(a, "setUpWithMigrations", Migration(version))
          /\ UNCHANGED app
    /\ UNCHANGED <<file, version, exclusive, holder, conn>>

(* Calls go on being made to an adapter that has failed to migrate. *)
SetUp(a) ==
    /\ \/ Answered(a, "setUpWithSchema")
       \/ Answered(a, "setUpWithMigrations")
    /\ app' = [app EXCEPT ![a].status = IF call[a].ok THEN "ready" ELSE "failed"]
    /\ Returns(a)
    /\ UNCHANGED <<file, version, exclusive, holder, conn>>

Idle(a) == app[a].status \in {"ready", "failed"} /\ call[a].op = "none"

(* find() of a cached record is answered with its id, without SQL. *)
Find(a) == \E id \in Id :
    /\ Idle(a)
    /\ call' = [call EXCEPT ![a] =
           IF id \in conn[a].cached
           THEN [Started("find", <<>>) EXCEPT !.bare = {id}]
           ELSE Started("find", <<[do |-> "select", id |-> {id}, version |-> 0]>>)]
    /\ UNCHANGED <<file, version, exclusive, holder, conn, app>>

(* query(), and count() for the calls that neither write nor cache: queryIds(),
   unsafeQueryRaw(), count(), getLocal().                                    *)
Query(a) == \E op \in {"query", "count"} :
    /\ Idle(a)
    /\ Calls(a, op, <<[do |-> "select", id |-> Id, version |-> 0]>>)
    /\ UNCHANGED <<file, version, exclusive, holder, conn, app>>

(* Records JavaScript does not have are created, others destroyed. *)
Batch(a) == \E add \in SUBSET (Id \ app[a].known), remove \in SUBSET app[a].known :
    /\ Idle(a) /\ app[a].sync = "idle"
    /\ Cardinality(add \cup remove) \in 1..MaxBatch
    /\ Calls(a, "batch", Written(add, remove))
    /\ UNCHANGED <<file, version, exclusive, holder, conn, app>>

ResetDatabase(a) ==
    /\ Idle(a) /\ app[a].sync = "idle"
    /\ Calls(a, "unsafeResetDatabase", Reset(version))
    /\ UNCHANGED <<file, version, exclusive, holder, conn, app>>

(* The first sync, in turbo mode: synchronize() requires that lastPulledAt is not
   set, the documentation that the database is empty.                        *)
TurboSync(a) ==
    /\ Idle(a) /\ app[a].sync = "idle"
    /\ ~file.pulled /\ file.rows = {}
    /\ Calls(a, "unsafeLoadFromSync", LoadFromSync)
    /\ UNCHANGED <<file, version, exclusive, holder, conn, app>>

SetLastPulledAt(a) ==
    /\ Idle(a) /\ app[a].sync = "loaded"
    /\ Calls(a, "setLastPulledAt", Transaction(<<Do("setPulled")>>))
    /\ app' = [app EXCEPT ![a].sync = "idle"]
    /\ UNCHANGED <<file, version, exclusive, holder, conn>>

(* RecordCache looks bare ids up, and throws at the first it does not have; the
   records behind that one are lost.                                         *)
Received(a) ==
    IF call[a].bare \subseteq app[a].known THEN {call[a].full} ELSE SUBSET call[a].full

(* What an answer changes in JavaScript. *)
Told(a, full) ==
    IF ~call[a].ok THEN app[a]
    ELSE CASE call[a].op \in {"find", "query"} -> [app[a] EXCEPT !.known = @ \cup full]
           [] call[a].op = "batch" ->
                [app[a] EXCEPT !.known = (@ \cup call[a].add) \ call[a].remove]
           [] call[a].op = "unsafeResetDatabase" -> [app[a] EXCEPT !.known = {}]
           [] call[a].op = "unsafeLoadFromSync" -> [app[a] EXCEPT !.sync = "loaded"]
           [] OTHER -> app[a]

Answer(a) ==
    /\ call[a].op \notin {"none", "initialize", "setUpWithSchema", "setUpWithMigrations"}
    /\ Answered(a, call[a].op)
    /\ \E full \in Received(a) : app' = [app EXCEPT ![a] = Told(a, full)]
    /\ Returns(a)
    /\ UNCHANGED <<file, version, exclusive, holder, conn>>

(* Nobody is left to hear the answer. *)
AnswerNobody(a) ==
    /\ app[a].status = "gone" /\ call[a].op # "none" /\ call[a].todo = <<>>
    /\ Returns(a)
    /\ UNCHANGED <<file, version, exclusive, holder, conn, app>>

Execute(a) == Begin(a) \/ Update(a) \/ Commit(a) \/ Vacuum(a) \/ ReadVersion(a)
              \/ Select(a) \/ Row(a) \/ Fail(a)

Next ==
    \/ Crash
    \/ \E a \in Adapter :
         \/ Execute(a)
         \/ Open(a) \/ Reload(a) \/ Destroy(a)
         \/ Initialized(a) \/ SetUp(a) \/ Answer(a) \/ AnswerNobody(a)
         \/ Find(a) \/ Query(a) \/ Batch(a) \/ ResetDatabase(a)
         \/ TurboSync(a) \/ SetLastPulledAt(a)

Spec == Init /\ [][Next]_vars
-----------------------------------------------------------------------------
(* Properties. *)

TypeOK ==
    /\ file \in Files
    /\ version \in 1..MaxVersion
    /\ exclusive \in BOOLEAN
    /\ holder \in Adapter \cup {NoAdapter}
    /\ conn \in [Adapter -> [open : BOOLEAN, cached : SUBSET Id,
                             inTransaction : BOOLEAN, work : Files]]
    /\ call \in [Adapter -> [op : Ops, todo : Seq(Statement), rows : SUBSET Id,
                             full : SUBSET Id, bare : SUBSET Id, add : SUBSET Id,
                             remove : SUBSET Id, read : 0..MaxVersion, ok : BOOLEAN]]
    /\ app \in [Adapter -> [status : {"none", "setup", "ready", "failed", "gone"},
                            known : SUBSET Id, sync : {"idle", "loaded"}, alone : BOOLEAN]]

(* The native side never takes JavaScript to have a record it was not given: it
   would send a bare id that RecordCache cannot find.                        *)
CachedWasDelivered == \A a \in Adapter : Idle(a) => conn[a].cached \subseteq app[a].known

(* lastPulledAt is stored only when what the pull brought is, as long as no other
   connection wrote in between.                                              *)
PulledImpliesLoaded ==
    [][\A a \in Adapter :
         (call[a].op = "setLastPulledAt" /\ file'.pulled # file.pulled /\ app[a].alone)
            => file.loaded]_vars

(* The batch an adapter is waiting for, or has an answer to: the records it has
   collected, and those of the statements that are left.                     *)
Ids(statements, s) ==
    UNION {statements[k].id : k \in {j \in DOMAIN statements : statements[j].do = s}}

Request(c) ==
    CASE c.op # "batch" -> [status |-> "none", add |-> {}, remove |-> {}]
      [] c.op = "batch" /\ c.todo # <<>> ->
           [status |-> "asked", add    |-> c.add \cup Ids(c.todo, "insert"),
                                remove |-> c.remove \cup Ids(c.todo, "delete")]
      [] OTHER -> [status |-> IF c.ok THEN "written" ELSE "refused",
                   add |-> {}, remove |-> {}]

Requests == [a \in Adapter |-> Request(call[a])]

Stored == INSTANCE StoredDatabase WITH Client <- Adapter, batch <- Requests

(* The file always has the effect of whole calls, and of a batch exactly when it
   is answered as written: all the records asked for, in one step.           *)
ImplementsStoredDatabase == Stored!Spec
=============================================================================
