------------------------------ MODULE LokiBridge ------------------------------
(* The LokiJS adapter: the dispatcher in the application, the worker's queue, the
   driver's set-up, writes and reset, and what is on disk when the tab is closed.
     src/src/adapters/lokijs/dispatcher.js, worker/synchronousWorker.js
     src/src/adapters/lokijs/worker/DatabaseBridge.js
     src/src/adapters/lokijs/worker/DatabaseDriver.js, worker/lokiExtensions.js
     src/src/Database/index.js                    unsafeResetDatabase()

   With a web worker calls and responses are messages.  Without one, as the options'
   checks recommend (a production build that leaves useWebWorker out gets one), the
   worker is called: a response calls the application back before the worker has
   done with the action, and the application may call the worker again from there.
   The worker's stack says which of its functions are under way.

   LokiJS keeps the database in memory and saves a snapshot of it now and then: to
   IndexedDB or, when that cannot be opened, to memory, where the page's end ends it. *)
EXTENDS Naturals, Sequences, FiniteSets, SequencesExt

CONSTANTS
    WebWorker,          \* values of useWebWorker
    AllowsFatalError,   \* values of experimentalAllowsFatalError
    Autosaves,          \* values of extraLokiOptions.autosave, TRUE when left out
    MaxVersion,         \* bound on schema versions
    MaxCalls,           \* bound on calls
    MaxLaunches,        \* bound on launches
    Refusals            \* bound: the launches in which IndexedDB may not open

ASSUME LokiAssumption ==
    /\ WebWorker \subseteq BOOLEAN /\ AllowsFatalError \subseteq BOOLEAN
    /\ Autosaves \subseteq BOOLEAN
    /\ MaxVersion \in Nat \ {0} /\ MaxCalls \in Nat /\ MaxLaunches \in Nat \ {0}
    /\ Refusals \subseteq 1..MaxLaunches

VARIABLES
    options,    \* of the adapter: useWebWorker, experimentalAllowsFatalError, autosave
    app,        \* the running version of the app: its schema, and whether it
                \* has migrations from every earlier version
    launch,
    disk,       \* what IndexedDB holds
    loki,       \* the Loki object: its content, whether it saves itself, and whether
                \* its adapter is the one that saves to memory
    driver,     \* the DatabaseDriver: set up or not, and _isBroken
    queue,      \* DatabaseBridge.queue
    executing,  \* _actionsExecuting
    stack,      \* the worker's functions under way, the innermost first
    task,       \* the setUp or the reset that waits for IndexedDB
    outbox,     \* messages to a web worker
    inbox,      \* and its responses
    pending,    \* the dispatcher's _pendingCalls
    calls,      \* every call so far
    database    \* working; resetting or broken: its adapter is the ErrorAdapter

channel == <<outbox, inbox>>
app_    == <<pending, calls, database>>
worker  == <<queue, executing, stack, task>>
store   == <<disk, loki, driver>>
fixed   == <<options, app, launch>>
vars    == <<options, app, launch, disk, loki, driver, queue, executing, stack, task,
             outbox, inbox, pending, calls, database>>

Ids      == 1..MaxCalls
Versions == 1..MaxVersion
Kinds    == {"read", "write", "reset"}

(* tables: the versions whose changes the collections have; whole, half: the writes
   that are there, or a part of which is there; mixed: the schema was set up over
   collections that were there already.                                      *)
Contents == [version : 0..MaxVersion, tables : SUBSET Versions,
             whole : SUBSET Ids, half : SUBSET Ids, mixed : BOOLEAN]
Empty == [version |-> 0, tables |-> {}, whole |-> {}, half |-> {}, mixed |-> FALSE]

Action(id, type) == [id |-> id, type |-> type]
NoTask == [id |-> 0, type |-> "none", step |-> "none"]
Async  == {"setUp", "reset"}

Top == IF stack = <<>> THEN "none" ELSE Head(stack)
-----------------------------------------------------------------------------
(* The dispatcher. *)

(* onmessage: the response is for the call that has been pending longest. *)
Respond(response) ==
    LET id == Head(pending)
        ok == response.ok /\ response.id = id
    IN  /\ pending' = Tail(pending)
        /\ calls' = IF id = 0 THEN calls
                    ELSE [calls EXCEPT ![id].status = IF ok THEN "ok" ELSE "error"]
        /\ database' = IF id = 0 \/ calls[id].kind # "reset" THEN database
                       ELSE IF ok THEN "working" ELSE "broken"

(* onActionDone(): the action leaves the queue, the response is posted, and the next
   action is executed.  A web worker's postMessage() returns at once; the other
   calls the application back first, see Return.  (Nobody waits for setUp's.) *)
OnActionDone(action, ok, rest) ==
    LET response == [id |-> action.id, ok |-> ok] IN
    /\ queue' = Tail(queue)
    /\ IF options.webWorker
       THEN /\ inbox' = Append(inbox, response)
            /\ UNCHANGED <<outbox, app_>>
       ELSE /\ Respond(response)
            /\ UNCHANGED channel
    /\ stack' = IF ~options.webWorker /\ action.id # 0 THEN <<"callback">> \o rest
                ELSE IF Len(queue) > 1 THEN <<"execute">> \o rest ELSE rest

(* Mutant: the newest action goes first. *)
OnMessageFirst(action) ==
    /\ queue' = <<action>> \o queue
    /\ stack' = IF queue = <<>> THEN <<"execute">> \o stack ELSE stack

(* onmessage of the worker. *)
OnMessage(action) ==
    /\ queue' = Append(queue, action)
    /\ stack' = IF queue = <<>> THEN <<"execute">> \o stack ELSE stack

Receive ==
    /\ outbox # <<>> /\ stack = <<>>
    /\ OnMessage(Head(outbox))
    /\ outbox' = Tail(outbox)
    /\ UNCHANGED <<executing, task, inbox, app_, store, fixed>>

Deliver ==
    /\ inbox # <<>>
    /\ Respond(Head(inbox))
    /\ inbox' = Tail(inbox)
    /\ UNCHANGED <<outbox, worker, store, fixed>>

(* Mutant: that was all. *)
ReturnOnly ==
    /\ Top = "callback"
    /\ stack' = Tail(stack)
    /\ UNCHANGED <<queue, executing, task, channel, app_, store, fixed>>

(* The callback is over: onActionDone() goes on. *)
Return ==
    /\ Top = "callback"
    /\ stack' = (IF queue # <<>> THEN <<"execute">> ELSE <<>>) \o Tail(stack)
    /\ UNCHANGED <<queue, executing, task, channel, app_, store, fixed>>
-----------------------------------------------------------------------------
(* executeNext(), by the action at the head of the queue. *)

(* The check that no action is being executed fails: the action is answered with
   that error, and the counter is reset.                                     *)
ExecuteInsane ==
    /\ Top = "execute" /\ executing # 0
    /\ executing' = 0
    /\ OnActionDone(Head(queue), FALSE, Tail(stack))
    /\ UNCHANGED <<task, store, fixed>>

(* processActionAsync(), up to its await. *)
ExecuteAsync ==
    /\ Top = "execute" /\ executing = 0
    /\ Head(queue).type \in Async
    /\ Head(queue).type = "reset" => driver.set
    /\ executing' = 1
    /\ task' = [id |-> Head(queue).id, type |-> Head(queue).type,
                step |-> IF Head(queue).type = "setUp" THEN "open" ELSE "close"]
    /\ stack' = Tail(stack)
    /\ UNCHANGED <<queue, channel, app_, store, fixed>>

(* The driver is not set up. *)
ExecuteWithoutDriver ==
    /\ Top = "execute" /\ executing = 0
    /\ Head(queue).type # "setUp" /\ ~driver.set
    /\ OnActionDone(Head(queue), FALSE, Tail(stack))
    /\ UNCHANGED <<executing, task, store, fixed>>

(* find(), query(), count(), getLocal(), getDeletedRecords(), ... *)
ExecuteRead ==
    /\ Top = "execute" /\ executing = 0
    /\ Head(queue).type = "read" /\ driver.set
    /\ OnActionDone(Head(queue), TRUE, Tail(stack))
    /\ UNCHANGED <<executing, task, store, fixed>>

(* batch(), setLocal(), removeLocal(); a broken driver refuses them. *)
ExecuteWrite ==
    /\ Top = "execute" /\ executing = 0
    /\ Head(queue).type = "write" /\ driver.set
    /\ loki' = IF driver.broken THEN loki
               ELSE [loki EXCEPT !.content.whole = @ \cup {Head(queue).id}]
    /\ OnActionDone(Head(queue), ~driver.broken, Tail(stack))
    /\ UNCHANGED <<executing, task, disk, driver, fixed>>

(* Mutant: Loki is not told. *)
SavesAfterErrorAlways == loki.autosave

(* _fatalError(), lokiFatalError(): does Loki go on saving? *)
SavesAfterError == loki.autosave /\ ~options.fatal

(* Mutant: the error is not thrown again. *)
ExecuteWriteFailsSilently ==
    /\ Top = "execute" /\ executing = 0
    /\ Head(queue).type = "write" /\ driver.set /\ ~driver.broken
    /\ \E left \in {{}, {Head(queue).id}} :
         loki' = [loki EXCEPT !.content.half = @ \cup left, !.autosave = SavesAfterError]
    /\ driver' = [driver EXCEPT !.broken = options.fatal]
    /\ OnActionDone(Head(queue), TRUE, Tail(stack))
    /\ UNCHANGED <<executing, task, disk, fixed>>

(* Some operation of a batch throws; those before it remain. *)
ExecuteWriteFails ==
    /\ Top = "execute" /\ executing = 0
    /\ Head(queue).type = "write" /\ driver.set /\ ~driver.broken
    /\ \E left \in {{}, {Head(queue).id}} :
         loki' = [loki EXCEPT !.content.half = @ \cup left, !.autosave = SavesAfterError]
    /\ driver' = [driver EXCEPT !.broken = options.fatal]
    /\ OnActionDone(Head(queue), FALSE, Tail(stack))
    /\ UNCHANGED <<executing, task, disk, fixed>>
-----------------------------------------------------------------------------
(* setUp() and unsafeResetDatabase(), from one await to the next. *)

At(step) == stack = <<>> /\ task.step = step

(* processActionAsync() behind its last await.  When executeNext() has answered the
   action in the meantime the check in onActionDone() throws, twice.         *)
TaskDone(ok) ==
    /\ task' = NoTask
    /\ IF executing = 1
       THEN executing' = 0 /\ OnActionDone(Head(queue), ok, <<>>)
       ELSE UNCHANGED <<queue, executing, stack, channel, app_>>

GoesOn(step) ==
    /\ task' = [task EXCEPT !.step = step]
    /\ UNCHANGED <<queue, executing, stack, channel, app_>>

WithTables(content, v) == [content EXCEPT !.tables = @ \cup (1..v)]

(* Mutant: the version is set before the steps are taken. *)
MigratedVersionFirst(content) ==
    {[content |-> [WithTables(content, v) EXCEPT !.version = app.schema], ok |-> v = app.schema]
     : v \in content.version..app.schema}

(* _migrate(): any step may fail, or none.  Loki has no transactions. *)
Migrated(content) ==
    {[content |-> WithTables(content, v), ok |-> FALSE] : v \in content.version..app.schema}
    \cup {[content |-> [WithTables(content, app.schema) EXCEPT !.version = app.schema],
           ok |-> TRUE]}

(* getLokiAdapter(): IndexedDB or, when the checker cannot open it (in private mode,
   or without quota), memory that is new and empty.                          *)
GetsMemory == IF launch \in Refusals THEN BOOLEAN ELSE {FALSE}
Loaded(memory) == IF memory THEN Empty ELSE disk

(* Mutant: autosave is left out of the options. *)
OpenedWithoutAutosave(content, memory) ==
    loki' = [content |-> content, autosave |-> FALSE, memory |-> memory]

(* newLoki(): extraLokiOptions come after autosave: true. *)
Opened(content, memory) ==
    loki' = [content |-> content, autosave |-> options.autosave, memory |-> memory]

(* newLoki() loads the database, and autosave begins.  If its version is the app's
   the driver is set up; if there is a way to migrate, it is migrated; else it is
   reset.                                                                    *)
Open == \E memory \in GetsMemory : LET content == Loaded(memory) IN
    /\ At("open")
    /\ \/ /\ content.version = app.schema
          /\ Opened(content, memory)
          /\ driver' = [driver EXCEPT !.set = TRUE]
          /\ TaskDone(TRUE)
       \/ /\ content.version \in 1..(app.schema - 1) /\ app.migrations
          /\ \E migrated \in Migrated(content) :
               /\ Opened(migrated.content, memory)
               /\ driver' = [driver EXCEPT !.set = migrated.ok]
               /\ TaskDone(migrated.ok)
       \/ /\ content.version # app.schema
          /\ ~(content.version \in 1..(app.schema - 1) /\ app.migrations)
          /\ Opened(content, memory)
          /\ GoesOn("close")
          /\ UNCHANGED driver
    /\ UNCHANGED <<disk, fixed>>

(* What a save may leave on disk: nothing, when Loki saves to memory. *)
Saved == IF loki.autosave /\ ~loki.memory THEN loki.content ELSE disk

(* deleteDatabase(): Loki is closed, which saves it once more and ends autosave. *)
Close ==
    /\ At("close")
    /\ disk' \in {Saved, disk}
    /\ loki' = [loki EXCEPT !.autosave = FALSE]
    /\ GoesOn("delete")
    /\ UNCHANGED <<driver, fixed>>

Delete ==
    /\ At("delete")
    /\ disk' = IF loki.memory THEN disk ELSE Empty
    /\ GoesOn("reopen")
    /\ UNCHANGED <<loki, driver, fixed>>

(* _setUpSchema(): collections that are there, because the memory was deleted and the
   checker now finds IndexedDB, are left as they are: they may lack columns.  It is
   setLocal() that sets the version: a broken driver gets no further.        *)
SchemaSetUp(content) ==
    {[content EXCEPT !.tables = @ \cup new, !.mixed = @ \/ content.tables # {},
                     !.version = IF driver.broken THEN @ ELSE app.schema]
     : new \in IF content.tables = {} THEN {1..app.schema} ELSE SUBSET (1..app.schema)}

(* A new Loki is opened, and the schema is set up. *)
Reopen == \E memory \in GetsMemory :
    /\ At("reopen")
    /\ \E content \in SchemaSetUp(Loaded(memory)) : Opened(content, memory)
    /\ driver' = [driver EXCEPT !.set = TRUE]
    /\ TaskDone(~driver.broken)
    /\ UNCHANGED <<disk, fixed>>

(* IndexedDB, which the checker could open, refuses: to load, to delete or to load
   again.  Memory does not.                                                  *)
IndexedDBFails ==
    /\ stack = <<>> /\ task.step \in {"open", "delete", "reopen"}
    /\ task.step = "delete" => ~loki.memory
    /\ TaskDone(FALSE)
    /\ UNCHANGED <<store, fixed>>

(* Loki's timer.  (Saves that IndexedDB refuses are left out.) *)
Autosave ==
    /\ stack = <<>>
    /\ disk # Saved
    /\ disk' = Saved
    /\ UNCHANGED <<loki, driver, worker, channel, app_, fixed>>
-----------------------------------------------------------------------------
(* The application. *)

(* A call by a collection, a query or a writer, in a task of its own or, without a
   web worker, in a callback; the ErrorAdapter throws.                       *)
Call(kind) == \E id \in Ids :
    /\ stack = <<>> \/ Top = "callback" \/ options.webWorker
    /\ database = "working"
    /\ calls[id].kind = "none" /\ \A i \in 1..(id - 1) : calls[i].kind # "none"
    /\ calls' = [calls EXCEPT ![id] = [kind |-> kind, status |-> "sent", launch |-> launch]]
    /\ pending' = Append(pending, id)
    /\ database' = IF kind = "reset" THEN "resetting" ELSE database
    /\ IF options.webWorker
       THEN outbox' = Append(outbox, Action(id, kind)) /\ UNCHANGED <<queue, stack>>
       ELSE OnMessage(Action(id, kind)) /\ UNCHANGED outbox
    /\ UNCHANGED <<executing, task, inbox, store, fixed>>

Apps == [schema : Versions, migrations : BOOLEAN] \ {[schema |-> 1, migrations |-> TRUE]}

(* new LokiJSAdapter() calls setUp. *)
Launched(webWorker) ==
    /\ loki' = [content |-> Empty, autosave |-> FALSE, memory |-> FALSE]
    /\ driver' = [set |-> FALSE, broken |-> FALSE]
    /\ executing' = 0 /\ task' = NoTask /\ inbox' = <<>>
    /\ pending' = <<0>>
    /\ database' = "working"
    /\ IF webWorker
       THEN outbox' = <<Action(0, "setUp")>> /\ queue' = <<>> /\ stack' = <<>>
       ELSE outbox' = <<>> /\ queue' = <<Action(0, "setUp")>> /\ stack' = <<"execute">>

Init ==
    /\ options \in [webWorker : WebWorker, fatal : AllowsFatalError, autosave : Autosaves]
    /\ app \in Apps
    /\ launch = 1
    /\ disk = Empty
    /\ loki = [content |-> Empty, autosave |-> FALSE, memory |-> FALSE]
    /\ driver = [set |-> FALSE, broken |-> FALSE]
    /\ executing = 0 /\ task = NoTask /\ inbox = <<>>
    /\ pending = <<0>>
    /\ database = "working"
    /\ calls = [id \in Ids |-> [kind |-> "none", status |-> "none", launch |-> 0]]
    /\ outbox = (IF options.webWorker THEN <<Action(0, "setUp")>> ELSE <<>>)
    /\ queue = (IF options.webWorker THEN <<>> ELSE <<Action(0, "setUp")>>)
    /\ stack = (IF options.webWorker THEN <<>> ELSE <<"execute">>)

(* The page is closed or reloaded, maybe with another version of the app. *)
Crash ==
    /\ launch < MaxLaunches
    /\ launch' = launch + 1
    /\ app' \in Apps
    /\ Launched(options.webWorker)
    /\ calls' = [id \in Ids |-> IF calls[id].status = "sent"
                                THEN [calls[id] EXCEPT !.status = "lost"] ELSE calls[id]]
    /\ UNCHANGED <<options, disk>>

Execute == ExecuteInsane \/ ExecuteAsync \/ ExecuteWithoutDriver \/ ExecuteRead
           \/ ExecuteWrite \/ ExecuteWriteFails
Asynchronous == Open \/ Close \/ Delete \/ Reopen \/ IndexedDBFails

Next ==
    \/ Receive \/ Deliver \/ Return \/ Execute \/ Asynchronous \/ Autosave \/ Crash
    \/ \E kind \in Kinds : Call(kind)

(* Code that runs ends, messages arrive, IndexedDB answers, timers fire. *)
Spec ==
    /\ Init /\ [][Next]_vars
    /\ WF_vars(Receive) /\ WF_vars(Deliver) /\ WF_vars(Return \/ Execute)
    /\ WF_vars(Asynchronous) /\ WF_vars(Autosave)
-----------------------------------------------------------------------------
(* Properties. *)

Actions == [id : 0..MaxCalls, type : Kinds \cup {"setUp"}]

TypeOK ==
    /\ options \in [webWorker : WebWorker, fatal : AllowsFatalError, autosave : Autosaves]
    /\ app \in Apps /\ launch \in 1..MaxLaunches
    /\ disk \in Contents
    /\ loki \in [content : Contents, autosave : BOOLEAN, memory : BOOLEAN]
    /\ driver \in [set : BOOLEAN, broken : BOOLEAN]
    /\ queue \in Seq(Actions) /\ outbox \in Seq(Actions)
    /\ executing \in {0, 1}
    /\ stack \in Seq({"execute", "callback"})
    /\ task \in [id : 0..MaxCalls, type : Async \cup {"none"},
                 step : {"none", "open", "close", "delete", "reopen"}]
    /\ inbox \in Seq([id : 0..MaxCalls, ok : BOOLEAN])
    /\ pending \in Seq(0..MaxCalls)
    /\ calls \in [Ids -> [kind : Kinds \cup {"none"}, launch : 0..MaxLaunches,
                          status : {"none", "sent", "ok", "error", "lost"}]]
    /\ database \in {"working", "resetting", "broken"}

(* The worker should not have ongoing actions when it executes one. *)
NoOngoingActions == Top = "execute" => executing = 0

(* What the dispatcher waits for is on its way, in the same order: no response is
   ever given to another call.                                               *)
ResponsesInOrder ==
    pending = [k \in 1..Len(inbox) |-> inbox[k].id]
              \o [k \in 1..Len(queue) |-> queue[k].id]
              \o [k \in 1..Len(outbox) |-> outbox[k].id]

(* The driver works on collections that have every change up to the app's version,
   though a migration that fails half way may be saved half done; unless the schema
   was once set up over other collections, which were not deleted when the checker
   could not open IndexedDB and were found when, in the same set-up, it could.  *)
UsesItsSchema ==
    (driver.set /\ task = NoTask /\ database = "working" /\ ~loki.content.mixed) =>
        /\ loki.content.version = app.schema
        /\ 1..app.schema \subseteq loki.content.tables

(* What a page leaves behind is a prefix of what it was told is written: a write is
   not kept without those before it, lastPulledAt not without what was pulled. *)
SavedIsPrefix ==
    \A i, j \in Ids :
        (/\ i < j /\ calls[i].launch = calls[j].launch
         /\ calls[i].kind = "write" /\ calls[i].status = "ok"
         /\ \A r \in i..j : calls[r].kind # "reset"
         /\ j \in disk.whole) => i \in disk.whole

(* With experimentalAllowsFatalError, a half-done batch never reaches the disk. *)
BrokenIsNotSaved == options.fatal => disk.half = {}

(* What is on disk at any time, and so after a crash, is sound in both respects. *)
DiskIsSound == SavedIsPrefix /\ BrokenIsNotSaved

(* Writes MUST succeed; if they don't, nothing more is persisted. *)
HalfIsNotSaved == disk.half = {}

(* Every call is answered, those made while the set-up is going on included. *)
EveryCallAnswered == \A id \in Ids : calls[id].status = "sent" ~> calls[id].status # "sent"

(* A write that was answered is saved, unless the database is reset, the page is
   closed too soon, a fatal error broke the driver, the app's options turn autosave
   off, or IndexedDB could not be opened and the database is in memory.      *)
WritesAreSaved == \A id \in Ids :
    (calls[id].kind = "write" /\ calls[id].status = "ok") ~>
        \/ id \in disk.whole
        \/ launch # calls[id].launch
        \/ driver.broken
        \/ ~options.autosave
        \/ loki.memory
        \/ \E r \in Ids : calls[r].kind = "reset"
=============================================================================
