# HypertillDB in TLA+

HypertillDB is a reactive database for JavaScript applications: models and
queries in JavaScript (`src/src`), on top of SQLite (through native code in
`src/native`, or `better-sqlite3` in Node) or LokiJS, and a synchronization
protocol against a server.  These modules model its control: who may run when,
what is in which cache at which moment, in which order changes are applied and
announced, and what synchronization keeps, overwrites and sends.

All paths below are relative to the directory that holds the repository's
`src`; a module is named without its `.tla`.  `PROJECT.json` maps every
definition to the lines it models, and lists the runs, the hazards, the findings
and the theorems.

Run a check with `tlc -config MCSync.cfg MCSync`, the proofs with
`tlapm` on one of the modules `...Proofs`, for instance `tlapm SyncProofs.tla`.

## 1. Inventory

JavaScript runs each task to completion, so the interleavings that matter are
those of tasks and microtasks: what may happen between an `await`, a callback or
a `setTimeout` and its continuation.  Around that, adapters work in other threads
or processes, the server and its other clients at their own pace, and the
application may be killed at any moment.

| Component | State | Operations | Interacts with |
|---|---|---|---|
| Work queue (`Database/WorkQueue.js`) | `_queue`, `_subActionIncoming`, a pending timer | `enqueue`, `subAction`, `_executeNext`, `_abortPendingWork` | every reader and writer, Models, the reset |
| Database (`Database/index.js`) | adapter or ErrorAdapter, `_subscribers`, reset flags, buffered notifications | `batch`, `_notify`, `unsafeResetDatabase`, `experimentalBatchNotifications` | work queue, adapter, collections |
| Record caching (`Collection/`, the drivers) | `RecordCache.map`, `cachedRecords` of the driver | `find`, `query`, `_applyChangesToCache`, reset, LokiJS's recovery | Models, adapter |
| Model (`Model/index.js`) | `_raw`, `_preparedState`, `_isEditing`, subscribers | `prepareCreate`, `prepareUpdate`, `markAsDeleted`, `destroyPermanently` | `Database.batch`, collection |
| Observation (`observation/`, `SharedSubscribable`) | subscribers, last value, source; lists of records, fetch flags | subscribe, unsubscribe, emit, fetch again | `_notify`, adapter, application code |
| Synchronization (`sync/impl/`) | `_status` and `_changed` of each record, `lastPulledAt`, progress of a call | pull, apply, fetch local, push, mark as synced | server, work queue, local storage |
| SQLite adapter (`adapters/sqlite/`) | connection (`waiting`, `connected`), calls that wait, `user_version` | initialize, set up, migrate, batch, queries | native bridge, JSI, `better-sqlite3` |
| LokiJS adapter (`adapters/lokijs/`) | the worker's queue, pending calls, `_isBroken`, unsaved changes | the same, fatal error, autosave | web worker, IndexedDB |
| Schema and migrations (`Schema/`) | none | `stepsForMigration`, `getSyncChanges`, checks | adapters, migration syncs |
| Raw records (`RawRecord/`) | none | `sanitizedRaw`, `setRawSanitized` | Models, synchronization |
| Queries (`Query/`, `QueryDescription/`, encoders) | none | building, encoding | adapters, matchers |
| Relations, decorators, React bindings, hooks | memoized values, React state | accessors | observation |
| Native adapters (`src/native`) | as the Node driver, with locks and threads | as the Node driver | React Native |

What is hard in each, and what makes it correct:

* *Work queue.*  The next item is started by a timer after the head has been
  shifted; sub-actions skip the line through one flag; a reset empties the queue
  behind the running item.  Correct: exactly one chain of `_executeNext()`,
  writers exclude each other and readers, every call settles once, in the order
  of the calls.
* *Record caching.*  The adapter remembers what it has sent and then sends bare
  ids; the collection must still have those records.  The two halves change at
  different moments of a batch.  Correct: an id that is sent is found, one record
  has one live Model, cached Models are what the database holds, a reset leaves
  nothing behind.
* *Model.*  An updater may throw half way, a batch may fail after the Model was changed,
  and a deletion with descendants awaits one query per level while other calls go on.
  Correct: no child outlives its parent, what differs from the server is marked, a
  deletion is final, fields change in calls only, nothing stays pending.
* *Observation.*  Fetches are asynchronous, notifications are synchronous and
  call application code inside loops.  Correct: when nothing is under way every
  subscriber holds the current list; the source of a query is subscribed to once.
* *Synchronization.*  Users edit on both sides while it goes on, the push and its
  marking are separate, answers are lost, calls overlap.  Correct: no remote change
  is skipped, no local one forgotten, nothing is overwritten by what nobody
  edited, both sides become the same.
* *Migration syncs.*  A migration adds tables and columns whose contents the server sent
  long ago; which ones to ask for again follows from a second mark, saved after
  `lastPulledAt`, while releases with and without migration syncs come and go.
  Correct: no column is forgotten, the mark is never ahead of the schema.
* *Observation of columns and counts.*  Change sets tell of columns, lists are
  fetched; both arrive on their own, and announcements may be held back.  Correct:
  when nothing is under way the observer has seen the list and the columns as they
  are.
* *Setting a database up.*  Calls are made before the set-up has ended, migrations
  fail, a database is erased because no path of migrations exists, the process dies
  in between and another version of the app is started on what is left.  Correct:
  a driver works on tables of its own schema, data goes only where the
  migrations do not reach, every call is answered, in order.  The one place where data
  goes otherwise is a read that fails unnoticed on iOS (section 6).
* *The native database.*  Every call is a series of SQL statements; the process may
  die between two of them, and on a reload two connections use one file.  Correct:
  the file has the effect of whole calls, of a batch exactly what was asked for, in one
  step, and the answer says whether; the native cache names nothing that
  JavaScript was not given, `lastPulledAt` is not ahead of the records.
* *LokiJS.*  Writes are not transactions and are saved some time after they were
  answered; without a web worker a response runs application code before the worker
  has finished.  Correct: what is saved is a prefix of what was answered, responses
  go to the calls they belong to, every call is answered and every write saved in
  the end, if the app has not turned autosave off and IndexedDB could be opened: without
  it LokiJS goes on in memory.

## 2. Modules

| Module | Models | Extends |
|---|---|---|
| `WorkQueue` | `WorkQueue.js` with the sub-actions of `Model` | |
| `SerialAccess` | what the queue promises: clients admitted one at a time, in order | |
| `RecordCaching` | both halves of the record cache and the path of a batch | |
| `ModelEditing` | updates, deletions and deletions with descendants of Models, between calls and batches | |
| `Observation` | simple and reloading queries, shared subscriptions, notification loops | |
| `ColumnObservation` | observers of columns and counts, notifications held back | |
| `Sync` | `synchronize()`, with a server and its other clients | |
| `MigrationSync` | the pull phase of an app whose schema grows, its two marks, releases and resets | |
| `StoredDatabase` | what the native adapter promises about the file, and about a batch and its answer | |
| `NativeDatabase` | the C++ adapter, statement by statement, with reloads and crashes | |
| `Connection` | set-up of a SQLite database in Node, on iOS and Android, over launches of several app versions | |
| `LokiBridge` | dispatcher and worker of LokiJS, its set-up, writes, reset, autosave and fallback to memory | |
| `WorkQueueProofs`, `RecordCachingProofs`, `ModelEditingProofs`, `SyncProofs`, `MigrationSyncProofs`, `NativeDatabaseProofs`, `ConnectionProofs`, `LokiBridgeProofs` | theorems and their proofs (section 5) | the module of that name, `TLAPS` |
| `MCWorkQueue`, `MCRecordCaching`, `MCModelEditing`, `MCObservation`, `MCColumnObservation`, `MCSync`, `MCMigrationSync`, `MCNativeDatabase`, `MCConnection`, `MCLokiBridge` | instances for TLC: symmetry, constant functions | the module of that name |

Every module is a state machine of its own.  They meet at these places, and each
takes from the other what that one checks: `Sync` and `RecordCaching` rely on
writers excluding each other (`WorkQueue`, `WriterExclusion`): in `Sync` that is
the variable `writer`.  `Observation` relies on Models being cached and unique
(`RecordCaching`), and repeats of it only the window in which a synchronous
adapter sends the bare id of a record that is not cached yet (`Uncached`);
`ColumnObservation` observes the same sources without their subscribers' freedom.
`RecordCaching` takes a driver that is set up for granted, which `Connection`,
`NativeDatabase` and `LokiBridge` are about; `Sync` takes for granted that
`lastPulledAt` is stored after the records, which `PulledImpliesLoaded` and
`DiskIsSound` check of two adapters.  `MigrationSync` repeats of `Sync` the pull phase of
one call and leaves local changes to it; `ModelEditing` relies on `RecordCaching` for one
Model per record and on the adapter for batches that are applied as a whole.
Operators named `...Kept`, `...Always`, `...Unscheduled` and so on under the
comment `Mutant:` are faulty variants of the definition that follows.  They are
not part of any specification: replacing the definition by one of them must make
TLC find the property violated that `PROJECT.json` names, which shows that the
property depends on that code.

### WorkQueue

An item is one call of `write()` or `read()`; `body` says where its block is,
`promise` what its caller sees.  `Enqueue` is `enqueue()` outside a sub-action,
with the immediate start on an empty queue; `SubAction`, `RunSubAction` and
`RefuseSubAction` are the three ways a sub-action goes; `Settle` is the end of a
block, `FinishItem` the continuation of `await workPromise`, `ExecuteNext` the
timer.  Both gaps of `_executeNext()` are kept: between the settling of the block
and the continuation, and between `shift()` and the timer.  A body may call any
number of items, as sub-actions or queued behind itself, and may await them or
not (`waits`).  `FailFast` says how bodies join sub-actions: `FALSE` for bodies
that wait for all they started, `TRUE` for `Promise.all`.

### RecordCaching

`driver` is the adapter's half: the table and `cachedRecords` (`sent`).  `models`
and `cache` are the collection's half.  Calls and answers travel through FIFO
queues; with a synchronous adapter the call is executed at once and only the
continuation after `await` remains (`answers`).  A batch has one operation, on one
of two records; `Batch` changes the Model and sends the operation in one step, as
`prepareUpdate()` and `batch()` do in one synchronous stretch, and `ResumeBatch`
is the code after the `await`.  Results are sets: which records precede a missing
id in the result is a choice (`Kept`), as the order of a result is the query's.
Failures: a batch may be rejected; in SQLite it is rolled back, in LokiJS it may
have been applied (`LokiBridge` looks at batches applied in part).

### ModelEditing

`model` is a Model with its `_raw`, `_preparedState` and `_isEditing`, `row` what the
database has of it.  The records form a chain of `has_many` associations with several
leaves at its end.  `Update` and `Delete` are one synchronous stretch each, up to the
batch they send; an updater that throws leaves what it did (`Edited`).
`DeleteWithDescendants` sends the query of the first level, `ReceiveDescendants` goes on
with the next level and, after the last, prepares what was found: lower levels first,
in an order within a level that is the database's, up to the first record that throws
(`Reached`).  `Batch` is `Database.batch()` up to its `await`; `ExecuteBatch`,
`BatchFails` and `ExecuteFetch` are the adapter.  All calls belong to one writer that
starts several without awaiting them, which is what lets them cross.  Creations are left
to `RecordCaching`, so `NoOrphans` speaks of the records there are: a child that is
created when its level has been fetched already outlives its parent, and no line of the
repository says otherwise.  `SetField` is an
assignment outside of any call.  Marking as deleted is an update, because every table
has a `deleted_at` column.

### Observation

Only whether a record meets the query's conditions is kept of a record.  `rows` is
the database, `raw` the Models, which are ahead of it.  `stack` holds the loops
that are under way, innermost first, since the code they call is the
application's: a frame `shared` is `SharedSubscribable._notify()` at its `i`-th
subscriber of the `n` there were, `database` and `collection` the loops of the two
`_notify()`, `observe` the rest of the initial callback of a simple query,
`subscribe` and `replayed` the rest of `subscribe()`.  `HasTurn` is
`Array.forEach`: by index, over the array as it is now.  What an adapter does
while the stack is not empty cannot be seen before it is, so `AdapterStep` waits
until then; this leaves out no behaviour that JavaScript could tell apart.

### ColumnObservation

`observer` is the closure of `subscribeToQueryWithColumns()`: `fetching`, `pending`
and `first` are its three flags, `list` and `states` are `observedRecords` and
`recordStates`, `matching` the list of its simple source, `given` what its subscriber
saw last: the list with the observed columns of the Models as they were at that
moment.  With `kind = "count"` it is the closure of `subscribeToCount()`.  Its
subscriber does not call back, so each task is one step, and what a task does is a
function from observer to observer: `Notified` is `Database._notify()` for one change
set, first the subscribers of the database, then those of the collection.
`HoldNotifications` and `ReleaseNotifications` are the two ends of
`experimentalBatchNotifications()`, which may be nested.  A batch changes any set of
records.  `Recurring` says whether a column may take an earlier value again: this is
what the comparison with `recordStates` cannot always see (section 6).

### Sync

A record is `_status`, `_changed` and its columns; each edit writes a value of its
own.  `sync[s]` is the progress of one call of `synchronize()`: `Start` reads
`lastPulledAt`, `Pull` gets the changes, `Apply` opens the writer and destroys
local deletion marks, `ApplyBatch` applies the records (at once, or one record per
transaction with `_unsafeBatchPerCollection`), `SaveLastPulledAt` ends the writer;
`FetchLocal`, `Push`, `Mark` and `DestroyDeleted` are the push phase.  Between any
two of them users edit (not while a writer runs) and other clients change the
server.  The server is not part of the repository: it is modelled from what the
protocol in `src/docs-website/docs/docs/Sync/Backend.md` asks of it, and its
definitions are marked external.  `CallFails` loses a pull, a push before it took
effect, or the answer of a push that did; `Crash` loses everything that is not in
the database.

A column that is still in `_changed` wins over the server's, also when it was
pushed already and only waits to be marked: a newer foreign value of that column
is overwritten by the next push.  This is the documented client-wins rule, and
`PushesOnlyEdits` is stated so that it allows it.

### MigrationSync

`addedAt` is the history of the schema: the version that adds each column; a table is
created by the version of its first columns.  `app` is the release that runs: its
version, whether it comes with migrations, what it passes as
`migrationsEnabledAtVersion`.  `Start` is `getLastPulledAt()` and `getMigrationInfo()`;
`sync.migration` is what `getSyncChanges()` answers.  `BeginApply` opens the writer with
its two checks, `SaveLastPulledAt` and `SaveSchemaVersion` are its last two calls, each a
transaction.  `Launch` kills the app and starts the same or another release, which
migrates the database or erases it.  The server answers as
`src/docs-website/docs/docs/Sync/Backend.md` asks of it (`IsServed`) and is external.
Records are changed on the server only: the rows show what was received.

### StoredDatabase and NativeDatabase

`NativeDatabase` breaks every call of the JSI adapter into the SQL statements it
executes (`todo`): one step each, and a step of another adapter or a crash may come
between any two.  `conn` is a `Database` object with its `cachedRecords_` and its
transaction, `file` what is committed, `app` the JavaScript of one adapter.  When the
app is reloaded its adapter is `gone`, its call goes on and its connection is closed
by `Destroy` at some later moment; meanwhile `Open` may have made another.
`isDestroyed_` is read without having been initialised, so `Destroy` may do
nothing.  SQLite itself is external: `Free` and `Available` are its locks, `Refused`
its constraints, `Effect` what a statement does.  `Faults` names the statements that
may fail for a reason of SQLite's own.

In `StoredDatabase` a client asks for a batch (`Ask`: what to add and what to remove,
free to choose), the batch is written in one step, exactly as it was asked for
(`Write`), or refused without a trace (`Refuse`), and the client takes the answer
(`Return`).  An answer is "written" only after `Write`, and at most one `Write` answers an
`Ask`: half of a batch, a batch applied twice, or one that is answered with success
and is not there, is no behaviour of it.  The refinement is the identity on `file` and
maps the call of each adapter to its batch (`Requests`): what was asked for is what the
statements already executed and those still to come would insert and delete (`Ids`), so
the request stays the same while they are executed one by one.  A transaction is one step
there, its `COMMIT`, and everything before it a stutter.  A turbo load, a migration and the
creation of tables are single steps too; only `VACUUM` in reset mode, which commits by
itself, is a step with a visible intermediate state.

### Connection

One launch of one version of the app after another, on one database file.  `Apps` are
the schemas and migrations that `validateAdapter()` admits.  `Initialize`,
`SetUpWithSchema` and `SetUpWithMigrations` are the handlers of the bridge, `waiting`
the queue of its connection, `Settle` the running of that queue, `ConnectDriver` and
`DisconnectDriver` its two ends.  The three platforms differ in what a failure does to
connection and queue (the actions `...Fails`), and in Node a message is answered at
once.  `ReadVersions` is what `initialize()` may take for the file's version: on iOS a
read that fails is not noticed and gives 0, so `Compatibility` finds a new database and
`Erase` deletes the file; `misread` remembers that this happened in the launch.
(`InitializeFails` is the error that Node and Android report; on iOS a file that cannot be opened raises an exception, see `Crash`.)
`phase` is `_initPromise`; `database` and `held` are the part of
`unsafeResetDatabase()` that a failed reset leaves half done.

### LokiBridge

`queue`, `executing` and `stack` are the worker: without a web worker `stack` holds the
functions under way, and a frame `callback` is application code called from
`onActionDone()`.  `task` is the set-up or reset that waits for IndexedDB, step by step;
`loki.content` is the database in memory, `disk` the snapshot saved last.  `whole`
are the writes that are there, `half` those of which a part is.  `Opened` is `newLoki()`:
`GetsMemory` is the answer of the checker, which is asked each time.  When it cannot open
IndexedDB the adapter is LokiJS's for memory (`loki.memory`): it finds nothing (`Loaded`),
saves nothing to disk (`Saved`), deletes nothing there, and the set-up succeeds.  If the
set-up began in memory and `Reopen` finds IndexedDB, the schema is set up over whatever
collections are on disk (`SchemaSetUp`), and the content is `mixed` from then on.
`extraLokiOptions` come last and may turn autosave off (`options.autosave`).  `Autosave`
is the timer, `Crash` a closed or reloaded page, after which `Launched` may be another
version of the app.

## 3. Runs

| Run | Instance | Shows |
|---|---|---|
| `work_queue` | 2 writers, 2 readers, fair | the queue's invariants, `RunsOnce`, `EveryCallSettles`, the refinement of `SerialAccess` |
| `record_caching` | 2 records, 3 kinds of adapter, at most one failure of the database | the two halves of the cache agree |
| `record_caching_missed` (violation) | 2 records over a bridge | the lookup of a record marked as deleted gets a bare id |
| `model_editing` | 4 records (a chain of 2, 2 leaves), 2 columns, 3 calls, 1 failed batch | no orphans, everything marked, deletions final |
| `observation` | 2 records, 2 changes, 3 subscribers of 2 queries, 3 subscriptions of sources | when all is quiet every subscriber holds the current list |
| `column_observation` | 1 record, 3 overlapping batches, 2 subscriptions, nested holding of notifications | when all is quiet the observer has seen list and columns as they are |
| `sync` | 2 records of 2 columns, 3 edits, 1 fault, one call of `synchronize()` after the other, fair | nothing skipped, forgotten or overwritten; eventual consistency |
| `sync_overlapping` | 2 records, 2 edits, 2 overlapping calls | what the server never had stays marked |
| `migration_sync` | 1 table of 2 columns, 3 versions in any order, 2 foreign edits, 1 reset, 2 faults, fair | each column is asked for; eventual consistency |
| `native_database` | 2 adapters on one file, 2 records, 2 schema versions, both locking modes, failures of `BEGIN`, `SELECT` and `COMMIT` | the refinement of `StoredDatabase` (whole calls, batches as asked and as answered), the native cache, `lastPulledAt` |
| `connection` | 3 platforms, 3 schema versions, 3 launches, 2 calls per launch, misread versions on iOS, fair | schema, data, order and answers |
| `loki_bridge` | with and without web worker, fatal errors and autosave, 2 schema versions, 3 launches (IndexedDB may be refused in the first two), 2 calls, fair | responses, set-up, what is on disk, answers, saving |

The type invariant `TypeOK` is among the properties of the first two runs.  It is proved
for all modules that have theorems, and checked by a configuration of its own where there
are none, below.

Further configurations are kept beside them.  TLC refutes each of these:

| Configuration | Property | Why it matters |
|---|---|---|
| `MCWorkQueueFailFast.cfg` | `WriterExclusion` | a writer that joins sub-writers with `Promise.all` ends when one fails; the other overlaps the next writer |
| `MCRecordCachingSync.cfg` | `SentIsCached` | a query between a creation and its continuation loses the rows behind the bare id (synchronous adapters) |
| `MCModelEditingStray.cfg` | `ChangedByCallsOnly` | an updater that throws leaves the record open for assignments |
| `MCModelEditingPending.cfg` | `SentAtOnce` | a deletion with descendants that throws half way leaves records pending |
| `MCObservationSkipped.cfg` | `ListsAreCurrent` | a subscriber that leaves inside a notification makes the loop skip the next one |
| `MCObservationReplaced.cfg` | `OneSource` | a source is subscribed to twice, and once for ever |
| `MCColumnObservationRecurring.cfg` | `ObserverIsCurrent` | a column returns to an earlier value and the observer keeps the one between |
| `MCSyncUndeleted.cfg` | `DeletionsSurvive` | a deletion made during the push of the creation is dropped (the server sends `created`) |
| `MCSyncConcurrent.cfg` | `NothingSkipped` | a foreign edit is lost when calls overlap after the pull |
| `MCMigrationSyncUnnoted.cfg` | `NothingSkipped` | releases enable migration syncs from version 2 on: a column is lost when the app dies between the two marks |
| `MCNativeDatabaseRow.cfg` | `CachedWasDelivered` | a row that cannot be converted fails the query after its record was noted as cached |
| `MCConnectionDowngrade.cfg` | `NewerIsReset` | Android release builds reject a newer database instead of resetting it |
| `MCLokiBridgeReentrant.cfg` | `NoOngoingActions` | a reset from a callback is executed while the worker still has an action |
| `MCLokiBridgeHalf.cfg` | `HalfIsNotSaved` | by default half a batch is saved |

These pass:

| Configuration | Property | Why it matters |
|---|---|---|
| `MCObservationTypes.cfg` | `TypeOK` | the type invariant of a module without theorems |
| `MCColumnObservationPair.cfg` | `TypeOK`, `ObserverIsCurrent` | 2 records in one change set, with fewer batches |

Bounds, and why they are enough to be interesting:

* *Work queue.*  Four items give a running item, a sub-action of it, an item that
  waits and one more that is called while a timer is pending; a fork or a break of
  the chain needs no more than two queued items.  The invariants are proved for
  every number of items (section 5).
* *Record caching.*  `MaxInFlight = 2` lets two calls cross (a fetch with a batch,
  a batch with a reset), `MaxModels = 2` lets a second Model of a record appear,
  `MaxVersion = 2` tells one state of a Model from the next.  Two records let a result
  hold one that is missed and one that is lost with it.  A database failure that is
  not a duplicate id happens at most once.
* *Observation.*  Two changes and two records let a fetch cross both of them; three
  sources let a query be abandoned and observed again while another is observed.
* *Column observation.*  Three batches let one be announced, one be under way and one
  be made at the same moment, which is when the three flags matter (the violation with
  recurring values needs exactly three); two subscriptions let an answer come for a
  subscription that has ended; two levels of holding tell the outermost from the others.
  `MCColumnObservationPair.cfg` adds change sets of two records.
* *Model editing.*  Two levels of descendants are one that is found by a query whose
  answer is awaited and one below it; two leaves are needed for one to be prepared when
  the other throws.  Three calls let a third one meet the state in which two that
  crossed left the tree; two columns tell a lost mark from a lost value.
* *Migration syncs.*  Three versions allow a migration over several versions and one that
  was skipped by a release without migration syncs; two columns let a table be created
  with one and extended by the other.  Two faults are a crash in the middle of a
  synchronization and the release that follows it.
* *Native database.*  Two adapters are the reloaded app and its predecessor.  Two records
  make a batch of two statements, which a crash or failure may split, and let a turbo
  sync meet a record that is there; two versions are what a migration needs.
* *Connection.*  Three versions tell migrations that reach back from those that stop
  short, and three launches let a file be made by one, left half done by a second and
  met by a third version.  Two calls show their order across the set-up.
* *LokiJS.*  Two calls are a pull's records and its `lastPulledAt`, or a write and a
  reset; three launches allow a crash in the set-up after a crash.  `Refusals = {1, 2}`
  lets a launch in memory come before and after one that saved; what a third one in memory
  does no launch would see.
* *Sync.*  Three edits with two columns are what a conflict needs whose columns are
  resolved differently: one on each side, and one between fetch and marking.  One
  fault at any place covers each single failure; a crash and a lost answer have
  the same consequences for what is stored.

`CHECK_DEADLOCK FALSE` is set where the system may stop: when all calls have been made,
or the bounds on edits, batches, launches and subscriptions are used up.  The native
database never stops, and its run checks for deadlock: no order of two connections
leaves both waiting.

## 4. Fairness

* `WorkQueue`: the event loop runs a timer that is due and a continuation that is
  ready (weak fairness of `ExecuteNext`, `FinishItem`, `RefuseSubAction`).  That a
  body ends once all it awaits has settled is strong fairness of `Settle`: a body
  may raise the sub-action flag again and again, which disables `Settle` for the
  moment, and then ends.  A body that never ends by itself blocks the queue by
  design, and the code only warns of it after some seconds.  `EveryCallSettles`
  excepts exactly the documented mistake: a body that awaits a call queued behind
  itself.
* `Sync`: weak fairness of each `synchronize(s)`: the application calls it again and
  again, and its promises settle.  Edits and faults are bounded and need no
  fairness, so `EventuallyConsistent` says: once users and faults come to rest.
* `MigrationSync`: weak fairness of `synchronize`, for the same reason.  The release that
  is left in the end must be one that takes part in migration syncs, which
  `EventuallyConsistent` states as its premise: the others ask for nothing, by design.
* `Connection`: the bridge handles the messages it has and the event loop delivers its
  answers.  `EveryCallAnswered` excepts the states in which the code itself strands calls
  (`Stranded`): Node after a schema that could not be set up, iOS after a failed
  migration.
* `LokiBridge`: messages arrive (`Receive`, `Deliver`), functions that were called return
  (`Return`, `Execute`), IndexedDB answers, with success or failure (`Asynchronous`), the
  autosave timer fires as long as it is set, and its saves succeed (a save that IndexedDB
  refuses, out of quota, is not modelled).  Launches and calls are bounded and need none.
* `RecordCaching`, `ModelEditing`, `Observation`, `ColumnObservation` and `NativeDatabase` are checked for safety only; their properties
  speak of the states in which nothing is under way.

## 5. Proofs

Every theorem holds for all values of the constants, within the assumptions that its
module states about them (`...Assumption`, which TLC evaluates in every run of the module)
and those in the last column.  The bounds on calls, edits, faults and versions are
constants too, so none of the results depends on their size.  Each argument is an inductive
invariant: a conjunction that `Init` establishes, every action keeps (one lemma per
action, or per group of actions that differ little) and that implies the property.  TLC
checked each of these invariants on a small instance before it was proved.

| Module | Theorem | Says | Assumes |
|---|---|---|---|
| `WorkQueueProofs` | `TypeCorrect` | `Spec => []TypeOK` | |
| | `ExecutorIsUnique` | `Spec => []OneExecutor` | |
| | `QueueStaysFresh` | `Spec => []QueueIsFresh` | |
| | `WritersAreExclusive` | `Spec => []WriterExclusion` | `~FailFast` |
| | `CallsRunOnce` | `Spec => RunsOnce` | |
| | `AccessIsSerial` | the safety part of `ImplementsSerialAccess` | |
| `RecordCachingProofs` | `TypeCorrect` | `Spec => []TypeOK` | no `lokiSync`, `~Stale` |
| | `OneModelInUse` | `Spec => []OneLiveModel` | no `lokiSync`, `~Stale` |
| | `ResetIsClean` | `Spec => ResetLeavesNothing` | no `lokiSync`, `~Stale` |
| | `OnlyDeletedAreMissed` | `Spec => []OnlyDeletedMissed` | no `lokiSync`, `~Stale` |
| | `CachedIsTrue` | `Spec => []CacheIsCoherent` | no `lokiSync`, `~Stale` |
| | `SentStaysCached` | `Spec => []SentIsCached` | only `sqlite`, `loki`; `~Stale` |
| `ModelEditingProofs` | `TypeCorrect` | `Spec => []TypeOK` | |
| | `ChildrenDieFirst` | `Spec => []NoOrphans` | |
| | `ChangesStayMarked` | `Spec => []ChangesAreMarked` | |
| | `DeletionIsFinal` | `Spec => DeletedForGood` | |
| `SyncProofs` | `TypeCorrect` | `Spec => []TypeOK` | |
| | `UnsentStaysMarked` | `Spec => []UnsentIsMarked` | |
| | `CreationsAreKept` | `Spec => CreationsSurvive` | |
| | `NothingIsSkipped` | `Spec => []NothingSkipped` | `OneCall` |
| | `LocalEditsAreKept` | `Spec => LocalEditsSurvive` | `OneCall`, `SendCreatedAsUpdated` |
| | `PushesAreEdits` | `Spec => PushesOnlyEdits` | `OneCall` |
| `MigrationSyncProofs` | `TypeCorrect` | `Spec => []TypeOK` | |
| | `MarkIsNeverAhead` | `Spec => []NeverAhead` | |
| | `NothingIsSkipped` | `Spec => []NothingSkipped` | `SinceFirstRelease` |
| `NativeDatabaseProofs` | `TypeCorrect` | `Spec => []TypeOK` | |
| | `WholeCalls` | `Spec => ImplementsStoredDatabase` | |
| | `CacheIsDelivered` | `Spec => []CachedWasDelivered` | `"row" \notin Faults` |
| | `PulledIsLoaded` | `Spec => PulledImpliesLoaded` | |
| `ConnectionProofs` | `TypeCorrect` | `Spec => []TypeOK` | |
| | `SchemaIsUsed` | `Spec => []UsesItsSchema` | |
| | `CallsAreAnsweredInOrder` | `Spec => []AnswersInOrder` | |
| | `CachesAreStored` | `Spec => []HeldIsStored` | |
| | `OnlyResetsLoseData` | `Spec => DataIsKept` | |
| `LokiBridgeProofs` | `TypeCorrect` | `Spec => []TypeOK` | |
| | `ResponsesAreInOrder` | `Spec => []ResponsesInOrder` | |
| | `SchemaIsUsed` | `Spec => []UsesItsSchema` | |
| | `DiskStaysSound` | `Spec => []DiskIsSound` | |

Each assumption is one that the property needs, and a configuration shows it, or the
reason is given here:

* `~FailFast`: `MCWorkQueueFailFast.cfg` refutes `WriterExclusion` without it.
* `OneCall`, at most one `synchronize()` at a time: "You SHOULD NOT call `synchronize()` while
  synchronization is already in progress" (`src/docs-website/docs/docs/Sync/Frontend.md:107`);
  `MCSyncConcurrent.cfg` shows the edit that two of them lose.
* `SendCreatedAsUpdated`: `MCSyncUndeleted.cfg` refutes `DeletionsSurvive`, one half of
  `LocalEditsSurvive`, with the other setting.
* `SinceFirstRelease`, migration syncs from version 1 on or never:
  `MCMigrationSyncUnnoted.cfg`.
* `"row" \notin Faults`: `MCNativeDatabaseRow.cfg`.
* `~Stale`: an application that never uses a Model it kept from before its record was
  destroyed.  With `Stale = TRUE`, one record and `MaxModels = MaxInFlight = 3`, TLC
  refutes `OneLiveModel`; with two Models, as in the run, the case does not occur.
* No `lokiSync`: the recovery of LokiJS's driver clears the list of cached ids, and
  without a worker that happens inside the call.  The record is then sent again in full
  while its Model is cached, which the claims below exclude; the properties themselves are
  only model-checked for that adapter.
* Only `sqlite` and `loki`, the two that answer across a bridge: `MCRecordCachingSync.cfg`
  refutes `SentIsCached` for `sqliteSync`.  `OnlyDeletedMissed` claims nothing of the
  adapters that answer inside the call.

### Why the invariants are what they are

*Work queue.*  None of the three invariants is inductive alone.  `OneExecutor` needs to
know that the item whose block has ended is the head (`Running = {Head(queue)}`) and that
what is behind it has not started; `QueueIsFresh` says the latter, and needs that
a call is enqueued only once, which is what `Bookkeeping` relates: the state of a
block, of its promise and of its host.  Their conjunction with the types is
`QueueInv`, which every action preserves under either value of `FailFast`.
Exclusion needs more: that every block that is executing belongs to the head
(`RunsForHead`), so the head must not end while a sub-action executes.  It cannot
when bodies await the sub-actions they start, and those theirs: `SubActionsJoined`
says that every set of executing sub-actions has a member that is awaited by an
executing block outside the set.  For the set of all executing sub-actions that
block is the item itself, so its `AllSettled` guard is false and it cannot settle.
`FlagOwnerIsLive` makes the block that raised the flag available as the one that
awaits.  `IndInv` is all of them together.  With `FailFast = TRUE` the argument breaks at
`SubActionsJoined`.  The refinement of `SerialAccess` is shown step by step from
`QueueInv`, also for `FailFast = TRUE`: the holder is the head while it runs, the waiting
clients are the rest of the queue.

*Record caching.*  What a message says of a record is true when it arrives, not when it
was sent.  `LineOf` therefore reads the answers, the call that is being executed and the
calls as one line in their order, and `CachingInv` states for every place in it what the
collection will hold when the line has been worked off up to there: whose Model a full row
or a bare id will meet, and that a bare id is behind the full row that it relies on.  A
step appends to the line, marks a place as executed, or drops the first one, and each
of the three changes the claims in one way only.
That there is one Model, and that a reset is clean, follows from these.  That the Model
is the right one needs the line again, read for values: `CoherenceInv`.  A bare id on
its way has a cached Model, or an answer ahead of it that makes one (`BareIsKnown`); behind
a bridge so has every live id that the driver takes for sent, on its way or not
(`SentIsKnown`), hence `OnlyDeletedMissed` and `SentIsCached`.  The last write of a record
in the line is, once executed, what the table holds (`LastIsStored`) and, if it is an
update, what the cached Model already is (`LastIsCached`); a row on its way is the table's
or was overwritten since it was read (`ShownIsCurrent`); synchronization destroys a record
only where table, answers and Model all have it deleted (`DestroyedIsDeleted`).  When no
write of the record is left in the line, Model and table agree (`CachedIsStored`), which is
`CacheIsCoherent`.  A batch that failed, or that will be answered with its failure, voids
what is said of the values of its records (`Sound`), and nothing else.

*Model.*  `BatchesAreComplete` and `TreesAreComplete` say of each batch under way, and of
each deletion that has found a part of its tree, that what it deletes includes all living
children of what it deletes.  They need that the levels were fetched in order
(`Shape`, `OneFetchPerCall`) and that what is deleted stays so in every batch that is
behind (`DeletionsStand`).

*Synchronization.*  `ServedInv` follows each value that the server has had through the
answers and pushes that carry it; it holds for overlapping calls.  `CallInv` is for one
call at a time: the phase of the call says which of the server's changes it has seen
(`KnownInPhase`), what of the answer has been applied (`AppliedIsServed`), and what of the
push is still as it was fetched (`PushIsCurrent`); a stamp is never ahead of
the clock (`StampsOrdered`).

*Migration syncs.*  `MigrationInv` says for every column either that it is as the server had
it at `lastPulledAt` or that the next migration sync will ask for it.  While a
synchronization is under way this is what its answer contains (`AnswerIsExact`) and what of
it has been applied (`AppliedIsHeld`), with a migration that has not become old
meanwhile (`MigrationIsCurrent`).

*Native database.*  `FileInv` says of each call, by the statements that are left of it, what
its transaction has made of the file since `BEGIN`: what is left of the script, executed
on that, gives exactly the effect that `StoredDatabase` promises of the call.  A
statement is then a stutter of the abstract database, and `COMMIT` is one step of it.  For
batches the proof (`WholeCalls`) is over the file and the requests together: a statement
moves its record from those to come to those executed, so the request stays
(`StatementCalls`); the last one commits what was requested and turns it to
"written"; a failure rolls back and turns it to "refused" (`CallStep`, `WholeStep`).
`CacheInv` and `LoadedInv` relate the native cache and the mark of a turbo sync to the call
that is under way.

*Connection.*  `ConnectionInv` has four parts beside the types.  The file has the tables of
its version (`FileIsWhole`), since both set-ups are transactions.  There is one message or
answer about the set-up at a time, and what it has found is still so
(`SetUpInv`), since nothing changes the file in between, unless the version was misread.
`OnlyResetsLoseData` says that these are all the ways in which a file that has data can
lose it: the action that erases is allowed by every finding of `initialize()`, the misread
one included, and the invariant must exclude all others.  Calls are in one line: answers,
then calls that wait for the connection, then messages (`LineInv`), or they are lost, which
on iOS happens to a call only together with all later ones (`Lost`).  While a reset is
under way it is the last call (`HeldInv`), so its answer finds nothing behind it that
would bring a record back.

*LokiJS.*  Responses under way, actions in the worker's queue and messages under way are
one line, in the order of the calls, and it is what the dispatcher waits for (`LineInv`,
`OrderInv`).  While a reset is pending it is the last call (`ResetInv`).  A set-up or reset
that waits for IndexedDB is the head of the worker's queue (`TaskInv`); the one exception
is a reset that a callback started and that has been answered with an error already, and
then the database is broken and nothing is pending.  The worker calls the application
back only when the set-up has been answered (`StackInv`).  `SchemaInv` adds that the
driver is not set up while the set-up is still ahead, so that nothing is executed before
it; the tables are those of the version in memory and on disk, except in a content that
is `mixed`.  `PrefixInv` says of memory and
disk alike that they keep the order of the writes, that all that is to be executed is
behind what is there, and that a write that succeeded is in memory unless a reset behind
it has been started.

### What is only model-checked

* Liveness (`EveryCallSettles`, `EventuallyConsistent`, `EveryCallAnswered`,
  `WritesAreSaved`, the fairness of `SerialAccess`) and `ENABLED` are out of the prover's
  reach, and so is induction over data.
* `RecordCaching` with `lokiSync` or `Stale`; everything about `Observation` and
  `ColumnObservation`.

## 6. Findings

Each is a configuration that TLC refutes, with the line of the repository it
contradicts.  `PROJECT.json` lists the first one as a run.

1. `record_caching_missed`: marking a record as deleted is sent as an update, because
   every table has a `deleted_at` column; the driver goes on taking it for sent while
   the collection drops it, and `find()` of it throws; "We should never get a record ID
   if we don't have it in our cache" (`src/src/Collection/RecordCache.js:78`).
2. `MCObservationSkipped.cfg`: `_unsubscribe()` splices the array that `_notify()` iterates,
   so the subscriber that follows is passed over; "its notifications are passed to
   subscribers here" (`SharedSubscribable/index.js:10`).
3. `MCSyncUndeleted.cfg`: a record created, pushed, and deleted before the push is marked is
   brought back by the next pull, which delivers it as `created`; "local changes between
   "fetch local changes" and "mark local changes as synced" ... will be pushed during next
   sync" (`src/docs-website/docs/docs/Implementation/SyncImpl.md:91`).
4. `MCMigrationSyncUnnoted.cfg`: the schema version of the first synchronization is saved
   after `lastPulledAt`, by a call of its own (`sync/impl/synchronize.js:117`).  When the
   app dies in between it is never saved, and a release that enables migration syncs at a
   later version does not ask for the columns added before it; "even leaves local app in
   inconsistent (not fully synced) state, we should still achieve consistency with the
   next sync" (`src/docs-website/docs/docs/Implementation/SyncImpl.md:85`).  With migration
   syncs enabled from the first version on the mark is not needed, and `migration_sync`
   passes.
5. `MCModelEditingStray.cfg`: `prepareUpdate()` sets `_isEditing` and an updater that throws
   leaves it set: fields can be assigned outside of calls from then on, and the next
   update writes them; "Not allowed to change record ... outside of create/update()"
   (`src/src/Model/index.js:547`).
6. `MCModelEditingPending.cfg`: `experimentalMarkAsDeleted()` prepares the descendants it found
   one after the other; one that was marked as deleted meanwhile throws, and those
   before it are never sent: every later change of them is refused as pending;
   "Prepared changes must be executed by **synchronously** passing them to
   `database.batch()`" (`src/src/Model/index.js:222`).
7. `MCWorkQueueFailFast.cfg`: "no other Writer is simultaneously executing"
   (`src/src/Database/index.js:406`) does not hold when a writer joins sub-writers with
   `Promise.all` and one fails.
8. `MCRecordCachingSync.cfg`: with a synchronous adapter, a query in a microtask between
   `adapter.batch()` and the continuation of its `await` meets a bare id, throws, and
   the full rows behind it are lost until the application restarts; this contradicts the same line.
9. `MCObservationReplaced.cfg`: a new subscriber that unsubscribes the only other one while
   it is given the last value makes `subscribe()` subscribe to the source again;
   "Multiple subscribers only cause a single subscription of the source"
   (`SharedSubscribable/index.js:12`).
10. `MCColumnObservationRecurring.cfg`: an emission shows Models as they are, which may be
    ahead of their announcements, but `recordStates` is brought up to date only for records
    that join the list.  If the column is back at the recorded value when its changes are
    announced (batches that overlap or whose notifications are held back), nothing is
    emitted and the subscriber keeps the value between; "any of the records in the list
    has any of the given fields changed" (`subscribeToQueryWithColumns/index.js:36`).
11. `MCSyncConcurrent.cfg`: a second `synchronize()` that starts after the first one's push
    is not aborted, and a foreign edit can be lost; "it will safely abort"
    (`src/docs-website/docs/docs/Sync/Frontend.md:107`).
12. `MCNativeDatabaseRow.cfg`: `Database::query()` notes a record as cached before its row is
    converted (`Database-query.cpp:54`); when a row fails, the records noted are sent as
    bare ids from then on, which contradicts it again.
13. `MCConnectionDowngrade.cfg`: `isCompatible()` on Android says "Will reset database"
    through a logger that release builds do not have (`WMDatabaseDriver.java:258`):
    `initialize` fails instead.
14. `MCLokiBridgeReentrant.cfg`: "worker should not have ongoing actions"
    (`lokijs/worker/DatabaseBridge.js:41`) fails for a reset started in a callback of a
    synchronous worker; that reset is answered with an error while it is being executed.
15. `MCLokiBridgeHalf.cfg`: "writes MUST succeed" (`lokijs/worker/DatabaseDriver.js:140`):
    unless `experimentalAllowsFatalError` is set, a batch that fails half way stays in
    memory and is saved.

Three properties name exceptions that the code makes necessary.  They are not
contradictions of a line of the repository, and TLC refutes each property
when its exception is taken out:

* `DataIsKept` excepts `misread`: on iOS `userVersion` ignores that its query failed
  (`WMDatabase.m:112`), `isCompatible` takes 0 for a new database
  (`WMDatabaseDriver.m:47`), and `setUpWithSchema` deletes the file.  The trace is a write,
  a restart, one failed read, and the set-up: user data is lost with no reset and no
  migration missing.
* `WritesAreSaved` excepts `loki.memory` and `~options.autosave`: when IndexedDB cannot be
  opened (private mode, quota) `getLokiAdapter()` goes on in memory
  (`lokijs/worker/lokiExtensions.js:68`), the set-up succeeds and writes are answered that
  never reach the disk; and `extraLokiOptions` may turn autosave off
  (`lokiExtensions.js:83`, `lokijs/index.js:44`).
* `UsesItsSchema` of `LokiBridge` excepts content that is `mixed`: IndexedDB could not be
  opened when the set-up began and could when it went on, so `deleteDatabase()` deleted the
  memory and `_setUpSchema()` met the collections of an older version, which it leaves
  as they are, and noted its own version.

## 7. What is not modelled, and the plan

In this order:

1. *Proofs* (below).
2. The *native variants* of the driver's cache: Android keeps a list (iOS and C++ keep
   sets), in which an id that `destroyDeletedRecords` left may be twice; disposable records
   and subscribers of single Models.
3. *Algorithms*: `sanitizedRaw`, `encodeMatcher`, each against a reference definition over
   bounded inputs.
4. *Synchronization, second stage*: `conflictResolver`, replacement limited by queries.  A
   reset during the push phase was looked at and left out: the marking writer queued
   behind it finds an empty database, where SQLite's `UPDATE` changes no row and LokiJS
   rejects the call.

Abstract specifications worth stating: `SerialAccess` and `StoredDatabase` (done), a record store with one
Model per record that `RecordCaching` implements, a query whose subscribers see a
sequence of database states for `Observation`.

Proofs, in order: `RecordCaching` with `lokiSync`; `OneSource` of
`Observation` for subscribers that unsubscribe between tasks; `ObserverIsCurrent` and
`ListsAreCurrent`.

Not modelled, with no plan to: the text of SQL and of query encoders (no state), React
bindings and hooks (their scheduling is React's), diagnostics, utilities without state,
tooling, examples, documentation and vendored code.  Most lines of C and C++ in the
repository are vendored (fmt, glog, FMDB, the Pods of a test project) and belong to
other projects; the repository's own C++ is `src/native/shared`, which
`NativeDatabase` models.  A turn of the event loop is
modelled, its microtask order is not: continuations that are ready may resume in
any order unless a queue of the code orders them.
