---------------------------- MODULE RecordCaching ----------------------------
(* The two halves of the record cache and the path of a batch through them.

   The adapter remembers which records it has already sent to JavaScript
   (cachedRecords of the drivers) and from then on sends only their ids; the
   collection keeps the Model of each of them (RecordCache) and looks bare ids
   up there.  The two halves are updated at different moments of a batch:
     src/src/Database/index.js, src/src/Collection/index.js,
     src/src/Collection/RecordCache.js, src/src/Model/index.js,
     src/src/adapters/sqlite/sqlite-node/DatabaseDriver.js,
     src/src/adapters/lokijs/worker/DatabaseDriver.js.

   One collection is modelled.  A call of the adapter either travels through
   FIFO channels (native modules, Loki in a worker) or is executed inside the
   call (sqlite-node, JSI, Loki without a worker).                          *)
EXTENDS Naturals, Sequences

CONSTANTS
    Id,             \* record ids of the collection
    NoId,
    Adapters,       \* the adapters the database may have been opened with
    CanFail,        \* TRUE: the database may fail to apply a batch; as a bound,
                    \* at most one failure that is not a duplicate id
    Stale,          \* TRUE: a record may be destroyed through a Model of an earlier
                    \* record with its id
    MaxVersion,     \* bound on the updates of one Model
    MaxModels,      \* bound on the Models ever made for one id
    MaxInFlight     \* bound on the adapter calls under way

ASSUME CachingAssumption ==
    /\ NoId \notin Id
    /\ Adapters \subseteq {"sqlite", "sqliteSync", "loki", "lokiSync"}
    /\ CanFail \in BOOLEAN /\ Stale \in BOOLEAN
    /\ MaxVersion \in Nat \ {0} /\ MaxModels \in Nat \ {0}
    /\ MaxInFlight \in Nat \ {0}

VARIABLES
    driver,     \* adapter: its kind; rows: the table; sent: cachedRecords
    calls,      \* calls on their way to the driver
    answers,    \* its answers, and batch promises whose await has not resumed
    models,     \* the Model objects made for each id, in order of creation
    cache,      \* RecordCache.map: the Model of each id (an index), or 0
    resetting,  \* the adapter is replaced by ErrorAdapter
    missed,     \* ids looked up in vain in the last step, with their rows
    tainted     \* ids with a batch that the database did not apply

vars == <<driver, calls, answers, models, cache, resetting, missed, tainted>>

NoRow == [ver |-> 0, deleted |-> FALSE]
Row   == [ver : 1..MaxVersion, deleted : BOOLEAN]
IsLive(row) == row # NoRow /\ ~row.deleted

Statuses == {"pending", "live", "deleted", "orphan"}
Ops == {"find", "query", "create", "update", "destroyPermanently",
        "destroyDeletedRecords", "clearCachedRecords", "unsafeResetDatabase"}
Call == [op : Ops, id : Id \cup {NoId}, model : Nat, row : Row \cup {NoRow}]
(* A record sent back: the whole row, or its id alone when it was sent before. *)
Found  == [id : Id, bare : BOOLEAN, row : Row \cup {NoRow}]
Answer == [call : Call, ok : BOOLEAN, found : SUBSET Found]

(* The adapter answers inside the call.  Otherwise it is behind a bridge. *)
Synchronous == driver.adapter \in {"sqliteSync", "lokiSync"}
Loki        == driver.adapter \in {"loki", "lokiSync"}

Emptied(d) == [d EXCEPT !.rows = [id \in Id |-> NoRow], !.sent = {}]

-----------------------------------------------------------------------------
(* The driver: find(), cachedQuery() and batch() of DatabaseDriver. *)

(* find(): an id that was sent before is answered without a look at the table. *)
FoundBy(d, ids) ==
    {[id |-> id, bare |-> id \in d.sent, row |-> d.rows[id]] : id \in ids}

Put(d, id, row) == [d EXCEPT !.rows[id] = row]

(* Mutant: a reset empties the tables and forgets cachedRecords. *)
ExecutedKeepingSent(d, c) ==
    CASE c.op \in {"find", "query"} ->
           [d EXCEPT !.sent = @ \cup {id \in Id : IsLive(d.rows[id]) /\ c.id \in {id, NoId}}]
      [] c.op \in {"create", "update"} ->
           [Put(d, c.id, c.row) EXCEPT !.sent = @ \cup {c.id}]
      [] c.op = "clearCachedRecords" -> [d EXCEPT !.sent = {}]
      [] c.op = "unsafeResetDatabase" -> [Emptied(d) EXCEPT !.sent = d.sent]
      [] OTHER -> [Put(d, c.id, NoRow) EXCEPT !.sent = @ \ {c.id}]

(* What a call does to the driver. *)
Executed(d, c) ==
    CASE c.op = "find" ->
           IF d.rows[c.id] # NoRow THEN [d EXCEPT !.sent = @ \cup {c.id}] ELSE d
      [] c.op = "query" ->
           [d EXCEPT !.sent = @ \cup {id \in Id : IsLive(d.rows[id])}]
      [] c.op = "create" ->
           [Put(d, c.id, c.row) EXCEPT !.sent = @ \cup {c.id}]
      [] c.op = "update" ->
           IF d.rows[c.id] # NoRow THEN Put(d, c.id, c.row) ELSE d
      [] c.op = "destroyPermanently" ->
           [Put(d, c.id, NoRow) EXCEPT !.sent = @ \ {c.id}]
      [] c.op = "destroyDeletedRecords" ->     \* SQLite: with IGNORE_CACHE
           [Put(d, c.id, NoRow) EXCEPT !.sent = IF Loki THEN @ \ {c.id} ELSE @]
      [] c.op = "clearCachedRecords" -> [d EXCEPT !.sent = {}]
      [] c.op = "unsafeResetDatabase" -> Emptied(d)

FoundIn(d, c) ==
    CASE c.op = "find" /\ (d.rows[c.id] # NoRow \/ c.id \in d.sent) -> FoundBy(d, {c.id})
      [] c.op = "query" -> FoundBy(d, {id \in Id : IsLive(d.rows[id])})
      [] OTHER -> {}

IsBatch(c) == c.op \in {"create", "update", "destroyPermanently"}

(* A batch is one transaction: it fails as a whole, on a duplicate id or on an
   error of the database.  (Loki has no transactions; its batches here have one
   operation.  It throws on the update of a record it does not find; SQLite's
   UPDATE changes no row.)                                                   *)
MustFail(d, c) ==
    \/ c.op = "create" /\ d.rows[c.id] # NoRow
    \/ Loki /\ c.op = "update" /\ d.rows[c.id] = NoRow
FailureSeen == tainted # {} \/ \E k \in 1..Len(answers) : ~answers[k].ok
MayFail(d, c)  == MustFail(d, c) \/ (CanFail /\ ~FailureSeen /\ IsBatch(c))

(* d is the driver before the call, next after it, a what it answers. *)
Execute(d, c, next, a) ==
    \/ /\ ~MustFail(d, c)
       /\ next = Executed(d, c)
       /\ a = [call |-> c, ok |-> TRUE, found |-> FoundIn(d, c)]
    \/ /\ MayFail(d, c)
       /\ next = d
       /\ a = [call |-> c, ok |-> FALSE, found |-> {}]

-----------------------------------------------------------------------------
(* The JavaScript side. *)

(* The database may hold records of earlier sessions, none of them sent yet. *)
Init ==
    /\ driver \in [adapter : Adapters, rows : [Id -> {NoRow} \cup [ver : {1}, deleted : BOOLEAN]],
                   sent : {{}}]
    /\ calls = <<>>
    /\ answers = <<>>
    /\ models = [id \in Id |-> <<>>]
    /\ cache = [id \in Id |-> 0]
    /\ resetting = FALSE
    /\ missed = {}
    /\ tainted = {}

UnderWay == {calls[k] : k \in 1..Len(calls)} \cup {answers[k].call : k \in 1..Len(answers)}

(* A call that JavaScript resumes later: a batch or a reset.  Executed inside
   the call, its promise is resolved but the code after `await` runs in a later
   microtask.                                                                *)
Send(c) ==
    /\ Len(calls) + Len(answers) < MaxInFlight
    /\ IF Synchronous
       THEN \E next \in {driver, Executed(driver, c)}, ok \in BOOLEAN :
              LET a == [call |-> c, ok |-> ok, found |-> {}] IN
              /\ Execute(driver, c, next, a)
              /\ driver' = next
              /\ answers' = Append(answers, a)
              /\ UNCHANGED calls
       ELSE /\ calls' = Append(calls, c)
            /\ UNCHANGED <<driver, answers>>

(* recordsFromQueryResult() in the order of the result.  A bare id that is not
   cached throws: what came before it is kept, what comes after is dropped.  *)
Misses(found) == {x \in found : x.bare /\ cache[x.id] = 0}

Kept(found, K) == IF Misses(found) = {} THEN K = found ELSE K \subseteq found \ Misses(found)

(* Mutant: a row makes a Model whether or not one is cached. *)
IsNewAlways(K, id) == \E x \in K : x.id = id /\ ~x.bare

(* _modelForRaw(): a Model is made unless one is cached. *)
IsNew(K, id) == \E x \in K : x.id = id /\ ~x.bare /\ cache[id] = 0
RowIn(K, id) == (CHOOSE x \in K : x.id = id).row

(* Mutant: what is in the result is registered, made or not. *)
InstantiateUnmade(K) ==
    /\ models' = models
    /\ cache' = [id \in Id |-> IF IsNew(K, id) THEN Len(models[id]) + 1 ELSE cache[id]]

Instantiate(K) ==
    /\ models' = [id \in Id |->
         IF IsNew(K, id)
         THEN Append(models[id],
                [ver |-> RowIn(K, id).ver,
                 status |-> IF RowIn(K, id).deleted THEN "deleted" ELSE "live"])
         ELSE models[id]]
    /\ cache' = [id \in Id |-> IF IsNew(K, id) THEN Len(models[id]) + 1 ELSE cache[id]]

(* _cachedModelForId(): report the id; on Loki also clear the driver's set. *)
Report(found) ==
    IF Misses(found) = {} THEN missed' = {}
    ELSE \E x \in Misses(found) : missed' = {[id |-> x.id, row |-> x.row]}

Plain(op) == [op |-> op, id |-> NoId, model |-> 0, row |-> NoRow]

Recover(found) == Misses(found) # {} /\ Loki

(* Collection._fetchRecord() of an id that is not cached, _fetchQuery(). *)
Fetch(c) ==
    /\ ~resetting
    /\ \A id \in Id : Len(models[id]) < MaxModels
    /\ IF Synchronous
       THEN \E K \in SUBSET FoundIn(driver, c) :
              LET found == FoundIn(driver, c)
                  next  == Executed(driver, c) IN
              /\ Kept(found, K)
              /\ Instantiate(K)
              /\ Report(found)
              /\ driver' = IF Recover(found)
                           THEN Executed(next, Plain("clearCachedRecords")) ELSE next
              /\ UNCHANGED <<calls, answers>>
       ELSE Send(c) /\ UNCHANGED <<models, cache>> /\ missed' = {}
    /\ UNCHANGED <<resetting, tainted>>

FetchRecord(id) == cache[id] = 0 /\ Fetch([Plain("find") EXCEPT !.id = id])

FetchQuery == Fetch(Plain("query"))

(* Mutant: the Model is encoded as it was before the change. *)
BatchStale(op, id, m, model) ==
    /\ ~resetting
    /\ models' = [models EXCEPT ![id] =
                    IF m > Len(@) THEN Append(@, model) ELSE [@ EXCEPT ![m] = model]]
    /\ LET old == IF m > Len(models[id]) THEN model ELSE models[id][m] IN
       Send([op |-> op, id |-> id, model |-> m,
             row |-> IF op = "destroyPermanently" THEN NoRow
                     ELSE [ver |-> old.ver, deleted |-> old.status = "deleted"]])
    /\ UNCHANGED <<cache, resetting, tainted>>
    /\ missed' = {}

(* prepareCreate(), prepareUpdate() and the like change the Model and
   Database.batch() encodes it in the same synchronous stretch, clearing
   _preparedState of all but creations before the adapter has answered.      *)
Batch(op, id, m, model) ==
    /\ ~resetting
    /\ models' = [models EXCEPT ![id] =
                    IF m > Len(@) THEN Append(@, model) ELSE [@ EXCEPT ![m] = model]]
    /\ Send([op |-> op, id |-> id, model |-> m,
             row |-> IF op = "destroyPermanently" THEN NoRow
                     ELSE [ver |-> model.ver, deleted |-> model.status = "deleted"]])
    /\ UNCHANGED <<cache, resetting, tainted>>
    /\ missed' = {}

Create(id) ==
    /\ Len(models[id]) < MaxModels
    /\ cache[id] = 0
    /\ \A k \in 1..Len(models[id]) : models[id][k].status # "pending"
    /\ Batch("create", id, Len(models[id]) + 1, [ver |-> 1, status |-> "pending"])

Update(id, m) ==
    /\ models[id][m].status = "live"
    /\ models[id][m].ver < MaxVersion
    /\ Batch("update", id, m, [models[id][m] EXCEPT !.ver = @ + 1])

(* Every table has a deleted_at column (withDefaultMetadataColumns), so marking
   as deleted goes to the adapter as an update.                              *)
MarkAsDeleted(id, m) ==
    /\ models[id][m].status = "live"
    /\ Batch("update", id, m, [models[id][m] EXCEPT !.status = "deleted"])

(* The record was created anew beside this Model of it, or is about to be. *)
IsReplaced(id, m) ==
    \/ \E n \in DOMAIN models[id] : n # m /\ models[id][n].status = "live"
    \/ \E c \in UnderWay : c.op = "create" /\ c.id = id /\ c.model # m

(* A Model that was deleted already may be destroyed, again and again. *)
DestroyPermanently(id, m) ==
    /\ models[id][m].status \in {"live", "deleted"}
    /\ Stale \/ ~IsReplaced(id, m)
    /\ Batch("destroyPermanently", id, m, [models[id][m] EXCEPT !.status = "deleted"])

(* adapter.destroyDeletedRecords(), called by synchronization for ids it has
   read with getDeletedRecords(), once for each of them and within its writer, so
   after the batches of earlier writers.  One that it then creates again it does
   not wait for.                                                             *)
DestroyDeletedRecords(id) ==
    /\ ~resetting
    /\ driver.rows[id].deleted
    /\ \A c \in UnderWay : c.id = id => c.op = "find"
    /\ Send([Plain("destroyDeletedRecords") EXCEPT !.id = id])
    /\ UNCHANGED <<models, cache, resetting, tainted>>
    /\ missed' = {}

(* Database.unsafeResetDatabase() up to the await of the adapter. *)
Reset ==
    /\ ~resetting
    /\ resetting' = TRUE
    /\ Send(Plain("unsafeResetDatabase"))
    /\ UNCHANGED <<models, cache, tainted>>
    /\ missed' = {}

(* The driver takes the next call. *)
DriverStep ==
    /\ calls # <<>>
    /\ LET c == Head(calls) IN
       \E next \in {driver, Executed(driver, c)}, ok \in BOOLEAN,
          found \in {{}, FoundIn(driver, c)} :
         LET a == [call |-> c, ok |-> ok, found |-> found] IN
         /\ Execute(driver, c, next, a)
         /\ driver' = next
         /\ answers' = Append(answers, a)
    /\ calls' = Tail(calls)
    /\ UNCHANGED <<models, cache, resetting, tainted>>
    /\ missed' = {}

(* JavaScript receives the answer of a find or a query. *)
ReceiveRecords ==
    /\ answers # <<>>
    /\ Head(answers).call.op \in {"find", "query"}
    /\ LET found == Head(answers).found IN
       /\ \E K \in SUBSET found : Kept(found, K) /\ Instantiate(K)
       /\ Report(found)
       /\ calls' = IF Recover(found)
                   THEN Append(calls, Plain("clearCachedRecords")) ELSE calls
    /\ answers' = Tail(answers)
    /\ UNCHANGED <<driver, resetting, tainted>>

(* Mutant: a record that was created does not enter the cache. *)
ResumeBatchUncached ==
    /\ answers # <<>>
    /\ IsBatch(Head(answers).call)
    /\ LET c == Head(answers).call IN
       /\ models' = IF c.op = "create"
                    THEN [models EXCEPT ![c.id][c.model].status = "live"] ELSE models
       /\ cache' = [cache EXCEPT ![c.id] = IF c.op = "update" THEN @ ELSE 0]
    /\ answers' = Tail(answers)
    /\ UNCHANGED <<driver, calls, resetting, tainted>>
    /\ missed' = {}

(* Database.batch() after the await: _applyChangesToCache().  A Model that was
   created is no longer pending and enters the cache; one that was destroyed
   leaves it.  A rejected batch is not undone in JavaScript.                 *)
ResumeBatch ==
    /\ answers # <<>>
    /\ IsBatch(Head(answers).call)
    /\ LET c == Head(answers).call
           ok        == Head(answers).ok
           created   == ok /\ c.op = "create"
           destroyed == ok /\ (c.op = "destroyPermanently" \/ c.row.deleted) IN
       /\ models' = IF created
                    THEN [models EXCEPT ![c.id][c.model].status = "live"] ELSE models
       /\ cache' = [cache EXCEPT ![c.id] =
                      IF created THEN c.model ELSE IF destroyed THEN 0 ELSE @]
       /\ tainted' = IF ok THEN tainted ELSE tainted \cup {c.id}
    /\ answers' = Tail(answers)
    /\ UNCHANGED <<driver, calls, resetting>>
    /\ missed' = {}

(* unsafeResetDatabase() after the await: every cache is cleared.  Models the
   application still holds belong to no database any more.                   *)
ResumeReset ==
    /\ answers # <<>>
    /\ Head(answers).call.op = "unsafeResetDatabase"
    /\ resetting' = FALSE
    /\ cache' = [id \in Id |-> 0]
    /\ models' = [id \in Id |-> [k \in DOMAIN models[id] |->
                    IF models[id][k].status = "deleted" THEN models[id][k]
                    ELSE [models[id][k] EXCEPT !.status = "orphan"]]]
    /\ answers' = Tail(answers)
    /\ UNCHANGED <<driver, calls, tainted>>
    /\ missed' = {}

(* Nothing waits for the other answers. *)
ReceiveOther ==
    /\ answers # <<>>
    /\ Head(answers).call.op \in {"destroyDeletedRecords", "clearCachedRecords"}
    /\ answers' = Tail(answers)
    /\ UNCHANGED <<driver, calls, models, cache, resetting, tainted>>
    /\ missed' = {}

Receive == ReceiveRecords \/ ResumeBatch \/ ResumeReset \/ ReceiveOther

Next ==
    \/ \E id \in Id : FetchRecord(id) \/ Create(id) \/ DestroyDeletedRecords(id)
    \/ FetchQuery
    \/ \E id \in Id : \E m \in DOMAIN models[id] :
         Update(id, m) \/ MarkAsDeleted(id, m) \/ DestroyPermanently(id, m)
    \/ Reset
    \/ DriverStep
    \/ Receive

Spec == Init /\ [][Next]_vars

-----------------------------------------------------------------------------
Quiescent == calls = <<>> /\ answers = <<>> /\ ~resetting

TypeOK ==
    /\ driver \in [adapter : Adapters, rows : [Id -> Row \cup {NoRow}], sent : SUBSET Id]
    /\ calls \in Seq(Call)
    /\ answers \in Seq(Answer)
    /\ models \in [Id -> Seq([ver : 1..MaxVersion, status : Statuses])]
    /\ cache \in [Id -> Nat] /\ \A id \in Id : cache[id] <= Len(models[id])
    /\ resetting \in BOOLEAN
    /\ missed \subseteq [id : Id, row : Row \cup {NoRow}]
    /\ tainted \subseteq Id

(* RecordCache._cachedModelForId(): "We should never get a record ID if we
   don't have it in our cache".                                              *)
NothingMissed == missed = {}

(* Behind a bridge calls and answers keep their order.  There an id comes alone
   and uncached only for a record that is deleted: a record that queries can
   return is always found.                                                   *)
OnlyDeletedMissed == ~Synchronous => \A x \in missed : ~IsLive(x.row)

(* A record the driver takes for sent, and that queries return, is in the
   cache of JavaScript: no record becomes impossible to fetch.               *)
SentIsCached ==
    Quiescent => \A id \in driver.sent \ tainted :
                   IsLive(driver.rows[id]) => cache[id] # 0

(* One record, one Model: whoever holds a Model of a record holds the one that
   is updated and notified.                                                  *)
OneLiveModel ==
    \A id \in Id : \A m, n \in DOMAIN models[id] :
        models[id][m].status = "live" /\ models[id][n].status = "live" => m = n

(* Away from batches under way and from those that failed, a cached Model is what
   the database holds; only a deleted record may be gone, destroyed while its
   Model was being fetched.                                                  *)
CacheIsCoherent ==
    \A id \in Id \ tainted :
        cache[id] # 0 /\ (\A c \in UnderWay : c.id # id) /\ ~resetting =>
            LET model == models[id][cache[id]]
                row   == [ver |-> model.ver, deleted |-> model.status = "deleted"] IN
            driver.rows[id] = row \/ (row.deleted /\ driver.rows[id] = NoRow)

(* When a reset is over nothing of the old database is left on either side,
   whatever was on its way when it began; at most a recovery of Loki's cache is
   still under way, and has nothing to clear.                                *)
ResetLeavesNothing ==
    [][resetting /\ ~resetting' =>
         /\ driver = Emptied(driver)
         /\ UnderWay' \subseteq {Plain("clearCachedRecords")}
         /\ \A id \in Id : cache'[id] = 0]_vars
=============================================================================
