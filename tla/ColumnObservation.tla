-------------------------- MODULE ColumnObservation --------------------------
(* An observer of a query and of columns of the records on its list, or of the
   number of records, while changes are announced one by one or held back.
     src/src/observation/subscribeToQueryWithColumns/index.js over
     subscribeToSimpleQuery (alwaysEmit) or subscribeToQueryReloading
     (shouldEmitStatus), subscribeToCount/index.js without throttling,
     experimentalBatchNotifications() of src/src/Database/index.js.

   Two sources of news meet here, neither of which knows of the other: change
   sets of the collection, which tell of columns, and lists of the query, which
   may be under way.  Three flags decide which of the two emits.

   The observer's subscriber only takes what it is given, so everything
   JavaScript does without an empty stack is one step; subscribers that act on
   the observation they are called by are the subject of Observation.        *)
EXTENDS Naturals, Sequences, SequencesExt, FiniteSets

CONSTANTS
    Id,             \* records
    Recurring,      \* TRUE: an observed column may return to an earlier value;
                    \* FALSE: it does not, as updated_at or a version
    Kinds,          \* "simple", "reloading": what the query with columns is
                    \* observed by; "count": subscribeToCount
    Adapters,       \* "bridge": calls are answered later, in order;
                    \* "synchronous": inside the call
    MaxBatches,     \* bound on the changes made
    MaxSubscriptions, \* bound on the subscriptions made
    MaxHolds        \* bound on the nesting of experimentalBatchNotifications()

VARIABLES
    adapter, kind,
    rows,           \* the records the database returns for the query
    raw,            \* the Models: do they meet the conditions, their columns
    calls,          \* calls on their way to the adapter
    answers,        \* its answers, and batches whose await has not resumed
    holds,          \* Database._pendingNotificationBatches
    held,           \* Database._pendingNotificationChanges
    subscriptions,  \* subscriptions made so far; the last is the observer's
    subscribed,
    observer,
    batches         \* batches made so far

vars == <<adapter, kind, rows, raw, calls, answers, holds, held, subscriptions,
          subscribed, observer, batches>>

dataVars         == <<rows, raw, batches>>
databaseVars     == <<holds, held>>
subscriptionVars == <<subscriptions, subscribed>>

(* Something that may not be there yet: no element, or the element. *)
None     == {}
Maybe(S) == {None} \cup {{x} : x \in S}

(* The values of the observed columns, as far as they are told apart. *)
Column == IF Recurring THEN 0..1 ELSE 0..MaxBatches
After(column) == {column, IF Recurring THEN 1 - column ELSE column + 1}

Raw    == [state : {"unborn", "in", "out", "gone"}, column : Column]
Types  == {"created", "updated", "destroyed"}

(* A change set: what happens to each record in a batch. *)
ChangeSet == UNION {[ids -> Types] : ids \in SUBSET Id \ {{}}}

States == UNION {[ids -> Column] : ids \in SUBSET Id}

(* What is emitted: a number, or a list and the columns seen on it. *)
Emission == IF kind = "count" THEN 0..Cardinality(Id) ELSE States

Observer == [
    fetching : BOOLEAN,     \* sourceIsFetching
    pending  : BOOLEAN,     \* hasPendingColumnChanges
    first    : BOOLEAN,     \* firstEmission
    list     : SUBSET Id,   \* observedRecords
    states   : States,      \* recordStates
    matching : Maybe(SUBSET Id),   \* a simple source's list, once it has one
    failed   : BOOLEAN,     \* a simple source's fetch failed
    given    : Maybe(Emission)]    \* what the subscriber was given last

NewObserver == [fetching |-> TRUE, pending |-> FALSE, first |-> TRUE, list |-> {},
                states |-> [id \in {} |-> 0], matching |-> None, failed |-> FALSE,
                given |-> None]

Init ==
    /\ adapter \in Adapters /\ kind \in Kinds
    /\ raw \in [Id -> {[state |-> s, column |-> 0] : s \in {"unborn", "in"}}]
    /\ rows = {id \in Id : raw[id].state = "in"}
    /\ calls = <<>> /\ answers = <<>>
    /\ holds = 0 /\ held = <<>>
    /\ subscriptions = 0 /\ subscribed = FALSE
    /\ observer = NewObserver
    /\ batches = 0

-----------------------------------------------------------------------------
(* The adapter. *)

Batches(s) == SelectSeq(s, LAMBDA c : c.op = "batch")

(* Records whose creation is among the calls or answers s. *)
Creating(s) == {id \in Id : \E c \in ToSet(Batches(s)) :
                              id \in DOMAIN c.changes /\ c.changes[id] = "created"}

AdapterStep ==
    /\ calls # <<>>
    /\ calls' = Tail(calls)
    /\ IF Head(calls).op = "batch"
       THEN rows' = Head(calls).rows /\ answers' = Append(answers, Head(calls))
       ELSE /\ answers' = Append(answers, [op |-> "fetch", subscription |-> Head(calls).subscription,
                                           list |-> rows])
            /\ UNCHANGED rows
    /\ UNCHANGED <<adapter, kind, raw, databaseVars, subscriptionVars, observer, batches>>

-----------------------------------------------------------------------------
(* The observer. *)

(* What the subscriber sees of a list: the Models, and so their columns as they
   are when it looks.                                                        *)
Seen(list) == IF kind = "count" THEN Cardinality(list)
                                ELSE [id \in list |-> raw[id].column]

(* observeWithColumnsSourceChanged() *)
SourceChanged(o, list) ==
    LET emits == o.first \/ o.pending \/ list # o.list IN
    [o EXCEPT !.fetching = FALSE, !.pending = FALSE, !.first = FALSE,
              !.list = list,
              !.states = [id \in list |-> IF id \in o.list THEN @[id] ELSE raw[id].column],
              !.given = IF emits THEN {Seen(list)} ELSE @]

(* Mutant: the column changes of a simple query are never marked. *)
CollectionChangedUnmarked(o, changes) ==
    LET news == {id \in DOMAIN changes \cap DOMAIN o.states :
                   changes[id] = "updated" /\ o.states[id] # raw[id].column} IN
    IF news = {} THEN o
    ELSE [o EXCEPT !.states = [id \in DOMAIN @ |-> IF id \in news THEN raw[id].column ELSE @[id]],
                   !.pending = @ \/ o.fetching,
                   !.given = IF o.fetching \/ kind = "simple" THEN @ ELSE {Seen(o.list)}]

(* observeWithColumnsCollectionChanged() *)
CollectionChanged(o, changes) ==
    LET news   == {id \in DOMAIN changes \cap DOMAIN o.states :
                     changes[id] = "updated" /\ o.states[id] # raw[id].column}
        awaits == o.fetching \/ kind = "simple" IN
    IF news = {} THEN o
    ELSE [o EXCEPT !.states = [id \in DOMAIN @ |-> IF id \in news THEN raw[id].column ELSE @[id]],
                   !.pending = @ \/ awaits,
                   !.given = IF awaits THEN @ ELSE {Seen(o.list)}]

(* processChangeSet(): the matcher reads the Models as they are now. *)
Processed(list, changes) ==
    {id \in list \cup DOMAIN changes :
       IF id \in DOMAIN changes THEN changes[id] # "destroyed" /\ raw[id].state = "in" ELSE TRUE}

(* observeQueryCollectionChanged(): with alwaysEmit. *)
SimpleChanged(o, changes) ==
    LET next == Processed(CHOOSE L \in o.matching : TRUE, changes) IN
    SourceChanged([o EXCEPT !.matching = {next}], next)

(* The callbacks of _fetchCount() and _fetchQuery().  A simple source that fails
   observes nothing from then on; the others fetch again after the next change. *)
Fetched(o, list, mapped) ==
    CASE kind = "count"                -> [o EXCEPT !.given = {Seen(list)}]
      [] kind = "simple" /\ mapped     -> SourceChanged([o EXCEPT !.matching = {list}], list)
      [] kind = "simple" /\ ~mapped    -> [o EXCEPT !.failed = TRUE]
      [] kind = "reloading" /\ mapped  -> SourceChanged(o, list)
      [] kind = "reloading" /\ ~mapped -> o

(* An observer, the number of its subscription, the calls it makes, and the records
   it cannot be given: their batch is executed but they are not cached yet.   *)
State(o, n, executed) ==
    [observer |-> o, subscription |-> n, calls |-> calls, uncached |-> Creating(executed)]

(* A synchronous adapter answers in the call; at a bare id that is not cached the
   mapping of its result throws.                                             *)
Fetch(s) ==
    IF adapter = "synchronous"
    THEN [s EXCEPT !.observer = Fetched(@, rows, rows \cap s.uncached = {})]
    ELSE [s EXCEPT !.calls = Append(@, [op |-> "fetch", subscription |-> s.subscription])]

(* reloadingObserverFetch(), observeCountFetch() *)
Reload(s) == Fetch([s EXCEPT !.observer.fetching = TRUE])

-----------------------------------------------------------------------------
(* The database announces a change set: Database._notify().  Those who fetch again
   are called first, then the collection's subscribers: the observer of columns,
   who came first, and the simple source, who has a list by then.            *)
Notified(s, changes) ==
    LET reloaded == IF kind = "simple" THEN s ELSE Reload(s)
        columns  == IF kind = "count" THEN reloaded
                    ELSE [reloaded EXCEPT !.observer = CollectionChanged(@, changes)] IN
    IF columns.observer.matching = None THEN columns
    ELSE [columns EXCEPT !.observer = SimpleChanged(@, changes)]

Announce(sequence, executed) ==
    LET s == FoldLeft(Notified, State(observer, subscriptions, executed), sequence) IN
    IF subscribed THEN observer' = s.observer /\ calls' = s.calls
                  ELSE UNCHANGED <<observer, calls>>

(* Database.batch() after the await: the caches, then _notify(). *)
ResumeBatch ==
    /\ answers # <<>> /\ Head(answers).op = "batch"
    /\ answers' = Tail(answers)
    /\ IF holds > 0
       THEN held' = Append(held, Head(answers).changes) /\ UNCHANGED <<observer, calls>>
       ELSE Announce(<<Head(answers).changes>>, Tail(answers)) /\ UNCHANGED held
    /\ UNCHANGED <<adapter, kind, dataVars, holds, subscriptionVars>>

(* The first half of experimentalBatchNotifications(), before work(). *)
HoldNotifications ==
    /\ holds < MaxHolds
    /\ holds' = holds + 1
    /\ UNCHANGED <<adapter, kind, dataVars, calls, answers, held, subscriptionVars, observer>>

(* The second half, after work(). *)
ReleaseNotifications ==
    /\ holds > 0
    /\ holds' = holds - 1
    /\ IF holds = 1 THEN held' = <<>> /\ Announce(held, answers)
                    ELSE UNCHANGED <<held, observer, calls>>
    /\ UNCHANGED <<adapter, kind, dataVars, answers, subscriptionVars>>

ReceiveFetch ==
    /\ answers # <<>> /\ Head(answers).op = "fetch"
    /\ answers' = Tail(answers)
    /\ observer' = IF subscribed /\ Head(answers).subscription = subscriptions
                   THEN Fetched(observer, Head(answers).list, TRUE) ELSE observer
    /\ UNCHANGED <<adapter, kind, dataVars, calls, databaseVars, subscriptionVars>>

-----------------------------------------------------------------------------
(* The application. *)

(* What may become of a Model; one that is being created cannot be changed. *)
Becomes(id) ==
    CASE raw[id].state = "unborn" -> [state : {"in", "out"}, column : {0}]
      [] raw[id].state \in {"in", "out"} /\ id \notin Creating(calls) \cup Creating(answers) ->
             [state : {"in", "out"}, column : After(raw[id].column)]
                 \cup {[state |-> "gone", column |-> raw[id].column]}
      [] OTHER -> {}

TypeOf(before, after) ==
    CASE before.state = "unborn" -> "created"
      [] after.state = "gone"    -> "destroyed"
      [] OTHER                   -> "updated"

(* Models are changed and Database.batch() sent: what the database returns once
   it is executed follows from the batches before it.                        *)
Batch(ids, new) ==
    LET sent == Batches(calls)
        old  == IF sent = <<>> THEN rows ELSE Last(sent).rows
        c    == [op |-> "batch",
                 changes |-> [id \in ids |-> TypeOf(raw[id], new[id])],
                 rows |-> (old \ ids) \cup {id \in ids : new[id].state = "in"}] IN
    /\ batches < MaxBatches
    /\ batches' = batches + 1
    /\ raw' = [id \in Id |-> IF id \in ids THEN new[id] ELSE raw[id]]
    /\ IF adapter = "synchronous"
       THEN rows' = c.rows /\ answers' = Append(answers, c) /\ UNCHANGED calls
       ELSE calls' = Append(calls, c) /\ UNCHANGED <<rows, answers>>
    /\ UNCHANGED <<adapter, kind, databaseVars, subscriptionVars, observer>>

ChangeRecords ==
    \E ids \in SUBSET Id \ {{}} :
        \E new \in [ids -> UNION {Becomes(id) : id \in ids}] :
            (\A id \in ids : new[id] \in Becomes(id)) /\ Batch(ids, new)

Subscribe ==
    /\ ~subscribed /\ subscriptions < MaxSubscriptions
    /\ subscribed' = TRUE
    /\ subscriptions' = subscriptions + 1
    /\ LET s == Fetch(State(NewObserver, subscriptions + 1, answers)) IN
       observer' = s.observer /\ calls' = s.calls
    /\ UNCHANGED <<adapter, kind, dataVars, answers, databaseVars>>

Unsubscribe ==
    /\ subscribed
    /\ subscribed' = FALSE
    /\ observer' = NewObserver
    /\ UNCHANGED <<adapter, kind, dataVars, calls, answers, databaseVars, subscriptions>>

Next ==
    \/ AdapterStep
    \/ ResumeBatch
    \/ ReceiveFetch
    \/ HoldNotifications
    \/ ReleaseNotifications
    \/ ChangeRecords
    \/ Subscribe
    \/ Unsubscribe

Spec == Init /\ [][Next]_vars

-----------------------------------------------------------------------------
TypeOK ==
    /\ adapter \in Adapters /\ kind \in Kinds
    /\ rows \subseteq Id
    /\ raw \in [Id -> Raw]
    /\ \A c \in ToSet(calls) \cup ToSet(answers) :
         \/ c.op = "batch" /\ c.changes \in ChangeSet /\ c.rows \subseteq Id
         \/ c.op = "fetch" /\ c.subscription \in 1..subscriptions
    /\ holds \in 0..MaxHolds
    /\ held \in Seq(ChangeSet)
    /\ subscriptions \in 0..MaxSubscriptions /\ subscribed \in BOOLEAN
    /\ observer \in Observer
    /\ batches \in 0..MaxBatches

Quiet == calls = <<>> /\ answers = <<>> /\ holds = 0

(* subscribeToQueryWithColumns(), "Emits a list of records when: source observable
   emits a new list, any of the records in the list has any of the given fields
   changed": when all is quiet the observer has been given the number of records,
   or the list with every observed column as it is now, whatever was fetched,
   changed, held back and announced late in between.                         *)
ObserverIsCurrent ==
    Quiet /\ subscribed /\ ~observer.failed => observer.given = {Seen(rows)}
=============================================================================
