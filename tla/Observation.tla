----------------------------- MODULE Observation -----------------------------
(* Observed queries: how a change in the database reaches those who observe.
     src/src/utils/subscriptions/SharedSubscribable/index.js,
     src/src/observation/subscribeToSimpleQuery/index.js and
     processChangeSet.js, subscribeToQueryReloading/index.js,
     _notify() of src/src/Database/index.js and src/src/Collection/index.js.

   A query shares one source among its subscribers.  A simple query fetches
   once and follows the collection's change sets with a matcher; any other is
   fetched again after every change of its tables.  JavaScript is synchronous
   until its stack is empty, but a subscriber is application code: it may
   subscribe and unsubscribe inside the loop that calls it.  So the stack of
   those loops is part of the state.

   One collection is modelled, and queries with the same conditions, of which
   a record is told only whether it meets them.                             *)
EXTENDS Naturals, Sequences, SequencesExt, FiniteSets

CONSTANTS
    Id,             \* records
    Query,
    Simple,         \* the queries that can be encoded into a matcher
    Subscriber,
    Observes,       \* the query each subscriber observes
    Adapters,       \* "bridge": calls are answered later, in order;
                    \* "synchronous": inside the call
    Reentrant,      \* TRUE: subscribers may unsubscribe inside a notification
    MaxBatches,     \* bound on the changes made
    MaxSources      \* bound on the subscriptions of sources ever made

ASSUME ObservationAssumption ==
    /\ Simple \subseteq Query
    /\ Observes \in [Subscriber -> Query]
    /\ Adapters \subseteq {"bridge", "synchronous"}
    /\ Reentrant \in BOOLEAN
    /\ MaxBatches \in Nat /\ MaxSources \in Nat

VARIABLES
    adapter,
    rows,           \* the records the database returns for the queries
    raw,            \* the Models: do they meet the conditions
    calls,          \* calls on their way to the adapter
    answers,        \* its answers, and batches whose await has not resumed
    subscribers,    \* SharedSubscribable._subscribers of each query
    emitted,        \* the list it emitted last; none unless _didEmit
    handle,         \* its _unsubscribeSource: a source, or 0
    sources,        \* the sources ever subscribed to
    onDatabase,     \* Database._subscribers, as sources
    onCollection,   \* Collection._subscribers, as sources
    stack,          \* the JavaScript stack, innermost frame first
    last,           \* the list each subscriber was given last
    batches         \* batches made so far

vars == <<adapter, rows, raw, calls, answers, subscribers, emitted, handle,
          sources, onDatabase, onCollection, stack, last, batches>>

dataVars   == <<rows, raw, calls, answers, batches>>
sharedVars == <<subscribers, emitted, handle, last>>
sourceVars == <<sources, onDatabase, onCollection>>

(* A list of records that may not be there yet: no element, or the list. *)
None  == {}
Maybe == {None} \cup {{L} : L \in SUBSET Id}

States == {"unborn", "in", "out", "gone"}
Types  == {"created", "updated", "destroyed"}
Change == [id : Id, type : Types]

Source == [query : Query, unsubscribed : BOOLEAN, failed : BOOLEAN, records : Maybe]
SourceId == 1..MaxSources

Call == [op : {"batch"}, change : Change, state : States] \cup [op : {"fetch"}, source : SourceId]

(* What is under way on the stack. *)
Frame ==
    [at : {"database", "collection"}, change : Change, i : Nat, n : Nat]
        \cup [at : {"shared"}, query : Query, list : SUBSET Id, i : Nat, n : Nat]
        \cup [at : {"fetch", "observe"}, source : SourceId]
        \cup [at : {"subscribe", "replayed"}, subscriber : Subscriber]
        \cup [at : {"subscribing"}, subscriber : Subscriber, source : SourceId]

Init ==
    /\ adapter \in Adapters
    /\ raw \in [Id -> {"unborn", "in"}]
    /\ rows = {id \in Id : raw[id] = "in"}
    /\ calls = <<>> /\ answers = <<>>
    /\ subscribers = [q \in Query |-> <<>>]
    /\ emitted = [q \in Query |-> None]
    /\ handle = [q \in Query |-> 0]
    /\ sources = <<>>
    /\ onDatabase = <<>> /\ onCollection = <<>>
    /\ stack = <<>>
    /\ last = [s \in Subscriber |-> None]
    /\ batches = 0

-----------------------------------------------------------------------------
(* The adapter. *)

Written(c) == IF c.state = "in" THEN rows \cup {c.change.id} ELSE rows \ {c.change.id}

(* Records that the adapter has been given and the collection has not cached:
   their bare ids make the mapping of a result throw.                       *)
Uncached == {answers[k].change.id : k \in {k \in 1..Len(answers) :
                answers[k].op = "batch" /\ answers[k].change.type = "created"}}

(* What the adapter does while JavaScript has something on the stack is seen
   only when the stack is empty again; it is put off until then.             *)
AdapterStep ==
    /\ stack = <<>>
    /\ calls # <<>>
    /\ calls' = Tail(calls)
    /\ IF Head(calls).op = "batch"
       THEN rows' = Written(Head(calls)) /\ answers' = Append(answers, Head(calls))
       ELSE /\ answers' = Append(answers, [op |-> "fetch", source |-> Head(calls).source,
                                           list |-> rows])
            /\ UNCHANGED rows
    /\ UNCHANGED <<adapter, raw, batches, stack, sharedVars, sourceVars>>

-----------------------------------------------------------------------------
(* Emission. *)

(* SharedSubscribable._notify(), called by a source.  It throws when nobody
   subscribes, which unwinds the stack.  rest: the stack below.              *)
Emit(q, list, rest) ==
    IF subscribers[q] = <<>>
    THEN stack' = <<>> /\ UNCHANGED emitted
    ELSE /\ emitted' = [emitted EXCEPT ![q] = {list}]
         /\ stack' = <<[at |-> "shared", query |-> q, list |-> list, i |-> 1,
                        n |-> Len(subscribers[q])]>> \o rest

(* The callback of _fetchQuery() in subscribeToSimpleQuery(): emit the list,
   then observe the collection.  An error is logged and that is all.        *)
SimpleFetched(k, list, ok, rest) ==
    LET source == sources[k] IN
    CASE source.unsubscribed \/ ~ok ->
           /\ stack' = rest
           /\ sources' = [sources EXCEPT ![k].failed = @ \/ ~ok]
           /\ UNCHANGED emitted
      [] OTHER ->
           /\ sources' = [sources EXCEPT ![k].records = {list}]
           /\ Emit(source.query, list, <<[at |-> "observe", source |-> k]>> \o rest)

(* The callback of _fetchQuery() in subscribeToQueryReloading(). *)
ReloadingFetched(k, list, ok, rest) ==
    LET source == sources[k] IN
    IF ok
    THEN /\ sources' = [sources EXCEPT ![k].records = {list}]
         /\ IF ~source.unsubscribed /\ source.records # {list}
            THEN Emit(source.query, list, rest)
            ELSE stack' = rest /\ UNCHANGED emitted
    ELSE stack' = rest /\ UNCHANGED <<sources, emitted>>

Fetched(k, list, ok, rest) ==
    IF sources[k].query \in Simple THEN SimpleFetched(k, list, ok, rest)
                                   ELSE ReloadingFetched(k, list, ok, rest)

(* _fetchQuery() of the source k. *)
Fetch(k, rest) ==
    IF adapter = "synchronous"
    THEN Fetched(k, rows, rows \cap Uncached = {}, rest) /\ UNCHANGED calls
    ELSE /\ calls' = Append(calls, [op |-> "fetch", source |-> k])
         /\ stack' = rest
         /\ UNCHANGED <<emitted, sources>>
-----------------------------------------------------------------------------
(* The steps of JavaScript, those of the innermost frame. *)

Top   == Head(stack)
Below == Tail(stack)
At(place) == stack # <<>> /\ Top.at = place

(* The next turn of a forEach() over list.  It visits what was there when it
   began, by index: a removal before i makes it skip one.                    *)
HasTurn(list) == Top.i <= Top.n /\ Top.i <= Len(list)
NextTurn == <<[Top EXCEPT !.i = @ + 1]>> \o Below

CallSubscriber ==
    /\ At("shared")
    /\ LET list == subscribers[Top.query] IN
       IF HasTurn(list)
       THEN last' = [last EXCEPT ![list[Top.i]] = {Top.list}] /\ stack' = NextTurn
       ELSE stack' = Below /\ UNCHANGED last
    /\ UNCHANGED <<adapter, dataVars, subscribers, emitted, handle, sourceVars>>

(* Database._notify(): sources that fetch again, then the collection's. *)
CallDatabaseSubscriber ==
    /\ At("database")
    /\ IF HasTurn(onDatabase)
       THEN Fetch(onDatabase[Top.i], NextTurn)
       ELSE /\ stack' = <<[Top EXCEPT !.at = "collection", !.i = 1, !.n = Len(onCollection)]>>
                        \o Below
            /\ UNCHANGED <<calls, emitted, sources>>
    /\ UNCHANGED <<adapter, rows, raw, answers, batches, subscribers, handle, last,
                   onDatabase, onCollection>>

(* Mutant: a record that stops meeting the conditions stays on the list. *)
ProcessedKeeping(list, change) ==
    IF change.type = "destroyed" THEN list \ {change.id}
    ELSE IF raw[change.id] = "in" THEN list \cup {change.id} ELSE list

(* processChangeSet(): the matcher reads the Model as it is now. *)
Processed(list, change) ==
    IF change.type # "destroyed" /\ raw[change.id] = "in" THEN list \cup {change.id}
                                                         ELSE list \ {change.id}

CallCollectionSubscriber ==
    /\ At("collection")
    /\ IF HasTurn(onCollection)
       THEN LET k    == onCollection[Top.i]
                list == CHOOSE L \in sources[k].records : TRUE
                next == Processed(list, Top.change) IN
            /\ sources' = [sources EXCEPT ![k].records = {next}]
            /\ IF next # list THEN Emit(sources[k].query, next, NextTurn)
                              ELSE stack' = NextTurn /\ UNCHANGED emitted
       ELSE stack' = Below /\ UNCHANGED <<sources, emitted>>
    /\ UNCHANGED <<adapter, dataVars, subscribers, handle, last, onDatabase, onCollection>>

(* The rest of the callback in subscribeToSimpleQuery(). *)
ObserveCollection ==
    /\ At("observe")
    /\ onCollection' = IF sources[Top.source].unsubscribed THEN onCollection
                       ELSE Append(onCollection, Top.source)
    /\ stack' = Below
    /\ UNCHANGED <<adapter, dataVars, sharedVars, sources, onDatabase>>

FetchSource ==
    /\ At("fetch")
    /\ Fetch(Top.source, Below)
    /\ UNCHANGED <<adapter, rows, raw, answers, batches, subscribers, handle, last,
                   onDatabase, onCollection>>

(* Mutant: every subscriber subscribes to the source. *)
SubscribeToSourceAlways ==
    /\ At("subscribe") \/ At("replayed")
    /\ LET q == Observes[Top.subscriber]
           k == Len(sources) + 1 IN
       /\ sources' = Append(sources, [query |-> q, unsubscribed |-> FALSE,
                                      failed |-> FALSE, records |-> None])
       /\ onDatabase' = IF q \in Simple THEN onDatabase ELSE Append(onDatabase, k)
       /\ stack' = <<[at |-> "fetch", source |-> k],
                     [at |-> "subscribing", subscriber |-> Top.subscriber, source |-> k]>>
                   \o Below
    /\ UNCHANGED <<adapter, dataVars, sharedVars, onCollection>>

(* The rest of SharedSubscribable.subscribe(), after the last value was given
   to the new subscriber: subscribe to the source if this is the only one.   *)
SubscribeToSource ==
    /\ At("subscribe") \/ At("replayed")
    /\ LET q == Observes[Top.subscriber]
           k == Len(sources) + 1 IN
       IF Len(subscribers[q]) = 1
       THEN /\ sources' = Append(sources, [query |-> q, unsubscribed |-> FALSE,
                                           failed |-> FALSE, records |-> None])
            /\ onDatabase' = IF q \in Simple THEN onDatabase ELSE Append(onDatabase, k)
            /\ stack' = <<[at |-> "fetch", source |-> k],
                          [at |-> "subscribing", subscriber |-> Top.subscriber, source |-> k]>>
                        \o Below
       ELSE stack' = Below /\ UNCHANGED <<sources, onDatabase>>
    /\ UNCHANGED <<adapter, dataVars, sharedVars, onCollection>>

(* The source has returned its unsubscribe function. *)
KeepHandle ==
    /\ At("subscribing")
    /\ handle' = [handle EXCEPT ![Observes[Top.subscriber]] = Top.source]
    /\ stack' = Below
    /\ UNCHANGED <<adapter, dataVars, subscribers, emitted, last, sourceVars>>

JavaScriptStep ==
    \/ CallSubscriber \/ CallDatabaseSubscriber \/ CallCollectionSubscriber
    \/ ObserveCollection \/ FetchSource \/ SubscribeToSource \/ KeepHandle

(* Nothing is on the stack and the adapter has answered. *)
ReceiveFetch ==
    /\ stack = <<>>
    /\ answers # <<>> /\ Head(answers).op = "fetch"
    /\ answers' = Tail(answers)
    /\ Fetched(Head(answers).source, Head(answers).list, TRUE, <<>>)
    /\ UNCHANGED <<adapter, rows, raw, calls, batches, subscribers, handle, last,
                   onDatabase, onCollection>>

(* Database.batch() after the await: the caches, then _notify(). *)
ResumeBatch ==
    /\ stack = <<>>
    /\ answers # <<>> /\ Head(answers).op = "batch"
    /\ answers' = Tail(answers)
    /\ stack' = <<[at |-> "database", change |-> Head(answers).change, i |-> 1,
                   n |-> Len(onDatabase)]>>
    /\ UNCHANGED <<adapter, rows, raw, calls, batches, sharedVars, sourceVars>>

-----------------------------------------------------------------------------
(* The application. *)

(* Its code runs from a task of its own, or inside a subscriber. *)
InSubscriber == At("replayed") \/ (At("shared") /\ Top.i > 1)
AppRuns == stack = <<>> \/ InSubscriber

(* A Model is changed and Database.batch() sent. *)
Batch(id, type, state) ==
    /\ stack = <<>>
    /\ batches < MaxBatches
    /\ batches' = batches + 1
    /\ raw' = [raw EXCEPT ![id] = state]
    /\ LET c == [op |-> "batch", change |-> [id |-> id, type |-> type], state |-> state] IN
       IF adapter = "synchronous"
       THEN rows' = Written(c) /\ answers' = Append(answers, c) /\ UNCHANGED calls
       ELSE calls' = Append(calls, c) /\ UNCHANGED <<rows, answers>>
    /\ UNCHANGED <<adapter, stack, sharedVars, sourceVars>>

(* A Model that is still being created cannot be changed. *)
Created(id) == \A c \in ToSet(calls) \cup ToSet(answers) :
                 c.op = "batch" => c.change # [id |-> id, type |-> "created"]

ChangeRecord(id) ==
    \/ raw[id] = "unborn" /\ \E state \in {"in", "out"} : Batch(id, "created", state)
    \/ /\ raw[id] \in {"in", "out"} /\ Created(id)
       /\ \/ \E state \in {"in", "out"} : Batch(id, "updated", state)
          \/ Batch(id, "destroyed", "gone")

(* subscribe(), up to the end of subscriber(_lastValue). *)
Subscribe(s) ==
    /\ AppRuns
    /\ \A q \in Query : s \notin ToSet(subscribers[q])
    /\ Len(sources) + Cardinality({k \in 1..Len(stack) : stack[k].at = "replayed"}) < MaxSources
    /\ LET q == Observes[s] IN
       /\ subscribers' = [subscribers EXCEPT ![q] = Append(@, s)]
       /\ last' = [last EXCEPT ![s] = emitted[q]]
       /\ stack' = <<[at |-> IF emitted[q] = None THEN "subscribe" ELSE "replayed",
                      subscriber |-> s]>> \o stack
    /\ UNCHANGED <<adapter, dataVars, emitted, handle, sourceVars>>

(* subscribe() has returned to s its unsubscribe function. *)
CanUnsubscribe(s) ==
    \A k \in 1..Len(stack) : stack[k].at \in {"subscribe", "replayed", "subscribing"}
                               => stack[k].subscriber # s

(* _unsubscribe(): the last one unsubscribes from the source. *)
Unsubscribe(s) ==
    /\ AppRuns /\ (Reentrant \/ stack = <<>>)
    /\ CanUnsubscribe(s)
    /\ LET q == Observes[s]
           k == handle[q] IN
       /\ s \in ToSet(subscribers[q])
       /\ subscribers' = [subscribers EXCEPT ![q] = Remove(@, s)]
       /\ IF subscribers[q] = <<s>>
          THEN /\ handle' = [handle EXCEPT ![q] = 0]
               /\ emitted' = [emitted EXCEPT ![q] = None]
               /\ sources' = IF k = 0 THEN sources ELSE [sources EXCEPT ![k].unsubscribed = TRUE]
               /\ onDatabase' = Remove(onDatabase, k)
               /\ onCollection' = Remove(onCollection, k)
          ELSE UNCHANGED <<handle, emitted, sourceVars>>
    /\ last' = [last EXCEPT ![s] = None]
    /\ UNCHANGED <<adapter, dataVars, stack>>

Next ==
    \/ AdapterStep
    \/ JavaScriptStep
    \/ ReceiveFetch
    \/ ResumeBatch
    \/ \E id \in Id : ChangeRecord(id)
    \/ \E s \in Subscriber : Subscribe(s) \/ Unsubscribe(s)

Spec == Init /\ [][Next]_vars

-----------------------------------------------------------------------------
Quiet == calls = <<>> /\ answers = <<>> /\ stack = <<>>

Subscribed(s) == s \in ToSet(subscribers[Observes[s]])

(* A fetch met a bare id that the collection had not cached (RecordCaching,
   SentIsCached): a simple query never emits after that.                     *)
Failed(q) == \E k \in 1..Len(sources) : sources[k].query = q /\ sources[k].failed

TypeOK ==
    /\ adapter \in Adapters
    /\ rows \subseteq Id
    /\ raw \in [Id -> States]
    /\ calls \in Seq(Call)
    /\ answers \in Seq([op : {"batch"}, change : Change, state : States]
                          \cup [op : {"fetch"}, source : SourceId, list : SUBSET Id])
    /\ subscribers \in [Query -> Seq(Subscriber)]
    /\ emitted \in [Query -> Maybe]
    /\ handle \in [Query -> 0..Len(sources)]
    /\ sources \in Seq(Source)
    /\ onDatabase \in Seq(SourceId) /\ onCollection \in Seq(SourceId)
    /\ stack \in Seq(Frame)
    /\ last \in [Subscriber -> Maybe]
    /\ batches \in 0..MaxBatches

(* When all is quiet every subscriber has been given the list as it is in the
   database, whatever was fetched, changed, subscribed and unsubscribed in
   between.                                                                  *)
ListsAreCurrent ==
    Quiet => \A s \in Subscriber :
               Subscribed(s) /\ ~Failed(Observes[s]) => last[s] = {rows}

Active(q) == {k \in 1..Len(sources) : sources[k].query = q /\ ~sources[k].unsubscribed}

(* SharedSubscribable: "Multiple subscribers only cause a single subscription of
   the source", "When last subscriber unsubscribes, the source is unsubscribed":
   no source is left behind to emit to nobody.                               *)
OneSource ==
    \A q \in Query :
        /\ Cardinality(Active(q)) <= 1
        /\ subscribers[q] = <<>> => Active(q) = {}
=============================================================================
