------------------------------ MODULE WorkQueue ------------------------------
(* The scheduler of readers and writers, src/src/Database/WorkQueue.js.

   An item is one call of Database.write() or Database.read().  Its body is the
   work block the caller passed.  JavaScript runs to completion, so one action
   is one synchronous stretch of code; between two actions anything else that
   is ready may run.  The two gaps this opens in _executeNext() are kept: the
   one between the settling of the work promise and the continuation of
   `await workPromise`, and the one between `_queue.shift()` and the
   setTimeout(0) that starts the next item.                                 *)
EXTENDS Naturals, Sequences

CONSTANTS
    Item,       \* the calls of write() and read() that may ever be made
    Writer,     \* those that were made with isWriter = true
    NoItem,
    FailFast    \* TRUE if bodies join sub-actions with Promise.all, which
                \* rejects on the first failure; FALSE if they wait for all

ASSUME ItemAssumption ==
    /\ Writer \subseteq Item
    /\ NoItem \notin Item
    /\ FailFast \in BOOLEAN

VARIABLES
    queue,              \* _queue; the head is the item that runs, or runs next
    timers,             \* pending setTimeout(() => this._executeNext(), 0)
    subActionIncoming,  \* _subActionIncoming, with the body that raised it
    body,               \* where the work block of each item is
    promise,            \* the promise each call of write()/read() returned
    host,               \* __workItem of the interface given to each body
    waits               \* the calls each body has made and awaits

vars == <<queue, timers, subActionIncoming, body, promise, host, waits>>

Bodies   == {"idle", "queued", "live", "fulfilled", "failed", "done", "dropped"}
Promises == {"none", "pending", "resolved", "rejected"}

(* Nothing synchronous is in progress: the event loop may run another task. *)
Quiet == subActionIncoming = NoItem

(* get isWriterRunning() *)
isWriterRunning == queue # <<>> /\ Head(queue) \in Writer

Init ==
    /\ queue = <<>>
    /\ timers = 0
    /\ subActionIncoming = NoItem
    /\ body = [i \in Item |-> "idle"]
    /\ promise = [i \in Item |-> "none"]
    /\ host = [i \in Item |-> NoItem]
    /\ waits = [i \in Item |-> {}]

(* Mutant: a new item goes right behind the head, before those that wait. *)
EnqueueUnfair(i, b, awaited) ==
    /\ Quiet
    /\ body[i] = "idle"
    /\ b = NoItem => ~awaited
    /\ b # NoItem => body[b] = "live"
    /\ queue' = IF queue = <<>> THEN <<i>> ELSE <<Head(queue), i>> \o Tail(queue)
    /\ promise' = [promise EXCEPT ![i] = "pending"]
    /\ waits' = IF awaited THEN [waits EXCEPT ![b] = @ \cup {i}] ELSE waits
    /\ body' = [body EXCEPT ![i] = IF queue = <<>> THEN "live" ELSE "queued"]
    /\ host' = IF queue = <<>> THEN [host EXCEPT ![i] = i] ELSE host
    /\ UNCHANGED <<timers, subActionIncoming>>

(* enqueue() without a sub-action announced.  The caller is the body b, or
   code outside every body when b = NoItem; a body may go on to await what it
   enqueued.  Pushed onto an empty queue, the item starts at once.          *)
Enqueue(i, b, awaited) ==
    /\ Quiet
    /\ body[i] = "idle"
    /\ b = NoItem => ~awaited
    /\ b # NoItem => body[b] = "live"
    /\ queue' = Append(queue, i)
    /\ promise' = [promise EXCEPT ![i] = "pending"]
    /\ waits' = IF awaited THEN [waits EXCEPT ![b] = @ \cup {i}] ELSE waits
    /\ \/ /\ queue = <<>>
          /\ body' = [body EXCEPT ![i] = "live"]
          /\ host' = [host EXCEPT ![i] = i]
       \/ /\ queue # <<>>
          /\ body' = [body EXCEPT ![i] = "queued"]
          /\ UNCHANGED host
    /\ UNCHANGED <<timers, subActionIncoming>>

(* subAction(): raise the flag and call the block that was passed. *)
SubAction(b) ==
    /\ Quiet
    /\ body[b] = "live"
    /\ subActionIncoming' = b
    /\ UNCHANGED <<queue, timers, body, promise, host, waits>>

(* callReader() / callWriter() of the interface: __validateQueue() first. *)
InterfaceSubAction(b) ==
    /\ queue # <<>>
    /\ Head(queue) = host[b]
    /\ SubAction(b)

(* callReader() / callWriter() of a Model: no check of who is calling. *)
ModelSubAction(b) == SubAction(b)

(* Mutant: a reader may call a writer. *)
RunSubActionUnchecked(i) ==
    /\ ~Quiet
    /\ body[i] = "idle"
    /\ queue # <<>>
    /\ subActionIncoming' = NoItem
    /\ body' = [body EXCEPT ![i] = "live"]
    /\ promise' = [promise EXCEPT ![i] = "pending"]
    /\ host' = [host EXCEPT ![i] = Head(queue)]
    /\ waits' = [waits EXCEPT ![subActionIncoming] = @ \cup {i}]
    /\ UNCHANGED <<queue, timers>>

(* enqueue() with the flag up: the call skips the line and runs inside the
   current item, whose interface it is given.                               *)
RunSubAction(i) ==
    /\ ~Quiet
    /\ body[i] = "idle"
    /\ queue # <<>>
    /\ i \in Writer => Head(queue) \in Writer
    /\ subActionIncoming' = NoItem
    /\ body' = [body EXCEPT ![i] = "live"]
    /\ promise' = [promise EXCEPT ![i] = "pending"]
    /\ host' = [host EXCEPT ![i] = Head(queue)]
    /\ waits' = [waits EXCEPT ![subActionIncoming] = @ \cup {i}]
    /\ UNCHANGED <<queue, timers>>

(* The catch of subAction(): the block called no reader or writer, or a writer
   from a reader, or there is no current item to run in.                    *)
RefuseSubAction ==
    /\ ~Quiet
    /\ subActionIncoming' = NoItem
    /\ UNCHANGED <<queue, timers, body, promise, host, waits>>

AllSettled(b) == \A w \in waits[b] : promise[w] # "pending"

(* The promise a body returned settles.  A sub-action's promise is the one its
   caller holds; an item's is seen first by _executeNext().                 *)
Settle(b, outcome) ==
    /\ Quiet
    /\ body[b] = "live"
    /\ \/ AllSettled(b)
       \/ FailFast /\ outcome = "rejected"
                   /\ \E w \in waits[b] : promise[w] = "rejected"
    /\ IF host[b] = b
       THEN /\ body' = [body EXCEPT ![b] =
                          IF outcome = "resolved" THEN "fulfilled" ELSE "failed"]
            /\ UNCHANGED promise
       ELSE /\ body' = [body EXCEPT ![b] = "done"]
            /\ promise' = [promise EXCEPT ![b] = outcome]
    /\ UNCHANGED <<queue, timers, subActionIncoming, host, waits>>

(* Mutant: the next item is not scheduled after shift(). *)
FinishItemUnscheduled(i) ==
    /\ Quiet
    /\ body[i] \in {"fulfilled", "failed"}
    /\ queue # <<>>
    /\ promise' = [promise EXCEPT ![i] =
                     IF body[i] = "fulfilled" THEN "resolved" ELSE "rejected"]
    /\ body' = [body EXCEPT ![i] = "done"]
    /\ queue' = Tail(queue)
    /\ UNCHANGED <<timers, subActionIncoming, host, waits>>

(* The rest of _executeNext(), after `await workPromise`.  It shifts whatever
   is at the head.                                                          *)
FinishItem(i) ==
    /\ Quiet
    /\ body[i] \in {"fulfilled", "failed"}
    /\ queue # <<>>
    /\ promise' = [promise EXCEPT ![i] =
                     IF body[i] = "fulfilled" THEN "resolved" ELSE "rejected"]
    /\ body' = [body EXCEPT ![i] = "done"]
    /\ queue' = Tail(queue)
    /\ timers' = IF Tail(queue) # <<>> THEN timers + 1 ELSE timers
    /\ UNCHANGED <<subActionIncoming, host, waits>>

(* Mutant: _executeNext() runs whether or not a timer fired. *)
ExecuteNextUntimed ==
    /\ Quiet
    /\ queue # <<>>
    /\ timers' = timers - 1
    /\ body' = [body EXCEPT ![Head(queue)] = "live"]
    /\ host' = [host EXCEPT ![Head(queue)] = Head(queue)]
    /\ UNCHANGED <<queue, subActionIncoming, promise, waits>>

(* The setTimeout(0) fires: _executeNext() up to `await workPromise`. *)
ExecuteNext ==
    /\ Quiet
    /\ timers > 0
    /\ queue # <<>>
    /\ timers' = timers - 1
    /\ body' = [body EXCEPT ![Head(queue)] = "live"]
    /\ host' = [host EXCEPT ![Head(queue)] = Head(queue)]
    /\ UNCHANGED <<queue, subActionIncoming, promise, waits>>

(* Mutant: splice(0), the caller is aborted too. *)
PendingAndCaller == {queue[k] : k \in 1..Len(queue)}

Pending == {queue[k] : k \in 2..Len(queue)}

(* Mutant: the pending items are rejected but stay in the queue. *)
AbortPendingWorkUnspliced ==
    /\ Quiet
    /\ isWriterRunning
    /\ Pending # {}
    /\ promise' = [i \in Item |-> IF i \in Pending THEN "rejected" ELSE promise[i]]
    /\ body' = [i \in Item |-> IF i \in Pending THEN "dropped" ELSE body[i]]
    /\ UNCHANGED <<queue, timers, subActionIncoming, host, waits>>

(* _abortPendingWork(), reached from Database.unsafeResetDatabase(), which asks
   only that some writer be at the head.                                    *)
AbortPendingWork ==
    /\ Quiet
    /\ isWriterRunning
    /\ Pending # {}
    /\ queue' = <<Head(queue)>>
    /\ promise' = [i \in Item |-> IF i \in Pending THEN "rejected" ELSE promise[i]]
    /\ body' = [i \in Item |-> IF i \in Pending THEN "dropped" ELSE body[i]]
    /\ UNCHANGED <<timers, subActionIncoming, host, waits>>

Next ==
    \/ \E i \in Item, b \in Item \cup {NoItem}, w \in BOOLEAN : Enqueue(i, b, w)
    \/ \E b \in Item : InterfaceSubAction(b)
    \/ \E b \in Item : ModelSubAction(b)
    \/ \E i \in Item : RunSubAction(i)
    \/ RefuseSubAction
    \/ \E b \in Item, outcome \in {"resolved", "rejected"} : Settle(b, outcome)
    \/ \E i \in Item : FinishItem(i)
    \/ ExecuteNext
    \/ AbortPendingWork

(* The event loop runs every ready task, and every body that has nothing left
   to wait for comes to an end.  A body may call subAction() again and again
   before it does, hence strong fairness of Settle.                         *)
Fairness ==
    /\ WF_vars(ExecuteNext)
    /\ WF_vars(RefuseSubAction)
    /\ \A i \in Item : WF_vars(FinishItem(i))
    /\ \A b \in Item : SF_vars(\E o \in {"resolved", "rejected"} : Settle(b, o))

Spec == Init /\ [][Next]_vars

FairSpec == Spec /\ Fairness

-----------------------------------------------------------------------------
Started  == {"live", "fulfilled", "failed"}
Root(i)  == host[i] = i
Running  == {i \in Item : Root(i) /\ body[i] \in Started}
SubLive  == {i \in Item : body[i] = "live" /\ ~Root(i)}

TypeOK ==
    /\ queue \in Seq(Item)
    /\ timers \in Nat
    /\ subActionIncoming \in Item \cup {NoItem}
    /\ body \in [Item -> Bodies]
    /\ promise \in [Item -> Promises]
    /\ host \in [Item -> Item \cup {NoItem}]
    /\ waits \in [Item -> SUBSET Item]

(* The chain of _executeNext() calls neither breaks nor forks: as long as items
   are queued, either the head runs or exactly one timer will start it, never
   both, and no timer is left when the queue is empty.                      *)
OneExecutor ==
    /\ queue = <<>> => timers = 0 /\ Running = {}
    /\ queue # <<>> => \/ timers = 1 /\ Running = {} /\ body[Head(queue)] = "queued"
                       \/ timers = 0 /\ Running = {Head(queue)}

(* shift() removes the item that ended: no item is queued twice, and behind the
   head everything still waits for its turn with its promise open.          *)
QueueIsFresh ==
    \A k \in 1..Len(queue) :
        /\ promise[queue[k]] = "pending"
        /\ k > 1 => body[queue[k]] = "queued"
        /\ \A l \in 1..Len(queue) : queue[k] = queue[l] => k = l

(* Database.write(): "In a Writer, you're guaranteed that no other Writer is
   simultaneously executing"; Database.read(): "no Writer is running at the
   same time".  Blocks that run together belong to one item of the queue.   *)
WriterExclusion ==
    \A i, j \in Item :
        i \in Writer /\ body[i] \in Started /\ body[j] \in Started
            => host[i] = host[j] /\ host[i] \in Writer

(* What every call has gone through: nothing of a call is known before it is
   made, a block that has not ended keeps its promise open, one that has ended
   or was dropped has settled it, and only the block of an item is seen by
   _executeNext().                                                          *)
Bookkeeping ==
    \A i \in Item :
        /\ body[i] = "idle" => promise[i] = "none" /\ host[i] = NoItem
        /\ body[i] \in Started => promise[i] = "pending" /\ host[i] # NoItem
        /\ body[i] \in {"fulfilled", "failed"} => Root(i)
        /\ body[i] \in {"done", "dropped"} => promise[i] \in {"resolved", "rejected"}

(* Blocks that run belong to the item at the head, and a writer to a writer. *)
RunsForHead ==
    \A i \in Item :
        body[i] \in Started =>
            /\ queue # <<>>
            /\ host[i] = Head(queue)
            /\ i \in Writer => Head(queue) \in Writer

(* Every group of sub-actions that are executing is awaited from outside the
   group by a block that is executing: in the end, by the item itself.      *)
SubActionsJoined ==
    \A S \in SUBSET SubLive :
        S # {} => \E s \in S, b \in Item \ S : body[b] = "live" /\ s \in waits[b]

(* The flag is up only while the block that raised it is on the stack. *)
FlagOwnerIsLive == Quiet \/ body[subActionIncoming] = "live"

(* The inductive invariant behind WriterExclusion. *)
IndInv ==
    /\ TypeOK
    /\ OneExecutor
    /\ QueueIsFresh
    /\ Bookkeeping
    /\ RunsForHead
    /\ SubActionsJoined
    /\ FlagOwnerIsLive

(* A block runs at most once and a promise settles at most once: a reset never
   rejects the call that is running, nothing it dropped is started later.   *)
RunsOnce ==
    [][\A i \in Item :
         /\ promise[i] \in {"resolved", "rejected"} => promise'[i] = promise[i]
         /\ body[i] \in {"fulfilled", "failed", "done", "dropped"}
              => body'[i] \in {body[i], "done"}
         /\ body[i] = "live" => body'[i] # "dropped"]_vars

(* A running body awaits an item that is queued behind it: the deadlock that
   callWriter()/callReader() exist to avoid.                                *)
SelfWait ==
    \E b \in Item : /\ body[b] = "live"
                    /\ \E w \in waits[b] : body[w] = "queued"

(* Every call of write()/read() settles, unless the queue is stuck for good
   because of a body that awaits an item behind it.  No other deadlock.     *)
EveryCallSettles ==
    \A i \in Item : <>[](promise[i] # "pending") \/ <>[]SelfWait

-----------------------------------------------------------------------------
(* A client holds access from the start of its block until _executeNext()
   shifts it off the queue.                                                 *)
HeadStarted == queue # <<>> /\ body[Head(queue)] \in Started

Serial == INSTANCE SerialAccess WITH
    Client   <- Item,
    NoClient <- NoItem,
    waiting  <- IF HeadStarted THEN Tail(queue) ELSE queue,
    holder   <- IF HeadStarted THEN Head(queue) ELSE NoItem,
    asked    <- {i \in Item : body[i] # "idle" /\ host[i] \in {i, NoItem}}

(* Readers and writers take turns as SerialAccess says, however calls, timers,
   sub-actions and resets interleave.                                       *)
TakeTurns == Serial!Init /\ [][Serial!Next]_(Serial!vars)

(* And a waiting client is admitted as soon as nobody holds access (weak
   fairness of Admit).                                                      *)
ImplementsSerialAccess == Serial!Spec
=============================================================================
