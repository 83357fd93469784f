-------------------------- MODULE WorkQueueProofs ---------------------------
(* Proofs about WorkQueue, for every set of calls. *)
EXTENDS WorkQueue, TLAPS

(* The part of the inductive invariant that holds however bodies join the
   sub-actions they start.                                                  *)
QueueInv == TypeOK /\ OneExecutor /\ QueueIsFresh /\ Bookkeeping

-----------------------------------------------------------------------------
(* How the fresh part of the queue changes. *)
LEMMA AppendFresh ==
    ASSUME NEW q \in Seq(Item), NEW i \in Item
    PROVE  /\ Append(q, i) \in Seq(Item)
           /\ Append(q, i) # <<>>
           /\ Len(Append(q, i)) = Len(q) + 1
           /\ \A k \in 1..Len(q) : Append(q, i)[k] = q[k]
           /\ Append(q, i)[Len(q) + 1] = i
           /\ q = <<>> => Head(Append(q, i)) = i
           /\ q # <<>> => Head(Append(q, i)) = Head(q)
OBVIOUS

LEMMA TailFresh ==
    ASSUME NEW q \in Seq(Item), q # <<>>
    PROVE  /\ Len(q) \in Nat /\ Len(q) > 0
           /\ Head(q) = q[1] /\ Head(q) \in Item
           /\ Tail(q) \in Seq(Item)
           /\ Len(Tail(q)) = Len(q) - 1
           /\ \A k \in 1..Len(Tail(q)) : Tail(q)[k] = q[k + 1]
           /\ Tail(q) # <<>> => Head(Tail(q)) = q[2] /\ Len(q) > 1
OBVIOUS

LEMMA Initially == Init => IndInv
<1> SUFFICES ASSUME Init PROVE IndInv
  OBVIOUS
<1>1. TypeOK
  BY ItemAssumption DEF Init, TypeOK, Bodies, Promises
<1>2. OneExecutor
  BY DEF Init, OneExecutor, Running, Started
<1>3. QueueIsFresh
  BY DEF Init, QueueIsFresh
<1>4. Bookkeeping
  BY DEF Init, Bookkeeping, Started
<1>5. RunsForHead
  BY DEF Init, RunsForHead, Started
<1>6. SubActionsJoined
  BY DEF Init, SubActionsJoined, SubLive
<1>7. FlagOwnerIsLive
  BY DEF Init, FlagOwnerIsLive, Quiet
<1> QED
  BY <1>1, <1>2, <1>3, <1>4, <1>5, <1>6, <1>7 DEF IndInv

(* Type correctness of one step. *)
LEMMA TypeStep ==
    ASSUME TypeOK, [Next]_vars
    PROVE  TypeOK'
<1> USE ItemAssumption DEF TypeOK, Bodies, Promises
<1>1. ASSUME NEW i \in Item, NEW b \in Item \cup {NoItem}, NEW w \in BOOLEAN,
             Enqueue(i, b, w)
      PROVE  TypeOK'
  <2>1. queue' \in Seq(Item)
    BY <1>1, AppendFresh DEF Enqueue
  <2>2. body' \in [Item -> Bodies] /\ host' \in [Item -> Item \cup {NoItem}]
    <3>1. CASE queue = <<>>
      BY <1>1, <3>1 DEF Enqueue
    <3>2. CASE queue # <<>>
      BY <1>1, <3>2 DEF Enqueue
    <3> QED
      BY <3>1, <3>2
  <2>3. waits' \in [Item -> SUBSET Item]
    BY <1>1 DEF Enqueue
  <2> QED
    BY <1>1, <2>1, <2>2, <2>3 DEF Enqueue
<1>2. ASSUME NEW b \in Item, SubAction(b) PROVE TypeOK'
  BY <1>2 DEF SubAction
<1>3. ASSUME NEW i \in Item, RunSubAction(i) PROVE TypeOK'
  <2>1. Head(queue) \in Item
    BY <1>3, TailFresh DEF RunSubAction
  <2> QED
    BY <1>3, <2>1 DEF RunSubAction, Quiet
<1>4. CASE RefuseSubAction
  BY <1>4 DEF RefuseSubAction
<1>5. ASSUME NEW b \in Item, NEW o \in {"resolved", "rejected"}, Settle(b, o)
      PROVE  TypeOK'
  BY <1>5 DEF Settle
<1>6. ASSUME NEW i \in Item, FinishItem(i) PROVE TypeOK'
  <2>1. Tail(queue) \in Seq(Item)
    BY <1>6, TailFresh DEF FinishItem
  <2>2. timers' \in Nat
    BY <1>6 DEF FinishItem
  <2> QED
    BY <1>6, <2>1, <2>2 DEF FinishItem
<1>7. CASE ExecuteNext
  <2>1. Head(queue) \in Item
    BY <1>7, TailFresh DEF ExecuteNext
  <2>2. timers' \in Nat
    BY <1>7 DEF ExecuteNext
  <2> QED
    BY <1>7, <2>1, <2>2 DEF ExecuteNext
<1>8. CASE AbortPendingWork
  <2>1. Head(queue) \in Item
    BY <1>8, TailFresh DEF AbortPendingWork, isWriterRunning
  <2>2. queue' \in Seq(Item)
    BY <1>8, <2>1 DEF AbortPendingWork
  <2> QED
    BY <1>8, <2>2 DEF AbortPendingWork
<1>9. CASE UNCHANGED vars
  BY <1>9 DEF vars
<1> QED
  BY <1>1, <1>2, <1>3, <1>4, <1>5, <1>6, <1>7, <1>8, <1>9
     DEF Next, InterfaceSubAction, ModelSubAction

(* Type correctness: the state of the queue stays what WorkQueue.js declares. *)
THEOREM TypeCorrect == Spec => []TypeOK
<1>1. Init => TypeOK
  BY Initially DEF IndInv
<1>2. TypeOK /\ [Next]_vars => TypeOK'
  BY TypeStep
<1> QED
  BY <1>1, <1>2, PTL DEF Spec

-----------------------------------------------------------------------------
(* The chain of _executeNext() calls.  One step per action, and under it the
   conjuncts it can disturb.                                                *)
LEMMA QueueStep ==
    ASSUME QueueInv, [Next]_vars
    PROVE  QueueInv'
<1> USE ItemAssumption
<1>0. TypeOK'
  BY TypeStep DEF QueueInv
<1> SUFFICES OneExecutor' /\ QueueIsFresh' /\ Bookkeeping'
  BY <1>0 DEF QueueInv
<1>1. ASSUME NEW i \in Item, NEW b \in Item \cup {NoItem}, NEW w \in BOOLEAN,
             Enqueue(i, b, w)
      PROVE  OneExecutor' /\ QueueIsFresh' /\ Bookkeeping'
  <2> USE <1>1 DEF QueueInv, TypeOK
  <2>1. \A k \in 1..Len(queue) : queue[k] # i
    BY DEF Enqueue, QueueIsFresh, Bookkeeping
  <2>2. Bookkeeping'
    BY DEF Enqueue, Bookkeeping, Started, Root
  <2>3. QueueIsFresh'
    BY <2>1, AppendFresh DEF Enqueue, QueueIsFresh
  <2>4. CASE queue = <<>>
    <3>1. Running' = {i}
      BY <2>4 DEF Enqueue, OneExecutor, Running, Root, Started
    <3> QED
      BY <2>2, <2>3, <2>4, <3>1, AppendFresh DEF Enqueue, OneExecutor
  <2>5. CASE queue # <<>>
    <3>1. Running' = Running
      BY <2>5 DEF Enqueue, Running, Root, Started
    <3>2. Head(queue) \in Item /\ Head(queue) # i
      BY <2>1, <2>5, TailFresh
    <3> QED
      BY <2>2, <2>3, <2>5, <3>1, <3>2, AppendFresh DEF Enqueue, OneExecutor
  <2> QED
    BY <2>4, <2>5
<1>2. ASSUME NEW b \in Item, SubAction(b)
      PROVE  OneExecutor' /\ QueueIsFresh' /\ Bookkeeping'
  BY <1>2 DEF SubAction, QueueInv, OneExecutor, QueueIsFresh, Bookkeeping,
              Running, Root, Started
<1>3. ASSUME NEW i \in Item, RunSubAction(i)
      PROVE  OneExecutor' /\ QueueIsFresh' /\ Bookkeeping'
  <2> USE <1>3 DEF QueueInv, TypeOK
  <2>1. \A k \in 1..Len(queue) : queue[k] # i
    BY DEF RunSubAction, QueueIsFresh, Bookkeeping
  <2>2. Head(queue) \in Item /\ Head(queue) # i
    BY <2>1, TailFresh DEF RunSubAction
  <2>3. Running' = Running
    BY <2>2 DEF RunSubAction, Running, Root, Started, Bookkeeping
  <2>4. OneExecutor'
    BY <2>2, <2>3 DEF RunSubAction, OneExecutor
  <2>5. QueueIsFresh'
    BY <2>1 DEF RunSubAction, QueueIsFresh
  <2>6. Bookkeeping'
    BY <2>2 DEF RunSubAction, Bookkeeping, Started, Root
  <2> QED
    BY <2>4, <2>5, <2>6
<1>4. CASE RefuseSubAction
  BY <1>4 DEF RefuseSubAction, QueueInv, OneExecutor, QueueIsFresh, Bookkeeping,
              Running, Root, Started
<1>5. ASSUME NEW b \in Item, NEW o \in {"resolved", "rejected"}, Settle(b, o)
      PROVE  OneExecutor' /\ QueueIsFresh' /\ Bookkeeping'
  <2> USE <1>5 DEF QueueInv, TypeOK
  <2>1. Running' = Running
    BY DEF Settle, Running, Root, Started
  <2>2. Bookkeeping'
    BY DEF Settle, Bookkeeping, Started, Root
  <2>3. queue # <<>> => Head(queue) \in Item /\ Head(queue) = queue[1]
    BY TailFresh
  <2>4. OneExecutor'
    BY <2>1, <2>3 DEF Settle, OneExecutor
  <2>5. ASSUME NEW k \in 1..Len(queue), queue[k] = b
        PROVE  host[b] = b
    <3>1. queue # <<>> /\ k = 1
      BY <2>5 DEF Settle, QueueIsFresh
    <3>2. Running = {b}
      BY <2>3, <2>5, <3>1 DEF Settle, OneExecutor
    <3> QED
      BY <3>2 DEF Running, Root
  <2>6. QueueIsFresh'
    BY <2>5 DEF Settle, QueueIsFresh
  <2> QED
    BY <2>2, <2>4, <2>6
<1>6. ASSUME NEW i \in Item, FinishItem(i)
      PROVE  OneExecutor' /\ QueueIsFresh' /\ Bookkeeping'
  <2> USE <1>6 DEF QueueInv, TypeOK
  <2>1. i \in Running
    BY DEF FinishItem, Bookkeeping, Running, Started
  <2>2. timers = 0 /\ Running = {i} /\ i = Head(queue)
    BY <2>1 DEF FinishItem, OneExecutor
  <2>3. \A k \in 1..Len(Tail(queue)) : Tail(queue)[k] # i
    BY <2>2, TailFresh DEF FinishItem, QueueIsFresh
  <2>4. Running' = {}
    BY <2>2 DEF FinishItem, Running, Root, Started
  <2>5. Bookkeeping'
    BY DEF FinishItem, Bookkeeping, Started, Root
  <2>6. QueueIsFresh'
    BY <2>3, TailFresh DEF FinishItem, QueueIsFresh
  <2>7. Tail(queue) # <<>> => body'[Head(Tail(queue))] = "queued"
    BY <2>3, TailFresh DEF FinishItem, QueueIsFresh
  <2>8. OneExecutor'
    BY <2>2, <2>4, <2>7 DEF FinishItem, OneExecutor
  <2> QED
    BY <2>5, <2>6, <2>8
<1>7. CASE ExecuteNext
  <2> USE <1>7 DEF QueueInv, TypeOK
  <2>1. Head(queue) \in Item /\ Head(queue) = queue[1] /\ Len(queue) > 0
    BY TailFresh DEF ExecuteNext
  <2>2. timers = 1 /\ Running = {} /\ body[Head(queue)] = "queued"
    BY DEF ExecuteNext, OneExecutor
  <2>3. Running' = {Head(queue)}
    BY <2>1, <2>2 DEF ExecuteNext, Running, Root, Started
  <2>4. OneExecutor'
    BY <2>2, <2>3 DEF ExecuteNext, OneExecutor
  <2>5. QueueIsFresh'
    BY <2>1 DEF ExecuteNext, QueueIsFresh
  <2>6. Bookkeeping'
    BY <2>1, <2>2 DEF ExecuteNext, Bookkeeping, Started, Root, QueueIsFresh
  <2> QED
    BY <2>4, <2>5, <2>6
<1>8. CASE AbortPendingWork
  <2> USE <1>8 DEF QueueInv, TypeOK
  <2>1. Head(queue) \in Item /\ Head(queue) = queue[1] /\ Len(queue) > 0 /\ queue # <<>>
    BY TailFresh DEF AbortPendingWork, isWriterRunning
  <2>2. queue' # <<>> /\ Len(queue') = 1 /\ queue'[1] = Head(queue)
           /\ Head(queue') = Head(queue)
    BY <2>1 DEF AbortPendingWork
  <2>3. Head(queue) \notin Pending
    BY <2>1 DEF Pending, QueueIsFresh
  <2>4. \A i \in Pending : body[i] = "queued"
    BY DEF Pending, QueueIsFresh
  <2>5. Running' = Running
    BY <2>4 DEF AbortPendingWork, Running, Root, Started
  <2>6. OneExecutor'
    BY <2>1, <2>2, <2>3, <2>5 DEF AbortPendingWork, OneExecutor
  <2>7. QueueIsFresh'
    BY <2>1, <2>2, <2>3 DEF AbortPendingWork, QueueIsFresh
  <2>8. Bookkeeping'
    BY <2>4 DEF AbortPendingWork, Bookkeeping, Started, Root
  <2> QED
    BY <2>6, <2>7, <2>8
<1>9. CASE UNCHANGED vars
  BY <1>9 DEF vars, QueueInv, OneExecutor, QueueIsFresh, Bookkeeping,
              Running, Root, Started
<1> QED
  BY <1>1, <1>2, <1>3, <1>4, <1>5, <1>6, <1>7, <1>8, <1>9
     DEF Next, InterfaceSubAction, ModelSubAction

LEMMA QueueInvariant == Spec => []QueueInv
<1>1. Init => QueueInv
  BY Initially DEF IndInv, QueueInv
<1>2. QueueInv /\ [Next]_vars => QueueInv'
  BY QueueStep
<1> QED
  BY <1>1, <1>2, PTL DEF Spec

(* As long as calls are queued, the item at the head runs or exactly one timer
   is about to start it: _executeNext() neither forks nor stops, whatever the
   number of calls, resets and sub-actions.                                 *)
THEOREM ExecutorIsUnique == Spec => []OneExecutor
<1>1. QueueInv => OneExecutor
  BY DEF QueueInv
<1> QED
  BY <1>1, QueueInvariant, PTL

(* No call is queued twice, and behind the head every call waits unstarted with
   its promise open.                                                        *)
THEOREM QueueStaysFresh == Spec => []QueueIsFresh
<1>1. QueueInv => QueueIsFresh
  BY DEF QueueInv
<1> QED
  BY <1>1, QueueInvariant, PTL

-----------------------------------------------------------------------------
(* When bodies wait for all the sub-actions they start, an item's block ends
   last: SubActionsJoined carries "no sub-action of mine is executing" from a
   block that ends to all the sub-actions of the item.                      *)
LEMMA ExclusionStep ==
    ASSUME FailFast = FALSE, IndInv, [Next]_vars
    PROVE  RunsForHead' /\ SubActionsJoined' /\ FlagOwnerIsLive'
<1>0. FlagOwnerIsLive'
  BY ItemAssumption DEF IndInv, TypeOK, FlagOwnerIsLive, Next, InterfaceSubAction, ModelSubAction,
     Enqueue, SubAction, RunSubAction, RefuseSubAction, Settle, FinishItem,
     ExecuteNext, AbortPendingWork, Quiet, vars
<1> SUFFICES RunsForHead' /\ SubActionsJoined'
  BY <1>0
<1> USE ItemAssumption DEF IndInv, TypeOK
<1>1. ASSUME NEW i \in Item, NEW b \in Item \cup {NoItem}, NEW w \in BOOLEAN,
             Enqueue(i, b, w)
      PROVE  RunsForHead' /\ SubActionsJoined'
  <2> USE <1>1
  <2>1. RunsForHead'
    BY AppendFresh DEF Enqueue, RunsForHead, Started
  <2>2. SubLive' = SubLive
    BY DEF Enqueue, SubLive, Root, Bookkeeping
  <2>3. \A c \in Item : body[c] = "live" => body'[c] = "live" /\ waits[c] \subseteq waits'[c]
    BY DEF Enqueue
  <2> QED
    BY <2>1, <2>2, <2>3 DEF SubActionsJoined
<1>2. ASSUME NEW b \in Item, SubAction(b)
      PROVE  RunsForHead' /\ SubActionsJoined'
  BY <1>2 DEF SubAction, RunsForHead, SubActionsJoined, SubLive, Root, Started
<1>3. ASSUME NEW i \in Item, RunSubAction(i), body[subActionIncoming] = "live"
      PROVE  RunsForHead' /\ SubActionsJoined'
  <2> USE <1>3
  <2>1. RunsForHead'
    BY DEF RunSubAction, RunsForHead, Started
  <2>2. SubLive' \subseteq SubLive \cup {i}
    BY DEF RunSubAction, SubLive, Root
  <2>3. \A c \in Item : body[c] = "live" =>
          c # i /\ body'[c] = "live" /\ waits[c] \subseteq waits'[c]
    BY DEF RunSubAction
  <2>4. subActionIncoming \in Item /\ i \in waits'[subActionIncoming]
    BY DEF RunSubAction, Quiet
  <2>5. ASSUME NEW S \in SUBSET SubLive', S # {}
        PROVE  \E s \in S, b \in Item \ S : body'[b] = "live" /\ s \in waits'[b]
    <3>1. CASE S = {i}
      BY <2>3, <2>4, <3>1
    <3>2. CASE S \ {i} # {}
      <4> DEFINE R == S \ {i}
      <4>0. R \in SUBSET SubLive /\ R # {}
        BY <2>2, <2>5, <3>2
      <4>1. PICK s \in R, b \in Item \ R : body[b] = "live" /\ s \in waits[b]
        BY <4>0 DEF SubActionsJoined
      <4> QED
        BY <2>3, <4>1
    <3> QED
      BY <2>5, <3>1, <3>2
  <2> QED
    BY <2>1, <2>5 DEF SubActionsJoined
<1>4. CASE RefuseSubAction
  BY <1>4 DEF RefuseSubAction, RunsForHead, SubActionsJoined, SubLive, Root, Started
<1>5. ASSUME NEW b \in Item, NEW o \in {"resolved", "rejected"}, Settle(b, o)
      PROVE  RunsForHead' /\ SubActionsJoined'
  <2> USE <1>5
  <2>1. RunsForHead'
    BY DEF Settle, RunsForHead, Started
  <2>2. SubLive' \subseteq SubLive \ {b}
    BY DEF Settle, SubLive, Root
  <2>3. \A w \in waits[b] : body[w] # "live"
    BY DEF Settle, AllSettled, Bookkeeping, Started
  <2>4. ASSUME NEW S \in SUBSET SubLive', S # {}
        PROVE  \E s \in S, c \in Item \ S : body'[c] = "live" /\ s \in waits'[c]
    <3>1. PICK s \in S, c \in Item \ S : body[c] = "live" /\ s \in waits[c]
      BY <2>2, <2>4 DEF SubActionsJoined
    <3>2. c # b
      BY <2>2, <2>3, <2>4, <3>1 DEF SubLive
    <3> QED
      BY <3>1, <3>2 DEF Settle
  <2> QED
    BY <2>1, <2>4 DEF SubActionsJoined
<1>6. ASSUME NEW i \in Item, FinishItem(i)
      PROVE  RunsForHead' /\ SubActionsJoined'
  <2> USE <1>6
  <2>1. i \in Running /\ Root(i)
    BY DEF FinishItem, Bookkeeping, Running, Started
  <2>2. Running = {i}
    BY <2>1 DEF OneExecutor
  <2>3. SubLive = {}
    <3>1. ASSUME NEW s \in SubLive, NEW b \in Item \ SubLive, body[b] = "live"
          PROVE  FALSE
      <4>1. b \in Running
        BY <3>1 DEF SubLive, Running, Started
      <4> QED
        BY <2>2, <3>1, <4>1 DEF FinishItem
    <3>2. SubLive \in SUBSET SubLive
      OBVIOUS
    <3> QED
      BY <3>1, <3>2 DEF SubActionsJoined
  <2>4. \A j \in Item : body'[j] \notin Started
    <3>1. \A j \in Item : body[j] \in Started => j \in Running \cup SubLive
      BY DEF Started, Running, SubLive, Bookkeeping
    <3> QED
      BY <2>2, <2>3, <3>1 DEF FinishItem, Started
  <2>5. SubLive' = {}
    BY <2>4 DEF SubLive, Started
  <2> QED
    BY <2>4, <2>5 DEF RunsForHead, SubActionsJoined
<1>7. CASE ExecuteNext
  <2> USE <1>7
  <2>1. Head(queue) \in Item /\ body[Head(queue)] = "queued" /\ Running = {}
    BY TailFresh DEF ExecuteNext, OneExecutor
  <2>2. RunsForHead'
    BY <2>1 DEF ExecuteNext, RunsForHead, Started
  <2>3. SubLive' = SubLive
    BY <2>1 DEF ExecuteNext, SubLive, Root
  <2>4. \A c \in Item : body[c] = "live" => body'[c] = "live"
    BY <2>1 DEF ExecuteNext
  <2> QED
    BY <2>2, <2>3, <2>4 DEF ExecuteNext, SubActionsJoined
<1>8. CASE AbortPendingWork
  <2> USE <1>8
  <2>1. \A i \in Pending : body[i] = "queued"
    BY DEF Pending, QueueIsFresh
  <2>2. queue # <<>> /\ queue' # <<>> /\ Head(queue') = Head(queue)
    BY DEF AbortPendingWork, isWriterRunning
  <2>3. RunsForHead'
    BY <2>2 DEF AbortPendingWork, RunsForHead, Started
  <2>4. SubLive' = SubLive
    BY <2>1 DEF AbortPendingWork, SubLive, Root
  <2>5. \A c \in Item : body[c] = "live" => body'[c] = "live"
    BY <2>1 DEF AbortPendingWork
  <2> QED
    BY <2>3, <2>4, <2>5 DEF AbortPendingWork, SubActionsJoined
<1>9. CASE UNCHANGED vars
  BY <1>9 DEF vars, RunsForHead, SubActionsJoined, SubLive, Root, Started
<1>10. ASSUME NEW i \in Item, RunSubAction(i)
       PROVE  body[subActionIncoming] = "live"
  BY <1>10 DEF RunSubAction, FlagOwnerIsLive
<1> QED
  BY <1>0, <1>1, <1>2, <1>3, <1>4, <1>5, <1>6, <1>7, <1>8, <1>9, <1>10
     DEF Next, InterfaceSubAction, ModelSubAction

LEMMA IndInvariant ==
    ASSUME FailFast = FALSE
    PROVE  Spec => []IndInv
<1>1. Init => IndInv
  BY Initially
<1>2. IndInv /\ [Next]_vars => IndInv'
  BY QueueStep, ExclusionStep DEF QueueInv, IndInv
<1> QED
  BY <1>1, <1>2, PTL DEF Spec

(* Database.write(): no other writer is simultaneously executing, provided that
   bodies wait for every sub-action they start.                             *)
THEOREM WritersAreExclusive ==
    ASSUME FailFast = FALSE
    PROVE  Spec => []WriterExclusion
<1>1. IndInv => WriterExclusion
  BY DEF IndInv, RunsForHead, WriterExclusion
<1> QED
  BY <1>1, IndInvariant, PTL

(* A block runs at most once and a promise settles at most once: a reset aborts
   neither the call that is running nor one that ended.                     *)
THEOREM CallsRunOnce == Spec => RunsOnce
<1> DEFINE Once(i) ==
      /\ promise[i] \in {"resolved", "rejected"} => promise'[i] = promise[i]
      /\ body[i] \in {"fulfilled", "failed", "done", "dropped"}
           => body'[i] \in {body[i], "done"}
      /\ body[i] = "live" => body'[i] # "dropped"
<1>1. ASSUME QueueInv, [Next]_vars
      PROVE  [\A i \in Item : Once(i)]_vars
  <2> USE <1>1 DEF QueueInv, TypeOK, Once
  <2> SUFFICES ASSUME NEW j \in Item PROVE Once(j)
    OBVIOUS
  <2>1. ASSUME NEW i \in Item, NEW b \in Item \cup {NoItem}, NEW w \in BOOLEAN,
               Enqueue(i, b, w)
        PROVE  Once(j)
    BY <2>1 DEF Enqueue, Bookkeeping
  <2>2. ASSUME NEW b \in Item, SubAction(b) PROVE Once(j)
    BY <2>2 DEF SubAction
  <2>3. ASSUME NEW i \in Item, RunSubAction(i) PROVE Once(j)
    BY <2>3 DEF RunSubAction, Bookkeeping
  <2>4. CASE RefuseSubAction
    BY <2>4 DEF RefuseSubAction
  <2>5. ASSUME NEW b \in Item, NEW o \in {"resolved", "rejected"}, Settle(b, o)
        PROVE  Once(j)
    BY <2>5 DEF Settle, Bookkeeping, Started
  <2>6. ASSUME NEW i \in Item, FinishItem(i) PROVE Once(j)
    BY <2>6 DEF FinishItem, Bookkeeping, Started
  <2>7. CASE ExecuteNext
    <3>1. body[Head(queue)] = "queued"
      BY <2>7 DEF ExecuteNext, OneExecutor
    <3> QED
      BY <2>7, <3>1 DEF ExecuteNext
  <2>8. CASE AbortPendingWork
    <3>1. \A i \in Pending : body[i] = "queued" /\ promise[i] = "pending"
      BY DEF Pending, QueueIsFresh
    <3> QED
      BY <2>8, <3>1 DEF AbortPendingWork
  <2>9. CASE UNCHANGED vars
    BY <2>9 DEF vars
  <2> QED
    BY <2>1, <2>2, <2>3, <2>4, <2>5, <2>6, <2>7, <2>8, <2>9
       DEF Next, InterfaceSubAction, ModelSubAction
<1> QED
  BY <1>1, QueueInvariant, PTL DEF Spec, RunsOnce

-----------------------------------------------------------------------------
(* Readers and writers take turns.  A call that waits has no interface yet. *)
WaitsWithoutHost == \A i \in Item : body[i] = "queued" => host[i] = NoItem

LEMMA HostStep ==
    ASSUME QueueInv, WaitsWithoutHost, [Next]_vars
    PROVE  WaitsWithoutHost'
<1> USE DEF QueueInv, TypeOK, WaitsWithoutHost
<1>1. ASSUME NEW i \in Item, NEW b \in Item \cup {NoItem}, NEW w \in BOOLEAN,
             Enqueue(i, b, w)
      PROVE  WaitsWithoutHost'
  BY <1>1 DEF Enqueue, Bookkeeping
<1>2. ASSUME NEW b \in Item, SubAction(b) PROVE WaitsWithoutHost'
  BY <1>2 DEF SubAction
<1>3. ASSUME NEW i \in Item, RunSubAction(i) PROVE WaitsWithoutHost'
  BY <1>3 DEF RunSubAction
<1>4. CASE RefuseSubAction
  BY <1>4 DEF RefuseSubAction
<1>5. ASSUME NEW b \in Item, NEW o \in {"resolved", "rejected"}, Settle(b, o)
      PROVE  WaitsWithoutHost'
  BY <1>5 DEF Settle
<1>6. ASSUME NEW i \in Item, FinishItem(i) PROVE WaitsWithoutHost'
  BY <1>6 DEF FinishItem
<1>7. CASE ExecuteNext
  BY <1>7 DEF ExecuteNext
<1>8. CASE AbortPendingWork
  BY <1>8 DEF AbortPendingWork
<1>9. CASE UNCHANGED vars
  BY <1>9 DEF vars
<1> QED
  BY <1>1, <1>2, <1>3, <1>4, <1>5, <1>6, <1>7, <1>8, <1>9
     DEF Next, InterfaceSubAction, ModelSubAction

(* The clients of SerialAccess: who holds access, who waits, who has asked. *)
Holder  == IF HeadStarted THEN Head(queue) ELSE NoItem
Waiting == IF HeadStarted THEN Tail(queue) ELSE queue
Asked   == {i \in Item : body[i] # "idle" /\ host[i] \in {i, NoItem}}

LEMMA HeadIs ==
    ASSUME QueueInv
    PROVE  /\ queue # <<>> => /\ Head(queue) \in Item /\ Head(queue) # NoItem
                              /\ body[Head(queue)] # "idle"
           /\ HeadStarted => queue # <<>> /\ Running = {Head(queue)} /\ timers = 0
           /\ queue # <<>> /\ ~HeadStarted => body[Head(queue)] = "queued" /\ Running = {}
<1> USE ItemAssumption DEF QueueInv, TypeOK
<1>1. ASSUME queue # <<>>
      PROVE  Head(queue) \in Item /\ body[Head(queue)] # "idle"
  <2>1. Head(queue) \in Item /\ Head(queue) = queue[1] /\ 1 \in 1..Len(queue)
    BY <1>1, TailFresh
  <2> QED BY <2>1 DEF QueueIsFresh, Bookkeeping
<1>2. HeadStarted => queue # <<>> /\ Running = {Head(queue)} /\ timers = 0
  BY DEF HeadStarted, OneExecutor, Started
<1>3. queue # <<>> /\ ~HeadStarted => body[Head(queue)] = "queued" /\ Running = {}
  <2>1. ASSUME queue # <<>>, Running = {Head(queue)} PROVE HeadStarted
    BY <2>1 DEF HeadStarted, Running
  <2> QED BY <2>1 DEF OneExecutor
<1> QED BY <1>1, <1>2, <1>3

LEMMA TurnsStep ==
    ASSUME QueueInv, WaitsWithoutHost, [Next]_vars
    PROVE  [Serial!Next]_(Serial!vars)
<1> USE ItemAssumption DEF QueueInv, TypeOK
<1> SUFFICES \/ \E i \in Item :
                  /\ i \notin Asked /\ Asked' = Asked \cup {i}
                  /\ \/ /\ Holder = NoItem /\ Waiting = <<>>
                        /\ Holder' = i /\ Waiting' = Waiting
                     \/ /\ Holder # NoItem \/ Waiting # <<>>
                        /\ Waiting' = Append(Waiting, i) /\ Holder' = Holder
             \/ /\ Holder = NoItem /\ Waiting # <<>>
                /\ Holder' = Head(Waiting) /\ Waiting' = Tail(Waiting) /\ Asked' = Asked
             \/ Holder # NoItem /\ Holder' = NoItem /\ Waiting' = Waiting /\ Asked' = Asked
             \/ \E k \in 0..1 : /\ Len(Waiting) > k /\ Waiting' = SubSeq(Waiting, 1, k)
                                /\ Holder' = Holder /\ Asked' = Asked
             \/ Holder' = Holder /\ Waiting' = Waiting /\ Asked' = Asked
  BY DEF Serial!Next, Serial!vars, Serial!Ask, Serial!Admit, Serial!Leave, Serial!TurnAway,
         Holder, Waiting, Asked
<1>0. queue # <<>> => Head(queue) \in Item /\ Head(queue) # NoItem /\ body[Head(queue)] # "idle"
  BY HeadIs
<1>1. ASSUME NEW i \in Item, NEW b \in Item \cup {NoItem}, NEW w \in BOOLEAN,
             Enqueue(i, b, w)
      PROVE  \E c \in Item :
               /\ c \notin Asked /\ Asked' = Asked \cup {c}
               /\ \/ /\ Holder = NoItem /\ Waiting = <<>>
                     /\ Holder' = c /\ Waiting' = Waiting
                  \/ /\ Holder # NoItem \/ Waiting # <<>>
                     /\ Waiting' = Append(Waiting, c) /\ Holder' = Holder
  <2>1. body[i] = "idle" /\ host[i] = NoItem /\ queue' = Append(queue, i)
    BY <1>1 DEF Enqueue, Bookkeeping
  <2>2. /\ Append(queue, i) # <<>>
        /\ queue = <<>> => Head(Append(queue, i)) = i
        /\ queue # <<>> => Head(Append(queue, i)) = Head(queue)
    BY AppendFresh
  <2>3. i \notin Asked /\ Asked' = Asked \cup {i}
    BY <1>1, <2>1 DEF Enqueue, Asked
  <2>4. CASE queue = <<>>
    <3>1. body'[i] = "live"
      BY <1>1, <2>4 DEF Enqueue
    <3>2. HeadStarted' /\ ~HeadStarted
      BY <2>1, <2>2, <2>4, <3>1 DEF HeadStarted, Started
    <3>3. Tail(queue') = <<>> /\ Head(queue') = i
      BY <2>1, <2>4
    <3> QED BY <2>3, <2>4, <3>2, <3>3 DEF Holder, Waiting
  <2>5. CASE queue # <<>>
    <3>1. Head(queue) # i /\ Head(queue') = Head(queue) /\ queue' # <<>>
      BY <1>0, <2>1, <2>2, <2>5
    <3>2. body'[Head(queue)] = body[Head(queue)]
      BY <1>1, <1>0, <2>5, <3>1 DEF Enqueue
    <3>3. HeadStarted' = HeadStarted
      BY <2>5, <3>1, <3>2 DEF HeadStarted
    <3>4. Tail(Append(queue, i)) = Append(Tail(queue), i)
      BY <2>5
    <3> QED BY <1>0, <2>1, <2>3, <2>5, <3>1, <3>3, <3>4 DEF Holder, Waiting
  <2> QED BY <2>4, <2>5
<1>2. ASSUME NEW b \in Item, SubAction(b)
      PROVE  Holder' = Holder /\ Waiting' = Waiting /\ Asked' = Asked
  BY <1>2 DEF SubAction, Holder, Waiting, Asked, HeadStarted
<1>3. ASSUME NEW i \in Item, RunSubAction(i)
      PROVE  Holder' = Holder /\ Waiting' = Waiting /\ Asked' = Asked
  <2>1. /\ body[i] = "idle" /\ queue # <<>> /\ queue' = queue /\ Head(queue) # i
        /\ body'[Head(queue)] = body[Head(queue)]
    BY <1>3, <1>0 DEF RunSubAction
  <2>2. Asked' = Asked
    BY <1>3, <1>0, <2>1 DEF RunSubAction, Asked
  <2> QED BY <2>1, <2>2 DEF Holder, Waiting, HeadStarted
<1>4. ASSUME RefuseSubAction
      PROVE  Holder' = Holder /\ Waiting' = Waiting /\ Asked' = Asked
  BY <1>4 DEF RefuseSubAction, Holder, Waiting, Asked, HeadStarted
<1>5. ASSUME NEW b \in Item, NEW o \in {"resolved", "rejected"}, Settle(b, o)
      PROVE  Holder' = Holder /\ Waiting' = Waiting /\ Asked' = Asked
  <2>1. queue' = queue
    BY <1>5 DEF Settle
  <2>2. Asked' = Asked
    BY <1>5 DEF Settle, Asked
  <2>3. HeadStarted' = HeadStarted
    <3>1. CASE queue # <<>> /\ b = Head(queue)
      <4>1. HeadStarted
        BY <1>5, <3>1 DEF Settle, HeadStarted, Started
      <4>2. host[b] = b
        BY <3>1, <4>1, HeadIs DEF Running, Root
      <4> QED BY <1>5, <2>1, <3>1, <4>1, <4>2 DEF Settle, HeadStarted, Started
    <3>2. CASE queue = <<>> \/ b # Head(queue)
      BY <1>0, <1>5, <2>1, <3>2 DEF Settle, HeadStarted
    <3> QED BY <3>1, <3>2
  <2> QED BY <2>1, <2>2, <2>3 DEF Holder, Waiting
<1>6. ASSUME NEW i \in Item, FinishItem(i)
      PROVE  Holder # NoItem /\ Holder' = NoItem /\ Waiting' = Waiting /\ Asked' = Asked
  <2>1. i \in Running /\ queue # <<>>
    BY <1>6 DEF FinishItem, Bookkeeping, Running, Started
  <2>2. HeadStarted /\ i = Head(queue)
    BY <2>1, HeadIs
  <2>3. ASSUME Tail(queue) # <<>>
        PROVE  body'[Head(Tail(queue))] = "queued"
    <3>1. Head(Tail(queue)) = queue[2] /\ Len(queue) > 1 /\ Len(queue) \in Nat /\ Head(queue) = queue[1]
      BY <2>1, <2>3, TailFresh
    <3>2. queue[2] # i /\ body[queue[2]] = "queued"
      BY <2>2, <3>1 DEF QueueIsFresh
    <3>3. queue[2] \in Item
      BY <3>1
    <3> QED BY <1>6, <3>1, <3>2, <3>3 DEF FinishItem
  <2>4. queue' = Tail(queue)
    BY <1>6 DEF FinishItem
  <2>5. ~HeadStarted'
    BY <2>3, <2>4 DEF HeadStarted, Started
  <2>6. Asked' = Asked
    BY <1>6 DEF FinishItem, Asked
  <2> QED BY <1>0, <2>1, <2>2, <2>4, <2>5, <2>6 DEF Holder, Waiting
<1>7. ASSUME ExecuteNext
      PROVE  /\ Holder = NoItem /\ Waiting # <<>>
             /\ Holder' = Head(Waiting) /\ Waiting' = Tail(Waiting) /\ Asked' = Asked
  <2>1. /\ queue # <<>> /\ queue' = queue
        /\ body' = [body EXCEPT ![Head(queue)] = "live"]
        /\ host' = [host EXCEPT ![Head(queue)] = Head(queue)]
    BY <1>7 DEF ExecuteNext
  <2>2. ~HeadStarted /\ body[Head(queue)] = "queued"
    BY <1>7, <2>1, HeadIs DEF ExecuteNext
  <2>3. HeadStarted'
    BY <1>0, <2>1 DEF HeadStarted, Started
  <2>4. host[Head(queue)] = NoItem
    BY <1>0, <2>1, <2>2 DEF WaitsWithoutHost
  <2>5. Asked' = Asked
    BY <1>0, <2>1, <2>2, <2>4 DEF Asked
  <2> QED BY <2>1, <2>2, <2>3, <2>5 DEF Holder, Waiting
<1>8. ASSUME AbortPendingWork
      PROVE  \E k \in 0..1 : /\ Len(Waiting) > k /\ Waiting' = SubSeq(Waiting, 1, k)
                             /\ Holder' = Holder /\ Asked' = Asked
  <2>1. /\ queue # <<>> /\ queue' = <<Head(queue)>> /\ host' = host /\ Pending # {}
        /\ body' = [i \in Item |-> IF i \in Pending THEN "dropped" ELSE body[i]]
    BY <1>8 DEF AbortPendingWork, isWriterRunning
  <2>2. /\ Head(queue) = queue[1] /\ Len(queue) > 1 /\ Len(queue) \in Nat
        /\ Tail(queue) \in Seq(Item) /\ Len(Tail(queue)) = Len(queue) - 1
    BY <2>1, TailFresh DEF Pending
  <2>3. Head(queue) \notin Pending
    BY <2>2 DEF Pending, QueueIsFresh
  <2>4. \A i \in Pending : body[i] = "queued"
    BY DEF Pending, QueueIsFresh
  <2>5. Head(queue') = Head(queue) /\ queue' # <<>> /\ Tail(queue') = <<>>
    BY <1>0, <2>1
  <2>6. HeadStarted' = HeadStarted
    BY <1>0, <2>1, <2>3, <2>5 DEF HeadStarted
  <2>7. Asked' = Asked
    BY <2>1, <2>4 DEF Asked
  <2>8. CASE HeadStarted
    <3>1. SubSeq(Tail(queue), 1, 0) = <<>> /\ Len(Tail(queue)) > 0
      BY <2>2
    <3> QED BY <2>5, <2>6, <2>7, <2>8, <3>1 DEF Holder, Waiting
  <2>9. CASE ~HeadStarted
    <3>1. SubSeq(queue, 1, 1) = <<Head(queue)>>
      <4>1. queue \in Seq(Item) /\ 1 \in 1..Len(queue)
        BY <2>2
      <4>2. SubSeq(queue, 1, 1) \in Seq(Item) /\ Len(SubSeq(queue, 1, 1)) = 1
            /\ SubSeq(queue, 1, 1)[1] = queue[1]
        BY <4>1, <2>2
      <4>3. \A s \in Seq(Item) : Len(s) = 1 => s = <<s[1]>>
        OBVIOUS
      <4> QED BY <2>2, <4>2, <4>3
    <3> QED BY <2>1, <2>2, <2>6, <2>7, <2>9, <3>1 DEF Holder, Waiting
  <2> QED BY <2>8, <2>9
<1>9. ASSUME UNCHANGED vars
      PROVE  Holder' = Holder /\ Waiting' = Waiting /\ Asked' = Asked
  BY <1>9 DEF vars, Holder, Waiting, Asked, HeadStarted
<1> QED
  BY <1>1, <1>2, <1>3, <1>4, <1>5, <1>6, <1>7, <1>8, <1>9
     DEF Next, InterfaceSubAction, ModelSubAction

(* The queue implements SerialAccess: for any number of calls, timers, resets and
   sub-actions, callers are admitted one at a time in the order they asked, and
   only those who still wait are turned away.  (That a caller who can be admitted
   is admitted in the end is checked by TLC.)                                *)
THEOREM AccessIsSerial == Spec => TakeTurns
<1>1. Init => Serial!Init
  <2> SUFFICES ASSUME Init PROVE Serial!Init
    OBVIOUS
  <2>1. ~HeadStarted /\ queue = <<>> /\ \A i \in Item : body[i] = "idle"
    BY DEF Init, HeadStarted
  <2> QED BY <2>1 DEF Serial!Init
<1>2. Init => WaitsWithoutHost
  BY DEF Init, WaitsWithoutHost
<1>3. QueueInv /\ WaitsWithoutHost /\ [Next]_vars => WaitsWithoutHost'
  BY HostStep
<1>4. QueueInv /\ WaitsWithoutHost /\ [Next]_vars => [Serial!Next]_(Serial!vars)
  BY TurnsStep
<1> QED
  BY <1>1, <1>2, <1>3, <1>4, QueueInvariant, PTL DEF Spec, TakeTurns
=============================================================================
