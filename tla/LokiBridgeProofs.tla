--------------------------- MODULE LokiBridgeProofs ---------------------------
(* Proofs about LokiBridge, with and without a web worker, for any number of versions,
   calls and launches: responses go to the calls they are for, the driver works on
   its schema, and what is on disk is sound at any time.                     *)
EXTENDS LokiBridge, TLAPS

-----------------------------------------------------------------------------
(* Responses, actions that wait and messages are one line, in the order of the calls. *)

(* p is the line of i, q and o. *)
Line(p, i, q, o) ==
    /\ Len(p) = Len(i) + Len(q) + Len(o)
    /\ \A k \in 1..Len(i) : i[k].id = p[k]
    /\ \A k \in 1..Len(q) : q[k].id = p[Len(i) + k]
    /\ \A k \in 1..Len(o) : o[k].id = p[Len(i) + Len(q) + k]

LineInv == Line(pending, inbox, queue, outbox)

(* What is pending is not answered, and behind all that is. *)
OrderInv ==
    /\ \A k, l \in 1..Len(pending) : k < l => pending[k] < pending[l]
    /\ \A k \in 1..Len(pending) : pending[k] # 0 =>
         calls[pending[k]].status = "sent" /\ calls[pending[k]].launch = launch
    /\ \A id \in Ids : calls[id].launch = launch /\ calls[id].status = "ok" =>
         \A k \in 1..Len(pending) : id < pending[k]
    /\ \A id \in Ids : /\ calls[id].kind = "none" <=> calls[id].status = "none"
                       /\ calls[id].kind = "none" => calls[id].launch = 0
                       /\ calls[id].launch <= launch
    /\ \A i, j \in Ids : i < j /\ calls[i].kind = "none" => calls[j].kind = "none"

(* An action says what its call is. *)
IsOf(action) == IF action.id = 0 THEN action.type = "setUp"
                                 ELSE action.type = calls[action.id].kind

KindInv == /\ \A k \in 1..Len(queue) : IsOf(queue[k])
           /\ \A k \in 1..Len(outbox) : IsOf(outbox[k])

(* A reset is the last call there is, until it has been answered. *)
LastCall(r) == /\ r \in Ids /\ calls[r].kind = "reset"
               /\ \A id \in Ids : id > r => calls[id].kind = "none"

ResetInv ==
    /\ database = "working" =>
         \A k \in 1..Len(pending) : pending[k] # 0 => calls[pending[k]].kind # "reset"
    /\ database = "resetting" =>
         /\ pending # <<>> /\ LastCall(pending[Len(pending)])
         /\ \A k \in 1..Len(pending) : pending[k] # 0 /\ calls[pending[k]].kind = "reset" =>
              k = Len(pending)
    /\ database = "broken" => pending = <<>>

-----------------------------------------------------------------------------
(* The worker executes the head of its queue; a set-up or a reset stays there until it
   is over, unless a callback has made the worker answer it before.          *)

ChannelInv == ~options.webWorker => inbox = <<>> /\ outbox = <<>>

(* The worker calls the application back, which it does not for the set-up. *)
Called == ~options.webWorker /\ \A k \in 1..Len(pending) : pending[k] # 0

StackInv ==
    /\ \A k \in 2..Len(stack) : stack[k] = "callback"
    /\ \A k \in 1..Len(stack) : stack[k] = "callback" => Called
    /\ Top = "execute" => queue # <<>>

TaskInv ==
    /\ executing = 1 =>
         /\ task # NoTask
         /\ queue # <<>> /\ task.id = queue[1].id /\ task.type = queue[1].type
         /\ options.webWorker \/ task.type = "setUp" => stack = <<>>
    /\ task # NoTask => task.step # "none" /\ task.type \in Async
    /\ task # NoTask /\ executing = 0 => database = "broken" /\ task.type = "reset"
    /\ task.step = "open" => task.type = "setUp"
    /\ task.type = "reset" => database # "working" /\ LastCall(task.id)

LinkInv == /\ LineInv /\ OrderInv /\ KindInv /\ ResetInv
           /\ ChannelInv /\ StackInv /\ TaskInv

-----------------------------------------------------------------------------
(* The database has the tables of its version, in memory and on disk, unless a set-up
   mixed the collections of two versions.                                    *)

HasTables(content) == content.mixed \/ 1..content.version \subseteq content.tables

(* A reset has been, or is about to be, answered with an error. *)
ResetRejected ==
    \/ database = "broken"
    \/ /\ database = "resetting" /\ inbox # <<>> /\ Len(inbox) = Len(pending)
       /\ ~inbox[Len(inbox)].ok

(* The set-up is still to be executed, or to be answered. *)
SetUpAhead == \/ \E k \in 1..Len(queue) : queue[k].id = 0
              \/ \E k \in 1..Len(outbox) : outbox[k].id = 0

SchemaInv ==
    /\ HasTables(disk) /\ HasTables(loki.content)
    /\ driver.set => /\ loki.content.mixed \/ 1..app.schema \subseteq loki.content.tables
                     /\ loki.content.version = app.schema \/ ResetRejected
    /\ SetUpAhead => ~driver.set /\ ~driver.broken

HalfInv == options.fatal => disk.half = {} /\ (loki.autosave => loki.content.half = {})

-----------------------------------------------------------------------------
(* What has been written, in which order. *)

Performed(i) == \/ calls[i].status = "ok"
                \/ \E k \in 1..Len(inbox) : inbox[k].id = i /\ inbox[k].ok

KeepsOrder(whole) == \A i, j \in Ids :
    (/\ i < j /\ calls[i].launch = calls[j].launch
     /\ calls[i].kind = "write" /\ Performed(i)
     /\ \A r \in i..j : calls[r].kind # "reset"
     /\ j \in whole) => i \in whole

(* All that is to be executed is behind i. *)
Awaits(i) == /\ \A k \in 1..Len(queue) : i < queue[k].id
             /\ \A k \in 1..Len(outbox) : i < outbox[k].id

IsBehind(whole) == \A i \in whole :
    calls[i].kind # "none" /\ (calls[i].launch = launch => Awaits(i))

(* A reset that followed it is being executed, or has been. *)
IsErased(i) ==
    \E r \in Ids : /\ i < r /\ calls[r].kind = "reset"
                   /\ \A k \in 1..Len(queue) : r <= queue[k].id
                   /\ \A k \in 1..Len(outbox) : r <= outbox[k].id

(* A write of this launch that succeeded. *)
IsDone(i) == calls[i].kind = "write" /\ Performed(i) /\ calls[i].launch = launch

PrefixInv ==
    /\ KeepsOrder(disk.whole) /\ KeepsOrder(loki.content.whole)
    /\ IsBehind(disk.whole) /\ IsBehind(loki.content.whole)
    /\ \A i \in Ids : IsDone(i) => i \in loki.content.whole \/ IsErased(i)

LokiInv == TypeOK /\ LinkInv /\ SchemaInv /\ HalfInv /\ PrefixInv

-----------------------------------------------------------------------------
(* Queues and the worker's stack. *)

Frames    == {"execute", "callback"}
Responses == [id : 0..MaxCalls, ok : BOOLEAN]
Tasks     == [id : 0..MaxCalls, type : Async \cup {"none"},
              step : {"none", "open", "close", "delete", "reopen"}]
CallType  == [kind : Kinds \cup {"none"}, launch : 0..MaxLaunches,
              status : {"none", "sent", "ok", "error", "lost"}]

Popped(s, t) ==
    /\ Len(s) \in Nat \ {0} /\ Len(t) = Len(s) - 1
    /\ \A k \in 1..Len(t) : t[k] = s[k + 1]

Pushed(s, t, x) ==
    /\ Len(s) \in Nat /\ Len(t) = Len(s) + 1
    /\ \A k \in 1..Len(s) : t[k] = s[k]
    /\ t[Len(s) + 1] = x

LEMMA TailIs ==
    ASSUME NEW S, NEW s \in Seq(S), s # <<>>
    PROVE  /\ Popped(s, Tail(s)) /\ Tail(s) \in Seq(S)
           /\ Head(s) = s[1] /\ s[1] \in S /\ 1 \in 1..Len(s)
  BY DEF Popped

LEMMA AppendIs ==
    ASSUME NEW S, NEW s \in Seq(S), NEW x \in S
    PROVE  Pushed(s, Append(s, x), x) /\ Append(s, x) \in Seq(S)
  BY DEF Pushed

LEMMA ConcatIs ==
    ASSUME NEW S, NEW s \in Seq(S), NEW t \in Seq(S)
    PROVE  /\ s \o t \in Seq(S)
           /\ Len(s) \in Nat /\ Len(t) \in Nat /\ Len(s \o t) = Len(s) + Len(t)
           /\ \A k \in 1..Len(s) : (s \o t)[k] = s[k]
           /\ \A k \in (Len(s) + 1)..(Len(s) + Len(t)) : (s \o t)[k] = t[k - Len(s)]
  OBVIOUS

LEMMA SequenceIs ==
    ASSUME NEW S, NEW s \in Seq(S), NEW t \in Seq(S), Len(t) = Len(s),
           \A k \in 1..Len(s) : t[k] = s[k]
    PROVE  s = t
<1>1. s = [k \in 1..Len(s) |-> s[k]] /\ t = [k \in 1..Len(t) |-> t[k]]
  OBVIOUS
<1> QED
  BY <1>1

LEMMA StackedIs ==
    ASSUME NEW S, NEW s \in Seq(S), NEW x \in S
    PROVE  /\ <<x>> \o s \in Seq(S) /\ <<x>> \o s # <<>> /\ Head(<<x>> \o s) = x
           /\ Len(<<x>> \o s) = Len(s) + 1 /\ (<<x>> \o s)[1] = x
           /\ \A k \in 1..Len(s) : (<<x>> \o s)[k + 1] = s[k]
<1>1. <<x>> \in Seq(S) /\ Len(<<x>>) = 1 /\ <<x>>[1] = x
  OBVIOUS
<1> DEFINE one == <<x>>
<1> HIDE DEF one
<1>2. one \in Seq(S) /\ Len(one) = 1 /\ one[1] = x
  BY <1>1 DEF one
<1> DEFINE all == one \o s
<1>3. /\ all \in Seq(S) /\ Len(s) \in Nat /\ Len(all) = 1 + Len(s)
      /\ \A k \in 1..1 : all[k] = one[k]
      /\ \A k \in 2..(1 + Len(s)) : all[k] = s[k - 1]
  <2>1. /\ one \o s \in Seq(S) /\ Len(s) \in Nat /\ Len(one \o s) = Len(one) + Len(s)
        /\ \A k \in 1..Len(one) : (one \o s)[k] = one[k]
        /\ \A k \in (Len(one) + 1)..(Len(one) + Len(s)) : (one \o s)[k] = s[k - Len(one)]
    BY <1>2, ConcatIs
  <2> QED
    BY <1>2, <2>1
<1> HIDE DEF all
<1>4. all[1] = x
  BY <1>2, <1>3
<1>5. ASSUME NEW k \in 1..Len(s) PROVE all[k + 1] = s[k]
  <2>1. k + 1 \in 2..(1 + Len(s)) /\ k + 1 - 1 = k
    BY <1>3
  <2> QED
    BY <1>3, <2>1
<1>6. all # <<>>
  BY <1>3
<1>7. Head(all) = x
  BY <1>3, <1>4, <1>6
<1> QED
  BY <1>3, <1>4, <1>5, <1>6, <1>7 DEF all, one

LEMMA TypeIs ==
    ASSUME TypeOK
    PROVE  /\ options.webWorker \in BOOLEAN /\ options.fatal \in BOOLEAN
           /\ app.schema \in Versions /\ app.migrations \in BOOLEAN
           /\ queue \in Seq(Actions) /\ outbox \in Seq(Actions) /\ inbox \in Seq(Responses)
           /\ pending \in Seq(0..MaxCalls) /\ stack \in Seq(Frames)
           /\ calls \in [Ids -> CallType] /\ task \in Tasks
           /\ executing \in {0, 1} /\ database \in {"working", "resetting", "broken"}
           /\ launch \in Nat /\ MaxCalls \in Nat /\ MaxVersion \in Nat
           /\ Ids \subseteq Nat \ {0} /\ 0..MaxCalls = Ids \cup {0}
  BY LokiAssumption DEF TypeOK, Apps, Versions, Responses, Frames, CallType, Tasks, Ids

LEMMA ElementIs ==
    ASSUME NEW S, NEW s \in Seq(S)
    PROVE  Len(s) \in Nat /\ \A k \in 1..Len(s) : s[k] \in S
  OBVIOUS

LEMMA ElementsAre ==
    ASSUME TypeOK
    PROVE  /\ Len(queue) \in Nat /\ Len(outbox) \in Nat /\ Len(inbox) \in Nat
           /\ Len(pending) \in Nat /\ Len(stack) \in Nat
           /\ \A k \in 1..Len(queue) : queue[k] \in Actions /\ queue[k].id \in 0..MaxCalls
           /\ \A k \in 1..Len(outbox) : outbox[k] \in Actions /\ outbox[k].id \in 0..MaxCalls
           /\ \A k \in 1..Len(inbox) : /\ inbox[k] \in Responses /\ inbox[k].id \in 0..MaxCalls
                                       /\ inbox[k].ok \in BOOLEAN
           /\ \A k \in 1..Len(pending) : pending[k] \in 0..MaxCalls
           /\ \A k \in 1..Len(stack) : stack[k] \in Frames
<1>1. /\ queue \in Seq(Actions) /\ outbox \in Seq(Actions) /\ inbox \in Seq(Responses)
      /\ pending \in Seq(0..MaxCalls) /\ stack \in Seq(Frames)
  BY TypeIs
<1>2. /\ \A k \in 1..Len(queue) : queue[k] \in Actions
      /\ \A k \in 1..Len(outbox) : outbox[k] \in Actions
  BY <1>1
<1>3. \A k \in 1..Len(inbox) : inbox[k] \in Responses
  BY <1>1
<1>4. \A k \in 1..Len(pending) : pending[k] \in 0..MaxCalls
  BY <1>1, ElementIs
<1>5. \A k \in 1..Len(stack) : stack[k] \in Frames
  BY <1>1, ElementIs
<1>6. /\ Len(queue) \in Nat /\ Len(outbox) \in Nat /\ Len(inbox) \in Nat
      /\ Len(pending) \in Nat /\ Len(stack) \in Nat
  BY <1>1
<1>7. /\ \A a \in Actions : a.id \in 0..MaxCalls
      /\ \A a \in Responses : a.id \in 0..MaxCalls /\ a.ok \in BOOLEAN
  BY DEF Actions, Responses
<1> QED
  BY <1>2, <1>3, <1>4, <1>5, <1>6, <1>7

-----------------------------------------------------------------------------
(* The line, when one of its ends or joints moves. *)

LEMMA LineMoves ==
    ASSUME NEW p, NEW i, NEW q, NEW o, NEW o2, NEW q2, NEW x, Line(p, i, q, o),
           Len(i) \in Nat, Popped(o, o2), Pushed(q, q2, x), x.id = o[1].id
    PROVE  Line(p, i, q2, o2)
<1>1. Len(o2) = Len(o) - 1 /\ Len(q2) = Len(q) + 1 /\ Len(o) \in Nat \ {0} /\ Len(q) \in Nat
  BY DEF Popped, Pushed
<1>2. ASSUME NEW k \in 1..Len(q2) PROVE q2[k].id = p[Len(i) + k]
  <2>1. CASE k \in 1..Len(q)
    BY <2>1 DEF Line, Pushed
  <2>2. CASE k = Len(q) + 1
    <3>1. o[1].id = p[Len(i) + Len(q) + 1] /\ q2[k].id = o[1].id
      BY <1>1, <2>2 DEF Line, Pushed
    <3>2. Len(i) + Len(q) + 1 = Len(i) + k
      BY <1>1, <2>2
    <3> QED
      BY <3>1, <3>2
  <2> QED
    BY <1>1, <2>1, <2>2
<1>3. ASSUME NEW k \in 1..Len(o2) PROVE o2[k].id = p[Len(i) + Len(q2) + k]
  <2>1. k + 1 \in 1..Len(o) /\ o2[k] = o[k + 1]
    BY <1>1 DEF Popped
  <2>2. Len(i) + Len(q) + (k + 1) = Len(i) + Len(q2) + k
    BY <1>1
  <2> QED
    BY <2>1, <2>2 DEF Line
<1>4. Len(p) = Len(i) + Len(q2) + Len(o2)
  BY <1>1 DEF Line
<1> QED
  BY <1>2, <1>3, <1>4 DEF Line

LEMMA LineAnswers ==
    ASSUME NEW p, NEW i, NEW q, NEW o, NEW i2, NEW q2, NEW x, Line(p, i, q, o),
           Len(o) \in Nat, Popped(q, q2), Pushed(i, i2, x), x.id = q[1].id
    PROVE  Line(p, i2, q2, o)
<1>1. Len(q2) = Len(q) - 1 /\ Len(i2) = Len(i) + 1 /\ Len(q) \in Nat \ {0} /\ Len(i) \in Nat
  BY DEF Popped, Pushed
<1>2. ASSUME NEW k \in 1..Len(i2) PROVE i2[k].id = p[k]
  <2>1. CASE k \in 1..Len(i)
    BY <2>1 DEF Line, Pushed
  <2>2. CASE k = Len(i) + 1
    BY <1>1, <2>2 DEF Line, Pushed
  <2> QED
    BY <1>1, <2>1, <2>2
<1>3. ASSUME NEW k \in 1..Len(q2) PROVE q2[k].id = p[Len(i2) + k]
  <2>1. k + 1 \in 1..Len(q) /\ q2[k] = q[k + 1]
    BY <1>1 DEF Popped
  <2>2. Len(i) + (k + 1) = Len(i2) + k
    BY <1>1
  <2> QED
    BY <2>1, <2>2 DEF Line
<1>4. ASSUME NEW k \in 1..Len(o) PROVE o[k].id = p[Len(i2) + Len(q2) + k]
  <2>1. Len(i) + Len(q) + k = Len(i2) + Len(q2) + k
    BY <1>1
  <2> QED
    BY <2>1 DEF Line
<1>5. Len(p) = Len(i2) + Len(q2) + Len(o)
  BY <1>1 DEF Line
<1> QED
  BY <1>2, <1>3, <1>4, <1>5 DEF Line

(* The first of the line leaves it, as a response or, when there are none, as an action. *)
LEMMA LineLoses ==
    ASSUME NEW p, NEW i, NEW q, NEW o, NEW p2, NEW i2, NEW q2, Line(p, i, q, o),
           Popped(p, p2), Len(i) \in Nat, Len(q) \in Nat, Len(o) \in Nat,
           \/ Popped(i, i2) /\ q2 = q
           \/ Len(i) = 0 /\ i2 = i /\ Popped(q, q2)
    PROVE  Line(p2, i2, q2, o)
<1>1. /\ Len(p2) = Len(p) - 1 /\ Len(p) \in Nat /\ Len(i2) \in Nat /\ Len(q2) \in Nat
      /\ Len(i2) + Len(q2) = Len(i) + Len(q) - 1
  <2>1. CASE Popped(i, i2) /\ q2 = q
    BY <2>1 DEF Popped
  <2>2. CASE Len(i) = 0 /\ i2 = i /\ Popped(q, q2)
    BY <2>2 DEF Popped
  <2> QED
    BY <2>1, <2>2
<1>2. ASSUME NEW k \in 1..Len(i2) PROVE i2[k].id = p2[k]
  <2>1. Popped(i, i2)
    BY <1>1
  <2>2. k + 1 \in 1..Len(i) /\ i2[k] = i[k + 1] /\ Len(i) <= Len(p)
    BY <2>1 DEF Popped, Line
  <2>3. p2[k] = p[k + 1]
    BY <1>1, <2>2 DEF Popped
  <2> QED
    BY <2>2, <2>3 DEF Line
<1>3. ASSUME NEW k \in 1..Len(q2) PROVE q2[k].id = p2[Len(i2) + k]
  <2>1. Len(i2) + k \in 1..Len(p2) /\ p2[Len(i2) + k] = p[Len(i2) + k + 1]
    BY <1>1 DEF Line, Popped
  <2>2. CASE Popped(i, i2) /\ q2 = q
    <3>1. Len(i2) + k + 1 = Len(i) + k
      BY <1>1, <2>2 DEF Popped
    <3> QED
      BY <2>1, <2>2, <3>1 DEF Line
  <2>3. CASE Len(i) = 0 /\ i2 = i /\ Popped(q, q2)
    <3>1. k + 1 \in 1..Len(q) /\ q2[k] = q[k + 1] /\ Len(i2) + k + 1 = Len(i) + (k + 1)
      BY <1>1, <2>3 DEF Popped
    <3> QED
      BY <2>1, <3>1 DEF Line
  <2> QED
    BY <2>2, <2>3
<1>4. ASSUME NEW k \in 1..Len(o) PROVE o[k].id = p2[Len(i2) + Len(q2) + k]
  <2>1. /\ Len(i2) + Len(q2) + k \in 1..Len(p2)
        /\ Len(i2) + Len(q2) + k + 1 = Len(i) + Len(q) + k
    BY <1>1 DEF Line
  <2>2. p2[Len(i2) + Len(q2) + k] = p[Len(i2) + Len(q2) + k + 1]
    BY <2>1 DEF Popped
  <2> QED
    BY <2>1, <2>2 DEF Line
<1>5. Len(p2) = Len(i2) + Len(q2) + Len(o)
  BY <1>1 DEF Line
<1> QED
  BY <1>2, <1>3, <1>4, <1>5 DEF Line

LEMMA LineGrows ==
    ASSUME NEW p, NEW i, NEW q, NEW o, NEW p2, NEW q2, NEW o2, NEW x, Line(p, i, q, o),
           Len(i) \in Nat, Len(q) \in Nat, Len(o) \in Nat, Pushed(p, p2, x.id),
           \/ q2 = q /\ Pushed(o, o2, x)
           \/ Len(o) = 0 /\ o2 = o /\ Pushed(q, q2, x)
    PROVE  Line(p2, i, q2, o2)
<1>1. /\ Len(p2) = Len(p) + 1 /\ Len(p) \in Nat /\ Len(p) = Len(i) + Len(q) + Len(o)
      /\ Len(q2) \in Nat /\ Len(o2) \in Nat
      /\ Len(q2) + Len(o2) = Len(q) + Len(o) + 1 /\ p2[Len(p) + 1] = x.id
  <2>1. CASE q2 = q /\ Pushed(o, o2, x)
    BY <2>1 DEF Pushed, Line
  <2>2. CASE Len(o) = 0 /\ o2 = o /\ Pushed(q, q2, x)
    BY <2>2 DEF Pushed, Line
  <2> QED
    BY <2>1, <2>2
<1>2. \A k \in 1..Len(i) : i[k].id = p2[k]
  BY <1>1 DEF Pushed, Line
<1>3. ASSUME NEW k \in 1..Len(q2) PROVE q2[k].id = p2[Len(i) + k]
  <2>1. CASE k \in 1..Len(q)
    <3>1. q2[k] = q[k]
      <4>1. CASE q2 = q
        BY <4>1
      <4>2. CASE Pushed(q, q2, x)
        BY <2>1, <4>2 DEF Pushed
      <4> QED
        BY <4>1, <4>2
    <3>2. Len(i) + k \in 1..Len(p)
      BY <1>1, <2>1
    <3> QED
      BY <2>1, <3>1, <3>2 DEF Pushed, Line
  <2>2. CASE k \notin 1..Len(q)
    <3>0. Len(o) = 0 /\ Pushed(q, q2, x)
      BY <2>2
    <3>1. k = Len(q) + 1 /\ Len(o) = 0 /\ q2[k] = x
      BY <1>1, <2>2, <3>0 DEF Pushed
    <3>2. Len(i) + k = Len(p) + 1
      BY <1>1, <3>1
    <3> QED
      BY <1>1, <3>1, <3>2
  <2> QED
    BY <2>1, <2>2
<1>4. ASSUME NEW k \in 1..Len(o2) PROVE o2[k].id = p2[Len(i) + Len(q2) + k]
  <2>0. q2 = q /\ Pushed(o, o2, x)
    BY <1>1
  <2>1. CASE k \in 1..Len(o)
    <3>1. o2[k] = o[k] /\ Len(i) + Len(q2) + k \in 1..Len(p)
      BY <1>1, <2>0, <2>1 DEF Pushed
    <3> QED
      BY <2>0, <2>1, <3>1 DEF Pushed, Line
  <2>2. CASE k \notin 1..Len(o)
    <3>1. k = Len(o) + 1 /\ o2[k] = x
      BY <1>1, <2>0, <2>2 DEF Pushed
    <3>2. Len(i) + Len(q2) + k = Len(p) + 1
      BY <1>1, <2>0, <3>1
    <3> QED
      BY <1>1, <3>1, <3>2
  <2> QED
    BY <2>1, <2>2
<1>5. Len(p2) = Len(i) + Len(q2) + Len(o2)
  BY <1>1
<1> QED
  BY <1>2, <1>3, <1>4, <1>5 DEF Line

(* Where in the line the messages are: behind the responses, each at a place of its own. *)
LEMMA Places ==
    ASSUME TypeOK, LineInv, OrderInv
    PROVE  /\ queue # <<>> => pending # <<>> /\ queue[1].id = pending[Len(inbox) + 1]
           /\ inbox # <<>> => pending # <<>> /\ inbox[1].id = pending[1]
           /\ \A k, l \in 1..Len(queue) : k < l => queue[k].id < queue[l].id
           /\ \A k \in 1..Len(queue), l \in 1..Len(outbox) : queue[k].id < outbox[l].id
           /\ \A k \in 1..Len(inbox), l \in 1..Len(queue) : inbox[k].id < queue[l].id
           /\ \A k \in 1..Len(inbox), l \in 1..Len(outbox) : inbox[k].id < outbox[l].id
           /\ \A k, l \in 1..Len(inbox) : k < l => inbox[k].id < inbox[l].id
<1>1. Len(queue) \in Nat /\ Len(outbox) \in Nat /\ Len(inbox) \in Nat /\ Len(pending) \in Nat
  BY ElementsAre
<1>2. Len(pending) = Len(inbox) + Len(queue) + Len(outbox)
  BY DEF LineInv, Line
<1>3. \A k \in 1..Len(inbox) : k \in 1..Len(pending) /\ inbox[k].id = pending[k]
  BY <1>1, <1>2 DEF LineInv, Line
<1>4. \A k \in 1..Len(queue) : /\ Len(inbox) + k \in 1..Len(pending)
                               /\ queue[k].id = pending[Len(inbox) + k]
  BY <1>1, <1>2 DEF LineInv, Line
<1>5. \A k \in 1..Len(outbox) : /\ Len(inbox) + Len(queue) + k \in 1..Len(pending)
                                /\ outbox[k].id = pending[Len(inbox) + Len(queue) + k]
  BY <1>1, <1>2 DEF LineInv, Line
<1>6. \A k, l \in 1..Len(pending) : k < l => pending[k] < pending[l]
  BY DEF OrderInv
<1>7. queue # <<>> => 1 \in 1..Len(queue)
  BY <1>1, TypeIs
<1>8. inbox # <<>> => 1 \in 1..Len(inbox)
  BY <1>1, TypeIs
<1>9. \A k, l \in 1..Len(queue) : k < l => queue[k].id < queue[l].id
  BY <1>1, <1>4, <1>6
<1>10. \A k \in 1..Len(queue), l \in 1..Len(outbox) : queue[k].id < outbox[l].id
  <2>1. ASSUME NEW k \in 1..Len(queue), NEW l \in 1..Len(outbox)
        PROVE  queue[k].id < outbox[l].id
    <3>1. Len(inbox) + k < Len(inbox) + Len(queue) + l
      BY <1>1
    <3> QED
      BY <1>4, <1>5, <1>6, <3>1
  <2> QED
    BY <2>1
<1>11. \A k \in 1..Len(inbox), l \in 1..Len(queue) : inbox[k].id < queue[l].id
  BY <1>1, <1>3, <1>4, <1>6
<1>12. \A k \in 1..Len(inbox), l \in 1..Len(outbox) : inbox[k].id < outbox[l].id
  <2>1. ASSUME NEW k \in 1..Len(inbox), NEW l \in 1..Len(outbox)
        PROVE  inbox[k].id < outbox[l].id
    <3>1. k < Len(inbox) + Len(queue) + l
      BY <1>1
    <3> QED
      BY <1>3, <1>5, <1>6, <3>1
  <2> QED
    BY <2>1
<1>13. \A k, l \in 1..Len(inbox) : k < l => inbox[k].id < inbox[l].id
  BY <1>3, <1>6
<1> QED
  BY <1>3, <1>4, <1>7, <1>8, <1>9, <1>10, <1>11, <1>12, <1>13

-----------------------------------------------------------------------------
(* Responses. *)

Responded(id, ok) ==
    /\ id = 0 => UNCHANGED <<calls, database>>
    /\ id # 0 =>
         /\ calls' = [calls EXCEPT ![id].status = IF ok THEN "ok" ELSE "error"]
         /\ database' = IF calls[id].kind # "reset" THEN database
                        ELSE IF ok THEN "working" ELSE "broken"

SameCalls == \A id \in Ids : /\ calls'[id].kind = calls[id].kind
                             /\ calls'[id].launch = calls[id].launch

IsReset(id) == id # 0 /\ calls[id].kind = "reset"

LEMMA RespondIs ==
    ASSUME TypeOK, pending # <<>>, NEW r \in Responses, r.id = pending[1], Respond(r)
    PROVE  /\ Popped(pending, pending') /\ pending' \in Seq(0..MaxCalls)
           /\ Responded(pending[1], r.ok)
<1>1. /\ Popped(pending, Tail(pending)) /\ Tail(pending) \in Seq(0..MaxCalls)
      /\ Head(pending) = pending[1]
  BY TypeIs, TailIs
<1>2. (r.ok /\ r.id = Head(pending)) <=> r.ok
  BY <1>1
<1> QED
  BY <1>1, <1>2 DEF Respond, Responded

LEMMA RespondedIs ==
    ASSUME TypeOK, OrderInv, pending # <<>>, NEW ok \in BOOLEAN, Responded(pending[1], ok)
    PROVE  /\ calls' \in [Ids -> CallType] /\ database' \in {"working", "resetting", "broken"}
           /\ SameCalls
           /\ \A id \in Ids : id # pending[1] => calls'[id] = calls[id]
           /\ pending[1] # 0 => calls'[pending[1]].status = IF ok THEN "ok" ELSE "error"
           /\ pending[1] \in 0..MaxCalls
           /\ pending[1] # 0 => pending[1] \in Ids /\ calls[pending[1]].status = "sent"
           /\ database' = IF ~IsReset(pending[1]) THEN database
                          ELSE IF ok THEN "working" ELSE "broken"
<1>1. 1 \in 1..Len(pending) /\ pending[1] \in 0..MaxCalls
  BY TypeIs, TailIs
<1>2. pending[1] # 0 => pending[1] \in Ids /\ calls[pending[1]].status = "sent"
  BY <1>1, TypeIs DEF OrderInv
<1>3. calls \in [Ids -> CallType] /\ database \in {"working", "resetting", "broken"}
  BY TypeIs
<1>4. CASE pending[1] = 0
  BY <1>1, <1>3, <1>4 DEF Responded, SameCalls, IsReset
<1>5. CASE pending[1] # 0
  <2> DEFINE id == pending[1]  status == IF ok THEN "ok" ELSE "error"
  <2>1. /\ calls' = [calls EXCEPT ![id].status = status] /\ id \in Ids
        /\ database' = IF calls[id].kind # "reset" THEN database
                       ELSE IF ok THEN "working" ELSE "broken"
    BY <1>2, <1>5 DEF Responded
  <2>2. status \in {"ok", "error"}
    OBVIOUS
  <2> HIDE DEF id, status
  <2>3. calls' \in [Ids -> CallType]
    BY <1>3, <2>1, <2>2 DEF CallType
  <2>4. \A i \in Ids : /\ calls'[i].kind = calls[i].kind /\ calls'[i].launch = calls[i].launch
                       /\ i # id => calls'[i] = calls[i]
    BY <1>3, <2>1 DEF CallType
  <2>5. calls'[id].status = status
    BY <1>3, <2>1 DEF CallType
  <2>6. database' \in {"working", "resetting", "broken"}
    BY <1>3, <2>1
  <2> QED
    BY <1>1, <1>2, <1>5, <2>1, <2>3, <2>4, <2>5, <2>6 DEF SameCalls, IsReset, id, status
<1> QED
  BY <1>4, <1>5

(* What is pending stays in order when the first call has been answered. *)
LEMMA RespondedKeeps ==
    ASSUME TypeOK, OrderInv, ResetInv, pending # <<>>, NEW ok \in BOOLEAN,
           Popped(pending, pending'), pending' \in Seq(0..MaxCalls),
           Responded(pending[1], ok), UNCHANGED launch
    PROVE  /\ OrderInv' /\ ResetInv'
           /\ IsReset(pending[1]) => database = "resetting" /\ pending' = <<>>
<1>1. /\ SameCalls /\ pending[1] \in 0..MaxCalls
      /\ \A id \in Ids : id # pending[1] => calls'[id] = calls[id]
      /\ pending[1] # 0 => calls'[pending[1]].status = IF ok THEN "ok" ELSE "error"
      /\ pending[1] # 0 => pending[1] \in Ids /\ calls[pending[1]].status = "sent"
      /\ database' = IF ~IsReset(pending[1]) THEN database
                     ELSE IF ok THEN "working" ELSE "broken"
  BY RespondedIs
<1>2. /\ Len(pending) \in Nat \ {0} /\ Len(pending') = Len(pending) - 1
      /\ \A k \in 1..Len(pending') : k + 1 \in 1..Len(pending) /\ pending'[k] = pending[k + 1]
  BY DEF Popped
<1>3. 1 \in 1..Len(pending) /\ \A k \in 1..Len(pending') : pending[1] < pending'[k]
  BY <1>2 DEF OrderInv
<1>4. /\ \A k \in 1..Len(pending') : pending'[k] # 0 => pending'[k] \in Ids
      /\ database \in {"working", "resetting", "broken"}
      /\ calls \in [Ids -> CallType] /\ Ids \subseteq Nat \ {0}
  <2>1. \A k \in 1..Len(pending') : pending'[k] \in 0..MaxCalls
    BY ElementIs
  <2> QED
    BY <2>1, TypeIs
<1>5. OrderInv'
  <2>1. \A k, l \in 1..Len(pending') : k < l => pending'[k] < pending'[l]
    BY <1>2 DEF OrderInv
  <2>2. ASSUME NEW k \in 1..Len(pending'), pending'[k] # 0
        PROVE  calls'[pending'[k]].status = "sent" /\ calls'[pending'[k]].launch = launch
    <3>1. calls[pending'[k]].status = "sent" /\ calls[pending'[k]].launch = launch
      BY <1>2, <2>2 DEF OrderInv
    <3>2. pending'[k] \in Ids /\ pending'[k] # pending[1]
      BY <1>1, <1>3, <1>4, <2>2
    <3> QED
      BY <1>1, <3>1, <3>2
  <2>3. ASSUME NEW id \in Ids, calls'[id].launch = launch, calls'[id].status = "ok",
               NEW k \in 1..Len(pending')
        PROVE  id < pending'[k]
    <3>1. CASE id = pending[1]
      BY <1>3, <3>1
    <3>2. CASE id # pending[1]
      BY <1>1, <1>2, <2>3, <3>2 DEF OrderInv
    <3> QED
      BY <3>1, <3>2
  <2>4. ASSUME NEW id \in Ids
        PROVE  /\ calls'[id].kind = "none" <=> calls'[id].status = "none"
               /\ calls'[id].kind = "none" => calls'[id].launch = 0
               /\ calls'[id].launch <= launch
    <3>1. /\ calls'[id].kind = calls[id].kind /\ calls'[id].launch = calls[id].launch
          /\ calls[id].kind = "none" <=> calls[id].status = "none"
          /\ calls[id].kind = "none" => calls[id].launch = 0
          /\ calls[id].launch <= launch
      BY <1>1 DEF OrderInv, SameCalls
    <3>2. CASE id = pending[1]
      <4>1. calls[id].status = "sent" /\ calls'[id].status \in {"ok", "error"}
        BY <1>1, <1>4, <3>2
      <4> QED
        BY <3>1, <4>1
    <3>3. CASE id # pending[1]
      BY <1>1, <3>1, <3>3
    <3> QED
      BY <3>2, <3>3
  <2>5. \A i, j \in Ids : i < j /\ calls'[i].kind = "none" => calls'[j].kind = "none"
    BY <1>1 DEF OrderInv, SameCalls
  <2> QED
    BY <2>1, <2>2, <2>3, <2>4, <2>5 DEF OrderInv
<1>6. IsReset(pending[1]) => database = "resetting" /\ Len(pending) = 1
  BY <1>2, <1>3, <1>4 DEF ResetInv, IsReset
<1>7. ASSUME IsReset(pending[1]) PROVE pending' = <<>> /\ Len(pending') = 0
  <2>1. Len(pending') = 0
    <3>1. Len(pending) = 1
      BY <1>6, <1>7
    <3>2. Len(pending') = Len(pending) - 1
      BY <1>2
    <3> QED
      BY ONLY <3>1, <3>2
  <2> QED
    BY <2>1
<1>8. ResetInv'
  <2>1. CASE IsReset(pending[1])
    BY <1>1, <1>7, <2>1 DEF ResetInv
  <2>2. CASE ~IsReset(pending[1])
    <3>1. database' = database
      BY <1>1, <2>2
    <3>2. \A k \in 1..Len(pending') : pending'[k] # 0 /\ calls'[pending'[k]].kind = "reset" =>
            calls[pending[k + 1]].kind = "reset" /\ pending[k + 1] # 0 /\ k + 1 \in 1..Len(pending)
      BY <1>1, <1>2, <1>4 DEF SameCalls
    <3>3. CASE database = "working"
      BY <3>1, <3>2, <3>3 DEF ResetInv
    <3>4. CASE database = "resetting"
      <4>1. LastCall(pending[Len(pending)])
        BY <3>4 DEF ResetInv
      <4>2. Len(pending) # 1
        <5>1. IsReset(pending[Len(pending)])
          BY <1>4, <4>1 DEF LastCall, IsReset
        <5> QED
          BY <2>2, <5>1
      <4>3. pending' # <<>> /\ pending'[Len(pending')] = pending[Len(pending)]
        BY <1>2, <4>2
      <4>4. LastCall(pending[Len(pending)])'
        BY <1>1, <4>1, <4>3 DEF LastCall, SameCalls
      <4>5. \A k \in 1..Len(pending') : pending'[k] # 0 /\ calls'[pending'[k]].kind = "reset" =>
              k = Len(pending')
        BY <1>2, <3>2, <3>4 DEF ResetInv
      <4> QED
        BY <3>1, <3>4, <4>3, <4>4, <4>5 DEF ResetInv, LastCall
    <3>5. database # "broken"
      BY <1>2 DEF ResetInv
    <3> QED
      BY <1>4, <3>1, <3>3, <3>4, <3>5
  <2> QED
    BY <2>1, <2>2
<1> QED
  BY <1>5, <1>6, <1>7, <1>8

LEMMA KindStays ==
    ASSUME TypeOK, KindInv, SameCalls,
           \A k \in 1..Len(queue') : \/ \E j \in 1..Len(queue) : queue'[k] = queue[j]
                                     \/ \E j \in 1..Len(outbox) : queue'[k] = outbox[j],
           \A k \in 1..Len(outbox') : \E j \in 1..Len(outbox) : outbox'[k] = outbox[j]
    PROVE  KindInv'
<1>1. /\ \A k \in 1..Len(queue) : queue[k].id = 0 \/ queue[k].id \in Ids
      /\ \A k \in 1..Len(outbox) : outbox[k].id = 0 \/ outbox[k].id \in Ids
  BY ElementsAre, TypeIs
<1>2. ASSUME NEW a, IsOf(a), a.id = 0 \/ a.id \in Ids PROVE IsOf(a)'
  BY <1>2 DEF IsOf, SameCalls
<1>3. /\ \A k \in 1..Len(queue) : IsOf(queue[k]) /\ (queue[k].id = 0 \/ queue[k].id \in Ids)
      /\ \A k \in 1..Len(outbox) : IsOf(outbox[k]) /\ (outbox[k].id = 0 \/ outbox[k].id \in Ids)
  BY <1>1 DEF KindInv
<1>4. ASSUME NEW k \in 1..Len(queue') PROVE IsOf(queue[k])'
  <2>1. PICK a : a = queue'[k] /\ IsOf(a) /\ (a.id = 0 \/ a.id \in Ids)
    BY <1>3
  <2>2. IsOf(a)'
    BY <1>2, <2>1
  <2> QED
    BY <2>1, <2>2 DEF IsOf
<1>5. ASSUME NEW k \in 1..Len(outbox') PROVE IsOf(outbox[k])'
  <2>1. PICK a : a = outbox'[k] /\ IsOf(a) /\ (a.id = 0 \/ a.id \in Ids)
    BY <1>3
  <2>2. IsOf(a)'
    BY <1>2, <2>1
  <2> QED
    BY <2>1, <2>2 DEF IsOf
<1> QED
  BY <1>4, <1>5 DEF KindInv

-----------------------------------------------------------------------------
(* The end of an action. *)

Callbacks(s) == \A k \in 1..Len(s) : s[k] = "callback"

LEMMA RestIs ==
    ASSUME TypeOK, StackInv, stack # <<>>
    PROVE  /\ Tail(stack) \in Seq(Frames) /\ Callbacks(Tail(stack))
           /\ Tail(stack) # <<>> => Called
<1>1. /\ Tail(stack) \in Seq(Frames) /\ Len(stack) \in Nat
      /\ Len(Tail(stack)) = Len(stack) - 1
      /\ \A k \in 1..Len(Tail(stack)) : Tail(stack)[k] = stack[k + 1]
  BY TypeIs, TailIs, ElementsAre DEF Popped
<1>2. \A k \in 1..Len(Tail(stack)) : k + 1 \in 2..Len(stack)
  BY <1>1
<1>3. Callbacks(Tail(stack))
  BY <1>1, <1>2 DEF StackInv, Callbacks
<1>4. ASSUME Tail(stack) # <<>> PROVE Called
  <2>1. 1 \in 1..Len(Tail(stack))
    BY <1>1, <1>4, TailIs
  <2>2. 2 \in 1..Len(stack) /\ stack[2] = "callback"
    BY <1>1, <1>2, <2>1 DEF StackInv
  <2> QED
    BY <2>2 DEF StackInv
<1> QED
  BY <1>1, <1>3, <1>4

LEMMA StackFits ==
    ASSUME NEW rest \in Seq(Frames), Callbacks(rest), rest # <<>> => Called',
           \/ stack' = rest
           \/ stack' = <<"execute">> \o rest /\ queue' # <<>>
           \/ stack' = <<"callback">> \o rest /\ Called'
    PROVE  stack' \in Seq(Frames) /\ StackInv'
<1>1. CASE stack' = rest
  <2>1. Len(rest) \in Nat /\ \A k \in 1..Len(rest) : rest[k] = "callback"
    BY ElementIs DEF Callbacks
  <2>2. rest # <<>> => Head(rest) = "callback"
    BY <2>1, TailIs
  <2>3. \A k \in 1..Len(rest) : rest # <<>>
    BY <2>1
  <2> QED
    BY <1>1, <2>1, <2>2, <2>3 DEF StackInv, Top
<1>2. ASSUME NEW x \in Frames, stack' = <<x>> \o rest, x = "execute" => queue' # <<>>,
             x = "callback" => Called'
      PROVE  stack' \in Seq(Frames) /\ StackInv'
  <2>1. /\ stack' \in Seq(Frames) /\ stack' # <<>> /\ Head(stack') = x
        /\ Len(stack') = Len(rest) + 1 /\ stack'[1] = x /\ Len(rest) \in Nat
        /\ \A k \in 1..Len(rest) : stack'[k + 1] = rest[k]
    BY <1>2, StackedIs, ElementIs
  <2>2. ASSUME NEW k \in 2..Len(stack') PROVE stack'[k] = "callback" /\ rest # <<>>
    <3>1. k - 1 \in 1..Len(rest) /\ k - 1 + 1 = k
      BY <2>1
    <3>2. stack'[k] = rest[k - 1] /\ rest[k - 1] = "callback"
      BY <2>1, <3>1 DEF Callbacks
    <3>3. rest # <<>>
      BY <3>1
    <3> QED
      BY <3>2, <3>3
  <2>3. ASSUME NEW k \in 1..Len(stack'), stack'[k] = "callback" PROVE Called'
    <3>1. k = 1 \/ k \in 2..Len(stack')
      BY <2>1
    <3> QED
      BY <1>2, <2>1, <2>2, <2>3, <3>1
  <2>4. Top' = x
    BY <2>1 DEF Top
  <2> QED
    BY <1>2, <2>1, <2>2, <2>3, <2>4 DEF StackInv
<1> QED
  BY <1>1, <1>2 DEF Frames

(* What an answer changes for the calls and for what is known of them. *)
Outcome(id, ok) ==
    /\ SameCalls
    /\ \A i \in Ids : Performed(i)' <=> Performed(i) \/ (i = id /\ ok)
    /\ ResetRejected \/ (IsReset(id) /\ ~ok) => ResetRejected'

LEMMA Answered ==
    ASSUME TypeOK, LinkInv, queue # <<>>, NEW ok \in BOOLEAN, NEW rest \in Seq(Frames),
           OnActionDone(Head(queue), ok, rest), UNCHANGED <<options, launch>>,
           Callbacks(rest), rest # <<>> => Called
    PROVE  /\ queue' \in Seq(Actions) /\ outbox' = outbox /\ inbox' \in Seq(Responses)
           /\ pending' \in Seq(0..MaxCalls) /\ calls' \in [Ids -> CallType]
           /\ database' \in {"working", "resetting", "broken"} /\ stack' \in Seq(Frames)
           /\ LineInv' /\ OrderInv' /\ KindInv' /\ ResetInv' /\ ChannelInv' /\ StackInv'
           /\ Popped(queue, queue') /\ Outcome(queue[1].id, ok)
           /\ database' = IF options.webWorker \/ ~IsReset(queue[1].id) THEN database
                          ELSE IF ok THEN "working" ELSE "broken"
<1>1. /\ Head(queue) = queue[1] /\ Popped(queue, queue') /\ queue' \in Seq(Actions)
      /\ 1 \in 1..Len(queue)
  BY TypeIs, TailIs DEF OnActionDone
<1>2. /\ pending # <<>> /\ queue[1].id = pending[Len(inbox) + 1]
      /\ \A k \in 1..Len(inbox) : inbox[k].id # queue[1].id
  <2>1. /\ pending # <<>> /\ queue[1].id = pending[Len(inbox) + 1]
        /\ \A k \in 1..Len(inbox) : inbox[k].id < queue[1].id
    BY <1>1, Places DEF LinkInv
  <2>2. \A k \in 1..Len(inbox) : inbox[k].id \in Nat /\ queue[1].id \in Nat
    BY SMTT(30), <1>1, ElementsAre, TypeIs
  <2>3. ASSUME NEW k \in 1..Len(inbox) PROVE inbox[k].id # queue[1].id
    <3>1. inbox[k].id < queue[1].id /\ inbox[k].id \in Nat /\ queue[1].id \in Nat
      BY <2>1, <2>2
    <3> QED
      BY <3>1
  <2> QED
    BY <2>1, <2>3
<1>3. /\ queue[1].id \in 0..MaxCalls /\ Len(inbox) \in Nat /\ Len(outbox) \in Nat
      /\ Len(queue) \in Nat /\ Len(pending) \in Nat
  BY <1>1, ElementsAre
<1>4. \A k \in 1..Len(queue') : k + 1 \in 1..Len(queue) /\ queue'[k] = queue[k + 1]
  BY <1>1 DEF Popped
<1>5. Len(queue) > 1 => queue' # <<>>
  <2>1. Len(queue) > 1 => 1 \in 1..Len(queue')
    BY <1>1, <1>3 DEF Popped
  <2> QED
    BY <2>1
<1> DEFINE r == [id |-> queue[1].id, ok |-> ok]
<1>6. r \in Responses /\ r.id = queue[1].id /\ r.ok = ok
  BY <1>3 DEF Responses
<1>7. /\ IF options.webWorker THEN inbox' = Append(inbox, r) /\ UNCHANGED <<outbox, app_>>
                              ELSE Respond(r) /\ UNCHANGED channel
      /\ stack' = IF ~options.webWorker /\ queue[1].id # 0 THEN <<"callback">> \o rest
                  ELSE IF Len(queue) > 1 THEN <<"execute">> \o rest ELSE rest
  BY <1>1 DEF OnActionDone
<1> HIDE DEF r
<1>8. CASE options.webWorker
  <2>1. Pushed(inbox, inbox', r) /\ inbox' \in Seq(Responses)
    <3>1. inbox' = Append(inbox, r) /\ inbox \in Seq(Responses) /\ r \in Responses
      BY <1>6, <1>7, <1>8, TypeIs
    <3>2. Pushed(inbox, Append(inbox, r), r) /\ Append(inbox, r) \in Seq(Responses)
      BY <3>1, AppendIs
    <3> QED
      BY <3>1, <3>2
  <2>2. UNCHANGED <<outbox, pending, calls, database>>
    BY <1>7, <1>8 DEF app_
  <2>3. LineInv'
    <3>1. Line(pending, inbox', queue', outbox)
      BY <1>1, <1>3, <1>6, <2>1, LineAnswers DEF LinkInv, LineInv
    <3> QED
      BY <2>2, <3>1 DEF LineInv
  <2>4. OrderInv' /\ ResetInv'
    BY <2>2 DEF LinkInv, OrderInv, ResetInv, LastCall
  <2>5. SameCalls
    BY <2>2 DEF SameCalls
  <2>6. KindInv'
    BY <1>4, <2>2, <2>5, KindStays DEF LinkInv
  <2>7. ChannelInv'
    BY <1>8 DEF ChannelInv
  <2>8. stack' \in Seq(Frames) /\ StackInv'
    <3>1. rest # <<>> => Called'
      BY <2>2 DEF Called
    <3> QED
      BY <1>5, <1>7, <1>8, <3>1, StackFits
  <2>9. ASSUME NEW i \in Ids PROVE Performed(i)' <=> Performed(i) \/ (i = queue[1].id /\ ok)
    <3>1. /\ \A k \in 1..Len(inbox) : k \in 1..Len(inbox') /\ inbox'[k] = inbox[k]
          /\ Len(inbox) + 1 \in 1..Len(inbox') /\ inbox'[Len(inbox) + 1] = r
          /\ \A k \in 1..Len(inbox') : k \in 1..Len(inbox) \/ k = Len(inbox) + 1
      BY <1>3, <2>1 DEF Pushed
    <3> QED
      BY <1>6, <2>2, <3>1 DEF Performed
  <2>10. ASSUME ResetRejected PROVE ResetRejected'
    <3>1. CASE database = "broken"
      BY <2>2, <3>1 DEF ResetRejected
    <3>2. CASE Len(inbox) = Len(pending)
      BY <1>1, <1>3, <3>2 DEF LinkInv, LineInv, Line
    <3> QED
      BY <2>10, <3>1, <3>2 DEF ResetRejected
  <2>11. ASSUME IsReset(queue[1].id), ~ok PROVE ResetRejected'
    <3>1. Len(inbox) + 1 \in 1..Len(pending)
      BY <1>1, <1>3 DEF LinkInv, LineInv, Line
    <3>2. database = "resetting" /\ Len(inbox) + 1 = Len(pending)
      BY <1>2, <2>11, <3>1, TypeIs DEF LinkInv, ResetInv, IsReset
    <3>3. Len(inbox') = Len(pending) /\ inbox'[Len(inbox')] = r /\ inbox' # <<>>
      BY <1>3, <2>1, <3>2 DEF Pushed
    <3> QED
      BY <1>6, <2>2, <2>11, <3>2, <3>3 DEF ResetRejected
  <2> QED
    BY <1>1, <1>8, <2>1, <2>2, <2>3, <2>4, <2>5, <2>6, <2>7, <2>8, <2>9, <2>10, <2>11, TypeIs
    DEF Outcome
<1>9. CASE ~options.webWorker
  <2>1. inbox = <<>> /\ outbox = <<>> /\ Len(inbox) = 0 /\ queue[1].id = pending[1]
    <3>1. inbox = <<>> /\ outbox = <<>>
      BY <1>9 DEF LinkInv, ChannelInv
    <3>2. Len(inbox) = 0
      BY <3>1
    <3> QED
      BY <1>2, <3>1, <3>2
  <2>2. UNCHANGED <<inbox, outbox>> /\ Respond(r)
    BY <1>7, <1>9 DEF channel
  <2>3. /\ Popped(pending, pending') /\ pending' \in Seq(0..MaxCalls)
        /\ Responded(pending[1], ok)
    BY <1>2, <1>6, <2>1, <2>2, RespondIs
  <2>4. LineInv'
    <3>1. Line(pending', inbox, queue', outbox)
      BY <1>1, <1>3, <2>1, <2>3, LineLoses DEF LinkInv, LineInv
    <3> QED
      BY <2>2, <3>1 DEF LineInv
  <2>5. /\ OrderInv' /\ ResetInv'
        /\ IsReset(pending[1]) => database = "resetting" /\ pending' = <<>>
    BY <1>2, <2>3, RespondedKeeps DEF LinkInv
  <2>6. /\ calls' \in [Ids -> CallType] /\ database' \in {"working", "resetting", "broken"}
        /\ SameCalls
        /\ \A id \in Ids : id # pending[1] => calls'[id] = calls[id]
        /\ pending[1] # 0 => calls'[pending[1]].status = IF ok THEN "ok" ELSE "error"
        /\ pending[1] # 0 => pending[1] \in Ids /\ calls[pending[1]].status = "sent"
        /\ database' = IF ~IsReset(pending[1]) THEN database
                       ELSE IF ok THEN "working" ELSE "broken"
    BY <1>2, <2>3, RespondedIs DEF LinkInv
  <2>7. KindInv'
    BY <1>4, <2>2, <2>6, KindStays DEF LinkInv
  <2>8. ChannelInv'
    BY <2>1, <2>2 DEF ChannelInv
  <2>9. stack' \in Seq(Frames) /\ StackInv'
    <3>1. \A k \in 1..Len(pending') : k + 1 \in 1..Len(pending) /\ pending'[k] = pending[k + 1]
      BY <2>3 DEF Popped
    <3>2. rest # <<>> => Called'
      BY <3>1 DEF Called
    <3>3. ASSUME queue[1].id # 0 PROVE Called'
      <4>1. \A k \in 1..Len(pending') : pending[1] < pending'[k]
        <5>1. 1 \in 1..Len(pending) /\ \A k \in 1..Len(pending') : 1 < k + 1
          BY <1>3, <2>3 DEF Popped
        <5> QED
          BY <3>1, <5>1 DEF LinkInv, OrderInv
      <4>2. pending[1] \in Nat /\ pending[1] # 0
        BY <2>1, <2>6, <3>3, TypeIs
      <4>3. \A k \in 1..Len(pending') : pending'[k] \in 0..MaxCalls
        BY <2>3, ElementIs
      <4>4. \A k \in 1..Len(pending') : pending'[k] # 0
        <5>1. ASSUME NEW k \in 1..Len(pending') PROVE pending'[k] # 0
          <6>1. pending[1] < pending'[k] /\ pending'[k] \in Nat
            BY <4>1, <4>3, TypeIs
          <6> QED
            BY <4>2, <6>1
        <5> QED
          BY <5>1
      <4> QED
        BY <1>9, <4>4 DEF Called
    <3> QED
      BY <1>5, <1>7, <1>9, <3>2, <3>3, StackFits
  <2>10. ASSUME NEW i \in Ids PROVE Performed(i)' <=> Performed(i) \/ (i = queue[1].id /\ ok)
    <3>1. \A k \in 1..Len(inbox) : FALSE
      BY <2>1
    <3>2. (Performed(i)' <=> calls'[i].status = "ok") /\ (Performed(i) <=> calls[i].status = "ok")
      BY <2>2, <3>1 DEF Performed
    <3>3. i # 0
      BY TypeIs
    <3> QED
      BY <2>1, <2>6, <3>2, <3>3
  <2>11. ResetRejected => database = "broken"
    BY <2>1 DEF ResetRejected
  <2>12. ResetRejected \/ (IsReset(queue[1].id) /\ ~ok) => ResetRejected'
    <3>1. database # "broken"
      BY <1>2 DEF LinkInv, ResetInv
    <3> QED
      BY <2>1, <2>6, <2>11, <3>1 DEF ResetRejected
  <2>13. database' = IF ~IsReset(queue[1].id) THEN database
                    ELSE IF ok THEN "working" ELSE "broken"
    BY <2>1, <2>6
  <2> QED
    BY <1>1, <1>9, <2>2, <2>3, <2>4, <2>5, <2>6, <2>7, <2>8, <2>9, <2>10, <2>12, <2>13, TypeIs
    DEF Outcome
<1> QED
  BY <1>8, <1>9

-----------------------------------------------------------------------------
(* Types, in two parts. *)

LinkTypes ==
    /\ queue \in Seq(Actions) /\ outbox \in Seq(Actions) /\ inbox \in Seq(Responses)
    /\ pending \in Seq(0..MaxCalls) /\ calls \in [Ids -> CallType]
    /\ database \in {"working", "resetting", "broken"}
    /\ stack \in Seq(Frames) /\ task \in Tasks /\ executing \in {0, 1}

LokiType == [content : Contents, autosave : BOOLEAN, memory : BOOLEAN]

StoreTypes ==
    /\ options \in [webWorker : WebWorker, fatal : AllowsFatalError, autosave : Autosaves]
    /\ app \in Apps /\ launch \in 1..MaxLaunches
    /\ disk \in Contents
    /\ loki \in LokiType
    /\ driver \in [set : BOOLEAN, broken : BOOLEAN]

LEMMA TypesAre == TypeOK <=> LinkTypes /\ StoreTypes
  BY DEF TypeOK, LinkTypes, StoreTypes, LokiType, Responses, Frames, CallType, Tasks

LEMMA LinkTypesAre ==
    ASSUME TypeOK
    PROVE  LinkTypes /\ StoreTypes
  BY TypesAre

-----------------------------------------------------------------------------
(* Messages. *)

LEMMA Quiet ==
    ASSUME UNCHANGED <<inbox, pending, calls, database>>
    PROVE  Outcome(0, TRUE)
<1>1. SameCalls /\ \A i \in Ids : Performed(i)' <=> Performed(i)
  BY DEF SameCalls, Performed
<1>2. ResetRejected => ResetRejected'
  BY DEF ResetRejected
<1>3. \A i \in Ids : i # 0
  BY DEF Ids
<1> QED
  BY <1>1, <1>2, <1>3 DEF Outcome, IsReset

LEMMA DeliverLink ==
    ASSUME TypeOK, LinkInv, Deliver
    PROVE  LinkTypes' /\ LinkInv' /\ Outcome(0, TRUE)
<1>1. /\ inbox # <<>> /\ Respond(inbox[1]) /\ Popped(inbox, inbox') /\ inbox' \in Seq(Responses)
      /\ inbox[1] \in Responses /\ 1 \in 1..Len(inbox)
      /\ UNCHANGED <<outbox, queue, executing, stack, task, disk, loki, driver, options, app, launch>>
  BY TypeIs, TailIs DEF Deliver, worker, store, fixed
<1>2. pending # <<>> /\ inbox[1].id = pending[1] /\ inbox[1].ok \in BOOLEAN
  BY <1>1, Places, ElementsAre DEF LinkInv
<1>3. /\ Len(inbox) \in Nat /\ Len(queue) \in Nat /\ Len(outbox) \in Nat /\ Len(pending) \in Nat
      /\ Len(pending) = Len(inbox) + Len(queue) + Len(outbox)
      /\ 1 \in 1..Len(pending)
  BY <1>1, ElementsAre DEF LinkInv, LineInv, Line
<1>4. /\ Popped(pending, pending') /\ pending' \in Seq(0..MaxCalls)
      /\ Responded(pending[1], inbox[1].ok)
  BY <1>1, <1>2, RespondIs
<1>5. /\ OrderInv' /\ ResetInv'
      /\ IsReset(pending[1]) => database = "resetting" /\ pending' = <<>>
  BY <1>1, <1>2, <1>4, RespondedKeeps DEF LinkInv
<1>6. /\ calls' \in [Ids -> CallType] /\ database' \in {"working", "resetting", "broken"}
      /\ SameCalls
      /\ \A id \in Ids : id # pending[1] => calls'[id] = calls[id]
      /\ pending[1] # 0 => calls'[pending[1]].status = IF inbox[1].ok THEN "ok" ELSE "error"
      /\ pending[1] # 0 => pending[1] \in Ids /\ calls[pending[1]].status = "sent"
      /\ database' = IF ~IsReset(pending[1]) THEN database
                     ELSE IF inbox[1].ok THEN "working" ELSE "broken"
  BY <1>2, <1>4, RespondedIs DEF LinkInv
<1>7. LinkTypes'
  BY <1>1, <1>4, <1>6, TypeIs DEF LinkTypes
<1>8. LineInv'
  <2>1. Line(pending', inbox', queue, outbox)
    BY <1>1, <1>3, <1>4, LineLoses DEF LinkInv, LineInv
  <2> QED
    BY <1>1, <2>1 DEF LineInv
<1>9. KindInv'
  BY <1>1, <1>6, KindStays DEF LinkInv
<1>10. ChannelInv'
  BY <1>1 DEF LinkInv, ChannelInv
<1>11. StackInv'
  <2>1. \A k \in 1..Len(pending') : k + 1 \in 1..Len(pending) /\ pending'[k] = pending[k + 1]
    BY <1>4 DEF Popped
  <2>2. Called => Called'
    BY <1>1, <2>1 DEF Called
  <2> QED
    BY <1>1, <2>2 DEF LinkInv, StackInv, Top
<1>12. TaskInv'
  <2>1. database # "broken"
    BY <1>2 DEF LinkInv, ResetInv
  <2>2. task # NoTask => executing = 1
    BY <2>1, TypeIs DEF LinkInv, TaskInv
  <2>3. ASSUME task.type = "reset" PROVE ~IsReset(pending[1]) /\ database # "working"
    <3>1. task # NoTask
      BY <2>3 DEF NoTask
    <3>2. queue # <<>> /\ database # "working"
      BY <2>2, <2>3, <3>1 DEF LinkInv, TaskInv
    <3>3. Len(pending) # 1
      <4>1. Len(inbox) > 0 /\ Len(queue) > 0
        BY <1>1, <1>3, <3>2, TailIs, TypeIs
      <4> QED
        BY <1>3, <4>1
    <3>4. pending' # <<>>
      <4>1. Len(pending') > 0
        BY <1>3, <1>4, <3>3 DEF Popped
      <4> QED
        BY <4>1
    <3> QED
      BY <1>5, <3>2, <3>4
  <2>4. LastCall(task.id) => LastCall(task.id)'
    BY <1>1, <1>6 DEF LastCall, SameCalls
  <2>5. task.type = "reset" => database' # "working" /\ LastCall(task.id)'
    BY <1>6, <2>3, <2>4 DEF LinkInv, TaskInv
  <2>6. /\ executing' = 1 =>
             /\ task' # NoTask
             /\ queue' # <<>> /\ task'.id = queue'[1].id /\ task'.type = queue'[1].type
             /\ options'.webWorker \/ task'.type = "setUp" => stack' = <<>>
        /\ task' # NoTask => task'.step # "none" /\ task'.type \in Async
        /\ task'.step = "open" => task'.type = "setUp"
    BY <1>1 DEF LinkInv, TaskInv
  <2> QED
    BY <1>1, <2>2, <2>5, <2>6 DEF TaskInv, LastCall
<1>13. \A i \in Ids : Performed(i)' <=> Performed(i)
  <2>1. /\ \A k \in 1..Len(inbox') : k + 1 \in 1..Len(inbox) /\ inbox'[k] = inbox[k + 1]
        /\ \A k \in 1..Len(inbox) : k = 1 \/ (k - 1 \in 1..Len(inbox') /\ inbox'[k - 1] = inbox[k])
    BY <1>1 DEF Popped
  <2>2. \A k \in 1..Len(inbox') : inbox[1].id < inbox'[k].id
    <3>1. \A k, l \in 1..Len(inbox) : k < l => inbox[k].id < inbox[l].id
      BY Places DEF LinkInv
    <3>2. \A k \in 1..Len(inbox') : 1 < k + 1
      OBVIOUS
    <3> QED
      BY <1>1, <2>1, <3>1, <3>2
  <2>3. ASSUME NEW i \in Ids PROVE Performed(i)' <=> Performed(i)
    <3>1. CASE i = pending[1]
      <4>1. /\ calls[i].status = "sent" /\ i # 0
            /\ calls'[i].status = IF inbox[1].ok THEN "ok" ELSE "error"
        BY <1>6, <3>1, TypeIs
      <4>2. ASSUME NEW k \in 1..Len(inbox'), inbox'[k].id = i PROVE FALSE
        <5>1. i < i
          BY <1>2, <2>2, <3>1, <4>2
        <5>2. i \in Nat
          BY TypeIs
        <5> QED
          BY <5>1, <5>2
      <4>3. Performed(i) <=> inbox[1].ok
        BY <1>1, <1>2, <2>1, <3>1, <4>1, <4>2 DEF Performed
      <4>4. Performed(i)' <=> inbox[1].ok
        BY <4>1, <4>2 DEF Performed
      <4> QED
        BY <4>3, <4>4
    <3>2. CASE i # pending[1]
      <4>1. calls'[i] = calls[i] /\ inbox[1].id # i
        BY <1>2, <1>6, <3>2
      <4>2. ASSUME NEW k \in 1..Len(inbox), inbox[k].id = i, inbox[k].ok
            PROVE  \E l \in 1..Len(inbox') : inbox'[l].id = i /\ inbox'[l].ok
        <5>1. k - 1 \in 1..Len(inbox') /\ inbox'[k - 1] = inbox[k]
          BY <2>1, <4>1, <4>2
        <5> QED
          BY <4>2, <5>1
      <4>3. ASSUME NEW k \in 1..Len(inbox'), inbox'[k].id = i, inbox'[k].ok
            PROVE  \E l \in 1..Len(inbox) : inbox[l].id = i /\ inbox[l].ok
        <5>1. k + 1 \in 1..Len(inbox) /\ inbox[k + 1] = inbox'[k]
          BY <2>1
        <5> QED
          BY <4>3, <5>1
      <4> QED
        BY <4>1, <4>2, <4>3 DEF Performed
    <3> QED
      BY <3>1, <3>2
  <2> QED
    BY <2>3
<1>14. ResetRejected => ResetRejected'
  <2>1. database # "broken"
    BY <1>2 DEF LinkInv, ResetInv
  <2>2. ASSUME ResetRejected PROVE ResetRejected'
    <3>1. /\ database = "resetting" /\ Len(inbox) = Len(pending)
          /\ ~inbox[Len(inbox)].ok
      BY <2>1, <2>2 DEF ResetRejected
    <3>2. CASE Len(inbox) = 1
      <4>1. IsReset(pending[1])
        BY <3>1, <3>2, TypeIs DEF LinkInv, ResetInv, LastCall, IsReset
      <4> QED
        BY <1>6, <3>1, <3>2, <4>1 DEF ResetRejected
    <3>3. CASE Len(inbox) # 1
      <4>1. Len(inbox') = Len(inbox) - 1 /\ Len(pending') = Len(pending) - 1
        BY <1>1, <1>4 DEF Popped
      <4>2. Len(inbox') \in 1..Len(inbox') /\ Len(inbox') + 1 = Len(inbox)
        BY <1>3, <1>1, <3>3, <4>1
      <4>3. inbox'[Len(inbox')] = inbox[Len(inbox)] /\ inbox' # <<>> /\ pending' # <<>>
        <5>1. inbox'[Len(inbox')] = inbox[Len(inbox') + 1]
          BY <1>1, <4>2 DEF Popped
        <5>2. Len(inbox') # 0 /\ Len(pending') # 0
          BY <3>1, <4>1, <4>2
        <5> QED
          BY <4>2, <5>1, <5>2
      <4>4. database' = database
        BY <1>5, <1>6, <4>3
      <4> QED
        BY <3>1, <4>1, <4>3, <4>4 DEF ResetRejected
    <3> QED
      BY <3>2, <3>3
  <2> QED
    BY <2>2
<1>15. \A i \in Ids : i # 0
  BY TypeIs
<1>16. Outcome(0, TRUE)
  BY <1>6, <1>13, <1>14, <1>15 DEF Outcome, IsReset
<1> QED
  BY <1>5, <1>7, <1>8, <1>9, <1>10, <1>11, <1>12, <1>16 DEF LinkInv

(* onmessage of the worker. *)
LEMMA OnMessageIs ==
    ASSUME TypeOK, StackInv, NEW a \in Actions, OnMessage(a), Called => Called',
           Callbacks(stack), UNCHANGED options
    PROVE  /\ Pushed(queue, queue', a) /\ queue' \in Seq(Actions) /\ queue' # <<>>
           /\ stack' \in Seq(Frames) /\ StackInv'
           /\ queue # <<>> => stack' = stack /\ queue'[1] = queue[1]
<1>1. /\ Pushed(queue, queue', a) /\ queue' \in Seq(Actions) /\ Len(queue) \in Nat
      /\ stack' = IF queue = <<>> THEN <<"execute">> \o stack ELSE stack
  BY TypeIs, AppendIs, ElementsAre DEF OnMessage
<1>2. Len(queue') = Len(queue) + 1
  BY <1>1 DEF Pushed
<1>3. queue' # <<>>
  BY <1>1, <1>2
<1>4. stack # <<>> => Called'
  <2>1. stack # <<>> => 1 \in 1..Len(stack)
    BY TypeIs, TailIs
  <2> QED
    BY <2>1 DEF StackInv, Callbacks
<1>5. stack' \in Seq(Frames) /\ StackInv'
  BY <1>1, <1>3, <1>4, StackFits, TypeIs
<1>6. queue # <<>> => 1 \in 1..Len(queue)
  BY TypeIs, TailIs
<1> QED
  BY <1>1, <1>3, <1>5, <1>6 DEF Pushed

LEMMA ReceiveLink ==
    ASSUME TypeOK, LinkInv, Receive
    PROVE  /\ LinkTypes' /\ LinkInv' /\ Outcome(0, TRUE)
           /\ Pushed(queue, queue', outbox[1]) /\ Popped(outbox, outbox')
<1>1. /\ outbox # <<>> /\ stack = <<>> /\ OnMessage(outbox[1]) /\ Popped(outbox, outbox')
      /\ outbox' \in Seq(Actions) /\ outbox[1] \in Actions /\ 1 \in 1..Len(outbox)
      /\ UNCHANGED <<executing, task, inbox, pending, calls, database>>
      /\ UNCHANGED <<options, app, launch>>
  BY TypeIs, TailIs DEF Receive, app_, fixed
<1>2. Callbacks(stack)
  <2>1. Len(stack) = 0
    BY <1>1
  <2> QED
    BY <2>1 DEF Callbacks
<1>3. /\ Pushed(queue, queue', outbox[1]) /\ queue' \in Seq(Actions) /\ queue' # <<>>
      /\ stack' \in Seq(Frames) /\ StackInv'
      /\ queue # <<>> => stack' = stack /\ queue'[1] = queue[1]
  <2>1. Called => Called'
    BY <1>1 DEF Called
  <2> QED
    BY <1>1, <1>2, <2>1, OnMessageIs DEF LinkInv
<1>4. LinkTypes'
  BY <1>1, <1>3, TypeIs DEF LinkTypes
<1>5. LineInv'
  <2>1. Line(pending, inbox, queue', outbox')
    BY <1>1, <1>3, LineMoves, ElementsAre DEF LinkInv, LineInv
  <2> QED
    BY <1>1, <2>1 DEF LineInv
<1>6. OrderInv' /\ ResetInv'
  BY <1>1 DEF LinkInv, OrderInv, ResetInv, LastCall
<1>7. KindInv'
  <2>1. SameCalls
    BY <1>1 DEF SameCalls
  <2>2. \A k \in 1..Len(queue') : \/ \E j \in 1..Len(queue) : queue'[k] = queue[j]
                                  \/ \E j \in 1..Len(outbox) : queue'[k] = outbox[j]
    BY SMTT(30), <1>1, <1>3 DEF Pushed
  <2>3. \A k \in 1..Len(outbox') : \E j \in 1..Len(outbox) : outbox'[k] = outbox[j]
    BY <1>1 DEF Popped
  <2> QED
    BY <2>1, <2>2, <2>3, KindStays DEF LinkInv
<1>8. ChannelInv'
  BY <1>1 DEF LinkInv, ChannelInv
<1>9. TaskInv'
  BY <1>1, <1>3 DEF LinkInv, TaskInv, LastCall
<1>10. Outcome(0, TRUE)
  BY <1>1, Quiet
<1> QED
  BY <1>1, <1>3, <1>4, <1>5, <1>6, <1>7, <1>8, <1>9, <1>10 DEF LinkInv

LEMMA ReturnLink ==
    ASSUME TypeOK, LinkInv, Return
    PROVE  LinkTypes' /\ LinkInv' /\ Outcome(0, TRUE)
<1>1. /\ stack # <<>> /\ stack' = (IF queue # <<>> THEN <<"execute">> ELSE <<>>) \o Tail(stack)
      /\ UNCHANGED <<queue, executing, task, inbox, outbox, pending, calls, database>>
      /\ UNCHANGED <<options, app, launch>>
  BY DEF Return, Top, channel, app_, fixed
<1>2. /\ Tail(stack) \in Seq(Frames) /\ Callbacks(Tail(stack))
      /\ Tail(stack) # <<>> => Called
  BY <1>1, RestIs DEF LinkInv
<1>3. <<>> \o Tail(stack) = Tail(stack)
  BY <1>2
<1>4. stack' \in Seq(Frames) /\ StackInv'
  <2>1. Called => Called'
    BY <1>1 DEF Called
  <2> QED
    BY <1>1, <1>2, <1>3, <2>1, StackFits
<1>5. LinkTypes'
  BY <1>1, <1>4, TypeIs DEF LinkTypes
<1>6. LineInv' /\ OrderInv' /\ KindInv' /\ ResetInv' /\ ChannelInv'
  BY <1>1 DEF LinkInv, LineInv, OrderInv, KindInv, IsOf, ResetInv, LastCall, ChannelInv
<1>7. TaskInv'
  BY <1>1 DEF LinkInv, TaskInv, LastCall
<1>8. Outcome(0, TRUE)
  BY <1>1, Quiet
<1> QED
  BY <1>4, <1>5, <1>6, <1>7, <1>8 DEF LinkInv

-----------------------------------------------------------------------------
(* Calls. *)

(* A call is behind all others, and is the newest. *)
LEMMA CallIs ==
    ASSUME TypeOK, LinkInv, NEW kind \in Kinds, Call(kind)
    PROVE  \E id \in Ids :
             /\ calls[id].kind = "none" /\ \A i \in Ids : i < id <=> calls[i].kind # "none"
             /\ calls' = [calls EXCEPT ![id] = [kind |-> kind, status |-> "sent",
                                                launch |-> launch]]
             /\ database = "working" /\ pending' = Append(pending, id)
             /\ database' = IF kind = "reset" THEN "resetting" ELSE database
             /\ Action(id, kind) \in Actions
             /\ stack = <<>> \/ Top = "callback" \/ options.webWorker
             /\ IF options.webWorker
                THEN outbox' = Append(outbox, Action(id, kind)) /\ UNCHANGED <<queue, stack>>
                ELSE OnMessage(Action(id, kind)) /\ UNCHANGED outbox
             /\ UNCHANGED <<executing, task, inbox, disk, loki, driver, options, app, launch>>
<1>1. PICK id \in Ids :
        /\ stack = <<>> \/ Top = "callback" \/ options.webWorker
        /\ database = "working"
        /\ calls[id].kind = "none" /\ \A i \in 1..(id - 1) : calls[i].kind # "none"
        /\ calls' = [calls EXCEPT ![id] = [kind |-> kind, status |-> "sent", launch |-> launch]]
        /\ pending' = Append(pending, id)
        /\ database' = IF kind = "reset" THEN "resetting" ELSE database
        /\ IF options.webWorker
           THEN outbox' = Append(outbox, Action(id, kind)) /\ UNCHANGED <<queue, stack>>
           ELSE OnMessage(Action(id, kind)) /\ UNCHANGED outbox
        /\ UNCHANGED <<executing, task, inbox, disk, loki, driver, options, app, launch>>
  BY DEF Call, store, fixed
<1>2. id \in Nat \ {0} /\ Ids = 1..MaxCalls /\ MaxCalls \in Nat
  BY TypeIs DEF Ids
<1>3. ASSUME NEW i \in Ids PROVE i < id <=> calls[i].kind # "none"
  <2>1. i < id => i \in 1..(id - 1)
    BY <1>2, <1>3
  <2>2. id < i => calls[i].kind = "none"
    BY <1>1 DEF LinkInv, OrderInv
  <2> QED
    BY <1>1, <1>2, <1>3, <2>1, <2>2
<1>4. Action(id, kind) \in Actions
  BY <1>2 DEF Action, Actions, Kinds
<1> QED
  BY <1>1, <1>3, <1>4

LEMMA CallLink ==
    ASSUME TypeOK, LinkInv, NEW kind \in Kinds, Call(kind)
    PROVE  LinkTypes' /\ LinkInv'
<1>1. PICK id \in Ids :
        /\ calls[id].kind = "none" /\ \A i \in Ids : i < id <=> calls[i].kind # "none"
        /\ calls' = [calls EXCEPT ![id] = [kind |-> kind, status |-> "sent", launch |-> launch]]
        /\ database = "working" /\ pending' = Append(pending, id)
        /\ database' = IF kind = "reset" THEN "resetting" ELSE database
        /\ Action(id, kind) \in Actions
        /\ stack = <<>> \/ Top = "callback" \/ options.webWorker
        /\ IF options.webWorker
           THEN outbox' = Append(outbox, Action(id, kind)) /\ UNCHANGED <<queue, stack>>
           ELSE OnMessage(Action(id, kind)) /\ UNCHANGED outbox
        /\ UNCHANGED <<executing, task, inbox, disk, loki, driver, options, app, launch>>
  BY CallIs
<1>2. PICK action \in Actions : action = Action(id, kind) /\ action.id = id /\ action.type = kind
  BY <1>1 DEF Action
<1>3. /\ calls' \in [Ids -> CallType] /\ calls'[id].kind = kind /\ calls'[id].status = "sent"
      /\ calls'[id].launch = launch
      /\ \A i \in Ids : i # id => calls'[i] = calls[i]
  <2>1. launch \in 0..MaxLaunches
    BY LokiAssumption DEF TypeOK
  <2>2. [kind |-> kind, status |-> "sent", launch |-> launch] \in CallType
    BY <2>1 DEF CallType
  <2> QED
    BY <1>1, <2>2, TypeIs
<1>4. /\ pending' \in Seq(0..MaxCalls) /\ Len(pending) \in Nat /\ Len(pending') = Len(pending) + 1
      /\ \A k \in 1..Len(pending) : pending'[k] = pending[k]
      /\ pending'[Len(pending) + 1] = id /\ Pushed(pending, pending', action.id)
  <2>1. pending \in Seq(0..MaxCalls) /\ id \in 0..MaxCalls
    BY TypeIs
  <2>2. Pushed(pending, pending', id) /\ pending' \in Seq(0..MaxCalls)
    BY <1>1, <2>1, AppendIs
  <2> QED
    BY <1>2, <2>2 DEF Pushed
<1>5. /\ id \in Nat \ {0}
      /\ \A k \in 1..Len(pending) : pending[k] = 0 \/ (pending[k] \in Ids /\ pending[k] # id)
      /\ \A k \in 1..Len(pending) : pending[k] < id
  <2>1. \A k \in 1..Len(pending) : pending[k] = 0 \/ pending[k] \in Ids
    BY ElementsAre, TypeIs
  <2>2. \A k \in 1..Len(pending) : pending[k] # 0 => calls[pending[k]].kind # "none"
    BY <2>1 DEF LinkInv, OrderInv
  <2>3. id \in Nat \ {0}
    BY TypeIs
  <2>4. \A k \in 1..Len(pending) : pending[k] = 0 \/ pending[k] < id
    BY <1>1, <2>1, <2>2
  <2> QED
    BY <1>1, <2>1, <2>2, <2>3, <2>4
<1>6. OrderInv'
  <2>1. \A k, l \in 1..Len(pending') : k < l => pending'[k] < pending'[l]
    <3>1. ASSUME NEW k \in 1..Len(pending'), NEW l \in 1..Len(pending'), k < l
          PROVE  pending'[k] < pending'[l]
      <4>1. k \in 1..Len(pending) /\ (l \in 1..Len(pending) \/ l = Len(pending) + 1)
        BY <1>4, <3>1
      <4> QED
        BY <1>4, <1>5, <3>1, <4>1 DEF LinkInv, OrderInv
    <3> QED
      BY <3>1
  <2>2. ASSUME NEW k \in 1..Len(pending'), pending'[k] # 0
        PROVE  calls'[pending'[k]].status = "sent" /\ calls'[pending'[k]].launch = launch
    <3>1. CASE k \in 1..Len(pending)
      <4>1. /\ calls[pending[k]].status = "sent" /\ calls[pending[k]].launch = launch
            /\ calls'[pending[k]] = calls[pending[k]] /\ pending'[k] = pending[k]
        BY <1>3, <1>4, <1>5, <2>2, <3>1 DEF LinkInv, OrderInv
      <4> QED
        BY <4>1
    <3>2. CASE k = Len(pending) + 1
      BY <1>3, <1>4, <3>2
    <3> QED
      BY <1>4, <3>1, <3>2
  <2>3. ASSUME NEW i \in Ids, calls'[i].launch = launch, calls'[i].status = "ok",
               NEW k \in 1..Len(pending')
        PROVE  i < pending'[k]
    <3>1. i # id /\ calls'[i] = calls[i]
      BY <1>3, <2>3
    <3>2. i < id
      BY <1>1, <2>3, <3>1 DEF LinkInv, OrderInv
    <3>3. k \in 1..Len(pending) => i < pending[k]
      BY <2>3, <3>1 DEF LinkInv, OrderInv
    <3> QED
      BY <1>4, <3>2, <3>3
  <2>4. ASSUME NEW i \in Ids
        PROVE  /\ calls'[i].kind = "none" <=> calls'[i].status = "none"
               /\ calls'[i].kind = "none" => calls'[i].launch = 0
               /\ calls'[i].launch <= launch
    <3>1. CASE i = id
      BY <1>3, <3>1, TypeIs DEF Kinds
    <3>2. CASE i # id
      BY <1>3, <3>2 DEF LinkInv, OrderInv
    <3> QED
      BY <3>1, <3>2
  <2>5. ASSUME NEW i \in Ids, NEW j \in Ids, i < j, calls'[i].kind = "none"
        PROVE  calls'[j].kind = "none"
    <3>1. i # id /\ calls[i].kind = "none"
      BY <1>3, <2>5 DEF Kinds
    <3>2. ~(i < id) /\ j # id
      BY <1>1, <2>5, <3>1, TypeIs
    <3> QED
      BY <1>3, <2>5, <3>1, <3>2 DEF LinkInv, OrderInv
  <2> QED
    BY <1>1, <2>1, <2>2, <2>3, <2>4, <2>5 DEF OrderInv
<1>7. ResetInv'
  <2>1. ASSUME NEW k \in 1..Len(pending), pending[k] # 0
        PROVE  calls'[pending'[k]].kind # "reset"
    BY <1>1, <1>3, <1>4, <1>5, <2>1 DEF LinkInv, ResetInv
  <2>2. pending' # <<>> /\ pending'[Len(pending')] = id
    BY <1>4
  <2>3. \A k \in 1..Len(pending') : k \in 1..Len(pending) \/ k = Len(pending')
    BY <1>4
  <2>4. CASE kind = "reset"
    <3>1. \A i \in Ids : i > id => calls'[i].kind = "none"
      BY <1>1, <1>3, TypeIs
    <3> QED
      BY <1>1, <1>3, <1>4, <2>1, <2>2, <2>3, <2>4, <3>1 DEF ResetInv, LastCall
  <2>5. CASE kind # "reset"
    BY <1>1, <1>3, <1>4, <2>1, <2>2, <2>3, <2>5 DEF ResetInv
  <2> QED
    BY <2>4, <2>5
<1>8. TaskInv'
  <2>1. /\ queue # <<>> => queue' # <<>> /\ queue'[1] = queue[1] /\ stack' = stack
    <3>1. queue # <<>> => 1 \in 1..Len(queue)
      BY TypeIs, TailIs
    <3>2. ASSUME OnMessage(action), queue # <<>>
          PROVE  queue' # <<>> /\ queue'[1] = queue[1] /\ stack' = stack
      <4>1. Pushed(queue, queue', action) /\ queue' \in Seq(Actions) /\ stack' = stack
        BY <1>2, <3>2, TypeIs, AppendIs DEF OnMessage
      <4>2. Len(queue') = Len(queue) + 1 /\ Len(queue) \in Nat /\ queue'[1] = queue[1]
        BY <3>1, <3>2, <4>1 DEF Pushed
      <4> QED
        BY <4>1, <4>2
    <3> QED
      BY <1>1, <1>2, <3>2
  <2>2. task.type # "reset"
    BY <1>1 DEF LinkInv, TaskInv
  <2>3. task # NoTask => executing = 1
    BY <1>1, TypeIs DEF LinkInv, TaskInv
  <2> QED
    BY <1>1, <2>1, <2>2, <2>3 DEF LinkInv, TaskInv
<1>9. Called => Called'
  <2>1. ASSUME Called, NEW k \in 1..Len(pending') PROVE pending'[k] # 0
    <3>1. k \in 1..Len(pending) \/ k = Len(pending) + 1
      BY <1>4
    <3> QED
      BY <1>4, <1>5, <2>1, <3>1 DEF Called
  <2> QED
    BY <1>1, <2>1 DEF Called
<1>10. \A i \in Ids : calls[i].kind # "none" => calls'[i].kind = calls[i].kind
  BY <1>1, <1>3
<1>11. \A a \in Actions : IsOf(a) => IsOf(a)'
  <2>1. ASSUME NEW a \in Actions, IsOf(a) PROVE IsOf(a)'
    <3>1. a.id = 0 \/ a.id \in Ids
      BY TypeIs DEF Actions
    <3>2. a.type # "none"
      BY DEF Actions, Kinds
    <3> QED
      BY <1>10, <2>1, <3>1, <3>2 DEF IsOf
  <2> QED
    BY <2>1
<1>12. /\ \A k \in 1..Len(queue) : \E a \in Actions : a = queue[k] /\ IsOf(a)'
       /\ \A k \in 1..Len(outbox) : \E a \in Actions : a = outbox[k] /\ IsOf(a)'
       /\ IsOf(action)'
  <2>1. /\ \A k \in 1..Len(queue) : queue[k] \in Actions /\ IsOf(queue[k])
        /\ \A k \in 1..Len(outbox) : outbox[k] \in Actions /\ IsOf(outbox[k])
    BY ElementsAre DEF LinkInv, KindInv
  <2>2. IsOf(action)'
    BY <1>2, <1>3, <1>5 DEF IsOf
  <2>3. ASSUME NEW k \in 1..Len(queue) PROVE \E a \in Actions : a = queue[k] /\ IsOf(a)'
    <3>1. PICK a \in Actions : a = queue[k] /\ IsOf(a)
      BY <2>1
    <3> QED
      BY <1>11, <3>1
  <2>4. ASSUME NEW k \in 1..Len(outbox) PROVE \E a \in Actions : a = outbox[k] /\ IsOf(a)'
    <3>1. PICK a \in Actions : a = outbox[k] /\ IsOf(a)
      BY <2>1
    <3> QED
      BY <1>11, <3>1
  <2> QED
    BY <2>2, <2>3, <2>4
<1>13. CASE options.webWorker
  <2>1. Pushed(outbox, outbox', action) /\ outbox' \in Seq(Actions) /\ UNCHANGED <<queue, stack>>
    <3>1. /\ outbox' = Append(outbox, action) /\ UNCHANGED <<queue, stack>>
          /\ outbox \in Seq(Actions)
      BY <1>1, <1>2, <1>13, TypeIs
    <3>2. Pushed(outbox, Append(outbox, action), action) /\ Append(outbox, action) \in Seq(Actions)
      BY <3>1, AppendIs
    <3> QED
      BY <3>1, <3>2
  <2>2. LinkTypes'
    BY <1>1, <1>3, <1>4, <2>1, TypeIs DEF LinkTypes
  <2>3. LineInv'
    <3>1. Line(pending', inbox, queue, outbox')
      BY <1>4, <2>1, LineGrows, ElementsAre DEF LinkInv, LineInv
    <3> QED
      BY <1>1, <2>1, <3>1 DEF LineInv
  <2>4. KindInv'
    <3>1. \A k \in 1..Len(outbox') : outbox'[k] = action \/ (k \in 1..Len(outbox) /\ outbox'[k] = outbox[k])
      BY <2>1 DEF Pushed
    <3>2. ASSUME NEW k \in 1..Len(outbox') PROVE IsOf(outbox[k])'
      <4>1. PICK a \in Actions : a = outbox'[k] /\ IsOf(a)'
        BY <1>12, <3>1
      <4> QED
        BY <4>1 DEF IsOf
    <3>3. ASSUME NEW k \in 1..Len(queue') PROVE IsOf(queue[k])'
      <4>1. PICK a \in Actions : a = queue'[k] /\ IsOf(a)'
        BY <1>12, <2>1
      <4> QED
        BY <4>1 DEF IsOf
    <3> QED
      BY <3>2, <3>3 DEF KindInv
  <2>5. ChannelInv' /\ StackInv'
    BY <1>1, <1>9, <1>13, <2>1 DEF LinkInv, ChannelInv, StackInv, Top
  <2> QED
    BY <1>6, <1>7, <1>8, <2>2, <2>3, <2>4, <2>5 DEF LinkInv
<1>14. CASE ~options.webWorker
  <2>1. OnMessage(action) /\ UNCHANGED <<inbox, outbox>> /\ Len(outbox) = 0
    <3>1. outbox = <<>>
      BY <1>14 DEF LinkInv, ChannelInv
    <3> QED
      BY <1>1, <1>2, <1>14, <3>1
  <2>2. Callbacks(stack)
    <3>1. CASE stack = <<>>
      <4>1. Len(stack) = 0
        BY <3>1
      <4> QED
        BY <4>1 DEF Callbacks
    <3>2. CASE stack # <<>> /\ Head(stack) = "callback"
      <4>1. stack[1] = "callback"
        BY <3>2, TypeIs, TailIs
      <4>2. \A k \in 1..Len(stack) : k = 1 \/ k \in 2..Len(stack)
        BY ElementsAre
      <4> QED
        BY <4>1, <4>2 DEF LinkInv, StackInv, Callbacks
    <3> QED
      BY <1>1, <1>14, <3>1, <3>2 DEF Top
  <2>3. /\ Pushed(queue, queue', action) /\ queue' \in Seq(Actions)
        /\ stack' \in Seq(Frames) /\ StackInv'
    BY <1>1, <1>2, <1>9, <2>1, <2>2, OnMessageIs DEF LinkInv
  <2>4. LinkTypes'
    BY <1>1, <1>3, <1>4, <2>1, <2>3, TypeIs DEF LinkTypes
  <2>5. LineInv'
    <3>1. Line(pending', inbox, queue', outbox)
      BY <1>4, <2>1, <2>3, LineGrows, ElementsAre DEF LinkInv, LineInv
    <3> QED
      BY <2>1, <3>1 DEF LineInv
  <2>6. KindInv'
    <3>1. \A k \in 1..Len(queue') : queue'[k] = action \/ (k \in 1..Len(queue) /\ queue'[k] = queue[k])
      BY <2>3 DEF Pushed
    <3>2. ASSUME NEW k \in 1..Len(queue') PROVE IsOf(queue[k])'
      <4>1. PICK a \in Actions : a = queue'[k] /\ IsOf(a)'
        BY <1>12, <3>1
      <4> QED
        BY <4>1 DEF IsOf
    <3>3. ASSUME NEW k \in 1..Len(outbox') PROVE IsOf(outbox[k])'
      <4>1. PICK a \in Actions : a = outbox'[k] /\ IsOf(a)'
        BY <1>12, <2>1
      <4> QED
        BY <4>1 DEF IsOf
    <3> QED
      BY <3>2, <3>3 DEF KindInv
  <2>7. ChannelInv'
    BY <1>1, <2>1 DEF LinkInv, ChannelInv
  <2> QED
    BY <1>6, <1>7, <1>8, <2>3, <2>4, <2>5, <2>6, <2>7 DEF LinkInv
<1> QED
  BY <1>13, <1>14

-----------------------------------------------------------------------------
(* Actions that the worker executes. *)

(* While a set-up or a reset is under way nothing else is begun. *)
LEMMA ExecuteIs ==
    ASSUME TypeOK, LinkInv, Top = "execute"
    PROVE  /\ queue # <<>> /\ pending # <<>> /\ Head(queue) = queue[1] /\ 1 \in 1..Len(queue)
           /\ queue[1] \in Actions /\ queue[1].id \in 0..MaxCalls /\ IsOf(queue[1])
           /\ Tail(stack) \in Seq(Frames) /\ Callbacks(Tail(stack))
           /\ Tail(stack) # <<>> => Called
           /\ stack # <<>> /\ database # "broken"
           /\ executing = 0 => task = NoTask
<1>1. stack # <<>> /\ queue # <<>>
  BY DEF Top, LinkInv, StackInv
<1>2. /\ Head(queue) = queue[1] /\ 1 \in 1..Len(queue) /\ queue[1] \in Actions
      /\ queue[1].id \in 0..MaxCalls
  BY <1>1, TypeIs, TailIs, ElementsAre
<1>3. pending # <<>>
  BY <1>1, Places DEF LinkInv
<1>4. database # "broken"
  BY <1>3 DEF LinkInv, ResetInv
<1>5. executing = 0 => task = NoTask
  BY <1>4 DEF LinkInv, TaskInv
<1>6. IsOf(queue[1])
  BY <1>2 DEF LinkInv, KindInv
<1>7. /\ Tail(stack) \in Seq(Frames) /\ Callbacks(Tail(stack))
      /\ Tail(stack) # <<>> => Called
  BY <1>1, RestIs DEF LinkInv
<1> QED
  BY <1>1, <1>2, <1>3, <1>4, <1>5, <1>6, <1>7

LEMMA NoTaskFits ==
    ASSUME task' = NoTask, executing' = 0
    PROVE  TaskInv'
  BY DEF TaskInv, NoTask

(* An action that is executed at once. *)
LEMMA ExecuteLink ==
    ASSUME TypeOK, LinkInv, Top = "execute", executing = 0, NEW ok \in BOOLEAN,
           OnActionDone(Head(queue), ok, Tail(stack)),
           UNCHANGED <<executing, task, options, launch>>
    PROVE  /\ LinkTypes' /\ LinkInv' /\ Popped(queue, queue') /\ outbox' = outbox
           /\ Outcome(queue[1].id, ok)
<1>1. /\ queue # <<>> /\ Tail(stack) \in Seq(Frames) /\ Callbacks(Tail(stack))
      /\ Tail(stack) # <<>> => Called
      /\ task = NoTask
  BY ExecuteIs
<1>2. /\ queue' \in Seq(Actions) /\ outbox' = outbox /\ inbox' \in Seq(Responses)
      /\ pending' \in Seq(0..MaxCalls) /\ calls' \in [Ids -> CallType]
      /\ database' \in {"working", "resetting", "broken"} /\ stack' \in Seq(Frames)
      /\ LineInv' /\ OrderInv' /\ KindInv' /\ ResetInv' /\ ChannelInv' /\ StackInv'
      /\ Popped(queue, queue') /\ Outcome(queue[1].id, ok)
  BY <1>1, Answered
<1>3. LinkTypes'
  BY <1>2, TypeIs DEF LinkTypes
<1>4. TaskInv'
  BY <1>1, NoTaskFits
<1> QED
  BY <1>2, <1>3, <1>4 DEF LinkInv

LEMMA InsaneLink ==
    ASSUME TypeOK, LinkInv, ExecuteInsane
    PROVE  /\ LinkTypes' /\ LinkInv' /\ Popped(queue, queue') /\ outbox' = outbox
           /\ Outcome(queue[1].id, FALSE) /\ IsReset(queue[1].id)
<1>1. /\ Top = "execute" /\ executing # 0 /\ executing' = 0
      /\ OnActionDone(Head(queue), FALSE, Tail(stack))
      /\ UNCHANGED <<task, options, launch>>
  BY DEF ExecuteInsane, fixed
<1>2. /\ queue # <<>> /\ queue[1] \in Actions /\ IsOf(queue[1]) /\ queue[1].id \in 0..MaxCalls
      /\ Tail(stack) \in Seq(Frames) /\ Callbacks(Tail(stack))
      /\ Tail(stack) # <<>> => Called
      /\ stack # <<>>
  BY <1>1, ExecuteIs
<1>3. /\ task # NoTask /\ task.type = queue[1].type /\ task.type \in Async
      /\ ~options.webWorker /\ task.type # "setUp"
  BY <1>1, <1>2, TypeIs DEF LinkInv, TaskInv
<1>4. task.type = "reset" /\ IsReset(queue[1].id)
  BY <1>2, <1>3 DEF Async, IsOf, IsReset
<1>5. /\ queue' \in Seq(Actions) /\ outbox' = outbox /\ inbox' \in Seq(Responses)
      /\ pending' \in Seq(0..MaxCalls) /\ calls' \in [Ids -> CallType]
      /\ database' \in {"working", "resetting", "broken"} /\ stack' \in Seq(Frames)
      /\ LineInv' /\ OrderInv' /\ KindInv' /\ ResetInv' /\ ChannelInv' /\ StackInv'
      /\ Popped(queue, queue') /\ Outcome(queue[1].id, FALSE)
      /\ database' = IF options.webWorker \/ ~IsReset(queue[1].id) THEN database
                     ELSE IF FALSE THEN "working" ELSE "broken"
  BY <1>1, <1>2, Answered
<1>6. database' = "broken"
  BY <1>3, <1>4, <1>5
<1>7. LinkTypes'
  BY <1>1, <1>5, TypeIs DEF LinkTypes
<1>8. TaskInv'
  <2>1. LastCall(task.id)
    BY <1>4 DEF LinkInv, TaskInv
  <2>2. LastCall(task.id)'
    BY <1>1, <1>5, <2>1 DEF LastCall, Outcome, SameCalls
  <2>3. /\ task' # NoTask => task'.step # "none" /\ task'.type \in Async
        /\ task'.step = "open" => task'.type = "setUp"
    BY <1>1 DEF LinkInv, TaskInv
  <2> QED
    BY <1>1, <1>4, <1>6, <2>2, <2>3 DEF TaskInv
<1> QED
  BY <1>4, <1>5, <1>7, <1>8 DEF LinkInv

LEMMA AsyncLink ==
    ASSUME TypeOK, LinkInv, ExecuteAsync
    PROVE  LinkTypes' /\ LinkInv' /\ Outcome(0, TRUE) /\ task'.step \in {"open", "close"}
<1>1. /\ Top = "execute" /\ executing = 0 /\ Head(queue).type \in Async
      /\ executing' = 1 /\ stack' = Tail(stack)
      /\ task' = [id |-> Head(queue).id, type |-> Head(queue).type,
                  step |-> IF Head(queue).type = "setUp" THEN "open" ELSE "close"]
      /\ UNCHANGED <<queue, inbox, outbox, pending, calls, database, options, app, launch>>
  BY DEF ExecuteAsync, channel, app_, fixed
<1>2. /\ queue # <<>> /\ pending # <<>> /\ Head(queue) = queue[1] /\ 1 \in 1..Len(queue)
      /\ queue[1] \in Actions /\ queue[1].id \in 0..MaxCalls /\ IsOf(queue[1])
      /\ Tail(stack) \in Seq(Frames) /\ Callbacks(Tail(stack))
      /\ Tail(stack) # <<>> => Called
      /\ database # "broken"
  BY <1>1, ExecuteIs
<1>3. /\ task'.id = queue[1].id /\ task'.type = queue[1].type /\ queue[1].type \in Async
      /\ task'.step = IF queue[1].type = "setUp" THEN "open" ELSE "close"
      /\ task' \in Tasks /\ task' # NoTask
  BY <1>1, <1>2 DEF Tasks, NoTask, Async
<1>4. stack' \in Seq(Frames) /\ StackInv'
  <2>1. Called => Called'
    BY <1>1 DEF Called
  <2> QED
    BY <1>1, <1>2, <2>1, StackFits
<1>5. LinkTypes'
  BY <1>1, <1>3, <1>4, TypeIs DEF LinkTypes
<1>6. LineInv' /\ OrderInv' /\ KindInv' /\ ResetInv' /\ ChannelInv'
  BY <1>1 DEF LinkInv, LineInv, OrderInv, KindInv, IsOf, ResetInv, LastCall, ChannelInv
<1>7. /\ queue[1].id = pending[Len(inbox) + 1] /\ Len(inbox) + 1 \in 1..Len(pending)
  <2>1. queue[1].id = pending[Len(inbox) + 1]
    BY <1>2, Places DEF LinkInv
  <2>2. Len(inbox) + 1 \in 1..Len(pending)
    BY <1>2, ElementsAre DEF LinkInv, LineInv, Line
  <2> QED
    BY <2>1, <2>2
<1>8. ASSUME options.webWorker \/ queue[1].type = "setUp" PROVE Tail(stack) = <<>>
  <2>1. CASE options.webWorker
    BY <1>2, <2>1 DEF Called
  <2>2. CASE queue[1].type = "setUp"
    <3>1. queue[1].id = 0
      <4>1. \A id \in Ids : calls[id].kind # "setUp"
        BY TypeIs DEF CallType, Kinds
      <4> QED
        BY <1>2, <2>2, <4>1, TypeIs DEF IsOf
    <3> QED
      BY <1>2, <1>7, <3>1 DEF Called
  <2> QED
    BY <1>8, <2>1, <2>2
<1>9. ASSUME queue[1].type = "reset" PROVE database # "working" /\ LastCall(queue[1].id)
  <2>1. queue[1].id # 0 /\ calls[queue[1].id].kind = "reset"
    BY <1>2, <1>9 DEF IsOf
  <2>2. database # "working"
    BY <1>7, <2>1 DEF LinkInv, ResetInv
  <2>3. database = "resetting"
    BY <1>2, <2>2, TypeIs
  <2> QED
    BY <1>7, <2>1, <2>3 DEF LinkInv, ResetInv
<1>10. TaskInv'
  <2>1. queue[1].type = "reset" => LastCall(queue[1].id)'
    BY <1>1, <1>9 DEF LastCall
  <2>2. task'.type = "reset" => database' # "working" /\ LastCall(task.id)'
    BY <1>1, <1>3, <1>9, <2>1 DEF LastCall
  <2>3. /\ executing' = 1 =>
             /\ task' # NoTask
             /\ queue' # <<>> /\ task'.id = queue'[1].id /\ task'.type = queue'[1].type
             /\ options'.webWorker \/ task'.type = "setUp" => stack' = <<>>
    BY <1>1, <1>2, <1>3, <1>8
  <2>4. /\ task'.step # "none" /\ task'.type \in Async /\ executing' # 0
        /\ task'.step = "open" => task'.type = "setUp"
    BY <1>1, <1>3
  <2> QED
    BY <2>2, <2>3, <2>4 DEF TaskInv
<1>11. Outcome(0, TRUE)
  BY <1>1, Quiet
<1> QED
  BY <1>3, <1>4, <1>5, <1>6, <1>10, <1>11 DEF LinkInv

-----------------------------------------------------------------------------
(* The steps of a set-up or a reset. *)

LEMMA TaskIs ==
    ASSUME TypeOK, LinkInv, task.step # "none"
    PROVE  /\ task # NoTask /\ task.type \in {"setUp", "reset"}
           /\ executing = 1 => queue # <<>> /\ task.id = queue[1].id /\ IsOf(queue[1])
                               /\ task.type = queue[1].type /\ queue[1].id \in 0..MaxCalls
           /\ executing # 1 => /\ task.type = "reset" /\ database = "broken" /\ pending = <<>>
                               /\ inbox = <<>> /\ queue = <<>> /\ outbox = <<>>
           /\ task.type = "reset" => LastCall(task.id) /\ database # "working"
           /\ task.type = "setUp" => executing = 1 /\ queue[1].id = 0
<1>1. task # NoTask /\ task.type \in {"setUp", "reset"}
  BY DEF LinkInv, TaskInv, NoTask, Async
<1>2. ASSUME executing = 1
      PROVE  /\ queue # <<>> /\ task.id = queue[1].id /\ task.type = queue[1].type
             /\ IsOf(queue[1]) /\ queue[1].id \in 0..MaxCalls
  <2>1. queue # <<>> /\ task.id = queue[1].id /\ task.type = queue[1].type
    BY <1>2 DEF LinkInv, TaskInv
  <2>2. 1 \in 1..Len(queue)
    BY <2>1, TypeIs, TailIs
  <2> QED
    BY <2>1, <2>2, ElementsAre DEF LinkInv, KindInv
<1>3. ASSUME executing # 1
      PROVE  /\ task.type = "reset" /\ database = "broken" /\ pending = <<>>
             /\ inbox = <<>> /\ queue = <<>> /\ outbox = <<>>
  <2>1. executing = 0
    BY <1>3, TypeIs
  <2>2. task.type = "reset" /\ database = "broken" /\ pending = <<>>
    BY <1>1, <2>1 DEF LinkInv, TaskInv, ResetInv
  <2>3. Len(pending) = 0
    BY <2>2
  <2>4. Len(inbox) = 0 /\ Len(queue) = 0 /\ Len(outbox) = 0
    BY <2>3, ElementsAre DEF LinkInv, LineInv, Line
  <2>5. inbox = <<>> /\ queue = <<>> /\ outbox = <<>>
    BY <2>4, TypeIs
  <2> QED
    BY <2>2, <2>5
<1>4. task.type = "reset" => LastCall(task.id) /\ database # "working"
  BY DEF LinkInv, TaskInv
<1>5. ASSUME task.type = "setUp" PROVE executing = 1 /\ queue[1].id = 0
  <2>1. executing = 1
    BY <1>3, <1>5
  <2>2. \A id \in Ids : calls[id].kind # "setUp"
    BY TypeIs DEF CallType, Kinds
  <2> QED
    BY <1>2, <1>5, <2>1, <2>2, TypeIs DEF IsOf
<1> QED
  BY <1>1, <1>2, <1>3, <1>4, <1>5

LEMMA TaskDoneLink ==
    ASSUME TypeOK, LinkInv, task.step # "none", NEW ok \in BOOLEAN, TaskDone(ok), stack = <<>>,
           UNCHANGED <<options, app, launch>>
    PROVE  /\ LinkTypes' /\ LinkInv' /\ task' = NoTask /\ outbox' = outbox
           /\ executing = 1 => Popped(queue, queue') /\ Outcome(queue[1].id, ok)
           /\ executing # 1 => UNCHANGED queue /\ Outcome(0, TRUE)
<1>1. CASE executing = 1
  <2>1. task' = NoTask /\ executing' = 0 /\ OnActionDone(Head(queue), ok, <<>>)
    BY <1>1 DEF TaskDone
  <2>2. queue # <<>>
    BY <1>1, TaskIs
  <2>3. <<>> \in Seq(Frames) /\ Callbacks(<<>>)
    BY DEF Callbacks
  <2>4. /\ queue' \in Seq(Actions) /\ outbox' = outbox /\ inbox' \in Seq(Responses)
        /\ pending' \in Seq(0..MaxCalls) /\ calls' \in [Ids -> CallType]
        /\ database' \in {"working", "resetting", "broken"} /\ stack' \in Seq(Frames)
        /\ LineInv' /\ OrderInv' /\ KindInv' /\ ResetInv' /\ ChannelInv' /\ StackInv'
        /\ Popped(queue, queue') /\ Outcome(queue[1].id, ok)
    BY <2>1, <2>2, <2>3, Answered
  <2>5. NoTask \in Tasks
    BY TypeIs DEF Tasks, NoTask
  <2>6. LinkTypes'
    BY <2>1, <2>4, <2>5, TypeIs DEF LinkTypes
  <2>7. TaskInv'
    BY <2>1, NoTaskFits
  <2> QED
    BY <1>1, <2>1, <2>4, <2>6, <2>7 DEF LinkInv
<1>2. CASE executing # 1
  <2>1. /\ task' = NoTask /\ executing = 0
        /\ UNCHANGED <<queue, executing, stack, inbox, outbox, pending, calls, database>>
    BY <1>2, TypeIs DEF TaskDone, channel, app_
  <2>2. NoTask \in Tasks
    BY TypeIs DEF Tasks, NoTask
  <2>3. LinkTypes'
    BY <2>1, <2>2, TypeIs DEF LinkTypes
  <2>4. TaskInv'
    BY <2>1, NoTaskFits
  <2>5. LineInv' /\ OrderInv' /\ KindInv' /\ ResetInv' /\ ChannelInv' /\ StackInv'
    BY <2>1 DEF LinkInv, LineInv, OrderInv, KindInv, IsOf, ResetInv, LastCall, ChannelInv,
                StackInv, Called, Top
  <2>6. Outcome(0, TRUE)
    BY <2>1, Quiet
  <2> QED
    BY <1>2, <2>1, <2>3, <2>4, <2>5, <2>6 DEF LinkInv
<1> QED
  BY <1>1, <1>2

LEMMA GoesOnLink ==
    ASSUME TypeOK, LinkInv, task.step # "none", NEW step \in {"close", "delete", "reopen"},
           GoesOn(step), UNCHANGED <<options, app, launch>>
    PROVE  /\ LinkTypes' /\ LinkInv' /\ task'.step = step /\ Outcome(0, TRUE)
           /\ UNCHANGED <<queue, outbox>>
<1>1. /\ task' = [task EXCEPT !.step = step]
      /\ UNCHANGED <<queue, executing, stack, inbox, outbox, pending, calls, database>>
  BY DEF GoesOn, channel, app_
<1>2. /\ task'.id = task.id /\ task'.type = task.type /\ task'.step = step /\ task' \in Tasks
  BY <1>1, TypeIs DEF Tasks
<1>3. LinkTypes'
  BY <1>1, <1>2, TypeIs DEF LinkTypes
<1>4. LineInv' /\ OrderInv' /\ KindInv' /\ ResetInv' /\ ChannelInv' /\ StackInv'
  BY <1>1 DEF LinkInv, LineInv, OrderInv, KindInv, IsOf, ResetInv, LastCall, ChannelInv,
              StackInv, Called, Top
<1>5. TaskInv'
  <2>1. task # NoTask /\ task' # NoTask
    BY <1>2 DEF NoTask
  <2> QED
    BY <1>1, <1>2, <2>1 DEF LinkInv, TaskInv, LastCall
<1>6. Outcome(0, TRUE)
  BY <1>1, Quiet
<1> QED
  BY <1>1, <1>2, <1>3, <1>4, <1>5, <1>6 DEF LinkInv

-----------------------------------------------------------------------------
(* What is in the database. *)

LEMMA StoreIs ==
    ASSUME StoreTypes
    PROVE  /\ disk \in Contents /\ loki.content \in Contents /\ loki.autosave \in BOOLEAN
           /\ loki.memory \in BOOLEAN /\ options.autosave \in BOOLEAN
           /\ driver.set \in BOOLEAN /\ driver.broken \in BOOLEAN
           /\ Empty \in Contents /\ app.schema \in Versions /\ MaxVersion \in Nat
  BY LokiAssumption DEF StoreTypes, LokiType, Contents, Empty, Apps, Versions

(* Loki loads the disk or, with the adapter for memory, nothing. *)
LEMMA LoadedIs ==
    ASSUME StoreTypes, NEW memory \in GetsMemory
    PROVE  memory \in BOOLEAN /\ Loaded(memory) \in {disk, Empty}
  BY DEF GetsMemory, Loaded

LEMMA EmptyIs == Empty.whole = {} /\ Empty.half = {} /\ HasTables(Empty)
  BY DEF Empty, HasTables

LEMMA OpenedIs ==
    ASSUME StoreTypes, NEW content \in Contents, NEW memory \in BOOLEAN, Opened(content, memory)
    PROVE  loki' \in LokiType /\ loki'.content = content
  BY StoreIs DEF Opened, LokiType

(* The version is set once the tables are there. *)
LEMMA MigratedIs ==
    ASSUME StoreTypes, NEW content \in Contents, HasTables(content),
           content.version \in 1..(app.schema - 1), NEW m \in Migrated(content)
    PROVE  /\ m.content \in Contents /\ m.ok \in BOOLEAN /\ HasTables(m.content)
           /\ m.content.whole = content.whole /\ m.content.half = content.half
           /\ m.ok => /\ m.content.version = app.schema
                      /\ m.content.mixed \/ 1..app.schema \subseteq m.content.tables
<1>1. app.schema \in Versions /\ MaxVersion \in Nat /\ app.schema \in 1..MaxVersion
  BY StoreIs DEF Versions
<1>2. ASSUME NEW v \in content.version..app.schema
      PROVE  /\ WithTables(content, v) \in Contents
             /\ WithTables(content, v).version = content.version
             /\ WithTables(content, v).whole = content.whole
             /\ WithTables(content, v).half = content.half
             /\ WithTables(content, v).mixed = content.mixed
             /\ WithTables(content, v).tables = content.tables \cup (1..v)
  <2>1. content.tables \cup (1..v) \in SUBSET Versions
    BY <1>1 DEF Contents, Versions
  <2> QED
    BY <1>1, <2>1 DEF WithTables, Contents
<1>3. CASE \E v \in content.version..app.schema :
             m = [content |-> WithTables(content, v), ok |-> FALSE]
  <2>1. PICK v \in content.version..app.schema :
          m = [content |-> WithTables(content, v), ok |-> FALSE]
    BY <1>3
  <2>2. m.content = WithTables(content, v) /\ m.ok = FALSE
    BY <2>1
  <2> QED
    BY <1>2, <2>2 DEF HasTables
<1>4. CASE m = [content |-> [WithTables(content, app.schema) EXCEPT !.version = app.schema],
                ok |-> TRUE]
  <2>1. app.schema \in content.version..app.schema
    BY <1>1
  <2> DEFINE c == [WithTables(content, app.schema) EXCEPT !.version = app.schema]
  <2>2. /\ c \in Contents /\ c.version = app.schema
        /\ c.tables = content.tables \cup (1..app.schema)
        /\ c.whole = content.whole /\ c.half = content.half
    BY <1>1, <1>2, <2>1 DEF Contents
  <2>3. m.content = c /\ m.ok = TRUE
    BY <1>4
  <2> QED
    BY <2>2, <2>3 DEF HasTables
<1> QED
  BY <1>3, <1>4 DEF Migrated

(* A schema set up over other collections mixes them; else it has all its tables. *)
LEMMA SchemaSetUpIs ==
    ASSUME StoreTypes, NEW found \in Contents, HasTables(found), NEW content \in SchemaSetUp(found)
    PROVE  /\ content \in Contents /\ HasTables(content)
           /\ content.whole = found.whole /\ content.half = found.half
           /\ content.mixed \/ 1..app.schema \subseteq content.tables
           /\ ~driver.broken => content.version = app.schema
<1>1. /\ app.schema \in 1..MaxVersion /\ MaxVersion \in Nat /\ driver.broken \in BOOLEAN
      /\ found.version \in 0..MaxVersion /\ found.tables \in SUBSET Versions
      /\ found.mixed \in BOOLEAN
  BY StoreIs DEF Versions, Contents
<1>2. PICK new \in (IF found.tables = {} THEN {1..app.schema} ELSE SUBSET (1..app.schema)) :
        content = [found EXCEPT !.tables = @ \cup new, !.mixed = @ \/ found.tables # {},
                                !.version = IF driver.broken THEN @ ELSE app.schema]
  BY DEF SchemaSetUp
<1>3. new \subseteq 1..app.schema /\ (found.tables = {} => new = 1..app.schema)
  BY <1>2
<1>4. PICK v \in 0..MaxVersion : v = IF driver.broken THEN found.version ELSE app.schema
  BY <1>1
<1>5. PICK mixed \in BOOLEAN : mixed <=> found.mixed \/ found.tables # {}
  OBVIOUS
<1>6. PICK tables \in SUBSET Versions : tables = found.tables \cup new
  <2>1. 1..app.schema \subseteq Versions
    BY <1>1 DEF Versions
  <2>2. found.tables \cup new \in SUBSET Versions
    BY <1>1, <1>3, <2>1
  <2> QED
    BY <2>2
<1>7. content = [found EXCEPT !.tables = tables, !.mixed = mixed, !.version = v]
  <2>1. mixed = (found.mixed \/ found.tables # {})
    BY <1>1, <1>5
  <2> QED
    BY <1>2, <1>4, <1>6, <2>1
<1>8. /\ content \in Contents /\ content.version = v /\ content.mixed = mixed
      /\ content.tables = tables /\ content.whole = found.whole /\ content.half = found.half
  BY <1>7 DEF Contents
<1>9. mixed \/ (1..app.schema \subseteq tables /\ 1..found.version \subseteq {})
  BY <1>3, <1>5, <1>6 DEF HasTables
<1> QED
  BY <1>4, <1>8, <1>9 DEF HasTables

-----------------------------------------------------------------------------
(* Before the set-up has been answered nothing of this launch is performed, and what is
   performed is in front of what is to be executed.                          *)

LEMMA PerformedIsFirst ==
    ASSUME TypeOK, LinkInv, NEW i \in Ids, Performed(i), calls[i].launch = launch
    PROVE  Awaits(i) /\ i # 0
<1>1. CASE calls[i].status = "ok"
  <2>1. \A k \in 1..Len(pending) : i < pending[k]
    BY <1>1 DEF LinkInv, OrderInv
  <2>2. /\ Len(queue) \in Nat /\ Len(outbox) \in Nat /\ Len(inbox) \in Nat /\ Len(pending) \in Nat
        /\ Len(pending) = Len(inbox) + Len(queue) + Len(outbox)
    BY ElementsAre DEF LinkInv, LineInv, Line
  <2>3. /\ \A k \in 1..Len(queue) : Len(inbox) + k \in 1..Len(pending)
                                    /\ queue[k].id = pending[Len(inbox) + k]
        /\ \A k \in 1..Len(outbox) : Len(inbox) + Len(queue) + k \in 1..Len(pending)
                                     /\ outbox[k].id = pending[Len(inbox) + Len(queue) + k]
    BY <2>2 DEF LinkInv, LineInv, Line
  <2> QED
    BY <2>1, <2>3, TypeIs DEF Awaits
<1>2. CASE \E k \in 1..Len(inbox) : inbox[k].id = i /\ inbox[k].ok
  BY <1>2, Places, TypeIs DEF LinkInv, Awaits
<1> QED
  BY <1>1, <1>2 DEF Performed

(* The head of the queue leaves it. *)
LEMMA HeadLeaves ==
    ASSUME TypeOK, LinkInv, Popped(queue, queue'), outbox' = outbox, queue # <<>>
    PROVE  /\ \A i : Awaits(i) => Awaits(i)'
           /\ (\E id : id = queue[1].id /\ Awaits(id)') /\ ~SetUpAhead'
           /\ \A k \in 1..Len(queue') : \E j \in 1..Len(queue) : queue'[k] = queue[j]
<1>1. /\ \A k \in 1..Len(queue') : k + 1 \in 1..Len(queue) /\ queue'[k] = queue[k + 1]
      /\ 1 \in 1..Len(queue)
  BY TypeIs, TailIs DEF Popped
<1>2. /\ \A k, l \in 1..Len(queue) : k < l => queue[k].id < queue[l].id
      /\ \A k \in 1..Len(queue), l \in 1..Len(outbox) : queue[k].id < outbox[l].id
  BY Places DEF LinkInv
<1>3. /\ \A k \in 1..Len(queue') : queue[1].id < queue'[k].id
      /\ \A k \in 1..Len(outbox) : queue[1].id < outbox[k].id
  <2>1. \A k \in 1..Len(queue') : 1 < k + 1
    OBVIOUS
  <2> QED
    BY <1>1, <1>2, <2>1
<1>4. /\ queue[1].id \in Nat /\ queue[1].id >= 0
      /\ \A k \in 1..Len(queue') : queue'[k].id \in Nat
      /\ \A k \in 1..Len(outbox) : outbox[k].id \in Nat
  <2>1. /\ \A k \in 1..Len(queue) : queue[k].id \in Nat
        /\ \A k \in 1..Len(outbox) : outbox[k].id \in Nat
    BY ElementsAre, TypeIs
  <2> QED
    BY <1>1, <2>1
<1>5. ~SetUpAhead'
  BY <1>3, <1>4 DEF SetUpAhead
<1>6. \A i : Awaits(i) => Awaits(i)'
  BY <1>1 DEF Awaits
<1>7. \E id : id = queue[1].id /\ Awaits(id)'
  <2>1. PICK id : id = queue[1].id
    OBVIOUS
  <2>2. Awaits(id)'
    BY <1>3, <2>1 DEF Awaits
  <2> QED
    BY <2>1, <2>2
<1> QED
  BY <1>1, <1>5, <1>6, <1>7

-----------------------------------------------------------------------------
(* What is written, when a step leaves the contents as they are or replaces them. *)

NoNewWrite == \A i \in Ids : calls[i].kind = "write" /\ Performed(i)' => Performed(i)

(* What is to be executed has been so before. *)
NoNewAction ==
    /\ \A k \in 1..Len(queue') : \/ \E j \in 1..Len(queue) : queue'[k] = queue[j]
                                 \/ \E j \in 1..Len(outbox) : queue'[k] = outbox[j]
    /\ \A k \in 1..Len(outbox') : \E j \in 1..Len(outbox) : outbox'[k] = outbox[j]

LEMMA OrderStays ==
    ASSUME SameCalls, NoNewWrite, NEW w, KeepsOrder(w)
    PROVE  KeepsOrder(w)'
<1> SUFFICES ASSUME NEW i \in Ids, NEW j \in Ids, i < j, calls'[i].launch = calls'[j].launch,
                    calls'[i].kind = "write", Performed(i)',
                    \A r \in i..j : calls'[r].kind # "reset", j \in w
             PROVE  i \in w
  BY DEF KeepsOrder
<1>1. calls[i].launch = calls[j].launch /\ calls[i].kind = "write" /\ Performed(i)
  BY DEF SameCalls, NoNewWrite
<1>2. \A r \in i..j : r \in Ids
  BY LokiAssumption DEF Ids
<1>3. \A r \in i..j : calls[r].kind # "reset"
  BY <1>2 DEF SameCalls
<1> QED
  BY <1>1, <1>3 DEF KeepsOrder

LEMMA AwaitsStays ==
    ASSUME NoNewAction, NEW i, Awaits(i)
    PROVE  Awaits(i)'
  BY DEF NoNewAction, Awaits

LEMMA BehindStays ==
    ASSUME SameCalls, NoNewAction, UNCHANGED launch, NEW w, w \subseteq Ids, IsBehind(w)
    PROVE  IsBehind(w)'
<1>1. ASSUME NEW i \in w
      PROVE  calls'[i].kind # "none" /\ (calls'[i].launch = launch => Awaits(i)')
  <2>1. calls[i].kind # "none" /\ (calls[i].launch = launch => Awaits(i))
    BY DEF IsBehind
  <2> QED
    BY <2>1, AwaitsStays DEF SameCalls
<1> QED
  BY <1>1 DEF IsBehind

LEMMA ErasedStays ==
    ASSUME SameCalls, NoNewAction, NEW i, IsErased(i)
    PROVE  IsErased(i)'
<1>1. PICK r \in Ids : /\ i < r /\ calls[r].kind = "reset"
                       /\ \A k \in 1..Len(queue) : r <= queue[k].id
                       /\ \A k \in 1..Len(outbox) : r <= outbox[k].id
  BY DEF IsErased
<1>2. calls'[r].kind = "reset"
  BY <1>1 DEF SameCalls
<1>3. \A k \in 1..Len(queue') : r <= queue'[k].id
  BY <1>1 DEF NoNewAction
<1>4. \A k \in 1..Len(outbox') : r <= outbox'[k].id
  BY <1>1 DEF NoNewAction
<1> QED
  BY <1>1, <1>2, <1>3, <1>4 DEF IsErased

LEMMA WholeIs ==
    ASSUME StoreTypes
    PROVE  disk.whole \subseteq Ids /\ loki.content.whole \subseteq Ids
  BY StoreIs DEF Contents

LEMMA PrefixStays ==
    ASSUME TypeOK, PrefixInv, SameCalls, NoNewWrite, NoNewAction, UNCHANGED launch,
           disk'.whole \in {disk.whole, loki.content.whole, {}},
           \/ loki'.content.whole = loki.content.whole
           \/ /\ loki'.content.whole \in {disk.whole, {}}
              /\ \A i \in Ids : IsDone(i) => IsErased(i)
    PROVE  PrefixInv'
<1>1. ASSUME NEW w \in {disk.whole, loki.content.whole, {}}
      PROVE  KeepsOrder(w)' /\ IsBehind(w)'
  <2>1. KeepsOrder(w) /\ IsBehind(w) /\ w \subseteq Ids
    BY LinkTypesAre, WholeIs DEF PrefixInv, KeepsOrder, IsBehind
  <2> QED
    BY <2>1, OrderStays, BehindStays
<1>2. PICK d : d = disk'.whole
  OBVIOUS
<1>3. PICK l : l = loki'.content.whole
  OBVIOUS
<1>4. KeepsOrder(d)' /\ IsBehind(d)' /\ KeepsOrder(l)' /\ IsBehind(l)'
  BY <1>1, <1>2, <1>3
<1>5. /\ KeepsOrder(disk.whole)' /\ IsBehind(disk.whole)'
      /\ KeepsOrder(loki.content.whole)' /\ IsBehind(loki.content.whole)'
  BY <1>2, <1>3, <1>4 DEF KeepsOrder, IsBehind
<1>6. ASSUME NEW i \in Ids, IsDone(i)' PROVE i \in loki'.content.whole \/ IsErased(i)'
  <2>1. IsDone(i)
    BY <1>6 DEF IsDone, SameCalls, NoNewWrite
  <2>2. (i \in loki.content.whole /\ loki'.content.whole = loki.content.whole) \/ IsErased(i)
    BY <2>1 DEF PrefixInv
  <2> QED
    BY <2>2, ErasedStays
<1> QED
  BY <1>5, <1>6 DEF PrefixInv

(* A step that does not touch the database. *)
LEMMA StoreSame ==
    ASSUME TypeOK, SchemaInv, HalfInv, UNCHANGED <<disk, loki, driver, options, app, launch>>,
           ResetRejected => ResetRejected', SetUpAhead' => SetUpAhead
    PROVE  StoreTypes' /\ SchemaInv' /\ HalfInv'
<1>1. StoreTypes'
  BY LinkTypesAre DEF StoreTypes
<1>2. SchemaInv'
  BY DEF SchemaInv, HasTables
<1>3. HalfInv'
  BY DEF HalfInv
<1> QED
  BY <1>1, <1>2, <1>3

LEMMA QueueShrinks ==
    ASSUME TypeOK, LinkInv, queue # <<>>, Popped(queue, queue'), outbox' = outbox
    PROVE  NoNewAction /\ (SetUpAhead' => SetUpAhead) /\ ~SetUpAhead'
<1>1. /\ ~SetUpAhead'
      /\ \A k \in 1..Len(queue') : \E j \in 1..Len(queue) : queue'[k] = queue[j]
  BY HeadLeaves
<1> QED
  BY <1>1 DEF NoNewAction

LEMMA LineSame ==
    ASSUME UNCHANGED <<queue, outbox>>
    PROVE  NoNewAction /\ (SetUpAhead' => SetUpAhead)
  BY DEF NoNewAction, SetUpAhead

LEMMA OutcomeIs ==
    ASSUME NEW id, NEW ok, Outcome(id, ok), ok => id \notin Ids \/ calls[id].kind # "write"
    PROVE  SameCalls /\ NoNewWrite /\ (ResetRejected => ResetRejected')
  BY DEF Outcome, NoNewWrite

LEMMA ZeroIs == 0 \notin Ids
  BY DEF Ids

-----------------------------------------------------------------------------
(* The invariant, step by step. *)

Parts == LinkTypes /\ StoreTypes /\ LinkInv /\ SchemaInv /\ HalfInv /\ PrefixInv

LEMMA PartsAre == LokiInv <=> Parts
  BY TypesAre DEF LokiInv, Parts

LEMMA QuietStep ==
    ASSUME LokiInv, LinkTypes', LinkInv', Outcome(0, TRUE), NoNewAction,
           SetUpAhead' => SetUpAhead, UNCHANGED <<disk, loki, driver, options, app, launch>>
    PROVE  Parts'
<1>1. SameCalls /\ NoNewWrite /\ (ResetRejected => ResetRejected')
  BY OutcomeIs, ZeroIs
<1>2. StoreTypes' /\ SchemaInv' /\ HalfInv'
  BY <1>1, StoreSame DEF LokiInv
<1>3. PrefixInv'
  BY <1>1, PrefixStays DEF LokiInv
<1> QED
  BY <1>2, <1>3 DEF Parts

LEMMA DeliverStep ==
    ASSUME LokiInv, Deliver
    PROVE  Parts'
<1>1. LinkTypes' /\ LinkInv' /\ Outcome(0, TRUE)
  BY DeliverLink DEF LokiInv
<1>2. UNCHANGED <<queue, outbox, task, disk, loki, driver, options, app, launch>>
  BY DEF Deliver, worker, store, fixed
<1> QED
  BY <1>1, <1>2, LineSame, QuietStep

LEMMA ReceiveStep ==
    ASSUME LokiInv, Receive
    PROVE  Parts'
<1>1. /\ LinkTypes' /\ LinkInv' /\ Outcome(0, TRUE)
      /\ Pushed(queue, queue', outbox[1]) /\ Popped(outbox, outbox')
  BY ReceiveLink DEF LokiInv
<1>2. UNCHANGED <<task, disk, loki, driver, options, app, launch>> /\ outbox # <<>>
  BY DEF Receive, store, fixed
<1>3. 1 \in 1..Len(outbox)
  BY <1>2, TypeIs, TailIs DEF LokiInv
<1>4. NoNewAction
  <2>1. \A k \in 1..Len(queue') : \/ \E j \in 1..Len(queue) : queue'[k] = queue[j]
                                  \/ \E j \in 1..Len(outbox) : queue'[k] = outbox[j]
    BY <1>1, <1>3 DEF Pushed
  <2>2. \A k \in 1..Len(outbox') : \E j \in 1..Len(outbox) : outbox'[k] = outbox[j]
    BY <1>1 DEF Popped
  <2> QED
    BY <2>1, <2>2 DEF NoNewAction
<1>5. SetUpAhead' => SetUpAhead
  BY SMTT(30), <1>4 DEF NoNewAction, SetUpAhead
<1> QED
  BY <1>1, <1>2, <1>4, <1>5, QuietStep

LEMMA ReturnStep ==
    ASSUME LokiInv, Return
    PROVE  Parts'
<1>1. LinkTypes' /\ LinkInv' /\ Outcome(0, TRUE)
  BY ReturnLink DEF LokiInv
<1>2. UNCHANGED <<queue, outbox, task, disk, loki, driver, options, app, launch>>
  BY DEF Return, channel, store, fixed
<1> QED
  BY <1>1, <1>2, LineSame, QuietStep

LEMMA AsyncStep ==
    ASSUME LokiInv, ExecuteAsync
    PROVE  Parts'
<1>1. LinkTypes' /\ LinkInv' /\ Outcome(0, TRUE) /\ task'.step \in {"open", "close"}
  BY AsyncLink DEF LokiInv
<1>2. UNCHANGED <<queue, outbox, disk, loki, driver, options, app, launch>>
  BY DEF ExecuteAsync, channel, store, fixed
<1> QED
  BY <1>1, <1>2, LineSame, QuietStep

(* An action is answered that has written nothing. *)
LEMMA AnswerStep ==
    ASSUME LokiInv, LinkTypes', LinkInv', queue # <<>>, NEW ok, Outcome(queue[1].id, ok),
           Popped(queue, queue'), outbox' = outbox,
           ok => queue[1].id \notin Ids \/ calls[queue[1].id].kind # "write",
           UNCHANGED <<task, disk, loki, driver, options, app, launch>>
    PROVE  Parts'
<1>1. SameCalls /\ NoNewWrite /\ (ResetRejected => ResetRejected')
  <2>1. PICK id : id = queue[1].id
    OBVIOUS
  <2> QED
    BY <2>1, OutcomeIs
<1>2. NoNewAction /\ (SetUpAhead' => SetUpAhead)
  BY QueueShrinks DEF LokiInv
<1>3. StoreTypes' /\ SchemaInv' /\ HalfInv'
  BY <1>1, <1>2, StoreSame DEF LokiInv
<1>4. PrefixInv'
  BY <1>1, <1>2, PrefixStays DEF LokiInv
<1> QED
  BY <1>3, <1>4 DEF Parts

LEMMA InsaneStep ==
    ASSUME LokiInv, ExecuteInsane
    PROVE  Parts'
<1>1. /\ LinkTypes' /\ LinkInv' /\ Popped(queue, queue') /\ outbox' = outbox
      /\ Outcome(queue[1].id, FALSE)
  BY InsaneLink DEF LokiInv
<1>2. queue # <<>>
  BY ExecuteIs DEF LokiInv, ExecuteInsane
<1>3. UNCHANGED <<task, disk, loki, driver, options, app, launch>>
  BY DEF ExecuteInsane, store, fixed
<1> QED
  BY <1>1, <1>2, <1>3, AnswerStep

LEMMA WithoutDriverStep ==
    ASSUME LokiInv, ExecuteWithoutDriver
    PROVE  Parts'
<1>1. /\ Top = "execute" /\ executing = 0 /\ OnActionDone(Head(queue), FALSE, Tail(stack))
      /\ UNCHANGED <<executing, task, disk, loki, driver, options, app, launch>>
  BY DEF ExecuteWithoutDriver, store, fixed
<1>2. /\ LinkTypes' /\ LinkInv' /\ Popped(queue, queue') /\ outbox' = outbox
      /\ Outcome(queue[1].id, FALSE)
  BY <1>1, ExecuteLink DEF LokiInv
<1>3. queue # <<>>
  BY <1>1, ExecuteIs DEF LokiInv
<1> QED
  BY <1>1, <1>2, <1>3, AnswerStep

LEMMA ReadStep ==
    ASSUME LokiInv, ExecuteRead
    PROVE  Parts'
<1>1. /\ Top = "execute" /\ executing = 0 /\ OnActionDone(Head(queue), TRUE, Tail(stack))
      /\ Head(queue).type = "read"
      /\ UNCHANGED <<executing, task, disk, loki, driver, options, app, launch>>
  BY DEF ExecuteRead, store, fixed
<1>2. /\ LinkTypes' /\ LinkInv' /\ Popped(queue, queue') /\ outbox' = outbox
      /\ Outcome(queue[1].id, TRUE)
  BY <1>1, ExecuteLink DEF LokiInv
<1>3. queue # <<>> /\ Head(queue) = queue[1] /\ IsOf(queue[1])
  BY <1>1, ExecuteIs DEF LokiInv
<1>4. queue[1].id \notin Ids \/ calls[queue[1].id].kind # "write"
  BY <1>1, <1>3, ZeroIs DEF IsOf
<1> QED
  BY <1>1, <1>2, <1>3, <1>4, AnswerStep

-----------------------------------------------------------------------------
(* Writes. *)

LEMMA WriteIs ==
    ASSUME LokiInv, Top = "execute", executing = 0, Head(queue).type = "write", driver.set
    PROVE  /\ queue # <<>> /\ Head(queue) = queue[1] /\ queue[1].id \in Ids
           /\ calls[queue[1].id].kind = "write" /\ calls[queue[1].id].launch = launch
           /\ ~SetUpAhead /\ task = NoTask
<1>1. /\ queue # <<>> /\ Head(queue) = queue[1] /\ queue[1].id \in 0..MaxCalls /\ IsOf(queue[1])
      /\ task = NoTask /\ 1 \in 1..Len(queue)
  BY ExecuteIs DEF LokiInv
<1>2. queue[1].id # 0 /\ calls[queue[1].id].kind = "write"
  BY <1>1 DEF IsOf
<1>3. queue[1].id \in Ids
  BY <1>1, <1>2, TypeIs DEF LokiInv
<1>4. calls[queue[1].id].launch = launch
  <2>1. queue[1].id = pending[Len(inbox) + 1]
    BY <1>1, Places DEF LokiInv, LinkInv
  <2>2. Len(inbox) + 1 \in 1..Len(pending)
    BY <1>1, ElementsAre DEF LokiInv, LinkInv, LineInv, Line
  <2> QED
    BY <1>2, <2>1, <2>2 DEF LokiInv, LinkInv, OrderInv
<1> QED
  BY <1>1, <1>2, <1>3, <1>4 DEF LokiInv, SchemaInv

(* A write whose turn it is follows all that have been performed. *)
LEMMA WriteAppends ==
    ASSUME LokiInv, NEW w \in Ids, queue # <<>>, queue[1].id = w,
           calls[w].kind = "write", calls[w].launch = launch,
           Popped(queue, queue'), outbox' = outbox, Outcome(w, TRUE), UNCHANGED <<disk, launch>>,
           loki'.content.whole = loki.content.whole \cup {w}
    PROVE  PrefixInv'
<1>1. 1 \in 1..Len(queue) /\ w \in Nat
  BY TypeIs, TailIs DEF LokiInv
<1>2. /\ SameCalls /\ \A i \in Ids : Performed(i)' <=> Performed(i) \/ i = w
  BY DEF Outcome
<1>3. NoNewAction
  BY QueueShrinks DEF LokiInv
<1>4. Awaits(w)'
  <2>1. PICK id : id = queue[1].id /\ Awaits(id)'
    BY HeadLeaves DEF LokiInv
  <2> QED
    BY <2>1
<1>5. \A i \in Ids : Awaits(i) => i < w
  BY <1>1 DEF Awaits
<1>6. \A i, j \in Ids : \A r \in i..j : r \in Ids
  BY LokiAssumption DEF Ids
<1>7. disk.whole \subseteq Ids /\ loki.content.whole \subseteq Ids
  BY LinkTypesAre, WholeIs DEF LokiInv
<1>8. ASSUME NEW s, s \subseteq Ids, KeepsOrder(s), IsBehind(s), NEW i \in Ids, NEW j \in Ids,
             i < j, calls[i].launch = calls[j].launch, calls[i].kind = "write",
             Performed(i) \/ i = w, \A r \in i..j : calls[r].kind # "reset", j \in s
      PROVE  i \in s
  <2>1. CASE Performed(i)
    BY <1>8, <2>1 DEF KeepsOrder
  <2>2. CASE i = w
    <3>1. Awaits(j)
      BY <1>8, <2>2 DEF IsBehind
    <3>2. j < i
      BY <1>5, <2>2, <3>1
    <3> QED
      BY <1>8, <3>2, TypeIs DEF LokiInv
  <2> QED
    BY <1>8, <2>1, <2>2
<1>9. KeepsOrder(disk.whole)'
  <2>1. PICK s : s = disk.whole /\ s = disk'.whole
    OBVIOUS
  <2> SUFFICES ASSUME NEW i \in Ids, NEW j \in Ids, i < j, calls'[i].launch = calls'[j].launch,
                      calls'[i].kind = "write", Performed(i)',
                      \A r \in i..j : calls'[r].kind # "reset", j \in disk'.whole
               PROVE  i \in disk'.whole
    BY DEF KeepsOrder
  <2>2. /\ calls[i].launch = calls[j].launch /\ calls[i].kind = "write"
        /\ Performed(i) \/ i = w
        /\ \A r \in i..j : calls[r].kind # "reset"
    BY <1>2, <1>6 DEF SameCalls
  <2>3. KeepsOrder(s) /\ IsBehind(s) /\ s \subseteq Ids /\ j \in s
    BY <1>7, <2>1 DEF LokiInv, PrefixInv, KeepsOrder, IsBehind
  <2> QED
    BY <1>8, <2>1, <2>2, <2>3
<1>10. KeepsOrder(loki.content.whole)'
  <2>1. PICK s : s = loki.content.whole /\ loki'.content.whole = s \cup {w}
    OBVIOUS
  <2> SUFFICES ASSUME NEW i \in Ids, NEW j \in Ids, i < j, calls'[i].launch = calls'[j].launch,
                      calls'[i].kind = "write", Performed(i)',
                      \A r \in i..j : calls'[r].kind # "reset", j \in loki'.content.whole
               PROVE  i \in loki'.content.whole
    BY DEF KeepsOrder
  <2>2. /\ calls[i].launch = calls[j].launch /\ calls[i].kind = "write"
        /\ Performed(i) \/ i = w
        /\ \A r \in i..j : calls[r].kind # "reset"
    BY <1>2, <1>6 DEF SameCalls
  <2>3. KeepsOrder(s) /\ IsBehind(s) /\ s \subseteq Ids
    BY <1>7, <2>1 DEF LokiInv, PrefixInv, KeepsOrder, IsBehind
  <2>4. CASE j \in s
    BY <1>8, <2>1, <2>2, <2>3, <2>4
  <2>5. CASE j = w
    <3>1. i # w
      BY <2>5, TypeIs DEF LokiInv
    <3>2. IsDone(i)
      BY <2>2, <2>5, <3>1 DEF IsDone
    <3>3. ASSUME IsErased(i) PROVE FALSE
      <4>1. PICK r \in Ids : i < r /\ calls[r].kind = "reset" /\ r <= w
        BY <1>1, <3>3 DEF IsErased
      <4>2. r \in i..j
        BY <2>5, <4>1, TypeIs DEF LokiInv
      <4> QED
        BY <2>2, <4>1, <4>2
    <3> QED
      BY <2>1, <3>2, <3>3 DEF LokiInv, PrefixInv
  <2> QED
    BY <2>1, <2>4, <2>5
<1>11. IsBehind(disk.whole)'
  <2>1. PICK s : s = disk.whole /\ s = disk'.whole
    OBVIOUS
  <2>2. IsBehind(s)
    BY <2>1 DEF LokiInv, PrefixInv, IsBehind
  <2>3. IsBehind(s)'
    BY <1>2, <1>3, <1>7, <2>1, <2>2, BehindStays
  <2> QED
    BY <2>1, <2>3 DEF IsBehind
<1>12. IsBehind(loki.content.whole)'
  <2>1. PICK s : s = loki.content.whole /\ loki'.content.whole = s \cup {w}
    OBVIOUS
  <2>2. IsBehind(s)
    BY <2>1 DEF LokiInv, PrefixInv, IsBehind
  <2>3. IsBehind(s)'
    BY <1>2, <1>3, <1>7, <2>1, <2>2, BehindStays
  <2>4. calls'[w].kind # "none"
    BY <1>2 DEF SameCalls
  <2> QED
    BY <1>4, <2>1, <2>3, <2>4 DEF IsBehind
<1>13. ASSUME NEW i \in Ids, IsDone(i)' PROVE i \in loki'.content.whole \/ IsErased(i)'
  <2>1. i = w \/ IsDone(i)
    BY <1>2, <1>13 DEF IsDone, SameCalls
  <2>2. i = w \/ i \in loki.content.whole \/ IsErased(i)
    BY <2>1 DEF LokiInv, PrefixInv
  <2> QED
    BY <1>2, <1>3, <2>2, ErasedStays
<1> QED
  BY <1>9, <1>10, <1>11, <1>12, <1>13 DEF PrefixInv

LEMMA WriteStep ==
    ASSUME LokiInv, ExecuteWrite
    PROVE  Parts'
<1>1. /\ Top = "execute" /\ executing = 0 /\ Head(queue).type = "write" /\ driver.set
      /\ loki' = IF driver.broken THEN loki
                 ELSE [loki EXCEPT !.content.whole = @ \cup {Head(queue).id}]
      /\ OnActionDone(Head(queue), ~driver.broken, Tail(stack))
      /\ UNCHANGED <<executing, task, disk, driver, options, app, launch>>
  BY DEF ExecuteWrite, fixed
<1>2. /\ queue # <<>> /\ Head(queue) = queue[1] /\ queue[1].id \in Ids
      /\ calls[queue[1].id].kind = "write" /\ calls[queue[1].id].launch = launch
      /\ ~SetUpAhead /\ task = NoTask
  BY <1>1, WriteIs
<1>3. /\ driver.broken \in BOOLEAN /\ StoreTypes /\ loki.content \in Contents
      /\ driver \in [set : BOOLEAN, broken : BOOLEAN]
  BY LinkTypesAre, StoreIs DEF LokiInv, StoreTypes
<1>4. CASE driver.broken
  <2>1. OnActionDone(Head(queue), FALSE, Tail(stack)) /\ UNCHANGED loki
    <3>1. (~driver.broken) = FALSE
      BY <1>4
    <3> QED
      BY <1>1, <1>4, <3>1
  <2>2. /\ LinkTypes' /\ LinkInv' /\ Popped(queue, queue') /\ outbox' = outbox
        /\ Outcome(queue[1].id, FALSE)
    BY <1>1, <2>1, ExecuteLink DEF LokiInv
  <2> QED
    BY <1>1, <1>2, <2>1, <2>2, AnswerStep
<1>5. CASE ~driver.broken
  <2>1. PICK w \in Ids : w = queue[1].id
    BY <1>2
  <2>2. OnActionDone(Head(queue), TRUE, Tail(stack))
    <3>1. (~driver.broken) = TRUE
      BY <1>5
    <3> QED
      BY <1>1, <3>1
  <2>3. /\ LinkTypes' /\ LinkInv' /\ Popped(queue, queue') /\ outbox' = outbox
        /\ Outcome(w, TRUE)
    BY <1>1, <2>1, <2>2, ExecuteLink DEF LokiInv
  <2>4. /\ loki' \in LokiType /\ loki'.autosave = loki.autosave
        /\ loki'.content.whole = loki.content.whole \cup {w}
        /\ loki'.content.half = loki.content.half
        /\ loki'.content.version = loki.content.version
        /\ loki'.content.tables = loki.content.tables
        /\ loki'.content.mixed = loki.content.mixed
    <3>1. loki' = [loki EXCEPT !.content.whole = @ \cup {w}]
      BY <1>1, <1>2, <1>5, <2>1
    <3> QED
      BY <1>3, <2>1, <3>1 DEF StoreTypes, LokiType, Contents
  <2>5. StoreTypes'
    BY <1>1, <1>3, <2>4 DEF StoreTypes
  <2>6. ~SetUpAhead'
    BY <1>2, <2>3, QueueShrinks DEF LokiInv
  <2>7. ResetRejected => ResetRejected'
    BY <2>3 DEF Outcome
  <2>8. SchemaInv'
    BY <1>1, <1>2, <2>4, <2>6, <2>7 DEF LokiInv, SchemaInv, HasTables, NoTask
  <2>9. HalfInv'
    BY <1>1, <2>4 DEF LokiInv, HalfInv
  <2>10. PrefixInv'
    BY <1>1, <1>2, <2>1, <2>3, <2>4, WriteAppends
  <2> QED
    BY <2>3, <2>5, <2>8, <2>9, <2>10 DEF Parts
<1> QED
  BY <1>3, <1>4, <1>5

LEMMA WriteFailsStep ==
    ASSUME LokiInv, ExecuteWriteFails
    PROVE  Parts'
<1>1. /\ Top = "execute" /\ executing = 0 /\ Head(queue).type = "write" /\ driver.set
      /\ driver' = [driver EXCEPT !.broken = options.fatal]
      /\ OnActionDone(Head(queue), FALSE, Tail(stack))
      /\ UNCHANGED <<executing, task, disk, options, app, launch>>
  BY DEF ExecuteWriteFails, fixed
<1>2. PICK left \in {{}, {Head(queue).id}} :
         loki' = [loki EXCEPT !.content.half = @ \cup left, !.autosave = SavesAfterError]
  BY DEF ExecuteWriteFails
<1>3. /\ queue # <<>> /\ Head(queue) = queue[1] /\ queue[1].id \in Ids
      /\ ~SetUpAhead /\ task = NoTask
  BY <1>1, WriteIs
<1>4. /\ StoreTypes /\ options.fatal \in BOOLEAN
      /\ loki \in LokiType
      /\ driver \in [set : BOOLEAN, broken : BOOLEAN] /\ SavesAfterError \in BOOLEAN
  <2>1. StoreTypes /\ options.fatal \in BOOLEAN
    BY LinkTypesAre, TypeIs DEF LokiInv
  <2> QED
    BY <2>1, StoreIs DEF StoreTypes, SavesAfterError
<1>5. /\ LinkTypes' /\ LinkInv' /\ Popped(queue, queue') /\ outbox' = outbox
      /\ Outcome(queue[1].id, FALSE)
  BY <1>1, ExecuteLink DEF LokiInv
<1>6. /\ loki' \in LokiType
      /\ loki'.autosave = SavesAfterError
      /\ loki'.content.whole = loki.content.whole
      /\ loki'.content.version = loki.content.version
      /\ loki'.content.tables = loki.content.tables
      /\ loki'.content.mixed = loki.content.mixed
  <2>1. left \subseteq Ids
    BY <1>3
  <2>2. PICK saves \in BOOLEAN : saves = SavesAfterError
    BY <1>4
  <2>3. loki' = [loki EXCEPT !.content.half = @ \cup left, !.autosave = saves]
    BY <1>2, <2>2
  <2> QED
    BY <1>4, <2>1, <2>2, <2>3 DEF LokiType, Contents
<1>7. driver' \in [set : BOOLEAN, broken : BOOLEAN] /\ driver'.set = driver.set
  BY <1>1, <1>4
<1>8. StoreTypes'
  BY <1>1, <1>4, <1>6, <1>7 DEF StoreTypes
<1>9. SameCalls /\ NoNewWrite /\ (ResetRejected => ResetRejected')
  <2>1. PICK id : id = queue[1].id
    OBVIOUS
  <2> QED
    BY <1>5, <2>1, OutcomeIs
<1>10. NoNewAction /\ ~SetUpAhead'
  BY <1>3, <1>5, QueueShrinks DEF LokiInv
<1>11. SchemaInv'
  BY <1>1, <1>3, <1>6, <1>7, <1>9, <1>10 DEF LokiInv, SchemaInv, HasTables, NoTask
<1>12. HalfInv'
  BY <1>1, <1>6 DEF LokiInv, HalfInv, SavesAfterError
<1>13. PrefixInv'
  BY <1>1, <1>6, <1>9, <1>10, PrefixStays DEF LokiInv
<1> QED
  BY <1>5, <1>8, <1>11, <1>12, <1>13 DEF Parts

-----------------------------------------------------------------------------
(* The set-up and the reset. *)

(* What a step of the set-up or the reset does to the line, however it goes on. *)
LEMMA TaskEffects ==
    ASSUME LokiInv, task.step # "none", NEW ok \in BOOLEAN,
           \/ stack = <<>> /\ TaskDone(ok)
           \/ \E step \in {"close", "delete", "reopen"} : GoesOn(step),
           UNCHANGED <<options, app, launch>>
    PROVE  /\ LinkTypes' /\ LinkInv' /\ SameCalls /\ NoNewWrite /\ NoNewAction
           /\ ResetRejected => ResetRejected'
           /\ SetUpAhead' => SetUpAhead
           /\ TaskDone(ok) => /\ task' = NoTask /\ ~SetUpAhead'
                              /\ ~ok /\ task.type = "reset" => ResetRejected'
<1>1. CASE stack = <<>> /\ TaskDone(ok)
  <2>1. /\ LinkTypes' /\ LinkInv' /\ task' = NoTask /\ outbox' = outbox
        /\ executing = 1 => Popped(queue, queue') /\ Outcome(queue[1].id, ok)
        /\ executing # 1 => UNCHANGED queue /\ Outcome(0, TRUE)
    BY <1>1, TaskDoneLink DEF LokiInv
  <2>2. CASE executing = 1
    <3>1. PICK id : id = queue[1].id
      OBVIOUS
    <3>2. /\ queue # <<>> /\ task.id = id /\ task.type = queue[1].type /\ IsOf(queue[1])
          /\ task.type \in {"setUp", "reset"} /\ id \in 0..MaxCalls
      BY <2>2, <3>1, TaskIs DEF LokiInv
    <3>3. id \notin Ids \/ calls[id].kind # "write"
      BY <3>1, <3>2, ZeroIs DEF IsOf
    <3>4. Outcome(id, ok)
      BY <2>1, <2>2, <3>1
    <3>5. SameCalls /\ NoNewWrite /\ (ResetRejected => ResetRejected')
      BY <3>3, <3>4, OutcomeIs
    <3>6. NoNewAction /\ ~SetUpAhead'
      BY <2>1, <2>2, <3>2, QueueShrinks DEF LokiInv
    <3>7. ASSUME ~ok, task.type = "reset" PROVE ResetRejected'
      <4>1. IsReset(id)
        BY <3>1, <3>2, <3>7 DEF IsOf, IsReset
      <4> QED
        BY <3>4, <3>7, <4>1 DEF Outcome
    <3> QED
      BY <2>1, <3>5, <3>6, <3>7
  <2>3. CASE executing # 1
    <3>1. database = "broken" /\ queue = <<>> /\ outbox = <<>>
      BY <2>3, TaskIs DEF LokiInv
    <3>2. SameCalls /\ NoNewWrite /\ (ResetRejected => ResetRejected')
      BY <2>1, <2>3, OutcomeIs, ZeroIs
    <3>3. NoNewAction /\ (SetUpAhead' => SetUpAhead)
      BY <2>1, <2>3, LineSame
    <3>4. ~SetUpAhead
      <4>1. Len(queue) = 0 /\ Len(outbox) = 0
        BY <3>1
      <4> QED
        BY <4>1 DEF SetUpAhead
    <3>5. ResetRejected
      BY <3>1 DEF ResetRejected
    <3> QED
      BY <2>1, <3>2, <3>3, <3>4, <3>5
  <2> QED
    BY <2>2, <2>3
<1>2. ASSUME NEW step \in {"close", "delete", "reopen"}, GoesOn(step)
      PROVE  /\ LinkTypes' /\ LinkInv' /\ SameCalls /\ NoNewWrite /\ NoNewAction
             /\ ResetRejected => ResetRejected'
             /\ SetUpAhead' => SetUpAhead
             /\ task'.step = step
  <2>1. /\ LinkTypes' /\ LinkInv' /\ task'.step = step /\ Outcome(0, TRUE)
        /\ UNCHANGED <<queue, outbox>>
    BY <1>2, GoesOnLink DEF LokiInv
  <2>2. SameCalls /\ NoNewWrite /\ (ResetRejected => ResetRejected')
    BY <2>1, OutcomeIs, ZeroIs
  <2> QED
    BY <2>1, <2>2, LineSame
<1>3. ASSUME NEW step \in {"close", "delete", "reopen"}, GoesOn(step) PROVE ~TaskDone(ok)
  <2>1. task'.step # "none"
    BY <1>2, <1>3
  <2> QED
    BY <2>1 DEF TaskDone, NoTask
<1> QED
  BY <1>1, <1>2, <1>3

(* Nothing of this launch is performed before its set-up is over. *)
LEMMA SetUpIsFirst ==
    ASSUME LokiInv, task.step # "none", task.type = "setUp"
    PROVE  /\ \A i \in Ids : ~IsDone(i)
           /\ SetUpAhead /\ ~driver.set /\ ~driver.broken
<1>1. executing = 1 /\ queue[1].id = 0 /\ queue # <<>>
  BY TaskIs DEF LokiInv
<1>2. 1 \in 1..Len(queue)
  BY <1>1, TypeIs, TailIs DEF LokiInv
<1>3. ASSUME NEW i \in Ids, IsDone(i) PROVE FALSE
  <2>1. Awaits(i)
    BY <1>3, PerformedIsFirst DEF LokiInv, IsDone
  <2>2. i < 0
    BY <1>1, <1>2, <2>1 DEF Awaits
  <2> QED
    BY <2>2, TypeIs DEF LokiInv
<1>4. SetUpAhead
  BY <1>1, <1>2 DEF SetUpAhead
<1> QED
  BY <1>3, <1>4 DEF LokiInv, SchemaInv

(* What was performed before a reset is erased by it. *)
LEMMA ResetErases ==
    ASSUME LokiInv, task.step # "none", task.type = "reset", NEW i \in Ids, IsDone(i)
    PROVE  IsErased(i)
<1>1. LastCall(task.id)
  BY TaskIs DEF LokiInv
<1>2. /\ task.id \in Ids /\ calls[task.id].kind = "reset" /\ i # task.id /\ ~(i > task.id)
  BY <1>1 DEF LastCall, IsDone
<1>3. i < task.id
  BY <1>2, TypeIs DEF LokiInv
<1>4. /\ \A k \in 1..Len(queue) : task.id <= queue[k].id
      /\ \A k \in 1..Len(outbox) : task.id <= outbox[k].id
  <2>1. CASE executing = 1
    <3>1. queue # <<>> /\ task.id = queue[1].id
      BY <2>1, TaskIs DEF LokiInv
    <3>2. 1 \in 1..Len(queue) /\ \A k \in 1..Len(queue) : k = 1 \/ 1 < k
      BY <3>1, TypeIs, TailIs DEF LokiInv
    <3>3. /\ \A k \in 1..Len(queue) : k = 1 \/ queue[1].id < queue[k].id
          /\ \A k \in 1..Len(outbox) : queue[1].id < outbox[k].id
      BY <3>2, Places DEF LokiInv, LinkInv
    <3>4. /\ \A k \in 1..Len(queue) : queue[k].id \in Nat
          /\ \A k \in 1..Len(outbox) : outbox[k].id \in Nat
      BY ElementsAre, TypeIs DEF LokiInv
    <3> QED
      BY <3>1, <3>2, <3>3, <3>4
  <2>2. CASE executing # 1
    <3>1. queue = <<>> /\ outbox = <<>>
      BY <2>2, TaskIs DEF LokiInv
    <3>2. Len(queue) = 0 /\ Len(outbox) = 0
      BY <3>1
    <3> QED
      BY <3>2
  <2> QED
    BY <2>1, <2>2
<1> QED
  BY <1>2, <1>3, <1>4 DEF IsErased

LEMMA OpenStep ==
    ASSUME LokiInv, Open
    PROVE  Parts'
<1>1. task.step = "open" /\ task.step # "none" /\ stack = <<>> /\ UNCHANGED <<disk, options, app, launch>>
  BY DEF Open, At, fixed
<1>2. task.type = "setUp"
  BY <1>1 DEF LokiInv, LinkInv, TaskInv
<1>3. (\A i \in Ids : ~IsDone(i)) /\ SetUpAhead /\ ~driver.set /\ ~driver.broken
  BY <1>1, <1>2, SetUpIsFirst
<1>4. /\ StoreTypes /\ disk \in Contents /\ HasTables(disk) /\ HasTables(loki.content)
      /\ Empty \in Contents /\ driver \in [set : BOOLEAN, broken : BOOLEAN]
  BY LinkTypesAre, StoreIs DEF LokiInv, StoreTypes, SchemaInv
<1>5. PICK content \in Contents, ok \in BOOLEAN :
        /\ loki' \in LokiType /\ loki'.content = content /\ HasTables(content)
        /\ content.whole \in {disk.whole, {}} /\ content.half \in {disk.half, {}}
        /\ \/ /\ TaskDone(ok) /\ driver' = [driver EXCEPT !.set = ok]
              /\ ok => /\ content.version = app.schema
                       /\ content.mixed \/ 1..app.schema \subseteq content.tables
           \/ GoesOn("close") /\ UNCHANGED driver
  <2>1. PICK memory \in GetsMemory, found \in {disk, Empty} : /\ memory \in BOOLEAN
          /\ \/ /\ found.version = app.schema /\ Opened(found, memory) /\ TaskDone(TRUE)
                /\ driver' = [driver EXCEPT !.set = TRUE]
             \/ /\ found.version \in 1..(app.schema - 1)
                /\ \E migrated \in Migrated(found) :
                     /\ Opened(migrated.content, memory)
                     /\ driver' = [driver EXCEPT !.set = migrated.ok]
                     /\ TaskDone(migrated.ok)
             \/ Opened(found, memory) /\ GoesOn("close") /\ UNCHANGED driver
    BY <1>4, LoadedIs DEF Open
  <2>2. /\ found \in Contents /\ HasTables(found)
        /\ found.whole \in {disk.whole, {}} /\ found.half \in {disk.half, {}}
    BY <1>4, EmptyIs
  <2>3. CASE found.version = app.schema /\ Opened(found, memory) /\ TaskDone(TRUE)
             /\ driver' = [driver EXCEPT !.set = TRUE]
    <3>1. loki' \in LokiType /\ loki'.content = found
      BY <1>4, <2>1, <2>2, <2>3, OpenedIs
    <3>2. found.mixed \/ 1..app.schema \subseteq found.tables
      BY <2>2, <2>3 DEF HasTables
    <3> QED
      BY <2>2, <2>3, <3>1, <3>2
  <2>4. CASE found.version \in 1..(app.schema - 1)
             /\ \E migrated \in Migrated(found) :
                  Opened(migrated.content, memory) /\ driver' = [driver EXCEPT !.set = migrated.ok]
                  /\ TaskDone(migrated.ok)
    <3>1. PICK m \in Migrated(found) : /\ Opened(m.content, memory) /\ TaskDone(m.ok)
                                       /\ driver' = [driver EXCEPT !.set = m.ok]
      BY <2>4
    <3>2. /\ m.content \in Contents /\ m.ok \in BOOLEAN /\ HasTables(m.content)
          /\ m.content.whole = found.whole /\ m.content.half = found.half
          /\ m.ok => /\ m.content.version = app.schema
                     /\ m.content.mixed \/ 1..app.schema \subseteq m.content.tables
      BY <1>4, <2>2, <2>4, MigratedIs
    <3>3. loki' \in LokiType /\ loki'.content = m.content
      BY <1>4, <2>1, <3>1, <3>2, OpenedIs
    <3> QED
      BY <2>2, <3>1, <3>2, <3>3
  <2>5. CASE Opened(found, memory) /\ GoesOn("close") /\ UNCHANGED driver
    <3>1. loki' \in LokiType /\ loki'.content = found
      BY <1>4, <2>1, <2>2, <2>5, OpenedIs
    <3> QED
      BY <2>2, <2>5, <3>1
  <2> QED
    BY <2>1, <2>3, <2>4, <2>5
<1>6. /\ LinkTypes' /\ LinkInv' /\ SameCalls /\ NoNewWrite /\ NoNewAction
      /\ SetUpAhead' => SetUpAhead
      /\ TaskDone(ok) => task' = NoTask /\ ~SetUpAhead'
  BY <1>1, <1>5, TaskEffects
<1>7. loki'.content = content
  BY <1>5
<1>8. StoreTypes'
  BY <1>1, <1>4, <1>5 DEF StoreTypes
<1>9. SchemaInv'
  <2>1. CASE TaskDone(ok) /\ driver' = [driver EXCEPT !.set = ok]
             /\ (ok => /\ content.version = app.schema
                       /\ content.mixed \/ 1..app.schema \subseteq content.tables)
    <3>1. driver'.set = ok /\ task'.step = "none" /\ ~SetUpAhead'
      BY <1>4, <1>6, <2>1 DEF NoTask
    <3> QED
      BY <1>1, <1>4, <1>5, <1>7, <2>1, <3>1 DEF SchemaInv, HasTables
  <2>2. CASE GoesOn("close") /\ UNCHANGED driver
    <3>1. task'.step = "close"
      <4>1. task' = [task EXCEPT !.step = "close"] /\ task \in Tasks
        BY <2>2, TypeIs DEF GoesOn, LokiInv
      <4> QED
        BY <4>1 DEF Tasks
    <3> QED
      BY <1>1, <1>3, <1>4, <1>5, <1>7, <2>2, <3>1 DEF SchemaInv, HasTables
  <2> QED
    BY <1>5, <2>1, <2>2
<1>10. HalfInv'
  BY <1>1, <1>5, <1>7 DEF LokiInv, HalfInv
<1>11. PrefixInv'
  <2>1. loki'.content.whole \in {disk.whole, {}} /\ disk'.whole = disk.whole
    BY <1>1, <1>5, <1>7
  <2> QED
    BY <1>1, <1>3, <1>6, <2>1, PrefixStays DEF LokiInv
<1> QED
  BY <1>6, <1>8, <1>9, <1>10, <1>11 DEF Parts

LEMMA CloseStep ==
    ASSUME LokiInv, Close
    PROVE  Parts'
<1>1. /\ task.step = "close" /\ task.step # "none"
      /\ disk' \in {Saved, disk}
      /\ loki' = [loki EXCEPT !.autosave = FALSE]
      /\ GoesOn("delete") /\ UNCHANGED <<driver, options, app, launch>>
  BY DEF Close, At, fixed
<1>2. StoreTypes /\ disk \in Contents /\ loki.content \in Contents
  BY LinkTypesAre, StoreIs DEF LokiInv
<1>3. /\ LinkTypes' /\ LinkInv' /\ SameCalls /\ NoNewWrite /\ NoNewAction
      /\ ResetRejected => ResetRejected'
      /\ SetUpAhead' => SetUpAhead
  <2>1. TRUE \in BOOLEAN /\ "delete" \in {"close", "delete", "reopen"}
    OBVIOUS
  <2> QED
    BY <1>1, <2>1, TaskEffects
<1>4. task'.step = "delete"
  BY <1>1, TypeIs DEF GoesOn, LokiInv, Tasks
<1>5. loki'.content = loki.content /\ loki'.autosave = FALSE
      /\ loki' \in LokiType
  BY <1>1, <1>2 DEF StoreTypes, LokiType
<1>6. disk' = disk \/ (loki.autosave /\ disk' = loki.content)
  BY <1>1 DEF Saved
<1>7. StoreTypes'
  BY <1>1, <1>2, <1>5, <1>6 DEF StoreTypes
<1>8. SchemaInv'
  BY <1>1, <1>3, <1>4, <1>5, <1>6 DEF LokiInv, SchemaInv, HasTables
<1>9. HalfInv'
  BY <1>1, <1>5, <1>6 DEF LokiInv, HalfInv
<1>10. PrefixInv'
  BY <1>1, <1>3, <1>5, <1>6, PrefixStays DEF LokiInv
<1> QED
  BY <1>3, <1>7, <1>8, <1>9, <1>10 DEF Parts

LEMMA DeleteStep ==
    ASSUME LokiInv, Delete
    PROVE  Parts'
<1>1. /\ task.step = "delete" /\ task.step # "none" /\ disk' \in {disk, Empty}
      /\ GoesOn("reopen") /\ UNCHANGED <<loki, driver, options, app, launch>>
  BY DEF Delete, At, fixed
<1>2. /\ StoreTypes /\ Empty \in Contents /\ Empty.whole = {} /\ Empty.half = {}
      /\ HasTables(Empty)
  BY LinkTypesAre, StoreIs, EmptyIs DEF LokiInv
<1>3. /\ LinkTypes' /\ LinkInv' /\ SameCalls /\ NoNewWrite /\ NoNewAction
      /\ ResetRejected => ResetRejected'
      /\ SetUpAhead' => SetUpAhead
  <2>1. TRUE \in BOOLEAN /\ "reopen" \in {"close", "delete", "reopen"}
    OBVIOUS
  <2> QED
    BY <1>1, <2>1, TaskEffects
<1>4. task'.step = "reopen"
  BY <1>1, TypeIs DEF GoesOn, LokiInv, Tasks
<1>5. StoreTypes'
  BY <1>1, <1>2 DEF StoreTypes
<1>6. SchemaInv'
  BY <1>1, <1>2, <1>3, <1>4 DEF LokiInv, SchemaInv, HasTables
<1>7. HalfInv'
  BY <1>1, <1>2 DEF LokiInv, HalfInv
<1>8. PrefixInv'
  BY <1>1, <1>2, <1>3, PrefixStays DEF LokiInv
<1> QED
  BY <1>3, <1>5, <1>6, <1>7, <1>8 DEF Parts

LEMMA ReopenStep ==
    ASSUME LokiInv, Reopen
    PROVE  Parts'
<1>1. /\ task.step = "reopen" /\ task.step # "none" /\ stack = <<>>
      /\ driver' = [driver EXCEPT !.set = TRUE]
      /\ TaskDone(~driver.broken) /\ UNCHANGED <<disk, options, app, launch>>
  BY DEF Reopen, At, fixed
<1>2. /\ StoreTypes /\ disk \in Contents /\ Empty \in Contents /\ driver.broken \in BOOLEAN
      /\ driver \in [set : BOOLEAN, broken : BOOLEAN] /\ HasTables(disk)
  BY LinkTypesAre, StoreIs DEF LokiInv, StoreTypes, SchemaInv
<1>3. PICK ok \in BOOLEAN : ok = ~driver.broken
  BY <1>2
<1>4. PICK content \in Contents :
        /\ loki' \in LokiType /\ loki'.content = content /\ HasTables(content)
        /\ content.whole \in {disk.whole, {}} /\ content.half \in {disk.half, {}}
        /\ content.mixed \/ 1..app.schema \subseteq content.tables
        /\ ok => content.version = app.schema
  <2>1. PICK memory \in GetsMemory, found \in {disk, Empty} :
          memory \in BOOLEAN /\ \E content \in SchemaSetUp(found) : Opened(content, memory)
    BY <1>2, LoadedIs DEF Reopen
  <2>2. PICK content \in SchemaSetUp(found) : Opened(content, memory)
    BY <2>1
  <2>3. /\ found \in Contents /\ HasTables(found)
        /\ found.whole \in {disk.whole, {}} /\ found.half \in {disk.half, {}}
    BY <1>2, EmptyIs
  <2>4. /\ content \in Contents /\ HasTables(content)
        /\ content.whole = found.whole /\ content.half = found.half
        /\ content.mixed \/ 1..app.schema \subseteq content.tables
        /\ ok => content.version = app.schema
    BY <1>2, <1>3, <2>3, SchemaSetUpIs
  <2>5. loki' \in LokiType /\ loki'.content = content
    BY <1>2, <2>1, <2>2, <2>4, OpenedIs
  <2> QED
    BY <2>3, <2>4, <2>5
<1>5. /\ LinkTypes' /\ LinkInv' /\ SameCalls /\ NoNewWrite /\ NoNewAction
      /\ task' = NoTask /\ ~SetUpAhead'
      /\ ~ok /\ task.type = "reset" => ResetRejected'
  BY <1>1, <1>3, TaskEffects
<1>6. task.type = "setUp" \/ task.type = "reset"
  BY <1>1, TaskIs DEF LokiInv
<1>7. task.type = "setUp" => ok
  BY <1>1, <1>3, SetUpIsFirst
<1>8. driver' \in [set : BOOLEAN, broken : BOOLEAN] /\ driver'.set = TRUE
  BY <1>1, <1>2
<1>9. StoreTypes'
  BY <1>1, <1>2, <1>4, <1>8 DEF StoreTypes
<1>10. SchemaInv'
  <2>1. HasTables(disk)' /\ HasTables(loki.content)'
    BY <1>1, <1>2, <1>4 DEF HasTables
  <2>2. loki'.content.version = app.schema \/ ResetRejected'
    BY <1>4, <1>5, <1>6, <1>7
  <2> QED
    BY <1>1, <1>4, <1>5, <2>1, <2>2 DEF SchemaInv
<1>11. HalfInv'
  BY <1>1, <1>4 DEF LokiInv, HalfInv
<1>12. PrefixInv'
  <2>1. ASSUME NEW i \in Ids, IsDone(i) PROVE IsErased(i)
    <3>1. task.type = "reset"
      BY <1>1, <1>6, <2>1, SetUpIsFirst
    <3> QED
      BY <1>1, <2>1, <3>1, ResetErases
  <2>2. loki'.content.whole \in {disk.whole, {}} /\ disk'.whole = disk.whole
    BY <1>1, <1>4
  <2> QED
    BY <1>1, <1>5, <2>1, <2>2, PrefixStays DEF LokiInv
<1> QED
  BY <1>5, <1>9, <1>10, <1>11, <1>12 DEF Parts

LEMMA IndexedDBFailsStep ==
    ASSUME LokiInv, IndexedDBFails
    PROVE  Parts'
<1>1. /\ task.step # "none" /\ stack = <<>> /\ TaskDone(FALSE)
      /\ UNCHANGED <<disk, loki, driver, options, app, launch>>
  BY DEF IndexedDBFails, store, fixed
<1>2. /\ LinkTypes' /\ LinkInv' /\ SameCalls /\ NoNewWrite /\ NoNewAction
      /\ ResetRejected => ResetRejected'
      /\ SetUpAhead' => SetUpAhead
      /\ task' = NoTask
  BY <1>1, TaskEffects
<1>3. task'.step = "none"
  BY <1>2 DEF NoTask
<1>4. StoreTypes' /\ SchemaInv' /\ HalfInv'
  BY <1>1, <1>2, <1>3, StoreSame DEF LokiInv
<1>5. PrefixInv'
  BY <1>1, <1>2, PrefixStays DEF LokiInv
<1> QED
  BY <1>2, <1>4, <1>5 DEF Parts

LEMMA AutosaveStep ==
    ASSUME LokiInv, Autosave
    PROVE  Parts'
<1>1. /\ loki.autosave /\ disk' = loki.content
      /\ UNCHANGED <<loki, driver, options, app, launch>>
      /\ UNCHANGED <<queue, executing, stack, task, inbox, outbox, pending, calls, database>>
  BY DEF Autosave, Saved, worker, channel, app_, fixed
<1>2. LinkTypes'
  BY <1>1, LinkTypesAre DEF LokiInv, LinkTypes
<1>3. LinkInv'
  BY <1>1 DEF LokiInv, LinkInv, LineInv, OrderInv, KindInv, IsOf, ResetInv, LastCall,
              ChannelInv, StackInv, Called, Top, TaskInv
<1>4. StoreTypes'
  BY <1>1, LinkTypesAre, StoreIs DEF LokiInv, StoreTypes
<1>5. SchemaInv'
  BY <1>1 DEF LokiInv, SchemaInv, HasTables, ResetRejected, SetUpAhead
<1>6. HalfInv'
  BY <1>1 DEF LokiInv, HalfInv
<1>7. PrefixInv'
  <2>1. SameCalls /\ NoNewWrite
    BY <1>1, Quiet, OutcomeIs, ZeroIs
  <2>2. NoNewAction
    BY <1>1, LineSame
  <2> QED
    BY <1>1, <2>1, <2>2, PrefixStays DEF LokiInv
<1> QED
  BY <1>2, <1>3, <1>4, <1>5, <1>6, <1>7 DEF Parts

-----------------------------------------------------------------------------
(* Calls and launches. *)

LEMMA CallStep ==
    ASSUME LokiInv, NEW kind \in Kinds, Call(kind)
    PROVE  Parts'
<1>1. PICK id \in Ids :
        /\ calls[id].kind = "none" /\ \A i \in Ids : i < id <=> calls[i].kind # "none"
        /\ calls' = [calls EXCEPT ![id] = [kind |-> kind, status |-> "sent", launch |-> launch]]
        /\ database = "working"
        /\ database' = IF kind = "reset" THEN "resetting" ELSE database
        /\ Action(id, kind) \in Actions
        /\ IF options.webWorker
           THEN outbox' = Append(outbox, Action(id, kind)) /\ UNCHANGED <<queue, stack>>
           ELSE OnMessage(Action(id, kind)) /\ UNCHANGED outbox
        /\ UNCHANGED <<executing, task, inbox, disk, loki, driver, options, app, launch>>
  BY CallIs DEF LokiInv
<1>2. LinkTypes' /\ LinkInv'
  BY CallLink DEF LokiInv
<1>3. /\ \A i \in Ids : i # id => calls'[i] = calls[i]
      /\ calls'[id].kind = kind /\ calls'[id].status = "sent" /\ calls'[id].launch = launch
  BY <1>1, TypeIs DEF LokiInv
<1>4. StoreTypes'
  BY <1>1, LinkTypesAre DEF LokiInv, StoreTypes
<1>5. /\ \A k \in 1..Len(queue') : \/ \E j \in 1..Len(queue) : queue'[k] = queue[j]
                                   \/ queue'[k].id = id
      /\ \A k \in 1..Len(outbox') : \/ \E j \in 1..Len(outbox) : outbox'[k] = outbox[j]
                                    \/ outbox'[k].id = id
  <2>1. PICK action \in Actions : action = Action(id, kind) /\ action.id = id
    BY <1>1 DEF Action
  <2>2. queue \in Seq(Actions) /\ outbox \in Seq(Actions)
    BY TypeIs DEF LokiInv
  <2>3. CASE options.webWorker
    <3>1. outbox' = Append(outbox, action) /\ queue' = queue
      BY <1>1, <2>1, <2>3
    <3>2. Pushed(outbox, outbox', action)
      BY <2>2, <3>1, AppendIs
    <3> QED
      BY <2>1, <3>1, <3>2 DEF Pushed
  <2>4. CASE ~options.webWorker
    <3>1. queue' = Append(queue, action) /\ outbox' = outbox
      BY <1>1, <2>1, <2>4 DEF OnMessage
    <3>2. Pushed(queue, queue', action)
      BY <2>2, <3>1, AppendIs
    <3> QED
      BY <2>1, <3>1, <3>2 DEF Pushed
  <2> QED
    BY <2>3, <2>4
<1>6. SchemaInv'
  <2>1. ~ResetRejected
    BY <1>1 DEF ResetRejected
  <2>2. SetUpAhead' => SetUpAhead
    <3>1. id # 0
      BY ZeroIs
    <3> QED
      BY <1>5, <3>1 DEF SetUpAhead
  <2> QED
    BY <1>1, <2>1, <2>2 DEF LokiInv, SchemaInv, HasTables
<1>7. HalfInv'
  BY <1>1 DEF LokiInv, HalfInv
<1>8. \A i \in Ids : Performed(i)' => Performed(i) /\ i # id
  <2>1. ASSUME NEW i \in Ids, Performed(i)' PROVE Performed(i) /\ i # id
    <3>1. CASE i = id
      <4>1. PICK k \in 1..Len(inbox) : inbox[k].id = id
        BY <1>1, <1>3, <2>1, <3>1 DEF Performed
      <4>2. pending[k] = id /\ k \in 1..Len(pending)
        BY <4>1, ElementsAre DEF LokiInv, LinkInv, LineInv, Line
      <4>3. calls[id].status = "sent"
        BY <4>2, ZeroIs DEF LokiInv, LinkInv, OrderInv
      <4> QED
        BY <1>1, <4>3 DEF LokiInv, LinkInv, OrderInv
    <3>2. CASE i # id
      BY <1>1, <1>3, <2>1, <3>2 DEF Performed
    <3> QED
      BY <3>1, <3>2
  <2> QED
    BY <2>1
<1>9. \A i, j \in Ids : \A r \in i..j : r \in Ids
  BY LokiAssumption DEF Ids
<1>10. ASSUME NEW w, w \subseteq Ids, KeepsOrder(w), IsBehind(w)
       PROVE  KeepsOrder(w)' /\ IsBehind(w)'
  <2>1. id \notin w
    BY <1>1, <1>10 DEF IsBehind
  <2>2. ASSUME NEW i \in Ids, NEW j \in Ids, i < j, calls'[i].launch = calls'[j].launch,
               calls'[i].kind = "write", Performed(i)',
               \A r \in i..j : calls'[r].kind # "reset", j \in w
        PROVE  i \in w
    <3>1. Performed(i) /\ i # id /\ j # id
      BY <1>8, <2>1, <2>2
    <3>2. /\ calls[i].launch = calls[j].launch /\ calls[i].kind = "write"
          /\ \A r \in i..j : calls[r].kind # "reset"
      BY <1>1, <1>3, <1>9, <2>2, <3>1
    <3> QED
      BY <1>10, <2>2, <3>1, <3>2 DEF KeepsOrder
  <2>3. ASSUME NEW i \in w
        PROVE  calls'[i].kind # "none" /\ (calls'[i].launch = launch => Awaits(i)')
    <3>1. i \in Ids /\ i # id /\ calls'[i] = calls[i]
      BY <1>3, <1>10, <2>1
    <3>2. calls[i].kind # "none" /\ (calls[i].launch = launch => Awaits(i))
      BY <1>10 DEF IsBehind
    <3>3. i < id
      BY <1>1, <3>1, <3>2
    <3>4. Awaits(i) => Awaits(i)'
      BY <1>5, <3>3 DEF Awaits
    <3> QED
      BY <3>1, <3>2, <3>4
  <2>4. KeepsOrder(w)'
    BY <2>2 DEF KeepsOrder
  <2>5. IsBehind(w)'
    BY <1>1, <2>3 DEF IsBehind
  <2> QED
    BY <2>4, <2>5
<1>11. PrefixInv'
  <2>1. disk.whole \subseteq Ids /\ loki.content.whole \subseteq Ids
    BY LinkTypesAre, WholeIs DEF LokiInv
  <2>2. PICK d : d = disk.whole /\ d = disk'.whole
    BY <1>1
  <2>3. PICK l : l = loki.content.whole /\ l = loki'.content.whole
    BY <1>1
  <2>4. KeepsOrder(d) /\ IsBehind(d) /\ KeepsOrder(l) /\ IsBehind(l)
    BY <2>2, <2>3 DEF LokiInv, PrefixInv, KeepsOrder, IsBehind
  <2>5. KeepsOrder(d)' /\ IsBehind(d)' /\ KeepsOrder(l)' /\ IsBehind(l)'
    BY <1>10, <2>1, <2>2, <2>3, <2>4
  <2>6. ASSUME NEW i \in Ids, IsDone(i)' PROVE i \in loki'.content.whole \/ IsErased(i)'
    <3>1. IsDone(i)
      BY <1>1, <1>3, <1>8, <2>6 DEF IsDone
    <3>2. ASSUME IsErased(i) PROVE IsErased(i)'
      <4>1. PICK r \in Ids : /\ i < r /\ calls[r].kind = "reset"
                             /\ \A k \in 1..Len(queue) : r <= queue[k].id
                             /\ \A k \in 1..Len(outbox) : r <= outbox[k].id
        BY <3>2 DEF IsErased
      <4>2. r < id /\ r # id /\ calls'[r].kind = "reset"
        BY <1>1, <1>3, <4>1
      <4>3. r <= id
        BY <4>2, TypeIs DEF LokiInv
      <4>4. /\ \A k \in 1..Len(queue') : r <= queue'[k].id
            /\ \A k \in 1..Len(outbox') : r <= outbox'[k].id
        BY <1>5, <4>1, <4>3
      <4> QED
        BY <4>1, <4>2, <4>4 DEF IsErased
    <3> QED
      BY <1>1, <3>1, <3>2 DEF LokiInv, PrefixInv
  <2> QED
    BY <2>2, <2>3, <2>5, <2>6 DEF PrefixInv, KeepsOrder, IsBehind
<1> QED
  BY <1>2, <1>4, <1>6, <1>7, <1>11 DEF Parts

(* The state in which a launch begins. *)
Fresh ==
    /\ loki = [content |-> Empty, autosave |-> FALSE, memory |-> FALSE]
    /\ driver = [set |-> FALSE, broken |-> FALSE]
    /\ executing = 0 /\ task = NoTask /\ inbox = <<>> /\ pending = <<0>>
    /\ database = "working"
    /\ outbox = (IF options.webWorker THEN <<Action(0, "setUp")>> ELSE <<>>)
    /\ queue = (IF options.webWorker THEN <<>> ELSE <<Action(0, "setUp")>>)
    /\ stack = (IF options.webWorker THEN <<>> ELSE <<"execute">>)

(* The calls of earlier launches. *)
AllOver ==
    \A id \in Ids : /\ calls[id].kind = "none" <=> calls[id].status = "none"
                    /\ calls[id].kind = "none" => calls[id].launch = 0
                    /\ calls[id].launch < launch
                    /\ \A j \in Ids : id < j /\ calls[id].kind = "none" => calls[j].kind = "none"

LEMMA FreshFits ==
    (/\ Fresh /\ AllOver /\ calls \in [Ids -> CallType] /\ StoreTypes /\ HasTables(disk)
     /\ options.fatal => disk.half = {}
     /\ KeepsOrder(disk.whole) /\ \A i \in disk.whole : calls[i].kind # "none")
      => Parts
<1> SUFFICES ASSUME Fresh, AllOver, calls \in [Ids -> CallType], StoreTypes, HasTables(disk),
                    options.fatal => disk.half = {}, KeepsOrder(disk.whole),
                    \A i \in disk.whole : calls[i].kind # "none"
             PROVE  Parts
  OBVIOUS
<1> DEFINE a == Action(0, "setUp")
<1>1. /\ a \in Actions /\ a.id = 0 /\ a.type = "setUp"
      /\ <<a>> \in Seq(Actions) /\ Len(<<a>>) = 1 /\ <<a>>[1] = a /\ <<a>> # <<>>
      /\ <<>> \in Seq(Actions) /\ <<>> \in Seq(Responses) /\ <<>> \in Seq(Frames)
  BY LokiAssumption DEF Action, Actions
<1>2. /\ <<0>> \in Seq(0..MaxCalls) /\ Len(<<0>>) = 1 /\ <<0>>[1] = 0
      /\ <<"execute">> \in Seq(Frames) /\ Len(<<"execute">>) = 1 /\ <<"execute">>[1] = "execute"
      /\ <<"execute">> # <<>> /\ Head(<<"execute">>) = "execute"
  BY LokiAssumption DEF Frames
<1> HIDE DEF a
<1>3. /\ outbox = (IF options.webWorker THEN <<a>> ELSE <<>>)
      /\ queue = (IF options.webWorker THEN <<>> ELSE <<a>>)
      /\ stack = (IF options.webWorker THEN <<>> ELSE <<"execute">>)
      /\ executing = 0 /\ task = NoTask /\ inbox = <<>> /\ pending = <<0>>
      /\ database = "working" /\ Len(inbox) = 0
  BY DEF Fresh, a
<1>4. ASSUME options.webWorker
      PROVE  /\ queue \in Seq(Actions) /\ outbox \in Seq(Actions) /\ stack \in Seq(Frames)
             /\ LineInv /\ KindInv /\ ChannelInv /\ StackInv
  <2>1. outbox = <<a>> /\ queue = <<>> /\ stack = <<>> /\ Len(queue) = 0 /\ Len(stack) = 0
    BY <1>3, <1>4
  <2>2. LineInv
    BY <1>1, <1>2, <1>3, <2>1 DEF LineInv, Line
  <2>3. KindInv
    BY <1>1, <2>1 DEF KindInv, IsOf
  <2>4. ChannelInv /\ StackInv
    BY <1>4, <2>1 DEF ChannelInv, StackInv, Top
  <2> QED
    BY <1>1, <2>1, <2>2, <2>3, <2>4
<1>5. ASSUME ~options.webWorker
      PROVE  /\ queue \in Seq(Actions) /\ outbox \in Seq(Actions) /\ stack \in Seq(Frames)
             /\ LineInv /\ KindInv /\ ChannelInv /\ StackInv
  <2>1. outbox = <<>> /\ queue = <<a>> /\ stack = <<"execute">> /\ Len(outbox) = 0
    BY <1>3, <1>5
  <2>2. LineInv
    BY <1>1, <1>2, <1>3, <2>1 DEF LineInv, Line
  <2>3. KindInv
    BY <1>1, <2>1 DEF KindInv, IsOf
  <2>4. ChannelInv /\ StackInv
    BY <1>1, <1>2, <1>3, <2>1 DEF ChannelInv, StackInv, Top
  <2> QED
    BY <1>1, <1>2, <2>1, <2>2, <2>3, <2>4
<1>6. LinkTypes
  <2>1. NoTask \in Tasks
    BY LokiAssumption DEF NoTask, Tasks
  <2> QED
    BY <1>1, <1>2, <1>3, <1>4, <1>5, <2>1 DEF LinkTypes
<1>7. Ids \subseteq Nat \ {0} /\ launch \in Nat /\ \A id \in Ids : calls[id].launch \in Nat
  BY LokiAssumption DEF Ids, StoreTypes, CallType
<1>8. \A id \in Ids : calls[id].launch # launch /\ calls[id].launch <= launch
  BY <1>7 DEF AllOver
<1>9. OrderInv
  <2>1. \A k, l \in 1..Len(pending) : k < l => pending[k] < pending[l]
    BY <1>2, <1>3
  <2>2. \A k \in 1..Len(pending) : pending[k] = 0
    BY <1>2, <1>3
  <2> QED
    BY <1>8, <2>1, <2>2 DEF OrderInv, AllOver
<1>10. ResetInv /\ TaskInv
  BY <1>2, <1>3 DEF ResetInv, TaskInv, NoTask
<1>11. LinkInv
  BY <1>4, <1>5, <1>9, <1>10 DEF LinkInv
<1>12. /\ loki.content = Empty /\ ~loki.autosave /\ ~driver.set /\ ~driver.broken
       /\ Empty.whole = {} /\ HasTables(Empty) /\ task.step = "none"
  BY DEF Fresh, Empty, HasTables, NoTask
<1>13. SchemaInv /\ HalfInv
  BY <1>12 DEF SchemaInv, HalfInv
<1>14. \A i \in Ids : ~IsDone(i)
  BY <1>8 DEF IsDone
<1>15. disk.whole \subseteq Ids
  BY WholeIs
<1>16. IsBehind(disk.whole)
  BY <1>8, <1>15 DEF IsBehind
<1>17. KeepsOrder(loki.content.whole) /\ IsBehind(loki.content.whole)
  BY <1>12 DEF KeepsOrder, IsBehind
<1>18. PrefixInv
  BY <1>14, <1>16, <1>17 DEF PrefixInv
<1> QED
  BY <1>6, <1>11, <1>13, <1>18 DEF Parts

LEMMA InitFits ==
    ASSUME Init
    PROVE  LokiInv
<1>1. calls = [id \in Ids |-> [kind |-> "none", status |-> "none", launch |-> 0]]
  BY DEF Init
<1>2. 0 \in 0..MaxLaunches /\ 1 \in 1..MaxLaunches
  BY LokiAssumption
<1>3. calls \in [Ids -> CallType] /\ AllOver
  <2>1. [kind |-> "none", status |-> "none", launch |-> 0] \in CallType
    BY <1>2 DEF CallType
  <2>2. calls \in [Ids -> CallType]
    BY <1>1, <2>1
  <2>3. launch = 1
    BY DEF Init
  <2> QED
    BY <1>1, <2>2, <2>3 DEF AllOver
<1>4. /\ disk = Empty /\ Empty \in Contents /\ HasTables(Empty) /\ Empty.whole = {}
      /\ Empty.half = {}
  BY LokiAssumption DEF Init, Empty, Contents, HasTables
<1>5. StoreTypes
  BY <1>2, <1>4 DEF Init, StoreTypes, LokiType
<1>6. Fresh
  BY DEF Init, Fresh
<1>7. KeepsOrder(disk.whole)
  BY <1>4 DEF KeepsOrder
<1> QED
  BY <1>3, <1>4, <1>5, <1>6, <1>7, FreshFits, PartsAre

LEMMA CrashStep ==
    ASSUME LokiInv, Crash
    PROVE  Parts'
<1>1. /\ launch < MaxLaunches /\ launch' = launch + 1 /\ app' \in Apps
      /\ Launched(options.webWorker)
      /\ calls' = [id \in Ids |-> IF calls[id].status = "sent"
                                  THEN [calls[id] EXCEPT !.status = "lost"] ELSE calls[id]]
      /\ options' = options /\ disk' = disk
  BY DEF Crash
<1>2. StoreTypes /\ launch \in Nat /\ MaxLaunches \in Nat /\ Empty \in Contents
      /\ launch \in 1..MaxLaunches
  BY LinkTypesAre, StoreIs, LokiAssumption DEF LokiInv, StoreTypes
<1>3. calls \in [Ids -> CallType]
  BY TypeIs DEF LokiInv
<1>4. ASSUME NEW id \in Ids
      PROVE  /\ calls'[id] \in CallType /\ calls'[id].kind = calls[id].kind
             /\ calls'[id].launch = calls[id].launch
             /\ calls'[id].status = IF calls[id].status = "sent" THEN "lost"
                                    ELSE calls[id].status
  <2>1. /\ calls[id] \in CallType
        /\ calls'[id] = IF calls[id].status = "sent" THEN [calls[id] EXCEPT !.status = "lost"]
                        ELSE calls[id]
    BY <1>1, <1>3
  <2> QED
    BY <2>1 DEF CallType
<1>5. calls' \in [Ids -> CallType]
  BY <1>1, <1>4
<1>6. AllOver'
  <2>1. ASSUME NEW id \in Ids PROVE calls[id].launch <= launch /\ calls[id].launch \in Nat
    BY <1>3, LokiAssumption DEF LokiInv, LinkInv, OrderInv, CallType
  <2>2. ASSUME NEW id \in Ids PROVE calls'[id].launch < launch'
    BY <1>1, <1>2, <1>4, <2>1
  <2>3. ASSUME NEW id \in Ids
        PROVE  /\ calls'[id].kind = "none" <=> calls'[id].status = "none"
               /\ calls'[id].kind = "none" => calls'[id].launch = 0
    BY <1>4 DEF LokiInv, LinkInv, OrderInv
  <2>4. \A id, j \in Ids : id < j /\ calls'[id].kind = "none" => calls'[j].kind = "none"
    BY <1>4 DEF LokiInv, LinkInv, OrderInv
  <2> QED
    BY <2>2, <2>3, <2>4 DEF AllOver
<1>7. Fresh'
  BY <1>1 DEF Launched, Fresh
<1>8. StoreTypes'
  BY <1>1, <1>2 DEF Launched, StoreTypes, LokiType
<1>9. HasTables(disk)' /\ (options.fatal => disk.half = {})'
  BY <1>1 DEF LokiInv, SchemaInv, HalfInv, HasTables
<1>10. KeepsOrder(disk.whole)'
  <2>1. SameCalls
    BY <1>4 DEF SameCalls
  <2>2. NoNewWrite
    <3>1. ASSUME NEW i \in Ids, Performed(i)' PROVE Performed(i)
      <4>1. inbox' = <<>>
        BY <1>1 DEF Launched
      <4>2. Len(inbox') = 0
        BY <4>1
      <4>3. calls'[i].status = "ok"
        BY <3>1, <4>2 DEF Performed
      <4> QED
        BY <1>4, <4>3 DEF Performed
    <3> QED
      BY <3>1 DEF NoNewWrite
  <2>3. PICK w : w = disk.whole /\ w = disk'.whole
    BY <1>1
  <2>4. KeepsOrder(w)
    BY <2>3 DEF LokiInv, PrefixInv, KeepsOrder
  <2>5. KeepsOrder(w)'
    BY <2>1, <2>2, <2>4, OrderStays
  <2> QED
    BY <2>3, <2>5 DEF KeepsOrder
<1>11. \A i \in disk'.whole : calls'[i].kind # "none"
  <2>1. disk.whole \subseteq Ids
    BY <1>2, WholeIs
  <2> QED
    BY <1>1, <1>4, <2>1 DEF LokiInv, PrefixInv, IsBehind
<1>12. (/\ Fresh /\ AllOver /\ calls \in [Ids -> CallType] /\ StoreTypes /\ HasTables(disk)
        /\ options.fatal => disk.half = {}
        /\ KeepsOrder(disk.whole) /\ \A i \in disk.whole : calls[i].kind # "none")'
  BY <1>5, <1>6, <1>7, <1>8, <1>9, <1>10, <1>11
<1> QED
  BY <1>12, FreshFits, PTL

-----------------------------------------------------------------------------
(* All actions. *)

LEMMA LokiStep ==
    ASSUME LokiInv, [Next]_vars
    PROVE  LokiInv'
<1>1. CASE Next
  <2>1. Parts'
    BY <1>1, ReceiveStep, DeliverStep, ReturnStep, InsaneStep, AsyncStep, WithoutDriverStep,
       ReadStep, WriteStep, WriteFailsStep, OpenStep, CloseStep, DeleteStep, ReopenStep,
       IndexedDBFailsStep, AutosaveStep, CrashStep, CallStep
    DEF Next, Execute, Asynchronous
  <2> QED
    BY <2>1, PartsAre, PTL
<1>2. CASE UNCHANGED vars
  BY SMTT(30), <1>2 DEF vars, LokiInv, TypeOK, LinkInv, LineInv, OrderInv, KindInv, IsOf, ResetInv, LastCall,
     ChannelInv, StackInv, Called, Top, TaskInv, SchemaInv, HasTables, ResetRejected, SetUpAhead,
     HalfInv, PrefixInv, KeepsOrder, Performed, IsBehind, Awaits, IsDone, IsErased
<1> QED
  BY <1>1, <1>2

LEMMA LokiAlways == Spec => []LokiInv
<1>1. Init => LokiInv
  BY InitFits
<1>2. LokiInv /\ [Next]_vars => LokiInv'
  BY LokiStep
<1> QED
  BY <1>1, <1>2, PTL DEF Spec

(* Every variable has its type. *)
THEOREM TypeCorrect == Spec => []TypeOK
<1>1. LokiInv => TypeOK
  BY DEF LokiInv
<1> QED
  BY <1>1, LokiAlways, PTL

(* The dispatcher gives every response to the call that it is for: what it waits for is
   on its way in the same order, whether the worker answers by message or by calling
   it back from the middle of an action.                                     *)
THEOREM ResponsesAreInOrder == Spec => []ResponsesInOrder
<1>1. LokiInv => ResponsesInOrder
  <2> SUFFICES ASSUME LokiInv PROVE ResponsesInOrder
    OBVIOUS
  <2> DEFINE i == [k \in 1..Len(inbox) |-> inbox[k].id]
             q == [k \in 1..Len(queue) |-> queue[k].id]
             o == [k \in 1..Len(outbox) |-> outbox[k].id]
  <2>1. /\ Len(inbox) \in Nat /\ Len(queue) \in Nat /\ Len(outbox) \in Nat
        /\ pending \in Seq(0..MaxCalls)
        /\ \A k \in 1..Len(inbox) : inbox[k].id \in 0..MaxCalls
        /\ \A k \in 1..Len(queue) : queue[k].id \in 0..MaxCalls
        /\ \A k \in 1..Len(outbox) : outbox[k].id \in 0..MaxCalls
    BY ElementsAre, TypeIs DEF LokiInv
  <2>2. /\ i \in Seq(0..MaxCalls) /\ Len(i) = Len(inbox)
        /\ \A k \in 1..Len(inbox) : i[k] = inbox[k].id
    BY <2>1
  <2>3. /\ q \in Seq(0..MaxCalls) /\ Len(q) = Len(queue)
        /\ \A k \in 1..Len(queue) : q[k] = queue[k].id
    BY <2>1
  <2>4. /\ o \in Seq(0..MaxCalls) /\ Len(o) = Len(outbox)
        /\ \A k \in 1..Len(outbox) : o[k] = outbox[k].id
    BY <2>1
  <2> HIDE DEF i, q, o
  <2>5. PICK iq :
        /\ iq = i \o q /\ iq \in Seq(0..MaxCalls) /\ Len(iq) = Len(i) + Len(q)
        /\ \A k \in 1..Len(i) : iq[k] = i[k]
        /\ \A k \in (Len(i) + 1)..(Len(i) + Len(q)) : iq[k] = q[k - Len(i)]
    <3>1. /\ i \o q \in Seq(0..MaxCalls) /\ Len(i \o q) = Len(i) + Len(q)
          /\ \A k \in 1..Len(i) : (i \o q)[k] = i[k]
          /\ \A k \in (Len(i) + 1)..(Len(i) + Len(q)) : (i \o q)[k] = q[k - Len(i)]
      <4>1. i \in Seq(0..MaxCalls) /\ q \in Seq(0..MaxCalls)
        BY <2>2, <2>3
      <4> QED
        BY ONLY <4>1, ConcatIs
    <3> QED
      BY ONLY <3>1
  <2>6. PICK all :
        /\ all = iq \o o /\ all \in Seq(0..MaxCalls) /\ Len(all) = Len(iq) + Len(o)
        /\ \A k \in 1..Len(iq) : all[k] = iq[k]
        /\ \A k \in (Len(iq) + 1)..(Len(iq) + Len(o)) : all[k] = o[k - Len(iq)]
    <3>1. /\ iq \o o \in Seq(0..MaxCalls) /\ Len(iq \o o) = Len(iq) + Len(o)
          /\ \A k \in 1..Len(iq) : (iq \o o)[k] = iq[k]
          /\ \A k \in (Len(iq) + 1)..(Len(iq) + Len(o)) : (iq \o o)[k] = o[k - Len(iq)]
      <4>1. iq \in Seq(0..MaxCalls) /\ o \in Seq(0..MaxCalls)
        BY <2>4, <2>5
      <4> QED
        BY ONLY <4>1, ConcatIs
    <3> QED
      BY ONLY <3>1
  <2>7. Len(pending) = Len(inbox) + Len(queue) + Len(outbox)
    BY DEF LokiInv, LinkInv, LineInv, Line
  <2>8. Len(all) = Len(pending)
    BY <2>1, <2>2, <2>3, <2>4, <2>5, <2>6, <2>7
  <2>9. ASSUME NEW k \in 1..Len(pending) PROVE all[k] = pending[k]
    <3>1. CASE k \in 1..Len(inbox)
      <4>1. k \in 1..Len(iq) /\ k \in 1..Len(i)
        BY <2>1, <2>2, <2>3, <2>5, <3>1
      <4> QED
        BY <2>2, <2>5, <2>6, <3>1, <4>1 DEF LokiInv, LinkInv, LineInv, Line
    <3>2. CASE k \in (Len(inbox) + 1)..(Len(inbox) + Len(queue))
      <4>1. /\ k \in 1..Len(iq) /\ k \in (Len(i) + 1)..(Len(i) + Len(q))
            /\ k - Len(inbox) \in 1..Len(queue) /\ Len(inbox) + (k - Len(inbox)) = k
        BY <2>1, <2>2, <2>3, <2>5, <3>2
      <4>2. all[k] = queue[k - Len(inbox)].id
        BY ZenonT(60), <2>2, <2>3, <2>5, <2>6, <4>1
      <4>3. queue[k - Len(inbox)].id = pending[Len(inbox) + (k - Len(inbox))]
        BY <4>1 DEF LokiInv, LinkInv, LineInv, Line
      <4> QED
        BY <4>1, <4>2, <4>3
    <3>3. CASE k \in (Len(inbox) + Len(queue) + 1)..Len(pending)
      <4> DEFINE l == k - (Len(inbox) + Len(queue))
      <4>1. /\ l \in 1..Len(outbox) /\ Len(inbox) + Len(queue) + l = k
            /\ k \in (Len(iq) + 1)..(Len(iq) + Len(o)) /\ k - Len(iq) = l
        BY <2>1, <2>2, <2>3, <2>4, <2>5, <2>7, <3>3
      <4> HIDE DEF l
      <4>2. all[k] = outbox[l].id
        BY <2>4, <2>6, <4>1
      <4>3. outbox[l].id = pending[Len(inbox) + Len(queue) + l]
        BY <4>1 DEF LokiInv, LinkInv, LineInv, Line
      <4> QED
        BY <4>1, <4>2, <4>3
    <3> QED
      BY <2>1, <2>7, <3>1, <3>2, <3>3
  <2>10. pending = all
    <3>1. pending \in Seq(0..MaxCalls) /\ all \in Seq(0..MaxCalls)
      BY <2>1, <2>6
    <3> QED
      BY ONLY <2>8, <2>9, <3>1, SequenceIs
  <2> QED
    BY <2>5, <2>6, <2>10 DEF ResponsesInOrder, i, q, o
<1> QED
  BY <1>1, LokiAlways, PTL

(* Once the driver is set up, and no reset is under way or has failed, it works on
   collections that have every change up to the app's version, whatever versions
   were launched before and wherever they were stopped, unless IndexedDB could not be
   opened at first and could in the same set-up.                             *)
THEOREM SchemaIsUsed == Spec => []UsesItsSchema
<1>1. LokiInv => UsesItsSchema
  BY DEF LokiInv, SchemaInv, ResetRejected, UsesItsSchema
<1> QED
  BY <1>1, LokiAlways, PTL

(* What is on disk at any time, and so what the next launch finds, is sound: a write is
   not there without the answered ones before it and, with
   experimentalAllowsFatalError, half a batch is never there.                *)
THEOREM DiskStaysSound == Spec => []DiskIsSound
<1>1. LokiInv => DiskIsSound
  <2>1. LokiInv => SavedIsPrefix
    BY DEF LokiInv, PrefixInv, KeepsOrder, Performed, SavedIsPrefix
  <2>2. LokiInv => BrokenIsNotSaved
    BY DEF LokiInv, HalfInv, BrokenIsNotSaved
  <2> QED
    BY <2>1, <2>2 DEF DiskIsSound
<1> QED
  BY <1>1, LokiAlways, PTL
=============================================================================
