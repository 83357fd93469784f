--------------------------- MODULE ModelEditingProofs ---------------------------
(* Proofs about ModelEditing, for every tree of records and every number of calls. *)
EXTENDS ModelEditing, TLAPS

-----------------------------------------------------------------------------
(* The inductive invariant. *)

Model     == [raw : Raw, prepared : {"none"} \cup Deletes, editing : BOOLEAN]
Operation == [type : {"update", "destroyPermanently"}, raw : Raw]
CallMade  == [op : {"update"} \cup Deletes, record : Record, found : SUBSET Record,
              phase : {"fetching", "done"}]
Fetches   == [kind : {"fetch"}, call : Nat, records : SUBSET Record, operations : {<<>>}]
Batches   == UNION {[kind : {"batch"}, call : {0}, records : {S}, operations : [S -> Operation]] :
                      S \in SUBSET Record}
Message   == Fetches \cup Batches
Answer    == [call : Nat, records : SUBSET Record]

(* What the variables are, messages included. *)
Shape ==
    /\ model \in [Record -> Model]
    /\ row \in [Record -> Raw]
    /\ calls \in Seq(CallMade) /\ Len(calls) <= MaxCalls
    /\ queue \in Seq(Message)
    /\ inbox \in Seq(Answer)
    /\ sets \in 0..MaxSets
    /\ faults \in 0..MaxFaults

IsFetch(m) == m.kind = "fetch"
IsBatch(m) == m.kind = "batch"

(* A call that fetches waits for exactly one message. *)
IsFetching(made, k) ==
    k \in 1..Len(made) /\ made[k].phase = "fetching" /\ made[k].op \in Deletes

OneFetchPerCall ==
    /\ \A i \in 1..Len(queue) : IsFetch(queue[i]) =>
         /\ IsFetching(calls, queue[i].call)
         /\ \A j \in 1..Len(queue) : j # i /\ IsFetch(queue[j]) => queue[j].call # queue[i].call
         /\ \A j \in 1..Len(inbox) : inbox[j].call # queue[i].call
    /\ \A i \in 1..Len(inbox) :
         /\ IsFetching(calls, inbox[i].call)
         /\ \A j \in 1..Len(inbox) : j # i => inbox[j].call # inbox[i].call

IsMarked(raw) == \A c \in Column : raw.data[c] # 0 => c \in raw.changed

AllMarked ==
    /\ \A r \in Record : IsMarked(model[r].raw) /\ IsMarked(row[r])
    /\ \A i \in 1..Len(queue) : IsBatch(queue[i]) =>
         \A r \in queue[i].records : IsMarked(queue[i].operations[r].raw)

(* A deletion that was made stays made: in the database, behind it in the queue, and
   in the Model.                                                              *)
DeletesIn(m, r) == r \in m.records /\ m.operations[r].raw.status = "deleted"
KeepsIn(m, r)   == r \in m.records /\ m.operations[r].raw.status # "deleted"

DeletionsStand ==
    /\ \A r \in Record : row[r].status = "deleted" =>
         /\ model[r].raw.status = "deleted"
         /\ \A i \in 1..Len(queue) : IsBatch(queue[i]) => ~KeepsIn(queue[i], r)
    /\ \A i \in 1..Len(queue) : IsBatch(queue[i]) =>
         \A r \in Record : DeletesIn(queue[i], r) =>
           /\ model[r].raw.status = "deleted"
           /\ \A j \in 1..Len(queue) : j > i /\ IsBatch(queue[j]) => ~KeepsIn(queue[j], r)
    /\ \A i \in 1..Len(queue) : IsBatch(queue[i]) =>
         \A r \in queue[i].records :
           /\ queue[i].operations[r].raw.status \in {"updated", "deleted"}
           /\ queue[i].operations[r].type = "destroyPermanently" =>
                queue[i].operations[r].raw.status = "deleted"

(* What a call has found of the tree is complete, down to the level it waits for. *)
Tree(call) == call.found \cup {call.record}

LiveChildren(r) == {s \in Children({r}) : IsAlive(row[s])}

TreesAreComplete ==
    /\ \A i \in 1..Len(queue) : IsFetch(queue[i]) =>
         \A r \in Tree(calls[queue[i].call]) \ queue[i].records :
           LiveChildren(r) \subseteq Tree(calls[queue[i].call])
    /\ \A i \in 1..Len(inbox) :
         \A r \in Tree(calls[inbox[i].call]) :
           LiveChildren(r) \subseteq Tree(calls[inbox[i].call]) \cup inbox[i].records

(* A batch that deletes a record deletes what is left of its children. *)
BatchesAreComplete ==
    \A i \in 1..Len(queue) : IsBatch(queue[i]) =>
        \A r \in Record : DeletesIn(queue[i], r) =>
            \A s \in LiveChildren(r) : DeletesIn(queue[i], s)

EditingInv ==
    /\ Shape /\ OneFetchPerCall /\ AllMarked /\ DeletionsStand
    /\ TreesAreComplete /\ BatchesAreComplete /\ NoOrphans

-----------------------------------------------------------------------------
(* Lemmas about sequences and about what the operators return. *)

LEMMA Appended ==
    ASSUME NEW S, NEW q \in Seq(S), NEW x \in S
    PROVE  /\ Append(q, x) \in Seq(S)
           /\ Len(q) \in Nat /\ Len(Append(q, x)) = Len(q) + 1
           /\ \A i \in 1..Len(q) : Append(q, x)[i] = q[i]
           /\ Append(q, x)[Len(q) + 1] = x
OBVIOUS

LEMMA HeadGone ==
    ASSUME NEW S, NEW q \in Seq(S), q # <<>>
    PROVE  /\ Tail(q) \in Seq(S) /\ Head(q) \in S /\ Head(q) = q[1]
           /\ Len(q) \in Nat /\ Len(q) >= 1 /\ Len(Tail(q)) = Len(q) - 1
           /\ \A i \in 1..Len(Tail(q)) : Tail(q)[i] = q[i + 1] /\ i + 1 \in 1..Len(q)
OBVIOUS

LEMMA SyncedTypes ==
    Synced \in Raw /\ Absent \in Raw /\ IsMarked(Synced) /\ IsMarked(Absent)
    /\ Absent.status = "none" /\ Synced.status = "synced"
BY ModelEditingAssumption DEF Synced, Absent, Raw, Value, IsMarked

(* A message is a fetch or a batch, with the fields of one. *)
LEMMA MessageKinds ==
    ASSUME NEW m \in Message
    PROVE  /\ IsFetch(m) <=> ~IsBatch(m)
           /\ IsFetch(m) => m.call \in Nat /\ m.records \in SUBSET Record
           /\ IsBatch(m) => m.records \in SUBSET Record /\ m.operations \in [m.records -> Operation]
<1>1. CASE m \in Fetches
  BY <1>1 DEF Fetches, IsFetch, IsBatch
<1>2. CASE m \in Batches
  <2>1. PICK S \in SUBSET Record :
           m \in [kind : {"batch"}, call : {0}, records : {S}, operations : [S -> Operation]]
    BY <1>2 DEF Batches
  <2> QED
    BY <2>1 DEF IsFetch, IsBatch
<1> QED
  BY <1>1, <1>2 DEF Message

LEMMA BatchType ==
    ASSUME NEW S \in SUBSET Record, NEW ops \in [S -> Operation]
    PROVE  [kind |-> "batch", call |-> 0, records |-> S, operations |-> ops] \in Message
BY DEF Message, Batches

LEMMA FetchType ==
    ASSUME NEW call \in Nat, NEW level \in SUBSET Record
    PROVE  FetchOf(call, level) \in Message
BY DEF Message, Fetches, FetchOf

LEMMA ChangedIs ==
    ASSUME NEW raw \in Raw, NEW c \in Column, NEW v \in Value
    PROVE  /\ Changed(raw, c, v) \in Raw
           /\ Changed(raw, c, v).status = "updated"
           /\ IsMarked(raw) => IsMarked(Changed(raw, c, v))
BY DEF Changed, Raw, IsMarked

(* A Model in the course of update(). *)
Edit == [raw : Raw, prepared : {"none", "update"}, editing : BOOLEAN]

(* What an update does to a Model that has nothing pending. *)
LEMMA EditedIs ==
    ASSUME NEW m \in Model, m.prepared = "none", NEW c \in Column, NEW v \in Value,
           NEW throws \in BOOLEAN, NEW n, n = Edited(m, c, v, throws)
    PROVE  /\ n \in Edit
           /\ IsMarked(m.raw) => IsMarked(n.raw)
           /\ m.raw.status = "deleted" => n.raw.status = "deleted" /\ n.prepared = "none"
           /\ n.prepared = "update" => n.raw.status = "updated"
<1> DEFINE editing == [m EXCEPT !.editing = TRUE]
           set     == [editing EXCEPT !.raw = Changed(@, c, v)]
<1>1. editing \in Edit /\ editing.raw = m.raw /\ editing.prepared = "none"
  BY DEF Model, Edit
<1>2. Changed(m.raw, c, v) \in Raw
  BY <1>1, ChangedIs DEF Edit
<1>3. set \in Edit /\ set.raw = Changed(m.raw, c, v) /\ set.prepared = "none"
  BY <1>1, <1>2 DEF Edit
<1>4. CASE ~CanSetRaw(editing)
  <2>1. n = editing
    BY <1>4 DEF Edited
  <2> QED
    BY <1>1, <2>1
<1>5. CASE CanSetRaw(editing)
  <2>1. m.raw.status # "deleted" /\ m.raw \in Raw
    BY <1>1, <1>5 DEF CanSetRaw, Edit
  <2>2. CASE throws
    <3>1. n = set
      BY <1>5, <2>2 DEF Edited
    <3> QED
      BY <1>3, <2>1, <3>1, ChangedIs
  <2>3. CASE ~throws
    <3>1. n = [set EXCEPT !.editing = FALSE, !.prepared = "update"]
      BY <1>5, <2>3 DEF Edited
    <3>2. n \in Edit /\ n.raw = Changed(m.raw, c, v) /\ n.prepared = "update"
      BY <1>3, <3>1 DEF Edit
    <3> QED
      BY <2>1, <3>2, ChangedIs
  <2> QED
    BY <2>2, <2>3
<1> QED
  BY <1>4, <1>5

(* What a deletion does to a Model. *)
LEMMA DeletedIs ==
    ASSUME NEW m \in Model, NEW type \in Deletes, NEW n, n = Deleted(m, type)
    PROVE  /\ n \in Model
           /\ IsMarked(m.raw) => IsMarked(n.raw)
           /\ m.raw.status = "deleted" => n.raw.status = "deleted"
           /\ ~Throws(m, type) => n.raw.status = "deleted" /\ n.prepared = type
<1>1. CASE m.prepared # "none"
  BY <1>1 DEF Deleted, Throws
<1>2. CASE m.prepared = "none" /\ Throws(m, type)
  BY <1>2 DEF Deleted, Model
<1>3. CASE ~Throws(m, type)
  <2>1. m.prepared = "none"
    BY <1>3 DEF Throws
  <2>2. PICK e \in BOOLEAN :
           n = [[[m EXCEPT !.raw.status = "deleted"] EXCEPT !.prepared = type] EXCEPT !.editing = e]
    <3>1. (IF type = "markAsDeleted" THEN FALSE ELSE m.editing) \in BOOLEAN
      BY DEF Model
    <3> QED
      BY <1>3, <2>1, <3>1 DEF Deleted, Model
  <2>3. /\ n.raw = [m.raw EXCEPT !.status = "deleted"] /\ n.prepared = type /\ n.editing = e
        /\ n = [raw |-> n.raw, prepared |-> n.prepared, editing |-> n.editing]
    BY <2>2 DEF Model
  <2>4. /\ m.raw \in Raw /\ n.raw \in Raw /\ n.raw.status = "deleted"
        /\ n.raw.data = m.raw.data /\ n.raw.changed = m.raw.changed
    BY <2>3 DEF Model, Raw
  <2> QED
    BY <1>3, <2>3, <2>4 DEF Model, IsMarked
<1> QED
  BY <1>1, <1>2, <1>3

(* If nothing that is reached throws, then all records are reached. *)
LEMMA ReachedAll ==
    ASSUME NEW records, NEW type, NEW reached \in Reached(records, type),
           \A r \in reached : ~Throws(model[r], type)
    PROVE  reached = records
<1> DEFINE bad == {r \in records : Throws(model[r], type)}
           first == {r \in bad : \A s \in bad : Level(s) <= Level(r)}
           Above(r) == {s \in records : Level(s) > Level(r)}
           Beside(r) == {s \in records \ bad : Level(s) = Level(r)}
<1>1. CASE bad = {}
  BY <1>1 DEF Reached
<1>2. CASE bad # {}
  <2>1. reached \in UNION {{Above(r) \cup {r} \cup siblings : siblings \in SUBSET Beside(r)} :
                            r \in first}
    BY <1>2 DEF Reached
  <2>2. PICK r \in first : \E siblings \in SUBSET Beside(r) : reached = Above(r) \cup {r} \cup siblings
    BY <2>1
  <2>3. r \in reached /\ Throws(model[r], type)
    BY <2>2
  <2> QED
    BY <2>3
<1> QED
  BY <1>1, <1>2

-----------------------------------------------------------------------------
(* The steps in which Models change: what a step may do to a Model, and the batch it
   may send.                                                                  *)

Follows(m, n) ==
    /\ n \in Model
    /\ IsMarked(m.raw) => IsMarked(n.raw)
    /\ m.raw.status = "deleted" => n.raw.status = "deleted"

(* An operation of a batch tells what has become of the Model, and the deletion of a
   record comes with those of its children.                                    *)
Tells(S, ops) ==
    \A r \in S :
        /\ ops[r].raw = model'[r].raw
        /\ ops[r].raw.status \in {"updated", "deleted"}
        /\ ops[r].type = "destroyPermanently" => ops[r].raw.status = "deleted"
        /\ ops[r].raw.status = "deleted" =>
             \A s \in LiveChildren(r) : s \in S /\ ops[s].raw.status = "deleted"

Sends(S, ops) ==
    queue' = Append(queue, [kind |-> "batch", call |-> 0, records |-> S, operations |-> ops])

Edits ==
    /\ model' \in [Record -> Model]
    /\ \A r \in Record : Follows(model[r], model'[r])
    /\ \/ queue' = queue
       \/ \E S \in SUBSET Record : \E ops \in [S -> Operation] : Sends(S, ops) /\ Tells(S, ops)

(* The calls that are fetching are not concerned with batches. *)
LEMMA EditsQueue ==
    ASSUME Shape, Edits
    PROVE  /\ queue' \in Seq(Message) /\ Len(queue) \in Nat
           /\ Len(queue') \in {Len(queue), Len(queue) + 1}
           /\ \A i \in 1..Len(queue) : queue'[i] = queue[i]
           /\ Len(queue') = Len(queue) + 1 => IsBatch(queue'[Len(queue) + 1])
           /\ Len(queue') = Len(queue) + 1 =>
                \E S \in SUBSET Record : \E ops \in [S -> Operation] :
                  /\ queue'[Len(queue) + 1] =
                       [kind |-> "batch", call |-> 0, records |-> S, operations |-> ops]
                  /\ Tells(S, ops)
<1>1. queue \in Seq(Message) /\ Len(queue) \in Nat
  BY DEF Shape
<1>2. CASE queue' = queue
  BY <1>1, <1>2
<1>3. ASSUME NEW S \in SUBSET Record, NEW ops \in [S -> Operation], Sends(S, ops), Tells(S, ops)
      PROVE  /\ queue' \in Seq(Message) /\ Len(queue') = Len(queue) + 1
             /\ \A i \in 1..Len(queue) : queue'[i] = queue[i]
             /\ queue'[Len(queue) + 1] =
                  [kind |-> "batch", call |-> 0, records |-> S, operations |-> ops]
             /\ IsBatch(queue'[Len(queue) + 1])
  <2> DEFINE m == [kind |-> "batch", call |-> 0, records |-> S, operations |-> ops]
  <2>1. m \in Message
    BY BatchType
  <2>2. queue' = Append(queue, m)
    BY <1>3 DEF Sends
  <2> HIDE DEF m
  <2>3. /\ queue' \in Seq(Message) /\ Len(queue') = Len(queue) + 1
        /\ \A i \in 1..Len(queue) : queue'[i] = queue[i]
        /\ queue'[Len(queue) + 1] = m
    BY <1>1, <2>1, <2>2, Appended
  <2> QED
    BY <2>3 DEF m, IsBatch
<1>4. CASE \E S \in SUBSET Record : \E ops \in [S -> Operation] : Sends(S, ops) /\ Tells(S, ops)
  <2>1. PICK S \in SUBSET Record : \E ops \in [S -> Operation] : Sends(S, ops) /\ Tells(S, ops)
    BY <1>4
  <2>2. PICK ops \in [S -> Operation] : Sends(S, ops) /\ Tells(S, ops)
    BY <2>1
  <2> QED
    BY <1>1, <1>3, <2>2
<1> QED
  BY <1>2, <1>4 DEF Edits

LEMMA EditsKeep ==
    ASSUME EditingInv, Edits, UNCHANGED row
    PROVE  AllMarked' /\ DeletionsStand' /\ BatchesAreComplete' /\ NoOrphans'
<1>1. /\ Shape /\ OneFetchPerCall /\ AllMarked /\ DeletionsStand
      /\ TreesAreComplete /\ BatchesAreComplete /\ NoOrphans
  BY DEF EditingInv
<1>2. /\ row' = row /\ model' \in [Record -> Model]
      /\ \A r \in Record : Follows(model[r], model'[r])
  BY DEF Edits
<1>3. /\ Len(queue) \in Nat /\ Len(queue') \in {Len(queue), Len(queue) + 1}
      /\ \A i \in 1..Len(queue) : queue'[i] = queue[i]
      /\ \A i \in 1..Len(queue) : queue[i] \in Message
  <2>1. /\ Len(queue) \in Nat /\ Len(queue') \in {Len(queue), Len(queue) + 1}
        /\ \A i \in 1..Len(queue) : queue'[i] = queue[i]
    BY <1>1, EditsQueue
  <2>2. queue \in Seq(Message)
    BY <1>1 DEF Shape
  <2>3. \A i \in 1..Len(queue) : queue[i] \in Message
    BY ONLY <2>2
  <2> QED
    BY ONLY <2>1, <2>3
<1>4. ASSUME NEW i \in 1..Len(queue'), i \notin 1..Len(queue)
      PROVE  /\ i = Len(queue) + 1
             /\ \E S \in SUBSET Record : \E ops \in [S -> Operation] :
                  /\ queue'[i] = [kind |-> "batch", call |-> 0, records |-> S, operations |-> ops]
                  /\ Tells(S, ops)
  <2>1. i = Len(queue) + 1 /\ Len(queue') = Len(queue) + 1
    BY <1>3, <1>4
  <2> QED
    BY <1>1, <2>1, EditsQueue
<1>5. ASSUME NEW i \in 1..Len(queue'), i \notin 1..Len(queue)
      PROVE  \A r \in queue'[i].records :
               /\ r \in Record
               /\ queue'[i].operations[r].raw = model'[r].raw
               /\ queue'[i].operations[r].raw.status \in {"updated", "deleted"}
               /\ queue'[i].operations[r].type = "destroyPermanently" =>
                    queue'[i].operations[r].raw.status = "deleted"
               /\ queue'[i].operations[r].raw.status = "deleted" =>
                    \A s \in LiveChildren(r) :
                      s \in queue'[i].records /\ queue'[i].operations[s].raw.status = "deleted"
  <2>1. PICK S \in SUBSET Record : \E ops \in [S -> Operation] :
           /\ queue'[i] = [kind |-> "batch", call |-> 0, records |-> S, operations |-> ops]
           /\ Tells(S, ops)
    BY <1>4, <1>5
  <2>2. PICK ops \in [S -> Operation] :
           /\ queue'[i] = [kind |-> "batch", call |-> 0, records |-> S, operations |-> ops]
           /\ Tells(S, ops)
    BY <2>1
  <2>3. queue'[i].records = S /\ queue'[i].operations = ops
    BY <2>2
  <2> QED
    BY <2>2, <2>3 DEF Tells
<1>6. AllMarked'
  <2>1. ASSUME NEW r \in Record PROVE IsMarked(model'[r].raw) /\ IsMarked(row'[r])
    BY <1>1, <1>2 DEF AllMarked, Follows
  <2>2. ASSUME NEW i \in 1..Len(queue'), IsBatch(queue'[i]), NEW r \in queue'[i].records
        PROVE  IsMarked(queue'[i].operations[r].raw)
    <3>1. CASE i \in 1..Len(queue)
      BY <1>1, <1>3, <2>2, <3>1 DEF AllMarked
    <3>2. CASE i \notin 1..Len(queue)
      BY <1>5, <2>1, <3>2
    <3> QED
      BY <3>1, <3>2
  <2> QED
    BY <2>1, <2>2 DEF AllMarked, IsBatch, IsMarked
<1>7. ASSUME NEW r \in Record, model[r].raw.status = "deleted", NEW i \in 1..Len(queue'),
             i \notin 1..Len(queue)
      PROVE  ~KeepsIn(queue'[i], r)
  BY <1>2, <1>5, <1>7 DEF KeepsIn, Follows
<1>8. DeletionsStand'
  <2>1. ASSUME NEW r \in Record, row[r].status = "deleted"
        PROVE  /\ model'[r].raw.status = "deleted"
               /\ \A i \in 1..Len(queue') : IsBatch(queue'[i]) => ~KeepsIn(queue'[i], r)
    <3>1. model[r].raw.status = "deleted"
      BY <1>1, <2>1 DEF DeletionsStand
    <3>2. ASSUME NEW i \in 1..Len(queue'), IsBatch(queue'[i]) PROVE ~KeepsIn(queue'[i], r)
      <4>1. CASE i \in 1..Len(queue)
        BY <1>1, <1>3, <2>1, <3>2, <4>1 DEF DeletionsStand
      <4> QED
        BY <1>7, <3>1, <4>1
    <3> QED
      BY <1>2, <3>1, <3>2 DEF Follows
  <2>2. ASSUME NEW i \in 1..Len(queue'), IsBatch(queue'[i]), NEW r \in Record,
               DeletesIn(queue'[i], r)
        PROVE  /\ model'[r].raw.status = "deleted"
               /\ \A j \in 1..Len(queue') : j > i /\ IsBatch(queue'[j]) => ~KeepsIn(queue'[j], r)
    <3>1. CASE i \in 1..Len(queue)
      <4>1. model[r].raw.status = "deleted"
        BY <1>1, <1>3, <2>2, <3>1 DEF DeletionsStand
      <4>2. ASSUME NEW j \in 1..Len(queue'), j > i, IsBatch(queue'[j])
            PROVE  ~KeepsIn(queue'[j], r)
        <5>1. CASE j \in 1..Len(queue)
          BY <1>1, <1>3, <2>2, <3>1, <4>2, <5>1 DEF DeletionsStand
        <5> QED
          BY <1>7, <4>1, <5>1
      <4> QED
        BY <1>2, <4>1, <4>2 DEF Follows
    <3>2. CASE i \notin 1..Len(queue)
      <4>1. i = Len(queue) + 1 /\ model'[r].raw.status = "deleted"
        BY <1>4, <1>5, <2>2, <3>2 DEF DeletesIn
      <4> QED
        BY <1>3, <4>1
    <3> QED
      BY <3>1, <3>2
  <2>3. ASSUME NEW i \in 1..Len(queue'), IsBatch(queue'[i]), NEW r \in queue'[i].records
        PROVE  /\ queue'[i].operations[r].raw.status \in {"updated", "deleted"}
               /\ queue'[i].operations[r].type = "destroyPermanently" =>
                    queue'[i].operations[r].raw.status = "deleted"
    <3>1. CASE i \in 1..Len(queue)
      BY <1>1, <1>3, <2>3, <3>1 DEF DeletionsStand
    <3> QED
      BY <1>5, <3>1
  <2> QED
    BY <1>2, <2>1, <2>2, <2>3 DEF DeletionsStand, IsBatch, KeepsIn, DeletesIn
<1>9. BatchesAreComplete'
  <2>1. ASSUME NEW i \in 1..Len(queue'), IsBatch(queue'[i]), NEW r \in Record,
               DeletesIn(queue'[i], r), NEW s \in LiveChildren(r)
        PROVE  DeletesIn(queue'[i], s)
    <3>1. CASE i \in 1..Len(queue)
      BY <1>1, <1>3, <2>1, <3>1 DEF BatchesAreComplete
    <3> QED
      BY <1>5, <2>1, <3>1 DEF DeletesIn
  <2> QED
    BY <1>2, <2>1 DEF BatchesAreComplete, IsBatch, DeletesIn, LiveChildren
<1>10. NoOrphans'
  BY <1>1, <1>2 DEF NoOrphans
<1> QED
  BY <1>6, <1>8, <1>9, <1>10

(* A fetch that is sent changes none of it. *)
LEMMA FetchKeeps ==
    ASSUME EditingInv, UNCHANGED <<model, row>>,
           NEW m \in Message, IsFetch(m), queue' = Append(queue, m)
    PROVE  /\ queue' \in Seq(Message) /\ Len(queue) \in Nat /\ Len(queue') = Len(queue) + 1
           /\ \A i \in 1..Len(queue) : queue'[i] = queue[i]
           /\ queue'[Len(queue) + 1] = m
           /\ AllMarked' /\ DeletionsStand' /\ BatchesAreComplete' /\ NoOrphans'
<1>1. queue \in Seq(Message) /\ AllMarked /\ DeletionsStand /\ BatchesAreComplete /\ NoOrphans
  BY DEF EditingInv, Shape
<1>2. /\ queue' \in Seq(Message) /\ Len(queue) \in Nat /\ Len(queue') = Len(queue) + 1
      /\ \A i \in 1..Len(queue) : queue'[i] = queue[i]
      /\ queue'[Len(queue) + 1] = m
  BY <1>1, Appended
<1>3. ASSUME NEW i \in 1..Len(queue'), IsBatch(queue'[i])
      PROVE  i \in 1..Len(queue) /\ queue'[i] = queue[i]
  <2>1. i # Len(queue) + 1
    BY <1>2, <1>3, MessageKinds
  <2> QED
    BY <1>2, <2>1
<1>4. AllMarked'
  BY <1>1, <1>3 DEF AllMarked, IsBatch
<1>5. DeletionsStand'
  BY <1>1, <1>3 DEF DeletionsStand, IsBatch
<1>6. BatchesAreComplete'
  BY <1>1, <1>3 DEF BatchesAreComplete, IsBatch, LiveChildren
<1>7. NoOrphans'
  BY <1>1 DEF NoOrphans
<1> QED
  BY <1>2, <1>4, <1>5, <1>6, <1>7
(* Calls that change Models are such steps. *)
LEMMA UpdateEdits ==
    ASSUME Shape, NEW r \in Record, NEW c \in Column, NEW throws \in BOOLEAN,
           Update(r, c, throws)
    PROVE  Edits
<1> DEFINE models == [model EXCEPT ![r] = Edited(@, c, NextValue, throws)]
<1>1. model \in [Record -> Model] /\ model[r] \in Model
  BY DEF Shape
<1>2. NextValue \in Value
  BY ModelEditingAssumption DEF Update, Made, NextValue, Value, Shape
<1>3. CASE model[r].prepared # "none"
  BY <1>1, <1>3 DEF Update, Edits, Follows
<1>4. CASE model[r].prepared = "none"
  <2>1. PICK n : n = Edited(model[r], c, NextValue, throws)
    OBVIOUS
  <2>2. /\ n \in Edit
        /\ IsMarked(model[r].raw) => IsMarked(n.raw)
        /\ model[r].raw.status = "deleted" => n.raw.status = "deleted" /\ n.prepared = "none"
        /\ n.prepared = "update" => n.raw.status = "updated"
    BY <1>1, <1>2, <1>4, <2>1, EditedIs
  <2>3. models = [model EXCEPT ![r] = n] /\ models[r] = n
    BY <1>1, <2>1
  <2>4. IF models[r].prepared = "update" THEN Batch(models, {r})
        ELSE model' = models /\ UNCHANGED queue
    BY <1>4 DEF Update
  <2> HIDE DEF models
  <2>5. CASE n.prepared = "update"
    <3> DEFINE ops == [s \in {r} |-> [type |-> "update", raw |-> n.raw]]
    <3>1. Batch(models, {r})
      BY <2>3, <2>4, <2>5
    <3>2. model' = [model EXCEPT ![r] = [n EXCEPT !.prepared = "none"]]
      BY <1>1, <2>3, <3>1 DEF Batch
    <3>3. [n EXCEPT !.prepared = "none"] \in Model /\ [n EXCEPT !.prepared = "none"].raw = n.raw
      BY <2>2 DEF Edit, Model
    <3>4. model' \in [Record -> Model] /\ \A s \in Record : Follows(model[s], model'[s])
      BY <1>1, <2>2, <3>2, <3>3 DEF Follows
    <3>5. ops \in [{r} -> Operation]
      BY <2>2 DEF Edit, Operation
    <3>6. Sends({r}, ops)
      BY <2>3, <2>5, <3>1 DEF Batch, Sends, OperationOf
    <3>7. Tells({r}, ops)
      BY <1>1, <2>2, <2>5, <3>2, <3>3 DEF Tells
    <3> HIDE DEF ops
    <3> QED
      BY <3>4, <3>5, <3>6, <3>7 DEF Edits
  <2>6. CASE n.prepared # "update"
    <3>1. model' = [model EXCEPT ![r] = n] /\ queue' = queue
      BY <2>3, <2>4, <2>6
    <3>2. n \in Model
      BY <2>2, <2>6 DEF Edit, Model
    <3>3. model' \in [Record -> Model] /\ \A s \in Record : Follows(model[s], model'[s])
      BY <1>1, <2>2, <3>1, <3>2 DEF Follows
    <3> QED
      BY <3>1, <3>3 DEF Edits
  <2> QED
    BY <2>5, <2>6
<1> QED
  BY <1>3, <1>4

LEMMA SetFieldEdits ==
    ASSUME Shape, NEW r \in Record, NEW c \in Column, SetField(r, c)
    PROVE  Edits
<1>1. model \in [Record -> Model] /\ model[r] \in Model /\ model[r].raw \in Raw
  BY DEF Shape, Model
<1>2. NextValue \in Value
  BY ModelEditingAssumption DEF SetField, NextValue, Value, Shape
<1>3. PICK raw : raw = Changed(model[r].raw, c, NextValue)
  OBVIOUS
<1>4. raw \in Raw /\ (IsMarked(model[r].raw) => IsMarked(raw))
  BY <1>1, <1>2, <1>3, ChangedIs
<1>5. PICK n : n = [model[r] EXCEPT !.raw = raw]
  OBVIOUS
<1>6. n \in Model /\ n.raw = raw
  BY <1>1, <1>4, <1>5 DEF Model
<1>7. model' = [model EXCEPT ![r] = n] /\ queue' = queue /\ model[r].raw.status # "deleted"
  BY <1>1, <1>3, <1>5 DEF SetField, CanSetRaw
<1>8. model' \in [Record -> Model] /\ \A s \in Record : Follows(model[s], model'[s])
  BY <1>1, <1>4, <1>6, <1>7 DEF Follows
<1> QED
  BY <1>7, <1>8 DEF Edits

(* A deletion either prepares some of the Models and sends nothing, or sends all. *)
LEMMA DeleteAllEdits ==
    ASSUME Shape, NEW records \in SUBSET Record, NEW type \in Deletes,
           \A r \in records : LiveChildren(r) \subseteq records,
           DeleteAll(records, type)
    PROVE  Edits
<1>1. model \in [Record -> Model]
  BY DEF Shape
<1>2. PICK reached \in Reached(records, type) :
         LET models == [r \in Record |-> IF r \in reached THEN Deleted(model[r], type)
                                         ELSE model[r]] IN
         IF \E r \in reached : Throws(model[r], type)
         THEN model' = models /\ UNCHANGED queue
         ELSE Batch(models, records)
  BY DEF DeleteAll
<1> DEFINE models == [r \in Record |-> IF r \in reached THEN Deleted(model[r], type)
                                       ELSE model[r]]
<1>3. \A r \in Record :
         /\ Follows(model[r], models[r])
         /\ r \in reached /\ ~Throws(model[r], type) =>
              models[r].raw.status = "deleted" /\ models[r].prepared = type
  <2> TAKE r \in Record
  <2>1. CASE r \in reached
    <3>1. PICK n : n = Deleted(model[r], type)
      OBVIOUS
    <3>2. /\ n \in Model
          /\ IsMarked(model[r].raw) => IsMarked(n.raw)
          /\ model[r].raw.status = "deleted" => n.raw.status = "deleted"
          /\ ~Throws(model[r], type) => n.raw.status = "deleted" /\ n.prepared = type
      BY <1>1, <3>1, DeletedIs
    <3> QED
      BY <2>1, <3>1, <3>2 DEF Follows
  <2>2. CASE r \notin reached
    BY <1>1, <2>2 DEF Follows
  <2> QED
    BY <2>1, <2>2
<1>4. models \in [Record -> Model]
  <2>1. \A r \in Record : models[r] \in Model
    BY <1>3 DEF Follows
  <2>2. models = [r \in Record |-> models[r]]
    OBVIOUS
  <2> HIDE DEF models
  <2> QED
    BY <2>1, <2>2
<1>5. CASE \E r \in reached : Throws(model[r], type)
  <2>1. model' = models /\ queue' = queue
    BY <1>2, <1>5
  <2> HIDE DEF models
  <2> QED
    BY <1>3, <1>4, <2>1 DEF Edits
<1>6. CASE \A r \in reached : ~Throws(model[r], type)
  <2> DEFINE ops == [r \in records |-> [type |-> OperationOf(models[r].prepared),
                                        raw |-> models[r].raw]]
  <2>1. reached = records
    BY <1>6, ReachedAll
  <2>2. Batch(models, records)
    BY <1>2, <1>6
  <2>3. \A r \in records : models[r].raw.status = "deleted" /\ models[r].prepared = type
    BY <1>3, <1>6, <2>1
  <2> HIDE DEF models
  <2>4. \A r \in Record : model'[r] = IF r \in records
                                      THEN [models[r] EXCEPT !.prepared = "none"] ELSE models[r]
    BY <2>2 DEF Batch
  <2>5. model' = [r \in Record |-> model'[r]]
    BY <2>2 DEF Batch
  <2>6. ASSUME NEW r \in Record
        PROVE  model'[r] \in Model /\ model'[r].raw = models[r].raw
    <3>1. models[r] \in Model
      BY <1>4
    <3>2. [models[r] EXCEPT !.prepared = "none"] \in Model
          /\ [models[r] EXCEPT !.prepared = "none"].raw = models[r].raw
      BY <3>1 DEF Model
    <3> QED
      BY <2>4, <3>1, <3>2
  <2>7. model' \in [Record -> Model] /\ \A r \in Record : Follows(model[r], model'[r])
    BY <1>3, <2>5, <2>6 DEF Follows
  <2>8. OperationOf(type) \in {"update", "destroyPermanently"}
    BY DEF OperationOf, Deletes
  <2>9. ops \in [records -> Operation]
    <3>1. \A r \in records : [type |-> OperationOf(models[r].prepared), raw |-> models[r].raw]
                               \in Operation
      BY <1>4, <2>3, <2>8 DEF Model, Operation
    <3> QED
      BY <3>1
  <2>10. Sends(records, ops)
    BY <2>2 DEF Batch, Sends
  <2>11. \A r \in records : ops[r].raw = model'[r].raw /\ ops[r].raw.status = "deleted"
    BY <2>3, <2>6
  <2> HIDE DEF ops
  <2>12. Tells(records, ops)
    BY <2>11 DEF Tells
  <2> QED
    BY <2>7, <2>9, <2>10, <2>12 DEF Edits
<1> QED
  BY <1>5, <1>6
-----------------------------------------------------------------------------
(* The steps preserve the inductive invariant. *)

(* Calls that are fetching do not notice calls that are made, nor batches. *)
LEMMA FetchingGoesOn ==
    ASSUME EditingInv, Edits, UNCHANGED <<row, inbox>>,
           Len(calls') \in Nat, Len(calls') >= Len(calls),
           \A k \in 1..Len(calls) : calls'[k] = calls[k]
    PROVE  OneFetchPerCall' /\ TreesAreComplete'
<1>1. Shape /\ OneFetchPerCall /\ TreesAreComplete
  BY DEF EditingInv
<1>2. Len(calls) \in Nat /\ row' = row /\ inbox' = inbox
  BY <1>1 DEF Shape
<1>3. ASSUME NEW i \in 1..Len(queue'), IsFetch(queue'[i])
      PROVE  i \in 1..Len(queue) /\ queue'[i] = queue[i]
  <2>1. /\ \A j \in 1..Len(queue) : queue'[j] = queue[j]
        /\ Len(queue') = Len(queue) + 1 => IsBatch(queue'[Len(queue) + 1])
    BY <1>1, EditsQueue
  <2>2. i \in 1..Len(queue) \/ (Len(queue') = Len(queue) + 1 /\ i = Len(queue) + 1)
    BY <1>1, EditsQueue
  <2>3. Len(queue') = Len(queue) + 1 => i # Len(queue) + 1
    BY <1>3, <2>1 DEF IsFetch, IsBatch
  <2> QED
    BY <2>1, <2>2, <2>3
<1>4. \A k : IsFetching(calls, k) => IsFetching(calls', k) /\ calls'[k] = calls[k]
  BY <1>2 DEF IsFetching, Tree
<1>5. OneFetchPerCall'
  <2>1. ASSUME NEW i \in 1..Len(queue'), IsFetch(queue'[i])
        PROVE  /\ IsFetching(calls', queue'[i].call)
               /\ \A j \in 1..Len(inbox) : inbox[j].call # queue'[i].call
               /\ \A j \in 1..Len(queue') : j # i /\ IsFetch(queue'[j]) =>
                    queue'[j].call # queue'[i].call
    BY <1>1, <1>3, <1>4, <2>1 DEF OneFetchPerCall
  <2>2. ASSUME NEW i \in 1..Len(inbox)
        PROVE  /\ IsFetching(calls', inbox[i].call)
               /\ \A j \in 1..Len(inbox) : j # i => inbox[j].call # inbox[i].call
    BY <1>1, <1>4 DEF OneFetchPerCall
  <2> QED
    BY <1>2, <2>1, <2>2 DEF OneFetchPerCall, IsFetch
<1>6. TreesAreComplete'
  <2>1. ASSUME NEW i \in 1..Len(queue'), IsFetch(queue'[i])
        PROVE  \A r \in Tree(calls[queue[i].call]) \ queue[i].records :
                 LiveChildren(r) \subseteq Tree(calls[queue[i].call])
    BY <1>1, <1>3, <2>1 DEF TreesAreComplete
  <2>2. ASSUME NEW i \in 1..Len(queue'), IsFetch(queue'[i])
        PROVE  queue'[i] = queue[i] /\ Tree(calls'[queue'[i].call]) = Tree(calls[queue[i].call])
    BY <1>1, <1>3, <1>4, <2>2 DEF OneFetchPerCall
  <2>3. ASSUME NEW i \in 1..Len(inbox)
        PROVE  Tree(calls'[inbox[i].call]) = Tree(calls[inbox[i].call])
    BY <1>1, <1>4 DEF OneFetchPerCall
  <2>4. \A r : LiveChildren(r)' = LiveChildren(r)
    BY <1>2 DEF LiveChildren
  <2>5. ASSUME NEW i \in 1..Len(queue'), IsFetch(queue'[i]),
               NEW r \in Tree(calls'[queue'[i].call]) \ queue'[i].records
        PROVE  LiveChildren(r)' \subseteq Tree(calls'[queue'[i].call])
    <3>1. r \in Tree(calls[queue[i].call]) \ queue[i].records
      BY <2>2, <2>5
    <3> QED
      BY <2>1, <2>2, <2>4, <2>5, <3>1
  <2>6. ASSUME NEW i \in 1..Len(inbox), NEW r \in Tree(calls'[inbox[i].call])
        PROVE  LiveChildren(r)' \subseteq Tree(calls'[inbox[i].call]) \cup inbox[i].records
    <3>1. r \in Tree(calls[inbox[i].call])
      BY <2>3, <2>6
    <3>2. LiveChildren(r) \subseteq Tree(calls[inbox[i].call]) \cup inbox[i].records
      BY <1>1, <3>1 DEF TreesAreComplete
    <3> QED
      BY <2>3, <2>4, <2>6, <3>2
  <2> QED
    BY <1>2, <2>5, <2>6 DEF TreesAreComplete, IsFetch, Tree
<1> QED
  BY <1>5, <1>6

LEMMA CallMadeType ==
    ASSUME Shape, NEW call \in CallMade, Made(call)
    PROVE  /\ calls' \in Seq(CallMade) /\ Len(calls') <= MaxCalls
           /\ Len(calls) \in Nat /\ Len(calls') = Len(calls) + 1
           /\ \A k \in 1..Len(calls) : calls'[k] = calls[k]
           /\ calls'[Len(calls) + 1] = call
<1>1. calls \in Seq(CallMade) /\ calls' = Append(calls, call)
  BY DEF Shape, Made
<1>2. Len(calls) < MaxCalls
  BY DEF Made
<1> QED
  BY <1>1, <1>2, Appended, ModelEditingAssumption

LEMMA CallType ==
    ASSUME NEW op \in {"update"} \cup Deletes, NEW r \in Record
    PROVE  Call(op, r) \in CallMade
BY DEF Call, CallMade

LEMMA EditStep ==
    ASSUME EditingInv, Edits, UNCHANGED <<row, inbox, faults>>, sets' \in 0..MaxSets,
           calls' \in Seq(CallMade), Len(calls') <= MaxCalls, Len(calls') >= Len(calls),
           \A k \in 1..Len(calls) : calls'[k] = calls[k]
    PROVE  EditingInv'
<1>1. Shape
  BY DEF EditingInv
<1>2. Shape'
  BY <1>1, EditsQueue DEF Shape, Edits
<1>3. Len(calls') \in Nat
  OBVIOUS
<1> QED
  BY <1>2, <1>3, EditsKeep, FetchingGoesOn DEF EditingInv

LEMMA UpdateKeeps ==
    ASSUME EditingInv, NEW r \in Record, NEW c \in Column, NEW throws \in BOOLEAN,
           Update(r, c, throws)
    PROVE  EditingInv'
<1>1. Shape /\ Made(Call("update", r)) /\ UNCHANGED <<row, inbox, faults, sets>>
  BY DEF EditingInv, Update
<1>2. Edits
  BY <1>1, UpdateEdits
<1>3. /\ calls' \in Seq(CallMade) /\ Len(calls') <= MaxCalls
      /\ Len(calls) \in Nat /\ Len(calls') = Len(calls) + 1
      /\ \A k \in 1..Len(calls) : calls'[k] = calls[k]
  BY <1>1, CallType, CallMadeType
<1> QED
  BY <1>1, <1>2, <1>3, EditStep DEF Shape

LEMMA SetFieldKeeps ==
    ASSUME EditingInv, NEW r \in Record, NEW c \in Column, SetField(r, c)
    PROVE  EditingInv'
<1>1. Shape /\ UNCHANGED <<row, inbox, faults, calls>>
  BY DEF EditingInv, SetField
<1>2. Edits
  BY <1>1, SetFieldEdits
<1>3. sets' \in 0..MaxSets
  BY <1>1, ModelEditingAssumption DEF SetField, Shape
<1> QED
  BY <1>1, <1>2, <1>3, EditStep DEF Shape

(* A leaf has no children. *)
LEMMA DeleteKeeps ==
    ASSUME EditingInv, NEW r \in Record, NEW type \in Deletes, Delete(r, type)
    PROVE  EditingInv'
<1>1. /\ Shape /\ Made(Call(type, r)) /\ UNCHANGED <<row, inbox, faults, sets>>
      /\ DeleteAll({r}, type)
  BY DEF EditingInv, Delete
<1>2. LiveChildren(r) = {}
  BY ModelEditingAssumption DEF Delete, IsLeaf, LiveChildren, Children, Level, Record
<1>3. Edits
  BY <1>1, <1>2, DeleteAllEdits
<1>4. /\ calls' \in Seq(CallMade) /\ Len(calls') <= MaxCalls
      /\ Len(calls) \in Nat /\ Len(calls') = Len(calls) + 1
      /\ \A k \in 1..Len(calls) : calls'[k] = calls[k]
  BY <1>1, CallType, CallMadeType
<1> QED
  BY <1>1, <1>3, <1>4, EditStep DEF Shape

LEMMA DeleteWithDescendantsKeeps ==
    ASSUME EditingInv, NEW r \in Record, NEW type \in Deletes, DeleteWithDescendants(r, type)
    PROVE  EditingInv'
<1> DEFINE call == [Call(type, r) EXCEPT !.phase = "fetching"]
<1>1. /\ Shape /\ OneFetchPerCall /\ TreesAreComplete /\ Made(call)
      /\ UNCHANGED <<model, row, inbox, faults, sets>> /\ row' = row /\ inbox' = inbox
      /\ queue' = Append(queue, FetchOf(Len(calls'), {r}))
  BY DEF EditingInv, DeleteWithDescendants
<1>2. /\ call \in CallMade /\ call.found = {} /\ call.record = r
      /\ call.phase = "fetching" /\ call.op = type
  BY DEF Call, CallMade
<1> HIDE DEF call
<1>3. /\ calls' \in Seq(CallMade) /\ Len(calls') <= MaxCalls
      /\ Len(calls) \in Nat /\ Len(calls') = Len(calls) + 1
      /\ \A k \in 1..Len(calls) : calls'[k] = calls[k]
      /\ calls'[Len(calls) + 1] = call
  BY <1>1, <1>2, CallMadeType
<1> DEFINE m == FetchOf(Len(calls'), {r})
<1>4. m \in Message /\ IsFetch(m) /\ m.call = Len(calls) + 1 /\ m.records = {r}
  BY <1>3, FetchType DEF FetchOf, IsFetch
<1> HIDE DEF m
<1>5. queue' = Append(queue, m)
  BY <1>1 DEF m
<1>6. /\ queue' \in Seq(Message) /\ Len(queue) \in Nat /\ Len(queue') = Len(queue) + 1
      /\ \A i \in 1..Len(queue) : queue'[i] = queue[i]
      /\ queue'[Len(queue) + 1] = m
      /\ AllMarked' /\ DeletionsStand' /\ BatchesAreComplete' /\ NoOrphans'
  BY <1>1, <1>4, <1>5, FetchKeeps
<1>7. Shape'
  BY <1>1, <1>3, <1>6 DEF Shape
<1>8. \A k : IsFetching(calls, k) =>
         IsFetching(calls', k) /\ calls'[k] = calls[k] /\ k # Len(calls) + 1
  BY <1>3 DEF IsFetching, Tree
<1>9. IsFetching(calls', Len(calls) + 1) /\ Tree(calls'[Len(calls) + 1]) = {r}
  BY <1>2, <1>3 DEF IsFetching, Tree
<1>10. \A i \in 1..Len(queue') : i \in 1..Len(queue) \/ i = Len(queue) + 1
  BY <1>6
<1>11. OneFetchPerCall'
  <2>1. ASSUME NEW i \in 1..Len(queue'), IsFetch(queue'[i])
        PROVE  /\ IsFetching(calls', queue'[i].call)
               /\ \A j \in 1..Len(inbox) : inbox[j].call # queue'[i].call
               /\ \A j \in 1..Len(queue') : j # i /\ IsFetch(queue'[j]) =>
                    queue'[j].call # queue'[i].call
    <3>1. CASE i \in 1..Len(queue)
      BY <1>1, <1>4, <1>6, <1>8, <1>10, <2>1, <3>1 DEF OneFetchPerCall
    <3>2. CASE i = Len(queue) + 1
      <4>1. queue'[i].call = Len(calls) + 1 /\ IsFetching(calls', queue'[i].call)
        BY <1>4, <1>6, <1>9, <3>2
      <4>2. \A j \in 1..Len(inbox) : inbox[j].call # Len(calls) + 1
        BY <1>1, <1>8 DEF OneFetchPerCall
      <4>3. \A j \in 1..Len(queue) : IsFetch(queue[j]) => queue[j].call # Len(calls) + 1
        BY <1>1, <1>8 DEF OneFetchPerCall
      <4> QED
        BY <1>6, <1>10, <3>2, <4>1, <4>2, <4>3
    <3> QED
      BY <1>10, <3>1, <3>2
  <2>2. ASSUME NEW i \in 1..Len(inbox)
        PROVE  /\ IsFetching(calls', inbox[i].call)
               /\ \A j \in 1..Len(inbox) : j # i => inbox[j].call # inbox[i].call
    BY <1>1, <1>8 DEF OneFetchPerCall
  <2> QED
    BY <1>1, <2>1, <2>2 DEF OneFetchPerCall, IsFetch
<1>12. TreesAreComplete'
  <2>1. ASSUME NEW i \in 1..Len(queue'), IsFetch(queue'[i]),
               NEW s \in Tree(calls'[queue'[i].call]) \ queue'[i].records
        PROVE  LiveChildren(s) \subseteq Tree(calls'[queue'[i].call])
    <3>1. CASE i \in 1..Len(queue)
      <4>1. queue'[i] = queue[i] /\ Tree(calls'[queue[i].call]) = Tree(calls[queue[i].call])
        BY <1>1, <1>6, <1>8, <2>1, <3>1 DEF OneFetchPerCall
      <4> QED
        BY <1>1, <2>1, <3>1, <4>1 DEF TreesAreComplete
    <3>2. CASE i = Len(queue) + 1
      BY <1>4, <1>6, <1>9, <2>1, <3>2
    <3> QED
      BY <1>10, <3>1, <3>2
  <2>2. ASSUME NEW i \in 1..Len(inbox)
        PROVE  Tree(calls'[inbox[i].call]) = Tree(calls[inbox[i].call])
    BY <1>1, <1>8 DEF OneFetchPerCall
  <2>3. ASSUME NEW i \in 1..Len(inbox), NEW s \in Tree(calls'[inbox[i].call])
        PROVE  LiveChildren(s) \subseteq Tree(calls'[inbox[i].call]) \cup inbox[i].records
    BY <1>1, <2>2 DEF TreesAreComplete
  <2>4. inbox' = inbox /\ \A s : LiveChildren(s)' = LiveChildren(s)
    BY <1>1 DEF LiveChildren
  <2> QED
    BY <2>1, <2>3, <2>4 DEF TreesAreComplete, IsFetch, Tree
<1> QED
  BY <1>6, <1>7, <1>11, <1>12 DEF EditingInv

(* The answer for one level is the next level of the tree, or its end. *)
LEMMA ReceiveDescendantsKeeps ==
    ASSUME EditingInv, ReceiveDescendants
    PROVE  EditingInv'
<1> DEFINE k     == Head(inbox).call
           level == Head(inbox).records
           found == calls[k].found \cup level
<1>1. /\ Shape /\ OneFetchPerCall /\ TreesAreComplete
      /\ row' = row /\ faults' = faults /\ sets' = sets
      /\ inbox # <<>> /\ inbox' = Tail(inbox) /\ inbox \in Seq(Answer)
  BY DEF EditingInv, ReceiveDescendants, Shape
<1>2. /\ inbox' \in Seq(Answer) /\ Head(inbox) \in Answer /\ Head(inbox) = inbox[1]
      /\ Len(inbox) \in Nat /\ Len(inbox) >= 1 /\ Len(inbox') = Len(inbox) - 1
      /\ \A i \in 1..Len(inbox') : inbox'[i] = inbox[i + 1] /\ i + 1 \in 1..Len(inbox)
  BY <1>1, HeadGone
<1>3. /\ k \in Nat /\ level \in SUBSET Record /\ IsFetching(calls, k)
      /\ \A r \in Tree(calls[k]) : LiveChildren(r) \subseteq Tree(calls[k]) \cup level
  <2>1. 1 \in 1..Len(inbox)
    BY <1>2
  <2> QED
    BY <1>1, <1>2, <2>1 DEF Answer, OneFetchPerCall, TreesAreComplete
<1>4. IF Children(level) # {}
      THEN /\ calls' = [calls EXCEPT ![k].found = found]
           /\ queue' = Append(queue, FetchOf(k, level))
           /\ UNCHANGED model
      ELSE /\ calls' = [calls EXCEPT ![k].found = found, ![k].phase = "done"]
           /\ DeleteAll(found \cup {calls[k].record}, calls[k].op)
  BY DEF ReceiveDescendants
<1>5. \A i \in 1..Len(queue) : IsFetch(queue[i]) => queue[i].call # k
  <2>1. 1 \in 1..Len(inbox)
    BY <1>2
  <2> QED
    BY <1>1, <1>2, <2>1 DEF OneFetchPerCall
<1>6. \A i \in 1..Len(inbox') : inbox'[i].call # k
  <2>1. 1 \in 1..Len(inbox) /\ \A i \in 1..Len(inbox') : i + 1 # 1
    BY <1>2
  <2> QED
    BY <1>1, <1>2, <2>1 DEF OneFetchPerCall
<1>7. calls \in Seq(CallMade) /\ k \in 1..Len(calls) /\ calls[k] \in CallMade
      /\ calls[k].op \in Deletes /\ calls[k].phase = "fetching"
  BY <1>1, <1>3 DEF Shape, IsFetching
<1> HIDE DEF k, level
<1>8. /\ calls' \in Seq(CallMade) /\ Len(calls') = Len(calls)
      /\ calls'[k].found = found /\ calls'[k].record = calls[k].record
      /\ calls'[k].op = calls[k].op
      /\ Children(level) # {} => calls'[k].phase = "fetching"
      /\ \A j \in 1..Len(calls) : j # k => calls'[j] = calls[j]
  <2>1. PICK phase \in {"fetching", "done"} :
           /\ calls' = [calls EXCEPT ![k] = [calls[k] EXCEPT !.found = found, !.phase = phase]]
           /\ Children(level) # {} => phase = "fetching"
    <3>1. CASE Children(level) # {}
      <4>1. [calls[k] EXCEPT !.found = found] =
              [calls[k] EXCEPT !.found = found, !.phase = "fetching"]
        BY <1>7 DEF CallMade
      <4> QED
        BY <1>4, <1>7, <3>1, <4>1
    <3>2. CASE Children(level) = {}
      BY <1>4, <1>7, <3>2
    <3> QED
      BY <3>1, <3>2
  <2>2. PICK call : call = [calls[k] EXCEPT !.found = found, !.phase = phase]
    OBVIOUS
  <2>3. found \in SUBSET Record
    BY <1>3, <1>7 DEF CallMade
  <2>4. /\ call \in CallMade /\ call.found = found /\ call.phase = phase
        /\ call.record = calls[k].record /\ call.op = calls[k].op
    BY <1>7, <2>2, <2>3 DEF CallMade
  <2> HIDE DEF found
  <2>5. calls' = [calls EXCEPT ![k] = call]
    BY <2>1, <2>2
  <2> QED
    BY <1>7, <2>1, <2>4, <2>5
<1>9. Tree(calls'[k]) = Tree(calls[k]) \cup level
  BY <1>8 DEF Tree
<1>10. \A j : IsFetching(calls, j) /\ j # k => IsFetching(calls', j) /\ calls'[j] = calls[j]
  BY <1>8 DEF IsFetching
<1>11. ASSUME NEW i \in 1..Len(inbox')
       PROVE  /\ inbox'[i] = inbox[i + 1] /\ i + 1 \in 1..Len(inbox)
              /\ IsFetching(calls', inbox'[i].call) /\ inbox'[i].call # k
              /\ calls'[inbox'[i].call] = calls[inbox'[i].call]
              /\ \A j \in 1..Len(inbox') : j # i => inbox'[j].call # inbox'[i].call
  <2>1. inbox'[i] = inbox[i + 1] /\ i + 1 \in 1..Len(inbox) /\ inbox'[i].call # k
    BY <1>2, <1>6
  <2>2. IsFetching(calls, inbox'[i].call)
    BY <1>1, <2>1 DEF OneFetchPerCall
  <2>3. \A j \in 1..Len(inbox') : j # i => inbox'[j].call # inbox'[i].call
    BY <1>1, <1>2, <2>1 DEF OneFetchPerCall
  <2> QED
    BY <1>10, <2>1, <2>2, <2>3
<1>12. ASSUME NEW i \in 1..Len(queue), IsFetch(queue[i])
       PROVE  /\ IsFetching(calls', queue[i].call) /\ queue[i].call # k
              /\ calls'[queue[i].call] = calls[queue[i].call]
              /\ \A j \in 1..Len(inbox') : inbox'[j].call # queue[i].call
              /\ \A j \in 1..Len(queue) : j # i /\ IsFetch(queue[j]) =>
                   queue[j].call # queue[i].call
              /\ \A r \in Tree(calls'[queue[i].call]) \ queue[i].records :
                   LiveChildren(r) \subseteq Tree(calls'[queue[i].call])
  <2>1. IsFetching(calls', queue[i].call) /\ queue[i].call # k
        /\ calls'[queue[i].call] = calls[queue[i].call]
    BY <1>1, <1>5, <1>10, <1>12 DEF OneFetchPerCall
  <2> QED
    BY <1>1, <1>11, <1>12, <2>1 DEF OneFetchPerCall, TreesAreComplete
<1>13. ASSUME NEW i \in 1..Len(inbox'), NEW r \in Tree(calls'[inbox'[i].call])
       PROVE  LiveChildren(r) \subseteq Tree(calls'[inbox'[i].call]) \cup inbox'[i].records
  BY <1>1, <1>11 DEF TreesAreComplete
<1>14. \A r : LiveChildren(r)' = LiveChildren(r)
  BY <1>1 DEF LiveChildren
<1>15. CASE Children(level) # {}
  <2> DEFINE m == FetchOf(k, level)
  <2>1. m \in Message /\ IsFetch(m) /\ m.call = k /\ m.records = level
    BY <1>3, FetchType DEF FetchOf, IsFetch
  <2>2. queue' = Append(queue, m) /\ model' = model
    BY <1>4, <1>15
  <2> HIDE DEF m
  <2>3. /\ queue' \in Seq(Message) /\ Len(queue) \in Nat /\ Len(queue') = Len(queue) + 1
        /\ \A i \in 1..Len(queue) : queue'[i] = queue[i]
        /\ queue'[Len(queue) + 1] = m
        /\ AllMarked' /\ DeletionsStand' /\ BatchesAreComplete' /\ NoOrphans'
    BY <1>1, <2>1, <2>2, FetchKeeps
  <2>4. IsFetching(calls', k)
    BY <1>7, <1>8, <1>15 DEF IsFetching
  <2>5. ASSUME NEW i \in 1..Len(queue'), IsFetch(queue'[i])
        PROVE  /\ IsFetching(calls', queue'[i].call)
               /\ \A j \in 1..Len(inbox') : inbox'[j].call # queue'[i].call
               /\ \A j \in 1..Len(queue') : j # i /\ IsFetch(queue'[j]) =>
                    queue'[j].call # queue'[i].call
               /\ \A r \in Tree(calls'[queue'[i].call]) \ queue'[i].records :
                    LiveChildren(r) \subseteq Tree(calls'[queue'[i].call])
    <3>1. \A j \in 1..Len(queue') : j \in 1..Len(queue) \/ j = Len(queue) + 1
      BY <2>3
    <3>2. CASE i \in 1..Len(queue)
      <4>1. queue'[i] = queue[i]
        BY <2>3, <3>2
      <4>2. \A j \in 1..Len(queue') : j # i /\ IsFetch(queue'[j]) =>
               queue'[j].call # queue'[i].call
        BY <1>12, <2>1, <2>3, <2>5, <3>1, <3>2, <4>1
      <4> QED
        BY <1>12, <2>5, <3>2, <4>1, <4>2
    <3>3. CASE i = Len(queue) + 1
      <4>1. queue'[i] = m
        BY <2>3, <3>3
      <4>2. \A j \in 1..Len(queue') : j # i /\ IsFetch(queue'[j]) =>
               queue'[j].call # queue'[i].call
        BY <1>5, <2>1, <2>3, <3>1, <3>3, <4>1
      <4>3. \A r \in Tree(calls'[k]) \ level : LiveChildren(r) \subseteq Tree(calls'[k])
        BY <1>3, <1>9
      <4> QED
        BY <1>6, <2>1, <2>4, <4>1, <4>2, <4>3
    <3> QED
      BY <3>1, <3>2, <3>3
  <2>6. OneFetchPerCall'
    BY <1>11, <2>5 DEF OneFetchPerCall, IsFetch
  <2>7. TreesAreComplete'
    BY <1>13, <1>14, <2>5 DEF TreesAreComplete, IsFetch, Tree
  <2>8. Shape'
    BY <1>1, <1>2, <1>8, <2>2, <2>3 DEF Shape
  <2> QED
    BY <2>3, <2>6, <2>7, <2>8 DEF EditingInv
<1>16. CASE Children(level) = {}
  <2>1. DeleteAll(Tree(calls[k]) \cup level, calls[k].op)
    <3>1. found \cup {calls[k].record} = Tree(calls[k]) \cup level
      BY DEF Tree
    <3> QED
      BY <1>4, <1>16, <3>1
  <2>2. Tree(calls[k]) \cup level \in SUBSET Record
    BY <1>3, <1>7 DEF Tree, CallMade
  <2>3. \A r \in level : LiveChildren(r) = {}
    BY <1>16 DEF LiveChildren, Children
  <2>4. Edits
    BY <1>1, <1>3, <1>7, <2>1, <2>2, <2>3, DeleteAllEdits
  <2>5. AllMarked' /\ DeletionsStand' /\ BatchesAreComplete' /\ NoOrphans'
    BY <1>1, <2>4, EditsKeep
  <2>6. /\ queue' \in Seq(Message)
        /\ \A i \in 1..Len(queue) : queue'[i] = queue[i]
        /\ Len(queue') = Len(queue) + 1 => IsBatch(queue'[Len(queue) + 1])
        /\ \A i \in 1..Len(queue') :
             i \in 1..Len(queue) \/ (Len(queue') = Len(queue) + 1 /\ i = Len(queue) + 1)
    BY <1>1, <2>4, EditsQueue
  <2>7. \A i \in 1..Len(queue') :
           IsFetch(queue'[i]) => i \in 1..Len(queue) /\ queue'[i] = queue[i]
    BY <2>6 DEF IsFetch, IsBatch
  <2>8. OneFetchPerCall'
    BY <1>11, <1>12, <2>7 DEF OneFetchPerCall, IsFetch
  <2>9. TreesAreComplete'
    BY <1>12, <1>13, <1>14, <2>7 DEF TreesAreComplete, IsFetch, Tree
  <2>10. Shape'
    BY <1>1, <1>2, <1>8, <2>4, <2>6 DEF Shape, Edits
  <2> QED
    BY <2>5, <2>8, <2>9, <2>10 DEF EditingInv
<1> QED
  BY <1>15, <1>16

(* When the head of the queue is gone, the rest is as it was. *)
LEMMA QueueRest ==
    ASSUME Shape, queue # <<>>, queue' = Tail(queue)
    PROVE  /\ queue' \in Seq(Message) /\ Head(queue) = queue[1] /\ queue[1] \in Message
           /\ Len(queue) \in Nat /\ 1 \in 1..Len(queue)
           /\ \A i \in 1..Len(queue') :
                /\ i + 1 \in 1..Len(queue) /\ i + 1 > 1 /\ queue'[i] = queue[i + 1]
                /\ \A j \in 1..Len(queue') : (j > i <=> j + 1 > i + 1) /\ (j # i <=> j + 1 # i + 1)
<1>1. queue \in Seq(Message)
  BY DEF Shape
<1>2. /\ Tail(queue) \in Seq(Message) /\ Head(queue) \in Message /\ Head(queue) = queue[1]
      /\ Len(queue) \in Nat /\ Len(queue) >= 1 /\ Len(Tail(queue)) = Len(queue) - 1
      /\ \A i \in 1..Len(Tail(queue)) :
           Tail(queue)[i] = queue[i + 1] /\ i + 1 \in 1..Len(queue)
  BY <1>1, HeadGone
<1> QED
  BY <1>2

(* The fetches behind a batch that is gone. *)
LEMMA FetchesBehind ==
    ASSUME EditingInv, queue # <<>>, queue' = Tail(queue), UNCHANGED <<calls, inbox>>,
           \A r : LiveChildren(r)' \subseteq LiveChildren(r)
    PROVE  OneFetchPerCall' /\ TreesAreComplete'
<1>1. Shape /\ OneFetchPerCall /\ TreesAreComplete /\ calls' = calls /\ inbox' = inbox
  BY DEF EditingInv
<1>2. \A i \in 1..Len(queue') :
         /\ i + 1 \in 1..Len(queue) /\ queue'[i] = queue[i + 1]
         /\ \A j \in 1..Len(queue') : j # i <=> j + 1 # i + 1
  BY <1>1, QueueRest
<1>3. OneFetchPerCall'
  <2>1. ASSUME NEW i \in 1..Len(queue'), IsFetch(queue'[i])
        PROVE  /\ IsFetching(calls, queue'[i].call)
               /\ \A j \in 1..Len(inbox) : inbox[j].call # queue'[i].call
               /\ \A j \in 1..Len(queue') : j # i /\ IsFetch(queue'[j]) =>
                    queue'[j].call # queue'[i].call
    BY <1>1, <1>2, <2>1 DEF OneFetchPerCall
  <2> QED
    BY <1>1, <2>1 DEF OneFetchPerCall, IsFetch
<1>4. TreesAreComplete'
  <2>1. ASSUME NEW i \in 1..Len(queue'), IsFetch(queue'[i]),
               NEW r \in Tree(calls[queue'[i].call]) \ queue'[i].records
        PROVE  LiveChildren(r)' \subseteq Tree(calls[queue'[i].call])
    BY <1>1, <1>2, <2>1 DEF TreesAreComplete
  <2>2. ASSUME NEW i \in 1..Len(inbox), NEW r \in Tree(calls[inbox[i].call])
        PROVE  LiveChildren(r)' \subseteq Tree(calls[inbox[i].call]) \cup inbox[i].records
    BY <1>1 DEF TreesAreComplete
  <2> QED
    BY <1>1, <2>1, <2>2 DEF TreesAreComplete, IsFetch, Tree
<1> QED
  BY <1>3, <1>4

(* The batches behind a message that is gone, as long as rows only die of it. *)
LEMMA BatchesBehind ==
    ASSUME EditingInv, queue # <<>>, queue' = Tail(queue), UNCHANGED model,
           \A r : LiveChildren(r)' \subseteq LiveChildren(r),
           \A r \in Record :
             /\ IsMarked(row'[r])
             /\ row'[r].status = "deleted" =>
                  row[r].status = "deleted" \/ (IsBatch(queue[1]) /\ DeletesIn(queue[1], r))
    PROVE  AllMarked' /\ DeletionsStand' /\ BatchesAreComplete'
<1>1. Shape /\ AllMarked /\ DeletionsStand /\ BatchesAreComplete /\ model' = model
  BY DEF EditingInv
<1>2. /\ \A i \in 1..Len(queue') :
           /\ i + 1 \in 1..Len(queue) /\ i + 1 > 1 /\ queue'[i] = queue[i + 1]
           /\ \A j \in 1..Len(queue') : j > i <=> j + 1 > i + 1
      /\ 1 \in 1..Len(queue)
  BY <1>1, QueueRest
<1>3. AllMarked'
  <2>1. ASSUME NEW i \in 1..Len(queue'), IsBatch(queue'[i]), NEW r \in queue'[i].records
        PROVE  IsMarked(queue'[i].operations[r].raw)
    BY <1>1, <1>2, <2>1 DEF AllMarked
  <2> QED
    BY <1>1, <2>1 DEF AllMarked, IsBatch, IsMarked
<1>4. DeletionsStand'
  <2>1. ASSUME NEW r \in Record, row'[r].status = "deleted"
        PROVE  /\ model[r].raw.status = "deleted"
               /\ \A i \in 1..Len(queue') : IsBatch(queue'[i]) => ~KeepsIn(queue'[i], r)
    BY <1>1, <1>2, <2>1 DEF DeletionsStand
  <2>2. ASSUME NEW i \in 1..Len(queue'), IsBatch(queue'[i]), NEW r \in Record,
               DeletesIn(queue'[i], r)
        PROVE  /\ model[r].raw.status = "deleted"
               /\ \A j \in 1..Len(queue') : j > i /\ IsBatch(queue'[j]) => ~KeepsIn(queue'[j], r)
    BY <1>1, <1>2, <2>2 DEF DeletionsStand
  <2>3. ASSUME NEW i \in 1..Len(queue'), IsBatch(queue'[i]), NEW r \in queue'[i].records
        PROVE  /\ queue'[i].operations[r].raw.status \in {"updated", "deleted"}
               /\ queue'[i].operations[r].type = "destroyPermanently" =>
                    queue'[i].operations[r].raw.status = "deleted"
    BY <1>1, <1>2, <2>3 DEF DeletionsStand
  <2> QED
    BY <1>1, <2>1, <2>2, <2>3 DEF DeletionsStand, IsBatch, KeepsIn, DeletesIn
<1>5. BatchesAreComplete'
  <2>1. ASSUME NEW i \in 1..Len(queue'), IsBatch(queue'[i]), NEW r \in Record,
               DeletesIn(queue'[i], r), NEW s \in LiveChildren(r)'
        PROVE  DeletesIn(queue'[i], s)
    BY <1>1, <1>2, <2>1 DEF BatchesAreComplete
  <2> QED
    BY <2>1 DEF BatchesAreComplete, IsBatch, DeletesIn
<1> QED
  BY <1>3, <1>4, <1>5

(* A batch that is carried out: what it deletes dies, and nothing else does. *)
LEMMA ExecuteBatchRows ==
    ASSUME EditingInv, ExecuteBatch, NEW r \in Record
    PROVE  /\ row'[r] \in Raw /\ IsMarked(row'[r])
           /\ ~IsAlive(row[r]) => ~IsAlive(row'[r])
           /\ DeletesIn(queue[1], r) => ~IsAlive(row'[r])
           /\ IsAlive(row[r]) /\ ~IsAlive(row'[r]) => DeletesIn(queue[1], r)
           /\ row'[r].status = "deleted" => row[r].status = "deleted" \/ DeletesIn(queue[1], r)
<1>1. Shape /\ AllMarked /\ DeletionsStand
  BY DEF EditingInv
<1>2. queue # <<>> /\ queue' = Tail(queue) /\ Head(queue) = queue[1] /\ IsBatch(queue[1])
      /\ queue[1] \in Message /\ 1 \in 1..Len(queue)
  BY <1>1, QueueRest DEF ExecuteBatch, IsBatch
<1>3. row'[r] = IF r \in queue[1].records THEN Executed(row[r], queue[1].operations[r])
                ELSE row[r]
  BY <1>2 DEF ExecuteBatch
<1>4. row[r] \in Raw /\ IsMarked(row[r])
  BY <1>1 DEF Shape, AllMarked
<1>5. CASE r \notin queue[1].records
  BY <1>3, <1>4, <1>5 DEF DeletesIn
<1>6. CASE r \in queue[1].records
  <2> DEFINE op == queue[1].operations[r]
  <2>1. op \in Operation
    BY <1>2, <1>6, MessageKinds
  <2>2. /\ IsMarked(op.raw) /\ op.raw.status \in {"updated", "deleted"}
        /\ op.type = "destroyPermanently" => op.raw.status = "deleted"
        /\ row[r].status = "deleted" => op.raw.status = "deleted"
        /\ DeletesIn(queue[1], r) <=> op.raw.status = "deleted"
    BY <1>1, <1>2, <1>6 DEF AllMarked, DeletionsStand, KeepsIn, DeletesIn
  <2>3. row'[r] = IF op.type = "update" /\ row[r].status # "none" THEN op.raw ELSE Absent
    BY <1>3, <1>6 DEF Executed
  <2> HIDE DEF op
  <2>4. op.raw \in Raw /\ op.type \in {"update", "destroyPermanently"}
    BY <2>1 DEF Operation
  <2>5. CASE op.type = "update" /\ row[r].status # "none"
    <3>1. row'[r] = op.raw
      BY <2>3, <2>5
    <3>2. row[r].status \in {"synced", "updated", "deleted"}
      BY <1>4, <2>5 DEF Raw
    <3> QED
      BY <2>2, <2>4, <3>1, <3>2 DEF IsAlive
  <2>6. CASE ~(op.type = "update" /\ row[r].status # "none")
    <3>1. row'[r] = Absent
      BY <2>3, <2>6
    <3>2. row[r].status = "none" \/ op.raw.status = "deleted"
      BY <2>2, <2>4, <2>6
    <3> QED
      BY <2>2, <3>1, <3>2, SyncedTypes DEF IsAlive
  <2> QED
    BY <2>5, <2>6
<1> QED
  BY <1>5, <1>6

LEMMA ExecuteBatchKeeps ==
    ASSUME EditingInv, ExecuteBatch
    PROVE  EditingInv'
<1>1. Shape /\ NoOrphans /\ BatchesAreComplete
  BY DEF EditingInv
<1>2. /\ queue # <<>> /\ queue' = Tail(queue) /\ Head(queue) = queue[1] /\ IsBatch(queue[1])
      /\ 1 \in 1..Len(queue) /\ queue' \in Seq(Message)
      /\ model' = model /\ calls' = calls /\ inbox' = inbox /\ sets' = sets /\ faults' = faults
  BY <1>1, QueueRest DEF ExecuteBatch, IsBatch
<1>3. \A r \in Record :
         /\ row'[r] \in Raw /\ IsMarked(row'[r])
         /\ ~IsAlive(row[r]) => ~IsAlive(row'[r])
         /\ DeletesIn(queue[1], r) => ~IsAlive(row'[r])
         /\ IsAlive(row[r]) /\ ~IsAlive(row'[r]) => DeletesIn(queue[1], r)
         /\ row'[r].status = "deleted" => row[r].status = "deleted" \/ DeletesIn(queue[1], r)
  BY ExecuteBatchRows
<1>4. \A r : LiveChildren(r)' \subseteq LiveChildren(r)
  <2>1. \A r : \A s \in Children({r}) : s \in Record
    BY DEF Children
  <2> QED
    BY <1>3, <2>1 DEF LiveChildren
<1>5. OneFetchPerCall' /\ TreesAreComplete'
  BY <1>2, <1>4, FetchesBehind
<1>6. AllMarked' /\ DeletionsStand' /\ BatchesAreComplete'
  BY <1>2, <1>3, <1>4, BatchesBehind
<1>7. Shape'
  <2>1. row' \in [Record -> Raw]
    <3>1. row' = [r \in Record |-> row'[r]]
      BY DEF ExecuteBatch
    <3> QED
      BY <1>3, <3>1
  <2> QED
    BY <1>1, <1>2, <2>1 DEF Shape
<1>8. NoOrphans'
  <2> SUFFICES ASSUME NEW r \in Record, NEW s \in Children({r}), IsAlive(row'[s]),
                      ~IsAlive(row'[r])
               PROVE  FALSE
    BY DEF NoOrphans
  <2>1. s \in Record /\ IsAlive(row[s])
    BY <1>3 DEF Children
  <2>2. IsAlive(row[r])
    BY <1>1, <2>1 DEF NoOrphans
  <2>3. DeletesIn(queue[1], s)
    BY <1>1, <1>2, <1>3, <2>1, <2>2 DEF BatchesAreComplete, LiveChildren
  <2> QED
    BY <1>3, <2>1, <2>3
<1> QED
  BY <1>5, <1>6, <1>7, <1>8 DEF EditingInv

LEMMA BatchFailsKeeps ==
    ASSUME EditingInv, BatchFails
    PROVE  EditingInv'
<1>1. Shape /\ NoOrphans /\ AllMarked
  BY DEF EditingInv
<1>2. /\ queue # <<>> /\ queue' = Tail(queue) /\ queue' \in Seq(Message)
      /\ row' = row /\ model' = model /\ calls' = calls /\ inbox' = inbox /\ sets' = sets
  BY <1>1, QueueRest DEF BatchFails
<1>3. faults' \in 0..MaxFaults
  BY <1>1, ModelEditingAssumption DEF BatchFails, Shape
<1>4. \A r : LiveChildren(r)' \subseteq LiveChildren(r)
  BY <1>2 DEF LiveChildren
<1>5. OneFetchPerCall' /\ TreesAreComplete'
  BY <1>2, <1>4, FetchesBehind
<1>6. AllMarked' /\ DeletionsStand' /\ BatchesAreComplete'
  BY <1>1, <1>2, <1>4, BatchesBehind DEF AllMarked
<1> QED
  BY <1>1, <1>2, <1>3, <1>5, <1>6 DEF EditingInv, Shape, NoOrphans

(* The children that are alive now are all that will ever be. *)
LEMMA ExecuteFetchKeeps ==
    ASSUME EditingInv, ExecuteFetch
    PROVE  EditingInv'
<1> DEFINE k     == Head(queue).call
           level == Head(queue).records
           a     == [call |-> k, records |-> {r \in Children(level) : IsAlive(row[r])}]
<1>1. Shape /\ NoOrphans /\ AllMarked /\ OneFetchPerCall /\ TreesAreComplete
      /\ inbox \in Seq(Answer)
  BY DEF EditingInv, Shape
<1>2. /\ queue # <<>> /\ queue' = Tail(queue) /\ queue' \in Seq(Message)
      /\ Head(queue) = queue[1] /\ 1 \in 1..Len(queue)
      /\ queue[1] \in Message /\ IsFetch(queue[1])
      /\ \A i \in 1..Len(queue') :
           /\ i + 1 \in 1..Len(queue) /\ i + 1 > 1 /\ queue'[i] = queue[i + 1]
           /\ \A j \in 1..Len(queue') : j # i <=> j + 1 # i + 1
  BY <1>1, QueueRest DEF ExecuteFetch, IsFetch
<1>3. /\ row' = row /\ model' = model /\ calls' = calls /\ sets' = sets /\ faults' = faults
      /\ inbox' = Append(inbox, a)
  BY DEF ExecuteFetch
<1>4. k \in Nat /\ level \in SUBSET Record /\ a \in Answer
      /\ a.call = k /\ a.records = {r \in Children(level) : IsAlive(row[r])}
  <2>1. k \in Nat /\ level \in SUBSET Record
    BY <1>2, MessageKinds
  <2>2. Children(level) \subseteq Record
    BY DEF Children
  <2> QED
    BY <2>1, <2>2 DEF Answer
<1>5. /\ IsFetching(calls, k)
      /\ \A i \in 1..Len(inbox) : inbox[i].call # k
      /\ \A i \in 1..Len(queue') : IsFetch(queue'[i]) => queue'[i].call # k
      /\ \A r \in Tree(calls[k]) \ level : LiveChildren(r) \subseteq Tree(calls[k])
  BY <1>1, <1>2 DEF OneFetchPerCall, TreesAreComplete
<1>6. \A r \in level : LiveChildren(r) \subseteq {s \in Children(level) : IsAlive(row[s])}
  BY DEF LiveChildren, Children
<1> HIDE DEF a, k, level
<1>7. /\ inbox' \in Seq(Answer) /\ Len(inbox) \in Nat /\ Len(inbox') = Len(inbox) + 1
      /\ \A i \in 1..Len(inbox) : inbox'[i] = inbox[i]
      /\ inbox'[Len(inbox) + 1] = a
  BY <1>1, <1>3, <1>4, Appended
<1>8. \A i \in 1..Len(inbox') : i \in 1..Len(inbox) \/ i = Len(inbox) + 1
  BY <1>7
<1>9. \A r : LiveChildren(r)' = LiveChildren(r)
  BY <1>3 DEF LiveChildren
<1>10. OneFetchPerCall'
  <2>1. ASSUME NEW i \in 1..Len(queue'), IsFetch(queue'[i])
        PROVE  /\ IsFetching(calls, queue'[i].call)
               /\ \A j \in 1..Len(inbox) : inbox[j].call # queue'[i].call
               /\ \A j \in 1..Len(queue') : j # i /\ IsFetch(queue'[j]) =>
                    queue'[j].call # queue'[i].call
    BY <1>1, <1>2, <2>1 DEF OneFetchPerCall
  <2>2. ASSUME NEW i \in 1..Len(queue'), IsFetch(queue'[i])
        PROVE  \A j \in 1..Len(inbox') : inbox'[j].call # queue'[i].call
    BY <1>4, <1>5, <1>7, <1>8, <2>1, <2>2
  <2>3. ASSUME NEW i \in 1..Len(inbox')
        PROVE  /\ IsFetching(calls, inbox'[i].call)
               /\ \A j \in 1..Len(inbox') : j # i => inbox'[j].call # inbox'[i].call
    BY <1>1, <1>4, <1>5, <1>7, <1>8 DEF OneFetchPerCall
  <2> QED
    BY <1>3, <2>1, <2>2, <2>3 DEF OneFetchPerCall, IsFetch
<1>11. TreesAreComplete'
  <2>1. ASSUME NEW i \in 1..Len(queue'), IsFetch(queue'[i]),
               NEW r \in Tree(calls[queue'[i].call]) \ queue'[i].records
        PROVE  LiveChildren(r) \subseteq Tree(calls[queue'[i].call])
    BY <1>1, <1>2, <2>1 DEF TreesAreComplete
  <2>2. ASSUME NEW i \in 1..Len(inbox'), NEW r \in Tree(calls[inbox'[i].call])
        PROVE  LiveChildren(r) \subseteq Tree(calls[inbox'[i].call]) \cup inbox'[i].records
    <3>1. CASE i \in 1..Len(inbox)
      BY <1>1, <1>7, <2>2, <3>1 DEF TreesAreComplete
    <3>2. CASE i = Len(inbox) + 1
      BY <1>4, <1>5, <1>6, <1>7, <2>2, <3>2
    <3> QED
      BY <1>8, <3>1, <3>2
  <2> QED
    BY <1>3, <1>9, <2>1, <2>2 DEF TreesAreComplete, IsFetch, Tree
<1>12. AllMarked' /\ DeletionsStand' /\ BatchesAreComplete'
  BY <1>1, <1>2, <1>3, <1>9, BatchesBehind DEF AllMarked
<1> QED
  BY <1>1, <1>2, <1>3, <1>7, <1>10, <1>11, <1>12 DEF EditingInv, Shape, NoOrphans

LEMMA InitialInv == Init => EditingInv
<1> SUFFICES ASSUME Init PROVE EditingInv
  OBVIOUS
<1>1. Shape
  BY SyncedTypes, ModelEditingAssumption DEF Init, Shape, Model
<1>2. /\ queue = <<>> /\ inbox = <<>>
      /\ \A r \in Record : model[r].raw = Synced /\ row[r] = Synced
  BY DEF Init
<1>3. OneFetchPerCall /\ TreesAreComplete /\ BatchesAreComplete
  BY <1>2 DEF OneFetchPerCall, TreesAreComplete, BatchesAreComplete
<1>4. AllMarked /\ DeletionsStand
  BY <1>2, SyncedTypes DEF AllMarked, DeletionsStand
<1>5. NoOrphans
  BY <1>2, SyncedTypes DEF NoOrphans, IsAlive
<1> QED
  BY <1>1, <1>3, <1>4, <1>5 DEF EditingInv

LEMMA EditingStep ==
    ASSUME EditingInv, [Next]_vars
    PROVE  EditingInv'
<1>1. CASE UNCHANGED vars
  BY <1>1 DEF vars, EditingInv, Shape, OneFetchPerCall, AllMarked, DeletionsStand,
     TreesAreComplete, BatchesAreComplete, NoOrphans, LiveChildren
<1>2. ASSUME NEW r \in Record, NEW type \in Deletes,
             Delete(r, type) \/ DeleteWithDescendants(r, type)
      PROVE  EditingInv'
  BY <1>2, DeleteKeeps, DeleteWithDescendantsKeeps
<1> QED
  BY <1>1, <1>2, UpdateKeeps, SetFieldKeeps, ReceiveDescendantsKeeps, ExecuteBatchKeeps,
     BatchFailsKeeps, ExecuteFetchKeeps DEF Next

LEMMA EditingInvariant == Spec => []EditingInv
<1>1. Init => EditingInv
  BY InitialInv
<1>2. EditingInv /\ [Next]_vars => EditingInv'
  BY EditingStep
<1> QED
  BY <1>1, <1>2, PTL DEF Spec

-----------------------------------------------------------------------------
(* Type correctness: between calls no update is pending, and every message belongs to a
   call that waits for it.                                                    *)
THEOREM TypeCorrect == Spec => []TypeOK
<1>1. EditingInv => TypeOK
  <2> SUFFICES ASSUME EditingInv PROVE TypeOK
    OBVIOUS
  <2>1. Shape /\ OneFetchPerCall
    BY DEF EditingInv
  <2>2. \A i \in 1..Len(calls) : calls[i] \in CallMade
    BY <2>1 DEF Shape
  <2>3. ASSUME NEW i \in 1..Len(queue)
        PROVE  \/ /\ queue[i].kind = "fetch" /\ calls[queue[i].call].phase = "fetching"
                  /\ queue[i].records \subseteq Record
               \/ /\ queue[i].kind = "batch"
                  /\ queue[i].operations \in [queue[i].records -> Operation]
    <3>1. queue[i] \in Message
      BY <2>1 DEF Shape
    <3>2. CASE IsFetch(queue[i])
      BY <2>1, <3>1, <3>2, MessageKinds DEF OneFetchPerCall, IsFetching, IsFetch
    <3>3. CASE IsBatch(queue[i])
      BY <3>1, <3>3, MessageKinds DEF IsBatch
    <3> QED
      BY <3>1, <3>2, <3>3, MessageKinds
  <2>4. \A i \in 1..Len(inbox) : calls[inbox[i].call].phase = "fetching"
    BY <2>1 DEF OneFetchPerCall, IsFetching
  <2> QED
    BY <2>1, <2>2, <2>3, <2>4 DEF TypeOK, Shape, Model, CallMade, Operation
<1> QED
  BY <1>1, EditingInvariant, PTL

(* No record outlives the one it belongs to, in a tree of any depth and breadth, however
   many updates and deletions cross each other, throw or fail.                *)
THEOREM ChildrenDieFirst == Spec => []NoOrphans
<1>1. EditingInv => NoOrphans
  BY DEF EditingInv
<1> QED
  BY <1>1, EditingInvariant, PTL

(* Whatever differs from the server is marked for the next push, whichever updates have
   thrown or failed.                                                          *)
THEOREM ChangesStayMarked == Spec => []ChangesAreMarked
<1>1. EditingInv => ChangesAreMarked
  BY DEF EditingInv, AllMarked, ChangesAreMarked, IsMarked
<1> QED
  BY <1>1, EditingInvariant, PTL

(* No update that was under way brings a deleted record back. *)
THEOREM DeletionIsFinal == Spec => DeletedForGood
<1>1. EditingInv /\ [Next]_vars => [\A r \in Record : ~IsAlive(row[r]) => ~IsAlive(row'[r])]_vars
  <2> SUFFICES ASSUME EditingInv, Next, NEW r \in Record, ~IsAlive(row[r])
               PROVE  ~IsAlive(row'[r])
    OBVIOUS
  <2>1. CASE ExecuteBatch
    BY <2>1, ExecuteBatchRows
  <2>2. CASE row' = row
    BY <2>2
  <2> QED
    BY <2>1, <2>2 DEF Next, Update, SetField, Delete, DeleteWithDescendants,
       ReceiveDescendants, BatchFails, ExecuteFetch
<1> QED
  BY <1>1, EditingInvariant, PTL DEF Spec, DeletedForGood
===============================================================================
