------------------------- MODULE RecordCachingProofs -------------------------
(* Proofs about RecordCaching, for any records, bounds and adapters except
   LokiJS inside the call: the state has its type, a record has one live Model,
   a reset leaves nothing behind; what is looked up in vain is deleted, and a
   cached Model is what the table holds.

   What is on its way to the adapter and back is one queue in the order of the
   calls (LineOf): the driver executes its first waiting entry, JavaScript takes
   its head.  Every claim is about the calls of one record in that queue.  The
   first invariant, CachingInv, says which Models there are; the second,
   CoherenceInv, stands on it and says what they hold.                       *)
EXTENDS RecordCaching, SequenceTheorems, TLAPS

-----------------------------------------------------------------------------
(* The queue of calls that JavaScript has not seen answered. *)

Waiting(c)  == [call |-> c, done |-> FALSE, ok |-> TRUE, found |-> {}]
Answered(a) == [call |-> a.call, done |-> TRUE, ok |-> a.ok, found |-> a.found]

LineOf(aq, cq) == [k \in 1..(Len(aq) + Len(cq)) |->
                      IF k <= Len(aq) THEN Answered(aq[k]) ELSE Waiting(cq[k - Len(aq)])]

(* What an entry e has done, or may still do, to the record id. *)
Writes(e, id) ==
    /\ e.call.id = id
    /\ e.call.op \in {"create", "update", "destroyPermanently", "destroyDeletedRecords"}
Creates(e, id) == e.ok /\ e.call.id = id /\ e.call.op = "create"
Edits(e, id)   == e.call.id = id /\ e.call.op = "update" /\ ~e.call.row.deleted
Removes(e, id) ==
    /\ e.ok /\ e.call.id = id
    /\ \/ e.call.op \in {"destroyPermanently", "destroyDeletedRecords"}
       \/ e.call.op = "update" /\ e.call.row.deleted
(* Its answer holds the whole row of a record that is not deleted. *)
Shows(e, id) == \E x \in e.found : x.id = id /\ ~x.bare /\ IsLive(x.row)

NoneLive(ms, id) == \A m \in DOMAIN ms[id] : ms[id][m].status # "live"

-----------------------------------------------------------------------------
(* The invariant, over the queue P, the rows r of the driver, the Models ms and
   their cache ch, and whether a reset is under way.                         *)

InOrder(P) == \A i, k \in DOMAIN P : i < k /\ P[k].done => P[i].done

(* An answer holds rows only if it is one to a fetch, and whole ones are rows. *)
AnswersAreRows(P) ==
    \A k \in DOMAIN P :
        /\ P[k].found # {} => P[k].done /\ P[k].call.op \in {"find", "query"}
        /\ \A x \in P[k].found : ~x.bare => x.row # NoRow

(* A record in creation has one Model, which is not in use yet. *)
CreationsArePending(P, ms) ==
    \A id \in Id : \A k \in DOMAIN P : Creates(P[k], id) =>
        /\ P[k].call.model \in DOMAIN ms[id]
        /\ ms[id][P[k].call.model].status = "pending"
        /\ IsLive(P[k].call.row)
        /\ \A l \in DOMAIN P : Creates(P[l], id) => l = k

(* A reset is the last call; once done, the tables are empty. *)
ResetIsLast(P, r, st, rs) ==
    \A k \in DOMAIN P : P[k].call.op = "unsafeResetDatabase" =>
        /\ rs
        /\ \A l \in DOMAIN P : l > k => P[l].call = Plain("clearCachedRecords")
        /\ P[k].done => st = {} /\ \A id \in Id : r[id] = NoRow

LiveIsCached(ms, ch) ==
    \A id \in Id : \A m \in DOMAIN ms[id] : ms[id][m].status = "live" => ch[id] = m

EditedIsCached(P, ch) ==
    \A id \in Id : \A k \in DOMAIN P : Edits(P[k], id) => ch[id] # 0

(* The Model in use, a row on its way to JavaScript and a record just created
   are those of a record that is there, but for what was removed since.      *)
LiveIsStored(r, ms, rs) ==
    \A id \in Id : NoneLive(ms, id) \/ IsLive(r[id]) \/ rs

ShownIsStored(P, r, rs) ==
    \A id \in Id : \A j \in DOMAIN P : Shows(P[j], id) =>
        \/ IsLive(r[id]) \/ rs
        \/ \E l \in DOMAIN P : l > j /\ P[l].done /\ Removes(P[l], id)

CreatedIsStored(P, r, rs) ==
    \A id \in Id : \A k \in DOMAIN P : Creates(P[k], id) /\ P[k].done => IsLive(r[id]) \/ rs

(* Nothing before the removal at k makes or shows the record. *)
Barren(P, r, k, id) ==
    /\ \A j \in DOMAIN P : j < k => ~Shows(P[j], id) /\ ~Edits(P[j], id) /\ ~Creates(P[j], id)
    /\ P[k].done \/ ~IsLive(r[id])

(* While a removal is on its way no Model of the record is in use, and none
   comes into use before JavaScript has seen it.                             *)
RemovedIsUnused(P, r, ms, ch) ==
    \A id \in Id : \A k \in DOMAIN P : Removes(P[k], id) =>
        /\ NoneLive(ms, id)
        /\ \/ Barren(P, r, k, id)
           \/ ch[id] # 0 /\ \A l \in DOMAIN P : l > k => ~Creates(P[l], id)

(* After a removal only a creation brings the record back. *)
RemovedStaysRemoved(P, r) ==
    \A id \in Id : \A i \in DOMAIN P : Removes(P[i], id) =>
        /\ \A j \in DOMAIN P : j > i => ~Edits(P[j], id)
        /\ \A j \in DOMAIN P : j > i /\ Shows(P[j], id) =>
             \E l \in DOMAIN P : i < l /\ l < j /\ Creates(P[l], id)
        /\ P[i].done /\ IsLive(r[id]) =>
             \E l \in DOMAIN P : i < l /\ P[l].done /\ Creates(P[l], id)

(* So it is when JavaScript has forgotten a record that was deleted. *)
ForgottenStaysRemoved(P, r, ms, ch) ==
    \A id \in Id : ch[id] = 0 /\ (\E m \in DOMAIN ms[id] : ms[id][m].status = "deleted") =>
        /\ \A j \in DOMAIN P : Shows(P[j], id) =>
             \E l \in DOMAIN P : l < j /\ Creates(P[l], id)
        /\ IsLive(r[id]) => \E l \in DOMAIN P : P[l].done /\ Creates(P[l], id)

(* A creation that has succeeded, or may: no Model of the record is in use, no
   earlier answer shows it, and nothing is done to it before JavaScript knows. *)
CreationIsFirst(P, r, ms) ==
    \A id \in Id : \A k \in DOMAIN P :
        /\ Creates(P[k], id)
        /\ \/ P[k].done \/ r[id] = NoRow
           \/ \E i \in DOMAIN P : i < k /\ Removes(P[i], id)
        => /\ NoneLive(ms, id)
           /\ \A j \in DOMAIN P : j < k => ~Shows(P[j], id)
           /\ \A j \in DOMAIN P : j > k => ~Writes(P[j], id)

(* The driver that answers inside the call has marked a new record as sent. *)
CreatedIsSent(P, st, rs) ==
    \A id \in Id : \A k \in DOMAIN P : Creates(P[k], id) /\ P[k].done => id \in st \/ rs

Lives(P, r, st, ms, ch, rs) ==
    /\ InOrder(P)
    /\ AnswersAreRows(P)
    /\ CreationsArePending(P, ms)
    /\ ResetIsLast(P, r, st, rs)
    /\ LiveIsCached(ms, ch)
    /\ EditedIsCached(P, ch)
    /\ LiveIsStored(r, ms, rs)
    /\ ShownIsStored(P, r, rs)
    /\ CreatedIsStored(P, r, rs)
    /\ RemovedIsUnused(P, r, ms, ch)
    /\ RemovedStaysRemoved(P, r)
    /\ ForgottenStaysRemoved(P, r, ms, ch)
    /\ CreationIsFirst(P, r, ms)

(* A call for a record names one, and writes a whole row; a record is at most
   once in an answer.                                                        *)
NamesRecords(P) ==
    \A k \in DOMAIN P :
        /\ P[k].call.op \notin {"query", "clearCachedRecords", "unsafeResetDatabase"} =>
             P[k].call.id \in Id
        /\ P[k].call.op \in {"create", "update"} => P[k].call.row \in Row
        /\ ~P[k].done => P[k].ok
        /\ \A x, y \in P[k].found : x.id = y.id => x = y

Drivers == [adapter : Adapters, rows : [Id -> Row \cup {NoRow}], sent : SUBSET Id]
Models  == [Id -> Seq([ver : 1..MaxVersion, status : Statuses])]

Alike(d, d2)           == d2.adapter = d.adapter
With(P, d, ms, ch, rs) == Lives(P, d.rows, d.sent, ms, ch, rs)
SentBy(P, d, rs)       == CreatedIsSent(P, d.sent, rs)

Holds(aq, cq, d, ms, ch, rs) ==
    /\ NamesRecords(LineOf(aq, cq))
    /\ d.adapter = "sqliteSync" => cq = <<>> /\ SentBy(LineOf(aq, cq), d, rs)
    /\ With(LineOf(aq, cq), d, ms, ch, rs)

CachingInv == TypeOK /\ Holds(answers, calls, driver, models, cache, resetting)

-----------------------------------------------------------------------------
(* How the queue changes.  N is its length. *)

Joins(P, Q, N, e) ==
    /\ DOMAIN P = 1..N /\ DOMAIN Q = 1..(N + 1)
    /\ \A k \in 1..N : Q[k] = P[k]
    /\ Q[N + 1] = e

Runs(P, Q, N, n, e) ==
    /\ DOMAIN P = 1..N /\ DOMAIN Q = 1..N /\ n \in 1..N
    /\ ~P[n].done /\ \A k \in 1..N : k < n => P[k].done
    /\ \A k \in 1..N : k # n => Q[k] = P[k]
    /\ Q[n] = e /\ e.done /\ e.call = P[n].call

Leaves(P, Q, N) ==
    /\ N > 0 /\ DOMAIN P = 1..N /\ DOMAIN Q = 1..(N - 1)
    /\ P[1].done
    /\ \A k \in 1..(N - 1) : Q[k] = P[k + 1]

(* No Model has the index that stands for none. *)
Indexed(ms) == \A id \in Id : \A m \in DOMAIN ms[id] : m \in Nat \ {0}

(* A call that writes nothing joins the queue: a fetch, a reset, a recovery. *)
LEMMA JoinQuiet ==
    ASSUME NEW P, NEW Q, NEW N, NEW e,
           NEW r, NEW st, NEW ms, NEW ch, NEW rs, NEW rs2,
           N \in Nat, rs \in BOOLEAN, rs2 \in BOOLEAN,
           Lives(P, r, st, ms, ch, rs), Joins(P, Q, N, e),
           ~e.done, e.found = {}, \A id \in Id : ~Writes(e, id),
           IF e.call = Plain("clearCachedRecords") THEN rs2 = rs
           ELSE ~rs /\ (e.call.op = "unsafeResetDatabase" => rs2)
    PROVE  Lives(Q, r, st, ms, ch, rs2)
<1>a. /\ \A id \in Id : ~Shows(e, id) /\ ~Creates(e, id) /\ ~Edits(e, id) /\ ~Removes(e, id)
      /\ rs => rs2
  BY DEF Shows, Writes, Creates, Edits, Removes
<1>b. /\ DOMAIN P = 1..N /\ DOMAIN Q = 1..(N + 1)
      /\ \A k \in 1..N : Q[k] = P[k]
      /\ Q[N + 1] = e
  BY DEF Joins
<1> USE <1>a, <1>b
<1>1. InOrder(Q)
  BY DEF Lives, InOrder
<1>2. AnswersAreRows(Q)
  BY DEF Lives, AnswersAreRows
<1>3. CreationsArePending(Q, ms)
  BY DEF Lives, CreationsArePending
<1>4. ResetIsLast(Q, r, st, rs2)
  BY DEF Lives, ResetIsLast, Plain
<1>5. LiveIsCached(ms, ch) /\ EditedIsCached(Q, ch)
  BY DEF Lives, EditedIsCached
<1>6. LiveIsStored(r, ms, rs2)
  BY DEF Lives, LiveIsStored
<1>7. ShownIsStored(Q, r, rs2)
  <2> SUFFICES ASSUME NEW id \in Id, NEW j \in DOMAIN Q, Shows(Q[j], id)
               PROVE  \/ IsLive(r[id]) \/ rs2
                      \/ \E l \in DOMAIN Q : l > j /\ Q[l].done /\ Removes(Q[l], id)
    BY DEF ShownIsStored
  <2>1. j \in DOMAIN P /\ Shows(P[j], id)
    OBVIOUS
  <2> QED BY <2>1 DEF Lives, ShownIsStored
<1>8. CreatedIsStored(Q, r, rs2)
  BY DEF Lives, CreatedIsStored
<1>9. RemovedIsUnused(Q, r, ms, ch)
  BY DEF Lives, RemovedIsUnused, Barren
<1>10. RemovedStaysRemoved(Q, r)
  BY DEF Lives, RemovedStaysRemoved
<1>11. ForgottenStaysRemoved(Q, r, ms, ch)
  BY DEF Lives, ForgottenStaysRemoved
<1>12. CreationIsFirst(Q, r, ms)
  BY DEF Lives, CreationIsFirst
<1> QED BY <1>1, <1>2, <1>3, <1>4, <1>5, <1>6, <1>7, <1>8, <1>9, <1>10, <1>11, <1>12 DEF Lives

(* Synchronization destroys a deleted record of which no call is under way. *)
LEMMA JoinDestroyDeleted ==
    ASSUME NEW P, NEW Q, NEW N, NEW e, NEW id0,
           NEW r, NEW st, NEW ms, NEW ch, NEW rs,
           N \in Nat, id0 \in Id, rs \in BOOLEAN,
           Lives(P, r, st, ms, ch, rs), Joins(P, Q, N, e), ~rs,
           ~e.done, e.found = {}, e.call.id = id0, e.call.op = "destroyDeletedRecords",
           ~IsLive(r[id0]), \A k \in DOMAIN P : ~Writes(P[k], id0)
    PROVE  Lives(Q, r, st, ms, ch, rs)
<1>a. /\ \A id \in Id : ~Shows(e, id) /\ ~Creates(e, id) /\ ~Edits(e, id)
      /\ \A id \in Id : Writes(e, id) \/ Removes(e, id) => id = id0
      /\ e.call.op # "unsafeResetDatabase"
  BY DEF Shows, Writes, Creates, Edits, Removes
<1>b. /\ DOMAIN P = 1..N /\ DOMAIN Q = 1..(N + 1)
      /\ \A k \in 1..N : Q[k] = P[k]
      /\ Q[N + 1] = e
  BY DEF Joins
<1>c. /\ NoneLive(ms, id0)
      /\ \A k \in 1..N : ~Creates(P[k], id0) /\ ~Edits(P[k], id0) /\ ~Removes(P[k], id0)
  BY <1>b DEF Lives, LiveIsStored, Writes, Creates, Edits, Removes
<1>d. \A k \in 1..N : ~Shows(P[k], id0)
  BY <1>b, <1>c DEF Lives, ShownIsStored
<1> USE <1>a, <1>b, <1>c, <1>d
<1>1. InOrder(Q)
  BY DEF Lives, InOrder
<1>2. AnswersAreRows(Q)
  BY DEF Lives, AnswersAreRows
<1>3. CreationsArePending(Q, ms)
  BY DEF Lives, CreationsArePending
<1>4. ResetIsLast(Q, r, st, rs)
  BY DEF Lives, ResetIsLast
<1>5. LiveIsCached(ms, ch) /\ EditedIsCached(Q, ch) /\ LiveIsStored(r, ms, rs)
  BY DEF Lives, EditedIsCached
<1>7. ShownIsStored(Q, r, rs)
  BY DEF Lives, ShownIsStored
<1>8. CreatedIsStored(Q, r, rs)
  BY DEF Lives, CreatedIsStored
<1>9. RemovedIsUnused(Q, r, ms, ch)
  BY DEF Lives, RemovedIsUnused, Barren
<1>10. RemovedStaysRemoved(Q, r)
  BY DEF Lives, RemovedStaysRemoved
<1>11. ForgottenStaysRemoved(Q, r, ms, ch)
  BY DEF Lives, ForgottenStaysRemoved
<1>12. CreationIsFirst(Q, r, ms)
  BY DEF Lives, CreationIsFirst
<1> QED BY <1>1, <1>2, <1>3, <1>4, <1>5, <1>7, <1>8, <1>9, <1>10, <1>11, <1>12 DEF Lives

(* A record that is not cached is created, with a new Model. *)
LEMMA JoinCreate ==
    ASSUME NEW P, NEW Q, NEW N, NEW e, NEW id0, NEW m,
           NEW r, NEW st, NEW ms, NEW ms2, NEW ch, NEW rs,
           N \in Nat, id0 \in Id, m \in Nat \ {0}, rs \in BOOLEAN,
           Lives(P, r, st, ms, ch, rs), Joins(P, Q, N, e), Indexed(ms), ~rs,
           ~e.done, e.found = {}, e.call.id = id0, e.call.op = "create", e.call.model = m,
           IsLive(e.call.row), ch[id0] = 0,
           \A n \in DOMAIN ms[id0] : ms[id0][n].status # "pending",
           \A id \in Id : id # id0 => ms2[id] = ms[id],
           m \notin DOMAIN ms[id0], DOMAIN ms2[id0] = DOMAIN ms[id0] \cup {m},
           ms2[id0][m].status = "pending",
           \A n \in DOMAIN ms[id0] : ms2[id0][n] = ms[id0][n]
    PROVE  Lives(Q, r, st, ms2, ch, rs)
<1>a. /\ \A id \in Id : ~Shows(e, id) /\ ~Removes(e, id) /\ ~Edits(e, id)
      /\ \A id \in Id : Writes(e, id) \/ Creates(e, id) => id = id0
      /\ e.call.op # "unsafeResetDatabase"
  BY DEF Shows, Writes, Creates, Edits, Removes
<1>b. /\ DOMAIN P = 1..N /\ DOMAIN Q = 1..(N + 1)
      /\ \A k \in 1..N : Q[k] = P[k]
      /\ Q[N + 1] = e
  BY DEF Joins
<1>c. /\ NoneLive(ms, id0)
      /\ \A k \in 1..N : ~Creates(P[k], id0) /\ ~Edits(P[k], id0)
  BY <1>b DEF Lives, LiveIsCached, NoneLive, Indexed, CreationsArePending, EditedIsCached
<1>d. \A id \in Id : NoneLive(ms, id) => NoneLive(ms2, id)
  BY DEF NoneLive
<1>e. \A i \in 1..N : Removes(P[i], id0) => Barren(P, r, i, id0)
  BY <1>b DEF Lives, RemovedIsUnused
<1>f. ASSUME r[id0] = NoRow \/ \E i \in 1..N : Removes(P[i], id0),
             NEW j \in 1..N, Shows(P[j], id0)
      PROVE  FALSE
  <2>1. CASE r[id0] = NoRow
    <3>1. PICK l \in 1..N : l > j /\ Removes(P[l], id0)
      BY <1>b, <1>f, <2>1 DEF Lives, ShownIsStored, IsLive
    <3> QED BY <1>b, <1>e, <1>f, <3>1 DEF Barren
  <2>2. CASE \E i \in 1..N : Removes(P[i], id0)
    <3>1. PICK i \in 1..N : Removes(P[i], id0)
      BY <2>2
    <3>2. ~(j < i)
      BY <1>b, <1>e, <1>f, <3>1 DEF Barren
    <3>3. ~(j > i)
      BY <1>b, <1>c, <1>f, <3>1 DEF Lives, RemovedStaysRemoved
    <3>4. j # i
      BY <1>b, <1>f, <3>1 DEF Lives, AnswersAreRows, Shows, Removes
    <3> QED BY <3>2, <3>3, <3>4
  <2> QED BY <1>f, <2>1, <2>2
<1> USE <1>a, <1>b, <1>c, <1>d
<1>1. InOrder(Q)
  BY DEF Lives, InOrder
<1>2. AnswersAreRows(Q)
  BY DEF Lives, AnswersAreRows
<1>3. CreationsArePending(Q, ms2)
  BY DEF Lives, CreationsArePending
<1>4. ResetIsLast(Q, r, st, rs)
  BY DEF Lives, ResetIsLast
<1>5. LiveIsCached(ms2, ch) /\ EditedIsCached(Q, ch)
  BY DEF Lives, EditedIsCached, LiveIsCached
<1>6. LiveIsStored(r, ms2, rs)
  BY DEF Lives, LiveIsStored
<1>7. ShownIsStored(Q, r, rs)
  BY DEF Lives, ShownIsStored
<1>8. CreatedIsStored(Q, r, rs)
  BY DEF Lives, CreatedIsStored
<1>9. RemovedIsUnused(Q, r, ms2, ch)
  BY DEF Lives, RemovedIsUnused, Barren
<1>10. RemovedStaysRemoved(Q, r)
  <2> SUFFICES ASSUME NEW id \in Id, NEW i \in 1..N, Removes(Q[i], id)
               PROVE  /\ \A j \in DOMAIN Q : j > i => ~Edits(Q[j], id)
                      /\ \A j \in DOMAIN Q : j > i /\ Shows(Q[j], id) =>
                           \E l \in DOMAIN Q : i < l /\ l < j /\ Creates(Q[l], id)
                      /\ Q[i].done /\ IsLive(r[id]) =>
                           \E l \in DOMAIN Q : i < l /\ Q[l].done /\ Creates(Q[l], id)
    BY DEF RemovedStaysRemoved
  <2>1. RemovedStaysRemoved(P, r)
    BY DEF Lives
  <2>2. \A j \in DOMAIN Q : j > i => ~Edits(Q[j], id)
    BY <2>1 DEF RemovedStaysRemoved
  <2>3. ASSUME NEW j \in DOMAIN Q, j > i, Shows(Q[j], id)
        PROVE  \E l \in DOMAIN Q : i < l /\ l < j /\ Creates(Q[l], id)
    <3>1. j \in 1..N /\ Shows(P[j], id) /\ Removes(P[i], id)
      BY <2>3
    <3>2. PICK l \in 1..N : i < l /\ l < j /\ Creates(P[l], id)
      BY <2>1, <2>3, <3>1 DEF RemovedStaysRemoved
    <3> QED BY <3>2
  <2>4. ASSUME Q[i].done, IsLive(r[id])
        PROVE  \E l \in DOMAIN Q : i < l /\ Q[l].done /\ Creates(Q[l], id)
    BY <2>1, <2>4 DEF RemovedStaysRemoved
  <2> QED BY <2>2, <2>3, <2>4
<1>11. ForgottenStaysRemoved(Q, r, ms2, ch)
  BY DEF Lives, ForgottenStaysRemoved
<1>12. CreationIsFirst(Q, r, ms2)
  BY <1>f DEF Lives, CreationIsFirst
<1> QED BY <1>1, <1>2, <1>3, <1>4, <1>5, <1>6, <1>7, <1>8, <1>9, <1>10, <1>11, <1>12 DEF Lives

(* A Model in use is updated. *)
LEMMA JoinUpdate ==
    ASSUME NEW P, NEW Q, NEW N, NEW e, NEW id0, NEW m,
           NEW r, NEW st, NEW ms, NEW ms2, NEW ch, NEW rs,
           N \in Nat, id0 \in Id, m \in Nat, rs \in BOOLEAN,
           Lives(P, r, st, ms, ch, rs), Joins(P, Q, N, e), Indexed(ms), ~rs,
           ~e.done, e.found = {}, e.call.id = id0, e.call.op = "update", ~e.call.row.deleted,
           m \in DOMAIN ms[id0], ms[id0][m].status = "live",
           \A id \in Id : DOMAIN ms2[id] = DOMAIN ms[id],
           \A id \in Id : \A n \in DOMAIN ms[id] : ms2[id][n].status = ms[id][n].status
    PROVE  Lives(Q, r, st, ms2, ch, rs)
<1>a. /\ \A id \in Id : ~Shows(e, id) /\ ~Removes(e, id) /\ ~Creates(e, id)
      /\ \A id \in Id : Writes(e, id) \/ Edits(e, id) => id = id0
      /\ e.call.op # "unsafeResetDatabase"
  BY DEF Shows, Writes, Creates, Edits, Removes
<1>b. /\ DOMAIN P = 1..N /\ DOMAIN Q = 1..(N + 1)
      /\ \A k \in 1..N : Q[k] = P[k]
      /\ Q[N + 1] = e
  BY DEF Joins
<1>c. /\ ~NoneLive(ms, id0) /\ ch[id0] # 0
      /\ \A k \in 1..N : ~Removes(P[k], id0)
  BY <1>b DEF Lives, LiveIsCached, NoneLive, Indexed, RemovedIsUnused
<1>d. \A id \in Id : NoneLive(ms, id) <=> NoneLive(ms2, id)
  BY DEF NoneLive
<1> USE <1>a, <1>b, <1>c, <1>d
<1>1. InOrder(Q)
  BY DEF Lives, InOrder
<1>2. AnswersAreRows(Q)
  BY DEF Lives, AnswersAreRows
<1>3. CreationsArePending(Q, ms2)
  BY DEF Lives, CreationsArePending
<1>4. ResetIsLast(Q, r, st, rs)
  BY DEF Lives, ResetIsLast
<1>5. LiveIsCached(ms2, ch) /\ EditedIsCached(Q, ch)
  BY DEF Lives, EditedIsCached, LiveIsCached
<1>6. LiveIsStored(r, ms2, rs)
  BY DEF Lives, LiveIsStored
<1>7. ShownIsStored(Q, r, rs)
  BY DEF Lives, ShownIsStored
<1>8. CreatedIsStored(Q, r, rs)
  BY DEF Lives, CreatedIsStored
<1>9. RemovedIsUnused(Q, r, ms2, ch)
  BY DEF Lives, RemovedIsUnused, Barren
<1>10. RemovedStaysRemoved(Q, r)
  BY DEF Lives, RemovedStaysRemoved
<1>11. ForgottenStaysRemoved(Q, r, ms2, ch)
  BY DEF Lives, ForgottenStaysRemoved
<1>12. CreationIsFirst(Q, r, ms2)
  BY DEF Lives, CreationIsFirst
<1> QED BY <1>1, <1>2, <1>3, <1>4, <1>5, <1>6, <1>7, <1>8, <1>9, <1>10, <1>11, <1>12 DEF Lives

(* A Model in use is marked as deleted. *)
LEMMA JoinMark ==
    ASSUME NEW P, NEW Q, NEW N, NEW e, NEW id0, NEW m,
           NEW r, NEW st, NEW ms, NEW ms2, NEW ch, NEW rs,
           N \in Nat, id0 \in Id, m \in Nat, rs \in BOOLEAN,
           Lives(P, r, st, ms, ch, rs), Joins(P, Q, N, e), Indexed(ms), ~rs,
           ~e.done, e.ok, e.found = {}, e.call.id = id0, e.call.op = "update", e.call.row.deleted,
           m \in DOMAIN ms[id0], ms[id0][m].status = "live",
           \A id \in Id : DOMAIN ms2[id] = DOMAIN ms[id],
           \A id \in Id : \A n \in DOMAIN ms[id] : <<id, n>> # <<id0, m>> => ms2[id][n] = ms[id][n],
           ms2[id0][m].status = "deleted"
    PROVE  Lives(Q, r, st, ms2, ch, rs)
<1>a. /\ \A id \in Id : ~Shows(e, id) /\ ~Edits(e, id) /\ ~Creates(e, id)
      /\ \A id \in Id : Writes(e, id) \/ Removes(e, id) => id = id0
      /\ e.call.op # "unsafeResetDatabase"
  BY DEF Shows, Writes, Creates, Edits, Removes
<1>b. /\ DOMAIN P = 1..N /\ DOMAIN Q = 1..(N + 1)
      /\ \A k \in 1..N : Q[k] = P[k]
      /\ Q[N + 1] = e
  BY DEF Joins
<1>c. /\ ~NoneLive(ms, id0) /\ ch[id0] # 0
      /\ \A k \in 1..N : ~Removes(P[k], id0)
  BY <1>b DEF Lives, LiveIsCached, NoneLive, Indexed, RemovedIsUnused
<1>d. /\ \A id \in Id : NoneLive(ms, id) => NoneLive(ms2, id)
      /\ NoneLive(ms2, id0)
  BY DEF NoneLive, Lives, LiveIsCached
<1> USE <1>a, <1>b, <1>c, <1>d
<1>1. InOrder(Q)
  BY DEF Lives, InOrder
<1>2. AnswersAreRows(Q)
  BY DEF Lives, AnswersAreRows
<1>3. CreationsArePending(Q, ms2)
  BY DEF Lives, CreationsArePending
<1>4. ResetIsLast(Q, r, st, rs)
  BY DEF Lives, ResetIsLast
<1>5. LiveIsCached(ms2, ch) /\ EditedIsCached(Q, ch)
  BY DEF Lives, EditedIsCached, LiveIsCached
<1>6. LiveIsStored(r, ms2, rs)
  BY DEF Lives, LiveIsStored
<1>7. ShownIsStored(Q, r, rs)
  BY DEF Lives, ShownIsStored
<1>8. CreatedIsStored(Q, r, rs)
  BY DEF Lives, CreatedIsStored
<1>9. RemovedIsUnused(Q, r, ms2, ch)
  BY DEF Lives, RemovedIsUnused, Barren
<1>10. RemovedStaysRemoved(Q, r)
  BY DEF Lives, RemovedStaysRemoved
<1>11. ForgottenStaysRemoved(Q, r, ms2, ch)
  BY DEF Lives, ForgottenStaysRemoved
<1>12. CreationIsFirst(Q, r, ms2)
  BY DEF Lives, CreationIsFirst
<1> QED BY <1>1, <1>2, <1>3, <1>4, <1>5, <1>6, <1>7, <1>8, <1>9, <1>10, <1>11, <1>12 DEF Lives

(* A record is destroyed through a Model that is in use or was. *)
LEMMA JoinDestroy ==
    ASSUME NEW P, NEW Q, NEW N, NEW e, NEW id0, NEW m,
           NEW r, NEW st, NEW ms, NEW ms2, NEW ch, NEW rs,
           N \in Nat, id0 \in Id, m \in Nat, rs \in BOOLEAN,
           Lives(P, r, st, ms, ch, rs), Joins(P, Q, N, e), Indexed(ms), ~rs,
           ~e.done, e.ok, e.found = {}, e.call.id = id0, e.call.op = "destroyPermanently",
           m \in DOMAIN ms[id0], ms[id0][m].status \in {"live", "deleted"},
           \A n \in DOMAIN ms[id0] : n # m => ms[id0][n].status # "live",
           \A k \in DOMAIN P : Creates(P[k], id0) => P[k].call.model = m,
           \A id \in Id : DOMAIN ms2[id] = DOMAIN ms[id],
           \A id \in Id : \A n \in DOMAIN ms[id] : <<id, n>> # <<id0, m>> => ms2[id][n] = ms[id][n],
           ms2[id0][m].status = "deleted"
    PROVE  Lives(Q, r, st, ms2, ch, rs)
<1>a. /\ \A id \in Id : ~Shows(e, id) /\ ~Edits(e, id) /\ ~Creates(e, id)
      /\ \A id \in Id : Writes(e, id) \/ Removes(e, id) => id = id0
      /\ e.call.op # "unsafeResetDatabase"
  BY DEF Shows, Writes, Creates, Edits, Removes
<1>b. /\ DOMAIN P = 1..N /\ DOMAIN Q = 1..(N + 1)
      /\ \A k \in 1..N : Q[k] = P[k]
      /\ Q[N + 1] = e
  BY DEF Joins
<1>c. \A k \in 1..N : ~Creates(P[k], id0)
  BY <1>b DEF Lives, CreationsArePending
<1>d. /\ \A id \in Id : NoneLive(ms, id) => NoneLive(ms2, id)
      /\ NoneLive(ms2, id0)
  BY DEF NoneLive
<1>e. ch[id0] = 0 => ms[id0][m].status = "deleted"
  BY DEF Lives, LiveIsCached, Indexed
<1>f. ASSUME ch[id0] = 0
      PROVE  /\ \A j \in 1..N : ~Shows(P[j], id0) /\ ~Edits(P[j], id0)
             /\ ~IsLive(r[id0])
  BY <1>b, <1>c, <1>e, <1>f DEF Lives, ForgottenStaysRemoved, EditedIsCached
<1> USE <1>a, <1>b, <1>c, <1>d
<1>1. InOrder(Q)
  BY DEF Lives, InOrder
<1>2. AnswersAreRows(Q)
  BY DEF Lives, AnswersAreRows
<1>3. CreationsArePending(Q, ms2)
  BY DEF Lives, CreationsArePending
<1>4. ResetIsLast(Q, r, st, rs)
  BY DEF Lives, ResetIsLast
<1>5. LiveIsCached(ms2, ch) /\ EditedIsCached(Q, ch)
  BY DEF Lives, EditedIsCached, LiveIsCached
<1>6. LiveIsStored(r, ms2, rs)
  BY DEF Lives, LiveIsStored
<1>7. ShownIsStored(Q, r, rs)
  BY DEF Lives, ShownIsStored
<1>8. CreatedIsStored(Q, r, rs)
  BY DEF Lives, CreatedIsStored
<1>9. RemovedIsUnused(Q, r, ms2, ch)
  BY <1>f DEF Lives, RemovedIsUnused, Barren
<1>10. RemovedStaysRemoved(Q, r)
  BY DEF Lives, RemovedStaysRemoved
<1>11. ForgottenStaysRemoved(Q, r, ms2, ch)
  BY <1>e DEF Lives, ForgottenStaysRemoved
<1>12. CreationIsFirst(Q, r, ms2)
  BY DEF Lives, CreationIsFirst
<1> QED BY <1>1, <1>2, <1>3, <1>4, <1>5, <1>6, <1>7, <1>8, <1>9, <1>10, <1>11, <1>12 DEF Lives

(* The driver fails a call: nothing is changed. *)
LEMMA RunFailed ==
    ASSUME NEW P, NEW Q, NEW N, NEW n, NEW e,
           NEW r, NEW st, NEW ms, NEW ch, NEW rs,
           N \in Nat, rs \in BOOLEAN,
           Lives(P, r, st, ms, ch, rs), Runs(P, Q, N, n, e),
           ~e.ok, e.found = {}, e.call.op # "unsafeResetDatabase"
    PROVE  Lives(Q, r, st, ms, ch, rs)
<1>b. /\ DOMAIN P = 1..N /\ DOMAIN Q = 1..N /\ n \in 1..N
      /\ ~P[n].done /\ \A k \in 1..N : k < n => P[k].done
      /\ \A k \in 1..N : k # n => Q[k] = P[k]
      /\ Q[n] = e /\ e.done /\ e.call = P[n].call
  BY DEF Runs
<1>i. \A k \in 1..N : P[k].done => k < n
  BY <1>b DEF Lives, InOrder
<1>s. \A id \in Id : \A k \in 1..N : Shows(P[k], id) => k < n
  BY <1>b, <1>i DEF Lives, AnswersAreRows, Shows
<1>q. \A k \in 1..N : /\ Q[k].call = P[k].call
                      /\ Q[k].done <=> k <= n
                      /\ P[k].done <=> k < n
                      /\ P[k].done => Q[k] = P[k]
  BY <1>b, <1>i
<1>a. \A id \in Id : /\ ~Shows(e, id) /\ ~Creates(e, id) /\ ~Removes(e, id)
                     /\ Writes(e, id) <=> Writes(P[n], id)
                     /\ Edits(e, id) <=> Edits(P[n], id)
                     /\ ~Shows(P[n], id)
  BY <1>b DEF Shows, Creates, Removes, Writes, Edits, Lives, AnswersAreRows
<1>d. \A id \in Id : \A k \in 1..N :
      /\ Writes(Q[k], id) <=> Writes(P[k], id)
      /\ Edits(Q[k], id) <=> Edits(P[k], id)
      /\ Creates(Q[k], id) => Creates(P[k], id) /\ k # n
      /\ Removes(Q[k], id) => Removes(P[k], id) /\ k # n
      /\ Shows(Q[k], id) <=> Shows(P[k], id)
  <2> SUFFICES ASSUME NEW id \in Id, NEW k \in 1..N
               PROVE  /\ Writes(Q[k], id) <=> Writes(P[k], id)
                      /\ Edits(Q[k], id) <=> Edits(P[k], id)
                      /\ Creates(Q[k], id) => Creates(P[k], id) /\ k # n
                      /\ Removes(Q[k], id) => Removes(P[k], id) /\ k # n
                      /\ Shows(Q[k], id) <=> Shows(P[k], id)
    OBVIOUS
  <2>1. CASE k = n
    BY <2>1, <1>a, <1>b
  <2>2. CASE k # n
    BY <2>2, <1>b, <1>i
  <2> QED BY <2>1, <2>2
<1>1. InOrder(Q)
  BY <1>b, <1>q, <1>s, <1>d DEF Lives, InOrder
<1>2. AnswersAreRows(Q)
  BY <1>b, <1>q, <1>s, <1>d DEF Lives, AnswersAreRows
<1>3. CreationsArePending(Q, ms)
  BY <1>b, <1>q, <1>s, <1>d DEF Lives, CreationsArePending
<1>4. ResetIsLast(Q, r, st, rs)
  BY <1>b, <1>q, <1>s, <1>d DEF Lives, ResetIsLast
<1>5. LiveIsCached(ms, ch)
  BY <1>b, <1>q, <1>s, <1>d DEF Lives, LiveIsCached
<1>6. EditedIsCached(Q, ch)
  BY <1>b, <1>q, <1>s, <1>d DEF Lives, EditedIsCached
<1>7. LiveIsStored(r, ms, rs)
  BY <1>b, <1>q, <1>s, <1>d DEF Lives, LiveIsStored
<1>8. ShownIsStored(Q, r, rs)
  BY <1>b, <1>q, <1>s, <1>d DEF Lives, ShownIsStored
<1>9. CreatedIsStored(Q, r, rs)
  BY <1>b, <1>q, <1>s, <1>d DEF Lives, CreatedIsStored
<1>10. RemovedIsUnused(Q, r, ms, ch)
  BY <1>b, <1>q, <1>s, <1>d DEF Lives, RemovedIsUnused, Barren
<1>11. RemovedStaysRemoved(Q, r)
  BY <1>b, <1>q, <1>s, <1>d DEF Lives, RemovedStaysRemoved
<1>12. ForgottenStaysRemoved(Q, r, ms, ch)
  BY <1>b, <1>q, <1>s, <1>d DEF Lives, ForgottenStaysRemoved
<1>13. CreationIsFirst(Q, r, ms)
  BY <1>b, <1>q, <1>s, <1>d DEF Lives, CreationIsFirst
<1> QED BY <1>1, <1>2, <1>3, <1>4, <1>5, <1>6, <1>7, <1>8, <1>9, <1>10, <1>11,
            <1>12, <1>13 DEF Lives

(* The driver answers a call that writes nothing: a fetch, or a recovery. *)
LEMMA RunQuiet ==
    ASSUME NEW P, NEW Q, NEW N, NEW n, NEW e,
           NEW r, NEW st, NEW st2, NEW ms, NEW ch, NEW rs,
           N \in Nat, st2 \in SUBSET Id, rs \in BOOLEAN,
           Lives(P, r, st, ms, ch, rs), Runs(P, Q, N, n, e),
           e.call.op \in {"find", "query", "clearCachedRecords"},
           e.call.op = "clearCachedRecords" => e.found = {} /\ st2 = {},
           \A x \in e.found : ~x.bare => x.row # NoRow /\ x.row = r[x.id]
    PROVE  Lives(Q, r, st2, ms, ch, rs)
<1>b. /\ DOMAIN P = 1..N /\ DOMAIN Q = 1..N /\ n \in 1..N
      /\ ~P[n].done /\ \A k \in 1..N : k < n => P[k].done
      /\ \A k \in 1..N : k # n => Q[k] = P[k]
      /\ Q[n] = e /\ e.done /\ e.call = P[n].call
  BY DEF Runs
<1>i. \A k \in 1..N : P[k].done => k < n
  BY <1>b DEF Lives, InOrder
<1>s. \A id \in Id : \A k \in 1..N : Shows(P[k], id) => k < n
  BY <1>b, <1>i DEF Lives, AnswersAreRows, Shows
<1>q. \A k \in 1..N : /\ Q[k].call = P[k].call
                      /\ Q[k].done <=> k <= n
                      /\ P[k].done <=> k < n
                      /\ P[k].done => Q[k] = P[k]
  BY <1>b, <1>i
<1>a. \A id \in Id : /\ ~Writes(e, id) /\ ~Edits(e, id) /\ ~Creates(e, id) /\ ~Removes(e, id)
                     /\ ~Writes(P[n], id) /\ ~Edits(P[n], id) /\ ~Creates(P[n], id) /\ ~Removes(P[n], id)
                     /\ Shows(e, id) => IsLive(r[id])
                     /\ ~Shows(P[n], id)
  BY <1>b DEF Writes, Edits, Shows, Creates, Removes, Lives, AnswersAreRows
<1>d. \A id \in Id : \A k \in 1..N :
      /\ Writes(Q[k], id) <=> Writes(P[k], id)
      /\ Edits(Q[k], id) <=> Edits(P[k], id)
      /\ Creates(Q[k], id) <=> Creates(P[k], id)
      /\ Removes(Q[k], id) <=> Removes(P[k], id)
      /\ Creates(Q[k], id) \/ Removes(Q[k], id) => k # n
      /\ Shows(Q[k], id) => Shows(P[k], id) \/ (k = n /\ IsLive(r[id]))
  <2> SUFFICES ASSUME NEW id \in Id, NEW k \in 1..N
               PROVE  /\ Writes(Q[k], id) <=> Writes(P[k], id)
                      /\ Edits(Q[k], id) <=> Edits(P[k], id)
                      /\ Creates(Q[k], id) <=> Creates(P[k], id)
                      /\ Removes(Q[k], id) <=> Removes(P[k], id)
                      /\ Creates(Q[k], id) \/ Removes(Q[k], id) => k # n
                      /\ Shows(Q[k], id) => Shows(P[k], id) \/ (k = n /\ IsLive(r[id]))
    OBVIOUS
  <2>1. CASE k = n
    BY <2>1, <1>a, <1>b
  <2>2. CASE k # n
    BY <2>2, <1>b, <1>i
  <2> QED BY <2>1, <2>2
<1>1. InOrder(Q)
  BY <1>b, <1>q, <1>s, <1>d DEF Lives, InOrder
<1>2. AnswersAreRows(Q)
  BY <1>b, <1>q, <1>s, <1>d DEF Lives, AnswersAreRows
<1>3. CreationsArePending(Q, ms)
  BY <1>b, <1>q, <1>s, <1>d DEF Lives, CreationsArePending
<1>4. ResetIsLast(Q, r, st2, rs)
  <2> SUFFICES ASSUME NEW k \in 1..N, P[k].call.op = "unsafeResetDatabase"
               PROVE  /\ rs
                      /\ \A l \in 1..N : l > k => P[l].call = Plain("clearCachedRecords")
                      /\ k <= n => st2 = {} /\ \A id \in Id : r[id] = NoRow
    BY <1>b, <1>q, <1>s, <1>d DEF ResetIsLast
  <2>1. /\ rs
        /\ \A l \in 1..N : l > k => P[l].call = Plain("clearCachedRecords")
        /\ P[k].done => \A id \in Id : r[id] = NoRow
    BY <1>b DEF Lives, ResetIsLast
  <2>2. ASSUME k <= n
        PROVE  st2 = {} /\ \A id \in Id : r[id] = NoRow
    <3>1. k # n
      BY <1>b
    <3>2. P[n].call = Plain("clearCachedRecords") /\ P[k].done
      BY <1>b, <2>1, <2>2, <3>1
    <3>3. e.call.op = "clearCachedRecords"
      BY <1>b, <3>2 DEF Plain
    <3> QED BY <2>1, <3>2, <3>3
  <2> QED BY <2>1, <2>2
<1>5. LiveIsCached(ms, ch)
  BY <1>b, <1>q, <1>s, <1>d DEF Lives, LiveIsCached
<1>6. EditedIsCached(Q, ch)
  BY <1>b, <1>q, <1>s, <1>d DEF Lives, EditedIsCached
<1>7. LiveIsStored(r, ms, rs)
  BY <1>b, <1>q, <1>s, <1>d DEF Lives, LiveIsStored
<1>8. ShownIsStored(Q, r, rs)
  BY <1>b, <1>q, <1>s, <1>d DEF Lives, ShownIsStored
<1>9. CreatedIsStored(Q, r, rs)
  BY <1>b, <1>q, <1>s, <1>d DEF Lives, CreatedIsStored
<1>10. RemovedIsUnused(Q, r, ms, ch)
  BY <1>b, <1>q, <1>s, <1>d DEF Lives, RemovedIsUnused, Barren
<1>11. RemovedStaysRemoved(Q, r)
  BY <1>b, <1>q, <1>s, <1>d DEF Lives, RemovedStaysRemoved
<1>12. ForgottenStaysRemoved(Q, r, ms, ch)
  BY <1>b, <1>q, <1>s, <1>d DEF Lives, ForgottenStaysRemoved
<1>13. CreationIsFirst(Q, r, ms)
  <2> SUFFICES ASSUME NEW id \in Id, NEW k \in 1..N, Creates(Q[k], id),
                      \/ Q[k].done \/ r[id] = NoRow
                      \/ \E i \in 1..N : i < k /\ Removes(Q[i], id)
               PROVE  /\ NoneLive(ms, id)
                      /\ \A j \in 1..N : j < k => ~Shows(Q[j], id)
                      /\ \A j \in 1..N : j > k => ~Writes(Q[j], id)
    BY <1>b DEF CreationIsFirst
  <2>1. /\ NoneLive(ms, id)
        /\ \A j \in 1..N : j < k => ~Shows(P[j], id)
        /\ \A j \in 1..N : j > k => ~Writes(P[j], id)
    <3>1. Creates(P[k], id) /\ (\/ P[k].done \/ r[id] = NoRow \/ \E i \in 1..N : i < k /\ Removes(P[i], id))
      BY <1>b, <1>q, <1>d
    <3> QED BY <1>b, <3>1 DEF Lives, CreationIsFirst
  <2>2. ASSUME n < k PROVE ~IsLive(r[id])
    <3>1. Creates(P[k], id) /\ ~P[k].done
      BY <1>b, <1>q, <1>d, <2>2
    <3>2. CASE r[id] = NoRow
      BY <3>2 DEF IsLive
    <3>3. CASE \E i \in 1..N : i < k /\ Removes(P[i], id)
      <4>1. PICK i \in 1..N : i < k /\ Removes(P[i], id)
        BY <3>3
      <4>2. CASE P[i].done
        <5>1. ASSUME IsLive(r[id]) PROVE \E l \in 1..N : P[l].done /\ Creates(P[l], id)
          BY <1>b, <4>1, <4>2, <5>1 DEF Lives, RemovedStaysRemoved
        <5>2. \A l \in 1..N : Creates(P[l], id) => l = k
          BY <1>b, <3>1 DEF Lives, CreationsArePending
        <5> QED BY <3>1, <5>1, <5>2
      <4>3. CASE ~P[i].done
        <5>1. Barren(P, r, i, id)
          BY <1>b, <3>1, <4>1 DEF Lives, RemovedIsUnused
        <5> QED BY <4>3, <5>1 DEF Barren
      <4> QED BY <4>2, <4>3
    <3> QED BY <1>b, <1>q, <1>d, <2>2, <3>2, <3>3
  <2> QED BY <1>q, <1>d, <1>b, <2>1, <2>2
<1> QED BY <1>1, <1>2, <1>3, <1>4, <1>5, <1>6, <1>7, <1>8, <1>9, <1>10, <1>11,
            <1>12, <1>13 DEF Lives

(* The driver makes the record of a creation. *)
LEMMA RunCreate ==
    ASSUME NEW P, NEW Q, NEW N, NEW n, NEW e, NEW id0,
           NEW r, NEW r2, NEW st, NEW st2, NEW ms, NEW ch, NEW rs,
           N \in Nat, id0 \in Id, st2 \in SUBSET Id, rs \in BOOLEAN,
           Lives(P, r, st, ms, ch, rs), Runs(P, Q, N, n, e), P[n].ok,
           e.ok, e.found = {}, e.call.op = "create", e.call.id = id0,
           r[id0] = NoRow, r2[id0] = e.call.row,
           \A id \in Id : id # id0 => r2[id] = r[id]
    PROVE  Lives(Q, r2, st2, ms, ch, rs)
<1>b. /\ DOMAIN P = 1..N /\ DOMAIN Q = 1..N /\ n \in 1..N
      /\ ~P[n].done /\ \A k \in 1..N : k < n => P[k].done
      /\ \A k \in 1..N : k # n => Q[k] = P[k]
      /\ Q[n] = e /\ e.done /\ e.call = P[n].call
  BY DEF Runs
<1>i. \A k \in 1..N : P[k].done => k < n
  BY <1>b DEF Lives, InOrder
<1>s. \A id \in Id : \A k \in 1..N : Shows(P[k], id) => k < n
  BY <1>b, <1>i DEF Lives, AnswersAreRows, Shows
<1>q. \A k \in 1..N : /\ Q[k].call = P[k].call
                      /\ Q[k].done <=> k <= n
                      /\ P[k].done <=> k < n
                      /\ P[k].done => Q[k] = P[k]
  BY <1>b, <1>i
<1>a. \A id \in Id : /\ ~Edits(e, id) /\ ~Removes(e, id) /\ ~Shows(e, id)
                     /\ ~Edits(P[n], id) /\ ~Removes(P[n], id) /\ ~Shows(P[n], id)
                     /\ Creates(e, id) <=> id = id0
                     /\ Creates(P[n], id) <=> id = id0
                     /\ Writes(e, id) <=> Writes(P[n], id)
  BY <1>b DEF Writes, Edits, Shows, Creates, Removes, Lives, AnswersAreRows
<1>c. /\ IsLive(r2[id0]) /\ r2[id0] # NoRow
      /\ NoneLive(ms, id0)
      /\ \A j \in 1..N : j < n => ~Shows(P[j], id0)
      /\ \A j \in 1..N : j > n => ~Writes(P[j], id0)
      /\ \A j \in 1..N : Removes(P[j], id0) => Writes(P[j], id0)
      /\ \A j \in 1..N : Creates(P[j], id0) => j = n
  <2>1. Creates(P[n], id0) /\ CreationsArePending(P, ms) /\ CreationIsFirst(P, r, ms)
    BY <1>a DEF Lives
  <2>2. IsLive(r2[id0]) /\ \A j \in 1..N : Creates(P[j], id0) => j = n
    BY <1>b, <2>1 DEF CreationsArePending
  <2>3. NoneLive(ms, id0) /\ \A j \in 1..N : (j < n => ~Shows(P[j], id0)) /\ (j > n => ~Writes(P[j], id0))
    BY <1>b, <2>1 DEF CreationIsFirst
  <2>4. \A j \in 1..N : Removes(P[j], id0) => Writes(P[j], id0)
    BY DEF Removes, Writes
  <2> QED BY <2>2, <2>3, <2>4 DEF IsLive
<1>d. \A id \in Id : \A k \in 1..N :
      /\ Writes(Q[k], id) <=> Writes(P[k], id)
      /\ Edits(Q[k], id) <=> Edits(P[k], id)
      /\ Creates(Q[k], id) <=> Creates(P[k], id)
      /\ Removes(Q[k], id) <=> Removes(P[k], id)
      /\ Shows(Q[k], id) <=> Shows(P[k], id)
  <2> SUFFICES ASSUME NEW id \in Id, NEW k \in 1..N
               PROVE  /\ Writes(Q[k], id) <=> Writes(P[k], id)
                      /\ Edits(Q[k], id) <=> Edits(P[k], id)
                      /\ Creates(Q[k], id) <=> Creates(P[k], id)
                      /\ Removes(Q[k], id) <=> Removes(P[k], id)
                      /\ Shows(Q[k], id) <=> Shows(P[k], id)
    OBVIOUS
  <2>1. CASE k = n
    BY <2>1, <1>a, <1>b
  <2>2. CASE k # n
    BY <2>2, <1>b, <1>i
  <2> QED BY <2>1, <2>2
<1>1. InOrder(Q)
  BY <1>a, <1>b, <1>c, <1>q, <1>s, <1>d DEF Lives, InOrder
<1>2. AnswersAreRows(Q)
  BY <1>a, <1>b, <1>c, <1>q, <1>s, <1>d DEF Lives, AnswersAreRows
<1>3. CreationsArePending(Q, ms)
  BY <1>a, <1>b, <1>c, <1>q, <1>s, <1>d DEF Lives, CreationsArePending
<1>4. ResetIsLast(Q, r2, st2, rs)
  BY <1>b, <1>q, <1>s, <1>d DEF Lives, ResetIsLast, Plain
<1>5. LiveIsCached(ms, ch)
  BY <1>a, <1>b, <1>c, <1>q, <1>s, <1>d DEF Lives, LiveIsCached
<1>6. EditedIsCached(Q, ch)
  BY <1>a, <1>b, <1>c, <1>q, <1>s, <1>d DEF Lives, EditedIsCached
<1>7. LiveIsStored(r2, ms, rs)
  BY <1>a, <1>b, <1>c, <1>q, <1>s, <1>d DEF Lives, LiveIsStored
<1>8. ShownIsStored(Q, r2, rs)
  BY <1>a, <1>b, <1>c, <1>q, <1>s, <1>d DEF Lives, ShownIsStored
<1>9. CreatedIsStored(Q, r2, rs)
  BY <1>a, <1>b, <1>c, <1>q, <1>s, <1>d DEF Lives, CreatedIsStored
<1>10. RemovedIsUnused(Q, r2, ms, ch)
  BY <1>a, <1>b, <1>c, <1>q, <1>s, <1>d DEF Lives, RemovedIsUnused, Barren
<1>11. RemovedStaysRemoved(Q, r2)
  BY <1>a, <1>b, <1>c, <1>q, <1>s, <1>d DEF Lives, RemovedStaysRemoved
<1>12. ForgottenStaysRemoved(Q, r2, ms, ch)
  BY <1>a, <1>b, <1>c, <1>q, <1>s, <1>d DEF Lives, ForgottenStaysRemoved
<1>13. CreationIsFirst(Q, r2, ms)
  BY <1>a, <1>b, <1>c, <1>q, <1>s, <1>d DEF Lives, CreationIsFirst
<1> QED BY <1>1, <1>2, <1>3, <1>4, <1>5, <1>6, <1>7, <1>8, <1>9, <1>10, <1>11,
            <1>12, <1>13 DEF Lives

(* The driver updates a record, unless it is not there. *)
LEMMA RunUpdate ==
    ASSUME NEW P, NEW Q, NEW N, NEW n, NEW e, NEW id0,
           NEW r, NEW r2, NEW st, NEW ms, NEW ch, NEW rs,
           N \in Nat, id0 \in Id, rs \in BOOLEAN,
           Lives(P, r, st, ms, ch, rs), Runs(P, Q, N, n, e), P[n].ok,
           e.ok, e.found = {}, e.call.op = "update", e.call.id = id0, ~e.call.row.deleted,
           IF r[id0] = NoRow THEN r2[id0] = NoRow ELSE IsLive(r2[id0]),
           \A id \in Id : id # id0 => r2[id] = r[id]
    PROVE  Lives(Q, r2, st, ms, ch, rs)
<1>b. /\ DOMAIN P = 1..N /\ DOMAIN Q = 1..N /\ n \in 1..N
      /\ ~P[n].done /\ \A k \in 1..N : k < n => P[k].done
      /\ \A k \in 1..N : k # n => Q[k] = P[k]
      /\ Q[n] = e /\ e.done /\ e.call = P[n].call
  BY DEF Runs
<1>i. \A k \in 1..N : P[k].done => k < n
  BY <1>b DEF Lives, InOrder
<1>s. \A id \in Id : \A k \in 1..N : Shows(P[k], id) => k < n
  BY <1>b, <1>i DEF Lives, AnswersAreRows, Shows
<1>q. \A k \in 1..N : /\ Q[k].call = P[k].call
                      /\ Q[k].done <=> k <= n
                      /\ P[k].done <=> k < n
                      /\ P[k].done => Q[k] = P[k]
  BY <1>b, <1>i
<1>a. /\ \A id \in Id : /\ ~Creates(e, id) /\ ~Removes(e, id) /\ ~Shows(e, id)
                        /\ ~Creates(P[n], id) /\ ~Removes(P[n], id) /\ ~Shows(P[n], id)
                        /\ Edits(e, id) <=> id = id0
                        /\ Edits(P[n], id) <=> id = id0
                        /\ Writes(e, id) <=> Writes(P[n], id)
      /\ P[n].call.op # "unsafeResetDatabase"
      /\ P[n].call # Plain("clearCachedRecords")
  BY <1>b DEF Writes, Edits, Shows, Creates, Removes, Lives, AnswersAreRows, Plain
<1>c. /\ ch[id0] # 0
      /\ r[id0] = NoRow <=> r2[id0] = NoRow
      /\ \A id \in Id : IsLive(r[id]) => IsLive(r2[id])
      /\ \A i \in 1..N : i < n => ~Removes(P[i], id0)
  <2>1. ch[id0] # 0
    BY <1>a, <1>b DEF Lives, EditedIsCached
  <2>2. /\ r[id0] = NoRow <=> r2[id0] = NoRow
        /\ \A id \in Id : IsLive(r[id]) => IsLive(r2[id])
    BY DEF IsLive
  <2>3. \A i \in 1..N : i < n => ~Removes(P[i], id0)
    BY <1>a, <1>b DEF Lives, RemovedStaysRemoved
  <2> QED BY <2>1, <2>2, <2>3
<1>d. \A id \in Id : \A k \in 1..N :
      /\ Writes(Q[k], id) <=> Writes(P[k], id)
      /\ Edits(Q[k], id) <=> Edits(P[k], id)
      /\ Creates(Q[k], id) <=> Creates(P[k], id)
      /\ Removes(Q[k], id) <=> Removes(P[k], id)
      /\ Shows(Q[k], id) <=> Shows(P[k], id)
      /\ Creates(Q[k], id) \/ Removes(Q[k], id) => k # n
  <2> SUFFICES ASSUME NEW id \in Id, NEW k \in 1..N
               PROVE  /\ Writes(Q[k], id) <=> Writes(P[k], id)
                      /\ Edits(Q[k], id) <=> Edits(P[k], id)
                      /\ Creates(Q[k], id) <=> Creates(P[k], id)
                      /\ Removes(Q[k], id) <=> Removes(P[k], id)
                      /\ Shows(Q[k], id) <=> Shows(P[k], id)
                      /\ Creates(Q[k], id) \/ Removes(Q[k], id) => k # n
    OBVIOUS
  <2>1. CASE k = n
    BY <2>1, <1>a, <1>b
  <2>2. CASE k # n
    BY <2>2, <1>b, <1>i
  <2> QED BY <2>1, <2>2
<1>1. InOrder(Q)
  BY <1>a, <1>b, <1>c, <1>q, <1>s, <1>d DEF Lives, InOrder
<1>2. AnswersAreRows(Q)
  BY <1>a, <1>b, <1>c, <1>q, <1>s, <1>d DEF Lives, AnswersAreRows
<1>3. CreationsArePending(Q, ms)
  BY <1>a, <1>b, <1>c, <1>q, <1>s, <1>d DEF Lives, CreationsArePending
<1>4. ResetIsLast(Q, r2, st, rs)
  <2> SUFFICES ASSUME NEW k \in 1..N, P[k].call.op = "unsafeResetDatabase" PROVE k >= n /\ rs /\
                      \A l \in 1..N : l > k => P[l].call = Plain("clearCachedRecords")
    BY <1>b, <1>q, <1>a DEF ResetIsLast
  <2>1. /\ rs
        /\ \A l \in 1..N : l > k => P[l].call = Plain("clearCachedRecords")
    BY <1>b DEF Lives, ResetIsLast
  <2> QED BY <1>b, <1>a, <2>1 DEF Plain
<1>5. LiveIsCached(ms, ch)
  BY <1>a, <1>b, <1>c, <1>q, <1>s, <1>d DEF Lives, LiveIsCached
<1>6. EditedIsCached(Q, ch)
  BY <1>a, <1>b, <1>c, <1>q, <1>s, <1>d DEF Lives, EditedIsCached
<1>7. LiveIsStored(r2, ms, rs)
  BY <1>a, <1>b, <1>c, <1>q, <1>s, <1>d DEF Lives, LiveIsStored
<1>8. ShownIsStored(Q, r2, rs)
  BY <1>a, <1>b, <1>c, <1>q, <1>s, <1>d DEF Lives, ShownIsStored
<1>9. CreatedIsStored(Q, r2, rs)
  BY <1>a, <1>b, <1>c, <1>q, <1>s, <1>d DEF Lives, CreatedIsStored
<1>10. RemovedIsUnused(Q, r2, ms, ch)
  BY <1>a, <1>b, <1>c, <1>q, <1>s, <1>d DEF Lives, RemovedIsUnused, Barren
<1>11. RemovedStaysRemoved(Q, r2)
  BY <1>a, <1>b, <1>c, <1>q, <1>s, <1>d DEF Lives, RemovedStaysRemoved
<1>12. ForgottenStaysRemoved(Q, r2, ms, ch)
  BY <1>a, <1>b, <1>c, <1>q, <1>s, <1>d DEF Lives, ForgottenStaysRemoved
<1>13. CreationIsFirst(Q, r2, ms)
  BY <1>a, <1>b, <1>c, <1>q, <1>s, <1>d DEF Lives, CreationIsFirst
<1> QED BY <1>1, <1>2, <1>3, <1>4, <1>5, <1>6, <1>7, <1>8, <1>9, <1>10, <1>11,
            <1>12, <1>13 DEF Lives

(* The driver removes a record, or marks it as deleted. *)
LEMMA RunRemove ==
    ASSUME NEW P, NEW Q, NEW N, NEW n, NEW e, NEW id0,
           NEW r, NEW r2, NEW st, NEW st2, NEW ms, NEW ch, NEW rs,
           N \in Nat, id0 \in Id, st2 \in SUBSET Id, rs \in BOOLEAN,
           Lives(P, r, st, ms, ch, rs), Runs(P, Q, N, n, e), P[n].ok,
           e.ok, e.found = {}, Removes(e, id0),
           ~IsLive(r2[id0]),
           \A id \in Id : id # id0 => r2[id] = r[id]
    PROVE  Lives(Q, r2, st2, ms, ch, rs)
<1>b. /\ DOMAIN P = 1..N /\ DOMAIN Q = 1..N /\ n \in 1..N
      /\ ~P[n].done /\ \A k \in 1..N : k < n => P[k].done
      /\ \A k \in 1..N : k # n => Q[k] = P[k]
      /\ Q[n] = e /\ e.done /\ e.call = P[n].call
  BY DEF Runs
<1>i. \A k \in 1..N : P[k].done => k < n
  BY <1>b DEF Lives, InOrder
<1>s. \A id \in Id : \A k \in 1..N : Shows(P[k], id) => k < n
  BY <1>b, <1>i DEF Lives, AnswersAreRows, Shows
<1>q. \A k \in 1..N : /\ Q[k].call = P[k].call
                      /\ Q[k].done <=> k <= n
                      /\ P[k].done <=> k < n
                      /\ P[k].done => Q[k] = P[k]
  BY <1>b, <1>i
<1>a. /\ \A id \in Id : /\ ~Creates(e, id) /\ ~Edits(e, id) /\ ~Shows(e, id)
                        /\ ~Creates(P[n], id) /\ ~Edits(P[n], id) /\ ~Shows(P[n], id)
                        /\ Removes(e, id) <=> id = id0
                        /\ Removes(P[n], id) <=> id = id0
                        /\ Writes(e, id) <=> id = id0
                        /\ Writes(P[n], id) <=> id = id0
      /\ P[n].call.op # "unsafeResetDatabase"
      /\ P[n].call # Plain("clearCachedRecords")
  BY <1>b DEF Writes, Edits, Shows, Creates, Removes, Lives, AnswersAreRows, Plain
<1>c. /\ NoneLive(ms, id0)
      /\ \A k \in 1..N : k < n => ~Creates(P[k], id0)
      /\ \A id \in Id : IsLive(r2[id]) => IsLive(r[id]) /\ id # id0
  <2>1. NoneLive(ms, id0)
    BY <1>a, <1>b DEF Lives, RemovedIsUnused
  <2>2. \A k \in 1..N : k < n => ~Creates(P[k], id0)
    BY <1>a, <1>b DEF Lives, CreationIsFirst
  <2> QED BY <2>1, <2>2
<1>d. \A id \in Id : \A k \in 1..N :
      /\ Writes(Q[k], id) <=> Writes(P[k], id)
      /\ Edits(Q[k], id) <=> Edits(P[k], id)
      /\ Creates(Q[k], id) <=> Creates(P[k], id)
      /\ Removes(Q[k], id) <=> Removes(P[k], id)
      /\ Shows(Q[k], id) <=> Shows(P[k], id)
      /\ Creates(Q[k], id) => k # n
  <2> SUFFICES ASSUME NEW id \in Id, NEW k \in 1..N
               PROVE  /\ Writes(Q[k], id) <=> Writes(P[k], id)
                      /\ Edits(Q[k], id) <=> Edits(P[k], id)
                      /\ Creates(Q[k], id) <=> Creates(P[k], id)
                      /\ Removes(Q[k], id) <=> Removes(P[k], id)
                      /\ Shows(Q[k], id) <=> Shows(P[k], id)
                      /\ Creates(Q[k], id) => k # n
    OBVIOUS
  <2>1. CASE k = n
    BY <2>1, <1>a, <1>b
  <2>2. CASE k # n
    BY <2>2, <1>b, <1>i
  <2> QED BY <2>1, <2>2
<1>1. InOrder(Q)
  BY <1>a, <1>b, <1>c, <1>q, <1>s, <1>d DEF Lives, InOrder
<1>2. AnswersAreRows(Q)
  BY <1>a, <1>b, <1>c, <1>q, <1>s, <1>d DEF Lives, AnswersAreRows
<1>3. CreationsArePending(Q, ms)
  BY <1>a, <1>b, <1>c, <1>q, <1>s, <1>d DEF Lives, CreationsArePending
<1>4. ResetIsLast(Q, r2, st2, rs)
  <2> SUFFICES ASSUME NEW k \in 1..N, P[k].call.op = "unsafeResetDatabase" PROVE k >= n /\ rs /\
                      \A l \in 1..N : l > k => P[l].call = Plain("clearCachedRecords")
    BY <1>b, <1>q, <1>a DEF ResetIsLast
  <2>1. /\ rs
        /\ \A l \in 1..N : l > k => P[l].call = Plain("clearCachedRecords")
    BY <1>b DEF Lives, ResetIsLast
  <2> QED BY <1>b, <1>a, <2>1 DEF Plain
<1>5. LiveIsCached(ms, ch)
  BY <1>a, <1>b, <1>c, <1>q, <1>s, <1>d DEF Lives, LiveIsCached
<1>6. EditedIsCached(Q, ch)
  BY <1>a, <1>b, <1>c, <1>q, <1>s, <1>d DEF Lives, EditedIsCached
<1>7. LiveIsStored(r2, ms, rs)
  BY <1>a, <1>b, <1>c, <1>q, <1>s, <1>d DEF Lives, LiveIsStored
<1>8. ShownIsStored(Q, r2, rs)
  BY <1>a, <1>b, <1>c, <1>q, <1>s, <1>d DEF Lives, ShownIsStored
<1>9. CreatedIsStored(Q, r2, rs)
  BY <1>a, <1>b, <1>c, <1>q, <1>s, <1>d DEF Lives, CreatedIsStored
<1>10. RemovedIsUnused(Q, r2, ms, ch)
  BY <1>a, <1>b, <1>c, <1>q, <1>s, <1>d DEF Lives, RemovedIsUnused, Barren
<1>11. RemovedStaysRemoved(Q, r2)
  BY <1>a, <1>b, <1>c, <1>q, <1>s, <1>d DEF Lives, RemovedStaysRemoved
<1>12. ForgottenStaysRemoved(Q, r2, ms, ch)
  BY <1>a, <1>b, <1>c, <1>q, <1>s, <1>d DEF Lives, ForgottenStaysRemoved
<1>13. CreationIsFirst(Q, r2, ms)
  BY <1>a, <1>b, <1>c, <1>q, <1>s, <1>d DEF Lives, CreationIsFirst
<1> QED BY <1>1, <1>2, <1>3, <1>4, <1>5, <1>6, <1>7, <1>8, <1>9, <1>10, <1>11,
            <1>12, <1>13 DEF Lives

(* The driver resets the database. *)
LEMMA RunReset ==
    ASSUME NEW P, NEW Q, NEW N, NEW n, NEW e,
           NEW r, NEW r2, NEW st, NEW ms, NEW ch, NEW rs,
           N \in Nat, rs \in BOOLEAN,
           Lives(P, r, st, ms, ch, rs), Runs(P, Q, N, n, e),
           e.ok, e.found = {}, e.call.op = "unsafeResetDatabase",
           \A id \in Id : r2[id] = NoRow
    PROVE  Lives(Q, r2, {}, ms, ch, rs)
<1>b. /\ DOMAIN P = 1..N /\ DOMAIN Q = 1..N /\ n \in 1..N
      /\ ~P[n].done /\ \A k \in 1..N : k < n => P[k].done
      /\ \A k \in 1..N : k # n => Q[k] = P[k]
      /\ Q[n] = e /\ e.done /\ e.call = P[n].call
  BY DEF Runs
<1>i. \A k \in 1..N : P[k].done => k < n
  BY <1>b DEF Lives, InOrder
<1>s. \A id \in Id : \A k \in 1..N : Shows(P[k], id) => k < n
  BY <1>b, <1>i DEF Lives, AnswersAreRows, Shows
<1>q. \A k \in 1..N : /\ Q[k].call = P[k].call
                      /\ Q[k].done <=> k <= n
                      /\ P[k].done <=> k < n
                      /\ P[k].done => Q[k] = P[k]
  BY <1>b, <1>i
<1>a. \A id \in Id : /\ ~Creates(e, id) /\ ~Edits(e, id) /\ ~Shows(e, id)
                     /\ ~Creates(P[n], id) /\ ~Edits(P[n], id) /\ ~Shows(P[n], id)
                     /\ ~Removes(e, id) /\ ~Removes(P[n], id)
                     /\ ~Writes(e, id) /\ ~Writes(P[n], id)
  BY <1>b DEF Writes, Edits, Shows, Creates, Removes, Lives, AnswersAreRows
<1>c. /\ rs
      /\ \A l \in 1..N : l > n => P[l].call = Plain("clearCachedRecords")
      /\ \A id \in Id : \A l \in 1..N : l > n => ~Creates(P[l], id) /\ ~Removes(P[l], id)
      /\ \A id \in Id : ~IsLive(r2[id])
  <2>1. /\ rs
        /\ \A l \in 1..N : l > n => P[l].call = Plain("clearCachedRecords")
    BY <1>b DEF Lives, ResetIsLast
  <2>2. ASSUME NEW id \in Id, NEW l \in 1..N, l > n
        PROVE  ~Creates(P[l], id) /\ ~Removes(P[l], id)
    BY <2>1, <2>2 DEF Creates, Removes, Plain
  <2> QED BY <2>1, <2>2 DEF IsLive
<1>d. \A id \in Id : \A k \in 1..N :
      /\ Writes(Q[k], id) <=> Writes(P[k], id)
      /\ Edits(Q[k], id) <=> Edits(P[k], id)
      /\ Creates(Q[k], id) <=> Creates(P[k], id)
      /\ Removes(Q[k], id) <=> Removes(P[k], id)
      /\ Shows(Q[k], id) <=> Shows(P[k], id)
      /\ Creates(Q[k], id) \/ Removes(Q[k], id) => k < n
  <2> SUFFICES ASSUME NEW id \in Id, NEW k \in 1..N
               PROVE  /\ Writes(Q[k], id) <=> Writes(P[k], id)
                      /\ Edits(Q[k], id) <=> Edits(P[k], id)
                      /\ Creates(Q[k], id) <=> Creates(P[k], id)
                      /\ Removes(Q[k], id) <=> Removes(P[k], id)
                      /\ Shows(Q[k], id) <=> Shows(P[k], id)
                      /\ Creates(Q[k], id) \/ Removes(Q[k], id) => k < n
    OBVIOUS
  <2>1. CASE k = n
    BY <2>1, <1>a, <1>b
  <2>2. CASE k # n
    BY <2>2, <1>b, <1>i, <1>c
  <2> QED BY <2>1, <2>2
<1>1. InOrder(Q)
  BY <1>a, <1>b, <1>c, <1>q, <1>s, <1>d DEF Lives, InOrder
<1>2. AnswersAreRows(Q)
  BY <1>a, <1>b, <1>c, <1>q, <1>s, <1>d DEF Lives, AnswersAreRows
<1>3. CreationsArePending(Q, ms)
  BY <1>a, <1>b, <1>c, <1>q, <1>s, <1>d DEF Lives, CreationsArePending
<1>4. ResetIsLast(Q, r2, {}, rs)
  BY <1>a, <1>b, <1>c, <1>q, <1>s, <1>d DEF Lives, ResetIsLast
<1>5. LiveIsCached(ms, ch)
  BY <1>a, <1>b, <1>c, <1>q, <1>s, <1>d DEF Lives, LiveIsCached
<1>6. EditedIsCached(Q, ch)
  BY <1>a, <1>b, <1>c, <1>q, <1>s, <1>d DEF Lives, EditedIsCached
<1>7. LiveIsStored(r2, ms, rs)
  BY <1>a, <1>b, <1>c, <1>q, <1>s, <1>d DEF Lives, LiveIsStored
<1>8. ShownIsStored(Q, r2, rs)
  BY <1>a, <1>b, <1>c, <1>q, <1>s, <1>d DEF Lives, ShownIsStored
<1>9. CreatedIsStored(Q, r2, rs)
  BY <1>a, <1>b, <1>c, <1>q, <1>s, <1>d DEF Lives, CreatedIsStored
<1>10. RemovedIsUnused(Q, r2, ms, ch)
  BY <1>a, <1>b, <1>c, <1>q, <1>s, <1>d DEF Lives, RemovedIsUnused, Barren
<1>11. RemovedStaysRemoved(Q, r2)
  BY <1>a, <1>b, <1>c, <1>q, <1>s, <1>d DEF Lives, RemovedStaysRemoved
<1>12. ForgottenStaysRemoved(Q, r2, ms, ch)
  BY <1>a, <1>b, <1>c, <1>q, <1>s, <1>d DEF Lives, ForgottenStaysRemoved
<1>13. CreationIsFirst(Q, r2, ms)
  BY <1>a, <1>b, <1>c, <1>q, <1>s, <1>d DEF Lives, CreationIsFirst
<1> QED BY <1>1, <1>2, <1>3, <1>4, <1>5, <1>6, <1>7, <1>8, <1>9, <1>10, <1>11,
            <1>12, <1>13 DEF Lives

(* JavaScript takes an answer off the queue that changes nothing in it. *)
LEMMA LeaveQuiet ==
    ASSUME NEW P, NEW Q, NEW N,
           NEW r, NEW st, NEW ms, NEW ch, NEW rs,
           N \in Nat, rs \in BOOLEAN,
           Lives(P, r, st, ms, ch, rs), Leaves(P, Q, N),
           \A id \in Id : ~Creates(P[1], id)
    PROVE  Lives(Q, r, st, ms, ch, rs)
<1>b. /\ N > 0 /\ DOMAIN P = 1..N /\ DOMAIN Q = 1..(N - 1) /\ 1 \in 1..N
      /\ P[1].done
      /\ \A k \in 1..(N - 1) : k + 1 \in 1..N /\ Q[k] = P[k + 1]
      /\ \A k \in 1..N : k = 1 \/ (k - 1 \in 1..(N - 1) /\ P[k] = Q[k - 1])
  BY DEF Leaves
<1>a. \A id \in Id : ~Creates(P[1], id)
  OBVIOUS
<1>1. InOrder(Q)
  <2> SUFFICES ASSUME NEW i \in 1..(N - 1), NEW k \in 1..(N - 1), i < k, Q[k].done PROVE Q[i].done
    BY <1>b DEF InOrder
  <2>1. i + 1 \in 1..N /\ k + 1 \in 1..N /\ i + 1 < k + 1 /\ P[k + 1].done /\ Q[i] = P[i + 1]
    BY <1>b
  <2> QED BY <1>b, <2>1 DEF Lives, InOrder
<1>2. AnswersAreRows(Q)
  BY <1>a, <1>b DEF Lives, AnswersAreRows
<1>3. CreationsArePending(Q, ms)
  <2> SUFFICES ASSUME NEW id \in Id, NEW k \in 1..(N - 1), Creates(Q[k], id)
               PROVE  /\ Q[k].call.model \in DOMAIN ms[id]
                      /\ ms[id][Q[k].call.model].status = "pending"
                      /\ IsLive(Q[k].call.row)
                      /\ \A l \in 1..(N - 1) : Creates(Q[l], id) => l = k
    BY <1>b DEF CreationsArePending
  <2>1. k + 1 \in 1..N /\ Q[k] = P[k + 1] /\ Creates(P[k + 1], id)
    BY <1>b
  <2>2. /\ Q[k].call.model \in DOMAIN ms[id]
        /\ ms[id][Q[k].call.model].status = "pending"
        /\ IsLive(Q[k].call.row)
        /\ \A l \in 1..N : Creates(P[l], id) => l = k + 1
    BY <1>b, <2>1 DEF Lives, CreationsArePending
  <2>3. ASSUME NEW l \in 1..(N - 1), Creates(Q[l], id) PROVE l = k
    <3>1. l + 1 \in 1..N /\ Creates(P[l + 1], id)
      BY <1>b, <2>3
    <3> QED BY <2>2, <3>1
  <2> QED BY <2>2, <2>3
<1>4. ResetIsLast(Q, r, st, rs)
  <2> SUFFICES ASSUME NEW k \in 1..(N - 1), Q[k].call.op = "unsafeResetDatabase"
               PROVE  /\ rs
                      /\ \A l \in 1..(N - 1) : l > k => Q[l].call = Plain("clearCachedRecords")
                      /\ Q[k].done => st = {} /\ \A id \in Id : r[id] = NoRow
    BY <1>b DEF ResetIsLast
  <2>1. k + 1 \in 1..N /\ Q[k] = P[k + 1]
    BY <1>b
  <2>2. /\ rs
        /\ \A l \in 1..N : l > k + 1 => P[l].call = Plain("clearCachedRecords")
        /\ Q[k].done => st = {} /\ \A id \in Id : r[id] = NoRow
    BY <1>b, <2>1 DEF Lives, ResetIsLast
  <2>3. ASSUME NEW l \in 1..(N - 1), l > k PROVE Q[l].call = Plain("clearCachedRecords")
    <3>1. l + 1 \in 1..N /\ Q[l] = P[l + 1] /\ l + 1 > k + 1
      BY <1>b, <2>3
    <3> QED BY <2>2, <3>1
  <2> QED BY <2>2, <2>3
<1>5. LiveIsCached(ms, ch)
  BY <1>a, <1>b DEF Lives, LiveIsCached
<1>6. EditedIsCached(Q, ch)
  BY <1>a, <1>b DEF Lives, EditedIsCached
<1>7. LiveIsStored(r, ms, rs)
  BY <1>a, <1>b DEF Lives, LiveIsStored
<1>8. ShownIsStored(Q, r, rs)
  <2> SUFFICES ASSUME NEW id \in Id, NEW j \in 1..(N - 1), Shows(P[j + 1], id), ~IsLive(r[id]), ~rs
               PROVE  \E l \in 1..(N - 1) : l > j /\ Q[l].done /\ Removes(Q[l], id)
    BY <1>b DEF ShownIsStored
  <2>1. PICK l \in 1..N : l > j + 1 /\ P[l].done /\ Removes(P[l], id)
    BY <1>b DEF Lives, ShownIsStored
  <2>2. l - 1 \in 1..(N - 1) /\ l - 1 > j /\ Q[l - 1].done /\ Removes(Q[l - 1], id)
    BY <1>b, <2>1
  <2> QED BY <2>2
<1>9. CreatedIsStored(Q, r, rs)
  BY <1>a, <1>b DEF Lives, CreatedIsStored
<1>10. RemovedIsUnused(Q, r, ms, ch)
  <2> SUFFICES ASSUME NEW id \in Id, NEW k \in 1..(N - 1), Removes(Q[k], id)
               PROVE  /\ NoneLive(ms, id)
                      /\ Barren(Q, r, k, id) \/ (ch[id] # 0 /\ \A l \in 1..(N - 1) : l > k => ~Creates(Q[l], id))
    BY <1>b DEF RemovedIsUnused
  <2>1. k + 1 \in 1..N /\ Q[k] = P[k + 1]
    BY <1>b
  <2>2. /\ NoneLive(ms, id)
        /\ Barren(P, r, k + 1, id) \/ (ch[id] # 0 /\ \A l \in 1..N : l > k + 1 => ~Creates(P[l], id))
    BY <1>b, <2>1 DEF Lives, RemovedIsUnused
  <2>3. CASE Barren(P, r, k + 1, id)
    <3>1. ASSUME NEW j \in 1..(N - 1), j < k
          PROVE  ~Shows(Q[j], id) /\ ~Edits(Q[j], id) /\ ~Creates(Q[j], id)
      <4>1. j + 1 \in 1..N /\ Q[j] = P[j + 1] /\ j + 1 < k + 1
        BY <1>b, <3>1
      <4> QED BY <1>b, <2>3, <4>1 DEF Barren
    <3>2. Q[k].done \/ ~IsLive(r[id])
      BY <2>1, <2>3 DEF Barren
    <3> QED BY <1>b, <2>2, <3>1, <3>2 DEF Barren
  <2>4. CASE ch[id] # 0 /\ \A l \in 1..N : l > k + 1 => ~Creates(P[l], id)
    <3>1. ASSUME NEW l \in 1..(N - 1), l > k PROVE ~Creates(Q[l], id)
      <4>1. l + 1 \in 1..N /\ Q[l] = P[l + 1] /\ l + 1 > k + 1
        BY <1>b, <3>1
      <4> QED BY <2>4, <4>1
    <3> QED BY <2>2, <2>4, <3>1
  <2> QED BY <2>2, <2>3, <2>4
<1>11. RemovedStaysRemoved(Q, r)
  <2> SUFFICES ASSUME NEW id \in Id, NEW i \in 1..(N - 1), Removes(Q[i], id)
               PROVE  /\ \A j \in 1..(N - 1) : j > i => ~Edits(Q[j], id)
                      /\ \A j \in 1..(N - 1) : j > i /\ Shows(Q[j], id) =>
                           \E l \in 1..(N - 1) : i < l /\ l < j /\ Creates(Q[l], id)
                      /\ Q[i].done /\ IsLive(r[id]) =>
                           \E l \in 1..(N - 1) : i < l /\ Q[l].done /\ Creates(Q[l], id)
    BY <1>b DEF RemovedStaysRemoved
  <2>0. i + 1 \in 1..N /\ Q[i] = P[i + 1]
    BY <1>b
  <2>1. RemovedStaysRemoved(P, r)
    BY DEF Lives
  <2>2. ASSUME NEW j \in 1..(N - 1), j > i
        PROVE  ~Edits(Q[j], id)
    <3>1. Q[j] = P[j + 1] /\ j + 1 \in 1..N /\ j + 1 > i + 1
      BY <1>b, <2>2
    <3> QED BY <1>b, <2>0, <2>1, <3>1 DEF RemovedStaysRemoved
  <2>3. ASSUME NEW j \in 1..(N - 1), j > i, Shows(Q[j], id)
        PROVE  \E l \in 1..(N - 1) : i < l /\ l < j /\ Creates(Q[l], id)
    <3>0. Q[j] = P[j + 1] /\ j + 1 \in 1..N /\ j + 1 > i + 1
      BY <1>b, <2>3
    <3>1. PICK l \in 1..N : i + 1 < l /\ l < j + 1 /\ Creates(P[l], id)
      BY <1>b, <2>0, <2>1, <2>3, <3>0 DEF RemovedStaysRemoved
    <3>2. l - 1 \in 1..(N - 1) /\ i < l - 1 /\ l - 1 < j /\ Creates(Q[l - 1], id)
      BY <1>b, <3>1
    <3> QED BY <3>2
  <2>4. ASSUME Q[i].done, IsLive(r[id])
        PROVE  \E l \in 1..(N - 1) : i < l /\ Q[l].done /\ Creates(Q[l], id)
    <3>1. PICK l \in 1..N : i + 1 < l /\ P[l].done /\ Creates(P[l], id)
      BY <1>b, <2>0, <2>1, <2>4 DEF RemovedStaysRemoved
    <3>2. l - 1 \in 1..(N - 1) /\ i < l - 1 /\ Q[l - 1].done /\ Creates(Q[l - 1], id)
      BY <1>b, <3>1
    <3> QED BY <3>2
  <2> QED BY <2>2, <2>3, <2>4
<1>12. ForgottenStaysRemoved(Q, r, ms, ch)
  <2> SUFFICES ASSUME NEW id \in Id, ch[id] = 0, \E m \in DOMAIN ms[id] : ms[id][m].status = "deleted"
               PROVE  /\ \A j \in 1..(N - 1) : Shows(P[j + 1], id) =>
                           \E l \in 1..(N - 1) : l < j /\ Creates(Q[l], id)
                      /\ IsLive(r[id]) => \E l \in 1..(N - 1) : Q[l].done /\ Creates(Q[l], id)
    BY <1>a, <1>b DEF ForgottenStaysRemoved
  <2>1. /\ \A j \in 1..N : Shows(P[j], id) => \E l \in 1..N : l < j /\ Creates(P[l], id)
        /\ IsLive(r[id]) => \E l \in 1..N : P[l].done /\ Creates(P[l], id)
    BY <1>b DEF Lives, ForgottenStaysRemoved
  <2>2. ASSUME NEW j \in 1..(N - 1), Shows(P[j + 1], id)
        PROVE  \E l \in 1..(N - 1) : l < j /\ Creates(Q[l], id)
    <3>1. PICK l \in 1..N : l < j + 1 /\ Creates(P[l], id)
      BY <1>b, <2>1, <2>2
    <3>2. l - 1 \in 1..(N - 1) /\ l - 1 < j /\ Creates(Q[l - 1], id)
      BY <1>a, <1>b, <3>1
    <3> QED BY <3>2
  <2>3. ASSUME IsLive(r[id])
        PROVE  \E l \in 1..(N - 1) : Q[l].done /\ Creates(Q[l], id)
    <3>1. PICK l \in 1..N : P[l].done /\ Creates(P[l], id)
      BY <2>1, <2>3
    <3>2. l - 1 \in 1..(N - 1) /\ Q[l - 1].done /\ Creates(Q[l - 1], id)
      BY <1>a, <1>b, <3>1
    <3> QED BY <3>2
  <2> QED BY <2>2, <2>3
<1>13. CreationIsFirst(Q, r, ms)
  <2> SUFFICES ASSUME NEW id \in Id, NEW k \in 1..(N - 1), Creates(Q[k], id),
                      \/ Q[k].done \/ r[id] = NoRow
                      \/ \E i \in 1..(N - 1) : i < k /\ Removes(Q[i], id)
               PROVE  /\ NoneLive(ms, id)
                      /\ \A j \in 1..(N - 1) : j < k => ~Shows(Q[j], id)
                      /\ \A j \in 1..(N - 1) : j > k => ~Writes(Q[j], id)
    BY <1>b DEF CreationIsFirst
  <2>1. k + 1 \in 1..N /\ Q[k] = P[k + 1]
    BY <1>b
  <2>2. \/ P[k + 1].done \/ r[id] = NoRow
        \/ \E i \in 1..N : i < k + 1 /\ Removes(P[i], id)
    <3>1. ASSUME NEW i \in 1..(N - 1), i < k, Removes(Q[i], id)
          PROVE  \E h \in 1..N : h < k + 1 /\ Removes(P[h], id)
      <4>1. i + 1 \in 1..N /\ i + 1 < k + 1 /\ Removes(P[i + 1], id)
        BY <1>b, <3>1
      <4> QED BY <4>1
    <3> QED BY <2>1, <3>1
  <2>3. /\ NoneLive(ms, id)
        /\ \A j \in 1..N : j < k + 1 => ~Shows(P[j], id)
        /\ \A j \in 1..N : j > k + 1 => ~Writes(P[j], id)
    BY <1>b, <2>1, <2>2 DEF Lives, CreationIsFirst
  <2>4. ASSUME NEW j \in 1..(N - 1)
        PROVE  j + 1 \in 1..N /\ Q[j] = P[j + 1] /\ (j < k => j + 1 < k + 1) /\ (j > k => j + 1 > k + 1)
    BY <1>b
  <2> QED BY <2>3, <2>4
<1> QED BY <1>1, <1>2, <1>3, <1>4, <1>5, <1>6, <1>7, <1>8, <1>9, <1>10, <1>11,
            <1>12, <1>13 DEF Lives

(* JavaScript forgets a record when it sees that it was removed. *)
LEMMA Forget ==
    ASSUME NEW P, NEW N, NEW id0,
           NEW r, NEW st, NEW ms, NEW ch, NEW ch2, NEW rs,
           N \in Nat, id0 \in Id, rs \in BOOLEAN,
           Lives(P, r, st, ms, ch, rs), DOMAIN P = 1..N, N > 0,
           P[1].done, Removes(P[1], id0),
           ch2[id0] = 0, \A id \in Id : id # id0 => ch2[id] = ch[id]
    PROVE  Lives(P, r, st, ms, ch2, rs)
<1>a. /\ 1 \in DOMAIN P /\ NoneLive(ms, id0)
      /\ \A j \in DOMAIN P : ~Edits(P[j], id0)
      /\ \A j \in DOMAIN P : Shows(P[j], id0) => \E l \in DOMAIN P : l < j /\ Creates(P[l], id0)
      /\ IsLive(r[id0]) => \E l \in DOMAIN P : P[l].done /\ Creates(P[l], id0)
  <2>1. 1 \in DOMAIN P /\ NoneLive(ms, id0) /\ RemovedStaysRemoved(P, r)
    BY DEF Lives, RemovedIsUnused
  <2>2. ~Edits(P[1], id0) /\ ~Shows(P[1], id0)
    BY <2>1 DEF Edits, Shows, Removes, Lives, AnswersAreRows
  <2>3. \A j \in DOMAIN P : ~Edits(P[j], id0)
    BY <2>1, <2>2 DEF RemovedStaysRemoved
  <2>4. ASSUME NEW j \in DOMAIN P, Shows(P[j], id0)
        PROVE  \E l \in DOMAIN P : l < j /\ Creates(P[l], id0)
    BY <2>1, <2>2, <2>4 DEF RemovedStaysRemoved
  <2>5. IsLive(r[id0]) => \E l \in DOMAIN P : P[l].done /\ Creates(P[l], id0)
    BY <2>1 DEF RemovedStaysRemoved
  <2> QED BY <2>1, <2>3, <2>4, <2>5
<1>b. ASSUME NEW k \in DOMAIN P, Removes(P[k], id0)
      PROVE  Barren(P, r, k, id0)
  <2>1. ASSUME NEW l \in DOMAIN P, Creates(P[l], id0)
        PROVE  ~(l < k)
    <3>1. l # 1
      BY <2>1 DEF Creates, Removes
    <3>2. ~Writes(P[k], id0) \/ ~(l < k)
      BY <1>a, <2>1, <3>1 DEF Lives, CreationIsFirst
    <3> QED BY <1>b, <3>2 DEF Removes, Writes
  <2>2. ASSUME NEW j \in DOMAIN P, j < k
        PROVE  ~Shows(P[j], id0) /\ ~Edits(P[j], id0) /\ ~Creates(P[j], id0)
    BY <1>a, <2>1, <2>2
  <2>3. ASSUME ~P[k].done
        PROVE  ~IsLive(r[id0])
    BY <1>a, <2>1, <2>3 DEF Lives, InOrder
  <2> QED BY <2>2, <2>3 DEF Barren
<1>5. LiveIsCached(ms, ch2)
  BY <1>a DEF Lives, LiveIsCached, NoneLive
<1>6. EditedIsCached(P, ch2)
  BY <1>a DEF Lives, EditedIsCached
<1>10. RemovedIsUnused(P, r, ms, ch2)
  BY <1>b DEF Lives, RemovedIsUnused
<1>12. ForgottenStaysRemoved(P, r, ms, ch2)
  BY <1>a DEF Lives, ForgottenStaysRemoved
<1> QED BY <1>5, <1>6, <1>10, <1>12 DEF Lives

(* The head of the queue has had its effect and is about to be taken off. *)
Spent(P, R, N) ==
    /\ N > 0 /\ DOMAIN P = 1..N /\ DOMAIN R = 1..N
    /\ P[1].done /\ R[1].done /\ R[1].found = {}
    /\ R[1].call = Plain("clearCachedRecords")
    /\ \A id \in Id : ~Writes(R[1], id)
    /\ \A k \in 1..N : k # 1 => R[k] = P[k]

(* The Model m of the record id0 comes into use. *)
Taken(ms, ch, ms2, ch2, id0, m) ==
    /\ \A id \in Id : DOMAIN ms2[id] = DOMAIN ms[id]
    /\ \A id \in Id : \A n \in DOMAIN ms[id] : <<id, n>> # <<id0, m>> => ms2[id][n] = ms[id][n]
    /\ ms2[id0][m].status = "live"
    /\ ch2[id0] = m /\ \A id \in Id : id # id0 => ch2[id] = ch[id]

(* JavaScript sees that a record was created: its Model comes into use. *)
LEMMA SeeCreated ==
    ASSUME NEW P, NEW R, NEW N, NEW id0, NEW m,
           NEW r, NEW st, NEW ms, NEW ms2, NEW ch, NEW ch2, NEW rs,
           N \in Nat, id0 \in Id, rs \in BOOLEAN,
           Lives(P, r, st, ms, ch, rs), Spent(P, R, N), Indexed(ms),
           Creates(P[1], id0), P[1].call.model = m, Taken(ms, ch, ms2, ch2, id0, m)
    PROVE  Lives(R, r, st, ms2, ch2, rs)
<1>t. /\ \A id \in Id : DOMAIN ms2[id] = DOMAIN ms[id]
      /\ \A id \in Id : \A n \in DOMAIN ms[id] : <<id, n>> # <<id0, m>> => ms2[id][n] = ms[id][n]
      /\ ms2[id0][m].status = "live"
      /\ ch2[id0] = m /\ \A id \in Id : id # id0 => ch2[id] = ch[id]
  BY DEF Taken
<1> USE <1>t
<1>b. /\ DOMAIN P = 1..N /\ DOMAIN R = 1..N /\ 1 \in 1..N /\ P[1].done
      /\ \A k \in 1..N : k # 1 => R[k] = P[k] /\ k > 1
      /\ R[1].done /\ R[1].found = {} /\ R[1].call.op # "unsafeResetDatabase"
      /\ \A id \in Id : /\ ~Shows(R[1], id) /\ ~Writes(R[1], id)
                       /\ ~Creates(R[1], id) /\ ~Edits(R[1], id) /\ ~Removes(R[1], id)
  BY DEF Spent, Plain, Shows, Writes, Creates, Edits, Removes
<1>a. /\ m \in DOMAIN ms[id0] /\ ms[id0][m].status = "pending" /\ m # 0
      /\ NoneLive(ms, id0)
      /\ IsLive(r[id0]) \/ rs
      /\ \A j \in 1..N : ~Writes(R[j], id0)
      /\ \A id \in Id : NoneLive(ms2, id) <=> id # id0 /\ NoneLive(ms, id)
      /\ P[1].call # Plain("clearCachedRecords")
  <2>1. m \in DOMAIN ms[id0] /\ ms[id0][m].status = "pending" /\ m # 0
    BY <1>b DEF Lives, CreationsArePending, Indexed
  <2>2. NoneLive(ms, id0) /\ \A j \in 1..N : j > 1 => ~Writes(P[j], id0)
    BY <1>b DEF Lives, CreationIsFirst
  <2>3. IsLive(r[id0]) \/ rs
    BY <1>b DEF Lives, CreatedIsStored
  <2>4. \A id \in Id : NoneLive(ms2, id) <=> id # id0 /\ NoneLive(ms, id)
    BY <2>1 DEF NoneLive
  <2>5. P[1].call # Plain("clearCachedRecords")
    BY DEF Creates, Plain
  <2> QED BY <1>b, <2>1, <2>2, <2>3, <2>4, <2>5
<1>d. \A k \in 1..N : ~Creates(R[k], id0) /\ ~Edits(R[k], id0) /\ ~Removes(R[k], id0)
  BY <1>a DEF Writes, Creates, Edits, Removes
<1>e. \A id \in Id : id # id0 => ~Creates(P[1], id) /\ ~Edits(P[1], id) /\ ~Removes(P[1], id) /\ ~Writes(P[1], id)
  BY DEF Creates, Edits, Removes, Writes
<1>f. \A id \in Id : \A k \in 1..N : Shows(R[k], id) => Shows(P[k], id) /\ k # 1
  BY <1>b
<1>g. \A id \in Id : \A k \in 1..N : id # id0 =>
        /\ Creates(R[k], id) <=> Creates(P[k], id)
        /\ Removes(R[k], id) <=> Removes(P[k], id)
        /\ Edits(R[k], id) <=> Edits(P[k], id)
        /\ Writes(R[k], id) <=> Writes(P[k], id)
  BY <1>b, <1>e
<1>h. \A k \in 1..N : R[k].done <=> P[k].done
  BY <1>b
<1>1. InOrder(R)
  BY <1>a, <1>b, <1>d, <1>f, <1>g, <1>h DEF Lives, InOrder
<1>2. AnswersAreRows(R)
  BY <1>a, <1>b, <1>d, <1>f, <1>g, <1>h DEF Lives, AnswersAreRows
<1>3. CreationsArePending(R, ms2)
  BY <1>a, <1>b, <1>d, <1>f, <1>g, <1>h DEF Lives, CreationsArePending
<1>4. ResetIsLast(R, r, st, rs)
  BY <1>a, <1>b, <1>d, <1>f, <1>g, <1>h DEF Lives, ResetIsLast
<1>5. LiveIsCached(ms2, ch2)
  BY <1>a DEF Lives, LiveIsCached, NoneLive
<1>6. EditedIsCached(R, ch2)
  BY <1>a, <1>b, <1>d, <1>f, <1>g, <1>h DEF Lives, EditedIsCached
<1>7. LiveIsStored(r, ms2, rs)
  BY <1>a, <1>b, <1>d, <1>f, <1>g, <1>h DEF Lives, LiveIsStored
<1>8. ShownIsStored(R, r, rs)
  BY <1>a, <1>b, <1>d, <1>f, <1>g, <1>h DEF Lives, ShownIsStored
<1>9. CreatedIsStored(R, r, rs)
  BY <1>a, <1>b, <1>d, <1>f, <1>g, <1>h DEF Lives, CreatedIsStored
<1>10. RemovedIsUnused(R, r, ms2, ch2)
  BY <1>a, <1>b, <1>d, <1>f, <1>g, <1>h DEF Lives, RemovedIsUnused, Barren
<1>11. RemovedStaysRemoved(R, r)
  BY <1>a, <1>b, <1>d, <1>f, <1>g, <1>h DEF Lives, RemovedStaysRemoved
<1>12. ForgottenStaysRemoved(R, r, ms2, ch2)
  BY <1>a, <1>b, <1>d, <1>f, <1>g, <1>h DEF Lives, ForgottenStaysRemoved
<1>13. CreationIsFirst(R, r, ms2)
  BY <1>a, <1>b, <1>d, <1>f, <1>g, <1>h DEF Lives, CreationIsFirst
<1> QED BY <1>1, <1>2, <1>3, <1>4, <1>5, <1>6, <1>7, <1>8, <1>9, <1>10, <1>11,
            <1>12, <1>13 DEF Lives

(* JavaScript sees that the database was reset: no Model is in use. *)
LEMMA SeeReset ==
    ASSUME NEW P, NEW R, NEW N,
           NEW r, NEW st, NEW ms, NEW ms2, NEW ch, NEW ch2, NEW rs,
           N \in Nat, rs \in BOOLEAN,
           Lives(P, r, st, ms, ch, rs), Spent(P, R, N),
           P[1].call.op = "unsafeResetDatabase",
           \A id \in Id : NoneLive(ms2, id) /\ ch2[id] = 0
    PROVE  Lives(R, r, st, ms2, ch2, FALSE)
<1>b. /\ DOMAIN P = 1..N /\ DOMAIN R = 1..N /\ 1 \in 1..N /\ P[1].done
      /\ \A k \in 1..N : k # 1 => R[k] = P[k] /\ k > 1
      /\ R[1].done /\ R[1].found = {} /\ R[1].call.op # "unsafeResetDatabase"
      /\ \A id \in Id : /\ ~Shows(R[1], id) /\ ~Writes(R[1], id)
                       /\ ~Creates(R[1], id) /\ ~Edits(R[1], id) /\ ~Removes(R[1], id)
  BY DEF Spent, Plain, Shows, Writes, Creates, Edits, Removes
<1>a. /\ \A k \in 1..N : k > 1 => P[k].call = Plain("clearCachedRecords")
      /\ \A id \in Id : ~IsLive(r[id])
  BY <1>b DEF Lives, ResetIsLast, IsLive
<1>c. \A k \in 1..N : R[k].call = Plain("clearCachedRecords")
  BY <1>a, <1>b DEF Spent
<1>d. /\ \A id \in Id : \A k \in 1..N : ~Creates(R[k], id) /\ ~Edits(R[k], id) /\ ~Removes(R[k], id)
      /\ \A k \in 1..N : R[k].call.op # "unsafeResetDatabase" /\ R[k].call.op \notin {"find", "query"}
  BY <1>c DEF Writes, Creates, Edits, Removes, Plain
<1>f. AnswersAreRows(R) /\ \A id \in Id : \A k \in 1..N : ~Shows(R[k], id)
  <2>1. \A k \in 1..N : R[k].found = {}
    BY <1>b, <1>d DEF Lives, AnswersAreRows
  <2> QED BY <1>b, <2>1 DEF Shows, AnswersAreRows
<1>1. InOrder(R)
  BY <1>b DEF Lives, InOrder
<1>2. LiveIsCached(ms2, ch2) /\ LiveIsStored(r, ms2, FALSE)
  BY DEF LiveIsCached, LiveIsStored, NoneLive
<1>3. /\ CreationsArePending(R, ms2) /\ EditedIsCached(R, ch2)
      /\ CreatedIsStored(R, r, FALSE) /\ RemovedIsUnused(R, r, ms2, ch2)
      /\ RemovedStaysRemoved(R, r) /\ CreationIsFirst(R, r, ms2)
  BY <1>b, <1>d DEF CreationsArePending, EditedIsCached, CreatedIsStored, RemovedIsUnused,
                    RemovedStaysRemoved, CreationIsFirst
<1>4. ResetIsLast(R, r, st, FALSE)
  BY <1>b, <1>d DEF ResetIsLast
<1>5. ShownIsStored(R, r, FALSE) /\ ForgottenStaysRemoved(R, r, ms2, ch2)
  BY <1>a, <1>b, <1>f DEF ShownIsStored, ForgottenStaysRemoved
<1> QED BY <1>f, <1>1, <1>2, <1>3, <1>4, <1>5 DEF Lives

(* For each record of the set fresh there is one Model more, and it is cached. *)
Made(ms, ch, ms2, ch2, fresh) ==
    /\ \A id \in Id : id \notin fresh => ms2[id] = ms[id] /\ ch2[id] = ch[id]
    /\ \A id \in fresh :
         /\ ch[id] = 0
         /\ ch2[id] \notin DOMAIN ms[id] /\ DOMAIN ms2[id] = DOMAIN ms[id] \cup {ch2[id]}
         /\ \A n \in DOMAIN ms[id] : ms2[id][n] = ms[id][n]

(* Models are made of rows that came back, for the records of the set fresh.
   A record made live is stored, and neither removed nor created meanwhile.  *)
LEMMA MakeModels ==
    ASSUME NEW P, NEW r, NEW st, NEW ms, NEW ms2, NEW ch, NEW ch2, NEW rs,
           NEW fresh,
           rs \in BOOLEAN, fresh \in SUBSET Id,
           Lives(P, r, st, ms, ch, rs), Indexed(ms), Indexed(ms2),
           Made(ms, ch, ms2, ch2, fresh),
           \A id \in fresh : ms2[id][ch2[id]].status = "live" =>
             /\ IsLive(r[id]) \/ rs
             /\ \A k \in DOMAIN P : ~Removes(P[k], id)
             /\ \A k \in DOMAIN P : Creates(P[k], id) => ~P[k].done /\ r[id] # NoRow
    PROVE  Lives(P, r, st, ms2, ch2, rs)
<1>m. /\ \A id \in Id : id \notin fresh => ms2[id] = ms[id] /\ ch2[id] = ch[id]
      /\ \A id \in fresh :
           /\ ch[id] = 0
           /\ ch2[id] \notin DOMAIN ms[id] /\ DOMAIN ms2[id] = DOMAIN ms[id] \cup {ch2[id]}
           /\ \A n \in DOMAIN ms[id] : ms2[id][n] = ms[id][n]
  BY DEF Made
<1> USE <1>m
<1>a. \A id \in fresh : ch2[id] # 0 /\ NoneLive(ms, id)
  BY DEF Lives, LiveIsCached, Indexed, NoneLive
<1>b. \A id \in Id : NoneLive(ms, id) =>
        NoneLive(ms2, id) \/ (id \in fresh /\ ms2[id][ch2[id]].status = "live")
  BY DEF NoneLive
<1>3. CreationsArePending(P, ms2)
  BY DEF Lives, CreationsArePending
<1>5. LiveIsCached(ms2, ch2)
  BY <1>a DEF Lives, LiveIsCached, NoneLive
<1>6. EditedIsCached(P, ch2)
  BY <1>a DEF Lives, EditedIsCached
<1>7. LiveIsStored(r, ms2, rs)
  BY <1>b DEF Lives, LiveIsStored
<1>10. RemovedIsUnused(P, r, ms2, ch2)
  BY <1>a, <1>b DEF Lives, RemovedIsUnused
<1>12. ForgottenStaysRemoved(P, r, ms2, ch2)
  BY <1>a DEF Lives, ForgottenStaysRemoved
<1>13. CreationIsFirst(P, r, ms2)
  BY <1>b DEF Lives, CreationIsFirst
<1> QED BY <1>3, <1>5, <1>6, <1>7, <1>10, <1>12, <1>13 DEF Lives

-----------------------------------------------------------------------------
(* The queue of the state, and how the actions change it. *)

LEMMA LineShape ==
    ASSUME NEW aq, NEW cq,
           aq \in Seq(Answer), cq \in Seq(Call)
    PROVE  /\ Len(aq) + Len(cq) \in Nat
           /\ DOMAIN LineOf(aq, cq) = 1..(Len(aq) + Len(cq))
           /\ \A k \in 1..Len(aq) : LineOf(aq, cq)[k] = Answered(aq[k])
           /\ \A k \in 1..(Len(aq) + Len(cq)) :
                k > Len(aq) => /\ k - Len(aq) \in 1..Len(cq)
                               /\ LineOf(aq, cq)[k] = Waiting(cq[k - Len(aq)])
<1>1. Len(aq) \in Nat /\ Len(cq) \in Nat
  OBVIOUS
<1> QED BY <1>1 DEF LineOf

LEMMA LineSent ==
    ASSUME NEW aq, NEW cq, NEW c,
           aq \in Seq(Answer), cq \in Seq(Call), c \in Call
    PROVE  Joins(LineOf(aq, cq), LineOf(aq, Append(cq, c)), Len(aq) + Len(cq), Waiting(c))
<1>1. /\ Append(cq, c) \in Seq(Call) /\ Len(Append(cq, c)) = Len(cq) + 1
      /\ Append(cq, c)[Len(cq) + 1] = c
      /\ \A k \in 1..Len(cq) : Append(cq, c)[k] = cq[k]
      /\ Len(aq) \in Nat /\ Len(cq) \in Nat
  OBVIOUS
<1> DEFINE P == LineOf(aq, cq)
           Q == LineOf(aq, Append(cq, c))
           N == Len(aq) + Len(cq)
<1>2. DOMAIN P = 1..N /\ DOMAIN Q = 1..(N + 1)
  BY <1>1 DEF LineOf
<1>3. ASSUME NEW k \in 1..N PROVE Q[k] = P[k]
  BY <1>1 DEF LineOf
<1>4. Q[N + 1] = Waiting(c)
  BY <1>1 DEF LineOf
<1> QED BY <1>2, <1>3, <1>4 DEF Joins

LEMMA LineRuns ==
    ASSUME NEW aq, NEW cq, cq # <<>>,
           NEW a,
           aq \in Seq(Answer), cq \in Seq(Call), a \in Answer, a.call = Head(cq)
    PROVE  Runs(LineOf(aq, cq), LineOf(Append(aq, a), Tail(cq)), Len(aq) + Len(cq),
                Len(aq) + 1, Answered(a))
<1>1. /\ Append(aq, a) \in Seq(Answer) /\ Len(Append(aq, a)) = Len(aq) + 1
      /\ Append(aq, a)[Len(aq) + 1] = a
      /\ \A k \in 1..Len(aq) : Append(aq, a)[k] = aq[k]
      /\ Len(aq) \in Nat /\ Len(cq) \in Nat /\ Len(cq) > 0
  OBVIOUS
<1>2. /\ Tail(cq) \in Seq(Call) /\ Len(Tail(cq)) = Len(cq) - 1 /\ Head(cq) = cq[1]
      /\ \A k \in 1..(Len(cq) - 1) : Tail(cq)[k] = cq[k + 1]
  OBVIOUS
<1> DEFINE P == LineOf(aq, cq)
           Q == LineOf(Append(aq, a), Tail(cq))
           N == Len(aq) + Len(cq)
           n == Len(aq) + 1
<1>3. DOMAIN P = 1..N /\ DOMAIN Q = 1..N /\ n \in 1..N
  BY <1>1, <1>2 DEF LineOf
<1>4. P[n] = Waiting(cq[1]) /\ Q[n] = Answered(a)
  BY <1>1, <1>2 DEF LineOf
<1>5. ASSUME NEW k \in 1..N, k < n PROVE P[k].done /\ Q[k] = P[k]
  <2>1. P[k] = Answered(aq[k]) /\ Q[k] = Answered(aq[k])
    BY <1>1, <1>2, <1>5 DEF LineOf
  <2> QED BY <2>1 DEF Answered
<1>6. ASSUME NEW k \in 1..N, k > n PROVE Q[k] = P[k]
  <2>1. P[k] = Waiting(cq[k - Len(aq)])
    BY <1>1, <1>6 DEF LineOf
  <2>2. Q[k] = Waiting(Tail(cq)[k - Len(aq) - 1])
    BY <1>1, <1>2, <1>6 DEF LineOf
  <2>3. k - Len(aq) - 1 \in 1..(Len(cq) - 1) /\ (k - Len(aq) - 1) + 1 = k - Len(aq)
    BY <1>1, <1>6
  <2>4. Tail(cq)[k - Len(aq) - 1] = cq[k - Len(aq)]
    BY <1>2, <2>3
  <2> QED BY <2>1, <2>2, <2>4
<1>7. ~P[n].done /\ Answered(a).done /\ Answered(a).call = P[n].call
  BY <1>2, <1>4 DEF Waiting, Answered
<1> QED BY <1>3, <1>4, <1>5, <1>6, <1>7 DEF Runs

LEMMA LineLeaves ==
    ASSUME NEW aq, NEW cq,
           aq \in Seq(Answer), cq \in Seq(Call), aq # <<>>
    PROVE  /\ Leaves(LineOf(aq, cq), LineOf(Tail(aq), cq), Len(aq) + Len(cq))
           /\ LineOf(aq, cq)[1] = Answered(Head(aq))
<1>1. /\ Tail(aq) \in Seq(Answer) /\ Len(Tail(aq)) = Len(aq) - 1 /\ Head(aq) = aq[1]
      /\ \A k \in 1..(Len(aq) - 1) : Tail(aq)[k] = aq[k + 1]
      /\ Len(aq) \in Nat /\ Len(cq) \in Nat /\ Len(aq) > 0
  OBVIOUS
<1> DEFINE P == LineOf(aq, cq)
           Q == LineOf(Tail(aq), cq)
           N == Len(aq) + Len(cq)
<1>2. DOMAIN P = 1..N /\ DOMAIN Q = 1..(N - 1)
  BY <1>1 DEF LineOf
<1>3. P[1] = Answered(Head(aq)) /\ P[1].done
  <2>1. P[1] = Answered(Head(aq))
    BY <1>1 DEF LineOf
  <2> QED BY <2>1 DEF Answered
<1>4. ASSUME NEW k \in 1..(N - 1) PROVE Q[k] = P[k + 1]
  <2>1. CASE k <= Len(aq) - 1
    BY <1>1, <2>1 DEF LineOf
  <2>2. CASE k > Len(aq) - 1
    BY <1>1, <2>2 DEF LineOf
  <2> QED BY <1>1, <2>1, <2>2
<1> QED BY <1>1, <1>2, <1>3, <1>4 DEF Leaves

-----------------------------------------------------------------------------
(* What the driver does with a call. *)

LEMMA ExecutedIs ==
    ASSUME NEW d, NEW c,
           d \in Drivers, c \in Call,
           c.op \notin {"query", "clearCachedRecords", "unsafeResetDatabase"} => c.id \in Id
    PROVE  /\ Executed(d, c) \in Drivers /\ Executed(d, c).adapter = d.adapter
           /\ c.op \in {"find", "query"} =>
                Executed(d, c).rows = d.rows /\ d.sent \subseteq Executed(d, c).sent
           /\ c.op = "create" =>
                /\ Executed(d, c).rows = [d.rows EXCEPT ![c.id] = c.row]
                /\ Executed(d, c).sent = d.sent \cup {c.id}
           /\ c.op = "update" =>
                /\ Executed(d, c).rows = IF d.rows[c.id] = NoRow THEN d.rows
                                         ELSE [d.rows EXCEPT ![c.id] = c.row]
                /\ Executed(d, c).sent = d.sent
           /\ c.op \in {"destroyPermanently", "destroyDeletedRecords"} =>
                /\ Executed(d, c).rows = [d.rows EXCEPT ![c.id] = NoRow]
                /\ d.sent \ {c.id} \subseteq Executed(d, c).sent
           /\ c.op = "clearCachedRecords" =>
                Executed(d, c).rows = d.rows /\ Executed(d, c).sent = {}
           /\ c.op = "unsafeResetDatabase" =>
                /\ \A id \in Id : Executed(d, c).rows[id] = NoRow
                /\ Executed(d, c).sent = {}
<1>a. /\ d.adapter \in Adapters /\ d.rows \in [Id -> Row \cup {NoRow}] /\ d.sent \in SUBSET Id
      /\ d = [adapter |-> d.adapter, rows |-> d.rows, sent |-> d.sent]
      /\ c.op \in Ops /\ c.row \in Row \cup {NoRow}
  BY DEF Drivers, Call
<1> DEFINE State(rs, st) == [adapter |-> d.adapter, rows |-> rs, sent |-> st]
<1>b. ASSUME NEW rs \in [Id -> Row \cup {NoRow}], NEW st \in SUBSET Id
      PROVE  State(rs, st) \in Drivers /\ State(rs, st).adapter = d.adapter
             /\ State(rs, st).rows = rs /\ State(rs, st).sent = st
  BY <1>a DEF Drivers
<1>p. ASSUME NEW id \in Id, NEW row \in Row \cup {NoRow}
      PROVE  Put(d, id, row) = State([d.rows EXCEPT ![id] = row], d.sent)
  BY <1>a DEF Put
<1>q. ASSUME NEW x, NEW rs \in [Id -> Row \cup {NoRow}], NEW st, x = State(rs, d.sent)
      PROVE  [x EXCEPT !.sent = st] = State(rs, st) /\ x.sent = d.sent
  BY <1>q
<1>1. CASE c.op \in {"find", "query"}
  <2>1. \E st \in SUBSET Id : d.sent \subseteq st /\ Executed(d, c) = State(d.rows, st)
    <3>1. CASE c.op = "find" /\ d.rows[c.id] # NoRow
      <4>1. Executed(d, c) = State(d.rows, d.sent \cup {c.id})
        BY <1>a, <3>1 DEF Executed
      <4> QED BY <1>a, <3>1, <4>1
    <3>2. CASE c.op = "find" /\ d.rows[c.id] = NoRow
      <4>1. Executed(d, c) = State(d.rows, d.sent)
        BY <1>a, <3>2 DEF Executed
      <4> QED BY <1>a, <4>1
    <3>3. CASE c.op = "query"
      <4>1. Executed(d, c) = State(d.rows, d.sent \cup {id \in Id : IsLive(d.rows[id])})
        BY <1>a, <3>3 DEF Executed
      <4> QED BY <1>a, <4>1
    <3> QED BY <1>1, <3>1, <3>2, <3>3
  <2> QED BY <1>1, <1>a, <1>b, <2>1
<1>2. CASE c.op = "create"
  <2>1. Executed(d, c) = State([d.rows EXCEPT ![c.id] = c.row], d.sent \cup {c.id})
    <3>1. Executed(d, c) = [Put(d, c.id, c.row) EXCEPT !.sent = @ \cup {c.id}]
      BY <1>2 DEF Executed
    <3>p. /\ Put(d, c.id, c.row) = State([d.rows EXCEPT ![c.id] = c.row], d.sent)
          /\ [d.rows EXCEPT ![c.id] = c.row] \in [Id -> Row \cup {NoRow}]
      BY <1>2, <1>a, <1>p
    <3> QED BY <1>q, <3>p, <3>1
  <2> QED BY <1>2, <1>a, <1>b, <2>1
<1>3. CASE c.op = "update"
  <2>1. Executed(d, c) = State(IF d.rows[c.id] = NoRow THEN d.rows
                              ELSE [d.rows EXCEPT ![c.id] = c.row], d.sent)
    <3>1. Executed(d, c) = IF d.rows[c.id] # NoRow THEN Put(d, c.id, c.row) ELSE d
      BY <1>3 DEF Executed
    <3> QED BY <1>3, <1>a, <1>p, <3>1
  <2> QED BY <1>3, <1>a, <1>b, <2>1
<1>4. CASE c.op = "destroyPermanently"
  <2>1. Executed(d, c) = State([d.rows EXCEPT ![c.id] = NoRow], d.sent \ {c.id})
    <3>1. Executed(d, c) = [Put(d, c.id, NoRow) EXCEPT !.sent = @ \ {c.id}]
      BY <1>4 DEF Executed
    <3>p. /\ Put(d, c.id, NoRow) = State([d.rows EXCEPT ![c.id] = NoRow], d.sent)
          /\ [d.rows EXCEPT ![c.id] = NoRow] \in [Id -> Row \cup {NoRow}]
      BY <1>4, <1>a, <1>p
    <3>x. Put(d, c.id, NoRow).sent = d.sent
      BY <1>q, <3>p
    <3>y. PICK st : /\ st = d.sent \ {c.id}
                    /\ Executed(d, c) = [Put(d, c.id, NoRow) EXCEPT !.sent = st]
      BY <3>1, <3>x
    <3>z. Executed(d, c) = State([d.rows EXCEPT ![c.id] = NoRow], st)
      BY <1>q, <3>p, <3>y
    <3> QED BY <3>y, <3>z
  <2> QED BY <1>4, <1>a, <1>b, <2>1
<1>5. CASE c.op = "destroyDeletedRecords"
  <2>1. \E st \in SUBSET Id : /\ d.sent \ {c.id} \subseteq st
                              /\ Executed(d, c) = State([d.rows EXCEPT ![c.id] = NoRow], st)
    <3>1. Executed(d, c) = [Put(d, c.id, NoRow) EXCEPT !.sent = IF Loki THEN @ \ {c.id} ELSE @]
      BY <1>5 DEF Executed
    <3>p. /\ Put(d, c.id, NoRow) = State([d.rows EXCEPT ![c.id] = NoRow], d.sent)
          /\ [d.rows EXCEPT ![c.id] = NoRow] \in [Id -> Row \cup {NoRow}]
      BY <1>5, <1>a, <1>p
    <3>x. Put(d, c.id, NoRow).sent = d.sent
      BY <1>q, <3>p
    <3>y. PICK st : /\ st = IF Loki THEN d.sent \ {c.id} ELSE d.sent
                    /\ Executed(d, c) = [Put(d, c.id, NoRow) EXCEPT !.sent = st]
      BY <3>1, <3>x
    <3>z. Executed(d, c) = State([d.rows EXCEPT ![c.id] = NoRow], st)
      BY <1>q, <3>p, <3>y
    <3>2. Executed(d, c) = State([d.rows EXCEPT ![c.id] = NoRow],
                                IF Loki THEN d.sent \ {c.id} ELSE d.sent)
      BY <3>y, <3>z
    <3> QED BY <1>a, <3>2
  <2> QED BY <1>5, <1>a, <1>b, <2>1
<1>6. CASE c.op = "clearCachedRecords"
  <2>1. Executed(d, c) = State(d.rows, {})
    BY <1>6, <1>a DEF Executed
  <2> QED BY <1>6, <1>a, <1>b, <2>1
<1>7. CASE c.op = "unsafeResetDatabase"
  <2>1. Executed(d, c) = State([id \in Id |-> NoRow], {})
    BY <1>7, <1>a DEF Executed, Emptied
  <2> QED BY <1>7, <1>a, <1>b, <2>1
<1> QED BY <1>a, <1>1, <1>2, <1>3, <1>4, <1>5, <1>6, <1>7 DEF Ops

(* Whole records in an answer are the rows that the table holds. *)
LEMMA FoundInIs ==
    ASSUME NEW d, NEW c,
           d \in Drivers, c \in Call,
           c.op \notin {"query", "clearCachedRecords", "unsafeResetDatabase"} => c.id \in Id
    PROVE  /\ FoundIn(d, c) \in SUBSET Found
           /\ \A x \in FoundIn(d, c) :
                /\ x.row = d.rows[x.id]
                /\ x.bare <=> x.id \in d.sent
                /\ ~x.bare => x.row # NoRow
           /\ \A x, y \in FoundIn(d, c) : x.id = y.id => x = y
           /\ c.op \notin {"find", "query"} => FoundIn(d, c) = {}
<1>a. d.rows \in [Id -> Row \cup {NoRow}] /\ d.sent \in SUBSET Id
  BY DEF Drivers
<1>b. ASSUME NEW ids \in SUBSET Id
      PROVE  FoundBy(d, ids) \in SUBSET Found /\
             \A x \in FoundBy(d, ids) : x.id \in ids /\ x.row = d.rows[x.id] /\ (x.bare <=> x.id \in d.sent)
  <2> SUFFICES ASSUME NEW x \in FoundBy(d, ids)
               PROVE  x \in Found /\ x.id \in ids /\ x.row = d.rows[x.id] /\ (x.bare <=> x.id \in d.sent)
    OBVIOUS
  <2>1. PICK id \in ids : x = [id |-> id, bare |-> id \in d.sent, row |-> d.rows[id]]
    BY DEF FoundBy
  <2>2. id \in Id /\ d.rows[id] \in Row \cup {NoRow} /\ (id \in d.sent) \in BOOLEAN
    BY <1>a
  <2> QED BY <2>1, <2>2 DEF Found
<1>c. ASSUME NEW ids \in SUBSET Id
      PROVE  \A x, y \in FoundBy(d, ids) : x.id = y.id => x = y
  <2> SUFFICES ASSUME NEW x \in FoundBy(d, ids), NEW y \in FoundBy(d, ids), x.id = y.id
               PROVE  x = y
    OBVIOUS
  <2>1. PICK id \in ids : x = [id |-> id, bare |-> id \in d.sent, row |-> d.rows[id]]
    BY DEF FoundBy
  <2>2. PICK id2 \in ids : y = [id |-> id2, bare |-> id2 \in d.sent, row |-> d.rows[id2]]
    BY DEF FoundBy
  <2> QED BY <2>1, <2>2
<1>1. CASE c.op = "find"
  <2>1. FoundIn(d, c) = IF d.rows[c.id] # NoRow \/ c.id \in d.sent THEN FoundBy(d, {c.id}) ELSE {}
    BY <1>1 DEF FoundIn
  <2>2. CASE FoundIn(d, c) = {}
    BY <1>1, <2>2
  <2>3. CASE FoundIn(d, c) = FoundBy(d, {c.id})
    <3>1. {c.id} \in SUBSET Id
      BY <1>1
    <3>2. /\ FoundBy(d, {c.id}) \in SUBSET Found
          /\ \A x \in FoundBy(d, {c.id}) : x.row = d.rows[x.id]
          /\ \A x \in FoundBy(d, {c.id}) : x.bare <=> x.id \in d.sent
      BY <1>b, <3>1
    <3>3. \A x, y \in FoundBy(d, {c.id}) : x.id = y.id => x = y
      BY <1>c, <3>1
    <3>5. ASSUME NEW x \in FoundBy(d, {c.id}), ~x.bare
          PROVE  x.row # NoRow
      <4>1. x = [id |-> c.id, bare |-> c.id \in d.sent, row |-> d.rows[c.id]]
        BY DEF FoundBy
      <4>2. c.id \notin d.sent
        BY <3>5, <4>1
      <4>3. d.rows[c.id] # NoRow
        BY <2>1, <2>3, <4>2
      <4> QED BY <4>1, <4>3
    <3>6. \A x \in FoundBy(d, {c.id}) : ~x.bare => x.row # NoRow
      BY <3>5
    <3>7. c.op \in {"find", "query"}
      BY <1>1
    <3> QED BY <2>3, <3>2, <3>3, <3>6, <3>7
  <2> QED BY <2>1, <2>2, <2>3
<1>2. CASE c.op = "query"
  <2>1. FoundIn(d, c) = FoundBy(d, {id \in Id : IsLive(d.rows[id])})
    BY <1>2 DEF FoundIn
  <2>2. {id \in Id : IsLive(d.rows[id])} \in SUBSET Id
    OBVIOUS
  <2>3. /\ FoundIn(d, c) \in SUBSET Found
        /\ \A x \in FoundIn(d, c) : /\ IsLive(d.rows[x.id]) /\ x.row = d.rows[x.id]
                                    /\ x.bare <=> x.id \in d.sent
    BY <1>b, <2>1, <2>2
  <2>4. \A x, y \in FoundIn(d, c) : x.id = y.id => x = y
    BY <1>c, <2>1, <2>2
  <2> QED BY <1>2, <2>3, <2>4 DEF IsLive
<1>3. CASE c.op \notin {"find", "query"}
  BY <1>3 DEF FoundIn
<1> QED BY <1>1, <1>2, <1>3

(* The driver takes its next call, whatever it makes of it. *)
LEMMA DriverRuns ==
    ASSUME NEW P, NEW Q, NEW N, NEW n, NEW d, NEW d2, NEW c, NEW a,
           NEW ms, NEW ch, NEW rs,
           N \in Nat, d \in Drivers, c \in Call, rs \in BOOLEAN,
           With(P, d, ms, ch, rs), NamesRecords(P),
           P[n].call = c, Runs(P, Q, N, n, Answered(a)), Execute(d, c, d2, a)
    PROVE  /\ With(Q, d2, ms, ch, rs) /\ NamesRecords(Q)
           /\ d2 \in Drivers /\ Alike(d, d2) /\ a \in Answer
<1> DEFINE e == Answered(a)
<1>l. Lives(P, d.rows, d.sent, ms, ch, rs)
  BY DEF With
<1>a. /\ n \in DOMAIN P /\ ~P[n].done /\ P[n].ok
      /\ c.op \in Ops /\ c.row \in Row \cup {NoRow}
      /\ c.op \notin {"query", "clearCachedRecords", "unsafeResetDatabase"} => c.id \in Id
      /\ c.op \in {"create", "update"} => c.row \in Row
      /\ d.rows \in [Id -> Row \cup {NoRow}]
  BY DEF Runs, NamesRecords, Call, Drivers
<1>e. ASSUME NEW ok \in BOOLEAN, NEW fnd, a = [call |-> c, ok |-> ok, found |-> fnd]
      PROVE  e.call = c /\ e.ok = ok /\ e.found = fnd
  BY <1>e DEF Answered
<1>r. Runs(P, Q, N, n, e)
  OBVIOUS
<1>n. ASSUME \A x, y \in e.found : x.id = y.id => x = y
      PROVE  NamesRecords(Q)
  BY <1>n, <1>r DEF NamesRecords, Runs
<1> HIDE DEF e
<1>d. ASSUME NEW r2, NEW st2 \in SUBSET Id, NEW id0 \in Id,
             e.ok, e.found = {}, Removes(e, id0), ~IsLive(r2[id0]),
             \A id \in Id : id # id0 => r2[id] = d.rows[id]
      PROVE  Lives(Q, r2, st2, ms, ch, rs)
  <2>2. /\ P[n].ok /\ e.ok /\ e.found = {} /\ Removes(e, id0) /\ ~IsLive(r2[id0])
        /\ \A id \in Id : id # id0 => r2[id] = d.rows[id]
    BY <1>a, <1>d
  <2>3. PICK r, st : r = d.rows /\ st = d.sent
    OBVIOUS
  <2>4. Lives(P, r, st, ms, ch, rs)
    BY <1>l, <2>3
  <2>5. \A id \in Id : id # id0 => r2[id] = r[id]
    BY <2>2, <2>3
  <2> QED BY <1>d, <1>r, <2>2, <2>4, <2>5, RunRemove
<1>1. CASE d2 = d /\ a = [call |-> c, ok |-> FALSE, found |-> {}] /\ MayFail(d, c)
  <2>1. e.call = c /\ ~e.ok /\ e.found = {}
    BY <1>1, <1>e
  <2>2. c.op # "unsafeResetDatabase"
    BY <1>1 DEF MayFail, MustFail, IsBatch
  <2>3. Lives(Q, d.rows, d.sent, ms, ch, rs)
    BY <1>l, <1>r, <2>1, <2>2, RunFailed
  <2>4. a \in Answer
    BY <1>1 DEF Answer
  <2> QED BY <1>1, <1>n, <2>1, <2>3, <2>4 DEF With, Alike
<1>2. CASE d2 = Executed(d, c) /\ a = [call |-> c, ok |-> TRUE, found |-> FoundIn(d, c)] /\ ~MustFail(d, c)
  <2>1. e.call = c /\ e.ok /\ e.found = FoundIn(d, c)
    BY <1>2, <1>e
  <2>2. /\ d2 \in Drivers /\ Alike(d, d2)
        /\ d2.sent \in SUBSET Id
        /\ c.op \in {"find", "query", "clearCachedRecords"} => d2.rows = d.rows
        /\ c.op = "create" => d2.rows = [d.rows EXCEPT ![c.id] = c.row]
        /\ c.op = "update" => d2.rows = IF d.rows[c.id] = NoRow THEN d.rows
                                        ELSE [d.rows EXCEPT ![c.id] = c.row]
        /\ c.op = "update" => d2.sent = d.sent
        /\ c.op \in {"destroyPermanently", "destroyDeletedRecords"} =>
             d2.rows = [d.rows EXCEPT ![c.id] = NoRow]
        /\ c.op \in {"clearCachedRecords", "unsafeResetDatabase"} => d2.sent = {}
        /\ c.op = "unsafeResetDatabase" => \A id \in Id : d2.rows[id] = NoRow
    BY <1>2, <1>a, ExecutedIs DEF Drivers, Alike
  <2>3. /\ FoundIn(d, c) \in SUBSET Found
        /\ \A x \in FoundIn(d, c) : x.row = d.rows[x.id] /\ (~x.bare => x.row # NoRow)
        /\ \A x, y \in e.found : x.id = y.id => x = y
        /\ c.op \notin {"find", "query"} => e.found = {}
    BY <2>1, <1>a, FoundInIs
  <2>4. a \in Answer
    BY <1>2, <2>3 DEF Answer
  <2>5. Lives(Q, d2.rows, d2.sent, ms, ch, rs)
    <3>1. CASE c.op \in {"find", "query", "clearCachedRecords"}
      <4>1. \A x \in e.found : ~x.bare => x.row # NoRow /\ x.row = d.rows[x.id]
        BY <2>1, <2>3
      <4>2. e.call.op = "clearCachedRecords" => e.found = {} /\ d2.sent = {}
        BY <2>1, <2>2, <2>3
      <4>3. Lives(Q, d.rows, d2.sent, ms, ch, rs)
        BY <1>l, <1>r, <3>1, <2>1, <2>2, <4>1, <4>2, RunQuiet
      <4> QED BY <3>1, <2>2, <4>3
    <3>2. CASE c.op = "create"
      <4>1. d.rows[c.id] = NoRow
        BY <3>2, <1>2 DEF MustFail
      <4>2. /\ d2.rows[c.id] = c.row
            /\ \A id \in Id : id # c.id => d2.rows[id] = d.rows[id]
        BY <3>2, <1>a, <2>2
      <4>3. c.id \in Id /\ e.found = {}
        BY <3>2, <1>a, <2>3
      <4> QED BY <1>l, <1>r, <3>2, <1>a, <2>1, <2>2, <4>1, <4>2, <4>3, RunCreate
    <3>3. CASE c.op = "update" /\ ~c.row.deleted
      <4>1. c.id \in Id /\ e.found = {} /\ IsLive(c.row) /\ c.row # NoRow
        BY <3>3, <1>a, <2>3 DEF IsLive, Row, NoRow
      <4>2. /\ IF d.rows[c.id] = NoRow THEN d2.rows[c.id] = NoRow ELSE IsLive(d2.rows[c.id])
            /\ \A id \in Id : id # c.id => d2.rows[id] = d.rows[id]
        BY <3>3, <1>a, <2>2, <4>1
      <4>3. Lives(Q, d2.rows, d.sent, ms, ch, rs)
        BY <1>l, <1>r, <3>3, <1>a, <2>1, <4>1, <4>2, RunUpdate
      <4> QED BY <3>3, <2>2, <4>3
    <3>4. CASE c.op = "update" /\ c.row.deleted
      <4>1. c.id \in Id /\ e.found = {} /\ Removes(e, c.id)
        BY <3>4, <1>a, <2>1, <2>3 DEF Removes
      <4>2. /\ ~IsLive(d2.rows[c.id])
            /\ \A id \in Id : id # c.id => d2.rows[id] = d.rows[id]
        BY <3>4, <1>a, <2>2, <4>1 DEF IsLive
      <4> QED BY <1>d, <2>1, <2>2, <4>1, <4>2
    <3>5. CASE c.op \in {"destroyPermanently", "destroyDeletedRecords"}
      <4>1. c.id \in Id /\ e.found = {} /\ Removes(e, c.id)
        BY <3>5, <1>a, <2>1, <2>3 DEF Removes
      <4>2. /\ ~IsLive(d2.rows[c.id])
            /\ \A id \in Id : id # c.id => d2.rows[id] = d.rows[id]
        BY <3>5, <1>a, <2>2, <4>1 DEF IsLive
      <4> QED BY <1>d, <2>1, <2>2, <4>1, <4>2
    <3>6. CASE c.op = "unsafeResetDatabase"
      <4>1. e.found = {} /\ e.call.op = "unsafeResetDatabase" /\ e.ok
        BY <3>6, <2>1, <2>3
      <4>2. Lives(Q, d2.rows, {}, ms, ch, rs)
        BY <1>l, <1>r, <3>6, <2>2, <4>1, RunReset
      <4> QED BY <3>6, <2>2, <4>2
    <3> QED BY <1>a, <3>1, <3>2, <3>3, <3>4, <3>5, <3>6 DEF Ops
  <2> QED BY <1>n, <2>2, <2>3, <2>4, <2>5 DEF With, Alike
<1> QED BY <1>1, <1>2 DEF Execute

(* The driver that answers inside the call: records in creation are sent. *)
LEMMA CreatedStaysSent ==
    ASSUME NEW P, NEW Q, NEW N, NEW n, NEW d, NEW d2, NEW c, NEW a,
           NEW ms, NEW ch, NEW rs,
           N \in Nat, d \in Drivers, c \in Call, rs \in BOOLEAN,
           With(P, d, ms, ch, rs), NamesRecords(P), SentBy(P, d, rs),
           P[n].call = c, Runs(P, Q, N, n, Answered(a)), Execute(d, c, d2, a),
           c.op # "clearCachedRecords"
    PROVE  SentBy(Q, d2, rs)
<1>b. /\ DOMAIN P = 1..N /\ DOMAIN Q = 1..N /\ n \in 1..N
      /\ ~P[n].done /\ \A k \in 1..N : k # n => Q[k] = P[k]
      /\ Q[n] = Answered(a)
      /\ \A k \in 1..N : P[k].done => k < n
  BY DEF Runs, With, Lives, InOrder
<1>c. /\ c.op \in Ops
      /\ c.op \notin {"query", "clearCachedRecords", "unsafeResetDatabase"} => c.id \in Id
      /\ c.row \in Row \cup {NoRow}
  BY <1>b DEF NamesRecords, Call
<1> SUFFICES ASSUME NEW id \in Id, NEW k \in 1..N, Creates(Q[k], id), Q[k].done, ~rs
             PROVE  id \in d2.sent
  BY <1>b DEF SentBy, CreatedIsSent
<1>1. CASE d2 = d /\ a = [call |-> c, ok |-> FALSE, found |-> {}]
  <2>1. k # n
    BY <1>b, <1>1 DEF Creates, Answered
  <2> QED BY <1>b, <1>1, <2>1 DEF SentBy, CreatedIsSent
<1>2. CASE d2 = Executed(d, c) /\ a = [call |-> c, ok |-> TRUE, found |-> FoundIn(d, c)]
  <2>0. /\ c.op \in {"find", "query"} => d.sent \subseteq Executed(d, c).sent
        /\ c.op = "create" => Executed(d, c).sent = d.sent \cup {c.id}
        /\ c.op = "update" => Executed(d, c).sent = d.sent
        /\ c.op \in {"destroyPermanently", "destroyDeletedRecords"} =>
             d.sent \ {c.id} \subseteq Executed(d, c).sent
    BY ONLY <1>c, ExecutedIs, d \in Drivers, c \in Call
  <2>1. /\ c.op \in {"find", "query"} => d.sent \subseteq d2.sent
        /\ c.op = "create" => d2.sent = d.sent \cup {c.id}
        /\ c.op = "update" => d2.sent = d.sent
        /\ c.op \in {"destroyPermanently", "destroyDeletedRecords"} => d.sent \ {c.id} \subseteq d2.sent
    BY <1>2, <2>0
  <2>2. c.op # "unsafeResetDatabase"
    BY <1>b DEF With, Lives, ResetIsLast
  <2>3. CASE k = n
    <3>1. c.op = "create" /\ c.id = id
      BY <1>b, <1>2, <2>3 DEF Creates, Answered
    <3> QED BY <2>1, <3>1
  <2>4. CASE k # n
    <3>1. Creates(P[k], id) /\ P[k].done /\ n > k
      BY <1>b, <2>4
    <3>2. id \in d.sent
      BY <1>b, <3>1 DEF SentBy, CreatedIsSent
    <3>3. ~Writes(P[n], id)
      BY <1>b, <3>1 DEF With, Lives, CreationIsFirst
    <3>4. c.op \in {"destroyPermanently", "destroyDeletedRecords"} => c.id # id
      BY <3>3 DEF Writes
    <3> QED BY <1>c, <2>1, <2>2, <3>2, <3>4 DEF Ops
  <2> QED BY <2>3, <2>4
<1> QED BY <1>1, <1>2 DEF Execute

(* A call is taken by the driver: at once, or when it has reached it. *)
LEMMA DriverKeeps ==
    ASSUME NEW aq, NEW cq, cq # <<>>, NEW d,
           NEW d2, NEW a, NEW ms, NEW ch, NEW rs,
           aq \in Seq(Answer), cq \in Seq(Call), d \in Drivers, rs \in BOOLEAN,
           With(LineOf(aq, cq), d, ms, ch, rs), NamesRecords(LineOf(aq, cq)),
           Execute(d, Head(cq), d2, a), a \in Answer
    PROVE  /\ With(LineOf(Append(aq, a), Tail(cq)), d2, ms, ch, rs)
           /\ NamesRecords(LineOf(Append(aq, a), Tail(cq)))
           /\ d2 \in Drivers /\ Alike(d, d2)
           /\ Append(aq, a) \in Seq(Answer) /\ Tail(cq) \in Seq(Call)
           /\ SentBy(LineOf(aq, cq), d, rs) /\ Head(cq).op # "clearCachedRecords" =>
                SentBy(LineOf(Append(aq, a), Tail(cq)), d2, rs)
<1> DEFINE P == LineOf(aq, cq)
           Q == LineOf(Append(aq, a), Tail(cq))
           N == Len(aq) + Len(cq)
           n == Len(aq) + 1
           c == Head(cq)
<1>1. /\ c \in Call /\ N \in Nat /\ Append(aq, a) \in Seq(Answer) /\ Tail(cq) \in Seq(Call)
      /\ n - Len(aq) = 1 /\ n \in 1..N /\ n > Len(aq) /\ Head(cq) = cq[1]
  OBVIOUS
<1>2. a.call = c
  BY DEF Execute
<1>3. Runs(P, Q, N, n, Answered(a))
  BY <1>2, LineRuns
<1>4. P[n].call = c
  <2>1. P[n] = Waiting(cq[n - Len(aq)])
    BY <1>1, LineShape
  <2> QED BY <1>1, <2>1 DEF Waiting
<1>5. With(P, d, ms, ch, rs) /\ NamesRecords(P) /\ Execute(d, c, d2, a)
  OBVIOUS
<1> HIDE DEF P, Q, N, n, c
<1>6. With(Q, d2, ms, ch, rs) /\ NamesRecords(Q) /\ d2 \in Drivers /\ Alike(d, d2)
  BY <1>1, <1>3, <1>4, <1>5, DriverRuns
<1>7. SentBy(P, d, rs) /\ c.op # "clearCachedRecords" => SentBy(Q, d2, rs)
  BY <1>1, <1>3, <1>4, <1>5, CreatedStaysSent
<1> QED BY <1>1, <1>6, <1>7 DEF P, Q, c

(* What Send() leaves: the queue P with the call at its end is what JavaScript
   expects of it.                                                            *)
LEMMA SendKeeps ==
    ASSUME NEW aq, NEW cq, NEW d, NEW c,
           NEW aq2, NEW cq2, NEW d2, NEW ms, NEW ch, NEW rs,
           aq \in Seq(Answer), cq \in Seq(Call), d \in Drivers, c \in Call, rs \in BOOLEAN,
           NamesRecords(LineOf(aq, cq)),
           d.adapter = "sqliteSync" => cq = <<>> /\ SentBy(LineOf(aq, cq), d, rs),
           With(LineOf(aq, Append(cq, c)), d, ms, ch, rs),
           c.op \notin {"query", "clearCachedRecords", "unsafeResetDatabase"} => c.id \in Id,
           c.op \in {"create", "update"} => c.row \in Row,
           c.op = "clearCachedRecords" => d.adapter # "sqliteSync",
           IF d.adapter = "sqliteSync"
           THEN \E ok \in BOOLEAN :
                  LET a == [call |-> c, ok |-> ok, found |-> {}] IN
                  /\ Execute(d, c, d2, a) /\ aq2 = Append(aq, a) /\ cq2 = cq
           ELSE cq2 = Append(cq, c) /\ aq2 = aq /\ d2 = d
    PROVE  /\ Holds(aq2, cq2, d2, ms, ch, rs)
           /\ d2 \in Drivers /\ aq2 \in Seq(Answer) /\ cq2 \in Seq(Call)
<1> DEFINE P == LineOf(aq, cq)
           Q == LineOf(aq, Append(cq, c))
           N == Len(aq) + Len(cq)
<1>1. N \in Nat /\ Append(cq, c) \in Seq(Call)
  OBVIOUS
<1>2. Joins(P, Q, N, Waiting(c))
  BY LineSent
<1>3. NamesRecords(P)
  OBVIOUS
<1> HIDE DEF P, Q, N
<1>4. NamesRecords(Q)
  BY <1>1, <1>2, <1>3 DEF NamesRecords, Joins, Waiting
<1>5. CASE d.adapter # "sqliteSync"
  <2>1. With(Q, d, ms, ch, rs)
    BY DEF Q
  <2> QED BY <1>1, <1>4, <1>5, <2>1 DEF Q, Holds
<1>6. CASE d.adapter = "sqliteSync"
  <2>1. SentBy(P, d, rs) /\ cq = <<>>
    BY <1>6 DEF P
  <2>2. SentBy(Q, d, rs)
    BY <1>1, <1>2, <2>1 DEF SentBy, CreatedIsSent, Joins, Waiting
  <2>3. PICK ok \in BOOLEAN : LET a == [call |-> c, ok |-> ok, found |-> {}] IN
                                /\ Execute(d, c, d2, a) /\ aq2 = Append(aq, a) /\ cq2 = cq
    BY <1>6
  <2> DEFINE a == [call |-> c, ok |-> ok, found |-> {}]
             cs == Append(cq, c)
  <2>4. a \in Answer
    BY DEF Answer
  <2>5. cs \in Seq(Call) /\ cs # <<>> /\ Head(cs) = c /\ Tail(cs) = cq
    BY <2>1
  <2>6. Execute(d, Head(cs), d2, a) /\ aq2 = Append(aq, a) /\ cq2 = Tail(cs)
    BY <2>3, <2>5
  <2>7. With(LineOf(aq, cs), d, ms, ch, rs) /\ NamesRecords(LineOf(aq, cs))
        /\ SentBy(LineOf(aq, cs), d, rs)
    BY <1>4, <2>2 DEF Q
  <2>8. Head(cs).op # "clearCachedRecords"
    BY <1>6, <2>5
  <2> HIDE DEF cs, a
  <2>9. /\ With(LineOf(aq2, cq2), d2, ms, ch, rs)
        /\ NamesRecords(LineOf(aq2, cq2))
        /\ d2 \in Drivers /\ Alike(d, d2)
        /\ aq2 \in Seq(Answer) /\ cq2 \in Seq(Call)
        /\ SentBy(LineOf(aq2, cq2), d2, rs)
    BY <2>4, <2>5, <2>6, <2>7, <2>8, DriverKeeps
  <2> QED BY <2>1, <2>3, <2>9 DEF Holds, Alike
<1> QED BY <1>5, <1>6

-----------------------------------------------------------------------------
(* The state, and the calls that join the queue. *)

LEMMA Types ==
    ASSUME CachingInv
    PROVE  /\ driver \in Drivers /\ driver.rows \in [Id -> Row \cup {NoRow}]
           /\ driver.sent \in SUBSET Id /\ driver.adapter \in Adapters
           /\ calls \in Seq(Call) /\ answers \in Seq(Answer)
           /\ models \in Models /\ Indexed(models)
           /\ cache \in [Id -> Nat] /\ resetting \in BOOLEAN
           /\ NamesRecords(LineOf(answers, calls))
           /\ Lives(LineOf(answers, calls), driver.rows, driver.sent, models, cache, resetting)
<1>1. /\ driver \in Drivers /\ calls \in Seq(Call) /\ answers \in Seq(Answer)
      /\ models \in Models /\ cache \in [Id -> Nat] /\ resetting \in BOOLEAN
  BY DEF CachingInv, TypeOK, Drivers, Models
<1>2. /\ driver.rows \in [Id -> Row \cup {NoRow}] /\ driver.sent \in SUBSET Id
      /\ driver.adapter \in Adapters
  BY <1>1 DEF Drivers
<1>3. Indexed(models)
  BY <1>1 DEF Indexed, Models
<1> QED BY <1>1, <1>2, <1>3 DEF CachingInv, Holds, With

LEMMA Sends ==
    ASSUME NEW c, CachingInv, "lokiSync" \notin Adapters, Send(c), c \in Call,
           c.op \notin {"query", "unsafeResetDatabase"} => c.id \in Id,
           c.op \in {"create", "update"} => c.row \in Row,
           c.op # "clearCachedRecords",
           resetting => resetting', resetting' \in BOOLEAN,
           Lives(LineOf(answers, Append(calls, c)), driver.rows, driver.sent,
                 models', cache', resetting')
    PROVE  /\ Holds(answers', calls', driver', models', cache', resetting')
           /\ driver' \in Drivers /\ answers' \in Seq(Answer) /\ calls' \in Seq(Call)
<1>1. /\ driver \in Drivers /\ calls \in Seq(Call) /\ answers \in Seq(Answer)
      /\ NamesRecords(LineOf(answers, calls))
      /\ driver.adapter # "lokiSync"
  BY Types
<1>2. driver.adapter = "sqliteSync" =>
        calls = <<>> /\ SentBy(LineOf(answers, calls), driver, resetting')
  BY DEF CachingInv, Holds, SentBy, CreatedIsSent
<1>3. With(LineOf(answers, Append(calls, c)), driver, models', cache', resetting')
  BY DEF With
<1>4. IF driver.adapter = "sqliteSync"
      THEN \E ok \in BOOLEAN :
             LET a == [call |-> c, ok |-> ok, found |-> {}] IN
             /\ Execute(driver, c, driver', a) /\ answers' = Append(answers, a) /\ calls' = calls
      ELSE calls' = Append(calls, c) /\ answers' = answers /\ driver' = driver
  BY <1>1 DEF Send, Synchronous
<1> QED BY <1>1, <1>2, <1>3, <1>4, SendKeeps

(* The queue with the new call, and what is known of the calls in it. *)
LEMMA Asked ==
    ASSUME NEW c, CachingInv, c \in Call
    PROVE  /\ Joins(LineOf(answers, calls), LineOf(answers, Append(calls, c)),
                    Len(answers) + Len(calls), Waiting(c))
           /\ Len(answers) + Len(calls) \in Nat
           /\ \A k \in DOMAIN LineOf(answers, calls) : LineOf(answers, calls)[k].call \in UnderWay
<1> DEFINE P == LineOf(answers, calls)
<1>1. calls \in Seq(Call) /\ answers \in Seq(Answer)
  BY Types
<1>2. Len(answers) \in Nat /\ Len(calls) \in Nat
  BY <1>1
<1>3. ASSUME NEW k \in DOMAIN P
      PROVE  P[k].call \in UnderWay
  <2>1. k \in 1..(Len(answers) + Len(calls))
    BY <1>1, <1>3, LineShape
  <2>2. CASE k <= Len(answers)
    <3>1. k \in 1..Len(answers) /\ P[k] = Answered(answers[k])
      BY <1>1, <1>2, <2>1, <2>2, LineShape
    <3> QED BY <3>1 DEF Answered, UnderWay
  <2>3. CASE k > Len(answers)
    <3>1. k - Len(answers) \in 1..Len(calls) /\ P[k] = Waiting(calls[k - Len(answers)])
      BY <1>1, <1>2, <2>1, <2>3, LineShape
    <3>2. P[k].call = calls[k - Len(answers)]
      BY <3>1 DEF Waiting
    <3> QED BY <3>1, <3>2 DEF UnderWay
  <2> QED BY <1>2, <2>1, <2>2, <2>3
<1>4. Joins(P, LineOf(answers, Append(calls, c)), Len(answers) + Len(calls), Waiting(c))
  BY <1>1, LineSent
<1> QED BY <1>2, <1>3, <1>4

LEMMA ModelIs ==
    ASSUME NEW id0, NEW m, models \in Models, id0 \in Id, m \in DOMAIN models[id0]
    PROVE  /\ m \in Nat /\ m \in 1..(Len(models[id0]) + 1)
           /\ models[id0][m] \in [ver : 1..MaxVersion, status : Statuses]
<1> DEFINE M == [ver : 1..MaxVersion, status : Statuses]
           s == models[id0]
<1>1. s \in Seq(M) /\ m \in DOMAIN s
  BY DEF Models
<1> HIDE DEF M, s
<1>2. Len(s) \in Nat /\ m \in 1..Len(s) /\ s[m] \in M
  BY <1>1
<1>3. m \in Nat /\ m \in 1..(Len(s) + 1)
  BY <1>2
<1> QED BY <1>2, <1>3 DEF s, M

(* A Model joins the others of its record, or takes the place of one. *)
Placed(ms, ms2, id, m, model) ==
    ms2 = [ms EXCEPT ![id] = IF m > Len(@) THEN Append(@, model) ELSE [@ EXCEPT ![m] = model]]

LEMMA Models1 ==
    ASSUME NEW id0, NEW m, NEW model, models \in Models, id0 \in Id,
           model \in [ver : 1..MaxVersion, status : Statuses],
           m \in 1..(Len(models[id0]) + 1), Placed(models, models', id0, m, model)
    PROVE  /\ models' \in Models /\ Indexed(models')
           /\ \A id \in Id : Len(models[id]) <= Len(models'[id])
           /\ \A id \in Id : id # id0 => models'[id] = models[id]
           /\ DOMAIN models'[id0] = DOMAIN models[id0] \cup {m}
           /\ models'[id0][m] = model
           /\ \A n \in DOMAIN models[id0] : n # m => models'[id0][n] = models[id0][n]
<1> DEFINE M == [ver : 1..MaxVersion, status : Statuses]
           s == models[id0]
           t == IF m > Len(s) THEN Append(s, model) ELSE [s EXCEPT ![m] = model]
<1>0. s \in Seq(M) /\ model \in M /\ m \in 1..(Len(s) + 1)
  BY DEF Models
<1>1. Len(s) \in Nat /\ DOMAIN s = 1..Len(s)
  BY <1>0
<1>2. t \in Seq(M) /\ Len(s) <= Len(t) /\ DOMAIN t = DOMAIN s \cup {m} /\ t[m] = model
      /\ \A n \in DOMAIN s : n # m => t[n] = s[n]
  <2> HIDE DEF M, s
  <2>1. CASE m > Len(s)
    <3>1. t = Append(s, model) /\ m = Len(s) + 1
      BY <1>0, <1>1, <2>1
    <3>2. /\ Append(s, model) \in Seq(M) /\ Len(Append(s, model)) = Len(s) + 1
          /\ Append(s, model)[Len(s) + 1] = model
          /\ \A n \in 1..Len(s) : Append(s, model)[n] = s[n]
      BY <1>0
    <3>3. DOMAIN Append(s, model) = 1..(Len(s) + 1)
      BY <1>0, <3>2
    <3> HIDE DEF t
    <3> QED BY <1>1, <3>1, <3>2, <3>3
  <2>2. CASE ~(m > Len(s))
    <3>1. t = [s EXCEPT ![m] = model] /\ m \in 1..Len(s)
      BY <1>0, <1>1, <2>2
    <3> DEFINE u == [s EXCEPT ![m] = model]
    <3>2. s \in [1..Len(s) -> M]
      BY <1>0
    <3>3. /\ u \in [1..Len(s) -> M] /\ u[m] = model
          /\ \A n \in 1..Len(s) : n # m => u[n] = s[n]
      BY <1>0, <3>1, <3>2
    <3>4. DOMAIN u = 1..Len(s)
      BY <3>3
    <3> HIDE DEF u
    <3>5. u \in Seq(M) /\ Len(u) = Len(s)
      BY <1>1, <3>3, <3>4
    <3>6. t = u
      BY <3>1 DEF u
    <3>a. m \in 1..Len(s)
      BY <3>1
    <3>b. m \in DOMAIN s
      BY ONLY <1>1, <3>a
    <3>c. Len(s) <= Len(s)
      BY ONLY <1>1
    <3>7. DOMAIN s = DOMAIN s \cup {m} /\ Len(s) <= Len(s)
      BY <3>b, <3>c
    <3>8. DOMAIN u = DOMAIN s \cup {m} /\ Len(s) <= Len(u)
      BY <1>1, <3>4, <3>5, <3>7
    <3>9. \A n \in DOMAIN s : n # m => u[n] = s[n]
      BY <1>1, <3>3
    <3> HIDE DEF t
    <3> QED BY <3>3, <3>5, <3>6, <3>8, <3>9
  <2> QED BY <2>1, <2>2
<1>3. models' = [models EXCEPT ![id0] = t]
  BY DEF Placed
<1> HIDE DEF t
<1>4. /\ models'[id0] = t
      /\ \A id \in Id : id # id0 => models'[id] = models[id]
      /\ models' \in Models
  BY <1>2, <1>3 DEF Models
<1>5. Indexed(models')
  BY <1>4 DEF Indexed, Models
<1>6. \A id \in Id : Len(models[id]) <= Len(models'[id])
  <2> TAKE id \in Id
  <2>1. Len(models[id]) \in Nat
    BY DEF Models
  <2> QED BY <1>2, <1>4, <2>1
<1> QED BY <1>2, <1>4, <1>5, <1>6

-----------------------------------------------------------------------------
(* Each action keeps the invariant: first the batches. *)

Order(op, id, m, model) ==
    [op |-> op, id |-> id, model |-> m,
     row |-> IF op = "destroyPermanently" THEN NoRow
             ELSE [ver |-> model.ver, deleted |-> model.status = "deleted"]]

LEMMA OrderIs ==
    ASSUME NEW op, NEW id0, NEW m, NEW model, id0 \in Id, m \in Nat,
           op \in {"create", "update", "destroyPermanently"},
           model \in [ver : 1..MaxVersion, status : Statuses]
    PROVE  /\ Order(op, id0, m, model) \in Call
           /\ Order(op, id0, m, model).op = op /\ Order(op, id0, m, model).id = id0
           /\ Order(op, id0, m, model).model = m
           /\ op # "destroyPermanently" =>
                /\ Order(op, id0, m, model).row \in Row
                /\ Order(op, id0, m, model).row # NoRow
                /\ Order(op, id0, m, model).row.deleted <=> model.status = "deleted"
<1>1. model.ver \in 1..MaxVersion /\ model.status \in Statuses
  OBVIOUS
<1>2. [ver |-> model.ver, deleted |-> model.status = "deleted"] \in Row
  BY <1>1 DEF Row
<1>3. [ver |-> model.ver, deleted |-> model.status = "deleted"] # NoRow
  BY <1>1 DEF NoRow
<1> QED BY <1>2, <1>3 DEF Order, Call, Ops

LEMMA BatchKeeps ==
    ASSUME NEW op, NEW id0, NEW m, NEW model, CachingInv, "lokiSync" \notin Adapters,
           id0 \in Id, m \in 1..(Len(models[id0]) + 1),
           op \in {"create", "update", "destroyPermanently"},
           model \in [ver : 1..MaxVersion, status : Statuses],
           Batch(op, id0, m, model),
           Lives(LineOf(answers, Append(calls, Order(op, id0, m, model))),
                 driver.rows, driver.sent, models', cache', FALSE)
    PROVE  CachingInv'
<1> DEFINE c == Order(op, id0, m, model)
<1>0. models \in Models /\ cache \in [Id -> Nat] /\ resetting \in BOOLEAN
  BY Types
<1>1. /\ models \in Models /\ cache \in [Id -> Nat] /\ resetting = FALSE
      /\ \A id \in Id : cache[id] <= Len(models[id])
      /\ Len(models[id0]) \in Nat
  <2>1. resetting = FALSE
    BY <1>0 DEF Batch
  <2>2. \A id \in Id : cache[id] <= Len(models[id])
    BY DEF CachingInv, TypeOK
  <2>3. Len(models[id0]) \in Nat
    BY <1>0 DEF Models
  <2> QED BY <1>0, <2>1, <2>2, <2>3
<1>2. m \in Nat
  BY <1>1
<1>3. /\ Send(c) /\ cache' = cache /\ resetting' = resetting
      /\ missed' = {} /\ tainted' = tainted
      /\ Placed(models, models', id0, m, model)
  BY DEF Batch, Order, Placed
<1>4. /\ c \in Call /\ c.op = op /\ c.id = id0
      /\ op \in {"create", "update"} => c.row \in Row
  BY <1>2, OrderIs
<1>5. models' \in Models /\ \A id \in Id : Len(models[id]) <= Len(models'[id])
  BY <1>1, <1>3, Models1
<1>6. Lives(LineOf(answers, Append(calls, c)), driver.rows, driver.sent, models', cache', resetting')
  BY <1>1, <1>3
<1> HIDE DEF c
<1>7. /\ Holds(answers', calls', driver', models', cache', resetting')
      /\ driver' \in Drivers /\ answers' \in Seq(Answer) /\ calls' \in Seq(Call)
  BY <1>1, <1>3, <1>4, <1>6, Sends
<1>8. cache' \in [Id -> Nat] /\ \A id \in Id : cache'[id] <= Len(models'[id])
  <2>1. \A id \in Id : cache[id] \in Nat /\ Len(models[id]) \in Nat /\ Len(models'[id]) \in Nat
    BY <1>1, <1>5 DEF Models
  <2> QED BY <1>1, <1>3, <1>5, <2>1
<1> QED BY <1>1, <1>3, <1>5, <1>7, <1>8 DEF CachingInv, TypeOK, Drivers, Models

LEMMA CreateKeeps ==
    ASSUME NEW id0 \in Id, CachingInv, "lokiSync" \notin Adapters, Create(id0)
    PROVE  CachingInv'
<1> DEFINE m == Len(models[id0]) + 1
           model == [ver |-> 1, status |-> "pending"]
           c == Order("create", id0, m, model)
           P == LineOf(answers, calls)
           Q == LineOf(answers, Append(calls, c))
           N == Len(answers) + Len(calls)
<1>0. /\ models \in Models /\ Indexed(models) /\ resetting \in BOOLEAN
      /\ Lives(P, driver.rows, driver.sent, models, cache, resetting)
  BY Types
<1>1. Len(models[id0]) \in Nat /\ DOMAIN models[id0] = 1..Len(models[id0])
  BY <1>0 DEF Models
<1>2. /\ cache[id0] = 0 /\ resetting = FALSE /\ Batch("create", id0, m, model)
      /\ \A n \in DOMAIN models[id0] : models[id0][n].status # "pending"
  BY <1>0, <1>1 DEF Create, Batch
<1>3. m \in Nat \ {0} /\ m \in 1..(Len(models[id0]) + 1) /\ m \notin DOMAIN models[id0]
  BY <1>1
<1>4. model \in [ver : 1..MaxVersion, status : Statuses] /\ model.status = "pending"
  BY CachingAssumption DEF Statuses
<1>5. /\ c \in Call /\ c.op = "create" /\ c.id = id0 /\ c.model = m
      /\ c.row \in Row /\ c.row # NoRow /\ ~c.row.deleted
  BY <1>3, <1>4, OrderIs
<1>6. Joins(P, Q, N, Waiting(c)) /\ N \in Nat
  BY <1>5, Asked
<1>7. Placed(models, models', id0, m, model) /\ cache' = cache
  BY <1>2 DEF Batch, Placed
<1> HIDE DEF m, model
<1>8. /\ \A id \in Id : id # id0 => models'[id] = models[id]
      /\ DOMAIN models'[id0] = DOMAIN models[id0] \cup {m}
      /\ models'[id0][m].status = "pending"
      /\ \A n \in DOMAIN models[id0] : models'[id0][n] = models[id0][n]
  BY <1>0, <1>1, <1>3, <1>4, <1>7, Models1
<1>9. /\ ~Waiting(c).done /\ Waiting(c).found = {} /\ Waiting(c).call = c
      /\ IsLive(Waiting(c).call.row)
  BY <1>5 DEF Waiting, IsLive
<1> HIDE DEF P, Q, N, c
<1>10. Lives(Q, driver.rows, driver.sent, models', cache', FALSE)
  <2>1. PICK r, st, e : r = driver.rows /\ st = driver.sent /\ e = Waiting(c)
    OBVIOUS
  <2>2. Lives(P, r, st, models, cache, FALSE) /\ Joins(P, Q, N, e)
    BY <1>0, <1>2, <1>6, <2>1
  <2>3. /\ ~e.done /\ e.found = {} /\ e.call.id = id0 /\ e.call.op = "create"
        /\ e.call.model = m /\ IsLive(e.call.row)
    BY <1>5, <1>9, <2>1
  <2>4. Lives(P, r, st, models, cache, resetting) /\ ~resetting /\ resetting \in BOOLEAN
    BY <1>2, <2>2
  <2>5. Lives(Q, r, st, models', cache, resetting)
    BY <1>0, <1>2, <1>3, <1>6, <1>8, <2>2, <2>3, <2>4, JoinCreate
  <2> QED BY <1>2, <1>7, <2>1, <2>5
<1> QED BY <1>2, <1>3, <1>4, <1>10, BatchKeeps DEF Q, c, m

LEMMA UpdateKeeps ==
    ASSUME NEW id0 \in Id, NEW m \in DOMAIN models[id0],
           CachingInv, "lokiSync" \notin Adapters, Update(id0, m)
    PROVE  CachingInv'
<1> DEFINE model == [models[id0][m] EXCEPT !.ver = @ + 1]
           c == Order("update", id0, m, model)
           P == LineOf(answers, calls)
           Q == LineOf(answers, Append(calls, c))
           N == Len(answers) + Len(calls)
<1>0. /\ models \in Models /\ Indexed(models) /\ resetting \in BOOLEAN
      /\ Lives(P, driver.rows, driver.sent, models, cache, resetting)
  BY Types
<1>1. /\ m \in Nat /\ m \in 1..(Len(models[id0]) + 1)
      /\ models[id0][m] \in [ver : 1..MaxVersion, status : Statuses]
  BY <1>0, ModelIs
<1>2. /\ resetting = FALSE /\ Batch("update", id0, m, model)
      /\ models[id0][m].status = "live" /\ models[id0][m].ver < MaxVersion
  BY <1>0 DEF Update, Batch
<1>3. DOMAIN models[id0] = DOMAIN models[id0] \cup {m}
  OBVIOUS
<1>4. model \in [ver : 1..MaxVersion, status : Statuses] /\ model.status = "live"
  BY <1>1, <1>2, CachingAssumption DEF Statuses
<1>5. /\ c \in Call /\ c.op = "update" /\ c.id = id0
      /\ ~c.row.deleted
  BY <1>1, <1>4, OrderIs
<1>6. Joins(P, Q, N, Waiting(c)) /\ N \in Nat
  BY <1>5, Asked
<1>7. Placed(models, models', id0, m, model) /\ cache' = cache
  BY <1>2 DEF Batch, Placed
<1> HIDE DEF model
<1>8. /\ \A id \in Id : id # id0 => models'[id] = models[id]
      /\ DOMAIN models'[id0] = DOMAIN models[id0]
      /\ models'[id0][m].status = "live"
      /\ \A n \in DOMAIN models[id0] : n # m => models'[id0][n] = models[id0][n]
  <2>1. /\ \A id \in Id : id # id0 => models'[id] = models[id]
        /\ DOMAIN models'[id0] = DOMAIN models[id0] \cup {m}
        /\ models'[id0][m] = model
        /\ \A n \in DOMAIN models[id0] : n # m => models'[id0][n] = models[id0][n]
    BY <1>0, <1>1, <1>4, <1>7, Models1
  <2> QED BY <1>3, <1>4, <2>1
<1>9. ~Waiting(c).done /\ Waiting(c).ok /\ Waiting(c).found = {} /\ Waiting(c).call = c
  BY DEF Waiting
<1> HIDE DEF P, Q, N, c
<1>10. Lives(Q, driver.rows, driver.sent, models', cache', FALSE)
  <2>1. PICK r, st, e : r = driver.rows /\ st = driver.sent /\ e = Waiting(c)
    OBVIOUS
  <2>2. Lives(P, r, st, models, cache, resetting) /\ Joins(P, Q, N, e) /\ ~resetting
    BY <1>0, <1>2, <1>6, <2>1
  <2>3. /\ ~e.done /\ e.ok /\ e.found = {} /\ e.call.id = id0 /\ e.call.op = "update" /\ ~e.call.row.deleted
    BY <1>5, <1>9, <2>1
  <2>4. /\ \A id \in Id : DOMAIN models'[id] = DOMAIN models[id]
        /\ \A id \in Id : \A n \in DOMAIN models[id] :
             models'[id][n].status = models[id][n].status
    BY <1>2, <1>8
  <2>5. m \in Nat /\ N \in Nat /\ Indexed(models) /\ resetting \in BOOLEAN
    BY <1>0, <1>1, <1>6
  <2>6. m \in DOMAIN models[id0] /\ models[id0][m].status = "live" /\ models'[id0][m].status = "live"
    BY <1>2, <1>8
  <2>7. Lives(Q, r, st, models', cache, resetting)
    BY ONLY <2>2, <2>3, <2>4, <2>5, <2>6, JoinUpdate, id0 \in Id
  <2> QED BY <1>2, <1>7, <2>1, <2>7
<1> QED BY <1>1, <1>2, <1>4, <1>10, BatchKeeps DEF Q, c

LEMMA MarkKeeps ==
    ASSUME NEW id0 \in Id, NEW m \in DOMAIN models[id0],
           CachingInv, "lokiSync" \notin Adapters, MarkAsDeleted(id0, m)
    PROVE  CachingInv'
<1> DEFINE model == [models[id0][m] EXCEPT !.status = "deleted"]
           c == Order("update", id0, m, model)
           P == LineOf(answers, calls)
           Q == LineOf(answers, Append(calls, c))
           N == Len(answers) + Len(calls)
<1>0. /\ models \in Models /\ Indexed(models) /\ resetting \in BOOLEAN
      /\ Lives(P, driver.rows, driver.sent, models, cache, resetting)
  BY Types
<1>1. /\ m \in Nat /\ m \in 1..(Len(models[id0]) + 1)
      /\ models[id0][m] \in [ver : 1..MaxVersion, status : Statuses]
  BY <1>0, ModelIs
<1>2. /\ resetting = FALSE /\ Batch("update", id0, m, model)
      /\ models[id0][m].status = "live"
  BY <1>0 DEF MarkAsDeleted, Batch
<1>3. DOMAIN models[id0] = DOMAIN models[id0] \cup {m}
  OBVIOUS
<1>4. model \in [ver : 1..MaxVersion, status : Statuses] /\ model.status = "deleted"
  BY <1>1, <1>2, CachingAssumption DEF Statuses
<1>5. /\ c \in Call /\ c.op = "update" /\ c.id = id0
      /\ c.row.deleted
  BY <1>1, <1>4, OrderIs
<1>6. Joins(P, Q, N, Waiting(c)) /\ N \in Nat
  BY <1>5, Asked
<1>7. Placed(models, models', id0, m, model) /\ cache' = cache
  BY <1>2 DEF Batch, Placed
<1> HIDE DEF model
<1>8. /\ \A id \in Id : id # id0 => models'[id] = models[id]
      /\ DOMAIN models'[id0] = DOMAIN models[id0]
      /\ models'[id0][m].status = "deleted"
      /\ \A n \in DOMAIN models[id0] : n # m => models'[id0][n] = models[id0][n]
  <2>1. /\ \A id \in Id : id # id0 => models'[id] = models[id]
        /\ DOMAIN models'[id0] = DOMAIN models[id0] \cup {m}
        /\ models'[id0][m] = model
        /\ \A n \in DOMAIN models[id0] : n # m => models'[id0][n] = models[id0][n]
    BY <1>0, <1>1, <1>4, <1>7, Models1
  <2> QED BY <1>3, <1>4, <2>1
<1>9. ~Waiting(c).done /\ Waiting(c).ok /\ Waiting(c).found = {} /\ Waiting(c).call = c
  BY DEF Waiting
<1> HIDE DEF P, Q, N, c
<1>10. Lives(Q, driver.rows, driver.sent, models', cache', FALSE)
  <2>1. PICK r, st, e : r = driver.rows /\ st = driver.sent /\ e = Waiting(c)
    OBVIOUS
  <2>2. Lives(P, r, st, models, cache, resetting) /\ Joins(P, Q, N, e) /\ ~resetting
    BY <1>0, <1>2, <1>6, <2>1
  <2>3. /\ ~e.done /\ e.ok /\ e.found = {} /\ e.call.id = id0 /\ e.call.op = "update" /\ e.call.row.deleted
    BY <1>5, <1>9, <2>1
  <2>4. /\ \A id \in Id : DOMAIN models'[id] = DOMAIN models[id]
        /\ \A id \in Id : \A n \in DOMAIN models[id] :
             <<id, n>> # <<id0, m>> => models'[id][n] = models[id][n]
    BY <1>8
  <2>5. m \in Nat /\ N \in Nat /\ Indexed(models) /\ resetting \in BOOLEAN
    BY <1>0, <1>1, <1>6
  <2>6. m \in DOMAIN models[id0] /\ models[id0][m].status = "live" /\ models'[id0][m].status = "deleted"
    BY <1>2, <1>8
  <2>7. Lives(Q, r, st, models', cache, resetting)
    BY ONLY <2>2, <2>3, <2>4, <2>5, <2>6, JoinMark, id0 \in Id
  <2> QED BY <1>2, <1>7, <2>1, <2>7
<1> QED BY <1>1, <1>2, <1>4, <1>10, BatchKeeps DEF Q, c

LEMMA DestroyKeeps ==
    ASSUME NEW id0 \in Id, NEW m \in DOMAIN models[id0],
           CachingInv, "lokiSync" \notin Adapters, ~Stale, DestroyPermanently(id0, m)
    PROVE  CachingInv'
<1> DEFINE model == [models[id0][m] EXCEPT !.status = "deleted"]
           c == Order("destroyPermanently", id0, m, model)
           P == LineOf(answers, calls)
           Q == LineOf(answers, Append(calls, c))
           N == Len(answers) + Len(calls)
<1>0. /\ models \in Models /\ Indexed(models) /\ resetting \in BOOLEAN
      /\ Lives(P, driver.rows, driver.sent, models, cache, resetting)
  BY Types
<1>1. /\ m \in Nat /\ m \in 1..(Len(models[id0]) + 1)
      /\ models[id0][m] \in [ver : 1..MaxVersion, status : Statuses]
  BY <1>0, ModelIs
<1>2. /\ resetting = FALSE /\ Batch("destroyPermanently", id0, m, model)
      /\ models[id0][m].status \in {"live", "deleted"} /\ ~IsReplaced(id0, m)
  BY <1>0 DEF DestroyPermanently, Batch
<1>3. DOMAIN models[id0] = DOMAIN models[id0] \cup {m}
  OBVIOUS
<1>4. model \in [ver : 1..MaxVersion, status : Statuses] /\ model.status = "deleted"
  BY <1>1, <1>2, CachingAssumption DEF Statuses
<1>5. /\ c \in Call /\ c.op = "destroyPermanently" /\ c.id = id0
  BY <1>1, <1>4, OrderIs
<1>6. Joins(P, Q, N, Waiting(c)) /\ N \in Nat
  BY <1>5, Asked
<1>7. Placed(models, models', id0, m, model) /\ cache' = cache
  BY <1>2 DEF Batch, Placed
<1> HIDE DEF model
<1>8. /\ \A id \in Id : id # id0 => models'[id] = models[id]
      /\ DOMAIN models'[id0] = DOMAIN models[id0]
      /\ models'[id0][m].status = "deleted"
      /\ \A n \in DOMAIN models[id0] : n # m => models'[id0][n] = models[id0][n]
  <2>1. /\ \A id \in Id : id # id0 => models'[id] = models[id]
        /\ DOMAIN models'[id0] = DOMAIN models[id0] \cup {m}
        /\ models'[id0][m] = model
        /\ \A n \in DOMAIN models[id0] : n # m => models'[id0][n] = models[id0][n]
    BY <1>0, <1>1, <1>4, <1>7, Models1
  <2> QED BY <1>3, <1>4, <2>1
<1>9. ~Waiting(c).done /\ Waiting(c).ok /\ Waiting(c).found = {} /\ Waiting(c).call = c
  BY DEF Waiting
<1>a. /\ \A n \in DOMAIN models[id0] : n # m => models[id0][n].status # "live"
      /\ \A k \in DOMAIN P : Creates(P[k], id0) => P[k].call.model = m
  BY <1>2, <1>5, Asked DEF IsReplaced, Creates
<1> HIDE DEF P, Q, N, c
<1>10. Lives(Q, driver.rows, driver.sent, models', cache', FALSE)
  <2>1. PICK r, st, e : r = driver.rows /\ st = driver.sent /\ e = Waiting(c)
    OBVIOUS
  <2>2. Lives(P, r, st, models, cache, resetting) /\ Joins(P, Q, N, e) /\ ~resetting
    BY <1>0, <1>2, <1>6, <2>1
  <2>3. /\ ~e.done /\ e.ok /\ e.found = {} /\ e.call.id = id0 /\ e.call.op = "destroyPermanently"
    BY <1>5, <1>9, <2>1
  <2>4. /\ \A id \in Id : DOMAIN models'[id] = DOMAIN models[id]
        /\ \A id \in Id : \A n \in DOMAIN models[id] :
             <<id, n>> # <<id0, m>> => models'[id][n] = models[id][n]
    BY <1>8
  <2>5. m \in Nat /\ N \in Nat /\ Indexed(models) /\ resetting \in BOOLEAN
    BY <1>0, <1>1, <1>6
  <2>6. m \in DOMAIN models[id0] /\ models[id0][m].status \in {"live", "deleted"} /\ models'[id0][m].status = "deleted"
    BY <1>2, <1>8
  <2>7. Lives(Q, r, st, models', cache, resetting)
    BY ONLY <2>2, <2>3, <2>4, <2>5, <2>6, <1>a, JoinDestroy, id0 \in Id
  <2> QED BY <1>2, <1>7, <2>1, <2>7
<1> QED BY <1>1, <1>2, <1>4, <1>10, BatchKeeps DEF Q, c

(* Then the calls that leave the Models as they are. *)
LEMMA SendKeepsModels ==
    ASSUME NEW c, CachingInv, "lokiSync" \notin Adapters, Send(c), c \in Call,
           c.op \notin {"query", "unsafeResetDatabase"} => c.id \in Id,
           c.op \notin {"create", "update", "clearCachedRecords"},
           resetting => resetting', resetting' \in BOOLEAN,
           Lives(LineOf(answers, Append(calls, c)), driver.rows, driver.sent,
                 models, cache, resetting'),
           UNCHANGED <<models, cache, tainted>>, missed' = {}
    PROVE  CachingInv'
<1>0. models' = models /\ cache' = cache /\ tainted' = tainted
  OBVIOUS
<1>1. Lives(LineOf(answers, Append(calls, c)), driver.rows, driver.sent, models', cache', resetting')
  BY <1>0
<1>2. /\ Holds(answers', calls', driver', models', cache', resetting')
      /\ driver' \in Drivers /\ answers' \in Seq(Answer) /\ calls' \in Seq(Call)
  BY <1>1, Sends
<1> QED BY <1>0, <1>2 DEF CachingInv, TypeOK, Drivers

LEMMA PlainIs ==
    ASSUME NEW op, op \in Ops
    PROVE  Plain(op) \in Call /\ Plain(op).op = op /\ Plain(op).id = NoId
BY DEF Plain, Call

LEMMA FindIs ==
    ASSUME NEW op, NEW id0, op \in Ops, id0 \in Id
    PROVE  /\ [Plain(op) EXCEPT !.id = id0] \in Call
           /\ [Plain(op) EXCEPT !.id = id0].op = op /\ [Plain(op) EXCEPT !.id = id0].id = id0
BY DEF Plain, Call

LEMMA DestroyDeletedKeeps ==
    ASSUME NEW id0 \in Id, CachingInv, "lokiSync" \notin Adapters, DestroyDeletedRecords(id0)
    PROVE  CachingInv'
<1> DEFINE c == [Plain("destroyDeletedRecords") EXCEPT !.id = id0]
           P == LineOf(answers, calls)
           Q == LineOf(answers, Append(calls, c))
           N == Len(answers) + Len(calls)
<1>0. /\ resetting \in BOOLEAN
      /\ Lives(P, driver.rows, driver.sent, models, cache, resetting)
  BY Types
<1>1. /\ resetting = FALSE /\ driver.rows[id0].deleted /\ Send(c)
      /\ \A x \in UnderWay : x.id = id0 => x.op = "find"
      /\ UNCHANGED <<models, cache, tainted>> /\ missed' = {} /\ resetting' = resetting
  BY <1>0 DEF DestroyDeletedRecords
<1>2. c \in Call /\ c.op = "destroyDeletedRecords" /\ c.id = id0
  BY FindIs DEF Ops
<1>3. Joins(P, Q, N, Waiting(c)) /\ N \in Nat /\ \A k \in DOMAIN P : P[k].call \in UnderWay
  BY <1>2, Asked
<1>4. ~Waiting(c).done /\ Waiting(c).found = {} /\ Waiting(c).call = c
  BY DEF Waiting
<1> HIDE DEF P, Q, N, c
<1>5. \A k \in DOMAIN P : ~Writes(P[k], id0)
  BY <1>1, <1>3 DEF Writes
<1>6. Lives(Q, driver.rows, driver.sent, models, cache, resetting')
  <2>1. PICK r, st, e : r = driver.rows /\ st = driver.sent /\ e = Waiting(c)
    OBVIOUS
  <2>2. Lives(P, r, st, models, cache, resetting) /\ Joins(P, Q, N, e) /\ ~resetting
    BY <1>0, <1>1, <1>3, <2>1
  <2>3. /\ ~e.done /\ e.found = {} /\ e.call.id = id0 /\ e.call.op = "destroyDeletedRecords"
        /\ ~IsLive(r[id0])
    BY <1>1, <1>2, <1>4, <2>1 DEF IsLive
  <2>4. Lives(Q, r, st, models, cache, resetting)
    BY <1>0, <1>3, <1>5, <2>2, <2>3, JoinDestroyDeleted
  <2> QED BY <1>1, <2>1, <2>4
<1> QED BY <1>0, <1>1, <1>2, <1>6, SendKeepsModels DEF Q

LEMMA QuietKeeps ==
    ASSUME NEW c, CachingInv, "lokiSync" \notin Adapters, Send(c), c \in Call,
           c.op \in {"find", "query", "unsafeResetDatabase"},
           c.op = "find" => c.id \in Id,
           ~resetting, resetting' \in BOOLEAN, c.op = "unsafeResetDatabase" => resetting',
           UNCHANGED <<models, cache, tainted>>, missed' = {}
    PROVE  CachingInv'
<1> DEFINE P == LineOf(answers, calls)
           Q == LineOf(answers, Append(calls, c))
           N == Len(answers) + Len(calls)
<1>0. /\ resetting \in BOOLEAN
      /\ Lives(P, driver.rows, driver.sent, models, cache, resetting)
  BY Types
<1>1. Joins(P, Q, N, Waiting(c)) /\ N \in Nat
  BY Asked
<1>2. /\ ~Waiting(c).done /\ Waiting(c).found = {} /\ Waiting(c).call = c
      /\ \A id \in Id : ~Writes(Waiting(c), id)
      /\ c # Plain("clearCachedRecords")
  BY DEF Waiting, Writes, Plain
<1> HIDE DEF P, Q, N
<1>3. Lives(Q, driver.rows, driver.sent, models, cache, resetting')
  <2>1. PICK r, st, e, rs2 :
          r = driver.rows /\ st = driver.sent /\ e = Waiting(c) /\ rs2 = resetting'
    OBVIOUS
  <2>2. Lives(P, r, st, models, cache, resetting) /\ Joins(P, Q, N, e)
    BY <1>0, <1>1, <2>1
  <2>3. /\ ~e.done /\ e.found = {} /\ \A id \in Id : ~Writes(e, id)
        /\ rs2 \in BOOLEAN
        /\ IF e.call = Plain("clearCachedRecords") THEN rs2 = resetting
           ELSE ~resetting /\ (e.call.op = "unsafeResetDatabase" => rs2)
    BY <1>2, <2>1
  <2>4. Lives(Q, r, st, models, cache, rs2)
    BY <1>0, <1>1, <2>2, <2>3, JoinQuiet
  <2> QED BY <2>1, <2>4
<1> QED BY <1>3, SendKeepsModels DEF Q

LEMMA ResetKeeps ==
    ASSUME CachingInv, "lokiSync" \notin Adapters, Reset
    PROVE  CachingInv'
<1>1. /\ ~resetting /\ resetting' = TRUE /\ Send(Plain("unsafeResetDatabase"))
      /\ UNCHANGED <<models, cache, tainted>> /\ missed' = {}
  BY DEF Reset
<1>2. Plain("unsafeResetDatabase") \in Call /\ Plain("unsafeResetDatabase").op = "unsafeResetDatabase"
  BY PlainIs DEF Ops
<1> QED BY <1>1, <1>2, QuietKeeps

LEMMA DriverStepKeeps ==
    ASSUME CachingInv, "lokiSync" \notin Adapters, DriverStep
    PROVE  CachingInv'
<1>0. /\ driver \in Drivers /\ calls \in Seq(Call) /\ answers \in Seq(Answer)
      /\ resetting \in BOOLEAN /\ NamesRecords(LineOf(answers, calls))
      /\ With(LineOf(answers, calls), driver, models, cache, resetting)
  BY Types DEF With
<1>1. /\ calls # <<>> /\ calls' = Tail(calls) /\ missed' = {}
      /\ models' = models /\ cache' = cache /\ resetting' = resetting /\ tainted' = tainted
  BY DEF DriverStep
<1>2. driver.adapter # "sqliteSync"
  BY <1>1 DEF CachingInv, Holds
<1>3. PICK ok \in BOOLEAN, found \in {{}, FoundIn(driver, Head(calls))} :
        LET a == [call |-> Head(calls), ok |-> ok, found |-> found] IN
        Execute(driver, Head(calls), driver', a) /\ answers' = Append(answers, a)
  BY DEF DriverStep
<1> DEFINE c == Head(calls)
           a == [call |-> c, ok |-> ok, found |-> found]
<1>4. Execute(driver, c, driver', a) /\ answers' = Append(answers, a)
  BY <1>3
<1>5. a \in Answer
  <2>1. c \in Call
    BY <1>0, <1>1
  <2>2. c.op \notin {"query", "clearCachedRecords", "unsafeResetDatabase"} => c.id \in Id
    <3>1. /\ Len(answers) \in Nat /\ Len(calls) \in Nat /\ Len(calls) > 0
          /\ c = calls[1]
      BY <1>0, <1>1
    <3>2. /\ Len(answers) + 1 \in 1..(Len(answers) + Len(calls))
          /\ (Len(answers) + 1) - Len(answers) = 1
      BY <3>1
    <3>3. LineOf(answers, calls)[Len(answers) + 1] = Waiting(calls[1])
      BY <1>0, <3>1, <3>2, LineShape
    <3>4. Len(answers) + 1 \in DOMAIN LineOf(answers, calls)
      BY <1>0, <3>2, LineShape
    <3> QED BY <1>0, <3>1, <3>3, <3>4 DEF NamesRecords, Waiting
  <2>3. FoundIn(driver, c) \in SUBSET Found
    BY <1>0, <2>1, <2>2, FoundInIs
  <2> QED BY <2>1, <2>3 DEF Answer
<1> HIDE DEF a
<1>6. /\ With(LineOf(answers', calls'), driver', models, cache, resetting)
      /\ NamesRecords(LineOf(answers', calls'))
      /\ driver' \in Drivers /\ Alike(driver, driver')
      /\ answers' \in Seq(Answer) /\ calls' \in Seq(Call)
  BY <1>0, <1>1, <1>4, <1>5, DriverKeeps
<1>7. Holds(answers', calls', driver', models', cache', resetting')
  BY <1>1, <1>2, <1>6 DEF Holds, Alike
<1> QED BY <1>1, <1>6, <1>7 DEF CachingInv, TypeOK, Drivers

-----------------------------------------------------------------------------
(* Models are made of what comes back. *)

(* The Models made of the records K, which are rows of the answer found. *)
LEMMA Instantiated ==
    ASSUME NEW K, NEW found, CachingInv, Instantiate(K), Kept(found, K), found \in SUBSET Found,
           \A x \in found : ~x.bare => x.row # NoRow,
           \A x, y \in found : x.id = y.id => x = y
    PROVE  /\ models' \in Models /\ Indexed(models')
           /\ cache' \in [Id -> Nat] /\ \A id \in Id : cache'[id] <= Len(models'[id])
           /\ \A id \in Id : ~IsNew(K, id) => models'[id] = models[id] /\ cache'[id] = cache[id]
           /\ \A id \in Id : IsNew(K, id) =>
                /\ cache[id] = 0
                /\ cache'[id] \notin DOMAIN models[id]
                /\ DOMAIN models'[id] = DOMAIN models[id] \cup {cache'[id]}
                /\ \A n \in DOMAIN models[id] : models'[id][n] = models[id][n]
           /\ \A id \in Id : IsNew(K, id) /\ models'[id][cache'[id]].status = "live" =>
                \E x \in found : x.id = id /\ ~x.bare /\ IsLive(x.row)
<1> DEFINE M == [ver : 1..MaxVersion, status : Statuses]
           model(id) == [ver |-> RowIn(K, id).ver,
                         status |-> IF RowIn(K, id).deleted THEN "deleted" ELSE "live"]
<1>0. models \in Models /\ cache \in [Id -> Nat]
  BY Types
<1>1. K \subseteq found
  BY DEF Kept
<1>2. \A id \in Id : cache[id] <= Len(models[id])
  BY DEF CachingInv, TypeOK
<1>3. /\ models' = [id \in Id |-> IF IsNew(K, id) THEN Append(models[id], model(id)) ELSE models[id]]
      /\ cache' = [id \in Id |-> IF IsNew(K, id) THEN Len(models[id]) + 1 ELSE cache[id]]
  BY DEF Instantiate
<1>4. ASSUME NEW id \in Id, IsNew(K, id)
      PROVE  /\ model(id) \in M
             /\ model(id).status = "live" => \E x \in found : x.id = id /\ ~x.bare /\ IsLive(x.row)
  <2>1. PICK x \in K : x.id = id /\ ~x.bare
    BY <1>4 DEF IsNew
  <2>2. \A y \in K : y.id = id => y = x
    BY <1>1, <2>1
  <2>3. RowIn(K, id) = x.row
    BY <2>1, <2>2 DEF RowIn
  <2>4. x.row \in Row
    BY <1>1, <2>1 DEF Found
  <2>5. x.row.ver \in 1..MaxVersion /\ x.row.deleted \in BOOLEAN
    BY <2>4 DEF Row
  <2>6. model(id) \in M
    BY <2>3, <2>5 DEF Statuses
  <2>7. model(id).status = "live" => IsLive(x.row)
    BY <1>1, <2>1, <2>3, <2>5 DEF IsLive
  <2> QED BY <1>1, <2>1, <2>6, <2>7
<1> HIDE DEF model, M
<1>5. ASSUME NEW id \in Id
      PROVE  models[id] \in Seq(M) /\ Len(models[id]) \in Nat /\ DOMAIN models[id] = 1..Len(models[id])
  <2>1. models[id] \in Seq(M)
    BY <1>0 DEF Models, M
  <2> QED BY <2>1
<1>6. ASSUME NEW id \in Id, IsNew(K, id)
      PROVE  /\ models'[id] \in Seq(M) /\ Len(models'[id]) = Len(models[id]) + 1
             /\ cache[id] = 0 /\ cache'[id] = Len(models[id]) + 1
             /\ cache'[id] \notin DOMAIN models[id]
             /\ DOMAIN models'[id] = DOMAIN models[id] \cup {cache'[id]}
             /\ \A n \in DOMAIN models[id] : models'[id][n] = models[id][n]
             /\ models'[id][cache'[id]] = model(id)
  <2> DEFINE s == models[id]
             mo == model(id)
  <2>1. s \in Seq(M) /\ mo \in M /\ Len(s) \in Nat /\ DOMAIN s = 1..Len(s)
    BY <1>4, <1>5, <1>6
  <2>2. models'[id] = Append(s, mo) /\ cache'[id] = Len(s) + 1 /\ cache[id] = 0
    BY <1>3, <1>6 DEF IsNew
  <2> HIDE DEF s, mo
  <2>3. /\ Append(s, mo) \in Seq(M) /\ Len(Append(s, mo)) = Len(s) + 1
        /\ Append(s, mo)[Len(s) + 1] = mo
        /\ \A n \in 1..Len(s) : Append(s, mo)[n] = s[n]
    BY <2>1
  <2>4. DOMAIN Append(s, mo) = 1..(Len(s) + 1)
    BY <2>1, <2>3
  <2>5. 1..(Len(s) + 1) = 1..Len(s) \cup {Len(s) + 1} /\ Len(s) + 1 \notin 1..Len(s)
    BY <2>1
  <2> QED BY <2>1, <2>2, <2>3, <2>4, <2>5 DEF s, mo
<1>7. ASSUME NEW id \in Id, ~IsNew(K, id)
      PROVE  models'[id] = models[id] /\ cache'[id] = cache[id]
  BY <1>3, <1>7
<1>8. models' \in Models /\ cache' \in [Id -> Nat]
  <2>1. \A id \in Id : models'[id] \in Seq(M) /\ cache'[id] \in Nat
    BY <1>0, <1>5, <1>6, <1>7
  <2>2. models' = [id \in Id |-> models'[id]] /\ cache' = [id \in Id |-> cache'[id]]
    BY <1>3
  <2> QED BY <2>1, <2>2 DEF Models, M
<1>9. \A id \in Id : cache'[id] <= Len(models'[id])
  BY <1>2, <1>5, <1>6, <1>7
<1>10. Indexed(models')
  BY <1>8 DEF Indexed, Models
<1> QED BY <1>4, <1>6, <1>7, <1>8, <1>9, <1>10

(* Models are made beside a queue that has nothing against it. *)
LEMMA ModelsAreMade ==
    ASSUME NEW K, NEW found, CachingInv, Instantiate(K), Kept(found, K), found \in SUBSET Found,
           \A x \in found : ~x.bare => x.row # NoRow,
           \A x, y \in found : x.id = y.id => x = y,
           \A x \in found : ~x.bare /\ IsLive(x.row) /\ cache[x.id] = 0 =>
             /\ IsLive(driver.rows[x.id]) \/ resetting
             /\ \A k \in DOMAIN LineOf(answers, calls) : ~Removes(LineOf(answers, calls)[k], x.id)
             /\ \A k \in DOMAIN LineOf(answers, calls) :
                  Creates(LineOf(answers, calls)[k], x.id) =>
                    ~LineOf(answers, calls)[k].done /\ driver.rows[x.id] # NoRow
    PROVE  /\ Lives(LineOf(answers, calls), driver.rows, driver.sent, models', cache', resetting)
           /\ models' \in Models /\ cache' \in [Id -> Nat]
           /\ \A id \in Id : cache'[id] <= Len(models'[id])
<1> DEFINE P == LineOf(answers, calls)
           fresh == {id \in Id : IsNew(K, id)}
<1>0. /\ models \in Models /\ Indexed(models) /\ resetting \in BOOLEAN
      /\ Lives(P, driver.rows, driver.sent, models, cache, resetting)
  BY Types
<1>1. /\ models' \in Models /\ Indexed(models')
      /\ cache' \in [Id -> Nat] /\ \A id \in Id : cache'[id] <= Len(models'[id])
      /\ \A id \in Id : ~IsNew(K, id) => models'[id] = models[id] /\ cache'[id] = cache[id]
      /\ \A id \in Id : IsNew(K, id) =>
           /\ cache[id] = 0
           /\ cache'[id] \notin DOMAIN models[id]
           /\ DOMAIN models'[id] = DOMAIN models[id] \cup {cache'[id]}
           /\ \A n \in DOMAIN models[id] : models'[id][n] = models[id][n]
      /\ \A id \in Id : IsNew(K, id) /\ models'[id][cache'[id]].status = "live" =>
           \E x \in found : x.id = id /\ ~x.bare /\ IsLive(x.row)
  BY Instantiated
<1>2. \A x \in found : ~x.bare /\ IsLive(x.row) /\ cache[x.id] = 0 =>
        /\ IsLive(driver.rows[x.id]) \/ resetting
        /\ \A k \in DOMAIN P : ~Removes(P[k], x.id)
        /\ \A k \in DOMAIN P : Creates(P[k], x.id) => ~P[k].done /\ driver.rows[x.id] # NoRow
  OBVIOUS
<1> HIDE DEF P
<1>3. PICK r, st : r = driver.rows /\ st = driver.sent
  OBVIOUS
<1>4. fresh \in SUBSET Id /\ Made(models, cache, models', cache', fresh)
  BY <1>1 DEF Made
<1>5. ASSUME NEW id \in fresh, models'[id][cache'[id]].status = "live"
      PROVE  /\ IsLive(r[id]) \/ resetting
             /\ \A k \in DOMAIN P : ~Removes(P[k], id)
             /\ \A k \in DOMAIN P : Creates(P[k], id) => ~P[k].done /\ r[id] # NoRow
  <2>1. PICK x \in found : x.id = id /\ ~x.bare /\ IsLive(x.row)
    BY <1>1, <1>5
  <2>2. cache[x.id] = 0
    BY <1>4, <1>5, <2>1 DEF Made
  <2> QED BY <1>2, <1>3, <2>1, <2>2
<1> HIDE DEF fresh
<1>6. Lives(P, r, st, models, cache, resetting)
  BY <1>0, <1>3
<1>7. Lives(P, r, st, models', cache', resetting)
  <2>1. \A id \in fresh : models'[id][cache'[id]].status = "live" =>
          /\ IsLive(r[id]) \/ resetting
          /\ \A k \in DOMAIN P : ~Removes(P[k], id)
          /\ \A k \in DOMAIN P : Creates(P[k], id) => ~P[k].done /\ r[id] # NoRow
    BY <1>5
  <2>2. Indexed(models) /\ Indexed(models') /\ resetting \in BOOLEAN
    BY <1>0, <1>1
  <2> QED BY ONLY <1>4, <1>6, <2>1, <2>2, MakeModels
<1> QED BY <1>1, <1>3, <1>7 DEF P

(* A row at the head of the queue, of a record without a Model. *)
LEMMA ShownIsFresh ==
    ASSUME NEW P, NEW N, NEW id, NEW r, NEW st, NEW ms, NEW ch, NEW rs,
           N \in Nat, N > 0, DOMAIN P = 1..N, id \in Id,
           Lives(P, r, st, ms, ch, rs), P[1].call.op \in {"find", "query"},
           Shows(P[1], id), ch[id] = 0
    PROVE  /\ IsLive(r[id]) \/ rs
           /\ \A k \in DOMAIN P : ~Removes(P[k], id)
           /\ \A k \in DOMAIN P : Creates(P[k], id) => ~P[k].done /\ r[id] # NoRow
<1>0. 1 \in 1..N /\ \A k \in 1..N : k = 1 \/ k > 1
  OBVIOUS
<1>1. ASSUME NEW k \in 1..N, Removes(P[k], id)
      PROVE  FALSE
  <2>1. k > 1
    BY <1>0, <1>1 DEF Removes
  <2> QED BY <1>0, <1>1, <2>1 DEF Lives, RemovedIsUnused, Barren
<1>2. IsLive(r[id]) \/ rs
  BY <1>0, <1>1 DEF Lives, ShownIsStored
<1>3. ASSUME NEW k \in 1..N, Creates(P[k], id)
      PROVE  ~P[k].done /\ r[id] # NoRow
  <2>1. k > 1
    BY <1>0, <1>3 DEF Creates
  <2> QED BY <1>0, <1>3, <2>1 DEF Lives, CreationIsFirst
<1> QED BY <1>1, <1>2, <1>3

LEMMA ReceiveRecordsKeeps ==
    ASSUME CachingInv, "lokiSync" \notin Adapters, ReceiveRecords
    PROVE  CachingInv'
<1> DEFINE P == LineOf(answers, calls)
           N == Len(answers) + Len(calls)
           Q == LineOf(Tail(answers), calls)
           found == Head(answers).found
<1>0. /\ driver \in Drivers /\ calls \in Seq(Call) /\ answers \in Seq(Answer)
      /\ resetting \in BOOLEAN /\ NamesRecords(P) /\ tainted \subseteq Id
      /\ Lives(P, driver.rows, driver.sent, models, cache, resetting)
  BY Types DEF CachingInv, TypeOK
<1>1. /\ answers # <<>> /\ Head(answers).call.op \in {"find", "query"}
      /\ answers' = Tail(answers) /\ driver' = driver /\ resetting' = resetting /\ tainted' = tainted
      /\ calls' = IF Recover(found) THEN Append(calls, Plain("clearCachedRecords")) ELSE calls
      /\ Report(found)
  BY DEF ReceiveRecords
<1>2. PICK K \in SUBSET found : Kept(found, K) /\ Instantiate(K)
  BY DEF ReceiveRecords
<1>3. /\ P[1] = Answered(Head(answers)) /\ Leaves(P, Q, N)
      /\ Head(answers) \in Answer /\ N \in Nat /\ N > 0 /\ DOMAIN P = 1..N /\ 1 \in 1..N
      /\ Tail(answers) \in Seq(Answer)
  <2>1. Len(answers) \in Nat /\ Len(calls) \in Nat /\ Len(answers) > 0
    BY <1>0, <1>1
  <2>2. DOMAIN P = 1..N
    BY <1>0, LineShape
  <2>3. P[1] = Answered(Head(answers)) /\ Leaves(P, Q, N)
    BY <1>0, <1>1, LineLeaves
  <2>4. Head(answers) \in Answer /\ Tail(answers) \in Seq(Answer)
    BY <1>0, <1>1
  <2> QED BY <2>1, <2>2, <2>3, <2>4
<1>4. P[1].call = Head(answers).call /\ P[1].found = found /\ found \in SUBSET Found
  BY <1>3 DEF Answered, Answer
<1> HIDE DEF P, Q, N, found
<1>5. /\ \A x \in found : ~x.bare => x.row # NoRow
      /\ \A x, y \in found : x.id = y.id => x = y
  BY <1>0, <1>3, <1>4 DEF Lives, AnswersAreRows, NamesRecords
<1>6. ASSUME NEW x \in found, ~x.bare, IsLive(x.row), cache[x.id] = 0
      PROVE  /\ IsLive(driver.rows[x.id]) \/ resetting
             /\ \A k \in DOMAIN P : ~Removes(P[k], x.id)
             /\ \A k \in DOMAIN P : Creates(P[k], x.id) => ~P[k].done /\ driver.rows[x.id] # NoRow
  <2>1. PICK r, st, id : r = driver.rows /\ st = driver.sent /\ id = x.id
    OBVIOUS
  <2>2. id \in Id /\ Shows(P[1], id) /\ cache[id] = 0
    BY <1>4, <1>6, <2>1 DEF Shows, Found
  <2>3. Lives(P, r, st, models, cache, resetting) /\ P[1].call.op \in {"find", "query"}
    BY <1>0, <1>1, <1>4, <2>1
  <2>4. /\ IsLive(r[id]) \/ resetting
        /\ \A k \in DOMAIN P : ~Removes(P[k], id)
        /\ \A k \in DOMAIN P : Creates(P[k], id) => ~P[k].done /\ r[id] # NoRow
    BY <1>3, <2>2, <2>3, ShownIsFresh
  <2> QED BY <2>1, <2>4
<1>7. /\ Lives(P, driver.rows, driver.sent, models', cache', resetting)
      /\ models' \in Models /\ cache' \in [Id -> Nat]
      /\ \A id \in Id : cache'[id] <= Len(models'[id])
  BY <1>2, <1>4, <1>5, <1>6, ModelsAreMade DEF P
<1>8. \A id \in Id : ~Creates(P[1], id)
  BY <1>1, <1>4 DEF Creates
<1>9. Lives(Q, driver.rows, driver.sent, models', cache', resetting)
  BY <1>0, <1>3, <1>7, <1>8, LeaveQuiet
<1>l. DOMAIN P = 1..N /\ \A k \in DOMAIN Q : k + 1 \in 1..N /\ Q[k] = P[k + 1]
  BY <1>3 DEF Leaves
<1>10. NamesRecords(Q)
  BY <1>0, <1>l DEF NamesRecords
<1>11. driver.adapter = "sqliteSync" => calls = <<>> /\ SentBy(Q, driver, resetting)
  <2>1. driver.adapter = "sqliteSync" => calls = <<>> /\ SentBy(P, driver, resetting)
    BY DEF CachingInv, Holds, P
  <2> QED BY <1>l, <2>1 DEF SentBy, CreatedIsSent
<1>12. missed' \subseteq [id : Id, row : Row \cup {NoRow}]
  BY <1>1, <1>4 DEF Report, Misses, Found
<1>13. /\ Holds(answers', calls', driver', models', cache', resetting')
       /\ calls' \in Seq(Call) /\ answers' \in Seq(Answer)
  <2>1. CASE calls' = calls
    BY <1>0, <1>1, <1>3, <1>9, <1>10, <1>11, <2>1 DEF Holds, With, Q
  <2>2. CASE calls' = Append(calls, Plain("clearCachedRecords")) /\ Loki
    <3> DEFINE c == Plain("clearCachedRecords")
               L == Len(Tail(answers)) + Len(calls)
               R == LineOf(Tail(answers), Append(calls, c))
    <3>1. c \in Call /\ c.op = "clearCachedRecords"
      BY PlainIs DEF Ops
    <3>2. Joins(Q, R, L, Waiting(c)) /\ L \in Nat
      <4>1. Joins(Q, R, L, Waiting(c))
        BY <1>0, <1>3, <3>1, LineSent DEF Q
      <4> QED BY <1>0, <1>3, <4>1
    <3>3. /\ ~Waiting(c).done /\ Waiting(c).found = {} /\ Waiting(c).call = c
          /\ \A id \in Id : ~Writes(Waiting(c), id)
      BY DEF Waiting, Writes, Plain
    <3> HIDE DEF L, R
    <3>4. Lives(R, driver.rows, driver.sent, models', cache', resetting)
      <4>1. PICK r, st, e : r = driver.rows /\ st = driver.sent /\ e = Waiting(c)
        OBVIOUS
      <4>2. Lives(Q, r, st, models', cache', resetting) /\ Joins(Q, R, L, e)
        BY <1>9, <3>2, <4>1
      <4>3. /\ ~e.done /\ e.found = {} /\ \A id \in Id : ~Writes(e, id)
            /\ e.call = Plain("clearCachedRecords")
        BY <3>3, <4>1
      <4>4. Lives(R, r, st, models', cache', resetting)
        BY <1>0, <3>2, <4>2, <4>3, JoinQuiet
      <4> QED BY <4>1, <4>4
    <3>5. NamesRecords(R)
      BY <1>10, <3>1, <3>2 DEF NamesRecords, Joins, Waiting
    <3>6. driver.adapter # "sqliteSync" /\ calls' \in Seq(Call)
      BY <1>0, <2>2, <3>1 DEF Loki
    <3> QED BY <1>1, <1>3, <2>2, <3>4, <3>5, <3>6 DEF Holds, With, R
  <2> QED BY <1>1, <2>1, <2>2 DEF Recover
<1> QED BY <1>0, <1>1, <1>7, <1>12, <1>13 DEF CachingInv, TypeOK, Drivers, Models

-----------------------------------------------------------------------------
(* JavaScript takes an answer off the head of the queue. *)

LEMMA Headed ==
    ASSUME CachingInv, answers # <<>>
    PROVE  /\ Leaves(LineOf(answers, calls), LineOf(Tail(answers), calls), Len(answers) + Len(calls))
           /\ LineOf(answers, calls)[1] = Answered(Head(answers))
           /\ DOMAIN LineOf(answers, calls) = 1..(Len(answers) + Len(calls))
           /\ Len(answers) + Len(calls) \in Nat /\ Len(answers) + Len(calls) > 0
           /\ 1 \in DOMAIN LineOf(answers, calls)
           /\ Head(answers) \in Answer /\ Tail(answers) \in Seq(Answer)
<1>0. calls \in Seq(Call) /\ answers \in Seq(Answer)
  BY Types
<1>1. Len(answers) \in Nat /\ Len(calls) \in Nat /\ Len(answers) > 0
  BY <1>0
<1>2. DOMAIN LineOf(answers, calls) = 1..(Len(answers) + Len(calls))
  BY <1>0, LineShape
<1>3. /\ LineOf(answers, calls)[1] = Answered(Head(answers))
      /\ Leaves(LineOf(answers, calls), LineOf(Tail(answers), calls), Len(answers) + Len(calls))
  BY <1>0, LineLeaves
<1>4. Head(answers) \in Answer /\ Tail(answers) \in Seq(Answer)
  BY <1>0
<1>5. 1 \in 1..(Len(answers) + Len(calls))
  BY <1>1
<1> QED BY <1>1, <1>2, <1>3, <1>4, <1>5

LEMMA HeadLeft ==
    ASSUME CachingInv, answers # <<>>, answers' = Tail(answers),
           driver' = driver, calls' = calls, resetting' \in BOOLEAN,
           \/ resetting' = resetting
           \/ \A id \in Id : \A k \in DOMAIN LineOf(Tail(answers), calls) :
                ~Creates(LineOf(Tail(answers), calls)[k], id),
           Lives(LineOf(Tail(answers), calls), driver.rows, driver.sent, models', cache', resetting')
    PROVE  /\ Holds(answers', calls', driver', models', cache', resetting')
           /\ driver' \in Drivers /\ calls' \in Seq(Call) /\ answers' \in Seq(Answer)
<1> DEFINE P == LineOf(answers, calls)
           Q == LineOf(Tail(answers), calls)
           N == Len(answers) + Len(calls)
<1>0. driver \in Drivers /\ calls \in Seq(Call) /\ NamesRecords(P) /\ Tail(answers) \in Seq(Answer)
  BY Types, Headed
<1>1. Leaves(P, Q, N) /\ N \in Nat
  BY Headed
<1> HIDE DEF P, Q, N
<1>l. DOMAIN P = 1..N /\ \A k \in DOMAIN Q : k + 1 \in 1..N /\ Q[k] = P[k + 1]
  BY <1>1 DEF Leaves
<1>2. NamesRecords(Q)
  BY <1>0, <1>l DEF NamesRecords
<1>3. driver.adapter = "sqliteSync" => calls = <<>> /\ SentBy(Q, driver, resetting')
  <2>1. driver.adapter = "sqliteSync" => calls = <<>> /\ SentBy(P, driver, resetting)
    BY DEF CachingInv, Holds, P
  <2>2. CASE resetting' = resetting
    BY <1>l, <2>1, <2>2 DEF SentBy, CreatedIsSent
  <2>3. CASE \A id \in Id : \A k \in DOMAIN Q : ~Creates(Q[k], id)
    BY <2>1, <2>3 DEF SentBy, CreatedIsSent
  <2> QED BY <2>2, <2>3 DEF Q
<1>4. Holds(Tail(answers), calls, driver, models', cache', resetting')
  BY <1>2, <1>3 DEF Holds, With, Q
<1> QED BY <1>0, <1>4

LEMMA ReceiveOtherKeeps ==
    ASSUME CachingInv, "lokiSync" \notin Adapters, ReceiveOther
    PROVE  CachingInv'
<1> DEFINE P == LineOf(answers, calls)
           Q == LineOf(Tail(answers), calls)
           N == Len(answers) + Len(calls)
<1>0. /\ resetting \in BOOLEAN
      /\ Lives(P, driver.rows, driver.sent, models, cache, resetting)
  BY Types
<1>1. /\ answers # <<>> /\ answers' = Tail(answers) /\ missed' = {}
      /\ Head(answers).call.op \in {"destroyDeletedRecords", "clearCachedRecords"}
      /\ driver' = driver /\ calls' = calls /\ models' = models /\ cache' = cache
      /\ resetting' = resetting /\ tainted' = tainted
  BY DEF ReceiveOther
<1>2. Leaves(P, Q, N) /\ N \in Nat /\ P[1].call = Head(answers).call
  BY <1>1, Headed DEF Answered
<1> HIDE DEF P, Q, N
<1>3. \A id \in Id : ~Creates(P[1], id)
  BY <1>1, <1>2 DEF Creates
<1>4. Lives(Q, driver.rows, driver.sent, models, cache, resetting)
  BY <1>0, <1>2, <1>3, LeaveQuiet
<1>5. /\ Holds(answers', calls', driver', models', cache', resetting')
      /\ driver' \in Drivers /\ calls' \in Seq(Call) /\ answers' \in Seq(Answer)
  BY <1>0, <1>1, <1>4, HeadLeft DEF Q
<1> QED BY <1>1, <1>5 DEF CachingInv, TypeOK, Drivers

(* The head of the queue once JavaScript has taken notice of it. *)
Noted == [call |-> Plain("clearCachedRecords"), done |-> TRUE, ok |-> TRUE, found |-> {}]

(* The queue with this head. *)
LEMMA HeadSpent ==
    ASSUME NEW P, NEW Q, NEW N,
           N \in Nat, Leaves(P, Q, N), 1 \in DOMAIN P
    PROVE  /\ Spent(P, [P EXCEPT ![1] = Noted], N) /\ Leaves([P EXCEPT ![1] = Noted], Q, N)
           /\ \A id \in Id : ~Creates([P EXCEPT ![1] = Noted][1], id)
<1> DEFINE R == [P EXCEPT ![1] = Noted]
<1>1. /\ DOMAIN P = 1..N /\ N > 0 /\ P[1].done /\ DOMAIN Q = 1..(N - 1)
      /\ \A k \in 1..(N - 1) : Q[k] = P[k + 1]
  BY DEF Leaves
<1>2. DOMAIN R = 1..N /\ R[1] = Noted /\ \A k \in 1..N : k # 1 => R[k] = P[k]
  BY <1>1
<1>3. /\ Noted.done /\ Noted.found = {} /\ Noted.call = Plain("clearCachedRecords")
      /\ \A id \in Id : ~Writes(Noted, id) /\ ~Creates(Noted, id)
  BY DEF Noted, Plain, Writes, Creates
<1> HIDE DEF R
<1>4. \A k \in 1..(N - 1) : k + 1 \in 1..N /\ k + 1 # 1
  OBVIOUS
<1>5. Spent(P, R, N)
  BY <1>1, <1>2, <1>3 DEF Spent
<1>6. Leaves(R, Q, N)
  BY <1>1, <1>2, <1>3, <1>4 DEF Leaves
<1> QED BY <1>2, <1>3, <1>5, <1>6 DEF R

LEMMA ResumeResetKeeps ==
    ASSUME CachingInv, "lokiSync" \notin Adapters, ResumeReset
    PROVE  CachingInv'
<1> DEFINE P == LineOf(answers, calls)
           Q == LineOf(Tail(answers), calls)
           N == Len(answers) + Len(calls)
           R == [P EXCEPT ![1] = Noted]
<1>0. /\ resetting \in BOOLEAN /\ models \in Models
      /\ Lives(P, driver.rows, driver.sent, models, cache, resetting)
  BY Types
<1>1. /\ answers # <<>> /\ answers' = Tail(answers) /\ missed' = {}
      /\ Head(answers).call.op = "unsafeResetDatabase"
      /\ driver' = driver /\ calls' = calls /\ tainted' = tainted
      /\ resetting' = FALSE /\ cache' = [id \in Id |-> 0]
      /\ models' = [id \in Id |-> [k \in DOMAIN models[id] |->
                      IF models[id][k].status = "deleted" THEN models[id][k]
                      ELSE [models[id][k] EXCEPT !.status = "orphan"]]]
  BY DEF ResumeReset
<1>2. Leaves(P, Q, N) /\ N \in Nat /\ 1 \in DOMAIN P /\ P[1].call = Head(answers).call
  BY <1>1, Headed DEF Answered
<1>3. Spent(P, R, N) /\ Leaves(R, Q, N) /\ \A id \in Id : ~Creates(R[1], id)
  BY <1>2, HeadSpent
<1> HIDE DEF P, Q, N, R
<1>4. /\ models' \in Models /\ cache' \in [Id -> Nat]
      /\ \A id \in Id : cache'[id] <= Len(models'[id])
      /\ \A id \in Id : NoneLive(models', id) /\ cache'[id] = 0
  <2> DEFINE M == [ver : 1..MaxVersion, status : Statuses]
             seq(id) == [k \in DOMAIN models[id] |->
                           IF models[id][k].status = "deleted" THEN models[id][k]
                           ELSE [models[id][k] EXCEPT !.status = "orphan"]]
  <2>0. \A x \in M : IF x.status = "deleted" THEN TRUE ELSE [x EXCEPT !.status = "orphan"] \in M
    BY DEF Statuses
  <2>0a. \A x \in M : [x EXCEPT !.status = "orphan"].status = "orphan"
    OBVIOUS
  <2>0b. \A id \in Id : models[id] \in Seq(M)
    BY <1>0 DEF Models
  <2> HIDE DEF M
  <2>1. ASSUME NEW id \in Id
        PROVE  seq(id) \in Seq(M) /\ \A k \in DOMAIN seq(id) : seq(id)[k].status # "live"
    <3>1. models[id] \in Seq(M)
      BY <2>0b
    <3>2. DOMAIN models[id] = 1..Len(models[id]) /\ Len(models[id]) \in Nat
          /\ \A k \in DOMAIN models[id] : models[id][k] \in M
      BY <3>1
    <3>3. \A k \in DOMAIN models[id] : seq(id)[k] \in M /\ seq(id)[k].status # "live"
      BY <2>0, <2>0a, <3>2
    <3>4. seq(id) \in [1..Len(models[id]) -> M]
      BY <3>2, <3>3
    <3> QED BY <3>2, <3>3, <3>4, SeqDef
  <2>2. models' = [id \in Id |-> seq(id)]
    BY <1>1
  <2> HIDE DEF seq
  <2>3. ASSUME NEW id \in Id PROVE Len(seq(id)) \in Nat
    <3>1. seq(id) \in Seq(M)
      BY <2>1
    <3> QED BY <3>1
  <2>4. models' \in [Id -> Seq(M)]
    BY <2>1, <2>2
  <2>5. \A id \in Id : NoneLive(models', id)
    BY <2>1, <2>2 DEF NoneLive
  <2>6. \A id \in Id : cache'[id] = 0 /\ cache'[id] <= Len(models'[id])
    BY <1>1, <2>2, <2>3
  <2> QED BY <1>1, <2>4, <2>5, <2>6 DEF Models, M
<1>5. Lives(Q, driver.rows, driver.sent, models', cache', FALSE)
  <2>1. PICK r, st : r = driver.rows /\ st = driver.sent
    OBVIOUS
  <2>2. Lives(P, r, st, models, cache, resetting) /\ P[1].call.op = "unsafeResetDatabase"
    BY <1>0, <1>1, <1>2, <2>1
  <2>3. Lives(R, r, st, models', cache', FALSE)
    BY <1>0, <1>2, <1>3, <1>4, <2>2, SeeReset
  <2>4. Lives(Q, r, st, models', cache', FALSE)
    BY <1>2, <1>3, <2>3, LeaveQuiet
  <2> QED BY <2>1, <2>4
<1>6. \A id \in Id : \A k \in DOMAIN Q : ~Creates(Q[k], id)
  <2>1. \A k \in DOMAIN P : k > 1 => P[k].call = Plain("clearCachedRecords")
    BY <1>0, <1>1, <1>2 DEF Lives, ResetIsLast
  <2>2. \A k \in DOMAIN Q : k + 1 \in DOMAIN P /\ k + 1 > 1 /\ Q[k] = P[k + 1]
    BY <1>2 DEF Leaves
  <2> QED BY <2>1, <2>2 DEF Creates, Plain
<1>7. /\ Holds(answers', calls', driver', models', cache', resetting')
      /\ driver' \in Drivers /\ calls' \in Seq(Call) /\ answers' \in Seq(Answer)
  BY <1>1, <1>5, <1>6, HeadLeft DEF Q
<1> QED BY <1>1, <1>4, <1>7 DEF CachingInv, TypeOK, Drivers, Models

LEMMA ResumeBatchKeeps ==
    ASSUME CachingInv, "lokiSync" \notin Adapters, ResumeBatch
    PROVE  CachingInv'
<1> DEFINE P == LineOf(answers, calls)
           Q == LineOf(Tail(answers), calls)
           N == Len(answers) + Len(calls)
           R == [P EXCEPT ![1] = Noted]
           c == Head(answers).call
           ok == Head(answers).ok
           created == ok /\ c.op = "create"
           destroyed == ok /\ (c.op = "destroyPermanently" \/ c.row.deleted)
<1>0. /\ resetting \in BOOLEAN /\ models \in Models /\ Indexed(models) /\ NamesRecords(P)
      /\ cache \in [Id -> Nat] /\ \A id \in Id : cache[id] <= Len(models[id])
      /\ Lives(P, driver.rows, driver.sent, models, cache, resetting)
  BY Types DEF CachingInv, TypeOK
<1>1. /\ answers # <<>> /\ answers' = Tail(answers) /\ missed' = {}
      /\ c.op \in {"create", "update", "destroyPermanently"}
      /\ driver' = driver /\ calls' = calls /\ resetting' = resetting
      /\ models' = IF created THEN [models EXCEPT ![c.id][c.model].status = "live"] ELSE models
      /\ cache' = [cache EXCEPT ![c.id] =
                     IF created THEN c.model ELSE IF destroyed THEN 0 ELSE @]
      /\ tainted' = IF ok THEN tainted ELSE tainted \cup {c.id}
  BY DEF ResumeBatch, IsBatch
<1>2. /\ Leaves(P, Q, N) /\ N \in Nat /\ N > 0 /\ DOMAIN P = 1..N /\ 1 \in DOMAIN P
      /\ P[1].call = c /\ P[1].ok = ok /\ P[1].done /\ ok \in BOOLEAN
  BY <1>1, Headed DEF Answered, Answer
<1>3. Spent(P, R, N) /\ Leaves(R, Q, N) /\ \A id \in Id : ~Creates(R[1], id)
  BY <1>2, HeadSpent
<1>4. c.id \in Id
  BY <1>0, <1>1, <1>2 DEF NamesRecords
<1>5. tainted' \subseteq Id
  BY <1>1, <1>4 DEF CachingInv, TypeOK
<1> HIDE DEF P, Q, N, R, c, ok
<1>6. PICK r, st, id0, m : r = driver.rows /\ st = driver.sent /\ id0 = c.id /\ m = c.model
  OBVIOUS
<1>l. Lives(P, r, st, models, cache, resetting) /\ id0 \in Id
  BY <1>0, <1>4, <1>6
<1>7. /\ models' \in Models /\ cache' \in [Id -> Nat]
      /\ \A id \in Id : cache'[id] <= Len(models'[id])
      /\ Lives(Q, r, st, models', cache', resetting)
  <2>1. CASE created
    <3>1. Creates(P[1], id0) /\ P[1].call.model = m
      BY <1>2, <1>6, <2>1 DEF Creates
    <3>2. m \in DOMAIN models[id0]
      BY <1>2, <1>l, <3>1 DEF Lives, CreationsArePending
    <3>3. /\ models' = [models EXCEPT ![id0][m].status = "live"]
          /\ cache' = [cache EXCEPT ![id0] = m]
      BY <1>1, <1>6, <2>1
    <3>4. /\ models' \in Models
          /\ \A id \in Id : DOMAIN models'[id] = DOMAIN models[id]
          /\ \A id \in Id : Len(models'[id]) = Len(models[id])
          /\ \A id \in Id : \A n \in DOMAIN models[id] :
               <<id, n>> # <<id0, m>> => models'[id][n] = models[id][n]
          /\ models'[id0][m].status = "live"
      <4> DEFINE M == [ver : 1..MaxVersion, status : Statuses]
                 x == [models[id0][m] EXCEPT !.status = "live"]
                 s == models[id0]
      <4>1. s \in Seq(M)
        BY <1>0, <1>l DEF Models
      <4>2. \A y \in M : [y EXCEPT !.status = "live"] \in M /\ [y EXCEPT !.status = "live"].status = "live"
        BY DEF Statuses
      <4>3. \A id \in Id : models[id] \in Seq(M)
        BY <1>0 DEF Models
      <4>d. models = [id \in Id |-> models[id]]
        BY <1>0 DEF Models
      <4> HIDE DEF M
      <4>4. DOMAIN s = 1..Len(s) /\ Len(s) \in Nat /\ s[m] \in M
        BY <3>2, <4>1
      <4>5. x \in M /\ x.status = "live"
        BY <4>2, <4>4
      <4> HIDE DEF x
      <4>6. /\ [s EXCEPT ![m] = x] \in Seq(M) /\ Len([s EXCEPT ![m] = x]) = Len(s)
            /\ DOMAIN [s EXCEPT ![m] = x] = DOMAIN s
            /\ [s EXCEPT ![m] = x][m] = x
            /\ \A n \in DOMAIN s : n # m => [s EXCEPT ![m] = x][n] = s[n]
        BY <3>2, <4>1, <4>4, <4>5
      <4>7. models' = [models EXCEPT ![id0] = [s EXCEPT ![m] = x]]
        BY <3>3 DEF x
      <4>8. /\ models'[id0] = [s EXCEPT ![m] = x]
            /\ \A id \in Id : id # id0 => models'[id] = models[id]
            /\ models' = [id \in Id |-> models'[id]]
        BY <1>l, <4>d, <4>7
      <4>9. \A id \in Id : models'[id] \in Seq(M)
        BY <4>3, <4>6, <4>8
      <4>10. models' \in Models
        BY <4>8, <4>9 DEF Models, M
      <4> QED BY <4>5, <4>6, <4>8, <4>10
    <3>5. m \in Nat /\ m <= Len(models[id0])
      BY <1>0, <1>l, <3>2 DEF Models
    <3>6. /\ cache' \in [Id -> Nat] /\ cache'[id0] = m
          /\ \A id \in Id : id # id0 => cache'[id] = cache[id]
      BY <1>0, <1>l, <3>3, <3>5
    <3>7. \A id \in Id : cache'[id] <= Len(models'[id])
      BY <1>0, <3>4, <3>5, <3>6
    <3>8. Taken(models, cache, models', cache', id0, m)
      BY <3>4, <3>6 DEF Taken
    <3>10. Lives(R, r, st, models', cache', resetting)
      BY ONLY <1>0, <1>2, <1>3, <1>l, <3>1, <3>8, SeeCreated
    <3>9. Lives(Q, r, st, models', cache', resetting)
      BY <1>0, <1>2, <1>3, <3>10, LeaveQuiet
    <3> QED BY <3>4, <3>6, <3>7, <3>9
  <2>2. CASE ~created /\ destroyed
    <3>1. /\ Removes(P[1], id0) /\ \A id \in Id : ~Creates(P[1], id)
      BY <1>1, <1>2, <1>6, <2>2 DEF Removes, Creates
    <3>2. models' = models /\ cache' = [cache EXCEPT ![id0] = 0]
      BY <1>1, <1>6, <2>2
    <3>3. /\ cache' \in [Id -> Nat] /\ cache'[id0] = 0
          /\ \A id \in Id : id # id0 => cache'[id] = cache[id]
      BY <1>0, <1>l, <3>2
    <3>l. ASSUME NEW id \in Id PROVE Len(models[id]) \in Nat
      <4>1. models[id] \in Seq([ver : 1..MaxVersion, status : Statuses])
        BY <1>0 DEF Models
      <4> QED BY <4>1
    <3>4. \A id \in Id : cache'[id] <= Len(models'[id])
      BY <1>0, <3>2, <3>3, <3>l
    <3>5. Lives(P, r, st, models', cache', resetting)
      BY <1>0, <1>2, <1>l, <3>1, <3>2, <3>3, Forget
    <3>6. Lives(Q, r, st, models', cache', resetting)
      BY <1>0, <1>2, <3>1, <3>5, LeaveQuiet
    <3> QED BY <1>0, <3>2, <3>3, <3>4, <3>6
  <2>3. CASE ~created /\ ~destroyed
    <3>1. models' = models /\ cache' = cache
      BY <1>0, <1>1, <1>4, <2>3
    <3>2. \A id \in Id : ~Creates(P[1], id)
      BY <1>2, <2>3 DEF Creates
    <3>3. Lives(Q, r, st, models, cache, resetting)
      BY <1>0, <1>2, <1>l, <3>2, LeaveQuiet
    <3> QED BY <1>0, <3>1, <3>3
  <2> QED BY <2>1, <2>2, <2>3
<1>8. Lives(Q, driver.rows, driver.sent, models', cache', resetting')
  BY <1>1, <1>6, <1>7
<1>9. /\ Holds(answers', calls', driver', models', cache', resetting')
      /\ driver' \in Drivers /\ calls' \in Seq(Call) /\ answers' \in Seq(Answer)
  BY <1>0, <1>1, <1>8, HeadLeft DEF Q
<1> QED BY <1>0, <1>1, <1>5, <1>7, <1>9 DEF CachingInv, TypeOK, Drivers, Models

-----------------------------------------------------------------------------
(* JavaScript fetches records: it asks, or has the answer at once. *)

(* A row the table holds, of a record that was not sent: no call of it is on its
   way back.                                                                 *)
LEMMA UnsentIsFresh ==
    ASSUME NEW P, NEW id, NEW r, NEW st, NEW ms, NEW ch, NEW rs,
           id \in Id, ~rs, Lives(P, r, st, ms, ch, rs), CreatedIsSent(P, st, rs),
           \A k \in DOMAIN P : P[k].done, IsLive(r[id]), id \notin st
    PROVE  \A k \in DOMAIN P : ~Removes(P[k], id) /\ ~Creates(P[k], id)
<1>1. \A k \in DOMAIN P : ~Creates(P[k], id)
  BY DEF CreatedIsSent
<1>2. \A k \in DOMAIN P : ~Removes(P[k], id)
  BY <1>1 DEF Lives, RemovedStaysRemoved
<1> QED BY <1>1, <1>2

LEMMA FetchKeeps ==
    ASSUME NEW c, CachingInv, "lokiSync" \notin Adapters, Fetch(c), c \in Call,
           c.op \in {"find", "query"}, c.op = "find" => c.id \in Id
    PROVE  CachingInv'
<1>0. /\ driver \in Drivers /\ driver.adapter \in Adapters
      /\ calls \in Seq(Call) /\ answers \in Seq(Answer)
      /\ resetting \in BOOLEAN /\ NamesRecords(LineOf(answers, calls)) /\ tainted \subseteq Id
      /\ Lives(LineOf(answers, calls), driver.rows, driver.sent, models, cache, resetting)
  BY Types DEF CachingInv, TypeOK
<1>1. ~resetting /\ resetting' = resetting /\ tainted' = tainted
  BY DEF Fetch
<1>2. CASE driver.adapter # "sqliteSync"
  <2>1. ~Synchronous
    BY <1>0, <1>2 DEF Synchronous
  <2>2. Send(c) /\ UNCHANGED <<models, cache>> /\ missed' = {}
    BY <2>1 DEF Fetch
  <2> QED BY <1>0, <1>1, <2>2, QuietKeeps
<1>3. CASE driver.adapter = "sqliteSync"
  <2> DEFINE P == LineOf(answers, calls)
             found == FoundIn(driver, c)
  <2>1. Synchronous /\ ~Loki
    BY <1>3 DEF Synchronous, Loki
  <2>2. PICK K \in SUBSET FoundIn(driver, c) :
          /\ Kept(found, K) /\ Instantiate(K) /\ Report(found)
          /\ driver' = Executed(driver, c) /\ calls' = calls /\ answers' = answers
    BY <2>1 DEF Fetch, Recover
  <2>3. calls = <<>> /\ SentBy(P, driver, resetting)
    BY <1>3 DEF CachingInv, Holds
  <2>4. \A k \in DOMAIN P : P[k].done
    <3>1. Len(calls) = 0 /\ Len(answers) \in Nat
      BY <1>0, <2>3
    <3>2. Len(answers) + Len(calls) = Len(answers)
      BY <3>1
    <3>3. /\ DOMAIN P = 1..(Len(answers) + Len(calls))
          /\ \A k \in 1..Len(answers) : P[k] = Answered(answers[k])
      BY <1>0, LineShape
    <3> HIDE DEF P
    <3>4. DOMAIN P = 1..Len(answers)
      BY <3>2, <3>3
    <3>5. ASSUME NEW k \in DOMAIN P PROVE P[k].done
      <4>1. P[k] = Answered(answers[k])
        BY <3>3, <3>4
      <4> QED BY <4>1 DEF Answered
    <3> QED BY <3>5
  <2>5. /\ found \in SUBSET Found
        /\ \A x \in found : /\ x.row = driver.rows[x.id]
                            /\ x.bare <=> x.id \in driver.sent
                            /\ ~x.bare => x.row # NoRow
        /\ \A x, y \in found : x.id = y.id => x = y
    BY <1>0, FoundInIs
  <2>6. /\ driver' \in Drivers /\ driver'.adapter = driver.adapter
        /\ driver'.rows = driver.rows /\ driver.sent \subseteq driver'.sent
    BY <1>0, <2>2, ExecutedIs
  <2> HIDE DEF P, found
  <2>7. ASSUME NEW x \in found, ~x.bare, IsLive(x.row), cache[x.id] = 0
        PROVE  /\ IsLive(driver.rows[x.id]) \/ resetting
               /\ \A k \in DOMAIN P : ~Removes(P[k], x.id)
               /\ \A k \in DOMAIN P : Creates(P[k], x.id) => ~P[k].done /\ driver.rows[x.id] # NoRow
    <3>1. PICK r, st, id : r = driver.rows /\ st = driver.sent /\ id = x.id
      OBVIOUS
    <3>2. id \in Id /\ IsLive(r[id]) /\ id \notin st
      BY <2>5, <2>7, <3>1 DEF Found
    <3>3. Lives(P, r, st, models, cache, resetting) /\ CreatedIsSent(P, st, resetting)
      BY <1>0, <2>3, <3>1 DEF P, SentBy
    <3>4. \A k \in DOMAIN P : ~Removes(P[k], id) /\ ~Creates(P[k], id)
      BY <1>1, <2>4, <3>2, <3>3, UnsentIsFresh
    <3> QED BY <3>1, <3>2, <3>4
  <2>8. /\ Lives(P, driver.rows, driver.sent, models', cache', resetting)
        /\ models' \in Models /\ cache' \in [Id -> Nat]
        /\ \A id \in Id : cache'[id] <= Len(models'[id])
    BY <2>2, <2>5, <2>7, ModelsAreMade DEF P
  <2>9. Lives(P, driver'.rows, driver'.sent, models', cache', resetting')
    <3>1. PICK r, st, st2 : r = driver.rows /\ st = driver.sent /\ st2 = driver'.sent
      OBVIOUS
    <3>2. Lives(P, r, st, models', cache', resetting)
      BY <2>8, <3>1
    <3>3. ResetIsLast(P, r, st2, resetting)
      BY <1>1, <3>2 DEF Lives, ResetIsLast
    <3>4. Lives(P, r, st2, models', cache', resetting)
      BY <3>2, <3>3 DEF Lives
    <3> QED BY <1>1, <2>6, <3>1, <3>4
  <2>10. SentBy(P, driver', resetting')
    BY <1>1, <2>3, <2>6 DEF SentBy, CreatedIsSent
  <2>11. missed' \subseteq [id : Id, row : Row \cup {NoRow}]
    BY <2>2, <2>5 DEF Report, Misses, Found
  <2>12. Holds(answers', calls', driver', models', cache', resetting')
    BY <1>0, <2>2, <2>3, <2>9, <2>10 DEF Holds, With, P
  <2> QED BY <1>0, <1>1, <2>2, <2>6, <2>8, <2>11, <2>12 DEF CachingInv, TypeOK, Drivers, Models
<1> QED BY <1>2, <1>3

-----------------------------------------------------------------------------
(* Every step keeps the invariant. *)

LEMMA InitInv ==
    ASSUME Init
    PROVE  CachingInv
<1>1. TypeOK
  <2>1. driver \in Drivers
    BY CachingAssumption DEF Init, Drivers, Row
  <2>2. models = [id \in Id |-> <<>>] /\ cache = [id \in Id |-> 0]
    BY DEF Init
  <2>3. /\ models \in [Id -> Seq([ver : 1..MaxVersion, status : Statuses])]
        /\ cache \in [Id -> Nat] /\ \A id \in Id : cache[id] <= Len(models[id])
    BY <2>2
  <2>4. /\ calls \in Seq(Call) /\ answers \in Seq(Answer) /\ resetting \in BOOLEAN
        /\ missed \subseteq [id : Id, row : Row \cup {NoRow}] /\ tainted \subseteq Id
    <3>1. /\ calls = <<>> /\ answers = <<>> /\ resetting = FALSE /\ missed = {} /\ tainted = {}
      BY DEF Init
    <3>2. \A S : <<>> \in Seq(S)
      OBVIOUS
    <3>3. calls \in Seq(Call) /\ answers \in Seq(Answer)
      BY <3>1, <3>2
    <3> QED BY <3>1, <3>3
  <2> QED BY <2>1, <2>3, <2>4 DEF TypeOK, Drivers
<1>2. DOMAIN LineOf(answers, calls) = {}
  <2>1. Len(answers) = 0 /\ Len(calls) = 0
    BY DEF Init
  <2> QED BY <2>1 DEF LineOf
<1>3. ASSUME NEW id \in Id PROVE NoneLive(models, id) /\ models[id] = <<>>
  <2>1. models[id] = <<>>
    BY DEF Init
  <2>2. \A m \in DOMAIN <<>> : FALSE
    OBVIOUS
  <2> QED BY <2>1, <2>2 DEF NoneLive
<1>4. Lives(LineOf(answers, calls), driver.rows, driver.sent, models, cache, resetting)
  <2> DEFINE P == LineOf(answers, calls)
  <2>1. DOMAIN P = {}
    BY <1>2
  <2> HIDE DEF P
  <2>2. /\ InOrder(P) /\ AnswersAreRows(P) /\ CreationsArePending(P, models)
        /\ ResetIsLast(P, driver.rows, driver.sent, resetting)
        /\ EditedIsCached(P, cache) /\ ShownIsStored(P, driver.rows, resetting)
        /\ CreatedIsStored(P, driver.rows, resetting)
        /\ RemovedIsUnused(P, driver.rows, models, cache)
        /\ RemovedStaysRemoved(P, driver.rows) /\ CreationIsFirst(P, driver.rows, models)
    BY <2>1 DEF InOrder, AnswersAreRows, CreationsArePending, ResetIsLast, EditedIsCached,
                ShownIsStored, CreatedIsStored, RemovedIsUnused, RemovedStaysRemoved, CreationIsFirst
  <2>3. LiveIsCached(models, cache) /\ LiveIsStored(driver.rows, models, resetting)
    BY <1>3 DEF LiveIsCached, LiveIsStored, NoneLive
  <2>4. ForgottenStaysRemoved(P, driver.rows, models, cache)
    BY <1>3 DEF ForgottenStaysRemoved
  <2> QED BY <2>2, <2>3, <2>4 DEF Lives, P
<1>5. /\ NamesRecords(LineOf(answers, calls)) /\ SentBy(LineOf(answers, calls), driver, resetting)
      /\ calls = <<>>
  BY <1>2 DEF NamesRecords, SentBy, CreatedIsSent, Init
<1> QED BY <1>1, <1>4, <1>5 DEF CachingInv, Holds, With

LEMMA StepInv ==
    ASSUME CachingInv, "lokiSync" \notin Adapters, ~Stale, [Next]_vars
    PROVE  CachingInv'
<1>1. ASSUME NEW id \in Id, FetchRecord(id)
      PROVE  CachingInv'
  <2> DEFINE c == [Plain("find") EXCEPT !.id = id]
  <2>1. c \in Call /\ c.op = "find" /\ c.id = id
    BY FindIs DEF Ops
  <2>2. Fetch(c)
    BY <1>1 DEF FetchRecord
  <2> HIDE DEF c
  <2> QED BY <2>1, <2>2, FetchKeeps
<1>2. CASE FetchQuery
  <2>1. Plain("query") \in Call /\ Plain("query").op = "query"
    BY PlainIs DEF Ops
  <2> QED BY <1>2, <2>1, FetchKeeps DEF FetchQuery
<1>3. ASSUME NEW id \in Id, Create(id)
      PROVE  CachingInv'
  BY <1>3, CreateKeeps
<1>4. ASSUME NEW id \in Id, DestroyDeletedRecords(id)
      PROVE  CachingInv'
  BY <1>4, DestroyDeletedKeeps
<1>5. ASSUME NEW id \in Id, NEW m \in DOMAIN models[id],
             Update(id, m) \/ MarkAsDeleted(id, m) \/ DestroyPermanently(id, m)
      PROVE  CachingInv'
  BY <1>5, UpdateKeeps, MarkKeeps, DestroyKeeps
<1>6. CASE Reset
  BY <1>6, ResetKeeps
<1>7. CASE DriverStep
  BY <1>7, DriverStepKeeps
<1>8. CASE Receive
  BY <1>8, ReceiveRecordsKeeps, ResumeBatchKeeps, ResumeResetKeeps, ReceiveOtherKeeps DEF Receive
<1>9. CASE UNCHANGED vars
  <2>1. /\ driver' = driver /\ calls' = calls /\ answers' = answers /\ models' = models
        /\ cache' = cache /\ resetting' = resetting /\ missed' = missed /\ tainted' = tainted
    BY <1>9 DEF vars
  <2> QED BY <2>1 DEF CachingInv, TypeOK
<1> QED BY <1>1, <1>2, <1>3, <1>4, <1>5, <1>6, <1>7, <1>8, <1>9 DEF Next

-----------------------------------------------------------------------------
LEMMA CachingAlways ==
    ASSUME "lokiSync" \notin Adapters, ~Stale
    PROVE  Spec => []CachingInv
<1>1. Init => CachingInv
  BY InitInv
<1>2. CachingInv /\ [Next]_vars => CachingInv'
  BY StepInv
<1> QED BY <1>1, <1>2, PTL DEF Spec

(* TypeOK: rows, calls, answers and Models are what they are said to be, and a
   cached Model is one of those made for its record, however the answers of the
   adapter and the batches interleave (Collection/RecordCache.js,
   Database/index.js).  LokiJS inside the call is left out (see README.md).   *)
THEOREM TypeCorrect ==
    ASSUME "lokiSync" \notin Adapters, ~Stale
    PROVE  Spec => []TypeOK
<1>1. CachingInv => TypeOK
  BY DEF CachingInv
<1> QED BY <1>1, CachingAlways, PTL

(* OneLiveModel: two holders of a live record hold the same Model, for any
   number of records, Models and calls under way; also when a record is deleted
   and created again, or fetched, while batches for it are on their way.      *)
THEOREM OneModelInUse ==
    ASSUME "lokiSync" \notin Adapters, ~Stale
    PROVE  Spec => []OneLiveModel
<1>1. CachingInv => OneLiveModel
  BY Types DEF Lives, LiveIsCached, OneLiveModel
<1> QED BY <1>1, CachingAlways, PTL

(* What is left under way after the head is gone, at the end of a reset. *)
LEMMA ResetIsTheEnd ==
    ASSUME CachingInv, ResumeReset
    PROVE  /\ driver = Emptied(driver)
           /\ UnderWay' \subseteq {Plain("clearCachedRecords")}
           /\ \A id \in Id : cache'[id] = 0
<1> DEFINE P == LineOf(answers, calls)
           Q == LineOf(Tail(answers), calls)
           N == Len(answers) + Len(calls)
<1>0. /\ driver \in Drivers /\ driver.rows \in [Id -> Row \cup {NoRow}]
      /\ calls \in Seq(Call) /\ answers \in Seq(Answer)
      /\ Lives(P, driver.rows, driver.sent, models, cache, resetting)
  BY Types
<1>1. /\ answers # <<>> /\ answers' = Tail(answers) /\ calls' = calls
      /\ Head(answers).call.op = "unsafeResetDatabase"
      /\ cache' = [id \in Id |-> 0]
  BY DEF ResumeReset
<1>2. /\ Leaves(P, Q, N) /\ N \in Nat /\ 1 \in DOMAIN P /\ P[1].call = Head(answers).call
      /\ Tail(answers) \in Seq(Answer)
  BY <1>1, Headed DEF Answered
<1>3. /\ \A k \in DOMAIN P : k > 1 => P[k].call = Plain("clearCachedRecords")
      /\ driver.sent = {} /\ \A id \in Id : driver.rows[id] = NoRow
  <2> HIDE DEF P, Q, N
  <2>1. P[1].done
    BY <1>2 DEF Leaves
  <2> QED BY <1>0, <1>1, <1>2, <2>1 DEF Lives, ResetIsLast
<1>4. driver = Emptied(driver)
  <2>1. driver.rows = [id \in Id |-> NoRow]
    BY <1>0, <1>3
  <2> QED BY <1>0, <1>3, <2>1 DEF Drivers, Emptied
<1>5. \A k \in DOMAIN Q : Q[k].call = Plain("clearCachedRecords")
  <2> HIDE DEF P, Q, N
  <2>1. \A k \in DOMAIN Q : k + 1 \in DOMAIN P /\ k + 1 > 1 /\ Q[k] = P[k + 1]
    BY <1>2 DEF Leaves
  <2> QED BY <1>3, <2>1
<1>6. ASSUME NEW k \in 1..Len(Tail(answers))
      PROVE  Tail(answers)[k].call = Plain("clearCachedRecords")
  <2>1. k \in DOMAIN Q /\ Q[k] = Answered(Tail(answers)[k])
    <3>1. Len(Tail(answers)) \in Nat /\ Len(calls) \in Nat
      BY <1>0, <1>2
    <3>2. k \in 1..(Len(Tail(answers)) + Len(calls))
      BY <3>1
    <3> QED BY <1>0, <1>2, <3>2, LineShape
  <2> QED BY <1>5, <2>1 DEF Answered
<1>7. ASSUME NEW k \in 1..Len(calls)
      PROVE  calls[k] = Plain("clearCachedRecords")
  <2>1. Len(Tail(answers)) \in Nat /\ Len(calls) \in Nat
    BY <1>0, <1>2
  <2> DEFINE i == Len(Tail(answers)) + k
  <2>2. /\ i \in 1..(Len(Tail(answers)) + Len(calls)) /\ i > Len(Tail(answers))
        /\ i - Len(Tail(answers)) = k
    BY <2>1
  <2> HIDE DEF i
  <2>3. i \in DOMAIN Q /\ Q[i] = Waiting(calls[i - Len(Tail(answers))])
    BY <1>0, <1>2, <2>2, LineShape
  <2> QED BY <1>5, <2>2, <2>3 DEF Waiting
<1>8. UnderWay' \subseteq {Plain("clearCachedRecords")}
  <2>1. UnderWay' = {calls'[k] : k \in 1..Len(calls')} \cup {answers'[k].call : k \in 1..Len(answers')}
    BY DEF UnderWay
  <2> QED BY <1>1, <1>6, <1>7, <2>1
<1> QED BY <1>1, <1>4, <1>8

(* ResetLeavesNothing: when unsafeResetDatabase() returns, the tables, the cached
   ids of the driver and the Models of JavaScript are gone together, and no call
   made before it can still bring one back (Database/index.js).               *)
THEOREM ResetIsClean ==
    ASSUME "lokiSync" \notin Adapters, ~Stale
    PROVE  Spec => ResetLeavesNothing
<1>1. CachingInv /\ [Next]_vars =>
        [resetting /\ ~resetting' =>
           /\ driver = Emptied(driver)
           /\ UnderWay' \subseteq {Plain("clearCachedRecords")}
           /\ \A id \in Id : cache'[id] = 0]_vars
  <2> SUFFICES ASSUME CachingInv, Next, resetting, ~resetting'
               PROVE  /\ driver = Emptied(driver)
                      /\ UnderWay' \subseteq {Plain("clearCachedRecords")}
                      /\ \A id \in Id : cache'[id] = 0
    OBVIOUS
  <2>1. ResumeReset
    <3>1. ASSUME NEW id \in Id, FetchRecord(id) \/ Create(id) \/ DestroyDeletedRecords(id)
          PROVE  FALSE
      BY <3>1 DEF FetchRecord, Fetch, Create, Batch, DestroyDeletedRecords
    <3>2. ASSUME NEW id \in Id, NEW m \in DOMAIN models[id],
                 Update(id, m) \/ MarkAsDeleted(id, m) \/ DestroyPermanently(id, m)
          PROVE  FALSE
      BY <3>2 DEF Update, MarkAsDeleted, DestroyPermanently, Batch
    <3>3. ~FetchQuery /\ ~Reset /\ ~DriverStep
      BY DEF FetchQuery, Fetch, Reset, DriverStep
    <3>4. ~ReceiveRecords /\ ~ResumeBatch /\ ~ReceiveOther
      BY DEF ReceiveRecords, ResumeBatch, ReceiveOther
    <3> QED BY <3>1, <3>2, <3>3, <3>4 DEF Next, Receive
  <2> QED BY <2>1, ResetIsTheEnd
<1> QED BY <1>1, CachingAlways, PTL DEF Spec, ResetLeavesNothing

-----------------------------------------------------------------------------
(* What the record cache holds.  Everything below is about one record id: row is
   its row in the table, mods its Models, m the one that is cached, or 0.      *)

Updates(e, id)  == e.call.id = id /\ e.call.op = "update"
(* Its answer holds the record, which is not deleted: whole, or its id alone. *)
Sees(e, id)     == \E x \in e.found : x.id = id /\ IsLive(x.row)
(* When JavaScript takes it, the record has a Model in the cache. *)
Supplies(e, id) == e.done /\ (Shows(e, id) \/ Creates(e, id))

RowOf(model) == [ver |-> model.ver, deleted |-> model.status = "deleted"]
(* What a call leaves of its record in the table. *)
Left(c) == IF c.op \in {"create", "update"} THEN c.row ELSE NoRow

IsLastWrite(P, k, id) == Writes(P[k], id) /\ \A l \in DOMAIN P : l > k => ~Writes(P[l], id)
(* No batch of the record has failed. *)
Sound(P, tn, id) == id \notin tn /\ \A k \in DOMAIN P : P[k].call.id = id => P[k].ok

(* Only batches fail, queries return what is not deleted, find() one record. *)
AnswersFit(P) ==
    \A k \in DOMAIN P :
        /\ ~P[k].ok => IsBatch(P[k].call)
        /\ \A x \in P[k].found :
             /\ P[k].call.op = "query" => IsLive(x.row)
             /\ P[k].call.op = "find" => x.id = P[k].call.id

(* An update is of a cached record that is there until the driver takes it. *)
UpdatesMeetRecords(P, id, row, m) ==
    \A k \in DOMAIN P : Updates(P[k], id) =>
        /\ m # 0
        /\ P[k].done \/ IsLive(row)
        /\ \A i \in DOMAIN P : i < k => ~Removes(P[i], id)

(* An answer sees a removed record only if it was created again. *)
SeenIsCreated(P, id) ==
    \A i, j \in DOMAIN P : i < j /\ Removes(P[i], id) /\ Sees(P[j], id) =>
        \E l \in DOMAIN P : i < l /\ l < j /\ Creates(P[l], id)

(* Before JavaScript takes a bare id, the record of it is cached. *)
BareIsKnown(P, id, m) ==
    \A j \in DOMAIN P : Sees(P[j], id) /\ ~Shows(P[j], id) =>
        m # 0 \/ \E l \in DOMAIN P : l < j /\ Supplies(P[l], id)

Known(P, id, row, m) ==
    /\ UpdatesMeetRecords(P, id, row, m)
    /\ SeenIsCreated(P, id)
    /\ BareIsKnown(P, id, m)

(* Behind a bridge, what the driver takes for sent is cached or on its way. *)
SentIsKnown(P, id, row, st, m) ==
    id \in st /\ IsLive(row) => m # 0 \/ \E l \in DOMAIN P : Supplies(P[l], id)

(* A Model in creation is as it was sent. *)
CreationsAreNew(P, id, mods) ==
    \A k \in DOMAIN P : Creates(P[k], id) => mods[P[k].call.model].ver = P[k].call.row.ver

(* A row on its way to JavaScript is that of the table, or was written since. *)
ShownIsCurrent(P, id, row) ==
    \A j \in DOMAIN P : \A x \in P[j].found : x.id = id /\ ~x.bare =>
        x.row = row \/ \E l \in DOMAIN P : l > j /\ P[l].done /\ Writes(P[l], id)

(* Synchronization destroys what is deleted wherever it is known. *)
DestroyedIsDeleted(P, id, row, mods, m, tn) ==
    \A k \in DOMAIN P : P[k].call.op = "destroyDeletedRecords" /\ P[k].call.id = id =>
        /\ \A i \in DOMAIN P : i < k => ~Writes(P[i], id)
        /\ P[k].done \/ row.deleted
        /\ \A j \in DOMAIN P : j < k =>
             \A x \in P[j].found : x.id = id /\ ~x.bare => x.row.deleted
        /\ m # 0 /\ IsLastWrite(P, k, id) /\ Sound(P, tn, id) => mods[m].status = "deleted"

(* The last write of a record, once executed, is what the table holds ... *)
LastIsStored(P, id, row, tn) ==
    \A k \in DOMAIN P : IsLastWrite(P, k, id) /\ P[k].done /\ Sound(P, tn, id) =>
        row = Left(P[k].call)

(* ... and, if an update, what the cached Model is. *)
LastIsCached(P, id, mods, m, tn) ==
    \A k \in DOMAIN P : IsLastWrite(P, k, id) /\ Updates(P[k], id) /\ Sound(P, tn, id) =>
        RowOf(mods[m]) = P[k].call.row

CachedIsStored(P, id, row, mods, m, tn) ==
    m # 0 /\ Sound(P, tn, id) /\ (\A k \in DOMAIN P : ~Writes(P[k], id)) =>
        row = RowOf(mods[m]) \/ (mods[m].status = "deleted" /\ row = NoRow)

Current(P, id, row, mods, m, tn) ==
    /\ CreationsAreNew(P, id, mods)
    /\ ShownIsCurrent(P, id, row)
    /\ DestroyedIsDeleted(P, id, row, mods, m, tn)
    /\ LastIsStored(P, id, row, tn)
    /\ LastIsCached(P, id, mods, m, tn)
    /\ CachedIsStored(P, id, row, mods, m, tn)

Coheres(P, d, ms, ch, tn, rs) ==
    /\ AnswersFit(P)
    /\ d.adapter = "sqliteSync" => \A k \in DOMAIN P : P[k].found = {}
    /\ \A id \in Id : Known(P, id, d.rows[id], ch[id])
    /\ d.adapter # "sqliteSync" =>
         \A id \in Id : SentIsKnown(P, id, d.rows[id], d.sent, ch[id])
    /\ ~rs => \A id \in Id : Current(P, id, d.rows[id], ms[id], ch[id], tn)

CoherenceInv == Coheres(LineOf(answers, calls), driver, models, cache, tainted, resetting)

-----------------------------------------------------------------------------
(* How the claims change with the queue. *)

(* A call joins the queue. *)
LEMMA KnownJoins ==
    ASSUME NEW P, NEW Q, NEW N, NEW e, NEW id, NEW row, NEW m,
           N \in Nat, Known(P, id, row, m), Joins(P, Q, N, e),
           ~e.done, e.found = {},
           Updates(e, id) =>
             m # 0 /\ IsLive(row) /\ \A i \in DOMAIN P : ~Removes(P[i], id)
    PROVE  Known(Q, id, row, m)
<1>1. UpdatesMeetRecords(Q, id, row, m)
  BY DEF Known, UpdatesMeetRecords, Joins, Updates, Removes
<1>2. SeenIsCreated(Q, id)
  BY DEF Known, SeenIsCreated, Joins, Sees
<1>3. BareIsKnown(Q, id, m)
  BY DEF Known, BareIsKnown, Joins, Sees, Supplies
<1> QED BY <1>1, <1>2, <1>3 DEF Known

LEMMA SentJoins ==
    ASSUME NEW P, NEW Q, NEW N, NEW e, NEW id, NEW row, NEW st, NEW m,
           N \in Nat, SentIsKnown(P, id, row, st, m), Joins(P, Q, N, e)
    PROVE  SentIsKnown(Q, id, row, st, m)
BY DEF SentIsKnown, Joins

LEMMA FitJoins ==
    ASSUME NEW P, NEW Q, NEW N, NEW e,
           N \in Nat, AnswersFit(P), Joins(P, Q, N, e), e.ok, e.found = {}
    PROVE  /\ AnswersFit(Q)
           /\ (\A k \in DOMAIN P : P[k].found = {}) => \A k \in DOMAIN Q : Q[k].found = {}
BY DEF AnswersFit, Joins

LEMMA CurrentJoinsQuiet ==
    ASSUME NEW P, NEW Q, NEW N, NEW e, NEW id, NEW row, NEW mods, NEW m, NEW tn,
           N \in Nat, Current(P, id, row, mods, m, tn), Joins(P, Q, N, e),
           ~e.done, e.ok, e.found = {}, ~Writes(e, id)
    PROVE  Current(Q, id, row, mods, m, tn)
<1>1. CreationsAreNew(Q, id, mods)
  BY DEF Current, CreationsAreNew, Joins, Writes, Creates
<1>2. ShownIsCurrent(Q, id, row)
  BY DEF Current, ShownIsCurrent, Joins
<1>3. /\ Sound(Q, tn, id) => Sound(P, tn, id)
      /\ \A k \in DOMAIN Q : IsLastWrite(Q, k, id) => k \in DOMAIN P /\ IsLastWrite(P, k, id)
  BY DEF Sound, Joins, IsLastWrite
<1>4. DestroyedIsDeleted(Q, id, row, mods, m, tn)
  BY <1>3 DEF Current, DestroyedIsDeleted, Joins, Writes
<1>5. LastIsStored(Q, id, row, tn)
  BY <1>3 DEF Current, LastIsStored, Joins
<1>6. LastIsCached(Q, id, mods, m, tn)
  BY <1>3 DEF Current, LastIsCached, Joins
<1>7. CachedIsStored(Q, id, row, mods, m, tn)
  BY <1>3 DEF Current, CachedIsStored, Joins
<1> QED BY <1>1, <1>2, <1>4, <1>5, <1>6, <1>7 DEF Current

(* A write joins the queue: the Model it is of is as it says. *)
LEMMA CurrentJoinsWrite ==
    ASSUME NEW P, NEW Q, NEW N, NEW e, NEW id, NEW row, NEW mods, NEW mods2, NEW m, NEW tn,
           N \in Nat, Current(P, id, row, mods, m, tn), Joins(P, Q, N, e),
           ~e.done, e.ok, e.found = {}, Writes(e, id),
           \A k \in DOMAIN P : Creates(P[k], id) =>
             mods2[P[k].call.model].ver = mods[P[k].call.model].ver,
           Creates(e, id) => mods2[e.call.model].ver = e.call.row.ver,
           Updates(e, id) => RowOf(mods2[m]) = e.call.row,
           e.call.op = "destroyDeletedRecords" =>
             mods2 = mods /\ row.deleted /\ \A k \in DOMAIN P : ~Writes(P[k], id)
    PROVE  Current(Q, id, row, mods2, m, tn)
<1>1. CreationsAreNew(Q, id, mods2)
  BY DEF Current, CreationsAreNew, Joins
<1>2. ShownIsCurrent(Q, id, row)
  BY DEF Current, ShownIsCurrent, Joins
<1>3. /\ Sound(Q, tn, id) => Sound(P, tn, id)
      /\ \A k \in DOMAIN Q : IsLastWrite(Q, k, id) => k = N + 1
  BY DEF Sound, Joins, IsLastWrite
<1>4. DestroyedIsDeleted(Q, id, row, mods2, m, tn)
  <2> SUFFICES ASSUME NEW k \in DOMAIN Q,
                      Q[k].call.op = "destroyDeletedRecords", Q[k].call.id = id
               PROVE  /\ \A i \in DOMAIN Q : i < k => ~Writes(Q[i], id)
                      /\ Q[k].done \/ row.deleted
                      /\ \A j \in DOMAIN Q : j < k =>
                           \A x \in Q[j].found : x.id = id /\ ~x.bare => x.row.deleted
                      /\ m # 0 /\ IsLastWrite(Q, k, id) /\ Sound(Q, tn, id) =>
                           mods2[m].status = "deleted"
    BY DEF DestroyedIsDeleted
  <2>1. CASE k # N + 1
    BY <1>3, <2>1 DEF Current, DestroyedIsDeleted, Joins
  <2>2. CASE k = N + 1
    <3>1. \A i \in DOMAIN Q : i < k => ~Writes(Q[i], id)
      BY <2>2 DEF Joins
    <3>2. \A j \in DOMAIN Q : j < k =>
            \A x \in Q[j].found : x.id = id /\ ~x.bare => x.row.deleted
      BY <2>2 DEF Current, ShownIsCurrent, Joins
    <3>3. m # 0 /\ Sound(Q, tn, id) => mods2[m].status = "deleted"
      <4> SUFFICES ASSUME m # 0, Sound(Q, tn, id) PROVE mods2[m].status = "deleted"
        OBVIOUS
      <4>1. mods2 = mods /\ row.deleted /\ \A l \in DOMAIN P : ~Writes(P[l], id)
        BY <2>2 DEF Joins
      <4>2. row = RowOf(mods[m]) \/ mods[m].status = "deleted"
        BY <1>3, <4>1 DEF Current, CachedIsStored
      <4>3. RowOf(mods[m]).deleted <=> mods[m].status = "deleted"
        BY DEF RowOf
      <4> QED BY <4>1, <4>2, <4>3
    <3> QED BY <2>2, <3>1, <3>2, <3>3 DEF Joins
  <2> QED BY <2>1, <2>2
<1>5. LastIsStored(Q, id, row, tn)
  BY <1>3 DEF LastIsStored, Joins
<1>6. LastIsCached(Q, id, mods2, m, tn)
  BY <1>3 DEF LastIsCached, Joins
<1>7. CachedIsStored(Q, id, row, mods2, m, tn)
  BY DEF CachedIsStored, Joins
<1> QED BY <1>1, <1>2, <1>4, <1>5, <1>6, <1>7 DEF Current

(* The driver takes the call at n, the first that waits. *)
Reaches(P, Q, N, n, e) ==
    /\ Runs(P, Q, N, n, e)
    /\ P[n].ok
    /\ \A k \in 1..N : P[k].done => k < n

LEMMA KnownRunsQuiet ==
    ASSUME NEW P, NEW Q, NEW N, NEW n, NEW e, NEW id, NEW r, NEW st, NEW m,
           N \in Nat, id \in Id, Known(P, id, r[id], m), Reaches(P, Q, N, n, e),
           RemovedStaysRemoved(Q, r), ~Writes(e, id),
           \A x \in e.found : x.id = id => x.row = r[id] /\ (x.bare => id \in st),
           e.found = {} \/ SentIsKnown(P, id, r[id], st, m)
    PROVE  Known(Q, id, r[id], m)
<1>1. UpdatesMeetRecords(Q, id, r[id], m)
  BY DEF Known, UpdatesMeetRecords, Reaches, Runs, Updates, Removes, Writes
<1>2. SeenIsCreated(Q, id)
  <2> SUFFICES ASSUME NEW i \in DOMAIN Q, NEW j \in DOMAIN Q,
                      i < j, Removes(Q[i], id), Sees(Q[j], id)
               PROVE  \E l \in DOMAIN Q : i < l /\ l < j /\ Creates(Q[l], id)
    BY DEF SeenIsCreated
  <2>1. i # n
    BY DEF Removes, Writes, Reaches, Runs
  <2>2. CASE j = n
    <3>1. Q[i].done /\ IsLive(r[id])
      BY <2>1, <2>2 DEF Reaches, Runs, Sees
    <3>2. PICK l \in DOMAIN Q : i < l /\ Q[l].done /\ Creates(Q[l], id)
      BY <3>1 DEF RemovedStaysRemoved
    <3>3. l < n
      BY <3>2 DEF Reaches, Runs, Creates, Writes
    <3> QED BY <2>2, <3>2, <3>3
  <2>3. CASE j # n
    <3>1. PICK l \in DOMAIN P : i < l /\ l < j /\ Creates(P[l], id)
      BY <2>1, <2>3 DEF Known, SeenIsCreated, Reaches, Runs
    <3>2. l # n
      BY <3>1 DEF Creates, Writes, Reaches, Runs
    <3> QED BY <3>1, <3>2 DEF Reaches, Runs
  <2> QED BY <2>2, <2>3
<1>3. BareIsKnown(Q, id, m)
  <2> SUFFICES ASSUME NEW j \in DOMAIN Q, Sees(Q[j], id), ~Shows(Q[j], id), m = 0
               PROVE  \E l \in DOMAIN Q : l < j /\ Supplies(Q[l], id)
    BY DEF BareIsKnown
  <2>2. CASE j = n
    <3>1. id \in st /\ IsLive(r[id]) /\ e.found # {}
      BY <2>2 DEF Reaches, Runs, Sees, Shows
    <3>2. PICK l \in DOMAIN P : Supplies(P[l], id)
      BY <3>1 DEF SentIsKnown
    <3> QED BY <2>2, <3>2 DEF Supplies, Reaches, Runs
  <2>3. CASE j # n
    BY <2>3 DEF Known, BareIsKnown, Reaches, Runs, Supplies
  <2> QED BY <2>2, <2>3
<1> QED BY <1>1, <1>2, <1>3 DEF Known

LEMMA KnownRunsFailed ==
    ASSUME NEW P, NEW Q, NEW N, NEW n, NEW e, NEW id, NEW row, NEW m,
           N \in Nat, Known(P, id, row, m), Reaches(P, Q, N, n, e),
           AnswersAreRows(Q), ~e.ok, e.found = {}
    PROVE  Known(Q, id, row, m)
<1>1. UpdatesMeetRecords(Q, id, row, m)
  BY DEF Known, UpdatesMeetRecords, Reaches, Runs, Updates, Removes
<1>2. SeenIsCreated(Q, id)
  <2> SUFFICES ASSUME NEW i \in DOMAIN Q, NEW j \in DOMAIN Q,
                      i < j, Removes(Q[i], id), Sees(Q[j], id)
               PROVE  \E l \in DOMAIN Q : i < l /\ l < j /\ Creates(Q[l], id)
    BY DEF SeenIsCreated
  <2>1. i # n /\ j # n /\ P[j].done
    BY DEF Removes, Sees, Reaches, Runs, AnswersAreRows
  <2>2. PICK l \in DOMAIN P : i < l /\ l < j /\ Creates(P[l], id)
    BY <2>1 DEF Known, SeenIsCreated, Reaches, Runs
  <2>3. l < n
    BY <2>1, <2>2 DEF Reaches, Runs
  <2> QED BY <2>2, <2>3 DEF Reaches, Runs
<1>3. BareIsKnown(Q, id, m)
  BY DEF Known, BareIsKnown, Reaches, Runs, Supplies, Sees, Shows
<1> QED BY <1>1, <1>2, <1>3 DEF Known

(* The driver writes the record, and leaves the row row2. *)
LEMMA KnownRunsWrite ==
    ASSUME NEW P, NEW Q, NEW N, NEW n, NEW e, NEW id, NEW row, NEW row2, NEW m,
           N \in Nat, Known(P, id, row, m), Reaches(P, Q, N, n, e),
           e.ok, e.found = {}, Writes(e, id), row2 = Left(e.call),
           e.call.op = "create" => row = NoRow,
           e.call.op = "update" => row2 # NoRow
    PROVE  Known(Q, id, row2, m)
<1>1. UpdatesMeetRecords(Q, id, row2, m)
  <2> SUFFICES ASSUME NEW k \in DOMAIN Q, Updates(Q[k], id)
               PROVE  /\ m # 0
                      /\ Q[k].done \/ IsLive(row2)
                      /\ \A i \in DOMAIN Q : i < k => ~Removes(Q[i], id)
    BY DEF UpdatesMeetRecords
  <2>1. Updates(P[k], id) /\ k \in DOMAIN P
    BY DEF Updates, Reaches, Runs
  <2>2. m # 0 /\ (P[k].done \/ IsLive(row)) /\ \A i \in DOMAIN P : i < k => ~Removes(P[i], id)
    BY <2>1 DEF Known, UpdatesMeetRecords
  <2>3. \A i \in DOMAIN Q : Removes(Q[i], id) => Removes(P[i], id)
    BY DEF Removes, Reaches, Runs
  <2>4. \A i \in DOMAIN Q : i < k => ~Removes(Q[i], id)
    BY <2>2, <2>3 DEF Reaches, Runs
  <2>5. Q[k].done \/ IsLive(row2)
    <3>1. CASE k <= n
      BY <3>1 DEF Reaches, Runs
    <3>2. CASE k > n
      <4>1. ~P[k].done
        BY <3>2 DEF Reaches, Runs
      <4>2. IsLive(row) /\ ~Removes(e, id)
        BY <2>2, <2>4, <3>2, <4>1 DEF Reaches, Runs
      <4> QED BY <4>2 DEF Removes, Writes, IsLive, Left
    <3> QED BY <3>1, <3>2 DEF Reaches, Runs
  <2> QED BY <2>2, <2>4, <2>5
<1>2. SeenIsCreated(Q, id)
  BY DEF Known, SeenIsCreated, Reaches, Runs, Sees, Removes, Creates
<1>3. BareIsKnown(Q, id, m)
  BY DEF Known, BareIsKnown, Reaches, Runs, Supplies, Sees, Shows, Creates
<1> QED BY <1>1, <1>2, <1>3 DEF Known

LEMMA KnownRunsReset ==
    ASSUME NEW P, NEW Q, NEW N, NEW n, NEW e, NEW id, NEW row, NEW row2, NEW m,
           N \in Nat, Known(P, id, row, m), Reaches(P, Q, N, n, e),
           e.ok, e.found = {}, e.call.op = "unsafeResetDatabase",
           \A k \in DOMAIN Q : k > n => Q[k].call = Plain("clearCachedRecords")
    PROVE  Known(Q, id, row2, m)
<1>1. UpdatesMeetRecords(Q, id, row2, m)
  BY DEF Known, UpdatesMeetRecords, Reaches, Runs, Updates, Removes, Plain
<1>2. SeenIsCreated(Q, id)
  BY DEF Known, SeenIsCreated, Reaches, Runs, Sees, Removes, Creates
<1>3. BareIsKnown(Q, id, m)
  BY DEF Known, BareIsKnown, Reaches, Runs, Supplies, Sees, Shows
<1> QED BY <1>1, <1>2, <1>3 DEF Known

LEMMA SentRuns ==
    ASSUME NEW P, NEW Q, NEW N, NEW n, NEW e, NEW id, NEW row, NEW row2,
           NEW st, NEW st2, NEW m,
           N \in Nat, SentIsKnown(P, id, row, st, m), Reaches(P, Q, N, n, e),
           id \in st2 /\ IsLive(row2) =>
             (id \in st /\ IsLive(row)) \/ Shows(e, id) \/ Creates(e, id)
    PROVE  SentIsKnown(Q, id, row2, st2, m)
BY DEF SentIsKnown, Reaches, Runs, Supplies

LEMMA FitRuns ==
    ASSUME NEW P, NEW Q, NEW N, NEW n, NEW e,
           N \in Nat, AnswersFit(P), Reaches(P, Q, N, n, e),
           ~e.ok => IsBatch(e.call),
           \A x \in e.found : /\ e.call.op = "query" => IsLive(x.row)
                              /\ e.call.op = "find" => x.id = e.call.id
    PROVE  /\ AnswersFit(Q)
           /\ (\A k \in DOMAIN P : P[k].found = {}) /\ e.found = {} =>
                \A k \in DOMAIN Q : Q[k].found = {}
BY DEF AnswersFit, Reaches, Runs

LEMMA CurrentRunsQuiet ==
    ASSUME NEW P, NEW Q, NEW N, NEW n, NEW e, NEW id, NEW row, NEW mods, NEW m, NEW tn,
           N \in Nat, Current(P, id, row, mods, m, tn), Reaches(P, Q, N, n, e),
           ~Writes(e, id), e.ok \/ e.call.id # id,
           \A x \in e.found : x.id = id => x.row = row
    PROVE  Current(Q, id, row, mods, m, tn)
<1>0. DOMAIN Q = DOMAIN P /\ \A k \in DOMAIN Q : Q[k].call = P[k].call
  BY DEF Reaches, Runs
<1>1. CreationsAreNew(Q, id, mods)
  BY <1>0 DEF Current, CreationsAreNew, Reaches, Runs, Writes, Creates
<1>2. ShownIsCurrent(Q, id, row)
  <2> SUFFICES ASSUME NEW j \in DOMAIN Q, NEW x \in Q[j].found, x.id = id, ~x.bare, x.row # row
               PROVE  \E l \in DOMAIN Q : l > j /\ Q[l].done /\ Writes(Q[l], id)
    BY DEF ShownIsCurrent
  <2>1. j # n
    BY DEF Reaches, Runs
  <2>2. PICK l \in DOMAIN P : l > j /\ P[l].done /\ Writes(P[l], id)
    BY <2>1 DEF Current, ShownIsCurrent, Reaches, Runs
  <2> QED BY <2>2 DEF Reaches, Runs
<1>3. /\ Sound(Q, tn, id) => Sound(P, tn, id)
      /\ \A k \in DOMAIN Q : Writes(Q[k], id) <=> Writes(P[k], id)
      /\ \A k \in DOMAIN Q : IsLastWrite(Q, k, id) => k # n /\ IsLastWrite(P, k, id)
  BY <1>0 DEF Sound, Reaches, Runs, IsLastWrite, Writes
<1>4. DestroyedIsDeleted(Q, id, row, mods, m, tn)
  <2> SUFFICES ASSUME NEW k \in DOMAIN Q,
                      Q[k].call.op = "destroyDeletedRecords", Q[k].call.id = id
               PROVE  /\ \A i \in DOMAIN Q : i < k => ~Writes(Q[i], id)
                      /\ Q[k].done \/ row.deleted
                      /\ \A j \in DOMAIN Q : j < k =>
                           \A x \in Q[j].found : x.id = id /\ ~x.bare => x.row.deleted
                      /\ m # 0 /\ IsLastWrite(Q, k, id) /\ Sound(Q, tn, id) =>
                           mods[m].status = "deleted"
    BY DEF DestroyedIsDeleted
  <2>1. k # n /\ Q[k] = P[k] /\ k \in DOMAIN P
    BY DEF Reaches, Runs, Writes
  <2>2. /\ \A i \in DOMAIN P : i < k => ~Writes(P[i], id)
        /\ P[k].done \/ row.deleted
        /\ \A j \in DOMAIN P : j < k =>
             \A x \in P[j].found : x.id = id /\ ~x.bare => x.row.deleted
        /\ m # 0 /\ IsLastWrite(P, k, id) /\ Sound(P, tn, id) => mods[m].status = "deleted"
    BY <2>1 DEF Current, DestroyedIsDeleted
  <2>3. \A j \in DOMAIN Q : j < k =>
          \A x \in Q[j].found : x.id = id /\ ~x.bare => x.row.deleted
    BY <2>1, <2>2 DEF Reaches, Runs
  <2> QED BY <1>0, <1>3, <2>1, <2>2, <2>3
<1>5. LastIsStored(Q, id, row, tn)
  BY <1>3 DEF Current, LastIsStored, Reaches, Runs
<1>6. LastIsCached(Q, id, mods, m, tn)
  BY <1>3 DEF Current, LastIsCached, Reaches, Runs
<1>7. CachedIsStored(Q, id, row, mods, m, tn)
  BY <1>0, <1>3 DEF Current, CachedIsStored
<1> QED BY <1>1, <1>2, <1>4, <1>5, <1>6, <1>7 DEF Current

(* A failed batch leaves the record without claims, but for what is on its way. *)
LEMMA CurrentRunsFailed ==
    ASSUME NEW P, NEW Q, NEW N, NEW n, NEW e, NEW id, NEW row, NEW mods, NEW m, NEW tn,
           N \in Nat, Current(P, id, row, mods, m, tn), Reaches(P, Q, N, n, e),
           ~e.ok, e.found = {}, e.call.id = id, IsBatch(e.call)
    PROVE  Current(Q, id, row, mods, m, tn)
<1>0. DOMAIN Q = DOMAIN P /\ \A k \in DOMAIN Q : Q[k].call = P[k].call
  BY DEF Reaches, Runs
<1>1. CreationsAreNew(Q, id, mods)
  BY <1>0 DEF Current, CreationsAreNew, Reaches, Runs, Creates
<1>2. ShownIsCurrent(Q, id, row)
  <2> SUFFICES ASSUME NEW j \in DOMAIN Q, NEW x \in Q[j].found, x.id = id, ~x.bare, x.row # row
               PROVE  \E l \in DOMAIN Q : l > j /\ Q[l].done /\ Writes(Q[l], id)
    BY DEF ShownIsCurrent
  <2>1. j # n
    BY DEF Reaches, Runs
  <2>2. PICK l \in DOMAIN P : l > j /\ P[l].done /\ Writes(P[l], id)
    BY <2>1 DEF Current, ShownIsCurrent, Reaches, Runs
  <2> QED BY <2>2 DEF Reaches, Runs
<1>3. ~Sound(Q, tn, id)
  BY <1>0 DEF Sound, Reaches, Runs
<1>4. DestroyedIsDeleted(Q, id, row, mods, m, tn)
  <2> SUFFICES ASSUME NEW k \in DOMAIN Q,
                      Q[k].call.op = "destroyDeletedRecords", Q[k].call.id = id
               PROVE  /\ \A i \in DOMAIN Q : i < k => ~Writes(Q[i], id)
                      /\ Q[k].done \/ row.deleted
                      /\ \A j \in DOMAIN Q : j < k =>
                           \A x \in Q[j].found : x.id = id /\ ~x.bare => x.row.deleted
    BY <1>3 DEF DestroyedIsDeleted
  <2>1. k # n /\ Q[k] = P[k] /\ k \in DOMAIN P
    BY DEF Reaches, Runs, IsBatch
  <2>2. /\ \A i \in DOMAIN P : i < k => ~Writes(P[i], id)
        /\ P[k].done \/ row.deleted
        /\ \A j \in DOMAIN P : j < k =>
             \A x \in P[j].found : x.id = id /\ ~x.bare => x.row.deleted
    BY <2>1 DEF Current, DestroyedIsDeleted
  <2>3. \A j \in DOMAIN Q : j < k =>
          \A x \in Q[j].found : x.id = id /\ ~x.bare => x.row.deleted
    BY <2>1, <2>2 DEF Reaches, Runs
  <2>4. \A i \in DOMAIN Q : i < k => ~Writes(Q[i], id)
    BY <1>0, <2>2 DEF Writes
  <2> QED BY <2>1, <2>2, <2>3, <2>4
<1> QED
  BY <1>1, <1>2, <1>3, <1>4 DEF Current, LastIsStored, LastIsCached, CachedIsStored

LEMMA CurrentRunsWrite ==
    ASSUME NEW P, NEW Q, NEW N, NEW n, NEW e, NEW id, NEW row, NEW row2,
           NEW mods, NEW m, NEW tn,
           N \in Nat, Current(P, id, row, mods, m, tn), Reaches(P, Q, N, n, e),
           AnswersAreRows(Q), e.ok, e.found = {}, Writes(e, id), row2 = Left(e.call)
    PROVE  Current(Q, id, row2, mods, m, tn)
<1>0. DOMAIN Q = DOMAIN P /\ \A k \in DOMAIN Q : Q[k].call = P[k].call /\ (Q[k].ok <=> P[k].ok)
  BY DEF Reaches, Runs
<1>1. CreationsAreNew(Q, id, mods)
  BY <1>0 DEF Current, CreationsAreNew, Creates
<1>2. ShownIsCurrent(Q, id, row2)
  <2> SUFFICES ASSUME NEW j \in DOMAIN Q, NEW x \in Q[j].found
               PROVE  \E l \in DOMAIN Q : l > j /\ Q[l].done /\ Writes(Q[l], id)
    BY DEF ShownIsCurrent
  <2>1. j # n /\ P[j].done
    BY DEF Reaches, Runs, AnswersAreRows
  <2> QED BY <2>1 DEF Reaches, Runs
<1>3. /\ Sound(Q, tn, id) => Sound(P, tn, id)
      /\ \A k \in DOMAIN Q : Writes(Q[k], id) <=> Writes(P[k], id)
      /\ \A k \in DOMAIN Q : IsLastWrite(Q, k, id) => IsLastWrite(P, k, id) /\ k >= n
  BY <1>0 DEF Sound, Reaches, Runs, IsLastWrite, Writes
<1>4. DestroyedIsDeleted(Q, id, row2, mods, m, tn)
  <2> SUFFICES ASSUME NEW k \in DOMAIN Q,
                      Q[k].call.op = "destroyDeletedRecords", Q[k].call.id = id
               PROVE  /\ \A i \in DOMAIN Q : i < k => ~Writes(Q[i], id)
                      /\ Q[k].done \/ row2.deleted
                      /\ \A j \in DOMAIN Q : j < k =>
                           \A x \in Q[j].found : x.id = id /\ ~x.bare => x.row.deleted
                      /\ m # 0 /\ IsLastWrite(Q, k, id) /\ Sound(Q, tn, id) =>
                           mods[m].status = "deleted"
    BY DEF DestroyedIsDeleted
  <2>2. /\ \A i \in DOMAIN P : i < k => ~Writes(P[i], id)
        /\ \A j \in DOMAIN P : j < k =>
             \A x \in P[j].found : x.id = id /\ ~x.bare => x.row.deleted
        /\ m # 0 /\ IsLastWrite(P, k, id) /\ Sound(P, tn, id) => mods[m].status = "deleted"
    BY <1>0 DEF Current, DestroyedIsDeleted
  <2>3. \A j \in DOMAIN Q : j < k =>
          \A x \in Q[j].found : x.id = id /\ ~x.bare => x.row.deleted
    BY <2>2 DEF Reaches, Runs
  <2>4. k <= n
    BY <2>2, <1>0, <1>3 DEF Reaches, Runs
  <2>5. Q[k].done
    BY <2>4 DEF Reaches, Runs
  <2> QED BY <1>0, <1>3, <2>2, <2>3, <2>5
<1>5. LastIsStored(Q, id, row2, tn)
  <2> SUFFICES ASSUME NEW k \in DOMAIN Q, IsLastWrite(Q, k, id), Q[k].done
               PROVE  row2 = Left(Q[k].call)
    BY DEF LastIsStored
  <2>1. k = n
    BY <1>3 DEF Reaches, Runs
  <2> QED BY <2>1 DEF Reaches, Runs
<1>6. LastIsCached(Q, id, mods, m, tn)
  BY <1>0, <1>3 DEF Current, LastIsCached, Updates
<1>7. CachedIsStored(Q, id, row2, mods, m, tn)
  BY <1>0, <1>3 DEF CachedIsStored, Reaches, Runs
<1> QED BY <1>1, <1>2, <1>4, <1>5, <1>6, <1>7 DEF Current

(* A Model is made of a whole row: row3. *)
LEMMA KnownMade ==
    ASSUME NEW P, NEW id, NEW row, NEW st, NEW m2,
           Known(P, id, row, 0), m2 # 0
    PROVE  Known(P, id, row, m2) /\ SentIsKnown(P, id, row, st, m2)
BY DEF Known, UpdatesMeetRecords, BareIsKnown, SentIsKnown

LEMMA CurrentMade ==
    ASSUME NEW P, NEW id, NEW row, NEW row3, NEW mods, NEW mods2, NEW m2, NEW tn,
           Current(P, id, row, mods, 0, tn), Known(P, id, row, 0),
           \A k \in DOMAIN P : Creates(P[k], id) =>
             mods2[P[k].call.model] = mods[P[k].call.model],
           RowOf(mods2[m2]) = row3,
           Sound(P, tn, id) /\ (\A k \in DOMAIN P : ~Writes(P[k], id)) => row = row3,
           \A k \in DOMAIN P :
             P[k].call.op = "destroyDeletedRecords" /\ IsLastWrite(P, k, id) /\ Sound(P, tn, id) =>
               row3.deleted
    PROVE  Current(P, id, row, mods2, m2, tn)
<1>1. CreationsAreNew(P, id, mods2)
  BY DEF Current, CreationsAreNew
<1>2. row3.deleted <=> mods2[m2].status = "deleted"
  BY DEF RowOf
<1>4. DestroyedIsDeleted(P, id, row, mods2, m2, tn)
  BY <1>2 DEF Current, DestroyedIsDeleted
<1>6. LastIsCached(P, id, mods2, m2, tn)
  BY DEF LastIsCached, Known, UpdatesMeetRecords
<1>7. CachedIsStored(P, id, row, mods2, m2, tn)
  BY DEF CachedIsStored
<1> QED BY <1>1, <1>4, <1>6, <1>7 DEF Current

(* A whole row at the head of the queue. *)
LEMMA HeadIsCurrent ==
    ASSUME NEW P, NEW N, NEW x, NEW id, NEW row, NEW mods, NEW m, NEW tn,
           N \in Nat, N > 0, DOMAIN P = 1..N,
           P[1].call.op \in {"find", "query"}, x \in P[1].found, x.id = id, ~x.bare,
           Current(P, id, row, mods, m, tn)
    PROVE  /\ (\A k \in DOMAIN P : ~Writes(P[k], id)) => row = x.row
           /\ \A k \in DOMAIN P :
                P[k].call.op = "destroyDeletedRecords" /\ IsLastWrite(P, k, id) => x.row.deleted
<1>1. ShownIsCurrent(P, id, row) /\ DestroyedIsDeleted(P, id, row, mods, m, tn)
  BY DEF Current
<1>2. (\A k \in DOMAIN P : ~Writes(P[k], id)) => row = x.row
  BY <1>1 DEF ShownIsCurrent
<1>3. ASSUME NEW k \in DOMAIN P, P[k].call.op = "destroyDeletedRecords", IsLastWrite(P, k, id)
      PROVE  x.row.deleted
  <2>1. P[k].call.id = id /\ 1 < k
    BY <1>3 DEF IsLastWrite, Writes
  <2> QED BY <1>1, <1>3, <2>1 DEF DestroyedIsDeleted
<1> QED BY <1>2, <1>3

(* A whole row of the table, read when every call has been executed. *)
LEMMA TableIsCurrent ==
    ASSUME NEW P, NEW id, NEW row, NEW mods, NEW m, NEW tn,
           row # NoRow, \A k \in DOMAIN P : P[k].done,
           Current(P, id, row, mods, m, tn)
    PROVE  \A k \in DOMAIN P :
             ~(P[k].call.op = "destroyDeletedRecords" /\ IsLastWrite(P, k, id) /\ Sound(P, tn, id))
BY DEF Current, LastIsStored, Left

(* JavaScript takes an answer that writes nothing: what it shows is cached. *)
LEMMA KnownLeaves ==
    ASSUME NEW P, NEW Q, NEW N, NEW id, NEW row, NEW st, NEW m,
           N \in Nat, Known(P, id, row, m), Leaves(P, Q, N),
           m # 0 \/ ~Supplies(P[1], id)
    PROVE  /\ Known(Q, id, row, m)
           /\ SentIsKnown(P, id, row, st, m) => SentIsKnown(Q, id, row, st, m)
<1>0. \A k \in DOMAIN Q : k + 1 \in DOMAIN P /\ Q[k] = P[k + 1]
  BY DEF Leaves
<1>00. \A k \in DOMAIN P : k = 1 \/ (k - 1 \in DOMAIN Q /\ Q[k - 1] = P[k])
  BY DEF Leaves
<1>1. UpdatesMeetRecords(Q, id, row, m)
  BY <1>0 DEF Known, UpdatesMeetRecords, Leaves
<1>2. SeenIsCreated(Q, id)
  <2> SUFFICES ASSUME NEW i \in DOMAIN Q, NEW j \in DOMAIN Q,
                      i < j, Removes(Q[i], id), Sees(Q[j], id)
               PROVE  \E l \in DOMAIN Q : i < l /\ l < j /\ Creates(Q[l], id)
    BY DEF SeenIsCreated
  <2>0. i \in Nat /\ j \in Nat
    BY DEF Leaves
  <2>1. PICK l \in DOMAIN P : i + 1 < l /\ l < j + 1 /\ Creates(P[l], id)
    BY <1>0, <2>0 DEF Known, SeenIsCreated
  <2>2. l \in Nat /\ l - 1 \in DOMAIN Q /\ Q[l - 1] = P[l]
    BY <1>00, <2>0, <2>1 DEF Leaves
  <2> QED BY <2>0, <2>1, <2>2
<1>3. BareIsKnown(Q, id, m)
  <2> SUFFICES ASSUME NEW j \in DOMAIN Q, Sees(Q[j], id), ~Shows(Q[j], id), m = 0
               PROVE  \E l \in DOMAIN Q : l < j /\ Supplies(Q[l], id)
    BY DEF BareIsKnown
  <2>0. j \in Nat
    BY DEF Leaves
  <2>1. PICK l \in DOMAIN P : l < j + 1 /\ Supplies(P[l], id)
    BY <1>0, <2>0 DEF Known, BareIsKnown
  <2>2. l \in Nat /\ l - 1 \in DOMAIN Q /\ Q[l - 1] = P[l]
    BY <1>00, <2>1 DEF Leaves
  <2> QED BY <2>0, <2>1, <2>2
<1>4. SentIsKnown(P, id, row, st, m) => SentIsKnown(Q, id, row, st, m)
  BY <1>00 DEF SentIsKnown
<1> QED BY <1>1, <1>2, <1>3, <1>4 DEF Known

LEMMA FitLeaves ==
    ASSUME NEW P, NEW Q, NEW N,
           N \in Nat, AnswersFit(P), Leaves(P, Q, N)
    PROVE  /\ AnswersFit(Q)
           /\ (\A k \in DOMAIN P : P[k].found = {}) => \A k \in DOMAIN Q : Q[k].found = {}
<1>0. \A k \in DOMAIN Q : k + 1 \in DOMAIN P /\ Q[k] = P[k + 1]
  BY DEF Leaves
<1> QED BY <1>0 DEF AnswersFit

(* JavaScript forgets a record that was removed. *)
LEMMA KnownForgets ==
    ASSUME NEW P, NEW Q, NEW N, NEW id, NEW r, NEW st, NEW m,
           N \in Nat, id \in Id, Known(P, id, r[id], m), Leaves(P, Q, N),
           Removes(P[1], id),
           InOrder(P), AnswersAreRows(P), RemovedStaysRemoved(P, r)
    PROVE  Known(Q, id, r[id], 0) /\ SentIsKnown(Q, id, r[id], st, 0)
<1>0. \A k \in DOMAIN Q : k \in Nat /\ k + 1 \in DOMAIN P /\ Q[k] = P[k + 1]
  BY DEF Leaves
<1>00. \A k \in DOMAIN P : k \in Nat /\ (k = 1 \/ (k - 1 \in DOMAIN Q /\ Q[k - 1] = P[k]))
  BY DEF Leaves
<1>000. 1 \in DOMAIN P /\ P[1].done
  BY DEF Leaves
<1>1. \A k \in DOMAIN Q : ~Updates(Q[k], id)
  <2> SUFFICES ASSUME NEW k \in DOMAIN Q, Updates(P[k + 1], id) PROVE FALSE
    BY <1>0
  <2>1. 1 < k + 1
    BY DEF Leaves
  <2> QED BY <1>0, <1>000, <2>1 DEF Known, UpdatesMeetRecords
<1>2. SeenIsCreated(Q, id)
  <2> SUFFICES ASSUME NEW i \in DOMAIN Q, NEW j \in DOMAIN Q,
                      i < j, Removes(Q[i], id), Sees(Q[j], id)
               PROVE  \E l \in DOMAIN Q : i < l /\ l < j /\ Creates(Q[l], id)
    BY DEF SeenIsCreated
  <2>1. PICK l \in DOMAIN P : i + 1 < l /\ l < j + 1 /\ Creates(P[l], id)
    BY <1>0 DEF Known, SeenIsCreated
  <2>2. i \in Nat /\ j \in Nat /\ l \in Nat /\ l - 1 \in DOMAIN Q /\ Q[l - 1] = P[l]
    BY <1>0, <1>00, <2>1
  <2> QED BY <2>1, <2>2
<1>3. BareIsKnown(Q, id, 0)
  <2> SUFFICES ASSUME NEW j \in DOMAIN Q, Sees(Q[j], id)
               PROVE  \E l \in DOMAIN Q : l < j /\ Supplies(Q[l], id)
    BY DEF BareIsKnown
  <2>0. j \in Nat /\ 1 < j + 1 /\ j + 1 \in DOMAIN P /\ Sees(P[j + 1], id)
    BY <1>0 DEF Leaves
  <2>1. PICK l \in DOMAIN P : 1 < l /\ l < j + 1 /\ Creates(P[l], id)
    BY <1>000, <2>0 DEF Known, SeenIsCreated
  <2>2. P[j + 1].done
    BY <2>0 DEF AnswersAreRows, Sees
  <2>3. P[l].done
    BY <2>0, <2>1, <2>2 DEF InOrder
  <2>4. l \in Nat /\ l - 1 \in DOMAIN Q /\ Q[l - 1] = P[l]
    BY <1>00, <2>1
  <2> QED BY <2>0, <2>1, <2>3, <2>4 DEF Supplies
<1>4. SentIsKnown(Q, id, r[id], st, 0)
  <2> SUFFICES ASSUME IsLive(r[id])
               PROVE  \E l \in DOMAIN Q : Supplies(Q[l], id)
    BY DEF SentIsKnown
  <2>1. PICK l \in DOMAIN P : 1 < l /\ P[l].done /\ Creates(P[l], id)
    BY <1>000 DEF RemovedStaysRemoved
  <2>2. l - 1 \in DOMAIN Q /\ Q[l - 1] = P[l]
    BY <1>00, <2>1
  <2> QED BY <2>1, <2>2 DEF Supplies
<1> QED BY <1>1, <1>2, <1>3, <1>4 DEF Known, UpdatesMeetRecords

(* The last writes of what is left of the queue. *)
LEMMA WritesLeave ==
    ASSUME NEW P, NEW Q, NEW N, NEW id, NEW tn,
           N \in Nat, Leaves(P, Q, N)
    PROVE  /\ \A k \in DOMAIN Q : k \in Nat /\ k + 1 \in DOMAIN P /\ Q[k] = P[k + 1]
           /\ \A k \in DOMAIN P : k \in Nat /\ (k = 1 \/ (k - 1 \in DOMAIN Q /\ Q[k - 1] = P[k]))
           /\ 1 \in DOMAIN P /\ P[1].done
           /\ \A k \in DOMAIN Q : IsLastWrite(Q, k, id) => IsLastWrite(P, k + 1, id)
           /\ (P[1].ok \/ P[1].call.id # id) /\ Sound(Q, tn, id) => Sound(P, tn, id)
           /\ (\A k \in DOMAIN Q : ~Writes(Q[k], id)) =>
                \A k \in DOMAIN P : k # 1 => ~Writes(P[k], id)
           /\ (\A k \in DOMAIN Q : ~Writes(Q[k], id)) /\ Writes(P[1], id) =>
                IsLastWrite(P, 1, id)
<1>1. \A k \in DOMAIN Q : k \in Nat /\ k + 1 \in DOMAIN P /\ Q[k] = P[k + 1]
  BY DEF Leaves
<1>2. \A k \in DOMAIN P : k \in Nat /\ (k = 1 \/ (k - 1 \in DOMAIN Q /\ Q[k - 1] = P[k]))
  BY DEF Leaves
<1>3. 1 \in DOMAIN P /\ P[1].done
  BY DEF Leaves
<1>4. \A k \in DOMAIN Q : IsLastWrite(Q, k, id) => IsLastWrite(P, k + 1, id)
  <2> SUFFICES ASSUME NEW k \in DOMAIN Q, IsLastWrite(Q, k, id),
                      NEW l \in DOMAIN P, l > k + 1, Writes(P[l], id)
               PROVE  FALSE
    BY <1>1 DEF IsLastWrite
  <2>1. k \in Nat /\ l \in Nat /\ l - 1 \in DOMAIN Q /\ Q[l - 1] = P[l]
    BY <1>1, <1>2
  <2>2. l - 1 > k
    BY <2>1
  <2> QED BY <2>1, <2>2 DEF IsLastWrite
<1>5. (P[1].ok \/ P[1].call.id # id) /\ Sound(Q, tn, id) => Sound(P, tn, id)
  BY <1>2 DEF Sound
<1>6. (\A k \in DOMAIN Q : ~Writes(Q[k], id)) => \A k \in DOMAIN P : k # 1 => ~Writes(P[k], id)
  BY <1>2
<1>7. (\A k \in DOMAIN Q : ~Writes(Q[k], id)) /\ Writes(P[1], id) => IsLastWrite(P, 1, id)
  BY <1>2, <1>6 DEF IsLastWrite
<1> QED BY <1>1, <1>2, <1>3, <1>4, <1>5, <1>6, <1>7

(* The head is gone: the Model m2 cached now, of mods2, is as before where a
   later call is of it, and what the table holds when none writes it.          *)
LEMMA CurrentLeaves ==
    ASSUME NEW P, NEW Q, NEW N, NEW id, NEW row, NEW mods, NEW mods2,
           NEW m, NEW m2, NEW tn, NEW tn2,
           N \in Nat, Current(P, id, row, mods, m, tn), Leaves(P, Q, N),
           Sound(Q, tn2, id) => Sound(P, tn, id),
           \A k \in DOMAIN Q : Creates(Q[k], id) =>
             mods2[Q[k].call.model].ver = mods[Q[k].call.model].ver,
           m2 = 0 \/ (m2 = m /\ mods2[m2] = mods[m]) \/ \A k \in DOMAIN Q : ~Writes(Q[k], id),
           (m2 = m /\ mods2[m2] = mods[m]) \/ \A k \in DOMAIN Q : ~Updates(Q[k], id),
           m2 # 0 /\ Sound(P, tn, id) /\ (\A k \in DOMAIN Q : ~Writes(Q[k], id)) =>
             row = RowOf(mods2[m2]) \/ (mods2[m2].status = "deleted" /\ row = NoRow)
    PROVE  Current(Q, id, row, mods2, m2, tn2)
<1>1. \A k \in DOMAIN Q : k \in Nat /\ k + 1 \in DOMAIN P /\ Q[k] = P[k + 1]
  BY DEF Leaves
<1>2. \A k \in DOMAIN P : k \in Nat /\ (k = 1 \/ (k - 1 \in DOMAIN Q /\ Q[k - 1] = P[k]))
  BY DEF Leaves
<1>3. \A k \in DOMAIN Q : IsLastWrite(Q, k, id) => IsLastWrite(P, k + 1, id)
  BY WritesLeave
<1>4. CreationsAreNew(Q, id, mods2)
  BY <1>1 DEF Current, CreationsAreNew
<1>5. ShownIsCurrent(Q, id, row)
  <2> SUFFICES ASSUME NEW j \in DOMAIN Q, NEW x \in Q[j].found, x.id = id, ~x.bare, x.row # row
               PROVE  \E l \in DOMAIN Q : l > j /\ Q[l].done /\ Writes(Q[l], id)
    BY DEF ShownIsCurrent
  <2>1. PICK l \in DOMAIN P : l > j + 1 /\ P[l].done /\ Writes(P[l], id)
    BY <1>1 DEF Current, ShownIsCurrent
  <2>2. j \in Nat /\ l \in Nat /\ l - 1 \in DOMAIN Q /\ Q[l - 1] = P[l]
    BY <1>1, <1>2, <2>1
  <2> QED BY <2>1, <2>2
<1>6. DestroyedIsDeleted(Q, id, row, mods2, m2, tn2)
  <2> SUFFICES ASSUME NEW k \in DOMAIN Q,
                      Q[k].call.op = "destroyDeletedRecords", Q[k].call.id = id
               PROVE  /\ \A i \in DOMAIN Q : i < k => ~Writes(Q[i], id)
                      /\ Q[k].done \/ row.deleted
                      /\ \A j \in DOMAIN Q : j < k =>
                           \A x \in Q[j].found : x.id = id /\ ~x.bare => x.row.deleted
                      /\ m2 # 0 /\ IsLastWrite(Q, k, id) /\ Sound(Q, tn2, id) =>
                           mods2[m2].status = "deleted"
    BY DEF DestroyedIsDeleted
  <2>1. /\ \A i \in DOMAIN P : i < k + 1 => ~Writes(P[i], id)
        /\ Q[k].done \/ row.deleted
        /\ \A j \in DOMAIN P : j < k + 1 =>
             \A x \in P[j].found : x.id = id /\ ~x.bare => x.row.deleted
        /\ m # 0 /\ IsLastWrite(P, k + 1, id) /\ Sound(P, tn, id) => mods[m].status = "deleted"
    BY <1>1 DEF Current, DestroyedIsDeleted
  <2>2. \A i \in DOMAIN Q : i < k => i + 1 \in DOMAIN P /\ i + 1 < k + 1 /\ Q[i] = P[i + 1]
    BY <1>1
  <2>3. Writes(Q[k], id)
    BY DEF Writes
  <2>4. m2 # 0 => m2 = m /\ mods2[m2] = mods[m]
    BY <2>3
  <2> QED BY <1>3, <2>1, <2>2, <2>4
<1>7. LastIsStored(Q, id, row, tn2)
  BY <1>1, <1>3 DEF Current, LastIsStored
<1>8. LastIsCached(Q, id, mods2, m2, tn2)
  BY <1>1, <1>3 DEF Current, LastIsCached
<1>9. CachedIsStored(Q, id, row, mods2, m2, tn2)
  BY DEF CachedIsStored
<1> QED BY <1>4, <1>5, <1>6, <1>7, <1>8, <1>9 DEF Current

(* Nothing is left of the record on either side. *)
LEMMA CurrentEmptied ==
    ASSUME NEW Q, NEW id, NEW row, NEW mods, NEW tn,
           \A k \in DOMAIN Q : Q[k].call = Plain("clearCachedRecords") /\ Q[k].found = {}
    PROVE  /\ Current(Q, id, row, mods, 0, tn)
           /\ Known(Q, id, row, 0)
<1>1. \A k \in DOMAIN Q : Q[k].call.op = "clearCachedRecords"
  BY DEF Plain
<1>2. \A k \in DOMAIN Q :
        ~Writes(Q[k], id) /\ ~Creates(Q[k], id) /\ ~Updates(Q[k], id) /\ ~Sees(Q[k], id)
  BY <1>1 DEF Writes, Creates, Updates, Sees
<1>3. Known(Q, id, row, 0)
  BY <1>2 DEF Known, UpdatesMeetRecords, SeenIsCreated, BareIsKnown
<1>4. CreationsAreNew(Q, id, mods) /\ ShownIsCurrent(Q, id, row)
  BY <1>2 DEF CreationsAreNew, ShownIsCurrent
<1>5. DestroyedIsDeleted(Q, id, row, mods, 0, tn)
  BY <1>1 DEF DestroyedIsDeleted
<1>6. /\ LastIsStored(Q, id, row, tn)
      /\ LastIsCached(Q, id, mods, 0, tn)
      /\ CachedIsStored(Q, id, row, mods, 0, tn)
  BY <1>2 DEF LastIsStored, LastIsCached, CachedIsStored, IsLastWrite
<1> QED BY <1>3, <1>4, <1>5, <1>6 DEF Current

(* What the driver takes for sent after a call. *)
LEMMA SentIs ==
    ASSUME NEW d, NEW c, d \in Drivers, c \in Call
    PROVE  /\ c.op = "find" => Executed(d, c).sent =
                IF d.rows[c.id] # NoRow THEN d.sent \cup {c.id} ELSE d.sent
           /\ c.op = "query" =>
                Executed(d, c).sent = d.sent \cup {id \in Id : IsLive(d.rows[id])}
           /\ c.op \in {"destroyPermanently", "destroyDeletedRecords"} =>
                Executed(d, c).sent \subseteq d.sent
<1>a. d = [adapter |-> d.adapter, rows |-> d.rows, sent |-> d.sent]
  BY DEF Drivers
<1>q. ASSUME NEW st
      PROVE  [d EXCEPT !.sent = st].sent = st
  BY <1>a
<1>1. CASE c.op = "find"
  <2>1. PICK st : st = d.sent \cup {c.id}
    OBVIOUS
  <2>2. Executed(d, c) = IF d.rows[c.id] # NoRow THEN [d EXCEPT !.sent = st] ELSE d
    BY <1>1, <2>1 DEF Executed
  <2> QED BY <1>1, <1>q, <2>1, <2>2
<1>2. CASE c.op = "query"
  <2>1. PICK st : st = d.sent \cup {id \in Id : IsLive(d.rows[id])}
    OBVIOUS
  <2>2. Executed(d, c) = [d EXCEPT !.sent = st]
    BY <1>2, <2>1 DEF Executed
  <2> QED BY <1>2, <1>q, <2>1, <2>2
<1>p. PICK x : x = Put(d, c.id, NoRow)
  OBVIOUS
<1>r. x = [adapter |-> d.adapter, rows |-> [d.rows EXCEPT ![c.id] = NoRow], sent |-> d.sent]
  BY <1>a, <1>p DEF Put
<1>s. ASSUME NEW st
      PROVE  [x EXCEPT !.sent = st].sent = st
  BY <1>r
<1>3. CASE c.op = "destroyPermanently"
  <2>1. PICK st : st = d.sent \ {c.id}
    OBVIOUS
  <2>2. Executed(d, c) = [x EXCEPT !.sent = st]
    BY <1>3, <1>p, <1>r, <2>1 DEF Executed
  <2> QED BY <1>3, <1>s, <2>1, <2>2
<1>4. CASE c.op = "destroyDeletedRecords"
  <2>1. PICK st : st = IF Loki THEN d.sent \ {c.id} ELSE d.sent
    OBVIOUS
  <2>2. Executed(d, c) = [x EXCEPT !.sent = st]
    BY <1>4, <1>p, <1>r, <2>1 DEF Executed
  <2> QED BY <1>4, <1>s, <2>1, <2>2
<1> QED BY <1>1, <1>2, <1>3, <1>4

(* What is in an answer, and how. *)
LEMMA FoundFits ==
    ASSUME NEW d, NEW c, d \in Drivers, c \in Call
    PROVE  /\ \A x \in FoundIn(d, c) : c.op = "query" => IsLive(x.row)
           /\ \A x \in FoundIn(d, c) : c.op = "find" => x.id = c.id
           /\ \A id \in Id : /\ id \notin d.sent /\ IsLive(d.rows[id])
                             /\ c.op = "query" \/ (c.op = "find" /\ id = c.id)
                => \E x \in FoundIn(d, c) : x.id = id /\ ~x.bare /\ IsLive(x.row)
<1>b. ASSUME NEW ids, NEW x \in FoundBy(d, ids)
      PROVE  x.id \in ids /\ x.row = d.rows[x.id]
  BY DEF FoundBy
<1>c. ASSUME NEW ids, NEW id \in ids
      PROVE  \E x \in FoundBy(d, ids) :
               x.id = id /\ (x.bare <=> id \in d.sent) /\ x.row = d.rows[id]
  <2>1. PICK x : x = [id |-> id, bare |-> id \in d.sent, row |-> d.rows[id]]
    OBVIOUS
  <2>2. x \in FoundBy(d, ids)
    BY <2>1 DEF FoundBy
  <2>3. x.id = id /\ (x.bare <=> id \in d.sent) /\ x.row = d.rows[id]
    BY <2>1
  <2> QED BY <2>2, <2>3
<1>1. CASE c.op = "find"
  <2>1. FoundIn(d, c) = IF d.rows[c.id] # NoRow \/ c.id \in d.sent THEN FoundBy(d, {c.id}) ELSE {}
    BY <1>1 DEF FoundIn
  <2>2. \A x \in FoundIn(d, c) : x.id = c.id
    BY <1>b, <2>1
  <2>3. ASSUME NEW id \in Id, id \notin d.sent, IsLive(d.rows[id]), id = c.id
        PROVE  \E x \in FoundIn(d, c) : x.id = id /\ ~x.bare /\ IsLive(x.row)
    <3>1. FoundIn(d, c) = FoundBy(d, {c.id})
      BY <2>1, <2>3 DEF IsLive
    <3>2. id \in {c.id}
      BY <2>3
    <3>3. PICK x \in FoundBy(d, {c.id}) :
                 x.id = id /\ (x.bare <=> id \in d.sent) /\ x.row = d.rows[id]
      BY <1>c, <3>2
    <3> QED BY <2>3, <3>1, <3>3
  <2> QED BY <1>1, <2>2, <2>3
<1>2. CASE c.op = "query"
  <2>1. PICK ids : ids = {id \in Id : IsLive(d.rows[id])} /\ FoundIn(d, c) = FoundBy(d, ids)
    BY <1>2 DEF FoundIn
  <2>2. \A x \in FoundIn(d, c) : IsLive(x.row)
    BY <1>b, <2>1
  <2>3. ASSUME NEW id \in Id, id \notin d.sent, IsLive(d.rows[id])
        PROVE  \E x \in FoundIn(d, c) : x.id = id /\ ~x.bare /\ IsLive(x.row)
    <3>1. id \in ids
      BY <2>1, <2>3
    <3>2. PICK x \in FoundBy(d, ids) :
                 x.id = id /\ (x.bare <=> id \in d.sent) /\ x.row = d.rows[id]
      BY <1>c, <3>1
    <3> QED BY <2>1, <2>3, <3>2
  <2> QED BY <1>2, <2>2, <2>3
<1>3. CASE c.op \notin {"find", "query"}
  BY <1>3 DEF FoundIn
<1> QED BY <1>1, <1>2, <1>3

WriteOps == {"create", "update", "destroyPermanently", "destroyDeletedRecords"}

(* What a call does to one record. *)
LEMMA EffectOn ==
    ASSUME NEW d, NEW c, NEW id, NEW d2,
           d \in Drivers, c \in Call, id \in Id,
           c.op \notin {"query", "clearCachedRecords", "unsafeResetDatabase"} => c.id \in Id,
           c.op = "update" /\ c.id = id => d.rows[id] # NoRow, d2 = Executed(d, c)
    PROVE  /\ c.op \in WriteOps /\ c.id = id => d2.rows[id] = Left(c)
           /\ c.op \in {"find", "query", "clearCachedRecords"} \/ (c.op \in WriteOps /\ c.id # id)
                => d2.rows[id] = d.rows[id]
           /\ id \in d2.sent /\ IsLive(d2.rows[id]) =>
                \/ id \in d.sent /\ IsLive(d.rows[id])
                \/ \E x \in FoundIn(d, c) : x.id = id /\ ~x.bare /\ IsLive(x.row)
                \/ c.id = id /\ c.op \in {"create", "update"}
           /\ c.op = "update" => d2.sent = d.sent
           /\ c.op = "unsafeResetDatabase" => id \notin d2.sent
<1>a. d.rows \in [Id -> Row \cup {NoRow}] /\ c.op \in Ops
  BY DEF Drivers, Call
<1>1. /\ c.op \in {"find", "query", "clearCachedRecords"} => d2.rows = d.rows
      /\ c.op = "create" => /\ d2.rows = [d.rows EXCEPT ![c.id] = c.row]
                            /\ d2.sent = d.sent \cup {c.id}
      /\ c.op = "update" => d2.rows = IF d.rows[c.id] = NoRow THEN d.rows
                                      ELSE [d.rows EXCEPT ![c.id] = c.row]
      /\ c.op = "update" => d2.sent = d.sent
      /\ c.op \in {"destroyPermanently", "destroyDeletedRecords"} =>
           d2.rows = [d.rows EXCEPT ![c.id] = NoRow]
      /\ c.op \in {"clearCachedRecords", "unsafeResetDatabase"} => d2.sent = {}
  BY ExecutedIs
<1>2. /\ c.op = "find" => d2.sent =
           IF d.rows[c.id] # NoRow THEN d.sent \cup {c.id} ELSE d.sent
      /\ c.op = "query" => d2.sent = d.sent \cup {i \in Id : IsLive(d.rows[i])}
      /\ c.op \in {"destroyPermanently", "destroyDeletedRecords"} => d2.sent \subseteq d.sent
  BY SentIs
<1>3. /\ id \notin d.sent /\ IsLive(d.rows[id])
      /\ c.op = "query" \/ (c.op = "find" /\ id = c.id)
      => \E x \in FoundIn(d, c) : x.id = id /\ ~x.bare /\ IsLive(x.row)
  BY FoundFits
<1>4. c.op \in WriteOps /\ c.id = id => d2.rows[id] = Left(c)
  BY <1>a, <1>1 DEF WriteOps, Left
<1>5. c.op \in {"find", "query", "clearCachedRecords"} \/ (c.op \in WriteOps /\ c.id # id)
        => d2.rows[id] = d.rows[id]
  BY <1>a, <1>1 DEF WriteOps
<1>6. ASSUME id \in d2.sent, IsLive(d2.rows[id])
      PROVE  \/ id \in d.sent /\ IsLive(d.rows[id])
             \/ \E x \in FoundIn(d, c) : x.id = id /\ ~x.bare /\ IsLive(x.row)
             \/ c.id = id /\ c.op \in {"create", "update"}
  <2>1. CASE c.op \in {"find", "query"}
    BY <1>1, <1>2, <1>3, <1>6, <2>1
  <2>2. CASE c.op \in {"create", "update"}
    BY <1>1, <1>5, <1>6, <2>2 DEF WriteOps
  <2>3. CASE c.op \in {"destroyPermanently", "destroyDeletedRecords"}
    <3>1. c.id # id
      BY <1>4, <1>6, <2>3 DEF WriteOps, Left, IsLive
    <3> QED BY <1>2, <1>5, <1>6, <2>3, <3>1 DEF WriteOps
  <2>4. CASE c.op \in {"clearCachedRecords", "unsafeResetDatabase"}
    BY <1>1, <1>6, <2>4
  <2> QED BY <1>a, <2>1, <2>2, <2>3, <2>4 DEF Ops
<1> QED BY <1>1, <1>4, <1>5, <1>6

(* The driver takes its next call, whatever it makes of it. *)
LEMMA RunCoheres ==
    ASSUME NEW P, NEW Q, NEW N, NEW n, NEW d, NEW d2, NEW c, NEW a,
           NEW ms, NEW ch, NEW tn, NEW rs,
           N \in Nat, d \in Drivers, c \in Call, rs \in BOOLEAN,
           c.op \notin {"query", "clearCachedRecords", "unsafeResetDatabase"} => c.id \in Id,
           c.op \in {"create", "update"} => c.row \in Row,
           Coheres(P, d, ms, ch, tn, rs), P[n].call = c,
           Reaches(P, Q, N, n, Answered(a)), Execute(d, c, d2, a),
           d.adapter = "sqliteSync" => c.op \notin {"find", "query"},
           With(Q, d2, ms, ch, rs)
    PROVE  Coheres(Q, d2, ms, ch, tn, rs)
<1> DEFINE e == Answered(a)
<1>e. ASSUME NEW ok \in BOOLEAN, NEW fnd, a = [call |-> c, ok |-> ok, found |-> fnd]
      PROVE  e.call = c /\ e.ok = ok /\ e.found = fnd
  BY <1>e DEF Answered
<1>r. Reaches(P, Q, N, n, e)
  OBVIOUS
<1> HIDE DEF e
<1>a. c.op \in Ops /\ \A id \in Id : Known(P, id, d.rows[id], ch[id])
  BY DEF Call, Coheres
<1>b. AnswersAreRows(Q) /\ RemovedStaysRemoved(Q, d2.rows) /\ ResetIsLast(Q, d2.rows, d2.sent, rs)
  BY DEF With, Lives
<1>c. AnswersFit(P) /\ (d.adapter = "sqliteSync" => \A k \in DOMAIN P : P[k].found = {})
  BY DEF Coheres
<1>d. d.adapter # "sqliteSync" => \A id \in Id : SentIsKnown(P, id, d.rows[id], d.sent, ch[id])
  BY DEF Coheres
<1>f. ~rs => \A id \in Id : Current(P, id, d.rows[id], ms[id], ch[id], tn)
  BY DEF Coheres
<1>1. CASE d2 = d /\ a = [call |-> c, ok |-> FALSE, found |-> {}] /\ MayFail(d, c)
  <2>1. e.call = c /\ ~e.ok /\ e.found = {} /\ IsBatch(c)
    BY <1>1, <1>e DEF MayFail, MustFail, IsBatch
  <2>2. AnswersFit(Q) /\ (d.adapter = "sqliteSync" => \A k \in DOMAIN Q : Q[k].found = {})
    BY <1>c, <1>r, <2>1, FitRuns
  <2>3. ASSUME NEW id \in Id
        PROVE  Known(Q, id, d.rows[id], ch[id])
    BY <1>a, <1>b, <1>r, <2>1, KnownRunsFailed
  <2>4. ASSUME NEW id \in Id, d.adapter # "sqliteSync"
        PROVE  SentIsKnown(Q, id, d.rows[id], d.sent, ch[id])
    BY <1>d, <1>r, <2>4, SentRuns
  <2>5. ASSUME NEW id \in Id, ~rs
        PROVE  Current(Q, id, d.rows[id], ms[id], ch[id], tn)
    <3>1. CASE c.id = id
      BY <1>f, <1>r, <2>1, <2>5, <3>1, CurrentRunsFailed
    <3>2. CASE c.id # id
      <4>1. ~Writes(e, id)
        BY <2>1, <3>2 DEF Writes
      <4> QED BY <1>f, <1>r, <2>1, <2>5, <3>2, <4>1, CurrentRunsQuiet
    <3> QED BY <3>1, <3>2
  <2> QED BY <1>1, <2>2, <2>3, <2>4, <2>5 DEF Coheres
<1>2. CASE d2 = Executed(d, c) /\ a = [call |-> c, ok |-> TRUE, found |-> FoundIn(d, c)] /\ ~MustFail(d, c)
  <2>1. e.call = c /\ e.ok /\ e.found = FoundIn(d, c)
    BY <1>2, <1>e
  <2>2. /\ \A x \in e.found : c.op = "query" => IsLive(x.row)
        /\ \A x \in e.found : c.op = "find" => x.id = c.id
    BY <2>1, FoundFits
  <2>3. /\ \A x \in e.found : x.row = d.rows[x.id] /\ (x.bare <=> x.id \in d.sent)
        /\ c.op \notin {"find", "query"} => e.found = {}
    BY <2>1, FoundInIs
  <2>4. /\ AnswersFit(Q) /\ d2.adapter = d.adapter
        /\ d.adapter = "sqliteSync" => \A k \in DOMAIN Q : Q[k].found = {}
    <3>1. AnswersFit(Q) /\ (d.adapter = "sqliteSync" => \A k \in DOMAIN Q : Q[k].found = {})
      BY <1>c, <1>r, <2>1, <2>2, <2>3, FitRuns
    <3> QED BY <1>2, <3>1, ExecutedIs
  <2>u. c.op = "update" => d.rows[c.id] # NoRow
    <3> SUFFICES ASSUME c.op = "update" PROVE d.rows[c.id] # NoRow
      OBVIOUS
    <3>1. n \in DOMAIN P /\ Updates(P[n], c.id) /\ ~P[n].done /\ c.id \in Id
      BY DEF Reaches, Runs, Updates
    <3> QED BY <1>a, <3>1 DEF Known, UpdatesMeetRecords, IsLive
  <2>5. ASSUME NEW id \in Id
        PROVE  /\ Known(Q, id, d2.rows[id], ch[id])
               /\ d.adapter # "sqliteSync" => SentIsKnown(Q, id, d2.rows[id], d2.sent, ch[id])
               /\ ~rs => Current(Q, id, d2.rows[id], ms[id], ch[id], tn)
    <3>1. /\ c.op \in WriteOps /\ c.id = id => d2.rows[id] = Left(c)
          /\ c.op \in {"find", "query", "clearCachedRecords"} \/ (c.op \in WriteOps /\ c.id # id)
               => d2.rows[id] = d.rows[id]
          /\ id \in d2.sent /\ IsLive(d2.rows[id]) =>
               \/ id \in d.sent /\ IsLive(d.rows[id])
               \/ \E x \in FoundIn(d, c) : x.id = id /\ ~x.bare /\ IsLive(x.row)
               \/ c.id = id /\ c.op \in {"create", "update"}
          /\ c.op = "update" => d2.sent = d.sent
          /\ c.op = "unsafeResetDatabase" => id \notin d2.sent
      BY <1>2, <2>u, EffectOn
    <3>k. Known(P, id, d.rows[id], ch[id])
      BY <1>a
    <3>2. d.adapter # "sqliteSync" => SentIsKnown(Q, id, d2.rows[id], d2.sent, ch[id])
      <4> SUFFICES ASSUME d.adapter # "sqliteSync"
                   PROVE  SentIsKnown(Q, id, d2.rows[id], d2.sent, ch[id])
        OBVIOUS
      <4>1. SentIsKnown(P, id, d.rows[id], d.sent, ch[id])
        BY <1>d
      <4>2. ASSUME id \in d2.sent, IsLive(d2.rows[id])
            PROVE  (id \in d.sent /\ IsLive(d.rows[id])) \/ Shows(e, id) \/ Creates(e, id)
        <5>1. CASE id \in d.sent /\ IsLive(d.rows[id])
          BY <5>1
        <5>2. CASE \E x \in FoundIn(d, c) : x.id = id /\ ~x.bare /\ IsLive(x.row)
          BY <2>1, <5>2 DEF Shows
        <5>3. CASE c.id = id /\ c.op = "create"
          BY <2>1, <5>3 DEF Creates
        <5>4. CASE c.id = id /\ c.op = "update"
          <6>1. n \in DOMAIN P /\ Updates(P[n], id) /\ ~P[n].done
            BY <5>4 DEF Reaches, Runs, Updates
          <6> QED BY <3>1, <3>k, <4>2, <5>4, <6>1 DEF Known, UpdatesMeetRecords
        <5> QED BY <3>1, <4>2, <5>1, <5>2, <5>3, <5>4
      <4> QED BY <1>r, <4>1, <4>2, SentRuns
    <3>3. CASE ~Writes(e, id) /\ c.op # "unsafeResetDatabase"
      <4>1. d2.rows[id] = d.rows[id]
        BY <1>a, <2>1, <3>1, <3>3 DEF Writes, WriteOps, Ops
      <4>2. PICK r : r = d2.rows
        OBVIOUS
      <4>3. RemovedStaysRemoved(Q, r) /\ r[id] = d.rows[id]
        BY <1>b, <4>1, <4>2
      <4>4. \A x \in e.found : x.id = id => x.row = r[id] /\ (x.bare => id \in d.sent)
        BY <2>3, <4>3
      <4>5. e.found = {} \/ SentIsKnown(P, id, r[id], d.sent, ch[id])
        BY <1>d, <2>3, <4>3
      <4>6. Known(P, id, r[id], ch[id])
        BY <3>k, <4>3
      <4>7. Known(Q, id, r[id], ch[id])
        BY <1>r, <3>3, <4>3, <4>4, <4>5, <4>6, KnownRunsQuiet
      <4>8. ~rs => Current(Q, id, d.rows[id], ms[id], ch[id], tn)
        BY <1>f, <1>r, <2>1, <2>3, <3>3, CurrentRunsQuiet
      <4> QED BY <3>2, <4>1, <4>2, <4>7, <4>8
    <3>4. CASE Writes(e, id)
      <4>1. c.op \in WriteOps /\ c.id = id /\ e.found = {} /\ d2.rows[id] = Left(e.call)
        BY <2>1, <2>3, <3>1, <3>4 DEF Writes, WriteOps
      <4>2. c.op = "create" => d.rows[id] = NoRow
        BY <1>2, <4>1 DEF MustFail
      <4>3. c.op = "update" => d2.rows[id] # NoRow
        BY <2>1, <4>1 DEF Left, Row, NoRow
      <4>4. Known(Q, id, d2.rows[id], ch[id])
        BY <1>r, <2>1, <3>4, <3>k, <4>1, <4>2, <4>3, KnownRunsWrite
      <4>5. ~rs => Current(Q, id, d2.rows[id], ms[id], ch[id], tn)
        BY <1>b, <1>f, <1>r, <2>1, <3>4, <4>1, CurrentRunsWrite
      <4> QED BY <3>2, <4>4, <4>5
    <3>5. CASE c.op = "unsafeResetDatabase"
      <4>1. n \in DOMAIN Q /\ Q[n].call.op = "unsafeResetDatabase"
        BY <2>1, <3>5 DEF Reaches, Runs
      <4>2. rs /\ \A k \in DOMAIN Q : k > n => Q[k].call = Plain("clearCachedRecords")
        BY <1>b, <4>1 DEF ResetIsLast
      <4>3. Known(Q, id, d2.rows[id], ch[id])
        BY <1>r, <2>1, <2>3, <3>5, <3>k, <4>2, KnownRunsReset
      <4> QED BY <3>2, <4>2, <4>3
    <3> QED BY <3>3, <3>4, <3>5
  <2> QED BY <2>4, <2>5 DEF Coheres
<1> QED BY <1>1, <1>2 DEF Execute

(* A call joins the queue; of the Models, at most those of its record change. *)
LEMMA JoinCoheres ==
    ASSUME NEW P, NEW Q, NEW N, NEW e, NEW d,
           NEW ms, NEW ms2, NEW ch, NEW tn, NEW rs, NEW rs2,
           N \in Nat, rs \in BOOLEAN, rs2 \in BOOLEAN, rs => rs2,
           Coheres(P, d, ms, ch, tn, rs), Joins(P, Q, N, e),
           ~e.done, e.ok, e.found = {},
           \A id \in Id : Updates(e, id) =>
             ch[id] # 0 /\ IsLive(d.rows[id]) /\ \A i \in DOMAIN P : ~Removes(P[i], id),
           \A id \in Id : ~rs2 /\ ~Writes(e, id) => ms2[id] = ms[id],
           \A id \in Id : ~rs2 /\ Writes(e, id) =>
             /\ \A k \in DOMAIN P : Creates(P[k], id) =>
                  ms2[id][P[k].call.model].ver = ms[id][P[k].call.model].ver
             /\ Creates(e, id) => ms2[id][e.call.model].ver = e.call.row.ver
             /\ Updates(e, id) => RowOf(ms2[id][ch[id]]) = e.call.row
             /\ e.call.op = "destroyDeletedRecords" =>
                  /\ ms2[id] = ms[id] /\ d.rows[id].deleted
                  /\ \A k \in DOMAIN P : ~Writes(P[k], id)
    PROVE  Coheres(Q, d, ms2, ch, tn, rs2)
<1>1. /\ AnswersFit(Q)
      /\ d.adapter = "sqliteSync" => \A k \in DOMAIN Q : Q[k].found = {}
  BY FitJoins DEF Coheres
<1>2. ASSUME NEW id \in Id
      PROVE  Known(Q, id, d.rows[id], ch[id])
  <2>1. Known(P, id, d.rows[id], ch[id])
    BY DEF Coheres
  <2>2. Updates(e, id) =>
          ch[id] # 0 /\ IsLive(d.rows[id]) /\ \A i \in DOMAIN P : ~Removes(P[i], id)
    OBVIOUS
  <2> QED BY <2>1, <2>2, KnownJoins
<1>3. ASSUME NEW id \in Id, d.adapter # "sqliteSync"
      PROVE  SentIsKnown(Q, id, d.rows[id], d.sent, ch[id])
  <2>1. SentIsKnown(P, id, d.rows[id], d.sent, ch[id])
    BY <1>3 DEF Coheres
  <2> QED BY <2>1, SentJoins
<1>4. ASSUME NEW id \in Id, ~rs2
      PROVE  Current(Q, id, d.rows[id], ms2[id], ch[id], tn)
  <2>1. PICK row, mods, mods2, m :
          row = d.rows[id] /\ mods = ms[id] /\ mods2 = ms2[id] /\ m = ch[id]
    OBVIOUS
  <2>2. Current(P, id, row, mods, m, tn)
    BY <1>4, <2>1 DEF Coheres
  <2>3. CASE ~Writes(e, id)
    <3>1. mods2 = mods
      BY <1>4, <2>1, <2>3
    <3>2. Current(Q, id, row, mods, m, tn)
      BY <2>2, <2>3, CurrentJoinsQuiet
    <3> QED BY <2>1, <3>1, <3>2
  <2>4. CASE Writes(e, id)
    <3>1. /\ \A k \in DOMAIN P : Creates(P[k], id) =>
               mods2[P[k].call.model].ver = mods[P[k].call.model].ver
          /\ Creates(e, id) => mods2[e.call.model].ver = e.call.row.ver
          /\ Updates(e, id) => RowOf(mods2[m]) = e.call.row
          /\ e.call.op = "destroyDeletedRecords" =>
               mods2 = mods /\ row.deleted /\ \A k \in DOMAIN P : ~Writes(P[k], id)
      BY <1>4, <2>1, <2>4
    <3>2. Current(Q, id, row, mods2, m, tn)
      BY <2>2, <2>4, <3>1, CurrentJoinsWrite
    <3> QED BY <2>1, <3>2
  <2> QED BY <2>3, <2>4
<1> QED BY <1>1, <1>2, <1>3, <1>4 DEF Coheres

(* What Send() leaves, when the queue with the call at its end coheres. *)
LEMMA SendCoheres ==
    ASSUME NEW aq, NEW cq, NEW d, NEW c,
           NEW aq2, NEW cq2, NEW d2, NEW ms, NEW ch, NEW tn, NEW rs,
           aq \in Seq(Answer), cq \in Seq(Call), d \in Drivers, c \in Call, rs \in BOOLEAN,
           c.op \notin {"query", "clearCachedRecords", "unsafeResetDatabase"} => c.id \in Id,
           c.op \in {"create", "update"} => c.row \in Row,
           d.adapter = "sqliteSync" => cq = <<>> /\ c.op \notin {"find", "query"},
           Coheres(LineOf(aq, Append(cq, c)), d, ms, ch, tn, rs),
           With(LineOf(aq2, cq2), d2, ms, ch, rs),
           IF d.adapter = "sqliteSync"
           THEN \E ok \in BOOLEAN :
                  LET a == [call |-> c, ok |-> ok, found |-> {}] IN
                  /\ Execute(d, c, d2, a) /\ aq2 = Append(aq, a) /\ cq2 = cq
           ELSE cq2 = Append(cq, c) /\ aq2 = aq /\ d2 = d
    PROVE  Coheres(LineOf(aq2, cq2), d2, ms, ch, tn, rs)
<1>1. CASE d.adapter # "sqliteSync"
  BY <1>1
<1>2. CASE d.adapter = "sqliteSync"
  <2>1. PICK ok \in BOOLEAN : LET a == [call |-> c, ok |-> ok, found |-> {}] IN
                                /\ Execute(d, c, d2, a) /\ aq2 = Append(aq, a) /\ cq2 = cq
    BY <1>2
  <2> DEFINE a == [call |-> c, ok |-> ok, found |-> {}]
             cs == Append(cq, c)
             P  == LineOf(aq, cs)
             Q  == LineOf(aq2, cq2)
  <2>2. a \in Answer /\ a.call = c
    BY DEF Answer
  <2>e. cq = <<>>
    BY <1>2
  <2>f. cs = <<c>>
    BY <2>e
  <2>3. /\ cs \in Seq(Call) /\ cs # <<>> /\ Head(cs) = c /\ Tail(cs) = cq
        /\ Len(cs) = 1 /\ cs[1] = c /\ Len(aq) \in Nat
    BY <2>e, <2>f
  <2>4. Execute(d, c, d2, a) /\ aq2 = Append(aq, a) /\ cq2 = Tail(cs)
    BY <2>1, <2>3
  <2> HIDE DEF a, cs
  <2>5. Runs(P, Q, Len(aq) + Len(cs), Len(aq) + 1, Answered(a))
    BY <2>2, <2>3, <2>4, LineRuns
  <2>6. P[Len(aq) + 1] = Waiting(c)
    <3>1. Len(aq) + 1 \in 1..(Len(aq) + Len(cs)) /\ Len(aq) + 1 > Len(aq) /\ (Len(aq) + 1) - Len(aq) = 1
      BY <2>3
    <3>2. P[Len(aq) + 1] = Waiting(cs[(Len(aq) + 1) - Len(aq)])
      BY <2>3, <3>1, LineShape
    <3> QED BY <2>3, <3>1, <3>2
  <2>7. PICK N, n : N = Len(aq) + Len(cs) /\ n = Len(aq) + 1
    OBVIOUS
  <2>8. N \in Nat /\ n = N
    BY <2>3, <2>7
  <2>9. P[n] = Waiting(c) /\ Runs(P, Q, N, n, Answered(a))
    BY <2>5, <2>6, <2>7
  <2>10. P[n].call = c /\ P[n].ok /\ ~P[n].done
    BY <2>9 DEF Waiting
  <2>11. Coheres(P, d, ms, ch, tn, rs)
    BY DEF cs
  <2>12. With(Q, d2, ms, ch, rs)
    OBVIOUS
  <2> HIDE DEF P, Q
  <2>13. Reaches(P, Q, N, n, Answered(a))
    BY <2>8, <2>9, <2>10 DEF Reaches
  <2>14. Coheres(Q, d2, ms, ch, tn, rs)
    BY <1>2, <2>4, <2>8, <2>10, <2>11, <2>12, <2>13, RunCoheres
  <2> QED BY <2>14 DEF Q
<1> QED BY <1>1, <1>2

-----------------------------------------------------------------------------
(* Each action keeps the caches coherent. *)

LEMMA Coherent ==
    ASSUME CachingInv, "lokiSync" \notin Adapters
    PROVE  /\ driver.adapter = "sqliteSync" => calls = <<>>
           /\ driver.adapter # "lokiSync"
           /\ Synchronous <=> driver.adapter = "sqliteSync"
           /\ With(LineOf(answers, calls), driver, models, cache, resetting)
BY Types DEF CachingInv, Holds, Synchronous

LEMMA SendsCohere ==
    ASSUME NEW c, CachingInv, CachingInv', "lokiSync" \notin Adapters, Send(c), c \in Call,
           c.op \notin {"query", "clearCachedRecords", "unsafeResetDatabase"} => c.id \in Id,
           c.op \in {"create", "update"} => c.row \in Row,
           driver.adapter = "sqliteSync" => c.op \notin {"find", "query"},
           Coheres(LineOf(answers, Append(calls, c)), driver, models', cache', tainted', resetting')
    PROVE  CoherenceInv'
<1>1. /\ driver \in Drivers /\ calls \in Seq(Call) /\ answers \in Seq(Answer)
      /\ driver.adapter # "lokiSync"
      /\ driver.adapter = "sqliteSync" => calls = <<>>
  BY Types, Coherent
<1>2. /\ resetting' \in BOOLEAN
      /\ With(LineOf(answers', calls'), driver', models', cache', resetting')
  BY DEF CachingInv, TypeOK, Holds
<1>4. IF driver.adapter = "sqliteSync"
      THEN \E ok \in BOOLEAN :
             LET a == [call |-> c, ok |-> ok, found |-> {}] IN
             /\ Execute(driver, c, driver', a) /\ answers' = Append(answers, a) /\ calls' = calls
      ELSE calls' = Append(calls, c) /\ answers' = answers /\ driver' = driver
  BY <1>1 DEF Send, Synchronous
<1>3. driver.adapter = "sqliteSync" => calls = <<>> /\ c.op \notin {"find", "query"}
  BY <1>1
<1>5. Coheres(LineOf(answers', calls'), driver', models', cache', tainted', resetting')
  <2>1. PICK aq2, cq2, d2, ms, ch, tn, rs :
          /\ aq2 = answers' /\ cq2 = calls' /\ d2 = driver' /\ ms = models'
          /\ ch = cache' /\ tn = tainted' /\ rs = resetting'
    OBVIOUS
  <2>2. /\ rs \in BOOLEAN /\ With(LineOf(aq2, cq2), d2, ms, ch, rs)
        /\ Coheres(LineOf(answers, Append(calls, c)), driver, ms, ch, tn, rs)
    BY <1>2, <2>1
  <2>3. IF driver.adapter = "sqliteSync"
        THEN \E ok \in BOOLEAN :
               LET a == [call |-> c, ok |-> ok, found |-> {}] IN
               /\ Execute(driver, c, d2, a) /\ aq2 = Append(answers, a) /\ cq2 = calls
        ELSE cq2 = Append(calls, c) /\ aq2 = answers /\ d2 = driver
    BY <1>4, <2>1
  <2>4. Coheres(LineOf(aq2, cq2), d2, ms, ch, tn, rs)
    BY <1>1, <1>3, <2>2, <2>3, SendCoheres
  <2> QED BY <2>1, <2>4
<1> QED BY <1>5 DEF CoherenceInv

LEMMA BatchCoheres ==
    ASSUME NEW op, NEW id0, NEW m, NEW model,
           CachingInv, CachingInv', CoherenceInv, "lokiSync" \notin Adapters,
           id0 \in Id, m \in 1..(Len(models[id0]) + 1),
           op \in {"create", "update", "destroyPermanently"},
           model \in [ver : 1..MaxVersion, status : Statuses],
           Batch(op, id0, m, model),
           m \in DOMAIN models[id0] => models[id0][m].status # "pending",
           op = "update" => m \in DOMAIN models[id0] /\ models[id0][m].status = "live"
    PROVE  CoherenceInv'
<1> DEFINE c == Order(op, id0, m, model)
           P == LineOf(answers, calls)
           Q == LineOf(answers, Append(calls, c))
           N == Len(answers) + Len(calls)
           e == Waiting(c)
<1>0. /\ models \in Models /\ Indexed(models) /\ resetting \in BOOLEAN
      /\ Lives(P, driver.rows, driver.sent, models, cache, resetting)
  BY Types
<1>1. /\ resetting = FALSE /\ resetting' = FALSE /\ Send(c) /\ cache' = cache
      /\ tainted' = tainted /\ Placed(models, models', id0, m, model)
  BY <1>0 DEF Batch, Order, Placed
<1>2. m \in Nat /\ m # 0
  OBVIOUS
<1>3. /\ c \in Call /\ c.op = op /\ c.id = id0 /\ c.model = m
      /\ op # "destroyPermanently" => c.row \in Row
  BY <1>2, OrderIs
<1>4. op # "destroyPermanently" =>
        c.row = [ver |-> model.ver, deleted |-> model.status = "deleted"]
  BY DEF Order
<1>5. Joins(P, Q, N, e) /\ N \in Nat
  BY <1>3, Asked
<1>6. /\ \A id \in Id : id # id0 => models'[id] = models[id]
      /\ models'[id0][m] = model
      /\ \A n \in DOMAIN models[id0] : n # m => models'[id0][n] = models[id0][n]
  BY <1>0, <1>1, Models1
<1>7. e.call = c /\ ~e.done /\ e.ok /\ e.found = {}
  BY DEF Waiting
<1>8. Coheres(P, driver, models, cache, tainted, resetting)
  BY DEF CoherenceInv
<1> HIDE DEF c, P, Q, N, e
<1>9. ASSUME NEW id \in Id, Updates(e, id)
      PROVE  /\ cache[id] # 0 /\ IsLive(driver.rows[id])
             /\ \A i \in DOMAIN P : ~Removes(P[i], id)
  <2>1. id = id0 /\ m \in DOMAIN models[id] /\ models[id][m].status = "live"
    BY <1>3, <1>7, <1>9 DEF Updates
  <2>2. ~NoneLive(models, id)
    BY <2>1 DEF NoneLive
  <2>3. cache[id] = m
    BY <1>0, <2>1 DEF Lives, LiveIsCached
  <2>4. IsLive(driver.rows[id])
    BY <1>0, <1>1, <2>2 DEF Lives, LiveIsStored
  <2>5. \A i \in DOMAIN P : ~Removes(P[i], id)
    BY <1>0, <2>2 DEF Lives, RemovedIsUnused
  <2> QED BY <1>2, <2>3, <2>4, <2>5
<1>10. ASSUME NEW id \in Id, ~Writes(e, id)
       PROVE  models'[id] = models[id]
  BY <1>3, <1>6, <1>7, <1>10 DEF Writes
<1>11. ASSUME NEW id \in Id, Writes(e, id)
       PROVE  /\ \A k \in DOMAIN P : Creates(P[k], id) =>
                   models'[id][P[k].call.model].ver = models[id][P[k].call.model].ver
              /\ Creates(e, id) => models'[id][e.call.model].ver = e.call.row.ver
              /\ Updates(e, id) => RowOf(models'[id][cache[id]]) = e.call.row
              /\ e.call.op # "destroyDeletedRecords"
  <2>1. id = id0
    BY <1>3, <1>7, <1>11 DEF Writes
  <2>2. ASSUME NEW k \in DOMAIN P, Creates(P[k], id)
        PROVE  models'[id][P[k].call.model].ver = models[id][P[k].call.model].ver
    <3>1. /\ P[k].call.model \in DOMAIN models[id]
          /\ models[id][P[k].call.model].status = "pending"
      BY <1>0, <2>2 DEF Lives, CreationsArePending
    <3> QED BY <1>6, <2>1, <3>1
  <2>3. Creates(e, id) => models'[id][e.call.model].ver = e.call.row.ver
    <3> SUFFICES ASSUME Creates(e, id) PROVE models'[id][e.call.model].ver = e.call.row.ver
      OBVIOUS
    <3>1. op = "create"
      BY <1>3, <1>7 DEF Creates
    <3>2. c.row.ver = model.ver
      BY <1>4, <3>1
    <3> QED BY <1>3, <1>6, <1>7, <2>1, <3>2
  <2>4. Updates(e, id) => RowOf(models'[id][cache[id]]) = e.call.row
    <3> SUFFICES ASSUME Updates(e, id) PROVE RowOf(models'[id][cache[id]]) = e.call.row
      OBVIOUS
    <3>1. op = "update" /\ m \in DOMAIN models[id] /\ models[id][m].status = "live"
      BY <1>3, <1>7, <2>1 DEF Updates
    <3>2. cache[id] = m
      BY <1>0, <3>1 DEF Lives, LiveIsCached
    <3>3. RowOf(model) = c.row
      BY <1>4, <3>1 DEF RowOf
    <3> QED BY <1>6, <1>7, <2>1, <3>2, <3>3
  <2> QED BY <1>3, <1>7, <2>2, <2>3, <2>4
<1>12. Coheres(Q, driver, models', cache', tainted', resetting')
  <2>1. PICK ms2, rs2 : ms2 = models' /\ rs2 = resetting'
    OBVIOUS
  <2>2. /\ \A id \in Id : Updates(e, id) =>
             cache[id] # 0 /\ IsLive(driver.rows[id]) /\ \A i \in DOMAIN P : ~Removes(P[i], id)
        /\ \A id \in Id : ~rs2 /\ ~Writes(e, id) => ms2[id] = models[id]
        /\ \A id \in Id : ~rs2 /\ Writes(e, id) =>
             /\ \A k \in DOMAIN P : Creates(P[k], id) =>
                  ms2[id][P[k].call.model].ver = models[id][P[k].call.model].ver
             /\ Creates(e, id) => ms2[id][e.call.model].ver = e.call.row.ver
             /\ Updates(e, id) => RowOf(ms2[id][cache[id]]) = e.call.row
             /\ e.call.op = "destroyDeletedRecords" =>
                  /\ ms2[id] = models[id] /\ driver.rows[id].deleted
                  /\ \A k \in DOMAIN P : ~Writes(P[k], id)
    BY <1>9, <1>10, <1>11, <2>1
  <2>3. rs2 \in BOOLEAN /\ (resetting => rs2)
    BY <1>1, <2>1
  <2>4. Coheres(Q, driver, ms2, cache, tainted, rs2)
    BY <1>0, <1>5, <1>7, <1>8, <2>2, <2>3, JoinCoheres
  <2> QED BY <1>1, <2>1, <2>4
<1> QED BY <1>1, <1>3, <1>12, SendsCohere DEF Q

LEMMA CreateCoheres ==
    ASSUME NEW id0 \in Id, CachingInv, CachingInv', CoherenceInv, "lokiSync" \notin Adapters,
           Create(id0)
    PROVE  CoherenceInv'
<1> DEFINE m == Len(models[id0]) + 1
           model == [ver |-> 1, status |-> "pending"]
<1>1. Len(models[id0]) \in Nat /\ DOMAIN models[id0] = 1..Len(models[id0])
  BY Types DEF Models
<1>2. Batch("create", id0, m, model)
  BY DEF Create
<1>3. m \in 1..(Len(models[id0]) + 1) /\ m \notin DOMAIN models[id0]
  BY <1>1
<1>4. model \in [ver : 1..MaxVersion, status : Statuses]
  BY CachingAssumption DEF Statuses
<1> QED BY <1>2, <1>3, <1>4, BatchCoheres

LEMMA ModelCoheres ==
    ASSUME NEW id0 \in Id, NEW m \in DOMAIN models[id0],
           CachingInv, CachingInv', CoherenceInv, "lokiSync" \notin Adapters,
           Update(id0, m) \/ MarkAsDeleted(id0, m) \/ DestroyPermanently(id0, m)
    PROVE  CoherenceInv'
<1>0. models \in Models
  BY Types
<1>1. /\ m \in Nat /\ m \in 1..(Len(models[id0]) + 1)
      /\ models[id0][m] \in [ver : 1..MaxVersion, status : Statuses]
  BY <1>0, ModelIs
<1>2. CASE Update(id0, m)
  <2> DEFINE model == [models[id0][m] EXCEPT !.ver = @ + 1]
  <2>1. /\ Batch("update", id0, m, model)
        /\ models[id0][m].status = "live" /\ models[id0][m].ver < MaxVersion
    BY <1>2 DEF Update
  <2>2. model \in [ver : 1..MaxVersion, status : Statuses]
    BY <1>1, <2>1, CachingAssumption
  <2> QED BY <1>1, <2>1, <2>2, BatchCoheres
<1>3. CASE MarkAsDeleted(id0, m)
  <2> DEFINE model == [models[id0][m] EXCEPT !.status = "deleted"]
  <2>1. Batch("update", id0, m, model) /\ models[id0][m].status = "live"
    BY <1>3 DEF MarkAsDeleted
  <2>2. model \in [ver : 1..MaxVersion, status : Statuses]
    BY <1>1 DEF Statuses
  <2> QED BY <1>1, <2>1, <2>2, BatchCoheres
<1>4. CASE DestroyPermanently(id0, m)
  <2> DEFINE model == [models[id0][m] EXCEPT !.status = "deleted"]
  <2>1. Batch("destroyPermanently", id0, m, model) /\ models[id0][m].status # "pending"
    BY <1>4 DEF DestroyPermanently
  <2>2. model \in [ver : 1..MaxVersion, status : Statuses]
    BY <1>1 DEF Statuses
  <2> QED BY <1>1, <2>1, <2>2, BatchCoheres
<1> QED BY <1>2, <1>3, <1>4

LEMMA DestroyDeletedCoheres ==
    ASSUME NEW id0 \in Id, CachingInv, CachingInv', CoherenceInv, "lokiSync" \notin Adapters,
           DestroyDeletedRecords(id0)
    PROVE  CoherenceInv'
<1> DEFINE c == [Plain("destroyDeletedRecords") EXCEPT !.id = id0]
           P == LineOf(answers, calls)
           Q == LineOf(answers, Append(calls, c))
           N == Len(answers) + Len(calls)
           e == Waiting(c)
<1>1. /\ driver.rows[id0].deleted /\ Send(c)
      /\ \A x \in UnderWay : x.id = id0 => x.op = "find"
      /\ models' = models /\ cache' = cache /\ tainted' = tainted /\ resetting' = resetting
  BY DEF DestroyDeletedRecords
<1>2. c \in Call /\ c.op = "destroyDeletedRecords" /\ c.id = id0
  BY FindIs DEF Ops
<1>3. Joins(P, Q, N, e) /\ N \in Nat /\ \A k \in DOMAIN P : P[k].call \in UnderWay
  BY <1>2, Asked
<1>4. ~e.done /\ e.ok /\ e.found = {} /\ e.call = c
  BY DEF Waiting
<1>5. Coheres(P, driver, models, cache, tainted, resetting) /\ resetting \in BOOLEAN
  BY Types DEF CoherenceInv
<1> HIDE DEF P, Q, N, c, e
<1>6. \A k \in DOMAIN P : ~Writes(P[k], id0)
  BY <1>1, <1>3 DEF Writes
<1>7. \A id \in Id : ~Updates(e, id) /\ ~Creates(e, id) /\ (Writes(e, id) => id = id0)
  BY <1>2, <1>4 DEF Updates, Creates, Writes
<1>8. Coheres(Q, driver, models, cache, tainted, resetting)
  <2>1. PICK ms : ms = models
    OBVIOUS
  <2>2. \A id \in Id : ~resetting /\ Writes(e, id) =>
          /\ driver.rows[id].deleted
          /\ \A k \in DOMAIN P : ~Writes(P[k], id)
    BY <1>1, <1>6, <1>7
  <2> QED BY <1>3, <1>4, <1>5, <1>7, <2>2, JoinCoheres
<1> QED BY <1>1, <1>2, <1>8, SendsCohere DEF Q

(* A fetch behind a bridge, or a reset. *)
LEMMA QuietCoheres ==
    ASSUME NEW c, CachingInv, CachingInv', CoherenceInv, "lokiSync" \notin Adapters,
           Send(c), c \in Call,
           c.op \in {"find", "query", "unsafeResetDatabase"},
           c.op = "find" => c.id \in Id,
           c.op \in {"find", "query"} => ~Synchronous,
           ~resetting, resetting' \in BOOLEAN,
           UNCHANGED <<models, cache, tainted>>
    PROVE  CoherenceInv'
<1> DEFINE P == LineOf(answers, calls)
           Q == LineOf(answers, Append(calls, c))
           N == Len(answers) + Len(calls)
           e == Waiting(c)
<1>1. Joins(P, Q, N, e) /\ N \in Nat
  BY Asked
<1>2. ~e.done /\ e.ok /\ e.found = {} /\ e.call = c
  BY DEF Waiting
<1>3. Coheres(P, driver, models, cache, tainted, resetting) /\ resetting \in BOOLEAN
  BY Types DEF CoherenceInv
<1> HIDE DEF P, Q, N, e
<1>4. \A id \in Id : ~Updates(e, id) /\ ~Writes(e, id)
  BY <1>2 DEF Updates, Writes
<1>5. Coheres(Q, driver, models', cache', tainted', resetting')
  <2>1. PICK rs2 : rs2 = resetting'
    OBVIOUS
  <2>2. rs2 \in BOOLEAN
    BY <2>1
  <2>3. Coheres(Q, driver, models, cache, tainted, rs2)
    BY <1>1, <1>2, <1>3, <1>4, <2>2, JoinCoheres
  <2> QED BY <2>1, <2>3
<1>6. driver.adapter = "sqliteSync" => c.op \notin {"find", "query"}
  BY Coherent
<1> QED BY <1>5, <1>6, SendsCohere DEF Q

LEMMA ResetCoheres ==
    ASSUME CachingInv, CachingInv', CoherenceInv, "lokiSync" \notin Adapters, Reset
    PROVE  CoherenceInv'
<1>1. /\ ~resetting /\ resetting' = TRUE /\ Send(Plain("unsafeResetDatabase"))
      /\ UNCHANGED <<models, cache, tainted>>
  BY DEF Reset
<1>2. Plain("unsafeResetDatabase") \in Call /\ Plain("unsafeResetDatabase").op = "unsafeResetDatabase"
  BY PlainIs DEF Ops
<1> QED BY <1>1, <1>2, QuietCoheres

(* An answer leaves the queue that is no write of the record. *)
LEMMA LeavesOther ==
    ASSUME NEW P, NEW Q, NEW N, NEW id, NEW row, NEW st, NEW mods, NEW m, NEW tn, NEW tn2,
           N \in Nat, Leaves(P, Q, N), Known(P, id, row, m),
           ~Writes(P[1], id), P[1].ok \/ P[1].call.id # id,
           Shows(P[1], id) => m # 0, id \in tn2 <=> id \in tn
    PROVE  /\ Known(Q, id, row, m)
           /\ SentIsKnown(P, id, row, st, m) => SentIsKnown(Q, id, row, st, m)
           /\ Current(P, id, row, mods, m, tn) => Current(Q, id, row, mods, m, tn2)
<1>1. m # 0 \/ ~Supplies(P[1], id)
  BY DEF Supplies, Writes, Creates
<1>2. /\ Known(Q, id, row, m)
      /\ SentIsKnown(P, id, row, st, m) => SentIsKnown(Q, id, row, st, m)
  BY <1>1, KnownLeaves
<1>3. ASSUME Current(P, id, row, mods, m, tn)
      PROVE  Current(Q, id, row, mods, m, tn2)
  <2>1. /\ (P[1].ok \/ P[1].call.id # id) /\ Sound(Q, tn, id) => Sound(P, tn, id)
        /\ (\A k \in DOMAIN Q : ~Writes(Q[k], id)) =>
                \A k \in DOMAIN P : k # 1 => ~Writes(P[k], id)
    BY WritesLeave
  <2>2. Sound(Q, tn2, id) => Sound(P, tn, id)
    BY <2>1 DEF Sound
  <2>3. m # 0 /\ Sound(P, tn, id) /\ (\A k \in DOMAIN Q : ~Writes(Q[k], id)) =>
          row = RowOf(mods[m]) \/ (mods[m].status = "deleted" /\ row = NoRow)
    BY <1>3, <2>1 DEF Current, CachedIsStored
  <2> QED BY <1>3, <2>2, <2>3, CurrentLeaves
<1> QED BY <1>2, <1>3

(* JavaScript sees that a batch of the record has failed. *)
LEMMA LeavesFailed ==
    ASSUME NEW P, NEW Q, NEW N, NEW id, NEW row, NEW st, NEW mods, NEW m, NEW tn, NEW tn2,
           N \in Nat, Leaves(P, Q, N), Known(P, id, row, m),
           ~P[1].ok, P[1].found = {}, id \in tn2
    PROVE  /\ Known(Q, id, row, m)
           /\ SentIsKnown(P, id, row, st, m) => SentIsKnown(Q, id, row, st, m)
           /\ Current(P, id, row, mods, m, tn) => Current(Q, id, row, mods, m, tn2)
<1>1. ~Supplies(P[1], id)
  BY DEF Supplies, Shows, Creates
<1>2. /\ Known(Q, id, row, m)
      /\ SentIsKnown(P, id, row, st, m) => SentIsKnown(Q, id, row, st, m)
  BY <1>1, KnownLeaves
<1>3. ~Sound(Q, tn2, id)
  BY DEF Sound
<1>4. ASSUME Current(P, id, row, mods, m, tn)
      PROVE  Current(Q, id, row, mods, m, tn2)
  <2>1. \A k \in DOMAIN Q : k \in Nat /\ k + 1 \in DOMAIN P /\ Q[k] = P[k + 1]
    BY DEF Leaves
  <2>2. \A k \in DOMAIN P : k \in Nat /\ (k = 1 \/ (k - 1 \in DOMAIN Q /\ Q[k - 1] = P[k]))
    BY DEF Leaves
  <2>3. CreationsAreNew(Q, id, mods)
    BY <1>4, <2>1 DEF Current, CreationsAreNew
  <2>4. ShownIsCurrent(Q, id, row)
    <3> SUFFICES ASSUME NEW j \in DOMAIN Q, NEW x \in Q[j].found, x.id = id, ~x.bare, x.row # row
                 PROVE  \E l \in DOMAIN Q : l > j /\ Q[l].done /\ Writes(Q[l], id)
      BY DEF ShownIsCurrent
    <3>1. PICK l \in DOMAIN P : l > j + 1 /\ P[l].done /\ Writes(P[l], id)
      BY <1>4, <2>1 DEF Current, ShownIsCurrent
    <3>2. j \in Nat /\ l \in Nat /\ l - 1 \in DOMAIN Q /\ Q[l - 1] = P[l]
      BY <2>1, <2>2, <3>1
    <3> QED BY <3>1, <3>2
  <2>5. DestroyedIsDeleted(Q, id, row, mods, m, tn2)
    <3> SUFFICES ASSUME NEW k \in DOMAIN Q,
                        Q[k].call.op = "destroyDeletedRecords", Q[k].call.id = id
                 PROVE  /\ \A i \in DOMAIN Q : i < k => ~Writes(Q[i], id)
                        /\ Q[k].done \/ row.deleted
                        /\ \A j \in DOMAIN Q : j < k =>
                             \A x \in Q[j].found : x.id = id /\ ~x.bare => x.row.deleted
      BY <1>3 DEF DestroyedIsDeleted
    <3>1. /\ \A i \in DOMAIN P : i < k + 1 => ~Writes(P[i], id)
          /\ Q[k].done \/ row.deleted
          /\ \A j \in DOMAIN P : j < k + 1 =>
               \A x \in P[j].found : x.id = id /\ ~x.bare => x.row.deleted
      BY <1>4, <2>1 DEF Current, DestroyedIsDeleted
    <3>2. \A i \in DOMAIN Q : i < k => i + 1 \in DOMAIN P /\ i + 1 < k + 1 /\ Q[i] = P[i + 1]
      BY <2>1
    <3> QED BY <3>1, <3>2
  <2> QED BY <1>3, <2>3, <2>4, <2>5
          DEF Current, LastIsStored, LastIsCached, CachedIsStored
<1> QED BY <1>2, <1>4

(* JavaScript sees that the record was created: its Model is cached. *)
LEMMA LeavesCreated ==
    ASSUME NEW P, NEW Q, NEW N, NEW id, NEW row, NEW st, NEW mods, NEW mods2, NEW m, NEW m2, NEW tn,
           N \in Nat, Leaves(P, Q, N), Known(P, id, row, m),
           Creates(P[1], id), m2 # 0, P[1].call.model = m2,
           \A k \in DOMAIN P : k > 1 => ~Writes(P[k], id),
           mods2[m2].ver = mods[m2].ver, mods2[m2].status = "live",
           P[1].call.row \in Row, IsLive(P[1].call.row)
    PROVE  /\ Known(Q, id, row, m2)
           /\ SentIsKnown(Q, id, row, st, m2)
           /\ Current(P, id, row, mods, m, tn) => Current(Q, id, row, mods2, m2, tn)
<1>0. \A k \in DOMAIN Q : k \in Nat /\ k + 1 \in DOMAIN P /\ k + 1 > 1 /\ Q[k] = P[k + 1]
  BY DEF Leaves
<1>1. \A k \in DOMAIN Q : ~Writes(Q[k], id)
  BY <1>0
<1>2. \A k \in DOMAIN Q : ~Updates(Q[k], id) /\ ~Creates(Q[k], id)
  BY <1>1 DEF Updates, Creates, Writes
<1>3. SeenIsCreated(Q, id)
  BY <1>1 DEF SeenIsCreated, Removes, Writes
<1>4. Known(Q, id, row, m2)
  BY <1>2, <1>3 DEF Known, UpdatesMeetRecords, BareIsKnown
<1>5. SentIsKnown(Q, id, row, st, m2)
  BY DEF SentIsKnown
<1>6. ASSUME Current(P, id, row, mods, m, tn)
      PROVE  Current(Q, id, row, mods2, m2, tn)
  <2>1. /\ (P[1].ok \/ P[1].call.id # id) /\ Sound(Q, tn, id) => Sound(P, tn, id)
        /\ (\A k \in DOMAIN Q : ~Writes(Q[k], id)) /\ Writes(P[1], id) => IsLastWrite(P, 1, id)
        /\ 1 \in DOMAIN P /\ P[1].done
    BY WritesLeave
  <2>2. P[1].ok /\ Writes(P[1], id) /\ P[1].call.op = "create"
    BY DEF Creates, Writes
  <2>3. Sound(P, tn, id) => row = P[1].call.row
    BY <1>1, <1>6, <2>1, <2>2 DEF Current, LastIsStored, Left
  <2>4. mods[m2].ver = P[1].call.row.ver
    BY <1>6, <2>1 DEF Current, CreationsAreNew
  <2>5. RowOf(mods2[m2]) = P[1].call.row
    BY <2>4 DEF RowOf, Row, IsLive
  <2> QED BY <1>1, <1>2, <1>6, <2>1, <2>2, <2>3, <2>5, CurrentLeaves
<1> QED BY <1>4, <1>5, <1>6

(* JavaScript sees that the record was updated. *)
LEMMA LeavesUpdated ==
    ASSUME NEW P, NEW Q, NEW N, NEW id, NEW row, NEW st, NEW mods, NEW m, NEW tn,
           N \in Nat, Leaves(P, Q, N), Known(P, id, row, m),
           P[1].ok, P[1].found = {}, Updates(P[1], id)
    PROVE  /\ Known(Q, id, row, m)
           /\ SentIsKnown(P, id, row, st, m) => SentIsKnown(Q, id, row, st, m)
           /\ Current(P, id, row, mods, m, tn) => Current(Q, id, row, mods, m, tn)
<1>1. ~Supplies(P[1], id)
  BY DEF Supplies, Shows, Creates, Updates
<1>2. /\ Known(Q, id, row, m)
      /\ SentIsKnown(P, id, row, st, m) => SentIsKnown(Q, id, row, st, m)
  BY <1>1, KnownLeaves
<1>3. ASSUME Current(P, id, row, mods, m, tn)
      PROVE  Current(Q, id, row, mods, m, tn)
  <2>1. /\ (P[1].ok \/ P[1].call.id # id) /\ Sound(Q, tn, id) => Sound(P, tn, id)
        /\ (\A k \in DOMAIN Q : ~Writes(Q[k], id)) /\ Writes(P[1], id) => IsLastWrite(P, 1, id)
        /\ 1 \in DOMAIN P /\ P[1].done
    BY WritesLeave
  <2>2. Writes(P[1], id) /\ P[1].call.op = "update"
    BY DEF Updates, Writes
  <2>3. Sound(P, tn, id) /\ (\A k \in DOMAIN Q : ~Writes(Q[k], id)) => row = RowOf(mods[m])
    BY <1>3, <2>1, <2>2 DEF Current, LastIsStored, LastIsCached, Left
  <2> QED BY <1>3, <2>1, <2>3, CurrentLeaves
<1> QED BY <1>2, <1>3

(* JavaScript sees that the record was removed, and forgets it. *)
LEMMA LeavesRemoved ==
    ASSUME NEW P, NEW Q, NEW N, NEW id, NEW r, NEW st, NEW mods, NEW m, NEW tn,
           N \in Nat, id \in Id, Leaves(P, Q, N), Known(P, id, r[id], m),
           Removes(P[1], id), InOrder(P), AnswersAreRows(P), RemovedStaysRemoved(P, r)
    PROVE  /\ Known(Q, id, r[id], 0)
           /\ SentIsKnown(Q, id, r[id], st, 0)
           /\ Current(P, id, r[id], mods, m, tn) => Current(Q, id, r[id], mods, 0, tn)
<1>1. Known(Q, id, r[id], 0) /\ SentIsKnown(Q, id, r[id], st, 0)
  BY KnownForgets
<1>2. \A k \in DOMAIN Q : ~Updates(Q[k], id)
  BY <1>1 DEF Known, UpdatesMeetRecords
<1>3. ASSUME Current(P, id, r[id], mods, m, tn)
      PROVE  Current(Q, id, r[id], mods, 0, tn)
  <2>1. (P[1].ok \/ P[1].call.id # id) /\ Sound(Q, tn, id) => Sound(P, tn, id)
    BY WritesLeave
  <2>2. P[1].ok
    BY DEF Removes
  <2>3. PICK row : row = r[id]
    OBVIOUS
  <2>4. Current(P, id, row, mods, m, tn)
    BY <1>3, <2>3
  <2>5. Current(Q, id, row, mods, 0, tn)
    BY <1>2, <2>1, <2>2, <2>4, CurrentLeaves
  <2> QED BY <2>3, <2>5
<1> QED BY <1>1, <1>3

(* The answer to destroyDeletedRecords() leaves: a cached Model of the record, if
   there is one, is that of a deleted record.                                  *)
LEMMA LeavesDestroyed ==
    ASSUME NEW P, NEW Q, NEW N, NEW id, NEW row, NEW st, NEW mods, NEW m, NEW tn,
           N \in Nat, Leaves(P, Q, N), Known(P, id, row, m),
           P[1].ok, P[1].found = {},
           P[1].call.id = id, P[1].call.op = "destroyDeletedRecords"
    PROVE  /\ Known(Q, id, row, m)
           /\ SentIsKnown(P, id, row, st, m) => SentIsKnown(Q, id, row, st, m)
           /\ Current(P, id, row, mods, m, tn) => Current(Q, id, row, mods, m, tn)
<1>1. ~Supplies(P[1], id)
  BY DEF Supplies, Shows, Creates
<1>2. /\ Known(Q, id, row, m)
      /\ SentIsKnown(P, id, row, st, m) => SentIsKnown(Q, id, row, st, m)
  BY <1>1, KnownLeaves
<1>3. ASSUME Current(P, id, row, mods, m, tn)
      PROVE  Current(Q, id, row, mods, m, tn)
  <2>1. /\ (P[1].ok \/ P[1].call.id # id) /\ Sound(Q, tn, id) => Sound(P, tn, id)
        /\ (\A k \in DOMAIN Q : ~Writes(Q[k], id)) /\ Writes(P[1], id) => IsLastWrite(P, 1, id)
        /\ 1 \in DOMAIN P /\ P[1].done
    BY WritesLeave
  <2>2. Writes(P[1], id)
    BY DEF Writes
  <2>3. Sound(P, tn, id) /\ (\A k \in DOMAIN Q : ~Writes(Q[k], id)) /\ m # 0 =>
          row = NoRow /\ mods[m].status = "deleted"
    BY <1>3, <2>1, <2>2 DEF Current, LastIsStored, DestroyedIsDeleted, Left
  <2> QED BY <1>3, <2>1, <2>3, CurrentLeaves
<1> QED BY <1>2, <1>3

(* The driver takes the next call. *)
LEMMA DriverStepCoheres ==
    ASSUME CachingInv, CachingInv', CoherenceInv, "lokiSync" \notin Adapters, DriverStep
    PROVE  CoherenceInv'
<1> DEFINE P == LineOf(answers, calls)
           N == Len(answers) + Len(calls)
           n == Len(answers) + 1
<1>0. /\ driver \in Drivers /\ calls \in Seq(Call) /\ answers \in Seq(Answer)
      /\ resetting \in BOOLEAN /\ NamesRecords(P) /\ InOrder(P)
      /\ Coheres(P, driver, models, cache, tainted, resetting)
  BY Types DEF CoherenceInv, Lives
<1>1. /\ calls # <<>> /\ calls' = Tail(calls)
      /\ models' = models /\ cache' = cache /\ resetting' = resetting /\ tainted' = tainted
  BY DEF DriverStep
<1>2. driver.adapter # "sqliteSync"
  BY <1>1 DEF CachingInv, Holds
<1>3. PICK ok \in BOOLEAN, found \in {{}, FoundIn(driver, Head(calls))} :
        LET a == [call |-> Head(calls), ok |-> ok, found |-> found] IN
        Execute(driver, Head(calls), driver', a) /\ answers' = Append(answers, a)
  BY DEF DriverStep
<1> DEFINE c == Head(calls)
           a == [call |-> c, ok |-> ok, found |-> found]
           Q == LineOf(Append(answers, a), Tail(calls))
<1>4. Execute(driver, c, driver', a) /\ answers' = Append(answers, a)
  BY <1>3
<1>5. /\ c \in Call /\ c = calls[1] /\ N \in Nat /\ n \in 1..N /\ n > Len(answers)
      /\ n - Len(answers) = 1
  BY <1>0, <1>1
<1>6. P[n] = Waiting(c) /\ n \in DOMAIN P /\ DOMAIN P = 1..N
  BY <1>0, <1>5, LineShape
<1>7. P[n].call = c /\ P[n].ok /\ ~P[n].done
  BY <1>6 DEF Waiting
<1>8. /\ c.op \notin {"query", "clearCachedRecords", "unsafeResetDatabase"} => c.id \in Id
      /\ c.op \in {"create", "update"} => c.row \in Row
  BY <1>0, <1>6, <1>7 DEF NamesRecords
<1>9. a \in Answer
  <2>1. FoundIn(driver, c) \in SUBSET Found
    BY <1>0, <1>5, <1>8, FoundInIs
  <2> QED BY <1>5, <2>1 DEF Answer
<1>10. Runs(P, Q, N, n, Answered(a))
  BY <1>0, <1>1, <1>9, LineRuns
<1>11. With(Q, driver', models, cache, resetting)
  BY <1>1, <1>4 DEF CachingInv, Holds
<1> HIDE DEF P, N, n, a, c, Q
<1>12. Reaches(P, Q, N, n, Answered(a))
  <2>1. ASSUME NEW k \in 1..N, P[k].done PROVE k < n
    <3>1. k # n
      BY <1>7, <2>1
    <3>2. ~(n < k)
      BY <1>0, <1>6, <1>7, <2>1 DEF InOrder
    <3> QED BY <1>5, <3>1, <3>2
  <2> QED BY <1>7, <1>10, <2>1 DEF Reaches
<1>13. Coheres(Q, driver', models, cache, tainted, resetting)
  <2>1. PICK d2 : d2 = driver'
    OBVIOUS
  <2>2. Execute(driver, c, d2, a) /\ With(Q, d2, models, cache, resetting)
    BY <1>4, <1>11, <2>1
  <2>3. Coheres(Q, d2, models, cache, tainted, resetting)
    BY <1>0, <1>2, <1>5, <1>7, <1>8, <1>12, <2>2, RunCoheres
  <2> QED BY <2>1, <2>3
<1> QED BY <1>1, <1>4, <1>13 DEF CoherenceInv, Q, a

-----------------------------------------------------------------------------
(* Models are made of what comes back. *)

(* The cached Models of the records of K are those of the rows in the answer. *)
LEMMA MadeOf ==
    ASSUME NEW K, NEW found, CachingInv, Instantiate(K), Kept(found, K), found \in SUBSET Found,
           \A x \in found : ~x.bare => x.row # NoRow,
           \A x, y \in found : x.id = y.id => x = y
    PROVE  \A id \in Id : IsNew(K, id) =>
             \E x \in found : /\ x.id = id /\ ~x.bare
                              /\ RowOf(models'[id][cache'[id]]) = x.row
<1> DEFINE M == [ver : 1..MaxVersion, status : Statuses]
           model(id) == [ver |-> RowIn(K, id).ver,
                         status |-> IF RowIn(K, id).deleted THEN "deleted" ELSE "live"]
<1>0. models \in Models
  BY Types
<1>1. K \subseteq found
  BY DEF Kept
<1>2. /\ models' = [id \in Id |-> IF IsNew(K, id) THEN Append(models[id], model(id)) ELSE models[id]]
      /\ cache' = [id \in Id |-> IF IsNew(K, id) THEN Len(models[id]) + 1 ELSE cache[id]]
  BY DEF Instantiate
<1> SUFFICES ASSUME NEW id \in Id, IsNew(K, id)
             PROVE  \E x \in found : /\ x.id = id /\ ~x.bare
                                     /\ RowOf(models'[id][cache'[id]]) = x.row
  OBVIOUS
<1>3. PICK x \in K : x.id = id /\ ~x.bare
  BY DEF IsNew
<1>4. \A y \in K : y.id = id => y = x
  BY <1>1, <1>3
<1>5. RowIn(K, id) = x.row
  BY <1>3, <1>4 DEF RowIn
<1>6. x.row \in Row
  BY <1>1, <1>3 DEF Found
<1>7. x.row.ver \in 1..MaxVersion /\ x.row.deleted \in BOOLEAN
      /\ x.row = [ver |-> x.row.ver, deleted |-> x.row.deleted]
  BY <1>6 DEF Row
<1>8. model(id) = [ver |-> x.row.ver, status |-> IF x.row.deleted THEN "deleted" ELSE "live"]
  BY <1>5
<1>9. model(id) \in M /\ RowOf(model(id)) = x.row
  <2>1. model(id).ver = x.row.ver /\ (model(id).status = "deleted" <=> x.row.deleted)
    BY <1>8
  <2>2. (model(id).status = "deleted") = x.row.deleted
    BY <1>7, <2>1
  <2>3. model(id) \in M
    BY <1>7, <1>8 DEF Statuses
  <2> QED BY <1>7, <2>1, <2>2, <2>3 DEF RowOf
<1>10. models[id] \in Seq(M)
  BY <1>0 DEF Models
<1> HIDE DEF model, M
<1>11. Append(models[id], model(id))[Len(models[id]) + 1] = model(id)
  BY <1>10
<1>12. models'[id][cache'[id]] = model(id)
  BY <1>2, <1>11
<1> QED BY <1>1, <1>3, <1>9, <1>12

LEMMA MadeCoheres ==
    ASSUME NEW P, NEW d, NEW ms, NEW ch, NEW ms2, NEW ch2, NEW tn, NEW rs, NEW fresh,
           Coheres(P, d, ms, ch, tn, rs), CreationsArePending(P, ms),
           Made(ms, ch, ms2, ch2, fresh), fresh \in SUBSET Id,
           \A id \in fresh : ch2[id] # 0,
           ~rs => \A id \in fresh :
             /\ Sound(P, tn, id) /\ (\A k \in DOMAIN P : ~Writes(P[k], id)) =>
                  d.rows[id] = RowOf(ms2[id][ch2[id]])
             /\ \A k \in DOMAIN P :
                  /\ P[k].call.op = "destroyDeletedRecords"
                  /\ IsLastWrite(P, k, id) /\ Sound(P, tn, id)
                  => RowOf(ms2[id][ch2[id]]).deleted
    PROVE  Coheres(P, d, ms2, ch2, tn, rs)
<1>1. ASSUME NEW id \in Id
      PROVE  /\ Known(P, id, d.rows[id], ch2[id])
             /\ d.adapter # "sqliteSync" => SentIsKnown(P, id, d.rows[id], d.sent, ch2[id])
             /\ ~rs => Current(P, id, d.rows[id], ms2[id], ch2[id], tn)
  <2>0. /\ Known(P, id, d.rows[id], ch[id])
        /\ d.adapter # "sqliteSync" => SentIsKnown(P, id, d.rows[id], d.sent, ch[id])
        /\ ~rs => Current(P, id, d.rows[id], ms[id], ch[id], tn)
    BY DEF Coheres
  <2>1. CASE id \notin fresh
    <3>1. ms2[id] = ms[id] /\ ch2[id] = ch[id]
      BY <2>1 DEF Made
    <3> QED BY <2>0, <3>1
  <2>2. CASE id \in fresh
    <3>1. /\ ch[id] = 0 /\ ch2[id] # 0
          /\ \A x \in DOMAIN ms[id] : ms2[id][x] = ms[id][x]
      BY <2>2 DEF Made
    <3>2. \A k \in DOMAIN P : Creates(P[k], id) =>
            ms2[id][P[k].call.model] = ms[id][P[k].call.model]
      BY <3>1 DEF CreationsArePending
    <3>3. PICK row, st, mods, mods2, m2, row3 :
            /\ row = d.rows[id] /\ st = d.sent /\ mods = ms[id] /\ mods2 = ms2[id]
            /\ m2 = ch2[id] /\ row3 = RowOf(ms2[id][ch2[id]])
      OBVIOUS
    <3>4. Known(P, id, row, 0) /\ m2 # 0
      BY <2>0, <3>1, <3>3
    <3>5. Known(P, id, row, m2) /\ SentIsKnown(P, id, row, st, m2)
      BY <3>4, KnownMade
    <3>6. ASSUME ~rs PROVE Current(P, id, row, mods2, m2, tn)
      <4>1. /\ Current(P, id, row, mods, 0, tn)
            /\ \A k \in DOMAIN P : Creates(P[k], id) =>
                 mods2[P[k].call.model] = mods[P[k].call.model]
            /\ RowOf(mods2[m2]) = row3
        BY <2>0, <3>1, <3>2, <3>3, <3>6
      <4>2. /\ Sound(P, tn, id) /\ (\A k \in DOMAIN P : ~Writes(P[k], id)) => row = row3
            /\ \A k \in DOMAIN P :
                 P[k].call.op = "destroyDeletedRecords" /\ IsLastWrite(P, k, id) /\ Sound(P, tn, id) =>
                   row3.deleted
        BY <2>2, <3>3, <3>6
      <4> QED BY <3>4, <4>1, <4>2, CurrentMade
    <3> QED BY <3>3, <3>5, <3>6
  <2> QED BY <2>1, <2>2
<1> QED BY <1>1 DEF Coheres

(* An answer leaves the queue: what holds of each record is enough. *)
LEMMA LeaveCoheres ==
    ASSUME NEW P, NEW Q, NEW N, NEW d, NEW ms, NEW ch, NEW tn, NEW rs,
           NEW ms2, NEW ch2, NEW tn2, NEW rs2,
           N \in Nat, Leaves(P, Q, N), Coheres(P, d, ms, ch, tn, rs),
           \A id \in Id : /\ Known(Q, id, d.rows[id], ch2[id])
                          /\ d.adapter # "sqliteSync" =>
                               SentIsKnown(Q, id, d.rows[id], d.sent, ch2[id])
                          /\ ~rs2 => Current(Q, id, d.rows[id], ms2[id], ch2[id], tn2)
    PROVE  Coheres(Q, d, ms2, ch2, tn2, rs2)
<1>1. /\ AnswersFit(Q)
      /\ d.adapter = "sqliteSync" => \A k \in DOMAIN Q : Q[k].found = {}
  <2>1. AnswersFit(P) /\ (d.adapter = "sqliteSync" => \A k \in DOMAIN P : P[k].found = {})
    BY DEF Coheres
  <2> QED BY <2>1, FitLeaves
<1> QED BY <1>1 DEF Coheres

(* What is missed at the head of the queue is deleted, and came alone. *)
LEMMA HeadMisses ==
    ASSUME CachingInv, CoherenceInv, answers # <<>>,
           Head(answers).call.op \in {"find", "query"}
    PROVE  \A y \in Misses(Head(answers).found) :
             ~IsLive(y.row) /\ \A x \in Head(answers).found : x = y
<1> DEFINE P == LineOf(answers, calls)
           found == Head(answers).found
<1>1. /\ P[1] = Answered(Head(answers)) /\ Head(answers) \in Answer
      /\ \E N \in Nat : DOMAIN P = 1..N /\ 1 \in DOMAIN P
  BY Headed
<1>2. P[1].found = found /\ P[1].call = Head(answers).call /\ found \in SUBSET Found
  BY <1>1 DEF Answered, Answer
<1>3. NamesRecords(P) /\ Coheres(P, driver, models, cache, tainted, resetting)
  BY Types DEF CoherenceInv
<1> HIDE DEF P, found
<1>4. \A x, y \in found : x.id = y.id => x = y
  BY <1>1, <1>2, <1>3 DEF NamesRecords
<1> SUFFICES ASSUME NEW y \in found, y.bare, cache[y.id] = 0
             PROVE  ~IsLive(y.row) /\ \A x \in found : x = y
  BY DEF Misses, found
<1>5. ~IsLive(y.row)
  <2> SUFFICES ASSUME IsLive(y.row) PROVE FALSE
    OBVIOUS
  <2>1. PICK id : id = y.id /\ id \in Id
    BY <1>2 DEF Found
  <2>2. Sees(P[1], id)
    BY <1>2, <2>1 DEF Sees
  <2>3. ~Shows(P[1], id)
    BY <1>2, <1>4, <2>1 DEF Shows
  <2>4. BareIsKnown(P, id, cache[id])
    BY <1>3, <2>1 DEF Coheres, Known
  <2>5. ~\E l \in DOMAIN P : l < 1
    BY <1>1
  <2> QED BY <1>1, <2>1, <2>2, <2>3, <2>4, <2>5 DEF BareIsKnown
<1>6. P[1].call.op = "find"
  <2>1. P[1].call.op # "query"
    BY <1>1, <1>2, <1>3, <1>5 DEF Coheres, AnswersFit
  <2> QED BY <1>2, <2>1
<1>7. \A x \in found : x.id = y.id
  BY <1>1, <1>2, <1>3, <1>6 DEF Coheres, AnswersFit
<1> QED BY <1>4, <1>5, <1>7

LEMMA ReceiveRecordsCoheres ==
    ASSUME CachingInv, CoherenceInv, "lokiSync" \notin Adapters, ReceiveRecords
    PROVE  CoherenceInv'
<1> DEFINE P == LineOf(answers, calls)
           N == Len(answers) + Len(calls)
           Q == LineOf(Tail(answers), calls)
           found == Head(answers).found
           fresh(K) == {id \in Id : IsNew(K, id)}
<1>0. /\ driver \in Drivers /\ calls \in Seq(Call) /\ models \in Models
      /\ resetting \in BOOLEAN /\ NamesRecords(P)
      /\ AnswersAreRows(P) /\ CreationsArePending(P, models)
      /\ Coheres(P, driver, models, cache, tainted, resetting)
  BY Types DEF CoherenceInv, Lives
<1>1. /\ answers # <<>> /\ Head(answers).call.op \in {"find", "query"}
      /\ answers' = Tail(answers) /\ driver' = driver /\ resetting' = resetting /\ tainted' = tainted
      /\ calls' = IF Recover(found) THEN Append(calls, Plain("clearCachedRecords")) ELSE calls
  BY DEF ReceiveRecords
<1>2. PICK K \in SUBSET found : Kept(found, K) /\ Instantiate(K)
  BY DEF ReceiveRecords
<1>3. /\ P[1] = Answered(Head(answers)) /\ Leaves(P, Q, N) /\ Head(answers) \in Answer
      /\ N \in Nat /\ N > 0 /\ DOMAIN P = 1..N /\ 1 \in DOMAIN P
      /\ Tail(answers) \in Seq(Answer)
  BY <1>1, Headed
<1>4. /\ P[1].call = Head(answers).call /\ P[1].found = found /\ found \in SUBSET Found
  BY <1>3 DEF Answered, Answer
<1>m. \A y \in Misses(found) : ~IsLive(y.row) /\ \A x \in found : x = y
  BY <1>1, HeadMisses
<1>5. /\ \A x \in found : ~x.bare => x.row # NoRow
      /\ \A x, y \in found : x.id = y.id => x = y
  BY <1>0, <1>3, <1>4 DEF AnswersAreRows, NamesRecords
<1>6. /\ \A id \in Id : ~IsNew(K, id) => models'[id] = models[id] /\ cache'[id] = cache[id]
      /\ \A id \in Id : IsNew(K, id) =>
           /\ cache[id] = 0
           /\ cache'[id] \notin DOMAIN models[id]
           /\ DOMAIN models'[id] = DOMAIN models[id] \cup {cache'[id]}
           /\ \A n \in DOMAIN models[id] : models'[id][n] = models[id][n]
      /\ Indexed(models')
  BY <1>2, <1>4, <1>5, Instantiated
<1>7. \A id \in Id : IsNew(K, id) =>
        \E x \in found : x.id = id /\ ~x.bare /\ RowOf(models'[id][cache'[id]]) = x.row
  BY <1>2, <1>4, <1>5, MadeOf
<1> HIDE DEF P, Q, N, found
<1>8. \A id \in fresh(K) : cache'[id] # 0
  <2> SUFFICES ASSUME NEW id \in fresh(K) PROVE cache'[id] # 0
    OBVIOUS
  <2>1. cache'[id] \in DOMAIN models'[id]
    BY <1>6
  <2> QED BY <1>6, <2>1 DEF Indexed
<1>9. Made(models, cache, models', cache', fresh(K))
  BY <1>6 DEF Made
<1>10. ASSUME ~resetting, NEW id \in fresh(K)
       PROVE  /\ Sound(P, tainted, id) /\ (\A k \in DOMAIN P : ~Writes(P[k], id)) =>
                   driver.rows[id] = RowOf(models'[id][cache'[id]])
              /\ \A k \in DOMAIN P :
                   /\ P[k].call.op = "destroyDeletedRecords"
                   /\ IsLastWrite(P, k, id) /\ Sound(P, tainted, id)
                   => RowOf(models'[id][cache'[id]]).deleted
  <2>1. PICK x \in found : x.id = id /\ ~x.bare /\ RowOf(models'[id][cache'[id]]) = x.row
    BY <1>7, <1>10
  <2>2. PICK row, mods, m, tn : row = driver.rows[id] /\ mods = models[id] /\ m = cache[id]
                               /\ tn = tainted
    OBVIOUS
  <2>3. Current(P, id, row, mods, m, tn) /\ P[1].call.op \in {"find", "query"} /\ x \in P[1].found
    BY <1>0, <1>1, <1>4, <1>10, <2>1, <2>2 DEF Coheres
  <2>4. /\ (\A k \in DOMAIN P : ~Writes(P[k], id)) => row = x.row
        /\ \A k \in DOMAIN P :
             P[k].call.op = "destroyDeletedRecords" /\ IsLastWrite(P, k, id) => x.row.deleted
    BY <1>3, <2>1, <2>3, HeadIsCurrent
  <2> QED BY <2>1, <2>2, <2>4
<1>11. fresh(K) \in SUBSET Id
  OBVIOUS
<1> HIDE DEF fresh
<1>12. Coheres(P, driver, models', cache', tainted, resetting)
  <2>1. PICK ms2, ch2, fr : ms2 = models' /\ ch2 = cache' /\ fr = fresh(K)
    OBVIOUS
  <2>2. /\ Made(models, cache, ms2, ch2, fr) /\ fr \in SUBSET Id /\ \A id \in fr : ch2[id] # 0
        /\ ~resetting => \A id \in fr :
             /\ Sound(P, tainted, id) /\ (\A k \in DOMAIN P : ~Writes(P[k], id)) =>
                  driver.rows[id] = RowOf(ms2[id][ch2[id]])
             /\ \A k \in DOMAIN P :
                  /\ P[k].call.op = "destroyDeletedRecords"
                  /\ IsLastWrite(P, k, id) /\ Sound(P, tainted, id)
                  => RowOf(ms2[id][ch2[id]]).deleted
    BY <1>8, <1>9, <1>10, <1>11, <2>1
  <2>3. Coheres(P, driver, ms2, ch2, tainted, resetting)
    BY <1>0, <2>2, MadeCoheres
  <2> QED BY <2>1, <2>3
<1>13. ASSUME NEW id \in Id, Shows(P[1], id)
       PROVE  cache'[id] # 0
  <2>1. PICK x \in found : x.id = id /\ ~x.bare /\ IsLive(x.row)
    BY <1>4, <1>13 DEF Shows
  <2>2. Misses(found) = {}
    BY <1>m, <2>1
  <2>3. K = found
    BY <1>2, <2>2 DEF Kept
  <2>4. IsNew(K, id) \/ cache[id] # 0
    BY <2>1, <2>3 DEF IsNew
  <2> QED BY <1>6, <1>8, <2>4 DEF fresh
<1>14. P[1].ok /\ \A id \in Id : ~Writes(P[1], id)
  <2>1. P[1].call.op \in {"find", "query"}
    BY <1>1, <1>4
  <2> QED BY <1>0, <1>3, <2>1 DEF Coheres, AnswersFit, IsBatch, Writes
<1>15. Coheres(Q, driver, models', cache', tainted, resetting)
  <2>1. PICK ms, ch, st : ms = models' /\ ch = cache' /\ st = driver.sent
    OBVIOUS
  <2>2. Coheres(P, driver, ms, ch, tainted, resetting)
    BY <1>12, <2>1
  <2>3. ASSUME NEW id \in Id
        PROVE  /\ Known(Q, id, driver.rows[id], ch[id])
               /\ driver.adapter # "sqliteSync" =>
                    SentIsKnown(Q, id, driver.rows[id], driver.sent, ch[id])
               /\ ~resetting => Current(Q, id, driver.rows[id], ms[id], ch[id], tainted)
    <3>1. PICK row, mods, m : row = driver.rows[id] /\ mods = ms[id] /\ m = ch[id]
      OBVIOUS
    <3>2. /\ Known(P, id, row, m)
          /\ driver.adapter # "sqliteSync" => SentIsKnown(P, id, row, st, m)
          /\ ~resetting => Current(P, id, row, mods, m, tainted)
      BY <2>1, <2>2, <3>1 DEF Coheres
    <3>3. Shows(P[1], id) => m # 0
      BY <1>13, <2>1, <3>1
    <3>4. /\ Known(Q, id, row, m)
          /\ SentIsKnown(P, id, row, st, m) => SentIsKnown(Q, id, row, st, m)
          /\ Current(P, id, row, mods, m, tainted) => Current(Q, id, row, mods, m, tainted)
      BY <1>3, <1>14, <3>2, <3>3, LeavesOther
    <3> QED BY <2>1, <3>1, <3>2, <3>4
  <2>4. Coheres(Q, driver, ms, ch, tainted, resetting)
    BY <1>3, <2>2, <2>3, LeaveCoheres
  <2> QED BY <2>1, <2>4
<1>16. CASE calls' = calls
  BY <1>1, <1>15, <1>16 DEF CoherenceInv, Q
<1>17. CASE calls' = Append(calls, Plain("clearCachedRecords"))
  <2> DEFINE c == Plain("clearCachedRecords")
             L == Len(Tail(answers)) + Len(calls)
             R == LineOf(Tail(answers), Append(calls, c))
             e == Waiting(c)
  <2>1. c \in Call
    BY PlainIs DEF Ops
  <2>2. Joins(Q, R, L, e) /\ L \in Nat
    <3>1. Joins(Q, R, L, e)
      BY <1>0, <1>3, <2>1, LineSent DEF Q
    <3> QED BY <1>0, <1>3, <3>1
  <2>3. /\ ~e.done /\ e.ok /\ e.found = {}
        /\ \A id \in Id : ~Updates(e, id) /\ ~Writes(e, id)
    BY DEF Waiting, Updates, Writes, Plain
  <2> HIDE DEF e, L, R
  <2>4. Coheres(R, driver, models', cache', tainted, resetting)
    <3>1. PICK ms, ch : ms = models' /\ ch = cache'
      OBVIOUS
    <3>2. Coheres(Q, driver, ms, ch, tainted, resetting)
      BY <1>15, <3>1
    <3>3. Coheres(R, driver, ms, ch, tainted, resetting)
      BY <1>0, <2>2, <2>3, <3>2, JoinCoheres
    <3> QED BY <3>1, <3>3
  <2> QED BY <1>1, <1>17, <2>4 DEF CoherenceInv, R
<1> QED BY <1>1, <1>16, <1>17

(* JavaScript fetches records: it asks, or has the answer at once. *)
LEMMA FetchCoheres ==
    ASSUME NEW c, CachingInv, CachingInv', CoherenceInv, "lokiSync" \notin Adapters,
           Fetch(c), c \in Call,
           c.op \in {"find", "query"}, c.op = "find" => c.id \in Id
    PROVE  CoherenceInv'
<1>0. /\ driver \in Drivers /\ models \in Models /\ answers \in Seq(Answer)
      /\ calls \in Seq(Call) /\ resetting \in BOOLEAN
      /\ CreationsArePending(LineOf(answers, calls), models)
      /\ Synchronous <=> driver.adapter = "sqliteSync"
      /\ driver.adapter = "sqliteSync" => calls = <<>>
      /\ Coheres(LineOf(answers, calls), driver, models, cache, tainted, resetting)
  BY Types, Coherent DEF CoherenceInv, Lives
<1>1. ~resetting /\ resetting' = resetting /\ tainted' = tainted
  BY DEF Fetch
<1>2. CASE driver.adapter # "sqliteSync"
  <2>1. ~Synchronous
    BY <1>0, <1>2
  <2>2. Send(c) /\ UNCHANGED <<models, cache>>
    BY <2>1 DEF Fetch
  <2> QED BY <1>0, <1>1, <2>1, <2>2, QuietCoheres
<1>3. CASE driver.adapter = "sqliteSync"
  <2> DEFINE P == LineOf(answers, calls)
             found == FoundIn(driver, c)
             fresh(K) == {id \in Id : IsNew(K, id)}
  <2>1. Synchronous /\ ~Loki
    BY <1>0, <1>3 DEF Loki
  <2>2. PICK K \in SUBSET FoundIn(driver, c) :
          /\ Kept(found, K) /\ Instantiate(K)
          /\ driver' = Executed(driver, c) /\ calls' = calls /\ answers' = answers
    BY <2>1 DEF Fetch, Recover
  <2>3. \A k \in DOMAIN P : P[k].done
    <3>1. Len(calls) = 0 /\ Len(answers) \in Nat
      BY <1>0, <1>3
    <3>2. Len(answers) + Len(calls) = Len(answers)
      BY <3>1
    <3>3. /\ DOMAIN P = 1..(Len(answers) + Len(calls))
          /\ \A k \in 1..Len(answers) : P[k] = Answered(answers[k])
      BY <1>0, LineShape
    <3> HIDE DEF P
    <3>4. DOMAIN P = 1..Len(answers)
      BY <3>2, <3>3
    <3>5. ASSUME NEW k \in DOMAIN P PROVE P[k].done
      <4>1. P[k] = Answered(answers[k])
        BY <3>3, <3>4
      <4> QED BY <4>1 DEF Answered
    <3> QED BY <3>5
  <2>4. /\ found \in SUBSET Found
        /\ \A x \in found : /\ x.row = driver.rows[x.id]
                            /\ ~x.bare => x.row # NoRow
        /\ \A x, y \in found : x.id = y.id => x = y
    BY <1>0, FoundInIs
  <2>5. driver'.adapter = driver.adapter /\ driver'.rows = driver.rows
    BY <1>0, <2>2, ExecutedIs
  <2>6. /\ \A id \in Id : ~IsNew(K, id) => models'[id] = models[id] /\ cache'[id] = cache[id]
        /\ \A id \in Id : IsNew(K, id) =>
             /\ cache[id] = 0
             /\ cache'[id] \notin DOMAIN models[id]
             /\ DOMAIN models'[id] = DOMAIN models[id] \cup {cache'[id]}
             /\ \A n \in DOMAIN models[id] : models'[id][n] = models[id][n]
        /\ Indexed(models')
    BY <2>2, <2>4, Instantiated
  <2>7. \A id \in Id : IsNew(K, id) =>
          \E x \in found : x.id = id /\ ~x.bare /\ RowOf(models'[id][cache'[id]]) = x.row
    BY <2>2, <2>4, MadeOf
  <2>8. CreationsArePending(P, models) /\ Coheres(P, driver, models, cache, tainted, resetting)
    BY <1>0
  <2> HIDE DEF P, found
  <2>9. \A id \in fresh(K) : cache'[id] # 0
    <3> SUFFICES ASSUME NEW id \in fresh(K) PROVE cache'[id] # 0
      OBVIOUS
    <3>1. cache'[id] \in DOMAIN models'[id]
      BY <2>6
    <3> QED BY <2>6, <3>1 DEF Indexed
  <2>10. Made(models, cache, models', cache', fresh(K)) /\ fresh(K) \in SUBSET Id
    BY <2>6 DEF Made
  <2>11. ASSUME NEW id \in fresh(K)
         PROVE  /\ driver.rows[id] = RowOf(models'[id][cache'[id]])
                /\ \A k \in DOMAIN P :
                     ~(/\ P[k].call.op = "destroyDeletedRecords"
                       /\ IsLastWrite(P, k, id) /\ Sound(P, tainted, id))
    <3>1. PICK x \in found : x.id = id /\ ~x.bare /\ RowOf(models'[id][cache'[id]]) = x.row
      BY <2>7, <2>11
    <3>2. PICK row, mods, m, tn : row = driver.rows[id] /\ mods = models[id] /\ m = cache[id]
                                 /\ tn = tainted
      OBVIOUS
    <3>3. Current(P, id, row, mods, m, tn) /\ row # NoRow /\ row = x.row
      BY <1>1, <2>4, <2>8, <2>11, <3>1, <3>2 DEF Coheres
    <3>4. \A k \in DOMAIN P :
            ~(P[k].call.op = "destroyDeletedRecords" /\ IsLastWrite(P, k, id) /\ Sound(P, tn, id))
      BY <2>3, <3>3, TableIsCurrent
    <3> QED BY <3>1, <3>2, <3>3, <3>4
  <2> HIDE DEF fresh
  <2>12. Coheres(P, driver, models', cache', tainted, resetting)
    <3>1. PICK ms2, ch2, fr : ms2 = models' /\ ch2 = cache' /\ fr = fresh(K)
      OBVIOUS
    <3>2. /\ Made(models, cache, ms2, ch2, fr) /\ fr \in SUBSET Id /\ \A id \in fr : ch2[id] # 0
          /\ ~resetting => \A id \in fr :
               /\ Sound(P, tainted, id) /\ (\A k \in DOMAIN P : ~Writes(P[k], id)) =>
                    driver.rows[id] = RowOf(ms2[id][ch2[id]])
               /\ \A k \in DOMAIN P :
                    /\ P[k].call.op = "destroyDeletedRecords"
                    /\ IsLastWrite(P, k, id) /\ Sound(P, tainted, id)
                    => RowOf(ms2[id][ch2[id]]).deleted
      BY <2>9, <2>10, <2>11, <3>1
    <3>3. Coheres(P, driver, ms2, ch2, tainted, resetting)
      BY <2>8, <3>2, MadeCoheres
    <3> QED BY <3>1, <3>3
  <2>13. Coheres(P, driver', models', cache', tainted, resetting)
    BY <1>3, <2>5, <2>12 DEF Coheres
  <2> QED BY <1>1, <2>2, <2>13 DEF CoherenceInv, P
<1> QED BY <1>2, <1>3

-----------------------------------------------------------------------------
(* JavaScript takes an answer off the head of the queue. *)

LEMMA ReceiveOtherCoheres ==
    ASSUME CachingInv, CoherenceInv, ReceiveOther
    PROVE  CoherenceInv'
<1> DEFINE P == LineOf(answers, calls)
           Q == LineOf(Tail(answers), calls)
           N == Len(answers) + Len(calls)
<1>0. AnswersAreRows(P) /\ Coheres(P, driver, models, cache, tainted, resetting)
  BY Types DEF CoherenceInv, Lives
<1>1. /\ answers # <<>> /\ answers' = Tail(answers)
      /\ Head(answers).call.op \in {"destroyDeletedRecords", "clearCachedRecords"}
      /\ driver' = driver /\ calls' = calls /\ models' = models /\ cache' = cache
      /\ resetting' = resetting /\ tainted' = tainted
  BY DEF ReceiveOther
<1>2. Leaves(P, Q, N) /\ N \in Nat /\ P[1].call = Head(answers).call /\ 1 \in DOMAIN P
  BY <1>1, Headed DEF Answered
<1> HIDE DEF P, Q, N
<1>3. /\ P[1].ok /\ P[1].found = {}
      /\ \A id \in Id : Writes(P[1], id) =>
           P[1].call.id = id /\ P[1].call.op = "destroyDeletedRecords"
  BY <1>0, <1>1, <1>2 DEF Coheres, AnswersFit, AnswersAreRows, IsBatch, Writes
<1>4. ASSUME NEW id \in Id
      PROVE  /\ Known(Q, id, driver.rows[id], cache[id])
             /\ driver.adapter # "sqliteSync" =>
                  SentIsKnown(Q, id, driver.rows[id], driver.sent, cache[id])
             /\ ~resetting => Current(Q, id, driver.rows[id], models[id], cache[id], tainted)
  <2>1. PICK row, st, mods, m, tn :
          /\ row = driver.rows[id] /\ st = driver.sent /\ mods = models[id] /\ m = cache[id]
          /\ tn = tainted
    OBVIOUS
  <2>2. /\ Known(P, id, row, m)
        /\ driver.adapter # "sqliteSync" => SentIsKnown(P, id, row, st, m)
        /\ ~resetting => Current(P, id, row, mods, m, tn)
    BY <1>0, <2>1 DEF Coheres
  <2>3. ~Shows(P[1], id)
    BY <1>3 DEF Shows
  <2>4. /\ Known(Q, id, row, m)
        /\ SentIsKnown(P, id, row, st, m) => SentIsKnown(Q, id, row, st, m)
        /\ Current(P, id, row, mods, m, tn) => Current(Q, id, row, mods, m, tn)
    <3>1. CASE Writes(P[1], id)
      BY <1>2, <1>3, <2>2, <3>1, LeavesDestroyed
    <3>2. CASE ~Writes(P[1], id)
      BY <1>2, <1>3, <2>2, <2>3, <3>2, LeavesOther
    <3> QED BY <3>1, <3>2
  <2> QED BY <2>1, <2>2, <2>4
<1>5. Coheres(Q, driver, models, cache, tainted, resetting)
  BY <1>0, <1>2, <1>4, LeaveCoheres
<1> QED BY <1>1, <1>5 DEF CoherenceInv, Q

LEMMA ResumeResetCoheres ==
    ASSUME CachingInv, CoherenceInv, ResumeReset
    PROVE  CoherenceInv'
<1> DEFINE P == LineOf(answers, calls)
           Q == LineOf(Tail(answers), calls)
           N == Len(answers) + Len(calls)
<1>0. /\ AnswersAreRows(P) /\ ResetIsLast(P, driver.rows, driver.sent, resetting)
      /\ Coheres(P, driver, models, cache, tainted, resetting)
  BY Types DEF CoherenceInv, Lives
<1>1. /\ answers # <<>> /\ answers' = Tail(answers)
      /\ Head(answers).call.op = "unsafeResetDatabase"
      /\ driver' = driver /\ calls' = calls /\ tainted' = tainted
      /\ resetting' = FALSE /\ cache' = [id \in Id |-> 0]
  BY DEF ResumeReset
<1>2. Leaves(P, Q, N) /\ N \in Nat /\ 1 \in DOMAIN P /\ P[1].call = Head(answers).call
  BY <1>1, Headed DEF Answered
<1> HIDE DEF P, Q, N
<1>3. /\ \A k \in DOMAIN P : k > 1 => P[k].call = Plain("clearCachedRecords") /\ P[k].found = {}
      /\ driver.sent = {}
  <2>1. P[1].done
    BY <1>2 DEF Leaves
  <2>2. /\ \A k \in DOMAIN P : k > 1 => P[k].call = Plain("clearCachedRecords")
        /\ driver.sent = {}
    BY <1>0, <1>1, <1>2, <2>1 DEF ResetIsLast
  <2> QED BY <1>0, <2>2 DEF AnswersAreRows, Plain
<1>4. \A k \in DOMAIN Q : Q[k].call = Plain("clearCachedRecords") /\ Q[k].found = {}
  <2>1. \A k \in DOMAIN Q : k + 1 \in DOMAIN P /\ k + 1 > 1 /\ Q[k] = P[k + 1]
    BY <1>2 DEF Leaves
  <2> QED BY <1>3, <2>1
<1>5. Coheres(Q, driver, models', cache', tainted, FALSE)
  <2>1. PICK ms, ch : ms = models' /\ ch = cache'
    OBVIOUS
  <2>2. ASSUME NEW id \in Id
        PROVE  /\ Known(Q, id, driver.rows[id], ch[id])
               /\ driver.adapter # "sqliteSync" =>
                    SentIsKnown(Q, id, driver.rows[id], driver.sent, ch[id])
               /\ ~FALSE => Current(Q, id, driver.rows[id], ms[id], ch[id], tainted)
    <3>1. ch[id] = 0
      BY <1>1, <2>1
    <3>2. PICK row, mods, tn : row = driver.rows[id] /\ mods = ms[id] /\ tn = tainted
      OBVIOUS
    <3>3. Current(Q, id, row, mods, 0, tn) /\ Known(Q, id, row, 0)
      BY <1>4, CurrentEmptied
    <3>4. SentIsKnown(Q, id, driver.rows[id], driver.sent, ch[id])
      BY <1>3 DEF SentIsKnown
    <3> QED BY <3>1, <3>2, <3>3, <3>4
  <2>3. Coheres(Q, driver, ms, ch, tainted, FALSE)
    BY <1>0, <1>2, <2>2, LeaveCoheres
  <2> QED BY <2>1, <2>3
<1> QED BY <1>1, <1>5 DEF CoherenceInv, Q

LEMMA ResumeBatchCoheres ==
    ASSUME CachingInv, CoherenceInv, ResumeBatch
    PROVE  CoherenceInv'
<1> DEFINE P == LineOf(answers, calls)
           Q == LineOf(Tail(answers), calls)
           N == Len(answers) + Len(calls)
           c == Head(answers).call
           ok == Head(answers).ok
           created == ok /\ c.op = "create"
           destroyed == ok /\ (c.op = "destroyPermanently" \/ c.row.deleted)
<1>0. /\ models \in Models /\ Indexed(models) /\ cache \in [Id -> Nat] /\ NamesRecords(P)
      /\ InOrder(P) /\ AnswersAreRows(P) /\ CreationsArePending(P, models)
      /\ RemovedStaysRemoved(P, driver.rows) /\ CreationIsFirst(P, driver.rows, models)
      /\ Coheres(P, driver, models, cache, tainted, resetting)
  BY Types DEF CoherenceInv, Lives
<1>1. /\ answers # <<>> /\ answers' = Tail(answers)
      /\ c.op \in {"create", "update", "destroyPermanently"}
      /\ driver' = driver /\ calls' = calls /\ resetting' = resetting
      /\ models' = IF created THEN [models EXCEPT ![c.id][c.model].status = "live"] ELSE models
      /\ cache' = [cache EXCEPT ![c.id] =
                     IF created THEN c.model ELSE IF destroyed THEN 0 ELSE @]
      /\ tainted' = IF ok THEN tainted ELSE tainted \cup {c.id}
  BY DEF ResumeBatch, IsBatch
<1>2. /\ Leaves(P, Q, N) /\ N \in Nat /\ 1 \in DOMAIN P
      /\ P[1].call = c /\ P[1].ok = ok /\ P[1].done /\ ok \in BOOLEAN
  BY <1>1, Headed DEF Answered, Answer
<1>3. c.id \in Id /\ (c.op = "create" => c.row \in Row)
  BY <1>0, <1>1, <1>2 DEF NamesRecords
<1> HIDE DEF P, Q, N, c, ok
<1>4. P[1].found = {} /\ \A id \in Id : ~Shows(P[1], id)
  <2>1. P[1].found = {}
    BY <1>0, <1>1, <1>2 DEF AnswersAreRows
  <2> QED BY <2>1 DEF Shows
<1>5. /\ cache'[c.id] = IF created THEN c.model ELSE IF destroyed THEN 0 ELSE cache[c.id]
      /\ \A id \in Id : id # c.id => cache'[id] = cache[id] /\ models'[id] = models[id]
      /\ \A id \in Id : id # c.id => (id \in tainted' <=> id \in tainted)
  BY <1>0, <1>1, <1>3 DEF Models
<1>6. ASSUME NEW id \in Id, id # c.id
      PROVE  /\ Known(Q, id, driver.rows[id], cache'[id])
             /\ driver.adapter # "sqliteSync" =>
                  SentIsKnown(Q, id, driver.rows[id], driver.sent, cache'[id])
             /\ ~resetting => Current(Q, id, driver.rows[id], models'[id], cache'[id], tainted')
  <2>1. PICK row, st, mods, m, tn, tn2 :
          /\ row = driver.rows[id] /\ st = driver.sent /\ mods = models[id] /\ m = cache[id]
          /\ tn = tainted /\ tn2 = tainted'
    OBVIOUS
  <2>2. /\ Known(P, id, row, m)
        /\ driver.adapter # "sqliteSync" => SentIsKnown(P, id, row, st, m)
        /\ ~resetting => Current(P, id, row, mods, m, tn)
    BY <1>0, <2>1 DEF Coheres
  <2>3. ~Writes(P[1], id) /\ P[1].call.id # id
    BY <1>2, <1>6 DEF Writes
  <2>5. Shows(P[1], id) => m # 0
    BY <1>4
  <2>6. id \in tn2 <=> id \in tn
    BY <1>5, <1>6, <2>1
  <2>4. /\ Known(Q, id, row, m)
        /\ SentIsKnown(P, id, row, st, m) => SentIsKnown(Q, id, row, st, m)
        /\ Current(P, id, row, mods, m, tn) => Current(Q, id, row, mods, m, tn2)
    BY <1>2, <2>2, <2>3, <2>5, <2>6, LeavesOther
  <2> QED BY <1>5, <1>6, <2>1, <2>2, <2>4
<1>7. /\ Known(Q, c.id, driver.rows[c.id], cache'[c.id])
      /\ driver.adapter # "sqliteSync" =>
           SentIsKnown(Q, c.id, driver.rows[c.id], driver.sent, cache'[c.id])
      /\ ~resetting =>
           Current(Q, c.id, driver.rows[c.id], models'[c.id], cache'[c.id], tainted')
  <2>1. PICK id, r, row, st, mods, m, tn :
          /\ id = c.id /\ r = driver.rows /\ row = driver.rows[c.id] /\ st = driver.sent
          /\ mods = models[c.id] /\ m = cache[c.id] /\ tn = tainted
    OBVIOUS
  <2>2. /\ id \in Id
        /\ Known(P, id, row, m)
        /\ driver.adapter # "sqliteSync" => SentIsKnown(P, id, row, st, m)
        /\ ~resetting => Current(P, id, row, mods, m, tn)
    BY <1>0, <1>3, <2>1 DEF Coheres
  <2>3. CASE ~ok
    <3>1. PICK tn2 : tn2 = tainted'
      OBVIOUS
    <3>2. id \in tn2 /\ ~P[1].ok
      BY <1>1, <1>2, <2>1, <2>3, <3>1
    <3>3. /\ Known(Q, id, row, m)
          /\ SentIsKnown(P, id, row, st, m) => SentIsKnown(Q, id, row, st, m)
          /\ Current(P, id, row, mods, m, tn) => Current(Q, id, row, mods, m, tn2)
      BY <1>2, <1>4, <2>2, <3>2, LeavesFailed
    <3>4. models' = models /\ cache'[c.id] = cache[c.id]
      BY <1>1, <1>5, <2>3
    <3> QED BY <2>1, <2>2, <3>1, <3>3, <3>4
  <2>4. CASE created
    <3>1. Creates(P[1], id) /\ tainted' = tainted
      BY <1>1, <1>2, <2>1, <2>4 DEF Creates
    <3>2. PICK m2, mods2 : m2 = c.model /\ mods2 = models'[c.id]
      OBVIOUS
    <3>3. m2 \in DOMAIN mods /\ IsLive(P[1].call.row) /\ P[1].call.model = m2
      BY <1>0, <1>2, <2>1, <2>2, <3>1, <3>2 DEF CreationsArePending
    <3>4. m2 # 0
      BY <1>0, <2>1, <2>2, <3>3 DEF Indexed
    <3>5. \A k \in DOMAIN P : k > 1 => ~Writes(P[k], id)
      BY <1>0, <1>2, <2>2, <3>1 DEF CreationIsFirst
    <3>6. mods2[m2].ver = mods[m2].ver /\ mods2[m2].status = "live"
      <4> DEFINE M == [ver : 1..MaxVersion, status : Statuses]
      <4>1. mods \in Seq(M)
        BY <1>0, <2>1, <2>2 DEF Models
      <4>2. \A y \in M : /\ [y EXCEPT !.status = "live"].ver = y.ver
                         /\ [y EXCEPT !.status = "live"].status = "live"
        OBVIOUS
      <4> HIDE DEF M
      <4>3. mods[m2] \in M
        BY <3>3, <4>1
      <4>4. mods2[m2] = [mods[m2] EXCEPT !.status = "live"]
        BY <1>0, <1>1, <1>3, <2>1, <2>4, <3>2, <3>3 DEF Models
      <4> QED BY <4>2, <4>3, <4>4
    <3>7. P[1].call.row \in Row
      BY <1>2, <1>3, <2>4
    <3>8. /\ Known(Q, id, row, m2)
          /\ SentIsKnown(Q, id, row, st, m2)
          /\ Current(P, id, row, mods, m, tn) => Current(Q, id, row, mods2, m2, tn)
      BY <1>2, <2>2, <3>1, <3>3, <3>4, <3>5, <3>6, <3>7, LeavesCreated
    <3>9. cache'[c.id] = m2
      BY <1>5, <2>4, <3>2
    <3> QED BY <2>1, <2>2, <3>1, <3>2, <3>8, <3>9
  <2>5. CASE ~created /\ destroyed
    <3>1. Removes(P[1], id)
      BY <1>1, <1>2, <2>1, <2>5 DEF Removes
    <3>2. models' = models /\ cache'[c.id] = 0 /\ tainted' = tainted
      BY <1>1, <1>5, <2>5
    <3>3. RemovedStaysRemoved(P, r) /\ row = r[id]
      BY <1>0, <2>1
    <3>4. Known(P, id, r[id], m)
      BY <2>2, <3>3
    <3>5. /\ Known(Q, id, r[id], 0)
          /\ SentIsKnown(Q, id, r[id], st, 0)
          /\ Current(P, id, r[id], mods, m, tn) => Current(Q, id, r[id], mods, 0, tn)
      BY <1>0, <1>2, <2>2, <3>1, <3>3, <3>4, LeavesRemoved
    <3> QED BY <2>1, <2>2, <3>2, <3>3, <3>5
  <2>6. CASE ok /\ ~created /\ ~destroyed
    <3>1. Updates(P[1], id) /\ P[1].ok
      BY <1>1, <1>2, <2>1, <2>6 DEF Updates
    <3>2. models' = models /\ cache'[c.id] = cache[c.id] /\ tainted' = tainted
      BY <1>1, <1>5, <2>6
    <3>3. /\ Known(Q, id, row, m)
          /\ SentIsKnown(P, id, row, st, m) => SentIsKnown(Q, id, row, st, m)
          /\ Current(P, id, row, mods, m, tn) => Current(Q, id, row, mods, m, tn)
      BY <1>2, <1>4, <2>2, <3>1, LeavesUpdated
    <3> QED BY <2>1, <2>2, <3>2, <3>3
  <2> QED BY <2>3, <2>4, <2>5, <2>6
<1>8. Coheres(Q, driver, models', cache', tainted', resetting)
  <2>1. PICK ms2, ch2, tn2 : ms2 = models' /\ ch2 = cache' /\ tn2 = tainted'
    OBVIOUS
  <2>2. \A id \in Id : /\ Known(Q, id, driver.rows[id], ch2[id])
                       /\ driver.adapter # "sqliteSync" =>
                            SentIsKnown(Q, id, driver.rows[id], driver.sent, ch2[id])
                       /\ ~resetting => Current(Q, id, driver.rows[id], ms2[id], ch2[id], tn2)
    BY <1>6, <1>7, <2>1
  <2>3. Coheres(Q, driver, ms2, ch2, tn2, resetting)
    BY <1>0, <1>2, <2>2, LeaveCoheres
  <2> QED BY <2>1, <2>3
<1> QED BY <1>1, <1>8 DEF CoherenceInv, Q

-----------------------------------------------------------------------------
(* Every step keeps the caches coherent, and misses only what is deleted. *)

LEMMA InitCoheres ==
    ASSUME Init
    PROVE  CoherenceInv /\ OnlyDeletedMissed
<1> DEFINE P == LineOf(answers, calls)
<1>1. DOMAIN P = {}
  <2>1. Len(answers) = 0 /\ Len(calls) = 0
    BY DEF Init
  <2> QED BY <2>1 DEF LineOf
<1>2. driver.sent = {} /\ missed = {} /\ \A id \in Id : cache[id] = 0
  BY DEF Init
<1> HIDE DEF P
<1>3. AnswersFit(P) /\ \A k \in DOMAIN P : P[k].found = {}
  BY <1>1 DEF AnswersFit
<1>4. ASSUME NEW id \in Id
      PROVE  /\ Known(P, id, driver.rows[id], cache[id])
             /\ SentIsKnown(P, id, driver.rows[id], driver.sent, cache[id])
             /\ Current(P, id, driver.rows[id], models[id], cache[id], tainted)
  <2>1. Known(P, id, driver.rows[id], cache[id])
    BY <1>1 DEF Known, UpdatesMeetRecords, SeenIsCreated, BareIsKnown
  <2>2. SentIsKnown(P, id, driver.rows[id], driver.sent, cache[id])
    BY <1>2 DEF SentIsKnown
  <2>3. Current(P, id, driver.rows[id], models[id], cache[id], tainted)
    BY <1>1, <1>2 DEF Current, CreationsAreNew, ShownIsCurrent, DestroyedIsDeleted,
                     LastIsStored, LastIsCached, CachedIsStored
  <2> QED BY <2>1, <2>2, <2>3
<1> QED BY <1>2, <1>3, <1>4 DEF CoherenceInv, Coheres, OnlyDeletedMissed, P

LEMMA StepCoheres ==
    ASSUME CachingInv, CoherenceInv, "lokiSync" \notin Adapters, ~Stale, [Next]_vars
    PROVE  CoherenceInv'
<1>0. CachingInv'
  BY StepInv
<1>1. ASSUME NEW id \in Id, FetchRecord(id)
      PROVE  CoherenceInv'
  <2> DEFINE c == [Plain("find") EXCEPT !.id = id]
  <2>1. c \in Call /\ c.op = "find" /\ c.id = id
    BY FindIs DEF Ops
  <2>2. Fetch(c)
    BY <1>1 DEF FetchRecord
  <2> HIDE DEF c
  <2> QED BY <1>0, <2>1, <2>2, FetchCoheres
<1>2. CASE FetchQuery
  <2>1. Plain("query") \in Call /\ Plain("query").op = "query"
    BY PlainIs DEF Ops
  <2> QED BY <1>0, <1>2, <2>1, FetchCoheres DEF FetchQuery
<1>3. ASSUME NEW id \in Id, Create(id)
      PROVE  CoherenceInv'
  BY <1>0, <1>3, CreateCoheres
<1>4. ASSUME NEW id \in Id, DestroyDeletedRecords(id)
      PROVE  CoherenceInv'
  BY <1>0, <1>4, DestroyDeletedCoheres
<1>5. ASSUME NEW id \in Id, NEW m \in DOMAIN models[id],
             Update(id, m) \/ MarkAsDeleted(id, m) \/ DestroyPermanently(id, m)
      PROVE  CoherenceInv'
  BY <1>0, <1>5, ModelCoheres
<1>6. CASE Reset
  BY <1>0, <1>6, ResetCoheres
<1>7. CASE DriverStep
  BY <1>0, <1>7, DriverStepCoheres
<1>8. CASE Receive
  BY <1>8, ReceiveRecordsCoheres, ResumeBatchCoheres, ResumeResetCoheres, ReceiveOtherCoheres
     DEF Receive
<1>9. CASE UNCHANGED vars
  <2>1. /\ driver' = driver /\ calls' = calls /\ answers' = answers /\ models' = models
        /\ cache' = cache /\ resetting' = resetting /\ tainted' = tainted
    BY <1>9 DEF vars
  <2> QED BY <2>1 DEF CoherenceInv
<1> QED BY <1>1, <1>2, <1>3, <1>4, <1>5, <1>6, <1>7, <1>8, <1>9 DEF Next

(* A fetch inside the call: there is no bridge then. *)
LEMMA FetchMisses ==
    ASSUME NEW c, CachingInv, "lokiSync" \notin Adapters, Fetch(c), c \in Call,
           c.op \in {"find", "query"}, c.op = "find" => c.id \in Id
    PROVE  OnlyDeletedMissed'
<1>1. driver \in Drivers /\ (Synchronous <=> driver.adapter = "sqliteSync")
  BY Types, Coherent
<1>2. CASE ~Synchronous
  BY <1>2 DEF Fetch, OnlyDeletedMissed
<1>3. CASE Synchronous
  <2>1. driver' = Executed(driver, c)
    BY <1>1, <1>3 DEF Fetch, Recover, Loki
  <2>2. driver'.adapter = driver.adapter
    BY <1>1, <2>1, ExecutedIs
  <2>3. Synchronous'
    BY <1>3, <2>2 DEF Synchronous
  <2> QED BY <2>3 DEF OnlyDeletedMissed
<1> QED BY <1>2, <1>3

LEMMA StepMisses ==
    ASSUME CachingInv, CoherenceInv, OnlyDeletedMissed, "lokiSync" \notin Adapters, [Next]_vars
    PROVE  OnlyDeletedMissed'
<1>1. ASSUME NEW id \in Id, FetchRecord(id)
      PROVE  OnlyDeletedMissed'
  <2> DEFINE c == [Plain("find") EXCEPT !.id = id]
  <2>1. c \in Call /\ c.op = "find" /\ c.id = id
    BY FindIs DEF Ops
  <2>2. Fetch(c)
    BY <1>1 DEF FetchRecord
  <2> HIDE DEF c
  <2> QED BY <2>1, <2>2, FetchMisses
<1>2. CASE FetchQuery
  <2>1. Plain("query") \in Call /\ Plain("query").op = "query"
    BY PlainIs DEF Ops
  <2> QED BY <1>2, <2>1, FetchMisses DEF FetchQuery
<1>3. CASE missed' = {}
  BY <1>3 DEF OnlyDeletedMissed
<1>4. ASSUME NEW id \in Id, Create(id) \/ DestroyDeletedRecords(id)
      PROVE  missed' = {}
  BY <1>4 DEF Create, Batch, DestroyDeletedRecords
<1>5. ASSUME NEW id \in Id, NEW m \in DOMAIN models[id],
             Update(id, m) \/ MarkAsDeleted(id, m) \/ DestroyPermanently(id, m)
      PROVE  missed' = {}
  BY <1>5 DEF Update, MarkAsDeleted, DestroyPermanently, Batch
<1>6. CASE Reset \/ DriverStep \/ ResumeBatch \/ ResumeReset \/ ReceiveOther
  BY <1>3, <1>6 DEF Reset, DriverStep, ResumeBatch, ResumeReset, ReceiveOther
<1>7. CASE ReceiveRecords
  <2> DEFINE found == Head(answers).found
  <2>1. /\ answers # <<>> /\ Head(answers).call.op \in {"find", "query"} /\ Report(found)
    BY <1>7 DEF ReceiveRecords
  <2>2. \A y \in Misses(found) : ~IsLive(y.row)
    BY <2>1, HeadMisses
  <2> HIDE DEF found
  <2>3. \A x \in missed' : ~IsLive(x.row)
    BY <2>1, <2>2 DEF Report
  <2> QED BY <2>3 DEF OnlyDeletedMissed
<1>8. CASE UNCHANGED vars
  BY <1>8 DEF vars, OnlyDeletedMissed, Synchronous
<1> QED BY <1>1, <1>2, <1>3, <1>4, <1>5, <1>6, <1>7, <1>8 DEF Next, Receive

LEMMA CoherenceAlways ==
    ASSUME "lokiSync" \notin Adapters, ~Stale
    PROVE  Spec => [](CachingInv /\ CoherenceInv /\ OnlyDeletedMissed)
<1>1. Init => CachingInv /\ CoherenceInv /\ OnlyDeletedMissed
  BY InitInv, InitCoheres
<1>2. CachingInv /\ CoherenceInv /\ OnlyDeletedMissed /\ [Next]_vars =>
        (CachingInv /\ CoherenceInv /\ OnlyDeletedMissed)'
  BY StepInv, StepCoheres, StepMisses
<1> QED BY <1>1, <1>2, PTL DEF Spec

(* OnlyDeletedMissed: when the adapter answers with the id of a record alone,
   because it has sent the record before, and _cachedModelForId() has no Model
   for it, the record is deleted; no query can run into it.  The ids that the
   driver remembers and the Models that JavaScript holds come apart while batches
   are under way, and this is as far as they do (Collection/RecordCache.js).   *)
THEOREM OnlyDeletedAreMissed ==
    ASSUME "lokiSync" \notin Adapters, ~Stale
    PROVE  Spec => []OnlyDeletedMissed
<1>1. CachingInv /\ CoherenceInv /\ OnlyDeletedMissed => OnlyDeletedMissed
  OBVIOUS
<1> QED BY <1>1, CoherenceAlways, PTL

(* CacheIsCoherent: a cached Model is what the table holds whenever no call for
   its record is under way and none of its batches has failed, in whatever order
   updates, deletions, creations and fetches of it were sent and answered
   (Database.batch(), _applyChangesToCache(), Collection._fetchRecord()).     *)
THEOREM CachedIsTrue ==
    ASSUME "lokiSync" \notin Adapters, ~Stale
    PROVE  Spec => []CacheIsCoherent
<1>1. CachingInv /\ CoherenceInv /\ OnlyDeletedMissed => CacheIsCoherent
  <2> SUFFICES ASSUME CachingInv, CoherenceInv,
                      NEW id \in Id, id \notin tainted, cache[id] # 0,
                      \A c \in UnderWay : c.id # id, ~resetting
               PROVE  LET model == models[id][cache[id]]
                          row   == [ver |-> model.ver, deleted |-> model.status = "deleted"] IN
                      driver.rows[id] = row \/ (row.deleted /\ driver.rows[id] = NoRow)
    BY DEF CacheIsCoherent
  <2> DEFINE P == LineOf(answers, calls)
  <2>1. Plain("query") \in Call
    BY PlainIs DEF Ops
  <2>2. \A k \in DOMAIN P : P[k].call \in UnderWay
    BY <2>1, Asked
  <2>3. Coheres(P, driver, models, cache, tainted, resetting)
    BY DEF CoherenceInv
  <2> HIDE DEF P
  <2>4. \A k \in DOMAIN P : P[k].call.id # id
    BY <2>2
  <2>5. Sound(P, tainted, id) /\ \A k \in DOMAIN P : ~Writes(P[k], id)
    BY <2>4 DEF Sound, Writes
  <2>6. CachedIsStored(P, id, driver.rows[id], models[id], cache[id], tainted)
    BY <2>3 DEF Coheres, Current
  <2> QED BY <2>5, <2>6 DEF CachedIsStored, RowOf
<1> QED BY <1>1, CoherenceAlways, PTL

(* SentIsCached: behind a bridge, whenever nothing is under way every record that
   the driver takes for sent, and that queries can return, has its Model in the
   cache: the lists of ids that DatabaseDriver.cachedQuery() sends can always be
   turned into records.  Inside the call it is not so (MCRecordCachingSync).   *)
THEOREM SentStaysCached ==
    ASSUME Adapters \subseteq {"sqlite", "loki"}, ~Stale
    PROVE  Spec => []SentIsCached
<1>0. "lokiSync" \notin Adapters
  OBVIOUS
<1>1. CachingInv /\ CoherenceInv /\ OnlyDeletedMissed => SentIsCached
  <2> SUFFICES ASSUME CachingInv, CoherenceInv, calls = <<>>, answers = <<>>,
                      NEW id \in driver.sent, IsLive(driver.rows[id])
               PROVE  cache[id] # 0
    BY DEF SentIsCached, Quiescent
  <2> DEFINE P == LineOf(answers, calls)
  <2>1. DOMAIN P = {}
    <3>1. Len(answers) = 0 /\ Len(calls) = 0
      OBVIOUS
    <3> QED BY <3>1 DEF LineOf
  <2>2. id \in Id /\ driver.adapter # "sqliteSync"
    BY Types
  <2>3. Coheres(P, driver, models, cache, tainted, resetting)
    BY DEF CoherenceInv
  <2> HIDE DEF P
  <2>4. SentIsKnown(P, id, driver.rows[id], driver.sent, cache[id])
    BY <2>2, <2>3 DEF Coheres
  <2> QED BY <2>1, <2>4 DEF SentIsKnown
<1> QED BY <1>0, <1>1, CoherenceAlways, PTL
===============================================================================
