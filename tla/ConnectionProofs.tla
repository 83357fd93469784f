--------------------------- MODULE ConnectionProofs ---------------------------
(* Proofs about Connection, for every bridge, every range of schema versions, and
   any number of calls and launches: the driver has the tables of its schema, only
   a reset or missing migrations lose data, calls are answered in their order, and
   the caches of a working Database hold what is in the file.                *)
EXTENDS Connection, TLAPS

SetUpOps == {"initialize", "setUpWithSchema", "setUpWithMigrations", "settle"}

-----------------------------------------------------------------------------
(* The file has the tables of its version: migrations and set-ups are whole. *)

FileIsWhole == disk.tables = 1..disk.version /\ (disk.version = 0 => ~disk.data)

DriverFits == conn = "connected" => disk.version \in {0, app.schema}

(* The app has no migrations that begin at the version of the file, or was told of
   another version.                                                          *)
NoWay == \/ misread
         \/ disk.version > app.schema
         \/ \E v \in (disk.version + 1)..app.schema : v \notin app.steps

OlderFile == disk.version \in 1..(app.schema - 1)

-----------------------------------------------------------------------------
(* The set-up: one message or answer at a time, and what each has found. *)

IsSetUp(m) == m.op \in SetUpOps

SetUpFits(m) ==
    /\ m.op = "initialize" => conn = "none"
    /\ m.op = "setUpWithSchema" => conn = "waiting" /\ (disk.data => NoWay)
    /\ m.op = "setUpWithMigrations" =>
         conn = "waiting" /\ OlderFile /\ MigrationSteps(disk.version) # {}
    /\ m.op = "settle" => conn = IF m.ok THEN "connected" ELSE "none"

FoundFits(result) ==
    /\ result \in {"ok", "error", "schema_needed", "migrations_needed"}
    /\ result = "schema_needed" => conn = "waiting" /\ (disk.data => NoWay)
    /\ result = "migrations_needed" => conn = "waiting" /\ OlderFile

SetUpInv ==
    /\ \A k \in 1..Len(outbox) : SetUpFits(outbox[k])
    /\ \A k \in 1..Len(inbox) : inbox[k].id = 0 => FoundFits(inbox[k].result)
    /\ \A j, k \in 1..Len(outbox) : IsSetUp(outbox[j]) /\ IsSetUp(outbox[k]) => j = k
    /\ \A j, k \in 1..Len(inbox) : inbox[j].id = 0 /\ inbox[k].id = 0 => j = k
    /\ \A j \in 1..Len(outbox), k \in 1..Len(inbox) : ~(IsSetUp(outbox[j]) /\ inbox[k].id = 0)
    /\ \A k \in 2..Len(outbox) : outbox[k].op # "initialize"

-----------------------------------------------------------------------------
(* The calls on their way: answers, then those that wait for the connection, then
   those behind them.                                                        *)

IsSent(id, kind) == id \in Ids /\ calls[id].status = "sent" /\ calls[id].kind = kind

(* Each message is about a call that is not answered, or about the set-up. *)
SentInv ==
    /\ \A k \in 1..Len(outbox) :
         IF IsSetUp(outbox[k]) THEN outbox[k].id = 0 ELSE IsSent(outbox[k].id, outbox[k].op)
    /\ \A k \in 1..Len(waiting) : ~IsSetUp(waiting[k]) /\ IsSent(waiting[k].id, waiting[k].op)
    /\ \A k \in 1..Len(inbox) : inbox[k].id # 0 =>
         /\ calls[inbox[k].id].status = "sent"
         /\ inbox[k].result \in {"ok", "error", "record", "reset"}
    /\ \A id \in Ids : calls[id].kind = "none" <=> calls[id].status = "none"
    /\ \A i, j \in Ids : i < j /\ calls[i].kind = "none" => calls[j].kind = "none"
    /\ waiting # <<>> => conn = "waiting"

Ascends(s) == \A k, l \in 1..Len(s) : k < l /\ s[k].id # 0 /\ s[l].id # 0 => s[k].id < s[l].id
Precedes(s, t) == \A k \in 1..Len(s), l \in 1..Len(t) :
                    s[k].id # 0 /\ t[l].id # 0 => s[k].id < t[l].id
Has(s, id) == \E k \in 1..Len(s) : s[k].id = id

(* iOS has lost the call, and every call behind it. *)
Lost(id) ==
    /\ platform = "ios" /\ conn = "none"
    /\ \A k \in 1..Len(outbox) : outbox[k].op # "initialize"
    /\ \A k \in 1..Len(inbox) : inbox[k].id < id

LineInv ==
    /\ Ascends(inbox) /\ Ascends(waiting) /\ Ascends(outbox)
    /\ Precedes(inbox, waiting) /\ Precedes(inbox, outbox) /\ Precedes(waiting, outbox)
    /\ \A id \in Ids : calls[id].status = "sent" =>
         Has(inbox, id) \/ Has(waiting, id) \/ Has(outbox, id) \/ Lost(id)

-----------------------------------------------------------------------------
(* What JavaScript holds, or is about to. *)

Holds == held \/ \E k \in 1..Len(inbox) : inbox[k].result = "record"

(* The last call is a reset, and the only one under way. *)
ResetIsLast(r) ==
    /\ IsSent(r, "reset")
    /\ \A id \in Ids : id # r => ~IsSent(id, "reset")
    /\ \A id \in Ids : id > r => calls[id].kind = "none"

HeldInv ==
    /\ Holds => conn = "connected"
    /\ database # "resetting" => \A id \in Ids : ~IsSent(id, "reset")
    /\ database = "working" /\ Holds => disk.data
    /\ database = "resetting" => \E r \in Ids : ResetIsLast(r)
    /\ \A k \in 1..Len(inbox) :
         inbox[k].result = "reset" => calls[inbox[k].id].kind = "reset"

ConnectionInv == /\ TypeOK /\ FileIsWhole /\ DriverFits /\ SetUpInv /\ SentInv
                 /\ LineInv /\ HeldInv /\ AnswersInOrder

-----------------------------------------------------------------------------
(* Queues. *)

Popped(s, t) ==
    /\ Len(s) \in Nat \ {0} /\ Len(t) = Len(s) - 1
    /\ \A k \in 1..Len(t) : t[k] = s[k + 1]

Pushed(s, t, x) ==
    /\ Len(s) \in Nat /\ Len(t) = Len(s) + 1
    /\ \A k \in 1..Len(s) : t[k] = s[k]
    /\ t[Len(s) + 1] = x

(* n is w, then m in the place of the head of o, then the rest of o. *)
Spliced(w, m, o, n) ==
    /\ Len(w) \in Nat /\ Len(o) \in Nat \ {0} /\ Len(n) = Len(w) + Len(o)
    /\ \A k \in 1..Len(w) : n[k] = w[k]
    /\ n[Len(w) + 1] = m
    /\ \A k \in (Len(w) + 2)..Len(n) : n[k] = o[k - Len(w)]

LEMMA TailIs ==
    ASSUME NEW S, NEW s \in Seq(S), s # <<>>
    PROVE  Popped(s, Tail(s)) /\ Tail(s) \in Seq(S) /\ Head(s) = s[1] /\ s[1] \in S
  BY DEF Popped

LEMMA AppendIs ==
    ASSUME NEW S, NEW s \in Seq(S), NEW x \in S
    PROVE  Pushed(s, Append(s, x), x) /\ Append(s, x) \in Seq(S)
  BY DEF Pushed

LEMMA ConcatIs ==
    ASSUME NEW S, NEW s \in Seq(S), NEW t \in Seq(S)
    PROVE  /\ s \o t \in Seq(S)
           /\ Len(s) \in Nat /\ Len(t) \in Nat /\ Len(s \o t) = Len(s) + Len(t)
           /\ \A k \in 1..Len(s) : (s \o t)[k] = s[k]
           /\ \A k \in (Len(s) + 1)..(Len(s) + Len(t)) : (s \o t)[k] = t[k - Len(s)]
  OBVIOUS

LEMMA SpliceIs ==
    ASSUME NEW S, NEW w \in Seq(S), NEW m \in S, NEW o \in Seq(S), o # <<>>
    PROVE  Spliced(w, m, o, w \o <<m>> \o Tail(o)) /\ w \o <<m>> \o Tail(o) \in Seq(S)
<1>1. <<m>> \in Seq(S) /\ Len(<<m>>) = 1 /\ <<m>>[1] = m
  OBVIOUS
<1>2. Popped(o, Tail(o)) /\ Tail(o) \in Seq(S)
  BY TailIs
<1> DEFINE one == <<m>>  t == Tail(o)  u == w \o one  n == u \o t
<1> HIDE DEF one, t
<1>3. /\ u \in Seq(S) /\ Len(w) \in Nat /\ Len(u) = Len(w) + 1
      /\ \A k \in 1..Len(w) : u[k] = w[k]
      /\ u[Len(w) + 1] = m
  BY <1>1, ConcatIs DEF one
<1> HIDE DEF u
<1>4. /\ n \in Seq(S) /\ Len(n) = Len(u) + Len(t)
      /\ \A k \in 1..Len(u) : n[k] = u[k]
      /\ \A k \in (Len(u) + 1)..(Len(u) + Len(t)) : n[k] = t[k - Len(u)]
  BY <1>2, <1>3, ConcatIs DEF t
<1> HIDE DEF n
<1>5. /\ Len(o) \in Nat \ {0} /\ Len(t) = Len(o) - 1
      /\ \A k \in 1..Len(t) : t[k] = o[k + 1]
  BY <1>2 DEF t, Popped
<1>6. Len(n) = Len(w) + Len(o)
  BY <1>3, <1>4, <1>5
<1>7. \A k \in 1..Len(w) : n[k] = w[k]
  BY <1>3, <1>4
<1>8. n[Len(w) + 1] = m
  BY <1>3, <1>4
<1>9. ASSUME NEW k \in (Len(w) + 2)..Len(n) PROVE n[k] = o[k - Len(w)]
  <2>1. k \in (Len(u) + 1)..(Len(u) + Len(t)) /\ k - Len(u) \in 1..Len(t)
        /\ k - Len(u) + 1 = k - Len(w)
    BY <1>3, <1>4, <1>5, <1>6, <1>9
  <2>2. n[k] = t[k - Len(u)] /\ t[k - Len(u)] = o[k - Len(u) + 1]
    BY <1>4, <1>5, <2>1
  <2> QED
    BY <2>1, <2>2
<1>10. Spliced(w, m, o, n)
  BY <1>3, <1>5, <1>6, <1>7, <1>8, <1>9 DEF Spliced
<1> QED
  BY <1>4, <1>10 DEF n, u, one, t

(* With no queue in between the first message is replaced. *)
LEMMA HeadIs ==
    ASSUME NEW S, NEW m \in S, NEW o \in Seq(S), o # <<>>
    PROVE  Spliced(<<>>, m, o, <<>> \o <<m>> \o Tail(o)) /\ <<>> \o <<m>> \o Tail(o) \in Seq(S)
<1>1. <<>> \in Seq(S)
  OBVIOUS
<1> QED
  BY <1>1, SpliceIs

-----------------------------------------------------------------------------
(* The app, its migrations, and the types of the messages. *)

AnswerType == [id : 0..MaxCalls, result : Results]

LEMMA AppIs ==
    ASSUME NEW x \in Apps
    PROVE  /\ x.schema \in Versions /\ x.debug \in Debug
           /\ \E m \in 2..(x.schema + 1) : x.steps = m..x.schema
<1>1. PICK v \in Versions : x \in [schema : {v}, steps : {m..v : m \in 2..(v + 1)}, debug : Debug]
  BY DEF Apps
<1> QED
  BY <1>1

LEMMA StepsAre ==
    ASSUME app \in Apps, NEW from \in 0..MaxVersion
    PROVE  /\ MigrationSteps(from) \subseteq Versions
           /\ from \in 1..(app.schema - 1) =>
                IF MigrationSteps(from) = {}
                THEN \E v \in (from + 1)..app.schema : v \notin app.steps
                ELSE MigrationSteps(from) = (from + 1)..app.schema
<1>1. app.schema \in Versions /\ app.schema \in Nat /\ MaxVersion \in Nat /\ from \in Nat
  BY AppIs, ConnectionAssumption DEF Versions
<1>2. PICK m \in 2..(app.schema + 1) : app.steps = m..app.schema
  BY AppIs
<1>3. MigrationSteps(from) \subseteq Versions
  BY <1>1, <1>2 DEF MigrationSteps, Versions
<1>4. ASSUME m <= app.schema PROVE Min(app.steps) = m /\ Max(app.steps) = app.schema
  <2>1. m \in app.steps /\ \A y \in app.steps : m =< y
    BY <1>1, <1>2, <1>4
  <2>2. app.schema \in app.steps /\ \A y \in app.steps : app.schema >= y
    BY <1>1, <1>2, <1>4
  <2>3. Min(app.steps) \in app.steps /\ \A y \in app.steps : Min(app.steps) =< y
    BY <2>1 DEF Min
  <2>4. Max(app.steps) \in app.steps /\ \A y \in app.steps : Max(app.steps) >= y
    BY <2>2 DEF Max
  <2>5. Min(app.steps) \in Int /\ Max(app.steps) \in Int
    BY <1>2, <2>3, <2>4
  <2>6. Min(app.steps) =< m /\ m =< Min(app.steps)
    BY <2>1, <2>3
  <2>7. Max(app.steps) >= app.schema /\ app.schema >= Max(app.steps)
    BY <2>2, <2>4
  <2> QED
    BY <1>1, <2>5, <2>6, <2>7
<1>5. ASSUME from \in 1..(app.schema - 1), m <= from + 1
      PROVE  MigrationSteps(from) = (from + 1)..app.schema
  <2>1. m <= app.schema
    BY <1>1, <1>5
  <2>2. app.schema \in app.steps
    BY <1>1, <1>2, <2>1
  <2>3. Min(app.steps) = m /\ Max(app.steps) = app.schema
    BY <1>4, <2>1
  <2>4. MigrationSteps(from) = {v \in app.steps : v > from /\ v <= app.schema}
    <3>1. ~(from < m - 1) /\ ~(app.schema > app.schema) /\ app.steps # {}
      BY <1>1, <1>5, <2>2
    <3> QED
      BY <2>3, <3>1 DEF MigrationSteps
  <2> QED
    BY <1>1, <1>2, <1>5, <2>4
<1>6. ASSUME from \in 1..(app.schema - 1), m > from + 1
      PROVE  /\ \E v \in (from + 1)..app.schema : v \notin app.steps
             /\ MigrationSteps(from) = {}
  <2>1. from + 1 \in (from + 1)..app.schema /\ from + 1 \notin app.steps
    BY <1>1, <1>2, <1>6
  <2>2. CASE m <= app.schema
    <3>1. Min(app.steps) = m
      BY <1>4, <2>2
    <3>2. from < m - 1
      BY <1>1, <1>6
    <3> QED
      BY <2>1, <3>1, <3>2 DEF MigrationSteps
  <2>3. CASE m > app.schema
    <3>1. app.steps = {}
      BY <1>1, <1>2, <2>3
    <3> QED
      BY <2>1, <3>1 DEF MigrationSteps
  <2> QED
    BY <1>1, <2>1, <2>2, <2>3
<1>7. from \in 1..(app.schema - 1) => from + 1 \in (from + 1)..app.schema
  BY <1>1
<1>8. m <= from + 1 \/ m > from + 1
  BY <1>1
<1> QED
  BY <1>3, <1>5, <1>6, <1>7, <1>8

LEMMA TypeIs ==
    ASSUME TypeOK
    PROVE  /\ app \in Apps /\ disk \in Files /\ platform \in Platform
           /\ disk.version \in 0..MaxVersion
           /\ waiting \in Seq(Messages) /\ outbox \in Seq(Messages)
           /\ inbox \in Seq(AnswerType)
           /\ calls \in [Ids -> [kind : {"none"} \cup Kinds,
                                 status : {"none", "sent", "ok", "error"}]]
           /\ \A k \in 1..Len(outbox) : outbox[k] \in Messages
           /\ \A k \in 1..Len(waiting) : waiting[k] \in Messages
           /\ \A k \in 1..Len(inbox) : inbox[k] \in AnswerType
<1>1. /\ app \in Apps /\ disk \in Files /\ platform \in Platform
      /\ waiting \in Seq(Messages) /\ outbox \in Seq(Messages)
      /\ inbox \in Seq(AnswerType)
      /\ calls \in [Ids -> [kind : {"none"} \cup Kinds,
                            status : {"none", "sent", "ok", "error"}]]
  BY DEF TypeOK, AnswerType
<1>2. disk.version \in 0..MaxVersion
  BY <1>1 DEF Files
<1>3. /\ \A k \in 1..Len(outbox) : outbox[k] \in Messages
      /\ \A k \in 1..Len(waiting) : waiting[k] \in Messages
      /\ \A k \in 1..Len(inbox) : inbox[k] \in AnswerType
  BY <1>1
<1> QED
  BY <1>1, <1>2, <1>3

LEMMA MessagesAre ==
    /\ \A op \in Kinds \cup SetUpOps : Message(op) \in Messages /\ Message(op).id = 0
         /\ Message(op).op = op /\ Message(op).ok /\ ~Message(op).create
    /\ \A id \in 0..MaxCalls, result \in Results : Answer(id, result) \in AnswerType
         /\ Answer(id, result).id = id /\ Answer(id, result).result = result
  BY ConnectionAssumption DEF Message, Messages, Answer, AnswerType, SetUpOps, Kinds

LEMMA HeadOf ==
    ASSUME TypeOK, outbox # <<>>
    PROVE  /\ Head(outbox) = outbox[1] /\ 1 \in 1..Len(outbox)
           /\ Popped(outbox, Tail(outbox)) /\ Tail(outbox) \in Seq(Messages)
           /\ outbox[1] \in Messages /\ outbox[1].id \in 0..MaxCalls
  BY TypeIs, TailIs DEF Popped, Messages

LEMMA FirstAnswer ==
    ASSUME TypeOK, inbox # <<>>
    PROVE  /\ Head(inbox) = inbox[1] /\ 1 \in 1..Len(inbox)
           /\ Popped(inbox, Tail(inbox)) /\ Tail(inbox) \in Seq(AnswerType)
           /\ inbox[1] \in AnswerType /\ inbox[1].id \in 0..MaxCalls
           /\ inbox[1].result \in Results
  BY TypeIs, TailIs DEF Popped, AnswerType

-----------------------------------------------------------------------------
(* The order of the calls, when a message moves. *)

LEMMA PoppedOrder ==
    ASSUME NEW s, NEW t, Popped(s, t)
    PROVE  /\ Ascends(s) => Ascends(t)
           /\ \A u : Precedes(s, u) => Precedes(t, u)
           /\ \A u : Precedes(u, s) => Precedes(u, t)
           /\ \A id : Has(s, id) => s[1].id = id \/ Has(t, id)
<1>1. /\ \A k \in 1..Len(t) : k + 1 \in 1..Len(s) /\ t[k] = s[k + 1]
      /\ \A k \in 1..Len(s) : k # 1 => k - 1 \in 1..Len(t) /\ t[k - 1] = s[k]
  BY DEF Popped
<1>2. ASSUME Ascends(s), NEW k \in 1..Len(t), NEW l \in 1..Len(t), k < l,
             t[k].id # 0, t[l].id # 0
      PROVE  t[k].id < t[l].id
  <2>1. /\ k + 1 \in 1..Len(s) /\ l + 1 \in 1..Len(s) /\ k + 1 < l + 1
        /\ t[k] = s[k + 1] /\ t[l] = s[l + 1]
    BY <1>1, <1>2
  <2> QED
    BY <1>2, <2>1 DEF Ascends
<1>3. \A u : Precedes(s, u) => Precedes(t, u)
  BY <1>1 DEF Precedes
<1>4. \A u : Precedes(u, s) => Precedes(u, t)
  BY <1>1 DEF Precedes
<1>5. \A id : Has(s, id) => s[1].id = id \/ Has(t, id)
  BY <1>1 DEF Has
<1> QED
  BY <1>2, <1>3, <1>4, <1>5 DEF Ascends

LEMMA PushedOrder ==
    ASSUME NEW s, NEW t, NEW x, Pushed(s, t, x)
    PROVE  /\ Ascends(s) /\ (\A k \in 1..Len(s) : s[k].id # 0 /\ x.id # 0 => s[k].id < x.id)
                => Ascends(t)
           /\ \A u : Precedes(s, u)
                     /\ (\A l \in 1..Len(u) : x.id # 0 /\ u[l].id # 0 => x.id < u[l].id)
                => Precedes(t, u)
           /\ \A u : Precedes(u, s)
                     /\ (\A l \in 1..Len(u) : x.id # 0 /\ u[l].id # 0 => u[l].id < x.id)
                => Precedes(u, t)
           /\ \A id : Has(s, id) \/ x.id = id => Has(t, id)
<1>1. /\ \A k \in 1..Len(t) : \/ k \in 1..Len(s) /\ t[k] = s[k]
                              \/ k = Len(s) + 1 /\ t[k] = x
      /\ \A k \in 1..Len(s) : k \in 1..Len(t) /\ t[k] = s[k]
      /\ Len(s) + 1 \in 1..Len(t) /\ t[Len(s) + 1] = x
  BY DEF Pushed
<1>2. ASSUME Ascends(s), \A k \in 1..Len(s) : s[k].id # 0 /\ x.id # 0 => s[k].id < x.id,
             NEW k \in 1..Len(t), NEW l \in 1..Len(t), k < l, t[k].id # 0, t[l].id # 0
      PROVE  t[k].id < t[l].id
  <2>1. k \in 1..Len(s) /\ t[k] = s[k]
    BY <1>1, <1>2 DEF Pushed
  <2> QED
    BY <1>1, <1>2, <2>1 DEF Ascends
<1>3. \A u : Precedes(s, u)
             /\ (\A l \in 1..Len(u) : x.id # 0 /\ u[l].id # 0 => x.id < u[l].id)
        => Precedes(t, u)
  BY <1>1 DEF Precedes
<1>4. \A u : Precedes(u, s)
             /\ (\A l \in 1..Len(u) : x.id # 0 /\ u[l].id # 0 => u[l].id < x.id)
        => Precedes(u, t)
  BY <1>1 DEF Precedes
<1>5. \A id : Has(s, id) \/ x.id = id => Has(t, id)
  BY <1>1 DEF Has
<1> QED
  BY <1>2, <1>3, <1>4, <1>5 DEF Ascends

LEMMA SplicedOrder ==
    ASSUME NEW w, NEW m, NEW o, NEW n, Spliced(w, m, o, n), m.id = 0, o[1].id = 0
    PROVE  /\ Ascends(w) /\ Ascends(o) /\ Precedes(w, o) => Ascends(n)
           /\ \A u : Precedes(u, w) /\ Precedes(u, o) => Precedes(u, n)
           /\ \A id : Has(w, id) \/ Has(o, id) => Has(n, id)
<1>1. \A k \in 1..Len(n) : \/ k \in 1..Len(w) /\ n[k] = w[k]
                           \/ k = Len(w) + 1 /\ n[k].id = 0
                           \/ k - Len(w) \in 1..Len(o) /\ k > Len(w) + 1 /\ n[k] = o[k - Len(w)]
  BY DEF Spliced
<1>2. /\ \A k \in 1..Len(w) : k \in 1..Len(n) /\ n[k] = w[k]
      /\ \A k \in 1..Len(o) : Len(w) + k \in 1..Len(n) /\ n[Len(w) + k].id = o[k].id
  <2>1. ASSUME NEW k \in 1..Len(o), k # 1 PROVE Len(w) + k \in 1..Len(n) /\ n[Len(w) + k] = o[k]
    <3>1. Len(w) + k \in (Len(w) + 2)..Len(n) /\ Len(w) + k - Len(w) = k
      BY <2>1 DEF Spliced
    <3> QED
      BY <3>1 DEF Spliced
  <2>2. Len(w) + 1 \in 1..Len(n) /\ n[Len(w) + 1].id = 0
    BY DEF Spliced
  <2> QED
    BY <2>1, <2>2 DEF Spliced
<1>3. ASSUME Ascends(w), Ascends(o), Precedes(w, o),
             NEW k \in 1..Len(n), NEW l \in 1..Len(n), k < l, n[k].id # 0, n[l].id # 0
      PROVE  n[k].id < n[l].id
  <2>1. CASE k \in 1..Len(w) /\ n[k] = w[k]
    <3>1. CASE l \in 1..Len(w) /\ n[l] = w[l]
      BY <1>3, <2>1, <3>1 DEF Ascends
    <3>2. CASE l - Len(w) \in 1..Len(o) /\ n[l] = o[l - Len(w)]
      BY <1>3, <2>1, <3>2 DEF Precedes
    <3> QED
      BY <1>1, <1>3, <3>1, <3>2
  <2>2. CASE k - Len(w) \in 1..Len(o) /\ k > Len(w) + 1 /\ n[k] = o[k - Len(w)]
    <3>1. l - Len(w) \in 1..Len(o) /\ n[l] = o[l - Len(w)] /\ k - Len(w) < l - Len(w)
      BY <1>1, <1>3, <2>2 DEF Spliced
    <3> QED
      BY <1>3, <2>2, <3>1 DEF Ascends
  <2> QED
    BY <1>1, <1>3, <2>1, <2>2
<1>4. ASSUME NEW u, Precedes(u, w), Precedes(u, o) PROVE Precedes(u, n)
  <2>1. ASSUME NEW l \in 1..Len(u), NEW k \in 1..Len(n), u[l].id # 0, n[k].id # 0
        PROVE  u[l].id < n[k].id
    <3>1. CASE k \in 1..Len(w) /\ n[k] = w[k]
      BY <1>4, <2>1, <3>1 DEF Precedes
    <3>2. CASE k - Len(w) \in 1..Len(o) /\ n[k] = o[k - Len(w)]
      BY <1>4, <2>1, <3>2 DEF Precedes
    <3> QED
      BY <1>1, <2>1, <3>1, <3>2
  <2> QED
    BY <2>1 DEF Precedes
<1>5. \A id : Has(w, id) \/ Has(o, id) => Has(n, id)
  BY <1>2 DEF Has
<1> QED
  BY <1>3, <1>4, <1>5 DEF Ascends

(* What the steps have in common: the bridge and the calls of one launch. *)
StaysLost == \A id \in Ids : Lost(id) => Lost(id)'

(* The bridge answers the message at the head of outbox. *)
LEMMA AnsweredLine ==
    ASSUME LineInv, NEW a, Popped(outbox, outbox'), Pushed(inbox, inbox', a),
           a.id = outbox[1].id, UNCHANGED <<waiting, calls>>,
           a.id = 0 \/ Len(waiting) = 0, StaysLost
    PROVE  LineInv'
<1>1. \A l \in 1..Len(outbox') : a.id # 0 /\ outbox'[l].id # 0 => a.id < outbox'[l].id
  <2>1. ASSUME NEW l \in 1..Len(outbox'), a.id # 0, outbox'[l].id # 0
        PROVE  a.id < outbox'[l].id
    <3>1. 1 \in 1..Len(outbox) /\ l + 1 \in 1..Len(outbox) /\ 1 < l + 1 /\ outbox'[l] = outbox[l + 1]
      BY DEF Popped
    <3> QED
      BY <2>1, <3>1 DEF LineInv, Ascends
  <2> QED
    BY <2>1
<1>2. \A k \in 1..Len(inbox) : inbox[k].id # 0 /\ a.id # 0 => inbox[k].id < a.id
  BY DEF LineInv, Precedes, Popped
<1>3. /\ Ascends(outbox') /\ Precedes(inbox, outbox') /\ Precedes(waiting, outbox')
      /\ \A id : Has(outbox, id) => a.id = id \/ Has(outbox', id)
  BY PoppedOrder DEF LineInv
<1>4. /\ Ascends(inbox') /\ Precedes(inbox', outbox')
      /\ \A id : Has(inbox, id) \/ a.id = id => Has(inbox', id)
  BY <1>1, <1>2, <1>3, PushedOrder DEF LineInv
<1>5. Precedes(inbox', waiting)
  <2>1. \A l \in 1..Len(waiting) : a.id = 0
    OBVIOUS
  <2> QED
    BY <2>1, PushedOrder DEF LineInv
<1>6. ASSUME NEW id \in Ids, calls[id].status = "sent"
      PROVE  Has(inbox', id) \/ Has(waiting, id) \/ Has(outbox', id) \/ Lost(id)'
  BY <1>3, <1>4, <1>6 DEF LineInv, StaysLost
<1> QED
  BY <1>3, <1>4, <1>5, <1>6 DEF LineInv

(* A connection that is being set up: the call at the head of outbox waits. *)
LEMMA EnqueuedLine ==
    ASSUME LineInv, NEW m, Popped(outbox, outbox'), Pushed(waiting, waiting', m),
           m.id = outbox[1].id, UNCHANGED <<inbox, calls>>, StaysLost
    PROVE  LineInv'
<1>1. \A l \in 1..Len(outbox') : m.id # 0 /\ outbox'[l].id # 0 => m.id < outbox'[l].id
  <2>1. ASSUME NEW l \in 1..Len(outbox'), m.id # 0, outbox'[l].id # 0
        PROVE  m.id < outbox'[l].id
    <3>1. 1 \in 1..Len(outbox) /\ l + 1 \in 1..Len(outbox) /\ 1 < l + 1 /\ outbox'[l] = outbox[l + 1]
      BY DEF Popped
    <3> QED
      BY <2>1, <3>1 DEF LineInv, Ascends
  <2> QED
    BY <2>1
<1>2. /\ \A k \in 1..Len(inbox) : inbox[k].id # 0 /\ m.id # 0 => inbox[k].id < m.id
      /\ \A k \in 1..Len(waiting) : waiting[k].id # 0 /\ m.id # 0 => waiting[k].id < m.id
  BY DEF LineInv, Precedes, Popped
<1>3. /\ Ascends(outbox') /\ Precedes(inbox, outbox') /\ Precedes(waiting, outbox')
      /\ \A id : Has(outbox, id) => m.id = id \/ Has(outbox', id)
  BY PoppedOrder DEF LineInv
<1>4. /\ Ascends(waiting') /\ Precedes(waiting', outbox')
      /\ \A id : Has(waiting, id) \/ m.id = id => Has(waiting', id)
  BY <1>1, <1>2, <1>3, PushedOrder DEF LineInv
<1>5. Precedes(inbox, waiting')
  BY <1>2, PushedOrder DEF LineInv
<1>6. ASSUME NEW id \in Ids, calls[id].status = "sent"
      PROVE  Has(inbox, id) \/ Has(waiting', id) \/ Has(outbox', id) \/ Lost(id)'
  BY <1>3, <1>4, <1>6 DEF LineInv, StaysLost
<1> QED
  BY <1>3, <1>4, <1>5, <1>6 DEF LineInv

(* The calls that waited run before those behind the set-up. *)
LEMMA ConnectedLine ==
    ASSUME LineInv, NEW m, Spliced(waiting, m, outbox, outbox'), m.id = 0, outbox[1].id = 0,
           Len(waiting') = 0, UNCHANGED <<inbox, calls>>, StaysLost
    PROVE  LineInv'
<1>1. /\ Ascends(outbox') /\ Precedes(inbox, outbox')
      /\ \A id : Has(waiting, id) \/ Has(outbox, id) => Has(outbox', id)
  BY SplicedOrder DEF LineInv
<1>2. Ascends(waiting') /\ Precedes(inbox, waiting') /\ Precedes(waiting', outbox')
  BY DEF Ascends, Precedes
<1>3. ASSUME NEW id \in Ids, calls[id].status = "sent"
      PROVE  Has(inbox, id) \/ Has(waiting', id) \/ Has(outbox', id) \/ Lost(id)'
  BY <1>1, <1>3 DEF LineInv, StaysLost
<1> QED
  BY <1>1, <1>2, <1>3 DEF LineInv

(* The head of outbox is replaced, and the calls that waited are lost at most. *)
LEMMA ReplacedLine ==
    ASSUME LineInv, Len(outbox') = Len(outbox),
           \A k \in 1..Len(outbox) : outbox'[k].id = outbox[k].id,
           waiting' = waiting \/ Len(waiting') = 0,
           \A id \in Ids : Has(waiting, id) => Has(waiting', id) \/ Lost(id)',
           UNCHANGED <<inbox, calls>>, StaysLost
    PROVE  LineInv'
<1>1. Ascends(outbox') /\ Precedes(inbox, outbox')
  BY DEF LineInv, Ascends, Precedes
<1>2. Ascends(waiting') /\ Precedes(inbox, waiting') /\ Precedes(waiting', outbox')
  <2>1. CASE waiting' = waiting
    BY <2>1 DEF LineInv, Ascends, Precedes
  <2>2. CASE Len(waiting') = 0
    BY <2>2 DEF Ascends, Precedes
  <2> QED
    BY <2>1, <2>2
<1>3. \A id : Has(outbox, id) => Has(outbox', id)
  BY DEF Has
<1>4. ASSUME NEW id \in Ids, calls[id].status = "sent"
      PROVE  Has(inbox, id) \/ Has(waiting', id) \/ Has(outbox', id) \/ Lost(id)'
  BY <1>3, <1>4 DEF LineInv, StaysLost
<1> QED
  BY <1>1, <1>2, <1>4 DEF LineInv

(* The call at the head of outbox is lost. *)
LEMMA DroppedLine ==
    ASSUME LineInv, Popped(outbox, outbox'), UNCHANGED <<inbox, waiting, calls>>, StaysLost,
           \A id \in Ids : outbox[1].id = id => Lost(id)'
    PROVE  LineInv'
<1>1. /\ Ascends(outbox') /\ Precedes(inbox, outbox') /\ Precedes(waiting, outbox')
      /\ \A id : Has(outbox, id) => outbox[1].id = id \/ Has(outbox', id)
  BY PoppedOrder DEF LineInv
<1>2. ASSUME NEW id \in Ids, calls[id].status = "sent"
      PROVE  Has(inbox, id) \/ Has(waiting, id) \/ Has(outbox', id) \/ Lost(id)'
  BY <1>1, <1>2 DEF LineInv, StaysLost
<1> QED
  BY <1>1, <1>2 DEF LineInv

(* JavaScript takes an answer about the set-up, and may go on with it. *)
LEMMA SetUpLine ==
    ASSUME LineInv, Popped(inbox, inbox'), inbox[1].id = 0,
           \/ outbox' = outbox
           \/ \E m : m.id = 0 /\ Pushed(outbox, outbox', m),
           UNCHANGED <<waiting, calls>>, StaysLost
    PROVE  LineInv'
<1>1. /\ Ascends(inbox') /\ Precedes(inbox', waiting) /\ Precedes(inbox', outbox)
      /\ \A id : Has(inbox, id) => 0 = id \/ Has(inbox', id)
  BY PoppedOrder DEF LineInv
<1>2. /\ Ascends(outbox') /\ Precedes(inbox', outbox') /\ Precedes(waiting, outbox')
      /\ \A id : Has(outbox, id) => Has(outbox', id)
  <2>1. CASE outbox' = outbox
    BY <1>1, <2>1 DEF LineInv
  <2>2. ASSUME NEW m, m.id = 0, Pushed(outbox, outbox', m)
        PROVE  /\ Ascends(outbox') /\ Precedes(inbox', outbox') /\ Precedes(waiting, outbox')
               /\ \A id : Has(outbox, id) => Has(outbox', id)
    BY <1>1, <2>2, PushedOrder DEF LineInv
  <2> QED
    BY <2>1, <2>2
<1>3. ASSUME NEW id \in Ids, calls[id].status = "sent"
      PROVE  Has(inbox', id) \/ Has(waiting, id) \/ Has(outbox', id) \/ Lost(id)'
  <2>1. id # 0
    BY DEF Ids
  <2> QED
    BY <1>1, <1>2, <1>3, <2>1 DEF LineInv, StaysLost
<1> QED
  BY <1>1, <1>2, <1>3 DEF LineInv

(* JavaScript takes the answer to a call. *)
LEMMA CallAnsweredLine ==
    ASSUME LineInv, Popped(inbox, inbox'), UNCHANGED <<waiting, outbox>>, StaysLost,
           \A id \in Ids : calls'[id].status = "sent" =>
             calls[id].status = "sent" /\ id # inbox[1].id
    PROVE  LineInv'
<1>1. /\ Ascends(inbox') /\ Precedes(inbox', waiting) /\ Precedes(inbox', outbox)
      /\ \A id : Has(inbox, id) => inbox[1].id = id \/ Has(inbox', id)
  BY PoppedOrder DEF LineInv
<1>2. ASSUME NEW id \in Ids, calls'[id].status = "sent"
      PROVE  Has(inbox', id) \/ Has(waiting, id) \/ Has(outbox, id) \/ Lost(id)'
  BY <1>1, <1>2 DEF LineInv, StaysLost
<1> QED
  BY <1>1, <1>2 DEF LineInv

(* A new call goes behind all others. *)
LEMMA NewLine ==
    ASSUME LineInv, NEW m, Pushed(outbox, outbox', m), UNCHANGED <<inbox, waiting>>, StaysLost,
           \A id \in Ids : calls'[id].status = "sent" => calls[id].status = "sent" \/ id = m.id,
           \A k \in 1..Len(inbox) : inbox[k].id < m.id,
           \A k \in 1..Len(waiting) : waiting[k].id < m.id,
           \A k \in 1..Len(outbox) : outbox[k].id < m.id
    PROVE  LineInv'
<1>1. /\ Ascends(outbox') /\ Precedes(inbox, outbox') /\ Precedes(waiting, outbox')
      /\ \A id : Has(outbox, id) \/ m.id = id => Has(outbox', id)
  BY PushedOrder DEF LineInv
<1>2. ASSUME NEW id \in Ids, calls'[id].status = "sent"
      PROVE  Has(inbox, id) \/ Has(waiting, id) \/ Has(outbox', id) \/ Lost(id)'
  BY <1>1, <1>2 DEF LineInv, StaysLost
<1> QED
  BY <1>1, <1>2 DEF LineInv

-----------------------------------------------------------------------------
(* The set-up and the messages, when a message moves. *)

LEMMA PoppedElements ==
    ASSUME NEW s, NEW t, Popped(s, t)
    PROVE  \A k \in 1..Len(t) : \E j \in 1..Len(s) : t[k] = s[j]
<1>1. \A k \in 1..Len(t) : k + 1 \in 1..Len(s) /\ t[k] = s[k + 1]
  BY DEF Popped
<1> QED
  BY <1>1

LEMMA PushedElements ==
    ASSUME NEW s, NEW t, NEW x, Pushed(s, t, x)
    PROVE  \A k \in 1..Len(t) : t[k] = x \/ \E j \in 1..Len(s) : t[k] = s[j]
<1>1. \A k \in 1..Len(t) : \/ k \in 1..Len(s) /\ t[k] = s[k]
                           \/ t[k] = x
  BY DEF Pushed
<1> QED
  BY <1>1

LEMMA SplicedElements ==
    ASSUME NEW w, NEW m, NEW o, NEW n, Spliced(w, m, o, n)
    PROVE  /\ \A k \in 1..Len(n) : \/ n[k] = m
                                   \/ \E j \in 1..Len(w) : n[k] = w[j]
                                   \/ \E j \in 1..Len(o) : n[k] = o[j]
           /\ Len(w) + 1 \in 1..Len(n) /\ n[Len(w) + 1] = m
           /\ \A k \in 1..Len(n) : k # Len(w) + 1 =>
                \/ \E j \in 1..Len(w) : n[k] = w[j]
                \/ \E j \in 1..Len(o) : j # 1 /\ n[k] = o[j]
<1>1. \A k \in 1..Len(n) : \/ k \in 1..Len(w) /\ n[k] = w[k]
                           \/ k = Len(w) + 1 /\ n[k] = m
                           \/ /\ k - Len(w) \in 1..Len(o) /\ k - Len(w) # 1
                              /\ k # Len(w) + 1 /\ n[k] = o[k - Len(w)]
  BY DEF Spliced
<1>2. Len(w) + 1 \in 1..Len(n) /\ n[Len(w) + 1] = m
  BY DEF Spliced
<1>3. \A k \in 1..Len(n) : k # Len(w) + 1 =>
                \/ \E j \in 1..Len(w) : n[k] = w[j]
                \/ \E j \in 1..Len(o) : j # 1 /\ n[k] = o[j]
  BY <1>1
<1> QED
  BY <1>1, <1>2, <1>3

(* The message at the head is about the set-up: there is no other. *)
LEMMA OnlySetUp ==
    ASSUME SetUpInv, 1 \in 1..Len(outbox), IsSetUp(outbox[1])
    PROVE  /\ \A k \in 1..Len(outbox) : k # 1 => ~IsSetUp(outbox[k])
           /\ \A k \in 1..Len(inbox) : inbox[k].id # 0
           /\ SetUpFits(outbox[1])
  BY DEF SetUpInv

LEMMA SetUpAnswers ==
    ASSUME SetUpInv, NEW a, Popped(outbox, outbox'), Pushed(inbox, inbox', a),
           IsSetUp(outbox[1]), FoundFits(a.result)'
    PROVE  SetUpInv'
<1>1. /\ 1 \in 1..Len(outbox)
      /\ \A k \in 1..Len(outbox') : k + 1 \in 1..Len(outbox) /\ k + 1 # 1 /\ outbox'[k] = outbox[k + 1]
  BY DEF Popped
<1>2. \A k \in 1..Len(outbox') : ~IsSetUp(outbox'[k])
  BY <1>1, OnlySetUp
<1>3. \A k \in 1..Len(outbox') : SetUpFits(outbox[k])'
  BY <1>2 DEF IsSetUp, SetUpOps, SetUpFits
<1>4. \A k \in 1..Len(inbox') : inbox'[k].id = 0 => k = Len(inbox) + 1 /\ inbox'[k] = a
  <2>1. \A k \in 1..Len(inbox') : \/ k \in 1..Len(inbox) /\ inbox'[k] = inbox[k]
                                  \/ k = Len(inbox) + 1 /\ inbox'[k] = a
    BY DEF Pushed
  <2> QED
    BY <1>1, <2>1, OnlySetUp
<1> QED
  BY <1>2, <1>3, <1>4 DEF SetUpInv, IsSetUp, FoundFits, SetUpOps

LEMMA SetUpReplaced ==
    ASSUME SetUpInv, 1 \in 1..Len(outbox), IsSetUp(outbox[1]), UNCHANGED inbox,
           NEW p \in 1..Len(outbox'), SetUpFits(outbox[p])', outbox'[p].op # "initialize",
           \A k \in 1..Len(outbox') : k # p => ~IsSetUp(outbox'[k])
    PROVE  SetUpInv'
<1>1. ASSUME NEW k \in 1..Len(outbox') PROVE SetUpFits(outbox[k])'
  <2>1. CASE k = p
    BY <2>1
  <2>2. CASE k # p
    <3>1. ~IsSetUp(outbox'[k])
      BY <2>2
    <3> QED
      BY <3>1 DEF IsSetUp, SetUpOps, SetUpFits
  <2> QED
    BY <2>1, <2>2
<1>2. \A k \in 1..Len(inbox') : inbox'[k].id # 0
  BY OnlySetUp
<1>3. \A k \in 2..Len(outbox') : outbox'[k].op # "initialize"
  BY DEF IsSetUp, SetUpOps
<1> QED
  BY <1>1, <1>2, <1>3 DEF SetUpInv, IsSetUp

(* A call is handled. *)
LEMMA CallHandled ==
    ASSUME SetUpInv, Popped(outbox, outbox'),
           \/ inbox' = inbox
           \/ \E a : a.id # 0 /\ Pushed(inbox, inbox', a),
           UNCHANGED <<conn, app, misread>>, UNCHANGED disk \/ conn = "connected"
    PROVE  SetUpInv'
<1>1. \A k \in 1..Len(outbox') : k + 1 \in 1..Len(outbox) /\ outbox'[k] = outbox[k + 1]
  BY DEF Popped
<1>2. \A k \in 1..Len(inbox') : inbox'[k].id = 0 => k \in 1..Len(inbox) /\ inbox'[k] = inbox[k]
  <2>1. ASSUME NEW a, a.id # 0, Pushed(inbox, inbox', a), NEW k \in 1..Len(inbox'), inbox'[k].id = 0
        PROVE  k \in 1..Len(inbox) /\ inbox'[k] = inbox[k]
    <3>1. \/ k \in 1..Len(inbox) /\ inbox'[k] = inbox[k]
          \/ inbox'[k] = a
      BY <2>1 DEF Pushed
    <3> QED
      BY <2>1, <3>1
  <2> QED
    BY <2>1
<1>3. ASSUME NEW k \in 1..Len(outbox') PROVE SetUpFits(outbox[k])'
  <2>1. SetUpFits(outbox[k + 1]) /\ outbox'[k] = outbox[k + 1]
    BY <1>1 DEF SetUpInv
  <2> QED
    BY <2>1 DEF SetUpFits, NoWay, OlderFile, MigrationSteps
<1>4. ASSUME NEW k \in 1..Len(inbox'), inbox'[k].id = 0 PROVE FoundFits(inbox[k].result)'
  <2>1. FoundFits(inbox[k].result) /\ inbox'[k] = inbox[k]
    BY <1>2, <1>4 DEF SetUpInv
  <2> QED
    BY <2>1 DEF FoundFits, NoWay, OlderFile
<1>5. \A j, k \in 1..Len(outbox') : IsSetUp(outbox'[j]) /\ IsSetUp(outbox'[k]) => j = k
  <2>1. ASSUME NEW j \in 1..Len(outbox'), NEW k \in 1..Len(outbox'),
               IsSetUp(outbox'[j]), IsSetUp(outbox'[k])
        PROVE  j = k
    <3>1. j + 1 = k + 1
      BY <1>1, <2>1 DEF SetUpInv
    <3> QED
      BY <3>1
  <2> QED
    BY <2>1
<1>6. \A j \in 1..Len(outbox'), k \in 1..Len(inbox') : ~(IsSetUp(outbox'[j]) /\ inbox'[k].id = 0)
  BY <1>1, <1>2 DEF SetUpInv
<1>7. \A j, k \in 1..Len(inbox') : inbox'[j].id = 0 /\ inbox'[k].id = 0 => j = k
  BY <1>2 DEF SetUpInv
<1>8. \A k \in 2..Len(outbox') : outbox'[k].op # "initialize"
  BY <1>1 DEF SetUpInv
<1> QED
  BY <1>3, <1>4, <1>5, <1>6, <1>7, <1>8 DEF SetUpInv, IsSetUp

LEMMA SentStays ==
    ASSUME SentInv, UNCHANGED calls,
           \A k \in 1..Len(outbox') :
             \/ \E j \in 1..Len(outbox) : outbox'[k].op = outbox[j].op /\ outbox'[k].id = outbox[j].id
             \/ \E j \in 1..Len(waiting) : outbox'[k] = waiting[j]
             \/ IsSetUp(outbox'[k]) /\ outbox'[k].id = 0,
           \A k \in 1..Len(waiting') :
             \/ \E j \in 1..Len(waiting) : waiting'[k] = waiting[j]
             \/ \E j \in 1..Len(outbox) : ~IsSetUp(outbox[j]) /\ waiting'[k] = outbox[j],
           \A k \in 1..Len(inbox') :
             \/ \E j \in 1..Len(inbox) : inbox'[k] = inbox[j]
             \/ inbox'[k].id = 0
             \/ /\ calls[inbox'[k].id].status = "sent"
                /\ inbox'[k].result \in {"ok", "error", "record", "reset"},
           waiting' # <<>> => conn' = "waiting"
    PROVE  SentInv'
<1>1. \A k \in 1..Len(outbox') : IF IsSetUp(outbox'[k]) THEN outbox'[k].id = 0
                                 ELSE IsSent(outbox'[k].id, outbox'[k].op)
  BY DEF SentInv, IsSetUp
<1>2. \A k \in 1..Len(waiting') : ~IsSetUp(waiting'[k]) /\ IsSent(waiting'[k].id, waiting'[k].op)
  BY DEF SentInv
<1>3. \A k \in 1..Len(inbox') : inbox'[k].id # 0 =>
         /\ calls[inbox'[k].id].status = "sent"
         /\ inbox'[k].result \in {"ok", "error", "record", "reset"}
  BY DEF SentInv
<1> QED
  BY <1>1, <1>2, <1>3 DEF SentInv, IsSetUp, IsSent

LEMMA HeldStays ==
    ASSUME HeldInv, UNCHANGED <<calls, database, held>>,
           conn = "connected" => conn' = "connected",
           disk.data => disk'.data \/ ~Holds \/ database # "working",
           \A k \in 1..Len(inbox') :
             \/ \E j \in 1..Len(inbox) : inbox'[k] = inbox[j]
             \/ inbox'[k].result \notin {"record", "reset"}
    PROVE  HeldInv'
<1>1. Holds' => Holds
  BY DEF Holds
<1>2. \A k \in 1..Len(inbox') :
         inbox'[k].result = "reset" => calls[inbox'[k].id].kind = "reset"
  BY DEF HeldInv
<1>3. \A id, kind : IsSent(id, kind)' <=> IsSent(id, kind)
  BY DEF IsSent
<1>4. \A r : ResetIsLast(r) => ResetIsLast(r)'
  BY <1>3 DEF ResetIsLast
<1> QED
  BY <1>1, <1>2, <1>3, <1>4 DEF HeldInv

LEMMA LostStays ==
    ASSUME UNCHANGED platform,
           \/ \E j \in 1..Len(outbox) : outbox[j].op = "initialize"
           \/ /\ platform = "ios" /\ conn = "none" => conn' = "none"
              /\ \A k \in 1..Len(outbox') : outbox'[k].op # "initialize"
                    \/ \E j \in 1..Len(outbox) : outbox'[k].op = outbox[j].op
              /\ \A k \in 1..Len(inbox') : inbox'[k].id = 0
                    \/ (\E j \in 1..Len(inbox) : inbox'[k] = inbox[j])
                    \/ ~(platform = "ios" /\ conn = "none")
    PROVE  StaysLost
<1>1. ASSUME NEW id \in Ids, Lost(id) PROVE Lost(id)'
  <2>1. id > 0
    BY DEF Ids
  <2>2. \A k \in 1..Len(inbox') : inbox'[k].id < id
    BY <1>1, <2>1 DEF Lost
  <2>3. \A k \in 1..Len(outbox') : outbox'[k].op # "initialize"
    BY <1>1 DEF Lost
  <2> QED
    BY <1>1, <2>2, <2>3 DEF Lost
<1> QED
  BY <1>1 DEF StaysLost

-----------------------------------------------------------------------------
(* The bridge. *)

LEMMA HandlesIs ==
    ASSUME TypeOK, SetUpInv, SentInv, NEW op, Handles(op)
    PROVE  /\ outbox # <<>> /\ Head(outbox) = outbox[1] /\ 1 \in 1..Len(outbox)
           /\ outbox[1].op = op
           /\ op \in SetUpOps => /\ IsSetUp(outbox[1]) /\ outbox[1].id = 0
                                 /\ SetUpFits(outbox[1])
           /\ op \in Kinds => ~IsSetUp(outbox[1]) /\ IsSent(outbox[1].id, op)
<1>1. outbox # <<>> /\ Head(outbox) = outbox[1] /\ 1 \in 1..Len(outbox) /\ outbox[1].op = op
  BY HeadOf DEF Handles
<1> QED
  BY <1>1 DEF SetUpInv, SentInv, IsSetUp, SetUpOps, Kinds

LEMMA DoneIs ==
    ASSUME TypeOK, outbox # <<>>, Done
    PROVE  Popped(outbox, outbox') /\ outbox' \in Seq(Messages)
  BY HeadOf DEF Done

LEMMA AnswersIs ==
    ASSUME TypeOK, NEW a \in AnswerType, Answers(a)
    PROVE  Pushed(inbox, inbox', a) /\ inbox' \in Seq(AnswerType)
  BY TypeIs, AppendIs DEF Answers

(* A step of the set-up is answered. *)
LEMMA AnsweredSetUp ==
    ASSUME ConnectionInv, TypeOK', NEW a, a.id = 0, FoundFits(a.result)',
           IsSetUp(outbox[1]), outbox[1].id = 0,
           Popped(outbox, outbox'), Pushed(inbox, inbox', a),
           UNCHANGED <<waiting, disk, calls, database, held, platform, app>>,
           \/ conn' = conn
           \/ /\ outbox[1].op = "initialize" /\ conn = "none"
              /\ conn' = "connected" => disk.version = app.schema
    PROVE  ConnectionInv'
<1>1. 1 \in 1..Len(outbox)
  BY DEF Popped
<1>2. FileIsWhole' /\ DriverFits' /\ AnswersInOrder'
  BY DEF ConnectionInv, FileIsWhole, DriverFits, AnswersInOrder
<1>3. SetUpInv'
  BY SetUpAnswers DEF ConnectionInv
<1>4. /\ \A k \in 1..Len(outbox') : \E j \in 1..Len(outbox) : outbox'[k] = outbox[j]
      /\ \A k \in 1..Len(inbox') : inbox'[k] = a \/ \E j \in 1..Len(inbox) : inbox'[k] = inbox[j]
  BY PoppedElements, PushedElements
<1>5. waiting' # <<>> => conn' = "waiting"
  BY DEF ConnectionInv, SentInv
<1>6. SentInv'
  BY <1>4, <1>5, SentStays DEF ConnectionInv
<1>7. StaysLost
  BY <1>1, <1>4, LostStays
<1>8. LineInv'
  BY <1>7, AnsweredLine DEF ConnectionInv
<1>9. a.result \notin {"record", "reset"}
  BY DEF FoundFits
<1>10. HeldInv'
  BY <1>4, <1>9, HeldStays DEF ConnectionInv
<1> QED
  BY <1>2, <1>3, <1>6, <1>8, <1>10 DEF ConnectionInv

(* A call is answered. *)
LEMMA AnsweredCall ==
    ASSUME ConnectionInv, TypeOK', NEW a, a.id = outbox[1].id, ~IsSetUp(outbox[1]),
           Popped(outbox, outbox'), Pushed(inbox, inbox', a),
           UNCHANGED <<waiting, conn, calls, database, held, platform, app, misread>>,
           \/ conn = "connected"
           \/ conn = "none" /\ platform # "ios" /\ disk' = disk,
           FileIsWhole', DriverFits',
           a.result \in {"ok", "error", "record", "reset"},
           a.result = "record" => conn = "connected" /\ disk'.data,
           a.result = "reset" => outbox[1].op = "reset",
           disk.data => disk'.data \/ database # "working"
    PROVE  ConnectionInv'
<1>1. 1 \in 1..Len(outbox)
  BY DEF Popped
<1>2. IsSent(a.id, outbox[1].op) /\ a.id # 0
  BY <1>1 DEF ConnectionInv, SentInv, IsSent, Ids
<1>3. SetUpInv'
  BY <1>2, CallHandled DEF ConnectionInv
<1>4. /\ \A k \in 1..Len(outbox') : \E j \in 1..Len(outbox) : outbox'[k] = outbox[j]
      /\ \A k \in 1..Len(inbox') : inbox'[k] = a \/ \E j \in 1..Len(inbox) : inbox'[k] = inbox[j]
  BY PoppedElements, PushedElements
<1>5. waiting = <<>> /\ Len(waiting) = 0
  BY DEF ConnectionInv, SentInv
<1>6. SentInv'
  <2>1. calls[a.id].status = "sent"
    BY <1>2 DEF IsSent
  <2> QED
    BY <1>4, <1>5, <2>1, SentStays DEF ConnectionInv
<1>7. StaysLost
  BY <1>4, LostStays
<1>8. LineInv'
  BY <1>5, <1>7, AnsweredLine DEF ConnectionInv
<1>9. Holds' => Holds \/ a.result = "record"
  BY <1>4 DEF Holds
<1>10. \A k \in 1..Len(inbox') :
         inbox'[k].result = "reset" => calls[inbox'[k].id].kind = "reset"
  BY <1>2, <1>4 DEF ConnectionInv, HeldInv, IsSent
<1>11. /\ \A id, kind : IsSent(id, kind)' <=> IsSent(id, kind)
       /\ \A r : ResetIsLast(r)' <=> ResetIsLast(r)
  BY DEF IsSent, ResetIsLast
<1>12. HeldInv'
  BY <1>9, <1>10, <1>11 DEF ConnectionInv, HeldInv
<1>13. AnswersInOrder'
  BY DEF ConnectionInv, AnswersInOrder
<1> QED
  BY <1>3, <1>6, <1>8, <1>12, <1>13 DEF ConnectionInv

LEMMA InitializeKeeps == ASSUME ConnectionInv, Initialize PROVE ConnectionInv'
<1>1. /\ TypeOK /\ SetUpInv /\ SentInv /\ FileIsWhole /\ disk.version \in Nat
      /\ app.schema \in Nat \ {0} /\ 0 \in 0..MaxCalls
  BY TypeIs, AppIs, ConnectionAssumption DEF ConnectionInv, Versions
<1>2. /\ outbox # <<>> /\ outbox[1].op = "initialize" /\ IsSetUp(outbox[1])
      /\ outbox[1].id = 0 /\ conn = "none"
  BY <1>1, HandlesIs DEF Initialize, SetUpFits, SetUpOps
<1>3. PICK read \in ReadVersions :
        /\ conn' = CASE Compatibility(read) = "ok" -> "connected"
                     [] Compatibility(read) = "error" -> "none"
                     [] OTHER -> "waiting"
        /\ misread' = (read # disk.version)
        /\ Answers(Answer(0, Compatibility(read))) /\ Done
        /\ UNCHANGED <<disk, waiting, js, platform, app, launches, failed>>
  BY DEF Initialize
<1>4. read = disk.version \/ read = 0
  BY <1>3 DEF ReadVersions
<1>5. PICK result \in {"ok", "schema_needed", "migrations_needed", "error"} :
        result = Compatibility(read)
  BY DEF Compatibility
<1> DEFINE a == Answer(0, result)
<1>6. /\ result = "ok" <=> read = app.schema
      /\ result = "schema_needed" => read = 0 \/ read > app.schema
      /\ result = "migrations_needed" => read \in 1..(app.schema - 1)
  BY <1>1, <1>4, <1>5 DEF Compatibility
<1>7. a \in AnswerType /\ a.id = 0 /\ a.result = result
  BY <1>1, MessagesAre DEF Results
<1>8. /\ Popped(outbox, outbox') /\ outbox' \in Seq(Messages)
      /\ Pushed(inbox, inbox', a) /\ inbox' \in Seq(AnswerType)
  BY <1>1, <1>2, <1>3, <1>5, <1>7, DoneIs, AnswersIs
<1>9. /\ UNCHANGED <<waiting, disk, calls, database, held, platform, app, phase, launches, failed>>
      /\ conn' = CASE result = "ok" -> "connected"
                   [] result = "error" -> "none"
                   [] OTHER -> "waiting"
      /\ misread' = (read # disk.version)
  BY <1>3, <1>5 DEF js
<1> HIDE DEF a
<1>10. TypeOK'
  BY <1>1, <1>8, <1>9 DEF TypeOK, AnswerType
<1>11. FoundFits(a.result)'
  <2>1. ASSUME result = "schema_needed", disk.data PROVE NoWay'
    <3>1. disk.version # 0
      BY <1>1, <2>1 DEF FileIsWhole
    <3> QED
      BY <1>4, <1>6, <1>9, <2>1, <3>1 DEF NoWay
  <2>2. result = "migrations_needed" => conn' = "waiting" /\ OlderFile'
    BY <1>4, <1>6, <1>9 DEF OlderFile
  <2> QED
    BY <1>7, <1>9, <2>1, <2>2 DEF FoundFits
<1>12. conn' = "connected" => disk.version = app.schema
  BY <1>1, <1>4, <1>6, <1>9
<1> QED
  BY <1>2, <1>7, <1>8, <1>9, <1>10, <1>11, <1>12, AnsweredSetUp

(* An operation of the set-up ends with an answer. *)
LEMMA SetUpEndsKeeps ==
    ASSUME ConnectionInv, InitializeFails \/ SetUpWithSchemaFails \/ Settle
    PROVE  ConnectionInv'
<1>1. TypeOK /\ SetUpInv /\ SentInv /\ 0 \in 0..MaxCalls
  BY ConnectionAssumption DEF ConnectionInv
<1>2. PICK op \in {"initialize", "setUpWithSchema", "settle"}, result \in {"ok", "error"} :
        /\ Handles(op) /\ Answers(Answer(0, result)) /\ Done
        /\ UNCHANGED <<native, js, world>> /\ failed' \in BOOLEAN
  BY <1>1 DEF InitializeFails, SetUpWithSchemaFails, Settle, TypeOK
<1> DEFINE a == Answer(0, result)
<1>3. outbox # <<>> /\ IsSetUp(outbox[1]) /\ outbox[1].id = 0
  BY <1>1, <1>2, HandlesIs DEF SetUpOps
<1>4. a \in AnswerType /\ a.id = 0 /\ a.result = result
  BY <1>1, MessagesAre DEF Results
<1>5. /\ Popped(outbox, outbox') /\ outbox' \in Seq(Messages)
      /\ Pushed(inbox, inbox', a) /\ inbox' \in Seq(AnswerType)
  BY <1>1, <1>2, <1>3, <1>4, DoneIs, AnswersIs
<1>6. UNCHANGED <<waiting, disk, conn, calls, database, held, platform, app, phase, launches, misread>>
  BY <1>2 DEF native, js, world
<1> HIDE DEF a
<1>7. TypeOK'
  BY <1>1, <1>2, <1>5, <1>6 DEF TypeOK, AnswerType
<1>8. FoundFits(a.result)'
  BY <1>4 DEF FoundFits
<1> QED
  BY <1>3, <1>4, <1>5, <1>6, <1>7, <1>8, AnsweredSetUp

(* The file is erased: by a set-up, before anything is read from it, or by a reset. *)
LEMMA EraseKeeps == ASSUME ConnectionInv, Erase PROVE ConnectionInv'
<1>1. /\ TypeOK /\ SetUpInv /\ SentInv /\ HeldInv /\ disk' = Empty
      /\ UNCHANGED <<conn, waiting, inbox, phase, database, held, calls, platform, app,
                     launches, failed, misread>>
  BY DEF ConnectionInv, Erase, js, world
<1>2. /\ outbox # <<>> /\ 1 \in 1..Len(outbox) /\ outbox[1] \in Messages
      /\ outbox \in Seq(Messages)
  BY <1>1, HeadOf, TypeIs DEF Erase, Handles
<1>3. PICK new : new = [outbox[1] EXCEPT !.create = TRUE]
  OBVIOUS
<1>4. outbox' = [outbox EXCEPT ![1] = new]
  BY <1>2, <1>3 DEF Erase
<1>5. new \in Messages /\ new.op = outbox[1].op /\ new.id = outbox[1].id /\ new.ok = outbox[1].ok
  BY <1>2, <1>3 DEF Messages
<1>6. /\ outbox' \in Seq(Messages) /\ Len(outbox') = Len(outbox) /\ outbox'[1] = new
      /\ \A k \in 1..Len(outbox) : k # 1 => outbox'[k] = outbox[k]
  BY <1>2, <1>4, <1>5
<1>7. \A k \in 1..Len(outbox) : /\ outbox'[k].op = outbox[k].op /\ outbox'[k].id = outbox[k].id
                                /\ outbox'[k].ok = outbox[k].ok
  BY <1>5, <1>6
<1>8. TypeOK'
  <2>1. Empty \in Files
    BY ConnectionAssumption DEF Empty, Files
  <2> QED
    BY <1>1, <1>6, <2>1 DEF TypeOK
<1>9. FileIsWhole' /\ DriverFits' /\ AnswersInOrder'
  BY <1>1 DEF ConnectionInv, FileIsWhole, DriverFits, AnswersInOrder, Empty
<1>10. \/ outbox[1].op = "setUpWithSchema" /\ IsSetUp(outbox[1]) /\ conn = "waiting"
       \/ outbox[1].op = "reset" /\ conn = "connected" /\ database = "resetting"
  <2>1. CASE Handles("setUpWithSchema")
    BY <1>1, <2>1, HandlesIs DEF SetUpFits, SetUpOps
  <2>2. CASE Handles("reset") /\ conn = "connected"
    <3>1. outbox[1].op = "reset" /\ IsSent(outbox[1].id, "reset")
      BY <1>1, <2>2, HandlesIs DEF Kinds
    <3>2. outbox[1].id \in Ids
      BY <3>1 DEF IsSent
    <3> QED
      BY <1>1, <2>2, <3>1, <3>2 DEF HeldInv
  <2> QED
    BY <2>1, <2>2 DEF Erase
<1>11. SetUpInv'
  <2>1. CASE IsSetUp(outbox[1]) /\ outbox[1].op = "setUpWithSchema" /\ conn = "waiting"
    <3>1. SetUpFits(outbox[1])'
      BY <1>1, <1>5, <1>6, <2>1 DEF SetUpFits, Empty
    <3>2. \A k \in 1..Len(outbox') : k # 1 => ~IsSetUp(outbox'[k])
      BY <1>1, <1>2, <1>6, <2>1, OnlySetUp
    <3>3. outbox'[1].op # "initialize" /\ 1 \in 1..Len(outbox')
      BY <1>2, <1>5, <1>6, <2>1
    <3> QED
      BY <1>1, <1>2, <2>1, <3>1, <3>2, <3>3, SetUpReplaced
  <2>2. CASE conn = "connected"
    <3>1. ASSUME NEW k \in 1..Len(outbox') PROVE SetUpFits(outbox[k])'
      <4>1. SetUpFits(outbox[k])
        BY <1>1, <1>6 DEF SetUpInv
      <4> QED
        BY <1>1, <1>6, <1>7, <2>2, <4>1 DEF SetUpFits
    <3>2. ASSUME NEW k \in 1..Len(inbox'), inbox'[k].id = 0 PROVE FoundFits(inbox[k].result)'
      BY <1>1, <2>2, <3>2 DEF SetUpInv, FoundFits
    <3> QED
      BY SMTT(30), <1>1, <1>6, <1>7, <3>1, <3>2 DEF SetUpInv, IsSetUp
  <2> QED
    BY <1>10, <2>1, <2>2
<1>12. SentInv'
  BY <1>1, <1>6, <1>7, SentStays DEF SentInv
<1>13. StaysLost
  BY <1>1, <1>6, <1>7, LostStays
<1>14. LineInv'
  BY <1>1, <1>6, <1>7, <1>13, ReplacedLine DEF ConnectionInv
<1>15. disk.data => ~Holds \/ database # "working"
  BY <1>1, <1>10 DEF HeldInv
<1>16. HeldInv'
  BY <1>1, <1>15, HeldStays
<1> QED
  BY <1>8, <1>9, <1>11, <1>12, <1>14, <1>16 DEF ConnectionInv

(* A set-up is done: the calls that waited are run, with the driver. *)
LEMMA ConnectedKeeps ==
    ASSUME ConnectionInv, ConnectDriver, outbox # <<>>, IsSetUp(outbox[1]), outbox[1].id = 0,
           conn = "waiting", disk' \in Files, FileIsWhole', disk'.version = app.schema,
           UNCHANGED <<inbox, phase, database, held, calls, platform, app, launches, failed, misread>>
    PROVE  ConnectionInv'
<1> DEFINE m == Message("settle")
<1>1. /\ TypeOK /\ SetUpInv /\ SentInv /\ HeldInv /\ LineInv
      /\ waiting \in Seq(Messages) /\ outbox \in Seq(Messages) /\ 1 \in 1..Len(outbox)
  BY TypeIs, HeadOf DEF ConnectionInv
<1>2. m \in Messages /\ m.id = 0 /\ m.op = "settle" /\ m.ok
  BY MessagesAre DEF SetUpOps
<1>3. Spliced(waiting, m, outbox, outbox') /\ outbox' \in Seq(Messages)
  BY <1>1, <1>2, SpliceIs DEF ConnectDriver
<1>4. conn' = "connected" /\ waiting' = <<>> /\ Len(waiting') = 0
  BY DEF ConnectDriver
<1> HIDE DEF m
<1> PICK p \in Nat : p = Len(waiting) + 1
  BY <1>1
<1>5. /\ \A k \in 1..Len(outbox') : \/ outbox'[k] = m
                                    \/ \E j \in 1..Len(waiting) : outbox'[k] = waiting[j]
                                    \/ \E j \in 1..Len(outbox) : outbox'[k] = outbox[j]
      /\ p \in 1..Len(outbox') /\ outbox'[p] = m
      /\ \A k \in 1..Len(outbox') : k # p =>
                \/ \E j \in 1..Len(waiting) : outbox'[k] = waiting[j]
                \/ \E j \in 1..Len(outbox) : j # 1 /\ outbox'[k] = outbox[j]
  BY <1>3, SplicedElements
<1>6. TypeOK'
  BY <1>1, <1>3, <1>4 DEF TypeOK
<1>7. DriverFits' /\ AnswersInOrder'
  BY DEF ConnectionInv, DriverFits, AnswersInOrder
<1>8. \A k \in 1..Len(outbox') : k # p => ~IsSetUp(outbox'[k])
  BY <1>1, <1>5, OnlySetUp DEF SentInv
<1>9. SetUpFits(outbox[p])' /\ outbox'[p].op # "initialize"
  <2>1. outbox'[p] = m
    BY <1>5
  <2> QED
    BY <1>2, <1>4, <2>1 DEF SetUpFits
<1>10. SetUpInv'
  BY <1>1, <1>5, <1>8, <1>9, SetUpReplaced
<1>11. SentInv'
  <2>1. IsSetUp(m)
    BY <1>2 DEF IsSetUp, SetUpOps
  <2>2. \A k \in 1..Len(outbox') :
             \/ \E j \in 1..Len(outbox) : outbox'[k].op = outbox[j].op /\ outbox'[k].id = outbox[j].id
             \/ \E j \in 1..Len(waiting) : outbox'[k] = waiting[j]
             \/ IsSetUp(outbox'[k]) /\ outbox'[k].id = 0
    <3>1. ASSUME NEW k \in 1..Len(outbox'), outbox'[k] = m
          PROVE  IsSetUp(outbox'[k]) /\ outbox'[k].id = 0
      BY <1>2, <2>1, <3>1
    <3> QED
      BY <3>1, <1>5
  <2>3. \A k \in 1..Len(waiting') : FALSE
    BY <1>4
  <2>4. \A k \in 1..Len(inbox') : inbox'[k] = inbox[k] /\ k \in 1..Len(inbox)
    BY <1>4
  <2> QED
    BY <1>1, <2>2, <2>3, <2>4, <1>4, SentStays
<1>12. StaysLost
  <2>1. \A k \in 1..Len(outbox') : outbox'[k].op # "initialize"
    BY <1>8, <1>9 DEF IsSetUp, SetUpOps
  <2> QED
    BY <2>1, LostStays
<1>13. LineInv'
  BY <1>1, <1>2, <1>3, <1>4, <1>12, ConnectedLine
<1>14. HeldInv'
  <2>1. ~Holds
    BY <1>1 DEF HeldInv
  <2> QED
    BY <1>1, <1>4, <2>1, HeldStays
<1> QED
  BY <1>6, <1>7, <1>10, <1>11, <1>13, <1>14 DEF ConnectionInv

LEMMA SetUpWithSchemaKeeps == ASSUME ConnectionInv, SetUpWithSchema PROVE ConnectionInv'
<1>1. TypeOK /\ SetUpInv /\ SentInv /\ app.schema \in 1..MaxVersion /\ MaxVersion \in Nat
  BY TypeIs, AppIs, ConnectionAssumption DEF ConnectionInv, Versions
<1>2. /\ outbox # <<>> /\ outbox[1].op = "setUpWithSchema" /\ IsSetUp(outbox[1])
      /\ outbox[1].id = 0 /\ conn = "waiting"
  BY <1>1, HandlesIs DEF SetUpWithSchema, SetUpFits, SetUpOps
<1>3. disk' = [version |-> app.schema, tables |-> 1..app.schema, data |-> FALSE]
  BY DEF SetUpWithSchema, Created
<1>4. disk' \in Files /\ FileIsWhole' /\ disk'.version = app.schema
  BY <1>1, <1>3 DEF Files, FileIsWhole, Versions
<1>5. /\ UNCHANGED <<inbox, phase, database, held, calls, platform, app, launches, failed, misread>>
      /\ ConnectDriver
  BY DEF SetUpWithSchema, js, world
<1> QED
  BY <1>2, <1>4, <1>5, ConnectedKeeps

LEMMA SetUpWithMigrationsKeeps ==
    ASSUME ConnectionInv, SetUpWithMigrations PROVE ConnectionInv'
<1>1. /\ TypeOK /\ SetUpInv /\ SentInv /\ FileIsWhole /\ app.schema \in 1..MaxVersion
      /\ MaxVersion \in Nat /\ disk \in Files /\ disk.version \in 0..MaxVersion /\ app \in Apps
  BY TypeIs, AppIs, ConnectionAssumption DEF ConnectionInv, Versions
<1>2. /\ outbox # <<>> /\ outbox[1].op = "setUpWithMigrations" /\ IsSetUp(outbox[1])
      /\ outbox[1].id = 0 /\ SetUpFits(outbox[1])
  BY <1>1, HandlesIs DEF SetUpWithMigrations, SetUpOps
<1>3. conn = "waiting" /\ disk.version \in 1..(app.schema - 1) /\ MigrationSteps(disk.version) # {}
  BY <1>2 DEF SetUpFits, OlderFile
<1>4. MigrationSteps(disk.version) = (disk.version + 1)..app.schema
  BY <1>1, <1>3, StepsAre
<1>5. disk.tables = 1..disk.version
  BY <1>1 DEF FileIsWhole
<1>6. disk' = [version |-> app.schema, tables |-> 1..app.schema, data |-> disk.data]
  <2>1. 1..disk.version \cup (disk.version + 1)..app.schema = 1..app.schema
    BY <1>1, <1>3
  <2>2. disk' = [disk EXCEPT !.version = app.schema, !.tables = disk.tables \cup MigrationSteps(disk.version)]
    BY DEF SetUpWithMigrations
  <2> QED
    BY <1>1, <1>4, <1>5, <2>1, <2>2 DEF Files
<1>7. disk' \in Files /\ FileIsWhole' /\ disk'.version = app.schema
  <2>1. disk.data \in BOOLEAN
    BY <1>1 DEF Files
  <2> QED
    BY <1>1, <1>6, <2>1 DEF Files, FileIsWhole, Versions
<1>8. /\ UNCHANGED <<inbox, phase, database, held, calls, platform, app, launches, failed, misread>>
      /\ ConnectDriver
  BY DEF SetUpWithMigrations, js, world
<1> QED
  BY <1>2, <1>3, <1>7, <1>8, ConnectedKeeps

(* Migrations fail: the calls that waited are refused; on iOS they are lost. *)
LEMMA SetUpWithMigrationsFailsKeeps ==
    ASSUME ConnectionInv, SetUpWithMigrationsFails PROVE ConnectionInv'
<1>1. /\ TypeOK /\ SetUpInv /\ SentInv /\ HeldInv /\ LineInv
      /\ waiting \in Seq(Messages) /\ outbox \in Seq(Messages)
  BY TypeIs DEF ConnectionInv
<1>2. /\ outbox # <<>> /\ 1 \in 1..Len(outbox) /\ IsSetUp(outbox[1]) /\ outbox[1].id = 0
      /\ conn = "waiting"
  BY <1>1, HandlesIs DEF SetUpWithMigrationsFails, SetUpFits, SetUpOps
<1>3. PICK m : m = [Message("settle") EXCEPT !.ok = FALSE]
  OBVIOUS
<1>4. m \in Messages /\ m.id = 0 /\ m.op = "settle" /\ ~m.ok
  <2>1. m = [op |-> "settle", id |-> 0, ok |-> FALSE, create |-> FALSE]
    BY <1>3 DEF Message
  <2> QED
    BY <2>1, ConnectionAssumption DEF Messages
<1>5. PICK w : w = IF platform = "ios" THEN <<>> ELSE waiting
  OBVIOUS
<1>6. w \in Seq(Messages)
  <2>1. <<>> \in Seq(Messages)
    OBVIOUS
  <2> QED
    BY <1>1, <1>5, <2>1
<1>7. outbox' = w \o <<m>> \o Tail(outbox)
  BY <1>3, <1>5 DEF SetUpWithMigrationsFails, DisconnectDriver
<1>8. Spliced(w, m, outbox, outbox') /\ outbox' \in Seq(Messages)
  BY <1>1, <1>2, <1>4, <1>6, <1>7, SpliceIs
<1>9. /\ conn' = "none" /\ waiting' = <<>> /\ Len(waiting') = 0 /\ failed' = TRUE
      /\ UNCHANGED <<disk, inbox, phase, database, held, calls, platform, app, launches, misread>>
  BY DEF SetUpWithMigrationsFails, DisconnectDriver, js, world
<1>10. \A k \in 1..Len(w) : \E j \in 1..Len(waiting) : w[k] = waiting[j]
  BY <1>5
<1>11. PICK p : p = Len(w) + 1
  OBVIOUS
<1>12. /\ \A k \in 1..Len(outbox') : \/ outbox'[k] = m
                                     \/ \E j \in 1..Len(waiting) : outbox'[k] = waiting[j]
                                     \/ \E j \in 1..Len(outbox) : outbox'[k] = outbox[j]
       /\ p \in 1..Len(outbox') /\ outbox'[p] = m
       /\ \A k \in 1..Len(outbox') : k # p =>
                 \/ \E j \in 1..Len(waiting) : outbox'[k] = waiting[j]
                 \/ \E j \in 1..Len(outbox) : j # 1 /\ outbox'[k] = outbox[j]
  <2>1. /\ \A k \in 1..Len(outbox') : \/ outbox'[k] = m
                                      \/ \E j \in 1..Len(w) : outbox'[k] = w[j]
                                      \/ \E j \in 1..Len(outbox) : outbox'[k] = outbox[j]
        /\ p \in 1..Len(outbox') /\ outbox'[p] = m
        /\ \A k \in 1..Len(outbox') : k # p =>
                  \/ \E j \in 1..Len(w) : outbox'[k] = w[j]
                  \/ \E j \in 1..Len(outbox) : j # 1 /\ outbox'[k] = outbox[j]
    BY <1>8, <1>11, SplicedElements
  <2>2. ASSUME NEW k, \E j \in 1..Len(w) : outbox'[k] = w[j]
        PROVE  \E j \in 1..Len(waiting) : outbox'[k] = waiting[j]
    BY <1>10, <2>2
  <2> QED
    BY ONLY <2>1, <2>2
<1>13. TypeOK'
  BY <1>1, <1>8, <1>9 DEF TypeOK
<1>14. FileIsWhole' /\ DriverFits' /\ AnswersInOrder'
  BY <1>9 DEF ConnectionInv, FileIsWhole, DriverFits, AnswersInOrder
<1>15. \A k \in 1..Len(outbox') : k # p => ~IsSetUp(outbox'[k])
  BY <1>1, <1>2, <1>12, OnlySetUp DEF SentInv
<1>16. SetUpFits(outbox[p])' /\ outbox'[p].op # "initialize"
  <2>1. outbox'[p] = m
    BY <1>12
  <2> QED
    BY <1>4, <1>9, <2>1 DEF SetUpFits
<1>17. SetUpInv'
  BY <1>1, <1>2, <1>9, <1>12, <1>15, <1>16, SetUpReplaced
<1>18. SentInv'
  <2>1. IsSetUp(m)
    BY <1>4 DEF IsSetUp, SetUpOps
  <2>2. \A k \in 1..Len(outbox') :
             \/ \E j \in 1..Len(outbox) : outbox'[k].op = outbox[j].op /\ outbox'[k].id = outbox[j].id
             \/ \E j \in 1..Len(waiting) : outbox'[k] = waiting[j]
             \/ IsSetUp(outbox'[k]) /\ outbox'[k].id = 0
    <3>1. ASSUME NEW k \in 1..Len(outbox'), outbox'[k] = m
          PROVE  IsSetUp(outbox'[k]) /\ outbox'[k].id = 0
      BY <1>4, <2>1, <3>1
    <3> QED
      BY <3>1, <1>12
  <2>3. \A k \in 1..Len(waiting') : FALSE
    BY <1>9
  <2>4. \A k \in 1..Len(inbox') : inbox'[k] = inbox[k] /\ k \in 1..Len(inbox)
    BY <1>9
  <2> QED
    BY <1>1, <2>2, <2>3, <2>4, <1>9, SentStays
<1>19. \A k \in 1..Len(outbox') : outbox'[k].op # "initialize"
  BY <1>15, <1>16 DEF IsSetUp, SetUpOps
<1>20. StaysLost
  BY <1>9, <1>19, LostStays
<1>21. LineInv'
  <2>1. CASE platform # "ios"
    <3>1. Spliced(waiting, m, outbox, outbox')
      BY <1>8, <1>5, <2>1
    <3> QED
      BY <1>1, <1>2, <1>4, <1>9, <1>20, <3>1, ConnectedLine
  <2>2. CASE platform = "ios"
    <3>1. w = <<>> /\ Len(w) = 0
      BY <1>5, <2>2
    <3>2. /\ Len(outbox') = Len(outbox)
          /\ \A k \in 1..Len(outbox) : outbox'[k].id = outbox[k].id
      <4>1. /\ Len(outbox) \in Nat \ {0} /\ Len(outbox') = Len(outbox) /\ outbox'[1] = m
            /\ \A k \in 2..Len(outbox') : k - 0 = k /\ outbox'[k] = outbox[k - 0]
        BY <1>8, <3>1 DEF Spliced
      <4> QED
        BY <1>2, <1>4, <4>1
    <3>3. ASSUME NEW id \in Ids, Has(waiting, id) PROVE Lost(id)'
      <4>1. PICK l \in 1..Len(waiting) : waiting[l].id = id
        BY <3>3 DEF Has
      <4>2. id # 0
        BY DEF Ids
      <4>3. \A k \in 1..Len(inbox) : inbox[k].id # 0
        BY <1>1, <1>2, OnlySetUp
      <4>4. \A k \in 1..Len(inbox) : inbox[k].id < id
        BY <1>1, <4>1, <4>2, <4>3 DEF LineInv, Precedes
      <4> QED
        BY <1>9, <1>19, <2>2, <4>4 DEF Lost
    <3> QED
      BY <1>1, <1>9, <1>20, <3>2, <3>3, ReplacedLine
  <2> QED
    BY <2>1, <2>2
<1>22. HeldInv'
  BY <1>1, <1>2, <1>9, HeldStays
<1> QED
  BY <1>13, <1>14, <1>17, <1>18, <1>21, <1>22 DEF ConnectionInv

-----------------------------------------------------------------------------
(* The bridge handles a call. *)

LEMMA IsCallIs ==
    ASSUME ConnectionInv, IsCall
    PROVE  /\ outbox # <<>> /\ Head(outbox) = outbox[1] /\ 1 \in 1..Len(outbox)
           /\ outbox[1].op \in Kinds /\ ~IsSetUp(outbox[1])
           /\ outbox[1].id \in Ids /\ outbox[1].id \in 0..MaxCalls /\ outbox[1] \in Messages
           /\ IsSent(outbox[1].id, outbox[1].op)
<1>1. TypeOK /\ SentInv
  BY DEF ConnectionInv
<1>2. /\ outbox # <<>> /\ Head(outbox) = outbox[1] /\ 1 \in 1..Len(outbox)
      /\ outbox[1] \in Messages /\ outbox[1].id \in 0..MaxCalls /\ outbox[1].op \in Kinds
  BY <1>1, HeadOf DEF IsCall
<1>3. ~IsSetUp(outbox[1])
  BY <1>2 DEF IsSetUp, SetUpOps, Kinds
<1>4. IsSent(outbox[1].id, outbox[1].op)
  BY <1>1, <1>2, <1>3 DEF SentInv
<1> QED
  BY <1>2, <1>3, <1>4 DEF IsSent

LEMMA ExecuteKeeps == ASSUME ConnectionInv, Execute PROVE ConnectionInv'
<1>1. /\ TypeOK /\ FileIsWhole /\ DriverFits /\ HeldInv /\ conn = "connected"
      /\ app.schema \in 1..MaxVersion /\ MaxVersion \in Nat /\ disk \in Files
      /\ disk.version \in 0..MaxVersion
  BY TypeIs, AppIs, ConnectionAssumption DEF ConnectionInv, Versions, Execute
<1>2. /\ outbox # <<>> /\ Head(outbox) = outbox[1] /\ outbox[1].op \in Kinds
      /\ ~IsSetUp(outbox[1]) /\ outbox[1].id \in 0..MaxCalls
      /\ IsSent(outbox[1].id, outbox[1].op)
  BY IsCallIs DEF Execute
<1>3. PICK op \in Kinds : op = outbox[1].op
  BY <1>2
<1>4. PICK result \in {"ok", "record", "reset"} :
        result = CASE op = "read"  -> IF disk.data THEN "record" ELSE "ok"
                   [] op = "write" -> "record"
                   [] op = "reset" -> "reset"
  BY DEF Kinds
<1> DEFINE a == Answer(outbox[1].id, result)
<1>5. Answers(Answer(outbox[1].id, result))
  BY <1>2, <1>3, <1>4 DEF Execute
<1>6. a \in AnswerType /\ a.id = outbox[1].id /\ a.result = result
  BY <1>2, MessagesAre DEF Results
<1>7. /\ Popped(outbox, outbox') /\ outbox' \in Seq(Messages)
      /\ Pushed(inbox, inbox', a) /\ inbox' \in Seq(AnswerType)
  BY <1>1, <1>2, <1>5, <1>6, DoneIs, AnswersIs DEF Execute
<1>8. UNCHANGED <<waiting, conn, calls, database, held, platform, app, phase, launches, failed, misread>>
  BY DEF Execute, js, world
<1> HIDE DEF a
<1>9. \/ op = "read" /\ disk' = disk /\ (result = "record" => disk.data) /\ result # "reset"
      \/ /\ op = "write" /\ disk' = [disk EXCEPT !.data = TRUE] /\ result = "record"
         /\ disk.tables # {}
      \/ op = "reset" /\ disk' = Created /\ result = "reset"
  BY <1>2, <1>3, <1>4 DEF Execute, Kinds
<1>10. /\ disk' \in Files /\ FileIsWhole' /\ DriverFits'
       /\ result = "record" => disk'.data
       /\ op = "reset" \/ (disk.data => disk'.data)
  <2>1. CASE disk' = disk /\ op = "read" /\ (result = "record" => disk.data)
    BY <1>1, <1>8, <2>1 DEF FileIsWhole, DriverFits
  <2>2. CASE disk' = [disk EXCEPT !.data = TRUE] /\ disk.tables # {}
    <3>1. /\ disk'.version = disk.version /\ disk'.tables = disk.tables /\ disk'.data = TRUE
          /\ disk' \in Files
      BY <1>1, <2>2 DEF Files
    <3>2. disk.version # 0
      BY <1>1, <2>2 DEF FileIsWhole
    <3> QED
      BY <1>1, <1>8, <3>1, <3>2 DEF FileIsWhole, DriverFits
  <2>3. CASE disk' = Created /\ op = "reset" /\ result = "reset"
    <3>1. /\ disk'.version = app.schema /\ disk'.tables = 1..app.schema /\ disk'.data = FALSE
          /\ disk' \in Files
      BY <1>1, <2>3 DEF Files, Created, Versions
    <3> QED
      BY <1>1, <1>8, <2>3, <3>1 DEF FileIsWhole, DriverFits
  <2> QED
    BY <1>9, <2>1, <2>2, <2>3
<1>11. TypeOK'
  BY <1>1, <1>7, <1>8, <1>10 DEF TypeOK, AnswerType
<1>12. op = "reset" => database # "working"
  BY <1>1, <1>2, <1>3 DEF HeldInv, IsSent
<1>13. result = "reset" => op = "reset"
  BY <1>9
<1> QED
  BY <1>1, <1>2, <1>3, <1>6, <1>7, <1>8, <1>10, <1>11, <1>12, <1>13, AnsweredCall

(* A call fails, or is refused; Refuse does more on iOS, where nothing is answered. *)
LEMMA CallFailsKeeps ==
    ASSUME ConnectionInv, ExecuteFails \/ (Refuse /\ platform # "ios")
    PROVE  ConnectionInv'
<1>1. TypeOK /\ FileIsWhole /\ DriverFits
  BY DEF ConnectionInv
<1>2. /\ outbox # <<>> /\ Head(outbox) = outbox[1] /\ ~IsSetUp(outbox[1])
      /\ outbox[1].id \in 0..MaxCalls
  BY IsCallIs DEF ExecuteFails, Refuse
<1> DEFINE a == Answer(outbox[1].id, "error")
<1>3. /\ Answers(a) /\ Done /\ UNCHANGED <<native, js, world>> /\ failed' \in BOOLEAN
      /\ \/ conn = "connected"
         \/ conn = "none" /\ platform # "ios"
  BY <1>1, <1>2 DEF ExecuteFails, Refuse, Answers, TypeOK
<1>4. a \in AnswerType /\ a.id = outbox[1].id /\ a.result = "error"
  BY <1>2, MessagesAre DEF Results
<1>5. /\ Popped(outbox, outbox') /\ outbox' \in Seq(Messages)
      /\ Pushed(inbox, inbox', a) /\ inbox' \in Seq(AnswerType)
  BY <1>1, <1>2, <1>3, <1>4, DoneIs, AnswersIs
<1>6. UNCHANGED <<waiting, disk, conn, calls, database, held, platform, app, phase, launches, misread>>
  BY <1>3 DEF native, js, world
<1> HIDE DEF a
<1>7. TypeOK' /\ FileIsWhole' /\ DriverFits'
  BY <1>1, <1>3, <1>5, <1>6 DEF TypeOK, AnswerType, FileIsWhole, DriverFits
<1> QED
  BY <1>2, <1>3, <1>4, <1>5, <1>6, <1>7, AnsweredCall

LEMMA RefuseKeeps == ASSUME ConnectionInv, Refuse PROVE ConnectionInv'
<1>1. CASE platform # "ios"
  BY <1>1, CallFailsKeeps
<1>2. CASE platform = "ios"
  <2>1. TypeOK /\ FileIsWhole /\ DriverFits /\ SetUpInv /\ SentInv /\ LineInv /\ HeldInv
        /\ AnswersInOrder
    BY DEF ConnectionInv
  <2>2. /\ outbox # <<>> /\ 1 \in 1..Len(outbox) /\ ~IsSetUp(outbox[1]) /\ outbox[1].id \in Ids
        /\ outbox[1].id # 0
    BY IsCallIs DEF Refuse, Ids
  <2>3. /\ UNCHANGED <<inbox, waiting, disk, conn, calls, database, held, platform, app, phase,
                       launches, failed, misread>>
        /\ conn = "none" /\ Popped(outbox, outbox') /\ outbox' \in Seq(Messages)
    BY <1>2, <2>1, <2>2, DoneIs DEF Refuse, native, js, world
  <2>4. TypeOK' /\ FileIsWhole' /\ DriverFits' /\ AnswersInOrder'
    BY <2>1, <2>3 DEF TypeOK, FileIsWhole, DriverFits, AnswersInOrder
  <2>5. SetUpInv'
    BY <2>1, <2>3, CallHandled
  <2>6. \A k \in 1..Len(outbox') : \E j \in 1..Len(outbox) : outbox'[k] = outbox[j]
    BY <2>3, PoppedElements
  <2>7. SentInv'
    BY <2>1, <2>3, <2>6, SentStays DEF SentInv
  <2>8. StaysLost
    BY <2>3, <2>6, LostStays
  <2>9. \A k \in 1..Len(outbox') : outbox'[k].op # "initialize"
    <3>1. \A k \in 1..Len(outbox') : k + 1 \in 2..Len(outbox) /\ outbox'[k] = outbox[k + 1]
      BY <2>3 DEF Popped
    <3> QED
      BY <2>1, <3>1 DEF SetUpInv
  <2>10. \A k \in 1..Len(inbox) : inbox[k].id < outbox[1].id
    <3>1. ASSUME NEW k \in 1..Len(inbox) PROVE inbox[k].id < outbox[1].id
      <4>1. CASE inbox[k].id = 0
        BY <2>2, <4>1 DEF Ids
      <4>2. CASE inbox[k].id # 0
        BY <2>1, <2>2, <4>2 DEF LineInv, Precedes
      <4> QED
        BY <4>1, <4>2
    <3> QED
      BY <3>1
  <2>11. LineInv'
    <3>1. \A id \in Ids : outbox[1].id = id => Lost(id)'
      BY <1>2, <2>3, <2>9, <2>10 DEF Lost
    <3> QED
      BY <2>1, <2>3, <2>8, <3>1, DroppedLine
  <2>12. HeldInv'
    BY <2>1, <2>3, HeldStays
  <2> QED
    BY <2>4, <2>5, <2>7, <2>11, <2>12 DEF ConnectionInv
<1> QED
  BY <1>1, <1>2

LEMMA EnqueueKeeps == ASSUME ConnectionInv, Enqueue PROVE ConnectionInv'
<1>1. TypeOK /\ FileIsWhole /\ DriverFits /\ SetUpInv /\ SentInv /\ LineInv /\ HeldInv
      /\ AnswersInOrder /\ waiting \in Seq(Messages)
  BY TypeIs DEF ConnectionInv
<1>2. /\ outbox # <<>> /\ 1 \in 1..Len(outbox) /\ ~IsSetUp(outbox[1]) /\ outbox[1].id \in Ids
      /\ Head(outbox) = outbox[1] /\ outbox[1] \in Messages
  BY IsCallIs DEF Enqueue
<1>3. /\ UNCHANGED <<inbox, disk, conn, calls, database, held, platform, app, phase,
                     launches, failed, misread>>
      /\ conn = "waiting" /\ Popped(outbox, outbox') /\ outbox' \in Seq(Messages)
  BY <1>1, <1>2, DoneIs DEF Enqueue, js, world
<1>4. PICK m \in Messages : m = outbox[1]
  BY <1>2
<1>5. Pushed(waiting, waiting', m) /\ waiting' \in Seq(Messages)
  BY <1>1, <1>2, <1>4, AppendIs DEF Enqueue
<1>6. TypeOK' /\ FileIsWhole' /\ DriverFits' /\ AnswersInOrder'
  BY <1>1, <1>3, <1>5 DEF TypeOK, FileIsWhole, DriverFits, AnswersInOrder
<1>7. SetUpInv'
  BY <1>1, <1>3, CallHandled
<1>8. /\ \A k \in 1..Len(outbox') : \E j \in 1..Len(outbox) : outbox'[k] = outbox[j]
      /\ \A k \in 1..Len(waiting') : waiting'[k] = m \/ \E j \in 1..Len(waiting) : waiting'[k] = waiting[j]
  BY <1>3, <1>5, PoppedElements, PushedElements
<1>9. SentInv'
  BY <1>1, <1>2, <1>3, <1>4, <1>8, SentStays
<1>10. StaysLost
  BY <1>3, <1>8, LostStays
<1>11. LineInv'
  BY <1>1, <1>3, <1>4, <1>5, <1>10, EnqueuedLine
<1>12. HeldInv'
  BY <1>1, <1>3, HeldStays
<1> QED
  BY <1>6, <1>7, <1>9, <1>11, <1>12 DEF ConnectionInv

-----------------------------------------------------------------------------
(* JavaScript. *)

(* The set-up goes on with what the bridge has found. *)
LEMMA SetUpAnsweredKeeps == ASSUME ConnectionInv, SetUpAnswered PROVE ConnectionInv'
<1>1. /\ TypeOK /\ FileIsWhole /\ DriverFits /\ SetUpInv /\ SentInv /\ LineInv /\ HeldInv
      /\ AnswersInOrder /\ app \in Apps /\ outbox \in Seq(Messages)
      /\ disk.version \in 0..MaxVersion
  BY TypeIs DEF ConnectionInv
<1>2. /\ inbox # <<>> /\ Head(inbox) = inbox[1] /\ 1 \in 1..Len(inbox) /\ inbox[1].id = 0
      /\ Popped(inbox, inbox') /\ inbox' \in Seq(AnswerType)
  BY <1>1, FirstAnswer DEF SetUpAnswered
<1>3. PICK result : result = inbox[1].result /\ FoundFits(result) /\ Initialized(result)
  BY <1>1, <1>2 DEF SetUpAnswered, SetUpInv
<1>4. UNCHANGED <<waiting, disk, conn, calls, database, held, platform, app, launches, failed, misread>>
  BY DEF SetUpAnswered, native, world
<1>5. /\ \A k \in 1..Len(outbox) : ~IsSetUp(outbox[k])
      /\ \A k \in 1..Len(inbox') : k + 1 \in 1..Len(inbox) /\ k + 1 # 1 /\ inbox'[k] = inbox[k + 1]
  BY <1>1, <1>2 DEF SetUpInv, Popped
<1>6. \A k \in 1..Len(inbox') : inbox'[k].id # 0 /\ \E j \in 1..Len(inbox) : inbox'[k] = inbox[j]
  BY <1>1, <1>2, <1>5 DEF SetUpInv
<1>7. ASSUME OlderFile, MigrationSteps(disk.version) = {} PROVE NoWay
  BY <1>1, <1>7, StepsAre DEF OlderFile, NoWay
<1>8. \/ outbox' = outbox /\ phase' \in {"ready", "failed"}
      \/ \E op \in {"setUpWithSchema", "setUpWithMigrations"} :
           /\ outbox' = Append(outbox, Message(op)) /\ phase' = phase /\ conn = "waiting"
           /\ op = "setUpWithSchema" => (disk.data => NoWay)
           /\ op = "setUpWithMigrations" => OlderFile /\ MigrationSteps(disk.version) # {}
  BY <1>3, <1>7 DEF Initialized, FoundFits, Sends
<1>9. FileIsWhole' /\ DriverFits' /\ AnswersInOrder'
  BY <1>1, <1>4 DEF FileIsWhole, DriverFits, AnswersInOrder
<1>10. HeldInv'
  BY <1>1, <1>4, <1>6, HeldStays
<1>11. CASE outbox' = outbox /\ phase' \in {"ready", "failed"}
  <2>1. TypeOK'
    BY <1>1, <1>2, <1>4, <1>11 DEF TypeOK, AnswerType
  <2>2. SetUpInv'
    <3>1. \A k \in 1..Len(outbox') : SetUpFits(outbox[k])'
      BY <1>5, <1>11 DEF SetUpFits, IsSetUp, SetUpOps
    <3> QED
      BY <1>5, <1>6, <1>11, <3>1 DEF SetUpInv, IsSetUp, SetUpOps
  <2>3. SentInv'
    BY <1>1, <1>4, <1>6, <1>11, SentStays DEF SentInv
  <2>4. StaysLost
    BY <1>4, <1>6, <1>11, LostStays
  <2>5. LineInv'
    BY <1>1, <1>2, <1>4, <1>11, <2>4, SetUpLine
  <2> QED
    BY <1>9, <1>10, <2>1, <2>2, <2>3, <2>5 DEF ConnectionInv
<1>12. ASSUME NEW op \in {"setUpWithSchema", "setUpWithMigrations"},
              outbox' = Append(outbox, Message(op)), phase' = phase, conn = "waiting",
              op = "setUpWithSchema" => (disk.data => NoWay),
              op = "setUpWithMigrations" => OlderFile /\ MigrationSteps(disk.version) # {}
       PROVE  ConnectionInv'
  <2>1. PICK m \in Messages : m = Message(op) /\ m.id = 0 /\ m.op = op
    BY MessagesAre DEF SetUpOps
  <2>2. Pushed(outbox, outbox', m) /\ outbox' \in Seq(Messages)
    BY <1>1, <1>12, <2>1, AppendIs
  <2>3. /\ IsSetUp(m) /\ m.op # "initialize"
        /\ \A k \in 1..Len(outbox') : outbox'[k] = m \/ \E j \in 1..Len(outbox) : outbox'[k] = outbox[j]
    BY <2>1, <2>2, PushedElements DEF IsSetUp, SetUpOps
  <2>4. TypeOK'
    BY <1>1, <1>2, <1>4, <1>12, <2>2 DEF TypeOK, AnswerType
  <2>5. SetUpInv'
    <3>1. \A k \in 1..Len(outbox') : \/ k \in 1..Len(outbox) /\ outbox'[k] = outbox[k]
                                     \/ k = Len(outbox) + 1 /\ outbox'[k] = m
      BY <2>2 DEF Pushed
    <3>2. /\ (disk.data => NoWay)' <=> (disk.data => NoWay)
          /\ OlderFile' <=> OlderFile
          /\ MigrationSteps(disk.version)' = MigrationSteps(disk.version)
      BY <1>4 DEF NoWay, OlderFile, MigrationSteps
    <3>3. ASSUME NEW k \in 1..Len(outbox') PROVE SetUpFits(outbox[k])'
      <4>1. CASE outbox'[k] = m
        BY <1>4, <1>12, <2>1, <3>2, <4>1 DEF SetUpFits
      <4>2. CASE k \in 1..Len(outbox) /\ outbox'[k] = outbox[k]
        BY <1>5, <4>2 DEF SetUpFits, IsSetUp, SetUpOps
      <4> QED
        BY <3>1, <4>1, <4>2
    <3>4. \A k \in 1..Len(outbox') : IsSetUp(outbox'[k]) => k = Len(outbox) + 1 /\ outbox'[k] = m
      BY <1>5, <3>1
    <3>5. \A k \in 2..Len(outbox') : outbox'[k].op # "initialize"
      BY <1>5, <2>3, <3>1 DEF IsSetUp, SetUpOps
    <3> QED
      BY <1>6, <3>3, <3>4, <3>5 DEF SetUpInv, IsSetUp
  <2>6. SentInv'
    <3>1. \A k \in 1..Len(outbox') :
             \/ \E j \in 1..Len(outbox) : outbox'[k].op = outbox[j].op /\ outbox'[k].id = outbox[j].id
             \/ IsSetUp(outbox'[k]) /\ outbox'[k].id = 0
      <4>1. ASSUME NEW k \in 1..Len(outbox'), outbox'[k] = m
            PROVE  IsSetUp(outbox'[k]) /\ outbox'[k].id = 0
        BY <2>1, <2>3, <4>1
      <4> QED
        BY <2>3, <4>1
    <3> QED
      BY <1>1, <1>4, <1>6, <1>12, <3>1, SentStays
  <2>7. StaysLost
    BY <1>4, <1>12, <2>3, <1>6, LostStays
  <2>8. LineInv'
    BY <1>1, <1>2, <1>4, <2>1, <2>2, <2>7, SetUpLine
  <2> QED
    BY <1>9, <1>10, <2>4, <2>5, <2>6, <2>8 DEF ConnectionInv
<1> QED
  BY <1>8, <1>11, <1>12

(* The answer to a call: of the calls before it none is open. *)
LEMMA CallAnsweredKeeps == ASSUME ConnectionInv, CallAnswered PROVE ConnectionInv'
<1>1. /\ TypeOK /\ FileIsWhole /\ DriverFits /\ SetUpInv /\ SentInv /\ LineInv /\ HeldInv
      /\ AnswersInOrder
      /\ calls \in [Ids -> [kind : {"none"} \cup Kinds, status : {"none", "sent", "ok", "error"}]]
  BY TypeIs DEF ConnectionInv
<1>2. /\ inbox # <<>> /\ Head(inbox) = inbox[1] /\ 1 \in 1..Len(inbox) /\ inbox[1].id # 0
      /\ Popped(inbox, inbox') /\ inbox' \in Seq(AnswerType) /\ inbox[1].id \in 0..MaxCalls
  BY <1>1, FirstAnswer DEF CallAnswered
<1>3. PICK id \in Ids, result \in {"ok", "error", "record", "reset"} :
        id = inbox[1].id /\ result = inbox[1].result
  BY <1>1, <1>2, ConnectionAssumption DEF SentInv, Ids
<1>4. calls[id].status = "sent"
  BY <1>1, <1>2, <1>3 DEF SentInv
<1>5. PICK status \in {"ok", "error"} : calls' = [calls EXCEPT ![id].status = status]
  BY <1>2, <1>3 DEF CallAnswered
<1>6. /\ UNCHANGED <<waiting, disk, conn, outbox, phase, platform, app, launches, failed, misread>>
      /\ database' = DatabaseAfter(calls[id].kind, result)
      /\ held' = CASE result = "record" -> TRUE
                   [] result = "reset" -> FALSE
                   [] OTHER -> held
  BY <1>2, <1>3 DEF CallAnswered, native, world
<1>7. /\ calls' \in [Ids -> [kind : {"none"} \cup Kinds, status : {"none", "sent", "ok", "error"}]]
      /\ calls'[id].status = status
      /\ \A i \in Ids : calls'[i].kind = calls[i].kind /\ (i # id => calls'[i] = calls[i])
  BY <1>1, <1>5
<1>8. \A i \in Ids : \A kind : IsSent(i, kind)' <=> IsSent(i, kind) /\ i # id
  BY <1>5, <1>7 DEF IsSent
<1>9. /\ \A k \in 1..Len(inbox') : k + 1 \in 1..Len(inbox) /\ 1 < k + 1 /\ inbox'[k] = inbox[k + 1]
      /\ \A k \in 1..Len(inbox') : \E j \in 1..Len(inbox) : inbox'[k] = inbox[j]
  BY <1>2, PoppedElements DEF Popped
<1>10. TypeOK'
  <2>1. database' \in {"working", "resetting", "broken"} /\ held' \in BOOLEAN
    BY <1>1, <1>6 DEF TypeOK, DatabaseAfter
  <2> QED
    BY <1>1, <1>2, <1>6, <1>7, <2>1 DEF TypeOK, AnswerType
<1>11. FileIsWhole' /\ DriverFits'
  BY <1>1, <1>6 DEF FileIsWhole, DriverFits
<1>12. SetUpInv'
  <2>1. \A k \in 1..Len(outbox') : SetUpFits(outbox[k])'
    <3>1. ASSUME NEW k \in 1..Len(outbox') PROVE SetUpFits(outbox[k])'
      <4>1. SetUpFits(outbox[k]) /\ outbox'[k] = outbox[k]
        BY <1>1, <1>6 DEF SetUpInv
      <4> QED
        BY <1>6, <4>1 DEF SetUpFits, NoWay, OlderFile, MigrationSteps
    <3> QED
      BY <3>1
  <2>2. \A k \in 1..Len(inbox') : inbox'[k].id = 0 => FoundFits(inbox[k].result)'
    <3>1. ASSUME NEW k \in 1..Len(inbox'), inbox'[k].id = 0 PROVE FoundFits(inbox[k].result)'
      <4>1. FoundFits(inbox[k + 1].result) /\ inbox'[k] = inbox[k + 1]
        BY <1>1, <1>9, <3>1 DEF SetUpInv
      <4> QED
        BY <1>6, <4>1 DEF FoundFits, NoWay, OlderFile
    <3> QED
      BY <3>1
  <2>3. \A j, k \in 1..Len(inbox') : inbox'[j].id = 0 /\ inbox'[k].id = 0 => j = k
    <3>1. ASSUME NEW j \in 1..Len(inbox'), NEW k \in 1..Len(inbox'),
                 inbox'[j].id = 0, inbox'[k].id = 0
          PROVE  j = k
      <4>1. \A n \in 1..Len(inbox') : n + 1 \in 1..Len(inbox) /\ inbox'[n] = inbox[n + 1]
        BY <1>9
      <4>2. \A n, l \in 1..Len(inbox) : inbox[n].id = 0 /\ inbox[l].id = 0 => n = l
        BY <1>1 DEF SetUpInv
      <4>3. /\ j + 1 \in 1..Len(inbox) /\ inbox[j + 1].id = 0
            /\ k + 1 \in 1..Len(inbox) /\ inbox[k + 1].id = 0
        BY ONLY <3>1, <4>1
      <4>4. j + 1 = k + 1
        BY ONLY <4>2, <4>3
      <4> QED
        BY <4>4
    <3> QED
      BY <3>1
  <2>4. \A j \in 1..Len(outbox'), k \in 1..Len(inbox') : ~(IsSetUp(outbox'[j]) /\ inbox'[k].id = 0)
    BY <1>1, <1>6, <1>9 DEF SetUpInv
  <2> QED
    BY <1>1, <1>6, <2>1, <2>2, <2>3, <2>4 DEF SetUpInv, IsSetUp
<1>13. /\ \A k \in 1..Len(outbox) : outbox[k].id # id
       /\ \A k \in 1..Len(waiting) : waiting[k].id # id
       /\ \A k \in 1..Len(inbox') : inbox'[k].id # id
  <2>1. id \in Nat /\ id # 0
    BY DEF Ids
  <2>2. /\ \A k \in 1..Len(outbox) : outbox[k].id # 0 => id < outbox[k].id
        /\ \A k \in 1..Len(waiting) : waiting[k].id # 0 => id < waiting[k].id
    BY <1>1, <1>2, <1>3 DEF LineInv, Precedes
  <2>3. \A k \in 1..Len(inbox') : inbox'[k].id # 0 => id < inbox'[k].id
    BY <1>1, <1>2, <1>3, <1>9 DEF LineInv, Ascends
  <2> QED
    BY <2>1, <2>2, <2>3
<1>14. SentInv'
  <2>1. \A k \in 1..Len(outbox') : IF IsSetUp(outbox[k])' THEN outbox'[k].id = 0
                                   ELSE IsSent(outbox[k].id, outbox[k].op)'
    <3>1. ASSUME NEW k \in 1..Len(outbox'), ~IsSetUp(outbox[k])
          PROVE  IsSent(outbox[k].id, outbox[k].op)'
      <4>1. IsSent(outbox[k].id, outbox[k].op) /\ outbox'[k] = outbox[k] /\ outbox[k].id # id
        BY <1>1, <1>6, <1>13, <3>1 DEF SentInv
      <4> QED
        BY <1>7, <4>1 DEF IsSent
    <3> QED
      BY <1>1, <1>6, <3>1 DEF SentInv, IsSetUp
  <2>2. \A k \in 1..Len(waiting') : ~IsSetUp(waiting[k])' /\ IsSent(waiting[k].id, waiting[k].op)'
    <3>1. ASSUME NEW k \in 1..Len(waiting')
          PROVE  ~IsSetUp(waiting[k])' /\ IsSent(waiting[k].id, waiting[k].op)'
      <4>1. /\ IsSent(waiting[k].id, waiting[k].op) /\ ~IsSetUp(waiting[k])
            /\ waiting'[k] = waiting[k] /\ waiting[k].id # id
        BY <1>1, <1>6, <1>13 DEF SentInv
      <4> QED
        BY <1>7, <4>1 DEF IsSent, IsSetUp
    <3> QED
      BY <3>1
  <2>3. \A k \in 1..Len(inbox') : inbox'[k].id # 0 =>
         /\ calls'[inbox'[k].id].status = "sent"
         /\ inbox'[k].result \in {"ok", "error", "record", "reset"}
    <3>1. ASSUME NEW k \in 1..Len(inbox'), inbox'[k].id # 0
          PROVE  /\ calls'[inbox'[k].id].status = "sent"
                 /\ inbox'[k].result \in {"ok", "error", "record", "reset"}
      <4>1. /\ calls[inbox'[k].id].status = "sent"
            /\ inbox'[k].result \in {"ok", "error", "record", "reset"}
        BY <1>1, <1>9, <3>1 DEF SentInv
      <4>2. inbox'[k] \in AnswerType
        BY <1>2
      <4>3. inbox'[k].id \in Ids
        BY <3>1, <4>2, ConnectionAssumption DEF AnswerType, Ids
      <4> QED
        BY <1>7, <1>13, <4>1, <4>3
    <3> QED
      BY <3>1
  <2>4. \A i \in Ids : calls'[i].kind = "none" <=> calls'[i].status = "none"
    BY <1>1, <1>4, <1>7 DEF SentInv
  <2> QED
    BY <1>1, <1>6, <1>7, <2>1, <2>2, <2>3, <2>4 DEF SentInv, IsSetUp
<1>15. StaysLost
  BY <1>6, <1>9, LostStays
<1>16. LineInv'
  <2>1. \A i \in Ids : calls'[i].status = "sent" => calls[i].status = "sent" /\ i # inbox[1].id
    BY <1>3, <1>5, <1>7
  <2> QED
    BY <1>1, <1>2, <1>6, <1>15, <2>1, CallAnsweredLine
<1>17. AnswersInOrder'
  <2>1. ASSUME NEW i \in Ids, calls[i].status = "sent", i < id PROVE FALSE
    <3>1. i \in Nat /\ id \in Nat /\ i # 0 /\ id # 0
      BY DEF Ids
    <3>2. \A k \in 1..Len(inbox) : inbox[k].id # i
      <4>1. ASSUME NEW k \in 1..Len(inbox), inbox[k].id = i PROVE FALSE
        <5>1. k # 1 /\ 1 < k
          BY <1>3, <2>1, <3>1, <4>1
        <5> QED
          BY <1>1, <1>2, <1>3, <2>1, <3>1, <4>1, <5>1 DEF LineInv, Ascends
      <4> QED
        BY <4>1
    <3>3. ~Has(waiting, i) /\ ~Has(outbox, i)
      <4>1. /\ \A l \in 1..Len(waiting) : waiting[l].id # 0 => id < waiting[l].id
            /\ \A l \in 1..Len(outbox) : outbox[l].id # 0 => id < outbox[l].id
        BY <1>1, <1>2, <1>3 DEF LineInv, Precedes
      <4> QED
        BY <2>1, <3>1, <4>1 DEF Has
    <3>4. ~Lost(i)
      BY <1>2, <1>3, <2>1, <3>1 DEF Lost
    <3> QED
      BY <1>1, <2>1, <3>2, <3>3, <3>4 DEF LineInv, Has
  <2>2. ASSUME NEW i \in Ids, NEW j \in Ids, i < j, calls'[j].status \in {"ok", "error"},
               calls'[i].status = "sent"
        PROVE  FALSE
    <3>1. i # id /\ calls[i].status = "sent"
      BY <1>5, <1>7, <2>2
    <3>2. CASE j = id
      BY <2>1, <2>2, <3>1, <3>2
    <3>3. CASE j # id
      BY <1>1, <1>7, <2>2, <3>1, <3>3 DEF AnswersInOrder
    <3> QED
      BY <3>2, <3>3
  <2> QED
    BY <2>2 DEF AnswersInOrder
<1>18. HeldInv'
  <2>1. Holds' => Holds
    BY <1>2, <1>3, <1>6, <1>9 DEF Holds
  <2>2. \A k \in 1..Len(inbox') :
         inbox'[k].result = "reset" => calls'[inbox'[k].id].kind = "reset"
    <3>1. ASSUME NEW k \in 1..Len(inbox'), inbox'[k].result = "reset"
          PROVE  calls'[inbox'[k].id].kind = "reset"
      <4>1. calls[inbox'[k].id].kind = "reset"
        BY <1>1, <1>9, <3>1 DEF HeldInv
      <4>2. inbox'[k].id # 0
        BY <1>1, <1>9, <3>1 DEF SetUpInv, FoundFits
      <4>3. inbox'[k] \in AnswerType
        BY <1>2
      <4>4. inbox'[k].id \in Ids
        BY <4>2, <4>3, ConnectionAssumption DEF AnswerType, Ids
      <4> QED
        BY <1>7, <4>1, <4>4
    <3> QED
      BY <3>1
  <2>3. CASE calls[id].kind # "reset"
    <3>1. database' = database /\ result # "reset"
      BY <1>1, <1>2, <1>3, <1>6, <2>3 DEF DatabaseAfter, HeldInv
    <3>2. ASSUME NEW r \in Ids, ResetIsLast(r) PROVE ResetIsLast(r)'
      <4>1. r # id
        BY <2>3, <3>2 DEF ResetIsLast, IsSent
      <4> QED
        BY <1>7, <1>8, <3>2, <4>1 DEF ResetIsLast
    <3>3. database' # "resetting" => \A i \in Ids : ~IsSent(i, "reset")'
      BY <1>1, <1>8, <3>1 DEF HeldInv
    <3>4. database' = "resetting" => \E r \in Ids : ResetIsLast(r)'
      BY <1>1, <3>1, <3>2 DEF HeldInv
    <3>5. /\ Holds' => conn' = "connected"
          /\ database' = "working" /\ Holds' => disk'.data
      BY <1>1, <1>6, <2>1, <3>1 DEF HeldInv
    <3> QED
      BY <2>2, <3>3, <3>4, <3>5 DEF HeldInv
  <2>4. CASE calls[id].kind = "reset"
    <3>1. IsSent(id, "reset")
      BY <1>4, <2>4 DEF IsSent
    <3>2. ResetIsLast(id)
      BY <1>1, <3>1 DEF HeldInv, ResetIsLast
    <3>3. \A i \in Ids : ~IsSent(i, "reset")'
      BY <1>8, <3>2 DEF ResetIsLast
    <3>4. database' = IF result = "reset" THEN "working" ELSE "broken"
      BY <1>6, <2>4 DEF DatabaseAfter
    <3>5. ASSUME NEW k \in 1..Len(inbox') PROVE inbox'[k].result # "record"
      <4>1. CASE inbox'[k].id = 0
        BY <1>1, <1>9, <4>1 DEF SetUpInv, FoundFits
      <4>2. CASE inbox'[k].id # 0
        <5>1. calls[inbox'[k].id].status = "sent" /\ inbox'[k].id > id
          <6>1. id # 0 /\ inbox[k + 1].id # 0 /\ inbox[1].id # 0
            BY <1>2, <1>3, <1>9, <4>2
          <6>2. inbox[1].id < inbox[k + 1].id /\ calls[inbox[k + 1].id].status = "sent"
            BY <1>1, <1>2, <1>9, <6>1 DEF LineInv, Ascends, SentInv
          <6>3. inbox[k + 1].id > inbox[1].id
            <7>1. inbox[k + 1].id \in Nat /\ inbox[1].id \in Nat
              <8>1. \A n \in 1..Len(inbox) : inbox[n].id \in 0..MaxCalls
                BY <1>1, TypeIs DEF AnswerType
              <8>2. k + 1 \in 1..Len(inbox) /\ 1 \in 1..Len(inbox)
                BY <1>2, <1>9
              <8>3. inbox[k + 1].id \in 0..MaxCalls /\ inbox[1].id \in 0..MaxCalls
                BY ONLY <8>1, <8>2
              <8> QED
                BY ONLY <8>3
            <7> QED
              BY <6>2, <7>1
          <6> QED
            BY <1>3, <1>9, <6>2, <6>3
        <5>2. inbox'[k] \in AnswerType
          BY <1>2
        <5>3. inbox'[k].id \in Ids
          BY <4>2, <5>2, ConnectionAssumption DEF AnswerType, Ids
        <5> QED
          BY <1>1, <3>2, <5>1, <5>3 DEF ResetIsLast, SentInv
      <4> QED
        BY <4>1, <4>2
    <3>6. database' = "working" => ~Holds'
      BY <1>6, <3>4, <3>5 DEF Holds
    <3>7. Holds' => conn' = "connected"
      BY <1>1, <1>6, <2>1 DEF HeldInv
    <3> QED
      BY <2>2, <3>3, <3>4, <3>6, <3>7 DEF HeldInv
  <2> QED
    BY <2>3, <2>4
<1> QED
  BY <1>10, <1>11, <1>12, <1>14, <1>16, <1>17, <1>18 DEF ConnectionInv

LEMMA CallKeeps == ASSUME ConnectionInv, NEW kind \in Kinds, Call(kind) PROVE ConnectionInv'
<1>1. /\ TypeOK /\ FileIsWhole /\ DriverFits /\ SetUpInv /\ SentInv /\ LineInv /\ HeldInv
      /\ AnswersInOrder /\ outbox \in Seq(Messages) /\ inbox \in Seq(AnswerType)
      /\ waiting \in Seq(Messages)
      /\ calls \in [Ids -> [kind : {"none"} \cup Kinds, status : {"none", "sent", "ok", "error"}]]
  BY TypeIs DEF ConnectionInv
<1>2. PICK id \in Ids :
        /\ database = "working"
        /\ calls[id].kind = "none" /\ \A i \in 1..(id - 1) : calls[i].kind # "none"
        /\ calls' = [calls EXCEPT ![id] = [kind |-> kind, status |-> "sent"]]
        /\ Sends([Message(kind) EXCEPT !.id = id])
        /\ database' = IF kind = "reset" THEN "resetting" ELSE database
        /\ UNCHANGED <<native, inbox, phase, held, world, failed>>
  BY DEF Call
<1>3. UNCHANGED <<disk, conn, waiting, inbox, phase, held, platform, app, launches, failed, misread>>
  BY <1>2 DEF native, world
<1>4. id \in Nat /\ id # 0 /\ id \in 0..MaxCalls /\ id \in 1..MaxCalls
  BY ConnectionAssumption DEF Ids
<1>5. PICK m : m = [Message(kind) EXCEPT !.id = id]
  OBVIOUS
<1>6. m \in Messages /\ m.id = id /\ m.op = kind /\ ~IsSetUp(m)
  <2>1. m = [op |-> kind, id |-> id, ok |-> TRUE, create |-> FALSE]
    BY <1>5 DEF Message
  <2> QED
    BY <1>4, <2>1 DEF Messages, IsSetUp, SetUpOps, Kinds
<1>7. Pushed(outbox, outbox', m) /\ outbox' \in Seq(Messages)
  BY <1>1, <1>2, <1>5, <1>6, AppendIs DEF Sends
<1>8. /\ calls' \in [Ids -> [kind : {"none"} \cup Kinds, status : {"none", "sent", "ok", "error"}]]
      /\ calls'[id].kind = kind /\ calls'[id].status = "sent"
      /\ \A i \in Ids : i # id => calls'[i] = calls[i]
  BY <1>1, <1>2
<1>9. /\ \A i \in Ids : i > id => calls[i].kind = "none"
      /\ \A i \in Ids : calls[i].status = "sent" => i < id
  <2>1. \A i \in Ids : i > id => calls[i].kind = "none"
    BY <1>1, <1>2 DEF SentInv
  <2>2. ASSUME NEW i \in Ids, calls[i].status = "sent" PROVE i < id
    <3>1. calls[i].kind # "none"
      BY <1>1, <2>2 DEF SentInv
    <3>2. i # id /\ ~(i > id) /\ i \in Nat
      BY <1>2, <2>1, <3>1 DEF Ids
    <3> QED
      BY <1>4, <3>2
  <2> QED
    BY <2>1, <2>2
<1>10. \A i \in Ids : \A k : IsSent(i, k)' <=> IsSent(i, k) \/ (i = id /\ k = kind)
  <2>1. calls[id].status # "sent"
    BY <1>4, <1>9
  <2> QED
    BY <1>8, <2>1 DEF IsSent
<1>11. \A k \in 1..Len(outbox') : \/ k \in 1..Len(outbox) /\ outbox'[k] = outbox[k]
                                  \/ k = Len(outbox) + 1 /\ outbox'[k] = m
  BY <1>7 DEF Pushed
<1>12. TypeOK' /\ FileIsWhole' /\ DriverFits'
  <2>1. database' \in {"working", "resetting", "broken"}
    BY <1>2
  <2> QED
    BY <1>1, <1>3, <1>7, <1>8, <2>1 DEF TypeOK, FileIsWhole, DriverFits
<1>13. SetUpInv'
  <2>1. ASSUME NEW k \in 1..Len(outbox') PROVE SetUpFits(outbox[k])'
    <3>1. CASE outbox'[k] = m
      BY <1>6, <3>1 DEF SetUpFits, Kinds
    <3>2. CASE k \in 1..Len(outbox) /\ outbox'[k] = outbox[k]
      <4>1. SetUpFits(outbox[k])
        BY <1>1, <3>2 DEF SetUpInv
      <4> QED
        BY <1>3, <3>2, <4>1 DEF SetUpFits, NoWay, OlderFile, MigrationSteps
    <3> QED
      BY <1>11, <3>1, <3>2
  <2>2. ASSUME NEW k \in 1..Len(inbox'), inbox'[k].id = 0 PROVE FoundFits(inbox[k].result)'
    <3>1. FoundFits(inbox[k].result)
      BY <1>1, <1>3, <2>2 DEF SetUpInv
    <3> QED
      BY <1>3, <3>1 DEF FoundFits, NoWay, OlderFile
  <2>3. \A k \in 1..Len(outbox') : IsSetUp(outbox'[k]) => k \in 1..Len(outbox) /\ outbox'[k] = outbox[k]
    BY <1>6, <1>11
  <2>4. /\ \A j, k \in 1..Len(outbox') : IsSetUp(outbox'[j]) /\ IsSetUp(outbox'[k]) => j = k
        /\ \A j \in 1..Len(outbox'), k \in 1..Len(inbox) : ~(IsSetUp(outbox'[j]) /\ inbox[k].id = 0)
    BY <1>1, <2>3 DEF SetUpInv
  <2>5. ASSUME NEW k \in 2..Len(outbox') PROVE outbox'[k].op # "initialize"
    <3>1. k \in 1..Len(outbox')
      BY <1>7 DEF Pushed
    <3>2. CASE outbox'[k] = m
      BY <1>6, <3>2 DEF Kinds
    <3>3. CASE k \in 1..Len(outbox) /\ outbox'[k] = outbox[k]
      BY <1>1, <3>3 DEF SetUpInv
    <3> QED
      BY <1>11, <3>1, <3>2, <3>3
  <2> QED
    BY <1>1, <1>3, <2>1, <2>2, <2>4, <2>5 DEF SetUpInv, IsSetUp
<1>14. SentInv'
  <2>1. \A k \in 1..Len(outbox') : IF IsSetUp(outbox[k])' THEN outbox'[k].id = 0
                                   ELSE IsSent(outbox[k].id, outbox[k].op)'
    <3>1. ASSUME NEW k \in 1..Len(outbox')
          PROVE  IF IsSetUp(outbox[k])' THEN outbox'[k].id = 0
                 ELSE IsSent(outbox[k].id, outbox[k].op)'
      <4>1. CASE outbox'[k] = m
        BY <1>6, <1>8, <4>1 DEF IsSent, IsSetUp
      <4>2. CASE k \in 1..Len(outbox) /\ outbox'[k] = outbox[k]
        <5>1. IF IsSetUp(outbox[k]) THEN outbox[k].id = 0
              ELSE IsSent(outbox[k].id, outbox[k].op) /\ outbox[k].id # id
          BY <1>1, <1>4, <1>9, <4>2 DEF SentInv, IsSent
        <5> QED
          BY <1>8, <4>2, <5>1 DEF IsSent, IsSetUp
      <4> QED
        BY <1>11, <4>1, <4>2
    <3> QED
      BY <3>1
  <2>2. \A k \in 1..Len(waiting') : ~IsSetUp(waiting[k])' /\ IsSent(waiting[k].id, waiting[k].op)'
    <3>1. ASSUME NEW k \in 1..Len(waiting')
          PROVE  ~IsSetUp(waiting[k])' /\ IsSent(waiting[k].id, waiting[k].op)'
      <4>1. /\ IsSent(waiting[k].id, waiting[k].op) /\ ~IsSetUp(waiting[k])
            /\ waiting'[k] = waiting[k] /\ waiting[k].id # id
        BY <1>1, <1>3, <1>4, <1>9 DEF SentInv, IsSent
      <4> QED
        BY <1>8, <4>1 DEF IsSent, IsSetUp
    <3> QED
      BY <3>1
  <2>3. \A k \in 1..Len(inbox') : inbox'[k].id # 0 =>
         /\ calls'[inbox'[k].id].status = "sent"
         /\ inbox'[k].result \in {"ok", "error", "record", "reset"}
    <3>1. ASSUME NEW k \in 1..Len(inbox), inbox[k].id # 0
          PROVE  /\ calls'[inbox[k].id].status = "sent"
                 /\ inbox[k].result \in {"ok", "error", "record", "reset"}
      <4>1. /\ calls[inbox[k].id].status = "sent"
            /\ inbox[k].result \in {"ok", "error", "record", "reset"}
        BY <1>1, <3>1 DEF SentInv
      <4>2. inbox[k] \in AnswerType
        BY <1>1
      <4>3. inbox[k].id \in Ids
        BY <3>1, <4>2, ConnectionAssumption DEF AnswerType, Ids
      <4> QED
        BY <1>8, <4>1, <4>3
    <3> QED
      BY <1>3, <3>1
  <2>4. \A i \in Ids : calls'[i].kind = "none" <=> calls'[i].status = "none"
    BY <1>1, <1>8 DEF SentInv, Kinds
  <2>5. ASSUME NEW i \in Ids, NEW j \in Ids, i < j, calls'[i].kind = "none"
        PROVE  calls'[j].kind = "none"
    <3>1. i # id /\ calls[i].kind = "none"
      BY <1>8, <2>5 DEF Kinds
    <3>2. ~(i < id)
      <4>1. i < id => i \in 1..(id - 1)
        BY <1>4 DEF Ids
      <4> QED
        BY <1>2, <3>1, <4>1
    <3>3. j # id
      BY <2>5, <3>2
    <3> QED
      BY <1>1, <1>8, <2>5, <3>1, <3>3 DEF SentInv
  <2> QED
    BY <1>1, <1>3, <2>1, <2>2, <2>3, <2>4, <2>5 DEF SentInv, IsSetUp
<1>15. StaysLost
  <2>1. \A k \in 1..Len(outbox') : outbox'[k].op # "initialize"
                                     \/ \E j \in 1..Len(outbox) : outbox'[k].op = outbox[j].op
    BY <1>6, <1>11 DEF Kinds
  <2> QED
    BY <1>3, <2>1, LostStays
<1>16. LineInv'
  <2>1. \A k \in 1..Len(inbox) : inbox[k].id < id
    <3>1. ASSUME NEW k \in 1..Len(inbox) PROVE inbox[k].id < id
      <4>1. inbox[k] \in AnswerType
        BY <1>1
      <4>2. CASE inbox[k].id = 0
        BY <1>4, <4>2
      <4>3. CASE inbox[k].id # 0
        <5>1. inbox[k].id \in Ids /\ calls[inbox[k].id].status = "sent"
          BY <1>1, <4>1, <4>3, ConnectionAssumption DEF AnswerType, Ids, SentInv
        <5> QED
          BY <1>9, <5>1
      <4> QED
        BY <4>2, <4>3
    <3> QED
      BY <3>1
  <2>2. /\ \A k \in 1..Len(waiting) : waiting[k].id < id
        /\ \A k \in 1..Len(outbox) : outbox[k].id < id
    <3>1. \A k \in 1..Len(waiting) : waiting[k].id < id
      BY <1>1, <1>9 DEF SentInv, IsSent
    <3>2. ASSUME NEW k \in 1..Len(outbox) PROVE outbox[k].id < id
      <4>1. outbox[k].id = 0 \/ IsSent(outbox[k].id, outbox[k].op)
        BY <1>1 DEF SentInv
      <4>2. IsSent(outbox[k].id, outbox[k].op) => outbox[k].id < id
        BY <1>9 DEF IsSent
      <4>3. outbox[k].id = 0 => outbox[k].id < id
        BY <1>4
      <4> QED
        BY <4>1, <4>2, <4>3
    <3> QED
      BY <3>1, <3>2
  <2>3. \A i \in Ids : calls'[i].status = "sent" => calls[i].status = "sent" \/ i = m.id
    BY <1>6, <1>8
  <2>4. /\ \A k \in 1..Len(inbox) : inbox[k].id < m.id
        /\ \A k \in 1..Len(waiting) : waiting[k].id < m.id
        /\ \A k \in 1..Len(outbox) : outbox[k].id < m.id
    BY <1>6, <2>1, <2>2
  <2> QED
    BY <1>1, <1>3, <1>7, <1>15, <2>3, <2>4, NewLine
<1>17. AnswersInOrder'
  <2>1. ASSUME NEW i \in Ids, NEW j \in Ids, i < j, calls'[j].status \in {"ok", "error"}
        PROVE  calls'[i].status # "sent"
    <3>1. j # id /\ calls[j].status \in {"ok", "error"}
      BY <1>8, <2>1
    <3>2. calls[j].kind # "none"
      BY <1>1, <3>1 DEF SentInv
    <3>3. i # id
      BY <1>9, <2>1, <3>2
    <3> QED
      BY <1>1, <1>8, <2>1, <3>1, <3>3 DEF AnswersInOrder
  <2> QED
    BY <2>1 DEF AnswersInOrder
<1>18. HeldInv'
  <2>1. Holds' <=> Holds
    BY <1>3 DEF Holds
  <2>2. \A k \in 1..Len(inbox') :
         inbox'[k].result = "reset" => calls'[inbox'[k].id].kind = "reset"
    <3>1. ASSUME NEW k \in 1..Len(inbox'), inbox'[k].result = "reset"
          PROVE  calls'[inbox'[k].id].kind = "reset"
      <4>1. calls[inbox[k].id].kind = "reset" /\ inbox[k].id # 0 /\ inbox[k] \in AnswerType
        <5>1. k \in 1..Len(inbox) /\ inbox[k].result = "reset"
          BY <1>3, <3>1
        <5>2. calls[inbox[k].id].kind = "reset"
          BY <1>1, <5>1 DEF HeldInv
        <5>3. inbox[k].id # 0
          BY <1>1, <5>1 DEF SetUpInv, FoundFits
        <5>4. inbox[k] \in AnswerType
          BY <1>1, <5>1
        <5> QED
          BY <5>2, <5>3, <5>4
      <4>2. inbox[k].id \in Ids
        BY <4>1, ConnectionAssumption DEF AnswerType, Ids
      <4>3. inbox[k].id # id
        BY <1>2, <4>1
      <4> QED
        BY <1>3, <1>8, <4>1, <4>2, <4>3
    <3> QED
      BY <3>1
  <2>3. \A i \in Ids : ~IsSent(i, "reset")
    BY <1>1, <1>2 DEF HeldInv
  <2>4. kind # "reset" => \A i \in Ids : ~IsSent(i, "reset")'
    BY <1>10, <2>3
  <2>5. ASSUME kind = "reset" PROVE ResetIsLast(id)'
    <3>1. IsSent(id, "reset")' /\ \A i \in Ids : i # id => ~IsSent(i, "reset")'
      BY <1>10, <2>3, <2>5
    <3>2. \A i \in Ids : i > id => calls'[i].kind = "none"
      <4>1. \A i \in Ids : i > id => i # id
        BY <1>4
      <4> QED
        BY <1>8, <1>9, <4>1
    <3> QED
      BY <3>1, <3>2 DEF ResetIsLast
  <2>6. /\ database' = "resetting" <=> kind = "reset"
        /\ database' = "working" <=> kind # "reset"
    BY <1>2
  <2> QED
    BY <1>1, <1>2, <1>3, <2>1, <2>2, <2>4, <2>5, <2>6 DEF HeldInv
<1> QED
  BY <1>12, <1>13, <1>14, <1>16, <1>17, <1>18 DEF ConnectionInv

-----------------------------------------------------------------------------
(* A launch. *)

Fresh == /\ outbox = <<Message("initialize")>> /\ inbox = <<>> /\ waiting = <<>>
         /\ conn = "none" /\ database = "working" /\ held = FALSE /\ calls = NoCalls

LEMMA FreshIs == Fresh => DriverFits /\ SetUpInv /\ SentInv /\ LineInv /\ HeldInv /\ AnswersInOrder
<1> SUFFICES ASSUME Fresh
             PROVE  DriverFits /\ SetUpInv /\ SentInv /\ LineInv /\ HeldInv /\ AnswersInOrder
  OBVIOUS
<1>1. /\ Len(outbox) = 1 /\ outbox[1] = Message("initialize") /\ Len(inbox) = 0 /\ Len(waiting) = 0
      /\ waiting = <<>>
  BY DEF Fresh
<1>2. outbox[1].op = "initialize" /\ outbox[1].id = 0 /\ IsSetUp(outbox[1])
  BY <1>1, MessagesAre DEF SetUpOps, IsSetUp
<1>3. \A id \in Ids : calls[id].kind = "none" /\ calls[id].status = "none"
  BY DEF Fresh, NoCalls
<1>4. \A k \in 1..Len(outbox) : k = 1
  BY <1>1
<1>5. DriverFits /\ AnswersInOrder
  BY <1>3 DEF Fresh, DriverFits, AnswersInOrder
<1>6. SetUpInv
  <2>1. SetUpFits(outbox[1])
    BY <1>2 DEF SetUpFits, Fresh
  <2>2. \A k \in 2..Len(outbox) : FALSE
    BY <1>1
  <2> QED
    BY <1>1, <1>4, <2>1, <2>2 DEF SetUpInv
<1>7. SentInv
  BY <1>1, <1>2, <1>3, <1>4 DEF SentInv
<1>8. LineInv
  BY <1>1, <1>2, <1>3, <1>4 DEF LineInv, Ascends, Precedes
<1>9. HeldInv
  <2>1. ~Holds
    BY <1>1 DEF Holds, Fresh
  <2>2. \A id \in Ids : ~IsSent(id, "reset")
    BY <1>3 DEF IsSent
  <2> QED
    BY <1>1, <2>1, <2>2 DEF HeldInv, Fresh
<1> QED
  BY <1>5, <1>6, <1>7, <1>8, <1>9

LEMMA FreshType ==
    /\ <<Message("initialize")>> \in Seq(Messages) /\ <<>> \in Seq(Messages)
    /\ <<>> \in Seq(AnswerType)
    /\ NoCalls \in [Ids -> [kind : {"none"} \cup Kinds, status : {"none", "sent", "ok", "error"}]]
<1>1. Message("initialize") \in Messages
  BY MessagesAre DEF SetUpOps
<1> QED
  BY <1>1 DEF NoCalls

LEMMA InitHolds == Init => ConnectionInv
<1> SUFFICES ASSUME Init PROVE ConnectionInv
  OBVIOUS
<1>1. disk \in Files /\ FileIsWhole
  BY ConnectionAssumption DEF Init, Empty, Files, FileIsWhole
<1>2. launches \in 1..MaxLaunches
  BY ConnectionAssumption DEF Init
<1>3. TypeOK
  BY <1>1, <1>2, FreshType DEF Init, TypeOK, AnswerType
<1>4. Fresh
  BY DEF Init, Fresh
<1> QED
  BY <1>1, <1>3, <1>4, FreshIs DEF ConnectionInv

LEMMA CrashKeeps == ConnectionInv /\ Crash => ConnectionInv'
<1>1. ConnectionInv /\ Crash => TypeOK' /\ FileIsWhole' /\ Fresh'
  <2> SUFFICES ASSUME ConnectionInv, Crash PROVE TypeOK' /\ FileIsWhole' /\ Fresh'
    OBVIOUS
  <2>1. TypeOK /\ FileIsWhole
    BY DEF ConnectionInv
  <2>2. launches' \in 1..MaxLaunches
    BY <2>1, ConnectionAssumption DEF TypeOK, Crash
  <2> QED
    BY <2>1, <2>2, FreshType DEF Crash, TypeOK, AnswerType, FileIsWhole, Fresh
<1>2. Fresh' => (DriverFits /\ SetUpInv /\ SentInv /\ LineInv /\ HeldInv /\ AnswersInOrder)'
  BY FreshIs, PTL
<1> QED
  BY <1>1, <1>2 DEF ConnectionInv

-----------------------------------------------------------------------------
(* Every step keeps the invariant. *)

LEMMA StutterKeeps == ASSUME ConnectionInv, UNCHANGED vars PROVE ConnectionInv'
<1>1. UNCHANGED <<platform, app, launches, disk, conn, waiting, outbox, inbox, phase,
                  database, held, calls, failed, misread>>
  BY DEF vars
<1>2. TypeOK' /\ FileIsWhole' /\ DriverFits' /\ AnswersInOrder'
  BY <1>1 DEF ConnectionInv, TypeOK, FileIsWhole, DriverFits, AnswersInOrder
<1>3. SetUpInv'
  BY <1>1 DEF ConnectionInv, SetUpInv, SetUpFits, FoundFits, IsSetUp, NoWay, OlderFile, MigrationSteps
<1>4. SentInv'
  BY <1>1 DEF ConnectionInv, SentInv, IsSetUp, IsSent
<1>5. LineInv'
  BY <1>1 DEF ConnectionInv, LineInv, Ascends, Precedes, Has, Lost
<1>6. HeldInv'
  BY <1>1 DEF ConnectionInv, HeldInv, Holds, ResetIsLast, IsSent
<1> QED
  BY <1>2, <1>3, <1>4, <1>5, <1>6 DEF ConnectionInv

LEMMA BridgeKeeps == ASSUME ConnectionInv, Bridge PROVE ConnectionInv'
<1>1. CASE Initialize
  BY <1>1, InitializeKeeps
<1>2. CASE InitializeFails \/ SetUpWithSchemaFails \/ Settle
  BY <1>2, SetUpEndsKeeps
<1>3. CASE Erase
  BY <1>3, EraseKeeps
<1>4. CASE SetUpWithSchema
  BY <1>4, SetUpWithSchemaKeeps
<1>5. CASE SetUpWithMigrations
  BY <1>5, SetUpWithMigrationsKeeps
<1>6. CASE SetUpWithMigrationsFails
  BY <1>6, SetUpWithMigrationsFailsKeeps
<1>7. CASE Execute
  BY <1>7, ExecuteKeeps
<1>8. CASE ExecuteFails
  BY <1>8, CallFailsKeeps
<1>9. CASE Enqueue
  BY <1>9, EnqueueKeeps
<1>10. CASE Refuse
  BY <1>10, RefuseKeeps
<1> QED
  BY <1>1, <1>2, <1>3, <1>4, <1>5, <1>6, <1>7, <1>8, <1>9, <1>10 DEF Bridge

LEMMA NextKeeps == ConnectionInv /\ [Next]_vars => ConnectionInv'
<1> SUFFICES ASSUME ConnectionInv, [Next]_vars PROVE ConnectionInv'
  OBVIOUS
<1>1. CASE Bridge
  BY <1>1, BridgeKeeps
<1>2. CASE SetUpAnswered
  BY <1>2, SetUpAnsweredKeeps
<1>3. CASE CallAnswered
  BY <1>3, CallAnsweredKeeps
<1>4. CASE Crash
  BY <1>4, CrashKeeps
<1>5. CASE \E kind \in Kinds : Call(kind)
  BY <1>5, CallKeeps
<1>6. CASE UNCHANGED vars
  BY <1>6, StutterKeeps
<1> QED
  BY <1>1, <1>2, <1>3, <1>4, <1>5, <1>6 DEF Next

LEMMA Invariant == Spec => []ConnectionInv
<1> QED
  BY InitHolds, NextKeeps, PTL DEF Spec

-----------------------------------------------------------------------------
(* Types: the messages, the answers and the calls are as declared, whatever
   platforms, versions and numbers of calls and launches there are.          *)
THEOREM TypeCorrect == Spec => []TypeOK
<1>1. ConnectionInv => TypeOK
  BY DEF ConnectionInv
<1> QED
  BY <1>1, Invariant, PTL

(* A driver is used only with a file that has the tables of the running app's
   schema, or none: isCompatible() lets it through, or one of the two set-ups has
   made it so, in a transaction.                                             *)
THEOREM SchemaIsUsed == Spec => []UsesItsSchema
<1>1. ConnectionInv => UsesItsSchema
  <2> SUFFICES ASSUME ConnectionInv, conn = "connected"
               PROVE  \/ disk = Empty
                      \/ disk.version = app.schema /\ disk.tables = 1..app.schema
    BY DEF UsesItsSchema
  <2>1. disk \in Files /\ disk.version \in {0, app.schema} /\ disk.tables = 1..disk.version
        /\ (disk.version = 0 => ~disk.data)
    BY TypeIs DEF ConnectionInv, FileIsWhole, DriverFits
  <2>2. CASE disk.version = 0
    <3>1. disk.tables = {} /\ disk.data = FALSE
      BY <2>1, <2>2 DEF Files
    <3> QED
      BY <2>1, <2>2, <3>1 DEF Files, Empty
  <2>3. CASE disk.version = app.schema
    BY <2>1, <2>3
  <2> QED
    BY <2>1, <2>2, <2>3
<1> QED
  BY <1>1, Invariant, PTL

(* withDriver() and the two runs of the queue answer calls in the order they were
   made, before, during and after the set-up.                                *)
THEOREM CallsAreAnsweredInOrder == Spec => []AnswersInOrder
<1>1. ConnectionInv => AnswersInOrder
  BY DEF ConnectionInv
<1> QED
  BY <1>1, Invariant, PTL

(* unsafeResetDatabase() leaves no records in the caches of a working Database that
   the file does not have, however the reset ends.                           *)
THEOREM CachesAreStored == Spec => []HeldIsStored
<1>1. ConnectionInv => HeldIsStored
  BY DEF ConnectionInv, HeldInv, Holds, HeldIsStored
<1> QED
  BY <1>1, Invariant, PTL

(* User data goes only in a reset, in a set-up of an app whose migrations do not reach
   back to the file or, on iOS, in one that misread the version of the file: what
   initialize() has found is still so when the message it led to is handled.  *)
THEOREM OnlyResetsLoseData == Spec => DataIsKept
<1>1. ASSUME ConnectionInv, [Next]_vars, disk.data, ~disk'.data
      PROVE  \/ Head(outbox).op = "reset"
             \/ misread
             \/ disk.version > app.schema
             \/ \E v \in (disk.version + 1)..app.schema : v \notin app.steps
  <2>1. TypeOK /\ SetUpInv /\ SentInv
    BY <1>1 DEF ConnectionInv
  <2>2. disk' # disk
    BY <1>1
  <2>3. CASE Erase
    <3>1. Handles("setUpWithSchema") => SetUpFits(outbox[1]) /\ outbox[1].op = "setUpWithSchema"
      BY <2>1, HandlesIs DEF SetUpOps
    <3> QED
      BY <1>1, <2>3, <3>1 DEF Erase, Handles, SetUpFits, NoWay
  <2>4. CASE SetUpWithSchema
    <3>1. SetUpFits(outbox[1]) /\ outbox[1].op = "setUpWithSchema"
      BY <2>1, <2>4, HandlesIs DEF SetUpOps, SetUpWithSchema
    <3> QED
      BY <1>1, <3>1 DEF SetUpFits, NoWay
  <2>5. CASE SetUpWithMigrations
    <3>1. disk \in Files
      BY <2>1, TypeIs
    <3>2. disk'.data = disk.data
      BY <2>5, <3>1 DEF SetUpWithMigrations, Files
    <3> QED
      BY <1>1, <3>2
  <2>6. CASE Execute
    <3>1. disk \in Files
      BY <2>1, TypeIs
    <3>2. CASE Head(outbox).op = "write" /\ disk' = [disk EXCEPT !.data = TRUE]
      BY <1>1, <3>1, <3>2 DEF Files
    <3> QED
      BY <2>2, <2>6, <3>2 DEF Execute, IsCall, Kinds
  <2>7. CASE InitializeFails \/ SetUpWithSchemaFails \/ Settle \/ ExecuteFails \/ Refuse
    BY <2>2, <2>7 DEF InitializeFails, SetUpWithSchemaFails, Settle, ExecuteFails, Refuse, native
  <2>8. CASE Initialize \/ SetUpWithMigrationsFails \/ Enqueue \/ Crash
    BY <2>2, <2>8 DEF Initialize, SetUpWithMigrationsFails, Enqueue, Crash
  <2>9. CASE SetUpAnswered \/ CallAnswered \/ \E kind \in Kinds : Call(kind)
    BY <2>2, <2>9 DEF SetUpAnswered, CallAnswered, Call, native
  <2>10. CASE UNCHANGED vars
    BY <2>2, <2>10 DEF vars
  <2> QED
    BY <1>1, <2>3, <2>4, <2>5, <2>6, <2>7, <2>8, <2>9, <2>10 DEF Next, Bridge
<1>2. ConnectionInv /\ [Next]_vars =>
        [disk.data /\ ~disk'.data =>
           \/ Head(outbox).op = "reset"
           \/ misread
           \/ disk.version > app.schema
           \/ \E v \in (disk.version + 1)..app.schema : v \notin app.steps]_vars
  BY <1>1
<1> QED
  BY <1>2, Invariant, PTL DEF Spec, DataIsKept
=============================================================================
