------------------------ MODULE NativeDatabaseProofs -------------------------
(* Proofs about NativeDatabase, for every set of records, adapters, schema
   versions, locking modes and faults: the file holds the effect of whole calls,
   lastPulledAt is stored behind what it stands for, and the cache of the native
   side never runs ahead of JavaScript.                                      *)
EXTENDS NativeDatabase, FiniteSetTheorems, TLAPS

SchemaOps == {"setUpWithSchema", "unsafeResetDatabase"}
WritingOps == SchemaOps \cup {"setUpWithMigrations", "batch", "unsafeLoadFromSync",
                              "setLastPulledAt"}

-----------------------------------------------------------------------------
(* What is left of a transaction, t, behind its begin, once the keys add and
   remove have been written and tables exist or do not yet.                  *)

Ends(t) == t # <<>> /\ t[Len(t)].do = "commit"
Body(t) == 1..(Len(t) - 1)

SchemaLeft(t) == \E v \in 1..MaxVersion :
    t = <<DoVersion("schema", v), DoVersion("setVersion", v), Do("commit")>>

MigrationLeft(t) == \E v \in 1..MaxVersion :
    t = <<DoVersion("migrate", v), DoVersion("setVersion", v), Do("commit")>>

(* A batch inserts before it deletes, and never deletes what it inserts. *)
BatchLeft(t, add, remove) ==
    /\ Ends(t)
    /\ \A k \in Body(t) :
         \/ t[k].do = "insert" /\ remove = {}
         \/ t[k].do = "delete" /\ t[k].id \cap add = {}
    /\ \A j, k \in Body(t) : t[j].do = "insert" /\ t[k].do = "delete" =>
         j < k /\ t[j].id \cap t[k].id = {}

(* A turbo sync loads every record, and looks at the tables first or last. *)
LoadLeft(t, add, tables) ==
    /\ Ends(t)
    /\ \A k \in Body(t) : t[k].do \in {"insert", "indices"}
    /\ ServerIds = add \cup UNION {t[k].id : k \in {j \in Body(t) : t[j].do = "insert"}}
    /\ tables # 0 \/ \E k \in Body(t) : t[k].do = "indices"

PullLeft(t) == t = <<Do("setPulled"), Do("commit")>>

Left(op, t) ==
    \/ op \in SchemaOps /\ SchemaLeft(t)
    \/ op = "setUpWithMigrations" /\ MigrationLeft(t)
    \/ op = "batch" /\ BatchLeft(t, {}, {})
    \/ op = "unsafeLoadFromSync" /\ LoadLeft(t, {}, 0)
    \/ op = "setLastPulledAt" /\ PullLeft(t)

-----------------------------------------------------------------------------
(* What a transaction w has made of the file f, with t left to do. *)

SchemaWork(t, f, w) == \E v \in 1..MaxVersion :
    \/ t = <<DoVersion("schema", v), DoVersion("setVersion", v), Do("commit")>> /\ w = f
    \/ /\ t = <<DoVersion("setVersion", v), Do("commit")>>
       /\ f.tables = 0 /\ w = [f EXCEPT !.tables = v]
    \/ /\ t = <<Do("commit")>>
       /\ f.tables = 0 /\ w = [f EXCEPT !.version = v, !.tables = v]

MigrationWork(t, f, w) == \E v \in 1..MaxVersion :
    \/ t = <<DoVersion("migrate", v), DoVersion("setVersion", v), Do("commit")>> /\ w = f
    \/ /\ t = <<DoVersion("setVersion", v), Do("commit")>>
       /\ f.tables \in 1..(v - 1) /\ w = [f EXCEPT !.tables = v]
    \/ /\ t = <<Do("commit")>>
       /\ f.tables \in 1..(v - 1) /\ w = [f EXCEPT !.version = v, !.tables = v]

BatchWork(t, add, remove, f, w) ==
    /\ BatchLeft(t, add, remove)
    /\ add \cap (f.rows \cup remove) = {}
    /\ add \cup remove # {} => f.tables # 0
    /\ w = [f EXCEPT !.rows = (@ \cup add) \ remove]

LoadWork(t, add, f, w) ==
    /\ LoadLeft(t, add, f.tables)
    /\ add \cap f.rows = {}
    /\ w = [f EXCEPT !.rows = @ \cup add]

PullWork(t, f, w) ==
    \/ PullLeft(t) /\ w = f
    \/ t = <<Do("commit")>> /\ f.tables # 0 /\ w = [f EXCEPT !.pulled = TRUE]

Work(c, f, w) ==
    \/ c.op \in SchemaOps /\ SchemaWork(c.todo, f, w)
    \/ c.op = "setUpWithMigrations" /\ MigrationWork(c.todo, f, w)
    \/ c.op = "batch" /\ BatchWork(c.todo, c.add, c.remove, f, w)
    \/ c.op = "unsafeLoadFromSync" /\ LoadWork(c.todo, c.add, f, w)
    \/ c.op = "setLastPulledAt" /\ PullWork(c.todo, f, w)

(* A writing call that has not begun its transaction. *)
Unbegun(c) ==
    /\ c.add = {} /\ c.remove = {}
    /\ \/ Head(c.todo).do = "begin" /\ Left(c.op, Tail(c.todo))
       \/ c.op \in SchemaOps /\ \E v \in 1..MaxVersion : c.todo = Reset(v)

(* The calls that do not write. *)
ReadingCall(c) ==
    \/ c.op = "none" /\ c.todo = <<>>
    \/ c.op = "initialize" /\ c.todo \in {<<>>, <<Do("user_version")>>}
    \/ /\ c.op \in {"find", "query", "count"}
       /\ \/ c.todo = <<>>
          \/ Len(c.todo) = 1 /\ c.todo[1].do = "select"
          \/ c.op = "query" /\ c.todo = <<Do("row")>>

CallIsSound(a) ==
    /\ conn[a].inTransaction =>
         holder = a /\ call[a].op \in WritingOps /\ Work(call[a], file, conn[a].work)
    /\ ~conn[a].inTransaction =>
         \/ ReadingCall(call[a])
         \/ call[a].op \in WritingOps /\ (call[a].todo = <<>> \/ Unbegun(call[a]))

FileInv == TypeOK /\ \A a \in Adapter : CallIsSound(a)

-----------------------------------------------------------------------------
(* What the native side takes JavaScript to know, given what it is about to be
   told.                                                                     *)

CacheIsKnown(a) ==
    LET c == call[a]  cached == conn[a].cached  known == app[a].known IN
    /\ c.todo # <<>> => c.ok
    /\ c.op \notin {"find", "query", "batch"} => cached \subseteq known
    /\ c.op \in SchemaOps /\ (conn[a].inTransaction \/ c.todo = <<>>) => cached = {}
    /\ c.op = "batch" => cached \subseteq IF c.todo = <<>> /\ c.ok
                                          THEN (known \cup c.add) \ c.remove ELSE known
    /\ c.op \in {"find", "query"} =>
         /\ cached \subseteq known \cup c.full
         /\ c.bare \subseteq known
         /\ c.full # {} => c.ok
    /\ c.op = "find" /\ c.todo # <<>> => c.full = {}
    /\ c.op = "query" =>
         /\ c.rows \cap c.full = {}
         /\ c.todo # <<>> /\ c.todo # <<Do("row")>> => c.full = {}

Scripted(a) == app[a].status \in {"setup", "ready", "failed"}

CacheInv == \A a \in Adapter :
    /\ app[a].status = "none" => call[a].op = "none"
    /\ Scripted(a) => CacheIsKnown(a)

-----------------------------------------------------------------------------
(* What the turbo sync of an adapter that was always alone says is so. *)
AloneIsLoaded(a) ==
    app[a].alone =>
      /\ conn[a].open => \A b \in Adapter \ {a} : ~conn[b].open
      /\ app[a].sync = "loaded" => call[a].op \in {"none", "find", "query", "count"}
      /\ \/ app[a].sync = "loaded"
         \/ call[a].op = "unsafeLoadFromSync" /\ call[a].todo = <<>> /\ call[a].ok
         \/ call[a].op = "setLastPulledAt"
         => conn[a].open /\ file.loaded

LoadedInv == \A a \in Adapter : AloneIsLoaded(a)

-----------------------------------------------------------------------------
(* The lists of statements of the calls. *)

LEMMA StatementsAre ==
    /\ \A s \in Statements : Do(s) \in Statement
    /\ \A s \in Statements, v \in 0..MaxVersion : DoVersion(s, v) \in Statement
    /\ \A s \in Statements, ids \in SUBSET Id : [do |-> s, id |-> ids, version |-> 0] \in Statement
  BY NativeAssumption DEF Do, DoVersion, Statement

LEMMA DoEachIs ==
    ASSUME NEW s \in Statements, NEW ids \in SUBSET Id
    PROVE  /\ DoEach(s, ids) \in Seq(Statement)
           /\ \A k \in 1..Len(DoEach(s, ids)) :
                DoEach(s, ids)[k].do = s /\ DoEach(s, ids)[k].id \subseteq ids
           /\ \A id \in ids : \E k \in 1..Len(DoEach(s, ids)) : id \in DoEach(s, ids)[k].id
<1>1. IsFiniteSet(ids)
  BY NativeAssumption, FS_Subset
<1>2. /\ Cardinality(ids) \in Nat
      /\ ExistsBijection(1..Cardinality(ids), ids)
  BY <1>1, FS_CardinalityType
<1> DEFINE N == Cardinality(ids)
           each == SetToSeq(ids)
<1>3. \E f \in [1..N -> ids] : IsInjective(f)
  BY <1>2 DEF ExistsBijection, Bijection, Injection
<1>4. each \in [1..N -> ids] /\ IsInjective(each)
  BY <1>3 DEF SetToSeq
<1>5. Cardinality(1..N) = N
  <2>1. ExistsBijection(1..N, 1..N)
    <3> DEFINE g == [k \in 1..N |-> k]
    <3>1. g \in Bijection(1..N, 1..N)
      BY DEF Bijection, Injection, Surjection, IsInjective
    <3> QED
      BY <3>1 DEF ExistsBijection
  <2> QED
    BY <1>2, <2>1, FS_CountingElements
<1>6. \A id \in ids : \E k \in 1..N : each[k] = id
  <2>1. each \in Injection(1..N, ids)
    BY <1>4 DEF Injection
  <2>2. each \in Surjection(1..N, ids)
    BY <1>1, <1>5, <2>1, FS_Injection
  <2> QED
    BY <2>2 DEF Surjection
<1>7. each \in Seq(ids) /\ Len(each) = N
  BY <1>2, <1>4
<1>8. DoEach(s, ids) = [k \in 1..N |-> [do |-> s, id |-> {each[k]}, version |-> 0]]
  BY <1>7 DEF DoEach
<1> HIDE DEF N, each
<1>9. \A k \in 1..N : [do |-> s, id |-> {each[k]}, version |-> 0] \in Statement
  BY <1>4, StatementsAre
<1>10. DoEach(s, ids) \in Seq(Statement) /\ Len(DoEach(s, ids)) = N
  BY <1>2, <1>8, <1>9 DEF N
<1>11. ASSUME NEW k \in 1..N
       PROVE  DoEach(s, ids)[k].do = s /\ DoEach(s, ids)[k].id = {each[k]} /\ each[k] \in ids
  BY <1>4, <1>8
<1> QED
  BY <1>6, <1>10, <1>11


(* A sequence without its head. *)
LEMMA TailIs ==
    ASSUME NEW t \in Seq(Statement), t # <<>>
    PROVE  /\ Len(t) \in Nat \ {0}
           /\ Head(t) = t[1] /\ t[1] \in Statement
           /\ Tail(t) \in Seq(Statement)
           /\ Len(Tail(t)) = Len(t) - 1
           /\ \A k \in 1..Len(Tail(t)) : Tail(t)[k] = t[k + 1]
           /\ Len(t) = 1 <=> Tail(t) = <<>>
<1>1. /\ Len(t) \in Nat \ {0}
      /\ Head(t) = t[1] /\ t[1] \in Statement
      /\ Tail(t) \in Seq(Statement)
      /\ Len(Tail(t)) = Len(t) - 1
      /\ \A k \in 1..Len(Tail(t)) : Tail(t)[k] = t[k + 1]
  OBVIOUS
<1>2. \A u \in Seq(Statement) : Len(u) = 0 <=> u = <<>>
  OBVIOUS
<1>3. Len(Tail(t)) = 0 <=> Tail(t) = <<>>
  BY <1>1, <1>2
<1> QED
  BY <1>1, <1>3

LEMMA ConcatIs ==
    ASSUME NEW s \in Seq(Statement), NEW t \in Seq(Statement)
    PROVE  /\ s \o t \in Seq(Statement)
           /\ Len(s) \in Nat /\ Len(t) \in Nat /\ Len(s \o t) = Len(s) + Len(t)
           /\ \A k \in 1..Len(s) : (s \o t)[k] = s[k]
           /\ \A k \in (Len(s) + 1)..(Len(s) + Len(t)) : (s \o t)[k] = t[k - Len(s)]
OBVIOUS

LEMMA ThenIs ==
    ASSUME NEW x \in Statement, NEW y \in Statement, NEW z \in Statement
    PROVE  <<x, y>> \o <<z>> = <<x, y, z>> /\ <<x>> \o <<z>> = <<x, z>>
<1>1. /\ <<x, y>> \in Seq(Statement) /\ <<x>> \in Seq(Statement) /\ <<z>> \in Seq(Statement)
      /\ Len(<<x, y>>) = 2 /\ Len(<<x>>) = 1 /\ Len(<<z>>) = 1
  OBVIOUS
<1>2. \A u \in Seq(Statement) : Len(u) = 3 => u = <<u[1], u[2], u[3]>>
  OBVIOUS
<1>3. \A u \in Seq(Statement) : Len(u) = 2 => u = <<u[1], u[2]>>
  OBVIOUS
<1> DEFINE s == <<x, y>> \o <<z>>
           t == <<x>> \o <<z>>
<1>4. s \in Seq(Statement) /\ Len(s) = 3 /\ s[1] = x /\ s[2] = y /\ s[3] = z
  BY <1>1, ConcatIs
<1>5. t \in Seq(Statement) /\ Len(t) = 2 /\ t[1] = x /\ t[2] = z
  BY <1>1, ConcatIs
<1> HIDE DEF s, t
<1>6. s = <<x, y, z>> /\ t = <<x, z>>
  BY <1>2, <1>3, <1>4, <1>5
<1> QED
  BY <1>6 DEF s, t

LEMMA TransactionIs ==
    ASSUME NEW t \in Seq(Statement)
    PROVE  /\ Transaction(t) \in Seq(Statement)
           /\ Transaction(t) # <<>>
           /\ Head(Transaction(t)) = Do("begin")
           /\ Tail(Transaction(t)) = t \o <<Do("commit")>>
<1>1. Do("begin") \in Statement /\ Do("commit") \in Statement
  BY StatementsAre DEF Statements
<1>2. t \o <<Do("commit")>> \in Seq(Statement)
  BY <1>1
<1>3. Transaction(t) = <<Do("begin")>> \o (t \o <<Do("commit")>>)
  BY <1>1 DEF Transaction
<1> HIDE DEF Do
<1> QED
  BY <1>1, <1>2, <1>3

LEMMA EndsIs ==
    ASSUME NEW t \in Seq(Statement)
    PROVE  LET u == t \o <<Do("commit")>> IN
           /\ u \in Seq(Statement) /\ Ends(u) /\ Body(u) = 1..Len(t)
           /\ \A k \in Body(u) : u[k] = t[k]
<1>1. Do("commit") \in Statement /\ Do("commit").do = "commit"
  BY StatementsAre DEF Statements, Do
<1> HIDE DEF Do
<1> QED
  BY <1>1 DEF Ends, Body

LEMMA WrittenIs ==
    ASSUME NEW add \in SUBSET Id, NEW remove \in SUBSET Id, add \cap remove = {}
    PROVE  /\ Written(add, remove) \in Seq(Statement)
           /\ Written(add, remove) # <<>>
           /\ Head(Written(add, remove)) = Do("begin")
           /\ BatchLeft(Tail(Written(add, remove)), {}, {})
<1> DEFINE i == DoEach("insert", add)
           d == DoEach("delete", remove)
           u == (i \o d) \o <<Do("commit")>>
<1>1. /\ i \in Seq(Statement)
      /\ \A k \in 1..Len(i) : i[k].do = "insert" /\ i[k].id \subseteq add
  BY DoEachIs DEF Statements
<1>2. /\ d \in Seq(Statement)
      /\ \A k \in 1..Len(d) : d[k].do = "delete" /\ d[k].id \subseteq remove
  BY DoEachIs DEF Statements
<1>3. Written(add, remove) = Transaction(i \o d)
  BY DEF Written
<1> HIDE DEF i, d
<1>4. /\ i \o d \in Seq(Statement) /\ Len(i \o d) = Len(i) + Len(d)
      /\ Len(i) \in Nat /\ Len(d) \in Nat
      /\ \A k \in 1..Len(i) : (i \o d)[k] = i[k]
      /\ \A k \in (Len(i) + 1)..(Len(i) + Len(d)) : (i \o d)[k] = d[k - Len(i)]
  BY <1>1, <1>2
<1>5. /\ u \in Seq(Statement) /\ Ends(u) /\ Body(u) = 1..(Len(i) + Len(d))
      /\ \A k \in Body(u) : u[k] = (i \o d)[k]
  BY <1>4, EndsIs
<1> HIDE DEF u
<1>6. \A k \in Body(u) : \/ k <= Len(i) /\ u[k].do = "insert" /\ u[k].id \subseteq add
                         \/ k > Len(i) /\ u[k].do = "delete" /\ u[k].id \subseteq remove
  BY SMTT(30), <1>1, <1>2, <1>4, <1>5
<1>7. BatchLeft(u, {}, {})
  <2>1. \A k \in Body(u) : k \in Nat /\ (u[k].do = "insert" \/ u[k].do = "delete")
    BY <1>4, <1>5, <1>6
  <2>2. ASSUME NEW j \in Body(u), NEW k \in Body(u), u[j].do = "insert", u[k].do = "delete"
        PROVE  j < k /\ u[j].id \cap u[k].id = {}
    <3>1. j <= Len(i) /\ u[j].id \subseteq add
      BY <1>6, <2>2
    <3>2. k > Len(i) /\ u[k].id \subseteq remove
      BY <1>6, <2>2
    <3>3. j < k
      BY <1>4, <2>1, <3>1, <3>2
    <3> QED
      BY <3>1, <3>2, <3>3
  <2>3. \A k \in Body(u) : u[k].do = "insert" \/ (u[k].do = "delete" /\ u[k].id \cap {} = {})
    BY <2>1
  <2> QED
    BY <1>5, <2>2, <2>3 DEF BatchLeft
<1> QED
  BY <1>3, <1>4, <1>7, TransactionIs DEF u

LEMMA LoadIs ==
    /\ LoadFromSync \in Seq(Statement) /\ LoadFromSync # <<>>
    /\ Head(LoadFromSync) = Do("begin")
    /\ LoadLeft(Tail(LoadFromSync), {}, 0)
<1> DEFINE n == <<Do("indices")>>
           i == DoEach("insert", ServerIds)
           b == n \o i \o n
           u == b \o <<Do("commit")>>
<1>1. /\ i \in Seq(Statement)
      /\ \A k \in 1..Len(i) : i[k].do = "insert" /\ i[k].id \subseteq ServerIds
      /\ \A id \in ServerIds : \E k \in 1..Len(i) : id \in i[k].id
  BY DoEachIs, NativeAssumption DEF Statements
<1>2. n \in Seq(Statement) /\ Len(n) = 1 /\ n[1].do = "indices"
  <2>1. Do("indices") \in Statement /\ Do("indices").do = "indices"
    BY StatementsAre DEF Statements, Do
  <2> HIDE DEF Do
  <2> QED
    BY <2>1
<1>3. LoadFromSync = Transaction(b)
  BY DEF LoadFromSync
<1> HIDE DEF i, n
<1>4. /\ b \in Seq(Statement) /\ Len(b) = Len(i) + 2 /\ Len(i) \in Nat
      /\ b[1] = n[1] /\ b[Len(i) + 2] = n[1]
      /\ \A k \in 2..(Len(i) + 1) : b[k] = i[k - 1]
  <2> DEFINE m == n \o i
  <2>1. /\ m \in Seq(Statement) /\ Len(m) = Len(i) + 1 /\ Len(i) \in Nat
        /\ m[1] = n[1] /\ \A k \in 2..(Len(i) + 1) : m[k] = i[k - 1]
    <3>1. /\ m \in Seq(Statement)
          /\ Len(n) \in Nat /\ Len(i) \in Nat /\ Len(m) = Len(n) + Len(i)
          /\ \A k \in 1..Len(n) : m[k] = n[k]
          /\ \A k \in (Len(n) + 1)..(Len(n) + Len(i)) : m[k] = i[k - Len(n)]
      BY ONLY <1>1, <1>2, ConcatIs
    <3> QED
      BY ONLY <1>2, <3>1
  <2>2. b = m \o n
    BY DEF b
  <2> HIDE DEF m, b
  <2> QED
    <3>1. /\ b \in Seq(Statement)
          /\ Len(m) \in Nat /\ Len(b) = Len(m) + Len(n)
          /\ \A k \in 1..Len(m) : b[k] = m[k]
          /\ \A k \in (Len(m) + 1)..(Len(m) + Len(n)) : b[k] = n[k - Len(m)]
      BY <1>2, <2>1, <2>2, ConcatIs
    <3> QED
      BY ONLY <1>2, <2>1, <3>1
<1> HIDE DEF b
<1>5. /\ u \in Seq(Statement) /\ Ends(u) /\ Body(u) = 1..(Len(i) + 2)
      /\ \A k \in Body(u) : u[k] = b[k]
  BY <1>4, EndsIs
<1>6. Tail(LoadFromSync) = u
  BY <1>3, <1>4, TransactionIs
<1> HIDE DEF u
<1>7. u[1].do = "indices" /\ 1 \in Body(u)
  BY <1>2, <1>4, <1>5
<1>8. \A k \in Body(u) : /\ u[k].do \in {"insert", "indices"}
                         /\ u[k].do = "insert" => u[k].id \subseteq ServerIds
  <2> SUFFICES ASSUME NEW k \in Body(u)
               PROVE  /\ u[k].do \in {"insert", "indices"}
                      /\ u[k].do = "insert" => u[k].id \subseteq ServerIds
    OBVIOUS
  <2>1. CASE k \in 2..(Len(i) + 1)
    <3>1. k - 1 \in 1..Len(i) /\ u[k] = i[k - 1]
      BY <1>4, <1>5, <2>1
    <3> QED
      BY <1>1, <3>1
  <2>2. CASE k \in {1, Len(i) + 2}
    BY <1>2, <1>4, <1>5, <2>2
  <2> QED
    BY <1>4, <1>5, <2>1, <2>2
<1>9. \A id \in ServerIds : \E k \in Body(u) : u[k].do = "insert" /\ id \in u[k].id
  <2> SUFFICES ASSUME NEW id \in ServerIds
               PROVE  \E k \in Body(u) : u[k].do = "insert" /\ id \in u[k].id
    OBVIOUS
  <2>1. PICK k \in 1..Len(i) : id \in i[k].id
    BY <1>1
  <2>2. k + 1 \in Body(u) /\ u[k + 1] = i[k]
    BY <1>4, <1>5
  <2> QED
    BY <1>1, <2>1, <2>2
<1>10. LoadLeft(u, {}, 0)
  BY <1>5, <1>7, <1>8, <1>9 DEF LoadLeft
<1> QED
  BY <1>3, <1>4, <1>6, <1>10, TransactionIs


-----------------------------------------------------------------------------
(* What a statement makes of the transaction it is part of. *)

LEMMA EffectIs ==
    ASSUME NEW w \in Files, NEW s \in Statement
    PROVE  Effect(w, s) \in Files
<1>1. s.do \in Statements /\ s.id \in SUBSET Id /\ s.version \in 0..MaxVersion
  BY DEF Statement
<1>2. CASE s.do = "vacuum"
  BY <1>2, NativeAssumption DEF Effect, Files, Empty
<1>3. CASE s.do \in {"schema", "migrate"}
  BY <1>1, <1>3 DEF Effect, Files
<1>4. CASE s.do = "setVersion"
  BY <1>1, <1>4 DEF Effect, Files
<1>5. CASE s.do = "insert"
  BY <1>1, <1>5 DEF Effect, Files
<1>6. CASE s.do = "delete"
  BY <1>1, <1>6 DEF Effect, Files
<1>7. CASE s.do = "setPulled"
  BY <1>7 DEF Effect, Files
<1>8. CASE s.do \notin {"vacuum", "schema", "migrate", "setVersion", "insert", "delete", "setPulled"}
  BY <1>8 DEF Effect
<1> QED
  BY <1>2, <1>3, <1>4, <1>5, <1>6, <1>7, <1>8

LEMMA ThreeIs ==
    ASSUME NEW x, NEW y, NEW z
    PROVE  /\ Head(<<x, y, z>>) = x /\ Tail(<<x, y, z>>) = <<y, z>>
           /\ Head(<<y, z>>) = y /\ Tail(<<y, z>>) = <<z>>
           /\ Head(<<z>>) = z
OBVIOUS

LEMMA SchemaStep ==
    ASSUME NEW f \in Files, NEW w \in Files, NEW t, SchemaWork(t, f, w),
           Head(t).do # "commit", ~Refused(w, Head(t))
    PROVE  /\ SchemaWork(Tail(t), f, Effect(w, Head(t)))
           /\ Head(t).do \in {"schema", "setVersion"}
<1> PICK v \in 1..MaxVersion :
      \/ t = <<DoVersion("schema", v), DoVersion("setVersion", v), Do("commit")>> /\ w = f
      \/ /\ t = <<DoVersion("setVersion", v), Do("commit")>>
         /\ f.tables = 0 /\ w = [f EXCEPT !.tables = v]
      \/ /\ t = <<Do("commit")>>
         /\ f.tables = 0 /\ w = [f EXCEPT !.version = v, !.tables = v]
  BY DEF SchemaWork
<1> DEFINE x == DoVersion("schema", v)
           y == DoVersion("setVersion", v)
           z == Do("commit")
<1>1. /\ x.do = "schema" /\ x.version = v
      /\ y.do = "setVersion" /\ y.version = v
      /\ z.do = "commit"
  BY DEF DoVersion, Do
<1> HIDE DEF x, y, z
<1>2. CASE t = <<x, y, z>> /\ w = f
  <2>1. Head(t) = x /\ Tail(t) = <<y, z>>
    BY <1>2, ThreeIs
  <2>2. f.tables = 0 /\ Effect(f, x) = [f EXCEPT !.tables = v]
    BY <1>1, <1>2, <2>1 DEF Refused, Effect
  <2> QED
    BY <1>1, <1>2, <2>1, <2>2 DEF SchemaWork, x, y, z
<1>3. CASE t = <<y, z>> /\ f.tables = 0 /\ w = [f EXCEPT !.tables = v]
  <2>1. Head(t) = y /\ Tail(t) = <<z>>
    BY <1>3, ThreeIs
  <2>2. Effect(w, y) = [f EXCEPT !.version = v, !.tables = v]
    BY <1>1, <1>3 DEF Effect, Files
  <2> QED
    BY <1>1, <1>3, <2>1, <2>2 DEF SchemaWork, x, y, z
<1>4. CASE t = <<z>>
  BY <1>1, <1>4, ThreeIs
<1> QED
  BY <1>2, <1>3, <1>4 DEF x, y, z

LEMMA MigrationStep ==
    ASSUME NEW f \in Files, NEW w \in Files, NEW t, MigrationWork(t, f, w),
           Head(t).do # "commit", ~Refused(w, Head(t))
    PROVE  /\ MigrationWork(Tail(t), f, Effect(w, Head(t)))
           /\ Head(t).do \in {"migrate", "setVersion"}
<1> PICK v \in 1..MaxVersion :
      \/ t = <<DoVersion("migrate", v), DoVersion("setVersion", v), Do("commit")>> /\ w = f
      \/ /\ t = <<DoVersion("setVersion", v), Do("commit")>>
         /\ f.tables \in 1..(v - 1) /\ w = [f EXCEPT !.tables = v]
      \/ /\ t = <<Do("commit")>>
         /\ f.tables \in 1..(v - 1) /\ w = [f EXCEPT !.version = v, !.tables = v]
  BY DEF MigrationWork
<1> DEFINE x == DoVersion("migrate", v)
           y == DoVersion("setVersion", v)
           z == Do("commit")
<1>1. /\ x.do = "migrate" /\ x.version = v
      /\ y.do = "setVersion" /\ y.version = v
      /\ z.do = "commit"
  BY DEF DoVersion, Do
<1> HIDE DEF x, y, z
<1>2. CASE t = <<x, y, z>> /\ w = f
  <2>1. Head(t) = x /\ Tail(t) = <<y, z>>
    BY <1>2, ThreeIs
  <2>2. f.tables \in 1..(v - 1) /\ Effect(f, x) = [f EXCEPT !.tables = v]
    BY <1>1, <1>2, <2>1 DEF Refused, Effect
  <2> QED
    BY <1>1, <1>2, <2>1, <2>2 DEF MigrationWork, x, y, z
<1>3. CASE t = <<y, z>> /\ f.tables \in 1..(v - 1) /\ w = [f EXCEPT !.tables = v]
  <2>1. Head(t) = y /\ Tail(t) = <<z>>
    BY <1>3, ThreeIs
  <2>2. Effect(w, y) = [f EXCEPT !.version = v, !.tables = v]
    BY <1>1, <1>3 DEF Effect, Files
  <2> QED
    BY <1>1, <1>3, <2>1, <2>2 DEF MigrationWork, x, y, z
<1>4. CASE t = <<z>>
  BY <1>1, <1>4, ThreeIs
<1> QED
  BY <1>2, <1>3, <1>4 DEF x, y, z

LEMMA PullStep ==
    ASSUME NEW f \in Files, NEW w \in Files, NEW t, PullWork(t, f, w),
           Head(t).do # "commit", ~Refused(w, Head(t))
    PROVE  /\ PullWork(Tail(t), f, Effect(w, Head(t)))
           /\ Head(t).do = "setPulled"
<1> DEFINE x == Do("setPulled")
           z == Do("commit")
<1>1. x.do = "setPulled" /\ z.do = "commit"
  BY DEF Do
<1> HIDE DEF x, z
<1>2. CASE t = <<x, z>> /\ w = f
  <2>1. Head(t) = x /\ Tail(t) = <<z>>
    BY <1>2, ThreeIs
  <2>2. f.tables # 0 /\ Effect(f, x) = [f EXCEPT !.pulled = TRUE]
    BY <1>1, <1>2, <2>1 DEF Refused, Effect
  <2> QED
    BY <1>1, <1>2, <2>1, <2>2 DEF PullWork, x, z
<1>3. CASE t = <<z>>
  BY <1>1, <1>3, ThreeIs
<1> QED
  BY <1>2, <1>3 DEF PullWork, PullLeft, x, z

(* The bodies of what is left, without the head. *)
LEMMA BodyIs ==
    ASSUME NEW t \in Seq(Statement), Ends(t), Head(t).do # "commit"
    PROVE  /\ Ends(Tail(t)) /\ Tail(t) \in Seq(Statement)
           /\ 1 \in Body(t) /\ Head(t) = t[1] /\ t[1] \in Statement
           /\ \A k \in Body(Tail(t)) : k \in Nat /\ k + 1 \in Body(t) /\ Tail(t)[k] = t[k + 1]
           /\ \A k \in Body(t) : k # 1 => k - 1 \in Body(Tail(t)) /\ Tail(t)[k - 1] = t[k]
<1>1. t # <<>> /\ t[Len(t)].do = "commit"
  BY DEF Ends
<1>2. Len(t) # 1
  BY <1>1, TailIs
<1> QED
  BY <1>1, <1>2, TailIs DEF Ends, Body

LEMMA BatchStep ==
    ASSUME NEW f \in Files, NEW w \in Files, NEW t \in Seq(Statement),
           NEW add \in SUBSET Id, NEW remove \in SUBSET Id,
           BatchWork(t, add, remove, f, w), Head(t).do # "commit", ~Refused(w, Head(t))
    PROVE  /\ Head(t).do \in {"insert", "delete"}
           /\ Head(t).do = "insert" =>
                BatchWork(Tail(t), add \cup Head(t).id, remove, f, Effect(w, Head(t)))
           /\ Head(t).do = "delete" =>
                BatchWork(Tail(t), add, remove \cup Head(t).id, f, Effect(w, Head(t)))
<1>1. /\ Ends(t)
      /\ \A k \in Body(t) : \/ t[k].do = "insert" /\ remove = {}
                            \/ t[k].do = "delete" /\ t[k].id \cap add = {}
      /\ \A j, k \in Body(t) : t[j].do = "insert" /\ t[k].do = "delete" =>
           j < k /\ t[j].id \cap t[k].id = {}
      /\ add \cap (f.rows \cup remove) = {}
      /\ w = [f EXCEPT !.rows = (@ \cup add) \ remove]
  BY DEF BatchWork, BatchLeft
<1> PICK h \in Statement : h = Head(t)
  BY <1>1, BodyIs
<1>2. /\ Ends(Tail(t)) /\ 1 \in Body(t) /\ h = t[1]
      /\ \A k \in Body(Tail(t)) : k \in Nat /\ k + 1 \in Body(t) /\ Tail(t)[k] = t[k + 1]
  BY <1>1, BodyIs
<1>3. h.id \in SUBSET Id
  BY DEF Statement
<1>4. f.tables # 0 /\ f.rows \in SUBSET Id /\ w.rows = (f.rows \cup add) \ remove
  BY <1>1, <1>2 DEF Refused, Files
<1>5. CASE h.do = "insert"
  <2>1. remove = {} /\ h.id \cap (f.rows \cup add) = {}
    BY <1>1, <1>2, <1>4, <1>5 DEF Refused
  <2>2. Effect(w, h) = [f EXCEPT !.rows = (@ \cup (add \cup h.id)) \ remove]
    <3>1. Effect(w, h) = [w EXCEPT !.rows = @ \cup h.id]
      BY <1>5 DEF Effect
    <3>2. w.rows \cup h.id = (f.rows \cup (add \cup h.id)) \ remove
      BY <1>4, <2>1
    <3> QED
      BY <1>1, <3>1, <3>2 DEF Files
  <2>3. \A k \in Body(Tail(t)) : Tail(t)[k].do = "delete" =>
            Tail(t)[k].id \cap (add \cup h.id) = {}
    BY <1>1, <1>2, <1>5
  <2>4. BatchLeft(Tail(t), add \cup h.id, remove)
    <3>1. ASSUME NEW k \in Body(Tail(t))
          PROVE  \/ Tail(t)[k].do = "insert" /\ remove = {}
                 \/ Tail(t)[k].do = "delete" /\ Tail(t)[k].id \cap (add \cup h.id) = {}
      <4>1. k + 1 \in Body(t) /\ Tail(t)[k] = t[k + 1]
        BY <1>2
      <4>2. Tail(t)[k].do = "delete" => Tail(t)[k].id \cap add = {} /\ Tail(t)[k].id \cap h.id = {}
        BY <1>1, <1>2, <2>3, <4>1
      <4> QED
        BY <1>1, <4>1, <4>2
    <3>2. ASSUME NEW j \in Body(Tail(t)), NEW k \in Body(Tail(t)),
                 Tail(t)[j].do = "insert", Tail(t)[k].do = "delete"
          PROVE  j < k /\ Tail(t)[j].id \cap Tail(t)[k].id = {}
      <4>1. j + 1 < k + 1 /\ Tail(t)[j].id \cap Tail(t)[k].id = {}
        BY <1>1, <1>2, <3>2
      <4>2. j \in Nat
        BY <1>2
      <4>3. k \in Nat
        BY <1>2
      <4>4. j < k
        BY ONLY <4>1, <4>2, <4>3
      <4> QED
        BY <4>1, <4>4
    <3> QED
      BY <1>2, <3>1, <3>2 DEF BatchLeft
  <2>5. (add \cup h.id) \cap (f.rows \cup remove) = {}
    BY <1>1, <2>1
  <2> QED
    BY <1>4, <1>5, <2>2, <2>4, <2>5 DEF BatchWork
<1>6. CASE h.do = "delete"
  <2>1. h.id \cap add = {}
    BY <1>1, <1>2, <1>6
  <2>2. Effect(w, h) = [f EXCEPT !.rows = (@ \cup add) \ (remove \cup h.id)]
    <3>1. Effect(w, h) = [w EXCEPT !.rows = @ \ h.id]
      BY <1>6 DEF Effect
    <3>2. w.rows \ h.id = (f.rows \cup add) \ (remove \cup h.id)
      BY <1>4
    <3> QED
      BY <1>1, <3>1, <3>2 DEF Files
  <2>3. \A k \in Body(Tail(t)) : Tail(t)[k].do = "delete" /\ Tail(t)[k].id \cap add = {}
    <3> SUFFICES ASSUME NEW k \in Body(Tail(t))
                 PROVE  Tail(t)[k].do = "delete" /\ Tail(t)[k].id \cap add = {}
      OBVIOUS
    <3>0. k \in Nat /\ k + 1 \in Body(t) /\ Tail(t)[k] = t[k + 1]
      BY <1>2
    <3>1. k + 1 \in Body(t) /\ Tail(t)[k] = t[k + 1] /\ ~(k + 1 < 1)
      <4>1. \A n \in Nat : ~(n + 1 < 1)
        OBVIOUS
      <4> QED
        BY <3>0, <4>1
    <3> QED
      BY <1>1, <1>2, <1>6, <3>1
  <2>4. BatchLeft(Tail(t), add, remove \cup h.id)
    BY <1>2, <2>3 DEF BatchLeft
  <2>5. add \cap (f.rows \cup (remove \cup h.id)) = {}
    BY <1>1, <2>1
  <2> QED
    BY <1>4, <1>6, <2>2, <2>4, <2>5 DEF BatchWork
<1> QED
  BY <1>1, <1>2, <1>5, <1>6

LEMMA LoadStep ==
    ASSUME NEW f \in Files, NEW w \in Files, NEW t \in Seq(Statement), NEW add \in SUBSET Id,
           LoadWork(t, add, f, w), Head(t).do # "commit", ~Refused(w, Head(t))
    PROVE  /\ Head(t).do \in {"insert", "indices"}
           /\ Head(t).do = "insert" =>
                LoadWork(Tail(t), add \cup Head(t).id, f, Effect(w, Head(t)))
           /\ Head(t).do = "indices" => LoadWork(Tail(t), add, f, Effect(w, Head(t)))
<1> DEFINE Inserts(u) == {k \in Body(u) : u[k].do = "insert"}
<1>1. /\ Ends(t)
      /\ \A k \in Body(t) : t[k].do \in {"insert", "indices"}
      /\ ServerIds = add \cup UNION {t[k].id : k \in Inserts(t)}
      /\ add \cap f.rows = {}
      /\ w = [f EXCEPT !.rows = @ \cup add]
  BY DEF LoadWork, LoadLeft
<1> PICK h \in Statement : h = Head(t)
  BY <1>1, BodyIs
<1>2. /\ Ends(Tail(t)) /\ 1 \in Body(t) /\ h = t[1]
      /\ \A k \in Body(Tail(t)) : k \in Nat /\ k + 1 \in Body(t) /\ Tail(t)[k] = t[k + 1]
      /\ \A k \in Body(t) : k # 1 => k - 1 \in Body(Tail(t)) /\ Tail(t)[k - 1] = t[k]
  BY <1>1, BodyIs
<1>3. h.id \in SUBSET Id
  BY DEF Statement
<1>4. h.do \in {"insert", "indices"}
  BY <1>1, <1>2
<1>5. f.tables # 0 /\ f.rows \in SUBSET Id /\ w.rows = f.rows \cup add
  BY <1>1, <1>4 DEF Refused, Files
<1>6. \A id : /\ (\E k \in Inserts(Tail(t)) : id \in Tail(t)[k].id)
                   => \E k \in Inserts(t) : id \in t[k].id
              /\ (\E k \in Inserts(t) : id \in t[k].id)
                   => \/ h.do = "insert" /\ id \in h.id
                      \/ \E k \in Inserts(Tail(t)) : id \in Tail(t)[k].id
  <2> SUFFICES ASSUME NEW id
               PROVE  /\ (\E k \in Inserts(Tail(t)) : id \in Tail(t)[k].id)
                           => \E k \in Inserts(t) : id \in t[k].id
                      /\ (\E k \in Inserts(t) : id \in t[k].id)
                           => \/ h.do = "insert" /\ id \in h.id
                              \/ \E k \in Inserts(Tail(t)) : id \in Tail(t)[k].id
    OBVIOUS
  <2>1. ASSUME NEW k \in Inserts(Tail(t)), id \in Tail(t)[k].id
        PROVE  k + 1 \in Inserts(t) /\ id \in t[k + 1].id
    BY <1>2, <2>1
  <2>2. ASSUME NEW k \in Inserts(t), id \in t[k].id, k # 1
        PROVE  k - 1 \in Inserts(Tail(t)) /\ id \in Tail(t)[k - 1].id
    BY <1>2, <2>2
  <2> QED
    BY <1>2, <2>1, <2>2
<1>7. CASE h.do = "insert"
  <2>1. h.id \cap (f.rows \cup add) = {}
    BY <1>5, <1>7 DEF Refused
  <2>2. Effect(w, h) = [f EXCEPT !.rows = @ \cup (add \cup h.id)]
    <3>1. Effect(w, h) = [w EXCEPT !.rows = @ \cup h.id]
      BY <1>7 DEF Effect
    <3>2. w.rows \cup h.id = f.rows \cup (add \cup h.id)
      BY <1>5
    <3> QED
      BY <1>1, <3>1, <3>2 DEF Files
  <2>3. ServerIds = (add \cup h.id) \cup UNION {Tail(t)[k].id : k \in Inserts(Tail(t))}
    <3>1. h.id \subseteq ServerIds
      BY <1>1, <1>2, <1>7
    <3>2. \A id : id \in ServerIds <=> id \in add \/ \E k \in Inserts(t) : id \in t[k].id
      BY <1>1
    <3> HIDE DEF Inserts
    <3>3. \A id : id \in ServerIds <=>
             id \in add \cup h.id \/ \E k \in Inserts(Tail(t)) : id \in Tail(t)[k].id
      BY <1>6, <1>7, <3>1, <3>2
    <3> QED
      BY <3>3
  <2>4. LoadLeft(Tail(t), add \cup h.id, f.tables)
    BY <1>1, <1>2, <1>5, <2>3 DEF LoadLeft
  <2> QED
    BY <1>1, <1>7, <2>1, <2>2, <2>4 DEF LoadWork
<1>8. CASE h.do = "indices"
  <2>1. Effect(w, h) = w
    BY <1>8 DEF Effect
  <2>2. ServerIds = add \cup UNION {Tail(t)[k].id : k \in Inserts(Tail(t))}
    <3>1. \A id : id \in ServerIds <=> id \in add \/ \E k \in Inserts(t) : id \in t[k].id
      BY <1>1
    <3> HIDE DEF Inserts
    <3>2. \A id : id \in ServerIds <=>
             id \in add \/ \E k \in Inserts(Tail(t)) : id \in Tail(t)[k].id
      BY <1>6, <1>8, <3>1
    <3> QED
      BY <3>2
  <2>3. LoadLeft(Tail(t), add, f.tables)
    BY <1>1, <1>2, <1>5, <2>2 DEF LoadLeft
  <2> QED
    BY <1>1, <1>8, <2>1, <2>3 DEF LoadWork
<1> QED
  BY <1>4, <1>7, <1>8


-----------------------------------------------------------------------------
(* Types. *)

Connections == [open : BOOLEAN, cached : SUBSET Id, inTransaction : BOOLEAN, work : Files]
NativeCalls == [op : Ops, todo : Seq(Statement), rows : SUBSET Id, full : SUBSET Id,
                bare : SUBSET Id, add : SUBSET Id, remove : SUBSET Id,
                read : 0..MaxVersion, ok : BOOLEAN]
Scripts == [status : {"none", "setup", "ready", "failed", "gone"}, known : SUBSET Id,
            sync : {"idle", "loaded"}, alone : BOOLEAN]

LEMMA TypeIs == TypeOK <=> /\ file \in Files /\ version \in 1..MaxVersion
                           /\ exclusive \in BOOLEAN /\ holder \in Adapter \cup {NoAdapter}
                           /\ conn \in [Adapter -> Connections]
                           /\ call \in [Adapter -> NativeCalls]
                           /\ app \in [Adapter -> Scripts]
  BY DEF TypeOK, Connections, NativeCalls, Scripts

LEMMA EmptiesAre ==
    /\ Empty \in Files /\ NoConnection \in Connections /\ NoCall \in NativeCalls
    /\ NoApp \in Scripts
<1>1. Empty \in Files
  BY NativeAssumption DEF Empty, Files
<1>2. NoConnection \in Connections
  BY <1>1 DEF NoConnection, Connections
<1>3. NoCall \in NativeCalls
  <2>1. <<>> \in Seq(Statement) /\ 0 \in 0..MaxVersion
    BY NativeAssumption
  <2> QED
    BY <2>1 DEF NoCall, NativeCalls, Ops
<1> QED
  BY <1>1, <1>2, <1>3 DEF NoApp, Scripts

LEMMA StartedIs ==
    ASSUME NEW op \in Ops, NEW t \in Seq(Statement)
    PROVE  /\ Started(op, t) \in NativeCalls
           /\ Started(op, t).op = op /\ Started(op, t).todo = t
           /\ Started(op, t).rows = {} /\ Started(op, t).full = {} /\ Started(op, t).bare = {}
           /\ Started(op, t).add = {} /\ Started(op, t).remove = {} /\ Started(op, t).ok
  BY EmptiesAre DEF Started, NoCall, NativeCalls

(* The lists of statements that are not transactions of records. *)
LEMMA PlansAre ==
    ASSUME NEW v \in 1..MaxVersion
    PROVE  /\ Reset(v) \in Seq(Statement) /\ Reset(v) # <<>>
           /\ Head(Reset(v)) = Do("vacuum")
           /\ Head(Tail(Reset(v))) = Do("begin") /\ Tail(Reset(v)) # <<>>
           /\ SchemaLeft(Tail(Tail(Reset(v))))
           /\ Migration(v) \in Seq(Statement) /\ Migration(v) # <<>>
           /\ Head(Migration(v)) = Do("begin") /\ MigrationLeft(Tail(Migration(v)))
           /\ Transaction(<<Do("setPulled")>>) \in Seq(Statement)
           /\ Transaction(<<Do("setPulled")>>) # <<>>
           /\ Head(Transaction(<<Do("setPulled")>>)) = Do("begin")
           /\ PullLeft(Tail(Transaction(<<Do("setPulled")>>)))
<1> DEFINE m == DoVersion("migrate", v)
           x == DoVersion("schema", v)
           y == DoVersion("setVersion", v)
           p == Do("setPulled")
           c == Do("commit")
           n == Do("vacuum")
<1>1. /\ m \in Statement /\ x \in Statement /\ y \in Statement /\ p \in Statement
      /\ c \in Statement /\ n \in Statement /\ Do("begin") \in Statement
  BY StatementsAre, NativeAssumption DEF Statements
<1>2. /\ Reset(v) = <<n>> \o Transaction(<<x, y>>)
      /\ Migration(v) = Transaction(<<m, y>>)
  BY DEF Reset, Migration
<1> HIDE DEF m, x, y, p, c, n
<1>10. /\ <<x, y>> \in Seq(Statement) /\ <<m, y>> \in Seq(Statement)
       /\ <<p>> \in Seq(Statement)
  BY <1>1
<1>3. /\ Transaction(<<x, y>>) \in Seq(Statement) /\ Transaction(<<x, y>>) # <<>>
      /\ Head(Transaction(<<x, y>>)) = Do("begin")
      /\ Tail(Transaction(<<x, y>>)) = <<x, y>> \o <<c>>
  BY <1>10, TransactionIs DEF c
<1>4. /\ Transaction(<<m, y>>) \in Seq(Statement) /\ Transaction(<<m, y>>) # <<>>
      /\ Head(Transaction(<<m, y>>)) = Do("begin")
      /\ Tail(Transaction(<<m, y>>)) = <<m, y>> \o <<c>>
  BY <1>10, TransactionIs DEF c
<1>5. /\ Transaction(<<p>>) \in Seq(Statement) /\ Transaction(<<p>>) # <<>>
      /\ Head(Transaction(<<p>>)) = Do("begin")
      /\ Tail(Transaction(<<p>>)) = <<p>> \o <<c>>
  BY <1>10, TransactionIs DEF c
<1>6. /\ <<x, y>> \o <<c>> = <<x, y, c>> /\ <<m, y>> \o <<c>> = <<m, y, c>>
      /\ <<p>> \o <<c>> = <<p, c>>
  <2>1. <<x, y>> \o <<c>> = <<x, y, c>>
    BY ZenonT(60), <1>1, ThenIs
  <2>2. <<m, y>> \o <<c>> = <<m, y, c>>
    BY ZenonT(60), <1>1, ThenIs
  <2>3. <<p>> \o <<c>> = <<p, c>>
    BY <1>1, ThenIs
  <2> QED
    BY <2>1, <2>2, <2>3
<1>7. \A t \in Seq(Statement) : t # <<>> =>
         /\ <<n>> \o t \in Seq(Statement) /\ <<n>> \o t # <<>>
         /\ Head(<<n>> \o t) = n /\ Tail(<<n>> \o t) = t
  BY <1>1
<1>8. /\ Reset(v) \in Seq(Statement) /\ Reset(v) # <<>> /\ Head(Reset(v)) = n
      /\ Tail(Reset(v)) = Transaction(<<x, y>>)
  BY <1>2, <1>3, <1>7
<1>9. SchemaLeft(<<x, y, c>>) /\ MigrationLeft(<<m, y, c>>) /\ PullLeft(<<p, c>>)
  BY DEF SchemaLeft, MigrationLeft, PullLeft, x, y, m, c, p
<1> QED
  BY <1>2, <1>3, <1>4, <1>5, <1>6, <1>8, <1>9 DEF n, p

-----------------------------------------------------------------------------
(* The last statement of a transaction. *)

LEMMA CommitIs ==
    ASSUME TypeOK, NEW a \in Adapter, CallIsSound(a), conn[a].inTransaction,
           Head(call[a].todo).do = "commit",
           file' = [conn[a].work EXCEPT !.loaded = @ \/ call[a].op = "unsafeLoadFromSync"]
    PROVE  /\ Tail(call[a].todo) = <<>>
           /\ IF call[a].op = "batch"
              THEN /\ call[a].add \cap file.rows = {}
                   /\ call[a].add \cup call[a].remove # {} => file.tables # 0
                   /\ file' = [file EXCEPT !.rows = (@ \cup call[a].add) \ call[a].remove]
              ELSE Stored!OtherCall
           /\ file' \in Files
           /\ file'.loaded <=> file.loaded \/ call[a].op = "unsafeLoadFromSync"
           /\ file'.pulled # file.pulled => call[a].op = "setLastPulledAt"
<1> DEFINE c == call[a]
           t == call[a].todo
           w == conn[a].work
           z == Do("commit")
<1>1. /\ file \in Files /\ w \in Files /\ t \in Seq(Statement)
      /\ c.add \in SUBSET Id /\ c.remove \in SUBSET Id
      /\ Work(c, file, w) /\ Head(t).do = "commit"
      /\ file' = [w EXCEPT !.loaded = @ \/ c.op = "unsafeLoadFromSync"]
  BY TypeIs DEF Connections, NativeCalls, CallIsSound
<1> HIDE DEF c, t, w
<1>2. ASSUME NEW x, NEW y, x.do # "commit"
      PROVE  t # <<x, y, z>> /\ t # <<x, z>>
  BY <1>1, <1>2, ThreeIs
<1>3. t = <<z>> => Tail(t) = <<>>
  OBVIOUS
<1>4. Ends(t) /\ (\A k \in Body(t) : t[k].do # "commit") => Tail(t) = <<>>
  <2> HAVE Ends(t) /\ (\A k \in Body(t) : t[k].do # "commit")
  <2>1. t # <<>> /\ t[1].do = "commit"
    BY <1>1, TailIs DEF Ends
  <2>2. 1 \notin Body(t)
    BY <2>1
  <2> QED
    BY <1>1, <2>1, <2>2, TailIs DEF Body
<1>5. CASE c.op \in SchemaOps /\ SchemaWork(t, file, w)
  <2>1. PICK v \in 1..MaxVersion :
          t = <<z>> /\ file.tables = 0 /\ w = [file EXCEPT !.version = v, !.tables = v]
    BY <1>2, <1>5 DEF SchemaWork, DoVersion
  <2>2. file' = [file EXCEPT !.version = v, !.tables = v]
    BY <1>1, <1>5, <2>1 DEF SchemaOps, Files
  <2>3. Stored!OtherCall
    BY <2>1, <2>2 DEF Stored!OtherCall, Stored!CreateTables
  <2> QED
    BY <1>1, <1>3, <1>5, <2>1, <2>2, <2>3 DEF SchemaOps, Files, c, t
<1>6. CASE c.op = "setUpWithMigrations" /\ MigrationWork(t, file, w)
  <2>1. PICK v \in 1..MaxVersion :
          /\ t = <<z>> /\ file.tables \in 1..(v - 1)
          /\ w = [file EXCEPT !.version = v, !.tables = v]
    BY <1>2, <1>6 DEF MigrationWork, DoVersion
  <2>2. file' = [file EXCEPT !.version = v, !.tables = v]
    BY <1>1, <1>6, <2>1 DEF Files
  <2>3. Stored!OtherCall
    BY <2>1, <2>2 DEF Stored!OtherCall, Stored!Migrate
  <2> QED
    BY <1>1, <1>3, <1>6, <2>1, <2>2, <2>3 DEF Files, c, t
<1>7. CASE c.op = "batch" /\ BatchWork(t, c.add, c.remove, file, w)
  <2>1. Tail(t) = <<>>
    BY <1>4, <1>7 DEF BatchWork, BatchLeft
  <2>2. file' = [file EXCEPT !.rows = (@ \cup c.add) \ c.remove]
    BY <1>1, <1>7 DEF Files, BatchWork
  <2>3. /\ c.add \cap file.rows = {}
        /\ c.add \cup c.remove # {} => file.tables # 0
    BY <1>7 DEF BatchWork
  <2> QED
    BY <1>1, <1>7, <2>1, <2>2, <2>3 DEF Files, c, t
<1>8. CASE c.op = "unsafeLoadFromSync" /\ LoadWork(t, c.add, file, w)
  <2>1. Tail(t) = <<>>
    BY <1>4, <1>8 DEF LoadWork, LoadLeft
  <2>2. Body(t) = {}
    BY <1>1, <1>8, <2>1, TailIs DEF LoadWork, LoadLeft, Ends, Body
  <2>3. c.add = ServerIds /\ file.tables # 0
    BY <1>8, <2>2 DEF LoadWork, LoadLeft
  <2>4. /\ c.add \cap file.rows = {}
        /\ file' = [file EXCEPT !.rows = @ \cup ServerIds, !.loaded = TRUE]
    BY <1>1, <1>8, <2>3 DEF Files, LoadWork
  <2>5. Stored!OtherCall
    BY <2>3, <2>4 DEF Stored!OtherCall, Stored!Load
  <2> QED
    BY <1>1, <1>8, <2>1, <2>4, <2>5 DEF Files, c, t
<1>9. CASE c.op = "setLastPulledAt" /\ PullWork(t, file, w)
  <2>1. t = <<z>> /\ file.tables # 0 /\ w = [file EXCEPT !.pulled = TRUE]
    BY <1>2, <1>9 DEF PullWork, PullLeft, Do
  <2>2. file' = [file EXCEPT !.pulled = TRUE]
    BY <1>1, <1>9, <2>1 DEF Files
  <2>3. Stored!OtherCall
    BY <2>1, <2>2 DEF Stored!OtherCall, Stored!NotePulled
  <2> QED
    BY <1>1, <1>3, <1>9, <2>1, <2>2, <2>3 DEF Files, c, t
<1>10. c.todo = t
  BY DEF c, t
<1> QED
  BY <1>1, <1>5, <1>6, <1>7, <1>8, <1>9, <1>10 DEF Work


-----------------------------------------------------------------------------
(* Type correctness. *)

LEMMA PartsAre ==
    ASSUME TypeOK, NEW a \in Adapter
    PROVE  /\ call[a] \in NativeCalls /\ conn[a] \in Connections /\ app[a] \in Scripts
           /\ call[a].todo \in Seq(Statement)
           /\ Running(a) => /\ Now(a) \in Statement
                            /\ Now(a).id \in SUBSET Id /\ Now(a).do \in Statements
                            /\ Advance(a) \in NativeCalls
<1>1. /\ call[a] \in NativeCalls /\ conn[a] \in Connections /\ app[a] \in Scripts
      /\ call[a].todo \in Seq(Statement)
  BY TypeIs DEF NativeCalls
<1>2. ASSUME Running(a)
      PROVE  /\ Now(a) \in Statement /\ Tail(call[a].todo) \in Seq(Statement)
  BY <1>1, <1>2, TailIs DEF Running, Now
<1>3. ASSUME Running(a) PROVE Advance(a) \in NativeCalls
  BY <1>1, <1>2, <1>3 DEF Advance, NativeCalls
<1> QED
  BY <1>1, <1>2, <1>3 DEF Statement

LEMMA InitialTypes == Init => TypeOK
  BY EmptiesAre, TypeIs, NativeAssumption DEF Init

LEMMA BeginTypes ==
    ASSUME TypeOK, NEW a \in Adapter, Begin(a) PROVE TypeOK'
<1>1. Running(a)
  BY DEF Begin, CanExecute
<1>2. conn' \in [Adapter -> Connections]
  <2> DEFINE new == [conn[a] EXCEPT !.inTransaction = TRUE, !.work = file,
                        !.cached = IF call[a].op \in {"setUpWithSchema", "unsafeResetDatabase"}
                                   THEN {} ELSE @]
  <2>1. new \in Connections
    BY PartsAre, TypeIs DEF Connections
  <2>2. conn' = [conn EXCEPT ![a] = new]
    BY DEF Begin
  <2> HIDE DEF new
  <2> QED
    BY <2>1, <2>2, TypeIs
<1>3. call' \in [Adapter -> NativeCalls]
  BY <1>1, PartsAre, TypeIs DEF Begin
<1> QED
  BY <1>2, <1>3, TypeIs DEF Begin, TypeOK, Connections, NativeCalls, Scripts

LEMMA UpdateTypes ==
    ASSUME TypeOK, NEW a \in Adapter, Update(a) PROVE TypeOK'
<1>1. Running(a)
  BY DEF Update
<1>2. conn' \in [Adapter -> Connections]
  <2>1. conn[a].work \in Files
    BY PartsAre DEF Connections
  <2>2. Effect(conn[a].work, Now(a)) \in Files
    BY <1>1, <2>1, PartsAre, EffectIs
  <2>3. [conn[a] EXCEPT !.work = Effect(conn[a].work, Now(a))] \in Connections
    BY <2>2, PartsAre DEF Connections
  <2>4. conn' = [conn EXCEPT ![a] = [conn[a] EXCEPT !.work = Effect(conn[a].work, Now(a))]]
    BY TypeIs DEF Update
  <2> QED
    BY <2>3, <2>4, TypeIs
<1>3. call' \in [Adapter -> NativeCalls]
  <2> DEFINE i == IF Now(a).do = "insert" THEN Now(a).id ELSE {}
             d == IF Now(a).do = "delete" THEN Now(a).id ELSE {}
  <2>1. i \in SUBSET Id /\ d \in SUBSET Id
    BY <1>1, PartsAre
  <2>2. call' = [call EXCEPT ![a] = [Advance(a) EXCEPT !.add = @ \cup i, !.remove = @ \cup d]]
    BY DEF Update
  <2> HIDE DEF i, d
  <2>3. [Advance(a) EXCEPT !.add = @ \cup i, !.remove = @ \cup d] \in NativeCalls
    BY <1>1, <2>1, PartsAre DEF NativeCalls
  <2> QED
    BY <2>2, <2>3, TypeIs
<1> QED
  BY <1>2, <1>3, TypeIs DEF Update, TypeOK, Connections, NativeCalls, Scripts

LEMMA CommitTypes ==
    ASSUME TypeOK, NEW a \in Adapter, Commit(a) PROVE TypeOK'
<1>1. Running(a)
  BY DEF Commit, CanExecute
<1>2. conn' \in [Adapter -> Connections]
  <2>1. call[a].add \in SUBSET Id
    BY PartsAre DEF NativeCalls
  <2> DEFINE new == [conn[a] EXCEPT !.inTransaction = FALSE, !.work = Empty,
                        !.cached = IF call[a].op = "batch"
                                   THEN (@ \cup call[a].add) \ call[a].remove ELSE @]
  <2>2. new \in Connections
    BY <2>1, PartsAre, EmptiesAre DEF Connections
  <2>3. conn' = [conn EXCEPT ![a] = new]
    BY DEF Commit
  <2> HIDE DEF new
  <2> QED
    BY <2>2, <2>3, TypeIs
<1>3. call' \in [Adapter -> NativeCalls]
  BY <1>1, PartsAre, TypeIs DEF Commit
<1>4. file' \in Files /\ holder' \in Adapter \cup {NoAdapter}
  <2>1. conn[a].work \in Files
    BY PartsAre DEF Connections
  <2> QED
    BY <2>1, TypeIs DEF Commit, Files, Released
<1> QED
  BY <1>2, <1>3, <1>4, TypeIs DEF Commit, TypeOK, Connections, NativeCalls, Scripts

LEMMA VacuumTypes ==
    ASSUME TypeOK, NEW a \in Adapter, Vacuum(a) PROVE TypeOK'
<1>1. Running(a)
  BY DEF Vacuum, CanExecute
<1>2. call' \in [Adapter -> NativeCalls]
  BY <1>1, PartsAre, TypeIs DEF Vacuum
<1>3. file' \in Files
  BY <1>1, PartsAre, EffectIs, TypeIs DEF Vacuum
<1>4. holder' \in Adapter \cup {NoAdapter}
  BY TypeIs DEF Vacuum
<1> QED
  BY <1>2, <1>3, <1>4, TypeIs DEF Vacuum, TypeOK, Connections, NativeCalls, Scripts

LEMMA ReadVersionTypes ==
    ASSUME TypeOK, NEW a \in Adapter, ReadVersion(a) PROVE TypeOK'
<1>1. Running(a)
  BY DEF ReadVersion, CanExecute
<1>2. call' \in [Adapter -> NativeCalls]
  <2>1. file.version \in 0..MaxVersion
    BY TypeIs DEF Files
  <2>2. [Advance(a) EXCEPT !.read = file.version] \in NativeCalls
    BY <1>1, <2>1, PartsAre DEF NativeCalls
  <2> QED
    BY <2>2, TypeIs DEF ReadVersion
<1> QED
  BY <1>2, TypeIs DEF ReadVersion, TypeOK, Connections, NativeCalls, Scripts

LEMMA SelectTypes ==
    ASSUME TypeOK, NEW a \in Adapter, Select(a) PROVE TypeOK'
<1> DEFINE found == file.rows \cap Now(a).id
<1>1. Running(a)
  BY DEF Select, CanExecute
<1>2. found \in SUBSET Id
  BY <1>1, PartsAre
<1>3. \/ /\ conn' = [conn EXCEPT ![a].cached = @ \cup found]
         /\ call' = [call EXCEPT ![a] = [Advance(a) EXCEPT !.full = found]]
      \/ /\ call' = [call EXCEPT ![a] =
                [call[a] EXCEPT !.rows = found, !.todo = IF found = {} THEN <<>> ELSE <<Do("row")>>]]
         /\ UNCHANGED conn
      \/ /\ call' = [call EXCEPT ![a] = Advance(a)]
         /\ UNCHANGED conn
  BY DEF Select
<1> HIDE DEF found
<1>4. <<>> \in Seq(Statement) /\ <<Do("row")>> \in Seq(Statement)
  BY StatementsAre DEF Statements
<1>5. call' \in [Adapter -> NativeCalls]
  <2>1. [Advance(a) EXCEPT !.full = found] \in NativeCalls
    BY <1>1, <1>2, PartsAre DEF NativeCalls
  <2>2. [call[a] EXCEPT !.rows = found, !.todo = IF found = {} THEN <<>> ELSE <<Do("row")>>]
          \in NativeCalls
    BY <1>2, <1>4, PartsAre DEF NativeCalls
  <2>3. Advance(a) \in NativeCalls
    BY <1>1, PartsAre
  <2> QED
    BY <1>3, <2>1, <2>2, <2>3, TypeIs
<1>6. conn' \in [Adapter -> Connections]
  <2>1. [conn[a] EXCEPT !.cached = @ \cup found] \in Connections
    BY <1>2, PartsAre DEF Connections
  <2> QED
    BY <1>3, <2>1, TypeIs
<1> QED
  BY <1>5, <1>6, TypeIs DEF Select, TypeOK, Connections, NativeCalls, Scripts

LEMMA RowTypes ==
    ASSUME TypeOK, NEW a \in Adapter, Row(a) PROVE TypeOK'
<1>1. PICK id \in call[a].rows :
         /\ conn' = [conn EXCEPT ![a].cached = @ \cup {id}]
         /\ call' = [call EXCEPT ![a] =
                [call[a] EXCEPT
                    !.rows = @ \ {id},
                    !.todo = IF call[a].rows = {id} THEN <<>> ELSE @,
                    !.full = IF id \in conn[a].cached THEN @ ELSE @ \cup {id},
                    !.bare = IF id \in conn[a].cached THEN @ \cup {id} ELSE @]]
  BY DEF Row
<1>2. id \in Id
  BY PartsAre DEF NativeCalls
<1>3. call' \in [Adapter -> NativeCalls]
  <2>1. <<>> \in Seq(Statement)
    OBVIOUS
  <2> DEFINE new == [call[a] EXCEPT
                        !.rows = @ \ {id},
                        !.todo = IF call[a].rows = {id} THEN <<>> ELSE @,
                        !.full = IF id \in conn[a].cached THEN @ ELSE @ \cup {id},
                        !.bare = IF id \in conn[a].cached THEN @ \cup {id} ELSE @]
  <2>2. new \in NativeCalls
    BY ZenonT(60), <1>2, <2>1, PartsAre DEF NativeCalls
  <2>3. call' = [call EXCEPT ![a] = new]
    BY <1>1
  <2> HIDE DEF new
  <2> QED
    BY <2>2, <2>3, TypeIs
<1>4. conn' \in [Adapter -> Connections]
  <2>1. [conn[a] EXCEPT !.cached = @ \cup {id}] \in Connections
    BY <1>2, PartsAre DEF Connections
  <2> QED
    BY <1>1, <2>1, TypeIs
<1> QED
  BY <1>3, <1>4, TypeIs DEF Row, TypeOK, Connections, NativeCalls, Scripts

LEMMA FailTypes ==
    ASSUME TypeOK, NEW a \in Adapter, Fail(a) PROVE TypeOK'
<1>1. PICK noted \in NotedInVain(a) :
         conn' = [conn EXCEPT ![a] = [conn[a] EXCEPT !.inTransaction = FALSE, !.work = Empty,
                                                     !.cached = @ \cup noted]]
  BY DEF Fail
<1>2. noted \in SUBSET Id
  BY PartsAre DEF NotedInVain, NativeCalls
<1>3. conn' \in [Adapter -> Connections]
  <2> DEFINE new == [conn[a] EXCEPT !.inTransaction = FALSE, !.work = Empty,
                                    !.cached = @ \cup noted]
  <2>1. new \in Connections
    BY <1>2, PartsAre, EmptiesAre DEF Connections
  <2>2. conn' = [conn EXCEPT ![a] = new]
    BY <1>1
  <2> HIDE DEF new
  <2> QED
    BY <2>1, <2>2, TypeIs
<1>4. call' \in [Adapter -> NativeCalls]
  <2>1. <<>> \in Seq(Statement)
    OBVIOUS
  <2>2. [call[a] EXCEPT !.todo = <<>>, !.rows = {}, !.ok = FALSE] \in NativeCalls
    BY <2>1, PartsAre DEF NativeCalls
  <2> QED
    BY <2>2, TypeIs DEF Fail
<1>5. holder' \in Adapter \cup {NoAdapter}
  BY TypeIs DEF Fail, Released
<1> QED
  BY <1>3, <1>4, <1>5, TypeIs DEF Fail, TypeOK, Connections, NativeCalls, Scripts


LEMMA CrashTypes ==
    ASSUME TypeOK, Crash PROVE TypeOK'
  BY EmptiesAre, TypeIs DEF Crash, TypeOK, Connections, NativeCalls, Scripts

(* The plans of the calls JavaScript makes. *)
LEMMA CallsAre ==
    ASSUME TypeOK, NEW a \in Adapter, NEW op \in Ops, NEW t \in Seq(Statement),
           Calls(a, op, t)
    PROVE  /\ call' \in [Adapter -> NativeCalls]
           /\ call'[a] = Started(op, t)
           /\ \A b \in Adapter \ {a} : call'[b] = call[b]
  BY StartedIs, TypeIs DEF Calls

LEMMA ReturnsIs ==
    ASSUME TypeOK, NEW a \in Adapter, Returns(a)
    PROVE  /\ call' \in [Adapter -> NativeCalls]
           /\ call'[a] = NoCall
           /\ \A b \in Adapter \ {a} : call'[b] = call[b]
  BY EmptiesAre, TypeIs DEF Returns

LEMMA OpenTypes ==
    ASSUME TypeOK, NEW a \in Adapter, Open(a) PROVE TypeOK'
<1>1. conn' \in [Adapter -> Connections]
  <2>1. [NoConnection EXCEPT !.open = TRUE] \in Connections
    BY EmptiesAre DEF Connections
  <2> QED
    BY <2>1, TypeIs DEF Open
<1>2. app' \in [Adapter -> Scripts]
  <2> DEFINE others == {b \in Adapter : conn[b].open}
             mine == [NoApp EXCEPT !.status = "setup", !.alone = others = {}]
             lone(b) == [app[b] EXCEPT !.alone = FALSE]
  <2>1. mine \in Scripts
    BY EmptiesAre DEF Scripts, NoApp
  <2>2. \A b \in Adapter : lone(b) \in Scripts /\ app[b] \in Scripts
    BY PartsAre DEF Scripts
  <2>3. app' = [b \in Adapter |-> CASE b = a -> mine
                                    [] b \in others -> lone(b)
                                    [] OTHER -> app[b]]
    BY DEF Open
  <2> HIDE DEF others, mine, lone
  <2> QED
    BY <2>1, <2>2, <2>3
<1>3. call' \in [Adapter -> NativeCalls]
  <2>1. <<Do("user_version")>> \in Seq(Statement)
    BY StatementsAre DEF Statements
  <2> QED
    BY <2>1, CallsAre DEF Open, Ops
<1> QED
  BY <1>1, <1>2, <1>3, TypeIs DEF Open, TypeOK, Connections, NativeCalls, Scripts

LEMMA ReloadTypes ==
    ASSUME TypeOK, NEW a \in Adapter, Reload(a) PROVE TypeOK'
<1>1. [NoApp EXCEPT !.status = "gone", !.alone = app[a].alone] \in Scripts
  BY PartsAre DEF NoApp, Scripts
<1>2. app' \in [Adapter -> Scripts]
  BY <1>1, TypeIs DEF Reload
<1> QED
  BY <1>2, TypeIs DEF Reload, TypeOK, Connections, NativeCalls, Scripts

LEMMA DestroyTypes ==
    ASSUME TypeOK, NEW a \in Adapter, Destroy(a) PROVE TypeOK'
<1>1. conn' \in [Adapter -> Connections] /\ app' \in [Adapter -> Scripts]
  BY EmptiesAre, TypeIs DEF Destroy
<1>2. holder' \in Adapter \cup {NoAdapter}
  BY TypeIs DEF Destroy
<1> QED
  BY <1>1, <1>2, TypeIs DEF Destroy, TypeOK, Connections, NativeCalls, Scripts

LEMMA InitializedTypes ==
    ASSUME TypeOK, NEW a \in Adapter, Initialized(a) PROVE TypeOK'
<1>1. app' \in [Adapter -> Scripts]
  BY SMTT(30), PartsAre, TypeIs DEF Initialized, Scripts
<1>2. call' \in [Adapter -> NativeCalls]
  <2>1. CASE Returns(a)
    BY <2>1, ReturnsIs
  <2>2. CASE Calls(a, "setUpWithSchema", Reset(version))
    BY <2>2, CallsAre, PlansAre, TypeIs DEF Ops
  <2>3. CASE Calls(a, "setUpWithMigrations", Migration(version))
    BY <2>3, CallsAre, PlansAre, TypeIs DEF Ops
  <2> QED
    BY <2>1, <2>2, <2>3 DEF Initialized
<1> QED
  BY <1>1, <1>2, TypeIs DEF Initialized, TypeOK, Connections, NativeCalls, Scripts

LEMMA SetUpTypes ==
    ASSUME TypeOK, NEW a \in Adapter, SetUp(a) PROVE TypeOK'
<1>1. app' \in [Adapter -> Scripts]
  BY SMTT(30), PartsAre, TypeIs DEF SetUp, Scripts
<1>2. call' \in [Adapter -> NativeCalls]
  BY ReturnsIs DEF SetUp
<1> QED
  BY <1>1, <1>2, TypeIs DEF SetUp, TypeOK, Connections, NativeCalls, Scripts

LEMMA AnswerTypes ==
    ASSUME TypeOK, NEW a \in Adapter, Answer(a) \/ AnswerNobody(a) PROVE TypeOK'
<1>1. call' \in [Adapter -> NativeCalls]
  BY ReturnsIs DEF Answer, AnswerNobody
<1>2. app' \in [Adapter -> Scripts]
  <2>1. CASE AnswerNobody(a)
    BY <2>1, TypeIs DEF AnswerNobody
  <2>2. CASE Answer(a)
    <3>1. PICK full \in Received(a) : app' = [app EXCEPT ![a] = Told(a, full)]
      BY <2>2 DEF Answer
    <3>2. full \in SUBSET Id /\ call[a].add \in SUBSET Id
      BY PartsAre DEF Received, NativeCalls
    <3>3. Told(a, full) \in Scripts
      BY <3>2, PartsAre DEF Told, Scripts
    <3> QED
      BY <3>1, <3>3, TypeIs
  <2> QED
    BY <2>1, <2>2
<1> QED
  BY <1>1, <1>2, TypeIs DEF Answer, AnswerNobody, TypeOK, Connections, NativeCalls, Scripts

LEMMA FindIs ==
    ASSUME TypeOK, NEW a \in Adapter, Find(a)
    PROVE  /\ call' \in [Adapter -> NativeCalls]
           /\ \A b \in Adapter \ {a} : call'[b] = call[b]
           /\ call'[a].op = "find" /\ call'[a].full = {} /\ call'[a].ok
           /\ \/ call'[a].todo = <<>> /\ call'[a].bare \subseteq conn[a].cached
              \/ /\ Len(call'[a].todo) = 1 /\ call'[a].todo[1].do = "select"
                 /\ call'[a].bare = {}
<1>1. PICK id \in Id : call' = [call EXCEPT ![a] =
           IF id \in conn[a].cached
           THEN [Started("find", <<>>) EXCEPT !.bare = {id}]
           ELSE Started("find", <<[do |-> "select", id |-> {id}, version |-> 0]>>)]
  BY DEF Find
<1> DEFINE x == [do |-> "select", id |-> {id}, version |-> 0]
           known == [Started("find", <<>>) EXCEPT !.bare = {id}]
           asked == Started("find", <<x>>)
<1>2. x \in Statement /\ x.do = "select"
  BY StatementsAre DEF Statements
<1>3. call' = [call EXCEPT ![a] = IF id \in conn[a].cached THEN known ELSE asked]
  BY <1>1
<1>4. /\ known \in NativeCalls /\ known.op = "find" /\ known.full = {} /\ known.ok
      /\ known.todo = <<>> /\ known.bare = {id}
  <2>1. <<>> \in Seq(Statement) /\ "find" \in Ops
    BY DEF Ops
  <2> DEFINE new == Started("find", <<>>)
  <2>2. /\ new \in NativeCalls /\ new.op = "find" /\ new.full = {} /\ new.ok
        /\ new.todo = <<>>
    BY <2>1, StartedIs
  <2>3. known = [new EXCEPT !.bare = {id}]
    OBVIOUS
  <2> HIDE DEF new, known
  <2> QED
    BY <2>2, <2>3 DEF NativeCalls
<1> HIDE DEF x
<1>5. /\ asked \in NativeCalls /\ asked.op = "find" /\ asked.full = {} /\ asked.ok
      /\ asked.todo = <<x>> /\ asked.bare = {}
  <2>1. <<x>> \in Seq(Statement) /\ "find" \in Ops
    BY <1>2 DEF Ops
  <2> QED
    BY <2>1, StartedIs
<1> HIDE DEF known, asked
<1>6. Len(<<x>>) = 1 /\ <<x>>[1] = x
  OBVIOUS
<1>7. /\ call' \in [Adapter -> NativeCalls]
      /\ \A b \in Adapter \ {a} : call'[b] = call[b]
      /\ call'[a] = IF id \in conn[a].cached THEN known ELSE asked
  BY <1>3, <1>4, <1>5, TypeIs
<1> QED
  BY <1>2, <1>4, <1>5, <1>6, <1>7

(* The other calls of JavaScript, and what they are going to do. *)
Asked(a) ==
    /\ call' \in [Adapter -> NativeCalls]
    /\ \A b \in Adapter \ {a} : call'[b] = call[b]
    /\ call'[a].rows = {} /\ call'[a].full = {} /\ call'[a].bare = {} /\ call'[a].ok
    /\ call'[a].add = {} /\ call'[a].remove = {}

LEMMA QueryIs ==
    ASSUME TypeOK, NEW a \in Adapter, Query(a)
    PROVE  /\ Asked(a) /\ call'[a].op \in {"query", "count"}
           /\ Len(call'[a].todo) = 1 /\ call'[a].todo[1].do = "select"
<1> DEFINE x == [do |-> "select", id |-> Id, version |-> 0]
<1>1. PICK op \in {"query", "count"} : Calls(a, op, <<x>>)
  BY DEF Query
<1>2. x \in Statement /\ x.do = "select"
  BY StatementsAre DEF Statements
<1> HIDE DEF x
<1> DEFINE t == <<x>>
<1>3. t \in Seq(Statement) /\ Len(t) = 1 /\ t[1] = x /\ op \in Ops
  BY <1>2 DEF Ops
<1> HIDE DEF t
<1>4. /\ call' \in [Adapter -> NativeCalls]
      /\ call'[a] = Started(op, t)
      /\ \A b \in Adapter \ {a} : call'[b] = call[b]
  BY <1>1, <1>3, CallsAre DEF t
<1> QED
  BY <1>2, <1>3, <1>4, StartedIs DEF Asked

LEMMA WritingCallIs ==
    ASSUME TypeOK, NEW a \in Adapter,
           Batch(a) \/ ResetDatabase(a) \/ TurboSync(a) \/ SetLastPulledAt(a)
    PROVE  /\ Asked(a) /\ call'[a].op \in WritingOps
           /\ call'[a].todo # <<>> /\ Unbegun(call'[a])
           /\ \/ Batch(a) /\ call'[a].op = "batch"
              \/ ResetDatabase(a) /\ call'[a].op = "unsafeResetDatabase"
              \/ TurboSync(a) /\ call'[a].op = "unsafeLoadFromSync"
              \/ SetLastPulledAt(a) /\ call'[a].op = "setLastPulledAt"
<1>1. Do("begin").do = "begin" /\ version \in 1..MaxVersion
  BY TypeIs DEF Do
<1>2. ASSUME NEW op \in WritingOps, NEW t \in Seq(Statement), t # <<>>, Calls(a, op, t),
             \/ Head(t) = Do("begin") /\ Left(op, Tail(t))
             \/ op \in SchemaOps /\ t = Reset(version)
      PROVE  /\ Asked(a) /\ call'[a].op = op /\ call'[a].todo # <<>> /\ Unbegun(call'[a])
  <2>1. op \in Ops
    BY DEF WritingOps, SchemaOps, Ops
  <2>2. Asked(a) /\ call'[a].op = op /\ call'[a].todo = t
    BY <1>2, <2>1, CallsAre, StartedIs DEF Asked
  <2> QED
    BY <1>1, <1>2, <2>2 DEF Unbegun, Asked
<1>3. CASE Batch(a)
  <2>1. PICK add \in SUBSET (Id \ app[a].known), remove \in SUBSET app[a].known :
          Calls(a, "batch", Written(add, remove))
    BY <1>3 DEF Batch
  <2>2. add \in SUBSET Id /\ remove \in SUBSET Id /\ add \cap remove = {}
    BY PartsAre DEF Scripts
  <2>3. "batch" \in WritingOps /\ Left("batch", Tail(Written(add, remove)))
    BY <2>2, WrittenIs DEF WritingOps, Left
  <2>4. Asked(a) /\ call'[a].op = "batch" /\ call'[a].todo # <<>> /\ Unbegun(call'[a])
    BY <1>2, <2>1, <2>2, <2>3, WrittenIs
  <2> QED
    BY <1>3, <2>4 DEF WritingOps
<1>4. CASE ResetDatabase(a)
  <2>1. Calls(a, "unsafeResetDatabase", Reset(version))
    BY <1>4 DEF ResetDatabase
  <2>2. Reset(version) \in Seq(Statement) /\ Reset(version) # <<>>
    BY <1>1, PlansAre
  <2>3. "unsafeResetDatabase" \in WritingOps /\ "unsafeResetDatabase" \in SchemaOps
    BY DEF WritingOps, SchemaOps
  <2>4. Asked(a) /\ call'[a].op = "unsafeResetDatabase" /\ call'[a].todo # <<>> /\ Unbegun(call'[a])
    BY <1>2, <2>1, <2>2, <2>3
  <2> QED
    BY <1>4, <2>3, <2>4
<1>5. CASE TurboSync(a)
  <2>1. Calls(a, "unsafeLoadFromSync", LoadFromSync)
    BY <1>5 DEF TurboSync
  <2>2. "unsafeLoadFromSync" \in WritingOps /\ Left("unsafeLoadFromSync", Tail(LoadFromSync))
    BY LoadIs DEF WritingOps, Left
  <2>3. Asked(a) /\ call'[a].op = "unsafeLoadFromSync" /\ call'[a].todo # <<>> /\ Unbegun(call'[a])
    BY <1>2, <2>1, <2>2, LoadIs
  <2> QED
    BY <1>5, <2>2, <2>3
<1>6. CASE SetLastPulledAt(a)
  <2> DEFINE t == Transaction(<<Do("setPulled")>>)
  <2>1. Calls(a, "setLastPulledAt", t)
    BY <1>6 DEF SetLastPulledAt
  <2>2. t \in Seq(Statement) /\ t # <<>> /\ Head(t) = Do("begin") /\ PullLeft(Tail(t))
    BY <1>1, PlansAre
  <2> HIDE DEF t
  <2>3. "setLastPulledAt" \in WritingOps /\ Left("setLastPulledAt", Tail(t))
    BY <2>2 DEF WritingOps, Left
  <2>4. Asked(a) /\ call'[a].op = "setLastPulledAt" /\ call'[a].todo # <<>> /\ Unbegun(call'[a])
    BY <1>2, <2>1, <2>2, <2>3
  <2> QED
    BY <1>6, <2>3, <2>4
<1> QED
  BY <1>3, <1>4, <1>5, <1>6


-----------------------------------------------------------------------------
(* The calls, step by step. *)

LEMMA WorkStep ==
    ASSUME NEW c \in NativeCalls, NEW f \in Files, NEW w \in Files, Work(c, f, w),
           Head(c.todo).do # "commit", ~Refused(w, Head(c.todo)), NEW d,
           d.op = c.op, d.todo = Tail(c.todo),
           d.add = c.add \cup (IF Head(c.todo).do = "insert" THEN Head(c.todo).id ELSE {}),
           d.remove = c.remove \cup (IF Head(c.todo).do = "delete" THEN Head(c.todo).id ELSE {})
    PROVE  /\ Work(d, f, Effect(w, Head(c.todo)))
           /\ Head(c.todo).do \in {"schema", "setVersion", "migrate", "insert", "delete",
                                   "indices", "setPulled"}
<1> PICK t : t = c.todo
  OBVIOUS
<1> PICK add, remove : add = c.add /\ remove = c.remove
  OBVIOUS
<1>1. t \in Seq(Statement) /\ add \in SUBSET Id /\ remove \in SUBSET Id
  BY DEF NativeCalls
<1>2. CASE c.op \in SchemaOps /\ SchemaWork(t, f, w)
  <2>1. /\ SchemaWork(Tail(t), f, Effect(w, Head(t)))
        /\ Head(t).do \in {"schema", "setVersion"}
    BY <1>2, SchemaStep
  <2> QED
    BY <1>2, <2>1 DEF Work
<1>3. CASE c.op = "setUpWithMigrations" /\ MigrationWork(t, f, w)
  <2>1. /\ MigrationWork(Tail(t), f, Effect(w, Head(t)))
        /\ Head(t).do \in {"migrate", "setVersion"}
    BY <1>3, MigrationStep
  <2> QED
    BY <1>3, <2>1 DEF Work
<1>4. CASE c.op = "batch" /\ BatchWork(t, add, remove, f, w)
  <2>1. /\ Head(t).do \in {"insert", "delete"}
        /\ Head(t).do = "insert" =>
             BatchWork(Tail(t), add \cup Head(t).id, remove, f, Effect(w, Head(t)))
        /\ Head(t).do = "delete" =>
             BatchWork(Tail(t), add, remove \cup Head(t).id, f, Effect(w, Head(t)))
    BY <1>1, <1>4, BatchStep
  <2>2. CASE Head(t).do = "insert"
    <3>1. d.add = add \cup Head(t).id /\ d.remove = remove
      BY <2>2
    <3> QED
      BY <1>4, <2>1, <2>2, <3>1 DEF Work
  <2>3. CASE Head(t).do = "delete"
    <3>1. d.add = add /\ d.remove = remove \cup Head(t).id
      BY <2>3
    <3> QED
      BY <1>4, <2>1, <2>3, <3>1 DEF Work
  <2> QED
    BY <2>1, <2>2, <2>3
<1>5. CASE c.op = "unsafeLoadFromSync" /\ LoadWork(t, add, f, w)
  <2>1. /\ Head(t).do \in {"insert", "indices"}
        /\ Head(t).do = "insert" =>
             LoadWork(Tail(t), add \cup Head(t).id, f, Effect(w, Head(t)))
        /\ Head(t).do = "indices" => LoadWork(Tail(t), add, f, Effect(w, Head(t)))
    BY <1>1, <1>5, LoadStep
  <2>2. CASE Head(t).do = "insert"
    <3>1. d.add = add \cup Head(t).id
      BY <2>2
    <3> QED
      BY <1>5, <2>1, <2>2, <3>1 DEF Work
  <2>3. CASE Head(t).do = "indices"
    <3>1. d.add = add
      BY <2>3
    <3> QED
      BY <1>5, <2>1, <2>3, <3>1 DEF Work
  <2> QED
    BY <2>1, <2>2, <2>3
<1>6. CASE c.op = "setLastPulledAt" /\ PullWork(t, f, w)
  <2>1. PullWork(Tail(t), f, Effect(w, Head(t))) /\ Head(t).do = "setPulled"
    BY <1>6, PullStep
  <2> QED
    BY <1>6, <2>1 DEF Work
<1> QED
  BY <1>2, <1>3, <1>4, <1>5, <1>6 DEF Work

LEMMA WorkStarts ==
    ASSUME NEW f \in Files, NEW c, c.add = {}, c.remove = {}, Left(c.op, c.todo)
    PROVE  Work(c, f, f)
<1>1. f = [f EXCEPT !.rows = (f.rows \cup {}) \ {}] /\ f = [f EXCEPT !.rows = f.rows \cup {}]
  <2>1. (f.rows \cup {}) \ {} = f.rows /\ f.rows \cup {} = f.rows
    BY DEF Files
  <2> QED
    BY <2>1 DEF Files
<1>2. CASE c.op \in SchemaOps /\ SchemaLeft(c.todo)
  BY <1>2 DEF Work, SchemaWork, SchemaLeft
<1>3. CASE c.op = "setUpWithMigrations" /\ MigrationLeft(c.todo)
  BY <1>3 DEF Work, MigrationWork, MigrationLeft
<1>4. CASE c.op = "batch" /\ BatchLeft(c.todo, {}, {})
  <2>1. BatchWork(c.todo, {}, {}, f, f)
    BY <1>1, <1>4 DEF BatchWork
  <2> QED
    BY <1>4, <2>1 DEF Work
<1>5. CASE c.op = "unsafeLoadFromSync" /\ LoadLeft(c.todo, {}, 0)
  <2>1. LoadLeft(c.todo, {}, f.tables)
    BY <1>5 DEF LoadLeft
  <2>2. LoadWork(c.todo, {}, f, f)
    BY <1>1, <2>1 DEF LoadWork
  <2> QED
    BY <1>5, <2>2 DEF Work
<1>6. CASE c.op = "setLastPulledAt" /\ PullLeft(c.todo)
  BY <1>6 DEF Work, PullWork
<1> QED
  BY <1>2, <1>3, <1>4, <1>5, <1>6 DEF Left

(* Which calls can execute which statements. *)
LEMMA StatementsFit ==
    ASSUME FileInv, NEW a \in Adapter, Running(a),
           ~Refused(Content(a), Now(a))
    PROVE  /\ Now(a).do = "begin" =>
                /\ ~conn[a].inTransaction /\ call[a].op \in WritingOps
                /\ call[a].add = {} /\ call[a].remove = {}
                /\ Left(call[a].op, Tail(call[a].todo))
           /\ Now(a).do = "vacuum" =>
                /\ ~conn[a].inTransaction /\ call[a].op \in SchemaOps
                /\ call[a].add = {} /\ call[a].remove = {}
                /\ Tail(call[a].todo) # <<>> /\ Head(Tail(call[a].todo)).do = "begin"
                /\ SchemaLeft(Tail(Tail(call[a].todo)))
           /\ Now(a).do = "commit" => conn[a].inTransaction
           /\ Now(a).do = "user_version" =>
                ~conn[a].inTransaction /\ call[a].op = "initialize"
                /\ Tail(call[a].todo) = <<>>
           /\ Now(a).do = "select" =>
                ~conn[a].inTransaction /\ call[a].op \in {"find", "query", "count"}
                /\ Tail(call[a].todo) = <<>>
           /\ Now(a).do = "row" =>
                ~conn[a].inTransaction /\ call[a].op = "query"
                /\ call[a].todo = <<Do("row")>> /\ Tail(call[a].todo) = <<>>
<1>1. /\ TypeOK /\ CallIsSound(a)
      /\ call[a] \in NativeCalls /\ conn[a].work \in Files /\ file \in Files
      /\ call[a].todo \in Seq(Statement) /\ call[a].todo # <<>>
  BY PartsAre, TypeIs DEF FileInv, Connections, Running
<1>2. ASSUME conn[a].inTransaction
      PROVE  Now(a).do \notin {"begin", "vacuum", "user_version", "select", "row"}
  <2>1. ~Refused(conn[a].work, Head(call[a].todo)) /\ Work(call[a], file, conn[a].work)
    BY <1>1, <1>2 DEF Content, Now, CallIsSound
  <2> DEFINE d == [op |-> call[a].op, todo |-> Tail(call[a].todo),
                   add |-> call[a].add \cup (IF Head(call[a].todo).do = "insert"
                                             THEN Head(call[a].todo).id ELSE {}),
                   remove |-> call[a].remove \cup (IF Head(call[a].todo).do = "delete"
                                                   THEN Head(call[a].todo).id ELSE {})]
  <2>2. /\ d.op = call[a].op /\ d.todo = Tail(call[a].todo)
        /\ d.add = call[a].add \cup (IF Head(call[a].todo).do = "insert"
                                     THEN Head(call[a].todo).id ELSE {})
        /\ d.remove = call[a].remove \cup (IF Head(call[a].todo).do = "delete"
                                           THEN Head(call[a].todo).id ELSE {})
    OBVIOUS
  <2> HIDE DEF d
  <2>3. Head(call[a].todo).do # "commit" =>
          Head(call[a].todo).do \in {"schema", "setVersion", "migrate", "insert", "delete",
                                     "indices", "setPulled"}
    BY <1>1, <2>1, <2>2, WorkStep
  <2> QED
    BY <2>3 DEF Now
<1>3. ASSUME ~conn[a].inTransaction, call[a].op \in WritingOps
      PROVE  \/ /\ Now(a).do = "begin"
                /\ call[a].add = {} /\ call[a].remove = {}
                /\ Left(call[a].op, Tail(call[a].todo))
             \/ /\ Now(a).do = "vacuum" /\ call[a].op \in SchemaOps
                /\ call[a].add = {} /\ call[a].remove = {}
                /\ Tail(call[a].todo) # <<>> /\ Head(Tail(call[a].todo)).do = "begin"
                /\ SchemaLeft(Tail(Tail(call[a].todo)))
  <2>1. Unbegun(call[a])
    BY <1>1, <1>3 DEF CallIsSound, ReadingCall, WritingOps, SchemaOps
  <2>2. CASE Head(call[a].todo).do = "begin" /\ Left(call[a].op, Tail(call[a].todo))
    BY <2>1, <2>2 DEF Unbegun, Now
  <2>3. ASSUME NEW v \in 1..MaxVersion, call[a].op \in SchemaOps, call[a].todo = Reset(v)
        PROVE  /\ Now(a).do = "vacuum" /\ call[a].op \in SchemaOps
               /\ call[a].add = {} /\ call[a].remove = {}
               /\ Tail(call[a].todo) # <<>> /\ Head(Tail(call[a].todo)).do = "begin"
               /\ SchemaLeft(Tail(Tail(call[a].todo)))
    <3>1. Do("vacuum").do = "vacuum" /\ Do("begin").do = "begin"
      BY DEF Do
    <3> QED
      BY <2>1, <2>3, <3>1, PlansAre DEF Now, Unbegun
  <2> QED
    BY <2>1, <2>2, <2>3 DEF Unbegun
<1>4. ASSUME ~conn[a].inTransaction, call[a].op \notin WritingOps
      PROVE  \/ /\ Now(a).do = "user_version" /\ call[a].op = "initialize"
                /\ Tail(call[a].todo) = <<>>
             \/ /\ Now(a).do = "select" /\ call[a].op \in {"find", "query", "count"}
                /\ Tail(call[a].todo) = <<>>
             \/ /\ Now(a).do = "row" /\ call[a].op = "query"
                /\ call[a].todo = <<Do("row")>> /\ Tail(call[a].todo) = <<>>
  <2>1. ReadingCall(call[a])
    BY <1>1, <1>4 DEF CallIsSound
  <2>2. \A s \in {"user_version", "row"} :
          Head(<<Do(s)>>).do = s /\ Tail(<<Do(s)>>) = <<>>
    BY DEF Do
  <2>3. CASE call[a].op = "initialize" /\ call[a].todo = <<Do("user_version")>>
    BY <2>2, <2>3 DEF Now
  <2>4. CASE call[a].op = "query" /\ call[a].todo = <<Do("row")>>
    BY <2>2, <2>4 DEF Now
  <2>5. CASE call[a].op \in {"find", "query", "count"}
             /\ Len(call[a].todo) = 1 /\ call[a].todo[1].do = "select"
    BY <1>1, <2>5, TailIs DEF Now
  <2> QED
    BY <1>1, <2>1, <2>3, <2>4, <2>5 DEF ReadingCall
<1> QED
  BY <1>2, <1>3, <1>4

(* What one adapter does leaves the calls of the others sound, if it does not
   touch the file or the lock under the transaction of another.              *)
LEMMA OthersAreSound ==
    ASSUME FileInv, NEW a \in Adapter,
           \A b \in Adapter \ {a} : call'[b] = call[b] /\ conn'[b] = conn[b],
           \/ UNCHANGED <<file, holder>>
           \/ holder \in {NoAdapter, a},
           TypeOK', CallIsSound(a)'
    PROVE  FileInv'
<1>1. ASSUME NEW b \in Adapter \ {a} PROVE CallIsSound(b)'
  <2>1. CallIsSound(b) /\ call'[b] = call[b] /\ conn'[b] = conn[b]
    BY DEF FileInv
  <2>2. CASE UNCHANGED <<file, holder>>
    BY <2>1, <2>2 DEF CallIsSound
  <2>3. CASE holder \in {NoAdapter, a}
    <3>1. holder # b
      BY <2>3, NativeAssumption
    <3> QED
      BY <2>1, <3>1 DEF CallIsSound
  <2> QED
    BY <2>2, <2>3
<1> QED
  BY <1>1 DEF FileInv


-----------------------------------------------------------------------------
(* Every step keeps the calls sound. *)

LEMMA AdvanceIs ==
    ASSUME TypeOK, NEW a \in Adapter, call' = [call EXCEPT ![a] = Advance(a)]
    PROVE  /\ \A b \in Adapter \ {a} : call'[b] = call[b]
           /\ call'[a] = [call[a] EXCEPT !.todo = Tail(@)]
           /\ call'[a].todo = Tail(call[a].todo) /\ call'[a].op = call[a].op
           /\ call'[a].add = call[a].add /\ call'[a].remove = call[a].remove
           /\ call'[a].rows = call[a].rows /\ call'[a].full = call[a].full
           /\ call'[a].bare = call[a].bare /\ call'[a].ok = call[a].ok
<1>1. call[a] \in NativeCalls /\ call \in [Adapter -> NativeCalls]
  BY TypeIs
<1>2. call'[a] = [call[a] EXCEPT !.todo = Tail(@)]
  BY <1>1 DEF Advance
<1>3. \A b \in Adapter \ {a} : call'[b] = call[b]
  BY <1>1
<1> QED
  BY <1>1, <1>2, <1>3 DEF NativeCalls

LEMMA BeginKeeps == ASSUME FileInv, NEW a \in Adapter, Begin(a) PROVE FileInv'
<1>1. /\ TypeOK /\ TypeOK' /\ Running(a) /\ Now(a).do = "begin"
      /\ ~Refused(Content(a), Now(a)) /\ file \in Files
      /\ holder' = a /\ file' = file
      /\ holder \in {NoAdapter, a}
  BY BeginTypes, TypeIs DEF FileInv, Begin, CanExecute, Available, Free
<1>2. /\ call[a].op \in WritingOps /\ call[a].add = {} /\ call[a].remove = {}
      /\ Left(call[a].op, Tail(call[a].todo))
  BY <1>1, StatementsFit
<1>3. /\ \A b \in Adapter \ {a} : call'[b] = call[b]
      /\ call'[a].op = call[a].op /\ call'[a].todo = Tail(call[a].todo)
      /\ call'[a].add = {} /\ call'[a].remove = {}
  BY <1>1, <1>2, AdvanceIs DEF Begin
<1>4. /\ \A b \in Adapter \ {a} : conn'[b] = conn[b]
      /\ conn'[a].inTransaction = TRUE /\ conn'[a].work = file
  BY <1>1, TypeIs DEF Begin, Connections
<1>5. Work(call'[a], file, file)
  BY <1>1, <1>2, <1>3, WorkStarts
<1>6. CallIsSound(a)'
  BY <1>1, <1>2, <1>3, <1>4, <1>5 DEF CallIsSound
<1> QED
  BY <1>1, <1>3, <1>4, <1>6, OthersAreSound

LEMMA UpdateKeeps == ASSUME FileInv, NEW a \in Adapter, Update(a) PROVE FileInv'
<1>1. /\ TypeOK /\ TypeOK' /\ Running(a) /\ Now(a).do # "commit"
      /\ conn[a].inTransaction /\ ~Refused(conn[a].work, Now(a))
      /\ UNCHANGED <<file, holder>>
  BY UpdateTypes DEF FileInv, Update, CanExecute, Content
<1>2. /\ call[a] \in NativeCalls /\ conn[a].work \in Files /\ file \in Files
      /\ Work(call[a], file, conn[a].work) /\ holder = a /\ call[a].op \in WritingOps
  BY <1>1, PartsAre, TypeIs DEF FileInv, CallIsSound, Connections
<1>3. /\ \A b \in Adapter \ {a} : call'[b] = call[b] /\ conn'[b] = conn[b]
      /\ conn'[a].inTransaction = TRUE /\ conn'[a].work = Effect(conn[a].work, Now(a))
  BY <1>1, TypeIs DEF Update, Connections
<1>4. /\ call'[a].op = call[a].op /\ call'[a].todo = Tail(call[a].todo)
      /\ call'[a].add = call[a].add \cup (IF Now(a).do = "insert" THEN Now(a).id ELSE {})
      /\ call'[a].remove = call[a].remove \cup (IF Now(a).do = "delete" THEN Now(a).id ELSE {})
  <2> DEFINE i == IF Now(a).do = "insert" THEN Now(a).id ELSE {}
             d == IF Now(a).do = "delete" THEN Now(a).id ELSE {}
  <2>1. call' = [call EXCEPT ![a] = [Advance(a) EXCEPT !.add = @ \cup i, !.remove = @ \cup d]]
    BY DEF Update
  <2> HIDE DEF i, d
  <2>2. call'[a] = [Advance(a) EXCEPT !.add = @ \cup i, !.remove = @ \cup d]
    BY <1>1, <2>1, TypeIs
  <2>3. /\ Advance(a) \in NativeCalls /\ Advance(a).op = call[a].op
        /\ Advance(a).todo = Tail(call[a].todo)
        /\ Advance(a).add = call[a].add /\ Advance(a).remove = call[a].remove
    BY <1>1, <1>2, PartsAre DEF Advance, NativeCalls
  <2>4. /\ call'[a].op = call[a].op /\ call'[a].todo = Tail(call[a].todo)
        /\ call'[a].add = call[a].add \cup i /\ call'[a].remove = call[a].remove \cup d
    BY <2>2, <2>3 DEF NativeCalls
  <2> QED
    BY <2>4 DEF i, d
<1>5. Work(call'[a], file, Effect(conn[a].work, Now(a)))
  BY <1>1, <1>2, <1>4, WorkStep DEF Now
<1>6. CallIsSound(a)'
  BY <1>1, <1>2, <1>3, <1>4, <1>5 DEF CallIsSound
<1> QED
  BY <1>1, <1>3, <1>6, OthersAreSound

LEMMA CommitKeeps ==
    ASSUME FileInv, NEW a \in Adapter, Commit(a)
    PROVE  /\ FileInv' /\ conn[a].inTransaction /\ Tail(call[a].todo) = <<>>
           /\ file'.loaded <=> file.loaded \/ call[a].op = "unsafeLoadFromSync"
           /\ file'.pulled # file.pulled => call[a].op = "setLastPulledAt"
<1>1. /\ TypeOK /\ TypeOK' /\ Running(a) /\ Now(a).do = "commit"
      /\ ~Refused(Content(a), Now(a))
  BY CommitTypes DEF FileInv, Commit, CanExecute
<1>2. CallIsSound(a) /\ conn[a].inTransaction
  BY <1>1, StatementsFit DEF FileInv
<1>3. /\ Tail(call[a].todo) = <<>>
      /\ file'.loaded <=> file.loaded \/ call[a].op = "unsafeLoadFromSync"
      /\ file'.pulled # file.pulled => call[a].op = "setLastPulledAt"
  BY <1>1, <1>2, CommitIs DEF Commit, Now
<1>4. /\ \A b \in Adapter \ {a} : call'[b] = call[b]
      /\ call'[a].op = call[a].op /\ call'[a].todo = <<>>
  BY <1>1, <1>3, AdvanceIs DEF Commit
<1>5. /\ \A b \in Adapter \ {a} : conn'[b] = conn[b]
      /\ conn'[a].inTransaction = FALSE
  BY <1>1, TypeIs DEF Commit, Connections
<1>6. CallIsSound(a)'
  BY <1>2, <1>4, <1>5 DEF CallIsSound
<1>7. holder = a
  BY <1>2 DEF CallIsSound
<1> QED
  BY <1>1, <1>2, <1>3, <1>4, <1>5, <1>6, <1>7, OthersAreSound

LEMMA VacuumKeeps == ASSUME FileInv, NEW a \in Adapter, Vacuum(a) PROVE FileInv'
<1>1. /\ TypeOK /\ TypeOK' /\ Running(a) /\ Now(a).do = "vacuum"
      /\ ~Refused(Content(a), Now(a))
      /\ UNCHANGED conn /\ holder \in {NoAdapter, a}
  BY VacuumTypes DEF FileInv, Vacuum, CanExecute, Available, Free
<1>2. /\ ~conn[a].inTransaction /\ call[a].op \in SchemaOps
      /\ call[a].add = {} /\ call[a].remove = {}
      /\ Head(Tail(call[a].todo)).do = "begin"
      /\ SchemaLeft(Tail(Tail(call[a].todo)))
  BY <1>1, StatementsFit
<1>3. /\ \A b \in Adapter \ {a} : call'[b] = call[b]
      /\ call'[a].op = call[a].op /\ call'[a].todo = Tail(call[a].todo)
      /\ call'[a].add = {} /\ call'[a].remove = {}
  BY <1>1, <1>2, AdvanceIs DEF Vacuum
<1>4. CallIsSound(a)'
  BY <1>1, <1>2, <1>3 DEF CallIsSound, Unbegun, Left, WritingOps
<1> QED
  BY <1>1, <1>3, <1>4, OthersAreSound

(* A call that reads is sound whatever its answer. *)
LEMMA ReadVersionKeeps == ASSUME FileInv, NEW a \in Adapter, ReadVersion(a) PROVE FileInv'
<1>1. /\ TypeOK /\ TypeOK' /\ Running(a) /\ Now(a).do = "user_version"
      /\ ~Refused(Content(a), Now(a)) /\ UNCHANGED <<conn, file, holder>>
  BY ReadVersionTypes DEF FileInv, ReadVersion, CanExecute
<1>2. /\ ~conn[a].inTransaction /\ call[a].op = "initialize"
      /\ Tail(call[a].todo) = <<>>
  BY <1>1, StatementsFit
<1>3. Advance(a).op = call[a].op /\ Advance(a).todo = <<>> /\ Advance(a) \in NativeCalls
  BY <1>1, <1>2, PartsAre DEF Advance, NativeCalls
<1>4. /\ \A b \in Adapter \ {a} : call'[b] = call[b]
      /\ call'[a].op = "initialize" /\ call'[a].todo = <<>>
  BY <1>1, <1>2, <1>3, TypeIs DEF ReadVersion, NativeCalls
<1>5. CallIsSound(a)'
  BY <1>1, <1>2, <1>4 DEF CallIsSound, ReadingCall
<1> QED
  BY <1>1, <1>4, <1>5, OthersAreSound

LEMMA SelectIs ==
    ASSUME FileInv, NEW a \in Adapter, Select(a)
    PROVE  /\ call[a].op \in {"find", "query", "count"}
           /\ ~conn[a].inTransaction
           /\ UNCHANGED <<file, version, exclusive, holder, app>>
           /\ \A b \in Adapter \ {a} : call'[b] = call[b] /\ conn'[b] = conn[b]
           /\ call'[a].op = call[a].op /\ call'[a].ok = call[a].ok
           /\ call'[a].bare = call[a].bare
           /\ conn'[a].inTransaction = FALSE /\ conn'[a].open = conn[a].open
           /\ \/ /\ call[a].op = "find" /\ call'[a].todo = <<>>
                 /\ conn'[a].cached = conn[a].cached \cup call'[a].full
              \/ /\ call[a].op = "query" /\ call'[a].full = call[a].full
                 /\ conn'[a].cached = conn[a].cached
                 /\ call'[a].todo \in {<<>>, <<Do("row")>>}
              \/ /\ call[a].op = "count" /\ call'[a].todo = <<>>
                 /\ conn'[a].cached = conn[a].cached
<1> DEFINE found == file.rows \cap Now(a).id
<1>1. /\ TypeOK /\ Running(a) /\ Now(a).do = "select" /\ ~Refused(Content(a), Now(a))
  BY DEF FileInv, Select, CanExecute
<1>2. /\ call[a].op \in {"find", "query", "count"} /\ ~conn[a].inTransaction
      /\ Tail(call[a].todo) = <<>>
  BY <1>1, StatementsFit
<1>3. /\ Advance(a) \in NativeCalls /\ Advance(a).todo = <<>>
      /\ Advance(a).op = call[a].op /\ Advance(a).ok = call[a].ok
      /\ Advance(a).bare = call[a].bare /\ Advance(a).full = call[a].full
  BY <1>1, <1>2, PartsAre DEF Advance, NativeCalls
<1>4. conn[a] \in Connections /\ call[a] \in NativeCalls
      /\ conn \in [Adapter -> Connections] /\ call \in [Adapter -> NativeCalls]
  BY <1>1, TypeIs
<1>5. CASE call[a].op = "find"
  <2>1. /\ conn' = [conn EXCEPT ![a].cached = @ \cup found]
        /\ call' = [call EXCEPT ![a] = [Advance(a) EXCEPT !.full = found]]
    BY <1>5 DEF Select
  <2> HIDE DEF found
  <2> QED
    BY <1>2, <1>3, <1>4, <1>5, <2>1 DEF Select, Connections, NativeCalls
<1>6. CASE call[a].op = "query"
  <2> DEFINE rest == IF found = {} THEN <<>> ELSE <<Do("row")>>
  <2>1. /\ call' = [call EXCEPT ![a] = [call[a] EXCEPT !.rows = found, !.todo = rest]]
        /\ UNCHANGED conn
    BY <1>6 DEF Select
  <2>2. rest \in {<<>>, <<Do("row")>>}
    OBVIOUS
  <2> HIDE DEF found, rest
  <2> QED
    BY <1>2, <1>4, <1>6, <2>1, <2>2 DEF Select, Connections, NativeCalls
<1>7. CASE call[a].op = "count"
  <2>1. /\ call' = [call EXCEPT ![a] = Advance(a)]
        /\ UNCHANGED conn
    BY <1>7 DEF Select
  <2> QED
    BY <1>2, <1>3, <1>4, <1>7, <2>1 DEF Select, Connections
<1> QED
  BY <1>2, <1>5, <1>6, <1>7

LEMMA SelectKeeps == ASSUME FileInv, NEW a \in Adapter, Select(a) PROVE FileInv'
<1>1. TypeOK'
  BY SelectTypes DEF FileInv
<1>2. CallIsSound(a)'
  BY SelectIs DEF CallIsSound, ReadingCall
<1> QED
  BY <1>1, <1>2, SelectIs, OthersAreSound

LEMMA RowIs ==
    ASSUME FileInv, NEW a \in Adapter, Row(a)
    PROVE  /\ call[a].op = "query" /\ ~conn[a].inTransaction
           /\ UNCHANGED <<file, version, exclusive, holder, app>>
           /\ \A b \in Adapter \ {a} : call'[b] = call[b] /\ conn'[b] = conn[b]
           /\ call'[a].op = "query" /\ call'[a].ok = call[a].ok
           /\ call'[a].todo \in {<<>>, <<Do("row")>>}
           /\ conn'[a].inTransaction = FALSE /\ conn'[a].open = conn[a].open
           /\ \E id \in call[a].rows :
                /\ call'[a].rows = call[a].rows \ {id}
                /\ conn'[a].cached = conn[a].cached \cup {id}
                /\ \/ /\ id \in conn[a].cached
                      /\ call'[a].full = call[a].full
                      /\ call'[a].bare = call[a].bare \cup {id}
                   \/ /\ id \notin conn[a].cached
                      /\ call'[a].full = call[a].full \cup {id}
                      /\ call'[a].bare = call[a].bare
<1>1. /\ TypeOK /\ Running(a) /\ Now(a).do = "row" /\ ~Refused(Content(a), Now(a))
  BY DEF FileInv, Row, CanExecute
<1>2. /\ call[a].op = "query" /\ ~conn[a].inTransaction /\ call[a].todo = <<Do("row")>>
  BY <1>1, StatementsFit
<1>3. conn[a] \in Connections /\ call[a] \in NativeCalls
      /\ conn \in [Adapter -> Connections] /\ call \in [Adapter -> NativeCalls]
  BY <1>1, TypeIs
<1>4. PICK id \in call[a].rows :
         /\ conn' = [conn EXCEPT ![a].cached = @ \cup {id}]
         /\ call' = [call EXCEPT ![a] =
                [call[a] EXCEPT
                    !.rows = @ \ {id},
                    !.todo = IF call[a].rows = {id} THEN <<>> ELSE @,
                    !.full = IF id \in conn[a].cached THEN @ ELSE @ \cup {id},
                    !.bare = IF id \in conn[a].cached THEN @ \cup {id} ELSE @]]
  BY DEF Row
<1> DEFINE new == [call[a] EXCEPT
                    !.rows = @ \ {id},
                    !.todo = IF call[a].rows = {id} THEN <<>> ELSE @,
                    !.full = IF id \in conn[a].cached THEN @ ELSE @ \cup {id},
                    !.bare = IF id \in conn[a].cached THEN @ \cup {id} ELSE @]
<1>5. /\ new.op = call[a].op /\ new.ok = call[a].ok /\ new.rows = call[a].rows \ {id}
      /\ new.todo = IF call[a].rows = {id} THEN <<>> ELSE call[a].todo
      /\ new.full = IF id \in conn[a].cached THEN call[a].full ELSE call[a].full \cup {id}
      /\ new.bare = IF id \in conn[a].cached THEN call[a].bare \cup {id} ELSE call[a].bare
  BY <1>3 DEF NativeCalls
<1>6. call' = [call EXCEPT ![a] = new]
  BY <1>4
<1> HIDE DEF new
<1>7. call'[a] = new /\ \A b \in Adapter \ {a} : call'[b] = call[b]
  BY <1>3, <1>6
<1>8. /\ conn'[a].cached = conn[a].cached \cup {id}
      /\ conn'[a].inTransaction = FALSE /\ conn'[a].open = conn[a].open
      /\ \A b \in Adapter \ {a} : conn'[b] = conn[b]
  BY <1>2, <1>3, <1>4 DEF Connections
<1> QED
  BY <1>2, <1>5, <1>7, <1>8 DEF Row

LEMMA RowKeeps == ASSUME FileInv, NEW a \in Adapter, Row(a) PROVE FileInv'
<1>1. TypeOK'
  BY RowTypes DEF FileInv
<1>2. CallIsSound(a)'
  BY RowIs DEF CallIsSound, ReadingCall
<1> QED
  BY <1>1, <1>2, RowIs, OthersAreSound

LEMMA FailIs ==
    ASSUME FileInv, NEW a \in Adapter, Fail(a)
    PROVE  /\ \A b \in Adapter \ {a} : call'[b] = call[b] /\ conn'[b] = conn[b]
           /\ call'[a].op = call[a].op /\ call'[a].todo = <<>> /\ ~call'[a].ok
           /\ call'[a].rows = {} /\ call'[a].full = call[a].full
           /\ call'[a].bare = call[a].bare
           /\ conn'[a].inTransaction = FALSE /\ conn'[a].open = conn[a].open
           /\ \E noted \in NotedInVain(a) : conn'[a].cached = conn[a].cached \cup noted
           /\ call[a].op \notin SchemaOps
           /\ UNCHANGED <<file, version, exclusive, app>>
           /\ UNCHANGED holder \/ holder = a
<1>1. /\ conn[a] \in Connections /\ call[a] \in NativeCalls /\ CallIsSound(a)
      /\ conn \in [Adapter -> Connections] /\ call \in [Adapter -> NativeCalls]
  BY TypeIs DEF FileInv
<1>2. PICK noted \in NotedInVain(a) :
         conn' = [conn EXCEPT ![a] = [conn[a] EXCEPT !.inTransaction = FALSE, !.work = Empty,
                                                     !.cached = @ \cup noted]]
  BY DEF Fail
<1>3. /\ conn'[a].cached = conn[a].cached \cup noted
      /\ conn'[a].inTransaction = FALSE /\ conn'[a].open = conn[a].open
      /\ \A b \in Adapter \ {a} : conn'[b] = conn[b]
  BY <1>1, <1>2 DEF Connections
<1>4. /\ \A b \in Adapter \ {a} : call'[b] = call[b]
      /\ call'[a].op = call[a].op /\ call'[a].todo = <<>> /\ ~call'[a].ok
      /\ call'[a].rows = {} /\ call'[a].full = call[a].full
      /\ call'[a].bare = call[a].bare
  BY <1>1 DEF Fail, NativeCalls
<1>5. UNCHANGED holder \/ holder = a
  BY <1>1 DEF Fail, CallIsSound
<1> QED
  BY <1>3, <1>4, <1>5 DEF Fail, SchemaOps

LEMMA FailKeeps == ASSUME FileInv, NEW a \in Adapter, Fail(a) PROVE FileInv'
<1>1. TypeOK' /\ CallIsSound(a)
  BY FailTypes DEF FileInv
<1>2. CallIsSound(a)'
  BY <1>1, FailIs DEF CallIsSound, ReadingCall
<1> QED
  BY <1>1, <1>2, FailIs, OthersAreSound


(* Calls begin and end with JavaScript. *)
LEMMA NewCallKeeps ==
    ASSUME FileInv, TypeOK', NEW a \in Adapter, UNCHANGED <<file, holder>>,
           ~conn[a].inTransaction, ~conn'[a].inTransaction,
           \A b \in Adapter \ {a} : call'[b] = call[b] /\ conn'[b] = conn[b],
           \/ ReadingCall(call'[a])
           \/ call'[a].op \in WritingOps /\ (call'[a].todo = <<>> \/ Unbegun(call'[a]))
    PROVE  FileInv'
<1>1. CallIsSound(a)'
  BY DEF CallIsSound
<1> QED
  BY <1>1, OthersAreSound

LEMMA NoWork ==
    ASSUME FileInv, NEW a \in Adapter, call[a].todo = <<>>
    PROVE  ~conn[a].inTransaction
<1>1. /\ CallIsSound(a) /\ call[a] \in NativeCalls /\ conn[a] \in Connections
  BY TypeIs DEF FileInv
<1>2. \A x, y, z : <<x, y, z>> # <<>> /\ <<x, y>> # <<>> /\ <<x>> # <<>>
  OBVIOUS
<1>3. ~Work(call[a], file, conn[a].work)
  BY <1>2 DEF Work, SchemaWork, MigrationWork, BatchWork, BatchLeft, LoadWork, LoadLeft, Ends,
              PullWork, PullLeft
<1> QED
  BY <1>1, <1>3 DEF CallIsSound

LEMMA CrashKeeps == ASSUME FileInv, Crash PROVE FileInv'
<1>1. TypeOK'
  BY CrashTypes DEF FileInv
<1>2. ASSUME NEW a \in Adapter PROVE CallIsSound(a)'
  BY DEF CallIsSound, Crash, NoConnection, NoCall, ReadingCall
<1> QED
  BY <1>1, <1>2 DEF FileInv, Crash

LEMMA OpenIs ==
    ASSUME FileInv, NEW a \in Adapter, Open(a)
    PROVE  /\ UNCHANGED <<file, version, exclusive, holder>>
           /\ \A b \in Adapter \ {a} : call'[b] = call[b] /\ conn'[b] = conn[b]
           /\ ~conn[a].open /\ ~conn'[a].inTransaction /\ conn'[a].open
           /\ conn'[a].cached = {}
           /\ call'[a] = Started("initialize", <<Do("user_version")>>)
           /\ call'[a].op = "initialize" /\ call'[a].todo = <<Do("user_version")>>
           /\ app'[a].status = "setup" /\ app'[a].sync = "idle"
           /\ app'[a].alone => \A b \in Adapter : ~conn[b].open
           /\ \A b \in Adapter \ {a} :
                /\ app'[b].status = app[b].status /\ app'[b].sync = app[b].sync
                /\ app'[b].alone => app[b].alone /\ ~conn[b].open
                /\ app[b].status \in {"none", "gone"}
<1>1. TypeOK /\ conn \in [Adapter -> Connections]
  BY TypeIs DEF FileInv
<1>2. /\ call'[a] = Started("initialize", <<Do("user_version")>>)
      /\ call'[a].op = "initialize" /\ call'[a].todo = <<Do("user_version")>>
      /\ \A b \in Adapter \ {a} : call'[b] = call[b]
  <2> DEFINE t == <<Do("user_version")>>
  <2>1. t \in Seq(Statement) /\ "initialize" \in Ops
    BY StatementsAre DEF Statements, Ops
  <2>2. Calls(a, "initialize", t)
    BY DEF Open
  <2> HIDE DEF t
  <2>3. /\ call'[a] = Started("initialize", t)
        /\ \A b \in Adapter \ {a} : call'[b] = call[b]
    BY <1>1, <2>1, <2>2, CallsAre
  <2>4. Started("initialize", t).op = "initialize" /\ Started("initialize", t).todo = t
    BY <2>1, StartedIs
  <2> QED
    BY <2>3, <2>4 DEF t
<1>3. /\ ~conn'[a].inTransaction /\ conn'[a].open /\ conn'[a].cached = {}
      /\ \A b \in Adapter \ {a} : conn'[b] = conn[b]
  BY <1>1 DEF Open, NoConnection
<1> DEFINE others == {b \in Adapter : conn[b].open}
           mine == [NoApp EXCEPT !.status = "setup", !.alone = others = {}]
           lone(b) == [app[b] EXCEPT !.alone = FALSE]
<1>4. app' = [b \in Adapter |-> CASE b = a -> mine
                                  [] b \in others -> lone(b)
                                  [] OTHER -> app[b]]
  BY DEF Open
<1>5. /\ mine.status = "setup" /\ mine.sync = "idle" /\ mine.alone = (others = {})
  BY DEF NoApp
<1>6. \A b \in Adapter : /\ lone(b).status = app[b].status /\ lone(b).sync = app[b].sync
                         /\ lone(b).alone = FALSE
  BY <1>1, PartsAre DEF Scripts
<1>10. a \notin others
  BY DEF Open
<1> HIDE DEF mine, lone, others
<1>7. app'[a] = mine /\ \A b \in Adapter \ {a} : app'[b] = IF b \in others THEN lone(b) ELSE app[b]
  <2>1. \A b \in Adapter : app'[b] = CASE b = a -> mine
                                       [] b \in others -> lone(b)
                                       [] OTHER -> app[b]
    BY <1>4
  <2>2. app'[a] = mine
    BY <1>10, <2>1
  <2>3. ASSUME NEW b \in Adapter \ {a}, b \in others PROVE app'[b] = lone(b)
    BY <2>1, <2>3
  <2>4. ASSUME NEW b \in Adapter \ {a}, b \notin others PROVE app'[b] = app[b]
    BY <2>1, <2>4
  <2> QED
    BY <2>2, <2>3, <2>4
<1> USE DEF others
<1>8. /\ app'[a].status = "setup" /\ app'[a].sync = "idle"
      /\ app'[a].alone => \A b \in Adapter : ~conn[b].open
  BY <1>5, <1>7
<1>9. ASSUME NEW b \in Adapter \ {a}
      PROVE  /\ app'[b].status = app[b].status /\ app'[b].sync = app[b].sync
             /\ app'[b].alone => app[b].alone /\ ~conn[b].open
             /\ app[b].status \in {"none", "gone"}
  BY <1>6, <1>7 DEF Open
<1> QED
  BY <1>2, <1>3, <1>8, <1>9 DEF Open

LEMMA OpenKeeps == ASSUME FileInv, NEW a \in Adapter, Open(a) PROVE FileInv'
<1>1. TypeOK'
  BY OpenTypes DEF FileInv
<1>2. CallIsSound(a)'
  BY OpenIs DEF CallIsSound, ReadingCall
<1> QED
  BY <1>1, <1>2, OpenIs, OthersAreSound

LEMMA ReloadKeeps == ASSUME FileInv, NEW a \in Adapter, Reload(a) PROVE FileInv'
<1>1. TypeOK' /\ UNCHANGED <<file, holder, conn, call>>
  BY ReloadTypes DEF FileInv, Reload
<1> QED
  BY <1>1 DEF FileInv, CallIsSound

LEMMA DestroyKeeps == ASSUME FileInv, NEW a \in Adapter, Destroy(a) PROVE FileInv'
<1>1. /\ TypeOK' /\ TypeOK /\ CallIsSound(a) /\ call[a].op = "none" /\ UNCHANGED <<file, call>>
  BY DestroyTypes DEF FileInv, Destroy
<1>2. /\ ~conn'[a].inTransaction
      /\ \A b \in Adapter \ {a} : conn'[b] = conn[b]
  BY <1>1, TypeIs DEF Destroy, NoConnection
<1>3. call[a].op \notin WritingOps
  BY <1>1 DEF WritingOps, SchemaOps
<1>4. CallIsSound(a)'
  BY <1>1, <1>2, <1>3 DEF CallIsSound
<1>5. UNCHANGED <<file, holder>> \/ holder \in {NoAdapter, a}
  BY <1>1 DEF Destroy
<1> QED
  BY <1>1, <1>2, <1>4, <1>5, OthersAreSound

LEMMA ReturnKeeps ==
    ASSUME FileInv, TypeOK', NEW a \in Adapter, UNCHANGED <<file, holder, conn>>,
           call[a].todo = <<>>, Returns(a)
    PROVE  FileInv'
<1>1. call'[a] = NoCall /\ \A b \in Adapter \ {a} : call'[b] = call[b]
  BY ReturnsIs DEF FileInv
<1>2. ReadingCall(call'[a])
  BY <1>1 DEF ReadingCall, NoCall
<1> QED
  BY <1>1, <1>2, NoWork, NewCallKeeps

(* How an adapter is set up. *)
LEMMA SettingUpIs ==
    ASSUME TypeOK, NEW a \in Adapter,
           \/ Calls(a, "setUpWithSchema", Reset(version))
           \/ Calls(a, "setUpWithMigrations", Migration(version))
    PROVE  /\ Asked(a) /\ call'[a].op \in {"setUpWithSchema", "setUpWithMigrations"}
           /\ call'[a].op \in WritingOps /\ call'[a].todo # <<>> /\ Unbegun(call'[a])
<1>1. version \in 1..MaxVersion /\ Do("begin").do = "begin"
  BY TypeIs DEF Do
<1>2. CASE Calls(a, "setUpWithSchema", Reset(version))
  <2>1. Reset(version) \in Seq(Statement) /\ Reset(version) # <<>>
    BY <1>1, PlansAre
  <2>2. "setUpWithSchema" \in Ops /\ "setUpWithSchema" \in SchemaOps
        /\ "setUpWithSchema" \in WritingOps
    BY DEF Ops, SchemaOps, WritingOps
  <2>3. /\ Asked(a) /\ call'[a].op = "setUpWithSchema" /\ call'[a].todo = Reset(version)
    BY <1>2, <2>1, <2>2, CallsAre, StartedIs DEF Asked
  <2> QED
    BY <1>1, <2>1, <2>2, <2>3 DEF Unbegun, Asked
<1>3. CASE Calls(a, "setUpWithMigrations", Migration(version))
  <2>1. /\ Migration(version) \in Seq(Statement) /\ Migration(version) # <<>>
        /\ Head(Migration(version)) = Do("begin") /\ MigrationLeft(Tail(Migration(version)))
    BY <1>1, PlansAre
  <2>2. "setUpWithMigrations" \in Ops /\ "setUpWithMigrations" \in WritingOps
    BY DEF Ops, WritingOps
  <2>3. /\ Asked(a) /\ call'[a].op = "setUpWithMigrations" /\ call'[a].todo = Migration(version)
    BY <1>3, <2>1, <2>2, CallsAre, StartedIs DEF Asked
  <2> QED
    BY <1>1, <2>1, <2>2, <2>3 DEF Unbegun, Asked, Left
<1> QED
  BY <1>2, <1>3

LEMMA InitializedKeeps == ASSUME FileInv, NEW a \in Adapter, Initialized(a) PROVE FileInv'
<1>1. /\ TypeOK /\ TypeOK' /\ call[a].todo = <<>> /\ UNCHANGED <<file, holder, conn>>
  BY InitializedTypes DEF FileInv, Initialized, Answered
<1>2. CASE Returns(a)
  BY <1>1, <1>2, ReturnKeeps
<1>3. CASE \/ Calls(a, "setUpWithSchema", Reset(version))
           \/ Calls(a, "setUpWithMigrations", Migration(version))
  <2>1. /\ \A b \in Adapter \ {a} : call'[b] = call[b]
        /\ call'[a].op \in WritingOps /\ Unbegun(call'[a])
    BY <1>1, <1>3, SettingUpIs DEF Asked
  <2> QED
    BY <1>1, <2>1, NoWork, NewCallKeeps
<1> QED
  BY <1>2, <1>3 DEF Initialized

LEMMA SetUpKeeps == ASSUME FileInv, NEW a \in Adapter, SetUp(a) PROVE FileInv'
  BY SetUpTypes, ReturnKeeps DEF FileInv, SetUp, Answered

LEMMA AnswerKeeps == ASSUME FileInv, NEW a \in Adapter, Answer(a) \/ AnswerNobody(a) PROVE FileInv'
  BY AnswerTypes, ReturnKeeps DEF FileInv, Answer, AnswerNobody, Answered

LEMMA IdleIs == ASSUME FileInv, NEW a \in Adapter, call[a].op = "none" PROVE call[a].todo = <<>>
  BY DEF FileInv, CallIsSound, ReadingCall, WritingOps, SchemaOps

LEMMA CallKeeps ==
    ASSUME FileInv, NEW a \in Adapter,
           \/ Find(a) \/ Query(a)
           \/ Batch(a) \/ ResetDatabase(a) \/ TurboSync(a) \/ SetLastPulledAt(a)
    PROVE  FileInv'
<1>1. /\ TypeOK /\ call[a].op = "none" /\ UNCHANGED <<file, version, exclusive, holder, conn>>
      /\ app' \in [Adapter -> Scripts]
  <2>1. TypeOK
    BY DEF FileInv
  <2>2. app' \in [Adapter -> Scripts]
    <3>1. CASE SetLastPulledAt(a)
      <4>1. [app[a] EXCEPT !.sync = "idle"] \in Scripts
        BY <2>1, PartsAre DEF Scripts
      <4> QED
        BY <2>1, <3>1, <4>1, TypeIs DEF SetLastPulledAt
    <3>2. CASE UNCHANGED app
      BY <2>1, <3>2, TypeIs
    <3> QED
      BY <3>1, <3>2 DEF Find, Query, Batch, ResetDatabase, TurboSync
  <2> QED
    BY <2>1, <2>2 DEF Find, Query, Batch, ResetDatabase, TurboSync, SetLastPulledAt, Idle
<1>2. /\ call' \in [Adapter -> NativeCalls]
      /\ \A b \in Adapter \ {a} : call'[b] = call[b]
      /\ \/ ReadingCall(call'[a])
         \/ call'[a].op \in WritingOps /\ Unbegun(call'[a])
  <2>1. CASE Find(a)
    BY <1>1, <2>1, FindIs DEF ReadingCall
  <2>2. CASE Query(a)
    BY <1>1, <2>2, QueryIs DEF ReadingCall, Asked
  <2>3. CASE Batch(a) \/ ResetDatabase(a) \/ TurboSync(a) \/ SetLastPulledAt(a)
    BY <1>1, <2>3, WritingCallIs DEF Asked
  <2> QED
    BY <2>1, <2>2, <2>3
<1>3. TypeOK'
  BY <1>1, <1>2, TypeIs DEF TypeOK, Connections, NativeCalls, Scripts
<1>4. ~conn[a].inTransaction /\ ~conn'[a].inTransaction
  BY <1>1, IdleIs, NoWork
<1> QED
  BY <1>1, <1>2, <1>3, <1>4, NewCallKeeps

LEMMA FileInitially == Init => FileInv
<1> SUFFICES ASSUME Init PROVE FileInv
  OBVIOUS
<1>1. ASSUME NEW a \in Adapter PROVE CallIsSound(a)
  BY DEF Init, CallIsSound, NoConnection, NoCall, ReadingCall
<1> QED
  BY <1>1, InitialTypes DEF FileInv

LEMMA FileStep == FileInv /\ [Next]_vars => FileInv'
<1> SUFFICES ASSUME FileInv, [Next]_vars PROVE FileInv'
  OBVIOUS
<1>1. CASE UNCHANGED vars
  <2>1. UNCHANGED <<file, version, exclusive, holder, conn, call, app>>
    BY <1>1 DEF vars
  <2> QED
    BY <2>1 DEF FileInv, CallIsSound, TypeOK
<1>2. CASE Crash
  BY <1>2, CrashKeeps
<1>3. ASSUME NEW a \in Adapter, Execute(a) PROVE FileInv'
  BY <1>3, BeginKeeps, UpdateKeeps, CommitKeeps, VacuumKeeps, ReadVersionKeeps, SelectKeeps,
     RowKeeps, FailKeeps DEF Execute
<1>4. ASSUME NEW a \in Adapter,
             \/ Open(a) \/ Reload(a) \/ Destroy(a)
             \/ Initialized(a) \/ SetUp(a) \/ Answer(a) \/ AnswerNobody(a)
             \/ Find(a) \/ Query(a) \/ Batch(a) \/ ResetDatabase(a)
             \/ TurboSync(a) \/ SetLastPulledAt(a)
      PROVE  FileInv'
  BY <1>4, OpenKeeps, ReloadKeeps, DestroyKeeps, InitializedKeeps, SetUpKeeps, AnswerKeeps,
     CallKeeps
<1> QED
  BY <1>1, <1>2, <1>3, <1>4 DEF Next

LEMMA FileAlways == Spec => []FileInv
BY FileInitially, FileStep, PTL DEF Spec

(* The state keeps its type, whatever the interleaving of the statements of
   several connections, and whenever the process dies.                      *)
THEOREM TypeCorrect == Spec => []TypeOK
<1>1. FileInv => TypeOK
  BY DEF FileInv
<1> QED
  BY <1>1, FileAlways, PTL

-----------------------------------------------------------------------------
(* The steps of one adapter. *)

LEMMA WorkGoesOn ==
    ASSUME NEW c, NEW f, NEW w, Work(c, f, w)
    PROVE  c.todo # <<>>
<1>1. \A x, y, z : <<x, y, z>> # <<>> /\ <<x, y>> # <<>> /\ <<x>> # <<>>
  OBVIOUS
<1> QED
  BY <1>1 DEF Work, SchemaWork, MigrationWork, BatchWork, BatchLeft, LoadWork, LoadLeft, Ends,
              PullWork, PullLeft

(* A step of one adapter does nothing to another, nor to its JavaScript. *)
Stays(a) == \A b \in Adapter \ {a} : call'[b] = call[b] /\ conn'[b] = conn[b] /\ app'[b] = app[b]

LEMMA StaysIs ==
    ASSUME FileInv, NEW a \in Adapter,
           \/ Execute(a) \/ Reload(a) \/ Destroy(a)
           \/ Initialized(a) \/ SetUp(a) \/ Answer(a) \/ AnswerNobody(a)
           \/ Find(a) \/ Query(a) \/ Batch(a) \/ ResetDatabase(a)
           \/ TurboSync(a) \/ SetLastPulledAt(a)
    PROVE  Stays(a)
<1>1. /\ TypeOK /\ conn \in [Adapter -> Connections] /\ call \in [Adapter -> NativeCalls]
      /\ app \in [Adapter -> Scripts]
  BY TypeIs DEF FileInv
<1>2. CASE Execute(a)
  <2>1. CASE Begin(a) \/ Commit(a)
    BY <1>1, <2>1 DEF Begin, Commit, Stays
  <2>2. CASE Vacuum(a) \/ ReadVersion(a)
    BY <1>1, <2>2 DEF Vacuum, ReadVersion, Stays
  <2>3. CASE Update(a)
    BY <1>1, <2>3 DEF Update, Stays
  <2>4. CASE Select(a)
    BY <1>1, <2>4, SelectIs DEF Stays
  <2>5. CASE Row(a)
    BY <1>1, <2>5, RowIs DEF Stays
  <2>6. CASE Fail(a)
    BY <1>1, <2>6, FailIs DEF Stays
  <2> QED
    BY <1>2, <2>1, <2>2, <2>3, <2>4, <2>5, <2>6 DEF Execute
<1>3. CASE Reload(a) \/ Destroy(a)
  BY <1>1, <1>3 DEF Reload, Destroy, Stays
<1>4. CASE Initialized(a)
  <2>1. \A b \in Adapter \ {a} : app'[b] = app[b] /\ conn'[b] = conn[b]
    BY <1>1, <1>4 DEF Initialized
  <2>2. \A b \in Adapter \ {a} : call'[b] = call[b]
    BY <1>1, <1>4, SettingUpIs, ReturnsIs DEF Initialized, Asked
  <2> QED
    BY <2>1, <2>2 DEF Stays
<1>5. CASE SetUp(a) \/ Answer(a) \/ AnswerNobody(a)
  <2>1. \A b \in Adapter \ {a} : app'[b] = app[b] /\ conn'[b] = conn[b]
    BY <1>1, <1>5 DEF SetUp, Answer, AnswerNobody
  <2>2. \A b \in Adapter \ {a} : call'[b] = call[b]
    BY <1>1, <1>5, ReturnsIs DEF SetUp, Answer, AnswerNobody
  <2> QED
    BY <2>1, <2>2 DEF Stays
<1>6. CASE \/ Find(a) \/ Query(a) \/ Batch(a) \/ ResetDatabase(a)
           \/ TurboSync(a) \/ SetLastPulledAt(a)
  <2>1. \A b \in Adapter \ {a} : app'[b] = app[b] /\ conn'[b] = conn[b]
    BY <1>1, <1>6 DEF Find, Query, Batch, ResetDatabase, TurboSync, SetLastPulledAt
  <2>2. \A b \in Adapter \ {a} : call'[b] = call[b]
    BY <1>1, <1>6, FindIs, QueryIs, WritingCallIs DEF Asked
  <2> QED
    BY <2>1, <2>2 DEF Stays
<1> QED
  BY <1>2, <1>3, <1>4, <1>5, <1>6

-----------------------------------------------------------------------------
(* Batches: a call has the same request from the moment it is made until its
   transaction is committed or rolled back, and nothing else touches it.     *)

LEMMA IdsAre ==
    ASSUME NEW t \in Seq(Statement), t # <<>>, NEW s
    PROVE  Ids(t, s) = (IF Head(t).do = s THEN Head(t).id ELSE {}) \cup Ids(Tail(t), s)
<1>1. /\ Len(t) \in Nat \ {0} /\ Head(t) = t[1] /\ Len(Tail(t)) = Len(t) - 1
      /\ DOMAIN t = 1..Len(t) /\ DOMAIN Tail(t) = 1..Len(Tail(t))
      /\ \A k \in 1..Len(Tail(t)) : Tail(t)[k] = t[k + 1]
  BY TailIs
<1> DEFINE u == Tail(t)
<1> HIDE DEF u
<1>2. ASSUME NEW k \in 1..Len(u) PROVE k + 1 \in 1..Len(t) /\ u[k] = t[k + 1]
  BY <1>1 DEF u
<1>3. ASSUME NEW k \in 1..Len(t), k # 1 PROVE k - 1 \in 1..Len(u) /\ u[k - 1] = t[k]
  BY <1>1, <1>3 DEF u
<1>4. ASSUME NEW x
      PROVE  x \in Ids(t, s) <=> x \in (IF t[1].do = s THEN t[1].id ELSE {}) \/ x \in Ids(u, s)
  <2>1. x \in Ids(t, s) <=> \E k \in 1..Len(t) : t[k].do = s /\ x \in t[k].id
    BY <1>1 DEF Ids
  <2>2. x \in Ids(u, s) <=> \E k \in 1..Len(u) : u[k].do = s /\ x \in u[k].id
    BY <1>1 DEF Ids, u
  <2>3. 1 \in 1..Len(t)
    BY <1>1
  <2> QED
    BY <1>2, <1>3, <2>1, <2>2, <2>3
<1> QED
  BY <1>1, <1>4 DEF u

LEMMA NoIds == \A s : Ids(<<>>, s) = {}
  BY DEF Ids

(* What is left to do of a batch has each of the records to write in it. *)
LEMMA WrittenAsks ==
    ASSUME NEW add \in SUBSET Id, NEW remove \in SUBSET Id
    PROVE  /\ Ids(Written(add, remove), "insert") = add
           /\ Ids(Written(add, remove), "delete") = remove
<1> DEFINE i == DoEach("insert", add)
           d == DoEach("delete", remove)
           u == (i \o d) \o <<Do("commit")>>
<1>1. /\ i \in Seq(Statement)
      /\ \A k \in 1..Len(i) : i[k].do = "insert" /\ i[k].id \subseteq add
      /\ \A id \in add : \E k \in 1..Len(i) : id \in i[k].id
  BY DoEachIs DEF Statements
<1>2. /\ d \in Seq(Statement)
      /\ \A k \in 1..Len(d) : d[k].do = "delete" /\ d[k].id \subseteq remove
      /\ \A id \in remove : \E k \in 1..Len(d) : id \in d[k].id
  BY DoEachIs DEF Statements
<1>3. Written(add, remove) = Transaction(i \o d)
  BY DEF Written
<1> HIDE DEF i, d
<1>4. /\ i \o d \in Seq(Statement) /\ Len(i \o d) = Len(i) + Len(d)
      /\ Len(i) \in Nat /\ Len(d) \in Nat
      /\ \A k \in 1..Len(i) : (i \o d)[k] = i[k]
      /\ \A k \in (Len(i) + 1)..(Len(i) + Len(d)) : (i \o d)[k] = d[k - Len(i)]
  BY <1>1, <1>2
<1>5. /\ u \in Seq(Statement) /\ Len(u) = Len(i) + Len(d) + 1 /\ DOMAIN u = 1..Len(u)
      /\ u[Len(u)].do = "commit"
      /\ \A k \in 1..(Len(i) + Len(d)) : u[k] = (i \o d)[k]
  <2>1. <<Do("commit")>> \in Seq(Statement) /\ Len(<<Do("commit")>>) = 1
    BY StatementsAre DEF Statements
  <2>2. u \in Seq(Statement) /\ Len(u) = Len(i) + Len(d) + 1 /\ DOMAIN u = 1..Len(u)
    BY <1>4, <2>1, ConcatIs
  <2>3. Ends(u) /\ \A k \in 1..Len(i \o d) : u[k] = (i \o d)[k]
    BY <1>4, EndsIs
  <2> HIDE DEF u
  <2> QED
    BY <1>4, <2>2, <2>3 DEF Ends
<1> HIDE DEF u
<1>6. \A k \in 1..Len(i) : u[k] = i[k] /\ k \in DOMAIN u
  <2> SUFFICES ASSUME NEW k \in 1..Len(i) PROVE u[k] = i[k] /\ k \in DOMAIN u
    OBVIOUS
  <2>1. k \in 1..(Len(i) + Len(d)) /\ k \in 1..Len(u)
    BY <1>4, <1>5
  <2> QED
    BY <1>4, <1>5, <2>1
<1>7. \A k \in 1..Len(d) : u[Len(i) + k] = d[k] /\ Len(i) + k \in DOMAIN u
  <2> SUFFICES ASSUME NEW k \in 1..Len(d)
               PROVE  u[Len(i) + k] = d[k] /\ Len(i) + k \in DOMAIN u
    OBVIOUS
  <2> Len(i) \in Nat /\ Len(d) \in Nat /\ Len(u) = Len(i) + Len(d) + 1 /\ k \in 1..Len(d)
    BY <1>4, <1>5
  <2>1. Len(i) + k \in (Len(i) + 1)..(Len(i) + Len(d)) /\ (Len(i) + k) - Len(i) = k
    OBVIOUS
  <2>2. Len(i) + k \in 1..(Len(i) + Len(d)) /\ Len(i) + k \in 1..Len(u)
    OBVIOUS
  <2> QED
    BY <1>4, <1>5, <2>1, <2>2
<1>8. \A k \in DOMAIN u : \/ u[k].do = "commit"
                          \/ u[k].do = "insert" /\ u[k].id \subseteq add
                          \/ u[k].do = "delete" /\ u[k].id \subseteq remove
  <2> SUFFICES ASSUME NEW k \in DOMAIN u
               PROVE  \/ u[k].do = "commit"
                      \/ u[k].do = "insert" /\ u[k].id \subseteq add
                      \/ u[k].do = "delete" /\ u[k].id \subseteq remove
    OBVIOUS
  <2>1. k = Len(u) \/ k \in 1..Len(i) \/ k \in (Len(i) + 1)..(Len(i) + Len(d))
    <3>1. Len(u) = Len(i) + Len(d) + 1 /\ Len(i) \in Nat /\ Len(d) \in Nat
      BY <1>4, <1>5
    <3>2. k \in 1..Len(u)
      BY <1>5
    <3> QED
      BY ONLY <3>1, <3>2
  <2>2. CASE k \in (Len(i) + 1)..(Len(i) + Len(d))
    <3>1. k - Len(i) \in 1..Len(d) /\ Len(i) + (k - Len(i)) = k
      <4>1. Len(i) \in Nat /\ Len(d) \in Nat
        BY <1>4
      <4> QED
        BY ONLY <2>2, <4>1
    <3> QED
      BY <1>2, <1>7, <3>1
  <2> QED
    BY <1>1, <1>5, <1>6, <2>1, <2>2
<1>9. Ids(u, "insert") = add /\ Ids(u, "delete") = remove
  <2>1. \A x : x \in Ids(u, "insert") <=> x \in add
    BY <1>1, <1>6, <1>8 DEF Ids
  <2>2. \A x : x \in Ids(u, "delete") <=> x \in remove
    BY <1>2, <1>7, <1>8 DEF Ids
  <2> QED
    BY <2>1, <2>2
<1>10. /\ Transaction(i \o d) \in Seq(Statement) /\ Transaction(i \o d) # <<>>
       /\ Head(Transaction(i \o d)) = Do("begin") /\ Tail(Transaction(i \o d)) = u
  BY <1>4, TransactionIs DEF u
<1>11. Do("begin").do = "begin"
  BY DEF Do
<1> DEFINE t == Transaction(i \o d)
<1> HIDE DEF Do, t
<1>12. \A s : Ids(t, s) = (IF Head(t).do = s THEN Head(t).id ELSE {}) \cup Ids(Tail(t), s)
  BY <1>10, IdsAre DEF t
<1>13. Ids(t, "insert") = add /\ Ids(t, "delete") = remove
  BY <1>9, <1>10, <1>11, <1>12 DEF t
<1> QED
  BY <1>3, <1>13 DEF t

(* A call that is under way has not thrown, and was made by JavaScript. *)
CallInv == \A a \in Adapter :
    /\ call[a].todo # <<>> => call[a].ok
    /\ app[a].status = "none" => call[a].op = "none"

LEMMA StatementCalls ==
    ASSUME FileInv, NEW a \in Adapter, Execute(a)
    PROVE  /\ call[a].todo # <<>> /\ call'[a].op = call[a].op /\ app' = app
           /\ call'[a].ok = call[a].ok \/ call'[a].todo = <<>>
<1>1. TypeOK /\ call \in [Adapter -> NativeCalls]
  BY TypeIs DEF FileInv
<1>2. call[a].todo # <<>> /\ app' = app
  BY DEF Execute, Begin, Update, Commit, Vacuum, ReadVersion, Select, Row, Fail,
         CanExecute, Running
<1>3. CASE Begin(a) \/ Commit(a) \/ Vacuum(a)
  BY <1>1, <1>2, <1>3, AdvanceIs DEF Begin, Commit, Vacuum
<1>4. CASE Update(a)
  <2> DEFINE i == call[a].add \cup (IF Now(a).do = "insert" THEN Now(a).id ELSE {})
             d == call[a].remove \cup (IF Now(a).do = "delete" THEN Now(a).id ELSE {})
             new == [call[a] EXCEPT !.todo = Tail(@), !.add = i, !.remove = d]
  <2>1. call' = [call EXCEPT ![a] = new]
    BY <1>1, <1>4, PartsAre DEF Update, Advance, NativeCalls
  <2>2. new.ok = call[a].ok /\ new.op = call[a].op
    BY <1>1, PartsAre DEF NativeCalls
  <2> HIDE DEF new
  <2> QED
    BY <1>1, <1>2, <2>1, <2>2
<1>5. CASE ReadVersion(a)
  <2> DEFINE new == [Advance(a) EXCEPT !.read = file.version]
  <2>1. call' = [call EXCEPT ![a] = new] /\ Running(a)
    BY <1>5 DEF ReadVersion, CanExecute
  <2>2. new.ok = call[a].ok /\ new.op = call[a].op
    BY <1>1, <2>1, PartsAre DEF Advance, NativeCalls
  <2> HIDE DEF new
  <2> QED
    BY <1>1, <1>2, <2>1, <2>2
<1>6. CASE Select(a) \/ Row(a) \/ Fail(a)
  BY ZenonT(60), <1>2, <1>6, SelectIs, RowIs, FailIs
<1> QED
  BY <1>3, <1>4, <1>5, <1>6 DEF Execute

LEMMA CallStep == FileInv /\ CallInv /\ [Next]_vars => CallInv'
<1> SUFFICES ASSUME FileInv, CallInv, [Next]_vars PROVE CallInv'
  OBVIOUS
<1>1. TypeOK /\ app \in [Adapter -> Scripts]
  BY TypeIs DEF FileInv
<1>2. ASSUME NEW a \in Adapter, Stays(a), call'[a].todo # <<>> => call'[a].ok,
             app'[a].status = "none" => call'[a].op = "none"
      PROVE  CallInv'
  BY <1>2 DEF CallInv, Stays
<1>3. CASE UNCHANGED vars \/ Crash
  BY <1>3 DEF vars, Crash, CallInv, NoCall, NoApp
<1>4. ASSUME NEW a \in Adapter, Execute(a) PROVE CallInv'
  BY <1>2, <1>4, StaysIs, StatementCalls DEF CallInv
<1>5. ASSUME NEW a \in Adapter, Reload(a) \/ Destroy(a) PROVE CallInv'
  <2>1. Stays(a) /\ call' = call
    BY <1>5, StaysIs DEF Reload, Destroy
  <2>2. CASE Reload(a)
    BY <1>1, <1>2, <2>1, <2>2 DEF Reload, NoApp, CallInv
  <2>3. CASE Destroy(a)
    BY <1>1, <1>2, <2>1, <2>3 DEF Destroy, CallInv
  <2> QED
    BY <1>5, <2>2, <2>3
<1>6. ASSUME NEW a \in Adapter, Open(a) PROVE CallInv'
  <2> DEFINE t == <<Do("user_version")>>
  <2>1. "initialize" \in Ops /\ t \in Seq(Statement)
    BY StatementsAre DEF Statements, Ops
  <2>2. call'[a] = Started("initialize", t)
    BY <1>6, OpenIs
  <2> HIDE DEF t
  <2>3. call'[a].ok
    BY <2>1, <2>2, StartedIs
  <2> QED
    BY <1>6, <2>3, OpenIs DEF CallInv
<1>7. ASSUME NEW a \in Adapter, Initialized(a) \/ SetUp(a) \/ Answer(a) \/ AnswerNobody(a)
      PROVE  CallInv'
  <2>1. Returns(a) => call'[a].todo = <<>> /\ call'[a].op = "none"
    BY <1>1, ReturnsIs DEF NoCall
  <2>2. Stays(a)
    BY <1>7, StaysIs
  <2>3. CASE Initialized(a) /\ ~Returns(a)
    <3>1. call'[a].ok /\ app' = app /\ call[a].op = "initialize"
      BY <1>1, <2>3, SettingUpIs DEF Initialized, Asked, Answered
    <3> QED
      BY <1>2, <2>2, <3>1 DEF CallInv
  <2> QED
    BY <1>2, <1>7, <2>1, <2>2, <2>3 DEF SetUp, Answer, AnswerNobody
<1>8. ASSUME NEW a \in Adapter, \/ Find(a) \/ Query(a) \/ Batch(a) \/ ResetDatabase(a)
                                \/ TurboSync(a) \/ SetLastPulledAt(a)
      PROVE  CallInv'
  <2>1. Stays(a) /\ call'[a].ok
    BY <1>1, <1>8, StaysIs, FindIs, QueryIs, WritingCallIs DEF Asked
  <2>2. app'[a].status # "none"
    BY <1>1, <1>8
       DEF Find, Query, Batch, ResetDatabase, TurboSync, SetLastPulledAt, Idle, Scripts
  <2> QED
    BY <1>2, <2>1, <2>2
<1> QED
  BY <1>3, <1>4, <1>5, <1>6, <1>7, <1>8 DEF Next

(* A step that changes one call changes one request at most. *)
LEMMA RequestIs ==
    ASSUME NEW a \in Adapter, \A b \in Adapter \ {a} : call'[b] = call[b]
    PROVE  /\ Requests' = [Requests EXCEPT ![a] = Request(call'[a])]
           /\ Requests[a] = Request(call[a])
           /\ Request(call'[a]) = Request(call[a]) => Requests' = Requests
<1>1. /\ Requests' = [b \in Adapter |-> Request(call'[b])]
      /\ Requests = [b \in Adapter |-> Request(call[b])]
  BY DEF Requests
<1>2. \A b \in Adapter \ {a} : Request(call'[b]) = Request(call[b])
  OBVIOUS
<1> HIDE DEF Requests
<1> QED
  BY <1>1, <1>2

LEMMA RequestCases ==
    ASSUME NEW c
    PROVE  /\ c.op # "batch" =>
                Request(c) = [status |-> "none", add |-> {}, remove |-> {}]
           /\ c.op = "batch" /\ c.todo # <<>> =>
                Request(c) = [status |-> "asked", add |-> c.add \cup Ids(c.todo, "insert"),
                              remove |-> c.remove \cup Ids(c.todo, "delete")]
           /\ c.op = "batch" /\ c.todo = <<>> /\ c.ok =>
                Request(c) = [status |-> "written", add |-> {}, remove |-> {}]
           /\ c.op = "batch" /\ c.todo = <<>> /\ ~c.ok =>
                Request(c) = [status |-> "refused", add |-> {}, remove |-> {}]
  BY DEF Request

LEMMA NoBatchIs ==
    ASSUME NEW a \in Adapter, \A b \in Adapter \ {a} : call'[b] = call[b],
           call[a].op # "batch", call'[a].op # "batch"
    PROVE  Requests' = Requests
<1>1. /\ Request(call[a]) = [status |-> "none", add |-> {}, remove |-> {}]
      /\ Request(call'[a]) = [status |-> "none", add |-> {}, remove |-> {}]
  BY RequestCases
<1> QED
  BY <1>1, RequestIs

(* Every step is one of StoredDatabase or none. *)
Maps == Stored!Next \/ UNCHANGED <<file, Requests>>

LEMMA BeginMaps == ASSUME FileInv, NEW a \in Adapter, Begin(a) PROVE Maps
<1>1. /\ TypeOK /\ Running(a) /\ Now(a).do = "begin" /\ ~Refused(Content(a), Now(a))
      /\ call[a].todo \in Seq(Statement) /\ file' = file
  BY PartsAre DEF FileInv, Begin, CanExecute
<1>2. /\ \A b \in Adapter \ {a} : call'[b] = call[b]
      /\ call'[a].op = call[a].op /\ call'[a].todo = Tail(call[a].todo)
      /\ call'[a].add = call[a].add /\ call'[a].remove = call[a].remove
  BY <1>1, AdvanceIs DEF Begin
<1>3. CASE call[a].op = "batch"
  <2>1. BatchLeft(Tail(call[a].todo), {}, {})
    BY <1>1, <1>3, StatementsFit DEF Left, SchemaOps
  <2>2. call[a].todo # <<>> /\ call'[a].todo # <<>>
    BY <1>1, <1>2, <2>1 DEF BatchLeft, Ends, Running
  <2>3. /\ Ids(call'[a].todo, "insert") = Ids(call[a].todo, "insert")
        /\ Ids(call'[a].todo, "delete") = Ids(call[a].todo, "delete")
    <3>1. \A s : Ids(call[a].todo, s) =
                    (IF Now(a).do = s THEN Now(a).id ELSE {}) \cup Ids(Tail(call[a].todo), s)
      BY <1>1, <2>2, IdsAre DEF Now
    <3> QED
      BY <1>1, <1>2, <3>1
  <2>4. Request(call'[a]) = Request(call[a])
    BY ZenonT(60), <1>2, <1>3, <2>2, <2>3, RequestCases
  <2> QED
    BY <1>1, <1>2, <2>4, RequestIs DEF Maps
<1>4. CASE call[a].op # "batch"
  BY <1>1, <1>2, <1>4, RequestIs, RequestCases DEF Maps
<1> QED
  BY <1>3, <1>4

LEMMA UpdateMaps == ASSUME FileInv, NEW a \in Adapter, Update(a) PROVE Maps
<1>1. /\ TypeOK /\ FileInv' /\ Running(a) /\ call[a].todo \in Seq(Statement) /\ file' = file
      /\ call \in [Adapter -> NativeCalls] /\ conn \in [Adapter -> Connections]
      /\ conn[a].inTransaction
  BY PartsAre, TypeIs, UpdateKeeps DEF FileInv, Update
<1> DEFINE i == IF Now(a).do = "insert" THEN Now(a).id ELSE {}
           d == IF Now(a).do = "delete" THEN Now(a).id ELSE {}
           new == [call[a] EXCEPT !.todo = Tail(@), !.add = @ \cup i, !.remove = @ \cup d]
<1>2. call' = [call EXCEPT ![a] = new]
  BY <1>1, PartsAre DEF Update, Advance, NativeCalls
<1> HIDE DEF i, d
<1>3. /\ new.op = call[a].op /\ new.todo = Tail(call[a].todo)
      /\ new.add = call[a].add \cup i /\ new.remove = call[a].remove \cup d
  BY <1>1, PartsAre DEF NativeCalls
<1> HIDE DEF new
<1>4. /\ \A b \in Adapter \ {a} : call'[b] = call[b]
      /\ call'[a] = new
  BY <1>1, <1>2
<1>5. conn'[a].inTransaction
  BY <1>1 DEF Update, Connections
<1>6. call'[a].todo # <<>>
  <2>1. Work(call'[a], file', conn'[a].work)
    BY <1>1, <1>5 DEF FileInv, CallIsSound
  <2> QED
    BY <2>1, WorkGoesOn
<1>7. /\ Ids(call[a].todo, "insert") = i \cup Ids(new.todo, "insert")
      /\ Ids(call[a].todo, "delete") = d \cup Ids(new.todo, "delete")
  BY <1>1, <1>3, IdsAre DEF Running, Now, i, d
<1>8. Request(new) = Request(call[a])
  <2>1. /\ new.add \cup Ids(new.todo, "insert") = call[a].add \cup Ids(call[a].todo, "insert")
        /\ new.remove \cup Ids(new.todo, "delete") = call[a].remove \cup Ids(call[a].todo, "delete")
    BY <1>3, <1>7
  <2> QED
    BY ZenonT(60), <1>1, <1>3, <1>4, <1>6, <2>1, RequestCases DEF Running
<1> QED
  BY <1>1, <1>4, <1>8, RequestIs DEF Maps

LEMMA CommitMaps == ASSUME FileInv, CallInv, NEW a \in Adapter, Commit(a) PROVE Maps
<1>1. /\ TypeOK /\ Running(a) /\ Now(a).do = "commit" /\ CallIsSound(a)
      /\ call[a].todo \in Seq(Statement) /\ call[a].ok
      /\ conn[a].inTransaction /\ Tail(call[a].todo) = <<>>
  BY PartsAre, CommitKeeps DEF FileInv, Commit, CanExecute, CallInv, Running
<1>2. /\ \A b \in Adapter \ {a} : call'[b] = call[b]
      /\ call'[a].op = call[a].op /\ call'[a].todo = <<>> /\ call'[a].ok
  BY <1>1, AdvanceIs DEF Commit
<1>3. IF call[a].op = "batch"
      THEN /\ call[a].add \cap file.rows = {}
           /\ call[a].add \cup call[a].remove # {} => file.tables # 0
           /\ file' = [file EXCEPT !.rows = (@ \cup call[a].add) \ call[a].remove]
      ELSE Stored!OtherCall
  BY <1>1, CommitIs DEF Commit, Now
<1>4. CASE call[a].op = "batch"
  <2>1. \A s \in {"insert", "delete"} : Ids(call[a].todo, s) = {}
    BY <1>1, IdsAre, NoIds DEF Running, Now
  <2>2. Requests[a] = [status |-> "asked", add |-> call[a].add, remove |-> call[a].remove]
    <3>1. /\ call[a].add \cup Ids(call[a].todo, "insert") = call[a].add
          /\ call[a].remove \cup Ids(call[a].todo, "delete") = call[a].remove
      BY <2>1
    <3>2. Request(call[a]) = [status |-> "asked", add |-> call[a].add, remove |-> call[a].remove]
      BY <1>1, <1>4, <3>1, RequestCases DEF Running
    <3> QED
      BY <1>2, <3>2, RequestIs
  <2>3. Requests' = [Requests EXCEPT ![a] = [status |-> "written", add |-> {}, remove |-> {}]]
    BY <1>2, <1>4, RequestIs, RequestCases
  <2>4. Stored!Write(a)
    BY <1>3, <1>4, <2>2, <2>3 DEF Stored!Write, Stored!Bare
  <2> QED
    BY <2>4 DEF Stored!Next, Maps
<1>5. CASE call[a].op # "batch"
  <2>1. Requests' = Requests
    BY <1>2, <1>5, RequestIs, RequestCases
  <2> QED
    BY <1>3, <1>5, <2>1 DEF Stored!Next, Maps
<1> QED
  BY <1>4, <1>5

LEMMA VacuumMaps == ASSUME FileInv, NEW a \in Adapter, Vacuum(a) PROVE Maps
<1>1. /\ TypeOK /\ Running(a) /\ Now(a).do = "vacuum" /\ ~Refused(Content(a), Now(a))
  BY DEF FileInv, Vacuum, CanExecute
<1>2. Stored!OtherCall
  BY <1>1 DEF Vacuum, Effect, Stored!OtherCall, Stored!Erase, Empty, Stored!Empty
<1>3. call[a].op # "batch"
  BY <1>1, StatementsFit DEF SchemaOps
<1>4. /\ \A b \in Adapter \ {a} : call'[b] = call[b]
      /\ call'[a].op = call[a].op
  BY <1>1, AdvanceIs DEF Vacuum
<1>5. Requests' = Requests
  BY <1>3, <1>4, NoBatchIs
<1> QED
  BY <1>2, <1>5 DEF Stored!Next, Maps

(* The steps of the calls that are no batch, and neither write. *)
LEMMA ReadingMaps ==
    ASSUME NEW a \in Adapter, \A b \in Adapter \ {a} : call'[b] = call[b],
           call[a].op # "batch", call'[a].op # "batch", file' = file
    PROVE  Maps
  BY NoBatchIs DEF Maps

LEMMA ExecuteMaps == ASSUME FileInv, CallInv, NEW a \in Adapter, Execute(a) PROVE Maps
<1>1. CASE ReadVersion(a)
  <2>1. call[a].op = "initialize" /\ file' = file
    BY <1>1, StatementsFit DEF ReadVersion, CanExecute
  <2>2. call'[a].op = call[a].op
    <3> DEFINE new == [Advance(a) EXCEPT !.read = file.version]
    <3>1. call' = [call EXCEPT ![a] = new] /\ Running(a)
      BY <1>1 DEF ReadVersion, CanExecute
    <3>2. new.op = call[a].op
      BY <3>1, PartsAre DEF FileInv, Advance, NativeCalls
    <3> HIDE DEF new
    <3> QED
      BY <3>1, <3>2, TypeIs DEF FileInv
  <2> QED
    BY <1>1, <2>1, <2>2, StaysIs, ReadingMaps DEF Execute, Stays
<1>2. CASE Select(a) \/ Row(a)
  <2>1. call[a].op \in {"find", "query", "count"} /\ call'[a].op = call[a].op /\ file' = file
    BY <1>2, SelectIs, RowIs
  <2> QED
    BY <1>2, <2>1, StaysIs, ReadingMaps DEF Execute, Stays
<1>3. CASE Fail(a)
  <2>1. /\ \A b \in Adapter \ {a} : call'[b] = call[b]
        /\ call'[a].op = call[a].op /\ call'[a].todo = <<>> /\ ~call'[a].ok
        /\ file' = file /\ call[a].todo # <<>>
    BY <1>3, FailIs DEF Fail, Running
  <2>2. CASE call[a].op = "batch"
    <3>1. Requests[a].status = "asked"
      BY <2>1, <2>2, RequestIs, RequestCases
    <3>2. Requests' = [Requests EXCEPT ![a] = [status |-> "refused", add |-> {}, remove |-> {}]]
      BY <2>1, <2>2, RequestIs, RequestCases
    <3>3. Stored!Refuse(a)
      BY <2>1, <3>1, <3>2 DEF Stored!Refuse, Stored!Bare
    <3> QED
      BY <3>3 DEF Stored!Next, Maps
  <2> QED
    BY <2>1, <2>2, ReadingMaps
<1> QED
  BY <1>1, <1>2, <1>3, BeginMaps, UpdateMaps, CommitMaps, VacuumMaps DEF Execute

(* A batch is asked for by JavaScript: the records it creates and destroys. *)
LEMMA BatchMaps == ASSUME FileInv, NEW a \in Adapter, Batch(a) PROVE Maps
<1>1. TypeOK /\ call[a].op = "none" /\ file' = file
  BY DEF FileInv, Batch, Idle
<1>2. PICK add \in SUBSET (Id \ app[a].known), remove \in SUBSET app[a].known :
        Calls(a, "batch", Written(add, remove))
  BY DEF Batch
<1>3. add \in SUBSET Id /\ remove \in SUBSET Id /\ add \cap remove = {}
  BY <1>1, PartsAre DEF Scripts
<1>4. Written(add, remove) \in Seq(Statement) /\ Written(add, remove) # <<>> /\ "batch" \in Ops
  BY <1>3, WrittenIs DEF Ops
<1>5. /\ \A b \in Adapter \ {a} : call'[b] = call[b]
      /\ call'[a].op = "batch" /\ call'[a].todo = Written(add, remove)
      /\ call'[a].add = {} /\ call'[a].remove = {}
  BY <1>1, <1>2, <1>4, CallsAre, StartedIs
<1>6. Request(call'[a]) = [status |-> "asked", add |-> add, remove |-> remove]
  <2>1. /\ Ids(call'[a].todo, "insert") = add /\ Ids(call'[a].todo, "delete") = remove
        /\ call'[a].todo # <<>>
    BY <1>3, <1>4, <1>5, WrittenAsks
  <2>2. {} \cup add = add /\ {} \cup remove = remove
    OBVIOUS
  <2> QED
    BY <1>5, <2>1, <2>2, RequestCases
<1>7. Requests[a].status = "none"
  BY <1>1, <1>5, RequestIs, RequestCases
<1>8. Requests' = [Requests EXCEPT ![a] = [status |-> "asked", add |-> add, remove |-> remove]]
  BY <1>5, <1>6, RequestIs
<1>9. Stored!Ask(a)
  BY <1>1, <1>3, <1>7, <1>8 DEF Stored!Ask
<1> QED
  BY <1>9 DEF Stored!Next, Maps

LEMMA AnswerMaps ==
    ASSUME FileInv, NEW a \in Adapter, Answer(a) \/ AnswerNobody(a) PROVE Maps
<1>1. /\ call[a].todo = <<>> /\ call'[a] = NoCall /\ file' = file
      /\ \A b \in Adapter \ {a} : call'[b] = call[b]
  BY ReturnsIs DEF FileInv, Answer, AnswerNobody, Answered
<1>2. CASE call[a].op = "batch"
  <2>1. Requests[a].status \in {"written", "refused"}
    BY <1>1, <1>2, RequestIs, RequestCases
  <2>2. Requests' = [Requests EXCEPT ![a] = [status |-> "none", add |-> {}, remove |-> {}]]
    BY <1>1, RequestIs, RequestCases DEF NoCall
  <2>3. Stored!Return(a)
    BY <1>1, <2>1, <2>2 DEF Stored!Return, Stored!Bare
  <2> QED
    BY <2>3 DEF Stored!Next, Maps
<1> QED
  BY <1>1, <1>2, ReadingMaps DEF NoCall

LEMMA WholeStep == FileInv /\ CallInv /\ [Next]_vars => [Stored!Next]_<<file, Requests>>
<1> SUFFICES ASSUME FileInv, CallInv, [Next]_vars PROVE Maps
  BY DEF Maps
<1>1. TypeOK
  BY DEF FileInv
<1>2. CASE UNCHANGED vars
  BY <1>2 DEF vars, Maps, Requests
<1>3. CASE Crash
  <2>1. Requests' = [a \in Adapter |-> [status |-> "none", add |-> {}, remove |-> {}]]
    <3>1. Requests' = [a \in Adapter |-> Request(call'[a])]
      BY DEF Requests
    <3>2. \A a \in Adapter : Request(call'[a]) = [status |-> "none", add |-> {}, remove |-> {}]
      BY <1>3, RequestCases DEF Crash, NoCall
    <3> HIDE DEF Requests
    <3> QED
      BY <3>1, <3>2
  <2> QED
    BY <1>3, <2>1 DEF Crash, Stored!Crash, Stored!Bare, Stored!Next, Maps
<1>4. ASSUME NEW a \in Adapter, Reload(a) \/ Destroy(a) PROVE Maps
  BY <1>4 DEF Reload, Destroy, Maps, Requests
<1>5. ASSUME NEW a \in Adapter, Open(a) PROVE Maps
  <2>1. call[a].op = "none"
    BY <1>5 DEF Open, CallInv
  <2> QED
    BY <1>5, <2>1, OpenIs, ReadingMaps
<1>6. ASSUME NEW a \in Adapter, Initialized(a) \/ SetUp(a) PROVE Maps
  <2>1. /\ \A b \in Adapter \ {a} : call'[b] = call[b]
        /\ call[a].op # "batch" /\ file' = file
    BY <1>6, StaysIs DEF Stays, Initialized, SetUp, Answered
  <2>2. call'[a].op # "batch"
    BY <1>1, <1>6, SettingUpIs, ReturnsIs DEF Initialized, SetUp, NoCall
  <2> QED
    BY <2>1, <2>2, ReadingMaps
<1>7. ASSUME NEW a \in Adapter,
             Find(a) \/ Query(a) \/ ResetDatabase(a) \/ TurboSync(a) \/ SetLastPulledAt(a)
      PROVE  Maps
  <2>1. /\ \A b \in Adapter \ {a} : call'[b] = call[b]
        /\ call[a].op = "none" /\ file' = file
    BY <1>7, StaysIs
       DEF Stays, Find, Query, ResetDatabase, TurboSync, SetLastPulledAt, Idle
  <2>2. call'[a].op # "batch"
    <3>1. CASE Find(a) \/ Query(a)
      BY <1>1, <3>1, FindIs, QueryIs
    <3>2. CASE ResetDatabase(a)
      <4>1. Reset(version) \in Seq(Statement) /\ "unsafeResetDatabase" \in Ops
        BY <1>1, PlansAre, TypeIs DEF Ops
      <4> QED
        BY <1>1, <3>2, <4>1, CallsAre, StartedIs DEF ResetDatabase
    <3>3. CASE TurboSync(a)
      <4>1. "unsafeLoadFromSync" \in Ops
        BY DEF Ops
      <4> QED
        BY <1>1, <3>3, <4>1, LoadIs, CallsAre, StartedIs DEF TurboSync
    <3>4. CASE SetLastPulledAt(a)
      <4>1. /\ Transaction(<<Do("setPulled")>>) \in Seq(Statement)
            /\ "setLastPulledAt" \in Ops
        BY <1>1, PlansAre, TypeIs DEF Ops
      <4> QED
        BY <1>1, <3>4, <4>1, CallsAre, StartedIs DEF SetLastPulledAt
    <3> QED
      BY <1>7, <3>1, <3>2, <3>3, <3>4
  <2> QED
    BY <2>1, <2>2, ReadingMaps
<1> QED
  BY <1>2, <1>3, <1>4, <1>5, <1>6, <1>7, ExecuteMaps, BatchMaps, AnswerMaps DEF Next

(* The file always holds the effect of whole calls, one after another, also of
   those that fail, are cut off by a crash, or run beside another connection.  Of a
   batch it holds all the records asked for, from one step on, or none; and it is
   answered as written in the first case only, as refused in the second.     *)
THEOREM WholeCalls == Spec => ImplementsStoredDatabase
<1>1. Init => Stored!Init /\ CallInv
  <2> SUFFICES ASSUME Init PROVE Stored!Init /\ CallInv
    OBVIOUS
  <2>1. Requests = [a \in Adapter |-> [status |-> "none", add |-> {}, remove |-> {}]]
    BY RequestCases DEF Init, Requests, NoCall
  <2> QED
    BY <2>1 DEF Init, Stored!Init, Empty, Stored!Empty, Stored!Bare, CallInv, NoCall
<1>2. FileInv /\ CallInv /\ [Next]_vars => CallInv'
  BY CallStep
<1>3. FileInv /\ CallInv /\ [Next]_vars => [Stored!Next]_<<file, Requests>>
  BY WholeStep
<1> QED
  BY <1>1, <1>2, <1>3, FileAlways, PTL DEF Spec, ImplementsStoredDatabase, Stored!Spec

-----------------------------------------------------------------------------
(* The cache of the native side, and the JavaScript that it is the image of. *)

LEMMA OthersAreKnown ==
    ASSUME CacheInv, NEW a \in Adapter, Stays(a), Scripted(a)' => CacheIsKnown(a)',
           app'[a].status = "none" => call'[a].op = "none"
    PROVE  CacheInv'
<1>1. ASSUME NEW b \in Adapter, b # a, Scripted(b)' PROVE CacheIsKnown(b)'
  BY <1>1 DEF CacheInv, Stays, Scripted, CacheIsKnown
<1>2. ASSUME NEW b \in Adapter, b # a, app'[b].status = "none" PROVE call'[b].op = "none"
  BY <1>2 DEF CacheInv, Stays
<1> QED
  BY <1>1, <1>2 DEF CacheInv

(* Statements of transactions. *)
LEMMA BeginCaches ==
    ASSUME FileInv, NEW a \in Adapter, CacheIsKnown(a), Begin(a)
    PROVE  CacheIsKnown(a)'
<1>1. /\ TypeOK /\ Running(a) /\ Now(a).do = "begin" /\ ~Refused(Content(a), Now(a))
      /\ file \in Files /\ UNCHANGED app /\ call' = [call EXCEPT ![a] = Advance(a)]
  BY TypeIs DEF FileInv, Begin, CanExecute
<1>2. /\ call[a].op \in WritingOps /\ call[a].add = {} /\ call[a].remove = {}
      /\ Left(call[a].op, Tail(call[a].todo))
  BY <1>1, StatementsFit
<1>3. call'[a].op = call[a].op /\ call'[a].todo # <<>> /\ call'[a].ok = call[a].ok
  <2>1. /\ call'[a].op = call[a].op /\ call'[a].todo = Tail(call[a].todo)
        /\ call'[a].ok = call[a].ok
        /\ call'[a].add = {} /\ call'[a].remove = {}
    BY <1>1, <1>2, AdvanceIs
  <2>2. Work(call'[a], file, file)
    BY <1>1, <1>2, <2>1, WorkStarts
  <2> QED
    BY <2>1, <2>2, WorkGoesOn
<1> DEFINE new == [conn[a] EXCEPT !.inTransaction = TRUE, !.work = file,
                      !.cached = IF call[a].op \in {"setUpWithSchema", "unsafeResetDatabase"}
                                 THEN {} ELSE @]
<1>4. conn' = [conn EXCEPT ![a] = new]
  BY DEF Begin
<1>5. new.cached = IF call[a].op \in SchemaOps THEN {} ELSE conn[a].cached
  BY <1>1, TypeIs DEF SchemaOps, Connections
<1> HIDE DEF new
<1>6. conn'[a].cached = IF call[a].op \in SchemaOps THEN {} ELSE conn[a].cached
  BY <1>1, <1>4, <1>5, TypeIs
<1>7. call[a].todo # <<>>
  BY <1>1 DEF Running
<1> QED
  BY <1>1, <1>2, <1>3, <1>6, <1>7 DEF CacheIsKnown, WritingOps, SchemaOps

LEMMA UpdateCaches ==
    ASSUME FileInv, NEW a \in Adapter, CacheIsKnown(a), Update(a)
    PROVE  CacheIsKnown(a)'
<1>1. /\ TypeOK /\ Running(a) /\ conn[a].inTransaction /\ UNCHANGED app
  BY DEF FileInv, Update
<1>2. FileInv'
  BY UpdateKeeps
<1>3. /\ conn'[a].cached = conn[a].cached /\ conn'[a].inTransaction = TRUE
  BY <1>1, TypeIs DEF Update, Connections
<1>4. call'[a].todo # <<>>
  BY <1>2, <1>3, WorkGoesOn DEF FileInv, CallIsSound
<1>5. call'[a].op = call[a].op /\ call'[a].ok = call[a].ok
  BY <1>1, TypeIs, PartsAre DEF Update, Advance, NativeCalls
<1>6. call[a].op \in WritingOps /\ call[a].todo # <<>>
  BY <1>1 DEF FileInv, CallIsSound, Running
<1> QED
  BY <1>1, <1>3, <1>4, <1>5, <1>6 DEF CacheIsKnown, WritingOps, SchemaOps

LEMMA CommitCaches ==
    ASSUME FileInv, NEW a \in Adapter, CacheIsKnown(a), Commit(a)
    PROVE  CacheIsKnown(a)'
<1>1. /\ TypeOK /\ Running(a) /\ UNCHANGED app /\ call' = [call EXCEPT ![a] = Advance(a)]
      /\ conn[a].inTransaction /\ Tail(call[a].todo) = <<>>
  BY CommitKeeps DEF FileInv, Commit, CanExecute
<1>2. /\ call'[a].op = call[a].op /\ call'[a].todo = <<>>
      /\ call'[a].add = call[a].add /\ call'[a].remove = call[a].remove
  BY <1>1, AdvanceIs
<1> DEFINE new == [conn[a] EXCEPT !.inTransaction = FALSE, !.work = Empty,
                      !.cached = IF call[a].op = "batch"
                                 THEN (@ \cup call[a].add) \ call[a].remove ELSE @]
<1>3. conn' = [conn EXCEPT ![a] = new]
  BY DEF Commit
<1>4. new.cached = IF call[a].op = "batch"
                   THEN (conn[a].cached \cup call[a].add) \ call[a].remove
                   ELSE conn[a].cached
  BY <1>1, TypeIs DEF Connections
<1> HIDE DEF new
<1>5. conn'[a].cached = IF call[a].op = "batch"
                        THEN (conn[a].cached \cup call[a].add) \ call[a].remove
                        ELSE conn[a].cached
  BY <1>1, <1>3, <1>4, TypeIs
<1>6. call[a].op \in WritingOps /\ call[a].todo # <<>>
  BY <1>1 DEF FileInv, CallIsSound, Running
<1>7. CASE call[a].op = "batch"
  <2>1. conn[a].cached \subseteq app[a].known
    BY <1>6, <1>7 DEF CacheIsKnown
  <2>2. conn'[a].cached \subseteq (app[a].known \cup call[a].add) \ call[a].remove
    BY <1>5, <1>7, <2>1
  <2>3. call'[a].ok = call[a].ok /\ call[a].ok
    BY <1>1, <1>6, AdvanceIs DEF CacheIsKnown
  <2>4. conn'[a].cached \subseteq (app'[a].known \cup call'[a].add) \ call'[a].remove
    BY <1>1, <1>2, <2>2
  <2> QED
    BY <1>2, <1>7, <2>3, <2>4 DEF CacheIsKnown, SchemaOps
<1>8. CASE call[a].op # "batch"
  BY <1>1, <1>2, <1>5, <1>6, <1>8 DEF CacheIsKnown, WritingOps, SchemaOps
<1> QED
  BY <1>7, <1>8


LEMMA VacuumCaches ==
    ASSUME FileInv, NEW a \in Adapter, CacheIsKnown(a), Vacuum(a)
    PROVE  CacheIsKnown(a)'
<1>1. /\ TypeOK /\ Running(a) /\ Now(a).do = "vacuum" /\ ~Refused(Content(a), Now(a))
      /\ UNCHANGED <<app, conn>> /\ call' = [call EXCEPT ![a] = Advance(a)]
  BY DEF FileInv, Vacuum, CanExecute
<1>2. /\ ~conn[a].inTransaction /\ call[a].op \in SchemaOps
      /\ Tail(call[a].todo) # <<>>
  BY <1>1, StatementsFit
<1>3. /\ call'[a].op = call[a].op /\ call'[a].todo # <<>> /\ call'[a].ok = call[a].ok
  BY <1>1, <1>2, AdvanceIs
<1> QED
  BY <1>1, <1>2, <1>3 DEF CacheIsKnown, SchemaOps, Running

LEMMA ReadVersionCaches ==
    ASSUME FileInv, NEW a \in Adapter, CacheIsKnown(a), ReadVersion(a)
    PROVE  CacheIsKnown(a)'
<1>1. /\ TypeOK /\ Running(a) /\ Now(a).do = "user_version" /\ ~Refused(Content(a), Now(a))
      /\ UNCHANGED <<conn, app>>
  BY DEF FileInv, ReadVersion, CanExecute
<1>2. call[a].op = "initialize" /\ Tail(call[a].todo) = <<>>
  BY <1>1, StatementsFit
<1>3. call'[a].op = "initialize" /\ call'[a].todo = <<>>
  BY <1>1, <1>2, PartsAre, TypeIs DEF ReadVersion, Advance, NativeCalls
<1> QED
  BY <1>1, <1>2, <1>3 DEF CacheIsKnown, SchemaOps

LEMMA SelectCaches ==
    ASSUME FileInv, NEW a \in Adapter, CacheIsKnown(a), Select(a)
    PROVE  CacheIsKnown(a)'
<1>1. call[a].todo # <<>> /\ call[a].todo # <<Do("row")>>
  BY DEF Select, CanExecute, Running, Now, Do
<1>2. call[a].ok
  BY <1>1 DEF CacheIsKnown
<1>3. CASE call[a].op = "find"
  <2>1. call[a].full = {} /\ conn[a].cached \subseteq app[a].known
    BY <1>1, <1>3 DEF CacheIsKnown
  <2> QED
    BY <1>2, <1>3, <2>1, SelectIs DEF CacheIsKnown, SchemaOps
<1>4. CASE call[a].op = "query"
  <2>1. call[a].full = {} /\ conn[a].cached \subseteq app[a].known
    BY <1>1, <1>4 DEF CacheIsKnown
  <2> QED
    BY <1>2, <1>4, <2>1, SelectIs DEF CacheIsKnown, SchemaOps
<1>5. CASE call[a].op = "count"
  BY <1>2, <1>5, SelectIs DEF CacheIsKnown, SchemaOps
<1> QED
  BY <1>3, <1>4, <1>5, SelectIs

LEMMA RowCaches ==
    ASSUME FileInv, NEW a \in Adapter, CacheIsKnown(a), Row(a)
    PROVE  CacheIsKnown(a)'
<1>1. call[a].todo # <<>> /\ call[a].op = "query"
  BY RowIs DEF Row, CanExecute, Running
<1>2. call[a].ok
  BY <1>1 DEF CacheIsKnown
<1> PICK id \in call[a].rows :
      /\ call'[a].rows = call[a].rows \ {id}
      /\ conn'[a].cached = conn[a].cached \cup {id}
      /\ \/ /\ id \in conn[a].cached
            /\ call'[a].full = call[a].full
            /\ call'[a].bare = call[a].bare \cup {id}
         \/ /\ id \notin conn[a].cached
            /\ call'[a].full = call[a].full \cup {id}
            /\ call'[a].bare = call[a].bare
  BY RowIs
<1>3. /\ conn[a].cached \subseteq app[a].known \cup call[a].full
      /\ call[a].bare \subseteq app[a].known /\ call[a].rows \cap call[a].full = {}
  BY <1>1 DEF CacheIsKnown
<1>4. /\ conn'[a].cached \subseteq app[a].known \cup call'[a].full
      /\ call'[a].bare \subseteq app[a].known /\ call'[a].rows \cap call'[a].full = {}
  <2>1. CASE id \in conn[a].cached /\ call'[a].full = call[a].full
             /\ call'[a].bare = call[a].bare \cup {id}
    <3>1. id \notin call[a].full
      BY <1>3
    <3>2. id \in app[a].known
      BY <1>3, <2>1, <3>1
    <3> QED
      BY <1>3, <2>1, <3>2
  <2>2. CASE id \notin conn[a].cached /\ call'[a].full = call[a].full \cup {id}
             /\ call'[a].bare = call[a].bare
    BY <1>3, <2>2
  <2> QED
    BY <2>1, <2>2
<1>5. /\ call'[a].op = "query" /\ call'[a].ok = call[a].ok /\ app' = app
      /\ call'[a].todo \in {<<>>, <<Do("row")>>}
  BY RowIs
<1> QED
  BY <1>2, <1>4, <1>5 DEF CacheIsKnown, SchemaOps

(* Only a row that cannot be read is noted and not sent. *)
LEMMA FailCaches ==
    ASSUME "row" \notin Faults, FileInv, NEW a \in Adapter, CacheIsKnown(a), Fail(a)
    PROVE  CacheIsKnown(a)'
<1>1. Now(a).do # "row"
  <2>1. ASSUME Now(a).do = "row" PROVE FALSE
    BY <2>1 DEF Fail, MayFail, Refused, Available
  <2> QED
    BY <2>1
<1>2. conn'[a].cached = conn[a].cached /\ call[a].todo # <<>> /\ call[a].op \notin SchemaOps
  BY <1>1, FailIs DEF NotedInVain, Fail, Running
<1>3. /\ call'[a].op = call[a].op /\ call'[a].todo = <<>> /\ ~call'[a].ok
      /\ call'[a].rows = {} /\ call'[a].full = call[a].full
      /\ call'[a].bare = call[a].bare /\ app' = app
  BY FailIs
<1>4. call[a].op \in {"find", "query"} => call[a].full = {}
  <2>1. ASSUME call[a].todo = <<Do("row")>> PROVE FALSE
    BY <1>1, <2>1 DEF Now, Do
  <2> QED
    BY <1>2, <2>1 DEF CacheIsKnown
<1> QED
  BY <1>2, <1>3, <1>4 DEF CacheIsKnown

(* Calls of JavaScript. *)
LEMMA InitializedCaches ==
    ASSUME FileInv, NEW a \in Adapter, CacheIsKnown(a), Initialized(a)
    PROVE  CacheIsKnown(a)'
<1>1. /\ TypeOK /\ call[a].op = "initialize" /\ call[a].todo = <<>> /\ UNCHANGED conn
  BY DEF FileInv, Initialized, Answered
<1>2. app'[a].known = app[a].known
  BY <1>1, TypeIs DEF Initialized, Scripts
<1>3. conn[a].cached \subseteq app[a].known /\ ~conn[a].inTransaction
  BY <1>1, NoWork DEF CacheIsKnown
<1>4. CASE Returns(a)
  <2>1. call'[a].op = "none" /\ call'[a].todo = <<>>
    BY <1>1, <1>4, ReturnsIs DEF NoCall
  <2> QED
    BY <1>1, <1>2, <1>3, <2>1 DEF CacheIsKnown, SchemaOps
<1>5. CASE \/ Calls(a, "setUpWithSchema", Reset(version))
           \/ Calls(a, "setUpWithMigrations", Migration(version))
  <2>1. /\ call'[a].op \in {"setUpWithSchema", "setUpWithMigrations"}
        /\ call'[a].todo # <<>> /\ call'[a].ok
    BY <1>1, <1>5, SettingUpIs DEF Asked
  <2> QED
    BY <1>1, <1>2, <1>3, <2>1 DEF CacheIsKnown, SchemaOps
<1> QED
  BY <1>4, <1>5 DEF Initialized

LEMMA SetUpCaches ==
    ASSUME FileInv, NEW a \in Adapter, CacheIsKnown(a), SetUp(a)
    PROVE  CacheIsKnown(a)'
<1>1. /\ TypeOK /\ call[a].op \in {"setUpWithSchema", "setUpWithMigrations"}
      /\ UNCHANGED conn
  BY DEF FileInv, SetUp, Answered
<1>2. app'[a].known = app[a].known
  BY <1>1, TypeIs DEF SetUp, Scripts
<1>3. call'[a].op = "none" /\ call'[a].todo = <<>>
  BY <1>1, ReturnsIs DEF SetUp, NoCall
<1> QED
  BY <1>1, <1>2, <1>3 DEF CacheIsKnown, SchemaOps

LEMMA AnswerCaches ==
    ASSUME FileInv, NEW a \in Adapter, CacheIsKnown(a), Answer(a)
    PROVE  CacheIsKnown(a)'
<1>1. /\ TypeOK /\ call[a].todo = <<>> /\ UNCHANGED conn /\ app[a] \in Scripts
      /\ call[a] \in NativeCalls
  BY TypeIs DEF FileInv, Answer, Answered
<1>2. call'[a].op = "none" /\ call'[a].todo = <<>>
  BY <1>1, ReturnsIs DEF Answer, NoCall
<1>3. PICK full \in Received(a) : app' = [app EXCEPT ![a] = Told(a, full)]
  BY DEF Answer
<1>4. app'[a] = Told(a, full)
  BY <1>1, <1>3, TypeIs
<1>5. conn[a].cached \subseteq Told(a, full).known
  <2>1. CASE call[a].op \in {"find", "query"}
    <3>1. full = call[a].full
      BY <2>1 DEF Received, CacheIsKnown
    <3>2. CASE call[a].ok
      <4>1. Told(a, full).known = app[a].known \cup call[a].full
        BY <1>1, <2>1, <3>1, <3>2 DEF Told, Scripts
      <4> QED
        BY <2>1, <4>1 DEF CacheIsKnown
    <3>3. CASE ~call[a].ok
      <4>1. Told(a, full) = app[a] /\ call[a].full = {}
        BY <2>1, <3>3 DEF Told, CacheIsKnown
      <4> QED
        BY <2>1, <4>1 DEF CacheIsKnown
    <3> QED
      BY <3>2, <3>3
  <2>2. CASE call[a].op = "batch"
    <3>1. Told(a, full).known = IF call[a].ok
                                THEN (app[a].known \cup call[a].add) \ call[a].remove
                                ELSE app[a].known
      BY <1>1, <2>2 DEF Told, Scripts
    <3> QED
      BY <1>1, <2>2, <3>1 DEF CacheIsKnown
  <2>3. CASE call[a].op = "unsafeResetDatabase"
    BY <1>1, <2>3 DEF CacheIsKnown, SchemaOps
  <2>4. CASE call[a].op \notin {"find", "query", "batch", "unsafeResetDatabase"}
    <3>1. Told(a, full).known = app[a].known
      BY <1>1, <2>4 DEF Told, Scripts
    <3> QED
      BY <2>4, <3>1 DEF CacheIsKnown
  <2> QED
    BY <2>1, <2>2, <2>3, <2>4
<1> QED
  BY <1>1, <1>2, <1>4, <1>5 DEF CacheIsKnown, SchemaOps

LEMMA CallCaches ==
    ASSUME FileInv, NEW a \in Adapter, CacheIsKnown(a),
           \/ Find(a) \/ Query(a)
           \/ Batch(a) \/ ResetDatabase(a) \/ TurboSync(a) \/ SetLastPulledAt(a)
    PROVE  CacheIsKnown(a)'
<1>1. /\ TypeOK /\ call[a].op = "none" /\ UNCHANGED conn
  BY DEF FileInv, Find, Query, Batch, ResetDatabase, TurboSync, SetLastPulledAt, Idle
<1>2. /\ conn[a].cached \subseteq app[a].known /\ ~conn[a].inTransaction
  BY <1>1, IdleIs, NoWork DEF CacheIsKnown
<1>3. app'[a].known = app[a].known
  <2>1. CASE SetLastPulledAt(a)
    BY <1>1, <2>1, TypeIs DEF SetLastPulledAt, Scripts
  <2> QED
    BY <2>1 DEF Find, Query, Batch, ResetDatabase, TurboSync
<1>4. CASE Find(a)
  BY <1>1, <1>2, <1>3, <1>4, FindIs DEF CacheIsKnown, SchemaOps
<1>5. CASE Query(a)
  <2>1. /\ call'[a].op \in {"query", "count"} /\ call'[a].rows = {} /\ call'[a].full = {}
        /\ call'[a].bare = {} /\ call'[a].ok
    BY <1>1, <1>5, QueryIs DEF Asked
  <2> QED
    BY <1>1, <1>2, <1>3, <2>1 DEF CacheIsKnown, SchemaOps
<1>6. CASE Batch(a) \/ ResetDatabase(a) \/ TurboSync(a) \/ SetLastPulledAt(a)
  <2>1. /\ call'[a].op \in WritingOps /\ call'[a].todo # <<>> /\ call'[a].ok
    BY <1>1, <1>6, WritingCallIs DEF Asked
  <2> QED
    BY <1>1, <1>2, <1>3, <2>1 DEF CacheIsKnown, WritingOps, SchemaOps
<1> QED
  BY <1>4, <1>5, <1>6

LEMMA CacheStep ==
    ASSUME "row" \notin Faults, FileInv, CacheInv, [Next]_vars
    PROVE  CacheInv'
<1>1. CASE UNCHANGED vars
  <2>1. UNCHANGED <<conn, call, app>>
    BY <1>1 DEF vars
  <2> QED
    BY <2>1 DEF CacheInv, CacheIsKnown, Scripted
<1>2. CASE Crash
  BY <1>2 DEF Crash, CacheInv, Scripted, NoApp, NoCall
<1>3. ASSUME NEW a \in Adapter, Open(a) PROVE CacheInv'
  <2>1. ASSUME NEW b \in Adapter \ {a} PROVE ~Scripted(b)'
    BY <1>3, OpenIs DEF Scripted
  <2>3. /\ app'[a].status = "setup"
        /\ \A b \in Adapter \ {a} : app'[b].status = app[b].status /\ call'[b] = call[b]
    BY <1>3, OpenIs
  <2>2. CacheIsKnown(a)'
    <3>1. Started("initialize", <<Do("user_version")>>).ok
      BY DEF Started, NoCall
    <3> QED
      BY <1>3, <3>1, OpenIs DEF CacheIsKnown, SchemaOps
  <2> QED
    BY <2>1, <2>2, <2>3 DEF CacheInv
<1>4. ASSUME NEW a \in Adapter, Reload(a) \/ Destroy(a) \/ AnswerNobody(a) PROVE CacheInv'
  <2>1. app \in [Adapter -> Scripts] /\ Stays(a)
    BY <1>4, StaysIs, TypeIs DEF FileInv
  <2>2. CASE Reload(a)
    <3>1. app'[a].status = "gone"
      BY <2>1, <2>2 DEF Reload, NoApp
    <3> QED
      BY <2>1, <3>1, OthersAreKnown DEF Scripted
  <2>3. CASE Destroy(a)
    <3>1. app'[a].status = "none" /\ call'[a].op = "none"
      BY <2>1, <2>3 DEF Destroy, NoApp
    <3> QED
      BY <2>1, <3>1, OthersAreKnown DEF Scripted
  <2>4. CASE AnswerNobody(a)
    <3>1. app'[a].status = "gone"
      BY <2>4 DEF AnswerNobody
    <3> QED
      BY <2>1, <3>1, OthersAreKnown DEF Scripted
  <2> QED
    BY <1>4, <2>2, <2>3, <2>4
<1>5. ASSUME NEW a \in Adapter,
             \/ Execute(a) \/ Initialized(a) \/ SetUp(a) \/ Answer(a)
             \/ Find(a) \/ Query(a) \/ Batch(a) \/ ResetDatabase(a)
             \/ TurboSync(a) \/ SetLastPulledAt(a)
      PROVE  CacheInv'
  <2>1. /\ Stays(a) /\ app \in [Adapter -> Scripts]
        /\ call[a].todo # <<>> => call[a].op # "none"
    BY <1>5, StaysIs, IdleIs, TypeIs DEF FileInv
  <2>2. CASE Execute(a)
    <3>1. UNCHANGED app
      BY <2>2 DEF Execute, Begin, Update, Commit, Vacuum, ReadVersion, Select, Row, Fail
    <3>2. CacheIsKnown(a) => CacheIsKnown(a)'
      BY <2>2, BeginCaches, UpdateCaches, CommitCaches, VacuumCaches, ReadVersionCaches,
         SelectCaches, RowCaches, FailCaches DEF Execute
    <3>3. app[a].status # "none"
      <4>1. Running(a)
        BY <2>2 DEF Execute, Begin, Update, Commit, Vacuum, ReadVersion, Select, Row, Fail, CanExecute
      <4> QED
        BY <2>1, <4>1 DEF Running, CacheInv
    <3> QED
      BY <2>1, <3>1, <3>2, <3>3, OthersAreKnown DEF CacheInv, Scripted
  <2>3. CASE Initialized(a) \/ SetUp(a) \/ Answer(a)
    <3>1. Scripted(a)
      <4>1. call[a].op # "none" /\ app[a].status # "gone"
        BY <2>3 DEF Initialized, SetUp, Answer, Answered
      <4> QED
        BY <2>1, <4>1 DEF CacheInv, Scripted, Scripts
    <3>2. app'[a].status # "none"
      <4>1. CASE Initialized(a)
        BY <2>1, <3>1, <4>1 DEF Initialized, Scripted, Scripts
      <4>2. CASE SetUp(a)
        BY <2>1, <3>1, <4>2 DEF SetUp, Scripts
      <4>3. CASE Answer(a)
        <5>1. PICK full \in Received(a) : app' = [app EXCEPT ![a] = Told(a, full)]
          BY <4>3 DEF Answer
        <5>2. Told(a, full).status = app[a].status
          BY <2>1 DEF Told, Scripts
        <5> QED
          BY <2>1, <3>1, <5>1, <5>2 DEF Scripted
      <4> QED
        BY <2>3, <4>1, <4>2, <4>3
    <3> QED
      BY <2>1, <2>3, <3>1, <3>2, InitializedCaches, SetUpCaches, AnswerCaches, OthersAreKnown DEF CacheInv
  <2>4. CASE \/ Find(a) \/ Query(a) \/ Batch(a) \/ ResetDatabase(a)
             \/ TurboSync(a) \/ SetLastPulledAt(a)
    <3>1. Scripted(a)
      BY <2>4 DEF Find, Query, Batch, ResetDatabase, TurboSync, SetLastPulledAt, Idle, Scripted
    <3>2. app'[a].status # "none"
      <4>1. app'[a].status = app[a].status
        BY <2>1, <2>4 DEF Find, Query, Batch, ResetDatabase, TurboSync, SetLastPulledAt, Scripts
      <4> QED
        BY <3>1, <4>1 DEF Scripted
    <3> QED
      BY <2>1, <2>4, <3>1, <3>2, CallCaches, OthersAreKnown DEF CacheInv
  <2> QED
    BY <1>5, <2>2, <2>3, <2>4
<1> QED
  BY <1>1, <1>2, <1>3, <1>4, <1>5 DEF Next

(* The native side never takes JavaScript to have a record it was not given, as
   long as every row can be converted.                                       *)
THEOREM CacheIsDelivered ==
    ASSUME "row" \notin Faults
    PROVE  Spec => []CachedWasDelivered
<1>1. Init => CacheInv
  BY DEF Init, CacheInv, Scripted, NoApp, NoCall
<1>2. FileInv /\ CacheInv /\ [Next]_vars => CacheInv'
  BY CacheStep
<1>3. FileInv /\ CacheInv => CachedWasDelivered
  BY DEF CacheInv, CachedWasDelivered, Idle, Scripted, CacheIsKnown
<1> QED
  BY <1>1, <1>2, <1>3, FileAlways, PTL DEF Spec

-----------------------------------------------------------------------------
(* What a turbo sync has loaded, and the lastPulledAt that is stored behind it. *)

LEMMA OthersAreLoaded ==
    ASSUME LoadedInv, NEW a \in Adapter, Stays(a), AloneIsLoaded(a)',
           conn'[a].open => conn[a].open,
           file'.loaded \/ ~file.loaded \/ conn[a].open
    PROVE  LoadedInv'
<1>1. ASSUME NEW b \in Adapter, b # a PROVE AloneIsLoaded(b)'
  <2>1. AloneIsLoaded(b) /\ call'[b] = call[b] /\ conn'[b] = conn[b] /\ app'[b] = app[b]
    BY <1>1 DEF LoadedInv, Stays
  <2>2. ASSUME NEW c \in Adapter \ {b}, conn'[c].open PROVE conn[c].open
    BY <2>2 DEF Stays
  <2>3. conn[b].open /\ file.loaded /\ app[b].alone => file'.loaded
    BY <1>1, <2>1 DEF AloneIsLoaded
  <2> QED
    BY <2>1, <2>2, <2>3 DEF AloneIsLoaded
<1> QED
  BY <1>1 DEF LoadedInv

(* A statement: neither the JavaScript nor the connections that are open change. *)
LEMMA StatementLoads ==
    ASSUME LoadedInv, NEW a \in Adapter, Stays(a), UNCHANGED app,
           conn'[a].open = conn[a].open, call'[a].op = call[a].op,
           \/ file.loaded => file'.loaded
           \/ call[a].op \in SchemaOps /\ conn[a].open,
           \/ call[a].op # "unsafeLoadFromSync" \/ call'[a].todo # <<>> \/ ~call'[a].ok
           \/ conn[a].open /\ file'.loaded
    PROVE  LoadedInv'
<1>1. AloneIsLoaded(a)
  BY DEF LoadedInv
<1>2. \A b \in Adapter : conn'[b].open = conn[b].open
  BY DEF Stays
<1>3. AloneIsLoaded(a)'
  BY <1>1, <1>2 DEF AloneIsLoaded, SchemaOps
<1> QED
  BY <1>3, OthersAreLoaded

LEMMA ExecuteLoads ==
    ASSUME FileInv, FileInv', LoadedInv, NEW a \in Adapter, Execute(a)
    PROVE  LoadedInv'
<1>1. /\ TypeOK /\ Stays(a) /\ UNCHANGED app
      /\ conn \in [Adapter -> Connections]
  BY StaysIs, TypeIs
     DEF FileInv, Execute, Begin, Update, Commit, Vacuum, ReadVersion, Select, Row, Fail
<1>2. CASE Begin(a)
  <2>1. /\ call'[a].op = call[a].op /\ file' = file
        /\ conn'[a].open = conn[a].open /\ conn'[a].inTransaction
    BY <1>1, <1>2, AdvanceIs DEF Begin, Connections
  <2>2. call'[a].todo # <<>>
    <3>1. Work(call'[a], file', conn'[a].work)
      BY <2>1 DEF FileInv, CallIsSound
    <3> QED
      BY <3>1, WorkGoesOn
  <2> QED
    BY <1>1, <2>1, <2>2, StatementLoads
<1>3. CASE Update(a)
  <2>1. /\ file' = file /\ conn'[a].open = conn[a].open /\ conn'[a].inTransaction
    BY <1>1, <1>3 DEF Update, Connections
  <2>2. call'[a].op = call[a].op
    <3> DEFINE i == call[a].add \cup (IF Now(a).do = "insert" THEN Now(a).id ELSE {})
               d == call[a].remove \cup (IF Now(a).do = "delete" THEN Now(a).id ELSE {})
               new == [call[a] EXCEPT !.todo = Tail(@), !.add = i, !.remove = d]
    <3>1. call' = [call EXCEPT ![a] = new]
      BY <1>1, <1>3, PartsAre DEF Update, Advance, NativeCalls
    <3>2. new.op = call[a].op
      BY <1>1, PartsAre DEF NativeCalls
    <3> HIDE DEF new
    <3> QED
      BY <1>1, <3>1, <3>2, TypeIs
  <2>3. call'[a].todo # <<>>
    <3>1. Work(call'[a], file', conn'[a].work)
      BY <2>1 DEF FileInv, CallIsSound
    <3> QED
      BY <3>1, WorkGoesOn
  <2> QED
    BY <1>1, <2>1, <2>2, <2>3, StatementLoads
<1>4. CASE Commit(a)
  <2>1. /\ call'[a].op = call[a].op /\ conn[a].open
        /\ conn'[a].open = conn[a].open
    BY <1>1, <1>4, AdvanceIs DEF Commit, CanExecute, Connections
  <2>2. file'.loaded <=> file.loaded \/ call[a].op = "unsafeLoadFromSync"
    BY <1>4, CommitKeeps
  <2> QED
    BY <1>1, <2>1, <2>2, StatementLoads
<1>5. CASE Vacuum(a)
  <2>1. /\ call'[a].op = call[a].op /\ conn[a].open /\ conn' = conn
    BY <1>1, <1>5, AdvanceIs DEF Vacuum, CanExecute
  <2>2. call[a].op \in SchemaOps
    BY <1>5, StatementsFit DEF Vacuum, CanExecute
  <2> QED
    BY <1>1, <2>1, <2>2, StatementLoads DEF SchemaOps
<1>6. CASE ReadVersion(a)
  <2>1. call[a].op = "initialize"
    BY <1>6, StatementsFit DEF ReadVersion, CanExecute
  <2>2. file' = file /\ conn' = conn
    BY <1>6 DEF ReadVersion
  <2>3. call'[a].op = call[a].op
    <3> DEFINE new == [Advance(a) EXCEPT !.read = file.version]
    <3>1. call' = [call EXCEPT ![a] = new]
      BY <1>6 DEF ReadVersion
    <3>2. Running(a)
      BY <1>6 DEF ReadVersion, CanExecute
    <3>3. new.op = call[a].op
      BY <1>1, <3>2, PartsAre DEF Advance, NativeCalls
    <3> HIDE DEF new
    <3> QED
      BY <1>1, <3>1, <3>3, TypeIs
  <2> QED
    BY <1>1, <2>1, <2>2, <2>3, StatementLoads
<1>7. CASE Select(a) \/ Row(a)
  <2>1. /\ call[a].op \in {"find", "query", "count"} /\ call'[a].op = call[a].op
        /\ file' = file /\ conn'[a].open = conn[a].open
    BY <1>7, SelectIs, RowIs
  <2> QED
    BY <1>1, <2>1, StatementLoads
<1>8. CASE Fail(a)
  <2>1. /\ call'[a].op = call[a].op /\ ~call'[a].ok
        /\ file' = file /\ conn'[a].open = conn[a].open
    BY <1>8, FailIs
  <2> QED
    BY <1>1, <2>1, StatementLoads
<1> QED
  BY <1>2, <1>3, <1>4, <1>5, <1>6, <1>7, <1>8 DEF Execute

LEMMA OpenLoads ==
    ASSUME FileInv, LoadedInv, NEW a \in Adapter, Open(a)
    PROVE  LoadedInv'
<1>1. AloneIsLoaded(a)'
  BY OpenIs DEF AloneIsLoaded
<1>2. ASSUME NEW b \in Adapter, b # a PROVE AloneIsLoaded(b)'
  <2>1. /\ AloneIsLoaded(b) /\ call'[b] = call[b] /\ conn'[b] = conn[b]
        /\ app'[b].sync = app[b].sync /\ UNCHANGED file
        /\ app'[b].alone => app[b].alone /\ ~conn[b].open
    BY <1>2, OpenIs DEF LoadedInv
  <2> QED
    BY <2>1 DEF AloneIsLoaded
<1> QED
  BY <1>1, <1>2 DEF LoadedInv

(* The steps of JavaScript leave the file and the connections alone. *)
LEMMA ScriptLoads ==
    ASSUME LoadedInv, NEW a \in Adapter, Stays(a), UNCHANGED <<file, conn>>,
           app'[a].alone = app[a].alone,
           app[a].alone /\ app'[a].sync = "loaded" =>
             /\ call'[a].op \in {"none", "find", "query", "count"}
             /\ conn[a].open /\ file.loaded,
           app[a].alone /\ call'[a].op = "setLastPulledAt" => conn[a].open /\ file.loaded,
           app[a].alone /\ call'[a].op = "unsafeLoadFromSync" =>
             \/ call'[a].todo # <<>> \/ ~call'[a].ok
             \/ conn[a].open /\ file.loaded
    PROVE  LoadedInv'
<1>1. AloneIsLoaded(a)
  BY DEF LoadedInv
<1>2. AloneIsLoaded(a)'
  BY <1>1 DEF AloneIsLoaded
<1> QED
  BY <1>2, OthersAreLoaded

LEMMA AnswersLoad ==
    ASSUME FileInv, LoadedInv, NEW a \in Adapter,
           Initialized(a) \/ SetUp(a) \/ Answer(a) \/ AnswerNobody(a)
    PROVE  LoadedInv'
<1>1. /\ TypeOK /\ Stays(a) /\ UNCHANGED <<file, conn>> /\ AloneIsLoaded(a)
      /\ app \in [Adapter -> Scripts] /\ app[a] \in Scripts
  BY StaysIs, TypeIs DEF FileInv, LoadedInv, Initialized, SetUp, Answer, AnswerNobody
<1>2. Returns(a) => call'[a].op = "none"
  BY <1>1, ReturnsIs DEF NoCall
<1>3. CASE Initialized(a)
  <2>1. app'[a].alone = app[a].alone /\ app'[a].sync = app[a].sync
    BY <1>1, <1>3 DEF Initialized, Scripts
  <2>2. call[a].op = "initialize"
    BY <1>3 DEF Initialized, Answered
  <2>3. call'[a].op \in {"none", "setUpWithSchema", "setUpWithMigrations"}
    BY <1>1, <1>2, <1>3, SettingUpIs DEF Initialized
  <2>4. app[a].alone => app[a].sync # "loaded"
    BY <1>1, <2>2 DEF AloneIsLoaded
  <2> QED
    BY <1>1, <2>1, <2>3, <2>4, ScriptLoads
<1>4. CASE SetUp(a)
  <2>1. app'[a].alone = app[a].alone /\ app'[a].sync = app[a].sync
    BY <1>1, <1>4 DEF SetUp, Scripts
  <2>2. call'[a].op = "none"
    BY <1>2, <1>4 DEF SetUp
  <2> QED
    BY <1>1, <2>1, <2>2, ScriptLoads DEF AloneIsLoaded
<1>5. CASE Answer(a)
  <2>1. call'[a].op = "none" /\ call[a].todo = <<>>
    BY <1>2, <1>5 DEF Answer, Answered
  <2>2. PICK full \in Received(a) : app' = [app EXCEPT ![a] = Told(a, full)]
    BY <1>5 DEF Answer
  <2>3. app'[a] = Told(a, full)
    BY <1>1, <2>2
  <2>4. /\ Told(a, full).alone = app[a].alone
        /\ \/ Told(a, full).sync = app[a].sync
           \/ call[a].op = "unsafeLoadFromSync" /\ call[a].ok
    BY <1>1 DEF Told, Scripts
  <2>5. app[a].alone /\ app'[a].sync = "loaded" => conn[a].open /\ file.loaded
    BY <1>1, <2>1, <2>3, <2>4 DEF AloneIsLoaded
  <2> QED
    BY <1>1, <2>1, <2>3, <2>4, <2>5, ScriptLoads
<1>6. CASE AnswerNobody(a)
  <2>1. app' = app /\ call'[a].op = "none"
    BY <1>2, <1>6 DEF AnswerNobody
  <2> QED
    BY <1>1, <2>1, ScriptLoads DEF AloneIsLoaded
<1> QED
  BY <1>3, <1>4, <1>5, <1>6

LEMMA CallsLoad ==
    ASSUME FileInv, LoadedInv, NEW a \in Adapter,
           \/ Find(a) \/ Query(a) \/ Batch(a) \/ ResetDatabase(a)
           \/ TurboSync(a) \/ SetLastPulledAt(a)
    PROVE  LoadedInv'
<1>1. /\ TypeOK /\ Stays(a) /\ UNCHANGED <<file, conn>> /\ AloneIsLoaded(a)
      /\ app \in [Adapter -> Scripts]
  BY StaysIs, TypeIs
     DEF FileInv, LoadedInv, Find, Query, Batch, ResetDatabase, TurboSync, SetLastPulledAt
<1>2. CASE Find(a) \/ Query(a)
  <2>1. app' = app
    BY <1>2 DEF Find, Query
  <2>2. call'[a].op \in {"find", "query", "count"}
    BY <1>1, <1>2, FindIs, QueryIs
  <2> QED
    BY <1>1, <2>1, <2>2, ScriptLoads DEF AloneIsLoaded
<1>3. CASE Batch(a) \/ ResetDatabase(a) \/ TurboSync(a)
  <2>1. app' = app /\ app[a].sync = "idle"
    BY <1>3 DEF Batch, ResetDatabase, TurboSync
  <2>2. call'[a].todo # <<>>
    BY <1>1, <1>3, WritingCallIs
  <2>3. call'[a].op # "setLastPulledAt"
    <3>1. ~SetLastPulledAt(a)
      BY <2>1 DEF SetLastPulledAt
    <3> QED
      BY <1>1, <1>3, <3>1, WritingCallIs
  <2> QED
    BY <1>1, <2>1, <2>2, <2>3, ScriptLoads
<1>4. CASE SetLastPulledAt(a)
  <2>1. app'[a].sync = "idle" /\ app'[a].alone = app[a].alone /\ app[a].sync = "loaded"
    BY <1>1, <1>4 DEF SetLastPulledAt, Scripts
  <2>2. call'[a].todo # <<>>
    BY <1>1, <1>4, WritingCallIs
  <2> QED
    BY <1>1, <2>1, <2>2, ScriptLoads DEF AloneIsLoaded
<1> QED
  BY <1>2, <1>3, <1>4

LEMMA LoadedStep ==
    ASSUME FileInv, FileInv', LoadedInv, [Next]_vars
    PROVE  LoadedInv'
<1>1. CASE UNCHANGED vars
  <2>1. UNCHANGED <<file, conn, call, app>>
    BY <1>1 DEF vars
  <2> QED
    BY <2>1 DEF LoadedInv, AloneIsLoaded
<1>2. CASE Crash
  BY <1>2 DEF Crash, LoadedInv, AloneIsLoaded, NoApp, NoCall, NoConnection
<1>3. ASSUME NEW a \in Adapter, Reload(a) PROVE LoadedInv'
  <2>1. /\ TypeOK /\ Stays(a) /\ UNCHANGED <<file, conn, call>> /\ AloneIsLoaded(a)
        /\ app \in [Adapter -> Scripts]
    BY <1>3, StaysIs, TypeIs DEF FileInv, LoadedInv, Reload
  <2>2. app'[a].alone = app[a].alone /\ app'[a].sync = "idle"
    BY <1>3, <2>1 DEF Reload, NoApp
  <2> QED
    BY <2>1, <2>2, ScriptLoads DEF AloneIsLoaded
<1>4. ASSUME NEW a \in Adapter, Destroy(a) PROVE LoadedInv'
  <2>1. /\ Stays(a) /\ UNCHANGED <<file, call>>
        /\ app \in [Adapter -> Scripts] /\ conn \in [Adapter -> Connections]
    BY <1>4, StaysIs, TypeIs DEF FileInv, Destroy
  <2>2. /\ app'[a].sync = "idle" /\ ~conn'[a].open /\ call'[a].op = "none"
    BY <1>4, <2>1 DEF Destroy, NoApp, NoConnection
  <2>3. AloneIsLoaded(a)'
    BY <2>2 DEF AloneIsLoaded
  <2> QED
    BY <2>1, <2>2, <2>3, OthersAreLoaded
<1>5. ASSUME NEW a \in Adapter,
             \/ Execute(a) \/ Open(a)
             \/ Initialized(a) \/ SetUp(a) \/ Answer(a) \/ AnswerNobody(a)
             \/ Find(a) \/ Query(a) \/ Batch(a) \/ ResetDatabase(a)
             \/ TurboSync(a) \/ SetLastPulledAt(a)
      PROVE  LoadedInv'
  BY <1>5, ExecuteLoads, OpenLoads, AnswersLoad, CallsLoad
<1> QED
  BY <1>1, <1>2, <1>3, <1>4, <1>5 DEF Next

(* lastPulledAt is stored only when what the pull brought is in the file: also when
   the app is reloaded or dies in between, unless another connection was open. *)
THEOREM PulledIsLoaded == Spec => PulledImpliesLoaded
<1>1. Init => LoadedInv
  BY DEF Init, LoadedInv, AloneIsLoaded, NoApp, NoCall, NoConnection
<1>2. FileInv /\ FileInv' /\ LoadedInv /\ [Next]_vars => LoadedInv'
  BY LoadedStep
<1>3. LoadedInv /\ [Next]_vars =>
        [\A a \in Adapter :
           (call[a].op = "setLastPulledAt" /\ file'.pulled # file.pulled /\ app[a].alone)
              => file.loaded]_vars
  BY DEF LoadedInv, AloneIsLoaded
<1> QED
  BY <1>1, <1>2, <1>3, FileAlways, PTL DEF Spec, PulledImpliesLoaded
=============================================================================
