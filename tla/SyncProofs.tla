------------------------------ MODULE SyncProofs ------------------------------
(* Proofs about Sync, for every set of records, columns and calls. *)
EXTENDS Sync, TLAPS

Progress(stamps) == [phase : Phases, lastPulledAt : stamps, changes : [Id -> Change],
                     timestamp : stamps, left : SUBSET Id, pushed : [Id -> Local],
                     rejected : SUBSET Id]

-----------------------------------------------------------------------------
(* Invariants of any number of overlapping calls. *)

(* Everything the server has, sent or accepted was served. *)
IsServed(id, data) == \A c \in Column : data[c] \in served[id][c]

ServerIsServed == \A id \in Id : server[id].state = "alive" => IsServed(id, server[id].data)

ChangesAreServed ==
    \A s \in Sync, id \in Id :
        sync[s].changes[id].kind \in {"created", "updated"} =>
            IsServed(id, sync[s].changes[id].data)

(* A record that Mark may find unchanged is on the server. *)
PushesAreServed ==
    \A s \in Sync, id \in Id :
        In(s, "pushed") /\ sync[s].pushed[id].status \in {"created", "updated"}
          /\ id \notin sync[s].rejected => IsServed(id, sync[s].pushed[id].data)

ServedInv ==
    TypeOK /\ ServerIsServed /\ ChangesAreServed /\ PushesAreServed /\ UnsentIsMarked

(* The server keeps what it has deleted, and no id is used again for a new record. *)
DeletionIsFinal ==
    \A s \in Sync, id \in Id :
        /\ sync[s].changes[id].kind = "deleted" => server[id].state = "deleted"
        /\ sync[s].pushed[id].status = "deleted" => local[id].status # "created"

(* A server that sends created records as updated does so. *)
NoneSentAsCreated ==
    SendCreatedAsUpdated => \A s \in Sync, id \in Id : sync[s].changes[id].kind # "created"

-----------------------------------------------------------------------------
(* Invariants of calls that do not overlap. *)

OneCall == \A s, t \in Sync : s = t

(* What a call knows of the local database and of the server when it is where it is. *)
StampsOrdered ==
    /\ \A id \in Id : /\ server[id].modified <= clock
                      /\ server[id].created <= server[id].modified
                      /\ server[id].state = "none" => server[id].modified = 0
    /\ \A s \in Sync :
         /\ sync[s].phase \in {"pulling", "pulled", "applying", "saving"} =>
              sync[s].lastPulledAt = lastPulledAt
         /\ sync[s].phase \in {"pulled", "applying", "saving"} =>
              lastPulledAt <= sync[s].timestamp
         /\ sync[s].phase \in {"fetching", "pushing", "pushed", "destroying"} =>
              sync[s].timestamp = lastPulledAt

(* Changes are known while they are applied only, local changes while they are pushed. *)
KnownInPhase ==
    \A s \in Sync :
        /\ ~(sync[s].phase \in {"pulled", "applying", "saving"}) => sync[s].changes = NoChanges
        /\ ~(sync[s].phase \in {"pushing", "pushed", "destroying"}) => sync[s].pushed = NoLocals

(* What the server did not change since the pull is in the answer. *)
IsAnswer(change, r, since) ==
    CASE r.state = "alive"   -> \/ change.kind \in {"created", "updated"} /\ change.data = r.data
                                \/ change.kind = "none" /\ r.modified <= since
      [] r.state = "deleted" -> \/ change.kind = "deleted"
                                \/ change.kind \in {"missing", "none"} /\ r.modified <= since
      [] r.state = "none"    -> change.kind \in {"missing", "none"}

AnswersAreExact ==
    \A s \in Sync, id \in Id :
        sync[s].phase \in {"pulled", "applying", "saving"} =>
            LET change == sync[s].changes[id] IN
            /\ server[id].modified <= sync[s].timestamp =>
                 IsAnswer(change, server[id], sync[s].lastPulledAt)
            /\ change.kind = "created" => server[id].modified > sync[s].lastPulledAt
            /\ change.kind = "missing" =>
                 server[id].state # "alive" \/ local[id].status = "none"

(* The database has what is applied. *)
AppliedIsServed ==
    \A s \in Sync, id \in Id :
        /\ In(s, "applying") /\ id \notin sync[s].left => 
             (server[id].modified <= sync[s].timestamp => HasServed(id))
        /\ In(s, "saving") => (server[id].modified <= sync[s].timestamp => HasServed(id))

(* Only records of this database are not on the server. *)
UnservedIsOurs ==
    \A id \in Id : server[id].state = "none" => local[id].status \in {"none", "created", "deleted"}

(* What is pushed differs from the server in what the user changed, or the server
   refuses it; once accepted it is newer than the pull.                       *)
PushIsCurrent ==
    \A s \in Sync, id \in Id :
        LET p == sync[s].pushed[id] IN
        /\ In(s, "pushing") /\ p.status \in {"created", "updated"}
             /\ server[id].state = "alive" /\ server[id].modified <= sync[s].timestamp =>
               \A c \in Column \ p.changed : p.data[c] = server[id].data[c]
        /\ In(s, "pushed") /\ p.status \in {"created", "updated"} /\ id \notin sync[s].rejected =>
               server[id].state # "none" /\ server[id].modified > lastPulledAt
        /\ (In(s, "pushed") \/ In(s, "destroying")) /\ p.status = "deleted"
             /\ id \notin sync[s].rejected => server[id].state # "alive"
        /\ p.status = "deleted" => local[id].status = "deleted"

CallInv ==
    /\ TypeOK /\ DeletionIsFinal /\ StampsOrdered /\ KnownInPhase /\ AnswersAreExact
    /\ AppliedIsServed /\ UnservedIsOurs /\ PushIsCurrent /\ NothingSkipped

-----------------------------------------------------------------------------
(* What the operators return. *)

LEMMA BlankTypes ==
    /\ Blank \in Data /\ Absent \in Local /\ NoChange \in Change
    /\ NoChanges \in [Id -> Change] /\ NoLocals \in [Id -> Local]
BY SyncAssumption DEF Blank, Data, Value, Absent, Local, NoChange, Change, NoChanges, NoLocals

LEMMA PhaseTypes ==
    {"idle", "pulling", "pulled", "applying", "saving", "fetching", "pushing", "pushed",
     "destroying"} \subseteq Phases
BY DEF Phases

LEMMA IdleType ==
    ASSUME clock \in Nat
    PROVE  Idle \in Progress(0..clock)
BY BlankTypes, PhaseTypes DEF Idle, Progress

(* The changes that steps make to the progress of a call. *)
LEMMA ProgressMade ==
    ASSUME NEW stamps, NEW x \in Progress(stamps), NEW phase \in Phases
    PROVE  /\ [x EXCEPT !.phase = phase] \in Progress(stamps)
           /\ \A t \in stamps :
                [x EXCEPT !.phase = phase, !.lastPulledAt = t] \in Progress(stamps)
           /\ \A t \in stamps, changes \in [Id -> Change] :
                [x EXCEPT !.phase = phase, !.changes = changes, !.timestamp = t]
                  \in Progress(stamps)
           /\ \A changes \in [Id -> Change] :
                [x EXCEPT !.phase = phase, !.changes = changes] \in Progress(stamps)
           /\ \A left \in SUBSET Id :
                /\ [x EXCEPT !.phase = phase, !.left = left] \in Progress(stamps)
                /\ [x EXCEPT !.left = left, !.phase = phase] \in Progress(stamps)
           /\ \A pushed \in [Id -> Local] :
                [x EXCEPT !.phase = phase, !.pushed = pushed] \in Progress(stamps)
           /\ \A rejected \in SUBSET Id :
                [x EXCEPT !.phase = phase, !.rejected = rejected] \in Progress(stamps)
BY DEF Progress

LEMMA StoredType ==
    ASSUME NEW r \in Remote, NEW data \in Data, clock \in Nat
    PROVE  Stored(r, data) \in Remote
BY DEF Stored, Remote

LEMMA RemoteUpdated ==
    ASSUME NEW r \in Remote, NEW data \in Data, NEW t \in Nat
    PROVE  [r EXCEPT !.state = "deleted", !.data = data, !.modified = t] \in Remote
BY DEF Remote

LEMMA RemovedType ==
    ASSUME NEW r \in Remote, clock \in Nat
    PROVE  Removed(r) \in Remote
<1>1. clock + 1 \in Nat
  OBVIOUS
<1> QED
  BY <1>1, RemoteUpdated, BlankTypes DEF Removed

LEMMA SyncedType ==
    ASSUME NEW loc \in Local
    PROVE  Synced(loc) \in Local
BY DEF Synced, Local

LEMMA ChangesSinceType ==
    ASSUME NEW t, NEW strategy, server \in [Id -> Remote]
    PROVE  ChangesSince(t, strategy) \in [Id -> Change]
BY BlankTypes DEF ChangesSince, Change, Remote

(* The answer of the pull endpoint, record by record. *)
LEMMA ChangesSinceIs ==
    ASSUME NEW t, NEW strategy, NEW id \in Id
    PROVE  LET change == ChangesSince(t, strategy)[id]
               r      == server[id] IN
           \/ change.kind = "deleted" /\ r.state = "deleted" /\ r.modified > t
           \/ /\ change.kind \in {"created", "updated"}
              /\ r.state = "alive" /\ change.data = r.data
              /\ change.kind = "created" => r.created > t /\ ~SendCreatedAsUpdated
           \/ /\ change.kind \in {"missing", "none"}
              /\ change.kind = "missing" => r.state # "alive"
              /\ r.state \in {"alive", "deleted"} => ~(r.modified > t)
<1> DEFINE r == server[id]
           change == ChangesSince(t, strategy)[id]
<1>1. CASE r.modified > t /\ r.state = "deleted"
  <2>1. change = [kind |-> "deleted", data |-> Blank]
    BY <1>1 DEF ChangesSince
  <2> QED
    BY <1>1, <2>1
<1>2. CASE r.state = "alive" /\ (r.modified > t \/ strategy = "replacement")
  <2>1. change = [kind |-> IF r.created > t /\ ~SendCreatedAsUpdated THEN "created" ELSE "updated",
                  data |-> r.data]
    BY <1>2 DEF ChangesSince
  <2> QED
    BY <1>2, <2>1
<1>3. CASE /\ ~(r.modified > t /\ r.state = "deleted")
           /\ ~(r.state = "alive" /\ (r.modified > t \/ strategy = "replacement"))
  <2>1. r.state \in {"alive", "deleted"} => ~(r.modified > t)
    BY <1>3
  <2>2. CASE strategy = "replacement"
    <3>1. change = [kind |-> "missing", data |-> Blank]
      BY <1>3, <2>2 DEF ChangesSince
    <3>2. change.kind = "missing"
      BY <3>1
    <3>3. r.state # "alive"
      BY <1>3, <2>2
    <3> QED
      BY <2>1, <3>2, <3>3
  <2>3. CASE strategy # "replacement"
    <3>1. change = [kind |-> "none", data |-> Blank]
      BY <1>3, <2>3 DEF ChangesSince
    <3> QED
      BY <2>1, <3>1
  <2> QED
    BY <2>2, <2>3
<1> QED
  BY <1>1, <1>2, <1>3

LEMMA AgreesIs ==
    ASSUME NEW loc, NEW r \in Remote
    PROVE  Agrees(loc, r) <=>
             /\ r.state = "none" => loc.status \in {"none", "created", "deleted"}
             /\ r.state = "deleted" => loc.status = "none"
             /\ r.state = "alive" =>
                  /\ loc.status # "none"
                  /\ IsAlive(loc) => \A c \in Column : c \in loc.changed \/ loc.data[c] = r.data[c]
<1>1. r.state \in {"none", "alive", "deleted"}
  BY DEF Remote
<1> QED
  BY <1>1 DEF Agrees, IsAlive

LEMMA AppliedType ==
    ASSUME NEW loc \in Local, NEW change \in Change
    PROVE  Applied(loc, change) \in Local
<1>1. resolveConflict(loc, change.data) \in Local
  BY DEF resolveConflict, Local, Change, Data
<1>2. [status |-> "synced", changed |-> {}, data |-> change.data] \in Local
  BY DEF Local, Change
<1> QED
  BY <1>1, <1>2, BlankTypes DEF Applied

LEMMA PushedToType ==
    ASSUME NEW s \in Sync, NEW rejected, TypeOK
    PROVE  PushedTo(s, rejected) \in [Id -> Remote]
<1> SUFFICES ASSUME NEW id \in Id PROVE PushedTo(s, rejected)[id] \in Remote
  BY DEF PushedTo
<1>1. server[id] \in Remote /\ sync[s].pushed[id] \in Local /\ clock \in Nat
  BY DEF TypeOK
<1>2. sync[s].pushed[id].data \in Data
  BY <1>1 DEF Local
<1> QED
  BY <1>1, <1>2, StoredType, RemovedType DEF PushedTo

(* A step of the server keeps its types. *)
LEMMA ServeType ==
    ASSUME TypeOK, NEW next \in [Id -> Remote], Serve(next)
    PROVE  /\ server' \in [Id -> Remote]
           /\ clock' \in Nat /\ clock' = clock + 1
           /\ served' \in [Id -> [Column -> SUBSET Value]]
           /\ lastPulledAt \in 0..clock'
           /\ sync \in [Sync -> Progress(0..clock')]
<1>1. served' \in [Id -> [Column -> SUBSET Value]]
  BY DEF Serve, TypeOK, Remote, Data
<1>2. clock' \in Nat /\ clock' = clock + 1 /\ 0..clock \subseteq 0..clock'
  BY DEF Serve, TypeOK
<1>3. sync \in [Sync -> Progress(0..clock')]
  <2>1. sync \in [Sync -> Progress(0..clock)]
    BY DEF TypeOK, Progress
  <2>2. Progress(0..clock) \subseteq Progress(0..clock')
    BY <1>2 DEF Progress
  <2> QED
    BY <2>1, <2>2
<1> QED
  BY <1>1, <1>2, <1>3 DEF Serve, TypeOK

(* Type correctness put together again. *)
LEMMA TypeFrom ==
    ASSUME server \in [Id -> Remote], clock \in Nat, local \in [Id -> Local],
           lastPulledAt \in 0..clock, writer \in Sync \cup {NoSync},
           sync \in [Sync -> Progress(0..clock)],
           served \in [Id -> [Column -> SUBSET Value]], edits \in Value,
           faults \in 0..MaxFaults
    PROVE  TypeOK
BY DEF TypeOK, Progress

-----------------------------------------------------------------------------
LEMMA InitialType == Init => TypeOK
<1> SUFFICES ASSUME Init PROVE TypeOK
  OBVIOUS
<1>1. server \in [Id -> Remote] /\ clock \in Nat
  BY BlankTypes DEF Init, Remote
<1>2. sync \in [Sync -> Progress(0..clock)]
  BY <1>1, IdleType DEF Init
<1>3. 0 \in Value
  BY SyncAssumption DEF Value
<1> QED
  BY <1>1, <1>2, <1>3, BlankTypes, SyncAssumption DEF Init, TypeOK, Progress

LEMMA TypeStep ==
    ASSUME TypeOK, [Next]_vars
    PROVE  TypeOK'
<1> USE SyncAssumption
<1>1. /\ sync \in [Sync -> Progress(0..clock)] /\ Idle \in Progress(0..clock)
      /\ \A s \in Sync : sync[s] \in Progress(0..clock)
      /\ clock \in Nat /\ clock \in 0..clock /\ lastPulledAt \in 0..clock
  BY IdleType DEF TypeOK, Progress
<1>2. ASSUME NEW id \in Id, User(id) PROVE TypeOK'
  <2>1. edits' \in Value /\ local' \in [Id -> Local]
    <3>1. CASE LocalCreate(id)
      BY <3>1 DEF TypeOK, LocalCreate, UserWrites, Edit, Value, Local, Data
    <3>2. CASE LocalDelete(id)
      <4>1. local[id] \in Local
        BY DEF TypeOK
      <4>2. [local[id] EXCEPT !.status = "deleted"] \in Local
        BY <4>1 DEF Local
      <4> QED
        BY <3>2, <4>2 DEF TypeOK, LocalDelete, UserWrites, Edit, Value
    <3>3. ASSUME NEW c \in Column, LocalUpdate(id, c)
          PROVE  edits' \in Value /\ local' \in [Id -> Local]
      <4>1. edits' \in Value
        BY <3>3 DEF TypeOK, LocalUpdate, UserWrites, Edit, Value
      <4>2. [local[id].data EXCEPT ![c] = edits'] \in Data
        BY <4>1 DEF TypeOK, Local, Data
      <4> QED
        BY <3>3, <4>1, <4>2 DEF TypeOK, LocalUpdate, UserWrites, Local
    <3> QED
      BY <1>2, <3>1, <3>2, <3>3 DEF User
  <2> QED
    BY <1>2, <2>1 DEF TypeOK, User, LocalCreate, LocalDelete, LocalUpdate, UserWrites
<1>3. ASSUME NEW id \in Id, Others(id) PROVE TypeOK'
  <2>1. edits' \in Value
    <3>1. Edit
      BY <1>3 DEF Others, RemoteCreate, RemoteUpdate, RemoteDelete
    <3> QED
      BY <3>1 DEF TypeOK, Edit, Value
  <2>2. \E next \in [Id -> Remote] : Serve(next)
    <3>1. server[id] \in Remote /\ clock \in Nat /\ server[id].data \in Data
      BY DEF TypeOK, Remote
    <3>2. CASE RemoteCreate(id)
      <4>1. [c \in Column |-> edits'] \in Data
        BY <2>1 DEF Data
      <4>2. Stored(server[id], [c \in Column |-> edits']) \in Remote
        BY <3>1, <4>1, StoredType
      <4> QED
        BY <3>2, <4>2 DEF RemoteCreate, TypeOK
    <3>3. CASE RemoteDelete(id)
      BY <3>1, <3>3, RemovedType DEF RemoteDelete, TypeOK
    <3>4. ASSUME NEW c \in Column, RemoteUpdate(id, c)
          PROVE  \E next \in [Id -> Remote] : Serve(next)
      <4>1. [server[id].data EXCEPT ![c] = edits'] \in Data
        BY <2>1, <3>1 DEF Data
      <4>2. Stored(server[id], [server[id].data EXCEPT ![c] = edits']) \in Remote
        BY <3>1, <4>1, StoredType
      <4> QED
        BY <3>4, <4>2 DEF RemoteUpdate, TypeOK
    <3> QED
      BY <1>3, <3>2, <3>3, <3>4 DEF Others
  <2>3. UNCHANGED <<local, lastPulledAt, writer, sync, faults>>
    BY <1>3 DEF Others, RemoteCreate, RemoteUpdate, RemoteDelete
  <2> QED
    BY <2>1, <2>2, <2>3, ServeType DEF TypeOK, Progress
<1>4. ASSUME NEW s \in Sync, Start(s) PROVE TypeOK'
  <2>1. sync' \in [Sync -> Progress(0..clock)]
    BY <1>1, <1>4, ProgressMade, PhaseTypes DEF Start
  <2> QED
    BY <1>4, <2>1 DEF TypeOK, Start, Progress
<1>5. ASSUME NEW s \in Sync, Pull(s) PROVE TypeOK'
  <2>1. PICK strategy \in Strategies :
           sync' = [sync EXCEPT ![s].phase = "pulled",
                                ![s].changes = ChangesSince(sync[s].lastPulledAt, strategy),
                                ![s].timestamp = clock]
    BY <1>5 DEF Pull
  <2>2. ChangesSince(sync[s].lastPulledAt, strategy) \in [Id -> Change]
    BY ChangesSinceType DEF TypeOK
  <2>3. sync' \in [Sync -> Progress(0..clock)]
    BY <1>1, <2>1, <2>2, ProgressMade, PhaseTypes
  <2> QED
    BY <1>5, <2>3 DEF TypeOK, Pull, Progress
<1>6. ASSUME NEW s \in Sync, AbortConcurrent(s) \/ PushRefused(s) PROVE TypeOK'
  <2>1. sync' \in [Sync -> Progress(0..clock)]
    BY <1>1, <1>6 DEF AbortConcurrent, PushRefused, Abort
  <2> QED
    BY <1>6, <2>1 DEF TypeOK, AbortConcurrent, PushRefused, Progress
<1>7. ASSUME NEW s \in Sync, Apply(s) PROVE TypeOK'
  <2>1. sync' \in [Sync -> Progress(0..clock)]
    BY <1>1, <1>7, ProgressMade, PhaseTypes DEF Apply
  <2>2. local' \in [Id -> Local]
    BY <1>7, BlankTypes DEF TypeOK, Apply
  <2> QED
    BY <1>7, <2>1, <2>2 DEF TypeOK, Apply, Progress
<1>8. ASSUME NEW s \in Sync, ApplyBatch(s) PROVE TypeOK'
  <2>1. PICK ids \in SUBSET sync[s].left \ {{}} :
           /\ local' = [id \in Id |-> IF id \in ids THEN Applied(local[id], sync[s].changes[id])
                                      ELSE local[id]]
           /\ sync' = [sync EXCEPT ![s].left = @ \ ids,
                                   ![s].phase = IF ids = sync[s].left THEN "saving" ELSE @]
    BY <1>8 DEF ApplyBatch
  <2>2. sync[s].left \in SUBSET Id /\ sync[s].changes \in [Id -> Change] /\ sync[s].phase \in Phases
    BY <1>1 DEF Progress
  <2>3. local' \in [Id -> Local]
    BY <2>1, <2>2, AppliedType DEF TypeOK
  <2>4. sync' \in [Sync -> Progress(0..clock)]
    <3>1. sync[s].left \ ids \in SUBSET Id
      BY <2>2
    <3>2. (IF ids = sync[s].left THEN "saving" ELSE sync[s].phase) \in Phases
      BY <2>2, PhaseTypes
    <3> QED
      BY <1>1, <2>1, <3>1, <3>2, ProgressMade
  <2> QED
    BY <1>8, <2>3, <2>4 DEF TypeOK, ApplyBatch, Progress
<1>9. ASSUME NEW s \in Sync, SaveLastPulledAt(s) PROVE TypeOK'
  <2>1. sync' \in [Sync -> Progress(0..clock)]
    BY <1>1, <1>9, BlankTypes, ProgressMade, PhaseTypes DEF SaveLastPulledAt
  <2>2. sync[s].timestamp \in 0..clock
    BY <1>1 DEF Progress
  <2> QED
    BY <1>9, <2>1, <2>2 DEF TypeOK, SaveLastPulledAt, Progress
<1>10. ASSUME NEW s \in Sync, FetchLocal(s) PROVE TypeOK'
  <2>1. [id \in Id |-> IF IsLocalChange(local[id]) THEN local[id] ELSE Absent] \in [Id -> Local]
    BY BlankTypes DEF TypeOK
  <2>2. sync' \in [Sync -> Progress(0..clock)]
    BY <1>1, <1>10, <2>1, ProgressMade, PhaseTypes DEF FetchLocal
  <2> QED
    BY <1>10, <2>2 DEF TypeOK, FetchLocal, Progress
<1>11. ASSUME NEW s \in Sync, Push(s) PROVE TypeOK'
  <2>1. PICK rejected \in SUBSET {id \in Id : IsPushed(s, id)} :
           /\ rejected # {} => faults < MaxFaults
           /\ faults' = IF rejected # {} THEN faults + 1 ELSE faults
           /\ Serve(PushedTo(s, rejected))
           /\ sync' = [sync EXCEPT ![s].phase = "pushed", ![s].rejected = rejected]
    BY <1>11 DEF Push
  <2>2. sync \in [Sync -> Progress(0..clock')]
    BY <2>1, PushedToType, ServeType
  <2>3. sync' \in [Sync -> Progress(0..clock')]
    BY <2>1, <2>2, ProgressMade, PhaseTypes
  <2>4. faults' \in 0..MaxFaults
    BY <2>1 DEF TypeOK
  <2>5. /\ server' \in [Id -> Remote] /\ clock' \in Nat
        /\ served' \in [Id -> [Column -> SUBSET Value]] /\ lastPulledAt \in 0..clock'
    BY <2>1, PushedToType, ServeType
  <2> QED
    BY <1>11, <2>3, <2>4, <2>5 DEF TypeOK, Push, Progress
<1>12. ASSUME NEW s \in Sync, Mark(s) PROVE TypeOK'
  <2>1. sync' \in [Sync -> Progress(0..clock)]
    BY <1>1, <1>12, ProgressMade, PhaseTypes DEF Mark
  <2>2. local' \in [Id -> Local]
    BY <1>12, SyncedType DEF TypeOK, Mark
  <2> QED
    BY <1>12, <2>1, <2>2 DEF TypeOK, Mark, Progress
<1>13. ASSUME NEW s \in Sync, DestroyDeleted(s) PROVE TypeOK'
  <2>1. sync' \in [Sync -> Progress(0..clock)]
    BY <1>1, <1>13 DEF DestroyDeleted
  <2>2. local' \in [Id -> Local]
    BY <1>13, BlankTypes DEF TypeOK, DestroyDeleted
  <2> QED
    BY <1>13, <2>1, <2>2 DEF TypeOK, DestroyDeleted, Progress
<1>14. ASSUME NEW s \in Sync, CallFails(s) PROVE TypeOK'
  <2>1. faults' \in 0..MaxFaults
    BY <1>14 DEF TypeOK, CallFails, Fault
  <2>2. CASE UNCHANGED <<server, clock, served>>
    <3>1. sync' \in [Sync -> Progress(0..clock)]
      BY <1>1, <1>14 DEF CallFails, Abort
    <3> QED
      BY <1>14, <2>1, <2>2, <3>1 DEF TypeOK, CallFails, Progress
  <2>3. CASE Serve(PushedTo(s, {}))
    <3>1. sync \in [Sync -> Progress(0..clock')] /\ clock' \in Nat
      BY <2>3, PushedToType, ServeType
    <3>2. Idle \in Progress(0..clock')
      BY BlankTypes, PhaseTypes, <3>1 DEF Idle, Progress
    <3> QED
      BY <1>14, <2>1, <2>3, <3>1, <3>2, PushedToType, ServeType
         DEF TypeOK, CallFails, Abort, Progress
  <2> QED
    BY <1>14, <2>2, <2>3 DEF CallFails
<1>15. CASE Crash
  BY <1>1, <1>15 DEF TypeOK, Crash, Fault, Progress
<1>16. CASE UNCHANGED vars
  BY <1>16 DEF vars, TypeOK
<1> QED
  BY <1>2, <1>3, <1>4, <1>5, <1>6, <1>7, <1>8, <1>9, <1>10, <1>11, <1>12, <1>13, <1>14,
     <1>15, <1>16 DEF Next, synchronize

(* Type correctness: records, changes and stamps keep their shape, whatever calls,
   users and faults do.                                                      *)
THEOREM TypeCorrect == Spec => []TypeOK
<1>1. Init => TypeOK
  BY InitialType
<1>2. TypeOK /\ [Next]_vars => TypeOK'
  BY TypeStep
<1> QED
  BY <1>1, <1>2, PTL DEF Spec

-----------------------------------------------------------------------------
(* Who takes a step. *)

LEMMA ServerStep ==
    ASSUME [Next]_vars
    PROVE  UNCHANGED <<server, clock, served>> \/ \E next : Serve(next)
BY DEF Next, vars, User, LocalCreate, LocalUpdate, LocalDelete, UserWrites, Others, RemoteCreate,
       RemoteUpdate, RemoteDelete, synchronize, Start, Pull, AbortConcurrent, Apply, ApplyBatch,
       SaveLastPulledAt, FetchLocal, Push, PushRefused, Mark, DestroyDeleted, CallFails, Crash

LEMMA LocalStep ==
    ASSUME [Next]_vars
    PROVE  \/ UNCHANGED local
           \/ \E id \in Id : User(id)
           \/ \E s \in Sync : Apply(s) \/ ApplyBatch(s) \/ Mark(s) \/ DestroyDeleted(s)
BY DEF Next, vars, User, LocalCreate, LocalUpdate, LocalDelete, UserWrites, Others, RemoteCreate,
       RemoteUpdate, RemoteDelete, synchronize, Start, Pull, AbortConcurrent, Apply, ApplyBatch,
       SaveLastPulledAt, FetchLocal, Push, PushRefused, Mark, DestroyDeleted, CallFails, Crash

(* A call is where it was, has ended or takes a step of its own. *)
LEMMA CallStep ==
    ASSUME TypeOK, [Next]_vars, NEW t \in Sync
    PROVE  sync'[t] = sync[t] \/ sync'[t] = Idle \/ synchronize(t)
<1>1. sync = [s \in Sync |-> sync[s]]
  BY DEF TypeOK
<1>2. ASSUME NEW s \in Sync, synchronize(s), s # t PROVE sync'[t] = sync[t]
  BY <1>1, <1>2 DEF synchronize, Start, Pull, AbortConcurrent, Abort, Apply, ApplyBatch,
        SaveLastPulledAt, FetchLocal, Push, PushRefused, Mark, DestroyDeleted
<1>3. ASSUME NEW s \in Sync, CallFails(s) PROVE sync'[t] = sync[t] \/ sync'[t] = Idle
  BY <1>1, <1>3 DEF CallFails, Abort
<1>4. ASSUME NEW id \in Id, User(id) \/ Others(id) PROVE sync' = sync
  BY <1>4 DEF User, LocalCreate, LocalUpdate, LocalDelete, UserWrites, Others, RemoteCreate,
        RemoteUpdate, RemoteDelete
<1>5. CASE Crash
  BY <1>5 DEF Crash
<1>6. CASE UNCHANGED vars
  BY <1>6 DEF vars
<1> QED
  BY <1>2, <1>3, <1>4, <1>5, <1>6 DEF Next

-----------------------------------------------------------------------------
(* What is not marked as changed was served. *)

LEMMA ServedGrows ==
    ASSUME ServedInv, [Next]_vars
    PROVE  /\ \A id \in Id, data \in Data : IsServed(id, data) => IsServed(id, data)'
           /\ ServerIsServed'
<1>1. CASE UNCHANGED <<server, clock, served>>
  BY <1>1 DEF ServedInv, ServerIsServed, IsServed
<1>2. ASSUME NEW next, Serve(next)
      PROVE  /\ \A id \in Id, data \in Data : IsServed(id, data) => IsServed(id, data)'
             /\ ServerIsServed'
  BY <1>2 DEF Serve, ServerIsServed, IsServed, ServedInv, TypeOK
<1> QED
  BY <1>1, <1>2, ServerStep
(* What a call knows of the server is what it pulled, and what it pushes is what
   it fetched.                                                               *)
LEMMA KnowledgeStep ==
    ASSUME TypeOK, [Next]_vars, NEW t \in Sync
    PROVE  /\ \/ sync'[t].changes = sync[t].changes
              \/ sync'[t].changes = NoChanges
              \/ /\ Pull(t)
                 /\ \E strategy \in Strategies :
                      sync'[t].changes = ChangesSince(sync[t].lastPulledAt, strategy)
           /\ \/ sync'[t].pushed = sync[t].pushed
              \/ sync'[t].pushed = NoLocals
              \/ /\ FetchLocal(t)
                 /\ sync'[t].pushed = [id \in Id |-> IF IsLocalChange(local[id]) THEN local[id]
                                                     ELSE Absent]
<1>1. sync = [s \in Sync |-> sync[s]] /\ sync[t] \in Progress(0..clock)
  BY DEF TypeOK, Progress
<1>2. CASE sync'[t] = Idle
  BY <1>2 DEF Idle
<1>3. CASE synchronize(t)
  <2>1. CASE Start(t)
    BY <1>1, <2>1 DEF Start, Idle
  <2>2. CASE Pull(t)
    <3>1. PICK strategy \in Strategies :
             sync' = [sync EXCEPT ![t].phase = "pulled",
                                  ![t].changes = ChangesSince(sync[t].lastPulledAt, strategy),
                                  ![t].timestamp = clock]
      BY <2>2 DEF Pull
    <3>2. /\ sync'[t].changes = ChangesSince(sync[t].lastPulledAt, strategy)
          /\ sync'[t].pushed = sync[t].pushed
      BY <1>1, <3>1 DEF Progress
    <3> QED
      BY <2>2, <3>2
  <2>3. CASE AbortConcurrent(t) \/ PushRefused(t) \/ DestroyDeleted(t)
    BY <1>1, <2>3 DEF AbortConcurrent, PushRefused, DestroyDeleted, Abort, Idle
  <2>4. CASE Apply(t)
    BY <1>1, <2>4 DEF Apply, Progress
  <2>5. CASE ApplyBatch(t)
    BY <1>1, <2>5 DEF ApplyBatch, Progress
  <2>6. CASE SaveLastPulledAt(t)
    BY <1>1, <2>6 DEF SaveLastPulledAt, Progress
  <2>7. CASE FetchLocal(t)
    BY <1>1, <2>7 DEF FetchLocal, Progress, Idle
  <2>8. CASE Push(t)
    BY <1>1, <2>8 DEF Push, Progress
  <2>9. CASE Mark(t)
    BY <1>1, <2>9 DEF Mark, Progress
  <2> QED
    BY <1>3, <2>1, <2>2, <2>3, <2>4, <2>5, <2>6, <2>7, <2>8, <2>9 DEF synchronize
<1> QED
  BY <1>2, <1>3, CallStep

LEMMA ServedStep ==
    ASSUME ServedInv, [Next]_vars
    PROVE  ServedInv'
<1>1. TypeOK /\ TypeOK'
  BY TypeStep DEF ServedInv
<1>2. \A id \in Id, data \in Data : IsServed(id, data) => IsServed(id, data)'
  BY ServedGrows
<1>3. /\ \A t \in Sync : sync[t].changes \in [Id -> Change] /\ sync[t].pushed \in [Id -> Local]
      /\ \A id \in Id : local[id] \in Local
      /\ sync = [s \in Sync |-> sync[s]]
  BY <1>1 DEF TypeOK
<1>4. ChangesAreServed'
  <2> SUFFICES ASSUME NEW t \in Sync, NEW id \in Id,
                      sync'[t].changes[id].kind \in {"created", "updated"}
               PROVE  IsServed(id, sync[t].changes[id].data)'
    BY DEF ChangesAreServed
  <2>1. CASE sync'[t].changes = sync[t].changes
    <3>1. sync[t].changes[id].data \in Data
      BY <1>3 DEF Change
    <3> QED
      BY <1>2, <2>1, <3>1 DEF ServedInv, ChangesAreServed, IsServed
  <2>2. CASE sync'[t].changes = NoChanges
    BY <2>2 DEF NoChanges, NoChange
  <2>3. ASSUME NEW strategy, Pull(t),
               sync'[t].changes = ChangesSince(sync[t].lastPulledAt, strategy)
        PROVE  IsServed(id, sync[t].changes[id].data)'
    <3>1. server[id].state = "alive" /\ sync'[t].changes[id].data = server[id].data
      BY <2>3, ChangesSinceIs
    <3> QED
      BY <2>3, <3>1 DEF Pull, ServedInv, ServerIsServed, IsServed
  <2> QED
    BY <1>1, <2>1, <2>2, <2>3, KnowledgeStep
<1>5. PushesAreServed'
  <2> SUFFICES ASSUME NEW t \in Sync, NEW id \in Id, In(t, "pushed")',
                      sync'[t].pushed[id].status \in {"created", "updated"},
                      id \notin sync'[t].rejected
               PROVE  IsServed(id, sync[t].pushed[id].data)'
    BY DEF PushesAreServed
  <2>1. CASE sync'[t] = sync[t]
    <3>1. sync[t].pushed[id].data \in Data
      BY <1>3 DEF Local
    <3> QED
      BY <1>2, <2>1, <3>1 DEF ServedInv, PushesAreServed, IsServed, In
  <2>2. CASE Push(t)
    <3>1. PICK rejected \in SUBSET {i \in Id : IsPushed(t, i)} :
             /\ Serve(PushedTo(t, rejected))
             /\ sync' = [sync EXCEPT ![t].phase = "pushed", ![t].rejected = rejected]
      BY <2>2 DEF Push
    <3>2. sync'[t].pushed = sync[t].pushed /\ sync'[t].rejected = rejected
      BY <1>1, <3>1 DEF TypeOK
    <3>3. PushedTo(t, rejected)[id] = Stored(server[id], sync[t].pushed[id].data)
      BY <3>2 DEF PushedTo, IsPushed
    <3> QED
      BY <3>1, <3>2, <3>3 DEF Serve, Stored, IsServed
  <2>3. ~(synchronize(t) /\ ~Push(t))
    <3> SUFFICES ASSUME synchronize(t), ~Push(t)
                 PROVE  ~In(t, "pushed")'
      OBVIOUS
    <3>1. sync[t] \in Progress(0..clock)
      BY <1>1 DEF TypeOK, Progress
    <3>2. CASE AbortConcurrent(t) \/ PushRefused(t) \/ DestroyDeleted(t)
      BY <1>3, <3>2 DEF AbortConcurrent, PushRefused, DestroyDeleted, Abort, Idle, In
    <3>5. CASE Pull(t)
      BY <1>3, <3>1, <3>5 DEF Pull, Progress, In
    <3>6. CASE Start(t) \/ Apply(t)
      BY <1>3, <3>1, <3>6 DEF Start, Apply, Idle, Progress, In
    <3>7. CASE SaveLastPulledAt(t) \/ Mark(t)
      BY <1>3, <3>1, <3>7 DEF SaveLastPulledAt, Mark, Progress, In
    <3>3. CASE ApplyBatch(t)
      BY <1>3, <3>1, <3>3 DEF ApplyBatch, Progress, In
    <3>4. CASE FetchLocal(t)
      BY <1>3, <3>1, <3>4 DEF FetchLocal, Progress, In, Idle
    <3> QED
      BY <3>2, <3>3, <3>4, <3>5, <3>6, <3>7 DEF synchronize
  <2>4. sync'[t] # Idle
    BY DEF In, Idle
  <2> QED
    BY <1>1, <2>1, <2>2, <2>3, <2>4, CallStep
<1>6. UnsentIsMarked'
  <2> SUFFICES ASSUME NEW i \in Id, local'[i].status \in {"synced", "updated"},
                      NEW c \in Column \ local'[i].changed
               PROVE  local'[i].data[c] \in served'[i][c]
    BY DEF UnsentIsMarked
  <2>1. served[i][c] \subseteq served'[i][c]
    BY <1>1, ServerStep DEF Serve, TypeOK
  <2>2. CASE local'[i] = local[i]
    BY <2>1, <2>2 DEF ServedInv, UnsentIsMarked
  <2>3. ASSUME NEW id \in Id, User(id), i = id PROVE local'[i].data[c] \in served'[i][c]
    <3>1. ~LocalCreate(id)
      BY <1>3, <1>1, <2>3 DEF LocalCreate, UserWrites, TypeOK
    <3>2. ~LocalDelete(id)
      BY <1>3, <1>1, <2>3 DEF LocalDelete, UserWrites, TypeOK, Local
    <3>3. PICK d \in Column : LocalUpdate(id, d)
      BY <2>3, <3>1, <3>2 DEF User
    <3>4. local'[i] = [status  |-> IF local[id].status = "created" THEN "created" ELSE "updated",
                       changed |-> local[id].changed \cup {d},
                       data    |-> [local[id].data EXCEPT ![d] = edits']]
      BY <1>1, <2>3, <3>3 DEF LocalUpdate, UserWrites, TypeOK
    <3>5. local[i].status \in {"synced", "updated"} /\ c \notin local[i].changed /\ c # d
      BY <2>3, <3>3, <3>4 DEF LocalUpdate, IsAlive
    <3>6. local'[i].data[c] = local[i].data[c]
      BY <1>3, <2>3, <3>4, <3>5 DEF Local, Data
    <3> QED
      BY <2>1, <3>5, <3>6 DEF ServedInv, UnsentIsMarked
  <2>4. ASSUME NEW id \in Id, User(id), i # id PROVE local'[i] = local[i]
    BY <1>1, <2>4 DEF User, LocalCreate, LocalUpdate, LocalDelete, UserWrites, TypeOK
  <2>5. ASSUME NEW s \in Sync, Apply(s) \/ DestroyDeleted(s) PROVE local'[i] = local[i]
    BY <2>5 DEF Apply, DestroyDeleted, Absent
  <2>6. ASSUME NEW s \in Sync, Mark(s) PROVE local'[i].data[c] \in served'[i][c]
    <3>1. local'[i] = IF IsToMark(s, i) THEN Synced(local[i]) ELSE local[i]
      BY <2>6 DEF Mark
    <3>2. CASE IsToMark(s, i)
      <4>1. IsServed(i, local[i].data)
        BY <2>6, <3>2 DEF Mark, IsToMark, ServedInv, PushesAreServed
      <4>2. local'[i].data = local[i].data
        BY <1>3, <3>1, <3>2 DEF Synced, Local
      <4> QED
        BY <2>1, <4>1, <4>2 DEF IsServed
    <3> QED
      BY <2>2, <3>1, <3>2
  <2>7. ASSUME NEW s \in Sync, ApplyBatch(s) PROVE local'[i].data[c] \in served'[i][c]
    <3>1. CASE local'[i] = Applied(local[i], sync[s].changes[i])
      <4> DEFINE change == sync[s].changes[i]
      <4>1. change.kind \in {"created", "updated"} => change.data[c] \in served[i][c]
        BY DEF ServedInv, ChangesAreServed, IsServed
      <4>2. CASE change.kind \in {"created", "updated"} /\ IsAlive(local[i])
        <5>1. local'[i] = resolveConflict(local[i], change.data)
          BY <3>1, <4>2 DEF Applied, IsToDestroy
        <5>2. /\ local'[i].status = local[i].status /\ local'[i].changed = local[i].changed
              /\ local'[i].data[c] = change.data[c]
          BY <1>3, <5>1 DEF resolveConflict, Local
        <5> QED
          BY <2>1, <4>1, <4>2, <5>2
      <4>3. CASE change.kind \in {"created", "updated"} /\ ~IsAlive(local[i])
        BY <1>3, <2>1, <3>1, <4>1, <4>3, <2>2 DEF Applied, IsToDestroy
      <4>4. CASE change.kind \notin {"created", "updated"}
        BY <2>2, <3>1, <4>4 DEF Applied, Absent
      <4> QED
        BY <4>2, <4>3, <4>4
    <3> QED
      BY <2>2, <2>7, <3>1 DEF ApplyBatch
  <2> QED
    BY <2>2, <2>3, <2>4, <2>5, <2>6, <2>7, LocalStep
<1> QED
  BY <1>1, <1>4, <1>5, <1>6, ServedGrows DEF ServedInv

(* "Unsent is marked": a column that the user changed is not taken for synchronized
   before the server had its value, however many calls of synchronize() overlap and
   whichever fail, are refused or are cut short.                              *)
THEOREM UnsentStaysMarked == Spec => []UnsentIsMarked
<1>1. Init => ServedInv
  <2> SUFFICES ASSUME Init PROVE ServedInv
    OBVIOUS
  <2>1. ServerIsServed
    BY DEF Init, ServerIsServed, IsServed, Blank
  <2>2. ChangesAreServed /\ PushesAreServed
    BY DEF Init, ChangesAreServed, PushesAreServed, Idle, NoChanges, NoChange, In
  <2>3. UnsentIsMarked
    BY DEF Init, UnsentIsMarked, Absent
  <2> QED
    BY <2>1, <2>2, <2>3, InitialType DEF ServedInv
<1>2. ServedInv /\ [Next]_vars => ServedInv'
  BY ServedStep
<1>3. ServedInv => UnsentIsMarked
  BY DEF ServedInv
<1> QED
  BY <1>1, <1>2, <1>3, PTL DEF Spec
-----------------------------------------------------------------------------
(* Calls that do not overlap: nothing is skipped. *)

(* What the server changes is newer than any stamp, and it never brings back what
   it has deleted.                                                            *)
LEMMA ServerMoves ==
    ASSUME TypeOK, StampsOrdered, [Next]_vars, NEW id \in Id
    PROVE  \/ server'[id] = server[id] /\ clock' >= clock
           \/ /\ server'[id].modified = clock + 1 /\ clock' = clock + 1
              /\ server'[id].created <= clock + 1
              /\ server'[id].state \in {"alive", "deleted"}
              /\ server[id].state = "deleted" => server'[id].state = "deleted"
<1>1. /\ clock \in Nat /\ server[id] \in Remote
      /\ server[id].created \in Nat /\ server[id].modified \in Nat
      /\ server[id].modified <= clock /\ server[id].created <= clock
  BY DEF TypeOK, StampsOrdered, Remote
<1>2. CASE UNCHANGED <<server, clock, served>>
  BY <1>1, <1>2
<1>3. ASSUME NEW data
      PROVE  /\ Stored(server[id], data).modified = clock + 1
             /\ Stored(server[id], data).created <= clock + 1
             /\ Stored(server[id], data).state = "alive"
  BY <1>1 DEF Stored
<1>4. /\ Removed(server[id]).modified = clock + 1
      /\ Removed(server[id]).created <= clock + 1
      /\ Removed(server[id]).state = "deleted"
  BY <1>1 DEF Removed, Remote
<1>5. ASSUME NEW i \in Id, Others(i)
      PROVE  /\ clock' = clock + 1
             /\ \/ server'[id] = server[id]
                \/ server'[id] = Removed(server[id])
                \/ /\ server[id].state # "deleted"
                   /\ \E data : server'[id] = Stored(server[id], data)
  <2>1. server = [j \in Id |-> server[j]]
    BY DEF TypeOK
  <2>2. CASE RemoteCreate(i)
    BY <2>1, <2>2 DEF RemoteCreate, Serve
  <2>3. CASE RemoteDelete(i)
    BY <2>1, <2>3 DEF RemoteDelete, Serve
  <2>4. ASSUME NEW c \in Column, RemoteUpdate(i, c)
        PROVE  /\ clock' = clock + 1
               /\ \/ server'[id] = server[id]
                  \/ /\ server[id].state # "deleted"
                     /\ \E data : server'[id] = Stored(server[id], data)
    BY <2>1, <2>4 DEF RemoteUpdate, Serve
  <2> QED
    BY <1>5, <2>2, <2>3, <2>4 DEF Others
<1>6. ASSUME NEW s \in Sync, NEW rejected, ~HasConflict(s), Serve(PushedTo(s, rejected))
      PROVE  /\ clock' = clock + 1
             /\ \/ server'[id] = server[id]
                \/ server'[id] = Removed(server[id])
                \/ /\ server[id].state # "deleted"
                   /\ \E data : server'[id] = Stored(server[id], data)
  <2> DEFINE p == sync[s].pushed[id]
  <2>1. server'[id] = PushedTo(s, rejected)[id] /\ clock' = clock + 1
    BY <1>6 DEF Serve, PushedTo
  <2>2. p.status \in {"created", "updated"} => server[id].state # "deleted"
    BY <1>6 DEF HasConflict, IsConflict, IsPushed
  <2>3. CASE id \notin rejected /\ p.status \in {"created", "updated"}
    BY <2>1, <2>2, <2>3 DEF PushedTo
  <2>4. CASE id \notin rejected /\ p.status = "deleted" /\ server[id].state = "alive"
    BY <2>1, <2>4 DEF PushedTo
  <2>5. CASE ~(id \notin rejected /\ p.status \in {"created", "updated"})
             /\ ~(id \notin rejected /\ p.status = "deleted" /\ server[id].state = "alive")
    BY <2>1, <2>5 DEF PushedTo
  <2> QED
    BY <2>3, <2>4, <2>5
<1>7. ASSUME ~ UNCHANGED <<server, clock, served>>
      PROVE  \/ \E i \in Id : Others(i)
             \/ \E s \in Sync : \E rejected : ~HasConflict(s) /\ Serve(PushedTo(s, rejected))
  BY <1>7 DEF Next, vars, User, LocalCreate, LocalUpdate, LocalDelete, UserWrites, synchronize,
        Start, Pull, AbortConcurrent, Apply, ApplyBatch, SaveLastPulledAt, FetchLocal, Push,
        PushRefused, Mark, DestroyDeleted, CallFails, Crash
<1> QED
  BY <1>1, <1>2, <1>3, <1>4, <1>5, <1>6, <1>7

LEMMA InitialCall == Init => CallInv
<1> SUFFICES ASSUME Init PROVE CallInv
  OBVIOUS
<1>1. TypeOK
  BY InitialType
<1>2. /\ \A s \in Sync : sync[s] = Idle
      /\ \A id \in Id : local[id] = Absent /\ server[id] \in Remote
      /\ clock = 1 /\ lastPulledAt = 0
  BY <1>1 DEF Init, TypeOK
<1>3. \A id \in Id : \/ server[id].state = "none" /\ server[id].modified = 0 /\ server[id].created = 0
                     \/ server[id].state = "alive" /\ server[id].modified = 1 /\ server[id].created = 1
  BY DEF Init
<1>4. DeletionIsFinal /\ KnownInPhase
  <2>1. DeletionIsFinal
    BY <1>2 DEF DeletionIsFinal, Idle, NoChanges, NoChange, NoLocals, Absent
  <2>2. KnownInPhase
    BY <1>2 DEF KnownInPhase, Idle
  <2> QED
    BY <2>1, <2>2
<1>8. \A id \in Id : HasServed(id) \/ server[id].modified > lastPulledAt
  <2> SUFFICES ASSUME NEW id \in Id PROVE HasServed(id) \/ server[id].modified > lastPulledAt
    OBVIOUS
  <2>1. CASE server[id].state = "none"
    BY <1>2, <2>1, AgreesIs DEF HasServed, Absent
  <2>2. CASE server[id].state = "alive"
    BY <1>2, <1>3, <2>2
  <2> QED
    BY <1>3, <2>1, <2>2
<1>5. StampsOrdered
  BY <1>2, <1>3 DEF StampsOrdered, Idle
<1>6. AnswersAreExact /\ AppliedIsServed /\ PushIsCurrent
  BY <1>2 DEF AnswersAreExact, AppliedIsServed, PushIsCurrent, Idle, In, NoLocals, Absent
<1>7. UnservedIsOurs /\ NothingSkipped
  <2>1. UnservedIsOurs
    BY <1>2 DEF UnservedIsOurs, Absent
  <2>2. NothingSkipped
    BY <1>2, <1>3, <1>8 DEF NothingSkipped
  <2> QED
    BY <2>1, <2>2
<1> QED
  BY <1>1, <1>4, <1>5, <1>6, <1>7 DEF CallInv

(* No change that the user makes loses what the server wrote. *)
LEMMA UserKeepsServed ==
    ASSUME TypeOK, NEW i \in Id, User(i), NEW id \in Id
    PROVE  /\ HasServed(id) => HasServed(id)'
           /\ UNCHANGED <<server, clock, lastPulledAt, sync>>
           /\ local'[id].status = "none" => local[id].status = "none"
           /\ local[id].status = "none" /\ local'[id].status # "none" =>
                server[id].state = "none" /\ local'[id].status = "created"
                /\ \A s \in Sync : sync[s].pushed[id] = Absent
           /\ local[id].status = "deleted" => local'[id] = local[id]
           /\ local'[id].status \in {"synced", "updated"} =>
                local[id].status \in {"synced", "updated"}
           /\ local'[id].status = "created" => local[id].status \in {"none", "created"}
<1>1. local \in [Id -> Local] /\ local[id] \in Local /\ server[id] \in Remote
  BY DEF TypeOK
<1>2. UNCHANGED <<server, clock, lastPulledAt, sync>>
  BY DEF User, LocalCreate, LocalUpdate, LocalDelete, UserWrites
<1>3. CASE id # i
  <2>1. local'[id] = local[id]
    BY <1>1, <1>3 DEF User, LocalCreate, LocalUpdate, LocalDelete, UserWrites
  <2> QED
    BY <1>2, <2>1 DEF HasServed
<1>4. CASE id = i /\ LocalCreate(i)
  <2>1. local'[id].status = "created" /\ local[id].status = "none" /\ server[id].state = "none"
    BY <1>1, <1>4 DEF LocalCreate, UserWrites
  <2>2. \A s \in Sync : sync[s].pushed[id] = Absent
    BY <1>4 DEF LocalCreate
  <2> QED
    BY <1>1, <1>2, <2>1, <2>2, AgreesIs DEF HasServed
<1>5. CASE id = i /\ LocalDelete(i)
  <2>1. local'[id] = [local[id] EXCEPT !.status = "deleted"] /\ IsAlive(local[id])
    BY <1>1, <1>5 DEF LocalDelete, UserWrites
  <2>2. local'[id].status = "deleted"
    BY <1>1, <2>1 DEF Local
  <2> QED
    BY <1>1, <1>2, <2>1, <2>2, AgreesIs DEF HasServed, IsAlive
<1>6. ASSUME NEW d \in Column, id = i, LocalUpdate(i, d)
      PROVE  /\ HasServed(id) => HasServed(id)'
             /\ IsAlive(local[id]) /\ local'[id].status \in {"created", "updated"}
             /\ local'[id].status = "created" <=> local[id].status = "created"
  <2>1. /\ IsAlive(local[id])
        /\ local'[id] = [status  |-> IF local[id].status = "created" THEN "created" ELSE "updated",
                         changed |-> local[id].changed \cup {d},
                         data    |-> [local[id].data EXCEPT ![d] = edits']]
    BY <1>1, <1>6 DEF LocalUpdate, UserWrites
  <2>2. \A c \in Column : c \in local'[id].changed \/ local'[id].data[c] = local[id].data[c]
    BY <1>1, <2>1 DEF Local, Data
  <2>3. local[id].changed \subseteq local'[id].changed
    BY <2>1
  <2>4. /\ local'[id].status \in {"created", "updated"}
        /\ local'[id].status = "created" <=> local[id].status = "created"
    BY <2>1
  <2>5. HasServed(id) => HasServed(id)'
    <3> SUFFICES ASSUME HasServed(id) PROVE HasServed(id)'
      OBVIOUS
    <3>1. server[id].state = "none" => local'[id].status \in {"none", "created", "deleted"}
      BY <1>1, <2>1, <2>4, AgreesIs DEF HasServed, IsAlive
    <3>2. server[id].state # "deleted"
      BY <1>1, <2>1, AgreesIs DEF HasServed, IsAlive
    <3>3. server[id].state = "alive" =>
            \A c \in Column : c \in local[id].changed \/ local[id].data[c] = server[id].data[c]
      BY <1>1, <2>1, AgreesIs DEF HasServed
    <3>4. server[id].state = "alive" =>
            \A c \in Column : c \in local'[id].changed \/ local'[id].data[c] = server[id].data[c]
      BY <2>2, <2>3, <3>3
    <3>5. local'[id].status # "none"
      BY <2>4
    <3>6. Agrees(local'[id], server[id])
      BY <1>1, <3>1, <3>2, <3>4, <3>5, AgreesIs
    <3> QED
      BY <1>2, <3>6 DEF HasServed
  <2> QED
    BY <2>1, <2>4, <2>5
<1> QED
  BY <1>1, <1>2, <1>3, <1>4, <1>5, <1>6 DEF User, IsAlive
LEMMA UserKeepsCall ==
    ASSUME CallInv, NEW i \in Id, User(i), TypeOK'
    PROVE  CallInv'
<1>1. UNCHANGED <<server, clock, lastPulledAt, sync>>
  BY UserKeepsServed DEF CallInv
<1>2. \A id \in Id :
        /\ HasServed(id) => HasServed(id)'
        /\ local[id].status = "none" /\ local'[id].status # "none" =>
             server[id].state = "none" /\ local'[id].status = "created"
             /\ \A s \in Sync : sync[s].pushed[id] = Absent
        /\ local[id].status = "deleted" => local'[id] = local[id]
        /\ local'[id].status \in {"synced", "updated"} => local[id].status \in {"synced", "updated"}
        /\ local'[id].status = "created" => local[id].status \in {"none", "created"}
  BY UserKeepsServed DEF CallInv
<1>3. \A id \in Id : local'[id].status \in {"none", "synced", "created", "updated", "deleted"}
  BY DEF TypeOK, Local
<1>4. DeletionIsFinal'
  <2> SUFFICES ASSUME NEW s \in Sync, NEW id \in Id
               PROVE  /\ sync[s].changes[id].kind = "deleted" => server[id].state = "deleted"
                      /\ sync[s].pushed[id].status = "deleted" => local'[id].status # "created"
    BY <1>1 DEF DeletionIsFinal
  <2>1. /\ sync[s].changes[id].kind = "deleted" => server[id].state = "deleted"
        /\ sync[s].pushed[id].status = "deleted" => local[id].status = "deleted"
    BY DEF CallInv, DeletionIsFinal, PushIsCurrent
  <2> QED
    BY <1>2, <2>1
<1>5. StampsOrdered' /\ KnownInPhase'
  BY <1>1 DEF CallInv, StampsOrdered, KnownInPhase
<1>6. AnswersAreExact'
  <2> SUFFICES ASSUME NEW s \in Sync, NEW id \in Id,
                      sync[s].phase \in {"pulled", "applying", "saving"}
               PROVE  LET change == sync[s].changes[id] IN
                      /\ server[id].modified <= sync[s].timestamp =>
                           IsAnswer(change, server[id], sync[s].lastPulledAt)
                      /\ change.kind = "created" => server[id].modified > sync[s].lastPulledAt
                      /\ change.kind = "missing" =>
                           server[id].state # "alive" \/ local'[id].status = "none"
    BY <1>1 DEF AnswersAreExact
  <2> QED
    BY <1>2 DEF CallInv, AnswersAreExact
<1>7. AppliedIsServed' /\ NothingSkipped'
  BY <1>1, <1>2 DEF CallInv, AppliedIsServed, NothingSkipped, In
<1>8. UnservedIsOurs'
  BY <1>1, <1>2, <1>3 DEF CallInv, UnservedIsOurs
<1>9. PushIsCurrent'
  <2>1. \A s \in Sync, id \in Id : sync[s].pushed[id].status = "deleted" => local'[id].status = "deleted"
    BY <1>2 DEF CallInv, PushIsCurrent
  <2> QED
    BY <1>1, <2>1 DEF CallInv, PushIsCurrent, In
<1> QED
  BY <1>4, <1>5, <1>6, <1>7, <1>8, <1>9 DEF CallInv

(* A change of the server, with the call where it was or ended. *)
LEMMA ServerKeepsCall ==
    ASSUME CallInv, [Next]_vars, UNCHANGED <<local, lastPulledAt>>, TypeOK',
           \A s \in Sync : sync'[s] = sync[s] \/ sync'[s] = Idle,
           \A id \in Id : server[id].state = "none" /\ server'[id].state = "alive" =>
               local[id].status = "none" \/ \A s \in Sync : sync'[s] = Idle
    PROVE  CallInv'
<1>1. \A id \in Id :
        \/ server'[id] = server[id] /\ clock' >= clock
        \/ /\ server'[id].modified = clock + 1 /\ clock' = clock + 1
           /\ server'[id].created <= clock + 1
           /\ server'[id].state \in {"alive", "deleted"}
           /\ server[id].state = "deleted" => server'[id].state = "deleted"
  BY ServerMoves DEF CallInv
<1>2. /\ clock \in Nat /\ lastPulledAt \in Nat /\ lastPulledAt <= clock
      /\ \A s \in Sync : sync[s].timestamp \in Nat /\ sync[s].timestamp <= clock
      /\ \A id \in Id : server[id].modified \in Nat /\ server[id].created \in Nat
      /\ \A id \in Id : server[id].state \in {"none", "alive", "deleted"}
  BY DEF CallInv, TypeOK, Remote
<1>3. \A id \in Id, t \in Nat : t <= clock /\ server'[id].modified <= t =>
         server'[id] = server[id]
  BY <1>1, <1>2
<1>4. \A s \in Sync : sync'[s] # Idle => sync'[s] = sync[s]
  OBVIOUS
<1>5. DeletionIsFinal'
  <2> SUFFICES ASSUME NEW s \in Sync, NEW id \in Id
               PROVE  /\ sync'[s].changes[id].kind = "deleted" => server'[id].state = "deleted"
                      /\ sync'[s].pushed[id].status = "deleted" => local'[id].status # "created"
    BY DEF DeletionIsFinal
  <2>1. server[id].state = "deleted" => server'[id].state = "deleted"
    BY <1>1
  <2>2. CASE sync'[s] = sync[s]
    BY <2>1, <2>2 DEF CallInv, DeletionIsFinal
  <2>3. CASE sync'[s] = Idle
    BY <2>3 DEF Idle, NoChanges, NoChange, NoLocals, Absent
  <2> QED
    BY <2>2, <2>3
<1>6. StampsOrdered'
  <2>1. \A id \in Id : /\ server'[id].modified <= clock'
                       /\ server'[id].created <= server'[id].modified
                       /\ server'[id].state = "none" => server'[id].modified = 0
    <3>1. clock' \in Nat
      BY DEF TypeOK
    <3>2. \A id \in Id : /\ server[id].modified <= clock
                         /\ server[id].created <= server[id].modified
                         /\ server[id].state = "none" => server[id].modified = 0
      BY DEF CallInv, StampsOrdered
    <3> QED
      BY <1>1, <1>2, <3>1, <3>2
  <2> QED
    BY <1>4, <2>1 DEF CallInv, StampsOrdered, Idle
<1>7. KnownInPhase'
  BY <1>4 DEF CallInv, KnownInPhase, Idle
<1>8. AnswersAreExact'
  <2> SUFFICES ASSUME NEW s \in Sync, NEW id \in Id,
                      sync'[s].phase \in {"pulled", "applying", "saving"}
               PROVE  LET change == sync'[s].changes[id] IN
                      /\ server'[id].modified <= sync'[s].timestamp =>
                           IsAnswer(change, server'[id], sync'[s].lastPulledAt)
                      /\ change.kind = "created" => server'[id].modified > sync'[s].lastPulledAt
                      /\ change.kind = "missing" =>
                           server'[id].state # "alive" \/ local'[id].status = "none"
    BY DEF AnswersAreExact
  <2>1. sync'[s] = sync[s] /\ sync'[s] # Idle
    BY <1>4 DEF Idle
  <2>2. /\ server[id].modified <= sync[s].timestamp =>
             IsAnswer(sync[s].changes[id], server[id], sync[s].lastPulledAt)
        /\ sync[s].changes[id].kind = "created" => server[id].modified > sync[s].lastPulledAt
        /\ sync[s].changes[id].kind = "missing" =>
             server[id].state # "alive" \/ local[id].status = "none"
    BY <2>1 DEF CallInv, AnswersAreExact
  <2>3. sync[s].lastPulledAt = lastPulledAt
    BY <2>1 DEF CallInv, StampsOrdered
  <2>4. server'[id].modified <= sync[s].timestamp => server'[id] = server[id]
    BY <1>2, <1>3
  <2>5. server[id].modified > lastPulledAt => server'[id].modified > lastPulledAt
    BY <1>1, <1>2
  <2>6. server[id].state # "alive" /\ server'[id].state = "alive" => local[id].status = "none"
    BY <1>1, <1>2, <2>1
  <2> QED
    BY <2>1, <2>2, <2>3, <2>4, <2>5, <2>6
<1>9. AppliedIsServed'
  BY <1>2, <1>3, <1>4 DEF CallInv, AppliedIsServed, HasServed, Idle, In
<1>10. NothingSkipped'
  BY <1>2, <1>3 DEF CallInv, NothingSkipped, HasServed
<1>11. UnservedIsOurs'
  BY <1>1 DEF CallInv, UnservedIsOurs
<1>12. PushIsCurrent'
  <2>1. ASSUME NEW s \in Sync, NEW id \in Id, sync'[s] = sync[s], sync'[s] # Idle
        PROVE  LET p == sync[s].pushed[id] IN
               /\ In(s, "pushing") /\ p.status \in {"created", "updated"}
                    /\ server'[id].state = "alive" /\ server'[id].modified <= sync[s].timestamp =>
                      \A c \in Column \ p.changed : p.data[c] = server'[id].data[c]
               /\ In(s, "pushed") /\ p.status \in {"created", "updated"} /\ id \notin sync[s].rejected =>
                      server'[id].state # "none" /\ server'[id].modified > lastPulledAt
               /\ (In(s, "pushed") \/ In(s, "destroying")) /\ p.status = "deleted"
                    /\ id \notin sync[s].rejected => server'[id].state # "alive"
               /\ p.status = "deleted" => local[id].status = "deleted"
    <3>1. server'[id].modified <= sync[s].timestamp => server'[id] = server[id]
      BY <1>2, <1>3
    <3>2. server[id].modified > lastPulledAt => server'[id].modified > lastPulledAt
      BY <1>1, <1>2
    <3>3. server[id].state # "none" => server'[id].state # "none"
      BY <1>1
    <3>4. server[id].state # "alive" /\ server'[id].state = "alive" => local[id].status = "none"
      BY <1>1, <1>2, <2>1
    <3> QED
      BY <2>1, <3>1, <3>2, <3>3, <3>4 DEF CallInv, PushIsCurrent
  <2>2. \A s \in Sync, id \in Id :
          /\ Idle.phase = "idle" /\ Idle.pushed[id].status = "none"
    BY DEF Idle, NoLocals, Absent
  <2>3. \A s \in Sync : sync'[s] # Idle => sync'[s] = sync[s]
    BY <1>4
  <2> QED
    BY <2>1, <2>2, <2>3 DEF PushIsCurrent, In
<1> QED
  BY <1>5, <1>6, <1>7, <1>8, <1>9, <1>10, <1>11, <1>12 DEF CallInv
(* Steps that change neither the database nor the server. *)
LEMMA StartKeepsCall ==
    ASSUME CallInv, OneCall, NEW s \in Sync, Start(s), TypeOK'
    PROVE  CallInv'
<1>1. \A t \in Sync : t = s
  BY DEF OneCall
<1>2. UNCHANGED <<server, clock, local, lastPulledAt>>
  BY DEF Start
<1>3. /\ sync'[s].phase = "pulling" /\ sync'[s].lastPulledAt = lastPulledAt
      /\ sync'[s].changes = NoChanges /\ sync'[s].pushed = NoLocals
  BY DEF Start, Idle, CallInv, TypeOK
<1>4. DeletionIsFinal'
  BY <1>1, <1>2, <1>3 DEF DeletionIsFinal, NoChanges, NoChange, NoLocals, Absent
<1>5. StampsOrdered' /\ KnownInPhase'
  BY <1>1, <1>2, <1>3 DEF CallInv, StampsOrdered, KnownInPhase
<1>6. AnswersAreExact' /\ AppliedIsServed'
  BY <1>1, <1>3 DEF AnswersAreExact, AppliedIsServed, In
<1>7. UnservedIsOurs' /\ NothingSkipped'
  BY <1>2 DEF CallInv, UnservedIsOurs, NothingSkipped, HasServed
<1>8. PushIsCurrent'
  BY <1>1, <1>3 DEF PushIsCurrent, In, NoLocals, Absent
<1> QED
  BY <1>4, <1>5, <1>6, <1>7, <1>8 DEF CallInv

LEMMA PullKeepsCall ==
    ASSUME CallInv, OneCall, NEW s \in Sync, Pull(s), TypeOK'
    PROVE  CallInv'
<1>1. \A t \in Sync : t = s
  BY DEF OneCall
<1>2. UNCHANGED <<server, clock, local, lastPulledAt>>
  BY DEF Pull
<1>3. PICK strategy \in Strategies :
         sync' = [sync EXCEPT ![s].phase = "pulled",
                              ![s].changes = ChangesSince(sync[s].lastPulledAt, strategy),
                              ![s].timestamp = clock]
  BY DEF Pull
<1>4. /\ sync'[s].phase = "pulled" /\ sync'[s].lastPulledAt = sync[s].lastPulledAt
      /\ sync'[s].changes = ChangesSince(sync[s].lastPulledAt, strategy)
      /\ sync'[s].timestamp = clock /\ sync'[s].pushed = sync[s].pushed
  <2>1. sync = [t \in Sync |-> sync[t]] /\ sync[s] \in Progress(0..clock)
    BY DEF CallInv, TypeOK, Progress
  <2> QED
    BY <1>3, <2>1 DEF Progress
<1>5. sync[s].lastPulledAt = lastPulledAt /\ sync[s].pushed = NoLocals
  BY DEF Pull, In, CallInv, StampsOrdered, KnownInPhase
<1>6. ASSUME NEW id \in Id
      PROVE  LET change == sync'[s].changes[id] IN
             /\ change.kind = "deleted" => server[id].state = "deleted"
             /\ IsAnswer(change, server[id], lastPulledAt)
             /\ change.kind = "created" => server[id].modified > lastPulledAt
             /\ change.kind = "missing" => server[id].state # "alive"
  <2> DEFINE change == sync'[s].changes[id]
             r      == server[id]
  <2>1. \/ change.kind = "deleted" /\ r.state = "deleted" /\ r.modified > lastPulledAt
        \/ /\ change.kind \in {"created", "updated"}
           /\ r.state = "alive" /\ change.data = r.data
           /\ change.kind = "created" => r.created > lastPulledAt
        \/ /\ change.kind \in {"missing", "none"}
           /\ change.kind = "missing" => r.state # "alive"
           /\ r.state \in {"alive", "deleted"} => ~(r.modified > lastPulledAt)
    BY <1>4, <1>5, ChangesSinceIs
  <2>2. /\ r.state \in {"none", "alive", "deleted"} /\ r.modified \in Nat /\ r.created \in Nat
        /\ r.created <= r.modified /\ lastPulledAt \in Nat
    BY DEF CallInv, TypeOK, Remote, StampsOrdered
  <2> HIDE DEF change, r
  <2>3. CASE change.kind = "deleted" /\ r.state = "deleted" /\ r.modified > lastPulledAt
    BY <2>3 DEF IsAnswer, change, r
  <2>4. CASE /\ change.kind \in {"created", "updated"}
             /\ r.state = "alive" /\ change.data = r.data
             /\ change.kind = "created" => r.created > lastPulledAt
    <3>1. IsAnswer(change, r, lastPulledAt)
      BY <2>4 DEF IsAnswer
    <3>2. change.kind = "created" => r.modified > lastPulledAt
      BY <2>2, <2>4
    <3> QED
      BY <2>4, <3>1, <3>2 DEF change, r
  <2>5. CASE /\ change.kind \in {"missing", "none"}
             /\ change.kind = "missing" => r.state # "alive"
             /\ r.state \in {"alive", "deleted"} => ~(r.modified > lastPulledAt)
    <3>1. IsAnswer(change, r, lastPulledAt)
      <4>1. r.state \in {"alive", "deleted"} => r.modified <= lastPulledAt
        BY <2>2, <2>5
      <4>2. CASE r.state = "alive"
        BY <2>5, <4>1, <4>2 DEF IsAnswer
      <4>3. CASE r.state = "deleted"
        BY <2>5, <4>1, <4>3 DEF IsAnswer
      <4>4. CASE r.state = "none"
        BY <2>5, <4>4 DEF IsAnswer
      <4> QED
        BY <2>2, <4>2, <4>3, <4>4
    <3> QED
      BY <2>5, <3>1 DEF change, r
  <2> QED
    BY <2>1, <2>3, <2>4, <2>5
<1>7. DeletionIsFinal'
  BY <1>1, <1>2, <1>4, <1>5, <1>6 DEF DeletionIsFinal, NoLocals, Absent
<1>8. StampsOrdered' /\ KnownInPhase'
  <2>1. lastPulledAt <= clock
    BY DEF CallInv, TypeOK
  <2> QED
    BY <1>1, <1>2, <1>4, <1>5, <2>1 DEF CallInv, StampsOrdered, KnownInPhase
<1>9. AnswersAreExact' /\ AppliedIsServed'
  BY <1>1, <1>2, <1>4, <1>5, <1>6 DEF AnswersAreExact, AppliedIsServed, In
<1>10. UnservedIsOurs' /\ NothingSkipped'
  BY <1>2 DEF CallInv, UnservedIsOurs, NothingSkipped, HasServed
<1>11. PushIsCurrent'
  BY <1>1, <1>4, <1>5 DEF PushIsCurrent, In, NoLocals, Absent
<1> QED
  BY <1>7, <1>8, <1>9, <1>10, <1>11 DEF CallInv

LEMMA FetchKeepsCall ==
    ASSUME CallInv, OneCall, NEW s \in Sync, FetchLocal(s), [Next]_vars, TypeOK'
    PROVE  CallInv'
<1>1. \A t \in Sync : t = s
  BY DEF OneCall
<1>2. UNCHANGED <<server, clock, local, lastPulledAt>>
  BY DEF FetchLocal
<1> DEFINE pushed == [id \in Id |-> IF IsLocalChange(local[id]) THEN local[id] ELSE Absent]
<1>3. CASE sync'[s] = Idle
  BY <1>1, <1>2, <1>3, ServerKeepsCall
<1>4. CASE sync'[s] # Idle
  <2>1. /\ sync'[s].phase = "pushing" /\ sync'[s].pushed = pushed
        /\ sync'[s].timestamp = sync[s].timestamp /\ sync'[s].changes = sync[s].changes
    <3>1. sync = [t \in Sync |-> sync[t]] /\ sync[s] \in Progress(0..clock)
      BY DEF CallInv, TypeOK, Progress
    <3> QED
      BY <1>4, <3>1 DEF FetchLocal, Progress
  <2>2. sync[s].timestamp = lastPulledAt /\ sync[s].changes = NoChanges
    BY DEF FetchLocal, In, CallInv, StampsOrdered, KnownInPhase
  <2>3. \A id \in Id : \/ pushed[id] = local[id]
                       \/ pushed[id].status = "none"
    BY DEF Absent
  <2>4. DeletionIsFinal'
    BY <1>1, <1>2, <2>1, <2>2, <2>3 DEF DeletionIsFinal, NoChanges, NoChange
  <2>5. StampsOrdered' /\ KnownInPhase'
    BY <1>1, <1>2, <2>1, <2>2 DEF CallInv, StampsOrdered, KnownInPhase
  <2>6. AnswersAreExact' /\ AppliedIsServed'
    BY <1>1, <2>1 DEF AnswersAreExact, AppliedIsServed, In
  <2>7. UnservedIsOurs' /\ NothingSkipped'
    BY <1>2 DEF CallInv, UnservedIsOurs, NothingSkipped, HasServed
  <2>8. ASSUME NEW id \in Id, pushed[id].status \in {"created", "updated"},
               server[id].state = "alive", server[id].modified <= lastPulledAt,
               NEW c \in Column \ pushed[id].changed
        PROVE  pushed[id].data[c] = server[id].data[c]
    <3>1. pushed[id] = local[id] /\ IsAlive(local[id])
      BY <2>3, <2>8 DEF IsAlive
    <3>2. HasServed(id) /\ server[id] \in Remote
      BY <2>8 DEF CallInv, NothingSkipped, TypeOK
    <3> QED
      BY <2>8, <3>1, <3>2, AgreesIs DEF HasServed
  <2>9. PushIsCurrent'
    <3> HIDE DEF pushed
    <3>1. \A id \in Id : pushed[id].status = "deleted" => local[id].status = "deleted"
      BY <2>3
    <3> QED
      BY <1>1, <1>2, <2>1, <2>2, <2>8, <3>1 DEF PushIsCurrent, In
  <2> QED
    BY <2>4, <2>5, <2>6, <2>7, <2>9 DEF CallInv
<1> QED
  BY <1>3, <1>4
(* Steps that change the database. *)
LEMMA ApplyKeepsCall ==
    ASSUME CallInv, OneCall, NEW s \in Sync, Apply(s), TypeOK'
    PROVE  CallInv'
<1>1. \A t \in Sync : t = s
  BY DEF OneCall
<1>2. UNCHANGED <<server, clock, lastPulledAt>>
  BY DEF Apply
<1>3. /\ sync'[s].phase = "applying" /\ sync'[s].left = Id
      /\ sync'[s].changes = sync[s].changes /\ sync'[s].pushed = sync[s].pushed
      /\ sync'[s].timestamp = sync[s].timestamp /\ sync'[s].lastPulledAt = sync[s].lastPulledAt
  <2>1. sync = [t \in Sync |-> sync[t]] /\ sync[s] \in Progress(0..clock)
    BY DEF CallInv, TypeOK, Progress
  <2> QED
    BY <2>1 DEF Apply, Progress
<1>4. sync[s].phase = "pulled" /\ sync[s].pushed = NoLocals
  BY DEF Apply, In, CallInv, KnownInPhase
<1>5. \A id \in Id : \/ local'[id] = local[id]
                     \/ /\ IsDeletedToDestroy(local[id], sync[s].changes[id])
                        /\ local'[id] = Absent
  BY DEF Apply
<1>6. sync[s].lastPulledAt = lastPulledAt /\ lastPulledAt <= sync[s].timestamp
  BY <1>4 DEF CallInv, StampsOrdered
<1>7. /\ lastPulledAt \in Nat /\ sync[s].timestamp \in Nat
      /\ \A id \in Id : server[id].modified \in Nat /\ server[id] \in Remote
  BY DEF CallInv, TypeOK, Remote
<1>8. ASSUME NEW id \in Id
      PROVE  /\ server[id].modified <= sync[s].timestamp =>
                  IsAnswer(sync[s].changes[id], server[id], lastPulledAt)
             /\ sync[s].changes[id].kind = "created" => server[id].modified > lastPulledAt
             /\ sync[s].changes[id].kind = "missing" =>
                  server[id].state # "alive" \/ local[id].status = "none"
             /\ sync[s].changes[id].kind = "deleted" => server[id].state = "deleted"
  BY <1>4, <1>6 DEF CallInv, AnswersAreExact, DeletionIsFinal
<1>9. DeletionIsFinal'
  BY <1>1, <1>2, <1>3, <1>4, <1>8 DEF DeletionIsFinal, NoLocals, Absent
<1>10. StampsOrdered' /\ KnownInPhase'
  BY <1>1, <1>2, <1>3, <1>4 DEF CallInv, StampsOrdered, KnownInPhase
<1>11. AnswersAreExact'
  BY <1>1, <1>2, <1>3, <1>5, <1>6, <1>8 DEF AnswersAreExact, Absent
<1>12. AppliedIsServed'
  BY <1>1, <1>3 DEF AppliedIsServed, In
<1>13. UnservedIsOurs'
  BY <1>2, <1>5 DEF CallInv, UnservedIsOurs, Absent
<1>14. PushIsCurrent'
  BY <1>1, <1>3, <1>4 DEF PushIsCurrent, In, NoLocals, Absent
<1>15. NothingSkipped'
  <2> SUFFICES ASSUME NEW id \in Id, server[id].modified <= lastPulledAt,
                      local'[id] = Absent, IsDeletedToDestroy(local[id], sync[s].changes[id])
               PROVE  Agrees(local'[id], server[id])
    BY <1>2, <1>5 DEF CallInv, NothingSkipped, HasServed
  <2>1. sync[s].changes[id].kind \in {"deleted", "missing"}
    BY <1>7, <1>8 DEF IsDeletedToDestroy, IsToDestroy
  <2>2. local[id].status = "deleted"
    BY DEF IsDeletedToDestroy
  <2>3. server[id].state # "alive"
    BY <1>8, <2>1, <2>2
  <2> QED
    BY <1>7, <2>3, AgreesIs DEF Absent
<1> QED
  BY <1>9, <1>10, <1>11, <1>12, <1>13, <1>14, <1>15 DEF CallInv

(* What becomes of a record that the server did not change since it was pulled. *)
LEMMA AppliedAgrees ==
    ASSUME NEW loc \in Local, NEW change \in Change, NEW r \in Remote, NEW since \in Nat,
           IsAnswer(change, r, since),
           r.modified <= since => Agrees(loc, r),
           r.state = "none" => loc.status \in {"none", "created", "deleted"},
           change.kind = "missing" => r.state # "alive" \/ loc.status = "none"
    PROVE  Agrees(Applied(loc, change), r)
<1> DEFINE next == Applied(loc, change)
<1>1. r.state \in {"none", "alive", "deleted"} /\ r.modified \in Nat
      /\ loc.status \in {"none", "synced", "created", "updated", "deleted"}
  BY DEF Remote, Local
<1>2. \/ next = loc
      \/ next = Absent /\ IsToDestroy(loc, change)
      \/ /\ change.kind \in {"created", "updated"} /\ IsAlive(loc)
         /\ next = resolveConflict(loc, change.data)
      \/ /\ change.kind \in {"created", "updated"} /\ ~IsAlive(loc)
         /\ next = [status |-> "synced", changed |-> {}, data |-> change.data]
  BY DEF Applied
<1>3. CASE r.state = "none"
  <2>1. change.kind \in {"missing", "none"}
    BY <1>3 DEF IsAnswer
  <2>2. next = loc \/ next = Absent
    BY <1>2, <2>1
  <2> QED
    BY <1>3, <2>2, AgreesIs DEF Absent
<1>4. CASE r.state = "deleted"
  <2>1. \/ change.kind = "deleted"
        \/ change.kind \in {"missing", "none"} /\ r.modified <= since
    BY <1>4 DEF IsAnswer
  <2>2. CASE change.kind = "deleted"
    <3>1. next = Absent
      BY <2>2 DEF Applied, IsToDestroy
    <3> QED
      BY <1>4, <3>1, AgreesIs DEF Absent
  <2>3. CASE change.kind \in {"missing", "none"} /\ r.modified <= since
    <3>1. loc.status = "none"
      BY <1>4, <2>3, AgreesIs
    <3>2. next = loc \/ next = Absent
      BY <1>2, <2>3
    <3> QED
      BY <1>4, <3>1, <3>2, AgreesIs DEF Absent
  <2> QED
    BY <2>1, <2>2, <2>3
<1>5. CASE r.state = "alive"
  <2>1. \/ change.kind \in {"created", "updated"} /\ change.data = r.data
        \/ change.kind = "none" /\ r.modified <= since
    BY <1>5 DEF IsAnswer
  <2>2. CASE change.kind = "none" /\ r.modified <= since
    <3>1. next = loc
      BY <2>2 DEF Applied, IsToDestroy
    <3> QED
      BY <2>2, <3>1
  <2>3. CASE change.kind \in {"created", "updated"} /\ change.data = r.data /\ IsAlive(loc)
    <3>1. next = resolveConflict(loc, r.data)
      <4>1. ~IsToDestroy(loc, change)
        BY <2>3 DEF IsToDestroy
      <4>2. loc.status # "deleted"
        BY <2>3 DEF IsAlive
      <4> QED
        BY <2>3, <4>1, <4>2 DEF Applied
    <3>2. /\ next.status = loc.status /\ next.changed = loc.changed
          /\ \A c \in Column : c \notin loc.changed => next.data[c] = r.data[c]
      BY <3>1 DEF resolveConflict, Local
    <3> QED
      BY <1>5, <2>3, <3>2, AgreesIs DEF IsAlive
  <2>4. CASE change.kind \in {"created", "updated"} /\ change.data = r.data
             /\ loc.status = "deleted"
    <3>1. next = loc
      BY <2>4 DEF Applied, IsToDestroy, IsAlive
    <3> QED
      BY <1>5, <2>4, <3>1, AgreesIs DEF IsAlive
  <2>5. CASE change.kind \in {"created", "updated"} /\ change.data = r.data
             /\ loc.status = "none"
    <3>1. next = [status |-> "synced", changed |-> {}, data |-> r.data]
      BY <2>5 DEF Applied, IsToDestroy, IsAlive
    <3> QED
      BY <1>5, <3>1, AgreesIs
  <2> QED
    BY <1>1, <2>1, <2>2, <2>3, <2>4, <2>5 DEF IsAlive
<1> QED
  BY <1>1, <1>3, <1>4, <1>5

LEMMA ApplyBatchKeepsCall ==
    ASSUME CallInv, OneCall, NEW s \in Sync, ApplyBatch(s), TypeOK'
    PROVE  CallInv'
<1>1. \A t \in Sync : t = s
  BY DEF OneCall
<1>2. UNCHANGED <<server, clock, lastPulledAt>>
  BY DEF ApplyBatch
<1>3. PICK ids \in SUBSET sync[s].left \ {{}} :
         /\ local' = [id \in Id |-> IF id \in ids THEN Applied(local[id], sync[s].changes[id])
                                    ELSE local[id]]
         /\ sync' = [sync EXCEPT ![s].left = @ \ ids,
                                 ![s].phase = IF ids = sync[s].left THEN "saving" ELSE @]
  BY DEF ApplyBatch
<1>4. /\ sync'[s].left = sync[s].left \ ids
      /\ \/ sync'[s].phase = "applying"
         \/ sync'[s].phase = "saving" /\ ids = sync[s].left
      /\ sync'[s].changes = sync[s].changes /\ sync'[s].pushed = sync[s].pushed
      /\ sync'[s].timestamp = sync[s].timestamp /\ sync'[s].lastPulledAt = sync[s].lastPulledAt
  <2>1. sync = [t \in Sync |-> sync[t]] /\ sync[s] \in Progress(0..clock)
    BY DEF CallInv, TypeOK, Progress
  <2> QED
    BY <1>3, <2>1 DEF Progress, ApplyBatch, In
<1>5. sync[s].phase = "applying" /\ sync[s].pushed = NoLocals
  BY DEF ApplyBatch, In, CallInv, KnownInPhase
<1>6. sync[s].lastPulledAt = lastPulledAt /\ lastPulledAt <= sync[s].timestamp
  BY <1>5 DEF CallInv, StampsOrdered
<1>7. /\ lastPulledAt \in Nat /\ sync[s].timestamp \in Nat
      /\ \A id \in Id : /\ server[id].modified \in Nat /\ server[id] \in Remote
                        /\ local[id] \in Local /\ sync[s].changes[id] \in Change
  BY DEF CallInv, TypeOK, Remote
<1>8. ASSUME NEW id \in Id
      PROVE  /\ server[id].modified <= sync[s].timestamp =>
                  IsAnswer(sync[s].changes[id], server[id], lastPulledAt)
             /\ sync[s].changes[id].kind = "created" => server[id].modified > lastPulledAt
             /\ sync[s].changes[id].kind = "missing" =>
                  server[id].state # "alive" \/ local[id].status = "none"
             /\ sync[s].changes[id].kind = "deleted" => server[id].state = "deleted"
             /\ server[id].modified <= lastPulledAt => Agrees(local[id], server[id])
             /\ server[id].state = "none" => local[id].status \in {"none", "created", "deleted"}
  BY <1>5, <1>6
     DEF CallInv, AnswersAreExact, DeletionIsFinal, NothingSkipped, HasServed, UnservedIsOurs
<1>9. ASSUME NEW id \in Id, id \in ids
      PROVE  server[id].modified <= sync[s].timestamp => Agrees(local'[id], server[id])
  <2>1. local'[id] = Applied(local[id], sync[s].changes[id])
    BY <1>3, <1>9
  <2> QED
    BY <1>7, <1>8, <2>1, AppliedAgrees
<1>10. ASSUME NEW id \in Id, id \notin ids
       PROVE  local'[id] = local[id]
  BY <1>3, <1>10
<1>11. DeletionIsFinal'
  BY <1>1, <1>2, <1>4, <1>5, <1>8 DEF DeletionIsFinal, NoLocals, Absent
<1>12. StampsOrdered' /\ KnownInPhase'
  BY <1>1, <1>2, <1>4, <1>5, <1>6 DEF CallInv, StampsOrdered, KnownInPhase
<1>13. AnswersAreExact'
  <2>1. ASSUME NEW id \in Id, sync[s].changes[id].kind = "missing"
        PROVE  server[id].state # "alive" \/ local'[id].status = "none"
    <3>1. local'[id] \in {Absent, local[id]}
      BY <1>3, <2>1 DEF Applied, IsToDestroy
    <3> QED
      BY <1>8, <2>1, <3>1 DEF Absent
  <2> QED
    BY <1>1, <1>2, <1>4, <1>6, <1>8, <2>1 DEF AnswersAreExact
<1>14. AppliedIsServed'
  <2>1. ASSUME NEW id \in Id, id \notin sync[s].left \ ids,
               server[id].modified <= sync[s].timestamp
        PROVE  Agrees(local'[id], server[id])
    <3>1. CASE id \in ids
      BY <1>9, <2>1, <3>1
    <3>2. CASE id \notin ids
      BY <1>5, <1>10, <2>1, <3>2 DEF CallInv, AppliedIsServed, In, HasServed
    <3> QED
      BY <3>1, <3>2
  <2> QED
    BY <1>1, <1>2, <1>4, <2>1 DEF AppliedIsServed, In, HasServed
<1>15. UnservedIsOurs'
  <2> SUFFICES ASSUME NEW id \in Id, server[id].state = "none"
               PROVE  local'[id].status \in {"none", "created", "deleted"}
    BY <1>2 DEF UnservedIsOurs
  <2>1. server[id].modified <= sync[s].timestamp
    BY <1>7 DEF CallInv, StampsOrdered
  <2> QED
    BY <1>7, <1>8, <1>9, <1>10, <2>1, AgreesIs
<1>16. PushIsCurrent'
  BY <1>1, <1>4, <1>5 DEF PushIsCurrent, In, NoLocals, Absent
<1>17. NothingSkipped'
  <2>1. \A id \in Id : server[id].modified <= lastPulledAt => server[id].modified <= sync[s].timestamp
    BY <1>6, <1>7
  <2> QED
    BY <1>2, <1>8, <1>9, <1>10, <2>1 DEF NothingSkipped, HasServed
<1> QED
  BY <1>11, <1>12, <1>13, <1>14, <1>15, <1>16, <1>17 DEF CallInv

LEMMA SaveKeepsCall ==
    ASSUME CallInv, OneCall, NEW s \in Sync, SaveLastPulledAt(s), TypeOK'
    PROVE  CallInv'
<1>1. \A t \in Sync : t = s
  BY DEF OneCall
<1>2. UNCHANGED <<server, clock, local>> /\ lastPulledAt' = sync[s].timestamp
  BY DEF SaveLastPulledAt
<1>3. /\ sync'[s].phase = "fetching" /\ sync'[s].changes = NoChanges
      /\ sync'[s].pushed = sync[s].pushed /\ sync'[s].timestamp = sync[s].timestamp
  <2>1. sync = [t \in Sync |-> sync[t]] /\ sync[s] \in Progress(0..clock)
    BY DEF CallInv, TypeOK, Progress
  <2> QED
    BY <2>1 DEF SaveLastPulledAt, Progress
<1>4. sync[s].phase = "saving" /\ sync[s].pushed = NoLocals
  BY DEF SaveLastPulledAt, In, CallInv, KnownInPhase
<1>5. DeletionIsFinal'
  BY <1>1, <1>3, <1>4 DEF DeletionIsFinal, NoLocals, Absent, NoChanges, NoChange
<1>6. StampsOrdered' /\ KnownInPhase'
  BY <1>1, <1>2, <1>3, <1>4 DEF CallInv, StampsOrdered, KnownInPhase
<1>7. AnswersAreExact' /\ AppliedIsServed'
  BY <1>1, <1>3 DEF AnswersAreExact, AppliedIsServed, In
<1>8. UnservedIsOurs'
  BY <1>2 DEF CallInv, UnservedIsOurs
<1>9. PushIsCurrent'
  BY <1>1, <1>3, <1>4 DEF PushIsCurrent, In, NoLocals, Absent
<1>10. NothingSkipped'
  BY <1>2, <1>4 DEF CallInv, NothingSkipped, AppliedIsServed, HasServed, In
<1> QED
  BY <1>5, <1>6, <1>7, <1>8, <1>9, <1>10 DEF CallInv

LEMMA PushKeepsCall ==
    ASSUME CallInv, OneCall, NEW s \in Sync, Push(s), [Next]_vars, TypeOK'
    PROVE  CallInv'
<1>1. \A t \in Sync : t = s
  BY DEF OneCall
<1>2. UNCHANGED <<local, lastPulledAt>>
  BY DEF Push
<1>3. PICK rejected \in SUBSET {id \in Id : IsPushed(s, id)} :
         /\ Serve(PushedTo(s, rejected))
         /\ sync' = [sync EXCEPT ![s].phase = "pushed", ![s].rejected = rejected]
  BY DEF Push
<1>4. /\ sync'[s].phase = "pushed" /\ sync'[s].rejected = rejected
      /\ sync'[s].changes = sync[s].changes /\ sync'[s].pushed = sync[s].pushed
      /\ sync'[s].timestamp = sync[s].timestamp
  <2>1. sync = [t \in Sync |-> sync[t]] /\ sync[s] \in Progress(0..clock)
    BY DEF CallInv, TypeOK, Progress
  <2> QED
    BY <1>3, <2>1 DEF Progress
<1>5. /\ sync[s].phase = "pushing" /\ sync[s].changes = NoChanges
      /\ sync[s].timestamp = lastPulledAt
  BY DEF Push, In, CallInv, KnownInPhase, StampsOrdered
<1>6. /\ clock \in Nat /\ lastPulledAt \in Nat /\ lastPulledAt <= clock
      /\ \A id \in Id : /\ server[id].modified \in Nat /\ server[id] \in Remote
                        /\ server[id].state \in {"none", "alive", "deleted"}
  BY DEF CallInv, TypeOK, Remote
<1>7. \A id \in Id :
        \/ server'[id] = server[id] /\ clock' >= clock
        \/ /\ server'[id].modified = clock + 1 /\ clock' = clock + 1
           /\ server'[id].created <= clock + 1
           /\ server'[id].state \in {"alive", "deleted"}
           /\ server[id].state = "deleted" => server'[id].state = "deleted"
  BY ServerMoves DEF CallInv
<1>8. clock' = clock + 1
  BY <1>3 DEF Serve
<1>9. ASSUME NEW id \in Id, id \notin rejected
      PROVE  /\ sync[s].pushed[id].status \in {"created", "updated"} =>
                  server'[id].state = "alive" /\ server'[id].modified = clock + 1
             /\ sync[s].pushed[id].status = "deleted" => server'[id].state # "alive"
  <2>1. server'[id] = PushedTo(s, rejected)[id]
    BY <1>3 DEF Serve
  <2>2. CASE sync[s].pushed[id].status \in {"created", "updated"}
    BY <1>9, <2>1, <2>2 DEF PushedTo, Stored
  <2>3. CASE sync[s].pushed[id].status = "deleted" /\ server[id].state = "alive"
    <3>1. server'[id] = Removed(server[id])
      BY <1>9, <2>1, <2>3 DEF PushedTo
    <3> QED
      BY <1>6, <2>3, <3>1 DEF Removed, Remote
  <2>4. CASE sync[s].pushed[id].status = "deleted" /\ server[id].state # "alive"
    BY <1>9, <2>1, <2>4 DEF PushedTo
  <2> QED
    BY <2>2, <2>3, <2>4
<1>10. DeletionIsFinal'
  BY <1>1, <1>2, <1>4, <1>5 DEF CallInv, DeletionIsFinal, NoChanges, NoChange
<1>11. StampsOrdered'
  <2>1. \A id \in Id : /\ server'[id].modified <= clock'
                       /\ server'[id].created <= server'[id].modified
                       /\ server'[id].state = "none" => server'[id].modified = 0
    <3>1. \A id \in Id : /\ server[id].modified <= clock
                         /\ server[id].created <= server[id].modified
                         /\ server[id].state = "none" => server[id].modified = 0
      BY DEF CallInv, StampsOrdered
    <3> QED
      BY <1>6, <1>7, <1>8, <3>1
  <2> QED
    BY <1>1, <1>2, <1>4, <1>5, <2>1 DEF StampsOrdered
<1>12. KnownInPhase'
  BY <1>1, <1>4, <1>5 DEF KnownInPhase
<1>13. AnswersAreExact' /\ AppliedIsServed'
  BY <1>1, <1>4 DEF AnswersAreExact, AppliedIsServed, In
<1>14. UnservedIsOurs'
  BY <1>2, <1>7 DEF CallInv, UnservedIsOurs
<1>15. PushIsCurrent'
  <2>1. \A id \in Id : sync[s].pushed[id].status = "deleted" => local[id].status = "deleted"
    BY DEF CallInv, PushIsCurrent
  <2> QED
    BY <1>1, <1>2, <1>4, <1>6, <1>9, <2>1 DEF PushIsCurrent, In
<1>16. NothingSkipped'
  BY <1>2, <1>6, <1>7 DEF CallInv, NothingSkipped, HasServed
<1> QED
  BY <1>10, <1>11, <1>12, <1>13, <1>14, <1>15, <1>16 DEF CallInv

LEMMA MarkKeepsCall ==
    ASSUME CallInv, OneCall, NEW s \in Sync, Mark(s), TypeOK'
    PROVE  CallInv'
<1>1. \A t \in Sync : t = s
  BY DEF OneCall
<1>2. UNCHANGED <<server, clock, lastPulledAt>>
  BY DEF Mark
<1>3. /\ sync'[s].phase = "destroying" /\ sync'[s].rejected = sync[s].rejected
      /\ sync'[s].changes = sync[s].changes /\ sync'[s].pushed = sync[s].pushed
      /\ sync'[s].timestamp = sync[s].timestamp
  <2>1. sync = [t \in Sync |-> sync[t]] /\ sync[s] \in Progress(0..clock)
    BY DEF CallInv, TypeOK, Progress
  <2> QED
    BY <2>1 DEF Mark, Progress
<1>4. /\ sync[s].phase = "pushed" /\ sync[s].changes = NoChanges
      /\ sync[s].timestamp = lastPulledAt
  BY DEF Mark, In, CallInv, KnownInPhase, StampsOrdered
<1>5. ASSUME NEW id \in Id
      PROVE  \/ local'[id] = local[id]
             \/ /\ sync[s].pushed[id].status \in {"created", "updated"}
                /\ local[id] = sync[s].pushed[id] /\ local'[id].status = "synced"
                /\ server[id].state # "none" /\ server[id].modified > lastPulledAt
  <2>1. local'[id] = IF IsToMark(s, id) THEN Synced(local[id]) ELSE local[id]
    BY DEF Mark
  <2>2. CASE IsToMark(s, id)
    <3>1. local'[id].status = "synced"
      BY <2>1, <2>2 DEF Synced, CallInv, TypeOK, Local
    <3> QED
      BY <1>4, <2>2, <3>1 DEF IsToMark, CallInv, PushIsCurrent, In
  <2> QED
    BY <2>1, <2>2
<1>6. \A id \in Id : sync[s].pushed[id].status = "deleted" => local'[id].status = "deleted"
  BY <1>5 DEF CallInv, PushIsCurrent
<1>7. DeletionIsFinal'
  BY <1>1, <1>3, <1>4, <1>6 DEF DeletionIsFinal, NoChanges, NoChange
<1>8. StampsOrdered' /\ KnownInPhase'
  BY <1>1, <1>2, <1>3, <1>4 DEF CallInv, StampsOrdered, KnownInPhase
<1>9. AnswersAreExact' /\ AppliedIsServed'
  BY <1>1, <1>3 DEF AnswersAreExact, AppliedIsServed, In
<1>10. UnservedIsOurs'
  BY <1>2, <1>5 DEF CallInv, UnservedIsOurs
<1>11. PushIsCurrent'
  BY <1>1, <1>2, <1>3, <1>4, <1>6 DEF CallInv, PushIsCurrent, In
<1>12. NothingSkipped'
  <2>1. lastPulledAt \in Nat /\ \A id \in Id : server[id].modified \in Nat
    BY DEF CallInv, TypeOK, Remote
  <2> QED
    BY <1>2, <1>5, <2>1 DEF CallInv, NothingSkipped, HasServed
<1> QED
  BY <1>7, <1>8, <1>9, <1>10, <1>11, <1>12 DEF CallInv

LEMMA DestroyKeepsCall ==
    ASSUME CallInv, OneCall, NEW s \in Sync, DestroyDeleted(s), TypeOK'
    PROVE  CallInv'
<1>1. \A t \in Sync : t = s
  BY DEF OneCall
<1>2. UNCHANGED <<server, clock, lastPulledAt>>
  BY DEF DestroyDeleted
<1>3. sync'[s] = Idle
  BY DEF DestroyDeleted, CallInv, TypeOK
<1>4. ASSUME NEW id \in Id
      PROVE  \/ local'[id] = local[id]
             \/ local'[id] = Absent /\ server[id].state # "alive"
  BY DEF DestroyDeleted, CallInv, PushIsCurrent, In
<1>5. DeletionIsFinal' /\ PushIsCurrent'
  BY <1>1, <1>3
     DEF DeletionIsFinal, PushIsCurrent, Idle, NoChanges, NoChange, NoLocals, Absent, In
<1>6. StampsOrdered' /\ KnownInPhase'
  BY <1>1, <1>2, <1>3 DEF CallInv, StampsOrdered, KnownInPhase, Idle
<1>7. AnswersAreExact' /\ AppliedIsServed'
  BY <1>1, <1>3 DEF AnswersAreExact, AppliedIsServed, Idle, In
<1>8. UnservedIsOurs'
  BY <1>2, <1>4 DEF CallInv, UnservedIsOurs, Absent
<1>9. NothingSkipped'
  <2> SUFFICES ASSUME NEW id \in Id, server[id].modified <= lastPulledAt
               PROVE  Agrees(local'[id], server[id])
    BY <1>2 DEF NothingSkipped, HasServed
  <2>1. Agrees(local[id], server[id]) /\ server[id] \in Remote
    BY DEF CallInv, NothingSkipped, HasServed, TypeOK
  <2> QED
    BY <1>4, <2>1, AgreesIs DEF Absent
<1> QED
  BY <1>5, <1>6, <1>7, <1>8, <1>9 DEF CallInv

LEMMA CallInvStep ==
    ASSUME CallInv, OneCall, [Next]_vars
    PROVE  CallInv'
<1>1. TypeOK /\ TypeOK'
  BY TypeStep DEF CallInv
<1>2. ASSUME NEW id \in Id, User(id) PROVE CallInv'
  BY <1>1, <1>2, UserKeepsCall
<1>3. ASSUME NEW i \in Id, Others(i) PROVE CallInv'
  <2>1. UNCHANGED <<local, lastPulledAt, sync>>
    BY <1>3 DEF Others, RemoteCreate, RemoteUpdate, RemoteDelete
  <2>2. ASSUME NEW id \in Id, server[id].state = "none", server'[id].state = "alive"
        PROVE  local[id].status = "none"
    BY <1>1, <1>3, <2>2 DEF Others, RemoteCreate, RemoteUpdate, RemoteDelete, Serve, TypeOK
  <2> QED
    BY <1>1, <2>1, <2>2, ServerKeepsCall
<1>4. ASSUME NEW s \in Sync, synchronize(s) PROVE CallInv'
  <2>1. ASSUME AbortConcurrent(s) \/ PushRefused(s) PROVE CallInv'
    <3>1. UNCHANGED <<server, local, lastPulledAt>> /\ \A t \in Sync : sync'[t] = Idle
      BY <1>1, <2>1 DEF AbortConcurrent, PushRefused, Abort, OneCall, TypeOK
    <3> QED
      BY <1>1, <3>1, ServerKeepsCall
  <2> QED
    BY <1>1, <1>4, <2>1, StartKeepsCall, PullKeepsCall, ApplyKeepsCall, ApplyBatchKeepsCall,
       SaveKeepsCall, FetchKeepsCall, PushKeepsCall, MarkKeepsCall, DestroyKeepsCall
       DEF synchronize
<1>5. ASSUME NEW s \in Sync, CallFails(s) PROVE CallInv'
  <2>1. UNCHANGED <<local, lastPulledAt>> /\ \A t \in Sync : sync'[t] = Idle
    BY <1>1, <1>5 DEF CallFails, Abort, OneCall, TypeOK
  <2> QED
    BY <1>1, <2>1, ServerKeepsCall
<1>6. CASE Crash
  <2>1. UNCHANGED <<server, local, lastPulledAt>> /\ \A t \in Sync : sync'[t] = Idle
    BY <1>6 DEF Crash
  <2> QED
    BY <1>1, <2>1, ServerKeepsCall
<1>7. CASE UNCHANGED vars
  BY <1>1, <1>7, ServerKeepsCall DEF vars
<1> QED
  BY <1>2, <1>3, <1>4, <1>5, <1>6, <1>7 DEF Next

(* "Nothing is skipped": while no two calls of synchronize() overlap, whatever the
   server wrote before lastPulledAt is in the local database, up to what the user
   changed there, wherever calls fail, are refused, or are cut short by a crash.  *)
THEOREM NothingIsSkipped == ASSUME OneCall PROVE Spec => []NothingSkipped
<1>1. Init => CallInv
  BY InitialCall
<1>2. CallInv /\ [Next]_vars => CallInv'
  BY CallInvStep
<1>3. CallInv => NothingSkipped
  BY DEF CallInv
<1> QED
  BY <1>1, <1>2, <1>3, PTL DEF Spec
-----------------------------------------------------------------------------
(* What the user did survives. *)

LEMMA DeletedStays ==
    ASSUME TypeOK, [Next]_vars, NEW id \in Id, server[id].state = "deleted"
    PROVE  server'[id].state = "deleted"
<1>1. server = [j \in Id |-> server[j]]
  BY DEF TypeOK
<1>2. ASSUME NEW i \in Id, Others(i) PROVE server'[id] = server[id]
  BY <1>1, <1>2 DEF Others, RemoteCreate, RemoteUpdate, RemoteDelete, Serve
<1>3. ASSUME NEW s \in Sync, NEW rejected, ~HasConflict(s), Serve(PushedTo(s, rejected))
      PROVE  server'[id] = server[id]
  <2>1. sync[s].pushed[id].status \notin {"created", "updated"}
    BY <1>3 DEF HasConflict, IsConflict, IsPushed
  <2> QED
    BY <1>3, <2>1 DEF Serve, PushedTo
<1>4. ASSUME ~ UNCHANGED <<server, clock, served>>
      PROVE  \/ \E i \in Id : Others(i)
             \/ \E s \in Sync : \E rejected :
                   ~HasConflict(s) /\ Serve(PushedTo(s, rejected))
  BY <1>4 DEF Next, vars, User, LocalCreate, LocalUpdate, LocalDelete, UserWrites, synchronize,
        Start, Pull, AbortConcurrent, Apply, ApplyBatch, SaveLastPulledAt, FetchLocal, Push,
        PushRefused, Mark, DestroyDeleted, CallFails, Crash
<1> QED
  BY <1>2, <1>3, <1>4

(* How a local record changes: by the user, or by a step of synchronize(). *)
LEMMA RecordStep ==
    ASSUME TypeOK, [Next]_vars, NEW id \in Id
    PROVE  \/ local'[id] = local[id]
           \/ \E i \in Id : User(i)
           \/ \E s \in Sync :
                \/ Apply(s) /\ IsDeletedToDestroy(local[id], sync[s].changes[id])
                   /\ local'[id] = Absent
                \/ ApplyBatch(s) /\ local'[id] = Applied(local[id], sync[s].changes[id])
                \/ Mark(s) /\ IsToMark(s, id) /\ local'[id].status = "synced"
                \/ DestroyDeleted(s) /\ local'[id] = Absent
                   /\ sync[s].pushed[id].status = "deleted" /\ id \notin sync[s].rejected
<1>1. ASSUME NEW s \in Sync, Apply(s)
      PROVE  \/ local'[id] = local[id]
             \/ local'[id] = Absent /\ IsDeletedToDestroy(local[id], sync[s].changes[id])
  BY <1>1 DEF Apply
<1>2. ASSUME NEW s \in Sync, ApplyBatch(s)
      PROVE  local'[id] = local[id] \/ local'[id] = Applied(local[id], sync[s].changes[id])
  BY <1>2 DEF ApplyBatch
<1>3. ASSUME NEW s \in Sync, Mark(s)
      PROVE  local'[id] = local[id] \/ (IsToMark(s, id) /\ local'[id].status = "synced")
  BY <1>3 DEF Mark, Synced, TypeOK, Local
<1>4. ASSUME NEW s \in Sync, DestroyDeleted(s)
      PROVE  \/ local'[id] = local[id]
             \/ local'[id] = Absent /\ sync[s].pushed[id].status = "deleted"
                /\ id \notin sync[s].rejected
  BY <1>4 DEF DestroyDeleted
<1> QED
  BY <1>1, <1>2, <1>3, <1>4, LocalStep

LEMMA AppliedIs ==
    ASSUME NEW loc \in Local, NEW change \in Change
    PROVE  \/ Applied(loc, change) = loc
           \/ Applied(loc, change) = Absent /\ IsToDestroy(loc, change)
           \/ /\ loc.status \notin {"created", "deleted"}
              /\ Applied(loc, change).status \notin {"created", "deleted"}
           \/ loc.status = "created" /\ Applied(loc, change).status = "created"
<1>1. CASE IsToDestroy(loc, change)
  BY <1>1 DEF Applied, IsToDestroy
<1>2. CASE ~IsToDestroy(loc, change) /\ change.kind \in {"created", "updated"} /\ IsAlive(loc)
  <2>1. Applied(loc, change) = resolveConflict(loc, change.data)
    BY <1>2 DEF Applied, IsAlive
  <2>2. Applied(loc, change).status = loc.status
    BY <2>1 DEF resolveConflict, Local
  <2> QED
    BY <1>2, <2>2 DEF IsAlive
<1>3. CASE /\ ~IsToDestroy(loc, change) /\ change.kind \in {"created", "updated"}
           /\ loc.status = "none"
  BY <1>3 DEF Applied, IsAlive
<1>4. CASE ~IsToDestroy(loc, change) /\ change.kind \in {"created", "updated"} /\ loc.status = "deleted"
  BY <1>4 DEF Applied, IsAlive
<1>5. CASE ~IsToDestroy(loc, change) /\ change.kind \notin {"created", "updated"}
  BY <1>5 DEF Applied
<1>6. loc.status \in {"none", "synced", "created", "updated", "deleted"}
  BY DEF Local
<1> QED
  BY <1>1, <1>2, <1>3, <1>4, <1>5, <1>6 DEF IsAlive

LEMMA DeletionIsFinalStep ==
    ASSUME TypeOK, DeletionIsFinal, [Next]_vars
    PROVE  DeletionIsFinal'
<1> SUFFICES ASSUME NEW s \in Sync, NEW id \in Id
             PROVE  /\ sync'[s].changes[id].kind = "deleted" => server'[id].state = "deleted"
                    /\ sync'[s].pushed[id].status = "deleted" => local'[id].status # "created"
  BY DEF DeletionIsFinal
<1>1. sync'[s].changes[id].kind = "deleted" => server[id].state = "deleted"
  <2>1. CASE sync'[s].changes = sync[s].changes
    BY <2>1 DEF DeletionIsFinal
  <2>2. CASE sync'[s].changes = NoChanges
    BY <2>2 DEF NoChanges, NoChange
  <2>3. ASSUME NEW strategy, sync'[s].changes = ChangesSince(sync[s].lastPulledAt, strategy)
        PROVE  sync'[s].changes[id].kind = "deleted" => server[id].state = "deleted"
    BY <2>3, ChangesSinceIs
  <2> QED
    BY <2>1, <2>2, <2>3, KnowledgeStep
<1>2. ASSUME sync'[s].pushed[id].status = "deleted" PROVE local'[id].status # "created"
  <2>1. local[id] \in Local /\ \A t \in Sync : sync[t].changes[id] \in Change
    BY DEF TypeOK
  <2>2. local[id].status # "created"
    <3>1. CASE sync'[s].pushed = sync[s].pushed
      BY <1>2, <3>1 DEF DeletionIsFinal
    <3>2. CASE sync'[s].pushed = NoLocals
      BY <1>2, <3>2 DEF NoLocals, Absent
    <3>3. CASE sync'[s].pushed = [i \in Id |-> IF IsLocalChange(local[i]) THEN local[i] ELSE Absent]
      BY <1>2, <3>3 DEF Absent
    <3> QED
      BY <3>1, <3>2, <3>3, KnowledgeStep
  <2>3. ASSUME NEW i \in Id, User(i) PROVE local'[id].status # "created"
    <3>1. /\ sync' = sync
          /\ local[id].status = "none" /\ local'[id].status # "none" =>
               \A t \in Sync : sync[t].pushed[id] = Absent
          /\ local'[id].status = "created" => local[id].status \in {"none", "created"}
      BY <2>3, UserKeepsServed
    <3> QED
      BY <1>2, <2>2, <3>1 DEF Absent
  <2>4. ASSUME NEW t \in Sync, local'[id] = Applied(local[id], sync[t].changes[id])
        PROVE  local'[id].status # "created"
    BY <2>1, <2>2, <2>4, AppliedIs DEF Absent
  <2> QED
    BY <2>2, <2>3, <2>4, RecordStep DEF Absent
<1> QED
  BY <1>1, <1>2, DeletedStays

LEMMA CreationsStep ==
    ASSUME TypeOK, DeletionIsFinal, [Next]_vars, NEW id \in Id,
           local[id].status = "created", local'[id].status = "none"
    PROVE  server[id].state = "deleted"
<1>1. local[id] \in Local /\ \A t \in Sync : sync[t].changes[id] \in Change
  BY DEF TypeOK
<1>2. ASSUME NEW i \in Id, User(i) PROVE FALSE
  BY <1>2, UserKeepsServed
<1>3. PICK s \in Sync :
         \/ Apply(s) /\ IsDeletedToDestroy(local[id], sync[s].changes[id])
         \/ ApplyBatch(s) /\ local'[id] = Applied(local[id], sync[s].changes[id])
         \/ DestroyDeleted(s) /\ sync[s].pushed[id].status = "deleted"
  BY <1>2, RecordStep
<1>4. sync[s].pushed[id].status # "deleted"
  BY DEF DeletionIsFinal
<1>5. sync[s].changes[id].kind = "deleted"
  BY <1>1, <1>3, <1>4, AppliedIs DEF IsDeletedToDestroy, IsToDestroy
<1> QED
  BY <1>5 DEF DeletionIsFinal

(* A record that the user created is not removed by synchronization, unless the
   server has deleted a record of this id: for any number of overlapping calls and
   every strategy of a pull.                                                   *)
THEOREM CreationsAreKept == Spec => CreationsSurvive
<1>1. Init => TypeOK /\ DeletionIsFinal
  BY InitialCall DEF CallInv
<1>2. TypeOK /\ DeletionIsFinal /\ [Next]_vars => TypeOK' /\ DeletionIsFinal'
  BY TypeStep, DeletionIsFinalStep
<1>3. TypeOK /\ DeletionIsFinal /\ [Next]_vars =>
        [\A id \in Id : local[id].status = "created" /\ local'[id].status = "none" =>
           server[id].state = "deleted"]_vars
  BY CreationsStep
<1> QED
  BY <1>1, <1>2, <1>3, PTL DEF Spec, CreationsSurvive

LEMMA DeletionsStep ==
    ASSUME CallInv, OneCall, NoneSentAsCreated, SendCreatedAsUpdated, [Next]_vars, NEW id \in Id,
           local[id].status = "deleted", local'[id].status # "deleted"
    PROVE  local'[id].status = "none" /\ server[id].state # "alive"
<1>1. TypeOK /\ local[id] \in Local /\ \A t \in Sync : sync[t].changes[id] \in Change
  BY DEF CallInv, TypeOK
<1>2. ASSUME NEW i \in Id, User(i) PROVE FALSE
  BY <1>1, <1>2, UserKeepsServed
<1>3. PICK s \in Sync :
         \/ Apply(s) /\ IsDeletedToDestroy(local[id], sync[s].changes[id])
            /\ local'[id] = Absent
         \/ ApplyBatch(s) /\ local'[id] = Applied(local[id], sync[s].changes[id])
         \/ Mark(s) /\ IsToMark(s, id)
         \/ DestroyDeleted(s) /\ local'[id] = Absent
            /\ sync[s].pushed[id].status = "deleted" /\ id \notin sync[s].rejected
  BY <1>1, <1>2, RecordStep
<1>4. ~IsToMark(s, id)
  BY DEF IsToMark
<1>5. CASE DestroyDeleted(s) /\ local'[id] = Absent
           /\ sync[s].pushed[id].status = "deleted" /\ id \notin sync[s].rejected
  BY <1>5 DEF DestroyDeleted, In, CallInv, PushIsCurrent, Absent
<1>6. ASSUME In(s, "pulled") \/ In(s, "applying"),
             IsToDestroy(local[id], sync[s].changes[id]) \/ sync[s].changes[id].kind = "created"
      PROVE  server[id].state # "alive"
  <2>1. sync[s].changes[id].kind # "created"
    BY DEF NoneSentAsCreated
  <2>2. sync[s].changes[id].kind \in {"deleted", "missing"}
    BY <1>6, <2>1 DEF IsToDestroy
  <2> QED
    BY <1>6, <2>2 DEF In, CallInv, AnswersAreExact, DeletionIsFinal
<1>7. CASE Apply(s) /\ IsDeletedToDestroy(local[id], sync[s].changes[id]) /\ local'[id] = Absent
  BY <1>6, <1>7 DEF Apply, IsDeletedToDestroy, Absent
<1>8. CASE ApplyBatch(s) /\ local'[id] = Applied(local[id], sync[s].changes[id])
  <2>1. local'[id] = Absent /\ IsToDestroy(local[id], sync[s].changes[id])
    BY <1>1, <1>8, AppliedIs
  <2> QED
    BY <1>6, <1>8, <2>1 DEF ApplyBatch, Absent
<1> QED
  BY <1>3, <1>4, <1>5, <1>7, <1>8

LEMMA NoneSentStep ==
    ASSUME TypeOK, NoneSentAsCreated, [Next]_vars
    PROVE  NoneSentAsCreated'
<1> SUFFICES ASSUME SendCreatedAsUpdated, NEW s \in Sync, NEW id \in Id
             PROVE  sync'[s].changes[id].kind # "created"
  BY DEF NoneSentAsCreated
<1> QED
  <2>1. CASE sync'[s].changes = sync[s].changes
    BY <2>1 DEF NoneSentAsCreated
  <2>2. CASE sync'[s].changes = NoChanges
    BY <2>2 DEF NoChanges, NoChange
  <2>3. ASSUME NEW strategy, sync'[s].changes = ChangesSince(sync[s].lastPulledAt, strategy)
        PROVE  sync'[s].changes[id].kind # "created"
    BY <2>3, ChangesSinceIs
  <2> QED
    BY <2>1, <2>2, <2>3, KnowledgeStep

(* What the user created or deleted survives synchronization, when no two calls of
   synchronize() overlap and the server sends created records as updated: a local
   deletion lasts until the server has made it, whichever strategy a pull uses.   *)
THEOREM LocalEditsAreKept ==
    ASSUME OneCall, SendCreatedAsUpdated PROVE Spec => LocalEditsSurvive
<1>1. Init => CallInv /\ NoneSentAsCreated
  BY InitialCall DEF Init, NoneSentAsCreated, Idle, NoChanges, NoChange
<1>2. CallInv /\ NoneSentAsCreated /\ [Next]_vars => CallInv' /\ NoneSentAsCreated'
  <2>1. CallInv => TypeOK
    BY DEF CallInv
  <2> QED
    BY <2>1, CallInvStep, NoneSentStep
<1>3. CallInv /\ NoneSentAsCreated /\ [Next]_vars =>
        [\A id \in Id : local[id].status = "deleted" /\ local'[id].status # "deleted" =>
           local'[id].status = "none" /\ server[id].state # "alive"]_vars
  BY DeletionsStep
<1>4. Spec => DeletionsSurvive
  BY <1>1, <1>2, <1>3, PTL DEF Spec, DeletionsSurvive
<1> QED
  BY <1>4, CreationsAreKept, PTL DEF LocalEditsSurvive

(* A push changes nothing on the server but the columns that the user changed. *)
LEMMA PushStep ==
    ASSUME CallInv, OneCall, [Next]_vars, NEW s \in Sync, NEW id \in Id,
           In(s, "pushing"), sync'[s] # sync[s],
           server[id].state = "alive", server'[id].state = "alive",
           NEW c \in Column, server'[id].data[c] # server[id].data[c]
    PROVE  c \in sync[s].pushed[id].changed
<1>1. TypeOK
  BY DEF CallInv
<1>2. ~ \E i \in Id : User(i) \/ Others(i)
  BY <1>1 DEF User, LocalCreate, LocalUpdate, LocalDelete, UserWrites, Others, RemoteCreate,
        RemoteUpdate, RemoteDelete
<1>3. ~HasConflict(s) /\ \E rejected : Serve(PushedTo(s, rejected))
  BY <1>1, <1>2 DEF Next, OneCall, vars, synchronize, Start, Pull, AbortConcurrent, Apply,
        ApplyBatch, SaveLastPulledAt, FetchLocal, Push, PushRefused, Mark, DestroyDeleted,
        CallFails, Crash, In
<1>4. PICK rejected : Serve(PushedTo(s, rejected))
  BY <1>3
<1>5. server'[id] = PushedTo(s, rejected)[id]
  BY <1>4 DEF Serve
<1>6. /\ sync[s].pushed[id].status \in {"created", "updated"}
      /\ server'[id] = Stored(server[id], sync[s].pushed[id].data)
  <2>1. CASE sync[s].pushed[id].status = "deleted" /\ id \notin rejected
    BY <1>5, <2>1 DEF PushedTo, Removed, TypeOK, Remote, CallInv
  <2>2. CASE sync[s].pushed[id].status \notin {"created", "updated", "deleted"} \/ id \in rejected
    BY <1>5, <2>2 DEF PushedTo
  <2>3. CASE sync[s].pushed[id].status \in {"created", "updated"} /\ id \notin rejected
    BY <1>5, <2>3 DEF PushedTo
  <2> QED
    BY <2>1, <2>2, <2>3
<1>7. server[id].modified <= sync[s].timestamp
  <2>1. ~(server[id].modified > sync[s].timestamp)
    BY <1>3, <1>6 DEF HasConflict, IsConflict, IsPushed
  <2> QED
    BY <1>1, <2>1 DEF TypeOK, Remote
<1>8. server'[id].data[c] = sync[s].pushed[id].data[c]
  BY <1>6 DEF Stored
<1> QED
  BY <1>6, <1>7, <1>8 DEF CallInv, PushIsCurrent

(* "Pushes only edits": no column of a record on the server goes back to an older
   value because another column of it was edited here, when no two calls of
   synchronize() overlap; a push whose answer is lost is no exception.        *)
THEOREM PushesAreEdits == ASSUME OneCall PROVE Spec => PushesOnlyEdits
<1>1. CallInv /\ [Next]_vars =>
        [\A s \in Sync, id \in Id :
           In(s, "pushing") /\ sync'[s] # sync[s] /\ server[id].state = "alive"
             /\ server'[id].state = "alive" =>
               \A c \in Column : server'[id].data[c] # server[id].data[c] =>
                   c \in sync[s].pushed[id].changed]_vars
  BY PushStep
<1> QED
  BY <1>1, InitialCall, CallInvStep, PTL DEF Spec, PushesOnlyEdits
===============================================================================
