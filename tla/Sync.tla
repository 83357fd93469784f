-------------------------------- MODULE Sync --------------------------------
(* Synchronization of a local database with a server:
     src/src/sync/impl/synchronize.js, applyRemote.js, fetchLocal.js,
     markAsSynced.js, helpers.js and index.js, with the bookkeeping of local
     changes in src/src/sync/helpers.js and src/src/Model/index.js.

   The server is external: it does what the sync protocol asks of it, with
   last_modified and server_created_at stamps of one increasing clock.  Other
   clients change records on it at any time; the user changes local records
   whenever no synchronization holds the writer.  Calls to the server may fail
   before or after they took effect, and the application may be killed between
   any two transactions.                                                    *)
EXTENDS Naturals, FiniteSets

CONSTANTS
    Id,                     \* records
    Column,
    Sync,                   \* calls of synchronize() that may overlap
    NoSync,
    Strategies,             \* what experimentalStrategy of a pull may be
    SendCreatedAsUpdated,   \* TRUE: the server sends all records as updated
    BatchPerCollection,     \* TRUE: _unsafeBatchPerCollection, an id a batch
    MaxEdits,               \* bound on the changes of all users
    MaxFaults               \* bound on failures, rejections and crashes

ASSUME SyncAssumption ==
    /\ NoSync \notin Sync
    /\ Strategies \subseteq {"incremental", "replacement"}
    /\ SendCreatedAsUpdated \in BOOLEAN /\ BatchPerCollection \in BOOLEAN
    /\ MaxEdits \in Nat /\ MaxFaults \in Nat

VARIABLES
    server,         \* the server's records
    clock,          \* the server's clock, the stamp of its last change
    local,          \* the local records with _status and _changed
    lastPulledAt,   \* __hypertill_last_pulled_at; 0 for none
    writer,         \* the synchronization whose writer is executing
    sync,           \* progress and results of each call of synchronize()
    served,         \* history: the values each column ever had on the server
    edits,          \* changes made so far; each writes a value of its own
    faults          \* failures so far

vars == <<server, clock, local, lastPulledAt, writer, sync, served, edits, faults>>

Value    == 0..MaxEdits
Data     == [Column -> Value]
Blank    == [c \in Column |-> 0]

Remote   == [state : {"none", "alive", "deleted"}, data : Data, created : Nat, modified : Nat]
Local    == [status : {"none", "synced", "created", "updated", "deleted"},
             changed : SUBSET Column, data : Data]
Change   == [kind : {"none", "missing", "created", "updated", "deleted"}, data : Data]

Absent   == [status |-> "none", changed |-> {}, data |-> Blank]
NoChange == [kind |-> "none", data |-> Blank]

IsAlive(loc)  == loc.status \in {"synced", "created", "updated"}
IsLocalChange(loc) == loc.status \in {"created", "updated", "deleted"}

Phases == {"idle", "pulling", "pulled", "applying", "saving", "fetching",
           "pushing", "pushed", "destroying"}

NoChanges == [id \in Id |-> NoChange]
NoLocals  == [id \in Id |-> Absent]
Idle == [phase |-> "idle", lastPulledAt |-> 0, changes |-> NoChanges, timestamp |-> 0,
         left |-> {}, pushed |-> NoLocals, rejected |-> {}]

Init ==
    /\ server \in [Id -> {[state |-> "none", data |-> Blank, created |-> 0, modified |-> 0],
                          [state |-> "alive", data |-> Blank, created |-> 1, modified |-> 1]}]
    /\ clock = 1
    /\ local = [id \in Id |-> Absent]
    /\ lastPulledAt = 0
    /\ writer = NoSync
    /\ sync = [s \in Sync |-> Idle]
    /\ served = [id \in Id |-> [c \in Column |-> IF server[id].state = "alive" THEN {0} ELSE {}]]
    /\ edits = 0
    /\ faults = 0

-----------------------------------------------------------------------------
(* The server and its other clients. *)

(* The server's records become next, changed ones with data written now. *)
Serve(next) ==
    /\ server' = next
    /\ clock' = clock + 1
    /\ served' = [id \in Id |-> [c \in Column |->
                    IF next[id].state = "alive" THEN served[id][c] \cup {next[id].data[c]}
                    ELSE served[id][c]]]

Stored(r, data) ==
    [state |-> "alive", data |-> data, modified |-> clock + 1,
     created |-> IF r.state = "alive" THEN r.created ELSE clock + 1]

Removed(r) == [r EXCEPT !.state = "deleted", !.data = Blank, !.modified = clock + 1]

Edit == edits < MaxEdits /\ edits' = edits + 1

RemoteCreate(id) ==
    /\ server[id].state = "none" /\ local[id].status = "none"
    /\ Edit
    /\ Serve([server EXCEPT ![id] = Stored(@, [c \in Column |-> edits'])])
    /\ UNCHANGED <<local, lastPulledAt, writer, sync, faults>>

RemoteUpdate(id, c) ==
    /\ server[id].state = "alive"
    /\ Edit
    /\ Serve([server EXCEPT ![id] = Stored(@, [@.data EXCEPT ![c] = edits'])])
    /\ UNCHANGED <<local, lastPulledAt, writer, sync, faults>>

RemoteDelete(id) ==
    /\ server[id].state = "alive"
    /\ Edit
    /\ Serve([server EXCEPT ![id] = Removed(@)])
    /\ UNCHANGED <<local, lastPulledAt, writer, sync, faults>>

(* The answer of the pull endpoint: what changed after t, or, for replacement,
   every record; then a record that is left out does not exist.               *)
ChangesSince(t, strategy) ==
    [id \in Id |->
       LET r == server[id] IN
       CASE r.modified > t /\ r.state = "deleted" -> [kind |-> "deleted", data |-> Blank]
         [] r.state = "alive" /\ (r.modified > t \/ strategy = "replacement") ->
              [kind |-> IF r.created > t /\ ~SendCreatedAsUpdated THEN "created" ELSE "updated",
               data |-> r.data]
         [] OTHER -> [kind |-> IF strategy = "replacement" THEN "missing" ELSE "none",
                      data |-> Blank]]

-----------------------------------------------------------------------------
(* The user, in writers of the application. *)

UserWrites(id, loc) ==
    /\ writer = NoSync
    /\ Edit
    /\ local' = [local EXCEPT ![id] = loc]
    /\ UNCHANGED <<server, clock, lastPulledAt, writer, sync, served, faults>>

(* Ids are random: this one is in use nowhere. *)
LocalCreate(id) ==
    /\ local[id].status = "none" /\ server[id].state = "none"
    /\ \A s \in Sync : sync[s].pushed[id] = Absent
    /\ UserWrites(id, [status |-> "created", changed |-> {}, data |-> [c \in Column |-> edits']])

(* setRawColumnChange() *)
LocalUpdate(id, c) ==
    /\ IsAlive(local[id])
    /\ UserWrites(id, [status  |-> IF local[id].status = "created" THEN "created" ELSE "updated",
                       changed |-> local[id].changed \cup {c},
                       data    |-> [local[id].data EXCEPT ![c] = edits']])

(* markAsDeleted() *)
LocalDelete(id) ==
    /\ IsAlive(local[id])
    /\ UserWrites(id, [local[id] EXCEPT !.status = "deleted"])

-----------------------------------------------------------------------------
(* synchronize(): the pull phase. *)

In(s, phase) == sync[s].phase = phase

Start(s) ==
    /\ In(s, "idle")
    /\ sync' = [sync EXCEPT ![s] = [Idle EXCEPT !.phase = "pulling", !.lastPulledAt = lastPulledAt]]
    /\ UNCHANGED <<server, clock, local, lastPulledAt, writer, served, edits, faults>>

Pull(s) ==
    /\ In(s, "pulling")
    /\ \E strategy \in Strategies :
         sync' = [sync EXCEPT ![s].phase = "pulled",
                              ![s].changes = ChangesSince(sync[s].lastPulledAt, strategy),
                              ![s].timestamp = clock]
    /\ UNCHANGED <<server, clock, local, lastPulledAt, writer, served, edits, faults>>

(* The promise of synchronize() rejects. *)
Abort(s) == sync' = [sync EXCEPT ![s] = Idle]

(* The writer 'sync-synchronize-apply' finds that another call has pulled. *)
AbortConcurrent(s) ==
    /\ In(s, "pulled") /\ writer = NoSync
    /\ sync[s].lastPulledAt # lastPulledAt
    /\ Abort(s)
    /\ UNCHANGED <<server, clock, local, lastPulledAt, writer, served, edits, faults>>

(* Mutant: the replacement strategy destroys whatever the server did not send. *)
IsToDestroyAll(loc, change) ==
    change.kind \in {"deleted", "missing"}

(* recordsToDestroy and deletedRecordsToDestroy of both strategies. *)
IsToDestroy(loc, change) ==
    \/ change.kind = "deleted"
    \/ change.kind = "missing" /\ loc.status # "created"

(* A record marked as deleted that the server sends as created is destroyed too,
   to be created again.                                                       *)
IsDeletedToDestroy(loc, change) ==
    loc.status = "deleted" /\ (IsToDestroy(loc, change) \/ change.kind = "created")

(* applyRemoteChanges(), the transactions of destroyDeletedRecords(). *)
Apply(s) ==
    /\ In(s, "pulled") /\ writer = NoSync
    /\ sync[s].lastPulledAt = lastPulledAt
    /\ local' = [id \in Id |-> IF IsDeletedToDestroy(local[id], sync[s].changes[id])
                               THEN Absent ELSE local[id]]
    /\ writer' = s
    /\ sync' = [sync EXCEPT ![s].phase = "applying", ![s].left = Id]
    /\ UNCHANGED <<server, clock, lastPulledAt, served, edits, faults>>

(* Mutant: of a record that was changed locally, every column wins. *)
resolveConflictLocalWins(loc, remote) ==
    IF loc.changed = {} THEN [loc EXCEPT !.data = remote] ELSE loc

(* resolveConflict(): columns that were changed locally win. *)
resolveConflict(loc, remote) ==
    [loc EXCEPT !.data = [c \in Column |-> IF c \in loc.changed THEN loc.data[c] ELSE remote[c]]]

(* Mutant: an update by the server brings back a record deleted locally. *)
AppliedUndeleting(loc, change) ==
    CASE IsToDestroy(loc, change) -> Absent
      [] change.kind \in {"created", "updated"} ->
           IF IsAlive(loc) THEN resolveConflict(loc, change.data)
           ELSE [status |-> "synced", changed |-> {}, data |-> change.data]
      [] OTHER -> loc

(* Mutant: an update of a record that is not there is dropped. *)
AppliedToKnown(loc, change) ==
    CASE IsToDestroy(loc, change) -> Absent
      [] change.kind \in {"created", "updated"} /\ IsAlive(loc) -> resolveConflict(loc, change.data)
      [] change.kind = "created" -> [status |-> "synced", changed |-> {}, data |-> change.data]
      [] OTHER -> loc

(* prepareApplyRemoteChangesToCollection() *)
Applied(loc, change) ==
    CASE IsToDestroy(loc, change) -> Absent
      [] change.kind \in {"created", "updated"} ->
           CASE IsAlive(loc) -> resolveConflict(loc, change.data)
             [] loc.status = "deleted" -> loc
             [] OTHER -> [status |-> "synced", changed |-> {}, data |-> change.data]
      [] OTHER -> loc

(* The batch, or one batch after the other. *)
ApplyBatch(s) ==
    /\ In(s, "applying")
    /\ \E ids \in SUBSET sync[s].left \ {{}} :
         /\ ~BatchPerCollection => ids = sync[s].left
         /\ local' = [id \in Id |-> IF id \in ids THEN Applied(local[id], sync[s].changes[id])
                                    ELSE local[id]]
         /\ sync' = [sync EXCEPT ![s].left = @ \ ids,
                                 ![s].phase = IF ids = sync[s].left THEN "saving" ELSE @]
    /\ UNCHANGED <<server, clock, lastPulledAt, writer, served, edits, faults>>

(* setLastPulledAt(), and the writer ends. *)
SaveLastPulledAt(s) ==
    /\ In(s, "saving")
    /\ lastPulledAt' = sync[s].timestamp
    /\ writer' = NoSync
    /\ sync' = [sync EXCEPT ![s].phase = "fetching", ![s].changes = NoChanges]
    /\ UNCHANGED <<server, clock, local, served, edits, faults>>

-----------------------------------------------------------------------------
(* The push phase. *)

(* Mutant: deletions are not among the changes. *)
FetchLocalUndeleted(s) ==
    /\ In(s, "fetching") /\ writer = NoSync
    /\ LET pushed == [id \in Id |-> IF IsLocalChange(local[id]) /\ IsAlive(local[id])
                                    THEN local[id] ELSE Absent] IN
       sync' = [sync EXCEPT ![s] = IF pushed = NoLocals THEN Idle
                                   ELSE [@ EXCEPT !.phase = "pushing", !.pushed = pushed]]
    /\ UNCHANGED <<server, clock, local, lastPulledAt, writer, served, edits, faults>>

FetchLocal(s) ==
    /\ In(s, "fetching") /\ writer = NoSync
    /\ LET pushed == [id \in Id |-> IF IsLocalChange(local[id]) THEN local[id] ELSE Absent] IN
       sync' = [sync EXCEPT ![s] = IF pushed = NoLocals THEN Idle
                                   ELSE [@ EXCEPT !.phase = "pushing", !.pushed = pushed]]
    /\ UNCHANGED <<server, clock, local, lastPulledAt, writer, served, edits, faults>>

IsPushed(s, id) == sync[s].pushed[id].status # "none"

(* The push endpoint refuses what changed after the pull, and updates of records
   that were deleted.                                                         *)
IsConflict(s, id) ==
    LET p == sync[s].pushed[id]
        r == server[id] IN
    \/ r.state = "alive" /\ r.modified > sync[s].timestamp
    \/ r.state = "deleted" /\ p.status \in {"created", "updated"}

HasConflict(s) == \E id \in Id : IsPushed(s, id) /\ IsConflict(s, id)

PushedTo(s, rejected) ==
    [id \in Id |->
       LET p == sync[s].pushed[id]
           r == server[id] IN
       IF id \in rejected THEN r
       ELSE CASE p.status \in {"created", "updated"} -> Stored(r, p.data)
              [] p.status = "deleted" /\ r.state = "alive" -> Removed(r)
              [] OTHER -> r]

(* The server accepts; experimentalRejectedIds names what it left out. *)
Push(s) ==
    /\ In(s, "pushing") /\ ~HasConflict(s)
    /\ \E rejected \in SUBSET {id \in Id : IsPushed(s, id)} :
         /\ rejected # {} => faults < MaxFaults
         /\ faults' = IF rejected # {} THEN faults + 1 ELSE faults
         /\ Serve(PushedTo(s, rejected))
         /\ sync' = [sync EXCEPT ![s].phase = "pushed", ![s].rejected = rejected]
    /\ UNCHANGED <<local, lastPulledAt, writer, edits>>

PushRefused(s) ==
    /\ In(s, "pushing") /\ HasConflict(s)
    /\ Abort(s)
    /\ UNCHANGED <<server, clock, local, lastPulledAt, writer, served, edits, faults>>

(* Mutant: whatever was pushed is marked, changed since or not. *)
IsToMarkAlways(s, id) ==
    /\ sync[s].pushed[id].status \in {"created", "updated"}
    /\ IsAlive(local[id])
    /\ id \notin sync[s].rejected

(* areRecordsEqual(record._raw, raw), and not rejected. *)
IsToMark(s, id) ==
    /\ sync[s].pushed[id].status \in {"created", "updated"}
    /\ local[id] = sync[s].pushed[id]
    /\ id \notin sync[s].rejected

Synced(loc) == [loc EXCEPT !.status = "synced", !.changed = {}]

(* The writer 'sync-markLocalChangesAsSynced': first the batch, ... *)
Mark(s) ==
    /\ In(s, "pushed") /\ writer = NoSync
    /\ local' = [id \in Id |-> IF IsToMark(s, id) THEN Synced(local[id]) ELSE local[id]]
    /\ writer' = s
    /\ sync' = [sync EXCEPT ![s].phase = "destroying"]
    /\ UNCHANGED <<server, clock, lastPulledAt, served, edits, faults>>

(* ... then destroyDeletedRecords(). *)
DestroyDeleted(s) ==
    /\ In(s, "destroying")
    /\ local' = [id \in Id |-> IF sync[s].pushed[id].status = "deleted" /\ id \notin sync[s].rejected
                               THEN Absent ELSE local[id]]
    /\ writer' = NoSync
    /\ sync' = [sync EXCEPT ![s] = Idle]
    /\ UNCHANGED <<server, clock, lastPulledAt, served, edits, faults>>

-----------------------------------------------------------------------------
Fault == faults < MaxFaults /\ faults' = faults + 1

(* A call to the server fails; a push may have taken effect. *)
CallFails(s) ==
    /\ Fault
    /\ \/ (In(s, "pulling") \/ In(s, "pushing")) /\ UNCHANGED <<server, clock, served>>
       \/ In(s, "pushing") /\ ~HasConflict(s) /\ Serve(PushedTo(s, {}))
    /\ Abort(s)
    /\ UNCHANGED <<local, lastPulledAt, writer, edits>>

(* The application is killed and starts again. *)
Crash ==
    /\ Fault
    /\ \E s \in Sync : ~In(s, "idle")
    /\ writer' = NoSync
    /\ sync' = [s \in Sync |-> Idle]
    /\ UNCHANGED <<server, clock, local, lastPulledAt, served, edits>>

User(id) == LocalCreate(id) \/ LocalDelete(id) \/ \E c \in Column : LocalUpdate(id, c)
Others(id) == RemoteCreate(id) \/ RemoteDelete(id) \/ \E c \in Column : RemoteUpdate(id, c)

synchronize(s) ==
    \/ Start(s) \/ Pull(s)
    \/ AbortConcurrent(s) \/ Apply(s) \/ ApplyBatch(s) \/ SaveLastPulledAt(s)
    \/ FetchLocal(s) \/ Push(s) \/ PushRefused(s)
    \/ Mark(s) \/ DestroyDeleted(s)

Next ==
    \/ \E id \in Id : User(id) \/ Others(id)
    \/ \E s \in Sync : synchronize(s) \/ CallFails(s)
    \/ Crash

Spec == Init /\ [][Next]_vars

(* The application synchronizes again and again; whatever synchronize() awaits
   goes on.                                                                  *)
FairSpec == Spec /\ \A s \in Sync : WF_vars(synchronize(s))

-----------------------------------------------------------------------------
TypeOK ==
    /\ server \in [Id -> Remote]
    /\ clock \in Nat
    /\ local \in [Id -> Local]
    /\ lastPulledAt \in 0..clock
    /\ writer \in Sync \cup {NoSync}
    /\ sync \in [Sync -> [phase : Phases, lastPulledAt : 0..clock, changes : [Id -> Change],
                          timestamp : 0..clock, left : SUBSET Id, pushed : [Id -> Local],
                          rejected : SUBSET Id]]
    /\ served \in [Id -> [Column -> SUBSET Value]]
    /\ edits \in Value
    /\ faults \in 0..MaxFaults

(* The server sends only what changed after lastPulledAt: whatever is older must
   be in the local database already, up to the columns changed locally, or it
   never will be.                                                            *)
Agrees(loc, r) ==
    CASE r.state = "none"    -> loc.status \in {"none", "created", "deleted"}
      [] r.state = "deleted" -> loc.status = "none"
      [] r.state = "alive"   ->
           /\ loc.status # "none"
           /\ IsAlive(loc) => \A c \in Column : c \in loc.changed \/ loc.data[c] = r.data[c]

HasServed(id) == Agrees(local[id], server[id])

NothingSkipped == \A id \in Id : server[id].modified <= lastPulledAt => HasServed(id)

(* A column that the user changed is pushed before it counts as synchronized:
   what is not marked as changed was on the server once.                      *)
UnsentIsMarked ==
    \A id \in Id : local[id].status \in {"synced", "updated"} =>
        \A c \in Column \ local[id].changed : local[id].data[c] \in served[id][c]

(* A local deletion lasts until the server has made it. *)
DeletionsSurvive ==
    [][\A id \in Id : local[id].status = "deleted" /\ local'[id].status # "deleted" =>
         local'[id].status = "none" /\ server[id].state # "alive"]_vars

(* A record that no server has seen is not removed by synchronization. *)
CreationsSurvive ==
    [][\A id \in Id : local[id].status = "created" /\ local'[id].status = "none" =>
         server[id].state = "deleted"]_vars

(* Synchronization undoes neither, whatever strategy a pull uses. *)
LocalEditsSurvive == DeletionsSurvive /\ CreationsSurvive

(* A push changes on the server nothing but what the user changed: no column goes
   back to an older value because the rest of its record was edited.         *)
PushesOnlyEdits ==
    [][\A s \in Sync, id \in Id :
         In(s, "pushing") /\ sync'[s] # sync[s] /\ server[id].state = "alive"
           /\ server'[id].state = "alive" =>
             \A c \in Column : server'[id].data[c] # server[id].data[c] =>
                 c \in sync[s].pushed[id].changed]_vars

(* Both sides are the same. *)
Consistent ==
    \A id \in Id : IF server[id].state = "alive"
                   THEN local[id] = [status |-> "synced", changed |-> {}, data |-> server[id].data]
                   ELSE local[id] = Absent

(* "eventual consistency": when users and faults come to rest, both sides become
   the same and stay so.                                                     *)
EventuallyConsistent == <>[]Consistent
=============================================================================
