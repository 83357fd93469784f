------------------------------ MODULE ModelEditing ------------------------------
(* The life of Models between their records' rows and the application: pending
   changes, updaters that throw, and deletion with all descendants.
     src/src/Model/index.js          update(), markAsDeleted(), destroyPermanently(),
                                     their experimental variants, _setRaw()
     src/src/Model/helpers.js        fetchDescendants()
     src/src/Database/index.js       batch()

   Records form a tree of has_many associations: a chain that begins with record 0,
   the last of which has several children, the leaves.  Only leaves are deleted on
   their own, the others together with their descendants.  All calls are made in one writer, which may start several
   without awaiting any; creations are the subject of module RecordCaching.
   A batch is carried out as a whole or not at all.  Every table has a deleted_at
   column, which the adapters add: marking a record as deleted sends an update.  *)
EXTENDS Naturals, Sequences

CONSTANTS
    Column,
    Depth,          \* the length of the chain
    Leaves,         \* the number of its leaves
    MaxCalls,       \* bound on calls
    MaxSets,        \* bound on assignments to fields outside of calls
    MaxFaults       \* bound on batches that fail

ASSUME ModelEditingAssumption ==
    /\ Column # {}
    /\ Depth \in Nat \ {0} /\ Leaves \in Nat /\ MaxCalls \in Nat /\ MaxSets \in Nat /\ MaxFaults \in Nat

VARIABLES
    model,          \* the Models
    row,            \* the rows of the database
    calls,          \* the calls made
    queue,          \* messages to the adapter
    inbox,          \* calls whose descendants have been fetched
    sets,
    faults

vars == <<model, row, calls, queue, inbox, sets, faults>>

Record  == 0..(Depth + Leaves - 1)
Value   == 0..(MaxCalls + MaxSets)
Raw     == [status : {"none", "synced", "updated", "deleted"}, changed : SUBSET Column,
            data : [Column -> Value]]
Synced  == [status |-> "synced", changed |-> {}, data |-> [c \in Column |-> 0]]
Absent  == [Synced EXCEPT !.status = "none"]
Deletes == {"markAsDeleted", "destroyPermanently"}

IsAlive(raw) == raw.status \in {"synced", "updated"}

Init ==
    /\ model = [r \in Record |-> [raw |-> Synced, prepared |-> "none", editing |-> FALSE]]
    /\ row = [r \in Record |-> Synced]
    /\ calls = <<>>
    /\ queue = <<>>
    /\ inbox = <<>>
    /\ sets = 0
    /\ faults = 0

IsLeaf(r)  == r >= Depth
Level(r)   == IF IsLeaf(r) THEN Depth ELSE r
Children(level) == {r \in Record : \E p \in level : Level(r) = p + 1}

Made(call) == Len(calls) < MaxCalls /\ calls' = Append(calls, call)
NextValue  == Len(calls) + sets + 1

-----------------------------------------------------------------------------
(* Models. *)

(* Mutant: the column takes the place of those that were changed before. *)
ChangedOnly(raw, c, v) ==
    [status |-> "updated", changed |-> {c}, data |-> [raw.data EXCEPT ![c] = v]]

(* _setRaw() and setRawColumnChange() *)
Changed(raw, c, v) ==
    [status |-> "updated", changed |-> raw.changed \cup {c}, data |-> [raw.data EXCEPT ![c] = v]]

(* Mutant: __ensureCanSetRaw() lets records be changed that are deleted. *)
CanSetRawAlways(m) == m.editing

(* __ensureCanSetRaw() *)
CanSetRaw(m) == m.editing /\ m.raw.status # "deleted"

(* prepareUpdate() with an updater that sets c and then may throw. *)
Edited(m, c, v, throws) ==
    LET editing == [m EXCEPT !.editing = TRUE]
        set     == [editing EXCEPT !.raw = Changed(@, c, v)] IN
    IF ~CanSetRaw(editing) THEN editing
    ELSE IF throws THEN set
    ELSE [set EXCEPT !.editing = FALSE, !.prepared = "update"]

(* prepareMarkAsDeleted() and prepareDestroyPermanently(): what becomes of the Model,
   and whether they throw.  The first sets deleted_at as an updater would.      *)
Throws(m, type) ==
    \/ m.prepared # "none"
    \/ type = "markAsDeleted" /\ m.raw.status = "deleted"

Deleted(m, type) ==
    IF m.prepared # "none" THEN m
    ELSE IF Throws(m, type) THEN [m EXCEPT !.editing = TRUE]
    ELSE [m EXCEPT !.raw.status = "deleted", !.prepared = type,
                   !.editing = IF type = "markAsDeleted" THEN FALSE ELSE @]

(* The records that forEach(prepare...) comes to: those of a lower level first, of
   one level in the order the database has found them, up to the first that throws. *)
Reached(records, type) ==
    LET bad      == {r \in records : Throws(model[r], type)}
        first    == {r \in bad : \A s \in bad : Level(s) <= Level(r)}
        Above(r) == {s \in records : Level(s) > Level(r)}
        Beside(r) == {s \in records \ bad : Level(s) = Level(r)} IN
    IF bad = {} THEN {records}
    ELSE UNION {{Above(r) \cup {r} \cup siblings : siblings \in SUBSET Beside(r)} : r \in first}

-----------------------------------------------------------------------------
(* Database.batch(): the operations are sent and nothing is pending any more. *)

OperationOf(prepared) ==
    IF prepared = "markAsDeleted" THEN "update" ELSE prepared

Batch(models, records) ==
    /\ model' = [r \in Record |-> IF r \in records
                                  THEN [models[r] EXCEPT !.prepared = "none"] ELSE models[r]]
    /\ queue' = Append(queue, [kind |-> "batch", call |-> 0, records |-> records,
                  operations |-> [r \in records |->
                    [type |-> OperationOf(models[r].prepared), raw |-> models[r].raw]]])

FetchOf(call, level) ==
    [kind |-> "fetch", call |-> call, records |-> level, operations |-> <<>>]

-----------------------------------------------------------------------------
(* Calls of the application. *)

Call(op, r) == [op |-> op, record |-> r, found |-> {}, phase |-> "done"]

(* update() of a field; it rejects when the record has pending changes. *)
Update(r, c, throws) ==
    /\ Made(Call("update", r))
    /\ IF model[r].prepared # "none" THEN UNCHANGED <<model, queue>>
       ELSE LET models == [model EXCEPT ![r] = Edited(@, c, NextValue, throws)] IN
            IF models[r].prepared = "update" THEN Batch(models, {r})
            ELSE model' = models /\ UNCHANGED queue
    /\ UNCHANGED <<row, inbox, sets, faults>>

(* An assignment to a field outside of any call; mostly it throws. *)
SetField(r, c) ==
    /\ sets < MaxSets /\ sets' = sets + 1
    /\ CanSetRaw(model[r])
    /\ model' = [model EXCEPT ![r].raw = Changed(@, c, NextValue)]
    /\ UNCHANGED <<row, calls, queue, inbox, faults>>

(* What a deletion of these records does now. *)
DeleteAll(records, type) ==
    \E reached \in Reached(records, type) :
        LET models == [r \in Record |-> IF r \in reached THEN Deleted(model[r], type)
                                        ELSE model[r]] IN
        IF \E r \in reached : Throws(model[r], type)
        THEN model' = models /\ UNCHANGED queue
        ELSE Batch(models, records)

(* markAsDeleted(), destroyPermanently() *)
Delete(r, type) ==
    /\ IsLeaf(r)
    /\ Made(Call(type, r))
    /\ DeleteAll({r}, type)
    /\ UNCHANGED <<row, inbox, sets, faults>>

(* experimentalMarkAsDeleted(), experimentalDestroyPermanently() *)
DeleteWithDescendants(r, type) ==
    /\ ~IsLeaf(r)
    /\ Made([Call(type, r) EXCEPT !.phase = "fetching"])
    /\ queue' = Append(queue, FetchOf(Len(calls'), {r}))
    /\ UNCHANGED <<model, row, inbox, sets, faults>>

(* Mutant: only children are found. *)
ReceiveChildren ==
    /\ inbox # <<>>
    /\ LET call == Head(inbox).call IN
       /\ calls' = [calls EXCEPT ![call].phase = "done"]
       /\ DeleteAll(Head(inbox).records \cup {calls[call].record}, calls[call].op)
    /\ inbox' = Tail(inbox)
    /\ UNCHANGED <<row, sets, faults>>

(* fetchDescendants() goes on with the next level; after the last one all that was
   found is deleted.                                                         *)
ReceiveDescendants ==
    /\ inbox # <<>>
    /\ LET call  == Head(inbox).call
           level == Head(inbox).records
           found == calls[call].found \cup level IN
       IF Children(level) # {}
       THEN /\ calls' = [calls EXCEPT ![call].found = found]
            /\ queue' = Append(queue, FetchOf(call, level))
            /\ UNCHANGED model
       ELSE /\ calls' = [calls EXCEPT ![call].found = found, ![call].phase = "done"]
            /\ DeleteAll(found \cup {calls[call].record}, calls[call].op)
    /\ inbox' = Tail(inbox)
    /\ UNCHANGED <<row, sets, faults>>

-----------------------------------------------------------------------------
(* The adapter: a record that is no more is not updated. *)

Executed(old, operation) ==
    IF operation.type = "update" /\ old.status # "none" THEN operation.raw ELSE Absent

ExecuteBatch ==
    /\ queue # <<>> /\ Head(queue).kind = "batch"
    /\ LET ops == Head(queue).operations IN
       row' = [r \in Record |-> IF r \in Head(queue).records THEN Executed(row[r], ops[r]) ELSE row[r]]
    /\ queue' = Tail(queue)
    /\ UNCHANGED <<model, calls, inbox, sets, faults>>

BatchFails ==
    /\ queue # <<>> /\ Head(queue).kind = "batch"
    /\ faults < MaxFaults /\ faults' = faults + 1
    /\ queue' = Tail(queue)
    /\ UNCHANGED <<model, row, calls, inbox, sets>>

(* The children of a level that are not marked as deleted. *)
ExecuteFetch ==
    /\ queue # <<>> /\ Head(queue).kind = "fetch"
    /\ inbox' = Append(inbox, [call |-> Head(queue).call,
                   records |-> {r \in Children(Head(queue).records) : IsAlive(row[r])}])
    /\ queue' = Tail(queue)
    /\ UNCHANGED <<model, row, calls, sets, faults>>

Next ==
    \/ \E r \in Record, c \in Column, throws \in BOOLEAN : Update(r, c, throws)
    \/ \E r \in Record, c \in Column : SetField(r, c)
    \/ \E r \in Record, type \in Deletes : Delete(r, type) \/ DeleteWithDescendants(r, type)
    \/ ReceiveDescendants
    \/ ExecuteBatch \/ BatchFails \/ ExecuteFetch

Spec == Init /\ [][Next]_vars

-----------------------------------------------------------------------------
TypeOK ==
    /\ model \in [Record -> [raw : Raw, prepared : {"none"} \cup Deletes, editing : BOOLEAN]]
    /\ row \in [Record -> Raw]
    /\ Len(calls) <= MaxCalls
    /\ \A i \in 1..Len(calls) :
         calls[i] \in [op : {"update"} \cup Deletes, record : Record, found : SUBSET Record,
                       phase : {"fetching", "done"}]
    /\ \A i \in 1..Len(queue) :
         LET m == queue[i] IN
         \/ m.kind = "fetch" /\ calls[m.call].phase = "fetching" /\ m.records \subseteq Record
         \/ m.kind = "batch" /\ m.operations \in
              [m.records -> [type : {"update", "destroyPermanently"}, raw : Raw]]
    /\ \A i \in 1..Len(inbox) : calls[inbox[i].call].phase = "fetching"
    /\ sets \in 0..MaxSets
    /\ faults \in 0..MaxFaults

(* A record does not outlive the one it belongs to, however calls that delete them
   cross each other or fail.  It speaks of the records there are: nothing keeps an
   application from creating a child when its level has been fetched already. *)
NoOrphans == \A r \in Record : \A s \in Children({r}) : IsAlive(row[s]) => IsAlive(row[r])

(* What differs from the server is marked for the next push, whichever of several
   updates has failed or thrown.                                             *)
ChangesAreMarked ==
    \A r \in Record : row[r].status # "none" =>
        \A c \in Column : row[r].data[c] # 0 => c \in row[r].changed

(* "Prepared changes must be executed by synchronously passing them to
   database.batch()": when no JavaScript is executing none is left.            *)
SentAtOnce == \A r \in Record : model[r].prepared = "none"

(* A deletion is final: no update that was under way brings the record back. *)
DeletedForGood ==
    [][\A r \in Record : ~IsAlive(row[r]) => ~IsAlive(row'[r])]_vars

(* "Not allowed to change record outside of create/update()" *)
ChangedByCallsOnly ==
    [][\A r \in Record : model'[r].raw.data # model[r].raw.data => calls' # calls]_vars
=============================================================================
