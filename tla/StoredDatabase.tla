---------------------------- MODULE StoredDatabase ----------------------------
(* What the native adapter promises about the database file: at any moment, so
   also after a crash, it holds the effect of whole calls, one after another.
   A reset is the one call with an intermediate result, the empty file.  A batch
   is written in one step, and exactly as it was asked for; it is answered as
   written only if it was, and as refused only if nothing of it was.

   file.version is the user_version, file.tables the version of the schema whose
   tables exist, 0 when there are none.  batch[c] is the batch client c is
   waiting for, or has an answer to.                                         *)
EXTENDS Naturals

CONSTANTS Id, MaxVersion, ServerIds, Client

VARIABLES file, batch

Files == [version : 0..MaxVersion, tables : 0..MaxVersion, rows : SUBSET Id,
          pulled : BOOLEAN, loaded : BOOLEAN]
Batches == [status : {"none", "asked", "written", "refused"},
            add : SUBSET Id, remove : SUBSET Id]

Empty == [version |-> 0, tables |-> 0, rows |-> {}, pulled |-> FALSE, loaded |-> FALSE]
Bare(status) == [status |-> status, add |-> {}, remove |-> {}]

Init == file = Empty /\ batch = [c \in Client |-> Bare("none")]
-----------------------------------------------------------------------------
(* The calls that are not batches. *)

(* The first half of a reset. *)
Erase == file' = Empty

(* Its second half, and the set-up with a schema: tables and version together. *)
CreateTables == \E v \in 1..MaxVersion :
    /\ file.tables = 0
    /\ file' = [file EXCEPT !.version = v, !.tables = v]

(* A migration keeps the data. *)
Migrate == \E v \in 1..MaxVersion :
    /\ file.tables \in 1..(v - 1)
    /\ file' = [file EXCEPT !.version = v, !.tables = v]

(* All records of a turbo sync, over an arbitrary database that has none of them. *)
Load ==
    /\ file.tables # 0
    /\ ServerIds \cap file.rows = {}
    /\ file' = [file EXCEPT !.rows = @ \cup ServerIds, !.loaded = TRUE]

NotePulled ==
    /\ file.tables # 0
    /\ file' = [file EXCEPT !.pulled = TRUE]

OtherCall == Erase \/ CreateTables \/ Migrate \/ Load \/ NotePulled
-----------------------------------------------------------------------------
(* Batches. *)

Ask(c) == \E add, remove \in SUBSET Id :
    /\ batch[c].status = "none"
    /\ batch' = [batch EXCEPT ![c] = [status |-> "asked", add |-> add, remove |-> remove]]
    /\ UNCHANGED file

(* All of what was asked for, at once. *)
Write(c) ==
    LET add == batch[c].add  remove == batch[c].remove IN
    /\ batch[c].status = "asked"
    /\ add \cap file.rows = {}
    /\ add \cup remove # {} => file.tables # 0
    /\ file' = [file EXCEPT !.rows = (@ \cup add) \ remove]
    /\ batch' = [batch EXCEPT ![c] = Bare("written")]

(* Nothing of it. *)
Refuse(c) ==
    /\ batch[c].status = "asked"
    /\ batch' = [batch EXCEPT ![c] = Bare("refused")]
    /\ UNCHANGED file

Return(c) ==
    /\ batch[c].status \in {"written", "refused"}
    /\ batch' = [batch EXCEPT ![c] = Bare("none")]
    /\ UNCHANGED file

Crash == batch' = [c \in Client |-> Bare("none")] /\ UNCHANGED file
-----------------------------------------------------------------------------
Next ==
    \/ OtherCall /\ UNCHANGED batch
    \/ Crash
    \/ \E c \in Client : Ask(c) \/ Write(c) \/ Refuse(c) \/ Return(c)

Spec == Init /\ [][Next]_<<file, batch>>
=============================================================================
