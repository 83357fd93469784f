---------------------------- MODULE SerialAccess ----------------------------
(* What the queue of readers and writers promises, with no word of timers,
   flags or promises: clients are admitted one at a time in the order they
   asked, a client keeps access until it gives it up, and clients that still
   wait may be turned away.                                                 *)
EXTENDS Naturals, Sequences

CONSTANTS Client, NoClient

VARIABLES
    waiting,    \* clients in the order they asked
    holder,     \* the client that has access, or NoClient
    asked       \* every client that ever asked

vars == <<waiting, holder, asked>>

Init ==
    /\ waiting = <<>>
    /\ holder = NoClient
    /\ asked = {}

(* A client asks.  When nobody is there it may be admitted on the spot. *)
Ask(c) ==
    /\ c \notin asked
    /\ asked' = asked \cup {c}
    /\ \/ /\ holder = NoClient /\ waiting = <<>>
          /\ holder' = c
          /\ UNCHANGED waiting
       \/ /\ holder # NoClient \/ waiting # <<>>
          /\ waiting' = Append(waiting, c)
          /\ UNCHANGED holder

Admit ==
    /\ holder = NoClient
    /\ waiting # <<>>
    /\ holder' = Head(waiting)
    /\ waiting' = Tail(waiting)
    /\ UNCHANGED asked

Leave ==
    /\ holder # NoClient
    /\ holder' = NoClient
    /\ UNCHANGED <<waiting, asked>>

(* Those behind the first k are turned away. *)
TurnAway(k) ==
    /\ waiting' = SubSeq(waiting, 1, k)
    /\ UNCHANGED <<holder, asked>>

Next ==
    \/ \E c \in Client : Ask(c)
    \/ Admit
    \/ Leave
    \/ \E k \in 0..1 : Len(waiting) > k /\ TurnAway(k)

Spec == Init /\ [][Next]_vars /\ WF_vars(Admit)
=============================================================================
