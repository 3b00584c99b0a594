----------------------------- MODULE FrameQueue -----------------------------
(***************************************************************************)
(* What the converter promises about its frames, the samples of all        *)
(* channels taken in one round: they are handed to the USB endpoint whole, *)
(* in the order they were taken, none missing and none twice, until there  *)
(* is no room for one.  Then sampling stops, and what is waiting is either *)
(* all kept or all dropped.  A configuration without channels has no room, *)
(* and takes none.                                                         *)
(***************************************************************************)
EXTENDS Integers, Sequences

CONSTANTS
    Capacities,     \* rooms the queue can have, one for each configuration
    NoFrame

VARIABLES
    queue,          \* frames taken and not yet handed over
    next,           \* number of the frame being taken
    running,        \* sampling
    capacity,
    last            \* the frame handed over last

Init ==
    /\ queue = << >> /\ next = 0 /\ ~running
    /\ capacity \in Nat
    /\ last = NoFrame

(* The numbers go on where they were, or further on.                       *)
Begin ==
    /\ ~running
    /\ capacity' \in Capacities
    /\ running' = (capacity' > 0)
    /\ queue' = << >>
    /\ last' = NoFrame
    /\ next' \in Nat /\ next' >= next

Halt == running' = FALSE /\ UNCHANGED <<queue, next, capacity, last>>

Take ==
    /\ running
    /\ Len(queue) + 1 < capacity
    /\ queue' = Append(queue, next)
    /\ next' = next + 1
    /\ UNCHANGED <<running, capacity, last>>

(* A frame may still occupy its room while it is handed over.              *)
Overflow ==
    /\ running
    /\ Len(queue) + 2 >= capacity
    /\ running' = FALSE
    /\ queue' \in {<< >>, Append(queue, next)}
    /\ next' = next + 1
    /\ UNCHANGED <<capacity, last>>

HandOver ==
    /\ queue # << >>
    /\ last' = Head(queue)
    /\ queue' = Tail(queue)
    /\ UNCHANGED <<next, running, capacity>>

Next == Begin \/ Halt \/ Take \/ Overflow \/ HandOver

Spec == Init /\ [][Next]_<<queue, next, running, capacity, last>>
=============================================================================
