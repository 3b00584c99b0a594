---------------------------- MODULE SampleStream ----------------------------
(***************************************************************************)
(* What the driver promises to one client: packets of row_count rows, the  *)
(* rows of the whole stream being every avg_divisor-th sample from the     *)
(* first one on, none missing, none repeated, none out of order - for as   *)
(* long as nothing has broken the stream.  Once it is broken only the size *)
(* of a packet is promised.                                                *)
(***************************************************************************)
EXTENDS Integers, Sequences

CONSTANTS row_count, avg_divisor

VARIABLES
    stream,     \* the rows handed to the client so far
    broken      \* a sample was lost on the way

Expected(n) == [i \in 1 .. row_count |-> (n + i - 1) * avg_divisor + 1]

Init == stream = << >> /\ broken = FALSE

Deliver ==
    /\ ~broken
    /\ stream' = stream \o Expected(Len(stream))
    /\ UNCHANGED broken

Break == ~broken /\ broken' = TRUE /\ UNCHANGED stream

DeliverBroken ==
    /\ broken
    /\ Len(stream') = Len(stream) + row_count
    /\ SubSeq(stream', 1, Len(stream)) = stream
    /\ UNCHANGED broken

Next == Deliver \/ Break \/ DeliverBroken

Spec == Init /\ [][Next]_<<stream, broken>>
=============================================================================
