---------------------------- MODULE ClientBuffer ----------------------------
(***************************************************************************)
(* The buffer of a client (DriverSource/client_buffer.h): row_count rows,  *)
(* each holding the channels of one sample, filled front to back.  When    *)
(* avg_divisor > 1 only the first of avg_divisor samples is kept in a row. *)
(*                                                                         *)
(* A row is the number of the sample it holds; samples are numbered from   *)
(* 1, so Blank stands for the zeroes that memset writes.                   *)
(***************************************************************************)
EXTENDS Integers

CONSTANTS
    row_count,      \* rows of a buffer
    avg_divisor     \* samples that go into one row

ASSUME BufferAssumption ==
    /\ row_count \in Nat \ {0}
    /\ avg_divisor \in Nat \ {0}

Rows  == 0 .. row_count - 1
Blank == 0

Buffer == [rows                 : [Rows -> Nat],
           curr_pos             : 0 .. row_count,
           curr_pos_times_added : 0 .. avg_divisor - 1,
           full                 : BOOLEAN]

buffer_init == [rows                 |-> [i \in Rows |-> Blank],
                curr_pos             |-> 0,
                curr_pos_times_added |-> 0,
                full                 |-> FALSE]

(* Mutant of Writable: buffer_write does not look at the buffer.           *)
BlindlyWritable(b) == TRUE

(* What buffer_write asks of the buffer before it stores anything: it      *)
(* answers -EPERM for a full buffer and -EINVAL past the last row, a case  *)
(* its comment says should never happen.                                   *)
Writable(b) == ~b.full /\ b.curr_pos < row_count

(* Mutant of Fills: an off-by-one in the last test of buffer_write.        *)
FillsLate(pos) == pos > row_count

(* The row closed last was the last one.                                   *)
Fills(pos) == pos = row_count

(* buffer_write of sample s into a Writable buffer.                        *)
buffer_write(b, s) ==
    LET added  == b.curr_pos_times_added + 1
        closes == added = avg_divisor
        pos    == IF closes THEN b.curr_pos + 1 ELSE b.curr_pos
    IN  [rows |-> IF b.curr_pos_times_added = 0
                  THEN [b.rows EXCEPT ![b.curr_pos] = s]
                  ELSE b.rows,
         curr_pos             |-> pos,
         curr_pos_times_added |-> IF closes THEN 0 ELSE added,
         full                 |-> Fills(pos)]

(* The two stores of buffer_copy_to_user that give the buffer back to the  *)
(* callback, and the memset that follows them.                             *)
mark_read(b) == [rows                 |-> b.rows,
                 curr_pos             |-> 0,
                 curr_pos_times_added |-> b.curr_pos_times_added,
                 full                 |-> FALSE]
wipe(b)      == [b EXCEPT !.rows = [i \in Rows |-> Blank]]

(* The buffer holds something written since it was marked as read.         *)
Started(b) == b.curr_pos > 0 \/ b.curr_pos_times_added > 0

(* The content in the order copy_to_user hands it to the client.           *)
Packet(b) == [i \in 1 .. row_count |-> b.rows[i - 1]]
=============================================================================
