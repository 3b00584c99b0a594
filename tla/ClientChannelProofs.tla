------------------------ MODULE ClientChannelProofs ------------------------
(***************************************************************************)
(* Proofs about ClientChannel for any number of threads, any size of the   *)
(* buffers, any divisor, any grace and any number of samples: the type of  *)
(* the state, that nobody touches a buffer while a thread copies it, the   *)
(* only situation in which buffer_write refuses a sample, that no sample   *)
(* is handed out twice, and that the channel implements SampleStream.      *)
(***************************************************************************)
EXTENDS ClientChannel, TLAPS

-----------------------------------------------------------------------------
(* The buffer.                                                             *)

(* full says that the last row has been closed; then no row is open.       *)
WellFilled(b) ==
    /\ b.full <=> b.curr_pos = row_count
    /\ b.full => b.curr_pos_times_added = 0

(* A new buffer is one, is well filled and is empty.                       *)
LEMMA BufferInit == buffer_init \in Buffer /\ WellFilled(buffer_init)
<1>1. row_count > 0 /\ avg_divisor > 0
  BY BufferAssumption
<1>2. buffer_init.rows \in [Rows -> Nat]
  BY DEF buffer_init, Blank
<1>3. buffer_init.curr_pos = 0 /\ buffer_init.curr_pos_times_added = 0 /\ ~buffer_init.full
  BY DEF buffer_init
<1> QED
  BY <1>1, <1>2, <1>3, BufferAssumption DEF buffer_init, Buffer, WellFilled

(* What can be written to is exactly what is not full.                     *)
LEMMA WritableIffNotFull ==
  ASSUME NEW b \in Buffer, WellFilled(b)
  PROVE  Writable(b) <=> ~b.full
BY BufferAssumption DEF Buffer, WellFilled, Writable

(* buffer_write of a sample into a buffer that has a row left.             *)
LEMMA BufferWrite ==
  ASSUME NEW b \in Buffer, WellFilled(b), Writable(b), NEW s \in Nat
  PROVE  /\ buffer_write(b, s) \in Buffer
         /\ WellFilled(buffer_write(b, s))
<1> DEFINE w == buffer_write(b, s)
<1>1. /\ b.rows \in [Rows -> Nat]
      /\ b.curr_pos \in 0 .. row_count - 1
      /\ b.curr_pos_times_added \in 0 .. avg_divisor - 1
  BY BufferAssumption DEF Buffer, Writable
<1>2. w.rows \in [Rows -> Nat]
  BY <1>1 DEF buffer_write
<1> DEFINE added == b.curr_pos_times_added + 1
           pos   == IF added = avg_divisor THEN b.curr_pos + 1 ELSE b.curr_pos
<1>3. /\ w.curr_pos = pos
      /\ w.curr_pos_times_added = IF added = avg_divisor THEN 0 ELSE added
      /\ w.full = (pos = row_count)
  BY DEF buffer_write, Fills
<1>5. /\ pos \in 0 .. row_count
      /\ w.curr_pos_times_added \in 0 .. avg_divisor - 1
      /\ pos = row_count => w.curr_pos_times_added = 0
  BY <1>1, <1>3, BufferAssumption
<1>6. WellFilled(w)
  BY <1>3, <1>5 DEF WellFilled
<1>4. w = [rows |-> w.rows, curr_pos |-> w.curr_pos,
           curr_pos_times_added |-> w.curr_pos_times_added, full |-> w.full]
  BY DEF buffer_write
<1> QED
  BY <1>2, <1>3, <1>4, <1>5, <1>6 DEF Buffer

(* Handing a full buffer back leaves an empty one; wiping changes rows.    *)
LEMMA BufferRead ==
  ASSUME NEW b \in Buffer
  PROVE  /\ mark_read(b) \in Buffer
         /\ WellFilled(mark_read(b))
         /\ ~mark_read(b).full
<1>1. mark_read(b) \in Buffer
  <2>1. b.rows \in [Rows -> Nat] /\ b.curr_pos_times_added \in 0 .. avg_divisor - 1
    BY DEF Buffer
  <2> QED
    BY <2>1, BufferAssumption DEF mark_read, Buffer
<1>2. mark_read(b).curr_pos = 0 /\ ~mark_read(b).full
      /\ mark_read(b).curr_pos_times_added = b.curr_pos_times_added
  BY DEF mark_read, Buffer
<1> QED
  BY <1>1, <1>2, BufferAssumption DEF WellFilled

LEMMA BufferWipe ==
  ASSUME NEW b \in Buffer
  PROVE  /\ wipe(b) \in Buffer
         /\ wipe(b).full = b.full
         /\ wipe(b).curr_pos = b.curr_pos
         /\ wipe(b).curr_pos_times_added = b.curr_pos_times_added
<1>1. [i \in Rows |-> Blank] \in [Rows -> Nat]
  BY DEF Blank
<1>2. wipe(b) = [rows |-> [i \in Rows |-> Blank], curr_pos |-> b.curr_pos,
                 curr_pos_times_added |-> b.curr_pos_times_added, full |-> b.full]
  BY DEF wipe, Buffer
<1> QED
  BY <1>1, <1>2 DEF Buffer

(* A packet is a sequence of row_count rows.                               *)
LEMMA PacketType ==
  ASSUME NEW b \in Buffer
  PROVE  Packet(b) \in Seq(Nat)
<1>1. \A i \in 1 .. row_count : i - 1 \in Rows
  BY BufferAssumption DEF Rows
<1>2. Packet(b) \in [1 .. row_count -> Nat]
  BY <1>1 DEF Packet, Buffer
<1> QED
  BY <1>2, BufferAssumption

-----------------------------------------------------------------------------
(* The type of the state.                                                  *)

Filled == \A b \in Bufs : WellFilled(buf[b])

TypeInv == TypeOK /\ Filled /\ waited <= sample

LEMMA TypeInit == Init => TypeInv
<1> SUFFICES ASSUME Init PROVE TypeInv
  OBVIOUS
<1>1. TypeOK
  <2>1. buf \in [Bufs -> Buffer]
    BY BufferInit DEF Init
  <2>2. /\ sample \in 0 .. MaxSample
        /\ waited \in 0 .. MaxSample
        /\ loops_after_warn_count \in 0 .. WaitLoops
        /\ stream \in Seq(Nat)
    BY ChannelAssumption DEF Init
  <2> QED
    BY <2>1, <2>2 DEF Init, TypeOK, Bufs, Results
<1>2. Filled
  BY BufferInit DEF Init, Filled, Bufs
<1> QED
  BY <1>1, <1>2 DEF TypeInv, Init

(* No step of the callback disturbs a type.                                *)
LEMMA TypeCallback == TypeInv /\ Callback => TypeInv'
<1> SUFFICES ASSUME TypeInv, Callback PROVE TypeInv'
  OBVIOUS
<1> USE DEF TypeInv
<1>1. CASE CallbackEnter
  <2>1. /\ sample' \in 0 .. MaxSample
        /\ waited' \in 0 .. MaxSample
        /\ waited' <= sample'
    BY <1>1, ChannelAssumption DEF CallbackEnter, TypeOK
  <2>2. /\ loops_after_warn_count' \in 0 .. WaitLoops
        /\ cb' \in {"select", "remove"}
    BY <1>1, ChannelAssumption DEF CallbackEnter, Patient, TypeOK
  <2> QED
    BY <1>1, <2>1, <2>2 DEF CallbackEnter, TypeOK, Filled, calls
<1>2. CASE CallbackRemove
  BY <1>2, ChannelAssumption DEF CallbackRemove, TypeOK, Filled, Bufs, client, callback, calls
<1>3. CASE CallbackSelect
  BY <1>3, ChannelAssumption DEF CallbackSelect, NextBuffer, TypeOK, Filled, Bufs, client, callback, calls
<1>4. CASE CallbackSelectSecond
  BY <1>4, ChannelAssumption DEF CallbackSelectSecond, TypeOK, Filled, Bufs, client, callback, calls
<1>5. CASE CallbackUsesFreed
  BY <1>5, ChannelAssumption DEF CallbackUsesFreed, TypeOK, Filled, Bufs, client, callback, calls
<1>6. CASE CallbackRefused
  BY <1>6, ChannelAssumption DEF CallbackRefused, TypeOK, Filled, Bufs, client, callback, calls
<1>7. CASE CallbackWarn
  BY <1>7, ChannelAssumption DEF CallbackWarn, TypeOK, Filled, Bufs, client, callback, calls
<1>8. CASE CallbackWrite
  <2> DEFINE w == buffer_write(buf[cb], sample)
  <2>1. w \in Buffer /\ WellFilled(w)
    BY <1>8, BufferWrite DEF CallbackWrite, TypeOK, Filled
  <2>2. buf' \in [Bufs -> Buffer] /\ Filled'
    BY <1>8, <2>1 DEF CallbackWrite, TypeOK, Filled
  <2>3. w.full \in BOOLEAN
    BY <2>1 DEF Buffer
  <2> QED
    BY <1>8, <2>2, <2>3 DEF CallbackWrite, TypeOK, calls
<1> QED
  BY <1>1, <1>2, <1>3, <1>4, <1>5, <1>6, <1>7, <1>8 DEF Callback

(* No step of a thread does.                                               *)
LEMMA TypeGetData ==
  ASSUME TypeInv, NEW r \in Readers, GetData(r)
  PROVE  TypeInv'
<1> USE DEF TypeInv
<1>1. CASE GetDataEnter(r)
  <2>1. /\ io_mutex' \in Readers \cup {Nobody}
        /\ pc' \in [Readers -> Locked \cup {"user", "unlocked", "waiting", "relock", "oops"}]
    BY <1>1 DEF GetDataEnter, Goto, Return, Leave, Locked, TypeOK
  <2>2. /\ result' \in [Readers -> Results]
        /\ chosen' \in [Readers -> Bufs]
    BY <1>1 DEF GetDataEnter, MutexFree, Goto, Return, Leave, Results, Bufs, TypeOK
  <2> QED
    BY <1>1, <2>1, <2>2 DEF GetDataEnter, TypeOK, Filled, client, callback
<1>2. CASE GetDataTooSlow(r)
  BY <1>2 DEF GetDataTooSlow, Goto, Locked, TypeOK, Filled, client, callback
<1>3. CASE GetDataWait(r)
  BY <1>3 DEF GetDataWait, Goto, Locked, TypeOK, Filled, client, callback
<1>4. CASE GetDataWake(r)
  BY <1>4 DEF GetDataWake, Goto, Locked, TypeOK, Filled, client, callback
<1>5. CASE GetDataRelock(r)
  BY <1>5 DEF GetDataRelock, Goto, Return, Results, Locked, TypeOK, Filled, client, callback
<1>6. CASE GetDataChoose(r)
  <2>1. /\ io_mutex' \in Readers \cup {Nobody}
        /\ pc' \in [Readers -> Locked \cup {"user", "unlocked", "waiting", "relock", "oops"}]
    BY <1>6 DEF GetDataChoose, Goto, Return, Leave, Locked, TypeOK
  <2>2. /\ result' \in [Readers -> Results]
        /\ chosen' \in [Readers -> Bufs]
    BY <1>6 DEF GetDataChoose, Goto, Return, Leave, Results, Bufs, TypeOK
  <2> QED
    BY <1>6, <2>1, <2>2 DEF GetDataChoose, TypeOK, Filled, client, callback
<1>7. CASE GetDataChooseSecond(r)
  <2>1. /\ UNCHANGED <<client, callback, too_slow, retval, stream, fault>>
        /\ \/ /\ chosen' = [chosen EXCEPT ![r] = "second_buf"]
              /\ mishap' = mishap \/ mishap' = mishap \cup {"crossed"}
              /\ pc' = [pc EXCEPT ![r] = "copy"]
              /\ UNCHANGED <<io_mutex, result>>
           \/ /\ io_mutex' = Nobody
              /\ pc' = [pc EXCEPT ![r] = "user"]
              /\ result' = [result EXCEPT ![r] = "OkEmpty"]
              /\ UNCHANGED <<chosen, mishap>>
    BY <1>7 DEF GetDataChooseSecond, Goto, Return, Leave
  <2>2. mishap' \subseteq {"overtaken", "strayed", "dropped", "crossed", "copy_fault", "wiped"}
    BY <2>1 DEF TypeOK
  <2>3. /\ pc' \in [Readers -> Locked \cup {"user", "unlocked", "waiting", "relock", "oops"}]
        /\ chosen' \in [Readers -> Bufs]
    BY <2>1 DEF Locked, Bufs, TypeOK
  <2>4. result' \in [Readers -> Results]
    BY <2>1 DEF Results, TypeOK
  <2> QED
    BY <2>1, <2>2, <2>3, <2>4 DEF TypeOK, Filled, client, callback
<1>8. CASE GetDataCheck(r)
  BY <1>8 DEF GetDataCheck, Goto, Return, Leave, Outcome, Results, Locked, TypeOK, Filled, client, callback
<1>9. CASE GetDataUnwarn(r)
  BY <1>9 DEF GetDataUnwarn, Goto, Return, Leave, Outcome, Results, Locked, TypeOK, Filled, client, callback
<1>10. CASE GetDataFaults(r)
  BY <1>10 DEF GetDataFaults, Goto, Locked, TypeOK, Filled, client, callback
<1>11. CASE GetDataCopy(r)
  <2>1. Packet(buf[chosen[r]]) \in Seq(Nat)
    BY PacketType DEF TypeOK
  <2>2. stream' \in Seq(Nat)
    <3>1. stream \in Seq(Nat)
      BY DEF TypeOK
    <3>2. stream \o Packet(buf[chosen[r]]) \in Seq(Nat)
      BY <2>1, <3>1
    <3> QED
      BY <1>11, <3>1, <3>2 DEF GetDataCopy
  <2> QED
    BY <1>11, <2>2 DEF GetDataCopy, Goto, Locked, TypeOK, Filled, client, callback
<1>12. CASE GetDataClear(r)
  <2>1. mark_read(buf[chosen[r]]) \in Buffer /\ WellFilled(mark_read(buf[chosen[r]]))
    BY BufferRead DEF TypeOK, Filled
  <2>2. buf' \in [Bufs -> Buffer] /\ Filled'
    BY <1>12, <2>1 DEF GetDataClear, TypeOK, Filled
  <2> QED
    BY <1>12, <2>2 DEF GetDataClear, Goto, Locked, TypeOK, callback
<1>13. CASE GetDataWipe(r)
  <2>1. wipe(buf[chosen[r]]) \in Buffer /\ WellFilled(wipe(buf[chosen[r]]))
    BY BufferWipe DEF TypeOK, Filled, WellFilled
  <2>2. buf' \in [Bufs -> Buffer] /\ Filled'
    BY <1>13, <2>1 DEF GetDataWipe, TypeOK, Filled
  <2> QED
    BY <1>13, <2>2 DEF GetDataWipe, Goto, Locked, TypeOK, callback
<1> QED
  BY <1>1, <1>2, <1>3, <1>4, <1>5, <1>6, <1>7, <1>8, <1>9, <1>10, <1>11, <1>12, <1>13 DEF GetData

LEMMA TypeStep == TypeInv /\ [Next]_vars => TypeInv'
<1> SUFFICES ASSUME TypeInv, [Next]_vars PROVE TypeInv'
  OBVIOUS
<1>1. CASE Callback
  BY <1>1, TypeCallback
<1>2. CASE \E r \in Readers : GetData(r)
  BY <1>2, TypeGetData
<1>3. CASE UNCHANGED vars
  BY <1>3 DEF TypeInv, TypeOK, Filled, vars, client, callback, calls
<1> QED
  BY <1>1, <1>2, <1>3 DEF Next

LEMMA TypeInvariant == Spec => []TypeInv
BY TypeInit, TypeStep, PTL DEF Spec

(* The state of the channel is always of its type.                         *)
THEOREM TypeCorrect == Spec => []TypeOK
<1>1. TypeInv => TypeOK
  BY DEF TypeInv
<1> QED
  BY <1>1, TypeInvariant, PTL

-----------------------------------------------------------------------------
(* Mutual exclusion: a thread between lock and unlock holds io_mutex.  The *)
(* converse is false, a thread that finds its client gone returns with it. *)

MutexHeld == \A r \in Readers : pc[r] \in Locked => io_mutex = r

LEMMA MutexStep ==
  ASSUME TypeInv, MutexHeld, [Next]_vars
  PROVE  MutexHeld'
<1> USE DEF TypeInv, MutexHeld
<1>1. CASE Callback
  <2>1. UNCHANGED <<pc, io_mutex>>
    BY <1>1 DEF Callback, CallbackEnter, CallbackRemove, CallbackSelect, CallbackSelectSecond,
                CallbackUsesFreed, CallbackWrite, CallbackRefused, CallbackWarn, calls
  <2> QED
    BY <2>1
<1>2. ASSUME NEW r \in Readers, GetData(r)
      PROVE  MutexHeld'
  <2>1. /\ pc \in [Readers -> Locked \cup {"user", "unlocked", "waiting", "relock", "oops"}]
        /\ Nobody \notin Readers
    BY ChannelAssumption DEF TypeOK
  <2>2. CASE GetDataEnter(r)
    BY <2>1, <2>2 DEF GetDataEnter, MutexFree, Goto, Return, Leave, Locked
  <2>3. CASE GetDataTooSlow(r)
    BY <2>1, <2>3 DEF GetDataTooSlow, Goto, Locked
  <2>4. CASE GetDataWait(r)
    BY <2>1, <2>4 DEF GetDataWait, Goto, Locked
  <2>5. CASE GetDataWake(r)
    BY <2>1, <2>5 DEF GetDataWake, Goto, Locked
  <2>6. CASE GetDataRelock(r)
    BY <2>1, <2>6 DEF GetDataRelock, MutexFree, Goto, Return, Locked
  <2>7. CASE GetDataChoose(r)
    BY <2>1, <2>7 DEF GetDataChoose, Goto, Locked
  <2>8. CASE GetDataChooseSecond(r)
    BY <2>1, <2>8 DEF GetDataChooseSecond, Goto, Return, Leave, Locked
  <2>9. CASE GetDataCopy(r)
    BY <2>1, <2>9 DEF GetDataCopy, Goto, Locked
  <2>10. CASE GetDataClear(r)
    BY <2>1, <2>10 DEF GetDataClear, Goto, Locked
  <2>11. CASE GetDataWipe(r)
    BY <2>1, <2>11 DEF GetDataWipe, Goto, Locked
  <2>12. CASE GetDataCheck(r)
    BY <2>1, <2>12 DEF GetDataCheck, Goto, Return, Leave, Locked
  <2>13. CASE GetDataUnwarn(r)
    BY <2>1, <2>13 DEF GetDataUnwarn, Goto, Return, Leave, Locked
  <2>14. CASE GetDataFaults(r)
    BY <2>1, <2>14 DEF GetDataFaults, Goto, Locked
  <2> QED
    BY <1>2, <2>2, <2>3, <2>4, <2>5, <2>6, <2>7, <2>8, <2>9, <2>10, <2>11, <2>12, <2>13, <2>14 DEF GetData
<1>3. CASE UNCHANGED vars
  BY <1>3 DEF vars, calls
<1> QED
  BY <1>1, <1>2, <1>3 DEF Next

-----------------------------------------------------------------------------
(* A buffer that is being copied.                                          *)

(* It is full, ...                                                         *)
CopyFull == \A r \in Readers, b \in Bufs : Copying(r, b) => buf[b].full

(* ... the callback leaves a full buffer as it is, ...                     *)
LEMMA CallbackLeavesFull ==
  ASSUME TypeInv, Callback, NEW b \in Bufs, buf[b].full
  PROVE  buf'[b] = buf[b] /\ UNCHANGED <<pc, chosen>>
<1>1. CASE CallbackWrite
  <2>1. cb # b
    BY <1>1 DEF CallbackWrite, Writable
  <2> QED
    BY <1>1, <2>1 DEF CallbackWrite, TypeInv, TypeOK, calls
<1>2. CASE ~CallbackWrite
  BY <1>2 DEF Callback, CallbackEnter, CallbackRemove, CallbackSelect, CallbackSelectSecond,
              CallbackUsesFreed, CallbackRefused, CallbackWarn, calls, client
<1> QED
  BY <1>1, <1>2

(* ... and no other thread gets at it.                                     *)
LEMMA OthersLeaveCopied ==
  ASSUME TypeInv, MutexHeld, NEW r \in Readers, NEW b \in Bufs, Copying(r, b),
         NEW q \in Readers, GetData(q), q # r
  PROVE  UNCHANGED <<buf, pc[r], chosen[r]>>
<1>1. io_mutex = r /\ pc[q] \notin Locked
  BY DEF MutexHeld, Copying, Locked
<1>2. pc[q] \notin {"clear", "wipe"}
  BY <1>1 DEF Locked
<1>3. UNCHANGED buf
  BY <1>2 DEF GetData, GetDataEnter, GetDataTooSlow, GetDataWait, GetDataWake, GetDataRelock,
              GetDataChoose, GetDataChooseSecond, GetDataCopy, GetDataClear, GetDataWipe,
              GetDataCheck, GetDataUnwarn, GetDataFaults, client
<1>4. \E p : pc' = [pc EXCEPT ![q] = p]
  BY DEF GetData, GetDataEnter, GetDataTooSlow, GetDataWait, GetDataWake, GetDataRelock,
         GetDataChoose, GetDataChooseSecond, GetDataCopy, GetDataClear, GetDataWipe,
         GetDataCheck, GetDataUnwarn, GetDataFaults, Goto, Return, Leave
<1>5. chosen' = chosen \/ \E c : chosen' = [chosen EXCEPT ![q] = c]
  BY DEF GetData, GetDataEnter, GetDataTooSlow, GetDataWait, GetDataWake, GetDataRelock,
         GetDataChoose, GetDataChooseSecond, GetDataCopy, GetDataClear, GetDataWipe,
         GetDataCheck, GetDataUnwarn, GetDataFaults
<1> QED
  BY <1>3, <1>4, <1>5 DEF TypeInv, TypeOK

(* The thread itself changes it only when it hands it back.                *)
LEMMA OwnerLeavesCopied ==
  ASSUME TypeInv, NEW r \in Readers, NEW b \in Bufs, Copying(r, b), GetData(r)
  PROVE  /\ buf'[b] = IF pc'[r] = "wipe" THEN mark_read(buf[b]) ELSE buf[b]
         /\ chosen'[r] = chosen[r]
<1>1. /\ pc[r] \in {"copy", "clear"}
      /\ chosen[r] = b
      /\ pc \in [Readers -> Locked \cup {"user", "unlocked", "waiting", "relock", "oops"}]
      /\ buf \in [Bufs -> Buffer]
  BY DEF Copying, TypeInv, TypeOK
<1>2. CASE GetDataCopy(r)
  BY <1>1, <1>2 DEF GetDataCopy, Goto, client
<1>3. CASE GetDataClear(r)
  BY <1>1, <1>3 DEF GetDataClear, Goto
<1>4. CASE GetDataFaults(r)
  BY <1>1, <1>4 DEF GetDataFaults, Goto, client
<1>5. GetDataCopy(r) \/ GetDataClear(r) \/ GetDataFaults(r)
  BY <1>1 DEF GetData, GetDataEnter, GetDataTooSlow, GetDataWait, GetDataWake, GetDataRelock,
              GetDataChoose, GetDataChooseSecond, GetDataWipe, GetDataCheck, GetDataUnwarn
<1> QED
  BY <1>2, <1>3, <1>4, <1>5

LEMMA CopiedStep ==
  ASSUME TypeInv, MutexHeld, CopyFull, [Next]_vars, NEW r \in Readers, NEW b \in Bufs,
         Copying(r, b)
  PROVE  buf'[b] = IF pc'[r] = "wipe" THEN mark_read(buf[b]) ELSE buf[b]
<1>1. pc[r] # "wipe" /\ buf[b].full
  BY DEF Copying, CopyFull
<1>2. CASE Callback
  BY <1>1, <1>2, CallbackLeavesFull
<1>3. ASSUME NEW q \in Readers, GetData(q)
      PROVE  buf'[b] = IF pc'[r] = "wipe" THEN mark_read(buf[b]) ELSE buf[b]
  <2>1. CASE q = r
    BY <1>3, <2>1, OwnerLeavesCopied
  <2>2. CASE q # r
    BY <1>1, <1>3, <2>2, OthersLeaveCopied
  <2> QED
    BY <2>1, <2>2
<1>4. CASE UNCHANGED vars
  BY <1>1, <1>4 DEF vars, client, calls
<1> QED
  BY <1>2, <1>3, <1>4 DEF Next

LEMMA CopyFullStep ==
  ASSUME TypeInv, MutexHeld, CopyFull, [Next]_vars
  PROVE  CopyFull'
<1> SUFFICES ASSUME NEW r \in Readers, NEW b \in Bufs, Copying(r, b)'
             PROVE  buf'[b].full
  BY DEF CopyFull
<1>1. CASE Copying(r, b)
  <2>1. pc'[r] # "wipe" /\ buf[b].full
    BY <1>1 DEF Copying, CopyFull
  <2> QED
    BY <1>1, <2>1, CopiedStep
<1>2. CASE ~Copying(r, b)
  <2>1. CASE Callback
    <3>1. UNCHANGED <<pc, chosen>>
      BY <2>1 DEF Callback, CallbackEnter, CallbackRemove, CallbackSelect, CallbackSelectSecond,
                  CallbackUsesFreed, CallbackWrite, CallbackRefused, CallbackWarn, calls
    <3> QED
      BY <1>2, <3>1 DEF Copying
  <2>2. ASSUME NEW q \in Readers, GetData(q)
        PROVE  buf'[b].full
    <3>1. CASE GetDataChoose(q) \/ GetDataChooseSecond(q)
      <4>1. CASE q = r
        BY <1>2, <3>1, <4>1 DEF GetDataChoose, GetDataChooseSecond, Copying, Goto, Return, Leave,
                                client, TypeInv, TypeOK
      <4>2. CASE q # r
        BY <1>2, <3>1, <4>2 DEF GetDataChoose, GetDataChooseSecond, Copying, Goto, Return, Leave,
                                TypeInv, TypeOK
      <4> QED
        BY <4>1, <4>2
    <3>2. CASE ~(GetDataChoose(q) \/ GetDataChooseSecond(q))
      <4>1. UNCHANGED chosen
        BY <2>2, <3>2 DEF GetData, GetDataEnter, GetDataTooSlow, GetDataWait, GetDataWake,
                          GetDataRelock, GetDataCopy, GetDataClear, GetDataWipe,
                          GetDataCheck, GetDataUnwarn, GetDataFaults
      <4>2. pc'[r] \in {"copy", "clear"} => pc[r] \in {"copy", "clear"}
        BY <2>2, <3>2 DEF GetData, GetDataEnter, GetDataTooSlow, GetDataWait, GetDataWake,
                          GetDataRelock, GetDataCopy, GetDataClear, GetDataWipe,
                          GetDataCheck, GetDataUnwarn, GetDataFaults, Goto, Return, Leave,
                          TypeInv, TypeOK
      <4> QED
        BY <1>2, <4>1, <4>2 DEF Copying
    <3> QED
      BY <3>1, <3>2
  <2>3. CASE UNCHANGED vars
    BY <1>2, <2>3 DEF vars, calls, Copying
  <2> QED
    BY <2>1, <2>2, <2>3 DEF Next
<1> QED
  BY <1>1, <1>2

CopyInv == TypeInv /\ MutexHeld /\ CopyFull

LEMMA CopyInvariant == Spec => []CopyInv
<1>1. Init => CopyInv
  BY TypeInit DEF CopyInv, MutexHeld, CopyFull, Copying, Init, Locked
<1>2. CopyInv /\ [Next]_vars => CopyInv'
  BY TypeStep, MutexStep, CopyFullStep DEF CopyInv
<1> QED
  BY <1>1, <1>2, PTL DEF Spec

(* Nothing changes a buffer while a thread copies it: packets are not torn *)
(* although the callback and IOCTL_GET_DATA share no lock.                 *)
THEOREM CopiedIsStable == Spec => CopiedBufferIsStable
<1>1. CopyInv /\ [Next]_vars =>
        [\A r \in Readers, b \in Bufs :
           Copying(r, b) =>
             buf'[b] = IF pc'[r] = "wipe" THEN mark_read(buf[b]) ELSE buf[b]]_vars
  BY CopiedStep DEF CopyInv
<1> QED
  BY <1>1, CopyInvariant, PTL DEF Spec, CopiedBufferIsStable

-----------------------------------------------------------------------------
(* Where the next sample goes.                                             *)

(* After the removal the callback touches the client once more at most.    *)
GoneQuiet == ~attached => cb \in {"idle", "select"}

(* The buffer the callback has decided on is not full, unless overtaken.   *)
Target ==
    /\ cb = "first_buf" => ~buf["first_buf"].full
    /\ cb = "second_buf" /\ "overtaken" \notin mishap => ~buf["second_buf"].full

(* The reason: as long as nothing has been overtaken, a full second buffer *)
(* that is not the last one filled is being copied, and the first is full. *)
ReadOrder ==
    /\ attached
    /\ buf["second_buf"].full
    /\ ~use_first_buf
    /\ "overtaken" \notin mishap
    => buf["first_buf"].full /\ \E r \in Readers : Copying(r, "second_buf")

(* A step of a thread fills no buffer and forgets no mishap; it empties at *)
(* most the buffer it has copied.                                          *)
LEMMA GetDataFillsNothing ==
  ASSUME TypeInv, NEW r \in Readers, GetData(r)
  PROVE  /\ UNCHANGED <<cb, attached, use_first_buf>>
         /\ mishap \subseteq mishap'
         /\ \A b \in Bufs : buf'[b].full => buf[b].full
         /\ \A b \in Bufs : buf[b].full /\ ~buf'[b].full => Copying(r, b)
<1>1. CASE GetDataClear(r)
  <2>1. ~mark_read(buf[chosen[r]]).full
    BY BufferRead DEF TypeInv, TypeOK
  <2> QED
    BY <1>1, <2>1 DEF GetDataClear, Copying, callback, TypeInv, TypeOK
<1>2. CASE GetDataWipe(r)
  <2>1. wipe(buf[chosen[r]]).full = buf[chosen[r]].full
    BY BufferWipe DEF TypeInv, TypeOK
  <2> QED
    BY <1>2, <2>1 DEF GetDataWipe, callback, TypeInv, TypeOK
<1>3. CASE ~GetDataClear(r) /\ ~GetDataWipe(r)
  <2>1. UNCHANGED <<cb, attached, use_first_buf, buf>>
    BY <1>3 DEF GetData, GetDataEnter, GetDataTooSlow, GetDataWait, GetDataWake, GetDataRelock,
                GetDataChoose, GetDataChooseSecond, GetDataCopy, GetDataCheck, GetDataUnwarn,
                GetDataFaults, client, callback
  <2>2. mishap \subseteq mishap'
    BY <1>3 DEF GetData, GetDataEnter, GetDataTooSlow, GetDataWait, GetDataWake, GetDataRelock,
                GetDataChoose, GetDataChooseSecond, GetDataCopy, GetDataCheck, GetDataUnwarn,
                GetDataFaults
  <2> QED
    BY <2>1, <2>2
<1> QED
  BY <1>1, <1>2, <1>3

LEMMA GoneQuietStep ==
  ASSUME TypeInv, GoneQuiet, [Next]_vars
  PROVE  GoneQuiet'
<1> USE DEF GoneQuiet
<1>1. CASE Callback
  BY <1>1 DEF Callback, CallbackEnter, CallbackRemove, CallbackSelect, CallbackSelectSecond,
              CallbackUsesFreed, CallbackWrite, CallbackRefused, CallbackWarn, Bufs
<1>2. CASE \E r \in Readers : GetData(r)
  BY <1>2, GetDataFillsNothing
<1>3. CASE UNCHANGED vars
  BY <1>3 DEF vars, callback
<1> QED
  BY <1>1, <1>2, <1>3 DEF Next

LEMMA ReadOrderStep ==
  ASSUME CopyInv, GoneQuiet, ReadOrder, [Next]_vars
  PROVE  ReadOrder'
<1> USE DEF CopyInv
<1> SUFFICES ASSUME attached', buf'["second_buf"].full, ~use_first_buf', "overtaken" \notin mishap'
             PROVE  buf'["first_buf"].full /\ \E r \in Readers : Copying(r, "second_buf")'
  BY DEF ReadOrder
<1>1. CASE CallbackWrite
  <2> DEFINE w == buffer_write(buf[cb], sample)
  <2>1. /\ cb \in Bufs
        /\ buf' = [buf EXCEPT ![cb] = w]
        /\ use_first_buf' = IF w.full THEN cb = "second_buf" ELSE use_first_buf
        /\ ~Overtakes(w)
        /\ "overtaken" \notin mishap
        /\ attached
        /\ UNCHANGED <<pc, chosen>>
    BY <1>1 DEF CallbackWrite, calls
  <2>2. CASE cb = "first_buf"
    <3>1. buf["second_buf"].full /\ buf'["first_buf"] = w
      BY <2>1, <2>2 DEF TypeInv, TypeOK, Bufs
    <3>2. CASE w.full
      <4>1. \E r \in Readers : Copying(r, "second_buf")
        BY <2>1, <2>2, <3>1, <3>2 DEF Overtakes, Unread
      <4> QED
        BY <2>1, <3>1, <3>2, <4>1 DEF Copying
    <3>3. CASE ~w.full
      <4>1. buf["first_buf"].full
        BY <2>1, <3>1, <3>3 DEF ReadOrder
      <4> QED
        BY <1>1, <2>2, <4>1 DEF CallbackWrite, Writable
    <3> QED
      BY <3>2, <3>3
  <2>3. CASE cb = "second_buf"
    BY <2>1, <2>3 DEF TypeInv, TypeOK, Bufs
  <2> QED
    BY <2>1, <2>2, <2>3 DEF Bufs
<1>2. CASE Callback /\ ~CallbackWrite
  <2>1. /\ UNCHANGED <<buf, use_first_buf, pc, chosen>>
        /\ mishap \subseteq mishap'
        /\ attached' => attached
    BY <1>2 DEF Callback, CallbackEnter, CallbackRemove, CallbackSelect, CallbackSelectSecond,
                CallbackUsesFreed, CallbackRefused, CallbackWarn, calls, client
  <2> QED
    BY <2>1 DEF ReadOrder, Copying
<1>3. ASSUME NEW q \in Readers, GetData(q)
      PROVE  buf'["first_buf"].full /\ \E r \in Readers : Copying(r, "second_buf")'
  <2>1. PICK r \in Readers : Copying(r, "second_buf") /\ buf["first_buf"].full
    BY <1>3, GetDataFillsNothing DEF ReadOrder, Bufs
  <2>2. CASE q = r
    <3>1. pc'[r] # "wipe" /\ chosen'[r] = "second_buf"
      BY <1>3, <2>1, <2>2, OwnerLeavesCopied, BufferRead DEF Bufs, Copying, TypeInv, TypeOK
    <3>2. GetDataCopy(r) \/ GetDataClear(r)
      BY <1>3, <2>1, <2>2
         DEF Copying, GetData, GetDataEnter, GetDataTooSlow, GetDataWait, GetDataWake,
             GetDataRelock, GetDataChoose, GetDataChooseSecond, GetDataWipe, GetDataCheck,
             GetDataUnwarn, GetDataFaults, callback
    <3>3. GetDataCopy(r)
      BY <3>1, <3>2 DEF GetDataClear, Goto, TypeInv, TypeOK
    <3> QED
      BY <2>1, <3>3 DEF GetDataCopy, Goto, Copying, client, TypeInv, TypeOK
  <2>3. CASE q # r
    BY <1>3, <2>1, <2>3, OthersLeaveCopied DEF Bufs, Copying
  <2> QED
    BY <2>2, <2>3
<1>4. CASE UNCHANGED vars
  BY <1>4 DEF vars, client, callback, calls, ReadOrder, Copying
<1> QED
  BY <1>1, <1>2, <1>3, <1>4 DEF Next

LEMMA TargetStep ==
  ASSUME CopyInv, GoneQuiet, ReadOrder, Target, [Next]_vars
  PROVE  Target'
<1>1. CASE CallbackSelect
  BY <1>1 DEF CallbackSelect, NextBuffer, ReadOrder, Target, client
<1>2. CASE CallbackSelectSecond
  BY <1>2 DEF CallbackSelectSecond, Target, client
<1>3. CASE Callback /\ ~CallbackSelect /\ ~CallbackSelectSecond
  <2>1. cb' \notin Bufs
    BY <1>3 DEF Callback, CallbackEnter, CallbackRemove, CallbackUsesFreed, CallbackWrite,
                CallbackRefused, CallbackWarn, Bufs
  <2> QED
    BY <2>1 DEF Target, Bufs
<1>4. CASE \E r \in Readers : GetData(r)
  BY <1>4, GetDataFillsNothing DEF Target, CopyInv, Bufs
<1>5. CASE UNCHANGED vars
  BY <1>5 DEF vars, client, callback, Target
<1> QED
  BY <1>1, <1>2, <1>3, <1>4, <1>5 DEF Next

ChannelInv == CopyInv /\ GoneQuiet /\ ReadOrder /\ Target

LEMMA ChannelInvariant == Spec => []ChannelInv
<1>1. Init => ChannelInv
  <2>1. Init => CopyInv
    BY TypeInit DEF CopyInv, MutexHeld, CopyFull, Copying, Init, Locked
  <2> QED
    BY <2>1 DEF ChannelInv, GoneQuiet, ReadOrder, Target, Init
<1>2. ChannelInv /\ [Next]_vars => ChannelInv'
  <2>1. CopyInv /\ [Next]_vars => CopyInv'
    BY TypeStep, MutexStep, CopyFullStep DEF CopyInv
  <2> QED
    BY <2>1, GoneQuietStep, ReadOrderStep, TargetStep DEF ChannelInv, CopyInv
<1> QED
  BY <1>1, <1>2, PTL DEF Spec

(* buffer_write refuses a sample only for the second buffer and only after *)
(* a first buffer has overtaken it.                                        *)
THEOREM RefusalExplained == Spec => []RefusedOnlyAfterOvertaking
<1>1. ChannelInv => RefusedOnlyAfterOvertaking
  <2> SUFFICES ASSUME ChannelInv, cb \in Bufs, ~Writable(buf[cb])
               PROVE  cb = "second_buf" /\ "overtaken" \in mishap
    BY DEF RefusedOnlyAfterOvertaking
  <2>1. buf[cb].full
    BY WritableIffNotFull DEF ChannelInv, CopyInv, TypeInv, TypeOK, Filled
  <2> QED
    BY <2>1 DEF ChannelInv, Target, Bufs
<1> QED
  BY <1>1, ChannelInvariant, PTL

-----------------------------------------------------------------------------
(* What is handed out.                                                     *)

(* A row that holds a sample holds an older one than the callback is about *)
(* to store, ...                                                           *)
Older(s) == s <= sample /\ (cb # "idle" => s < sample)

Aged ==
    /\ \A b \in Bufs, i \in Rows : buf[b].rows[i] # Blank => Older(buf[b].rows[i])
    /\ \A k \in DOMAIN stream : stream[k] # Blank => Older(stream[k])

(* ... and no other row holds it.                                          *)
RowsDiffer ==
    \A b, c \in Bufs, i, j \in Rows :
        buf[b].rows[i] # Blank /\ buf[b].rows[i] = buf[c].rows[j] => b = c /\ i = j

(* A thread has copied b and not wiped it yet.                             *)
Spent(b) ==
    \E r \in Readers : chosen[r] = b /\ (pc[r] = "wipe" \/ (pc[r] = "clear" /\ retval[r]))

(* What has been handed out is in no other buffer.                         *)
HandedOutOnce ==
    attached => \A b \in Bufs, i \in Rows, k \in DOMAIN stream :
                   buf[b].rows[i] # Blank /\ buf[b].rows[i] = stream[k] => Spent(b)

OnceInv == Aged /\ RowsDiffer /\ HandedOutOnce /\ NoSampleTwice

(* Rows hold numbers.                                                      *)
LEMMA RowTypes ==
  ASSUME TypeInv
  PROVE  /\ \A b \in Bufs, i \in Rows : buf[b].rows[i] \in Nat
         /\ \A k \in DOMAIN stream : stream[k] \in Nat
         /\ sample \in Nat /\ DOMAIN stream = 1 .. Len(stream) /\ Len(stream) \in Nat
<1>1. /\ buf \in [Bufs -> Buffer] /\ stream \in Seq(Nat) /\ sample \in 0 .. MaxSample
  BY DEF TypeInv, TypeOK
<1>2. \A b \in Bufs : buf[b].rows \in [Rows -> Nat]
  BY <1>1 DEF Buffer
<1> QED
  BY <1>1, <1>2, ChannelAssumption

(* Time passes, and nothing becomes newer.                                 *)
LEMMA OlderKept ==
  ASSUME TypeInv, Callback, NEW s \in Nat, Older(s)
  PROVE  Older(s)'
<1>1. sample \in Nat
  BY RowTypes
<1>2. CASE CallbackEnter
  BY <1>1, <1>2 DEF Older, CallbackEnter
<1>3. CASE ~CallbackEnter
  <2>1. cb # "idle" /\ sample' = sample
    BY <1>3 DEF Callback, CallbackRemove, CallbackSelect, CallbackSelectSecond, CallbackUsesFreed,
                CallbackWrite, CallbackRefused, CallbackWarn, Bufs
  <2> QED
    BY <1>1, <2>1 DEF Older
<1> QED
  BY <1>2, <1>3

(* The callback but for buffer_write.                                      *)
LEMMA CallbackQuiet ==
  ASSUME Callback, ~CallbackWrite
  PROVE  UNCHANGED <<buf, use_first_buf, stream, pc, chosen, retval>> /\ (attached' => attached)
BY DEF Callback, CallbackEnter, CallbackRemove, CallbackSelect, CallbackSelectSecond,
       CallbackUsesFreed, CallbackRefused, CallbackWarn, calls, client

(* A thread but for the three steps of buffer_copy_to_user.                *)
LEMMA GetDataQuiet ==
  ASSUME NEW r \in Readers, GetData(r), ~GetDataCopy(r), ~GetDataClear(r), ~GetDataWipe(r)
  PROVE  UNCHANGED <<buf, use_first_buf, stream, sample, cb, attached, retval>>
BY DEF GetData, GetDataEnter, GetDataTooSlow, GetDataWait, GetDataWake, GetDataRelock,
       GetDataChoose, GetDataChooseSecond, GetDataCheck, GetDataUnwarn, GetDataFaults, client, callback

(* It leaves alone what it has copied, unless the client is gone.          *)
LEMMA QuietLeavesCopied ==
  ASSUME TypeInv, attached, NEW r \in Readers, GetData(r),
         ~GetDataCopy(r), ~GetDataClear(r), ~GetDataWipe(r),
         NEW q \in Readers, pc[q] \in {"clear", "wipe"}
  PROVE  UNCHANGED <<pc[q], chosen[q]>>
<1>1. /\ pc \in [Readers -> Locked \cup {"user", "unlocked", "waiting", "relock", "oops"}]
      /\ chosen \in [Readers -> Bufs]
  BY DEF TypeInv, TypeOK
<1>2. pc[r] \notin {"clear", "wipe"}
  BY DEF GetData, GetDataEnter, GetDataTooSlow, GetDataWait, GetDataWake, GetDataRelock,
         GetDataChoose, GetDataChooseSecond, GetDataCheck, GetDataUnwarn, GetDataFaults
<1>3. \E p : pc' = [pc EXCEPT ![r] = p]
  BY DEF GetData, GetDataEnter, GetDataTooSlow, GetDataWait, GetDataWake, GetDataRelock,
         GetDataChoose, GetDataChooseSecond, GetDataCheck, GetDataUnwarn, GetDataFaults, Goto, Return, Leave
<1>4. chosen' = chosen \/ \E c : chosen' = [chosen EXCEPT ![r] = c]
  BY DEF GetData, GetDataEnter, GetDataTooSlow, GetDataWait, GetDataWake, GetDataRelock,
         GetDataChoose, GetDataChooseSecond, GetDataCheck, GetDataUnwarn, GetDataFaults
<1> QED
  BY <1>1, <1>2, <1>3, <1>4

(* Two threads are not inside buffer_copy_to_user at once.                 *)
LEMMA OneCopies ==
  ASSUME MutexHeld, NEW r \in Readers, NEW q \in Readers,
         pc[r] \in Locked, pc[q] \in Locked
  PROVE  q = r
BY DEF MutexHeld

(* The rows after buffer_write.                                            *)
LEMMA WrittenRows ==
  ASSUME TypeInv, CallbackWrite
  PROVE  /\ cb \in Bufs /\ buf[cb].curr_pos \in Rows
         /\ \A b \in Bufs, i \in Rows :
               buf'[b].rows[i] = IF b = cb /\ i = buf[cb].curr_pos /\ buf[cb].curr_pos_times_added = 0
                                 THEN sample ELSE buf[b].rows[i]
<1>1. cb \in Bufs /\ buf \in [Bufs -> Buffer] /\ buf' = [buf EXCEPT ![cb] = buffer_write(buf[cb], sample)]
  BY DEF CallbackWrite, TypeInv, TypeOK
<1>2. buf[cb].curr_pos \in Rows /\ buf[cb].rows \in [Rows -> Nat]
  BY <1>1, BufferAssumption DEF CallbackWrite, Writable, Buffer, Rows
<1>3. buffer_write(buf[cb], sample).rows = IF buf[cb].curr_pos_times_added = 0
                                           THEN [buf[cb].rows EXCEPT ![buf[cb].curr_pos] = sample]
                                           ELSE buf[cb].rows
  BY DEF buffer_write
<1>4. \A i \in Rows : buffer_write(buf[cb], sample).rows[i] =
          IF i = buf[cb].curr_pos /\ buf[cb].curr_pos_times_added = 0 THEN sample ELSE buf[cb].rows[i]
  BY <1>2, <1>3
<1> QED
  BY <1>1, <1>2, <1>4

(* The packet of a buffer.                                                 *)
LEMMA PacketRows ==
  ASSUME NEW b \in Buffer
  PROVE  /\ Packet(b) \in Seq(Nat) /\ Len(Packet(b)) = row_count
         /\ \A i \in 1 .. row_count : i - 1 \in Rows /\ Packet(b)[i] = b.rows[i - 1]
BY PacketType, BufferAssumption DEF Packet, Rows

LEMMA Appended ==
  ASSUME NEW s \in Seq(Nat), NEW t \in Seq(Nat), NEW k \in 1 .. Len(s \o t)
  PROVE  /\ Len(s \o t) = Len(s) + Len(t)
         /\ \/ k \in 1 .. Len(s) /\ (s \o t)[k] = s[k]
            \/ k - Len(s) \in 1 .. Len(t) /\ (s \o t)[k] = t[k - Len(s)]
OBVIOUS

(* The callback stores a sample that is in no row and not handed out.      *)
LEMMA OnceCallback ==
  ASSUME TypeInv, OnceInv, Callback
  PROVE  OnceInv'
<1> USE RowTypes
<1>1. CASE ~CallbackWrite
  <2>1. UNCHANGED <<buf, stream, pc, chosen, retval>> /\ (attached' => attached)
    BY <1>1, CallbackQuiet
  <2>2. Aged'
    BY <2>1, OlderKept DEF OnceInv, Aged
  <2>3. RowsDiffer' /\ NoSampleTwice'
    BY <2>1 DEF OnceInv, RowsDiffer, NoSampleTwice
  <2>4. \A b : Spent(b)' = Spent(b)
    BY <2>1 DEF Spent
  <2>5. HandedOutOnce'
    BY <2>1, <2>4 DEF OnceInv, HandedOutOnce
  <2> QED
    BY <2>2, <2>3, <2>5 DEF OnceInv
<1>2. CASE CallbackWrite
  <2>1. /\ UNCHANGED <<stream, pc, chosen, retval, sample, attached>>
        /\ cb # "idle" /\ cb' = "idle"
    BY <1>2 DEF CallbackWrite, calls, Bufs
  <2>2. /\ cb \in Bufs
        /\ \A b \in Bufs, i \in Rows :
              buf'[b].rows[i] = IF b = cb /\ i = buf[cb].curr_pos /\ buf[cb].curr_pos_times_added = 0
                                THEN sample ELSE buf[b].rows[i]
    BY <1>2, WrittenRows
  <2>3. /\ \A b \in Bufs, i \in Rows : buf[b].rows[i] # Blank => buf[b].rows[i] < sample
        /\ \A k \in DOMAIN stream : stream[k] # Blank => stream[k] < sample
    BY <2>1 DEF OnceInv, Aged, Older
  <2>4. Aged'
    BY <2>1, <2>2, <2>3 DEF Aged, Older
  <2>5. RowsDiffer'
    <3> SUFFICES ASSUME NEW b \in Bufs, NEW c \in Bufs, NEW i \in Rows, NEW j \in Rows,
                        buf'[b].rows[i] # Blank, buf'[b].rows[i] = buf'[c].rows[j]
                 PROVE  b = c /\ i = j
      BY DEF RowsDiffer
    <3>1. buf[b].rows[i] \in Nat /\ buf[c].rows[j] \in Nat /\ sample \in Nat
      OBVIOUS
    <3> QED
      BY <2>2, <2>3, <3>1 DEF OnceInv, RowsDiffer
  <2>6. \A b : Spent(b)' = Spent(b)
    BY <2>1 DEF Spent
  <2>7. HandedOutOnce'
    <3> SUFFICES ASSUME attached, NEW b \in Bufs, NEW i \in Rows, NEW k \in DOMAIN stream,
                        buf'[b].rows[i] # Blank, buf'[b].rows[i] = stream[k]
                 PROVE  Spent(b)
      BY <2>1, <2>6 DEF HandedOutOnce
    <3>1. buf'[b].rows[i] = buf[b].rows[i]
      BY <2>2, <2>3
    <3> QED
      BY <3>1 DEF OnceInv, HandedOutOnce
  <2>8. NoSampleTwice'
    BY <2>1 DEF OnceInv, NoSampleTwice
  <2> QED
    BY <2>4, <2>5, <2>7, <2>8 DEF OnceInv
<1> QED
  BY <1>1, <1>2

(* Copying a buffer hands out what has not been handed out.                *)
LEMMA OnceCopy ==
  ASSUME TypeInv, MutexHeld, OnceInv, NEW r \in Readers, GetDataCopy(r)
  PROVE  OnceInv'
<1> USE RowTypes
<1>1. /\ pc[r] = "copy" /\ attached
      /\ UNCHANGED <<buf, chosen, sample, cb, attached>>
      /\ pc' = [pc EXCEPT ![r] = "clear"]
      /\ chosen[r] \in Bufs /\ pc \in [Readers -> Locked \cup {"user", "unlocked", "waiting", "relock", "oops"}]
      /\ retval \in [Readers -> BOOLEAN]
  BY DEF GetDataCopy, Goto, client, callback, TypeInv, TypeOK
<1>2. \A b : ~Spent(b)
  BY <1>1, OneCopies DEF Spent, Locked
<1>3. RowsDiffer'
  BY <1>1 DEF OnceInv, RowsDiffer
<1>4. CASE UNCHANGED stream
  <2>1. Aged' /\ NoSampleTwice'
    BY <1>1, <1>4 DEF OnceInv, Aged, Older, NoSampleTwice
  <2>2. HandedOutOnce'
    BY <1>1, <1>2, <1>4 DEF OnceInv, HandedOutOnce
  <2> QED
    BY <1>3, <2>1, <2>2 DEF OnceInv
<1>5. CASE retval' = [retval EXCEPT ![r] = TRUE] /\ stream' = stream \o Packet(buf[chosen[r]])
  <2> DEFINE c == chosen[r]
             p == Packet(buf[c])
             n == Len(stream)
  <2>1. /\ stream \in Seq(Nat) /\ p \in Seq(Nat) /\ n \in Nat /\ Len(p) = row_count
        /\ \A i \in 1 .. row_count : i - 1 \in Rows /\ p[i] = buf[c].rows[i - 1]
    BY <1>1, PacketRows DEF TypeInv, TypeOK
  <2>2. \A b : b = c => Spent(b)'
    BY <1>1, <1>5 DEF Spent
  <2>3. \A k \in DOMAIN stream' :
           \/ k \in DOMAIN stream /\ stream'[k] = stream[k]
           \/ k - n \in 1 .. row_count /\ stream'[k] = buf[c].rows[(k - n) - 1]
    <3> SUFFICES ASSUME NEW k \in DOMAIN stream'
                 PROVE  \/ k \in DOMAIN stream /\ stream'[k] = stream[k]
                        \/ k - n \in 1 .. row_count /\ stream'[k] = buf[c].rows[(k - n) - 1]
      OBVIOUS
    <3> HIDE DEF p, n
    <3>1. stream' = stream \o p
      BY <1>5 DEF p
    <3>2. k \in 1 .. Len(stream \o p)
      BY <2>1, <3>1
    <3>3. \/ k \in 1 .. Len(stream) /\ (stream \o p)[k] = stream[k]
          \/ k - Len(stream) \in 1 .. Len(p) /\ (stream \o p)[k] = p[k - Len(stream)]
      BY <2>1, <3>2, Appended
    <3> QED
      BY <2>1, <3>1, <3>3 DEF n
  <2>4. /\ \A k \in DOMAIN stream' : k \in Int
        /\ \A k \in Int : k - n \in 1 .. row_count => (k - n) - 1 \in Rows /\ k \notin DOMAIN stream
    <3>1. DOMAIN stream' = 1 .. Len(stream \o p)
      BY <1>5, <2>1
    <3>2. Len(stream \o p) \in Nat
      BY <2>1
    <3> HIDE DEF p
    <3>3. \A k \in DOMAIN stream' : k \in Int
      BY <3>1, <3>2
    <3>4. DOMAIN stream = 1 .. n
      BY <2>1
    <3> QED
      BY <2>1, <3>3, <3>4, BufferAssumption
  <2> HIDE DEF p, n
  <2>5. Aged'
    BY <1>1, <2>3, <2>4 DEF OnceInv, Aged, Older
  <2>6. HandedOutOnce'
    <3> SUFFICES ASSUME NEW b \in Bufs, NEW i \in Rows, NEW k \in DOMAIN stream',
                        buf[b].rows[i] # Blank, buf[b].rows[i] = stream'[k]
                 PROVE  Spent(b)'
      BY <1>1 DEF HandedOutOnce
    <3>1. stream'[k] = buf[c].rows[(k - n) - 1] /\ (k - n) - 1 \in Rows
      BY <1>1, <1>2, <2>3, <2>4 DEF OnceInv, HandedOutOnce
    <3>2. b = c
      BY <1>1, <3>1 DEF OnceInv, RowsDiffer
    <3> QED
      BY <2>2, <3>2
  <2>7. NoSampleTwice'
    <3> SUFFICES ASSUME NEW i \in DOMAIN stream', NEW j \in DOMAIN stream', stream'[i] = stream'[j], stream'[i] # Blank
                 PROVE  i = j
      BY DEF NoSampleTwice
    <3>1. CASE i \in DOMAIN stream /\ stream'[i] = stream[i]
      <4>1. ~(j - n \in 1 .. row_count /\ stream'[j] = buf[c].rows[(j - n) - 1])
        BY <1>1, <1>2, <2>4, <3>1 DEF OnceInv, HandedOutOnce
      <4> QED
        BY <2>3, <3>1, <4>1 DEF OnceInv, NoSampleTwice
    <3>2. CASE i - n \in 1 .. row_count /\ stream'[i] = buf[c].rows[(i - n) - 1]
      <4>1. ~(j \in DOMAIN stream /\ stream'[j] = stream[j])
        BY <1>1, <1>2, <2>4, <3>2 DEF OnceInv, HandedOutOnce
      <4>2. j - n \in 1 .. row_count /\ stream'[j] = buf[c].rows[(j - n) - 1]
        BY <2>3, <4>1
      <4>3. (i - n) - 1 = (j - n) - 1
        <5>1. PICK x \in Rows, y \in Rows : x = (i - n) - 1 /\ y = (j - n) - 1
          BY <2>4, <3>2, <4>2
        <5>2. buf[c].rows[x] = buf[c].rows[y] /\ buf[c].rows[x] # Blank
          BY <3>2, <4>2, <5>1
        <5> QED
          BY <1>1, <5>1, <5>2 DEF OnceInv, RowsDiffer
      <4> QED
        BY <2>1, <2>4, <4>3
    <3> QED
      BY <2>3, <3>1, <3>2
  <2> QED
    BY <1>3, <2>5, <2>6, <2>7 DEF OnceInv
<1> QED
  BY <1>4, <1>5 DEF GetDataCopy

LEMMA OnceGetData ==
  ASSUME TypeInv, MutexHeld, OnceInv, NEW r \in Readers, GetData(r)
  PROVE  OnceInv'
<1> USE RowTypes
<1>1. CASE GetDataClear(r) \/ GetDataWipe(r)
  <2>1. /\ pc[r] \in {"clear", "wipe"} /\ pc'[r] \in {"wipe", "check"} /\ chosen[r] \in Bufs
        /\ UNCHANGED <<stream, chosen, retval, sample, cb, attached>>
        /\ \A q \in Readers : q # r => pc'[q] = pc[q]
        /\ buf \in [Bufs -> Buffer]
    BY <1>1 DEF GetDataClear, GetDataWipe, Goto, callback, TypeInv, TypeOK
  <2>2. \A b \in Bufs, i \in Rows :
            buf'[b].rows[i] = IF b = chosen[r] /\ pc[r] = "wipe" THEN Blank ELSE buf[b].rows[i]
    <3>1. CASE GetDataClear(r)
      <4>1. \A b \in Bufs : mark_read(buf[b]).rows = buf[b].rows
        BY DEF mark_read
      <4> QED
        BY <2>1, <3>1, <4>1 DEF GetDataClear
    <3>2. CASE GetDataWipe(r)
      <4>1. wipe(buf[chosen[r]]).rows = [i \in Rows |-> Blank]
        BY <2>1 DEF wipe, Buffer
      <4> QED
        BY <2>1, <3>2, <4>1 DEF GetDataWipe
    <3> QED
      BY <1>1, <3>1, <3>2
  <2>3. Aged' /\ RowsDiffer' /\ NoSampleTwice'
    BY <2>1, <2>2 DEF OnceInv, Aged, Older, RowsDiffer, NoSampleTwice
  <2>4. HandedOutOnce'
    <3> SUFFICES ASSUME attached, NEW b \in Bufs, NEW i \in Rows, NEW k \in DOMAIN stream,
                        buf'[b].rows[i] # Blank, buf'[b].rows[i] = stream[k]
                 PROVE  Spent(b)'
      BY <2>1 DEF HandedOutOnce
    <3>1. buf'[b].rows[i] = buf[b].rows[i] /\ ~(b = chosen[r] /\ pc[r] = "wipe")
      BY <2>2
    <3>2. Spent(b)
      BY <3>1 DEF OnceInv, HandedOutOnce
    <3>3. chosen[r] = b /\ pc[r] = "clear"
      BY <2>1, <3>1, <3>2, OneCopies DEF Spent, Locked
    <3>4. pc'[r] = "wipe"
      BY <1>1, <3>3 DEF GetDataClear, GetDataWipe, Goto, TypeInv, TypeOK
    <3> QED
      BY <2>1, <3>3, <3>4 DEF Spent
  <2> QED
    BY <2>3, <2>4 DEF OnceInv
<1>2. CASE ~GetDataCopy(r) /\ ~GetDataClear(r) /\ ~GetDataWipe(r)
  <2>1. UNCHANGED <<buf, stream, sample, cb, attached, retval>>
    BY <1>2, GetDataQuiet
  <2>2. Aged' /\ RowsDiffer' /\ NoSampleTwice'
    BY <2>1 DEF OnceInv, Aged, Older, RowsDiffer, NoSampleTwice
  <2>3. \A b : attached /\ Spent(b) => Spent(b)'
    BY <1>2, <2>1, QuietLeavesCopied DEF Spent
  <2>4. HandedOutOnce'
    BY <2>1, <2>3 DEF OnceInv, HandedOutOnce
  <2> QED
    BY <2>2, <2>4 DEF OnceInv
<1> QED
  BY <1>1, <1>2, OnceCopy

LEMMA OnceInvariant == Spec => []OnceInv
<1>1. Init => OnceInv
  BY DEF Init, OnceInv, Aged, RowsDiffer, HandedOutOnce, NoSampleTwice, buffer_init
<1>2. CopyInv /\ OnceInv /\ [Next]_vars => OnceInv'
  <2> SUFFICES ASSUME CopyInv, OnceInv, [Next]_vars PROVE OnceInv'
    OBVIOUS
  <2>1. CASE UNCHANGED vars
    <3>1. UNCHANGED <<buf, stream, sample, cb, attached, pc, chosen, retval>>
      BY <2>1 DEF vars, client, callback, calls
    <3>2. Aged' /\ RowsDiffer' /\ NoSampleTwice'
      BY <3>1 DEF OnceInv, Aged, Older, RowsDiffer, NoSampleTwice
    <3>3. HandedOutOnce'
      BY <3>1 DEF OnceInv, HandedOutOnce, Spent
    <3> QED
      BY <3>2, <3>3 DEF OnceInv
  <2> QED
    BY <2>1, OnceCallback, OnceGetData DEF Next, CopyInv
<1> QED
  BY <1>1, <1>2, CopyInvariant, PTL DEF Spec

(* Whatever goes wrong, no sample is handed out twice: two threads woken   *)
(* by one buffer do not both get it, and a buffer that is handed back with *)
(* its rows still in it is not copied before they are wiped.               *)
THEOREM HandedOut == Spec => []NoSampleTwice
<1>1. OnceInv => NoSampleTwice
  BY DEF OnceInv
<1> QED
  BY <1>1, OnceInvariant, PTL

-----------------------------------------------------------------------------
(* The stream, as long as nothing has broken it.                           *)

(* Samples that the callback has dealt with.                               *)
Stored == IF cb = "idle" THEN sample ELSE sample - 1

(* The sample that row n of the stream is to hold.                         *)
RowOf(n) == n * avg_divisor + 1

(* The first k rows of b are the rows n, n + 1, ... of the stream.         *)
Holds(b, n, k) == \A i \in Rows : i < k => buf[b].rows[i] = RowOf(n + i)

(* Rows of b that hold a sample.                                           *)
Begun(b) == buf[b].curr_pos + (IF buf[b].curr_pos_times_added > 0 THEN 1 ELSE 0)

(* b has been handed out and not been handed back yet.                     *)
Given(b) == \E r \in Readers : pc[r] = "clear" /\ chosen[r] = b

(* b is empty, ...                                                         *)
Empty(b) == ~buf[b].full /\ buf[b].curr_pos = 0 /\ buf[b].curr_pos_times_added = 0

(* ... being filled, after n rows of the stream, ...                       *)
Filling(b, n) ==
    /\ ~buf[b].full
    /\ Holds(b, n, Begun(b))
    /\ Stored + 1 = RowOf(n + buf[b].curr_pos) + buf[b].curr_pos_times_added

(* ... or full, after n rows, and not handed out.                          *)
Ready(b, n) == buf[b].full /\ ~Given(b) /\ Holds(b, n, row_count)

(* The buffers after n rows were handed out: b, to be filled next, and c.  *)
(* c is read first, unless both are full; then b holds the older rows.     *)
Sequenced(b, c, n) ==
    \/ Filling(b, n) /\ (Empty(c) \/ (buf[c].full /\ Given(c)))
    \/ Filling(b, n + row_count) /\ Ready(c, n)
    \/ /\ buf[b].full /\ Given(b) /\ Ready(c, n)
       /\ Stored + 1 = RowOf(n + row_count)
    \/ /\ Ready(b, n) /\ Ready(c, n + row_count)
       /\ Stored + 1 = RowOf(n + row_count + row_count)
       /\ \A r \in Readers : ~(pc[r] = "copy" /\ chosen[r] = c)

(* The callback writes where it should.                                    *)
Aim == mishap = {} /\ cb \in Bufs => cb = NextBuffer

InOrder == attached /\ mishap = {} => Sequenced(NextBuffer, Other(NextBuffer), Len(stream))

StreamInv == ChannelInv /\ Aim /\ InOrder

LEMMA RowOfFacts ==
  ASSUME NEW n \in Nat
  PROVE  /\ RowOf(n) \in Nat
         /\ RowOf(n + 1) = RowOf(n) + avg_divisor
<1>1. avg_divisor \in Nat
  BY BufferAssumption
<1>2. n * avg_divisor \in Nat /\ (n + 1) * avg_divisor = n * avg_divisor + avg_divisor
  BY <1>1
<1> QED
  BY <1>1, <1>2 DEF RowOf

LEMMA BufferNumbers ==
  ASSUME TypeInv, NEW b \in Bufs
  PROVE  /\ buf[b] \in Buffer /\ buf[b].full \in BOOLEAN
         /\ buf[b].curr_pos \in Nat /\ buf[b].curr_pos <= row_count
         /\ buf[b].curr_pos_times_added \in Nat /\ buf[b].curr_pos_times_added < avg_divisor
         /\ buf[b].full <=> buf[b].curr_pos = row_count
         /\ buf[b].full => buf[b].curr_pos_times_added = 0
         /\ row_count \in Nat \ {0} /\ avg_divisor \in Nat \ {0}
         /\ buf \in [Bufs -> Buffer]
<1>1. buf[b] \in Buffer /\ WellFilled(buf[b]) /\ buf \in [Bufs -> Buffer]
  BY DEF TypeInv, TypeOK, Filled
<1> QED
  BY <1>1, BufferAssumption DEF Buffer, WellFilled

LEMMA TwoBuffers ==
  /\ NextBuffer \in Bufs /\ Other(NextBuffer) \in Bufs /\ Other(NextBuffer) # NextBuffer
  /\ \A b \in Bufs : Other(b) \in Bufs /\ Other(b) # b
BY DEF NextBuffer, Other, Bufs

(* Steps that leave the buffers alone.                                     *)
LEMMA SequenceKept ==
  ASSUME NEW b, NEW c, NEW n, Sequenced(b, c, n),
         UNCHANGED <<buf, Stored>>,
         \A q \in Readers : \A x : (pc'[q] = "clear" /\ chosen'[q] = x) <=> (pc[q] = "clear" /\ chosen[q] = x),
         \A q \in Readers : pc'[q] = "copy" /\ chosen'[q] = c /\ buf[b].full => pc[q] = "copy" /\ chosen[q] = c
  PROVE  Sequenced(b, c, n)'
<1>1. \A x : Given(x)' = Given(x)
  BY DEF Given
<1>2. \A x, m, k : Holds(x, m, k)' = Holds(x, m, k)
  BY DEF Holds
<1>3. \A x : Begun(x)' = Begun(x) /\ Empty(x)' = Empty(x)
  BY DEF Begun, Empty
<1>4. \A x, m : Ready(x, m)' = Ready(x, m)
  BY <1>1, <1>2 DEF Ready
<1>5. \A x, m : Filling(x, m)' = Filling(x, m)
  BY <1>2, <1>3 DEF Filling
<1>6. (\A r \in Readers : ~(pc[r] = "copy" /\ chosen[r] = c)) /\ buf[b].full
         => (\A r \in Readers : ~(pc[r] = "copy" /\ chosen[r] = c))'
  OBVIOUS
<1>7. Ready(b, n) => buf[b].full
  BY DEF Ready
<1> QED
  BY <1>1, <1>3, <1>4, <1>5, <1>6, <1>7 DEF Sequenced

(* The callback, but for buffer_write.                                     *)
LEMMA QuietCallbackOrder ==
  ASSUME StreamInv, Callback, ~CallbackWrite, attached', mishap' = {}
  PROVE  InOrder'
<1>1. ChannelInv /\ CopyInv /\ TypeInv
  BY DEF StreamInv, ChannelInv, CopyInv
<1>2. UNCHANGED <<buf, use_first_buf, stream, pc, chosen, retval>> /\ attached
  BY CallbackQuiet
<1>3. mishap = {} /\ ~CallbackWarn
  BY DEF Callback, CallbackEnter, CallbackRemove, CallbackSelect, CallbackSelectSecond,
         CallbackUsesFreed, CallbackWrite, CallbackRefused, CallbackWarn
<1>4. ~CallbackRefused
  <2> SUFFICES ASSUME CallbackRefused PROVE FALSE
    OBVIOUS
  <2>1. cb \in Bufs /\ ~Writable(buf[cb])
    BY DEF CallbackRefused
  <2>2. buf[cb].full
    BY <1>1, <2>1, WritableIffNotFull DEF TypeInv, TypeOK, Filled
  <2> QED
    BY <1>1, <1>3, <2>1, <2>2 DEF ChannelInv, Target, Bufs
<1>5. CallbackEnter \/ CallbackSelect \/ CallbackSelectSecond
  BY <1>2, <1>3, <1>4 DEF Callback, CallbackRemove, CallbackUsesFreed
<1>6. Stored' = Stored
  <2>1. sample \in Nat
    BY <1>1, RowTypes
  <2>2. CASE CallbackEnter
    BY <2>1, <2>2 DEF CallbackEnter, Stored
  <2>3. CASE CallbackSelect \/ CallbackSelectSecond
    BY <2>3 DEF CallbackSelect, CallbackSelectSecond, NextBuffer, Stored
  <2> QED
    BY <1>5, <2>2, <2>3
<1>7. PICK b, c, n : b = NextBuffer /\ c = Other(NextBuffer) /\ n = Len(stream)
  OBVIOUS
<1>8. Sequenced(b, c, n)
  BY <1>2, <1>3, <1>7 DEF StreamInv, InOrder
<1>9. Sequenced(b, c, n)'
  BY <1>2, <1>6, <1>8, SequenceKept
<1>10. b = NextBuffer' /\ c = Other(NextBuffer)' /\ n = Len(stream)'
  BY <1>2, <1>7 DEF NextBuffer, Other
<1> QED
  BY <1>9, <1>10 DEF InOrder

(* What buffer_write makes of the buffer it writes to.                     *)
LEMMA WriteGoesOn ==
  ASSUME TypeInv, CallbackWrite, NEW b \in Bufs, b = cb, NEW m \in Nat, Filling(b, m)
  PROVE  /\ Holds(b, m, Begun(b))'
         /\ (Stored + 1 = RowOf(m + buf[b].curr_pos) + buf[b].curr_pos_times_added)'
         /\ UNCHANGED <<pc, chosen, stream, attached>>
         /\ use_first_buf' = IF buf'[b].full THEN b = "second_buf" ELSE use_first_buf
         /\ \A x \in Bufs : x # b => buf'[x] = buf[x]
<1> DEFINE w == buffer_write(buf[b], sample)
<1>1. /\ buf' = [buf EXCEPT ![b] = w] /\ cb' = "idle" /\ sample' = sample
      /\ UNCHANGED <<pc, chosen, stream, attached>>
      /\ use_first_buf' = IF w.full THEN b = "second_buf" ELSE use_first_buf
  BY DEF CallbackWrite, calls
<1>2. buf'[b] = w /\ \A x \in Bufs : x # b => buf'[x] = buf[x]
  BY <1>1 DEF TypeInv, TypeOK
<1>3. PICK p \in Nat, t \in Nat : p = buf[b].curr_pos /\ t = buf[b].curr_pos_times_added
  BY BufferNumbers
<1>4. /\ w.curr_pos = (IF t + 1 = avg_divisor THEN p + 1 ELSE p)
      /\ w.curr_pos_times_added = (IF t + 1 = avg_divisor THEN 0 ELSE t + 1)
  BY <1>3 DEF buffer_write
<1>5. sample = RowOf(m + p) + t
  <2>1. sample \in Nat /\ cb # "idle"
    BY RowTypes DEF Bufs
  <2> QED
    BY <1>3, <2>1 DEF Filling, Stored
<1>6. /\ RowOf(m + p) \in Nat /\ RowOf(m + (p + 1)) = RowOf(m + p) + avg_divisor
      /\ avg_divisor \in Nat \ {0} /\ t < avg_divisor
  <2>1. m + p \in Nat /\ (m + p) + 1 = m + (p + 1)
    OBVIOUS
  <2> QED
    BY <1>3, <2>1, RowOfFacts, BufferNumbers
<1>7. sample + 1 = RowOf(m + w.curr_pos) + w.curr_pos_times_added
  <2>1. CASE t + 1 = avg_divisor
    <3>1. w.curr_pos = p + 1 /\ w.curr_pos_times_added = 0
      BY <1>4, <2>1
    <3>2. sample + 1 = RowOf(m + p) + avg_divisor
      BY <1>5, <1>6, <2>1
    <3> QED
      BY <1>6, <3>1, <3>2
  <2>2. CASE t + 1 # avg_divisor
    <3>1. w.curr_pos = p /\ w.curr_pos_times_added = t + 1
      BY <1>4, <2>2
    <3> QED
      BY <1>5, <1>6, <3>1
  <2> QED
    BY <2>1, <2>2
<1>8. (Stored + 1 = RowOf(m + buf[b].curr_pos) + buf[b].curr_pos_times_added)'
  BY <1>1, <1>2, <1>7 DEF Stored, RowOf
<1>9. \A i \in Rows : i < p + 1 => w.rows[i] = RowOf(m + i)
  <2> SUFFICES ASSUME NEW i \in Rows, i < p + 1
               PROVE  w.rows[i] = RowOf(m + i)
    OBVIOUS
  <2> HIDE DEF w
  <2>1. w.rows[i] = IF i = p /\ t = 0 THEN sample ELSE buf[b].rows[i]
    BY <1>2, <1>3, WrittenRows
  <2>2. i \in Nat /\ row_count \in Nat
    BY BufferAssumption DEF Rows
  <2>3. CASE i = p /\ t = 0
    BY <1>5, <1>6, <2>1, <2>3
  <2>4. CASE i # p \/ t # 0
    <3>1. i < Begun(b)
      BY <1>3, <2>2, <2>4 DEF Begun
    <3> QED
      BY <2>1, <2>4, <3>1 DEF Filling, Holds
  <2> QED
    BY <2>3, <2>4
<1>10. Begun(b)' <= p + 1 /\ Begun(b)' \in Nat
  BY <1>2, <1>3, <1>4 DEF Begun
<1>11. Holds(b, m, Begun(b))'
  <2>1. PICK k \in Nat : k = Begun(b)' /\ k <= p + 1
    BY <1>10
  <2>2. \A i \in Rows : i < k => buf'[b].rows[i] = RowOf(m + i)
    <3>1. \A i \in Rows : i \in Nat
      BY BufferAssumption DEF Rows
    <3> HIDE DEF w
    <3> QED
      BY <1>2, <1>9, <2>1, <3>1
  <2> QED
    BY <2>1, <2>2 DEF Holds, RowOf
<1> QED
  BY <1>1, <1>2, <1>8, <1>11

(* The callback stores a sample; a buffer that has become full changes     *)
(* places with the other.                                                  *)
LEMMA WriteOrder ==
  ASSUME StreamInv, CallbackWrite, attached', mishap' = {}
  PROVE  InOrder'
<1>1. ChannelInv /\ CopyInv /\ TypeInv /\ CopyFull
  BY DEF StreamInv, ChannelInv, CopyInv
<1>2. attached /\ mishap = {} /\ cb \in Bufs
  BY DEF CallbackWrite
<1>3. PICK b \in Bufs, c \in Bufs, n \in Nat :
          b = NextBuffer /\ c = Other(NextBuffer) /\ c # b /\ n = Len(stream) /\ b = cb
  BY <1>1, <1>2, TwoBuffers, RowTypes DEF StreamInv, Aim
<1>4. Sequenced(b, c, n) /\ ~buf[b].full
  BY <1>2, <1>3 DEF StreamInv, InOrder, CallbackWrite, Writable
<1>5. row_count \in Nat \ {0}
  BY BufferAssumption
<1>6. PICK m \in {n, n + row_count} : Filling(b, m) /\ (m = n => Empty(c) \/ (buf[c].full /\ Given(c)))
                                       /\ (m = n + row_count => Ready(c, n))
  BY <1>4, <1>5 DEF Sequenced, Ready
<1>7. m \in Nat
  BY <1>5
<1>8. /\ Holds(b, m, Begun(b))'
      /\ (Stored + 1 = RowOf(m + buf[b].curr_pos) + buf[b].curr_pos_times_added)'
      /\ UNCHANGED <<pc, chosen, stream, attached>>
      /\ use_first_buf' = (IF buf'[b].full THEN b = "second_buf" ELSE use_first_buf)
      /\ buf'[c] = buf[c]
  BY <1>1, <1>3, <1>6, <1>7, WriteGoesOn
<1>9. \A x : Given(x)' = Given(x)
  BY <1>8 DEF Given
<1>10. \A k : (Ready(c, k) <=> Ready(c, k)') /\ Empty(c)' = Empty(c)
  BY <1>8, <1>9 DEF Ready, Holds, Empty, RowOf
<1>11. CASE ~buf'[b].full
  <2>1. Filling(b, m)'
    BY <1>8, <1>11 DEF Filling
  <2>2. Sequenced(b, c, n)'
    BY <1>5, <1>6, <1>8, <1>9, <1>10, <2>1 DEF Sequenced
  <2>3. b = NextBuffer' /\ c = Other(NextBuffer)' /\ n = Len(stream)'
    BY <1>3, <1>8, <1>11 DEF NextBuffer, Other
  <2> QED
    BY <2>2, <2>3 DEF InOrder
<1>12. CASE buf'[b].full
  <2>1. TypeInv'
    BY <1>1, TypeCallback DEF Callback
  <2>2. buf'[b].curr_pos = row_count /\ buf'[b].curr_pos_times_added = 0
    BY <1>12, <2>1 DEF TypeInv, Filled, WellFilled
  <2>3. Holds(b, m, row_count)' /\ (Stored + 1 = RowOf(m + row_count))'
    <3>1. Begun(b)' = row_count
      BY <1>5, <2>2 DEF Begun
    <3>2. (RowOf(m + row_count) + 0 = RowOf(m + row_count))'
      <4>1. m + row_count \in Nat
        BY <1>5, <1>7
      <4>2. RowOf(m + row_count) + 0 = RowOf(m + row_count)
        BY <4>1, RowOfFacts
      <4> QED
        BY <4>2 DEF RowOf
    <3>3. (Stored + 1 = RowOf(m + row_count) + 0)'
      BY <1>8, <2>2
    <3> QED
      BY <1>8, <3>1, <3>2, <3>3 DEF Holds
  <2>4. \A r \in Readers : ~(pc[r] \in {"copy", "clear"} /\ chosen[r] = b)
    BY <1>1, <1>4 DEF CopyFull, Copying
  <2>5. Ready(b, m)'
    BY <1>9, <1>12, <2>3, <2>4 DEF Ready, Given
  <2>6. Sequenced(c, b, n)'
    <3>1. CASE m = n /\ Empty(c)
      <4>1. /\ ~buf'[c].full /\ buf'[c].curr_pos = 0 /\ buf'[c].curr_pos_times_added = 0
        BY <1>8, <3>1 DEF Empty
      <4>2. PICK k \in Nat : k = n + row_count
        BY <1>5
      <4>3. Holds(c, k, Begun(c))'
        <5>1. Begun(c)' = 0 /\ \A i \in Rows : ~(i < 0)
          BY <4>1, BufferAssumption DEF Begun, Rows
        <5> QED
          BY <5>1 DEF Holds
      <4>4. (Stored + 1 = RowOf(k + buf[c].curr_pos) + buf[c].curr_pos_times_added)'
        <5>1. (Stored + 1 = RowOf(k))'
          BY <2>3, <3>1, <4>2 DEF RowOf
        <5>2. RowOf(k + 0) + 0 = RowOf(k)
          BY RowOfFacts
        <5> QED
          BY <4>1, <5>1, <5>2 DEF RowOf
      <4>5. Filling(c, k)'
        BY <4>1, <4>3, <4>4 DEF Filling
      <4> QED
        BY <2>5, <3>1, <4>2, <4>5 DEF Sequenced
    <3>2. CASE m = n /\ buf[c].full /\ Given(c)
      BY <1>8, <1>9, <2>3, <2>5, <3>2 DEF Sequenced
    <3>3. CASE m = n + row_count
      <4>1. Ready(c, n)' /\ Ready(b, n + row_count)'
        BY <1>6, <1>10, <2>5, <3>3
      <4>2. (Stored + 1 = RowOf(n + row_count + row_count))'
        BY <2>3, <3>3
      <4>3. (\A r \in Readers : ~(pc[r] = "copy" /\ chosen[r] = b))'
        BY <1>8, <2>4
      <4> QED
        BY <4>1, <4>2, <4>3 DEF Sequenced
    <3> QED
      BY <1>6, <3>1, <3>2, <3>3
  <2>7. c = NextBuffer' /\ b = Other(NextBuffer)' /\ n = Len(stream)'
    BY <1>3, <1>8, <1>12 DEF NextBuffer, Other, Bufs
  <2> QED
    BY <2>6, <2>7 DEF InOrder
<1> QED
  BY <1>11, <1>12

(* A full copy of the oldest buffer: the next packet of the stream.        *)
LEMMA CopyOrder ==
  ASSUME StreamInv, NEW r \in Readers, GetDataCopy(r), mishap' = {}
  PROVE  InOrder' /\ stream' = stream \o Promise!Expected(Len(stream))
<1>1. ChannelInv /\ CopyInv /\ TypeInv /\ CopyFull /\ MutexHeld
  BY DEF StreamInv, ChannelInv, CopyInv
<1>2. /\ pc[r] = "copy" /\ attached /\ mishap = {}
      /\ UNCHANGED <<buf, use_first_buf, chosen, sample, cb, attached>>
      /\ pc' = [pc EXCEPT ![r] = "clear"]
      /\ stream' = stream \o Packet(buf[chosen[r]])
  BY DEF GetDataCopy, Goto, client, callback
<1>3. chosen[r] \in Bufs /\ \A q \in Readers : pc'[q] = IF q = r THEN "clear" ELSE pc[q]
  BY <1>1, <1>2 DEF TypeInv, TypeOK
<1>4. PICK b \in Bufs, c \in Bufs, n \in Nat, x \in Bufs :
          b = NextBuffer /\ c = Other(NextBuffer) /\ c # b /\ n = Len(stream) /\ x = chosen[r] /\ x \in {b, c}
  BY <1>1, <1>3, TwoBuffers, RowTypes DEF Bufs
<1>5. Sequenced(b, c, n)
  BY <1>2, <1>4 DEF StreamInv, InOrder
<1>6. buf[x].full
  BY <1>1, <1>2, <1>4 DEF CopyFull, Copying
<1>7. \A y : ~Given(y)
  BY <1>1, <1>2, OneCopies DEF Given, Locked
<1>8. \A y : Given(y)' <=> y = x
  BY <1>2, <1>3, <1>4, <1>7 DEF Given
<1>9. \/ x = c /\ Filling(b, n + row_count) /\ Ready(c, n)
      \/ /\ x = b /\ Ready(b, n) /\ Ready(c, n + row_count)
         /\ Stored + 1 = RowOf(n + row_count + row_count)
  <2>1. CASE Filling(b, n) \/ Filling(b, n + row_count)
    BY <1>4, <1>5, <1>6, <1>7, <2>1 DEF Sequenced, Filling, Empty, Ready
  <2>2. CASE ~Filling(b, n) /\ ~Filling(b, n + row_count)
    <3>1. Ready(b, n) /\ Ready(c, n + row_count) /\ Stored + 1 = RowOf(n + row_count + row_count)
          /\ ~(pc[r] = "copy" /\ chosen[r] = c)
      BY <1>5, <1>7, <2>2 DEF Sequenced
    <3> QED
      BY <1>2, <1>4, <3>1
  <2> QED
    BY <2>1, <2>2
<1>10. Holds(x, n, row_count)
  BY <1>9 DEF Ready
<1>11. /\ Stored' = Stored
       /\ \A y, m, k : Holds(y, m, k)' = Holds(y, m, k)
       /\ \A y : Begun(y)' = Begun(y)
  BY <1>2 DEF Stored, Holds, Begun, RowOf
<1>12. \A y, m : Filling(y, m)' = Filling(y, m)
  BY <1>2, <1>11 DEF Filling, RowOf
<1>13. /\ buf[x] \in Buffer /\ stream \in Seq(Nat) /\ row_count \in Nat \ {0} /\ avg_divisor \in Nat
       /\ Packet(buf[x]) \in Seq(Nat) /\ Len(Packet(buf[x])) = row_count
       /\ \A i \in 1 .. row_count : i - 1 \in Rows /\ Packet(buf[x])[i] = buf[x].rows[i - 1]
  BY <1>1, <1>4, PacketRows, BufferAssumption DEF TypeInv, TypeOK
<1>14. Len(stream') = n + row_count
  <2>1. PICK p \in Seq(Nat) : p = Packet(buf[x]) /\ Len(p) = row_count
    BY <1>13
  <2>2. Len(stream \o p) = Len(stream) + Len(p)
    BY <1>13, <2>1
  <2> QED
    BY <1>2, <1>4, <2>1, <2>2
<1>15. Sequenced(b, c, n + row_count)'
  <2>1. CASE x = c /\ Filling(b, n + row_count) /\ Ready(c, n)
    BY <1>2, <1>6, <1>8, <1>12, <2>1 DEF Sequenced
  <2>2. CASE /\ x = b /\ Ready(b, n) /\ Ready(c, n + row_count)
             /\ Stored + 1 = RowOf(n + row_count + row_count)
    <3>1. Ready(c, n + row_count)'
      BY <1>2, <1>4, <1>8, <1>11, <2>2 DEF Ready
    <3>2. (Stored + 1 = RowOf((n + row_count) + row_count))'
      BY <1>11, <2>2 DEF RowOf
    <3> QED
      BY <1>2, <1>6, <1>8, <2>2, <3>1, <3>2 DEF Sequenced
  <2> QED
    BY <1>9, <2>1, <2>2
<1>16. InOrder'
  <2>1. b = NextBuffer' /\ c = Other(NextBuffer)'
    BY <1>2, <1>4 DEF NextBuffer, Other
  <2> QED
    BY <1>14, <1>15, <2>1 DEF InOrder
<1>17. Packet(buf[x]) = Promise!Expected(n)
  <2>1. \A i \in 1 .. row_count : Packet(buf[x])[i] = (n + i - 1) * avg_divisor + 1
    <3> SUFFICES ASSUME NEW i \in 1 .. row_count
                 PROVE  Packet(buf[x])[i] = (n + i - 1) * avg_divisor + 1
      OBVIOUS
    <3>1. i - 1 \in Rows /\ Packet(buf[x])[i] = buf[x].rows[i - 1] /\ i - 1 < row_count
      BY <1>13
    <3>2. buf[x].rows[i - 1] = RowOf(n + (i - 1))
      BY <1>10, <3>1 DEF Holds
    <3>3. PICK k \in Int : k = n + (i - 1) /\ k = n + i - 1
      BY <1>13
    <3> QED
      BY <3>1, <3>2, <3>3 DEF RowOf
  <2>2. Packet(buf[x]) = [i \in 1 .. row_count |-> Packet(buf[x])[i]]
    BY DEF Packet
  <2> QED
    BY <2>1, <2>2 DEF Promise!Expected
<1> QED
  BY <1>2, <1>4, <1>16, <1>17

(* A buffer that is handed back is empty.                                  *)
LEMMA ClearOrder ==
  ASSUME StreamInv, NEW r \in Readers, GetDataClear(r), mishap' = {}
  PROVE  InOrder'
<1>1. ChannelInv /\ CopyInv /\ TypeInv /\ CopyFull /\ MutexHeld
  BY DEF StreamInv, ChannelInv, CopyInv
<1>2. /\ pc[r] = "clear" /\ attached /\ mishap = {}
      /\ UNCHANGED <<use_first_buf, chosen, sample, cb, attached, stream>>
      /\ pc' = [pc EXCEPT ![r] = "wipe"]
      /\ buf' = [buf EXCEPT ![chosen[r]] = mark_read(@)]
  BY DEF GetDataClear, Goto, callback
<1>3. chosen[r] \in Bufs /\ \A q \in Readers : pc'[q] = IF q = r THEN "wipe" ELSE pc[q]
  BY <1>1, <1>2 DEF TypeInv, TypeOK
<1>4. PICK b \in Bufs, c \in Bufs, n \in Nat, x \in Bufs :
          b = NextBuffer /\ c = Other(NextBuffer) /\ c # b /\ n = Len(stream) /\ x = chosen[r] /\ x \in {b, c}
  BY <1>1, <1>3, TwoBuffers, RowTypes DEF Bufs
<1>5. Sequenced(b, c, n) /\ row_count \in Nat
  BY <1>2, <1>4, BufferAssumption DEF StreamInv, InOrder
<1>6. buf[x].full /\ buf[x].curr_pos_times_added = 0
  BY <1>1, <1>2, <1>4, BufferNumbers DEF CopyFull, Copying
<1>7. /\ ~buf'[x].full /\ buf'[x].curr_pos = 0 /\ buf'[x].curr_pos_times_added = 0
      /\ \A y \in Bufs : y # x => buf'[y] = buf[y]
  BY <1>1, <1>2, <1>4, <1>6 DEF mark_read, TypeInv, TypeOK
<1>8. /\ Given(x)
      /\ \A y : Given(y) => y = x
      /\ \A y : ~Given(y)'
  BY <1>1, <1>2, <1>3, <1>4, OneCopies DEF Given, Locked
<1>9. Stored' = Stored
  BY <1>2 DEF Stored
<1>10. \A y \in Bufs : \A m : y # x => Filling(y, m)' = Filling(y, m)
  BY <1>7, <1>9 DEF Filling, Holds, Begun, RowOf
<1>11. \/ x = c /\ Filling(b, n)
       \/ x = b /\ Ready(c, n) /\ Stored + 1 = RowOf(n + row_count)
  BY <1>4, <1>5, <1>6, <1>8 DEF Sequenced, Filling, Empty, Ready
<1>12. Sequenced(b, c, n)'
  <2>1. CASE x = c /\ Filling(b, n)
    BY <1>4, <1>7, <1>10, <2>1 DEF Sequenced, Empty
  <2>2. CASE x = b /\ Ready(c, n) /\ Stored + 1 = RowOf(n + row_count)
    <3>1. Ready(c, n)'
      BY <1>4, <1>7, <1>8, <2>2 DEF Ready, Holds, RowOf
    <3>2. PICK k \in Nat : k = n + row_count
      BY <1>5
    <3>3. Holds(b, k, Begun(b))'
      <4>1. Begun(b)' = 0 /\ \A i \in Rows : ~(i < 0)
        BY <1>7, <2>2, BufferAssumption DEF Begun, Rows
      <4> QED
        BY <4>1 DEF Holds
    <3>4. (Stored + 1 = RowOf(k + buf[b].curr_pos) + buf[b].curr_pos_times_added)'
      <4>1. (Stored + 1 = RowOf(k))'
        BY <1>9, <2>2, <3>2 DEF RowOf
      <4>2. RowOf(k + 0) + 0 = RowOf(k)
        BY RowOfFacts
      <4> QED
        BY <1>7, <2>2, <4>1, <4>2 DEF RowOf
    <3>5. Filling(b, k)'
      BY <1>7, <2>2, <3>3, <3>4 DEF Filling
    <3> QED
      BY <3>1, <3>2, <3>5 DEF Sequenced
  <2> QED
    BY <1>11, <2>1, <2>2
<1>13. b = NextBuffer' /\ c = Other(NextBuffer)' /\ n = Len(stream)'
  BY <1>2, <1>4 DEF NextBuffer, Other
<1> QED
  BY <1>12, <1>13 DEF InOrder

(* The memset wipes a buffer in which nothing has been written again.      *)
LEMMA WipeOrder ==
  ASSUME StreamInv, NEW r \in Readers, GetDataWipe(r), mishap' = {}
  PROVE  InOrder'
<1>1. ChannelInv /\ CopyInv /\ TypeInv
  BY DEF StreamInv, ChannelInv, CopyInv
<1>2. /\ pc[r] = "wipe" /\ attached /\ mishap = {} /\ ~Started(buf[chosen[r]])
      /\ UNCHANGED <<use_first_buf, chosen, sample, cb, attached, stream>>
      /\ pc' = [pc EXCEPT ![r] = "check"]
      /\ buf' = [buf EXCEPT ![chosen[r]] = wipe(@)]
  BY DEF GetDataWipe, Goto, callback
<1>3. chosen[r] \in Bufs /\ \A q \in Readers : pc'[q] = IF q = r THEN "check" ELSE pc[q]
  BY <1>1, <1>2 DEF TypeInv, TypeOK
<1>4. PICK b \in Bufs, c \in Bufs, n \in Nat, x \in Bufs :
          b = NextBuffer /\ c = Other(NextBuffer) /\ c # b /\ n = Len(stream) /\ x = chosen[r]
  BY <1>1, <1>3, TwoBuffers, RowTypes
<1>5. Sequenced(b, c, n)
  BY <1>2, <1>4 DEF StreamInv, InOrder
<1>6. ~buf[x].full /\ buf[x].curr_pos = 0 /\ buf[x].curr_pos_times_added = 0
  BY <1>1, <1>2, <1>4, BufferNumbers DEF Started
<1>7. /\ ~buf'[x].full /\ buf'[x].curr_pos = 0 /\ buf'[x].curr_pos_times_added = 0
      /\ \A y \in Bufs : y # x => buf'[y] = buf[y]
  <2>1. buf[x] \in Buffer /\ buf \in [Bufs -> Buffer]
    BY <1>1 DEF TypeInv, TypeOK
  <2>2. buf'[x] = wipe(buf[x]) /\ \A y \in Bufs : y # x => buf'[y] = buf[y]
    BY <1>2, <1>4, <2>1
  <2>3. wipe(buf[x]).full = buf[x].full /\ wipe(buf[x]).curr_pos = buf[x].curr_pos
        /\ wipe(buf[x]).curr_pos_times_added = buf[x].curr_pos_times_added
    BY <2>1 DEF wipe, Buffer
  <2> QED
    BY <1>6, <2>2, <2>3
<1>8. Stored' = Stored
  BY <1>2 DEF Stored
<1>9. \A y : Given(y)' = Given(y)
  <2>1. \A q \in Readers : chosen'[q] = chosen[q] /\ (pc'[q] = "clear" <=> pc[q] = "clear")
    BY <1>2, <1>3
  <2> QED
    BY <2>1 DEF Given
<1>10. \A y \in Bufs : (Empty(y)' <=> Empty(y)) /\ (buf'[y].full <=> buf[y].full)
  <2> SUFFICES ASSUME NEW y \in Bufs PROVE (Empty(y)' <=> Empty(y)) /\ (buf'[y].full <=> buf[y].full)
    OBVIOUS
  <2>1. CASE y = x
    BY <1>6, <1>7, <2>1 DEF Empty
  <2>2. CASE y # x
    BY <1>7, <2>2 DEF Empty
  <2> QED
    BY <2>1, <2>2
<1>11. \A y \in Bufs : \A m : Filling(y, m) => Filling(y, m)'
  <2> SUFFICES ASSUME NEW y \in Bufs, NEW m, Filling(y, m) PROVE Filling(y, m)'
    OBVIOUS
  <2>1. CASE y # x
    BY <1>7, <1>8, <2>1 DEF Filling, Holds, Begun, RowOf
  <2>2. CASE y = x
    <3>1. Begun(y)' = 0 /\ \A i \in Rows : ~(i < 0)
      BY <1>7, <2>2, BufferAssumption DEF Begun, Rows
    <3>2. Holds(y, m, Begun(y))'
      BY <3>1 DEF Holds
    <3> QED
      BY <1>6, <1>7, <1>8, <2>2, <3>2 DEF Filling, RowOf
  <2> QED
    BY <2>1, <2>2
<1>12. \A y \in Bufs : \A m : Ready(y, m) => Ready(y, m)'
  BY <1>6, <1>7, <1>9 DEF Ready, Holds, RowOf
<1>13. (\A q \in Readers : ~(pc[q] = "copy" /\ chosen[q] = c))
          => (\A q \in Readers : ~(pc[q] = "copy" /\ chosen[q] = c))'
  BY <1>2, <1>3
<1>14. Sequenced(b, c, n)'
  BY <1>5, <1>8, <1>9, <1>10, <1>11, <1>12, <1>13 DEF Sequenced, RowOf
<1>15. b = NextBuffer' /\ c = Other(NextBuffer)' /\ n = Len(stream)'
  BY <1>2, <1>4 DEF NextBuffer, Other
<1> QED
  BY <1>14, <1>15 DEF InOrder

(* The other steps of a thread; it chooses the oldest buffer.              *)
LEMMA QuietGetDataOrder ==
  ASSUME StreamInv, attached', mishap' = {}, NEW r \in Readers, GetData(r),
         ~GetDataCopy(r), ~GetDataClear(r), ~GetDataWipe(r)
  PROVE  InOrder'
<1>1. ChannelInv /\ CopyInv /\ TypeInv /\ MutexHeld /\ ReadOrder
  BY DEF StreamInv, ChannelInv, CopyInv
<1>2. UNCHANGED <<buf, use_first_buf, stream, sample, cb, attached, retval>> /\ attached
  BY GetDataQuiet
<1>3. mishap = {}
  BY <1>1, GetDataFillsNothing
<1>4. PICK b \in Bufs, c \in Bufs, n \in Nat :
          b = NextBuffer /\ c = Other(NextBuffer) /\ c # b /\ n = Len(stream)
  BY <1>1, TwoBuffers, RowTypes
<1>5. Sequenced(b, c, n)
  BY <1>2, <1>3, <1>4 DEF StreamInv, InOrder
<1>6. \A q \in Readers : q # r => pc'[q] = pc[q] /\ chosen'[q] = chosen[q]
  BY <1>1, <1>2 DEF GetData, GetDataEnter, GetDataTooSlow, GetDataWait, GetDataWake, GetDataRelock,
         GetDataChoose, GetDataChooseSecond, GetDataCheck, GetDataUnwarn, GetDataFaults,
         Goto, Return, Leave, TypeInv, TypeOK
<1>7. pc'[r] # "clear" /\ (pc'[r] = "copy" => GetDataChoose(r) \/ GetDataChooseSecond(r))
  BY <1>1, <1>2 DEF GetData, GetDataEnter, GetDataTooSlow, GetDataWait, GetDataWake, GetDataRelock,
         GetDataChoose, GetDataChooseSecond, GetDataCheck, GetDataUnwarn, GetDataFaults,
         Goto, Return, Leave, TypeInv, TypeOK
<1>8. \A q \in Readers : \A x : (pc'[q] = "clear" /\ chosen'[q] = x) <=> (pc[q] = "clear" /\ chosen[q] = x)
  BY <1>1, <1>2, <1>6, <1>7, QuietLeavesCopied
<1>9. ~(pc'[r] = "copy" /\ chosen'[r] = c /\ buf[b].full)
  <2> SUFFICES ASSUME pc'[r] = "copy", chosen'[r] = c, buf[b].full PROVE FALSE
    OBVIOUS
  <2>1. CASE GetDataChoose(r)
    <3>1. c = "first_buf"
      BY <1>1, <2>1 DEF GetDataChoose, Goto, TypeInv, TypeOK
    <3>2. b = "second_buf" /\ ~use_first_buf
      BY <1>4, <3>1 DEF NextBuffer, Bufs
    <3>3. PICK q \in Readers : Copying(q, "second_buf")
      BY <1>1, <1>2, <1>3, <3>2 DEF ReadOrder
    <3>4. q = r
      BY <1>1, <2>1, <3>3, OneCopies DEF Copying, Locked, GetDataChoose
    <3> QED
      BY <2>1, <3>3, <3>4 DEF Copying, GetDataChoose
  <2>2. CASE GetDataChooseSecond(r)
    <3>1. pc \in [Readers -> Locked \cup {"user", "unlocked", "waiting", "relock", "oops"}]
          /\ chosen \in [Readers -> Bufs]
      BY <1>1 DEF TypeInv, TypeOK
    <3>2. ~(pc' = [pc EXCEPT ![r] = "user"])
      BY <3>1
    <3>3. chosen' = [chosen EXCEPT ![r] = "second_buf"] /\ ~buf["first_buf"].full
      BY <2>2, <3>2 DEF GetDataChooseSecond, Goto, Leave, Return
    <3>4. c = "second_buf"
      BY <3>1, <3>3
    <3> QED
      BY <1>4, <3>3, <3>4 DEF Bufs
  <2> QED
    BY <1>7, <2>1, <2>2
<1>10. UNCHANGED Stored
  BY <1>2 DEF Stored
<1>11. Sequenced(b, c, n)'
  BY <1>2, <1>5, <1>6, <1>8, <1>9, <1>10, SequenceKept
<1>12. b = NextBuffer' /\ c = Other(NextBuffer)' /\ n = Len(stream)'
  BY <1>2, <1>4 DEF NextBuffer, Other
<1> QED
  BY <1>11, <1>12 DEF InOrder

(* The first buffer is chosen, or the second after a full first one.       *)
LEMMA AimStep ==
  ASSUME StreamInv, [Next]_vars
  PROVE  Aim'
<1> USE DEF Aim, NextBuffer, Bufs
<1>1. CASE CallbackSelect \/ CallbackSelectSecond
  BY <1>1 DEF CallbackSelect, CallbackSelectSecond, client
<1>2. CASE Callback /\ ~CallbackSelect /\ ~CallbackSelectSecond
  BY <1>2 DEF Callback, CallbackEnter, CallbackRemove, CallbackUsesFreed, CallbackWrite,
              CallbackRefused, CallbackWarn
<1>3. CASE \E r \in Readers : GetData(r)
  <2>1. UNCHANGED <<cb, use_first_buf>> /\ mishap \subseteq mishap'
    BY <1>3, GetDataFillsNothing DEF StreamInv, ChannelInv, CopyInv
  <2> QED
    BY <2>1 DEF StreamInv
<1>4. CASE UNCHANGED vars
  BY <1>4 DEF vars, client, callback, StreamInv
<1> QED
  BY <1>1, <1>2, <1>3, <1>4 DEF Next

(* Every step keeps the order.                                             *)
LEMMA OrderStep ==
  ASSUME StreamInv, [Next]_vars
  PROVE  InOrder'
<1>1. CASE ~attached' \/ mishap' # {}
  BY <1>1 DEF InOrder
<1>2. CASE attached' /\ mishap' = {}
  <2>1. CASE Callback
    BY <1>2, <2>1, QuietCallbackOrder, WriteOrder
  <2>2. CASE \E r \in Readers : GetData(r)
    BY <1>2, <2>2, CopyOrder, ClearOrder, WipeOrder, QuietGetDataOrder
  <2>3. CASE UNCHANGED vars
    <3>1. UNCHANGED <<buf, use_first_buf, stream, sample, cb, attached, pc, chosen, mishap>>
      BY <2>3 DEF vars, client, callback, calls
    <3>2. PICK b, c, n : b = NextBuffer /\ c = Other(NextBuffer) /\ n = Len(stream)
      OBVIOUS
    <3>3. Sequenced(b, c, n)
      BY <1>2, <3>1, <3>2 DEF StreamInv, InOrder
    <3>4. UNCHANGED Stored
      BY <3>1 DEF Stored
    <3>5. Sequenced(b, c, n)'
      BY <3>1, <3>3, <3>4, SequenceKept
    <3>6. b = NextBuffer' /\ c = Other(NextBuffer)' /\ n = Len(stream)'
      BY <3>1, <3>2 DEF NextBuffer, Other
    <3> QED
      BY <3>5, <3>6 DEF InOrder
  <2> QED
    BY <2>1, <2>2, <2>3 DEF Next
<1> QED
  BY <1>1, <1>2

LEMMA StreamInit == Init => StreamInv
<1> SUFFICES ASSUME Init PROVE StreamInv
  OBVIOUS
<1>1. ChannelInv
  <2>1. CopyInv
    BY TypeInit DEF CopyInv, MutexHeld, CopyFull, Copying, Init, Locked
  <2> QED
    BY <2>1 DEF ChannelInv, GoneQuiet, ReadOrder, Target, Init
<1>2. Aim
  BY DEF Aim, Init, Bufs
<1>3. Sequenced("first_buf", "second_buf", 0)
  <2>1. /\ \A b \in Bufs : ~buf[b].full /\ buf[b].curr_pos = 0 /\ buf[b].curr_pos_times_added = 0
        /\ "first_buf" \in Bufs /\ "second_buf" \in Bufs
    BY DEF Init, buffer_init, Bufs
  <2>2. Begun("first_buf") = 0 /\ \A i \in Rows : ~(i < 0)
    BY <2>1, BufferAssumption DEF Begun, Rows
  <2>3. Stored + 1 = RowOf(0 + 0) + 0
    BY BufferAssumption DEF Init, Stored, RowOf
  <2> QED
    BY <2>1, <2>2, <2>3 DEF Sequenced, Filling, Empty, Holds
<1>4. InOrder
  <2>1. NextBuffer = "first_buf" /\ Other("first_buf") = "second_buf" /\ Len(stream) = 0
    BY DEF Init, NextBuffer, Other
  <2> QED
    BY <1>3, <2>1 DEF InOrder
<1> QED
  BY <1>1, <1>2, <1>4 DEF StreamInv

LEMMA StreamInvariant == Spec => []StreamInv
<1>1. StreamInv /\ ChannelInv' /\ [Next]_vars => StreamInv'
  BY AimStep, OrderStep DEF StreamInv
<1> QED
  BY <1>1, StreamInit, ChannelInvariant, PTL DEF Spec

(* Every step delivers the next packet, breaks the stream, delivers some   *)
(* packet of a broken stream, or does nothing to it.                       *)
LEMMA StreamStep ==
  ASSUME StreamInv, [Next]_vars
  PROVE  [Promise!Next]_<<stream, mishap # {}>>
<1> USE DEF Promise!Next, Promise!Deliver, Promise!Break, Promise!DeliverBroken
<1>1. CASE \E r \in Readers : GetDataCopy(r)
  <2>1. PICK r \in Readers : GetDataCopy(r)
    BY <1>1
  <2>2. CASE UNCHANGED stream /\ mishap' # {}
    BY <2>2
  <2>3. CASE UNCHANGED mishap /\ stream' = stream \o Packet(buf[chosen[r]])
    <3>1. CASE mishap = {}
      BY <2>1, <2>3, <3>1, CopyOrder
    <3>2. CASE mishap # {}
      <4>1. buf[chosen[r]] \in Buffer /\ stream \in Seq(Nat)
        BY DEF StreamInv, ChannelInv, CopyInv, TypeInv, TypeOK
      <4>2. PICK p \in Seq(Nat) : p = Packet(buf[chosen[r]]) /\ Len(p) = row_count
        BY <4>1, PacketRows
      <4>3. Len(stream \o p) = Len(stream) + row_count /\ SubSeq(stream \o p, 1, Len(stream)) = stream
        BY <4>1, <4>2
      <4> QED
        BY <2>3, <3>2, <4>2, <4>3
    <3> QED
      BY <3>1, <3>2
  <2> QED
    BY <2>1, <2>2, <2>3 DEF GetDataCopy
<1>2. CASE ~ \E r \in Readers : GetDataCopy(r)
  <2>1. UNCHANGED stream /\ mishap \subseteq mishap'
    <3>1. CASE Callback
      BY <3>1 DEF Callback, CallbackEnter, CallbackRemove, CallbackSelect, CallbackSelectSecond,
                  CallbackUsesFreed, CallbackWrite, CallbackRefused, CallbackWarn
    <3>2. CASE \E r \in Readers : GetData(r)
      BY <1>2, <3>2, GetDataQuiet, GetDataFillsNothing
         DEF GetDataClear, GetDataWipe, StreamInv, ChannelInv, CopyInv
    <3>3. CASE UNCHANGED vars
      BY <3>3 DEF vars
    <3> QED
      BY <3>1, <3>2, <3>3 DEF Next
  <2> QED
    BY <2>1
<1> QED
  BY <1>1, <1>2

(* The driver keeps the promise of SampleStream to every client, whatever  *)
(* the sizes of its buffers and of its averages: until one of the named    *)
(* mishaps happens, its packets are the stream without a gap.              *)
THEOREM KeepsStream == Spec => StreamSpec
<1>1. Init => Promise!Init
  BY DEF Init, Promise!Init
<1>2. StreamInv /\ [Next]_vars => [Promise!Next]_<<stream, mishap # {}>>
  BY StreamStep
<1> QED
  BY <1>1, <1>2, StreamInvariant, PTL DEF Spec, StreamSpec, Promise!Spec
=============================================================================
