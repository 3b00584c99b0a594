---------------------------- MODULE ClientChannel ----------------------------
(***************************************************************************)
(* One client of the driver, from the samples of the A/D converter to the  *)
(* packets its program receives.                                           *)
(*                                                                         *)
(* Two kinds of actors share the Client structure and have no lock in      *)
(* common.  The completion handler ad_read_bulk_callback, in interrupt     *)
(* context and under dev->err_lock, stores each sample in one of the two   *)
(* buffers, warns a client whose buffers are both full and removes it some *)
(* completions later.  The threads of the client call IOCTL_GET_DATA,      *)
(* which sleeps until a buffer is full and copies it out under             *)
(* dev->io_mutex.                                                          *)
(*                                                                         *)
(* An action is what one actor does between two accesses the other can see *)
(* or disturb.  The channel lives from init_client to the removal of the   *)
(* client; freed memory is never used again here: a thread that touches it *)
(* is left in state "oops", the callback is recorded in fault.             *)
(***************************************************************************)
EXTENDS ClientBuffer, Sequences

CONSTANTS
    Readers,        \* threads that call IOCTL_GET_DATA with the client's pid
    Nobody,         \* the holder of a free io_mutex
    WaitLoops,      \* USB_AD_WAIT_LOOPS_AFTER_WARNING
    MaxSample       \* bound: data URBs completed

ASSUME ChannelAssumption ==
    /\ Nobody \notin Readers
    /\ WaitLoops \in Nat
    /\ MaxSample \in Nat

Bufs      == {"first_buf", "second_buf"}
Other(b)  == IF b = "first_buf" THEN "second_buf" ELSE "first_buf"

VARIABLES
    sample,                 \* number of the last sample received
    attached,               \* gpClients_array still points to the client
    buf,                    \* first_buf and second_buf
    use_first_buf,
    warning,
    loops_after_warn_count,
    cb,                     \* where the callback is with this client
    io_mutex,
    pc,                     \* where each thread is in IOCTL_GET_DATA
    chosen,                 \* the buffer a thread copies
    too_slow,               \* its local variable
    retval,                 \* copy_to_user left nothing behind
    result,                 \* what its last call returned
    stream,                 \* history: rows handed to the client
    mishap,                 \* history: what has already broken the stream
    waited,                 \* history: completions since the last warning
    fault                   \* history: who has used freed memory

client   == <<buf, use_first_buf, warning, loops_after_warn_count>>
callback == <<sample, attached, cb, waited>>
calls    == <<io_mutex, pc, chosen, too_slow, retval, result>>
vars     == <<client, callback, calls, stream, mishap, fault>>

(* How a call of IOCTL_GET_DATA can end.  OkEmpty is a return value of 0   *)
(* with nothing copied.                                                    *)
Results == {"none", "Ok", "OkEmpty", "TooSlow", "NotCopied", "EFAULT", "ENODEV"}

Init ==
    /\ sample = 0
    /\ attached = TRUE
    /\ buf = [b \in Bufs |-> buffer_init]
    /\ use_first_buf = TRUE
    /\ warning = FALSE
    /\ loops_after_warn_count = 0
    /\ cb = "idle"
    /\ io_mutex = Nobody
    /\ pc = [r \in Readers |-> "user"]
    /\ chosen = [r \in Readers |-> "first_buf"]
    /\ too_slow = [r \in Readers |-> FALSE]
    /\ retval = [r \in Readers |-> TRUE]
    /\ result = [r \in Readers |-> "none"]
    /\ stream = << >>
    /\ mishap = {}
    /\ waited = 0
    /\ fault = {}

(* Thread r has decided on buffer b and not handed it back yet.            *)
Copying(r, b) == pc[r] \in {"copy", "clear"} /\ chosen[r] = b

(* b is full and no thread is copying it.                                  *)
Unread(b) == buf[b].full /\ \A r \in Readers : ~Copying(r, b)

-----------------------------------------------------------------------------
(* The completion handler, its body for this client.                       *)

(* Mutant of Patient: one completion too many.                             *)
TooPatient == loops_after_warn_count <= WaitLoops

Patient == loops_after_warn_count < WaitLoops

(* A data URB completes.  A client warned earlier is counted down, and     *)
(* given up when the count has run out.                                    *)
CallbackEnter ==
    /\ cb = "idle"
    /\ attached
    /\ sample < MaxSample
    /\ sample' = sample + 1
    /\ waited' = waited + 1
    /\ \/ /\ ~warning
          /\ cb' = "select"
          /\ UNCHANGED loops_after_warn_count
       \/ /\ warning
          /\ Patient
          /\ loops_after_warn_count' = loops_after_warn_count + 1
          /\ cb' = "select"
       \/ /\ warning
          /\ ~Patient
          /\ cb' = "remove"
          /\ UNCHANGED loops_after_warn_count
    /\ UNCHANGED <<attached, buf, use_first_buf, warning, calls, stream, mishap, fault>>

(* The slot is cleared and the client freed; the handler goes on with it.  *)
CallbackRemove ==
    /\ cb = "remove"
    /\ attached' = FALSE
    /\ cb' = "select"
    /\ UNCHANGED <<client, sample, waited, calls, stream, mishap, fault>>

(* Mutant of NextBuffer: an empty first buffer is always preferred.        *)
FirstBufferAlways == "first_buf"

(* The buffer being filled when the first one is not full.                 *)
NextBuffer == IF use_first_buf THEN "first_buf" ELSE "second_buf"

(* Where the sample goes: the first buffer unless it is full or the second *)
(* is being filled, nowhere when both are full.  Threads can empty both    *)
(* buffers between the two tests; the sample then strays into the second   *)
(* buffer although the first is to be filled next.                         *)
CallbackSelect ==
    /\ cb = "select"
    /\ attached
    /\ cb' = IF buf["first_buf"].full THEN "first_is_full" ELSE NextBuffer
    /\ UNCHANGED <<client, sample, attached, waited, calls, stream, mishap, fault>>

CallbackSelectSecond ==
    /\ cb = "first_is_full"
    /\ \/ /\ buf["second_buf"].full
          /\ cb' = "warn"
          /\ UNCHANGED mishap
       \/ /\ ~buf["second_buf"].full
          /\ cb' = "second_buf"
          /\ mishap' = IF use_first_buf THEN mishap \cup {"strayed"} ELSE mishap
    /\ UNCHANGED <<client, sample, attached, waited, calls, stream, fault>>

(* The handler has just freed the client and reads its buffers all the     *)
(* same.                                                                   *)
CallbackUsesFreed ==
    /\ cb = "select"
    /\ ~attached
    /\ fault' = fault \cup {"callback"}
    /\ cb' = "idle"
    /\ UNCHANGED <<client, sample, attached, waited, calls, stream, mishap>>

(* IOCTL_GET_DATA looks at the first buffer first, so one that fills while *)
(* the second is still unread will overtake it.                            *)
Overtakes(written) == cb = "first_buf" /\ written.full /\ Unread("second_buf")

(* buffer_write.  The buffer that has become full is left for the other.   *)
CallbackWrite ==
    /\ cb \in Bufs
    /\ Writable(buf[cb])
    /\ LET written == buffer_write(buf[cb], sample)
       IN  /\ buf' = [buf EXCEPT ![cb] = written]
           /\ use_first_buf' = IF written.full THEN cb = "second_buf" ELSE use_first_buf
           /\ mishap' = IF Overtakes(written) THEN mishap \cup {"overtaken"} ELSE mishap
    /\ cb' = "idle"
    /\ UNCHANGED <<warning, loops_after_warn_count, sample, attached, waited, calls, stream, fault>>

(* The error is only logged: the sample is gone.                           *)
CallbackRefused ==
    /\ cb \in Bufs
    /\ ~Writable(buf[cb])
    /\ cb' = "idle"
    /\ UNCHANGED <<client, sample, attached, waited, calls, stream, mishap, fault>>

(* Both buffers were found full: the sample is dropped, the client warned. *)
CallbackWarn ==
    /\ cb = "warn"
    /\ warning' = TRUE
    /\ waited' = IF warning THEN waited ELSE 0
    /\ mishap' = mishap \cup {"dropped"}
    /\ cb' = "idle"
    /\ UNCHANGED <<buf, use_first_buf, loops_after_warn_count, sample, attached, calls, stream, fault>>

Callback ==
    \/ CallbackEnter \/ CallbackRemove \/ CallbackSelect \/ CallbackSelectSecond
    \/ CallbackUsesFreed \/ CallbackWrite \/ CallbackRefused \/ CallbackWarn

-----------------------------------------------------------------------------
(* IOCTL_GET_DATA, called by thread r.                                     *)

Goto(r, p) == pc' = [pc EXCEPT ![r] = p]

(* Mutant of MutexFree: the mutex is not taken.                            *)
MutexIgnored == TRUE

MutexFree == io_mutex = Nobody

(* The call ends; Return leaves io_mutex alone, Leave releases it first.   *)
Return(r, res) ==
    /\ Goto(r, "user")
    /\ result' = [result EXCEPT ![r] = res]

Leave(r, res) == io_mutex' = Nobody /\ Return(r, res)

(* The result of a call that has copied a buffer.                          *)
Outcome(r) ==
    IF too_slow[r] THEN "TooSlow" ELSE IF retval[r] THEN "Ok" ELSE "NotCopied"

(* The thread looks its pid up in gpClients_array, under io_mutex.         *)
GetDataEnter(r) ==
    /\ pc[r] = "user"
    /\ MutexFree
    /\ \/ /\ attached
          /\ io_mutex' = r
          /\ Goto(r, "known")
          /\ UNCHANGED result
       \/ /\ ~attached
          /\ Leave(r, "EFAULT")
    /\ UNCHANGED <<client, callback, chosen, too_slow, retval, stream, mishap, fault>>

(* It notes whether the client has been warned and unlocks.                *)
GetDataTooSlow(r) ==
    /\ pc[r] = "known"
    /\ attached
    /\ too_slow' = [too_slow EXCEPT ![r] = warning]
    /\ io_mutex' = Nobody
    /\ Goto(r, "unlocked")
    /\ UNCHANGED <<client, callback, chosen, retval, result, stream, mishap, fault>>

(* Without the lock it looks at warning once more, and sleeps unless set.  *)
GetDataWait(r) ==
    /\ pc[r] = "unlocked"
    /\ attached
    /\ Goto(r, IF warning THEN "relock" ELSE "waiting")
    /\ UNCHANGED <<client, callback, io_mutex, chosen, too_slow, retval, result, stream, mishap, fault>>

(* The condition of wait_event.  It stays false for a removed client.      *)
GetDataWake(r) ==
    /\ pc[r] = "waiting"
    /\ attached
    /\ \E b \in Bufs : buf[b].full
    /\ Goto(r, "relock")
    /\ UNCHANGED <<client, callback, io_mutex, chosen, too_slow, retval, result, stream, mishap, fault>>

(* Awake, it takes io_mutex again - and keeps it when the client is gone.  *)
GetDataRelock(r) ==
    /\ pc[r] = "relock"
    /\ MutexFree
    /\ io_mutex' = r
    /\ \/ attached /\ Goto(r, "choose") /\ UNCHANGED result
       \/ ~attached /\ Return(r, "ENODEV")
    /\ UNCHANGED <<client, callback, chosen, too_slow, retval, stream, mishap, fault>>

(* It prefers the first buffer, whichever was filled first.                *)
GetDataChoose(r) ==
    /\ pc[r] = "choose"
    /\ attached
    /\ \/ /\ buf["first_buf"].full
          /\ chosen' = [chosen EXCEPT ![r] = "first_buf"]
          /\ Goto(r, "copy")
       \/ /\ ~buf["first_buf"].full
          /\ Goto(r, "choose_second")
          /\ UNCHANGED chosen
    /\ UNCHANGED <<client, callback, io_mutex, too_slow, retval, result, stream, mishap, fault>>

(* The second buffer, if it is full; it may have been filled after a first *)
(* buffer that was not full yet when the thread looked at it.              *)
GetDataChooseSecond(r) ==
    /\ pc[r] = "choose_second"
    /\ attached
    /\ \/ /\ buf["second_buf"].full
          /\ chosen' = [chosen EXCEPT ![r] = "second_buf"]
          /\ mishap' = IF buf["first_buf"].full THEN mishap \cup {"crossed"} ELSE mishap
          /\ Goto(r, "copy")
          /\ UNCHANGED <<io_mutex, result>>
       \/ /\ ~buf["second_buf"].full
          /\ Leave(r, "OkEmpty")
          /\ UNCHANGED <<chosen, mishap>>
    /\ UNCHANGED <<client, callback, too_slow, retval, stream, fault>>

(* buffer_copy_to_user: the copy, which may fail half way, ...             *)
GetDataCopy(r) ==
    /\ pc[r] = "copy"
    /\ attached
    /\ \/ /\ retval' = [retval EXCEPT ![r] = TRUE]
          /\ stream' = stream \o Packet(buf[chosen[r]])
          /\ UNCHANGED mishap
       \/ /\ retval' = [retval EXCEPT ![r] = FALSE]
          /\ mishap' = mishap \cup {"copy_fault"}
          /\ UNCHANGED stream
    /\ Goto(r, "clear")
    /\ UNCHANGED <<client, callback, io_mutex, chosen, too_slow, result, fault>>

(* ... the stores that hand the buffer back to the callback, ...           *)
GetDataClear(r) ==
    /\ pc[r] = "clear"
    /\ attached
    /\ buf' = [buf EXCEPT ![chosen[r]] = mark_read(@)]
    /\ Goto(r, "wipe")
    /\ UNCHANGED <<use_first_buf, warning, loops_after_warn_count, callback, io_mutex, chosen,
                   too_slow, retval, result, stream, mishap, fault>>

(* ... and the memset, which may come after the callback's next row.       *)
GetDataWipe(r) ==
    /\ pc[r] = "wipe"
    /\ attached
    /\ buf' = [buf EXCEPT ![chosen[r]] = wipe(@)]
    /\ mishap' = IF Started(buf[chosen[r]]) THEN mishap \cup {"wiped"} ELSE mishap
    /\ Goto(r, "check")
    /\ UNCHANGED <<use_first_buf, warning, loops_after_warn_count, callback, io_mutex, chosen,
                   too_slow, retval, result, stream, fault>>

(* The warning is withdrawn if the other buffer is not full either.        *)
GetDataCheck(r) ==
    /\ pc[r] = "check"
    /\ attached \/ ~retval[r]
    /\ IF retval[r] /\ ~buf[Other(chosen[r])].full
       THEN Goto(r, "unwarn") /\ UNCHANGED <<io_mutex, result>>
       ELSE Leave(r, Outcome(r))
    /\ UNCHANGED <<client, callback, chosen, too_slow, retval, stream, mishap, fault>>

GetDataUnwarn(r) ==
    /\ pc[r] = "unwarn"
    /\ attached
    /\ warning' = FALSE
    /\ Leave(r, Outcome(r))
    /\ UNCHANGED <<buf, use_first_buf, loops_after_warn_count, callback, chosen, too_slow, retval,
                   stream, mishap, fault>>

(* Everywhere else gpClients_array[i] is followed without looking: the     *)
(* thread reads freed memory or address 0, with what it has locked.        *)
Follows(r) ==
    \/ pc[r] \in {"known", "unlocked", "choose", "choose_second", "copy", "clear", "wipe", "unwarn"}
    \/ pc[r] = "check" /\ retval[r]

GetDataFaults(r) ==
    /\ ~attached
    /\ Follows(r)
    /\ fault' = fault \cup {r}
    /\ Goto(r, "oops")
    /\ UNCHANGED <<client, callback, io_mutex, chosen, too_slow, retval, result, stream, mishap>>

GetData(r) ==
    \/ GetDataEnter(r) \/ GetDataTooSlow(r) \/ GetDataWait(r) \/ GetDataWake(r)
    \/ GetDataRelock(r) \/ GetDataChoose(r) \/ GetDataChooseSecond(r) \/ GetDataCopy(r)
    \/ GetDataClear(r) \/ GetDataWipe(r) \/ GetDataCheck(r) \/ GetDataUnwarn(r)
    \/ GetDataFaults(r)

Next == Callback \/ \E r \in Readers : GetData(r)

Spec == Init /\ [][Next]_vars

-----------------------------------------------------------------------------
(* Where a thread has taken io_mutex and not released it.                  *)
Locked == {"known", "choose", "choose_second", "copy", "clear", "wipe", "check", "unwarn"}

(* Every variable has its type.                                            *)
TypeOK ==
    /\ sample \in 0 .. MaxSample
    /\ waited \in 0 .. MaxSample
    /\ attached \in BOOLEAN
    /\ buf \in [Bufs -> Buffer]
    /\ use_first_buf \in BOOLEAN
    /\ warning \in BOOLEAN
    /\ loops_after_warn_count \in 0 .. WaitLoops
    /\ cb \in {"idle", "remove", "select", "first_is_full", "warn"} \cup Bufs
    /\ io_mutex \in Readers \cup {Nobody}
    /\ pc \in [Readers -> Locked \cup {"user", "unlocked", "waiting", "relock", "oops"}]
    /\ chosen \in [Readers -> Bufs]
    /\ too_slow \in [Readers -> BOOLEAN]
    /\ retval \in [Readers -> BOOLEAN]
    /\ result \in [Readers -> Results]
    /\ stream \in Seq(Nat)
    /\ mishap \subseteq {"overtaken", "strayed", "dropped", "crossed", "copy_fault", "wiped"}
    /\ fault \subseteq Readers \cup {"callback"}

(* buffer_write refuses a sample (client_buffer.h:71, 75) in one situation *)
(* only: a first buffer has overtaken a second one that is still unread,   *)
(* has been read, and has left use_first_buf pointing to the second.       *)
RefusedOnlyAfterOvertaking ==
    cb \in Bufs /\ ~Writable(buf[cb]) => cb = "second_buf" /\ "overtaken" \in mishap

(* From the decision of a thread to copy a buffer until it has handed the  *)
(* buffer back, nobody changes it, although the callback takes no mutex:   *)
(* copy_to_user hands out a packet that is not torn.                       *)
CopiedBufferIsStable ==
    [][\A r \in Readers, b \in Bufs :
          Copying(r, b) => buf'[b] = IF pc'[r] = "wipe" THEN mark_read(buf[b]) ELSE buf[b]]_vars

(* Whatever goes wrong, also with two threads of one client asleep on the  *)
(* same queue: no sample is handed out twice.                              *)
NoSampleTwice ==
    \A i, j \in DOMAIN stream : i # j /\ stream[i] = stream[j] => stream[i] = Blank

(* The callback and IOCTL_GET_DATA together keep the promise of            *)
(* SampleStream.  mishap names the only ways to break it: a sample dropped *)
(* because both buffers were full or strayed into the wrong one, a second  *)
(* buffer overtaken by a younger first one, the second chosen just as an   *)
(* older first one has become full, a failed copy, rows wiped by the late  *)
(* memset.                                                                 *)
Promise == INSTANCE SampleStream WITH broken <- mishap # {}

StreamSpec == Promise!Spec

-----------------------------------------------------------------------------
(* What the comments say, and the code does not do.                        *)

(* A warned client is given USB_AD_WAIT_LOOPS_AFTER_WARNING completions    *)
(* before it is removed (constants.h:23-26), after every warning.          *)
GraceAfterWarning == cb = "remove" => waited >= WaitLoops

(* A row the callback has written is not lost when a buffer is read: it    *)
(* writes on in the second buffer "zeby nie stracic juz zapisanych tam     *)
(* danych" (usb-ad.c:402-404).                                             *)
WrittenRowsSurvive == "wiped" \notin mishap

(* A program that does not fetch its data is warned before it loses any    *)
(* (Wymagania_list.txt:84-89): a sample is refused by the buffer only once *)
(* the client is warned.                                                   *)
NoSilentLoss == cb \in Bufs /\ ~Writable(buf[cb]) => warning
=============================================================================
