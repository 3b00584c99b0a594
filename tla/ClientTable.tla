---------------------------- MODULE ClientTable ----------------------------
(***************************************************************************)
(* The table of clients of the driver (gpClients_array) and everyone who   *)
(* works on it: threads that register a client with IOCTL_SET_PARAMS or    *)
(* fetch its data with IOCTL_GET_DATA, the completion handler that walks   *)
(* over all slots with each sample, and ad_delete_internal, which waits    *)
(* for the active ioctls before it frees the device and the table.         *)
(*                                                                         *)
(* What ClientChannel has in detail is abstracted here: of the two buffers *)
(* only the number of full ones is kept, and a sample may or may not fill  *)
(* one.  A client is an address, so that a pointer to it can dangle, and   *)
(* kmalloc hands out any address that is free, whoever still points to it. *)
(* Freed memory may hold anything; what is written to it is nobody's.      *)
(***************************************************************************)
EXTENDS Sampling

CONSTANTS
    Threads,
    PidOf,          \* the pid a thread passes to the driver
    Addresses,      \* of Client structures
    Null,
    MAX_CLIENTS,    \* USB_AD_MAX_CLIENTS_NUM
    WaitLoops,      \* USB_AD_WAIT_LOOPS_AFTER_WARNING
    ChannelFlags    \* the channel flags that programs pass

Pids  == { PidOf[t] : t \in Threads }
Slots == 0 .. MAX_CLIENTS - 1

ASSUME TableAssumption ==
    /\ IsFiniteSet(Threads)
    /\ Null \notin Threads \cup Addresses \cup Slots \cup Pids
    /\ MAX_CLIENTS \in Nat \ {0}
    /\ WaitLoops \in Nat
    /\ ChannelFlags \subseteq [1 .. USB_AD_CHANNELS_NUM -> 0 .. 255]

VARIABLES
    intfdata,       \* the device can be found
    exiting,
    ioctl_active_count,
    io_mutex,
    flow,           \* packets come: running is set, the URB is resubmitted
    table,          \* gpClients_array
    live,           \* addresses that are allocated
    client,         \* what they hold
    cb,             \* where the completion handler is,
    cb_slot,        \* its i
    cb_client,      \* and its client
    lost,           \* a thread has taken that client out of the table
    teardown,       \* where ad_delete_internal is,
    teardown_slot,  \* and its i
    pc,             \* where each thread is,
    idx,            \* its i
    queue,          \* whose queue it sleeps on
    taken,          \* the client it has taken out of the table
    twice           \* history: handler and thread remove the same client

heap     == <<table, live, client>>
callback == <<flow, cb, cb_slot, cb_client, lost>>
exit     == <<intfdata, exiting, teardown, teardown_slot>>
threads  == <<ioctl_active_count, io_mutex, pc, idx, queue, taken>>
vars     == <<heap, callback, exit, threads, twice>>

(* full counts the full buffers.                                           *)
Client == [pid : Pids, full : 0 .. 2, warning : BOOLEAN,
           loops_after_warn_count : 0 .. WaitLoops, flags : ChannelFlags]

NewClient(pid, flags) == [pid |-> pid, full |-> 0, warning |-> FALSE,
                          loops_after_warn_count |-> 0, flags |-> flags]

Init ==
    /\ intfdata = TRUE /\ exiting = FALSE
    /\ ioctl_active_count = 0 /\ io_mutex = Null
    /\ flow = FALSE
    /\ table = [i \in Slots |-> Null]
    /\ live = {} /\ client = [a \in Addresses |-> Null]
    /\ cb = "idle" /\ cb_slot = 0 /\ cb_client = Null /\ lost = FALSE
    /\ teardown = "none" /\ teardown_slot = 0
    /\ pc = [t \in Threads |-> "user"]
    /\ idx = [t \in Threads |-> Null]
    /\ queue = [t \in Threads |-> Null]
    /\ taken = [t \in Threads |-> Null]
    /\ twice = FALSE

(* kfree of a client.                                                      *)
Free(a) ==
    /\ live' = live \ {a}
    /\ client' = [client EXCEPT ![a] = Null]

(* kmalloc: once an address has been freed twice it may be handed out      *)
(* twice.                                                                  *)
Allocatable == IF twice THEN Addresses ELSE Addresses \ live

(* What may be read at address a, and what is there when c was written.    *)
Seen(a)   == IF a \in live THEN {client[a]} ELSE Client
Put(a, c) == IF a \in live THEN [client EXCEPT ![a] = c] ELSE client

(* wake_up on the queue of client a: the sleepers are taken off its list.  *)
(* On a freed one it may find them or not.                                 *)
Sleepers(a) == { t \in Threads : pc[t] = "asleep" /\ queue[t] = a }

Awaken(S) ==
    /\ pc'    = [t \in Threads |-> IF t \in S THEN "woken" ELSE pc[t]]
    /\ queue' = [t \in Threads |-> IF t \in S THEN Null ELSE queue[t]]

WakeUp(a) == Awaken(Sleepers(a)) \/ (a \notin live /\ Awaken({}))

-----------------------------------------------------------------------------
(* ad_ioctl, called by thread t.                                           *)

Goto(t, place) == pc' = [pc EXCEPT ![t] = place]
Forget(t)      == idx' = [idx EXCEPT ![t] = Null]

MutexFree == io_mutex = Null

(* The end of a call: io_mutex is released, then the call is not counted   *)
(* any longer.                                                             *)
Leave(t) == io_mutex' = Null /\ Goto(t, "leave") /\ Forget(t)

NotActive == ioctl_active_count' = ioctl_active_count - 1

IoctlFindsDevice(t) ==
    /\ pc[t] = "user"
    /\ intfdata
    /\ Goto(t, "found")
    /\ UNCHANGED <<heap, callback, exit, ioctl_active_count, io_mutex, idx, queue, taken, twice>>

(* Under ioctl_count_mutex: no call begins once the device is going.  One  *)
(* that has begun ends at once if its magic number is wrong or its         *)
(* parameters cannot be read.                                              *)
IoctlCounted(t) ==
    /\ pc[t] = "found"
    /\ teardown # "done"
    /\ \/ /\ exiting
          /\ Goto(t, "user")
          /\ UNCHANGED ioctl_active_count
       \/ /\ ~exiting
          /\ ioctl_active_count' = ioctl_active_count + 1
          /\ \E place \in {"counted", "leave"} : Goto(t, place)
    /\ UNCHANGED <<heap, callback, exit, io_mutex, idx, queue, taken, twice>>

SlotsOf(pid) == { i \in Slots : table[i] \in live /\ client[table[i]].pid = pid }

(* Slots that point to freed memory, which any pid may be read from.       *)
Dangling == { i \in Slots : table[i] \notin live \cup {Null} }

(* The first of some slots, Null if there is none.                         *)
First(S) == IF S = {} THEN Null ELSE CHOOSE i \in S : \A j \in S : i <= j

(* With io_mutex locked, the client is looked up by its pid.               *)
IoctlLooksUp(t) ==
    /\ pc[t] = "counted"
    /\ MutexFree
    /\ io_mutex' = t
    /\ \E S \in SUBSET Dangling :
          idx' = [idx EXCEPT ![t] = First(SlotsOf(PidOf[t]) \cup S)]
    /\ \E command \in {"set", "get"} : Goto(t, command)
    /\ UNCHANGED <<heap, callback, exit, ioctl_active_count, queue, taken, twice>>

IoctlLeaves(t) ==
    /\ pc[t] = "leave"
    /\ NotActive
    /\ Goto(t, "user")
    /\ UNCHANGED <<heap, callback, exit, io_mutex, idx, queue, taken, twice>>

(* The client t is working for.                                            *)
Mine(t) == table[idx[t]]

(* IOCTL_SET_PARAMS: an unknown program is given a slot.                   *)
SetParamsNew(t) ==
    /\ pc[t] = "set"
    /\ idx[t] = Null
    /\ \E i \in Slots :
          /\ i = First({ j \in Slots : table[j] = Null })
          /\ idx' = [idx EXCEPT ![t] = i]
    /\ Goto(t, "insert")
    /\ UNCHANGED <<heap, callback, exit, ioctl_active_count, io_mutex, queue, taken, twice>>

(* The client of a known one is taken out of the table, maybe from under   *)
(* the handler, if the handler has not just done the same, ...             *)
SetParamsTakes(t) ==
    /\ pc[t] = "set"
    /\ idx[t] # Null
    /\ taken' = [taken EXCEPT ![t] = Mine(t)]
    /\ table' = [table EXCEPT ![idx[t]] = Null]
    /\ LET held == Mine(t) # Null /\ Mine(t) = cb_client
       IN  /\ lost'  = (lost \/ held)
           /\ twice' = (twice \/ (held /\ cb \in {"clear", "free"}))
    /\ Goto(t, "taken")
    /\ UNCHANGED <<live, client, flow, cb, cb_slot, cb_client, exit, ioctl_active_count, io_mutex, idx, queue>>

(* ... freed (remove_client does nothing with NULL), ...                   *)
SetParamsFrees(t) ==
    /\ pc[t] = "taken"
    /\ IF taken[t] = Null THEN UNCHANGED <<live, client>> ELSE Free(taken[t])
    /\ taken' = [taken EXCEPT ![t] = Null]
    /\ Goto(t, "insert")
    /\ UNCHANGED <<table, callback, exit, ioctl_active_count, io_mutex, idx, queue, twice>>

(* ... and a new client put into the slot.  Who slept on a client that was *)
(* at this address is on no list any more: init_waitqueue_head.  Then      *)
(* ad_initialize starts the device unless it is running; its failures are  *)
(* ignored.                                                                *)
SetParamsInsert(t) ==
    /\ pc[t] = "insert"
    /\ \E a \in Allocatable, flags \in ChannelFlags :
          /\ client' = [client EXCEPT ![a] = NewClient(PidOf[t], flags)]
          /\ live' = live \cup {a}
          /\ table' = [table EXCEPT ![idx[t]] = a]
          /\ queue' = [u \in Threads |-> IF queue[u] = a THEN Null ELSE queue[u]]
    /\ flow' \in {flow, TRUE}
    /\ Leave(t)
    /\ UNCHANGED <<cb, cb_slot, cb_client, lost, exit, ioctl_active_count, taken, twice>>

(* It fails: the parameters are bad, the table is full, or kmalloc or      *)
(* init_client fails, possibly after the old client has been removed.      *)
SetParamsFails(t) ==
    /\ pc[t] \in {"set", "insert"}
    /\ Leave(t)
    /\ UNCHANGED <<heap, callback, exit, ioctl_active_count, queue, taken, twice>>

-----------------------------------------------------------------------------
(* IOCTL_GET_DATA: fails for an unknown program, a device that is not open *)
(* or a bad buffer.  A call with another command ends the same way.        *)
GetDataFails(t) ==
    /\ pc[t] = "get"
    /\ Leave(t)
    /\ UNCHANGED <<heap, callback, exit, ioctl_active_count, queue, taken, twice>>

GetDataUnlocks(t) ==
    /\ pc[t] = "get"
    /\ idx[t] # Null
    /\ Mine(t) # Null
    /\ io_mutex' = Null
    /\ Goto(t, "unlocked")
    /\ UNCHANGED <<heap, callback, exit, ioctl_active_count, idx, queue, taken, twice>>

(* The condition of wait_event, with c the client in the slot.             *)
Ready(c) == exiting \/ c.full > 0

Sleep(t) == Goto(t, "asleep") /\ queue' = [queue EXCEPT ![t] = Mine(t)]

(* Without io_mutex, it sleeps on the queue of the client now in its slot. *)
GetDataWait(t) ==
    /\ pc[t] = "unlocked"
    /\ Mine(t) # Null
    /\ \E c \in Seen(Mine(t)) :
          IF c.warning \/ Ready(c)
          THEN Goto(t, "awake") /\ UNCHANGED queue
          ELSE Sleep(t)
    /\ UNCHANGED <<heap, callback, exit, ioctl_active_count, io_mutex, idx, taken, twice>>

(* Woken up, it looks at its slot again; wait_event evaluates its argument *)
(* in each turn, and the client now there may be another one.              *)
GetDataWoken(t) ==
    /\ pc[t] = "woken"
    /\ Mine(t) # Null
    /\ \E c \in Seen(Mine(t)) :
          IF Ready(c)
          THEN Goto(t, "awake") /\ UNCHANGED queue
          ELSE Sleep(t)
    /\ UNCHANGED <<heap, callback, exit, ioctl_active_count, io_mutex, idx, taken, twice>>

(* Under ioctl_count_mutex: the call ends if the device is going.          *)
GetDataExits(t) ==
    /\ pc[t] = "awake"
    /\ exiting
    /\ NotActive
    /\ Goto(t, "user")
    /\ Forget(t)
    /\ UNCHANGED <<heap, callback, exit, io_mutex, queue, taken, twice>>

GetDataStays(t) ==
    /\ pc[t] = "awake"
    /\ ~exiting
    /\ Goto(t, "relock")
    /\ UNCHANGED <<heap, callback, exit, ioctl_active_count, io_mutex, idx, queue, taken, twice>>

(* It locks io_mutex again, and keeps it if its slot is empty now.         *)
GetDataRelock(t) ==
    /\ pc[t] = "relock"
    /\ MutexFree
    /\ io_mutex' = t
    /\ \/ /\ Mine(t) # Null
          /\ Goto(t, "copy")
          /\ UNCHANGED <<ioctl_active_count, idx>>
       \/ /\ Mine(t) = Null
          /\ NotActive
          /\ Goto(t, "user")
          /\ Forget(t)
    /\ UNCHANGED <<heap, callback, exit, queue, taken, twice>>

(* buffer_copy_to_user, for the client that is in the slot now.            *)
GetDataCopy(t) ==
    /\ pc[t] = "copy"
    /\ Mine(t) # Null
    /\ \E c \in Seen(Mine(t)) :
          \/ /\ c.full = 0
             /\ Leave(t)
             /\ UNCHANGED client
          \/ /\ c.full > 0
             /\ client' = Put(Mine(t), [c EXCEPT !.full = @ - 1])
             /\ \/ Goto(t, "check") /\ UNCHANGED <<io_mutex, idx>>
                \/ Leave(t)
    /\ UNCHANGED <<table, live, callback, exit, ioctl_active_count, queue, taken, twice>>

(* Copied without an error: the warning is withdrawn if nothing is left.   *)
GetDataCheck(t) ==
    /\ pc[t] = "check"
    /\ Mine(t) # Null
    /\ \E c \in Seen(Mine(t)) :
          client' = Put(Mine(t), [c EXCEPT !.warning = @ /\ c.full > 0])
    /\ Leave(t)
    /\ UNCHANGED <<table, live, callback, exit, ioctl_active_count, queue, taken, twice>>

(* The device has been freed before the call was counted, or the slot has  *)
(* been emptied and NULL is followed.                                      *)
IoctlFaults(t) ==
    /\ \/ pc[t] = "found" /\ teardown = "done"
       \/ /\ pc[t] \in {"get", "unlocked", "woken", "copy", "check"}
          /\ idx[t] # Null
          /\ Mine(t) = Null
    /\ Goto(t, "oops")
    /\ UNCHANGED <<heap, callback, exit, ioctl_active_count, io_mutex, idx, queue, taken, twice>>

(* What t does once it is in a call.                                       *)
Ioctl(t) ==
    \/ IoctlCounted(t) \/ IoctlLooksUp(t) \/ IoctlLeaves(t)
    \/ SetParamsNew(t) \/ SetParamsTakes(t) \/ SetParamsFrees(t)
    \/ SetParamsInsert(t) \/ SetParamsFails(t)
    \/ GetDataFails(t) \/ GetDataUnlocks(t) \/ GetDataWait(t) \/ GetDataWoken(t)
    \/ GetDataExits(t) \/ GetDataStays(t) \/ GetDataRelock(t) \/ GetDataCopy(t)
    \/ GetDataCheck(t) \/ IoctlFaults(t)

-----------------------------------------------------------------------------
(* ad_read_bulk_callback.                                                  *)

(* A data packet has come.                                                 *)
CallbackData ==
    /\ cb = "idle"
    /\ flow
    /\ teardown = "none"
    /\ cb' = "fetch"
    /\ cb_slot' = 0
    /\ UNCHANGED <<flow, cb_client, lost, heap, exit, threads, twice>>

(* Mutant of LastSlot: the loop ends one slot too late.                    *)
LastSlotLate == cb_slot = MAX_CLIENTS

LastSlot == cb_slot + 1 = MAX_CLIENTS

NextSlot ==
    /\ cb_client' = Null
    /\ lost' = FALSE
    /\ IF LastSlot
       THEN cb' = "idle" /\ cb_slot' = 0
       ELSE cb' = "fetch" /\ cb_slot' = cb_slot + 1

CallbackFetch ==
    /\ cb = "fetch"
    /\ \/ /\ table[cb_slot] = Null
          /\ NextSlot
       \/ /\ table[cb_slot] # Null
          /\ cb_client' = table[cb_slot]
          /\ cb' = "judge"
          /\ UNCHANGED <<cb_slot, lost>>
    /\ UNCHANGED <<flow, heap, exit, threads, twice>>

(* Mutant of Counted: the count is not increased.                          *)
NotCounted(n) == n

Counted(n) == n + 1

(* A client warned earlier is counted down, and to be removed in the end.  *)
CallbackJudge ==
    /\ cb = "judge"
    /\ \E c \in Seen(cb_client) :
          \/ /\ ~c.warning
             /\ cb' = "store"
             /\ UNCHANGED <<client, twice>>
          \/ /\ c.warning
             /\ c.loops_after_warn_count < WaitLoops
             /\ client' = Put(cb_client, [c EXCEPT !.loops_after_warn_count = Counted(@)])
             /\ cb' = "store"
             /\ UNCHANGED twice
          \/ /\ c.warning
             /\ c.loops_after_warn_count >= WaitLoops
             /\ cb' = "clear"
             /\ twice' = (twice \/ lost)
             /\ UNCHANGED client
    /\ UNCHANGED <<table, live, flow, cb_slot, cb_client, lost, exit, threads>>

(* A freed client may read as not ready_for_input.                         *)
CallbackSkips ==
    /\ cb = "judge"
    /\ cb_client \notin live
    /\ NextSlot
    /\ UNCHANGED <<flow, heap, exit, threads, twice>>

(* Mutant of Cleared: the slot is left as it is.                           *)
NotCleared == table

Cleared == [table EXCEPT ![cb_slot] = Null]

(* Its slot is emptied, whoever is in it by now, ...                       *)
CallbackClear ==
    /\ cb = "clear"
    /\ table' = Cleared
    /\ cb' = "free"
    /\ UNCHANGED <<live, client, flow, cb_slot, cb_client, lost, exit, threads, twice>>

(* ... and the client freed, whatever is at its address by now.  The       *)
(* handler goes on with it.                                                *)
CallbackFree ==
    /\ cb = "free"
    /\ Free(cb_client)
    /\ cb' = "store"
    /\ UNCHANGED <<table, flow, cb_slot, cb_client, lost, exit, threads, twice>>

(* Both buffers are full: the client is warned and woken.                  *)
CallbackWarn ==
    /\ cb = "store"
    /\ \E c \in Seen(cb_client) :
          /\ c.full = 2
          /\ client' = Put(cb_client, [c EXCEPT !.warning = TRUE])
    /\ WakeUp(cb_client)
    /\ NextSlot
    /\ UNCHANGED <<flow, table, live, exit, ioctl_active_count, io_mutex, idx, taken, twice>>

(* choose_bytes cannot take the samples of a client from a packet.         *)
CannotChoose(c) == ChooseFails(c.flags, adc_one_buf_size(chns))

(* Mutant of WokenWhenFull: nobody is woken.                               *)
NotWoken(a) == Awaken({})

WokenWhenFull(a) == WakeUp(a)

(* The sample is stored, and the client woken if that has filled a buffer. *)
CallbackStore ==
    /\ cb = "store"
    /\ \E c \in Seen(cb_client) :
          /\ c.full < 2
          /\ ~CannotChoose(c)
          /\ \/ UNCHANGED <<client, pc, queue>>
             \/ /\ client' = Put(cb_client, [c EXCEPT !.full = @ + 1])
                /\ WokenWhenFull(cb_client)
    /\ NextSlot
    /\ UNCHANGED <<flow, table, live, exit, ioctl_active_count, io_mutex, idx, taken, twice>>

(* choose_bytes fails, as it may for a client that has been freed, whose   *)
(* flags may read as anything, and the handler is done: goto finish.       *)
ChoiceFails ==
    cb_client \in live =>
       client[cb_client].full < 2 /\ CannotChoose(client[cb_client])

CallbackGivesUp ==
    /\ cb = "store"
    /\ ChoiceFails
    /\ cb' = "idle" /\ cb_slot' = 0 /\ cb_client' = Null /\ lost' = FALSE
    /\ UNCHANGED <<flow, heap, exit, threads, twice>>

(* The packet is E:OVERRUN: the handler deletes the device.                *)
CallbackOverrun ==
    /\ cb = "idle"
    /\ flow
    /\ teardown = "none"
    /\ teardown' = "exit"
    /\ UNCHANGED <<intfdata, exiting, teardown_slot, callback, heap, threads, twice>>

(* No packet comes any more: ad_release clears running, the URB is killed  *)
(* by flush, suspend or reset, or a transfer fails.                        *)
FlowStops ==
    /\ flow
    /\ flow' = FALSE
    /\ UNCHANGED <<cb, cb_slot, cb_client, lost, heap, exit, threads, twice>>

Callback ==
    \/ CallbackData \/ CallbackFetch \/ CallbackJudge \/ CallbackSkips \/ CallbackClear
    \/ CallbackFree \/ CallbackWarn \/ CallbackStore \/ CallbackGivesUp

-----------------------------------------------------------------------------
(* ad_disconnect: the USB core has ended the URB before it calls it, and   *)
(* waited for the handler, also for one that deletes the device.           *)
Disconnect ==
    /\ cb = "idle"
    /\ teardown = "none"
    /\ teardown' = "lock"
    /\ intfdata' = FALSE
    /\ UNCHANGED <<exiting, teardown_slot, callback, heap, threads, twice>>

(* After a deletion by the handler: the freed device may show any          *)
(* io_mutex, and ad_delete_internal finds no table.                        *)
DisconnectAgain ==
    /\ teardown = "done"
    /\ intfdata
    /\ intfdata' = FALSE
    /\ UNCHANGED <<exiting, teardown, teardown_slot, callback, heap, threads, twice>>

DisconnectLocks ==
    /\ teardown = "lock"
    /\ MutexFree
    /\ teardown' = "exit"
    /\ UNCHANGED <<intfdata, exiting, teardown_slot, callback, heap, threads, twice>>

(* ad_delete_internal: no call begins from now on, ...                     *)
DeleteExits ==
    /\ teardown = "exit"
    /\ exiting' = TRUE
    /\ teardown' = "wake"
    /\ teardown_slot' = 0
    /\ UNCHANGED <<intfdata, callback, heap, threads, twice>>

(* Mutant of WokenToExit: nobody is woken.                                 *)
NotWokenToExit(a) == Awaken({})

WokenToExit(a) == WakeUp(a)

(* ... the sleeping ones are woken, slot by slot, ...                      *)
DeleteWakes ==
    /\ teardown = "wake"
    /\ \/ table[teardown_slot] = Null /\ UNCHANGED <<pc, queue>>
       \/ table[teardown_slot] # Null /\ WokenToExit(table[teardown_slot])
    /\ IF teardown_slot + 1 = MAX_CLIENTS
       THEN teardown' = "spin" /\ teardown_slot' = 0
       ELSE teardown_slot' = teardown_slot + 1 /\ UNCHANGED teardown
    /\ UNCHANGED <<intfdata, exiting, callback, heap, ioctl_active_count, io_mutex, idx, taken, twice>>

(* Mutant of Quiet: one call may still be active.                          *)
AlmostQuiet == ioctl_active_count <= 1

Quiet == ioctl_active_count = 0

(* ... and when none is active any longer, device and clients are freed,   *)
(* those that are in the table.                                            *)
DeleteFrees ==
    /\ teardown = "spin"
    /\ Quiet
    /\ teardown' = "done"
    /\ table' = [i \in Slots |-> Null]
    /\ live' = live \ { table[i] : i \in Slots }
    /\ client' = [a \in Addresses |-> IF a \in live' THEN client[a] ELSE Null]
    /\ UNCHANGED <<intfdata, exiting, teardown_slot, callback, threads, twice>>

Delete == DisconnectLocks \/ DeleteExits \/ DeleteWakes \/ DeleteFrees

Next ==
    \/ Callback \/ CallbackOverrun \/ FlowStops \/ Disconnect \/ DisconnectAgain \/ Delete
    \/ \E t \in Threads : IoctlFindsDevice(t) \/ Ioctl(t)

Spec == Init /\ [][Next]_vars

(* The converter keeps sending as long as packets flow, threads in a call  *)
(* are scheduled, and ad_delete_internal goes on.                          *)
FairSpec ==
    /\ Spec
    /\ WF_vars(Callback)
    /\ WF_vars(Delete)
    /\ \A t \in Threads : WF_vars(Ioctl(t))

-----------------------------------------------------------------------------
(* Where a call has locked io_mutex, and where it counts as active.        *)
Locked == {"set", "taken", "insert", "get", "copy", "check"}
Active == Locked \cup {"counted", "unlocked", "asleep", "woken", "awake", "relock", "leave"}

(* Every variable has its type.                                            *)
TypeOK ==
    /\ {intfdata, exiting, flow, lost, twice} \subseteq BOOLEAN
    /\ ioctl_active_count \in 0 .. Cardinality(Threads)
    /\ io_mutex \in Threads \cup {Null}
    /\ table \in [Slots -> Addresses \cup {Null}]
    /\ live \subseteq Addresses
    /\ client \in [Addresses -> Client \cup {Null}]
    /\ cb \in {"idle", "fetch", "judge", "clear", "free", "store"}
    /\ cb_slot \in Slots
    /\ cb_client \in Addresses \cup {Null}
    /\ teardown \in {"none", "lock", "exit", "wake", "spin", "done"}
    /\ teardown_slot \in Slots
    /\ pc \in [Threads -> Active \cup {"user", "found", "oops"}]
    /\ idx \in [Threads -> Slots \cup {Null}]
    /\ queue \in [Threads -> Addresses \cup {Null}]
    /\ taken \in [Threads -> Addresses \cup {Null}]

(* The table never points to a client that has been freed, by whomever and *)
(* whatever has been allocated at its address since, and no program is     *)
(* registered twice, until handler and thread have removed the same client *)
(* at the same time, each with the pointer it had read: no lock keeps them *)
(* from it.                                                                *)
TableIsSound ==
    twice \/ \A i \in Slots :
       table[i] # Null =>
          /\ table[i] \in live
          /\ \A j \in Slots \ {i} :
                table[j] # Null => client[table[j]].pid # client[table[i]].pid

(* ad_delete_internal frees the device only when every call that has been  *)
(* counted is over, also a call that began while the flag was being set.   *)
DeviceOutlivesCalls ==
    teardown = "done" => \A t \in Threads : pc[t] \notin Active

(* A thread asleep on the queue of a client has nothing to fetch from it:  *)
(* whoever fills a buffer wakes it, whatever it was doing when it decided  *)
(* to sleep without holding a lock.                                        *)
NoLostWakeup ==
    \A t \in Threads :
       pc[t] = "asleep" /\ queue[t] \in live => client[queue[t]].full = 0

(* A client that has been warned is served or taken out of its slot before *)
(* long, unless choose_bytes fails for a client in an earlier slot, which  *)
(* has a flag other than 0 and 1 or was freed under the handler, and the   *)
(* walk ends there; the packets stop; or the device goes.                  *)
Warned(i) == table[i] \in live /\ client[table[i]].warning

SlowClientSettled ==
    \A i \in Slots :
       Warned(i) ~>
          \/ ~Warned(i)
          \/ cb = "store" /\ cb_slot < i /\ ChoiceFails
          \/ ~flow
          \/ teardown # "none"
          \/ twice

(* What ad_delete_internal may wait for in vain: a call asleep on a queue  *)
(* that it does not find in the table, because the client was removed, its *)
(* slot emptied or its address given to another one; a call that has       *)
(* crashed; or one that waits for io_mutex, which GET_DATA has kept.       *)
Stranded(t) ==
    \/ pc[t] = "oops"
    \/ pc[t] = "asleep" /\ ~\E i \in Slots : table[i] = queue[t] /\ table[i] \in live
    \/ io_mutex = t /\ pc[t] \notin Locked

(* Nothing else keeps a device that is going from being freed.             *)
DeviceIsFreed ==
    teardown # "none" ~> teardown = "done" \/ \E t \in Threads : Stranded(t)

(* While ad_delete_internal waits, for io_mutex or for the count of calls  *)
(* to reach 0, one of the calls it waits for can take a step, or one is    *)
(* stranded: no sleeper was passed over when the slots were walked, though *)
(* clients come and go meanwhile.                                          *)
CallGoesOn(t) ==
    \/ pc[t] \in {"counted", "relock"} /\ MutexFree
    \/ pc[t] \in Active \ {"counted", "relock", "asleep"}

DeletionGoesOn ==
    teardown \in {"lock", "spin"} =>
        \/ teardown = "lock" /\ MutexFree
        \/ teardown = "spin" /\ Quiet
        \/ \E t \in Threads : CallGoesOn(t) \/ Stranded(t)

-----------------------------------------------------------------------------
(* What the documentation says, and the code does not do.                  *)

(* Several programs use the driver, each for the channels it has asked for *)
(* (Wymagania_list.txt:59-61): nobody is given another program's data.     *)
OwnDataOnly ==
    \A t \in Threads :
       pc[t] = "copy" /\ Mine(t) \in live /\ client[Mine(t)].full > 0 =>
          client[Mine(t)].pid = PidOf[t]
=============================================================================
