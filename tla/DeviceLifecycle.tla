-------------------------- MODULE DeviceLifecycle --------------------------
(***************************************************************************)
(* The life of the device in the driver: ad_probe, ad_open, the start by   *)
(* ad_initialize, the URB that submits itself again in its completion      *)
(* handler, ad_flush, ad_release, suspend, reset, disconnect and unload.   *)
(*                                                                         *)
(* Each open file has one thread that issues its calls; the USB core calls *)
(* the driver from one thread of its own.  The clients are ClientTable's   *)
(* concern: here any call may find its client, and wait for it, and the    *)
(* handler and SET_PARAMS may take it away.  Of the converter there is     *)
(* left what decides which packet waits on endpoint 2.                     *)
(***************************************************************************)
EXTENDS Integers, Sequences, FiniteSets, SequencesExt

CONSTANTS
    Files,
    None,
    MaxFaults,      \* bound: failures of memory, of transfers, of the core
    MaxFailed,      \* bound: failures of ad_initialize
    MaxUses         \* bound: values of pm, which a lost stop leaves too high

ASSUME LifecycleAssumption ==
    /\ IsFiniteSet(Files)
    /\ None \notin Files /\ "core" \notin Files
    /\ None \notin {"core", "ID", "CONF", "START", "STOP", "data", "answer", "E:OVERRUN"}
    /\ MaxFaults \in Nat /\ MaxFailed \in Nat /\ MaxUses \in Nat

VARIABLES
    core,           \* what the USB core does with the driver
    dev,            \* "none", "live", "freed" or "leaked"
    intfdata,       \* the device can be found
    interface,      \* dev->interface is not NULL
    exiting,
    table,          \* gpClients_array is not NULL
    ioctl_active_count,
    open_count,
    pm,             \* uses that keep the device from autosuspend
    io_mutex,
    pc,             \* where the thread of each file is
    opened,         \* files that are open
    request,        \* the command that the holder of io_mutex is about
    running,
    reads,          \* transfers queued for endpoint 2: "urb" and "msg"
    cb,             \* where the completion handler is
    adc,            \* the converter
    faults,         \* history: failures so far
    past,           \* history: what else has gone wrong
    robbed,         \* history: calls of GET_DATA whose client is gone
    kept            \* history: one has kept io_mutex

device    == <<dev, intfdata, interface, exiting, table>>
counts    == <<ioctl_active_count, open_count, pm>>
threads   == <<io_mutex, pc, opened, request>>
transfers == <<running, reads, cb>>
clients   == <<robbed, kept>>
history   == <<faults, past, clients>>
vars      == <<core, device, counts, threads, transfers, adc, history>>

Init ==
    /\ core = "absent"
    /\ dev = "none" /\ intfdata = FALSE /\ interface = FALSE
    /\ exiting = FALSE /\ table = FALSE
    /\ ioctl_active_count = 0 /\ open_count = 0 /\ pm = 0
    /\ io_mutex = None /\ opened = {} /\ request = "ID"
    /\ pc = [f \in Files |-> "user"]
    /\ running = FALSE /\ reads = << >> /\ cb = "idle"
    /\ adc = [command |-> None,     \* received, not yet executed
              sampling |-> FALSE, ADIE |-> FALSE, overrun |-> FALSE,
              left |-> FALSE,       \* frames are left when sampling ends
              armed |-> None,       \* the packet that waits on endpoint 2
              stalled |-> FALSE]    \* endpoint 1
    /\ faults = 0
    /\ past = [failed |-> 0,        \* times that ad_initialize has failed
               stop_lost |-> FALSE, \* ad_release could not stop the converter
               cut |-> FALSE,       \* no URB was submitted while running
               undrawn |-> FALSE,   \* stopped with the URB in flight
               early |-> FALSE]     \* a call was counted before ad_probe ended
    /\ robbed = {} /\ kept = FALSE

(* A failure that only bad luck explains.                                  *)
Fault == faults < MaxFaults /\ faults' = faults + 1

Goto(f, place)   == pc' = [pc EXCEPT ![f] = place]
MutexFree        == io_mutex = None
Lock(who)        == MutexFree /\ io_mutex' = who
Unlock(f, place) == io_mutex' = None /\ Goto(f, place)

Pending == Contains(reads, "urb")

(* A transfer leaves the queue before its turn.                            *)
Withdraw(transfer) == \E i \in DOMAIN reads : reads[i] = transfer /\ reads' = RemoveAt(reads, i)

(* Someone is inside usb_kill_urb, which keeps the URB from being          *)
(* submitted and returns when it is not in flight.                         *)
Killing ==
    \/ core \in {"suspend", "drain", "disable"}
    \/ \E f \in Files : pc[f] \in {"kill", "dup_kill"}

(* Mutant of Killed: usb_unlink_urb does not wait.                        *)
KilledAtOnce == TRUE

Killed == ~Pending /\ cb \in {"idle", "deleted"}

(* The endpoints of the device can be used.                                *)
Attached  == core \notin {"disable", "detach", "delete", "gone"}
Reachable == Attached /\ core # "suspended"

-----------------------------------------------------------------------------
(* The USB core.  It calls the driver for one thing at a time.             *)

CoreGoes(from, to) == core = from /\ core' = to

(* ad_probe: in the boot configuration the device is told to change it,    *)
(* and probed again; ad_delete_internal returns at the missing table.      *)
ProbeFails ==
    /\ core = "absent"
    /\ dev' = "leaked"
    /\ UNCHANGED <<core, intfdata, interface, exiting, table, counts, threads, transfers, adc, history>>

(* Otherwise the device is allocated, and can be opened ...                *)
ProbeRegisters ==
    /\ CoreGoes("absent", "registered")
    /\ dev' = "live" /\ intfdata' = TRUE /\ interface' = TRUE
    /\ UNCHANGED <<exiting, table, counts, threads, transfers, adc, history>>

(* ... before its table is allocated, which may fail, and its counter set  *)
(* to 0.                                                                   *)
ProbeEnds ==
    /\ CoreGoes("registered", "bound")
    /\ \/ table' = TRUE /\ UNCHANGED faults
       \/ table' = FALSE /\ Fault
    /\ exiting' = FALSE
    /\ ioctl_active_count' = 0
    /\ past' = [past EXCEPT !.early = ioctl_active_count # 0]
    /\ UNCHANGED <<dev, intfdata, interface, open_count, pm, threads, transfers, adc, clients>>

(* ad_suspend, without a lock: automatic when nobody uses the device, or   *)
(* with the whole system, when no thread is inside a call.                 *)
Suspend ==
    /\ pm = 0 \/ \A f \in Files : pc[f] = "user"
    /\ CoreGoes("bound", "suspend")
    /\ UNCHANGED <<device, counts, threads, transfers, adc, history>>

Suspended ==
    /\ Killed
    /\ CoreGoes("suspend", "suspended")
    /\ past' = [past EXCEPT !.cut = @ \/ running]
    /\ UNCHANGED <<device, counts, threads, transfers, adc, faults, clients>>

(* ad_resume starts nothing.                                               *)
Resume ==
    /\ CoreGoes("suspended", "bound")
    /\ UNCHANGED <<device, counts, threads, transfers, adc, history>>

(* ad_pre_reset keeps io_mutex until ad_post_reset.                        *)
PreReset ==
    /\ CoreGoes("bound", "drain")
    /\ dev # "freed"
    /\ Lock("core")
    /\ UNCHANGED <<device, counts, pc, opened, request, transfers, adc, history>>

(* The reset and the configuration that follows it clear the endpoints of  *)
(* the converter, and leave its ring and its interrupt alone.  They last   *)
(* longer than a turn of its main loop.                                    *)
PostReset ==
    /\ Killed
    /\ adc.command = None
    /\ CoreGoes("drain", "bound")
    /\ io_mutex' = None
    /\ adc' = [adc EXCEPT !.armed = None, !.stalled = FALSE]
    /\ past' = [past EXCEPT !.cut = @ \/ running]
    /\ UNCHANGED <<device, counts, pc, opened, request, transfers, faults, clients>>

(* usb_ad_exit frees the table before it deregisters the driver.  The      *)
(* module cannot be unloaded while a file is open.                         *)
Unload ==
    /\ opened = {} /\ \A f \in Files : pc[f] = "user"
    /\ CoreGoes("bound", "unload")
    /\ table' = FALSE
    /\ UNCHANGED <<dev, intfdata, interface, exiting, counts, threads, transfers, adc, history>>

Deregister ==
    /\ CoreGoes("unload", "disable")
    /\ UNCHANGED <<device, counts, threads, transfers, adc, history>>

(* The device is unplugged: its URB ends before ad_disconnect is called.   *)
Unplug ==
    /\ CoreGoes("bound", "disable")
    /\ UNCHANGED <<device, counts, threads, transfers, adc, history>>

Disconnect ==
    /\ Killed
    /\ CoreGoes("disable", "detach")
    /\ intfdata' = FALSE
    /\ UNCHANGED <<dev, interface, exiting, table, counts, threads, transfers, adc, history>>

(* Mutant of Exiting: the calls are not told to end.                       *)
NotExiting == exiting

Exiting == TRUE

Detach ==
    /\ dev # "freed" /\ MutexFree
    /\ CoreGoes("detach", "delete")
    /\ interface' = FALSE /\ exiting' = Exiting
    /\ UNCHANGED <<dev, intfdata, table, counts, threads, transfers, adc, history>>

(* Mutant of NoCalls: the calls that are under way are not waited for.     *)
CallsIgnored == TRUE

NoCalls == ioctl_active_count = 0

(* ad_delete_internal: it waits for the active calls, not for open files.  *)
Deletes ==
    /\ table => NoCalls
    /\ dev' = IF table THEN "freed" ELSE "leaked"
    /\ table' = FALSE

Delete ==
    /\ CoreGoes("delete", "gone")
    /\ Deletes
    /\ UNCHANGED <<intfdata, interface, exiting, counts, threads, transfers, adc, history>>

Event == ProbeFails \/ ProbeRegisters \/ Suspend \/ PreReset \/ Unload \/ Unplug
Core  ==
    \/ ProbeEnds \/ Suspended \/ Resume \/ PostReset \/ Deregister \/ Disconnect \/ Detach \/ Delete

-----------------------------------------------------------------------------
(* The URB.                                                                *)

(* ad_do_read_io fills the URB and submits it.  That fails when somebody   *)
(* is killing the URB, when it is in flight already, when the endpoint is  *)
(* gone, and for want of memory.                                           *)
Submittable == Reachable /\ ~Killing /\ ~Pending

DoReadIo ==
    \/ /\ Submittable
       /\ reads' = Append(reads, "urb")
       /\ past' = [past EXCEPT !.cut = FALSE]
       /\ UNCHANGED faults
    \/ /\ IF Submittable THEN Fault ELSE UNCHANGED faults
       /\ past' = [past EXCEPT !.cut = ~Pending]
       /\ UNCHANGED reads

(* Mutant of Resubmits: "if there are clients", as its comment says.       *)
ResubmitsWhileOpen == open_count > 0

Resubmits == running

(* ad_read_bulk_callback after the clients have been served.               *)
CallbackFinish ==
    /\ cb = "finish"
    /\ cb' = "idle"
    /\ IF Resubmits THEN DoReadIo ELSE UNCHANGED <<reads, faults, past>>
    /\ UNCHANGED <<core, device, counts, threads, running, adc, clients>>

(* On E:OVERRUN the handler deletes the device, and never gives err_lock   *)
(* back.                                                                   *)
CallbackDeletes ==
    /\ cb = "delete"
    /\ cb' = "deleted"
    /\ Deletes
    /\ UNCHANGED <<core, intfdata, interface, exiting, counts, threads, running, reads, adc, history>>

(* The transfer fails, or is ended by usb_kill_urb.                        *)
UrbEnds ==
    /\ Pending /\ cb = "idle"
    /\ IF Killing THEN UNCHANGED faults ELSE Fault
    /\ Withdraw("urb")
    /\ cb' = "finish"
    /\ UNCHANGED <<core, device, counts, threads, running, adc, past, clients>>

Callback == CallbackFinish \/ CallbackDeletes \/ UrbEnds

-----------------------------------------------------------------------------
(* ad_open.                                                                *)

Opening(f) == pc[f] = "user" /\ f \notin opened /\ intfdata /\ dev # "freed" /\ MutexFree

(* The first one to open keeps the device awake, or wakes it.              *)
Open(f) ==
    /\ Opening(f)
    /\ open_count = 0 => core \notin {"suspend", "suspended"} /\ pm < MaxUses
    /\ open_count' = open_count + 1
    /\ pm' = IF open_count = 0 THEN pm + 1 ELSE pm
    /\ opened' = opened \cup {f}
    /\ UNCHANGED <<core, device, ioctl_active_count, io_mutex, pc, request, transfers, adc, history>>

(* Mutant of CountedBack: the counter is left as it was increased.         *)
NotCountedBack == open_count + 1

CountedBack == open_count

OpenFails(f) ==
    /\ Opening(f)
    /\ open_count = 0
    /\ Fault
    /\ open_count' = CountedBack
    /\ UNCHANGED <<core, device, ioctl_active_count, pm, threads, transfers, adc, past, clients>>

-----------------------------------------------------------------------------
(* ad_ioctl.                                                               *)

IoctlCounted(f) ==
    /\ pc[f] = "user" /\ f \in opened
    /\ intfdata /\ dev # "freed" /\ ~exiting
    /\ ioctl_active_count' = ioctl_active_count + 1
    /\ Goto(f, "counted")
    /\ UNCHANGED <<core, device, open_count, pm, io_mutex, opened, request, transfers, adc, history>>

(* Mutant of Leave: the call stays counted.                                *)
LeaveCounted(f) ==
    /\ io_mutex' = None
    /\ UNCHANGED ioctl_active_count
    /\ Goto(f, "user")

(* The end of a call.                                                      *)
Leave(f) ==
    /\ io_mutex' = None
    /\ ioctl_active_count' = ioctl_active_count - 1
    /\ Goto(f, "user")

Looks(f) == pc[f] = "counted" /\ dev # "freed" /\ MutexFree

Initializes(f) == Looks(f) /\ table /\ intfdata /\ past.failed < MaxFailed

(* The call looks for its client in a table that is not there.             *)
IoctlCrashes(f) ==
    /\ Looks(f)
    /\ ~table
    /\ Lock(f)
    /\ Goto(f, "oops")
    /\ UNCHANGED <<core, device, counts, opened, request, transfers, adc, history>>

(* A call that is refused, before or after it has locked io_mutex, or has  *)
(* an unknown command.                                                     *)
IoctlRefused(f) ==
    /\ pc[f] = "counted" /\ dev # "freed"
    /\ ioctl_active_count' = ioctl_active_count - 1
    /\ Goto(f, "user")
    /\ UNCHANGED <<core, device, open_count, pm, io_mutex, opened, request, transfers, adc, history>>

(* Clients are removed that calls of GET_DATA are waiting for.             *)
Robs == \E S \in SUBSET { f \in Files : pc[f] \in {"asleep", "relock"} } : robbed' = robbed \cup S

(* SET_PARAMS removes the client of its program, and fails to make a new   *)
(* one, or ad_initialize finds the device gone or running.                 *)
SetParams(f) ==
    /\ Looks(f)
    /\ table
    /\ Leave(f)
    /\ Robs
    /\ UNCHANGED <<core, device, open_count, pm, opened, request, transfers, adc, faults, past, kept>>

(* GET_DATA gives io_mutex back and waits for data, which it may have.     *)
GetDataSleeps(f) ==
    /\ Looks(f)
    /\ table /\ open_count # 0
    /\ Goto(f, "asleep")
    /\ UNCHANGED <<core, device, counts, io_mutex, opened, request, transfers, adc, history>>

Served(f) == robbed' = robbed \ {f}

(* It ends at once when the device is going, ...                           *)
GetDataExits(f) ==
    /\ pc[f] = "asleep" /\ dev # "freed"
    /\ exiting
    /\ ioctl_active_count' = ioctl_active_count - 1
    /\ Goto(f, "user")
    /\ Served(f)
    /\ UNCHANGED <<core, device, open_count, pm, io_mutex, opened, request, transfers, adc, faults, past, kept>>

GetDataWoken(f) ==
    /\ pc[f] = "asleep" /\ dev # "freed"
    /\ ~exiting
    /\ Goto(f, "relock")
    /\ UNCHANGED <<core, device, counts, io_mutex, opened, request, transfers, adc, history>>

(* ... locks io_mutex again and copies the data, ...                       *)
GetDataEnds(f) ==
    /\ pc[f] = "relock" /\ dev # "freed" /\ MutexFree
    /\ Leave(f)
    /\ Served(f)
    /\ UNCHANGED <<core, device, open_count, pm, opened, request, transfers, adc, faults, past, kept>>

(* ... or finds its client gone, and keeps io_mutex.                       *)
GetDataKeeps(f) ==
    /\ pc[f] = "relock" /\ dev # "freed" /\ MutexFree
    /\ f \in robbed
    /\ Lock(f)
    /\ ioctl_active_count' = ioctl_active_count - 1
    /\ Goto(f, "user")
    /\ Served(f)
    /\ kept' = TRUE
    /\ UNCHANGED <<core, device, open_count, pm, opened, request, transfers, adc, faults, past>>

(* It may also follow the NULL that it finds in its slot.                  *)
GetDataCrashes(f) ==
    /\ dev # "freed"
    /\ f \in robbed
    /\ \/ pc[f] = "asleep" /\ UNCHANGED io_mutex
       \/ pc[f] = "relock" /\ Lock(f)
    /\ Goto(f, "oops")
    /\ Served(f)
    /\ UNCHANGED <<core, device, counts, opened, request, transfers, adc, faults, past, kept>>

(* A failure of ad_initialize counts the file as closed.                   *)
InitializeFails(f) ==
    /\ open_count' = open_count - 1
    /\ past' = [past EXCEPT !.failed = @ + 1]
    /\ Leave(f)
    /\ UNCHANGED <<core, device, pm, opened, request, running, cb, adc, kept>>

(* SET_PARAMS calls ad_initialize, which allocates memory first ...        *)
InitializeNoMemory(f) ==
    /\ Initializes(f)
    /\ Fault
    /\ InitializeFails(f)
    /\ Robs
    /\ UNCHANGED reads

(* ... and starts a device that is not running.                            *)
InitializeStarts(f) ==
    /\ Initializes(f)
    /\ ~running
    /\ Lock(f)
    /\ Goto(f, "send")
    /\ request' = "ID"
    /\ Robs
    /\ UNCHANGED <<core, device, counts, opened, transfers, adc, faults, past, kept>>

(* usb_bulk_msg sends the command: it waits until the converter has dealt  *)
(* with the last one, fails when endpoint 1 is stalled, or just fails.     *)
Sends(f) ==
    /\ pc[f] = "send"
    /\ Reachable /\ ~adc.stalled /\ adc.command = None
    /\ adc' = [adc EXCEPT !.command = request]

SendFails(f) ==
    /\ pc[f] = "send"
    /\ IF Reachable /\ ~adc.stalled THEN Fault ELSE UNCHANGED faults

(* A second usb_bulk_msg waits for the answer, behind the URB if that is   *)
(* queued.                                                                 *)
Asks(f) == reads' = Append(reads, "msg") /\ Goto(f, "wait")

InitializeSends(f) ==
    /\ request \in {"ID", "CONF"}
    /\ Sends(f)
    /\ Asks(f)
    /\ UNCHANGED <<core, device, counts, io_mutex, opened, request, running, cb, history>>

InitializeSendFails(f) ==
    /\ request # "STOP"
    /\ SendFails(f)
    /\ InitializeFails(f)
    /\ UNCHANGED <<reads, robbed>>

(* The converter has nothing to send.                                      *)
Quiet ==
    /\ adc.armed = None /\ adc.command = None
    /\ ~adc.overrun /\ ~adc.ADIE /\ ~adc.left

NoAnswer(f) ==
    /\ pc[f] = "wait"
    /\ IF Quiet \/ ~Reachable THEN UNCHANGED faults ELSE Fault
    /\ Withdraw("msg")

InitializeNoAnswer(f) ==
    /\ request # "STOP"
    /\ NoAnswer(f)
    /\ InitializeFails(f)
    /\ UNCHANGED robbed

(* Whatever is received counts as the answer.                              *)
InitializeAnswered(f) ==
    /\ request # "STOP"
    /\ request' = IF request = "ID" THEN "CONF" ELSE "START"
    /\ Goto(f, "send")
    /\ UNCHANGED <<io_mutex, pm>>

(* The answer to ADC_START is left to the URB.                             *)
InitializeRuns(f) ==
    /\ request = "START"
    /\ Sends(f)
    /\ running' = TRUE
    /\ Goto(f, "submit")
    /\ UNCHANGED <<core, device, counts, io_mutex, opened, request, reads, cb, history>>

InitializeReads(f) ==
    /\ pc[f] = "submit"
    /\ DoReadIo
    /\ Leave(f)
    /\ UNCHANGED <<core, device, open_count, pm, opened, request, running, cb, adc, clients>>

Ioctl(f) ==
    \/ IoctlCrashes(f) \/ IoctlRefused(f) \/ SetParams(f)
    \/ GetDataSleeps(f) \/ GetDataExits(f) \/ GetDataWoken(f) \/ GetDataEnds(f)
    \/ GetDataKeeps(f) \/ GetDataCrashes(f)
    \/ InitializeNoMemory(f) \/ InitializeStarts(f)
    \/ InitializeSends(f) \/ InitializeSendFails(f) \/ InitializeNoAnswer(f) \/ InitializeRuns(f)
    \/ InitializeReads(f)

-----------------------------------------------------------------------------
(* ad_flush, called for each descriptor of the file that is closed, and    *)
(* ad_release, called with the last one.                                   *)

Closing(f) == pc[f] = "user" /\ f \in opened /\ dev # "freed" /\ MutexFree

Flush(f) ==
    /\ Closing(f)
    /\ open_count # 1
    /\ Goto(f, "release")
    /\ UNCHANGED <<core, device, counts, io_mutex, opened, request, transfers, adc, history>>

(* The last file to be open draws down the transfers first: "dup_kill" if  *)
(* another descriptor of the file is left.                                 *)
FlushLast(f) ==
    /\ Closing(f)
    /\ open_count = 1
    /\ Lock(f)
    /\ \E place \in {"kill", "dup_kill"} : Goto(f, place)
    /\ UNCHANGED <<core, device, counts, opened, request, transfers, adc, history>>

(* The anchor is always empty; usb_kill_urb has ended the URB.             *)
FlushEnds(f) ==
    /\ pc[f] \in {"dup_kill", "kill"}
    /\ Killed
    /\ dev # "freed"
    /\ Unlock(f, IF pc[f] = "dup_kill" THEN "user" ELSE "release")
    /\ past' = [past EXCEPT !.cut = @ \/ running]
    /\ UNCHANGED <<core, device, counts, opened, request, transfers, adc, faults, clients>>

Released(f) ==
    /\ pc[f] = "release"
    /\ dev # "freed" /\ MutexFree
    /\ open_count' = open_count - 1
    /\ opened' = opened \ {f}
    /\ UNCHANGED <<core, device, ioctl_active_count, pm, transfers, adc, clients>>

(* Mutant of OnlyOpener: tested before the counter is decreased.           *)
NoOpener == open_count = 0 /\ interface

OnlyOpener == open_count = 1 /\ interface

Release(f) ==
    /\ Released(f)
    /\ ~OnlyOpener
    /\ Goto(f, "user")
    /\ UNCHANGED <<io_mutex, request, faults, past>>

(* The last one stops the converter, if there is memory for the command.   *)
ReleaseNoMemory(f) ==
    /\ Released(f)
    /\ OnlyOpener
    /\ Fault
    /\ Goto(f, "user")
    /\ past' = [past EXCEPT !.stop_lost = TRUE]
    /\ UNCHANGED <<io_mutex, request>>

ReleaseLast(f) ==
    /\ Released(f)
    /\ OnlyOpener
    /\ Lock(f)
    /\ Goto(f, "send")
    /\ request' = "STOP"
    /\ past' = [past EXCEPT !.undrawn = ~Killed]
    /\ UNCHANGED faults

(* Mutant of AfterStop: the flag is left as it is.                         *)
StillRunning == running

AfterStop == FALSE

ReleaseSends(f) ==
    /\ request = "STOP"
    /\ Sends(f)
    /\ running' = AfterStop
    /\ Asks(f)
    /\ UNCHANGED <<core, device, counts, io_mutex, opened, request, cb, history>>

ReleaseSendFails(f) ==
    /\ request = "STOP"
    /\ SendFails(f)
    /\ running' = AfterStop
    /\ past' = [past EXCEPT !.stop_lost = TRUE]
    /\ Unlock(f, "user")
    /\ UNCHANGED <<core, device, counts, opened, request, reads, cb, adc, clients>>

(* With or without an answer the device may sleep again.                   *)
ReleaseEnds(f) ==
    /\ request = "STOP"
    /\ pm' = pm - 1
    /\ Unlock(f, "user")
    /\ UNCHANGED request

ReleaseNoAnswer(f) ==
    /\ NoAnswer(f)
    /\ ReleaseEnds(f)
    /\ UNCHANGED <<core, device, ioctl_active_count, open_count, opened, running, cb, adc, past, clients>>

Closes(f) ==
    \/ FlushEnds(f) \/ Release(f) \/ ReleaseNoMemory(f) \/ ReleaseLast(f)
    \/ ReleaseSends(f) \/ ReleaseSendFails(f) \/ ReleaseNoAnswer(f)

(* A call follows a pointer to the device when that has been freed; one    *)
(* that waits for an answer does so when it has waited long enough.        *)
UsesFreed(f) ==
    /\ dev = "freed"
    /\ pc[f] # "oops"
    /\ pc[f] = "user" => f \in opened \/ intfdata
    /\ IF pc[f] = "wait" THEN Withdraw("msg") ELSE UNCHANGED reads
    /\ Goto(f, "oops")
    /\ UNCHANGED <<core, device, counts, io_mutex, opened, request, running, cb, adc, history>>

Begin(f)    == Open(f) \/ OpenFails(f) \/ IoctlCounted(f) \/ Flush(f) \/ FlushLast(f)
Continue(f) == Ioctl(f) \/ Closes(f) \/ UsesFreed(f)

-----------------------------------------------------------------------------
(* The converter, and the host controller that polls endpoint 2.           *)

(* An answer that overwrites a packet not yet taken gets the wrong data    *)
(* toggle, and both are lost.                                              *)
Answering ==
    [adc EXCEPT !.command = None, !.armed = IF @ = None THEN "answer" ELSE None]
Stalling  == [adc EXCEPT !.command = None, !.stalled = TRUE]

Executes ==
    /\ \/ adc.command = "ID" /\ adc' = Answering
       \/ adc.command = "CONF" /\ adc' = IF adc.sampling THEN Stalling ELSE Answering
       \/ adc.command = "START" /\ adc' = IF adc.sampling THEN Stalling
                                          ELSE [Answering EXCEPT !.sampling = TRUE, !.ADIE = TRUE,
                                                    !.overrun = FALSE, !.left = FALSE]
       \/ adc.command = "STOP" /\ adc' = [Answering EXCEPT !.sampling = FALSE, !.ADIE = FALSE,
                                              !.left = @ \/ adc.ADIE]
    /\ UNCHANGED <<core, device, counts, threads, transfers, history>>

ArmsData ==
    /\ adc.ADIE \/ adc.left
    /\ adc.armed = None /\ ~adc.overrun
    /\ \E left \in {FALSE, adc.left} : adc' = [adc EXCEPT !.armed = "data", !.left = left]
    /\ UNCHANGED <<core, device, counts, threads, transfers, history>>

Overruns ==
    /\ adc.ADIE
    /\ Fault
    /\ adc' = [adc EXCEPT !.ADIE = FALSE, !.overrun = TRUE, !.left = TRUE]
    /\ UNCHANGED <<core, device, counts, threads, transfers, past, clients>>

ArmsOverrun ==
    /\ adc.overrun /\ adc.armed = None
    /\ adc' = [adc EXCEPT !.armed = "E:OVERRUN", !.overrun = FALSE]
    /\ UNCHANGED <<core, device, counts, threads, transfers, history>>

Converter == Attached /\ (Executes \/ ArmsData \/ Overruns \/ ArmsOverrun)

Taken == reads # << >> /\ adc.armed # None /\ Reachable /\ adc' = [adc EXCEPT !.armed = None]

AnswersThread ==
    /\ Taken
    /\ Head(reads) = "msg"
    /\ reads' = Tail(reads)
    /\ InitializeAnswered(io_mutex) \/ ReleaseEnds(io_mutex)
    /\ UNCHANGED <<core, device, ioctl_active_count, open_count, opened, running, cb, history>>

(* The completion handler: data are dealt out to the table of clients, of  *)
(* which some may be removed.                                              *)
CompletesUrb ==
    /\ Taken
    /\ Head(reads) = "urb" /\ cb = "idle"
    /\ reads' = Tail(reads)
    /\ cb' = CASE adc.armed = "E:OVERRUN" -> "delete"
               [] adc.armed = "data" /\ ~table -> "oops"
               [] OTHER -> "finish"
    /\ exiting' = (exiting \/ adc.armed = "E:OVERRUN")
    /\ IF adc.armed = "data" /\ table THEN Robs ELSE UNCHANGED robbed
    /\ UNCHANGED <<core, dev, intfdata, interface, table, counts, threads, running, faults, past, kept>>

Host == AnswersThread \/ CompletesUrb

Next == Event \/ Core \/ Callback \/ (\E f \in Files : Begin(f) \/ Continue(f)) \/ Converter \/ Host

Spec == Init /\ [][Next]_vars

-----------------------------------------------------------------------------
Cores == {"absent", "registered", "bound", "suspend", "suspended", "drain", "unload", "disable",
          "detach", "delete", "gone"}
Places == {"user", "counted", "asleep", "relock", "send", "wait", "submit", "kill", "dup_kill",
           "release", "oops"}

(* Every variable has its type; no more calls are counted than there are   *)
(* threads to make them.                                                   *)
TypeOK ==
    /\ core \in Cores
    /\ dev \in {"none", "live", "freed", "leaked"}
    /\ {intfdata, interface, exiting, table, running} \subseteq BOOLEAN
    /\ ioctl_active_count \in -Cardinality(Files) .. Cardinality(Files)
    /\ open_count \in -MaxFailed .. Cardinality(Files)
    /\ pm \in 0 .. MaxUses
    /\ io_mutex \in Files \cup {None, "core"}
    /\ pc \in [Files -> Places]
    /\ opened \subseteq Files
    /\ request \in {"ID", "CONF", "START", "STOP"}
    /\ reads \in Seq({"urb", "msg"}) /\ Len(reads) <= 2
    /\ cb \in {"idle", "finish", "delete", "deleted", "oops"}
    /\ adc \in [command : {None, "ID", "CONF", "START", "STOP"}, sampling : BOOLEAN, ADIE : BOOLEAN,
                overrun : BOOLEAN, left : BOOLEAN, armed : {None, "data", "answer", "E:OVERRUN"},
                stalled : BOOLEAN]
    /\ faults \in 0 .. MaxFaults
    /\ past \in [failed : 0 .. MaxFailed, stop_lost : BOOLEAN, cut : BOOLEAN, undrawn : BOOLEAN,
                 early : BOOLEAN]
    /\ robbed \subseteq Files /\ kept \in BOOLEAN

(* open_count is the number of open files, less one for every time that    *)
(* ad_initialize has failed.                                               *)
OpenersCounted == open_count + past.failed = Cardinality(opened)

(* ad_do_read_io does not clear the buffer and refill the URB while they   *)
(* are in use, unless ad_release stopped the device with the URB in        *)
(* flight: when two files are closed at once, both flushes see two         *)
(* openers.                                                                *)
UrbNotRefilled ==
    (cb = "finish" /\ running) \/ (\E f \in Files : pc[f] = "submit")
        => ~Pending \/ past.undrawn

(* While running is set the URB is in flight, or on its way back there,    *)
(* except after ad_draw_down or a submission that failed, which nothing    *)
(* but the last close repairs.                                             *)
FlowKept ==
    running => \/ Pending \/ cb # "idle" \/ past.cut
               \/ \E f \in Files : pc[f] = "submit"

(* running is set only for a converter that samples, or has been told to.  *)
RunningMeansSampling == running => adc.sampling \/ adc.command = "START"

AtRest == \A f \in Files : pc[f] = "user"

(* When the last file is closed the converter stops and the device may     *)
(* sleep, unless the stop was lost or a failed start has upset open_count. *)
StoppedWhenClosed ==
    opened = {} /\ AtRest /\ Attached /\ adc.command = None
        => (~adc.ADIE /\ ~running /\ pm = 0) \/ past.stop_lost \/ past.failed > 0

InIoctl(f) ==
    \/ pc[f] \in {"counted", "asleep", "relock", "submit"}
    \/ pc[f] \in {"send", "wait"} /\ request # "STOP"

(* When the device is freed no call that was counted is under way, and the *)
(* URB is not in flight, unless it was submitted twice (UrbNotRefilled).   *)
(* When ad_probe has set the count of calls back it proves nothing.        *)
NothingLeftBehind ==
    dev = "freed" /\ ~past.early =>
        /\ \A f \in Files : ~InIoctl(f)
        /\ past.undrawn \/ (~Pending /\ cb \in {"idle", "deleted"})

(* The completion handler follows the table of clients only while there is *)
(* one.  A module is unloaded with the URB in flight only after a close    *)
(* that did not stop it.                                                   *)
HandlerHasTable == cb = "oops" => past.undrawn \/ past.stop_lost \/ past.failed > 0

(* The driver is inside a call, of a thread or of the USB core; one that   *)
(* sleeps until there are data does not count, for there may be none.      *)
Busy ==
    \/ \E f \in Files : pc[f] # "user" /\ ~(pc[f] = "asleep" /\ ~exiting)
    \/ core \notin {"absent", "bound", "gone"}

(* It may be so for ever when a call has crashed, sleeps on a client that  *)
(* is gone when the device goes, or has kept io_mutex, when the handler    *)
(* has taken it upon itself to delete the device, or ad_probe has reset    *)
(* the count of calls.                                                     *)
Broken ==
    \/ \E f \in Files : pc[f] = "oops"
    \/ \E f \in robbed : pc[f] = "asleep" /\ exiting
    \/ kept
    \/ cb \in {"delete", "deleted", "oops"}
    \/ past.early

(* Who can take a step, although nothing fails by bad luck.                *)
CoreGoesOn ==
    \/ core \in {"registered", "suspended", "unload"}
    \/ core \in {"suspend", "disable"} /\ Killed
    \/ core = "drain" /\ Killed /\ adc.command = None
    \/ core = "detach" /\ dev # "freed" /\ MutexFree
    \/ core = "delete" /\ (table => NoCalls)

HandlerGoesOn == cb = "finish" \/ (cb = "idle" /\ Pending /\ Killing)

ConverterGoesOn ==
    /\ Attached
    /\ \/ adc.command # None
       \/ Contains(reads, "msg") /\ adc.armed = None /\ (adc.ADIE \/ adc.left \/ adc.overrun)

HostGoesOn == reads # << >> /\ adc.armed # None /\ Reachable /\ (Head(reads) = "urb" => cb = "idle")

CallGoesOn(f) ==
    \/ pc[f] \notin {"user", "asleep", "oops"} /\ dev = "freed"
    \/ pc[f] \in {"counted", "relock", "release"} /\ MutexFree
    \/ pc[f] = "asleep" /\ exiting /\ f \notin robbed
    \/ pc[f] = "send" /\ (Reachable /\ ~adc.stalled => adc.command = None)
    \/ pc[f] = "wait" /\ (Quiet \/ ~Reachable)
    \/ pc[f] \in {"kill", "dup_kill"} /\ Killed
    \/ pc[f] = "submit"

(* Calls, suspend, reset, disconnect, handler and converter do not wait    *)
(* for each other in a circle, over io_mutex, usb_kill_urb, the command    *)
(* that is not yet executed and the count of calls: somebody can go on,    *)
(* and needs no failure to do so that only bad luck explains (Fault).      *)
NobodyStuck ==
    Busy => \/ CoreGoesOn \/ HandlerGoesOn \/ ConverterGoesOn \/ HostGoesOn
            \/ \E f \in Files : CallGoesOn(f)
            \/ Broken
=============================================================================
