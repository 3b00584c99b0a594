----------------------- MODULE DeviceLifecycleProofs -----------------------
(***************************************************************************)
(* Proofs about DeviceLifecycle for any number of files and all bounds.    *)
(***************************************************************************)
EXTENDS DeviceLifecycle, FiniteSetTheorems, SequenceTheorems, TLAPS

-----------------------------------------------------------------------------
(* The invariant.                                                          *)

Transfers == {"urb", "msg"}
Commands  == {"ID", "CONF", "START", "STOP"}

Converters ==
    [command : {None} \cup Commands, sampling : BOOLEAN, ADIE : BOOLEAN, overrun : BOOLEAN,
     left : BOOLEAN, armed : {None, "data", "answer", "E:OVERRUN"}, stalled : BOOLEAN]

Histories ==
    [failed : 0 .. MaxFailed, stop_lost : BOOLEAN, cut : BOOLEAN, undrawn : BOOLEAN, early : BOOLEAN]

(* The types, without the bounds of what is counted.                       *)
Typed ==
    /\ core \in Cores
    /\ dev \in {"none", "live", "freed", "leaked"}
    /\ {intfdata, interface, exiting, table, running} \subseteq BOOLEAN
    /\ ioctl_active_count \in Int /\ open_count \in Int
    /\ pm \in 0 .. MaxUses
    /\ io_mutex \in Files \cup {None, "core"}
    /\ pc \in [Files -> Places]
    /\ opened \subseteq Files
    /\ request \in Commands
    /\ reads \in Seq(Transfers)
    /\ cb \in {"idle", "finish", "delete", "deleted", "oops"}
    /\ adc \in Converters
    /\ faults \in 0 .. MaxFaults
    /\ past \in Histories

(* The holder of io_mutex.                                                 *)
Exclusive ==
    /\ \A f \in Files : pc[f] \in {"send", "wait", "submit", "kill", "dup_kill"} => io_mutex = f
    /\ core = "drain" => io_mutex = "core"

(* No transfer is queued twice, and an answer is waited for by a thread.   *)
OneOfEach(s) == \A i, j \in DOMAIN s : s[i] = s[j] => i = j

Queued ==
    /\ OneOfEach(reads)
    /\ Contains(reads, "msg") <=> \E f \in Files : pc[f] = "wait"

Sending(f)  == pc[f] \in {"send", "wait"}
Starting(f) == Sending(f) /\ request # "STOP"
Stopping(f) == Sending(f) /\ request = "STOP"
Crashed(f)  == pc[f] = "oops"

(* A start begins with a device that is not running, and can fail; it ends *)
(* with one that is.  No answer is waited for while the device runs.       *)
StartsStopped ==
    \A f \in Files :
       /\ Starting(f) => ~running /\ past.failed < MaxFailed
       /\ pc[f] = "submit" => running
       /\ pc[f] = "wait" => ~running

(* A file is open while it is used.                                        *)
InUse ==
    \A f \in Files : InIoctl(f) \/ pc[f] \in {"kill", "dup_kill", "release"} => f \in opened

(* What is left of a device, and when.                                     *)
Departed == core \in {"delete", "gone"}

Detached ==
    /\ ~interface => core = "absent" \/ Departed
    /\ core = "absent" => ~intfdata /\ opened = {}
    /\ core = "detach" => ~intfdata
    /\ Departed =>
         /\ ~interface /\ ~intfdata
         /\ \A f \in Files : pc[f] \notin {"send", "wait", "submit"}
    /\ ~Attached /\ core # "disable" => Killed
    /\ dev = "freed" => cb = "deleted" \/ core = "gone"

(* The URB is not in flight, nor in its handler, when a start submits it.  *)
Drawn ==
    \/ past.undrawn
    \/ /\ cb \in {"finish", "delete", "oops"} => ~Pending
       /\ ~running \/ (\E f \in Files : pc[f] = "submit" \/ Stopping(f)) => Killed

(* What the converter does when running is set, and when it is not.        *)
Commanded ==
    /\ running => adc.command \in {None, "START"} /\ (adc.sampling \/ adc.command = "START")
    /\ adc.command = "START" => running \/ past.stop_lost
    /\ adc.ADIE => running \/ adc.command = "STOP" \/ past.stop_lost

Upset == past.stop_lost \/ past.failed > 0

(* The uses of pm.                                                         *)
Awake ==
    /\ open_count >= 1 \/ (\E f \in Files : Stopping(f)) => pm >= 1
    /\ (\E f \in Files : Stopping(f)) => open_count <= 0
    /\ Upset \/ Departed \/ (\E f \in Files : Crashed(f))
          \/ (pm <= 1 /\ (pm = 1 => open_count >= 1 \/ \E f \in Files : Stopping(f)))

(* A device that runs is open, or being stopped.                           *)
RunningOpen ==
    running => opened # {} \/ Upset \/ Departed \/ \E f \in Files : Stopping(f) \/ Crashed(f)

(* The table is allocated at the end of ad_probe; the calls are told to    *)
(* end before ad_disconnect waits for them.                                *)
Probed ==
    /\ core \in {"absent", "registered"} => ~table
    /\ core = "delete" => exiting

(* Without a table nothing is started or under way.                        *)
TableGone ==
    \/ table \/ cb = "deleted" \/ core = "gone"
    \/ /\ \A f \in Files : ~Starting(f) /\ pc[f] # "submit"
       /\ past.undrawn \/ Upset \/ Killed

Calls == { f \in Files : InIoctl(f) }
Dead  == { f \in Files : Crashed(f) }

(* The calls that are counted.                                             *)
CallsCounted ==
    /\ past.early \/ Cardinality(Calls) <= ioctl_active_count
    /\ Cardinality(Calls) - Cardinality(Files) <= ioctl_active_count
    /\ ioctl_active_count <= Cardinality(Calls \cup Dead)
    /\ core \in {"absent", "registered"} => ~past.early

(* What has happened to the clients.                                       *)
Lost == robbed \subseteq Files /\ kept \in BOOLEAN

LifeInv ==
    /\ Typed /\ Lost
    /\ Exclusive /\ Queued /\ StartsStopped /\ InUse
    /\ Detached /\ Drawn /\ Commanded /\ FlowKept
    /\ OpenersCounted /\ Awake /\ RunningOpen
    /\ Probed /\ TableGone /\ HandlerHasTable
    /\ CallsCounted /\ NothingLeftBehind
-----------------------------------------------------------------------------
(* The queue of transfers.                                                 *)

(* A transfer is queued behind the others.                                 *)
LEMMA QueuedBehind ==
    ASSUME NEW s \in Seq(Transfers), NEW x \in Transfers, OneOfEach(s), ~Contains(s, x)
    PROVE  /\ Append(s, x) \in Seq(Transfers)
           /\ OneOfEach(Append(s, x))
           /\ \A y : Contains(Append(s, x), y) <=> Contains(s, y) \/ y = x
<1> DEFINE t == Append(s, x)
<1>1. /\ t \in Seq(Transfers) /\ Len(s) \in Nat /\ Len(t) = Len(s) + 1
      /\ \A i \in 1 .. Len(s) : t[i] = s[i]
      /\ t[Len(s) + 1] = x
      /\ DOMAIN s = 1 .. Len(s) /\ DOMAIN t = 1 .. Len(t)
    OBVIOUS
<1> HIDE DEF t
<1>2. \A y : Contains(t, y) <=> Contains(s, y) \/ y = x
    BY <1>1 DEF Contains
<1>3. OneOfEach(t)
    BY <1>1 DEF OneOfEach, Contains
<1>4. QED
    BY <1>1, <1>2, <1>3 DEF t

(* The first one is served.                                                *)
LEMMA ServedFirst ==
    ASSUME NEW s \in Seq(Transfers), s # << >>, OneOfEach(s)
    PROVE  /\ Head(s) \in Transfers /\ Contains(s, Head(s))
           /\ Tail(s) \in Seq(Transfers)
           /\ OneOfEach(Tail(s))
           /\ \A y : Contains(Tail(s), y) <=> Contains(s, y) /\ y # Head(s)
<1> DEFINE t == Tail(s)
<1>1. /\ t \in Seq(Transfers) /\ Len(s) \in Nat \ {0} /\ Len(t) = Len(s) - 1
      /\ \A i \in 1 .. Len(t) : t[i] = s[i + 1]
      /\ Head(s) = s[1] /\ s[1] \in Transfers
      /\ DOMAIN s = 1 .. Len(s) /\ DOMAIN t = 1 .. Len(t)
    OBVIOUS
<1> HIDE DEF t
<1>2. ASSUME NEW y
      PROVE  Contains(t, y) <=> Contains(s, y) /\ y # s[1]
    <2>1. ASSUME NEW i \in 1 .. Len(t), t[i] = y
          PROVE  Contains(s, y) /\ y # s[1]
        BY <1>1, <2>1 DEF Contains, OneOfEach
    <2>2. ASSUME NEW i \in 1 .. Len(s), s[i] = y, y # s[1]
          PROVE  Contains(t, y)
        <3>1. i - 1 \in 1 .. Len(t) /\ t[i - 1] = s[(i - 1) + 1]
            BY <1>1, <2>2
        <3>2. QED
            BY <1>1, <2>2, <3>1 DEF Contains
    <2>3. QED
        BY <2>1, <2>2 DEF Contains
<1>3. OneOfEach(t)
    <2>1. ASSUME NEW i \in 1 .. Len(t), NEW j \in 1 .. Len(t), t[i] = t[j]
          PROVE  i = j
        <3>1. i + 1 \in DOMAIN s /\ j + 1 \in DOMAIN s /\ s[i + 1] = s[j + 1]
            BY <1>1, <2>1
        <3>2. i + 1 = j + 1
            BY <3>1 DEF OneOfEach
        <3>3. QED
            BY <1>1, <3>2
    <2>2. QED
        BY <1>1, <2>1 DEF OneOfEach
<1>4. Contains(s, s[1])
    BY <1>1 DEF Contains
<1>5. QED
    BY <1>1, <1>2, <1>3, <1>4 DEF t

(* One is withdrawn before its turn.                                       *)
LEMMA Withdrawn ==
    ASSUME NEW s \in Seq(Transfers), OneOfEach(s), NEW n \in DOMAIN s
    PROVE  /\ Contains(s, s[n])
           /\ RemoveAt(s, n) \in Seq(Transfers)
           /\ OneOfEach(RemoveAt(s, n))
           /\ \A y : Contains(RemoveAt(s, n), y) <=> Contains(s, y) /\ y # s[n]
<1> DEFINE a == SubSeq(s, 1, n - 1)
           b == SubSeq(s, n + 1, Len(s))
           t == a \o b
<1>1. Len(s) \in Nat /\ DOMAIN s = 1 .. Len(s) /\ n \in 1 .. Len(s)
    OBVIOUS
<1>2. /\ a \in Seq(Transfers) /\ Len(a) = n - 1
      /\ \A i \in 1 .. n - 1 : a[i] = s[i]
    BY <1>1
<1>3. /\ b \in Seq(Transfers) /\ Len(b) = Len(s) - n
      /\ \A i \in 1 .. Len(s) - n : b[i] = s[i + n]
    BY <1>1
<1> HIDE DEF a, b
<1>4. /\ t \in Seq(Transfers) /\ Len(t) = Len(a) + Len(b)
      /\ \A i \in 1 .. Len(a) + Len(b) : t[i] = IF i <= Len(a) THEN a[i] ELSE b[i - Len(a)]
    BY <1>2, <1>3, ConcatProperties
<1>5. RemoveAt(s, n) = t
    BY DEF RemoveAt, a, b, t
<1> HIDE DEF t
<1>6. /\ Len(t) = Len(s) - 1 /\ DOMAIN t = 1 .. Len(t)
      /\ \A i \in 1 .. Len(t) : t[i] = IF i < n THEN s[i] ELSE s[i + 1]
    <2>1. Len(t) = Len(s) - 1 /\ DOMAIN t = 1 .. Len(t)
        BY <1>1, <1>2, <1>3, <1>4
    <2>2. ASSUME NEW i \in 1 .. Len(t)
          PROVE  t[i] = IF i < n THEN s[i] ELSE s[i + 1]
        <3>1. CASE i < n
            BY <1>1, <1>2, <1>4, <2>1, <3>1
        <3>2. CASE i >= n
            <4>1. i - (n - 1) \in 1 .. Len(s) - n /\ (i - (n - 1)) + n = i + 1
                BY <1>1, <2>1, <3>2
            <4>2. t[i] = b[i - (n - 1)]
                BY <1>1, <1>2, <1>3, <1>4, <2>1, <3>2
            <4>3. PICK k \in 1 .. Len(s) - n : k = i - (n - 1) /\ k + n = i + 1
                BY <4>1
            <4>4. b[k] = s[k + n]
                BY <1>3
            <4>5. QED
                BY <1>1, <2>1, <3>2, <4>2, <4>3, <4>4
        <3>3. QED
            BY <1>1, <2>1, <3>1, <3>2
    <2>3. QED
        BY <2>1, <2>2
<1>7. ASSUME NEW y
      PROVE  Contains(t, y) <=> Contains(s, y) /\ y # s[n]
    <2>1. ASSUME NEW i \in 1 .. Len(t), t[i] = y
          PROVE  Contains(s, y) /\ y # s[n]
        BY <1>1, <1>6, <2>1 DEF Contains, OneOfEach
    <2>2. ASSUME NEW i \in 1 .. Len(s), s[i] = y, y # s[n]
          PROVE  Contains(t, y)
        <3>1. CASE i < n
            BY <1>1, <1>6, <2>2, <3>1 DEF Contains
        <3>2. CASE i > n
            <4>1. i - 1 \in 1 .. Len(t) /\ t[i - 1] = s[(i - 1) + 1]
                BY <1>1, <1>6, <2>2, <3>2
            <4>2. QED
                BY <1>1, <2>2, <4>1 DEF Contains
        <3>3. QED
            BY <1>1, <2>2, <3>1, <3>2
    <2>3. QED
        BY <2>1, <2>2 DEF Contains
<1>8. OneOfEach(t)
    <2>1. ASSUME NEW i \in 1 .. Len(t), NEW j \in 1 .. Len(t), t[i] = t[j]
          PROVE  i = j
        <3>1. /\ t[i] = s[IF i < n THEN i ELSE i + 1] /\ (IF i < n THEN i ELSE i + 1) \in DOMAIN s
              /\ t[j] = s[IF j < n THEN j ELSE j + 1] /\ (IF j < n THEN j ELSE j + 1) \in DOMAIN s
            BY <1>1, <1>6
        <3>2. (IF i < n THEN i ELSE i + 1) = (IF j < n THEN j ELSE j + 1)
            BY <2>1, <3>1 DEF OneOfEach
        <3>3. QED
            BY <1>1, <1>6, <3>2
    <2>2. QED
        BY <1>6, <2>1 DEF OneOfEach
<1>9. QED
    BY <1>1, <1>4, <1>5, <1>7, <1>8 DEF Contains

(* Two kinds of transfers are two transfers at most.                       *)
LEMMA TwoAtMost ==
    ASSUME NEW s \in Seq(Transfers), OneOfEach(s)
    PROVE  Len(s) <= 2
<1>1. Len(s) \in Nat /\ DOMAIN s = 1 .. Len(s) /\ \A i \in 1 .. Len(s) : s[i] \in {"urb", "msg"}
    BY DEF Transfers
<1>2. SUFFICES ASSUME Len(s) >= 3 PROVE FALSE
    BY <1>1
<1>3. 1 \in DOMAIN s /\ 2 \in DOMAIN s /\ 3 \in DOMAIN s
    BY <1>1, <1>2
<1>4. s[1] # s[2] /\ s[1] # s[3] /\ s[2] # s[3]
    BY <1>3 DEF OneOfEach
<1>5. QED
    BY <1>1, <1>3, <1>4
-----------------------------------------------------------------------------
(* What the steps have in common.                                          *)

LEMMA ConstantFacts ==
    /\ None \notin Files /\ "core" \notin Files /\ IsFiniteSet(Files)
    /\ None \notin Commands \cup {"core", "data", "answer", "E:OVERRUN"}
    /\ MaxFaults \in Nat /\ MaxFailed \in Nat /\ MaxUses \in Nat
BY LifecycleAssumption DEF Commands

(* What a failure does to the count of failures.                           *)
LEMMA FaultTyped ==
    ASSUME faults \in 0 .. MaxFaults, Fault
    PROVE  faults' \in 0 .. MaxFaults
BY ConstantFacts DEF Fault

LEMMA WithdrawFacts ==
    ASSUME Typed, OneOfEach(reads), NEW x, Withdraw(x)
    PROVE  /\ Contains(reads, x)
           /\ reads' \in Seq(Transfers) /\ OneOfEach(reads')
           /\ \A y : Contains(reads', y) <=> Contains(reads, y) /\ y # x
<1>1. PICK i \in DOMAIN reads : reads[i] = x /\ reads' = RemoveAt(reads, i)
    BY DEF Withdraw
<1>2. reads \in Seq(Transfers)
    BY DEF Typed
<1>3. QED
    BY <1>1, <1>2, Withdrawn

(* Whether the URB could be submitted is what cut says.                    *)
LEMMA ReadIoFacts ==
    ASSUME Typed, OneOfEach(reads), DoReadIo
    PROVE  /\ reads' \in Seq(Transfers) /\ OneOfEach(reads')
           /\ \A y \in {"msg"} : Contains(reads', y) <=> Contains(reads, y)
           /\ Pending => Pending'
           /\ ~Submittable => Pending' = Pending
           /\ past' = [past EXCEPT !.cut = ~Pending']
           /\ faults' \in 0 .. MaxFaults
<1>1. reads \in Seq(Transfers) /\ faults \in 0 .. MaxFaults
    BY DEF Typed
<1>2. CASE /\ Submittable
           /\ reads' = Append(reads, "urb")
           /\ past' = [past EXCEPT !.cut = FALSE]
           /\ UNCHANGED faults
    <2>1. ~Contains(reads, "urb") /\ "urb" \in Transfers
        BY <1>2 DEF Submittable, Pending, Transfers
    <2>2. /\ reads' \in Seq(Transfers) /\ OneOfEach(reads')
          /\ \A y : Contains(reads', y) <=> Contains(reads, y) \/ y = "urb"
        BY <1>1, <1>2, <2>1, QueuedBehind
    <2>3. Contains(reads', "urb") /\ (Contains(reads', "msg") <=> Contains(reads, "msg"))
        BY <2>2
    <2>4. Pending'
        BY <2>3 DEF Pending
    <2>5. QED
        BY <1>1, <1>2, <2>2, <2>3, <2>4
<1>3. CASE /\ IF Submittable THEN Fault ELSE UNCHANGED faults
           /\ past' = [past EXCEPT !.cut = ~Pending]
           /\ UNCHANGED reads
    <2>1. faults' \in 0 .. MaxFaults
        BY <1>1, <1>3, FaultTyped
    <2>2. Pending' = Pending
        BY <1>3 DEF Pending
    <2>3. QED
        BY <1>1, <1>3, <2>1, <2>2
<1>4. QED
    BY <1>2, <1>3 DEF DoReadIo

(* The thread that is answered is the one that waits.                      *)
LEMMA AnsweredWaits ==
    ASSUME Typed, Exclusive, Queued, AnswersThread
    PROVE  /\ io_mutex \in Files /\ pc[io_mutex] = "wait"
           /\ Contains(reads, "msg")
           /\ reads' \in Seq(Transfers) /\ OneOfEach(reads')
           /\ \A y : Contains(reads', y) <=> Contains(reads, y) /\ y # "msg"
<1>1. reads \in Seq(Transfers) /\ reads # << >> /\ OneOfEach(reads)
      /\ Head(reads) = "msg" /\ reads' = Tail(reads)
    BY DEF Typed, Queued, AnswersThread, Taken
<1>2. /\ Contains(reads, "msg")
      /\ reads' \in Seq(Transfers) /\ OneOfEach(reads')
      /\ \A y : Contains(reads', y) <=> Contains(reads, y) /\ y # "msg"
    BY <1>1, ServedFirst
<1>3. PICK f \in Files : pc[f] = "wait"
    BY <1>2 DEF Queued
<1>4. io_mutex = f
    BY <1>3 DEF Exclusive
<1>5. QED
    BY <1>2, <1>3, <1>4

LEMMA CompletedFacts ==
    ASSUME Typed, Queued, CompletesUrb
    PROVE  /\ Pending
           /\ reads' \in Seq(Transfers) /\ OneOfEach(reads')
           /\ \A y : Contains(reads', y) <=> Contains(reads, y) /\ y # "urb"
<1>1. reads \in Seq(Transfers) /\ reads # << >> /\ OneOfEach(reads)
      /\ Head(reads) = "urb" /\ reads' = Tail(reads)
    BY DEF Typed, Queued, CompletesUrb, Taken
<1>2. QED
    BY <1>1, ServedFirst DEF Pending

(* A thread that sends a command has not asked for an answer yet.          *)
LEMMA AskedFacts ==
    ASSUME Typed, Exclusive, Queued, NEW f \in Files, pc[f] = "send", Asks(f)
    PROVE  /\ reads' \in Seq(Transfers) /\ OneOfEach(reads')
           /\ \A y : Contains(reads', y) <=> Contains(reads, y) \/ y = "msg"
<1>1. ASSUME NEW g \in Files, pc[g] = "wait"
      PROVE  FALSE
    BY <1>1 DEF Exclusive
<1>2. ~Contains(reads, "msg")
    BY <1>1 DEF Queued
<1>3. reads \in Seq(Transfers) /\ OneOfEach(reads) /\ "msg" \in Transfers
    BY DEF Typed, Queued, Transfers
<1>4. QED
    BY <1>2, <1>3, QueuedBehind DEF Asks
(* A record of failures stays one.                                         *)
LEMMA PastFacts ==
    ASSUME Typed
    PROVE  /\ past.cut \in BOOLEAN /\ past.failed \in Nat
           /\ \A b \in BOOLEAN :
                /\ [past EXCEPT !.stop_lost = b] \in Histories
                /\ [past EXCEPT !.cut = b] \in Histories
                /\ [past EXCEPT !.undrawn = b] \in Histories
                /\ [past EXCEPT !.early = b] \in Histories
           /\ past.failed < MaxFailed =>
                [past EXCEPT !.failed = @ + 1] \in Histories
<1>1. past.failed < MaxFailed => past.failed + 1 \in 0 .. MaxFailed
    BY ConstantFacts DEF Typed, Histories
<1>2. QED
    BY <1>1 DEF Typed, Histories

(* Neither does what the converter does change what it is.                 *)
LEMMA ConverterFacts ==
    ASSUME Typed
    PROVE  /\ Answering \in Converters /\ Stalling \in Converters
           /\ [Answering EXCEPT !.sampling = TRUE, !.ADIE = TRUE, !.overrun = FALSE, !.left = FALSE]
                 \in Converters
           /\ \A b \in BOOLEAN :
                 /\ [Answering EXCEPT !.sampling = FALSE, !.ADIE = FALSE, !.left = b] \in Converters
                 /\ [adc EXCEPT !.armed = "data", !.left = b] \in Converters
           /\ [adc EXCEPT !.ADIE = FALSE, !.overrun = TRUE, !.left = TRUE] \in Converters
           /\ [adc EXCEPT !.armed = "E:OVERRUN", !.overrun = FALSE] \in Converters
           /\ [adc EXCEPT !.armed = None, !.stalled = FALSE] \in Converters
           /\ [adc EXCEPT !.armed = None] \in Converters
           /\ \A c \in Commands : [adc EXCEPT !.command = c] \in Converters
<1>1. PICK a \in {None, "answer"} : Answering = [adc EXCEPT !.command = None, !.armed = a]
    BY DEF Answering, Typed, Converters
<1>2. adc \in Converters
    BY DEF Typed
<1>3. [adc EXCEPT !.command = None, !.armed = a] \in Converters
    BY <1>1, <1>2 DEF Converters
<1>4. Answering \in Converters
    BY <1>1, <1>3
<1>5. Stalling \in Converters
    BY <1>2 DEF Stalling, Converters
<1>6. /\ [Answering EXCEPT !.sampling = TRUE, !.ADIE = TRUE, !.overrun = FALSE, !.left = FALSE]
            \in Converters
      /\ \A b \in BOOLEAN : [Answering EXCEPT !.sampling = FALSE, !.ADIE = FALSE, !.left = b] \in Converters
    BY <1>4 DEF Converters
<1>7. /\ \A b \in BOOLEAN : [adc EXCEPT !.armed = "data", !.left = b] \in Converters
      /\ [adc EXCEPT !.ADIE = FALSE, !.overrun = TRUE, !.left = TRUE] \in Converters
      /\ [adc EXCEPT !.armed = "E:OVERRUN", !.overrun = FALSE] \in Converters
    BY <1>2 DEF Converters
<1>8. /\ [adc EXCEPT !.armed = None, !.stalled = FALSE] \in Converters
      /\ [adc EXCEPT !.armed = None] \in Converters
      /\ \A c \in Commands : [adc EXCEPT !.command = c] \in Converters
    BY <1>2 DEF Converters
<1>9. QED
    BY <1>4, <1>5, <1>6, <1>7, <1>8

(* The steps that concern the core or the converter alone.                 *)
LEMMA TypedAround ==
    ASSUME Typed, Event \/ Core \/ Converter \/ CallbackDeletes \/ UNCHANGED vars
    PROVE  Typed'
<1> USE DEF device, counts, threads, transfers, history, CoreGoes
<1>1. CASE \/ ProbeFails \/ ProbeRegisters \/ Suspend \/ Unload \/ Unplug \/ Resume \/ Deregister
           \/ Disconnect \/ Detach \/ UNCHANGED vars
    BY <1>1 DEF Typed, Cores, ProbeFails, ProbeRegisters, Suspend, Unload, Unplug, Resume, Deregister,
       Disconnect, Detach, Exiting, vars
<1>2. CASE Delete \/ CallbackDeletes
    BY <1>2 DEF Typed, Cores, Delete, CallbackDeletes, Deletes
<1>3. CASE PreReset
    BY <1>3 DEF Typed, Cores, PreReset, Lock
<1>4. CASE PostReset
    <2>1. past' = [past EXCEPT !.cut = past.cut \/ running] /\ (past.cut \/ running) \in BOOLEAN
        BY <1>4 DEF PostReset, Typed
    <2>2. past' \in Histories
        BY <2>1, PastFacts
    <2>3. QED
        BY <1>4, <2>2, ConverterFacts DEF Typed, Cores, PostReset
<1>5. CASE Suspended
    <2>1. past' = [past EXCEPT !.cut = past.cut \/ running] /\ (past.cut \/ running) \in BOOLEAN
        BY <1>5 DEF Suspended, Typed
    <2>2. past' \in Histories
        BY <2>1, PastFacts
    <2>3. QED
        BY <1>5, <2>2 DEF Typed, Cores, Suspended
<1>6. CASE ProbeEnds
    <2>1. past' \in Histories /\ faults' \in 0 .. MaxFaults
        BY <1>6, PastFacts, FaultTyped DEF ProbeEnds, Typed
    <2>2. {intfdata, interface, exiting, table, running}' \subseteq BOOLEAN
        BY <1>6 DEF Typed, ProbeEnds
    <2>3. QED
        BY <1>6, <2>1, <2>2 DEF Typed, Cores, ProbeEnds
<1>7. CASE Converter
    <2>1. faults' \in 0 .. MaxFaults
        BY <1>7, FaultTyped DEF Typed, Converter, Executes, ArmsData, Overruns, ArmsOverrun
    <2>2. adc' \in Converters
        <3>1. CASE Executes
            <4>1. (Answering.left \/ adc.ADIE) \in BOOLEAN /\ (adc.left \/ adc.ADIE) \in BOOLEAN
                OBVIOUS
            <4>2. QED
                BY <3>1, <4>1, ConverterFacts DEF Executes
        <3>2. CASE ArmsData
            <4>1. PICK left \in {FALSE, adc.left} : adc' = [adc EXCEPT !.armed = "data", !.left = left]
                BY <3>2 DEF ArmsData
            <4>2. left \in BOOLEAN
                BY DEF Typed, Converters
            <4>3. QED
                BY <4>1, <4>2, ConverterFacts
        <3>3. CASE Overruns \/ ArmsOverrun
            BY <3>3, ConverterFacts DEF Overruns, ArmsOverrun
        <3>4. QED
            BY <1>7, <3>1, <3>2, <3>3 DEF Converter
    <2>3. QED
        BY <1>7, <2>1, <2>2 DEF Typed, Converter, Executes, ArmsData, Overruns, ArmsOverrun
<1>8. QED
    BY <1>1, <1>2, <1>3, <1>4, <1>5, <1>6, <1>7 DEF Event, Core

(* The calls that refuse, wait for data and end, with or without a client. *)
Waits(f) ==
    \/ IoctlRefused(f) \/ SetParams(f) \/ GetDataSleeps(f) \/ GetDataExits(f) \/ GetDataWoken(f)
    \/ GetDataEnds(f) \/ GetDataKeeps(f) \/ GetDataCrashes(f)

(* They take io_mutex when it is free or leave it alone, and keep it when  *)
(* they crash, or by mistake; the rest they leave alone.                   *)
LEMMA WaitsFacts ==
    ASSUME NEW f \in Files, Waits(f)
    PROVE  /\ UNCHANGED <<core, device, open_count, pm, opened, request, transfers, adc, faults, past>>
           /\ pc[f] \in {"counted", "asleep", "relock"} /\ dev # "freed"
           /\ io_mutex = None \/ io_mutex' = io_mutex
           /\ \E p \in {"asleep", "relock", "user", "oops"} :
                /\ pc' = [pc EXCEPT ![f] = p]
                /\ ioctl_active_count' = IF p = "user" THEN ioctl_active_count - 1 ELSE ioctl_active_count
                /\ \/ io_mutex' \in {None, io_mutex}
                   \/ io_mutex' = f /\ (p = "oops" \/ kept')
           /\ kept' = kept \/ kept'
<1> USE DEF device, counts, threads, transfers, history, clients, Goto, Leave, Lock, MutexFree, Looks
<1>1. CASE GetDataSleeps(f) \/ GetDataWoken(f)
    BY <1>1 DEF GetDataSleeps, GetDataWoken
<1>2. CASE IoctlRefused(f) \/ SetParams(f) \/ GetDataExits(f) \/ GetDataEnds(f) \/ GetDataKeeps(f)
    BY <1>2 DEF IoctlRefused, SetParams, GetDataExits, GetDataEnds, GetDataKeeps
<1>3. CASE GetDataCrashes(f)
    BY <1>3 DEF GetDataCrashes
<1>4. QED
    BY <1>1, <1>2, <1>3 DEF Waits

(* A failed start is counted.                                              *)
LEMMA FailsFacts ==
    ASSUME Typed, NEW f \in Files, past.failed < MaxFailed, InitializeFails(f)
    PROVE  /\ past' \in Histories /\ past'.failed = past.failed + 1
           /\ open_count' = open_count - 1 /\ open_count' \in Int
           /\ ioctl_active_count' = ioctl_active_count - 1 /\ ioctl_active_count' \in Int
           /\ pc' = [pc EXCEPT ![f] = "user"] /\ pc' \in [Files -> Places]
           /\ io_mutex' = None /\ kept' = kept
<1>1. past' \in Histories /\ past'.failed = past.failed + 1
    BY PastFacts DEF InitializeFails, Typed, Histories
<1>2. QED
    BY <1>1 DEF InitializeFails, Leave, Goto, Typed, Places

(* The steps of the threads and of the URB.                                *)
LEMMA TypedThread ==
    ASSUME Typed, Exclusive, Queued, StartsStopped, Awake,
           NEW f \in Files, Begin(f) \/ Continue(f)
    PROVE  Typed'
<1> USE DEF device, counts, threads, transfers, history, Goto, Leave, Lock, Unlock
<1>1. CASE IoctlCounted(f) \/ Flush(f) \/ IoctlCrashes(f)
    BY <1>1 DEF Typed, Places, IoctlCounted, Flush, IoctlCrashes
<1>2. CASE OpenFails(f)
    <2>1. faults' \in 0 .. MaxFaults
        BY <1>2, FaultTyped DEF Typed, OpenFails
    <2>2. QED
        BY <1>2, <2>1 DEF Typed, OpenFails, CountedBack
<1>3. CASE Open(f)
    <2>1. pm' \in 0 .. MaxUses
        BY <1>3, ConstantFacts DEF Typed, Open
    <2>2. QED
        BY <1>3, <2>1 DEF Typed, Open
<1>4. CASE FlushLast(f)
    BY <1>4 DEF Typed, Places, FlushLast
<1>5. CASE InitializeStarts(f)
    BY <1>5 DEF Typed, Places, Commands, InitializeStarts
<1>6. CASE InitializeNoMemory(f)
    <2>1. past.failed < MaxFailed /\ InitializeFails(f) /\ Fault
        BY <1>6 DEF InitializeNoMemory, Initializes
    <2>2. faults' \in 0 .. MaxFaults
        BY <2>1, FaultTyped DEF Typed
    <2>3. QED
        BY <1>6, <2>1, <2>2, FailsFacts DEF Typed, InitializeNoMemory, InitializeFails
<1>7. CASE InitializeSends(f) \/ ReleaseSends(f)
    <2>1. pc[f] = "send" /\ Asks(f) /\ adc' = [adc EXCEPT !.command = request]
        BY <1>7 DEF InitializeSends, ReleaseSends, Sends
    <2>2. reads' \in Seq(Transfers)
        BY <2>1, AskedFacts
    <2>3. adc' \in Converters
        BY <2>1, ConverterFacts DEF Typed
    <2>4. pc' \in [Files -> Places]
        BY <2>1 DEF Asks, Typed, Places
    <2>5. running' \in BOOLEAN
        BY <1>7 DEF Typed, InitializeSends, ReleaseSends, AfterStop
    <2>6. QED
        BY <1>7, <2>2, <2>3, <2>4, <2>5 DEF Typed, InitializeSends, ReleaseSends
<1>8. CASE InitializeSendFails(f) \/ InitializeNoAnswer(f)
    <2>1. Starting(f) /\ InitializeFails(f)
        BY <1>8 DEF InitializeSendFails, InitializeNoAnswer, SendFails, NoAnswer, Starting, Sending
    <2>2. past.failed < MaxFailed
        BY <2>1 DEF StartsStopped
    <2>3. faults' \in 0 .. MaxFaults
        BY <1>8, FaultTyped DEF Typed, InitializeSendFails, InitializeNoAnswer, SendFails, NoAnswer
    <2>4. reads' \in Seq(Transfers)
        BY <1>8, WithdrawFacts DEF Queued, Typed, InitializeSendFails, InitializeNoAnswer, NoAnswer
    <2>5. QED
        BY <2>1, <2>2, <2>3, <2>4, FailsFacts DEF Typed, InitializeFails
<1>9. CASE InitializeRuns(f)
    <2>1. adc' \in Converters
        BY <1>9, ConverterFacts DEF Typed, InitializeRuns, Sends
    <2>2. QED
        BY <1>9, <2>1 DEF Typed, InitializeRuns, Places
<1>10. CASE InitializeReads(f)
    <2>1. /\ reads' \in Seq(Transfers) /\ faults' \in 0 .. MaxFaults
          /\ past' = [past EXCEPT !.cut = ~Pending']
        BY <1>10, ReadIoFacts DEF Queued, InitializeReads
    <2>2. past' \in Histories
        BY <2>1, PastFacts
    <2>3. QED
        BY <1>10, <2>1, <2>2 DEF Typed, InitializeReads, Places
<1>11. CASE FlushEnds(f)
    <2>1. past' = [past EXCEPT !.cut = past.cut \/ running] /\ (past.cut \/ running) \in BOOLEAN
        BY <1>11 DEF FlushEnds, Typed, Histories
    <2>2. past' \in Histories
        BY <2>1, PastFacts
    <2>3. QED
        BY <1>11, <2>2 DEF Typed, FlushEnds, Places
<1>12. CASE Release(f) \/ ReleaseNoMemory(f) \/ ReleaseLast(f)
    <2>1. faults' \in 0 .. MaxFaults
        BY <1>12, FaultTyped DEF Typed, Release, ReleaseNoMemory, ReleaseLast
    <2>2. past' \in Histories
        <3>1. (~Killed) \in BOOLEAN
            OBVIOUS
        <3>2. QED
            BY <1>12, <3>1, PastFacts DEF Typed, Release, ReleaseNoMemory, ReleaseLast
    <2>3. QED
        BY <1>12, <2>1, <2>2 DEF Typed, Release, ReleaseNoMemory, ReleaseLast, Released, Places, Commands
<1>13. CASE ReleaseSendFails(f)
    <2>1. faults' \in 0 .. MaxFaults
        BY <1>13, FaultTyped DEF Typed, ReleaseSendFails, SendFails
    <2>2. past' \in Histories
        BY <1>13, PastFacts DEF ReleaseSendFails
    <2>3. QED
        BY <1>13, <2>1, <2>2 DEF Typed, ReleaseSendFails, AfterStop, Places
<1>14. CASE ReleaseNoAnswer(f)
    <2>1. faults' \in 0 .. MaxFaults
        BY <1>14, FaultTyped DEF Typed, ReleaseNoAnswer, NoAnswer
    <2>2. reads' \in Seq(Transfers)
        BY <1>14, WithdrawFacts DEF Queued, ReleaseNoAnswer, NoAnswer
    <2>3. Stopping(f)
        BY <1>14 DEF ReleaseNoAnswer, NoAnswer, ReleaseEnds, Stopping, Sending
    <2>4. pm' \in 0 .. MaxUses
        BY <1>14, <2>3, ConstantFacts DEF Typed, Awake, ReleaseNoAnswer, ReleaseEnds
    <2>5. QED
        BY <1>14, <2>1, <2>2, <2>4 DEF Typed, ReleaseNoAnswer, ReleaseEnds, Places
<1>15. CASE UsesFreed(f)
    <2>1. reads' \in Seq(Transfers)
        BY <1>15, WithdrawFacts DEF Queued, Typed, UsesFreed
    <2>2. QED
        BY <1>15, <2>1 DEF Typed, UsesFreed, Places
<1>16. CASE Waits(f)
    BY <1>16, WaitsFacts DEF Typed, Places
<1>17. QED
    BY <1>1, <1>2, <1>3, <1>4, <1>5, <1>6, <1>7, <1>8, <1>9, <1>10, <1>11, <1>12, <1>13, <1>14, <1>15, <1>16
    DEF Begin, Continue, Ioctl, Waits, Closes

LEMMA TypedKept ==
    ASSUME LifeInv, [Next]_vars
    PROVE  Typed'
<1> USE DEF device, counts, threads, transfers, history, Goto, Unlock
<1>0. Typed /\ Exclusive /\ Queued /\ StartsStopped /\ Awake /\ OneOfEach(reads)
    BY DEF LifeInv, Queued
<1>1. CASE Event \/ Core \/ Converter \/ CallbackDeletes \/ UNCHANGED vars
    BY <1>0, <1>1, TypedAround
<1>2. CASE CallbackFinish
    <2>1. /\ reads' \in Seq(Transfers) /\ faults' \in 0 .. MaxFaults
          /\ past' = past \/ past' = [past EXCEPT !.cut = ~Pending']
        BY <1>0, <1>2, ReadIoFacts DEF CallbackFinish, Typed
    <2>2. past' \in Histories
        BY <1>0, <2>1, PastFacts DEF Typed
    <2>3. QED
        BY <1>0, <1>2, <2>1, <2>2 DEF Typed, CallbackFinish
<1>3. CASE UrbEnds
    <2>1. faults' \in 0 .. MaxFaults
        BY <1>0, <1>3, FaultTyped DEF Typed, UrbEnds
    <2>2. reads' \in Seq(Transfers)
        BY <1>0, <1>3, WithdrawFacts DEF UrbEnds
    <2>3. QED
        BY <1>0, <1>3, <2>1, <2>2 DEF Typed, UrbEnds
<1>4. CASE CompletesUrb
    <2>1. reads' \in Seq(Transfers)
        BY <1>0, <1>4, CompletedFacts
    <2>2. adc' \in Converters
        BY <1>0, <1>4, ConverterFacts DEF CompletesUrb, Taken
    <2>3. cb' \in {"idle", "finish", "delete", "deleted", "oops"}
        BY <1>4 DEF CompletesUrb
    <2>4. {intfdata, interface, exiting, table, running}' \subseteq BOOLEAN
        BY <1>0, <1>4 DEF Typed, CompletesUrb
    <2>5. QED
        BY <1>0, <1>4, <2>1, <2>2, <2>3, <2>4 DEF Typed, CompletesUrb
<1>5. CASE AnswersThread
    <2>1. /\ io_mutex \in Files /\ pc[io_mutex] = "wait"
          /\ reads' \in Seq(Transfers)
        BY <1>0, <1>5, AnsweredWaits
    <2>2. adc' \in Converters
        BY <1>0, <1>5, ConverterFacts DEF AnswersThread, Taken
    <2>3. CASE InitializeAnswered(io_mutex)
        BY <1>0, <1>5, <2>1, <2>2, <2>3 DEF Typed, AnswersThread, InitializeAnswered, Commands, Places
    <2>4. CASE ReleaseEnds(io_mutex)
        <3>1. Stopping(io_mutex)
            BY <2>1, <2>4 DEF ReleaseEnds, Stopping, Sending
        <3>2. pm' \in 0 .. MaxUses
            BY <1>0, <2>1, <2>4, <3>1, ConstantFacts DEF Typed, Awake, ReleaseEnds
        <3>3. QED
            BY <1>0, <1>5, <2>1, <2>2, <2>4, <3>2 DEF Typed, AnswersThread, ReleaseEnds, Places
    <2>5. QED
        BY <1>5, <2>3, <2>4 DEF AnswersThread
<1>6. ASSUME NEW f \in Files, Begin(f) \/ Continue(f)
      PROVE  Typed'
    BY <1>0, <1>6, TypedThread
<1>7. QED
    BY <1>1, <1>2, <1>3, <1>4, <1>5, <1>6 DEF Next, Callback, Host
-----------------------------------------------------------------------------
(* Who holds io_mutex, and who waits for an answer.                        *)

Locking == {"send", "wait", "submit", "kill", "dup_kill"}

(* A step of a thread that takes the mutex, gives it back or leaves it     *)
(* alone.                                                                  *)
LEMMA LockStep ==
    ASSUME Typed, Exclusive, NEW f \in Files, NEW p,
           pc' = [pc EXCEPT ![f] = p],
           io_mutex \in {None, f} \/ io_mutex' = io_mutex,
           p \in Locking => io_mutex' = f,
           core' = core
    PROVE  Exclusive'
<1>1. ASSUME NEW g \in Files, pc'[g] \in Locking
      PROVE  io_mutex' = g
    <2>1. CASE g = f
        BY <1>1, <2>1 DEF Typed
    <2>2. CASE g # f
        <3>1. pc[g] \in Locking
            BY <1>1, <2>2 DEF Typed
        <3>2. io_mutex = g
            BY <3>1 DEF Exclusive, Locking
        <3>3. QED
            BY <2>2, <3>2, ConstantFacts
    <2>3. QED
        BY <2>1, <2>2
<1>2. core' = "drain" => io_mutex' = "core"
    BY ConstantFacts DEF Exclusive
<1>3. QED
    BY <1>1, <1>2 DEF Exclusive, Locking

(* A step of a thread that begins to wait, ends it, or does neither.       *)
LEMMA WaitStep ==
    ASSUME Typed, Exclusive, Queued, NEW f \in Files, NEW p,
           pc' = [pc EXCEPT ![f] = p],
           OneOfEach(reads'),
           p = "wait" => Contains(reads', "msg"),
           p # "wait" /\ pc[f] = "wait" => ~Contains(reads', "msg"),
           p # "wait" /\ pc[f] # "wait" => (Contains(reads', "msg") <=> Contains(reads, "msg"))
    PROVE  Queued'
<1>1. \A g \in Files : pc'[g] = IF g = f THEN p ELSE pc[g]
    BY DEF Typed
<1>2. CASE p = "wait"
    BY <1>1, <1>2 DEF Queued
<1>3. CASE p # "wait" /\ pc[f] = "wait"
    <2>1. \A g \in Files : pc[g] = "wait" => g = f
        BY <1>3 DEF Exclusive
    <2>2. QED
        BY <1>1, <1>3, <2>1 DEF Queued
<1>4. CASE p # "wait" /\ pc[f] # "wait"
    BY <1>1, <1>4 DEF Queued
<1>5. QED
    BY <1>2, <1>3, <1>4

LEMMA LocksThread ==
    ASSUME Typed, Exclusive, Queued, NEW f \in Files, Begin(f) \/ Continue(f)
    PROVE  Exclusive' /\ Queued'
<1> USE DEF device, counts, threads, transfers, history, Goto, Leave, Lock, Unlock, MutexFree, Locking
<1>0. OneOfEach(reads)
    BY DEF Queued
<1>1. CASE Open(f) \/ OpenFails(f)
    BY <1>1 DEF Open, OpenFails, Exclusive, Queued
<1>2. CASE IoctlCounted(f) \/ Flush(f) \/ FlushLast(f) \/ IoctlCrashes(f)
           \/ InitializeNoMemory(f) \/ InitializeStarts(f)
    <2>1. \E p \in Places \ {"wait"} :
             /\ pc' = [pc EXCEPT ![f] = p]
             /\ io_mutex \in {None, f} \/ io_mutex' = io_mutex
             /\ p \in Locking => io_mutex' = f
        BY <1>2 DEF IoctlCounted, Flush, FlushLast, Closing, IoctlCrashes, InitializeNoMemory,
           InitializeFails, InitializeStarts, Initializes, Looks, Places
    <2>2. core' = core /\ reads' = reads /\ pc[f] # "wait"
        BY <1>2 DEF IoctlCounted, Flush, FlushLast, Closing, IoctlCrashes, InitializeNoMemory,
           InitializeFails, InitializeStarts, Initializes, Looks
    <2>3. QED
        BY <1>0, <2>1, <2>2, LockStep, WaitStep
<1>3. CASE InitializeSendFails(f) \/ InitializeRuns(f) \/ FlushEnds(f) \/ Release(f)
           \/ ReleaseNoMemory(f) \/ ReleaseLast(f) \/ ReleaseSendFails(f)
    <2>1. pc[f] \in Locking => io_mutex = f
        BY DEF Exclusive
    <2>2. \E p \in Places \ {"wait"} :
             /\ pc' = [pc EXCEPT ![f] = p]
             /\ io_mutex \in {None, f} \/ io_mutex' = io_mutex
             /\ p \in Locking => io_mutex' = f
        BY <1>3, <2>1 DEF InitializeSendFails, InitializeRuns, Sends, SendFails, InitializeFails, FlushEnds, Release,
           ReleaseNoMemory, ReleaseLast, Released, ReleaseSendFails, Places
    <2>3. core' = core /\ reads' = reads /\ pc[f] # "wait"
        BY <1>3 DEF InitializeSendFails, InitializeRuns, Sends, SendFails, InitializeFails, FlushEnds, Release,
           ReleaseNoMemory, ReleaseLast, Released, ReleaseSendFails
    <2>4. QED
        BY <1>0, <2>2, <2>3, LockStep, WaitStep
<1>4. CASE InitializeSends(f) \/ ReleaseSends(f)
    <2>1. pc[f] = "send" /\ Asks(f) /\ core' = core /\ io_mutex' = io_mutex
        BY <1>4 DEF InitializeSends, ReleaseSends, Sends
    <2>2. io_mutex = f /\ pc' = [pc EXCEPT ![f] = "wait"]
        BY <2>1 DEF Asks, Exclusive
    <2>3. OneOfEach(reads') /\ Contains(reads', "msg")
        BY <2>1, AskedFacts
    <2>4. QED
        BY <2>1, <2>2, <2>3, LockStep, WaitStep
<1>5. CASE InitializeNoAnswer(f) \/ ReleaseNoAnswer(f)
    <2>1. pc[f] = "wait" /\ Withdraw("msg") /\ core' = core
          /\ pc' = [pc EXCEPT ![f] = "user"] /\ io_mutex' = None
        BY <1>5 DEF InitializeNoAnswer, ReleaseNoAnswer, NoAnswer, InitializeFails, ReleaseEnds
    <2>2. io_mutex = f
        BY <2>1 DEF Exclusive
    <2>3. OneOfEach(reads') /\ ~Contains(reads', "msg")
        BY <1>0, <2>1, WithdrawFacts
    <2>4. QED
        BY <2>1, <2>2, <2>3, LockStep, WaitStep
<1>6. CASE InitializeReads(f)
    <2>1. pc[f] = "submit" /\ DoReadIo /\ core' = core
          /\ pc' = [pc EXCEPT ![f] = "user"] /\ io_mutex' = None
        BY <1>6 DEF InitializeReads
    <2>2. io_mutex = f
        BY <2>1 DEF Exclusive
    <2>3. OneOfEach(reads') /\ (Contains(reads', "msg") <=> Contains(reads, "msg"))
        BY <1>0, <2>1, ReadIoFacts
    <2>4. QED
        BY <2>1, <2>2, <2>3, LockStep, WaitStep
<1>7. CASE UsesFreed(f)
    <2>1. core' = core /\ io_mutex' = io_mutex /\ pc' = [pc EXCEPT ![f] = "oops"]
        BY <1>7 DEF UsesFreed
    <2>2. CASE pc[f] = "wait"
        <3>1. OneOfEach(reads') /\ ~Contains(reads', "msg")
            BY <1>0, <1>7, <2>2, WithdrawFacts DEF UsesFreed
        <3>2. QED
            BY <2>1, <2>2, <3>1, LockStep, WaitStep
    <2>3. CASE pc[f] # "wait"
        <3>1. reads' = reads
            BY <1>7, <2>3 DEF UsesFreed
        <3>2. QED
            BY <1>0, <2>1, <2>3, <3>1, LockStep, WaitStep
    <2>4. QED
        BY <2>2, <2>3
<1>8. CASE Waits(f)
    <2>1. PICK p \in {"asleep", "relock", "user", "oops"} : pc' = [pc EXCEPT ![f] = p]
        BY <1>8, WaitsFacts
    <2>2. core' = core /\ reads' = reads /\ pc[f] # "wait" /\ (io_mutex = None \/ io_mutex' = io_mutex)
        BY <1>8, WaitsFacts
    <2>3. QED
        BY <1>0, <2>1, <2>2, LockStep, WaitStep
<1>9. QED
    BY <1>1, <1>2, <1>3, <1>4, <1>5, <1>6, <1>7, <1>8 DEF Begin, Continue, Ioctl, Waits, Closes

LEMMA LocksKept ==
    ASSUME LifeInv, [Next]_vars
    PROVE  Exclusive' /\ Queued'
<1> USE DEF device, counts, threads, transfers, history, Goto, Unlock, CoreGoes, Lock, MutexFree
<1>0. Typed /\ Exclusive /\ Queued /\ OneOfEach(reads)
    BY DEF LifeInv, Queued
<1>1. CASE \/ ProbeFails \/ ProbeRegisters \/ ProbeEnds \/ Suspend \/ Suspended \/ Unload \/ Unplug \/ Resume
           \/ Deregister \/ Disconnect \/ Detach \/ Delete \/ CallbackDeletes \/ Converter \/ UNCHANGED vars
    <2>1. /\ pc' = pc /\ io_mutex' = io_mutex /\ reads' = reads
          /\ core' = core \/ core' # "drain"
        BY <1>1 DEF ProbeFails, ProbeRegisters, ProbeEnds, Suspend, Suspended, Unload, Unplug, Resume,
           Deregister, Disconnect, Detach, Delete, CallbackDeletes, Converter, Executes, ArmsData, Overruns,
           ArmsOverrun, vars
    <2>2. QED
        BY <1>0, <2>1 DEF Exclusive, Queued
<1>2. CASE PreReset
    BY <1>0, <1>2, ConstantFacts DEF PreReset, Exclusive, Queued
<1>3. CASE PostReset
    <2>1. \A f \in Files : io_mutex # f
        BY <1>0, <1>3, ConstantFacts DEF PostReset, Exclusive
    <2>2. QED
        BY <1>0, <1>3, <2>1 DEF PostReset, Exclusive, Queued
<1>4. CASE CallbackFinish
    <2>1. OneOfEach(reads') /\ (Contains(reads', "msg") <=> Contains(reads, "msg"))
        BY <1>0, <1>4, ReadIoFacts DEF CallbackFinish
    <2>2. QED
        BY <1>0, <1>4, <2>1 DEF CallbackFinish, Exclusive, Queued
<1>5. CASE UrbEnds
    <2>1. OneOfEach(reads') /\ (Contains(reads', "msg") <=> Contains(reads, "msg"))
        BY <1>0, <1>5, WithdrawFacts DEF UrbEnds
    <2>2. QED
        BY <1>0, <1>5, <2>1 DEF UrbEnds, Exclusive, Queued
<1>6. CASE CompletesUrb
    <2>1. OneOfEach(reads') /\ (Contains(reads', "msg") <=> Contains(reads, "msg"))
        BY <1>0, <1>6, CompletedFacts
    <2>2. QED
        BY <1>0, <1>6, <2>1 DEF CompletesUrb, Exclusive, Queued
<1>7. CASE AnswersThread
    <2>1. /\ io_mutex \in Files /\ pc[io_mutex] = "wait"
          /\ OneOfEach(reads') /\ ~Contains(reads', "msg")
        BY <1>0, <1>7, AnsweredWaits
    <2>2. core' = core
        BY <1>7 DEF AnswersThread
    <2>3. \/ pc' = [pc EXCEPT ![io_mutex] = "send"] /\ io_mutex' = io_mutex
          \/ pc' = [pc EXCEPT ![io_mutex] = "user"] /\ io_mutex' = None
        BY <1>7 DEF AnswersThread, InitializeAnswered, ReleaseEnds
    <2>4. PICK f \in Files : f = io_mutex
        BY <2>1
    <2>5. QED
        BY <1>0, <2>1, <2>2, <2>3, <2>4, LockStep, WaitStep DEF Locking
<1>8. ASSUME NEW f \in Files, Begin(f) \/ Continue(f)
      PROVE  Exclusive' /\ Queued'
    BY <1>0, <1>8, LocksThread
<1>9. QED
    BY <1>1, <1>2, <1>3, <1>4, <1>5, <1>6, <1>7, <1>8 DEF Next, Event, Core, Callback, Host
-----------------------------------------------------------------------------
(* What one thread does, and the others do not see.                        *)

(* The steps of one thread that its own place describes.                   *)
LEMMA ThreadMoves ==
    ASSUME Typed, Exclusive, StartsStopped, InUse, NEW f \in Files, Begin(f) \/ Continue(f)
    PROVE  /\ \E p \in Places :
                /\ pc' = [pc EXCEPT ![f] = p]
                /\ p \in {"send", "wait"} /\ request' # "STOP" =>
                      ~running' /\ past'.failed < MaxFailed /\ f \in opened'
                /\ p \in {"counted", "asleep", "relock", "submit", "kill", "dup_kill", "release"} => f \in opened'
                /\ p = "submit" => running'
                /\ p = "wait" => ~running'
           /\ opened \ {f} \subseteq opened'
           /\ \/ io_mutex \in {None, f}
              \/ request' = request /\ running' = running /\ past'.failed = past.failed
           /\ core' = core /\ interface' = interface /\ intfdata' = intfdata /\ dev' = dev
           /\ cb' = cb /\ table' = table /\ exiting' = exiting /\ past'.early = past.early
<1> USE DEF device, counts, threads, transfers, history, Goto, Leave, Lock, Unlock, MutexFree
<1>0. /\ pc[f] \in {"send", "wait", "submit", "kill", "dup_kill"} => io_mutex = f
      /\ Starting(f) => ~running /\ past.failed < MaxFailed
      /\ pc[f] = "submit" => running
      /\ pc[f] = "wait" => ~running
      /\ InIoctl(f) \/ pc[f] \in {"kill", "dup_kill", "release"} => f \in opened
      /\ past \in Histories /\ pc \in [Files -> Places]
    BY DEF Exclusive, StartsStopped, InUse, Typed
<1> DEFINE P(p) == /\ pc' = [pc EXCEPT ![f] = p]
                   /\ p \in {"send", "wait"} /\ request' # "STOP" =>
                         ~running' /\ past'.failed < MaxFailed /\ f \in opened'
                   /\ p \in {"counted", "asleep", "relock", "submit", "kill", "dup_kill", "release"} => f \in opened'
                   /\ p = "submit" => running'
                   /\ p = "wait" => ~running'
           Rest == /\ opened \ {f} \subseteq opened'
                   /\ \/ io_mutex \in {None, f}
                      \/ request' = request /\ running' = running /\ past'.failed = past.failed
                   /\ core' = core /\ interface' = interface /\ intfdata' = intfdata /\ dev' = dev
                   /\ cb' = cb /\ table' = table /\ exiting' = exiting /\ past'.early = past.early
           Goal == (\E p \in Places : P(p)) /\ Rest
<1>1. ASSUME Open(f) \/ OpenFails(f)
      PROVE  Goal
    <2>1. P(pc[f])
        BY <1>0, <1>1 DEF Open, OpenFails, Starting, Sending, InIoctl, Opening
    <2>2. Rest
        BY <1>1 DEF Open, OpenFails, Opening
    <2>3. QED
        BY <1>0, <2>1, <2>2
<1>2. ASSUME IoctlCounted(f) \/ Flush(f) \/ FlushLast(f) \/ IoctlCrashes(f)
             \/ InitializeStarts(f) \/ InitializeRuns(f)
      PROVE  Goal
    <2>1. \E p \in Places : P(p)
        BY <1>0, <1>2 DEF IoctlCounted, Flush, FlushLast, Closing, IoctlCrashes, InitializeStarts,
           Initializes, InitializeRuns, Sends, Looks, Places, InIoctl
    <2>2. Rest
        BY <1>0, <1>2 DEF IoctlCounted, Flush, FlushLast, Closing, IoctlCrashes, InitializeStarts,
           Initializes, InitializeRuns, Sends, Looks
    <2>3. QED
        BY <2>1, <2>2
<1>3. ASSUME InitializeNoMemory(f) \/ InitializeSendFails(f) \/ InitializeNoAnswer(f)
      PROVE  Goal
    <2>1. InitializeFails(f) /\ io_mutex \in {None, f}
        BY <1>0, <1>3 DEF InitializeNoMemory, InitializeSendFails, InitializeNoAnswer, Initializes, Looks, SendFails,
           NoAnswer
    <2>2. P("user") /\ "user" \in Places
        BY <2>1 DEF InitializeFails, Places
    <2>3. past'.early = past.early
        BY <1>0, <2>1 DEF InitializeFails, Histories
    <2>4. QED
        BY <2>1, <2>2, <2>3 DEF InitializeFails
<1>4. ASSUME InitializeSends(f) \/ ReleaseSends(f)
      PROVE  Goal
    <2>1. P("wait") /\ "wait" \in Places
        BY <1>0, <1>4 DEF InitializeSends, ReleaseSends, Sends, Asks, Places, InIoctl, Starting, Sending,
           AfterStop
    <2>2. QED
        BY <1>0, <1>4, <2>1 DEF InitializeSends, ReleaseSends, Sends
<1>5. ASSUME InitializeReads(f)
      PROVE  Goal
    <2>1. P("user") /\ "user" \in Places
        BY <1>5 DEF InitializeReads, Places
    <2>2. past'.early = past.early
        BY <1>0, <1>5 DEF InitializeReads, DoReadIo, Histories
    <2>3. QED
        BY <1>0, <1>5, <2>1, <2>2 DEF InitializeReads
<1>6. ASSUME FlushEnds(f) \/ Release(f) \/ ReleaseNoMemory(f) \/ ReleaseLast(f) \/ ReleaseSendFails(f)
             \/ ReleaseNoAnswer(f)
      PROVE  Goal
    <2>1. \E p \in Places : P(p)
        BY <1>0, <1>6 DEF FlushEnds, Release, ReleaseNoMemory, ReleaseLast, ReleaseSendFails, ReleaseNoAnswer,
           ReleaseEnds, Released, Places
    <2>2. past'.early = past.early
        BY <1>0, <1>6 DEF FlushEnds, Release, ReleaseNoMemory, ReleaseLast, ReleaseSendFails, ReleaseNoAnswer,
           Histories
    <2>3. Rest
        BY <1>0, <1>6, <2>2 DEF FlushEnds, Release, ReleaseNoMemory, ReleaseLast, ReleaseSendFails, ReleaseNoAnswer,
           ReleaseEnds, Released, SendFails, NoAnswer
    <2>4. QED
        BY <2>1, <2>3
<1>7. ASSUME UsesFreed(f)
      PROVE  Goal
    <2>1. P("oops") /\ "oops" \in Places
        BY <1>7 DEF UsesFreed, Places
    <2>2. QED
        BY <1>7, <2>1 DEF UsesFreed
<1>8. ASSUME Waits(f)
      PROVE  Goal
    <2>1. pc[f] \in {"counted", "asleep", "relock"} /\ f \in opened
        BY <1>0, <1>8, WaitsFacts DEF InIoctl
    <2>2. \E p \in Places : P(p)
        BY <1>8, <2>1, WaitsFacts DEF Places
    <2>3. Rest
        BY <1>8, WaitsFacts
    <2>4. QED
        BY <2>2, <2>3
<1>9. Goal
    BY <1>1, <1>2, <1>3, <1>4, <1>5, <1>6, <1>7, <1>8 DEF Begin, Continue, Ioctl, Waits, Closes
<1>10. QED
    BY <1>9

(* The same of the thread that is answered.                                *)
LEMMA AnswerMoves ==
    ASSUME Typed, Exclusive, Queued, StartsStopped, InUse, AnswersThread
    PROVE  \E f \in Files :
             /\ f = io_mutex /\ pc[f] = "wait"
             /\ \E p \in {"send", "user"} :
                   /\ pc' = [pc EXCEPT ![f] = p]
                   /\ p = "send" => Starting(f) /\ request' \in {"CONF", "START"} /\ io_mutex' = io_mutex
                   /\ p = "user" => Stopping(f) /\ request' = request /\ io_mutex' = None
                   /\ pm' = IF p = "user" THEN pm - 1 ELSE pm
             /\ opened' = opened /\ running' = running /\ past' = past /\ faults' = faults
             /\ core' = core /\ cb' = cb /\ table' = table /\ exiting' = exiting
             /\ interface' = interface /\ intfdata' = intfdata /\ dev' = dev
             /\ ioctl_active_count' = ioctl_active_count /\ open_count' = open_count
             /\ adc' = [adc EXCEPT !.armed = None]
             /\ Pending' = Pending
<1>1. PICK f \in Files : f = io_mutex /\ pc[f] = "wait"
    BY AnsweredWaits
<1>2. Pending' = Pending
    <2>1. Contains(reads', "urb") <=> Contains(reads, "urb")
        BY AnsweredWaits
    <2>2. QED
        BY <2>1 DEF Pending, Contains
<1>3. \E p \in {"send", "user"} :
         /\ pc' = [pc EXCEPT ![f] = p]
         /\ p = "send" => Starting(f) /\ request' \in {"CONF", "START"} /\ io_mutex' = io_mutex
         /\ p = "user" => Stopping(f) /\ request' = request /\ io_mutex' = None
         /\ pm' = IF p = "user" THEN pm - 1 ELSE pm
    BY <1>1 DEF AnswersThread, InitializeAnswered, ReleaseEnds, Goto, Unlock, Starting, Stopping, Sending, Typed,
       Commands
<1>4. QED
    BY <1>1, <1>2, <1>3 DEF AnswersThread, Taken, history, device

(* While the mutex is free, or held by f, no other thread sends.           *)
LEMMA OthersUnseen ==
    ASSUME Typed, Exclusive, NEW f \in Files, NEW p, pc' = [pc EXCEPT ![f] = p],
           io_mutex \in {None, f} \/ request' = request
    PROVE  /\ \A g \in Files : pc'[g] = IF g = f THEN p ELSE pc[g]
           /\ \A g \in Files \ {f} :
                /\ Starting(g)' = Starting(g) /\ Stopping(g)' = Stopping(g) /\ InIoctl(g)' = InIoctl(g)
                /\ Crashed(g)' = Crashed(g)
                /\ Sending(g) => io_mutex \notin {None, f}
<1>1. \A g \in Files : pc'[g] = IF g = f THEN p ELSE pc[g]
    BY DEF Typed
<1>2. ASSUME NEW g \in Files \ {f}
      PROVE  Sending(g) => io_mutex \notin {None, f}
    BY ConstantFacts DEF Exclusive, Sending
<1>3. ASSUME NEW g \in Files \ {f}
      PROVE  /\ Starting(g)' = Starting(g) /\ Stopping(g)' = Stopping(g) /\ InIoctl(g)' = InIoctl(g)
             /\ Crashed(g)' = Crashed(g)
    BY <1>1, <1>2 DEF Starting, Stopping, Sending, InIoctl, Crashed
<1>4. QED
    BY <1>1, <1>2, <1>3

(* The steps that no thread takes.                                         *)
Elsewhere == Event \/ Core \/ Callback \/ Converter \/ CompletesUrb \/ UNCHANGED vars

LEMMA ElsewhereFacts ==
    ASSUME Elsewhere
    PROVE  /\ pc' = pc /\ opened' = opened /\ request' = request /\ running' = running
           /\ open_count' = open_count /\ pm' = pm
<1> USE DEF device, counts, threads, transfers, history
<1>1. CASE Event \/ Core
    BY <1>1 DEF Event, Core, ProbeFails, ProbeRegisters, ProbeEnds, Suspend, Suspended, Unload, Unplug, Resume,
       Deregister, Disconnect, Detach, Delete, PreReset, PostReset
<1>2. CASE Callback \/ Converter \/ CompletesUrb \/ UNCHANGED vars
    BY <1>2 DEF Callback, CallbackFinish, CallbackDeletes, UrbEnds, Converter, Executes, ArmsData, Overruns,
       ArmsOverrun, CompletesUrb, vars
<1>3. QED
    BY <1>1, <1>2 DEF Elsewhere

LEMMA FailedSame ==
    ASSUME Typed, Elsewhere
    PROVE  past'.failed = past.failed /\ past'.stop_lost = past.stop_lost /\ past'.undrawn = past.undrawn
<1> USE DEF device, counts, threads, transfers, history
<1>1. CASE Event \/ Core
    BY <1>1 DEF Event, Core, ProbeFails, ProbeRegisters, ProbeEnds, Suspend, Suspended, Unload, Unplug, Resume,
       Deregister, Disconnect, Detach, Delete, PreReset, PostReset, Typed, Histories
<1>2. CASE Callback \/ Converter \/ CompletesUrb \/ UNCHANGED vars
    BY <1>2 DEF Callback, CallbackFinish, CallbackDeletes, UrbEnds, Converter, Executes, ArmsData, Overruns,
       ArmsOverrun, CompletesUrb, vars, DoReadIo, Typed, Histories
<1>3. QED
    BY <1>1, <1>2 DEF Elsewhere

(* The steps are those of threads and the others.                          *)
LEMMA Steps ==
    ASSUME [Next]_vars
    PROVE  Elsewhere \/ AnswersThread \/ \E f \in Files : Begin(f) \/ Continue(f)
BY DEF Next, Elsewhere, Host

(* A start begins with a device that is not running; a file is open while  *)
(* it is used.                                                             *)
LEMMA UseKept ==
    ASSUME LifeInv, [Next]_vars
    PROVE  StartsStopped' /\ InUse'
<1>0. Typed /\ Exclusive /\ Queued /\ StartsStopped /\ InUse
    BY DEF LifeInv
<1>1. CASE Elsewhere
    <2>1. /\ pc' = pc /\ opened' = opened /\ request' = request /\ running' = running
          /\ past'.failed = past.failed
        BY <1>0, <1>1, ElsewhereFacts, FailedSame
    <2>2. QED
        BY <1>0, <2>1 DEF StartsStopped, InUse, Starting, Sending, InIoctl
<1>2. ASSUME NEW f \in Files, NEW p \in Places,
             pc' = [pc EXCEPT ![f] = p],
             p \in {"send", "wait"} /\ request' # "STOP" =>
                ~running' /\ past'.failed < MaxFailed /\ f \in opened',
             p \in {"counted", "asleep", "relock", "submit", "kill", "dup_kill", "release"} => f \in opened',
             p = "submit" => running',
             p = "wait" => ~running',
             opened \ {f} \subseteq opened',
             \/ io_mutex \in {None, f}
             \/ request' = request /\ running' = running /\ past'.failed = past.failed
      PROVE  StartsStopped' /\ InUse'
    <2>1. /\ \A g \in Files : pc'[g] = IF g = f THEN p ELSE pc[g]
          /\ \A g \in Files \ {f} :
               /\ Starting(g)' = Starting(g) /\ InIoctl(g)' = InIoctl(g)
               /\ Starting(g) => io_mutex \notin {None, f}
        <3>1. /\ pc' = [pc EXCEPT ![f] = p]
              /\ io_mutex \in {None, f} \/ request' = request
            BY <1>2
        <3>2. Typed /\ Exclusive
            BY <1>0
        <3>3. /\ \A g \in Files : pc'[g] = IF g = f THEN p ELSE pc[g]
              /\ \A g \in Files \ {f} :
                    /\ Starting(g)' = Starting(g) /\ InIoctl(g)' = InIoctl(g)
                    /\ Sending(g) => io_mutex \notin {None, f}
            BY <3>1, <3>2, OthersUnseen
        <3>4. QED
            BY <3>3 DEF Starting
    <2>2. ASSUME NEW g \in Files, Starting(g)'
          PROVE  ~running' /\ past'.failed < MaxFailed
        BY <1>0, <1>2, <2>1, <2>2 DEF StartsStopped, Starting, Sending
    <2>3. ASSUME NEW g \in Files, InIoctl(g)' \/ pc'[g] \in {"kill", "dup_kill", "release"}
          PROVE  g \in opened'
        <3>1. CASE g = f
            BY <1>2, <2>1, <2>3, <3>1 DEF InIoctl
        <3>2. CASE g # f
            <4>1. InIoctl(g) \/ pc[g] \in {"kill", "dup_kill", "release"}
                BY <2>1, <2>3, <3>2
            <4>2. g \in opened
                BY <1>0, <4>1 DEF InUse
            <4>3. QED
                BY <1>2, <3>2, <4>2
        <3>3. QED
            BY <3>1, <3>2
    <2>4. ASSUME NEW g \in Files, pc'[g] \in {"submit", "wait"}
          PROVE  (pc'[g] = "submit" => running') /\ (pc'[g] = "wait" => ~running')
        <3>1. CASE g = f
            BY <1>2, <2>1, <2>4, <3>1
        <3>2. CASE g # f
            BY <1>0, <1>2, <2>1, <2>4, <3>2, ConstantFacts DEF StartsStopped, Exclusive
        <3>3. QED
            BY <3>1, <3>2
    <2>5. QED
        BY <2>2, <2>3, <2>4 DEF StartsStopped, InUse
<1>3. CASE AnswersThread
    <2>1. PICK f \in Files :
             /\ f = io_mutex /\ pc[f] = "wait"
             /\ \E p \in {"send", "user"} :
                   /\ pc' = [pc EXCEPT ![f] = p]
                   /\ p = "send" => Starting(f) /\ request' \in {"CONF", "START"} /\ io_mutex' = io_mutex
             /\ opened' = opened /\ running' = running /\ past' = past
        BY <1>0, <1>3, AnswerMoves
    <2>2. Starting(f) => ~running /\ past.failed < MaxFailed /\ f \in opened
        BY <1>0 DEF StartsStopped, InUse, Starting, Sending, InIoctl
    <2>3. QED
        BY <1>2, <2>1, <2>2 DEF Places
<1>4. ASSUME NEW f \in Files, Begin(f) \/ Continue(f)
      PROVE  StartsStopped' /\ InUse'
    BY <1>0, <1>2, <1>4, ThreadMoves
<1>5. QED
    BY <1>1, <1>3, <1>4, Steps
-----------------------------------------------------------------------------
(* The flow of transfers.                                                  *)

(* The steps of a thread that neither start nor stop the flow.             *)
Plain(f) ==
    \/ Open(f) \/ OpenFails(f) \/ IoctlCounted(f) \/ Flush(f) \/ FlushLast(f)
    \/ IoctlCrashes(f) \/ Waits(f) \/ InitializeNoMemory(f) \/ InitializeStarts(f)
    \/ InitializeSends(f) \/ InitializeSendFails(f) \/ InitializeNoAnswer(f)
    \/ Release(f) \/ ReleaseNoMemory(f) \/ ReleaseNoAnswer(f)

LEMMA ThreadSteps ==
    ASSUME NEW f \in Files, Begin(f) \/ Continue(f)
    PROVE  \/ Plain(f) \/ InitializeReads(f) \/ InitializeRuns(f) \/ FlushEnds(f)
           \/ ReleaseLast(f) \/ ReleaseSends(f) \/ ReleaseSendFails(f) \/ UsesFreed(f)
BY DEF Begin, Continue, Ioctl, Waits, Closes, Plain

(* The URB stays where it is when a thread asks for an answer, or does not *)
(* wait for it any more.                                                   *)
LEMMA AsksKeepsUrb ==
    ASSUME Typed, Exclusive, Queued, NEW f \in Files, pc[f] = "send", Asks(f)
    PROVE  Pending' = Pending
<1>1. Contains(reads', "urb") <=> Contains(reads, "urb")
    BY AskedFacts
<1>2. QED
    BY <1>1 DEF Pending, Contains

LEMMA WithdrawKeepsUrb ==
    ASSUME Typed, Queued, Withdraw("msg")
    PROVE  Pending' = Pending
<1>1. Contains(reads', "urb") <=> Contains(reads, "urb")
    BY WithdrawFacts DEF Queued
<1>2. QED
    BY <1>1 DEF Pending, Contains

LEMMA PlainMoves ==
    ASSUME Typed, Exclusive, Queued, NEW f \in Files, Plain(f)
    PROVE  /\ running' = running /\ Pending' = Pending
           /\ past'.undrawn = past.undrawn /\ past'.cut = past.cut
           /\ past.stop_lost => past'.stop_lost
           /\ pc[f] # "submit"
           /\ \E p \in Places \ {"submit"} :
                /\ pc' = [pc EXCEPT ![f] = p]
                /\ p \in {"send", "wait"} => request' # "STOP" /\ (Starting(f) \/ intfdata)
           /\ opened' \subseteq opened \/ intfdata
           /\ io_mutex \in {None, f} \/ request' = request
<1> USE DEF device, counts, threads, transfers, history, Goto, Leave, Lock, Unlock, MutexFree
<1>0. past \in Histories /\ pc \in [Files -> Places]
      /\ (pc[f] \in {"send", "wait", "submit", "kill", "dup_kill"} => io_mutex = f)
    BY DEF Typed, Exclusive
<1>1. CASE Open(f) \/ OpenFails(f)
    <2>1. pc' = [pc EXCEPT ![f] = "user"] /\ pc[f] = "user"
        BY <1>0, <1>1 DEF Open, OpenFails, Opening
    <2>2. Pending' = Pending
        BY <1>1 DEF Open, OpenFails, Pending
    <2>3. \E p \in Places \ {"submit"} :
             /\ pc' = [pc EXCEPT ![f] = p]
             /\ p \in {"send", "wait"} => request' # "STOP" /\ (Starting(f) \/ intfdata)
        BY <2>1 DEF Places
    <2>4. pc[f] # "submit"
        BY <2>1
    <2>5. QED
        BY <1>1, <2>2, <2>3, <2>4 DEF Open, OpenFails, Opening
<1>2. CASE IoctlCounted(f) \/ Flush(f) \/ FlushLast(f) \/ IoctlCrashes(f)
    <2>1. \E p \in Places \ {"submit", "send", "wait"} : pc' = [pc EXCEPT ![f] = p]
        BY <1>2 DEF IoctlCounted, Flush, FlushLast, IoctlCrashes, Places
    <2>2. Pending' = Pending
        BY <1>2 DEF IoctlCounted, Flush, FlushLast, IoctlCrashes, Pending
    <2>3. QED
        BY <1>2, <2>1, <2>2 DEF IoctlCounted, Flush, FlushLast, Closing, IoctlCrashes, Looks
<1>3. CASE InitializeNoMemory(f) \/ InitializeSendFails(f) \/ InitializeNoAnswer(f)
    <2>1. InitializeFails(f)
        BY <1>3 DEF InitializeNoMemory, InitializeSendFails, InitializeNoAnswer
    <2>2. Pending' = Pending
        BY <1>3, WithdrawKeepsUrb DEF InitializeNoMemory, InitializeSendFails, InitializeNoAnswer, NoAnswer, Pending
    <2>3. past'.undrawn = past.undrawn /\ past'.cut = past.cut /\ past'.stop_lost = past.stop_lost
        BY <1>0, <2>1 DEF InitializeFails, Histories
    <2>4. pc[f] # "submit" /\ io_mutex \in {None, f}
        BY <1>0, <1>3 DEF InitializeNoMemory, InitializeSendFails, InitializeNoAnswer, NoAnswer, SendFails,
           Initializes, Looks
    <2>5. pc' = [pc EXCEPT ![f] = "user"] /\ opened' = opened /\ running' = running
        BY <2>1 DEF InitializeFails
    <2>6. \E p \in Places \ {"submit"} :
             /\ pc' = [pc EXCEPT ![f] = p]
             /\ p \in {"send", "wait"} => request' # "STOP" /\ (Starting(f) \/ intfdata)
        <3>1. "user" \in Places \ {"submit"} /\ "user" \notin {"send", "wait"}
            BY DEF Places
        <3>2. QED
            BY <2>5, <3>1
    <2>7. QED
        BY <2>2, <2>3, <2>4, <2>5, <2>6
<1>4. CASE InitializeStarts(f)
    <2>1. Pending' = Pending
        BY <1>4 DEF InitializeStarts, Pending
    <2>2. \E p \in Places \ {"submit"} :
             /\ pc' = [pc EXCEPT ![f] = p]
             /\ p \in {"send", "wait"} => request' # "STOP" /\ (Starting(f) \/ intfdata)
        BY <1>4 DEF InitializeStarts, Initializes, Looks, Places
    <2>3. QED
        BY <1>4, <2>1, <2>2 DEF InitializeStarts, Initializes, Looks
<1>5. CASE InitializeSends(f)
    <2>1. Pending' = Pending
        BY <1>5, AsksKeepsUrb DEF InitializeSends, Sends
    <2>2. pc[f] = "send" /\ pc' = [pc EXCEPT ![f] = "wait"] /\ Starting(f) /\ request' # "STOP"
        BY <1>5 DEF InitializeSends, Sends, Asks, Starting, Sending
    <2>3. \E p \in Places \ {"submit"} :
             /\ pc' = [pc EXCEPT ![f] = p]
             /\ p \in {"send", "wait"} => request' # "STOP" /\ (Starting(f) \/ intfdata)
        BY <2>2 DEF Places
    <2>4. pc[f] # "submit"
        BY <2>2
    <2>5. QED
        BY <1>5, <2>1, <2>3, <2>4 DEF InitializeSends
<1>6. CASE Release(f) \/ ReleaseNoMemory(f)
    <2>1. Pending' = Pending
        BY <1>6 DEF Release, ReleaseNoMemory, Released, Pending
    <2>2. /\ past'.undrawn = past.undrawn /\ past'.cut = past.cut
          /\ past.stop_lost => past'.stop_lost
        BY <1>0, <1>6 DEF Release, ReleaseNoMemory, Histories
    <2>3. QED
        BY <1>6, <2>1, <2>2 DEF Release, ReleaseNoMemory, Released, Places
<1>7. CASE ReleaseNoAnswer(f)
    <2>1. Pending' = Pending
        BY <1>7, WithdrawKeepsUrb DEF ReleaseNoAnswer, NoAnswer
    <2>2. \E p \in Places \ {"submit"} :
             /\ pc' = [pc EXCEPT ![f] = p]
             /\ p \in {"send", "wait"} => request' # "STOP" /\ (Starting(f) \/ intfdata)
        <3>1. "user" \in Places \ {"submit"} /\ "user" \notin {"send", "wait"}
            BY DEF Places
        <3>2. QED
            BY <1>7, <3>1 DEF ReleaseNoAnswer, ReleaseEnds
    <2>3. QED
        BY <1>0, <1>7, <2>1, <2>2 DEF ReleaseNoAnswer, NoAnswer, ReleaseEnds
<1>8. CASE Waits(f)
    <2>1. /\ running' = running /\ reads' = reads /\ past' = past /\ opened' = opened
          /\ pc[f] \in {"counted", "asleep", "relock"} /\ request' = request
        BY <1>8, WaitsFacts
    <2>2. Pending' = Pending
        BY <2>1 DEF Pending
    <2>3. \E p \in Places \ {"submit", "send", "wait"} : pc' = [pc EXCEPT ![f] = p]
        BY <1>8, WaitsFacts DEF Places
    <2>4. QED
        BY <2>1, <2>2, <2>3
<1>9. QED
    BY <1>1, <1>2, <1>3, <1>4, <1>5, <1>6, <1>7, <1>8 DEF Plain

(* The steps that do.                                                      *)
LEMMA StopMoves ==
    ASSUME Typed, Exclusive, Queued, NEW f \in Files,
           \/ InitializeRuns(f) \/ ReleaseLast(f) \/ ReleaseSends(f) \/ ReleaseSendFails(f) \/ FlushEnds(f)
           \/ UsesFreed(f)
    PROVE  /\ Pending' = Pending
           /\ \/ /\ InitializeRuns(f) /\ Starting(f) /\ running'
                 /\ pc' = [pc EXCEPT ![f] = "submit"] /\ past' = past /\ opened' = opened
              \/ /\ ReleaseLast(f) /\ interface /\ running' = running
                 /\ pc' = [pc EXCEPT ![f] = "send"] /\ request' = "STOP" /\ past'.undrawn = ~Killed
                 /\ past'.cut = past.cut /\ past'.stop_lost = past.stop_lost /\ opened' = opened \ {f}
              \/ /\ ReleaseSends(f) /\ Stopping(f) /\ ~running' /\ opened' = opened
                 /\ pc' = [pc EXCEPT ![f] = "wait"] /\ past' = past
              \/ /\ ReleaseSendFails(f) /\ Stopping(f) /\ ~running' /\ opened' = opened
                 /\ pc' = [pc EXCEPT ![f] = "user"] /\ past'.undrawn = past.undrawn /\ past'.stop_lost
              \/ /\ FlushEnds(f) /\ running' = running /\ pc[f] \in {"kill", "dup_kill"} /\ opened' = opened
                 /\ \E p \in {"user", "release"} : pc' = [pc EXCEPT ![f] = p]
                 /\ past'.undrawn = past.undrawn /\ past'.stop_lost = past.stop_lost
                 /\ past'.cut = (past.cut \/ running)
              \/ /\ UsesFreed(f) /\ running' = running /\ dev = "freed" /\ opened' = opened
                 /\ pc' = [pc EXCEPT ![f] = "oops"] /\ past' = past
           /\ io_mutex \in {None, f} \/ request' = request
<1> USE DEF device, counts, threads, transfers, history, Goto, Leave, Lock, Unlock, MutexFree
<1>0. past \in Histories
    BY DEF Typed
<1>1. CASE InitializeRuns(f)
    BY <1>1 DEF InitializeRuns, Sends, Starting, Sending, Pending
<1>2. CASE ReleaseLast(f)
    BY <1>0, <1>2 DEF ReleaseLast, Released, OnlyOpener, Pending, Histories
<1>3. CASE ReleaseSends(f)
    <2>1. Pending' = Pending
        BY <1>3, AsksKeepsUrb DEF ReleaseSends, Sends
    <2>2. QED
        BY <1>3, <2>1 DEF ReleaseSends, Sends, Asks, Stopping, Sending, AfterStop
<1>4. CASE ReleaseSendFails(f)
    BY <1>0, <1>4 DEF ReleaseSendFails, SendFails, Stopping, Sending, AfterStop, Pending, Histories
<1>5. CASE FlushEnds(f)
    BY <1>0, <1>5 DEF FlushEnds, Pending, Histories
<1>6. CASE UsesFreed(f)
    <2>1. Pending' = Pending
        BY <1>6, WithdrawKeepsUrb DEF UsesFreed, Pending
    <2>2. QED
        BY <1>6, <2>1 DEF UsesFreed
<1>7. QED
    BY <1>1, <1>2, <1>3, <1>4, <1>5, <1>6
(* The steps of the URB and its handler.                                   *)
LEMMA UrbMoves ==
    ASSUME Typed, Queued, CallbackFinish \/ CallbackDeletes \/ UrbEnds \/ CompletesUrb
    PROVE  \/ /\ CallbackFinish /\ cb = "finish" /\ cb' = "idle"
              /\ Pending => Pending'
              /\ ~running => Pending' = Pending /\ past' = past
              /\ ~Submittable => Pending' = Pending
              /\ running => past' = [past EXCEPT !.cut = ~Pending']
           \/ /\ CallbackDeletes /\ cb = "delete" /\ cb' = "deleted" /\ Pending' = Pending /\ past' = past
           \/ /\ UrbEnds \/ CompletesUrb
              /\ Pending /\ cb = "idle" /\ ~Pending' /\ cb' \in {"finish", "delete", "oops"}
              /\ past' = past
<1> USE DEF device, counts, threads, transfers, history
<1>0. OneOfEach(reads)
    BY DEF Queued
<1>1. CASE CallbackFinish
    <2>1. CASE running
        BY <1>0, <1>1, <2>1, ReadIoFacts DEF CallbackFinish, Resubmits
    <2>2. CASE ~running
        BY <1>1, <2>2 DEF CallbackFinish, Resubmits, Pending
    <2>3. QED
        BY <1>1, <2>1, <2>2 DEF CallbackFinish
<1>2. CASE CallbackDeletes
    BY <1>2 DEF CallbackDeletes, Pending
<1>3. CASE UrbEnds
    <2>1. ~Pending'
        BY <1>0, <1>3, WithdrawFacts DEF UrbEnds, Pending
    <2>2. QED
        BY <1>3, <2>1 DEF UrbEnds
<1>4. CASE CompletesUrb
    <2>1. Pending /\ ~Pending'
        BY <1>4, CompletedFacts DEF Pending
    <2>2. QED
        BY <1>4, <2>1 DEF CompletesUrb
<1>5. QED
    BY <1>1, <1>2, <1>3, <1>4

(* The others touch neither.                                               *)
LEMMA AroundMoves ==
    ASSUME Typed, Event \/ Core \/ Converter \/ UNCHANGED vars
    PROVE  /\ Pending' = Pending /\ cb' = cb /\ running' = running /\ request' = request /\ pc' = pc
           /\ opened' = opened
           /\ past'.undrawn = past.undrawn /\ past'.stop_lost = past.stop_lost /\ past'.failed = past.failed
           /\ past.cut => past'.cut
           /\ Killed' = Killed
<1> USE DEF device, counts, threads, transfers, history
<1>0. past \in Histories
    BY DEF Typed
<1>1. CASE Event \/ Core
    BY <1>0, <1>1 DEF Event, Core, ProbeFails, ProbeRegisters, ProbeEnds, Suspend, Suspended, Unload, Unplug, Resume,
       Deregister, Disconnect, Detach, Delete, PreReset, PostReset, Histories, Pending, Killed
<1>2. CASE Converter \/ UNCHANGED vars
    BY <1>2 DEF Converter, Executes, ArmsData, Overruns, ArmsOverrun, vars, Pending, Killed
<1>3. QED
    BY <1>1, <1>2

LEMMA ElsewhereCases ==
    ASSUME Elsewhere
    PROVE  \/ Event \/ Core \/ Converter \/ UNCHANGED vars
           \/ CallbackFinish \/ CallbackDeletes \/ UrbEnds \/ CompletesUrb
BY DEF Elsewhere, Callback

(* Two ways to say that nobody submits the URB or stops the converter.     *)
LEMMA DrawnElsewhere ==
    ASSUME Typed, Queued, Drawn, Elsewhere
    PROVE  Drawn'
<1>0. /\ pc' = pc /\ request' = request /\ running' = running /\ past'.undrawn = past.undrawn
      /\ \A f \in Files : Stopping(f)' = Stopping(f)
    BY ElsewhereFacts, FailedSame DEF Stopping, Sending
<1>1. CASE Event \/ Core \/ Converter \/ UNCHANGED vars
    BY <1>0, <1>1, AroundMoves DEF Drawn
<1>2. CASE CallbackFinish \/ CallbackDeletes \/ UrbEnds \/ CompletesUrb
    BY <1>0, <1>2, UrbMoves DEF Drawn, Killed
<1>3. QED
    BY <1>1, <1>2, ElsewhereCases

LEMMA DrawnKept ==
    ASSUME LifeInv, [Next]_vars
    PROVE  Drawn'
<1>0. Typed /\ Exclusive /\ Queued /\ StartsStopped /\ InUse /\ Drawn
    BY DEF LifeInv
<1>1. CASE Elsewhere
    BY <1>0, <1>1, DrawnElsewhere
<1>2. CASE AnswersThread
    <2>1. PICK f \in Files, p \in {"send", "user"} :
             /\ f = io_mutex /\ pc[f] = "wait"
             /\ pc' = [pc EXCEPT ![f] = p]
             /\ p = "send" => request' # "STOP"
             /\ running' = running /\ past' = past /\ cb' = cb /\ Pending' = Pending
        BY <1>0, <1>2, AnswerMoves
    <2>2. /\ \A g \in Files : pc'[g] = IF g = f THEN p ELSE pc[g]
          /\ \A g \in Files \ {f} : Stopping(g)' = Stopping(g)
        BY <1>0, <2>1, OthersUnseen
    <2>3. ~Stopping(f)' /\ pc'[f] # "submit"
        BY <2>1, <2>2 DEF Stopping, Sending
    <2>4. QED
        BY <1>0, <2>1, <2>2, <2>3 DEF Drawn, Killed
<1>3. ASSUME NEW f \in Files, Begin(f) \/ Continue(f)
      PROVE  Drawn'
    <2>1. cb' = cb
        BY <1>0, <1>3, ThreadMoves
    <2>2. CASE Plain(f)
        <3>1. PICK p \in Places \ {"submit"} :
                /\ pc' = [pc EXCEPT ![f] = p]
                /\ p \in {"send", "wait"} => request' # "STOP"
            BY <1>0, <2>2, PlainMoves
        <3>2. running' = running /\ Pending' = Pending /\ past'.undrawn = past.undrawn
            BY <1>0, <2>2, PlainMoves
        <3>3. io_mutex \in {None, f} \/ request' = request
            BY <1>0, <2>2, PlainMoves
        <3>4. /\ \A g \in Files : pc'[g] = IF g = f THEN p ELSE pc[g]
              /\ \A g \in Files \ {f} : Stopping(g)' = Stopping(g)
            BY <1>0, <3>1, <3>3, OthersUnseen
        <3>5. ~Stopping(f)' /\ pc'[f] # "submit"
            BY <3>1, <3>4 DEF Stopping, Sending
        <3>6. QED
            BY <1>0, <2>1, <3>2, <3>4, <3>5 DEF Drawn, Killed
    <2>3. CASE InitializeReads(f)
        <3>1. /\ pc[f] = "submit" /\ DoReadIo /\ running' = running /\ request' = request
              /\ pc' = [pc EXCEPT ![f] = "user"]
            BY <2>3 DEF InitializeReads, Leave, Goto, threads, transfers
        <3>2. /\ running /\ io_mutex = f
              /\ past'.undrawn = past.undrawn
            BY <1>0, <3>1, ReadIoFacts DEF StartsStopped, Exclusive, Queued, Typed, Histories
        <3>3. /\ \A g \in Files : pc'[g] = IF g = f THEN "user" ELSE pc[g]
              /\ \A g \in Files \ {f} : Stopping(g)' = Stopping(g)
            BY <1>0, <3>1, OthersUnseen
        <3>4. ASSUME NEW g \in Files, pc'[g] = "submit" \/ Stopping(g)'
              PROVE  FALSE
            BY <1>0, <3>2, <3>3, <3>4 DEF Stopping, Sending, Exclusive
        <3>5. QED
            BY <1>0, <2>1, <3>1, <3>2, <3>4 DEF Drawn, Killed
    <2>4. CASE \/ InitializeRuns(f) \/ FlushEnds(f) \/ ReleaseLast(f) \/ ReleaseSends(f) \/ ReleaseSendFails(f)
               \/ UsesFreed(f)
        <3>1. /\ Pending' = Pending /\ Killed' = Killed
              /\ io_mutex \in {None, f} \/ request' = request
            BY <1>0, <2>1, <2>4, StopMoves DEF Killed
        <3>2. PICK p :
                /\ pc' = [pc EXCEPT ![f] = p]
                /\ \/ Starting(f) /\ past'.undrawn = past.undrawn
                   \/ past'.undrawn = ~Killed
                   \/ Stopping(f) /\ past'.undrawn = past.undrawn
                   \/ p \in {"user", "release", "oops"} /\ running' = running /\ past'.undrawn = past.undrawn
            BY <1>0, <2>4, StopMoves
        <3>3. CASE p \in {"user", "release", "oops"} /\ running' = running /\ past'.undrawn = past.undrawn
            <4>1. /\ \A g \in Files : pc'[g] = IF g = f THEN p ELSE pc[g]
                  /\ \A g \in Files \ {f} : Stopping(g)' = Stopping(g)
                <5>1. Typed /\ Exclusive
                    BY <1>0
                <5>2. pc' = [pc EXCEPT ![f] = p]
                    BY <3>2
                <5>3. io_mutex \in {None, f} \/ request' = request
                    BY <3>1
                <5>4. QED
                    BY <5>1, <5>2, <5>3, OthersUnseen
            <4>2. ~Stopping(f)' /\ pc'[f] # "submit"
                BY <3>3, <4>1 DEF Stopping, Sending
            <4>3. QED
                BY <1>0, <2>1, <3>1, <3>3, <4>1, <4>2 DEF Drawn
        <3>4. CASE Starting(f) /\ past'.undrawn = past.undrawn
            BY <1>0, <2>1, <3>1, <3>4 DEF Drawn, StartsStopped, Killed
        <3>5. CASE past'.undrawn = ~Killed
            BY <2>1, <3>1, <3>5 DEF Drawn, Killed
        <3>6. CASE Stopping(f) /\ past'.undrawn = past.undrawn
            BY <1>0, <2>1, <3>1, <3>6 DEF Drawn, Killed
        <3>7. QED
            BY <3>2, <3>3, <3>4, <3>5, <3>6
    <2>5. QED
        BY <1>3, <2>2, <2>3, <2>4, ThreadSteps
<1>4. QED
    BY <1>1, <1>2, <1>3, Steps

(* The flow stops only where cut says so.                                  *)
LEMMA FlowStays ==
    ASSUME LifeInv, [Next]_vars
    PROVE  FlowKept'
<1>0. Typed /\ Exclusive /\ Queued /\ StartsStopped /\ InUse /\ Detached /\ FlowKept
    BY DEF LifeInv
<1>1. CASE Elsewhere
    <2>1. pc' = pc /\ running' = running
        BY <1>1, ElsewhereFacts
    <2>2. CASE Event \/ Core \/ Converter \/ UNCHANGED vars
        BY <1>0, <2>1, <2>2, AroundMoves DEF FlowKept
    <2>3. CASE CallbackFinish \/ CallbackDeletes \/ UrbEnds \/ CompletesUrb
        <3>1. \/ running /\ past' = [past EXCEPT !.cut = ~Pending']
              \/ ~running \/ cb' # "idle"
            BY <1>0, <2>3, UrbMoves
        <3>2. QED
            BY <1>0, <2>1, <3>1 DEF FlowKept, Typed, Histories
    <2>4. QED
        BY <1>1, <2>2, <2>3, ElsewhereCases
<1>2. CASE AnswersThread
    <2>1. PICK f \in Files, p \in {"send", "user"} :
             /\ pc[f] = "wait" /\ pc' = [pc EXCEPT ![f] = p]
             /\ running' = running /\ past' = past /\ cb' = cb /\ Pending' = Pending
        BY <1>0, <1>2, AnswerMoves
    <2>2. \A g \in Files : pc[g] = "submit" => pc'[g] = "submit"
        BY <1>0, <2>1 DEF Typed
    <2>3. QED
        BY <1>0, <2>1, <2>2 DEF FlowKept
<1>3. ASSUME NEW f \in Files, Begin(f) \/ Continue(f)
      PROVE  FlowKept'
    <2>1. cb' = cb
        BY <1>0, <1>3, ThreadMoves
    <2>2. CASE Plain(f)
        <3>1. PICK p : pc' = [pc EXCEPT ![f] = p]
            BY <1>0, <2>2, PlainMoves
        <3>2. running' = running /\ Pending' = Pending /\ past'.cut = past.cut /\ pc[f] # "submit"
            BY <1>0, <2>2, PlainMoves
        <3>3. \A g \in Files : pc[g] = "submit" => pc'[g] = "submit"
            BY <1>0, <3>1, <3>2 DEF Typed
        <3>4. QED
            BY <1>0, <2>1, <3>2, <3>3 DEF FlowKept
    <2>3. CASE InitializeReads(f)
        <3>1. past'.cut = ~Pending'
            BY <1>0, <2>3, ReadIoFacts DEF InitializeReads, Queued, Typed, Histories
        <3>2. QED
            BY <3>1 DEF FlowKept
    <2>4. CASE InitializeRuns(f)
        <3>1. pc'[f] = "submit"
            BY <1>0, <2>4, StopMoves DEF Typed, InitializeRuns, Goto
        <3>2. QED
            BY <3>1 DEF FlowKept
    <2>5. CASE ReleaseSends(f) \/ ReleaseSendFails(f)
        BY <2>5 DEF ReleaseSends, ReleaseSendFails, AfterStop, FlowKept
    <2>6. CASE FlushEnds(f) \/ ReleaseLast(f)
        <3>1. pc[f] # "submit" /\ \E p : pc' = [pc EXCEPT ![f] = p]
            BY <2>6 DEF FlushEnds, ReleaseLast, Released, Goto, Unlock
        <3>2. \A g \in Files : pc[g] = "submit" => pc'[g] = "submit"
            BY <1>0, <3>1 DEF Typed
        <3>3. past.cut => past'.cut
            BY <1>0, <2>6 DEF FlushEnds, ReleaseLast, Typed, Histories
        <3>4. running' = running /\ Pending' = Pending
            BY <1>0, <2>6, StopMoves DEF FlushEnds, ReleaseLast, Released, transfers
        <3>5. QED
            BY <1>0, <2>1, <3>2, <3>3, <3>4 DEF FlowKept
    <2>7. CASE UsesFreed(f)
        <3>1. /\ Pending' = Pending /\ running' = running /\ past' = past /\ dev = "freed"
              /\ pc' = [pc EXCEPT ![f] = "oops"]
            BY <1>0, <2>7, StopMoves DEF UsesFreed, Goto, history
        <3>2. cb # "idle" \/ pc[f] # "submit"
            BY <1>0, <3>1 DEF Detached, Departed
        <3>3. \A g \in Files \ {f} : pc[g] = "submit" => pc'[g] = "submit"
            BY <1>0, <3>1 DEF Typed
        <3>4. QED
            BY <1>0, <2>1, <3>1, <3>2, <3>3 DEF FlowKept
    <2>8. QED
        BY <1>3, <2>2, <2>3, <2>4, <2>5, <2>6, <2>7, ThreadSteps
<1>4. QED
    BY <1>1, <1>2, <1>3, Steps
(* What is left of a device.                                               *)

LEMMA SendersBegin ==
    ASSUME Typed, Exclusive, Queued, NEW f \in Files, Begin(f) \/ Continue(f)
    PROVE  /\ \E p : /\ pc' = [pc EXCEPT ![f] = p]
                     /\ p \in {"send", "wait", "submit"} =>
                           pc[f] \in {"send", "wait", "submit"} \/ intfdata \/ interface
           /\ opened' \subseteq opened \/ intfdata
           /\ Pending' = Pending \/ Submittable
<1>1. CASE Plain(f)
    BY <1>1, PlainMoves DEF Starting, Sending
<1>2. CASE \/ InitializeRuns(f) \/ FlushEnds(f) \/ ReleaseLast(f) \/ ReleaseSends(f) \/ ReleaseSendFails(f)
           \/ UsesFreed(f)
    <2>1. /\ \E p : /\ pc' = [pc EXCEPT ![f] = p]
                    /\ p \in {"send", "wait", "submit"} => Sending(f) \/ interface
          /\ Pending' = Pending
          /\ opened' \subseteq opened
        BY <1>2, StopMoves DEF Starting, Stopping
    <2>2. QED
        BY <2>1 DEF Sending
<1>3. CASE InitializeReads(f)
    <2>1. pc' = [pc EXCEPT ![f] = "user"] /\ opened' = opened
        BY <1>3 DEF InitializeReads, Leave, Goto
    <2>2. Pending' = Pending \/ Submittable
        BY <1>3, ReadIoFacts DEF InitializeReads, Queued
    <2>3. PICK p : p = "user"
        OBVIOUS
    <2>4. pc' = [pc EXCEPT ![f] = p] /\ p \notin {"send", "wait", "submit"}
        BY <2>1, <2>3
    <2>5. QED
        BY <2>1, <2>2, <2>4
<1>4. QED
    BY <1>1, <1>2, <1>3, ThreadSteps

LEMMA DetachedKept ==
    ASSUME LifeInv, [Next]_vars
    PROVE  Detached'
<1> USE DEF device, counts, threads, transfers, history
<1>0. Typed /\ Exclusive /\ Queued /\ StartsStopped /\ InUse /\ Detached
    BY DEF LifeInv
<1>1. CASE Event \/ Core \/ Converter \/ UNCHANGED vars
    <2>1. pc' = pc /\ opened' = opened /\ Killed' = Killed /\ cb' = cb
        BY <1>0, <1>1, AroundMoves
    <2>2. CASE Converter \/ UNCHANGED vars
        BY <1>0, <2>1, <2>2 DEF Detached, Departed, Attached, Converter, Executes, ArmsData, Overruns, ArmsOverrun,
           vars
    <2>3. CASE ProbeFails \/ ProbeRegisters \/ ProbeEnds \/ Suspend \/ Suspended \/ Resume \/ PreReset
               \/ PostReset \/ Unload \/ Deregister \/ Unplug \/ Disconnect
        BY <1>0, <2>1, <2>3 DEF Detached, Departed, Attached, ProbeFails, ProbeRegisters, ProbeEnds, Suspend,
           Suspended, Resume, PreReset, PostReset, Unload, Deregister, Unplug, Disconnect, CoreGoes
    <2>4. CASE Detach
        <3>1. \A f \in Files : pc[f] \notin {"send", "wait", "submit"}
            BY <1>0, <2>4, ConstantFacts DEF Detach, Exclusive, MutexFree
        <3>2. QED
            BY <1>0, <2>1, <2>4, <3>1 DEF Detached, Departed, Attached, Detach, CoreGoes
    <2>5. CASE Delete
        BY <1>0, <2>1, <2>5 DEF Detached, Departed, Attached, Delete, Deletes, CoreGoes
    <2>6. QED
        BY <1>1, <2>2, <2>3, <2>4, <2>5 DEF Event, Core
<1>2. CASE CallbackFinish \/ CallbackDeletes \/ UrbEnds \/ CompletesUrb
    <2>1. pc' = pc /\ opened' = opened
        BY <1>2, ElsewhereFacts DEF Elsewhere, Callback
    <2>2. core' = core /\ interface' = interface /\ intfdata' = intfdata
        BY <1>2 DEF CallbackFinish, CallbackDeletes, UrbEnds, CompletesUrb
    <2>3. ~Killed
        BY <1>0, <1>2, UrbMoves DEF Killed
    <2>4. Attached \/ core = "disable"
        BY <1>0, <2>3 DEF Detached
    <2>5. (dev' = dev /\ cb # "deleted") \/ cb' = "deleted"
        BY <1>0, <1>2 DEF CallbackFinish, CallbackDeletes, UrbEnds, CompletesUrb
    <2>6. QED
        BY <1>0, <2>1, <2>2, <2>4, <2>5 DEF Detached, Departed, Attached
<1>3. CASE AnswersThread
    <2>1. PICK f \in Files, p \in {"send", "user"} :
             /\ pc[f] = "wait" /\ pc' = [pc EXCEPT ![f] = p]
             /\ cb' = cb /\ Pending' = Pending /\ opened' = opened
             /\ core' = core /\ interface' = interface /\ intfdata' = intfdata /\ dev' = dev
        BY <1>0, <1>3, AnswerMoves
    <2>2. \A g \in Files : pc'[g] = IF g = f THEN p ELSE pc[g]
        BY <1>0, <2>1 DEF Typed
    <2>3. QED
        BY <1>0, <2>1, <2>2 DEF Detached, Departed, Attached, Killed
<1>4. ASSUME NEW f \in Files, Begin(f) \/ Continue(f)
      PROVE  Detached'
    <2>1. PICK p : /\ pc' = [pc EXCEPT ![f] = p]
                   /\ p \in {"send", "wait", "submit"} =>
                         pc[f] \in {"send", "wait", "submit"} \/ intfdata \/ interface
        BY <1>0, <1>4, SendersBegin
    <2>2. \A g \in Files : pc'[g] = IF g = f THEN p ELSE pc[g]
        BY <1>0, <2>1 DEF Typed
    <2>3. /\ opened' \subseteq opened \/ intfdata
          /\ Pending' = Pending \/ Submittable
        BY <1>0, <1>4, SendersBegin
    <2>4. core' = core /\ interface' = interface /\ intfdata' = intfdata /\ dev' = dev /\ cb' = cb
        BY <1>0, <1>4, ThreadMoves
    <2>5. Submittable => Attached
        BY DEF Submittable, Reachable
    <2>6. Departed =>
             ~interface /\ ~intfdata /\ \A g \in Files : pc'[g] \notin {"send", "wait", "submit"}
        BY <1>0, <2>1, <2>2 DEF Detached
    <2>7. core = "absent" => opened' = {}
        BY <1>0, <2>3 DEF Detached
    <2>8. ~Attached /\ core # "disable" => Killed'
        BY <1>0, <2>3, <2>4, <2>5 DEF Detached, Killed
    <2>9. Departed' = Departed /\ Attached' = Attached
        BY <2>4 DEF Departed, Attached
    <2>10. QED
        BY <1>0, <2>4, <2>6, <2>7, <2>8, <2>9 DEF Detached
<1>5. QED
    BY <1>1, <1>2, <1>3, <1>4, Steps, ElsewhereCases

(* What the converter has been told.                                       *)
LEMMA CommandedKept ==
    ASSUME LifeInv, [Next]_vars
    PROVE  Commanded'
<1> USE DEF device, counts, threads, transfers, history
<1>0. Typed /\ Exclusive /\ Queued /\ StartsStopped /\ InUse /\ Commanded
      /\ adc \in Converters /\ past \in Histories
    BY DEF LifeInv, Typed
<1>1. CASE Elsewhere /\ ~Converter
    <2>1. running' = running /\ past'.stop_lost = past.stop_lost
        BY <1>0, <1>1, ElsewhereFacts, FailedSame
    <2>2. /\ adc'.command = adc.command /\ adc'.sampling = adc.sampling /\ adc'.ADIE = adc.ADIE
        <3>1. CASE PostReset \/ CompletesUrb
            BY <1>0, <3>1 DEF PostReset, CompletesUrb, Taken, Converters
        <3>2. CASE ~(PostReset \/ CompletesUrb)
            BY <1>1, <3>2 DEF Elsewhere, Event, Core, ProbeFails, ProbeRegisters, ProbeEnds, Suspend, Suspended,
               Unload, Unplug, Resume, Deregister, Disconnect, Detach, Delete, PreReset, Callback,
               CallbackFinish, CallbackDeletes, UrbEnds, vars
        <3>3. QED
            BY <3>1, <3>2
    <2>3. QED
        BY <1>0, <2>1, <2>2 DEF Commanded
<1>2. CASE Converter
    <2>1. running' = running /\ past' = past
        BY <1>2 DEF Converter, Executes, ArmsData, Overruns, ArmsOverrun
    <2>2. CASE ArmsData \/ Overruns \/ ArmsOverrun
        <3>1. adc'.command = adc.command /\ adc'.sampling = adc.sampling /\ (adc'.ADIE => adc.ADIE)
            BY <1>0, <2>2 DEF ArmsData, Overruns, ArmsOverrun, Converters
        <3>2. QED
            BY <1>0, <2>1, <3>1 DEF Commanded
    <2>3. CASE Executes
        <3>1. /\ Answering.command = None /\ Answering.sampling = adc.sampling /\ Answering.ADIE = adc.ADIE
              /\ Stalling.command = None /\ Stalling.sampling = adc.sampling /\ Stalling.ADIE = adc.ADIE
            BY <1>0 DEF Answering, Stalling, Converters
        <3>2. Answering \in Converters
            BY <1>0, ConverterFacts
        <3>3. \/ /\ adc.command \in {"ID", "CONF"} \/ (adc.command = "START" /\ adc.sampling)
                 /\ adc'.command = None /\ adc'.sampling = adc.sampling /\ adc'.ADIE = adc.ADIE
              \/ adc.command = "START" /\ adc'.command = None /\ adc'.sampling
              \/ adc.command = "STOP" /\ adc'.command = None /\ ~adc'.ADIE
            BY <2>3, <3>1, <3>2 DEF Executes, Converters
        <3>4. None \notin {"ID", "CONF", "START", "STOP"}
            BY ConstantFacts DEF Commands
        <3>5. QED
            BY <1>0, <2>1, <3>3, <3>4 DEF Commanded
    <2>4. QED
        BY <1>2, <2>2, <2>3 DEF Converter
<1>3. CASE AnswersThread
    <2>1. running' = running /\ past' = past /\ adc' = [adc EXCEPT !.armed = None]
        BY <1>3 DEF AnswersThread, Taken
    <2>2. QED
        BY <1>0, <2>1 DEF Commanded, Converters
<1>4. ASSUME NEW f \in Files, Begin(f) \/ Continue(f)
      PROVE  Commanded'
    <2>1. None \notin {"ID", "CONF", "START", "STOP"}
        BY ConstantFacts DEF Commands
    <2>2. CASE InitializeSends(f) \/ InitializeRuns(f) \/ ReleaseSends(f)
        <3>1. adc.command = None /\ adc' = [adc EXCEPT !.command = request] /\ past' = past
            BY <2>2 DEF InitializeSends, InitializeRuns, ReleaseSends, Sends
        <3>2. /\ adc'.command = request /\ adc'.sampling = adc.sampling /\ adc'.ADIE = adc.ADIE
            BY <1>0, <3>1 DEF Converters
        <3>3. \/ request \in {"ID", "CONF"} /\ ~running /\ running' = running
              \/ request = "START" /\ running'
              \/ request = "STOP" /\ ~running'
            BY <1>0, <2>2 DEF InitializeSends, InitializeRuns, ReleaseSends, Sends, AfterStop, StartsStopped,
               Starting, Sending
        <3>4. QED
            BY <1>0, <2>1, <3>1, <3>2, <3>3 DEF Commanded
    <2>3. CASE ReleaseSendFails(f)
        <3>1. adc' = adc /\ ~running' /\ past'.stop_lost
            BY <1>0, <2>3 DEF ReleaseSendFails, AfterStop, Histories
        <3>2. QED
            BY <3>1 DEF Commanded
    <2>4. CASE \/ (Plain(f) /\ ~InitializeSends(f)) \/ InitializeReads(f) \/ FlushEnds(f) \/ ReleaseLast(f)
               \/ UsesFreed(f)
        <3>1. adc' = adc /\ running' = running
            BY <2>4, WaitsFacts DEF Plain, Open, OpenFails, IoctlCounted, Flush, FlushLast, IoctlCrashes,
               InitializeNoMemory, InitializeFails, InitializeStarts, InitializeSendFails, InitializeNoAnswer,
               Release, ReleaseNoMemory, Released, ReleaseNoAnswer, InitializeReads, FlushEnds, ReleaseLast, UsesFreed
        <3>2. past.stop_lost => past'.stop_lost
            <4>1. CASE Plain(f)
                BY <1>0, <4>1, PlainMoves
            <4>2. CASE InitializeReads(f)
                BY <1>0, <4>2 DEF InitializeReads, DoReadIo, Histories
            <4>3. CASE FlushEnds(f) \/ ReleaseLast(f) \/ UsesFreed(f)
                BY <1>0, <4>3 DEF FlushEnds, ReleaseLast, UsesFreed, Histories
            <4>4. QED
                BY <2>4, <4>1, <4>2, <4>3
        <3>3. QED
            BY <1>0, <3>1, <3>2 DEF Commanded
    <2>5. QED
        BY <1>4, <2>2, <2>3, <2>4, ThreadSteps
<1>5. QED
    BY <1>1, <1>2, <1>3, <1>4, Steps
-----------------------------------------------------------------------------
(* What is counted: openers, uses, calls.                                  *)

LEMMA OpenedCount ==
    ASSUME Typed
    PROVE  /\ IsFiniteSet(opened) /\ Cardinality(opened) \in Nat
           /\ Cardinality(opened) <= Cardinality(Files)
           /\ Cardinality(opened) = 0 <=> opened = {}
           /\ \A f \in opened :
                /\ Cardinality(opened \ {f}) = Cardinality(opened) - 1
                /\ opened \ {f} = {} <=> Cardinality(opened) = 1
           /\ \A f \in Files \ opened : Cardinality(opened \cup {f}) = Cardinality(opened) + 1
<1>1. IsFiniteSet(Files) /\ opened \subseteq Files
    BY ConstantFacts DEF Typed
<1>2. IsFiniteSet(opened) /\ Cardinality(opened) <= Cardinality(Files)
    BY <1>1, FS_Subset
<1>3. Cardinality(opened) \in Nat /\ (Cardinality(opened) = 0 <=> opened = {})
    BY <1>2, FS_CardinalityType, FS_EmptySet
<1>4. ASSUME NEW f \in opened
      PROVE  /\ Cardinality(opened \ {f}) = Cardinality(opened) - 1
             /\ opened \ {f} = {} <=> Cardinality(opened) = 1
    <2>1. /\ IsFiniteSet(opened \ {f})
          /\ Cardinality(opened \ {f}) = Cardinality(opened) - 1
        BY <1>2, FS_RemoveElement
    <2>2. Cardinality(opened \ {f}) = 0 <=> opened \ {f} = {}
        BY <2>1, FS_EmptySet
    <2>3. QED
        BY <1>3, <2>1, <2>2
<1>5. ASSUME NEW f \in Files \ opened
      PROVE  Cardinality(opened \cup {f}) = Cardinality(opened) + 1
    BY <1>2, FS_AddElement
<1>6. QED
    BY <1>2, <1>3, <1>4, <1>5

(* What a thread does to the counts.                                       *)
LEMMA CountMoves ==
    ASSUME Typed, Exclusive, Queued, InUse, NEW f \in Files, Begin(f) \/ Continue(f)
    PROVE  \/ /\ Open(f) /\ pc' = pc /\ request' = request /\ io_mutex = None
              /\ past' = past /\ running' = running
              /\ f \notin opened /\ opened' = opened \cup {f}
              /\ open_count' = open_count + 1 /\ pm' = (IF open_count = 0 THEN pm + 1 ELSE pm)
           \/ /\ io_mutex \in {None, f} /\ pc' = [pc EXCEPT ![f] = "user"] /\ ~Stopping(f) /\ ~Crashed(f)
              /\ past'.failed = past.failed + 1 /\ past'.stop_lost = past.stop_lost
              /\ opened' = opened /\ open_count' = open_count - 1 /\ pm' = pm
           \/ /\ Release(f) \/ ReleaseNoMemory(f)
              /\ pc[f] = "release" /\ pc' = [pc EXCEPT ![f] = "user"] /\ io_mutex = None
              /\ past'.failed = past.failed /\ running' = running
              /\ past'.stop_lost \/ (past' = past /\ ~(open_count = 1 /\ interface))
              /\ f \in opened /\ opened' = opened \ {f}
              /\ open_count' = open_count - 1 /\ pm' = pm
           \/ /\ ReleaseLast(f)
              /\ pc[f] = "release" /\ pc' = [pc EXCEPT ![f] = "send"] /\ request' = "STOP" /\ io_mutex = None
              /\ past'.failed = past.failed /\ past'.stop_lost = past.stop_lost /\ running' = running
              /\ f \in opened /\ opened' = opened \ {f}
              /\ open_count = 1 /\ open_count' = open_count - 1 /\ pm' = pm
           \/ /\ ReleaseNoAnswer(f)
              /\ Stopping(f) /\ pc[f] = "wait" /\ pc' = [pc EXCEPT ![f] = "user"] /\ io_mutex = f
              /\ past' = past /\ opened' = opened /\ running' = running
              /\ open_count' = open_count /\ pm' = pm - 1
           \/ /\ opened' = opened /\ open_count' = open_count /\ pm' = pm
              /\ past'.failed = past.failed /\ (past.stop_lost => past'.stop_lost)
              /\ io_mutex \in {None, f} \/ request' = request
              /\ \E p \in Places :
                   /\ pc' = [pc EXCEPT ![f] = p]
                   /\ p \in {"send", "wait"} /\ request' = "STOP" => Stopping(f)
                   /\ Stopping(f) => \/ p \in {"send", "wait"} /\ request' = "STOP"
                                     \/ p = "oops" \/ past'.stop_lost
                   /\ Crashed(f) => p = "oops"
<1> USE DEF device, counts, threads, transfers, history, Goto, Leave, Lock, Unlock, MutexFree
<1>0. past \in Histories /\ pc \in [Files -> Places]
      /\ (pc[f] \in {"send", "wait", "submit", "kill", "dup_kill"} => io_mutex = f)
      /\ (pc[f] = "release" => f \in opened)
    BY DEF Typed, Exclusive, InUse
<1>1. CASE Open(f)
    BY <1>1 DEF Open, Opening
<1>2. CASE InitializeNoMemory(f) \/ InitializeSendFails(f) \/ InitializeNoAnswer(f)
    <2>1. InitializeFails(f) /\ ~Stopping(f) /\ ~Crashed(f) /\ io_mutex \in {None, f}
        BY <1>0, <1>2 DEF InitializeNoMemory, InitializeSendFails, InitializeNoAnswer, Initializes, Looks, SendFails,
           NoAnswer, Stopping, Sending, Crashed
    <2>2. past'.failed = past.failed + 1 /\ past'.stop_lost = past.stop_lost
        BY <1>0, <2>1 DEF InitializeFails, Histories
    <2>3. QED
        BY <2>1, <2>2 DEF InitializeFails
<1>3. CASE Release(f) \/ ReleaseNoMemory(f)
    <2>1. past'.failed = past.failed /\ (past'.stop_lost \/ (past' = past /\ ~(open_count = 1 /\ interface)))
        BY <1>0, <1>3 DEF Release, ReleaseNoMemory, OnlyOpener, Histories
    <2>2. QED
        BY <1>0, <1>3, <2>1 DEF Release, ReleaseNoMemory, Released
<1>4. CASE ReleaseLast(f)
    <2>1. past'.failed = past.failed /\ past'.stop_lost = past.stop_lost
        BY <1>0, <1>4 DEF ReleaseLast, Histories
    <2>2. QED
        BY <1>0, <1>4, <2>1 DEF ReleaseLast, Released, OnlyOpener
<1>5. CASE ReleaseNoAnswer(f)
    BY <1>0, <1>5 DEF ReleaseNoAnswer, NoAnswer, ReleaseEnds, Stopping, Sending
<1> DEFINE P(p) == /\ pc' = [pc EXCEPT ![f] = p]
                   /\ p \in {"send", "wait"} /\ request' = "STOP" => Stopping(f)
                   /\ Stopping(f) => \/ p \in {"send", "wait"} /\ request' = "STOP"
                                     \/ p = "oops" \/ past'.stop_lost
                   /\ Crashed(f) => p = "oops"
<1>6. CASE OpenFails(f)
    <2>1. P("user") /\ "user" \in Places
        BY <1>0, <1>6 DEF OpenFails, Opening, Places, Stopping, Sending, Crashed
    <2>2. QED
        BY <1>6, <2>1 DEF OpenFails, CountedBack
<1>7. CASE IoctlCounted(f) \/ Flush(f) \/ FlushLast(f) \/ FlushEnds(f) \/ IoctlCrashes(f)
           \/ InitializeStarts(f) \/ InitializeReads(f) \/ UsesFreed(f)
    <2>1. \E p \in Places : P(p)
        BY <1>0, <1>7 DEF IoctlCounted, Flush, FlushLast, Closing, FlushEnds, IoctlCrashes,
           InitializeStarts, Initializes, InitializeReads, UsesFreed, Looks, Places, Stopping, Sending, Crashed
    <2>2. past'.failed = past.failed /\ past'.stop_lost = past.stop_lost
        BY <1>0, <1>7 DEF IoctlCounted, Flush, FlushLast, FlushEnds, IoctlCrashes, InitializeStarts,
           InitializeReads, UsesFreed, DoReadIo, Histories
    <2>3. QED
        BY <1>7, <2>1, <2>2 DEF IoctlCounted, Flush, FlushLast, Closing, FlushEnds, IoctlCrashes,
           InitializeStarts, Initializes, InitializeReads, UsesFreed, Looks
<1>8. CASE InitializeSends(f) \/ InitializeRuns(f) \/ ReleaseSends(f)
    <2>1. \E p \in Places : P(p)
        BY <1>0, <1>8 DEF InitializeSends, InitializeRuns, ReleaseSends, Sends, Asks, Places, Stopping, Sending,
           Crashed
    <2>2. QED
        BY <1>8, <2>1 DEF InitializeSends, InitializeRuns, ReleaseSends
<1>9. CASE ReleaseSendFails(f)
    <2>1. past'.failed = past.failed /\ past'.stop_lost
        BY <1>0, <1>9 DEF ReleaseSendFails, Histories
    <2>2. P("user") /\ "user" \in Places
        BY <1>9, <2>1 DEF ReleaseSendFails, SendFails, Places, Crashed
    <2>3. QED
        BY <1>9, <2>1, <2>2 DEF ReleaseSendFails
<1>10. CASE Waits(f)
    <2>1. /\ past' = past /\ opened' = opened /\ request' = request /\ open_count' = open_count /\ pm' = pm
          /\ pc[f] \in {"counted", "asleep", "relock"} /\ (io_mutex = None \/ io_mutex' = io_mutex)
        BY <1>10, WaitsFacts
    <2>2. \E p \in Places \ {"send", "wait"} : pc' = [pc EXCEPT ![f] = p]
        BY <1>10, WaitsFacts DEF Places
    <2>3. \E p \in Places : P(p)
        BY <2>1, <2>2 DEF Stopping, Sending, Crashed
    <2>4. QED
        BY <2>1, <2>3
<1>11. QED
    BY <1>1, <1>2, <1>3, <1>4, <1>5, <1>6, <1>7, <1>8, <1>9, <1>10 DEF Begin, Continue, Ioctl, Waits, Closes

LEMMA OpenersKept ==
    ASSUME LifeInv, [Next]_vars
    PROVE  OpenersCounted'
<1>0. /\ Typed /\ Exclusive /\ Queued /\ StartsStopped /\ InUse /\ OpenersCounted
      /\ past.failed \in Nat /\ open_count \in Int
    BY DEF LifeInv, Typed, Histories
<1>1. CASE Elsewhere
    BY <1>0, <1>1, ElsewhereFacts, FailedSame DEF OpenersCounted
<1>2. CASE AnswersThread
    <2>1. opened' = opened /\ open_count' = open_count /\ past' = past
        BY <1>0, <1>2, AnswerMoves
    <2>2. QED
        BY <1>0, <2>1 DEF OpenersCounted
<1>3. ASSUME NEW f \in Files, Begin(f) \/ Continue(f)
      PROVE  OpenersCounted'
    <2>1. \/ /\ opened' = opened
             /\ \/ past'.failed = past.failed /\ open_count' = open_count
                \/ past'.failed = past.failed + 1 /\ open_count' = open_count - 1
          \/ /\ past'.failed = past.failed
             /\ \/ f \notin opened /\ opened' = opened \cup {f} /\ open_count' = open_count + 1
                \/ f \in opened /\ opened' = opened \ {f} /\ open_count' = open_count - 1
        BY <1>0, <1>3, CountMoves
    <2>2. QED
        BY <1>0, <2>1, OpenedCount DEF OpenersCounted
<1>4. QED
    BY <1>1, <1>2, <1>3, Steps
(* What the core and the handler leave alone.                              *)
LEMMA StoppingSame ==
    ASSUME Elsewhere
    PROVE  \A f \in Files : /\ Stopping(f)' = Stopping(f) /\ Crashed(f)' = Crashed(f)
                            /\ Starting(f)' = Starting(f) /\ InIoctl(f)' = InIoctl(f)
BY ElsewhereFacts DEF Stopping, Starting, Sending, Crashed, InIoctl

LEMMA DepartedStays ==
    ASSUME [Next]_vars, Departed
    PROVE  Departed'
<1> USE DEF device, counts, threads, transfers, history
<1>1. CASE Event \/ Core
    BY <1>1 DEF Event, Core, ProbeFails, ProbeRegisters, ProbeEnds, Suspend, Suspended, Unload, Unplug, Resume,
       Deregister, Disconnect, Detach, Delete, PreReset, PostReset, Departed, CoreGoes
<1>2. CASE Callback \/ Converter \/ Host \/ UNCHANGED vars
    BY <1>2 DEF Callback, CallbackFinish, CallbackDeletes, UrbEnds, Converter, Executes, ArmsData, Overruns,
       ArmsOverrun, CompletesUrb, AnswersThread, Host, vars, Departed
<1>3. ASSUME NEW f \in Files, Begin(f) \/ Continue(f)
      PROVE  core' = core
    <2>1. CASE Plain(f)
        BY <2>1, WaitsFacts DEF Plain, Open, OpenFails, IoctlCounted, Flush, FlushLast, IoctlCrashes,
           InitializeNoMemory, InitializeFails, InitializeStarts, InitializeSends, InitializeSendFails,
           InitializeNoAnswer, Release, ReleaseNoMemory, Released, ReleaseNoAnswer
    <2>2. CASE \/ InitializeReads(f) \/ InitializeRuns(f) \/ FlushEnds(f) \/ ReleaseLast(f) \/ ReleaseSends(f)
               \/ ReleaseSendFails(f) \/ UsesFreed(f)
        BY <2>2 DEF InitializeReads, InitializeRuns, FlushEnds, ReleaseLast, Released, ReleaseSends,
           ReleaseSendFails, UsesFreed
    <2>3. QED
        BY <1>3, <2>1, <2>2, ThreadSteps
<1>4. QED
    BY <1>1, <1>2, <1>3 DEF Next, Departed

(* While the mutex is free, or held by f, f alone can be stopping.         *)
LEMMA OneStops ==
    ASSUME Typed, Exclusive, NEW f \in Files, io_mutex \in {None, f}
    PROVE  /\ \A g \in Files \ {f} : ~Stopping(g)
           /\ io_mutex = None => ~Stopping(f)
BY ConstantFacts DEF Exclusive, Stopping, Sending

LEMMA AwakeKept ==
    ASSUME LifeInv, [Next]_vars
    PROVE  Awake'
<1> DEFINE S == \E g \in Files : Stopping(g)
           C == \E g \in Files : Crashed(g)
<1>0. /\ Typed /\ Exclusive /\ Queued /\ StartsStopped /\ InUse /\ Awake /\ Detached
      /\ past.failed \in Nat /\ open_count \in Int /\ pm \in Nat
    BY ConstantFacts DEF LifeInv, Typed, Histories
<1>1. CASE Elsewhere
    <2>1. /\ S' = S /\ C' = C
        BY <1>1, StoppingSame
    <2>2. open_count' = open_count /\ pm' = pm /\ Upset' = Upset
        BY <1>0, <1>1, ElsewhereFacts, FailedSame DEF Upset
    <2>3. QED
        BY <1>0, <2>1, <2>2, DepartedStays DEF Awake
<1>2. ASSUME NEW f \in Files, pc[f] = "wait", Stopping(f), pc' = [pc EXCEPT ![f] = "user"], io_mutex = f,
             past' = past, open_count' = open_count, pm' = pm - 1
      PROVE  Awake'
    <2>1. /\ \A g \in Files : pc'[g] = IF g = f THEN "user" ELSE pc[g]
          /\ \A g \in Files \ {f} : ~Sending(g)
        BY <1>0, <1>2 DEF Typed, Exclusive, Sending
    <2>2. ~S'
        BY <2>1 DEF Stopping, Sending
    <2>3. C => C'
        BY <1>2, <2>1 DEF Crashed
    <2>4. open_count <= 0 /\ pm >= 1
        BY <1>0, <1>2 DEF Awake
    <2>5. Upset' = Upset
        BY <1>2 DEF Upset
    <2>6. QED
        BY <1>0, <1>2, <2>2, <2>3, <2>4, <2>5, DepartedStays DEF Awake
<1>3. CASE AnswersThread
    <2>1. PICK f \in Files, p \in {"send", "user"} :
             /\ f = io_mutex /\ pc[f] = "wait" /\ pc' = [pc EXCEPT ![f] = p]
             /\ p = "send" => Starting(f) /\ request' \in {"CONF", "START"}
             /\ p = "user" => Stopping(f)
             /\ pm' = (IF p = "user" THEN pm - 1 ELSE pm)
             /\ past' = past /\ open_count' = open_count
        BY <1>0, <1>3, AnswerMoves
    <2>2. CASE p = "user"
        BY <1>2, <2>1, <2>2
    <2>3. CASE p = "send"
        <3>1. \A g \in Files : pc'[g] = IF g = f THEN p ELSE pc[g]
            BY <1>0, <2>1 DEF Typed
        <3>2. \A g \in Files \ {f} : ~Sending(g)
            BY <1>0, <2>1 DEF Exclusive, Sending
        <3>3. ~S' /\ ~S
            BY <2>1, <2>3, <3>1, <3>2 DEF Stopping, Starting, Sending
        <3>4. C => C'
            BY <2>1, <3>1 DEF Crashed
        <3>5. Upset' = Upset /\ pm' = pm
            BY <2>1, <2>3 DEF Upset
        <3>6. QED
            BY <1>0, <2>1, <3>3, <3>4, <3>5, DepartedStays DEF Awake
    <2>4. QED
        BY <2>1, <2>2, <2>3
<1>4. ASSUME NEW f \in Files, Begin(f) \/ Continue(f)
      PROVE  Awake'
    <2>1. CASE /\ Open(f) /\ pc' = pc /\ request' = request /\ io_mutex = None
               /\ past' = past /\ running' = running
               /\ f \notin opened /\ opened' = opened \cup {f}
               /\ open_count' = open_count + 1 /\ pm' = (IF open_count = 0 THEN pm + 1 ELSE pm)
        <3>1. ~S
            BY <1>0, <2>1, OneStops
        <3>2. S' = S /\ C' = C /\ Upset' = Upset
            BY <2>1 DEF Stopping, Sending, Crashed, Upset
        <3>3. QED
            BY <1>0, <2>1, <3>1, <3>2, DepartedStays DEF Awake
    <2>2. CASE /\ io_mutex \in {None, f} /\ pc' = [pc EXCEPT ![f] = "user"] /\ ~Stopping(f) /\ ~Crashed(f)
               /\ past'.failed = past.failed + 1 /\ past'.stop_lost = past.stop_lost
               /\ opened' = opened /\ open_count' = open_count - 1 /\ pm' = pm
        <3>1. \A g \in Files : pc'[g] = IF g = f THEN "user" ELSE pc[g]
            BY <1>0, <2>2 DEF Typed
        <3>2. \A g \in Files \ {f} : ~Sending(g)
            BY <1>0, <2>2, ConstantFacts DEF Exclusive, Sending
        <3>3. ~S'
            BY <3>1, <3>2 DEF Stopping, Sending
        <3>4. Upset'
            BY <1>0, <2>2 DEF Upset
        <3>5. QED
            BY <1>0, <2>2, <3>3, <3>4 DEF Awake
    <2>3. CASE /\ Release(f) \/ ReleaseNoMemory(f)
               /\ pc[f] = "release" /\ pc' = [pc EXCEPT ![f] = "user"] /\ io_mutex = None
               /\ past'.failed = past.failed /\ running' = running
               /\ past'.stop_lost \/ (past' = past /\ ~(open_count = 1 /\ interface))
               /\ f \in opened /\ opened' = opened \ {f}
               /\ open_count' = open_count - 1 /\ pm' = pm
        <3>1. \A g \in Files : pc'[g] = IF g = f THEN "user" ELSE pc[g]
            BY <1>0, <2>3 DEF Typed
        <3>2. \A g \in Files : ~Sending(g)
            BY <1>0, <2>3, ConstantFacts DEF Exclusive, Sending
        <3>3. ~S' /\ ~S
            BY <3>1, <3>2 DEF Stopping, Sending
        <3>4. C => C'
            BY <2>3, <3>1 DEF Crashed
        <3>5. interface \/ Departed
            BY <1>0, <2>3 DEF Detached
        <3>6. Upset' \/ (Upset' = Upset /\ (open_count # 1 \/ Departed))
            BY <2>3, <3>5 DEF Upset
        <3>7. QED
            BY <1>0, <2>3, <3>3, <3>4, <3>6, DepartedStays DEF Awake
    <2>4. CASE /\ ReleaseLast(f)
               /\ pc[f] = "release" /\ pc' = [pc EXCEPT ![f] = "send"] /\ request' = "STOP" /\ io_mutex = None
               /\ past'.failed = past.failed /\ past'.stop_lost = past.stop_lost /\ running' = running
               /\ f \in opened /\ opened' = opened \ {f}
               /\ open_count = 1 /\ open_count' = open_count - 1 /\ pm' = pm
        <3>1. \A g \in Files : pc'[g] = IF g = f THEN "send" ELSE pc[g]
            BY <1>0, <2>4 DEF Typed
        <3>2. S'
            BY <2>4, <3>1 DEF Stopping, Sending
        <3>3. C => C'
            BY <2>4, <3>1 DEF Crashed
        <3>4. Upset' = Upset
            BY <2>4 DEF Upset
        <3>5. QED
            BY <1>0, <2>4, <3>2, <3>3, <3>4, DepartedStays DEF Awake
    <2>5. CASE /\ ReleaseNoAnswer(f)
               /\ Stopping(f) /\ pc[f] = "wait" /\ pc' = [pc EXCEPT ![f] = "user"] /\ io_mutex = f
               /\ past' = past /\ opened' = opened /\ running' = running
               /\ open_count' = open_count /\ pm' = pm - 1
        BY <1>2, <2>5
    <2>6. CASE /\ opened' = opened /\ open_count' = open_count /\ pm' = pm
               /\ past'.failed = past.failed /\ (past.stop_lost => past'.stop_lost)
               /\ io_mutex \in {None, f} \/ request' = request
               /\ \E p \in Places :
                   /\ pc' = [pc EXCEPT ![f] = p]
                   /\ p \in {"send", "wait"} /\ request' = "STOP" => Stopping(f)
                   /\ Stopping(f) => \/ p \in {"send", "wait"} /\ request' = "STOP"
                                     \/ p = "oops" \/ past'.stop_lost
                   /\ Crashed(f) => p = "oops"
        <3>1. PICK p \in Places :
                   /\ pc' = [pc EXCEPT ![f] = p]
                   /\ p \in {"send", "wait"} /\ request' = "STOP" => Stopping(f)
                   /\ Stopping(f) => \/ p \in {"send", "wait"} /\ request' = "STOP"
                                     \/ p = "oops" \/ past'.stop_lost
                   /\ Crashed(f) => p = "oops"
            BY <2>6
        <3>2. /\ \A g \in Files : pc'[g] = IF g = f THEN p ELSE pc[g]
              /\ \A g \in Files \ {f} : Stopping(g)' = Stopping(g) /\ Crashed(g)' = Crashed(g)
            <4>1. Typed /\ Exclusive /\ pc' = [pc EXCEPT ![f] = p]
                BY <1>0, <3>1
            <4>2. io_mutex \in {None, f} \/ request' = request
                BY <2>6
            <4>3. QED
                BY <4>1, <4>2, OthersUnseen
        <3>3. /\ Stopping(f)' => Stopping(f)
              /\ Stopping(f) => Stopping(f)' \/ Crashed(f)' \/ past'.stop_lost
              /\ Crashed(f) => Crashed(f)'
            BY <3>1, <3>2 DEF Stopping, Sending, Crashed
        <3>4. (S' => S) /\ (S => S' \/ C' \/ past'.stop_lost) /\ (C => C')
            BY <3>2, <3>3
        <3>5. Upset => Upset'
            BY <2>6 DEF Upset
        <3>6. past'.stop_lost => Upset'
            BY DEF Upset
        <3>7. QED
            BY <1>0, <2>6, <3>4, <3>5, <3>6, DepartedStays DEF Awake
    <2>7. QED
        BY <1>0, <1>4, <2>1, <2>2, <2>3, <2>4, <2>5, <2>6, CountMoves
<1>5. QED
    BY <1>1, <1>3, <1>4, Steps
(* A device that runs is open.                                             *)

LEMMA RunsOpen ==
    ASSUME Typed, Exclusive, Queued, InUse, NEW f \in Files, Begin(f) \/ Continue(f), running'
    PROVE  running \/ opened' # {}
<1>1. CASE Plain(f)
    BY <1>1, PlainMoves
<1>2. CASE InitializeReads(f)
    BY <1>2 DEF InitializeReads
<1>3. CASE InitializeRuns(f)
    <2>1. f \in opened
        BY <1>3 DEF InUse, InIoctl, InitializeRuns, Sends
    <2>2. QED
        BY <1>3, <2>1 DEF InitializeRuns
<1>4. CASE ReleaseLast(f) \/ ReleaseSends(f) \/ ReleaseSendFails(f) \/ FlushEnds(f) \/ UsesFreed(f)
    BY <1>4 DEF ReleaseLast, Released, ReleaseSends, ReleaseSendFails, FlushEnds, UsesFreed, AfterStop, transfers
<1>5. QED
    BY <1>1, <1>2, <1>3, <1>4, ThreadSteps

LEMMA RunningOpenKept ==
    ASSUME LifeInv, [Next]_vars
    PROVE  RunningOpen'
<1> DEFINE SC == \E g \in Files : Stopping(g) \/ Crashed(g)
<1>0. /\ Typed /\ Exclusive /\ Queued /\ StartsStopped /\ InUse /\ Awake /\ Detached
      /\ OpenersCounted /\ RunningOpen
      /\ past.failed \in Nat /\ open_count \in Int
    BY DEF LifeInv, Typed, Histories
<1>1. CASE Elsewhere
    <2>1. SC' = SC
        BY <1>1, StoppingSame
    <2>2. opened' = opened /\ running' = running /\ Upset' = Upset
        BY <1>0, <1>1, ElsewhereFacts, FailedSame DEF Upset
    <2>3. QED
        BY <1>0, <2>1, <2>2, DepartedStays DEF RunningOpen
<1>2. CASE AnswersThread
    BY <1>0, <1>2, AnswerMoves DEF StartsStopped, RunningOpen
<1>3. ASSUME NEW f \in Files, Begin(f) \/ Continue(f)
      PROVE  RunningOpen'
    <2>1. SUFFICES ASSUME running', opened' = {}, ~Upset', ~Departed'
                   PROVE  SC'
        BY DEF RunningOpen
    <2>2. running
        BY <1>0, <1>3, <2>1, RunsOpen
    <2>3. CASE opened' = opened \cup {f}
        BY <2>1, <2>3
    <2>4. CASE past'.failed = past.failed + 1
        BY <1>0, <2>1, <2>4 DEF Upset
    <2>5. CASE /\ past'.stop_lost \/ (past' = past /\ ~(open_count = 1 /\ interface))
               /\ f \in opened /\ opened' = opened \ {f}
        <3>1. past' = past /\ ~(open_count = 1 /\ interface)
            BY <2>1, <2>5 DEF Upset
        <3>2. past.failed = 0
            BY <1>0, <2>1, <3>1 DEF Upset
        <3>3. open_count = 1
            BY <1>0, <2>1, <2>5, <3>2, OpenedCount DEF OpenersCounted
        <3>4. Departed
            BY <1>0, <2>5, <3>1, <3>3 DEF Detached
        <3>5. QED
            BY <2>1, <3>4, DepartedStays
    <2>6. CASE pc[f] = "release" /\ pc' = [pc EXCEPT ![f] = "send"] /\ request' = "STOP"
        <3>1. pc'[f] = "send"
            BY <1>0, <2>6 DEF Typed
        <3>2. QED
            BY <2>6, <3>1 DEF Stopping, Sending
    <2>7. CASE pc[f] = "wait"
        BY <1>0, <2>2, <2>7 DEF StartsStopped
    <2>8. CASE /\ opened' = opened
               /\ past'.failed = past.failed /\ (past.stop_lost => past'.stop_lost)
               /\ io_mutex \in {None, f} \/ request' = request
               /\ \E p \in Places :
                   /\ pc' = [pc EXCEPT ![f] = p]
                   /\ Stopping(f) => \/ p \in {"send", "wait"} /\ request' = "STOP"
                                     \/ p = "oops" \/ past'.stop_lost
                   /\ Crashed(f) => p = "oops"
        <3>1. PICK p \in Places :
                   /\ pc' = [pc EXCEPT ![f] = p]
                   /\ Stopping(f) => \/ p \in {"send", "wait"} /\ request' = "STOP"
                                     \/ p = "oops" \/ past'.stop_lost
                   /\ Crashed(f) => p = "oops"
            BY <2>8
        <3>2. /\ \A g \in Files : pc'[g] = IF g = f THEN p ELSE pc[g]
              /\ \A g \in Files \ {f} : Stopping(g)' = Stopping(g) /\ Crashed(g)' = Crashed(g)
            <4>1. Typed /\ Exclusive /\ pc' = [pc EXCEPT ![f] = p]
                BY <1>0, <3>1
            <4>2. io_mutex \in {None, f} \/ request' = request
                BY <2>8
            <4>3. QED
                BY <4>1, <4>2, OthersUnseen
        <3>3. /\ Stopping(f) => Stopping(f)' \/ Crashed(f)' \/ past'.stop_lost
              /\ Crashed(f) => Crashed(f)'
            BY <3>1, <3>2 DEF Stopping, Sending, Crashed
        <3>4. ~past'.stop_lost /\ ~Upset
            BY <2>1, <2>8 DEF Upset
        <3>5. ~Departed
            BY <2>1, DepartedStays
        <3>6. SC
            BY <1>0, <2>1, <2>2, <2>8, <3>4, <3>5 DEF RunningOpen
        <3>7. QED
            BY <3>2, <3>3, <3>4, <3>6
    <2>9. QED
        BY <1>0, <1>3, <2>3, <2>4, <2>5, <2>6, <2>7, <2>8, CountMoves
<1>4. QED
    BY <1>1, <1>2, <1>3, Steps

(* Nothing is started without a table.                                     *)
LEMMA StartsWithTable ==
    ASSUME Typed, Exclusive, Queued, StartsStopped, InUse, NEW f \in Files, Begin(f) \/ Continue(f)
    PROVE  \E p \in Places :
              /\ pc' = [pc EXCEPT ![f] = p]
              /\ p = "submit" => Starting(f)
              /\ p \in {"send", "wait"} /\ request' # "STOP" => Starting(f) \/ table
              /\ InIoctl(f)' => InIoctl(f) \/ dev # "freed"
              /\ past.undrawn => past'.undrawn \/ Killed
              /\ Upset => Upset'
              /\ Pending' = Pending \/ pc[f] = "submit"
              /\ past'.undrawn = past.undrawn \/ past'.undrawn = ~Killed
<1> USE DEF device, counts, threads, transfers, history, Goto, Leave, Lock, Unlock, MutexFree
<1>0. past \in Histories /\ pc \in [Files -> Places]
    BY DEF Typed
<1> DEFINE P(p) == /\ pc' = [pc EXCEPT ![f] = p]
                   /\ p = "submit" => Starting(f)
                   /\ p \in {"send", "wait"} /\ request' # "STOP" => Starting(f) \/ table
                   /\ p \in {"counted", "asleep", "relock", "submit"} \/ (p \in {"send", "wait"} /\ request' # "STOP") =>
                         InIoctl(f) \/ dev # "freed"
<1>1. \E p \in Places : P(p)
    <2>1. CASE Open(f) \/ OpenFails(f)
        <3>1. P(pc[f])
            BY <1>0, <2>1 DEF Open, OpenFails, Opening
        <3>2. QED
            BY <1>0, <3>1
    <2>2. CASE \/ IoctlCounted(f) \/ Flush(f) \/ FlushLast(f) \/ FlushEnds(f) \/ IoctlCrashes(f)
               \/ InitializeStarts(f) \/ InitializeReads(f) \/ UsesFreed(f)
        BY <2>2 DEF IoctlCounted, Flush, FlushLast, FlushEnds, IoctlCrashes, InitializeStarts,
           Initializes, InitializeReads, UsesFreed, Looks, Places
    <2>3. CASE InitializeNoMemory(f) \/ InitializeSendFails(f) \/ InitializeNoAnswer(f)
        <3>1. P("user") /\ "user" \in Places
            BY <2>3 DEF InitializeNoMemory, InitializeSendFails, InitializeNoAnswer, InitializeFails, Places
        <3>2. QED
            BY <3>1
    <2>4. CASE InitializeSends(f) \/ InitializeRuns(f) \/ ReleaseSends(f)
        BY <2>4 DEF InitializeSends, InitializeRuns, ReleaseSends, Sends, Asks, Places, Starting, Sending, InIoctl
    <2>5. CASE Release(f) \/ ReleaseNoMemory(f) \/ ReleaseLast(f) \/ ReleaseSendFails(f) \/ ReleaseNoAnswer(f)
        BY <2>5 DEF Release, ReleaseNoMemory, ReleaseLast, Released, ReleaseSendFails, ReleaseNoAnswer, ReleaseEnds,
           Places
    <2>6. CASE Waits(f)
        BY <2>6, WaitsFacts DEF Places
    <2>7. QED
        BY <2>1, <2>2, <2>3, <2>4, <2>5, <2>6 DEF Begin, Continue, Ioctl, Waits, Closes
<1>2. PICK p \in Places : P(p)
    BY <1>1
<1>3. InIoctl(f)' => InIoctl(f) \/ dev # "freed"
    <2>1. pc'[f] = p
        BY <1>0, <1>2
    <2>2. QED
        BY <1>2, <2>1 DEF InIoctl
<1>4. Upset => Upset'
    <2>1. past.failed \in Nat
        BY <1>0 DEF Histories
    <2>2. /\ past'.failed = past.failed \/ past'.failed = past.failed + 1
          /\ past.stop_lost => past'.stop_lost \/ past'.failed = past.failed + 1
        BY CountMoves
    <2>3. QED
        BY <2>1, <2>2 DEF Upset
<1>5. CASE Plain(f)
    BY <1>2, <1>3, <1>4, <1>5, PlainMoves
<1>6. CASE InitializeReads(f)
    <2>1. pc[f] = "submit" /\ past'.undrawn = past.undrawn
        BY <1>0, <1>6 DEF InitializeReads, DoReadIo, Histories
    <2>2. QED
        BY <1>2, <1>3, <1>4, <2>1
<1>7. CASE \/ InitializeRuns(f) \/ FlushEnds(f) \/ ReleaseLast(f) \/ ReleaseSends(f) \/ ReleaseSendFails(f)
           \/ UsesFreed(f)
    <2>1. Pending' = Pending /\ (past'.undrawn = past.undrawn \/ past'.undrawn = ~Killed)
        BY <1>7, StopMoves
    <2>2. past.undrawn => past'.undrawn \/ Killed
        BY <2>1
    <2>3. QED
        BY <1>2, <1>3, <1>4, <2>1, <2>2
<1>8. QED
    BY <1>5, <1>6, <1>7, ThreadSteps
LEMMA TableGoneKept ==
    ASSUME LifeInv, [Next]_vars
    PROVE  TableGone'
<1> USE DEF device, counts, threads, transfers, history
<1> DEFINE NoStart == \A g \in Files : ~Starting(g) /\ pc[g] # "submit"
           Excused == past.undrawn \/ Upset \/ Killed
<1>0. /\ Typed /\ Exclusive /\ Queued /\ StartsStopped /\ InUse /\ TableGone /\ Detached /\ Drawn
      /\ RunningOpen /\ Probed
    BY DEF LifeInv
<1>1. CASE Elsewhere
    <2>1. NoStart' = NoStart /\ Upset' = Upset /\ past'.undrawn = past.undrawn
        BY <1>0, <1>1, StoppingSame, ElsewhereFacts, FailedSame DEF Upset
    <2>2. CASE CallbackFinish \/ CallbackDeletes \/ UrbEnds \/ CompletesUrb
        <3>1. ~Killed /\ cb # "deleted"
            BY <1>0, <2>2, UrbMoves DEF Killed
        <3>2. CallbackDeletes => cb' = "deleted"
            BY DEF CallbackDeletes
        <3>3. ~CallbackDeletes => table' = table /\ core' = core
            BY <2>2 DEF CallbackFinish, UrbEnds, CompletesUrb
        <3>4. QED
            BY <1>0, <2>1, <3>1, <3>2, <3>3 DEF TableGone
    <2>3. CASE Event \/ Core \/ Converter \/ UNCHANGED vars
        <3>1. Killed' = Killed /\ cb' = cb
            BY <1>0, <2>3, AroundMoves
        <3>2. CASE Unload
            <4>1. /\ \A f \in Files : pc[f] = "user"
                  /\ opened = {} /\ core = "bound"
                BY <3>2 DEF Unload, CoreGoes
            <4>2. NoStart /\ \A f \in Files : ~Stopping(f) /\ ~Crashed(f)
                BY <4>1 DEF Starting, Stopping, Sending, Crashed
            <4>3. running => Upset
                BY <1>0, <4>1, <4>2 DEF RunningOpen, Departed
            <4>4. Excused
                BY <1>0, <4>3 DEF Drawn
            <4>5. QED
                BY <2>1, <3>1, <4>2, <4>4 DEF TableGone
        <3>3. CASE Delete
            BY <3>3 DEF Delete, CoreGoes, TableGone
        <3>4. CASE ~Unload /\ ~Delete
            <4>1. table' = table \/ table'
                BY <1>0, <2>3, <3>4 DEF Typed, Probed, CoreGoes, Event, Core, ProbeFails, ProbeRegisters, ProbeEnds, Suspend, Suspended, Unplug,
                   Resume, Deregister, Disconnect, Detach, PreReset, PostReset, Converter, Executes, ArmsData,
                   Overruns, ArmsOverrun, vars
            <4>2. core = "gone" => core' = "gone"
                BY <2>3, <3>4 DEF Event, Core, ProbeFails, ProbeRegisters, ProbeEnds, Suspend, Suspended, Unplug,
                   Resume, Deregister, Disconnect, Detach, PreReset, PostReset, Converter, Executes, ArmsData,
                   Overruns, ArmsOverrun, vars, CoreGoes
            <4>3. QED
                BY <1>0, <2>1, <3>1, <4>1, <4>2 DEF TableGone
        <3>5. QED
            BY <3>2, <3>3, <3>4
    <2>4. QED
        BY <1>1, <2>2, <2>3, ElsewhereCases
<1>2. CASE AnswersThread
    <2>1. PICK f \in Files, p \in {"send", "user"} :
             /\ f = io_mutex /\ pc' = [pc EXCEPT ![f] = p]
             /\ p = "send" => Starting(f)
             /\ past' = past /\ cb' = cb /\ Pending' = Pending
             /\ core' = core /\ table' = table
        BY <1>0, <1>2, AnswerMoves
    <2>2. /\ \A g \in Files : pc'[g] = IF g = f THEN p ELSE pc[g]
          /\ \A g \in Files \ {f} : Starting(g)' = Starting(g)
        BY <1>0, <2>1, OthersUnseen
    <2>3. NoStart => NoStart'
        BY <2>1, <2>2 DEF Starting, Sending
    <2>4. Excused => Excused'
        BY <2>1 DEF Upset, Killed
    <2>5. QED
        BY <1>0, <2>1, <2>3, <2>4 DEF TableGone
<1>3. ASSUME NEW f \in Files, Begin(f) \/ Continue(f)
      PROVE  TableGone'
    <2>1. PICK p \in Places :
              /\ pc' = [pc EXCEPT ![f] = p]
              /\ p = "submit" => Starting(f)
              /\ p \in {"send", "wait"} /\ request' # "STOP" => Starting(f) \/ table
              /\ past.undrawn => past'.undrawn \/ Killed
              /\ Upset => Upset'
              /\ Pending' = Pending \/ pc[f] = "submit"
        BY <1>0, <1>3, StartsWithTable
    <2>2. core' = core /\ table' = table /\ cb' = cb
        BY <1>0, <1>3, ThreadMoves
    <2>3. io_mutex \in {None, f} \/ request' = request
        BY <1>0, <1>3, ThreadMoves
    <2>4. /\ \A g \in Files : pc'[g] = IF g = f THEN p ELSE pc[g]
          /\ \A g \in Files \ {f} : Starting(g)' = Starting(g)
        <3>1. Typed /\ Exclusive /\ pc' = [pc EXCEPT ![f] = p]
            BY <1>0, <2>1
        <3>2. QED
            BY <2>3, <3>1, OthersUnseen
    <2>5. ~table /\ NoStart => NoStart'
        BY <2>1, <2>4 DEF Starting, Sending
    <2>6. NoStart => Killed' = Killed
        BY <2>1, <2>2 DEF Killed
    <2>7. NoStart /\ Excused => Excused'
        BY <2>1, <2>6
    <2>8. QED
        BY <1>0, <2>2, <2>5, <2>7 DEF TableGone
<1>4. QED
    BY <1>1, <1>2, <1>3, Steps

LEMMA HandlerKept ==
    ASSUME LifeInv, [Next]_vars
    PROVE  HandlerHasTable'
<1> USE DEF device, counts, threads, transfers, history
<1>0. /\ Typed /\ Exclusive /\ Queued /\ StartsStopped /\ InUse /\ TableGone /\ Detached /\ HandlerHasTable
    BY DEF LifeInv
<1> DEFINE Excuse == past.undrawn \/ Upset
<1>1. HandlerHasTable = (cb = "oops" => Excuse)
    BY DEF HandlerHasTable, Upset
<1>2. CASE Elsewhere
    <2>1. Excuse' = Excuse
        BY <1>0, <1>2, FailedSame DEF Upset
    <2>2. CASE Event \/ Core \/ Converter \/ UNCHANGED vars
        BY <1>0, <2>1, <2>2, AroundMoves DEF HandlerHasTable, Upset
    <2>3. CASE CallbackFinish \/ CallbackDeletes \/ UrbEnds
        BY <2>3 DEF CallbackFinish, CallbackDeletes, UrbEnds, HandlerHasTable
    <2>4. CASE CompletesUrb
        <3>1. /\ cb = "idle" /\ Pending /\ Reachable
              /\ cb' = "oops" => ~table
            BY <1>0, <2>4, CompletedFacts DEF CompletesUrb, Taken
        <3>2. cb' = "oops" => Excuse
            BY <1>0, <3>1 DEF TableGone, Reachable, Attached, Killed
        <3>3. QED
            BY <2>1, <3>2 DEF HandlerHasTable, Upset
    <2>5. QED
        BY <1>2, <2>2, <2>3, <2>4, ElsewhereCases
<1>3. CASE AnswersThread
    <2>1. cb' = cb /\ past' = past
        BY <1>0, <1>3, AnswerMoves
    <2>2. QED
        BY <1>0, <2>1 DEF HandlerHasTable
<1>4. ASSUME NEW f \in Files, Begin(f) \/ Continue(f)
      PROVE  HandlerHasTable'
    <2>1. cb' = cb
        BY <1>0, <1>4, ThreadMoves
    <2>2. /\ past.undrawn => past'.undrawn \/ Killed
          /\ Upset => Upset'
        BY <1>0, <1>4, StartsWithTable
    <2>3. cb = "oops" => ~Killed
        BY DEF Killed
    <2>4. QED
        BY <1>0, <2>1, <2>2, <2>3 DEF HandlerHasTable, Upset
<1>5. QED
    BY <1>2, <1>3, <1>4, Steps

(* The calls.                                                              *)

LEMMA CallsFinite ==
    ASSUME Typed
    PROVE  /\ IsFiniteSet(Calls) /\ IsFiniteSet(Dead) /\ IsFiniteSet(Calls \cup Dead)
           /\ Cardinality(Calls) \in Nat /\ Cardinality(Calls \cup Dead) \in Nat
           /\ Cardinality(Calls) <= Cardinality(Calls \cup Dead)
           /\ Cardinality(Calls \cup Dead) <= Cardinality(Files) /\ Cardinality(Files) \in Nat
           /\ Cardinality(Calls) = 0 <=> Calls = {}
<1>1. IsFiniteSet(Files) /\ Calls \subseteq Files /\ Dead \subseteq Files
    BY ConstantFacts DEF Calls, Dead
<1>2. IsFiniteSet(Calls) /\ IsFiniteSet(Dead) /\ IsFiniteSet(Calls \cup Dead)
    BY <1>1, FS_Subset
<1>3. Cardinality(Calls) \in Nat /\ Cardinality(Calls \cup Dead) \in Nat /\ Cardinality(Files) \in Nat
    BY <1>1, <1>2, FS_CardinalityType
<1>4. Cardinality(Calls) <= Cardinality(Calls \cup Dead)
    BY <1>2, FS_Subset
<1>5. Cardinality(Calls \cup Dead) <= Cardinality(Files)
    BY <1>1, FS_Subset
<1>6. Cardinality(Calls) = 0 <=> Calls = {}
    BY <1>2, FS_EmptySet
<1>7. QED
    BY <1>1, <1>2, <1>3, <1>4, <1>5, <1>6

LEMMA CallsFiniteAlways ==
    Typed => /\ IsFiniteSet(Calls) /\ IsFiniteSet(Dead) /\ IsFiniteSet(Calls \cup Dead)
             /\ Cardinality(Calls) \in Nat /\ Cardinality(Calls \cup Dead) \in Nat
BY CallsFinite

(* How a thread changes what is counted.                                   *)
LEMMA CallMoves ==
    ASSUME Typed, Exclusive, NEW f \in Files, Begin(f) \/ Continue(f)
    PROVE  \/ /\ ioctl_active_count' = ioctl_active_count + 1
              /\ ~InIoctl(f) /\ ~Crashed(f) /\ InIoctl(f)' /\ ~Crashed(f)'
           \/ /\ ioctl_active_count' = ioctl_active_count - 1
              /\ InIoctl(f) /\ ~Crashed(f) /\ ~InIoctl(f)' /\ ~Crashed(f)'
           \/ ioctl_active_count' = ioctl_active_count /\ ~InIoctl(f)' /\ Crashed(f)'
           \/ /\ ioctl_active_count' = ioctl_active_count
              /\ InIoctl(f)' = InIoctl(f) /\ Crashed(f)' = Crashed(f)
<1> USE DEF device, counts, threads, transfers, history, Goto, Leave, Lock, Unlock, MutexFree
<1>0. pc \in [Files -> Places]
    BY DEF Typed
<1>1. CASE IoctlCounted(f)
    <2>1. pc[f] = "user" /\ pc'[f] = "counted" /\ ioctl_active_count' = ioctl_active_count + 1
        BY <1>0, <1>1 DEF IoctlCounted
    <2>2. QED
        BY <2>1 DEF InIoctl, Crashed
<1>2. CASE InitializeReads(f)
    <2>1. pc[f] = "submit" /\ pc'[f] = "user" /\ ioctl_active_count' = ioctl_active_count - 1
        BY <1>0, <1>2 DEF InitializeReads
    <2>2. QED
        BY <2>1 DEF InIoctl, Crashed
<1>3. CASE InitializeNoMemory(f) \/ InitializeSendFails(f) \/ InitializeNoAnswer(f)
    <2>1. /\ pc[f] = "counted" \/ (pc[f] \in {"send", "wait"} /\ request # "STOP")
          /\ InitializeFails(f)
        BY <1>3 DEF InitializeNoMemory, InitializeSendFails, InitializeNoAnswer, Initializes, Looks, SendFails,
           NoAnswer
    <2>2. pc'[f] = "user" /\ ioctl_active_count' = ioctl_active_count - 1
        BY <1>0, <2>1 DEF InitializeFails
    <2>3. QED
        BY <2>1, <2>2 DEF InIoctl, Crashed
<1>4. CASE IoctlCrashes(f) \/ UsesFreed(f)
    <2>1. pc'[f] = "oops" /\ ioctl_active_count' = ioctl_active_count
        BY <1>0, <1>4 DEF IoctlCrashes, UsesFreed
    <2>2. QED
        BY <2>1 DEF InIoctl, Crashed
<1>5. CASE InitializeStarts(f) \/ InitializeSends(f) \/ InitializeRuns(f)
    <2>1. /\ pc[f] = "counted" \/ (pc[f] = "send" /\ request # "STOP")
          /\ pc'[f] = "submit" \/ (pc'[f] \in {"send", "wait"} /\ request' # "STOP")
          /\ ioctl_active_count' = ioctl_active_count
        BY <1>0, <1>5 DEF InitializeStarts, Initializes, Looks, InitializeSends, InitializeRuns, Sends, Asks
    <2>2. QED
        BY <2>1 DEF InIoctl, Crashed
<1>6. CASE Open(f) \/ OpenFails(f)
    BY <1>6 DEF Open, OpenFails, InIoctl, Crashed
<1>7. CASE Flush(f) \/ FlushLast(f) \/ FlushEnds(f)
    <2>1. /\ pc[f] \in {"user", "kill", "dup_kill"} /\ pc'[f] \in {"user", "release", "kill", "dup_kill"}
          /\ ioctl_active_count' = ioctl_active_count
        BY <1>0, <1>7 DEF Flush, FlushLast, FlushEnds, Closing
    <2>2. QED
        BY <2>1 DEF InIoctl, Crashed
<1>8. CASE Release(f) \/ ReleaseNoMemory(f) \/ ReleaseLast(f) \/ ReleaseSends(f) \/ ReleaseSendFails(f)
           \/ ReleaseNoAnswer(f)
    <2>1. /\ pc[f] = "release" \/ (pc[f] \in {"send", "wait"} /\ request = "STOP")
          /\ pc'[f] = "user" \/ (pc'[f] \in {"send", "wait"} /\ request' = "STOP")
          /\ ioctl_active_count' = ioctl_active_count
        BY <1>0, <1>8 DEF Release, ReleaseNoMemory, ReleaseLast, Released, ReleaseSends, ReleaseSendFails,
           ReleaseNoAnswer, ReleaseEnds, NoAnswer, Sends, SendFails, Asks
    <2>2. QED
        BY <2>1 DEF InIoctl, Crashed
<1>9. CASE Waits(f)
    <2>1. PICK p \in {"asleep", "relock", "user", "oops"} :
             /\ pc' = [pc EXCEPT ![f] = p]
             /\ ioctl_active_count' = IF p = "user" THEN ioctl_active_count - 1 ELSE ioctl_active_count
        BY <1>9, WaitsFacts
    <2>2. pc[f] \in {"counted", "asleep", "relock"} /\ pc'[f] = p
        BY <1>0, <1>9, <2>1, WaitsFacts
    <2>3. QED
        BY <2>1, <2>2 DEF InIoctl, Crashed
<1>10. QED
    BY <1>1, <1>2, <1>3, <1>4, <1>5, <1>6, <1>7, <1>8, <1>9 DEF Begin, Continue, Ioctl, Waits, Closes

LEMMA CallsKept ==
    ASSUME LifeInv, [Next]_vars
    PROVE  CallsCounted'
<1> USE DEF device, counts, threads, transfers, history
<1>0. /\ Typed /\ Exclusive /\ Queued /\ StartsStopped /\ InUse /\ CallsCounted
      /\ ioctl_active_count \in Int /\ past \in Histories
    BY DEF LifeInv, Typed
<1>1. Typed'
    BY TypedKept
<1>2. (/\ IsFiniteSet(Calls) /\ IsFiniteSet(Dead) /\ IsFiniteSet(Calls \cup Dead)
       /\ Cardinality(Calls) \in Nat /\ Cardinality(Calls \cup Dead) \in Nat)'
    BY <1>1, CallsFiniteAlways, PTL
<1>3. CASE Elsewhere
    <2>1. Calls' = Calls /\ Dead' = Dead
        BY <1>3, StoppingSame DEF Calls, Dead
    <2>2. CASE ProbeEnds
        <3>1. /\ ioctl_active_count' = 0 /\ core' = "bound"
              /\ past'.early = (ioctl_active_count # 0) /\ ~past.early
            BY <1>0, <2>2 DEF ProbeEnds, CoreGoes, CallsCounted, Histories
        <3>2. PICK n \in Nat, m \in Nat, k \in Nat :
                 n = Cardinality(Calls) /\ m = Cardinality(Calls \cup Dead) /\ k = Cardinality(Files)
            BY <1>0, CallsFinite
        <3>3. n <= ioctl_active_count /\ n <= m /\ m <= k
            BY <1>0, <3>1, <3>2, CallsFinite DEF CallsCounted
        <3>4. n - k <= 0 /\ 0 <= m
            BY <3>2, <3>3
        <3>5. ~past'.early => n <= 0
            <4>1. ~past'.early => ioctl_active_count = 0
                BY <3>1
            <4>2. QED
                BY <3>3, <4>1
        <3>6. QED
            BY <2>1, <3>1, <3>2, <3>4, <3>5 DEF CallsCounted
    <2>3. CASE ~ProbeEnds
        <3>1. /\ ioctl_active_count' = ioctl_active_count /\ past'.early = past.early
              /\ core' \in {"absent", "registered"} => core \in {"absent", "registered"}
            <4>1. CASE Event \/ Core
                BY <1>0, <2>3, <4>1 DEF Event, Core, ProbeFails, ProbeRegisters, Suspend, Suspended, Unload, Unplug,
                   Resume, Deregister, Disconnect, Detach, Delete, PreReset, PostReset, CoreGoes, Histories
            <4>2. CASE Converter \/ CompletesUrb \/ UrbEnds \/ CallbackDeletes \/ UNCHANGED vars
                BY <4>2 DEF Converter, Executes, ArmsData, Overruns, ArmsOverrun, CompletesUrb, UrbEnds,
                   CallbackDeletes, vars
            <4>3. CASE CallbackFinish
                BY <1>0, <4>3 DEF CallbackFinish, DoReadIo, Histories
            <4>4. QED
                BY <1>3, <4>1, <4>2, <4>3, ElsewhereCases
        <3>2. QED
            BY <1>0, <2>1, <3>1 DEF CallsCounted
    <2>4. QED
        BY <2>2, <2>3
<1>4. CASE AnswersThread
    <2>1. PICK f \in Files, p \in {"send", "user"} :
             /\ f = io_mutex /\ pc[f] = "wait" /\ pc' = [pc EXCEPT ![f] = p]
             /\ p = "send" => Starting(f) /\ request' \in {"CONF", "START"}
             /\ p = "user" => Stopping(f)
             /\ past' = past /\ core' = core /\ ioctl_active_count' = ioctl_active_count
        BY <1>0, <1>4, AnswerMoves
    <2>2. /\ \A g \in Files : pc'[g] = IF g = f THEN p ELSE pc[g]
          /\ \A g \in Files \ {f} : InIoctl(g)' = InIoctl(g) /\ Crashed(g)' = Crashed(g)
        BY <1>0, <2>1, OthersUnseen
    <2>3. InIoctl(f)' = InIoctl(f) /\ Crashed(f)' = Crashed(f)
        BY <2>1, <2>2 DEF InIoctl, Starting, Stopping, Sending, Crashed
    <2>4. Calls' = Calls /\ Dead' = Dead
        BY <2>2, <2>3 DEF Calls, Dead
    <2>5. QED
        BY <1>0, <2>1, <2>4 DEF CallsCounted
<1>5. ASSUME NEW f \in Files, Begin(f) \/ Continue(f)
      PROVE  CallsCounted'
    <2>1. \A g \in Files \ {f} : InIoctl(g)' = InIoctl(g) /\ Crashed(g)' = Crashed(g)
        BY <1>0, <1>5, ThreadMoves, OthersUnseen
    <2>2. core' = core /\ past'.early = past.early
        BY <1>0, <1>5, ThreadMoves
    <2>3. /\ IsFiniteSet(Calls) /\ IsFiniteSet(Dead) /\ IsFiniteSet(Calls \cup Dead)
          /\ Cardinality(Calls) \in Nat /\ Cardinality(Calls \cup Dead) \in Nat /\ Cardinality(Files) \in Nat
        BY <1>0, CallsFinite
    <2>4. CASE /\ ioctl_active_count' = ioctl_active_count + 1
               /\ ~InIoctl(f) /\ ~Crashed(f) /\ InIoctl(f)' /\ ~Crashed(f)'
        <3>1. Calls' = Calls \cup {f} /\ Dead' = Dead /\ f \notin Calls \cup Dead
            BY <2>1, <2>4 DEF Calls, Dead
        <3>2. Calls' \cup Dead' = (Calls \cup Dead) \cup {f}
            BY <3>1
        <3>3. /\ Cardinality(Calls') = Cardinality(Calls) + 1
              /\ Cardinality(Calls' \cup Dead') = Cardinality(Calls \cup Dead) + 1
            BY <2>3, <3>1, <3>2, FS_AddElement
        <3>4. QED
            BY <1>0, <2>2, <2>3, <2>4, <3>3 DEF CallsCounted
    <2>5. CASE /\ ioctl_active_count' = ioctl_active_count - 1
               /\ InIoctl(f) /\ ~Crashed(f) /\ ~InIoctl(f)' /\ ~Crashed(f)'
        <3>1. Calls' = Calls \ {f} /\ Dead' = Dead /\ f \in Calls /\ f \notin Dead
            BY <2>1, <2>5 DEF Calls, Dead
        <3>2. Calls' \cup Dead' = (Calls \cup Dead) \ {f}
            BY <3>1
        <3>3. /\ Cardinality(Calls') = Cardinality(Calls) - 1
              /\ Cardinality(Calls' \cup Dead') = Cardinality(Calls \cup Dead) - 1
            BY <2>3, <3>1, <3>2, FS_RemoveElement
        <3>4. QED
            BY <1>0, <2>2, <2>3, <2>5, <3>3 DEF CallsCounted
    <2>6. CASE ioctl_active_count' = ioctl_active_count /\ ~InIoctl(f)' /\ Crashed(f)'
        <3>1. Calls' \subseteq Calls /\ Calls \cup Dead \subseteq Calls' \cup Dead'
            BY <2>1, <2>6 DEF Calls, Dead
        <3>2. /\ Cardinality(Calls') <= Cardinality(Calls)
              /\ Cardinality(Calls \cup Dead) <= Cardinality(Calls' \cup Dead')
            BY <1>2, <2>3, <3>1, FS_Subset
        <3>3. QED
            BY <1>0, <1>2, <2>2, <2>3, <2>6, <3>2 DEF CallsCounted
    <2>7. CASE /\ ioctl_active_count' = ioctl_active_count
               /\ InIoctl(f)' = InIoctl(f) /\ Crashed(f)' = Crashed(f)
        <3>1. Calls' = Calls /\ Dead' = Dead
            BY <2>1, <2>7 DEF Calls, Dead
        <3>2. QED
            BY <1>0, <2>2, <2>7, <3>1 DEF CallsCounted
    <2>8. QED
        BY <1>0, <1>5, <2>4, <2>5, <2>6, <2>7, CallMoves
<1>6. QED
    BY <1>3, <1>4, <1>5, Steps

(* The device is deleted with its table: then no call is counted.          *)
LEMMA DeletedIdle ==
    ASSUME Typed, CallsCounted, Deletes, dev' = "freed", ~past.early
    PROVE  \A f \in Files : ~InIoctl(f)
<1>1. ioctl_active_count = 0
    BY DEF Deletes, NoCalls
<1>2. Cardinality(Calls) = 0
    <2>1. PICK n \in Nat : n = Cardinality(Calls)
        BY CallsFinite
    <2>2. n <= 0
        BY <1>1, <2>1 DEF CallsCounted
    <2>3. QED
        BY <2>1, <2>2
<1>3. QED
    BY <1>2, CallsFinite DEF Calls

LEMMA NothingKept ==
    ASSUME LifeInv, [Next]_vars
    PROVE  NothingLeftBehind'
<1> USE DEF device, counts, threads, transfers, history
<1> DEFINE Idle == \A g \in Files : ~InIoctl(g)
           Gone == past.undrawn \/ Killed
<1>0. /\ Typed /\ Exclusive /\ Queued /\ StartsStopped /\ InUse /\ Detached /\ Drawn /\ CallsCounted
      /\ NothingLeftBehind
      /\ past \in Histories
    BY DEF LifeInv, Typed
<1>1. /\ NothingLeftBehind = (dev = "freed" /\ ~past.early => Idle /\ Gone)
      /\ NothingLeftBehind' = (dev' = "freed" /\ ~past'.early => Idle' /\ Gone')
    BY DEF NothingLeftBehind, Killed
<1>2. CASE Elsewhere
    <2>1. Idle' = Idle /\ past'.undrawn = past.undrawn
        BY <1>0, <1>2, StoppingSame, FailedSame
    <2>2. CASE CallbackFinish \/ UrbEnds \/ CompletesUrb
        <3>1. ~Killed /\ cb # "deleted"
            BY <1>0, <2>2, UrbMoves DEF Killed, CallbackFinish, UrbEnds, CompletesUrb
        <3>2. dev' = dev
            BY <2>2 DEF CallbackFinish, UrbEnds, CompletesUrb
        <3>3. dev # "freed"
            BY <1>0, <3>1 DEF Detached, Attached
        <3>4. QED
            BY <1>1, <3>2, <3>3
    <2>3. CASE CallbackDeletes
        <3>1. cb = "delete" /\ cb' = "deleted" /\ Deletes /\ Pending' = Pending /\ past' = past
            BY <2>3 DEF CallbackDeletes, Pending
        <3>2. Gone'
            BY <1>0, <3>1 DEF Drawn, Killed
        <3>3. dev' = "freed" /\ ~past'.early => Idle
            BY <1>0, <3>1, DeletedIdle
        <3>4. QED
            BY <1>1, <2>1, <3>2, <3>3
    <2>4. CASE Event \/ Core \/ Converter \/ UNCHANGED vars
        <3>1. Killed' = Killed
            BY <1>0, <2>4, AroundMoves
        <3>2. Gone' = Gone
            BY <2>1, <3>1
        <3>3. CASE Delete
            <4>1. core = "delete" /\ Deletes /\ past' = past
                BY <3>3 DEF Delete, CoreGoes
            <4>2. Killed
                BY <1>0, <4>1 DEF Detached, Attached
            <4>3. dev' = "freed" /\ ~past'.early => Idle
                BY <1>0, <4>1, DeletedIdle
            <4>4. QED
                BY <1>1, <2>1, <3>2, <4>2, <4>3
        <3>4. CASE ProbeFails \/ ProbeRegisters
            BY <1>1, <3>4 DEF ProbeFails, ProbeRegisters
        <3>5. CASE ProbeEnds
            <4>1. dev' = dev /\ ~past.early
                BY <1>0, <3>5 DEF ProbeEnds, CoreGoes, CallsCounted
            <4>2. QED
                BY <1>0, <1>1, <2>1, <3>2, <4>1
        <3>6. CASE ~Delete /\ ~ProbeFails /\ ~ProbeRegisters /\ ~ProbeEnds
            <4>1. dev' = dev /\ past'.early = past.early
                BY <1>0, <2>4, <3>6 DEF Event, Core, Suspend, Suspended, Unload, Unplug, Resume, Deregister,
                   Disconnect, Detach, PreReset, PostReset, Converter, Executes, ArmsData, Overruns, ArmsOverrun,
                   vars, Histories
            <4>2. QED
                BY <1>0, <1>1, <2>1, <3>2, <4>1
        <3>7. QED
            BY <3>3, <3>4, <3>5, <3>6
    <2>5. QED
        BY <1>2, <2>2, <2>3, <2>4, ElsewhereCases
<1>3. CASE AnswersThread
    <2>1. PICK f \in Files, p \in {"send", "user"} :
             /\ f = io_mutex /\ pc' = [pc EXCEPT ![f] = p]
             /\ p = "send" => Starting(f)
             /\ past' = past /\ cb' = cb /\ Pending' = Pending /\ dev' = dev
        BY <1>0, <1>3, AnswerMoves
    <2>2. /\ \A g \in Files : pc'[g] = IF g = f THEN p ELSE pc[g]
          /\ \A g \in Files \ {f} : InIoctl(g)' = InIoctl(g)
        BY <1>0, <2>1, OthersUnseen
    <2>3. InIoctl(f)' => InIoctl(f)
        BY <2>1, <2>2 DEF InIoctl, Starting, Sending
    <2>4. Idle => Idle'
        BY <2>2, <2>3
    <2>5. Gone => Gone'
        BY <2>1 DEF Killed
    <2>6. QED
        BY <1>0, <1>1, <2>1, <2>4, <2>5
<1>4. ASSUME NEW f \in Files, Begin(f) \/ Continue(f)
      PROVE  NothingLeftBehind'
    <2>1. PICK p \in Places :
              /\ pc' = [pc EXCEPT ![f] = p]
              /\ InIoctl(f)' => InIoctl(f) \/ dev # "freed"
              /\ Pending' = Pending \/ pc[f] = "submit"
              /\ past'.undrawn = past.undrawn \/ past'.undrawn = ~Killed
        BY <1>0, <1>4, StartsWithTable
    <2>2. dev' = dev /\ cb' = cb /\ past'.early = past.early
        BY <1>0, <1>4, ThreadMoves
    <2>3. io_mutex \in {None, f} \/ request' = request
        BY <1>0, <1>4, ThreadMoves
    <2>4. \A g \in Files \ {f} : InIoctl(g)' = InIoctl(g)
        BY <1>0, <2>1, <2>3, OthersUnseen
    <2>5. dev = "freed" /\ Idle => Idle'
        BY <2>1, <2>4
    <2>6. Idle => Pending' = Pending
        BY <2>1 DEF InIoctl
    <2>7. Idle /\ Gone => Gone'
        <3>1. Idle => Killed' = Killed
            BY <2>2, <2>6 DEF Killed
        <3>2. QED
            BY <2>1, <3>1
    <2>8. QED
        BY <1>0, <1>1, <2>2, <2>5, <2>7
<1>5. QED
    BY <1>2, <1>3, <1>4, Steps

(* The table comes with the end of ad_probe; ad_disconnect tells the calls *)
(* to end.                                                                 *)
LEMMA ProbedKept ==
    ASSUME LifeInv, [Next]_vars
    PROVE  Probed'
<1> USE DEF device, counts, threads, transfers, history
<1>0. /\ Typed /\ Exclusive /\ Queued /\ StartsStopped /\ InUse /\ Probed
    BY DEF LifeInv
<1>1. CASE Elsewhere
    <2>1. CASE Event \/ Core
        BY <1>0, <2>1 DEF Event, Core, ProbeFails, ProbeRegisters, ProbeEnds, Suspend, Suspended, Unload, Unplug,
           Resume, Deregister, Disconnect, Detach, Exiting, Delete, PreReset, PostReset, CoreGoes, Probed
    <2>2. CASE Callback \/ Converter \/ UNCHANGED vars
        BY <1>0, <2>2 DEF Callback, CallbackFinish, CallbackDeletes, Deletes, UrbEnds, Converter, Executes, ArmsData,
           Overruns, ArmsOverrun, vars, Probed
    <2>3. CASE CompletesUrb
        BY <1>0, <2>3 DEF CompletesUrb, Probed
    <2>4. QED
        BY <1>1, <2>1, <2>2, <2>3 DEF Elsewhere
<1>2. CASE AnswersThread
    BY <1>0, <1>2, AnswerMoves DEF Probed
<1>3. ASSUME NEW f \in Files, Begin(f) \/ Continue(f)
      PROVE  Probed'
    <2>1. core' = core /\ table' = table /\ exiting' = exiting
        BY <1>0, <1>3, ThreadMoves
    <2>2. QED
        BY <1>0, <2>1 DEF Probed
<1>4. QED
    BY <1>1, <1>2, <1>3, Steps

(* A call loses its client, or gets its data; once io_mutex is kept, it    *)
(* stays kept.                                                             *)
LEMMA LostKept ==
    ASSUME LifeInv, [Next]_vars
    PROVE  Lost' /\ (kept => kept')
<1> USE DEF device, counts, threads, transfers, history, clients
<1> DEFINE Goal == robbed' \subseteq Files /\ kept' \in {kept, TRUE}
<1>0. Lost
    BY DEF LifeInv
<1>1. ASSUME Event \/ Core \/ Callback \/ Converter \/ AnswersThread \/ UNCHANGED vars
      PROVE  Goal
    <2>1. UNCHANGED clients
        BY <1>1 DEF Event, Core, ProbeFails, ProbeRegisters, ProbeEnds, Suspend, Suspended, Unload, Unplug,
           Resume, Deregister, Disconnect, Detach, Delete, PreReset, PostReset, Callback, CallbackFinish,
           CallbackDeletes, UrbEnds, Converter, Executes, ArmsData, Overruns, ArmsOverrun, AnswersThread, vars
    <2>2. QED
        BY <1>0, <2>1 DEF Lost
<1>2. ASSUME Robs
      PROVE  robbed' \subseteq Files
    BY <1>0, <1>2 DEF Lost, Robs
<1>3. ASSUME CompletesUrb
      PROVE  Goal
    BY <1>0, <1>2, <1>3 DEF CompletesUrb, Lost
<1>4. ASSUME NEW f \in Files, Begin(f) \/ Continue(f)
      PROVE  Goal
    <2>1. CASE SetParams(f) \/ InitializeNoMemory(f) \/ InitializeStarts(f)
        BY <1>2, <2>1 DEF SetParams, InitializeNoMemory, InitializeFails, InitializeStarts
    <2>2. CASE GetDataExits(f) \/ GetDataEnds(f) \/ GetDataKeeps(f) \/ GetDataCrashes(f)
        BY <1>0, <2>2 DEF GetDataExits, GetDataEnds, GetDataKeeps, GetDataCrashes, Served, Lost
    <2>3. CASE InitializeSendFails(f) \/ InitializeNoAnswer(f)
        BY <1>0, <2>3 DEF InitializeSendFails, InitializeNoAnswer, InitializeFails, Lost
    <2>4. CASE \/ Begin(f) \/ Closes(f) \/ UsesFreed(f) \/ IoctlCrashes(f) \/ IoctlRefused(f) \/ GetDataSleeps(f)
               \/ GetDataWoken(f) \/ InitializeSends(f) \/ InitializeRuns(f) \/ InitializeReads(f)
        <3>1. UNCHANGED clients
            BY <2>4 DEF Begin, Open, OpenFails, IoctlCounted, Flush, FlushLast, Closes, FlushEnds, Release,
               ReleaseNoMemory, ReleaseLast, Released, ReleaseSends, ReleaseSendFails, ReleaseNoAnswer,
               UsesFreed, IoctlCrashes, IoctlRefused, GetDataSleeps, GetDataWoken, InitializeSends,
               InitializeRuns, InitializeReads
        <3>2. QED
            BY <1>0, <3>1 DEF Lost
    <2>5. QED
        BY <1>4, <2>1, <2>2, <2>3, <2>4 DEF Continue, Ioctl
<1>5. Goal
    BY <1>1, <1>3, <1>4 DEF Next, Host
<1>6. CASE kept' = kept
    BY <1>0, <1>5, <1>6 DEF Lost
<1>7. CASE kept' = TRUE
    BY <1>5, <1>7 DEF Lost
<1>8. QED
    BY <1>5, <1>6, <1>7
-----------------------------------------------------------------------------
(* The theorems.                                                           *)

LEMMA LifeInitially == Init => LifeInv
<1> SUFFICES ASSUME Init
             PROVE  LifeInv
    OBVIOUS
<1> USE DEF Init
<1>1. Typed
    <2>1. reads \in Seq(Transfers)
        OBVIOUS
    <2>2. adc \in Converters
        BY DEF Converters
    <2>3. past \in Histories
        BY ConstantFacts DEF Histories
    <2>4. pm \in 0 .. MaxUses /\ faults \in 0 .. MaxFaults /\ ioctl_active_count \in Int /\ open_count \in Int
        BY ConstantFacts
    <2>5. {intfdata, interface, exiting, table, running} \subseteq BOOLEAN
        OBVIOUS
    <2>6. core \in Cores /\ pc \in [Files -> Places] /\ request \in Commands
        BY DEF Cores, Places, Commands
    <2>7. QED
        BY <2>1, <2>2, <2>3, <2>4, <2>5, <2>6 DEF Typed
<1>2. /\ \A x : ~Contains(reads, x)
      /\ OneOfEach(reads)
      /\ ~Pending /\ Killed
    BY DEF Contains, OneOfEach, Pending, Killed
<1>3. \A f \in Files : pc[f] = "user" /\ ~Sending(f) /\ ~Starting(f) /\ ~Stopping(f) /\ ~Crashed(f) /\ ~InIoctl(f)
    BY DEF Sending, Starting, Stopping, Crashed, InIoctl
<1>4. Exclusive /\ Queued /\ StartsStopped /\ InUse
    BY <1>2, <1>3 DEF Exclusive, Queued, StartsStopped, InUse
<1>5. Detached /\ Drawn
    BY <1>2, <1>3 DEF Detached, Drawn, Departed, Attached
<1>6. Commanded /\ FlowKept
    BY ConstantFacts DEF Commanded, FlowKept, Commands
<1>7. Awake /\ RunningOpen
    BY <1>3 DEF Awake, RunningOpen
<1>8. TableGone /\ HandlerHasTable /\ NothingLeftBehind
    BY <1>2, <1>3 DEF TableGone, HandlerHasTable, NothingLeftBehind
<1>9. OpenersCounted
    BY FS_EmptySet DEF OpenersCounted
<1>10. CallsCounted
    <2>1. Calls = {} /\ Calls \cup Dead = {}
        BY <1>3 DEF Calls, Dead
    <2>2. Cardinality(Calls) = 0 /\ Cardinality(Calls \cup Dead) = 0
        BY <2>1, FS_EmptySet
    <2>3. Cardinality(Files) \in Nat
        BY ConstantFacts, FS_CardinalityType
    <2>4. QED
        BY <2>2, <2>3 DEF CallsCounted
<1>11. Lost /\ Probed
    BY DEF Lost, Probed
<1>12. QED
    BY <1>1, <1>4, <1>5, <1>6, <1>7, <1>8, <1>9, <1>10, <1>11 DEF LifeInv

LEMMA Invariant == Spec => []LifeInv
<1>1. LifeInv /\ [Next]_vars => LifeInv'
    <2>1. SUFFICES ASSUME LifeInv, [Next]_vars
                   PROVE  LifeInv'
        OBVIOUS
    <2>2. Typed' /\ Lost' /\ Probed'
        BY <2>1, TypedKept, LostKept, ProbedKept
    <2>3. Exclusive' /\ Queued'
        BY <2>1, LocksKept
    <2>4. StartsStopped' /\ InUse'
        BY <2>1, UseKept
    <2>5. Detached' /\ Drawn' /\ Commanded' /\ FlowKept'
        BY <2>1, DetachedKept, DrawnKept, CommandedKept, FlowStays
    <2>6. OpenersCounted' /\ Awake' /\ RunningOpen'
        BY <2>1, OpenersKept, AwakeKept, RunningOpenKept
    <2>7. TableGone' /\ HandlerHasTable' /\ CallsCounted' /\ NothingLeftBehind'
        BY <2>1, TableGoneKept, HandlerKept, CallsKept, NothingKept
    <2>8. QED
        BY <2>2, <2>3, <2>4, <2>5, <2>6, <2>7 DEF LifeInv
<1>2. QED
    BY <1>1, LifeInitially, PTL DEF Spec

(* Every variable keeps its type.  The count of calls, which ad_probe sets *)
(* back while the device can be used already, stays between the number of  *)
(* threads and its negative; open_count, which a failed ad_initialize      *)
(* decreases without a file being closed, sinks by one for each of these;  *)
(* at most one URB and one answer are queued for endpoint 2.               *)
THEOREM TypeCorrect == Spec => []TypeOK
<1>1. LifeInv => TypeOK
    <2>1. SUFFICES ASSUME LifeInv
                   PROVE  TypeOK
        OBVIOUS
    <2>2. Typed /\ Lost /\ OneOfEach(reads) /\ OpenersCounted /\ CallsCounted
        BY <2>1 DEF LifeInv, Queued
    <2>3. ioctl_active_count \in -Cardinality(Files) .. Cardinality(Files)
        <3>1. PICK n \in Nat, m \in Nat, k \in Nat :
                 /\ n = Cardinality(Calls) /\ m = Cardinality(Calls \cup Dead) /\ k = Cardinality(Files)
                 /\ m <= k
            BY <2>2, CallsFinite
        <3>2. PICK c \in Int : c = ioctl_active_count
            BY <2>2 DEF Typed
        <3>3. n - k <= c /\ c <= m
            BY <2>2, <3>1, <3>2 DEF CallsCounted
        <3>4. c \in -k .. k
            BY <3>1, <3>3
        <3>5. QED
            BY <3>1, <3>2, <3>4
    <2>4. open_count \in -MaxFailed .. Cardinality(Files)
        <3>1. opened \subseteq Files /\ past.failed \in 0 .. MaxFailed /\ open_count \in Int
            BY <2>2 DEF Typed, Histories
        <3>2. /\ IsFiniteSet(opened) /\ Cardinality(opened) \in Nat /\ Cardinality(Files) \in Nat
              /\ Cardinality(opened) <= Cardinality(Files)
            BY <3>1, ConstantFacts, FS_Subset, FS_CardinalityType
        <3>3. PICK n \in Nat, k \in Nat : n = Cardinality(opened) /\ k = Cardinality(Files) /\ n <= k
            BY <3>2
        <3>4. PICK c \in Int, d \in 0 .. MaxFailed : c = open_count /\ d = past.failed
            BY <3>1
        <3>5. c + d = n
            BY <2>2, <3>3, <3>4 DEF OpenersCounted
        <3>6. c \in -MaxFailed .. k
            BY <3>3, <3>4, <3>5, ConstantFacts
        <3>7. QED
            BY <3>3, <3>4, <3>6
    <2>5. reads \in Seq({"urb", "msg"}) /\ Len(reads) <= 2
        BY <2>2, TwoAtMost DEF Typed, Transfers
    <2>6. /\ request \in {"ID", "CONF", "START", "STOP"}
          /\ adc \in [command : {None, "ID", "CONF", "START", "STOP"}, sampling : BOOLEAN, ADIE : BOOLEAN,
                      overrun : BOOLEAN, left : BOOLEAN, armed : {None, "data", "answer", "E:OVERRUN"},
                      stalled : BOOLEAN]
          /\ past \in [failed : 0 .. MaxFailed, stop_lost : BOOLEAN, cut : BOOLEAN, undrawn : BOOLEAN,
                       early : BOOLEAN]
        <3>1. {None} \cup Commands = {None, "ID", "CONF", "START", "STOP"}
            BY DEF Commands
        <3>2. QED
            BY <2>2, <3>1 DEF Typed, Commands, Converters, Histories
    <2>7. QED
        BY <2>2, <2>3, <2>4, <2>5, <2>6 DEF Typed, Lost, TypeOK
<1>2. QED
    BY <1>1, Invariant, PTL

(* open_count is the number of open files less the failures of             *)
(* ad_initialize, however ad_open, ad_release and the failures interleave. *)
THEOREM OpenersCorrect == Spec => []OpenersCounted
<1>1. LifeInv => OpenersCounted
    BY DEF LifeInv
<1>2. QED
    BY <1>1, Invariant, PTL

(* ad_do_read_io is not called, neither by the completion handler nor by   *)
(* ad_initialize, while the URB it refills is in flight, unless            *)
(* ad_release once stopped the device without waiting for it.              *)
THEOREM UrbSafe == Spec => []UrbNotRefilled
<1>1. LifeInv => UrbNotRefilled
    BY DEF LifeInv, Drawn, Killed, UrbNotRefilled
<1>2. QED
    BY <1>1, Invariant, PTL

(* While running is set the URB is queued, in its handler, about to be     *)
(* submitted, or was cut off by a failure, a suspend, a reset or a flush:  *)
(* the chain of submissions is broken by nothing else.                     *)
THEOREM FlowCorrect == Spec => []FlowKept
<1>1. LifeInv => FlowKept
    BY DEF LifeInv
<1>2. QED
    BY <1>1, Invariant, PTL

(* While running is set the converter samples, or has received ADC_START   *)
(* and not yet executed it: no other command of the driver gets between.   *)
THEOREM SamplingCorrect == Spec => []RunningMeansSampling
<1>1. LifeInv => RunningMeansSampling
    BY DEF LifeInv, Commanded, RunningMeansSampling
<1>2. QED
    BY <1>1, Invariant, PTL

(* After the last close the converter is silent, running is reset and the  *)
(* device may sleep, unless ad_release could not send ADC_STOP or a failed *)
(* ad_initialize has upset open_count.                                     *)
THEOREM ClosedStops == Spec => []StoppedWhenClosed
<1>1. LifeInv => StoppedWhenClosed
    <2>1. SUFFICES ASSUME LifeInv, opened = {}, AtRest, Attached, adc.command = None,
                          ~past.stop_lost, ~(past.failed > 0)
                   PROVE  ~adc.ADIE /\ ~running /\ pm = 0
        BY DEF StoppedWhenClosed
    <2>2. \A f \in Files : ~Stopping(f) /\ ~Crashed(f)
        BY <2>1 DEF AtRest, Stopping, Sending, Crashed
    <2>3. ~Upset /\ ~Departed
        BY <2>1 DEF Upset, Departed, Attached
    <2>4. ~running
        BY <2>1, <2>2, <2>3 DEF LifeInv, RunningOpen
    <2>5. ~adc.ADIE
        BY <2>1, <2>4, ConstantFacts DEF LifeInv, Commanded, Commands
    <2>6. open_count = 0
        <3>1. Cardinality(opened) = 0
            BY <2>1, FS_EmptySet
        <3>2. past.failed \in Nat /\ open_count \in Int /\ open_count + past.failed = Cardinality(opened)
            BY <2>1 DEF LifeInv, Typed, Histories, OpenersCounted
        <3>3. QED
            BY <2>1, <3>1, <3>2
    <2>7. pm \in Nat /\ pm <= 1 /\ pm # 1
        BY <2>1, <2>2, <2>3, <2>6, ConstantFacts DEF LifeInv, Typed, Awake
    <2>8. QED
        BY <2>4, <2>5, <2>7
<1>2. QED
    BY <1>1, Invariant, PTL

(* When ad_delete_internal frees the device, from ad_disconnect or from    *)
(* the completion handler, no counted call is under way and the URB is at  *)
(* rest, unless ad_probe had set the count of calls back or the URB was    *)
(* not drawn down; and no call or transfer begins afterwards.              *)
THEOREM NothingLeft == Spec => []NothingLeftBehind
<1>1. LifeInv => NothingLeftBehind
    BY DEF LifeInv
<1>2. QED
    BY <1>1, Invariant, PTL

(* The completion handler does not follow gpClients_array when usb_ad_exit *)
(* or ad_delete_internal has freed it, unless an earlier close did not     *)
(* stop the device.                                                        *)
THEOREM HandlerSafe == Spec => []HandlerHasTable
<1>1. LifeInv => HandlerHasTable
    BY DEF LifeInv
<1>2. QED
    BY <1>1, Invariant, PTL
-----------------------------------------------------------------------------
(* Who waits for whom.                                                     *)

(* io_mutex is held by the call that is inside the driver with it, by one  *)
(* that has crashed with it, or by the USB core between ad_pre_reset and   *)
(* ad_post_reset, while no call of GET_DATA has kept it.                   *)
Holds ==
    /\ \A f \in Files : io_mutex = f => pc[f] \in Locking \cup {"oops"}
    /\ io_mutex = "core" => core = "drain"

Held == kept \/ Holds

(* Where a call is without io_mutex.                                       *)
Resting == {"user", "counted", "asleep", "relock", "release"}

(* A step of a thread that takes the mutex or keeps it, that gives it      *)
(* back, or that does not need it.                                         *)
LEMMA HeldStep ==
    ASSUME Typed, Holds, NEW f \in Files, NEW p,
           pc' = [pc EXCEPT ![f] = p],
           \/ io_mutex' = None
           \/ io_mutex' \in {f, io_mutex} /\ p \in Locking \cup {"oops"}
           \/ io_mutex' = io_mutex /\ pc[f] \in Resting,
           core' = core
    PROVE  Holds'
<1>1. \A g \in Files : pc'[g] = IF g = f THEN p ELSE pc[g]
    BY DEF Typed
<1>2. CASE io_mutex' = None
    BY <1>2, ConstantFacts DEF Holds
<1>3. CASE io_mutex' \in {f, io_mutex} /\ p \in Locking \cup {"oops"}
    BY <1>1, <1>3, ConstantFacts DEF Holds
<1>4. CASE io_mutex' = io_mutex /\ pc[f] \in Resting
    <2>1. io_mutex # f
        BY <1>4 DEF Holds, Locking, Resting
    <2>2. QED
        BY <1>1, <1>4, <2>1 DEF Holds
<1>5. QED
    BY <1>2, <1>3, <1>4

LEMMA HeldThread ==
    ASSUME Typed, Holds, NEW f \in Files, Begin(f) \/ Continue(f)
    PROVE  Holds' \/ kept'
<1> USE DEF counts, threads, Goto, Leave, Lock, Unlock
<1>1. CASE Open(f) \/ OpenFails(f)
    BY <1>1 DEF Open, OpenFails, Holds
<1>2. CASE \/ IoctlCounted(f) \/ Flush(f) \/ FlushLast(f) \/ IoctlCrashes(f)
           \/ InitializeNoMemory(f) \/ InitializeStarts(f) \/ UsesFreed(f)
    <2>1. core' = core
        BY <1>2 DEF IoctlCounted, Flush, FlushLast, IoctlCrashes, InitializeNoMemory,
           InitializeFails, InitializeStarts, UsesFreed
    <2>2. \E p : /\ pc' = [pc EXCEPT ![f] = p]
                 /\ \/ io_mutex' = None
                    \/ io_mutex' \in {f, io_mutex} /\ p \in Locking \cup {"oops"}
                    \/ io_mutex' = io_mutex /\ pc[f] \in Resting
        BY <1>2 DEF IoctlCounted, Flush, FlushLast, Closing, IoctlCrashes, InitializeNoMemory,
           InitializeFails, InitializeStarts, Initializes, Looks, UsesFreed, Locking, Resting
    <2>3. QED
        BY <2>1, <2>2, HeldStep
<1>3. CASE \/ InitializeSends(f) \/ InitializeSendFails(f) \/ InitializeNoAnswer(f) \/ InitializeRuns(f)
           \/ InitializeReads(f)
    <2>1. core' = core
        BY <1>3 DEF InitializeSends, InitializeSendFails, InitializeNoAnswer, InitializeFails, InitializeRuns,
           InitializeReads
    <2>2. \E p : /\ pc' = [pc EXCEPT ![f] = p]
                 /\ \/ io_mutex' = None
                    \/ io_mutex' \in {f, io_mutex} /\ p \in Locking \cup {"oops"}
        BY <1>3 DEF InitializeSends, InitializeSendFails, InitializeNoAnswer, InitializeFails, InitializeRuns,
           InitializeReads, Asks, Locking
    <2>3. QED
        BY <2>1, <2>2, HeldStep
<1>4. CASE Closes(f)
    <2>1. core' = core
        BY <1>4 DEF Closes, FlushEnds, Release, ReleaseNoMemory, ReleaseLast, Released, ReleaseSends,
           ReleaseSendFails, ReleaseNoAnswer, device
    <2>2. \E p : /\ pc' = [pc EXCEPT ![f] = p]
                 /\ \/ io_mutex' = None
                    \/ io_mutex' \in {f, io_mutex} /\ p \in Locking \cup {"oops"}
                    \/ io_mutex' = io_mutex /\ pc[f] \in Resting
        BY <1>4 DEF Closes, FlushEnds, Release, ReleaseNoMemory, ReleaseLast, Released, ReleaseSends,
           ReleaseSendFails, ReleaseNoAnswer, ReleaseEnds, Asks, Locking, Resting
    <2>3. QED
        BY <2>1, <2>2, HeldStep
<1>5. CASE Waits(f)
    <2>1. PICK p \in {"asleep", "relock", "user", "oops"} :
             /\ pc' = [pc EXCEPT ![f] = p]
             /\ \/ io_mutex' \in {None, io_mutex}
                \/ io_mutex' = f /\ (p = "oops" \/ kept')
        BY <1>5, WaitsFacts
    <2>2. core' = core /\ pc[f] \in Resting
        BY <1>5, WaitsFacts DEF device, Resting
    <2>3. QED
        BY <2>1, <2>2, HeldStep
<1>6. QED
    BY <1>1, <1>2, <1>3, <1>4, <1>5 DEF Begin, Continue, Ioctl, Waits

LEMMA HeldKept ==
    ASSUME LifeInv, Holds, [Next]_vars
    PROVE  Holds' \/ kept'
<1> USE DEF device, counts, threads, transfers, history, CoreGoes
<1>0. Typed /\ Exclusive /\ Queued
    BY DEF LifeInv
<1>1. CASE \/ ProbeFails \/ ProbeRegisters \/ ProbeEnds \/ Suspend \/ Suspended \/ Unload \/ Unplug \/ Resume
           \/ Deregister \/ Disconnect \/ Detach \/ Delete \/ Callback \/ Converter \/ CompletesUrb
           \/ UNCHANGED vars
    <2>1. pc' = pc /\ io_mutex' = io_mutex /\ (core' = core \/ core # "drain")
        BY <1>1 DEF ProbeFails, ProbeRegisters, ProbeEnds, Suspend, Suspended, Unload, Unplug, Resume,
           Deregister, Disconnect, Detach, Delete, Callback, CallbackFinish, CallbackDeletes, UrbEnds,
           Converter, Executes, ArmsData, Overruns, ArmsOverrun, CompletesUrb, vars
    <2>2. QED
        BY <2>1 DEF Holds
<1>2. CASE PreReset \/ PostReset
    BY <1>2, ConstantFacts DEF PreReset, PostReset, Lock, Holds
<1>3. CASE AnswersThread
    <2>1. PICK f \in Files : f = io_mutex
        BY <1>0, <1>3, AnsweredWaits
    <2>2. core' = core
        BY <1>3 DEF AnswersThread
    <2>3. \/ pc' = [pc EXCEPT ![f] = "send"] /\ io_mutex' = io_mutex
          \/ pc' = [pc EXCEPT ![f] = "user"] /\ io_mutex' = None
        BY <1>3, <2>1 DEF AnswersThread, InitializeAnswered, ReleaseEnds, Goto, Unlock
    <2>4. QED
        BY <1>0, <2>2, <2>3, HeldStep DEF Locking
<1>4. ASSUME NEW f \in Files, Begin(f) \/ Continue(f)
      PROVE  Holds' \/ kept'
    BY <1>0, <1>4, HeldThread
<1>5. QED
    BY <1>1, <1>2, <1>3, <1>4 DEF Next, Event, Core, Host

LEMMA HeldAlways == Spec => []Held
<1>1. Init => Held
    BY ConstantFacts DEF Init, Held, Holds
<1>2. LifeInv /\ Held /\ [Next]_vars => Held'
    BY HeldKept, LostKept DEF Held
<1>3. QED
    BY <1>1, <1>2, Invariant, PTL DEF Spec

GoesOn ==
    \/ CoreGoesOn \/ HandlerGoesOn \/ ConverterGoesOn \/ HostGoesOn
    \/ \E f \in Files : CallGoesOn(f)

(* A thread that waits for an answer waits for the converter, the URB      *)
(* before it or the controller, each of which can go on.                   *)
LEMMA AnswerComes ==
    ASSUME Typed, Queued, NEW f \in Files, pc[f] = "wait", cb \in {"idle", "finish"}
    PROVE  GoesOn
<1>1. Contains(reads, "msg")
    BY DEF Queued
<1>2. reads # << >>
    BY <1>1 DEF Contains
<1>3. CASE Quiet \/ ~Reachable \/ cb = "finish"
    BY <1>3 DEF GoesOn, CallGoesOn, HandlerGoesOn
<1>4. CASE ~Quiet /\ Reachable /\ cb = "idle"
    BY <1>1, <1>2, <1>4 DEF GoesOn, Quiet, Reachable, ConverterGoesOn, HostGoesOn
<1>5. QED
    BY <1>3, <1>4

(* The holder of io_mutex can go on, or waits for somebody who can.        *)
LEMMA HolderGoesOn ==
    ASSUME Typed, Queued, cb \in {"idle", "finish"}, NEW f \in Files, pc[f] \in Locking
    PROVE  GoesOn
<1>1. CASE pc[f] = "wait"
    BY <1>1, AnswerComes
<1>2. CASE pc[f] \in {"kill", "dup_kill"}
    BY <1>2 DEF GoesOn, CallGoesOn, HandlerGoesOn, Killed, Killing
<1>3. CASE pc[f] = "send"
    BY <1>3 DEF GoesOn, CallGoesOn, ConverterGoesOn, Reachable
<1>4. CASE pc[f] = "submit"
    BY <1>4 DEF GoesOn, CallGoesOn
<1>5. QED
    BY <1>1, <1>2, <1>3, <1>4 DEF Locking

(* So can somebody when io_mutex is held at all: by a reset otherwise,     *)
(* which waits for the URB and for the converter.                          *)
LEMMA MutexComes ==
    ASSUME Typed, Queued, Held, ~Broken, ~MutexFree
    PROVE  GoesOn
<1>1. Holds /\ cb \in {"idle", "finish"} /\ \A f \in Files : pc[f] # "oops"
    BY DEF Typed, Broken, Held
<1>2. CASE io_mutex \in Files
    BY <1>1, <1>2, HolderGoesOn DEF Holds
<1>3. CASE io_mutex = "core"
    <2>1. core = "drain"
        BY <1>1, <1>3 DEF Holds
    <2>2. QED
        BY <1>1, <2>1 DEF GoesOn, CoreGoesOn, HandlerGoesOn, ConverterGoesOn, Killed, Killing, Attached
<1>4. QED
    BY <1>2, <1>3 DEF Typed, MutexFree

(* A call that has not returned waits for io_mutex at most, or holds it,   *)
(* or waits for data.                                                      *)
LEMMA CallComes ==
    ASSUME Typed, Queued, Held, ~Broken, NEW f \in Files, pc[f] # "user", pc[f] = "asleep" => exiting
    PROVE  GoesOn
<1>1. cb \in {"idle", "finish"} /\ pc[f] # "oops"
    BY DEF Typed, Broken
<1>2. CASE pc[f] \in Locking
    BY <1>1, <1>2, HolderGoesOn
<1>3. CASE pc[f] \in {"counted", "relock", "release"}
    <2>1. CASE MutexFree
        BY <1>3, <2>1 DEF GoesOn, CallGoesOn
    <2>2. CASE ~MutexFree
        BY <2>2, MutexComes
    <2>3. QED
        BY <2>1, <2>2
<1>4. CASE pc[f] = "asleep"
    <2>1. f \notin robbed
        BY <1>4 DEF Broken
    <2>2. QED
        BY <1>4, <2>1 DEF GoesOn, CallGoesOn
<1>5. QED
    BY <1>1, <1>2, <1>3, <1>4 DEF Typed, Places, Locking

(* Somebody can go on whenever the driver is busy, unless a call has       *)
(* crashed, a call of GET_DATA has lost its client and sleeps on when the  *)
(* device goes or has returned with io_mutex, the handler deletes the      *)
(* device, or ad_probe has set the count of calls back: suspend, reset,    *)
(* disconnect and unload, the calls that are locked, asleep or refused,    *)
(* the completion handler and the converter never wait for each other in a *)
(* circle, and none of them needs a failure that only bad luck explains.   *)
THEOREM NoCircle == Spec => []NobodyStuck
<1>1. LifeInv /\ Held => NobodyStuck
    <2>1. SUFFICES ASSUME LifeInv, Held, Busy, ~Broken
                   PROVE  GoesOn
        BY DEF NobodyStuck, GoesOn
    <2>2. Typed /\ Queued /\ Detached /\ Probed /\ CallsCounted
        BY <2>1 DEF LifeInv
    <2>3. cb \in {"idle", "finish"} /\ ~past.early /\ \A f \in Files : pc[f] # "oops"
        BY <2>1, <2>2 DEF Typed, Broken
    <2>4. ASSUME NEW f \in Files, pc[f] # "user", pc[f] = "asleep" => exiting
          PROVE  GoesOn
        BY <2>1, <2>2, <2>4, CallComes
    <2>5. CASE core \in {"registered", "suspended", "unload"}
        BY <2>5 DEF GoesOn, CoreGoesOn
    <2>6. CASE core \in {"suspend", "drain", "disable"}
        BY <2>3, <2>6 DEF GoesOn, CoreGoesOn, HandlerGoesOn, ConverterGoesOn, Killed, Killing, Attached
    <2>7. CASE core = "detach"
        <3>1. dev # "freed"
            BY <2>2, <2>3, <2>7 DEF Detached
        <3>2. CASE MutexFree
            BY <2>7, <3>1, <3>2 DEF GoesOn, CoreGoesOn
        <3>3. CASE ~MutexFree
            BY <2>1, <2>2, <3>3, MutexComes
        <3>4. QED
            BY <3>2, <3>3
    <2>8. CASE core = "delete" /\ AtRest
        <3>1. Calls = {} /\ Calls \cup Dead = {}
            BY <2>8 DEF AtRest, Calls, Dead, InIoctl, Crashed
        <3>2. Cardinality(Calls) = 0 /\ Cardinality(Calls \cup Dead) = 0
            BY <3>1, FS_EmptySet
        <3>3. ioctl_active_count \in Int /\ 0 <= ioctl_active_count /\ ioctl_active_count <= 0
            BY <2>2, <2>3, <3>2 DEF CallsCounted, Typed
        <3>4. NoCalls
            BY <3>3 DEF NoCalls
        <3>5. QED
            BY <2>8, <3>4 DEF GoesOn, CoreGoesOn
    <2>9. CASE core = "delete" /\ ~AtRest
        BY <2>2, <2>4, <2>9 DEF Probed, AtRest
    <2>10. QED
        BY <2>1, <2>2, <2>4, <2>5, <2>6, <2>7, <2>8, <2>9 DEF Busy, Typed, Cores
<1>2. QED
    BY <1>1, Invariant, HeldAlways, PTL
=============================================================================
