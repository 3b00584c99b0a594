------------------------------ MODULE AdcRing ------------------------------
(***************************************************************************)
(* The firmware of the converter: the ring of frames in adc.c between the  *)
(* A/D interrupt, which fills it, and the main loop, which empties it into *)
(* the buffer of endpoint 2 and answers the commands of endpoint 1.        *)
(*                                                                         *)
(* A frame is a header ('D' and the number adc_rec_nr) followed by one     *)
(* sample for each channel.  Each of these is two bytes, and bytes are     *)
(* stored and copied in pairs, so the ring is counted in pairs here: a     *)
(* header is <<0, number>>, the sample of the k-th channel <<k, frame>>,   *)
(* frame being the true number of the round it was taken in.               *)
(*                                                                         *)
(* The interrupt can come between any two steps of the main loop.  The     *)
(* commands themselves do not touch what the interrupt touches after they  *)
(* have disabled it, so a command is one step, and arming its answer       *)
(* another, for the host may poll the endpoint in between.                 *)
(***************************************************************************)
EXTENDS Integers, Sequences

CONSTANTS
    ADC_BUF_SIZE,   \* bytes of the ring
    PointerPairs,   \* pairs that an unsigned char counts: 128
    Channels,       \* numbers of channels that can be configured
    InitChannels,   \* channels that adc_cfg names when it is still zeroed
    RecNumbers,     \* values of adc_rec_nr, an unsigned char
    MaxFrames,      \* bound: frames sampled
    MaxCommands     \* bound: commands received

ASSUME RingAssumption ==
    /\ ADC_BUF_SIZE \in Nat
    /\ PointerPairs \in Nat \ {0, 1} /\ ADC_BUF_SIZE <= 2 * PointerPairs
    /\ Channels \subseteq 0 .. 8
    /\ InitChannels \in Channels
    /\ \A n \in Channels : 2 * n + 2 <= ADC_BUF_SIZE
    /\ RecNumbers \in Nat \ {0}
    /\ MaxFrames \in Nat
    /\ MaxCommands \in Nat

VARIABLES
    adc_cfg,        \* channels in the configuration
    adc_nchans,     \* channels of the frames in the ring
    adc_in,         \* slot being filled
    adc_out,        \* slot to be sent
    adc_nchan,      \* channel being sampled
    adc_rec_nr,
    adc_buf_ptr,    \* in pairs, an unsigned char
    adc_buf,
    adc_overrun,
    adc_sampling,
    ADIE,           \* the A/D interrupt is enabled
    main,           \* where the main loop is
    copied,         \* pairs of the frame copied so far
    late,           \* a conversion has ended since adc_out was increased
    configured,     \* endpoints 1 and 2 are enabled
    ep1,            \* "open" or "stalled"
    ep2,            \* descriptor and buffer of endpoint 2
    host_dts,       \* data toggle the host expects next
    got,            \* the last packet the host accepted
    commands,       \* history: commands received
    frame,          \* history: number of the frame being sampled
    first,          \* history: number of the first frame since ADC_START
    sent,           \* history: the last frame given to endpoint 2
    reported,       \* history: E:OVERRUN has been sent since ADC_START
    clobbered,      \* history: an answer has overwritten an armed packet
    dropped         \* history: ep2_init has dropped one since ADC_START

ring     == <<adc_nchans, adc_in, adc_nchan, adc_rec_nr, adc_buf_ptr, adc_buf, frame, first>>
flags    == <<adc_sampling, ADIE>>
endpoint == <<ep2, host_dts, got, clobbered, dropped>>
loop     == <<main, copied, adc_out, sent, reported>>
control  == <<adc_cfg, configured, ep1, commands>>
vars     == <<ring, flags, adc_overrun, late, endpoint, loop, control>>

adc_one_buf_size == adc_nchans + 1      \* in pairs
adc_nbufs        == ADC_BUF_SIZE \div (2 * adc_one_buf_size)

Pairs  == 0 .. (ADC_BUF_SIZE \div 2) - 1
Header(number) == <<0, number>>
Cell   == (0 .. 8) \X Nat
Packet == [kind : {"none", "mixed", "data", "E:OVERRUN", "answer"}, pairs : Seq(Cell)]

Plain(kind) == [kind |-> kind, pairs |-> << >>]
Data(pairs) == [kind |-> "data", pairs |-> pairs]

Init ==
    /\ adc_cfg = InitChannels
    /\ adc_nchans = 0
    /\ adc_in = 0 /\ adc_out = 0 /\ adc_nchan = 0
    /\ adc_rec_nr = 0 /\ adc_buf_ptr = 0
    /\ adc_buf = [p \in Pairs |-> Header(0)]
    /\ adc_overrun = FALSE /\ adc_sampling = FALSE /\ ADIE = FALSE
    /\ main = "dispatch" /\ copied = 0 /\ late = FALSE
    /\ configured = TRUE /\ ep1 = "open"
    /\ ep2 = [owner |-> "CPU", dts |-> 1, packet |-> Plain("none")]
    /\ host_dts = 0 /\ got = Plain("none")
    /\ commands = 0 /\ frame = 0 /\ first = 0
    /\ sent = << >> /\ reported = FALSE /\ clobbered = FALSE
    /\ dropped = FALSE

-----------------------------------------------------------------------------
(* adc_interrupt.                                                          *)

(* A conversion takes longer than the two instructions in which adc_out    *)
(* may be past the last slot, so at most one ends there.                   *)
Conversion ==
    /\ ADIE
    /\ main = "wrap" => ~late
    /\ late' = (main = "wrap")

(* adc_buf_ptr increased by a pair.                                        *)
PairAfter(pair) == IF pair + 1 = PointerPairs THEN 0 ELSE pair + 1

(* The sample is stored; what follows depends on the channel.  Without     *)
(* channels every conversion ends a frame, and each slot of one pair gets  *)
(* two: the pointer leaves its slot, and in the end the ring, where a      *)
(* store changes nothing that is known here.                               *)
Stored == [adc_buf EXCEPT ![adc_buf_ptr] = <<adc_nchan + 1, frame>>]

InterruptNextChannel ==
    /\ Conversion
    /\ adc_nchan + 1 < adc_nchans
    /\ adc_buf' = Stored
    /\ adc_buf_ptr' = PairAfter(adc_buf_ptr)
    /\ adc_nchan' = adc_nchan + 1
    /\ UNCHANGED <<adc_nchans, adc_in, adc_rec_nr, frame, first, flags, adc_overrun,
                   endpoint, loop, control>>

(* Mutants: the slot number wraps late, the pointer never, a slot is taken *)
(* to be free always.                                                      *)
NextSlotLate    == IF adc_in + 1 > adc_nbufs THEN 0 ELSE adc_in + 1
NextStartNoWrap == PairAfter(adc_buf_ptr)
NeverOccupied(slot) == FALSE

(* The slot after adc_in, and where it starts.                             *)
NextSlot  == IF adc_in + 1 >= adc_nbufs THEN 0 ELSE adc_in + 1
NextStart == IF adc_in + 1 >= adc_nbufs THEN 0 ELSE PairAfter(adc_buf_ptr)

(* The slot has not been sent yet.                                         *)
Occupied(slot) == slot = adc_out

(* The frame is complete: the header of the next one is written ...        *)
InterruptNextFrame ==
    /\ Conversion
    /\ frame < MaxFrames
    /\ adc_nchan + 1 >= adc_nchans
    /\ ~Occupied(NextSlot)
    /\ adc_nchan' = 0
    /\ adc_in' = NextSlot
    /\ adc_rec_nr' = (adc_rec_nr + 1) % RecNumbers
    /\ adc_buf' = [Stored EXCEPT ![NextStart] = Header(adc_rec_nr')]
    /\ adc_buf_ptr' = PairAfter(NextStart)
    /\ frame' = frame + 1
    /\ UNCHANGED <<adc_nchans, first, flags, adc_overrun, endpoint, loop, control>>

(* ... unless its slot has not been sent yet: sampling ends.               *)
InterruptOverrun ==
    /\ Conversion
    /\ frame < MaxFrames
    /\ adc_nchan + 1 >= adc_nchans
    /\ Occupied(NextSlot)
    /\ adc_nchan' = 0
    /\ adc_in' = NextSlot
    /\ adc_buf' = Stored
    /\ adc_buf_ptr' = NextStart
    /\ frame' = frame + 1
    /\ adc_overrun' = TRUE
    /\ ADIE' = FALSE
    /\ UNCHANGED <<adc_nchans, adc_rec_nr, first, adc_sampling, endpoint, loop, control>>

Interrupt == InterruptNextChannel \/ InterruptNextFrame \/ InterruptOverrun

-----------------------------------------------------------------------------
(* The main loop: adc_dispatch, then dispatch_usb_event.                   *)

(* Mutant of Armed: the data toggle stays as it is.                        *)
ArmedUntoggled(packet) == [owner |-> "SIE", dts |-> ep2.dts, packet |-> packet]

(* prepare_ep2_in: the packet goes to the host with the next data toggle.  *)
Armed(packet) == [owner |-> "SIE", dts |-> 1 - ep2.dts, packet |-> packet]

(* Mutant of OverrunPending: tested only when there is a frame to send.    *)
OverrunPendingLate == adc_overrun /\ adc_in # adc_out

OverrunPending == adc_overrun

(* Mutant of SentSlot: the header is left out of the size of a slot.       *)
SentSlotShort == adc_nchans * adc_out

(* Where the frame to be sent starts.                                      *)
SentSlot == adc_one_buf_size * adc_out

DispatchNothing ==
    /\ main = "dispatch"
    /\ ep2.owner = "SIE" \/ (~OverrunPending /\ adc_in = adc_out)
    /\ main' = "events"
    /\ UNCHANGED <<ring, flags, adc_overrun, late, endpoint, copied, adc_out, sent, reported, control>>

DispatchOverrun ==
    /\ main = "dispatch"
    /\ ep2.owner = "CPU"
    /\ OverrunPending
    /\ ep2' = Armed(Plain("E:OVERRUN"))
    /\ adc_overrun' = FALSE
    /\ reported' = TRUE
    /\ main' = "events"
    /\ UNCHANGED <<ring, flags, late, host_dts, got, clobbered, dropped, copied, adc_out, sent, control>>

DispatchFrame ==
    /\ main = "dispatch"
    /\ ep2.owner = "CPU"
    /\ ~OverrunPending
    /\ adc_in # adc_out
    /\ main' = "copy"
    /\ copied' = 0
    /\ ep2' = [ep2 EXCEPT !.packet = Data(<< >>)]
    /\ UNCHANGED <<ring, flags, adc_overrun, late, host_dts, got, clobbered, dropped, adc_out, sent, reported,
                   control>>

(* fill_in_buffer, a pair at a time.                                       *)
CopyPair ==
    /\ main = "copy"
    /\ copied < adc_one_buf_size
    /\ ep2' = [ep2 EXCEPT !.packet.pairs =
                  Append(@, adc_buf[SentSlot + copied])]
    /\ copied' = copied + 1
    /\ UNCHANGED <<ring, flags, adc_overrun, late, host_dts, got, clobbered, dropped, main, adc_out, sent,
                   reported, control>>

ArmFrame ==
    /\ main = "copy"
    /\ copied = adc_one_buf_size
    /\ ep2' = Armed(ep2.packet)
    /\ sent' = ep2.packet.pairs
    /\ main' = "advance"
    /\ UNCHANGED <<ring, flags, adc_overrun, late, host_dts, got, clobbered, dropped, copied, adc_out,
                   reported, control>>

(* adc_out++ and the test that wraps it are two steps.                     *)
Advance ==
    /\ main = "advance"
    /\ adc_out' = adc_out + 1
    /\ late' = FALSE
    /\ main' = "wrap"
    /\ UNCHANGED <<ring, flags, adc_overrun, endpoint, copied, sent, reported, control>>

Wrap ==
    /\ main = "wrap"
    /\ adc_out' = IF adc_out >= adc_nbufs THEN 0 ELSE adc_out
    /\ late' = FALSE
    /\ main' = "events"
    /\ UNCHANGED <<ring, flags, adc_overrun, endpoint, copied, sent, reported, control>>

(* No command is waiting.  ep2_in, called when a packet has been taken,    *)
(* finds nothing left to send: every packet here is a short one.           *)
NoCommand ==
    /\ main = "events"
    /\ main' = "dispatch"
    /\ UNCHANGED <<ring, flags, adc_overrun, late, endpoint, copied, adc_out, sent, reported, control>>

-----------------------------------------------------------------------------
(* ep1_out.  The host sends a command when it has taken the answer to the  *)
(* last one off endpoint 2; but the answer to ADC_START it leaves to the   *)
(* transfers that fetch the data, which may be withdrawn.                  *)

CommandReceived ==
    /\ main = "events"
    /\ ep2.owner = "SIE" /\ ep2.packet.kind = "answer" => adc_sampling
    /\ configured /\ ep1 = "open"
    /\ commands < MaxCommands
    /\ commands' = commands + 1

(* prepare_ep2_in starts filling the buffer whoever owns it ...            *)
Answer ==
    /\ main' = "answer"
    /\ ep2' = [ep2 EXCEPT !.packet = Plain("mixed")]
    /\ clobbered' = (clobbered \/ ep2.owner = "SIE")
    /\ UNCHANGED <<configured, ep1, host_dts, got>>

(* ... and arms it.                                                        *)
ArmAnswer ==
    /\ main = "answer"
    /\ ep2' = Armed(Plain("answer"))
    /\ main' = "dispatch"
    /\ UNCHANGED <<ring, flags, adc_overrun, late, host_dts, got, clobbered, dropped, copied, adc_out, sent,
                   reported, control>>

(* ADC_CONF takes any list, an empty one as well; while sampling it stalls *)
(* the endpoint.                                                           *)
CommandConf ==
    /\ CommandReceived
    /\ ~adc_sampling
    /\ adc_cfg' \in Channels
    /\ Answer
    /\ UNCHANGED <<ring, flags, adc_overrun, late, copied, adc_out, sent, reported, dropped>>

(* ADC_START: adc_init and adc_start.                                      *)
CommandStart ==
    /\ CommandReceived
    /\ ~adc_sampling
    /\ adc_nchans' = adc_cfg
    /\ adc_in' = 0 /\ adc_out' = 0 /\ adc_nchan' = 0 /\ adc_rec_nr' = 0
    /\ adc_buf' = [adc_buf EXCEPT ![0] = Header(0)]
    /\ adc_buf_ptr' = 1
    /\ adc_overrun' = FALSE
    /\ adc_sampling' = TRUE
    /\ ADIE' = TRUE
    /\ first' = frame
    /\ sent' = << >>
    /\ reported' = FALSE
    /\ dropped' = FALSE
    /\ Answer
    /\ UNCHANGED <<frame, late, copied, adc_cfg>>

(* ADC_STOP, and ADC_QUERY and ADC_READCFG, which stop sampling as well.   *)
CommandStop ==
    /\ CommandReceived
    /\ adc_sampling' = FALSE
    /\ ADIE' = FALSE
    /\ Answer
    /\ UNCHANGED <<ring, adc_overrun, late, copied, adc_out, sent, reported, dropped, adc_cfg>>

(* ADC_ID changes nothing but endpoint 2.                                  *)
CommandId ==
    /\ CommandReceived
    /\ Answer
    /\ UNCHANGED <<ring, flags, adc_overrun, late, copied, adc_out, sent, reported, dropped, adc_cfg>>

(* Anything unknown, malformed, or out of turn stalls endpoint 1.          *)
CommandError ==
    /\ CommandReceived
    /\ ep1' = "stalled"
    /\ main' = "dispatch"
    /\ UNCHANGED <<ring, flags, adc_overrun, late, endpoint, copied, adc_out, sent, reported, adc_cfg,
                   configured>>

Command ==
    \/ CommandConf \/ CommandStart \/ CommandStop \/ CommandId \/ CommandError

-----------------------------------------------------------------------------
(* Bus events (UsbControl has the rest of them).  They leave the ring and  *)
(* the interrupt alone, and adc_dispatch goes on whatever happens here.    *)

(* A bus reset, or another configuration, disables endpoints 1 and 2.      *)
Deconfigure ==
    /\ main = "events"
    /\ configured
    /\ configured' = FALSE
    /\ main' = "dispatch"
    /\ UNCHANGED <<ring, flags, adc_overrun, late, endpoint, copied, adc_out, sent, reported, adc_cfg,
                   ep1, commands>>

(* SET_CONFIGURATION: ep1_init and ep2_init.  The host starts with toggle  *)
(* 0 again, and a packet not yet taken is dropped.                         *)
Configure ==
    /\ main = "events"
    /\ configured' = TRUE
    /\ ep1' = "open"
    /\ ep2' = [ep2 EXCEPT !.owner = "CPU", !.dts = 1]
    /\ host_dts' = 0
    /\ clobbered' = FALSE
    /\ dropped' = (dropped \/ ep2.owner = "SIE")
    /\ main' = "dispatch"
    /\ UNCHANGED <<ring, flags, adc_overrun, late, got, copied, adc_out, sent, reported, adc_cfg,
                   commands>>

MainLoop ==
    \/ DispatchNothing \/ DispatchOverrun \/ DispatchFrame \/ CopyPair \/ ArmFrame
    \/ Advance \/ Wrap \/ NoCommand \/ ArmAnswer \/ Command \/ Deconfigure \/ Configure

-----------------------------------------------------------------------------
(* The host polls endpoint 2.  A packet with the wrong toggle is taken for *)
(* a repetition and thrown away.                                           *)
HostIn ==
    /\ configured /\ ep2.owner = "SIE"
    /\ ep2' = [ep2 EXCEPT !.owner = "CPU"]
    /\ IF ep2.dts = host_dts
       THEN got' = ep2.packet /\ host_dts' = 1 - host_dts
       ELSE UNCHANGED <<got, host_dts>>
    /\ UNCHANGED <<ring, flags, adc_overrun, late, clobbered, dropped, loop, control>>

Next == Interrupt \/ MainLoop \/ HostIn

Spec == Init /\ [][Next]_vars

(* The main loop never stops, and the host keeps polling.                  *)
FairSpec == Spec /\ WF_vars(MainLoop) /\ WF_vars(HostIn)

-----------------------------------------------------------------------------
(* Without channels there are no frames, and the pointer of the ring runs  *)
(* away.                                                                   *)
Empty == adc_nchans = 0

(* Every variable has its type; in particular the pointer stays in the     *)
(* ring, unless the list of channels is empty.                             *)
TypeOK ==
    /\ adc_cfg \in Channels
    /\ adc_nchans \in Channels \cup {0}
    /\ adc_in \in 0 .. adc_nbufs - 1
    /\ adc_out \in 0 .. (IF main = "wrap" THEN adc_nbufs ELSE adc_nbufs - 1)
    /\ adc_nchan \in 0 .. 7
    /\ adc_rec_nr \in 0 .. RecNumbers - 1
    /\ adc_buf_ptr \in IF Empty THEN 0 .. PointerPairs - 1 ELSE Pairs
    /\ adc_buf \in [Pairs -> Cell]
    /\ {adc_overrun, adc_sampling, ADIE, late, reported, clobbered, configured, dropped} \subseteq BOOLEAN
    /\ main \in {"dispatch", "copy", "advance", "wrap", "events", "answer"}
    /\ copied \in 0 .. 9
    /\ ep1 \in {"open", "stalled"}
    /\ ep2 \in [owner : {"CPU", "SIE"}, dts : {0, 1}, packet : Packet]
    /\ host_dts \in {0, 1}
    /\ got \in Packet
    /\ commands \in 0 .. MaxCommands
    /\ frame \in 0 .. MaxFrames
    /\ first \in 0 .. frame
    /\ sent \in Seq(Cell)

(* The pairs of slot i.                                                    *)
Slot(i) == { adc_one_buf_size * i + p : p \in 0 .. adc_nchans }

(* adc_interrupt advances adc_buf_ptr store by store and adc_in frame by   *)
(* frame, adc_dispatch multiplies: the two never drift apart, unless the   *)
(* list of channels is empty.                                              *)
PointerMatchesSlot ==
    ADIE /\ ~Empty => adc_buf_ptr = adc_one_buf_size * adc_in + 1 + adc_nchan

(* While the main loop copies a slot, byte by byte and with the interrupt  *)
(* enabled, the interrupt writes nothing into that slot, if its list has a *)
(* channel.                                                                *)
CopiedSlotIsStable ==
    [][main = "copy" /\ ~Empty => \A p \in Slot(adc_out) : adc_buf'[p] = adc_buf[p]]_vars

(* As long as no answer has overwritten a packet that was already armed,   *)
(* the host expects the data toggle of the packet that waits for it, and   *)
(* loses none.                                                             *)
TogglesInStep == ~clobbered => (ep2.owner = "SIE" <=> ep2.dts = host_dts)

(* The ring keeps the promise of FrameQueue: a frame read out of the ring  *)
(* is whole, has the right number, and is the next one; sampling ends only *)
(* when the ring is full.  What it does without channels is no sampling,   *)
(* as far as that promise goes.                                            *)
NoFrame == -1
Torn    == -2

Whole(pairs) ==
    /\ Len(pairs) = adc_one_buf_size
    /\ pairs[1] = Header((pairs[2][2] - first) % RecNumbers)
    /\ \A k \in 1 .. adc_nchans : pairs[k + 1] = <<k, pairs[2][2]>>

(* Slots in use from the one that is sent next; all, when an overrun has   *)
(* come while the oldest was being copied.                                 *)
NextOut == (IF main = "advance" THEN adc_out + 1 ELSE adc_out) % adc_nbufs
Waiting ==
    LET slots == (adc_in - NextOut) % adc_nbufs
    IN  IF main = "copy" /\ slots = 0 THEN adc_nbufs ELSE slots

Room(n) == IF n = 0 THEN 0 ELSE ADC_BUF_SIZE \div (2 * n + 2)

Frames == INSTANCE FrameQueue WITH
              Capacities <- { Room(n) : n \in Channels },
              queue    <- IF Empty THEN << >> ELSE [i \in 1 .. Waiting |-> frame - Waiting + i - 1],
              next     <- IF Empty THEN first ELSE frame,
              running  <- ADIE /\ ~Empty,
              capacity <- Room(adc_nchans),
              last     <- IF sent = << >> \/ Empty THEN NoFrame
                          ELSE IF Whole(sent) THEN sent[2][2] ELSE Torn

FramesSpec == Frames!Spec

(* The host learns of an overrun, also of one that came while the device   *)
(* was not configured: it accepts the packet E:OVERRUN unless a command or *)
(* a new configuration intervenes.                                         *)
OverrunReported ==
    <>[]configured =>
        (adc_overrun ~> got.kind = "E:OVERRUN" \/ clobbered \/ dropped \/ ~adc_sampling)

-----------------------------------------------------------------------------
(* What the documentation says, and the code does not do.                  *)

(* After the packet E:OVERRUN the device sends no more data                *)
(* (Wymagania_list.txt:40-41).                                             *)
NothingAfterOverrun == reported => main # "copy"

(* The device answers a command (Wymagania_list.txt:26-31): the answer it  *)
(* has armed is one the host will accept.                                  *)
AnswerAccepted ==
    ep2.owner = "SIE" /\ ep2.packet.kind = "answer" => ep2.dts = host_dts
=============================================================================
