--------------------------- MODULE UsbControlProofs ---------------------------
(***************************************************************************)
(* Proofs about UsbControl for all descriptors, sizes of packets, numbers  *)
(* of configurations and addresses.                                        *)
(***************************************************************************)
EXTENDS UsbControl, SequenceTheorems, TLAPS

-----------------------------------------------------------------------------
(* The invariant: the transfer of an orderly host goes through phases.     *)

(* Where the main loop is between two events.                              *)
Turns == {"reset", "stall", "transaction"}

(* The device has an address and a configuration.                          *)
DeviceHas(address, c) ==
    /\ UADDR = address /\ usb_active_cfg = c /\ UEP = Initialised(c)
    /\ usb_device_state = IF address = 0 THEN "DEFAULT" ELSE IF c = 0 THEN "ADDRESS" ELSE "CONFIGURED"

Settled == DeviceHas(host.address, host.configuration)

(* A request has been executed; a new address does not count yet.          *)
AddressPending ==
    /\ usb_device_state = "ADDRESS_PENDING"
    /\ UADDR = 0 /\ usb_active_cfg = 0 /\ UEP = {0}

Obeyed(r) ==
    /\ r.code = "SET_ADDRESS" => AddressPending /\ host.address = 0
    /\ r.code = "SET_CONFIGURATION" => host.address # 0
    /\ r.code = "SET_CONFIGURATION" /\ Known(r) => DeviceHas(host.address, r.arg)
    /\ ~(r.code = "SET_ADDRESS" \/ (r.code = "SET_CONFIGURATION" /\ Known(r))) => Settled

(* The host is in the transfer that began with the request in SetupBuffer. *)
InTransfer == host.request = SetupBuffer /\ SetupBuffer \in Requests

Begun ==
    /\ InTransfer
    /\ host.received = << >> /\ host.dts = 1
    /\ host.stage = IF SetupBuffer.toHost THEN "data" ELSE "status_in"

(* The phases of a transfer, in their order.                               *)
Unpowered ==
    /\ usb_device_state = "POWERED" /\ UEP = {}
    /\ host.stage = "idle" /\ main \in Turns
    /\ USTAT = << >> /\ ~PKTDIS /\ ~STALLIF

Resting ==
    /\ Settled
    /\ host.stage = "idle" /\ main \in Turns
    /\ USTAT = << >> /\ ~PKTDIS
    /\ EP_OUT_BD.owner = "SIE" /\ EP_OUT_BD.toSetup
    /\ EP_IN_BD.owner = "CPU" \/ STALLIF

Waiting ==
    /\ Settled
    /\ Begun /\ Sensible(SetupBuffer) /\ main \in Turns
    /\ USTAT = <<"OUT">> /\ PKTDIS /\ ~STALLIF
    /\ EP_OUT_BD.owner = "CPU" /\ EP_OUT_BD.PID = "SETUP"
    /\ EP_IN_BD.owner = "CPU"

Executed ==
    /\ Obeyed(SetupBuffer)
    /\ Begun /\ main = IF Known(SetupBuffer) THEN "arm" ELSE "refuse"
    /\ USTAT = <<"OUT">> /\ ~PKTDIS /\ ~STALLIF
    /\ EP_OUT_BD.owner = "CPU"
    /\ EP_IN_BD.owner = "CPU"

Refused ==
    /\ Settled
    /\ host.stage \in {"data", "status_in"} /\ main \in Turns
    /\ USTAT = << >> /\ ~PKTDIS /\ ~STALLIF
    /\ EP_OUT_BD.owner = "SIE" /\ EP_OUT_BD.stall /\ EP_OUT_BD.toSetup
    /\ EP_IN_BD.owner = "SIE" /\ EP_IN_BD.stall

InStage ==
    /\ Settled
    /\ main \in Turns /\ ep0_state = "WAIT_IN"
    /\ ~PKTDIS /\ ~STALLIF
    /\ EP_OUT_BD.toSetup

ToHost ==
    /\ InStage
    /\ InTransfer /\ SetupBuffer.toHost
    /\ EP_OUT_BD.owner = "SIE" /\ ~EP_OUT_BD.stall /\ EP_OUT_BD.dts = AnyToggle

Sending ==
    /\ ToHost
    /\ host.stage = "data" /\ USTAT = << >>
    /\ EP_IN_BD.owner = "SIE" /\ ~EP_IN_BD.stall /\ EP_IN_BD.dts = host.dts
    /\ EP_IN_BD.packet = Packet(EP_IN_BD.packet \o sourceData)
    /\ host.received \o (EP_IN_BD.packet \o sourceData) = Asked(host.request)

Sent ==
    /\ ToHost
    /\ host.stage = "data" /\ USTAT = <<"IN">>
    /\ EP_IN_BD.owner = "CPU" /\ EP_IN_BD.dts = 1 - host.dts
    /\ host.received \o sourceData = Asked(host.request)

AllSent ==
    /\ ToHost
    /\ host.stage = "status_out" /\ USTAT \in {<< >>, <<"IN">>}
    /\ host.received = Asked(host.request)

Closing ==
    /\ InStage
    /\ host.stage = "idle" /\ USTAT \in {<<"IN", "OUT">>, <<"OUT">>}
    /\ EP_OUT_BD.owner = "CPU" /\ EP_OUT_BD.PID = "OUT"

OutStage ==
    /\ main \in Turns /\ ep0_state = "WAIT_OUT"
    /\ ~PKTDIS /\ ~STALLIF

Confirming ==
    /\ OutStage
    /\ InTransfer /\ ~SetupBuffer.toHost /\ Obeyed(SetupBuffer) /\ Known(SetupBuffer)
    /\ host.stage = "status_in" /\ host.dts = 1 /\ USTAT = << >>
    /\ EP_IN_BD = InArmed(<< >>, 1)

Confirmed ==
    /\ OutStage
    /\ Settled \/ (AddressPending /\ host.address = SetupBuffer.arg /\ host.address # 0 /\ host.configuration = 0)
    /\ host.stage = "idle" /\ USTAT = <<"IN">>
    /\ EP_IN_BD.owner = "CPU"

InPhase ==
    \/ Unpowered \/ Resting \/ Waiting \/ Executed \/ Refused
    \/ Sending \/ Sent \/ AllSent \/ Closing \/ Confirming \/ Confirmed

(* What holds of any host.                                                 *)
Heard ==
    /\ main \notin Turns => USTAT # << >>
    /\ PKTDIS /\ ~URSTIF /\ ~past.hasty =>
          USTAT = <<"OUT">> /\ EP_OUT_BD.PID = "SETUP" /\ ~STALLIF /\ main \in Turns

Restarted ==
    /\ URSTIF => host = Idle(0, 0)
    /\ host.address = 0 => host.configuration = 0 /\ host.request.code # "SET_CONFIGURATION"

Phases == URSTIF \/ ~Orderly \/ InPhase

ControlInv == TypeOK /\ Heard /\ Restarted /\ Phases

-----------------------------------------------------------------------------
(* Packets.                                                                *)

LEMMA SizeFacts ==
    /\ EP0_BUFFER_SIZE \in Nat \ {0}
    /\ Len(DescriptorLength) \in Nat
    /\ \A d \in Descriptors : DescriptorLength[d] \in Nat \ {0}
    /\ wLengths \subseteq Nat \ {0} /\ bNumConfigurations \in Nat \ {0} /\ MaxAddress \in Nat \ {0}
BY ControlAssumption DEF Descriptors

LEMMA FirstFacts ==
    ASSUME NEW S, NEW s \in Seq(S), NEW n \in Nat
    PROVE  /\ First(s, n) \in Seq(S)
           /\ Len(First(s, n)) = IF n < Len(s) THEN n ELSE Len(s)
           /\ \A i \in 1 .. Len(First(s, n)) : First(s, n)[i] = s[i]
           /\ n >= Len(s) => First(s, n) = s
<1> DEFINE k == IF n < Len(s) THEN n ELSE Len(s)
<1>1. Len(s) \in Nat /\ k \in 0 .. Len(s)
    OBVIOUS
<1>2. First(s, n) = SubSeq(s, 1, k)
    BY DEF First
<1> HIDE DEF k
<1>3. /\ SubSeq(s, 1, k) \in Seq(S)
      /\ Len(SubSeq(s, 1, k)) = k
      /\ \A i \in 1 .. k : SubSeq(s, 1, k)[i] = s[i]
    BY <1>1
<1>4. k = Len(s) => SubSeq(s, 1, k) = s
    BY <1>1, <1>3, SeqEqual
<1>5. QED
    BY <1>1, <1>2, <1>3, <1>4 DEF k

(* A packet and what it leaves are the bytes that were to be sent.         *)
LEMMA PacketFacts ==
    ASSUME NEW S, NEW s \in Seq(S)
    PROVE  /\ Packet(s) \in Seq(S) /\ Rest(s) \in Seq(S)
           /\ Packet(s) \o Rest(s) = s
           /\ Len(Packet(s)) < EP0_BUFFER_SIZE => Packet(s) = s /\ Rest(s) = << >>
           /\ Len(Packet(s)) \in Nat
<1> DEFINE p == Packet(s)
           m == Len(p)
<1>1. EP0_BUFFER_SIZE \in Nat /\ Len(s) \in Nat
    BY SizeFacts
<1>2. /\ p \in Seq(S)
      /\ m = IF EP0_BUFFER_SIZE < Len(s) THEN EP0_BUFFER_SIZE ELSE Len(s)
      /\ EP0_BUFFER_SIZE >= Len(s) => p = s
    BY <1>1, FirstFacts DEF Packet
<1>3. m \in 0 .. Len(s) /\ p = SubSeq(s, 1, m) /\ Rest(s) = SubSeq(s, m + 1, Len(s))
    BY <1>1, <1>2 DEF Packet, First, Rest
<1> HIDE DEF p, m
<1>4. 1 \in 1 .. Len(s) + 1 /\ m \in 1 - 1 .. Len(s) /\ Len(s) \in m .. Len(s)
    BY <1>1, <1>3
<1>5. SubSeq(s, 1, m) \o SubSeq(s, m + 1, Len(s)) = SubSeq(s, 1, Len(s))
    BY <1>4, ConcatAdjacentSubSeq
<1>6. SubSeq(s, 1, Len(s)) = s
    <2>1. First(s, Len(s)) = s
        BY <1>1, FirstFacts
    <2>2. QED
        BY <1>1, <2>1 DEF First
<1>7. Rest(s) \in Seq(S)
    BY <1>1, <1>3
<1>8. m < EP0_BUFFER_SIZE => p = s /\ Rest(s) = << >>
    <2>1. ASSUME m < EP0_BUFFER_SIZE
          PROVE  p = s /\ Rest(s) = << >>
        <3>1. p = s /\ m = Len(s)
            BY <1>1, <1>2, <2>1
        <3>2. m + 1 \in Int /\ Len(s) \in Int /\ Len(s) < m + 1
            BY <1>1, <3>1
        <3>3. QED
            BY <1>3, <3>1, <3>2, SubSeqEmpty
    <2>2. QED
        BY <2>1
<1>9. m \in Nat
    BY <1>1, <1>3
<1>10. p \o Rest(s) = s
    BY <1>3, <1>5, <1>6
<1>11. QED
    BY <1>2, <1>7, <1>8, <1>9, <1>10 DEF p, m

(* The requests.                                                           *)
LEMMA RequestFacts ==
    ASSUME NEW r \in Requests \cup {None}
    PROVE  /\ r.toHost \in BOOLEAN /\ r.arg \in Nat /\ r.wLength \in Nat
           /\ r.code = "GET_DESCRIPTOR" => r.arg \in Descriptors /\ r.toHost
           /\ r.code = "SET_ADDRESS" => r.arg \in 1 .. MaxAddress /\ ~r.toHost
           /\ r.code = "SET_CONFIGURATION" => r.arg \in 0 .. bNumConfigurations + 1 /\ ~r.toHost
           /\ r.code = "GET_CONFIGURATION" => r.wLength = 1 /\ r.toHost
           /\ r.toHost => r.wLength > 0
<1> DEFINE Good ==
           /\ r.toHost \in BOOLEAN /\ r.arg \in Nat /\ r.wLength \in Nat
           /\ r.code = "GET_DESCRIPTOR" => r.arg \in Descriptors /\ r.toHost
           /\ r.code = "SET_ADDRESS" => r.arg \in 1 .. MaxAddress /\ ~r.toHost
           /\ r.code = "SET_CONFIGURATION" => r.arg \in 0 .. bNumConfigurations + 1 /\ ~r.toHost
           /\ r.code = "GET_CONFIGURATION" => r.wLength = 1 /\ r.toHost
           /\ r.toHost => r.wLength > 0
<1> SUFFICES Good
    OBVIOUS
<1> HIDE DEF Good
<1>1. /\ Descriptors \subseteq Nat /\ wLengths \subseteq Nat \ {0}
      /\ 1 .. MaxAddress \subseteq Nat /\ 0 .. bNumConfigurations + 1 \subseteq Nat
    BY SizeFacts DEF Descriptors
<1>2. CASE r \in { Request("GET_DESCRIPTOR", TRUE, q[1], q[2]) : q \in Descriptors \X wLengths }
    <2>1. PICK q \in Descriptors \X wLengths : r = Request("GET_DESCRIPTOR", TRUE, q[1], q[2])
        BY <1>2
    <2>2. PICK d \in Descriptors, n \in wLengths : r = Request("GET_DESCRIPTOR", TRUE, d, n)
        BY <2>1
    <2>3. QED
        BY <1>1, <2>2 DEF Good, Request
<1>3. CASE r \in { Request("SET_ADDRESS", FALSE, a, 0) : a \in 1 .. MaxAddress }
    <2>1. PICK a \in 1 .. MaxAddress : r = Request("SET_ADDRESS", FALSE, a, 0)
        BY <1>3, Zenon
    <2>2. QED
        BY <1>1, <2>1 DEF Good, Request
<1>4. CASE r \in { Request("SET_CONFIGURATION", FALSE, c, 0) : c \in 0 .. bNumConfigurations + 1 }
    <2>1. PICK c \in 0 .. bNumConfigurations + 1 : r = Request("SET_CONFIGURATION", FALSE, c, 0)
        BY <1>4, Zenon
    <2>2. QED
        BY <1>1, <2>1 DEF Good, Request
<1>5. CASE r = Request("GET_CONFIGURATION", TRUE, 0, 1)
    BY <1>5 DEF Good, Request
<1>6. CASE r = Request("GET_STATUS", TRUE, 0, 2)
    BY <1>6 DEF Good, Request
<1>7. CASE r = Request("CLEAR_FEATURE", FALSE, 0, 0)
    BY <1>7 DEF Good, Request
<1>8. CASE r = Request("unknown", TRUE, 0, 1)
    BY <1>8 DEF Good, Request
<1>9. CASE r = Request("unknown", FALSE, 0, 0)
    BY <1>9 DEF Good, Request
<1>10. CASE r = None
    BY <1>10 DEF Good, Request, None
<1> DEFINE Others == { Request("GET_CONFIGURATION", TRUE, 0, 1), Request("GET_STATUS", TRUE, 0, 2),
                       Request("CLEAR_FEATURE", FALSE, 0, 0), Request("unknown", TRUE, 0, 1),
                       Request("unknown", FALSE, 0, 0) }
<1>11. CASE r \in Others
    BY <1>5, <1>6, <1>7, <1>8, <1>9, <1>11
<1>12. Requests = { Request("GET_DESCRIPTOR", TRUE, q[1], q[2]) : q \in Descriptors \X wLengths }
                    \cup { Request("SET_ADDRESS", FALSE, a, 0) : a \in 1 .. MaxAddress }
                    \cup { Request("SET_CONFIGURATION", FALSE, c, 0) : c \in 0 .. bNumConfigurations + 1 }
                    \cup Others
    BY DEF Requests
<1> HIDE DEF Others
<1>13. QED
    BY <1>2, <1>3, <1>4, <1>10, <1>11, <1>12

(* What is sent in answer to a request.                                    *)
LEMMA BytesFacts ==
    /\ \A d \in Descriptors : DescriptorBytes(d) \in Seq(Bytes)
    /\ \A c \in Nat : Configuration(c) \in Seq(Bytes) /\ Len(Configuration(c)) = 1
<1>1. ASSUME NEW d \in Descriptors
      PROVE  DescriptorBytes(d) \in Seq(Bytes)
    <2>1. PICK n \in Nat : n = DescriptorLength[d]
        BY SizeFacts
    <2>2. \A i \in 1 .. n : <<d, i>> \in Bytes
        BY SizeFacts DEF Bytes, Descriptors
    <2>3. [i \in 1 .. n |-> <<d, i>>] \in Seq(Bytes)
        BY <2>2
    <2>4. QED
        BY <2>1, <2>3 DEF DescriptorBytes
<1>2. ASSUME NEW c \in Nat
      PROVE  Configuration(c) \in Seq(Bytes) /\ Len(Configuration(c)) = 1
    <2>1. <<0, c>> \in Bytes
        BY SizeFacts DEF Bytes
    <2>2. QED
        BY <2>1 DEF Configuration
<1>3. QED
    BY <1>1, <1>2

LEMMA AnswerFacts ==
    ASSUME TypeOK, NEW r \in Requests
    PROVE  /\ Answer(r) \in Seq(Bytes) /\ Len(Answer(r)) \in Nat /\ Len(Answer(r)) <= r.wLength
           /\ usb_active_cfg = host.configuration => Answer(r) = Asked(r)
<1>1. usb_active_cfg \in Nat /\ r.wLength \in Nat
    BY SizeFacts, RequestFacts DEF TypeOK
<1> DEFINE all == CASE r.code = "GET_DESCRIPTOR" -> DescriptorBytes(r.arg)
                    [] r.code = "GET_CONFIGURATION" -> Configuration(usb_active_cfg)
                    [] OTHER -> << >>
<1>2. all \in Seq(Bytes)
    BY <1>1, RequestFacts, BytesFacts
<1>3. Answer(r) = First(all, r.wLength)
    BY DEF Answer
<1>4. /\ First(all, r.wLength) \in Seq(Bytes)
      /\ Len(First(all, r.wLength)) \in Nat /\ Len(First(all, r.wLength)) <= r.wLength
    <2> HIDE DEF all
    <2>1. Len(all) \in Nat
        BY <1>2
    <2>2. QED
        BY <1>1, <1>2, <2>1, FirstFacts
<1>5. ASSUME usb_active_cfg = host.configuration
      PROVE  Answer(r) = Asked(r)
    <2>1. CASE r.code = "GET_DESCRIPTOR"
        BY <1>3, <2>1 DEF Asked
    <2>2. CASE r.code = "GET_CONFIGURATION"
        <3>1. all = Configuration(host.configuration) /\ r.wLength = 1
            BY <1>5, <2>2, RequestFacts
        <3>2. Len(all) = 1
            BY <1>1, <1>5, <3>1, BytesFacts
        <3>3. First(all, 1) = all
            <4> HIDE DEF all
            <4>1. QED
                BY <1>2, <3>2, FirstFacts
        <3>4. QED
            BY <1>3, <2>2, <3>1, <3>3 DEF Asked
    <2>3. CASE r.code \notin {"GET_DESCRIPTOR", "GET_CONFIGURATION"}
        <3>1. all = << >> /\ Len(all) = 0
            BY <2>3
        <3>2. First(all, r.wLength) = all
            <4> HIDE DEF all
            <4>1. r.wLength >= Len(all)
                BY <1>1, <3>1
            <4>2. QED
                BY <1>1, <1>2, <4>1, FirstFacts
        <3>3. QED
            BY <1>3, <2>3, <3>1, <3>2 DEF Asked
    <2>4. QED
        BY <2>1, <2>2, <2>3
<1>6. QED
    BY <1>3, <1>4, <1>5

-----------------------------------------------------------------------------
(* Types, in parts that most actions leave alone.                          *)

OutBuffers == [owner : {"CPU", "SIE"}, stall : BOOLEAN, dts : {0, 1, AnyToggle},
               toSetup : BOOLEAN, PID : {"none", "OUT", "SETUP"}]
InBuffers  == [owner : {"CPU", "SIE"}, stall : BOOLEAN, dts : {0, 1}, packet : Seq(Bytes)]
Hosts      == [address : 0 .. MaxAddress, configuration : 0 .. bNumConfigurations + 1,
               stage : {"idle", "data", "status_in", "status_out"},
               request : Requests \cup {None}, received : Seq(Bytes), dts : {0, 1}]

StateTypes ==
    /\ usb_device_state \in {"POWERED", "DEFAULT", "ADDRESS_PENDING", "ADDRESS", "CONFIGURED"}
    /\ usb_active_cfg \in 0 .. bNumConfigurations
    /\ UADDR \in Nat
    /\ UEP \in {{}, {0}, {0, 1, 2}}

FlagTypes   == PKTDIS \in BOOLEAN /\ URSTIF \in BOOLEAN /\ STALLIF \in BOOLEAN
QueueTypes  == USTAT \in Seq({"IN", "OUT"}) /\ Len(USTAT) <= 4
BufferTypes == EP_OUT_BD \in OutBuffers /\ EP_IN_BD \in InBuffers /\ SetupBuffer \in Requests \cup {None}

LoopTypes ==
    /\ ep0_state \in {"WAIT_SETUP", "WAIT_IN", "WAIT_OUT"}
    /\ sourceData \in Seq(Bytes)
    /\ main \in {"reset", "stall", "transaction", "arm", "refuse"}

HostTypes == host \in Hosts /\ past \in [abandoned : BOOLEAN, hasty : BOOLEAN]

Types == StateTypes /\ FlagTypes /\ QueueTypes /\ BufferTypes /\ LoopTypes /\ HostTypes

LEMMA TypeParts == TypeOK <=> Types
<1>1. {PKTDIS, URSTIF, STALLIF} \subseteq BOOLEAN <=> FlagTypes
    BY DEF FlagTypes
<1>2. QED
    BY <1>1 DEF TypeOK, Types, StateTypes, QueueTypes, BufferTypes, LoopTypes, HostTypes,
                OutBuffers, InBuffers, Hosts

LEMMA TypePartsPrime == TypeOK' <=> Types'
BY TypeParts, PTL

(* The queue of transactions.                                              *)
LEMMA QueueFacts ==
    ASSUME NEW q \in Seq({"IN", "OUT"}), Len(q) <= 4
    PROVE  /\ q # << >> => Tail(q) \in Seq({"IN", "OUT"}) /\ Len(Tail(q)) <= 4
           /\ \A d \in {"IN", "OUT"} : Len(q) < 4 =>
                  Append(q, d) \in Seq({"IN", "OUT"}) /\ Len(Append(q, d)) <= 4
           /\ << >> \in Seq({"IN", "OUT"}) /\ Len(<< >>) <= 4
OBVIOUS

LEMMA QueueEnds ==
    ASSUME NEW q \in Seq({"IN", "OUT"}), NEW d \in {"IN", "OUT"}
    PROVE  Append(q, d) # << >> /\ (q = << >> => Append(q, d) = <<d>>)
<1>1. Len(Append(q, d)) = Len(q) + 1 /\ Len(q) \in Nat
    OBVIOUS
<1>2. Append(q, d) # << >>
    BY <1>1
<1>3. Append(<< >>, d) = <<d>>
    OBVIOUS
<1>4. QED
    BY <1>2, <1>3

(* The descriptors that firmware and the SIE hand to each other.           *)
LEMMA OutFacts ==
    /\ AfterInit \in OutBuffers /\ OutStalled \in OutBuffers
    /\ OutArmed(TRUE, AnyToggle) \in OutBuffers /\ OutArmed(FALSE, 1) \in OutBuffers
    /\ \A b \in OutBuffers :
          /\ [b EXCEPT !.owner = "CPU", !.stall = FALSE, !.PID = "SETUP"] \in OutBuffers
          /\ [b EXCEPT !.owner = "CPU", !.PID = "OUT"] \in OutBuffers
<1>1. AfterInit \in OutBuffers /\ OutArmed(TRUE, AnyToggle) \in OutBuffers /\ OutArmed(FALSE, 1) \in OutBuffers
    BY DEF AfterInit, OutArmed, OutBuffers, AnyToggle
<1>2. OutStalled \in OutBuffers
    BY DEF OutStalled, OutArmed, OutBuffers
<1>3. QED
    BY <1>1, <1>2 DEF OutBuffers

LEMMA InFacts ==
    /\ InStalled \in InBuffers /\ InArmed(<< >>, 1) \in InBuffers
    /\ \A q \in Seq(Bytes), d \in {0, 1} : InArmed(q, d) \in InBuffers
    /\ \A b \in InBuffers :
          /\ [b EXCEPT !.owner = "CPU", !.stall = FALSE, !.dts = 0] \in InBuffers
          /\ [b EXCEPT !.owner = "CPU"] \in InBuffers
          /\ b.dts \in {0, 1}
<1>1. \A q \in Seq(Bytes), d \in {0, 1} : InArmed(q, d) \in InBuffers
    BY DEF InArmed, InBuffers
<1>2. InArmed(<< >>, 1) \in InBuffers /\ InArmed(<< >>, 0) \in InBuffers
    <2>1. << >> \in Seq(Bytes)
        OBVIOUS
    <2>2. QED
        BY <1>1, <2>1
<1>3. InStalled \in InBuffers
    BY <1>2 DEF InStalled, InBuffers
<1>4. QED
    BY <1>1, <1>2, <1>3 DEF InBuffers

(* ep0_init.                                                               *)
LEMMA InitTypes ==
    ASSUME Types, ep0_init
    PROVE  EP_OUT_BD' \in OutBuffers /\ EP_IN_BD' \in InBuffers /\ ep0_state' = "WAIT_SETUP"
BY OutFacts, InFacts DEF ep0_init, Types, BufferTypes

LEMMA FlushTypes ==
    ASSUME Types, Flush, USTAT # << >>
    PROVE  QueueTypes' /\ main' \in {"reset", "stall", "transaction", "arm", "refuse"}
BY QueueFacts DEF Flush, Types, QueueTypes

LEMMA MainTypes ==
    ASSUME TypeOK, Heard, Main
    PROVE  TypeOK'
<1> SUFFICES Types'
    BY TypePartsPrime
<1>0. Types
    BY TypeParts
<1>1. CASE NoReset \/ NoStall \/ NoTransaction
    BY <1>0, <1>1 DEF Types, StateTypes, FlagTypes, QueueTypes, BufferTypes, LoopTypes, HostTypes,
                      NoReset, NoStall, NoTransaction, state, flags, buffers, ep0
<1>2. CASE Reset \/ Stall
    <2>1. ep0_init
        BY <1>2 DEF Reset, Stall
    <2>2. BufferTypes' /\ LoopTypes'
        BY <1>0, <1>2, <2>1, InitTypes DEF Types, BufferTypes, LoopTypes, Reset, Stall
    <2>3. QueueTypes'
        BY <1>0, <1>2, QueueFacts DEF Types, QueueTypes, Reset, Stall
    <2>4. StateTypes'
        BY <1>0, <1>2, SizeFacts DEF Types, StateTypes, Reset, Stall, state
    <2>5. QED
        BY <1>0, <1>2, <2>2, <2>3, <2>4 DEF Types, FlagTypes, HostTypes, Reset, Stall
<1>3. CASE TransactionOut
    <2>1. ep0_init /\ Flush /\ USTAT # << >>
        BY <1>3 DEF TransactionOut, Transaction
    <2>2. BufferTypes' /\ LoopTypes' /\ QueueTypes'
        BY <1>0, <1>3, <2>1, InitTypes, FlushTypes DEF Types, BufferTypes, LoopTypes, TransactionOut
    <2>3. QED
        BY <1>0, <1>3, <2>2 DEF Types, StateTypes, FlagTypes, HostTypes, TransactionOut, state
<1>4. CASE TransactionIn
    <2>1. sourceData \in Seq(Bytes) /\ Packet(sourceData) \in Seq(Bytes) /\ Rest(sourceData) \in Seq(Bytes)
        BY <1>0, PacketFacts DEF Types, LoopTypes
    <2>2. Flush /\ USTAT # << >>
        BY <1>4 DEF TransactionIn, Transaction
    <2>3. ASSUME InContinues
          PROVE  BufferTypes' /\ LoopTypes'
        <3>1. EP_IN_BD.dts \in {0, 1}
            BY <1>0, InFacts DEF Types, BufferTypes
        <3>2. EP_IN_BD' \in InBuffers
            <4>1. 1 - EP_IN_BD.dts \in {0, 1}
                BY <3>1
            <4>2. QED
                BY <2>1, <2>3, <4>1, InFacts DEF InContinues, NextIn
        <3>3. QED
            BY <1>0, <1>4, <2>1, <2>2, <2>3, <3>2, FlushTypes
            DEF Types, BufferTypes, LoopTypes, InContinues, TransactionIn
    <2>4. ASSUME InEnds
          PROVE  BufferTypes' /\ LoopTypes'
        BY <1>0, <1>4, <2>2, <2>4, InitTypes, FlushTypes DEF Types, BufferTypes, LoopTypes, InEnds, TransactionIn
    <2>5. BufferTypes' /\ LoopTypes' /\ QueueTypes'
        BY <1>0, <1>4, <2>2, <2>3, <2>4, FlushTypes DEF TransactionIn
    <2>6. SetupBuffer.arg \in Nat
        BY <1>0, RequestFacts DEF Types, BufferTypes
    <2>7. StateTypes'
        BY <1>0, <1>4, <2>6 DEF Types, StateTypes, TransactionIn, TakeAddress
    <2>8. QED
        BY <1>0, <1>4, <2>5, <2>7 DEF Types, FlagTypes, HostTypes, TransactionIn
<1>5. CASE TransactionSetup
    <2>1. SetupBuffer \in Requests \cup {None}
        BY <1>0 DEF Types, BufferTypes
    <2>2. SetupBuffer.code = "SET_CONFIGURATION" /\ Known(SetupBuffer) =>
              SetupBuffer.arg \in 0 .. bNumConfigurations
        BY <2>1, RequestFacts, SizeFacts DEF Known, Acceptable
    <2>3. StateTypes'
        BY <1>0, <1>5, <2>2 DEF Types, StateTypes, TransactionSetup, SetupExecutes, Perform, Initialised
    <2>4. LoopTypes'
        <3>1. << >> \in Seq(Bytes)
            OBVIOUS
        <3>2. QED
            BY <1>5, <3>1 DEF LoopTypes, TransactionSetup, SetupExecutes
    <2>5. QED
        BY <1>0, <1>5, <2>3, <2>4 DEF Types, FlagTypes, QueueTypes, BufferTypes, HostTypes,
                                      TransactionSetup, SetupExecutes, PKTDISAfter, buffers
<1>6. CASE SetupArmsIn
    <2>1. SetupBuffer \in Requests
        BY <1>0, <1>6 DEF Types, BufferTypes, SetupArmsIn, None, Request
    <2>2. Answer(SetupBuffer) \in Seq(Bytes)
        BY <2>1, AnswerFacts
    <2>3. Packet(Answer(SetupBuffer)) \in Seq(Bytes) /\ Rest(Answer(SetupBuffer)) \in Seq(Bytes)
        BY <2>2, PacketFacts
    <2>4. USTAT # << >> /\ Flush
        BY <1>6 DEF SetupArmsIn, Heard, Turns
    <2>5. BufferTypes'
        BY <1>0, <1>6, <2>3, OutFacts, InFacts DEF Types, BufferTypes, SetupArmsIn
    <2>6. LoopTypes' /\ QueueTypes'
        BY <1>0, <1>6, <2>3, <2>4, FlushTypes DEF LoopTypes, SetupArmsIn
    <2>7. QED
        BY <1>0, <1>6, <2>5, <2>6 DEF Types, StateTypes, FlagTypes, HostTypes, SetupArmsIn, state
<1>7. CASE SetupArmsOut \/ SetupRefuses
    <2>1. USTAT # << >> /\ Flush
        BY <1>7 DEF SetupArmsOut, SetupRefuses, Heard, Turns
    <2>2. BufferTypes'
        BY <1>0, <1>7, OutFacts, InFacts DEF Types, BufferTypes, SetupArmsOut, SetupRefuses
    <2>3. LoopTypes' /\ QueueTypes'
        BY <1>0, <1>7, <2>1, FlushTypes DEF Types, LoopTypes, SetupArmsOut, SetupRefuses, ep0
    <2>4. QED
        BY <1>0, <1>7, <2>2, <2>3 DEF Types, StateTypes, FlagTypes, HostTypes, SetupArmsOut, SetupRefuses, state
<1>8. QED
    BY <1>1, <1>2, <1>3, <1>4, <1>5, <1>6, <1>7 DEF Main

(* The host after a transfer.                                              *)
LEMMA HostFacts ==
    ASSUME Types
    PROVE  Failed \in Hosts /\ Completed \in Hosts /\ Idle(0, 0) \in Hosts
<1>1. /\ host.request \in Requests \cup {None}
      /\ host.address \in 0 .. MaxAddress /\ host.configuration \in 0 .. bNumConfigurations + 1
    BY DEF Types, HostTypes, Hosts
<1>2. ASSUME NEW a \in 0 .. MaxAddress, NEW c \in 0 .. bNumConfigurations + 1
      PROVE  Idle(a, c) \in Hosts
    BY DEF Idle, Hosts
<1>3. /\ host.request.code = "SET_ADDRESS" => host.request.arg \in 0 .. MaxAddress
      /\ host.request.code = "SET_CONFIGURATION" => host.request.arg \in 0 .. bNumConfigurations + 1
    BY <1>1, RequestFacts, SizeFacts
<1>4. Idle(0, 0) \in Hosts
    BY <1>2, SizeFacts
<1>5. Failed \in Hosts
    BY <1>1, <1>2 DEF Failed
<1>6. Completed \in Hosts
    BY <1>1, <1>2, <1>3, <1>5 DEF Completed
<1>7. QED
    BY <1>4, <1>5, <1>6

LEMMA HostActionTypes ==
    ASSUME TypeOK, HostContinues \/ HostBegins
    PROVE  TypeOK'
<1> SUFFICES Types'
    BY TypePartsPrime
<1>0. Types
    BY TypeParts
<1>1. CASE HostResets
    BY <1>0, <1>1, HostFacts
    DEF Types, StateTypes, FlagTypes, QueueTypes, BufferTypes, LoopTypes, HostTypes, HostResets, state, buffers, ep0
<1>2. ASSUME NEW r \in Requests, HostSetup(r)
      PROVE  Types'
    <2>1. Len(USTAT) < 4 /\ USTAT' = Append(USTAT, "OUT")
        BY <1>2 DEF HostSetup, Hears
    <2>2. QueueTypes'
        BY <1>0, <2>1, QueueFacts DEF Types, QueueTypes
    <2>3. BufferTypes'
        BY <1>0, <1>2, OutFacts DEF Types, BufferTypes, HostSetup
    <2>4. host' \in Hosts
        <3>1. << >> \in Seq(Bytes)
            OBVIOUS
        <3>2. QED
            BY <1>0, <1>2, <3>1 DEF Types, HostTypes, Hosts, HostSetup
    <2>5. past' \in [abandoned : BOOLEAN, hasty : BOOLEAN]
        <3>1. past.abandoned \in BOOLEAN /\ past.hasty \in BOOLEAN /\ STALLIF \in BOOLEAN
            BY <1>0 DEF Types, HostTypes, FlagTypes
        <3>2. QED
            BY <1>2, <3>1 DEF HostSetup
    <2>6. QED
        BY <1>0, <1>2, <2>2, <2>3, <2>4, <2>5
        DEF Types, StateTypes, FlagTypes, LoopTypes, HostTypes, HostSetup, state, ep0
<1>3. CASE HostInStalled \/ HostOutStalled
    <2>1. HostStalled
        BY <1>3 DEF HostInStalled, HostOutStalled
    <2>2. QED
        BY <1>0, <2>1, HostFacts
        DEF Types, StateTypes, FlagTypes, QueueTypes, BufferTypes, LoopTypes, HostTypes,
            HostStalled, state, buffers, ep0
<1>4. CASE HostIn
    <2>1. Len(USTAT) < 4 /\ USTAT' = Append(USTAT, "IN")
        BY <1>4 DEF HostIn, Hears
    <2>2. QueueTypes'
        BY <1>0, <2>1, QueueFacts DEF Types, QueueTypes
    <2>3. BufferTypes'
        BY <1>0, <1>4, InFacts DEF Types, BufferTypes, HostIn
    <2>4. Received(EP_IN_BD.packet) \in Hosts
        <3>1. /\ host.received \in Seq(Bytes) /\ EP_IN_BD.packet \in Seq(Bytes)
              /\ host \in Hosts /\ host.dts \in {0, 1}
            BY <1>0 DEF Types, HostTypes, BufferTypes, Hosts, InBuffers
        <3>2. host.received \o EP_IN_BD.packet \in Seq(Bytes) /\ 1 - host.dts \in {0, 1}
            BY <3>1
        <3>3. QED
            BY <3>1, <3>2 DEF Received, Hosts
    <2>5. host' \in Hosts
        <3>1. host \in Hosts /\ Completed \in Hosts /\ Failed \in Hosts
            BY <1>0, HostFacts DEF Types, HostTypes
        <3>2. QED
            BY <1>4, <2>4, <3>1 DEF HostIn
    <2>6. QED
        BY <1>0, <1>4, <2>2, <2>3, <2>5
        DEF Types, StateTypes, FlagTypes, LoopTypes, HostTypes, HostIn, state, ep0
<1>5. CASE HostOut
    <2>1. Len(USTAT) < 4 /\ (USTAT' = USTAT \/ USTAT' = Append(USTAT, "OUT"))
        BY <1>5 DEF HostOut, Hears
    <2>2. QueueTypes'
        BY <1>0, <2>1, QueueFacts DEF Types, QueueTypes
    <2>3. BufferTypes'
        BY <1>0, <1>5, OutFacts DEF Types, BufferTypes, HostOut
    <2>4. QED
        BY <1>0, <1>5, <2>2, <2>3, HostFacts
        DEF Types, StateTypes, FlagTypes, LoopTypes, HostTypes, HostOut, state, ep0
<1>6. QED
    BY <1>1, <1>2, <1>3, <1>4, <1>5 DEF HostContinues, HostBegins

-----------------------------------------------------------------------------
(* What holds of any host is kept.                                         *)

LEMMA MainHeard ==
    ASSUME TypeOK, Heard, Restarted, Main
    PROVE  Heard' /\ Restarted'
<1>1. CASE NoReset \/ NoStall \/ NoTransaction
    BY <1>1 DEF Heard, Restarted, NoReset, NoStall, NoTransaction, flags, buffers, Turns
<1>2. CASE Reset
    BY <1>2 DEF Heard, Restarted, Reset, Turns
<1>3. CASE Stall
    BY <1>3 DEF Heard, Restarted, Stall, Turns
<1>4. CASE TransactionIn \/ TransactionOut
    <2>1. ~(PKTDIS /\ ~URSTIF /\ ~past.hasty)
        BY <1>4 DEF Heard, TransactionIn, TransactionOut, Transaction
    <2>2. /\ main' = "reset" /\ UNCHANGED <<PKTDIS, URSTIF, host, past>>
        BY <1>4 DEF TransactionIn, TransactionOut, Flush
    <2>3. QED
        BY <2>1, <2>2 DEF Heard, Restarted, Turns
<1>5. CASE TransactionSetup
    BY <1>5 DEF Heard, Restarted, TransactionSetup, SetupExecutes, PKTDISAfter, Transaction
<1>6. CASE SetupArmsIn \/ SetupArmsOut \/ SetupRefuses
    <2>1. ~(PKTDIS /\ ~URSTIF /\ ~past.hasty)
        BY <1>6 DEF Heard, SetupArmsIn, SetupArmsOut, SetupRefuses, Turns
    <2>2. /\ main' = "reset" /\ UNCHANGED <<PKTDIS, URSTIF, host, past>>
        BY <1>6 DEF SetupArmsIn, SetupArmsOut, SetupRefuses, Flush
    <2>3. QED
        BY <2>1, <2>2 DEF Heard, Restarted, Turns
<1>7. QED
    BY <1>1, <1>2, <1>3, <1>4, <1>5, <1>6 DEF Main

LEMMA HostHeard ==
    ASSUME TypeOK, Heard, Restarted, HostContinues \/ HostBegins
    PROVE  Heard' /\ Restarted'
<1> DEFINE Given(h) == h.address = 0 => h.configuration = 0 /\ h.request.code # "SET_CONFIGURATION"
<1>1. \A a, c : Idle(a, c).request.code = "none"
    BY DEF Idle, None, Request
<1>2. Given(Idle(0, 0)) /\ Given(Failed)
    BY <1>1 DEF Restarted, Failed, Idle
<1>3. Given(Completed)
    <2>1. CASE host.request.code = "SET_ADDRESS"
        <3>1. host.request.arg \in 1 .. MaxAddress
            BY <2>1, RequestFacts, TypeParts DEF Types, HostTypes, Hosts
        <3>2. host.request.arg # 0
            BY <3>1, SizeFacts
        <3>3. QED
            BY <2>1, <3>2 DEF Completed, Idle
    <2>2. CASE host.request.code = "SET_CONFIGURATION"
        BY <2>2 DEF Completed, Idle, Restarted
    <2>3. CASE host.request.code \notin {"SET_ADDRESS", "SET_CONFIGURATION"}
        BY <1>2, <2>3 DEF Completed
    <2>4. QED
        BY <2>1, <2>2, <2>3
<1>4. CASE HostResets
    BY <1>2, <1>4 DEF Heard, Restarted, HostResets
<1>5. ASSUME NEW r \in Requests, HostSetup(r)
      PROVE  Heard' /\ Restarted'
    <2>1. /\ USTAT' = Append(USTAT, "OUT") /\ EP_OUT_BD'.PID = "SETUP"
          /\ past'.hasty = (past.hasty \/ USTAT # << >> \/ STALLIF)
          /\ UNCHANGED <<URSTIF, STALLIF, main>> /\ ~URSTIF
        BY <1>5, TypeParts DEF Types, BufferTypes, OutBuffers, HostSetup, Hears
    <2>2. USTAT' # << >> /\ (USTAT = << >> => USTAT' = <<"OUT">>)
        BY <2>1, QueueEnds, TypeParts DEF Types, QueueTypes
    <2>3. Heard'
        BY <2>1, <2>2 DEF Heard
    <2>4. host'.address = host.address /\ host'.configuration = host.configuration /\ host'.request = r
        BY <1>5, TypeParts DEF HostSetup, Types, HostTypes, Hosts
    <2>5. r.code = "SET_CONFIGURATION" => host.address # 0
        BY <1>5 DEF HostSetup, Sensible
    <2>6. QED
        BY <2>1, <2>3, <2>4, <2>5 DEF Restarted
<1>6. CASE HostContinues
    <2>1. /\ ~PKTDIS /\ ~URSTIF /\ UNCHANGED <<PKTDIS, URSTIF, main>>
          /\ USTAT' = USTAT \/ USTAT' # << >>
        BY <1>6, QueueEnds, TypeParts DEF HostContinues, HostIn, HostInStalled, HostOut, HostOutStalled, HostStalled, Hears,
                    Types, QueueTypes
    <2>2. Heard'
        BY <2>1 DEF Heard
    <2>3. \A bytes : /\ Received(bytes).address = host.address
                     /\ Received(bytes).configuration = host.configuration
                     /\ Received(bytes).request = host.request
        BY TypeParts DEF Received, Types, HostTypes, Hosts
    <2>4. Given(host) /\ \A bytes : Given(Received(bytes))
        BY <2>3 DEF Restarted
    <2>5. host' \in {host, Failed, Completed, Received(EP_IN_BD.packet)}
        BY <1>6 DEF HostContinues, HostIn, HostInStalled, HostOut, HostOutStalled, HostStalled
    <2>6. Given(host')
        BY <1>2, <1>3, <2>4, <2>5
    <2>7. QED
        BY <2>1, <2>2, <2>6 DEF Restarted
<1>7. QED
    BY <1>4, <1>5, <1>6 DEF HostBegins

-----------------------------------------------------------------------------
(* From phase to phase.                                                    *)

LEMMA ConcatEmpty ==
    ASSUME NEW S, NEW s \in Seq(S)
    PROVE  << >> \o s = s /\ s \o << >> = s
OBVIOUS

(* No event: the main loop goes on.                                        *)
LEMMA TurnPhase ==
    ASSUME InPhase, NoReset \/ NoStall \/ NoTransaction
    PROVE  InPhase'
<1>1. /\ main \in Turns /\ main' \in Turns
      /\ UNCHANGED <<usb_device_state, usb_active_cfg, UADDR, UEP>>
      /\ UNCHANGED <<PKTDIS, STALLIF, USTAT>>
      /\ UNCHANGED <<EP_OUT_BD, EP_IN_BD, SetupBuffer>>
      /\ UNCHANGED <<ep0_state, sourceData, host>>
    BY DEF NoReset, NoStall, NoTransaction, state, flags, buffers, ep0, Turns
<1>2. Settled' = Settled /\ Asked(host.request)' = Asked(host.request)
    BY <1>1 DEF Settled, DeviceHas, Asked
<1>3. Obeyed(SetupBuffer)' = Obeyed(SetupBuffer)
    BY <1>1, <1>2 DEF Obeyed, AddressPending, DeviceHas
<1>4. ToHost => ToHost'
    BY <1>1, <1>2 DEF ToHost, InStage, InTransfer
<1>5. Unpowered \/ Resting \/ Refused => InPhase'
    BY <1>1, <1>2 DEF InPhase, Unpowered, Resting, Refused
<1>6. Waiting => Waiting'
    BY <1>1, <1>2 DEF Waiting, Begun, InTransfer, Sensible
<1>7. ~Executed
    BY <1>1 DEF Executed, Turns
<1>8. Sending => Sending'
    BY <1>1, <1>2, <1>4 DEF Sending
<1>9. Sent => Sent'
    BY <1>1, <1>2, <1>4 DEF Sent
<1>10. AllSent => AllSent'
    BY <1>1, <1>2, <1>4 DEF AllSent
<1>11. Closing => Closing'
    BY <1>1, <1>2 DEF Closing, InStage
<1>12. Confirming => Confirming'
    BY <1>1, <1>3 DEF Confirming, OutStage, InTransfer
<1>13. Confirmed => Confirmed'
    BY <1>1, <1>2 DEF Confirmed, OutStage, AddressPending
<1>14. QED
    BY <1>5, <1>6, <1>7, <1>8, <1>9, <1>10, <1>11, <1>12, <1>13 DEF InPhase

(* A reset leaves the device as the host then is.                          *)
LEMMA ResetPhase ==
    ASSUME TypeOK, Restarted, Reset
    PROVE  Resting'
<1>1. host' = Idle(0, 0)
    BY DEF Restarted, Reset
<1>2. host'.address = 0 /\ host'.configuration = 0 /\ host'.stage = "idle"
    BY <1>1 DEF Idle
<1>3. Settled'
    BY <1>2 DEF Reset, Settled, DeviceHas, Initialised
<1>4. EP_OUT_BD'.owner = "SIE" /\ EP_OUT_BD'.toSetup
    BY DEF Reset, ep0_init, AfterInit, OutArmed
<1>5. EP_IN_BD'.owner = "CPU" \/ STALLIF'
    BY TypeParts DEF Types, BufferTypes, InBuffers, Reset, ep0_init
<1>6. QED
    BY <1>2, <1>3, <1>4, <1>5 DEF Reset, Resting, Turns

(* What ep0_init leaves.                                                   *)
LEMMA InitLeaves ==
    ASSUME TypeOK, ep0_init
    PROVE  /\ EP_OUT_BD'.owner = "SIE" /\ EP_OUT_BD'.toSetup /\ EP_IN_BD'.owner = "CPU"
BY TypeParts DEF Types, BufferTypes, InBuffers, ep0_init, AfterInit, OutArmed

(* A STALL is sent only when the host has given the transfer up.           *)
LEMMA StallPhase ==
    ASSUME TypeOK, InPhase, Stall
    PROVE  Resting'
<1>1. Resting
    BY DEF InPhase, Stall, Unpowered, Resting, Waiting, Executed, Refused, Sending, Sent, AllSent, ToHost,
           Closing, InStage, Confirming, Confirmed, OutStage, Turns
<1>2. Settled' = Settled
    BY DEF Stall, Settled, DeviceHas, state
<1>3. QED
    BY <1>1, <1>2, InitLeaves DEF Stall, Resting, Turns

(* The queue of transactions in each phase.                                *)
LEMMA QueueHeads ==
    /\ Head(<<"IN">>) = "IN" /\ Tail(<<"IN">>) = << >>
    /\ Head(<<"OUT">>) = "OUT" /\ Tail(<<"OUT">>) = << >>
    /\ Head(<<"IN", "OUT">>) = "IN" /\ Tail(<<"IN", "OUT">>) = <<"OUT">>
    /\ <<"IN">> # << >> /\ <<"OUT">> # << >> /\ <<"IN", "OUT">> # << >>
OBVIOUS

LEMMA TransactionInPhase ==
    ASSUME TypeOK, InPhase, TransactionIn
    PROVE  InPhase'
<1>1. /\ USTAT # << >> /\ Head(USTAT) = "IN" /\ main = "transaction"
      /\ USTAT' = Tail(USTAT) /\ main' = "reset"
      /\ UNCHANGED <<usb_active_cfg, UEP, PKTDIS, URSTIF, STALLIF, SetupBuffer, host>>
    BY DEF TransactionIn, Transaction, Flush
<1>2. Sent \/ AllSent \/ Closing \/ Confirmed
    BY <1>1, QueueHeads DEF InPhase, Unpowered, Resting, Waiting, Executed, Refused, Sending, Confirming
<1>3. USTAT \in {<<"IN">>, <<"IN", "OUT">>}
    BY <1>1, <1>2, QueueHeads DEF Sent, AllSent, Closing, Confirmed
<1>4. Asked(host.request)' = Asked(host.request)
    BY <1>1 DEF Asked
<1>5. CASE Settled /\ ep0_state = "WAIT_IN"
    <2>1. usb_device_state # "ADDRESS_PENDING"
        BY <1>5 DEF Settled, DeviceHas
    <2>2. UNCHANGED <<UADDR, usb_device_state>>
        BY <2>1 DEF TransactionIn, TakeAddress
    <2>3. Settled'
        BY <1>1, <1>5, <2>2 DEF Settled, DeviceHas
    <2>4. InContinues
        BY <1>5 DEF TransactionIn, InEnds
    <2>5. ToHost => ToHost'
        BY <1>1, <2>3, <2>4 DEF ToHost, InStage, InTransfer, InContinues, Turns
    <2>6. Sent => Sending'
        <3>1. ASSUME Sent
              PROVE  Sending'
            <4>1. sourceData \in Seq(Bytes)
                BY TypeParts DEF Types, LoopTypes
            <4>2. Packet(sourceData) \o Rest(sourceData) = sourceData
                BY <4>1, PacketFacts
            <4>3. /\ EP_IN_BD'.owner = "SIE" /\ ~EP_IN_BD'.stall /\ EP_IN_BD'.dts = 1 - EP_IN_BD.dts
                  /\ EP_IN_BD'.packet = Packet(sourceData) /\ sourceData' = Rest(sourceData)
                BY <2>4 DEF InContinues, NextIn, InArmed
            <4>4. EP_IN_BD'.packet = Packet(EP_IN_BD'.packet \o sourceData')
                BY <4>2, <4>3
            <4>5. (host.received \o (EP_IN_BD.packet \o sourceData) = Asked(host.request))'
                BY <1>1, <1>4, <3>1, <4>2, <4>3 DEF Sent
            <4>6. host.dts \in {0, 1} /\ EP_IN_BD.dts = 1 - host.dts
                BY <3>1, TypeParts DEF Types, HostTypes, Hosts, Sent
            <4>7. EP_IN_BD'.dts = host'.dts
                BY <1>1, <4>3, <4>6
            <4>8. ToHost' /\ host'.stage = "data" /\ USTAT' = << >>
                BY <1>1, <2>5, <3>1, QueueHeads DEF Sent
            <4>9. Packet(EP_IN_BD'.packet \o sourceData') = Packet(EP_IN_BD.packet \o sourceData)'
                BY DEF Packet
            <4>10. QED
                BY <4>3, <4>4, <4>5, <4>7, <4>8 DEF Sending
        <3>2. QED
            BY <3>1
    <2>7. AllSent => AllSent'
        BY <1>1, <1>3, <1>4, <2>5, QueueHeads DEF AllSent
    <2>8. Closing => Closing'
        BY <1>1, <1>3, <2>3, <2>4, QueueHeads DEF Closing, InStage, InContinues, Turns
    <2>9. ~Confirmed
        BY <1>5 DEF Confirmed, OutStage
    <2>10. QED
        BY <1>2, <2>6, <2>7, <2>8, <2>9 DEF InPhase
<1>6. CASE Confirmed
    <2>1. InEnds
        BY <1>6 DEF Confirmed, OutStage, TransactionIn, InContinues
    <2>2. Settled'
        <3>1. CASE Settled
            <4>1. usb_device_state # "ADDRESS_PENDING"
                BY <3>1 DEF Settled, DeviceHas
            <4>2. QED
                BY <1>1, <3>1, <4>1 DEF TransactionIn, TakeAddress, Settled, DeviceHas
        <3>2. CASE AddressPending /\ host.address = SetupBuffer.arg /\ host.address # 0 /\ host.configuration = 0
            BY <1>1, <3>2 DEF TransactionIn, TakeAddress, AddressPending, Settled, DeviceHas, Initialised
        <3>3. QED
            BY <1>6, <3>1, <3>2 DEF Confirmed
    <2>3. EP_OUT_BD'.owner = "SIE" /\ EP_OUT_BD'.toSetup /\ EP_IN_BD'.owner = "CPU"
        BY <2>1, InitLeaves DEF InEnds
    <2>4. Resting'
        BY <1>1, <1>6, <2>2, <2>3, QueueHeads DEF Resting, Confirmed, OutStage, Turns
    <2>5. QED
        BY <2>4 DEF InPhase
<1>7. QED
    BY <1>2, <1>5, <1>6 DEF Sent, AllSent, Closing, ToHost, InStage

(* ep0_setup executes the request.                                         *)
LEMMA TransactionSetupPhase ==
    ASSUME TypeOK, Restarted, InPhase, TransactionSetup
    PROVE  Executed'
<1>1. /\ USTAT # << >> /\ Head(USTAT) = "OUT" /\ main = "transaction" /\ EP_OUT_BD.PID = "SETUP"
      /\ Perform(SetupBuffer) /\ ~PKTDIS'
      /\ main' = (IF Known(SetupBuffer) THEN "arm" ELSE "refuse")
      /\ UNCHANGED <<URSTIF, STALLIF, USTAT>> /\ UNCHANGED <<EP_OUT_BD, EP_IN_BD, SetupBuffer>> /\ UNCHANGED host
    BY DEF TransactionSetup, Transaction, SetupExecutes, PKTDISAfter, buffers
<1>2. Waiting
    BY <1>1, QueueHeads DEF InPhase, Unpowered, Resting, Executed, Refused, Sending, Sent, AllSent, ToHost, InStage,
                            Closing, Confirming, Confirmed, Turns
<1>3. Begun' /\ Known(SetupBuffer)' = Known(SetupBuffer)
    BY <1>1, <1>2 DEF Waiting, Begun, InTransfer, Known, Acceptable
<1>4. Settled /\ Sensible(SetupBuffer)
    BY <1>2 DEF Waiting
<1>5. Obeyed(SetupBuffer)'
    <2>1. CASE SetupBuffer.code = "SET_ADDRESS"
        <3>1. host.address = 0 /\ host.configuration = 0
            BY <1>4, <2>1 DEF Sensible, Restarted
        <3>2. UADDR = 0 /\ usb_active_cfg = 0 /\ UEP = {0}
            BY <1>4, <3>1 DEF Settled, DeviceHas, Initialised
        <3>3. AddressPending'
            BY <1>1, <2>1, <3>2 DEF AddressPending, Perform
        <3>4. QED
            BY <1>1, <2>1, <3>1, <3>3 DEF Obeyed
    <2>2. CASE SetupBuffer.code = "SET_CONFIGURATION" /\ Known(SetupBuffer)
        <3>1. host.address # 0
            BY <1>4, <2>2 DEF Sensible
        <3>2. UADDR' = host.address /\ usb_active_cfg' = SetupBuffer.arg /\ UEP' = Initialised(SetupBuffer.arg)
            BY <1>1, <1>4, <2>2 DEF Perform, Settled, DeviceHas
        <3>3. usb_device_state' = IF SetupBuffer.arg = 0 THEN "ADDRESS" ELSE "CONFIGURED"
            BY <1>1, <2>2 DEF Perform
        <3>4. DeviceHas(host.address, SetupBuffer.arg)'
            BY <1>1, <3>1, <3>2, <3>3 DEF DeviceHas, Initialised
        <3>5. QED
            BY <1>1, <2>2, <3>1, <3>4 DEF Obeyed
    <2>3. CASE ~(SetupBuffer.code = "SET_ADDRESS" \/ (SetupBuffer.code = "SET_CONFIGURATION" /\ Known(SetupBuffer)))
        <3>1. UNCHANGED <<usb_device_state, usb_active_cfg, UEP, UADDR>>
            BY <1>1, <2>3 DEF Perform
        <3>2. Settled'
            BY <1>1, <1>4, <3>1 DEF Settled, DeviceHas
        <3>3. SetupBuffer.code = "SET_CONFIGURATION" => host.address # 0
            BY <1>4 DEF Sensible
        <3>4. QED
            BY <1>1, <1>3, <2>3, <3>2, <3>3 DEF Obeyed
    <2>4. QED
        BY <2>1, <2>2, <2>3
<1>6. QED
    BY <1>1, <1>2, <1>3, <1>5 DEF Waiting, Executed

(* The empty packet of the host ends a transfer to it.                     *)
LEMMA TransactionOutPhase ==
    ASSUME TypeOK, InPhase, TransactionOut
    PROVE  Resting'
<1>1. /\ USTAT # << >> /\ Head(USTAT) = "OUT" /\ main = "transaction" /\ EP_OUT_BD.PID # "SETUP"
      /\ USTAT' = Tail(USTAT) /\ main' = "reset" /\ ep0_init
      /\ UNCHANGED <<usb_device_state, usb_active_cfg, UADDR, UEP>> /\ UNCHANGED <<PKTDIS, STALLIF, host>>
    BY DEF TransactionOut, Transaction, Flush, state
<1>2. Closing
    BY <1>1, QueueHeads DEF InPhase, Unpowered, Resting, Waiting, Executed, Refused, Sending, Sent, AllSent,
                            Confirming, Confirmed, Turns
<1>3. USTAT' = << >>
    BY <1>1, <1>2, QueueHeads DEF Closing
<1>4. Settled'
    BY <1>1, <1>2 DEF Closing, InStage, Settled, DeviceHas
<1>5. QED
    BY <1>1, <1>2, <1>3, <1>4, InitLeaves DEF Closing, InStage, Resting, Turns

(* The descriptors are handed over.                                        *)
LEMMA SetupArmsInPhase ==
    ASSUME TypeOK, InPhase, SetupArmsIn
    PROVE  Sending'
<1>1. /\ main = "arm" /\ SetupBuffer.toHost
      /\ ep0_state' = "WAIT_IN"
      /\ EP_OUT_BD' = OutArmed(TRUE, AnyToggle)
      /\ EP_IN_BD' = InArmed(Packet(Answer(SetupBuffer)), 1)
      /\ sourceData' = Rest(Answer(SetupBuffer))
      /\ USTAT' = Tail(USTAT) /\ main' = "reset"
      /\ UNCHANGED <<usb_device_state, usb_active_cfg, UADDR, UEP>> /\ UNCHANGED <<PKTDIS, STALLIF, SetupBuffer, host>>
    BY DEF SetupArmsIn, Flush, state
<1>2. Executed
    BY <1>1 DEF InPhase, Unpowered, Resting, Waiting, Refused, Sending, Sent, AllSent, ToHost, InStage,
                Closing, Confirming, Confirmed, OutStage, Turns
<1>3. SetupBuffer \in Requests
    BY <1>2 DEF Executed, Begun, InTransfer
<1>4. Settled
    <2>1. SetupBuffer.code \notin {"SET_ADDRESS", "SET_CONFIGURATION"}
        BY <1>1, <1>3, RequestFacts
    <2>2. QED
        BY <1>2, <2>1 DEF Executed, Obeyed
<1>5. PICK bytes \in Seq(Bytes) : bytes = Answer(SetupBuffer)
    BY <1>3, AnswerFacts
<1>6. bytes = Asked(SetupBuffer)
    BY <1>3, <1>4, <1>5, AnswerFacts DEF Settled, DeviceHas
<1>7. Packet(bytes) \in Seq(Bytes) /\ Packet(bytes) \o Rest(bytes) = bytes
    BY <1>5, PacketFacts
<1>8. /\ EP_IN_BD'.owner = "SIE" /\ ~EP_IN_BD'.stall /\ EP_IN_BD'.dts = 1
      /\ EP_IN_BD'.packet = Packet(bytes) /\ sourceData' = Rest(bytes)
    BY <1>1, <1>5 DEF InArmed
<1>9. Settled' /\ Asked(host.request)' = Asked(host.request)
    BY <1>1, <1>4 DEF Settled, DeviceHas, Asked
<1>10. /\ host.request = SetupBuffer /\ host.received = << >> /\ host.dts = 1 /\ host.stage = "data"
       /\ USTAT = <<"OUT">> /\ ~PKTDIS /\ ~STALLIF
    BY <1>1, <1>2 DEF Executed, Begun, InTransfer
<1>11. ToHost'
    BY <1>1, <1>3, <1>9, <1>10 DEF ToHost, InStage, InTransfer, Turns, OutArmed
<1>12. (EP_IN_BD.packet = Packet(EP_IN_BD.packet \o sourceData))'
    <2>1. Packet(EP_IN_BD.packet \o sourceData)' = Packet(EP_IN_BD'.packet \o sourceData')
        BY DEF Packet
    <2>2. QED
        BY <1>7, <1>8, <2>1
<1>13. (host.received \o (EP_IN_BD.packet \o sourceData) = Asked(host.request))'
    BY <1>1, <1>5, <1>6, <1>7, <1>8, <1>9, <1>10, ConcatEmpty
<1>14. host'.stage = "data" /\ host'.dts = 1 /\ USTAT' = << >>
    BY <1>1, <1>10, QueueHeads
<1>15. QED
    BY <1>8, <1>11, <1>12, <1>13, <1>14 DEF Sending

LEMMA SetupArmsOutPhase ==
    ASSUME TypeOK, InPhase, SetupArmsOut
    PROVE  Confirming'
<1>1. /\ main = "arm" /\ ~SetupBuffer.toHost
      /\ ep0_state' = "WAIT_OUT"
      /\ EP_IN_BD' = InArmed(<< >>, 1)
      /\ USTAT' = Tail(USTAT) /\ main' = "reset"
      /\ UNCHANGED <<usb_device_state, usb_active_cfg, UADDR, UEP>> /\ UNCHANGED <<PKTDIS, STALLIF, SetupBuffer, host>>
    BY DEF SetupArmsOut, Flush, state
<1>2. Executed
    BY <1>1 DEF InPhase, Unpowered, Resting, Waiting, Refused, Sending, Sent, AllSent, ToHost, InStage,
                Closing, Confirming, Confirmed, OutStage, Turns
<1>3. /\ InTransfer /\ Obeyed(SetupBuffer) /\ Known(SetupBuffer)
      /\ host.stage = "status_in" /\ host.dts = 1
      /\ USTAT = <<"OUT">> /\ ~PKTDIS /\ ~STALLIF
    BY <1>1, <1>2 DEF Executed, Begun
<1>4. Obeyed(SetupBuffer)' /\ Known(SetupBuffer)'
    BY <1>1, <1>3 DEF Obeyed, AddressPending, Settled, DeviceHas, Known, Acceptable
<1>5. QED
    BY <1>1, <1>3, <1>4, QueueHeads DEF Confirming, OutStage, InTransfer, Turns

LEMMA SetupRefusesPhase ==
    ASSUME TypeOK, InPhase, SetupRefuses
    PROVE  Refused'
<1>1. /\ main = "refuse"
      /\ EP_OUT_BD' = OutStalled /\ EP_IN_BD' = InStalled
      /\ USTAT' = Tail(USTAT) /\ main' = "reset"
      /\ UNCHANGED <<usb_device_state, usb_active_cfg, UADDR, UEP>> /\ UNCHANGED <<PKTDIS, STALLIF, SetupBuffer, host>>
    BY DEF SetupRefuses, Flush, state
<1>2. Executed
    BY <1>1 DEF InPhase, Unpowered, Resting, Waiting, Refused, Sending, Sent, AllSent, ToHost, InStage,
                Closing, Confirming, Confirmed, OutStage, Turns
<1>3. Settled
    <2>1. ~Known(SetupBuffer)
        BY <1>1, <1>2 DEF Executed
    <2>2. SetupBuffer.code # "SET_ADDRESS"
        BY <2>1 DEF Known
    <2>3. QED
        BY <1>2, <2>1, <2>2 DEF Executed, Obeyed
<1>4. Settled'
    BY <1>1, <1>3 DEF Settled, DeviceHas
<1>5. EP_OUT_BD'.owner = "SIE" /\ EP_OUT_BD'.stall /\ EP_OUT_BD'.toSetup
    BY <1>1 DEF OutStalled, OutArmed
<1>6. EP_IN_BD'.owner = "SIE" /\ EP_IN_BD'.stall
    BY <1>1 DEF InStalled, InArmed
<1>7. host.stage \in {"data", "status_in"} /\ USTAT = <<"OUT">> /\ ~PKTDIS /\ ~STALLIF
    BY <1>2 DEF Executed, Begun
<1>8. QED
    BY <1>1, <1>4, <1>5, <1>6, <1>7, QueueHeads DEF Refused, Turns

LEMMA MainPhases ==
    ASSUME TypeOK, Restarted, Phases, Main
    PROVE  Phases'
<1>1. CASE Reset
    BY <1>1, ResetPhase DEF Phases, InPhase
<1>2. CASE ~Reset /\ (URSTIF \/ ~Orderly)
    BY <1>2 DEF Phases, Orderly, Main, NoReset, Reset, NoStall, Stall, NoTransaction, TransactionIn, TransactionSetup,
                SetupExecutes, TransactionOut, SetupArmsIn, SetupArmsOut, SetupRefuses, flags
<1>3. CASE ~Reset /\ InPhase
    <2>1. CASE NoReset \/ NoStall \/ NoTransaction
        BY <1>3, <2>1, TurnPhase DEF Phases
    <2>2. CASE Stall
        BY <1>3, <2>2, StallPhase DEF Phases, InPhase
    <2>3. CASE TransactionIn
        BY <1>3, <2>3, TransactionInPhase DEF Phases
    <2>4. CASE TransactionSetup
        BY <1>3, <2>4, TransactionSetupPhase DEF Phases, InPhase
    <2>5. CASE TransactionOut
        BY <1>3, <2>5, TransactionOutPhase DEF Phases, InPhase
    <2>6. CASE SetupArmsIn
        BY <1>3, <2>6, SetupArmsInPhase DEF Phases, InPhase
    <2>7. CASE SetupArmsOut
        BY <1>3, <2>7, SetupArmsOutPhase DEF Phases, InPhase
    <2>8. CASE SetupRefuses
        BY <1>3, <2>8, SetupRefusesPhase DEF Phases, InPhase
    <2>9. QED
        BY <1>3, <2>1, <2>2, <2>3, <2>4, <2>5, <2>6, <2>7, <2>8 DEF Main
<1>4. QED
    BY <1>1, <1>2, <1>3 DEF Phases

-----------------------------------------------------------------------------
(* The host takes a transfer from phase to phase.                          *)

(* A SETUP packet, when the host begins a transfer in order.               *)
LEMMA HostSetupPhase ==
    ASSUME TypeOK, InPhase, Orderly', NEW r \in Requests, HostSetup(r)
    PROVE  Waiting'
<1>1. past'.abandoned = (past.abandoned \/ host.stage # "idle") /\ past'.hasty = (past.hasty \/ USTAT # << >> \/ STALLIF)
    BY DEF HostSetup
<1>2. host.stage = "idle" /\ USTAT = << >> /\ ~STALLIF /\ 0 \in UEP
    BY <1>1 DEF Orderly, HostSetup, Hears
<1>3. Resting
    BY <1>2, QueueHeads DEF InPhase, Unpowered, Waiting, Executed, Refused, Sending, Sent, AllSent,
                            Closing, Confirming, Confirmed
<1>4. Sensible(r) /\ SetupBuffer' = r /\ PKTDIS' /\ USTAT' = Append(USTAT, "OUT")
    BY <1>3 DEF HostSetup, Resting
<1>5. UNCHANGED <<usb_device_state, usb_active_cfg, UADDR, UEP>> /\ UNCHANGED <<STALLIF, EP_IN_BD, main>>
    BY DEF HostSetup, state
<1>6. EP_OUT_BD'.owner = "CPU" /\ EP_OUT_BD'.PID = "SETUP"
    BY TypeParts DEF HostSetup, Types, BufferTypes, OutBuffers
<1>7. /\ host'.address = host.address /\ host'.configuration = host.configuration
      /\ host'.stage = (IF r.toHost THEN "data" ELSE "status_in")
      /\ host'.request = r /\ host'.received = << >> /\ host'.dts = 1
    BY TypeParts DEF HostSetup, Types, HostTypes, Hosts
<1>8. Settled'
    BY <1>3, <1>5, <1>7 DEF Resting, Settled, DeviceHas
<1>9. Begun'
    BY <1>4, <1>7 DEF Begun, InTransfer
<1>10. Sensible(SetupBuffer)'
    BY <1>4, <1>7 DEF Sensible
<1>11. USTAT' = <<"OUT">>
    BY <1>2, <1>4, QueueEnds
<1>12. QED
    BY <1>2, <1>3, <1>4, <1>5, <1>6, <1>8, <1>9, <1>10, <1>11 DEF Waiting, Resting

(* The last byte asked for, or a short packet, leaves nothing to be sent.  *)
LEMMA LastPacket ==
    ASSUME TypeOK, Sending,
           \/ Len(EP_IN_BD.packet) < EP0_BUFFER_SIZE
           \/ Len(host.received \o EP_IN_BD.packet) >= host.request.wLength
    PROVE  sourceData = << >>
<1>1. PICK p \in Seq(Bytes), q \in Seq(Bytes), h \in Seq(Bytes) :
          p = EP_IN_BD.packet /\ q = sourceData /\ h = host.received
    BY TypeParts DEF Types, BufferTypes, LoopTypes, HostTypes, InBuffers, Hosts
<1>2. p = Packet(p \o q) /\ h \o (p \o q) = Asked(host.request)
    BY <1>1 DEF Sending
<1>3. /\ Len(p \o q) = Len(p) + Len(q) /\ Len(h \o p) = Len(h) + Len(p) /\ p \o q \in Seq(Bytes)
      /\ Len(h \o (p \o q)) = Len(h) + Len(p) + Len(q)
      /\ Len(p) \in Nat /\ Len(q) \in Nat /\ Len(h) \in Nat
    OBVIOUS
<1>4. Len(q) = 0
    <2>1. CASE Len(p) < EP0_BUFFER_SIZE
        <3>1. Len(Packet(p \o q)) < EP0_BUFFER_SIZE
            BY <1>2, <2>1
        <3>2. Packet(p \o q) = p \o q
            BY <1>3, <3>1, PacketFacts
        <3>3. Len(p) = Len(p \o q)
            BY <1>2, <3>2
        <3>4. QED
            BY <1>3, <3>3
    <2>2. CASE Len(h \o p) >= host.request.wLength
        <3>1. host.request \in Requests /\ usb_active_cfg = host.configuration
            BY DEF Sending, ToHost, InStage, InTransfer, Settled, DeviceHas
        <3>2. Len(Asked(host.request)) <= host.request.wLength
            BY <3>1, AnswerFacts
        <3>3. PICK w \in Nat : w = host.request.wLength
            BY <3>1, RequestFacts
        <3>4. Len(h \o (p \o q)) <= w
            BY <1>2, <3>2, <3>3
        <3>5. QED
            BY <1>3, <2>2, <3>3, <3>4
    <2>3. QED
        BY <1>1, <2>1, <2>2
<1>5. q = << >>
    BY <1>4
<1>6. QED
    BY <1>1, <1>5

LEMMA HostInPhase ==
    ASSUME TypeOK, Restarted, InPhase, HostIn
    PROVE  InPhase'
<1>1. /\ host.stage \in {"data", "status_in"} /\ ~PKTDIS /\ Len(USTAT) < 4
      /\ EP_IN_BD.owner = "SIE" /\ ~EP_IN_BD.stall
      /\ USTAT' = Append(USTAT, "IN") /\ EP_IN_BD' = [EP_IN_BD EXCEPT !.owner = "CPU"]
      /\ UNCHANGED <<usb_device_state, usb_active_cfg, UADDR, UEP>>
      /\ UNCHANGED <<PKTDIS, STALLIF, EP_OUT_BD, SetupBuffer, main>> /\ UNCHANGED <<ep0_state, sourceData>>
    BY DEF HostIn, Hears, state, ep0
<1>2. Sending \/ Confirming
    BY <1>1 DEF InPhase, Unpowered, Resting, Waiting, Executed, Refused, Sent, AllSent, Closing, Confirmed
<1>3. EP_IN_BD'.owner = "CPU" /\ EP_IN_BD'.dts = EP_IN_BD.dts
    BY <1>1, TypeParts DEF Types, BufferTypes, InBuffers
<1>4. USTAT' = <<"IN">>
    <2>1. USTAT = << >>
        BY <1>2 DEF Sending, Confirming
    <2>2. QED
        BY <1>1, <2>1, QueueEnds
<1>5. CASE Sending
    <2>1. host' = Received(EP_IN_BD.packet)
        BY <1>5 DEF HostIn, Sending
    <2>2. PICK p \in Seq(Bytes), q \in Seq(Bytes), h \in Seq(Bytes) :
              p = EP_IN_BD.packet /\ q = sourceData /\ h = host.received
        BY TypeParts DEF Types, BufferTypes, LoopTypes, HostTypes, InBuffers, Hosts
    <2>3. /\ host'.address = host.address /\ host'.configuration = host.configuration
          /\ host'.request = host.request
          /\ host'.received = h \o p /\ host'.dts = 1 - host.dts
          /\ host'.stage = IF Len(p) < EP0_BUFFER_SIZE \/ Len(h \o p) >= host.request.wLength
                           THEN "status_out" ELSE "data"
        BY <2>1, <2>2, TypeParts DEF Received, Types, HostTypes, Hosts
    <2>4. Settled' /\ Asked(host.request)' = Asked(host.request)
        BY <1>1, <1>5, <2>3 DEF Sending, ToHost, InStage, Settled, DeviceHas, Asked
    <2>5. ToHost'
        BY <1>1, <1>5, <2>3, <2>4 DEF Sending, ToHost, InStage, InTransfer
    <2>6. (h \o p) \o q = Asked(host.request)
        <3>1. h \o (p \o q) = Asked(host.request)
            BY <1>5, <2>2 DEF Sending
        <3>2. (h \o p) \o q = h \o (p \o q)
            BY ConcatAssociative
        <3>3. QED
            BY <3>1, <3>2
    <2>7. CASE host'.stage = "data"
        <3>1. EP_IN_BD'.dts = 1 - host'.dts
            <4>1. EP_IN_BD.dts = host.dts /\ host.dts \in {0, 1}
                BY <1>5, TypeParts DEF Sending, Types, HostTypes, Hosts
            <4>2. QED
                BY <1>3, <2>3, <4>1
        <3>2. (host.received \o sourceData = Asked(host.request))'
            BY <1>1, <2>2, <2>3, <2>4, <2>6
        <3>3. Sent'
            BY <1>3, <1>4, <2>5, <2>7, <3>1, <3>2 DEF Sent
        <3>4. QED
            BY <3>3 DEF InPhase
    <2>8. CASE Len(p) < EP0_BUFFER_SIZE \/ Len(h \o p) >= host.request.wLength
        <3>1. q = << >>
            BY <1>5, <2>2, <2>8, LastPacket
        <3>2. h \o p \in Seq(Bytes)
            OBVIOUS
        <3>3. h \o p = Asked(host.request)
            BY <2>6, <3>1, <3>2, ConcatEmpty
        <3>4. (host.received = Asked(host.request))'
            BY <2>3, <2>4, <3>3
        <3>5. host'.stage = "status_out"
            BY <2>3, <2>8
        <3>6. AllSent'
            BY <1>4, <2>5, <3>4, <3>5 DEF AllSent
        <3>7. QED
            BY <3>6 DEF InPhase
    <2>9. QED
        BY <2>3, <2>7, <2>8
<1>6. CASE Confirming
    <2>1. EP_IN_BD.dts = 1 /\ EP_IN_BD.packet = << >>
        BY <1>6 DEF Confirming, InArmed
    <2>2. host' = Completed
        BY <1>6, <2>1 DEF HostIn, Confirming
    <2>3. /\ host.request = SetupBuffer /\ SetupBuffer \in Requests /\ Obeyed(SetupBuffer) /\ Known(SetupBuffer)
        BY <1>6 DEF Confirming, InTransfer
    <2>4. \/ Settled' /\ host'.stage = "idle"
          \/ /\ AddressPending' /\ host'.address = SetupBuffer' .arg /\ host'.address # 0
             /\ host'.configuration = 0 /\ host'.stage = "idle"
        <3>1. CASE SetupBuffer.code = "SET_ADDRESS"
            <4>1. host' = Idle(SetupBuffer.arg, host.configuration)
                BY <2>2, <2>3, <3>1 DEF Completed
            <4>2. AddressPending /\ host.address = 0 /\ host.configuration = 0
                BY <2>3, <3>1 DEF Obeyed, Restarted
            <4>3. SetupBuffer.arg # 0
                <5>1. SetupBuffer.arg \in 1 .. MaxAddress
                    BY <2>3, <3>1, RequestFacts
                <5>2. QED
                    BY <5>1, SizeFacts
            <4>4. AddressPending'
                BY <1>1, <4>2 DEF AddressPending
            <4>5. QED
                BY <1>1, <4>1, <4>2, <4>3, <4>4 DEF Idle
        <3>2. CASE SetupBuffer.code = "SET_CONFIGURATION"
            <4>1. host' = Idle(host.address, SetupBuffer.arg)
                BY <2>2, <2>3, <3>2 DEF Completed
            <4>2. DeviceHas(host.address, SetupBuffer.arg)
                BY <2>3, <3>2 DEF Obeyed
            <4>3. QED
                BY <1>1, <4>1, <4>2 DEF Settled, DeviceHas, Idle
        <3>3. CASE SetupBuffer.code \notin {"SET_ADDRESS", "SET_CONFIGURATION"}
            <4>1. host' = Idle(host.address, host.configuration)
                BY <2>2, <2>3, <3>3 DEF Completed, Failed
            <4>2. Settled
                BY <2>3, <3>3 DEF Obeyed
            <4>3. QED
                BY <1>1, <4>1, <4>2 DEF Settled, DeviceHas, Idle
        <3>4. QED
            BY <3>1, <3>2, <3>3
    <2>5. OutStage'
        BY <1>1, <1>6 DEF Confirming, OutStage
    <2>6. Confirmed'
        BY <1>3, <1>4, <2>4, <2>5 DEF Confirmed
    <2>7. QED
        BY <2>6 DEF InPhase
<1>7. QED
    BY <1>2, <1>5, <1>6

(* The host gives a transfer up after a STALL.                             *)
LEMMA HostStalledPhase ==
    ASSUME TypeOK, InPhase, HostInStalled \/ HostOutStalled
    PROVE  Resting'
<1>1. Refused
    <2>1. CASE HostInStalled
        BY <2>1 DEF HostInStalled, InPhase, Unpowered, Resting, Waiting, Executed, Sending, Sent,
                    AllSent, Closing, Confirming, Confirmed, InArmed
    <2>2. CASE HostOutStalled
        BY <2>2 DEF HostOutStalled, InPhase, Unpowered, Resting, Waiting, Executed, Refused, Sending, Sent,
                    AllSent, ToHost, Closing, Confirming, Confirmed
    <2>3. QED
        BY <2>1, <2>2
<1>2. /\ host' = Failed /\ STALLIF' = TRUE
      /\ UNCHANGED <<usb_device_state, usb_active_cfg, UADDR, UEP>>
      /\ UNCHANGED <<PKTDIS, USTAT, EP_OUT_BD, EP_IN_BD, main>>
    BY DEF HostInStalled, HostOutStalled, HostStalled, state, buffers
<1>3. Settled' /\ host'.stage = "idle"
    BY <1>1, <1>2 DEF Refused, Settled, DeviceHas, Failed, Idle
<1>4. QED
    BY <1>1, <1>2, <1>3 DEF Refused, Resting

LEMMA HostOutPhase ==
    ASSUME TypeOK, InPhase, HostOut
    PROVE  Closing'
<1>1. AllSent
    BY DEF HostOut, Hears, InPhase, Unpowered, Resting, Waiting, Executed, Refused, Sending, Sent, Closing,
           Confirming, Confirmed, Begun
<1>2. EP_OUT_BD.dts = AnyToggle /\ SetupBuffer.toHost /\ host.request = SetupBuffer /\ SetupBuffer \in Requests
    BY <1>1 DEF AllSent, ToHost, InTransfer
<1>3. host' = Failed
    <2>1. host.request.code \notin {"SET_ADDRESS", "SET_CONFIGURATION"}
        BY <1>2, RequestFacts
    <2>2. QED
        BY <2>1 DEF HostOut, Completed
<1>4. /\ EP_OUT_BD' = [EP_OUT_BD EXCEPT !.owner = "CPU", !.PID = "OUT"]
      /\ USTAT' = Append(USTAT, "OUT")
      /\ UNCHANGED <<usb_device_state, usb_active_cfg, UADDR, UEP>>
      /\ UNCHANGED <<PKTDIS, STALLIF, main, ep0_state>>
    BY <1>2 DEF HostOut, state, ep0
<1>5. USTAT' \in {<<"IN", "OUT">>, <<"OUT">>}
    <2>1. Append(<< >>, "OUT") = <<"OUT">>
        OBVIOUS
    <2>2. Append(<<"IN">>, "OUT") = <<"IN", "OUT">>
        <3> DEFINE s == Append(<<"IN">>, "OUT")
        <3>1. /\ s \in Seq({"IN", "OUT"}) /\ Len(s) = 2 /\ s[1] = "IN" /\ s[2] = "OUT"
            OBVIOUS
        <3>2. <<"IN", "OUT">> \in Seq({"IN", "OUT"}) /\ Len(<<"IN", "OUT">>) = 2
            OBVIOUS
        <3> HIDE DEF s
        <3>3. \A i \in 1 .. Len(s) : s[i] = <<"IN", "OUT">>[i]
            BY <3>1
        <3>4. QED
            BY <3>1, <3>2, <3>3, SeqEqual DEF s
    <2>3. QED
        BY <1>1, <1>4, <2>1, <2>2 DEF AllSent
<1>6. EP_OUT_BD'.owner = "CPU" /\ EP_OUT_BD'.PID = "OUT" /\ EP_OUT_BD'.toSetup = EP_OUT_BD.toSetup
    BY <1>4, TypeParts DEF Types, BufferTypes, OutBuffers
<1>7. Settled' /\ host'.stage = "idle"
    BY <1>1, <1>3, <1>4 DEF AllSent, ToHost, InStage, Settled, DeviceHas, Failed, Idle
<1>8. QED
    BY <1>1, <1>4, <1>5, <1>6, <1>7 DEF AllSent, ToHost, InStage, Closing

LEMMA HostPhases ==
    ASSUME TypeOK, Restarted, Phases, HostContinues \/ HostBegins
    PROVE  Phases'
<1>1. CASE HostResets
    BY <1>1 DEF Phases, HostResets
<1>2. ASSUME NEW r \in Requests, HostSetup(r)
      PROVE  Phases'
    <2>1. ~URSTIF
        BY <1>2 DEF HostSetup, Hears
    <2>2. Orderly' => Orderly
        BY <1>2 DEF HostSetup, Orderly
    <2>3. Orderly' => InPhase'
        BY <1>2, <2>1, <2>2, HostSetupPhase DEF Phases, InPhase
    <2>4. QED
        BY <2>3 DEF Phases
<1>3. CASE HostContinues
    <2>1. ~URSTIF /\ Orderly' = Orderly
        BY <1>3 DEF HostContinues, HostIn, HostInStalled, HostOut, HostOutStalled, HostStalled, Hears, Orderly
    <2>2. CASE HostIn
        BY <2>1, <2>2, HostInPhase DEF Phases
    <2>3. CASE HostInStalled \/ HostOutStalled
        BY <2>1, <2>3, HostStalledPhase DEF Phases, InPhase
    <2>4. CASE HostOut
        BY <2>1, <2>4, HostOutPhase DEF Phases, InPhase
    <2>5. QED
        BY <1>3, <2>2, <2>3, <2>4 DEF HostContinues
<1>4. QED
    BY <1>1, <1>2, <1>3 DEF HostBegins

-----------------------------------------------------------------------------
(* The theorems.                                                           *)

LEMMA InitInv ==
    ASSUME Init
    PROVE  ControlInv
<1>1. /\ None \in Requests \cup {None} /\ << >> \in Seq(Bytes) /\ << >> \in Seq({"IN", "OUT"}) /\ Len(<< >>) = 0
    OBVIOUS
<1>2. Idle(0, 0) \in Hosts
    BY <1>1, SizeFacts DEF Idle, Hosts
<1>3. Types
    <2>1. StateTypes /\ FlagTypes /\ QueueTypes
        <3>1. StateTypes
            BY SizeFacts DEF Init, StateTypes
        <3>2. FlagTypes
            BY DEF Init, FlagTypes
        <3>3. QueueTypes
            BY <1>1 DEF Init, QueueTypes
        <3>4. QED
            BY <3>1, <3>2, <3>3
    <2>2. BufferTypes
        BY <1>1 DEF Init, BufferTypes, OutBuffers, InBuffers
    <2>3. LoopTypes /\ HostTypes
        BY <1>1, <1>2 DEF Init, LoopTypes, HostTypes
    <2>4. QED
        BY <2>1, <2>2, <2>3 DEF Types
<1>4. Heard
    BY DEF Init, Heard, Turns
<1>5. Restarted
    BY DEF Init, Restarted, Idle, None, Request
<1>6. Unpowered
    BY DEF Init, Unpowered, Idle, Turns
<1>7. QED
    BY <1>3, <1>4, <1>5, <1>6, TypeParts DEF ControlInv, Phases, InPhase

LEMMA StutterInv ==
    ASSUME ControlInv, UNCHANGED vars
    PROVE  ControlInv'
<1>1. /\ UNCHANGED <<usb_device_state, usb_active_cfg, UADDR, UEP>>
      /\ UNCHANGED <<PKTDIS, URSTIF, STALLIF, USTAT>>
      /\ UNCHANGED <<EP_OUT_BD, EP_IN_BD, SetupBuffer>>
      /\ UNCHANGED <<ep0_state, sourceData, main, host, past>>
    BY DEF vars, state, flags, buffers, ep0
<1>2. Types' /\ Heard' /\ Restarted'
    BY <1>1, TypeParts DEF ControlInv, Types, StateTypes, FlagTypes, QueueTypes, BufferTypes, LoopTypes, HostTypes,
                           Heard, Restarted
<1>3. Settled' = Settled /\ Asked(host.request)' = Asked(host.request) /\ Orderly' = Orderly
    BY <1>1 DEF Settled, DeviceHas, Asked, Orderly
<1>4. Obeyed(SetupBuffer)' = Obeyed(SetupBuffer) /\ Begun' = Begun /\ ToHost' = ToHost
    BY <1>1, <1>3 DEF Obeyed, AddressPending, DeviceHas, Begun, InTransfer, ToHost, InStage
<1>5. Unpowered \/ Resting \/ Waiting \/ Executed \/ Refused => InPhase'
    BY <1>1, <1>3, <1>4 DEF InPhase, Unpowered, Resting, Waiting, Sensible, Executed, Known, Acceptable, Refused
<1>6. Sending \/ Sent \/ AllSent => InPhase'
    BY <1>1, <1>3, <1>4 DEF InPhase, Sending, Sent, AllSent
<1>7. Closing \/ Confirming \/ Confirmed => InPhase'
    BY <1>1, <1>3, <1>4 DEF InPhase, Closing, InStage, Confirming, OutStage, InTransfer, Known, Acceptable,
                            Confirmed, AddressPending
<1>8. Phases'
    BY <1>1, <1>3, <1>5, <1>6, <1>7 DEF ControlInv, Phases, InPhase
<1>9. QED
    BY <1>2, <1>8, TypePartsPrime DEF ControlInv

LEMMA NextInv ==
    ASSUME ControlInv, [Next]_vars
    PROVE  ControlInv'
<1>1. CASE Main
    BY <1>1, MainTypes, MainHeard, MainPhases DEF ControlInv
<1>2. CASE HostContinues \/ HostBegins
    BY <1>2, HostActionTypes, HostHeard, HostPhases DEF ControlInv
<1>3. CASE UNCHANGED vars
    BY <1>3, StutterInv
<1>4. QED
    BY <1>1, <1>2, <1>3 DEF Next

LEMMA Invariant == Spec => []ControlInv
BY InitInv, NextInv, PTL DEF Spec

(* TypeOK: every variable has its type; the configuration is one that the  *)
(* tables of handlers in usb_descriptors.c have.                           *)
THEOREM TypeCorrect == Spec => []TypeOK
<1>1. ControlInv => TypeOK
    BY DEF ControlInv
<1>2. QED
    BY <1>1, Invariant, PTL

(* RequestIsTheHosts: ep0_setup executes the request that the host has     *)
(* sent, once, and not the one before.                                     *)
THEOREM SetupIsTheHosts == Spec => []RequestIsTheHosts
<1>1. ControlInv => RequestIsTheHosts
    <2>1. ASSUME InPhase, main \in {"arm", "refuse"}
          PROVE  SetupBuffer = host.request
        <3>1. main \notin Turns
            BY <2>1 DEF Turns
        <3>2. Executed
            BY <2>1, <3>1 DEF InPhase, Unpowered, Resting, Waiting, Refused, Sending, Sent, AllSent, ToHost,
                              InStage, Closing, Confirming, Confirmed, OutStage
        <3>3. QED
            BY <3>2 DEF Executed, Begun, InTransfer
    <2>2. QED
        BY <2>1 DEF ControlInv, Phases, RequestIsTheHosts
<1>2. QED
    BY <1>1, Invariant, PTL

(* DataStageExact: at the end of a data stage the host has received what   *)
(* it has asked for, however ep0_in has cut it into packets.               *)
THEOREM DataExact == Spec => []DataStageExact
<1>1. ControlInv => DataStageExact
    <2>1. ASSUME InPhase, host.stage = "status_out"
          PROVE  host.received = Asked(host.request)
        <3>1. AllSent
            BY <2>1 DEF InPhase, Unpowered, Resting, Waiting, Executed, Begun, Refused, Sending, Sent, Closing,
                        Confirming, Confirmed
        <3>2. QED
            BY <3>1 DEF AllSent
    <2>2. ASSUME URSTIF, Restarted
          PROVE  host.stage # "status_out"
        BY <2>2 DEF Restarted, Idle
    <2>3. QED
        BY <2>1, <2>2 DEF ControlInv, Phases, DataStageExact
<1>2. QED
    BY <1>1, Invariant, PTL

(* DeviceInStep: between transfers the device has the address and the      *)
(* configuration that the host has given it, the state that belongs to     *)
(* them, and the endpoints of its configuration.                           *)
THEOREM InStep == Spec => []DeviceInStep
<1>1. ControlInv => DeviceInStep
    <2>1. ASSUME InPhase, AtRest
          PROVE  Settled
        <3>1. Resting
            BY <2>1, QueueHeads DEF AtRest, InPhase, Unpowered, Waiting, Executed, Refused, Sending, Sent, AllSent,
                                    Closing, Confirming, Confirmed
        <3>2. QED
            BY <3>1 DEF Resting
    <2>2. AtRest => ~URSTIF
        BY DEF AtRest
    <2>3. QED
        BY <2>1, <2>2 DEF ControlInv, Phases, DeviceInStep, Settled, DeviceHas, Initialised
<1>2. QED
    BY <1>1, Invariant, PTL

(* NeverDeaf: after a SETUP packet the SIE does not stand still for ever.  *)
THEOREM NotDeaf == Spec => []NeverDeaf
<1>1. ControlInv => NeverDeaf
    BY QueueHeads DEF ControlInv, Heard, NeverDeaf
<1>2. QED
    BY <1>1, Invariant, PTL

(* While an orderly host is in a transfer and no event is left for the     *)
(* firmware, the next packet of the host goes on with the transfer: its    *)
(* descriptor is stalled, or has been armed with the toggle that the next  *)
(* data packet must have, at the address that the host uses.               *)
THEOREM Expected == Spec => []PacketExpected
<1>1. ControlInv => PacketExpected
    <2>1. SUFFICES ASSUME ControlInv, host.stage # "idle", USTAT = << >>, ~STALLIF, Orderly
                   PROVE  /\ 0 \in UEP /\ ~PKTDIS /\ UADDR = host.address
                          /\ host.stage # "status_out" =>
                                EP_IN_BD.owner = "SIE" /\ (EP_IN_BD.stall \/ EP_IN_BD.dts = host.dts)
                          /\ host.stage = "status_out" =>
                                EP_OUT_BD.owner = "SIE"
                                /\ (EP_OUT_BD.stall \/ EP_OUT_BD.dts \in {1, AnyToggle})
        BY DEF PacketExpected
    <2>2. InPhase
        BY <2>1 DEF ControlInv, Restarted, Phases, Idle
    <2>3. \A c : 0 \in Initialised(c)
        BY DEF Initialised
    <2>4. Settled => 0 \in UEP /\ UADDR = host.address
        BY <2>3 DEF Settled, DeviceHas
    <2>5. CASE Refused
        BY <2>1, <2>4, <2>5 DEF Refused
    <2>6. CASE Sending
        BY <2>1, <2>4, <2>6 DEF Sending, ToHost, InStage
    <2>7. CASE AllSent
        BY <2>1, <2>4, <2>7 DEF AllSent, ToHost, InStage
    <2>8. CASE Confirming
        <3>1. 0 \in UEP /\ UADDR = host.address
            BY <2>3, <2>4, <2>8 DEF Confirming, Obeyed, AddressPending, DeviceHas
        <3>2. QED
            BY <2>8, <3>1 DEF Confirming, OutStage, InArmed
    <2>9. <<"OUT">> # << >> /\ <<"IN">> # << >> /\ <<"IN", "OUT">> # << >>
        OBVIOUS
    <2>10. QED
        BY <2>1, <2>2, <2>5, <2>6, <2>7, <2>8, <2>9 DEF InPhase, Unpowered, Resting, Waiting, Executed, Sent,
           Closing, Confirmed
<1>2. QED
    BY <1>1, Invariant, PTL
=============================================================================
