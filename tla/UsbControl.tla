----------------------------- MODULE UsbControl -----------------------------
(***************************************************************************)
(* The control endpoint of the converter: usb.c, ep0.c and the tables of   *)
(* usb_descriptors.c, with the serial interface engine (SIE) that moves    *)
(* the packets and a host that enumerates the device.                      *)
(*                                                                         *)
(* The SIE works on buffer descriptors that firmware hands to it.  It puts *)
(* the direction of every transaction in a queue (USTAT); what was         *)
(* received is read off the descriptor, which may have been written again  *)
(* by then.  After a SETUP packet it stands still until PKTDIS is cleared. *)
(*                                                                         *)
(* The host may give up a transfer and start another, and may start one    *)
(* before the firmware has looked at the end of the last.                  *)
(***************************************************************************)
EXTENDS Integers, Sequences, SequencesExt

CONSTANTS
    EP0_BUFFER_SIZE,
    DescriptorLength,       \* lengths of the descriptors
    wLengths,               \* bytes that the host asks for
    bNumConfigurations,
    MaxAddress              \* bound: addresses that the host gives

ASSUME ControlAssumption ==
    /\ EP0_BUFFER_SIZE \in Nat \ {0}
    /\ DescriptorLength \in Seq(Nat \ {0})
    /\ wLengths \subseteq Nat \ {0}
    /\ bNumConfigurations \in Nat \ {0}
    /\ MaxAddress \in Nat \ {0}

VARIABLES
    usb_device_state,
    usb_active_cfg,
    UADDR,
    UEP,            \* endpoints that are enabled
    PKTDIS,
    URSTIF,         \* a reset has not been dealt with
    STALLIF,        \* nor a STALL that endpoint 0 has sent
    USTAT,          \* nor these transactions
    EP_OUT_BD,      \* descriptors of endpoint 0
    EP_IN_BD,
    SetupBuffer,
    ep0_state,
    sourceData,     \* the bytes that are still to be sent
    main,           \* where dispatch_usb_event is
    host,           \* the host, and the transfer it is in
    past            \* history: what the host has done since the last reset

state   == <<usb_device_state, usb_active_cfg, UADDR, UEP>>
flags   == <<PKTDIS, URSTIF, STALLIF, USTAT>>
buffers == <<EP_OUT_BD, EP_IN_BD, SetupBuffer>>
ep0     == <<ep0_state, sourceData>>
vars    == <<state, flags, buffers, ep0, main, host, past>>

(* A request; arg is the low byte of wValue.                               *)
Request(code, toHost, arg, wLength) ==
    [code |-> code, toHost |-> toHost, arg |-> arg, wLength |-> wLength]

Descriptors == 1 .. Len(DescriptorLength)

(* The host asks for descriptors that exist: ep0.c does not check the      *)
(* index, and takes what lies behind its tables for the address of one.    *)
Requests ==
    { Request("GET_DESCRIPTOR", TRUE, q[1], q[2]) : q \in Descriptors \X wLengths }
    \cup { Request("SET_ADDRESS", FALSE, a, 0) : a \in 1 .. MaxAddress }
    \cup { Request("SET_CONFIGURATION", FALSE, c, 0) : c \in 0 .. bNumConfigurations + 1 }
    \cup { Request("GET_CONFIGURATION", TRUE, 0, 1), Request("GET_STATUS", TRUE, 0, 2),
           Request("CLEAR_FEATURE", FALSE, 0, 0), Request("unknown", TRUE, 0, 1),
           Request("unknown", FALSE, 0, 0) }

None == Request("none", FALSE, 0, 0)

DescriptorBytes(d) == [ i \in 1 .. DescriptorLength[d] |-> <<d, i>> ]
Configuration(c)   == << <<0, c>> >>
First(bytes, n)    == SubSeq(bytes, 1, IF n < Len(bytes) THEN n ELSE Len(bytes))

Idle(address, configuration) ==
    [address |-> address, configuration |-> configuration, stage |-> "idle", request |-> None,
     received |-> << >>, dts |-> 1]

(* The device is powered, and waits for a reset.                           *)
Init ==
    /\ usb_device_state = "POWERED" /\ usb_active_cfg = 0 /\ UADDR = 0 /\ UEP = {}
    /\ PKTDIS = FALSE /\ URSTIF = FALSE /\ STALLIF = FALSE /\ USTAT = << >>
    /\ EP_OUT_BD = [owner |-> "CPU", stall |-> FALSE, dts |-> 0, toSetup |-> FALSE, PID |-> "none"]
    /\ EP_IN_BD = [owner |-> "CPU", stall |-> FALSE, dts |-> 0, packet |-> << >>]
    /\ SetupBuffer = None
    /\ ep0_state = "WAIT_SETUP" /\ sourceData = << >>
    /\ main = "reset"
    /\ host = Idle(0, 0)
    /\ past = [abandoned |-> FALSE, hasty |-> FALSE]

-----------------------------------------------------------------------------
(* ep0.c.                                                                  *)

AnyToggle == 2

(* A descriptor handed to the SIE.                                         *)
OutArmed(toSetup, dts) ==
    [owner |-> "SIE", stall |-> FALSE, dts |-> dts, toSetup |-> toSetup, PID |-> "none"]
OutStalled == [OutArmed(TRUE, 0) EXCEPT !.stall = TRUE]
InArmed(packet, dts) == [owner |-> "SIE", stall |-> FALSE, dts |-> dts, packet |-> packet]
InStalled == [InArmed(<< >>, 0) EXCEPT !.stall = TRUE]

(* Mutant of AfterInit: the buffer stays where ep0_setup has put it.       *)
InitSameBuffer == OutArmed(EP_OUT_BD.toSetup, 0)

AfterInit == OutArmed(TRUE, 0)

ep0_init ==
    /\ ep0_state' = "WAIT_SETUP"
    /\ EP_OUT_BD' = AfterInit
    /\ EP_IN_BD' = [EP_IN_BD EXCEPT !.owner = "CPU", !.stall = FALSE, !.dts = 0]

(* fill_in_buffer: the next packet, and what it leaves to be sent.         *)
Packet(bytes) == First(bytes, EP0_BUFFER_SIZE)
Rest(bytes)   == SubSeq(bytes, Len(Packet(bytes)) + 1, Len(bytes))

(* Mutant of Acceptable: one configuration too many.                       *)
AcceptableMore(c) == c <= bNumConfigurations + 1

Acceptable(c) == c <= bNumConfigurations

Known(r) ==
    \/ r.code \notin {"unknown", "SET_CONFIGURATION"}
    \/ r.code = "SET_CONFIGURATION" /\ Acceptable(r.arg)

(* Mutant of Initialised: the endpoints of the last configuration are left *)
(* enabled.                                                                *)
NotDisabled(c) == UEP \cup (IF c = 2 THEN {0, 1, 2} ELSE {0})

(* All endpoints but 0 are disabled, then ep_init of the new configuration *)
(* is called: only the last one has endpoints 1 and 2.                     *)
Initialised(c) == IF c = 2 THEN {0, 1, 2} ELSE {0}

(* ep0_usb_std_request.  What the device does not implement it accepts.    *)
Perform(r) ==
    /\ usb_device_state' = CASE r.code = "SET_ADDRESS" -> "ADDRESS_PENDING"
                             [] r.code = "SET_CONFIGURATION" /\ Known(r) ->
                                    IF r.arg = 0 THEN "ADDRESS" ELSE "CONFIGURED"
                             [] OTHER -> usb_device_state
    /\ IF r.code = "SET_CONFIGURATION" /\ Known(r)
       THEN usb_active_cfg' = r.arg /\ UEP' = Initialised(r.arg)
       ELSE UNCHANGED <<usb_active_cfg, UEP>>
    /\ UNCHANGED UADDR

(* Mutant of Answer: wLength is not looked at.                             *)
AnswerInFull(r) == IF r.code = "GET_DESCRIPTOR" THEN DescriptorBytes(r.arg) ELSE << >>

(* What is sent to the host: no more than it has asked for.                *)
Answer(r) ==
    First(CASE r.code = "GET_DESCRIPTOR" -> DescriptorBytes(r.arg)
            [] r.code = "GET_CONFIGURATION" -> Configuration(usb_active_cfg)
            [] OTHER -> << >>,
          r.wLength)

(* Mutant of PKTDISAfter: the SIE goes on only if the request is known.    *)
PKTDISKnown(r) == ~Known(r)

PKTDISAfter(r) == FALSE

(* ep0_setup executes the request and lets the SIE go on ...               *)
SetupExecutes ==
    /\ Perform(SetupBuffer)
    /\ PKTDIS' = PKTDISAfter(SetupBuffer)
    /\ main' = IF Known(SetupBuffer) THEN "arm" ELSE "refuse"
    /\ ep0_state' = "WAIT_SETUP" /\ sourceData' = << >>
    /\ UNCHANGED <<URSTIF, STALLIF, USTAT, buffers>>

Flush == USTAT' = Tail(USTAT) /\ main' = "reset"

(* ... before it hands over the descriptors.                               *)
SetupArmsIn ==
    /\ main = "arm" /\ SetupBuffer.toHost
    /\ ep0_state' = "WAIT_IN"
    /\ EP_OUT_BD' = OutArmed(TRUE, AnyToggle)
    /\ EP_IN_BD' = InArmed(Packet(Answer(SetupBuffer)), 1)
    /\ sourceData' = Rest(Answer(SetupBuffer))
    /\ Flush
    /\ UNCHANGED <<state, PKTDIS, URSTIF, STALLIF, SetupBuffer, host, past>>

SetupArmsOut ==
    /\ main = "arm" /\ ~SetupBuffer.toHost
    /\ ep0_state' = "WAIT_OUT"
    /\ EP_OUT_BD' = OutArmed(FALSE, 1)
    /\ EP_IN_BD' = InArmed(<< >>, 1)
    /\ Flush
    /\ UNCHANGED <<state, PKTDIS, URSTIF, STALLIF, SetupBuffer, sourceData, host, past>>

SetupRefuses ==
    /\ main = "refuse"
    /\ EP_OUT_BD' = OutStalled
    /\ EP_IN_BD' = InStalled
    /\ Flush
    /\ UNCHANGED <<state, PKTDIS, URSTIF, STALLIF, SetupBuffer, ep0, host, past>>

(* ep0_in: the new address counts from now on.                             *)
TakeAddress ==
    IF usb_device_state = "ADDRESS_PENDING"
    THEN /\ UADDR' = SetupBuffer.arg
         /\ usb_device_state' = IF SetupBuffer.arg # 0 THEN "ADDRESS" ELSE "DEFAULT"
    ELSE UNCHANGED <<UADDR, usb_device_state>>

(* Mutant of NextIn: the data toggle stays as it is.                       *)
NextInUntoggled == InArmed(Packet(sourceData), EP_IN_BD.dts)

NextIn == InArmed(Packet(sourceData), 1 - EP_IN_BD.dts)

InContinues ==
    /\ ep0_state = "WAIT_IN"
    /\ EP_IN_BD' = NextIn
    /\ sourceData' = Rest(sourceData)
    /\ UNCHANGED <<ep0_state, EP_OUT_BD>>

InEnds ==
    /\ ep0_state # "WAIT_IN"
    /\ ep0_init
    /\ UNCHANGED sourceData

-----------------------------------------------------------------------------
(* dispatch_usb_event: the events are looked at in this order, and of the  *)
(* transactions one at a time.                                             *)

NoReset ==
    /\ main = "reset" /\ ~URSTIF
    /\ main' = "stall"
    /\ UNCHANGED <<state, flags, buffers, ep0, host, past>>

(* reset_usb.                                                              *)
Reset ==
    /\ main = "reset" /\ URSTIF
    /\ usb_device_state' = "DEFAULT" /\ usb_active_cfg' = 0 /\ UADDR' = 0 /\ UEP' = {0}
    /\ PKTDIS' = FALSE /\ URSTIF' = FALSE /\ STALLIF' = FALSE /\ USTAT' = << >>
    /\ ep0_init
    /\ main' = "stall"
    /\ UNCHANGED <<SetupBuffer, sourceData, host, past>>

NoStall ==
    /\ main = "stall" /\ ~STALLIF
    /\ main' = "transaction"
    /\ UNCHANGED <<state, flags, buffers, ep0, host, past>>

Stall ==
    /\ main = "stall" /\ STALLIF
    /\ ep0_init
    /\ STALLIF' = FALSE
    /\ main' = "transaction"
    /\ UNCHANGED <<state, PKTDIS, URSTIF, USTAT, SetupBuffer, sourceData, host, past>>

NoTransaction ==
    /\ main = "transaction" /\ USTAT = << >>
    /\ main' = "reset"
    /\ UNCHANGED <<state, flags, buffers, ep0, host, past>>

Transaction(direction) == main = "transaction" /\ USTAT # << >> /\ Head(USTAT) = direction

TransactionIn ==
    /\ Transaction("IN")
    /\ TakeAddress
    /\ InContinues \/ InEnds
    /\ Flush
    /\ UNCHANGED <<usb_active_cfg, UEP, PKTDIS, URSTIF, STALLIF, SetupBuffer, host, past>>

TransactionSetup ==
    /\ Transaction("OUT")
    /\ EP_OUT_BD.PID = "SETUP"
    /\ SetupExecutes
    /\ UNCHANGED <<host, past>>

(* The tables have ep0_init for an OUT packet.                             *)
TransactionOut ==
    /\ Transaction("OUT")
    /\ EP_OUT_BD.PID # "SETUP"
    /\ ep0_init
    /\ Flush
    /\ UNCHANGED <<state, PKTDIS, URSTIF, STALLIF, SetupBuffer, sourceData, host, past>>

Main ==
    \/ NoReset \/ Reset \/ NoStall \/ Stall \/ NoTransaction \/ TransactionIn \/ TransactionSetup
    \/ TransactionOut \/ SetupArmsIn \/ SetupArmsOut \/ SetupRefuses

-----------------------------------------------------------------------------
(* The host, and what the SIE does with its packets.                       *)

HostResets ==
    /\ URSTIF' = TRUE
    /\ host' = Idle(0, 0)
    /\ past' = [abandoned |-> FALSE, hasty |-> FALSE]
    /\ UNCHANGED <<state, PKTDIS, STALLIF, USTAT, buffers, ep0, main>>

(* After a reset the host leaves the device time to recover.  The SIE      *)
(* accepts nothing while its queue of four transactions is full.           *)
Hears ==
    /\ 0 \in UEP /\ ~URSTIF /\ ~PKTDIS /\ UADDR = host.address
    /\ Len(USTAT) < 4

Sensible(r) ==
    /\ r.code = "SET_ADDRESS" => host.address = 0
    /\ r.code = "SET_CONFIGURATION" => host.address # 0

(* A SETUP packet is accepted whatever the toggle, stalled or not.         *)
HostSetup(r) ==
    /\ Hears /\ EP_OUT_BD.owner = "SIE"
    /\ Sensible(r)
    /\ host' = [host EXCEPT !.stage = IF r.toHost THEN "data" ELSE "status_in", !.request = r,
                            !.received = << >>, !.dts = 1]
    /\ past' = [abandoned |-> past.abandoned \/ host.stage # "idle",
                hasty |-> past.hasty \/ USTAT # << >> \/ STALLIF]
    /\ SetupBuffer' = IF EP_OUT_BD.toSetup THEN r ELSE SetupBuffer
    /\ EP_OUT_BD' = [EP_OUT_BD EXCEPT !.owner = "CPU", !.stall = FALSE, !.PID = "SETUP"]
    /\ PKTDIS' = TRUE
    /\ USTAT' = Append(USTAT, "OUT")
    /\ UNCHANGED <<state, URSTIF, STALLIF, EP_IN_BD, ep0, main>>

Failed    == Idle(host.address, host.configuration)
Completed ==
    CASE host.request.code = "SET_ADDRESS" -> Idle(host.request.arg, host.configuration)
      [] host.request.code = "SET_CONFIGURATION" -> Idle(host.address, host.request.arg)
      [] OTHER -> Failed

HostStalled ==
    /\ host' = Failed
    /\ STALLIF' = TRUE
    /\ UNCHANGED <<state, PKTDIS, URSTIF, USTAT, buffers, ep0, main, past>>

(* The data stage ends with the last byte asked for, or a short packet.    *)
Received(bytes) ==
    LET all == host.received \o bytes
    IN  [host EXCEPT !.received = all, !.dts = 1 - @,
                     !.stage = IF Len(bytes) < EP0_BUFFER_SIZE \/ Len(all) >= host.request.wLength
                               THEN "status_out" ELSE "data"]

(* An IN packet with the wrong toggle is thrown away.                      *)
HostIn ==
    /\ Hears /\ host.stage \in {"data", "status_in"}
    /\ EP_IN_BD.owner = "SIE" /\ ~EP_IN_BD.stall
    /\ host' = IF EP_IN_BD.dts # host.dts THEN host
               ELSE CASE host.stage = "data" -> Received(EP_IN_BD.packet)
                      [] host.stage = "status_in" /\ EP_IN_BD.packet = << >> -> Completed
                      [] OTHER -> Failed
    /\ EP_IN_BD' = [EP_IN_BD EXCEPT !.owner = "CPU"]
    /\ USTAT' = Append(USTAT, "IN")
    /\ UNCHANGED <<state, PKTDIS, URSTIF, STALLIF, EP_OUT_BD, SetupBuffer, ep0, main, past>>

HostInStalled ==
    /\ Hears /\ host.stage \in {"data", "status_in"}
    /\ EP_IN_BD.owner = "SIE" /\ EP_IN_BD.stall
    /\ HostStalled

(* The empty packet that ends a data stage has toggle 1.                   *)
HostOut ==
    /\ Hears /\ host.stage = "status_out"
    /\ EP_OUT_BD.owner = "SIE" /\ ~EP_OUT_BD.stall
    /\ host' = Completed
    /\ IF EP_OUT_BD.dts \in {1, AnyToggle}
       THEN /\ EP_OUT_BD' = [EP_OUT_BD EXCEPT !.owner = "CPU", !.PID = "OUT"]
            /\ USTAT' = Append(USTAT, "OUT")
       ELSE UNCHANGED <<EP_OUT_BD, USTAT>>
    /\ UNCHANGED <<state, PKTDIS, URSTIF, STALLIF, EP_IN_BD, SetupBuffer, ep0, main, past>>

HostOutStalled ==
    /\ Hears /\ host.stage = "status_out"
    /\ EP_OUT_BD.owner = "SIE" /\ EP_OUT_BD.stall
    /\ HostStalled

HostContinues == HostIn \/ HostInStalled \/ HostOut \/ HostOutStalled
HostBegins    == HostResets \/ \E r \in Requests : HostSetup(r)

Next == Main \/ HostContinues \/ HostBegins

(* The main loop never stops, and the host repeats its packets.            *)
Spec == Init /\ [][Next]_vars /\ WF_vars(Main) /\ WF_vars(HostContinues)

-----------------------------------------------------------------------------
Orderly == ~past.abandoned /\ ~past.hasty
Bytes   == (0 .. Len(DescriptorLength)) \X Nat

(* Every variable has its type: in particular the configuration is one     *)
(* that the tables of handlers have.                                       *)
TypeOK ==
    /\ usb_device_state \in {"POWERED", "DEFAULT", "ADDRESS_PENDING", "ADDRESS", "CONFIGURED"}
    /\ usb_active_cfg \in 0 .. bNumConfigurations
    /\ UADDR \in Nat
    /\ UEP \in {{}, {0}, {0, 1, 2}}
    /\ {PKTDIS, URSTIF, STALLIF} \subseteq BOOLEAN
    /\ USTAT \in Seq({"IN", "OUT"}) /\ Len(USTAT) <= 4
    /\ EP_OUT_BD \in [owner : {"CPU", "SIE"}, stall : BOOLEAN, dts : {0, 1, AnyToggle},
                      toSetup : BOOLEAN, PID : {"none", "OUT", "SETUP"}]
    /\ EP_IN_BD \in [owner : {"CPU", "SIE"}, stall : BOOLEAN, dts : {0, 1}, packet : Seq(Bytes)]
    /\ SetupBuffer \in Requests \cup {None}
    /\ ep0_state \in {"WAIT_SETUP", "WAIT_IN", "WAIT_OUT"}
    /\ sourceData \in Seq(Bytes)
    /\ main \in {"reset", "stall", "transaction", "arm", "refuse"}
    /\ host \in [address : 0 .. MaxAddress, configuration : 0 .. bNumConfigurations + 1,
                 stage : {"idle", "data", "status_in", "status_out"},
                 request : Requests \cup {None}, received : Seq(Bytes), dts : {0, 1}]
    /\ past \in [abandoned : BOOLEAN, hasty : BOOLEAN]

(* ep0_setup executes the request that the host has sent, once, and not    *)
(* the one before, which is still in SetupBuffer when the SIE has put the  *)
(* new one elsewhere.                                                      *)
RequestIsTheHosts ==
    main \in {"arm", "refuse"} => SetupBuffer = host.request \/ URSTIF \/ ~Orderly

(* What the host has received at the end of a data stage is what it has    *)
(* asked for: no byte is missing, doubled or from somewhere else.          *)
Asked(r) ==
    CASE r.code = "GET_DESCRIPTOR" -> First(DescriptorBytes(r.arg), r.wLength)
      [] r.code = "GET_CONFIGURATION" -> Configuration(host.configuration)
      [] OTHER -> << >>

DataStageExact ==
    host.stage = "status_out" => host.received = Asked(host.request) \/ ~Orderly

(* At rest the device has the address and the configuration that the host  *)
(* has given it, the state that belongs to them, and the endpoints of its  *)
(* configuration.                                                          *)
AtRest == host.stage = "idle" /\ ~URSTIF /\ USTAT = << >> /\ usb_device_state # "POWERED"

DeviceInStep ==
    AtRest /\ Orderly =>
        /\ UADDR = host.address
        /\ usb_active_cfg = host.configuration
        /\ usb_device_state = IF UADDR = 0 THEN "DEFAULT"
                              ELSE IF usb_active_cfg = 0 THEN "ADDRESS" ELSE "CONFIGURED"
        /\ UEP = IF usb_active_cfg = 2 THEN {0, 1, 2} ELSE {0}

(* The SIE does not stand still for ever: while PKTDIS is set, a SETUP     *)
(* packet waits for ep0_setup, or a reset, unless the host has been hasty. *)
NeverDeaf ==
    PKTDIS => \/ USTAT # << >> /\ EP_OUT_BD.PID = "SETUP"
              \/ URSTIF \/ past.hasty

(* When the firmware has dealt with everything, the next packet of the     *)
(* host finds its descriptor stalled, or handed over with the toggle that  *)
(* the packet has or that the host expects: it is neither put off for ever *)
(* nor thrown away.                                                        *)
PacketExpected ==
    host.stage # "idle" /\ USTAT = << >> /\ ~STALLIF /\ Orderly =>
        /\ 0 \in UEP /\ ~PKTDIS /\ UADDR = host.address
        /\ host.stage # "status_out" =>
              EP_IN_BD.owner = "SIE" /\ (EP_IN_BD.stall \/ EP_IN_BD.dts = host.dts)
        /\ host.stage = "status_out" =>
              EP_OUT_BD.owner = "SIE" /\ (EP_OUT_BD.stall \/ EP_OUT_BD.dts \in {1, AnyToggle})

(* A transfer comes to its end.                                            *)
TransferEnds == host.stage # "idle" ~> host.stage = "idle" \/ ~Orderly
=============================================================================
