--------------------------- MODULE AdcRingProofs ---------------------------
(***************************************************************************)
(* Proofs about AdcRing for every size of the ring, all numbers of         *)
(* channels, and any number of frames and commands.  An empty list of      *)
(* channels, with which the pointer leaves its slot, is the exception the  *)
(* properties name.                                                        *)
(***************************************************************************)
EXTENDS AdcRing, Arithmetic

-----------------------------------------------------------------------------
(* The invariant.                                                          *)

(* The interrupt is enabled only while sampling, and counts channels.      *)
Converting ==
    ADIE => adc_sampling /\ adc_nchan < IF Empty THEN 1 ELSE adc_nchans

(* Until adc_out is increased the interrupt stays out of the slot that is  *)
(* being sent, and is one conversion late at most to leave it.             *)
SlotLeft ==
    ADIE =>
        /\ main \in {"copy", "advance"} => adc_in # adc_out
        /\ main = "wrap" /\ ~late => adc_in # adc_out - 1

(* Who has the buffer of endpoint 2 while the main loop fills it.          *)
BufferOwned ==
    /\ main = "copy" => ep2.owner = "CPU"
    /\ main = "answer" /\ ~clobbered => ep2.owner = "CPU"

RingInv ==
    TypeOK /\ PointerMatchesSlot /\ Converting /\ SlotLeft /\ BufferOwned /\ TogglesInStep

(* The k-th pair of slot i.                                                *)
PairOf(i, k) == adc_buf[adc_one_buf_size * i + k]

-----------------------------------------------------------------------------
(* The ring: slots of adc_one_buf_size pairs, adc_nbufs of them.           *)

(* The slots of every configuration fit into the ring, one at least.       *)
LEMMA RingSize ==
    ASSUME NEW n \in Channels \cup {0}
    PROVE  /\ n \in 0 .. 8
           /\ ADC_BUF_SIZE \div (2 * (n + 1)) \in Nat \ {0}
           /\ (n + 1) * (ADC_BUF_SIZE \div (2 * (n + 1))) <= ADC_BUF_SIZE \div 2
<1> DEFINE y == 2 * (n + 1)
           q == ADC_BUF_SIZE \div y
           h == ADC_BUF_SIZE \div 2
<1>1. n \in 0 .. 8 /\ y \in Nat \ {0} /\ y <= ADC_BUF_SIZE /\ ADC_BUF_SIZE \in Nat
    <2>1. n \in 0 .. 8 /\ ADC_BUF_SIZE \in Nat
        BY RingAssumption
    <2>2. 2 * n + 2 <= ADC_BUF_SIZE
        <3>1. InitChannels \in 0 .. 8 /\ 2 * InitChannels + 2 <= ADC_BUF_SIZE
            BY RingAssumption
        <3>2. QED
            BY <2>1, <3>1, RingAssumption
    <2>3. QED
        BY <2>1, <2>2
<1>2. q \in Nat /\ ADC_BUF_SIZE % y \in 0 .. y - 1 /\ ADC_BUF_SIZE = y * q + (ADC_BUF_SIZE % y)
    BY <1>1, Division
<1>3. h \in Nat /\ ADC_BUF_SIZE <= 2 * h + 1
    BY <1>1
<1>4. y * q = 2 * ((n + 1) * q) /\ (n + 1) * q \in Nat
    BY <1>1, <1>2
<1> HIDE DEF q, h
<1>5. q # 0
    <2>1. SUFFICES ASSUME q = 0 PROVE FALSE
        OBVIOUS
    <2>2. y * q = 0
        BY <1>1, <2>1
    <2>3. QED
        BY <1>1, <1>2, <2>2
<1>6. (n + 1) * q <= h
    BY <1>1, <1>2, <1>3, <1>4
<1>7. QED
    BY <1>1, <1>2, <1>5, <1>6 DEF q, h

(* A pair of a slot lies within n slots, and no other slot has it.         *)
LEMMA SlotFits ==
    ASSUME NEW s \in Nat \ {0}, NEW n \in Nat, NEW i \in 0 .. n - 1, NEW k \in 0 .. s - 1
    PROVE  /\ s * i + k \in 0 .. s * n - 1
           /\ s * (i + 1) = s * i + s
<1>1. s * (i + 1) <= s * n
    BY TimesMonotonic
<1>2. s * (i + 1) = s * i + s /\ s * i \in Nat /\ s * n \in Nat
    OBVIOUS
<1>3. QED
    BY <1>1, <1>2

LEMMA SlotsApart ==
    ASSUME NEW s \in Nat \ {0}, NEW i \in Nat, NEW j \in Nat, NEW k \in 0 .. s - 1, NEW l \in 0 .. s - 1,
           s * i + k = s * j + l
    PROVE  i = j /\ k = l
BY DivisionUnique

(* The first slot has room for a header, and for a sample if there is one. *)
LEMMA FirstSlot ==
    ASSUME NEW n \in Channels
    PROVE  /\ ADC_BUF_SIZE \div (2 * (n + 1)) \in Nat \ {0}
           /\ 0 \in Pairs
           /\ n # 0 => 1 \in Pairs
<1> DEFINE q == ADC_BUF_SIZE \div (2 * (n + 1))
<1>1. n \in 0 .. 8 /\ q \in Nat \ {0} /\ (n + 1) * q <= ADC_BUF_SIZE \div 2
    BY RingSize, RingAssumption
<1> HIDE DEF q
<1>2. (n + 1) * 1 <= (n + 1) * q
    BY <1>1, TimesMonotonic
<1>3. ADC_BUF_SIZE \div 2 \in Int
    BY RingAssumption
<1>4. n + 1 <= ADC_BUF_SIZE \div 2
    <2>1. (n + 1) * 1 = n + 1 /\ (n + 1) * q \in Int
        BY <1>1
    <2>2. QED
        BY <1>1, <1>2, <1>3, <2>1
<1>5. QED
    BY <1>1, <1>3, <1>4 DEF Pairs, q

(* The same for the ring as it is.                                         *)
LEMMA RingFacts ==
    ASSUME TypeOK
    PROVE  /\ adc_nchans \in 0 .. 8
           /\ adc_one_buf_size \in 1 .. 9
           /\ adc_one_buf_size = adc_nchans + 1
           /\ adc_nbufs \in Nat \ {0}
           /\ \A i \in 0 .. adc_nbufs - 1, k \in 0 .. adc_nchans : adc_one_buf_size * i + k \in Pairs
<1> DEFINE s == adc_one_buf_size
           n == adc_nbufs
<1>1. adc_nchans \in Channels \cup {0}
    BY DEF TypeOK
<1>2. adc_nchans \in 0 .. 8 /\ s \in 1 .. 9 /\ s = adc_nchans + 1 /\ n \in Nat \ {0} /\ s * n <= ADC_BUF_SIZE \div 2
    BY <1>1, RingSize DEF adc_nbufs, adc_one_buf_size
<1>3. ASSUME NEW i \in 0 .. n - 1, NEW k \in 0 .. adc_nchans
      PROVE  s * i + k \in Pairs
    <2>1. k \in 0 .. s - 1
        BY <1>2
    <2>5. ADC_BUF_SIZE \div 2 \in Int
        BY RingAssumption
    <2> HIDE DEF s, n
    <2>2. s * i + k \in 0 .. s * n - 1
        BY <1>2, <2>1, SlotFits
    <2>3. s * n \in Int
        BY <1>2
    <2>4. QED
        BY <1>2, <2>2, <2>3, <2>5 DEF Pairs
<1>4. QED
    BY <1>2, <1>3

-----------------------------------------------------------------------------
(* RingInv.                                                                *)

LEMMA RingInit == Init => RingInv
<1> SUFFICES ASSUME Init PROVE RingInv
    OBVIOUS
<1>1. /\ adc_nbufs \in Nat \ {0}
      /\ ADC_BUF_SIZE \div 2 \in Nat
      /\ InitChannels \in Channels
      /\ MaxFrames \in Nat /\ MaxCommands \in Nat /\ RecNumbers \in Nat \ {0}
    BY RingSize, RingAssumption DEF Init, adc_nbufs, adc_one_buf_size
<1>2. adc_one_buf_size * adc_nbufs <= ADC_BUF_SIZE \div 2 /\ adc_one_buf_size = 1
    BY RingSize, RingAssumption DEF Init, adc_nbufs, adc_one_buf_size
<1>3. 0 \in Pairs
    BY <1>1, <1>2 DEF Pairs
<1>4. Plain("none") \in Packet /\ Header(0) \in Cell
    BY DEF Plain, Packet, Header, Cell
<1>5. TypeOK
    <2>1. PointerPairs \in Nat \ {0, 1} /\ Empty
        BY RingAssumption DEF Init, Empty
    <2>2. adc_buf \in [Pairs -> Cell] /\ sent \in Seq(Cell)
        BY <1>4 DEF Init
    <2>3. ep2 \in [owner : {"CPU", "SIE"}, dts : {0, 1}, packet : Packet] /\ got \in Packet
        BY <1>4 DEF Init
    <2>4. /\ adc_in \in 0 .. adc_nbufs - 1
          /\ adc_out \in 0 .. (IF main = "wrap" THEN adc_nbufs ELSE adc_nbufs - 1)
        BY <1>1 DEF Init
    <2>5. adc_buf_ptr \in IF Empty THEN 0 .. PointerPairs - 1 ELSE Pairs
        BY <2>1 DEF Init
    <2>6. /\ adc_cfg \in Channels /\ adc_rec_nr \in 0 .. RecNumbers - 1
          /\ commands \in 0 .. MaxCommands /\ frame \in 0 .. MaxFrames /\ first \in 0 .. frame
        BY <1>1 DEF Init
    <2>7. /\ adc_nchans \in Channels \cup {0} /\ adc_nchan \in 0 .. 7 /\ copied \in 0 .. 9
          /\ main = "dispatch" /\ ep1 = "open" /\ host_dts \in {0, 1}
        BY DEF Init
    <2>8. {adc_overrun, adc_sampling, ADIE, late, reported, clobbered, configured, dropped} \subseteq BOOLEAN
        BY DEF Init
    <2>9. QED
        BY <2>2, <2>3, <2>4, <2>5, <2>6, <2>7, <2>8 DEF TypeOK
<1>6. QED
    BY <1>5 DEF Init, RingInv, PointerMatchesSlot, Converting, SlotLeft, BufferOwned,
               TogglesInStep

(* The pointer counts the pairs of the ring without wrapping.              *)
LEMMA PairAfterIsNext ==
    ASSUME NEW p \in Nat, p + 1 \in Pairs
    PROVE  PairAfter(p) = p + 1
BY RingAssumption DEF PairAfter, Pairs

(* Where the interrupt stores.                                             *)
LEMMA PointerFacts ==
    ASSUME RingInv, ADIE, ~Empty
    PROVE  /\ adc_nchan + 1 \in 1 .. adc_nchans /\ adc_nchans \in 1 .. 8
           /\ adc_buf_ptr = adc_one_buf_size * adc_in + (adc_nchan + 1)
           /\ adc_buf_ptr \in Pairs
           /\ adc_nchan + 1 < adc_nchans =>
                 PairAfter(adc_buf_ptr) = adc_buf_ptr + 1 /\ adc_buf_ptr + 1 \in Pairs
           /\ NextSlot \in 0 .. adc_nbufs - 1
           /\ adc_nchan + 1 >= adc_nchans =>
                 /\ NextStart = adc_one_buf_size * NextSlot
                 /\ NextStart \in Pairs /\ NextStart + 1 \in Pairs
                 /\ PairAfter(NextStart) = NextStart + 1
<1>1. /\ adc_nchans \in 1 .. 8 /\ adc_nchan \in 0 .. 7 /\ adc_nchan < adc_nchans
      /\ adc_one_buf_size = adc_nchans + 1
      /\ adc_nbufs \in Nat \ {0} /\ adc_in \in 0 .. adc_nbufs - 1
      /\ \A i \in 0 .. adc_nbufs - 1, k \in 0 .. adc_nchans : adc_one_buf_size * i + k \in Pairs
    <2>1. adc_nchans \in 0 .. 8 /\ adc_nchans # 0 /\ adc_nchan \in 0 .. 7 /\ adc_nchan < adc_nchans
        BY RingFacts DEF RingInv, TypeOK, Converting, Empty
    <2>2. QED
        BY <2>1, RingFacts DEF RingInv, TypeOK
<1> DEFINE base == adc_one_buf_size * adc_in
<1>2. base \in Int /\ adc_one_buf_size * (adc_in + 1) = base + adc_one_buf_size
      /\ adc_one_buf_size * 0 = 0
    BY <1>1
<1>3. adc_buf_ptr = base + (adc_nchan + 1)
    BY <1>1, <1>2 DEF RingInv, PointerMatchesSlot
<1>4. \A k \in 0 .. adc_nchans : base + k \in Pairs
    BY <1>1
<1>5. NextSlot \in 0 .. adc_nbufs - 1
    BY <1>1 DEF NextSlot
<1>6. \A k \in 0 .. adc_nchans : adc_one_buf_size * NextSlot + k \in Pairs
    BY <1>1, <1>5
<1>7. ASSUME adc_nchan + 1 >= adc_nchans
      PROVE  NextStart = adc_one_buf_size * NextSlot
    <2>1. CASE adc_in + 1 >= adc_nbufs
        BY <1>2, <2>1 DEF NextStart, NextSlot
    <2>2. CASE ~(adc_in + 1 >= adc_nbufs)
        <3>1. NextStart = PairAfter(adc_buf_ptr) /\ NextSlot = adc_in + 1
            BY <2>2 DEF NextStart, NextSlot
        <3>2. adc_one_buf_size * (adc_in + 1) + 0 \in Pairs
            BY <1>1, <1>6, <3>1
        <3> HIDE DEF base
        <3>3. adc_buf_ptr + 1 = base + adc_one_buf_size
            BY <1>1, <1>2, <1>3, <1>7
        <3>4. adc_buf_ptr + 1 \in Pairs /\ adc_buf_ptr \in Nat
            <4>1. PICK b \in Int : b = base + adc_one_buf_size
                BY <1>1, <1>2
            <4>2. b \in Pairs
                BY <1>2, <3>2, <4>1
            <4>3. adc_buf_ptr \in Nat
                <5>1. base + 0 \in Pairs
                    BY <1>1, <1>4
                <5>2. base \in Nat
                    BY <1>2, <5>1 DEF Pairs
                <5>3. QED
                    BY <1>1, <1>3, <5>2
            <4>4. QED
                BY <3>3, <4>1, <4>2, <4>3
        <3>5. PairAfter(adc_buf_ptr) = adc_buf_ptr + 1
            BY <3>4, PairAfterIsNext
        <3>6. QED
            BY <1>2, <3>1, <3>3, <3>5
    <2>3. QED
        BY <2>1, <2>2
<1>8. /\ adc_one_buf_size * NextSlot \in Int
      /\ adc_one_buf_size * NextSlot + 0 \in Pairs /\ adc_one_buf_size * NextSlot + 1 \in Pairs
    BY <1>1, <1>5, <1>6
<1>9. /\ base + (adc_nchan + 1) \in Pairs
      /\ adc_nchan + 1 < adc_nchans => base + (adc_nchan + 2) \in Pairs
    <2>1. /\ adc_nchan + 1 \in 0 .. adc_nchans
          /\ adc_nchan + 1 < adc_nchans => adc_nchan + 2 \in 0 .. adc_nchans
        BY <1>1
    <2> HIDE DEF base
    <2>2. QED
        BY <1>4, <2>1
<1> HIDE DEF base
<1>10. adc_nchan + 1 < adc_nchans => adc_buf_ptr + 1 = base + (adc_nchan + 2)
    BY <1>1, <1>2, <1>3
<1>11. adc_buf_ptr = adc_one_buf_size * adc_in + (adc_nchan + 1)
    BY <1>3 DEF base
<1>12. adc_one_buf_size * NextSlot + 0 = adc_one_buf_size * NextSlot
    BY <1>8
<1>13. adc_nchan + 1 < adc_nchans => adc_buf_ptr + 1 \in Pairs
    BY <1>9, <1>10
<1>14. adc_nchan + 1 >= adc_nchans => NextStart \in Pairs /\ NextStart + 1 \in Pairs
    BY <1>7, <1>8, <1>12
<1>15. adc_buf_ptr \in Pairs
    BY <1>3, <1>9
<1>16. /\ adc_nchan + 1 < adc_nchans => PairAfter(adc_buf_ptr) = adc_buf_ptr + 1
       /\ adc_nchan + 1 >= adc_nchans => PairAfter(NextStart) = NextStart + 1
    <2>1. Pairs \subseteq Nat
        BY DEF Pairs
    <2>2. QED
        BY <1>13, <1>14, <1>15, <2>1, PairAfterIsNext
<1>17. QED
    BY <1>1, <1>5, <1>7, <1>11, <1>13, <1>14, <1>15, <1>16

(* The interrupt, when the list has a channel ...                          *)
LEMMA FullInterruptKeepsRing == RingInv /\ Interrupt /\ ~Empty => RingInv'
<1> SUFFICES ASSUME RingInv, Interrupt, ~Empty PROVE RingInv'
    OBVIOUS
<1>1. ADIE
    BY DEF Interrupt, InterruptNextChannel, InterruptNextFrame, InterruptOverrun, Conversion
<1>2. /\ adc_nchan + 1 \in 1 .. adc_nchans /\ adc_nchans \in 1 .. 8
      /\ adc_buf_ptr = adc_one_buf_size * adc_in + (adc_nchan + 1)
      /\ adc_buf_ptr \in Pairs
      /\ adc_nchan + 1 < adc_nchans =>
            PairAfter(adc_buf_ptr) = adc_buf_ptr + 1 /\ adc_buf_ptr + 1 \in Pairs
      /\ NextSlot \in 0 .. adc_nbufs - 1
      /\ adc_nchan + 1 >= adc_nchans =>
            /\ NextStart = adc_one_buf_size * NextSlot
            /\ NextStart \in Pairs /\ NextStart + 1 \in Pairs
            /\ PairAfter(NextStart) = NextStart + 1
    BY <1>1, PointerFacts
<1>3. /\ adc_nbufs \in Nat \ {0}
      /\ adc_in \in 0 .. adc_nbufs - 1
      /\ adc_one_buf_size * adc_in \in Int
      /\ adc_one_buf_size * NextSlot \in Int
      /\ MaxFrames \in Nat /\ RecNumbers \in Nat \ {0}
    <2>1. /\ adc_nbufs \in Nat \ {0} /\ adc_one_buf_size \in 1 .. 9
          /\ adc_in \in 0 .. adc_nbufs - 1
        BY RingFacts DEF RingInv, TypeOK
    <2>2. QED
        BY <1>2, <2>1, RingAssumption
<1>4. /\ adc_nbufs' = adc_nbufs /\ adc_one_buf_size' = adc_one_buf_size /\ adc_nchans' = adc_nchans
      /\ Empty = FALSE /\ Empty' = FALSE
    BY DEF Interrupt, InterruptNextChannel, InterruptNextFrame, InterruptOverrun, adc_nbufs, adc_one_buf_size,
           Empty
<1>5. Stored \in [Pairs -> Cell]
    <2>1. <<adc_nchan + 1, frame>> \in Cell
        <3>1. adc_nchan \in 0 .. 7 /\ frame \in 0 .. MaxFrames
            BY DEF RingInv, TypeOK
        <3>2. adc_nchan + 1 \in 0 .. 8 /\ frame \in Nat
            BY <1>3, <3>1
        <3>3. QED
            BY <3>2 DEF Cell
    <2>2. QED
        BY <2>1 DEF RingInv, TypeOK, Stored
<1>6. CASE InterruptNextChannel
    <2>1. TypeOK'
        BY <1>2, <1>3, <1>4, <1>5, <1>6
        DEF InterruptNextChannel, Conversion, RingInv, TypeOK, flags, endpoint, loop, control
    <2>2. PointerMatchesSlot' /\ Converting'
        BY <1>1, <1>2, <1>3, <1>4, <1>6 DEF InterruptNextChannel, RingInv, PointerMatchesSlot, Converting, flags
    <2>3. SlotLeft'
        BY <1>1, <1>2, <1>4, <1>6
        DEF InterruptNextChannel, Conversion, RingInv, SlotLeft, flags, loop
    <2>4. BufferOwned' /\ TogglesInStep'
        BY <1>6 DEF InterruptNextChannel, RingInv, BufferOwned, TogglesInStep, endpoint, loop
    <2>5. QED
        BY <2>1, <2>2, <2>3, <2>4 DEF RingInv
<1>7. CASE InterruptNextFrame
    <2>1. TypeOK'
        <3>1. adc_rec_nr' \in 0 .. RecNumbers - 1
            <4>1. adc_rec_nr + 1 \in Int /\ adc_rec_nr' = (adc_rec_nr + 1) % RecNumbers
                BY <1>3, <1>7 DEF InterruptNextFrame, RingInv, TypeOK
            <4>2. QED
                BY <1>3, <4>1, IntegerDivision
        <3>2. adc_buf' \in [Pairs -> Cell]
            <4>1. Header(adc_rec_nr') \in Cell
                BY <3>1, <1>3 DEF Header, Cell
            <4>2. QED
                BY <1>5, <1>7, <4>1 DEF InterruptNextFrame
        <3>3. QED
            BY <1>2, <1>3, <1>4, <1>7, <3>1, <3>2
            DEF InterruptNextFrame, Conversion, RingInv, TypeOK, flags, endpoint, loop, control
    <2>2. PointerMatchesSlot' /\ Converting'
        <3>1. adc_buf_ptr' = adc_one_buf_size * NextSlot + 1 /\ adc_nchan' = 0 /\ adc_in' = NextSlot
            BY <1>2, <1>7 DEF InterruptNextFrame
        <3>2. QED
            BY <1>1, <1>2, <1>3, <1>4, <1>7, <3>1
            DEF InterruptNextFrame, RingInv, PointerMatchesSlot, Converting, flags
    <2>3. SlotLeft'
        BY <1>7 DEF InterruptNextFrame, Conversion, Occupied, SlotLeft, loop
    <2>4. BufferOwned' /\ TogglesInStep'
        BY <1>7 DEF InterruptNextFrame, RingInv, BufferOwned, TogglesInStep, endpoint, loop
    <2>5. QED
        BY <2>1, <2>2, <2>3, <2>4 DEF RingInv
<1>8. CASE InterruptOverrun
    <2>1. TypeOK'
        <3>1. {adc_overrun, adc_sampling, ADIE, late, reported, clobbered, configured, dropped}' \subseteq BOOLEAN
            BY <1>8 DEF InterruptOverrun, Conversion, RingInv, TypeOK, endpoint, loop, control
        <3>2. QED
            BY <1>2, <1>3, <1>4, <1>5, <1>8, <3>1
            DEF InterruptOverrun, Conversion, RingInv, TypeOK, endpoint, loop, control
    <2>2. PointerMatchesSlot' /\ Converting' /\ SlotLeft'
        BY <1>8 DEF InterruptOverrun, PointerMatchesSlot, Converting, SlotLeft
    <2>3. BufferOwned' /\ TogglesInStep'
        BY <1>8 DEF InterruptOverrun, RingInv, BufferOwned, TogglesInStep, endpoint, loop
    <2>4. QED
        BY <2>1, <2>2, <2>3 DEF RingInv
<1>9. QED
    BY <1>6, <1>7, <1>8 DEF Interrupt

(* ... and when it has none, and the pointer is anywhere.                  *)
LEMMA EmptyInterruptKeepsRing == RingInv /\ Interrupt /\ Empty => RingInv'
<1> SUFFICES ASSUME RingInv, Interrupt, Empty PROVE RingInv'
    OBVIOUS
<1>1. /\ adc_nbufs \in Nat \ {0} /\ adc_in \in 0 .. adc_nbufs - 1
      /\ adc_nchan \in 0 .. 7 /\ frame \in 0 .. MaxFrames
      /\ adc_buf_ptr \in 0 .. PointerPairs - 1
      /\ adc_buf \in [Pairs -> Cell]
    BY RingFacts DEF RingInv, TypeOK
<1>2. MaxFrames \in Nat /\ RecNumbers \in Nat \ {0} /\ PointerPairs \in Nat \ {0, 1}
    BY RingAssumption
<1>3. ADIE /\ adc_nchan + 1 >= adc_nchans /\ ~InterruptNextChannel
    BY <1>1 DEF Interrupt, InterruptNextChannel, InterruptNextFrame, InterruptOverrun, Conversion, Empty
<1>4. /\ adc_nbufs' = adc_nbufs /\ adc_one_buf_size' = adc_one_buf_size /\ adc_nchans' = adc_nchans
      /\ Empty = TRUE /\ Empty' = TRUE
    BY DEF Interrupt, InterruptNextChannel, InterruptNextFrame, InterruptOverrun, adc_nbufs, adc_one_buf_size,
           Empty
<1>5. NextSlot \in 0 .. adc_nbufs - 1
    BY <1>1 DEF NextSlot
<1>6. NextStart \in 0 .. PointerPairs - 1 /\ PairAfter(NextStart) \in 0 .. PointerPairs - 1
    BY <1>1, <1>2 DEF NextStart, PairAfter
<1>7. <<adc_nchan + 1, frame>> \in Cell
    <2>1. adc_nchan + 1 \in 0 .. 8 /\ frame \in Nat
        BY <1>1, <1>2
    <2>2. QED
        BY <2>1 DEF Cell
<1>8. Stored \in [Pairs -> Cell]
    BY <1>1, <1>7 DEF Stored
<1>9. CASE InterruptNextFrame
    <2>1. adc_rec_nr' \in 0 .. RecNumbers - 1
        <3>1. adc_rec_nr + 1 \in Int /\ adc_rec_nr' = (adc_rec_nr + 1) % RecNumbers
            BY <1>2, <1>9 DEF InterruptNextFrame, RingInv, TypeOK
        <3>2. QED
            BY <1>2, <3>1, IntegerDivision
    <2>2. adc_buf' \in [Pairs -> Cell]
        <3>1. Header(adc_rec_nr') \in Cell
            BY <1>2, <2>1 DEF Header, Cell
        <3>2. QED
            BY <1>8, <1>9, <3>1 DEF InterruptNextFrame
    <2>3. TypeOK'
        BY <1>1, <1>2, <1>4, <1>5, <1>6, <1>9, <2>1, <2>2
        DEF InterruptNextFrame, Conversion, RingInv, TypeOK, flags, endpoint, loop, control
    <2>4. PointerMatchesSlot' /\ Converting'
        BY <1>4, <1>9 DEF InterruptNextFrame, RingInv, PointerMatchesSlot, Converting, flags
    <2>5. SlotLeft'
        BY <1>9 DEF InterruptNextFrame, Conversion, Occupied, SlotLeft, loop
    <2>6. BufferOwned' /\ TogglesInStep'
        BY <1>9 DEF InterruptNextFrame, RingInv, BufferOwned, TogglesInStep, endpoint, loop
    <2>7. QED
        BY <2>3, <2>4, <2>5, <2>6 DEF RingInv
<1>10. CASE InterruptOverrun
    <2>1. TypeOK'
        <3>1. {adc_overrun, adc_sampling, ADIE, late, reported, clobbered, configured, dropped}' \subseteq BOOLEAN
            BY <1>10 DEF InterruptOverrun, Conversion, RingInv, TypeOK, endpoint, loop, control
        <3>2. QED
            BY <1>1, <1>2, <1>4, <1>5, <1>6, <1>8, <1>10, <3>1
            DEF InterruptOverrun, Conversion, RingInv, TypeOK, endpoint, loop, control
    <2>2. PointerMatchesSlot' /\ Converting' /\ SlotLeft'
        BY <1>10 DEF InterruptOverrun, PointerMatchesSlot, Converting, SlotLeft
    <2>3. BufferOwned' /\ TogglesInStep'
        BY <1>10 DEF InterruptOverrun, RingInv, BufferOwned, TogglesInStep, endpoint, loop
    <2>4. QED
        BY <2>1, <2>2, <2>3 DEF RingInv
<1>11. QED
    BY <1>3, <1>9, <1>10 DEF Interrupt

LEMMA InterruptKeepsRing == RingInv /\ Interrupt => RingInv'
BY FullInterruptKeepsRing, EmptyInterruptKeepsRing

(* A step that leaves the ring and the interrupt alone.                    *)
LEMMA RingUntouched ==
    ASSUME RingInv, UNCHANGED <<ring, flags>>
    PROVE  /\ adc_nbufs' = adc_nbufs /\ adc_one_buf_size' = adc_one_buf_size
           /\ PointerMatchesSlot' /\ Converting' /\ Empty' = Empty
BY DEF RingInv, PointerMatchesSlot, Converting, Empty, adc_nbufs, adc_one_buf_size, ring, flags

(* Packets.                                                                *)
LEMMA PlainPacket ==
    ASSUME NEW kind \in {"none", "mixed", "E:OVERRUN", "answer"}
    PROVE  Plain(kind) \in Packet
BY DEF Plain, Packet

LEMMA ArmedType ==
    ASSUME TypeOK, NEW packet \in Packet
    PROVE  Armed(packet) \in [owner : {"CPU", "SIE"}, dts : {0, 1}, packet : Packet]
BY DEF Armed, TypeOK

(* adc_dispatch.                                                           *)
LEMMA DispatchKeepsRing ==
    ASSUME RingInv,
           \/ DispatchNothing \/ DispatchOverrun \/ DispatchFrame \/ CopyPair \/ ArmFrame
           \/ Advance \/ Wrap \/ NoCommand \/ ArmAnswer
    PROVE  RingInv'
<1>1. /\ adc_nbufs' = adc_nbufs /\ adc_one_buf_size' = adc_one_buf_size
      /\ PointerMatchesSlot' /\ Converting' /\ Empty' = Empty
    <2>1. UNCHANGED <<ring, flags>>
        BY DEF DispatchNothing, DispatchOverrun, DispatchFrame, CopyPair, ArmFrame, Advance, Wrap,
               NoCommand, ArmAnswer
    <2>2. QED
        BY <2>1, RingUntouched
<1>2. /\ adc_nbufs \in Nat \ {0} /\ adc_one_buf_size \in 1 .. 9
      /\ adc_one_buf_size = adc_nchans + 1 /\ adc_nchans \in 0 .. 8
    BY RingFacts DEF RingInv
<1> USE DEF ring, flags, endpoint, control
<1>3. CASE DispatchNothing \/ NoCommand
    <2>1. TypeOK'
        BY <1>1, <1>3 DEF DispatchNothing, NoCommand, RingInv, TypeOK
    <2>2. SlotLeft' /\ BufferOwned' /\ TogglesInStep'
        BY <1>3 DEF DispatchNothing, NoCommand, RingInv, SlotLeft, BufferOwned, TogglesInStep
    <2>3. QED
        BY <1>1, <2>1, <2>2 DEF RingInv
<1>4. CASE DispatchOverrun
    <2>1. Plain("E:OVERRUN") \in Packet
        BY PlainPacket
    <2>2. TypeOK'
        BY <1>1, <1>4, <2>1, ArmedType DEF DispatchOverrun, RingInv, TypeOK
    <2>3. SlotLeft' /\ BufferOwned'
        BY <1>4 DEF DispatchOverrun, RingInv, SlotLeft, BufferOwned
    <2>4. TogglesInStep'
        BY <1>4 DEF DispatchOverrun, Armed, RingInv, TypeOK, TogglesInStep
    <2>5. QED
        BY <1>1, <2>2, <2>3, <2>4 DEF RingInv
<1>5. CASE DispatchFrame
    <2>1. Data(<< >>) \in Packet
        BY DEF Data, Packet
    <2>2. TypeOK'
        BY <1>1, <1>5, <2>1 DEF DispatchFrame, RingInv, TypeOK
    <2>3. SlotLeft' /\ BufferOwned' /\ TogglesInStep'
        BY <1>5 DEF DispatchFrame, RingInv, TypeOK, SlotLeft, BufferOwned, TogglesInStep
    <2>4. QED
        BY <1>1, <2>2, <2>3 DEF RingInv
<1>6. CASE CopyPair
    <2>1. adc_buf[SentSlot + copied] \in Cell
        <3>1. copied \in 0 .. adc_nchans /\ adc_out \in 0 .. adc_nbufs - 1
            <4>1. /\ main = "copy" /\ copied < adc_one_buf_size /\ copied \in 0 .. 9
                  /\ adc_out \in 0 .. (IF main = "wrap" THEN adc_nbufs ELSE adc_nbufs - 1)
                BY <1>6 DEF CopyPair, RingInv, TypeOK
            <4>2. QED
                BY <1>2, <4>1
        <3>2. SentSlot + copied \in Pairs
            BY <3>1, RingFacts DEF SentSlot, RingInv
        <3>3. QED
            BY <3>2 DEF RingInv, TypeOK
    <2>2. ep2' \in [owner : {"CPU", "SIE"}, dts : {0, 1}, packet : Packet]
        <3>1. ep2 \in [owner : {"CPU", "SIE"}, dts : {0, 1}, packet : Packet]
            BY DEF RingInv, TypeOK
        <3>2. Append(ep2.packet.pairs, adc_buf[SentSlot + copied]) \in Seq(Cell)
            BY <2>1, <3>1 DEF Packet
        <3>3. ep2.packet \in Packet
            BY <3>1
        <3>4. [ep2.packet EXCEPT !.pairs = Append(@, adc_buf[SentSlot + copied])] \in Packet
            BY <3>2, <3>3 DEF Packet
        <3>5. ep2' = [ep2 EXCEPT !.packet = [ep2.packet EXCEPT
                                        !.pairs = Append(@, adc_buf[SentSlot + copied])]]
            BY <1>6, <3>1, <3>3 DEF CopyPair, Packet
        <3>6. QED
            BY <3>1, <3>4, <3>5
    <2>3. copied' \in 0 .. 9
        <3>1. copied \in 0 .. 9 /\ adc_one_buf_size \in 1 .. 9
            BY RingFacts DEF RingInv, TypeOK
        <3>2. copied < adc_one_buf_size /\ copied' = copied + 1
            BY <1>6 DEF CopyPair
        <3>3. QED
            BY <3>1, <3>2
    <2>4. TypeOK'
        BY <1>1, <1>6, <2>2, <2>3 DEF CopyPair, RingInv, TypeOK
    <2>5. SlotLeft' /\ BufferOwned' /\ TogglesInStep'
        BY <1>6 DEF CopyPair, RingInv, TypeOK, SlotLeft, BufferOwned, TogglesInStep
    <2>6. QED
        BY <1>1, <2>4, <2>5 DEF RingInv
<1>7. CASE ArmFrame
    <2>1. ep2.packet \in Packet /\ ep2.packet.pairs \in Seq(Cell)
        BY DEF RingInv, TypeOK, Packet
    <2>2. TypeOK'
        BY <1>1, <1>7, <2>1, ArmedType DEF ArmFrame, RingInv, TypeOK
    <2>3. SlotLeft' /\ BufferOwned'
        BY <1>7 DEF ArmFrame, RingInv, SlotLeft, BufferOwned
    <2>4. TogglesInStep'
        BY <1>7 DEF ArmFrame, Armed, RingInv, TypeOK, BufferOwned, TogglesInStep
    <2>5. QED
        BY <1>1, <2>2, <2>3, <2>4 DEF RingInv
<1>8. CASE Advance
    <2>1. TypeOK'
        <3>1. adc_out' \in 0 .. adc_nbufs
            <4>1. main = "advance" /\ adc_out' = adc_out + 1
                BY <1>8 DEF Advance
            <4>2. adc_out \in 0 .. (IF main = "wrap" THEN adc_nbufs ELSE adc_nbufs - 1)
                BY DEF RingInv, TypeOK
            <4>3. QED
                BY <1>2, <4>1, <4>2
        <3>2. QED
            BY <1>1, <1>8, <3>1 DEF Advance, RingInv, TypeOK
    <2>2. SlotLeft' /\ BufferOwned' /\ TogglesInStep'
        BY <1>8 DEF Advance, RingInv, TypeOK, SlotLeft, BufferOwned, TogglesInStep
    <2>3. QED
        BY <1>1, <2>1, <2>2 DEF RingInv
<1>9. CASE Wrap
    <2>1. TypeOK'
        <3>1. adc_out' \in 0 .. adc_nbufs - 1
            <4>1. main = "wrap" /\ adc_out' = IF adc_out >= adc_nbufs THEN 0 ELSE adc_out
                BY <1>9 DEF Wrap
            <4>2. adc_out \in 0 .. (IF main = "wrap" THEN adc_nbufs ELSE adc_nbufs - 1)
                BY DEF RingInv, TypeOK
            <4>3. QED
                BY <1>2, <4>1, <4>2
        <3>2. QED
            BY <1>1, <1>9, <3>1 DEF Wrap, RingInv, TypeOK
    <2>2. SlotLeft' /\ BufferOwned' /\ TogglesInStep'
        BY <1>9 DEF Wrap, RingInv, TypeOK, SlotLeft, BufferOwned, TogglesInStep
    <2>3. QED
        BY <1>1, <2>1, <2>2 DEF RingInv
<1>10. CASE ArmAnswer
    <2>1. Plain("answer") \in Packet
        BY PlainPacket
    <2>2. TypeOK'
        BY <1>1, <1>10, <2>1, ArmedType DEF ArmAnswer, RingInv, TypeOK
    <2>3. SlotLeft' /\ BufferOwned'
        BY <1>10 DEF ArmAnswer, RingInv, SlotLeft, BufferOwned
    <2>4. TogglesInStep'
        BY <1>10 DEF ArmAnswer, Armed, RingInv, TypeOK, BufferOwned, TogglesInStep
    <2>5. QED
        BY <1>1, <2>2, <2>3, <2>4 DEF RingInv
<1>11. QED
    BY <1>3, <1>4, <1>5, <1>6, <1>7, <1>8, <1>9, <1>10

(* The commands.                                                           *)
LEMMA CommandKeepsRing == RingInv /\ Command => RingInv'
<1> SUFFICES ASSUME RingInv, Command PROVE RingInv'
    OBVIOUS
<1>1. /\ main = "events" /\ commands' \in 0 .. MaxCommands
    <2>1. main = "events" /\ commands < MaxCommands /\ commands' = commands + 1
        BY DEF Command, CommandConf, CommandStart, CommandStop, CommandId, CommandError, CommandReceived
    <2>2. commands \in 0 .. MaxCommands /\ MaxCommands \in Nat
        BY RingAssumption DEF RingInv, TypeOK
    <2>3. QED
        BY <2>1, <2>2
<1>2. /\ adc_nbufs \in Nat \ {0} /\ adc_one_buf_size \in 1 .. 9
      /\ \A i \in 0 .. adc_nbufs - 1, k \in 0 .. adc_nchans : adc_one_buf_size * i + k \in Pairs
    BY RingFacts DEF RingInv
<1>3. adc_in \in 0 .. adc_nbufs - 1 /\ adc_out \in 0 .. adc_nbufs - 1
    BY <1>1 DEF RingInv, TypeOK
<1>4. [ep2 EXCEPT !.packet = Plain("mixed")] \in [owner : {"CPU", "SIE"}, dts : {0, 1}, packet : Packet]
    BY PlainPacket DEF RingInv, TypeOK
<1> USE DEF ring, flags, endpoint
<1>5. CASE CommandConf
    <2>1. /\ adc_nbufs' = adc_nbufs /\ adc_one_buf_size' = adc_one_buf_size
          /\ PointerMatchesSlot' /\ Converting' /\ Empty' = Empty
        BY <1>5, RingUntouched DEF CommandConf
    <2>2. TypeOK'
        BY <1>1, <1>3, <1>4, <1>5, <2>1 DEF CommandConf, CommandReceived, Answer, RingInv, TypeOK
    <2>3. SlotLeft' /\ BufferOwned' /\ TogglesInStep'
        BY <1>1, <1>5
        DEF CommandConf, Answer, RingInv, TypeOK, SlotLeft, BufferOwned, TogglesInStep
    <2>4. QED
        BY <2>1, <2>2, <2>3 DEF RingInv
<1>6. CASE CommandStart
    <2>1. /\ adc_nchans' \in Channels /\ adc_nchans' \in 0 .. 8
          /\ adc_nbufs' \in Nat \ {0} /\ adc_one_buf_size' \in 1 .. 9
          /\ 0 \in Pairs
          /\ 1 \in IF Empty' THEN 0 .. PointerPairs - 1 ELSE Pairs
        <3>1. adc_nchans' = adc_cfg /\ adc_cfg \in Channels
            BY <1>6 DEF CommandStart, RingInv, TypeOK
        <3>2. adc_nchans' \in 0 .. 8
            BY <3>1, RingAssumption
        <3>3. adc_nbufs' = ADC_BUF_SIZE \div (2 * (adc_cfg + 1)) /\ adc_one_buf_size' = adc_cfg + 1
            BY <3>1 DEF adc_nbufs, adc_one_buf_size
        <3>4. adc_nbufs' \in Nat \ {0} /\ 0 \in Pairs /\ (adc_cfg # 0 => 1 \in Pairs)
            BY <3>1, <3>3, FirstSlot
        <3>5. 1 \in 0 .. PointerPairs - 1
            BY RingAssumption
        <3>6. Empty' <=> adc_cfg = 0
            BY <3>1 DEF Empty
        <3>7. QED
            BY <3>1, <3>2, <3>3, <3>4, <3>5, <3>6
    <2>2. TypeOK'
        <3>1. adc_buf' \in [Pairs -> Cell]
            BY <1>6, <2>1 DEF CommandStart, RingInv, TypeOK, Header, Cell
        <3>2. adc_rec_nr' \in 0 .. RecNumbers - 1 /\ adc_in' \in 0 .. adc_nbufs' - 1
              /\ adc_out' \in 0 .. adc_nbufs' - 1
            <4>1. adc_rec_nr' = 0 /\ adc_in' = 0 /\ adc_out' = 0
                BY <1>6 DEF CommandStart
            <4>2. RecNumbers \in Nat \ {0} /\ adc_nbufs' \in Nat \ {0}
                BY <2>1, RingAssumption
            <4>3. PICK n \in Nat \ {0} : n = adc_nbufs'
                BY <4>2
            <4>4. 0 \in 0 .. RecNumbers - 1 /\ 0 \in 0 .. n - 1
                BY <4>2
            <4>5. QED
                BY <4>1, <4>3, <4>4
        <3>3. first' \in 0 .. frame'
            BY <1>6, RingAssumption DEF CommandStart, RingInv, TypeOK
        <3>4. main' = "answer" /\ ep2' = [ep2 EXCEPT !.packet = Plain("mixed")]
            BY <1>6 DEF CommandStart, Answer
        <3>5. {adc_overrun, adc_sampling, ADIE, late, reported, clobbered, configured, dropped}' \subseteq BOOLEAN
            BY <1>6 DEF CommandStart, Answer, RingInv, TypeOK
        <3>6. adc_out' \in 0 .. (IF main' = "wrap" THEN adc_nbufs' ELSE adc_nbufs' - 1)
            BY <3>2, <3>4
        <3>7. /\ adc_nchan' = 0 /\ adc_buf_ptr' = 1 /\ sent' = << >>
              /\ UNCHANGED <<frame, copied, adc_cfg, ep1, host_dts, got>>
            BY <1>6 DEF CommandStart, Answer
        <3>8. QED
            BY <1>1, <1>4, <1>6, <2>1, <3>1, <3>2, <3>3, <3>4, <3>5, <3>6, <3>7
            DEF RingInv, TypeOK
    <2>3. PointerMatchesSlot' /\ Converting'
        <3>1. adc_buf_ptr' = 1 /\ adc_in' = 0 /\ adc_nchan' = 0 /\ adc_sampling'
            BY <1>6 DEF CommandStart
        <3>2. PICK k \in 0 .. 8 : k = adc_nchans' /\ (Empty' <=> k = 0)
            BY <2>1 DEF Empty
        <3>3. (k + 1) * 0 + 1 + 0 = 1 /\ 0 < IF k = 0 THEN 1 ELSE k
            OBVIOUS
        <3>4. adc_one_buf_size' * adc_in' + 1 + adc_nchan' = (k + 1) * 0 + 1 + 0
            BY <3>1, <3>2 DEF adc_one_buf_size
        <3>5. QED
            BY <3>1, <3>2, <3>3, <3>4 DEF PointerMatchesSlot, Converting
    <2>4. SlotLeft'
        BY <1>6 DEF CommandStart, Answer, SlotLeft
    <2>5. BufferOwned' /\ TogglesInStep'
        BY <1>6 DEF CommandStart, Answer, RingInv, TypeOK, BufferOwned, TogglesInStep
    <2>6. QED
        BY <2>2, <2>3, <2>4, <2>5 DEF RingInv
<1>7. CASE CommandStop
    <2>1. adc_nbufs' = adc_nbufs /\ Empty' = Empty
        BY <1>7 DEF CommandStop, adc_nbufs, adc_one_buf_size, Empty
    <2>2. TypeOK'
        BY <1>1, <1>3, <1>4, <1>7, <2>1 DEF CommandStop, Answer, RingInv, TypeOK
    <2>3. PointerMatchesSlot' /\ Converting' /\ SlotLeft'
        BY <1>7 DEF CommandStop, PointerMatchesSlot, Converting, SlotLeft
    <2>4. BufferOwned' /\ TogglesInStep'
        BY <1>1, <1>7 DEF CommandStop, Answer, RingInv, TypeOK, BufferOwned, TogglesInStep
    <2>5. QED
        BY <2>2, <2>3, <2>4 DEF RingInv
<1>8. CASE CommandId
    <2>1. /\ adc_nbufs' = adc_nbufs /\ adc_one_buf_size' = adc_one_buf_size
          /\ PointerMatchesSlot' /\ Converting' /\ Empty' = Empty
        BY <1>8, RingUntouched DEF CommandId
    <2>2. TypeOK'
        BY <1>1, <1>3, <1>4, <1>8, <2>1 DEF CommandId, Answer, RingInv, TypeOK
    <2>3. SlotLeft' /\ BufferOwned' /\ TogglesInStep'
        BY <1>1, <1>8
        DEF CommandId, Answer, RingInv, TypeOK, SlotLeft, BufferOwned, TogglesInStep
    <2>4. QED
        BY <2>1, <2>2, <2>3 DEF RingInv
<1>9. CASE CommandError
    <2>1. /\ adc_nbufs' = adc_nbufs /\ adc_one_buf_size' = adc_one_buf_size
          /\ PointerMatchesSlot' /\ Converting' /\ Empty' = Empty
        BY <1>9, RingUntouched DEF CommandError
    <2>2. TypeOK'
        BY <1>1, <1>3, <1>9, <2>1 DEF CommandError, RingInv, TypeOK
    <2>3. SlotLeft' /\ BufferOwned' /\ TogglesInStep'
        BY <1>1, <1>9 DEF CommandError, RingInv, TypeOK, SlotLeft, BufferOwned, TogglesInStep
    <2>4. QED
        BY <2>1, <2>2, <2>3 DEF RingInv
<1>10. QED
    BY <1>5, <1>6, <1>7, <1>8, <1>9 DEF Command

(* Bus events, and the host.                                               *)
LEMMA BusKeepsRing == RingInv /\ (Deconfigure \/ Configure \/ HostIn) => RingInv'
<1> SUFFICES ASSUME RingInv, Deconfigure \/ Configure \/ HostIn PROVE RingInv'
    OBVIOUS
<1> USE DEF ring, flags, endpoint, loop, control
<1>1. /\ adc_nbufs' = adc_nbufs /\ adc_one_buf_size' = adc_one_buf_size
      /\ PointerMatchesSlot' /\ Converting' /\ Empty' = Empty
    BY RingUntouched DEF Deconfigure, Configure, HostIn
<1>2. CASE Deconfigure
    <2>1. TypeOK'
        BY <1>1, <1>2 DEF Deconfigure, RingInv, TypeOK
    <2>2. SlotLeft' /\ BufferOwned' /\ TogglesInStep'
        BY <1>2 DEF Deconfigure, RingInv, SlotLeft, BufferOwned, TogglesInStep
    <2>3. QED
        BY <1>1, <2>1, <2>2 DEF RingInv
<1>3. CASE Configure
    <2>1. [ep2 EXCEPT !.owner = "CPU", !.dts = 1] \in [owner : {"CPU", "SIE"}, dts : {0, 1}, packet : Packet]
        BY DEF RingInv, TypeOK
    <2>2. TypeOK'
        BY <1>1, <1>3, <2>1 DEF Configure, RingInv, TypeOK
    <2>3. SlotLeft' /\ BufferOwned' /\ TogglesInStep'
        BY <1>3 DEF Configure, RingInv, TypeOK, SlotLeft, BufferOwned, TogglesInStep
    <2>4. QED
        BY <1>1, <2>2, <2>3 DEF RingInv
<1>4. CASE HostIn
    <2>1. [ep2 EXCEPT !.owner = "CPU"] \in [owner : {"CPU", "SIE"}, dts : {0, 1}, packet : Packet]
          /\ ep2.packet \in Packet
        BY DEF RingInv, TypeOK
    <2>2. got' \in Packet /\ host_dts' \in {0, 1}
        BY <1>4, <2>1 DEF HostIn, RingInv, TypeOK
    <2>3. TypeOK'
        BY <1>1, <1>4, <2>1, <2>2 DEF HostIn, RingInv, TypeOK
    <2>4. SlotLeft' /\ BufferOwned'
        BY <1>4 DEF HostIn, RingInv, TypeOK, SlotLeft, BufferOwned
    <2>5. TogglesInStep'
        BY <1>4 DEF HostIn, RingInv, TypeOK, TogglesInStep
    <2>6. QED
        BY <1>1, <2>3, <2>4, <2>5 DEF RingInv
<1>5. QED
    BY <1>2, <1>3, <1>4

LEMMA RingStutter == RingInv /\ UNCHANGED vars => RingInv'
BY DEF RingInv, TypeOK, PointerMatchesSlot, Converting, Empty, SlotLeft, BufferOwned, TogglesInStep,
       vars, ring, flags, endpoint, loop, control, adc_nbufs, adc_one_buf_size

LEMMA RingStep == RingInv /\ [Next]_vars => RingInv'
BY RingStutter, InterruptKeepsRing, DispatchKeepsRing, CommandKeepsRing, BusKeepsRing DEF Next, MainLoop

LEMMA RingCorrect == Spec => []RingInv
<1>1. QED
    BY RingInit, RingStep, PTL DEF Spec

(* The type of the state: no index leaves the ring, but the pointer when   *)
(* the list of channels is empty.                                          *)
THEOREM TypeCorrect == Spec => []TypeOK
<1>1. RingInv => TypeOK
    BY DEF RingInv
<1>2. QED
    BY <1>1, RingCorrect, PTL

(* adc_buf_ptr, which is advanced store by store, and adc_in, which is     *)
(* multiplied, name the same place, for all numbers of channels but none.  *)
THEOREM PointerCorrect == Spec => []PointerMatchesSlot
<1>1. RingInv => PointerMatchesSlot
    BY DEF RingInv
<1>2. QED
    BY <1>1, RingCorrect, PTL

(* The data toggles of host and device stay in step until an answer        *)
(* overwrites a packet that is armed.                                      *)
THEOREM TogglesCorrect == Spec => []TogglesInStep
<1>1. RingInv => TogglesInStep
    BY DEF RingInv
<1>2. QED
    BY <1>1, RingCorrect, PTL

-----------------------------------------------------------------------------
(* What the interrupt writes.                                              *)

(* Of the pairs of the ring the interrupt changes the sample that is due,  *)
(* and, when another frame begins, the header of its slot.                 *)
LEMMA InterruptWrites ==
    ASSUME RingInv, Interrupt, ~Empty, NEW i \in 0 .. adc_nbufs - 1, NEW k \in 0 .. adc_nchans
    PROVE  /\ (i = adc_in /\ k = adc_nchan + 1) => PairOf(i, k)' = <<adc_nchan + 1, frame>>
           /\ (InterruptNextFrame /\ i = NextSlot /\ k = 0) => PairOf(i, k)' = Header(adc_rec_nr')
           /\ \/ i = adc_in /\ k = adc_nchan + 1
              \/ InterruptNextFrame /\ i = NextSlot /\ k = 0
              \/ PairOf(i, k)' = PairOf(i, k)
<1> DEFINE s == adc_one_buf_size
           at == s * i + k
<1>1. ADIE
    BY DEF Interrupt, InterruptNextChannel, InterruptNextFrame, InterruptOverrun, Conversion
<1>2. /\ adc_nchan + 1 \in 1 .. adc_nchans /\ adc_nchans \in 1 .. 8
      /\ adc_buf_ptr = s * adc_in + (adc_nchan + 1)
      /\ adc_buf_ptr \in Pairs
      /\ NextSlot \in 0 .. adc_nbufs - 1
      /\ adc_nchan + 1 >= adc_nchans => NextStart = s * NextSlot /\ NextStart \in Pairs
    BY <1>1, PointerFacts
<1>3. /\ s \in Nat \ {0} /\ s = adc_nchans + 1 /\ adc_nbufs \in Nat
      /\ adc_in \in Nat /\ i \in Nat /\ NextSlot \in Nat /\ at \in Pairs
    <2>1. /\ s \in 1 .. 9 /\ s = adc_nchans + 1 /\ adc_nbufs \in Nat \ {0} /\ at \in Pairs
          /\ adc_in \in 0 .. adc_nbufs - 1
        BY RingFacts DEF RingInv, TypeOK
    <2> HIDE DEF at
    <2>2. QED
        BY <1>2, <2>1
<1>4. /\ k \in 0 .. s - 1 /\ adc_nchan + 1 \in 0 .. s - 1 /\ 0 \in 0 .. s - 1
    BY <1>2, <1>3
<1>5. adc_one_buf_size' = s /\ PairOf(i, k) = adc_buf[at]
    BY DEF Interrupt, InterruptNextChannel, InterruptNextFrame, InterruptOverrun, adc_one_buf_size, PairOf
<1>6. PairOf(i, k)' = adc_buf'[at]
    BY <1>5 DEF PairOf
<1>7. at = adc_buf_ptr <=> i = adc_in /\ k = adc_nchan + 1
    BY <1>2, <1>3, <1>4, SlotsApart
<1>8. adc_nchan + 1 >= adc_nchans => (at = NextStart <=> i = NextSlot /\ k = 0)
    <2>1. s * NextSlot = s * NextSlot + 0
        BY <1>3
    <2>2. at = s * NextSlot + 0 <=> i = NextSlot /\ k = 0
        BY <1>3, <1>4, SlotsApart
    <2>3. QED
        BY <1>2, <2>1, <2>2
<1>9. adc_buf \in [Pairs -> Cell]
    BY DEF RingInv, TypeOK
<1> HIDE DEF at
<1>10. CASE InterruptNextChannel \/ InterruptOverrun
    <2>1. adc_buf' = [adc_buf EXCEPT ![adc_buf_ptr] = <<adc_nchan + 1, frame>>]
        BY <1>10 DEF InterruptNextChannel, InterruptOverrun, Stored
    <2>2. ~InterruptNextFrame
        BY <1>2, <1>10 DEF InterruptNextChannel, InterruptOverrun, InterruptNextFrame
    <2>3. QED
        BY <1>2, <1>3, <1>5, <1>6, <1>7, <1>9, <2>1, <2>2
<1>11. CASE InterruptNextFrame
    <2>1. adc_nchan + 1 >= adc_nchans
          /\ adc_buf' = [[adc_buf EXCEPT ![adc_buf_ptr] = <<adc_nchan + 1, frame>>]
                            EXCEPT ![NextStart] = Header(adc_rec_nr')]
        BY <1>11 DEF InterruptNextFrame, Stored
    <2>2. adc_nchan + 1 # 0
        BY <1>2
    <2>3. QED
        BY <1>2, <1>3, <1>5, <1>6, <1>7, <1>8, <1>9, <1>11, <2>1, <2>2
<1>12. QED
    BY <1>10, <1>11 DEF Interrupt

(* Nothing of it lies in the slot that is being copied.                    *)
LEMMA InterruptSparesCopy ==
    ASSUME RingInv, Interrupt, ~Empty, main = "copy", NEW k \in 0 .. adc_nchans
    PROVE  PairOf(adc_out, k)' = PairOf(adc_out, k) /\ adc_one_buf_size' = adc_one_buf_size
<1>1. ADIE /\ adc_one_buf_size' = adc_one_buf_size /\ adc_out' = adc_out
    BY DEF Interrupt, InterruptNextChannel, InterruptNextFrame, InterruptOverrun, Conversion, adc_one_buf_size, loop
<1>2. adc_out # adc_in /\ adc_out \in 0 .. adc_nbufs - 1
    BY <1>1 DEF RingInv, SlotLeft, TypeOK
<1>3. InterruptNextFrame => adc_out # NextSlot
    BY DEF InterruptNextFrame, Occupied
<1>4. \A i \in 0 .. adc_nbufs - 1 : i = adc_out => PairOf(i, k)' = PairOf(i, k)
    BY <1>2, <1>3, InterruptWrites
<1>5. QED
    BY <1>1, <1>2, <1>4 DEF PairOf

(* While the main loop copies a slot, the interrupt, which may come        *)
(* between any two of its steps, writes nothing into it, if the list has a *)
(* channel.                                                                *)
THEOREM CopiedIsStable == Spec => CopiedSlotIsStable
<1> DEFINE Stable == main = "copy" /\ ~Empty => \A p \in Slot(adc_out) : adc_buf'[p] = adc_buf[p]
<1>1. RingInv /\ [Next]_vars => [Stable]_vars
    <2> SUFFICES ASSUME RingInv, Next, main = "copy", ~Empty, NEW p \in Slot(adc_out)
                 PROVE  adc_buf'[p] = adc_buf[p]
        OBVIOUS
    <2>1. PICK k \in 0 .. adc_nchans : p = adc_one_buf_size * adc_out + k
        BY DEF Slot
    <2>2. CASE Interrupt
        <3>1. adc_out' = adc_out
            BY <2>2 DEF Interrupt, InterruptNextChannel, InterruptNextFrame, InterruptOverrun, loop
        <3>2. QED
            BY <2>1, <2>2, <3>1, InterruptSparesCopy DEF PairOf
    <2>3. CASE ~Interrupt
        BY <2>3 DEF Next, MainLoop, DispatchNothing, DispatchOverrun, DispatchFrame, CopyPair, ArmFrame,
                    Advance, Wrap, NoCommand, ArmAnswer, Command, CommandConf, CommandStart, CommandStop,
                    CommandId, CommandError, CommandReceived, Deconfigure, Configure, HostIn, ring
    <2>4. QED
        BY <2>2, <2>3
<1>2. QED
    BY <1>1, RingCorrect, PTL DEF Spec, CopiedSlotIsStable
=============================================================================
