------------------------- MODULE AdcRingRefinement -------------------------
(***************************************************************************)
(* AdcRing implements FrameQueue, for every size of the ring, all numbers  *)
(* of channels, all moduli of the record number and any number of frames:  *)
(* every step of the firmware is a step of the queue or none.  With an     *)
(* empty list of channels the queue has no room, and takes nothing.        *)
(***************************************************************************)
EXTENDS AdcRingProofs, SequenceTheorems

-----------------------------------------------------------------------------
(* The invariant: what the slots hold.                                     *)

(* How many slots slot i is behind the one that is being filled.           *)
Behind(i) == IF i < adc_in THEN adc_in - i ELSE adc_in - i + adc_nbufs

(* Slot i holds the header and the first n samples of frame f.             *)
Holds(i, f, n) ==
    /\ PairOf(i, 0) = Header((f - first) % RecNumbers)
    /\ \A k \in 1 .. n : PairOf(i, k) = <<k, f>>

(* The frame that is being sampled.                                        *)
Filling ==
    ADIE /\ ~Empty =>
        /\ adc_rec_nr = (frame - first) % RecNumbers
        /\ Holds(adc_in, frame, adc_nchan)

(* The frames that wait to be sent.                                        *)
Kept ==
    ~Empty =>
        /\ Waiting <= frame - first
        /\ \A i \in 0 .. adc_nbufs - 1 :
              Behind(i) <= Waiting => Holds(i, frame - Behind(i), adc_nchans)

(* The part of a frame that has been copied.                               *)
Copied ==
    main = "copy" /\ ~Empty =>
        /\ ep2.packet.kind = "data"
        /\ copied <= adc_one_buf_size
        /\ Len(ep2.packet.pairs) = copied
        /\ \A k \in 1 .. copied : ep2.packet.pairs[k] = PairOf(adc_out, k - 1)

FramesInv == RingInv /\ Filling /\ Kept /\ Copied

-----------------------------------------------------------------------------
(* The number of waiting frames.                                           *)

(* The same without remainders.                                            *)
Wrapped(i) == IF i = adc_nbufs THEN 0 ELSE i

Oldest ==
    CASE main = "advance" -> Wrapped(adc_out + 1)
      [] main = "wrap" -> Wrapped(adc_out)
      [] OTHER -> adc_out

InUse ==
    IF main = "copy" /\ adc_in = adc_out THEN adc_nbufs
    ELSE IF adc_in >= Oldest THEN adc_in - Oldest ELSE adc_in - Oldest + adc_nbufs

Counted ==
    /\ Waiting = InUse /\ Waiting \in 0 .. adc_nbufs
    /\ Oldest \in 0 .. adc_nbufs - 1

LEMMA WaitingValue == TypeOK => Counted
<1> SUFFICES ASSUME TypeOK PROVE Counted
    OBVIOUS
<1>1. /\ adc_nbufs \in Nat \ {0} /\ adc_in \in 0 .. adc_nbufs - 1
      /\ adc_out \in 0 .. (IF main = "wrap" THEN adc_nbufs ELSE adc_nbufs - 1)
    BY RingFacts DEF TypeOK
<1> DEFINE x == IF main = "advance" THEN adc_out + 1 ELSE adc_out
           y == adc_in - NextOut
<1>2. x \in 0 .. adc_nbufs /\ Oldest = Wrapped(x) /\ Wrapped(x) \in 0 .. adc_nbufs - 1
    BY <1>1 DEF Oldest, Wrapped
<1>3. NextOut = Oldest
    <2>1. NextOut = x % adc_nbufs
        BY DEF NextOut
    <2> HIDE DEF x
    <2>2. x \in -adc_nbufs .. 2 * adc_nbufs - 1
        BY <1>1, <1>2
    <2>3. x % adc_nbufs = IF x < 0 THEN x + adc_nbufs ELSE IF x < adc_nbufs THEN x ELSE x - adc_nbufs
        BY <1>1, <2>2, RemainderNear
    <2>4. QED
        BY <1>1, <1>2, <2>1, <2>3 DEF Wrapped
<1> HIDE DEF x
<1>4. y % adc_nbufs = IF adc_in >= Oldest THEN adc_in - Oldest ELSE adc_in - Oldest + adc_nbufs
    <2>1. y \in -adc_nbufs .. 2 * adc_nbufs - 1 /\ y = adc_in - Oldest
        BY <1>1, <1>2, <1>3
    <2>2. y % adc_nbufs = IF y < 0 THEN y + adc_nbufs ELSE IF y < adc_nbufs THEN y ELSE y - adc_nbufs
        BY <1>1, <2>1, RemainderNear
    <2>3. QED
        BY <1>1, <1>2, <2>1, <2>2
<1>5. Waiting = IF main = "copy" /\ y % adc_nbufs = 0 THEN adc_nbufs ELSE y % adc_nbufs
    BY DEF Waiting
<1> HIDE DEF y
<1>6. main = "copy" => Oldest = adc_out
    BY DEF Oldest
<1>7. QED
    BY <1>1, <1>2, <1>4, <1>5, <1>6 DEF Counted, InUse

(* While a frame is copied it is the oldest one that waits.                *)
LEMMA CopiedIsOldest ==
    ASSUME TypeOK, main = "copy"
    PROVE  adc_out \in 0 .. adc_nbufs - 1 /\ Behind(adc_out) = Waiting /\ Waiting >= 1
<1>1. adc_nbufs \in Nat \ {0} /\ adc_in \in 0 .. adc_nbufs - 1 /\ adc_out \in 0 .. adc_nbufs - 1
    BY RingFacts DEF TypeOK
<1>2. QED
    BY <1>1, WaitingValue DEF Counted, InUse, Oldest, Behind

(* A complete frame is one more, and there is room for it and the next.    *)
LEMMA FrameTaken ==
    ASSUME RingInv, InterruptNextFrame
    PROVE  /\ Waiting' = Waiting + 1 /\ Waiting + 1 < adc_nbufs
           /\ NextSlot # adc_in
<1>1. /\ adc_nbufs \in Nat \ {0} /\ adc_in \in 0 .. adc_nbufs - 1
      /\ adc_out \in 0 .. (IF main = "wrap" THEN adc_nbufs ELSE adc_nbufs - 1)
    BY RingFacts DEF RingInv, TypeOK
<1>2. Waiting = InUse
    BY WaitingValue DEF RingInv, Counted
<1>3. RingInv'
    BY InterruptKeepsRing DEF Interrupt
<1>4. Counted'
    <2>1. TypeOK'
        BY <1>3 DEF RingInv
    <2>2. QED
        BY <2>1, WaitingValue, PTL
<1>5. /\ adc_nbufs' = adc_nbufs /\ UNCHANGED <<main, adc_out>>
      /\ adc_in' = IF adc_in + 1 >= adc_nbufs THEN 0 ELSE adc_in + 1
      /\ adc_in' # adc_out
    BY DEF InterruptNextFrame, Occupied, NextSlot, adc_nbufs, adc_one_buf_size, loop
<1>6. /\ main \in {"copy", "advance"} => adc_in # adc_out
      /\ main = "wrap" => adc_in # adc_out - 1
    BY DEF InterruptNextFrame, Conversion, RingInv, SlotLeft
<1>7. Waiting' = InUse'
    BY <1>4 DEF Counted
<1>8. InUse' = InUse + 1 /\ InUse + 1 < adc_nbufs
    BY <1>1, <1>5, <1>6 DEF InUse, Oldest, Wrapped
<1>9. adc_in' # adc_in
    BY <1>1, <1>5, <1>6, <1>8 DEF InUse, Oldest, Wrapped
<1>10. NextSlot = adc_in'
    BY <1>5 DEF NextSlot
<1>11. QED
    BY <1>2, <1>7, <1>8, <1>9, <1>10

(* At an overrun the ring is full; what waits is kept or dropped.          *)
LEMMA FrameLost ==
    ASSUME RingInv, InterruptOverrun
    PROVE  /\ Waiting + 2 >= adc_nbufs
           /\ Waiting' \in {0, Waiting + 1}
<1>1. /\ adc_nbufs \in Nat \ {0} /\ adc_in \in 0 .. adc_nbufs - 1
      /\ adc_out \in 0 .. (IF main = "wrap" THEN adc_nbufs ELSE adc_nbufs - 1)
    BY RingFacts DEF RingInv, TypeOK
<1>2. Waiting = InUse
    BY WaitingValue DEF RingInv, Counted
<1>3. RingInv'
    BY InterruptKeepsRing DEF Interrupt
<1>4. Counted'
    <2>1. TypeOK'
        BY <1>3 DEF RingInv
    <2>2. QED
        BY <2>1, WaitingValue, PTL
<1>5. /\ adc_nbufs' = adc_nbufs /\ UNCHANGED <<main, adc_out>>
      /\ adc_in' = IF adc_in + 1 >= adc_nbufs THEN 0 ELSE adc_in + 1
      /\ adc_in' = adc_out
    BY DEF InterruptOverrun, Occupied, NextSlot, adc_nbufs, adc_one_buf_size, loop
<1>6. /\ main \in {"copy", "advance"} => adc_in # adc_out
      /\ main = "wrap" => adc_in # adc_out - 1
    BY DEF InterruptOverrun, Conversion, RingInv, SlotLeft
<1>7. Waiting' = InUse'
    BY <1>4 DEF Counted
<1>8. InUse + 2 >= adc_nbufs /\ (InUse' = 0 \/ InUse' = InUse + 1)
    BY <1>1, <1>5, <1>6 DEF InUse, Oldest, Wrapped
<1>9. QED
    BY <1>2, <1>7, <1>8

-----------------------------------------------------------------------------
(* FramesInv holds always.                                                 *)

LEMMA BehindRange ==
    ASSUME TypeOK, NEW i \in 0 .. adc_nbufs - 1
    PROVE  Behind(i) \in 1 .. adc_nbufs /\ (Behind(i) = adc_nbufs <=> i = adc_in)
<1>1. adc_nbufs \in Nat \ {0} /\ adc_in \in 0 .. adc_nbufs - 1
    BY RingFacts DEF TypeOK
<1>2. QED
    BY <1>1 DEF Behind

(* While sampling the slot that is being filled waits for nobody.          *)
LEMMA RoomToFill ==
    ASSUME RingInv, ADIE
    PROVE  Waiting < adc_nbufs
<1>1. /\ adc_nbufs \in Nat \ {0} /\ adc_in \in 0 .. adc_nbufs - 1
      /\ Waiting = InUse /\ Oldest \in 0 .. adc_nbufs - 1
    BY RingFacts, WaitingValue DEF RingInv, Counted, TypeOK
<1>2. main = "copy" => adc_in # adc_out
    BY DEF RingInv, SlotLeft
<1>3. QED
    BY <1>1, <1>2 DEF InUse

(* The interrupt leaves a slot as it is that it does not store into.       *)
LEMMA SlotSpared ==
    ASSUME RingInv, Interrupt, ~Empty,
           NEW i \in 0 .. adc_nbufs - 1, NEW f, NEW n \in 0 .. adc_nchans,
           Holds(i, f, n),
           i = adc_in => n <= adc_nchan,
           InterruptNextFrame => i # NextSlot
    PROVE  Holds(i, f, n)'
<1>1. first' = first /\ adc_nchans \in Nat /\ adc_nchan \in Nat
    <2>1. first' = first
        BY DEF Interrupt, InterruptNextChannel, InterruptNextFrame, InterruptOverrun
    <2>2. adc_nchans \in 0 .. 8 /\ adc_nchan \in 0 .. 7
        BY RingFacts DEF RingInv, TypeOK
    <2>3. QED
        BY <2>1, <2>2
<1>2. ASSUME NEW k \in 0 .. n
      PROVE  PairOf(i, k)' = PairOf(i, k)
    <2>1. k \in 0 .. adc_nchans /\ ~(i = adc_in /\ k = adc_nchan + 1)
        BY <1>1
    <2>2. QED
        BY <2>1, InterruptWrites
<1>3. PairOf(i, 0)' = PairOf(i, 0)
    BY <1>1, <1>2
<1>4. \A k \in 1 .. n : PairOf(i, k)' = PairOf(i, k)
    BY <1>1, <1>2
<1>5. QED
    BY <1>1, <1>3, <1>4 DEF Holds

(* It adds a sample to the frame that is being taken.                      *)
LEMMA SampleTaken ==
    ASSUME RingInv, Filling, Interrupt, ~Empty,
           NEW i, NEW f, NEW n,
           i = adc_in, f = frame, n = adc_nchan + 1,
           InterruptNextFrame => i # NextSlot
    PROVE  Holds(i, f, n)'
<1>1. ADIE /\ first' = first /\ adc_nchan \in Nat /\ n \in 1 .. adc_nchans
      /\ adc_nchans \in Nat /\ i \in 0 .. adc_nbufs - 1
    <2>1. ADIE /\ first' = first
        BY DEF Interrupt, InterruptNextChannel, InterruptNextFrame, InterruptOverrun, Conversion
    <2>2. adc_nchan + 1 \in 1 .. adc_nchans /\ adc_nchans \in 1 .. 8
        BY <2>1, PointerFacts
    <2>3. adc_nchan \in 0 .. 7 /\ adc_in \in 0 .. adc_nbufs - 1
        BY DEF RingInv, TypeOK
    <2>4. QED
        BY <2>1, <2>2, <2>3
<1>2. Holds(i, f, adc_nchan)
    BY <1>1 DEF Filling
<1>3. PICK m \in Nat : m = adc_nchan
    BY <1>1
<1>4. Holds(i, f, m)'
    <2>1. m \in 0 .. adc_nchans /\ Holds(i, f, m)
        BY <1>1, <1>2, <1>3
    <2>2. QED
        BY <1>1, <1>3, <2>1, SlotSpared
<1>5. PairOf(i, n)' = <<n, f>>
    <2>1. n \in 0 .. adc_nchans
        BY <1>1
    <2>2. QED
        BY <1>1, <2>1, InterruptWrites
<1>6. \A k \in 1 .. n : k \in 1 .. m \/ k = n
    BY <1>1, <1>3
<1>7. QED
    BY <1>4, <1>5, <1>6 DEF Holds

LEMMA NextChannelKeeps ==
    ASSUME FramesInv, InterruptNextChannel, ~Empty
    PROVE  Filling' /\ Kept'
<1> USE DEF FramesInv
<1>1. /\ ADIE /\ Interrupt /\ ~InterruptNextFrame
      /\ UNCHANGED <<adc_nchans, adc_in, adc_out, main, adc_rec_nr, frame, first>>
      /\ adc_nchan' = adc_nchan + 1
    BY DEF InterruptNextChannel, Interrupt, InterruptNextFrame, Conversion, loop, RingInv, TypeOK
<1>2. adc_nbufs' = adc_nbufs /\ adc_one_buf_size' = adc_one_buf_size
    BY <1>1 DEF adc_nbufs, adc_one_buf_size
<1>3. Waiting' = Waiting
    BY <1>1, <1>2 DEF Waiting, NextOut
<1>4. Filling'
    <2>1. PICK i, f, n : i = adc_in /\ f = frame /\ n = adc_nchan + 1
        OBVIOUS
    <2>2. Holds(i, f, n)'
        BY <1>1, <2>1, SampleTaken
    <2>3. adc_in' = i /\ frame' = f /\ adc_nchan' = n
        BY <1>1, <2>1
    <2>4. QED
        BY <1>1, <2>2, <2>3 DEF Filling, Holds
<1>5. Kept'
    <2>1. Waiting' <= frame' - first'
        BY <1>1, <1>3 DEF Kept
    <2>2. ASSUME NEW i \in (0 .. adc_nbufs - 1)', (Behind(i) <= Waiting)'
          PROVE  Holds(i, frame - Behind(i), adc_nchans)'
        <3>1. Behind(i)' = Behind(i) /\ i \in 0 .. adc_nbufs - 1 /\ Behind(i) <= Waiting
            BY <1>1, <1>2, <1>3, <2>2 DEF Behind
        <3>2. i # adc_in /\ adc_nchans \in Nat
            <4>1. adc_nbufs \in Nat \ {0} /\ adc_nchans \in Nat /\ Waiting \in 0 .. adc_nbufs
                BY RingFacts, WaitingValue DEF RingInv, Counted
            <4>2. QED
                BY <1>1, <3>1, <4>1, RoomToFill, BehindRange DEF RingInv
        <3>3. PICK f, n : f = frame - Behind(i) /\ n = adc_nchans
            OBVIOUS
        <3>4. Holds(i, f, n)
            BY <3>3, <3>1 DEF Kept
        <3>5. Holds(i, f, n)'
            BY <1>1, <3>2, <3>3, <3>4, <3>1, SlotSpared
        <3>6. QED
            BY <1>1, <3>3, <3>5, <3>1 DEF Holds
    <2>3. QED
        BY <2>1, <2>2 DEF Kept
<1>6. QED
    BY <1>4, <1>5

(* When the interrupt moves on all slots fall back by one, the slot it     *)
(* leaves being the nearest.                                               *)
LEMMA SlotsFallBack ==
    ASSUME RingInv, InterruptNextFrame \/ InterruptOverrun,
           NEW i \in 0 .. adc_nbufs - 1
    PROVE  /\ adc_nbufs' = adc_nbufs
           /\ Behind(i)' = IF i = adc_in THEN 1 ELSE Behind(i) + 1
           /\ i = NextSlot /\ NextSlot # adc_in => Behind(i) + 1 = adc_nbufs
<1>1. adc_nbufs \in Nat \ {0} /\ adc_in \in 0 .. adc_nbufs - 1
    BY RingFacts DEF RingInv, TypeOK
<1>2. /\ adc_nbufs' = adc_nbufs
      /\ adc_in' = IF adc_in + 1 >= adc_nbufs THEN 0 ELSE adc_in + 1
    BY DEF InterruptNextFrame, InterruptOverrun, NextSlot, adc_nbufs, adc_one_buf_size
<1>3. Behind(i)' = IF i < adc_in' THEN adc_in' - i ELSE adc_in' - i + adc_nbufs
    BY <1>2 DEF Behind
<1>4. QED
    BY <1>1, <1>2, <1>3 DEF Behind, NextSlot

LEMMA FrameFinishedKeeps ==
    ASSUME FramesInv, InterruptNextFrame \/ InterruptOverrun, ~Empty
    PROVE  Kept'
<1> USE DEF FramesInv
<1>1. /\ ADIE /\ Interrupt
      /\ UNCHANGED <<adc_nchans, adc_out, main, first>>
      /\ adc_nchan + 1 >= adc_nchans
      /\ frame' = frame + 1
    BY DEF InterruptNextFrame, InterruptOverrun, Interrupt, Conversion, loop
<1>2. /\ adc_nbufs' = adc_nbufs
      /\ adc_nbufs \in Nat \ {0} /\ adc_in \in 0 .. adc_nbufs - 1
      /\ adc_nchans \in Nat /\ adc_nchan + 1 = adc_nchans
      /\ Waiting \in Int /\ frame \in Int /\ first \in Int
    <2>1. adc_nbufs' = adc_nbufs
        BY <1>1 DEF adc_nbufs, adc_one_buf_size
    <2>2. adc_nchan \in 0 .. 7 /\ adc_nchan < adc_nchans /\ adc_nchans \in 0 .. 8 /\ adc_nbufs \in Nat \ {0}
        BY <1>1, RingFacts DEF RingInv, TypeOK, Converting
    <2>3. Waiting \in 0 .. adc_nbufs
        BY WaitingValue DEF RingInv, Counted
    <2>4. adc_in \in 0 .. adc_nbufs - 1 /\ frame \in 0 .. MaxFrames /\ first \in 0 .. frame
        BY DEF RingInv, TypeOK
    <2>5. QED
        BY <1>1, <2>1, <2>2, <2>3, <2>4
<1>3. /\ Waiting' \in {0, Waiting + 1}
      /\ InterruptNextFrame => Waiting + 1 < adc_nbufs /\ NextSlot # adc_in
    BY FrameTaken, FrameLost DEF InterruptNextFrame, InterruptOverrun
<1>4. Waiting' <= frame' - first'
    BY <1>1, <1>2, <1>3 DEF Kept, RingInv, TypeOK
<1>5. ASSUME NEW i \in (0 .. adc_nbufs - 1)', (Behind(i) <= Waiting)'
      PROVE  Holds(i, frame - Behind(i), adc_nchans)'
    <2>1. /\ i \in 0 .. adc_nbufs - 1
          /\ Behind(i)' = IF i = adc_in THEN 1 ELSE Behind(i) + 1
          /\ i = NextSlot /\ NextSlot # adc_in => Behind(i) + 1 = adc_nbufs
          /\ Behind(i) \in Int /\ Behind(i) > 0
        <3>1. i \in 0 .. adc_nbufs - 1
            BY <1>2
        <3>2. Behind(i) \in 1 .. adc_nbufs
            BY <3>1, BehindRange DEF RingInv
        <3>3. QED
            BY <1>2, <3>1, <3>2, SlotsFallBack
    <2>2. InterruptNextFrame => i # NextSlot
        BY <1>2, <1>3, <1>5, <2>1
    <2>3. PICK f, n : f = frame' - Behind(i)' /\ n = adc_nchans
        OBVIOUS
    <2>4. CASE i = adc_in
        <3>1. f = frame
            BY <1>1, <1>2, <2>1, <2>3, <2>4
        <3>2. Holds(i, f, n)'
            BY <1>1, <1>2, <2>2, <2>3, <2>4, <3>1, SampleTaken
        <3>3. QED
            BY <1>1, <2>3, <3>2 DEF Holds
    <2>5. CASE i # adc_in
        <3>1. f = frame - Behind(i) /\ Behind(i) <= Waiting
            BY <1>1, <1>2, <1>3, <1>5, <2>1, <2>3, <2>5
        <3>2. Holds(i, f, n)
            BY <2>1, <2>3, <3>1 DEF Kept
        <3>3. Holds(i, f, n)'
            BY <1>1, <1>2, <2>1, <2>2, <2>3, <2>5, <3>2, SlotSpared
        <3>4. QED
            BY <1>1, <2>3, <3>3 DEF Holds
    <2>6. QED
        BY <2>4, <2>5
<1>6. QED
    BY <1>4, <1>5 DEF Kept

LEMMA NextFrameFills ==
    ASSUME FramesInv, InterruptNextFrame, ~Empty
    PROVE  Filling'
<1> USE DEF FramesInv
<1>1. /\ ADIE /\ Interrupt
      /\ UNCHANGED <<adc_nchans, first>>
      /\ frame' = frame + 1 /\ adc_in' = NextSlot /\ adc_nchan' = 0
      /\ adc_rec_nr' = (adc_rec_nr + 1) % RecNumbers
    BY DEF InterruptNextFrame, Interrupt, Conversion
<1>2. adc_rec_nr' = (frame' - first') % RecNumbers
    <2>1. frame \in Int /\ first \in Int /\ RecNumbers \in Nat \ {0}
        BY RingAssumption DEF RingInv, TypeOK
    <2>2. PICK x \in Int : x = frame - first
        BY <2>1
    <2>3. adc_rec_nr = x % RecNumbers
        BY <1>1, <2>2 DEF Filling
    <2>4. adc_rec_nr' = (x + 1) % RecNumbers
        BY <1>1, <2>1, <2>2, <2>3, RemainderSuccessor
    <2>5. frame' - first' = x + 1
        BY <1>1, <2>1, <2>2
    <2>6. QED
        BY <2>4, <2>5
<1>3. PairOf(adc_in, 0)' = Header(adc_rec_nr')
    <2>1. NextSlot \in 0 .. adc_nbufs - 1 /\ 0 \in 0 .. adc_nchans
        BY <1>1, PointerFacts
    <2>2. PICK i \in 0 .. adc_nbufs - 1 : i = NextSlot
        BY <2>1
    <2>3. PairOf(i, 0)' = Header(adc_rec_nr')
        BY <1>1, <2>1, <2>2, InterruptWrites
    <2>4. QED
        BY <1>1, <2>2, <2>3 DEF PairOf
<1>4. QED
    BY <1>1, <1>2, <1>3 DEF Filling, Holds

LEMMA InterruptKeepsFrames == FramesInv /\ Interrupt => FramesInv'
<1> SUFFICES ASSUME FramesInv, Interrupt PROVE FramesInv'
    OBVIOUS
<1>0. Empty' = Empty
    BY DEF Interrupt, InterruptNextChannel, InterruptNextFrame, InterruptOverrun, Empty
<1>1. RingInv'
    BY InterruptKeepsRing DEF FramesInv
<1>2. Filling' /\ Kept'
    <2>1. InterruptOverrun => Filling'
        BY DEF InterruptOverrun, Filling
    <2>2. Empty => Filling' /\ Kept'
        BY <1>0 DEF Filling, Kept
    <2>3. QED
        BY <2>1, <2>2, NextChannelKeeps, FrameFinishedKeeps, NextFrameFills DEF Interrupt
<1>3. Copied'
    <2>1. UNCHANGED <<main, copied, ep2, adc_out>>
        BY DEF Interrupt, InterruptNextChannel, InterruptNextFrame, InterruptOverrun, loop, endpoint
    <2> SUFFICES ASSUME main = "copy", ~Empty PROVE Copied'
        BY <1>0, <2>1 DEF Copied
    <2>2. adc_one_buf_size' = adc_one_buf_size
        BY DEF Interrupt, InterruptNextChannel, InterruptNextFrame, InterruptOverrun, adc_one_buf_size
    <2>3. ASSUME NEW k \in 1 .. copied
          PROVE  PairOf(adc_out, k - 1)' = PairOf(adc_out, k - 1)
        <3>1. /\ copied <= adc_one_buf_size /\ copied \in Nat
              /\ adc_one_buf_size = adc_nchans + 1 /\ adc_nchans \in Nat
            <4>1. TypeOK /\ copied \in 0 .. 9
                BY DEF FramesInv, RingInv, TypeOK
            <4>2. copied <= adc_one_buf_size
                BY DEF FramesInv, Copied
            <4>3. adc_one_buf_size = adc_nchans + 1 /\ adc_nchans \in 0 .. 8
                BY <4>1, RingFacts
            <4>4. QED
                BY <4>1, <4>2, <4>3
        <3>2. PICK l \in Int : l = k - 1
            BY <3>1
        <3>3. l \in 0 .. adc_nchans
            BY <3>1, <3>2
        <3>4. PairOf(adc_out, l)' = PairOf(adc_out, l)
            BY <3>3, InterruptSparesCopy DEF FramesInv
        <3>5. QED
            BY <2>1, <3>2, <3>4 DEF PairOf
    <2>4. QED
        BY <2>1, <2>2, <2>3 DEF FramesInv, Copied
<1>4. QED
    BY <1>1, <1>2, <1>3 DEF FramesInv

(* Without the interrupt the ring changes only at a start.                 *)
LEMMA RingKept ==
    ASSUME FramesInv, UNCHANGED ring, ADIE' => ADIE, Waiting' \in Int, Waiting' <= Waiting
    PROVE  /\ Filling' /\ Kept'
           /\ adc_one_buf_size' = adc_one_buf_size
           /\ \A i, k : PairOf(i, k)' = PairOf(i, k)
           /\ Empty' = Empty
<1>1. /\ UNCHANGED <<adc_nchans, adc_in, adc_nchan, adc_rec_nr, adc_buf, frame, first>>
      /\ adc_nbufs' = adc_nbufs /\ adc_one_buf_size' = adc_one_buf_size
      /\ Empty' = Empty
    BY DEF ring, adc_nbufs, adc_one_buf_size, Empty
<1>2. \A i, k : PairOf(i, k)' = PairOf(i, k)
    BY <1>1 DEF PairOf
<1>3. \A i, f, n : Holds(i, f, n)' <=> Holds(i, f, n)
    BY <1>1, <1>2 DEF Holds
<1>4. Filling'
    <2>1. PICK i, f, n : i = adc_in /\ f = frame /\ n = adc_nchan
        OBVIOUS
    <2>2. ADIE /\ ~Empty => Holds(i, f, n)'
        BY <1>3, <2>1 DEF FramesInv, Filling
    <2>3. QED
        BY <1>1, <2>1, <2>2 DEF FramesInv, Filling, Holds
<1>5. Kept'
    <2> SUFFICES ASSUME ~Empty PROVE Kept'
        BY <1>1 DEF Kept
    <2>1. Waiting \in Int /\ frame \in Int /\ first \in Int
          /\ \A i \in 0 .. adc_nbufs - 1 : Behind(i) \in Int
        <3>1. Waiting \in 0 .. adc_nbufs /\ adc_nbufs \in Nat \ {0}
            BY WaitingValue, RingFacts DEF FramesInv, RingInv, Counted
        <3>2. frame \in 0 .. MaxFrames /\ first \in 0 .. frame
            BY DEF FramesInv, RingInv, TypeOK
        <3>3. \A i \in 0 .. adc_nbufs - 1 : Behind(i) \in 1 .. adc_nbufs
            BY BehindRange DEF FramesInv, RingInv
        <3>4. QED
            BY <3>1, <3>2, <3>3
    <2>2. Waiting' <= frame' - first'
        BY <1>1, <2>1 DEF FramesInv, Kept
    <2>3. ASSUME NEW i \in (0 .. adc_nbufs - 1)', (Behind(i) <= Waiting)'
          PROVE  Holds(i, frame - Behind(i), adc_nchans)'
        <3>1. i \in 0 .. adc_nbufs - 1 /\ Behind(i)' = Behind(i)
            BY <1>1 DEF Behind
        <3>2. Behind(i) <= Waiting
            BY <2>1, <2>3, <3>1
        <3>3. PICK f, n : f = frame - Behind(i) /\ n = adc_nchans
            OBVIOUS
        <3>4. Holds(i, f, n)'
            BY <1>3, <3>1, <3>2, <3>3 DEF FramesInv, Kept
        <3>5. QED
            BY <1>1, <3>1, <3>3, <3>4 DEF Holds
    <2>4. QED
        BY <2>2, <2>3 DEF Kept
<1>6. QED
    BY <1>1, <1>2, <1>4, <1>5

(* Arming a frame makes it leave the ring; nothing else the main loop does *)
(* changes the number of those that wait.                                  *)
LEMMA MainLoopCounts ==
    ASSUME RingInv, MainLoop \/ HostIn, ~CommandStart
    PROVE  /\ UNCHANGED ring
           /\ ADIE' => ADIE
           /\ Waiting' = IF ArmFrame THEN Waiting - 1 ELSE Waiting
           /\ ArmFrame => Waiting >= 1
<1>1. RingInv'
    BY RingStep DEF Next
<1>2. Counted /\ Counted'
    <2>1. TypeOK /\ TypeOK'
        BY <1>1 DEF RingInv
    <2>2. QED
        BY <2>1, WaitingValue, PTL
<1>3. Waiting = InUse /\ Waiting' = InUse'
    BY <1>2 DEF Counted
<1>4. /\ adc_nbufs \in Nat \ {0} /\ adc_in \in 0 .. adc_nbufs - 1
      /\ adc_out \in 0 .. (IF main = "wrap" THEN adc_nbufs ELSE adc_nbufs - 1)
    BY RingFacts DEF RingInv, TypeOK
<1>5. UNCHANGED ring /\ (ADIE' => ADIE)
    BY DEF MainLoop, DispatchNothing, DispatchOverrun, DispatchFrame, CopyPair, ArmFrame, Advance, Wrap,
           NoCommand, ArmAnswer, Command, CommandConf, CommandStop, CommandId, CommandError, Deconfigure,
           Configure, HostIn, flags
<1>6. adc_nbufs' = adc_nbufs /\ adc_in' = adc_in
    BY <1>5 DEF ring, adc_nbufs, adc_one_buf_size
<1>7. CASE ArmFrame
    <2>1. main = "copy" /\ main' = "advance" /\ adc_out' = adc_out
        BY <1>7 DEF ArmFrame
    <2>2. InUse' = InUse - 1 /\ InUse >= 1
        BY <1>4, <1>6, <2>1 DEF InUse, Oldest, Wrapped
    <2>3. QED
        BY <1>3, <1>5, <1>7, <2>2
<1>8. CASE ~ArmFrame
    <2>1. \/ main \notin {"copy", "advance", "wrap"} /\ main' \notin {"copy", "advance", "wrap"}
             /\ adc_out' = adc_out
          \/ main = "dispatch" /\ main' = "copy" /\ adc_out' = adc_out /\ adc_in # adc_out
          \/ main' = main /\ adc_out' = adc_out
          \/ main = "advance" /\ main' = "wrap" /\ adc_out' = adc_out + 1
          \/ main = "wrap" /\ main' = "events" /\ adc_out' = IF adc_out >= adc_nbufs THEN 0 ELSE adc_out
        BY <1>8 DEF MainLoop, DispatchNothing, DispatchOverrun, DispatchFrame, CopyPair, Advance, Wrap,
           NoCommand, ArmAnswer, Command, CommandConf, CommandStop, CommandId, CommandError, CommandReceived,
           Answer, Deconfigure, Configure, HostIn, loop
    <2>2. InUse' = InUse
        BY <1>4, <1>6, <2>1 DEF InUse, Oldest, Wrapped
    <2>3. QED
        BY <1>3, <1>5, <1>8, <2>2
<1>9. QED
    BY <1>7, <1>8

LEMMA StartKeepsFrames == FramesInv /\ CommandStart => FramesInv' /\ Waiting' = 0
<1> SUFFICES ASSUME FramesInv, CommandStart PROVE FramesInv' /\ Waiting' = 0
    OBVIOUS
<1>1. RingInv'
    BY RingStep DEF FramesInv, Next, MainLoop, Command
<1>2. Counted'
    <2>1. TypeOK'
        BY <1>1 DEF RingInv
    <2>2. QED
        BY <2>1, WaitingValue, PTL
<1>3. /\ adc_in' = 0 /\ adc_out' = 0 /\ adc_nchan' = 0 /\ adc_rec_nr' = 0
      /\ first' = frame /\ frame' = frame /\ main' = "answer"
      /\ adc_buf' = [adc_buf EXCEPT ![0] = Header(0)]
      /\ adc_nchans' = adc_cfg
    BY DEF CommandStart, Answer
<1>4. Waiting' = 0
    BY <1>2, <1>3 DEF Counted, InUse, Oldest
<1>5. adc_one_buf_size' * 0 + 0 = 0
    <2>1. adc_cfg \in 0 .. 8
        BY RingAssumption DEF FramesInv, RingInv, TypeOK
    <2>2. PICK c \in 0 .. 8 : c = adc_cfg
        BY <2>1
    <2>3. (c + 1) * 0 + 0 = 0
        OBVIOUS
    <2>4. QED
        BY <1>3, <2>2, <2>3 DEF adc_one_buf_size
<1>6. Filling'
    <2>1. 0 \in Pairs
        BY FirstSlot DEF FramesInv, RingInv, TypeOK
    <2>2. PairOf(adc_in, 0)' = Header(0)
        BY <1>3, <1>5, <2>1 DEF PairOf, FramesInv, RingInv, TypeOK
    <2>3. (frame - frame) % RecNumbers = 0
        <3>1. frame \in Int /\ RecNumbers \in Nat \ {0}
            BY RingAssumption DEF FramesInv, RingInv, TypeOK
        <3>2. 0 % RecNumbers = 0
            BY <3>1
        <3>3. QED
            BY <3>1, <3>2
    <2>4. QED
        BY <1>3, <2>2, <2>3 DEF Filling, Holds
<1>7. Kept'
    <2>1. Waiting' <= frame' - first'
        BY <1>3, <1>4 DEF FramesInv, RingInv, TypeOK
    <2>2. ASSUME NEW i \in (0 .. adc_nbufs - 1)', (Behind(i) <= Waiting)'
          PROVE  FALSE
        <3>1. adc_nbufs' \in Nat \ {0}
            <4>1. adc_nbufs' = ADC_BUF_SIZE \div (2 * (adc_cfg + 1)) /\ adc_cfg \in Channels
                BY <1>3 DEF adc_nbufs, adc_one_buf_size, FramesInv, RingInv, TypeOK
            <4>2. QED
                BY <4>1, FirstSlot
        <3>2. PICK n \in Nat \ {0} : n = adc_nbufs'
            BY <3>1
        <3>3. i \in 0 .. n - 1
            BY <2>2, <3>2
        <3>4. Behind(i)' = 0 - i + n
            <4>1. Behind(i)' = IF i < adc_in' THEN adc_in' - i ELSE adc_in' - i + adc_nbufs'
                BY DEF Behind
            <4>2. ~(i < 0)
                BY <3>3
            <4>3. Behind(i)' = IF i < 0 THEN 0 - i ELSE 0 - i + n
                BY <1>3, <3>2, <4>1
            <4>4. QED
                BY <4>2, <4>3
        <3>5. QED
            BY <1>4, <2>2, <3>3, <3>4
    <2>3. QED
        BY <2>1, <2>2 DEF Kept
<1>8. Copied'
    BY <1>3 DEF Copied
<1>9. QED
    BY <1>1, <1>4, <1>6, <1>7, <1>8 DEF FramesInv

LEMMA MainLoopKeepsFrames ==
    ASSUME FramesInv, MainLoop \/ HostIn, ~CommandStart
    PROVE  FramesInv'
<1>1. RingInv'
    BY RingStep DEF FramesInv, Next
<1>2. /\ Filling' /\ Kept' /\ adc_one_buf_size' = adc_one_buf_size /\ Empty' = Empty
      /\ \A i, k : PairOf(i, k)' = PairOf(i, k)
    <2>1. Waiting \in 0 .. adc_nbufs /\ adc_nbufs \in Nat \ {0}
        BY WaitingValue, RingFacts DEF FramesInv, RingInv, Counted
    <2>2. UNCHANGED ring /\ (ADIE' => ADIE) /\ Waiting' = IF ArmFrame THEN Waiting - 1 ELSE Waiting
        BY MainLoopCounts DEF FramesInv
    <2>3. Waiting' \in Int /\ Waiting' <= Waiting
        BY <2>1, <2>2
    <2>4. QED
        BY <2>2, <2>3, RingKept
<1>3. Copied'
    <2> SUFFICES ASSUME ~Empty PROVE Copied'
        BY <1>2 DEF Copied
    <2>1. CASE DispatchFrame
        <3>1. /\ main' = "copy" /\ copied' = 0 /\ ep2' = [ep2 EXCEPT !.packet = Data(<< >>)]
              /\ ep2 \in [owner : {"CPU", "SIE"}, dts : {0, 1}, packet : Packet]
            BY <2>1 DEF DispatchFrame, FramesInv, RingInv, TypeOK
        <3>2. ep2'.packet.kind = "data" /\ ep2'.packet.pairs = << >>
            BY <3>1 DEF Data
        <3>3. adc_one_buf_size \in 1 .. 9
            BY RingFacts DEF FramesInv, RingInv
        <3>4. QED
            BY <1>2, <3>1, <3>2, <3>3 DEF Copied
    <2>2. CASE CopyPair
        <3>1. /\ main = "copy" /\ copied < adc_one_buf_size /\ copied' = copied + 1
              /\ adc_out' = adc_out
              /\ ep2' = [ep2 EXCEPT !.packet.pairs = Append(@, adc_buf[SentSlot + copied])]
              /\ ep2 \in [owner : {"CPU", "SIE"}, dts : {0, 1}, packet : Packet]
              /\ copied \in Nat
            BY <2>2 DEF CopyPair, FramesInv, RingInv, TypeOK
        <3>2. PICK old \in Seq(Cell) : old = ep2.packet.pairs
            BY <3>1 DEF Packet
        <3>3. ep2'.packet.pairs = Append(old, adc_buf[SentSlot + copied]) /\ ep2'.packet.kind = ep2.packet.kind
            BY <3>1, <3>2 DEF Packet
        <3>4. adc_buf[SentSlot + copied] = PairOf(adc_out, copied)
            BY DEF SentSlot, PairOf
        <3>5. Len(old) = copied /\ \A k \in 1 .. copied : old[k] = PairOf(adc_out, k - 1)
            BY <3>1, <3>2 DEF FramesInv, Copied
        <3>6. ASSUME NEW k \in 1 .. copied'
              PROVE  ep2'.packet.pairs[k] = PairOf(adc_out, k - 1)
            <4>1. PICK p : p = adc_buf[SentSlot + copied]
                OBVIOUS
            <4>2. k \in 1 .. copied \/ (k = copied + 1 /\ k - 1 = copied)
                BY <3>1
            <4>3. CASE k \in 1 .. copied
                <5>1. Append(old, p)[k] = old[k]
                    BY <3>1, <3>2, <3>5, <4>3
                <5>2. QED
                    BY <3>3, <3>5, <4>1, <4>3, <5>1
            <4>4. CASE k = copied + 1 /\ k - 1 = copied
                <5>1. Append(old, p)[k] = p
                    BY <3>1, <3>2, <3>5, <4>4
                <5>2. QED
                    BY <3>3, <3>4, <4>1, <4>4, <5>1
            <4>5. QED
                BY <4>2, <4>3, <4>4
        <3>7. Len(ep2'.packet.pairs) = copied'
            BY <3>1, <3>2, <3>3, <3>5
        <3>8. copied' <= adc_one_buf_size /\ ep2'.packet.kind = "data"
            <4>1. adc_one_buf_size \in 1 .. 9
                BY RingFacts DEF FramesInv, RingInv
            <4>2. QED
                BY <3>1, <3>3, <4>1 DEF FramesInv, Copied
        <3>9. \A k \in 1 .. copied' : ep2'.packet.pairs[k] = PairOf(adc_out, k - 1)'
            <4>1. adc_buf' = adc_buf
                BY <2>2 DEF CopyPair, ring
            <4>2. \A k : PairOf(adc_out, k - 1)' = PairOf(adc_out, k - 1)
                BY <1>2, <3>1, <4>1 DEF PairOf
            <4>3. QED
                BY <3>6, <4>2
        <3>10. QED
            BY <1>2, <3>7, <3>8, <3>9 DEF Copied
    <2>3. CASE ~DispatchFrame /\ ~CopyPair
        <3>1. main' # "copy"
            BY <2>3 DEF MainLoop, DispatchNothing, DispatchOverrun, ArmFrame, Advance, Wrap, NoCommand,
               ArmAnswer, Command, CommandConf, CommandStop, CommandId, CommandError, Answer,
               Deconfigure, Configure, HostIn, loop, FramesInv, RingInv, BufferOwned
        <3>2. QED
            BY <3>1 DEF Copied
    <2>4. QED
        BY <2>1, <2>2, <2>3
<1>4. QED
    BY <1>1, <1>2, <1>3 DEF FramesInv

LEMMA FramesInit == Init => FramesInv
<1> SUFFICES ASSUME Init PROVE FramesInv
    OBVIOUS
<1>1. RingInv
    BY RingInit
<1>2. Waiting = 0
    <2>1. Waiting = InUse
        BY <1>1, WaitingValue DEF RingInv, Counted
    <2>2. QED
        BY <2>1 DEF Init, InUse, Oldest
<1>3. \A i \in 0 .. adc_nbufs - 1 : ~(Behind(i) <= 0)
    <2>1. adc_nbufs \in Nat \ {0}
        BY <1>1, RingFacts DEF RingInv
    <2>2. \A i \in 0 .. adc_nbufs - 1 : Behind(i) \in 1 .. adc_nbufs
        BY <1>1, BehindRange DEF RingInv
    <2>3. QED
        BY <2>1, <2>2
<1>4. QED
    BY <1>1, <1>2, <1>3 DEF Init, FramesInv, Filling, Kept, Copied

LEMMA FramesStep == FramesInv /\ [Next]_vars => FramesInv'
<1> SUFFICES ASSUME FramesInv, [Next]_vars PROVE FramesInv'
    OBVIOUS
<1>1. CASE UNCHANGED vars
    BY <1>1, RingStutter
    DEF FramesInv, Filling, Kept, Copied, Empty, Holds, PairOf, Behind, Waiting, NextOut, adc_nbufs,
        adc_one_buf_size, vars, ring, flags, endpoint, loop
<1>2. QED
    BY <1>1, InterruptKeepsFrames, StartKeepsFrames, MainLoopKeepsFrames DEF Next, MainLoop, Command

(* The frames in the ring are whole and in order.                          *)
LEMMA FramesCorrect == Spec => []FramesInv
<1>1. QED
    BY FramesInit, FramesStep, PTL DEF Spec

-----------------------------------------------------------------------------
(* The refinement.                                                         *)

(* The numbers of the w frames taken before frame f.                       *)
Queue(w, f) == [i \in 1 .. w |-> f - w + i - 1]

LEMMA QueueLength ==
    ASSUME NEW w \in Nat, NEW f \in Int
    PROVE  Queue(w, f) \in Seq(Int) /\ Len(Queue(w, f)) = w
BY DEF Queue

LEMMA QueueEmpty ==
    ASSUME NEW f \in Int
    PROVE  Queue(0, f) = << >>
<1>1. Queue(0, f) \in Seq(Int) /\ Len(Queue(0, f)) = 0
    BY QueueLength
<1>2. QED
    BY <1>1

LEMMA QueueAppend ==
    ASSUME NEW w \in Nat, NEW f \in Int
    PROVE  Append(Queue(w, f), f) = Queue(w + 1, f + 1)
<1>1. Queue(w, f) \in Seq(Int) /\ Len(Queue(w, f)) = w
    BY QueueLength
<1>2. Queue(w + 1, f + 1) \in Seq(Int) /\ Len(Queue(w + 1, f + 1)) = w + 1
    BY QueueLength
<1>3. Append(Queue(w, f), f) \in Seq(Int) /\ Len(Append(Queue(w, f), f)) = w + 1
    BY <1>1
<1>4. ASSUME NEW i \in 1 .. w + 1
      PROVE  Append(Queue(w, f), f)[i] = Queue(w + 1, f + 1)[i]
    <2>1. Queue(w + 1, f + 1)[i] = f - w + i - 1
        BY DEF Queue
    <2>2. CASE i = w + 1
        BY <1>1, <2>1, <2>2
    <2>3. CASE i # w + 1
        <3>1. i \in 1 .. w
            BY <2>3
        <3>2. Queue(w, f)[i] = f - w + i - 1
            BY <3>1 DEF Queue
        <3>3. QED
            BY <1>1, <2>1, <3>1, <3>2
    <2>4. QED
        BY <2>2, <2>3
<1>5. QED
    BY <1>2, <1>3, <1>4, SeqEqual

LEMMA QueueHead ==
    ASSUME NEW w \in Nat \ {0}, NEW f \in Int
    PROVE  /\ Queue(w, f) # << >>
           /\ Head(Queue(w, f)) = f - w
           /\ Tail(Queue(w, f)) = Queue(w - 1, f)
<1>1. Queue(w, f) \in Seq(Int) /\ Len(Queue(w, f)) = w
    BY QueueLength
<1>2. w - 1 \in Nat
    OBVIOUS
<1>3. Queue(w - 1, f) \in Seq(Int) /\ Len(Queue(w - 1, f)) = w - 1
    BY <1>2, QueueLength
<1>4. Queue(w, f) # << >>
    BY <1>1
<1>5. Tail(Queue(w, f)) \in Seq(Int) /\ Len(Tail(Queue(w, f))) = w - 1
    BY <1>1, <1>4
<1>6. \A i \in 1 .. w - 1 : Tail(Queue(w, f))[i] = Queue(w, f)[i + 1]
    BY <1>1, <1>4
<1>7. ASSUME NEW i \in 1 .. w - 1
      PROVE  Tail(Queue(w, f))[i] = Queue(w - 1, f)[i]
    <2>1. i + 1 \in 1 .. w
        OBVIOUS
    <2>2. Queue(w, f)[i + 1] = f - w + (i + 1) - 1
        BY <2>1 DEF Queue
    <2>3. Queue(w - 1, f)[i] = f - (w - 1) + i - 1
        BY DEF Queue
    <2>4. f - w + (i + 1) - 1 = f - (w - 1) + i - 1
        OBVIOUS
    <2>5. Tail(Queue(w, f))[i] = Queue(w, f)[i + 1]
        BY <1>6
    <2>6. QED
        BY <2>2, <2>3, <2>4, <2>5
<1>8. Head(Queue(w, f)) = f - w
    <2>1. Queue(w, f)[1] = f - w + 1 - 1
        BY DEF Queue
    <2>2. QED
        BY <1>1, <2>1
<1>9. QED
    BY <1>3, <1>4, <1>5, <1>7, <1>8, SeqEqual

(* What the queue sees: the frames that wait, the number of the next one,  *)
(* the frame handed over last.                                             *)
Queued == IF Empty THEN << >> ELSE Queue(Waiting, frame)
Taking == IF Empty THEN first ELSE frame
LastSent ==
    IF sent = << >> \/ Empty THEN NoFrame ELSE IF Whole(sent) THEN sent[2][2] ELSE Torn

(* The room of the queue is the number of the slots.                       *)
Roomed ==
    /\ Room(adc_nchans) = IF Empty THEN 0 ELSE adc_nbufs
    /\ Room(adc_nchans) \in Nat
    /\ adc_nbufs \in Nat \ {0}

LEMMA RoomIsSlots == TypeOK => Roomed
<1> SUFFICES ASSUME TypeOK PROVE Roomed
    OBVIOUS
<1>1. adc_nchans \in 0 .. 8 /\ adc_nbufs \in Nat \ {0}
    BY RingFacts
<1>2. 2 * adc_one_buf_size = 2 * adc_nchans + 2
    BY <1>1 DEF adc_one_buf_size
<1>3. adc_nbufs = ADC_BUF_SIZE \div (2 * adc_nchans + 2)
    BY <1>2 DEF adc_nbufs
<1>4. Room(adc_nchans) = IF adc_nchans = 0 THEN 0 ELSE adc_nbufs
    BY <1>3 DEF Room
<1>5. QED
    BY <1>1, <1>4 DEF Roomed, Empty

LEMMA FramesStart == Init => Frames!Init
<1> SUFFICES ASSUME Init PROVE Frames!Init
    OBVIOUS
<1>1. TypeOK
    BY RingInit DEF RingInv
<1>2. Empty /\ Room(adc_nchans) \in Nat /\ first = 0 /\ ~ADIE /\ sent = << >>
    BY <1>1, RoomIsSlots DEF Roomed, Init, Empty
<1>3. QED
    BY <1>2 DEF Frames!Init

(* A frame is complete.                                                    *)
LEMMA TakeStep ==
    ASSUME FramesInv, InterruptNextFrame, ~Empty
    PROVE  Frames!Take
<1>1. /\ ADIE /\ ADIE' /\ frame' = frame + 1
      /\ UNCHANGED <<adc_nchans, first, sent>>
    BY DEF InterruptNextFrame, Conversion, flags, loop
<1>2. Empty' = FALSE /\ Room(adc_nchans)' = Room(adc_nchans) /\ LastSent' = LastSent
    BY <1>1 DEF Empty, Room, adc_one_buf_size, LastSent, Whole
<1>3. Waiting' = Waiting + 1 /\ Waiting + 1 < Room(adc_nchans)
    <2>1. Room(adc_nchans) = adc_nbufs
        BY RoomIsSlots DEF Roomed, FramesInv, RingInv
    <2>2. QED
        BY <2>1, FrameTaken DEF FramesInv
<1>4. Waiting \in Nat /\ frame \in Int
    <2>1. Waiting \in 0 .. adc_nbufs /\ adc_nbufs \in Nat \ {0} /\ frame \in 0 .. MaxFrames
        BY WaitingValue, RingFacts DEF FramesInv, RingInv, TypeOK, Counted
    <2>2. QED
        BY <2>1
<1>5. PICK w \in Nat, f \in Int : w = Waiting /\ f = frame
    BY <1>4
<1>6. Queue(w + 1, f + 1) = Append(Queue(w, f), f) /\ Len(Queue(w, f)) = w
    BY QueueAppend, QueueLength
<1>7. Queue(Waiting, frame)' = Append(Queue(Waiting, frame), frame) /\ Len(Queue(Waiting, frame)) = Waiting
    BY <1>1, <1>3, <1>5, <1>6 DEF Queue
<1>8. QED
    BY <1>1, <1>2, <1>3, <1>7 DEF Frames!Take, Queue, LastSent

(* A frame finds no room.                                                  *)
LEMMA OverflowStep ==
    ASSUME FramesInv, InterruptOverrun, ~Empty
    PROVE  Frames!Overflow
<1>1. /\ ADIE /\ ADIE' = FALSE /\ frame' = frame + 1
      /\ UNCHANGED <<adc_nchans, first, sent>>
    BY DEF InterruptOverrun, Conversion, loop
<1>2. Empty' = FALSE /\ Room(adc_nchans)' = Room(adc_nchans) /\ LastSent' = LastSent
    BY <1>1 DEF Empty, Room, adc_one_buf_size, LastSent, Whole
<1>3. Waiting' \in {0, Waiting + 1} /\ Waiting + 2 >= Room(adc_nchans)
    <2>1. Room(adc_nchans) = adc_nbufs
        BY RoomIsSlots DEF Roomed, FramesInv, RingInv
    <2>2. QED
        BY <2>1, FrameLost DEF FramesInv
<1>4. Waiting \in Nat /\ frame \in Int
    <2>1. Waiting \in 0 .. adc_nbufs /\ adc_nbufs \in Nat \ {0} /\ frame \in 0 .. MaxFrames
        BY WaitingValue, RingFacts DEF FramesInv, RingInv, TypeOK, Counted
    <2>2. QED
        BY <2>1
<1>5. PICK w \in Nat, f \in Int : w = Waiting /\ f = frame
    BY <1>4
<1>6. /\ Queue(w + 1, f + 1) = Append(Queue(w, f), f) /\ Len(Queue(w, f)) = w
      /\ Queue(0, f + 1) = << >>
    <2>1. f + 1 \in Int
        OBVIOUS
    <2>2. Queue(0, f + 1) = << >>
        BY <2>1, QueueEmpty
    <2>3. QED
        BY <2>2, QueueAppend, QueueLength
<1>7. /\ Queue(Waiting, frame)' \in {<< >>, Append(Queue(Waiting, frame), frame)}
      /\ Len(Queue(Waiting, frame)) = Waiting
    BY <1>1, <1>3, <1>5, <1>6 DEF Queue
<1>8. QED
    BY <1>1, <1>2, <1>3, <1>7 DEF Frames!Overflow, Queue, LastSent

(* ADC_START: the queue begins, with no room if there are no channels.     *)
LEMMA BeginStep ==
    ASSUME FramesInv, CommandStart
    PROVE  Frames!Begin
<1>1. ~ADIE /\ ADIE' = TRUE /\ frame' = frame /\ first' = frame /\ sent' = << >> /\ adc_nchans' = adc_cfg
    BY DEF CommandStart, FramesInv, RingInv, Converting
<1>2. Queued' = << >>
    <2>1. Waiting' = 0 /\ frame \in Int
        BY StartKeepsFrames DEF FramesInv, RingInv, TypeOK
    <2>2. PICK f \in Int : f = frame
        BY <2>1
    <2>3. Queue(0, f) = << >>
        BY QueueEmpty
    <2>4. QED
        BY <1>1, <2>1, <2>2, <2>3 DEF Queued, Queue
<1>3. Room(adc_nchans)' \in { Room(n) : n \in Channels }
    <2>1. adc_cfg \in Channels
        BY DEF FramesInv, RingInv, TypeOK
    <2>2. Room(adc_nchans)' = Room(adc_cfg)
        BY <1>1 DEF Room
    <2>3. QED
        BY <2>1, <2>2
<1>4. (ADIE /\ ~Empty)' = (Room(adc_nchans)' > 0)
    <2>1. FramesInv'
        BY StartKeepsFrames
    <2>2. TypeOK'
        BY <2>1 DEF FramesInv, RingInv
    <2>3. Roomed'
        BY <2>2, RoomIsSlots, PTL
    <2>4. QED
        BY <1>1, <2>3 DEF Roomed
<1>5. LastSent' = NoFrame
    BY <1>1 DEF LastSent
<1>6. Taking' \in Nat /\ Taking' >= Taking
    <2>1. frame \in 0 .. MaxFrames /\ first \in 0 .. frame /\ MaxFrames \in Nat
        BY RingAssumption DEF FramesInv, RingInv, TypeOK
    <2>2. Taking' = frame
        BY <1>1 DEF Taking
    <2>3. QED
        BY <2>1, <2>2 DEF Taking
<1>7. QED
    BY <1>1, <1>2, <1>3, <1>4, <1>5, <1>6 DEF Frames!Begin, Queued, Queue, Taking, LastSent

(* The frame that has been copied goes to the host: it is whole, and the   *)
(* oldest one.                                                             *)
LEMMA HandOverStep ==
    ASSUME FramesInv, ArmFrame, ~Empty
    PROVE  Frames!HandOver
<1>1. /\ main = "copy" /\ copied = adc_one_buf_size
      /\ sent' = ep2.packet.pairs
      /\ UNCHANGED <<adc_nchans, first, frame, ADIE>>
    BY DEF ArmFrame, ring, flags
<1>2. Room(adc_nchans)' = Room(adc_nchans) /\ adc_one_buf_size' = adc_one_buf_size /\ Empty' = FALSE
    BY <1>1 DEF Room, Empty, adc_one_buf_size
<1>3. /\ Waiting' = Waiting - 1 /\ Waiting \in Nat \ {0} /\ frame \in Int
    <2>1. Waiting' = Waiting - 1 /\ Waiting >= 1
        BY MainLoopCounts DEF FramesInv, ArmFrame, CommandStart, CommandReceived, MainLoop
    <2>2. Waiting \in 0 .. adc_nbufs /\ adc_nbufs \in Nat \ {0} /\ frame \in 0 .. MaxFrames
        BY WaitingValue, RingFacts DEF FramesInv, RingInv, TypeOK, Counted
    <2>3. QED
        BY <2>1, <2>2
<1>4. adc_one_buf_size = adc_nchans + 1 /\ adc_nchans \in 1 .. 8
    <2>1. adc_one_buf_size = adc_nchans + 1 /\ adc_nchans \in 0 .. 8
        BY RingFacts DEF FramesInv, RingInv
    <2>2. adc_nchans # 0
        BY DEF Empty
    <2>3. QED
        BY <2>1, <2>2
<1>5. PICK w \in Nat \ {0}, f \in Int, n \in 1 .. 8, a \in Int : w = Waiting /\ f = frame /\ n = adc_nchans /\ a = f - w
    BY <1>3, <1>4
<1>6. Holds(adc_out, a, n)
    <2>1. adc_out \in 0 .. adc_nbufs - 1 /\ Behind(adc_out) = Waiting
        BY <1>1, CopiedIsOldest DEF FramesInv, RingInv
    <2>2. PICK o \in 0 .. adc_nbufs - 1 : o = adc_out
        BY <2>1
    <2>3. Holds(o, frame - Behind(o), adc_nchans)
        BY <1>5, <2>1, <2>2 DEF FramesInv, Kept
    <2>4. QED
        BY <1>5, <2>1, <2>2, <2>3
<1>7. PICK pairs \in Seq(Cell) : pairs = ep2.packet.pairs
    BY DEF FramesInv, RingInv, TypeOK, Packet
<1>8. Len(pairs) = n + 1 /\ \A k \in 1 .. n + 1 : pairs[k] = PairOf(adc_out, k - 1)
    BY <1>1, <1>4, <1>5, <1>7 DEF FramesInv, Copied
<1>9. /\ pairs[1] = Header((a - first) % RecNumbers)
      /\ \A k \in 1 .. n : pairs[k + 1] = <<k, a>>
    <2>1. pairs[1] = PairOf(adc_out, 0)
        BY <1>8
    <2>2. ASSUME NEW k \in 1 .. n
          PROVE  pairs[k + 1] = <<k, a>>
        <3>1. PICK l \in 1 .. n + 1 : l = k + 1 /\ l - 1 = k
            OBVIOUS
        <3>2. pairs[l] = PairOf(adc_out, k)
            BY <1>8, <3>1
        <3>3. QED
            BY <1>6, <3>1, <3>2 DEF Holds
    <2>3. QED
        BY <1>6, <2>1, <2>2 DEF Holds
<1>10. pairs # << >> /\ pairs[2][2] = a
    <2>1. pairs # << >>
        BY <1>8
    <2>2. 1 \in 1 .. n
        OBVIOUS
    <2>3. pairs[1 + 1] = <<1, a>>
        BY <1>9, <2>2
    <2>4. QED
        BY <2>1, <2>3
<1>11. Whole(sent)' /\ sent'[2][2] = a /\ sent' # << >>
    BY <1>1, <1>2, <1>4, <1>5, <1>7, <1>8, <1>9, <1>10 DEF Whole
<1>12. LastSent' = a
    BY <1>2, <1>11 DEF LastSent
<1>13. /\ Queue(w, f) # << >> /\ Head(Queue(w, f)) = a /\ Tail(Queue(w, f)) = Queue(w - 1, f)
    BY <1>5, QueueHead
<1>14. /\ Queue(Waiting, frame) # << >> /\ LastSent' = Head(Queue(Waiting, frame))
       /\ Queue(Waiting, frame)' = Tail(Queue(Waiting, frame))
    BY <1>1, <1>3, <1>5, <1>12, <1>13 DEF Queue
<1>15. QED
    BY <1>1, <1>2, <1>14 DEF Frames!HandOver, Queue, LastSent

(* Without channels nothing but a start is seen.                           *)
LEMMA EmptyStep ==
    ASSUME FramesInv, [Next]_vars, Empty, ~CommandStart
    PROVE  UNCHANGED <<Queued, Taking, ADIE /\ ~Empty, Room(adc_nchans), LastSent>>
<1>1. UNCHANGED <<adc_nchans, first>>
    <2>1. CASE UNCHANGED vars
        BY <2>1 DEF vars, ring
    <2>2. CASE Interrupt
        BY <2>2 DEF Interrupt, InterruptNextChannel, InterruptNextFrame, InterruptOverrun
    <2>3. CASE MainLoop \/ HostIn
        <3>1. UNCHANGED ring
            BY <2>3, MainLoopCounts DEF FramesInv
        <3>2. QED
            BY <3>1 DEF ring
    <2>4. QED
        BY <2>1, <2>2, <2>3 DEF Next
<1>2. Empty = TRUE /\ Empty' = TRUE
    BY <1>1 DEF Empty
<1>3. QED
    BY <1>1, <1>2 DEF Queued, Taking, Room, LastSent

(* Every step of the firmware is a step of the queue or none.              *)
LEMMA FramesNext ==
    ASSUME FramesInv, [Next]_vars
    PROVE  \/ Frames!Next
           \/ UNCHANGED <<Queued, Taking, ADIE /\ ~Empty, Room(adc_nchans), LastSent>>
<1>1. CASE UNCHANGED vars
    BY <1>1 DEF vars, ring, flags, loop, Queued, Queue, Taking, Room, LastSent, Whole, Waiting, NextOut, Empty,
                adc_nbufs, adc_one_buf_size
<1>2. CASE Empty /\ ~CommandStart
    BY <1>2, EmptyStep
<1>3. CASE InterruptNextFrame /\ ~Empty
    BY <1>3, TakeStep DEF Frames!Next
<1>4. CASE InterruptOverrun /\ ~Empty
    BY <1>4, OverflowStep DEF Frames!Next
<1>5. CASE CommandStart
    BY <1>5, BeginStep DEF Frames!Next
<1>6. CASE ArmFrame /\ ~Empty
    BY <1>6, HandOverStep DEF Frames!Next
<1>7. CASE InterruptNextChannel
    BY <1>7 DEF InterruptNextChannel, flags, loop, Queued, Queue, Taking, Room, LastSent, Whole, Waiting,
                NextOut, Empty, adc_nbufs, adc_one_buf_size
<1>8. CASE (MainLoop \/ HostIn) /\ ~CommandStart /\ ~ArmFrame
    <2>1. Waiting' = Waiting /\ UNCHANGED ring
        BY <1>8, MainLoopCounts DEF FramesInv
    <2>2. UNCHANGED <<adc_nchans, first, frame>>
        BY <2>1 DEF ring
    <2>3. sent' = sent
        BY <1>8 DEF MainLoop, DispatchNothing, DispatchOverrun, DispatchFrame, CopyPair, Advance, Wrap,
           NoCommand, ArmAnswer, Command, CommandConf, CommandStop, CommandId, CommandError, Deconfigure,
           Configure, HostIn, loop
    <2>4. UNCHANGED <<Queued, Taking, Room(adc_nchans), LastSent>> /\ Empty' = Empty
        BY <2>1, <2>2, <2>3 DEF Queued, Queue, Taking, Room, LastSent, Whole, Empty, adc_one_buf_size
    <2>5. CASE CommandStop
        <3>1. ADIE' = FALSE
            BY <2>5 DEF CommandStop
        <3>2. QED
            BY <2>4, <3>1 DEF Frames!Next, Frames!Halt, Queued, Queue, Taking, LastSent
    <2>6. CASE ~CommandStop
        <3>1. ADIE' = ADIE
            BY <1>8, <2>6 DEF MainLoop, DispatchNothing, DispatchOverrun, DispatchFrame, CopyPair, Advance,
               Wrap, NoCommand, ArmAnswer, Command, CommandConf, CommandId, CommandError, Deconfigure,
               Configure, HostIn, flags
        <3>2. QED
            BY <2>4, <3>1
    <2>7. QED
        BY <2>5, <2>6
<1>9. QED
    BY <1>1, <1>2, <1>3, <1>4, <1>5, <1>6, <1>7, <1>8 DEF Next, Interrupt, MainLoop, Command

(* The firmware keeps the promise of FrameQueue: the frames it hands to    *)
(* the host are whole, carry their number, and come in the order they were *)
(* taken, none missing and none twice, until the ring is full.             *)
THEOREM KeepsFrames == Spec => FramesSpec
<1>1. FramesInv /\ [Next]_vars =>
          [Frames!Next]_<<IF Empty THEN << >> ELSE [i \in 1 .. Waiting |-> frame - Waiting + i - 1],
                          IF Empty THEN first ELSE frame, ADIE /\ ~Empty, Room(adc_nchans),
                          IF sent = << >> \/ Empty THEN NoFrame
                          ELSE IF Whole(sent) THEN sent[2][2] ELSE Torn>>
    BY FramesNext DEF Queued, Queue, Taking, LastSent
<1>2. QED
    BY <1>1, FramesStart, FramesCorrect, PTL DEF Spec, FramesSpec, Frames!Spec
=============================================================================
