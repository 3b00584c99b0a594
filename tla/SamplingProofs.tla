--------------------------- MODULE SamplingProofs ---------------------------
(***************************************************************************)
(* What round_div computes, for all arguments, and what it is given; how   *)
(* many channels driver and firmware count; which clients init_client      *)
(* accepts, and which choose_bytes fails for.                              *)
(***************************************************************************)
EXTENDS Sampling, Arithmetic, FiniteSetTheorems

(* round_div is the integer nearest to a / b, and of two the larger one:   *)
(* the one decimal place that it looks at decides correctly.               *)
THEOREM RoundDivNearest ==
    ASSUME NEW a \in Nat, NEW b \in Nat \ {0}
    PROVE  round_div(a, b) = (2 * a + b) \div (2 * b)
<1> DEFINE t == (a * 10) \div b
           d == t \div 10
           l == t % 10
           s == (a * 10) % b
<1>1. t \in Nat /\ s \in 0 .. b - 1 /\ a * 10 = b * t + s
    <2>1. a * 10 \in Nat
        OBVIOUS
    <2>2. QED
        BY <2>1, Division
<1> HIDE DEF t, s
<1>2. d \in Nat /\ l \in 0 .. 9 /\ t = 10 * d + l
    BY <1>1, Division
<1> HIDE DEF d, l
<1>3. b * t = 10 * (b * d) + b * l
    BY <1>1, <1>2
<1>4. b * d \in Int /\ b * l \in Int /\ s \in Int
    BY <1>1, <1>2
<1>5. CASE l >= 5
    <2>1. b * 5 <= b * l /\ b * l <= b * 9
        BY <1>2, <1>5, TimesMonotonic
    <2>2. (2 * b) * (d + 1) = 2 * (b * d) + 2 * b
        BY <1>2
    <2>3. (2 * b) * (d + 1 + 1) = 2 * (b * d) + 4 * b
        BY <1>2
    <2>4. (2 * b) * (d + 1) <= 2 * a + b /\ 2 * a + b < (2 * b) * (d + 1 + 1)
        BY <1>1, <1>3, <1>4, <2>1, <2>2, <2>3
    <2>5. (2 * a + b) \div (2 * b) = d + 1
        BY <1>2, <2>4, QuotientUnique
    <2>6. round_div(a, b) = d + 1
        BY <1>5 DEF round_div, t, d, l
    <2>7. QED
        BY <2>5, <2>6
<1>6. CASE l < 5
    <2>1. b * 0 <= b * l /\ b * l <= b * 4
        BY <1>2, <1>6, TimesMonotonic
    <2>2. (2 * b) * d = 2 * (b * d)
        BY <1>2
    <2>3. (2 * b) * (d + 1) = 2 * (b * d) + 2 * b
        BY <1>2
    <2>4. (2 * b) * d <= 2 * a + b /\ 2 * a + b < (2 * b) * (d + 1)
        BY <1>1, <1>3, <1>4, <2>1, <2>2, <2>3
    <2>5. (2 * a + b) \div (2 * b) = d
        BY <1>2, <2>4, QuotientUnique
    <2>6. round_div(a, b) = d
        BY <1>2, <1>6 DEF round_div, t, d, l
    <2>7. QED
        BY <2>5, <2>6
<1>7. QED
    BY <1>2, <1>5, <1>6

(* The divisor that init_client gives to buffer_init is positive for every *)
(* frequency that passed its own test: buffer_init, which refuses a        *)
(* divisor of 0, never refuses a frequency in range.                       *)
THEOREM DivisorPositive ==
    ASSUME NEW fq \in Nat, NEW requested_fq \in 1 .. fq
    PROVE  round_div(fq, requested_fq) >= 1
<1> DEFINE x == 2 * fq + requested_fq
           y == 2 * requested_fq
           q == x \div y
<1>1. requested_fq \in Nat \ {0} /\ x \in Nat /\ y \in Nat \ {0} /\ y <= x
    OBVIOUS
<1>2. round_div(fq, requested_fq) = q
    BY <1>1, RoundDivNearest
<1> HIDE DEF x, y
<1>3. q \in Nat /\ x % y \in 0 .. y - 1 /\ x = y * q + (x % y)
    BY <1>1, Division
<1> HIDE DEF q
<1>4. q # 0
    <2>1. SUFFICES ASSUME q = 0 PROVE FALSE
        OBVIOUS
    <2>2. y * q = 0
        BY <1>1, <2>1
    <2>3. QED
        BY <1>1, <1>3, <2>2
<1>5. QED
    BY <1>2, <1>3, <1>4

(* Nor is it greater than the frequency that is divided.                   *)
LEMMA DivisorBounded ==
    ASSUME NEW fq \in Nat, NEW requested_fq \in 1 .. fq
    PROVE  round_div(fq, requested_fq) \in Nat /\ round_div(fq, requested_fq) <= fq
<1> DEFINE x == 2 * fq + requested_fq
           y == 2 * requested_fq
           q == x \div y
<1>1. requested_fq \in Nat \ {0} /\ x \in Nat /\ y \in Nat \ {0}
    OBVIOUS
<1>2. round_div(fq, requested_fq) = q
    BY <1>1, RoundDivNearest
<1>3. x < 2 * (fq * requested_fq) + y
    <2>1. fq * 1 <= fq * requested_fq
        BY <1>1, TimesMonotonic
    <2>2. fq * requested_fq \in Nat
        BY <1>1
    <2>3. QED
        BY <1>1, <2>1, <2>2
<1>4. y * (fq + 1) = 2 * (fq * requested_fq) + y
    BY <1>1
<1> HIDE DEF x, y
<1>5. q \in Nat /\ x % y \in 0 .. y - 1 /\ x = y * q + (x % y)
    BY <1>1, Division
<1> HIDE DEF q
<1>6. SUFFICES ASSUME q >= fq + 1 PROVE FALSE
    BY <1>2, <1>5
<1>7. y * (fq + 1) <= y * q
    BY <1>1, <1>5, <1>6, TimesMonotonic
<1>8. y * q \in Nat /\ y * (fq + 1) \in Nat
    BY <1>1, <1>5
<1>9. QED
    BY <1>1, <1>3, <1>4, <1>5, <1>7, <1>8

(* A quotient is not greater than the dividend.                            *)
LEMMA QuotientSmaller ==
    ASSUME NEW a \in Nat, NEW k \in Nat \ {0}
    PROVE  a \div k \in 0 .. a
<1> DEFINE q == a \div k
<1>1. q \in Nat /\ a % k \in 0 .. k - 1 /\ a = k * q + (a % k)
    BY Division
<1> HIDE DEF q
<1>2. q * 1 <= q * k
    BY <1>1, TimesMonotonic
<1>3. q * k = k * q /\ k * q \in Nat
    BY <1>1
<1>4. q <= a
    BY <1>1, <1>2, <1>3
<1>5. QED
    BY <1>1, <1>4 DEF q

(* usb_ad_fq is made of two bytes: it is 255 * 128 + 255 at most, and ten  *)
(* times as much, which round_div computes, does not wrap; nor does the    *)
(* divisor exceed what the int that round_div returns can hold.            *)
THEOREM FrequencyFits ==
    ASSUME NEW high \in 0 .. 255, NEW low \in 0 .. 255, NEW divider \in 0 .. 255,
           NEW requested_fq \in 1 .. usb_ad_fq(high, low, divider)
    PROVE  /\ usb_ad_fq(high, low, divider) <= 255 * 128 + 255
           /\ round_div(usb_ad_fq(high, low, divider), requested_fq) <= 255 * 128 + 255
<1> DEFINE res == high * 128 + low
<1>1. res \in Nat /\ res <= 255 * 128 + 255
    OBVIOUS
<1>2. usb_ad_fq(high, low, divider) \in {res, res \div 2, res \div 4, res \div 8}
    <2>1. divider % 4 = 3 => usb_ad_fq(high, low, divider) = res \div 8
        BY DEF usb_ad_fq, res
    <2>2. divider % 4 = 1 => usb_ad_fq(high, low, divider) = res \div 2
        BY DEF usb_ad_fq, res
    <2>3. divider % 4 = 2 => usb_ad_fq(high, low, divider) = res \div 4
        BY DEF usb_ad_fq, res
    <2>4. divider % 4 \notin {1, 2, 3} => usb_ad_fq(high, low, divider) = res
        BY DEF usb_ad_fq, res
    <2>5. QED
        BY <2>1, <2>2, <2>3, <2>4
<1> HIDE DEF res
<1>3. PICK fq : fq = usb_ad_fq(high, low, divider)
    OBVIOUS
<1>4. \A k \in {2, 4, 8} : res \div k \in 0 .. res
    BY <1>1, QuotientSmaller
<1>5. fq \in Nat /\ fq <= res
    BY <1>1, <1>2, <1>3, <1>4
<1>6. requested_fq \in 1 .. fq
    BY <1>3
<1>7. round_div(fq, requested_fq) <= fq /\ round_div(fq, requested_fq) \in Int
    BY <1>5, <1>6, DivisorBounded
<1>8. fq <= 255 * 128 + 255 /\ round_div(fq, requested_fq) <= 255 * 128 + 255
    BY <1>1, <1>5, <1>7
<1>9. QED
    BY <1>3, <1>8

(* Driver and firmware count the same channels: of the list ad_initialize  *)
(* sends, adc_init takes as many as the driver has flags for, so that a    *)
(* packet has a sample for each.                                           *)
THEOREM ChannelsCounted ==
    /\ adc_nchans(chns) = USB_AD_CHANNELS_NUM
    /\ adc_one_buf_size(chns) = 2 * USB_AD_CHANNELS_NUM + 2
<1> DEFINE Counts(n) == /\ \A i \in 1 .. n : chns[i] < 16
                        /\ n < 8 => chns[n + 1] >= 16
<1>1. /\ chns[1] = 0 /\ chns[2] = 1 /\ chns[3] = 2 /\ chns[4] = 3
      /\ chns[5] = 4 /\ chns[6] = 8 /\ chns[7] = 9 /\ chns[8] = 32
    BY DEF chns
<1>2. Counts(7)
    <2>1. \A i \in 1 .. 7 : i \in {1, 2, 3, 4, 5, 6, 7}
        OBVIOUS
    <2>2. QED
        BY <1>1, <2>1
<1>3. \A n \in 0 .. 8 : Counts(n) => n = 7
    <2>1. \A n \in 0 .. 8 : n \in {0, 1, 2, 3, 4, 5, 6, 7, 8}
        OBVIOUS
    <2>2. ~Counts(0) /\ ~Counts(1) /\ ~Counts(2) /\ ~Counts(3)
        BY <1>1
    <2>3. ~Counts(4) /\ ~Counts(5) /\ ~Counts(6) /\ ~Counts(8)
        BY <1>1
    <2>4. QED
        BY <2>1, <2>2, <2>3
<1>4. adc_nchans(chns) = 7
    BY <1>2, <1>3 DEF adc_nchans
<1>5. QED
    BY <1>4 DEF adc_one_buf_size, USB_AD_CHANNELS_NUM

(* choose_bytes fails for a client exactly when it asked for a channel     *)
(* with a flag over 1, which init_client counts and choose_bytes does not  *)
(* take, or for a channel whose sample is beyond the end of the packet.    *)
THEOREM ChooseFailsWhen ==
    ASSUME NEW n \in Nat, NEW flags \in [1 .. n -> 0 .. 255], NEW size \in Nat
    PROVE  ChooseFails(flags, size)
              <=> \E i \in 1 .. n : flags[i] > 1 \/ (flags[i] = 1 /\ 2 * i >= size)
<1> DEFINE Counted == { i \in DOMAIN flags : flags[i] # 0 }
           Taken   == Chosen(flags, size)
<1>1. DOMAIN flags = 1 .. n /\ IsFiniteSet(1 .. n)
    BY FS_Interval
<1>2. Counted \subseteq 1 .. n /\ Taken \subseteq Counted
    BY <1>1 DEF Chosen
<1>3. IsFiniteSet(Counted)
    BY <1>1, <1>2, FS_Subset
<1>4. Cardinality(Taken) = Cardinality(Counted) <=> Taken = Counted
    BY <1>2, <1>3, FS_Subset
<1>5. ChooseFails(flags, size) <=> Taken # Counted
    BY <1>4 DEF ChooseFails, channels_count
<1>6. ASSUME NEW i \in 1 .. n
      PROVE  i \in Counted /\ i \notin Taken <=> flags[i] > 1 \/ (flags[i] = 1 /\ 2 * i >= size)
    <2>1. i \in Counted <=> flags[i] # 0
        BY <1>1
    <2>2. i \in Taken <=> flags[i] = 1 /\ 2 * i < size
        BY <1>1 DEF Chosen
    <2>3. PICK k \in 0 .. 255 : k = flags[i]
        OBVIOUS
    <2>4. PICK b \in Nat : b = 2 * i
        OBVIOUS
    <2>5. k # 0 /\ ~(k = 1 /\ b < size) <=> k > 1 \/ (k = 1 /\ b >= size)
        OBVIOUS
    <2>6. QED
        BY <2>1, <2>2, <2>3, <2>4, <2>5
<1> HIDE DEF Counted, Taken
<1>7. QED
    BY <1>2, <1>5, <1>6

(* From a whole packet choose_bytes fails exactly for those who set a flag *)
(* that is neither 0 nor 1: ad_read_bulk_callback drops the packet for     *)
(* every client that follows such a one in the table.                      *)
THEOREM OddFlagsFail ==
    ASSUME NEW flags \in [1 .. USB_AD_CHANNELS_NUM -> 0 .. 255]
    PROVE  ChooseFails(flags, adc_one_buf_size(chns))
              <=> \E i \in 1 .. USB_AD_CHANNELS_NUM : flags[i] > 1
<1>1. USB_AD_CHANNELS_NUM = 7 /\ adc_one_buf_size(chns) = 16
    BY ChannelsCounted DEF USB_AD_CHANNELS_NUM
<1>2. ChooseFails(flags, 16) <=> \E i \in 1 .. 7 : flags[i] > 1 \/ (flags[i] = 1 /\ 2 * i >= 16)
    BY <1>1, ChooseFailsWhen
<1>3. \A i \in 1 .. 7 : ~(2 * i >= 16)
    OBVIOUS
<1>4. QED
    BY <1>1, <1>2, <1>3

(* From a packet that is one sample short it fails for those, and for      *)
(* whoever asked for the last channel.                                     *)
THEOREM ShortPacketFails ==
    ASSUME NEW flags \in [1 .. USB_AD_CHANNELS_NUM -> 0 .. 255]
    PROVE  ChooseFails(flags, adc_one_buf_size(chns) - 2)
              <=> \/ \E i \in 1 .. USB_AD_CHANNELS_NUM : flags[i] > 1
                  \/ flags[USB_AD_CHANNELS_NUM] = 1
<1>1. USB_AD_CHANNELS_NUM = 7 /\ adc_one_buf_size(chns) - 2 = 14
    BY ChannelsCounted DEF USB_AD_CHANNELS_NUM
<1>2. ChooseFails(flags, 14) <=> \E i \in 1 .. 7 : flags[i] > 1 \/ (flags[i] = 1 /\ 2 * i >= 14)
    BY <1>1, ChooseFailsWhen
<1>3. \A i \in 1 .. 7 : 2 * i >= 14 <=> i = 7
    OBVIOUS
<1>4. QED
    BY <1>1, <1>2, <1>3
LEMMA DivisorAccepted ==
    ASSUME NEW fq \in Nat, NEW requested_fq \in 1 .. fq
    PROVE  round_div(fq, requested_fq) > 0
BY DivisorPositive, DivisorBounded

(* A number that fits in an int is not changed by being stored in one.     *)
LEMMA IntKept ==
    ASSUME NEW half \in Nat \ {0}, NEW x \in Int, -half <= x, x < half
    PROVE  AsInt(x, half) = x
<1>1. 2 * half \in Nat \ {0} /\ x + half \in 0 .. 2 * half - 1
    OBVIOUS
<1>2. x + half = (2 * half) * 0 + (x + half)
    BY <1>1
<1>3. (x + half) % (2 * half) = x + half
    BY <1>1, <1>2, RemainderUnique
<1>4. QED
    BY <1>1, <1>3 DEF AsInt

(* As long as the size of its buffers fits in an int, init_client accepts  *)
(* a client exactly when its frequency is in range and its buffers take    *)
(* from 1 to 1023 bytes; and buffer_init does not refuse what init_client  *)
(* has accepted, so that no client is left with one buffer.                *)
THEOREM InitAcceptsWhen ==
    ASSUME NEW fq \in Nat, NEW requested_fq \in Int, NEW buffer_size \in Int,
           NEW n \in Nat, NEW flags \in [1 .. n -> 0 .. 255], NEW half \in Nat \ {0},
           -half <= buffer_size * channels_count(flags) * 2,
           buffer_size * channels_count(flags) * 2 < half
    PROVE  /\ InitAccepts(fq, requested_fq, buffer_size, flags, half)
                 <=> /\ requested_fq \in 1 .. fq
                     /\ buffer_size * channels_count(flags) * 2 \in 1 .. 1023
           /\ InitAccepts(fq, requested_fq, buffer_size, flags, half)
                 => BufferAccepts(channels_count(flags) * 2, buffer_size, round_div(fq, requested_fq))
<1> DEFINE Counted == { i \in DOMAIN flags : flags[i] # 0 }
           k == channels_count(flags)
           bytes == buffer_size * k * 2
<1>1. k \in Nat
    <2>1. IsFiniteSet(DOMAIN flags) /\ Counted \subseteq DOMAIN flags
        BY FS_Interval
    <2>2. IsFiniteSet(Counted)
        BY <2>1, FS_Subset
    <2>3. QED
        BY <2>2, FS_CardinalityType DEF channels_count
<1> HIDE DEF k
<1>2. bytes \in Int /\ AsInt(bytes, half) = bytes
    <2>1. bytes \in Int
        BY <1>1
    <2>2. -half <= bytes /\ bytes < half
        BY DEF k
    <2>3. QED
        BY <2>1, <2>2, IntKept
<1>3. InitAccepts(fq, requested_fq, buffer_size, flags, half)
          <=> requested_fq \in 1 .. fq /\ bytes \in 1 .. 1023
    BY <1>2 DEF InitAccepts, USB_AD_CLIENT_BUFFER_MAX_SIZE, k
<1> HIDE DEF bytes
<1>4. ASSUME bytes > 0
      PROVE  k * 2 > 0 /\ buffer_size > 0
    <2>1. bytes = 2 * (k * buffer_size) /\ k * buffer_size \in Int
        BY <1>1 DEF bytes
    <2>2. k # 0
        <3>1. k = 0 => k * buffer_size = 0
            OBVIOUS
        <3>2. QED
            BY <1>4, <2>1, <3>1
    <2>3. buffer_size > 0
        <3>1. SUFFICES ASSUME buffer_size <= 0 PROVE FALSE
            OBVIOUS
        <3>2. k * buffer_size <= k * 0
            BY <1>1, <3>1, TimesMonotonic
        <3>3. QED
            BY <1>1, <1>4, <2>1, <3>2
    <2>4. QED
        BY <1>1, <2>2, <2>3
<1>5. ASSUME requested_fq \in 1 .. fq, bytes \in 1 .. 1023
      PROVE  BufferAccepts(k * 2, buffer_size, round_div(fq, requested_fq))
    <2>1. bytes > 0
        BY <1>2, <1>5
    <2>2. round_div(fq, requested_fq) > 0
        BY <1>5, DivisorAccepted, Zenon
    <2>3. QED
        BY <1>4, <2>1, <2>2 DEF BufferAccepts
<1>6. QED
    BY <1>3, <1>5 DEF k, bytes
=============================================================================
