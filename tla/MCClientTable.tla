--------------------------- MODULE MCClientTable ---------------------------
(* Small instances of ClientTable for TLC: two threads, of two programs or *)
(* of one, that ask for two channels.                                      *)
EXTENDS ClientTable, TLC

CONSTANTS t1, t2, p, q, a1, a2

TwoThreads == {t1, t2}
TwoPids    == [t \in TwoThreads |-> IF t = t1 THEN p ELSE q]
OnePid     == [t \in TwoThreads |-> p]

TwoAddresses == {a1, a2}

(* Addresses may be renamed, and the two threads swapped together with     *)
(* their programs.                                                         *)
Swap     == (t1 :> t2) @@ (t2 :> t1) @@ (p :> q) @@ (q :> p)
Same     == [x \in DOMAIN Swap |-> x]
Renaming == { f @@ g : f \in Permutations(Addresses), g \in {Same, Swap} }

Proper == {<<1, 0, 0, 1, 0, 0, 0>>}

(* What tells states apart: that packets come is of no use once the device *)
(* goes.                                                                   *)
Coming == flow /\ teardown = "none"
View   == <<heap, Coming, cb, cb_slot, cb_client, lost, exit, threads, twice>>

-----------------------------------------------------------------------------
(* Sampling against reference definitions, over bounded inputs.            *)

(* The converter samples exactly the channels that the driver counts with. *)
ASSUME ChannelsAgree == adc_nchans(chns) = USB_AD_CHANNELS_NUM

(* choose_bytes fails exactly for flags that are neither 0 nor 1.          *)
ASSUME OddFlagsFail ==
    \A flags \in [1 .. USB_AD_CHANNELS_NUM -> {0, 1, 2}] :
       ChooseFails(flags, adc_one_buf_size(chns)) <=> \E i \in DOMAIN flags : flags[i] > 1

(* A packet that is one sample short fails exactly who asked for the last  *)
(* channel.                                                                *)
ASSUME ShortPacketFails ==
    \A flags \in [1 .. USB_AD_CHANNELS_NUM -> {0, 1}] :
       ChooseFails(flags, adc_one_buf_size(chns) - 2) <=> flags[USB_AD_CHANNELS_NUM] = 1

(* init_client tests all that buffer_init tests, as long as the product of *)
(* its sizes fits in an int; one that does not fit wraps.                  *)
ASSUME AcceptedHasRows ==
    \A buffer_size \in -20 .. 80, flags \in [1 .. 3 -> {0, 1, 2}], requested_fq \in {-1, 0, 1, 7, 8} :
       LET size == buffer_size * channels_count(flags) * 2
       IN  /\ InitAccepts(7, requested_fq, buffer_size, flags, 512)
                 <=> size > 0 /\ requested_fq \in 1 .. 7
           /\ InitAccepts(7, requested_fq, buffer_size, flags, 512)
                 => BufferAccepts(2 * channels_count(flags), buffer_size, round_div(7, requested_fq))
           /\ AsInt(size + 1024, 512) = size

(* The divider bits are the exponent of a power of 2.                      *)
ASSUME DividerHalves ==
    \A high \in {0, 1, 63, 64, 255}, low \in {0, 1, 127, 255}, divider \in 0 .. 3 :
       usb_ad_fq(high, low, divider) = (high * 128 + low) \div 2 ^ divider

(* round_div leaves a remainder of at most half the divisor.               *)
ASSUME RoundedToNearest ==
    \A a \in 0 .. 60, b \in 1 .. 20 :
       2 * (a - b * round_div(a, b)) \in (1 - b) - 1 .. b - 1
=============================================================================
