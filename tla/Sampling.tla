------------------------------ MODULE Sampling ------------------------------
(***************************************************************************)
(* The arithmetic of sampling: the frequency and the channels that the     *)
(* driver sets the converter to (ad_initialize, usb_ad_fq), how the        *)
(* converter counts them (adc_init), how the frequency is divided for a    *)
(* client (round_div), which clients are accepted (init_client), and what  *)
(* they get of each packet (choose_bytes).                                 *)
(***************************************************************************)
EXTENDS Integers, FiniteSets

USB_AD_CHANNELS_NUM           == 7
USB_AD_CLIENT_BUFFER_MAX_SIZE == 1024

(* Of the two bytes and the divider that ad_initialize sends.              *)
usb_ad_fq(high, low, divider) ==
    LET res == high * 128 + low
    IN  CASE divider % 4 = 3 -> res \div 8
          [] divider % 4 = 1 -> res \div 2
          [] divider % 4 = 2 -> res \div 4
          [] OTHER -> res

(* The channels that ad_initialize sends: a number over 15 ends the list.  *)
chns == <<0, 1, 2, 3, 4, 8, 9, 32>>

(* The channels that adc_init counts in a list, ...                        *)
adc_nchans(list) ==
    CHOOSE n \in 0 .. 8 :
       /\ \A i \in 1 .. n : list[i] < 16
       /\ n < 8 => list[n + 1] >= 16

(* ... and the size of the packets it makes of them: a header and two      *)
(* bytes for each channel.                                                 *)
adc_one_buf_size(list) == 2 * adc_nchans(list) + 2

(* The last digit of the quotient of a * 10 decides; a frequency is at     *)
(* most usb_ad_fq(255, 255, 0), so that a * 10 fits in an unsigned int.    *)
round_div(a, b) ==
    LET amult == (a * 10) \div b
    IN  IF amult % 10 >= 5 THEN amult \div 10 + 1 ELSE amult \div 10

(* Every flag but 0 counts.                                                *)
channels_count(channels) == Cardinality({ i \in DOMAIN channels : channels[i] # 0 })

(* An int of which half the values are negative wraps beyond them.         *)
AsInt(x, half) == ((x + half) % (2 * half)) - half

(* init_client accepts a frequency that the converter has, and buffers     *)
(* whose size in bytes, which it computes as an int, is in range, ...      *)
InitAccepts(fq, requested_fq, buffer_size, channels, half) ==
    /\ requested_fq \in 1 .. fq
    /\ AsInt(buffer_size * channels_count(channels) * 2, half) \in 1 .. USB_AD_CLIENT_BUFFER_MAX_SIZE - 1

(* ... and has buffer_init, with tests of its own, make two of them.       *)
BufferAccepts(row_size, row_count, avg_divisor) ==
    row_size > 0 /\ row_count > 0 /\ avg_divisor > 0

(* choose_bytes takes the samples of the channels whose flag is 1, from a  *)
(* packet of size bytes; sample i begins at byte 2 * i.  It fails unless   *)
(* they are as many as channels_count says.                                *)
Chosen(channels, size) == { i \in DOMAIN channels : channels[i] = 1 /\ 2 * i < size }

ChooseFails(channels, size) == Cardinality(Chosen(channels, size)) # channels_count(channels)
=============================================================================
