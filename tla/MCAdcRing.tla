----------------------------- MODULE MCAdcRing -----------------------------
(* Small instances of AdcRing for TLC: rings of three slots for frames of  *)
(* one channel, two for frames of two, six for an empty list, with which   *)
(* the pointer, modulo eight pairs, soon leaves the ring.                  *)
EXTENDS AdcRing

ZeroToTwo == {0, 1, 2}
=============================================================================
