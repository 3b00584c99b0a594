---------------------------- MODULE MCUsbControl ----------------------------
(* A small instance of UsbControl for TLC: two bytes to a packet, and one  *)
(* descriptor that fills its packets and one that does not.                *)
EXTENDS UsbControl

TwoDescriptors == <<4, 3>>
TwoLengths     == {2, 6}
=============================================================================
