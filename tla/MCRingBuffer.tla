---------------------------- MODULE MCRingBuffer ----------------------------
(* A ring of three slots of two bytes, overrun by six packets.           *)
EXTENDS RingBuffer

MCStride == 2
MCLength == 2
MCSlots == 3
MCMaxPackets == 6
=============================================================================
