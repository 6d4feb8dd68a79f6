----------------------------- MODULE PacketQueue -----------------------------
(***************************************************************************)
(* What a driver's packet buffer promises: a bounded first-in first-out    *)
(* queue between one producer (the interrupt routine) and one consumer     *)
(* (the work loop).  An offered packet is kept unless the queue was full   *)
(* at some moment of the offer; a kept packet is handed to the consumer    *)
(* once, in order, and keeps its place until the consumer has removed it.  *)
(***************************************************************************)
EXTENDS Naturals, Sequences

CONSTANTS Capacity, \* the most packets the queue may hold
          Packet,   \* the packets
          None      \* no packet: not a member of Packet

VARIABLES queue,     \* packets kept and not yet removed
          offering,  \* the packet being offered, or None
          sawFull,   \* the queue was full when the offer began
          taking,    \* the consumer is working on Head(queue)
          taken      \* every packet handed to the consumer, in order

vars == <<queue, offering, sawFull, taking, taken>>

Init ==
    /\ queue = <<>>
    /\ offering = None
    /\ sawFull = FALSE
    /\ taking = FALSE
    /\ taken = <<>>

Offer(p) ==
    /\ offering = None
    /\ offering' = p
    /\ sawFull' = (Len(queue) = Capacity)
    /\ UNCHANGED <<queue, taking, taken>>

EndOffer ==
    /\ offering # None
    /\ offering' = None
    /\ sawFull' = FALSE
    /\ UNCHANGED <<taking, taken>>

Keep ==
    /\ EndOffer
    /\ Len(queue) < Capacity
    /\ queue' = Append(queue, offering)

Drop ==
    /\ EndOffer
    /\ sawFull
    /\ UNCHANGED queue

Take ==
    /\ ~taking
    /\ queue # <<>>
    /\ taking' = TRUE
    /\ taken' = Append(taken, Head(queue))
    /\ UNCHANGED <<queue, offering, sawFull>>

Remove ==
    /\ taking
    /\ taking' = FALSE
    /\ queue' = Tail(queue)
    /\ UNCHANGED <<offering, sawFull, taken>>

Clear ==
    /\ offering = None
    /\ ~taking
    /\ queue' = <<>>
    /\ UNCHANGED <<offering, sawFull, taking, taken>>

Next ==
    \/ \E p \in Packet : Offer(p)
    \/ Keep \/ Drop \/ Take \/ Remove \/ Clear

Spec == Init /\ [][Next]_vars
=============================================================================
