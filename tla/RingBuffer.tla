------------------------------ MODULE RingBuffer ------------------------------
(***************************************************************************)
(* RingBuffer<T, N> of ApplePS2Device.h, as the keyboard, mouse and        *)
(* trackpad drivers use it: the interrupt routine assembles a packet in    *)
(* place at head() and calls advanceHead; the work loop dispatches the     *)
(* packet at tail() and calls advanceTail.  The two run on different CPUs  *)
(* and share m_head and m_tail without a lock, so every read or write of   *)
(* one of them that the other side can see is a step of its own.           *)
(***************************************************************************)
EXTENDS Naturals, Sequences

CONSTANTS Stride,     \* kPacketLength / kPacketLengthMax: bytes per slot
          Length,     \* bytes of a packet (3 of the mouse's 4, 6 of 6, ...)
          Slots,      \* the buffer is Stride * Slots bytes (Slots is 32)
          MaxPackets  \* bound: packets the device starts to send

ASSUME StrideAssumption == Stride \in Nat \ {0}
ASSUME LengthAssumption == Length \in 1..Stride
ASSUME SlotsAssumption == Slots \in Nat \ {0, 1}
ASSUME MaxPacketsAssumption == MaxPackets \in Nat

N == Stride * Slots

VARIABLES m_buffer,        \* byte k of packet s is the pair <<s, k>>
          m_head, m_tail,
          packetByteCount, \* _packetByteCount of the driver
          serial,          \* number of the packet being assembled
          isr,             \* where the interrupt routine stands
          newHead, room,   \* advanceHead: new_head, count(new_head, m_tail)
          wake,            \* wakeMouse / wakeKeyboard of handleInterrupt
          signal,          \* the work loop's interrupt source is signalled
          loop,            \* where the work loop stands
          dispatched       \* the packets dispatched, as they were read

isrVars == <<packetByteCount, serial, isr, newHead, room, wake>>
loopVars == <<signal, loop, dispatched>>
vars == <<m_buffer, m_head, m_tail, isrVars, loopVars>>

Byte == (0..MaxPackets) \X (0..Stride)
Blank == <<0, 0>>

Init ==
    /\ m_buffer = [o \in 0..N - 1 |-> Blank]
    /\ m_head = 0
    /\ m_tail = 0
    /\ packetByteCount = 0
    /\ serial = 1
    /\ isr = "store"
    /\ newHead = 0
    /\ room = 0
    /\ wake = FALSE
    /\ signal = FALSE
    /\ loop = "idle"
    /\ dispatched = <<>>

-----------------------------------------------------------------------------
(* count(head, tail).  N \in Nat is larger than every m_tail but one: in    *)
(* the middle of advanceTail m_tail may be seen as N itself.                *)
Count(head, tail) == IF head >= tail THEN head - tail ELSE (N - tail) + head

Wrap(offset) == IF offset >= N THEN offset - N ELSE offset

(* The interrupt routine stores one byte: packet[_packetByteCount++] = data *)
StoreByte ==
    /\ isr = "store"
    /\ serial <= MaxPackets
    /\ packetByteCount < Length
    /\ m_buffer' = [m_buffer EXCEPT ![m_head + packetByteCount] =
                                        <<serial, packetByteCount>>]
    /\ packetByteCount' = packetByteCount + 1
    /\ UNCHANGED <<m_head, m_tail, serial, isr, newHead, room, wake, loopVars>>

(* advanceHead: new_head, and the first of its two reads of m_tail          *)
AdvanceHeadMeasure ==
    /\ isr = "store"
    /\ packetByteCount = Length
    /\ newHead' = Wrap(m_head + Stride)
    /\ room' = Count(newHead', m_tail)
    /\ isr' = "advance"
    /\ UNCHANGED <<m_buffer, m_head, m_tail, packetByteCount, serial, wake, loopVars>>

(* Mutant: advanceHead does not check for room *)
AdvanceHeadUnchecked ==
    /\ isr = "advance"
    /\ m_head' = newHead
    /\ packetByteCount' = 0
    /\ serial' = serial + 1
    /\ isr' = "store"
    /\ newHead' = 0
    /\ room' = 0
    /\ wake' = TRUE
    /\ UNCHANGED <<m_buffer, m_tail, loopVars>>

(* Mutant: advanceHead refuses to start again at the front of the array *)
AdvanceHeadNoWrap ==
    /\ isr = "advance"
    /\ m_head' = IF newHead > m_head THEN newHead ELSE m_head
    /\ packetByteCount' = 0
    /\ serial' = serial + 1
    /\ isr' = "store"
    /\ newHead' = 0
    /\ room' = 0
    /\ wake' = TRUE
    /\ UNCHANGED <<m_buffer, m_tail, loopVars>>

(* advanceHead: the second read of m_tail, in count(), the comparison and   *)
(* the store to m_head; then _packetByteCount = 0 and kPS2IR_packetReady    *)
AdvanceHead ==
    /\ isr = "advance"
    /\ m_head' = IF room >= Count(m_head, m_tail) THEN newHead ELSE m_head
    /\ packetByteCount' = 0
    /\ serial' = serial + 1
    /\ isr' = "store"
    /\ newHead' = 0
    /\ room' = 0
    /\ wake' = TRUE
    /\ UNCHANGED <<m_buffer, m_tail, loopVars>>

(* handleInterrupt leaves its loop and wakes the work loop                  *)
WakeWorkLoop ==
    /\ isr = "store"
    /\ wake
    /\ wake' = FALSE
    /\ signal' = TRUE
    /\ UNCHANGED <<m_buffer, m_head, m_tail, packetByteCount, serial, isr,
                   newHead, room, loop, dispatched>>

(* The work loop calls packetReady                                          *)
PacketReady ==
    /\ loop = "idle"
    /\ signal
    /\ signal' = FALSE
    /\ loop' = "count"
    /\ UNCHANGED <<m_buffer, m_head, m_tail, isrVars, dispatched>>

(* packetReady: while (count() >= kPacketLength)                            *)
CheckCount ==
    /\ loop = "count"
    /\ loop' = IF Count(m_head, m_tail) >= Stride THEN "dispatch" ELSE "idle"
    /\ UNCHANGED <<m_buffer, m_head, m_tail, isrVars, signal, dispatched>>

(* packetReady: dispatch the packet at tail()                               *)
PacketAtTail == [k \in 0..Length - 1 |-> m_buffer[m_tail + k]]

DispatchPacket ==
    /\ loop = "dispatch"
    /\ dispatched' = Append(dispatched, PacketAtTail)
    /\ loop' = "advance"
    /\ UNCHANGED <<m_buffer, m_head, m_tail, isrVars, signal>>

(* advanceTail: m_tail += move, seen by the other CPU before the wrap       *)
AdvanceTail ==
    /\ loop = "advance"
    /\ m_tail' = m_tail + Stride
    /\ loop' = "wrap"
    /\ UNCHANGED <<m_buffer, m_head, isrVars, signal, dispatched>>

(* Mutant: packetReady dispatches one packet and returns *)
WrapTailOnce ==
    /\ loop = "wrap"
    /\ m_tail' = Wrap(m_tail)
    /\ loop' = "idle"
    /\ UNCHANGED <<m_buffer, m_head, isrVars, signal, dispatched>>

(* advanceTail: if (m_tail >= N) m_tail -= N                                *)
WrapTail ==
    /\ loop = "wrap"
    /\ m_tail' = Wrap(m_tail)
    /\ loop' = "count"
    /\ UNCHANGED <<m_buffer, m_head, isrVars, signal, dispatched>>

(* A driver re-initialises its device (initKeyboard, resetMouse,            *)
(* initTouchPad, setDevicePowerState): _packetByteCount = 0 and reset(), on *)
(* the work loop, while interrupts are ignored.                             *)
Discard == IF packetByteCount = 0 THEN serial ELSE serial + 1

(* Mutant: reset() forgets m_tail *)
ResetHeadOnly ==
    /\ isr = "store" /\ ~wake /\ loop = "idle"
    /\ packetByteCount' = 0
    /\ serial' = Discard
    /\ m_head' = 0
    /\ UNCHANGED <<m_buffer, m_tail, isr, newHead, room, wake, loopVars>>

Reset ==
    /\ isr = "store"
    /\ ~wake
    /\ loop = "idle"
    /\ packetByteCount' = 0
    /\ serial' = Discard
    /\ m_head' = 0
    /\ m_tail' = 0
    /\ UNCHANGED <<m_buffer, isr, newHead, room, wake, loopVars>>

(* The touchpad's setParamPropertiesGated does the same with the device     *)
(* streaming and interrupts served, so the interrupt routine runs between   *)
(* (and around) its three stores.                                           *)
LiveResetByteCount ==
    /\ loop = "idle"
    /\ packetByteCount' = 0
    /\ serial' = IF isr = "store" THEN Discard ELSE serial
    /\ loop' = "resetHead"
    /\ UNCHANGED <<m_buffer, m_head, m_tail, isr, newHead, room, wake, signal, dispatched>>

LiveResetHead ==
    /\ loop = "resetHead"
    /\ m_head' = 0
    /\ loop' = "resetTail"
    /\ UNCHANGED <<m_buffer, m_tail, isrVars, signal, dispatched>>

LiveResetTail ==
    /\ loop = "resetTail"
    /\ m_tail' = 0
    /\ loop' = "idle"
    /\ UNCHANGED <<m_buffer, m_head, isrVars, signal, dispatched>>

-----------------------------------------------------------------------------
Interrupt == StoreByte \/ AdvanceHeadMeasure \/ AdvanceHead \/ WakeWorkLoop

WorkLoop == PacketReady \/ CheckCount \/ DispatchPacket \/ AdvanceTail \/ WrapTail

LiveReset == LiveResetByteCount \/ LiveResetHead \/ LiveResetTail

Next == Interrupt \/ WorkLoop \/ Reset

Spec == Init /\ [][Next]_vars

(* An interrupt routine that has started runs to its end, and so does the   *)
(* work loop once it is signalled.  Nothing obliges the device to send.     *)
FairSpec ==
    /\ Spec
    /\ WF_vars(AdvanceHeadMeasure) /\ WF_vars(AdvanceHead) /\ WF_vars(WakeWorkLoop)
    /\ WF_vars(WorkLoop)

LiveResetSpec == Init /\ [][Next \/ LiveReset]_vars

-----------------------------------------------------------------------------
Offsets == {Stride * i : i \in 0..Slots - 1}

Flags == wake \in BOOLEAN /\ signal \in BOOLEAN

(* The variables stay in their types: m_head is always the start of a slot, *)
(* m_tail too except that the interrupt routine may see it as N.            *)
TypeOK ==
    /\ m_buffer \in [0..N - 1 -> Byte]
    /\ m_head \in Offsets
    /\ m_tail \in Offsets \cup {N}
    /\ packetByteCount \in 0..Length
    /\ serial \in 1..MaxPackets + 1
    /\ isr \in {"store", "advance"}
    /\ newHead \in Offsets
    /\ room \in 0..N
    /\ Flags
    /\ loop \in {"idle", "count", "dispatch", "advance", "wrap", "resetHead", "resetTail"}
    /\ dispatched \in Seq([0..Length - 1 -> Byte])

Serial(packet) == packet[0][1]

(* Every packet the work loop dispatches is one packet of the device, with  *)
(* all its bytes in their places: the interrupt routine never writes into a *)
(* slot that is still unread, and the work loop never reads the slot that   *)
(* is being assembled (packet[_packetByteCount++] against tail()).          *)
WholePackets ==
    \A i \in DOMAIN dispatched :
        \E s \in 1..MaxPackets : dispatched[i] = [k \in 0..Length - 1 |-> <<s, k>>]

(* Packets are dispatched in the order the device sent them and none twice, *)
(* although advanceHead may refuse one and m_tail moves between its reads.  *)
InOrder ==
    \A i, j \in DOMAIN dispatched :
        i < j => Serial(dispatched[i]) < Serial(dispatched[j])

(* No step of the interrupt routine makes the queue shorter.  If            *)
(* advanceHead moved m_head onto m_tail, count() would fall to zero and all *)
(* the unread packets would be gone; its check must prevent that although   *)
(* m_tail is read twice while the work loop moves it.                       *)
UnreadKept == [][Interrupt => Count(m_head', m_tail') >= Count(m_head, m_tail)]_vars

(* The unread packets, oldest first                                         *)
Queued == [j \in 1..Count(m_head, m_tail) \div Stride |->
              m_buffer[Wrap(m_tail + (j - 1) * Stride)][1]]

Queue == INSTANCE PacketQueue WITH
    Capacity <- Slots - 1,
    Packet <- 1..MaxPackets,
    None <- 0,
    queue <- Queued,
    offering <- IF isr = "advance" THEN serial ELSE 0,
    sawFull <- isr = "advance" /\ room = 0,
    taking <- loop = "advance",
    taken <- [i \in DOMAIN dispatched |-> Serial(dispatched[i])]

(* The ring buffer and its two users implement the bounded queue: a packet  *)
(* is refused only if the buffer was full during advanceHead, 31 of the 32  *)
(* slots are usable, and nothing else is lost, repeated or reordered.       *)
ImplementsQueue == Queue!Spec

(* A packet that was buffered leaves the buffer: the wake-up that follows   *)
(* advanceHead is never missed by a packetReady that is just returning.     *)
EveryPacketLeaves ==
    \A s \in 1..MaxPackets :
        (\E j \in DOMAIN Queued : Queued[j] = s) ~> (\A j \in DOMAIN Queued : Queued[j] # s)

=============================================================================
