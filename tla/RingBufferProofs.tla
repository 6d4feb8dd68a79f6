--------------------------- MODULE RingBufferProofs ---------------------------
(***************************************************************************)
(* For every slot size, buffer size and number of packets: the packets the *)
(* work loop dispatches are whole and in order, and the interrupt routine  *)
(* never discards an unread one.                                           *)
(***************************************************************************)
EXTENDS RingBuffer, TLAPS

-----------------------------------------------------------------------------
(* The inductive invariant.                                                *)

Unread(o) == Count(o, m_tail) < Count(m_head, m_tail)

(* m_tail is seen unwrapped only inside advanceTail, the steps of a live    *)
(* reset are not taken, and a packet being dispatched is unread.            *)
LoopInv ==
    /\ m_tail = N => loop = "wrap"
    /\ loop \in {"idle", "count", "dispatch", "advance", "wrap"}
    /\ loop \in {"dispatch", "advance"} => Count(m_head, m_tail) >= Stride

(* What advanceHead has computed: the first count is zero (the buffer was   *)
(* full) or a slot more than the queue can since have become.               *)
AdvanceInv ==
    /\ packetByteCount > 0 => serial <= MaxPackets
    /\ isr = "advance" =>
        /\ packetByteCount = Length
        /\ newHead = Wrap(m_head + Stride)
        /\ room + Stride <= N
        /\ room = 0 \/ room >= Count(m_head, m_tail) + Stride

(* The bytes of the packet being assembled are in the slot at m_head.       *)
AssembledInv ==
    \A k \in 0..Length - 1 : k < packetByteCount => m_buffer[m_head + k] = <<serial, k>>

(* Every unread slot holds a whole packet, older than the one in assembly.  *)
UnreadInv ==
    \A o \in Offsets : Unread(o) =>
        \E s \in 1..MaxPackets :
            /\ s < serial
            /\ \A k \in 0..Length - 1 : m_buffer[o + k] = <<s, k>>

(* Unread slots are in order.                                               *)
OrderInv ==
    \A o, p \in Offsets :
        Unread(o) /\ Unread(p) /\ Count(o, m_tail) < Count(p, m_tail)
            => m_buffer[o][1] < m_buffer[p][1]

(* What was dispatched is older than what is unread, but for the packet     *)
(* that is dispatched and not yet removed.                                  *)
PastInv ==
    \A i \in DOMAIN dispatched :
        /\ Serial(dispatched[i]) < serial
        /\ \A o \in Offsets : Unread(o) /\ (loop = "advance" => o # m_tail)
                => Serial(dispatched[i]) < m_buffer[o][1]

IInv ==
    /\ TypeOK
    /\ LoopInv
    /\ AdvanceInv
    /\ AssembledInv
    /\ UnreadInv
    /\ OrderInv
    /\ PastInv
    /\ WholePackets
    /\ InOrder

-----------------------------------------------------------------------------
(* Arithmetic of slot offsets.                                             *)

(* The buffer size is a number and holds at least two slots.                *)
LEMMA BufferSize == N \in Nat /\ N >= Stride + Stride /\ Stride \in Nat /\ Stride > 0
<1>1. PICK d \in Nat : Slots = 2 + d
  <2>1. Slots \in Nat /\ Slots >= 2
    BY SlotsAssumption
  <2>2. Slots - 2 \in Nat /\ Slots = 2 + (Slots - 2)
    BY <2>1
  <2> QED
    BY <2>2
<1>2. Stride * (2 + d) = Stride + Stride + Stride * d /\ Stride * d \in Nat
  BY StrideAssumption
<1> QED
  BY <1>1, <1>2, StrideAssumption DEF N

(* A larger slot number starts at least a slot further on.                  *)
LEMMA SlotsApart ==
    ASSUME NEW i \in Nat, NEW j \in Nat
    PROVE  /\ Stride * i \in Nat
           /\ Stride * (i + 1) = Stride * i + Stride
           /\ Stride * i < Stride * j => Stride * i + Stride <= Stride * j
<1>1. Stride \in Nat /\ Stride > 0
  BY StrideAssumption
<1>2. Stride * i \in Nat /\ Stride * (i + 1) = Stride * i + Stride
  BY <1>1
<1>3. CASE i < j
  <2>1. PICK d \in Nat : j = (i + 1) + d
    <3>1. j - (i + 1) \in Nat /\ j = (i + 1) + (j - (i + 1))
      BY <1>3
    <3> QED
      BY <3>1
  <2>2. Stride * ((i + 1) + d) = Stride * (i + 1) + Stride * d /\ Stride * d \in Nat
    BY <1>1
  <2> QED
    BY <1>1, <1>2, <2>1, <2>2
<1>4. CASE i >= j
  <2>1. PICK d \in Nat : i = j + d
    <3>1. i - j \in Nat /\ i = j + (i - j)
      BY <1>4
    <3> QED
      BY <3>1
  <2>2. Stride * (j + d) = Stride * j + Stride * d /\ Stride * d \in Nat /\ Stride * j \in Nat
    BY <1>1
  <2> QED
    BY <1>1, <1>2, <2>1, <2>2
<1> QED
  BY <1>3, <1>4

(* Every offset starts a slot that lies inside the buffer.                  *)
LEMMA OffsetInside ==
    ASSUME NEW o \in Offsets
    PROVE  o \in Nat /\ o + Stride <= N
<1>1. PICK i \in 0..Slots - 1 : o = Stride * i
  BY DEF Offsets
<1>2. i \in Nat /\ Slots \in Nat /\ i < Slots
  BY SlotsAssumption
<1>3. PICK d \in Nat : Slots = (i + 1) + d
  <2>1. Slots - (i + 1) \in Nat /\ Slots = (i + 1) + (Slots - (i + 1))
    BY <1>2
  <2> QED
    BY <2>1
<1>4. Stride * ((i + 1) + d) = Stride * (i + 1) + Stride * d /\ Stride * d \in Nat
  BY <1>2, StrideAssumption
<1> QED
  BY <1>1, <1>2, <1>3, <1>4, SlotsApart, BufferSize DEF N

(* Two different offsets are at least a slot apart.                         *)
LEMMA OffsetsApart ==
    ASSUME NEW o \in Offsets \cup {N}, NEW p \in Offsets \cup {N}, o < p
    PROVE  o + Stride <= p
<1>1. PICK i \in Nat : o = Stride * i
  BY SlotsAssumption DEF Offsets, N
<1>2. PICK j \in Nat : p = Stride * j
  BY SlotsAssumption DEF Offsets, N
<1> QED
  BY <1>1, <1>2, SlotsApart

(* The next slot, wrapped, is an offset.                                    *)
LEMMA NextOffset ==
    ASSUME NEW o \in Offsets
    PROVE  /\ o + Stride \in Offsets \cup {N}
           /\ Wrap(o + Stride) \in Offsets
           /\ Wrap(o + Stride) = IF o + Stride = N THEN 0 ELSE o + Stride
           /\ 0 \in Offsets
<1>1. PICK i \in 0..Slots - 1 : o = Stride * i
  BY DEF Offsets
<1>2. i \in Nat /\ Slots \in Nat /\ i < Slots /\ Slots >= 2
  BY SlotsAssumption
<1>3. o + Stride = Stride * (i + 1)
  BY <1>1, <1>2, SlotsApart
<1>4. 0 \in Offsets
  BY <1>2, StrideAssumption DEF Offsets
<1>5. o + Stride \in Offsets \cup {N}
  <2>1. CASE i + 1 = Slots
    BY <2>1, <1>3 DEF N
  <2>2. CASE i + 1 < Slots
    BY <2>2, <1>2, <1>3 DEF Offsets
  <2> QED
    BY <2>1, <2>2, <1>2
<1>6. o \in Nat /\ o + Stride <= N
  BY OffsetInside
<1>7. o + Stride \in Offsets => o + Stride < N
  BY OffsetInside, BufferSize
<1> QED
  BY <1>4, <1>5, <1>6, <1>7, BufferSize DEF Wrap

-----------------------------------------------------------------------------
(* What count() computes on slot offsets.                                  *)

(* The distance from the tail is less than the buffer, and zero exactly at  *)
(* the tail, wrapped or not.                                                *)
LEMMA CountRange ==
    ASSUME NEW o \in Offsets, NEW t \in Offsets \cup {N}
    PROVE  /\ Count(o, t) \in Nat
           /\ Count(o, t) + Stride <= N
           /\ Count(o, t) = 0 <=> o = Wrap(t)
           /\ Count(o, t) = 0 \/ Count(o, t) >= Stride
<1>1. o \in Nat /\ o + Stride <= N
  BY OffsetInside
<1>2. t \in Nat /\ t <= N /\ (t # N => t + Stride <= N)
  BY OffsetInside, BufferSize
<1>3. (o < t => o + Stride <= t) /\ (t < o => t + Stride <= o)
  BY OffsetsApart
<1>4. o = 0 \/ o >= Stride
  BY <1>1, NextOffset, OffsetsApart, BufferSize
<1> QED
  BY <1>1, <1>2, <1>3, <1>4, BufferSize DEF Count, Wrap

(* Slots at different distances from the tail are at least a slot apart,    *)
(* and no two slots are at the same distance.                               *)
LEMMA CountsApart ==
    ASSUME NEW o \in Offsets, NEW p \in Offsets, NEW t \in Offsets \cup {N}
    PROVE  /\ Count(o, t) < Count(p, t) => Count(o, t) + Stride <= Count(p, t)
           /\ Count(o, t) = Count(p, t) => o = p
<1>1. o \in Nat /\ o + Stride <= N /\ p \in Nat /\ p + Stride <= N
  BY OffsetInside
<1>2. t \in Nat /\ t <= N /\ (t # N => t + Stride <= N)
  BY OffsetInside, BufferSize
<1>3. (o < t => o + Stride <= t) /\ (t < o => t + Stride <= o)
  BY OffsetsApart
<1>4. (p < t => p + Stride <= t) /\ (t < p => t + Stride <= p)
  BY OffsetsApart
<1>5. (p < o => p + Stride <= o) /\ (o < p => o + Stride <= p)
  BY OffsetsApart
<1> QED
  BY <1>1, <1>2, <1>3, <1>4, <1>5, BufferSize DEF Count

(* The next slot is a slot further from the tail, unless it is the tail.    *)
LEMMA CountNext ==
    ASSUME NEW o \in Offsets, NEW t \in Offsets \cup {N}
    PROVE  \/ Count(Wrap(o + Stride), t) = Count(o, t) + Stride
           \/ Count(Wrap(o + Stride), t) = 0 /\ Count(o, t) = N - Stride
<1>1. o \in Nat /\ o + Stride <= N
  BY OffsetInside
<1>2. t \in Nat /\ t <= N /\ (t # N => t + Stride <= N)
  BY OffsetInside, BufferSize
<1>3. (o < t => o + Stride <= t) /\ (t < o => t + Stride <= o)
  BY OffsetsApart
<1> QED
  BY <1>1, <1>2, <1>3, BufferSize DEF Count, Wrap

(* advanceTail brings every slot but the one at the tail a slot nearer.     *)
LEMMA CountAdvancedTail ==
    ASSUME NEW o \in Offsets, NEW t \in Offsets
    PROVE  /\ o # t => Count(o, t + Stride) = Count(o, t) - Stride
           /\ o = t => Count(o, t + Stride) = N - Stride
<1>1. o \in Nat /\ o + Stride <= N /\ t \in Nat /\ t + Stride <= N
  BY OffsetInside
<1>2. (o < t => o + Stride <= t) /\ (t < o => t + Stride <= o)
  BY OffsetsApart
<1> QED
  BY <1>1, <1>2, BufferSize DEF Count

(* Wrapping the tail changes no distance: the interrupt routine cannot tell *)
(* m_tail = N from m_tail = 0.                                              *)
LEMMA CountWrappedTail ==
    ASSUME NEW o \in Offsets, NEW t \in Offsets \cup {N}
    PROVE  Count(o, Wrap(t)) = Count(o, t) /\ Wrap(t) \in Offsets
<1>1. o \in Nat /\ o + Stride <= N
  BY OffsetInside
<1>2. t # N => t \in Nat /\ t + Stride <= N
  BY OffsetInside
<1>3. 0 \in Offsets
  BY NextOffset
<1> QED
  BY <1>1, <1>2, <1>3, BufferSize DEF Count, Wrap

(* Different slots share no cell, and every cell is inside the buffer.      *)
LEMMA SlotCells ==
    ASSUME NEW o \in Offsets, NEW p \in Offsets, o # p,
           NEW k \in 0..Length - 1, NEW l \in 0..Length - 1
    PROVE  o + k # p + l /\ o + k \in 0..N - 1
<1>1. o \in Nat /\ o + Stride <= N /\ p \in Nat /\ p + Stride <= N
  BY OffsetInside
<1>2. (p < o => p + Stride <= o) /\ (o < p => o + Stride <= p)
  BY OffsetsApart
<1>3. Length \in Nat /\ Length > 0 /\ Length <= Stride
  BY LengthAssumption, BufferSize
<1> QED
  BY <1>1, <1>2, <1>3, BufferSize

-----------------------------------------------------------------------------
(* The initial state satisfies the invariant.                               *)
LEMMA InitIInv == Init => IInv
<1> SUFFICES ASSUME Init PROVE IInv
  OBVIOUS
<1> USE DEF Init
<1>1. 0 \in Offsets /\ N \in Nat /\ N >= 2 /\ Length \in Nat /\ Length > 0
  BY BufferSize, LengthAssumption, SlotsAssumption DEF Offsets
<1>2. Count(0, 0) = 0
  BY DEF Count
<1>3. TypeOK
  <2>1. Blank \in Byte
    BY MaxPacketsAssumption, StrideAssumption DEF Blank, Byte
  <2>2. m_buffer \in [0..N - 1 -> Byte]
    BY <2>1
  <2>3. <<>> \in Seq([0..Length - 1 -> Byte])
    OBVIOUS
  <2>4. Flags
    BY DEF Flags
  <2> QED
    BY <1>1, <2>2, <2>3, <2>4, MaxPacketsAssumption DEF TypeOK
<1>4. \A o \in Offsets : ~Unread(o)
  BY <1>2, CountRange, <1>1 DEF Unread
<1>5. LoopInv /\ AdvanceInv /\ AssembledInv
  BY <1>1, <1>2 DEF LoopInv, AdvanceInv, AssembledInv
<1>6. UnreadInv /\ OrderInv
  BY <1>4 DEF UnreadInv, OrderInv
<1>7. PastInv /\ WholePackets /\ InOrder
  BY DEF PastInv, WholePackets, InOrder
<1> QED
  BY <1>3, <1>5, <1>6, <1>7 DEF IInv

(* Storing a byte writes into no unread slot.                               *)
LEMMA StoreByteIInv == IInv /\ StoreByte => IInv'
<1> SUFFICES ASSUME IInv, StoreByte PROVE IInv'
  OBVIOUS
<1> USE DEF loopVars
<1>0. TypeOK /\ Length \in Nat /\ Length > 0 /\ packetByteCount \in 0..Length - 1
  BY LengthAssumption DEF IInv, TypeOK, StoreByte
<1>1. <<serial, packetByteCount>> \in Byte
  BY <1>0, LengthAssumption, MaxPacketsAssumption, StrideAssumption DEF TypeOK, StoreByte, Byte
<1>2. m_head \in Offsets /\ m_tail \in Offsets \cup {N}
  BY <1>0 DEF TypeOK
<1>3. m_head + packetByteCount \in 0..N - 1
  BY <1>0, <1>2, OffsetInside, LengthAssumption, BufferSize
<1>4. TypeOK'
  <2>1. Flags'
    BY <1>0 DEF TypeOK, Flags, StoreByte
  <2>2. m_buffer' \in [0..N - 1 -> Byte]
    BY <1>0, <1>1 DEF TypeOK, StoreByte
  <2>3. packetByteCount' \in 0..Length
    BY <1>0 DEF StoreByte
  <2> QED
    BY <1>0, <2>1, <2>2, <2>3 DEF TypeOK, StoreByte
<1>5. LoopInv' /\ AdvanceInv'
  BY <1>0, LengthAssumption DEF IInv, LoopInv, AdvanceInv, StoreByte, Count, TypeOK
<1>6. AssembledInv'
  <2> SUFFICES ASSUME NEW k \in 0..Length - 1, k < packetByteCount'
               PROVE  m_buffer'[m_head + k] = <<serial, k>>
    BY DEF AssembledInv, StoreByte
  <2>1. m_head + k \in 0..N - 1
    BY <1>2, OffsetInside, LengthAssumption, BufferSize
  <2> QED
    BY <1>0, <1>2, <1>3, <2>1, OffsetInside DEF StoreByte, IInv, AssembledInv, TypeOK
<1>7. \A o \in Offsets : /\ Unread(o)' <=> Unread(o)
                         /\ Unread(o) => o # m_head
                         /\ Unread(o) => \A k \in 0..Length - 1 : m_buffer'[o + k] = m_buffer[o + k]
  <2> SUFFICES ASSUME NEW o \in Offsets
               PROVE  /\ Unread(o)' <=> Unread(o)
                      /\ Unread(o) => o # m_head
                      /\ Unread(o) => \A k \in 0..Length - 1 : m_buffer'[o + k] = m_buffer[o + k]
    OBVIOUS
  <2>1. Unread(o)' <=> Unread(o)
    BY DEF Unread, Count, StoreByte
  <2>2. Unread(o) => o # m_head
    BY <1>2, CountRange DEF Unread
  <2>3. ASSUME Unread(o), NEW k \in 0..Length - 1
        PROVE  m_buffer'[o + k] = m_buffer[o + k]
    BY <2>2, <2>3, <1>0, <1>2, <1>3, SlotCells DEF StoreByte, TypeOK
  <2> QED
    BY <2>1, <2>2, <2>3
<1>8. \A o \in Offsets : Unread(o) => m_buffer'[o] = m_buffer[o]
  <2> SUFFICES ASSUME NEW o \in Offsets, Unread(o) PROVE m_buffer'[o] = m_buffer[o]
    OBVIOUS
  <2>1. 0 \in 0..Length - 1 /\ o + 0 = o
    BY <1>0, OffsetInside
  <2> QED
    BY <1>7, <2>1
<1>9. UnreadInv'
  <2> SUFFICES ASSUME NEW o \in Offsets, Unread(o)'
               PROVE  \E s \in 1..MaxPackets :
                         s < serial' /\ \A k \in 0..Length - 1 : m_buffer'[o + k] = <<s, k>>
    BY DEF UnreadInv
  <2>1. PICK s \in 1..MaxPackets :
            s < serial /\ \A k \in 0..Length - 1 : m_buffer[o + k] = <<s, k>>
    BY <1>7 DEF IInv, UnreadInv
  <2> QED
    BY <1>7, <2>1 DEF StoreByte
<1>10. OrderInv'
  <2> SUFFICES ASSUME NEW o \in Offsets, NEW p \in Offsets, Unread(o)', Unread(p)',
                      Count(o, m_tail)' < Count(p, m_tail)'
               PROVE  m_buffer'[o][1] < m_buffer'[p][1]
    BY DEF OrderInv
  <2>1. Count(o, m_tail) < Count(p, m_tail)
    BY DEF StoreByte, Count
  <2> QED
    BY <1>7, <1>8, <2>1 DEF IInv, OrderInv
<1>11. PastInv'
  BY <1>7, <1>8 DEF IInv, PastInv, StoreByte
<1>12. WholePackets' /\ InOrder'
  BY DEF IInv, WholePackets, InOrder, StoreByte
<1> QED
  BY <1>4, <1>5, <1>6, <1>9, <1>10, <1>11, <1>12 DEF IInv

(* Steps that leave the buffer, its indices and the history alone keep the  *)
(* conjuncts that speak of nothing else.                                    *)
LEMMA ContentsKept ==
    ASSUME IInv, UNCHANGED <<m_buffer, m_head, m_tail, serial>>
    PROVE  UnreadInv' /\ OrderInv' /\ (\A o \in Offsets : Unread(o)' <=> Unread(o))
<1>1. \A o \in Offsets : Unread(o)' <=> Unread(o)
  BY DEF Unread, Count
<1>2. UnreadInv'
  BY <1>1 DEF IInv, UnreadInv
<1>3. OrderInv'
  BY <1>1 DEF IInv, OrderInv, Count
<1> QED
  BY <1>1, <1>2, <1>3

(* The first half of advanceHead only computes.                             *)
LEMMA AdvanceHeadMeasureIInv == IInv /\ AdvanceHeadMeasure => IInv'
<1> SUFFICES ASSUME IInv, AdvanceHeadMeasure PROVE IInv'
  OBVIOUS
<1> USE DEF loopVars
<1>1. TypeOK /\ m_head \in Offsets /\ m_tail \in Offsets \cup {N}
  BY DEF IInv, TypeOK
<1>2. newHead' = Wrap(m_head + Stride) /\ newHead' \in Offsets
  BY <1>1, NextOffset DEF AdvanceHeadMeasure
<1>3. room' \in 0..N /\ room' + Stride <= N /\ (room' = 0 \/ room' >= Count(m_head, m_tail) + Stride)
  <2>1. room' = Count(Wrap(m_head + Stride), m_tail)
    BY <1>2 DEF AdvanceHeadMeasure
  <2>2. Count(newHead', m_tail) \in Nat /\ Count(newHead', m_tail) + Stride <= N
    BY <1>1, <1>2, CountRange
  <2>3. Count(m_head, m_tail) \in Nat
    BY <1>1, CountRange
  <2> QED
    BY <2>1, <2>2, <2>3, <1>1, <1>2, CountNext, BufferSize
<1>4. TypeOK'
  <2>1. Flags'
    BY <1>1 DEF TypeOK, Flags, AdvanceHeadMeasure
  <2> QED
    BY <1>1, <1>2, <1>3, <2>1 DEF TypeOK, AdvanceHeadMeasure
<1>5. LoopInv'
  BY DEF IInv, LoopInv, AdvanceHeadMeasure, Count
<1>6. AdvanceInv'
  <2>1. Count(m_head, m_tail)' = Count(m_head, m_tail) /\ Wrap(m_head + Stride)' = Wrap(m_head + Stride)
    BY DEF Count, Wrap, AdvanceHeadMeasure
  <2> QED
    BY <1>2, <1>3, <2>1 DEF IInv, AdvanceInv, AdvanceHeadMeasure
<1>7. AssembledInv'
  BY DEF IInv, AssembledInv, AdvanceHeadMeasure
<1>8. UnreadInv' /\ OrderInv' /\ (\A o \in Offsets : Unread(o)' <=> Unread(o))
  BY ContentsKept DEF AdvanceHeadMeasure
<1>9. PastInv'
  BY <1>8 DEF IInv, PastInv, AdvanceHeadMeasure
<1>10. WholePackets' /\ InOrder'
  BY DEF IInv, WholePackets, InOrder, AdvanceHeadMeasure
<1> QED
  BY <1>4, <1>5, <1>6, <1>7, <1>8, <1>9, <1>10 DEF IInv

(* advanceHead either leaves m_head alone or moves it one slot on, and then *)
(* the queue grows by the slot just filled: it never wraps onto the tail.   *)
LEMMA AdvanceHeadEffect ==
    ASSUME IInv, AdvanceHead
    PROVE  \/ m_head' = m_head
           \/ /\ m_head' = Wrap(m_head + Stride)
              /\ m_head' \in Offsets
              /\ Count(m_head', m_tail) = Count(m_head, m_tail) + Stride
<1>1. m_head \in Offsets /\ m_tail \in Offsets \cup {N} /\ room \in 0..N
  BY DEF IInv, TypeOK
<1>2. newHead = Wrap(m_head + Stride) /\ newHead \in Offsets
  BY <1>1, NextOffset DEF IInv, AdvanceInv, AdvanceHead
<1>3. SUFFICES ASSUME room >= Count(m_head, m_tail)
               PROVE  Count(newHead, m_tail) = Count(m_head, m_tail) + Stride
  BY <1>2 DEF AdvanceHead
<1>4. Count(m_head, m_tail) \in Nat /\ Count(m_head, m_tail) + Stride <= N
  BY <1>1, CountRange
<1>5. CASE room = 0
  <2>1. Count(m_head, m_tail) = 0
    BY <1>3, <1>4, <1>5
  <2>2. m_head = Wrap(m_tail)
    BY <1>1, <2>1, CountRange
  <2>3. newHead # m_head
    BY <1>1, <1>2, NextOffset, OffsetInside, BufferSize
  <2>4. Count(newHead, m_tail) # 0
    BY <1>1, <1>2, <2>2, <2>3, CountRange
  <2> QED
    BY <1>1, <1>2, <2>4, CountNext
<1>6. CASE room >= Count(m_head, m_tail) + Stride
  <2>1. room + Stride <= N
    BY DEF IInv, AdvanceInv, AdvanceHead
  <2> QED
    BY <1>1, <1>2, <1>4, <1>6, <2>1, CountNext, BufferSize
<1> QED
  BY <1>5, <1>6 DEF IInv, AdvanceInv, AdvanceHead

(* After advanceHead the unread slots are the old ones and, if m_head       *)
(* moved, the one that held the assembled packet.                           *)
LEMMA AdvanceHeadIInv == IInv /\ AdvanceHead => IInv'
<1> SUFFICES ASSUME IInv, AdvanceHead PROVE IInv'
  OBVIOUS
<1> USE DEF loopVars
<1>1. TypeOK /\ m_head \in Offsets /\ m_tail \in Offsets \cup {N} /\ serial \in 1..MaxPackets
  BY LengthAssumption, MaxPacketsAssumption DEF IInv, TypeOK, AdvanceInv, AdvanceHead
<1>2. m_head' \in Offsets /\ Count(m_head', m_tail) \in Nat /\ Count(m_head, m_tail) \in Nat
      /\ Count(m_head', m_tail) >= Count(m_head, m_tail)
  BY <1>1, AdvanceHeadEffect, CountRange, BufferSize
<1>3. \A o \in Offsets : Unread(o)' => Unread(o) \/ (o = m_head /\ m_head' # m_head)
  <2> SUFFICES ASSUME NEW o \in Offsets, Unread(o)', ~Unread(o)
               PROVE  o = m_head /\ m_head' # m_head
    OBVIOUS
  <2>1. Count(o, m_tail) < Count(m_head', m_tail) /\ ~(Count(o, m_tail) < Count(m_head, m_tail))
    BY DEF Unread, Count, AdvanceHead
  <2>2. Count(o, m_tail) \in Nat
    BY <1>1, CountRange
  <2>3. Count(m_head', m_tail) = Count(m_head, m_tail) + Stride /\ m_head' # m_head
    BY <2>1, AdvanceHeadEffect
  <2>4. Count(m_head, m_tail) = Count(o, m_tail)
    BY <1>1, <1>2, <2>1, <2>2, <2>3, CountsApart, BufferSize
  <2> QED
    BY <1>1, <2>3, <2>4, CountsApart
<1>4. \A o \in Offsets : Count(o, m_tail)' = Count(o, m_tail)
  BY DEF Count, AdvanceHead
<1>5. \A k \in 0..Length - 1 : m_buffer[m_head + k] = <<serial, k>>
  BY LengthAssumption DEF IInv, AdvanceInv, AssembledInv, AdvanceHead
<1>6. m_buffer[m_head][1] = serial
  <2>1. 0 \in 0..Length - 1 /\ m_head + 0 = m_head
    BY <1>1, OffsetInside, LengthAssumption
  <2> QED
    BY <1>5, <2>1
<1>7. \A o \in Offsets : Unread(o) => m_buffer[o][1] < serial
  <2> SUFFICES ASSUME NEW o \in Offsets, Unread(o) PROVE m_buffer[o][1] < serial
    OBVIOUS
  <2>1. 0 \in 0..Length - 1 /\ o + 0 = o
    BY OffsetInside, LengthAssumption
  <2> QED
    BY <2>1 DEF IInv, UnreadInv
<1>8. TypeOK'
  <2>1. Flags'
    BY <1>1 DEF TypeOK, Flags, AdvanceHead
  <2>2. 0 \in Offsets /\ 0 \in 0..N /\ 0 \in 0..Length
    BY <1>1, NextOffset, BufferSize, LengthAssumption
  <2> QED
    BY <1>1, <1>2, <2>1, <2>2, MaxPacketsAssumption DEF TypeOK, AdvanceHead
<1>9. LoopInv'
  <2>1. Count(m_head, m_tail)' = Count(m_head', m_tail)
    BY DEF AdvanceHead, Count
  <2> QED
    BY <1>2, <2>1, BufferSize DEF IInv, LoopInv, AdvanceHead
<1>10. AdvanceInv' /\ AssembledInv'
  BY DEF AdvanceInv, AssembledInv, AdvanceHead
<1>11. UnreadInv'
  <2> SUFFICES ASSUME NEW o \in Offsets, Unread(o)'
               PROVE  \E s \in 1..MaxPackets :
                         s < serial' /\ \A k \in 0..Length - 1 : m_buffer'[o + k] = <<s, k>>
    BY DEF UnreadInv
  <2>1. serial' = serial + 1 /\ m_buffer' = m_buffer
    BY DEF AdvanceHead
  <2>2. CASE Unread(o)
    <3>1. PICK s \in 1..MaxPackets :
              s < serial /\ \A k \in 0..Length - 1 : m_buffer[o + k] = <<s, k>>
      BY <2>2 DEF IInv, UnreadInv
    <3>2. s < serial'
      BY <1>1, <2>1, <3>1, MaxPacketsAssumption
    <3> QED
      BY <2>1, <3>1, <3>2
  <2>3. CASE o = m_head
    <3>1. serial < serial'
      BY <1>1, <2>1, MaxPacketsAssumption
    <3> QED
      BY <1>1, <1>5, <2>1, <2>3, <3>1
  <2> QED
    BY <1>3, <2>2, <2>3
<1>12. OrderInv'
  <2> SUFFICES ASSUME NEW o \in Offsets, NEW p \in Offsets, Unread(o)', Unread(p)',
                      Count(o, m_tail) < Count(p, m_tail)
               PROVE  m_buffer[o][1] < m_buffer[p][1]
    BY <1>4 DEF OrderInv, AdvanceHead
  <2>1. CASE Unread(o) /\ Unread(p)
    BY <2>1 DEF IInv, OrderInv
  <2>2. CASE Unread(o) /\ p = m_head
    BY <2>2, <1>6, <1>7
  <2>3. CASE o = m_head
    <3>1. ~Unread(p)
      BY <1>1, <2>3, CountRange DEF Unread
    <3> QED
      BY <1>1, <1>3, <2>3, <3>1, CountRange
  <2> QED
    BY <1>3, <2>1, <2>2, <2>3
<1>13. PastInv'
  <2> SUFFICES ASSUME NEW i \in DOMAIN dispatched
               PROVE  /\ Serial(dispatched[i]) < serial'
                      /\ \A o \in Offsets : Unread(o)' /\ (loop = "advance" => o # m_tail)
                             => Serial(dispatched[i]) < m_buffer[o][1]
    BY DEF PastInv, AdvanceHead
  <2>1. Serial(dispatched[i]) < serial
    BY DEF IInv, PastInv
  <2>2. \E s \in 1..MaxPackets : dispatched[i] = [k \in 0..Length - 1 |-> <<s, k>>]
    BY DEF IInv, WholePackets
  <2>3. Serial(dispatched[i]) \in 1..MaxPackets
    BY <2>2, LengthAssumption DEF Serial
  <2>4. Serial(dispatched[i]) < serial'
    BY <1>1, <2>1, <2>3, MaxPacketsAssumption DEF AdvanceHead
  <2> QED
    BY <1>3, <1>6, <2>1, <2>4 DEF IInv, PastInv
<1>14. WholePackets' /\ InOrder'
  BY DEF IInv, WholePackets, InOrder, AdvanceHead
<1> QED
  BY <1>8, <1>9, <1>10, <1>11, <1>12, <1>13, <1>14 DEF IInv

(* Waking the work loop, entering packetReady and testing count() change    *)
(* nothing but control.                                                     *)
LEMMA ControlIInv == IInv /\ (WakeWorkLoop \/ PacketReady \/ CheckCount) => IInv'
<1> SUFFICES ASSUME IInv, WakeWorkLoop \/ PacketReady \/ CheckCount PROVE IInv'
  OBVIOUS
<1> USE DEF isrVars
<1>1. /\ UNCHANGED <<m_buffer, m_head, m_tail, serial>>
      /\ UNCHANGED <<packetByteCount, isr, newHead, room, dispatched>>
  BY DEF WakeWorkLoop, PacketReady, CheckCount
<1>2. Count(m_head, m_tail)' = Count(m_head, m_tail) /\ Wrap(m_head + Stride)' = Wrap(m_head + Stride)
  BY <1>1 DEF Count, Wrap
<1>3. \/ loop' = loop
      \/ loop \in {"idle", "count"} /\ loop' \in {"idle", "count"}
      \/ loop = "count" /\ loop' = "dispatch" /\ Count(m_head, m_tail) >= Stride
  BY DEF WakeWorkLoop, PacketReady, CheckCount
<1>4. TypeOK'
  <2>1. Flags'
    BY DEF IInv, TypeOK, Flags, WakeWorkLoop, PacketReady, CheckCount
  <2> QED
    BY <1>1, <1>3, <2>1 DEF IInv, TypeOK
<1>5. LoopInv' /\ AdvanceInv' /\ AssembledInv'
  BY <1>1, <1>2, <1>3 DEF IInv, LoopInv, AdvanceInv, AssembledInv
<1>6. UnreadInv' /\ OrderInv' /\ (\A o \in Offsets : Unread(o)' <=> Unread(o))
  BY <1>1, ContentsKept
<1>7. PastInv'
  <2>1. loop = "advance" => loop' = "advance"
    BY <1>3
  <2> QED
    BY <1>1, <1>3, <1>6, <2>1 DEF IInv, PastInv
<1>8. WholePackets' /\ InOrder'
  BY <1>1 DEF IInv, WholePackets, InOrder
<1> QED
  BY <1>4, <1>5, <1>6, <1>7, <1>8 DEF IInv

(* The packet dispatched is the oldest unread one, and whole.               *)
LEMMA DispatchPacketIInv == IInv /\ DispatchPacket => IInv'
<1> SUFFICES ASSUME IInv, DispatchPacket PROVE IInv'
  OBVIOUS
<1> USE DEF isrVars
<1>1. /\ UNCHANGED <<m_buffer, m_head, m_tail, serial>>
      /\ UNCHANGED <<packetByteCount, isr, newHead, room, signal, wake>>
      /\ loop = "dispatch" /\ loop' = "advance"
  BY DEF DispatchPacket
<1>2. TypeOK /\ m_tail \in Offsets /\ m_head \in Offsets
  BY <1>1, BufferSize DEF IInv, TypeOK, LoopInv
<1>3. Count(m_tail, m_tail) = 0 /\ Unread(m_tail)
  BY <1>1, <1>2, OffsetInside, BufferSize DEF Count, Unread, IInv, LoopInv
<1>4. PICK s \in 1..MaxPackets : s < serial /\ \A k \in 0..Length - 1 : m_buffer[m_tail + k] = <<s, k>>
  BY <1>2, <1>3 DEF IInv, UnreadInv
<1>5. PacketAtTail = [k \in 0..Length - 1 |-> <<s, k>>]
  BY <1>4 DEF PacketAtTail
<1>6. PacketAtTail \in [0..Length - 1 -> Byte]
  <2>1. \A k \in 0..Length - 1 : <<s, k>> \in Byte
    BY LengthAssumption, StrideAssumption, MaxPacketsAssumption DEF Byte
  <2> QED
    BY <1>5, <2>1
<1>7. Serial(PacketAtTail) = s
  BY <1>5, LengthAssumption DEF Serial
<1>8. m_buffer[m_tail][1] = s
  <2>1. 0 \in 0..Length - 1 /\ m_tail + 0 = m_tail
    BY <1>2, OffsetInside, LengthAssumption
  <2> QED
    BY <1>4, <2>1
<1>9. /\ dispatched \in Seq([0..Length - 1 -> Byte])
      /\ dispatched' = Append(dispatched, PacketAtTail)
      /\ DOMAIN dispatched' = 1..Len(dispatched) + 1
      /\ DOMAIN dispatched = 1..Len(dispatched)
      /\ Len(dispatched) \in Nat
      /\ dispatched'[Len(dispatched) + 1] = PacketAtTail
      /\ \A i \in DOMAIN dispatched : dispatched'[i] = dispatched[i]
  BY <1>2, <1>6 DEF TypeOK, DispatchPacket
<1>10. TypeOK'
  <2>1. Flags'
    BY <1>1, <1>2 DEF TypeOK, Flags
  <2>2. dispatched' \in Seq([0..Length - 1 -> Byte])
    BY <1>6, <1>9
  <2> QED
    BY <1>1, <1>2, <2>1, <2>2 DEF TypeOK
<1>11. LoopInv' /\ AdvanceInv' /\ AssembledInv'
  <2>1. Count(m_head, m_tail)' = Count(m_head, m_tail) /\ Wrap(m_head + Stride)' = Wrap(m_head + Stride)
    BY <1>1 DEF Count, Wrap
  <2> QED
    BY <1>1, <2>1 DEF IInv, LoopInv, AdvanceInv, AssembledInv
<1>12. UnreadInv' /\ OrderInv' /\ (\A o \in Offsets : Unread(o)' <=> Unread(o))
  BY <1>1, ContentsKept
<1>13. Wrap(m_tail) = m_tail
  BY <1>2, OffsetInside, BufferSize DEF Wrap
<1>14. PastInv'
  <2> SUFFICES ASSUME NEW i \in 1..Len(dispatched) + 1
               PROVE  /\ Serial(dispatched'[i]) < serial
                      /\ \A o \in Offsets : Unread(o) /\ o # m_tail
                             => Serial(dispatched'[i]) < m_buffer[o][1]
    BY <1>1, <1>9, <1>12 DEF PastInv
  <2>1. CASE i \in DOMAIN dispatched
    BY <1>1, <1>9, <2>1 DEF IInv, PastInv
  <2>2. CASE i = Len(dispatched) + 1
    <3>1. Serial(dispatched'[i]) = s
      BY <1>7, <1>9, <2>2
    <3>2. ASSUME NEW o \in Offsets, Unread(o), o # m_tail
          PROVE  s < m_buffer[o][1]
      <4>1. Count(o, m_tail) \in Nat /\ Count(o, m_tail) # 0
        BY <1>2, <1>13, <3>2, CountRange
      <4>2. Count(m_tail, m_tail) < Count(o, m_tail)
        BY <1>3, <4>1
      <4> QED
        BY <1>2, <1>3, <1>8, <3>2, <4>2 DEF IInv, OrderInv
    <3> QED
      BY <1>4, <3>1, <3>2
  <2> QED
    BY <1>9, <2>1, <2>2
<1>15. \A i \in 1..Len(dispatched) + 1 : i \in DOMAIN dispatched \/ i = Len(dispatched) + 1
  BY <1>9
<1>16. WholePackets'
  <2> SUFFICES ASSUME NEW i \in 1..Len(dispatched) + 1
               PROVE  \E q \in 1..MaxPackets : dispatched'[i] = [k \in 0..Length - 1 |-> <<q, k>>]
    BY <1>9 DEF WholePackets
  <2>1. CASE i \in DOMAIN dispatched
    BY <1>9, <2>1 DEF IInv, WholePackets
  <2>2. CASE i = Len(dispatched) + 1
    BY <1>5, <1>9, <2>2
  <2> QED
    BY <1>15, <2>1, <2>2
<1>17. InOrder'
  <2> SUFFICES ASSUME NEW i \in 1..Len(dispatched) + 1, NEW j \in 1..Len(dispatched) + 1, i < j
               PROVE  Serial(dispatched'[i]) < Serial(dispatched'[j])
    BY <1>9 DEF InOrder
  <2>1. i \in DOMAIN dispatched
    BY <1>9
  <2>2. CASE j \in DOMAIN dispatched
    BY <1>9, <2>1, <2>2 DEF IInv, InOrder
  <2>3. CASE j = Len(dispatched) + 1
    <3>1. Serial(dispatched[i]) < m_buffer[m_tail][1]
      BY <1>1, <1>2, <1>3, <2>1 DEF IInv, PastInv
    <3>2. dispatched'[i] = dispatched[i] /\ dispatched'[j] = PacketAtTail
      BY <1>9, <2>1, <2>3
    <3> QED
      BY <1>7, <1>8, <3>1, <3>2
  <2> QED
    BY <1>15, <2>2, <2>3
<1> QED
  BY <1>10, <1>11, <1>12, <1>14, <1>16, <1>17 DEF IInv

(* advanceTail removes exactly the slot at the tail from the unread ones.   *)
LEMMA AdvanceTailIInv == IInv /\ AdvanceTail => IInv'
<1> SUFFICES ASSUME IInv, AdvanceTail PROVE IInv'
  OBVIOUS
<1> USE DEF isrVars
<1>1. /\ UNCHANGED <<m_buffer, m_head, serial, packetByteCount, isr, newHead, room>>
      /\ UNCHANGED <<wake, signal, dispatched>>
      /\ loop = "advance" /\ loop' = "wrap" /\ m_tail' = m_tail + Stride
  BY DEF AdvanceTail
<1>2. TypeOK /\ m_tail \in Offsets /\ m_head \in Offsets
  BY <1>1, BufferSize DEF IInv, TypeOK, LoopInv
<1>3. m_tail' \in Offsets \cup {N}
  BY <1>1, <1>2, NextOffset
<1>4. Count(m_head, m_tail) >= Stride /\ m_head # m_tail
  BY <1>1, <1>2, OffsetInside, BufferSize DEF IInv, LoopInv, Count
<1>5. \A o \in Offsets : /\ o # m_tail => Count(o, m_tail)' = Count(o, m_tail) - Stride
                         /\ Count(o, m_tail) \in Nat
                         /\ o = m_tail => Count(o, m_tail)' = N - Stride
  BY <1>1, <1>2, CountAdvancedTail, CountRange DEF Count
<1>6. Count(m_head, m_tail)' = Count(m_head, m_tail) - Stride
  BY <1>1, <1>2, <1>4, <1>5 DEF Count
<1>7. Count(m_head, m_tail) + Stride <= N /\ Count(m_head, m_tail) \in Nat
  BY <1>2, CountRange
<1>8. \A o \in Offsets : Unread(o)' => Unread(o) /\ o # m_tail
  <2> SUFFICES ASSUME NEW o \in Offsets, Unread(o)' PROVE Unread(o) /\ o # m_tail
    OBVIOUS
  <2>1. Count(o, m_tail)' < Count(m_head, m_tail) - Stride
    BY <1>1, <1>6 DEF Unread
  <2>2. o # m_tail
    BY <1>5, <1>7, <2>1, BufferSize
  <2>3. Count(o, m_tail) < Count(m_head, m_tail)
    BY <1>5, <1>7, <2>1, <2>2, BufferSize
  <2> QED
    BY <2>2, <2>3 DEF Unread
<1>9. TypeOK'
  <2>1. Flags'
    BY <1>1, <1>2 DEF TypeOK, Flags
  <2> QED
    BY <1>1, <1>2, <1>3, <2>1 DEF TypeOK
<1>10. LoopInv' /\ AssembledInv'
  BY <1>1 DEF IInv, LoopInv, AssembledInv
<1>11. AdvanceInv'
  <2>1. Wrap(m_head + Stride)' = Wrap(m_head + Stride)
    BY <1>1 DEF Wrap
  <2>2. room \in 0..N
    BY <1>2 DEF TypeOK
  <2> QED
    BY <1>1, <1>6, <1>7, <2>1, <2>2, BufferSize DEF IInv, AdvanceInv
<1>12. UnreadInv'
  BY <1>1, <1>8 DEF IInv, UnreadInv
<1>13. OrderInv'
  <2> SUFFICES ASSUME NEW o \in Offsets, NEW p \in Offsets, Unread(o)', Unread(p)',
                      Count(o, m_tail)' < Count(p, m_tail)'
               PROVE  m_buffer[o][1] < m_buffer[p][1]
    BY <1>1 DEF OrderInv
  <2>1. Count(o, m_tail) < Count(p, m_tail)
    BY <1>5, <1>8, BufferSize
  <2> QED
    BY <1>8, <2>1 DEF IInv, OrderInv
<1>14. PastInv'
  BY <1>1, <1>8 DEF IInv, PastInv
<1>15. WholePackets' /\ InOrder'
  BY <1>1 DEF IInv, WholePackets, InOrder
<1> QED
  BY <1>9, <1>10, <1>11, <1>12, <1>13, <1>14, <1>15 DEF IInv

(* Wrapping m_tail changes no distance.                                     *)
LEMMA WrapTailIInv == IInv /\ WrapTail => IInv'
<1> SUFFICES ASSUME IInv, WrapTail PROVE IInv'
  OBVIOUS
<1> USE DEF isrVars
<1>1. /\ UNCHANGED <<m_buffer, m_head, serial, packetByteCount, isr, newHead, room>>
      /\ UNCHANGED <<wake, signal, dispatched>>
      /\ loop = "wrap" /\ loop' = "count" /\ m_tail' = Wrap(m_tail)
  BY DEF WrapTail
<1>2. TypeOK /\ m_tail \in Offsets \cup {N} /\ m_head \in Offsets
  BY DEF IInv, TypeOK
<1>3. m_tail' \in Offsets /\ m_tail' # N
  BY <1>1, <1>2, CountWrappedTail, OffsetInside, BufferSize
<1>4. \A o \in Offsets : Count(o, m_tail)' = Count(o, m_tail)
  BY <1>1, <1>2, CountWrappedTail DEF Count
<1>5. Count(m_head, m_tail)' = Count(m_head, m_tail)
  BY <1>1, <1>2, <1>4 DEF Count
<1>6. \A o \in Offsets : Unread(o)' <=> Unread(o)
  BY <1>4, <1>5 DEF Unread
<1>7. TypeOK'
  <2>1. Flags'
    BY <1>1, <1>2 DEF TypeOK, Flags
  <2> QED
    BY <1>1, <1>2, <1>3, <2>1 DEF TypeOK
<1>8. LoopInv' /\ AssembledInv'
  BY <1>1, <1>3 DEF IInv, LoopInv, AssembledInv
<1>9. AdvanceInv'
  <2>1. Wrap(m_head + Stride)' = Wrap(m_head + Stride)
    BY <1>1 DEF Wrap
  <2> QED
    BY <1>1, <1>5, <2>1 DEF IInv, AdvanceInv
<1>10. UnreadInv'
  BY <1>1, <1>6 DEF IInv, UnreadInv
<1>11. OrderInv'
  <2> SUFFICES ASSUME NEW o \in Offsets, NEW p \in Offsets, Unread(o)', Unread(p)',
                      Count(o, m_tail)' < Count(p, m_tail)'
               PROVE  m_buffer[o][1] < m_buffer[p][1]
    BY <1>1 DEF OrderInv
  <2>1. Count(o, m_tail) < Count(p, m_tail)
    BY <1>4
  <2> QED
    BY <1>6, <2>1 DEF IInv, OrderInv
<1>12. PastInv'
  <2> SUFFICES ASSUME NEW i \in DOMAIN dispatched
               PROVE  /\ Serial(dispatched[i]) < serial
                      /\ \A o \in Offsets : Unread(o)' => Serial(dispatched[i]) < m_buffer[o][1]
    BY <1>1 DEF PastInv
  <2> QED
    BY <1>1, <1>6 DEF IInv, PastInv
<1>13. WholePackets' /\ InOrder'
  BY <1>1 DEF IInv, WholePackets, InOrder
<1> QED
  BY <1>7, <1>8, <1>9, <1>10, <1>11, <1>12, <1>13 DEF IInv

(* reset() with the interrupt routine quiet empties the queue.              *)
LEMMA ResetIInv == IInv /\ Reset => IInv'
<1> SUFFICES ASSUME IInv, Reset PROVE IInv'
  OBVIOUS
<1> USE DEF loopVars
<1>1. TypeOK /\ 0 \in Offsets /\ N \in Nat /\ N > 0 /\ Length \in Nat
  <2>1. TypeOK /\ m_head \in Offsets
    BY DEF IInv, TypeOK
  <2>2. 0 \in Offsets
    BY <2>1, NextOffset
  <2> QED
    BY <2>1, <2>2, BufferSize, LengthAssumption
<1>2. serial' \in 1..MaxPackets + 1 /\ serial' >= serial /\ serial \in 1..MaxPackets + 1
  BY <1>1, MaxPacketsAssumption DEF IInv, TypeOK, AdvanceInv, Reset, Discard
<1>3. \A o \in Offsets : ~Unread(o)'
  <2>1. Count(m_head, m_tail)' = 0
    BY DEF Reset, Count
  <2>2. \A o \in Offsets : Count(o, m_tail)' \in Nat
    BY <1>1, CountRange DEF Reset, Count
  <2> QED
    BY <2>1, <2>2 DEF Unread
<1>4. TypeOK'
  <2>1. Flags'
    BY <1>1 DEF TypeOK, Flags, Reset
  <2> QED
    BY <1>1, <1>2, <2>1 DEF TypeOK, Reset
<1>5. LoopInv' /\ AdvanceInv' /\ AssembledInv'
  BY <1>1 DEF IInv, LoopInv, AdvanceInv, AssembledInv, Reset
<1>6. UnreadInv' /\ OrderInv'
  BY <1>3 DEF UnreadInv, OrderInv
<1>7. PastInv'
  <2> SUFFICES ASSUME NEW i \in DOMAIN dispatched PROVE Serial(dispatched[i]) < serial'
    BY <1>3 DEF PastInv, Reset
  <2>1. \E s \in 1..MaxPackets : dispatched[i] = [k \in 0..Length - 1 |-> <<s, k>>]
    BY DEF IInv, WholePackets
  <2>2. Serial(dispatched[i]) \in 1..MaxPackets
    BY <2>1, LengthAssumption DEF Serial
  <2>3. Serial(dispatched[i]) < serial
    BY DEF IInv, PastInv
  <2> QED
    BY <1>2, <2>2, <2>3, MaxPacketsAssumption
<1>8. WholePackets' /\ InOrder'
  BY DEF IInv, WholePackets, InOrder, Reset
<1> QED
  BY <1>4, <1>5, <1>6, <1>7, <1>8 DEF IInv

-----------------------------------------------------------------------------
(* Every step preserves the invariant.                                      *)
LEMMA NextIInv == IInv /\ [Next]_vars => IInv'
<1> SUFFICES ASSUME IInv, [Next]_vars PROVE IInv'
  OBVIOUS
<1>1. CASE Interrupt
  BY <1>1, StoreByteIInv, AdvanceHeadMeasureIInv, AdvanceHeadIInv, ControlIInv DEF Interrupt
<1>2. CASE WorkLoop
  BY <1>2, ControlIInv, DispatchPacketIInv, AdvanceTailIInv, WrapTailIInv DEF WorkLoop
<1>3. CASE Reset
  BY <1>3, ResetIInv
<1>4. CASE UNCHANGED vars
  <2>1. UNCHANGED <<m_buffer, m_head, m_tail, serial, packetByteCount, isr, newHead, room,
                    wake, signal, loop, dispatched>>
    BY <1>4 DEF vars, isrVars, loopVars
  <2>2. TypeOK'
    <3>1. Flags'
      BY <2>1 DEF IInv, TypeOK, Flags
    <3> QED
      BY <2>1, <3>1 DEF IInv, TypeOK
  <2>3. LoopInv' /\ AdvanceInv' /\ AssembledInv'
    BY <2>1 DEF IInv, LoopInv, AdvanceInv, AssembledInv, Count, Wrap
  <2>4. UnreadInv' /\ OrderInv' /\ (\A o \in Offsets : Unread(o)' <=> Unread(o))
    BY <2>1, ContentsKept
  <2>5. PastInv'
    BY <2>1, <2>4 DEF IInv, PastInv
  <2>6. WholePackets' /\ InOrder'
    BY <2>1 DEF IInv, WholePackets, InOrder
  <2> QED
    BY <2>2, <2>3, <2>4, <2>5, <2>6 DEF IInv
<1> QED
  BY <1>1, <1>2, <1>3, <1>4 DEF Next

(* The invariant holds in every state of every behaviour.                   *)
LEMMA Invariance == Spec => []IInv
<1>1. Init => IInv
  BY InitIInv
<1>2. IInv /\ [Next]_vars => IInv'
  BY NextIInv
<1> QED
  BY <1>1, <1>2, PTL DEF Spec

(* The variables of the ring buffer keep their types: in particular m_head  *)
(* and m_tail are slot boundaries, so head() and tail() stay inside.        *)
THEOREM TypeCorrect == Spec => []TypeOK
<1>1. IInv => TypeOK
  BY DEF IInv
<1> QED
  BY <1>1, Invariance, PTL

(* Every packet handed to the work loop is whole: the interrupt routine and *)
(* the work loop never touch the same slot at the same time.                *)
THEOREM DispatchesWholePackets == Spec => []WholePackets
<1>1. IInv => WholePackets
  BY DEF IInv
<1> QED
  BY <1>1, Invariance, PTL

(* Packets are dispatched in the order sent, none twice.                    *)
THEOREM DispatchesInOrder == Spec => []InOrder
<1>1. IInv => InOrder
  BY DEF IInv
<1> QED
  BY <1>1, Invariance, PTL

(* advanceHead never loses an unread packet, with m_tail read twice.        *)
THEOREM InterruptKeepsUnread == Spec => UnreadKept
<1>1. IInv /\ [Next]_vars => [Interrupt => Count(m_head', m_tail') >= Count(m_head, m_tail)]_vars
  <2> SUFFICES ASSUME IInv, Interrupt
               PROVE  Count(m_head', m_tail') >= Count(m_head, m_tail)
    OBVIOUS
  <2>1. m_head \in Offsets /\ m_tail \in Offsets \cup {N} /\ Count(m_head, m_tail) \in Nat
    BY CountRange DEF IInv, TypeOK
  <2>2. CASE AdvanceHead
    <3>1. m_tail' = m_tail
      BY <2>2 DEF AdvanceHead
    <3> QED
      BY <2>1, <2>2, <3>1, AdvanceHeadEffect, BufferSize
  <2>3. CASE StoreByte \/ AdvanceHeadMeasure \/ WakeWorkLoop
    <3>1. m_head' = m_head /\ m_tail' = m_tail
      BY <2>3 DEF StoreByte, AdvanceHeadMeasure, WakeWorkLoop
    <3> QED
      BY <2>1, <3>1
  <2> QED
    BY <2>2, <2>3 DEF Interrupt
<1> QED
  BY <1>1, Invariance, PTL DEF Spec, UnreadKept
=============================================================================
