------------------------ MODULE RingBufferRefinement ------------------------
(***************************************************************************)
(* The ring buffer with its two users implements the bounded queue of      *)
(* PacketQueue, for every slot size, buffer size and number of packets.    *)
(* Under the invariant of RingBufferProofs each step of the interrupt      *)
(* routine and of the work loop maps to a step of the queue or to none.    *)
(***************************************************************************)
EXTENDS RingBufferProofs, SequenceTheorems

(* The place of packet j, and what the queue holds, for any head and tail *)
Slot(t, j) == Wrap(t + (j - 1) * Stride)

Size(h, t) == Count(h, t) \div Stride

Contents(buffer, h, t) == [j \in 1..Size(h, t) |-> buffer[Slot(t, j)][1]]

-----------------------------------------------------------------------------
(* Arithmetic of places in the queue.                                      *)

(* A multiple of the slot size is divided without rest.                     *)
LEMMA DivStride == ASSUME NEW n \in Nat PROVE (Stride * n) \div Stride = n
<1>1. Stride \in Nat /\ Stride > 0 BY StrideAssumption
<1> DEFINE q == (Stride * n) \div Stride
<1>2. Stride * n \in Nat BY <1>1
<1>3. q \in Int /\ Stride * q <= Stride * n /\ Stride * n < Stride * q + Stride
  BY <1>1, <1>2
<1>4. q \in Nat BY <1>1, <1>2, <1>3
<1>5. ~(Stride * q < Stride * n) BY <1>2, <1>3, <1>4, SlotsApart
<1>6. Stride * q = Stride * n BY <1>1, <1>2, <1>3, <1>4, <1>5
<1> QED BY <1>1, <1>4, <1>6

(* The distance of a slot from the tail is a number of slots, less than all *)
(* of them.                                                                 *)
LEMMA CountMultiple ==
    ASSUME NEW o \in Offsets, NEW t \in Offsets \cup {N}
    PROVE  \E n \in 0..Slots - 1 : Count(o, t) = Stride * n
<1>1. PICK i \in 0..Slots - 1 : o = Stride * i BY DEF Offsets
<1>2. PICK k \in 0..Slots : t = Stride * k BY SlotsAssumption DEF Offsets, N
<1>3. Slots \in Nat /\ Slots >= 2 /\ Stride \in Nat /\ Stride > 0
  BY SlotsAssumption, StrideAssumption
<1>4. CASE i >= k
  <2>1. i - k \in 0..Slots - 1 /\ Stride * (i - k) = Stride * i - Stride * k BY <1>3, <1>4
  <2>2. Stride * (i - k) >= 0 BY <1>3, <1>4
  <2>3. Stride * i \in Nat /\ Stride * k \in Nat BY <1>3
  <2>4. Count(o, t) = Stride * (i - k) BY <1>1, <1>2, <2>1, <2>2, <2>3 DEF Count
  <2> QED BY <2>1, <2>4
<1>5. CASE i < k
  <2>1. (Slots - k) + i \in 0..Slots - 1
        /\ Stride * ((Slots - k) + i) = (Stride * Slots - Stride * k) + Stride * i
    BY <1>3, <1>5
  <2>2. Stride * (k - i) = Stride * k - Stride * i /\ Stride * (k - i) > 0 BY <1>3, <1>5
  <2>3. Stride * i \in Nat /\ Stride * k \in Nat BY <1>3
  <2>4. Count(o, t) = Stride * ((Slots - k) + i) BY <1>1, <1>2, <2>1, <2>2, <2>3 DEF Count, N
  <2> QED BY <2>1, <2>4
<1> QED BY <1>3, <1>4, <1>5

(* The number of packets in the queue, and the bytes they take.             *)
LEMMA SizeRange ==
    ASSUME NEW o \in Offsets, NEW t \in Offsets \cup {N}
    PROVE  Size(o, t) \in 0..Slots - 1 /\ Count(o, t) = Stride * Size(o, t)
<1>1. PICK n \in 0..Slots - 1 : Count(o, t) = Stride * n BY CountMultiple
<1>2. n \in Nat /\ (Stride * n) \div Stride = n BY DivStride
<1> QED BY <1>1, <1>2 DEF Size

(* A packet in the queue has a slot of the buffer, at its distance from the *)
(* tail.                                                                    *)
LEMMA SlotPlace ==
    ASSUME NEW t \in Offsets \cup {N}, NEW j \in 1..Slots - 1
    PROVE  Slot(t, j) \in Offsets /\ Count(Slot(t, j), t) = Stride * (j - 1)
<1>1. PICK k \in 0..Slots : t = Stride * k BY SlotsAssumption DEF Offsets, N
<1>2. Slots \in Nat /\ Slots >= 2 /\ Stride \in Nat /\ Stride > 0
  BY SlotsAssumption, StrideAssumption
<1> DEFINE i == k + (j - 1)
<1>3. i \in Nat /\ t + (j - 1) * Stride = Stride * i BY <1>1, <1>2
<1>4. Stride * (j - 1) \in Nat /\ Stride * i = Stride * k + Stride * (j - 1) BY <1>2
<1>5. CASE i < Slots
  <2>1. Stride * i < N BY <1>2, <1>3, <1>5 DEF N
  <2>2. Slot(t, j) = Stride * i BY <1>2, <1>3, <2>1, BufferSize DEF Slot, Wrap
  <2>3. Slot(t, j) \in Offsets
    <3>1. i \in 0..Slots - 1 BY <1>2, <1>3, <1>5
    <3> QED BY <2>2, <3>1 DEF Offsets
  <2> QED BY <1>1, <1>2, <1>4, <2>2, <2>3 DEF Count
<1>6. CASE i >= Slots
  <2>1. i - Slots \in 0..Slots - 1 /\ Stride * (i - Slots) = Stride * i - N BY <1>2, <1>3, <1>6 DEF N
  <2>2. Stride * i >= N BY <1>2, <1>3, <1>6 DEF N
  <2>3. Slot(t, j) = Stride * (i - Slots) BY <1>2, <1>3, <2>1, <2>2, BufferSize DEF Slot, Wrap
  <2>4. Slot(t, j) \in Offsets BY <2>1, <2>3 DEF Offsets
  <2>5. i - Slots < k /\ Stride * (i - Slots) < Stride * k BY <1>2, <1>6
  <2> QED BY <1>1, <1>2, <1>4, <2>1, <2>3, <2>4, <2>5, BufferSize DEF Count
<1> QED BY <1>2, <1>3, <1>5, <1>6

-----------------------------------------------------------------------------
(* What the steps do to the contents of the queue.                         *)

(* The contents of a queue are a sequence of numbers of packets.            *)
LEMMA QueuedType ==
    ASSUME IInv
    PROVE  /\ Queued = Contents(m_buffer, m_head, m_tail)
           /\ Queued \in Seq(1..MaxPackets) /\ Len(Queued) = Size(m_head, m_tail)
           /\ Len(Queued) \in 0..Slots - 1 /\ DOMAIN Queued = 1..Len(Queued)
<1>1. m_head \in Offsets /\ m_tail \in Offsets \cup {N} BY DEF IInv, TypeOK
<1> DEFINE n == Size(m_head, m_tail)
<1>2. n \in 0..Slots - 1 /\ Count(m_head, m_tail) = Stride * n BY <1>1, SizeRange
<1>3. Queued = [j \in 1..n |-> m_buffer[Slot(m_tail, j)][1]] BY DEF Queued, Size, Slot
<1>4. ASSUME NEW j \in 1..n PROVE m_buffer[Slot(m_tail, j)][1] \in 1..MaxPackets
  <2>1. j \in 1..Slots - 1 BY <1>2, SlotsAssumption
  <2>2. Slot(m_tail, j) \in Offsets /\ Count(Slot(m_tail, j), m_tail) = Stride * (j - 1)
    BY <1>1, <2>1, SlotPlace
  <2>3. Stride * (j - 1) < Stride * n BY <1>2, <1>4, StrideAssumption, SlotsAssumption
  <2>4. Unread(Slot(m_tail, j)) BY <1>2, <2>2, <2>3 DEF Unread
  <2>5. PICK s \in 1..MaxPackets : \A k \in 0..Length - 1 : m_buffer[Slot(m_tail, j) + k] = <<s, k>>
    BY <2>2, <2>4 DEF IInv, UnreadInv
  <2>6. 0 \in 0..Length - 1 /\ Slot(m_tail, j) + 0 = Slot(m_tail, j)
    BY <2>2, OffsetInside, LengthAssumption
  <2> QED BY <2>5, <2>6
<1>5. Queued \in [1..n -> 1..MaxPackets] BY <1>3, <1>4
<1>6. n \in Nat BY <1>2, SlotsAssumption
<1>7. Queued \in Seq(1..MaxPackets) BY <1>5, <1>6, SeqDef
<1>8. Len(Queued) = n BY <1>5, <1>6, <1>7, LenProperties
<1> QED BY <1>2, <1>3, <1>7, <1>8, <1>5 DEF Contents

(* Steps that move neither end, and write no unread slot, keep the queue.   *)
LEMMA QueuedKept ==
    ASSUME IInv, UNCHANGED <<m_head, m_tail>>,
           \A o \in Offsets : Unread(o) => m_buffer'[o] = m_buffer[o]
    PROVE  Queued' = Queued
<1>1. m_head \in Offsets /\ m_tail \in Offsets \cup {N} BY DEF IInv, TypeOK
<1> DEFINE n == Size(m_head, m_tail)
<1>2. n \in 0..Slots - 1 /\ Count(m_head, m_tail) = Stride * n BY <1>1, SizeRange
<1>3. Queued = [j \in 1..n |-> m_buffer[Slot(m_tail, j)][1]] BY DEF Queued, Size, Slot
<1>4. Queued' = [j \in 1..n |-> m_buffer'[Slot(m_tail, j)][1]] BY DEF Queued, Size, Slot, Count, Wrap
<1>5. ASSUME NEW j \in 1..n PROVE m_buffer'[Slot(m_tail, j)] = m_buffer[Slot(m_tail, j)]
  <2>1. j \in 1..Slots - 1 BY <1>2, SlotsAssumption
  <2>2. Slot(m_tail, j) \in Offsets /\ Count(Slot(m_tail, j), m_tail) = Stride * (j - 1)
    BY <1>1, <2>1, SlotPlace
  <2>3. Stride * (j - 1) < Stride * n BY <1>2, StrideAssumption, SlotsAssumption
  <2> QED BY <1>2, <2>2, <2>3 DEF Unread
<1> QED BY <1>3, <1>4, <1>5

(* A head that moves a slot on adds the packet that was assembled there.    *)
LEMMA QueuedGrows ==
    ASSUME IInv, AdvanceHead, m_head' # m_head
    PROVE  Len(Queued) < Slots - 1 /\ Queued' = Append(Queued, serial)
<1>1. m_head \in Offsets /\ m_tail \in Offsets \cup {N} /\ serial \in 1..MaxPackets
  BY LengthAssumption, MaxPacketsAssumption DEF IInv, TypeOK, AdvanceInv, AdvanceHead
<1>2. m_head' \in Offsets /\ Count(m_head', m_tail) = Count(m_head, m_tail) + Stride
  BY AdvanceHeadEffect
<1> DEFINE n == Size(m_head, m_tail)
<1>3. n \in 0..Slots - 1 /\ Count(m_head, m_tail) = Stride * n BY <1>1, SizeRange
<1>4. Size(m_head', m_tail) \in 0..Slots - 1 /\ Count(m_head', m_tail) = Stride * Size(m_head', m_tail)
  BY <1>1, <1>2, SizeRange
<1>5. n \in Nat /\ Stride * (n + 1) = Stride * n + Stride BY <1>3, SlotsAssumption, SlotsApart
<1>6. Size(m_head', m_tail) = n + 1
  <2>1. n + 1 \in Nat /\ (Stride * (n + 1)) \div Stride = n + 1 BY <1>5, DivStride
  <2> QED BY <1>2, <1>3, <1>5, <2>1 DEF Size
<1>7. m_tail' = m_tail /\ m_buffer' = m_buffer BY DEF AdvanceHead
<1>8. Queued = [j \in 1..n |-> m_buffer[Slot(m_tail, j)][1]] BY DEF Queued, Size, Slot
<1>9. Queued' = [j \in 1..n + 1 |-> m_buffer[Slot(m_tail, j)][1]]
  <2>1. Queued' = [j \in 1..Size(m_head', m_tail) |-> m_buffer[Slot(m_tail, j)][1]]
    BY <1>7 DEF Queued, Size, Slot, Count, Wrap
  <2> QED BY <1>6, <2>1
<1>10. m_buffer[Slot(m_tail, n + 1)][1] = serial
  <2>1. n + 1 \in 1..Slots - 1 /\ (n + 1) - 1 = n BY <1>4, <1>5, <1>6
  <2>2. Slot(m_tail, n + 1) \in Offsets /\ Count(Slot(m_tail, n + 1), m_tail) = Stride * n
    BY <1>1, <2>1, SlotPlace
  <2>3. Slot(m_tail, n + 1) = m_head BY <1>1, <1>3, <2>2, CountsApart
  <2>4. 0 \in 0..Length - 1 /\ m_head + 0 = m_head /\ 0 < packetByteCount
    BY <1>1, OffsetInside, LengthAssumption DEF IInv, AdvanceInv, AdvanceHead
  <2> QED BY <2>3, <2>4 DEF IInv, AssembledInv
<1>11. Queued \in Seq(1..MaxPackets) /\ Len(Queued) = n BY QueuedType
<1>12. \A j \in 1..n + 1 : Append(Queued, serial)[j] = m_buffer[Slot(m_tail, j)][1]
  BY <1>5, <1>8, <1>10, <1>11, AppendProperties
<1>13. Append(Queued, serial) \in Seq(1..MaxPackets) /\ Len(Append(Queued, serial)) = n + 1
  BY <1>1, <1>11, AppendProperties
<1>14. Append(Queued, serial) \in [1..n + 1 -> 1..MaxPackets] BY <1>13, LenProperties
<1>15. Queued' = Append(Queued, serial) BY <1>9, <1>12, <1>14
<1> QED BY <1>4, <1>5, <1>6, <1>11, <1>15, SlotsAssumption

(* The packet at the tail is the first of the queue.                        *)
LEMMA HeadQueued ==
    ASSUME IInv, loop \in {"dispatch", "advance"}
    PROVE  Queued # <<>> /\ Head(Queued) = m_buffer[m_tail][1] /\ m_tail \in Offsets
<1>1. m_head \in Offsets /\ m_tail \in Offsets BY BufferSize DEF IInv, TypeOK, LoopInv
<1>2. Count(m_head, m_tail) >= Stride /\ Count(m_head, m_tail) = Stride * Size(m_head, m_tail)
      /\ Size(m_head, m_tail) \in 0..Slots - 1
  BY <1>1, SizeRange DEF IInv, LoopInv
<1>3. Size(m_head, m_tail) # 0 BY <1>2, StrideAssumption
<1>4. Len(Queued) = Size(m_head, m_tail) /\ Queued \in Seq(1..MaxPackets) BY QueuedType
<1>5. Slot(m_tail, 1) = m_tail BY <1>1, OffsetInside, BufferSize DEF Slot, Wrap
<1>6. Queued[1] = m_buffer[Slot(m_tail, 1)][1]
  <2>1. 1 \in 1..Size(m_head, m_tail) BY <1>2, <1>3, SlotsAssumption
  <2> QED BY <2>1 DEF Queued, Size, Slot
<1>7. Queued # <<>> BY <1>3, <1>4, EmptySeq
<1> QED BY <1>1, <1>4, <1>5, <1>6, <1>7, HeadTailProperties

(* A tail that moves a slot on removes the first packet.                    *)
LEMMA QueuedShrinks ==
    ASSUME IInv, AdvanceTail
    PROVE  Queued' = Tail(Queued)
<1>1. m_head \in Offsets /\ m_tail \in Offsets /\ Queued # <<>>
  BY HeadQueued DEF IInv, TypeOK, AdvanceTail
<1> DEFINE n == Size(m_head, m_tail)
<1>2. n \in 0..Slots - 1 /\ Count(m_head, m_tail) = Stride * n BY <1>1, SizeRange
<1>3. Count(m_head, m_tail) >= Stride BY DEF IInv, LoopInv, AdvanceTail
<1>4. n \in Nat \ {0} /\ n - 1 \in Nat BY <1>2, <1>3, StrideAssumption, SlotsAssumption
<1>5. m_head # m_tail BY <1>1, <1>3, OffsetInside, BufferSize DEF Count
<1>6. Count(m_head, m_tail + Stride) = Stride * (n - 1)
  <2>1. Stride * ((n - 1) + 1) = Stride * (n - 1) + Stride /\ (n - 1) + 1 = n /\ Stride * (n - 1) \in Nat
    BY <1>4, SlotsApart
  <2> QED BY <1>1, <1>2, <1>5, <2>1, CountAdvancedTail, BufferSize
<1>7. Size(m_head, m_tail + Stride) = n - 1 BY <1>4, <1>6, DivStride DEF Size
<1>8. Queued = [j \in 1..n |-> m_buffer[Slot(m_tail, j)][1]] BY DEF Queued, Size, Slot
<1>9. Queued' = [j \in 1..n - 1 |-> m_buffer[Slot(m_tail + Stride, j)][1]]
  <2>1. m_head' = m_head /\ m_tail' = m_tail + Stride /\ m_buffer' = m_buffer BY DEF AdvanceTail
  <2>2. Queued' = [j \in 1..Size(m_head, m_tail + Stride) |-> m_buffer[Slot(m_tail + Stride, j)][1]]
    BY <2>1 DEF Queued, Size, Slot, Count, Wrap
  <2> QED BY <1>7, <2>2
<1>10. ASSUME NEW j \in 1..n - 1 PROVE Slot(m_tail + Stride, j) = Slot(m_tail, j + 1)
  <2>1. Stride + (j - 1) * Stride = ((j + 1) - 1) * Stride BY <1>4, StrideAssumption
  <2>2. (m_tail + Stride) + (j - 1) * Stride = m_tail + ((j + 1) - 1) * Stride
    BY <1>1, <1>4, <2>1, OffsetInside, StrideAssumption
  <2> QED BY <2>2 DEF Slot
<1>11. Queued \in Seq(1..MaxPackets) /\ Len(Queued) = n BY QueuedType
<1>12. Tail(Queued) \in Seq(1..MaxPackets) /\ Len(Tail(Queued)) = n - 1
       /\ \A j \in 1..n - 1 : Tail(Queued)[j] = Queued[j + 1]
  BY <1>1, <1>11, HeadTailProperties
<1>13. \A j \in 1..n - 1 : Tail(Queued)[j] = m_buffer[Slot(m_tail + Stride, j)][1]
  BY <1>4, <1>8, <1>10, <1>12
<1>14. Tail(Queued) \in [1..n - 1 -> 1..MaxPackets] BY <1>12, LenProperties
<1> QED BY <1>9, <1>13, <1>14

(* Wrapping the tail moves no packet.                                       *)
LEMMA QueuedWrapped ==
    ASSUME IInv, WrapTail
    PROVE  Queued' = Queued
<1>1. m_head \in Offsets /\ m_tail \in Offsets \cup {N} BY DEF IInv, TypeOK
<1>2. Wrap(m_tail) \in Offsets /\ \A o \in Offsets : Count(o, Wrap(m_tail)) = Count(o, m_tail)
  BY <1>1, CountWrappedTail
<1> DEFINE n == Size(m_head, m_tail)
<1>3. n \in 0..Slots - 1 BY <1>1, SizeRange
<1>4. Queued = [j \in 1..n |-> m_buffer[Slot(m_tail, j)][1]] BY DEF Queued, Size, Slot
<1>5. Queued' = [j \in 1..n |-> m_buffer[Slot(Wrap(m_tail), j)][1]]
  <2>1. m_head' = m_head /\ m_tail' = Wrap(m_tail) /\ m_buffer' = m_buffer BY DEF WrapTail
  <2>2. Size(m_head, Wrap(m_tail)) = n BY <1>1, <1>2 DEF Size
  <2>3. Queued' = [j \in 1..Size(m_head, Wrap(m_tail)) |-> m_buffer[Slot(Wrap(m_tail), j)][1]]
    BY <2>1 DEF Queued, Size, Slot, Count, Wrap
  <2> QED BY <2>2, <2>3
<1>6. ASSUME NEW j \in 1..n PROVE Slot(Wrap(m_tail), j) = Slot(m_tail, j)
  <2>1. j \in 1..Slots - 1 BY <1>3, SlotsAssumption
  <2>2. Slot(m_tail, j) \in Offsets /\ Count(Slot(m_tail, j), m_tail) = Stride * (j - 1)
    BY <1>1, <2>1, SlotPlace
  <2>3. Slot(Wrap(m_tail), j) \in Offsets /\ Count(Slot(Wrap(m_tail), j), Wrap(m_tail)) = Stride * (j - 1)
    BY <1>2, <2>1, SlotPlace
  <2> QED BY <1>1, <1>2, <2>2, <2>3, CountsApart
<1> QED BY <1>4, <1>5, <1>6

(* A byte is stored in the slot at the head, which is not in the queue.     *)
LEMMA QueuedUntouched ==
    ASSUME IInv, StoreByte
    PROVE  Queued' = Queued
<1>1. m_head \in Offsets /\ m_tail \in Offsets \cup {N} /\ m_buffer \in [0..N - 1 -> Byte]
      /\ packetByteCount \in 0..Length - 1
  BY LengthAssumption DEF IInv, TypeOK, StoreByte
<1>2. ASSUME NEW o \in Offsets, Unread(o) PROVE m_buffer'[o] = m_buffer[o]
  <2>1. o # m_head BY <1>1, <1>2, CountRange DEF Unread
  <2>2. 0 \in 0..Length - 1 /\ o + 0 = o BY OffsetInside, LengthAssumption, StrideAssumption
  <2>3. o # m_head + packetByteCount /\ o \in 0..N - 1 BY <1>1, <2>1, <2>2, SlotCells
  <2> QED BY <1>1, <2>3 DEF StoreByte
<1> QED BY <1>2, QueuedKept DEF StoreByte

-----------------------------------------------------------------------------
(* Each step maps to a step of the queue, or to none.                      *)

(* The numbers of the dispatched packets *)
Taken == [i \in DOMAIN dispatched |-> Serial(dispatched[i])]

(* A step that leaves the contents, the offer and the take alone is none of *)
(* the queue's.                                                             *)
LEMMA Stutters ==
    ASSUME Queued' = Queued, dispatched' = dispatched,
           (loop' = "advance") <=> (loop = "advance"),
           (isr' = "advance") <=> (isr = "advance"), serial' = serial, room' = room
    PROVE  UNCHANGED Queue!vars
BY DEF Queue!vars, Serial

(* The first count of advanceHead begins an offer, and finds no room if the *)
(* queue is full.                                                           *)
LEMMA MeasureOffers ==
    ASSUME IInv, AdvanceHeadMeasure
    PROVE  Queue!Offer(serial) /\ serial \in 1..MaxPackets
<1>1. m_head \in Offsets /\ m_tail \in Offsets \cup {N} /\ serial \in 1..MaxPackets
  BY LengthAssumption, MaxPacketsAssumption DEF IInv, TypeOK, AdvanceInv, AdvanceHeadMeasure
<1>2. Queued' = Queued BY QueuedKept DEF AdvanceHeadMeasure
<1>3. room' = Count(Wrap(m_head + Stride), m_tail) BY DEF AdvanceHeadMeasure
<1> DEFINE n == Size(m_head, m_tail)
<1>4. n \in 0..Slots - 1 /\ Count(m_head, m_tail) = Stride * n /\ Len(Queued) = n
  BY <1>1, SizeRange, QueuedType
<1>5. N - Stride = Stride * (Slots - 1) BY SlotsAssumption, StrideAssumption DEF N
<1>6. (Stride * n = Stride * (Slots - 1)) <=> (n = Slots - 1)
  <2>1. n \in Nat /\ Slots - 1 \in Nat BY <1>4, SlotsAssumption
  <2> QED BY <2>1, DivStride
<1>7. Count(m_head, m_tail) \in Nat /\ Count(m_head, m_tail) + Stride # 0
  BY <1>1, CountRange, BufferSize
<1>8. ASSUME n # Slots - 1 PROVE room' # 0
  BY <1>1, <1>3, <1>4, <1>5, <1>6, <1>7, <1>8, CountNext
<1>9. ASSUME n = Slots - 1 PROVE room' = 0
  <2>1. Wrap(m_head + Stride) \in Offsets BY <1>1, NextOffset
  <2>2. room' \in Nat /\ room' + Stride <= N BY <1>1, <1>3, <2>1, CountRange
  <2> QED BY <1>1, <1>3, <1>4, <1>5, <1>7, <1>9, <2>2, CountNext, BufferSize
<1>10. (room' = 0) <=> (Len(Queued) = Slots - 1) BY <1>4, <1>8, <1>9
<1>11. isr = "store" /\ isr' = "advance" /\ serial' = serial /\ loop' = loop /\ dispatched' = dispatched
  BY DEF AdvanceHeadMeasure, loopVars
<1> QED BY <1>1, <1>2, <1>10, <1>11 DEF Queue!Offer, Serial

(* The second count ends the offer: the packet is kept, or the queue had    *)
(* been full.                                                               *)
LEMMA AdvanceEndsOffer ==
    ASSUME IInv, AdvanceHead
    PROVE  Queue!Keep \/ Queue!Drop
<1>1. isr = "advance" /\ isr' = "store" /\ loop' = loop /\ dispatched' = dispatched
  BY DEF AdvanceHead, loopVars
<1>2. serial # 0 BY MaxPacketsAssumption DEF IInv, TypeOK
<1>3. Queue!EndOffer BY <1>1, <1>2 DEF Queue!EndOffer, Serial
<1>4. CASE m_head' # m_head
  <2>1. Len(Queued) < Slots - 1 /\ Queued' = Append(Queued, serial) BY <1>4, QueuedGrows
  <2> QED BY <1>1, <1>3, <2>1 DEF Queue!Keep
<1>5. CASE m_head' = m_head
  <2>1. Queued' = Queued BY <1>5, QueuedKept DEF AdvanceHead
  <2>2. m_head \in Offsets /\ m_tail \in Offsets \cup {N} BY DEF IInv, TypeOK
  <2>3. newHead # m_head
    <3>1. m_head \in Nat /\ m_head + Stride <= N BY <2>2, OffsetInside
    <3>2. newHead = IF m_head + Stride = N THEN 0 ELSE m_head + Stride
      BY <1>1, <2>2, NextOffset DEF IInv, AdvanceInv
    <3> QED BY <3>1, <3>2, BufferSize
  <2>4. ~(room >= Count(m_head, m_tail)) BY <1>5, <2>3 DEF AdvanceHead
  <2>5. room = 0 BY <1>1, <2>2, <2>4, CountRange, BufferSize DEF IInv, AdvanceInv, TypeOK
  <2> QED BY <1>1, <1>3, <2>1, <2>5 DEF Queue!Drop
<1> QED BY <1>4, <1>5

(* Dispatching takes the first packet of the queue.                         *)
LEMMA DispatchTakes ==
    ASSUME IInv, DispatchPacket
    PROVE  Queue!Take
<1>1. loop = "dispatch" /\ loop' = "advance" /\ isr' = isr /\ serial' = serial /\ room' = room
  BY DEF DispatchPacket, isrVars
<1>2. Queued' = Queued BY QueuedKept DEF DispatchPacket
<1>3. Queued # <<>> /\ Head(Queued) = m_buffer[m_tail][1] /\ m_tail \in Offsets BY <1>1, HeadQueued
<1>4. Serial(PacketAtTail) = m_buffer[m_tail][1]
  <2>1. 0 \in 0..Length - 1 /\ m_tail + 0 = m_tail
    BY <1>3, OffsetInside, LengthAssumption, StrideAssumption
  <2> QED BY <2>1 DEF Serial, PacketAtTail
<1>5. dispatched \in Seq([0..Length - 1 -> Byte]) BY DEF IInv, TypeOK
<1>6. PacketAtTail \in [0..Length - 1 -> Byte]
  <2>1. \A k \in 0..Length - 1 : m_tail + k \in 0..N - 1
    BY <1>3, OffsetInside, LengthAssumption, BufferSize
  <2> QED BY <2>1 DEF PacketAtTail, IInv, TypeOK
<1>7. Taken' = Append(Taken, Serial(PacketAtTail))
  <2>1. dispatched' = Append(dispatched, PacketAtTail) BY DEF DispatchPacket
  <2> DEFINE n == Len(dispatched)
  <2>2. n \in Nat /\ DOMAIN dispatched = 1..n BY <1>5, LenProperties
  <2>3. dispatched' \in Seq([0..Length - 1 -> Byte]) /\ Len(dispatched') = n + 1
        /\ (\A i \in 1..n : dispatched'[i] = dispatched[i]) /\ dispatched'[n + 1] = PacketAtTail
    BY <1>5, <1>6, <2>1, AppendProperties
  <2>4. DOMAIN dispatched' = 1..n + 1 BY <2>3, LenProperties
  <2>5. Taken' = [i \in 1..n + 1 |-> IF i = n + 1 THEN Serial(PacketAtTail) ELSE Taken[i]]
    <3>1. Taken' = [i \in 1..n + 1 |-> dispatched'[i][0][1]] BY <2>4 DEF Taken, Serial
    <3>2. \A i \in 1..n : Taken[i] = dispatched[i][0][1] BY <2>2 DEF Taken, Serial
    <3>3. Serial(PacketAtTail) = PacketAtTail[0][1] BY DEF Serial
    <3> QED BY <2>2, <2>3, <3>1, <3>2, <3>3
  <2> DEFINE R == {Taken[i] : i \in 1..n} \cup {Serial(PacketAtTail)}
  <2>6. Taken \in Seq(R) /\ Len(Taken) = n
    <3>1. Taken = [i \in 1..n |-> Taken[i]] BY <2>2 DEF Taken
    <3>2. Taken \in [1..n -> R] BY <3>1
    <3>3. Taken \in Seq(R) BY <2>2, <3>2, SeqDef
    <3> QED BY <2>2, <3>2, <3>3, LenProperties
  <2>7. Append(Taken, Serial(PacketAtTail)) =
            [i \in 1..n + 1 |-> IF i = n + 1 THEN Serial(PacketAtTail) ELSE Taken[i]]
    <3> DEFINE appended == Append(Taken, Serial(PacketAtTail))
    <3>1. Serial(PacketAtTail) \in R OBVIOUS
    <3>2. appended \in Seq(R) /\ Len(appended) = n + 1
          /\ (\A i \in 1..n : appended[i] = Taken[i]) /\ appended[n + 1] = Serial(PacketAtTail)
      BY <2>6, <3>1, AppendProperties
    <3> HIDE DEF R, appended
    <3>3. appended \in [1..n + 1 -> R] BY <3>2, LenProperties
    <3>4. \A i \in 1..n + 1 : appended[i] = IF i = n + 1 THEN Serial(PacketAtTail) ELSE Taken[i]
      BY <2>2, <3>2
    <3>5. appended = [i \in 1..n + 1 |-> IF i = n + 1 THEN Serial(PacketAtTail) ELSE Taken[i]]
      BY <3>3, <3>4
    <3> QED BY <3>5 DEF appended
  <2> QED BY <2>5, <2>7
<1> QED BY <1>1, <1>2, <1>3, <1>4, <1>7 DEF Queue!Take, Taken

(* advanceTail removes the packet that was taken.                           *)
LEMMA AdvanceRemoves ==
    ASSUME IInv, AdvanceTail
    PROVE  Queue!Remove
BY QueuedShrinks DEF Queue!Remove, AdvanceTail, isrVars, Serial

(* A reset empties the queue, between offers and takes.                     *)
LEMMA ResetClears ==
    ASSUME IInv, Reset
    PROVE  Queue!Clear
<1>1. Size(0, 0) = 0 BY DivStride, StrideAssumption DEF Size, Count
<1>2. Queued' = [j \in 1..Size(0, 0) |-> m_buffer[Slot(0, j)][1]]
  BY DEF Reset, Queued, Size, Slot, Count, Wrap
<1>3. Queued' = <<>> BY <1>1, <1>2
<1> QED BY <1>3 DEF Queue!Clear, Reset, loopVars, Serial

(* Every step of the interrupt routine, the work loop and a reset is a step *)
(* of the queue or leaves it alone.                                         *)
LEMMA Simulation ==
    ASSUME IInv, [Next]_vars
    PROVE  [Queue!Next]_(Queue!vars)
<1>1. CASE StoreByte BY <1>1, QueuedUntouched, Stutters DEF StoreByte, loopVars
<1>2. CASE AdvanceHeadMeasure BY <1>2, MeasureOffers DEF Queue!Next
<1>3. CASE AdvanceHead BY <1>3, AdvanceEndsOffer DEF Queue!Next
<1>4. CASE WakeWorkLoop BY <1>4, QueuedKept, Stutters DEF WakeWorkLoop
<1>5. CASE PacketReady BY <1>5, QueuedKept, Stutters DEF PacketReady, isrVars
<1>6. CASE CheckCount BY <1>6, QueuedKept, Stutters DEF CheckCount, isrVars
<1>7. CASE DispatchPacket BY <1>7, DispatchTakes DEF Queue!Next
<1>8. CASE AdvanceTail BY <1>8, AdvanceRemoves DEF Queue!Next
<1>9. CASE WrapTail BY <1>9, QueuedWrapped, Stutters DEF WrapTail, isrVars
<1>10. CASE Reset BY <1>10, ResetClears DEF Queue!Next
<1>11. CASE UNCHANGED vars BY <1>11, QueuedKept, Stutters DEF vars, isrVars, loopVars
<1> QED
  BY <1>1, <1>2, <1>3, <1>4, <1>5, <1>6, <1>7, <1>8, <1>9, <1>10, <1>11 DEF Next, Interrupt, WorkLoop

(* The ring buffer starts as an empty queue.                                *)
LEMMA StartsEmpty == Init => Queue!Init
<1> SUFFICES ASSUME Init PROVE Queue!Init OBVIOUS
<1>1. Size(0, 0) = 0 BY DivStride, StrideAssumption DEF Size, Count
<1>2. Queued = [j \in 1..Size(0, 0) |-> m_buffer[Slot(0, j)][1]] BY DEF Init, Queued, Size, Slot
<1>3. Queued = <<>> BY <1>1, <1>2
<1> QED BY <1>3 DEF Queue!Init, Init

(* For every slot size, buffer size and number of packets, the unlocked     *)
(* ring of ApplePS2Device.h between one interrupt routine and one work loop *)
(* implements the bounded first-in first-out queue: advanceHead refuses a   *)
(* packet only if 31 of 32 slots were taken while it looked.                *)
THEOREM RingImplementsQueue == Spec => ImplementsQueue
<1>1. Init => Queue!Init BY StartsEmpty
<1>2. IInv /\ [Next]_vars => [Queue!Next]_(Queue!vars) BY Simulation
<1>3. Spec => []IInv BY Invariance
<1> QED BY <1>1, <1>2, <1>3, PTL DEF Spec, ImplementsQueue, Queue!Spec
=============================================================================
