------------------------- MODULE ControllerDataProofs -------------------------
(***************************************************************************)
(* The data of the devices, for any requests, commands, calls, devices,     *)
(* timeouts and processors: what interruptOccurred gets of it is in order,  *)
(* and nothing twice, until a poll and the interrupt routine overlap.  A    *)
(* byte of data passes from the device through the output buffer to the     *)
(* driver, by way of the interrupt routine or of a poll, each of which may  *)
(* have taken one byte that it has not dispatched.  The proof numbers the   *)
(* stations a byte can be at: each holds younger data than the one after    *)
(* it.                                                                      *)
(***************************************************************************)
EXTENDS PS2ControllerProofs, SequenceTheorems

(* A sequence, whatever its elements are *)
IsSeq(s) == s \in Seq({s[i] : i \in DOMAIN s})

(* A function on the first natural numbers is a sequence. *)
LEMMA FunctionIsSeq ==
    ASSUME NEW n \in Nat, NEW f, NEW S, f \in [1..n -> S] PROVE IsSeq(f)
<1>1. f \in [1..n -> {f[j] : j \in DOMAIN f}] OBVIOUS
<1> QED BY <1>1 DEF IsSeq

(* Sequences are extended and shortened without regard to their elements. *)
LEMMA SeqAppend ==
    ASSUME NEW s, IsSeq(s), NEW e
    PROVE  /\ IsSeq(Append(s, e))
           /\ Len(s) \in Nat /\ DOMAIN s = 1..Len(s)
           /\ DOMAIN Append(s, e) = 1..(Len(s) + 1)
           /\ \A i \in 1..Len(s) : Append(s, e)[i] = s[i]
           /\ Append(s, e)[Len(s) + 1] = e
<1> DEFINE S == {s[i] : i \in DOMAIN s} \cup {e}
           a == Append(s, e)
<1>1. s \in Seq(S) BY DEF IsSeq
<1> HIDE DEF S
<1>2. e \in S BY DEF S
<1>3. /\ a \in Seq(S) /\ Len(a) = Len(s) + 1 /\ DOMAIN a = 1..Len(a) /\ Len(s) \in Nat
      /\ DOMAIN s = 1..Len(s) /\ \A i \in 1..Len(s) : a[i] = s[i] /\ a[Len(s) + 1] = e
  BY <1>1, <1>2, AppendProperties, LenProperties
<1>4. IsSeq(a)
  <2> HIDE DEF a
  <2> QED BY <1>3, LenProperties, FunctionIsSeq
<1>5. a[Len(s) + 1] = e BY <1>1, <1>2, AppendProperties
<1> QED BY <1>3, <1>4, <1>5

(* The rest of a sequence is one. *)
LEMMA SeqTail ==
    ASSUME NEW s, IsSeq(s), s # <<>>
    PROVE  /\ IsSeq(Tail(s)) /\ Len(s) \in Nat \ {0} /\ DOMAIN s = 1..Len(s)
           /\ DOMAIN Tail(s) = 1..(Len(s) - 1) /\ Head(s) = s[1]
           /\ \A i \in 1..(Len(s) - 1) : Tail(s)[i] = s[i + 1]
<1> DEFINE S == {s[i] : i \in DOMAIN s}
           t == Tail(s)
<1>1. s \in Seq(S) BY DEF IsSeq
<1> HIDE DEF S
<1>2. /\ t \in Seq(S) /\ Len(t) = Len(s) - 1 /\ DOMAIN t = 1..Len(t) /\ Len(s) \in Nat \ {0}
      /\ DOMAIN s = 1..Len(s) /\ Head(s) = s[1] /\ \A i \in 1..Len(t) : t[i] = s[i + 1]
  BY <1>1, HeadTailProperties, LenProperties, EmptySeq
<1>3. IsSeq(t)
  <2> HIDE DEF t
  <2> QED BY Zenon, <1>2, LenProperties, FunctionIsSeq
<1> QED BY <1>2, <1>3

-----------------------------------------------------------------------------
DataOf(bytes) == {i \in DOMAIN bytes : IsData(bytes[i])}

(* The data of a device that has sent n bytes of it: d is what its driver   *)
(* has got, H and P are the numbers of the byte that was taken and not      *)
(* dispatched and of the byte in the output buffer, and w is what the       *)
(* device is sending.                                                       *)
Older(d, n) == \A i \in DataOf(d) : d[i][2] < n

Order(n, d, H, P, w) ==
    /\ n \in Nat /\ IsSeq(d) /\ IsSeq(w)
    /\ \A i \in DataOf(d) : d[i][2] \in Nat /\ d[i][2] <= n
    /\ \A i, j \in DataOf(d) : i < j => d[i][2] < d[j][2]
    /\ \A h \in H : h \in Nat /\ h <= n /\ Older(d, h)
    /\ \A p \in P : p \in Nat /\ p <= n /\ Older(d, p) /\ \A h \in H : h < p
    /\ \A k \in DataOf(w) : /\ w[k][2] \in Nat /\ w[k][2] <= n /\ Older(d, w[k][2])
                            /\ \A h \in H \cup P : h < w[k][2]
    /\ \A k, m \in DataOf(w) : k < m => w[k][2] < w[m][2]

(* Data may be dropped from where it waits. *)
LEMMA OrderDrop ==
    ASSUME NEW n, NEW d, NEW H, NEW P, NEW w, Order(n, d, H, P, w),
           NEW G \in SUBSET H, NEW Q \in SUBSET P
    PROVE  Order(n, d, G, Q, w)
BY SMTT(30) DEF Order

(* What is no data may be dispatched at any time. *)
LEMMA OrderOther ==
    ASSUME NEW n, NEW d, NEW H, NEW P, NEW w, Order(n, d, H, P, w), NEW b, ~IsData(b)
    PROVE  Order(n, Append(d, b), H, P, w)
<1> DEFINE a == Append(d, b)
<1>1. IsSeq(a) /\ DataOf(a) = DataOf(d) /\ \A i \in DataOf(d) : a[i] = d[i]
  BY SeqAppend DEF Order, DataOf
<1> HIDE DEF a
<1>2. ASSUME NEW m PROVE Older(d, m) => Older(a, m)
  BY <1>1 DEF Older
<1>3. n \in Nat /\ IsSeq(w) BY DEF Order
<1>4. \A i \in DataOf(a) : a[i][2] \in Nat /\ a[i][2] <= n
  BY <1>1 DEF Order
<1>5. \A i, j \in DataOf(a) : i < j => a[i][2] < a[j][2]
  BY <1>1 DEF Order
<1>6. \A h \in H : h \in Nat /\ h <= n /\ Older(a, h)
  BY <1>2 DEF Order
<1>7. \A p \in P : p \in Nat /\ p <= n /\ Older(a, p) /\ \A h \in H : h < p
  BY <1>2 DEF Order
<1>8. /\ \A k \in DataOf(w) : /\ w[k][2] \in Nat /\ w[k][2] <= n /\ Older(a, w[k][2])
                              /\ \A h \in H \cup P : h < w[k][2]
      /\ \A k, m \in DataOf(w) : k < m => w[k][2] < w[m][2]
  BY <1>2 DEF Order
<1>9. Order(n, a, H, P, w)
  BY <1>1, <1>3, <1>4, <1>5, <1>6, <1>7, <1>8 DEF Order
<1> QED BY <1>9 DEF a

(* Data that is older than all that waits, and younger than all that was    *)
(* dispatched, may be dispatched.                                           *)
LEMMA OrderNext ==
    ASSUME NEW n, NEW d, NEW P, NEW w, Order(n, d, {}, P, w), NEW b,
           b[2] \in Nat, b[2] <= n, Older(d, b[2]),
           \A p \in P : b[2] < p, \A k \in DataOf(w) : b[2] < w[k][2]
    PROVE  Order(n, Append(d, b), {}, P, w)
<1> DEFINE a == Append(d, b)
           l == Len(d) + 1
<1>1. /\ IsSeq(a) /\ a[l] = b /\ Len(d) \in Nat /\ DOMAIN d = 1..Len(d) /\ DOMAIN a = 1..l
      /\ \A i \in 1..Len(d) : a[i] = d[i]
  BY SeqAppend DEF Order
<1> HIDE DEF a
<1>2. \A i \in DataOf(a) : i = l \/ (i \in DataOf(d) /\ i < l /\ a[i] = d[i])
  BY <1>1 DEF DataOf
<1>3. \A i \in DataOf(a) : a[i][2] \in Nat /\ a[i][2] <= n
  BY <1>1, <1>2 DEF Order
<1>4. \A i, j \in DataOf(a) : i < j => a[i][2] < a[j][2]
  <2> SUFFICES ASSUME NEW i \in DataOf(a), NEW j \in DataOf(a), i < j PROVE a[i][2] < a[j][2]
    OBVIOUS
  <2>1. i \in Nat /\ j \in Nat /\ i # l BY <1>1, <1>2 DEF DataOf
  <2>2. i \in DataOf(d) /\ a[i] = d[i] BY <1>2, <2>1
  <2>3. CASE j = l BY <2>2, <2>3, <1>1 DEF Older
  <2>4. CASE j # l BY <2>2, <2>4, <1>2 DEF Order
  <2> QED BY <2>3, <2>4
<1>5. ASSUME NEW m, Older(d, m), b[2] < m PROVE Older(a, m)
  BY <1>1, <1>2, <1>5 DEF Older
<1>6. n \in Nat /\ IsSeq(w) BY DEF Order
<1>7. \A p \in P : p \in Nat /\ p <= n /\ Older(a, p) BY <1>5 DEF Order
<1>8. \A k \in DataOf(w) : /\ w[k][2] \in Nat /\ w[k][2] <= n /\ Older(a, w[k][2])
                           /\ \A h \in P : h < w[k][2]
  BY <1>5 DEF Order
<1>9. \A k, m \in DataOf(w) : k < m => w[k][2] < w[m][2] BY DEF Order
<1>10. Order(n, a, {}, P, w) BY <1>1, <1>3, <1>4, <1>6, <1>7, <1>8, <1>9 DEF Order
<1> QED BY <1>10 DEF a

(* The byte of the output buffer may be dispatched, or taken. *)
LEMMA OrderTake ==
    ASSUME NEW n, NEW d, NEW H, NEW b, NEW w, Order(n, d, H, {b[2]}, w)
    PROVE  Order(n, Append(d, b), {}, {}, w) /\ Order(n, d, {b[2]}, {}, w)
<1>1. b[2] \in Nat /\ b[2] <= n /\ Older(d, b[2]) /\ \A k \in DataOf(w) : b[2] < w[k][2]
  BY DEF Order
<1>2. Order(n, Append(d, b), {}, {}, w)
  <2>1. Order(n, d, {}, {}, w) BY OrderDrop
  <2> QED BY <1>1, <2>1, OrderNext
<1>3. /\ n \in Nat /\ IsSeq(d) /\ IsSeq(w)
      /\ \A i \in DataOf(d) : d[i][2] \in Nat /\ d[i][2] <= n
      /\ \A i, j \in DataOf(d) : i < j => d[i][2] < d[j][2]
      /\ \A k \in DataOf(w) : w[k][2] \in Nat /\ w[k][2] <= n /\ Older(d, w[k][2])
      /\ \A k, m \in DataOf(w) : k < m => w[k][2] < w[m][2]
  BY DEF Order
<1>4. Order(n, d, {b[2]}, {}, w) BY <1>1, <1>3 DEF Order
<1> QED BY <1>2, <1>4

(* The byte that was taken may be dispatched. *)
LEMMA OrderGiveBack ==
    ASSUME NEW n, NEW d, NEW P, NEW b, NEW w, Order(n, d, {b[2]}, P, w)
    PROVE  Order(n, Append(d, b), {}, P, w)
<1>1. Order(n, d, {}, P, w) BY OrderDrop
<1>2. /\ b[2] \in Nat /\ b[2] <= n /\ Older(d, b[2])
      /\ (\A p \in P : b[2] < p) /\ \A k \in DataOf(w) : b[2] < w[k][2]
  BY DEF Order
<1> QED BY <1>1, <1>2, OrderNext

(* The device's next byte may move to the empty output buffer. *)
LEMMA OrderDeliver ==
    ASSUME NEW n, NEW d, NEW H, NEW w, Order(n, d, H, {}, w), w # <<>>
    PROVE  Order(n, d, H, IF IsData(Head(w)) THEN {Head(w)[2]} ELSE {}, Tail(w))
<1> DEFINE t == Tail(w)
           P == IF IsData(Head(w)) THEN {Head(w)[2]} ELSE {}
<1>1. /\ IsSeq(t) /\ Len(w) \in Nat \ {0} /\ DOMAIN w = 1..Len(w) /\ Head(w) = w[1]
      /\ DOMAIN t = 1..(Len(w) - 1) /\ \A i \in 1..(Len(w) - 1) : t[i] = w[i + 1]
  BY SeqTail DEF Order
<1> HIDE DEF t
<1>2. \A k \in DataOf(t) : k \in Nat \ {0} /\ k + 1 \in DataOf(w) /\ t[k] = w[k + 1]
  BY <1>1 DEF DataOf
<1>3. /\ \A k \in DataOf(w) : /\ w[k][2] \in Nat /\ w[k][2] <= n /\ Older(d, w[k][2])
                              /\ \A h \in H : h < w[k][2]
      /\ \A k, m \in DataOf(w) : k < m => w[k][2] < w[m][2]
  BY DEF Order
<1>4. P # {} => 1 \in DataOf(w) /\ P = {w[1][2]} BY <1>1 DEF DataOf
<1> HIDE DEF P
<1>5. /\ \A p \in P : p \in Nat /\ p <= n /\ Older(d, p) /\ \A h \in H : h < p
      /\ \A k \in DataOf(w) : k \in Nat /\ 1 < k => \A p \in P : p < w[k][2]
  BY <1>3, <1>4
<1>6. \A k \in DataOf(t) : /\ t[k][2] \in Nat /\ t[k][2] <= n /\ Older(d, t[k][2])
                           /\ \A h \in H \cup P : h < t[k][2]
  BY <1>2, <1>3, <1>5
<1>7. \A k, m \in DataOf(t) : k < m => t[k][2] < t[m][2] BY <1>2, <1>3
<1>8. /\ n \in Nat /\ IsSeq(d)
      /\ \A i \in DataOf(d) : d[i][2] \in Nat /\ d[i][2] <= n
      /\ \A i, j \in DataOf(d) : i < j => d[i][2] < d[j][2]
      /\ \A h \in H : h \in Nat /\ h <= n /\ Older(d, h)
  BY DEF Order
<1>9. Order(n, d, H, P, t) BY <1>1, <1>5, <1>6, <1>7, <1>8 DEF Order
<1> QED BY <1>9 DEF P, t

(* A device may send more data of its own. *)
LEMMA OrderNew ==
    ASSUME NEW n, NEW d, NEW H, NEW P, NEW w, Order(n, d, H, P, w), NEW v
    PROVE  Order(n + 1, d, H, P, Append(w, <<"data", n + 1, v>>))
<1> DEFINE b == <<"data", n + 1, v>>
           a == Append(w, b)
           l == Len(w) + 1
<1>1. /\ IsSeq(a) /\ a[l] = b /\ Len(w) \in Nat /\ DOMAIN w = 1..Len(w) /\ DOMAIN a = 1..l
      /\ \A i \in 1..Len(w) : a[i] = w[i]
  BY SeqAppend DEF Order
<1>2. b[2] = n + 1 BY SMTT(30)
<1> HIDE DEF a, b
<1>3. \A k \in DataOf(a) : k = l \/ (k \in DataOf(w) /\ k < l /\ a[k] = w[k])
  BY <1>1 DEF DataOf
<1>4. n \in Nat /\ IsSeq(d) BY DEF Order
<1>5. /\ \A i \in DataOf(d) : d[i][2] \in Nat /\ d[i][2] <= n + 1
      /\ Older(d, n + 1)
  BY <1>4 DEF Order, Older
<1>6. \A i, j \in DataOf(d) : i < j => d[i][2] < d[j][2] BY DEF Order
<1>7. \A h \in H : h \in Nat /\ h <= n + 1 /\ h < n + 1 /\ Older(d, h)
  BY <1>4 DEF Order
<1>8. \A p \in P : /\ p \in Nat /\ p <= n + 1 /\ p < n + 1 /\ Older(d, p)
                   /\ \A h \in H : h < p
  BY <1>4 DEF Order
<1>9. \A k \in DataOf(a) : /\ a[k][2] \in Nat /\ a[k][2] <= n + 1 /\ Older(d, a[k][2])
                           /\ \A h \in H \cup P : h < a[k][2]
  <2> SUFFICES ASSUME NEW k \in DataOf(a)
               PROVE  /\ a[k][2] \in Nat /\ a[k][2] <= n + 1 /\ Older(d, a[k][2])
                      /\ \A h \in H \cup P : h < a[k][2]
    OBVIOUS
  <2>1. CASE k = l BY <2>1, <1>1, <1>2, <1>4, <1>5, <1>7, <1>8
  <2>2. CASE k # l
    <3>1. k \in DataOf(w) /\ a[k] = w[k] BY <1>3, <2>2
    <3> QED BY <3>1, <1>4 DEF Order
  <2> QED BY <2>1, <2>2
<1>10. \A k, m \in DataOf(a) : k < m => a[k][2] < a[m][2]
  <2> SUFFICES ASSUME NEW k \in DataOf(a), NEW m \in DataOf(a), k < m PROVE a[k][2] < a[m][2]
    OBVIOUS
  <2>1. k \in Nat /\ m \in Nat /\ k # l BY <1>1, <1>3 DEF DataOf
  <2>2. k \in DataOf(w) /\ a[k] = w[k] BY <1>3, <2>1
  <2>3. CASE m = l BY <2>2, <2>3, <1>1, <1>2, <1>4 DEF Order
  <2>4. CASE m # l BY SMTT(30), <2>2, <2>4, <1>3 DEF Order
  <2> QED BY <2>3, <2>4
<1>11. Order(n + 1, d, H, P, a)
  BY <1>1, <1>4, <1>5, <1>6, <1>7, <1>8, <1>9, <1>10 DEF Order
<1> QED BY <1>11 DEF a, b

(* A device may send what is no data at any time. *)
LEMMA OrderAnswer ==
    ASSUME NEW n, NEW d, NEW H, NEW P, NEW w, Order(n, d, H, P, w), NEW b, ~IsData(b)
    PROVE  Order(n, d, H, P, Append(w, b))
<1> DEFINE a == Append(w, b)
<1>1. /\ IsSeq(a) /\ DataOf(a) = DataOf(w) /\ \A k \in DataOf(w) : a[k] = w[k]
  BY SeqAppend DEF Order, DataOf
<1> HIDE DEF a
<1>2. Order(n, d, H, P, a) BY <1>1 DEF Order
<1> QED BY <1>2 DEF a

-----------------------------------------------------------------------------
(* A sequence of answers: bytes that are no data *)
Answers(w) == IsSeq(w) /\ DataOf(w) = {}

(* One more answer makes a sequence of answers. *)
LEMMA AnswersAppend ==
    ASSUME NEW w, Answers(w), NEW b, ~IsData(b) PROVE Answers(Append(w, b))
<1> DEFINE a == Append(w, b)
<1>1. /\ IsSeq(a) /\ a[Len(w) + 1] = b /\ Len(w) \in Nat /\ DOMAIN w = 1..Len(w)
      /\ DOMAIN a = 1..(Len(w) + 1) /\ \A i \in 1..Len(w) : a[i] = w[i]
  BY SeqAppend DEF Answers
<1>2. \A i \in 1..Len(w) : ~IsData(w[i]) BY Zenon, <1>1 DEF Answers, DataOf
<1> HIDE DEF a
<1>3. ASSUME NEW i \in DOMAIN a PROVE ~IsData(a[i])
  <2>1. i = Len(w) + 1 \/ i \in 1..Len(w) BY <1>1
  <2> QED BY <2>1, <1>1, <1>2
<1>4. Answers(a) BY <1>1, <1>3 DEF Answers, DataOf
<1> QED BY <1>4 DEF a

(* The first of them is no data, and the others are answers. *)
LEMMA AnswersTail ==
    ASSUME NEW w, Answers(w), w # <<>> PROVE ~IsData(Head(w)) /\ Answers(Tail(w))
<1> DEFINE t == Tail(w)
<1>1. /\ IsSeq(t) /\ Len(w) \in Nat \ {0} /\ DOMAIN w = 1..Len(w) /\ Head(w) = w[1]
      /\ DOMAIN t = 1..(Len(w) - 1) /\ \A i \in 1..(Len(w) - 1) : t[i] = w[i + 1]
  BY SeqTail DEF Answers
<1> HIDE DEF t
<1>2. \A i \in 1..Len(w) : ~IsData(w[i]) BY <1>1 DEF Answers, DataOf
<1>3. ~IsData(Head(w)) BY <1>1, <1>2
<1>4. \A i \in 1..(Len(w) - 1) : ~IsData(t[i])
  <2> SUFFICES ASSUME NEW i \in 1..(Len(w) - 1) PROVE ~IsData(t[i]) OBVIOUS
  <2>1. i + 1 \in 1..Len(w) /\ t[i] = w[i + 1] BY <1>1
  <2> QED BY <2>1, <1>2
<1>5. Answers(t) BY <1>1, <1>4 DEF Answers, DataOf
<1> QED BY <1>3, <1>5 DEF t

-----------------------------------------------------------------------------
(* The invariant.  Shape says what the variables are, Port that a reader    *)
(* that saw a byte in the output buffer still finds it there, and that only *)
(* a read under way has a byte set aside.                                   *)

HeldNumbers(s) ==
    IF Held /\ reading.from = s /\ IsData(reading.first) THEN {reading.first[2]} ELSE {}

IsrNumbers(s) ==
    IF isr = "dispatch" /\ isrStatus = s /\ IsData(isrByte) THEN {isrByte[2]} ELSE {}

TakenNumbers(s) == HeldNumbers(s) \cup IsrNumbers(s)

PortNumbers(s) ==
    IF outBuf # <<>> /\ Head(outBuf).stream = s /\ IsData(Head(outBuf).byte)
    THEN {Head(outBuf).byte[2]} ELSE {}

StreamOrder(s) == Order(sent[s], dispatched[s], TakenNumbers(s), PortNumbers(s), sending[s])

Shape ==
    /\ sent = [s \in Stream |-> sent[s]]
    /\ dispatched = [s \in Stream |-> dispatched[s]]
    /\ sending = [s \in Source |-> sending[s]]
    /\ answering = [s \in Stream |-> answering[s]]
    /\ reading = [from |-> reading.from, expect |-> reading.expect,
                  first |-> reading.first, status |-> reading.status]
    /\ deviceMode \in Stream
    /\ Answers(sending["8042"])
    /\ \A s \in Stream : Answers(answering[s])

ReadingPort == {"poll", "data"}

Port ==
    /\ outBuf # <<>> => Head(outBuf).stream \in Stream
    /\ isr = "data" => outBuf # <<>> /\ isrStatus = Head(outBuf).stream
    /\ isr = "dispatch" => isrStatus \in Stream
    /\ pc = "data" => outBuf # <<>> /\ reading.status = Head(outBuf).stream
    /\ IF pc \in ReadingPort THEN reading.from \in Stream ELSE ~Held

Ordered == \A s \in Stream : StreamOrder(s)

Sound == Shape /\ Port /\ Ordered

NoOverlap == "overlap" \notin broken

DInv == IInv /\ (NoOverlap => Sound)

(* No byte was sent yet. *)
LEMMA InitDInv == Init => DInv
<1> SUFFICES ASSUME Init PROVE DInv OBVIOUS
<1>1. Answers(<<>>)
  BY DEF IsSeq, DataOf, Answers
<1>2. Shape BY <1>1 DEF Init, Shape, NotReading, Source, Stream
<1>3. Port BY SMTT(30) DEF Init, Port, ReadingPort, Held, NotReading
<1>4. ASSUME NEW s \in Stream PROVE StreamOrder(s)
  <2>1. sent[s] = 0 /\ dispatched[s] = <<>> /\ sending[s] = <<>> BY DEF Init, Source
  <2>2. TakenNumbers(s) = {} /\ PortNumbers(s) = {}
    BY DEF Init, TakenNumbers, HeldNumbers, IsrNumbers, PortNumbers, Held, NotReading
  <2> QED BY <1>1, <2>1, <2>2 DEF StreamOrder, Order, Answers
<1> QED BY <1>2, <1>3, <1>4, InitIInv DEF DInv, Sound, Ordered

(* While the port is polled, no interrupt routine is about. *)
LEMMA PollsWithoutInterrupt == ASSUME IInv, NoOverlap, pc \in Polling PROVE isr = "idle"
BY SMTT(30) DEF IInv, PollingAlone, NoOverlap

(* Order is kept when nothing moves, or something is thrown away. *)
LEMMA KeepOrder ==
    ASSUME Ordered, UNCHANGED <<sent, dispatched>>, \A s \in Stream : sending'[s] = sending[s],
           UNCHANGED outBuf \/ outBuf' = <<>>, UNCHANGED reading \/ ~Held',
           UNCHANGED isrVars \/ isr' # "dispatch"
    PROVE  Ordered'
<1> SUFFICES ASSUME NEW s \in Stream PROVE StreamOrder(s)' BY DEF Ordered
<1>1. HeldNumbers(s)' \in SUBSET HeldNumbers(s) BY DEF HeldNumbers, Held
<1>2. IsrNumbers(s)' \in SUBSET IsrNumbers(s) BY DEF IsrNumbers, isrVars
<1>3. TakenNumbers(s)' \in SUBSET TakenNumbers(s) BY <1>1, <1>2 DEF TakenNumbers
<1>4. PortNumbers(s)' \in SUBSET PortNumbers(s) BY DEF PortNumbers
<1>5. StreamOrder(s) BY DEF Ordered
<1> QED BY <1>3, <1>4, <1>5, OrderDrop DEF StreamOrder

(* A step that does not touch data at all *)
LEMMA AsideSound ==
    ASSUME Sound,
           UNCHANGED <<sent, dispatched, sending, answering, outBuf, reading, pc, deviceMode>>,
           UNCHANGED isrVars \/ isr' \notin {"data", "dispatch"}
    PROVE  Sound'
<1>1. Shape' BY SMTT(30) DEF Shape, Sound
<1>2. Port' BY DEF Port, Held, isrVars, Sound
<1>3. Ordered' BY KeepOrder DEF Sound
<1> QED BY <1>1, <1>2, <1>3 DEF Sound

(* The 8042 asked for its command byte sends something that is no data. *)
LEMMA CommandByteSent ==
    ASSUME Shape, NEW bits,
           sending' = [sending EXCEPT !["8042"] = Append(@, <<"cmd", bits>>)]
    PROVE  /\ sending' = [s \in Source |-> sending'[s]]
           /\ \A s \in Stream : sending'[s] = sending[s]
           /\ Answers(sending'["8042"])
<1> DEFINE w == sending["8042"]
           b == <<"cmd", bits>>
           a == Append(w, b)
<1>1. sending = [s \in Source |-> sending[s]] /\ Answers(w) BY DEF Shape
<1>2. sending'["8042"] = a /\ sending' = [s \in Source |-> sending'[s]]
  BY Zenon, <1>1 DEF Source
<1>3. \A s \in Stream : sending'[s] = sending[s] BY <1>1 DEF Source, Stream
<1>4. ~IsData(b) BY DEF IsData
<1>5. Answers(a) BY <1>1, <1>4, AnswersAppend
<1> QED BY Zenon, <1>2, <1>3, <1>5

(* A step of the work loop that dispatches nothing and keeps no byte aside: *)
(* it may ask for the command byte and begin or end a read, and with no     *)
(* interrupt routine about it may empty the output buffer.                  *)
QuietStep ==
    /\ UNCHANGED <<sent, dispatched, answering, isrVars>> /\ deviceMode' \in Stream
    /\ UNCHANGED outBuf \/ (outBuf' = <<>> /\ isr = "idle")
    /\ \/ UNCHANGED sending
       \/ sending' = [sending EXCEPT !["8042"] = Append(@, <<"cmd", commandByte>>)]
    /\ \/ UNCHANGED reading /\ pc \notin ReadingPort /\ pc' \notin ReadingPort
       \/ reading' = NotReading /\ pc' \notin ReadingPort
       \/ \E s \in Stream : \E e : StartReading(s, e)

(* readDataPort begins with nothing set aside. *)
LEMMA StartReads ==
    ASSUME NEW s, NEW e, StartReading(s, e)
    PROVE  pc' = "poll" /\ reading' = [from |-> s, expect |-> e, first |-> NoByte, status |-> None]
BY Zenon, Zenon DEF StartReading, NotReading

(* Such a step keeps the order of the data. *)
LEMMA QuietSound ==
    ASSUME Sound, QuietStep PROVE Sound'
<1>1. /\ Shape /\ Port /\ Ordered /\ deviceMode' \in Stream
      /\ UNCHANGED <<sent, dispatched, answering, isrVars>>
      /\ UNCHANGED outBuf \/ (outBuf' = <<>> /\ isr = "idle")
  BY DEF Sound, QuietStep
<1>2. /\ sending' = [s \in Source |-> sending'[s]]
      /\ \A s \in Stream : sending'[s] = sending[s]
      /\ Answers(sending'["8042"])
  <2>1. CASE UNCHANGED sending BY Zenon, <1>1, <2>1 DEF Shape
  <2>2. CASE sending' = [sending EXCEPT !["8042"] = Append(@, <<"cmd", commandByte>>)]
    BY Zenon, <1>1, <2>2, CommandByteSent
  <2> QED BY <2>1, <2>2 DEF QuietStep
<1>3. /\ reading' = [from |-> reading'.from, expect |-> reading'.expect,
                    first |-> reading'.first, status |-> reading'.status]
      /\ IF pc' \in ReadingPort THEN pc' = "poll" /\ reading'.from \in Stream ELSE TRUE
      /\ ~Held'
  <2>1. CASE UNCHANGED reading /\ pc \notin ReadingPort /\ pc' \notin ReadingPort
    BY <1>1, <2>1 DEF Port, Held, Shape
  <2>2. CASE reading' = NotReading /\ pc' \notin ReadingPort
    BY <2>2 DEF NotReading, Held
  <2>3. ASSUME NEW s \in Stream, NEW e, StartReading(s, e)
        PROVE  /\ reading' = [from |-> reading'.from, expect |-> reading'.expect,
                              first |-> reading'.first, status |-> reading'.status]
               /\ ~Held' /\ reading'.from \in Stream /\ pc' = "poll"
    BY <2>3, StartReads DEF Held
  <2> QED BY <2>1, <2>2, <2>3 DEF ReadingPort, QuietStep
<1>4. Shape' BY <1>1, <1>2, <1>3 DEF Shape
<1>5. Port'
  <2>1. outBuf' # <<>> => Head(outBuf').stream \in Stream BY <1>1 DEF Port
  <2>2. /\ isr' = "data" => outBuf' # <<>> /\ isrStatus' = Head(outBuf').stream
        /\ isr' = "dispatch" => isrStatus' \in Stream
    BY <1>1 DEF isrVars, Port
  <2>3. pc' # "data" BY <1>3 DEF ReadingPort
  <2> QED BY <1>3, <2>1, <2>2, <2>3 DEF Port
<1>6. Ordered' BY <1>1, <1>2, <1>3, KeepOrder
<1> QED BY <1>4, <1>5, <1>6 DEF Sound

(* A byte moves from its device, or from the 8042, to the output buffer. *)
LEMMA DeliverSound ==
    ASSUME Sound, NEW source \in Source, Deliver(source) PROVE Sound'
<1> DEFINE w == sending[source]
<1>1. Shape /\ Port /\ Ordered BY DEF Sound
<1>2. /\ outBuf = <<>> /\ w # <<>>
      /\ outBuf' = <<[stream |-> StreamOf(source), byte |-> Head(w)]>>
      /\ sending' = [sending EXCEPT ![source] = Tail(@)]
      /\ UNCHANGED <<sent, dispatched, answering, reading, isr, isrStatus, isrByte, pc, deviceMode>>
  BY DEF Deliver, isrVars, loopVars, localVars
<1>3. /\ sending' = [s \in Source |-> sending'[s]] /\ sending'[source] = Tail(w)
      /\ \A s \in Source \ {source} : sending'[s] = sending[s]
  <2>1. sending = [s \in Source |-> sending[s]] BY <1>1 DEF Shape
  <2> QED BY Zenon, <1>2, <2>1
<1>4. source = "8042" => Answers(Tail(w)) /\ ~IsData(Head(w))
  BY <1>1, <1>2, AnswersTail DEF Shape
<1>5. outBuf' # <<>> /\ Head(outBuf').stream = StreamOf(source) /\ Head(outBuf').byte = Head(w)
  BY <1>2
<1> HIDE DEF w
<1>6. Shape'
  <2>1. Answers(sending'["8042"])
    BY Zenon, <1>1, <1>3, <1>4 DEF Shape, Source
  <2> QED BY Zenon, <1>1, <1>2, <1>3, <2>1 DEF Shape
<1>7. Port'
  <2>1. StreamOf(source) \in Stream BY DEF StreamOf, Source, Stream
  <2> QED BY <1>1, <1>2, <1>5, <2>1 DEF Port, Held
<1>8. ASSUME NEW s \in Stream PROVE StreamOrder(s)'
  <2>1. TakenNumbers(s)' = TakenNumbers(s)
    BY SMTT(30), <1>2 DEF TakenNumbers, HeldNumbers, IsrNumbers, Held
  <2>2. Order(sent[s], dispatched[s], TakenNumbers(s), {}, sending[s])
    BY <1>1, <1>2 DEF Ordered, StreamOrder, PortNumbers
  <2>3. CASE s = source
    <3>1. PortNumbers(s)' = IF IsData(Head(w)) THEN {Head(w)[2]} ELSE {}
      BY ZenonT(30), <2>3, <1>5 DEF PortNumbers, StreamOf, Stream
    <3>2. Order(sent[s], dispatched[s], TakenNumbers(s), PortNumbers(s)', Tail(w))
      BY Zenon, <2>2, <2>3, <3>1, <1>2, OrderDeliver DEF w
    <3> QED BY Zenon, <3>2, <2>1, <2>3, <1>2, <1>3 DEF StreamOrder
  <2>4. CASE s # source
    <3>1. PortNumbers(s)' = {}
      BY <2>4, <1>4, <1>5 DEF PortNumbers, StreamOf
    <3>2. sending'[s] = sending[s] BY <2>4, <1>3 DEF Source
    <3> QED BY SMTT(30), <3>1, <3>2, <2>1, <2>2, <1>2 DEF StreamOrder
  <2> QED BY SMTT(30), <2>3, <2>4
<1> QED BY <1>6, <1>7, <1>8 DEF Sound, Ordered

(* A step of a device that adds to what it is sending *)
LEMMA SendSound ==
    ASSUME Sound, NEW s \in Stream,
           UNCHANGED <<outBuf, dispatched, reading, isr, isrStatus, isrByte, pc, deviceMode>>,
           answering' = [t \in Stream |-> answering'[t]],
           \A t \in Stream : Answers(answering'[t]),
           NEW w, sending' = [sending EXCEPT ![s] = w],
           NEW n, sent' = [sent EXCEPT ![s] = n],
           Order(n, dispatched[s], TakenNumbers(s), PortNumbers(s), w)
    PROVE  Sound'
<1>1. Shape /\ Port /\ Ordered BY DEF Sound
<1>2. /\ sending' = [t \in Source |-> sending'[t]] /\ sending'[s] = w
      /\ \A t \in Source \ {s} : sending'[t] = sending[t]
  <2>1. sending = [t \in Source |-> sending[t]] BY <1>1 DEF Shape
  <2> QED BY Zenon, <2>1 DEF Source
<1>3. /\ sent' = [t \in Stream |-> sent'[t]] /\ sent'[s] = n
      /\ \A t \in Stream \ {s} : sent'[t] = sent[t]
  <2>1. sent = [t \in Stream |-> sent[t]] BY SMTT(30), <1>1 DEF Shape
  <2> QED BY <2>1
<1>4. Shape'
  <2>1. sending'["8042"] = sending["8042"] BY <1>2 DEF Source, Stream
  <2> QED BY SMTT(30), <1>1, <1>2, <1>3, <2>1 DEF Shape
<1>5. Port' BY Zenon, <1>1 DEF Port, Held
<1>6. ASSUME NEW t \in Stream PROVE StreamOrder(t)'
  <2>1. TakenNumbers(t)' = TakenNumbers(t) /\ PortNumbers(t)' = PortNumbers(t)
    BY Zenon DEF TakenNumbers, HeldNumbers, IsrNumbers, PortNumbers, Held
  <2>2. CASE t = s BY SMTT(30), <2>1, <2>2, <1>2, <1>3 DEF StreamOrder
  <2>3. CASE t # s BY <2>1, <2>3, <1>1, <1>2, <1>3 DEF StreamOrder, Ordered, Source
  <2> QED BY SMTT(30), <2>2, <2>3
<1> QED BY <1>4, <1>5, <1>6 DEF Sound, Ordered

(* A device sends data of its own, whatever else is on its way. *)
LEMMA DeviceDataSound ==
    ASSUME Sound, NEW s \in Stream, DeviceData(s) PROVE Sound'
<1>1. PICK v : sending' = [sending EXCEPT ![s] = Append(sending[s], <<"data", sent[s] + 1, v>>)]
  BY Zenon DEF DeviceData
<1>2. /\ UNCHANGED <<outBuf, dispatched, answering, reading, isr, isrStatus, isrByte, pc, deviceMode>>
      /\ sent' = [sent EXCEPT ![s] = sent[s] + 1]
  BY Zenon DEF DeviceData, isrVars, loopVars, localVars
<1>3. Order(sent[s], dispatched[s], TakenNumbers(s), PortNumbers(s), sending[s])
  BY DEF Sound, Ordered, StreamOrder
<1>4. Order(sent[s] + 1, dispatched[s], TakenNumbers(s), PortNumbers(s),
            Append(sending[s], <<"data", sent[s] + 1, v>>))
  BY <1>3, OrderNew
<1>5. answering' = [t \in Stream |-> answering'[t]] /\ \A t \in Stream : Answers(answering'[t])
  BY <1>2 DEF Sound, Shape
<1> QED BY ZenonT(40), <1>1, <1>2, <1>4, <1>5, SendSound

(* A device sends something that is no data. *)
LEMMA DeviceAnswersSound ==
    ASSUME Sound, NEW s \in Stream, NEW b, ~IsData(b), NEW rest, Answers(rest),
           sending' = [sending EXCEPT ![s] = Append(@, b)],
           answering' = [answering EXCEPT ![s] = rest],
           UNCHANGED <<outBuf, sent, dispatched, reading, isr, isrStatus, isrByte, pc, deviceMode>>
    PROVE  Sound'
<1>1. Order(sent[s], dispatched[s], TakenNumbers(s), PortNumbers(s), Append(sending[s], b))
  BY OrderAnswer DEF Sound, Ordered, StreamOrder
<1>2. sent' = [sent EXCEPT ![s] = sent[s]] BY DEF Sound, Shape
<1>3. answering' = [t \in Stream |-> answering'[t]] /\ \A t \in Stream : Answers(answering'[t])
  <2>1. answering = [t \in Stream |-> answering[t]] /\ \A t \in Stream : Answers(answering[t])
    BY DEF Sound, Shape
  <2>2. /\ answering' = [t \in Stream |-> answering'[t]] /\ answering'[s] = rest
        /\ \A t \in Stream \ {s} : answering'[t] = answering[t]
    BY Zenon, <2>1
  <2> QED BY <2>1, <2>2
<1>4. sending' = [sending EXCEPT ![s] = Append(sending[s], b)] BY DEF Sound, Shape
<1> QED BY ZenonT(40), <1>1, <1>2, <1>3, <1>4, SendSound

(* An answer is no data. *)
LEMMA AnswerIsNoData ==
    ASSUME NEW effect, NEW r
    PROVE  LET answer == Replies(effect)
               rest == [i \in DOMAIN Tail(answer) |-> <<Tail(answer)[i], r>>]
           IN  ~IsData(<<Head(answer), r>>) /\ Answers(rest)
<1> DEFINE answer == Replies(effect)
           rest == [i \in DOMAIN Tail(answer) |-> <<Tail(answer)[i], r>>]
<1>1. /\ Head(answer) = "ack"
      /\ \E n \in Nat : DOMAIN Tail(answer) = 1..n /\ \A i \in 1..n : Tail(answer)[i] # "data"
  <2>1. CASE effect = "query"
    <3>1. answer = <<"ack", "info">> BY <2>1 DEF Replies
    <3> QED BY <3>1
  <2>2. CASE effect = "reset"
    <3>1. answer = <<"ack", "AA", "00">> BY <2>2 DEF Replies
    <3> QED BY <3>1
  <2>3. CASE effect \notin {"query", "reset"}
    <3>1. answer = <<"ack">> BY <2>3 DEF Replies
    <3>2. Head(answer) = "ack" /\ Tail(answer) = <<>> BY <3>1
    <3>3. 0 \in Nat /\ DOMAIN Tail(answer) = 1..0 BY <3>2
    <3>4. \A i \in 1..0 : Tail(answer)[i] # "data" OBVIOUS
    <3> HIDE DEF answer
    <3> QED BY <3>2, <3>3, <3>4
  <2> QED BY <2>1, <2>2, <2>3
<1> HIDE DEF answer
<1>2. PICK n \in Nat : DOMAIN Tail(answer) = 1..n /\ \A i \in 1..n : Tail(answer)[i] # "data"
  BY <1>1
<1>3. rest \in [1..n -> {<<Tail(answer)[i], r>> : i \in 1..n}] BY <1>2
<1>4. DOMAIN rest = 1..n /\ \A i \in 1..n : rest[i][1] = Tail(answer)[i] BY <1>2
<1>5. ~IsData(<<Head(answer), r>>) BY <1>1 DEF IsData
<1> HIDE DEF rest
<1>6. IsSeq(rest) BY Zenon, <1>3, FunctionIsSeq
<1>7. DataOf(rest) = {} BY <1>2, <1>4 DEF DataOf, IsData
<1> QED BY Zenon, <1>5, <1>6, <1>7 DEF rest, answer, Answers

(* A device takes a command and acknowledges it. *)
LEMMA DeviceAnswerSound ==
    ASSUME Sound, NEW s \in Stream, DeviceAnswer(s) PROVE Sound'
<1> DEFINE answer == Replies(command[s][1])
           b == <<Head(answer), command[s][2]>>
           rest == [i \in DOMAIN Tail(answer) |-> <<Tail(answer)[i], command[s][2]>>]
<1>1. /\ UNCHANGED <<outBuf, sent, dispatched, reading, isr, isrStatus, isrByte, pc, deviceMode>>
      /\ sending' = [sending EXCEPT ![s] = Append(@, b)]
      /\ answering' = [answering EXCEPT ![s] = rest]
  BY DEF DeviceAnswer, TakeCommand, isrVars, loopVars, localVars
<1>2. ~IsData(b) /\ Answers(rest) BY Zenon, AnswerIsNoData
<1> HIDE DEF b, rest
<1> QED BY Zenon, <1>1, <1>2, DeviceAnswersSound

(* A device goes on with its answer. *)
LEMMA DeviceGoesOnSound ==
    ASSUME Sound, NEW s \in Stream, DeviceGoesOn(s) PROVE Sound'
<1> DEFINE b == Head(answering[s])
           rest == Tail(answering[s])
<1>1. /\ UNCHANGED <<outBuf, sent, dispatched, reading, isr, isrStatus, isrByte, pc, deviceMode>>
      /\ answering[s] # <<>>
      /\ sending' = [sending EXCEPT ![s] = Append(@, b)]
      /\ answering' = [answering EXCEPT ![s] = rest]
  BY DEF DeviceGoesOn, isrVars, loopVars, localVars
<1>2. ~IsData(b) /\ Answers(rest) BY <1>1, AnswersTail DEF Sound, Shape
<1> HIDE DEF b, rest
<1> QED BY Zenon, <1>1, <1>2, DeviceAnswersSound

(* The 8042 and the devices *)
LEMMA HardwareSound == ASSUME Sound, Hardware PROVE Sound'
<1>1. ASSUME NEW source \in Source, Deliver(source) PROVE Sound'
  BY <1>1, DeliverSound
<1>2. ASSUME NEW s \in Stream, DeviceData(s) PROVE Sound'
  BY <1>2, DeviceDataSound
<1>3. ASSUME NEW s \in Stream, DeviceAnswer(s) PROVE Sound'
  BY <1>3, DeviceAnswerSound
<1>4. ASSUME NEW s \in Stream, DeviceGoesOn(s) PROVE Sound'
  BY SMTT(30), <1>4, DeviceGoesOnSound
<1>5. ASSUME NEW s \in Stream, DeviceMute(s) PROVE Sound'
  BY SMTT(30), <1>5, AsideSound DEF DeviceMute, TakeCommand, loopVars, localVars
<1> QED BY <1>1, <1>2, <1>3, <1>4, <1>5 DEF Hardware

(* The byte of the output buffer may be given to its driver. *)
LEMMA TakePort ==
    ASSUME Ordered, outBuf # <<>>, NEW s \in Stream, s = Head(outBuf).stream
    PROVE  Order(sent[s], Append(dispatched[s], Head(outBuf).byte), {}, {}, sending[s])
<1> DEFINE b == Head(outBuf).byte
<1>1. Order(sent[s], dispatched[s], TakenNumbers(s), PortNumbers(s), sending[s])
  BY SMTT(30) DEF Ordered, StreamOrder
<1>2. CASE IsData(b)
  <2>1. PortNumbers(s) = {b[2]} BY SMTT(30), <1>2 DEF PortNumbers
  <2> QED BY SMTT(30), <1>1, <2>1, OrderTake
<1>3. CASE ~IsData(b)
  <2>1. Order(sent[s], dispatched[s], {}, {}, sending[s]) BY SMTT(30), <1>1, OrderDrop
  <2> QED BY SMTT(30), <1>3, <2>1, OrderOther
<1> QED BY Zenon, <1>2, <1>3

(* A reader takes the byte of the output buffer, and has taken no other. *)
LEMMA TakeOrder ==
    ASSUME Ordered, outBuf # <<>>, NEW s \in Stream, s = Head(outBuf).stream,
           outBuf' = <<>>, UNCHANGED <<sent, dispatched, sending>>,
           \A t \in Stream : TakenNumbers(t)' =
               IF t = s /\ IsData(Head(outBuf).byte) THEN {Head(outBuf).byte[2]} ELSE {}
    PROVE  Ordered'
<1> DEFINE b == Head(outBuf).byte
<1>1. ASSUME NEW t \in Stream PROVE StreamOrder(t)'
  <2>1. Order(sent[t], dispatched[t], TakenNumbers(t), PortNumbers(t), sending[t])
    BY DEF Ordered, StreamOrder
  <2>2. Order(sent[t], dispatched[t], TakenNumbers(t)', {}, sending[t])
    <3>1. CASE t = s /\ IsData(b)
      <4>1. PortNumbers(t) = {b[2]} BY <3>1 DEF PortNumbers
      <4>2. TakenNumbers(t)' = {b[2]} BY SMTT(30), <3>1
      <4>3. Order(sent[t], dispatched[t], TakenNumbers(t), {b[2]}, sending[t]) BY <2>1, <4>1
      <4> HIDE DEF b
      <4>4. Order(sent[t], dispatched[t], {b[2]}, {}, sending[t]) BY Zenon, <4>3, OrderTake
      <4> QED BY SMTT(30), <4>2, <4>4
    <3>2. CASE ~(t = s /\ IsData(b))
      <4>1. TakenNumbers(t)' = {} BY <3>2
      <4> QED BY SMTT(30), <2>1, <4>1, OrderDrop
    <3> QED BY Zenon, <3>1, <3>2
  <2>3. PortNumbers(t)' = {} BY DEF PortNumbers
  <2> QED BY SMTT(30), <2>2, <2>3 DEF StreamOrder
<1> QED BY SMTT(30), <1>1 DEF Ordered

(* A byte is given to the driver of a stream. *)
LEMMA DispatchOrder ==
    ASSUME Shape, Ordered, NEW s \in Stream, NEW byte, Dispatch(s, byte),
           UNCHANGED outBuf \/ outBuf' = <<>>,
           UNCHANGED <<sent, sending>>, TakenNumbers(s)' = {},
           \A t \in Stream \ {s} : TakenNumbers(t)' \in SUBSET TakenNumbers(t),
           Order(sent[s], Append(dispatched[s], byte), {}, PortNumbers(s)', sending[s])
    PROVE  dispatched' = [t \in Stream |-> dispatched'[t]] /\ Ordered'
<1>1. /\ dispatched' = [t \in Stream |-> dispatched'[t]]
      /\ dispatched'[s] = Append(dispatched[s], byte)
      /\ \A t \in Stream \ {s} : dispatched'[t] = dispatched[t]
  <2>1. dispatched = [t \in Stream |-> dispatched[t]] BY SMTT(30) DEF Shape
  <2> QED BY Zenon, <2>1 DEF Dispatch
<1>2. ASSUME NEW t \in Stream PROVE StreamOrder(t)'
  <2>1. PortNumbers(t)' \in SUBSET PortNumbers(t) BY Zenon DEF PortNumbers
  <2>2. CASE t = s BY Zenon, <1>1, <2>2 DEF StreamOrder
  <2>3. CASE t # s
    <3>1. Order(sent[t], dispatched[t], TakenNumbers(t), PortNumbers(t), sending[t])
      BY SMTT(30) DEF Ordered, StreamOrder
    <3>2. Order(sent[t], dispatched[t], TakenNumbers(t)', PortNumbers(t)', sending[t])
      BY Zenon, <2>1, <2>3, <3>1, OrderDrop
    <3> QED BY SMTT(30), <1>1, <2>3, <3>2 DEF StreamOrder
  <2> QED BY ZenonT(40), <2>2, <2>3
<1> QED BY <1>1, <1>2 DEF Ordered

(* The interrupt routine finds the byte it was told of, and nothing is set  *)
(* aside, for nobody polls.                                                 *)
LEMMA InterruptDataSound ==
    ASSUME IInv, NoOverlap, Sound, handleInterruptData PROVE Sound'
<1>1. Shape /\ Port /\ Ordered BY DEF Sound
<1>2. /\ UNCHANGED <<sent, sending, answering, dispatched, reading, pc, deviceMode, isrStatus>>
      /\ isr = "data" /\ isr' = "dispatch" /\ isrByte' = PortByte /\ outBuf' = <<>>
  BY DEF handleInterruptData, ReadPort, deviceVars, loopVars, localVars
<1>3. PICK s \in Stream : /\ outBuf # <<>> /\ s = isrStatus /\ s = Head(outBuf).stream
                          /\ PortByte = Head(outBuf).byte
  BY <1>1, <1>2 DEF Port, PortByte
<1>4. pc \notin ReadingPort BY <1>2, PollsWithoutInterrupt DEF Polling, ReadingPort
<1>5. ~Held /\ ~Held' BY SMTT(30), <1>1, <1>2, <1>4 DEF Port, Held
<1>6. \A t \in Stream : TakenNumbers(t)' =
          IF t = s /\ IsData(Head(outBuf).byte) THEN {Head(outBuf).byte[2]} ELSE {}
  BY SMTT(30), <1>2, <1>3, <1>5 DEF TakenNumbers, HeldNumbers, IsrNumbers
<1>7. Ordered' BY <1>1, <1>2, <1>3, <1>6, TakeOrder
<1>8. Shape' BY Zenon, <1>1, <1>2 DEF Shape
<1>9. Port' BY <1>2, <1>3, <1>4, <1>5 DEF Port, ReadingPort
<1> QED BY <1>7, <1>8, <1>9 DEF Sound

(* It gives the byte to the driver before the next one can be taken. *)
LEMMA InterruptDispatchSound ==
    ASSUME IInv, NoOverlap, Sound, handleInterruptDispatch PROVE Sound'
<1>1. Shape /\ Port /\ Ordered BY DEF Sound
<1>2. /\ UNCHANGED <<sent, sending, answering, outBuf, reading, pc, deviceMode>>
      /\ isr = "dispatch" /\ isr' = "status" /\ Dispatch(isrStatus, isrByte)
  BY DEF handleInterruptDispatch, hardwareVars, deviceVars, loopVars, localVars
<1>3. PICK s \in Stream : s = isrStatus BY <1>1, <1>2 DEF Port
<1>4. pc \notin ReadingPort BY <1>2, PollsWithoutInterrupt DEF Polling, ReadingPort
<1>5. ~Held /\ ~Held' BY SMTT(30), <1>1, <1>2, <1>4 DEF Port, Held
<1>6. \A t \in Stream : TakenNumbers(t)' = {} /\ PortNumbers(t)' = PortNumbers(t)
  BY <1>2, <1>5 DEF TakenNumbers, HeldNumbers, IsrNumbers, PortNumbers
<1>7. Order(sent[s], Append(dispatched[s], isrByte), {}, PortNumbers(s), sending[s])
  <2>1. Order(sent[s], dispatched[s], TakenNumbers(s), PortNumbers(s), sending[s])
    BY SMTT(30), <1>1 DEF Ordered, StreamOrder
  <2>2. CASE IsData(isrByte)
    <3>1. TakenNumbers(s) = {isrByte[2]}
      BY SMTT(30), <1>2, <1>3, <1>5, <2>2 DEF TakenNumbers, HeldNumbers, IsrNumbers
    <3> QED BY <2>1, <3>1, OrderGiveBack
  <2>3. CASE ~IsData(isrByte)
    <3>1. Order(sent[s], dispatched[s], {}, PortNumbers(s), sending[s]) BY <2>1, OrderDrop
    <3> QED BY SMTT(30), <2>3, <3>1, OrderOther
  <2> QED BY Zenon, <2>2, <2>3
<1>8. Dispatch(s, isrByte) BY SMTT(30), <1>2, <1>3
<1>9. dispatched' = [t \in Stream |-> dispatched'[t]] /\ Ordered'
  BY SMTT(30), <1>1, <1>2, <1>6, <1>7, <1>8, DispatchOrder
<1>10. Shape' BY Zenon, <1>1, <1>2, <1>9 DEF Shape
<1>11. Port' BY <1>1, <1>2, <1>4, <1>5 DEF Port, ReadingPort
<1> QED BY <1>9, <1>10, <1>11 DEF Sound

(* The interrupt routine *)
LEMMA InterruptSound ==
    ASSUME IInv, NoOverlap, Sound, Interrupt PROVE Sound'
<1>1. Shape /\ Port /\ Ordered BY DEF Sound
<1>2. ASSUME NEW s \in Stream, InterruptHandler(s) PROVE Sound'
  <2>1. UNCHANGED <<sent, dispatched, sending, answering, outBuf, reading, pc, deviceMode>>
    BY <1>2 DEF InterruptHandler, deviceVars, loopVars, localVars
  <2>2. isr' \notin {"data", "dispatch"} BY <1>2 DEF InterruptHandler
  <2> QED BY <2>1, <2>2, AsideSound
<1>3. CASE handleInterruptStatus
  <2>1. /\ UNCHANGED <<sent, dispatched, sending, answering, outBuf, reading, pc, deviceMode>>
        /\ isr' = "data" => outBuf # <<>> /\ isrStatus' = Head(outBuf).stream
        /\ isr' # "dispatch"
    BY SMTT(30), <1>3 DEF handleInterruptStatus, hardwareVars, deviceVars, loopVars, localVars
  <2>2. Shape' BY SMTT(30), <1>1, <2>1 DEF Shape
  <2>3. Port' BY Zenon, <1>1, <2>1 DEF Port, Held
  <2>4. Ordered' BY <1>1, <2>1, KeepOrder
  <2> QED BY SMTT(30), <2>2, <2>3, <2>4 DEF Sound
<1> QED BY <1>2, <1>3, InterruptDataSound, InterruptDispatchSound DEF Interrupt

(* readDataPort returns. *)
LEMMA ReturnReads ==
    ASSUME NEW byte, Return(byte)
    PROVE  reading' = NotReading /\ pc' \notin ReadingPort /\ ~Held'
BY DEF Return, ReadingPort, Held, NotReading

(* readDataPort goes on. *)
LEMMA KeepReads ==
    ASSUME Shape, NEW first, KeepReading(first)
    PROVE  pc' = "poll" /\ reading' = [from |-> reading.from, expect |-> reading.expect,
                                       first |-> first, status |-> None]
<1>1. reading = [from |-> reading.from, expect |-> reading.expect,
                 first |-> reading.first, status |-> reading.status]
  BY DEF Shape
<1>2. pc' = "poll" /\ reading' = [reading EXCEPT !.first = first, !.status = None]
  BY DEF KeepReading
<1> QED BY Zenon, <1>1, <1>2

(* A read that takes a byte from the port goes on, or returns. *)
LEMMA ReadShape ==
    ASSUME Shape, Port, isr = "idle", outBuf' = <<>>,
           UNCHANGED <<sent, sending, answering, isrVars, deviceMode>>,
           dispatched' = [s \in Stream |-> dispatched'[s]],
           (pc = "data" /\ \E first : KeepReading(first)) \/ \E byte : Return(byte)
    PROVE  Shape' /\ Port'
<1>1. /\ reading' = [from |-> reading'.from, expect |-> reading'.expect,
                    first |-> reading'.first, status |-> reading'.status]
      /\ pc' # "data"
      /\ IF pc' \in ReadingPort THEN reading'.from \in Stream ELSE ~Held'
  <2>1. ASSUME NEW first, KeepReading(first), pc = "data"
        PROVE  /\ reading' = [from |-> reading'.from, expect |-> reading'.expect,
                              first |-> reading'.first, status |-> reading'.status]
               /\ pc' # "data" /\ pc' \in ReadingPort /\ reading'.from \in Stream
    <3>1. reading.from \in Stream BY <2>1 DEF Port, ReadingPort
    <3>2. pc' = "poll" /\ reading' = [from |-> reading.from, expect |-> reading.expect,
                                      first |-> first, status |-> None]
      BY <2>1, KeepReads
    <3> QED BY <3>1, <3>2 DEF ReadingPort
  <2>2. ASSUME NEW byte, Return(byte)
        PROVE  /\ reading' = [from |-> reading'.from, expect |-> reading'.expect,
                              first |-> reading'.first, status |-> reading'.status]
               /\ pc' # "data" /\ pc' \notin ReadingPort /\ ~Held'
    BY SMTT(30), <2>2, ReturnReads DEF NotReading, ReadingPort
  <2> QED BY <2>1, <2>2
<1>2. Shape' BY SMTT(30), <1>1 DEF Shape
<1>3. Port' BY SMTT(30), <1>1 DEF Port, isrVars
<1> QED BY <1>2, <1>3

(* Every step of readDataPort that reads the port finds the byte it saw,    *)
(* and no interrupt routine is about.                                       *)
LEMMA AtDataPort ==
    ASSUME IInv, NoOverlap, Port, NEW mine, AtData(mine)
    PROVE  /\ isr = "idle" /\ isr' = "idle" /\ pc = "data" /\ outBuf # <<>> /\ outBuf' = <<>>
           /\ reading.status = Head(outBuf).stream /\ reading.status \in Stream
           /\ reading.from \in Stream /\ PortByte = Head(outBuf).byte
           /\ UNCHANGED <<sent, sending, answering, isrVars, deviceMode>>
           /\ (reading.status = reading.from) = mine
<1>1. pc = "data" BY DEF AtData, At
<1>2. reading.from \in Stream BY <1>1 DEF Port, ReadingPort
<1>3. outBuf # <<>> /\ reading.status = Head(outBuf).stream /\ reading.status \in Stream
  BY <1>1 DEF Port
<1>4. PortByte = Head(outBuf).byte BY SMTT(30), <1>3 DEF PortByte
<1>5. /\ outBuf' = <<>> /\ UNCHANGED <<sent, sending, answering, isrVars, deviceMode>>
      /\ (reading.status = reading.from) = mine
  BY Zenon DEF AtData, ReadPort, deviceVars, controlVars
<1>6. isr = "idle" BY <1>1, PollsWithoutInterrupt DEF Polling
<1>7. isr' = "idle" BY <1>5, <1>6 DEF isrVars
<1> QED BY SMTT(30), <1>1, <1>2, <1>3, <1>4, <1>5, <1>6, <1>7

(* A byte of the other stream goes to its driver, and what is set aside of  *)
(* this one stays.                                                          *)
LEMMA ReadOtherSound ==
    ASSUME IInv, NoOverlap, Sound, ReadOtherStream PROVE Sound'
<1>1. AtData(FALSE) /\ Dispatch(reading.status, PortByte) /\ KeepReading(reading.first)
  BY Zenon DEF ReadOtherStream
<1>2. Shape /\ Port /\ Ordered BY DEF Sound
<1>3. PICK s \in Stream :
      /\ isr = "idle" /\ isr' = "idle" /\ pc = "data" /\ outBuf # <<>> /\ outBuf' = <<>>
      /\ s = reading.status /\ s # reading.from
      /\ s = Head(outBuf).stream /\ PortByte = Head(outBuf).byte
      /\ UNCHANGED <<sent, sending, answering, isrVars, deviceMode>>
  BY Zenon, <1>1, <1>2, AtDataPort
<1>4. reading'.first = reading.first /\ reading'.from = reading.from
  BY SMTT(30), <1>1, <1>2, KeepReads
<1>5. TakenNumbers(s)' = {} /\ \A t \in Stream : TakenNumbers(t)' = TakenNumbers(t)
  BY SMTT(30), <1>3, <1>4 DEF TakenNumbers, HeldNumbers, IsrNumbers, Held
<1>6. Order(sent[s], Append(dispatched[s], PortByte), {}, PortNumbers(s)', sending[s])
  <2>1. PortNumbers(s)' = {} BY <1>3 DEF PortNumbers
  <2> QED BY Zenon, <1>2, <1>3, <2>1, TakePort
<1>7. dispatched' = [t \in Stream |-> dispatched'[t]] /\ Ordered'
  BY <1>1, <1>2, <1>3, <1>5, <1>6, DispatchOrder
<1>8. Shape' /\ Port' BY <1>1, <1>2, <1>3, <1>7, ReadShape
<1> QED BY <1>7, <1>8 DEF Sound

(* The answer came: what was set aside goes to its driver. *)
LEMMA ReadAnswerSound ==
    ASSUME IInv, NoOverlap, Sound, ReadAnswer PROVE Sound'
<1> DEFINE b == reading.first
<1>1. /\ AtData(TRUE) /\ Return(PortByte)
      /\ IF Held THEN Dispatch(reading.from, b) ELSE UNCHANGED dispatched
  BY Zenon DEF ReadAnswer
<1>2. Shape /\ Port /\ Ordered BY DEF Sound
<1>3. PICK s \in Stream :
      /\ isr = "idle" /\ isr' = "idle" /\ outBuf' = <<>> /\ s = reading.from
      /\ UNCHANGED <<sent, sending, answering, isrVars, deviceMode>>
  BY Zenon, <1>1, <1>2, AtDataPort
<1>4. reading' = NotReading /\ pc' \notin ReadingPort /\ ~Held' BY <1>1, ReturnReads
<1>5. dispatched' = [t \in Stream |-> dispatched'[t]] /\ Ordered'
  <2>1. CASE ~Held
    <3>1. UNCHANGED dispatched BY <1>1, <2>1
    <3> QED BY <3>1, <1>2, <1>3, <1>4, KeepOrder DEF Shape
  <2>2. CASE Held
    <3>1. Order(sent[s], dispatched[s], TakenNumbers(s), PortNumbers(s), sending[s])
      BY ZenonT(40), <1>2, <1>3 DEF Ordered, StreamOrder
    <3>2. Order(sent[s], Append(dispatched[s], b), {}, {}, sending[s])
      <4>1. CASE IsData(b)
        <5>1. TakenNumbers(s) = {b[2]}
          BY SMTT(30), <1>3, <2>2, <4>1 DEF TakenNumbers, HeldNumbers, IsrNumbers
        <5>2. Order(sent[s], Append(dispatched[s], b), {}, PortNumbers(s), sending[s])
          BY SMTT(30), <3>1, <5>1, OrderGiveBack
        <5> HIDE DEF b
        <5> QED BY <5>2, OrderDrop
      <4>2. CASE ~IsData(b)
        <5>1. Order(sent[s], dispatched[s], {}, {}, sending[s]) BY SMTT(30), <3>1, OrderDrop
        <5> QED BY SMTT(30), <4>2, <5>1, OrderOther
      <4> QED BY SMTT(30), <4>1, <4>2
    <3>3. \A t \in Stream : TakenNumbers(t)' = {} /\ PortNumbers(t)' = {}
      BY <1>3, <1>4 DEF TakenNumbers, HeldNumbers, IsrNumbers, PortNumbers
    <3>4. Dispatch(s, b) BY SMTT(30), <1>1, <1>3, <2>2
    <3> HIDE DEF b
    <3>5. Order(sent[s], Append(dispatched[s], b), {}, PortNumbers(s)', sending[s])
      BY <3>2, <3>3
    <3>6. TakenNumbers(s)' = {} /\ \A t \in Stream \ {s} : TakenNumbers(t)' \in SUBSET TakenNumbers(t)
      BY <3>3
    <3>7. (UNCHANGED outBuf \/ outBuf' = <<>>) /\ UNCHANGED <<sent, sending>> BY <1>3
    <3> QED BY ZenonT(40), <1>2, <3>4, <3>5, <3>6, <3>7, DispatchOrder
  <2> QED BY <2>1, <2>2
<1>6. Shape' /\ Port' BY <1>1, <1>2, <1>3, <1>5, ReadShape
<1> QED BY <1>5, <1>6 DEF Sound

(* A byte that is not the answer is set aside. *)
LEMMA HoldSound ==
    ASSUME IInv, NoOverlap, Sound, HoldFirstByte PROVE Sound'
<1>1. AtData(TRUE) /\ UNCHANGED dispatched /\ KeepReading(PortByte) BY Zenon DEF HoldFirstByte
<1>2. Shape /\ Port /\ Ordered BY DEF Sound
<1>3. PICK s \in Stream :
      /\ isr = "idle" /\ isr' = "idle" /\ pc = "data" /\ outBuf # <<>> /\ outBuf' = <<>>
      /\ s = reading.from /\ s = Head(outBuf).stream /\ PortByte = Head(outBuf).byte
      /\ UNCHANGED <<sent, sending, answering, isrVars, deviceMode>>
  BY ZenonT(30), <1>1, <1>2, AtDataPort
<1>4. dispatched' = [t \in Stream |-> dispatched'[t]] BY SMTT(30), <1>1, <1>2 DEF Shape
<1>5. reading'.first = PortByte /\ reading'.from = s BY SMTT(30), <1>1, <1>2, <1>3, KeepReads
<1>6. \A t \in Stream : TakenNumbers(t)' =
          IF t = s /\ IsData(Head(outBuf).byte) THEN {Head(outBuf).byte[2]} ELSE {}
  <2>1. IsData(PortByte) => PortByte # NoByte BY SMTT(30) DEF IsData, NoByte, None
  <2> QED BY SMTT(30), <1>3, <1>5, <2>1 DEF TakenNumbers, HeldNumbers, IsrNumbers, Held
<1>7. Ordered' BY SMTT(30), <1>1, <1>2, <1>3, <1>6, TakeOrder
<1>8. Shape' /\ Port' BY <1>1, <1>2, <1>3, <1>4, ReadShape
<1> QED BY <1>7, <1>8 DEF Sound

(* Neither byte is the answer: the second goes to its driver, and the one   *)
(* that was set aside is returned to the request.                           *)
LEMMA SecondMismatchSound ==
    ASSUME IInv, NoOverlap, Sound, SecondMismatch PROVE Sound'
<1>1. AtData(TRUE) /\ Dispatch(reading.from, PortByte) /\ Return(reading.first)
  BY Zenon DEF SecondMismatch
<1>2. Shape /\ Port /\ Ordered BY DEF Sound
<1>3. PICK s \in Stream :
      /\ isr = "idle" /\ isr' = "idle" /\ outBuf # <<>> /\ outBuf' = <<>>
      /\ s = reading.from /\ s = Head(outBuf).stream /\ PortByte = Head(outBuf).byte
      /\ UNCHANGED <<sent, sending, answering, isrVars, deviceMode>>
  BY Zenon, <1>1, <1>2, AtDataPort
<1>4. reading' = NotReading /\ pc' \notin ReadingPort /\ ~Held' BY SMTT(30), <1>1, ReturnReads
<1>5. \A t \in Stream : TakenNumbers(t)' = {} /\ PortNumbers(t)' = {}
  BY SMTT(30), <1>3, <1>4 DEF TakenNumbers, HeldNumbers, IsrNumbers, PortNumbers
<1>6. Order(sent[s], Append(dispatched[s], PortByte), {}, {}, sending[s])
  BY SMTT(30), <1>2, <1>3, TakePort
<1>7. dispatched' = [t \in Stream |-> dispatched'[t]] /\ Ordered'
  BY Zenon, <1>1, <1>2, <1>3, <1>5, <1>6, DispatchOrder
<1>8. Shape' /\ Port' BY <1>1, <1>2, <1>3, <1>7, ReadShape
<1> QED BY <1>7, <1>8 DEF Sound

(* readDataPort *)
LEMMA ReadSound == ASSUME IInv, NoOverlap, Sound, readDataPort PROVE Sound'
<1>1. Shape /\ Port /\ Ordered BY DEF Sound
<1>2. CASE Poll
  <2>1. /\ UNCHANGED <<sent, dispatched, sending, answering, outBuf, isrVars, deviceMode>>
        /\ pc = "poll" /\ outBuf # <<>> /\ pc' = "data"
        /\ reading' = [reading EXCEPT !.status = Head(outBuf).stream]
    BY <1>2 DEF Poll, At, hardwareVars, deviceVars, controlVars
  <2>2. reading' = [from |-> reading.from, expect |-> reading.expect,
                   first |-> reading.first, status |-> Head(outBuf).stream]
    BY <1>1, <2>1 DEF Shape
  <2>3. Shape' BY Zenon, <1>1, <2>1, <2>2 DEF Shape
  <2>4. Port' BY <1>1, <2>1, <2>2 DEF Port, ReadingPort, isrVars
  <2>5. ASSUME NEW s \in Stream PROVE StreamOrder(s)'
    <3>1. TakenNumbers(s)' = TakenNumbers(s) /\ PortNumbers(s)' = PortNumbers(s)
      BY <2>1, <2>2 DEF TakenNumbers, HeldNumbers, IsrNumbers, PortNumbers, Held, isrVars
    <3> QED BY <1>1, <2>1, <3>1 DEF Ordered, StreamOrder
  <2> QED BY <2>3, <2>4, <2>5 DEF Sound, Ordered
<1>3. CASE ReadTimeout
  <2>1. PICK byte : Return(byte) BY <1>3 DEF ReadTimeout
  <2>2. reading' = NotReading /\ pc' \notin ReadingPort BY <2>1, ReturnReads
  <2>3. UNCHANGED <<sent, dispatched, answering, isrVars, deviceMode, outBuf, sending>>
    BY <1>3 DEF ReadTimeout, controlVars
  <2>4. deviceMode' \in Stream BY SMTT(30), <1>1, <2>3 DEF Shape
  <2> QED BY <2>2, <2>3, <2>4, QuietSound DEF QuietStep
<1> QED BY <1>2, <1>3, ReadOtherSound, ReadAnswerSound, HoldSound, SecondMismatchSound
        DEF readDataPort

(* The commands of a request dispatch nothing and keep no byte aside, and   *)
(* no interrupt routine is about when they empty the output buffer.         *)
LEMMA CommandQuiet == ASSUME IInv, NoOverlap, Sound, ExecuteCommand PROVE QuietStep
<1> USE DEF At, AtCommand, NextCommand, ReadingPort, hardwareVars, deviceVars,
            controlVars, QuietStep
<1>1. deviceMode \in Stream BY DEF Sound, Shape
<1>2. "mouse" \in Stream /\ "keyboard" \in Stream BY SMTT(30) DEF Stream
<1>3. CASE CommandWriteDataPort BY SMTT(30), <1>2, <1>3 DEF CommandWriteDataPort, WriteToDevice
<1>4. CASE CommandWriteCommandPort BY SMTT(30), <1>1, <1>4 DEF CommandWriteCommandPort
<1>5. CASE CommandSendMouse BY <1>2, <1>5 DEF CommandSendMouse, WriteToDevice
<1>6. CASE CommandRead
  <2>1. deviceMode' \in Stream BY SMTT(30), <1>1, <1>2, <1>6 DEF CommandRead
  <2>2. PICK e : StartReading(deviceMode', e) BY SMTT(30), <1>6 DEF CommandRead
  <2>3. UNCHANGED <<sent, dispatched, answering, isrVars, outBuf, sending>>
    BY SMTT(30), <1>6 DEF CommandRead
  <2> QED BY SMTT(30), <2>1, <2>2, <2>3
<1>7. CASE CommandFlush
  <2>1. isr = "idle"
    <3>1. pc \in Polling BY SMTT(30), <1>7 DEF CommandFlush, Polling
    <3> QED BY SMTT(30), <3>1, PollsWithoutInterrupt
  <2> QED BY <1>1, <1>7, <2>1 DEF CommandFlush, ReadPort
<1>8. CASE CommandSleepMS BY SMTT(30), <1>1, <1>8 DEF CommandSleepMS
<1>9. CASE CommandModify BY SMTT(30), <1>1, <1>2, <1>9 DEF CommandModify, GetCommandByte
<1>10. CASE CommandModifyWrite BY SMTT(30), <1>1, <1>10 DEF CommandModifyWrite, WriteCommandByte
<1> QED BY ZenonT(40), <1>3, <1>4, <1>5, <1>6, <1>7, <1>8, <1>9, <1>10 DEF ExecuteCommand

(* The steps around them, and setCommandByteGated, do not even empty it. *)
LEMMA AroundQuiet ==
    ASSUME Sound,
           \/ processRequestQueue \/ submitRequestAndBlockGated
           \/ processRequestBegin \/ processRequestEnd \/ setCommandByteGated
           \/ \E a \in calls : Call(a)
    PROVE  QuietStep
<1> USE DEF At, Idle, Item, ReadingPort, hardwareVars, deviceVars, localVars, controlVars, QuietStep
<1>1. deviceMode \in Stream BY DEF Sound, Shape
<1>2. "keyboard" \in Stream BY SMTT(30) DEF Stream
<1>3. CASE processRequestQueue BY SMTT(30), <1>1, <1>3 DEF processRequestQueue
<1>4. CASE submitRequestAndBlockGated BY SMTT(30), <1>1, <1>4 DEF submitRequestAndBlockGated
<1>5. CASE processRequestBegin BY SMTT(30), <1>1, <1>5 DEF processRequestBegin
<1>6. CASE processRequestEnd BY ZenonT(30), <1>2, <1>6 DEF processRequestEnd, Complete
<1>7. CASE setCommandByteBegin
  BY SMTT(30), <1>1, <1>2, <1>7 DEF setCommandByteBegin, GetCommandByte
<1>8. CASE setCommandByteUnignore BY SMTT(30), <1>1, <1>8 DEF setCommandByteUnignore
<1>9. CASE setCommandByteWrite BY ZenonT(30), <1>1, <1>9 DEF setCommandByteWrite, WriteCommandByte
<1>10. ASSUME NEW a \in calls, Call(a) PROVE QuietStep BY <1>1, <1>10 DEF Call
<1> QED BY Zenon, <1>3, <1>4, <1>5, <1>6, <1>7, <1>8, <1>9, <1>10 DEF setCommandByteGated

(* What broke stays broken, in every step. *)
LEMMA BrokenGrows == ASSUME [Next]_vars PROVE broken \subseteq broken'
<1> USE DEF hardwareVars, deviceVars, Break
<1>1. CASE Hardware
  BY ZenonT(40), <1>1 DEF Hardware, Deliver, DeviceData, DeviceAnswer, DeviceGoesOn, DeviceMute
<1>2. CASE Interrupt
  BY <1>2 DEF Interrupt, InterruptHandler, handleInterruptStatus, handleInterruptData,
              handleInterruptDispatch
<1>3. CASE Drivers BY <1>3 DEF Drivers, Call, submitRequest
<1>4. CASE ExecuteCommand
  BY Zenon, <1>4 DEF ExecuteCommand, CommandWriteDataPort, CommandWriteCommandPort, CommandSendMouse,
              CommandRead, CommandFlush, CommandSleepMS, CommandModify, CommandModifyWrite,
              WriteToDevice, WriteCommandByte
<1>5. CASE readDataPort
  BY SMTT(30), <1>5 DEF readDataPort, Poll, ReadOtherStream, ReadAnswer, HoldFirstByte, SecondMismatch,
              ReadTimeout, AtData
<1>6. CASE setCommandByteGated
  BY ZenonT(40), <1>6 DEF setCommandByteGated, setCommandByteBegin, setCommandByteUnignore,
              setCommandByteWrite, WriteCommandByte
<1>7. CASE \/ processRequestQueue \/ submitRequestAndBlockGated
           \/ processRequestBegin \/ processRequestEnd
  BY Zenon, <1>7 DEF processRequestQueue, submitRequestAndBlockGated, processRequestBegin,
              processRequestEnd, Complete
<1>8. CASE UNCHANGED vars BY <1>8 DEF vars
<1> QED BY SMTT(30), <1>1, <1>2, <1>3, <1>4, <1>5, <1>6, <1>7, <1>8 DEF Next, WorkLoop

(* Every step preserves the invariant. *)
LEMMA NextDInv == DInv /\ [Next]_vars => DInv'
<1> SUFFICES ASSUME DInv, [Next]_vars PROVE DInv' OBVIOUS
<1>1. IInv /\ IInv' BY NextIInv DEF DInv
<1>2. ASSUME NoOverlap' PROVE Sound'
  <2>1. NoOverlap BY <1>2, BrokenGrows DEF NoOverlap
  <2>2. Sound BY <2>1 DEF DInv
  <2>3. CASE Hardware BY <2>2, <2>3, HardwareSound
  <2>4. CASE Interrupt BY <1>1, <2>1, <2>2, <2>4, InterruptSound
  <2>5. CASE WorkLoop
    BY SMTT(30), <1>1, <2>1, <2>2, <2>5, ReadSound, CommandQuiet, AroundQuiet, QuietSound DEF WorkLoop
  <2>6. CASE Drivers
    <3>1. ASSUME NEW r \in Async, submitRequest(r) PROVE Sound'
      BY SMTT(30), <2>2, <3>1, AsideSound DEF submitRequest, hardwareVars, deviceVars, loopVars, localVars
    <3> QED BY SMTT(30), <2>2, <2>6, <3>1, AroundQuiet, QuietSound DEF Drivers
  <2>7. CASE UNCHANGED vars
    BY <2>2, <2>7, AsideSound DEF vars, hardwareVars, deviceVars, loopVars, localVars
  <2> QED BY <2>3, <2>4, <2>5, <2>6, <2>7 DEF Next
<1> QED BY <1>1, <1>2 DEF DInv

(* Whatever the drivers request, however late or mute the devices are and   *)
(* on any number of processors, the data of a device reaches its            *)
(* interruptOccurred in order and none of it twice, until a poll begins     *)
(* beside an interrupt routine: the byte that readDataPort sets aside is    *)
(* never given to the driver after a younger one, and neither is the byte   *)
(* that the interrupt routine has read and not dispatched.                  *)
THEOREM DataKeepsOrder == Spec => []DataInOrder
<1>1. DInv => DataInOrder
  <2> SUFFICES ASSUME DInv, NoOverlap, NEW s \in Stream,
                      NEW i \in DOMAIN dispatched[s], NEW j \in DOMAIN dispatched[s], i < j,
                      IsData(dispatched[s][i]), IsData(dispatched[s][j])
               PROVE  dispatched[s][i][2] < dispatched[s][j][2]
    BY SMTT(30) DEF DataInOrder, NoOverlap
  <2>1. Order(sent[s], dispatched[s], TakenNumbers(s), PortNumbers(s), sending[s])
    BY SMTT(30) DEF DInv, Sound, Ordered, StreamOrder
  <2>2. i \in DataOf(dispatched[s]) /\ j \in DataOf(dispatched[s]) BY DEF DataOf
  <2> QED BY ZenonT(40), <2>1, <2>2 DEF Order
<1>2. DInv /\ [Next]_vars => DInv' BY NextDInv
<1> QED BY <1>1, <1>2, InitDInv, PTL DEF Spec
=============================================================================
