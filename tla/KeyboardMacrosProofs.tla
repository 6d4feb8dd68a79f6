------------------------ MODULE KeyboardMacrosProofs ------------------------
(***************************************************************************)
(* Proofs about KeyboardMacros, for any macros, packets and pauses, and    *)
(* with no bound on what is typed.  What is held back, and what has left,  *)
(* add up to what was taken off the ring, whichever way a packet takes     *)
(* through invertMacros; and what is held back came without a pause and is *)
(* a proper beginning of a macro.                                          *)
(***************************************************************************)
EXTENDS KeyboardMacros, SequenceTheorems, WellFoundedInduction, TLAPS

(* The modifiers are left open: what a fold over packets returns is not     *)
(* needed.                                                                  *)
Types ==
    /\ ring \in Seq(Packet) /\ age \in Gap
    /\ macro = [buffer |-> macro.buffer, timer |-> macro.timer, modifiers |-> macro.modifiers]
    /\ macro.buffer \in Seq(Packet)
    /\ taken \in Seq(Key) /\ gone \in Seq(Key)

IInv == Types /\ NothingLost /\ MacrosInTime

(* The keys of a sequence of packets are a sequence of the same length *)
LEMMA KeysType == ASSUME NEW s \in Seq(Packet) PROVE Keys(s) \in Seq(Key) /\ Len(Keys(s)) = Len(s)
<1>1. Len(s) \in Nat /\ DOMAIN s = 1..Len(s) /\ \A i \in 1..Len(s) : s[i] \in Packet
  BY ElementOfSeq, LenProperties
<1>2. \A i \in 1..Len(s) : s[i].key \in Key BY <1>1 DEF Packet
<1>3. Keys(s) = [i \in 1..Len(s) |-> s[i].key] BY <1>1 DEF Keys
<1>4. Keys(s) \in [1..Len(s) -> Key] BY <1>2, <1>3
<1> QED BY <1>1, <1>4, LenProperties, SeqDef

(* Keys distributes over an appended packet *)
LEMMA KeysAppend ==
    ASSUME NEW s \in Seq(Packet), NEW p \in Packet
    PROVE  Keys(Append(s, p)) = Append(Keys(s), p.key)
<1>1. Append(s, p) \in Seq(Packet) /\ p.key \in Key BY DEF Packet
<1>2. Keys(Append(s, p)) \in Seq(Key) /\ Len(Keys(Append(s, p))) = Len(s) + 1
  BY <1>1, KeysType, AppendProperties
<1>3. Append(Keys(s), p.key) \in Seq(Key) /\ Len(Append(Keys(s), p.key)) = Len(s) + 1
  BY <1>1, KeysType
<1>4. \A i \in 1..Len(s) + 1 : Keys(Append(s, p))[i] = Append(Keys(s), p.key)[i]
  BY <1>1, KeysType DEF Keys
<1> QED BY <1>2, <1>3, <1>4, SeqEqual

(* Nothing has no keys *)
LEMMA KeysEmpty == Keys(<<>>) = <<>>
<1>1. <<>> \in Seq(Packet) OBVIOUS
<1>2. Keys(<<>>) \in Seq(Key) /\ Len(Keys(<<>>)) = 0 BY <1>1, KeysType
<1> QED BY <1>2

(* Appending to a concatenation appends to its second part *)
LEMMA AppendConcat ==
    ASSUME NEW s \in Seq(Key), NEW t \in Seq(Key), NEW k \in Key
    PROVE  Append(s \o t, k) = s \o Append(t, k)
<1>1. Append(s \o t, k) \in Seq(Key) /\ s \o Append(t, k) \in Seq(Key) OBVIOUS
<1>2. Len(Append(s \o t, k)) = Len(s \o Append(t, k)) OBVIOUS
<1>3. \A i \in 1..Len(Append(s \o t, k)) : Append(s \o t, k)[i] = (s \o Append(t, k))[i] OBVIOUS
<1> QED BY <1>1, <1>2, <1>3, SeqEqual

(* The sequence of an entry that is loaded is a sequence *)
LEMMA LoadedSequence ==
    ASSUME NEW i \in MacroInversion
    PROVE  MacroData[i].sequence \in Seq(Key) /\ Len(MacroData[i].sequence) \in Nat
<1>1. MacroData[i] \in Entry
  BY EntryAssumption, LenProperties, ElementOfSeq DEF MacroInversion, loadMacroData
<1> QED BY <1>1, LenProperties DEF Entry

(* A packet in time keeps the packets held back in time *)
LEMMA AppendInTime ==
    ASSUME NEW s \in Seq(Packet), NEW p \in Packet, InTime(s), s # <<>> => p.gap <= MaxMacroTime
    PROVE  InTime(Append(s, p))
<1>1. \A i \in 1..Len(s) : Append(s, p)[i] = s[i] BY AppendProperties
<1>2. Append(s, p)[Len(s) + 1] = p /\ Len(Append(s, p)) = Len(s) + 1 BY AppendProperties
<1>3. Append(s, p) \in Seq(Packet) BY AppendProperties
<1>4. DOMAIN Append(s, p) = 1..(Len(s) + 1) /\ DOMAIN s = 1..Len(s) /\ Len(s) \in Nat
  BY <1>2, <1>3, LenProperties
<1>5. Len(s) + 1 > 1 => s # <<>> BY EmptySeq
<1> QED BY <1>1, <1>2, <1>4, <1>5 DEF InTime

(* The work loop starts with nothing taken and nothing held back *)
LEMMA InitIInv == Init => IInv
<1> SUFFICES ASSUME Init PROVE IInv OBVIOUS
<1>1. Types BY TimeAssumption DEF Init, Types, Gap, Late
<1>2. NothingLost BY KeysEmpty DEF Init, NothingLost
<1>3. MacrosInTime BY DEF Init, MacrosInTime, InTime
<1> QED BY <1>1, <1>2, <1>3 DEF IInv

(* A sequence that was replaced is that of its entry, in time *)
Proper(v) ==
    /\ InTime(v.packets) /\ Len(v.packets) = Len(v.entry.sequence)
    /\ compareMacro(v.packets, v.entry.sequence)
    /\ ModifiersMatch(v.entry, v.modifiers)

(* What invertMacros starts from, for a packet: the packets held back, or   *)
(* none if the packet comes too late, and what leaves because of that       *)
Kept(packet) == IF TooLate(macro, packet) THEN dispatchInvertBuffer(macro) ELSE macro

Held(m) == m = [buffer |-> m.buffer, timer |-> m.timer, modifiers |-> m.modifiers]

(* The packets held back are still in order, in time and the beginning of a *)
(* macro once those that wait for too long have left.                       *)
LEMMA KeptInOrder ==
    ASSUME IInv, NEW packet \in Packet
    PROVE  /\ Held(Kept(packet)) /\ Kept(packet).buffer \in Seq(Packet)
           /\ Overdue(packet) \in Seq(Key)
           /\ taken = (gone \o Overdue(packet)) \o Keys(Kept(packet).buffer)
           /\ InTime(Append(Kept(packet).buffer, packet))
<1> DEFINE m == Kept(packet)
<1>1. CASE TooLate(macro, packet)
  <2>1. m.buffer = <<>> /\ Held(m) BY <1>1 DEF Kept, Held, dispatchInvertBuffer
  <2>2. Overdue(packet) = Keys(macro.buffer) BY <1>1 DEF Overdue
  <2>3. Overdue(packet) \in Seq(Key) BY <2>2, KeysType DEF IInv, Types
  <2>4. gone \o Overdue(packet) = taken BY <2>2 DEF IInv, NothingLost
  <2>5. taken \o <<>> = taken BY ConcatEmptySeq DEF IInv, Types
  <2>6. m.buffer \in Seq(Packet) /\ InTime(m.buffer) BY <2>1 DEF InTime
  <2>7. InTime(Append(m.buffer, packet)) BY <2>1, <2>6, AppendInTime
  <2> QED BY <2>1, <2>3, <2>4, <2>5, <2>6, <2>7, KeysEmpty
<1>2. CASE ~TooLate(macro, packet)
  <2>1. m = macro BY <1>2 DEF Kept
  <2>2. Overdue(packet) = <<>> BY <1>2 DEF Overdue
  <2>3. gone \o <<>> = gone BY ConcatEmptySeq DEF IInv, Types
  <2>4. macro.buffer # <<>> => packet.gap <= MaxMacroTime
    BY <1>2, TimeAssumption DEF TooLate, Packet, Gap, Late
  <2>5. InTime(Append(macro.buffer, packet))
    BY <2>4, AppendInTime DEF IInv, Types, MacrosInTime
  <2> QED BY <2>1, <2>2, <2>3, <2>5 DEF IInv, Types, NothingLost, Held
<1> QED BY <1>1, <1>2

(* A packet taken off the ring preserves the invariant, whether it leaves   *)
(* with those held back, completes a macro or is held back                  *)
LEMMA TakeIInv == ASSUME IInv, TakePacket PROVE IInv'
<1> DEFINE p == Head(ring)
           m == Kept(p)
           left == gone \o Overdue(p)
           buffered == Append(m.buffer, p)
           matching == Matching(buffered, m.modifiers)
<1>1. p \in Packet /\ p.key \in Key /\ Tail(ring) \in Seq(Packet)
  <2>1. ring \in Seq(Packet) /\ ring # <<>> BY DEF IInv, Types, TakePacket
  <2>2. p \in Packet /\ Tail(ring) \in Seq(Packet) BY <2>1, HeadTailProperties
  <2> QED BY <2>2 DEF Packet
<1>2. Held(m) /\ m.buffer \in Seq(Packet) /\ Overdue(p) \in Seq(Key) BY <1>1, KeptInOrder
<1>3. taken = left \o Keys(m.buffer) /\ InTime(buffered) BY <1>1, KeptInOrder
<1>4. left \in Seq(Key) /\ Keys(m.buffer) \in Seq(Key) /\ buffered \in Seq(Packet)
  BY <1>1, <1>2, KeysType, ConcatProperties, AppendProperties DEF IInv, Types
<1>5. Keys(buffered) = Append(Keys(m.buffer), p.key) BY <1>1, <1>2, KeysAppend
<1>6. taken' = left \o Keys(buffered)
  BY <1>1, <1>3, <1>4, <1>5, AppendConcat DEF TakePacket
<1>7. Keys(buffered) \in Seq(Key) /\ left \o Keys(buffered) \in Seq(Key)
  BY <1>4, KeysType, ConcatProperties
<1>8. ring' \in Seq(Packet) /\ age' \in Gap BY <1>1 DEF TakePacket, IInv, Types
<1>9. CASE NoMatch(m, p)
  <2>1. macro'.buffer = <<>> /\ Held(macro)'
    BY <1>2, <1>9 DEF NoMatch, dispatchInvertBuffer, Held
  <2>2. gone' = left \o Keys(buffered) /\ inverted' = inverted BY <1>5, <1>9 DEF NoMatch
  <2>3. taken' = gone' \o Keys(macro'.buffer)
    BY <1>6, <1>7, <2>1, <2>2, KeysEmpty, ConcatEmptySeq
  <2>4. Types' BY <1>6, <1>7, <1>8, <2>1, <2>2 DEF Types, Held
  <2>5. MacrosInTime' BY <2>1, <2>2 DEF IInv, MacrosInTime, InTime
  <2> QED BY <2>3, <2>4, <2>5 DEF IInv, NothingLost
<1>10. ASSUME NEW i \in matching, Match(m, p, MacroData[i]) PROVE IInv'
  <2> DEFINE entry == MacroData[i]
  <2>1. /\ i \in MacroInversion /\ Len(buffered) <= Len(entry.sequence)
        /\ compareMacro(buffered, entry.sequence)
        /\ Len(buffered) = Len(entry.sequence) => ModifiersMatch(entry, m.modifiers)
    BY <1>10 DEF Matching
  <2>2. CASE Len(buffered) = Len(entry.sequence)
    <3>1. macro'.buffer = <<>> /\ Held(macro)' BY <1>10, <2>2 DEF Match, Held
    <3>2. gone' = left \o Keys(buffered) BY <1>10, <2>2 DEF Match
    <3>3. taken' = gone' \o Keys(macro'.buffer)
      BY <1>6, <1>7, <3>1, <3>2, KeysEmpty, ConcatEmptySeq
    <3>4. Types' BY <1>6, <1>7, <1>8, <3>1, <3>2 DEF Types, Held
    <3> DEFINE new == [entry |-> entry, packets |-> buffered, modifiers |-> m.modifiers]
    <3>5. inverted' = inverted \cup {new} BY <1>10, <2>2 DEF Match
    <3>6. MacrosInTime'
      <4>1. new.entry = entry /\ new.packets = buffered /\ new.modifiers = m.modifiers OBVIOUS
      <4>2. Proper(new) BY <1>3, <2>1, <2>2, <4>1 DEF Proper
      <4>3. \A v \in inverted : Proper(v) BY DEF IInv, MacrosInTime, Proper
      <4>4. \A v \in inverted' : Proper(v) BY <3>5, <4>2, <4>3
      <4>5. InTime(macro.buffer)' BY <3>1 DEF InTime
      <4> QED BY <3>1, <4>4, <4>5 DEF MacrosInTime, Proper
    <3> QED BY <3>3, <3>4, <3>6 DEF IInv, NothingLost
  <2>3. CASE Len(buffered) # Len(entry.sequence)
    <3>1. macro' = KeepWaiting(m, buffered) /\ gone' = left /\ inverted' = inverted
      BY <1>10, <2>3 DEF Match
    <3>2. macro'.buffer = buffered /\ Held(macro)' BY <1>2, <3>1 DEF KeepWaiting, Held
    <3>3. taken' = gone' \o Keys(macro'.buffer) BY <1>6, <3>1, <3>2
    <3>4. Types' BY <1>4, <1>6, <1>7, <1>8, <3>1, <3>2 DEF Types, Held
    <3>5. Len(macro'.buffer) < Len(entry.sequence)
      BY <1>4, <2>1, <2>3, <3>2, LoadedSequence, LenProperties
    <3>6. MacrosInTime' BY <1>3, <2>1, <3>1, <3>2, <3>5 DEF IInv, MacrosInTime
    <3> QED BY <3>3, <3>4, <3>6 DEF IInv, NothingLost
  <2> QED BY <2>2, <2>3
<1> QED BY <1>9, <1>10 DEF TakePacket, invertMacros, Kept

(* The other steps move neither the packets held back nor those that left,  *)
(* except that the timer lets go of what is held back                       *)
LEMMA NextIInv == IInv /\ [Next]_vars => IInv'
<1> SUFFICES ASSUME IInv, [Next]_vars PROVE IInv' OBVIOUS
<1> DEFINE Same == Held(macro)' /\ macro'.buffer = macro.buffer
                   /\ UNCHANGED <<taken, gone, inverted>>
<1>1. ASSUME Same, ring' \in Seq(Packet), age' \in Gap PROVE IInv'
  BY <1>1 DEF IInv, Types, NothingLost, MacrosInTime, Held
<1>2. Late \in Nat /\ Gap = 0..Late BY TimeAssumption DEF Late, Gap
<1>3. ASSUME NEW key \in Key, interruptOccurred(key) PROVE IInv'
  <2>1. [key |-> key, gap |-> age] \in Packet BY DEF Packet, IInv, Types
  <2>2. ring' \in Seq(Packet) BY <1>3, <2>1, AppendProperties DEF interruptOccurred, IInv, Types
  <2>3. Same /\ age' \in Gap BY <1>2, <1>3 DEF interruptOccurred, IInv, Types, Held
  <2> QED BY <1>1, <2>2, <2>3
<1>4. CASE Tick
  <2>1. age' \in Gap BY <1>2, <1>4 DEF Tick, IInv, Types
  <2>2. Same /\ ring' \in Seq(Packet) BY <1>4 DEF Tick, IInv, Types, Held
  <2> QED BY <1>1, <2>1, <2>2
<1>5. CASE packetReady BY <1>1, <1>5 DEF packetReady, IInv, Types, Held
<1>6. CASE TakePacket BY <1>6, TakeIInv
<1>7. CASE PacketsDone BY <1>1, <1>7 DEF PacketsDone, IInv, Types, Held
<1>8. CASE onMacroTimer BY <1>1, <1>8 DEF onMacroTimer, IInv, Types, Held
<1>9. CASE MacroTimerExpired
  <2>1. CASE UNCHANGED <<macro, gone>>
    BY <1>1, <1>9, <2>1 DEF MacroTimerExpired, IInv, Types, Held
  <2>2. CASE macro' = dispatchInvertBuffer(macro) /\ gone' = gone \o Keys(macro.buffer)
    <3>1. macro'.buffer = <<>> /\ Held(macro)' BY <2>2 DEF dispatchInvertBuffer, Held
    <3>2. gone' = taken /\ taken' = taken /\ inverted' = inverted
      BY <1>9, <2>2 DEF MacroTimerExpired, IInv, NothingLost
    <3>3. Types' BY <1>9, <3>1, <3>2 DEF MacroTimerExpired, IInv, Types, Held
    <3>4. NothingLost' BY <3>1, <3>2, KeysEmpty, ConcatEmptySeq DEF NothingLost, IInv, Types
    <3>5. MacrosInTime' BY <3>1, <3>2 DEF IInv, MacrosInTime, InTime
    <3> QED BY <3>3, <3>4, <3>5 DEF IInv
  <2> QED BY <1>9, <2>1, <2>2 DEF MacroTimerExpired
<1>10. CASE initKeyboard
  <2>1. Elapsed \in Gap BY <1>2 DEF Elapsed
  <2>2. ring' \in Seq(Packet) BY <1>10, EmptySeq DEF initKeyboard
  <2>3. Held(macro)' /\ macro'.buffer = macro.buffer
    BY <1>10 DEF initKeyboard, IInv, Types, Held
  <2>4. Same /\ age' \in Gap BY <1>10, <2>1, <2>3 DEF initKeyboard
  <2> QED BY <1>1, <2>2, <2>4
<1>11. CASE UNCHANGED vars BY <1>1, <1>11 DEF vars, IInv, Types, Held
<1> QED BY <1>3, <1>4, <1>5, <1>6, <1>7, <1>8, <1>9, <1>10, <1>11 DEF Next

(* On every behaviour of the model the invariant holds in every state *)
LEMMA Invariance == Spec => []IInv
BY InitIInv, NextIInv, PTL DEF Spec

(* Whatever macros are configured, and however long the keyboard is used,   *)
(* the packets the work loop takes off the ring leave in order, none twice  *)
(* and none lost, or are held back.                                         *)
THEOREM PacketsNeverLost == Spec => []NothingLost
<1>1. IInv => NothingLost BY DEF IInv
<1> QED BY <1>1, Invariance, PTL

(* Whatever macros are configured, a macro is replaced only for its whole   *)
(* sequence, in time and with its modifiers, and the packets held back are  *)
(* a proper beginning of some macro: _macroBuffer is long enough.           *)
THEOREM MacrosNeverLate == Spec => []MacrosInTime
<1>1. IInv => MacrosInTime BY DEF IInv
<1> QED BY <1>1, Invariance, PTL
=============================================================================
