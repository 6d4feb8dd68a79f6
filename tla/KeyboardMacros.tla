---------------------------- MODULE KeyboardMacros ----------------------------
(***************************************************************************)
(* Macro inversion in ApplePS2Keyboard.  Some keyboards send a sequence of *)
(* packets for a single special key.  The work loop holds packets back in  *)
(* _macroBuffer while they may still become such a sequence, and then      *)
(* dispatches either the one packet the sequence stands for or the packets *)
(* themselves.  A pause between two packets ends the wait: it is noticed   *)
(* by the packet that comes after it or by _macroTimer.                    *)
(*                                                                         *)
(* Times are counted in ticks between events and not from the beginning:   *)
(* a packet carries the time since the packet before it.                   *)
(***************************************************************************)
EXTENDS Integers, Sequences, SequencesExt

CONSTANTS
    Key,          \* the packets of keys: scan codes, with the bit for up
    Output,       \* the packets macros stand for
    Makes,        \* the modifier that goes down with a key, for some keys
    Breaks,       \* the modifier that comes up with a key, for some keys
    MacroData,    \* the entries of the configuration's Macro Inversion
    MaxMacroTime, \* _macroMaxTime
    MaxTyped, MaxWaiting, MaxWakes  \* bounds: packets, packets in the ring

ASSUME TimeAssumption == MaxMacroTime \in Nat
ASSUME BoundAssumption == {MaxTyped, MaxWaiting, MaxWakes} \subseteq Nat

(* An entry holds the sequence of a macro, the packet it stands for and     *)
(* what it asks of the modifiers: mask and compare, where a compare of      *)
(* 0xFFFF ("any") asks for some modifier of the mask.  An entry is data of  *)
(* any length (odd: an incomplete packet) with any first two bytes.         *)
Modifier == {Makes[k] : k \in DOMAIN Makes} \cup {Breaks[k] : k \in DOMAIN Breaks}

Entry == [marked : BOOLEAN, odd : BOOLEAN, sequence : Seq(Key), output : Output,
          mask : SUBSET Modifier, any : BOOLEAN, compare : SUBSET Modifier]

ASSUME EntryAssumption == MacroData \in Seq(Entry)

(* The entries that are loaded, by their places in the configuration        *)
loadMacroData(data) ==
    {i \in DOMAIN data : Len(data[i].sequence) >= 1 /\ ~data[i].odd /\ data[i].marked}

MacroInversion == loadMacroData(MacroData)

VARIABLES
    ring,       \* _ringBuffer
    age,        \* the time since the last packet was stamped
    pc,         \* the work loop: "idle", in packetReady ("packets"), or in
                \* onMacroTimer: in its packetReady ("timer"), then "expired"
    macro,      \* _macroBuffer up to _macroCurrent, _macroTimer, and
                \* _PS2modifierState, which decides about a macro
    taken,      \* the keys taken off the ring
    gone,       \* the keys that were dispatched or replaced
    inverted,   \* the sequences that were replaced
    typed, wakes

vars == <<ring, age, pc, macro, taken, gone, inverted, typed, wakes>>

Late == MaxMacroTime + 1  \* any time that is too long
Off == -1

Gap == 0..Late
Packet == [key : Key, gap : Gap]

Init ==
    /\ ring = <<>> /\ age = Late /\ pc = "idle"
    /\ macro = [buffer |-> <<>>, timer |-> Off, modifiers |-> {}]
    /\ taken = <<>> /\ gone = <<>> /\ inverted = {}
    /\ typed = 0 /\ wakes = 0

-----------------------------------------------------------------------------
(* dispatchKeyboardEventWithPacket, as far as macros are concerned: the      *)
(* packet leaves, and _PS2modifierState follows it.                          *)
TrackModifier(modifiers, key) ==
    (modifiers \cup (IF key \in DOMAIN Makes THEN {Makes[key]} ELSE {}))
        \ (IF key \in DOMAIN Breaks THEN {Breaks[key]} ELSE {})

Dispatched(modifiers, packets) ==
    FoldLeft(LAMBDA m, p : TrackModifier(m, p.key), modifiers, packets)

dispatchInvertBuffer(m) ==
    [buffer |-> <<>>, timer |-> Off, modifiers |-> Dispatched(m.modifiers, m.buffer)]

compareMacro(buffer, sequence) ==
    \A i \in DOMAIN buffer : buffer[i].key = sequence[i]

ModifiersMatch(entry, modifiers) ==
    \/ entry.any /\ modifiers \cap entry.mask # {}
    \/ ~entry.any /\ modifiers \cap entry.mask = entry.compare

(* The entries that match the packets, in whole or, so far, in part *)
Matching(buffer, modifiers) ==
    {i \in MacroInversion :
        LET entry == MacroData[i]
        IN  /\ Len(buffer) <= Len(entry.sequence)
            /\ compareMacro(buffer, entry.sequence)
            /\ Len(buffer) = Len(entry.sequence) => ModifiersMatch(entry, modifiers)}

First(i, S) == \A j \in S : i <= j

(* Mutant: a pause between two packets is not noticed *)
NeverTooLate(m, packet) == FALSE

TooLate(m, packet) == m.buffer # <<>> /\ packet.gap > MaxMacroTime

Keys(packets) == [i \in DOMAIN packets |-> packets[i].key]

(* What leaves because this packet comes too late *)
Overdue(packet) == IF TooLate(macro, packet) THEN Keys(macro.buffer) ELSE <<>>

-----------------------------------------------------------------------------
(* The interrupt routine stamps a packet and puts it into the ring *)
interruptOccurred(key) ==
    /\ typed < MaxTyped /\ Len(ring) < MaxWaiting
    /\ ring' = Append(ring, [key |-> key, gap |-> age])
    /\ age' = 0 /\ typed' = typed + 1
    /\ UNCHANGED <<pc, macro, taken, gone, inverted, wakes>>

(* Time passes, but no further than to the timer.  The time between the      *)
(* stamp of a packet and the setting of the timer is counted as a tick.      *)
Tick ==
    /\ macro.timer # 0
    /\ age' = IF age < Late THEN age + 1 ELSE Late
    /\ macro' = [macro EXCEPT !.timer = IF @ = Off THEN Off ELSE @ - 1]
    /\ age < Late \/ macro.timer # Off
    /\ UNCHANGED <<ring, pc, taken, gone, inverted, typed, wakes>>

packetReady ==
    /\ pc = "idle" /\ ring # <<>>
    /\ pc' = "packets"
    /\ UNCHANGED <<ring, age, macro, taken, gone, inverted, typed, wakes>>

(* Mutant: _macroTimer is not set *)
KeepWaitingUntimed(m, buffered) == [m EXCEPT !.buffer = buffered]

KeepWaiting(m, buffered) == [m EXCEPT !.buffer = buffered, !.timer = Late]

(* Mutant: the packets held back are dropped with the macro they do not make *)
NoMatchDrop(m, packet) ==
    /\ macro' = [dispatchInvertBuffer(m) EXCEPT
                    !.modifiers = Dispatched(m.modifiers, <<packet>>)]
    /\ gone' = Append(gone, packet.key)
    /\ UNCHANGED inverted

(* No entry matches: the packets held back leave, and then this one *)
NoMatch(m, packet) ==
    /\ macro' = [(IF m.buffer = <<>> THEN m ELSE dispatchInvertBuffer(m)) EXCEPT
                    !.modifiers = Dispatched(m.modifiers, Append(m.buffer, packet))]
    /\ gone' = gone \o Overdue(packet) \o Append(Keys(m.buffer), packet.key)
    /\ UNCHANGED inverted

(* The first entry that matches decides *)
Match(m, packet, entry) ==
    LET buffered == Append(m.buffer, packet)
    IN  IF Len(buffered) = Len(entry.sequence)
        THEN /\ macro' = [buffer |-> <<>>, timer |-> Off,
                          modifiers |-> TrackModifier(m.modifiers, entry.output)]
             /\ gone' = gone \o Overdue(packet) \o Keys(buffered)
             /\ inverted' = inverted \cup {[entry |-> entry, packets |-> buffered,
                                            modifiers |-> m.modifiers]}
        ELSE /\ macro' = KeepWaiting(m, buffered)
             /\ gone' = gone \o Overdue(packet)
             /\ UNCHANGED inverted

invertMacros(packet) ==
    LET m == IF TooLate(macro, packet) THEN dispatchInvertBuffer(macro) ELSE macro
        matching == Matching(Append(m.buffer, packet), m.modifiers)
    IN  IF matching = {} THEN NoMatch(m, packet)
        ELSE \E i \in matching : First(i, matching) /\ Match(m, packet, MacroData[i])

(* One round of the loop in packetReady *)
TakePacket ==
    /\ pc \in {"packets", "timer"} /\ ring # <<>>
    /\ invertMacros(Head(ring))
    /\ taken' = Append(taken, Head(ring).key)
    /\ ring' = Tail(ring)
    /\ UNCHANGED <<age, pc, typed, wakes>>

PacketsDone ==
    /\ pc \in {"packets", "timer"} /\ ring = <<>>
    /\ pc' = IF pc = "packets" THEN "idle" ELSE "expired"
    /\ UNCHANGED <<ring, age, macro, taken, gone, inverted, typed, wakes>>

onMacroTimer ==
    /\ pc = "idle" /\ macro.timer = 0
    /\ pc' = "timer" /\ macro' = [macro EXCEPT !.timer = Off]
    /\ UNCHANGED <<ring, age, taken, gone, inverted, typed, wakes>>

(* The time since the stamp of the last packet held back, which is the last  *)
(* packet that was taken: that between the packets in the ring, and since    *)
Waited == FoldLeft(LAMBDA sum, p : sum + p.gap, 0, ring)

Elapsed == IF age + Waited \in Gap THEN age + Waited ELSE Late

MacroTimerExpired ==
    /\ pc = "expired" /\ pc' = "idle"
    /\ IF macro.buffer # <<>> /\ Elapsed > MaxMacroTime
       THEN macro' = dispatchInvertBuffer(macro) /\ gone' = gone \o Keys(macro.buffer)
       ELSE UNCHANGED <<macro, gone>>
    /\ UNCHANGED <<ring, age, taken, inverted, typed, wakes>>

(* initKeyboard, after the machine woke up, empties the ring and forgets the *)
(* modifiers.  The packets held back, and the timer, stay as they are.       *)
initKeyboard ==
    /\ pc = "idle" /\ wakes < MaxWakes
    /\ ring' = <<>> /\ age' = Elapsed
    /\ macro' = [macro EXCEPT !.modifiers = {}]
    /\ wakes' = wakes + 1
    /\ UNCHANGED <<pc, taken, gone, inverted, typed>>

Next ==
    \/ \E key \in Key : interruptOccurred(key)
    \/ Tick
    \/ packetReady
    \/ TakePacket
    \/ PacketsDone
    \/ onMacroTimer
    \/ MacroTimerExpired
    \/ initKeyboard

(* The work loop serves its sources, and time passes.  Keys may never be     *)
(* pressed again.                                                            *)
Fairness ==
    /\ WF_vars(Tick) /\ WF_vars(packetReady) /\ WF_vars(TakePacket)
    /\ WF_vars(PacketsDone) /\ WF_vars(onMacroTimer) /\ WF_vars(MacroTimerExpired)

Spec == Init /\ [][Next]_vars /\ Fairness

-----------------------------------------------------------------------------
(* What the work loop takes off the ring leaves in the same order, none of   *)
(* it twice and none of it lost: as it is, as part of a macro, or it is held *)
(* back (packetReady, invertMacros, dispatchInvertBuffer).                   *)
NothingLost == taken = gone \o Keys(macro.buffer)

InTime(packets) == \A i \in DOMAIN packets : i > 1 => packets[i].gap <= MaxMacroTime

(* A sequence is complete, of one piece and in time: no pause longer than    *)
(* _macroMaxTime lies within packets that are held back or replaced, and     *)
(* what is held back is the beginning, but not the whole, of some macro, so  *)
(* that it fits into _macroBuffer (invertMacros, probe).                     *)
MacrosInTime ==
    /\ InTime(macro.buffer)
    /\ macro.buffer # <<>> =>
          \E i \in MacroInversion :
              /\ Len(macro.buffer) < Len(MacroData[i].sequence)
              /\ compareMacro(macro.buffer, MacroData[i].sequence)
    /\ \A v \in inverted :
          /\ InTime(v.packets) /\ Len(v.packets) = Len(v.entry.sequence)
          /\ compareMacro(v.packets, v.entry.sequence)
          /\ ModifiersMatch(v.entry, v.modifiers)

(* No packet is held back for ever: if no key follows, onMacroTimer          *)
(* dispatches it, although it sets its timer only once for each packet.      *)
HeldBackLeave == (macro.buffer # <<>>) ~> (macro.buffer = <<>>)
=============================================================================
