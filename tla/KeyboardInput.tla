---------------------------- MODULE KeyboardInput ----------------------------
(***************************************************************************)
(* ApplePS2Keyboard from the scan codes to the HID system: the interrupt   *)
(* routine turns bytes into packets and keeps a bit for every key, the     *)
(* work loop dispatches the packets and keeps the modifiers, and           *)
(* initKeyboard releases the keys when the machine wakes up.               *)
(*                                                                         *)
(* A byte is a pair <<code, up>>, and a key a pair <<extended, code>>.  A  *)
(* packet is a key that goes down or up, or the special packet 0.  The     *)
(* packet buffer is the bounded queue that RingBuffer implements.          *)
(***************************************************************************)
EXTENDS Naturals, SequencesExt

CONSTANTS Key,        \* the keys the user presses
          Breakless,  \* keys flagged kBreaklessKey: they send no break code
          Pause,      \* the user presses the Pause key too
          Slots,      \* packets the buffer holds, and one
          MaxWire,    \* bound: bytes on their way from the keyboard
          MaxPresses, \* bound: presses and repetitions of keys
          MaxResets,  \* bound: resets of the keyboard
          MaxSleeps   \* bound: times the machine goes to sleep

ASSUME SlotsAssumption == Slots \in Nat \ {0, 1}

LeftCtrl == <<0, "1D">>
LeftShift == <<0, "2A">>
LeftAlt == <<0, "38">>
RightCtrl == <<1, "1D">>
RightAlt == <<1, "38">>
Delete == <<1, "53">>
PauseKey == <<1, "45">>
PrintScreenHeader == <<1, "2A">>
Modifier == {LeftCtrl, LeftShift, LeftAlt, RightCtrl, RightAlt}

(* The keys with a bit, in the order of their codes *)
ScanOrder ==
    <<LeftCtrl, LeftShift, LeftAlt, RightCtrl, PrintScreenHeader, RightAlt, PauseKey, Delete>>

ASSUME KeyAssumption == Key \subseteq Breakless \cup Range(ScanOrder)

Extend == <<"E0", FALSE>>
PausePrefix == <<"E1", FALSE>>
Acknowledge == <<"FA", FALSE>>
Resend == <<"FE", FALSE>>
Reset == <<"2A", TRUE>>     \* $AA, which also is the break code of the left shift
Zero == <<"00", FALSE>>

VARIABLES
    down,         \* the keys that are held down
    wire,         \* the bytes on their way to the controller
    awake,        \* the keyboard is enabled and interrupts are served
    presses, resets, sleeps,
    extendCount, lastdata, keyBitVector,  \* interruptOccurred
    ring,         \* the packets in the buffer
    modifierState,
    hid,          \* the keys that are down for the HID system
    saluted,      \* the power key was sent for Ctrl+Alt+Delete
    lost          \* the keys that went up, or a packet of which was dropped,
                  \* without a packet that says so

userVars == <<down, wire, awake, presses, resets, sleeps>>
isrVars == <<extendCount, lastdata, keyBitVector>>
hidVars == <<modifierState, hid, saluted>>
vars == <<userVars, isrVars, ring, hidVars, lost>>

Init ==
    /\ down = {} /\ wire = <<>> /\ awake = TRUE
    /\ presses = 0 /\ resets = 0 /\ sleeps = 0
    /\ extendCount = 0 /\ lastdata = Zero /\ keyBitVector = {}
    /\ ring = <<>>
    /\ modifierState = {} /\ hid = {} /\ saluted = FALSE
    /\ lost = {}

-----------------------------------------------------------------------------
(* The keyboard.  A disabled keyboard says nothing. *)

Codes(key, up) ==
    IF key[1] = 0 THEN << <<key[2], up>> >> ELSE <<Extend, <<key[2], up>> >>

PauseCodes ==
    <<PausePrefix, <<"1D", FALSE>>, <<"45", FALSE>>,
      PausePrefix, <<"1D", TRUE>>, <<"45", TRUE>> >>

Send(bytes) ==
    /\ Len(wire) + Len(bytes) <= MaxWire
    /\ wire' = IF awake THEN wire \o bytes ELSE wire
    /\ UNCHANGED <<awake, sleeps, isrVars, ring, hidVars>>

(* A key that is held down repeats its make code *)
Press(key) ==
    /\ presses < MaxPresses /\ presses' = presses + 1
    /\ down' = IF key \in Breakless THEN down ELSE down \cup {key}
    /\ Send(Codes(key, FALSE))
    /\ UNCHANGED <<resets, lost>>

PressPause ==
    /\ Pause /\ presses < MaxPresses /\ presses' = presses + 1
    /\ Send(PauseCodes)
    /\ UNCHANGED <<down, resets, lost>>

Release(key) ==
    /\ key \in down
    /\ down' = down \ {key}
    /\ Send(Codes(key, TRUE))
    /\ UNCHANGED <<presses, resets, lost>>

(* Static electricity resets the keyboard, which forgets the keys held down *)
KeyboardResets ==
    /\ resets < MaxResets /\ resets' = resets + 1
    /\ down' = {} /\ lost' = lost \cup down
    /\ Send(<<Reset, Zero>>)
    /\ UNCHANGED presses

-----------------------------------------------------------------------------
(* interruptOccurred *)

Make(key) == [key |-> key, down |-> TRUE]
Break(key) == [key |-> key, down |-> FALSE]
ResetPacket == [key |-> <<0, "00">>, down |-> FALSE]
Full == Len(ring) = Slots - 1

Buffer(packet) ==
    /\ ring' = IF Full THEN ring ELSE Append(ring, packet)
    /\ lost' = IF Full THEN lost \cup {packet.key} ELSE lost

Buffering == UNCHANGED <<ring, lost>>

(* A routine that does not look for repeats *)
PacketizeRepeats(data) ==
    LET key == <<extendCount, data[1]>>
    IN  /\ keyBitVector' = IF data[2] THEN keyBitVector \ {key} ELSE keyBitVector \cup {key}
        /\ Buffer(IF data[2] THEN Break(key) ELSE Make(key))

(* A byte that completes a key *)
Packetize(data) ==
    LET key == <<extendCount, data[1]>>
        up == data[2]
        packet == IF up THEN Break(key) ELSE Make(key)
        repeat == ~up /\ key \in keyBitVector
    IN  CASE key \in Breakless -> Buffer(packet) /\ UNCHANGED keyBitVector
          [] key \notin Breakless /\ repeat -> Buffering /\ UNCHANGED keyBitVector
          [] OTHER -> /\ keyBitVector' = IF up THEN keyBitVector \ {key}
                                         ELSE keyBitVector \cup {key}
                      /\ Buffer(packet)

ScanCode(data) ==
    CASE data \in {Acknowledge, Resend} ->
           Buffering /\ UNCHANGED <<extendCount, keyBitVector>>
      [] data = Extend ->
           extendCount' = 1 /\ Buffering /\ UNCHANGED keyBitVector
      [] data = PausePrefix ->
           extendCount' = 2 /\ Buffering /\ UNCHANGED keyBitVector
      [] data \notin {Acknowledge, Resend, Extend, PausePrefix} /\ extendCount = 2 ->
           extendCount' = 1 /\ Buffering /\ UNCHANGED keyBitVector
      [] OTHER -> extendCount' = 0 /\ Packetize(data)

interruptOccurred ==
    LET data == Head(wire)
    IN  /\ awake /\ wire # <<>>
        /\ wire' = Tail(wire)
        /\ IF lastdata = Reset /\ data = Zero
           THEN Buffer(ResetPacket) /\ extendCount' = 0 /\ UNCHANGED <<lastdata, keyBitVector>>
           ELSE lastdata' = data /\ ScanCode(data)
        /\ UNCHANGED <<down, awake, presses, resets, sleeps, hidVars>>

-----------------------------------------------------------------------------
(* dispatchKeyboardEventWithPacket, as a function of what it changes *)

Hid == [modifiers |-> modifierState, down |-> hid, saluted |-> saluted]

(* A dispatcher that only sets the bits of the modifiers *)
TrackModifierDown(state, packet) ==
    IF packet.key \notin Modifier \/ ~packet.down THEN state
    ELSE [state EXCEPT !.modifiers = @ \cup {packet.key}]

TrackModifier(state, packet) ==
    IF packet.key \notin Modifier THEN state
    ELSE [state EXCEPT !.modifiers =
              IF packet.down THEN @ \cup {packet.key} ELSE @ \ {packet.key}]

(* Ctrl+Alt+Delete: the power key, with Ctrl and Alt up *)
ThreeFingerSalute(state, packet) ==
    IF packet.down THEN state
    ELSE [state EXCEPT !.down = @ \ {LeftCtrl, LeftAlt}, !.saluted = TRUE]

KeyEvent(state, packet) ==
    [state EXCEPT !.down = IF packet.down /\ packet.key \notin Breakless
                           THEN @ \cup {packet.key} ELSE @ \ {packet.key}]

dispatchKeyboardEventWithPacket(state, packet) ==
    LET tracked == TrackModifier(state, packet)
    IN  CASE packet.key = PrintScreenHeader -> state
          [] packet.key = Delete /\ {LeftCtrl, LeftAlt} \subseteq tracked.modifiers ->
                 ThreeFingerSalute(tracked, packet)
          [] OTHER -> KeyEvent(tracked, packet)

SetHid(state) ==
    modifierState' = state.modifiers /\ hid' = state.down /\ saluted' = state.saluted

packetReady ==
    /\ ring # <<>>
    /\ ring' = Tail(ring)
    /\ IF Head(ring) = ResetPacket THEN UNCHANGED hidVars
       ELSE SetHid(dispatchKeyboardEventWithPacket(Hid, Head(ring)))
    /\ UNCHANGED <<userVars, isrVars, lost>>

-----------------------------------------------------------------------------
(* Going to sleep disables the keyboard and ignores interrupts.  Waking up  *)
(* drains the controller and calls initKeyboard, with interrupts ignored.   *)

Sleep ==
    /\ awake /\ sleeps < MaxSleeps
    /\ awake' = FALSE /\ sleeps' = sleeps + 1
    /\ UNCHANGED <<down, wire, presses, resets, isrVars, ring, hidVars, lost>>

(* A key up for each bit of the vector *)
KeyUps ==
    FoldLeft(LAMBDA state, key : dispatchKeyboardEventWithPacket(state, Break(key)),
             Hid, SelectSeq(ScanOrder, LAMBDA key : key \in keyBitVector))

(* An initKeyboard that clears the bits without releasing the keys *)
initKeyboardSilent ==
    /\ SetHid([Hid EXCEPT !.modifiers = {}])
    /\ keyBitVector' = {} /\ extendCount' = 0
    /\ ring' = <<>>
    /\ lost' = lost \cup {ring[i].key : i \in DOMAIN ring}
    /\ UNCHANGED lastdata

initKeyboard ==
    /\ SetHid([KeyUps EXCEPT !.modifiers = {}])
    /\ keyBitVector' = {} /\ extendCount' = 0
    /\ ring' = <<>>
    /\ lost' = lost \cup {ring[i].key : i \in DOMAIN ring}
    /\ UNCHANGED lastdata

Wake ==
    /\ ~awake
    /\ awake' = TRUE /\ wire' = <<>>
    /\ initKeyboard
    /\ UNCHANGED <<down, presses, resets, sleeps>>

-----------------------------------------------------------------------------
Next ==
    \/ \E key \in Key : Press(key) \/ Release(key)
    \/ PressPause \/ KeyboardResets
    \/ interruptOccurred \/ packetReady
    \/ Sleep \/ Wake

Spec == Init /\ [][Next]_vars

-----------------------------------------------------------------------------
(* Properties *)

AnyKey == Range(ScanOrder) \cup Breakless

(* When everything the keyboard sent has been dispatched, a key that is     *)
(* down for the HID system is held down: no key repeats for ever.  The      *)
(* exceptions are the keys in lost, and Delete when its break was taken for *)
(* Ctrl+Alt+Delete.                                                         *)
Quiet == awake /\ wire = <<>> /\ ring = <<>>

NoStuckKey ==
    Quiet => hid \subseteq down \cup lost \cup (IF saluted THEN {Delete} ELSE {})

(* The interrupt routine's bits and the HID system agree about a key once   *)
(* its packets are dispatched: the bit is what the last packet says, or     *)
(* what HID has; and no key goes down twice without going up.  The keys of  *)
(* Ctrl+Alt+Delete are excepted once it was pressed.                        *)
Packets(key) == SelectSeq(ring, LAMBDA packet : packet.key = key)

Excepted ==
    lost \cup Breakless \cup {Delete}
    \cup (IF saluted THEN {LeftCtrl, LeftAlt} ELSE {})

BitsAgree ==
    \A key \in AnyKey \ Excepted :
        LET packets == Packets(key)
            before(i) == IF i = 1 THEN key \in hid ELSE packets[i - 1].down
        IN  /\ \A i \in DOMAIN packets : packets[i].down => ~before(i)
            /\ (key \in keyBitVector) = before(Len(packets) + 1)

(* When everything has been dispatched, the modifiers the driver tracks are *)
(* the ones held down, except those in lost and those held through a sleep, *)
(* which initKeyboard forgets.                                              *)
ModifiersAgree ==
    Quiet => /\ modifierState \ lost \subseteq down
             /\ sleeps = 0 => (down \cap Modifier) \ lost \subseteq modifierState
=============================================================================
