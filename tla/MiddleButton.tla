----------------------------- MODULE MiddleButton -----------------------------
(***************************************************************************)
(* The middle button simulated with the left and the right one, in         *)
(* ApplePS2Mouse and ApplePS2SynapticsTouchPad: a state machine driven by  *)
(* packets and by a timer, both on the work loop.  The two drivers differ  *)
(* in what they keep in lastbuttons for the timer.                         *)
(***************************************************************************)
EXTENDS Sequences

CONSTANTS Masked  \* lastbuttons is what middleButton returned (the mouse)
                  \* or what the device reported (the touchpad)

ASSUME MaskedAssumption == Masked \in BOOLEAN

Button == {"left", "right", "middle"}
Both == {"left", "right"}

VARIABLES
    held,         \* the buttons that are down
    machine,      \* _mbuttonstate, _pendingbuttons, whether _buttonTimer is
                  \* set, and whether _maxmiddleclicktime is over
    lastbuttons,
    ignoreall,    \* the device has been disabled
    inStep,       \* no packet was ignored since the buttons were last up
    events,       \* the button states the last step reported, in order
    reported,     \* the button state reported last
    seen          \* the buttons down that were reported, or stood for middle

vars == <<held, machine, lastbuttons, ignoreall, inStep, events, reported, seen>>

Init ==
    /\ held = {} /\ lastbuttons = {}
    /\ machine = [state |-> "NOBUTTONS", pending |-> {},
                  timer |-> FALSE, expired |-> TRUE]
    /\ ignoreall = FALSE /\ inStep = TRUE
    /\ events = <<>> /\ reported = {} /\ seen = {}

-----------------------------------------------------------------------------
(* middleButton takes the machine to its next state and tells what it       *)
(* dispatched itself (early) and what it returned (result).  A state is     *)
(* entered as it is, with the timer set for one that waits, or with the     *)
(* timer cancelled for one that follows a wait.                             *)

Enter(m, state) == [m EXCEPT !.state = state]

Delay(state, buttons) ==
    [state |-> state, pending |-> buttons, timer |-> TRUE, expired |-> FALSE]

(* Mutant: the timer is left running *)
DecideUncancelled(m, state) == [m EXCEPT !.state = state, !.pending = {}]

Decide(m, state) == [m EXCEPT !.state = state, !.pending = {}, !.timer = FALSE]

(* Mutant: the state for no operation is never left *)
SettledNoop(buttons) == "NOOP"

(* Mutant: the buttons still down are forgotten *)
SettledUp(buttons) == "NOBUTTONS"

Settled(buttons) == IF buttons = {} THEN "NOBUTTONS" ELSE "NOOP"

NoButtons(m, buttons) ==
    CASE "middle" \in buttons -> Enter(m, "NOOP")
      [] buttons = Both -> Enter(m, "MIDDLE")
      [] buttons = {} -> m
      [] OTHER -> Delay("WAIT4TWO", buttons)

Wait4Two(m, buttons, timeout) ==
    CASE ~timeout /\ buttons = Both -> Decide(m, "MIDDLE")
      [] ~timeout /\ buttons = m.pending -> m
      [] OTHER -> Decide(m, Settled(buttons))

Middle(m, buttons) ==
    CASE buttons = {} -> Enter(m, "NOBUTTONS")
      [] Both \subseteq buttons -> m
      [] OTHER -> Delay("WAIT4NONE", buttons)

Wait4None(m, buttons, timeout) ==
    IF ~timeout /\ buttons = m.pending THEN m ELSE Decide(m, Settled(buttons))

StateMachine(m, buttons, from) ==
    LET timeout == from \in {"timer", "cancel"} \/ m.expired
    IN  CASE m.state = "NOBUTTONS" -> IF from = "cancel" THEN m ELSE NoButtons(m, buttons)
          [] m.state = "WAIT4TWO" -> Wait4Two(m, buttons, timeout)
          [] m.state = "MIDDLE" -> Middle(m, buttons)
          [] m.state = "WAIT4NONE" -> Wait4None(m, buttons, timeout)
          [] m.state = "NOOP" -> Enter(m, Settled(buttons))

(* Mutant: a click shorter than the wait is not delivered *)
EarlyEventsTimer(m, next, buttons, from) ==
    IF from = "timer" THEN <<buttons \cup m.pending>> ELSE <<>>

EarlyEvents(m, next, buttons, from) ==
    IF \/ m.state = "WAIT4TWO" /\ next \in {"NOBUTTONS", "NOOP"}
          /\ (from = "timer" \/ buttons \cap m.pending = {})
       \/ m.state = "WAIT4NONE" /\ from = "timer"
    THEN <<buttons \cup m.pending>> ELSE <<>>

(* Mutant: the second button to come up is not hidden *)
ModifiedWait4Two(state, buttons) ==
    CASE state = "MIDDLE" -> {"middle"}
      [] state = "WAIT4TWO" -> buttons \ Both
      [] OTHER -> buttons

Modified(state, buttons) ==
    CASE state = "MIDDLE" -> {"middle"}
      [] state \in {"WAIT4TWO", "WAIT4NONE"} -> buttons \ Both
      [] OTHER -> buttons

middleButton(m, buttons, from) ==
    IF ignoreall /\ from = "device"
    THEN [machine |-> m, early |-> <<>>, result |-> buttons]
    ELSE LET next == StateMachine(m, buttons, from)
         IN  [machine |-> next,
              early |-> EarlyEvents(m, next.state, buttons, from),
              result |-> Modified(next.state, buttons)]

-----------------------------------------------------------------------------
(* What the step reports, in order, and the buttons it has now shown *)
Report(sequence, chord) ==
    LET shown == UNION {sequence[i] : i \in DOMAIN sequence}
    IN  /\ events' = sequence
        /\ reported' = IF sequence = <<>> THEN reported ELSE sequence[Len(sequence)]
        /\ seen' = (seen \cup shown \cup (IF chord THEN Both ELSE {})) \cap held'

Unignored(sequence) == IF ignoreall THEN <<>> ELSE sequence

(* A packet.  On the touchpad a finger that goes down ends the wait.        *)
Packet(buttons, finger) ==
    LET first == middleButton(machine, buttons, "device")
        second == middleButton(first.machine, buttons, "cancel")
        last == IF finger THEN second ELSE first
        early == first.early \o (IF finger THEN second.early ELSE <<>>)
    IN  /\ finger => ~Masked
        /\ held' = buttons
        /\ machine' = last.machine
        /\ lastbuttons' = IF Masked THEN last.result ELSE buttons
        /\ Report(early \o Unignored(<<last.result>>), machine'.state = "MIDDLE")
        /\ inStep' = (~ignoreall /\ (inStep \/ machine'.state = "NOBUTTONS"))
        /\ UNCHANGED ignoreall

TimePasses ==
    /\ ~machine.expired
    /\ machine' = [machine EXCEPT !.expired = TRUE]
    /\ UNCHANGED <<held, lastbuttons, ignoreall, inStep>>
    /\ Report(<<>>, FALSE)

(* The timer fires once, and not before its time *)
onButtonTimer ==
    LET called == middleButton([machine EXCEPT !.timer = FALSE], lastbuttons, "timer")
    IN  /\ machine.timer /\ machine.expired
        /\ machine' = called.machine
        /\ UNCHANGED <<held, lastbuttons, ignoreall, inStep>>
        /\ Report(called.early, FALSE)

(* The end of a drag with the finger up repeats the buttons *)
onDragTimer ==
    LET called == middleButton(machine, lastbuttons, "passthru")
    IN  /\ ~Masked
        /\ machine' = called.machine
        /\ UNCHANGED <<held, lastbuttons, ignoreall, inStep>>
        /\ Report(called.early \o <<called.result>>, machine'.state = "MIDDLE")

(* A message, or a double tap, enables or disables the device *)
setDisableTouchpad ==
    /\ ignoreall' = ~ignoreall
    /\ UNCHANGED <<held, machine, lastbuttons, inStep>>
    /\ Report(<<>>, FALSE)

Next ==
    \/ \E buttons \in SUBSET Button, finger \in BOOLEAN : Packet(buttons, finger)
    \/ TimePasses \/ onButtonTimer \/ onDragTimer \/ setDisableTouchpad

Spec == Init /\ [][Next]_vars

-----------------------------------------------------------------------------
(* Packets that were ignored leave the machine behind the buttons, until   *)
(* they are all up: the properties speak of the time it is in step.        *)

(* In the state for no buttons, no button is down and none is reported; in  *)
(* the state for no operation, exactly the buttons down are reported.       *)
StateTellsButtons ==
    inStep =>
        /\ machine.state = "NOBUTTONS" => held = {} /\ reported = {}
        /\ machine.state = "NOOP" => held # {} /\ reported = held

(* A machine that waits has its timer set: no click waits for ever.         *)
WaitsWithTimer == machine.timer <=> machine.state \in {"WAIT4TWO", "WAIT4NONE"}

(* A button that is reported and stays down is not reported as released.    *)
NoPhantomRelease == [][inStep => reported \cap held \cap held' \subseteq reported']_vars

(* A button that comes up has been reported as down, or was part of a       *)
(* middle click: waiting for the second button loses no click.              *)
NoClickLost ==
    [][inStep /\ inStep' => held \ held' \subseteq
          seen \cup UNION {events'[i] : i \in DOMAIN events'}]_vars

(* While the two buttons stand for the middle one, neither is reported.     *)
ChordIsMiddle ==
    machine.state \in {"MIDDLE", "WAIT4NONE"} => reported \cap Both = {}
=============================================================================
