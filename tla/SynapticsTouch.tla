---------------------------- MODULE SynapticsTouch ----------------------------
(***************************************************************************)
(* What ApplePS2SynapticsTouchPad makes of the packets of a touchpad: the  *)
(* touch modes (taps, drags, scrolling, the disable zone), the buttons of  *)
(* a ClickPad and of a device behind the touchpad, momentum scrolling, and *)
(* the events the timers and the messages of the keyboard add to them.     *)
(*                                                                         *)
(* The pad is a grid of three by three places, x and y in 0..2, whose      *)
(* outer rows and columns are the edges.  Times are ages in ticks.  Left   *)
(* out is how far the pointer and the wheel go: the filters, the rests and *)
(* the swipes of three fingers.  FakeMiddleButton is off (MiddleButton.tla *)
(* models it), so middleButton returns the buttons it is given.            *)
(***************************************************************************)
EXTENDS Integers

CONSTANTS
    Profiles,     \* names of what is run: some features of the driver, with
    Settings(_),  \* their settings, as records
    Packets(_),   \* the packets that bring them into play
    Typing(_),    \* whether keys are typed
    Switching(_), \* whether the keyboard turns the touchpad off and on
    Changing(_)   \* whether the settings change

VARIABLES
    profile,  \* the profile that is run
    set,      \* the settings
    pad,      \* the state of the driver, and the buttons the HID system has
              \* seen down (hid)
    hand      \* what the last packet said of the hand: a finger is down, the
              \* buttons that are pressed on the pad and on the device behind it,
              \* whether a ClickPad is clicked, and a bit that turns with each
              \* packet of the first finger

vars == <<profile, set, pad, hand>>

z_finger == 1
zlimit == 3
wlimit == 9
maxtaptime == 1
maxdragtime == 2
clickpadclicktime == 2
maxaftertyping == 3
momentumscrolltimer == 2
momentumscrollinterval == 2
momentumscrollmultiplier == 3
momentumscrolldivisor == 4
momentumscrollthreshy == 1
wvdivisor == 3
Past == 3   \* an age that is beyond all of these but is not counted further

Left == {"left"}
Right == {"right"}
Middle == {"middle"}

TouchModes == {"MOVE", "VSCROLL", "HSCROLL", "CSCROLL", "MTOUCH", "DRAG", "DRAGLOCK",
               "WAIT1RELEASE", "WAIT2RELEASE"}
ZoneModes == {"WAIT1RELEASE", "WAIT2TAP", "WAIT2RELEASE"}

isTouchMode(s) == s.mode \in TouchModes
isFingerTouch(p) == p.z > z_finger /\ p.z < zlimit
isInDisableZone(p) == p.x = 0 /\ p.y = 2
isInRightClickZone(p) == p.x = 2 /\ p.y = 0
isInLeftClickZone(p) == p.x < 2 /\ p.y = 0
OutsideZone(p) == p.x # 1
Fingers(p) == IF p.z <= z_finger THEN 0 ELSE IF p.w >= 4 THEN 1 ELSE p.w + 2

Typed(s) == s.key < maxaftertyping
ExtendedW(s) == IF set.dynamicEW THEN s.clickbuttons # {} ELSE set.extendedw

Still == [current |-> 0, rest1 |-> 0, rest2 |-> 0]

FreshPad ==
    [mode |-> "NOTOUCH", touch |-> Past, untouch |-> Past, key |-> Past,
     touchx |-> 0, touchy |-> 0, lastf |-> 0, wasdouble |-> FALSE, wastriple |-> FALSE,
     modifier |-> FALSE, draglocktemp |-> FALSE, dragTimer |-> FALSE,
     momentum |-> Still, scrollTimer |-> FALSE,
     clickbuttons |-> {}, clickedprimary |-> FALSE, tracksecondary |-> FALSE, x2 |-> 0, y2 |-> 0,
     lastbuttons |-> {}, passbuttons |-> {}, ignoreall |-> FALSE,
     buttons |-> {}, hid |-> {}]

Init ==
    /\ profile \in Profiles
    /\ set \in Settings(profile)
    /\ pad = FreshPad
    /\ hand = [down |-> FALSE, buttons |-> {}, pass |-> {}, click |-> FALSE, turn |-> FALSE]

-----------------------------------------------------------------------------
(* A packet is handled in phases, which gather the buttons to report in the  *)
(* field buttons.                                                            *)

dispatchRelativePointerEvent(s, b) == [s EXCEPT !.hid = b]

(* Mutant: the buttons of the device behind are left out of other packets. *)
PassButtonsAlone(s, p) ==
    LET pass == IF set.passthru /\ p.w = 3 THEN p.pass ELSE s.passbuttons
        b == p.buttons \cup IF set.passthru /\ p.w = 3 THEN pass ELSE {}
    IN [s EXCEPT !.passbuttons = pass, !.buttons = b, !.lastbuttons = b]

(* The buttons of a device behind the touchpad are kept and added to all    *)
(* that is reported.                                                        *)
PassButtons(s, p) ==
    LET pass == IF set.passthru /\ p.w = 3 THEN p.pass ELSE s.passbuttons
        b == p.buttons \cup pass
    IN [s EXCEPT !.passbuttons = pass, !.buttons = b, !.lastbuttons = b]

DispatchPassThrough(s, p) ==
    dispatchRelativePointerEvent(s, s.buttons \cup p.click \cup s.clickbuttons)

(* A ClickPad has one button: a press is a right click in the right click   *)
(* zone, or with two fingers.                                               *)
PrimaryClick(s, p) ==
    LET primary == s.mode # "MTOUCH"
        at == IF ExtendedW(s) /\ ~primary /\ s.tracksecondary THEN [x |-> s.x2, y |-> s.y2]
              ELSE [x |-> p.x, y |-> p.y]
        right == /\ isFingerTouch(p)
                 /\ \/ set.corner = 2 /\ isInRightClickZone(at)
                    \/ set.corner = 1 /\ isInLeftClickZone(at)
                    \/ p.w = 0 /\ (s.touch < clickpadclicktime \/ s.mode = "NOTOUCH")
    IN [s EXCEPT !.clickedprimary = primary,
                 !.clickbuttons = IF right THEN Right ELSE p.click]

ClickPad(s, p) ==
    LET t == IF p.click = {} THEN [s EXCEPT !.clickbuttons = {}]
             ELSE IF s.clickbuttons = {} THEN PrimaryClick(s, p) ELSE s
        b == t.buttons \cup t.clickbuttons
    IN IF set.clickpad THEN [t EXCEPT !.buttons = b, !.lastbuttons = b] ELSE s

IgnoredOutside(s, p) == set.outzone_wt /\ p.z > z_finger /\ Typed(s) /\ OutsideZone(p)

(* Two taps in the disable zone turn the touchpad off and on.               *)
DisableZone(s, p) ==
    LET tap == isFingerTouch(p) /\ p.w \in 4..5 /\ isInDisableZone(p)
        up == p.z < z_finger
        short == s.touch < maxtaptime
    IN CASE s.mode = "NOTOUCH" /\ tap -> [s EXCEPT !.mode = "WAIT1RELEASE", !.touch = 0]
         [] s.mode = "WAIT1RELEASE" /\ up /\ short ->
                [s EXCEPT !.mode = "WAIT2TAP", !.untouch = 0]
         [] s.mode = "WAIT2TAP" /\ tap /\ s.untouch < maxdragtime ->
                [s EXCEPT !.mode = "WAIT2RELEASE", !.touch = 0]
         [] s.mode = "WAIT2TAP" /\ isFingerTouch(p) /\ ~(tap /\ s.untouch < maxdragtime) ->
                [s EXCEPT !.mode = "NOTOUCH"]
         [] s.mode = "WAIT2RELEASE" /\ up /\ short ->
                [s EXCEPT !.mode = "NOTOUCH", !.ignoreall = ~@]
         [] \/ s.mode \in {"WAIT1RELEASE", "WAIT2RELEASE"} /\ up /\ ~short
            \/ s.mode \in {"WAIT1RELEASE", "WAIT2RELEASE"} /\ ~up /\ ~isInDisableZone(p) ->
                [s EXCEPT !.mode = "NOTOUCH"]
         [] OTHER -> s

-----------------------------------------------------------------------------
(* The finger leaves.  A short touch is a tap: a click, with the button the  *)
(* number of fingers stands for.  A longer one ends a drag, unless the drag  *)
(* is locked or may be continued until dragTimer fires.                      *)

TapButton(s) ==
    LET two == IF set.swapdoubletriple THEN Middle ELSE Right
        three == IF set.swapdoubletriple THEN Right ELSE Middle
    IN IF s.wastriple /\ set.rtap THEN three ELSE IF s.wasdouble /\ set.rtap THEN two ELSE Left

(* The second tap of two without immediateclick: the first is still held.   *)
(* All buttons are let go, those that are pressed on the pad as well.       *)
SecondClick(s) ==
    LET none == [s EXCEPT !.buttons = {}]
    IN dispatchRelativePointerEvent(dispatchRelativePointerEvent(none, Left), {})

Tapped(s) ==
    LET d == IF set.immediateclick THEN s ELSE SecondClick(s)
        single == ~(set.rtap /\ (s.wastriple \/ s.wasdouble))
    IN CASE s.mode = "DRAG" -> [d EXCEPT !.mode = "NOTOUCH", !.buttons = @ \cup TapButton(s)]
         [] s.mode = "DRAGLOCK" -> [s EXCEPT !.mode = "NOTOUCH"]
         [] OTHER -> [s EXCEPT !.buttons = @ \cup TapButton(s),
                               !.mode = IF set.dragging /\ single THEN "PREDRAG" ELSE "NOTOUCH"]

Locked(s) == set.draglock \/ s.draglocktemp

(* Mutant: the timer is left out for a drag that goes on after a lock. *)
ReleasedUntimed(s) ==
    IF s.mode \in {"DRAG", "DRAGLOCK"} /\ (Locked(s) \/ set.dragexit)
    THEN [s EXCEPT !.mode = "DRAGNOTOUCH",
                   !.dragTimer = IF Locked(s) \/ s.mode = "DRAGLOCK" THEN @ ELSE TRUE]
    ELSE [s EXCEPT !.mode = "NOTOUCH", !.draglocktemp = FALSE]

Released(s) ==
    IF s.mode \in {"DRAG", "DRAGLOCK"} /\ (Locked(s) \/ set.dragexit)
    THEN [s EXCEPT !.mode = "DRAGNOTOUCH", !.dragTimer = IF Locked(s) THEN @ ELSE TRUE]
    ELSE [s EXCEPT !.mode = "NOTOUCH", !.draglocktemp = FALSE]

(* The fast scrolling of two fingers that leave goes on: sum is what the    *)
(* history of their movements adds up to, 0 when it is too short.           *)
StartMomentum(s, sum) ==
    IF s.mode = "MTOUCH" /\ set.momentum /\ sum # 0
    THEN [s EXCEPT !.momentum = [Still EXCEPT !.current = momentumscrolltimer * sum],
                   !.scrollTimer = TRUE]
    ELSE s

Untouch(s, p) ==
    LET m == [StartMomentum(s, p.sum) EXCEPT !.untouch = 0, !.tracksecondary = FALSE]
        t == IF s.touch < maxtaptime /\ set.clicking THEN Tapped(m) ELSE Released(m)
    IN IF p.z < z_finger /\ isTouchMode(s)
       THEN [t EXCEPT !.wasdouble = FALSE, !.wastriple = FALSE]
       ELSE s

(* Mutant: a tap waits for the second one for ever. *)
EndPreDragNever(s) == s

EndPreDrag(s) ==
    IF s.mode = "PREDRAG" /\ s.untouch >= maxdragtime THEN [s EXCEPT !.mode = "NOTOUCH"] ELSE s

(* A finger that moves is no tap: from one place to the next for one        *)
(* finger, across the pad for several.                                      *)
CancelTap(s, p) ==
    LET far == IF s.wasdouble \/ s.wastriple THEN 1 ELSE 0
        moved == p.x - s.touchx \notin -far..far \/ p.y - s.touchy \notin -far..far
    IN IF isTouchMode(s) /\ isFingerTouch(p) /\ moved THEN [s EXCEPT !.touch = Past] ELSE s

-----------------------------------------------------------------------------
(* What the packet does in the touch mode, the time and place of a tap, and  *)
(* the touch mode that follows.                                              *)

AddLeft(s) == [s EXCEPT !.buttons = @ \cup Left]

(* One of several fingers is left.                                          *)
OneFinger(s, p) ==
    /\ p.w # 1 /\ ~(ExtendedW(s) /\ p.w = 0 /\ s.clickbuttons # {})
    /\ s.lastf = Fingers(p) /\ ~(set.palm /\ p.z > zlimit)
    /\ ~set.wsticky /\ p.w <= wlimit /\ p.w > 3

(* The finger has left the edge it scrolls on.                              *)
LeftEdge(s, p) ==
    \/ s.mode = "VSCROLL" /\ ~set.vsticky /\ (p.x <= 1 \/ p.w > wlimit \/ p.z > zlimit)
    \/ s.mode = "HSCROLL" /\ ~set.hsticky /\ (p.y >= 1 \/ p.w > wlimit \/ p.z > zlimit)

InTouchMode(s, p) ==
    CASE s.mode = "DRAGLOCK" \/ s.mode = "DRAGNOTOUCH" -> AddLeft(s)
      [] s.mode = "DRAG" ->
             IF ~set.immediateclick \/ s.touch > set.maxdbltaptime THEN AddLeft(s) ELSE s
      [] s.mode = "PREDRAG" ->
             IF set.immediateclick \/ (set.palm_wt /\ Typed(s)) THEN s ELSE AddLeft(s)
      [] s.mode = "MTOUCH" /\ OneFinger(s, p) ->
             [s EXCEPT !.mode = "MOVE", !.tracksecondary = FALSE,
                       !.clickedprimary = s.clickbuttons # {}]
      [] LeftEdge(s, p) -> [s EXCEPT !.mode = "NOTOUCH"]
      [] OTHER -> s

CaptureTap(s, p) ==
    LET counts == ~(set.palm_wt /\ Typed(s)) /\ s.momentum.current = 0
        t == IF isTouchMode(s) THEN s
             ELSE [s EXCEPT !.touch = 0, !.touchx = p.x, !.touchy = p.y]
        u == [t EXCEPT !.wasdouble = @ \/ p.w = 0, !.wastriple = @ \/ p.w = 1]
    IN IF isFingerTouch(p)
       THEN [IF counts THEN u ELSE s EXCEPT !.momentum.current = 0]
       ELSE s

InScrollTrigger(p) ==
    LET top == p.y = 2  right == p.x = 2  bottom == p.y = 0  left == p.x = 0
    IN CASE set.ctrigger = 1 -> top
         [] set.ctrigger = 2 -> top /\ right
         [] set.ctrigger = 3 -> right
         [] set.ctrigger = 4 -> right /\ bottom
         [] set.ctrigger = 5 -> bottom
         [] set.ctrigger = 6 -> bottom /\ left
         [] set.ctrigger = 7 -> left
         [] set.ctrigger = 8 -> left /\ top
         [] set.ctrigger = 9 -> top \/ right \/ bottom \/ left
         [] OTHER -> FALSE

DragModes(s, p) ==
    IF ~isFingerTouch(p) THEN s
    ELSE IF s.mode = "PREDRAG" THEN [s EXCEPT !.mode = "DRAG", !.draglocktemp = s.modifier]
    ELSE IF s.mode = "DRAGNOTOUCH" THEN [s EXCEPT !.mode = "DRAGLOCK", !.dragTimer = FALSE]
    ELSE s

MultiTouch(s, p) ==
    IF s.mode # "MTOUCH" /\ (p.w > wlimit \/ p.w < 2) /\ isFingerTouch(p)
    THEN [s EXCEPT !.mode = "MTOUCH", !.tracksecondary = FALSE]
    ELSE s

ScrollModes(s, p) ==
    LET c == IF s.mode = "NOTOUCH" /\ set.cscroll /\ InScrollTrigger(p) THEN "CSCROLL" ELSE s.mode
        v == IF (c = "NOTOUCH" \/ (c = "HSCROLL" /\ p.y >= 1)) /\ p.x = 2 THEN "VSCROLL" ELSE c
        h == IF (v = "NOTOUCH" \/ (v = "VSCROLL" /\ p.x <= 1)) /\ p.y = 0 /\ set.hscroll
             THEN "HSCROLL" ELSE v
        m == IF set.scroll THEN h ELSE s.mode
    IN IF p.z > z_finger
       THEN [s EXCEPT !.mode = IF m = "NOTOUCH" THEN "MOVE" ELSE m]
       ELSE s

SwitchModes(s, p) == ScrollModes(MultiTouch(DragModes(s, p), p), p)

Dispatch(s, p) == [dispatchRelativePointerEvent(s, s.buttons) EXCEPT !.lastf = Fingers(p)]

TouchPacket(s, p) ==
    LET d == IF set.diszone THEN DisableZone(s, p) ELSE s
        m == CancelTap(EndPreDrag(Untouch(d, p)), p)
    IN IF IgnoredOutside(s, p) THEN s
       ELSE IF (set.diszone /\ d.mode \in ZoneModes) \/ d.ignoreall THEN d
       ELSE Dispatch(SwitchModes(CaptureTap(InTouchMode(m, p), p), p), p)

-----------------------------------------------------------------------------
(* The second finger, in packets of their own in extended W mode.            *)

SecondaryClick(s, p) ==
    LET right == isInRightClickZone(p) \/ s.touch < clickpadclicktime \/ s.mode = "NOTOUCH"
        t == IF p.click = {} THEN [s EXCEPT !.clickbuttons = {}]
             ELSE IF s.clickbuttons # {} THEN s
             ELSE [s EXCEPT !.clickedprimary = FALSE,
                            !.clickbuttons = IF right THEN Right ELSE p.click]
        u == IF set.clickpad THEN t ELSE s
    IN dispatchRelativePointerEvent(u, p.buttons \cup u.passbuttons \cup u.clickbuttons)

SecondaryMove(s, p) ==
    IF s.tracksecondary
    THEN dispatchRelativePointerEvent(s, p.buttons \cup s.passbuttons \cup s.clickbuttons)
    ELSE s

dispatchEventsWithPacketEW(s, p) ==
    LET t == IF (set.clickpadtrackboth \/ s.clickedprimary) /\ s.clickbuttons # {}
             THEN SecondaryMove(s, p) ELSE SecondaryClick(s, p)
    IN IF s.ignoreall \/ ~isFingerTouch(p) \/ IgnoredOutside(s, p) THEN s
       ELSE [t EXCEPT !.x2 = p.x, !.y2 = p.y, !.tracksecondary = TRUE]

dispatchEventsWithPacket(s, p) ==
    LET b == PassButtons(s, p)
    IN IF ExtendedW(s) /\ p.w = 2 THEN dispatchEventsWithPacketEW(s, p)
       ELSE IF set.passthru /\ p.w = 3 THEN DispatchPassThrough(b, p)
       ELSE TouchPacket(ClickPad(b, p), p)

-----------------------------------------------------------------------------
(* The events.                                                               *)

Handled(s) == [s EXCEPT !.buttons = {}]

Packet(p) ==
    LET other == p.w = 3 \/ (ExtendedW(pad) /\ p.w = 2)
    IN /\ pad' = Handled(dispatchEventsWithPacket(pad, p))
       /\ hand' = [down |-> IF other THEN hand.down ELSE p.z >= z_finger,
                   buttons |-> p.buttons,
                   pass |-> IF p.w = 3 THEN p.pass ELSE hand.pass,
                   click |-> p.click # {},
                   turn |-> IF other THEN hand.turn ELSE ~hand.turn]
       /\ UNCHANGED <<profile, set>>

(* The handlers of the timers.  dragTimer may have been left pending by new *)
(* settings, and lastbuttons does not follow the packets of the second      *)
(* finger.                                                                  *)
onDragTimer ==
    /\ pad.dragTimer
    /\ pad' = dispatchRelativePointerEvent([pad EXCEPT !.mode = "NOTOUCH", !.dragTimer = FALSE],
                                           pad.lastbuttons)
    /\ UNCHANGED <<profile, set, hand>>

Quotient(a, b) == IF a >= 0 THEN a \div b ELSE -((-a) \div b)
Remainder(a, b) == a - b * Quotient(a, b)

(* Mutant: the scrolling keeps its speed. *)
SlowDownNot(m, dy) == [m EXCEPT !.rest2 = Remainder(dy, wvdivisor)]

SlowDown(m, dy) ==
    LET c == m.current * momentumscrollmultiplier + m.rest1
    IN [current |-> Quotient(c, momentumscrolldivisor),
        rest1 |-> Remainder(c, momentumscrolldivisor),
        rest2 |-> Remainder(dy, wvdivisor)]

onScrollTimer ==
    /\ pad.scrollTimer
    /\ LET m == pad.momentum
           dy == Quotient(m.current, momentumscrollinterval) + m.rest2
       IN pad' = CASE m.current = 0 -> [pad EXCEPT !.scrollTimer = FALSE]
                   [] m.current # 0 /\ dy \in -momentumscrollthreshy..momentumscrollthreshy ->
                          [pad EXCEPT !.scrollTimer = FALSE, !.momentum.current = 0]
                   [] OTHER -> [pad EXCEPT !.momentum = SlowDown(m, dy)]
    /\ UNCHANGED <<profile, set, hand>>

(* Messages of the keyboard: the touchpad is turned off or on, or a key     *)
(* went down or up.  A modifier that goes down is no typing.                *)
setDisableTouchpad ==
    /\ Switching(profile)
    /\ pad' = [pad EXCEPT !.ignoreall = ~@]
    /\ UNCHANGED <<profile, set, hand>>

ModifierPressed ==
    /\ Typing(profile) /\ ~pad.modifier
    /\ pad' = [pad EXCEPT !.modifier = TRUE]
    /\ UNCHANGED <<profile, set, hand>>

ModifierReleased ==
    /\ Typing(profile) /\ pad.modifier
    /\ pad' = [pad EXCEPT !.modifier = FALSE, !.key = 0]
    /\ UNCHANGED <<profile, set, hand>>

KeyPressed ==
    /\ Typing(profile)
    /\ pad' = [pad EXCEPT !.key = 0, !.momentum.current = 0]
    /\ UNCHANGED <<profile, set, hand>>

(* New settings end the touch, and a pending dragTimer is left to fire.     *)
setParamPropertiesGated(new) ==
    /\ Changing(profile)
    /\ set' = new
    /\ pad' = [pad EXCEPT !.mode = "NOTOUCH"]
    /\ UNCHANGED <<profile, hand>>

Older(age) == IF age < Past THEN age + 1 ELSE age

Tick ==
    /\ pad' = [pad EXCEPT !.touch = Older(@), !.untouch = Older(@), !.key = Older(@)]
    /\ UNCHANGED <<profile, set, hand>>

Next ==
    \/ \E p \in Packets(profile) : Packet(p)
    \/ onDragTimer
    \/ onScrollTimer
    \/ setDisableTouchpad
    \/ ModifierPressed
    \/ ModifierReleased
    \/ KeyPressed
    \/ \E new \in Settings(profile) : setParamPropertiesGated(new)
    \/ Tick

(* A touchpad goes on sending packets of the first finger, also for a while *)
(* after it has left (Packet is always enabled); time passes, and the       *)
(* timers fire.                                                             *)
Reported == hand'.turn # hand.turn

Fairness ==
    /\ []<><<Reported>>_vars
    /\ WF_vars(onDragTimer) /\ WF_vars(onScrollTimer)
    /\ WF_vars(Tick)

Spec == Init /\ [][Next]_vars /\ Fairness

-----------------------------------------------------------------------------
(* A drag that goes on without a finger has an end to wait for: the timer   *)
(* runs, or the drag is locked and the next tap ends it.                    *)
DragHasExit == pad.mode = "DRAGNOTOUCH" => pad.dragTimer \/ Locked(pad)

(* The buttons that the hand holds through a step, as they were reported:   *)
(* those of the pad, of the device behind it, and the click of a ClickPad.  *)
HeldOn ==
    (hand.buttons \cap hand'.buttons) \cup (hand.pass \cap hand'.pass)
    \cup IF hand.click /\ hand'.click THEN pad.clickbuttons ELSE {}

(* Where the driver does let them go: at the second of two taps, without    *)
(* immediateclick, and when dragTimer fires after a click that only packets *)
(* of the second finger have shown, which lastbuttons does not follow.      *)
LetsGo ==
    \/ ~set.immediateclick /\ pad.mode = "DRAG" /\ pad'.mode = "NOTOUCH"
    \/ pad'.mode = "NOTOUCH" /\ pad.dragTimer /\ ~pad'.dragTimer
       /\ ~(pad.clickbuttons \subseteq pad.lastbuttons)

(* There are no double clicks that no hand made: a button that is held on   *)
(* the pad, on the device behind it or on a ClickPad stays down in the HID  *)
(* system, as the button it was reported as, through the packets of the     *)
(* other fingers and devices, taps, drags, timers, messages and settings    *)
(* (dispatchEventsWithPacket and dispatchEventsWithPacketEW, which add      *)
(* passbuttons and _clickbuttons to all they report).  LetsGo has the two   *)
(* exceptions.                                                              *)
HeldStaysDown == [][LetsGo \/ HeldOn \cap pad.hid \subseteq pad'.hid]_vars

(* What turns the packets of a hand away before the buttons are reported:   *)
(* the touchpad is off, or a tap in the disable zone waits for the second.  *)
Unheard == pad.ignoreall \/ pad.mode \in ZoneModes

(* Buttons come up: a hand that stays away from the pad is reported with no *)
(* button down, unless a drag is locked or the touchpad is off.             *)
ButtonsComeUp ==
    []<>(\/ hand.down \/ hand.click \/ hand.buttons \cup hand.pass # {}
         \/ Unheard \/ Locked(pad) \/ pad.hid = {})

(* The scrolling that goes on when the fingers have left slows down until   *)
(* it ends, with all that the divisions leave over.                         *)
MomentumEnds == []<>(pad.momentum.current = 0)
=============================================================================
