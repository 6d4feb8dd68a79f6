------------------------ MODULE SynapticsTouchProofs ------------------------
(***************************************************************************)
(* Proofs about SynapticsTouch, for any settings, packets, keys and        *)
(* changes of the settings: a drag that goes on without a finger always    *)
(* has an end to wait for.  A packet is handled in phases; each of them    *)
(* keeps the exit of a drag, which dispatchEventsWithPacket composes.      *)
(***************************************************************************)
EXTENDS SynapticsTouch, TLAPS

(* The state of the driver has the fields of a drag, and a drag without a   *)
(* finger has its exit.                                                     *)
HasExit(s) ==
    /\ {"mode", "dragTimer", "draglocktemp"} \subseteq DOMAIN s
    /\ s.mode = "DRAGNOTOUCH" => s.dragTimer \/ Locked(s)

IInv == HasExit(pad)

(* What is reported does not touch the drag *)
LEMMA ReportExit ==
    ASSUME NEW s, HasExit(s), NEW b
    PROVE  HasExit(dispatchRelativePointerEvent(s, b)) /\ HasExit(Handled(s))
<1>1. HasExit(dispatchRelativePointerEvent(s, b))
  BY DEF HasExit, Locked, dispatchRelativePointerEvent
<1>2. HasExit(Handled(s)) BY DEF HasExit, Locked, Handled
<1> QED BY <1>1, <1>2

(* The buttons of the pad and of the device behind it leave the drag alone *)
LEMMA ButtonsExit ==
    ASSUME NEW s, HasExit(s), NEW p
    PROVE  HasExit(PassButtons(s, p)) /\ HasExit(ClickPad(s, p))
<1>1. HasExit(PassButtons(s, p)) BY DEF HasExit, Locked, PassButtons
<1>2. HasExit(PrimaryClick(s, p)) BY DEF HasExit, Locked, PrimaryClick
<1>3. HasExit(ClickPad(s, p))
  <2> DEFINE t == IF p.click = {} THEN [s EXCEPT !.clickbuttons = {}]
                  ELSE IF s.clickbuttons = {} THEN PrimaryClick(s, p) ELSE s
  <2>1. HasExit(t) BY <1>2 DEF HasExit, Locked
  <2>2. \A b : HasExit([t EXCEPT !.buttons = b, !.lastbuttons = b]) BY <2>1 DEF HasExit, Locked
  <2> QED BY <2>2 DEF ClickPad
<1> QED BY <1>1, <1>3

(* The packets of the second finger keep the exit *)
LEMMA SecondFingerExit ==
    ASSUME NEW s, HasExit(s), NEW p
    PROVE  HasExit(dispatchEventsWithPacketEW(s, p))
<1>1. HasExit(SecondaryMove(s, p)) BY ReportExit DEF SecondaryMove
<1>2. HasExit(SecondaryClick(s, p))
  <2> DEFINE right == isInRightClickZone(p) \/ s.touch < clickpadclicktime \/ s.mode = "NOTOUCH"
             t == IF p.click = {} THEN [s EXCEPT !.clickbuttons = {}]
                  ELSE IF s.clickbuttons # {} THEN s
                  ELSE [s EXCEPT !.clickedprimary = FALSE,
                                 !.clickbuttons = IF right THEN Right ELSE p.click]
             u == IF set.clickpad THEN t ELSE s
  <2>1. HasExit(u) BY DEF HasExit, Locked
  <2> QED BY <2>1, ReportExit DEF SecondaryClick
<1>3. ASSUME NEW t, HasExit(t)
      PROVE  HasExit([t EXCEPT !.x2 = p.x, !.y2 = p.y, !.tracksecondary = TRUE])
  BY <1>3 DEF HasExit, Locked
<1> QED BY <1>1, <1>2, <1>3 DEF dispatchEventsWithPacketEW

(* The finger leaves: a drag that goes on has its timer, or is locked *)
LEMMA UntouchExit ==
    ASSUME NEW s, HasExit(s), NEW p
    PROVE  HasExit(Untouch(s, p))
<1>1. HasExit(StartMomentum(s, p.sum)) BY DEF HasExit, Locked, StartMomentum
<1> DEFINE m == [StartMomentum(s, p.sum) EXCEPT !.untouch = 0, !.tracksecondary = FALSE]
<1>2. HasExit(m) BY <1>1 DEF HasExit, Locked
<1>3. HasExit(Released(m)) BY <1>2 DEF HasExit, Locked, Released
<1>4. HasExit(Tapped(m))
  <2> DEFINE d == IF set.immediateclick THEN m ELSE SecondClick(m)
  <2>1. HasExit([m EXCEPT !.buttons = {}]) BY <1>2 DEF HasExit, Locked
  <2>2. HasExit(d) BY <1>2, <2>1, ReportExit DEF SecondClick
  <2>3. HasExit([d EXCEPT !.mode = "NOTOUCH", !.buttons = @ \cup TapButton(m)])
    BY <2>2 DEF HasExit, Locked
  <2>4. HasExit([m EXCEPT !.mode = "NOTOUCH"]) BY <1>2 DEF HasExit, Locked
  <2>5. \A b, mode : mode # "DRAGNOTOUCH" => HasExit([m EXCEPT !.buttons = b, !.mode = mode])
    BY <1>2 DEF HasExit, Locked
  <2> QED BY <2>3, <2>4, <2>5 DEF Tapped
<1>5. ASSUME NEW t, HasExit(t) PROVE HasExit([t EXCEPT !.wasdouble = FALSE, !.wastriple = FALSE])
  BY <1>5 DEF HasExit, Locked
<1> QED BY <1>3, <1>4, <1>5 DEF Untouch

(* The disable zone, the end of a tap and a moving finger start no drag *)
LEMMA ZoneExit ==
    ASSUME NEW s, HasExit(s), NEW p
    PROVE  HasExit(DisableZone(s, p)) /\ HasExit(EndPreDrag(s)) /\ HasExit(CancelTap(s, p))
<1>1. HasExit(DisableZone(s, p)) BY DEF HasExit, Locked, DisableZone
<1>2. HasExit(EndPreDrag(s)) BY DEF HasExit, Locked, EndPreDrag
<1>3. HasExit(CancelTap(s, p)) BY DEF HasExit, Locked, CancelTap
<1> QED BY <1>1, <1>2, <1>3

(* What is done in a touch mode, and the choice of the next one, leave a    *)
(* drag without a finger as it is or continue it with one                   *)
LEMMA ModeExit ==
    ASSUME NEW s, HasExit(s), NEW p
    PROVE  HasExit(InTouchMode(s, p)) /\ HasExit(CaptureTap(s, p)) /\ HasExit(SwitchModes(s, p))
<1>1. HasExit(InTouchMode(s, p)) BY DEF HasExit, Locked, InTouchMode, AddLeft
<1>2. HasExit(CaptureTap(s, p))
  <2> DEFINE t == IF isTouchMode(s) THEN s
                  ELSE [s EXCEPT !.touch = 0, !.touchx = p.x, !.touchy = p.y]
             u == [t EXCEPT !.wasdouble = @ \/ p.w = 0, !.wastriple = @ \/ p.w = 1]
  <2>1. HasExit(t) BY DEF HasExit, Locked
  <2>2. HasExit(u) BY <2>1 DEF HasExit, Locked
  <2>3. ASSUME NEW v, HasExit(v) PROVE HasExit([v EXCEPT !.momentum.current = 0])
    BY <2>3 DEF HasExit, Locked
  <2> QED BY <2>2, <2>3 DEF CaptureTap
<1>3. HasExit(DragModes(s, p)) BY DEF HasExit, Locked, DragModes
<1>4. ASSUME NEW t, HasExit(t) PROVE HasExit(MultiTouch(t, p))
  BY <1>4 DEF HasExit, Locked, MultiTouch
<1>5. ASSUME NEW t, HasExit(t) PROVE HasExit(ScrollModes(t, p))
  BY <1>5 DEF HasExit, Locked, ScrollModes
<1> QED BY <1>1, <1>2, <1>3, <1>4, <1>5 DEF SwitchModes

(* A packet, whatever it says, keeps the exit *)
LEMMA PacketExit ==
    ASSUME NEW s, HasExit(s), NEW p
    PROVE  HasExit(dispatchEventsWithPacket(s, p))
<1>1. ASSUME NEW t, HasExit(t) PROVE HasExit(Dispatch(t, p))
  <2>1. HasExit(dispatchRelativePointerEvent(t, t.buttons)) BY <1>1, ReportExit
  <2> QED BY <2>1 DEF HasExit, Locked, Dispatch
<1>2. ASSUME NEW t, HasExit(t) PROVE HasExit(TouchPacket(t, p))
  <2> DEFINE d == IF set.diszone THEN DisableZone(t, p) ELSE t
             m == CancelTap(EndPreDrag(Untouch(d, p)), p)
  <2>1. HasExit(d) BY <1>2, ZoneExit
  <2>2. HasExit(m) BY <2>1, UntouchExit, ZoneExit
  <2>3. HasExit(Dispatch(SwitchModes(CaptureTap(InTouchMode(m, p), p), p), p))
    BY <2>2, <1>1, ModeExit
  <2> QED BY <1>2, <2>1, <2>3 DEF TouchPacket
<1>3. HasExit(PassButtons(s, p)) BY ButtonsExit
<1>4. HasExit(DispatchPassThrough(PassButtons(s, p), p)) BY <1>3, ReportExit DEF DispatchPassThrough
<1>5. HasExit(TouchPacket(ClickPad(PassButtons(s, p), p), p)) BY <1>2, <1>3, ButtonsExit
<1> QED BY <1>4, <1>5, SecondFingerExit DEF dispatchEventsWithPacket

(* A pad that was just started is not dragging *)
LEMMA InitIInv == Init => IInv
BY DEF Init, IInv, HasExit, FreshPad

(* Every step keeps the exit: the settings, on which a lock depends, change *)
(* only together with the mode                                              *)
LEMMA NextIInv == IInv /\ [Next]_vars => IInv'
<1> SUFFICES ASSUME IInv, [Next]_vars PROVE IInv' OBVIOUS
<1>1. ASSUME HasExit(pad'), set' = set PROVE IInv' BY <1>1 DEF IInv, HasExit, Locked
<1>2. ASSUME NEW p, Packet(p) PROVE IInv'
  <2>1. pad' = Handled(dispatchEventsWithPacket(pad, p)) /\ set' = set BY <1>2 DEF Packet
  <2>2. HasExit(pad') BY <2>1, ReportExit, PacketExit DEF IInv
  <2> QED BY <1>1, <2>1, <2>2
<1>3. CASE onDragTimer
  <2> DEFINE t == [pad EXCEPT !.mode = "NOTOUCH", !.dragTimer = FALSE]
  <2>1. HasExit(t) BY DEF IInv, HasExit, Locked
  <2>2. pad' = dispatchRelativePointerEvent(t, pad.lastbuttons) /\ set' = set
    BY <1>3 DEF onDragTimer
  <2> QED BY <1>1, <2>1, <2>2, ReportExit
<1>4. CASE onScrollTimer BY <1>4 DEF onScrollTimer, IInv, HasExit, Locked
<1>5. CASE setDisableTouchpad BY <1>5 DEF setDisableTouchpad, IInv, HasExit, Locked
<1>6. CASE ModifierPressed BY <1>6 DEF ModifierPressed, IInv, HasExit, Locked
<1>7. CASE ModifierReleased BY <1>7 DEF ModifierReleased, IInv, HasExit, Locked
<1>8. CASE KeyPressed BY <1>8 DEF KeyPressed, IInv, HasExit, Locked
<1>9. ASSUME NEW new, setParamPropertiesGated(new) PROVE IInv'
  BY <1>9 DEF setParamPropertiesGated, IInv, HasExit
<1>10. CASE Tick BY <1>10 DEF Tick, IInv, HasExit, Locked
<1>11. CASE UNCHANGED vars BY <1>11 DEF vars, IInv, HasExit, Locked
<1> QED BY <1>2, <1>3, <1>4, <1>5, <1>6, <1>7, <1>8, <1>9, <1>10, <1>11 DEF Next

(* Whatever the settings, the packets, the keys and the timers do, a drag   *)
(* that goes on without a finger has its timer set or is locked: the left   *)
(* button that is held for it can come up.                                  *)
THEOREM DragsEnd == Spec => []DragHasExit
<1>1. IInv => DragHasExit BY DEF IInv, HasExit, DragHasExit
<1> QED BY <1>1, InitIInv, NextIInv, PTL DEF Spec
=============================================================================
