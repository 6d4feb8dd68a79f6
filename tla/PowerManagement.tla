--------------------------- MODULE PowerManagement ---------------------------
(***************************************************************************)
(* Sleep and wake of ApplePS2Controller.  setPowerState hands the new      *)
(* state to a thread call, which runs setPowerStateGated on the work loop: *)
(* a script of calls into the controller and into the drivers, executed    *)
(* while devices send, interrupts arrive and other threads submit          *)
(* requests.                                                               *)
(***************************************************************************)
EXTENDS PS2Controller, Integers

CONSTANTS mouseWakeFirst,                 \* the order of the drivers on wake
          mouseOff, keyboardOff,          \* the requests of setDevicePowerState
          defaults, leds, keyboardOn,
          mouseReset, mouseMode, mouseOn,
          MaxChanges,                     \* bound: power changes
          MaxImpatience                   \* bound: acknowledgements not waited for

ASSUME WakeAssumption == mouseWakeFirst \in BOOLEAN
ASSUME RequestAssumption ==
    {mouseOff, keyboardOff, defaults, leds, keyboardOn, mouseReset, mouseMode, mouseOn}
        \subseteq Request

(* The calls of a driver's thread are requests and changes of the command byte *)
DriverCall ==
    [do : {"submitRequestAndBlock"}, req : Request]
        \cup [do : {"setCommandByte"}, set : SUBSET Bit, clear : SUBSET Bit]

ASSUME CallsAssumption == Calls \subseteq Seq(DriverCall)

VARIABLES
    currentPowerState,
    threadCall,   \* the state a pending thread call carries, or None
    callouts,     \* the states of callouts that wait for the work loop's gate
    retains,      \* references setPowerState holds on the controller
    unacked,      \* power management waits for an acknowledgement
    changes, impatience

powerVars ==
    <<currentPowerState, threadCall, callouts, retains, unacked, changes, impatience>>
allVars == <<vars, powerVars>>

PowerState == {"sleep", "doze", "normal"}

PowerInit ==
    /\ Init
    /\ currentPowerState = "normal"
    /\ threadCall = None /\ callouts = <<>> /\ retains = 0 /\ unacked = FALSE
    /\ changes = 0 /\ impatience = 0

-----------------------------------------------------------------------------
(* The scripts of setPowerStateGated *)

Ignore(by) == [do |-> "ignoreInterrupts", by |-> by]
Offline(value) == [do |-> "hardwareOffline", value |-> value]
ResetController == [do |-> "resetController"]
Submit(r) == [do |-> "submitRequest", req |-> r]
EnterState(state) == [do |-> "currentPowerState", state |-> state]

initKeyboard ==
    <<SubmitAndBlock(defaults), Submit(leds), SubmitAndBlock(keyboardOn),
      SetCommandByte({"translate"}, {})>>

(* resetMouse and the settings that follow it, of which one stands for all  *)
enableMouse ==
    <<SubmitAndBlock(mouseReset), SubmitAndBlock(mouseMode), SubmitAndBlock(mouseOn)>>

(* Mutant: the hardware is declared offline before the drivers are told *)
SleepOfflineFirst ==
    <<Ignore(1),
      SetCommandByte({}, IRQ),
      Offline(TRUE),
      SubmitAndBlock(mouseOff), SubmitAndBlock(keyboardOff),
      SetCommandByte(ClocksOff, {})>>

Sleep ==
    <<Ignore(1),
      SetCommandByte({}, IRQ),
      SubmitAndBlock(mouseOff), SubmitAndBlock(keyboardOff),
      Offline(TRUE),
      SetCommandByte(ClocksOff, {})>>

(* Mutant: the drivers are called while the hardware is offline *)
WakeOfflineLate ==
    <<ResetController, SetCommandByte({}, ClocksOff \cup IRQ)>>
    \o initKeyboard \o enableMouse
    \o <<Offline(FALSE), SetCommandByte(IRQ, {}), Ignore(-1)>>

Wake ==
    <<ResetController,
      SetCommandByte({}, ClocksOff \cup IRQ),
      Offline(FALSE)>>
    \o (IF mouseWakeFirst THEN enableMouse \o initKeyboard ELSE initKeyboard \o enableMouse)
    \o <<SetCommandByte(IRQ, {}), Ignore(-1)>>

(* Mutant: a state that is already current is not acknowledged *)
setPowerStateSilent(state) ==
    CASE state = currentPowerState -> <<>>
      [] state # currentPowerState /\ state = "sleep" -> Sleep \o <<EnterState(state)>>
      [] state # currentPowerState /\ currentPowerState = "sleep" ->
             Wake \o <<EnterState(state)>>
      [] OTHER -> <<EnterState(state)>>

setPowerStateGated(state) ==
    (CASE state = currentPowerState -> <<>>
       [] state # currentPowerState /\ state = "sleep" -> Sleep
       [] state # currentPowerState /\ currentPowerState = "sleep" -> Wake
       [] OTHER -> <<>>)
    \o <<EnterState(state)>>

-----------------------------------------------------------------------------
(* Mutant: a thread call that is already pending is retained again *)
setPowerStateRetain(state) ==
    /\ changes < MaxChanges
    /\ \/ ~unacked /\ impatience' = impatience
       \/ unacked /\ impatience < MaxImpatience /\ impatience' = impatience + 1
    /\ changes' = changes + 1
    /\ retains' = retains + 1
    /\ threadCall' = state
    /\ unacked' = TRUE
    /\ UNCHANGED <<vars, currentPowerState, callouts>>

(* Power management asks for a state.  A thread call that is still pending  *)
(* takes the new state and the extra reference is dropped.                  *)
setPowerState(state) ==
    /\ changes < MaxChanges
    /\ \/ ~unacked /\ impatience' = impatience
       \/ unacked /\ impatience < MaxImpatience /\ impatience' = impatience + 1
    /\ changes' = changes + 1
    /\ retains' = IF threadCall = None THEN retains + 1 ELSE retains
    /\ threadCall' = state
    /\ unacked' = TRUE
    /\ UNCHANGED <<vars, currentPowerState, callouts>>

(* The thread call starts: it is no longer pending, and waits for the gate *)
setPowerStateCallout ==
    /\ Runs /\ threadCall # None
    /\ callouts' = Append(callouts, threadCall)
    /\ threadCall' = None
    /\ UNCHANGED <<vars, currentPowerState, retains, unacked, changes, impatience>>

Without(seq, i) == SubSeq(seq, 1, i - 1) \o SubSeq(seq, i + 1, Len(seq))

(* One of the callouts that wait passes the gate *)
setPowerStateAction ==
    /\ Idle
    /\ \E i \in DOMAIN callouts :
           /\ agenda' = setPowerStateGated(callouts[i])
           /\ callouts' = Without(callouts, i)
    /\ UNCHANGED <<hardwareVars, isrVars, ignoreInterrupts, hardwareOffline, queueVars,
                   calls, pc, localVars, drained, resultVars, dispatched,
                   currentPowerState, threadCall, retains, unacked, changes, impatience>>

Step(do) ==
    /\ Item(do)
    /\ agenda' = Tail(agenda)
    /\ UNCHANGED <<isrVars, calls, pc, localVars, drained, resultVars, dispatched>>

countIgnore ==
    /\ Step("ignoreInterrupts")
    /\ ignoreInterrupts' = ignoreInterrupts + Head(agenda).by
    /\ UNCHANGED <<hardwareVars, hardwareOffline, queueVars, powerVars>>

setOffline ==
    /\ Step("hardwareOffline")
    /\ hardwareOffline' = Head(agenda).value
    /\ UNCHANGED <<hardwareVars, ignoreInterrupts, queueVars, powerVars>>

submitOnWorkLoop ==
    /\ Step("submitRequest")
    /\ Enqueue(Head(agenda).req)
    /\ UNCHANGED <<hardwareVars, ignoreInterrupts, hardwareOffline, powerVars>>

(* processRequest fails a request at once while the hardware is offline *)
processRequestOffline ==
    /\ Item("processRequest") /\ hardwareOffline
    /\ Complete("failed")
    /\ UNCHANGED <<ignoreInterrupts, powerVars>>

(* Both devices are tested, disabled and drained.  This is one step: the    *)
(* devices were disabled before the hardware went offline, nothing is       *)
(* written to them and interrupts are ignored until it is over, so that     *)
(* only its own reads see the port.                                         *)
resetController ==
    /\ Step("resetController")
    /\ InputFree
    /\ commandByte' = (commandByte \ (IRQ \cup ClocksOff)) \cup {"translate"}
    /\ outBuf' = <<>> /\ sending' = [s \in Source |-> <<>>]
    /\ answering' = [s \in Stream |-> <<>>]
    /\ enabled' = [s \in Stream |-> FALSE]
    /\ UNCHANGED <<lastByte, command, sent, late, mute, broken, irq, ignoreInterrupts,
                   hardwareOffline, queueVars, powerVars>>

(* The new state is recorded and acknowledged, and the reference dropped *)
acknowledgeSetPowerState ==
    /\ Step("currentPowerState")
    /\ currentPowerState' = Head(agenda).state
    /\ unacked' = FALSE
    /\ retains' = retains - 1
    /\ UNCHANGED <<hardwareVars, ignoreInterrupts, hardwareOffline, queueVars,
                   threadCall, callouts, changes, impatience>>

PowerWorkLoop ==
    \/ setPowerStateCallout \/ setPowerStateAction \/ countIgnore \/ setOffline \/ submitOnWorkLoop
    \/ processRequestOffline \/ resetController \/ acknowledgeSetPowerState

PowerNext ==
    \/ Next /\ UNCHANGED powerVars
    \/ \E state \in PowerState : setPowerState(state)
    \/ PowerWorkLoop

PowerSpec == PowerInit /\ [][PowerNext]_allVars

PowerFairSpec ==
    /\ PowerSpec
    /\ Fairness
    /\ WF_allVars(PowerWorkLoop)

-----------------------------------------------------------------------------
(* Properties *)

(* Between power changes the hardware is in the state that                  *)
(* setPowerStateGated recorded: asleep, interrupts are ignored, requests    *)
(* refused, clocks and interrupts off and both devices disabled; awake, all *)
(* of it is undone, and scan codes are translated.  An interrupt routine    *)
(* that had passed its test when a poll began may take an answer from it,   *)
(* and is excepted.                                                         *)
PowerStateHolds ==
    Idle /\ "overlap" \notin broken =>
        IF currentPowerState = "sleep"
        THEN /\ ignoreInterrupts = 1 /\ hardwareOffline
             /\ ClocksOff \subseteq commandByte /\ commandByte \cap IRQ = {}
             /\ \A s \in Stream : ~enabled[s]
        ELSE /\ ignoreInterrupts = 0 /\ ~hardwareOffline
             /\ commandByte = IRQ \cup {"translate"}
             /\ \A s \in Stream : enabled[s]

(* While the hardware is offline no data reaches a driver, if the devices   *)
(* keep to what readDataPort assumes of them, or each driver got the        *)
(* acknowledgement of its own disable command all the same: setCommandByte  *)
(* still polls, and hands over what a device sends that is not disabled, or *)
(* what came between a byte that was taken for the acknowledgement and the  *)
(* real one.                                                                *)
Disabled == \A r \in {mouseOff, keyboardOff} : outcome[r] = "ok" /\ r \notin forged

QuietOffline ==
    [][hardwareOffline /\ "overlap" \notin broken /\ (Disabled \/ \A s \in Stream : Reliable(s))
           => UNCHANGED dispatched]_allVars

(* The controller is retained once for each thread call that is pending,    *)
(* waits for the gate or runs, however often a pending one is given a new   *)
(* state and however many wait.                                             *)
RetainedWhileCalled ==
    retains = (IF threadCall = None THEN 0 ELSE 1) + Len(callouts)
              + (IF \E i \in DOMAIN agenda : agenda[i].do = "currentPowerState" THEN 1 ELSE 0)

(* Every power change is acknowledged.                                      *)
EveryChangeAcknowledged == unacked ~> ~unacked

(* Step 4 of the wake transition: when interrupts are on again, an          *)
(* interrupt is pending if there is a byte in the output buffer.            *)
ListensAwake ==
    Idle /\ currentPowerState # "sleep" /\ outBuf # <<>> =>
        \E s \in Stream : irq[s]
=============================================================================
