------------------------ MODULE PS2ControllerProofs ------------------------
(***************************************************************************)
(* Proofs about PS2Controller, for any requests, commands, calls, devices, *)
(* timeouts and processors: _ignoreInterrupts is counted up exactly while  *)
(* the work loop polls, and that keeps an interrupt routine away that had  *)
(* not passed its test before.                                             *)
(***************************************************************************)
EXTENDS PS2Controller, TLAPS

Label == Polling \cup {"ready", "write"}

IInv == pc \in Label /\ IgnoredWhilePolling /\ PollingAlone

(* What broke stays broken *)
LEMMA Breaking == ASSUME NEW what, Break(what) PROVE broken \subseteq broken'
BY DEF Break

(* Nobody polls at the beginning *)
LEMMA InitIInv == Init => IInv
BY DEF Init, IInv, IgnoredWhilePolling, PollingAlone, Label, Polling

(* The 8042 and the devices touch neither the counter nor the work loop *)
LEMMA HardwareIInv == ASSUME IInv, Hardware PROVE IInv'
<1> DEFINE Same == UNCHANGED <<isr, pc, ignoreInterrupts>> /\ broken \subseteq broken'
<1>1. ASSUME NEW source \in Source, Deliver(source) PROVE Same
  BY <1>1 DEF Deliver, isrVars, loopVars
<1>2. ASSUME NEW s \in Stream, DeviceData(s) PROVE Same
  <2>1. broken \subseteq broken' BY <1>2 DEF DeviceData, Break
  <2> QED BY <1>2, <2>1 DEF DeviceData, isrVars, loopVars
<1>3. ASSUME NEW s \in Stream, DeviceAnswer(s) \/ DeviceMute(s) PROVE Same
  BY <1>3 DEF DeviceAnswer, DeviceMute, TakeCommand, Break, isrVars, loopVars
<1>4. ASSUME NEW s \in Stream, DeviceGoesOn(s) PROVE Same
  BY <1>4 DEF DeviceGoesOn, isrVars, loopVars
<1>5. Same BY <1>1, <1>2, <1>3, <1>4 DEF Hardware
<1> QED BY <1>5 DEF IInv, IgnoredWhilePolling, PollingAlone

(* The interrupt routine starts only when the counter is 0, and then nobody *)
(* polls.                                                                   *)
LEMMA InterruptIInv == ASSUME IInv, Interrupt PROVE IInv'
<1> USE DEF IInv, IgnoredWhilePolling, PollingAlone, loopVars, hardwareVars, deviceVars
<1>1. ASSUME NEW s \in Stream, InterruptHandler(s) PROVE IInv'
  BY <1>1 DEF InterruptHandler
<1>2. CASE handleInterruptStatus BY <1>2 DEF handleInterruptStatus
<1>3. CASE handleInterruptData BY <1>3 DEF handleInterruptData
<1>4. CASE handleInterruptDispatch BY <1>4 DEF handleInterruptDispatch
<1> QED BY <1>1, <1>2, <1>3, <1>4 DEF Interrupt

(* What drivers do outside the work loop leaves the counter alone *)
LEMMA DriversIInv == ASSUME IInv, Drivers PROVE IInv'
<1> USE DEF IInv, IgnoredWhilePolling, PollingAlone, loopVars, isrVars, hardwareVars, deviceVars
<1>1. ASSUME NEW a \in calls, Call(a) PROVE IInv'
  BY <1>1 DEF Call
<1>2. ASSUME NEW r \in Async, submitRequest(r) PROVE IInv'
  BY <1>2 DEF submitRequest
<1> QED BY <1>1, <1>2 DEF Drivers

(* A step of the work loop that stays among the labels of polling, or among *)
(* the others, and leaves the counter alone preserves the invariant.        *)
LEMMA SameSide ==
    ASSUME IInv, pc' \in Label, pc \in Polling <=> pc' \in Polling,
           broken \subseteq broken', UNCHANGED <<isr, ignoreInterrupts>>
    PROVE  IInv'
BY DEF IInv, IgnoredWhilePolling, PollingAlone

(* A step that counts up and begins to poll preserves it: if the interrupt  *)
(* routine has passed its test, this is the overlap that is recorded.       *)
LEMMA BeginPolling ==
    ASSUME IInv, pc = "ready", pc' \in Polling, isr # "idle" => "overlap" \in broken',
           ignoreInterrupts' = ignoreInterrupts + 1, UNCHANGED isr
    PROVE  IInv'
BY DEF IInv, IgnoredWhilePolling, PollingAlone, Label, Polling

(* A step that counts down and stops to poll preserves it. *)
LEMMA EndPolling ==
    ASSUME IInv, pc \in Polling, pc' \in {"ready", "write"},
           ignoreInterrupts' = ignoreInterrupts - 1, UNCHANGED isr
    PROVE  IInv'
BY DEF IInv, IgnoredWhilePolling, PollingAlone, Label, Polling

(* readDataPort returns to its command, which goes on or fails. *)
LEMMA ReturnLabel ==
    ASSUME NEW byte, Return(byte) PROVE pc' \in {"modify", "failed", "command"}
BY DEF Return

(* The steps of the request queue and of processRequest preserve it. *)
LEMMA RequestIInv ==
    ASSUME IInv,
           \/ processRequestQueue \/ submitRequestAndBlockGated
           \/ processRequestBegin \/ processRequestEnd
    PROVE  IInv'
<1> USE DEF At, Idle, Item, isrVars, hardwareVars, deviceVars
<1>1. CASE processRequestQueue
  BY <1>1, SameSide DEF processRequestQueue, IInv
<1>2. CASE submitRequestAndBlockGated
  BY <1>2, SameSide DEF submitRequestAndBlockGated, IInv
<1>3. CASE processRequestBegin
  <2>1. isr # "idle" => "overlap" \in broken'
    BY <1>3 DEF processRequestBegin, Break, Unless
  <2> QED BY <1>3, <2>1, BeginPolling DEF processRequestBegin, Polling
<1>4. CASE processRequestEnd
  BY <1>4, EndPolling DEF processRequestEnd, Complete, Polling
<1> QED BY <1>1, <1>2, <1>3, <1>4

(* The commands of a request poll, and leave the counter alone. *)
LEMMA CommandIInv == ASSUME IInv, ExecuteCommand PROVE IInv'
<1>1. /\ pc \in {"command", "modify"} /\ pc' \in {"command", "poll"}
      /\ UNCHANGED <<isr, ignoreInterrupts>> /\ broken \subseteq broken'
  <2> USE DEF At, AtCommand, NextCommand, StartReading, WriteToDevice, isrVars, controlVars,
              hardwareVars, deviceVars
  <2>1. CASE CommandWriteDataPort BY <2>1, Breaking DEF CommandWriteDataPort
  <2>2. CASE CommandWriteCommandPort BY <2>2 DEF CommandWriteCommandPort
  <2>3. CASE CommandSendMouse BY <2>3, Breaking DEF CommandSendMouse
  <2>4. CASE CommandRead BY <2>4 DEF CommandRead
  <2>5. CASE CommandFlush BY <2>5 DEF CommandFlush
  <2>6. CASE CommandSleepMS BY <2>6 DEF CommandSleepMS
  <2>7. CASE CommandModify BY <2>7, Breaking DEF CommandModify
  <2>8. CASE CommandModifyWrite BY <2>8 DEF CommandModifyWrite, WriteCommandByte
  <2> QED BY <2>1, <2>2, <2>3, <2>4, <2>5, <2>6, <2>7, <2>8 DEF ExecuteCommand
<1> QED BY <1>1, SameSide DEF Label, Polling

(* So do the steps of readDataPort, whatever byte comes and however it is   *)
(* taken.                                                                   *)
LEMMA ReadIInv == ASSUME IInv, readDataPort PROVE IInv'
<1>1. /\ pc \in {"poll", "data"} /\ pc' \in {"poll", "data", "modify", "failed", "command"}
      /\ UNCHANGED <<isr, ignoreInterrupts>> /\ broken \subseteq broken'
  <2> USE DEF At, AtData, KeepReading, isrVars, controlVars, hardwareVars, deviceVars
  <2>1. CASE Poll BY <2>1 DEF Poll
  <2>2. CASE ReadOtherStream BY <2>2 DEF ReadOtherStream
  <2>3. CASE ReadAnswer BY <2>3, ReturnLabel DEF ReadAnswer
  <2>4. CASE HoldFirstByte BY <2>4 DEF HoldFirstByte
  <2>5. CASE SecondMismatch BY <2>5, ReturnLabel DEF SecondMismatch
  <2>6. CASE ReadTimeout BY <2>6, ReturnLabel, Breaking DEF ReadTimeout
  <2> QED BY <2>1, <2>2, <2>3, <2>4, <2>5, <2>6 DEF readDataPort
<1> QED BY <1>1, SameSide DEF Label, Polling

(* setCommandByteGated counts down before it writes the command byte. *)
LEMMA SetCommandByteIInv == ASSUME IInv, setCommandByteGated PROVE IInv'
<1> USE DEF At, Item, isrVars, controlVars, hardwareVars, deviceVars
<1>1. CASE setCommandByteBegin
  <2>1. isr # "idle" => "overlap" \in broken'
    BY <1>1 DEF setCommandByteBegin, Break, Unless
  <2> QED BY <1>1, <2>1, BeginPolling DEF setCommandByteBegin, StartReading, Polling
<1>2. CASE setCommandByteUnignore
  BY <1>2, EndPolling DEF setCommandByteUnignore, Polling
<1>3. CASE setCommandByteWrite
  BY <1>3, SameSide DEF setCommandByteWrite, WriteCommandByte, Label, Polling
<1> QED BY <1>1, <1>2, <1>3 DEF setCommandByteGated

(* Every step preserves the invariant *)
LEMMA NextIInv == IInv /\ [Next]_vars => IInv'
<1> SUFFICES ASSUME IInv, [Next]_vars PROVE IInv' OBVIOUS
<1>1. CASE Hardware BY <1>1, HardwareIInv
<1>2. CASE Interrupt BY <1>2, InterruptIInv
<1>3. CASE Drivers BY <1>3, DriversIInv
<1>4. CASE WorkLoop
  BY <1>4, RequestIInv, CommandIInv, ReadIInv, SetCommandByteIInv DEF WorkLoop
<1>5. CASE UNCHANGED vars
  BY <1>5 DEF vars, isrVars, loopVars, hardwareVars, deviceVars, IInv, IgnoredWhilePolling, PollingAlone
<1> QED BY <1>1, <1>2, <1>3, <1>4, <1>5 DEF Next

(* The invariant holds in every state of every behaviour *)
LEMMA Invariance == Spec => []IInv
BY InitIInv, NextIInv, PTL DEF Spec

(* On every path through processRequest, readDataPort and                   *)
(* setCommandByteGated, failures and timeouts included, _ignoreInterrupts   *)
(* is 1 while the port is polled and 0 otherwise.                           *)
THEOREM CounterBalanced == Spec => []IgnoredWhilePolling
<1>1. IInv => IgnoredWhilePolling BY DEF IInv
<1> QED BY <1>1, Invariance, PTL

(* On any number of processors the interrupt routine reads the data port    *)
(* beside a poll only if it had passed its test of _ignoreInterrupts when   *)
(* the poll began: the counter keeps every other one away.                  *)
THEOREM PollsAlone == Spec => []PollingAlone
<1>1. IInv => PollingAlone BY DEF IInv
<1> QED BY <1>1, Invariance, PTL
=============================================================================
