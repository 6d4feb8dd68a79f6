------------------------ MODULE PowerManagementProofs ------------------------
(***************************************************************************)
(* The reference that setPowerState holds on the controller, for any        *)
(* requests, calls, devices and timeouts: one for each thread call that is  *)
(* pending, waits for the gate or runs.  A thread call runs until the acknowledgement that   *)
(* ends its script, so the argument follows that one item of the agenda     *)
(* through everything that is put before it and taken away.                 *)
(***************************************************************************)
EXTENDS PowerManagement, SequenceTheorems, TLAPS

AgendaItem ==
    DriverCall
        \cup [do : {"processRequest", "submitRequest"}, req : Request]
        \cup [do : {"ignoreInterrupts"}, by : {-1, 1}]
        \cup [do : {"hardwareOffline"}, value : BOOLEAN]
        \cup [do : {"resetController"}]
        \cup [do : {"currentPowerState"}, state : PowerState]

IsAck(item) == item.do = "currentPowerState"

Types ==
    /\ agenda \in Seq(AgendaItem)
    /\ requestQueue \in Seq(Request)
    /\ calls \subseteq Seq(DriverCall)
    /\ threadCall \in PowerState \cup {None}
    /\ callouts \in Seq(PowerState)
    /\ retains \in Int

(* The acknowledgement is the last thing a script does. *)
AckIsLast(a) == \A i \in DOMAIN a : IsAck(a[i]) => i = Len(a)

(* What is under way on the port is not an acknowledgement. *)
BusyHead == pc # "ready" => agenda # <<>> /\ ~IsAck(Head(agenda))

IInv == Types /\ AckIsLast(agenda) /\ BusyHead /\ RetainedWhileCalled

HasAck(a) == \E i \in DOMAIN a : IsAck(a[i])

-----------------------------------------------------------------------------
(* A script that has done its first step still ends as it did. *)
LEMMA TailKeeps ==
    ASSUME NEW a \in Seq(AgendaItem), a # <<>>, ~IsAck(Head(a)), AckIsLast(a)
    PROVE  /\ Tail(a) \in Seq(AgendaItem)
           /\ AckIsLast(Tail(a))
           /\ HasAck(Tail(a)) <=> HasAck(a)
<1> DEFINE b == Tail(a)
<1>1. /\ b \in Seq(AgendaItem) /\ Len(b) = Len(a) - 1 /\ Len(a) \in Nat /\ Len(a) >= 1
      /\ \A i \in 1..Len(b) : b[i] = a[i + 1]
  BY HeadTailProperties, LenProperties
<1>2. Head(a) = a[1] /\ DOMAIN a = 1..Len(a) /\ DOMAIN b = 1..Len(b)
  BY <1>1, LenProperties
<1>3. AckIsLast(b) BY <1>1, <1>2 DEF AckIsLast
<1>4. ASSUME HasAck(a) PROVE HasAck(b)
  <2>1. PICK i \in DOMAIN a : IsAck(a[i]) BY <1>4 DEF HasAck
  <2>2. i # 1 BY <2>1, <1>2
  <2>3. i - 1 \in DOMAIN b /\ b[i - 1] = a[i] BY <2>2, <1>1, <1>2
  <2> QED BY <2>1, <2>3 DEF HasAck
<1>5. ASSUME HasAck(b) PROVE HasAck(a)
  <2>1. PICK i \in DOMAIN b : IsAck(b[i]) BY <1>5 DEF HasAck
  <2>2. i + 1 \in DOMAIN a /\ b[i] = a[i + 1] BY <1>1, <1>2
  <2> QED BY <2>1, <2>2 DEF HasAck
<1> QED BY <1>1, <1>3, <1>4, <1>5

(* Work without an acknowledgement that is put before a script leaves the   *)
(* script's end where it is.                                                *)
LEMMA PrefixKeeps ==
    ASSUME NEW a \in Seq(AgendaItem), NEW b \in Seq(AgendaItem), ~HasAck(a), AckIsLast(b)
    PROVE  /\ a \o b \in Seq(AgendaItem)
           /\ AckIsLast(a \o b)
           /\ HasAck(a \o b) <=> HasAck(b)
<1> DEFINE c == a \o b
<1>1. /\ c \in Seq(AgendaItem) /\ Len(c) = Len(a) + Len(b)
      /\ \A i \in 1..Len(c) : c[i] = IF i <= Len(a) THEN a[i] ELSE b[i - Len(a)]
  BY ConcatProperties
<1>2. /\ Len(a) \in Nat /\ Len(b) \in Nat
      /\ DOMAIN a = 1..Len(a) /\ DOMAIN b = 1..Len(b) /\ DOMAIN c = 1..Len(c)
  BY <1>1, LenProperties
<1>3. ASSUME NEW i \in DOMAIN c, IsAck(c[i])
      PROVE  i - Len(a) \in DOMAIN b /\ IsAck(b[i - Len(a)])
  BY <1>1, <1>2, <1>3 DEF HasAck
<1>4. AckIsLast(c)
  <2> SUFFICES ASSUME NEW i \in DOMAIN c, IsAck(c[i]) PROVE i = Len(c) BY DEF AckIsLast
  <2>1. i - Len(a) = Len(b) BY <1>3 DEF AckIsLast
  <2> QED BY <2>1, <1>1, <1>2
<1>5. ASSUME HasAck(b) PROVE HasAck(c)
  <2>1. PICK i \in DOMAIN b : IsAck(b[i]) BY <1>5 DEF HasAck
  <2>2. i + Len(a) \in DOMAIN c /\ c[i + Len(a)] = b[i] BY <1>1, <1>2
  <2> QED BY <2>1, <2>2 DEF HasAck
<1>6. ASSUME HasAck(c) PROVE HasAck(b)
  BY <1>3, <1>6 DEF HasAck
<1> QED BY <1>1, <1>4, <1>5, <1>6

(* The calls of the drivers hold no acknowledgement. *)
LEMMA DriverCalls ==
    ASSUME NEW a \in Seq(DriverCall)
    PROVE  a \in Seq(AgendaItem) /\ ~HasAck(a) /\ AckIsLast(a)
<1>1. \A i \in DOMAIN a : a[i] \in DriverCall BY ElementOfSeq, LenProperties
<1>2. \A x \in DriverCall : x \in AgendaItem /\ ~IsAck(x) BY DEF DriverCall, AgendaItem, IsAck
<1>3. a \in Seq(AgendaItem) BY <1>2
<1> QED BY <1>1, <1>2, <1>3 DEF HasAck, AckIsLast

(* Nor do the requests that the queue hands over. *)
LEMMA QueueItems ==
    ASSUME requestQueue \in Seq(Request)
    PROVE  LocalQueue \in Seq(AgendaItem) /\ ~HasAck(LocalQueue) /\ AckIsLast(LocalQueue)
<1>1. \A r \in Request : ProcessRequest(r) \in AgendaItem /\ ~IsAck(ProcessRequest(r))
  BY DEF ProcessRequest, AgendaItem, IsAck
<1>2. DOMAIN requestQueue = 1..Len(requestQueue) /\ Len(requestQueue) \in Nat
      /\ \A i \in DOMAIN requestQueue : requestQueue[i] \in Request
  BY LenProperties, ElementOfSeq
<1>3. LocalQueue \in Seq(AgendaItem) BY <1>1, <1>2, IsASeq DEF LocalQueue
<1>4. \A i \in DOMAIN LocalQueue : ~IsAck(LocalQueue[i]) BY <1>1, <1>2 DEF LocalQueue
<1> QED BY <1>3, <1>4 DEF HasAck, AckIsLast

(* Scripts of some lengths. *)
LEMMA ScriptOf2 == ASSUME NEW W, NEW x1 \in W, NEW x2 \in W PROVE <<x1, x2>> \in Seq(W)
OBVIOUS

(* The same for three items. *)
LEMMA ScriptOf3 ==
    ASSUME NEW W, NEW x1 \in W, NEW x2 \in W, NEW x3 \in W PROVE <<x1, x2, x3>> \in Seq(W)
OBVIOUS

(* The same for six. *)
LEMMA ScriptOf6 ==
    ASSUME NEW W, NEW x1 \in W, NEW x2 \in W, NEW x3 \in W,
           NEW x4 \in W, NEW x5 \in W, NEW x6 \in W
    PROVE  <<x1, x2, x3, x4, x5, x6>> \in Seq(W)
OBVIOUS

(* The scripts of setPowerStateGated, but for their end, hold none either. *)
LEMMA Scripts ==
    ASSUME NEW a \in {<<>>, Sleep, Wake}
    PROVE  a \in Seq(AgendaItem) /\ ~HasAck(a)
<1> DEFINE Work == {x \in AgendaItem : ~IsAck(x)}
<1>1. \A r \in Request : SubmitAndBlock(r) \in Work /\ Submit(r) \in Work
  BY DEF SubmitAndBlock, Submit, AgendaItem, DriverCall, IsAck
<1>2. \A s, c \in SUBSET Bit : SetCommandByte(s, c) \in Work
  BY DEF SetCommandByte, AgendaItem, DriverCall, IsAck
<1>3. ResetController \in Work /\ Ignore(1) \in Work /\ Ignore(-1) \in Work
      /\ Offline(TRUE) \in Work /\ Offline(FALSE) \in Work
  BY DEF ResetController, Ignore, Offline, AgendaItem, IsAck
<1>4. /\ SetCommandByte({}, IRQ) \in Work /\ SetCommandByte(ClocksOff, {}) \in Work
      /\ SetCommandByte({}, ClocksOff \cup IRQ) \in Work /\ SetCommandByte(IRQ, {}) \in Work
      /\ SetCommandByte({"translate"}, {}) \in Work
  BY <1>2 DEF Bit
<1> HIDE DEF Work
<1>5. initKeyboard \in Seq(Work)
  BY <1>1, <1>4, RequestAssumption DEF initKeyboard
<1>6. enableMouse \in Seq(Work)
  BY <1>1, RequestAssumption DEF enableMouse
<1>7. Sleep \in Seq(Work)
  <2>1. SubmitAndBlock(mouseOff) \in Work /\ SubmitAndBlock(keyboardOff) \in Work
    BY <1>1, RequestAssumption
  <2> QED BY <2>1, <1>3, <1>4, ScriptOf6, Zenon DEF Sleep
<1>8. Wake \in Seq(Work)
  <2> DEFINE first == <<ResetController, SetCommandByte({}, ClocksOff \cup IRQ), Offline(FALSE)>>
             drivers == IF mouseWakeFirst THEN enableMouse \o initKeyboard
                        ELSE initKeyboard \o enableMouse
             last == <<SetCommandByte(IRQ, {}), Ignore(-1)>>
  <2>1. first \in Seq(Work) /\ last \in Seq(Work)
    BY <1>3, <1>4, ScriptOf2, ScriptOf3, Zenon
  <2>2. drivers \in Seq(Work) BY <1>5, <1>6, ConcatProperties
  <2>3. Wake = first \o drivers \o last BY DEF Wake
  <2> HIDE DEF first, drivers, last
  <2> QED BY <2>1, <2>2, <2>3, ConcatProperties
<1>9. a \in Seq(Work) BY <1>7, <1>8, EmptySeq
<1>10. \A i \in DOMAIN a : a[i] \in Work BY <1>9, ElementOfSeq, LenProperties
<1>11. Work \subseteq AgendaItem /\ \A x \in Work : ~IsAck(x) BY DEF Work
<1> QED BY <1>9, <1>10, <1>11 DEF HasAck

(* What a thread call puts on the agenda ends with its acknowledgement. *)
LEMMA ScriptEnds ==
    ASSUME NEW state \in PowerState
    PROVE  LET a == setPowerStateGated(state)
           IN  a \in Seq(AgendaItem) /\ AckIsLast(a) /\ HasAck(a)
<1> DEFINE end == <<EnterState(state)>>
<1>1. EnterState(state) \in AgendaItem /\ IsAck(EnterState(state))
  BY DEF EnterState, AgendaItem, IsAck
<1>2. end \in Seq(AgendaItem) /\ AckIsLast(end) /\ HasAck(end)
  BY <1>1 DEF AckIsLast, HasAck
<1>3. PICK script \in {<<>>, Sleep, Wake} : setPowerStateGated(state) = script \o end
  BY DEF setPowerStateGated
<1> HIDE DEF end
<1>4. script \in Seq(AgendaItem) /\ ~HasAck(script) BY <1>3, Scripts
<1>5. script \o end \in Seq(AgendaItem) /\ AckIsLast(script \o end) /\ HasAck(script \o end)
  BY <1>2, <1>4, PrefixKeeps
<1> QED BY <1>3, <1>5

-----------------------------------------------------------------------------
(* A step that leaves the agenda alone, and is busy with no acknowledgement *)
(* if it is busy, preserves the invariant.                                  *)
LEMMA KeepsAgenda ==
    ASSUME IInv, UNCHANGED <<agenda, powerVars>>, calls' \subseteq calls,
           requestQueue' \in Seq(Request),
           pc' # "ready" => pc # "ready" \/ (agenda # <<>> /\ ~IsAck(Head(agenda)))
    PROVE  IInv'
BY DEF IInv, Types, BusyHead, RetainedWhileCalled, powerVars, AckIsLast

(* So does one that exchanges it for another with the same end. *)
LEMMA ExchangesAgenda ==
    ASSUME IInv, UNCHANGED powerVars, calls' \subseteq calls, requestQueue' \in Seq(Request),
           pc' = "ready", agenda' \in Seq(AgendaItem), AckIsLast(agenda'),
           HasAck(agenda') <=> HasAck(agenda)
    PROVE  IInv'
<1>1. Types' /\ BusyHead' BY DEF IInv, Types, BusyHead, powerVars
<1>2. RetainedWhileCalled' BY DEF IInv, RetainedWhileCalled, HasAck, IsAck, powerVars
<1>3. AckIsLast(agenda)' BY DEF AckIsLast
<1> QED BY <1>1, <1>2, <1>3 DEF IInv

(* And so does one that has done the first item, if that is no              *)
(* acknowledgement.                                                         *)
LEMMA DropsHead ==
    ASSUME IInv, agenda # <<>>, ~IsAck(Head(agenda)), agenda' = Tail(agenda), pc' = "ready",
           UNCHANGED powerVars, calls' \subseteq calls, requestQueue' \in Seq(Request)
    PROVE  IInv'
<1>1. /\ Tail(agenda) \in Seq(AgendaItem) /\ AckIsLast(Tail(agenda))
      /\ HasAck(Tail(agenda)) <=> HasAck(agenda)
  BY TailKeeps DEF IInv, Types
<1> QED BY <1>1, ExchangesAgenda

-----------------------------------------------------------------------------
(* Nothing is asked of power management at the beginning. *)
LEMMA InitIInv == PowerInit => IInv
<1> SUFFICES ASSUME PowerInit PROVE IInv OBVIOUS
<1>1. /\ agenda = <<>> /\ pc = "ready" /\ requestQueue = <<>> /\ calls = Calls
      /\ threadCall = None /\ callouts = <<>> /\ retains = 0
  BY DEF PowerInit, Init
<1>2. Types BY <1>1, CallsAssumption, EmptySeq DEF Types
<1>3. AckIsLast(agenda) /\ ~HasAck(agenda) BY <1>1 DEF AckIsLast, HasAck
<1>4. RetainedWhileCalled BY <1>1, <1>3 DEF RetainedWhileCalled, HasAck, IsAck
<1> QED BY <1>1, <1>2, <1>3, <1>4 DEF IInv, BusyHead

(* The devices and the interrupt routine leave the work loop alone. *)
LEMMA OutsideIInv ==
    ASSUME IInv, Hardware \/ Interrupt, UNCHANGED powerVars PROVE IInv'
<1>1. UNCHANGED <<agenda, calls, pc, requestQueue>>
  <2> USE DEF loopVars, queueVars
  <2>1. ASSUME NEW source \in Source, Deliver(source) PROVE UNCHANGED <<agenda, calls, pc, requestQueue>>
    BY <2>1 DEF Deliver
  <2>2. ASSUME NEW s \in Stream, DeviceData(s) PROVE UNCHANGED <<agenda, calls, pc, requestQueue>>
    BY <2>2 DEF DeviceData
  <2>3. ASSUME NEW s \in Stream, DeviceAnswer(s) \/ DeviceMute(s) \/ DeviceGoesOn(s)
        PROVE  UNCHANGED <<agenda, calls, pc, requestQueue>>
    BY <2>3 DEF DeviceAnswer, DeviceMute, TakeCommand, DeviceGoesOn
  <2>4. ASSUME NEW s \in Stream, InterruptHandler(s) PROVE UNCHANGED <<agenda, calls, pc, requestQueue>>
    BY <2>4 DEF InterruptHandler
  <2>5. CASE handleInterruptStatus BY <2>5 DEF handleInterruptStatus
  <2>6. CASE handleInterruptData BY <2>6 DEF handleInterruptData
  <2>7. CASE handleInterruptDispatch BY <2>7 DEF handleInterruptDispatch
  <2> QED BY <2>1, <2>2, <2>3, <2>4, <2>5, <2>6, <2>7 DEF Hardware, Interrupt
<1>2. requestQueue' \in Seq(Request) BY <1>1 DEF IInv, Types
<1> QED BY <1>1, <1>2, KeepsAgenda

(* A driver's call begins on an idle work loop. *)
LEMMA DriversIInv == ASSUME IInv, Drivers, UNCHANGED powerVars PROVE IInv'
<1>1. ASSUME NEW a \in calls, Call(a) PROVE IInv'
  <2>1. /\ agenda = <<>> /\ agenda' = a /\ pc' = "ready" /\ calls' \subseteq calls
        /\ requestQueue' \in Seq(Request)
    BY <1>1 DEF Call, Idle, At, queueVars, IInv, Types
  <2>2. a \in Seq(AgendaItem) /\ ~HasAck(a) /\ AckIsLast(a) BY DriverCalls DEF IInv, Types
  <2>3. ~HasAck(agenda) BY <2>1 DEF HasAck
  <2> QED BY <2>1, <2>2, <2>3, ExchangesAgenda
<1>2. ASSUME NEW r \in Async, submitRequest(r) PROVE IInv'
  <2>1. UNCHANGED <<agenda, calls, pc>> /\ requestQueue' = Append(requestQueue, r)
    BY <1>2 DEF submitRequest, Enqueue, loopVars
  <2>2. requestQueue' \in Seq(Request) BY <2>1, AsyncAssumption DEF IInv, Types
  <2> QED BY <2>1, <2>2, KeepsAgenda
<1> QED BY <1>1, <1>2 DEF Drivers

(* processRequestQueue and submitRequestAndBlockGated put requests before   *)
(* the rest of the agenda, and a request that ends is taken off it.         *)
LEMMA RequestIInv ==
    ASSUME IInv, UNCHANGED powerVars,
           \/ processRequestQueue \/ submitRequestAndBlockGated
           \/ processRequestBegin \/ processRequestEnd
    PROVE  IInv'
<1>1. CASE processRequestQueue
  <2>1. /\ agenda = <<>> /\ agenda' = LocalQueue /\ pc' = "ready" /\ calls' = calls
        /\ requestQueue' \in Seq(Request)
    BY <1>1, EmptySeq DEF processRequestQueue, Idle, At
  <2>2. LocalQueue \in Seq(AgendaItem) /\ ~HasAck(LocalQueue) /\ AckIsLast(LocalQueue)
    BY QueueItems DEF IInv, Types
  <2>3. ~HasAck(agenda) BY <2>1 DEF HasAck
  <2> QED BY <2>1, <2>2, <2>3, ExchangesAgenda
<1>2. CASE submitRequestAndBlockGated
  <2> DEFINE rest == Tail(agenda)
             this == <<ProcessRequest(Head(agenda).req)>>
  <2>1. /\ agenda # <<>> /\ Head(agenda).do = "submitRequestAndBlock"
        /\ agenda' = LocalQueue \o this \o rest
        /\ pc' = "ready" /\ calls' = calls /\ requestQueue' \in Seq(Request)
    BY <1>2, EmptySeq DEF submitRequestAndBlockGated, Item, At
  <2>2. ~IsAck(Head(agenda)) BY <2>1 DEF IsAck
  <2>3. rest \in Seq(AgendaItem) /\ AckIsLast(rest) /\ (HasAck(rest) <=> HasAck(agenda))
    BY <2>1, <2>2, TailKeeps DEF IInv, Types
  <2>4. Head(agenda) \in AgendaItem BY <2>1, HeadTailProperties DEF IInv, Types
  <2>5. Head(agenda).req \in Request BY <2>1, <2>4 DEF AgendaItem, DriverCall
  <2>6. this \in Seq(AgendaItem) /\ ~HasAck(this) /\ AckIsLast(this)
    <3>1. ProcessRequest(Head(agenda).req) \in AgendaItem /\ ~IsAck(ProcessRequest(Head(agenda).req))
      BY <2>5 DEF ProcessRequest, AgendaItem, IsAck
    <3> QED BY <3>1 DEF HasAck, AckIsLast
  <2>7. LocalQueue \in Seq(AgendaItem) /\ ~HasAck(LocalQueue) BY QueueItems DEF IInv, Types
  <2> HIDE DEF this, rest
  <2>8. LocalQueue \o this \in Seq(AgendaItem) /\ ~HasAck(LocalQueue \o this)
    BY <2>6, <2>7, PrefixKeeps
  <2>9. /\ LocalQueue \o this \o rest \in Seq(AgendaItem)
        /\ AckIsLast(LocalQueue \o this \o rest)
        /\ HasAck(LocalQueue \o this \o rest) <=> HasAck(rest)
    BY <2>3, <2>8, PrefixKeeps
  <2> QED BY <2>1, <2>3, <2>9, ExchangesAgenda
<1>3. CASE processRequestBegin
  <2>1. /\ agenda # <<>> /\ Head(agenda).do = "processRequest"
        /\ UNCHANGED <<agenda, calls, requestQueue>>
    BY <1>3 DEF processRequestBegin, Item, queueVars
  <2>2. requestQueue' \in Seq(Request) BY <2>1 DEF IInv, Types
  <2> QED BY <2>1, <2>2, KeepsAgenda DEF IsAck
<1>4. CASE processRequestEnd
  <2>1. /\ pc # "ready" /\ agenda' = Tail(agenda) /\ pc' = "ready"
        /\ UNCHANGED <<calls, requestQueue>>
    BY <1>4 DEF processRequestEnd, Complete, At, queueVars
  <2>2. requestQueue' \in Seq(Request) BY <2>1 DEF IInv, Types
  <2>3. agenda # <<>> /\ ~IsAck(Head(agenda)) BY <2>1 DEF IInv, BusyHead
  <2> QED BY <2>1, <2>2, <2>3, DropsHead
<1> QED BY <1>1, <1>2, <1>3, <1>4

(* The commands of a request and the reads of the port stay within the      *)
(* request.                                                                 *)
LEMMA PortIInv ==
    ASSUME IInv, UNCHANGED powerVars, ExecuteCommand \/ readDataPort PROVE IInv'
<1>1. pc # "ready" /\ UNCHANGED <<agenda, calls, requestQueue>>
  <2> USE DEF At, AtCommand, AtData, controlVars, queueVars
  <2>1. CASE CommandWriteDataPort BY <2>1 DEF CommandWriteDataPort
  <2>2. CASE CommandWriteCommandPort BY <2>2 DEF CommandWriteCommandPort
  <2>3. CASE CommandSendMouse BY <2>3 DEF CommandSendMouse
  <2>4. CASE CommandRead BY <2>4 DEF CommandRead
  <2>5. CASE CommandFlush BY <2>5 DEF CommandFlush
  <2>6. CASE CommandSleepMS BY <2>6 DEF CommandSleepMS
  <2>7. CASE CommandModify BY <2>7 DEF CommandModify
  <2>8. CASE CommandModifyWrite BY <2>8 DEF CommandModifyWrite
  <2>9. CASE Poll BY <2>9 DEF Poll
  <2>10. CASE ReadOtherStream BY <2>10 DEF ReadOtherStream
  <2>11. CASE ReadAnswer BY <2>11 DEF ReadAnswer
  <2>12. CASE HoldFirstByte BY <2>12 DEF HoldFirstByte
  <2>13. CASE SecondMismatch BY <2>13 DEF SecondMismatch
  <2>14. CASE ReadTimeout BY <2>14 DEF ReadTimeout
  <2> QED BY <2>1, <2>2, <2>3, <2>4, <2>5, <2>6, <2>7, <2>8, <2>9, <2>10, <2>11, <2>12,
             <2>13, <2>14 DEF ExecuteCommand, readDataPort
<1>2. requestQueue' \in Seq(Request) BY <1>1 DEF IInv, Types
<1> QED BY <1>1, <1>2, KeepsAgenda

(* setCommandByteGated takes its item off the agenda at its end. *)
LEMMA SetCommandByteIInv ==
    ASSUME IInv, UNCHANGED powerVars, setCommandByteGated PROVE IInv'
<1> USE DEF At, Item, controlVars, queueVars
<1>1. UNCHANGED <<calls, requestQueue>>
  BY DEF setCommandByteGated, setCommandByteBegin, setCommandByteUnignore, setCommandByteWrite
<1>2. requestQueue' \in Seq(Request) BY <1>1 DEF IInv, Types
<1>3. CASE setCommandByteBegin
  BY <1>1, <1>2, <1>3, KeepsAgenda DEF setCommandByteBegin, IsAck
<1>4. CASE setCommandByteUnignore
  BY <1>1, <1>2, <1>4, KeepsAgenda DEF setCommandByteUnignore
<1>5. CASE setCommandByteWrite
  <2>1. pc # "ready" /\ agenda' = Tail(agenda) /\ pc' = "ready"
    BY <1>5 DEF setCommandByteWrite
  <2>2. agenda # <<>> /\ ~IsAck(Head(agenda)) BY <2>1 DEF IInv, BusyHead
  <2> QED BY <1>1, <1>2, <2>1, <2>2, DropsHead
<1> QED BY <1>3, <1>4, <1>5 DEF setCommandByteGated

(* setPowerState retains the controller unless a thread call is pending,    *)
(* which then takes the new state.                                          *)
LEMMA AskIInv == ASSUME IInv, NEW state \in PowerState, setPowerState(state) PROVE IInv'
<1>1. /\ UNCHANGED <<agenda, calls, pc, requestQueue>>
      /\ retains' = (IF threadCall = None THEN retains + 1 ELSE retains)
      /\ threadCall' = state /\ callouts' = callouts
  BY DEF setPowerState, vars, loopVars, queueVars
<1>2. state # None BY DEF PowerState, None
<1>3. Types' BY <1>1 DEF IInv, Types
<1>4. AckIsLast(agenda)' /\ BusyHead' BY <1>1 DEF IInv, AckIsLast, BusyHead
<1>5. RetainedWhileCalled' BY <1>1, <1>2 DEF IInv, Types, RetainedWhileCalled
<1> QED BY <1>3, <1>4, <1>5 DEF IInv

(* The thread call that was pending now waits for the gate. *)
LEMMA CalloutIInv == ASSUME IInv, setPowerStateCallout PROVE IInv'
<1>1. /\ threadCall # None /\ threadCall' = None /\ callouts' = Append(callouts, threadCall)
      /\ UNCHANGED <<agenda, pc, calls, requestQueue, retains>>
  BY DEF setPowerStateCallout, vars, loopVars, queueVars
<1>2. callouts' \in Seq(PowerState) /\ Len(callouts') = Len(callouts) + 1 /\ Len(callouts) \in Nat
  BY <1>1, AppendProperties, LenProperties DEF IInv, Types
<1>3. Types' BY <1>1, <1>2 DEF IInv, Types
<1>4. AckIsLast(agenda)' /\ BusyHead' BY <1>1 DEF IInv, AckIsLast, BusyHead
<1>5. RetainedWhileCalled' BY <1>1, <1>2 DEF IInv, Types, RetainedWhileCalled
<1> QED BY <1>3, <1>4, <1>5 DEF IInv

(* One of several that wait is taken out. *)
LEMMA WithoutOne ==
    ASSUME NEW S, NEW seq \in Seq(S), NEW i \in DOMAIN seq
    PROVE  Without(seq, i) \in Seq(S) /\ Len(Without(seq, i)) = Len(seq) - 1
<1> DEFINE front == SubSeq(seq, 1, i - 1)
           back == SubSeq(seq, i + 1, Len(seq))
<1>1. Len(seq) \in Nat /\ i \in 1..Len(seq) BY LenProperties
<1>2. \A k \in 1..Len(seq) : seq[k] \in S BY ElementOfSeq
<1>3. front \in Seq(S) /\ Len(front) = i - 1
  BY <1>1, <1>2, SubSeqProperties
<1>4. back \in Seq(S) /\ Len(back) = Len(seq) - i
  BY <1>1, <1>2, SubSeqProperties
<1> HIDE DEF front, back
<1>5. front \o back \in Seq(S) /\ Len(front \o back) = Len(front) + Len(back)
  BY <1>3, <1>4, ConcatProperties
<1>6. Without(seq, i) = front \o back BY DEF Without, front, back
<1> QED BY <1>1, <1>3, <1>4, <1>5, <1>6

(* It passes the gate of an idle work loop, and runs. *)
LEMMA ActionIInv == ASSUME IInv, setPowerStateAction PROVE IInv'
<1>1. /\ agenda = <<>> /\ pc' = "ready"
      /\ UNCHANGED <<calls, requestQueue, threadCall, retains>>
  BY DEF setPowerStateAction, Idle, At, queueVars
<1>2. PICK i \in DOMAIN callouts :
         agenda' = setPowerStateGated(callouts[i]) /\ callouts' = Without(callouts, i)
  BY DEF setPowerStateAction
<1>3. callouts[i] \in PowerState BY ElementOfSeq, LenProperties DEF IInv, Types
<1>4. /\ callouts' \in Seq(PowerState) /\ Len(callouts') = Len(callouts) - 1
      /\ Len(callouts) \in Nat
  BY <1>2, WithoutOne, LenProperties DEF IInv, Types
<1>5. agenda' \in Seq(AgendaItem) /\ AckIsLast(agenda') /\ HasAck(agenda')
  BY <1>2, <1>3, ScriptEnds
<1>6. ~HasAck(agenda) BY <1>1 DEF HasAck
<1>7. Types' BY <1>1, <1>4, <1>5 DEF IInv, Types
<1>8. AckIsLast(agenda)' /\ BusyHead' BY <1>1, <1>5 DEF AckIsLast, BusyHead
<1>9. retains = (IF threadCall = None THEN 0 ELSE 1) + Len(callouts)
  BY <1>4, <1>6 DEF IInv, RetainedWhileCalled, HasAck, IsAck
<1>10. RetainedWhileCalled'
  <2>1. \E k \in DOMAIN agenda' : agenda'[k].do = "currentPowerState"
    BY <1>5 DEF HasAck, IsAck
  <2>2. retains' = (IF threadCall' = None THEN 0 ELSE 1) + Len(callouts') + 1
    <3> DEFINE pending == IF threadCall = None THEN 0 ELSE 1
    <3>1. pending \in Nat /\ pending = IF threadCall' = None THEN 0 ELSE 1 BY <1>1
    <3>2. retains' = pending + Len(callouts) BY <1>1, <1>9
    <3> HIDE DEF pending
    <3> QED BY <1>4, <3>1, <3>2
  <2> QED BY <2>1, <2>2 DEF RetainedWhileCalled
<1> QED BY <1>7, <1>8, <1>10 DEF IInv

(* The acknowledgement is the last item: with it the thread call is over    *)
(* and its reference gone.                                                  *)
LEMMA AcknowledgeIInv == ASSUME IInv, acknowledgeSetPowerState PROVE IInv'
<1>1. /\ agenda # <<>> /\ IsAck(Head(agenda)) /\ agenda' = Tail(agenda) /\ pc' = "ready"
      /\ retains' = retains - 1 /\ UNCHANGED <<calls, requestQueue, threadCall, callouts>>
  BY DEF acknowledgeSetPowerState, Step, Item, At, IsAck, queueVars
<1>2. /\ Len(agenda) \in Nat /\ Len(agenda) >= 1 /\ DOMAIN agenda = 1..Len(agenda)
      /\ Head(agenda) = agenda[1] /\ Tail(agenda) \in Seq(AgendaItem)
      /\ Len(Tail(agenda)) = Len(agenda) - 1
  BY <1>1, HeadTailProperties, LenProperties, EmptySeq DEF IInv, Types
<1>3. Len(agenda) = 1 BY <1>1, <1>2 DEF IInv, AckIsLast
<1>4. agenda' = <<>> BY <1>1, <1>2, <1>3, EmptySeq
<1>5. HasAck(agenda) BY <1>1, <1>2 DEF HasAck
<1>6. ~HasAck(agenda') /\ AckIsLast(agenda') BY <1>4 DEF HasAck, AckIsLast
<1>7. Types' BY <1>1, <1>2 DEF IInv, Types
<1>8. AckIsLast(agenda)' /\ BusyHead' BY <1>1, <1>6 DEF AckIsLast, BusyHead
<1>9. Len(callouts) \in Nat /\ retains = (IF threadCall = None THEN 0 ELSE 1) + Len(callouts) + 1
  BY <1>5, LenProperties DEF IInv, Types, RetainedWhileCalled, HasAck, IsAck
<1>10. RetainedWhileCalled' BY <1>1, <1>6, <1>9 DEF RetainedWhileCalled, HasAck, IsAck
<1> QED BY <1>7, <1>8, <1>10 DEF IInv

(* The other items of the scripts are taken off the agenda one by one. *)
LEMMA ScriptIInv ==
    ASSUME IInv,
           \/ countIgnore \/ setOffline \/ submitOnWorkLoop
           \/ processRequestOffline \/ resetController
    PROVE  IInv'
<1> USE DEF Step, Item, At, IsAck
<1>1. /\ agenda # <<>> /\ ~IsAck(Head(agenda)) /\ agenda' = Tail(agenda) /\ pc' = "ready"
      /\ UNCHANGED <<calls, powerVars>>
  BY DEF countIgnore, setOffline, submitOnWorkLoop, processRequestOffline, resetController,
         Complete
<1>2. requestQueue' \in Seq(Request)
  <2>1. CASE submitOnWorkLoop
    <3>1. Head(agenda) \in AgendaItem /\ Head(agenda).do = "submitRequest"
      BY <2>1, HeadTailProperties DEF IInv, Types, submitOnWorkLoop
    <3>2. Head(agenda).req \in Request BY <3>1 DEF AgendaItem, DriverCall
    <3> QED BY <2>1, <3>2 DEF submitOnWorkLoop, Enqueue, IInv, Types
  <2>2. CASE countIgnore \/ setOffline \/ processRequestOffline \/ resetController
    BY <2>2 DEF countIgnore, setOffline, processRequestOffline, resetController, Complete,
                queueVars, IInv, Types
  <2> QED BY <2>1, <2>2
<1> QED BY <1>1, <1>2, DropsHead

-----------------------------------------------------------------------------
(* Every step preserves the invariant. *)
LEMMA NextIInv == IInv /\ [PowerNext]_allVars => IInv'
<1> SUFFICES ASSUME IInv, [PowerNext]_allVars PROVE IInv' OBVIOUS
<1>1. CASE Next /\ UNCHANGED powerVars
  BY <1>1, OutsideIInv, DriversIInv, RequestIInv, PortIInv, SetCommandByteIInv
     DEF Next, WorkLoop
<1>2. ASSUME NEW state \in PowerState, setPowerState(state) PROVE IInv'
  BY <1>2, AskIInv
<1>3. CASE PowerWorkLoop
  BY <1>3, CalloutIInv, ActionIInv, AcknowledgeIInv, ScriptIInv DEF PowerWorkLoop
<1>4. CASE UNCHANGED allVars
  <2>1. UNCHANGED <<agenda, calls, pc, requestQueue, powerVars>>
    BY <1>4 DEF allVars, vars, loopVars, queueVars
  <2>2. requestQueue' \in Seq(Request) BY <2>1 DEF IInv, Types
  <2> QED BY <2>1, <2>2, KeepsAgenda
<1> QED BY <1>1, <1>2, <1>3, <1>4 DEF PowerNext

(* The controller is retained once for each thread call that is pending,    *)
(* waits for the gate or runs, whatever requests, data, failures and further changes of the    *)
(* power state come in between (setPowerState, setPowerStateCallout).       *)
THEOREM RetainedOncePerCall == PowerSpec => []RetainedWhileCalled
<1>1. IInv => RetainedWhileCalled BY DEF IInv
<1> QED BY <1>1, InitIInv, NextIInv, PTL DEF PowerSpec
=============================================================================
