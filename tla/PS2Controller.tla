---------------------------- MODULE PS2Controller ----------------------------
(***************************************************************************)
(* ApplePS2Controller at work: requests of the drivers executed on the     *)
(* work loop by polling the 8042, and an interrupt routine that reads the  *)
(* same one-byte output buffer.  A request reads the answers of its device *)
(* out of a stream in which the device also sends data of its own.         *)
(*                                                                         *)
(* The work loop executes an agenda: the local queue of                    *)
(* processRequestQueue followed by what the thread that holds the command  *)
(* gate still has to do.  A byte is a tuple: <<"data", n, value>> is the   *)
(* n-th byte a device sends of its own, <<value, request>> an answer with  *)
(* the request it answers, and <<"cmd", bits>> the command byte.           *)
(***************************************************************************)
EXTENDS DriverRequests, FiniteSets

CONSTANTS Request,     \* the requests the drivers submit
          Async,       \* those submitted with submitRequest
          Commands,    \* [Request -> sequences of commands]
          Calls,       \* the agendas the drivers' threads start
          SMP,         \* the interrupt routine runs beside the work loop
          DataValue,   \* [Stream -> values of the bytes a device sends of its own]
          MaxData,     \* [Stream -> bound on the number of these bytes]
          MaxLate,     \* bound: reads that time out though an answer comes
          MaxMute      \* bound: commands a device does not answer

ASSUME AsyncAssumption == Async \subseteq Request
ASSUME SMPAssumption == SMP \in BOOLEAN

Stream == {"keyboard", "mouse"}
Source == Stream \cup {"8042"}
StreamOf(source) == IF source = "8042" THEN "keyboard" ELSE source

IRQ == {"keyboardIRQ", "mouseIRQ"}
ClocksOff == {"keyboardClockOff", "mouseClockOff"}
Bit == IRQ \cup ClocksOff \cup {"translate"}
IRQBit(s) == IF s = "keyboard" THEN "keyboardIRQ" ELSE "mouseIRQ"
ClockOffBit(s) == IF s = "keyboard" THEN "keyboardClockOff" ELSE "mouseClockOff"

None == "none"
NoByte == <<None, None>>
FakeZero == <<"00", None>>  \* what a read that timed out returns

IsData(byte) == byte[1] = "data"
Value(byte) == IF IsData(byte) THEN byte[3] ELSE byte[1]

VARIABLES
    (* the 8042 and its devices *)
    commandByte,  \* the bits of the command byte that are set
    outBuf,       \* the output buffer: <<>>, or one [stream, byte]
    lastByte,     \* what the data port returns when the buffer is empty
    sending,      \* [Source -> bytes on their way to the output buffer]
    command,      \* [Stream -> <<effect, request>> written and not taken]
    answering,    \* [Stream -> bytes of its answer the device has not sent]
    sent,         \* [Stream -> number of bytes sent of its own]
    enabled,      \* [Stream -> the device reports events]
    irq,          \* [Stream -> an interrupt is pending]
    late, mute,   \* slow and missing answers so far
    broken,       \* what did not keep to the assumptions of readDataPort
    (* handleInterrupt *)
    isr, isrStatus, isrByte,
    (* the controller *)
    ignoreInterrupts, hardwareOffline, requestQueue, queueSignal,
    (* the work loop: processRequest and what it calls *)
    calls, agenda, pc, index, deviceMode, transmitToMouse, reading, got,
    (* what the drivers see *)
    submitted,    \* the requests given to submitRequest, in order
    drained,      \* how many of them the call in progress has to finish first
    outcome,      \* [Request -> "new", "ok" or "failed"]
    completions,  \* the requests in the order they were completed
    forged,       \* the requests that took a byte for an answer that is not theirs
    dispatched    \* [Stream -> bytes given to the driver's interruptOccurred]

deviceVars == <<sending, command, answering, sent, enabled, late, mute, broken>>
hardwareVars == <<commandByte, outBuf, lastByte, deviceVars, irq>>
isrVars == <<isr, isrStatus, isrByte>>
queueVars == <<requestQueue, queueSignal, submitted>>
localVars == <<index, deviceMode, transmitToMouse, reading, got>>
loopVars == <<calls, agenda, pc, localVars, drained>>
resultVars == <<outcome, completions, forged>>
vars == <<hardwareVars, isrVars, ignoreInterrupts, hardwareOffline, queueVars,
          loopVars, resultVars, dispatched>>

NotReading == [from |-> None, expect |-> None, first |-> NoByte, status |-> None]

Init ==
    /\ commandByte = IRQ \cup {"translate"}
    /\ outBuf = <<>> /\ lastByte = NoByte
    /\ sending = [s \in Source |-> <<>>]
    /\ command = [s \in Stream |-> NoByte]
    /\ answering = [s \in Stream |-> <<>>]
    /\ sent = [s \in Stream |-> 0]
    /\ enabled = [s \in Stream |-> TRUE]
    /\ irq = [s \in Stream |-> FALSE]
    /\ late = 0 /\ mute = 0 /\ broken = {}
    /\ isr = "idle" /\ isrStatus = None /\ isrByte = NoByte
    /\ ignoreInterrupts = 0 /\ hardwareOffline = FALSE
    /\ requestQueue = <<>> /\ queueSignal = FALSE
    /\ calls = Calls /\ agenda = <<>> /\ pc = "ready"
    /\ index = 1 /\ deviceMode = "keyboard" /\ transmitToMouse = FALSE
    /\ reading = NotReading /\ got = NoByte
    /\ submitted = <<>> /\ drained = 0
    /\ outcome = [r \in Request |-> "new"] /\ completions = <<>> /\ forged = {}
    /\ dispatched = [s \in Stream |-> <<>>]

-----------------------------------------------------------------------------
(* The 8042.  The interrupt line of a stream is high while the buffer holds *)
(* a byte of the stream and the stream's interrupt is enabled; a rising     *)
(* line makes an interrupt pending.                                         *)

Line(s, buffer, bits) ==
    buffer # <<>> /\ Head(buffer).stream = s /\ IRQBit(s) \in bits

RaiseLines ==
    irq' = [s \in Stream |-> irq[s] \/ (/\ Line(s, outBuf', commandByte')
                                        /\ ~Line(s, outBuf, commandByte))]

ClockOn(source) == source = "8042" \/ ClockOffBit(source) \notin commandByte

Deliver(source) ==
    /\ outBuf = <<>> /\ sending[source] # <<>> /\ ClockOn(source)
    /\ outBuf' = <<[stream |-> StreamOf(source), byte |-> Head(sending[source])]>>
    /\ sending' = [sending EXCEPT ![source] = Tail(@)]
    /\ UNCHANGED commandByte
    /\ RaiseLines
    /\ UNCHANGED <<lastByte, command, answering, sent, enabled, late, mute, broken,
                   isrVars, ignoreInterrupts, hardwareOffline, queueVars, loopVars,
                   resultVars, dispatched>>

(* One read of the data port *)
PortByte == IF outBuf = <<>> THEN lastByte ELSE Head(outBuf).byte

ReadPort == outBuf' = <<>> /\ lastByte' = PortByte

(* kInputBusy is clear: a device has taken the byte last written to it *)
InputFree == \A s \in Stream : command[s] = NoByte

-----------------------------------------------------------------------------
(* The assumptions of readDataPort about a device: it acknowledges what is  *)
(* written to it after at most one byte of its own that was under way (b),  *)
(* which is not the byte expected (a), and in time (c); and it sends none   *)
(* of its own before an answer that is read without being compared.         *)
(* `broken' has the streams on which they did not hold, and "overlap" if a  *)
(* poll began beside an interrupt routine that had passed its test.         *)

Held == reading.first # NoByte

(* The bytes of a stream that nobody has got yet, in their order *)
Unread(s) ==
    (IF Held /\ reading.from = s THEN <<reading.first>> ELSE <<>>)
    \o (IF outBuf # <<>> /\ Head(outBuf).stream = s THEN <<Head(outBuf).byte>> ELSE <<>>)
    \o sending[s]

Foreseen(bytes) == Len(bytes) <= 1 /\ \A i \in DOMAIN bytes : Value(bytes[i]) # "ack"

(* An answer of the stream is awaited that no comparison will tell apart *)
Unguarded(s) == answering[s] # <<>> \/ (s = "keyboard" /\ sending["8042"] # <<>>)

Unless(kept, what) == IF kept THEN {} ELSE {what}
Break(what) == broken' = broken \cup what

-----------------------------------------------------------------------------
(* The devices.  A device that reports events sends bytes of its own at any *)
(* time: before it takes a command, and between the bytes of an answer.     *)

DeviceData(s) ==
    /\ enabled[s] /\ ClockOn(s) /\ sent[s] < MaxData[s]
    /\ sent' = [sent EXCEPT ![s] = @ + 1]
    /\ \E v \in DataValue[s] :
           LET byte == <<"data", sent[s] + 1, v>>
           IN  /\ sending' = [sending EXCEPT ![s] = Append(@, byte)]
               /\ LET kept == /\ ~Unguarded(s)
                              /\ command[s] # NoByte => Foreseen(Append(Unread(s), byte))
                  IN  Break(Unless(kept, s))
    /\ UNCHANGED <<commandByte, outBuf, lastByte, command, answering, enabled, late, mute,
                   irq, isrVars, ignoreInterrupts, hardwareOffline, queueVars, loopVars,
                   resultVars, dispatched>>

TakeCommand(s) ==
    /\ command[s] # NoByte /\ answering[s] = <<>>
    /\ command' = [command EXCEPT ![s] = NoByte]
    /\ UNCHANGED <<commandByte, outBuf, lastByte, sent, late, irq, isrVars,
                   ignoreInterrupts, hardwareOffline, queueVars, loopVars,
                   resultVars, dispatched>>

DeviceAnswer(s) ==
    /\ TakeCommand(s)
    /\ LET effect == command[s][1]
           answer == Replies(effect)
       IN  /\ sending' = [sending EXCEPT ![s] = Append(@, <<Head(answer), command[s][2]>>)]
           /\ answering' = [answering EXCEPT ![s] =
                  [i \in DOMAIN Tail(answer) |-> <<Tail(answer)[i], command[s][2]>>]]
           /\ enabled' = [enabled EXCEPT ![s] =
                  CASE effect = "enable" -> TRUE
                    [] effect \in {"disable", "reset"} -> FALSE
                    [] OTHER -> @]
    /\ UNCHANGED <<mute, broken>>

(* The next byte of an answer of several *)
DeviceGoesOn(s) ==
    /\ answering[s] # <<>>
    /\ sending' = [sending EXCEPT ![s] = Append(@, Head(answering[s]))]
    /\ answering' = [answering EXCEPT ![s] = Tail(@)]
    /\ UNCHANGED <<commandByte, outBuf, lastByte, command, sent, enabled, late, mute,
                   broken, irq, isrVars, ignoreInterrupts, hardwareOffline, queueVars,
                   loopVars, resultVars, dispatched>>

DeviceMute(s) ==
    /\ TakeCommand(s)
    /\ mute < MaxMute /\ mute' = mute + 1
    /\ Break({s})
    /\ UNCHANGED <<sending, answering, enabled>>

-----------------------------------------------------------------------------
(* The interrupt routine.  Its loop runs with local interrupts off, so that *)
(* it is one context; on one processor it also keeps the work loop waiting. *)

Dispatch(s, byte) == dispatched' = [dispatched EXCEPT ![s] = Append(@, byte)]

(* Mutant: the handler does not look at _ignoreInterrupts *)
InterruptHandlerAlways(s) ==
    /\ irq[s] /\ isr = "idle"
    /\ irq' = [irq EXCEPT ![s] = FALSE]
    /\ isr' = "status"
    /\ UNCHANGED <<commandByte, outBuf, lastByte, deviceVars, isrStatus, isrByte,
                   ignoreInterrupts, hardwareOffline, queueVars, loopVars,
                   resultVars, dispatched>>

InterruptHandler(s) ==
    /\ irq[s] /\ isr = "idle"
    /\ irq' = [irq EXCEPT ![s] = FALSE]
    /\ isr' = IF ignoreInterrupts > 0 THEN "idle" ELSE "status"
    /\ UNCHANGED <<commandByte, outBuf, lastByte, deviceVars, isrStatus, isrByte,
                   ignoreInterrupts, hardwareOffline, queueVars, loopVars,
                   resultVars, dispatched>>

handleInterruptStatus ==
    /\ isr = "status"
    /\ isr' = IF outBuf = <<>> THEN "idle" ELSE "data"
    /\ isrStatus' = IF outBuf = <<>> THEN None ELSE Head(outBuf).stream
    /\ UNCHANGED <<hardwareVars, isrByte, ignoreInterrupts, hardwareOffline, queueVars,
                   loopVars, resultVars, dispatched>>

handleInterruptData ==
    /\ isr = "data"
    /\ ReadPort
    /\ isr' = "dispatch" /\ isrByte' = PortByte
    /\ UNCHANGED <<commandByte, deviceVars, irq, isrStatus, ignoreInterrupts,
                   hardwareOffline, queueVars, loopVars, resultVars, dispatched>>

handleInterruptDispatch ==
    /\ isr = "dispatch"
    /\ Dispatch(isrStatus, isrByte)
    /\ isr' = "status" /\ isrStatus' = None /\ isrByte' = NoByte
    /\ UNCHANGED <<hardwareVars, ignoreInterrupts, hardwareOffline, queueVars, loopVars,
                   resultVars>>

-----------------------------------------------------------------------------
(* The drivers' threads and the work loop *)

Runs == SMP \/ isr = "idle"
At(label) == pc = label /\ Runs
Idle == At("ready") /\ agenda = <<>>
Item(do) == At("ready") /\ agenda # <<>> /\ Head(agenda).do = do

ProcessRequest(r) == [do |-> "processRequest", req |-> r]
SubmitAndBlock(r) == [do |-> "submitRequestAndBlock", req |-> r]
SetCommandByte(set, clear) == [do |-> "setCommandByte", set |-> set, clear |-> clear]

(* A driver's thread passes the command gate *)
Call(a) ==
    /\ Idle /\ a \in calls
    /\ calls' = calls \ {a}
    /\ agenda' = a
    /\ UNCHANGED <<hardwareVars, isrVars, ignoreInterrupts, hardwareOffline,
                   queueVars, pc, localVars, drained, resultVars, dispatched>>

(* Mutant: the request is put at the head of the queue *)
EnqueueFirst(r) ==
    /\ requestQueue' = <<r>> \o requestQueue
    /\ submitted' = Append(submitted, r)
    /\ queueSignal' = TRUE

Enqueue(r) ==
    /\ requestQueue' = Append(requestQueue, r)
    /\ submitted' = Append(submitted, r)
    /\ queueSignal' = TRUE

submitRequest(r) ==
    /\ Runs /\ r \in Async /\ \A i \in DOMAIN submitted : submitted[i] # r
    /\ Enqueue(r)
    /\ UNCHANGED <<hardwareVars, isrVars, ignoreInterrupts, hardwareOffline,
                   loopVars, resultVars, dispatched>>

(* processRequestQueue moves the queue to the front of the agenda *)
LocalQueue == [i \in DOMAIN requestQueue |-> ProcessRequest(requestQueue[i])]

processRequestQueue ==
    /\ Idle /\ queueSignal
    /\ queueSignal' = FALSE
    /\ requestQueue' = <<>>
    /\ agenda' = LocalQueue
    /\ UNCHANGED <<hardwareVars, isrVars, ignoreInterrupts, hardwareOffline, submitted,
                   calls, pc, localVars, drained, resultVars, dispatched>>

submitRequestAndBlockGated ==
    /\ Item("submitRequestAndBlock")
    /\ requestQueue' = <<>>
    /\ agenda' = LocalQueue \o <<ProcessRequest(Head(agenda).req)>> \o Tail(agenda)
    /\ drained' = Len(submitted)
    /\ UNCHANGED <<hardwareVars, isrVars, ignoreInterrupts, hardwareOffline,
                   queueSignal, submitted, calls, pc, localVars, resultVars,
                   dispatched>>

(* The end of processRequest: the request counts the commands that were     *)
(* executed, and its locals are gone.                                       *)
Complete(result) ==
    /\ outcome' = [outcome EXCEPT ![Head(agenda).req] = result]
    /\ completions' = Append(completions, Head(agenda).req)
    /\ agenda' = Tail(agenda)
    /\ pc' = "ready"
    /\ index' = 1 /\ deviceMode' = "keyboard" /\ transmitToMouse' = FALSE
    /\ UNCHANGED <<hardwareVars, isrVars, hardwareOffline, queueVars, calls, reading,
                   got, drained, forged, dispatched>>

(* The hardware goes offline, and requests are refused, in PowerManagement *)

processRequestBegin ==
    /\ Item("processRequest") /\ ~hardwareOffline
    /\ ignoreInterrupts' = ignoreInterrupts + 1
    /\ Break(Unless(isr = "idle", "overlap"))
    /\ forged' = forged \ {Head(agenda).req}
    /\ pc' = "command"
    /\ UNCHANGED <<commandByte, outBuf, lastByte, sending, command, answering, sent,
                   enabled, late, mute, irq, isrVars, hardwareOffline, queueVars, calls,
                   agenda, localVars, drained, outcome, completions, dispatched>>

Program == Commands[Head(agenda).req]

processRequestEnd ==
    /\ \/ At("command") /\ index > Len(Program) /\ Complete("ok")
       \/ At("failed") /\ Complete("failed")
    /\ ignoreInterrupts' = ignoreInterrupts - 1

-----------------------------------------------------------------------------
(* The commands of a request *)

AtCommand(code) ==
    At("command") /\ index <= Len(Program) /\ Program[index].command = code

controlVars == <<isrVars, hardwareOffline, queueVars, calls, agenda, drained>>

(* A byte reaches a device when the device takes it *)
WriteToDevice(s) ==
    /\ InputFree
    /\ command' = [command EXCEPT ![s] = <<Program[index].effect, Head(agenda).req>>]
    /\ Break(Unless(Foreseen(Unread(s)), s))
    /\ UNCHANGED <<commandByte, outBuf, lastByte, sending, answering, sent, enabled, late,
                   mute, irq>>

StartReading(stream, expect) ==
    /\ reading' = [NotReading EXCEPT !.from = stream, !.expect = expect]
    /\ pc' = "poll"

NextCommand == index' = index + 1 /\ pc' = "command"

CommandWriteDataPort ==
    /\ AtCommand("WriteDataPort")
    /\ deviceMode' = IF transmitToMouse THEN "mouse" ELSE "keyboard"
    /\ WriteToDevice(deviceMode')
    /\ transmitToMouse' = FALSE
    /\ NextCommand
    /\ UNCHANGED <<controlVars, ignoreInterrupts, reading, got, resultVars, dispatched>>

CommandWriteCommandPort ==
    /\ AtCommand("WriteCommandPort")
    /\ InputFree
    /\ transmitToMouse' = TRUE
    /\ NextCommand
    /\ UNCHANGED <<hardwareVars, controlVars, ignoreInterrupts, deviceMode, reading, got,
                   resultVars, dispatched>>

CommandSendMouse ==
    /\ AtCommand("SendMouseCommandAndCompareAck")
    /\ WriteToDevice("mouse")
    /\ deviceMode' = "mouse"
    /\ StartReading("mouse", "ack")
    /\ UNCHANGED <<controlVars, ignoreInterrupts, index, transmitToMouse, got, resultVars,
                   dispatched>>

CommandRead ==
    /\ \/ AtCommand("ReadDataPort") /\ deviceMode' = deviceMode
       \/ AtCommand("ReadDataPortAndCompare") /\ deviceMode' = deviceMode
       \/ AtCommand("ReadMouseDataPort") /\ deviceMode' = "mouse"
       \/ AtCommand("ReadMouseDataPortAndCompare") /\ deviceMode' = "mouse"
    /\ StartReading(deviceMode',
           IF "expect" \in DOMAIN Program[index] THEN Program[index].expect ELSE None)
    /\ UNCHANGED <<hardwareVars, controlVars, ignoreInterrupts, index, transmitToMouse, got,
                   resultVars, dispatched>>

CommandFlush ==
    /\ AtCommand("FlushDataPort")
    /\ IF outBuf = <<>>
       THEN NextCommand /\ UNCHANGED <<outBuf, lastByte>>
       ELSE ReadPort /\ UNCHANGED <<pc, index>>
    /\ UNCHANGED <<commandByte, deviceVars, irq, controlVars, ignoreInterrupts, deviceMode,
                   transmitToMouse, reading, got, resultVars, dispatched>>

CommandSleepMS ==
    /\ AtCommand("SleepMS")
    /\ NextCommand
    /\ UNCHANGED <<hardwareVars, controlVars, ignoreInterrupts, deviceMode, transmitToMouse,
                   reading, got, resultVars, dispatched>>

-----------------------------------------------------------------------------
(* The command byte: read from the 8042, which answers on the keyboard      *)
(* stream, and written back changed.  A request has the command             *)
(* ModifyCommandByte; setCommandByte is a call of its own, which lets       *)
(* interrupts in before it writes, and writes only a changed byte.          *)

ModifyingInRequest ==
    /\ agenda # <<>> /\ Head(agenda).do = "processRequest"
    /\ Program[index].command = "ModifyCommandByte"

GetCommandByte ==
    /\ InputFree
    /\ sending' = [sending EXCEPT !["8042"] = Append(@, <<"cmd", commandByte>>)]
    /\ UNCHANGED <<commandByte, outBuf, lastByte, command, answering, sent, enabled, late,
                   mute, irq>>

(* The answer of the 8042 is the next byte of the keyboard stream *)
AnswersNext == Unless(Unread("keyboard") = <<>>, "keyboard")

CommandModify ==
    /\ AtCommand("ModifyCommandByte")
    /\ GetCommandByte
    /\ Break(AnswersNext)
    /\ StartReading("keyboard", None)
    /\ UNCHANGED <<controlVars, ignoreInterrupts, index, deviceMode, transmitToMouse, got,
                   resultVars, dispatched>>

setCommandByteBegin ==
    /\ Item("setCommandByte")
    /\ ignoreInterrupts' = ignoreInterrupts + 1
    /\ GetCommandByte
    /\ Break(AnswersNext \cup Unless(isr = "idle", "overlap"))
    /\ StartReading("keyboard", None)
    /\ UNCHANGED <<controlVars, index, deviceMode, transmitToMouse, got, resultVars,
                   dispatched>>

(* The bits a byte stands for when it is taken for the command byte.  The   *)
(* acknowledge $FA has them all but the keyboard's interrupt; what a device *)
(* sends of its own may be any byte.                                        *)
BitsOf(byte) ==
    CASE byte[1] = "cmd" -> {byte[2]}
      [] Value(byte) = "00" -> {{}}
      [] Value(byte) = "ack" -> {Bit \ {"keyboardIRQ"}}
      [] OTHER -> SUBSET Bit

WriteCommandByte(bits) ==
    /\ InputFree
    /\ commandByte' = bits
    /\ UNCHANGED <<outBuf, lastByte, deviceVars>>
    /\ RaiseLines

CommandModifyWrite ==
    /\ At("modify") /\ ModifyingInRequest
    /\ \E old \in BitsOf(got) :
           WriteCommandByte((old \cup Program[index].set) \ Program[index].clear)
    /\ got' = NoByte
    /\ NextCommand
    /\ UNCHANGED <<controlVars, ignoreInterrupts, deviceMode, transmitToMouse, reading,
                   resultVars, dispatched>>

setCommandByteUnignore ==
    /\ At("modify") /\ ~ModifyingInRequest
    /\ ignoreInterrupts' = ignoreInterrupts - 1
    /\ pc' = "write"
    /\ UNCHANGED <<hardwareVars, controlVars, localVars, resultVars, dispatched>>

setCommandByteWrite ==
    /\ At("write")
    /\ \E old \in BitsOf(got) :
           LET new == (old \cup Head(agenda).set) \ Head(agenda).clear
           IN  IF new # old THEN WriteCommandByte(new) ELSE UNCHANGED hardwareVars
    /\ got' = NoByte
    /\ agenda' = Tail(agenda)
    /\ pc' = "ready"
    /\ UNCHANGED <<isrVars, ignoreInterrupts, hardwareOffline, queueVars, calls, drained,
                   index, deviceMode, transmitToMouse, reading, resultVars, dispatched>>

-----------------------------------------------------------------------------
(* readDataPort, with and without an expected byte *)

Poll ==
    /\ At("poll") /\ outBuf # <<>>
    /\ reading' = [reading EXCEPT !.status = Head(outBuf).stream]
    /\ pc' = "data"
    /\ UNCHANGED <<hardwareVars, controlVars, ignoreInterrupts, index, deviceMode,
                   transmitToMouse, got, resultVars, dispatched>>

Expecting == reading.expect # None

(* Mutant: any byte is taken for the one expected *)
MatchesAny(byte) == Expecting

Matches(byte) == Expecting /\ Value(byte) = reading.expect

(* readDataPort returns the byte to the command that asked for it *)
Return(byte) ==
    LET modify == Head(agenda).do = "setCommandByte" \/ ModifyingInRequest
        failed == Expecting /\ ~Matches(byte)
    IN  /\ pc' = CASE modify -> "modify" [] failed -> "failed" [] OTHER -> "command"
        /\ index' = IF modify \/ failed THEN index ELSE index + 1
        /\ got' = IF modify THEN byte ELSE NoByte
        /\ forged' = IF ~modify /\ ~failed /\ byte[2] # Head(agenda).req
                     THEN forged \cup {Head(agenda).req} ELSE forged
        /\ reading' = NotReading

KeepReading(first) ==
    /\ reading' = [reading EXCEPT !.first = first, !.status = None]
    /\ pc' = "poll"
    /\ UNCHANGED <<index, got, forged>>

AtData(mine) ==
    /\ At("data") /\ ReadPort
    /\ (reading.status = reading.from) = mine
    /\ UNCHANGED <<commandByte, deviceVars, irq, controlVars, ignoreInterrupts, deviceMode,
                   transmitToMouse, outcome, completions>>

(* Mutant: data of the other stream is dropped *)
DropOtherStream ==
    /\ AtData(FALSE)
    /\ UNCHANGED dispatched
    /\ KeepReading(reading.first)

ReadOtherStream ==
    /\ AtData(FALSE)
    /\ Dispatch(reading.status, PortByte)
    /\ KeepReading(reading.first)

ReadAnswer ==
    /\ AtData(TRUE) /\ (~Expecting \/ Matches(PortByte))
    /\ IF Held THEN Dispatch(reading.from, reading.first) ELSE UNCHANGED dispatched
    /\ Return(PortByte)

(* Mutant: no second chance for a byte that does not match *)
ReturnFirstByte ==
    /\ AtData(TRUE) /\ Expecting /\ ~Matches(PortByte) /\ ~Held
    /\ Dispatch(reading.from, PortByte)
    /\ Return(PortByte)

(* Mutant: the byte is dispatched when it is held, and again later *)
HoldAndDispatch ==
    /\ AtData(TRUE) /\ Expecting /\ ~Matches(PortByte) /\ ~Held
    /\ KeepReading(PortByte)
    /\ Dispatch(reading.from, PortByte)

HoldFirstByte ==
    /\ AtData(TRUE) /\ Expecting /\ ~Matches(PortByte) /\ ~Held
    /\ KeepReading(PortByte)
    /\ UNCHANGED dispatched

SecondMismatch ==
    /\ AtData(TRUE) /\ Expecting /\ ~Matches(PortByte) /\ Held
    /\ Dispatch(reading.from, PortByte)
    /\ Return(reading.first)

NothingComes ==
    /\ InputFree
    /\ \A source \in Source : ClockOn(source) => sending[source] = <<>>
    /\ \A s \in Stream : answering[s] = <<>>

(* Mutant: the read waits without a limit *)
ReadForever == FALSE /\ UNCHANGED vars

ReadTimeout ==
    /\ At("poll") /\ outBuf = <<>>
    /\ \/ NothingComes /\ late' = late
       \/ ~NothingComes /\ late < MaxLate /\ late' = late + 1
    /\ Break(Unless(NothingComes, reading.from))
    /\ Return(IF Held THEN reading.first ELSE FakeZero)
    /\ UNCHANGED <<commandByte, outBuf, lastByte, sending, command, answering, sent, enabled,
                   mute, irq, controlVars, ignoreInterrupts, deviceMode, transmitToMouse,
                   outcome, completions, dispatched>>

-----------------------------------------------------------------------------
Hardware ==
    \/ \E source \in Source : Deliver(source)
    \/ \E s \in Stream : DeviceData(s) \/ DeviceAnswer(s) \/ DeviceGoesOn(s) \/ DeviceMute(s)

Interrupt ==
    \/ \E s \in Stream : InterruptHandler(s)
    \/ handleInterruptStatus
    \/ handleInterruptData
    \/ handleInterruptDispatch

ExecuteCommand ==
    \/ CommandWriteDataPort \/ CommandWriteCommandPort \/ CommandSendMouse
    \/ CommandRead \/ CommandFlush \/ CommandSleepMS
    \/ CommandModify \/ CommandModifyWrite

readDataPort ==
    Poll \/ ReadOtherStream \/ ReadAnswer \/ HoldFirstByte \/ SecondMismatch \/ ReadTimeout

setCommandByteGated ==
    setCommandByteBegin \/ setCommandByteUnignore \/ setCommandByteWrite

WorkLoop ==
    \/ processRequestQueue \/ submitRequestAndBlockGated
    \/ processRequestBegin \/ processRequestEnd
    \/ ExecuteCommand \/ readDataPort \/ setCommandByteGated

Drivers ==
    \/ \E a \in calls : Call(a)
    \/ \E r \in Async : submitRequest(r)

Next == Hardware \/ Interrupt \/ WorkLoop \/ Drivers

Spec == Init /\ [][Next]_vars

(* The 8042 delivers what is sent to it, a device takes what is written to  *)
(* it, interrupts are served and the work loop runs.                        *)
Fairness ==
    /\ \A source \in Source : WF_vars(Deliver(source))
    /\ \A s \in Stream : WF_vars(DeviceAnswer(s) \/ DeviceMute(s)) /\ WF_vars(DeviceGoesOn(s))
    /\ WF_vars(Interrupt)
    /\ WF_vars(WorkLoop)

FairSpec == Spec /\ Fairness

-----------------------------------------------------------------------------
(* Properties *)

(* Where the assumptions that readDataPort and the header state hold for a  *)
(* stream, and no poll overlapped the interrupt routine.                    *)
Reliable(s) == broken \cap {s, "overlap"} = {}

(* A driver's interruptOccurred gets the bytes its reliable device sent of  *)
(* its own, each once and in order, and no answer to a request: polling for *)
(* answers in processRequest neither loses nor reorders them, even the byte *)
(* that readDataPort set aside and those of the other device.               *)
Own(s) == Len(SelectSeq(Unread(s), IsData))
          + (IF isr = "dispatch" /\ isrStatus = s THEN 1 ELSE 0)

StreamsIntact ==
    \A s \in Stream : Reliable(s) =>
        /\ \A i \in DOMAIN dispatched[s] :
               IsData(dispatched[s][i]) /\ dispatched[s][i][2] = i
        /\ sent[s] = Len(dispatched[s]) + Own(s)

MouseCommand == {"WriteCommandPort", "SendMouseCommandAndCompareAck", "ReadMouseDataPort",
                 "ReadMouseDataPortAndCompare"}

(* The stream whose answers a request reads *)
Asks(r) ==
    IF \E i \in DOMAIN Commands[r] : Commands[r][i].command \in MouseCommand
    THEN "mouse" ELSE "keyboard"

(* No request to a reliable device fails, whatever the other device does:   *)
(* the correction for data out of order in readDataPort finds every answer. *)
NoRequestFails == \A r \in Request : Reliable(Asks(r)) => outcome[r] # "failed"

(* A request to a reliable device that processRequest reports as successful *)
(* got its own answers, the compared ones and the others: no read returned  *)
(* a byte of the device's own, an answer to an earlier request or the fake  *)
(* value of a timeout.                                                      *)
NoFalseSuccess ==
    \A r \in Request : Reliable(Asks(r)) /\ outcome[r] = "ok" => r \notin forged

(* Requests are completed once, those that submitRequest queued in the      *)
(* order they were queued, and one given to submitRequestAndBlock after all *)
(* those that were in the queue when it was submitted.                      *)
Completed(r) == \E i \in DOMAIN completions : completions[i] = r

CompletedBefore(r, s) ==
    \E i, j \in DOMAIN completions : i < j /\ completions[i] = r /\ completions[j] = s

CompletedInOrder ==
    /\ [](/\ \A i, j \in DOMAIN completions : completions[i] = completions[j] => i = j
          /\ \A i, j \in DOMAIN submitted :
                 i < j /\ Completed(submitted[j]) => CompletedBefore(submitted[i], submitted[j]))
    /\ [][\A r \in Request \ Async :
             ~Completed(r) /\ Completed(r)' => \A i \in 1..drained : Completed(submitted[i])]_vars

(* The interrupt routine reads the data port beside processRequest or       *)
(* setCommandByteGated only if it had passed its test of _ignoreInterrupts  *)
(* when they counted it up; it never starts beside a poll, and no path out  *)
(* of a poll leaves the next one open to it.                                *)
Polling == {"command", "poll", "data", "modify", "failed"}

PollingAlone == isr # "idle" /\ pc \in Polling => "overlap" \in broken

(* Interrupts are ignored exactly while the work loop polls: the counter is *)
(* balanced on every path out of processRequest and setCommandByteGated.    *)
IgnoredWhilePolling ==
    ignoreInterrupts = IF pc \in Polling THEN 1 ELSE 0

(* Whatever the devices and the timeouts do, the bytes a device sent of its *)
(* own reach the driver in order and none of them twice, unless a poll and  *)
(* the interrupt routine overlapped: then each may read what the other was  *)
(* told of.                                                                 *)
DataInOrder ==
    "overlap" \notin broken =>
        \A s \in Stream : \A i, j \in DOMAIN dispatched[s] :
            i < j /\ IsData(dispatched[s][i]) /\ IsData(dispatched[s][j])
            => dispatched[s][i][2] < dispatched[s][j][2]

(* Every request the drivers submit is completed, whatever the devices do.  *)
EveryRequestCompletes ==
    /\ \A r \in Async : (\E i \in DOMAIN submitted : submitted[i] = r) ~> Completed(r)
    /\ (agenda # <<>>) ~> Idle
=============================================================================
