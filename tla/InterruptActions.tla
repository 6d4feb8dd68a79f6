--------------------------- MODULE InterruptActions ---------------------------
(***************************************************************************)
(* Installing and uninstalling the drivers' interrupt actions, against the *)
(* contexts that call them: the interrupt routine of either device, which  *)
(* reads the bytes of both, the work loop that runs packetReady, and a     *)
(* request of the other driver that polls (readDataPort).  The thread that *)
(* installs and uninstalls holds no lock.                                  *)
(***************************************************************************)
EXTENDS Naturals

CONSTANTS SMP,       \* the interrupt routine runs beside the threads
          MaxStarts  \* bound: times a driver is started

Device == {"keyboard", "mouse"}
None == "none"

VARIABLES
    client,        \* [Device -> where start or stop of its driver is]
    starts,        \* [Device -> number of starts]
    interruptInstalled, interruptAction, packetAction, target,
    eventSource,   \* [Device -> its event source is on the work loop]
    enabledIRQ,    \* [Device -> its bit in the command byte]
    registered,    \* [Device -> its interrupt handler is registered]
    irq,           \* [Device -> its interrupt is pending]
    outBuf,        \* the device whose byte is in the output buffer, or None
    vector, isr, isrByte,      \* handleInterrupt
    signal, packet,            \* packetReadyKeyboard/Mouse
    poll,                      \* dispatchDriverInterrupt from readDataPort
    fault          \* the contexts that called an action that was gone

clientVars == <<client, starts>>
actionVars == <<interruptInstalled, interruptAction, packetAction, target, eventSource>>
lineVars == <<enabledIRQ, registered>>
portVars == <<irq, outBuf>>
isrVars == <<vector, isr, isrByte>>
loopVars == <<signal, packet, poll>>
vars == <<clientVars, actionVars, lineVars, portVars, isrVars, loopVars, fault>>

All(value) == [d \in Device |-> value]

Init ==
    /\ client = All("stopped") /\ starts = All(0)
    /\ interruptInstalled = All(FALSE) /\ interruptAction = All(FALSE)
    /\ packetAction = All(FALSE) /\ target = All(FALSE) /\ eventSource = All(FALSE)
    /\ enabledIRQ = All(FALSE) /\ registered = All(FALSE)
    /\ irq = All(FALSE) /\ outBuf = None
    /\ vector = None /\ isr = "idle" /\ isrByte = None
    /\ signal = All(FALSE) /\ packet = None /\ poll = None
    /\ fault = {}

Runs == SMP \/ isr = "idle"

Go(d, from, to) ==
    /\ Runs /\ client[d] = from
    /\ client' = [client EXCEPT ![d] = to]
    /\ UNCHANGED <<portVars, isrVars, loopVars, fault>>

Put(f, d, value) == [f EXCEPT ![d] = value]

-----------------------------------------------------------------------------
(* installInterruptAction *)

InstallTarget(d) ==
    /\ Go(d, "stopped", "target") /\ starts[d] < MaxStarts
    /\ starts' = [starts EXCEPT ![d] = @ + 1]
    /\ target' = Put(target, d, TRUE)
    /\ interruptAction' = Put(interruptAction, d, TRUE)
    /\ packetAction' = Put(packetAction, d, TRUE)
    /\ eventSource' = Put(eventSource, d, TRUE)
    /\ UNCHANGED <<interruptInstalled, lineVars>>

InstallIRQ(d) ==
    /\ Go(d, "target", "irq")
    /\ enabledIRQ' = Put(enabledIRQ, d, TRUE)
    /\ UNCHANGED <<starts, actionVars, registered>>

InstallHandler(d) ==
    /\ Go(d, "irq", "handler")
    /\ registered' = Put(registered, d, TRUE)
    /\ UNCHANGED <<starts, actionVars, enabledIRQ>>

InstallFlag(d) ==
    /\ Go(d, "handler", "started")
    /\ interruptInstalled' = Put(interruptInstalled, d, TRUE)
    /\ UNCHANGED <<starts, interruptAction, packetAction, target, eventSource, lineVars>>

-----------------------------------------------------------------------------
(* uninstallInterruptAction.  disableInterrupt waits for the handler of     *)
(* this interrupt to return; removeEventSource enters the work loop's gate. *)

UninstallIRQ(d) ==
    /\ Go(d, "started", "silent")
    /\ enabledIRQ' = Put(enabledIRQ, d, FALSE)
    /\ UNCHANGED <<starts, actionVars, registered>>

UninstallHandler(d) ==
    /\ Go(d, "silent", "unregistered") /\ vector # d
    /\ registered' = Put(registered, d, FALSE)
    /\ UNCHANGED <<starts, actionVars, enabledIRQ>>

RemoveEventSource(d) ==
    /\ Go(d, "unregistered", "removed") /\ packet = None /\ poll = None
    /\ eventSource' = Put(eventSource, d, FALSE)
    /\ UNCHANGED <<starts, interruptInstalled, interruptAction, packetAction, target,
                   lineVars>>

UninstallFlag(d) ==
    /\ Go(d, "removed", "flag")
    /\ interruptInstalled' = Put(interruptInstalled, d, FALSE)
    /\ UNCHANGED <<starts, interruptAction, packetAction, target, eventSource, lineVars>>

UninstallAction(d) ==
    /\ Go(d, "flag", "action")
    /\ interruptAction' = Put(interruptAction, d, FALSE)
    /\ packetAction' = Put(packetAction, d, FALSE)
    /\ UNCHANGED <<starts, interruptInstalled, target, eventSource, lineVars>>

UninstallTarget(d) ==
    /\ Go(d, "action", "stopped")
    /\ target' = Put(target, d, FALSE)
    /\ UNCHANGED <<starts, interruptInstalled, interruptAction, packetAction, eventSource,
                   lineVars>>

-----------------------------------------------------------------------------
(* A byte arrives, whether or not anyone waits for it *)
DeviceByte(d) ==
    /\ outBuf = None
    /\ outBuf' = d
    /\ irq' = [irq EXCEPT ![d] = @ \/ enabledIRQ[d]]
    /\ UNCHANGED <<clientVars, actionVars, lineVars, isrVars, loopVars, fault>>

InterruptHandler(d) ==
    /\ irq[d] /\ registered[d] /\ isr = "idle"
    /\ irq' = [irq EXCEPT ![d] = FALSE]
    /\ vector' = d /\ isr' = "status"
    /\ UNCHANGED <<clientVars, actionVars, lineVars, outBuf, isrByte, loopVars, fault>>

handleInterruptRead ==
    /\ isr = "status" /\ outBuf # None
    /\ outBuf' = None
    /\ isrByte' = outBuf
    /\ isr' = IF interruptInstalled[outBuf] THEN "call" ELSE "status"
    /\ UNCHANGED <<clientVars, actionVars, lineVars, irq, vector, loopVars, fault>>

Callable(d) == interruptAction[d] /\ target[d]

Faults(context, sound) == IF sound THEN fault ELSE fault \cup {context}

(* A routine calls the action of its own device, or of the other one whose  *)
(* byte it found.                                                           *)
handleInterruptCall ==
    /\ isr = "call"
    /\ fault' = Faults(IF isrByte = vector THEN "own" ELSE "other", Callable(isrByte))
    /\ signal' = [signal EXCEPT ![isrByte] = TRUE]
    /\ isr' = "status"
    /\ isrByte' = None
    /\ UNCHANGED <<clientVars, actionVars, lineVars, portVars, vector, packet, poll>>

handleInterruptReturn ==
    /\ isr = "status" /\ outBuf = None
    /\ isr' = "idle" /\ vector' = None /\ isrByte' = None
    /\ UNCHANGED <<clientVars, actionVars, lineVars, portVars, loopVars, fault>>

-----------------------------------------------------------------------------
(* The work loop: packetReady of a signalled event source *)

packetReady(d) ==
    /\ Runs /\ packet = None /\ poll = None
    /\ signal[d] /\ eventSource[d]
    /\ signal' = [signal EXCEPT ![d] = FALSE]
    /\ packet' = IF interruptInstalled[d] THEN d ELSE None
    /\ UNCHANGED <<clientVars, actionVars, lineVars, portVars, isrVars, poll, fault>>

packetReadyCall ==
    /\ Runs /\ packet # None
    /\ fault' = Faults("packet", packetAction[packet] /\ target[packet])
    /\ packet' = None
    /\ UNCHANGED <<clientVars, actionVars, lineVars, portVars, isrVars, signal, poll>>

(* readDataPort, in a request of the other driver, which may be probing     *)
(* before it is started, finds a byte of device d.                          *)
readDataPort(d) ==
    /\ Runs /\ packet = None /\ poll = None
    /\ outBuf = d
    /\ outBuf' = None
    /\ poll' = IF interruptInstalled[d] THEN d ELSE None
    /\ UNCHANGED <<clientVars, actionVars, lineVars, irq, isrVars, signal, packet, fault>>

dispatchDriverInterrupt ==
    /\ Runs /\ poll # None
    /\ fault' = Faults("poll", Callable(poll))
    /\ signal' = [signal EXCEPT ![poll] = TRUE]
    /\ poll' = None
    /\ UNCHANGED <<clientVars, actionVars, lineVars, portVars, isrVars, packet>>

-----------------------------------------------------------------------------
Install(d) == InstallTarget(d) \/ InstallIRQ(d) \/ InstallHandler(d) \/ InstallFlag(d)

Uninstall(d) ==
    \/ UninstallIRQ(d) \/ UninstallHandler(d) \/ RemoveEventSource(d)
    \/ UninstallFlag(d) \/ UninstallAction(d) \/ UninstallTarget(d)

Interrupt ==
    \/ \E d \in Device : InterruptHandler(d)
    \/ handleInterruptRead \/ handleInterruptCall \/ handleInterruptReturn

WorkLoop ==
    \/ \E d \in Device : packetReady(d) \/ readDataPort(d)
    \/ packetReadyCall \/ dispatchDriverInterrupt

Next ==
    \/ \E d \in Device : Install(d) \/ Uninstall(d) \/ DeviceByte(d)
    \/ Interrupt \/ WorkLoop

Spec == Init /\ [][Next]_vars

-----------------------------------------------------------------------------
(* No context calls an action that uninstallInterruptAction has cleared, or *)
(* with a target it has released: "assumes only one possible mouse and only *)
(* one possible keyboard client (ie. callers), and assumes two distinct     *)
(* interrupt handlers for each, hence needs no protection against races".   *)
NoDeadCall == fault = {}

(* What the order in which it disables the interrupt, removes the event     *)
(* source and clears the pointers is enough for: packetReady and, for a     *)
(* byte of its own device, the interrupt routine call no action that is     *)
(* gone; on one processor no interrupt routine does.                        *)
OwnCallsLive == fault \cap {"own", "packet"} = {} /\ (~SMP => "other" \notin fault)
=============================================================================
