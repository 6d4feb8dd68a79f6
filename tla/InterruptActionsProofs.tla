----------------------- MODULE InterruptActionsProofs -----------------------
(***************************************************************************)
(* Proofs about InterruptActions.  The invariant ties what the contexts    *)
(* rely on, the registered handler, the installed flag and the event       *)
(* source, to how far start or stop of the driver has come.  A packet      *)
(* under way keeps its driver from passing RemoveEventSource; an interrupt *)
(* routine keeps its own driver from passing UninstallHandler, and if      *)
(* there is one processor it keeps both drivers from moving at all.        *)
(***************************************************************************)
EXTENDS InterruptActions, TLAPS

Handled == {"handler", "started", "silent"}
Served == {"started", "silent", "unregistered"}
Sourced == Served \cup {"target", "irq", "handler"}
Pointed == Sourced \cup {"removed", "flag"}
Stage == Pointed \cup {"action", "stopped"}

Types ==
    /\ client \in [Device -> Stage]
    /\ starts \in [Device -> Nat]
    /\ interruptInstalled \in [Device -> BOOLEAN]
    /\ interruptAction \in [Device -> BOOLEAN]
    /\ packetAction \in [Device -> BOOLEAN]
    /\ target \in [Device -> BOOLEAN]
    /\ eventSource \in [Device -> BOOLEAN]
    /\ registered \in [Device -> BOOLEAN]
    /\ vector \in Device \cup {None}
    /\ outBuf \in Device \cup {None}
    /\ isrByte \in Device \cup {None}
    /\ packet \in Device \cup {None}

StageInv ==
    \A d \in Device :
        /\ client[d] \in Pointed => interruptAction[d] /\ packetAction[d] /\ target[d]
        /\ interruptInstalled[d] => client[d] \in Served \cup {"removed"}
        /\ eventSource[d] => client[d] \in Sourced
        /\ registered[d] => client[d] \in Handled

VectorInv == vector # None => registered[vector]

IsrInv ==
    /\ isr = "call" => isrByte # None
    /\ ~SMP /\ isr = "call" => client[isrByte] \in Pointed

PacketInv == packet # None => client[packet] \in Served

IInv == Types /\ StageInv /\ VectorInv /\ IsrInv /\ PacketInv /\ OwnCallsLive

(* None is not a device *)
LEMMA NoneIsNoDevice == None \notin Device
BY DEF None, Device

(* The invariant holds before any driver is started *)
LEMMA InitIInv == Init => IInv
BY NoneIsNoDevice DEF Init, IInv, Types, StageInv, VectorInv, IsrInv, PacketInv, OwnCallsLive,
   All, Pointed, Sourced, Served, Handled, Stage

(* The steps of installInterruptAction preserve the invariant *)
LEMMA InstallIInv == ASSUME IInv, NEW d \in Device, Install(d) PROVE IInv'
<1> USE NoneIsNoDevice DEF IInv, Types, StageInv, VectorInv, IsrInv, PacketInv, OwnCallsLive,
        Go, Runs, Put, portVars, isrVars, loopVars, lineVars, actionVars, Pointed, Sourced,
        Served, Handled, Stage
<1>1. CASE InstallTarget(d) BY <1>1 DEF InstallTarget
<1>2. CASE InstallIRQ(d) BY <1>2 DEF InstallIRQ
<1>3. CASE InstallHandler(d) BY <1>3 DEF InstallHandler
<1>4. CASE InstallFlag(d) BY <1>4 DEF InstallFlag
<1> QED BY <1>1, <1>2, <1>3, <1>4 DEF Install

(* The steps of uninstallInterruptAction preserve it: those that leave      *)
(* Served wait for the packet under way, and all wait for the interrupt     *)
(* routine on one processor.                                                *)
LEMMA UninstallIInv == ASSUME IInv, NEW d \in Device, Uninstall(d) PROVE IInv'
<1> USE NoneIsNoDevice DEF IInv, Types, StageInv, VectorInv, IsrInv, PacketInv, OwnCallsLive,
        Go, Runs, Put, portVars, isrVars, loopVars, lineVars, actionVars, Pointed, Sourced,
        Served, Handled, Stage
<1>1. CASE UninstallIRQ(d) BY <1>1 DEF UninstallIRQ
<1>2. CASE UninstallHandler(d) BY <1>2 DEF UninstallHandler
<1>3. CASE RemoveEventSource(d) BY <1>3 DEF RemoveEventSource
<1>4. CASE UninstallFlag(d) BY <1>4 DEF UninstallFlag
<1>5. CASE UninstallAction(d) BY <1>5 DEF UninstallAction
<1>6. CASE UninstallTarget(d) BY <1>6 DEF UninstallTarget
<1> QED BY <1>1, <1>2, <1>3, <1>4, <1>5, <1>6 DEF Uninstall

(* A byte and the steps of the interrupt routine preserve it: the routine   *)
(* calls what it found installed, and nobody has cleared it since.          *)
LEMMA InterruptIInv == ASSUME IInv, Interrupt \/ \E d \in Device : DeviceByte(d) PROVE IInv'
<1> USE NoneIsNoDevice DEF IInv, Types, StageInv, VectorInv, IsrInv, PacketInv, OwnCallsLive,
        portVars, isrVars, loopVars, clientVars, lineVars, actionVars, Pointed, Sourced,
        Served, Handled
<1>1. CASE \E d \in Device : DeviceByte(d) BY <1>1 DEF DeviceByte
<1>2. CASE \E d \in Device : InterruptHandler(d) BY <1>2 DEF InterruptHandler
<1>3. CASE handleInterruptRead BY <1>3 DEF handleInterruptRead
<1>4. CASE handleInterruptCall BY <1>4 DEF handleInterruptCall, Faults, Callable
<1>5. CASE handleInterruptReturn BY <1>5 DEF handleInterruptReturn
<1> QED BY <1>1, <1>2, <1>3, <1>4, <1>5 DEF Interrupt

(* The steps of the work loop preserve it; a poll may find its action gone, *)
(* which is recorded under "poll".                                          *)
LEMMA WorkLoopIInv == ASSUME IInv, WorkLoop PROVE IInv'
<1> USE NoneIsNoDevice DEF IInv, Types, StageInv, VectorInv, IsrInv, PacketInv, OwnCallsLive, Runs,
        portVars, isrVars, loopVars, clientVars, lineVars, actionVars, Pointed, Sourced,
        Served, Handled
<1>1. CASE \E d \in Device : packetReady(d) BY <1>1 DEF packetReady
<1>2. CASE packetReadyCall BY <1>2 DEF packetReadyCall, Faults
<1>3. CASE \E d \in Device : readDataPort(d) BY <1>3 DEF readDataPort
<1>4. CASE dispatchDriverInterrupt BY <1>4 DEF dispatchDriverInterrupt, Faults
<1> QED BY <1>1, <1>2, <1>3, <1>4 DEF WorkLoop

(* Every step preserves the invariant *)
LEMMA NextIInv == IInv /\ [Next]_vars => IInv'
<1> SUFFICES ASSUME IInv, [Next]_vars PROVE IInv' OBVIOUS
<1>1. CASE \E d \in Device : Install(d) BY <1>1, InstallIInv
<1>2. CASE \E d \in Device : Uninstall(d) BY <1>2, UninstallIInv
<1>3. CASE Interrupt \/ \E d \in Device : DeviceByte(d) BY <1>3, InterruptIInv
<1>4. CASE WorkLoop BY <1>4, WorkLoopIInv
<1>5. CASE UNCHANGED vars
  BY <1>5 DEF vars, portVars, isrVars, loopVars, clientVars, lineVars, actionVars, IInv, Types,
     StageInv, VectorInv, IsrInv, PacketInv, OwnCallsLive
<1> QED BY <1>1, <1>2, <1>3, <1>4, <1>5 DEF Next

(* On every behaviour of the model the invariant holds in every state *)
LEMMA Invariance == Spec => []IInv
BY InitIInv, NextIInv, PTL DEF Spec

(* On any number of processors, however often drivers are started and       *)
(* stopped, packetReady and the interrupt routine of the driver's own       *)
(* device call no action that uninstallInterruptAction has cleared:         *)
(* disableInterrupt waits for the routine, and removeEventSource for the    *)
(* work loop's gate.  On one processor the routine of the other device      *)
(* calls none either.                                                       *)
THEOREM OwnActionsLive == Spec => []OwnCallsLive
<1>1. IInv => OwnCallsLive BY DEF IInv
<1> QED BY <1>1, Invariance, PTL
=============================================================================
