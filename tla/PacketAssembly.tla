---------------------------- MODULE PacketAssembly ----------------------------
(***************************************************************************)
(* A pointing device driver and its device: the driver's operations issue   *)
(* their requests (PadProtocol), the device sends the bytes of its packets  *)
(* in between, and interruptOccurred puts the packets together again.       *)
(* Nothing but the values of the bytes marks where a packet begins: a lost  *)
(* byte, a request in the middle of a packet or a byte that looks like a    *)
(* reset leaves the driver out of step with the device.                     *)
(*                                                                          *)
(* start, stop and setParamProperties run in a thread of their own, so      *)
(* that messages and notifications come between their requests; the power   *)
(* handler and setProperties hold the gate of the work loop.  A request is  *)
(* one step: the controller keeps it apart from the data (PS2Controller).   *)
(***************************************************************************)
EXTENDS PadProtocol, FiniteSets

CONSTANTS Hardware,       \* the records hw to explore
          Packets(_),     \* the packets a device may send, by hw
          MaxOperations(_), \* bound on operations, messages and clicks, by hw
          MaxFaults(_)    \* bound on lost bytes, failed requests, resets

ASSUME BoundsAssumption == \A h \in Hardware : MaxOperations(h) \in Nat /\ MaxFaults(h) \in Nat

VARIABLES hw,         \* the driver and the device of this behaviour
          dev,        \* the state of the device
          pad,        \* the fields of the driver
          job,        \* the steps left of the operation under way
          wire,       \* the packet the device is sending, and how far it is
          dispatched, \* the last packet packetReady handed on
          clear,      \* unmistakable packets since the last disturbance
          unsure,     \* a request failed, was overtaken, or the device reset
          spent       \* operations and faults used up

vars == << hw, dev, pad, job, wire, dispatched, clear, unsure, spent >>

kSC_Reset == \hAA
kSC_Acknowledge == \hFA

(* The packets after which a driver is in step again for certain. *)
Enough == IF hw.driver = "alps" THEN 3 ELSE 2

FreshPad(h) ==
  [phase |-> "stopped", installed |-> FALSE,
   buffer |-> <<>>, lastdata |-> 0, resets |-> 0, packetLength |-> 3,
   type |-> 0, info |-> -1, value |-> 0,
   extended |-> FALSE, ledpresent |-> FALSE, ewsupported |-> FALSE,
   modeByte |-> \h81, extendedw |-> FALSE, dynamic |-> FALSE, clicked |-> FALSE,
   clicking |-> 1, polled |-> FALSE,
   ignoreall |-> FALSE, attached |-> FALSE, stops |-> TRUE]

(* A warm restart leaves the device as another driver had it. *)
Init ==
  /\ hw \in Hardware
  /\ dev \in { PoweredOn,
               [PoweredOn EXCEPT !.mode = IF hw.device = "synaptics" THEN \hC1 ELSE 0,
                                 !.id = hw.maxid, !.led = hw.led] }
  /\ pad = FreshPad(hw)
  /\ job = <<>>
  /\ wire = [packet |-> <<>>, pos |-> 0]
  /\ dispatched = <<>>
  /\ clear = Enough
  /\ unsure = FALSE
  /\ spent = [operations |-> 0, faults |-> 0]

-----------------------------------------------------------------------------
(* interruptOccurred of the drivers: the new fields, and the packet put into *)
(* the ring, if any.  _packetByteCount is the length of the buffer, and of   *)
(* _lastdata only whether it was $AA matters.                                *)

And(b, mask) ==
  LET bit(i) == IF HasBit(mask, 2^i) /\ HasBit(b, 2^i) THEN 2^i ELSE 0
  IN bit(0) + bit(1) + bit(2) + bit(3) + bit(4) + bit(5) + bit(6) + bit(7)

Collect(p, b, length) ==
  LET buffer == Append(p.buffer, b)
  IN IF Len(buffer) = length
     THEN << [p EXCEPT !.buffer = <<>>, !.resets = 0], buffer >>
     ELSE << [p EXCEPT !.buffer = buffer], <<>> >>

ResetAnnounced(p, b) == p.lastdata = kSC_Reset /\ b = 0
Remember(p, b) == [p EXCEPT !.lastdata = IF b = kSC_Reset THEN b ELSE 0]

mouseInterrupt(p, b) ==
  CASE ResetAnnounced(p, b) -> << [p EXCEPT !.buffer = <<>>], <<0, kSC_Reset>> >>
    [] p.buffer = <<>> /\ (b = kSC_Acknowledge \/ ~HasBit(b, 8)) ->
         IF p.resets < 5
         THEN << [Remember(p, b) EXCEPT !.resets = @ + 1], <<0, kSC_Acknowledge>> >>
         ELSE << Remember(p, b), <<>> >>
    [] OTHER -> Collect(Remember(p, b), b, p.packetLength)

(* Mutant: the fourth byte of a packet is not looked at. *)
synapticsInterruptByte3(p, b) ==
  CASE ResetAnnounced(p, b) -> << [p EXCEPT !.buffer = <<>>], <<0, kSC_Reset>> >>
    [] p.buffer = <<>> /\ And(b, \hC8) # \h80 -> << Remember(p, b), <<0, 0>> >>
    [] OTHER -> Collect(Remember(p, b), b, 6)

synapticsInterrupt(p, b) ==
  CASE ResetAnnounced(p, b) -> << [p EXCEPT !.buffer = <<>>], <<0, kSC_Reset>> >>
    [] p.buffer = <<>> /\ And(b, \hC8) # \h80 -> << Remember(p, b), <<0, 0>> >>
    [] Len(p.buffer) = 3 /\ And(b, \hC8) # \hC0 ->
         << [Remember(p, b) EXCEPT !.buffer = <<>>], <<0, 3>> >>
    [] OTHER -> Collect(Remember(p, b), b, 6)

alpsInterrupt(p, b) ==
  CASE p.buffer = <<>> /\ And(b, \hC8) # \h08 /\ And(b, \hF8) # \hF8 -> << p, <<>> >>
    [] p.buffer # <<>> /\ b = \h80 -> << [p EXCEPT !.buffer = <<>>], <<>> >>
    [] OTHER -> Collect(p, b, IF And(Append(p.buffer, b)[1], \hC8) = \h08 THEN 3 ELSE 6)

sentelicInterrupt(p, b) ==
  CASE p.buffer = <<>> /\ (b = kSC_Acknowledge \/ ~HasBit(b, 8)) -> << p, <<>> >>
    [] OTHER -> Collect(p, b, p.packetLength)

interruptOccurred(p, b) ==
  CASE hw.driver = "mouse" -> mouseInterrupt(p, b)
    [] hw.driver = "synaptics" -> synapticsInterrupt(p, b)
    [] hw.driver = "alps" -> alpsInterrupt(p, b)
    [] OTHER -> sentelicInterrupt(p, b)

(* packetReady drops a packet that begins with 0. *)
packetReady(packet) == IF packet = <<>> \/ packet[1] = 0 THEN dispatched ELSE packet

-----------------------------------------------------------------------------
(* What a driver cannot mistake.  Begins: a byte the driver takes for the    *)
(* first of a packet.  Escapes: bytes of a packet that make a driver in step *)
(* throw it away.                                                            *)
Begins(b) ==
  CASE hw.driver = "synaptics" -> And(b, \hC8) = \h80
    [] hw.driver = "alps" -> And(b, \hC8) = \h08 \/ And(b, \hF8) = \hF8
    [] OTHER -> HasBit(b, 8) /\ b # kSC_Acknowledge

Escapes(packet) ==
  CASE hw.driver \in {"mouse", "synaptics"} ->
         \E i \in 2..Len(packet) : packet[i - 1] = kSC_Reset /\ packet[i] = 0
    [] hw.driver = "alps" -> \E i \in 2..Len(packet) : packet[i] = \h80
    [] OTHER -> FALSE

(* Only the Synaptics driver looks at a second byte, the fourth: it notices  *)
(* a false first byte when the one three later is wrong.                     *)
Unmistakable(packet) ==
  /\ ~Escapes(packet)
  /\ \A i \in 2..Len(packet) :
       Begins(packet[i]) =>
         hw.driver = "synaptics" /\ i + 3 <= Len(packet) /\ And(packet[i + 3], \hC8) # \hC0

(* The driver puts together packets of the length the device sends. *)
LengthsAgree(h, d, p) ==
  h.driver \in {"mouse", "sentelic"} => PacketLengths(h, d) = {p.packetLength}

(* The count of unmistakable packets: -1 in the middle of a disturbed one.   *)
Disturbed(w) == IF w.pos = 0 THEN 0 ELSE -1
AfterStep(d, p, w) ==
  IF Len(p.buffer) = w.pos /\ LengthsAgree(hw, d, p) THEN clear ELSE Disturbed(w)
AfterByte(w) ==
  CASE ~LengthsAgree(hw, dev, pad) -> Disturbed(w)
    [] w.pos = 0 /\ clear = -1 -> 0
    [] w.pos = 0 /\ (clear = Enough \/ Unmistakable(w.packet)) ->
         IF clear = Enough THEN clear ELSE clear + 1
    [] w.pos = 0 -> 0
    [] Escapes(w.packet) -> -1
    [] OTHER -> clear

-----------------------------------------------------------------------------
(* The device sends the next byte of its packet, or the first of a new one.  *)
Advance(packet) ==
  LET pos == wire.pos + 1
  IN [packet |-> packet, pos |-> IF pos = Len(packet) THEN 0 ELSE pos]

Sending(packet) ==
  /\ dev.enabled /\ ~dev.remote
  /\ IF wire.pos > 0 THEN packet = wire.packet
     ELSE packet \in Packets(hw) /\ Len(packet) \in PacketLengths(hw, dev)
  /\ wire' = Advance(packet)

(* A byte arrives; without the driver's action it is thrown away. *)
Byte ==
  \E packet \in Packets(hw) :
    /\ Sending(packet)
    /\ LET r == IF pad.installed THEN interruptOccurred(pad, packet[wire.pos + 1])
                ELSE << pad, <<>> >>
       IN /\ pad' = r[1]
          /\ dispatched' = packetReady(r[2])
          /\ clear' = IF pad.installed THEN AfterByte(wire') ELSE Disturbed(wire')
    /\ UNCHANGED << hw, dev, job, unsure, spent >>

Fault ==
  /\ spent.faults < MaxFaults(hw)
  /\ spent' = [spent EXCEPT !.faults = @ + 1]

LoseByte ==
  /\ Fault
  /\ \E packet \in Packets(hw) : Sending(packet)
  /\ clear' = Disturbed(wire')
  /\ UNCHANGED << hw, dev, pad, job, dispatched, unsure >>

(* The device resets itself and announces it with $AA $00.  The driver puts  *)
(* a packet for it into the ring, and packetReady drops the packet.          *)
SpontaneousReset ==
  /\ Fault
  /\ dev.enabled
  /\ dev' = PoweredOn
  /\ wire' = [wire EXCEPT !.pos = 0]
  /\ LET r == interruptOccurred(pad, kSC_Reset)
         t == interruptOccurred(r[1], 0)
     IN IF pad.installed
        THEN /\ pad' = t[1]
             /\ dispatched' = IF packetReady(t[2]) # dispatched THEN packetReady(t[2])
                              ELSE packetReady(r[2])
        ELSE UNCHANGED << pad, dispatched >>
  /\ clear' = 0
  /\ unsure' = TRUE
  /\ UNCHANGED << hw, job >>

-----------------------------------------------------------------------------
(* A step of the operation under way, and the phase it ends in. *)
Ended(phase) ==
  CASE phase = "stopping" -> "stopped"
    [] phase = "suspending" -> "asleep"
    [] OTHER -> "awake"

Step(bytes, ok) ==
  LET d == TakeBytes(hw, dev, bytes)
      r == After(hw, d, pad, Head(job), ok)
      rest == r[2] \o Tail(job)
  IN /\ dev' = d
     /\ job' = rest
     /\ pad' = IF rest = <<>> THEN [r[1] EXCEPT !.phase = Ended(@)] ELSE r[1]
     /\ wire' = IF bytes = <<>> THEN wire ELSE [wire EXCEPT !.pos = 0]
     /\ clear' = AfterStep(d, pad', wire')

Proceed ==
  /\ job # <<>>
  /\ Step(Bytes(pad, Head(job)), TRUE)
  /\ UNCHANGED << hw, dispatched, unsure, spent >>

(* A request fails: the device misses its bytes from some point on, or one   *)
(* byte of the Sentelic register protocol, whose bytes are requests of their *)
(* own; there only the last one has an answer.                               *)
RegisterStep == Head(job)[1] \in {"read", "sysctl", "qdown"}
Fail ==
  /\ job # <<>>
  /\ Fault
  /\ LET bytes == Bytes(pad, Head(job))
     IN \E k \in 1..Len(bytes) :
          IF RegisterStep THEN Step(RemoveAt(bytes, k), k < Len(bytes))
          ELSE Step(SubSeq(bytes, 1, k - 1), FALSE)
  /\ unsure' = TRUE
  /\ UNCHANGED << hw, dispatched >>

-----------------------------------------------------------------------------
(* The operations. *)
Operation ==
  /\ spent.operations < MaxOperations(hw)
  /\ spent' = [spent EXCEPT !.operations = @ + 1]

Begin(phase, p, steps) ==
  /\ job = <<>>
  /\ Operation
  /\ job' = steps
  /\ pad' = IF steps = <<>> THEN p ELSE [p EXCEPT !.phase = phase]
  /\ clear' = AfterStep(dev', pad', wire)
  /\ UNCHANGED << hw, wire, dispatched >>

start ==
  /\ pad.phase = "stopped"
  /\ UNCHANGED dev
  /\ Begin("starting", FreshPad(hw), StartSteps(hw))
  /\ unsure' = FALSE

stop ==
  /\ pad.phase = "awake"
  /\ UNCHANGED << dev, unsure >>
  /\ Begin("stopping",
           [pad EXCEPT !.attached = FALSE, !.ignoreall = @ /\ hw.driver # "synaptics"],
           StopSteps(hw))

DisableDevice ==
  /\ pad.phase = "awake"
  /\ UNCHANGED << dev, unsure >>
  /\ Begin("suspending", pad, setDevicePowerState(hw, pad, FALSE))

(* The device may have lost its power while the machine slept. *)
EnableDevice ==
  /\ pad.phase = "asleep"
  /\ dev' \in {dev, PoweredOn}
  /\ Begin("resuming", [pad EXCEPT !.polled = FALSE], setDevicePowerState(hw, pad, TRUE))
  /\ unsure' = FALSE

(* setParamProperties, in the thread of its caller, and setProperties, in    *)
(* the gate.                                                                 *)
Changed(setting) ==
  CASE setting = "UseHighRate" -> [pad EXCEPT !.modeByte = PutBit(@, 64, ~HasBit(@, 64))]
    [] setting = "DynamicEWMode" -> [pad EXCEPT !.dynamic = ~@]
    [] setting = "USBMouseStopsTrackpad" -> [pad EXCEPT !.stops = ~@]
    [] OTHER -> [pad EXCEPT !.clicking = 1 - @, !.polled = hw.driver = "alps"]

SettingsOf(driver) ==
  CASE driver = "synaptics" -> {"UseHighRate", "DynamicEWMode", "USBMouseStopsTrackpad"}
    [] driver = "mouse" -> {"USBMouseStopsTrackpad"}
    [] OTHER -> {"Clicking"}

setParamPropertiesGated(phase) ==
  /\ pad.phase = "awake"
  /\ UNCHANGED << dev, unsure >>
  /\ \E setting \in SettingsOf(hw.driver) :
       LET p == Changed(setting)
           q == IF p.dynamic THEN p ELSE [p EXCEPT !.modeByte = PutBit(@, 4, p.ewsupported)]
       IN Begin(phase, q, SettingsSteps(hw, pad, q))

setParamProperties == setParamPropertiesGated("changing")
setProperties == hw.driver \in {"mouse", "synaptics"} /\ setParamPropertiesGated("gated")

-----------------------------------------------------------------------------
(* Work in the gate, between the requests of a thread that does not hold it. *)
(* A thread that has made up its request and waits for the gate is           *)
(* overtaken: its request goes out later with what was true before.          *)
Overtaken == job # <<>> /\ Head(job)[1] \in {"set led", "set mode byte"}

InGate(p, steps) ==
  LET bytes == IF steps = <<>> THEN <<>> ELSE Bytes(p, Head(steps))
  IN /\ pad' = p
     /\ dev' = TakeBytes(hw, dev, bytes)
     /\ wire' = IF bytes = <<>> THEN wire ELSE [wire EXCEPT !.pos = 0]
     /\ clear' = AfterStep(dev', p, wire')
     /\ unsure' = (unsure \/ Overtaken)
     /\ Operation
     /\ UNCHANGED << hw, job, dispatched >>

GateFree == pad.phase \in {"awake", "starting", "changing"}

(* message with kPS2M_setDisableTouchpad. *)
setDisableTouchpad ==
  /\ hw.driver \in {"mouse", "synaptics"}
  /\ GateFree
  /\ LET p == [pad EXCEPT !.ignoreall = ~@] IN InGate(p, updateTouchpadLED(p))

(* A mouse is plugged in or out: the mouse driver leaves the light alone. *)
Attached(p) ==
  [p EXCEPT !.attached = ~@, !.ignoreall = IF p.stops THEN ~p.attached ELSE @]

mouseHIDAttached == hw.driver = "mouse" /\ GateFree /\ InGate(Attached(pad), <<>>)

(* Mutant: the light is left alone, as in the mouse driver. *)
synapticsHIDAttachedDark ==
  hw.driver = "synaptics" /\ GateFree /\ InGate(Attached(pad), <<>>)

synapticsHIDAttached ==
  /\ hw.driver = "synaptics"
  /\ GateFree
  /\ InGate(Attached(pad), IF pad.stops THEN updateTouchpadLED(Attached(pad)) ELSE <<>>)

(* A click on a pad that switches to extended W mode for the click only. *)
setClickButtons ==
  /\ hw.driver = "synaptics"
  /\ pad.installed /\ GateFree
  /\ pad.dynamic /\ pad.ewsupported
  /\ LET p == [pad EXCEPT !.clicked = ~@, !.extendedw = ~pad.clicked,
                          !.modeByte = PutBit(@, 4, ~pad.clicked)]
     IN /\ pad' = p
        /\ dev' = TakeBytes(hw, dev, setModeByte(p.modeByte))
        /\ wire' = [wire EXCEPT !.pos = 0]
        /\ clear' = AfterStep(dev', p, wire')
        /\ unsure' = (unsure \/ Overtaken)
        /\ Operation
        /\ UNCHANGED << hw, job, dispatched >>

Next ==
  \/ Byte \/ LoseByte \/ SpontaneousReset
  \/ Proceed \/ Fail
  \/ start \/ stop \/ DisableDevice \/ EnableDevice
  \/ setParamProperties \/ setProperties
  \/ setDisableTouchpad \/ mouseHIDAttached \/ synapticsHIDAttached \/ setClickButtons

Spec == Init /\ [][Next]_vars

-----------------------------------------------------------------------------
(* After any disturbance (a lost byte, a request in the middle of a packet,  *)
(* a reset, a data byte taken for one) a few packets that cannot be mistaken *)
(* put the driver in step with its device again: it has buffered exactly     *)
(* what the device has sent of its packet, and hands on the packets as they  *)
(* were sent.  A driver that is in step stays so without any such packet.    *)
InStep ==
  clear = Enough =>
    /\ pad.buffer = SubSeq(wire.packet, 1, wire.pos)
    /\ wire.pos = 0 /\ wire.packet # <<>> /\ pad.installed => dispatched = wire.packet

(* Between the driver's operations its device is in the mode the driver      *)
(* believes: it sends while the driver is awake and only then, packets of    *)
(* the driver's length, in the driver's mode byte, with the taps of a        *)
(* Sentelic pad tagged.  Once a request has failed or was overtaken, or the  *)
(* device has reset itself, this holds again after the next sleep.  The ALPS *)
(* driver leaves its device polled when Clicking is changed.                 *)
DeviceAgrees ==
  job = <<>> /\ ~unsure =>
    CASE pad.phase \in {"asleep", "stopped"} -> ~dev.enabled
      [] OTHER ->
           /\ dev.enabled
           /\ dev.remote => pad.polled
           /\ LengthsAgree(hw, dev, pad)
           /\ hw.driver = "synaptics" =>
                dev.mode = pad.modeByte /\ pad.extendedw = HasBit(dev.mode, 4)
           /\ hw.driver = "alps" => dev.absolute /\ (dev.tap => pad.clicking = 1)
           /\ hw.driver = "sentelic" =>
                HasBit(dev.qdown, FSP_BIT_EN_OPC_TAG) /\ ~HasBit(dev.sysctl, FSP_BIT_EN_REG_CLK)

(* The light of a Synaptics pad is on exactly while the touchpad is disabled *)
(* by a key or by an attached mouse, whatever restarts, sleeps, messages and *)
(* notifications came before.                                                *)
LightAgrees ==
  job = <<>> /\ ~unsure /\ hw.driver = "synaptics" /\ pad.phase = "awake" /\ pad.ledpresent =>
    dev.led = pad.ignoreall
================================================================================
