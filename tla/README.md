# A verification project for the VoodooPS2 driver

VoodooPS2 drives the keyboard and the pointing device behind the 8042 controller
of a PC that runs OS X. Two things make it hard. It is concurrent: a real interrupt
routine, a work loop, timers, driver threads and power management share one data
port, a few flags and a lock-free ring buffer, and the devices on the other side
are slow, may not answer, and send data whenever they like. And it keeps long
memories of what a hand does: keys, buttons, taps, drags and macros are state
machines whose input is cut off by sleeps, resets, settings and messages.

The modules here model both in TLA+, TLC checks them on small instances, and TLAPS
proves the central facts for every size.

C is `VoodooPS2Controller.cpp`, K `VoodooPS2Keyboard.cpp`, M `VoodooPS2Mouse.cpp`, S
`VoodooPS2SynapticsTouchPad.cpp`; a number after it is a line.

## 1. The system

| Part | Where | State | Operations |
|---|---|---|---|
| Ring buffer | `ApplePS2Device.h` `RingBuffer` | `m_buffer`, `m_head`, `m_tail` | `head`/`advanceHead` (interrupt), `tail`/`advanceTail`/`count` (work loop), `reset` |
| Controller, requests | C | request queue, `_ignoreInterrupts`, `_hardwareOffline` | `submitRequest`, `submitRequestAndBlock`, `processRequest`, `readDataPort` (twice), `setCommandByte` |
| Controller, interrupts | C | – | `interruptHandlerKeyboard/Mouse`, `handleInterrupt`, `dispatchDriverInterrupt`, `packetReadyKeyboard/Mouse` |
| Controller, power | C | `_currentPowerState`, thread call | `setPowerState`, `setPowerStateCallout`, `setPowerStateGated`, `resetController` |
| Controller, clients | C | installed flags, targets and actions | `installInterruptAction`, `uninstallInterruptAction` |
| Controller, configuration | C | `_rmcfCache` | `makeConfigurationNode`, `translateArray`, `_getConfigurationNode` |
| Keyboard, input | K | key bits, `_extendCount`, modifiers | `interruptOccurred`, `packetReady`, `initKeyboard` |
| Keyboard, keys | K | two maps, settings, sleep/eject timer, levels of light | `probe`, `setParamPropertiesGated`, `dispatchKeyboardEventWithPacket`, `modifyScreenBrightness` |
| Keyboard, macros | K | `_macroBuffer`, `_macroTimer` | `loadMacroData`, `invertMacros`, `onMacroTimer`, `dispatchInvertBuffer` |
| Pointing devices | M, S, `…ALPSGlidePoint.cpp`, `…SentelicFSP.cpp` | packet under assembly, mode bytes, `ignoreall`, LED | `interruptOccurred`, `start`, `stop`, `setDevicePowerState`, settings, messages, attaching |
| Middle button | M, S | `_mbuttonstate`, timer | `middleButton`, `onButtonTimer` |
| Synaptics touch | S | touch mode, drag and scroll timers, click buttons | `dispatchEventsWithPacket` and what it calls, `onDragTimer`, `onScrollTimer`, messages |
| User space | `VoodooPS2Daemon`, `VoodooPS2synapticsPane` | – | set properties of the drivers |

How they meet. A device's byte raises an interrupt; unless `_ignoreInterrupts`
is up, the interrupt routine reads the port and calls the driver's
`interruptOccurred`, which assembles a packet in the driver's ring and asks for
the work loop; the work loop calls the driver's `packetReady`, which empties the
ring and turns packets into events. A driver that wants something of its device
submits a request; the work loop raises `_ignoreInterrupts` and runs the request's
commands by polling the same port, passing bytes that are not answers to
`interruptOccurred` itself. Power changes run on the work loop too, as a script of
such requests. Settings, notifications and messages arrive in other threads, with or
without the work loop's gate.

What is hard here: the two users of the ring; the poll against the interrupt
routine; bytes that come before, after or instead of the answer; edges that are
ignored; sleep with keys down and packets under way; actions uninstalled while
they are called; timers against packets; packets whose first byte nothing but its
value marks; maps that change between the make and the break of a key; drags that no
finger holds. `PROJECT.json` lists each hazard at its line.

The code is modelled as it is built: `DEBUGGER_SUPPORT 0`,
`OUT_OF_ORDER_DATA_CORRECTION_FEATURE 1`, `HANDLE_INTERRUPT_DATA_LATER 0`,
`WATCHDOG_TIMER 0`, `NEWIRQ` undefined, `DISABLE_CLOCKS_IRQS_BEFORE_SLEEP 1`,
`FULL_INIT_AFTER_WAKE 1`; in the drivers `UNDOCUMENTED_INIT_SEQUENCE_POST` is defined,
and `UNDOCUMENTED_INIT_SEQUENCE_PRE`, `SET_STREAM_MODE`, `FULL_HW_RESET` and
`SIMULATE_…` are not. `_ignoreOutOfOrder` is never set and is left out.

## 2. The modules

| Module | Models | Checked by |
|---|---|---|
| `PacketQueue` | what the ring promises: a bounded FIFO that refuses a packet only if it was full | `ImplementsQueue` in `ring_buffer`; proof in `RingBufferRefinement` |
| `RingBuffer` | the ring with its interrupt routine and its work loop, one action per store | `ring_buffer`; proofs in `RingBufferProofs` |
| `DriverRequests` | the commands of the drivers' requests, and the answers of a device | through `PS2Controller` |
| `PS2Controller` | request queue, `processRequest`, `readDataPort`, `setCommandByte`, interrupt routines, 8042, two devices | `requests`, `faults`; proofs in `PS2ControllerProofs` and `ControllerDataProofs` |
| `PowerManagement` | `setPowerState` and its thread call, the sleep and wake scripts, on top of `PS2Controller` | `power`, `wake`; proof in `PowerManagementProofs` |
| `InterruptActions` | install and uninstall against interrupt routine, packet actions and polls | `interrupt_actions`; proofs in `InterruptActionsProofs` |
| `Configuration` | profiles, links, `RMCF`, the merge and the cache, with two probes at a time | `keys` |
| `KeyboardInput` | scan codes to packets to key events, Ctrl+Alt+Delete, sleep and wake of the keyboard | `keyboard` |
| `KeyboardKeys` | what a key means: maps, settings, combinations, timed keys, brightness and backlight; extends `Configuration` | `keys` |
| `KeyboardMacros` | sequences of packets held back, replaced or replayed | `macros`; proofs in `KeyboardMacrosProofs` |
| `MiddleButton` | the middle button simulated with two buttons, its timer, `ignoreall` | `middle_button` |
| `PadDevice` | a mouse, Synaptics, ALPS or Sentelic device that decodes the bytes sent to it (external) | through `PacketAssembly` |
| `PadProtocol` | the requests of the four pointing device drivers, byte by byte, and their order in each operation | through `PacketAssembly` |
| `PacketAssembly` | the four `interruptOccurred`, starts, stops, sleeps, settings and messages between the bytes of packets | `packets` |
| `SynapticsTouch` | touch modes, taps, drags, ClickPads, zones, momentum | `touch`; proofs in `SynapticsTouchProofs` |

The `MC…` modules give the constants of an instance their values. A definition
marked *Mutant* is a plausible mistake in the definition below it; no specification
uses it.

### RingBuffer

A byte of the buffer is the pair of its packet's number and its place in it, so a
packet that was overwritten or torn is seen as such. The interrupt routine is
`StoreByte` (one byte of `interruptOccurred`), then `AdvanceHeadMeasure` and
`AdvanceHead`: `advanceHead` reads `m_tail` once for `count(new_head, m_tail)` and
again for `count()`, and the work loop may move it in between. The work loop is
`PacketReady`, `CheckCount`, `DispatchPacket`, `AdvanceTail` and `WrapTail`:
`advanceTail` stores the tail twice, first without the wrap, and the interrupt
routine may see the first value, `N`. `Reset` is `reset` with the device silent;
`LiveReset` is the reset of the Synaptics driver's settings, with the device
streaming. The stores are taken to become visible in program order, which the
processors (x86) guarantee if the compiler keeps them; the code has no barrier.
`push` and `fetch` have no users.

### DriverRequests and PS2Controller

A request is a sequence of commands, an answer a sequence of bytes marked with
the request that caused it. The 8042 has one output buffer, so a device's byte
waits (`sending`) while it is full; `RaiseLines` raises an edge when the line of
a stream goes up, by a byte or by a write of the command byte. A device answers a
command byte by byte (`DeviceAnswer`, `DeviceGoesOn`) or not at all (`DeviceMute`),
and sends data of its own at any time, between the bytes of an answer too
(`DeviceData`). A byte of data is numbered, so that its way can be followed, and has
a value, which may be that of an acknowledge; the code sees the value only. The work
loop is one thread with an `agenda` of calls it still makes and a program counter in
the call under way: each access of a port is a step, as are the read and the dispatch
of the interrupt routine, which runs in between or, with `SMP`, at the same time on
another processor. `FakeZero` is the 0 of a read that timed out, and `late` bounds
the reads that time out although an answer comes. `kPS2C_FlushDataPort`,
`kPS2C_ReadMouseDataPort` and `kPS2C_ModifyCommandByte` are commands no driver sends;
the run `faults` exercises them.

`readDataPort` states three assumptions about a device (C:1430–1444): what comes
instead of the expected byte is data, at most one byte of it is under way, and the
answer comes in time; data must not look like the expected byte; and against data
between reads that compare nothing the "Controller cannot build any defenses"
(`VoodooPS2Controller.h`:77–92). The model lets the devices do all of it and records
in `broken` the streams on which an assumption did not hold, at the step where it
failed (`Foreseen`, `Unguarded`, `AnswersNext`), and `"overlap"` when a poll began
beside an interrupt routine that had passed its test of `_ignoreInterrupts` (C:66).
`broken` is history: no step reads it.

### PowerManagement

Extends `PS2Controller`: the sleep and wake sequences are agendas whose items are
the counting of `_ignoreInterrupts`, `_hardwareOffline`, the command byte, the
requests of the drivers' `setDevicePowerState` and `resetController`. The last is one
step: the devices are disabled, nothing is written to them and interrupts are ignored
until it is over, so that nobody else sees the port. The
settings of the mouse between its reset and its enabling are one request. A thread
call that is pending is given the new state and not queued twice; once it has
started, it waits for the gate (`callouts`), and another may be made pending. The
release of the retain is part of the acknowledging step. Power management may ask for the next
state without waiting for the acknowledgement (`MaxImpatience`).

### InterruptActions

Every store of `installInterruptAction` and `uninstallInterruptAction` is a step of
the client's thread, every test and call a step of the interrupt routine, of the
work loop or of a poll. `fault` collects the contexts that called through a cleared
pointer: the interrupt routine with a byte of its own device or of the other one, the
packet action, a poll. `disableInterrupt` waits for a handler of the same interrupt that runs, and
`removeEventSource` for the work loop's gate; the other stores wait for nothing.

### Configuration and KeyboardKeys

`Configuration` is `makeConfigurationNode` as the probes of two drivers run it in
their own threads: take `_cmdbyteLock`, look at `_rmcfCache`, evaluate `RMCF`, merge.
The translation of ACPI arrays, the links of a Platform Profile and the merge are
functions of the source's names; the reference they are checked against is the
override written as the dictionary it stands for (`Override`), and "every name from
the strongest source that has it".

`KeyboardKeys` extends it: `probe` loads the keyboard's dictionary, and then `Press`
and `Release` run the whole of `dispatchKeyboardEventWithPacket` with the two maps of
the moment. Codes are those of the source; the 27 scan codes stand for the entries
of the table that are treated differently, one each. `Meaning` is the chain of cases
in the code; `Leaves` says what a make leaves down in the HID system. A make and its
break each look at the maps and modifiers, and settings, the function key mode or a
modifier may have changed in between: `strays` has what that left behind, until it is
released. `Circumstances` is what a packet meets outside: the bit vector that the
interrupt routine updates, read twice by `BrightnessHack`, and methods of ACPI that
fail. The levels of light may be any that the firmware sets (`Dim`), also outside the
tables. Caps Lock is handled as before and as from Sierra on (`machine.sierra`).
`setParamPropertiesGated` is modelled setting by setting, in the code's order.

### KeyboardInput

A byte is a pair of a code and the up bit, a key a pair of the prefix and the code.
`interruptOccurred` is the whole routine, including `$AA $00`, the Pause sequence
(`_extendCount` 2) and the repeats that the key bits suppress. The ring is the queue
that `RingBuffer` implements, with its refusal of a packet when full. `lost` keeps
the keys the driver cannot know about any more: those of a packet that was refused or
that `initKeyboard` threw away, and those held down when the keyboard reset itself.
`dispatchKeyboardEventWithPacket` is here a function on the modifiers and the keys
that HID has down; `initKeyboard` folds it over the key bits in the order of their
codes.

### KeyboardMacros

A packet carries the time since the packet before it, which is all `invertMacros`
compares. `TakePacket` is one round of the loop in `packetReady`, with the late
packet that sends off what was held back, the first entry that matches (`Match`) or
none (`NoMatch`). `onMacroTimer` first empties the ring and then looks at the clock
(`MacroTimerExpired`), so it is three steps. `taken`, `gone` and `inverted` record
what went in and came out.

### MiddleButton

The states of the code under their names. `Masked` selects the driver: the mouse
keeps in `lastbuttons` what `middleButton` returned, the touchpad what the device
reported. `TimePasses` lets the delay run out before the timer's action runs.
`inStep` is false from the moment a packet was ignored until all buttons are up.
The fourth and fifth buttons, the mask while typing, taps and the change of
`FakeMiddleButton` are left out.

### PadDevice, PadProtocol and PacketAssembly

`PadDevice` is not code of the repository: it is what the drivers' requests
presuppose of the devices, a decoder of command bytes (sample rate knocks, arguments
two bits at a time, absolute mode, registers). `PadProtocol` gives every request's
bytes (`Bytes`), what the driver does with the answer (`After`), and the sequence of
steps of `start`, `stop`, sleep, wake and settings. `PacketAssembly` runs them:
`Proceed` is one request, `Fail` a request the device loses from some byte on, and
between the requests the device sends bytes (`Byte`), loses one (`LoseByte`) or
resets itself (`SpontaneousReset`), and messages and notifications come
(`setDisableTouchpad`, `…HIDAttached`, `setClickButtons`). A request is one step
because `PS2Controller` shows that it is kept apart from data if the device keeps to
the assumptions of `readDataPort`; where it does not, requests fail. `clear` counts the
packets since the last disturbance that a driver cannot mistake; `unsure` says that a
request failed or was overtaken since the last sleep.

### SynapticsTouch

A packet goes through the phases of `dispatchEventsWithPacket`, one operator each:
buttons of the pass-through device, the second finger of an extended W packet,
ClickPad buttons, release, disable zone, touch modes, taps and drags. The pad is a
grid of 3 by 3 places, the thresholds are small numbers in the order of the
defaults, and ages saturate (`Past`). `hand` has what the last packets showed of the
hand: a finger, the buttons of the pad, those of the device behind it, and the click
of a ClickPad; `pad.hid` has what was last reported of the buttons.

## 3. What the runs show

Passing runs:

| Run | Instance | Distinct states | Properties |
|---|---|---|---|
| `ring_buffer` | 3 slots of 2 bytes, 6 packets: the ring wraps twice and is overrun | 44 k | `WholePackets` `InOrder` `UnreadKept` `ImplementsQueue` `EveryPacketLeaves` |
| `requests` | a queued and two blocking requests, two bytes of the mouse, which may look like an acknowledge, and one of the keyboard, a command that is not answered, several processors | 748 k | `StreamsIntact` `NoRequestFails` `NoFalseSuccess` `DataInOrder` |
| `faults` | two queued requests, one blocking one with the commands no driver sends, `setCommandByte`, one slow and one missing answer, several processors | 163 k | `PollingAlone` `CompletedInOrder` `EveryRequestCompletes` |
| `power` | three power changes, one of them impatient, a request, a byte of the mouse, one processor | 267 k | `PowerStateHolds` `RetainedWhileCalled` `QuietOffline` `EveryChangeAcknowledged` |
| `middle_button` | three buttons, all orders, unbounded | 1.6 k | `StateTellsButtons` `WaitsWithTimer` `ChordIsMiddle` `NoPhantomRelease` `NoClickLost` |
| `keyboard` | Ctrl, Alt, Delete, a breakless key, Pause; 3 presses, 1 reset, 1 sleep, 2 packets of buffer | 1.1 M | `NoStuckKey` `BitsAgree` `ModifiersAgree` |
| `macros` | 4 keys, three macros that begin alike and two entries that are none, 4 packets, 2 of them in the ring, 1 wake | 306 k | `NothingLost` `MacrosInTime` `HeldBackLeave` |
| `keys` | two probes; five uses of the keyboard (settings, chords, sleep and eject, light, breakless and Caps Lock), up to 3 keys down, up to 3 changes of settings, levels outside the tables, failing ACPI | 180 k | `NothingStaysDown` `TimerWhileHeld` `SettingsHold` `ConfigurationMerged` `LightFollowsKeys` |
| `packets` | 9 pairs of driver and device, each about bytes, about requests and about both; up to 5 operations and 1 fault | 476 k | `InStep` `DeviceAgrees` `LightAgrees` |
| `touch` | 9 profiles of features (taps, changes, typing, edges, zone, ClickPads, pass-through, trackpoint, momentum), unbounded in time | 103 k | `DragHasExit` `HeldStaysDown` `ButtonsComeUp` `MomentumEnds` |

What the properties say is written above each of them in its module.

The bounds. Packets, bytes and presses only have to be told apart and ordered, so
two or three of each meet every order; the buffers are small so that they are full
in the runs, which the real ones (31 packets) seldom are. One slow or missing
answer is enough to put every later answer out of step. Two bytes of the mouse are
one more than `readDataPort` foresees, so that its last branch (C:1560) is taken; the
constraint `SomeReliable` ends a behaviour of `requests` when neither device can be
relied on any more, where its properties say nothing. `faults` has no data: its
properties are about requests, and that they complete does not depend on it. Three presses are one
Ctrl+Alt+Delete. `power` has data of the mouse only: a scan code that is in the
output buffer when a power change begins is taken for the command byte (C:968),
and then nothing can be said about the bits that are written. Four packets are a
macro, its longer sibling and one packet that breaks either off. The packets of
`packets` are one that cannot be mistaken, one with bytes that look like a first
byte, one with bytes that look like a reset; five operations are a start, two
changes, a sleep and a wake. `keys` and `touch` split the features into groups that
share state; within a group the time and the number of keys and packets are not
bounded, and only the number of changes of the settings is.

What the properties leave out, because the code does not provide it:

- `StreamsIntact`, `NoRequestFails` and `NoFalseSuccess` speak of a device that has
  kept to the assumptions of `readDataPort`, whatever the other one did, and of
  behaviours without an overlap (`Reliable`). Without them each fails: a second byte
  of data before an acknowledge fails the request (C:1560), data that looks like an
  acknowledge is taken for it (M:963, K:1983), data between the bytes of
  `getMouseInformation` for information, a late answer for that of a later command
  (C:1166), and the 0 of a timeout for an expected 0x00 (C:1366). `resetMouse`
  leaves an acknowledge unread (M:507), and the mouse counts as unreliable from then
  on.
- `PollingAlone` excepts one interrupt routine: the one that has passed its test of
  the counter (C:66) when a poll begins on another processor. `DataInOrder` holds
  until then; afterwards each side may read what the other was told of.
- `InOrder` holds with `Spec`. With `LiveResetSpec`, where a change of the Synaptics
  settings resets the ring under the interrupt routine (S:2780), it fails.
- `StateTellsButtons` holds for the touchpad's `middleButton`. With `Masked = TRUE`,
  the mouse's, it fails: its timer runs the machine with the buttons it had masked
  (M:926).
- `NoStuckKey` excepts the keys in `lost`, and Delete once Ctrl+Alt+Delete was
  recognised: a Delete pressed before Ctrl and Alt has its break swallowed by the
  power key (K:1702). `initKeyboard` drops a break that waits in the buffer
  (K:2320), and the packet for a reset of the keyboard has no effect (K:1309), which
  is how keys come into `lost`. Ctrl+Alt+Delete releases the keys of the left hand
  only (K:1709); no property speaks of those of the right hand.
- `BitsAgree` excepts Delete, and Ctrl and Alt after a Ctrl+Alt+Delete, which
  releases them for the HID system while they are held.
- `StateTellsButtons`, `NoPhantomRelease` and `NoClickLost` speak of a machine that
  is in step: packets ignored while the touchpad is disabled put it out of step until
  all buttons are up. A click that waits when the touchpad is disabled is still sent
  (S:945).
- No property says that every byte arrives soon: the edge of a byte that comes after
  the last poll of a request is ignored (C:1258), and the byte waits for the next one.
- `QuietOffline` is about data, and about devices that are disabled: where data was
  taken for the acknowledgement of a disable command, `setCommandByte` hands over what
  came before the real one. A request processed while the hardware is offline fails
  at once and is not held back (C:1142).
- `power` runs on one processor; `RetainedWhileCalled` is proved for any number.
- `NothingStaysDown` excepts `strays`, and from Sierra on Caps Lock where it is
  exchanged with Control and `BrightnessHack` is on: the hack presses again what it
  released, and Caps Lock has no break (K:1684–1693).
- `TimerWhileHeld` excepts a timer whose key took another meaning while it was down.
  An eject key that is pressed alone and released with a modifier does not cancel the
  timer (K:1819), nor does a sleep key that the function key mode turned into another
  key: the machine then sleeps, or ejects, with no key down.
- `LightFollowsKeys` is strict within the tables only. A level below the table goes up
  and one above it goes down by either key, and nothing changes where ACPI fails. Of
  the backlight's table all entries are levels for the code, although the comment at
  K:1522–1524 says of the first two, as of the screen's, that they are not.
- `SettingsHold`: the entries that several settings share (right Option, the
  application key) follow from the published settings after a call that had all of
  them; a call with one of them leaves the entry as that one says.
- `NothingLost` is about what the work loop has taken. `initKeyboard` empties the
  ring, and keeps what macros hold back; a packet that ends a match is not tried as
  the first of another macro.
- `InStep` needs two packets that cannot be mistaken (three for ALPS, which knows two
  lengths) after a disturbance. A driver that sees only packets with ambiguous bytes
  may stay out of step. `setModeByte` does not reset the count of the packet under
  assembly, and the Synaptics settings reset it only after the pad is enabled again.
- `DeviceAgrees` holds until a request fails or the device resets itself, and again
  after the next sleep: the packet for a reset is dropped (the call of
  `initMouse`/`initTouchPad` is commented out), a failed `getMouseID` leaves the
  lengths different, a failed read of a Sentelic register writes `$FF`. A change of
  `Clicking` leaves an ALPS pad in poll mode until the next wake (`polled`), and
  `setTapEnable(true)` on a pad that taps turns tapping off.
- `LightAgrees` is about the Synaptics driver; the mouse driver, which may drive the
  same LED, does not update it when a mouse is attached or at its start.
- `ButtonsComeUp` excepts a touchpad that is off, locked drags, and the modes of the
  disable zone: a release is not reported while a tap there waits for its second
  (S:1450 has no timeout).
- `HeldStaysDown` excepts the two places where the driver lets go of a held button
  (`LetsGo`): a second tap without `immediateclick` clears all buttons for a packet
  (S:1556), and `dragTimer` reports `lastbuttons` (S:1075–1084), which the packets of
  the second finger do not update. It speaks of buttons that are held. The left
  button that a drag by taps keeps down goes up with a packet of the device behind
  the pad and down again with the next of the pad (S:1186, S:1852); and as
  `kPS2M_setDisableTouchpad` leaves the touch mode alone (S:2871), a drag during which
  the touchpad is switched off is taken up again when it is switched on, with or
  without a finger.

Fairness. The interrupt routine, once entered, runs to its end, and the work loop,
once it is signalled or has a call to make, goes on; the 8042 delivers what was sent
to it and a device takes what was written to it: weak fairness of their steps.
Nothing obliges a device to send data or to answer, or a user to press a key. A read
that finds nothing ends by its timeout. `EveryPacketLeaves`,
`EveryRequestCompletes` and `EveryChangeAcknowledged` rest on this. Timers fire once
their time is over and time passes: weak fairness of `Tick`, `onMacroTimer` and of
what they start (`HeldBackLeave`), and of `Tick`, `onDragTimer` and `onScrollTimer`
(`ButtonsComeUp`, `MomentumEnds`). `touch` also assumes that the touchpad reports its
first finger again and again, with what the hand does chosen freely: a Synaptics pad
sends packets while a finger is on it and goes on for about a second after it left,
which the release of a tap or a drag relies on.

Deadlock is checked in `middle_button`, `keys` and `touch`, and not where the
bounds let a behaviour end (no more packets, requests, presses, starts or power
changes to come).

The runs that find a violation are disagreements between the code and a text of the
repository (`findings` in `PROJECT.json` quotes it). `interrupt_actions` (two drivers,
each started twice, several processors): a request of the other driver has found the
device installed, `uninstallInterruptAction` clears the action and releases the
target, and the poll calls it. `NoDeadCall` states what its comment concludes, that it
"needs no protection against races" (C:863–866); `removeEventSource` waits for the
gate, but the flag is cleared after it (C:881–882), and another poll may begin in
between. On several processors the interrupt routine of the one device, with a byte
of the other, meets the same gap. What the order of the steps is enough for,
`OwnCallsLive`, is proved. `wake`: a byte sent during the
last step of the wake sequence stays in the output buffer with no edge to announce
it, and blocks both devices. `ListensAwake` states what the comment "Now safe to
enable the IRQs" (C:1965) claims. The repository's README lists among its known
issues that "very rarely, both the keyboard and trackpad are not working after a
fresh boot or after sleep", a problem it takes to be solved.

## 4. What is proved

All proofs are checked by TLAPS to the last leaf, for every value of the constants
that satisfies the named assumptions. The properties are those of the runs, except
`TypeCorrect`, `CounterBalanced` and `OwnActionsLive`.

**`RingBufferProofs`** (`Stride`, packet length and number of slots arbitrary):
`TypeCorrect`, `DispatchesWholePackets`, `DispatchesInOrder` and
`InterruptKeepsUnread`. None of the properties is inductive: whether the slot being
dispatched is whole depends on what the interrupt routine measured before the tail
moved, and on the window in which the tail holds the value `N`. The inductive
invariant `IInv` therefore says what each side knows at each of its steps
(`LoopInv`, `AdvanceInv`), that the slot under assembly and the unread slots hold
the packets they should (`AssembledInv`, `UnreadInv`), and how the numbers of the
packets in the ring are ordered with those dispatched (`OrderInv`, `PastInv`). The
lemmas on `Count` and on slots carry the modular arithmetic.

**`RingBufferRefinement`** (the same constants): `RingImplementsQueue`, that the
unlocked ring implements `PacketQueue`. The queue of the abstract specification is
read off the slots between tail and head; with the invariant of `RingBufferProofs`,
every step of the ring is a step of the queue or leaves it as it is. A packet is
offered when `advanceHead` measures and enters, or is refused, when it stores the
head; it is taken when the work loop dispatches and removed when the tail moves. The
lemmas `QueuedGrows`, `QueuedShrinks`, `QueuedWrapped`, `QueuedKept` say what each
store does to the sequence.

**`PS2ControllerProofs`** (any requests, commands, calls, devices, timeouts and
processors): `CounterBalanced`, that `_ignoreInterrupts` is 1 exactly while the work
loop polls, on every path through `processRequest`, `readDataPort` and
`setCommandByteGated`; and `PollsAlone`, that an interrupt routine runs beside a poll
only if it had passed its test when the poll began. `PollingAlone` alone is not
inductive: the interrupt routine starts on the strength of the counter, so the counter
must be tied to the label of the work loop (`IInv`).

**`ControllerDataProofs`** (the same constants): `DataKeepsOrder`, that a device's data
reaches `interruptOccurred` in order and none of it twice, however late or mute the
devices are, whatever values the data has and on any number of processors, until a
poll overlaps the interrupt routine. A byte passes from the device through the output
buffer to its driver, and on the way `readDataPort` may set one aside or the interrupt
routine have read one that it has not dispatched. `Order` says that each of these
stations holds only data younger than all that was dispatched, and younger than what
was taken from the port before; its lemmas follow one byte from station to station.
The invariant `DInv` is that of `PS2ControllerProofs` and, without an overlap, the
order (`Ordered`), the shape of the sequences (`Shape`) and what makes a step move the
byte it means (`Port`): a reader that saw a byte in the output buffer still finds it
there, and a byte is set aside only during a read.

**`PowerManagementProofs`** (any requests and calls of the form the code has,
`RequestAssumption` and `CallsAssumption`): `RetainedOncePerCall`, that the controller
is retained once for each thread call that is pending, waits for the gate or is under
way, however often a pending one is given a new state. The release is part of the acknowledgement, so the
invariant says that the acknowledgement is the last item of the work loop's agenda and
that what is under way on the port is no acknowledgement.

**`InterruptActionsProofs`** (any number of starts and processors): `OwnActionsLive`,
that packet actions, and interrupt routines with a byte of their own device, call no
action that is gone, and on one processor no interrupt routine does. The invariant
ties the installed flag, the event source, the handler and the pointers to the stage
`start` or `stop` has reached (`StageInv`); a packet under way implies that its driver
has not passed `removeEventSource` (`PacketInv`), a handler that runs that its own
driver has not passed `disableInterrupt` (`VectorInv`), and on one processor that
neither driver has moved at all (`IsrInv`).

**`KeyboardMacrosProofs`** (any keys, macros, modifiers and times):
`PacketsNeverLost` and `MacrosNeverLate`. The two properties are inductive together
with the types (`IInv`): what is held back must be known to be a beginning of some
macro to show that the packet that completes it completes that macro, and known to
be in time to show that the replaced sequence is. `KeptInOrder` follows the three
sequences through the five ways a packet can leave.

**`SynapticsTouchProofs`** (any packets, settings, messages and profiles):
`DragsEnd`. The property is inductive, and the work is in the composition: one lemma
for each phase a packet passes shows that the phase keeps the drag's exit, and
`PacketExit` puts them together as the code does.

Only model-checked: all liveness properties (fairness is outside the prover);
`Configuration` and so `KeyboardKeys`, whose translation of nested arrays and links
is recursive; the properties of `MiddleButton`, `KeyboardInput` and
`PacketAssembly`; and the remaining ones of `PS2Controller`, `PowerManagement` and
`SynapticsTouch`. `MiddleButton` is finite and its run explores all of it.

## 5. What is not modelled

- Start, stop and discovery of services, the ACPI nub: allocation, matching and
  publishing, in the order the kernel calls them. The states they leave are the
  initial states of the modules. `stop` of the Synaptics driver (S:751–775) releases
  the scroll and button timers and not the drag timer.
- Identification of devices in `probe` (`getModel`, `isItALPS`, the Synaptics and
  Sentelic queries): request sequences whose result decides only whether the driver
  is loaded.
- The distances of pointer and wheel, filters, `ignoredeltas`, swipes of three
  fingers, the ThinkPad trackpoint's buttons and packets of extended W mode other
  than those of the second finger: arithmetic on positions, without control of its
  own. The events ALPS and Sentelic packets are turned into, for the same reason.
- The keyboard's ACPI notifications (K:1131–1169), which hand a make, a break or both to
  `invertMacros` and `dispatchKeyboardEventWithPacket` in a thread of ACPI, without the
  gate, so that they may overlap with a packet of the work loop. The calls of ACPI for
  brightness, of which only the levels and the failures remain, and the notification of
  a key (`RKAx`, K:1655), which changes nothing in the driver.
- `dispatchMessage`'s loop over the services that want a message is one step, and so
  is the count of attached mice (one mouse stands for it).
- Concurrency that is left out: `setParamProperties` calls its gated routine without
  the gate (K:968–969, S:2801), so that settings may change in the middle of a packet
  or during the power handler. The models change them between packets. Within a
  packet of the keyboard the two lookups of the maps may then see different ones, and
  beside a toggle of the function key mode `fkeymode` and the map may end up in
  different modes.
- A cycle of links in a Platform Profile (C:2236), which the code follows until the
  stack is used up: excluded by `LinksAssumption`.
- The daemon and the preference pane (user-space I/O), and code that is compiled out.

Simplifications: stores become visible in program order (x86, provided the compiler
keeps the order); `resetController` is one step;
`kCB_SystemFlag` is not modelled; time is counted in ticks against thresholds kept in
their order, so that the five seconds promised for a power change are not checked.
