------------------------------ MODULE PadProtocol ------------------------------
(***************************************************************************)
(* The requests of the four pointing device drivers (mouse, Synaptics,      *)
(* ALPS, Sentelic): the bytes of every request, what the driver does with   *)
(* the answer, and the order in which the driver's operations issue them.   *)
(*                                                                          *)
(* A step of an operation is <<name, argument>>.  Bytes is what the step    *)
(* sends to the device (nothing for a step within the driver) and After     *)
(* what the driver does once the request is complete: its new fields and    *)
(* the steps that follow because of the answer.  The commands around the    *)
(* bytes (transmit prefixes, reads of acknowledges, pauses) are the         *)
(* controller's and left out here.  p holds the driver's fields.            *)
(***************************************************************************)
EXTENDS PadDevice

(* Four resolutions carry an argument of eight bits. *)
Resolutions(v) ==
  << kDP_SetMouseResolution, (v \div 64) % 4, kDP_SetMouseResolution, (v \div 16) % 4,
     kDP_SetMouseResolution, (v \div 4) % 4, kDP_SetMouseResolution, v % 4 >>

getTouchPadData(selector) ==
  << kDP_SetDefaultsAndDisable >> \o Resolutions(selector)
    \o << kDP_GetMouseInformation, kDP_SetDefaultsAndDisable >>

setTouchpadLED(v) ==
  << kDP_SetMouseScaling1To1 >> \o Resolutions(v)
    \o << kDP_SetMouseSampleRate, 10, kDP_SetMouseScaling1To1 >>

setTouchPadModeByte(v) ==
  << kDP_SetDefaultsAndDisable, kDP_SetDefaultsAndDisable,
     kDP_SetMouseScaling1To1, kDP_SetMouseScaling1To1 >> \o Resolutions(v)
    \o << kDP_SetMouseSampleRate, 20, kDP_SetMouseScaling1To1, kDP_SetMouseScaling1To1 >>
    \o Resolutions(3) \o << kDP_SetMouseSampleRate, 200, kDP_Enable >>

setModeByte(v) ==
  << kDP_SetDefaultsAndDisable, kDP_SetDefaultsAndDisable,
     kDP_SetMouseScaling1To1, kDP_SetMouseScaling1To1 >> \o Resolutions(v)
    \o << kDP_SetMouseSampleRate, 20, kDP_SetMouseScaling1To1, kDP_Enable >>

doHardwareReset == << kDP_SetDefaultsAndDisable, kDP_SetDefaultsAndDisable, kDP_Reset >>

(* The mouse driver's requests. *)
setDefaults == << kDP_SetDefaults, kDP_GetMouseInformation >>
setMouseEnable(enable) == << IF enable THEN kDP_Enable ELSE kDP_SetDefaultsAndDisable >>
setMouseSampleRate(rate) == << kDP_SetMouseSampleRate, rate >>
setMouseResolution(resolution) == << kDP_SetMouseResolution, resolution >>
getMouseInformation == << kDP_GetMouseInformation >>
getMouseID == << kDP_GetId >>

(* The ALPS driver's requests. *)
Disable(n) == [i \in 1..n |-> kDP_SetDefaultsAndDisable]
getStatus == Disable(3) \o << kDP_GetMouseInformation >>
setTapEnable(enable) ==
  << kDP_GetMouseInformation >> \o Disable(2)
    \o (IF enable THEN << kDP_SetMouseSampleRate, \h0A >> ELSE << kDP_SetMouseResolution, 0 >>)
setTouchPadEnable(enable) ==
  Disable(4) \o << IF enable THEN kDP_Enable ELSE kDP_SetDefaultsAndDisable >>
setAbsoluteMode == Disable(4) \o << kDP_Enable, kDP_SetPoll >>

(* The Sentelic driver's requests.  A register number or value that the      *)
(* device would take for something else travels with its nibbles swapped or  *)
(* complemented, and the selector says so.  A value of -1, of a read that    *)
(* failed, is not one of the reserved ones and goes out as $FF.              *)
Reserved == {10, 20, 40, 60, 80, 100, 200}

(* Mutant: reserved values are sent as they are. *)
MangleNothing(v, plain, swapped, inverted) == << kDP_SetMouseSampleRate, plain, v % 256 >>

Mangle(v, plain, swapped, inverted) ==
  CASE v \in Reserved -> << kDP_SetMouseSampleRate, swapped, SwapNibbles(v) >>
    [] v \in {\hE9, \hEE, \hF2, \hFF} -> << kDP_SetMouseSampleRate, inverted, 255 - v >>
    [] OTHER -> << kDP_SetMouseSampleRate, plain, v % 256 >>

fsp_reg_read(reg) ==
  << kDP_SetMouseSampleRate, \h66, \h88 >> \o Mangle(reg, \h66, \hCC, \h68)
    \o << kDP_GetMouseInformation >>
fsp_reg_write(reg, val) ==
  Mangle(reg, \h55, \h77, \h74) \o Mangle(val, \h33, \h44, \h47)
fsp_intellimouse_mode ==
  setMouseSampleRate(200) \o setMouseSampleRate(200) \o setMouseSampleRate(80) \o getMouseID

-----------------------------------------------------------------------------
(* The steps of the drivers' operations, in the order of the code. *)

(* setIntellimouseMode of the mouse driver up to the first answer, which     *)
(* decides about the second knock (see After); then the old rate again.      *)
setIntellimouseMode ==
  << <<"rate", 200>>, <<"rate", 100>>, <<"rate", 80>>, <<"id", 3>>, <<"restore", 0>> >>

(* setres: forcesetres with a resmode of 3.  Without it the mouse has its    *)
(* default resolution, 2.                                                    *)
resetMouse(hw) ==
  << <<"defaults", 0>> >>
    \o (IF hw.act THEN << <<"query", 0>> >> ELSE <<>>)
    \o (IF hw.setres THEN << <<"resolution", 3>> >> ELSE <<>>)
    \o << <<"information", IF hw.setres THEN 3 ELSE 2>> >> \o setIntellimouseMode
    \o << <<"length", 0>>, <<"clear", 0>>, <<"enable", 1>> >>

queryCapabilities == << <<"query", 2>>, <<"query", 1>> >>
setTouchpadModeByte == << <<"mode byte", 0>> >>
initTouchPad ==
  << <<"clear", 0>>, <<"buttons up", 0>> >> \o setTouchpadModeByte \o << <<"led", 0>> >>

setTapEnableSteps(enable) == << <<"status", enable>> >>

fsp_write_enable(enable) == << <<"read", FSP_REG_SYSCTL1>>, <<"sysctl", enable>> >>
fsp_opctag_enable ==
  fsp_write_enable(1) \o << <<"read", FSP_REG_OPC_QDOWN>>, <<"qdown", 1>> >> \o fsp_write_enable(0)
fspTouchPadEnable(enable) ==
  << <<"enable", enable>> >> \o fsp_opctag_enable \o << <<"intellimouse", 0>> >>

(* start of each driver, from the lock of the device on. *)
mouseStart(hw) == resetMouse(hw) \o << <<"install", 1>> >>
synapticsStart(hw) ==
  (IF hw.hwreset THEN << <<"reset", 0>> >> ELSE <<>>) \o queryCapabilities
    \o setTouchpadModeByte \o << <<"install", 1>>, <<"led", 0>> >>
alpsStart ==
  setTapEnableSteps(1) \o << <<"absolute", 0>>, <<"pad", 1>>, <<"install", 1>> >>
fspStart == fspTouchPadEnable(1) \o << <<"install", 1>> >>

StartSteps(hw) ==
  CASE hw.driver = "mouse" -> mouseStart(hw)
    [] hw.driver = "synaptics" -> synapticsStart(hw)
    [] hw.driver = "alps" -> alpsStart
    [] OTHER -> fspStart

mouseStop == << <<"enable", 0>>, <<"install", 0>> >>
synapticsStop == << <<"led", 0>>, <<"enable", 0>>, <<"install", 0>> >>
alpsStop == << <<"pad", 0>>, <<"install", 0>> >>
fspStop == fspTouchPadEnable(0) \o << <<"install", 0>> >>

StopSteps(hw) ==
  CASE hw.driver = "mouse" -> mouseStop
    [] hw.driver = "synaptics" -> synapticsStop
    [] hw.driver = "alps" -> alpsStop
    [] OTHER -> fspStop

(* setDevicePowerState with kPS2C_DisableDevice (enable = FALSE) and         *)
(* kPS2C_EnableDevice.                                                       *)
mousePowerState(hw, enable) ==
  IF enable THEN resetMouse(hw) \o << <<"led", 0>> >> ELSE << <<"enable", 0>> >>
synapticsPowerState(enable) == IF enable THEN initTouchPad ELSE << <<"enable", 0>> >>
alpsPowerState(p, enable) ==
  IF enable
  THEN setTapEnableSteps(p.clicking) \o << <<"absolute", 0>>, <<"clear", 0>>, <<"pad", 1>> >>
  ELSE << <<"pad", 0>> >>
fspPowerState(enable) ==
  IF enable THEN << <<"clear", 0>> >> \o fspTouchPadEnable(1) ELSE fspTouchPadEnable(0)

setDevicePowerState(hw, p, enable) ==
  CASE hw.driver = "mouse" -> mousePowerState(hw, enable)
    [] hw.driver = "synaptics" -> synapticsPowerState(enable)
    [] hw.driver = "alps" -> alpsPowerState(p, enable)
    [] OTHER -> fspPowerState(enable)

(* setParamProperties of the drivers after the settings are stored: a new    *)
(* mode byte of the Synaptics driver is sent before the bytes of the packet  *)
(* under way are forgotten.                                                  *)
mouseSettings == << <<"attached", 0>> >>
synapticsSettings(old, p) ==
  (IF p.modeByte # old.modeByte THEN setTouchpadModeByte \o << <<"clear", 0>> >> ELSE <<>>)
    \o << <<"attached", 0>> >>
alpsSettings(p) == setTapEnableSteps(p.clicking) \o << <<"absolute", 0>> >>

SettingsSteps(hw, old, p) ==
  CASE hw.driver = "mouse" -> mouseSettings
    [] hw.driver = "synaptics" -> synapticsSettings(old, p)
    [] hw.driver = "alps" -> alpsSettings(p)
    [] OTHER -> <<>>

-----------------------------------------------------------------------------
Bytes(p, s) ==
  CASE s[1] = "defaults" -> setDefaults
    [] s[1] = "query" -> getTouchPadData(s[2])
    [] s[1] = "resolution" -> IF p.info = -1 THEN setMouseResolution(s[2]) ELSE <<>>
    [] s[1] = "information" ->
         IF p.info = -1 THEN getMouseInformation ELSE setMouseResolution(s[2])
    [] s[1] = "rate" -> setMouseSampleRate(s[2])
    [] s[1] = "restore" -> setMouseSampleRate(p.info % 256)
    [] s[1] = "id" -> getMouseID
    [] s[1] = "enable" -> setMouseEnable(s[2] = 1)
    [] s[1] = "reset" -> doHardwareReset
    [] s[1] = "set mode byte" -> setTouchPadModeByte(s[2])
    [] s[1] = "set led" -> setTouchpadLED(s[2])
    [] s[1] \in {"status", "status again"} -> getStatus
    [] s[1] = "tap" -> setTapEnable(s[2] = 1)
    [] s[1] = "pad" -> setTouchPadEnable(s[2] = 1)
    [] s[1] = "absolute" -> setAbsoluteMode
    [] s[1] = "read" -> fsp_reg_read(s[2])
    [] s[1] = "sysctl" ->
         fsp_reg_write(FSP_REG_SYSCTL1, PutBit(p.value, FSP_BIT_EN_REG_CLK, s[2] = 1))
    [] s[1] = "qdown" ->
         fsp_reg_write(FSP_REG_OPC_QDOWN, PutBit(p.value, FSP_BIT_EN_OPC_TAG, s[2] = 1))
    [] s[1] = "intellimouse" -> fsp_intellimouse_mode
    [] OTHER -> <<>>

(* What a query of the pad's abilities settles, and the queries it leads to. *)
AfterQuery(hw, p, selector, ok) ==
  CASE hw.driver = "mouse" /\ selector = 0 ->
         << p, IF ok /\ hw.device = "synaptics" THEN << <<"query", 2>> >> ELSE <<>> >>
    [] hw.driver = "mouse" /\ selector = 2 ->
         << p, IF ok THEN << <<"query", 9>> >> ELSE <<>> >>
    [] selector = 2 -> << [p EXCEPT !.extended = ok], <<>> >>
    [] selector = 1 ->
         << p, IF p.extended THEN << <<"query", 9>>, <<"query", 12>> >> ELSE <<>> >>
    [] selector = 9 -> << [p EXCEPT !.ledpresent = IF ok THEN hw.led ELSE @], <<>> >>
    [] OTHER -> << [p EXCEPT !.ewsupported = @ \/ (ok /\ hw.ew)], <<>> >>

(* The answer to a request for the mouse's identity; 3 leads to the second   *)
(* knock. *)
AfterID(d, p, asked, ok) ==
  CASE asked = 3 /\ ok /\ d.id = 3 ->
         << [p EXCEPT !.type = 3],
            << <<"rate", 200>>, <<"rate", 200>>, <<"rate", 80>>, <<"id", 4>> >> >>
    [] asked = 3 -> << [p EXCEPT !.type = IF ok /\ d.id = 4 THEN 4 ELSE 0], <<>> >>
    [] OTHER -> << [p EXCEPT !.type = IF ok /\ d.id = 4 THEN 4 ELSE 3], <<>> >>

(* setTouchpadModeByte() of the Synaptics driver up to its request, which    *)
(* carries the byte as it is now. *)
AfterModeByte(p) ==
  LET q == IF p.dynamic THEN p
           ELSE [p EXCEPT !.modeByte = PutBit(@, 4, p.ewsupported), !.extendedw = p.ewsupported]
  IN << q, << <<"set mode byte", q.modeByte>> >> >>

(* updateTouchpadLED up to its request, which carries the light as it is to  *)
(* be now. *)
updateTouchpadLED(p) ==
  IF p.ledpresent THEN << <<"set led", IF p.ignoreall THEN \h88 ELSE \h10>> >> ELSE <<>>

After(hw, d, p, s, ok) ==
  CASE s[1] = "defaults" -> << [p EXCEPT !.ledpresent = FALSE], <<>> >>
    [] s[1] = "query" -> AfterQuery(hw, p, s[2], ok)
    [] s[1] = "information" ->
         << [p EXCEPT !.info = IF @ = -1 /\ ok THEN d.rates[3] ELSE @], <<>> >>
    [] s[1] = "id" -> AfterID(d, p, s[2], ok)
    [] s[1] = "length" -> << [p EXCEPT !.packetLength = IF p.type = 0 THEN 3 ELSE 4], <<>> >>
    [] s[1] = "clear" -> << [p EXCEPT !.buffer = <<>>], <<>> >>
    [] s[1] = "led" -> << p, updateTouchpadLED(p) >>
    [] s[1] = "buttons up" -> << [p EXCEPT !.clicked = FALSE], <<>> >>
    [] s[1] = "mode byte" -> AfterModeByte(p)
    [] s[1] = "attached" ->
         IF p.attached THEN << [p EXCEPT !.ignoreall = p.stops], << <<"led", 0>> >> >>
         ELSE << p, <<>> >>
    [] s[1] = "status" ->
         << p, << <<"tap", IF ok /\ d.tap THEN 0 ELSE s[2]>>, <<"status again", 0>> >> >>
    [] s[1] = "read" -> << [p EXCEPT !.value = IF ok THEN RegisterRead(d) ELSE -1], <<>> >>
    [] s[1] = "intellimouse" ->
         << [p EXCEPT !.packetLength = IF ok /\ d.id = 4 THEN 4 ELSE @], <<>> >>
    [] s[1] = "install" -> << [p EXCEPT !.installed = s[2] = 1], <<>> >>
    [] OTHER -> << p, <<>> >>
================================================================================
