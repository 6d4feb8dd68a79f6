---------------------------- MODULE DriverRequests ----------------------------
(***************************************************************************)
(* The command lists the drivers submit to the controller (PS2Request).    *)
(* A command is a record: "command" is its kPS2C_ code without the prefix; *)
(* a byte written to a device has the "effect" it has on the device, a     *)
(* comparing read the tag of the byte it expects, and a change of the      *)
(* command byte the bits to set and to clear.                              *)
(***************************************************************************)
EXTENDS Naturals, Sequences

WriteDataPort(effect) == [command |-> "WriteDataPort", effect |-> effect]
TransmitToMouse == [command |-> "WriteCommandPort"]
ReadDataPort == [command |-> "ReadDataPort"]
ReadAck == [command |-> "ReadDataPortAndCompare", expect |-> "ack"]
SendMouse(effect) ==
    [command |-> "SendMouseCommandAndCompareAck", effect |-> effect, expect |-> "ack"]
ReadMouseDataPort == [command |-> "ReadMouseDataPort"]
ReadMouse(expect) == [command |-> "ReadMouseDataPortAndCompare", expect |-> expect]
FlushDataPort == [command |-> "FlushDataPort"]
SleepMS == [command |-> "SleepMS"]
ModifyCommandByte(set, clear) ==
    [command |-> "ModifyCommandByte", set |-> set, clear |-> clear]

(* What a device answers to a byte with the given effect: the three bytes   *)
(* of information stand as one, and a reset ends with $AA $00.              *)
Replies(effect) ==
    CASE effect = "query" -> <<"ack", "info">>
      [] effect = "reset" -> <<"ack", "AA", "00">>
      [] OTHER -> <<"ack">>

(* ApplePS2Keyboard                                                         *)
setLEDs == <<WriteDataPort("none"), ReadAck, WriteDataPort("none"), ReadAck>>

setKeyboardEnable(enable) ==
    <<WriteDataPort(IF enable THEN "enable" ELSE "disable"), ReadAck>>

setKeyboardDefaults == <<WriteDataPort("none"), ReadAck>>

(* ApplePS2Mouse                                                            *)
setMouseEnable(enable) ==
    <<TransmitToMouse, WriteDataPort(IF enable THEN "enable" ELSE "disable"), ReadAck>>

setMouseResolution ==
    <<TransmitToMouse, WriteDataPort("none"), ReadAck,
      TransmitToMouse, WriteDataPort("none"), ReadAck>>

(* The acknowledge of the first byte is not read on its own *)
resetMouse ==
    <<TransmitToMouse, WriteDataPort("disable"),
      TransmitToMouse, WriteDataPort("query"), ReadAck, ReadDataPort>>

getMouseInformation == <<TransmitToMouse, WriteDataPort("query"), ReadAck, ReadDataPort>>

(* ApplePS2SynapticsTouchPad                                                *)
doHardwareReset ==
    <<SendMouse("disable"), TransmitToMouse, WriteDataPort("reset"), ReadAck,
      SleepMS, ReadMouse("AA"), ReadMouse("00")>>
=============================================================================
