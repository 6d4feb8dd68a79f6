--------------------------- MODULE MCPS2Controller ---------------------------
(* Instances of PS2Controller: which requests there are and who calls what. *)
EXTENDS PS2Controller, TLC

CONSTANTS leds, defaults, enable, info, reset, service

(* The commands of the interface that no driver sends *)
Service == <<ModifyCommandByte({}, {"translate"}), FlushDataPort, ReadMouseDataPort>>

MCCommands ==
    leds :> setLEDs @@ defaults :> setKeyboardDefaults @@ enable :> setMouseEnable(TRUE)
    @@ info :> getMouseInformation @@ reset :> doHardwareReset @@ service :> Service

CallMouse == {<<SubmitAndBlock(info), SubmitAndBlock(reset)>>}
CallService == {<<SubmitAndBlock(service), SetCommandByte({"translate"}, {})>>}

(* A byte of a mouse packet may look like an acknowledge *)
Values == [s \in Stream |-> IF s = "mouse" THEN {"move", "ack"} ELSE {"scan"}]

DataOfBoth == [s \in Stream |-> IF s = "mouse" THEN 2 ELSE 1]
NoData == [s \in Stream |-> 0]

(* The properties about reliable devices say nothing of the other states,   *)
(* and none of these leads back.                                            *)
SomeReliable == \E s \in Stream : Reliable(s)
=============================================================================
