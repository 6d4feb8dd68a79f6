-------------------------- MODULE MCPowerManagement --------------------------
(* Instances of PowerManagement *)
EXTENDS PowerManagement, TLC

CONSTANT info

MCCommands ==
    mouseOff :> setMouseEnable(FALSE) @@ keyboardOff :> setKeyboardEnable(FALSE)
    @@ defaults :> setKeyboardDefaults @@ leds :> setLEDs
    @@ keyboardOn :> setKeyboardEnable(TRUE)
    @@ mouseReset :> resetMouse @@ mouseMode :> setMouseResolution
    @@ mouseOn :> setMouseEnable(TRUE) @@ info :> getMouseInformation

Values == [s \in Stream |-> {"move"}]
MouseData == [s \in Stream |-> IF s = "mouse" THEN 1 ELSE 0]

CallInfo == {<<SubmitAndBlock(info)>>}
=============================================================================
