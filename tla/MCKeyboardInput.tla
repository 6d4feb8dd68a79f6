--------------------------- MODULE MCKeyboardInput ---------------------------
(* The instance of KeyboardInput: the keys of Ctrl+Alt+Delete, with a       *)
(* breakless key.                                                           *)
EXTENDS KeyboardInput

BreaklessKeys == {<<1, "0E">>}
SaluteKeys == {LeftCtrl, LeftAlt, Delete}
AllKeys == SaluteKeys \cup BreaklessKeys
=============================================================================
