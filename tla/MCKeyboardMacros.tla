-------------------------- MODULE MCKeyboardMacros --------------------------
(* An instance of KeyboardMacros: three macros that begin alike, one that   *)
(* asks for the Shift key, and two entries that are not macros.             *)
EXTENDS KeyboardMacros, TLC

CONSTANTS a, b, shiftDown, shiftUp, x, y, z

TypedKeys == {a, b, shiftDown, shiftUp}
Outputs == {x, y, z}
ShiftMakes == (shiftDown :> "shift")
ShiftBreaks == (shiftUp :> "shift")

MacroEntry(sequence, output, mask, any) ==
    [marked |-> TRUE, odd |-> FALSE, sequence |-> sequence, output |-> output,
     mask |-> mask, any |-> any, compare |-> {}]

Data == <<
    [MacroEntry(<<a>>, x, {}, FALSE) EXCEPT !.marked = FALSE],
    MacroEntry(<<a, b>>, x, {"shift"}, TRUE),
    [MacroEntry(<<b>>, x, {}, FALSE) EXCEPT !.odd = TRUE],
    MacroEntry(<<a, b, a>>, y, {"shift"}, FALSE),
    MacroEntry(<<shiftDown, b>>, z, {}, FALSE)>>
=============================================================================
