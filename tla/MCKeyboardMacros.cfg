SPECIFICATION Spec
CONSTANTS
    a = a
    b = b
    shiftDown = shiftDown
    shiftUp = shiftUp
    x = x
    y = y
    z = z
    Key <- TypedKeys
    Output <- Outputs
    Makes <- ShiftMakes
    Breaks <- ShiftBreaks
    MacroData <- Data
    MaxMacroTime = 1
    MaxTyped = 4
    MaxWaiting = 2
    MaxWakes = 1
INVARIANTS NothingLost MacrosInTime
PROPERTIES HeldBackLeave
CHECK_DEADLOCK FALSE
