SPECIFICATION Spec
CONSTANTS
    Key <- AllKeys
    Breakless <- BreaklessKeys
    Pause = TRUE
    Slots = 3
    MaxWire = 6
    MaxPresses = 3
    MaxResets = 1
    MaxSleeps = 1
INVARIANTS NoStuckKey BitsAgree ModifiersAgree
CHECK_DEADLOCK FALSE
