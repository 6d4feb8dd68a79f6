SPECIFICATION Spec
CONSTANTS
    SMP = TRUE
    MaxStarts = 2
INVARIANTS NoDeadCall
CHECK_DEADLOCK FALSE
