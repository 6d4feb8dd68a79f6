SPECIFICATION Spec
CONSTANTS
    leds = leds
    defaults = defaults
    enable = enable
    info = info
    reset = reset
    service = service
    Request = {leds, info, reset}
    Async = {leds}
    Commands <- MCCommands
    Calls <- CallMouse
    SMP = TRUE
    DataValue <- Values
    MaxData <- DataOfBoth
    MaxLate = 0
    MaxMute = 1
CONSTRAINT SomeReliable
INVARIANTS StreamsIntact NoRequestFails NoFalseSuccess DataInOrder
CHECK_DEADLOCK FALSE
