SPECIFICATION PowerSpec
CONSTANTS
    mouseOff = mouseOff
    keyboardOff = keyboardOff
    defaults = defaults
    leds = leds
    keyboardOn = keyboardOn
    mouseReset = mouseReset
    mouseMode = mouseMode
    mouseOn = mouseOn
    info = info
    Request = {mouseOff, keyboardOff, defaults, leds, keyboardOn, mouseReset, mouseMode, mouseOn, info}
    Async = {}
    Commands <- MCCommands
    Calls = {}
    SMP = FALSE
    DataValue <- Values
    MaxData <- MouseData
    MaxLate = 0
    MaxMute = 0
    mouseWakeFirst = FALSE
    MaxChanges = 2
    MaxImpatience = 0
INVARIANTS ListensAwake
CHECK_DEADLOCK FALSE
