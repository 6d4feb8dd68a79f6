SPECIFICATION PowerFairSpec
CONSTANTS
    mouseOff = mouseOff
    keyboardOff = keyboardOff
    defaults = defaults
    leds = leds
    keyboardOn = keyboardOn
    mouseReset = mouseReset
    mouseMode = mouseMode
    mouseOn = mouseOn
    info = info
    Request = {mouseOff, keyboardOff, defaults, leds, keyboardOn, mouseReset, mouseMode, mouseOn, info}
    Async = {}
    Commands <- MCCommands
    Calls <- CallInfo
    SMP = FALSE
    DataValue <- Values
    MaxData <- MouseData
    MaxLate = 0
    MaxMute = 0
    mouseWakeFirst = FALSE
    MaxChanges = 3
    MaxImpatience = 1
INVARIANTS PowerStateHolds RetainedWhileCalled
PROPERTIES QuietOffline EveryChangeAcknowledged
CHECK_DEADLOCK FALSE
