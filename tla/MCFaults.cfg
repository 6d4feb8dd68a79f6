SPECIFICATION FairSpec
CONSTANTS
    leds = leds
    defaults = defaults
    enable = enable
    info = info
    reset = reset
    service = service
    Request = {defaults, enable, service}
    Async = {defaults, enable}
    Commands <- MCCommands
    Calls <- CallService
    SMP = TRUE
    DataValue <- Values
    MaxData <- NoData
    MaxLate = 1
    MaxMute = 1
INVARIANTS PollingAlone
PROPERTIES CompletedInOrder EveryRequestCompletes
CHECK_DEADLOCK FALSE
