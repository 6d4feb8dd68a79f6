SPECIFICATION Spec
CONSTANTS
    Section <- Sections
    PlatformList <- Lists
    Manufacturer = "HPQOEM"
    Product = "1619"
    RMCF <- OverrideMethod
    Override <- Overrides
    Machine <- Machines
    SwipeAction <- SwipeUp
    MaxDown = 3
INVARIANTS NothingStaysDown TimerWhileHeld SettingsHold ConfigurationMerged
PROPERTIES LightFollowsKeys
