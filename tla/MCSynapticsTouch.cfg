CONSTANTS
    Profiles <- MCProfiles
    Settings <- MCSettings
    Packets <- MCPackets
    Typing <- MCTyping
    Switching <- MCSwitching
    Changing <- MCChanging
SPECIFICATION Spec
INVARIANTS
    DragHasExit
PROPERTIES
    HeldStaysDown
    ButtonsComeUp
    MomentumEnds
