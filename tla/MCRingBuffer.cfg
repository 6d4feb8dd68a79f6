CONSTANTS
    Stride <- MCStride
    Length <- MCLength
    Slots <- MCSlots
    MaxPackets <- MCMaxPackets
SPECIFICATION FairSpec
INVARIANTS WholePackets InOrder
PROPERTIES UnreadKept ImplementsQueue EveryPacketLeaves
CHECK_DEADLOCK FALSE
