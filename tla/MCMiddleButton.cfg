SPECIFICATION Spec
CONSTANTS
    Masked = FALSE
INVARIANTS StateTellsButtons WaitsWithTimer ChordIsMiddle
PROPERTIES NoPhantomRelease NoClickLost
