SPECIFICATION Spec
CONSTANTS
    SeqMod = 6
    Starts = {0, 4}
    MaxFrame = 3
    FrameLen <- Lengths
    Lag = 3
INVARIANTS
    WholeFrame
    InOrder
    NeverDeaf
