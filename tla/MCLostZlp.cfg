SPECIFICATION MCSpec
CONSTANTS
    AltSettings = {0, 1, 2}
    MaxSent = 3
INVARIANT WholeFrameEndsTransfer
