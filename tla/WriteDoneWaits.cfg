CONSTANTS
    Writes = {w1, w2}
    ChunkSizes <- const_ChunkSizes
    Sizes <- const_Sizes
SPECIFICATION Spec
INVARIANT DoneWaits
