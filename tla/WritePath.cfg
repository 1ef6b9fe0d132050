CONSTANTS
    Writes = {w1, w2}
    ChunkSizes <- const_ChunkSizes
    Sizes <- const_Sizes
SPECIFICATION Spec
INVARIANTS
    TypeOK
    PrefixOnWire
    InsideBuffer
    OneTransferEach
    ReturnExact
PROPERTIES
    WriteEnds
