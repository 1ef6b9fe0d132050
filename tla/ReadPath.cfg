CONSTANTS
    PacketSize = 4
    ChunkSizes <- const_ChunkSizes
    MaxBulk = 8
    Sizes <- const_Sizes
    MaxSent = 7
SPECIFICATION Spec
INVARIANTS
    TypeOK
    Conservation
    BufferAligned
    NeverReached
PROPERTIES
    ReadProgress
    StreamSpec
\* After a transfer was freed in flight nothing is defined any more.
CHECK_DEADLOCK FALSE
