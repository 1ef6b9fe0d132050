CONSTANTS
    PacketSize = 4
    PacketsPerTransfer = 2
    NumTransfers = 2
    MaxSent = 5
SPECIFICATION Spec
INVARIANTS
    TypeOK
    Accounting
    OnePlaceEach
PROPERTIES
    SilenceEnds
    StreamSpec
\* The function has returned.
CHECK_DEADLOCK FALSE
