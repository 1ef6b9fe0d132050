CONSTANTS
    PacketSize = 4
    PacketsPerTransfer = 2
    NumTransfers = 2
    MaxSent = 5
SPECIFICATION Spec
INVARIANT NothingOutstanding
\* The function has returned.
CHECK_DEADLOCK FALSE
