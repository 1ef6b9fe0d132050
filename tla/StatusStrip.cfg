CONSTANTS
    PacketSizes <- const_PacketSizes
    MaxLength = 24
SPECIFICATION Spec
INVARIANTS
    TypeOK
    Stripped
    LengthExact
    MovesInside
\* The loop ends: the last state has no successor.
CHECK_DEADLOCK FALSE
