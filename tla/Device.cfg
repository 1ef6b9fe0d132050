CONSTANTS
    dual = dual
    single = single
    other = other
    Devices = {dual, single, other}
    Handles = {h1, h2, h3}
    Interfaces = {0, 1}
    Chip <- const_Chip
    None = None
SPECIFICATION Spec
INVARIANTS
    TypeOK
    NoHandleLost
    ReadyToTransfer
    LeftoverOfThisDevice
    MarkKept
