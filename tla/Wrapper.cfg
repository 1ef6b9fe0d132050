CONSTANTS
    dual = dual
    single = single
    Devices = {dual, single}
    Handles = {h1, h2, h3}
    Interfaces = {0, 1}
    Chip <- const_Chip
    None = None
SPECIFICATION ClassSpec
INVARIANT OpenAsAsked
