CONSTANTS
    Rates <- const_Rates
    Modes = {0, 1, 64}
    Interfaces <- const_Interfaces
    Lines <- const_Lines
    Chars = {0, 255}
SPECIFICATION Spec
INVARIANTS
    TypeOK
    RateNear
    Encodable
    Nearest
    Refused
    Applied

    
