CONSTANTS
    Chips <- const_Chips
    Names <- const_Names
    Values <- const_Values
    Cuts = {8, 50}
    Addresses = {127, 200, 266}
    Data = {70}
    MaxFaults = 1
    MaxCalls = 4
CHECK_DEADLOCK FALSE
SPECIFICATION Spec
INVARIANTS
    TypeOK
    DecodeFaithful
    BuiltDecodes
    SizeGuessed
    Detected
PROPERTY
    AreasApart
