CONSTANTS
    Chips <- const_Chips
    Names <- const_Names
    Values <- const_Values
    Cuts = {8, 50}
    Addresses = {127, 200, 266}
    Data = {70}
    MaxFaults = 0
    MaxCalls = 4
SPECIFICATION Spec
INVARIANT
    StringsSurvive
