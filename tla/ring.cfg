CONSTANTS
    Items = {a, b, c}
    Capacity = 4
    Nothing = Nothing
SPECIFICATION RingSpec
INVARIANT RingTypeOK
PROPERTY DropsOldest
