SPECIFICATION MCFairSpec
CONSTANTS
    c1 = c1
    c2 = c2
    power = power
    mode = mode
    on = on
    off = off
    Nobody = Nobody
    Fields = {power, mode}
    Values = {on, off}
    Commands = {c1}
    Body <- Single
    ListWrites = {c1}
    Retrying = {}
    MaxChanges = 1
PROPERTIES
    AppliesAtomically
    CacheConverges
