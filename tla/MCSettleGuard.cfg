SPECIFICATION MCSpec
CONSTANTS
    c1 = c1
    c2 = c2
    power = power
    mode = mode
    on = on
    off = off
    Nobody = Nobody
    Fields = {power}
    Values = {on, off}
    Commands = {c1, c2}
    Body <- Opposed
    ListWrites = {}
    Retrying = {c1}
    MaxChanges = 0
INVARIANTS
    SweepHonoursWindow
    WindowKept
    FailedWindowOnlyPutBack
