SPECIFICATION Spec
CONSTANTS
    None = None
    NoId = "none"
    NoType = "unknown"
    LowerId <- MCLowerId
    Caps <- MCCaps
    Preferred <- MCPreferred
    Apps <- MCApps
    Upgraded <- MCNewer
    Quiets <- MCQuiets
    Limits = {1, 99}
    Platforms = {"climate", "sensor", "switch"}
    Moved <- MCMoved
    Obsolete <- MCObsolete
    Leftover <- MCLeftover
    Budgets <- MCBudgets
INVARIANTS
    SettledAsLive
PROPERTIES
    RememberedKept
    ReloadsEnd
CHECK_DEADLOCK FALSE
