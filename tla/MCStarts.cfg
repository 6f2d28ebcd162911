SPECIFICATION MCSpec
CONSTANTS
    bake = bake
    broil = broil
    keep = keep
    lowBake = lowBake
    clean = clean
    wizard = wizard
    None = None
    Specs <- MCSpecs
    Reports <- MCReports
    Tried <- MCTried
    Given <- MCGiven
    MaxReports = 2
    HomeCare = {wizard}
    NeverStartable = {broil, clean}
    MicroModes = {}
    OvenModes = {bake, broil, keep}
    OvenTemps <- MCOven
    MicroTemps <- MCMicro
    OpenTimeMax = 9
    UndeclaredTimeMin = 1
    Kinds <- MCKinds
    Commands <- MCCommands
    CommandsOf <- MCCommandsOf
    Settings <- MCSettings
    CourseDefault <- MCDefault
    StillListed = FALSE
    MaxPanel = 1
    MaxFaults = 2
    MaxCommands <- MCSent
    MaxTogether <- MCTogether
INVARIANTS
    CooksAsShown
    PanelDropsChoices
    BridgeShowsSwept
    StartRanOnce
PROPERTIES
    ChoicesCanStart
    StartsAndStopsAsShown
CHECK_DEADLOCK FALSE
