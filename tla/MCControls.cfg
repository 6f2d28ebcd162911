SPECIFICATION MCSpec
CONSTANTS
    None = None
    Window = 3
    Threshold = 3
    Lengths = {2, 4}
    Jitter <- MCJitter
    Horizon = 7
    Budgets <- MCBudgets
    AirConditioners <- MCBoards
    Temps <- MCTemps
    Hours <- MCHours
    Slots <- MCSlots
    CardBudgets <- MCCardBudgets
    Laundries <- MCLaundries
    Turns <- MCTurns
    Devices <- MCDevices
    Actual <- MCActual
    Vals <- MCVals
    Plans <- MCPlans
    Own <- MCOwn
    Watched <- MCWatched
    DebugBudgets <- MCDebugBudgets
INVARIANTS
    CardShownIsOffered
    CardChosenIsShown
    
    SwitchAsTheCourse
    DebugAside
PROPERTIES
    FinishHeldOneWindow
    FinishTimeSteady
    CardKeepsTheRest
    WriteVerdictsTrue
CHECK_DEADLOCK FALSE
