SPECIFICATION Spec
CONSTANTS
    None = None
    Slots = {"s1", "s2", "c1"}
    Payloads <- MCPayloads
    Leftover <- MCLeftover
    Budgets <- MCBudgets
    Confirmed = {"dl"}
    Courses = {"c1", "dl"}
    PersonalLabels <- MCPersonal
    Names = {"Jeans", "Mine"}
    Kinds = {"washer", "aircon"}
    Modes = {"Off", "Quiet", "Windfree"}
    SupportedModes = {"Off"}
    MaxWait = 2
INVARIANTS
    SavedAndShown
PROPERTIES
    PickRunsProgram
    DialogSettles
CHECK_DEADLOCK FALSE
