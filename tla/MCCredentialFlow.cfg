SPECIFICATION Spec
CONSTANTS
    None = None
    Appliances <- MCAppliances
    Flows = {1, 2}
    Entries = {1, 2}
    Typed <- MCTyped
    Starts <- MCStarts
    MaxRounds = 2
    MaxTokens = 1
PROPERTIES
    StoredAsAccepted
    ExchangeEnds
CHECK_DEADLOCK FALSE
