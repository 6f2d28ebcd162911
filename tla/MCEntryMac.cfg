SPECIFICATION MCSpec
CONSTANTS
    None = None
    Names <- MCNames
    Hosts <- MCHosts
    Placeholders <- MCPlaceholders
    Entries <- MCEntries
    Appliances <- MCAppliances
    Starts <- MCStarts
    Recognised <- MCRecognised
    NewDi <- MCNewDi
    MaxMoves = 2
    PortRange <- MCRange
    Preferred <- MCPreferred
    MulticastPort = 6
    ProbedHosts <- MCProbed
    Jobs <- MCJobs
PROPERTY FollowsItsOwnMac
CHECK_DEADLOCK FALSE
