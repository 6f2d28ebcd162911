SPECIFICATION FairSpec
CONSTANTS
    TimeoutLimit = 2
    MaxFaults = 2
    MaxCancels = 1
INVARIANTS
    PushIsLive
    NoOrphanSession
PROPERTIES
    ClosedStaysClosed
    PushRecovers
