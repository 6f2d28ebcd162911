CONSTANTS
    reader = reader
    executor = executor
    Nobody = Nobody
    NoView = NoView
    Threads = {reader, executor}
    MaxReps = 2
    MaxExtras = 2
SPECIFICATION FairSpec
INVARIANTS
    NoChangeForgotten
    ExtrasReachViews
PROPERTIES
    PublishedInTheEnd
