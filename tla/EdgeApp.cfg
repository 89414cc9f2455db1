SPECIFICATION FairSpec
CONSTANTS
    Files = {f1, f2}
    Healths = {h1, h2}
    Revals = {v1, v2}
    MaxRetries = 2
INVARIANTS
    TypeOK
    DrainNotLost
    DrainedIsQuiet
PROPERTIES
    ShutdownEnds
    TasksEnd
CHECK_DEADLOCK FALSE
