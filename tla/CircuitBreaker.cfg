SPECIFICATION FairSpec
CONSTANTS
    Callers = {c1, c2, c3}
    FailureThreshold = 2
    RecoveryTimeout = 2
    HalfOpenMaxCalls = 2
    SuccessThreshold = 3
INVARIANTS
    TypeOK
    AssertionsHold
    ProbeSlotsHeld
    TrippedByThreshold
    CleanEpisodes
PROPERTY
    Recovers
