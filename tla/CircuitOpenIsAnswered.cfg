SPECIFICATION Spec
CONSTANTS
    Keys = {k1}
    Requests = {r1, r2, r3}
    Revals = {v1}
    MaxVersion = 1
    FailureThreshold = 1
    RecoveryTimeout = 1
    HalfOpenMaxCalls = 1
    SuccessThreshold = 1
    NoTask = NoTask
    NoKey = NoKey
    Absent = Absent
PROPERTY
    CircuitOpenIsAnswered
