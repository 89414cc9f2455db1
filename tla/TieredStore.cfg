SPECIFICATION Spec
CONSTANTS
    Keys <- MCKeys
    Unsafe = {"/", ":", "|"}
    Prefixed <- PrefixSets
    Capacity = 2
    Bodies = {1, 2}
    BodySize <- Lengths
    TTLs = {0}
    Windows = {1}
    MaxClock = 1
    Absent = Absent
    Torn = Torn
INVARIANTS
    TypeOK
    HotNotCold
    SameEntry
PROPERTIES
    ImplementsCacheStore
