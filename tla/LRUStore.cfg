SPECIFICATION Spec
CONSTANTS
    Keys = {"a1", "a2", "b1"}
    Prefixed <- PrefixSets
    Capacity = 3
    Bodies = {1, 2, 4}
    BodySize <- Lengths
    Windows = {1}
    TTLs = {1}
    MaxClock = 2
    Absent = Absent
INVARIANTS
    TypeOK
    SizeAccounting
    WithinCapacity
    RecencyOrder
PROPERTIES
    EvictsLeastRecent
    ImplementsCacheStore
