SPECIFICATION FairSpec
CONSTANTS
    EdgeList <- MCEdgeList
    RegionOf <- MCRegionOf
    RegionPriority <- MCRegionPriority
    DefaultRegion = "eu"
    Requests = {q1}
    CheckSlots = {1, 2}
    ClientRegions = {"us", "sa"}
    MaxFailures = 2
    MaxFailoverAttempts = 1
    NoEdge = NoEdge
INVARIANTS
    TypeOK
    RoutesByProximity
    ThresholdMeansUnhealthy
PROPERTIES
    RequestsEnd
    DownIsNoticed
    UpIsNoticed
