SPECIFICATION FairSpec
CONSTANTS
    Nodes = {"shield", "edge"}
    Edges = {"edge"}
    Upstream <- MCUpstream
    EdgeUrls <- MCEdgeUrls
    Paths <- MCPaths
    Accepts = {"gzip", "br"}
    HttpxDefault = "gzip"
    Targets <- ByKey
    MaxVersion = 2
    MaxFlights = 3
    Origin = Origin
    None = None
INVARIANTS
    TypeOK
    PurgedIsGone
PROPERTIES
    PurgeEnds
