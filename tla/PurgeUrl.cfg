SPECIFICATION Spec
CONSTANTS
    Nodes = {"shield", "edge"}
    Edges = {"edge"}
    Upstream <- MCUpstream
    EdgeUrls <- MCEdgeUrls
    Paths <- MCPaths
    Accepts = {"gzip", "br"}
    HttpxDefault = "gzip"
    Targets <- ByUrl
    MaxVersion = 2
    MaxFlights = 3
    Origin = Origin
    None = None
INVARIANTS
    PurgedIsGone
