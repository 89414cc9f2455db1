SPECIFICATION RequestSpec
CONSTANTS
    Inputs <- MCInputs
    DefaultTTL = 1
    MinCompress = 2
    HasBrotli = TRUE
    PackedLength <- Packed
    MaxClock = 3
    None = None
INVARIANTS
    ParsedAsDirected
    AnswersLikeOrigin
    ServedAsDirected
