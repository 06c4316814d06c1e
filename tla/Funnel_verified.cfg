SPECIFICATION FunnelSpec
CONSTANTS
    FoundPath <- MCFoundPath
    ResolvesTo <- MCResolvesTo
    Fenced = {"link"}
    Blobs <- MCBlobs
    OptionSets <- MCOptionSets
    SparsePercent = 60
    EscalateOver = 5
    PrefixSize = 1
    MaxMishaps = 1
INVARIANT VerifiedByteIdentical
CHECK_DEADLOCK FALSE
