\* Every shape of range, two origins, bodies around the size that is compressed.
CONSTANTS
    Requests <- AllRequests
    Resources <- AllResources
    Configs <- AllConfigs
    CompressAbove = 3
    GzipSize = 2
    NoticeSize = 1
SPECIFICATION Spec
INVARIANTS
    RangesExact
    LengthsTrue
    CacheKeepsApart
\* A client that has lost its place, or whose connection died, stops.
CHECK_DEADLOCK FALSE
