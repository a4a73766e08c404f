\* Unmount while the collector still works on a closed file: azs_destroy stops early.
CONSTANTS
    Paths = {p1, p2}
    Clients = {c1, c2}
    GC = GC
    NoOwner = NoOwner
    NoPath = NoPath
    Timeout = 1
    Usage <- MCUsage
    Low <- MCLow
    High <- MCHigh
    MaxCalls = 2
    SpuriousFailure = FALSE
SPECIFICATION Spec
INVARIANT DestroyEmptiesCache
