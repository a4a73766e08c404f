\* Safety and liveness of the collector against two FUSE threads on two paths.
CONSTANTS
    Paths = {p1, p2}
    Clients = {c1, c2}
    GC = GC
    NoOwner = NoOwner
    NoPath = NoPath
    Timeout = 1
    Usage <- MCUsage
    Low <- MCLow
    High <- MCHigh
    MaxCalls = 3
    SpuriousFailure = FALSE
SPECIFICATION Spec
INVARIANTS
    TypeOK
    LstatFindsAccessedFile
PROPERTIES
    NoUnlinkWhileOpen
    UnlinkOnlyStaleOrPressure
    EventuallyEvicted
