\* Spec section 4.2: a candidate with an open handle stays queued.
CONSTANTS
    Paths = {p1}
    Clients = {c1, c2}
    GC = GC
    NoOwner = NoOwner
    NoPath = NoPath
    Timeout = 1
    Usage <- MCUsage
    Low <- MCLow
    High <- MCHigh
    MaxCalls = 3
    SpuriousFailure = FALSE
SPECIFICATION Spec
PROPERTY DeferWhileOpen
