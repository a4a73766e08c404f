\* Pagination, duplicate suppression and bounded retry of list_all_blobs_hierarchical.
CONSTANTS
    Universe <- MCUniverse
    Prefix <- MCPrefix
    MaxResults = 2
    MaxFailCount = 3
    BoundaryDup = TRUE
SPECIFICATION Spec
CHECK_DEADLOCK FALSE
INVARIANTS
    TypeOK
    ListingExact
    GivesUpOnlyAfterMaxFailures
