\* A plain blob a/d next to the directory a/d/ is skipped when a/d is in the cache.
CONSTANTS
    Universe <- MCUniverseCollision
    FolderCandidates <- MCFolderCandidates
    LocalCandidates <- MCLocalCandidates
    LeftoverDirs <- MCLeftoverDirs
    Src <- MCSrc
    Dst <- MCDst
    Faults = FALSE
    AllowCollision = TRUE
    StaleListing = TRUE
SPECIFICATION Spec
CHECK_DEADLOCK FALSE
INVARIANTS
    RenamedExactlyOnce
