\* A failed step inside azs_rename is not reported: the call returns 0 with entries left at the source.
CONSTANTS
    Universe <- MCUniverse
    FolderCandidates <- MCFolderCandidates
    LocalCandidates <- MCLocalCandidates
    LeftoverDirs <- MCLeftoverDirs
    Src <- MCSrc
    Dst <- MCDst
    Faults = TRUE
    AllowCollision = FALSE
    StaleListing = TRUE
SPECIFICATION Spec
CHECK_DEADLOCK FALSE
INVARIANTS
    FailureReported
