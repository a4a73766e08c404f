\* azs_rename with failing getattr, property fetches, listings and leaf renames: no file or blob with content is lost, and the call returns.
CONSTANTS
    Universe <- MCUniverse
    FolderCandidates <- MCFolderCandidates
    LocalCandidates <- MCLocalCandidates
    LeftoverDirs <- MCLeftoverDirs
    Src <- MCSrc
    Dst <- MCDst
    Faults = TRUE
    AllowCollision = FALSE
    StaleListing = TRUE
SPECIFICATION Spec
CHECK_DEADLOCK FALSE
INVARIANTS
    NoContentLost
PROPERTY
    RenameTerminates
