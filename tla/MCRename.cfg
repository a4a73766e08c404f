\* azs_rename of a directory with no failures: each entry renamed once, and the whole call implements an atomic subtree move.
CONSTANTS
    Universe <- MCUniverse
    FolderCandidates <- MCFolderCandidates
    LocalCandidates <- MCLocalCandidates
    LeftoverDirs <- MCLeftoverDirs
    Src <- MCSrc
    Dst <- MCDst
    Faults = FALSE
    AllowCollision = FALSE
    StaleListing = TRUE
SPECIFICATION Spec
CHECK_DEADLOCK FALSE
INVARIANTS
    TypeOK
    RenamedExactlyOnce
PROPERTY
    RenameRefinesAbs
