\* is_directory_empty against a service that pages but never repeats a boundary item.
CONSTANTS
    Universe <- MCUniverse
    FolderCandidates <- MCFolderCandidates
    Dir <- MCDir
    Signifier <- MCSignifier
    MaxFailCount = 3
    BoundaryDup = FALSE
    D_NOTEXIST = D_NOTEXIST
    D_EMPTY = D_EMPTY
    D_NOTEMPTY = D_NOTEMPTY
    Failure = Failure
SPECIFICATION Spec
CHECK_DEADLOCK FALSE
INVARIANTS
    TypeOK
    DirStateCorrect
