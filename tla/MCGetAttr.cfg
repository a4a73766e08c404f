\* azs_getattr's remote decision over paged listings with boundary repeats and failures.
CONSTANTS
    Universe <- MCUniverse
    FolderCandidates <- MCFolderCandidates
    Name <- MCName
    MaxFailCount = 1
    BoundaryDup = TRUE
    NoItem = NoItem
SPECIFICATION Spec
CHECK_DEADLOCK FALSE
INVARIANTS
    TypeOK
    GetAttrKindCorrect
