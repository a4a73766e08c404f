\* Three threads create overlapping cache directories in every interleaving, while up to two empty cache directories are removed under them.
CONSTANTS
    a = a  b = b  c = c  x = x  y = y  z = z
    t1 = t1  t2 = t2  t3 = t3
    Threads <- MCThreads
    Path <- MCPath
    MaxRmdirs = 2
    ENOENT = ENOENT
    EEXIST = EEXIST
SPECIFICATION Spec
CHECK_DEADLOCK FALSE
INVARIANTS
    TypeOK
    ReturnsZeroWhenDirsExist
