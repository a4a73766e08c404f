------------------------------ MODULE CacheDirs ------------------------------
(***************************************************************************)
(* ensure_files_directory_exists_in_cache (src/blobfuse/utilities.cpp),    *)
(* run by several FUSE threads at once: for every '/' of the cache path    *)
(* it stats the prefix before it and makes it with mkdir when stat fails, *)
(* treating EEXIST (another thread made it first) as success.  errno is    *)
(* thread-local.  A path is a sequence of segments below the cache root,   *)
(* whose last segment is the file; the cache root itself exists.  Other    *)
(* threads' azs_rmdir (outside src/, spec 4.6 step 4) may remove an empty  *)
(* cache directory at any time.                                            *)
(***************************************************************************)
EXTENDS Integers, Sequences

CONSTANTS
    Threads,    \* FUSE threads calling the function
    Path,       \* Path[t]: the file path thread t prepares
    MaxRmdirs,  \* bound on the azs_rmdir calls of other threads
    ENOENT, EEXIST  \* errno values (model values)

VARIABLES
    dirs,       \* directories under the cache root
    tpc,        \* tpc[t]: "stat", "mkdir" or "done"
    seg,        \* seg[t]: the '/' being handled: the prefix of seg[t] segments
    status,     \* status[t]: 0 or -1
    errno,      \* errno[t]
    rmdirs      \* azs_rmdir calls so far

vars == <<dirs, tpc, seg, status, errno, rmdirs>>

Errnos == {0, ENOENT, EEXIST}
Last(t) == Len(Path[t]) - 1
Prefix(t, i) == SubSeq(Path[t], 1, i)
Here(t) == Prefix(t, seg[t])
ParentIsDir(t) == seg[t] = 1 \/ Prefix(t, seg[t] - 1) \in dirs

TypeOK ==
    /\ tpc \in [Threads -> {"stat", "mkdir", "done"}]
    /\ \A t \in Threads : seg[t] \in 1..Last(t)
    /\ status \in [Threads -> {0, -1}]
    /\ errno \in [Threads -> Errnos]
    /\ rmdirs \in 0..MaxRmdirs

Init ==
    /\ dirs = {}
    /\ tpc = [t \in Threads |-> "stat"]
    /\ seg = [t \in Threads |-> 1]
    /\ status = [t \in Threads |-> 0]
    /\ errno = [t \in Threads |-> 0]
    /\ rmdirs = 0

\* Mutation: the loop runs one '/' too far.
ContinueOffByOne(t, st, er) ==
    LET ok == IF er = EEXIST THEN 0 ELSE st
    IN  /\ status' = [status EXCEPT ![t] = ok]
        /\ errno' = [errno EXCEPT ![t] = IF er = EEXIST THEN 0 ELSE er]
        /\ IF ok = 0 /\ seg[t] <= Last(t)
           THEN seg' = [seg EXCEPT ![t] = @ + 1] /\ tpc' = [tpc EXCEPT ![t] = "stat"]
           ELSE UNCHANGED seg /\ tpc' = [tpc EXCEPT ![t] = "done"]

\* Mutation: EEXIST is not tolerated.
ContinueNoEEXIST(t, st, er) ==
    /\ status' = [status EXCEPT ![t] = st]
    /\ errno' = [errno EXCEPT ![t] = er]
    /\ IF st = 0 /\ seg[t] < Last(t)
       THEN seg' = [seg EXCEPT ![t] = @ + 1] /\ tpc' = [tpc EXCEPT ![t] = "stat"]
       ELSE UNCHANGED seg /\ tpc' = [tpc EXCEPT ![t] = "done"]

\* Lines 251-259: EEXIST resets status and errno; the loop goes on to the
\* next '/' while status is 0.
Continue(t, st, er) ==
    LET ok == IF er = EEXIST THEN 0 ELSE st
    IN  /\ status' = [status EXCEPT ![t] = ok]
        /\ errno' = [errno EXCEPT ![t] = IF er = EEXIST THEN 0 ELSE er]
        /\ IF ok = 0 /\ seg[t] < Last(t)
           THEN seg' = [seg EXCEPT ![t] = @ + 1] /\ tpc' = [tpc EXCEPT ![t] = "stat"]
           ELSE UNCHANGED seg /\ tpc' = [tpc EXCEPT ![t] = "done"]

\* Lines 244-247: stat(prefix); a failure sets errno and leads to mkdir.
Stat(t) ==
    /\ tpc[t] = "stat"
    /\ IF Here(t) \in dirs
       THEN Continue(t, status[t], errno[t])
       ELSE /\ errno' = [errno EXCEPT ![t] = ENOENT]
            /\ tpc' = [tpc EXCEPT ![t] = "mkdir"]
            /\ UNCHANGED <<seg, status>>
    /\ UNCHANGED <<dirs, rmdirs>>

\* Lines 246-256: mkdir(prefix), which may find it made by another thread.
Mkdir(t) ==
    /\ tpc[t] = "mkdir"
    /\ CASE Here(t) \in dirs ->
              Continue(t, -1, EEXIST) /\ UNCHANGED dirs
         [] ~ParentIsDir(t) ->
              Continue(t, -1, ENOENT) /\ UNCHANGED dirs
         [] OTHER ->
              Continue(t, 0, errno[t]) /\ dirs' = dirs \cup {Here(t)}
    /\ UNCHANGED rmdirs

\* azs_rmdir of another thread (spec 4.6 step 4) removes an empty cache
\* directory.
Rmdir ==
    /\ rmdirs < MaxRmdirs
    /\ \E d \in dirs :
         /\ ~\E e \in dirs : Len(e) > Len(d) /\ SubSeq(e, 1, Len(d)) = d
         /\ dirs' = dirs \ {d}
    /\ rmdirs' = rmdirs + 1
    /\ UNCHANGED <<tpc, seg, status, errno>>

Next == (\E t \in Threads : Stat(t) \/ Mkdir(t)) \/ Rmdir

Spec == Init /\ [][Next]_vars

-----------------------------------------------------------------------------
\* The function returns 0 only when every directory of the path exists, as
\* a directory, so that the open or rename that called it can create the
\* file: two threads making the same parents in either order both succeed,
\* as long as no directory was removed under them.
ReturnsZeroWhenDirsExist ==
    \A t \in Threads :
        (tpc[t] = "done" /\ rmdirs = 0) =>
            /\ status[t] = 0
            /\ \A i \in 1..Last(t) : Prefix(t, i) \in dirs

=============================================================================
