------------------------------ MODULE DirState ------------------------------
(***************************************************************************)
(* is_directory_empty (src/blobfuse/utilities.cpp): the property fetch of  *)
(* a directory marker blob, then a paged listing of at most two items per  *)
(* page under dir_name + "/", deciding D_NOTEXIST, D_EMPTY or D_NOTEMPTY.  *)
(* Unlike list_all_blobs_hierarchical it has no skip_first test.  The      *)
(* container is fixed for one call; every subset of Universe is tried, and *)
(* every choice of which candidate blobs carry hdi_isfolder=true with size *)
(* zero.                                                                   *)
(***************************************************************************)
EXTENDS Naturals, Sequences, SequencesExt, RemoteStore

CONSTANTS
    Universe,       \* candidate blob names
    FolderCandidates, \* names that may be zero-size hdi_isfolder blobs
    Dir,            \* dir_name (no leading slash)
    Signifier,      \* former_directory_signifier (".directory")
    MaxFailCount,   \* the literal 20 of line 385
    BoundaryDup,    \* may the service repeat a boundary item?
    D_NOTEXIST, D_EMPTY, D_NOTEMPTY, Failure  \* results (Failure: -1)

ASSUME MaxFailCount \in Nat \ {0} /\ BoundaryDup \in BOOLEAN

VARIABLES
    blobs,          \* the container's blob names
    folder,         \* blobs that is_directory_blob accepts
    pc,             \* "props", "list" or "done"
    dirBlobExists,  \* dir_blob_exists
    continuation,   \* the marker, as a position in the listing (0: empty)
    success,        \* did the last list call succeed?
    failcount,      \* consecutive failed list calls
    oldDirBlobFound,\* old_dir_blob_found
    result          \* the return value once pc = "done"

vars == <<blobs, folder, pc, dirBlobExists, continuation, success, failcount,
          oldDirBlobFound, result>>

Results == {D_NOTEXIST, D_EMPTY, D_NOTEMPTY, Failure}
PrefixWithSlash == Dir \o <<Slash>>
Items == Listing(blobs, PrefixWithSlash)

TypeOK ==
    /\ blobs \subseteq Universe /\ folder \subseteq blobs
    /\ pc \in {"props", "list", "done"}
    /\ dirBlobExists \in BOOLEAN /\ success \in BOOLEAN /\ oldDirBlobFound \in BOOLEAN
    /\ continuation \in 0..Len(Items)
    /\ failcount \in 0..MaxFailCount
    /\ result \in Results

Init ==
    /\ blobs \in SUBSET Universe
    /\ folder \in SUBSET (blobs \cap FolderCandidates)
    /\ pc = "props"
    /\ dirBlobExists = FALSE
    /\ continuation = 0
    /\ success = FALSE
    /\ failcount = 0
    /\ oldDirBlobFound = FALSE
    /\ result = Failure

\* is_directory_blob: size zero and hdi_isfolder = "true".
IsDirectoryBlob(n) == n \in folder

\* Lines 367-370: a non-directory item whose name ends with the signifier
\* and is longer than it.
IsFormerDirectoryBlob(item) ==
    /\ ~item.is_directory
    /\ Len(item.name) > Len(Signifier)
    /\ IsSuffix(Signifier, item.name)

\* Lines 331-344: get_blob_property(dir_name).  404/ENOENT is absence; any
\* other error returns -1.
GetDirProps ==
    /\ pc = "props"
    /\ \/ /\ dirBlobExists' = IsDirectoryBlob(Dir)
          /\ pc' = "list"
          /\ UNCHANGED result
       \/ /\ pc' = "done"
          /\ result' = Failure
          /\ UNCHANGED dirBlobExists
    /\ UNCHANGED <<blobs, folder, continuation, success, failcount, oldDirBlobFound>>

\* Mutation: off by one in the failure bound of line 385.
AfterCallOffByOne(cont, ok, fails, old) ==
    IF (cont # 0 \/ ~ok) /\ fails <= MaxFailCount
    THEN UNCHANGED <<pc, result>>
    ELSE /\ pc' = "done"
         /\ result' = IF ~ok THEN Failure
                      ELSE IF old \/ dirBlobExists THEN D_EMPTY ELSE D_NOTEXIST

\* Mutation: the directory marker blob is forgotten at the end.
AfterCallIgnoringMarker(cont, ok, fails, old) ==
    IF (cont # 0 \/ ~ok) /\ fails < MaxFailCount
    THEN UNCHANGED <<pc, result>>
    ELSE /\ pc' = "done"
         /\ result' = IF ~ok THEN Failure
                      ELSE IF old THEN D_EMPTY ELSE D_NOTEXIST

\* The loop test of line 385 and the return of lines 387-393.
AfterCall(cont, ok, fails, old) ==
    IF (cont # 0 \/ ~ok) /\ fails < MaxFailCount
    THEN UNCHANGED <<pc, result>>
    ELSE /\ pc' = "done"
         /\ result' = IF ~ok THEN Failure
                      ELSE IF old \/ dirBlobExists THEN D_EMPTY ELSE D_NOTEXIST

\* Lines 354-379: a successful page of at most two items.
ListSucceeds ==
    /\ pc = "list"
    /\ \E pg \in Pages(Len(Items), continuation, 2, BoundaryDup) :
         LET page == SubSeq(Items, pg.first, pg.last) IN
         /\ continuation' = pg.next
         /\ CASE Len(page) > 1 ->
                   /\ pc' = "done" /\ result' = D_NOTEMPTY
                   /\ UNCHANGED oldDirBlobFound
              [] Len(page) = 1 /\ ~oldDirBlobFound /\ IsFormerDirectoryBlob(page[1]) ->
                   /\ oldDirBlobFound' = TRUE
                   /\ AfterCall(pg.next, TRUE, 0, TRUE)
              [] Len(page) = 1 ->
                   /\ pc' = "done" /\ result' = D_NOTEMPTY
                   /\ UNCHANGED oldDirBlobFound
              [] OTHER ->
                   /\ AfterCall(pg.next, TRUE, 0, oldDirBlobFound)
                   /\ UNCHANGED oldDirBlobFound
    /\ success' = TRUE
    /\ failcount' = 0
    /\ UNCHANGED <<blobs, folder, dirBlobExists>>

\* Lines 380-384: a failed list call is retried with the same marker.
ListFails ==
    /\ pc = "list"
    /\ success' = FALSE
    /\ failcount' = failcount + 1
    /\ AfterCall(continuation, FALSE, failcount + 1, oldDirBlobFound)
    /\ UNCHANGED <<blobs, folder, dirBlobExists, continuation, oldDirBlobFound>>

Next == GetDirProps \/ ListSucceeds \/ ListFails

Spec == Init /\ [][Next]_vars

-----------------------------------------------------------------------------
(* The directory as a user of the mount should see it: it exists if a     *)
(* folder marker blob is at Dir or anything is under Dir/, and it is       *)
(* empty if nothing is under Dir/ but the legacy marker Dir/<signifier>.   *)
LegacyMarker == PrefixWithSlash \o Signifier
Children == {i \in HierarchicalItems(blobs, PrefixWithSlash) : i.name # LegacyMarker}

TrueState ==
    IF Children # {} THEN D_NOTEMPTY
    ELSE IF Dir \in folder \/ LegacyMarker \in blobs THEN D_EMPTY
    ELSE D_NOTEXIST

\* Whatever pages the service returns and however often it fails, the
\* answer is either -1 or the directory's real state: rmdir and rename rely
\* on D_EMPTY meaning there is nothing to lose.
DirStateCorrect == (pc = "done" /\ result # Failure) => result = TrueState


=============================================================================
