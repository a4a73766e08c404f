------------------------------ MODULE GetAttr ------------------------------
(***************************************************************************)
(* azs_getattr (src/blobfuse/utilities.cpp) for a path other than the     *)
(* root, under its path mutex: the local-cache probe, the listing of at    *)
(* most two items per page under the blob name (list_all_blobs_hierarchical *)
(* as in module Listing), the scan for the exact name and for dirSize, the *)
(* directory / file / ENOENT decision, and the property fetch of a file.   *)
(***************************************************************************)
EXTENDS Naturals, Sequences, SequencesExt, RemoteStore

CONSTANTS
    Universe,           \* candidate blob names
    FolderCandidates,   \* names that may carry hdi_isfolder=true
    Name,               \* blobNameStr: the path without its leading '/'
    MaxFailCount,       \* maxFailCount of the paginator
    BoundaryDup,        \* may the service repeat a boundary item?
    NoItem              \* blobItem before an exact match is found

VARIABLES
    blobs, continuation, prior, success, failcount, results, done, outcomes,
    folder,     \* blobs whose metadata has hdi_isfolder = "true"
    large,      \* blobs of non-zero size
    local,      \* access(mntPath, F_OK) succeeds: the path is in the cache
    pc,         \* "probe", "list", "prop" or "done"
    attr        \* what is returned: kind, st_nlink, st_size

L == INSTANCE Listing WITH Prefix <- Name, MaxResults <- 2

listVars == <<blobs, continuation, prior, success, failcount, results, done, outcomes>>
vars == <<listVars, folder, large, local, pc, attr>>

Kinds == {"local", "dir", "file", "enoent", "error"}
Attr == [kind : Kinds, nlink : 0..3, size : 0..1]
Item == [name : Seq(Nat), is_directory : BOOLEAN]

TypeOK ==
    /\ L!TypeOK
    /\ folder \subseteq blobs /\ large \subseteq blobs
    /\ local \in BOOLEAN
    /\ pc \in {"probe", "list", "prop", "done"}
    /\ attr \in Attr

Init ==
    /\ L!Init
    /\ folder \in SUBSET (blobs \cap FolderCandidates)
    /\ large \in SUBSET (blobs \ folder)
    /\ local \in BOOLEAN
    /\ pc = "probe"
    /\ attr = [kind |-> "enoent", nlink |-> 0, size |-> 0]

-----------------------------------------------------------------------------
\* Line 497: is_directory_blob(0, metadata) || is_directory || name == b + '/'.
IsDirSignal(it) ==
    \/ it.name \in folder
    \/ it.is_directory
    \/ it.name = Name \o <<Slash>>

\* Mutation: only the bare name counts as the exact match.
ScanItemExactNameOnly(st, it) ==
    LET counted == NameLess(it.name, Name \o <<Slash>>)
        ds == IF counted THEN st.dirSize + 1 ELSE st.dirSize
        exact == st.item = NoItem /\ it.name = Name
    IN  IF counted /\ ds > 2 /\ st.item # NoItem
        THEN [dirSize |-> ds, item |-> st.item, brk |-> TRUE]
        ELSE [dirSize |-> IF exact /\ ds = 0 /\ IsDirSignal(it) THEN 1 ELSE ds,
              item |-> IF exact THEN it ELSE st.item,
              brk |-> FALSE]

\* Lines 473-501: one item of a batch.  dirSize counts names sorting before
\* blobNameStr + '/'; the first exact match becomes blobItem and sets
\* dirSize to 1 if it is a directory and nothing was counted yet.  `brk`
\* is the break of line 485, which leaves only the current batch.
ScanItem(st, it) ==
    LET counted == NameLess(it.name, Name \o <<Slash>>)
        ds == IF counted THEN st.dirSize + 1 ELSE st.dirSize
        exact == st.item = NoItem /\ it.name \in {Name, Name \o <<Slash>>}
    IN  IF counted /\ ds > 2 /\ st.item # NoItem
        THEN [dirSize |-> ds, item |-> st.item, brk |-> TRUE]
        ELSE [dirSize |-> IF exact /\ ds = 0 /\ IsDirSignal(it) THEN 1 ELSE ds,
              item |-> IF exact THEN it ELSE st.item,
              brk |-> FALSE]

RECURSIVE ScanBatch(_, _, _)
ScanBatch(items, i, st) ==
    IF i > Len(items) THEN st
    ELSE LET nx == ScanItem(st, items[i])
         IN  IF nx.brk THEN [nx EXCEPT !.brk = FALSE]
             ELSE ScanBatch(items, i + 1, nx)

\* Lines 460-504: every batch, from index 1 when skip_first.
Scan(batches) ==
    FoldLeft(LAMBDA st, b : ScanBatch(b[1], IF b[2] THEN 2 ELSE 1, st),
             [dirSize |-> 0, item |-> NoItem, brk |-> FALSE], batches)

-----------------------------------------------------------------------------
\* Lines 413-442: under the path mutex, a cached path is lstat'ed locally.
Probe ==
    /\ pc = "probe"
    /\ IF local
       THEN /\ pc' = "done"
            /\ attr' = [kind |-> "local", nlink |-> 1, size |-> 0]
       ELSE /\ pc' = "list" /\ UNCHANGED attr
    /\ UNCHANGED <<listVars, folder, large, local>>

\* Line 447: one iteration of list_all_blobs_hierarchical(name, 2).
ListStep ==
    /\ pc = "list"
    /\ L!Next
    /\ UNCHANGED <<folder, large, local, pc, attr>>

\* Mutation: st_nlink = 2 + dirSize.
DecideNlinkPlusCount ==
    /\ pc = "list" /\ done
    /\ LET st == Scan(results) IN
       CASE success /\ Len(results) > 0 /\ st.item # NoItem /\ IsDirSignal(st.item) ->
              /\ attr' = [kind |-> "dir", nlink |-> 2 + st.dirSize, size |-> 0]
              /\ pc' = "done"
         [] success /\ Len(results) > 0 /\ st.item # NoItem ->
              /\ pc' = "prop" /\ UNCHANGED attr
         [] ~success ->
              /\ attr' = [kind |-> "error", nlink |-> 0, size |-> 0]
              /\ pc' = "done"
         [] OTHER ->
              /\ attr' = [kind |-> "enoent", nlink |-> 0, size |-> 0]
              /\ pc' = "done"
    /\ UNCHANGED <<listVars, folder, large, local>>

\* Lines 449-551: the decision once the listing returned.
Decide ==
    /\ pc = "list" /\ done
    /\ LET st == Scan(results) IN
       CASE success /\ Len(results) > 0 /\ st.item # NoItem /\ IsDirSignal(st.item) ->
              /\ attr' = [kind |-> "dir", nlink |-> IF st.dirSize > 1 THEN 3 ELSE 2,
                          size |-> 0]
              /\ pc' = "done"
         [] success /\ Len(results) > 0 /\ st.item # NoItem ->
              /\ pc' = "prop" /\ UNCHANGED attr
         [] ~success ->
              /\ attr' = [kind |-> "error", nlink |-> 0, size |-> 0]
              /\ pc' = "done"
         [] OTHER ->
              /\ attr' = [kind |-> "enoent", nlink |-> 0, size |-> 0]
              /\ pc' = "done"
    /\ UNCHANGED <<listVars, folder, large, local>>

\* Lines 524-532: get_blob_property for the file's size and mtime; its
\* errno is not looked at, so a failed call leaves the default (size 0).
GetFileProps ==
    /\ pc = "prop"
    /\ \E ok \in BOOLEAN :
         attr' = [kind |-> "file", nlink |-> 1,
                  size |-> IF ok /\ Name \in large THEN 1 ELSE 0]
    /\ pc' = "done"
    /\ UNCHANGED <<listVars, folder, large, local>>

Next == Probe \/ ListStep \/ Decide \/ GetFileProps

Spec == Init /\ [][Next]_vars

-----------------------------------------------------------------------------
(* What the container says about the path.                                 *)
ExactBlob == Name \in blobs
IsDir == Name \in folder \/ \E n \in blobs : IsPrefix(Name \o <<Slash>>, n)

\* A remote answer names the right kind of object, and ENOENT is returned
\* only when nothing is at the name: paging, boundary repeats, siblings
\* sorting on either side of name + '/' and retried failures do not change
\* the decision of lines 506-538.
GetAttrKindCorrect ==
    pc = "done" =>
        /\ attr.kind = "dir" => IsDir
        /\ attr.kind = "file" => ExactBlob /\ Name \notin folder
        /\ attr.kind = "enoent" => ~ExactBlob /\ ~IsDir

=============================================================================
