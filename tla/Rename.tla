------------------------------ MODULE Rename ------------------------------
(***************************************************************************)
(* azs_rename and azs_rename_directory (src/blobfuse/utilities.cpp): the   *)
(* directory marker rename, the walk of the local cache directory, the     *)
(* remote listing with the local_list_results filter, the recursion into   *)
(* subdirectories, and the final azs_rmdir.  The recursion is an explicit  *)
(* call stack of frames.  azs_rename_single_file and azs_rmdir live        *)
(* outside src/ and are modelled from the spec (section 4.6): the leaf     *)
(* moves one blob and its cached copy, rmdir removes an emptied directory. *)
(* The listing call is list_all_blobs_hierarchical, whose delivered items  *)
(* are the hierarchical listing when it succeeds (ListingExact, module     *)
(* Listing); here a call either returns them or fails.                     *)
(***************************************************************************)
EXTENDS Naturals, Sequences, SequencesExt, RemoteStore

CONSTANTS
    Universe,         \* candidate blob names
    FolderCandidates, \* names that may be zero-size hdi_isfolder blobs
    LocalCandidates,  \* names that may be files in the local cache
    LeftoverDirs,     \* cache directories that may exist with no file below
    Src, Dst,         \* the rename's arguments, without the leading '/'
    Faults,           \* may remote calls and the leaf rename fail?
    AllowCollision,   \* may a plain blob share its name with a directory?
    StaleListing      \* may a listing miss changes made since the frame began?

VARIABLES
    blobs,      \* the container's blob names
    folder,     \* blobs that is_directory_blob accepts (directory markers)
    files,      \* files under the cache root
    dirs,       \* directories under the cache root
    pc,         \* azs_rename: "getattr", "dir" or "done"
    stack,      \* frames of azs_rename_directory, innermost last
    result,     \* what azs_rename returns
    dirResult,  \* what the outermost azs_rename_directory returned
    calls,      \* calls[n]: azs_rename_single_file calls with source n
    start       \* the container and the cache when azs_rename was called

vars == <<blobs, folder, files, dirs, pc, stack, result, dirResult, calls, start>>

-----------------------------------------------------------------------------
(* Paths.  A directory d has the entries d/x; Retarget maps a name under   *)
(* s to the same name under t.                                             *)
Under(d, n) == Len(n) > Len(d) + 1 /\ IsPrefix(d \o <<Slash>>, n)
Subtree(d, S) == {n \in S : n = d \/ Under(d, n)}
Retarget(n, s, t) == t \o SubSeq(n, Len(s) + 1, Len(n))
MoveOne(S, s, t) == IF s \in S THEN (S \ {s}) \cup {t} ELSE S
Ancestors(n) == {SubSeq(n, 1, i - 1) : i \in {i \in DOMAIN n : n[i] = Slash}}

Names == Universe \cup {Retarget(n, Src, Dst) : n \in Subtree(Src, Universe)}
Frame == [src : Names, dst : Names, pc : {"props", "walk", "list", "remote"},
          entries : SUBSET Names, handled : SUBSET Seq(Nat), before : SUBSET Names,
          items : Seq([name : Seq(Nat), is_directory : BOOLEAN])]
Results == {"none", "ok", "error"}

TypeOK ==
    /\ blobs \subseteq Names /\ folder \subseteq blobs
    /\ files \subseteq Names /\ dirs \subseteq Seq(Nat)
    /\ pc \in {"getattr", "dir", "done"}
    /\ stack \in Seq(Frame)
    /\ result \in Results /\ dirResult \in Results
    /\ calls \in [Universe -> 0..3]

\* Containers blobfuse itself produces: a name is never both a plain blob
\* and a directory, and a cached file is never a directory marker.
Consistent(b, f, l) ==
    \A n \in b \cup l :
        (\E m \in b \cup l : Under(n, m)) => n \in f /\ n \notin l

Init ==
    /\ blobs \in SUBSET (Universe \ Subtree(Dst, Universe))
    /\ folder \in SUBSET (blobs \cap FolderCandidates)
    /\ files \in SUBSET (LocalCandidates \ folder)
    /\ AllowCollision \/ Consistent(blobs, folder, files)
    /\ \E left \in SUBSET LeftoverDirs :
         dirs = UNION {Ancestors(n) : n \in files} \cup left
    /\ AllowCollision \/ dirs \cap blobs \subseteq folder
    /\ pc = "getattr"
    /\ stack = << >>
    /\ result = "none" /\ dirResult = "none"
    /\ calls = [n \in Universe |-> 0]
    /\ start = [blobs |-> blobs, folder |-> folder, files |-> files]

-----------------------------------------------------------------------------
(* azs_rename_single_file (spec 4.6, the leaf): moves the blob, its        *)
(* directory-marker metadata and its cached copy; with Faults it may fail  *)
(* and change nothing.  Its outcome is the `ok` argument.                  *)
SingleFile(s, t, ok) ==
    /\ calls' = [calls EXCEPT ![s] = @ + 1]
    /\ IF ok
       THEN /\ blobs' = MoveOne(blobs, s, t)
            /\ folder' = MoveOne(folder, s, t)
            /\ files' = MoveOne(files, s, t)
            /\ dirs' = IF s \in files THEN dirs \cup Ancestors(t) ELSE dirs
       ELSE UNCHANGED <<blobs, folder, files, dirs>>

LeafOutcomes == IF Faults THEN BOOLEAN ELSE {TRUE}

\* The top frame, and the frames below it.
Top == stack[Len(stack)]
SetTop(f) == stack' = [stack EXCEPT ![Len(stack)] = f]
Call(s, t) == [src |-> s, dst |-> t, pc |-> "props", entries |-> {},
               handled |-> {}, before |-> {}, items |-> << >>]

\* A frame returns.  The callers inside azs_rename_directory ignore the
\* value; azs_rename ignores the outermost one too and returns 0.
Return(res) ==
    /\ stack' = SubSeq(stack, 1, Len(stack) - 1)
    /\ IF Len(stack) = 1
       THEN /\ pc' = "done" /\ result' = "ok" /\ dirResult' = res
       ELSE UNCHANGED <<pc, result, dirResult>>

\* Mutation: the '/' is not appended to src.
DirPrefixNoSlash(d) == d

\* Lines 648-655: src and dst get a trailing '/' before they are used as
\* a listing prefix and to build child names.
DirPrefix(d) == d \o <<Slash>>

\* The entries of local directory d that readdir returns (d_name).
LocalEntries(d) ==
    {n \in files \cup dirs : Under(d, n) /\ FirstSlash(After(d \o <<Slash>>, n)) = 0}

-----------------------------------------------------------------------------
\* Lines 771-792: azs_getattr(src) (local probe, then the remote decision,
\* as in module GetAttr) chooses between the directory and the file rename.
RenameStart ==
    /\ pc = "getattr"
    /\ LET isDir  == Src \in dirs \/ (Src \notin files /\
                      (Src \in folder \/ \E n \in blobs : Under(Src, n)))
           exists == Src \in dirs \cup files \cup blobs \/ isDir
       IN \/ /\ Faults
             /\ pc' = "done" /\ result' = "error"
             /\ UNCHANGED <<blobs, folder, files, dirs, stack, calls>>
          \/ /\ ~exists
             /\ pc' = "done" /\ result' = "error"
             /\ UNCHANGED <<blobs, folder, files, dirs, stack, calls>>
          \/ /\ exists /\ isDir
             /\ pc' = "dir" /\ stack' = << Call(Src, Dst) >>
             /\ UNCHANGED <<blobs, folder, files, dirs, result, calls>>
          \/ /\ exists /\ ~isDir
             /\ \E ok \in LeafOutcomes : SingleFile(Src, Dst, ok)
             /\ pc' = "done" /\ result' = "ok"
             /\ UNCHANGED stack
    /\ UNCHANGED <<dirResult, start>>

\* What errno holds after the leaf: azs_rename_single_file may leave 0,
\* 404 or ENOENT, or another code, whatever it did to the blob.
LeafErrno == IF Faults THEN {"clear", "other"} ELSE {"clear"}

\* Lines 631-661: get_blob_property(src); a directory marker is renamed
\* first, and its result is ignored (line 637).  Lines 640-645 then read
\* errno alone: a code other than 0, 404 and ENOENT, left by the property
\* fetch or by the leaf, returns; otherwise the frame goes on, also when
\* the marker is still at src.  Then the cache directory of dst is made
\* (ensure_files_directory_exists_in_cache) and the cache directory of src
\* is opened.
Props ==
    /\ pc = "dir" /\ stack # << >> /\ Top.pc = "props"
    /\ LET f == Top
           opened == [f EXCEPT !.pc = "walk", !.before = blobs,
                               !.entries = IF f.src \in dirs THEN LocalEntries(f.src) ELSE {}]
           made == dirs \cup Ancestors(f.dst \o <<Slash>>)
       IN \/ /\ Faults
             /\ Return("error")
             /\ UNCHANGED <<blobs, folder, files, dirs, calls>>
          \/ /\ f.src \notin folder
             /\ SetTop(opened) /\ dirs' = made
             /\ UNCHANGED <<blobs, folder, files, calls, pc, result, dirResult>>
          \/ /\ f.src \in folder
             /\ \E ok \in LeafOutcomes, err \in LeafErrno :
                  /\ calls' = [calls EXCEPT ![f.src] = @ + 1]
                  /\ blobs' = IF ok THEN MoveOne(blobs, f.src, f.dst) ELSE blobs
                  /\ folder' = IF ok THEN MoveOne(folder, f.src, f.dst) ELSE folder
                  /\ IF err = "clear"
                     THEN /\ SetTop(opened) /\ dirs' = made
                          /\ UNCHANGED <<pc, result, dirResult>>
                     ELSE /\ Return("error")
                          /\ UNCHANGED dirs
             /\ UNCHANGED files
    /\ UNCHANGED start

\* Mutation: the name is not pushed onto local_list_results.
RecordNothing(f, name) == f

\* Lines 693-694: the entry's name joins local_list_results.
Record(f, name) == [f EXCEPT !.handled = @ \cup {name}]

\* Lines 664-698: one readdir entry.  Names starting with '.' are skipped;
\* a directory is renamed by recursion, anything else by the leaf; the
\* name joins local_list_results.
WalkEntry ==
    /\ pc = "dir" /\ stack # << >> /\ Top.pc = "walk"
    /\ \E e \in Top.entries :
         LET f == Top
             name == After(f.src \o <<Slash>>, e)
             rest == [f EXCEPT !.entries = @ \ {e}]
             seen == Record(rest, name)
             t == Retarget(e, f.src, f.dst)
         IN \/ /\ name[1] = Dot
               /\ SetTop(rest)
               /\ UNCHANGED <<blobs, folder, files, dirs, calls>>
            \/ /\ name[1] # Dot /\ e \in dirs
               /\ stack' = Append([stack EXCEPT ![Len(stack)] = seen], Call(e, t))
               /\ UNCHANGED <<blobs, folder, files, dirs, calls>>
            \/ /\ name[1] # Dot /\ e \notin dirs
               /\ SetTop(seen)
               /\ \E ok \in LeafOutcomes : SingleFile(e, t, ok)
    /\ UNCHANGED <<pc, result, dirResult, start>>

\* Mutation: a failed listing starts the directory over.
ListFailedRestart ==
    /\ SetTop([Top EXCEPT !.pc = "props"])
    /\ UNCHANGED <<pc, result, dirResult>>

\* Lines 706-711: the listing failed; the frame returns the error.
ListFailed == Return("error")

\* Lines 703-711: list_all_blobs_hierarchical under src + '/', after the
\* walk; a failure returns the translated errno.  The listing is eventually
\* consistent (spec 1 and 3): with StaleListing it may still show the
\* container as it was when the frame began, before the walk renamed
\* entries away.
ListCall ==
    /\ pc = "dir" /\ stack # << >> /\ Top.pc = "walk" /\ Top.entries = {}
    /\ \/ /\ \E snap \in IF StaleListing THEN {blobs, Top.before} ELSE {blobs} :
               SetTop([Top EXCEPT !.pc = "remote",
                                  !.items = Listing(snap, DirPrefix(Top.src))])
          /\ UNCHANGED <<pc, result, dirResult>>
       \/ /\ Faults
          /\ ListFailed
    /\ UNCHANGED <<blobs, folder, files, dirs, calls, start>>

\* Mutation: the '/' of a BlobPrefix is kept.
TrailingKeepsSlash(prefix, nm) == After(prefix, nm)

\* Lines 719-731: the trailing name of a listed item: the part after
\* src + '/', without the '/' of a BlobPrefix.
Trailing(prefix, nm) ==
    IF nm[Len(nm)] = Slash
    THEN SubSeq(nm, Len(prefix) + 1, Len(nm) - 1)
    ELSE After(prefix, nm)

\* Mutation: the trailing name is left out of newDst.
ChildTargetNoName(f, name) == f.dst

\* Lines 742-745: newDst, dst + '/' + the trailing name.
ChildTarget(f, name) == DirPrefix(f.dst) \o name

\* Lines 714-760: one listed item.  An item whose trailing name is in
\* local_list_results was handled by the walk and is skipped; otherwise a
\* BlobPrefix is renamed by recursion and a blob by the leaf.
RemoteItem ==
    /\ pc = "dir" /\ stack # << >> /\ Top.pc = "remote" /\ Top.items # << >>
    /\ LET f == Top
           it == Head(f.items)
           prefix == DirPrefix(f.src)
           name == Trailing(prefix, it.name)
           s == prefix \o name
           t == ChildTarget(f, name)
           rest == [f EXCEPT !.items = Tail(@)]
       IN \/ /\ name = << >> \/ name \in f.handled
             /\ SetTop(rest)
             /\ UNCHANGED <<blobs, folder, files, dirs, calls>>
          \/ /\ name # << >> /\ name \notin f.handled /\ it.is_directory
             /\ stack' = Append([stack EXCEPT ![Len(stack)] = rest], Call(s, t))
             /\ UNCHANGED <<blobs, folder, files, dirs, calls>>
          \/ /\ name # << >> /\ name \notin f.handled /\ ~it.is_directory
             /\ SetTop(rest)
             /\ \E ok \in LeafOutcomes : SingleFile(s, t, ok)
    /\ UNCHANGED <<pc, result, dirResult, start>>

\* Lines 763-764: azs_rmdir(src), then return 0.  azs_rmdir (spec 4.6,
\* step 4) removes the directory marker and the cache directory when
\* nothing is left below them, and fails with ENOTEMPTY otherwise.
RemoteDone ==
    /\ pc = "dir" /\ stack # << >> /\ Top.pc = "remote" /\ Top.items = << >>
    /\ LET d == Top.src
           empty == \A n \in blobs \cup files \cup dirs : ~Under(d, n)
       IN IF empty
          THEN /\ blobs' = blobs \ (folder \cap {d}) /\ folder' = folder \ {d}
               /\ dirs' = dirs \ {d}
          ELSE UNCHANGED <<blobs, folder, dirs>>
    /\ Return("ok")
    /\ UNCHANGED <<files, calls, start>>

Next == RenameStart \/ Props \/ WalkEntry \/ ListCall \/ RemoteItem \/ RemoteDone

\* azs_rename runs to completion on the calling FUSE thread.
Spec == Init /\ [][Next]_vars /\ WF_vars(Next)

-----------------------------------------------------------------------------
(* The entries the rename is about: the blobs and cached files at Src and  *)
(* below it when azs_rename was called.                                    *)
Entries0 == Subtree(Src, start.blobs \cup start.files)

\* Spec 4.6 and 8: an entry present in the local cache, in the remote
\* listing, or in both, is renamed exactly once by a rename that returns
\* success: the walk's local_list_results must keep the remote loop from
\* renaming it again, and no remote-only entry may be filtered out.
RenamedExactlyOnce ==
    (pc = "done" /\ result = "ok") => \A n \in Entries0 : calls[n] = 1

\* Spec 7 accepts a partial rename, never lost data: in every state,
\* whatever failed, each blob with content (not a directory marker) and
\* each cached file that was at or below Src is at its source name or at
\* its target name, so the targets the walk and the remote loop build for
\* the leaf and for the recursion never collide and azs_rmdir removes no
\* file that is still there.  Markers are left out: a marker whose leaf
\* failed with errno 0, 404 or ENOENT is deleted by azs_rmdir (line 763).
NoContentLost ==
    \A n \in Subtree(Src, start.blobs \ start.folder) \cup Subtree(Src, start.files) :
        /\ n \in start.blobs => (n \in blobs \/ Retarget(n, Src, Dst) \in blobs)
        /\ n \in start.files => (n \in files \/ Retarget(n, Src, Dst) \in files)

\* azs_rename returns: every frame of the recursion finishes, also when
\* property fetches, listings and leaf renames fail.
RenameTerminates == <>(pc = "done")

\* Spec 7: a rename that could not be carried out returns an error; a
\* success leaves nothing at the source.
FailureReported ==
    (pc = "done" /\ result = "ok") => Subtree(Src, blobs \cup files) = {}

=============================================================================
