----------------------------- MODULE MCRename -----------------------------
(* azs_rename("/a", "/b") over containers drawn from the marker a, a file *)
(* a/a and a subdirectory a/d (marker or plain blob) with the file a/d/a; *)
(* any of the files may be cached, and the cache may keep the directories *)
(* a and a/d with nothing below them.                                      *)
EXTENDS Rename

MCSrc == <<CharA>>
MCDst == <<CharB>>
AA  == <<CharA, Slash, CharA>>
AD  == <<CharA, Slash, CharD>>
ADA == <<CharA, Slash, CharD, Slash, CharA>>

MCUniverse == {MCSrc, AA, AD, ADA}
MCFolderCandidates == {MCSrc, AD}
MCLocalCandidates == {AA, ADA}
MCLeftoverDirs == {MCSrc, AD}

\* The collision fixture: no blob at a itself, so that a plain blob a/d
\* beside the directory a/d/ is the only collision.
MCUniverseCollision == {AA, AD, ADA}

\* The refinement mapping: the abstract state is the state azs_rename was
\* called in until it returns, and the state it leaves afterwards.
Abs == INSTANCE RenameAbs WITH
    Src <- MCSrc, Dst <- MCDst,
    blobs <- IF pc = "done" THEN blobs ELSE start.blobs,
    folder <- IF pc = "done" THEN folder ELSE start.folder,
    files <- IF pc = "done" THEN files ELSE start.files

\* azs_rename implements the atomic move of RenameAbs: when it returns, the
\* container and the cache are the subtree move of the state it started in.
RenameRefinesAbs == Abs!Spec

=============================================================================
