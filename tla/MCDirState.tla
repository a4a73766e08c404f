----------------------------- MODULE MCDirState -----------------------------
(* is_directory_empty("a"): the signifier ".directory" is abbreviated to  *)
(* ".d", which keeps what the suffix test tells apart.                     *)
EXTENDS DirState

MCDir == <<CharA>>
MCSignifier == <<Dot, CharD>>
MCLegacy == <<CharA, Slash, Dot, CharD>>        \* a/.d
MCChild == <<CharA, Slash, CharB>>              \* a/b
MCNested == <<CharA, Slash, CharB, Slash, CharA>> \* a/b/a
MCSibling == <<CharA, CharB>>                   \* ab

\* Containers with a marker blob, the legacy marker, files, a subdirectory
\* and a sibling, without user files that end with the signifier.
MCUniverse == {MCDir, MCLegacy, MCChild, MCNested, MCSibling}
MCFolderCandidates == {MCDir}

=============================================================================
