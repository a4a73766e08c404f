----------------------------- MODULE RenameAbs -----------------------------
(***************************************************************************)
(* What a rename promises a user of the mount (spec 4.6): the entry at     *)
(* Src, and everything below it, appears under Dst with the same relative  *)
(* names, in one step; the rest of the container and of the cache is      *)
(* untouched.  This is the promise of a rename in which no call fails;    *)
(* with failures spec 7 accepts a partial rename, which this module does  *)
(* not describe.                                                           *)
(***************************************************************************)
EXTENDS Naturals, Sequences, SequencesExt

CONSTANTS Src, Dst, Slash

VARIABLES blobs, folder, files

vars == <<blobs, folder, files>>

Below(d, n) == Len(n) > Len(d) + 1 /\ IsPrefix(d \o <<Slash>>, n)
Moved(S) ==
    LET tree == {n \in S : n = Src \/ Below(Src, n)}
    IN  (S \ tree) \cup {Dst \o SubSeq(n, Len(Src) + 1, Len(n)) : n \in tree}

Init == TRUE

MoveSubtree ==
    /\ blobs' = Moved(blobs)
    /\ folder' = Moved(folder)
    /\ files' = Moved(files)

Spec == Init /\ [][MoveSubtree]_vars

=============================================================================
