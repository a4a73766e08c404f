------------------------------ MODULE MCGetAttr ------------------------------
(* azs_getattr("/a") over containers drawn from: the blob a (a file, or a *)
(* folder marker), two siblings sorting before "a/" (a-b, a.b), a child    *)
(* a/b and a sibling sorting after it (ab).                                *)
EXTENDS GetAttr

MCName == <<CharA>>
MCUniverse == { <<CharA>>, <<CharA, Dash, CharB>>, <<CharA, Dot, CharB>>,
                <<CharA, Slash, CharB>>, <<CharA, CharB>> }
MCFolderCandidates == { <<CharA>> }

=============================================================================
