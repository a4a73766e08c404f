----------------------------- MODULE MCListing -----------------------------
(* Listing under the prefix "a" with at most two items per page, over      *)
(* containers drawn from names that give a blob equal to the prefix, a    *)
(* sibling sorting before "a/", a directory "a/" and a sibling after it.   *)
EXTENDS Listing

MCUniverse == { <<CharA>>, <<CharA, Dot, CharB>>, <<CharA, Slash, CharB>>,
                <<CharA, CharB>>, <<CharB>> }
MCPrefix == <<CharA>>

=============================================================================
