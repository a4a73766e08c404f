----------------------------- MODULE RemoteStore -----------------------------
(***************************************************************************)
(* The flat blob namespace as the storage client presents it (the         *)
(* azure_blob_client_wrapper, an external collaborator: modelled from the  *)
(* spec, sections 3 and 6).  A blob name is a sequence of character codes *)
(* so that prefix, delimiter and lexicographic order are the real ones;    *)
(* only a few characters are needed to tell the interesting orders apart.  *)
(***************************************************************************)
EXTENDS Naturals, Sequences, SequencesExt

Dash  == 45     \* '-' sorts before '.'
Dot   == 46     \* '.' sorts before '/'
Slash == 47     \* the delimiter "/"
CharA == 97     \* 'a'
CharB == 98     \* 'b'
CharD == 100    \* 'd'

\* std::string::compare(...) < 0: lexicographic order on character codes.
RECURSIVE NameLess(_, _)
NameLess(a, b) ==
    IF a = << >> THEN b # << >>
    ELSE IF b = << >> THEN FALSE
    ELSE IF Head(a) # Head(b) THEN Head(a) < Head(b)
    ELSE NameLess(Tail(a), Tail(b))

\* Position of the first delimiter in s, 0 if none.
FirstSlash(s) ==
    IF \E i \in DOMAIN s : s[i] = Slash
    THEN CHOOSE i \in DOMAIN s : s[i] = Slash /\ \A j \in 1..(i-1) : s[j] # Slash
    ELSE 0

\* The part of n after the listing prefix.
After(prefix, n) == SubSeq(n, Len(prefix) + 1, Len(n))

\* list_blobs_hierarchical(container, "/", marker, prefix): blobs under
\* prefix with no further delimiter, and one BlobPrefix item (is_directory)
\* per distinct next path segment, in name order.
HierarchicalItems(blobs, prefix) ==
    LET under  == {n \in blobs : IsPrefix(prefix, n)}
        leaves == {n \in under : FirstSlash(After(prefix, n)) = 0}
        dirs   == {prefix \o SubSeq(After(prefix, n), 1, FirstSlash(After(prefix, n))) :
                      n \in under \ leaves}
    IN  {[name |-> n, is_directory |-> FALSE] : n \in leaves}
        \cup {[name |-> d, is_directory |-> TRUE] : d \in dirs}

Listing(blobs, prefix) ==
    SetToSortSeq(HierarchicalItems(blobs, prefix),
                 LAMBDA x, y : NameLess(x.name, y.name))

(***************************************************************************)
(* One page of a listing.  The marker is the position after which the     *)
(* previous page ended (0: the empty marker, from the start).  A page      *)
(* holds at most maxresults items (0: no client limit) and makes progress; *)
(* it may repeat the previous page's last item when the service resumes    *)
(* from the boundary key (dup), and it may hand back a marker after the    *)
(* last item, answered by a final page with no new items.                  *)
(***************************************************************************)
Pages(n, marker, maxresults, dup) ==
    LET starts == {marker + 1} \cup (IF dup /\ marker > 0 THEN {marker} ELSE {})
        limit(s) == IF maxresults = 0 THEN n ELSE s + maxresults - 1
    IN  UNION { UNION {
          { [first |-> s, last |-> e, next |-> nx] :
              nx \in (IF marker = n THEN {0}
                      ELSE IF e < n THEN {e} ELSE {0, n}) } :
              e \in { e \in (s - 1)..n :
                        /\ e <= limit(s)
                        /\ (marker < n => e >= marker + 1) } } :
          s \in starts }

=============================================================================
