------------------------------ MODULE Listing ------------------------------
(***************************************************************************)
(* list_all_blobs_hierarchical (src/blobfuse/utilities.cpp): drive paged   *)
(* list calls until the marker is empty, flag a page whose first item      *)
(* repeats the previous page's last one (skip_first), and retry a failed   *)
(* call with the same marker up to maxFailCount consecutive times.  The    *)
(* container's blobs are fixed for one call; any subset of Universe is     *)
(* tried.                                                                  *)
(***************************************************************************)
EXTENDS Naturals, Sequences, SequencesExt, RemoteStore

CONSTANTS
    Universe,       \* candidate blob names
    Prefix,         \* the prefix argument
    MaxResults,     \* the maxresults argument (0: none)
    MaxFailCount,   \* maxFailCount
    BoundaryDup     \* may the service repeat a boundary item?

ASSUME MaxResults \in Nat /\ MaxFailCount \in Nat \ {0} /\ BoundaryDup \in BOOLEAN

VARIABLES
    blobs,          \* the container's blob names during the call
    continuation,   \* the marker, as a position in the listing (0: empty)
    prior,          \* name of the last item of the last non-empty page
    success,        \* did the last list call succeed?
    failcount,      \* consecutive failed calls
    results,        \* sequence of <<page items, skip_first>>
    done,           \* the do-while loop has exited
    outcomes        \* history: outcome of every call, oldest first

vars == <<blobs, continuation, prior, success, failcount, results, done, outcomes>>

Items == Listing(blobs, Prefix)

TypeOK ==
    /\ blobs \subseteq Universe
    /\ continuation \in 0..Len(Items)
    /\ prior \in Seq(Nat)
    /\ success \in BOOLEAN /\ done \in BOOLEAN
    /\ failcount \in 0..MaxFailCount
    /\ results \in Seq(Seq([name : Seq(Nat), is_directory : BOOLEAN]) \X BOOLEAN)
    /\ outcomes \in Seq(BOOLEAN)

Init ==
    /\ blobs \in SUBSET Universe
    /\ continuation = 0
    /\ prior = << >>
    /\ success = FALSE
    /\ failcount = 0
    /\ results = << >>
    /\ done = FALSE
    /\ outcomes = << >>

\* Mutation: off by one in the failure bound.
LoopContinuesOffByOne(cont, ok, fails) == (cont # 0 \/ ~ok) /\ fails <= MaxFailCount

\* The do-while condition of line 314.
LoopContinues(cont, ok, fails) == (cont # 0 \/ ~ok) /\ fails < MaxFailCount

\* Mutation: prior is never advanced past the first page.
PageStepNoPrior(page) ==
    /\ continuation' = page.next
    /\ IF Len(page.items) > 0
       THEN /\ prior' = prior
            /\ results' = Append(results, <<page.items, page.items[1].name = prior>>)
       ELSE UNCHANGED <<prior, results>>

\* Lines 292-305: a successful page.  skip_first when the first item's name
\* equals prior; prior becomes the last item's name; empty pages are not kept.
PageStep(page) ==
    /\ continuation' = page.next
    /\ IF Len(page.items) > 0
       THEN /\ prior' = page.items[Len(page.items)].name
            /\ results' = Append(results, <<page.items, page.items[1].name = prior>>)
       ELSE UNCHANGED <<prior, results>>

\* Mutation: a success does not reset failcount.
ListCallSucceedsNoReset ==
    /\ ~done
    /\ \E pg \in Pages(Len(Items), continuation, MaxResults, BoundaryDup) :
         /\ PageStep([items |-> SubSeq(Items, pg.first, pg.last), next |-> pg.next])
         /\ done' = ~LoopContinues(pg.next, TRUE, failcount)
    /\ success' = TRUE
    /\ failcount' = failcount
    /\ outcomes' = Append(outcomes, TRUE)
    /\ UNCHANGED blobs

\* Lines 280-313: one list call and the loop test.
ListCallSucceeds ==
    /\ ~done
    /\ \E pg \in Pages(Len(Items), continuation, MaxResults, BoundaryDup) :
         /\ PageStep([items |-> SubSeq(Items, pg.first, pg.last), next |-> pg.next])
         /\ done' = ~LoopContinues(pg.next, TRUE, 0)
    /\ success' = TRUE
    /\ failcount' = 0
    /\ outcomes' = Append(outcomes, TRUE)
    /\ UNCHANGED blobs

ListCallFails ==
    /\ ~done
    /\ success' = FALSE
    /\ failcount' = failcount + 1
    /\ done' = ~LoopContinues(continuation, FALSE, failcount + 1)
    /\ outcomes' = Append(outcomes, FALSE)
    /\ UNCHANGED <<blobs, continuation, prior, results>>

Next == ListCallSucceeds \/ ListCallFails

Spec == Init /\ [][Next]_vars

-----------------------------------------------------------------------------
(* What callers read back: every page with index 0 dropped when flagged.   *)
Delivered ==
    FlattenSeq([i \in DOMAIN results |->
                  IF results[i][2] THEN Tail(results[i][1]) ELSE results[i][1]])

\* A listing that ends with a successful call hands back every item of the
\* hierarchical listing exactly once and in the service's order, however
\* the service split it into pages, repeated a boundary item, or failed in
\* between.
ListingExact == (done /\ success) => Delivered = Items

\* The listing gives up only after maxFailCount consecutive failed calls: a
\* throttled service is retried, not read as "no such blobs".
GivesUpOnlyAfterMaxFailures ==
    (done /\ ~success) =>
        /\ Len(outcomes) >= MaxFailCount
        /\ \A i \in (Len(outcomes) - MaxFailCount + 1)..Len(outcomes) : ~outcomes[i]


=============================================================================
