------------------------------ MODULE CacheGC ------------------------------
(***************************************************************************)
(* The file-cache garbage collector of blobfuse (gc_cache in               *)
(* src/blobfuse/utilities.cpp) together with the filesystem threads that   *)
(* feed it.  The collector is one detached thread (gc_cache::run) looping  *)
(* over the deque m_cleanup; file handles are opened and closed by FUSE    *)
(* threads, one per in-flight call.  Both sides serialise on the per-path  *)
(* mutex of file_lock_map, and the collector detects open handles with a   *)
(* non-blocking exclusive flock against the shared flocks the handles      *)
(* hold.                                                                   *)
(*                                                                         *)
(* Time is kept as capped ages: an age of Expired means "more than         *)
(* Timeout seconds ago", which is all that the comparisons                 *)
(* (now - t) > file_cache_timeout_in_seconds can tell apart.  Disk usage   *)
(* is a level that the rest of the machine changes at will.                *)
(***************************************************************************)
EXTENDS Naturals, Sequences, FiniteSets

CONSTANTS
    Paths,          \* cached file paths (model values)
    Clients,        \* FUSE threads that open, write and close files
    GC,             \* the collector thread, as an owner of path mutexes
    NoOwner,        \* owner of an unlocked path mutex
    NoPath,         \* handle[c] of a client with no open file
    Timeout,        \* file_cache_timeout_in_seconds
    Usage,          \* levels of used_percent the disk can be at
    Low, High,      \* low_threshold, high_threshold
    MaxCalls,       \* bound on the opens and getattrs of a behaviour
    SpuriousFailure \* may statvfs, open or flock fail for other reasons?

ASSUME /\ GC \notin Clients /\ NoOwner \notin Clients \cup {GC}
       /\ NoPath \notin Paths
       /\ Timeout \in Nat /\ MaxCalls \in Nat
       /\ Usage \subseteq Nat /\ Low \in Usage /\ High \in Usage /\ Low <= High
       /\ SpuriousFailure \in BOOLEAN

VARIABLES
    cached,     \* cached[p]: the file tmpPath/root/p exists
    mage,       \* mage[p]: age of max(st_mtime, st_ctime) of the cached file
    lockOwner,  \* lockOwner[p]: holder of file_lock_map's mutex for p
    handle,     \* handle[c]: the path client c has open (holding LOCK_SH)
    cpc,        \* cpc[c]: "idle", "opening" (in azs_open), "access" or
                \* "lstat" (in azs_getattr), the last three with the mutex,
                \* or "closing" (in add_file, stamped, not yet pushed)
    closing,    \* closing[c]: the entry add_file has stamped for c
    gpath,      \* gpath[c]: the path of c's azs_getattr
    queue,      \* m_cleanup: sequence of file_to_delete [path, age]
    reached,    \* disk_threshold_reached
    usage,      \* used_percent as statvfs would report it
    gc,         \* the collector's locals across the wait for the mutex
    calls,      \* opens and getattrs so far (bounded by MaxCalls)
    dpc,        \* "mounted", "walk" (azs_destroy in nftw) or "done"
    dlist       \* the entries of the cache root nftw has read and not visited

vars == <<cached, mage, lockOwner, handle, cpc, closing, gpath, queue, reached, usage, gc,
          calls, dpc, dlist>>

Expired == Timeout + 1
Age == 0..Expired
Entry == [path : Paths, age : Age]
NoEntry == [path |-> NoPath, age |-> 0]

\* gc.pc is "peek" at the top of the loop, "lock" while waiting for the
\* path mutex.  gc.snapStale is the mtime/ctime test of line 121 evaluated
\* with the `now` read at line 103; gc.touched records that the file's
\* mtime was set after that `now`, which makes line 121 false.
GCState == [pc : {"peek", "lock"}, path : Paths \cup {NoPath},
            snapStale : BOOLEAN, touched : BOOLEAN]

TypeOK ==
    /\ cached \in [Paths -> BOOLEAN]
    /\ mage \in [Paths -> Age]
    /\ lockOwner \in [Paths -> Clients \cup {GC, NoOwner}]
    /\ handle \in [Clients -> Paths \cup {NoPath}]
    /\ cpc \in [Clients -> {"idle", "opening", "access", "lstat", "closing"}]
    /\ closing \in [Clients -> Entry \cup {NoEntry}]
    /\ gpath \in [Clients -> Paths \cup {NoPath}]
    /\ queue \in Seq(Entry)
    /\ reached \in BOOLEAN
    /\ usage \in Usage
    /\ gc \in GCState
    /\ calls \in 0..MaxCalls
    /\ dpc \in {"mounted", "walk", "done"}
    /\ dlist \subseteq Paths

Init ==
    /\ cached = [p \in Paths |-> FALSE]
    /\ mage = [p \in Paths |-> 0]
    /\ lockOwner = [p \in Paths |-> NoOwner]
    /\ handle = [c \in Clients |-> NoPath]
    /\ cpc = [c \in Clients |-> "idle"]
    /\ closing = [c \in Clients |-> NoEntry]
    /\ gpath = [c \in Clients |-> NoPath]
    /\ queue = << >>
    /\ reached = FALSE
    /\ usage \in Usage
    /\ gc = [pc |-> "peek", path |-> NoPath, snapStale |-> FALSE, touched |-> FALSE]
    /\ calls = 0
    /\ dpc = "mounted"
    /\ dlist = {}

-----------------------------------------------------------------------------
(* Helpers translated from the code.                                       *)

\* gc_cache::check_disk_space: hysteresis between the two watermarks; a
\* failing statvfs reads as "threshold not reached".
CheckDiskSpace(probeOK) ==
    /\ probeOK
    /\ \/ usage >= High /\ ~reached
       \/ usage >= Low /\ reached

\* The outcomes statvfs can have.
ProbeOutcomes == IF SpuriousFailure THEN BOOLEAN ELSE {TRUE}

\* Mutation: EWOULDBLOCK from flock taken for success.
FlockExFreeIgnoringEWOULDBLOCK(p) == TRUE

\* flock(fd, LOCK_EX|LOCK_NB) succeeds: no handle holds LOCK_SH on p.
FlockExFree(p) == \A c \in Clients : handle[c] # p

\* Mutation: no re-stat, the closed_time test of line 105 is trusted.
RestatSkipped == TRUE

\* Line 121-122: the re-stat under the path mutex, compared with the `now`
\* of line 103, or the disk threshold.
RestatStale == (gc.snapStale /\ ~gc.touched) \/ reached

\* Setting the mtime of p: seen by a collector waiting on p's mutex.
Touch(p) ==
    gc' = IF gc.pc = "lock" /\ gc.path = p
          THEN [gc EXCEPT !.touched = TRUE] ELSE gc

\* Lines 62-64 of gc_cache::add_file: file_to_delete{path, time(NULL)},
\* built before m_deque_lock is taken.
Stamp(p) == [path |-> p, age |-> 0]

\* Mutation: the entry is queued without its closed_time.
AddFileUnstamped(e) == queue' = Append(queue, [path |-> e.path])

\* Mutation: the close is never queued.
AddFileLost(e) == queue' = queue

\* Lines 66-68: push the entry at the back under m_deque_lock.
AddFile(e) == queue' = Append(queue, e)

-----------------------------------------------------------------------------
(* The filesystem threads (azs_open / azs_write / azs_release, which live *)
(* outside this file: modelled from the spec, section 4.2 and 6).          *)

\* azs_open takes the path mutex before touching the cache.
OpenBegin(c, p) ==
    /\ dpc = "mounted"
    /\ cpc[c] = "idle" /\ handle[c] = NoPath
    /\ calls < MaxCalls
    /\ lockOwner[p] = NoOwner
    /\ lockOwner' = [lockOwner EXCEPT ![p] = c]
    /\ cpc' = [cpc EXCEPT ![c] = "opening"]
    /\ calls' = calls + 1
    /\ UNCHANGED <<closing, cached, mage, handle, queue, reached, usage, gc, gpath, dpc, dlist>>

\* Download the blob if it is not cached, open it and take LOCK_SH
\* (shared_lock_file), then release the path mutex.
OpenEnd(c) ==
    /\ cpc[c] = "opening"
    /\ \E p \in Paths :
        /\ lockOwner[p] = c
        /\ lockOwner' = [lockOwner EXCEPT ![p] = NoOwner]
        /\ handle' = [handle EXCEPT ![c] = p]
        /\ IF cached[p]
           THEN UNCHANGED <<cached, mage, gc>>
           ELSE /\ cached' = [cached EXCEPT ![p] = TRUE]
                /\ mage' = [mage EXCEPT ![p] = 0]
                /\ Touch(p)
    /\ cpc' = [cpc EXCEPT ![c] = "idle"]
    /\ UNCHANGED <<closing, queue, reached, usage, calls, gpath, dpc, dlist>>

\* A write through the open handle sets mtime; no mutex is taken.
Write(c) ==
    /\ cpc[c] = "idle" /\ handle[c] # NoPath
    /\ mage' = [mage EXCEPT ![handle[c]] = 0]
    /\ Touch(handle[c])
    /\ UNCHANGED <<closing, cached, lockOwner, handle, cpc, queue, reached, usage, calls, gpath, dpc, dlist>>

\* azs_release under the path mutex: drop LOCK_SH, close, and add_file up
\* to its time(NULL).
Close(c) ==
    /\ cpc[c] = "idle" /\ handle[c] # NoPath
    /\ lockOwner[handle[c]] = NoOwner
    /\ handle' = [handle EXCEPT ![c] = NoPath]
    /\ cpc' = [cpc EXCEPT ![c] = "closing"]
    /\ closing' = [closing EXCEPT ![c] = Stamp(handle[c])]
    /\ UNCHANGED <<cached, mage, lockOwner, queue, reached, usage, gc, calls, gpath, dpc, dlist>>

\* The rest of add_file: the stamped entry, as old as it has become while
\* the thread waited, is pushed behind whatever other closes pushed.
Enqueue(c) ==
    /\ cpc[c] = "closing"
    /\ AddFile(closing[c])
    /\ cpc' = [cpc EXCEPT ![c] = "idle"]
    /\ closing' = [closing EXCEPT ![c] = NoEntry]
    /\ UNCHANGED <<cached, mage, lockOwner, handle, reached, usage, gc, calls, gpath, dpc, dlist>>

-----------------------------------------------------------------------------
(* azs_getattr of a path other than the root, up to its local-cache probe; *)
(* the remote branch is module GetAttr, which leaves the cache alone.      *)

\* Mutation: the probe runs without the path mutex.
GetattrLockSkipped(c, p) ==
    /\ cpc[c] = "idle" /\ calls < MaxCalls
    /\ cpc' = [cpc EXCEPT ![c] = "access"]
    /\ gpath' = [gpath EXCEPT ![c] = p]
    /\ calls' = calls + 1
    /\ UNCHANGED <<closing, cached, mage, lockOwner, handle, queue, reached, usage, gc, dpc, dlist>>

\* Lines 412-414: take the path mutex, held until the function returns.
GetattrLock(c, p) ==
    /\ dpc = "mounted"
    /\ cpc[c] = "idle" /\ calls < MaxCalls
    /\ lockOwner[p] = NoOwner
    /\ lockOwner' = [lockOwner EXCEPT ![p] = c]
    /\ cpc' = [cpc EXCEPT ![c] = "access"]
    /\ gpath' = [gpath EXCEPT ![c] = p]
    /\ calls' = calls + 1
    /\ UNCHANGED <<closing, cached, mage, handle, queue, reached, usage, gc, dpc, dlist>>

\* Releasing c's mutex on p when azs_getattr returns.
GetattrReturn(c) ==
    /\ lockOwner' = [q \in Paths |-> IF lockOwner[q] = c THEN NoOwner ELSE lockOwner[q]]
    /\ cpc' = [cpc EXCEPT ![c] = "idle"]

\* Lines 421-422 and 439-442: access(F_OK) on the cached file; if it is
\* absent, the call goes to the listing and returns from there.
GetattrAccess(c) ==
    /\ cpc[c] = "access"
    /\ IF cached[gpath[c]]
       THEN /\ cpc' = [cpc EXCEPT ![c] = "lstat"] /\ UNCHANGED lockOwner
       ELSE GetattrReturn(c)
    /\ UNCHANGED <<closing, cached, mage, handle, queue, reached, usage, gc, calls, gpath, dpc, dlist>>

\* Lines 426-437: lstat the cached file and return its attributes, or the
\* lstat errno.
GetattrLstat(c) ==
    /\ cpc[c] = "lstat"
    /\ GetattrReturn(c)
    /\ UNCHANGED <<closing, cached, mage, handle, queue, reached, usage, gc, calls, gpath, dpc, dlist>>

-----------------------------------------------------------------------------
(* azs_destroy at unmount: nftw(root, rm, 20, FTW_DEPTH) deletes the cache *)
(* tree children first and stops at the first callback that returns       *)
(* non-zero.  FUSE calls it once no handle is open and no call is running; *)
(* the detached collector thread is still running.                         *)

\* Lines 573-580: unmount; nftw opens the cache root and reads its entries.
DestroyBegin ==
    /\ dpc = "mounted"
    /\ \A c \in Clients : cpc[c] = "idle" /\ handle[c] = NoPath
    /\ dpc' = "walk"
    /\ dlist' = {p \in Paths : cached[p]}
    /\ UNCHANGED <<closing, cached, mage, lockOwner, handle, cpc, gpath, queue, reached,
                   usage, gc, calls>>

\* Lines 556-571 for a file: rm unlinks it and returns unlink's result; a
\* file that is already gone makes it return -1, which ends the walk.
Rm(p) ==
    /\ dpc = "walk" /\ p \in dlist
    /\ IF cached[p]
       THEN /\ cached' = [cached EXCEPT ![p] = FALSE]
            /\ dlist' = dlist \ {p}
            /\ UNCHANGED dpc
       ELSE /\ dpc' = "done" /\ UNCHANGED <<cached, dlist>>

DestroyEntry(p) ==
    /\ Rm(p)
    /\ UNCHANGED <<closing, mage, lockOwner, handle, cpc, gpath, queue, reached, usage, gc, calls>>

\* Lines 558-562: the last callback, FTW_DP for the root itself: rmdir.
DestroyRoot ==
    /\ dpc = "walk" /\ dlist = {}
    /\ dpc' = "done"
    /\ UNCHANGED <<closing, cached, mage, lockOwner, handle, cpc, gpath, queue, reached,
                   usage, gc, calls, dlist>>

-----------------------------------------------------------------------------
(* The collector thread, gc_cache::run_gc_cache.                           *)

\* Lines 83-101: the deque is empty; usleep and loop.
GCIdle ==
    /\ gc.pc = "peek"
    /\ queue = << >>
    /\ UNCHANGED vars

\* Lines 169-175: nothing timed out; sleep, then re-probe the disk.
GCNotEligible ==
    /\ \E ok \in ProbeOutcomes : reached' = CheckDiskSpace(ok)
    /\ UNCHANGED gc

\* Lines 86-105 and 169-175: read the front under m_deque_lock, then test
\* closed_time against now, or the threshold.  An eligible file is taken on
\* to the mutex wait with the mtime test as of this `now`; otherwise sleep
\* and re-probe the disk.
GCPeek ==
    /\ gc.pc = "peek"
    /\ queue # << >>
    /\ LET f == Head(queue) IN
       IF f.age = Expired \/ reached
       THEN /\ gc' = [pc |-> "lock", path |-> f.path,
                      snapStale |-> mage[f.path] = Expired, touched |-> FALSE]
            /\ UNCHANGED reached
       ELSE GCNotEligible
    /\ UNCHANGED <<closing, cached, mage, lockOwner, handle, cpc, queue, usage, calls, gpath, dpc, dlist>>

\* Lines 116-117: block on the path mutex.
GCLock ==
    /\ gc.pc = "lock"
    /\ lockOwner[gc.path] = NoOwner
    /\ lockOwner' = [lockOwner EXCEPT ![gc.path] = GC]
    /\ UNCHANGED <<closing, cached, mage, handle, cpc, queue, reached, usage, gc, calls, gpath, dpc, dlist>>

\* Lines 119-166 under the path mutex: re-stat; if still stale open the
\* file, try LOCK_EX|LOCK_NB, unlink and re-probe on success; whatever the
\* outcome, pop the front and release the mutex.  A stat of a file that is
\* gone leaves buf uninitialised, but open then fails either way.
GCEvict ==
    /\ gc.pc = "lock"
    /\ lockOwner[gc.path] = GC
    /\ LET p == gc.path IN
       \E openOK \in ProbeOutcomes, flockOK \in ProbeOutcomes, ok \in ProbeOutcomes :
         IF cached[p] /\ RestatStale /\ openOK /\ flockOK /\ FlockExFree(p)
         THEN /\ cached' = [cached EXCEPT ![p] = FALSE]
              /\ reached' = CheckDiskSpace(ok)
         ELSE UNCHANGED <<cached, reached>>
    /\ queue' = Tail(queue)
    /\ lockOwner' = [lockOwner EXCEPT ![gc.path] = NoOwner]
    /\ gc' = [gc EXCEPT !.pc = "peek", !.path = NoPath]
    /\ UNCHANGED <<closing, mage, handle, cpc, usage, calls, gpath, dpc, dlist>>

-----------------------------------------------------------------------------
(* The environment.                                                        *)

\* One second passes: every timestamp ages.
Older(e) == [e EXCEPT !.age = IF @ < Expired THEN @ + 1 ELSE Expired]

Tick ==
    /\ \/ \E p \in Paths : mage[p] < Expired
       \/ \E i \in DOMAIN queue : queue[i].age < Expired
       \/ \E c \in Clients : cpc[c] = "closing" /\ closing[c].age < Expired
    /\ mage' = [p \in Paths |-> IF mage[p] < Expired THEN mage[p] + 1 ELSE Expired]
    /\ queue' = [i \in DOMAIN queue |-> Older(queue[i])]
    /\ closing' = [c \in Clients |-> IF cpc[c] = "closing" THEN Older(closing[c])
                                                            ELSE closing[c]]
    /\ UNCHANGED <<cached, lockOwner, handle, cpc, reached, usage, gc, calls, gpath, dpc, dlist>>

\* Other data on the disk grows or shrinks.
SetUsage ==
    /\ \E u \in Usage \ {usage} : usage' = u
    /\ UNCHANGED <<closing, cached, mage, lockOwner, handle, cpc, queue, reached, gc, calls, gpath, dpc, dlist>>

Next ==
    \/ \E c \in Clients, p \in Paths : OpenBegin(c, p)
    \/ \E c \in Clients, p \in Paths : GetattrLock(c, p)
    \/ \E c \in Clients : OpenEnd(c) \/ Write(c) \/ Close(c) \/ Enqueue(c)
    \/ \E c \in Clients : GetattrAccess(c) \/ GetattrLstat(c)
    \/ DestroyBegin \/ DestroyRoot \/ \E p \in Paths : DestroyEntry(p)
    \/ GCIdle \/ GCPeek \/ GCLock \/ GCEvict
    \/ Tick \/ SetUsage

\* The collector loops forever and time passes; a thread inside azs_open
\* or azs_getattr finishes it.  Nothing obliges a client to start a call.
Fairness ==
    /\ WF_vars(GCPeek) /\ WF_vars(GCLock) /\ WF_vars(GCEvict)
    /\ WF_vars(Tick)
    /\ \A c \in Clients : WF_vars(OpenEnd(c)) /\ WF_vars(Enqueue(c))
                          /\ WF_vars(GetattrAccess(c))
                          /\ WF_vars(GetattrLstat(c))
    /\ WF_vars(DestroyRoot \/ \E p \in Paths : DestroyEntry(p))

Spec == Init /\ [][Next]_vars /\ Fairness

-----------------------------------------------------------------------------
(* Properties.                                                             *)

\* A cached file is never unlinked by the collector while a FUSE handle is
\* open on it (the flock LOCK_EX|LOCK_NB test of line 128 against the
\* LOCK_SH that azs_open takes under the same path mutex).
NoUnlinkWhileOpen ==
    [][\A p \in Paths :
         (cached[p] /\ ~cached'[p]) => \A c \in Clients : handle[c] # p]_vars

\* A cached file is unlinked only if it has not been modified for more than
\* the timeout, or the disk threshold is reached: the closed_time test of
\* line 105 alone is not enough, since the file may have been reopened and
\* written after that close; the re-stat of lines 119-122 must catch it.
\* (An unlink by azs_destroy's rm is told apart by the entry it takes off
\* dlist; destroy removes every file whatever its age.)
UnlinkOnlyStaleOrPressure ==
    [][\A p \in Paths :
         (cached[p] /\ ~cached'[p] /\ UNCHANGED dlist)
            => (mage[p] = Expired \/ reached)]_vars

\* A file that eventually stays closed eventually leaves the cache: the
\* close that ended its last use queued it (add_file), and no later step of
\* the collector drops that entry without deleting the file.
EventuallyEvicted ==
    \A p \in Paths :
        (<>[](\A c \in Clients : handle[c] # p)) => <>[](~cached[p])

\* A getattr whose access() found the file in the cache finds it with
\* lstat() too: the collector cannot unlink it between the two calls, since
\* both hold the path mutex (lines 116-117 and 413-414), so the lstat error
\* return of lines 427-431 is never taken for a file that was cached.
LstatFindsAccessedFile ==
    \A c \in Clients : cpc[c] = "lstat" => cached[gpath[c]]

\* The comment of azs_destroy (line 572): the entire contents of the cache
\* are deleted at unmount, while the collector may still unlink files.
DestroyEmptiesCache ==
    dpc = "done" => \A p \in Paths : ~cached[p]

\* Section 4.2 of the spec: a candidate whose file still has an open handle
\* is left queued and inspected again on a later cycle.
DeferWhileOpen ==
    [][Len(queue') < Len(queue) =>
         \A c \in Clients : handle[c] # Head(queue).path]_vars

=============================================================================
