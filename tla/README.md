# TLA+ models of blobfuse's cache and directory emulation

These modules model `src/blobfuse/utilities.cpp`, the part of blobfuse that
turns a flat blob container into a hierarchical filesystem backed by a local
file cache. Each module is written from the code; where a collaborator lives
outside `src/` (the FUSE open/write/release handlers, the path-mutex map, the
blob client), it is modelled from `spec.md` and marked `spec_modelled` in
`PROJECT.json`.

## 1. Inventory

| Component | Code | State it keeps | Operations |
|---|---|---|---|
| Path Lock Registry | `file_lock_map` (outside `src/`) | one mutex per path, never freed | `get_mutex`, lock, unlock |
| Error Translator | `map_errno` 6-18 | none | table lookup |
| Eviction Engine | `gc_cache` 30-178 | deque `m_cleanup` of `{path, closed_time}`, `disk_threshold_reached` | `add_file`, `run_gc_cache` loop, `check_disk_space` |
| Shared flock on open | `shared_lock_file` 181-212 | the flock on an fd | LOCK_SH, blocking or not |
| Listing Paginator | `list_all_blobs_hierarchical` 266-318 | marker, `prior`, `failcount`, pages | paged list calls with retry |
| Directory-State Resolver | `is_directory_blob` 214-227, `is_directory_empty` 328-394 | `dir_blob_exists`, `old_dir_blob_found`, marker, `failcount` | property fetch, two-item paged listing |
| Attribute Resolver | `azs_getattr` 397-553 | the path mutex, `dirSize`, `blobItem` | root record, local probe, listing scan |
| Directory Rename Engine | `azs_rename_directory` 624-765, `azs_rename` 771-792 | `local_list_results` | marker rename, local walk, remote reconciliation, rmdir |
| Cache directories | `ensure_files_directory_exists_in_cache` 229-264 | directories under the cache root | stat/mkdir per path segment |
| Teardown | `rm` 556-571, `azs_destroy` 573-581 | the cache tree | post-order nftw delete |
| Stubs, path formatting | 20-25, 584-621, 795-809 | none | constant returns, string concatenation |

How they interact. FUSE runs one thread per in-flight call. `azs_getattr`,
the open/release handlers and the collector take the path's mutex from
`file_lock_map` before touching that path's cached file. Closing a cached file
calls `add_file`, which appends to the collector's deque under
`m_deque_lock`; the collector is one detached thread that never takes
`m_deque_lock` while waiting for a path mutex. Open handles hold a shared
`flock`; the collector deletes only after a non-blocking exclusive `flock`.
`azs_getattr` and `azs_rename_directory` call the paginator;
`is_directory_empty` pages on its own; `azs_rename` calls `azs_getattr` and
then the rename engine, which recurses through itself.

What is hard. The collector races the FUSE threads (the file may be reopened,
written, or still open when its old close is processed; `now` is read before
the mutex wait); it drops or keeps candidates depending on four outcomes; its
disk-pressure flag is re-probed only on some branches. The listing calls face
a service that splits results into pages, may repeat a boundary item and
fails transiently. Directory state is inferred from names and a marker
convention. Rename reconciles two listings with no atomicity and ignores
errors of its steps.

Correctness, per component:
* Eviction Engine: never unlink a file with an open handle; unlink only a file
  unmodified for the timeout or under disk pressure; a file that stays closed
  is eventually evicted; the threshold flag follows the watermarks.
* Paginator: every item delivered once, in order; give up only after the
  consecutive-failure bound.
* Directory-State Resolver: the answer is the directory's real state, or -1.
* Attribute Resolver: file versus directory decided right; a file that the
  local probe finds in the cache is still there for its `lstat`.
* Teardown: the whole cache is deleted at unmount (the comment of line 572).
* Rename Engine: every entry present locally or remotely renamed exactly
  once; no file or blob with content lost whatever step fails (a directory
  marker can be, see section 5); the whole call, when nothing fails, equal
  to an atomic move of the subtree; the call terminates; a failure reported.
* Cache directories: the function returns 0 with every directory of the path
  made, whichever thread makes a shared parent first.

The hazards, each at its line, are listed in `PROJECT.json` under `hazards`.

## 2. Plan

1. `CacheGC` (done): the collector, the FUSE threads that feed it and the path
   mutexes. The concurrency of the system is here.
2. `RemoteStore` (done): blob names as character sequences, hierarchical list
   semantics and paging, shared by every listing module.
3. `Listing` (done): the paginator.
4. `DirState` (done): `is_directory_empty`.
5. `GetAttr` (done): `azs_getattr` over `RemoteStore`, composing `Listing`
   by `INSTANCE`. Its local probe is composed with the collector in
   `CacheGC` (done): access and lstat under the path mutex against eviction.
6. `Rename` (done): `azs_rename` and `azs_rename_directory`, the recursion as
   an explicit call stack, the local cache tree and the container as state,
   the single-file rename as a leaf; `RenameAbs` is its abstract
   specification, shown implemented in the failure-free case.
7. `CacheDirs` (done): three threads in
   `ensure_files_directory_exists_in_cache`, with concurrent removal of empty
   cache directories.
8. Teardown (done, in `CacheGC`): `azs_destroy`'s nftw walk while the
   collector still runs.
9. An abstract `EvictionAbs` (a cached file leaves only when closed and stale
   or under pressure), with `CacheGC` shown to refine it.

## 3. Modules and how they correspond to the code

### CacheGC (`MCCacheGC`)
State: `cached[p]` (the file exists under the cache root), `mage[p]` (age of
its mtime/ctime), `lockOwner[p]` (the path mutex), `handle[c]` and `cpc[c]`
(FUSE threads and the file they hold open with LOCK_SH), `queue`
(`m_cleanup`), `reached` (`disk_threshold_reached`), `usage`, the collector's
locals `gc`, `gpath[c]` (the path of a thread's getattr), the bound counter
`calls`, and `dpc`/`dlist` for the unmount (`dlist` is what nftw has read
from the cache root and not yet visited).

Time is kept as ages capped at `Timeout + 1` ("expired"): every comparison in
the code is `now - t > file_cache_timeout_in_seconds` against the current
time, except the re-stat of line 121, which uses the `now` read at line 103
before the mutex wait. That one is modelled exactly by `gc.snapStale` (the
test as of line 103) and `gc.touched` (the mtime was set after that `now`,
which makes the test false).

Actions: `GCIdle` (lines 83-101), `GCPeek` with `GCNotEligible` (86-107,
169-175), `GCLock` (116-117), `GCEvict` (119-166: re-stat, open, flock,
unlink, re-probe, pop, unlock, as one step because the path mutex is held
throughout and nothing else can change what it reads except a write, which
the held LOCK_SH already makes fail). `add_file` is two steps, because it
reads `time(NULL)` (`Stamp`, lines 62-64, taken in `Close`) before it takes
`m_deque_lock` and pushes (`Enqueue` with `AddFile`, lines 65-69): between
them the stamp ages (`closing[c]`, aged by `Tick`) and other closes push
theirs, so the deque can leave closed_time order.
`OpenBegin`/`OpenEnd`, `Write` and `Close` are azs_open, azs_write and
azs_release from the spec: open takes the path mutex, downloads if not cached,
opens and takes LOCK_SH (`shared_lock_file`), releases; a write sets mtime
without the mutex; release drops LOCK_SH under the mutex and calls `add_file`.
`GetattrLock`, `GetattrAccess` and `GetattrLstat` are the local probe of
`azs_getattr` (lines 412-442): the path mutex, `access(F_OK)`, and `lstat`
with its error return; a miss returns to the listing, which is module
`GetAttr` and leaves the cache alone. `DestroyBegin`, `DestroyEntry` (the
`rm` callback, `Rm`, for a file) and `DestroyRoot` (its `rmdir` of the root)
are `azs_destroy`: FUSE calls it with no handle open and no call running,
so no client starts a call afterwards, but the detached collector still
runs. A failing callback ends the walk, as `nftw` does on a non-zero return.
`Tick` and `SetUsage` are the environment. `SpuriousFailure` turns on
statvfs/open/flock failures.

Fairness: weak fairness of the collector's steps (a detached thread looping
forever), of `Tick` (time passes), of `OpenEnd`, `GetattrAccess` and
`GetattrLstat` and `Enqueue` (a thread inside a call finishes it), and of the nftw walk
once `azs_destroy` has begun. No fairness for starting a call, writing,
closing or unmounting: clients may stop. Getattrs count against the bound,
so a thread cannot starve the collector's mutex wait forever, which an
unfair `std::mutex` would otherwise allow.

### RemoteStore
Blob names are sequences of character codes (`-`, `.`, `/`, `a`, `b`, `d`) so
that prefixes, the delimiter and `std::string::compare` order are the real
ones. `Listing(blobs, prefix)` is the hierarchical listing; `Pages` is every
page the service may return from a marker: at most `maxresults` items, making
progress, possibly repeating the boundary item, possibly handing back a marker
after the last item.

### Listing (`MCListing`)
`list_all_blobs_hierarchical`: `continuation`, `prior`, `success`,
`failcount`, `results` as in the code; `outcomes` is a history of call
results used only by a property. `ListCallSucceeds`/`ListCallFails` are one
loop iteration each, including the loop test. The container is any subset of
five names around the prefix `a` (`a`, `a.b`, `a/b`, `ab`, `b`).

### DirState (`MCDirState`)
`is_directory_empty("a")`: `GetDirProps`, `ListSucceeds`, `ListFails`,
`AfterCall`. `former_directory_signifier` (".directory") is abbreviated to
".d"; what matters is the suffix test. Containers are subsets of `a`,
`a/.d`, `a/b`, `a/b/a`, `ab`, with `a` a folder marker blob or a plain blob.

### GetAttr (`MCGetAttr`)
`azs_getattr("/a")` for a non-root path. `Probe` is the local-cache branch
(lines 413-442); `ListStep` is one iteration of the paginator, taken from
`Listing` through `INSTANCE Listing WITH Prefix <- Name, MaxResults <- 2`, so
the two modules share one definition of the loop; `Decide` is lines 449-551:
`Scan` folds `ScanBatch`/`ScanItem` over the returned batches, starting at
index 1 of a flagged batch, counting `dirSize` (names sorting before `a/`),
taking the first exact match (`a` or `a/`) as `blobItem`, and leaving only
the current batch on the `break` of line 485. `GetFileProps` is the property
fetch of a file, whose errno the code never reads. The containers are subsets
of `a`, `a-b`, `a.b` (siblings sorting before `a/`), `a/b` (a child) and `ab`
(a sibling after it), with `a` a folder marker or a plain blob, large or
empty. The root branch is a constant record and is not modelled.

### Rename (`MCRename`) and RenameAbs
`azs_rename("/a", "/b")` (lines 771-792) and the recursion of
`azs_rename_directory` (lines 624-765). State: `blobs` and `folder` (the
container and its `hdi_isfolder` markers), `files` and `dirs` (the local
cache tree), `pc`, and `stack`, a sequence of frames standing for the
recursive calls: each frame has its source and target, a program counter
(`props`, `walk`, `list`, `remote`), the directory entries `opendir` read,
`handled` (the code's `local_list_results`), the container when the frame
started and the listing items still to process. `RenameStart` is the
getattr dispatch of `azs_rename`: the local probe first, then the remote
answer, to a file leaf, a directory call or ENOENT. `Props` is the marker
check of lines 631-661: a marker is renamed as a single file whose result
is ignored, and lines 640-645 decide on `errno` alone, so a failed leaf that
leaves `errno` 0, 404 or ENOENT (`LeafErrno`) goes on as if it had worked; `WalkEntry` is
one `readdir` entry of lines 664-698 (dot entries skipped, a directory a
recursive call, a file a leaf rename recorded in `handled`); `ListCall` is the
listing of lines 703-711; `RemoteItem` is one listed item of lines 714-760
(skipped if handled, a prefix a recursive call, otherwise a leaf rename);
`RemoteDone` is the trailing `rmdir` and the return. `SingleFile`, the leaf
`azs_rename_single_file`, is not under the modelled source and is modelled
from the spec: it moves the blob, its marker flag and the cached file, or
fails without effect.

Fault model (`Faults`): getattr, `get_blob_property`, the listing and each
leaf rename may fail. `StaleListing` lets a listing return the container as
it was when the frame started, the eventual consistency the spec names; this
is what makes the `local_list_results` filter necessary. `AllowCollision`
admits a plain blob named like a directory; otherwise `Init` keeps the
container and cache consistent (a cached file has no marker at its name, a
leftover cache directory over a blob only where that blob is a marker).

`RenameAbs` moves the whole subtree under `Src` to `Dst` in one step, in the
container, the markers and the cache. `MCRename` maps the detailed state to
it with a commit point: the abstract state is the snapshot `start` until
`pc = "done"`, and the current state afterwards; `RenameRefinesAbs` is
`RenameAbs!Spec` checked as a temporal property. Fairness is `WF_vars(Next)`:
`azs_rename` runs to completion on the calling FUSE thread, with no lock to
wait for, so while it has not returned it keeps taking steps. The
refinement is checked in the `rename` run, where nothing fails: with
failures the code leaves a partial rename, which spec section 7 accepts and
`RenameAbs` does not describe.

### CacheDirs (`MCCacheDirs`)
`ensure_files_directory_exists_in_cache` (lines 229-264) for three threads,
whose paths `a/b/x`, `a/b/y`, `a/c/z` share the parents `a` and `a/b`. Each
thread has its segment index, its return status and its own `errno`. `Stat`
is the `stat` of a prefix (an existing directory goes on, a missing one sets
`errno` to ENOENT); `Mkdir` is the `mkdir`: it makes the directory, or fails
with EEXIST when another thread made it between the `stat` and the `mkdir`,
or with ENOENT when its parent has gone; `Continue` is the EEXIST reset of
line 252 and the loop test. `Rmdir`, bounded by `MaxRmdirs`, is another
part of blobfuse removing an empty cache directory (the rename engine's
`rmdir`, the eviction of a directory), modelled from the spec.

## 4. Runs

| Run | Expect | What it shows |
|---|---|---|
| `cachegc` | pass | `TypeOK`, `LstatFindsAccessedFile`, `NoUnlinkWhileOpen`, `UnlinkOnlyStaleOrPressure`, `EventuallyEvicted`: two threads, two paths, at most three opens or getattrs, an unmount, timeout one tick, three disk levels; entries may reach the deque out of closed_time order, which only delays eviction. |
| `cachegc_destroy` | violation | `DestroyEmptiesCache`: the collector unlinks `p1` after nftw read it, `rm` returns -1 and `p2` stays on disk after unmount. |
| `cachegc_defer` | violation | `DeferWhileOpen`: an entry is popped while its file is open (spec 4.2 says deferred). |
| `listing` | pass | `ListingExact`, `GivesUpOnlyAfterMaxFailures`: two items per page, boundary repeats on, three failures allowed. |
| `dirstate` | pass | `DirStateCorrect` without boundary repeats. |
| `dirstate_dup` | violation | `DirStateCorrect` with boundary repeats: `a/.directory` alone reads as D_NOTEMPTY. |
| `getattr` | pass | `GetAttrKindCorrect`: directory, file or ENOENT decided right over every container, with two-item pages and boundary repeats. |
| `rename` | pass | `TypeOK`, `RenamedExactlyOnce`, `RenameRefinesAbs`: without faults and with stale listings, every entry under `a` (remote or cached) is renamed exactly once, and the call is the atomic subtree move. |
| `rename_faults` | pass | `NoContentLost`, `RenameTerminates`: with every step allowed to fail (a failed marker leaf with a clear `errno` included), each cached file and each blob with content is at its source or its target, and the call returns. |
| `rename_silent` | violation | `FailureReported`: a failed leaf rename still ends with `azs_rename` returning 0 while `a` itself or entries below it are still at the source. |
| `rename_collision` | violation | `RenamedExactlyOnce`: a plain blob `a/d` with a leftover cache directory `a/d` is recorded as handled by the walk and never renamed. |
| `cachedirs` | pass | `TypeOK`, `ReturnsZeroWhenDirsExist`: three threads and two concurrent removals; without removals every thread returns 0 with its directories made, whichever thread wins each `mkdir` race. With removals a thread can return -1 with ENOENT, an outcome the spec does not decide. |

Bounds. Two clients are enough for an open handle to coexist with a close
that queues the file; two paths give a head-of-line entry for one path in
front of another; three calls let one file be downloaded, closed, reopened,
written and closed again while the collector works on the first entry, with
a getattr on top, or two files be cached and queued before the unmount. A
timeout of one tick separates fresh, one-tick-old and expired timestamps,
which is all the `>` comparisons distinguish. Three usage levels are below,
between and at the watermarks. The failure bound is 3 instead of 20: the
literal changes how long a run of failures is, not which paths the code
takes. Two items per page is what `is_directory_empty` and `azs_getattr`
request. `MCGetAttr` allows one failed call (`MaxFailCount` 1): a failure
that ends the loop and a success after a repeat are both reached, and the
retry path itself is checked in `listing`.

`MCRename` has a two-level tree (`a`, `a/a`, `a/d`, `a/d/a`): a marker and a
plain-blob subdirectory, files cached or not, and leftover cache directories,
so the walk, the listing, the recursion from both and the handled filter all
happen; a third level would only repeat the recursion. `MCCacheDirs` has
three threads: two share the parent `a/b`, one shares only `a`, so every
order of two `stat`/`mkdir` pairs on a shared parent occurs, with up to two
removals between them.

## 5. Findings

See `findings` in `PROJECT.json`: the collector drops a candidate whose file
is still open; its threshold flag can stay set with usage low;
`is_directory_empty` has no boundary-repeat suppression; `azs_rename`
returns 0 after a failed step, and skips a plain blob whose name a leftover
cache directory shares; `azs_destroy` stops at the first file the collector
removed under it and leaves the rest of the cache behind.

Observations described here without a run of their own (the project keeps
one run per question): the threshold flag of the collector is cleared only
by a later cycle, so it can stay set with usage low while the deque is
empty (line 96); the legacy marker is matched by suffix, so a directory
holding only `b.directory` reads as empty (line 370); a failed property
fetch in `azs_getattr` is returned as a file of size 0 (line 527); and the
local walk of rename skips every entry starting with `.` (line 667), so a
cached-only dot file is left behind; `azs_getattr`'s `dirSize` counts
listed names that sort before `name/`, which are siblings, not children, so
a directory with children gets `st_nlink` 2, the value the comment of line
511 gives an empty directory (line 479); and the deque is not FIFO by
closure time as section 3 of the spec describes it, since `add_file` stamps
before it locks (line 64); the `cachegc` run shows this costs only delay.

A directory marker can be lost by a rename that returns 0 (lines 637-645
and 763). Checking `NoContentLost` with markers included, TLC finds, on the
container holding only the marker `a`: `get_blob_property` finds the
marker; its `azs_rename_single_file` fails but leaves `errno` 0, 404 or
ENOENT, so lines 640-645 do not return; the walk and the listing find
nothing; `azs_rmdir("/a")` sees an empty directory and deletes the marker;
`azs_rename` returns 0. Neither `a` nor `b` exists afterwards. With
children, they are moved and `b` exists without its marker.

## 6. Not modelled

`map_errno` (a lookup), `prepend_mnt_path_string` (string formatting), and
the constant stubs. The cache of `CacheGC` is flat, so the post-order
`rmdir` of nested cache directories in `azs_destroy` is represented by the
root's alone.
Rename is modelled as one call against a container no one else writes: the
code takes no path mutex, and concurrent writers are outside what the spec
promises. `d_type` is assumed filled in by the cache filesystem. The
blob client's get/put/delete are not modelled beyond what the listing
modules need. Descriptor numbers (the `fd > 0` test) and the order of
timestamps taken before `m_deque_lock` are not modelled; see the hazards.
