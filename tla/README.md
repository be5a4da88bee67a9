# cpp_leveldb in TLA+

Specifications of the key/value store in `src/`: TLA+ modules translated from the
code, instances of them for TLC, and theorems that TLAPS checks. Line numbers are
those of the sources the modules were written from; `PROJECT.json` maps each
definition to its lines.

    tlc -workers 2 -config MC_session.cfg MCDatabase     # a run, see "Runs"
    tlapm SkipListProofs.tla                             # proofs, a few minutes a module

## The system

A database is a directory. A process opens it, and its threads share one `Database`.
Entries go to a **memory segment**, a skip list with a log file. A full one is put at
the end of a list of **segments** and a new one started. A **merger** thread replaces
neighbouring segments by one **disk segment**, a key file and a data file, so that the
list stays short. Closing merges, writes the rest to disk, and removes files that are
no longer needed. Removing a key writes an empty value, which hides older entries
until a merge that includes the oldest segment drops it.

| part | state | operations | correct when |
| --- | --- | --- | --- |
| Database session (`database.cpp`, `databaseops.cpp`, `snapshot.cpp`) | `_open`, `closing`, `err`, `state` = (segments, memory, multi), `nextSegID`, `db_lock`, `wg` | put, remove, write, get, snapshot, lookup, close | it behaves as a map with constant snapshots, get included; a close ends and loses nothing |
| Merger (`merger.cpp`, `waitgroup.h`) | its thread, the merge in progress, `wg` | autoMerger, wakeup, mergeSegments0/1 | the map never changes; segments stay in the order of their age; it is gone after a close |
| Segment files (`diskio.cpp`, `disksegment.cpp`, `deleter.h`) | key, data and `.tmp` files, the file `deleted` | write, rename, load, schedule and carry out deletions | whatever is left by a crash opens, and holds what the session had on disk |
| Skip list (`skiplist.h`) | nodes, links, `maxHeight` | put, remove by one writer; get, seek, next by readers without a lock | readers see a value that was there, miss nothing, and end |
| Log files (`logfile.cpp`, `fdfilebuf.h`) | buffer, file, `inBatch`, state of the stream | write, startBatch, endBatch, flush, readLogFile | what is read back is a prefix of what was written, batches whole or not at all |
| Lock file (`lockfile.h`) | descriptor, `locked` | tryLock, unlock, copying | one process at a time |
| Thread pool (`threadpool.h`, `waitgroup.h`) | queue of tasks, sleeping threads, `stop_`; the count of the `WaitGroup` | enqueue, waitEmpty, done, shutdown | each task runs once, nobody sleeps through a notification, the exit ends |
| Contents of segment files (`diskio.cpp`, `disksegment.cpp`) | blocks, prefix-compressed keys, an index, values | write, search, load the index | the entry of a key is found, nothing is lost in the encoding |
| Iterators (`multisegment.h`, `skiplistitr.h`, `disksegment.h`) | position and look-ahead of each, `lowest` | lookup, peekKey, next | the newest entry of each key of the range, in order |

How the parts meet: `put`, `remove`, `write` and `snapshot` run inside the recursive
`db_lock`; `get` takes no lock and reads `state` with one atomic load. The merger reads
the list without `db_lock`, works for a long time, and takes `db_lock` to put its
result in place. `closeWithMerge` takes `global_lock`, raises `closing`, waits for the
`WaitGroup`, then takes `db_lock` for the rest of its work and gives tasks to the
thread pool, which it waits for through the same `WaitGroup`. Files are shared between
sessions, and between processes only by the lock file.

What is hard here: a `get` that overlaps a swap, a merge or a close; a merge that comes
back to a list that has changed; removed keys in the right segments only; batches that
are applied entry by entry; waiting in a close on parties that may need what it holds;
exceptions half way through a merge; crashes between any two operations on files, and
ids that are given out again afterwards; readers of the skip list beside its writer;
file descriptors whose numbers are given out again. `PROJECT.json` lists these as
hazards, each at its line, with the properties that cover it.

## Modules

| module | models |
| --- | --- |
| `Segments` | segments as data: entries, a stack of segments and the map it stands for (`View`), `MultiSegment::get` (`MultiGet`), the result of a merge (`Merged`), order and filter of loading (`LoadOrder`), replacing a slice of the list (`Splice`) |
| `KVStore` | what the interface promises: a map, requests applied one entry at a time and one request at a time, snapshots that are constant |
| `Database` | one open session with its threads; EXTENDS `Segments`, implements `KVStore` |
| `KeyFile` | the bytes of a key file and a data file: how `writeSegmentFiles` lays entries out, how `DiskSegment` finds them again; operators only |
| `SegmentFiles` | a stack of memory and disk segments with the merging iterator, flushes, merges, ranged lookups and gets on real files; EXTENDS `KeyFile`, compared with `Segments` |
| `Recovery` | the directory over several sessions with crashes; EXTENDS `Segments` |
| `TaskSet` | what a close needs of the thread pool: tasks carried out in any order, each once |
| `ThreadPool` | the pool and the `WaitGroup` with mutexes and condition variables; implements `TaskSet` |
| `SkipList` | the list link by link, one writer, readers without a lock |
| `LogFile` | the log of a memory segment and the reader of logs |
| `LockFile` | descriptors, `flock`, and the two copies of a `LockFile` |
| `MCDatabase`, `MCSegmentFiles`, `MCLockFile` | constants for TLC |
| `SegmentsProofs` | lemmas about data: lists, splices, merging, gets, loading |
| `DatabaseProofs` | theorems about `Database`: its invariant, its calls, its files, its snapshots |
| `SegmentFilesProofs` | theorems about `SegmentFiles`, and lemmas about `KeyFile` |
| `LogFileProofs`, `RecoveryProofs`, `SkipListProofs`, `ThreadPoolProofs`, `LockFileProofs` | theorems about the module of that name |

Operators with the names of bugs (`SpliceAtEnd`, `PurgesAnywhere`, `TopDown`, ...)
stand before the definition they are variants of. Nothing uses them; each shows,
when put in place of that definition, that one of the properties can fail.

### Database

A segment object is named by the range of ids it covers, `<<lower, upper>>`, as its
files are. `contents` is the heap of all segment objects, so that a reader or a
snapshot can hold one that is no longer listed. `state` has the three fields of
`DatabaseState`.

| action | code |
| --- | --- |
| `WriteBegin` | `put` and `write` up to the change of the memory segment, `maybeSwapMemory` included |
| `RemoveBegin` | `remove`: its own `get`, the early return on an empty value, the swap |
| `WriteApply` | one entry reaches the memory segment; after the last one `db_lock` is free again |
| `SnapshotTake`, `SnapshotRelease` | `snapshot` (it always starts a new memory segment), and the last reference going away |
| `ReadBegin`, `ReadLoad`, `ReadSearch` | `get`: the test of `_open`, the atomic load, the search |
| `AutoWake`, `AutoReturn` | the loop of the merger thread, `closing` and `err` read at its top |
| `MergePick`, `MergeWrite`, `MergeSwap` | `mergeSegments0` before, during and after the files are written; the merger thread and the close share them |
| `MergeMeetsFiles`, `MergeWriteFails`, `MergeWritten` | the three ends of `mergeSegments1`: a file with a name of the target is there (`diskio.cpp:49`), an exception while it writes, renames or maps the files, or the merged segment and its lines in `deleted` |
| `MergeThrows` | the handler: the merger thread keeps the reason in `err` and stops, `closeWithMerge` fails (`closer.why`) |
| `CloseBegin`, `CloseLock`, `CloseEnqueue`, `CloseFinish` | `closeWithMerge`, cut where it waits |
| `FlushSegment` | a task of the thread pool |

A section under `db_lock` is one action when nobody can see it half done. Writers are
cut at every entry since `get` looks in between. A memory segment's single entry is one
step, which `SkipList` (`GetLinearizable`) justifies. A dereferenced null pointer, a
read from a key file of length zero, and an exception in a pool task end the process:
`fault` says why, and no action follows.

An exception can leave three things behind, depending on where it was thrown: nothing with a
final name (up to the first rename), a key file without its data file (the second rename),
or both files (`newDiskSegment`, which maps them). `left` names the targets with such
files and `contents` what is in them. They are what a second merge of the same slice meets.
The list at the start is that of an open, with its segments numbered anew: only the order
of the ids matters, and files that an earlier session left are segments of that list or gone.

`wakeup` has no action: a notification can only end a wait early, and `AutoWake` may
come at any time. `merger.merger`, the mutex that lets a second merge return at once,
is never contended: the close merges only after the merger thread has left.

`Database` takes three things for granted that other modules show: that iterating over a
stack of segments gives `Newest` of each key, that a merge writes `Merged` and a get
answers `MultiGet` (`SegmentFiles`), and that the pool is a set of tasks that all get done
before `wg` is zero (`ThreadPool` implements `TaskSet`, whose `pending` is `flushing`).

### KeyFile and SegmentFiles

`KeyFile` works on sequences of bytes, since its hazards are lengths: an item costs
`ItemLen` bytes, a block holds `keyBlockSize`, a prefix fits `maxPrefixLen`. A file being
built is a record of `writeSegmentFiles`' local variables, and `WriteEntry` is one turn of
its loop. The padding of a block and the order of the bytes in a number are left out, the
masks of `keylen` are not: a prefix is stored modulo `maxPrefixLen + 1`, which is why one
that was not tested comes back as another. `binarySearch0` is a recursive function over
block numbers, entered with the bounds that `binarySearch` clamps.

`SegmentFiles` has the callers. One call runs at a time, as in the code: iterations go
over snapshots and slices that no longer change.

| action | code |
| --- | --- |
| `BeginLookup`, `BeginMerge`, `BeginFlush` | `MultiSegment::lookup` for a snapshot's range, `mergeSegments1`, `writeSegmentToDisk`: an iterator on each segment, at the block that the index gives for `lower` |
| `TakeLowest` | `MultiSegment::Iterator::next` up to `next` of the chosen iterator: all are peeked, the newest of those on the lowest key is taken |
| `Skip` | its last loop: the others are peeked, and moved when they are not past the key |
| `Yield`, `Write` | the caller gets the entry: a user of the lookup, or `writeSegmentFiles` |
| `Return` | the end; the files of a flush or merge become a disk segment in the place of what it was made of |
| `Get` | `MultiSegment::get` down to `scanBlock` |
| `DecodeThrows` | `decodeKeyLen` at a key longer than `maxKeySize` |

`Peek` and `NextOf` are the two kinds of iterator with their look-ahead (`peek` of
`SkipListIterator`, `valid`, `finished` of `DiskSegment::Iterator`). `layers` is the
history: what each segment should hold by `Segments`.

### Recovery

The same session, coarser inside and finer on disk: calls follow one another, but
the two temporary files, each rename, each line of `deleted`, each removal by
`deleteScheduled`, and each task of a close are steps. `Crash` can come between any
two. `MergeFails` is an exception in `writeAndLoadSegment`: the temporary files stay, or,
behind the first rename, the key file with a temporary data file or both files (`left`).
`MergeMeetsFiles` is its test for files that are in the way. Both end the merger
thread or the close, after which the process can only die ("broken"). A replaced segment's files are not removed by a destructor: `removeOnFinalize` sets a flag
that only a `MemorySegment` looks at. `keys`, `data`, `tmp`, `deleted` are the directory.
The choice of the slice to merge starts anywhere, since the sizes that decide it in the
code are those of encoded files. Log files are left out: no session reads any. What
crosses power failures, unlike deaths of the process, is not considered: nothing is
synced unless `enableSyncWrite` is set.

### SkipList

Every load and store of a link is a step, sequentially consistent as the code's atomics
are. A node's links above the lowest are `Garbage` until set: the array is declared
with one element, and only that one is constructed. `map` is what the list should
hold; it changes with the link of the lowest level. The height of a node is chosen
freely instead of at random. Nodes are never freed before the list, as in `Arena`.

### LogFile

The file is a sequence of parts (the count of a batch, a length with its key, a length
with its value): a file that ends inside a part reads like one that ends before it,
because every such end throws in the reader. A count is negative in the file, a length
is not; the count 0 of an empty batch is the one a reader takes for a length, and so
does the model. A stream that went bad takes no more; depending on the C++ library
later writes throw or seem to succeed, and the model does not need to tell.

### LockFile

Descriptor numbers of a process are given out lowest first. The `LockFile` on the stack
of `openImpl` and its copy in the `Database` have the same number; `OpenReturns` closes
it, `Destroy` closes it again, whatever it is by then.

### ThreadPool

Each thread, the close and the destructor have a control state; a section under a mutex
is one action, except where the mutex is kept over the decision to sleep: between the
test of a wait's condition and the sleep (`Test`, `Block`; `WaitTest`, `WaitBlock`)
others may run but not lock, and that is what makes notifications safe. `WakeUp` and
`WaitWakeUp` are spurious wake-ups. The order of the queue is kept.

## Runs

Times are for two workers.

| run | module, cfg | properties | states, time |
| --- | --- | --- | --- |
| session | MCDatabase, MC_session | TypeOK SegmentsOrdered MergesFailForAReason DeletedAreCovered CloseKeepsData NoUseAfterClose ImplementsKVStore CloseCompletes MergeCatchesUp | 481 k, 150 s |
| calls | MCDatabase, MC_calls | SnapshotsSeeWholeBatches NullOnlyInClose IInv GetLinearizable | 3.1 M, 80 s |
| segment_files | MCSegmentFiles, MC_segmentfiles | LookupsShowTheMap FilesHoldTheMerge BlocksFit IndexIsReloaded GetsAnswer FailsOnlyOnLongKeysAndEmptyFiles | 759 k, 70 s |
| recovery | Recovery, MC_recovery | TypeOK DiskMatchesSession CloseKeepsEverything TargetsAreFree OpensUnlessTmpLeft | 6.7 M, 120 s |
| pool | ThreadPool, MC_pool | ImplementsTaskSet CloseReturns ExitEnds | 7 k, 3 s |
| list | SkipList, MC_list | TypeOK LinksAscend Structure ScanSeesAll GetLinearizable NeverLoadsGarbage SearchReturns | 2.0 M, 115 s |
| log | LogFile, MC_log | TypeOK ApplyKeepsAPrefix DiscardKeepsWholeWrites LogHoldsTheList | 1.5 M, 26 s |
| lock_file | MCLockFile, MC_lockfile | OpensExclude NoDescriptorLeak | 275, 1 s |
| removed | MCDatabase, MC_removed | RemovedStaysRemoved, refuted | |
| tmp_files | Recovery, MC_tmpfiles | OpensAfterCrash, refuted | |
| lost_log | Recovery, MC_lostlog | LoggedWritesSurvive, refuted | |
| two_processes | MCLockFile, MC_twoprocesses | OpenInOneProcess, refuted | |

What they show:

- **session**: through swaps, snapshots, merges by either thread and the close, with a
  write of a segment that may throw at any time, before its renames, between them or behind
  them, the list stays ordered by age. Of the two `IllegalState` exceptions of the
  merger one, the changed list, cannot happen; the other, a file in the way, happens only
  in a close, after the merger thread has failed behind a rename and left that very file
  (`TargetsDoNotExist`, below). No file is listed for deletion
  whose range is not covered by another one, what is on disk after a close loads as what
  was in memory, files of failed merges included, no thread is left that uses the `Database`, and the whole is a map with
  constant snapshots (for iterators; `get` is the next run's). Under fairness a close
  returns or fails, and more segments than the maximum become fewer again.
- **calls**: `get` against everything else. A get that meets a removal of its key in one
  of the segments it has loaded is left out, see `removed`. `NullOnlyInClose` says how far the null pointers that a close
  leaves can reach: to a `get` that the close overtakes, or to callers of a database
  whose close failed. `IInv` is the invariant of the proofs.
- **segment_files**: whatever has been flushed and merged before, a lookup hands out every
  pair of the map in its range, each key once, in order, and no value that is not the
  newest, by way of every kind of tie and look-ahead. Keys that were removed may come along
  with an empty value, which is how merges need it and not what a caller was told: see
  `RemovedStayHidden` below. The files of a merge decode to what `Segments!Merged` says; blocks
  never run over and begin with whole keys; the index that the writer hands over is the
  one the next session loads; gets by index, binary search and scan agree with
  `Segments!MultiGet`. What still fails does so only for one of two reasons: a key longer
  than `maxKeySize`, which `checkKey` lets pass, or a `get` from a key file without blocks.
- **recovery**: left-over, listed or half removed sources of a merge, and files of a merge
  that failed, never change what
  the next session finds, however much of the list was written or carried out before a
  crash, and again in the next session; only temporary files keep a database from
  opening; a new segment never has the name of an old one, except that of a merge that
  failed in the same session. What the crash costs is
  exactly what was not on disk.
- **pool**: the queue, its threads and the `WaitGroup` do what `Database` assumes of them,
  each task is carried out once, a close returns, and the exit of the process joins every
  thread with nothing left in the queue, also when tasks and exit meet.
- **list**: for a get, a put is one step; an iteration comes across every key that is
  there all the time; the unset links of a new node are never loaded; between writes
  every level holds what it should; readers do not wait for the writer.
- **log**: reading the file after any crash gives whole writes (when partial batches are
  discarded) or the entries up to some point (when they are applied), and at least
  what was flushed. With `disableWriteFlush` only the end of a batch flushes.
- **lock_file**: `open` and `remove` exclude each other between processes, up to the
  moment where `remove` deletes the lock file; failed attempts leak no descriptor.

### Bounds

- `Database`: two keys and one or two values (in `calls` the segment at the start has one,
  batches write the other); one writer, one reader, one snapshot. The
  code treats keys independently except for the size of a segment and the parts of a
  batch, for which two keys are enough. Two writers only ever exclude each other.
  `MaxSegID` 4 or 5 bounds swaps and snapshots, the only unbounded counters: with one
  segment at the start (`calls`) or three (`session`, one of which removes a key) it leaves
  room for a merge of a prefix, one inside and one at the end of the list, a merge of a
  merged segment, and a merge that overlaps what a failed one has left. A close is given
  0, 1 or 2 segments.
- `MaxSegments` 1 and `MaxMemory` 0 (1 in `calls`, where a memory segment then takes two
  writes, and a get meets one that is overwritten): `openImpl` forces at least 8 and 1 MB.
  Only the comparisons with them matter; the small values let every comparison come out
  both ways. `MinMergeSize` is 2 for the 4 in `mergeSegments0`, so that a slice can be
  shorter than the list with three segments instead of five.
- `Recovery`: one key with two values, two crashes, ids up to 4, closes to 0, 1 or 2
  segments. One key is enough because files are taken as a whole; the second value tells
  older from newer. With four ids a session that finds what two others have left can still
  write, merge and fail.
- `SegmentFiles`: the sizes of `constants.h` are scaled down together, `keyBlockSize` 4096
  to 50, `keyIndexInterval` 16 to 3, `maxPrefixLen` 127 to 2, `maxCompressedLen` 255 to 1,
  `maxKeySize` 1000 to 4, so that nine keys of one to five bytes fall on every side of
  each limit and a file has up to five blocks, two of them in the index. A single memory
  segment holds any subset of the keys; stacks of two and three have three and two keys,
  each put, removed or absent, which gives every tie. Ranges begin and end at keys, between
  them and nowhere.
- `ThreadPool`: two threads and three tasks: one task more than threads, so that one has to
  wait in the queue. With one thread fewer wake-ups can be lost, not more.
- `SkipList`: two levels of the code's twelve and three nodes besides the head, replaced
  ones included, so that a key can be put, replaced and have a neighbour. A level depends
  only on the one above and below it.
- `LogFile`: three writes, batches of up to two entries, two keys.
- `LockFile`: three processes with one `Database` each, two descriptors.

`CHECK_DEADLOCK FALSE`: the sessions end, and the bounds stop the rest.

### Fairness

`Database!Fairness` is weak for what a thread does without waiting, and for the merger's
`wait_for` because it has a timeout of one second. Getting `db_lock` (`MergeSwap`,
`CloseLock`) is strongly fair: the mutex is not fair, and writers who take it again at
once could in principle keep a thread out forever, so this is an assumption about the
scheduler. Nobody has to call anything, but a writer inside `db_lock` goes on.
`MergeCatchesUp` further owes something to `MaxSegID`, since writers who keep adding
segments as fast as they are merged stop there. In `ThreadPool` a thread that runs goes
on, one that waits for a mutex gets it in the end (strong fairness again), and nobody who
sleeps wakes up unless notified: a lost notification is a deadlock there, not a delay.
Nobody has to close or to exit. `SkipList!FairSpec` is only that
a reader that has called goes on; the writer may stop anywhere.

## Proofs

Everything below holds for every value of the constants. The only assumptions are the
named ones of the modules (`DatabaseAssumption`, `SegmentsAssumption`,
`SkipListAssumption`, ...), which say that the constants have their types and that values
that stand for "none" are not among the others, and the hypothesis `OneHandle` below.
Two say more. `SegmentFilesAssumption`: there are finitely many keys, none of them empty,
and a block has room for each of them, which `checkKey` sees to with its limit of 1024
bytes (`database.h`) against blocks of 4096; values are not empty, an empty one being a
removal. `KeyFileAssumption`: a compressed key is no longer than `maxKeySize` (127 + 255
against 1000).

| theorem | states |
| --- | --- |
| `DatabaseProofs!Invariance` | `Spec => []CoreInv` |
| `DatabaseProofs!TypeCorrect` | `Spec => []TypeOK`; the `WaitGroup` never goes below zero |
| `DatabaseProofs!SegmentsStayOrdered` | `Spec => []SegmentsOrdered` |
| `DatabaseProofs!MergesFailForReasons` | `Spec => []MergesFailForAReason` |
| `DatabaseProofs!ClosedIsUnused` | `Spec => []NoUseAfterClose` |
| `DatabaseProofs!Refinement` | `Spec => ImplementsKVStore` |
| `DatabaseProofs!GetsAreLinearizable` | `Spec => GetLinearizable` |
| `DatabaseProofs!NullsAreOfClose` | `Spec => []NullOnlyInClose` |
| `DatabaseProofs!WholeInvariance` | `Spec => []IInv` |
| `DatabaseProofs!DeletedStayCovered` | `Spec => []DeletedAreCovered` |
| `DatabaseProofs!ClosedDataStays` | `Spec => []CloseKeepsData` |
| `DatabaseProofs!SnapshotsAreWhole` | `Spec => []SnapshotsSeeWholeBatches` |
| `SegmentFilesProofs!FilesInvariance` | `Spec => []IInv` (that of segments and iterations) |
| `SegmentFilesProofs!LookupsShow` | `Spec => []LookupsShowTheMap` |
| `SegmentFilesProofs!FilesHold` | `Spec => []FilesHoldTheMerge` |
| `SegmentFilesProofs!BlocksHaveRoom` | `Spec => []BlocksFit` |
| `SegmentFilesProofs!IndexReloaded` | `Spec => []IndexIsReloaded` |
| `SegmentFilesProofs!GetsFind` | `Spec => []GetsAnswer` |
| `SegmentFilesProofs!FailuresHaveReasons` | `Spec => []FailsOnlyOnLongKeysAndEmptyFiles` |
| `LogFileProofs!LogInvariance` | `Spec => []IInv` (the log's) |
| `LogFileProofs!TypeCorrect` | `Spec => []TypeOK` |
| `LogFileProofs!DiscardKeeps` | `Spec => []DiscardKeepsWholeWrites` |
| `LogFileProofs!ApplyKeeps` | `Spec => []ApplyKeepsAPrefix` |
| `LogFileProofs!LogIsTheList` | `Spec => []LogHoldsTheList` |
| `RecoveryProofs!Invariance` | `Spec => []IInv` (the directory's) |
| `RecoveryProofs!TypeCorrect` | `Spec => []TypeOK` |
| `RecoveryProofs!DiskMatches` | `Spec => []DiskMatchesSession` |
| `RecoveryProofs!ClosesKeepEverything` | `Spec => []CloseKeepsEverything` |
| `RecoveryProofs!TargetsStayFree` | `Spec => []TargetsAreFree` |
| `RecoveryProofs!OpensUnlessTmp` | `Spec => []OpensUnlessTmpLeft` |
| `SkipListProofs!Invariance` | `Spec => []IInv` (the list's) |
| `SkipListProofs!TypeCorrect` | `Spec => []TypeOK` |
| `SkipListProofs!LinksStayAscending` | `Spec => []LinksAscend` |
| `SkipListProofs!NoGarbageIsLoaded` | `Spec => []NeverLoadsGarbage` |
| `SkipListProofs!GetsAreLinearizable` | `Spec => []GetLinearizable` |
| `SkipListProofs!ScansMissNothing` | `Spec => []ScanSeesAll` |
| `SkipListProofs!StructureHolds` | `Spec => []Structure` |
| `ThreadPoolProofs!TasksAreCarriedOut` | the safety part of `ImplementsTaskSet` |
| `ThreadPoolProofs!WakeUpsAreNotLost` | `Spec => []NoLostWakeUp` |
| `ThreadPoolProofs!ExitLeavesNothing` | `Spec => []NothingLeft` |
| `LockFileProofs!NothingLeaks` | `Spec => []NoDescriptorLeak` |
| `LockFileProofs!OpensAreExclusive` | `OneHandle => (Spec => []OpensExclude)` |

Each inductive invariant was checked by TLC before it was proved, `Database!IInv` in
the run `calls`, that of `Recovery` on the instance of `recovery` with `MaxSegID` 3 and one crash, and on
1.3 million states of the whole instance, that of `SegmentFiles` on the instance of
`segment_files`, `WholeInv` on that of `calls`. In each proof `Next` is split by action, and each action has a lemma for
each part of the invariant that it can disturb.

### Who holds what: `CoreInv`

None of the properties of `Database` is inductive. That the merger finds its slice unchanged
(`MergesFailForAReason`) needs that others only append to the list while a merge is under
way (`SliceInPlace`), which needs that the two threads that merge exclude each other
(`MergeOwned`, `CloserOrder`), which is what the `WaitGroup` is for: the close goes on
only when `wg` is zero, and `wg` counts the merger thread, its merge, and the tasks
(`WgCounts`). That its target does not exist yet, unless a failed merge has left it, needs
that every other segment object ever
made lies within one of the list (`HeapNested`), in an ordered list (`SegmentsOrdered`)
whose ids have been handed out (`ChainInHeap`, `MemoryNewest`), and that the thread that
has left something does not merge again (`FailuresRecorded`, `LeftApart`).

### The database is a map: `Refinement`

`CoreInv` says what the mapping needs: a write only changes the memory segment, under
`db_lock` (`WritersLocked`); a snapshot consists of segments nobody writes to any more
(`SnapsFrozen`); what a merge puts in place is the merge of what it replaces
(`TargetMerged`). The rest is data. `SegmentsProofs!ViewOfMerge` shows that a map seen
through a stack does not change when a slice of it is replaced by its merge; the removals
may go when the slice begins at the oldest segment, which is what `PurgesDeleted` tests.
`ViewOfPut` and `ViewWithEmptyTop` are the writes and the swaps. Since `KVStore` takes
snapshots only between requests, no snapshot shows a part of a batch.

`SnapshotsAreWhole` turns this into what a caller can observe: two keys that every batch
sets to the same value (`Paired`) are equal in every snapshot. The invariant
(`WholeInv`) looks ahead, since in the middle of a batch they differ: they will be equal when
what is left of it has been applied (`Ends`). A `remove` of one key alone breaks the pair,
and its mark can be overwritten in its memory segment, but not before a batch makes the two
equal again; in a segment that a snapshot froze it stays (`FrozenRemoval`).

### What a get finds: `ReadersSee`

A get holds the list it has loaded while the list and its segments change. `ReadersSee` says
that it would find, at every moment until it returns, a value that its key had since the
call: only the last of its segments can still be written to (`MultiIsLoaded`), and a
write to it is seen as it happens. It had to be stated for the segments the get has
loaded. The first form of the property looked for removals in all segments; it is false,
since a removal that is overwritten in its memory segment leaves no trace, while a get that
started in between can return a value from before. `NullOnlyInClose` needs that pointers
are cleared by a close only (`MultiIsCleared`), which had to wait for the merger.

### What is on disk: `FilesInv`

Files that are not listed for deletion are those of the segments of the list, or of the
merge about to be put in place (`FilesAreListed`); each segment has its files unless it
is empty or a task is to write them (`SegmentsAreStored`); what is listed has been
replaced (`DeletedAreReplaced`, `DiskHasFiles`).

`CloseKeepsData` would follow from that alone, because loading sorts what is there into
the list it came from, if no merge had failed. What a failed merge of the merger thread
leaves can overlap what the close merges, neither within the other, and an open loads
both. They agree, because each was merged from segments that follow one another:
`ContentsStand` says that every segment, left or not, holds what the segments with single
ids in its range held (`Base`), and `SegmentsProofs!ListShowsNames` that a list of such
segments that leaves out nothing reads as these do, however they overlap, as long as both
ends of their ranges ascend. The merge of such segments is one again (`MergeStands`). What a crash leaves in between is the subject of
`Recovery`.

### The directory over crashes: `RecoveryProofs`

What sessions leave behind adds up: sources of merges that nobody deleted, a `deleted` written
or carried out in part, files of merges that were renamed and never published. All that
the invariant says of them is where they lie. `ListCovers`: each file, listed line and disk
segment is within the range of a segment of the list that has its key file. The list is
that of the session with a finished merge already in it (`Current`; `Chain` with the memory
segment). Segments of the list
are never listed for deletion (`NotPlanned`, the lines still to be written included), and
have their files or are being written (`ListStored`). Between sessions the same is said of
what the next open finds (`FoundCovers`), so that the death of the process, at any step,
asks for one lemma (`EndedStep`). The other steps keep the
list ordered or only remove files that are listed.

Apart from the list are the merges that have a key file and no place in it (`Unlisted`):
the one that has renamed it and goes on, and those that have failed there. An open loads
them, and may drop segments of the list for them or load both, where ranges overlap. That this
changes nothing is `Grounded`: there are segments, none of them merged in this session
(`names`), such that every segment of the list and every unlisted one holds what those in
its range held (`Stands`). Loading a directory that covers them gives the view of
these, as in `DatabaseProofs`; so does the list of the session. Sequences of segments are
therefore only asked to ascend at both ends (`Ascending`), not to be disjoint.

`TargetsAreFree` follows because the target of a merge is within no segment of the list
(`SegmentsProofs!TargetIsNew`) and everything in the directory is, but for what is `left`; the
ids of new memory segments are above all of it, although ids are given out again after a
crash (`MemoryApart`). `DiskMatchesSession` compares what is found with the segments of the
session whose entries are in key files, their own or those of a failed merge
(`RecoveredIsStored`). `OpensUnlessTmpLeft` is `KeysHaveData` with `KeysListedFirst`, the order of
`DiskSegment::files`: the key file is listed and removed first, and no open ever loads one half
of a segment.

### Readers without a lock: `SkipListProofs`

The list of a level is what is reachable over it; the invariant says which nodes those
are without following links (`On`): the latest node of each key that the map has, with
the node that is being linked or unlinked, and the one it replaces, counted in up to or
from the level `done` that the writer has come to. Links lead from one node of a level to
the next (`LevelsLinked`), and the lowest level is the map (`MapIsHeld`). Nodes that are no
longer in the list keep their links, which `LinksLeadForward` speaks of: to a node with a
greater key, high enough, with all the links set that a search can load there; that is
why no thread loads garbage (`LinksSet`). `Searching`, `Linking`, `Replacing` and `Unlinking` say
what `prev` and `old` are good for at each level, between two stores.

For a reader on its way to a key, `Path` says that there is a set of nodes that contains the
one it stands on and everything in the list before the key, and that no link leaves but to
the key, or past it if the key was absent since the call. The set holds nodes that were
taken out of the list as well: a get that stands on a removed node may still follow
its old links, and what these lead to was the list once. The writer's steps only ever add the
new node to the set. A get has one such key, an iteration one for each key that it must
not miss. What the search ends at is then a value that was there (`GetLinearizable`), and
an iteration cannot step over a key that stays (`ScanSeesAll`).

`StructureHolds` connects this with the links: what they lead to from `head_` (`Chained`, the
smallest set that no link of the level leads out of) is what `On` says, since a node on a
level is not stepped over (`LevelsLinked`) and keys ascend.

### Segments on disk: `SegmentFilesProofs`

The proof has four layers.

*Keys.* `Less` compares sequences of bytes at the first difference, a missing byte below all
others; that makes it a total order (`LessOrder`), and a key that is written as a prefix length
and a suffix is the key again (`PrefixIs`, `DecodedIs`), as long as the
length of the prefix survives the masks of `keylen`.

*Files.* `FileOK` is the invariant of `writeSegmentFiles`' loop: each block decodes to a part of
the entries, starts with a whole key and ends before `keyBlockSize`; the block under
construction has as many bytes as its items cost; the index has the first key of every
`keyIndexInterval`-th block; the entries ascend. One turn keeps it and appends one entry
(`WriteAdds`). Hence `BlocksFit`, `IndexIsReloaded` (the index is a function of the blocks) and the
half of `FilesHoldTheMerge` that is about the format.

*Searches.* In an ascending file the index, the binary search over the blocks (`BinarySearchIs`, by the width of the
range) and the scan of a block come to the key if it is there, which is `GetsAnswer` with
`Segments!MultiGet`, and an iterator starts at or before `lower`.

*Iterations.* `Due` is what an iterator has still to return, look-ahead included. `PeekIs` and
`NextOfIs` say that peeking does not change it and that `next` takes its lowest entry away. The
invariant: before `TakeLowest` each iterator has due what its segment holds past the last
key (`DueOK`); during `Skip` some are still at the key, never the one it came from; what has been
handed out or written is the newest entries of the keys below (`CollectedOK`). The chosen
entry is on the lowest key and from the newest segment that has it (`TakenOK`, `NewestEntry`), so
each turn extends what was collected by the entry that `Segments` says comes next.
`LookupsShowTheMap` and `FilesHoldTheMerge` follow. `StackOK` says that each segment
holds what `layers` says, which the writer's end (`Return`) restores.

Nothing is assumed of sizes but what the assumptions say: the theorems cover blocks with a
single key, indexes with one entry, and prefixes of length zero. Ranges whose lower end is above the upper one
are left out (`Sane`, see "Not modelled").

### Logs: `LogFileProofs`

The history `written` is the list of writes that reached the stream. `Whole(X, ends, written)`
says that X is cut, at `ends`, into what each write becomes: a key and a value, or a count, the
entries, and the count again. The invariant (`LogInvariance`): there is such an X, of which the
file and, unless a flush failed, the buffer after it are the start, with everything up to the
write `durable` in the file; only what the batch in progress has yet to bring (`ToCome`) is
missing. A file that is the start of X ends in one of the writes (`InAWrite`); the reader
puts those before it as they are (`PutsFirst`), and the last not at all (`DiscardReads`) or up
to some entry (`ApplyReads`), whose parts it finds where `EntryAt` looks. X exists in the proof only:
what a bad stream has lost is known from what was to be written. `LogHoldsTheList` follows
when the file is all of X, because the list has had the same entries put (`ListHoldsTheWrites`).

### Recursive definitions

The readers of `LogFile` and `KeyFile` are recursive functions and folds. The induction theorems
of the library take a predicate as a parameter, which the provers cannot instantiate; here
induction is over a set: one that holds 0, and with each number the next, is `Nat`
(`Induction`, from `WellFoundedInduction`'s `WFMin`). The set of those n for which a function
that satisfies the recursive equation exists up to n, and is the only one, is such a set, so that
CHOOSE returns it and its equation may be used. For this two definitions have the form they
have: `BinarySearch0` is a function of one argument, a pair, and `From` is a `SubSeq`.

### The pool and the lock file

`ThreadPoolProofs`: the count of the `WaitGroup` is the number of tasks that are queued or
being written, and of threads that have still to call `done` (`CountsTasks`), so that zero
means that all are written. `NoLostWakeUp` rests on who holds `queue_mutex_` between the
test of a condition and the sleep (`MutexHeld`), and on the notification of each enqueue, which
only one thread can owe.

`LockFileProofs`: a process inside `open` or `remove` has the lock with its own descriptor
(`InsideHasLock`). This holds with one `Database` object in each process (`OneHandle`). With
two it is false, as TLC shows (see the next section): the second `close` of a descriptor number
takes the lock from whoever has that number by then. That nothing leaks is proved for
any number of objects.

### Only model-checked

Liveness: `CloseCompletes`, `MergeCatchesUp`, `SearchReturns`, `CloseReturns`, `ExitEnds`, and the
fairness in `ImplementsTaskSet`, which need ENABLED. Every invariant and every action property
that a run checks is proved, with `OneHandle` as a hypothesis of `OpensExclude`. The four refuted
properties are shown by TLC's traces.

## Where the code disagrees with what it says

The four refuted runs:

- `RemovedStaysRemoved` (`multisegment.h:40`): after put, swap and remove, `get` returns
  the removed value. `MultiSegment::get` takes the empty value for "not here".
- `OpensAfterCrash` (`disksegment.cpp:44`): temporary files are looked for in the wrong
  directory, and one left by a crash makes every later open throw.
- `LoggedWritesSurvive` (`disksegment.cpp:51`): no log is ever read.
- `OpenInOneProcess` (`database.cpp:60`): the lock is released when open returns.

The modules contain some more. They have no run of their own; adding the property
to the configuration named gives the trace.

| property | how to see it | what happens |
| --- | --- | --- |
| `SegmentFiles!RemovedStayHidden` | MC_segmentfiles | a lookup hands out a removed key with an empty value until a merge has purged it (`multisegment.h:142`), though `remove` is said to remove the pair and values "must be non-empty" (`database.h:110`, `:114`); `multisegment_test.cpp:54` stops at the first empty value, which it takes for the end |
| `Database!TargetsDoNotExist` | MC_session | a merge that fails behind a rename leaves files with the names of its target (`diskio.cpp:59`, `:61`, `memorymapped.h:21-28`); the close that merges the same segments throws "key/data file should not exist" (`diskio.cpp:50`) and leaves the database half closed |
| `Database!ProducersPaused` | MC_session | writers are not paused at twice `maxSegments` (`options.h:19-20`): the merger is notified and the write returns (`databaseops.cpp:23`) |
| `Database!NoNullState` | MC_calls | a `get` between `CloseLock` and `CloseFinish` dereferences a null pointer (`database.cpp:133`, `databaseops.cpp:16`) |
| `Database!NoEmptyKeyFile` | MC_calls with `Snap = {s1, s2}`, `MaxSegID = 5`, `OneLayer` | a segment merged from segments without entries has a key file of length zero, from which `get` reads (`memorymapped.h:43`) |
| `Recovery!OpensAfterClose` | MC_recovery | a merge that failed, say on a full disk, leaves temporary files; the session closes without an error and the next open throws (`disksegment.cpp:44`) |
| `LogFile!ReturnedWritesAreInTheFile` | MC_log | a log that could not be created is not noticed (`fdfilebuf.h:38`) |
| `LogFile!WholeLogsDoNotThrow` | MC_log | in mode `returnOpenError` a whole log throws at its end (`logfile.cpp:102`) |
| `LogFile!NoEmptyKey` | MC_log | the log of an empty batch reads as an entry with an empty key (`logfile.cpp:28`) |
| `LockFile!OpensExclude` | MC_lockfile with `Process = {p1, p2}`, `Handle = {h1, h2}` | destroying a closed `Database` releases the lock of an open under way in the same process (`lockfile.h:22`) |
| `LockFile!LogsStayOpen` | the same | or closes the log of another `Database` (`lockfile.h:46`) |
| `LockFile!RemoveExcludesOpens` | MC_lockfile | `remove` deletes the lock file it holds, the next open locks a new one (`database.cpp:116`) |

## Not modelled

- The comparator of the user (`options.h:32`), which the list of a memory segment honours
  and merged and disk segments do not: with one that orders keys in another way than
  `Slice::less` the merging iterator and the searches meet lists that are not ascending
  for them. `SegmentFiles` and `Segments` have one order.
- Paths: `getSegmentIDs` splits the whole path at dots (`disksegment.cpp:79`), so that a
  database in `my.db/` has segments with other ids, or throws at `stoul`. Segments are
  named by their ids in every module.
- Lookups whose lower end is above the upper one: a disk segment that holds `lower`
  returns it without a look at `upper` (`disksegment.cpp:285`), a memory segment returns
  nothing. The model does the same; `LookupsShowTheMap` leaves these ranges out.
- A pool without threads: `hardware_concurrency()` may be 0 (`threadpool.h:13`), and then
  a close with a memory segment in its list waits forever; `ThreadPoolAssumption`
  excludes it.
- A line of `deleted` that is cut in the middle: `data.1.12` cut to `data.1.1` can name the
  data file of a source that an earlier crash has left, whose key file stays and keeps
  the database from opening. It takes two crashes, the second inside one call of write.
- Buffers overrun by keys that are too long (`scanBlock` copies into `maxKeySize` bytes): in
  `SegmentFiles` the call fails there, undefined as it is.
- `Database`: a second close, or calls after a close that threw (they meet the null
  pointer that `NoNullState` is about); a `WriteBatch` without entries; a `Database`
  whose last reference goes without a close, under the merger's raw pointer.
- That removed keys show in a lookup is said of `SegmentFiles` only: `KVStore` and
  `Database!ImplementsKVStore` do not tell a removed key from one that was never put.
- `SkipList::remove` is modelled, though the database never calls it.
- `db_lock` unlocked twice at the end of `put` and `remove` (undefined; an error without
  effect in practice); the order in which `readLEuint32` evaluates its reads
  (unspecified; left to right in practice); descriptor 0, which `tryLock` takes for a
  failure; the destructor of a log buffer, which flushes once more after the log has been
  removed.
- Byte buffers, slices, exceptions, tests and benchmarks: no behaviour of their own.

## Plan

Done, in this order: `Segments`, `KVStore`, `Database` with its invariant and proofs,
`SkipList`, `LogFile`, `Recovery`, `LockFile`, then `KeyFile` and `SegmentFiles`, `ThreadPool`
and `TaskSet`, `Recovery` with failing merges and `deleted` line by line; the refinement of
`KVStore`, gets and files of `Database`; the proofs of `SkipList`, `ThreadPool`, `LockFile`, `Recovery`, `LogFile`,
`SegmentFiles`, and of what snapshots show of batches.

Left: that `Database`, `Recovery` and `SegmentFiles`, which share `Segments` as the meaning of a
segment, compose, as one theorem; the progress arguments of a close, by hand or with a
prover that knows ENABLED.
