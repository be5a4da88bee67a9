------------------------------ MODULE Database ------------------------------
(***************************************************************************)
(* One open session of a database: from the moment Database::open has      *)
(* returned to the end of closeWithMerge.  Writers, readers, snapshots,    *)
(* the merger thread, the closing thread and the tasks of the thread pool  *)
(* run concurrently on one Database object.                                *)
(*                                                                         *)
(* Segment objects live in a heap (contents) and are named by the range of *)
(* segment ids they cover.  The list of segments, the memory segment and   *)
(* the MultiSegment that get searches are replaced together, by one atomic *)
(* store of a DatabaseState: get reads it without a lock, everything else  *)
(* runs under db_lock.  A critical section whose changes nobody can see    *)
(* before it ends is one action.  The section of a writer is several,      *)
(* because get can run between its steps.                                  *)
(***************************************************************************)
EXTENDS Segments

CONSTANTS
  Writer,          \* threads that call put, remove, write
  Reader,          \* threads that call get
  Snap,            \* snapshots the program can hold at a time
  Null,
  Batches,         \* what a put or a write can be given: sequences of <<key, value>>
  CloseCounts,     \* what closeWithMerge can be given
  InitialLayers,   \* what the segments found by open can hold
  MaxSegments,     \* Options::maxSegments
  MaxMemory,       \* Options::maxMemoryBytes, in entries
  MinMergeSize,    \* the 4 of mergeSegments0
  AutoMerge,       \* ~Options::disableAutoMerge
  IOErrors,        \* whether writing a segment can throw
  MaxSegID         \* bound on the segment ids of a session

Closer == "closer"

IsBatch(b) == b \in Seq(Key \X (Value \cup {Empty})) /\ b # <<>>

ASSUME DatabaseAssumption ==
  /\ Closer \notin Writer
  /\ Null \notin Writer \cup {Closer, "auto"}
  /\ Null \notin Ref
  /\ Null \notin Seq(Ref \cup {Null})
  /\ \A b \in Batches : IsBatch(b)
  /\ CloseCounts \subseteq Nat
  /\ InitialLayers \subseteq Seq(Content)
  /\ MaxSegments \in Nat \ {0}
  /\ MaxMemory \in Nat
  /\ MinMergeSize \in Nat \ {0, 1}
  /\ AutoMerge \in BOOLEAN
  /\ IOErrors \in BOOLEAN
  /\ MaxSegID \in Nat

VARIABLES
  contents,      \* what each segment object holds, and each segment named in left
  diskSegments,  \* the objects of class DiskSegment, the others are MemorySegments
  files,         \* the segments that have a key file and a data file
  deleted,       \* the segments whose files are listed in the file "deleted"
  left,          \* the segments that a failed merge has left a key file of
  state,         \* Database::state: [segments, memory, multi]
  nextSegID,     \* Database::nextSegID
  lock,          \* who is inside db_lock
  wg,            \* Database::wg
  err,           \* Database::err, the reason why the merger thread stopped
  auto,          \* the merger thread: "wait", "merge", "exited"
  merge,         \* mergeSegments0: [owner, pc, start, slice]
  closer,        \* closeWithMerge: [pc, count, why], why it threw
  flushing,      \* the tasks given to the thread pool
  batch,         \* what each writer has left to write
  reader,        \* each call of get: [pc, key, multi, result]
  snaps,         \* Snapshot::multi
  seen,          \* for each get, the values its key had since it was called
  fault          \* why the process died, or "none"

vars == <<contents, diskSegments, files, deleted, left, state, nextSegID, lock, wg,
          err, auto, merge, closer, flushing, batch, reader, snaps, seen, fault>>

heap == <<contents, diskSegments, files, deleted, left>>
threads == <<wg, err, auto, merge, closer, flushing>>
callers == <<batch, reader, snaps, seen>>

Layers(chain) == [i \in 1..Len(chain) |-> contents[chain[i]]]

\* The segments that make up the database, the memory segment last.
Chain == IF state.memory = Null THEN state.segments
         ELSE Append(state.segments, state.memory)

\* Database::_open and Database::closing.
NeverClosed == TRUE
Open == closer.pc # "closed"
Closing == closer.pc # "idle"

NoMerge == [owner |-> Null, pc |-> "pick", start |-> 0, slice |-> <<>>]

With(f, x, v) == [y \in DOMAIN f \cup {x} |-> IF y = x THEN v ELSE f[y]]

-----------------------------------------------------------------------------
\* openImpl: the disk segments, a new memory segment after the last of them,
\* and the merger thread, unless it is disabled.

Init ==
  \E layers \in InitialLayers :
    LET n == Len(layers)
        segments == [i \in 1..n |-> <<i, i>>]
        memory == <<n + 1, n + 1>>
    IN  /\ contents = [r \in Members(segments) \cup {memory} |->
                         IF r = memory THEN NoEntries ELSE layers[r[1]]]
        /\ state = [segments |-> segments, memory |-> memory,
                    multi |-> Append(segments, memory)]
        /\ diskSegments = Members(segments)
        /\ files = Members(segments)
        /\ deleted = {}
        /\ left = {}
        /\ nextSegID = n + 1
        /\ lock = Null
        /\ wg = IF AutoMerge THEN 1 ELSE 0
        /\ err = "none"
        /\ auto = IF AutoMerge THEN "wait" ELSE "exited"
        /\ merge = NoMerge
        /\ closer = [pc |-> "idle", count |-> 0, why |-> "none"]
        /\ flushing = {}
        /\ batch = [w \in Writer |-> <<>>]
        /\ reader = [r \in Reader |-> [pc |-> "idle", key |-> Null,
                                       multi |-> Null, result |-> Null]]
        /\ snaps = [s \in Snap |-> Null]
        /\ seen = [r \in Reader |-> {}]
        /\ fault = "none"

-----------------------------------------------------------------------------
\* The lock and the memory segment.

LockFree == lock = Null

SnapshotMayRunAlways == TRUE
SnapshotMayRun == LockFree

MemoryIsFull == Bytes(contents[state.memory]) > MaxMemory

\* The memory segment joins the list and a new, empty one takes its place.
SwapMemory ==
  LET segments == Append(state.segments, state.memory)
      memory == <<nextSegID + 1, nextSegID + 1>>
  IN  /\ nextSegID < MaxSegID
      /\ nextSegID' = nextSegID + 1
      /\ contents' = With(contents, memory, NoEntries)
      /\ state' = [segments |-> segments, memory |-> memory,
                   multi |-> Append(segments, memory)]

MaybeSwapMemory ==
  IF MemoryIsFull THEN SwapMemory ELSE UNCHANGED <<contents, state, nextSegID>>

-----------------------------------------------------------------------------
\* MultiSegment::get on a list of segments, and what can go wrong in it: a
\* null pointer is dereferenced, or DiskSegment::binarySearch reads the mapping
\* of a key file of length zero, which does not exist.

EmptyKeyFile(r) == r \in diskSegments /\ contents[r] = NoEntries

SearchStops(multi, k) ==
  {i \in 1..Len(multi) : \/ multi[i] = Null
                         \/ EmptyKeyFile(multi[i])
                         \/ contents[multi[i]][k] \in Value}

GetFault(multi, k) ==
  IF multi = Null THEN "null"
  ELSE IF SearchStops(multi, k) = {} THEN "none"
  ELSE LET top == multi[MaxOf(SearchStops(multi, k))]
       IN  IF top = Null THEN "null"
           ELSE IF EmptyKeyFile(top) THEN "keyfile"
           ELSE "none"

\* The process dies: nothing happens afterwards (see Next).
Crash(why) ==
  /\ why # "none"
  /\ fault' = why
  /\ UNCHANGED <<heap, state, nextSegID, lock, threads, callers>>

-----------------------------------------------------------------------------
\* put, remove and write.

\* From DB_LOCK to the write into the memory segment.
BeginBatch(w, b) ==
  /\ MaybeSwapMemory
  /\ lock' = w
  /\ batch' = [batch EXCEPT ![w] = b]
  /\ UNCHANGED <<diskSegments, files, deleted, left, threads, reader, snaps, seen, fault>>

WriteBegin(w, b) ==
  /\ LockFree /\ Open
  /\ batch[w] = <<>>
  /\ IF state.memory = Null THEN Crash("null") ELSE BeginBatch(w, b)

\* remove looks the key up first and does nothing when it has no value.
RemoveBegin(w, k) ==
  /\ LockFree /\ Open
  /\ batch[w] = <<>>
  /\ IF GetFault(state.multi, k) # "none"
     THEN Crash(GetFault(state.multi, k))
     ELSE /\ MultiGet(Layers(state.multi), k) # Empty
          /\ BeginBatch(w, <<(<<k, Empty>>)>>)

\* One entry reaches the skip list of the memory segment.  The last one ends
\* the critical section; the wakeup of the merger that follows changes nothing
\* it could not do by itself (AutoWake).
WriteApply(w) ==
  /\ batch[w] # <<>>
  /\ LET k == Head(batch[w])[1]
         v == Head(batch[w])[2]
     IN  /\ contents' = [contents EXCEPT ![state.memory] = Put(@, k, v)]
         /\ seen' = [r \in Reader |->
              IF reader[r].pc \in {"load", "search"} /\ reader[r].key = k
              THEN seen[r] \cup {v} ELSE seen[r]]
  /\ batch' = [batch EXCEPT ![w] = Tail(@)]
  /\ lock' = IF Tail(batch[w]) = <<>> THEN Null ELSE w
  /\ UNCHANGED <<diskSegments, files, deleted, left, state, nextSegID, threads,
                 reader, snaps, fault>>

-----------------------------------------------------------------------------
\* snapshot and lookup: the memory segment, even an empty one, is frozen and
\* becomes the newest segment of the snapshot.

SnapshotTake(s) ==
  /\ SnapshotMayRun /\ Open
  /\ snaps[s] = Null
  /\ state.memory # Null
  /\ SwapMemory
  /\ snaps' = [snaps EXCEPT ![s] = Append(state.segments, state.memory)]
  /\ UNCHANGED <<diskSegments, files, deleted, left, lock, threads, batch, reader,
                 seen, fault>>

SnapshotTakeFaults ==
  /\ SnapshotMayRun /\ Open
  /\ state.memory = Null
  /\ Crash("null")

SnapshotRelease(s) ==
  /\ snaps[s] # Null
  /\ snaps' = [snaps EXCEPT ![s] = Null]
  /\ UNCHANGED <<heap, state, nextSegID, lock, threads, batch, reader, seen, fault>>

-----------------------------------------------------------------------------
\* get: the test of _open, the atomic load of the state, and the search.  The
\* search is one action: of the segments it visits only the first, the memory
\* segment, can still change, so the search answers as of the time it visits it.

SetReader(r, record) == reader' = [reader EXCEPT ![r] = record]

ReadBegin(r, k) ==
  /\ reader[r].pc \in {"idle", "returned"}
  /\ Open
  /\ SetReader(r, [pc |-> "load", key |-> k, multi |-> Null, result |-> Null])
  /\ seen' = [seen EXCEPT ![r] = {View(Layers(Chain))[k]}]
  /\ UNCHANGED <<heap, state, nextSegID, lock, threads, batch, snaps, fault>>

ReadLoad(r) ==
  /\ reader[r].pc = "load"
  /\ SetReader(r, [reader[r] EXCEPT !.pc = "search", !.multi = state.multi])
  /\ UNCHANGED <<heap, state, nextSegID, lock, threads, batch, snaps, seen, fault>>

ReadSearch(r) ==
  /\ reader[r].pc = "search"
  /\ LET multi == reader[r].multi
         k == reader[r].key
     IN  IF GetFault(multi, k) # "none"
         THEN Crash(GetFault(multi, k))
         ELSE /\ SetReader(r, [pc |-> "returned", key |-> k, multi |-> Null,
                               result |-> MultiGet(Layers(multi), k)])
              /\ UNCHANGED <<heap, state, nextSegID, lock, threads, batch, snaps,
                             seen, fault>>

-----------------------------------------------------------------------------
\* The merger thread.  It can wake up at any time: after a notification, or
\* because its wait of one second ended.

NotUsed(n) == n

\* The constructor of UseWaitGroup; its destructor is part of AutoReturn.
UseWaitGroup(n) == n + 1

AutoMustExitUnlessFailed == err # "none"
AutoMustExit == Closing \/ err # "none"

AutoWake ==
  /\ auto = "wait"
  /\ \/ /\ AutoMustExit
        /\ auto' = "exited"
        /\ wg' = wg - 1
        /\ UNCHANGED merge
     \/ /\ ~AutoMustExit
        /\ auto' = "merge"
        /\ wg' = UseWaitGroup(wg)
        /\ merge' = IF merge.owner = Null THEN [NoMerge EXCEPT !.owner = "auto"] ELSE merge
  /\ UNCHANGED <<heap, state, nextSegID, lock, err, closer, flushing, callers, fault>>

\* mergeSegments0 has returned, or its lock was taken.
AutoReturn ==
  /\ auto = "merge"
  /\ merge.owner # "auto"
  /\ auto' = "wait"
  /\ wg' = wg - 1
  /\ UNCHANGED <<heap, state, nextSegID, lock, err, merge, closer, flushing, callers, fault>>

-----------------------------------------------------------------------------
\* mergeSegments0, run by the merger thread or by the closing thread.  It reads
\* the list of segments without a lock, writes the merged segment, and takes
\* db_lock only to put it in place of the ones it read.

EnoughWithinTwice(n, limit) == n <= 2 * limit
MergeEnough(n, limit) == n <= limit

MergeLimit == IF merge.owner = "auto" THEN MaxSegments ELSE closer.count

\* The smallest segment is looked for among all but the last; which one it is
\* depends on the sizes of the files, so it can be any of them.
SmallestOfAll(n) == 1..n
Smallest(n) == 1..(n - 1)

SliceEnd(start, n) ==
  LET size == IF n \div 2 > MinMergeSize THEN n \div 2 ELSE MinMergeSize
  IN  IF start + size - 1 < n THEN start + size - 1 ELSE n

PurgesAnywhere(start) == TRUE
PurgesDeleted(start) == start = 1

MergePick ==
  /\ merge.owner # Null
  /\ merge.pc = "pick"
  /\ IF MergeEnough(Len(state.segments), MergeLimit)
     THEN merge' = NoMerge
     ELSE \E start \in Smallest(Len(state.segments)) :
            merge' = [merge EXCEPT
                        !.pc = "write", !.start = start,
                        !.slice = SubSeq(state.segments, start,
                                         SliceEnd(start, Len(state.segments)))]
  /\ UNCHANGED <<heap, state, nextSegID, lock, wg, err, auto, closer, flushing,
                 callers, fault>>

DeletedThoughNotMerged == deleted \cup (Members(merge.slice) \cap diskSegments)
DeletedWhenMergeThrows == deleted

\* An exception leaves mergeSegments0 before scheduleDeletion: the merger thread
\* records it and stops at its next turn, closeWithMerge passes it to its caller.
MergeThrows(what) ==
  /\ merge' = NoMerge
  /\ deleted' = DeletedWhenMergeThrows
  /\ IF merge.owner = "auto"
     THEN err' = what /\ UNCHANGED <<closer, lock>>
     ELSE /\ closer' = [closer EXCEPT !.pc = "failed", !.why = what]
          /\ lock' = Null
          /\ UNCHANGED err
  /\ UNCHANGED <<diskSegments, state, nextSegID, wg, auto, flushing, callers, fault>>

MergedSlice == Merged(Layers(merge.slice), PurgesDeleted(merge.start))

InTheWay(target) == target \in files \cup left

\* writeAndLoadSegment finds a file with one of its names, and throws.
MergeMeetsFiles ==
  /\ InTheWay(TargetOf(merge.slice))
  /\ MergeThrows("exists")
  /\ UNCHANGED <<contents, files, left>>

\* An exception up to the first rename leaves temporary files, at the second
\* rename a key file without its data file, and behind it, in newDiskSegment, both.
MergeWriteFails ==
  LET target == TargetOf(merge.slice)
  IN  /\ IOErrors /\ ~InTheWay(target)
      /\ MergeThrows("io")
      /\ \/ UNCHANGED <<contents, files, left>>
         \/ /\ left' = left \cup {target}
            /\ contents' = With(contents, target, MergedSlice)
            /\ files' = files \/ files' = files \cup {target}

\* mergeSegments1: write the files of the merged segment, then list those of
\* the disk segments it was made from for deletion.
MergeWritten ==
  LET target == TargetOf(merge.slice)
  IN  /\ ~InTheWay(target)
      /\ contents' = With(contents, target, MergedSlice)
      /\ diskSegments' = diskSegments \cup {target}
      /\ files' = files \cup {target}
      /\ deleted' = deleted \cup (Members(merge.slice) \cap diskSegments)
      /\ merge' = [merge EXCEPT !.pc = "swap"]
      /\ UNCHANGED <<left, state, nextSegID, lock, wg, err, auto, closer, flushing,
                     callers, fault>>

MergeWrite ==
  /\ merge.pc = "write"
  /\ MergeMeetsFiles \/ MergeWriteFails \/ MergeWritten

SliceUnchanged ==
  LET last == merge.start + Len(merge.slice) - 1
  IN  /\ last <= Len(state.segments)
      /\ SubSeq(state.segments, merge.start, last) = merge.slice

MergeSwap ==
  /\ merge.pc = "swap"
  /\ LockFree \/ (lock = Closer /\ merge.owner = Closer)
  /\ IF SliceUnchanged
     THEN LET segments == Splice(state.segments, merge.start, merge.slice,
                                 TargetOf(merge.slice))
          IN  /\ state' = [segments |-> segments, memory |-> state.memory,
                           multi |-> Append(segments, state.memory)]
              /\ merge' = [NoMerge EXCEPT !.owner = merge.owner]
              /\ UNCHANGED <<heap, nextSegID, lock, wg, err, auto, closer,
                             flushing, callers, fault>>
     ELSE MergeThrows("changed") /\ UNCHANGED <<contents, files, left>>

-----------------------------------------------------------------------------
\* closeWithMerge.

CloseBegin(count) ==
  /\ closer.pc = "idle"
  /\ closer' = [closer EXCEPT !.pc = "waiting", !.count = count]
  /\ UNCHANGED <<heap, state, nextSegID, lock, wg, err, auto, merge, flushing,
                 callers, fault>>

CloseMayLock == wg = 0

ChainAtClose == Append(state.segments, state.memory)

\* After the wait for the merger thread, under db_lock: the memory segment
\* joins the list and the pointers to it and to the MultiSegment are cleared.
\* (wg stays 0 between the wait and the lock: the merger thread has exited.)
CloseLock ==
  /\ closer.pc = "waiting"
  /\ CloseMayLock /\ LockFree
  /\ lock' = Closer
  /\ state' = [segments |-> ChainAtClose, memory |-> Null, multi |-> Null]
  /\ closer' = [closer EXCEPT !.pc = "merging"]
  /\ merge' = IF closer.count > 0 /\ merge.owner = Null
              THEN [NoMerge EXCEPT !.owner = Closer] ELSE merge
  /\ UNCHANGED <<heap, nextSegID, wg, err, auto, flushing, callers, fault>>

TasksNotAdded(tasks) == 0
TasksAdded(tasks) == Cardinality(tasks)

\* Every memory segment left in the list becomes a task of the thread pool, and
\* is added to wg before the pool gets it.
CloseEnqueue ==
  /\ closer.pc = "merging"
  /\ merge.owner # Closer
  /\ flushing' = Members(state.segments) \ diskSegments
  /\ wg' = wg + TasksAdded(Members(state.segments) \ diskSegments)
  /\ closer' = [closer EXCEPT !.pc = "flushing"]
  /\ UNCHANGED <<heap, state, nextSegID, lock, err, auto, merge, callers, fault>>

\* writeSegmentToDisk: an empty segment leaves no files.  An exception has no
\* handler in a thread of the pool and ends the process.
FlushSegment(r) ==
  /\ r \in flushing
  /\ \/ /\ InTheWay(r) \/ IOErrors
        /\ contents[r] # NoEntries
        /\ Crash("terminate")
     \/ /\ ~InTheWay(r) \/ contents[r] = NoEntries
        /\ files' = IF contents[r] = NoEntries THEN files ELSE files \cup {r}
        /\ flushing' = flushing \ {r}
        /\ wg' = wg - 1
        /\ UNCHANGED <<contents, diskSegments, deleted, left, state, nextSegID, lock,
                       err, auto, merge, closer, callers, fault>>

\* The rest of closeWithMerge: _open is cleared, the files of merged segments go.
CloseFinish ==
  /\ closer.pc = "flushing"
  /\ wg = 0
  /\ closer' = [closer EXCEPT !.pc = "closed"]
  /\ lock' = Null
  /\ files' = files \ deleted
  /\ deleted' = {}
  /\ UNCHANGED <<contents, diskSegments, left, state, nextSegID, wg, err, auto, merge,
                 flushing, callers, fault>>

-----------------------------------------------------------------------------
Write == \E w \in Writer : \/ \E b \in Batches : WriteBegin(w, b)
                           \/ \E k \in Key : RemoveBegin(w, k)
                           \/ WriteApply(w)

Snapshotting == \/ \E s \in Snap : SnapshotTake(s) \/ SnapshotRelease(s)
                \/ SnapshotTakeFaults

Read == \E r \in Reader : \/ \E k \in Key : ReadBegin(r, k)
                          \/ ReadLoad(r)
                          \/ ReadSearch(r)

Merging == AutoWake \/ AutoReturn \/ MergePick \/ MergeWrite \/ MergeSwap

Close == \/ \E count \in CloseCounts : CloseBegin(count)
         \/ CloseLock
         \/ CloseEnqueue
         \/ \E r \in flushing : FlushSegment(r)
         \/ CloseFinish

Next == /\ fault = "none"
        /\ Write \/ Snapshotting \/ Read \/ Merging \/ Close

Spec == Init /\ [][Next]_vars

(***************************************************************************)
(* Fairness.  A thread that can run does run; the condition variable of    *)
(* the merger thread is waited on with a timeout of one second, so it      *)
(* wakes up without a notification.  db_lock is not a fair mutex: that the *)
(* merge and the close get it although writers keep taking it is strong    *)
(* fairness, an assumption on the scheduler.  Callers need not call, but a *)
(* writer inside db_lock leaves it.                                        *)
(***************************************************************************)
Alive(A) == fault = "none" /\ A

Fairness ==
  /\ \A w \in Writer : WF_vars(Alive(WriteApply(w)))
  /\ WF_vars(Alive(AutoWake))
  /\ WF_vars(Alive(AutoReturn))
  /\ WF_vars(Alive(MergePick))
  /\ WF_vars(Alive(MergeWrite))
  /\ SF_vars(Alive(MergeSwap))
  /\ SF_vars(Alive(CloseLock))
  /\ WF_vars(Alive(CloseEnqueue))
  /\ WF_vars(Alive(\E r \in flushing : FlushSegment(r)))
  /\ WF_vars(Alive(CloseFinish))

FairSpec == Spec /\ Fairness

-----------------------------------------------------------------------------
\* Types.  wg counts the thread of the merger, its merge in progress, and the
\* tasks of the close that have not ended.

Results == Value \cup {Empty}
Chains == Seq(Ref)
Multis == Seq(Ref \cup {Null}) \cup {Null}

HeapType ==
  /\ DOMAIN contents \subseteq Ref
  /\ \A r \in DOMAIN contents : contents[r] \in Content
  /\ diskSegments \subseteq DOMAIN contents
  /\ files \subseteq DOMAIN contents
  /\ deleted \subseteq DOMAIN contents
  /\ left \subseteq DOMAIN contents

StateType ==
  /\ state \in [segments : Chains, memory : Ref \cup {Null}, multi : Multis]
  /\ nextSegID \in Nat
  /\ lock \in Writer \cup {Null, Closer}

ThreadsType ==
  /\ wg \in Nat
  /\ err \in {"none", "io", "exists", "changed"}
  /\ auto \in {"wait", "merge", "exited"}
  /\ merge \in [owner : {Null, "auto", Closer}, pc : {"pick", "write", "swap"},
                start : Nat, slice : Chains]
  /\ closer \in [pc : {"idle", "waiting", "merging", "flushing", "closed", "failed"},
                 count : Nat, why : {"none", "io", "exists", "changed"}]
  /\ flushing \subseteq DOMAIN contents
  /\ fault \in {"none", "null", "keyfile", "terminate"}

CallersType ==
  /\ batch \in [Writer -> Seq(Key \X Results)]
  /\ reader \in [Reader -> [pc : {"idle", "load", "search", "returned"},
                            key : Key \cup {Null}, multi : Multis,
                            result : Results \cup {Null}]]
  /\ snaps \in [Snap -> Chains \cup {Null}]
  /\ seen \in [Reader -> SUBSET Results]

TypeOK == HeapType /\ StateType /\ ThreadsType /\ CallersType

\* The segments of the database cover disjoint ranges of ids in ascending
\* order, the memory segment last: position in the list is age, which is what
\* get, the iterators and the sort of loadDiskSegments all rely on, whatever
\* merges, swaps and snapshots have happened (mergeSegments0, maybeSwapMemory).
SegmentsOrdered == Ordered(Chain)

\* What is known of merges that failed, and of what they left (autoMerger,
\* closeWithMerge).
FailuresRecorded ==
  /\ err \in {"none", "io"}
  /\ closer.why # "changed"
  /\ closer.why = "exists" => err = "io" /\ left # {}
  /\ err # "none" \/ closer.pc = "failed" => IOErrors
  /\ closer.pc = "failed" <=> closer.why # "none"
  /\ left # {} => err = "io" \/ closer.pc = "failed"

\* mergeSegments0 never finds the list changed under it.  It meets files with the
\* names of its target only in a close, and only those that the merger thread left
\* in this session when it failed behind the first rename; without such errors no
\* merge fails (mergeSegments0, writeAndLoadSegment).
MergesFailForAReason ==
  /\ merge.pc = "write" /\ InTheWay(TargetOf(merge.slice)) =>
       merge.owner = Closer /\ err = "io" /\ TargetOf(merge.slice) \in left
  /\ FailuresRecorded

\* "key/data file should not exist" (diskio.cpp:50).
TargetsDoNotExist == "exists" \notin {err, closer.why}

\* A get gives a value its key had at some time since the call, whatever swaps,
\* snapshots and merges the search overlapped, unless one of the segments it
\* searched holds a removal of the key: see RemovedStaysRemoved (Database::get).
RemovedIn(multi, k) == \E i \in 1..Len(multi) : contents[multi[i]][k] = Empty

GetLinearizable ==
  [][\A r \in Reader :
       /\ reader[r].pc = "search" /\ reader'[r].pc = "returned"
       /\ ~RemovedIn(reader[r].multi, reader[r].key)
       => reader'[r].result \in seen'[r]]_vars

\* The same for every key (include/database.h:95, "empty if the key is not
\* found").
RemovedStaysRemoved ==
  \A r \in Reader : reader[r].pc = "returned" => reader[r].result \in seen[r]

\* A batch shows in a snapshot as a whole or not at all, although its entries reach
\* the memory segment one by one: two keys that every batch sets to the same value
\* have the same value in each snapshot, unless one of them was removed by itself
\* (Database::write, Database::snapshot under db_lock).
Sets(b, k, v) ==
  \E i \in 1..Len(b) : b[i] = <<k, v>> /\ \A j \in (i + 1)..Len(b) : b[j][1] # k

Paired(j, k) ==
  /\ \A b \in Batches : \A v \in Results : Sets(b, j, v) <=> Sets(b, k, v)
  /\ \A layers \in InitialLayers : View(layers)[j] = View(layers)[k]

HasRemoval(k) == \E r \in DOMAIN contents : contents[r][k] = Empty

SnapshotsSeeWholeBatches ==
  \A s \in Snap : snaps[s] # Null =>
    \A j, k \in Key :
      Paired(j, k) /\ ~HasRemoval(j) /\ ~HasRemoval(k)
        => View(Layers(snaps[s]))[j] = View(Layers(snaps[s]))[k]

\* After a close that returned, the segments that have their files, loaded the way
\* the next open loads them, hold the database as it was when it was closed: nothing
\* that was merged or written by a task of the pool is lost or comes back, although
\* those of a merge that failed are among them and may overlap what was merged
\* later (mergeSegments1, writeSegmentToDisk, the end of loadDiskSegments).
CloseKeepsData ==
  ~Open => View(Layers(LoadOrder(files))) = View(Layers(state.segments))

\* After close returned, no thread of the database is left that uses it: the
\* caller may destroy the Database (the comment of Merger::autoMerger).
NoUseAfterClose ==
  ~Open => auto = "exited" /\ merge.owner = Null /\ flushing = {} /\ wg = 0

\* Files listed for deletion at the next open or close belong to segments whose
\* range another segment on disk covers.
DeletedAreCovered ==
  \A r \in deleted : \E t \in files \ deleted : Within(r, t)

\* get does not dereference a pointer that closeWithMerge has cleared
\* (README.md:13, "supports multi-threaded access").
NoNullState == fault # "null"

\* Only a get that a close overtakes meets a pointer that the close has cleared:
\* writers and snapshots wait for db_lock and then find the database closed.  A
\* close that failed leaves a database that is still open, without a memory
\* segment (Database::get, closeWithMerge).
NullOnlyInClose ==
  fault = "null" =>
    \/ closer.pc = "failed"
    \/ /\ closer.pc \in {"merging", "flushing", "closed"}
       /\ \E r \in Reader : reader[r].pc = "search"

\* get does not read from a key file without blocks (include/database.h:95).
NoEmptyKeyFile == fault # "keyfile"

\* "If the number of segments exceeds 2x this value, producers are paused while
\* the segments are merged" (include/options.h:19-20).
ProducersPaused ==
  [][\A w \in Writer : batch[w] = <<>> /\ batch'[w] # <<>>
       => Len(state.segments) <= 2 * MaxSegments \/ ~AutoMerge]_vars

\* closeWithMerge returns: the merger thread notices and ends, the close gets
\* db_lock, and every task of the pool is counted down, unless an exception or
\* the death of the process ends it first.
CloseCompletes ==
  closer.pc = "waiting" ~> closer.pc \in {"closed", "failed"} \/ fault # "none"

\* When the number of segments exceeds the maximum it goes down to the maximum
\* again, unless the merger has failed or the database is closing.
MergeCatchesUp ==
  Len(state.segments) > MaxSegments
    ~> \/ Len(state.segments) <= MaxSegments
       \/ Closing \/ err # "none" \/ fault # "none"

-----------------------------------------------------------------------------
\* Merging, swapping, snapshots and closing are invisible: the database behaves
\* as a map that changes only by the next entry of a put, remove or write, one
\* of them at a time, and each snapshot keeps the map it was taken of, between
\* two of them.  A key that was removed is one without a value here, as one that
\* was never put; that lookups tell them apart is seen in SegmentFiles.
KV == INSTANCE KVStore WITH
        map <- View(Layers(Chain)),
        requests <- batch,
        snapshots <- [s \in Snap |-> IF snaps[s] = Null THEN Null
                                     ELSE View(Layers(snaps[s]))]

ImplementsKVStore == KV!Spec

-----------------------------------------------------------------------------
(***************************************************************************)
(* The inductive invariant behind the safety properties: who may hold what *)
(* when, how the segments relate to the ids handed out, and what a merge   *)
(* in progress may rely on when it comes back to the list of segments.     *)
(***************************************************************************)

\* What the merger thread holds of wg: its life, and its merge.
AutoShare == IF auto = "exited" THEN 0 ELSE IF auto = "wait" THEN 1 ELSE 2

\* wg is the number of things a close has to wait for.
WgCounts ==
  /\ IsFiniteSet(flushing)
  /\ wg = AutoShare + Cardinality(flushing)

\* closeWithMerge is inside db_lock from CloseLock to its end, and only after
\* the merger thread has exited.
CloserOrder ==
  /\ lock = Closer <=> closer.pc \in {"merging", "flushing"}
  /\ closer.pc \notin {"idle", "waiting"} => auto = "exited"
  /\ flushing # {} => closer.pc = "flushing"
  /\ closer.pc = "closed" => flushing = {}

\* One merge at a time, by the thread that runs it.
MergeOwned ==
  /\ merge.owner = "auto" => auto = "merge"
  /\ merge.owner = Closer => closer.pc = "merging" /\ closer.count > 0
  /\ merge.owner = "auto" => err = "none"
  /\ merge.owner = Null => merge.pc = "pick"

\* A writer has entries left only inside db_lock and while there is a memory
\* segment to write them to.
WritersLocked ==
  \A w \in Writer : batch[w] # <<>> => lock = w /\ state.memory # Null

\* The memory segment has the newest id, and get searches the same segments
\* that make up the database; a close clears both pointers.
MemoryNewest ==
  /\ state.memory # Null <=> closer.pc \in {"idle", "waiting"}
  /\ state.memory # Null => /\ state.memory = <<nextSegID, nextSegID>>
                            /\ state.multi = Append(state.segments, state.memory)
  /\ state.memory = Null => \/ state.multi = Null
                            \/ state.multi = Append(state.segments, Null)

ChainInHeap ==
  \A i \in 1..Len(Chain) : Chain[i] \in DOMAIN contents /\ Chain[i][2] <= nextSegID

\* Until the merge is put in place its slice is still where it was read.
SliceInPlace ==
  merge.pc # "pick" =>
    /\ merge.start >= 1
    /\ Len(merge.slice) >= 2
    /\ merge.start + Len(merge.slice) - 1 <= Len(state.segments)
    /\ \A i \in 1..Len(merge.slice) :
         merge.slice[i] = state.segments[merge.start + i - 1]

\* A segment object that exists is, or was merged into, one segment of the
\* database, unless it is the merged segment about to be put in place.
HeapNested ==
  \A r \in DOMAIN contents :
    \/ \E i \in 1..Len(Chain) : Within(r, Chain[i])
    \/ merge.pc = "swap" /\ r = TargetOf(merge.slice)
    \/ r \in left

\* What is about to be put in place is the merge of what it replaces.
TargetMerged ==
  merge.pc = "swap" =>
    /\ TargetOf(merge.slice) \in DOMAIN contents \ left
    /\ contents[TargetOf(merge.slice)] = MergedSlice

\* A snapshot consists of segments that no writer writes to any more.
SnapsFrozen ==
  \A s \in Snap : snaps[s] # Null =>
    \A i \in 1..Len(snaps[s]) :
      snaps[s][i] \in DOMAIN contents /\ snaps[s][i] # state.memory

\* What a failed merge has left has a name that no segment of the database has.
LeftApart ==
  \A r \in left : r[1] < r[2] /\ r[2] <= nextSegID /\ r \notin Members(Chain)

CoreInv ==
  /\ TypeOK
  /\ WgCounts
  /\ CloserOrder
  /\ MergeOwned
  /\ WritersLocked
  /\ MemoryNewest
  /\ SegmentsOrdered
  /\ ChainInHeap
  /\ SliceInPlace
  /\ HeapNested
  /\ TargetMerged
  /\ SnapsFrozen
  /\ LeftApart
  /\ FailuresRecorded

\* A get that has loaded the cleared pointers of a close, which it dereferences.
MultiIsCleared(multi) == multi = Null \/ (multi # <<>> /\ multi[Len(multi)] = Null)

\* The segments a get searches are those of the list as it was when they were
\* loaded: only the last can still be written to.
MultiIsLoaded(multi) ==
  /\ multi \in Chains
  /\ \A i \in 1..Len(multi) : /\ multi[i] \in DOMAIN contents
                              /\ multi[i] = state.memory => i = Len(multi)

\* What a get that is under way would find is a value its key had since the call.
ReadersSee ==
  \A r \in Reader :
    LET multi == reader[r].multi
        k == reader[r].key
    IN  /\ reader[r].pc \in {"load", "search"} => k \in Key
        /\ reader[r].pc = "load" => View(Layers(Chain))[k] \in seen[r]
        /\ reader[r].pc = "search" =>
             \/ MultiIsCleared(multi) /\ closer.pc \notin {"idle", "waiting"}
             \/ /\ MultiIsLoaded(multi)
                /\ ~RemovedIn(multi, k) => MultiGet(Layers(multi), k) \in seen[r]

\* Files that are not listed for deletion belong to segments of the list, or to
\* the merged segment about to be put in place.
FilesAreListed ==
  \A f \in files \ (deleted \cup left) :
    \/ f \in Members(state.segments)
    \/ merge.pc = "swap" /\ f = TargetOf(merge.slice)

\* Every segment of the list has its files, unless it is empty or a task of the
\* pool has still to write them.
SegmentsAreStored ==
  \A r \in Members(state.segments) :
    \/ r \in files
    \/ /\ r \notin diskSegments
       /\ closer.pc \in {"flushing", "closed"} /\ r \notin flushing
            => contents[r] = NoEntries

\* What is listed for deletion has been replaced, or is about to be.
DeletedAreReplaced ==
  \A r \in Members(state.segments) \cap deleted :
    merge.pc = "swap" /\ r \in Members(merge.slice)

\* Only disk segments have files before the tasks of a close write others, and
\* what a merge replaces is listed before it is put in place.
DiskHasFiles ==
  /\ closer.pc \notin {"flushing", "closed"} => files \ left = diskSegments
  /\ state.memory \notin diskSegments
  /\ deleted \subseteq diskSegments
  /\ flushing \subseteq Members(state.segments) \ diskSegments
  /\ merge.pc = "swap" =>
       /\ TargetOf(merge.slice) \in diskSegments \ deleted
       /\ Members(merge.slice) \cap diskSegments \subseteq deleted
  /\ closer.pc = "closed" => deleted = {}

FilesInv ==
  /\ FilesAreListed
  /\ SegmentsAreStored
  /\ DeletedAreReplaced
  /\ DiskHasFiles
  /\ DeletedAreCovered

IInv ==
  /\ CoreInv
  /\ ReadersSee
  /\ FilesInv
  /\ NullOnlyInClose
=============================================================================
