------------------------------ MODULE Recovery ------------------------------
(***************************************************************************)
(* The directory of a database over several processes.  The files of a     *)
(* segment appear and disappear one at a time: two temporary files, two    *)
(* renames, a line for each file of a source in the file "deleted", and    *)
(* removals by Deleter::deleteScheduled.  The process can die between any  *)
(* two of these steps, and the next open has to make a database of what is *)
(* left.                                                                   *)
(*                                                                         *)
(* What runs inside a session is Database's subject; here calls follow one *)
(* another, except that merging and writing segments go on beside them.    *)
(***************************************************************************)
EXTENDS Segments

CONSTANTS
  Null,
  MaxSegments,    \* Options::maxSegments
  MaxMemory,      \* Options::maxMemoryBytes, in entries
  MinMergeSize,   \* the 4 of mergeSegments0
  CloseCounts,    \* what closeWithMerge can be given
  MaxSegID,       \* bound on the segment ids
  MaxCrashes      \* bound on the crashes

ASSUME RecoveryAssumption ==
  /\ Null \notin Ref
  /\ MaxSegments \in Nat \ {0} /\ MaxMemory \in Nat /\ MinMergeSize \in Nat \ {0, 1}
  /\ CloseCounts \subseteq Nat
  /\ MaxSegID \in Nat /\ MaxCrashes \in Nat

VARIABLES
  keys,       \* the key files, with the entries that they and the data files hold
  data,       \* the data files
  tmp,        \* the files with the extension .tmp
  deleted,    \* the lines of the file "deleted"
  pc,         \* "down", "opening", "open", "closing", "flushing", "deleting", "broken"
  segments,   \* DatabaseState::segments
  memory,     \* DatabaseState::memory
  contents,   \* what the segments of the session hold
  onDisk,     \* which of them are disk segments
  left,       \* the segments that a failed merge has left a key file of
  nextSegID,
  writing,    \* writeAndLoadSegment of each segment that is being written
  merge,      \* mergeSegments0: [pc, start, slice, lines still to be written to "deleted"]
  limit,      \* the argument of closeWithMerge
  err,        \* Database::err: the merger thread has ended with an exception
  map,        \* what the database holds for its callers
  clean,      \* whether the last session ended with a close
  crashes

files == <<keys, data, tmp, deleted>>
session == <<segments, memory, contents, onDisk, left, nextSegID>>
history == <<map, clean, crashes>>
vars == <<files, pc, session, writing, merge, limit, err, history>>

File == {"keys", "data"} \X Ref
FilesOf(refs) == {"keys", "data"} \X refs

With(f, x, v) == [y \in DOMAIN f \cup {x} |-> IF y = x THEN v ELSE f[y]]
Without(f, x) == [y \in DOMAIN f \ {x} |-> f[y]]
Nothing == [r \in {} |-> NoEntries]

NoMerge == [pc |-> "none", start |-> 0, slice |-> <<>>, lines |-> <<>>]

Init ==
  /\ keys = Nothing /\ data = {} /\ tmp = {} /\ deleted = <<>>
  /\ pc = "down"
  /\ segments = <<>> /\ memory = Null /\ contents = Nothing /\ onDisk = {} /\ left = {}
  /\ nextSegID = 0
  /\ writing = Nothing /\ merge = NoMerge /\ limit = MaxSegments /\ err = FALSE
  /\ map = [k \in Key |-> Empty] /\ clean = TRUE /\ crashes = 0

-----------------------------------------------------------------------------
\* What the next open finds, once it has removed the files listed in "deleted".

Listed == Members(deleted)
Found == {r \in DOMAIN keys : <<"keys", r>> \notin Listed}

FoundOrder == LoadOrder(Found)

Recovered == View([i \in DOMAIN FoundOrder |-> keys[FoundOrder[i]]])

\* loadDiskSegments takes every name that starts with "keys." for a segment,
\* temporary ones too: it looks for them in the working directory of the
\* process, not in that of the database, and leaves them where they are.  A
\* segment that lacks one of its two files throws.
Loadable ==
  \A r \in Found \cup {f[2] : f \in {g \in tmp : g[1] = "keys"}} :
    r \in DOMAIN keys /\ r \in data /\ <<"data", r>> \notin Listed

\* Remove a file that exists.
RemoveFile(f) ==
  IF f[1] = "keys"
  THEN keys' = Without(keys, f[2]) /\ UNCHANGED data
  ELSE data' = data \ {f[2]} /\ UNCHANGED keys

Exists(f) == f[2] \in IF f[1] = "keys" THEN DOMAIN keys ELSE data

-----------------------------------------------------------------------------
\* openImpl.

OpenBegin ==
  /\ pc = "down"
  /\ pc' = "opening"
  /\ UNCHANGED <<files, session, writing, merge, limit, err, history>>

\* deleteScheduled, at the start and at the end of a session: the files of the
\* list in order, those that exist, then the list itself.
DeleteScheduled ==
  /\ pc \in {"opening", "deleting"}
  /\ \E i \in 1..Len(deleted) :
       /\ Exists(deleted[i]) /\ \A j \in 1..(i - 1) : ~Exists(deleted[j])
       /\ RemoveFile(deleted[i])
  /\ UNCHANGED <<tmp, deleted, pc, session, writing, merge, limit, err, history>>

ListDone == ~\E f \in Listed : Exists(f)

RemoveList ==
  /\ pc \in {"opening", "deleting"}
  /\ ListDone /\ deleted # <<>>
  /\ deleted' = <<>>
  /\ UNCHANGED <<keys, data, tmp, pc, session, writing, merge, limit, err, history>>

MaxLower(refs) == IF refs = {} THEN 0 ELSE MaxOf({r[1] : r \in refs})
MaxUpper(refs) == IF refs = {} THEN 0 ELSE MaxOf({r[2] : r \in refs})

Load ==
  /\ pc = "opening" /\ deleted = <<>>
  /\ Loadable
  /\ LET id == MaxUpper(Members(FoundOrder)) + 1
     IN  /\ id <= MaxSegID
         /\ segments' = FoundOrder
         /\ memory' = <<id, id>>
         /\ contents' = [r \in Members(FoundOrder) \cup {<<id, id>>} |->
                           IF r = <<id, id>> THEN NoEntries ELSE keys[r]]
         /\ onDisk' = Members(FoundOrder)
         /\ nextSegID' = id
  /\ pc' = "open"
  /\ map' = Recovered
  /\ clean' = FALSE
  /\ limit' = MaxSegments
  /\ UNCHANGED <<files, left, writing, merge, err, crashes>>

LoadThrows ==
  /\ pc = "opening" /\ deleted = <<>>
  /\ ~Loadable
  /\ pc' = "down"
  /\ UNCHANGED <<files, session, writing, merge, limit, err, history>>

-----------------------------------------------------------------------------
\* put and remove, with the swap of a full memory segment before them.

Write(k, e) ==
  /\ pc = "open"
  /\ IF Bytes(contents[memory]) > MaxMemory
     THEN LET new == <<nextSegID + 1, nextSegID + 1>>
          IN  /\ nextSegID < MaxSegID
              /\ nextSegID' = nextSegID + 1
              /\ segments' = Append(segments, memory)
              /\ memory' = new
              /\ contents' = With(contents, new, Put(NoEntries, k, e))
     ELSE /\ contents' = [contents EXCEPT ![memory] = Put(@, k, e)]
          /\ UNCHANGED <<segments, memory, nextSegID>>
  /\ map' = [map EXCEPT ![k] = e]
  /\ UNCHANGED <<files, pc, onDisk, left, writing, merge, limit, err, clean, crashes>>

-----------------------------------------------------------------------------
\* writeAndLoadSegment: temporary files, then a rename of each.

WriteTmp(target, content) ==
  /\ writing' = With(writing, target, content)
  /\ tmp' = tmp \cup FilesOf({target})

RenameKeys ==
  /\ \E t \in DOMAIN writing :
       /\ <<"keys", t>> \in tmp
       /\ tmp' = tmp \ {<<"keys", t>>}
       /\ keys' = With(keys, t, writing[t])
  /\ UNCHANGED <<data, deleted, pc, session, writing, merge, limit, err, history>>

RenameData(t) ==
  /\ <<"keys", t>> \notin tmp /\ <<"data", t>> \in tmp
  /\ tmp' = tmp \ {<<"data", t>>}
  /\ data' = data \cup {t}
  /\ writing' = Without(writing, t)

-----------------------------------------------------------------------------
\* mergeSegments0 and mergeSegments1.

Target == TargetOf(merge.slice)
Slice(start, n) ==
  LET size == IF n \div 2 > MinMergeSize THEN n \div 2 ELSE MinMergeSize
  IN  SubSeq(segments, start, IF start + size - 1 < n THEN start + size - 1 ELSE n)

MergeWanted == Len(segments) > limit

MergeThrows ==
  /\ merge' = NoMerge
  /\ IF pc = "open" THEN err' = TRUE /\ UNCHANGED pc ELSE pc' = "broken" /\ UNCHANGED err
  /\ UNCHANGED <<keys, deleted, segments, memory, contents, onDisk, nextSegID, limit, history>>

InTheWay(target) == target \in DOMAIN keys \cup data

\* The merger thread ends when writeAndLoadSegment finds a file with one of its
\* names; a close ends too, with a Database that cannot be closed or used.
MergeMeetsFiles(slice) ==
  /\ InTheWay(TargetOf(slice))
  /\ MergeThrows
  /\ UNCHANGED <<data, tmp, left, writing>>

MergeWrites(start, slice) ==
  /\ ~InTheWay(TargetOf(slice))
  /\ merge' = [pc |-> "write", start |-> start, slice |-> slice, lines |-> <<>>]
  /\ WriteTmp(TargetOf(slice),
              Merged([i \in 1..Len(slice) |-> contents[slice[i]]], start = 1))
  /\ UNCHANGED <<keys, data, deleted, pc, session, limit, err, history>>

MergeStart ==
  /\ (pc = "open" /\ ~err) \/ pc = "closing"
  /\ merge = NoMerge /\ MergeWanted
  /\ \E start \in 1..(Len(segments) - 1) :
       LET slice == Slice(start, Len(segments))
       IN  MergeMeetsFiles(slice) \/ MergeWrites(start, slice)

\* An exception up to the first rename leaves temporary files, at the second
\* rename a key file without its data file, and behind it, in newDiskSegment, both.
MergeFails ==
  /\ merge.pc = "write"
  /\ writing' = Without(writing, Target)
  /\ IF <<"keys", Target>> \in tmp
     THEN UNCHANGED <<data, tmp, left>>
     ELSE /\ left' = left \cup {Target}
          /\ UNCHANGED <<data, tmp>> \/ RenameData(Target)
  /\ MergeThrows

\* The lines that scheduleDeletion adds: for each disk segment of the slice, in
\* its order, which is that of age, the two of DiskSegment::files; a memory segment
\* has no files.
Sources == SortedByAge(Members(merge.slice) \cap onDisk)
FilesDataFirst(r) == <<<<"data", r>>, <<"keys", r>>>>
Files(r) == <<<<"keys", r>>, <<"data", r>>>>
LinesOf(refs) ==
  [i \in 1..(2 * Len(refs)) |-> Files(refs[(i + 1) \div 2])[IF i % 2 = 1 THEN 1 ELSE 2]]
LinesWithTarget == LinesOf(Append(Sources, Target))
Lines == LinesOf(Sources)

MergeWritten ==
  /\ merge.pc = "write"
  /\ RenameData(Target)
  /\ merge' = [merge EXCEPT !.pc = "schedule", !.lines = Lines]
  /\ contents' = With(contents, Target, writing[Target])
  /\ onDisk' = onDisk \cup {Target}
  /\ UNCHANGED <<keys, deleted, pc, segments, memory, left, nextSegID, limit, err, history>>

\* A process that dies leaves the first lines.  A line cut in half is left out.
MergeSchedule ==
  /\ merge.pc = "schedule"
  /\ IF merge.lines = <<>>
     THEN merge' = [merge EXCEPT !.pc = "publish"] /\ UNCHANGED deleted
     ELSE /\ deleted' = Append(deleted, Head(merge.lines))
          /\ merge' = [merge EXCEPT !.lines = Tail(@)]
  /\ UNCHANGED <<keys, data, tmp, pc, session, writing, limit, err, history>>

\* The replaced segments keep their files: removeOnFinalize only sets a flag,
\* which no disk segment looks at.
MergePublish ==
  /\ merge.pc = "publish"
  /\ segments' = Splice(segments, merge.start, merge.slice, Target)
  /\ merge' = NoMerge
  /\ UNCHANGED <<files, pc, memory, contents, onDisk, left, nextSegID, writing, limit, err, history>>

-----------------------------------------------------------------------------
\* closeWithMerge: the memory segment joins the list, the list is merged down to
\* count segments unless count is 0, the tasks of the pool write the memory
\* segments that are left, and the scheduled files are deleted.

CloseBegin(count) ==
  /\ pc = "open" /\ merge = NoMerge
  /\ pc' = IF count > 0 THEN "closing" ELSE "flushing"
  /\ limit' = count
  /\ segments' = Append(segments, memory)
  /\ memory' = Null
  /\ UNCHANGED <<files, contents, onDisk, left, nextSegID, writing, merge, err, history>>

MergedEnough ==
  /\ pc = "closing" /\ merge = NoMerge /\ ~MergeWanted
  /\ pc' = "flushing"
  /\ UNCHANGED <<files, session, writing, merge, limit, err, history>>

\* The memory segments that a task has still to write; an empty one has no files.
UnwrittenOrNot == {r \in Members(segments) : contents[r] # NoEntries}
Unwritten ==
  {r \in Members(segments) : r \notin onDisk /\ contents[r] # NoEntries}

FlushStart(r) ==
  /\ pc = "flushing"
  /\ r \in Unwritten \ DOMAIN writing
  /\ WriteTmp(r, contents[r])
  /\ UNCHANGED <<keys, data, deleted, pc, session, merge, limit, err, history>>

FlushWritten(r) ==
  /\ pc = "flushing" /\ r \in DOMAIN writing
  /\ RenameData(r)
  /\ onDisk' = onDisk \cup {r}
  /\ UNCHANGED <<keys, deleted, pc, segments, memory, contents, left, nextSegID, merge, limit,
                 err, history>>

NoWait == TRUE
TasksDone == Unwritten = {}

FlushDone ==
  /\ pc = "flushing" /\ TasksDone
  /\ pc' = "deleting"
  /\ UNCHANGED <<files, session, writing, merge, limit, err, history>>

Ended ==
  /\ pc' = "down"
  /\ segments' = <<>> /\ memory' = Null /\ contents' = Nothing /\ onDisk' = {}
  /\ left' = {} /\ nextSegID' = 0
  /\ writing' = Nothing /\ merge' = NoMerge /\ limit' = MaxSegments /\ err' = FALSE

CloseDone ==
  /\ pc = "deleting" /\ deleted = <<>>
  /\ Ended
  /\ clean' = TRUE
  /\ UNCHANGED <<files, map, crashes>>

\* The process dies.
Crash ==
  /\ pc # "down" /\ crashes < MaxCrashes
  /\ Ended
  /\ crashes' = crashes + 1
  /\ UNCHANGED <<files, map, clean>>

Next ==
  \/ OpenBegin \/ DeleteScheduled \/ RemoveList \/ Load \/ LoadThrows
  \/ \E k \in Key, e \in Value \cup {Empty} : Write(k, e)
  \/ RenameKeys
  \/ MergeStart \/ MergeFails \/ MergeWritten \/ MergeSchedule \/ MergePublish
  \/ \E count \in CloseCounts : CloseBegin(count)
  \/ MergedEnough
  \/ \E r \in Members(segments) : FlushStart(r) \/ FlushWritten(r)
  \/ FlushDone \/ CloseDone
  \/ Crash

Spec == Init /\ [][Next]_vars

-----------------------------------------------------------------------------
TypeOK ==
  /\ DOMAIN keys \subseteq Ref /\ \A r \in DOMAIN keys : keys[r] \in Content
  /\ data \subseteq Ref
  /\ tmp \subseteq File /\ deleted \in Seq(File)
  /\ pc \in {"down", "opening", "open", "closing", "flushing", "deleting", "broken"}
  /\ segments \in Seq(Ref) /\ Ascending(segments)
  /\ memory \in Ref \cup {Null}
  /\ DOMAIN contents \subseteq Ref /\ \A r \in DOMAIN contents : contents[r] \in Content
  /\ onDisk \subseteq DOMAIN contents /\ left \subseteq DOMAIN keys
  /\ DOMAIN writing \subseteq Ref /\ \A r \in DOMAIN writing : writing[r] \in Content
  /\ merge.pc \in {"none", "write", "schedule", "publish"}
  /\ nextSegID \in 0..MaxSegID /\ limit \in Nat /\ err \in BOOLEAN
  /\ map \in [Key -> Value \cup {Empty}]
  /\ clean \in BOOLEAN /\ crashes \in 0..MaxCrashes

\* The list of segments with the finished merge in it.
Current ==
  IF merge.pc \in {"schedule", "publish"}
  THEN Splice(segments, merge.start, merge.slice, Target)
  ELSE segments

\* A segment of the list whose entries have key files: its own, or those of a merge
\* of it that failed behind the first rename.
Stored(r) == r \in onDisk \/ \E l \in left : Within(r, l)

\* Whenever the process dies between two writes of segments, the next session
\* holds exactly what this one had on disk: no source of a merge, left over,
\* scheduled or half removed, and no file of a merge that failed, brings anything
\* back or takes anything away (mergeSegments1, writeAndLoadSegment, Deleter, the
\* end of loadDiskSegments).
DiskMatchesSession ==
  pc \in {"open", "closing", "flushing", "deleting"} /\ writing = Nothing =>
    Recovered = View([i \in 1..Len(Current) |->
                        IF Stored(Current[i]) THEN contents[Current[i]] ELSE NoEntries])

\* The files that a close has left hold the map as it was, whatever happened to
\* the sessions before it: what an open that does not throw makes of them.
CloseKeepsEverything == pc = "down" /\ clean => Recovered = map

\* Only temporary files ever keep a database from opening: whatever part of the
\* lines of a merge was written, and of the listed files removed, a key file that
\* will be loaded still has its data file (DiskSegment::files, Deleter).
OpensUnlessTmpLeft == tmp = {} => Loadable

\* What a close has left opens again.
OpensAfterClose == pc = "down" /\ clean => Loadable

\* No open throws after a crash.
OpensAfterCrash == pc \in {"down", "opening"} => Loadable

\* writeAndLoadSegment never finds its files there already, in whatever session
\* and after whatever crash their names were made up, except those that a merge
\* of the same session has left: neither the flush of a memory segment in the list
\* nor any merge the merger could start.
TargetsAreFree ==
  /\ \A r \in Unwritten \ DOMAIN writing : ~InTheWay(r)
  /\ merge = NoMerge =>
       \A start \in 1..(Len(segments) - 1) :
         LET target == TargetOf(Slice(start, Len(segments)))
         IN  InTheWay(target) => target \in left

\* Every write that returned is found by the next session: the log of a memory
\* segment has it (MemorySegment::put, LogFile::write).
LoggedWritesSurvive == pc = "down" => Recovered = map
=============================================================================
