------------------------------ MODULE Segments ------------------------------
(***************************************************************************)
(* The data of the segments of a cpp_leveldb database, without their       *)
(* encoding: what one segment holds, what a stack of segments means, and   *)
(* what the two readers of a stack (MultiSegment::get and the iterator     *)
(* MultiSegment::Iterator, which also feeds the merger) return.            *)
(*                                                                         *)
(* A key that a segment does not hold is Absent.  A key it holds with an   *)
(* empty value is a removed key: MemorySegment::remove stores              *)
(* ByteBuffer::EMPTY() (include/memorysegment.h), here Empty.  Empty is    *)
(* also what every get returns for "not found".                            *)
(***************************************************************************)
EXTENDS Naturals, Sequences, FiniteSets

CONSTANTS Key, Value, Empty, Absent

ASSUME SegmentsAssumption ==
  /\ Empty \notin Value
  /\ Absent \notin Value
  /\ Empty # Absent

Entry == Value \cup {Empty, Absent}

\* What one segment holds: a skip list or a pair of key and data files.
Content == [Key -> Entry]

NoEntries == [k \in Key |-> Absent]

\* SkipList::put on the entries of a memory segment.
Put(content, k, v) == [content EXCEPT ![k] = v]

\* MemorySegment::bytes, with every entry of size one.
Bytes(content) == Cardinality({k \in Key : content[k] # Absent})

-----------------------------------------------------------------------------
\* A stack of segments is a sequence of contents, the oldest first.

MaxOf(S) == CHOOSE i \in S : \A j \in S : j <= i

Defining(layers, k) == {i \in 1..Len(layers) : layers[i][k] # Absent}

\* The entry of k the merging iterator yields: when several segments hold the
\* lowest key it takes the one of the newest, and steps over the others.
Newest(layers, k) ==
  IF Defining(layers, k) = {}
  THEN Absent
  ELSE layers[MaxOf(Defining(layers, k))][k]

\* What a caller of the database should see of an entry.
Live(e) == IF e \in Value THEN e ELSE Empty

\* The logical content of a stack: the newest entry of each key wins, and a
\* removed key reads as "not found".
View(layers) == [k \in Key |-> Live(Newest(layers, k))]

\* MultiSegment::get: the newest segment that returns a non-empty value wins;
\* a segment where the key was removed returns an empty value and is passed over.
MultiGetOldestFirst(layers, k) ==
  LET hits == {i \in 1..Len(layers) : layers[i][k] \in Value}
  IN  IF hits = {} THEN Empty
      ELSE layers[CHOOSE i \in hits : \A j \in hits : i <= j][k]

MultiGet(layers, k) ==
  LET hits == {i \in 1..Len(layers) : layers[i][k] \in Value}
  IN  IF hits = {} THEN Empty ELSE layers[MaxOf(hits)][k]

\* writeSegmentFiles: the entries of a merged segment; removed keys are left
\* out when purgeDeleted is set.

Merged(layers, purgeDeleted) ==
  [k \in Key |-> IF purgeDeleted /\ Newest(layers, k) = Empty
                 THEN Absent
                 ELSE Newest(layers, k)]

-----------------------------------------------------------------------------
\* A segment is named by the range of segment ids it was built from, which is
\* also the name of its files: keys.<lower>.<upper> and data.<lower>.<upper>.

Ref == Nat \X Nat

Within(inner, outer) == outer[1] <= inner[1] /\ inner[2] <= outer[2]

\* The segments of a list cover disjoint ranges, the oldest first.
Ordered(chain) ==
  /\ \A i \in 1..Len(chain) : chain[i][1] <= chain[i][2]
  /\ \A i, j \in 1..Len(chain) : i < j => chain[i][2] < chain[j][1]

\* The segments of a list that open found can overlap when a merge had failed behind
\* its renames, but none is within another.
Ascending(chain) ==
  /\ \A i \in 1..Len(chain) : chain[i][1] <= chain[i][2]
  /\ \A i, j \in 1..Len(chain) :
       i < j => chain[i][1] < chain[j][1] /\ chain[i][2] < chain[j][2]

\* segmentCompare: by upper id, and of two with the same upper id the narrower
\* one first.
SegmentGreater(a, b) == a[2] > b[2]

SegmentLess(a, b) ==
  IF a[2] = b[2] THEN a[1] > b[1] ELSE a[2] < b[2]

\* The tail of DiskSegment::loadDiskSegments: sort the segments found and drop
\* those fully contained in a later one.
SortedByAge(refs) ==
  [i \in 1..Cardinality(refs) |->
     CHOOSE f \in refs : Cardinality({g \in refs : SegmentLess(g, f)}) = i - 1]

LoadOrder(files) ==
  SortedByAge({f \in files : ~\E g \in files : SegmentLess(f, g) /\ Within(f, g)})

\* Merger::mergeSegments1: the name of the segment that replaces a slice.
TargetOf(slice) == <<slice[1][1], slice[Len(slice)][2]>>

\* The segments of a list, in no order.
Members(s) == {s[i] : i \in 1..Len(s)}

\* The list of segments after Len(slice) of them, from position start on, are
\* replaced by their merge.
SpliceAtEnd(segments, start, slice, target) ==
  [i \in 1..(Len(segments) - Len(slice) + 1) |->
     IF i < start THEN segments[i]
     ELSE IF i = Len(segments) - Len(slice) + 1 THEN target
     ELSE segments[i + Len(slice)]]

Splice(segments, start, slice, target) ==
  [i \in 1..(Len(segments) - Len(slice) + 1) |->
     IF i < start THEN segments[i]
     ELSE IF i = start THEN target
     ELSE segments[i + Len(slice) - 1]]
=============================================================================
