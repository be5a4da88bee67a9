--------------------------- MODULE SegmentsProofs ---------------------------
(* Lemmas about the operators of Segments.                                 *)
EXTENDS Segments, TLAPS, WellFoundedInduction, SequenceTheorems, FiniteSetTheorems

\* A set of positions of a list has a greatest element, and MaxOf returns it
\* (the search of MultiSegment::get from the newest segment down).
LEMMA MaxOfProperties ==
  ASSUME NEW n \in Nat, NEW S \in SUBSET (1..n), S # {}
  PROVE  MaxOf(S) \in S /\ \A j \in S : j <= MaxOf(S)
<1> DEFINE T == {n - i : i \in S}
<1>1. T \subseteq Nat /\ T # {}
  OBVIOUS
<1>2. PICK x \in T : \A y \in T : ~(<<y, x>> \in OpToRel(<, Nat))
  <2> HIDE DEF T
  <2> QED BY <1>1, WFMin, NatLessThanWellFounded
<1>3. \A y \in T : ~(y < x)
  BY <1>1, <1>2 DEF OpToRel
<1>4. PICK i \in S : x = n - i
  OBVIOUS
<1>5. \A j \in S : j <= i
  <2> TAKE j \in S
  <2>1. n - j \in T
    OBVIOUS
  <2>2. ~(n - j < n - i)
    BY <2>1, <1>3, <1>4
  <2> QED BY <2>2
<1>6. \E m \in S : \A j \in S : j <= m
  BY <1>5
<1> QED BY <1>6 DEF MaxOf

\* MaxOf is the only upper bound a set of positions contains.
LEMMA MaxOfIs ==
  ASSUME NEW n \in Nat, NEW S \in SUBSET (1..n),
         NEW i \in S, \A j \in S : j <= i
  PROVE  MaxOf(S) = i
<1>1. MaxOf(S) \in S /\ \A j \in S : j <= MaxOf(S)
  BY MaxOfProperties
<1>2. MaxOf(S) <= i /\ i <= MaxOf(S)
  BY <1>1
<1>3. \A x, y \in Nat : x <= y /\ y <= x => x = y
  OBVIOUS
<1>4. S \subseteq Nat
  OBVIOUS
<1> QED BY <1>1, <1>2, <1>3, <1>4

\* The newest entry of a key is the one of the newest segment that holds the
\* key (MultiSegment::Iterator::next).
LEMMA NewestIs ==
  ASSUME NEW layers, Len(layers) \in Nat, NEW k,
         NEW i \in 1..Len(layers), layers[i][k] # Absent,
         \A j \in 1..Len(layers) : i < j => layers[j][k] = Absent
  PROVE  Newest(layers, k) = layers[i][k]
<1>1. i \in Defining(layers, k) /\ Defining(layers, k) \in SUBSET (1..Len(layers))
  BY DEF Defining
<1>2. \A j \in Defining(layers, k) : j <= i
  BY DEF Defining
<1>3. MaxOf(Defining(layers, k)) = i
  BY <1>1, <1>2, MaxOfIs
<1> QED BY <1>1, <1>3 DEF Newest

\* A key that no segment holds has no newest entry.
LEMMA NewestAbsent ==
  ASSUME NEW layers, NEW k, \A j \in 1..Len(layers) : layers[j][k] = Absent
  PROVE  Newest(layers, k) = Absent
BY DEF Newest, Defining

\* Either no segment holds the key or one of them is the newest that does.
LEMMA NewestCases ==
  ASSUME NEW layers, Len(layers) \in Nat, NEW k
  PROVE  \/ /\ \A j \in 1..Len(layers) : layers[j][k] = Absent
            /\ Newest(layers, k) = Absent
         \/ \E i \in 1..Len(layers) :
              /\ layers[i][k] # Absent
              /\ \A j \in 1..Len(layers) : i < j => layers[j][k] = Absent
              /\ Newest(layers, k) = layers[i][k]
<1>1. CASE Defining(layers, k) = {}
  BY <1>1, NewestAbsent DEF Defining
<1>2. CASE Defining(layers, k) # {}
  <2> DEFINE i == MaxOf(Defining(layers, k))
  <2>1. Defining(layers, k) \in SUBSET (1..Len(layers))
    BY DEF Defining
  <2>2. i \in Defining(layers, k) /\ \A j \in Defining(layers, k) : j <= i
    BY <1>2, <2>1, MaxOfProperties
  <2>3. i \in 1..Len(layers) /\ layers[i][k] # Absent
    BY <2>2 DEF Defining
  <2>4. \A j \in 1..Len(layers) : i < j => layers[j][k] = Absent
    <3> SUFFICES ASSUME NEW j \in 1..Len(layers), i < j, layers[j][k] # Absent
                 PROVE  FALSE
      OBVIOUS
    <3>1. j \in Defining(layers, k)
      BY DEF Defining
    <3> QED BY <2>2, <2>3, <3>1
  <2>5. Newest(layers, k) = layers[i][k]
    BY <1>2 DEF Newest
  <2> QED BY <2>3, <2>4, <2>5
<1> QED BY <1>1, <1>2

\* Whatever the merging iterator yields is an entry of some segment.
LEMMA NewestType ==
  ASSUME NEW layers, Len(layers) \in Nat, NEW k \in Key,
         \A i \in 1..Len(layers) : layers[i] \in Content
  PROVE  Newest(layers, k) \in Entry
BY NewestCases DEF Content, Entry

\* A merged segment is a segment (writeSegmentFiles).
LEMMA MergedType ==
  ASSUME NEW layers, Len(layers) \in Nat, NEW purgeDeleted,
         \A i \in 1..Len(layers) : layers[i] \in Content
  PROVE  Merged(layers, purgeDeleted) \in Content
BY NewestType DEF Merged, Content, Entry

\* MultiSegment::get returns a value or "not found".
LEMMA MultiGetType ==
  ASSUME NEW layers, Len(layers) \in Nat, NEW k
  PROVE  MultiGet(layers, k) \in Value \cup {Empty}
<1> DEFINE hits == {i \in 1..Len(layers) : layers[i][k] \in Value}
<1>1. CASE hits = {}
  BY <1>1 DEF MultiGet
<1>2. CASE hits # {}
  <2>1. MaxOf(hits) \in hits
    BY <1>2, MaxOfProperties
  <2> QED BY <1>2, <2>1 DEF MultiGet
<1> QED BY <1>1, <1>2

\* What a key reads as is a value or "not found".
LEMMA ViewType ==
  ASSUME NEW layers
  PROVE  View(layers) \in [Key -> Value \cup {Empty}]
BY DEF View, Live

-----------------------------------------------------------------------------
(* Replacing a slice of a list of segments by its merge (mergeSegments0).  *)

\* The slice of Len(slice) segments from start on lies in the list.
IsSlice(segments, start, slice) ==
  /\ start \in Nat /\ start >= 1
  /\ Len(slice) >= 1
  /\ start + Len(slice) - 1 <= Len(segments)
  /\ \A i \in 1..Len(slice) : slice[i] = segments[start + i - 1]

\* What stays of the list keeps its order around the merged segment.
LEMMA SpliceProperties ==
  ASSUME NEW segments \in Seq(Ref), NEW slice \in Seq(Ref), NEW start,
         NEW target \in Ref, IsSlice(segments, start, slice)
  PROVE  LET new == Splice(segments, start, slice, target)
         IN  /\ new \in Seq(Ref)
             /\ Len(new) = Len(segments) - Len(slice) + 1
             /\ \A i \in 1..Len(new) :
                  /\ i < start => new[i] = segments[i]
                  /\ i = start => new[i] = target
                  /\ i > start => /\ i + Len(slice) - 1 \in 1..Len(segments)
                                  /\ new[i] = segments[i + Len(slice) - 1]
<1> DEFINE n == Len(segments) - Len(slice) + 1
           new == Splice(segments, start, slice, target)
<1>1. n \in Nat /\ start \in 1..n /\ Len(slice) \in Nat /\ Len(segments) \in Nat
  BY DEF IsSlice
<1>2. \A i \in 1..n : /\ i < start => i \in 1..Len(segments)
                      /\ i > start => i + Len(slice) - 1 \in 1..Len(segments)
  BY <1>1 DEF IsSlice
<1>3. \A i \in 1..n : (IF i < start THEN segments[i]
                       ELSE IF i = start THEN target
                       ELSE segments[i + Len(slice) - 1]) \in Ref
  <2> TAKE i \in 1..n
  <2>1. CASE i < start
    BY <2>1, <1>2, ElementOfSeq
  <2>2. CASE i = start
    BY <2>2
  <2>3. CASE i > start
    BY <2>3, <1>2, ElementOfSeq
  <2> QED BY <1>1, <2>1, <2>2, <2>3
<1>4. new \in [1..n -> Ref]
  BY <1>3 DEF Splice
<1>5. new \in Seq(Ref) /\ Len(new) = n
  BY <1>1, <1>4, SeqDef, LenProperties
<1>6. \A i \in 1..n : /\ i < start => new[i] = segments[i]
                      /\ i = start => new[i] = target
                      /\ i > start => new[i] = segments[i + Len(slice) - 1]
  BY <1>1 DEF Splice
<1> QED BY <1>2, <1>5, <1>6

\* The same of a list that is known by its name.
LEMMA SplicedLength ==
  ASSUME NEW segments \in Seq(Ref), NEW slice \in Seq(Ref), NEW start,
         NEW target \in Ref, IsSlice(segments, start, slice),
         NEW new, new = Splice(segments, start, slice, target)
  PROVE  Len(new) = Len(segments) - Len(slice) + 1
BY SpliceProperties

LEMMA SplicedProperties ==
  ASSUME NEW segments \in Seq(Ref), NEW slice \in Seq(Ref), NEW start,
         NEW target \in Ref, IsSlice(segments, start, slice),
         NEW new, new = Splice(segments, start, slice, target)
  PROVE  /\ new \in Seq(Ref)
         /\ \A i \in 1..Len(new) :
              /\ i < start => new[i] = segments[i]
              /\ i = start => new[i] = target
              /\ i > start => /\ i + Len(slice) - 1 \in 1..Len(segments)
                              /\ new[i] = segments[i + Len(slice) - 1]
BY SpliceProperties

LEMMA SplicedFrom ==
  ASSUME NEW segments \in Seq(Ref), NEW slice \in Seq(Ref), NEW start,
         NEW target \in Ref, IsSlice(segments, start, slice)
  PROVE  \A i \in 1..Len(Splice(segments, start, slice, target)) :
           \/ Splice(segments, start, slice, target)[i] = target
           \/ \E j \in 1..Len(segments) :
                Splice(segments, start, slice, target)[i] = segments[j]
<1> DEFINE new == Splice(segments, start, slice, target)
<1>1. new = Splice(segments, start, slice, target)
  OBVIOUS
<1> HIDE DEF new
<1>2. Len(new) = Len(segments) - Len(slice) + 1
  BY <1>1, SplicedLength
<1>3. /\ start \in Nat /\ start >= 1 /\ Len(segments) \in Nat /\ Len(slice) \in Nat
      /\ start + Len(slice) - 1 <= Len(segments) /\ Len(slice) >= 1
  BY DEF IsSlice
<1>4. ASSUME NEW i \in 1..Len(new), new[i] # target
      PROVE  \E j \in 1..Len(segments) : new[i] = segments[j]
  <2>1. /\ i < start => new[i] = segments[i]
        /\ i = start => new[i] = target
        /\ i > start => /\ i + Len(slice) - 1 \in 1..Len(segments)
                        /\ new[i] = segments[i + Len(slice) - 1]
    BY <1>1, SplicedProperties
  <2>2. i < start => i \in 1..Len(segments)
    BY <1>2, <1>3
  <2>3. i < start \/ i > start
    BY <1>3, <1>4, <2>1
  <2> QED BY <2>1, <2>2, <2>3
<1> QED BY <1>1, <1>4

\* In an ordered list a later segment is newer than an earlier one, whatever
\* ends of their ranges are compared.
LEMMA OrderedPositions ==
  ASSUME NEW chain \in Seq(Ref), Ordered(chain),
         NEW i \in 1..Len(chain), NEW j \in 1..Len(chain)
  PROVE  /\ chain[i] \in Ref
         /\ chain[i][1] \in Nat /\ chain[i][2] \in Nat
         /\ i <= j => chain[i][1] <= chain[j][1] /\ chain[i][2] <= chain[j][2]
         /\ chain[i][1] <= chain[j][2] => i <= j
<1>1. chain[i] \in Ref /\ chain[j] \in Ref
  BY ElementOfSeq
<1>2. /\ chain[i][1] \in Nat /\ chain[i][2] \in Nat
      /\ chain[j][1] \in Nat /\ chain[j][2] \in Nat
  BY <1>1 DEF Ref
<1>3. /\ chain[i][1] <= chain[i][2] /\ chain[j][1] <= chain[j][2]
      /\ i < j => chain[i][2] < chain[j][1]
      /\ j < i => chain[j][2] < chain[i][1]
  BY DEF Ordered
<1>4. i \in Nat /\ j \in Nat
  OBVIOUS
<1>5. CASE i = j
  BY <1>1, <1>2, <1>3, <1>5
<1>6. CASE i < j
  BY <1>1, <1>2, <1>3, <1>4, <1>6
<1>7. CASE j < i
  BY <1>1, <1>2, <1>3, <1>4, <1>7
<1> QED BY <1>4, <1>5, <1>6, <1>7

\* The segments of an ordered list ascend.
LEMMA OrderedAscends ==
  ASSUME NEW chain \in Seq(Ref), Ordered(chain)
  PROVE  Ascending(chain)
<1>1. \A i \in 1..Len(chain) : chain[i][1] <= chain[i][2]
  BY DEF Ordered
<1>2. ASSUME NEW i \in 1..Len(chain), NEW j \in 1..Len(chain), i < j
      PROVE  chain[i][1] < chain[j][1] /\ chain[i][2] < chain[j][2]
  <2>1. /\ chain[i][1] \in Nat /\ chain[i][2] \in Nat
        /\ chain[j][1] \in Nat /\ chain[j][2] \in Nat
    BY OrderedPositions
  <2>2. chain[i][2] < chain[j][1]
    BY <1>2 DEF Ordered
  <2> QED BY <1>1, <2>1, <2>2
<1> QED BY <1>1, <1>2 DEF Ascending

LEMMA AscendingPositions ==
  ASSUME NEW chain \in Seq(Ref), Ascending(chain),
         NEW i \in 1..Len(chain), NEW j \in 1..Len(chain)
  PROVE  /\ chain[i] \in Ref
         /\ chain[i][1] \in Nat /\ chain[i][2] \in Nat /\ chain[i][1] <= chain[i][2]
         /\ i <= j => chain[i][1] <= chain[j][1] /\ chain[i][2] <= chain[j][2]
         /\ chain[i][1] <= chain[j][1] => i <= j
         /\ chain[i][2] <= chain[j][2] => i <= j
<1>1. chain[i] \in Ref /\ chain[j] \in Ref
  BY ElementOfSeq
<1>2. /\ chain[i][1] \in Nat /\ chain[i][2] \in Nat
      /\ chain[j][1] \in Nat /\ chain[j][2] \in Nat
  BY <1>1 DEF Ref
<1>3. /\ chain[i][1] <= chain[i][2]
      /\ i < j => chain[i][1] < chain[j][1] /\ chain[i][2] < chain[j][2]
      /\ j < i => chain[j][1] < chain[i][1] /\ chain[j][2] < chain[i][2]
  BY DEF Ascending
<1>4. i \in Nat /\ j \in Nat /\ (i < j \/ i = j \/ j < i)
  OBVIOUS
<1> QED BY <1>1, <1>2, <1>3, <1>4

\* The merged segment is named after the ends of its slice.
LEMMA TargetProperties ==
  ASSUME NEW segments \in Seq(Ref), NEW slice \in Seq(Ref), NEW start,
         Ascending(segments), IsSlice(segments, start, slice)
  PROVE  /\ TargetOf(slice) \in Ref
         /\ start \in 1..Len(segments)
         /\ start + Len(slice) - 1 \in 1..Len(segments)
         /\ TargetOf(slice)[1] = segments[start][1]
         /\ TargetOf(slice)[2] = segments[start + Len(slice) - 1][2]
         /\ TargetOf(slice)[1] <= TargetOf(slice)[2]
<1> DEFINE last == start + Len(slice) - 1
<1>1. start \in 1..Len(segments) /\ last \in 1..Len(segments) /\ start <= last
  BY DEF IsSlice
<1>2. slice[1] = segments[start] /\ slice[Len(slice)] = segments[last]
  BY DEF IsSlice
<1>3. /\ segments[start][1] \in Nat /\ segments[last][2] \in Nat
      /\ segments[start][1] <= segments[last][2]
  <2>1. /\ segments[start][1] \in Nat /\ segments[start][2] \in Nat
        /\ segments[start][1] <= segments[start][2]
        /\ segments[start][2] <= segments[last][2] /\ segments[last][2] \in Nat
    BY <1>1, AscendingPositions
  <2> QED BY <2>1
<1>4. TargetOf(slice) = <<segments[start][1], segments[last][2]>>
  BY <1>2 DEF TargetOf
<1>5. TargetOf(slice)[1] = segments[start][1] /\ TargetOf(slice)[2] = segments[last][2]
  BY <1>4
<1>6. TargetOf(slice) \in Ref
  BY <1>3, <1>4 DEF Ref
<1>7. TargetOf(slice)[1] <= TargetOf(slice)[2]
  BY <1>3, <1>5
<1> QED BY <1>1, <1>5, <1>6, <1>7

\* The list with the merged segment is still ordered.
LEMMA SpliceOrdered ==
  ASSUME NEW segments \in Seq(Ref), NEW slice \in Seq(Ref), NEW start,
         Ordered(segments), IsSlice(segments, start, slice)
  PROVE  Ordered(Splice(segments, start, slice, TargetOf(slice)))
<1> DEFINE target == TargetOf(slice)
           m == Len(slice)
           new == Splice(segments, start, slice, target)
           lower(i) == IF i <= start THEN i ELSE i + m - 1
           upper(i) == IF i < start THEN i ELSE i + m - 1
<1>1. /\ start \in 1..Len(segments) /\ m \in Nat /\ m >= 1
      /\ start + m - 1 \in 1..Len(segments)
      /\ target \in Ref /\ target[1] <= target[2]
      /\ target[1] = segments[start][1] /\ target[2] = segments[start + m - 1][2]
  <2>1. m \in Nat /\ m >= 1
    BY DEF IsSlice
  <2> QED BY <2>1, OrderedAscends, TargetProperties
<1>2. /\ Len(new) = Len(segments) - m + 1
      /\ \A i \in 1..Len(new) :
           /\ i < start => new[i] = segments[i]
           /\ i = start => new[i] = target
           /\ i > start => new[i] = segments[i + m - 1]
  <2>1. target \in Ref /\ new = Splice(segments, start, slice, target) /\ m = Len(slice)
    BY <1>1
  <2> HIDE DEF new, m, target
  <2>2. Len(new) = Len(segments) - m + 1
    BY ONLY <2>1, SplicedLength, IsSlice(segments, start, slice),
       segments \in Seq(Ref), slice \in Seq(Ref)
  <2>3. ASSUME NEW i \in 1..Len(new)
        PROVE  /\ i < start => new[i] = segments[i]
               /\ i = start => new[i] = target
               /\ i > start => new[i] = segments[i + m - 1]
    BY ONLY <2>1, <2>3, SplicedProperties, IsSlice(segments, start, slice),
       segments \in Seq(Ref), slice \in Seq(Ref)
  <2> QED BY <2>2, <2>3
<1> HIDE DEF new, m, target
<1>3. ASSUME NEW i \in 1..Len(new)
      PROVE  /\ lower(i) \in 1..Len(segments) /\ upper(i) \in 1..Len(segments)
             /\ new[i][1] = segments[lower(i)][1]
             /\ new[i][2] = segments[upper(i)][2]
             /\ new[i][1] <= new[i][2]
  <2>0. i \in Nat /\ start \in Nat /\ Len(segments) \in Nat
    BY <1>1
  <2>1. CASE i < start
    BY <2>0, <2>1, <1>1, <1>2 DEF Ordered
  <2>2. CASE i = start
    BY <2>0, <2>2, <1>1, <1>2
  <2>3. CASE i > start
    <3>1. lower(i) = i + m - 1 /\ upper(i) = i + m - 1 /\ new[i] = segments[i + m - 1]
      BY <2>0, <2>3, <1>1, <1>2
    <3>2. i + m - 1 \in 1..Len(segments)
      BY <2>0, <1>1, <1>2
    <3> QED BY <3>1, <3>2 DEF Ordered
  <2> QED BY <2>0, <2>1, <2>2, <2>3
<1>4. ASSUME NEW i \in 1..Len(new), NEW j \in 1..Len(new), i < j
      PROVE  new[i][2] < new[j][1]
  <2>1. upper(i) < lower(j)
    BY <1>1, <1>4
  <2>2. segments[upper(i)][2] < segments[lower(j)][1]
    BY <1>3, <2>1 DEF Ordered
  <2> QED BY <1>3, <2>2
<1> QED BY <1>3, <1>4 DEF Ordered, new, target

LEMMA SpliceAscends ==
  ASSUME NEW segments \in Seq(Ref), NEW slice \in Seq(Ref), NEW start,
         Ascending(segments), IsSlice(segments, start, slice)
  PROVE  Ascending(Splice(segments, start, slice, TargetOf(slice)))
<1> DEFINE target == TargetOf(slice)
           m == Len(slice)
           new == Splice(segments, start, slice, target)
           lower(i) == IF i <= start THEN i ELSE i + m - 1
           upper(i) == IF i < start THEN i ELSE i + m - 1
<1>1. /\ start \in 1..Len(segments) /\ m \in Nat /\ m >= 1
      /\ start + m - 1 \in 1..Len(segments)
      /\ target \in Ref /\ target[1] <= target[2]
      /\ target[1] = segments[start][1] /\ target[2] = segments[start + m - 1][2]
  <2>1. m \in Nat /\ m >= 1
    BY DEF IsSlice
  <2> QED BY <2>1, TargetProperties
<1>2. /\ Len(new) = Len(segments) - m + 1
      /\ \A i \in 1..Len(new) :
           /\ i < start => new[i] = segments[i]
           /\ i = start => new[i] = target
           /\ i > start => new[i] = segments[i + m - 1]
  <2>1. target \in Ref /\ new = Splice(segments, start, slice, target) /\ m = Len(slice)
    BY <1>1
  <2> HIDE DEF new, m, target
  <2>2. Len(new) = Len(segments) - m + 1
    BY ONLY <2>1, SplicedLength, IsSlice(segments, start, slice),
       segments \in Seq(Ref), slice \in Seq(Ref)
  <2>3. ASSUME NEW i \in 1..Len(new)
        PROVE  /\ i < start => new[i] = segments[i]
               /\ i = start => new[i] = target
               /\ i > start => new[i] = segments[i + m - 1]
    BY ONLY <2>1, <2>3, SplicedProperties, IsSlice(segments, start, slice),
       segments \in Seq(Ref), slice \in Seq(Ref)
  <2> QED BY <2>2, <2>3
<1> HIDE DEF new, m, target
<1>3. ASSUME NEW i \in 1..Len(new)
      PROVE  /\ lower(i) \in 1..Len(segments) /\ upper(i) \in 1..Len(segments)
             /\ new[i][1] = segments[lower(i)][1]
             /\ new[i][2] = segments[upper(i)][2]
             /\ new[i][1] <= new[i][2]
  <2>0. i \in Nat /\ start \in Nat /\ Len(segments) \in Nat
    BY <1>1
  <2>1. CASE i < start
    BY <2>0, <2>1, <1>1, <1>2 DEF Ascending
  <2>2. CASE i = start
    BY <2>0, <2>2, <1>1, <1>2
  <2>3. CASE i > start
    <3>1. lower(i) = i + m - 1 /\ upper(i) = i + m - 1 /\ new[i] = segments[i + m - 1]
      BY <2>0, <2>3, <1>1, <1>2
    <3>2. i + m - 1 \in 1..Len(segments)
      BY <2>0, <1>1, <1>2
    <3> QED BY <3>1, <3>2 DEF Ascending
  <2> QED BY <2>0, <2>1, <2>2, <2>3
<1>4. ASSUME NEW i \in 1..Len(new), NEW j \in 1..Len(new), i < j
      PROVE  new[i][1] < new[j][1] /\ new[i][2] < new[j][2]
  <2>1. lower(i) < lower(j) /\ upper(i) < upper(j)
    BY <1>1, <1>4
  <2>2. /\ segments[lower(i)][1] < segments[lower(j)][1]
        /\ segments[upper(i)][2] < segments[upper(j)][2]
    BY <1>3, <2>1 DEF Ascending
  <2> QED BY <1>3, <2>2
<1> QED BY <1>3, <1>4 DEF Ascending, new, target

\* No segment of the list, and none it covers, has the name of the merge of two
\* or more of them.
LEMMA TargetIsNew ==
  ASSUME NEW segments \in Seq(Ref), NEW slice \in Seq(Ref), NEW start,
         Ascending(segments), IsSlice(segments, start, slice), Len(slice) >= 2,
         NEW i \in 1..Len(segments)
  PROVE  ~Within(TargetOf(slice), segments[i])
<1> DEFINE last == start + Len(slice) - 1
<1> SUFFICES ASSUME Within(TargetOf(slice), segments[i])
             PROVE  FALSE
  OBVIOUS
<1>1. /\ start \in 1..Len(segments) /\ last \in 1..Len(segments)
      /\ TargetOf(slice)[1] = segments[start][1]
      /\ TargetOf(slice)[2] = segments[last][2]
  BY TargetProperties
<1>2. start < last
  BY <1>1
<1> HIDE DEF last
<1>3. segments[i][1] <= segments[start][1] /\ segments[last][2] <= segments[i][2]
  BY <1>1 DEF Within
<1>4. i <= start /\ last <= i
  BY <1>1, <1>3, AscendingPositions
<1> QED BY <1>1, <1>2, <1>4

\* Every segment of the list stays, or is covered by the merged segment.
LEMMA SpliceCovers ==
  ASSUME NEW segments \in Seq(Ref), NEW slice \in Seq(Ref), NEW start,
         Ascending(segments), IsSlice(segments, start, slice)
  PROVE  LET new == Splice(segments, start, slice, TargetOf(slice))
         IN  /\ start \in 1..Len(new) /\ new[start] = TargetOf(slice)
             /\ \A i \in 1..Len(segments) :
                  \E j \in 1..Len(new) : Within(segments[i], new[j])
<1> DEFINE new == Splice(segments, start, slice, TargetOf(slice))
           m == Len(slice)
           last == start + m - 1
<1>1. /\ start \in 1..Len(segments) /\ last \in 1..Len(segments)
      /\ m \in Nat /\ m >= 1 /\ start \in Nat /\ Len(segments) \in Nat
      /\ TargetOf(slice) \in Ref
      /\ TargetOf(slice)[1] = segments[start][1]
      /\ TargetOf(slice)[2] = segments[last][2]
  <2>1. m \in Nat /\ m >= 1 /\ start \in Nat /\ Len(segments) \in Nat
    BY DEF IsSlice
  <2> QED BY <2>1, TargetProperties
<1>2. /\ Len(new) = Len(segments) - m + 1
      /\ \A i \in 1..Len(new) :
           /\ i < start => new[i] = segments[i]
           /\ i = start => new[i] = TargetOf(slice)
           /\ i > start => new[i] = segments[i + m - 1]
  <2>1. TargetOf(slice) \in Ref
    BY <1>1
  <2> QED BY ONLY <2>1, SpliceProperties, segments \in Seq(Ref), slice \in Seq(Ref),
              IsSlice(segments, start, slice)
<1>3. start \in 1..Len(new) /\ new[start] = TargetOf(slice)
  BY <1>1, <1>2
<1> HIDE DEF m, new
<1>4. ASSUME NEW i \in 1..Len(segments)
      PROVE  \E j \in 1..Len(new) : Within(segments[i], new[j])
  <2>0. segments[i][1] \in Nat /\ segments[i][2] \in Nat
    BY AscendingPositions
  <2>1. CASE i < start
    <3>1. i \in 1..Len(new) /\ new[i] = segments[i]
      BY <1>1, <1>2, <2>1
    <3>2. Within(segments[i], new[i])
      BY <2>0, <3>1 DEF Within
    <3> QED BY <3>1, <3>2
  <2>2. CASE start <= i /\ i <= last
    <3>1. segments[start][1] <= segments[i][1] /\ segments[i][2] <= segments[last][2]
      BY <1>1, <2>2, AscendingPositions
    <3> QED BY <1>1, <1>3, <3>1 DEF Within
  <2>3. CASE last < i
    <3> DEFINE j == i - m + 1
    <3>0. i \in Nat /\ i <= Len(segments)
      BY <1>1
    <3>1. j \in 1..Len(new) /\ j > start /\ j + m - 1 = i
      <4>1. j > start /\ j + m - 1 = i /\ j \in Nat
        BY <1>1, <2>3, <3>0
      <4>2. j <= Len(segments) - m + 1
        BY <1>1, <3>0
      <4> QED BY <4>1, <4>2, <1>1, <1>2
    <3>2. new[j] = segments[i]
      BY <1>2, <3>1
    <3>3. Within(segments[i], new[j])
      BY <2>0, <3>2 DEF Within
    <3> QED BY <3>1, <3>3
  <2> QED BY <1>1, <2>1, <2>2, <2>3
<1> QED BY <1>3, <1>4 DEF new

\* Replacing a slice commutes with appending the memory segment.
LEMMA SpliceAppend ==
  ASSUME NEW segments \in Seq(Ref), NEW slice \in Seq(Ref), NEW start,
         IsSlice(segments, start, slice), NEW target \in Ref, NEW r \in Ref
  PROVE  /\ IsSlice(Append(segments, r), start, slice)
         /\ Append(Splice(segments, start, slice, target), r)
              = Splice(Append(segments, r), start, slice, target)
<1> DEFINE new == Splice(segments, start, slice, target)
           more == Append(segments, r)
           both == Splice(more, start, slice, target)
           m == Len(slice)
<1>1. /\ start \in Nat /\ start >= 1 /\ m \in Nat /\ m >= 1 /\ Len(segments) \in Nat
      /\ start + m - 1 <= Len(segments)
      /\ \A i \in 1..m : slice[i] = segments[start + i - 1]
  BY DEF IsSlice
<1>2. /\ more \in Seq(Ref) /\ Len(more) = Len(segments) + 1
      /\ \A i \in 1..Len(segments) : more[i] = segments[i]
      /\ more[Len(segments) + 1] = r
  BY AppendProperties
<1> HIDE DEF more, m
<1>3. IsSlice(more, start, slice)
  <2>1. \A i \in 1..m : start + i - 1 \in 1..Len(segments)
    BY <1>1
  <2>2. \A i \in 1..m : slice[i] = more[start + i - 1]
    BY <1>1, <1>2, <2>1
  <2> QED BY <1>1, <1>2, <2>2 DEF IsSlice, m
<1>4. /\ new \in Seq(Ref) /\ Len(new) = Len(segments) - m + 1
      /\ \A i \in 1..Len(new) :
           /\ i < start => new[i] = segments[i]
           /\ i = start => new[i] = target
           /\ i > start => i + m - 1 \in 1..Len(segments) /\ new[i] = segments[i + m - 1]
  BY SpliceProperties DEF m
<1>5. /\ both \in Seq(Ref) /\ Len(both) = Len(more) - m + 1
      /\ \A i \in 1..Len(both) :
           /\ i < start => both[i] = more[i]
           /\ i = start => both[i] = target
           /\ i > start => both[i] = more[i + m - 1]
  BY <1>2, <1>3, SpliceProperties DEF m
<1> HIDE DEF new, both
<1>6. /\ Append(new, r) \in Seq(Ref) /\ Len(Append(new, r)) = Len(new) + 1
      /\ \A i \in 1..Len(new) : Append(new, r)[i] = new[i]
      /\ Append(new, r)[Len(new) + 1] = r
  BY <1>4, AppendProperties
<1>7. Len(Append(new, r)) = Len(both)
  BY <1>1, <1>2, <1>4, <1>5, <1>6
<1>8. ASSUME NEW i \in 1..Len(both)
      PROVE  Append(new, r)[i] = both[i]
  <2>1. CASE i = Len(new) + 1
    <3>1. i > start /\ i + m - 1 = Len(segments) + 1
      BY <1>1, <1>4, <2>1
    <3> QED BY <3>1, <2>1, <1>2, <1>5, <1>6
  <2>2. CASE i # Len(new) + 1
    <3>1. i \in 1..Len(new)
      BY <2>2, <1>4, <1>6, <1>7
    <3>2. CASE i < start
      <4>1. i \in 1..Len(segments)
        BY <3>2, <1>1
      <4> QED BY <4>1, <3>1, <3>2, <1>2, <1>4, <1>5, <1>6
    <3>3. CASE i = start
      BY <3>1, <3>3, <1>4, <1>5, <1>6
    <3>4. CASE i > start
      <4>1. i + m - 1 \in 1..Len(segments)
        BY <3>1, <3>4, <1>4
      <4> QED BY <4>1, <3>1, <3>4, <1>2, <1>4, <1>5, <1>6
    <3>5. i < start \/ i = start \/ i > start
      BY <1>1, <3>1
    <3> QED BY <3>2, <3>3, <3>4, <3>5
  <2> QED BY <2>1, <2>2
<1>9. Append(new, r) = both
  BY <1>5, <1>6, <1>7, <1>8, SeqEqual
<1> QED BY <1>3, <1>9 DEF new, both, more

-----------------------------------------------------------------------------
(* What a stack of segments means to a caller.                             *)

LEMMA ViewEqual ==
  ASSUME NEW a, NEW b, \A k \in Key : Live(Newest(a, k)) = Live(Newest(b, k))
  PROVE  View(a) = View(b)
BY DEF View

\* A new memory segment holds nothing and changes nothing (maybeSwapMemory).
LEMMA ViewWithEmptyTop ==
  ASSUME NEW layers, Len(layers) \in Nat, NEW more, Len(more) = Len(layers) + 1,
         \A i \in 1..Len(layers) : more[i] = layers[i],
         more[Len(more)] = NoEntries
  PROVE  View(more) = View(layers)
<1> SUFFICES ASSUME NEW k \in Key
             PROVE  Newest(more, k) = Newest(layers, k)
  BY ViewEqual
<1>1. /\ Len(more) \in Nat
      /\ \A i \in 1..Len(more) : i \in 1..Len(layers) \/ i = Len(more)
      /\ more[Len(more)][k] = Absent
  BY DEF NoEntries
<1>2. CASE \A i \in 1..Len(layers) : layers[i][k] = Absent
  <2>1. \A i \in 1..Len(more) : more[i][k] = Absent
    BY <1>1, <1>2
  <2> QED BY <1>2, <2>1, NewestAbsent
<1>3. ASSUME NEW i \in 1..Len(layers), layers[i][k] # Absent,
             \A j \in 1..Len(layers) : i < j => layers[j][k] = Absent,
             Newest(layers, k) = layers[i][k]
      PROVE  Newest(more, k) = layers[i][k]
  <2>1. i \in 1..Len(more) /\ more[i] = layers[i]
    BY <1>1
  <2>2. \A j \in 1..Len(more) : i < j => more[j][k] = Absent
    BY <1>1, <1>3
  <2> QED BY <1>1, <1>3, <2>1, <2>2, NewestIs
<1> QED BY <1>2, <1>3, NewestCases

\* An entry that reaches the newest segment is what its key reads as
\* (MemorySegment::put, MemorySegment::remove).
LEMMA ViewOfPut ==
  ASSUME NEW layers, Len(layers) \in Nat, Len(layers) >= 1,
         NEW more, Len(more) = Len(layers),
         \A i \in 1..Len(layers) : i # Len(layers) => more[i] = layers[i],
         layers[Len(layers)] \in Content,
         NEW k \in Key, NEW v \in Value \cup {Empty},
         more[Len(layers)] = Put(layers[Len(layers)], k, v)
  PROVE  View(more) = [View(layers) EXCEPT ![k] = v]
<1> DEFINE n == Len(layers)
<1>1. n \in 1..n /\ n \in 1..Len(more)
  OBVIOUS
<1>2. more[n][k] = v /\ \A l \in Key : l # k => more[n][l] = layers[n][l]
  BY DEF Put, Content
<1>3. Newest(more, k) = v
  <2>1. v # Absent
    BY SegmentsAssumption
  <2>2. \A j \in 1..Len(more) : ~(n < j)
    BY <1>1
  <2> QED BY <1>1, <1>2, <2>1, <2>2, NewestIs
<1>4. Live(v) = v
  BY DEF Live
<1>5. ASSUME NEW l \in Key, l # k
      PROVE  Newest(more, l) = Newest(layers, l)
  <2>1. \A i \in 1..n : more[i][l] = layers[i][l]
    BY <1>2, <1>5
  <2>2. CASE \A i \in 1..n : layers[i][l] = Absent
    BY <2>1, <2>2, NewestAbsent
  <2>3. ASSUME NEW i \in 1..n, layers[i][l] # Absent,
               \A j \in 1..n : i < j => layers[j][l] = Absent,
               Newest(layers, l) = layers[i][l]
        PROVE  Newest(more, l) = layers[i][l]
    BY <2>1, <2>3, NewestIs
  <2> QED BY <2>2, <2>3, NewestCases
<1> QED BY <1>3, <1>4, <1>5 DEF View

\* The stack new is the stack layers with m of its segments, from position start
\* on, replaced by their merge.
ReplacesMerged(layers, start, m, slice, purge, new) ==
  /\ Len(layers) \in Nat
  /\ start \in Nat /\ start >= 1
  /\ m \in Nat /\ m >= 1 /\ start + m - 1 <= Len(layers)
  /\ Len(slice) = m
  /\ \A i \in 1..m : slice[i] = layers[start + i - 1]
  /\ purge => start = 1
  /\ Len(new) = Len(layers) - m + 1
  /\ \A i \in 1..Len(new) : /\ i < start => new[i] = layers[i]
                            /\ i = start => new[i] = Merged(slice, purge)
                            /\ i > start => new[i] = layers[i + m - 1]

\* Merging some neighbours into one segment changes nothing, provided removed
\* keys are only left out when there is no older segment (mergeSegments1).
LEMMA ViewOfMerge ==
  ASSUME NEW layers, NEW start, NEW m, NEW slice, NEW purge, NEW new,
         ReplacesMerged(layers, start, m, slice, purge, new)
  PROVE  View(new) = View(layers)
<1>0. /\ Len(layers) \in Nat
      /\ start \in Nat /\ start >= 1
      /\ m \in Nat /\ m >= 1 /\ start + m - 1 <= Len(layers)
      /\ Len(slice) = m
      /\ \A i \in 1..m : slice[i] = layers[start + i - 1]
      /\ purge => start = 1
      /\ Len(new) = Len(layers) - m + 1
      /\ \A i \in 1..Len(new) : /\ i < start => new[i] = layers[i]
                                /\ i = start => new[i] = Merged(slice, purge)
                                /\ i > start => new[i] = layers[i + m - 1]
  BY DEF ReplacesMerged
<1> USE <1>0
<1> SUFFICES ASSUME NEW k \in Key
             PROVE  Live(Newest(new, k)) = Live(Newest(layers, k))
  BY ViewEqual
<1> DEFINE last == start + m - 1
           e == IF purge /\ Newest(slice, k) = Empty THEN Absent ELSE Newest(slice, k)
<1>1. /\ Len(new) \in Nat /\ start \in 1..Len(new) /\ Len(slice) \in Nat
      /\ last \in Nat /\ last <= Len(layers) /\ start <= last
  OBVIOUS
<1>2. new[start][k] = e
  BY <1>1 DEF Merged
<1>3. ASSUME NEW j \in 1..Len(layers), j >= start, j <= last
      PROVE  j - start + 1 \in 1..m /\ slice[j - start + 1] = layers[j]
  <2>1. j - start + 1 \in 1..m /\ start + (j - start + 1) - 1 = j
    BY <1>3
  <2> QED BY <2>1
<1>4. ASSUME NEW i \in 1..m
      PROVE  /\ start + i - 1 \in 1..Len(layers) /\ start + i - 1 >= start
             /\ start + i - 1 <= last
             /\ slice[i] = layers[start + i - 1]
  OBVIOUS
<1> HIDE DEF last, e
<1>5. CASE \A j \in 1..Len(layers) : layers[j][k] = Absent
  <2>1. \A i \in 1..m : slice[i][k] = Absent
    <3> TAKE i \in 1..m
    <3>1. start + i - 1 \in 1..Len(layers) /\ slice[i] = layers[start + i - 1]
      BY ONLY <1>4, i \in 1..m
    <3> QED BY ONLY <1>5, <3>1
  <2>2. Newest(slice, k) = Absent
    BY <2>1, NewestAbsent
  <2>3. e = Absent
    BY <2>2 DEF e
  <2>4. ASSUME NEW i \in 1..Len(new)
        PROVE  new[i][k] = Absent
    <3>1. CASE i = start
      BY <3>1, <1>2, <2>3
    <3>2. CASE i < start
      <4>1. i \in 1..Len(layers)
        BY <3>2, <1>1
      <4> QED BY <3>2, <4>1, <1>5
    <3>3. CASE i > start
      <4>1. i + m - 1 \in 1..Len(layers)
        BY <3>3, <1>1
      <4> QED BY <3>3, <4>1, <1>5
    <3> QED BY <3>1, <3>2, <3>3, <1>1
  <2>5. Newest(new, k) = Absent /\ Newest(layers, k) = Absent
    BY <2>4, <1>5, NewestAbsent
  <2> QED BY <2>5
<1>6. ASSUME NEW p \in 1..Len(layers), layers[p][k] # Absent,
             \A j \in 1..Len(layers) : p < j => layers[j][k] = Absent,
             Newest(layers, k) = layers[p][k]
      PROVE  Live(Newest(new, k)) = Live(layers[p][k])
  <2>0. ASSUME NEW i \in 1..Len(new), i > start, p < i + m - 1
        PROVE  new[i][k] = Absent
    <3>1. i + m - 1 \in 1..Len(layers)
      BY <1>1, <2>0
    <3> QED BY <2>0, <3>1, <1>6
  <2>1. CASE p > last
    <3> DEFINE q == p - m + 1
    <3>1. q \in 1..Len(new) /\ q > start /\ q + m - 1 = p
      BY <2>1, <1>1 DEF last
    <3> HIDE DEF q
    <3>2. new[q] = layers[p]
      BY <3>1
    <3>3. ASSUME NEW i \in 1..Len(new), q < i
          PROVE  new[i][k] = Absent
      <4>1. i > start /\ p < i + m - 1
        BY <3>1, <3>3, <1>1
      <4> QED BY <4>1, <2>0
    <3>4. new[q][k] # Absent
      BY <3>2, <1>6
    <3>5. \A i \in 1..Len(new) : q < i => new[i][k] = Absent
      BY ONLY <3>3
    <3>6. Newest(new, k) = new[q][k]
      BY ONLY <3>1, <3>4, <3>5, Len(new) \in Nat, NewestIs
    <3> QED BY <3>2, <3>6
  <2>2. CASE p < start
    <3>1. ASSUME NEW i \in 1..m
          PROVE  slice[i][k] = Absent
      <4>1. p < start + i - 1
        BY <2>2
      <4> QED BY <4>1, <1>4, <1>6
    <3>2. e = Absent
      BY <3>1, NewestAbsent DEF e
    <3>3. p \in 1..Len(new) /\ new[p] = layers[p]
      <4>1. p \in 1..Len(new)
        BY <2>2, <1>1
      <4> QED BY <4>1, <2>2
    <3>4. ASSUME NEW i \in 1..Len(new), p < i
          PROVE  new[i][k] = Absent
      <4>1. CASE i = start
        BY <4>1, <1>2, <3>2
      <4>2. CASE i < start
        <5>1. i \in 1..Len(layers)
          BY <4>2, <1>1
        <5> QED BY <4>2, <5>1, <3>4, <1>6
      <4>3. CASE i > start
        <5>1. p < i + m - 1
          BY <4>3, <3>4
        <5> QED BY <4>3, <5>1, <2>0
      <4> QED BY <4>1, <4>2, <4>3, <1>1
    <3>5. new[p][k] # Absent
      BY <3>3, <1>6
    <3>6. \A i \in 1..Len(new) : p < i => new[i][k] = Absent
      BY ONLY <3>4
    <3>7. Newest(new, k) = new[p][k]
      BY ONLY <3>3, <3>5, <3>6, Len(new) \in Nat, NewestIs
    <3> QED BY <3>3, <3>7
  <2>3. CASE start <= p /\ p <= last
    <3> DEFINE q == p - start + 1
    <3>1. q \in 1..m /\ slice[q] = layers[p]
      BY <2>3, <1>3
    <3>2. ASSUME NEW i \in 1..m, q < i
          PROVE  slice[i][k] = Absent
      <4>1. p < start + i - 1
        BY <3>2
      <4> QED BY <4>1, <1>4, <1>6
    <3>3. q \in 1..Len(slice)
      BY <3>1
    <3> HIDE DEF q
    <3>4. Newest(slice, k) = layers[p][k]
      <4>1. slice[q][k] # Absent /\ \A j \in 1..Len(slice) : q < j => slice[j][k] = Absent
        BY <3>1, <3>2, <1>6
      <4>2. Newest(slice, k) = slice[q][k]
        BY ONLY <4>1, <3>3, Len(slice) \in Nat, NewestIs
      <4> QED BY <4>2, <3>1
    <3>5. ASSUME NEW i \in 1..Len(new), start < i
          PROVE  new[i][k] = Absent
      <4>1. p < i + m - 1
        BY <3>5, <2>3, <1>1 DEF last
      <4> QED BY <4>1, <3>5, <2>0
    <3>6. CASE e # Absent
      <4>0. new[start][k] # Absent
        BY <3>6, <1>2
      <4>1. start \in 1..Len(new) /\ \A i \in 1..Len(new) : start < i => new[i][k] = Absent
        BY <3>5, <1>1
      <4>3. Newest(new, k) = new[start][k]
        BY ONLY <4>0, <4>1, Len(new) \in Nat, NewestIs
      <4>2. e = layers[p][k]
        BY <3>4, <3>6 DEF e
      <4> QED BY <4>2, <4>3, <1>2
    <3>7. CASE e = Absent
      <4>1. start = 1 /\ layers[p][k] = Empty
        BY <3>4, <3>7, <1>6 DEF e
      <4>2. \A i \in 1..Len(new) : new[i][k] = Absent
        BY <4>1, <3>5, <3>7, <1>1, <1>2
      <4>3. Newest(new, k) = Absent
        BY <4>2, NewestAbsent
      <4> QED BY <4>1, <4>3, SegmentsAssumption DEF Live
    <3> QED BY <3>6, <3>7
  <2> QED BY <2>1, <2>2, <2>3, <1>1
<1>7. Len(layers) \in Nat
  OBVIOUS
<1>8. \/ /\ \A j \in 1..Len(layers) : layers[j][k] = Absent
         /\ Newest(layers, k) = Absent
      \/ \E i \in 1..Len(layers) :
           /\ layers[i][k] # Absent
           /\ \A j \in 1..Len(layers) : i < j => layers[j][k] = Absent
           /\ Newest(layers, k) = layers[i][k]
  BY ONLY <1>7, NewestCases
<1> QED BY ONLY <1>5, <1>6, <1>8

\* A get that meets no removal of its key finds what the key reads as
\* (MultiSegment::get against MultiSegment::Iterator).
LEMMA MultiGetIsView ==
  ASSUME NEW layers, Len(layers) \in Nat, NEW k \in Key,
         \A i \in 1..Len(layers) : layers[i][k] \in Entry,
         \A i \in 1..Len(layers) : layers[i][k] # Empty
  PROVE  MultiGet(layers, k) = View(layers)[k]
<1> DEFINE hits == {i \in 1..Len(layers) : layers[i][k] \in Value}
<1>1. \A i \in 1..Len(layers) : layers[i][k] \in Value <=> layers[i][k] # Absent
  BY SegmentsAssumption DEF Entry
<1>2. hits = Defining(layers, k)
  BY <1>1 DEF Defining
<1>3. View(layers)[k] = Live(Newest(layers, k))
  BY DEF View
<1>4. CASE hits = {}
  <2>1. MultiGet(layers, k) = Empty
    BY <1>4 DEF MultiGet
  <2>2. Newest(layers, k) = Absent
    BY <1>2, <1>4 DEF Newest
  <2> QED BY <1>3, <2>1, <2>2, SegmentsAssumption DEF Live
<1>5. CASE hits # {}
  <2>1. MultiGet(layers, k) = layers[MaxOf(hits)][k]
    BY <1>5 DEF MultiGet
  <2>2. Newest(layers, k) = layers[MaxOf(hits)][k]
    BY <1>2, <1>5 DEF Newest
  <2>3. hits \in SUBSET (1..Len(layers))
    OBVIOUS
  <2>4. MaxOf(hits) \in hits
    <3> HIDE DEF hits
    <3> QED BY <1>5, <2>3, MaxOfProperties
  <2> QED BY <1>3, <2>1, <2>2, <2>4 DEF Live
<1> QED BY <1>4, <1>5

\* A get finds an entry written to the newest segment it searches.
LEMMA MultiGetTop ==
  ASSUME NEW layers, Len(layers) \in Nat, Len(layers) >= 1, NEW k,
         layers[Len(layers)][k] \in Value
  PROVE  MultiGet(layers, k) = layers[Len(layers)][k]
<1> DEFINE hits == {i \in 1..Len(layers) : layers[i][k] \in Value}
<1>1. Len(layers) \in hits /\ hits \in SUBSET (1..Len(layers))
  OBVIOUS
<1>2. \A j \in hits : j <= Len(layers)
  OBVIOUS
<1>3. MaxOf(hits) = Len(layers)
  <2> HIDE DEF hits
  <2> QED BY <1>1, <1>2, MaxOfIs
<1> QED BY <1>1, <1>3 DEF MultiGet

\* Segments with the same entries of a key give the same answer for it.
LEMMA MultiGetSame ==
  ASSUME NEW a, NEW b, NEW k, Len(a) \in Nat, Len(a) = Len(b),
         \A i \in 1..Len(a) : a[i][k] = b[i][k]
  PROVE  MultiGet(a, k) = MultiGet(b, k)
<1> DEFINE hits(layers) == {i \in 1..Len(layers) : layers[i][k] \in Value}
<1>1. hits(a) = hits(b)
  OBVIOUS
<1>2. CASE hits(a) = {}
  BY <1>1, <1>2 DEF MultiGet
<1>3. CASE hits(a) # {}
  <2>1. hits(a) \in SUBSET (1..Len(a))
    OBVIOUS
  <2>2. MaxOf(hits(a)) \in hits(a)
    <3> HIDE DEF hits
    <3> QED BY <1>3, <2>1, MaxOfProperties
  <2>3. MultiGet(a, k) = a[MaxOf(hits(a))][k] /\ MultiGet(b, k) = b[MaxOf(hits(b))][k]
    BY <1>1, <1>3 DEF MultiGet
  <2> QED BY <1>1, <2>2, <2>3
<1> QED BY <1>2, <1>3

-----------------------------------------------------------------------------
(* Lists of segments, and what they hold in a heap.                        *)

\* What a list of segments holds when the heap is h.
Stack(h, chain) == [i \in 1..Len(chain) |-> h[chain[i]]]

LEMMA StackProperties ==
  ASSUME NEW S, NEW chain \in Seq(S), NEW h
  PROVE  /\ Len(Stack(h, chain)) = Len(chain) /\ Len(chain) \in Nat
         /\ \A i \in 1..Len(chain) : Stack(h, chain)[i] = h[chain[i]]
<1> DEFINE T == {h[chain[i]] : i \in 1..Len(chain)}
<1>1. Len(chain) \in Nat
  OBVIOUS
<1>2. Stack(h, chain) \in [1..Len(chain) -> T]
  BY DEF Stack
<1>3. Stack(h, chain) \in Seq(T)
  BY <1>1, <1>2, SeqDef
<1>4. Len(Stack(h, chain)) = Len(chain)
  BY <1>1, <1>2, <1>3, LenProperties
<1> QED BY <1>1, <1>4 DEF Stack

LEMMA StackSame ==
  ASSUME NEW chain, NEW g, NEW h, \A i \in 1..Len(chain) : g[chain[i]] = h[chain[i]]
  PROVE  Stack(g, chain) = Stack(h, chain)
BY DEF Stack

\* What takes the place of a slice of the list holds the same as the slice,
\* removed keys apart that no older segment can bring back.
LEMMA ViewOfSplice ==
  ASSUME NEW list \in Seq(Ref), NEW part \in Seq(Ref), NEW start, NEW target \in Ref,
         IsSlice(list, start, part), NEW h, NEW purge, purge => start = 1,
         h[target] = Merged(Stack(h, part), purge)
  PROVE  View(Stack(h, Splice(list, start, part, target))) = View(Stack(h, list))
<1> DEFINE spliced == Splice(list, start, part, target)
           m == Len(part)
           old == Stack(h, list)
           new == Stack(h, spliced)
           slice == Stack(h, part)
<1>1. /\ spliced \in Seq(Ref) /\ Len(spliced) = Len(list) - m + 1
      /\ \A i \in 1..Len(spliced) :
           /\ i < start => spliced[i] = list[i]
           /\ i = start => spliced[i] = target
           /\ i > start => /\ i + m - 1 \in 1..Len(list)
                           /\ spliced[i] = list[i + m - 1]
  BY SpliceProperties
<1> HIDE DEF spliced
<1>2. /\ start \in Nat /\ start >= 1 /\ m \in Nat /\ m >= 1 /\ Len(list) \in Nat
      /\ start + m - 1 <= Len(list)
      /\ \A i \in 1..m : part[i] = list[start + i - 1]
  BY DEF IsSlice
<1>3. Len(old) = Len(list) /\ \A i \in 1..Len(list) : old[i] = h[list[i]]
  BY StackProperties
<1>4. Len(slice) = m /\ \A i \in 1..m : slice[i] = h[part[i]]
  BY StackProperties
<1>5. Len(new) = Len(spliced) /\ \A i \in 1..Len(spliced) : new[i] = h[spliced[i]]
  BY <1>1, StackProperties
<1>6. h[target] = Merged(slice, purge)
  OBVIOUS
<1> HIDE DEF m, old, new, slice
<1>7. \A i \in 1..m : slice[i] = old[start + i - 1]
  <2> TAKE i \in 1..m
  <2>1. start + i - 1 \in 1..Len(list)
    BY <1>2
  <2>2. old[start + i - 1] = h[list[start + i - 1]]
    BY <1>3, <2>1
  <2>3. slice[i] = h[part[i]] /\ part[i] = list[start + i - 1]
    BY <1>2, <1>4
  <2> QED BY <2>2, <2>3
<1>8. ASSUME NEW i \in 1..Len(new)
      PROVE  /\ i < start => new[i] = old[i]
             /\ i = start => new[i] = Merged(slice, purge)
             /\ i > start => new[i] = old[i + m - 1]
  <2>1. i \in 1..Len(spliced) /\ i \in Nat /\ new[i] = h[spliced[i]]
    BY <1>5
  <2>2. ASSUME i < start PROVE new[i] = old[i]
    <3>1. i \in 1..Len(list)
      BY <2>1, <2>2, <1>2
    <3>2. old[i] = h[list[i]]
      BY <1>3, <3>1
    <3> QED BY <2>1, <2>2, <3>2, <1>1
  <2>3. ASSUME i = start PROVE new[i] = Merged(slice, purge)
    BY <2>1, <2>3, <1>1, <1>6
  <2>4. ASSUME i > start PROVE new[i] = old[i + m - 1]
    <3>1. i + m - 1 \in 1..Len(list) /\ spliced[i] = list[i + m - 1]
      BY <2>1, <2>4, <1>1
    <3>2. old[i + m - 1] = h[list[i + m - 1]]
      BY <1>3, <3>1
    <3> QED BY <2>1, <3>1, <3>2
  <2> QED BY <2>2, <2>3, <2>4
<1>9. /\ Len(old) \in Nat /\ start + m - 1 <= Len(old) /\ Len(slice) = m
      /\ Len(new) = Len(old) - m + 1
  BY <1>1, <1>2, <1>3, <1>4, <1>5
<1>10. \A i \in 1..Len(new) : /\ i < start => new[i] = old[i]
                              /\ i = start => new[i] = Merged(slice, purge)
                              /\ i > start => new[i] = old[i + m - 1]
  BY <1>8
<1>11. ReplacesMerged(old, start, m, slice, purge, new)
  BY <1>2, <1>7, <1>9, <1>10 DEF ReplacesMerged
<1>12. View(new) = View(old)
  BY <1>11, ViewOfMerge
<1> QED BY <1>12 DEF new, old, spliced

\* The segments of a list after one more has joined it.
LEMMA MembersOfAppend ==
  ASSUME NEW S, NEW s \in Seq(S), NEW x \in S
  PROVE  Members(Append(s, x)) = Members(s) \cup {x}
<1>1. /\ Len(Append(s, x)) = Len(s) + 1 /\ Len(s) \in Nat
      /\ \A i \in 1..Len(s) : Append(s, x)[i] = s[i]
      /\ Append(s, x)[Len(s) + 1] = x
  BY AppendProperties
<1>2. ASSUME NEW y \in Members(Append(s, x))
      PROVE  y \in Members(s) \cup {x}
  <2>1. PICK i \in 1..(Len(s) + 1) : y = Append(s, x)[i]
    BY <1>1 DEF Members
  <2>2. i \in 1..Len(s) \/ i = Len(s) + 1
    BY <1>1
  <2> QED BY <1>1, <2>1, <2>2 DEF Members
<1>3. ASSUME NEW i \in 1..Len(s)
      PROVE  s[i] \in Members(Append(s, x))
  <2>1. i \in 1..Len(Append(s, x))
    BY <1>1
  <2> QED BY <1>1, <2>1 DEF Members
<1>4. x \in Members(Append(s, x))
  <2>1. Len(s) + 1 \in 1..Len(Append(s, x))
    BY <1>1
  <2> QED BY <1>1, <2>1 DEF Members
<1> QED BY <1>2, <1>3, <1>4 DEF Members

\* The members of a list are finitely many.
LEMMA MembersFinite ==
  ASSUME NEW S, NEW s \in Seq(S)
  PROVE  IsFiniteSet(Members(s))
<1>1. Len(s) \in Nat /\ s \in [1..Len(s) -> Members(s)]
  BY LenProperties DEF Members
<1>2. s \in Surjection(1..Len(s), Members(s))
  BY <1>1 DEF Surjection, Members
<1>3. IsFiniteSet(1..Len(s))
  BY <1>1, FS_Interval
<1> QED BY <1>2, <1>3, FS_Surjection

\* In an ordered list no segment occurs twice.
LEMMA AscendingOnce ==
  ASSUME NEW list \in Seq(Ref), Ascending(list),
         NEW i \in 1..Len(list), NEW j \in 1..Len(list), list[i] = list[j]
  PROVE  i = j
<1>1. list[i][1] \in Nat /\ list[i][2] \in Nat /\ list[i][1] <= list[i][2]
  BY AscendingPositions
<1>2. i <= j /\ j <= i
  BY <1>1, AscendingPositions
<1> QED BY <1>2

\* The segments of a list after a slice was replaced (mergeSegments0).
LEMMA MembersOfSplice ==
  ASSUME NEW list \in Seq(Ref), NEW slice \in Seq(Ref), NEW start, NEW target \in Ref,
         Ascending(list), IsSlice(list, start, slice)
  PROVE  Members(Splice(list, start, slice, target))
           = (Members(list) \ Members(slice)) \cup {target}
<1> DEFINE new == Splice(list, start, slice, target)
           m == Len(slice)
<1>1. /\ Len(new) = Len(list) - m + 1
      /\ \A i \in 1..Len(new) :
           /\ i < start => new[i] = list[i]
           /\ i = start => new[i] = target
           /\ i > start => /\ i + m - 1 \in 1..Len(list)
                           /\ new[i] = list[i + m - 1]
  <2>1. new = Splice(list, start, slice, target) /\ m = Len(slice)
    OBVIOUS
  <2> HIDE DEF new, m
  <2>2. Len(new) = Len(list) - m + 1
    BY ONLY <2>1, SplicedLength, IsSlice(list, start, slice), list \in Seq(Ref),
       slice \in Seq(Ref), target \in Ref
  <2>3. ASSUME NEW i \in 1..Len(new)
        PROVE  /\ i < start => new[i] = list[i]
               /\ i = start => new[i] = target
               /\ i > start => /\ i + m - 1 \in 1..Len(list)
                               /\ new[i] = list[i + m - 1]
    BY ONLY <2>1, <2>3, SplicedProperties, IsSlice(list, start, slice), list \in Seq(Ref),
       slice \in Seq(Ref), target \in Ref
  <2> QED BY <2>2, <2>3
<1>2. /\ m \in Nat /\ m >= 1 /\ start \in Nat /\ start >= 1 /\ Len(list) \in Nat
      /\ start + m - 1 <= Len(list)
      /\ \A i \in 1..m : slice[i] = list[start + i - 1]
  BY DEF IsSlice
<1> HIDE DEF new, m
\* The positions of the slice hold its segments, and no other position does.
<1>3. ASSUME NEW j \in 1..Len(list)
      PROVE  list[j] \in Members(slice) <=> start <= j /\ j <= start + m - 1
  <2>1. ASSUME start <= j, j <= start + m - 1
        PROVE  list[j] \in Members(slice)
    <3>1. j - start + 1 \in 1..m /\ start + (j - start + 1) - 1 = j
      BY <1>2, <2>1
    <3>2. slice[j - start + 1] = list[j]
      BY <1>2, <3>1
    <3> QED BY <3>1, <3>2 DEF Members, m
  <2>2. ASSUME list[j] \in Members(slice)
        PROVE  start <= j /\ j <= start + m - 1
    <3>1. PICK i \in 1..m : list[j] = slice[i]
      BY <2>2 DEF Members, m
    <3>2. start + i - 1 \in 1..Len(list) /\ list[j] = list[start + i - 1]
      BY <1>2, <3>1
    <3>3. j = start + i - 1
      BY <3>2, AscendingOnce
    <3> QED BY <1>2, <3>3
  <2> QED BY <2>1, <2>2
<1>4. ASSUME NEW y \in Members(new)
      PROVE  y \in (Members(list) \ Members(slice)) \cup {target}
  <2>1. PICK i \in 1..Len(new) : y = new[i]
    BY DEF Members
  <2>2. i \in Nat /\ i >= 1 /\ i <= Len(list) - m + 1
    BY <1>1, <1>2
  <2>3. CASE i < start
    <3>1. i \in 1..Len(list) /\ ~(start <= i) /\ y = list[i]
      BY <1>1, <1>2, <2>1, <2>2, <2>3
    <3> QED BY <1>3, <3>1 DEF Members
  <2>4. CASE i = start
    BY <1>1, <2>1, <2>4
  <2>5. CASE i > start
    <3>1. i + m - 1 \in 1..Len(list) /\ y = list[i + m - 1]
      BY <1>1, <2>1, <2>5
    <3>2. ~(i + m - 1 <= start + m - 1)
      BY <1>2, <2>2, <2>5
    <3> QED BY <1>3, <3>1, <3>2 DEF Members
  <2> QED BY <1>2, <2>2, <2>3, <2>4, <2>5
<1>5. ASSUME NEW y \in Members(list), y \notin Members(slice)
      PROVE  y \in Members(new)
  <2>1. PICK j \in 1..Len(list) : y = list[j]
    BY DEF Members
  <2>2. j < start \/ j > start + m - 1
    BY <1>2, <1>3, <1>5, <2>1
  <2>3. CASE j < start
    <3>1. j \in 1..Len(new) /\ new[j] = y
      BY <1>1, <1>2, <2>1, <2>3
    <3> QED BY <3>1 DEF Members
  <2>4. CASE j > start + m - 1
    <3>1. j - m + 1 \in 1..Len(new) /\ j - m + 1 > start /\ (j - m + 1) + m - 1 = j
      BY <1>1, <1>2, <2>4
    <3>2. new[j - m + 1] = y
      BY <1>1, <2>1, <3>1
    <3> QED BY <3>1, <3>2 DEF Members
  <2> QED BY <2>2, <2>3, <2>4
<1>6. target \in Members(new)
  <2>1. start \in 1..Len(new) /\ new[start] = target
    BY <1>1, <1>2
  <2> QED BY <2>1 DEF Members
<1> QED BY <1>4, <1>5, <1>6 DEF new

LEMMA WithinTransitive ==
  ASSUME NEW r \in Ref, NEW s \in Ref, NEW t \in Ref, Within(r, s), Within(s, t)
  PROVE  Within(r, t)
BY DEF Within, Ref

-----------------------------------------------------------------------------
(* The segments that openImpl finds, sorted (loadDiskSegments).            *)

\* segmentCompare orders the names of segments.
LEMMA SegmentLessOrder ==
  ASSUME NEW f \in Ref, NEW g \in Ref, NEW h \in Ref
  PROVE  /\ ~SegmentLess(f, f)
         /\ SegmentLess(f, g) /\ SegmentLess(g, h) => SegmentLess(f, h)
         /\ f # g => SegmentLess(f, g) \/ SegmentLess(g, f)
         /\ SegmentLess(f, g) => f[2] <= g[2]
<1>1. /\ f[1] \in Nat /\ f[2] \in Nat /\ g[1] \in Nat /\ g[2] \in Nat
      /\ h[1] \in Nat /\ h[2] \in Nat
      /\ f = <<f[1], f[2]>> /\ g = <<g[1], g[2]>>
  BY DEF Ref
<1>2. ~SegmentLess(f, f) /\ (SegmentLess(f, g) => f[2] <= g[2])
  BY <1>1 DEF SegmentLess
<1>3. SegmentLess(f, g) /\ SegmentLess(g, h) => SegmentLess(f, h)
  BY <1>1 DEF SegmentLess
<1>4. f # g => f[1] # g[1] \/ f[2] # g[2]
  BY <1>1
<1>5. f # g => SegmentLess(f, g) \/ SegmentLess(g, f)
  BY <1>1, <1>4 DEF SegmentLess
<1> QED BY <1>2, <1>3, <1>5

Before(refs, f) == {g \in refs : SegmentLess(g, f)}

LEMMA RankProperties ==
  ASSUME NEW refs \in SUBSET Ref, IsFiniteSet(refs), NEW f \in refs
  PROVE  /\ Cardinality(Before(refs, f)) \in 0..(Cardinality(refs) - 1)
         /\ \A g \in refs : SegmentLess(f, g) =>
              Cardinality(Before(refs, f)) < Cardinality(Before(refs, g))
<1>1. ASSUME NEW g \in refs
      PROVE  /\ IsFiniteSet(Before(refs, g)) /\ Cardinality(Before(refs, g)) \in Nat
             /\ f \notin Before(refs, f)
  <2>1. Before(refs, g) \in SUBSET refs
    BY DEF Before
  <2>2. f \notin Before(refs, f)
    BY SegmentLessOrder DEF Before
  <2> QED BY <2>1, <2>2, FS_Subset, FS_CardinalityType
<1>2. Cardinality(Before(refs, f)) <= Cardinality(refs) - 1
  <2>1. IsFiniteSet(refs \ {f}) /\ Cardinality(refs \ {f}) = Cardinality(refs) - 1
    BY FS_RemoveElement
  <2>2. Before(refs, f) \in SUBSET (refs \ {f})
    BY <1>1 DEF Before
  <2>3. Cardinality(Before(refs, f)) <= Cardinality(refs \ {f})
    BY <2>1, <2>2, FS_Subset
  <2> QED BY <2>1, <2>3
<1>3. ASSUME NEW g \in refs, SegmentLess(f, g)
      PROVE  Cardinality(Before(refs, f)) < Cardinality(Before(refs, g))
  <2>1. Before(refs, f) \in SUBSET Before(refs, g)
    <3> SUFFICES ASSUME NEW e \in refs, SegmentLess(e, f) PROVE SegmentLess(e, g)
      BY DEF Before
    <3> QED BY <1>3, SegmentLessOrder
  <2>2. f \in Before(refs, g) /\ f \notin Before(refs, f)
    BY <1>1, <1>3 DEF Before
  <2>3. /\ Cardinality(Before(refs, f)) <= Cardinality(Before(refs, g))
        /\ Cardinality(Before(refs, g)) # Cardinality(Before(refs, f))
    <3>1. IsFiniteSet(Before(refs, g))
      BY <1>1
    <3> QED BY ONLY <3>1, <2>1, <2>2, FS_Subset
  <2>4. Cardinality(Before(refs, f)) \in Nat /\ Cardinality(Before(refs, g)) \in Nat
    BY <1>1
  <2> QED BY <2>3, <2>4
<1>4. Cardinality(refs) \in Nat
  BY FS_CardinalityType
<1> QED BY <1>1, <1>2, <1>3, <1>4

\* The sort of loadDiskSegments: every segment once, in ascending order.
LEMMA SortedProperties ==
  ASSUME NEW refs \in SUBSET Ref, IsFiniteSet(refs)
  PROVE  LET s == SortedByAge(refs)
         IN  /\ s \in Seq(Ref)
             /\ \A i \in 1..Len(s) : s[i] \in refs
             /\ \A f \in refs : \E i \in 1..Len(s) : s[i] = f
             /\ \A i, j \in 1..Len(s) : i < j => SegmentLess(s[i], s[j])
<1> DEFINE n == Cardinality(refs)
           s == SortedByAge(refs)
           rank == [f \in refs |-> Cardinality(Before(refs, f)) + 1]
<1>1. n \in Nat /\ IsFiniteSet(1..n) /\ Cardinality(1..n) = n
  <2>1. n \in Nat
    BY FS_CardinalityType
  <2>2. IsFiniteSet(1..n) /\ Cardinality(1..n) = IF 1 > n THEN 0 ELSE n - 1 + 1
    BY <2>1, FS_Interval
  <2> QED BY <2>1, <2>2
<1>2. \A f \in refs : Cardinality(Before(refs, f)) + 1 \in 1..n
  <2> TAKE f \in refs
  <2>1. Cardinality(Before(refs, f)) \in 0..(n - 1)
    BY RankProperties
  <2> QED BY <1>1, <2>1
<1>3. ASSUME NEW f \in refs, NEW g \in refs, f # g
      PROVE  /\ SegmentLess(f, g) => rank[f] < rank[g]
             /\ SegmentLess(g, f) => rank[g] < rank[f]
             /\ rank[f] \in Nat /\ rank[g] \in Nat
             /\ rank[f] # rank[g]
  <2>1. /\ Cardinality(Before(refs, f)) \in Nat /\ Cardinality(Before(refs, g)) \in Nat
        /\ SegmentLess(f, g) => Cardinality(Before(refs, f)) < Cardinality(Before(refs, g))
        /\ SegmentLess(g, f) => Cardinality(Before(refs, g)) < Cardinality(Before(refs, f))
    BY RankProperties
  <2>2. SegmentLess(f, g) \/ SegmentLess(g, f)
    BY <1>3, SegmentLessOrder
  <2> QED BY <2>1, <2>2
<1>4. rank \in Injection(refs, 1..n)
  <2>1. rank \in [refs -> 1..n]
    BY <1>2
  <2> QED BY <1>3, <2>1 DEF Injection, IsInjective
<1>5. rank \in Surjection(refs, 1..n)
  <2> HIDE DEF rank
  <2> QED BY <1>1, <1>4, FS_Injection
<1>6. ASSUME NEW i \in 1..n
      PROVE  s[i] \in refs /\ rank[s[i]] = i
  <2>1. PICK f \in refs : rank[f] = i
    <3> HIDE DEF rank
    <3> QED BY <1>5 DEF Surjection
  <2>2. Cardinality({g \in refs : SegmentLess(g, f)}) = i - 1
    <3>1. Cardinality(Before(refs, f)) \in Nat /\ Cardinality(Before(refs, f)) + 1 = i
      BY <2>1, RankProperties
    <3> QED BY <3>1 DEF Before
  <2>3. s[i] = CHOOSE e \in refs : Cardinality({g \in refs : SegmentLess(g, e)}) = i - 1
    BY DEF SortedByAge
  <2> HIDE DEF s
  <2>4. s[i] \in refs /\ Cardinality({g \in refs : SegmentLess(g, s[i])}) = i - 1
    BY <2>2, <2>3
  <2>5. Cardinality(Before(refs, s[i])) = i - 1
    BY <2>4 DEF Before
  <2> QED BY <2>4, <2>5
<1>7. s \in Seq(Ref) /\ Len(s) = n
  <2>1. s \in [1..n -> Ref]
    <3>1. \A i \in 1..n : s[i] \in Ref
      BY <1>6
    <3> QED BY <3>1 DEF SortedByAge
  <2> QED BY <1>1, <2>1, SeqDef, LenProperties
<1> HIDE DEF s
<1>8. ASSUME NEW f \in refs
      PROVE  \E i \in 1..n : s[i] = f
  <2> DEFINE i == rank[f]
  <2>1. i \in 1..n
    BY <1>2
  <2>2. s[i] \in refs /\ rank[s[i]] = i
    BY <1>6, <2>1
  <2>3. s[i] = f
    <3> HIDE DEF rank
    <3> QED BY <2>2, <1>3
  <2> QED BY <2>1, <2>3
<1>9. ASSUME NEW i \in 1..n, NEW j \in 1..n, i < j
      PROVE  SegmentLess(s[i], s[j])
  <2>1. s[i] \in refs /\ s[j] \in refs /\ rank[s[i]] = i /\ rank[s[j]] = j
    BY <1>6
  <2> HIDE DEF rank
  <2>2. s[i] # s[j]
    BY <1>9, <2>1
  <2>3. ~SegmentLess(s[j], s[i])
    BY <1>3, <1>9, <2>1, <2>2
  <2> QED BY <2>1, <2>2, <2>3, SegmentLessOrder
<1> QED BY <1>6, <1>7, <1>8, <1>9 DEF s

\* In a list that ascends no segment covers another.
LEMMA AscendingApart ==
  ASSUME NEW list \in Seq(Ref), Ascending(list),
         NEW i \in 1..Len(list), NEW j \in 1..Len(list), Within(list[i], list[j])
  PROVE  i = j
<1>1. j <= i /\ i <= j
  BY AscendingPositions DEF Within
<1> QED BY <1>1

-----------------------------------------------------------------------------
(* Segments that overlap.  Each segment stands for a range of the positions of *)
(* a stack base, whose contents it was merged from.                            *)

\* The content c reads for the key k as the contents of base from position s[1]
\* up to position s[2]; a removed key may have been left out if s begins with
\* the oldest of them.
Holds(c, base, s, k) ==
  \/ /\ \A i \in s[1]..s[2] : base[i][k] = Absent
     /\ c[k] = Absent
  \/ \E m \in s[1]..s[2] :
       /\ base[m][k] # Absent
       /\ \A i \in s[1]..s[2] : m < i => base[i][k] = Absent
       /\ c[k] = base[m][k] \/ (c[k] = Absent /\ base[m][k] = Empty /\ s[1] = 1)

\* Each of layers stands for its span of base.
StandFor(layers, spans, base, k) ==
  /\ spans \in Seq(Ref) /\ Ascending(spans)
  /\ Len(layers) = Len(spans)
  /\ \A i \in 1..Len(spans) : spans[i][1] >= 1 /\ Holds(layers[i], base, spans[i], k)

\* A segment whose span ends behind the top entry m of the key, or holds it.
LEMMA HoldsTop ==
  ASSUME NEW c, NEW base, NEW s \in Ref, NEW k, Holds(c, base, s, k),
         NEW m \in Nat, base[m][k] # Absent,
         \A j \in s[1]..s[2] : m < j => base[j][k] = Absent
  PROVE  /\ s[1] <= m /\ m <= s[2] =>
              c[k] = base[m][k] \/ (c[k] = Absent /\ base[m][k] = Empty /\ s[1] = 1)
         /\ m < s[1] => c[k] = Absent
<1>1. s[1] \in Nat /\ s[2] \in Nat
  BY DEF Ref
<1>2. ASSUME s[1] <= m, m <= s[2]
      PROVE  c[k] = base[m][k] \/ (c[k] = Absent /\ base[m][k] = Empty /\ s[1] = 1)
  <2>1. m \in s[1]..s[2]
    BY <1>1, <1>2
  <2>2. PICK i \in s[1]..s[2] :
          /\ base[i][k] # Absent
          /\ \A j \in s[1]..s[2] : i < j => base[j][k] = Absent
          /\ c[k] = base[i][k] \/ (c[k] = Absent /\ base[i][k] = Empty /\ s[1] = 1)
    BY <2>1 DEF Holds
  <2>3. i \in Nat /\ ~(i < m) /\ ~(m < i)
    BY <1>1, <2>1, <2>2
  <2>4. i = m
    BY <2>3
  <2> QED BY <2>2, <2>4
<1>3. ASSUME m < s[1]
      PROVE  c[k] = Absent
  <2>1. \A j \in s[1]..s[2] : base[j][k] = Absent
    BY <1>1, <1>3
  <2> QED BY <2>1 DEF Holds
<1> QED BY <1>2, <1>3

\* Of the spans that hold the top entry of a key the last decides, and what it
\* shows is that entry, or nothing where the entry is a removal.
LEMMA TopOfStack ==
  ASSUME NEW layers, NEW spans, NEW base, NEW k, StandFor(layers, spans, base, k),
         NEW m \in Nat, base[m][k] # Absent,
         NEW p \in 1..Len(spans), spans[p][1] <= m, m <= spans[p][2],
         \A i \in 1..Len(spans) : \A j \in spans[i][1]..spans[i][2] :
           m < j => base[j][k] = Absent
  PROVE  \/ Newest(layers, k) = base[m][k]
         \/ Newest(layers, k) = Absent /\ base[m][k] = Empty /\ spans[1][1] = 1
<1> DEFINE S == {i \in 1..Len(spans) : spans[i][1] <= m /\ m <= spans[i][2]}
           q == MaxOf(S)
<1>0. /\ spans \in Seq(Ref) /\ Ascending(spans) /\ Len(layers) = Len(spans)
      /\ \A i \in 1..Len(spans) : spans[i][1] >= 1 /\ Holds(layers[i], base, spans[i], k)
      /\ Len(spans) \in Nat
      /\ \A i \in 1..Len(spans) : spans[i] \in Ref /\ spans[i][1] \in Nat /\ spans[i][2] \in Nat
  <2>1. spans \in Seq(Ref)
    BY DEF StandFor
  <2>2. \A i \in 1..Len(spans) : spans[i] \in Ref
    BY <2>1
  <2> QED BY <2>1, <2>2 DEF StandFor, Ref
<1>1. q \in S /\ \A j \in S : j <= q
  <2>1. S \in SUBSET (1..Len(spans)) /\ S # {}
    OBVIOUS
  <2> HIDE DEF S
  <2> QED BY <1>0, <2>1, MaxOfProperties
<1> HIDE DEF q
<1>2. ASSUME NEW i \in 1..Len(spans), q < i
      PROVE  layers[i][k] = Absent
  <2>1. i \notin S /\ q \in 1..Len(spans) /\ q \in Nat /\ i \in Nat
    BY <1>0, <1>1, <1>2
  <2>2. spans[q][2] < spans[i][2]
    BY <1>0, <1>2, <2>1 DEF Ascending
  <2>3. m < spans[i][1]
    BY <1>0, <1>1, <2>1, <2>2
  <2>4. spans[i] \in Ref /\ Holds(layers[i], base, spans[i], k)
        /\ \A j \in spans[i][1]..spans[i][2] : m < j => base[j][k] = Absent
    BY <1>0
  <2> QED BY <2>3, <2>4, HoldsTop
<1>3. \/ layers[q][k] = base[m][k]
      \/ layers[q][k] = Absent /\ base[m][k] = Empty /\ spans[q][1] = 1
  <2>1. q \in 1..Len(spans) /\ spans[q][1] <= m /\ m <= spans[q][2]
    BY <1>1
  <2>2. spans[q] \in Ref /\ Holds(layers[q], base, spans[q], k)
        /\ \A j \in spans[q][1]..spans[q][2] : m < j => base[j][k] = Absent
    BY <1>0, <2>1
  <2> QED BY <2>1, <2>2, HoldsTop
<1>4. CASE layers[q][k] = base[m][k]
  <2>1. q \in 1..Len(layers) /\ layers[q][k] # Absent
    BY <1>0, <1>1, <1>4
  <2>2. \A j \in 1..Len(layers) : q < j => layers[j][k] = Absent
    BY <1>0, <1>2
  <2>3. Newest(layers, k) = layers[q][k]
    BY ONLY <1>0, <2>1, <2>2, NewestIs
  <2> QED BY <1>4, <2>3
<1>5. CASE layers[q][k] = Absent /\ base[m][k] = Empty /\ spans[q][1] = 1
  <2>1. q = 1
    <3>1. q \in 1..Len(spans) /\ q \in Nat /\ 1 \in 1..Len(spans)
      BY <1>0, <1>1
    <3>2. spans[1][1] >= 1 /\ spans[1][1] \in Nat
      BY <1>0, <3>1
    <3>3. 1 < q => spans[1][1] < spans[q][1]
      BY <1>0, <3>1 DEF Ascending
    <3> QED BY <1>5, <3>1, <3>2, <3>3
  <2>2. \A j \in 1..Len(layers) : layers[j][k] = Absent
    <3> TAKE j \in 1..Len(layers)
    <3>1. j = 1 \/ q < j
      BY <1>0, <2>1
    <3> QED BY <1>0, <1>2, <1>5, <2>1, <3>1
  <2>3. Newest(layers, k) = Absent
    BY <2>2, NewestAbsent
  <2> QED BY <1>5, <2>1, <2>3
<1> QED BY <1>3, <1>4, <1>5

\* Spans without an entry of a key show none.
LEMMA NothingInStack ==
  ASSUME NEW layers, NEW spans, NEW base, NEW k, StandFor(layers, spans, base, k),
         \A i \in 1..Len(spans) : \A j \in spans[i][1]..spans[i][2] : base[j][k] = Absent
  PROVE  Newest(layers, k) = Absent
<1>1. \A i \in 1..Len(layers) : layers[i][k] = Absent
  <2> TAKE i \in 1..Len(layers)
  <2>1. i \in 1..Len(spans) /\ Holds(layers[i], base, spans[i], k)
    BY DEF StandFor
  <2>2. \A j \in spans[i][1]..spans[i][2] : base[j][k] = Absent
    BY <2>1
  <2> QED BY <2>1, <2>2 DEF Holds
<1> QED BY <1>1, NewestAbsent

\* Segments that leave out no entry of the stack they stand for read as that stack,
\* however they overlap: an entry that one of them shows is not older than what an
\* earlier one shows (loadDiskSegments after a merge that had failed).
LEMMA CoverShows ==
  ASSUME NEW layers, NEW spans, NEW base, NEW k, StandFor(layers, spans, base, k),
         Len(base) \in Nat,
         \A i \in 1..Len(spans) : spans[i][2] <= Len(base),
         \A m \in 1..Len(base) : base[m][k] # Absent =>
           \E i \in 1..Len(spans) : spans[i][1] <= m /\ m <= spans[i][2]
  PROVE  Live(Newest(layers, k)) = Live(Newest(base, k))
<1>0. \A i \in 1..Len(spans) : /\ spans[i][1] \in Nat /\ spans[i][2] \in Nat
                               /\ spans[i][1] >= 1 /\ spans[i][2] <= Len(base)
  <2>1. spans \in Seq(Ref)
    BY DEF StandFor
  <2>2. \A i \in 1..Len(spans) : spans[i] \in Ref
    BY <2>1
  <2> QED BY <2>2 DEF StandFor, Ref
<1>1. CASE \A j \in 1..Len(base) : base[j][k] = Absent
  <2>1. \A i \in 1..Len(spans) : \A j \in spans[i][1]..spans[i][2] : base[j][k] = Absent
    <3> TAKE i \in 1..Len(spans)
    <3> TAKE j \in spans[i][1]..spans[i][2]
    <3>1. j \in 1..Len(base)
      BY <1>0
    <3> QED BY <1>1, <3>1
  <2>2. Newest(layers, k) = Absent
    BY <2>1, NothingInStack
  <2>3. Newest(base, k) = Absent
    BY <1>1, NewestAbsent
  <2> QED BY <2>2, <2>3
<1>2. ASSUME NEW m \in 1..Len(base), base[m][k] # Absent,
             \A j \in 1..Len(base) : m < j => base[j][k] = Absent,
             Newest(base, k) = base[m][k]
      PROVE  Live(Newest(layers, k)) = Live(Newest(base, k))
  <2>1. PICK p \in 1..Len(spans) : spans[p][1] <= m /\ m <= spans[p][2]
    BY <1>2
  <2>2. \A i \in 1..Len(spans) : \A j \in spans[i][1]..spans[i][2] :
          m < j => base[j][k] = Absent
    <3> TAKE i \in 1..Len(spans)
    <3> TAKE j \in spans[i][1]..spans[i][2]
    <3>1. j \in 1..Len(base)
      BY <1>0
    <3> QED BY <1>2, <3>1
  <2>3. m \in Nat
    OBVIOUS
  <2>4. \/ Newest(layers, k) = base[m][k]
        \/ Newest(layers, k) = Absent /\ base[m][k] = Empty
    BY <1>2, <2>1, <2>2, <2>3, TopOfStack
  <2>5. Live(Absent) = Live(Empty)
    BY SegmentsAssumption DEF Live
  <2> QED BY <1>2, <2>4, <2>5
<1> QED BY ONLY <1>1, <1>2, NewestCases, Len(base) \in Nat

\* A merge of neighbours between which nothing is missing stands for the spans of
\* all of them (mergeSegments1).
LEMMA MergeHolds ==
  ASSUME NEW layers, NEW spans, NEW base, NEW k \in Key, StandFor(layers, spans, base, k),
         NEW n, n = Len(spans), n >= 1, NEW purge, purge => spans[1][1] = 1,
         \A m \in spans[1][1]..spans[n][2] : base[m][k] # Absent =>
           \E i \in 1..n : spans[i][1] <= m /\ m <= spans[i][2]
  PROVE  Holds(Merged(layers, purge), base, <<spans[1][1], spans[n][2]>>, k)
<1> DEFINE x == spans[1][1]
           y == spans[n][2]
           c == Merged(layers, purge)
<1>0. /\ n \in Nat /\ 1 \in 1..n /\ n \in 1..n /\ Ascending(spans)
      /\ \A i \in 1..n : spans[i] \in Ref /\ spans[i][1] \in Nat /\ spans[i][2] \in Nat
  <2>1. spans \in Seq(Ref) /\ Ascending(spans)
    BY DEF StandFor
  <2>2. n \in Nat /\ \A i \in 1..n : spans[i] \in Ref
    BY <2>1
  <2> QED BY <2>1, <2>2 DEF Ref
<1>1. c[k] = IF purge /\ Newest(layers, k) = Empty THEN Absent ELSE Newest(layers, k)
  BY DEF Merged
<1>2. ASSUME NEW i \in 1..n
      PROVE  x <= spans[i][1] /\ spans[i][2] <= y
  <2>1. 1 < i => spans[1][1] < spans[i][1]
    BY <1>0 DEF Ascending
  <2>2. i < n => spans[i][2] < spans[n][2]
    BY <1>0 DEF Ascending
  <2>3. i = 1 \/ 1 < i
    BY <1>0
  <2>4. i = n \/ i < n
    BY <1>0
  <2> QED BY <1>0, <2>1, <2>2, <2>3, <2>4
<1>3. x \in Nat /\ y \in Nat
  BY <1>0
<1> HIDE DEF x, y, c
<1>4. CASE \A j \in x..y : base[j][k] = Absent
  <2>1. \A i \in 1..Len(spans) : \A j \in spans[i][1]..spans[i][2] : base[j][k] = Absent
    <3> TAKE i \in 1..Len(spans)
    <3> TAKE j \in spans[i][1]..spans[i][2]
    <3>1. j \in x..y
      BY <1>0, <1>2, <1>3
    <3> QED BY <1>4, <3>1
  <2>2. Newest(layers, k) = Absent
    BY <2>1, NothingInStack
  <2>3. c[k] = Absent
    BY <1>1, <2>2
  <2>4. <<x, y>>[1] = x /\ <<x, y>>[2] = y
    OBVIOUS
  <2> QED BY <1>4, <2>3, <2>4 DEF Holds, x, y, c
<1>5. CASE \E j \in x..y : base[j][k] # Absent
  <2> DEFINE S == {j \in x..y : base[j][k] # Absent}
             m == MaxOf(S)
  <2>1. m \in S /\ \A j \in S : j <= m
    <3>1. x >= 1
      BY <1>0 DEF StandFor, x
    <3>2. S \in SUBSET (1..y) /\ S # {}
      BY <1>3, <1>5, <3>1
    <3> HIDE DEF S
    <3> QED BY <1>3, <3>2, MaxOfProperties
  <2> HIDE DEF m
  <2>2. m \in x..y /\ m \in Nat /\ base[m][k] # Absent
    BY <1>3, <2>1
  <2>3. \A j \in x..y : m < j => base[j][k] = Absent
    <3> SUFFICES ASSUME NEW j \in x..y, m < j, base[j][k] # Absent PROVE FALSE
      OBVIOUS
    <3>1. j <= m
      BY <2>1
    <3> QED BY <1>3, <2>2, <3>1
  <2>4. PICK p \in 1..n : spans[p][1] <= m /\ m <= spans[p][2]
    BY <2>2 DEF x, y
  <2>5. \A i \in 1..Len(spans) : \A j \in spans[i][1]..spans[i][2] :
          m < j => base[j][k] = Absent
    <3> TAKE i \in 1..Len(spans)
    <3> TAKE j \in spans[i][1]..spans[i][2]
    <3>1. j \in x..y
      BY <1>0, <1>2, <1>3
    <3> QED BY <2>3, <3>1
  <2>6. \/ Newest(layers, k) = base[m][k]
        \/ Newest(layers, k) = Absent /\ base[m][k] = Empty /\ spans[1][1] = 1
    BY <2>2, <2>4, <2>5, TopOfStack
  <2>7. c[k] = base[m][k] \/ (c[k] = Absent /\ base[m][k] = Empty /\ x = 1)
    BY <1>1, <2>6, SegmentsAssumption DEF x
  <2>8. <<x, y>>[1] = x /\ <<x, y>>[2] = y
    OBVIOUS
  <2> QED BY <2>2, <2>3, <2>7, <2>8 DEF Holds, x, y, c
<1> QED BY <1>4, <1>5

\* What loadDiskSegments keeps ascends, and covers all that it found.
LEMMA LoadOrderAscends ==
  ASSUME NEW found \in SUBSET Ref, IsFiniteSet(found), \A f \in found : f[1] <= f[2]
  PROVE  /\ LoadOrder(found) \in Seq(Ref) /\ Ascending(LoadOrder(found))
         /\ \A q \in 1..Len(LoadOrder(found)) : LoadOrder(found)[q] \in found
         /\ \A f \in found : \E q \in 1..Len(LoadOrder(found)) : Within(f, LoadOrder(found)[q])
<1> DEFINE tops == {f \in found : ~\E g \in found : SegmentLess(f, g) /\ Within(f, g)}
           s == SortedByAge(tops)
<1>1. LoadOrder(found) = s
  BY DEF LoadOrder
<1>2. tops \in SUBSET Ref /\ IsFiniteSet(tops)
  BY FS_Subset
<1>3. /\ s \in Seq(Ref)
      /\ \A i \in 1..Len(s) : s[i] \in tops
      /\ \A f \in tops : \E i \in 1..Len(s) : s[i] = f
      /\ \A i, j \in 1..Len(s) : i < j => SegmentLess(s[i], s[j])
  <2> HIDE DEF tops
  <2> QED BY <1>2, SortedProperties
<1>4. \A i \in 1..Len(s) : s[i] \in found
  BY <1>3
<1>5. ASSUME NEW f \in found
      PROVE  \E g \in tops : Within(f, g)
  <2> DEFINE over == {g \in found : Within(f, g)}
             t == SortedByAge(over)
  <2>1. over \in SUBSET Ref /\ IsFiniteSet(over)
    BY FS_Subset
  <2>2. /\ t \in Seq(Ref)
        /\ \A i \in 1..Len(t) : t[i] \in over
        /\ \A g \in over : \E i \in 1..Len(t) : t[i] = g
        /\ \A i, j \in 1..Len(t) : i < j => SegmentLess(t[i], t[j])
    <3> HIDE DEF over
    <3> QED BY <2>1, SortedProperties
  <2>3. f \in over
    <3>1. f[1] \in Nat /\ f[2] \in Nat
      BY DEF Ref
    <3> QED BY <3>1 DEF Within
  <2> HIDE DEF t
  <2>4. Len(t) \in Nat /\ Len(t) >= 1
    <3>1. PICK i \in 1..Len(t) : t[i] = f
      BY <2>2, <2>3
    <3>2. Len(t) \in Nat
      BY <2>2
    <3> QED BY <3>1, <3>2
  <2> DEFINE top == t[Len(t)]
  <2>5. top \in over
    BY <2>2, <2>4
  <2>6. ASSUME NEW g \in found, SegmentLess(top, g), Within(top, g)
        PROVE  FALSE
    <3>0. f \in Ref /\ top \in Ref /\ g \in Ref
      BY <2>5
    <3>1. Within(f, g)
      BY <2>5, <2>6, <3>0, WithinTransitive
    <3>2. PICK i \in 1..Len(t) : t[i] = g
      BY <2>2, <3>1
    <3>3. i = Len(t) \/ i < Len(t)
      BY <2>4
    <3>4. i < Len(t) => SegmentLess(g, top)
      BY <2>2, <2>4, <3>2
    <3> HIDE DEF top
    <3>5. ~SegmentLess(g, g) /\ ~(SegmentLess(g, top) /\ SegmentLess(top, g))
      BY <3>0, SegmentLessOrder
    <3>6. i = Len(t) => g = top
      BY <3>2 DEF top
    <3> QED BY <2>6, <3>3, <3>4, <3>5, <3>6
  <2>7. top \in tops
    BY <2>5, <2>6
  <2> QED BY <2>5, <2>7
<1>6. ASSUME NEW f \in found
      PROVE  \E q \in 1..Len(s) : Within(f, s[q])
  <2>1. PICK g \in tops : Within(f, g)
    BY <1>5
  <2>2. PICK q \in 1..Len(s) : s[q] = g
    BY <1>3, <2>1
  <2> QED BY <2>1, <2>2
<1>7. ASSUME NEW i \in 1..Len(s), NEW j \in 1..Len(s), i < j
      PROVE  s[i][1] < s[j][1] /\ s[i][2] < s[j][2]
  <2>1. SegmentLess(s[i], s[j]) /\ s[i] \in tops /\ s[j] \in found
    BY <1>3, <1>4, <1>7
  <2>2. ~Within(s[i], s[j])
    BY <2>1
  <2>3. /\ s[i][1] \in Nat /\ s[i][2] \in Nat /\ s[j][1] \in Nat /\ s[j][2] \in Nat
    <3>1. s[i] \in Ref /\ s[j] \in Ref
      BY <2>1
    <3> HIDE DEF s
    <3> QED BY <3>1 DEF Ref
  <2> HIDE DEF s
  <2> QED BY <2>1, <2>2, <2>3 DEF SegmentLess, Within
<1>8. Ascending(s)
  BY <1>4, <1>7 DEF Ascending
<1> QED BY <1>1, <1>3, <1>4, <1>6, <1>8
-----------------------------------------------------------------------------
(* Segments named after the ends of the ranges of ids they stand for.  names   *)
(* are the segments that no merge has made, h their contents.                  *)

IsSpan(names, r, s) ==
  /\ 1 <= s[1] /\ s[1] <= s[2] /\ s[2] <= Len(names)
  /\ names[s[1]][1] = r[1] /\ names[s[2]][2] = r[2]

\* The content c of the segment r is that of the part of names within its range.
Stands(h, names, r, c) ==
  \E s \in Ref : IsSpan(names, r, s) /\ \A k \in Key : Holds(c, Stack(h, names), s, k)

LEMMA SpanWithin ==
  ASSUME NEW names \in Seq(Ref), Ascending(names), NEW r, NEW s \in Ref,
         IsSpan(names, r, s), NEW m \in 1..Len(names)
  PROVE  s[1] <= m /\ m <= s[2] <=> Within(names[m], r)
<1>1. s[1] \in 1..Len(names) /\ s[2] \in 1..Len(names)
  <2>1. s[1] \in Nat /\ s[2] \in Nat /\ Len(names) \in Nat
    BY DEF Ref
  <2> QED BY <2>1 DEF IsSpan
<1>2. s[1] <= m <=> r[1] <= names[m][1]
  BY <1>1, AscendingPositions DEF IsSpan
<1>3. m <= s[2] <=> names[m][2] <= r[2]
  BY <1>1, AscendingPositions DEF IsSpan
<1> QED BY <1>2, <1>3 DEF Within

\* The ends of a span are positions of names.
LEMMA SpanEnds ==
  ASSUME NEW names \in Seq(Ref), NEW r, NEW s \in Ref, IsSpan(names, r, s)
  PROVE  /\ s[1] \in 1..Len(names) /\ s[2] \in 1..Len(names) /\ s[1] <= s[2]
         /\ names[s[1]][1] = r[1] /\ names[s[2]][2] = r[2]
<1>1. s[1] \in Nat /\ s[2] \in Nat /\ Len(names) \in Nat
  BY DEF Ref
<1> QED BY <1>1 DEF IsSpan

\* Only the contents within the range of a segment matter to it.
LEMMA StandsOn ==
  ASSUME NEW names \in Seq(Ref), Ascending(names), NEW h, NEW g, NEW r, NEW c,
         Stands(h, names, r, c),
         \A m \in 1..Len(names) : Within(names[m], r) => h[names[m]] = g[names[m]]
  PROVE  Stands(g, names, r, c)
<1>1. PICK s \in Ref : IsSpan(names, r, s) /\ \A k \in Key : Holds(c, Stack(h, names), s, k)
  BY DEF Stands
<1>2. \A i \in s[1]..s[2] : Stack(h, names)[i] = Stack(g, names)[i]
  <2> TAKE i \in s[1]..s[2]
  <2>1. i \in 1..Len(names) /\ s[1] <= i /\ i <= s[2]
    <3>1. s[1] \in Nat /\ s[2] \in Nat /\ Len(names) \in Nat
      BY DEF Ref
    <3> QED BY <1>1, <3>1 DEF IsSpan
  <2>2. h[names[i]] = g[names[i]]
    BY <1>1, <2>1, SpanWithin
  <2> QED BY <2>1, <2>2 DEF Stack
<1>3. \A k \in Key : Holds(c, Stack(g, names), s, k)
  <2> TAKE k \in Key
  <2>1. Holds(c, Stack(h, names), s, k)
    BY <1>1
  <2> DEFINE a == Stack(h, names)
             b == Stack(g, names)
  <2>2. \A i \in s[1]..s[2] : a[i][k] = b[i][k]
    BY <1>2
  <2> HIDE DEF a, b
  <2>3. Holds(c, a, s, k) => Holds(c, b, s, k)
    BY <2>2 DEF Holds
  <2> QED BY <2>1, <2>3 DEF a, b
<1> QED BY <1>1, <1>3 DEF Stands

\* A segment that no merge has made stands for itself.
LEMMA StandsItself ==
  ASSUME NEW names \in Seq(Ref), Ascending(names), NEW h, NEW m \in 1..Len(names)
  PROVE  Stands(h, names, names[m], h[names[m]])
<1> DEFINE s == <<m, m>>
<1>1. s \in Ref /\ s[1] = m /\ s[2] = m
  BY DEF Ref
<1> HIDE DEF s
<1>2. IsSpan(names, names[m], s)
  BY <1>1 DEF IsSpan
<1>3. Stack(h, names)[m] = h[names[m]]
  BY DEF Stack
<1>4. \A k \in Key : Holds(h[names[m]], Stack(h, names), s, k)
  <2> TAKE k \in Key
  <2>1. \A i \in s[1]..s[2] : i = m
    BY <1>1
  <2>2. m \in s[1]..s[2] /\ ~(m < m)
    BY <1>1
  <2> QED BY <1>3, <2>1, <2>2 DEF Holds
<1> QED BY <1>1, <1>2, <1>4 DEF Stands

\* A new segment on top leaves the ranges of the others as they are.
LEMMA StandsBelow ==
  ASSUME NEW names \in Seq(Ref), NEW h, NEW r, NEW c, Stands(h, names, r, c), NEW new \in Ref
  PROVE  Stands(h, Append(names, new), r, c)
<1> DEFINE more == Append(names, new)
<1>1. /\ Len(more) = Len(names) + 1 /\ Len(names) \in Nat
      /\ \A i \in 1..Len(names) : more[i] = names[i]
  BY AppendProperties
<1> HIDE DEF more
<1>2. PICK s \in Ref : IsSpan(names, r, s) /\ \A k \in Key : Holds(c, Stack(h, names), s, k)
  BY DEF Stands
<1>3. /\ s[1] \in Nat /\ s[2] \in Nat /\ 1 <= s[1] /\ s[1] <= s[2] /\ s[2] <= Len(names)
      /\ names[s[1]][1] = r[1] /\ names[s[2]][2] = r[2]
  BY <1>2 DEF IsSpan, Ref
<1>4. IsSpan(more, r, s)
  <2>1. s[1] \in 1..Len(names) /\ s[2] \in 1..Len(names)
    BY <1>1, <1>3
  <2>2. more[s[1]] = names[s[1]] /\ more[s[2]] = names[s[2]] /\ s[2] <= Len(more)
    BY <1>1, <1>3, <2>1
  <2> QED BY <1>3, <2>2 DEF IsSpan
<1>5. \A i \in s[1]..s[2] : Stack(h, names)[i] = Stack(h, more)[i]
  <2> TAKE i \in s[1]..s[2]
  <2>1. i \in 1..Len(names) /\ i \in 1..Len(more)
    BY <1>1, <1>3
  <2> QED BY <1>1, <2>1 DEF Stack
<1>6. \A k \in Key : Holds(c, Stack(h, more), s, k)
  <2> TAKE k \in Key
  <2>1. Holds(c, Stack(h, names), s, k)
    BY <1>2
  <2> DEFINE a == Stack(h, names)
             b == Stack(h, more)
  <2>2. \A i \in s[1]..s[2] : a[i][k] = b[i][k]
    BY <1>5
  <2> HIDE DEF a, b
  <2>3. Holds(c, a, s, k) => Holds(c, b, s, k)
    BY <2>2 DEF Holds
  <2> QED BY <2>1, <2>3 DEF a, b
<1> QED BY <1>2, <1>4, <1>6 DEF Stands, more

\* The spans of a list that ascends, ascend.
LEMMA SpansOf ==
  ASSUME NEW names \in Seq(Ref), Ascending(names), NEW h, NEW list \in Seq(Ref),
         Ascending(list), NEW layers, Len(layers) = Len(list),
         \A i \in 1..Len(list) : Stands(h, names, list[i], layers[i])
  PROVE  \E spans \in Seq(Ref) :
           /\ Len(spans) = Len(list)
           /\ \A i \in 1..Len(list) : IsSpan(names, list[i], spans[i])
           /\ \A k \in Key : StandFor(layers, spans, Stack(h, names), k)
<1> DEFINE Fits(i, s) == /\ IsSpan(names, list[i], s)
                         /\ \A k \in Key : Holds(layers[i], Stack(h, names), s, k)
           spans == [i \in 1..Len(list) |-> CHOOSE s \in Ref : Fits(i, s)]
<1>1. \A i \in 1..Len(list) : \E s \in Ref : Fits(i, s)
  BY DEF Stands
<1>2. \A i \in 1..Len(list) : spans[i] \in Ref /\ Fits(i, spans[i])
  <2> HIDE DEF Fits
  <2> QED BY <1>1
<1>3. spans \in Seq(Ref) /\ Len(spans) = Len(list)
  <2>1. spans \in [1..Len(list) -> Ref] /\ Len(list) \in Nat
    BY <1>2
  <2> HIDE DEF spans
  <2> QED BY <2>1, SeqDef, LenProperties
<1> HIDE DEF spans
<1>4. \A i \in 1..Len(list) :
        /\ spans[i][1] \in 1..Len(names) /\ spans[i][2] \in 1..Len(names)
        /\ spans[i][1] <= spans[i][2] /\ spans[i][1] >= 1
        /\ names[spans[i][1]][1] = list[i][1] /\ names[spans[i][2]][2] = list[i][2]
  <2> TAKE i \in 1..Len(list)
  <2>1. spans[i][1] \in Nat /\ spans[i][2] \in Nat /\ Len(names) \in Nat
    BY <1>2 DEF Ref
  <2> QED BY <1>2, <2>1 DEF IsSpan
<1>5. Ascending(spans)
  <2>1. ASSUME NEW i \in 1..Len(list), NEW j \in 1..Len(list), i < j
        PROVE  spans[i][1] < spans[j][1] /\ spans[i][2] < spans[j][2]
    <3>1. list[i][1] < list[j][1] /\ list[i][2] < list[j][2]
      BY <2>1 DEF Ascending
    <3>2. spans[j][1] <= spans[i][1] => list[j][1] <= list[i][1]
      <4>1. spans[i][1] \in 1..Len(names) /\ spans[j][1] \in 1..Len(names)
            /\ names[spans[i][1]][1] = list[i][1] /\ names[spans[j][1]][1] = list[j][1]
        BY <1>4
      <4> DEFINE p == spans[i][1]
                 q == spans[j][1]
      <4>2. p \in 1..Len(names) /\ q \in 1..Len(names)
        BY <4>1
      <4> HIDE DEF p, q
      <4>3. q <= p => names[q][1] <= names[p][1]
        BY <4>2, AscendingPositions
      <4> QED BY <4>1, <4>3 DEF p, q
    <3>3. spans[j][2] <= spans[i][2] => list[j][2] <= list[i][2]
      <4>1. spans[i][2] \in 1..Len(names) /\ spans[j][2] \in 1..Len(names)
            /\ names[spans[i][2]][2] = list[i][2] /\ names[spans[j][2]][2] = list[j][2]
        BY <1>4
      <4> DEFINE p == spans[i][2]
                 q == spans[j][2]
      <4>2. p \in 1..Len(names) /\ q \in 1..Len(names)
        BY <4>1
      <4> HIDE DEF p, q
      <4>3. q <= p => names[q][2] <= names[p][2]
        BY <4>2, AscendingPositions
      <4> QED BY <4>1, <4>3 DEF p, q
    <3>4. /\ list[i][1] \in Nat /\ list[j][1] \in Nat
          /\ list[i][2] \in Nat /\ list[j][2] \in Nat
      BY AscendingPositions
    <3> QED BY <1>4, <3>1, <3>2, <3>3, <3>4
  <2> QED BY <1>3, <1>4, <2>1 DEF Ascending
<1>6. \A k \in Key : StandFor(layers, spans, Stack(h, names), k)
  BY <1>2, <1>3, <1>4, <1>5 DEF StandFor
<1> QED BY <1>2, <1>3, <1>6

\* A list of segments that between them leave out nothing reads as the segments
\* they stand for (loadDiskSegments after a merge that had failed).
LEMMA ListShowsNames ==
  ASSUME NEW names \in Seq(Ref), Ascending(names), NEW h, NEW list \in Seq(Ref),
         Ascending(list), NEW layers, Len(layers) = Len(list),
         \A i \in 1..Len(list) : Stands(h, names, list[i], layers[i]),
         \A m \in 1..Len(names) :
           h[names[m]] = NoEntries \/ \E i \in 1..Len(list) : Within(names[m], list[i])
  PROVE  View(layers) = View(Stack(h, names))
<1> DEFINE base == Stack(h, names)
<1>1. PICK spans \in Seq(Ref) :
        /\ Len(spans) = Len(list)
        /\ \A i \in 1..Len(list) : IsSpan(names, list[i], spans[i])
        /\ \A k \in Key : StandFor(layers, spans, base, k)
  BY SpansOf
<1>2. Len(base) = Len(names) /\ Len(base) \in Nat
      /\ \A m \in 1..Len(names) : base[m] = h[names[m]]
  BY StackProperties
<1> HIDE DEF base
<1>3. \A i \in 1..Len(spans) : spans[i][2] <= Len(base)
  BY <1>1, <1>2 DEF IsSpan
<1>4. ASSUME NEW k \in Key, NEW m \in 1..Len(base), base[m][k] # Absent
      PROVE  \E i \in 1..Len(spans) : spans[i][1] <= m /\ m <= spans[i][2]
  <2>1. h[names[m]] # NoEntries
    <3>1. NoEntries[k] = Absent
      BY DEF NoEntries
    <3> QED BY <1>2, <1>4, <3>1
  <2>2. PICK i \in 1..Len(list) : Within(names[m], list[i])
    BY <1>2, <2>1
  <2>3. spans[i] \in Ref /\ IsSpan(names, list[i], spans[i]) /\ i \in 1..Len(spans)
    BY <1>1
  <2>4. spans[i][1] <= m /\ m <= spans[i][2]
    BY <1>2, <2>2, <2>3, SpanWithin
  <2> QED BY <2>3, <2>4
<1>5. \A k \in Key : Live(Newest(layers, k)) = Live(Newest(base, k))
  <2> TAKE k \in Key
  <2>1. \A m \in 1..Len(base) : base[m][k] # Absent =>
          \E i \in 1..Len(spans) : spans[i][1] <= m /\ m <= spans[i][2]
    BY <1>4
  <2> QED BY <1>1, <1>2, <1>3, <2>1, CoverShows
<1> QED BY <1>5 DEF View, base

\* What a merge writes stands for the range of its name (mergeSegments1).
LEMMA MergeStands ==
  ASSUME NEW names \in Seq(Ref), Ascending(names), NEW h, NEW list \in Seq(Ref),
         Ascending(list), NEW slice \in Seq(Ref), NEW start, IsSlice(list, start, slice),
         \A i \in 1..Len(list) : Stands(h, names, list[i], h[list[i]]),
         \A m \in 1..Len(names) : \E i \in 1..Len(list) : Within(names[m], list[i]),
         NEW purge, purge => start = 1
  PROVE  Stands(h, names, TargetOf(slice), Merged(Stack(h, slice), purge))
<1> DEFINE n == Len(slice)
           last == start + n - 1
           base == Stack(h, names)
<1>1. /\ n \in Nat /\ n >= 1 /\ 1 \in 1..n /\ n \in 1..n
      /\ start \in 1..Len(list) /\ last \in 1..Len(list) /\ start \in Nat
      /\ Len(list) \in Nat
      /\ \A i \in 1..n : start + i - 1 \in 1..Len(list) /\ slice[i] = list[start + i - 1]
      /\ slice[1] = list[start] /\ slice[n] = list[last]
  BY DEF IsSlice
<1> HIDE DEF n, last
<1>2. Ascending(slice)
  <2>1. \A i \in 1..n : slice[i][1] <= slice[i][2]
    BY <1>1 DEF Ascending
  <2>2. ASSUME NEW i \in 1..n, NEW j \in 1..n, i < j
        PROVE  slice[i][1] < slice[j][1] /\ slice[i][2] < slice[j][2]
    <3>1. start + i - 1 < start + j - 1
      BY <1>1, <2>2
    <3> QED BY <1>1, <3>1 DEF Ascending
  <2> QED BY <2>1, <2>2 DEF Ascending, n
<1>3. /\ Len(Stack(h, slice)) = n
      /\ \A i \in 1..n : Stack(h, slice)[i] = h[slice[i]]
  BY StackProperties DEF n
<1>4. \A i \in 1..n : Stands(h, names, slice[i], Stack(h, slice)[i])
  <2> TAKE i \in 1..n
  <2> DEFINE j == start + i - 1
  <2>1. j \in 1..Len(list) /\ slice[i] = list[j]
    BY <1>1
  <2> HIDE DEF j
  <2>2. Stands(h, names, list[j], h[list[j]])
    BY <2>1
  <2>3. Stack(h, slice)[i] = h[list[j]]
    BY <1>3, <2>1
  <2> QED BY <2>1, <2>2, <2>3
<1>5. PICK spans \in Seq(Ref) :
        /\ Len(spans) = n
        /\ \A i \in 1..n : IsSpan(names, slice[i], spans[i])
        /\ \A k \in Key : StandFor(Stack(h, slice), spans, base, k)
  <2>1. /\ Len(Stack(h, slice)) = Len(slice)
        /\ \A i \in 1..Len(slice) : Stands(h, names, slice[i], Stack(h, slice)[i])
    BY <1>3, <1>4 DEF n
  <2>2. \E spans \in Seq(Ref) :
          /\ Len(spans) = Len(slice)
          /\ \A i \in 1..Len(slice) : IsSpan(names, slice[i], spans[i])
          /\ \A k \in Key : StandFor(Stack(h, slice), spans, Stack(h, names), k)
    BY <1>2, <2>1, SpansOf
  <2> QED BY <2>2 DEF n
<1> DEFINE a == spans[1][1]
           b == spans[n][2]
           s == <<a, b>>
<1>6. /\ spans[1] \in Ref /\ spans[n] \in Ref
      /\ IsSpan(names, slice[1], spans[1]) /\ IsSpan(names, slice[n], spans[n])
      /\ a \in 1..Len(names) /\ b \in 1..Len(names)
      /\ names[a][1] = slice[1][1] /\ names[b][2] = slice[n][2]
  <2>1. /\ spans[1] \in Ref /\ spans[n] \in Ref
        /\ IsSpan(names, slice[1], spans[1]) /\ IsSpan(names, slice[n], spans[n])
    BY <1>1, <1>5
  <2>2. a \in 1..Len(names) /\ names[a][1] = slice[1][1]
    BY <2>1, SpanEnds
  <2>3. b \in 1..Len(names) /\ names[b][2] = slice[n][2]
    BY <2>1, SpanEnds
  <2> QED BY <2>1, <2>2, <2>3
<1> HIDE DEF a, b, base
<1>7. s \in Ref /\ s[1] = a /\ s[2] = b
  <2>1. a \in Nat /\ b \in Nat
    BY <1>6
  <2> QED BY <2>1 DEF Ref
<1>8. /\ TargetOf(slice)[1] = slice[1][1] /\ TargetOf(slice)[2] = slice[n][2]
      /\ TargetOf(slice)[1] <= TargetOf(slice)[2]
  BY TargetProperties, <1>1 DEF n, last, TargetOf
<1>9. a <= b
  <2>1. names[a][1] <= names[b][2] /\ names[a][1] \in Nat /\ names[b][2] \in Nat
    BY <1>6, <1>8, AscendingPositions
  <2>2. slice[1][2] <= slice[n][2]
    BY <1>1, <1>2, AscendingPositions DEF n
  <2> DEFINE c == spans[1][2]
  <2>3. a <= c /\ names[c][2] = slice[1][2] /\ c \in 1..Len(names)
    <3>1. spans[1] \in Ref /\ IsSpan(names, slice[1], spans[1])
      BY <1>6
    <3>2. /\ spans[1][1] <= c /\ c \in 1..Len(names)
          /\ names[c][2] = slice[1][2]
      BY ONLY names \in Seq(Ref), <3>1, SpanEnds
    <3> QED BY <3>2 DEF a
  <2> HIDE DEF c
  <2>4. names[c][2] <= names[b][2]
    BY <1>6, <2>2, <2>3
  <2>5. c <= b
    BY <1>6, <2>3, <2>4, AscendingPositions
  <2>6. a \in Nat /\ b \in Nat /\ c \in Nat
    BY <1>6, <2>3
  <2> QED BY <2>3, <2>5, <2>6
<1>10. IsSpan(names, TargetOf(slice), s)
  BY <1>6, <1>7, <1>8, <1>9 DEF IsSpan
<1>11. purge => a = 1
  <2> SUFFICES ASSUME start = 1 PROVE a = 1
    OBVIOUS
  <2>1. 1 \in 1..Len(names)
    BY <1>6
  <2>2. PICK i \in 1..Len(list) : Within(names[1], list[i])
    BY <2>1
  <2>3. list[1][1] <= list[i][1] /\ list[1][1] \in Nat /\ list[i][1] \in Nat
    BY <1>1, <2>2, AscendingPositions
  <2>4. names[a][1] = list[1][1] /\ list[i][1] <= names[1][1] /\ names[1][1] \in Nat
    BY <1>1, <1>6, <2>1, <2>2, AscendingPositions DEF Within
  <2>5. names[a][1] <= names[1][1]
    BY <2>3, <2>4
  <2>6. a <= 1
    BY <1>6, <2>1, <2>5, AscendingPositions
  <2> QED BY <1>6, <2>6
<1>12. ASSUME NEW m \in a..b
       PROVE  \E i \in 1..n : spans[i][1] <= m /\ m <= spans[i][2]
  <2>1. m \in 1..Len(names) /\ a <= m /\ m <= b
    BY <1>6
  <2>2. PICK j \in 1..Len(list) : Within(names[m], list[j])
    BY <2>1
  <2>3. names[a][1] <= names[m][1] /\ names[m][2] <= names[b][2]
    BY <1>6, <2>1, AscendingPositions
  <2>4. /\ names[m][1] \in Nat /\ names[m][2] \in Nat
        /\ list[j][1] \in Nat /\ list[j][2] \in Nat
    BY <2>1, AscendingPositions
  <2>5. \E i \in 1..n : Within(names[m], slice[i])
    <3>1. CASE j < start
      <4>1. list[j][2] <= list[start][2] /\ list[start][2] \in Nat
        BY <1>1, <3>1, AscendingPositions
      <4>2. names[m][2] <= list[start][2]
        BY <2>2, <2>4, <4>1 DEF Within
      <4>3. Within(names[m], slice[1])
        BY <1>1, <1>6, <2>3, <4>2 DEF Within
      <4> QED BY <1>1, <4>3
    <3>2. CASE last < j
      <4>1. list[last][1] <= list[j][1] /\ list[last][1] \in Nat
        BY <1>1, <3>2, AscendingPositions
      <4>2. list[last][1] <= names[m][1]
        BY <2>2, <2>4, <4>1 DEF Within
      <4>3. Within(names[m], slice[n])
        BY <1>1, <1>6, <2>3, <4>2 DEF Within
      <4> QED BY <1>1, <4>3
    <3>3. CASE start <= j /\ j <= last
      <4>1. j - start + 1 \in 1..n /\ start + (j - start + 1) - 1 = j
        BY <1>1, <3>3 DEF last
      <4>2. slice[j - start + 1] = list[j]
        BY <1>1, <4>1
      <4> QED BY <2>2, <4>1, <4>2
    <3> QED BY <1>1, <3>1, <3>2, <3>3
  <2>6. PICK i \in 1..n : Within(names[m], slice[i])
    BY <2>5
  <2>7. spans[i] \in Ref /\ IsSpan(names, slice[i], spans[i])
    BY <1>5
  <2>8. spans[i][1] <= m /\ m <= spans[i][2]
    BY <2>1, <2>6, <2>7, SpanWithin
  <2> QED BY <2>8
<1>13. \A k \in Key : Holds(Merged(Stack(h, slice), purge), base, s, k)
  <2> TAKE k \in Key
  <2>1. StandFor(Stack(h, slice), spans, base, k) /\ n = Len(spans)
    BY <1>5
  <2>2. purge => spans[1][1] = 1
    BY <1>11 DEF a
  <2>3. \A m \in spans[1][1]..spans[n][2] : base[m][k] # Absent =>
          \E i \in 1..n : spans[i][1] <= m /\ m <= spans[i][2]
    BY <1>12 DEF a, b
  <2>4. Holds(Merged(Stack(h, slice), purge), base, <<spans[1][1], spans[n][2]>>, k)
    BY <1>1, <2>1, <2>2, <2>3, MergeHolds
  <2> QED BY <2>4 DEF a, b
<1> QED BY <1>7, <1>10, <1>13 DEF Stands, base
=============================================================================
