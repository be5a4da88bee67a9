--------------------------- MODULE DatabaseProofs ---------------------------
(***************************************************************************)
(* Proofs about Database, for any number of threads, keys and snapshots.   *)
(* First the inductive invariant CoreInv of the session and what follows   *)
(* from it.  Then what callers see: swapping, merging and closing are      *)
(* steps that no caller can see, and the steps a caller can see are those  *)
(* of KVStore.  get is not among them, it runs without a lock: what it has *)
(* loaded stays a list of segments that were the database at some time     *)
(* since the call, and only a close can take the pointers away that it     *)
(* dereferences.  Then what is on disk: a merge lists the files of what it *)
(* replaced, and the files a close leaves are the database.  Last what a   *)
(* snapshot shows of batches, which are applied entry by entry.            *)
(***************************************************************************)
EXTENDS Database, SegmentsProofs

\* The parts of the invariant about segments, and those about threads.
SegmentsInv ==
  /\ SegmentsOrdered /\ ChainInHeap /\ SliceInPlace /\ HeapNested
  /\ TargetMerged /\ SnapsFrozen /\ LeftApart

ThreadsInv ==
  /\ WgCounts /\ CloserOrder /\ MergeOwned /\ WritersLocked /\ MemoryNewest
  /\ FailuresRecorded

LEMMA CoreInvParts ==
  /\ CoreInv <=> TypeOK /\ SegmentsInv /\ ThreadsInv
  /\ CoreInv' <=> TypeOK' /\ SegmentsInv' /\ ThreadsInv'
BY DEF CoreInv, SegmentsInv, ThreadsInv

\* The list of segments is a list of names of segments.
LEMMA ChainType ==
  ASSUME StateType
  PROVE  /\ Chain \in Seq(Ref)
         /\ state.segments \in Seq(Ref)
         /\ Len(state.segments) <= Len(Chain)
         /\ \A i \in 1..Len(state.segments) : Chain[i] = state.segments[i]
         /\ state.memory # Null => /\ Len(Chain) = Len(state.segments) + 1
                                   /\ Chain[Len(Chain)] = state.memory
         /\ state.memory = Null => Chain = state.segments
<1>1. state.segments \in Seq(Ref) /\ state.memory \in Ref \cup {Null}
  BY DEF StateType, Chains
<1>2. CASE state.memory = Null
  BY <1>1, <1>2 DEF Chain
<1>3. CASE state.memory # Null
  <2>1. Chain = Append(state.segments, state.memory) /\ state.memory \in Ref
    BY <1>1, <1>3 DEF Chain
  <2> QED BY <1>1, <1>3, <2>1, AppendProperties
<1> QED BY <1>2, <1>3

\* What an action that leaves the segments alone keeps.
LEMMA SegmentsFrame ==
  ASSUME SegmentsInv, UNCHANGED <<heap, state, nextSegID, merge, snaps>>
  PROVE  SegmentsInv'
<1>1. Chain' = Chain
  BY DEF Chain
<1>2. \A chain : Layers(chain)' = Layers(chain)
  BY DEF Layers, heap
<1>3. /\ SegmentsOrdered' /\ ChainInHeap' /\ SliceInPlace' /\ HeapNested' /\ SnapsFrozen'
      /\ LeftApart'
  BY <1>1 DEF SegmentsInv, SegmentsOrdered, ChainInHeap, SliceInPlace, HeapNested,
              SnapsFrozen, LeftApart, heap
<1>4. TargetMerged'
  BY <1>2 DEF SegmentsInv, TargetMerged, MergedSlice, heap
<1> QED BY <1>3, <1>4 DEF SegmentsInv

\* The same for an action that only starts or ends a merge that has not read a
\* slice, or has not written its segment.
LEMMA MergeFrame ==
  ASSUME SegmentsInv, merge.pc # "swap", merge'.pc = "pick",
         UNCHANGED <<contents, left, state, nextSegID, snaps>>
  PROVE  SegmentsInv'
<1>1. Chain' = Chain
  BY DEF Chain
<1>2. SegmentsOrdered' /\ ChainInHeap' /\ SnapsFrozen' /\ LeftApart'
  BY <1>1 DEF SegmentsInv, SegmentsOrdered, ChainInHeap, SnapsFrozen, LeftApart
<1>3. SliceInPlace' /\ TargetMerged'
  BY DEF SliceInPlace, TargetMerged
<1>4. HeapNested'
  BY <1>1 DEF SegmentsInv, HeapNested
<1> QED BY <1>2, <1>3, <1>4 DEF SegmentsInv

-----------------------------------------------------------------------------
LEMMA InitIInv == Init => CoreInv
<1> SUFFICES ASSUME Init PROVE CoreInv
  OBVIOUS
<1> USE DatabaseAssumption
<1>1. PICK layers \in InitialLayers :
        /\ contents = [r \in Members([i \in 1..Len(layers) |-> <<i, i>>])
                               \cup {<<Len(layers) + 1, Len(layers) + 1>>} |->
                         IF r = <<Len(layers) + 1, Len(layers) + 1>>
                         THEN NoEntries ELSE layers[r[1]]]
        /\ state = [segments |-> [i \in 1..Len(layers) |-> <<i, i>>],
                    memory |-> <<Len(layers) + 1, Len(layers) + 1>>,
                    multi |-> Append([i \in 1..Len(layers) |-> <<i, i>>],
                                     <<Len(layers) + 1, Len(layers) + 1>>)]
        /\ diskSegments = Members([i \in 1..Len(layers) |-> <<i, i>>])
        /\ files = Members([i \in 1..Len(layers) |-> <<i, i>>])
        /\ nextSegID = Len(layers) + 1
  BY DEF Init
<1> DEFINE n == Len(layers)
           segments == [i \in 1..n |-> <<i, i>>]
           memory == <<n + 1, n + 1>>
<1>2. layers \in Seq(Content) /\ n \in Nat
  BY <1>1
<1>3. segments \in Seq(Ref) /\ Len(segments) = n
  <2>1. segments \in [1..n -> Ref]
    BY <1>2 DEF Ref
  <2> QED BY <1>2, <2>1, SeqDef, LenProperties
<1>4. memory \in Ref /\ memory # Null
  BY <1>2 DEF Ref
<1>5. Members(segments) = {<<i, i>> : i \in 1..n}
  BY <1>3 DEF Members
<1>6. Append(segments, memory) \in Seq(Ref)
  BY <1>3, <1>4, AppendProperties
<1> HIDE DEF segments, memory, n
<1>7. HeapType
  <2>1. DOMAIN contents = Members(segments) \cup {memory}
    BY <1>1 DEF segments, memory, n
  <2>2. DOMAIN contents \subseteq Ref
    BY <2>1, <1>2, <1>4, <1>5 DEF Ref
  <2>3. ASSUME NEW r \in DOMAIN contents
        PROVE  contents[r] \in Content
    <3>1. CASE r = memory
      BY <3>1, <2>1, <1>1 DEF memory, n, NoEntries, Content, Entry
    <3>2. CASE r # memory
      <4>1. PICK i \in 1..n : r = <<i, i>>
        BY <3>2, <2>1, <2>3, <1>5
      <4>2. contents[r] = layers[i]
        BY <3>2, <4>1, <2>1, <2>3, <1>1 DEF memory, n, segments
      <4> QED BY <4>2, <1>2, ElementOfSeq DEF n
    <3> QED BY <3>1, <3>2
  <2>4. diskSegments \subseteq DOMAIN contents /\ files \subseteq DOMAIN contents
    BY <2>1, <1>1 DEF segments, n
  <2>5. deleted \subseteq DOMAIN contents /\ left \subseteq DOMAIN contents
    BY DEF Init
  <2> QED BY <2>2, <2>3, <2>4, <2>5 DEF HeapType
<1>8. StateType
  <2>1. state \in [segments : Chains, memory : Ref \cup {Null}, multi : Multis]
    <3>1. Append(segments, memory) \in Multis
      BY <1>6, SeqMonotonic DEF Multis
    <3> QED BY <3>1, <1>1, <1>3, <1>4 DEF Chains, segments, memory, n
  <2> QED BY <2>1, <1>1, <1>2 DEF StateType, Init, n
<1>9. ThreadsType
  <2>1. <<>> \in Chains
    BY EmptySeq DEF Chains
  <2> QED BY <2>1 DEF ThreadsType, Init, NoMerge, Closer
<1>10. CallersType
  <2>1. <<>> \in Seq(Key \X Results)
    BY EmptySeq
  <2> QED BY <2>1 DEF CallersType, Init, Multis
<1>11. state.memory = memory /\ state.segments = segments /\ memory # Null
  BY <1>1, <1>4 DEF segments, memory, n
<1>12. Chain = Append(segments, memory)
  BY <1>11 DEF Chain
<1>13. Len(Chain) = n + 1 /\ \A i \in 1..n+1 : Chain[i] = <<i, i>>
  BY <1>2, <1>3, <1>4, <1>12, AppendProperties DEF segments, memory
<1>14. DOMAIN contents = {<<i, i>> : i \in 1..n+1}
  BY <1>1, <1>2, <1>5 DEF segments, memory, n
<1>15. SegmentsOrdered /\ ChainInHeap
  <2>1. \A i \in 1..n+1 : Chain[i] \in DOMAIN contents /\ Chain[i][2] = i
    <3> TAKE i \in 1..n+1
    <3>1. Chain[i] = <<i, i>>
      BY <1>13
    <3>2. <<i, i>> \in DOMAIN contents
      BY <1>14
    <3> QED BY <3>1, <3>2
  <2>2. Len(Chain) = n + 1 /\ n \in Nat /\ nextSegID = n + 1
    BY <1>1, <1>2, <1>13 DEF n
  <2>3. ChainInHeap
    BY ONLY <2>1, <2>2 DEF ChainInHeap
  <2>4. \A i \in 1..n+1 : Chain[i][1] = i /\ Chain[i][2] = i
    BY <1>13
  <2>5. SegmentsOrdered
    BY ONLY <2>2, <2>4 DEF SegmentsOrdered, Ordered
  <2> QED BY <2>3, <2>5
<1>16. HeapNested
  BY <1>2, <1>14, <1>13 DEF HeapNested, Within
<1>17. SegmentsInv
  BY <1>15, <1>16 DEF SegmentsInv, SliceInPlace, TargetMerged, SnapsFrozen, LeftApart, Init,
                      NoMerge
<1>18. ThreadsInv
  <2>1. WgCounts
    BY FS_EmptySet DEF WgCounts, AutoShare, Init
  <2>2. MemoryNewest
    BY <1>1, <1>11 DEF MemoryNewest, Init, segments, memory, n
  <2> QED BY <2>1, <2>2 DEF ThreadsInv, CloserOrder, MergeOwned, WritersLocked,
             FailuresRecorded, Init, NoMerge, Closer
<1> QED BY <1>7, <1>8, <1>9, <1>10, <1>17, <1>18, CoreInvParts DEF TypeOK

-----------------------------------------------------------------------------
(* Facts about a state in which the invariant holds.                       *)

LEMMA GetFaultType ==
  ASSUME NEW multi, NEW k
  PROVE  GetFault(multi, k) \in {"none", "null", "keyfile"}
BY DEF GetFault

\* The slice of a merge in progress is a slice of the list of segments.
LEMMA MergeIsSlice ==
  ASSUME CoreInv, merge.pc # "pick"
  PROVE  /\ merge.slice \in Seq(Ref) /\ state.segments \in Seq(Ref)
         /\ Ordered(state.segments) /\ Ascending(state.segments)
         /\ IsSlice(state.segments, merge.start, merge.slice)
         /\ Len(merge.slice) >= 2
<1>1. merge.slice \in Seq(Ref) /\ merge.start \in Nat
  BY DEF CoreInv, TypeOK, ThreadsType, Chains
<1>2. state.segments \in Seq(Ref) /\ Ordered(state.segments)
  <2>1. StateType /\ Ordered(Chain)
    BY DEF CoreInv, TypeOK, SegmentsOrdered
  <2>2. /\ Chain \in Seq(Ref) /\ state.segments \in Seq(Ref)
        /\ Len(state.segments) <= Len(Chain)
        /\ \A i \in 1..Len(state.segments) : Chain[i] = state.segments[i]
    BY <2>1, ChainType
  <2>3. 1..Len(state.segments) \subseteq 1..Len(Chain)
    BY ONLY <2>2, LenProperties
  <2> QED BY ONLY <2>1, <2>2, <2>3 DEF Ordered
<1>3. IsSlice(state.segments, merge.start, merge.slice) /\ Len(merge.slice) >= 2
  <2>1. Len(merge.slice) \in Nat /\ Len(merge.slice) >= 2
    BY <1>1 DEF CoreInv, SliceInPlace
  <2> QED BY <1>1, <2>1 DEF CoreInv, SliceInPlace, IsSlice
<1> QED BY <1>1, <1>2, <1>3, OrderedAscends

LEMMA PositionInSlice ==
  ASSUME NEW s \in Nat, s >= 1, NEW m \in Nat, NEW n \in Nat, s + m - 1 <= n, NEW i \in 1..m
  PROVE  s + i - 1 \in 1..n
OBVIOUS

\* The segments of the slice are in the heap.
LEMMA SliceInHeap ==
  ASSUME CoreInv, merge.pc # "pick"
  PROVE  \A i \in 1..Len(merge.slice) :
           merge.slice[i] \in DOMAIN contents /\ merge.slice[i] # state.memory
<1> TAKE i \in 1..Len(merge.slice)
<1> DEFINE j == merge.start + i - 1
<1>1. merge.slice[i] = state.segments[j] /\ j \in 1..Len(state.segments)
  <2>1. IsSlice(state.segments, merge.start, merge.slice) /\ Len(merge.slice) \in Nat
    BY MergeIsSlice
  <2>2. /\ merge.start \in Nat /\ merge.start >= 1
        /\ merge.start + Len(merge.slice) - 1 <= Len(state.segments)
        /\ merge.slice[i] = state.segments[j]
    BY ONLY <2>1, i \in 1..Len(merge.slice) DEF IsSlice
  <2>3. Len(state.segments) \in Nat
    BY MergeIsSlice
  <2>4. j \in 1..Len(state.segments)
    BY ONLY <2>1, <2>2, <2>3, i \in 1..Len(merge.slice), PositionInSlice
  <2> QED BY ONLY <2>2, <2>4
<1>2. /\ Chain \in Seq(Ref) /\ Ordered(Chain) /\ Len(state.segments) <= Len(Chain)
      /\ Chain[j] = state.segments[j] /\ j \in 1..Len(Chain)
  BY <1>1, ChainType DEF CoreInv, TypeOK, SegmentsOrdered
<1>3. merge.slice[i] \in DOMAIN contents
  BY <1>1, <1>2 DEF CoreInv, ChainInHeap
<1>4. merge.slice[i] # state.memory
  <2>1. CASE state.memory = Null
    <3>1. Chain[j] \in Ref
      BY <1>2, ElementOfSeq
    <3> QED BY <2>1, <3>1, <1>1, <1>2, DatabaseAssumption
  <2>2. CASE state.memory # Null
    <3>1. Len(Chain) = Len(state.segments) + 1 /\ Chain[Len(Chain)] = state.memory
      BY <2>2, ChainType DEF CoreInv, TypeOK
    <3>2. j < Len(Chain) /\ Len(Chain) \in 1..Len(Chain)
      BY <1>1, <3>1
    <3>3. Chain[j][2] < state.memory[1]
      BY <1>2, <3>1, <3>2 DEF Ordered
    <3>4. Chain[j][2] \in Nat /\ state.memory[1] \in Nat
          /\ state.memory[1] <= state.memory[2]
      BY <1>2, <3>1, <3>2, OrderedPositions DEF Ordered
    <3>5. state.memory[2] \in Nat
      BY <1>2, <3>1, <3>2, OrderedPositions
    <3> QED BY <1>1, <1>2, <3>3, <3>4, <3>5
  <2> QED BY <2>1, <2>2
<1> QED BY <1>3, <1>4

\* No segment has an id that has not been handed out.
LEMMA HeapBound ==
  ASSUME CoreInv
  PROVE  \A r \in DOMAIN contents : r[2] \in Nat /\ r[2] <= nextSegID
<1> TAKE r \in DOMAIN contents
<1>0. r \in Ref /\ r[2] \in Nat /\ nextSegID \in Nat
  BY DEF CoreInv, TypeOK, HeapType, StateType, Ref
<1>1. Chain \in Seq(Ref) /\ Len(state.segments) <= Len(Chain)
      /\ \A i \in 1..Len(state.segments) : Chain[i] = state.segments[i]
  BY ChainType DEF CoreInv, TypeOK
<1>2. ASSUME NEW i \in 1..Len(Chain)
      PROVE  Chain[i][2] \in Nat /\ Chain[i][2] <= nextSegID
  BY <1>1, ElementOfSeq DEF CoreInv, ChainInHeap, Ref
<1>3. CASE \E i \in 1..Len(Chain) : Within(r, Chain[i])
  <2>1. PICK i \in 1..Len(Chain) : r[2] <= Chain[i][2]
    BY <1>3 DEF Within
  <2> QED BY <1>0, <1>2, <2>1
<1>4. CASE merge.pc = "swap" /\ r = TargetOf(merge.slice)
  <2> DEFINE last == merge.start + Len(merge.slice) - 1
  <2>1. last \in 1..Len(state.segments) /\ r[2] = state.segments[last][2]
    BY <1>4, MergeIsSlice, TargetProperties
  <2>2. last \in 1..Len(Chain) /\ Chain[last] = state.segments[last]
    BY <1>1, <2>1
  <2> QED BY <1>0, <1>2, <2>1, <2>2
<1>5. CASE r \in left
  BY <1>0, <1>5 DEF CoreInv, LeftApart
<1> QED BY <1>3, <1>4, <1>5 DEF CoreInv, HeapNested

\* A process that dies changes nothing else.
LEMMA CrashStep ==
  ASSUME CoreInv, NEW why \in {"null", "keyfile", "terminate"}, Crash(why)
  PROVE  CoreInv'
<1>1. TypeOK'
  BY DEF CoreInv, TypeOK, HeapType, StateType, ThreadsType, CallersType, Crash, heap,
         threads, callers
<1>2. SegmentsInv'
  BY CoreInvParts, SegmentsFrame DEF Crash, threads, callers
<1>3. ThreadsInv'
  BY CoreInvParts DEF ThreadsInv, WgCounts, AutoShare, CloserOrder, MergeOwned,
     WritersLocked, MemoryNewest, FailuresRecorded, Crash, heap, threads, callers
<1> QED BY <1>1, <1>2, <1>3, CoreInvParts

\* What swapping the memory segment does to the segments.
LEMMA SwapMemorySegments ==
  ASSUME CoreInv, state.memory # Null, SwapMemory,
         UNCHANGED <<diskSegments, files, deleted, left, merge>>,
         lock' \in Writer \cup {Null, Closer}
  PROVE  /\ HeapType' /\ StateType'
         /\ DOMAIN contents \subseteq DOMAIN contents'
         /\ \A r \in DOMAIN contents : contents'[r] = contents[r]
         /\ state'.memory \notin DOMAIN contents
         /\ state'.memory # Null
         /\ state'.memory = <<nextSegID', nextSegID'>>
         /\ state'.multi = Append(state'.segments, state'.memory)
         /\ SegmentsOrdered' /\ ChainInHeap' /\ SliceInPlace' /\ HeapNested'
         /\ TargetMerged' /\ LeftApart'
<1> DEFINE fresh == <<nextSegID + 1, nextSegID + 1>>
<1> USE DatabaseAssumption
<1>1. /\ state' = [segments |-> Append(state.segments, state.memory), memory |-> fresh,
                   multi |-> Append(Append(state.segments, state.memory), fresh)]
      /\ nextSegID' = nextSegID + 1
      /\ contents' = With(contents, fresh, NoEntries)
  BY DEF SwapMemory
<1>2. /\ nextSegID \in Nat /\ fresh \in Ref /\ fresh # Null
      /\ state.memory \in Ref /\ state.segments \in Seq(Ref)
  BY DEF CoreInv, TypeOK, StateType, Ref, Chains
<1>3. /\ Chain = Append(state.segments, state.memory)
      /\ Chain' = Append(Chain, fresh)
  BY <1>1, <1>2 DEF Chain
<1>4. /\ Chain \in Seq(Ref) /\ Len(Chain') = Len(Chain) + 1 /\ Chain' \in Seq(Ref)
      /\ \A i \in 1..Len(Chain) : Chain'[i] = Chain[i]
      /\ Chain'[Len(Chain) + 1] = fresh
  BY <1>2, <1>3, AppendProperties
<1>5. fresh \notin DOMAIN contents
  <2> SUFFICES ASSUME fresh \in DOMAIN contents PROVE FALSE
    OBVIOUS
  <2>1. fresh[2] <= nextSegID
    BY HeapBound
  <2> QED BY <2>1, <1>2
<1>6. /\ DOMAIN contents' = DOMAIN contents \cup {fresh}
      /\ contents'[fresh] = NoEntries
      /\ \A r \in DOMAIN contents : contents'[r] = contents[r]
  BY <1>1, <1>5 DEF With
<1> HIDE DEF fresh
<1>7. HeapType'
  <2>1. NoEntries \in Content
    BY DEF NoEntries, Content, Entry
  <2> QED BY <1>2, <1>6, <2>1 DEF CoreInv, TypeOK, HeapType
<1>8. StateType'
  <2>1. Append(Append(state.segments, state.memory), fresh) \in Seq(Ref)
    BY <1>2, AppendProperties
  <2>2. Append(Append(state.segments, state.memory), fresh) \in Multis
    BY <2>1, SeqMonotonic DEF Multis
  <2>3. Append(state.segments, state.memory) \in Chains
    BY <1>2, AppendProperties DEF Chains
  <2> QED BY <1>1, <1>2, <2>2, <2>3 DEF StateType
<1>9. /\ fresh[1] = nextSegID + 1 /\ fresh[2] = nextSegID + 1
  BY DEF fresh
<1>10. ASSUME NEW i \in 1..Len(Chain)
       PROVE  /\ Chain[i][2] \in Nat /\ Chain[i][2] <= nextSegID
              /\ Chain[i] \in DOMAIN contents
  BY <1>4, ElementOfSeq DEF CoreInv, ChainInHeap, Ref
<1>11. \A i \in 1..Len(Chain') : i \in 1..Len(Chain) \/ i = Len(Chain) + 1
  BY <1>4
<1>12. SegmentsOrdered'
  <2>1. \A i \in 1..Len(Chain') : Chain'[i][1] <= Chain'[i][2]
    BY <1>2, <1>4, <1>9, <1>11 DEF CoreInv, SegmentsOrdered, Ordered
  <2>2. ASSUME NEW i \in 1..Len(Chain'), NEW j \in 1..Len(Chain'), i < j
        PROVE  Chain'[i][2] < Chain'[j][1]
    <3>1. CASE j \in 1..Len(Chain)
      <4>1. i \in 1..Len(Chain)
        BY <2>2, <3>1
      <4> QED BY <2>2, <3>1, <4>1, <1>4 DEF CoreInv, SegmentsOrdered, Ordered
    <3>2. CASE j = Len(Chain) + 1
      <4>1. i \in 1..Len(Chain)
        BY <2>2, <3>2, <1>11
      <4>2. Chain'[i][2] \in Nat /\ Chain'[i][2] <= nextSegID
        BY <4>1, <1>4, <1>10
      <4>3. Chain'[j][1] = nextSegID + 1
        BY <3>2, <1>4, <1>9
      <4> QED BY <4>2, <4>3, <1>2
    <3> QED BY <3>1, <3>2, <1>11
  <2> QED BY <2>1, <2>2 DEF SegmentsOrdered, Ordered
<1>13. ChainInHeap'
  <2> SUFFICES ASSUME NEW i \in 1..Len(Chain')
               PROVE  Chain'[i] \in DOMAIN contents' /\ Chain'[i][2] <= nextSegID'
    BY DEF ChainInHeap
  <2>1. CASE i \in 1..Len(Chain)
    <3>1. Chain'[i] = Chain[i] /\ Chain[i] \in DOMAIN contents
      BY <2>1, <1>4, <1>10
    <3>2. Chain[i][2] \in Nat /\ Chain[i][2] <= nextSegID
      BY <2>1, <1>10
    <3>3. nextSegID' = nextSegID + 1 /\ nextSegID \in Nat
      BY <1>1, <1>2
    <3>4. Chain[i][2] <= nextSegID'
      BY ONLY <3>2, <3>3
    <3> QED BY ONLY <3>1, <3>4, <1>6
  <2>2. CASE i = Len(Chain) + 1
    BY <2>2, <1>1, <1>2, <1>4, <1>6, <1>9
  <2> QED BY <2>1, <2>2, <1>11
<1>14. SliceInPlace'
  <2>1. /\ Len(state'.segments) = Len(state.segments) + 1
        /\ \A i \in 1..Len(state.segments) : state'.segments[i] = state.segments[i]
    BY <1>1, <1>2, AppendProperties
  <2> SUFFICES ASSUME merge.pc # "pick"
               PROVE  /\ merge.start >= 1 /\ Len(merge.slice) >= 2
                      /\ merge.start + Len(merge.slice) - 1 <= Len(state'.segments)
                      /\ \A i \in 1..Len(merge.slice) :
                           merge.slice[i] = state'.segments[merge.start + i - 1]
    BY DEF SliceInPlace
  <2>2. /\ merge.start \in Nat /\ merge.start >= 1
        /\ Len(merge.slice) \in Nat /\ Len(merge.slice) >= 2
        /\ Len(state.segments) \in Nat
        /\ merge.start + Len(merge.slice) - 1 <= Len(state.segments)
        /\ \A i \in 1..Len(merge.slice) :
             merge.slice[i] = state.segments[merge.start + i - 1]
    <3>1. /\ merge.slice \in Seq(Ref) /\ state.segments \in Seq(Ref)
          /\ IsSlice(state.segments, merge.start, merge.slice) /\ Len(merge.slice) >= 2
      BY MergeIsSlice
    <3>2. Len(merge.slice) \in Nat /\ Len(state.segments) \in Nat
      BY <3>1
    <3> QED BY <3>1, <3>2 DEF IsSlice
  <2>3. \A i \in 1..Len(merge.slice) : merge.start + i - 1 \in 1..Len(state.segments)
    BY <2>2
  <2>4. merge.start + Len(merge.slice) - 1 <= Len(state'.segments)
    BY <2>1, <2>2
  <2>5. \A i \in 1..Len(merge.slice) :
          merge.slice[i] = state'.segments[merge.start + i - 1]
    BY <2>1, <2>2, <2>3
  <2> QED BY <2>2, <2>4, <2>5
<1>15. HeapNested'
  <2> SUFFICES ASSUME NEW r \in DOMAIN contents'
               PROVE  \/ \E i \in 1..Len(Chain') : Within(r, Chain'[i])
                      \/ merge.pc = "swap" /\ r = TargetOf(merge.slice)
                      \/ r \in left
    BY DEF HeapNested
  <2>1. CASE r = fresh
    <3>1. Len(Chain) + 1 \in 1..Len(Chain')
      BY <1>4
    <3> QED BY <2>1, <3>1, <1>2, <1>4, <1>9 DEF Within
  <2>2. CASE r \in DOMAIN contents
    <3>1. CASE merge.pc = "swap" /\ r = TargetOf(merge.slice)
      BY <3>1
    <3>2. CASE \E i \in 1..Len(Chain) : Within(r, Chain[i])
      BY <3>2, <1>4
    <3>3. CASE r \in left
      BY <3>3
    <3> QED BY <2>2, <3>1, <3>2, <3>3 DEF CoreInv, HeapNested
  <2> QED BY <2>1, <2>2, <1>6
<1>16. TargetMerged'
  <2> SUFFICES ASSUME merge.pc = "swap"
               PROVE  /\ TargetOf(merge.slice) \in DOMAIN contents' \ left
                      /\ contents'[TargetOf(merge.slice)]
                           = Merged(Layers(merge.slice)', PurgesDeleted(merge.start))
    BY DEF TargetMerged, MergedSlice
  <2>1. Layers(merge.slice)' = Layers(merge.slice)
    BY SliceInHeap, <1>6 DEF Layers
  <2> QED BY <2>1, <1>6 DEF CoreInv, TargetMerged, MergedSlice
<1>18. LeftApart'
  <2> SUFFICES ASSUME NEW r \in left
               PROVE  r[1] < r[2] /\ r[2] <= nextSegID' /\ r \notin Members(Chain')
    BY DEF LeftApart
  <2>1. r \in Ref /\ r[1] < r[2] /\ r[2] <= nextSegID /\ r \notin Members(Chain)
    BY DEF CoreInv, TypeOK, HeapType, LeftApart
  <2>2. r[1] \in Nat /\ r[2] \in Nat
    BY <2>1 DEF Ref
  <2>3. r # fresh
    BY <2>1, <2>2, <1>9
  <2>4. Members(Chain') = Members(Chain) \cup {fresh}
    <3>1. Chain \in Seq(Ref) /\ fresh \in Ref
      BY <1>2, <1>4
    <3>2. Members(Append(Chain, fresh)) = Members(Chain) \cup {fresh}
      BY ONLY <3>1, MembersOfAppend
    <3> QED BY <1>3, <3>2
  <2>5. r[2] <= nextSegID'
    BY ONLY <2>1, <2>2, <1>1, <1>2
  <2> QED BY <2>1, <2>3, <2>4, <2>5
<1>17. state'.memory = fresh /\ fresh = <<nextSegID', nextSegID'>>
       /\ state'.multi = Append(state'.segments, state'.memory)
  BY <1>1 DEF fresh
<1> QED BY <1>2, <1>5, <1>6, <1>7, <1>8, <1>12, <1>13, <1>14, <1>15, <1>16, <1>17, <1>18

-----------------------------------------------------------------------------
(* The contents of a list of segments, position by position.               *)

LEMMA LayersProperties ==
  ASSUME NEW S, NEW chain \in Seq(S)
  PROVE  /\ Len(Layers(chain)) = Len(chain) /\ Len(chain) \in Nat
         /\ \A i \in 1..Len(chain) : Layers(chain)[i] = contents[chain[i]]
<1> DEFINE T == {contents[chain[i]] : i \in 1..Len(chain)}
<1>1. Len(chain) \in Nat
  OBVIOUS
<1>2. Layers(chain) \in [1..Len(chain) -> T]
  BY DEF Layers
<1>3. Layers(chain) \in Seq(T)
  BY <1>1, <1>2, SeqDef
<1>4. Len(Layers(chain)) = Len(chain)
  BY <1>1, <1>2, <1>3, LenProperties
<1> QED BY <1>1, <1>4 DEF Layers

\* The segments of the list are older than the memory segment.
LEMMA SegmentsOlder ==
  ASSUME CoreInv, state.memory # Null, NEW j \in 1..Len(state.segments)
  PROVE  /\ state.segments[j][2] \in Nat
         /\ state.segments[j][2] < nextSegID
         /\ nextSegID \in Nat
         /\ state.memory[2] = nextSegID
<1>1. /\ Chain \in Seq(Ref) /\ Ordered(Chain)
      /\ Len(Chain) = Len(state.segments) + 1 /\ Chain[Len(Chain)] = state.memory
      /\ Chain[j] = state.segments[j]
  BY ChainType DEF CoreInv, TypeOK, SegmentsOrdered
<1>2. j \in 1..Len(Chain) /\ Len(Chain) \in 1..Len(Chain) /\ j < Len(Chain)
  BY <1>1
<1>3. Chain[j][2] < state.memory[1]
  BY <1>1, <1>2 DEF Ordered
<1>4. nextSegID \in Nat /\ state.memory = <<nextSegID, nextSegID>>
  BY DEF CoreInv, TypeOK, StateType, MemoryNewest
<1>5. Chain[j][2] \in Nat
  BY <1>1, <1>2, OrderedPositions
<1> QED BY <1>1, <1>3, <1>4, <1>5

\* So is the segment that is about to replace a slice of it.
LEMMA TargetOlder ==
  ASSUME CoreInv, merge.pc # "pick"
  PROVE  TargetOf(merge.slice) # state.memory
<1> DEFINE last == merge.start + Len(merge.slice) - 1
<1>1. /\ last \in 1..Len(state.segments)
      /\ TargetOf(merge.slice)[2] = state.segments[last][2]
      /\ TargetOf(merge.slice) \in Ref
  BY MergeIsSlice, TargetProperties
<1>2. CASE state.memory = Null
  BY <1>1, <1>2, DatabaseAssumption
<1>3. CASE state.memory # Null
  <2>1. /\ state.segments[last][2] \in Nat /\ state.segments[last][2] < nextSegID
        /\ nextSegID \in Nat /\ state.memory[2] = nextSegID
    BY <1>1, <1>3, SegmentsOlder
  <2> QED BY <1>1, <2>1
<1> QED BY <1>2, <1>3

\* A get that starts after a close cleared the memory segment, and before it
\* cleared _open, fails: so does the get of remove.
LEMMA NullMemoryFaults ==
  ASSUME CoreInv, state.memory = Null, NEW k
  PROVE  GetFault(state.multi, k) = "null"
<1>1. CASE state.multi = Null
  BY <1>1 DEF GetFault
<1>2. CASE state.multi # Null
  <2> DEFINE multi == state.multi
             n == Len(multi)
  <2>1. /\ state.segments \in Seq(Ref) /\ multi = Append(state.segments, Null)
    BY <1>2 DEF CoreInv, MemoryNewest, TypeOK, StateType, Chains
  <2>2. state.segments \in Seq(Ref \cup {Null})
    BY <2>1, SeqMonotonic
  <2>3. n \in Nat /\ n >= 1 /\ multi[n] = Null
    BY <2>1, <2>2, AppendProperties
  <2> HIDE DEF multi, n
  <2>4. n \in SearchStops(multi, k) /\ SearchStops(multi, k) \in SUBSET (1..n)
    BY <2>3 DEF SearchStops, n
  <2>5. \A i \in SearchStops(multi, k) : i <= n
    BY <2>3, <2>4
  <2>6. MaxOf(SearchStops(multi, k)) = n
    BY <2>3, <2>4, <2>5, MaxOfIs
  <2> QED BY <1>2, <2>3, <2>4, <2>6 DEF GetFault, multi
<1> QED BY <1>1, <1>2

-----------------------------------------------------------------------------
(* put, remove, write.                                                     *)

LEMMA BeginBatchStep ==
  ASSUME CoreInv, NEW w \in Writer, NEW b, IsBatch(b), state.memory # Null,
         lock = Null, BeginBatch(w, b)
  PROVE  CoreInv'
<1> USE DatabaseAssumption
<1>1. lock' = w /\ batch' = [batch EXCEPT ![w] = b]
      /\ UNCHANGED <<diskSegments, files, deleted, left, threads, reader, snaps, seen,
                     fault>>
  BY DEF BeginBatch
<1>2. b \in Seq(Key \X Results)
  BY DEF IsBatch, Results
<1>3. HeapType' /\ StateType' /\ SegmentsInv' /\ MemoryNewest'
      /\ state'.memory # Null /\ DOMAIN contents \subseteq DOMAIN contents'
  <2>0. lock' \in Writer \cup {Null, Closer}
    BY <1>1
  <2>1. CASE MemoryIsFull
    <3>1. SwapMemory
      BY <2>1 DEF BeginBatch, MaybeSwapMemory
    <3>2. UNCHANGED <<diskSegments, files, deleted, left, merge>>
      BY <1>1 DEF threads
    <3>3. SnapsFrozen'
      BY <1>1, <2>0, <3>1, <3>2, SwapMemorySegments DEF CoreInv, SnapsFrozen
    <3>4. MemoryNewest'
      BY <1>1, <2>0, <3>1, <3>2, SwapMemorySegments DEF CoreInv, MemoryNewest, threads
    <3> QED BY <2>0, <3>1, <3>2, <3>3, <3>4, SwapMemorySegments DEF SegmentsInv
  <2>2. CASE ~MemoryIsFull
    <3>1. UNCHANGED <<contents, state, nextSegID>>
      BY <2>2 DEF BeginBatch, MaybeSwapMemory
    <3>2. SegmentsInv'
      BY <3>1, <1>1, SegmentsFrame, CoreInvParts DEF heap, threads
    <3> QED BY <2>0, <3>1, <3>2, <1>1 DEF CoreInv, TypeOK, HeapType, StateType,
               MemoryNewest, threads
  <2> QED BY <2>1, <2>2
<1>4. ThreadsType' /\ CallersType'
  BY <1>1, <1>2, <1>3 DEF CoreInv, TypeOK, ThreadsType, CallersType, threads
<1>5. CloserOrder' /\ WgCounts' /\ MergeOwned' /\ FailuresRecorded'
  BY <1>1 DEF CoreInv, CloserOrder, WgCounts, AutoShare, MergeOwned, FailuresRecorded, threads
<1>6. WritersLocked'
  <2> SUFFICES ASSUME NEW x \in Writer, batch'[x] # <<>>
               PROVE  lock' = x /\ state'.memory # Null
    BY DEF WritersLocked
  <2>1. CASE x = w
    BY <2>1, <1>1, <1>3
  <2>2. CASE x # w
    BY <2>2, <1>1 DEF CoreInv, WritersLocked, TypeOK, CallersType
  <2> QED BY <2>1, <2>2
<1> QED BY <1>3, <1>4, <1>5, <1>6, CoreInvParts DEF TypeOK, ThreadsInv

LEMMA WriteBeginStep ==
  ASSUME CoreInv, NEW w \in Writer, NEW b \in Batches, WriteBegin(w, b)
  PROVE  CoreInv'
<1>1. CASE state.memory = Null
  BY <1>1, CrashStep DEF WriteBegin
<1>2. CASE state.memory # Null
  BY <1>2, BeginBatchStep, DatabaseAssumption DEF WriteBegin, LockFree
<1> QED BY <1>1, <1>2

LEMMA RemoveBeginStep ==
  ASSUME CoreInv, NEW w \in Writer, NEW k \in Key, RemoveBegin(w, k)
  PROVE  CoreInv'
<1>1. CASE GetFault(state.multi, k) # "none"
  <2>1. GetFault(state.multi, k) \in {"null", "keyfile", "terminate"}
    BY <1>1, GetFaultType
  <2> QED BY <1>1, <2>1, CrashStep DEF RemoveBegin
<1>2. CASE GetFault(state.multi, k) = "none"
  <2>1. state.memory # Null
    BY <1>2, NullMemoryFaults
  <2>2. IsBatch(<<(<<k, Empty>>)>>)
    BY DEF IsBatch
  <2>3. lock = Null /\ BeginBatch(w, <<(<<k, Empty>>)>>)
    BY <1>2 DEF RemoveBegin, LockFree
  <2> QED BY <2>1, <2>2, <2>3, BeginBatchStep
<1> QED BY <1>1, <1>2

LEMMA WriteApplyStep ==
  ASSUME CoreInv, NEW w \in Writer, WriteApply(w)
  PROVE  CoreInv'
<1> USE DatabaseAssumption
<1> DEFINE k == Head(batch[w])[1]
           v == Head(batch[w])[2]
<1>1. /\ batch[w] # <<>>
      /\ contents' = [contents EXCEPT ![state.memory] = Put(contents[state.memory], k, v)]
      /\ seen' = [r \in Reader |->
              IF reader[r].pc \in {"load", "search"} /\ reader[r].key = k
              THEN seen[r] \cup {v} ELSE seen[r]]
      /\ batch' = [batch EXCEPT ![w] = Tail(batch[w])]
      /\ lock' = IF Tail(batch[w]) = <<>> THEN Null ELSE w
      /\ UNCHANGED <<diskSegments, files, deleted, left, state, nextSegID, threads,
                     reader, snaps, fault>>
  BY DEF WriteApply
<1>2. lock = w /\ state.memory # Null
  BY <1>1 DEF CoreInv, WritersLocked
<1>3. batch[w] \in Seq(Key \X Results) /\ batch \in [Writer -> Seq(Key \X Results)]
  BY DEF CoreInv, TypeOK, CallersType
<1>4. k \in Key /\ v \in Results /\ Tail(batch[w]) \in Seq(Key \X Results)
  <2>1. Head(batch[w]) \in Key \X Results /\ Tail(batch[w]) \in Seq(Key \X Results)
    BY <1>1, <1>3, HeadTailProperties
  <2> QED BY <2>1
<1> HIDE DEF k, v
<1>5. /\ DOMAIN contents' = DOMAIN contents
      /\ \A r \in DOMAIN contents : r # state.memory => contents'[r] = contents[r]
      /\ \A r \in DOMAIN contents : contents'[r] \in Content
  <2>1. \A c \in Content : Put(c, k, v) \in Content
    BY <1>4 DEF Put, Content, Entry, Results
  <2> QED BY <1>1, <2>1 DEF CoreInv, TypeOK, HeapType
<1>6. HeapType' /\ StateType' /\ ThreadsType'
  BY <1>1, <1>5 DEF CoreInv, TypeOK, HeapType, StateType, ThreadsType, threads
<1>7. CallersType'
  <2>1. seen' \in [Reader -> SUBSET Results]
    BY <1>1, <1>4 DEF CoreInv, TypeOK, CallersType
  <2> QED BY <1>1, <1>3, <1>4, <2>1 DEF CoreInv, TypeOK, CallersType
<1>8. Chain' = Chain
  BY <1>1 DEF Chain
<1>9. /\ SegmentsOrdered' /\ ChainInHeap' /\ SliceInPlace' /\ HeapNested' /\ SnapsFrozen'
      /\ LeftApart'
  BY <1>1, <1>5, <1>8 DEF CoreInv, SegmentsOrdered, ChainInHeap, SliceInPlace, HeapNested,
     SnapsFrozen, LeftApart, threads
<1>10. TargetMerged'
  <2> SUFFICES ASSUME merge.pc = "swap"
               PROVE  /\ TargetOf(merge.slice) \in DOMAIN contents' \ left
                      /\ contents'[TargetOf(merge.slice)]
                           = Merged(Layers(merge.slice)', PurgesDeleted(merge.start))
    BY <1>1 DEF TargetMerged, MergedSlice, threads
  <2>1. Layers(merge.slice)' = Layers(merge.slice)
    BY <1>1, <1>5, SliceInHeap DEF Layers, threads
  <2> QED BY <2>1, <1>5, TargetOlder DEF CoreInv, TargetMerged, MergedSlice
<1>11. CloserOrder' /\ WgCounts' /\ MergeOwned' /\ FailuresRecorded' /\ MemoryNewest'
  BY <1>1, <1>2 DEF CoreInv, CloserOrder, WgCounts, AutoShare, MergeOwned,
     FailuresRecorded, MemoryNewest, threads
<1>12. WritersLocked'
  <2> SUFFICES ASSUME NEW x \in Writer, batch'[x] # <<>>
               PROVE  lock' = x /\ state'.memory # Null
    BY DEF WritersLocked
  <2>1. CASE x = w
    BY <2>1, <1>1, <1>2, <1>3
  <2>2. CASE x # w
    BY <2>2, <1>1, <1>2, <1>3 DEF CoreInv, WritersLocked
  <2> QED BY <2>1, <2>2
<1> QED BY <1>6, <1>7, <1>9, <1>10, <1>11, <1>12, CoreInvParts
        DEF TypeOK, ThreadsInv, SegmentsInv

-----------------------------------------------------------------------------
(* Snapshots and get.                                                      *)

LEMMA SnapshotTakeStep ==
  ASSUME CoreInv, NEW s \in Snap, SnapshotTake(s)
  PROVE  CoreInv'
<1> USE DatabaseAssumption
<1>1. /\ lock = Null /\ state.memory # Null /\ SwapMemory
      /\ snaps' = [snaps EXCEPT ![s] = Append(state.segments, state.memory)]
      /\ UNCHANGED <<diskSegments, files, deleted, left, lock, threads, batch, reader,
                     seen, fault>>
  BY DEF SnapshotTake, SnapshotMayRun, LockFree
<1>2. lock' \in Writer \cup {Null, Closer}
      /\ UNCHANGED <<diskSegments, files, deleted, left, merge>>
  BY <1>1 DEF threads
<1>3. /\ HeapType' /\ StateType'
      /\ DOMAIN contents \subseteq DOMAIN contents'
      /\ state'.memory \notin DOMAIN contents
      /\ state'.memory # Null
      /\ state'.memory = <<nextSegID', nextSegID'>>
      /\ state'.multi = Append(state'.segments, state'.memory)
      /\ SegmentsOrdered' /\ ChainInHeap' /\ SliceInPlace' /\ HeapNested'
      /\ TargetMerged' /\ LeftApart'
  BY <1>1, <1>2, SwapMemorySegments
<1>4. Chain = Append(state.segments, state.memory) /\ Chain \in Chains
  BY <1>1, ChainType DEF Chain, Chains, CoreInv, TypeOK
<1>5. snaps' \in [Snap -> Chains \cup {Null}]
  BY <1>1, <1>4 DEF CoreInv, TypeOK, CallersType
<1>6. ThreadsType' /\ CallersType'
  BY <1>1, <1>3, <1>5 DEF CoreInv, TypeOK, ThreadsType, CallersType, threads
<1>7. SnapsFrozen'
  <2> SUFFICES ASSUME NEW x \in Snap, snaps'[x] # Null, NEW i \in 1..Len(snaps'[x])
               PROVE  snaps'[x][i] \in DOMAIN contents' /\ snaps'[x][i] # state'.memory
    BY DEF SnapsFrozen
  <2>1. snaps'[x][i] \in DOMAIN contents
    <3>1. CASE x = s
      <4>1. snaps'[x] = Chain
        BY <3>1, <1>1, <1>4 DEF CoreInv, TypeOK, CallersType
      <4> QED BY <4>1 DEF CoreInv, ChainInHeap
    <3>2. CASE x # s
      BY <3>2, <1>1 DEF CoreInv, SnapsFrozen, TypeOK, CallersType
    <3> QED BY <3>1, <3>2
  <2> QED BY <2>1, <1>3
<1>8. CloserOrder' /\ WgCounts' /\ MergeOwned' /\ FailuresRecorded'
  BY <1>1 DEF CoreInv, CloserOrder, WgCounts, AutoShare, MergeOwned, FailuresRecorded, threads
<1>9. WritersLocked' /\ MemoryNewest'
  BY <1>1, <1>3 DEF CoreInv, WritersLocked, MemoryNewest, threads
<1> QED BY <1>3, <1>6, <1>7, <1>8, <1>9, CoreInvParts DEF TypeOK, ThreadsInv, SegmentsInv

\* What only callers have changed of keeps the rest of the invariant.
LEMMA CallersFrame ==
  ASSUME CoreInv, CallersType', SnapsFrozen',
         UNCHANGED <<heap, state, nextSegID, lock, threads, batch, fault>>
  PROVE  CoreInv'
<1>1. HeapType' /\ StateType' /\ ThreadsType'
  BY DEF CoreInv, TypeOK, HeapType, StateType, ThreadsType, heap, threads
<1>2. ThreadsInv'
  BY DEF CoreInv, ThreadsInv, WgCounts, AutoShare, CloserOrder, MergeOwned, WritersLocked,
         MemoryNewest, FailuresRecorded, heap, threads
<1>3. Chain' = Chain
  BY DEF Chain
<1>4. SegmentsOrdered' /\ ChainInHeap' /\ SliceInPlace' /\ HeapNested' /\ LeftApart'
  BY <1>3 DEF CoreInv, SegmentsOrdered, ChainInHeap, SliceInPlace, HeapNested, LeftApart,
              heap, threads
<1>5. TargetMerged'
  BY DEF CoreInv, TargetMerged, MergedSlice, Layers, heap, threads
<1> QED BY <1>1, <1>2, <1>4, <1>5, CoreInvParts DEF TypeOK, SegmentsInv

LEMMA SnapshotReleaseStep ==
  ASSUME CoreInv, NEW s \in Snap, SnapshotRelease(s)
  PROVE  CoreInv'
<1>1. CallersType'
  BY DEF CoreInv, TypeOK, CallersType, SnapshotRelease
<1>2. SnapsFrozen'
  <2> SUFFICES ASSUME NEW x \in Snap, snaps'[x] # Null
               PROVE  snaps'[x] = snaps[x]
    BY DEF SnapsFrozen, SnapshotRelease, CoreInv, heap
  <2> QED BY DEF SnapshotRelease, CoreInv, TypeOK, CallersType
<1> QED BY <1>1, <1>2, CallersFrame DEF SnapshotRelease

LEMMA ReadBeginStep ==
  ASSUME CoreInv, NEW r \in Reader, NEW k \in Key, ReadBegin(r, k)
  PROVE  CoreInv'
<1>1. View(Layers(Chain))[k] \in Results
  BY ViewType DEF Results
<1>2. [pc |-> "load", key |-> k, multi |-> Null, result |-> Null]
        \in [pc : {"idle", "load", "search", "returned"}, key : Key \cup {Null},
             multi : Multis, result : Results \cup {Null}]
  BY DEF Multis
<1>3. CallersType'
  BY <1>1, <1>2 DEF CoreInv, TypeOK, CallersType, ReadBegin, SetReader
<1>4. SnapsFrozen'
  BY DEF CoreInv, SnapsFrozen, ReadBegin, heap
<1> QED BY <1>3, <1>4, CallersFrame DEF ReadBegin

LEMMA ReadLoadStep ==
  ASSUME CoreInv, NEW r \in Reader, ReadLoad(r)
  PROVE  CoreInv'
<1>1. CallersType'
  <2>1. state.multi \in Multis
    BY DEF CoreInv, TypeOK, StateType
  <2>2. reader' = [reader EXCEPT ![r] = [reader[r] EXCEPT !.pc = "search", !.multi = state.multi]]
        /\ UNCHANGED <<batch, snaps, seen>>
    BY DEF ReadLoad, SetReader
  <2> QED BY <2>1, <2>2 DEF CoreInv, TypeOK, CallersType
<1>2. SnapsFrozen'
  BY DEF CoreInv, SnapsFrozen, ReadLoad, heap
<1> QED BY <1>1, <1>2, CallersFrame DEF ReadLoad

LEMMA ReadSearchStep ==
  ASSUME CoreInv, NEW r \in Reader, ReadSearch(r)
  PROVE  CoreInv'
<1> DEFINE multi == reader[r].multi
           k == reader[r].key
<1>1. CASE GetFault(multi, k) # "none"
  <2>1. GetFault(multi, k) \in {"null", "keyfile", "terminate"}
    BY <1>1, GetFaultType
  <2> QED BY <1>1, <2>1, CrashStep DEF ReadSearch
<1>2. CASE GetFault(multi, k) = "none"
  <2>1. multi \in Seq(Ref \cup {Null}) /\ k \in Key \cup {Null}
    BY <1>2 DEF GetFault, CoreInv, TypeOK, CallersType, Multis
  <2>2. MultiGet(Layers(multi), k) \in Results
    BY <2>1, LayersProperties, MultiGetType DEF Results
  <2>3. /\ SetReader(r, [pc |-> "returned", key |-> k, multi |-> Null,
                         result |-> MultiGet(Layers(multi), k)])
        /\ UNCHANGED <<heap, state, nextSegID, lock, threads, batch, snaps, seen, fault>>
    BY <1>2 DEF ReadSearch
  <2>4. [pc |-> "returned", key |-> k, multi |-> Null, result |-> MultiGet(Layers(multi), k)]
          \in [pc : {"idle", "load", "search", "returned"}, key : Key \cup {Null},
               multi : Multis, result : Results \cup {Null}]
    BY <2>1, <2>2 DEF Multis
  <2>5. CallersType'
    BY <2>3, <2>4 DEF CoreInv, TypeOK, CallersType, SetReader
  <2>6. SnapsFrozen'
    BY <2>3 DEF CoreInv, SnapsFrozen, heap
  <2> QED BY <2>3, <2>5, <2>6, CallersFrame
<1> QED BY <1>1, <1>2

-----------------------------------------------------------------------------
(* The merger thread and mergeSegments0.                                   *)

\* Nothing but the threads' own state, and the list of files to delete, changes.
LEMMA TypeFrame ==
  ASSUME CoreInv, ThreadsType', lock' \in Writer \cup {Null, Closer},
         UNCHANGED <<heap, state, nextSegID, callers>>
  PROVE  TypeOK'
BY DEF CoreInv, TypeOK, HeapType, StateType, CallersType, heap, callers

LEMMA AutoWakeStep ==
  ASSUME CoreInv, AutoWake
  PROVE  CoreInv'
<1> USE DatabaseAssumption
<1>1. /\ auto = "wait"
      /\ UNCHANGED <<heap, state, nextSegID, lock, err, closer, flushing, callers, fault>>
  BY DEF AutoWake, UseWaitGroup
<1>2. IsFiniteSet(flushing) /\ Cardinality(flushing) \in Nat
      /\ wg = 1 + Cardinality(flushing)
  BY <1>1, FS_CardinalityType DEF CoreInv, WgCounts, AutoShare
<1>3. \/ auto' = "exited" /\ wg' = wg - 1 /\ merge' = merge
      \/ /\ auto' = "merge" /\ wg' = wg + 1 /\ ~Closing /\ err = "none"
         /\ \/ merge' = merge /\ merge.owner # Null
            \/ merge' = [NoMerge EXCEPT !.owner = "auto"] /\ merge.owner = Null
  BY DEF AutoWake, AutoMustExit, UseWaitGroup
<1>4. merge \in [owner : {Null, "auto", Closer}, pc : {"pick", "write", "swap"},
                 start : Nat, slice : Chains]
  BY DEF CoreInv, TypeOK, ThreadsType
<1>5. ThreadsType'
  <2>1. <<>> \in Chains
    BY EmptySeq DEF Chains
  <2> QED BY <1>1, <1>2, <1>3, <2>1 DEF CoreInv, TypeOK, ThreadsType, heap, NoMerge
<1>6. TypeOK'
  BY <1>1, <1>5, TypeFrame DEF CoreInv, TypeOK, StateType
<1>7. SegmentsInv'
  <2>1. CASE merge' = merge
    BY <1>1, <2>1, CoreInvParts, SegmentsFrame DEF callers
  <2>2. CASE merge' = [NoMerge EXCEPT !.owner = "auto"] /\ merge.owner = Null
    <3>1. merge.pc # "swap" /\ merge'.pc = "pick"
      BY <2>2 DEF CoreInv, MergeOwned, NoMerge
    <3> QED BY <1>1, <3>1, CoreInvParts, MergeFrame DEF callers, heap
  <2> QED BY <1>3, <2>1, <2>2
<1>8. WgCounts'
  BY <1>1, <1>2, <1>3 DEF WgCounts, AutoShare
<1>9. CloserOrder' /\ MergeOwned'
  BY <1>1, <1>3 DEF CoreInv, TypeOK, ThreadsType, CloserOrder, MergeOwned, Closing, NoMerge, Closer
<1>10. WritersLocked' /\ MemoryNewest' /\ FailuresRecorded'
  BY <1>1 DEF CoreInv, WritersLocked, MemoryNewest, FailuresRecorded, heap, callers
<1> QED BY <1>6, <1>7, <1>8, <1>9, <1>10, CoreInvParts DEF ThreadsInv

LEMMA AutoReturnStep ==
  ASSUME CoreInv, AutoReturn
  PROVE  CoreInv'
<1>1. /\ auto = "merge" /\ merge.owner # "auto" /\ auto' = "wait" /\ wg' = wg - 1
      /\ UNCHANGED <<heap, state, nextSegID, lock, err, merge, closer, flushing, callers, fault>>
  BY DEF AutoReturn
<1>2. IsFiniteSet(flushing) /\ Cardinality(flushing) \in Nat
      /\ wg = 2 + Cardinality(flushing)
  BY <1>1, FS_CardinalityType DEF CoreInv, WgCounts, AutoShare
<1>3. ThreadsType'
  BY <1>1, <1>2 DEF CoreInv, TypeOK, ThreadsType, heap
<1>4. TypeOK'
  BY <1>1, <1>3, TypeFrame DEF CoreInv, TypeOK, StateType
<1>5. SegmentsInv'
  BY <1>1, CoreInvParts, SegmentsFrame DEF callers
<1>6. WgCounts'
  BY <1>1, <1>2 DEF WgCounts, AutoShare
<1>7. CloserOrder' /\ MergeOwned' /\ WritersLocked' /\ MemoryNewest' /\ FailuresRecorded'
  BY <1>1 DEF CoreInv, CloserOrder, MergeOwned, WritersLocked, MemoryNewest,
     FailuresRecorded, heap, callers
<1> QED BY <1>4, <1>5, <1>6, <1>7, CoreInvParts DEF ThreadsInv

\* A slice begins with one of all segments but the last and has at least two.
LEMMA SliceEndBounds ==
  ASSUME NEW n \in Nat, NEW start \in Smallest(n)
  PROVE  SliceEnd(start, n) \in 1..n /\ SliceEnd(start, n) > start /\ start \in Nat
<1>1. MinMergeSize \in Nat /\ MinMergeSize >= 2 /\ start \in Nat /\ start < n /\ start >= 1
  BY DatabaseAssumption DEF Smallest
<1> DEFINE size == IF n \div 2 > MinMergeSize THEN n \div 2 ELSE MinMergeSize
<1>2. size \in Nat /\ size >= 2
  BY <1>1
<1> HIDE DEF size
<1>3. SliceEnd(start, n) = IF start + size - 1 < n THEN start + size - 1 ELSE n
  BY DEF SliceEnd, size
<1>4. CASE start + size - 1 < n
  BY <1>1, <1>2, <1>3, <1>4
<1>5. CASE ~(start + size - 1 < n)
  BY <1>1, <1>2, <1>3, <1>5
<1> QED BY <1>4, <1>5

LEMMA MergePickStep ==
  ASSUME CoreInv, MergePick
  PROVE  CoreInv'
<1> USE DatabaseAssumption
<1> DEFINE n == Len(state.segments)
<1>1. /\ merge.owner # Null /\ merge.pc = "pick"
      /\ UNCHANGED <<heap, state, nextSegID, lock, wg, err, auto, closer, flushing,
                     callers, fault>>
  BY DEF MergePick
<1>2. /\ state.segments \in Seq(Ref) /\ n \in Nat
      /\ merge \in [owner : {Null, "auto", Closer}, pc : {"pick", "write", "swap"},
                    start : Nat, slice : Chains]
  BY DEF CoreInv, TypeOK, StateType, ThreadsType, Chains
<1>3. WgCounts' /\ CloserOrder' /\ WritersLocked' /\ MemoryNewest' /\ FailuresRecorded'
  BY <1>1 DEF CoreInv, WgCounts, AutoShare, CloserOrder, WritersLocked, MemoryNewest,
     FailuresRecorded, heap, callers
<1>4. CASE MergeEnough(n, MergeLimit)
  <2>1. merge' = NoMerge
    BY <1>4 DEF MergePick
  <2>2. ThreadsType'
    <3>1. <<>> \in Chains
      BY EmptySeq DEF Chains
    <3> QED BY <1>1, <2>1, <3>1 DEF CoreInv, TypeOK, ThreadsType, heap, NoMerge
  <2>3. TypeOK'
    BY <1>1, <2>2, TypeFrame DEF CoreInv, TypeOK, StateType
  <2>4. SegmentsInv'
    <3>1. merge'.pc = "pick" /\ merge.pc # "swap"
      BY <1>1, <2>1 DEF NoMerge
    <3> QED BY <3>1, <1>1, CoreInvParts, MergeFrame DEF callers, heap
  <2>5. MergeOwned'
    BY <1>1, <2>1 DEF MergeOwned, NoMerge, Closer
  <2> QED BY <1>3, <2>3, <2>4, <2>5, CoreInvParts DEF ThreadsInv
<1>5. CASE ~MergeEnough(n, MergeLimit)
  <2>1. PICK start \in Smallest(n) :
          merge' = [merge EXCEPT !.pc = "write", !.start = start,
                                 !.slice = SubSeq(state.segments, start, SliceEnd(start, n))]
    BY <1>5 DEF MergePick
  <2> DEFINE last == SliceEnd(start, n)
             slice == SubSeq(state.segments, start, last)
  <2>2. last \in 1..n /\ last > start /\ start \in Nat /\ start >= 1
    BY <1>2, SliceEndBounds DEF Smallest
  <2> HIDE DEF last
  <2>3. \A i \in start..last : state.segments[i] \in Ref
    <3> TAKE i \in start..last
    <3>1. i \in 1..n
      BY <1>2, <2>2
    <3> QED BY <1>2, <3>1, ElementOfSeq
  <2>4. /\ slice \in Seq(Ref) /\ Len(slice) = last - start + 1
        /\ \A i \in 1..(last - start + 1) : slice[i] = state.segments[start + i - 1]
    BY <1>2, <2>2, <2>3, SubSeqProperties
  <2> HIDE DEF slice
  <2>5. merge' = [merge EXCEPT !.pc = "write", !.start = start, !.slice = slice]
    BY <2>1 DEF slice, last
  <2>6. /\ merge'.owner = merge.owner /\ merge'.pc = "write"
        /\ merge'.start = start /\ merge'.slice = slice
    BY <1>2, <2>5
  <2>7. ThreadsType'
    BY <1>1, <1>2, <2>2, <2>4, <2>5 DEF CoreInv, TypeOK, ThreadsType, heap, Chains
  <2>8. TypeOK'
    BY <1>1, <2>7, TypeFrame DEF CoreInv, TypeOK, StateType
  <2>9. SliceInPlace'
    <3>1. Len(slice) >= 2 /\ start + Len(slice) - 1 <= n
      BY <1>2, <2>2, <2>4
    <3>2. \A i \in 1..Len(slice) : slice[i] = state.segments[start + i - 1]
      BY <2>4
    <3> QED BY <1>1, <2>2, <2>6, <3>1, <3>2 DEF SliceInPlace
  <2>10. Chain' = Chain
    BY <1>1 DEF Chain
  <2>11. /\ SegmentsOrdered' /\ ChainInHeap' /\ HeapNested' /\ TargetMerged' /\ SnapsFrozen'
         /\ LeftApart'
    BY <1>1, <2>6, <2>10 DEF CoreInv, SegmentsOrdered, ChainInHeap, HeapNested,
       TargetMerged, SnapsFrozen, LeftApart, heap, callers
  <2>12. MergeOwned'
    BY <1>1, <2>6 DEF CoreInv, MergeOwned
  <2> QED BY <1>3, <2>8, <2>9, <2>11, <2>12, CoreInvParts DEF ThreadsInv, SegmentsInv
<1> QED BY <1>4, <1>5

\* The slice of a merge is also a slice of the whole chain.
LEMMA MergeIsSliceOfChain ==
  ASSUME CoreInv, merge.pc # "pick"
  PROVE  /\ Chain \in Seq(Ref) /\ Ordered(Chain) /\ Ascending(Chain)
         /\ IsSlice(Chain, merge.start, merge.slice)
         /\ TargetOf(merge.slice) \in Ref
<1>1. Chain \in Seq(Ref) /\ Ordered(Chain) /\ Ascending(Chain)
  BY ChainType, OrderedAscends DEF CoreInv, TypeOK, SegmentsOrdered
<1>2. IsSlice(state.segments, merge.start, merge.slice) /\ state.segments \in Seq(Ref)
      /\ TargetOf(merge.slice) \in Ref /\ merge.slice \in Seq(Ref)
  BY MergeIsSlice, TargetProperties
<1>3. CASE state.memory = Null
  BY <1>1, <1>2, <1>3 DEF Chain
<1>4. CASE state.memory # Null
  <2>1. state.memory \in Ref
    BY <1>4 DEF CoreInv, TypeOK, StateType
  <2> QED BY <1>1, <1>2, <1>4, <2>1, SpliceAppend DEF Chain
<1> QED BY <1>1, <1>2, <1>3, <1>4

\* Before it is written there is no segment with the name of the merged one,
\* unless a merge that failed has left it.
LEMMA TargetIsFree ==
  ASSUME CoreInv, merge.pc = "write"
  PROVE  /\ TargetOf(merge.slice) \in Ref
         /\ TargetOf(merge.slice) \notin Members(Chain)
         /\ TargetOf(merge.slice) \notin DOMAIN contents \ left
         /\ TargetOf(merge.slice)[1] < TargetOf(merge.slice)[2]
         /\ TargetOf(merge.slice)[2] <= nextSegID
         /\ MergedSlice \in Content
<1> USE DatabaseAssumption
<1> DEFINE target == TargetOf(merge.slice)
           last == merge.start + Len(merge.slice) - 1
<1>1. \A i \in 1..Len(Chain) : ~Within(target, Chain[i])
  BY MergeIsSlice, MergeIsSliceOfChain, TargetIsNew
<1>2. target \notin DOMAIN contents \ left
  BY <1>1 DEF CoreInv, HeapNested
<1>3. target \in Ref /\ target[1] \in Nat /\ target[2] \in Nat
  BY MergeIsSliceOfChain DEF Ref
<1>4. target \notin Members(Chain)
  <2> SUFFICES ASSUME NEW i \in 1..Len(Chain), target = Chain[i] PROVE FALSE
    BY DEF Members
  <2>1. Within(target, Chain[i])
    BY <1>3 DEF Within
  <2> QED BY <2>1, <1>1
<1>5. /\ merge.start \in 1..Len(state.segments) /\ last \in 1..Len(state.segments)
      /\ merge.start < last
      /\ target[1] = state.segments[merge.start][1] /\ target[2] = state.segments[last][2]
      /\ state.segments \in Seq(Ref) /\ Ordered(state.segments)
  <2>1. /\ merge.slice \in Seq(Ref) /\ state.segments \in Seq(Ref) /\ Len(merge.slice) >= 2
        /\ IsSlice(state.segments, merge.start, merge.slice)
        /\ Ordered(state.segments) /\ Ascending(state.segments)
    BY MergeIsSlice
  <2>2. merge.start < last
    BY <2>1 DEF IsSlice
  <2> QED BY ONLY <2>1, <2>2, TargetProperties
<1> DEFINE first == state.segments[merge.start]
           end == state.segments[last]
<1>6. target[1] < target[2]
  <2>1. first[1] <= first[2] /\ first[2] < end[1] /\ end[1] <= end[2]
    BY <1>5 DEF Ordered
  <2>2. first \in Ref /\ end \in Ref
    BY <1>5, ElementOfSeq
  <2>3. first[1] \in Nat /\ first[2] \in Nat /\ end[1] \in Nat /\ end[2] \in Nat
    BY <2>2 DEF Ref
  <2>4. target[1] = first[1] /\ target[2] = end[2]
    BY <1>5
  <2> QED BY ONLY <2>1, <2>3, <2>4
<1>7. target[2] <= nextSegID
  <2>1. Len(state.segments) <= Len(Chain) /\ Chain \in Seq(Ref)
        /\ \A i \in 1..Len(state.segments) : Chain[i] = state.segments[i]
    BY ChainType DEF CoreInv, TypeOK
  <2>2. last \in 1..Len(Chain) /\ Chain[last] = state.segments[last]
    BY <1>5, <2>1
  <2> QED BY <1>5, <2>2 DEF CoreInv, ChainInHeap
<1>8. MergedSlice \in Content
  <2>1. \A i \in 1..Len(merge.slice) : contents[merge.slice[i]] \in Content
    BY SliceInHeap DEF CoreInv, TypeOK, HeapType
  <2>2. merge.slice \in Seq(Ref)
    BY MergeIsSlice
  <2> QED BY <2>1, <2>2, LayersProperties, MergedType DEF MergedSlice
<1> QED BY <1>2, <1>3, <1>4, <1>6, <1>7, <1>8

\* What a merge leaves that throws: everything as it was, or files with the name
\* of its target.
Leaves(what) ==
  \/ UNCHANGED <<contents, files, left>>
  \/ LET target == TargetOf(merge.slice)
     IN  /\ what = "io"
         /\ ~InTheWay(target)
         /\ left' = left \cup {target}
         /\ contents' = With(contents, target, MergedSlice)
         /\ files' = files \/ files' = files \cup {target}

\* What a merge throws, and which merge.
MayThrow(what) ==
  \/ what = "io" /\ IOErrors
  \/ what = "exists" /\ merge.owner = Closer /\ err = "io" /\ left # {}

LEMMA MergeThrowsStep ==
  ASSUME CoreInv, merge.pc = "write", NEW what, MayThrow(what), MergeThrows(what), Leaves(what)
  PROVE  CoreInv'
<1> USE DatabaseAssumption
<1> DEFINE target == TargetOf(merge.slice)
<1>1. /\ merge' = NoMerge /\ deleted' = deleted
      /\ UNCHANGED <<diskSegments, state, nextSegID, wg, auto, flushing, callers, fault>>
      /\ \/ merge.owner = "auto" /\ err' = what /\ UNCHANGED <<closer, lock>>
         \/ /\ merge.owner # "auto"
            /\ closer' = [closer EXCEPT !.pc = "failed", !.why = what]
            /\ lock' = Null /\ err' = err
  BY DEF MergeThrows, DeletedWhenMergeThrows
<1>2. /\ closer \in [pc : {"idle", "waiting", "merging", "flushing", "closed", "failed"},
                     count : Nat, why : {"none", "io", "exists", "changed"}]
      /\ merge.owner \in {"auto", Closer}
      /\ err \in {"none", "io", "exists", "changed"}
      /\ what \in {"io", "exists"}
  BY DEF CoreInv, TypeOK, ThreadsType, MergeOwned, MayThrow
<1>3. \/ /\ UNCHANGED <<closer, lock>>
         /\ merge.owner = "auto" /\ what = "io" /\ err' = "io"
      \/ /\ closer.pc = "merging" /\ closer'.pc = "failed" /\ closer'.count = closer.count
         /\ closer.why = "none" /\ closer'.why = what
         /\ lock = Closer /\ lock' = Null /\ err' = err
  BY <1>1, <1>2 DEF CoreInv, MergeOwned, CloserOrder, FailuresRecorded, MayThrow, Closer
<1>4. /\ target \in Ref /\ target \notin Members(Chain) /\ target[1] < target[2]
      /\ target[2] <= nextSegID /\ target \notin DOMAIN contents \ left
      /\ MergedSlice \in Content
  BY TargetIsFree
<1>5. \/ contents' = contents /\ files' = files /\ left' = left
      \/ /\ DOMAIN contents' = DOMAIN contents \cup {target}
         /\ contents'[target] = MergedSlice
         /\ \A r \in DOMAIN contents : contents'[r] = contents[r]
         /\ files' \subseteq files \cup {target}
         /\ left' = left \cup {target}
         /\ what = "io"
  BY <1>4 DEF Leaves, With, InTheWay
<1> HIDE DEF target
<1>6. HeapType'
  BY <1>1, <1>4, <1>5 DEF CoreInv, TypeOK, HeapType
<1>7. StateType' /\ CallersType'
  BY <1>1, <1>2, <1>3 DEF CoreInv, TypeOK, StateType, CallersType, callers
<1>8. ThreadsType'
  <2>1. <<>> \in Chains
    BY EmptySeq DEF Chains
  <2>2. closer' \in [pc : {"idle", "waiting", "merging", "flushing", "closed", "failed"},
                     count : Nat, why : {"none", "io", "exists", "changed"}]
    BY <1>1, <1>2
  <2>3. DOMAIN contents \subseteq DOMAIN contents'
    BY <1>5
  <2> QED BY <1>1, <1>2, <2>1, <2>2, <2>3 DEF CoreInv, TypeOK, ThreadsType, NoMerge
<1>9. Chain' = Chain
  BY <1>1 DEF Chain
<1>10. merge'.pc = "pick" /\ merge'.owner = Null
  BY <1>1 DEF NoMerge
<1>11. SegmentsOrdered' /\ ChainInHeap' /\ SnapsFrozen'
  BY <1>1, <1>5, <1>9 DEF CoreInv, SegmentsOrdered, ChainInHeap, SnapsFrozen, callers
<1>12. SliceInPlace' /\ TargetMerged'
  BY <1>10 DEF SliceInPlace, TargetMerged
<1>13. HeapNested'
  BY <1>5, <1>9 DEF CoreInv, HeapNested
<1>14. LeftApart'
  BY <1>1, <1>4, <1>5, <1>9 DEF CoreInv, LeftApart
<1>15. WgCounts' /\ MemoryNewest'
  BY <1>1, <1>3 DEF CoreInv, WgCounts, AutoShare, MemoryNewest
<1>16. CloserOrder'
  BY <1>1, <1>3 DEF CoreInv, CloserOrder, Closer
<1>17. MergeOwned'
  BY <1>10 DEF MergeOwned, Closer
<1>18. WritersLocked'
  BY <1>1, <1>3 DEF CoreInv, WritersLocked, callers
<1>19. FailuresRecorded'
  <2>1. left' # {} => left # {} \/ what = "io"
    BY <1>5
  <2>2. left # {} => left' # {}
    BY <1>5
  <2> QED BY <1>3, <2>1, <2>2 DEF CoreInv, FailuresRecorded, MayThrow
<1> QED BY <1>6, <1>7, <1>8, <1>11, <1>12, <1>13, <1>14, <1>15, <1>16, <1>17, <1>18, <1>19,
           CoreInvParts DEF TypeOK, ThreadsInv, SegmentsInv

\* Files in the way of a merge are those the merger thread left when it failed,
\* and the merge that meets them is that of a close.
LEMMA MeetsFilesLeft ==
  ASSUME CoreInv, merge.pc = "write", InTheWay(TargetOf(merge.slice))
  PROVE  merge.owner = Closer /\ err = "io" /\ TargetOf(merge.slice) \in left
<1>1. TargetOf(merge.slice) \in left
  BY TargetIsFree DEF InTheWay, CoreInv, TypeOK, HeapType
<1>2. err = "io" \/ closer.pc = "failed"
  BY <1>1 DEF CoreInv, FailuresRecorded
<1>3. merge.owner \in {"auto", Closer}
  BY DEF CoreInv, TypeOK, ThreadsType, MergeOwned
<1>4. CASE merge.owner = "auto"
  BY <1>2, <1>4 DEF CoreInv, MergeOwned, CloserOrder
<1>5. CASE merge.owner = Closer
  BY <1>1, <1>2, <1>5 DEF CoreInv, MergeOwned
<1> QED BY <1>3, <1>4, <1>5

LEMMA MergeWriteStep ==
  ASSUME CoreInv, MergeWrite
  PROVE  CoreInv'
<1> USE DatabaseAssumption
<1> DEFINE target == TargetOf(merge.slice)
           merged == MergedSlice
<1>1. merge.pc = "write" /\ target \notin DOMAIN contents \ left
  BY TargetIsFree DEF MergeWrite
<1>2. CASE MergeMeetsFiles
  BY <1>1, <1>2, MeetsFilesLeft, MergeThrowsStep DEF MergeMeetsFiles, MayThrow, Leaves
<1>4. CASE MergeWriteFails
  BY <1>1, <1>4, MergeThrowsStep DEF MergeWriteFails, MayThrow, Leaves
<1>3. CASE MergeWritten
  <2>0. /\ target \notin left /\ target \notin DOMAIN contents
        /\ contents' = With(contents, target, merged)
        /\ diskSegments' = diskSegments \cup {target}
        /\ files' = files \cup {target}
        /\ deleted' = deleted \cup (Members(merge.slice) \cap diskSegments)
        /\ merge' = [merge EXCEPT !.pc = "swap"]
        /\ UNCHANGED <<left, state, nextSegID, lock, wg, err, auto, closer, flushing,
                       callers, fault>>
    BY <1>1, <1>3 DEF MergeWritten, InTheWay
  <2>1. /\ DOMAIN contents' = DOMAIN contents \cup {target}
        /\ contents'[target] = merged
        /\ \A r \in DOMAIN contents : contents'[r] = contents[r]
    BY <1>1, <2>0 DEF With
  <2>2. merge.slice \in Seq(Ref) /\ target \in Ref
    BY <1>1, MergeIsSlice, MergeIsSliceOfChain
  <2>3. merge \in [owner : {Null, "auto", Closer}, pc : {"pick", "write", "swap"},
                   start : Nat, slice : Chains]
    BY DEF CoreInv, TypeOK, ThreadsType
  <2>4. /\ merge'.owner = merge.owner /\ merge'.pc = "swap"
        /\ merge'.start = merge.start /\ merge'.slice = merge.slice
    BY <2>0, <2>3
  <2>5. merged \in Content
    BY <1>1, TargetIsFree
  <2>6. Layers(merge.slice)' = Layers(merge.slice)
    BY <1>1, <2>1, <2>4, SliceInHeap DEF Layers
  <2> HIDE DEF target, merged
  <2>7. HeapType'
    BY <2>0, <2>1, <2>2, <2>5 DEF CoreInv, TypeOK, HeapType
  <2>8. ThreadsType'
    BY <2>0, <2>1, <2>3 DEF CoreInv, TypeOK, ThreadsType
  <2>9. StateType' /\ CallersType'
    BY <2>0 DEF CoreInv, TypeOK, StateType, CallersType, callers
  <2>10. Chain' = Chain
    BY <2>0 DEF Chain
  <2>11. SegmentsOrdered' /\ ChainInHeap' /\ SnapsFrozen' /\ LeftApart'
    BY <2>0, <2>1, <2>10 DEF CoreInv, SegmentsOrdered, ChainInHeap, SnapsFrozen, LeftApart,
                             callers
  <2>12. SliceInPlace'
    BY <1>1, <2>0, <2>4 DEF CoreInv, SliceInPlace
  <2>13. HeapNested'
    BY <1>1, <2>0, <2>1, <2>4, <2>10 DEF CoreInv, HeapNested, target
  <2>14. TargetMerged'
    BY <2>0, <2>1, <2>4, <2>6 DEF TargetMerged, MergedSlice, target, merged
  <2>15. ThreadsInv'
    BY <2>0, <2>4, <1>1 DEF CoreInv, ThreadsInv, WgCounts, AutoShare, CloserOrder, MergeOwned,
       WritersLocked, MemoryNewest, FailuresRecorded, callers
  <2> QED BY <2>7, <2>8, <2>9, <2>11, <2>12, <2>13, <2>14, <2>15, CoreInvParts
          DEF TypeOK, SegmentsInv
<1> QED BY <1>2, <1>3, <1>4 DEF MergeWrite

\* When the merge comes back to the list its slice is where it was.
LEMMA SliceStaysUnchanged ==
  ASSUME CoreInv, merge.pc # "pick"
  PROVE  SliceUnchanged
<1> DEFINE last == merge.start + Len(merge.slice) - 1
           sub == SubSeq(state.segments, merge.start, last)
<1>1. /\ merge.slice \in Seq(Ref) /\ state.segments \in Seq(Ref)
      /\ merge.start \in Nat /\ merge.start >= 1 /\ Len(merge.slice) \in Nat
      /\ Len(merge.slice) >= 2 /\ last <= Len(state.segments)
      /\ \A i \in 1..Len(merge.slice) :
           merge.slice[i] = state.segments[merge.start + i - 1]
  BY MergeIsSlice DEF IsSlice
<1>2. last \in Int /\ merge.start \in Int /\ merge.start <= last
      /\ last - merge.start + 1 = Len(merge.slice) /\ Len(state.segments) \in Nat
  BY <1>1
<1> HIDE DEF last
<1>3. \A i \in merge.start..last : state.segments[i] \in Ref
  <2> TAKE i \in merge.start..last
  <2>1. i \in 1..Len(state.segments)
    BY <1>1, <1>2 DEF last
  <2> QED BY <1>1, <2>1, ElementOfSeq
<1>4. /\ sub \in Seq(Ref) /\ Len(sub) = Len(merge.slice)
      /\ \A i \in 1..Len(merge.slice) : sub[i] = state.segments[merge.start + i - 1]
  BY <1>2, <1>3, SubSeqProperties
<1> HIDE DEF sub
<1>5. sub = merge.slice
  BY <1>1, <1>4, SeqEqual
<1> QED BY <1>1, <1>5 DEF SliceUnchanged, sub, last

LEMMA MergeSwapStep ==
  ASSUME CoreInv, MergeSwap
  PROVE  CoreInv'
<1> USE DatabaseAssumption
<1> DEFINE target == TargetOf(merge.slice)
           segments == Splice(state.segments, merge.start, merge.slice, target)
           chain == Splice(Chain, merge.start, merge.slice, target)
<1>1. merge.pc = "swap" /\ SliceUnchanged
  BY SliceStaysUnchanged DEF MergeSwap
<1>2. /\ state' = [segments |-> segments, memory |-> state.memory,
                   multi |-> Append(segments, state.memory)]
      /\ merge' = [NoMerge EXCEPT !.owner = merge.owner]
      /\ UNCHANGED <<heap, nextSegID, lock, wg, err, auto, closer, flushing, callers, fault>>
  BY <1>1 DEF MergeSwap
<1>3. /\ merge.slice \in Seq(Ref) /\ state.segments \in Seq(Ref) /\ target \in Ref
      /\ IsSlice(state.segments, merge.start, merge.slice)
      /\ Chain \in Seq(Ref) /\ IsSlice(Chain, merge.start, merge.slice)
      /\ Ordered(Chain) /\ Ascending(Chain)
  BY <1>1, MergeIsSlice, MergeIsSliceOfChain
<1>4. segments \in Seq(Ref)
  BY ONLY <1>3, SpliceProperties
<1>5. state'.segments = segments /\ state'.memory = state.memory
      /\ state'.multi = Append(segments, state.memory)
  BY <1>2
<1>6. Chain' = chain
  <2>1. CASE state.memory = Null
    BY <2>1, <1>5 DEF Chain
  <2>2. CASE state.memory # Null
    <3>1. state.memory \in Ref
      BY <2>2 DEF CoreInv, TypeOK, StateType
    <3>2. Append(segments, state.memory)
            = Splice(Append(state.segments, state.memory), merge.start, merge.slice, target)
      BY ONLY <1>3, <3>1, SpliceAppend
    <3> QED BY <2>2, <3>2, <1>5 DEF Chain
  <2> QED BY <2>1, <2>2
<1>7. /\ chain \in Seq(Ref) /\ Len(chain) = Len(Chain) - Len(merge.slice) + 1
      /\ \A i \in 1..Len(chain) :
           /\ i < merge.start => chain[i] = Chain[i]
           /\ i = merge.start => chain[i] = target
           /\ i > merge.start => /\ i + Len(merge.slice) - 1 \in 1..Len(Chain)
                                 /\ chain[i] = Chain[i + Len(merge.slice) - 1]
  <2>1. /\ merge.slice \in Seq(Ref) /\ Chain \in Seq(Ref) /\ target \in Ref
        /\ IsSlice(Chain, merge.start, merge.slice)
    BY <1>3
  <2>2. chain = Splice(Chain, merge.start, merge.slice, target)
    OBVIOUS
  <2> HIDE DEF chain, target
  <2>3. chain \in Seq(Ref)
    BY ONLY <2>1, <2>2, SplicedProperties
  <2>4. Len(chain) = Len(Chain) - Len(merge.slice) + 1
    <3> DEFINE slice == merge.slice
               start == merge.start
               list == Chain
    <3>1. slice \in Seq(Ref) /\ list \in Seq(Ref) /\ IsSlice(list, start, slice)
      BY <2>1
    <3>2. chain = Splice(list, start, slice, target)
      BY <2>2
    <3> HIDE DEF slice, start, list
    <3>3. Len(chain) = Len(list) - Len(slice) + 1
      BY ONLY <2>1, <3>1, <3>2, SplicedLength
    <3> QED BY <3>3 DEF slice, list
  <2>5. ASSUME NEW i \in 1..Len(chain)
        PROVE  /\ i < merge.start => chain[i] = Chain[i]
               /\ i = merge.start => chain[i] = target
               /\ i > merge.start => /\ i + Len(merge.slice) - 1 \in 1..Len(Chain)
                                     /\ chain[i] = Chain[i + Len(merge.slice) - 1]
    BY ONLY <2>1, <2>2, <2>5, SplicedProperties
  <2> QED BY ONLY <2>3, <2>4, <2>5
<1>8. /\ merge.start \in 1..Len(chain) /\ chain[merge.start] = target
      /\ \A i \in 1..Len(Chain) : \E j \in 1..Len(chain) : Within(Chain[i], chain[j])
  BY ONLY <1>3, SpliceCovers
<1>9. Ordered(chain)
  BY ONLY <1>3, SpliceOrdered
<1>10. target \in DOMAIN contents /\ target \notin left
  BY <1>1 DEF CoreInv, TargetMerged
<1> HIDE DEF target, segments, chain
<1>11. HeapType' /\ ThreadsType' /\ CallersType'
  <2>1. <<>> \in Chains
    BY EmptySeq DEF Chains
  <2> QED BY <1>2, <2>1 DEF CoreInv, TypeOK, HeapType, ThreadsType, CallersType, heap,
             callers, NoMerge
<1>12. StateType'
  <2>1. state.memory \in Ref \cup {Null}
    BY DEF CoreInv, TypeOK, StateType
  <2>2. segments \in Seq(Ref \cup {Null})
    BY <1>4, SeqMonotonic
  <2>3. Append(segments, state.memory) \in Seq(Ref \cup {Null})
    BY <2>1, <2>2, AppendProperties
  <2> QED BY <1>2, <1>4, <2>1, <2>3 DEF CoreInv, TypeOK, StateType, Chains, Multis
<1>13. SegmentsOrdered'
  BY <1>6, <1>9 DEF SegmentsOrdered
<1>14. ChainInHeap'
  <2> SUFFICES ASSUME NEW i \in 1..Len(chain)
               PROVE  chain[i] \in DOMAIN contents /\ chain[i][2] <= nextSegID
    BY <1>2, <1>6 DEF ChainInHeap, heap
  <2>1. i \in Nat /\ merge.start \in Nat /\ Len(merge.slice) \in Nat /\ Len(Chain) \in Nat
        /\ Len(merge.slice) >= 1
    BY <1>3, <1>8 DEF IsSlice
  <2>2. CASE i < merge.start
    <3>1. i \in 1..Len(Chain)
      BY <2>1, <2>2, <1>7
    <3> QED BY <2>2, <3>1, <1>7 DEF CoreInv, ChainInHeap
  <2>3. CASE i = merge.start
    BY <2>3, <1>7, <1>10, HeapBound
  <2>4. CASE i > merge.start
    BY <2>4, <1>7 DEF CoreInv, ChainInHeap
  <2> QED BY <2>1, <2>2, <2>3, <2>4
<1>15. SliceInPlace' /\ TargetMerged'
  BY <1>2 DEF SliceInPlace, TargetMerged, NoMerge
<1>16. HeapNested'
  <2> SUFFICES ASSUME NEW r \in DOMAIN contents
               PROVE  (\E j \in 1..Len(chain) : Within(r, chain[j])) \/ r \in left
    BY <1>2, <1>6 DEF HeapNested, heap
  <2>1. CASE r = TargetOf(merge.slice)
    <3>1. r[1] \in Nat /\ r[2] \in Nat
      BY DEF CoreInv, TypeOK, HeapType, Ref
    <3> QED BY <2>1, <3>1, <1>8 DEF Within, target
  <2>2. CASE \E i \in 1..Len(Chain) : Within(r, Chain[i])
    <3>1. PICK i \in 1..Len(Chain) : Within(r, Chain[i])
      BY <2>2
    <3>2. PICK j \in 1..Len(chain) : Within(Chain[i], chain[j])
      BY <1>8
    <3>3. /\ r \in Ref /\ Chain[i] \in Ref /\ chain[j] \in Ref
      BY <1>3, <1>7, ElementOfSeq DEF CoreInv, TypeOK, HeapType
    <3>4. Within(r, chain[j])
      BY <3>1, <3>2, <3>3 DEF Within, Ref
    <3> QED BY <3>4
  <2> QED BY <2>1, <2>2 DEF CoreInv, HeapNested
<1>17. SnapsFrozen'
  BY <1>2, <1>5 DEF CoreInv, SnapsFrozen, heap, callers
<1>21. LeftApart'
  <2> SUFFICES ASSUME NEW r \in left, r \in Members(chain) PROVE FALSE
    BY <1>2, <1>6 DEF CoreInv, LeftApart, heap
  <2>1. PICK i \in 1..Len(chain) : r = chain[i]
    BY DEF Members
  <2>2. i \in Nat /\ merge.start \in Nat /\ Len(merge.slice) \in Nat /\ Len(Chain) \in Nat
        /\ Len(merge.slice) >= 1
    BY <1>3, <1>8 DEF IsSlice
  <2>3. CASE i < merge.start
    <3>1. i \in 1..Len(Chain) /\ r = Chain[i]
      BY <2>1, <2>2, <2>3, <1>7
    <3> QED BY <3>1 DEF CoreInv, LeftApart, Members
  <2>4. CASE i = merge.start
    BY <2>1, <2>4, <1>7, <1>10
  <2>5. CASE i > merge.start
    <3>1. i + Len(merge.slice) - 1 \in 1..Len(Chain) /\ r = Chain[i + Len(merge.slice) - 1]
      BY <2>1, <2>5, <1>7
    <3> QED BY <3>1 DEF CoreInv, LeftApart, Members
  <2> QED BY <2>2, <2>3, <2>4, <2>5
<1>18. MemoryNewest'
  BY <1>2, <1>5 DEF CoreInv, MemoryNewest
<1>19. WgCounts' /\ CloserOrder' /\ FailuresRecorded' /\ WritersLocked'
  BY <1>2, <1>5 DEF CoreInv, WgCounts, AutoShare, CloserOrder, FailuresRecorded,
     WritersLocked, heap, callers
<1>20. MergeOwned'
  BY <1>2 DEF CoreInv, MergeOwned, NoMerge
<1> QED BY <1>11, <1>12, <1>13, <1>14, <1>15, <1>16, <1>17, <1>18, <1>19, <1>20, <1>21,
           CoreInvParts
        DEF TypeOK, ThreadsInv, SegmentsInv

-----------------------------------------------------------------------------
(* closeWithMerge.                                                         *)

LEMMA CloseBeginStep ==
  ASSUME CoreInv, NEW count \in CloseCounts, CloseBegin(count)
  PROVE  CoreInv'
<1> USE DatabaseAssumption
<1>1. /\ closer.pc = "idle"
      /\ closer' = [closer EXCEPT !.pc = "waiting", !.count = count]
      /\ UNCHANGED <<heap, state, nextSegID, lock, wg, err, auto, merge, flushing,
                     callers, fault>>
  BY DEF CloseBegin
<1>2. ThreadsType'
  BY <1>1 DEF CoreInv, TypeOK, ThreadsType, heap
<1>3. TypeOK'
  BY <1>1, <1>2, TypeFrame DEF CoreInv, TypeOK, StateType
<1>4. SegmentsInv'
  BY <1>1, CoreInvParts, SegmentsFrame DEF callers
<1>6. closer'.pc = "waiting" /\ closer'.why = closer.why
  BY <1>1 DEF CoreInv, TypeOK, ThreadsType
<1>5. ThreadsInv'
  BY <1>1, <1>6 DEF CoreInv, ThreadsInv, WgCounts, AutoShare, CloserOrder, MergeOwned,
     WritersLocked, MemoryNewest, FailuresRecorded, heap, callers
<1> QED BY <1>3, <1>4, <1>5, CoreInvParts

\* A close that waits for wg to become 0 waits for the merger thread to exit.
LEMMA NothingLeftToWaitFor ==
  ASSUME CoreInv, wg = 0
  PROVE  auto = "exited" /\ flushing = {}
<1>1. /\ IsFiniteSet(flushing) /\ Cardinality(flushing) \in Nat
      /\ wg = AutoShare + Cardinality(flushing)
  BY FS_CardinalityType DEF CoreInv, WgCounts
<1>2. auto \in {"wait", "merge", "exited"}
  BY DEF CoreInv, TypeOK, ThreadsType
<1>3. AutoShare \in Nat /\ AutoShare = 0 => auto = "exited"
  BY <1>2 DEF AutoShare
<1>4. AutoShare = 0 /\ Cardinality(flushing) = 0
  BY <1>1, <1>2 DEF AutoShare
<1> QED BY <1>1, <1>3, <1>4, FS_EmptySet DEF AutoShare

LEMMA CloseLockStep ==
  ASSUME CoreInv, CloseLock
  PROVE  CoreInv'
<1> USE DatabaseAssumption
<1>1. /\ closer.pc = "waiting" /\ wg = 0 /\ lock = Null /\ lock' = Closer
      /\ state' = [segments |-> Append(state.segments, state.memory), memory |-> Null,
                   multi |-> Null]
      /\ closer' = [closer EXCEPT !.pc = "merging"]
      /\ merge' = IF closer.count > 0 /\ merge.owner = Null
                  THEN [NoMerge EXCEPT !.owner = Closer] ELSE merge
      /\ UNCHANGED <<heap, nextSegID, wg, err, auto, flushing, callers, fault>>
  BY DEF CloseLock, CloseMayLock, LockFree, ChainAtClose
<1>2. auto = "exited" /\ flushing = {} /\ state.memory # Null /\ merge.owner = Null
      /\ merge.pc = "pick"
  <2>1. merge.owner \in {Null, "auto", Closer}
    BY DEF CoreInv, TypeOK, ThreadsType
  <2> QED BY <2>1, <1>1, NothingLeftToWaitFor DEF CoreInv, MemoryNewest, MergeOwned
<1>3. Chain = Append(state.segments, state.memory) /\ Chain \in Seq(Ref) /\ Chain' = Chain
  BY <1>1, <1>2, ChainType DEF Chain, CoreInv, TypeOK
<1>4. /\ closer.count \in Nat /\ closer'.pc = "merging" /\ closer'.count = closer.count
      /\ closer'.why = closer.why
  BY <1>1 DEF CoreInv, TypeOK, ThreadsType
<1>5. ThreadsType'
  <2>1. <<>> \in Chains
    BY EmptySeq DEF Chains
  <2> QED BY <1>1, <1>2, <2>1 DEF CoreInv, TypeOK, ThreadsType, NoMerge, heap
<1>6. StateType' /\ HeapType' /\ CallersType'
  BY <1>1, <1>3 DEF CoreInv, TypeOK, StateType, HeapType, CallersType, Chains, Multis,
     heap, callers
<1>7. merge'.pc = "pick"
  BY <1>1, <1>2 DEF NoMerge
<1>8. /\ SegmentsOrdered' /\ ChainInHeap' /\ SliceInPlace' /\ HeapNested' /\ TargetMerged'
      /\ LeftApart'
  BY <1>1, <1>2, <1>3, <1>7 DEF CoreInv, SegmentsOrdered, ChainInHeap, SliceInPlace,
     HeapNested, TargetMerged, LeftApart, heap
<1>9. SnapsFrozen'
  BY <1>1 DEF CoreInv, SnapsFrozen, TypeOK, HeapType, heap, callers
<1>10. WgCounts' /\ CloserOrder' /\ MemoryNewest' /\ FailuresRecorded'
  BY <1>1, <1>2, <1>4 DEF CoreInv, WgCounts, AutoShare, CloserOrder, MemoryNewest,
     FailuresRecorded, heap
<1>11. MergeOwned'
  BY <1>1, <1>2, <1>4 DEF CoreInv, MergeOwned, NoMerge, Closer
<1>12. WritersLocked'
  BY <1>1 DEF CoreInv, WritersLocked, callers
<1> QED BY <1>5, <1>6, <1>8, <1>9, <1>10, <1>11, <1>12, CoreInvParts
        DEF TypeOK, ThreadsInv, SegmentsInv

LEMMA CloseEnqueueStep ==
  ASSUME CoreInv, CloseEnqueue
  PROVE  CoreInv'
<1> USE DatabaseAssumption
<1> DEFINE rest == Members(state.segments) \ diskSegments
<1>1. /\ closer.pc = "merging" /\ merge.owner # Closer /\ flushing' = rest
      /\ wg' = wg + Cardinality(rest) /\ closer' = [closer EXCEPT !.pc = "flushing"]
      /\ UNCHANGED <<heap, state, nextSegID, lock, err, auto, merge, callers, fault>>
  BY DEF CloseEnqueue, TasksAdded
<1>2. /\ closer'.pc = "flushing" /\ closer'.count = closer.count
      /\ closer \in [pc : {"idle", "waiting", "merging", "flushing", "closed", "failed"},
                     count : Nat, why : {"none", "io", "exists", "changed"}]
      /\ closer'.why = closer.why
  BY <1>1 DEF CoreInv, TypeOK, ThreadsType
<1>3. auto = "exited" /\ flushing = {}
  BY <1>1 DEF CoreInv, CloserOrder
<1>4. wg = 0
  BY <1>3, FS_EmptySet DEF CoreInv, WgCounts, AutoShare
<1>5. IsFiniteSet(rest) /\ Cardinality(rest) \in Nat
  <2>1. state.segments \in Seq(Ref)
    BY DEF CoreInv, TypeOK, StateType, Chains
  <2>2. IsFiniteSet(Members(state.segments))
    BY <2>1, MembersFinite
  <2> QED BY <2>2, FS_Difference, FS_CardinalityType
<1>6. rest \subseteq DOMAIN contents
  <2>1. ASSUME NEW i \in 1..Len(state.segments)
        PROVE  state.segments[i] \in DOMAIN contents
    <3>1. i \in 1..Len(Chain) /\ Chain[i] = state.segments[i]
      BY ChainType DEF CoreInv, TypeOK
    <3> QED BY <3>1 DEF CoreInv, ChainInHeap
  <2> QED BY <2>1 DEF Members
<1> HIDE DEF rest
<1>7. ThreadsType'
  BY <1>1, <1>2, <1>4, <1>5, <1>6 DEF CoreInv, TypeOK, ThreadsType, heap
<1>8. TypeOK'
  BY <1>1, <1>7, TypeFrame DEF CoreInv, TypeOK, StateType
<1>9. SegmentsInv'
  BY <1>1, CoreInvParts, SegmentsFrame DEF callers
<1>10. WgCounts'
  BY <1>1, <1>3, <1>4, <1>5 DEF WgCounts, AutoShare
<1>11. CloserOrder' /\ MergeOwned' /\ WritersLocked' /\ MemoryNewest' /\ FailuresRecorded'
  BY <1>1, <1>2, <1>3 DEF CoreInv, CloserOrder, MergeOwned, WritersLocked, MemoryNewest,
     FailuresRecorded, heap, callers
<1> QED BY <1>8, <1>9, <1>10, <1>11, CoreInvParts DEF ThreadsInv

LEMMA FlushSegmentStep ==
  ASSUME CoreInv, NEW r \in flushing, FlushSegment(r)
  PROVE  CoreInv'
<1> USE DatabaseAssumption
<1>1. CASE Crash("terminate")
  BY <1>1, CrashStep
<1>2. CASE /\ files' = IF contents[r] = NoEntries THEN files ELSE files \cup {r}
           /\ flushing' = flushing \ {r}
           /\ wg' = wg - 1
           /\ UNCHANGED <<contents, diskSegments, deleted, left, state, nextSegID, lock,
                          err, auto, merge, closer, callers, fault>>
  <2>1. closer.pc = "flushing" /\ auto = "exited"
    BY DEF CoreInv, CloserOrder
  <2>2. IsFiniteSet(flushing) /\ Cardinality(flushing) \in Nat /\ wg = Cardinality(flushing)
    BY <2>1, FS_CardinalityType DEF CoreInv, WgCounts, AutoShare
  <2>3. IsFiniteSet(flushing') /\ Cardinality(flushing') = wg - 1
        /\ Cardinality(flushing') \in Nat
    BY <1>2, <2>2, FS_RemoveElement, FS_CardinalityType
  <2>4. HeapType' /\ ThreadsType'
    BY <1>2, <2>3 DEF CoreInv, TypeOK, HeapType, ThreadsType
  <2>5. StateType' /\ CallersType'
    BY <1>2 DEF CoreInv, TypeOK, StateType, CallersType, callers
  <2>6. Chain' = Chain
    BY <1>2 DEF Chain
  <2>7. /\ SegmentsOrdered' /\ ChainInHeap' /\ SliceInPlace' /\ HeapNested' /\ SnapsFrozen'
        /\ LeftApart'
    BY <1>2, <2>6 DEF CoreInv, SegmentsOrdered, ChainInHeap, SliceInPlace, HeapNested,
       SnapsFrozen, LeftApart, callers
  <2>8. TargetMerged'
    BY <1>2 DEF CoreInv, TargetMerged, MergedSlice, Layers
  <2>9. WgCounts'
    BY <1>2, <2>1, <2>3 DEF WgCounts, AutoShare
  <2>10. CloserOrder' /\ MergeOwned' /\ WritersLocked' /\ MemoryNewest' /\ FailuresRecorded'
    BY <1>2, <2>1 DEF CoreInv, CloserOrder, MergeOwned, WritersLocked, MemoryNewest,
       FailuresRecorded, callers
  <2> QED BY <2>4, <2>5, <2>7, <2>8, <2>9, <2>10, CoreInvParts
          DEF TypeOK, ThreadsInv, SegmentsInv
<1> QED BY <1>1, <1>2 DEF FlushSegment

LEMMA CloseFinishStep ==
  ASSUME CoreInv, CloseFinish
  PROVE  CoreInv'
<1> USE DatabaseAssumption
<1>1. /\ closer.pc = "flushing" /\ wg = 0 /\ closer' = [closer EXCEPT !.pc = "closed"]
      /\ lock' = Null /\ files' = files \ deleted /\ deleted' = {}
      /\ UNCHANGED <<contents, diskSegments, left, state, nextSegID, wg, err, auto, merge,
                     flushing, callers, fault>>
  BY DEF CloseFinish
<1>2. flushing = {} /\ lock = Closer
  BY <1>1, NothingLeftToWaitFor DEF CoreInv, CloserOrder
<1>3. /\ closer'.pc = "closed" /\ closer'.count = closer.count
      /\ closer \in [pc : {"idle", "waiting", "merging", "flushing", "closed", "failed"},
                     count : Nat, why : {"none", "io", "exists", "changed"}]
      /\ closer'.why = closer.why
  BY <1>1 DEF CoreInv, TypeOK, ThreadsType
<1>4. TypeOK'
  BY <1>1, <1>3 DEF CoreInv, TypeOK, HeapType, StateType, ThreadsType, CallersType, callers
<1>5. Chain' = Chain
  BY <1>1 DEF Chain
<1>6. /\ SegmentsOrdered' /\ ChainInHeap' /\ SliceInPlace' /\ HeapNested' /\ SnapsFrozen'
      /\ LeftApart'
  BY <1>1, <1>5 DEF CoreInv, SegmentsOrdered, ChainInHeap, SliceInPlace, HeapNested,
     SnapsFrozen, LeftApart, callers
<1>7. TargetMerged'
  BY <1>1 DEF CoreInv, TargetMerged, MergedSlice, Layers
<1>8. WgCounts' /\ CloserOrder' /\ MergeOwned' /\ MemoryNewest' /\ FailuresRecorded'
  BY <1>1, <1>2, <1>3 DEF CoreInv, WgCounts, AutoShare, CloserOrder, MergeOwned, MemoryNewest,
     FailuresRecorded
<1>9. WritersLocked'
  BY <1>1, <1>2 DEF CoreInv, WritersLocked, callers
<1> QED BY <1>4, <1>6, <1>7, <1>8, <1>9, CoreInvParts DEF ThreadsInv, SegmentsInv

-----------------------------------------------------------------------------
LEMMA NextIInv == CoreInv /\ [Next]_vars => CoreInv'
<1> SUFFICES ASSUME CoreInv, [Next]_vars PROVE CoreInv'
  OBVIOUS
<1>1. CASE Write
  BY <1>1, WriteBeginStep, RemoveBeginStep, WriteApplyStep DEF Write
<1>2. CASE Snapshotting
  <2>1. CASE SnapshotTakeFaults
    BY <2>1, CrashStep DEF SnapshotTakeFaults
  <2> QED BY <1>2, <2>1, SnapshotTakeStep, SnapshotReleaseStep DEF Snapshotting
<1>3. CASE Read
  BY <1>3, ReadBeginStep, ReadLoadStep, ReadSearchStep DEF Read
<1>4. CASE Merging
  BY <1>4, AutoWakeStep, AutoReturnStep, MergePickStep, MergeWriteStep, MergeSwapStep
  DEF Merging
<1>5. CASE Close
  BY <1>5, CloseBeginStep, CloseLockStep, CloseEnqueueStep, FlushSegmentStep,
     CloseFinishStep DEF Close
<1>6. CASE UNCHANGED vars
  <2>1. TypeOK'
    BY <1>6 DEF CoreInv, TypeOK, HeapType, StateType, ThreadsType, CallersType, vars
  <2>2. SegmentsInv'
    BY <1>6, CoreInvParts, SegmentsFrame DEF vars, heap
  <2>3. ThreadsInv'
    BY <1>6 DEF CoreInv, ThreadsInv, WgCounts, AutoShare, CloserOrder, MergeOwned,
       WritersLocked, MemoryNewest, FailuresRecorded, vars
  <2> QED BY <2>1, <2>2, <2>3, CoreInvParts
<1> QED BY <1>1, <1>2, <1>3, <1>4, <1>5, <1>6 DEF Next

\* The invariant holds in every state of every session.
THEOREM Invariance == Spec => []CoreInv
BY InitIInv, NextIInv, PTL DEF Spec

\* The variables of the program have their types, in particular the count of
\* the wait group never goes below zero (include/waitgroup.h).
THEOREM TypeCorrect == Spec => []TypeOK
<1>1. CoreInv => TypeOK
  BY DEF CoreInv
<1> QED BY <1>1, Invariance, PTL

\* The list of segments stays ordered by age under every interleaving of
\* swaps, snapshots, merges and a close.
THEOREM SegmentsStayOrdered == Spec => []SegmentsOrdered
<1>1. CoreInv => SegmentsOrdered
  BY DEF CoreInv
<1> QED BY <1>1, Invariance, PTL

\* A merge never finds the list changed under it, and meets files with the names
\* of its target only in a close, where the merger thread has left them when it
\* failed: without I/O errors no merge fails (mergeSegments0, writeAndLoadSegment).
THEOREM MergesFailForReasons == Spec => []MergesFailForAReason
<1>1. CoreInv => MergesFailForAReason
  BY MeetsFilesLeft DEF CoreInv, MergesFailForAReason
<1> QED BY <1>1, Invariance, PTL

\* A close that returned leaves no thread that uses the database.
THEOREM ClosedIsUnused == Spec => []NoUseAfterClose
<1>1. CoreInv => NoUseAfterClose
  <2> SUFFICES ASSUME CoreInv, closer.pc = "closed" PROVE NoUseAfterClose
    BY DEF NoUseAfterClose, Open
  <2>1. auto = "exited" /\ flushing = {}
    BY DEF CoreInv, CloserOrder
  <2>2. wg = 0
    BY <2>1, FS_EmptySet DEF CoreInv, WgCounts, AutoShare
  <2>3. merge.owner = Null
    BY <2>1 DEF CoreInv, MergeOwned, TypeOK, ThreadsType
  <2> QED BY <2>1, <2>2, <2>3 DEF NoUseAfterClose
<1> QED BY <1>1, Invariance, PTL

-----------------------------------------------------------------------------
\* The map and the snapshots a caller sees.
MapSeen == View(Layers(Chain))
SnapshotsSeen ==
  [s \in Snap |-> IF snaps[s] = Null THEN Null ELSE View(Layers(snaps[s]))]

LEMMA SeenStacks ==
  /\ MapSeen = View(Stack(contents, Chain))
  /\ MapSeen' = View(Stack(contents', Chain'))
  /\ SnapshotsSeen = [s \in Snap |-> IF snaps[s] = Null THEN Null
                                     ELSE View(Stack(contents, snaps[s]))]
  /\ SnapshotsSeen' = [s \in Snap |-> IF snaps'[s] = Null THEN Null
                                      ELSE View(Stack(contents', snaps'[s]))]
BY DEF MapSeen, SnapshotsSeen, Layers, Stack

\* A segment that is not the memory segment does not change once it exists.
FrozenKept == \A r \in DOMAIN contents : r # state.memory => contents'[r] = contents[r]

\* What a snapshot shows does not change.
LEMMA SnapshotKept ==
  ASSUME CoreInv, FrozenKept, NEW s \in Snap, snaps[s] # Null
  PROVE  View(Stack(contents', snaps[s])) = View(Stack(contents, snaps[s]))
<1>1. \A i \in 1..Len(snaps[s]) : contents'[snaps[s][i]] = contents[snaps[s][i]]
  BY DEF CoreInv, SnapsFrozen, FrozenKept
<1> QED BY <1>1, StackSame

LEMMA SnapshotsKept ==
  ASSUME CoreInv, FrozenKept, snaps' = snaps
  PROVE  SnapshotsSeen' = SnapshotsSeen
BY SeenStacks, SnapshotKept

\* A step that touches neither the list nor what its segments hold is not seen.
LEMMA NotSeen ==
  ASSUME CoreInv, Chain' = Chain, \A r \in DOMAIN contents : contents'[r] = contents[r],
         batch' = batch, snaps' = snaps
  PROVE  UNCHANGED KV!vars
<1>1. FrozenKept
  BY DEF FrozenKept
<1>2. \A i \in 1..Len(Chain) : contents'[Chain[i]] = contents[Chain[i]]
  BY DEF CoreInv, ChainInHeap
<1>3. MapSeen' = MapSeen
  BY <1>2, SeenStacks, StackSame
<1> QED BY <1>1, <1>3, SnapshotsKept DEF KV!vars, MapSeen, SnapshotsSeen

\* A new memory segment on top of the old one is not seen (maybeSwapMemory).
LEMMA SwapKeepsMap ==
  ASSUME CoreInv, state.memory # Null, SwapMemory
  PROVE  /\ MapSeen' = MapSeen
         /\ DOMAIN contents \subseteq DOMAIN contents'
         /\ \A r \in DOMAIN contents : contents'[r] = contents[r]
         /\ state'.memory \notin DOMAIN contents
<1> DEFINE fresh == <<nextSegID + 1, nextSegID + 1>>
<1> USE DatabaseAssumption
<1>1. /\ state' = [segments |-> Append(state.segments, state.memory), memory |-> fresh,
                   multi |-> Append(Append(state.segments, state.memory), fresh)]
      /\ contents' = With(contents, fresh, NoEntries)
  BY DEF SwapMemory
<1>2. /\ nextSegID \in Nat /\ fresh \in Ref /\ fresh # Null
      /\ state.memory \in Ref /\ state.segments \in Seq(Ref)
  BY DEF CoreInv, TypeOK, StateType, Ref, Chains
<1>3. /\ Chain = Append(state.segments, state.memory)
      /\ Chain' = Append(Chain, fresh)
  BY <1>1, <1>2 DEF Chain
<1>4. /\ Chain \in Seq(Ref) /\ Len(Chain') = Len(Chain) + 1 /\ Chain' \in Seq(Ref)
      /\ \A i \in 1..Len(Chain) : Chain'[i] = Chain[i]
      /\ Chain'[Len(Chain) + 1] = fresh
  BY <1>2, <1>3, AppendProperties
<1>5. fresh \notin DOMAIN contents
  <2> SUFFICES ASSUME fresh \in DOMAIN contents PROVE FALSE
    OBVIOUS
  <2>1. fresh[2] <= nextSegID
    BY HeapBound
  <2> QED BY <2>1, <1>2
<1>6. /\ contents'[fresh] = NoEntries
      /\ DOMAIN contents \subseteq DOMAIN contents'
      /\ \A r \in DOMAIN contents : contents'[r] = contents[r]
      /\ state'.memory \notin DOMAIN contents
  BY <1>1, <1>5 DEF With
<1> HIDE DEF fresh
<1> DEFINE old == Stack(contents, Chain)
           new == Stack(contents', Chain')
<1>7. /\ Len(old) = Len(Chain) /\ Len(old) \in Nat
      /\ \A i \in 1..Len(Chain) : old[i] = contents[Chain[i]]
  BY <1>4, StackProperties
<1>8. /\ Len(new) = Len(Chain')
      /\ \A i \in 1..Len(Chain') : new[i] = contents'[Chain'[i]]
  BY <1>4, StackProperties
<1>9. \A i \in 1..Len(Chain) : contents'[Chain[i]] = contents[Chain[i]]
  BY <1>6 DEF CoreInv, ChainInHeap
<1> HIDE DEF old, new
<1>10. \A i \in 1..Len(old) : new[i] = old[i]
  BY <1>4, <1>7, <1>8, <1>9
<1>11. Len(new) = Len(old) + 1 /\ new[Len(new)] = NoEntries
  BY <1>4, <1>6, <1>7, <1>8
<1>12. View(new) = View(old)
  BY ONLY <1>7, <1>10, <1>11, ViewWithEmptyTop
<1> QED BY <1>6, <1>12, SeenStacks DEF old, new

-----------------------------------------------------------------------------
\* Nobody is inside db_lock: no writer has entries left.
LEMMA QuietWhenFree ==
  ASSUME CoreInv, lock = Null
  PROVE  KV!Quiet
BY DatabaseAssumption DEF CoreInv, WritersLocked, KV!Quiet

\* put, remove and write: from the lock on it is a request.
LEMMA BeginBatchRequests ==
  ASSUME CoreInv, NEW w \in Writer, NEW b, state.memory # Null, lock = Null,
         BeginBatch(w, b)
  PROVE  KV!Request(w, b)
<1>1. batch' = [batch EXCEPT ![w] = b] /\ snaps' = snaps
  BY DEF BeginBatch
<1>2. MapSeen' = MapSeen /\ \A r \in DOMAIN contents : contents'[r] = contents[r]
  <2>1. CASE MemoryIsFull
    BY <2>1, SwapKeepsMap DEF BeginBatch, MaybeSwapMemory
  <2>2. CASE ~MemoryIsFull
    <3>1. UNCHANGED <<contents, state>>
      BY <2>2 DEF BeginBatch, MaybeSwapMemory
    <3> QED BY <3>1 DEF MapSeen, Layers, Chain
  <2> QED BY <2>1, <2>2
<1>3. SnapshotsSeen' = SnapshotsSeen
  BY <1>1, <1>2, SnapshotsKept DEF FrozenKept
<1> QED BY <1>1, <1>2, <1>3, QuietWhenFree DEF KV!Request, MapSeen, SnapshotsSeen

\* A crash of the process changes nothing that a caller has been shown.
LEMMA CrashNotSeen ==
  ASSUME CoreInv, NEW why, Crash(why)
  PROVE  UNCHANGED KV!vars
<1>1. UNCHANGED <<heap, state, batch, snaps>>
  BY DEF Crash, callers
<1>2. Chain' = Chain
  BY <1>1 DEF Chain
<1> QED BY <1>1, <1>2, NotSeen DEF heap

LEMMA WriteBeginMaps ==
  ASSUME CoreInv, NEW w \in Writer, NEW b \in Batches, WriteBegin(w, b)
  PROVE  KV!Request(w, b) \/ UNCHANGED KV!vars
<1>1. CASE state.memory = Null
  BY <1>1, CrashNotSeen DEF WriteBegin
<1>2. CASE state.memory # Null
  BY <1>2, BeginBatchRequests DEF WriteBegin, LockFree
<1> QED BY <1>1, <1>2

LEMMA RemoveBeginMaps ==
  ASSUME CoreInv, NEW w \in Writer, NEW k \in Key, RemoveBegin(w, k)
  PROVE  KV!Request(w, KV!Removal(k)) \/ UNCHANGED KV!vars
<1>1. CASE GetFault(state.multi, k) # "none"
  BY <1>1, CrashNotSeen DEF RemoveBegin
<1>2. CASE GetFault(state.multi, k) = "none"
  <2>1. state.memory # Null
    BY <1>2, NullMemoryFaults
  <2>2. lock = Null /\ BeginBatch(w, KV!Removal(k))
    BY <1>2 DEF RemoveBegin, LockFree, KV!Removal
  <2> QED BY <2>1, <2>2, BeginBatchRequests
<1> QED BY <1>1, <1>2

\* Only the last segment of the database can be written to.
LEMMA MemoryIsLast ==
  ASSUME CoreInv, state.memory # Null
  PROVE  /\ Chain \in Seq(Ref) /\ Len(Chain) \in Nat /\ Len(Chain) >= 1
         /\ Chain[Len(Chain)] = state.memory
         /\ \A i \in 1..Len(Chain) : i # Len(Chain) => Chain[i] # state.memory
<1>1. /\ Chain \in Seq(Ref) /\ Len(Chain) \in Nat /\ Len(Chain) >= 1
      /\ Chain[Len(Chain)] = state.memory /\ Ordered(Chain)
  <2>1. /\ Chain \in Seq(Ref) /\ Len(Chain) = Len(state.segments) + 1
        /\ Chain[Len(Chain)] = state.memory /\ state.segments \in Seq(Ref)
    BY ChainType DEF CoreInv, TypeOK
  <2> QED BY <2>1 DEF CoreInv, SegmentsOrdered
<1>2. ASSUME NEW i \in 1..Len(Chain), i # Len(Chain), Chain[i] = state.memory
      PROVE  FALSE
  <2>1. Len(Chain) \in 1..Len(Chain) /\ i < Len(Chain)
    BY <1>1, <1>2
  <2>2. Chain[i][1] <= Chain[i][2] /\ Chain[i][2] < Chain[Len(Chain)][1]
    BY <1>1, <2>1 DEF Ordered
  <2>3. Chain[i][1] \in Nat /\ Chain[i][2] \in Nat
    BY <1>1, OrderedPositions
  <2> QED BY <1>1, <1>2, <2>2, <2>3
<1> QED BY <1>1, <1>2

\* An entry that reaches the skip list takes effect.
LEMMA WriteApplyMaps ==
  ASSUME CoreInv, NEW w \in Writer, WriteApply(w)
  PROVE  KV!Apply(w)
<1> USE DatabaseAssumption
<1> DEFINE k == Head(batch[w])[1]
           v == Head(batch[w])[2]
           old == Stack(contents, Chain)
           new == Stack(contents', Chain)
<1>1. /\ batch[w] # <<>>
      /\ contents' = [contents EXCEPT ![state.memory] = Put(contents[state.memory], k, v)]
      /\ batch' = [batch EXCEPT ![w] = Tail(batch[w])]
      /\ UNCHANGED <<state, snaps>>
  BY DEF WriteApply
<1>2. state.memory # Null
  BY <1>1 DEF CoreInv, WritersLocked
<1>3. k \in Key /\ v \in Value \cup {Empty}
  <2>1. batch[w] \in Seq(Key \X Results)
    BY DEF CoreInv, TypeOK, CallersType
  <2>2. Head(batch[w]) \in Key \X Results
    BY <1>1, <2>1, HeadTailProperties
  <2> QED BY <2>2 DEF Results
<1> HIDE DEF k, v
<1>4. /\ Chain' = Chain /\ Chain \in Seq(Ref) /\ Len(Chain) \in Nat /\ Len(Chain) >= 1
      /\ Chain[Len(Chain)] = state.memory
  <2>1. Chain' = Chain
    BY <1>1 DEF Chain
  <2> QED BY <1>2, <2>1, MemoryIsLast
<1>5. \A i \in 1..Len(Chain) : i # Len(Chain) => Chain[i] # state.memory
  BY <1>2, MemoryIsLast
<1>6. \A i \in 1..Len(Chain) : Chain[i] \in DOMAIN contents
  BY DEF CoreInv, ChainInHeap
<1>7. state.memory \in DOMAIN contents /\ contents[state.memory] \in Content
  <2>1. state.memory \in DOMAIN contents
    BY <1>4, <1>6
  <2> QED BY <2>1 DEF CoreInv, TypeOK, HeapType
<1>8. /\ Len(old) = Len(Chain) /\ Len(new) = Len(Chain)
      /\ \A i \in 1..Len(Chain) : old[i] = contents[Chain[i]]
      /\ \A i \in 1..Len(Chain) : new[i] = contents'[Chain[i]]
  BY <1>4, StackProperties
<1> HIDE DEF old, new
<1>9. \A i \in 1..Len(old) : i # Len(old) => new[i] = old[i]
  BY <1>1, <1>5, <1>6, <1>8
<1>10. /\ new[Len(old)] = Put(old[Len(old)], k, v) /\ old[Len(old)] \in Content
       /\ Len(old) \in Nat /\ Len(old) >= 1 /\ Len(new) = Len(old)
  BY <1>1, <1>4, <1>7, <1>8
<1>11. View(new) = [View(old) EXCEPT ![k] = v]
  BY ONLY <1>3, <1>9, <1>10, ViewOfPut
<1>12. MapSeen' = [MapSeen EXCEPT ![k] = v]
  BY <1>4, <1>11, SeenStacks DEF old, new
<1>13. FrozenKept
  BY <1>1 DEF FrozenKept
<1>14. SnapshotsSeen' = SnapshotsSeen
  BY <1>1, <1>13, SnapshotsKept
<1> QED BY <1>1, <1>12, <1>14 DEF KV!Apply, MapSeen, SnapshotsSeen, k, v

-----------------------------------------------------------------------------
\* A snapshot keeps the map it is taken of, between two requests.
LEMMA SnapshotTakeMaps ==
  ASSUME CoreInv, NEW s \in Snap, SnapshotTake(s)
  PROVE  KV!TakeSnapshot(s)
<1> USE DatabaseAssumption
<1>1. /\ lock = Null /\ state.memory # Null /\ SwapMemory /\ snaps[s] = Null
      /\ snaps' = [snaps EXCEPT ![s] = Append(state.segments, state.memory)]
      /\ batch' = batch
  BY DEF SnapshotTake, SnapshotMayRun, LockFree
<1>2. MapSeen' = MapSeen /\ \A r \in DOMAIN contents : contents'[r] = contents[r]
  BY <1>1, SwapKeepsMap
<1>3. Chain = Append(state.segments, state.memory) /\ Chain \in Seq(Ref) /\ Chain # Null
  <2>1. Chain = Append(state.segments, state.memory) /\ Chain \in Seq(Ref)
    BY <1>1, ChainType DEF Chain, CoreInv, TypeOK
  <2> QED BY <2>1, SeqMonotonic
<1>4. snaps \in [Snap -> Chains \cup {Null}]
  BY DEF CoreInv, TypeOK, CallersType
<1>5. View(Stack(contents', Chain)) = MapSeen
  <2>1. \A i \in 1..Len(Chain) : contents'[Chain[i]] = contents[Chain[i]]
    BY <1>2 DEF CoreInv, ChainInHeap
  <2> QED BY <2>1, StackSame, SeenStacks
<1>6. SnapshotsSeen' = [SnapshotsSeen EXCEPT ![s] = MapSeen]
  <2>1. ASSUME NEW x \in Snap
        PROVE  (IF snaps'[x] = Null THEN Null ELSE View(Stack(contents', snaps'[x])))
                 = IF x = s THEN MapSeen ELSE SnapshotsSeen[x]
    <3>1. CASE x = s
      BY <1>1, <1>3, <1>4, <1>5, <3>1
    <3>2. CASE x # s
      <4>1. snaps'[x] = snaps[x]
        BY <1>1, <1>4, <3>2
      <4>2. CASE snaps[x] = Null
        BY <4>1, <4>2, <3>2, SeenStacks
      <4>3. CASE snaps[x] # Null
        <5>1. View(Stack(contents', snaps[x])) = View(Stack(contents, snaps[x]))
          BY <1>2, <4>3, SnapshotKept DEF FrozenKept
        <5> QED BY <4>1, <4>3, <5>1, <3>2, SeenStacks
      <4> QED BY <4>2, <4>3
    <3> QED BY <3>1, <3>2
  <2>2. SnapshotsSeen \in [Snap -> {SnapshotsSeen[x] : x \in Snap}]
    BY DEF SnapshotsSeen
  <2> QED BY <2>1, <2>2, SeenStacks
<1>7. SnapshotsSeen[s] = Null
  BY <1>1 DEF SnapshotsSeen
<1> QED BY <1>1, <1>2, <1>6, <1>7, QuietWhenFree DEF KV!TakeSnapshot, MapSeen, SnapshotsSeen

LEMMA SnapshotReleaseMaps ==
  ASSUME CoreInv, NEW s \in Snap, SnapshotRelease(s)
  PROVE  KV!ReleaseSnapshot(s)
<1>1. /\ snaps' = [snaps EXCEPT ![s] = Null] /\ batch' = batch
      /\ contents' = contents /\ state' = state
  BY DEF SnapshotRelease, heap
<1>2. snaps \in [Snap -> Chains \cup {Null}]
  BY DEF CoreInv, TypeOK, CallersType
<1>3. MapSeen' = MapSeen
  BY <1>1 DEF MapSeen, Layers, Chain
<1>4. SnapshotsSeen' = [SnapshotsSeen EXCEPT ![s] = Null]
  <2>1. \A x \in Snap : snaps'[x] = IF x = s THEN Null ELSE snaps[x]
    BY <1>1, <1>2
  <2> QED BY <1>1, <2>1, SeenStacks
<1> QED BY <1>1, <1>3, <1>4 DEF KV!ReleaseSnapshot, MapSeen, SnapshotsSeen

-----------------------------------------------------------------------------
\* The merged segment is written under a name that no segment has.
LEMMA MergeWriteAdds ==
  ASSUME CoreInv, MergeWrite
  PROVE  /\ DOMAIN contents \subseteq DOMAIN contents'
         /\ \A r \in DOMAIN contents : contents'[r] = contents[r]
<1> DEFINE target == TargetOf(merge.slice)
<1>1. \/ contents' = contents
      \/ ~InTheWay(target) /\ contents' = With(contents, target, MergedSlice)
  BY DEF MergeWrite, MergeMeetsFiles, MergeWriteFails, MergeWritten
<1>2. CASE ~InTheWay(target) /\ contents' = With(contents, target, MergedSlice)
  <2>1. target \notin DOMAIN contents
    BY <1>2, TargetIsFree DEF MergeWrite, InTheWay
  <2> QED BY <1>2, <2>1 DEF With
<1> QED BY <1>1, <1>2

LEMMA MergeWriteNotSeen ==
  ASSUME CoreInv, MergeWrite
  PROVE  UNCHANGED KV!vars
<1>2. UNCHANGED <<state, batch, snaps>>
  BY DEF MergeWrite, MergeMeetsFiles, MergeWriteFails, MergeWritten, MergeThrows, callers
<1>3. \A r \in DOMAIN contents : contents'[r] = contents[r]
  BY MergeWriteAdds
<1>4. Chain' = Chain
  BY <1>2 DEF Chain
<1> QED BY <1>2, <1>3, <1>4, NotSeen

\* What it replaces held the same, removed keys apart that no segment below the
\* oldest can bring back (mergeSegments0).
LEMMA MergeSwapNotSeen ==
  ASSUME CoreInv, MergeSwap
  PROVE  UNCHANGED KV!vars
<1> USE DatabaseAssumption
<1> DEFINE target == TargetOf(merge.slice)
           segments == Splice(state.segments, merge.start, merge.slice, target)
<1>1. merge.pc = "swap" /\ SliceUnchanged
  BY SliceStaysUnchanged DEF MergeSwap
<1>2. /\ state' = [segments |-> segments, memory |-> state.memory,
                   multi |-> Append(segments, state.memory)]
      /\ UNCHANGED <<contents, batch, snaps>>
  BY <1>1 DEF MergeSwap, heap, callers
<1>3. /\ merge.slice \in Seq(Ref) /\ state.segments \in Seq(Ref) /\ target \in Ref
      /\ IsSlice(state.segments, merge.start, merge.slice)
      /\ Chain \in Seq(Ref) /\ IsSlice(Chain, merge.start, merge.slice)
  BY <1>1, MergeIsSlice, MergeIsSliceOfChain
<1>4. state'.segments = segments /\ state'.memory = state.memory
  BY <1>2
<1>5. Chain' = Splice(Chain, merge.start, merge.slice, target)
  <2>1. CASE state.memory = Null
    BY <2>1, <1>4 DEF Chain
  <2>2. CASE state.memory # Null
    <3>1. state.memory \in Ref
      BY <2>2 DEF CoreInv, TypeOK, StateType
    <3>2. Append(segments, state.memory)
            = Splice(Append(state.segments, state.memory), merge.start, merge.slice, target)
      BY ONLY <1>3, <3>1, SpliceAppend
    <3> QED BY <2>2, <3>2, <1>4 DEF Chain
  <2> QED BY <2>1, <2>2
<1> HIDE DEF target, segments
<1>6. contents[target] = Merged(Stack(contents, merge.slice), PurgesDeleted(merge.start))
  BY <1>1 DEF CoreInv, TargetMerged, MergedSlice, Layers, Stack, target
<1>7. PurgesDeleted(merge.start) => merge.start = 1
  BY DEF PurgesDeleted
<1>8. View(Stack(contents, Chain')) = View(Stack(contents, Chain))
  BY <1>3, <1>5, <1>6, <1>7, ViewOfSplice
<1>9. MapSeen' = MapSeen
  BY <1>2, <1>8, SeenStacks
<1>10. SnapshotsSeen' = SnapshotsSeen
  BY <1>2, SnapshotsKept DEF FrozenKept
<1> QED BY <1>2, <1>9, <1>10 DEF KV!vars, MapSeen, SnapshotsSeen

\* A close moves the memory segment to the end of the list.
LEMMA CloseLockNotSeen ==
  ASSUME CoreInv, CloseLock
  PROVE  UNCHANGED KV!vars
<1>1. /\ state' = [segments |-> Append(state.segments, state.memory), memory |-> Null,
                   multi |-> Null]
      /\ UNCHANGED <<contents, batch, snaps>> /\ closer.pc = "waiting"
  BY DEF CloseLock, ChainAtClose, heap, callers
<1>2. state.memory # Null
  BY <1>1 DEF CoreInv, MemoryNewest
<1>3. Chain' = Chain
  BY <1>1, <1>2 DEF Chain
<1> QED BY <1>1, <1>3, NotSeen

-----------------------------------------------------------------------------
LEMMA InitMaps == Init => KV!Init
<1> SUFFICES ASSUME Init PROVE KV!Init
  OBVIOUS
<1>1. batch = [w \in Writer |-> <<>>] /\ snaps = [s \in Snap |-> Null]
  BY DEF Init
<1>2. View(Layers(Chain)) \in [Key -> Value \cup {Empty}]
  BY ViewType
<1> QED BY <1>1, <1>2 DEF KV!Init

LEMMA NextMaps == CoreInv /\ [Next]_vars => [KV!Next]_(KV!vars)
<1> SUFFICES ASSUME CoreInv, [Next]_vars PROVE KV!Next \/ UNCHANGED KV!vars
  OBVIOUS
<1>1. CASE Write
  <2>1. ASSUME NEW w \in Writer, NEW b \in Batches, WriteBegin(w, b)
        PROVE  KV!Next \/ UNCHANGED KV!vars
    BY <2>1, WriteBeginMaps DEF KV!Next
  <2>2. ASSUME NEW w \in Writer, NEW k \in Key, RemoveBegin(w, k)
        PROVE  KV!Next \/ UNCHANGED KV!vars
    BY <2>2, RemoveBeginMaps DEF KV!Next
  <2>3. ASSUME NEW w \in Writer, WriteApply(w)
        PROVE  KV!Next
    BY <2>3, WriteApplyMaps DEF KV!Next
  <2> QED BY <1>1, <2>1, <2>2, <2>3 DEF Write
<1>2. CASE Snapshotting
  <2>1. ASSUME NEW s \in Snap, SnapshotTake(s)
        PROVE  KV!Next
    BY <2>1, SnapshotTakeMaps DEF KV!Next
  <2>2. ASSUME NEW s \in Snap, SnapshotRelease(s)
        PROVE  KV!Next
    BY <2>2, SnapshotReleaseMaps DEF KV!Next
  <2>3. CASE SnapshotTakeFaults
    BY <2>3, CrashNotSeen DEF SnapshotTakeFaults
  <2> QED BY <1>2, <2>1, <2>2, <2>3 DEF Snapshotting
<1>3. CASE \/ Read \/ AutoWake \/ AutoReturn \/ MergePick
           \/ \E count \in CloseCounts : CloseBegin(count)
           \/ CloseEnqueue \/ CloseFinish \/ UNCHANGED vars
  <2>1. CASE \E why : Crash(why)
    BY <2>1, CrashNotSeen
  <2>2. CASE ~\E why : Crash(why)
    <3>1. UNCHANGED <<contents, state, batch, snaps>>
      BY <1>3, <2>2 DEF Read, ReadBegin, ReadLoad, ReadSearch, AutoWake, AutoReturn,
         MergePick, CloseBegin, CloseEnqueue, CloseFinish, vars, heap, callers
    <3>2. Chain' = Chain
      BY <3>1 DEF Chain
    <3> QED BY <3>1, <3>2, NotSeen
  <2> QED BY <2>1, <2>2
<1>4. CASE \E r \in flushing : FlushSegment(r)
  <2>1. CASE \E why : Crash(why)
    BY <2>1, CrashNotSeen
  <2>2. CASE ~\E why : Crash(why)
    <3>1. UNCHANGED <<contents, state, batch, snaps>>
      BY <1>4, <2>2 DEF FlushSegment, callers
    <3>2. Chain' = Chain
      BY <3>1 DEF Chain
    <3> QED BY <3>1, <3>2, NotSeen
  <2> QED BY <2>1, <2>2
<1>5. CASE MergeWrite
  BY <1>5, MergeWriteNotSeen
<1>6. CASE MergeSwap
  BY <1>6, MergeSwapNotSeen
<1>7. CASE CloseLock
  BY <1>7, CloseLockNotSeen
<1> QED BY <1>1, <1>2, <1>3, <1>4, <1>5, <1>6, <1>7 DEF Next, Merging, Close

\* Merging, swapping, snapshots and closing are invisible to the callers of a
\* database, for any number of writers, readers and snapshots: what they see is
\* a map, changed by one request at a time, and snapshots that keep the map they
\* were taken of.
THEOREM Refinement == Spec => ImplementsKVStore
<1>1. Init => KV!Init
  BY InitMaps
<1>2. CoreInv /\ [Next]_vars => [KV!Next]_(KV!vars)
  BY NextMaps
<1> QED BY <1>1, <1>2, Invariance, PTL DEF Spec, ImplementsKVStore, KV!Spec

-----------------------------------------------------------------------------
(* What a get finds.                                                       *)

\* Every step but the write of an entry leaves the contents of the segments and
\* the map alone; a memory segment that is replaced gives way to a new one.
LEMMA HeapKept ==
  ASSUME CoreInv, [Next]_vars, ~\E w \in Writer : WriteApply(w)
  PROVE  /\ MapSeen' = MapSeen
         /\ DOMAIN contents \subseteq DOMAIN contents'
         /\ \A r \in DOMAIN contents : contents'[r] = contents[r]
         /\ \/ state'.memory = state.memory
            \/ state'.memory = Null
            \/ state'.memory \notin DOMAIN contents
<1>1. CASE UNCHANGED <<contents, state>>
  BY <1>1 DEF MapSeen, Layers, Chain
<1>2. CASE \E why : Crash(why)
  BY <1>1, <1>2 DEF Crash, heap
<1>3. CASE state.memory # Null /\ SwapMemory
  BY <1>3, SwapKeepsMap
<1>4. ASSUME NEW w \in Writer, NEW b, BeginBatch(w, b), state.memory # Null
      PROVE  UNCHANGED <<contents, state>> \/ (state.memory # Null /\ SwapMemory)
  BY <1>4 DEF BeginBatch, MaybeSwapMemory
<1>5. CASE Write
  <2>1. ASSUME NEW w \in Writer, NEW b \in Batches, WriteBegin(w, b)
        PROVE  \/ \E why : Crash(why)
               \/ UNCHANGED <<contents, state>> \/ (state.memory # Null /\ SwapMemory)
    BY <2>1, <1>4 DEF WriteBegin
  <2>2. ASSUME NEW w \in Writer, NEW k \in Key, RemoveBegin(w, k)
        PROVE  \/ \E why : Crash(why)
               \/ UNCHANGED <<contents, state>> \/ (state.memory # Null /\ SwapMemory)
    <3>1. CASE state.memory = Null
      BY <3>1, <2>2, NullMemoryFaults DEF RemoveBegin
    <3>2. CASE state.memory # Null
      BY <3>2, <2>2, <1>4 DEF RemoveBegin
    <3> QED BY <3>1, <3>2
  <2> QED BY <1>5, <2>1, <2>2, <1>1, <1>2, <1>3 DEF Write
<1>6. CASE Snapshotting
  <2>1. ASSUME NEW s \in Snap, SnapshotTake(s)
        PROVE  state.memory # Null /\ SwapMemory
    BY <2>1 DEF SnapshotTake
  <2>2. ASSUME NEW s \in Snap, SnapshotRelease(s)
        PROVE  UNCHANGED <<contents, state>>
    BY <2>2 DEF SnapshotRelease, heap
  <2>3. SnapshotTakeFaults => \E why : Crash(why)
    BY DEF SnapshotTakeFaults
  <2> QED BY <1>6, <2>1, <2>2, <2>3, <1>1, <1>2, <1>3 DEF Snapshotting
<1>7. CASE Read
  <2>1. UNCHANGED <<contents, state>> \/ \E why : Crash(why)
    BY <1>7 DEF Read, ReadBegin, ReadLoad, ReadSearch, heap
  <2> QED BY <2>1, <1>1, <1>2
<1>8. CASE AutoWake \/ AutoReturn \/ MergePick
  <2>1. UNCHANGED <<contents, state>>
    BY <1>8 DEF AutoWake, AutoReturn, MergePick, heap
  <2> QED BY <2>1, <1>1
<1>9. CASE MergeWrite
  <2>1. UNCHANGED KV!vars
    BY <1>9, MergeWriteNotSeen
  <2>2. state' = state
    BY <1>9 DEF MergeWrite, MergeMeetsFiles, MergeWriteFails, MergeWritten, MergeThrows
  <2> QED BY <1>9, <2>1, <2>2, MergeWriteAdds DEF KV!vars, MapSeen
<1>10. CASE MergeSwap
  <2>1. UNCHANGED KV!vars
    BY <1>10, MergeSwapNotSeen
  <2>2. contents' = contents /\ state'.memory = state.memory
    BY <1>10 DEF MergeSwap, MergeThrows, heap
  <2> QED BY <2>1, <2>2 DEF KV!vars, MapSeen
<1>11. CASE CloseLock
  <2>1. UNCHANGED KV!vars
    BY <1>11, CloseLockNotSeen
  <2>2. contents' = contents /\ state'.memory = Null
    BY <1>11 DEF CloseLock, heap
  <2> QED BY <2>1, <2>2 DEF KV!vars, MapSeen
<1>12. CASE \/ \E count \in CloseCounts : CloseBegin(count)
            \/ CloseEnqueue \/ CloseFinish
  <2>1. UNCHANGED <<contents, state>>
    BY <1>12 DEF CloseBegin, CloseEnqueue, CloseFinish, heap
  <2> QED BY <2>1, <1>1
<1>13. CASE \E r \in flushing : FlushSegment(r)
  <2>1. UNCHANGED <<contents, state>> \/ \E why : Crash(why)
    BY <1>13 DEF FlushSegment
  <2> QED BY <2>1, <1>1, <1>2
<1>14. CASE UNCHANGED vars
  BY <1>1, <1>14 DEF vars
<1> QED BY <1>5, <1>6, <1>7, <1>8, <1>9, <1>10, <1>11, <1>12, <1>13, <1>14
        DEF Next, Merging, Close

\* A close that has cleared the pointers never goes back.
LEMMA CloserStays ==
  ASSUME CoreInv, [Next]_vars, closer.pc \notin {"idle", "waiting"}
  PROVE  closer'.pc \notin {"idle", "waiting"}
<1>1. closer \in [pc : {"idle", "waiting", "merging", "flushing", "closed", "failed"},
                  count : Nat, why : {"none", "io", "exists", "changed"}]
  BY DEF CoreInv, TypeOK, ThreadsType
<1>2. \/ closer' = closer
      \/ closer' = [closer EXCEPT !.pc = "merging"]
      \/ closer' = [closer EXCEPT !.pc = "flushing"]
      \/ closer' = [closer EXCEPT !.pc = "closed"]
      \/ \E why : closer' = [closer EXCEPT !.pc = "failed", !.why = why]
  <2>1. CASE Write
    BY <2>1 DEF Write, WriteBegin, RemoveBegin, WriteApply, BeginBatch, Crash, threads
  <2>2. CASE Snapshotting
    BY <2>2 DEF Snapshotting, SnapshotTake, SnapshotRelease, SnapshotTakeFaults, Crash, threads
  <2>3. CASE Read
    BY <2>3 DEF Read, ReadBegin, ReadLoad, ReadSearch, Crash, threads
  <2>4. CASE Merging
    BY <2>4 DEF Merging, AutoWake, AutoReturn, MergePick, MergeWrite, MergeMeetsFiles,
       MergeWriteFails, MergeWritten, MergeSwap, MergeThrows
  <2>5. CASE Close
    BY <2>5 DEF Close, CloseBegin, CloseLock, CloseEnqueue, FlushSegment, CloseFinish, Crash, threads
  <2>6. CASE UNCHANGED vars
    BY <2>6 DEF vars
  <2> QED BY <2>1, <2>2, <2>3, <2>4, <2>5, <2>6 DEF Next
<1> QED BY <1>1, <1>2

-----------------------------------------------------------------------------
(* What one get sees.                                                      *)

ReaderSees(r) ==
  LET multi == reader[r].multi
      k == reader[r].key
  IN  /\ reader[r].pc \in {"load", "search"} => k \in Key
      /\ reader[r].pc = "load" => MapSeen[k] \in seen[r]
      /\ reader[r].pc = "search" =>
           \/ MultiIsCleared(multi) /\ closer.pc \notin {"idle", "waiting"}
           \/ /\ MultiIsLoaded(multi)
              /\ ~RemovedIn(multi, k) => MultiGet(Layers(multi), k) \in seen[r]

LEMMA ReadersSeeParts ==
  /\ ReadersSee <=> \A r \in Reader : ReaderSees(r)
  /\ ReadersSee' <=> \A r \in Reader : ReaderSees(r)'
BY DEF ReadersSee, ReaderSees, MapSeen

\* The same with the heap spelt out, of the next state too.
SearchSees(multi, k, h, memory, values) ==
  /\ multi \in Chains
  /\ \A i \in 1..Len(multi) : multi[i] \in DOMAIN h /\ (multi[i] = memory => i = Len(multi))
  /\ (~\E i \in 1..Len(multi) : h[multi[i]][k] = Empty) => MultiGet(Stack(h, multi), k) \in values

LEMMA ReaderSeesHeap ==
  ASSUME NEW r
  PROVE  /\ ReaderSees(r) <=>
              /\ reader[r].pc \in {"load", "search"} => reader[r].key \in Key
              /\ reader[r].pc = "load" => MapSeen[reader[r].key] \in seen[r]
              /\ reader[r].pc = "search" =>
                   \/ MultiIsCleared(reader[r].multi) /\ closer.pc \notin {"idle", "waiting"}
                   \/ SearchSees(reader[r].multi, reader[r].key, contents, state.memory, seen[r])
         /\ ReaderSees(r)' <=>
              /\ reader'[r].pc \in {"load", "search"} => reader'[r].key \in Key
              /\ reader'[r].pc = "load" => MapSeen'[reader'[r].key] \in seen'[r]
              /\ reader'[r].pc = "search" =>
                   \/ MultiIsCleared(reader'[r].multi) /\ closer'.pc \notin {"idle", "waiting"}
                   \/ SearchSees(reader'[r].multi, reader'[r].key, contents', state'.memory,
                                 seen'[r])
<1> DEFINE multi == reader[r].multi
           k == reader[r].key
<1>1. MultiGet(Layers(multi), k) = MultiGet(Stack(contents, multi), k)
  BY DEF Layers, Stack
<1>2. MultiGet(Layers(multi)', k') = MultiGet(Stack(contents', multi'), k')
  BY DEF Layers, Stack
<1> HIDE DEF multi, k
<1>3. /\ MultiIsLoaded(multi) <=>
           /\ multi \in Chains
           /\ \A i \in 1..Len(multi) : multi[i] \in DOMAIN contents
                                       /\ (multi[i] = state.memory => i = Len(multi))
      /\ RemovedIn(multi, k) <=> \E i \in 1..Len(multi) : contents[multi[i]][k] = Empty
  BY DEF MultiIsLoaded, RemovedIn
<1>4. /\ MultiIsLoaded(multi)' <=>
           /\ multi' \in Chains
           /\ \A i \in 1..Len(multi') : multi'[i] \in DOMAIN contents'
                                        /\ (multi'[i] = state'.memory => i = Len(multi'))
      /\ RemovedIn(multi, k)' <=> \E i \in 1..Len(multi') : contents'[multi'[i]][k'] = Empty
  BY DEF MultiIsLoaded, RemovedIn
<1>5. MultiIsLoaded(multi) /\ (~RemovedIn(multi, k) => MultiGet(Layers(multi), k) \in seen[r])
        <=> SearchSees(multi, k, contents, state.memory, seen[r])
  BY ONLY <1>1, <1>3 DEF SearchSees
<1>6. MultiIsLoaded(multi)'
      /\ (~RemovedIn(multi, k)' => MultiGet(Layers(multi)', k') \in seen'[r])
        <=> SearchSees(multi', k', contents', state'.memory, seen'[r])
  BY ONLY <1>2, <1>4 DEF SearchSees
<1>7. MultiIsCleared(multi)' <=> MultiIsCleared(multi')
  BY DEF MultiIsCleared
<1>8. ReaderSees(r) <=>
              /\ reader[r].pc \in {"load", "search"} => reader[r].key \in Key
              /\ reader[r].pc = "load" => MapSeen[reader[r].key] \in seen[r]
              /\ reader[r].pc = "search" =>
                   \/ MultiIsCleared(reader[r].multi) /\ closer.pc \notin {"idle", "waiting"}
                   \/ SearchSees(reader[r].multi, reader[r].key, contents, state.memory, seen[r])
  BY <1>5 DEF ReaderSees, multi, k
<1>9. ReaderSees(r)' <=>
              /\ reader'[r].pc \in {"load", "search"} => reader'[r].key \in Key
              /\ reader'[r].pc = "load" => MapSeen'[reader'[r].key] \in seen'[r]
              /\ reader'[r].pc = "search" =>
                   \/ MultiIsCleared(reader'[r].multi) /\ closer'.pc \notin {"idle", "waiting"}
                   \/ SearchSees(reader'[r].multi, reader'[r].key, contents', state'.memory,
                                 seen'[r])
  BY <1>6, <1>7 DEF ReaderSees, multi, k
<1> QED BY <1>8, <1>9

\* What a step does to one get.
LEMMA ReaderStep ==
  ASSUME CoreInv, [Next]_vars, NEW r \in Reader
  PROVE  \/ reader'[r] = reader[r] /\ seen[r] \subseteq seen'[r]
         \/ \E k \in Key : ReadBegin(r, k)
         \/ ReadLoad(r)
         \/ ReadSearch(r) /\ GetFault(reader[r].multi, reader[r].key) = "none"
<1>1. reader \in [Reader -> [pc : {"idle", "load", "search", "returned"},
                             key : Key \cup {Null}, multi : Multis,
                             result : Results \cup {Null}]]
      /\ seen \in [Reader -> SUBSET Results]
  BY DEF CoreInv, TypeOK, CallersType
<1>2. CASE UNCHANGED <<reader, seen>>
  BY <1>2
<1>3. CASE Write
  <2>1. ASSUME NEW w \in Writer, WriteApply(w)
        PROVE  reader' = reader /\ seen[r] \subseteq seen'[r]
    BY <2>1 DEF WriteApply
  <2>2. ASSUME NEW w \in Writer, NEW b \in Batches, WriteBegin(w, b)
        PROVE  UNCHANGED <<reader, seen>>
    BY <2>2 DEF WriteBegin, BeginBatch, Crash, callers
  <2>3. ASSUME NEW w \in Writer, NEW k \in Key, RemoveBegin(w, k)
        PROVE  UNCHANGED <<reader, seen>>
    BY <2>3 DEF RemoveBegin, BeginBatch, Crash, callers
  <2> QED BY <1>3, <2>1, <2>2, <2>3, <1>2 DEF Write
<1>4. CASE Snapshotting
  BY <1>2, <1>4 DEF Snapshotting, SnapshotTake, SnapshotRelease, SnapshotTakeFaults, Crash, callers
<1>5. CASE Read
  <2>1. ASSUME NEW x \in Reader, NEW k \in Key, ReadBegin(x, k)
        PROVE  x = r \/ (reader'[r] = reader[r] /\ seen'[r] = seen[r])
    BY <2>1, <1>1 DEF ReadBegin, SetReader
  <2>2. ASSUME NEW x \in Reader, ReadLoad(x)
        PROVE  x = r \/ (reader'[r] = reader[r] /\ seen'[r] = seen[r])
    BY <2>2, <1>1 DEF ReadLoad, SetReader
  <2>3. ASSUME NEW x \in Reader, ReadSearch(x)
        PROVE  \/ x = r /\ GetFault(reader[r].multi, reader[r].key) = "none"
               \/ reader'[r] = reader[r] /\ seen'[r] = seen[r]
    BY <2>3, <1>1 DEF ReadSearch, SetReader, Crash, callers
  <2> QED BY <1>5, <2>1, <2>2, <2>3 DEF Read
<1>6. CASE Merging
  <2>1. UNCHANGED <<reader, seen>>
    BY <1>6 DEF Merging, AutoWake, AutoReturn, MergePick, MergeWrite, MergeMeetsFiles,
       MergeWriteFails, MergeWritten, MergeSwap, MergeThrows, callers
  <2> QED BY <1>2, <2>1
<1>7. CASE Close
  <2>1. UNCHANGED <<reader, seen>>
    BY <1>7 DEF Close, CloseBegin, CloseLock, CloseEnqueue, FlushSegment, CloseFinish, Crash, callers
  <2> QED BY <1>2, <2>1
<1>8. CASE UNCHANGED vars
  BY <1>2, <1>8 DEF vars
<1> QED BY <1>3, <1>4, <1>5, <1>6, <1>7, <1>8 DEF Next

\* What a search would find stays a value of its key when nothing is written.
LEMMA SearchKept ==
  ASSUME CoreInv, [Next]_vars, ~\E w \in Writer : WriteApply(w),
         NEW multi, NEW k, NEW values, NEW more, values \subseteq more,
         SearchSees(multi, k, contents, state.memory, values)
  PROVE  SearchSees(multi, k, contents', state'.memory, more)
<1> USE DatabaseAssumption
<1>1. /\ DOMAIN contents \subseteq DOMAIN contents'
      /\ \A r \in DOMAIN contents : contents'[r] = contents[r]
      /\ \/ state'.memory = state.memory
         \/ state'.memory = Null
         \/ state'.memory \notin DOMAIN contents
  BY HeapKept
<1>2. multi \in Chains
      /\ \A i \in 1..Len(multi) : multi[i] \in DOMAIN contents
                                  /\ (multi[i] = state.memory => i = Len(multi))
  BY DEF SearchSees
<1>3. \A i \in 1..Len(multi) : multi[i] # Null
  BY <1>2 DEF CoreInv, TypeOK, HeapType
<1>4. \A i \in 1..Len(multi) : multi[i] \in DOMAIN contents'
                               /\ (multi[i] = state'.memory => i = Len(multi))
  BY <1>1, <1>2, <1>3
<1>5. \A i \in 1..Len(multi) : contents'[multi[i]] = contents[multi[i]]
  BY <1>1, <1>2
<1>6. Stack(contents', multi) = Stack(contents, multi)
  BY <1>5, StackSame
<1> QED BY <1>2, <1>4, <1>5, <1>6 DEF SearchSees

\* An entry that is written while a get searches is either not of its key, not
\* in the segments it searches, or found, and then it is a value its key had
\* since the call.
LEMMA SearchSeesEntry ==
  ASSUME CoreInv, NEW w \in Writer, WriteApply(w),
         NEW multi, NEW k \in Key, NEW values, NEW more, values \subseteq more,
         SearchSees(multi, k, contents, state.memory, values),
         k = Head(batch[w])[1] => Head(batch[w])[2] \in more
  PROVE  SearchSees(multi, k, contents', state'.memory, more)
<1> DEFINE l == Head(batch[w])[1]
           v == Head(batch[w])[2]
           n == Len(multi)
           old == Stack(contents, multi)
           new == Stack(contents', multi)
<1>1. /\ batch[w] # <<>> /\ state' = state
      /\ contents' = [contents EXCEPT ![state.memory] = Put(contents[state.memory], l, v)]
  BY DEF WriteApply
<1>2. l \in Key /\ v \in Value \cup {Empty} /\ (k = l => v \in more)
  <2>1. batch[w] \in Seq(Key \X Results)
    BY DEF CoreInv, TypeOK, CallersType
  <2>2. Head(batch[w]) \in Key \X Results
    BY <1>1, <2>1, HeadTailProperties
  <2> QED BY <2>2 DEF Results
<1> HIDE DEF l, v
<1>3. /\ multi \in Chains /\ multi \in Seq(Ref)
      /\ \A i \in 1..n : multi[i] \in DOMAIN contents /\ (multi[i] = state.memory => i = n)
      /\ (~\E i \in 1..n : contents[multi[i]][k] = Empty) => MultiGet(old, k) \in values
  BY DEF SearchSees, Chains
<1>4. /\ Len(old) = n /\ Len(new) = n /\ n \in Nat
      /\ \A i \in 1..n : old[i] = contents[multi[i]]
      /\ \A i \in 1..n : new[i] = contents'[multi[i]]
  BY <1>3, StackProperties
<1>5. /\ DOMAIN contents' = DOMAIN contents
      /\ \A r \in DOMAIN contents : r # state.memory => contents'[r] = contents[r]
      /\ \A r \in DOMAIN contents : r = state.memory => contents'[r] = Put(contents[r], l, v)
  BY <1>1
<1>6. \A r \in DOMAIN contents : contents[r] \in [Key -> Entry]
  BY DEF CoreInv, TypeOK, HeapType, Content
<1> HIDE DEF old, new, n
<1>7. \A i \in 1..n : multi[i] \in DOMAIN contents' /\ (multi[i] = state'.memory => i = n)
  BY <1>1, <1>3, <1>5
<1>8. CASE \A i \in 1..n : contents'[multi[i]][k] = contents[multi[i]][k]
  <2>1. \A i \in 1..Len(new) : new[i][k] = old[i][k]
    BY <1>4, <1>8
  <2>2. MultiGet(new, k) = MultiGet(old, k)
    BY <1>4, <2>1, MultiGetSame
  <2> QED BY <1>3, <1>7, <1>8, <2>2 DEF SearchSees, new, n
<1>9. CASE k # l
  <2>1. ASSUME NEW i \in 1..n
        PROVE  contents'[multi[i]][k] = contents[multi[i]][k]
    <3>1. multi[i] \in DOMAIN contents /\ contents[multi[i]] \in [Key -> Entry]
      BY <1>3, <1>6
    <3>2. CASE multi[i] = state.memory
      BY <1>5, <1>9, <3>1, <3>2 DEF Put
    <3>3. CASE multi[i] # state.memory
      BY <1>5, <3>1, <3>3
    <3> QED BY <3>2, <3>3
  <2> QED BY <1>8, <2>1
<1>10. CASE k = l /\ \A i \in 1..n : multi[i] # state.memory
  BY <1>3, <1>5, <1>8, <1>10
<1>11. CASE k = l /\ \E i \in 1..n : multi[i] = state.memory
  <2>1. n \in 1..n /\ multi[n] = state.memory
    BY <1>3, <1>11
  <2>2. contents'[multi[n]][k] = v
    BY <1>3, <1>5, <1>6, <1>11, <2>1 DEF Put
  <2>3. CASE v = Empty
    BY <1>3, <1>7, <2>1, <2>2, <2>3 DEF SearchSees, n
  <2>4. CASE v \in Value
    <3>1. new[Len(new)][k] \in Value /\ new[Len(new)][k] = v /\ Len(new) \in Nat /\ Len(new) >= 1
      BY <1>4, <2>1, <2>2, <2>4
    <3>2. MultiGet(new, k) = v
      BY <3>1, MultiGetTop
    <3> QED BY <1>2, <1>3, <1>7, <1>11, <3>2 DEF SearchSees, new, n
  <2> QED BY <1>2, <2>3, <2>4
<1> QED BY <1>9, <1>10, <1>11

-----------------------------------------------------------------------------
\* A get that dereferences no null pointer has not loaded the pointers of a
\* close, and one that has loaded a list of segments dereferences none.
LEMMA ClearedFaults ==
  ASSUME NEW multi \in Multis, NEW k, MultiIsCleared(multi)
  PROVE  GetFault(multi, k) = "null"
<1>1. CASE multi = Null
  BY <1>1 DEF GetFault
<1>2. CASE multi # Null
  <2> DEFINE n == Len(multi)
  <2>1. multi \in Seq(Ref \cup {Null}) /\ multi # <<>> /\ multi[Len(multi)] = Null
    BY <1>2 DEF MultiIsCleared, Multis
  <2>2. n \in Nat /\ n >= 1 /\ multi[n] = Null
    BY <2>1, EmptySeq, LenProperties
  <2> HIDE DEF n
  <2>3. n \in SearchStops(multi, k) /\ SearchStops(multi, k) \in SUBSET (1..n)
    BY <2>2 DEF SearchStops, n
  <2>4. \A i \in SearchStops(multi, k) : i <= n
    BY <2>2, <2>3
  <2>5. MaxOf(SearchStops(multi, k)) = n
    BY <2>2, <2>3, <2>4, MaxOfIs
  <2> QED BY <1>2, <2>2, <2>3, <2>5 DEF GetFault
<1> QED BY <1>1, <1>2

LEMMA LoadedIsNotNull ==
  ASSUME NEW multi \in Chains, NEW k
  PROVE  GetFault(multi, k) # "null"
<1> USE DatabaseAssumption
<1>1. multi # Null /\ multi \in Seq(Ref)
  BY SeqMonotonic DEF Chains
<1>2. \A i \in 1..Len(multi) : multi[i] # Null
  BY <1>1, ElementOfSeq
<1>3. CASE SearchStops(multi, k) = {}
  BY <1>1, <1>3 DEF GetFault
<1>4. CASE SearchStops(multi, k) # {}
  <2>1. Len(multi) \in Nat /\ SearchStops(multi, k) \in SUBSET (1..Len(multi))
    BY <1>1 DEF SearchStops
  <2>2. MaxOf(SearchStops(multi, k)) \in 1..Len(multi)
    BY <1>4, <2>1, MaxOfProperties
  <2> QED BY <1>1, <1>2, <1>4, <2>2 DEF GetFault
<1> QED BY <1>3, <1>4

\* What a get loads is the database as it is, or the pointers of a close.
LEMMA LoadSees ==
  ASSUME CoreInv, NEW k \in Key, NEW values, MapSeen[k] \in values
  PROVE  \/ MultiIsCleared(state.multi) /\ closer.pc \notin {"idle", "waiting"}
         \/ SearchSees(state.multi, k, contents, state.memory, values)
<1> USE DatabaseAssumption
<1>1. CASE state.memory = Null
  <2>1. closer.pc \notin {"idle", "waiting"}
        /\ (state.multi = Null \/ state.multi = Append(state.segments, Null))
    BY <1>1 DEF CoreInv, MemoryNewest
  <2>2. ASSUME state.multi = Append(state.segments, Null)
        PROVE  MultiIsCleared(state.multi)
    <3>1. state.segments \in Seq(Ref \cup {Null})
      BY SeqMonotonic DEF CoreInv, TypeOK, StateType, Chains
    <3>2. /\ Append(state.segments, Null) # <<>>
          /\ Append(state.segments, Null)[Len(Append(state.segments, Null))] = Null
      BY <3>1, AppendProperties
    <3> QED BY <2>2, <3>2 DEF MultiIsCleared
  <2> QED BY <2>1, <2>2 DEF MultiIsCleared
<1>2. CASE state.memory # Null
  <2>1. state.multi = Chain
    BY <1>2 DEF CoreInv, MemoryNewest, Chain
  <2>2. /\ Chain \in Seq(Ref) /\ Len(Chain) \in Nat
        /\ \A i \in 1..Len(Chain) : Chain[i] = state.memory => i = Len(Chain)
    BY <1>2, MemoryIsLast
  <2>3. \A i \in 1..Len(Chain) : Chain[i] \in DOMAIN contents
    BY DEF CoreInv, ChainInHeap
  <2>4. ASSUME ~\E i \in 1..Len(Chain) : contents[Chain[i]][k] = Empty
        PROVE  MultiGet(Stack(contents, Chain), k) \in values
    <3> DEFINE layers == Stack(contents, Chain)
    <3>1. /\ Len(layers) = Len(Chain) /\ Len(layers) \in Nat
          /\ \A i \in 1..Len(Chain) : layers[i] = contents[Chain[i]]
      BY <2>2, StackProperties
    <3> HIDE DEF layers
    <3>2. \A r \in DOMAIN contents : contents[r] \in [Key -> Entry]
      BY DEF CoreInv, TypeOK, HeapType, Content
    <3>3. /\ \A i \in 1..Len(layers) : layers[i][k] \in Entry
          /\ \A i \in 1..Len(layers) : layers[i][k] # Empty
      BY <2>3, <2>4, <3>1, <3>2
    <3>4. MultiGet(layers, k) = View(layers)[k]
      BY ONLY <3>1, <3>3, k \in Key, MultiGetIsView
    <3> QED BY <3>4, SeenStacks DEF layers
  <2> QED BY <2>1, <2>2, <2>3, <2>4 DEF SearchSees, Chains
<1> QED BY <1>1, <1>2

LEMMA InitReaders == Init => ReadersSee
BY DEF Init, ReadersSee

LEMMA NextReaders ==
  ASSUME CoreInv, ReadersSee, [Next]_vars
  PROVE  ReadersSee'
<1> SUFFICES ASSUME NEW r \in Reader PROVE ReaderSees(r)'
  BY ReadersSeeParts
<1> USE DatabaseAssumption
<1>0. ReaderSees(r)
  BY ReadersSeeParts
<1>1. reader \in [Reader -> [pc : {"idle", "load", "search", "returned"},
                             key : Key \cup {Null}, multi : Multis,
                             result : Results \cup {Null}]]
      /\ seen \in [Reader -> SUBSET Results]
  BY DEF CoreInv, TypeOK, CallersType
<1>2. CASE reader'[r] = reader[r] /\ seen[r] \subseteq seen'[r]
  <2>1. CASE reader[r].pc = "load"
    <3>1. reader[r].key \in Key /\ MapSeen[reader[r].key] \in seen[r]
      BY <1>0, <2>1, ReaderSeesHeap
    <3>2. CASE \E w \in Writer : WriteApply(w)
      <4>1. PICK w \in Writer : WriteApply(w)
        BY <3>2
      <4> DEFINE k == Head(batch[w])[1]
                 v == Head(batch[w])[2]
      <4>2. MapSeen' = [MapSeen EXCEPT ![k] = v]
        BY <4>1, WriteApplyMaps DEF KV!Apply, MapSeen
      <4>3. MapSeen \in [Key -> Value \cup {Empty}]
        BY ViewType DEF MapSeen
      <4>4. reader[r].key = k => v \in seen'[r]
        BY <2>1, <4>1 DEF WriteApply
      <4> HIDE DEF k, v
      <4>5. MapSeen'[reader[r].key] \in seen'[r]
        BY <1>2, <3>1, <4>2, <4>3, <4>4
      <4> QED BY <1>2, <2>1, <3>1, <4>5, ReaderSeesHeap
    <3>3. CASE ~\E w \in Writer : WriteApply(w)
      <4>1. MapSeen' = MapSeen
        BY <3>3, HeapKept
      <4> QED BY <1>2, <2>1, <3>1, <4>1, ReaderSeesHeap
    <3> QED BY <3>2, <3>3
  <2>2. CASE reader[r].pc = "search"
    <3>1. reader[r].key \in Key
      BY <1>0, <2>2, ReaderSeesHeap
    <3>2. CASE MultiIsCleared(reader[r].multi) /\ closer.pc \notin {"idle", "waiting"}
      <4>1. closer'.pc \notin {"idle", "waiting"}
        BY <3>2, CloserStays
      <4> QED BY <1>2, <2>2, <3>1, <3>2, <4>1, ReaderSeesHeap
    <3>3. CASE SearchSees(reader[r].multi, reader[r].key, contents, state.memory, seen[r])
      <4> DEFINE multi == reader[r].multi
                 k == reader[r].key
                 values == seen[r]
                 more == seen'[r]
      <4>1. SearchSees(multi, k, contents', state'.memory, more)
        <5>1. CASE \E w \in Writer : WriteApply(w)
          <6>1. PICK w \in Writer : WriteApply(w)
            BY <5>1
          <6>2. k = Head(batch[w])[1] => Head(batch[w])[2] \in more
            BY <2>2, <6>1 DEF WriteApply
          <6>3. values \subseteq more /\ k \in Key
                /\ SearchSees(multi, k, contents, state.memory, values)
            BY <1>2, <3>1, <3>3
          <6> HIDE DEF multi, k, values, more
          <6> QED BY <6>1, <6>2, <6>3, SearchSeesEntry
        <5>2. CASE ~\E w \in Writer : WriteApply(w)
          <6>1. values \subseteq more
                /\ SearchSees(multi, k, contents, state.memory, values)
            BY <1>2, <3>3
          <6> HIDE DEF multi, k, values, more
          <6> QED BY <5>2, <6>1, SearchKept
        <5> QED BY <5>1, <5>2
      <4> QED BY <1>2, <2>2, <3>1, <4>1, ReaderSeesHeap
    <3> QED BY <1>0, <2>2, <3>2, <3>3, ReaderSeesHeap
  <2>3. CASE reader[r].pc \notin {"load", "search"}
    BY <1>2, <2>3, ReaderSeesHeap
  <2> QED BY <2>1, <2>2, <2>3
<1>3. ASSUME NEW k \in Key, ReadBegin(r, k)
      PROVE  ReaderSees(r)'
  <2>1. reader'[r] = [pc |-> "load", key |-> k, multi |-> Null, result |-> Null]
        /\ seen'[r] = {MapSeen[k]} /\ UNCHANGED <<contents, state>>
    BY <1>1, <1>3 DEF ReadBegin, SetReader, heap, MapSeen
  <2>2. MapSeen' = MapSeen
    BY <2>1 DEF MapSeen, Layers, Chain
  <2> QED BY <2>1, <2>2, ReaderSeesHeap
<1>4. CASE ReadLoad(r)
  <2>1. /\ reader[r].pc = "load" /\ reader'[r].pc = "search"
        /\ reader'[r].key = reader[r].key /\ reader'[r].multi = state.multi
        /\ seen' = seen /\ UNCHANGED <<contents, state, closer>>
    BY <1>1, <1>4 DEF ReadLoad, SetReader, heap, threads
  <2>2. reader[r].key \in Key /\ MapSeen[reader[r].key] \in seen[r]
    BY <1>0, <2>1, ReaderSeesHeap
  <2>3. \/ MultiIsCleared(state.multi) /\ closer.pc \notin {"idle", "waiting"}
        \/ SearchSees(state.multi, reader[r].key, contents, state.memory, seen[r])
    BY <2>2, LoadSees
  <2> QED BY <2>1, <2>2, <2>3, ReaderSeesHeap
<1>5. CASE ReadSearch(r) /\ GetFault(reader[r].multi, reader[r].key) = "none"
  <2>1. reader'[r].pc = "returned"
    BY <1>1, <1>5 DEF ReadSearch, SetReader
  <2> QED BY <2>1, ReaderSeesHeap
<1> QED BY <1>2, <1>3, <1>4, <1>5, ReaderStep

-----------------------------------------------------------------------------
\* Who can meet a null pointer.

LEMMA CrashWithNull ==
  ASSUME CoreInv, ReadersSee, Next, fault' = "null"
  PROVE  NullOnlyInClose'
<1> USE DatabaseAssumption
<1>1. closer.pc \in {"idle", "waiting", "merging", "flushing", "closed", "failed"}
  BY DEF CoreInv, TypeOK, ThreadsType
<1>2. fault = "none"
  BY DEF Next
<1>3. ASSUME state.memory = Null, lock = Null, Open
      PROVE  closer.pc = "failed"
  BY <1>1, <1>3 DEF CoreInv, MemoryNewest, CloserOrder, Open
<1>4. ASSUME Crash("null"), closer.pc = "failed"
      PROVE  NullOnlyInClose'
  BY <1>4 DEF Crash, threads, NullOnlyInClose
<1>5. CASE Write
  <2>1. ASSUME NEW w \in Writer, WriteApply(w)
        PROVE  FALSE
    BY <2>1, <1>2 DEF WriteApply
  <2>2. ASSUME NEW w \in Writer, NEW b \in Batches, WriteBegin(w, b)
        PROVE  NullOnlyInClose'
    <3>1. Crash("null") /\ state.memory = Null /\ lock = Null /\ Open
      BY <1>2, <2>2 DEF WriteBegin, BeginBatch, LockFree
    <3> QED BY <1>3, <1>4, <3>1
  <2>3. ASSUME NEW w \in Writer, NEW k \in Key, RemoveBegin(w, k)
        PROVE  NullOnlyInClose'
    <3>1. Crash("null") /\ GetFault(state.multi, k) = "null" /\ lock = Null /\ Open
      BY <1>2, <2>3 DEF RemoveBegin, BeginBatch, Crash, LockFree
    <3>2. CASE state.memory = Null
      BY <1>3, <1>4, <3>1, <3>2
    <3>3. CASE state.memory # Null
      <4>1. state.multi = Chain /\ Chain \in Chains
        BY <3>3, ChainType DEF CoreInv, MemoryNewest, Chain, Chains, TypeOK
      <4> QED BY <3>1, <4>1, LoadedIsNotNull
    <3> QED BY <3>2, <3>3
  <2> QED BY <1>5, <2>1, <2>2, <2>3 DEF Write
<1>6. CASE Snapshotting
  <2>1. ASSUME NEW s \in Snap, SnapshotTake(s) \/ SnapshotRelease(s)
        PROVE  FALSE
    BY <2>1, <1>2 DEF SnapshotTake, SnapshotRelease
  <2>2. CASE SnapshotTakeFaults
    <3>1. Crash("null") /\ state.memory = Null /\ lock = Null /\ Open
      BY <2>2 DEF SnapshotTakeFaults, SnapshotMayRun, LockFree
    <3> QED BY <1>3, <1>4, <3>1
  <2> QED BY <1>6, <2>1, <2>2 DEF Snapshotting
<1>7. CASE Read
  <2>1. ASSUME NEW r \in Reader, NEW k \in Key, ReadBegin(r, k)
        PROVE  FALSE
    BY <2>1, <1>2 DEF ReadBegin
  <2>2. ASSUME NEW r \in Reader, ReadLoad(r)
        PROVE  FALSE
    BY <2>2, <1>2 DEF ReadLoad
  <2>3. ASSUME NEW r \in Reader, ReadSearch(r)
        PROVE  NullOnlyInClose'
    <3> DEFINE multi == reader[r].multi
               k == reader[r].key
    <3>1. Crash("null") /\ GetFault(multi, k) = "null" /\ reader[r].pc = "search"
      BY <1>2, <2>3 DEF ReadSearch, Crash
    <3>2. \/ MultiIsCleared(multi) /\ closer.pc \notin {"idle", "waiting"}
          \/ multi \in Chains
      BY <3>1 DEF ReadersSee, MultiIsLoaded
    <3>3. multi \notin Chains
      BY <3>1, LoadedIsNotNull
    <3>4. closer.pc \in {"merging", "flushing", "closed", "failed"}
      BY <1>1, <3>2, <3>3
    <3>5. closer' = closer /\ reader' = reader
      BY <3>1 DEF Crash, threads, callers
    <3> QED BY <3>1, <3>4, <3>5 DEF NullOnlyInClose
  <2> QED BY <1>7, <2>1, <2>2, <2>3 DEF Read
<1>8. CASE Merging
  BY <1>2, <1>8 DEF Merging, AutoWake, AutoReturn, MergePick, MergeWrite, MergeMeetsFiles,
     MergeWriteFails, MergeWritten, MergeSwap, MergeThrows
<1>9. CASE Close
  BY <1>2, <1>9 DEF Close, CloseBegin, CloseLock, CloseEnqueue, FlushSegment, CloseFinish, Crash
<1> QED BY <1>5, <1>6, <1>7, <1>8, <1>9 DEF Next

LEMMA NextNull ==
  ASSUME CoreInv, ReadersSee, NullOnlyInClose, [Next]_vars
  PROVE  NullOnlyInClose'
<1>1. CASE UNCHANGED vars
  BY <1>1 DEF vars, NullOnlyInClose
<1>2. CASE Next
  BY <1>2, CrashWithNull DEF NullOnlyInClose
<1> QED BY <1>1, <1>2

-----------------------------------------------------------------------------
ReadsInv == CoreInv /\ ReadersSee /\ NullOnlyInClose

LEMMA ReadsInvariance == Spec => []ReadsInv
<1>1. Init => ReadsInv
  BY InitIInv, InitReaders DEF ReadsInv, Init, NullOnlyInClose
<1>2. ReadsInv /\ [Next]_vars => ReadsInv'
  BY NextIInv, NextReaders, NextNull DEF ReadsInv
<1> QED BY <1>1, <1>2, PTL DEF Spec

\* A get that meets no removal of its key returns a value the key had at some
\* time since the call, whatever swaps, snapshots and merges it overlapped.
THEOREM GetsAreLinearizable == Spec => GetLinearizable
<1> DEFINE Linearizable ==
             \A r \in Reader :
               /\ reader[r].pc = "search" /\ reader'[r].pc = "returned"
               /\ ~RemovedIn(reader[r].multi, reader[r].key)
               => reader'[r].result \in seen'[r]
<1>1. ReadsInv /\ [Next]_vars => [Linearizable]_vars
  <2> SUFFICES ASSUME ReadsInv, [Next]_vars, NEW r \in Reader,
                      reader[r].pc = "search", reader'[r].pc = "returned",
                      ~RemovedIn(reader[r].multi, reader[r].key)
               PROVE  reader'[r].result \in seen'[r]
    OBVIOUS
  <2> DEFINE multi == reader[r].multi
             k == reader[r].key
  <2>1. reader \in [Reader -> [pc : {"idle", "load", "search", "returned"},
                               key : Key \cup {Null}, multi : Multis,
                               result : Results \cup {Null}]]
    BY DEF ReadsInv, CoreInv, TypeOK, CallersType
  <2>2. ReadSearch(r) /\ GetFault(multi, k) = "none"
    <3>1. reader'[r] # reader[r]
      OBVIOUS
    <3>2. ~\E l \in Key : ReadBegin(r, l)
      BY DEF ReadBegin
    <3>3. ~ReadLoad(r)
      BY DEF ReadLoad
    <3> QED BY <3>1, <3>2, <3>3, ReaderStep DEF ReadsInv
  <2>3. reader'[r].result = MultiGet(Layers(multi), k) /\ seen' = seen
    BY <2>1, <2>2 DEF ReadSearch, SetReader
  <2>4. ~MultiIsCleared(multi)
    BY <2>1, <2>2, ClearedFaults
  <2>5. MultiGet(Layers(multi), k) \in seen[r]
    BY <2>4 DEF ReadsInv, ReadersSee
  <2> QED BY <2>3, <2>5
<1>2. Spec => [][Linearizable]_vars
  BY <1>1, ReadsInvariance, PTL DEF Spec
<1> QED BY <1>2 DEF GetLinearizable

\* Only a get that a close overtakes meets a pointer the close has cleared,
\* unless the close has failed.
THEOREM NullsAreOfClose == Spec => []NullOnlyInClose
<1>1. ReadsInv => NullOnlyInClose
  BY DEF ReadsInv
<1> QED BY <1>1, ReadsInvariance, PTL

-----------------------------------------------------------------------------
\* The merged segment covers what it is merged from.
LEMMA SliceWithinTarget ==
  ASSUME CoreInv, merge.pc # "pick", NEW r \in Members(merge.slice)
  PROVE  Within(r, TargetOf(merge.slice))
<1> DEFINE last == merge.start + Len(merge.slice) - 1
<1>1. /\ state.segments \in Seq(Ref) /\ Ordered(state.segments)
      /\ merge.start \in 1..Len(state.segments) /\ last \in 1..Len(state.segments)
      /\ TargetOf(merge.slice)[1] = state.segments[merge.start][1]
      /\ TargetOf(merge.slice)[2] = state.segments[last][2]
  BY MergeIsSlice, TargetProperties
<1>2. PICK i \in 1..Len(merge.slice) : r = merge.slice[i]
  BY DEF Members
<1>3. PICK j \in 1..Len(state.segments) :
        r = state.segments[j] /\ merge.start <= j /\ j <= last
  <2>0. /\ IsSlice(state.segments, merge.start, merge.slice)
        /\ Len(merge.slice) \in Nat /\ Len(state.segments) \in Nat
    BY MergeIsSlice
  <2>1. merge.start + i - 1 \in 1..Len(state.segments)
    <3>1. /\ merge.start \in Nat /\ merge.start >= 1
          /\ merge.start + Len(merge.slice) - 1 <= Len(state.segments)
      BY ONLY <2>0 DEF IsSlice
    <3> QED BY ONLY <2>0, <3>1, i \in 1..Len(merge.slice), PositionInSlice
  <2>2. r = state.segments[merge.start + i - 1]
    BY ONLY <1>2, <2>0, i \in 1..Len(merge.slice) DEF IsSlice
  <2>3. merge.start <= merge.start + i - 1 /\ merge.start + i - 1 <= last
    BY <1>1, <1>2
  <2> QED BY <2>1, <2>2, <2>3
<1>4. state.segments[merge.start][1] <= state.segments[j][1]
      /\ state.segments[j][2] <= state.segments[last][2]
  BY <1>1, <1>3, OrderedPositions
<1> QED BY <1>1, <1>3, <1>4 DEF Within

-----------------------------------------------------------------------------
\* What an action that concerns no files keeps.
LEMMA FilesFrame ==
  ASSUME FilesInv, UNCHANGED <<diskSegments, files, deleted, left, state, flushing>>,
         merge' = merge \/ (merge.pc # "swap" /\ merge'.pc # "swap"),
         closer'.pc \in {"flushing", "closed"} <=> closer.pc \in {"flushing", "closed"},
         closer'.pc = "closed" <=> closer.pc = "closed",
         closer.pc \in {"flushing", "closed"} => contents' = contents
  PROVE  FilesInv'
<1>1. FilesAreListed'
  BY DEF FilesInv, FilesAreListed
<1>2. SegmentsAreStored'
  BY DEF FilesInv, SegmentsAreStored
<1>3. DeletedAreReplaced'
  BY DEF FilesInv, DeletedAreReplaced
<1>4. DiskHasFiles'
  BY DEF FilesInv, DiskHasFiles
<1>5. DeletedAreCovered'
  BY DEF FilesInv, DeletedAreCovered
<1> QED BY <1>1, <1>2, <1>3, <1>4, <1>5 DEF FilesInv

LEMMA CrashFiles ==
  ASSUME FilesInv, NEW why, Crash(why)
  PROVE  FilesInv'
BY FilesFrame DEF Crash, heap, threads

\* What holds while closeWithMerge is before its tasks or in them.
LEMMA MemoryBeforeClose ==
  ASSUME CoreInv, state.memory # Null
  PROVE  /\ closer.pc \notin {"flushing", "closed"}
         /\ state.memory \in Ref /\ state.segments \in Seq(Ref)
BY DEF CoreInv, MemoryNewest, TypeOK, StateType, Chains

LEMMA MergeBeforeTasks ==
  ASSUME CoreInv, merge.pc # "pick"
  PROVE  closer.pc \in {"idle", "waiting", "merging"}
<1>1. closer.pc \in {"idle", "waiting", "merging", "flushing", "closed", "failed"}
      /\ merge.owner \in {Null, "auto", Closer}
  BY DEF CoreInv, TypeOK, ThreadsType
<1>2. merge.owner \in {"auto", Closer}
  BY <1>1 DEF CoreInv, MergeOwned
<1>3. CASE merge.owner = "auto"
  BY <1>1, <1>3 DEF CoreInv, MergeOwned, CloserOrder
<1>4. CASE merge.owner = Closer
  BY <1>4 DEF CoreInv, MergeOwned
<1> QED BY <1>2, <1>3, <1>4

\* The memory segment joins the list (maybeSwapMemory, snapshot, close).
LEMMA ListExtended ==
  ASSUME CoreInv, FilesInv, state.memory # Null,
         state'.segments = Append(state.segments, state.memory),
         state'.memory \notin diskSegments,
         UNCHANGED <<diskSegments, files, deleted, left, flushing>>,
         merge' = merge \/ (merge.pc # "swap" /\ merge'.pc # "swap"),
         closer'.pc \notin {"flushing", "closed"}
  PROVE  FilesInv'
<1>1. closer.pc \notin {"flushing", "closed"}
  BY MemoryBeforeClose
<1>2. Members(state'.segments) = Members(state.segments) \cup {state.memory}
  BY MemoryBeforeClose, MembersOfAppend
<1>3. state.memory \notin diskSegments /\ deleted \subseteq diskSegments
  BY DEF FilesInv, DiskHasFiles
<1>4. FilesAreListed'
  BY <1>2 DEF FilesInv, FilesAreListed
<1>5. SegmentsAreStored'
  BY <1>2, <1>3 DEF FilesInv, SegmentsAreStored
<1>6. DeletedAreReplaced'
  BY <1>2, <1>3 DEF FilesInv, DeletedAreReplaced
<1>7. DiskHasFiles'
  BY <1>1, <1>2, <1>3 DEF FilesInv, DiskHasFiles
<1>8. DeletedAreCovered'
  BY DEF FilesInv, DeletedAreCovered
<1> QED BY <1>4, <1>5, <1>6, <1>7, <1>8 DEF FilesInv

LEMMA SwapMemoryFiles ==
  ASSUME CoreInv, FilesInv, state.memory # Null, SwapMemory,
         UNCHANGED <<diskSegments, files, deleted, left, threads>>
  PROVE  FilesInv'
<1>1. state'.memory \notin diskSegments
  BY SwapKeepsMap DEF CoreInv, TypeOK, HeapType
<1>2. state'.segments = Append(state.segments, state.memory)
  BY DEF SwapMemory
<1>3. closer' = closer /\ merge' = merge /\ flushing' = flushing
  BY DEF threads
<1> QED BY <1>1, <1>2, <1>3, MemoryBeforeClose, ListExtended

LEMMA BeginBatchFiles ==
  ASSUME CoreInv, FilesInv, state.memory # Null, NEW w \in Writer, NEW b, BeginBatch(w, b)
  PROVE  FilesInv'
<1>1. CASE MemoryIsFull
  BY <1>1, SwapMemoryFiles DEF BeginBatch, MaybeSwapMemory
<1>2. CASE ~MemoryIsFull
  BY <1>2, FilesFrame DEF BeginBatch, MaybeSwapMemory, threads
<1> QED BY <1>1, <1>2

LEMMA WriteFiles ==
  ASSUME CoreInv, FilesInv, Write
  PROVE  FilesInv'
<1>1. ASSUME NEW w \in Writer, NEW b \in Batches, WriteBegin(w, b)
      PROVE  FilesInv'
  BY <1>1, BeginBatchFiles, CrashFiles DEF WriteBegin
<1>2. ASSUME NEW w \in Writer, NEW k \in Key, RemoveBegin(w, k)
      PROVE  FilesInv'
  <2>1. CASE state.memory = Null
    BY <2>1, <1>2, NullMemoryFaults, CrashFiles DEF RemoveBegin
  <2>2. CASE state.memory # Null
    BY <2>2, <1>2, BeginBatchFiles, CrashFiles DEF RemoveBegin
  <2> QED BY <2>1, <2>2
<1>3. ASSUME NEW w \in Writer, WriteApply(w)
      PROVE  FilesInv'
  <2>1. state.memory # Null
    BY <1>3 DEF WriteApply, CoreInv, WritersLocked
  <2>2. UNCHANGED <<diskSegments, files, deleted, left, state, flushing, merge, closer>>
    BY <1>3 DEF WriteApply, threads
  <2> QED BY <2>1, <2>2, MemoryBeforeClose, FilesFrame
<1> QED BY <1>1, <1>2, <1>3 DEF Write

LEMMA SnapshottingFiles ==
  ASSUME CoreInv, FilesInv, Snapshotting
  PROVE  FilesInv'
<1>1. ASSUME NEW s \in Snap, SnapshotTake(s)
      PROVE  FilesInv'
  BY <1>1, SwapMemoryFiles DEF SnapshotTake
<1>2. ASSUME NEW s \in Snap, SnapshotRelease(s)
      PROVE  FilesInv'
  BY <1>2, FilesFrame DEF SnapshotRelease, heap, threads
<1>3. CASE SnapshotTakeFaults
  BY <1>3, CrashFiles DEF SnapshotTakeFaults
<1> QED BY <1>1, <1>2, <1>3 DEF Snapshotting

LEMMA ReadFiles ==
  ASSUME FilesInv, Read
  PROVE  FilesInv'
<1>1. UNCHANGED <<heap, state, threads>>
  BY DEF Read, ReadBegin, ReadLoad, ReadSearch, Crash
<1> QED BY <1>1, FilesFrame DEF heap, threads

-----------------------------------------------------------------------------
\* mergeSegments0.

LEMMA MergeThrowsFiles ==
  ASSUME CoreInv, FilesInv, merge.pc = "write", NEW what, MergeThrows(what), Leaves(what)
  PROVE  FilesInv'
<1> DEFINE target == TargetOf(merge.slice)
<1>1. closer.pc \in {"idle", "waiting", "merging"}
  BY MergeBeforeTasks
<1>2. merge'.pc = "pick" /\ UNCHANGED <<diskSegments, deleted, state, flushing>>
  BY DEF MergeThrows, NoMerge, DeletedWhenMergeThrows
<1>3. closer' = closer \/ closer'.pc = "failed"
  <2>1. closer \in [pc : {"idle", "waiting", "merging", "flushing", "closed", "failed"},
                    count : Nat, why : {"none", "io", "exists", "changed"}]
    BY DEF CoreInv, TypeOK, ThreadsType
  <2> QED BY <2>1 DEF MergeThrows
<1>4. CASE UNCHANGED <<contents, files, left>>
  BY <1>1, <1>2, <1>3, <1>4, FilesFrame
<1>5. CASE /\ ~InTheWay(target) /\ left' = left \cup {target}
           /\ files' = files \/ files' = files \cup {target}
  <2>1. target \notin diskSegments
    BY <1>5, TargetIsFree DEF InTheWay, CoreInv, TypeOK, HeapType
  <2>2. files \subseteq files' /\ files' \subseteq files \cup {target}
    BY <1>5
  <2> HIDE DEF target
  <2>3. FilesAreListed'
    BY <1>2, <1>5, <2>2 DEF FilesInv, FilesAreListed
  <2>4. SegmentsAreStored'
    BY <1>1, <1>2, <1>3, <2>2 DEF FilesInv, SegmentsAreStored
  <2>5. DeletedAreReplaced'
    BY <1>2 DEF FilesInv, DeletedAreReplaced
  <2>6. DiskHasFiles'
    BY <1>1, <1>2, <1>3, <1>5, <2>1, <2>2 DEF FilesInv, DiskHasFiles
  <2>7. DeletedAreCovered'
    BY <1>2, <2>2 DEF FilesInv, DeletedAreCovered
  <2> QED BY <2>3, <2>4, <2>5, <2>6, <2>7 DEF FilesInv
<1> QED BY <1>4, <1>5 DEF Leaves

LEMMA MergeWriteFiles ==
  ASSUME CoreInv, FilesInv, MergeWrite
  PROVE  FilesInv'
<1> DEFINE target == TargetOf(merge.slice)
           replaced == Members(merge.slice) \cap diskSegments
<1>1. merge.pc = "write" /\ target \notin DOMAIN contents \ left
  BY TargetIsFree DEF MergeWrite
<1>2. closer.pc \in {"idle", "waiting", "merging"}
  BY <1>1, MergeBeforeTasks
<1>3. CASE MergeMeetsFiles \/ MergeWriteFails
  BY <1>1, <1>3, MergeThrowsFiles DEF MergeMeetsFiles, MergeWriteFails, Leaves
<1>4. CASE MergeWritten
  <2>0. /\ target \notin left /\ target \notin DOMAIN contents /\ target \notin files
        /\ diskSegments' = diskSegments \cup {target}
        /\ files' = files \cup {target}
        /\ deleted' = deleted \cup replaced
        /\ merge' = [merge EXCEPT !.pc = "swap"]
        /\ UNCHANGED <<left, state, closer, flushing>>
    BY <1>1, <1>4 DEF MergeWritten, InTheWay
  <2>1. merge'.pc = "swap" /\ merge'.slice = merge.slice
    BY <2>0 DEF CoreInv, TypeOK, ThreadsType
  <2>2. /\ DOMAIN contents \subseteq Ref /\ deleted \subseteq DOMAIN contents
        /\ diskSegments \subseteq DOMAIN contents /\ files \subseteq DOMAIN contents
        /\ target \in Ref
    BY <1>1, MergeIsSliceOfChain DEF CoreInv, TypeOK, HeapType
  <2>3. target \notin Members(merge.slice)
    BY <1>1, <2>0, SliceInHeap DEF Members
  <2>4. files \ left = diskSegments /\ flushing = {} /\ target # state.memory
    BY <1>1, <1>2, TargetOlder DEF FilesInv, DiskHasFiles, CoreInv, CloserOrder
  <2>5. Members(state.segments) \cap deleted = {}
    BY <1>1 DEF FilesInv, DeletedAreReplaced
  <2> HIDE DEF target
  <2>6. FilesAreListed'
    BY <1>1, <2>0, <2>1 DEF FilesInv, FilesAreListed, target
  <2>7. SegmentsAreStored'
    <3> SUFFICES ASSUME NEW r \in Members(state.segments)
                 PROVE  r \in files' \/ r \notin diskSegments'
      BY <1>2, <2>0 DEF SegmentsAreStored
    <3> QED BY <2>0 DEF FilesInv, SegmentsAreStored
  <2>8. DeletedAreReplaced'
    BY <2>0, <2>1, <2>5 DEF DeletedAreReplaced
  <2>9. DiskHasFiles'
    <3>1. files' \ left' = diskSegments' /\ state'.memory \notin diskSegments'
      BY <2>0, <2>4 DEF FilesInv, DiskHasFiles
    <3>2. deleted' \subseteq diskSegments' /\ flushing' = {}
      BY <2>0, <2>4 DEF FilesInv, DiskHasFiles
    <3>3. target \in diskSegments' \ deleted'
      BY <2>0, <2>2, <2>3
    <3>4. Members(merge.slice) \cap diskSegments' \subseteq deleted'
      BY <2>0, <2>3
    <3> QED BY <1>2, <2>0, <2>1, <3>1, <3>2, <3>3, <3>4 DEF DiskHasFiles, target
  <2>10. DeletedAreCovered'
    <3>1. target \in files' \ deleted'
      BY <2>0, <2>2, <2>3
    <3>2. ASSUME NEW r \in replaced
          PROVE  Within(r, target)
      BY <1>1, SliceWithinTarget DEF target
    <3>3. ASSUME NEW r \in deleted
          PROVE  \E t \in files' \ deleted' : Within(r, t)
      <4>1. PICK t \in files \ deleted : Within(r, t)
        BY DEF FilesInv, DeletedAreCovered
      <4>2. CASE t \in replaced
        <5>1. Within(r, target)
          BY <2>2, <3>2, <4>1, <4>2, WithinTransitive
        <5> QED BY <3>1, <5>1
      <4>3. CASE t \notin replaced
        <5>1. t \in files' \ deleted'
          BY <2>0, <4>1, <4>3
        <5> QED BY <4>1, <5>1
      <4> QED BY <4>2, <4>3
    <3> QED BY <2>0, <3>1, <3>2, <3>3 DEF DeletedAreCovered
  <2> QED BY <2>6, <2>7, <2>8, <2>9, <2>10 DEF FilesInv
<1> QED BY <1>3, <1>4 DEF MergeWrite

LEMMA MergeSwapFiles ==
  ASSUME CoreInv, FilesInv, MergeSwap
  PROVE  FilesInv'
<1> DEFINE target == TargetOf(merge.slice)
<1>1. merge.pc = "swap" /\ SliceUnchanged
  BY SliceStaysUnchanged DEF MergeSwap
<1>2. /\ state'.segments = Splice(state.segments, merge.start, merge.slice, target)
      /\ state'.memory = state.memory
      /\ merge'.pc = "pick"
      /\ UNCHANGED <<heap, closer, flushing>>
  BY <1>1 DEF MergeSwap, NoMerge
<1>3. closer.pc \in {"idle", "waiting", "merging"}
  BY <1>1, MergeBeforeTasks
<1>4. Members(state'.segments) = (Members(state.segments) \ Members(merge.slice)) \cup {target}
  <2>1. /\ merge.slice \in Seq(Ref) /\ state.segments \in Seq(Ref) /\ target \in Ref
        /\ Ascending(state.segments) /\ IsSlice(state.segments, merge.start, merge.slice)
    BY <1>1, MergeIsSlice, MergeIsSliceOfChain
  <2> QED BY ONLY <1>2, <2>1, MembersOfSplice
<1>5. /\ files \ left = diskSegments /\ flushing = {} /\ target \in diskSegments \ deleted
      /\ Members(merge.slice) \cap diskSegments \subseteq deleted
  BY <1>1, <1>3 DEF FilesInv, DiskHasFiles, CoreInv, CloserOrder
<1>6. UNCHANGED <<contents, diskSegments, files, deleted, left>>
  BY <1>2 DEF heap
<1>7. FilesAreListed'
  BY <1>1, <1>4, <1>5, <1>6 DEF FilesInv, FilesAreListed
<1>8. SegmentsAreStored'
  BY <1>2, <1>3, <1>4, <1>5, <1>6 DEF FilesInv, SegmentsAreStored
<1>9. DeletedAreReplaced'
  <2> SUFFICES ASSUME NEW r \in Members(state'.segments) \cap deleted
               PROVE  FALSE
    BY <1>6 DEF DeletedAreReplaced
  <2> QED BY <1>4, <1>5 DEF FilesInv, DeletedAreReplaced
<1>10. DiskHasFiles'
  BY <1>2, <1>3, <1>5, <1>6 DEF FilesInv, DiskHasFiles
<1>11. DeletedAreCovered'
  BY <1>6 DEF FilesInv, DeletedAreCovered
<1> QED BY <1>7, <1>8, <1>9, <1>10, <1>11 DEF FilesInv

LEMMA MergingFiles ==
  ASSUME CoreInv, FilesInv, Merging
  PROVE  FilesInv'
<1>1. CASE AutoWake
  <2>1. merge' = merge \/ (merge.pc # "swap" /\ merge'.pc # "swap")
    BY <1>1 DEF AutoWake, NoMerge, CoreInv, MergeOwned
  <2> QED BY <1>1, <2>1, FilesFrame DEF AutoWake, heap
<1>2. CASE AutoReturn
  BY <1>2, FilesFrame DEF AutoReturn, heap
<1>3. CASE MergePick
  <2>1. merge.pc = "pick" /\ merge \in [owner : {Null, "auto", Closer},
                                       pc : {"pick", "write", "swap"}, start : Nat,
                                       slice : Chains]
    BY <1>3 DEF MergePick, CoreInv, TypeOK, ThreadsType
  <2>2. merge'.pc # "swap"
    <3>1. CASE merge' = NoMerge
      BY <3>1 DEF NoMerge
    <3>2. CASE \E start, slice : merge' = [merge EXCEPT !.pc = "write", !.start = start,
                                                       !.slice = slice]
      BY <2>1, <3>2
    <3> QED BY <1>3, <3>1, <3>2 DEF MergePick
  <2> QED BY <1>3, <2>1, <2>2, FilesFrame DEF MergePick, heap
<1> QED BY <1>1, <1>2, <1>3, MergeWriteFiles, MergeSwapFiles DEF Merging

-----------------------------------------------------------------------------
\* closeWithMerge.

\* Once a close runs its tasks, or has none left, there is no merge under way.
LEMMA NoMergeInTasks ==
  ASSUME CoreInv, closer.pc \in {"merging", "flushing", "closed"}, merge.owner # Closer
  PROVE  merge.pc = "pick"
<1>1. merge.owner \in {Null, "auto"} /\ auto = "exited"
  BY DEF CoreInv, TypeOK, ThreadsType, CloserOrder
<1> QED BY <1>1 DEF CoreInv, MergeOwned

LEMMA CloseEnqueueFiles ==
  ASSUME CoreInv, FilesInv, CloseEnqueue
  PROVE  FilesInv'
<1> DEFINE tasks == Members(state.segments) \ diskSegments
<1>1. /\ closer.pc = "merging" /\ closer'.pc = "flushing" /\ flushing' = tasks
      /\ UNCHANGED <<contents, diskSegments, files, deleted, left, state, merge>>
  BY DEF CloseEnqueue, heap, CoreInv, TypeOK, ThreadsType
<1>2. merge.pc = "pick"
  BY <1>1, NoMergeInTasks DEF CloseEnqueue
<1>3. FilesAreListed'
  BY <1>1, <1>2 DEF FilesInv, FilesAreListed
<1>4. SegmentsAreStored'
  BY <1>1 DEF FilesInv, SegmentsAreStored
<1>5. DeletedAreReplaced'
  BY <1>1, <1>2 DEF FilesInv, DeletedAreReplaced
<1>6. DiskHasFiles'
  BY <1>1, <1>2 DEF FilesInv, DiskHasFiles
<1>7. DeletedAreCovered'
  BY <1>1 DEF FilesInv, DeletedAreCovered
<1> QED BY <1>3, <1>4, <1>5, <1>6, <1>7 DEF FilesInv

LEMMA FlushSegmentFiles ==
  ASSUME CoreInv, FilesInv, NEW r \in flushing, FlushSegment(r)
  PROVE  FilesInv'
<1>1. CASE Crash("terminate")
  BY <1>1, CrashFiles
<1>2. CASE /\ files' = IF contents[r] = NoEntries THEN files ELSE files \cup {r}
           /\ flushing' = flushing \ {r}
           /\ UNCHANGED <<contents, diskSegments, deleted, left, state, merge, closer>>
  <2>1. closer.pc = "flushing"
    BY DEF CoreInv, CloserOrder
  <2>2. merge.pc = "pick"
    BY <2>1, NoMergeInTasks DEF CoreInv, MergeOwned
  <2>3. /\ r \in Members(state.segments) /\ r \notin diskSegments
        /\ deleted \subseteq diskSegments /\ files \subseteq files'
        /\ files' \subseteq files \cup {r}
        /\ contents[r] = NoEntries \/ r \in files'
    BY <1>2 DEF FilesInv, DiskHasFiles
  <2>4. FilesAreListed'
    BY <1>2, <2>2, <2>3 DEF FilesInv, FilesAreListed
  <2>5. SegmentsAreStored'
    BY <1>2, <2>1, <2>3 DEF FilesInv, SegmentsAreStored
  <2>6. DeletedAreReplaced'
    BY <1>2, <2>2 DEF FilesInv, DeletedAreReplaced
  <2>7. DiskHasFiles'
    BY <1>2, <2>1, <2>2 DEF FilesInv, DiskHasFiles
  <2>8. DeletedAreCovered'
    BY <1>2, <2>3 DEF FilesInv, DeletedAreCovered
  <2> QED BY <2>4, <2>5, <2>6, <2>7, <2>8 DEF FilesInv
<1> QED BY <1>1, <1>2 DEF FlushSegment

LEMMA CloseFinishFiles ==
  ASSUME CoreInv, FilesInv, CloseFinish
  PROVE  FilesInv'
<1>1. /\ closer.pc = "flushing" /\ wg = 0 /\ closer'.pc = "closed"
      /\ files' = files \ deleted /\ deleted' = {}
      /\ UNCHANGED <<contents, diskSegments, left, state, merge, flushing>>
  BY DEF CloseFinish, CoreInv, TypeOK, ThreadsType
<1>2. flushing = {}
  BY <1>1, NothingLeftToWaitFor
<1>3. merge.pc = "pick"
  BY <1>1, NoMergeInTasks DEF CoreInv, MergeOwned
<1>4. FilesAreListed'
  BY <1>1, <1>3 DEF FilesInv, FilesAreListed
<1>5. SegmentsAreStored'
  BY <1>1, <1>2, <1>3 DEF FilesInv, SegmentsAreStored, DeletedAreReplaced
<1>6. DeletedAreReplaced' /\ DeletedAreCovered'
  BY <1>1 DEF DeletedAreReplaced, DeletedAreCovered
<1>7. DiskHasFiles'
  BY <1>1, <1>2, <1>3 DEF FilesInv, DiskHasFiles
<1> QED BY <1>4, <1>5, <1>6, <1>7 DEF FilesInv

LEMMA CloseFiles ==
  ASSUME CoreInv, FilesInv, Close
  PROVE  FilesInv'
<1>1. ASSUME NEW count \in CloseCounts, CloseBegin(count)
      PROVE  FilesInv'
  <2>1. closer.pc = "idle" /\ closer'.pc = "waiting"
        /\ UNCHANGED <<heap, state, merge, flushing>>
    BY <1>1 DEF CloseBegin
  <2> QED BY <2>1, FilesFrame DEF heap
<1>2. CASE CloseLock
  <2>1. /\ closer.pc = "waiting" /\ wg = 0 /\ closer'.pc = "merging"
        /\ state'.segments = Append(state.segments, state.memory)
        /\ state'.memory = Null
        /\ UNCHANGED <<heap, flushing>>
        /\ merge' = IF closer.count > 0 /\ merge.owner = Null
                    THEN [NoMerge EXCEPT !.owner = Closer] ELSE merge
    BY <1>2 DEF CloseLock, CloseMayLock, ChainAtClose, CoreInv, TypeOK, ThreadsType
  <2>2. state.memory # Null
    BY <2>1 DEF CoreInv, MemoryNewest
  <2>3. Null \notin diskSegments
    BY DatabaseAssumption DEF CoreInv, TypeOK, HeapType
  <2>4. merge' = merge \/ (merge.pc # "swap" /\ merge'.pc # "swap")
    BY <2>1 DEF CoreInv, MergeOwned, NoMerge
  <2> QED BY <2>1, <2>2, <2>3, <2>4, ListExtended DEF heap
<1>3. ASSUME NEW r \in flushing, FlushSegment(r)
      PROVE  FilesInv'
  BY <1>3, FlushSegmentFiles
<1> QED BY <1>1, <1>2, <1>3, CloseEnqueueFiles, CloseFinishFiles DEF Close

LEMMA InitFiles == Init => FilesInv
<1> SUFFICES ASSUME Init PROVE FilesInv
  OBVIOUS
<1> USE DatabaseAssumption
<1>1. PICK layers \in InitialLayers :
        LET n == Len(layers)
            segments == [i \in 1..n |-> <<i, i>>]
            memory == <<n + 1, n + 1>>
        IN  /\ state = [segments |-> segments, memory |-> memory,
                        multi |-> Append(segments, memory)]
            /\ diskSegments = Members(segments)
            /\ files = Members(segments)
            /\ deleted = {}
            /\ left = {}
            /\ merge = NoMerge
            /\ closer = [pc |-> "idle", count |-> 0, why |-> "none"]
            /\ flushing = {}
  BY DEF Init
<1> DEFINE n == Len(layers)
           segments == [i \in 1..n |-> <<i, i>>]
<1>2. n \in Nat
  BY DEF Content
<1>3. segments \in Seq(Ref)
  <2>1. segments \in [1..n -> Ref]
    BY <1>2 DEF Ref
  <2> QED BY <1>2, <2>1, SeqDef
<1>4. <<n + 1, n + 1>> \notin Members(segments)
  <2>1. Len(segments) = n
    BY <1>2, <1>3, LenProperties
  <2> QED BY <1>2, <2>1 DEF Members
<1>5. /\ state.segments = segments /\ state.memory = <<n + 1, n + 1>>
      /\ merge.pc = "pick" /\ closer.pc = "idle"
      /\ diskSegments = Members(segments) /\ files = Members(segments)
      /\ deleted = {} /\ left = {} /\ flushing = {}
  BY <1>1 DEF NoMerge
<1> HIDE DEF segments
<1> QED BY <1>4, <1>5 DEF FilesInv, FilesAreListed, SegmentsAreStored, DeletedAreReplaced,
           DiskHasFiles, DeletedAreCovered

LEMMA NextFiles ==
  ASSUME CoreInv, FilesInv, [Next]_vars
  PROVE  FilesInv'
<1>1. CASE UNCHANGED vars
  BY <1>1, FilesFrame DEF vars
<1> QED BY <1>1, WriteFiles, SnapshottingFiles, ReadFiles, MergingFiles, CloseFiles DEF Next

-----------------------------------------------------------------------------
\* Everything a close promises about the files rests on who may hold what, on
\* the order of the list, and on which files there are.
LEMMA FilesInvariance == Spec => [](CoreInv /\ FilesInv)
<1>1. Init => CoreInv /\ FilesInv
  BY InitIInv, InitFiles
<1>2. CoreInv /\ FilesInv /\ [Next]_vars => (CoreInv /\ FilesInv)'
  BY NextIInv, NextFiles
<1> QED BY <1>1, <1>2, PTL DEF Spec

\* The whole invariant that the model checker checks on the calls of a session.
THEOREM WholeInvariance == Spec => []IInv
<1>1. ReadsInv /\ CoreInv /\ FilesInv => IInv
  BY DEF ReadsInv, IInv
<1> QED BY <1>1, ReadsInvariance, FilesInvariance, PTL

\* No file is listed for deletion before another one, which is not listed,
\* covers its range (mergeSegments1, scheduleDeletion).
THEOREM DeletedStayCovered == Spec => []DeletedAreCovered
<1>1. FilesInv => DeletedAreCovered
  BY DEF FilesInv
<1> QED BY <1>1, FilesInvariance, PTL

-----------------------------------------------------------------------------
(* What a merge that failed has left can overlap what was merged after it.  Each *)
(* segment, left or not, holds what the segments with single ids held that it    *)
(* was merged from.                                                              *)

Base == [i \in 1..nextSegID |-> contents[<<i, i>>]]

ContentsStand ==
  /\ \A i \in 1..nextSegID : <<i, i>> \in DOMAIN contents
  /\ \A r \in DOMAIN contents :
       /\ 1 <= r[1] /\ r[1] <= r[2] /\ r[2] <= nextSegID
       /\ r[2] = nextSegID /\ state.memory # Null => r = state.memory
       /\ r \notin diskSegments \cup left => r[1] = r[2]
       /\ \A k \in Key : Holds(contents[r], Base, r, k)

LEMMA BaseType ==
  ASSUME CoreInv
  PROVE  /\ Len(Base) = nextSegID /\ nextSegID \in Nat
         /\ \A i \in 1..nextSegID : Base[i] = contents[<<i, i>>]
<1>1. nextSegID \in Nat
  BY DEF CoreInv, TypeOK, StateType
<1> DEFINE T == {contents[<<i, i>>] : i \in 1..nextSegID}
<1>2. Base \in Seq(T)
  <2>1. Base \in [1..nextSegID -> T]
    BY DEF Base
  <2> QED BY <1>1, <2>1, SeqDef
<1>3. Len(Base) = nextSegID
  BY <1>1, <1>2, LenProperties DEF Base
<1> QED BY <1>1, <1>3 DEF Base

LEMMA HoldsSame ==
  ASSUME NEW c, NEW s, NEW k, NEW b, NEW d, Holds(c, b, s, k),
         \A i \in s[1]..s[2] : d[i] = b[i]
  PROVE  Holds(c, d, s, k)
BY DEF Holds

LEMMA HoldsSingle ==
  ASSUME NEW i \in Nat, NEW b, NEW k
  PROVE  Holds(b[i], b, <<i, i>>, k)
<1>1. CASE b[i][k] = Absent
  BY <1>1 DEF Holds
<1>2. CASE b[i][k] # Absent
  <2>1. i \in i..i /\ \A j \in i..i : ~(i < j)
    OBVIOUS
  <2> QED BY <1>2, <2>1 DEF Holds
<1> QED BY <1>1, <1>2

\* A step that changes no contents.
LEMMA ContentsFrame ==
  ASSUME CoreInv, ContentsStand, UNCHANGED <<contents, nextSegID>>,
         diskSegments \cup left \subseteq diskSegments' \cup left',
         state'.memory = state.memory \/ state'.memory = Null
  PROVE  ContentsStand'
<1>1. Base' = Base
  BY DEF Base
<1> QED BY <1>1 DEF ContentsStand

\* A new memory segment has an id of its own.
LEMMA ContentsSwapped ==
  ASSUME CoreInv, ContentsStand, state.memory # Null, SwapMemory,
         UNCHANGED <<diskSegments, left>>
  PROVE  ContentsStand'
<1> DEFINE fresh == <<nextSegID + 1, nextSegID + 1>>
           n == nextSegID
<1>1. /\ n \in Nat /\ nextSegID' = n + 1 /\ state'.memory = fresh
      /\ contents' = With(contents, fresh, NoEntries)
  BY DEF SwapMemory, CoreInv, TypeOK, StateType
<1>2. \A r \in DOMAIN contents : r \in Ref /\ r[1] \in Nat /\ r[2] \in Nat /\ r[2] <= n
  BY DEF CoreInv, TypeOK, HeapType, Ref, ContentsStand
<1>3. fresh \notin DOMAIN contents
  BY <1>1, <1>2
<1>4. /\ DOMAIN contents' = DOMAIN contents \cup {fresh}
      /\ contents'[fresh] = NoEntries
      /\ \A r \in DOMAIN contents : contents'[r] = contents[r]
  BY <1>1, <1>3 DEF With
<1>5. \A i \in 1..n : Base'[i] = Base[i]
  <2> TAKE i \in 1..n
  <2>1. i \in 1..(n + 1) /\ <<i, i>> \in DOMAIN contents
    BY <1>1 DEF ContentsStand
  <2> QED BY <2>1, <1>1, <1>4 DEF Base
<1>6. Base'[n + 1] = NoEntries
  BY <1>1, <1>4 DEF Base
<1>7. \A i \in 1..(n + 1) : <<i, i>> \in DOMAIN contents'
  <2> TAKE i \in 1..(n + 1)
  <2>1. i \in 1..n \/ i = n + 1
    BY <1>1
  <2> QED BY <2>1, <1>4 DEF ContentsStand
<1>8. ASSUME NEW r \in DOMAIN contents'
      PROVE  /\ 1 <= r[1] /\ r[1] <= r[2] /\ r[2] <= n + 1
             /\ r[2] = n + 1 => r = fresh
             /\ r \notin diskSegments \cup left => r[1] = r[2]
             /\ \A k \in Key : Holds(contents'[r], Base', r, k)
  <2>1. CASE r = fresh
    <3>1. r[1] = n + 1 /\ r[2] = n + 1 /\ n + 1 \in Nat
      BY <1>1, <2>1
    <3>2. \A k \in Key : Holds(Base'[n + 1], Base', <<n + 1, n + 1>>, k)
      BY <3>1, HoldsSingle
    <3> QED BY <1>1, <1>4, <1>6, <2>1, <3>1, <3>2
  <2>2. CASE r \in DOMAIN contents
    <3>1. /\ 1 <= r[1] /\ r[1] <= r[2] /\ r[2] <= n
          /\ r \notin diskSegments \cup left => r[1] = r[2]
          /\ \A k \in Key : Holds(contents[r], Base, r, k)
      BY <2>2 DEF ContentsStand
    <3>2. \A i \in r[1]..r[2] : Base'[i] = Base[i]
      BY <1>1, <1>2, <1>5, <2>2, <3>1
    <3>3. \A k \in Key : Holds(contents[r], Base', r, k)
      BY <3>1, <3>2, HoldsSame
    <3>4. r[2] <= n + 1 /\ r[2] # n + 1
      BY <1>1, <1>2, <2>2, <3>1
    <3> QED BY <1>4, <2>2, <3>1, <3>3, <3>4
  <2> QED BY <2>1, <2>2, <1>4
<1> HIDE DEF fresh
<1> QED BY <1>1, <1>7, <1>8 DEF ContentsStand

\* An entry changes the memory segment, which is part of no other.
LEMMA ContentsWritten ==
  ASSUME CoreInv, ContentsStand, NEW w \in Writer, WriteApply(w)
  PROVE  ContentsStand'
<1> DEFINE n == nextSegID
<1>1. /\ state.memory # Null /\ state.memory = <<n, n>> /\ n \in Nat
      /\ UNCHANGED <<diskSegments, left, state, nextSegID>>
      /\ DOMAIN contents' = DOMAIN contents
      /\ \A r \in DOMAIN contents : r # state.memory => contents'[r] = contents[r]
  BY DEF WriteApply, CoreInv, WritersLocked, MemoryNewest, TypeOK, StateType
<1>2. \A r \in DOMAIN contents : r \in Ref /\ r[1] \in Nat /\ r[2] \in Nat
  BY DEF CoreInv, TypeOK, HeapType, Ref
<1>3. \A i \in 1..n : <<i, i>> \in DOMAIN contents /\ Base'[i] = contents'[<<i, i>>]
                      /\ Base[i] = contents[<<i, i>>]
  BY <1>1 DEF ContentsStand, Base
<1>4. \A i \in 1..n : i # n => Base'[i] = Base[i]
  <2> SUFFICES ASSUME NEW i \in 1..n, i # n PROVE <<i, i>> # state.memory
    BY <1>1, <1>3
  <2>1. <<i, i>>[1] = i /\ state.memory[1] = n
    BY <1>1
  <2> QED BY <2>1
<1>5. ASSUME NEW r \in DOMAIN contents
      PROVE  \A k \in Key : Holds(contents'[r], Base', r, k)
  <2>1. CASE r = state.memory
    <3>1. n \in 1..n
      BY <1>1, <2>1 DEF ContentsStand
    <3>2. contents'[r] = Base'[n] /\ r = <<n, n>>
      BY <1>1, <1>3, <2>1, <3>1
    <3>3. \A k \in Key : Holds(Base'[n], Base', <<n, n>>, k)
      BY <1>1, HoldsSingle
    <3> QED BY <3>2, <3>3
  <2>2. CASE r # state.memory
    <3>1. /\ 1 <= r[1] /\ r[2] <= n /\ r[2] # n
          /\ \A k \in Key : Holds(contents[r], Base, r, k)
      BY <1>1, <2>2 DEF ContentsStand
    <3>2. \A i \in r[1]..r[2] : Base'[i] = Base[i]
      BY <1>1, <1>2, <1>4, <3>1
    <3> QED BY <1>1, <2>2, <3>1, <3>2, HoldsSame
  <2> QED BY <2>1, <2>2
<1> QED BY <1>1, <1>5 DEF ContentsStand

\* The slice of a merge covers its target, and is the oldest of the list if the
\* merge purges.
LEMMA SliceCovers ==
  ASSUME CoreInv, ContentsStand, merge.pc = "write"
  PROVE  /\ merge.start = 1 => merge.slice[1][1] = 1
         /\ \A m \in TargetOf(merge.slice)[1]..TargetOf(merge.slice)[2] :
              \E i \in 1..Len(merge.slice) : merge.slice[i][1] <= m /\ m <= merge.slice[i][2]
<1> DEFINE n == Len(merge.slice)
           last == merge.start + n - 1
<1>1. /\ Chain \in Seq(Ref) /\ Ordered(Chain) /\ Len(Chain) \in Nat
      /\ n \in Nat /\ n >= 2 /\ merge.start \in Nat /\ merge.start >= 1
      /\ last <= Len(Chain)
      /\ \A i \in 1..n : merge.slice[i] = Chain[merge.start + i - 1]
  BY MergeIsSlice, MergeIsSliceOfChain DEF IsSlice
<1>2. \A i \in 1..Len(Chain) : /\ Chain[i] \in DOMAIN contents
                               /\ Chain[i][1] \in Nat /\ Chain[i][2] \in Nat
                               /\ 1 <= Chain[i][1] /\ Chain[i][2] <= nextSegID
  BY <1>1, OrderedPositions DEF CoreInv, ChainInHeap, ContentsStand
<1>3. ASSUME NEW m \in 1..nextSegID
      PROVE  \E j \in 1..Len(Chain) : Chain[j][1] <= m /\ m <= Chain[j][2]
  <2>1. <<m, m>> \in DOMAIN contents /\ <<m, m>>[1] = m /\ <<m, m>>[2] = m
    BY DEF ContentsStand
  <2>2. <<m, m>> \notin left
    BY <2>1 DEF CoreInv, LeftApart
  <2>3. \E j \in 1..Len(Chain) : Within(<<m, m>>, Chain[j])
    BY <2>1, <2>2 DEF CoreInv, HeapNested
  <2> QED BY <2>1, <2>3 DEF Within
<1>4. nextSegID \in Nat
  BY DEF CoreInv, TypeOK, StateType
<1>5. ASSUME merge.start = 1
      PROVE  merge.slice[1][1] = 1
  <2>1. merge.slice[1] = Chain[1] /\ 1 \in 1..Len(Chain)
    BY <1>1, <1>5
  <2>2. 1 \in 1..nextSegID
    <3>1. Chain[1][1] <= Chain[1][2]
      BY <1>1, <2>1 DEF Ordered
    <3> QED BY <1>2, <1>4, <2>1, <3>1
  <2>3. PICK j \in 1..Len(Chain) : Chain[j][1] <= 1
    BY <1>3, <2>2
  <2>4. Chain[1][1] <= Chain[j][1]
    BY <1>1, <2>1, OrderedPositions
  <2> QED BY <1>2, <2>1, <2>3, <2>4
<1>6. ASSUME NEW m \in TargetOf(merge.slice)[1]..TargetOf(merge.slice)[2]
      PROVE  \E i \in 1..n : merge.slice[i][1] <= m /\ m <= merge.slice[i][2]
  <2>1. /\ merge.start \in 1..Len(Chain) /\ last \in 1..Len(Chain)
        /\ TargetOf(merge.slice)[1] = Chain[merge.start][1]
        /\ TargetOf(merge.slice)[2] = Chain[last][2]
    <3>1. merge.slice[1] = Chain[merge.start] /\ merge.slice[n] = Chain[last]
      BY <1>1
    <3> QED BY <1>1, <3>1 DEF TargetOf
  <2>2. m \in 1..nextSegID
    BY <1>2, <1>4, <1>6, <2>1
  <2>3. PICK j \in 1..Len(Chain) : Chain[j][1] <= m /\ m <= Chain[j][2]
    BY <1>3, <2>2
  <2>4. merge.start <= j /\ j <= last
    <3>1. Chain[merge.start][1] <= Chain[j][2] /\ Chain[j][1] <= Chain[last][2]
      BY <1>2, <1>6, <2>1, <2>3
    <3> QED BY <1>1, <2>1, <3>1, OrderedPositions
  <2>5. j - merge.start + 1 \in 1..n
    <3>1. n \in Nat /\ merge.start \in Nat /\ j \in Nat
      BY <1>1, <2>3
    <3>2. merge.start <= j /\ j <= merge.start + n - 1
      BY <2>4
    <3> HIDE DEF n
    <3> QED BY ONLY <3>1, <3>2
  <2>6. merge.slice[j - merge.start + 1] = Chain[j]
    <3>1. merge.start + (j - merge.start + 1) - 1 = j
      BY <1>1
    <3> QED BY <1>1, <2>5, <3>1
  <2> QED BY <2>3, <2>5, <2>6
<1> QED BY <1>5, <1>6

\* The merged segment holds what those held that it was merged from.
LEMMA MergedHolds ==
  ASSUME CoreInv, ContentsStand, merge.pc = "write", NEW k \in Key
  PROVE  Holds(MergedSlice, Base, TargetOf(merge.slice), k)
<1> DEFINE spans == merge.slice
           layers == Layers(merge.slice)
           n == Len(spans)
           purge == PurgesDeleted(merge.start)
<1>1. spans \in Seq(Ref) /\ n \in Nat /\ n >= 2
  BY MergeIsSlice
<1>2. Len(layers) = n /\ \A i \in 1..n : layers[i] = contents[spans[i]]
  BY <1>1, LayersProperties
<1>3. \A i \in 1..n : spans[i] \in DOMAIN contents
  BY SliceInHeap
<1>4. \A i \in 1..n : spans[i][1] >= 1 /\ Holds(layers[i], Base, spans[i], k)
  <2> TAKE i \in 1..n
  <2>1. 1 <= spans[i][1] /\ Holds(contents[spans[i]], Base, spans[i], k)
    BY <1>3 DEF ContentsStand
  <2>2. spans[i] \in Ref
    BY <1>1
  <2>3. spans[i][1] \in Nat
    BY <2>2 DEF Ref
  <2> QED BY <1>2, <2>1, <2>3
<1>5. Ascending(spans)
  <2>1. /\ state.segments \in Seq(Ref) /\ Ordered(state.segments) /\ merge.start \in Nat
        /\ merge.start >= 1 /\ merge.start + n - 1 <= Len(state.segments)
        /\ \A i \in 1..n : spans[i] = state.segments[merge.start + i - 1]
    BY MergeIsSlice DEF IsSlice
  <2>2. \A i \in 1..n : merge.start + i - 1 \in 1..Len(state.segments)
    BY <1>1, <2>1
  <2>3. \A i \in 1..n : spans[i][1] <= spans[i][2] /\ spans[i][1] \in Nat /\ spans[i][2] \in Nat
    <3> TAKE i \in 1..n
    <3> DEFINE x == merge.start + i - 1
    <3>1. x \in 1..Len(state.segments) /\ spans[i] = state.segments[x]
      BY <2>1, <2>2
    <3> HIDE DEF x
    <3>2. state.segments[x][1] \in Nat /\ state.segments[x][2] \in Nat
      BY ONLY <2>1, <3>1, OrderedPositions
    <3>3. state.segments[x][1] <= state.segments[x][2]
      BY ONLY <2>1, <3>1 DEF Ordered
    <3> QED BY <3>1, <3>2, <3>3
  <2>4. ASSUME NEW i \in 1..n, NEW j \in 1..n, i < j
        PROVE  spans[i][2] < spans[j][1]
    <3> DEFINE x == merge.start + i - 1
               y == merge.start + j - 1
    <3>1. /\ x < y /\ x \in 1..Len(state.segments) /\ y \in 1..Len(state.segments)
          /\ spans[i] = state.segments[x] /\ spans[j] = state.segments[y]
      BY <1>1, <2>1, <2>2, <2>4
    <3> HIDE DEF x, y
    <3> QED BY <2>1, <3>1 DEF Ordered
  <2>5. ASSUME NEW i \in 1..n, NEW j \in 1..n, i < j
        PROVE  spans[i][1] < spans[j][1] /\ spans[i][2] < spans[j][2]
    <3>1. spans[i][2] < spans[j][1]
      BY <2>4, <2>5
    <3> QED BY <2>3, <3>1
  <2> QED BY <2>3, <2>5 DEF Ascending
<1>6. StandFor(layers, spans, Base, k)
  BY <1>1, <1>2, <1>4, <1>5 DEF StandFor
<1>7. purge => spans[1][1] = 1
  BY SliceCovers DEF PurgesDeleted
<1>8. TargetOf(merge.slice) = <<spans[1][1], spans[n][2]>>
  BY DEF TargetOf
<1>9. \A m \in spans[1][1]..spans[n][2] : \E i \in 1..n : spans[i][1] <= m /\ m <= spans[i][2]
  BY <1>8, SliceCovers
<1>10. MergedSlice = Merged(layers, purge)
  BY DEF MergedSlice
<1> HIDE DEF spans, layers, n, purge
<1>11. Holds(Merged(layers, purge), Base, <<spans[1][1], spans[n][2]>>, k)
  BY ONLY <1>1, <1>6, <1>7, <1>9, MergeHolds, k \in Key DEF n
<1> QED BY <1>8, <1>10, <1>11

\* A merged segment comes to the heap, to be put in place or to be left.
LEMMA ContentsMerged ==
  ASSUME CoreInv, ContentsStand, merge.pc = "write", ~InTheWay(TargetOf(merge.slice)),
         contents' = With(contents, TargetOf(merge.slice), MergedSlice),
         diskSegments \subseteq diskSegments', left \subseteq left',
         TargetOf(merge.slice) \in diskSegments' \cup left',
         UNCHANGED <<state, nextSegID>>
  PROVE  ContentsStand'
<1> DEFINE target == TargetOf(merge.slice)
<1>1. /\ target \in Ref /\ target \notin DOMAIN contents /\ target[1] < target[2]
      /\ target[2] <= nextSegID
  BY TargetIsFree DEF InTheWay
<1>2. target[1] \in Nat /\ target[2] \in Nat /\ nextSegID \in Nat
  BY <1>1 DEF Ref, CoreInv, TypeOK, StateType
<1>3. /\ DOMAIN contents' = DOMAIN contents \cup {target}
      /\ contents'[target] = MergedSlice
      /\ \A r \in DOMAIN contents : contents'[r] = contents[r]
  BY <1>1 DEF With
<1>4. Base' = Base
  <2>1. \A i \in 1..nextSegID : contents'[<<i, i>>] = contents[<<i, i>>]
    BY <1>3 DEF ContentsStand
  <2> QED BY <2>1 DEF Base
<1>5. 1 <= target[1]
  <2>1. merge.slice[1] \in DOMAIN contents
    BY SliceInHeap, MergeIsSlice
  <2> QED BY <2>1 DEF ContentsStand, TargetOf
<1>6. state.memory # Null => target[2] # nextSegID
  <2> DEFINE last == merge.start + Len(merge.slice) - 1
  <2>1. last \in 1..Len(state.segments) /\ target[2] = state.segments[last][2]
    BY MergeIsSlice, TargetProperties
  <2> QED BY <1>2, <2>1, SegmentsOlder
<1>7. \A k \in Key : Holds(MergedSlice, Base, target, k)
  BY MergedHolds
<1> HIDE DEF target
<1>8. ASSUME NEW r \in DOMAIN contents'
      PROVE  /\ 1 <= r[1] /\ r[1] <= r[2] /\ r[2] <= nextSegID
             /\ r[2] = nextSegID /\ state.memory # Null => r = state.memory
             /\ r \notin diskSegments' \cup left' => r[1] = r[2]
             /\ \A k \in Key : Holds(contents'[r], Base, r, k)
  <2>1. CASE r = target
    BY <2>1, <1>1, <1>2, <1>3, <1>5, <1>6, <1>7 DEF target
  <2>2. CASE r \in DOMAIN contents
    BY <2>2, <1>3 DEF ContentsStand
  <2> QED BY <2>1, <2>2, <1>3
<1>9. \A i \in 1..nextSegID : <<i, i>> \in DOMAIN contents'
  BY <1>3 DEF ContentsStand
<1> QED BY <1>4, <1>8, <1>9 DEF ContentsStand

LEMMA InitContents == Init => ContentsStand
<1> SUFFICES ASSUME Init PROVE ContentsStand
  OBVIOUS
<1> USE DatabaseAssumption
<1>0. CoreInv
  BY InitIInv
<1>1. PICK layers \in InitialLayers :
        LET n == Len(layers)
            segments == [i \in 1..n |-> <<i, i>>]
            memory == <<n + 1, n + 1>>
        IN  /\ contents = [r \in Members(segments) \cup {memory} |->
                             IF r = memory THEN NoEntries ELSE layers[r[1]]]
            /\ state = [segments |-> segments, memory |-> memory,
                        multi |-> Append(segments, memory)]
            /\ diskSegments = Members(segments)
            /\ nextSegID = n + 1
  BY DEF Init
<1> DEFINE n == Len(layers)
           segments == [i \in 1..n |-> <<i, i>>]
           memory == <<n + 1, n + 1>>
<1>2. n \in Nat /\ nextSegID = n + 1 /\ state.memory = memory
      /\ DOMAIN contents = Members(segments) \cup {memory}
      /\ diskSegments = Members(segments)
  BY <1>1
<1>3. Members(segments) = {<<i, i>> : i \in 1..n}
  <2>1. segments \in Seq({<<i, i>> : i \in 1..n})
    BY <1>2, SeqDef
  <2>2. Len(segments) = n
    BY <1>2, <2>1, LenProperties
  <2> QED BY <2>2 DEF Members
<1> HIDE DEF n, segments
<1>4. \A r \in DOMAIN contents : \E i \in 1..(n + 1) : r = <<i, i>>
  BY <1>2, <1>3
<1>5. \A i \in 1..(n + 1) : <<i, i>> \in DOMAIN contents
  <2> TAKE i \in 1..(n + 1)
  <2>1. i \in 1..n \/ i = n + 1
    BY <1>2
  <2> QED BY <1>2, <1>3, <2>1
<1>6. \A i \in 1..(n + 1) : Base[i] = contents[<<i, i>>]
  BY <1>2 DEF Base
<1>7. ASSUME NEW r \in DOMAIN contents
      PROVE  /\ 1 <= r[1] /\ r[1] <= r[2] /\ r[2] <= n + 1
             /\ r[2] = n + 1 => r = memory
             /\ r[1] = r[2]
             /\ \A k \in Key : Holds(contents[r], Base, r, k)
  <2>1. PICK i \in 1..(n + 1) : r = <<i, i>>
    BY <1>4
  <2>2. i \in Nat /\ r[1] = i /\ r[2] = i
    BY <1>2, <2>1
  <2>3. \A k \in Key : Holds(Base[i], Base, <<i, i>>, k)
    BY <2>2, HoldsSingle
  <2>4. contents[r] = Base[i] /\ i <= n + 1 /\ 1 <= i
    BY <1>2, <1>6, <2>1
  <2>5. \A k \in Key : Holds(contents[r], Base, r, k)
    BY <2>1, <2>3, <2>4
  <2> QED BY <2>1, <2>2, <2>4, <2>5
<1> HIDE DEF memory
<1> QED BY <1>2, <1>5, <1>7 DEF ContentsStand

LEMMA NextContents ==
  ASSUME CoreInv, ContentsStand, [Next]_vars
  PROVE  ContentsStand'
<1>1. CASE /\ UNCHANGED <<contents, nextSegID>>
           /\ diskSegments \cup left \subseteq diskSegments' \cup left'
           /\ state'.memory = state.memory \/ state'.memory = Null
  BY <1>1, ContentsFrame
<1>2. CASE \E why : Crash(why)
  <2>1. UNCHANGED <<contents, nextSegID, diskSegments, left, state>>
    BY <1>2 DEF Crash, heap
  <2> QED BY <2>1, <1>1
<1>3. ASSUME NEW w \in Writer, NEW b, BeginBatch(w, b), state.memory # Null
      PROVE  ContentsStand'
  <2>1. UNCHANGED <<diskSegments, left>>
    BY <1>3 DEF BeginBatch
  <2>2. SwapMemory \/ UNCHANGED <<contents, state, nextSegID>>
    BY <1>3 DEF BeginBatch, MaybeSwapMemory
  <2> QED BY <1>3, <2>1, <2>2, <1>1, ContentsSwapped
<1>4. CASE Write
  <2>1. ASSUME NEW w \in Writer, NEW b \in Batches, WriteBegin(w, b)
        PROVE  ContentsStand'
    BY <2>1, <1>2, <1>3 DEF WriteBegin
  <2>2. ASSUME NEW w \in Writer, NEW k \in Key, RemoveBegin(w, k)
        PROVE  ContentsStand'
    <3>1. CASE GetFault(state.multi, k) # "none"
      BY <1>2, <2>2, <3>1 DEF RemoveBegin
    <3>2. CASE GetFault(state.multi, k) = "none"
      <4>1. state.memory # Null
        BY <3>2, NullMemoryFaults
      <4> QED BY <1>3, <2>2, <3>2, <4>1 DEF RemoveBegin
    <3> QED BY <3>1, <3>2
  <2> QED BY <1>4, <2>1, <2>2, ContentsWritten DEF Write
<1>5. CASE Snapshotting
  <2>1. ASSUME NEW s \in Snap, SnapshotTake(s)
        PROVE  ContentsStand'
    BY <2>1, ContentsSwapped DEF SnapshotTake
  <2>2. ASSUME NEW s \in Snap, SnapshotRelease(s)
        PROVE  ContentsStand'
    BY <2>2, <1>1 DEF SnapshotRelease, heap
  <2> QED BY <1>5, <2>1, <2>2, <1>2 DEF Snapshotting, SnapshotTakeFaults
<1>6. CASE Read
  <2>1. UNCHANGED <<contents, nextSegID, diskSegments, left, state>>
    BY <1>6 DEF Read, ReadBegin, ReadLoad, ReadSearch, Crash, heap
  <2> QED BY <2>1, <1>1
<1>7. CASE AutoWake \/ AutoReturn \/ MergePick
  <2>1. UNCHANGED <<contents, nextSegID, diskSegments, left, state>>
    BY <1>7 DEF AutoWake, AutoReturn, MergePick, heap
  <2> QED BY <2>1, <1>1
<1>8. CASE MergeWrite
  <2>1. \/ UNCHANGED <<contents, nextSegID, diskSegments, left, state>>
        \/ /\ ~InTheWay(TargetOf(merge.slice))
           /\ contents' = With(contents, TargetOf(merge.slice), MergedSlice)
           /\ diskSegments \subseteq diskSegments' /\ left \subseteq left'
           /\ TargetOf(merge.slice) \in diskSegments' \cup left'
           /\ UNCHANGED <<state, nextSegID>>
    <3>1. CASE MergeMeetsFiles
      BY <3>1 DEF MergeMeetsFiles, MergeThrows
    <3>2. CASE MergeWriteFails
      BY <3>2 DEF MergeWriteFails, MergeThrows
    <3>3. CASE MergeWritten
      BY <3>3 DEF MergeWritten
    <3> QED BY <1>8, <3>1, <3>2, <3>3 DEF MergeWrite
  <2> QED BY <1>1, <1>8, <2>1, ContentsMerged DEF MergeWrite
<1>9. CASE MergeSwap
  <2>1. /\ UNCHANGED <<contents, nextSegID, diskSegments, left>>
        /\ state'.memory = state.memory
    BY <1>9 DEF MergeSwap, MergeThrows, heap
  <2> QED BY <2>1, <1>1
<1>10. CASE CloseLock
  <2>1. UNCHANGED <<contents, nextSegID, diskSegments, left>> /\ state'.memory = Null
    BY <1>10 DEF CloseLock, heap
  <2> QED BY <2>1, <1>1
<1>11. CASE \/ \E count \in CloseCounts : CloseBegin(count)
            \/ CloseEnqueue \/ CloseFinish
  <2>1. UNCHANGED <<contents, nextSegID, diskSegments, left, state>>
    BY <1>11 DEF CloseBegin, CloseEnqueue, CloseFinish, heap
  <2> QED BY <2>1, <1>1
<1>12. CASE \E r \in flushing : FlushSegment(r)
  <2>1. \/ \E why : Crash(why)
        \/ UNCHANGED <<contents, nextSegID, diskSegments, left, state>>
    BY <1>12 DEF FlushSegment
  <2> QED BY <2>1, <1>1, <1>2
<1>13. CASE UNCHANGED vars
  <2>1. UNCHANGED <<contents, nextSegID, diskSegments, left, state>>
    BY <1>13 DEF vars
  <2> QED BY <2>1, <1>1
<1> QED BY <1>4, <1>5, <1>6, <1>7, <1>8, <1>9, <1>10, <1>11, <1>12, <1>13
        DEF Next, Merging, Close

LEMMA ContentsInvariance == Spec => []ContentsStand
<1>1. Init => ContentsStand
  BY InitContents
<1>2. CoreInv /\ ContentsStand /\ [Next]_vars => ContentsStand'
  BY NextContents
<1> QED BY <1>1, <1>2, Invariance, PTL DEF Spec

\* A list of segments of the heap that ascends shows what the segments with single
\* ids show, if it leaves out none that has an entry.
LEMMA ListShows ==
  ASSUME CoreInv, ContentsStand, NEW list \in Seq(Ref), Ascending(list),
         \A q \in 1..Len(list) : list[q] \in DOMAIN contents,
         NEW k \in Key,
         \A m \in 1..nextSegID : contents[<<m, m>>][k] # Absent =>
           \E q \in 1..Len(list) : list[q][1] <= m /\ m <= list[q][2]
  PROVE  Live(Newest(Layers(list), k)) = Live(Newest(Base, k))
<1> DEFINE layers == Layers(list)
<1>1. Len(layers) = Len(list) /\ \A q \in 1..Len(list) : layers[q] = contents[list[q]]
  BY LayersProperties
<1>2. \A q \in 1..Len(list) : /\ list[q][1] >= 1 /\ list[q][2] <= nextSegID
                              /\ Holds(layers[q], Base, list[q], k)
  <2> TAKE q \in 1..Len(list)
  <2>1. /\ 1 <= list[q][1] /\ list[q][2] <= nextSegID
        /\ Holds(contents[list[q]], Base, list[q], k)
    BY DEF ContentsStand
  <2>2. list[q][1] \in Nat
    <3>1. list[q] \in Ref
      OBVIOUS
    <3> QED BY <3>1 DEF Ref
  <2> QED BY <1>1, <2>1, <2>2
<1> HIDE DEF layers
<1>3. StandFor(layers, list, Base, k)
  BY <1>1, <1>2 DEF StandFor
<1>4. Len(Base) \in Nat /\ Len(Base) = nextSegID
      /\ \A m \in 1..Len(Base) : Base[m] = contents[<<m, m>>]
  BY BaseType
<1>5. \A m \in 1..Len(Base) : Base[m][k] # Absent =>
        \E q \in 1..Len(list) : list[q][1] <= m /\ m <= list[q][2]
  BY <1>4
<1>6. Live(Newest(layers, k)) = Live(Newest(Base, k))
  BY ONLY <1>2, <1>3, <1>4, <1>5, CoverShows
<1> QED BY <1>6 DEF layers

\* The files that a close leaves, loaded as the next open loads them, hold what
\* the database held.
LEMMA ClosedFiles ==
  ASSUME CoreInv, FilesInv, ContentsStand, ~Open
  PROVE  View(Layers(LoadOrder(files))) = View(Layers(state.segments))
<1> DEFINE list == state.segments
           part == LoadOrder(files)
           n == nextSegID
<1>1. closer.pc = "closed" /\ deleted = {} /\ flushing = {} /\ merge.pc = "pick"
  <2>1. closer.pc = "closed"
    BY DEF Open
  <2>2. merge.pc = "pick"
    BY <2>1, NoMergeInTasks DEF CoreInv, MergeOwned
  <2> QED BY <2>1, <2>2 DEF FilesInv, DiskHasFiles, CoreInv, CloserOrder
<1>2. list \in Seq(Ref) /\ Ordered(list) /\ Chain = list
  <2>1. state.memory = Null
    BY <1>1 DEF CoreInv, MemoryNewest
  <2> QED BY <2>1, ChainType DEF CoreInv, TypeOK, SegmentsOrdered
<1>3. files \subseteq DOMAIN contents /\ DOMAIN contents \subseteq Ref /\ n \in Nat
  BY DEF CoreInv, TypeOK, HeapType, StateType
<1>4. IsFiniteSet(files)
  <2>1. IsFiniteSet(1..n)
    BY <1>3, FS_Interval
  <2>2. IsFiniteSet((1..n) \X (1..n))
    BY <2>1, FS_Product
  <2>3. files \subseteq (1..n) \X (1..n)
    <3> SUFFICES ASSUME NEW f \in files PROVE f \in (1..n) \X (1..n)
      OBVIOUS
    <3>1. f \in Ref /\ 1 <= f[1] /\ f[1] <= f[2] /\ f[2] <= n
      BY <1>3 DEF ContentsStand
    <3> QED BY <1>3, <3>1 DEF Ref
  <2> QED BY <2>2, <2>3, FS_Subset
<1>5. /\ part \in Seq(Ref) /\ Ascending(part)
      /\ \A q \in 1..Len(part) : part[q] \in files
      /\ \A f \in files : \E q \in 1..Len(part) : Within(f, part[q])
  <2>1. files \in SUBSET Ref /\ \A f \in files : f[1] <= f[2]
    BY <1>3 DEF ContentsStand
  <2> QED BY <1>4, <2>1, LoadOrderAscends
<1>6. Ascending(list) /\ \A p \in 1..Len(list) : list[p] \in DOMAIN contents
  <2>1. \A i, j \in 1..Len(list) :
          i < j => list[i][1] < list[j][1] /\ list[i][2] < list[j][2]
    <3> SUFFICES ASSUME NEW i \in 1..Len(list), NEW j \in 1..Len(list), i < j
                 PROVE  list[i][1] < list[j][1] /\ list[i][2] < list[j][2]
      OBVIOUS
    <3>1. /\ list[i][1] <= list[i][2] /\ list[i][2] < list[j][1] /\ list[j][1] <= list[j][2]
      BY <1>2 DEF Ordered
    <3>2. /\ list[i][1] \in Nat /\ list[i][2] \in Nat
          /\ list[j][1] \in Nat /\ list[j][2] \in Nat
      BY <1>2, OrderedPositions
    <3> QED BY <3>1, <3>2
  <2>2. Ascending(list)
    BY <1>2, <2>1 DEF Ascending, Ordered
  <2>3. \A p \in 1..Len(list) : list[p] \in DOMAIN contents
    BY <1>2 DEF CoreInv, ChainInHeap
  <2> QED BY <2>2, <2>3
<1>7. ASSUME NEW m \in 1..n
      PROVE  \E p \in 1..Len(list) : list[p][1] <= m /\ m <= list[p][2]
  <2>1. <<m, m>> \in DOMAIN contents /\ <<m, m>> \notin left
    BY DEF ContentsStand, CoreInv, LeftApart
  <2>2. \E p \in 1..Len(list) : Within(<<m, m>>, list[p])
    BY <1>1, <1>2, <2>1 DEF CoreInv, HeapNested
  <2> QED BY <2>2 DEF Within
<1>8. ASSUME NEW m \in 1..n, NEW k \in Key, contents[<<m, m>>][k] # Absent
      PROVE  \E q \in 1..Len(part) : part[q][1] <= m /\ m <= part[q][2]
  <2>1. PICK p \in 1..Len(list) : list[p][1] <= m /\ m <= list[p][2]
    BY <1>7
  <2>2. list[p] \in Members(list) /\ list[p] \in Ref /\ list[p] \in DOMAIN contents
    BY <1>2, <1>6, ElementOfSeq DEF Members
  <2>3. list[p] \in files
    <3> SUFFICES ASSUME list[p] \notin files PROVE FALSE
      OBVIOUS
    <3>1. list[p] \notin diskSegments /\ contents[list[p]] = NoEntries
      BY <1>1, <2>2 DEF FilesInv, SegmentsAreStored
    <3>2. list[p] \notin left
      BY <1>2, <2>2 DEF CoreInv, LeftApart
    <3>3. list[p][1] = list[p][2]
      BY <2>2, <3>1, <3>2 DEF ContentsStand
    <3>4. list[p] = <<m, m>>
      BY <2>1, <2>2, <3>3 DEF Ref
    <3> QED BY <1>8, <3>1, <3>4 DEF NoEntries
  <2>4. PICK q \in 1..Len(part) : Within(list[p], part[q])
    BY <1>5, <2>3
  <2>5. part[q] \in Ref
    BY <1>5, ElementOfSeq
  <2> QED BY <2>1, <2>2, <2>4, <2>5 DEF Within, Ref
<1>9. ASSUME NEW k \in Key
      PROVE  Live(Newest(Layers(part), k)) = Live(Newest(Layers(list), k))
  <2>1. Live(Newest(Layers(part), k)) = Live(Newest(Base, k))
    <3>1. \A q \in 1..Len(part) : part[q] \in DOMAIN contents
      BY <1>3, <1>5
    <3> QED BY <1>5, <1>8, <3>1, ListShows
  <2>2. Live(Newest(Layers(list), k)) = Live(Newest(Base, k))
    BY <1>2, <1>6, <1>7, ListShows
  <2> QED BY <2>1, <2>2
<1> HIDE DEF list, part
<1>10. View(Layers(part)) = View(Layers(list))
  BY <1>9 DEF View
<1> QED BY <1>10 DEF list, part

\* A close that returned has lost nothing and brought nothing back: the next open
\* finds the database as it was (closeWithMerge, loadDiskSegments).
THEOREM ClosedDataStays == Spec => []CloseKeepsData
<1>1. CoreInv /\ FilesInv /\ ContentsStand => CloseKeepsData
  BY ClosedFiles DEF CloseKeepsData
<1> QED BY <1>1, FilesInvariance, ContentsInvariance, PTL
-----------------------------------------------------------------------------
(* Batches in snapshots.                                                   *)

Writes(b, k) == \E i \in 1..Len(b) : b[i][1] = k

\* What k will be when b has been applied to the map m.
Ends(m, b, k, v) == Sets(b, k, v) \/ (~Writes(b, k) /\ m[k] = v)

Agree(j, k, b) == \E v \in Results : Ends(MapSeen, b, j, v) /\ Ends(MapSeen, b, k, v)

\* With b still to be applied: the two keys will be equal, or one was removed and
\* b leaves both alone, or one is about to be removed.
PairHolds(j, k, b) ==
  \/ Agree(j, k, b)
  \/ ~Writes(b, j) /\ ~Writes(b, k) /\ (HasRemoval(j) \/ HasRemoval(k))
  \/ b = KV!Removal(j) \/ b = KV!Removal(k)

\* A removal that nothing can overwrite any more.
FrozenRemoval(k) == \E r \in DOMAIN contents : r # state.memory /\ contents[r][k] = Empty

SnapHolds(j, k, s) ==
  snaps[s] # Null =>
    \/ View(Layers(snaps[s]))[j] = View(Layers(snaps[s]))[k]
    \/ FrozenRemoval(j) \/ FrozenRemoval(k)

WholeInv ==
  \A j, k \in Key : Paired(j, k) =>
    /\ KV!Quiet => PairHolds(j, k, <<>>)
    /\ \A w \in Writer : batch[w] # <<>> => PairHolds(j, k, batch[w])
    /\ \A s \in Snap : SnapHolds(j, k, s)

\* A batch that writes a key sets it to one value in the end.
LEMMA WritesSets ==
  ASSUME NEW b \in Seq(Key \X Results), NEW k \in Key, Writes(b, k)
  PROVE  \E v \in Results : Sets(b, k, v)
<1> DEFINE I == {i \in 1..Len(b) : b[i][1] = k}
<1>1. Len(b) \in Nat /\ \A i \in 1..Len(b) : b[i] \in Key \X Results
  OBVIOUS
<1>2. I \in SUBSET (1..Len(b)) /\ I # {}
  BY DEF Writes
<1> DEFINE n == MaxOf(I)
<1>3. n \in I /\ \A j \in I : j <= n
  <2> HIDE DEF I
  <2> QED BY <1>1, <1>2, MaxOfProperties
<1>4. n \in 1..Len(b) /\ b[n] = <<k, b[n][2]>> /\ b[n][2] \in Results
  <2> HIDE DEF n
  <2>1. n \in 1..Len(b) /\ b[n][1] = k
    BY <1>3
  <2>2. b[n] \in Key \X Results
    BY <2>1, <1>1
  <2> QED BY <2>1, <2>2
<1>5. \A j \in (n + 1)..Len(b) : b[j][1] # k
  <2> SUFFICES ASSUME NEW j \in (n + 1)..Len(b), b[j][1] = k PROVE FALSE
    OBVIOUS
  <2>1. j \in I /\ n < j
    BY <1>1, <1>4
  <2> QED BY <2>1, <1>1, <1>3, <1>4
<1> HIDE DEF n
<1> QED BY <1>4, <1>5 DEF Sets

\* Applying the first entry does not change what the batch will leave.
LEMMA EndsAfterEntry ==
  ASSUME NEW b \in Seq(Key \X Results), b # <<>>, NEW m \in [Key -> Results],
         NEW k \in Key, NEW v, Ends(m, b, k, v)
  PROVE  Ends([m EXCEPT ![Head(b)[1]] = Head(b)[2]], Tail(b), k, v)
<1> DEFINE n == [m EXCEPT ![Head(b)[1]] = Head(b)[2]]
           t == Tail(b)
<1>1. /\ Len(b) \in Nat /\ Len(b) >= 1 /\ Len(t) = Len(b) - 1 /\ Head(b) = b[1]
      /\ \A i \in 1..Len(t) : t[i] = b[i + 1] /\ i + 1 \in 1..Len(b)
      /\ b[1] \in Key \X Results
  <2>1. Len(b) \in Nat /\ Len(b) # 0 /\ Head(b) = b[1]
    BY EmptySeq, HeadTailProperties
  <2>2. Len(t) = Len(b) - 1 /\ \A i \in 1..Len(t) : t[i] = b[i + 1]
    BY HeadTailProperties
  <2>3. b[1] \in Key \X Results
    BY <2>1, HeadTailProperties
  <2> QED BY <2>1, <2>2, <2>3
<1> HIDE DEF t
<1>2. ASSUME \A i \in 2..Len(b) : b[i][1] # k PROVE ~Writes(t, k)
  <2>1. \A i \in 1..Len(t) : i + 1 \in 2..Len(b)
    BY <1>1
  <2> QED BY <2>1, <1>1, <1>2 DEF Writes
<1>3. CASE Sets(b, k, v)
  <2>1. PICK i \in 1..Len(b) : b[i] = <<k, v>> /\ \A j \in (i + 1)..Len(b) : b[j][1] # k
    BY <1>3 DEF Sets
  <2>2. CASE i = 1
    <3>1. n[k] = v
      BY <1>1, <2>1, <2>2
    <3>2. ~Writes(t, k)
      BY <1>2, <2>1, <2>2
    <3> QED BY <3>1, <3>2 DEF Ends, t
  <2>3. CASE i # 1
    <3>1. i - 1 \in 1..Len(t) /\ t[i - 1] = <<k, v>>
      <4>1. i - 1 \in 1..Len(t) /\ (i - 1) + 1 = i
        BY <1>1, <2>3
      <4>2. t[i - 1] = b[(i - 1) + 1]
        BY <4>1, <1>1
      <4> QED BY <4>1, <4>2, <2>1
    <3>2. \A j \in ((i - 1) + 1)..Len(t) : t[j][1] # k
      <4> TAKE j \in ((i - 1) + 1)..Len(t)
      <4>1. j \in 1..Len(t) /\ j + 1 \in (i + 1)..Len(b)
        BY <1>1, <2>3
      <4> QED BY <4>1, <1>1, <2>1
    <3>3. Sets(t, k, v)
      BY <3>1, <3>2 DEF Sets
    <3> QED BY <3>3 DEF Ends, t
  <2> QED BY <2>2, <2>3
<1>4. CASE ~Writes(b, k) /\ m[k] = v
  <2>1. \A i \in 1..Len(b) : b[i][1] # k
    BY <1>4 DEF Writes
  <2>2. ~Writes(t, k)
    BY <1>2, <2>1
  <2>3. n[k] = v
    BY <1>1, <1>4, <2>1
  <2> QED BY <2>2, <2>3 DEF Ends, t
<1> QED BY <1>3, <1>4 DEF Ends

\* A key that b does not write, its rest does not write either.
LEMMA WritesLess ==
  ASSUME NEW b \in Seq(Key \X Results), b # <<>>, NEW k \in Key, ~Writes(b, k)
  PROVE  ~Writes(Tail(b), k) /\ Head(b)[1] # k
<1>1. /\ Len(b) \in Nat /\ Len(b) # 0 /\ Head(b) = b[1] /\ Len(Tail(b)) = Len(b) - 1
      /\ \A i \in 1..Len(Tail(b)) : Tail(b)[i] = b[i + 1]
  BY EmptySeq, HeadTailProperties
<1>2. \A i \in 1..Len(Tail(b)) : i + 1 \in 1..Len(b)
  BY <1>1
<1>3. 1 \in 1..Len(b)
  BY <1>1
<1> QED BY <1>1, <1>2, <1>3 DEF Writes

-----------------------------------------------------------------------------
\* A step makes at most one request, and only between requests.
LEMMA RequestsMade ==
  ASSUME CoreInv, [Next]_vars, ~\E w \in Writer : WriteApply(w)
  PROVE  \/ batch' = batch
         \/ \E w \in Writer : \E b :
              /\ KV!Quiet /\ batch' = [batch EXCEPT ![w] = b]
              /\ b \in Batches \/ (\E k \in Key : b = KV!Removal(k))
<1>1. CASE Write
  <2>1. ASSUME NEW w \in Writer, NEW b \in Batches, WriteBegin(w, b)
        PROVE  batch' = batch \/ (KV!Quiet /\ batch' = [batch EXCEPT ![w] = b])
    BY <2>1, QuietWhenFree DEF WriteBegin, BeginBatch, Crash, callers, LockFree
  <2>2. ASSUME NEW w \in Writer, NEW k \in Key, RemoveBegin(w, k)
        PROVE  batch' = batch \/ (KV!Quiet /\ batch' = [batch EXCEPT ![w] = KV!Removal(k)])
    BY <2>2, QuietWhenFree DEF RemoveBegin, BeginBatch, Crash, callers, LockFree, KV!Removal
  <2> QED BY <1>1, <2>1, <2>2 DEF Write
<1>2. CASE Snapshotting
  BY <1>2 DEF Snapshotting, SnapshotTake, SnapshotRelease, SnapshotTakeFaults, Crash, callers
<1>3. CASE Read
  BY <1>3 DEF Read, ReadBegin, ReadLoad, ReadSearch, Crash, callers
<1>4. CASE Merging
  BY <1>4 DEF Merging, AutoWake, AutoReturn, MergePick, MergeWrite, MergeMeetsFiles, MergeWriteFails,
               MergeWritten, MergeSwap, MergeThrows, callers
<1>5. CASE Close
  BY <1>5 DEF Close, CloseBegin, CloseLock, CloseEnqueue, FlushSegment, CloseFinish, Crash, callers
<1>6. CASE UNCHANGED vars
  BY <1>6 DEF vars
<1> QED BY <1>1, <1>2, <1>3, <1>4, <1>5, <1>6 DEF Next

LEMMA SnapshotsMade ==
  ASSUME [Next]_vars
  PROVE  \/ snaps' = snaps
         \/ \E s \in Snap : SnapshotTake(s) \/ SnapshotRelease(s)
<1>1. CASE Write
  BY <1>1 DEF Write, WriteBegin, RemoveBegin, WriteApply, BeginBatch, Crash, callers
<1>2. CASE Snapshotting
  BY <1>2 DEF Snapshotting, SnapshotTakeFaults, Crash, callers
<1>3. CASE Read
  BY <1>3 DEF Read, ReadBegin, ReadLoad, ReadSearch, Crash, callers
<1>4. CASE Merging
  BY <1>4 DEF Merging, AutoWake, AutoReturn, MergePick, MergeWrite, MergeMeetsFiles, MergeWriteFails,
               MergeWritten, MergeSwap, MergeThrows, callers
<1>5. CASE Close
  BY <1>5 DEF Close, CloseBegin, CloseLock, CloseEnqueue, FlushSegment, CloseFinish, Crash, callers
<1>6. CASE UNCHANGED vars
  BY <1>6 DEF vars
<1> QED BY <1>1, <1>2, <1>3, <1>4, <1>5, <1>6 DEF Next

\* Only the memory segment is written to, and one entry at a time.
LEMMA EntryApplied ==
  ASSUME CoreInv, NEW w \in Writer, WriteApply(w)
  PROVE  /\ batch[w] \in Seq(Key \X Results) /\ batch[w] # <<>>
         /\ batch' = [batch EXCEPT ![w] = Tail(batch[w])] /\ state' = state /\ snaps' = snaps
         /\ Head(batch[w]) \in Key \X Results
         /\ state.memory \in DOMAIN contents /\ DOMAIN contents' = DOMAIN contents
         /\ \A r \in DOMAIN contents : \A k \in Key :
              contents'[r][k] = IF r = state.memory /\ k = Head(batch[w])[1]
                                THEN Head(batch[w])[2] ELSE contents[r][k]
<1>1. /\ batch[w] # <<>> /\ state' = state /\ snaps' = snaps
      /\ batch' = [batch EXCEPT ![w] = Tail(batch[w])]
      /\ contents' = [contents EXCEPT ![state.memory] =
                        Put(contents[state.memory], Head(batch[w])[1], Head(batch[w])[2])]
  BY DEF WriteApply
<1>2. batch[w] \in Seq(Key \X Results)
  BY DEF CoreInv, TypeOK, CallersType
<1>3. Head(batch[w]) \in Key \X Results
  BY <1>1, <1>2, HeadTailProperties
<1>4. state.memory \in DOMAIN contents
  <2>1. state.memory # Null
    BY <1>1 DEF CoreInv, WritersLocked
  <2>2. Len(Chain) \in 1..Len(Chain) /\ Chain[Len(Chain)] = state.memory
    BY <2>1, MemoryIsLast
  <2> QED BY <2>2 DEF CoreInv, ChainInHeap
<1>5. \A r \in DOMAIN contents : contents[r] \in Content
  BY DEF CoreInv, TypeOK, HeapType
<1>6. ASSUME NEW r \in DOMAIN contents, NEW k \in Key
      PROVE  contents'[r][k] = IF r = state.memory /\ k = Head(batch[w])[1]
                               THEN Head(batch[w])[2] ELSE contents[r][k]
  <2>1. contents[r] \in [Key -> Entry]
    BY <1>5 DEF Content
  <2>2. CASE r = state.memory
    <3>1. contents'[r] = Put(contents[r], Head(batch[w])[1], Head(batch[w])[2])
      BY <1>1, <2>2
    <3> QED BY <2>1, <2>2, <3>1 DEF Put
  <2>3. CASE r # state.memory
    BY <1>1, <2>3
  <2> QED BY <2>2, <2>3
<1> QED BY <1>1, <1>2, <1>3, <1>4, <1>6

\* A removal in a segment that is not written to stays.
LEMMA FrozenRemovalStays ==
  ASSUME CoreInv, [Next]_vars, NEW k \in Key, FrozenRemoval(k)
  PROVE  FrozenRemoval(k)'
<1>1. PICK r \in DOMAIN contents : r # state.memory /\ contents[r][k] = Empty
  BY DEF FrozenRemoval
<1>2. r # Null
  BY <1>1, DatabaseAssumption DEF CoreInv, TypeOK, HeapType
<1>3. CASE \E w \in Writer : WriteApply(w)
  <2>1. PICK w \in Writer : WriteApply(w)
    BY <1>3
  <2>2. r \in DOMAIN contents' /\ contents'[r][k] = Empty /\ state' = state
    BY <1>1, <2>1, EntryApplied
  <2> QED BY <1>1, <2>2 DEF FrozenRemoval
<1>4. CASE ~\E w \in Writer : WriteApply(w)
  <2>1. r \in DOMAIN contents' /\ contents'[r] = contents[r] /\ r # state'.memory
    BY <1>1, <1>2, <1>4, HeapKept
  <2> QED BY <1>1, <2>1 DEF FrozenRemoval
<1> QED BY <1>3, <1>4

\* A step that writes no entry of a batch keeps every removal.
LEMMA RemovalStays ==
  ASSUME CoreInv, [Next]_vars, ~\E w \in Writer : WriteApply(w), NEW k \in Key, HasRemoval(k)
  PROVE  HasRemoval(k)'
<1>1. PICK r \in DOMAIN contents : contents[r][k] = Empty
  BY DEF HasRemoval
<1>2. r \in DOMAIN contents' /\ contents'[r] = contents[r]
  BY HeapKept
<1> QED BY <1>1, <1>2 DEF HasRemoval

-----------------------------------------------------------------------------
\* A request begins: if the pair was equal it will be, and a removal leaves a mark.
LEMMA PairAtRequest ==
  ASSUME CoreInv, NEW j \in Key, NEW k \in Key, Paired(j, k), NEW b,
         b \in Batches \/ (\E x \in Key : b = KV!Removal(x)),
         PairHolds(j, k, <<>>)
  PROVE  PairHolds(j, k, b)
<1>1. \A x \in Key : ~Writes(<<>>, x) /\ \A v : ~Sets(<<>>, x, v)
  BY DEF Writes, Sets
<1>2. Agree(j, k, <<>>) \/ HasRemoval(j) \/ HasRemoval(k)
  BY DEF PairHolds, KV!Removal
<1>3. CASE ~Writes(b, j) /\ ~Writes(b, k)
  <2>1. CASE Agree(j, k, <<>>)
    <3>1. PICK v \in Results : Ends(MapSeen, <<>>, j, v) /\ Ends(MapSeen, <<>>, k, v)
      BY <2>1 DEF Agree
    <3>2. MapSeen[j] = v /\ MapSeen[k] = v
      BY <3>1, <1>1 DEF Ends
    <3> QED BY <3>2, <1>3 DEF PairHolds, Agree, Ends
  <2>2. CASE HasRemoval(j) \/ HasRemoval(k)
    BY <2>2, <1>3 DEF PairHolds
  <2> QED BY <1>2, <2>1, <2>2
<1>4. CASE b \in Batches /\ (Writes(b, j) \/ Writes(b, k))
  <2>1. b \in Seq(Key \X Results)
    BY <1>4, DatabaseAssumption DEF IsBatch, Results
  <2>2. \E v \in Results : Sets(b, j, v) \/ Sets(b, k, v)
    BY <1>4, <2>1, WritesSets
  <2>3. \E v \in Results : Sets(b, j, v) /\ Sets(b, k, v)
    BY <1>4, <2>2 DEF Paired
  <2> QED BY <2>3 DEF PairHolds, Agree, Ends
<1>5. CASE (\E x \in Key : b = KV!Removal(x)) /\ (Writes(b, j) \/ Writes(b, k))
  <2>1. PICK x \in Key : b = KV!Removal(x)
    BY <1>5
  <2>2. Len(b) = 1 /\ b[1] = <<x, Empty>>
    BY <2>1 DEF KV!Removal
  <2>3. \A y \in Key : Writes(b, y) => y = x
    BY <2>2 DEF Writes
  <2>4. j = x \/ k = x
    BY <1>5, <2>3
  <2> QED BY <2>1, <2>4 DEF PairHolds
<1> QED BY <1>3, <1>4, <1>5

\* An entry is applied.
LEMMA PairAtEntry ==
  ASSUME CoreInv, NEW w \in Writer, WriteApply(w), NEW j \in Key, NEW k \in Key,
         NEW t, t = Tail(batch[w]), PairHolds(j, k, batch[w])
  PROVE  PairHolds(j, k, t)'
<1> DEFINE b == batch[w]
<1>1. /\ b \in Seq(Key \X Results) /\ b # <<>> /\ Head(b) \in Key \X Results
      /\ state.memory \in DOMAIN contents /\ DOMAIN contents' = DOMAIN contents
      /\ \A r \in DOMAIN contents : \A x \in Key :
           contents'[r][x] = IF r = state.memory /\ x = Head(b)[1]
                             THEN Head(b)[2] ELSE contents[r][x]
  BY EntryApplied
<1>2. MapSeen' = [MapSeen EXCEPT ![Head(b)[1]] = Head(b)[2]]
  BY WriteApplyMaps DEF KV!Apply, MapSeen
<1>3. MapSeen \in [Key -> Results]
  BY ViewType DEF MapSeen, Results
<1>4. CASE Agree(j, k, b)
  <2>1. PICK v \in Results : Ends(MapSeen, b, j, v) /\ Ends(MapSeen, b, k, v)
    BY <1>4 DEF Agree
  <2> HIDE DEF b
  <2>2. Ends(MapSeen', t, j, v) /\ Ends(MapSeen', t, k, v)
    BY <1>1, <1>2, <1>3, <2>1, EndsAfterEntry DEF b
  <2>3. Agree(j, k, t)'
    BY <2>2 DEF Agree, Ends, Sets, Writes, Results
  <2> QED BY <2>3 DEF PairHolds
<1>5. CASE ~Writes(b, j) /\ ~Writes(b, k) /\ (HasRemoval(j) \/ HasRemoval(k))
  <2>1. ~Writes(t, j) /\ ~Writes(t, k) /\ Head(b)[1] # j /\ Head(b)[1] # k
    BY <1>1, <1>5, WritesLess
  <2>2. \A x \in {j, k} : HasRemoval(x) => HasRemoval(x)'
    BY <1>1, <2>1 DEF HasRemoval
  <2>3. HasRemoval(j)' \/ HasRemoval(k)'
    BY <1>5, <2>2
  <2>4. ~Writes(t, j)' /\ ~Writes(t, k)'
    BY <2>1 DEF Writes
  <2> QED BY <2>3, <2>4 DEF PairHolds
<1>6. CASE b = KV!Removal(j) \/ b = KV!Removal(k)
  <2>1. PICK x \in {j, k} : b = KV!Removal(x)
    BY <1>6
  <2>2. t = <<>> /\ Head(b)[1] = x /\ Head(b)[2] = Empty
    BY <2>1 DEF KV!Removal
  <2>3. contents'[state.memory][x] = Empty
    BY <1>1, <2>2
  <2>4. HasRemoval(x)'
    BY <1>1, <2>3 DEF HasRemoval
  <2>5. ~Writes(t, j) /\ ~Writes(t, k)
    <3>1. ~Writes(<<>>, j) /\ ~Writes(<<>>, k)
      BY DEF Writes
    <3> QED BY <2>2, <3>1
  <2>6. ~Writes(t, j)' /\ ~Writes(t, k)'
    BY <2>5 DEF Writes
  <2> QED BY <2>4, <2>6 DEF PairHolds
<1> QED BY <1>4, <1>5, <1>6 DEF PairHolds

\* What a snapshot holds of the pair.
LEMMA SnapStep ==
  ASSUME CoreInv, [Next]_vars, NEW j \in Key, NEW k \in Key,
         KV!Quiet => PairHolds(j, k, <<>>), NEW s \in Snap, SnapHolds(j, k, s)
  PROVE  SnapHolds(j, k, s)'
<1>1. snaps \in [Snap -> Chains \cup {Null}]
  BY DEF CoreInv, TypeOK, CallersType
<1>2. ASSUME snaps'[s] = snaps[s], FrozenKept PROVE SnapHolds(j, k, s)'
  <2>1. CASE snaps[s] = Null
    BY <1>2, <2>1 DEF SnapHolds
  <2>2. CASE snaps[s] # Null
    <3>1. Layers(snaps[s])' = Stack(contents', snaps[s]) /\ Layers(snaps[s]) = Stack(contents, snaps[s])
      BY <1>2 DEF Layers, Stack
    <3>2. View(Layers(snaps[s])') = View(Layers(snaps[s]))
      BY <1>2, <2>2, <3>1, SnapshotKept
    <3>3. View(Layers(snaps[s]))' = View(Layers(snaps[s]))
      BY <3>2
    <3>4. \A x \in {j, k} : FrozenRemoval(x) => FrozenRemoval(x)'
      BY FrozenRemovalStays
    <3> QED BY <2>2, <3>3, <3>4 DEF SnapHolds
  <2> QED BY <2>1, <2>2
<1>3. FrozenKept
  <2>1. CASE \E w \in Writer : WriteApply(w)
    BY <2>1 DEF WriteApply, FrozenKept
  <2>2. CASE ~\E w \in Writer : WriteApply(w)
    BY <2>2, HeapKept DEF FrozenKept
  <2> QED BY <2>1, <2>2
<1>4. ASSUME SnapshotTake(s) PROVE SnapHolds(j, k, s)'
  <2>1. KV!TakeSnapshot(s)
    BY <1>4, SnapshotTakeMaps
  <2>2. KV!Quiet /\ SnapshotsSeen' = [SnapshotsSeen EXCEPT ![s] = MapSeen]
    BY <2>1 DEF KV!TakeSnapshot, MapSeen, SnapshotsSeen
  <2>3. SnapshotsSeen'[s] = MapSeen
    BY <2>2 DEF SnapshotsSeen
  <2>4. CASE snaps'[s] = Null
    BY <2>4 DEF SnapHolds
  <2>5. CASE snaps'[s] # Null
    <3>1. View(Layers(snaps[s]))' = MapSeen
      BY <2>3, <2>5 DEF SnapshotsSeen
    <3>2. CASE Agree(j, k, <<>>)
      BY <3>1, <3>2 DEF SnapHolds, Agree, Ends, Sets
    <3>3. CASE HasRemoval(j) \/ HasRemoval(k)
      <4>1. PICK x \in {j, k} : HasRemoval(x)
        BY <3>3
      <4>2. PICK r \in DOMAIN contents : contents[r][x] = Empty
        BY <4>1 DEF HasRemoval
      <4>3. /\ r \in DOMAIN contents' /\ contents'[r] = contents[r] /\ r # state'.memory
        BY <1>4, SwapKeepsMap DEF SnapshotTake
      <4>4. FrozenRemoval(x)'
        BY <4>2, <4>3 DEF FrozenRemoval
      <4> QED BY <4>4 DEF SnapHolds
    <3>4. <<>> # KV!Removal(j) /\ <<>> # KV!Removal(k)
      BY DEF KV!Removal
    <3> QED BY <2>2, <3>2, <3>3, <3>4 DEF PairHolds
  <2> QED BY <2>4, <2>5
<1>5. ASSUME SnapshotRelease(s) PROVE SnapHolds(j, k, s)'
  BY <1>1, <1>5 DEF SnapshotRelease, SnapHolds
<1>6. ASSUME NEW x \in Snap, x # s, SnapshotTake(x) \/ SnapshotRelease(x)
      PROVE  snaps'[s] = snaps[s]
  BY <1>1, <1>6 DEF SnapshotTake, SnapshotRelease
<1> QED BY <1>2, <1>3, <1>4, <1>5, <1>6, SnapshotsMade

LEMMA NextWhole ==
  ASSUME CoreInv, [Next]_vars, WholeInv
  PROVE  WholeInv'
<1> SUFFICES ASSUME NEW j \in Key, NEW k \in Key, Paired(j, k)
             PROVE  /\ KV!Quiet' => PairHolds(j, k, <<>>)'
                    /\ \A w \in Writer : batch'[w] # <<>> => PairHolds(j, k, batch[w])'
                    /\ \A s \in Snap : SnapHolds(j, k, s)'
  BY DEF WholeInv, Paired, Sets
<1>1. /\ KV!Quiet => PairHolds(j, k, <<>>)
      /\ \A w \in Writer : batch[w] # <<>> => PairHolds(j, k, batch[w])
      /\ \A s \in Snap : SnapHolds(j, k, s)
  BY DEF WholeInv
<1>2. \A s \in Snap : SnapHolds(j, k, s)'
  BY <1>1, SnapStep
<1>3. batch \in [Writer -> Seq(Key \X Results)]
  BY DEF CoreInv, TypeOK, CallersType
<1>4. CASE \E w \in Writer : WriteApply(w)
  <2>1. PICK w \in Writer : WriteApply(w)
    BY <1>4
  <2> DEFINE t == Tail(batch[w])
  <2>2. batch[w] # <<>> /\ batch' = [batch EXCEPT ![w] = t]
    BY <2>1, EntryApplied
  <2>3. \A b : b = t => PairHolds(j, k, b)'
    BY <1>1, <2>1, <2>2, PairAtEntry
  <2>4. \A u \in Writer : u # w => batch[u] = <<>>
    BY <2>2 DEF CoreInv, WritersLocked
  <2>5. batch'[w] = t /\ \A u \in Writer : u # w => batch'[u] = <<>>
    BY <1>3, <2>2, <2>4
  <2> HIDE DEF t
  <2>6. KV!Quiet' => <<>> = t
    BY <2>5 DEF KV!Quiet
  <2>7. \A b : b = t => PairHolds(j, k, b)'
    BY <2>3
  <2> QED BY <1>2, <2>5, <2>6, <2>7 DEF PairHolds
<1>5. CASE ~\E w \in Writer : WriteApply(w)
  <2>1. MapSeen' = MapSeen /\ \A x \in Key : HasRemoval(x) => HasRemoval(x)'
    BY <1>5, HeapKept, RemovalStays
  <2>2. ASSUME NEW b, PairHolds(j, k, b) PROVE PairHolds(j, k, b)'
    BY <2>1, <2>2 DEF PairHolds, Agree, Ends, Sets, Writes, KV!Removal, Results
  <2>3. CASE batch' = batch
    BY <1>1, <1>2, <2>2, <2>3 DEF KV!Quiet
  <2>4. CASE \E w \in Writer : \E b :
               /\ KV!Quiet /\ batch' = [batch EXCEPT ![w] = b]
               /\ b \in Batches \/ (\E x \in Key : b = KV!Removal(x))
    <3>0. PICK w \in Writer : \E b : /\ KV!Quiet /\ batch' = [batch EXCEPT ![w] = b]
                                     /\ b \in Batches \/ (\E x \in Key : b = KV!Removal(x))
      BY <2>4
    <3>1. PICK b : /\ KV!Quiet /\ batch' = [batch EXCEPT ![w] = b]
                   /\ b \in Batches \/ (\E x \in Key : b = KV!Removal(x))
      BY <3>0
    <3>2. PairHolds(j, k, b)'
      BY <1>1, <2>2, <3>1, PairAtRequest
    <3>3. b # <<>>
      BY <3>1, DatabaseAssumption DEF IsBatch, KV!Removal
    <3>4. batch'[w] = b /\ \A u \in Writer : u # w => batch'[u] = <<>>
      BY <1>3, <3>1 DEF KV!Quiet
    <3>5. ~KV!Quiet'
      BY <3>3, <3>4 DEF KV!Quiet
    <3> QED BY <1>2, <3>2, <3>4, <3>5 DEF PairHolds
  <2> QED BY <1>5, <2>3, <2>4, RequestsMade
<1> QED BY <1>4, <1>5

LEMMA InitWhole == Init => WholeInv
<1> SUFFICES ASSUME Init, NEW j \in Key, NEW k \in Key, Paired(j, k)
             PROVE  /\ PairHolds(j, k, <<>>)
                    /\ \A w \in Writer : batch[w] = <<>>
                    /\ \A s \in Snap : SnapHolds(j, k, s)
  BY DEF WholeInv
<1> USE DatabaseAssumption
<1>1. PICK layers \in InitialLayers :
        /\ contents = [r \in Members([i \in 1..Len(layers) |-> <<i, i>>])
                               \cup {<<Len(layers) + 1, Len(layers) + 1>>} |->
                         IF r = <<Len(layers) + 1, Len(layers) + 1>>
                         THEN NoEntries ELSE layers[r[1]]]
        /\ state = [segments |-> [i \in 1..Len(layers) |-> <<i, i>>],
                    memory |-> <<Len(layers) + 1, Len(layers) + 1>>,
                    multi |-> Append([i \in 1..Len(layers) |-> <<i, i>>],
                                     <<Len(layers) + 1, Len(layers) + 1>>)]
  BY DEF Init
<1> DEFINE n == Len(layers)
           segments == [i \in 1..n |-> <<i, i>>]
           memory == <<n + 1, n + 1>>
           ls == Stack(contents, Chain)
<1>2. layers \in Seq(Content) /\ n \in Nat
  BY <1>1
<1>3. segments \in Seq(Ref) /\ Len(segments) = n
  <2>1. segments \in [1..n -> Ref]
    BY <1>2 DEF Ref
  <2> QED BY <1>2, <2>1, SeqDef, LenProperties
<1>4. memory \in Ref /\ memory # Null
  BY <1>2 DEF Ref
<1>5. Chain = Append(segments, memory)
  BY <1>1, <1>4 DEF Chain
<1>6. /\ Chain \in Seq(Ref) /\ Len(Chain) = n + 1 /\ Chain[n + 1] = memory
      /\ \A i \in 1..n : Chain[i] = <<i, i>>
  <2> HIDE DEF memory
  <2>1. \A i \in 1..n : segments[i] = <<i, i>>
    OBVIOUS
  <2> HIDE DEF segments
  <2> QED BY <1>2, <1>3, <1>4, <1>5, <2>1, AppendProperties
<1>7. /\ Len(ls) = n + 1 /\ \A i \in 1..(n + 1) : ls[i] = contents[Chain[i]]
  BY <1>2, <1>6, StackProperties
<1>8. contents[memory] = NoEntries
  BY <1>1
<1>9. \A i \in 1..n : contents[<<i, i>>] = layers[i]
  <2> TAKE i \in 1..n
  <2>1. <<i, i>> \in Members(segments) /\ <<i, i>> # memory
    BY <1>2, <1>3 DEF Members
  <2> QED BY <1>1, <2>1
<1>10. \A i \in 1..n : ls[i] = layers[i]
  <2> TAKE i \in 1..n
  <2>1. i \in 1..(n + 1)
    BY <1>2
  <2>2. ls[i] = contents[Chain[i]]
    BY <2>1, <1>7
  <2> HIDE DEF ls
  <2> QED BY <2>2, <1>6, <1>9
<1>11. ls[n + 1] = NoEntries
  <2> HIDE DEF ls, memory
  <2> QED BY <1>2, <1>6, <1>7, <1>8
<1>12. View(ls) = View(layers)
  <2> HIDE DEF ls
  <2> QED BY <1>2, <1>7, <1>10, <1>11, ViewWithEmptyTop
<1>13. MapSeen[j] = MapSeen[k]
  BY <1>12, SeenStacks DEF Paired
<1>14. Agree(j, k, <<>>)
  <2>1. MapSeen[j] \in Results
    BY ViewType DEF MapSeen, Results
  <2>2. ~Writes(<<>>, j) /\ ~Writes(<<>>, k)
    BY DEF Writes
  <2> QED BY <1>13, <2>1, <2>2 DEF Agree, Ends
<1>15. \A w \in Writer : batch[w] = <<>>
  BY DEF Init
<1>16. \A s \in Snap : snaps[s] = Null
  BY DEF Init
<1> QED BY <1>14, <1>15, <1>16 DEF PairHolds, SnapHolds

\* Snapshots see whole batches: what every batch sets to the same value is equal in
\* each of them, although batches are applied entry by entry and merges, swaps and
\* a close go on around them (Database::write, Database::snapshot).
THEOREM SnapshotsAreWhole == Spec => []SnapshotsSeeWholeBatches
<1>1. Init => CoreInv /\ WholeInv
  BY InitIInv, InitWhole
<1>2. CoreInv /\ WholeInv /\ [Next]_vars => CoreInv' /\ WholeInv'
  BY NextIInv, NextWhole
<1>3. CoreInv /\ WholeInv => SnapshotsSeeWholeBatches
  BY DEF WholeInv, SnapHolds, SnapshotsSeeWholeBatches, FrozenRemoval, HasRemoval
<1> QED BY <1>1, <1>2, <1>3, PTL DEF Spec
=============================================================================
