---------------------------- MODULE RecoveryProofs ----------------------------
(***************************************************************************)
(* Whatever step of a session a process dies at, the files it leaves are   *)
(* those of segments that read as the list of the session did, and files   *)
(* that one of these segments covers.                                      *)
(***************************************************************************)
EXTENDS Recovery, SegmentsProofs

InSession == pc \notin {"down", "opening"}

\* The lines of "deleted", those to come included.
Planned == deleted \o merge.lines

Chain == IF memory = Null THEN Current ELSE Append(Current, memory)

Refs(lines) == {f[2] : f \in Members(lines)}
Mentioned == DOMAIN keys \cup data \cup onDisk \cup Refs(Planned)

\* The merges that have a key file, but no place in the list.
Unlisted ==
  left \cup (IF merge.pc = "write" /\ <<"keys", Target>> \notin tmp THEN {Target} ELSE {})

-----------------------------------------------------------------------------
(* The inductive invariant.                                                *)

Types ==
  /\ TypeOK
  /\ keys \in [DOMAIN keys -> Content]
  /\ IsFiniteSet(DOMAIN keys) /\ \A r \in DOMAIN keys : r[1] <= r[2]
  /\ contents \in [DOMAIN contents -> Content]
  /\ writing \in [DOMAIN writing -> Content]
  /\ merge \in [pc : {"none", "write", "schedule", "publish"}, start : Nat,
                slice : Seq(Ref), lines : Seq(File)]

\* A key file has a data file, or the data file waits to be renamed.
KeysHaveData == \A r \in DOMAIN keys : r \in data \/ <<"data", r>> \in tmp

\* The key file of a segment is listed before its data file.
KeysFirst(lines) ==
  \A i \in 1..Len(lines) :
    lines[i][1] = "data" => \E j \in 1..(i - 1) : lines[j] = <<"keys", lines[i][2]>>

KeysListedFirst == KeysFirst(Planned)

\* Between sessions each file in the directory belongs to a segment to be loaded or
\* to what went into one.
FoundCovers == \A r \in Mentioned : \E i \in 1..Len(FoundOrder) : Within(r, FoundOrder[i])

BetweenSessions ==
  /\ segments = <<>> /\ memory = Null /\ contents = Nothing /\ onDisk = {} /\ left = {}
  /\ nextSegID = 0
  /\ writing = Nothing /\ merge = NoMerge /\ limit = MaxSegments /\ err = FALSE
  /\ FoundCovers
  /\ clean => Recovered = map

\* In a session the same holds for the list of segments, apart from merges that are
\* not in it.
ListCovers ==
  \A r \in Mentioned \ Unlisted :
    \E i \in 1..Len(Current) : Current[i] \in DOMAIN keys /\ Within(r, Current[i])

NotPlanned == \A i \in 1..Len(Current) : Current[i] \notin Refs(Planned)

UnlistedKept ==
  \A l \in Unlisted :
    /\ l \in DOMAIN keys /\ l \notin Refs(Planned)
    /\ \A i \in 1..Len(Chain) : Chain[i] # l
    /\ pc = "open" => l[2] < nextSegID

\* The files of a segment in the list are there when it is a disk segment; its key
\* file is too when somebody has just renamed it.
ListStored ==
  \A i \in 1..Len(segments) :
    LET r == segments[i]
    IN  IF r \in onDisk
        THEN r \in DOMAIN keys /\ r \in data /\ keys[r] = contents[r]
        ELSE /\ r \notin data
             /\ r \in DOMAIN keys => r \in DOMAIN writing /\ <<"keys", r>> \notin tmp

\* What is being written, and by whom.
FilesWritten ==
  \A t \in DOMAIN writing :
    /\ <<"data", t>> \in tmp
    /\ IF <<"keys", t>> \in tmp
       THEN t \notin Mentioned
       ELSE t \notin data /\ t \notin left /\ t \in DOMAIN keys /\ keys[t] = writing[t]

WrittenBy ==
  IF merge.pc = "write"
  THEN /\ DOMAIN writing = {Target}
       /\ writing[Target] = Merged(Stack(contents, merge.slice), merge.start = 1)
  ELSE \A t \in DOMAIN writing :
         pc = "flushing" /\ t \in Unwritten /\ writing[t] = contents[t]

MergeInv ==
  /\ merge.pc = "none" => merge = NoMerge
  /\ merge.pc # "none" =>
       /\ pc \in {"open", "closing"}
       /\ IsSlice(segments, merge.start, merge.slice) /\ Len(merge.slice) >= 2
  /\ merge.pc # "schedule" => merge.lines = <<>>
  /\ merge.pc \in {"schedule", "publish"} =>
       /\ Target \in onDisk /\ Target \in DOMAIN keys /\ Target \in data
       /\ keys[Target] = contents[Target]
       /\ contents[Target] = Merged(Stack(contents, merge.slice), merge.start = 1)

MemoryInv ==
  /\ pc = "open" =>
       /\ memory = <<nextSegID, nextSegID>> /\ memory \in DOMAIN contents
       /\ \A i \in 1..Len(segments) : segments[i][2] < nextSegID
  /\ pc # "open" => memory = Null
  /\ \A i \in 1..Len(segments) : segments[i] \in DOMAIN contents

MapIsHeld == map = View(Stack(contents, Chain))

AllWritten == pc = "deleting" => Unwritten = {}

\* All segments, those in the list and those left by a merge that had failed, hold
\* what the segments names held that no merge of this session has made.
Grounds(names) ==
  /\ Ascending(names) /\ \A m \in 1..Len(names) : names[m] \in DOMAIN contents
  /\ \A i \in 1..Len(Chain) :
       /\ Stands(contents, names, Chain[i], contents[Chain[i]])
       /\ Chain[i] \notin onDisk => \E m \in 1..Len(names) : names[m] = Chain[i]
  /\ \A m \in 1..Len(names) : \E i \in 1..Len(Chain) : Within(names[m], Chain[i])
  /\ \A l \in Unlisted : Stands(contents, names, l, keys[l])

Grounded == \E names \in Seq(Ref) : Grounds(names)

Session ==
  /\ ListCovers /\ NotPlanned /\ UnlistedKept /\ ListStored /\ FilesWritten /\ WrittenBy
  /\ MergeInv /\ MemoryInv /\ MapIsHeld /\ AllWritten /\ Grounded /\ ~clean

IInv ==
  /\ Types /\ KeysHaveData /\ KeysListedFirst
  /\ IF InSession THEN Session ELSE BetweenSessions

-----------------------------------------------------------------------------
(* Lists and lines.                                                        *)

LEMMA TypeFacts ==
  ASSUME IInv
  PROVE  /\ DOMAIN keys \subseteq Ref /\ data \subseteq Ref /\ tmp \subseteq File
         /\ IsFiniteSet(DOMAIN keys) /\ \A r \in DOMAIN keys : r[1] <= r[2]
         /\ segments \in Seq(Ref) /\ Ascending(segments) /\ Len(segments) \in Nat
         /\ deleted \in Seq(File) /\ merge.lines \in Seq(File) /\ merge.slice \in Seq(Ref)
         /\ DOMAIN contents \subseteq Ref /\ onDisk \subseteq DOMAIN contents
         /\ left \subseteq DOMAIN keys /\ DOMAIN writing \subseteq Ref
         /\ keys \in [DOMAIN keys -> Content] /\ contents \in [DOMAIN contents -> Content]
         /\ writing \in [DOMAIN writing -> Content]
BY DEF IInv, Types, TypeOK

LEMMA FileType ==
  /\ \A r \in Ref : <<"keys", r>> \in File /\ <<"data", r>> \in File
  /\ \A f \in File : /\ f[1] \in {"keys", "data"} /\ f[2] \in Ref
                     /\ f = <<f[1], f[2]>>
BY DEF File

LEMMA WithinItself == \A r \in Ref : Within(r, r)
BY DEF Within, Ref

LEMMA WithinBoth ==
  ASSUME NEW r \in Ref, NEW s \in Ref, Within(r, s), Within(s, r)
  PROVE  r = s
<1>1. /\ r[1] \in Nat /\ r[2] \in Nat /\ s[1] \in Nat /\ s[2] \in Nat
      /\ r = <<r[1], r[2]>> /\ s = <<s[1], s[2]>>
  BY DEF Ref
<1> QED BY <1>1 DEF Within

\* The merge under way, whose target nothing in the list covers.
LEMMA SliceFacts ==
  ASSUME IInv, InSession, merge.pc # "none"
  PROVE  /\ IsSlice(segments, merge.start, merge.slice) /\ Len(merge.slice) >= 2
         /\ Target \in Ref /\ Target[1] <= Target[2]
         /\ \A i \in 1..Len(segments) : ~Within(Target, segments[i]) /\ segments[i] # Target
         /\ Splice(segments, merge.start, merge.slice, Target) \in Seq(Ref)
         /\ Ascending(Splice(segments, merge.start, merge.slice, Target))
<1>1. IsSlice(segments, merge.start, merge.slice) /\ Len(merge.slice) >= 2
  BY DEF IInv, Session, MergeInv
<1>2. /\ segments \in Seq(Ref) /\ merge.slice \in Seq(Ref) /\ Ascending(segments)
  BY TypeFacts
<1>3. /\ Target \in Ref /\ Target[1] <= Target[2]
      /\ Ascending(Splice(segments, merge.start, merge.slice, Target))
  BY <1>1, <1>2, TargetProperties, SpliceAscends DEF Target
<1>4. Splice(segments, merge.start, merge.slice, Target) \in Seq(Ref)
  BY <1>1, <1>2, <1>3, SpliceProperties
<1>5. \A i \in 1..Len(segments) : ~Within(Target, segments[i])
  BY <1>1, <1>2, TargetIsNew DEF Target
<1>6. Within(Target, Target)
  BY <1>3, WithinItself
<1> QED BY <1>1, <1>3, <1>4, <1>5, <1>6

LEMMA CurrentFacts ==
  ASSUME IInv, InSession
  PROVE  Current \in Seq(Ref) /\ Ascending(Current) /\ Len(Current) \in Nat
<1>1. Current \in Seq(Ref) /\ Ascending(Current)
  BY TypeFacts, SliceFacts DEF Current
<1> QED BY <1>1

\* The memory segment of the session comes last.
LEMMA ChainFacts ==
  ASSUME IInv, InSession
  PROVE  /\ Chain \in Seq(Ref) /\ Len(Chain) \in Nat
         /\ \A i \in 1..Len(Current) : i \in 1..Len(Chain) /\ Chain[i] = Current[i]
         /\ memory = Null => Chain = Current
         /\ memory # Null => /\ Len(Chain) = Len(Current) + 1
                             /\ Chain[Len(Current) + 1] = memory /\ memory \in Ref
<1>1. Current \in Seq(Ref) /\ Len(Current) \in Nat
  BY CurrentFacts
<1>2. CASE memory = Null
  BY <1>1, <1>2 DEF Chain
<1>3. CASE memory # Null
  <2>1. memory \in Ref /\ Chain = Append(Current, memory)
    BY <1>3 DEF IInv, Types, TypeOK, Chain
  <2> QED BY <1>1, <1>3, <2>1, AppendProperties
<1> QED BY <1>2, <1>3

\* The lines of "deleted" name segments.
LEMMA MentionedType ==
  ASSUME IInv
  PROVE  Mentioned \subseteq Ref
<1>1. Planned \in Seq(File)
  BY TypeFacts, ConcatProperties DEF Planned
<1>2. Refs(Planned) \subseteq Ref
  BY <1>1, FileType DEF Refs, Members
<1> QED BY <1>2, TypeFacts DEF Mentioned

\* A segment of the list that the directory knows of has its key file.
LEMMA MentionedInList ==
  ASSUME IInv, InSession, NEW i \in 1..Len(Current), Current[i] \in Mentioned
  PROVE  Current[i] \in DOMAIN keys
<1>1. Current[i] \notin Unlisted
  BY ChainFacts DEF IInv, Session, UnlistedKept
<1>2. PICK j \in 1..Len(Current) : Current[j] \in DOMAIN keys /\ Within(Current[i], Current[j])
  BY <1>1 DEF IInv, Session, ListCovers
<1>3. i = j
  BY <1>2, CurrentFacts, AscendingApart
<1> QED BY <1>2, <1>3

\* The ids of the memory segment, and of those to come, are beyond all that the
\* directory knows of and all that is merged.
LEMMA MemoryApart ==
  ASSUME IInv, pc = "open"
  PROVE  /\ InSession /\ Session
         /\ nextSegID \in Nat /\ memory = <<nextSegID, nextSegID>>
         /\ memory \in Ref /\ memory # Null /\ memory \in DOMAIN contents
         /\ \A i \in 1..Len(segments) : segments[i][2] < nextSegID
         /\ \A i \in 1..Len(Current) : Current[i][2] < nextSegID
         /\ merge.pc # "none" => Target[2] < nextSegID
         /\ \A r \in Mentioned : r[2] < nextSegID
         /\ \A n \in Nat : n >= nextSegID => <<n, n>> \notin Mentioned
<1>1. InSession /\ Session
  BY DEF IInv, InSession
<1>2. /\ nextSegID \in Nat /\ memory = <<nextSegID, nextSegID>> /\ memory \in DOMAIN contents
      /\ \A i \in 1..Len(segments) : segments[i][2] < nextSegID
  BY <1>1 DEF Session, MemoryInv, IInv, Types, TypeOK
<1>3. memory \in Ref /\ memory # Null
  BY <1>2, TypeFacts, RecoveryAssumption
<1>4. ASSUME merge.pc # "none"
      PROVE  /\ Target[2] < nextSegID
             /\ \A i \in 1..Len(Splice(segments, merge.start, merge.slice, Target)) :
                  Splice(segments, merge.start, merge.slice, Target)[i][2] < nextSegID
  <2> DEFINE new == Splice(segments, merge.start, merge.slice, Target)
  <2>1. /\ segments \in Seq(Ref) /\ Ascending(segments) /\ merge.slice \in Seq(Ref)
        /\ IsSlice(segments, merge.start, merge.slice) /\ Target \in Ref
    BY <1>1, <1>4, TypeFacts, SliceFacts
  <2>2. /\ merge.start + Len(merge.slice) - 1 \in 1..Len(segments)
        /\ Target[2] = segments[merge.start + Len(merge.slice) - 1][2]
    BY <2>1, TargetProperties DEF Target
  <2>3. \A i \in 1..Len(new) : new[i] = Target \/ \E j \in 1..Len(segments) : new[i] = segments[j]
    BY <2>1, SplicedFrom
  <2> HIDE DEF new
  <2>4. Target[2] < nextSegID
    BY <1>2, <2>2
  <2>5. \A i \in 1..Len(new) : new[i][2] < nextSegID
    BY <1>2, <2>3, <2>4
  <2> QED BY <2>4, <2>5 DEF new
<1>5. \A i \in 1..Len(Current) : Current[i][2] < nextSegID
  BY <1>2, <1>4 DEF Current
<1>6. ASSUME NEW r \in Mentioned
      PROVE  r[2] < nextSegID
  <2>1. CASE r \in Unlisted
    BY <1>1, <2>1 DEF Session, UnlistedKept
  <2>2. CASE r \notin Unlisted
    <3>1. PICK i \in 1..Len(Current) : Within(r, Current[i])
      BY <1>1, <2>2 DEF Session, ListCovers
    <3>2. r \in Ref /\ Current[i] \in Ref
      BY <1>1, MentionedType, CurrentFacts
    <3>3. r[2] \in Nat /\ Current[i][2] \in Nat /\ r[2] <= Current[i][2]
      BY <3>1, <3>2 DEF Ref, Within
    <3> QED BY <1>2, <1>5, <3>3
  <2> QED BY <2>1, <2>2
<1>7. ASSUME NEW n \in Nat, n >= nextSegID, <<n, n>> \in Mentioned
      PROVE  FALSE
  <2>1. n < nextSegID
    BY <1>6, <1>7
  <2> QED BY <1>2, <1>7, <2>1
<1> QED BY <1>1, <1>2, <1>3, <1>4, <1>5, <1>6, <1>7

\* So nothing that the memory segment covers has files.
LEMMA BeyondCurrent ==
  ASSUME IInv, InSession, NEW r \in Ref, r[1] <= r[2],
         NEW j \in 1..Len(Chain), j \notin 1..Len(Current), Within(r, Chain[j]),
         NEW f \in Mentioned, Within(r, f)
  PROVE  FALSE
<1>1. Chain[j] = memory /\ memory # Null
  BY ChainFacts, CurrentFacts
<1>2. pc = "open"
  BY <1>1 DEF IInv, Session, MemoryInv
<1>3. memory = <<nextSegID, nextSegID>> /\ nextSegID \in Nat /\ f[2] < nextSegID /\ f \in Ref
  BY <1>2, MemoryApart, MentionedType
<1>4. f[2] \in Nat /\ r[1] \in Nat /\ r[2] \in Nat
  BY <1>3 DEF Ref
<1>5. nextSegID <= r[1] /\ r[2] <= f[2]
  BY <1>1, <1>3 DEF Within
<1> QED BY <1>3, <1>4, <1>5

\* The lines of "deleted" once those of a merge have been written.
LEMMA RefsOfConcat ==
  ASSUME NEW s \in Seq(File), NEW t \in Seq(File)
  PROVE  Refs(s \o t) = Refs(s) \cup Refs(t)
<1>1. /\ Len(s \o t) = Len(s) + Len(t) /\ Len(s) \in Nat /\ Len(t) \in Nat
      /\ \A i \in 1..Len(s) : (s \o t)[i] = s[i]
      /\ \A i \in 1..Len(t) : (s \o t)[Len(s) + i] = t[i]
  BY ConcatProperties
<1>2. ASSUME NEW f \in Members(s \o t)
      PROVE  f \in Members(s) \cup Members(t)
  <2>1. PICK i \in 1..(Len(s) + Len(t)) : f = (s \o t)[i]
    BY <1>1 DEF Members
  <2>2. i \in 1..Len(s) \/ (i - Len(s) \in 1..Len(t) /\ i = Len(s) + (i - Len(s)))
    BY <1>1
  <2> QED BY <1>1, <2>1, <2>2 DEF Members
<1>3. ASSUME NEW f \in Members(s)
      PROVE  f \in Members(s \o t)
  <2>1. PICK i \in 1..Len(s) : f = s[i]
    BY DEF Members
  <2>2. i \in 1..Len(s \o t) /\ (s \o t)[i] = f
    BY <1>1, <2>1
  <2> QED BY <2>2 DEF Members
<1>4. ASSUME NEW f \in Members(t)
      PROVE  f \in Members(s \o t)
  <2>1. PICK i \in 1..Len(t) : f = t[i]
    BY DEF Members
  <2>2. Len(s) + i \in 1..Len(s \o t) /\ (s \o t)[Len(s) + i] = f
    BY <1>1, <2>1
  <2> QED BY <2>2 DEF Members
<1>5. Members(s \o t) = Members(s) \cup Members(t)
  BY <1>2, <1>3, <1>4
<1> QED BY <1>5 DEF Refs

LEMMA KeysFirstConcat ==
  ASSUME NEW s \in Seq(File), NEW t \in Seq(File)
  PROVE  /\ KeysFirst(s) /\ KeysFirst(t) => KeysFirst(s \o t)
         /\ KeysFirst(s \o t) => KeysFirst(s)
<1>1. /\ Len(s \o t) = Len(s) + Len(t) /\ Len(s) \in Nat /\ Len(t) \in Nat
      /\ \A i \in 1..Len(s) : (s \o t)[i] = s[i]
      /\ \A i \in 1..Len(t) : (s \o t)[Len(s) + i] = t[i]
  BY ConcatProperties
<1>2. ASSUME KeysFirst(s), KeysFirst(t), NEW i \in 1..Len(s \o t), (s \o t)[i][1] = "data"
      PROVE  \E j \in 1..(i - 1) : (s \o t)[j] = <<"keys", (s \o t)[i][2]>>
  <2>1. CASE i \in 1..Len(s)
    <3>1. PICK j \in 1..(i - 1) : s[j] = <<"keys", s[i][2]>>
      BY <1>1, <1>2, <2>1 DEF KeysFirst
    <3>2. j \in 1..Len(s)
      BY <1>1, <2>1
    <3> QED BY <1>1, <2>1, <3>1, <3>2
  <2>2. CASE i \notin 1..Len(s)
    <3> DEFINE k == i - Len(s)
    <3>1. k \in 1..Len(t) /\ i = Len(s) + k
      BY <1>1, <2>2
    <3>2. (s \o t)[i] = t[k]
      BY <1>1, <3>1
    <3>3. PICK j \in 1..(k - 1) : t[j] = <<"keys", t[k][2]>>
      BY <1>2, <3>1, <3>2 DEF KeysFirst
    <3>4. j \in 1..Len(t) /\ Len(s) + j \in 1..(i - 1)
      BY <1>1, <3>1
    <3>5. (s \o t)[Len(s) + j] = <<"keys", (s \o t)[i][2]>>
      BY <1>1, <3>2, <3>3, <3>4
    <3> QED BY <3>4, <3>5
  <2> QED BY <2>1, <2>2
<1>3. ASSUME KeysFirst(s \o t), NEW i \in 1..Len(s), s[i][1] = "data"
      PROVE  \E j \in 1..(i - 1) : s[j] = <<"keys", s[i][2]>>
  <2>1. i \in 1..Len(s \o t) /\ (s \o t)[i] = s[i]
    BY <1>1
  <2>2. PICK j \in 1..(i - 1) : (s \o t)[j] = <<"keys", s[i][2]>>
    BY <1>3, <2>1 DEF KeysFirst
  <2>3. j \in 1..Len(s)
    BY <1>1
  <2> QED BY <1>1, <2>2, <2>3
<1>4. KeysFirst(s) /\ KeysFirst(t) => KeysFirst(s \o t)
  BY <1>2 DEF KeysFirst
<1>5. KeysFirst(s \o t) => KeysFirst(s)
  BY <1>3 DEF KeysFirst
<1> QED BY <1>4, <1>5

\* The lines of a merge name the files of disk segments of its slice.
LEMMA LinesFacts ==
  ASSUME IInv
  PROVE  /\ Lines \in Seq(File) /\ KeysFirst(Lines)
         /\ Refs(Lines) \subseteq Members(merge.slice) \cap onDisk
<1> DEFINE src == Sources
<1>1. IsFiniteSet(Members(merge.slice) \cap onDisk) /\ Members(merge.slice) \subseteq Ref
  <2>1. merge.slice \in Seq(Ref)
    BY TypeFacts
  <2>2. IsFiniteSet(Members(merge.slice))
    BY <2>1, MembersFinite
  <2> QED BY <2>1, <2>2, FS_Subset DEF Members
<1>2. src \in Seq(Ref) /\ \A i \in 1..Len(src) : src[i] \in Members(merge.slice) \cap onDisk
  BY <1>1, SortedProperties DEF Sources
<1>3. Len(src) \in Nat
  BY <1>2
<1> HIDE DEF src
<1>4. ASSUME NEW i \in 1..(2 * Len(src))
      PROVE  /\ (i + 1) \div 2 \in 1..Len(src)
             /\ i % 2 \in {0, 1}
             /\ i % 2 = 0 => i - 1 \in 1..(i - 1) /\ i - 1 \in 1..(2 * Len(src))
                             /\ (i - 1) % 2 = 1 /\ ((i - 1) + 1) \div 2 = (i + 1) \div 2
  BY <1>3
<1> DEFINE lines == LinesOf(src)
<1>5. /\ lines = [i \in 1..(2 * Len(src)) |->
                    Files(src[(i + 1) \div 2])[IF i % 2 = 1 THEN 1 ELSE 2]]
      /\ Lines = lines
  BY DEF LinesOf, Lines, src
<1> HIDE DEF lines
<1>6. ASSUME NEW i \in 1..(2 * Len(src))
      PROVE  /\ lines[i] = <<IF i % 2 = 1 THEN "keys" ELSE "data", src[(i + 1) \div 2]>>
             /\ lines[i] \in File
  <2>1. lines[i] = Files(src[(i + 1) \div 2])[IF i % 2 = 1 THEN 1 ELSE 2]
    BY <1>5
  <2>2. lines[i] = <<IF i % 2 = 1 THEN "keys" ELSE "data", src[(i + 1) \div 2]>>
    BY <2>1, <1>4 DEF Files
  <2>3. src[(i + 1) \div 2] \in Ref
    BY <1>2, <1>4
  <2> QED BY <2>2, <2>3, FileType
<1>7. lines \in Seq(File) /\ Len(lines) = 2 * Len(src)
  <2>1. lines \in [1..(2 * Len(src)) -> File] /\ 2 * Len(src) \in Nat
    BY <1>3, <1>5, <1>6
  <2> QED BY <2>1, SeqDef, LenProperties
<1>8. ASSUME NEW i \in 1..Len(lines), lines[i][1] = "data"
      PROVE  \E j \in 1..(i - 1) : lines[j] = <<"keys", lines[i][2]>>
  <2>1. i \in 1..(2 * Len(src))
    BY <1>7
  <2>2. lines[i] = <<IF i % 2 = 1 THEN "keys" ELSE "data", src[(i + 1) \div 2]>>
    BY <1>6, <2>1
  <2>3. i % 2 = 0
    BY <1>4, <1>8, <2>1, <2>2
  <2>4. i - 1 \in 1..(i - 1) /\ i - 1 \in 1..(2 * Len(src))
        /\ (i - 1) % 2 = 1 /\ ((i - 1) + 1) \div 2 = (i + 1) \div 2
    BY <1>4, <2>1, <2>3
  <2>5. lines[i - 1] = <<IF (i - 1) % 2 = 1 THEN "keys" ELSE "data", src[((i - 1) + 1) \div 2]>>
    BY <1>6, <2>4
  <2>6. lines[i - 1] = <<"keys", src[(i + 1) \div 2]>>
    BY ONLY <2>4, <2>5
  <2>7. lines[i][2] = src[(i + 1) \div 2]
    BY ONLY <2>2
  <2> QED BY <2>4, <2>6, <2>7
<1>9. Refs(lines) \subseteq Members(merge.slice) \cap onDisk
  <2> SUFFICES ASSUME NEW i \in 1..Len(lines)
               PROVE  lines[i][2] \in Members(merge.slice) \cap onDisk
    BY DEF Refs, Members
  <2>1. i \in 1..(2 * Len(src))
    BY <1>7
  <2>2. lines[i][2] = src[(i + 1) \div 2]
    BY <1>6, <2>1
  <2>3. (i + 1) \div 2 \in 1..Len(src)
    BY <1>4, <2>1
  <2> QED BY <1>2, <2>2, <2>3
<1> QED BY <1>5, <1>7, <1>8, <1>9 DEF KeysFirst

-----------------------------------------------------------------------------
(* What an open finds.                                                     *)

\* What an open finds in any state.
LEMMA FoundFacts ==
  ASSUME IInv
  PROVE  /\ FoundOrder \in Seq(Ref) /\ Ascending(FoundOrder) /\ Len(FoundOrder) \in Nat
         /\ \A q \in 1..Len(FoundOrder) : FoundOrder[q] \in Found
         /\ \A f \in Found : \E q \in 1..Len(FoundOrder) : Within(f, FoundOrder[q])
         /\ Found \subseteq DOMAIN keys /\ Found \subseteq Mentioned /\ Found \subseteq Ref
<1>1. Found \subseteq DOMAIN keys /\ Found \subseteq Mentioned
  BY DEF Found, Mentioned
<1>2. /\ Found \in SUBSET Ref /\ IsFiniteSet(Found)
      /\ \A f \in Found : f[1] <= f[2]
  BY <1>1, TypeFacts, FS_Subset
<1>3. /\ FoundOrder \in Seq(Ref) /\ Ascending(FoundOrder)
      /\ \A q \in 1..Len(FoundOrder) : FoundOrder[q] \in Found
      /\ \A f \in Found : \E q \in 1..Len(FoundOrder) : Within(f, FoundOrder[q])
  BY <1>2, LoadOrderAscends DEF FoundOrder
<1> QED BY <1>1, <1>2, <1>3

LEMMA FoundSame ==
  ASSUME IInv, Found' = Found, \A r \in Found : keys'[r] = keys[r]
  PROVE  FoundOrder' = FoundOrder /\ Recovered' = Recovered
<1>1. FoundOrder' = FoundOrder
  BY DEF FoundOrder
<1>2. \A i \in DOMAIN FoundOrder : keys'[FoundOrder[i]] = keys[FoundOrder[i]]
  BY FoundFacts, LenProperties
<1>3. [i \in DOMAIN FoundOrder |-> keys'[FoundOrder[i]]]
        = [i \in DOMAIN FoundOrder |-> keys[FoundOrder[i]]]
  BY <1>2
<1> QED BY <1>1, <1>3 DEF Recovered

LEMMA RecoveredStack ==
  ASSUME FoundOrder \in Seq(Ref)
  PROVE  Recovered = View(Stack(keys, FoundOrder))
<1>1. DOMAIN FoundOrder = 1..Len(FoundOrder)
  BY LenProperties
<1> QED BY <1>1 DEF Recovered, Stack

LEMMA ListedIsPlanned ==
  ASSUME IInv
  PROVE  /\ \A f \in Listed : f[2] \in Refs(Planned)
         /\ Refs(Planned) = Refs(deleted) \cup Refs(merge.lines)
         /\ KeysFirst(deleted)
         /\ merge.lines = <<>> => Planned = deleted
<1>1. deleted \in Seq(File) /\ merge.lines \in Seq(File)
  BY TypeFacts
<1>2. Refs(Planned) = Refs(deleted) \cup Refs(merge.lines)
  BY <1>1, RefsOfConcat DEF Planned
<1>3. KeysFirst(deleted)
  BY <1>1, KeysFirstConcat DEF IInv, KeysListedFirst, Planned
<1>4. \A f \in Listed : f[2] \in Refs(deleted)
  BY DEF Listed, Refs
<1>5. merge.lines = <<>> => Planned = deleted
  BY <1>1, ConcatEmptySeq DEF Planned
<1> QED BY <1>2, <1>3, <1>4, <1>5

\* If the process died now, the next session would have segments of the list and
\* merges that are not in it.
LEMMA FoundOfSession ==
  ASSUME IInv, InSession
  PROVE  /\ FoundCovers
         /\ \A i \in 1..Len(Current) : Current[i] \in DOMAIN keys => Current[i] \in Found
         /\ Unlisted \subseteq Found
         /\ \A f \in Found : \/ f \in Unlisted
                             \/ \E i \in 1..Len(Current) :
                                  Current[i] \in DOMAIN keys /\ Within(f, Current[i])
         /\ \A q \in 1..Len(FoundOrder) :
              \/ FoundOrder[q] \in Unlisted
              \/ \E i \in 1..Len(Current) :
                   Current[i] \in DOMAIN keys /\ FoundOrder[q] = Current[i]
<1>1. /\ Current \in Seq(Ref) /\ Ascending(Current)
      /\ FoundOrder \in Seq(Ref) /\ Ascending(FoundOrder)
      /\ \A q \in 1..Len(FoundOrder) : FoundOrder[q] \in Found
      /\ \A f \in Found : \E q \in 1..Len(FoundOrder) : Within(f, FoundOrder[q])
      /\ Found \subseteq Mentioned /\ Found \subseteq Ref /\ Mentioned \subseteq Ref
  BY CurrentFacts, FoundFacts, MentionedType
<1>2. \A i \in 1..Len(Current) : Current[i] \in DOMAIN keys => Current[i] \in Found
  BY ListedIsPlanned DEF Found, IInv, Session, NotPlanned
<1>3. Unlisted \subseteq Found
  BY ListedIsPlanned DEF Found, IInv, Session, UnlistedKept
<1>4. \A r \in Mentioned \ Unlisted :
        \E i \in 1..Len(Current) : Current[i] \in DOMAIN keys /\ Within(r, Current[i])
  BY DEF IInv, Session, ListCovers
<1>5. FoundCovers
  <2> SUFFICES ASSUME NEW r \in Mentioned
               PROVE  \E q \in 1..Len(FoundOrder) : Within(r, FoundOrder[q])
    BY DEF FoundCovers
  <2>1. CASE r \in Unlisted
    BY <1>1, <1>3, <2>1
  <2>2. CASE r \notin Unlisted
    <3>1. PICK i \in 1..Len(Current) : Current[i] \in DOMAIN keys /\ Within(r, Current[i])
      BY <1>4, <2>2
    <3>2. PICK q \in 1..Len(FoundOrder) : Within(Current[i], FoundOrder[q])
      BY <1>1, <1>2, <3>1
    <3>3. r \in Ref /\ Current[i] \in Ref /\ FoundOrder[q] \in Ref
      BY <1>1
    <3> QED BY <3>1, <3>2, <3>3, WithinTransitive
  <2> QED BY <2>1, <2>2
<1>6. \A f \in Found : \/ f \in Unlisted
                       \/ \E i \in 1..Len(Current) :
                            Current[i] \in DOMAIN keys /\ Within(f, Current[i])
  BY <1>1, <1>4
<1>7. ASSUME NEW q \in 1..Len(FoundOrder), FoundOrder[q] \notin Unlisted
      PROVE  \E i \in 1..Len(Current) : Current[i] \in DOMAIN keys /\ FoundOrder[q] = Current[i]
  <2>1. PICK i \in 1..Len(Current) : Current[i] \in DOMAIN keys /\ Within(FoundOrder[q], Current[i])
    BY <1>1, <1>6, <1>7
  <2>2. PICK p \in 1..Len(FoundOrder) : Within(Current[i], FoundOrder[p])
    BY <1>1, <1>2, <2>1
  <2>3. FoundOrder[q] \in Ref /\ Current[i] \in Ref /\ FoundOrder[p] \in Ref
    BY <1>1
  <2>4. q = p
    <3>1. Within(FoundOrder[q], FoundOrder[p])
      BY <2>1, <2>2, <2>3, WithinTransitive
    <3> QED BY <1>1, <3>1, AscendingApart
  <2>5. FoundOrder[q] = Current[i]
    BY <2>1, <2>2, <2>3, <2>4, WithinBoth
  <2> QED BY <2>1, <2>5
<1> QED BY <1>2, <1>3, <1>5, <1>6, <1>7

-----------------------------------------------------------------------------
(* Between sessions.                                                       *)

LEMMA EmptyFacts ==
  /\ Nothing \in [DOMAIN Nothing -> Content] /\ DOMAIN Nothing = {}
  /\ <<>> \in Seq(Ref) /\ Ascending(<<>>) /\ <<>> \in Seq(File)
  /\ NoMerge \in [pc : {"none", "write", "schedule", "publish"}, start : Nat,
                  slice : Seq(Ref), lines : Seq(File)]
  /\ NoMerge.pc = "none" /\ NoMerge.lines = <<>>
  /\ MaxSegments \in Nat
BY RecoveryAssumption DEF Nothing, Ascending, NoMerge

LEMMA InitStep == Init => IInv
<1> SUFFICES ASSUME Init PROVE IInv
  OBVIOUS
<1> USE DEF Init
<1>1. Types
  <2>1. [k \in Key |-> Empty] \in [Key -> Value \cup {Empty}]
    OBVIOUS
  <2>2. MaxSegID \in Nat /\ MaxCrashes \in Nat
    BY RecoveryAssumption
  <2>3. /\ keys \in [DOMAIN keys -> Content] /\ contents \in [DOMAIN contents -> Content]
        /\ writing \in [DOMAIN writing -> Content]
    BY EmptyFacts
  <2>4. /\ DOMAIN keys = {} /\ DOMAIN contents = {} /\ DOMAIN writing = {}
        /\ segments \in Seq(Ref) /\ Ascending(segments) /\ deleted \in Seq(File)
        /\ limit \in Nat
    BY EmptyFacts
  <2>5. err \in BOOLEAN /\ clean \in BOOLEAN
    OBVIOUS
  <2>6. TypeOK
    BY <2>1, <2>2, <2>3, <2>4, <2>5, EmptyFacts DEF TypeOK
  <2>7. IsFiniteSet(DOMAIN keys) /\ \A r \in DOMAIN keys : r[1] <= r[2]
    BY <2>4, FS_EmptySet
  <2> QED BY <2>3, <2>6, <2>7, EmptyFacts DEF Types
<1>2. Planned = <<>>
  BY EmptyFacts, ConcatEmptySeq DEF Planned, NoMerge
<1>3. KeysHaveData /\ KeysListedFirst
  BY <1>2, EmptyFacts DEF KeysHaveData, KeysListedFirst, KeysFirst
<1>4. Found = {} /\ Mentioned = {}
  BY <1>2, EmptyFacts DEF Found, Mentioned, Refs, Members
<1>5. /\ FoundOrder \in Seq(Ref)
      /\ \A i \in 1..Len(FoundOrder) : FoundOrder[i] \in Found
  BY <1>4, FS_EmptySet, LoadOrderAscends DEF FoundOrder
<1>6. Recovered = map
  <2>1. Recovered = View(Stack(keys, FoundOrder))
    BY <1>5, RecoveredStack
  <2>2. Len(FoundOrder) = 0
    BY <1>4, <1>5
  <2>3. \A k \in Key : View(Stack(keys, FoundOrder))[k] = Empty
    <3> SUFFICES ASSUME NEW k \in Key
                 PROVE  View(Stack(keys, FoundOrder))[k] = Empty
      OBVIOUS
    <3>1. Len(Stack(keys, FoundOrder)) = 0
      BY <1>5, <2>2, StackProperties
    <3>2. Newest(Stack(keys, FoundOrder), k) = Absent
      BY <3>1, NewestAbsent
    <3> QED BY <3>2, SegmentsAssumption DEF View, Live
  <2>4. View(Stack(keys, FoundOrder)) = [k \in Key |-> View(Stack(keys, FoundOrder))[k]]
    BY DEF View
  <2> QED BY <2>1, <2>3, <2>4
<1>7. BetweenSessions
  BY <1>4, <1>5, <1>6 DEF BetweenSessions, FoundCovers
<1> QED BY <1>1, <1>3, <1>7 DEF IInv, InSession

LEMMA OpenBeginStep == IInv /\ OpenBegin => IInv'
<1> SUFFICES ASSUME IInv, OpenBegin PROVE IInv'
  OBVIOUS
<1> USE DEF OpenBegin, files, session, history
<1>1. Types'
  BY DEF IInv, Types, TypeOK
<1>2. Planned' = Planned /\ Mentioned' = Mentioned /\ Found' = Found
      /\ FoundOrder' = FoundOrder /\ Recovered' = Recovered
  BY DEF Planned, Mentioned, Found, Listed, FoundOrder, Recovered
<1>3. BetweenSessions'
  BY <1>2 DEF IInv, InSession, BetweenSessions, FoundCovers
<1>4. KeysHaveData' /\ KeysListedFirst'
  BY <1>2 DEF IInv, KeysHaveData, KeysListedFirst
<1> QED BY <1>1, <1>3, <1>4 DEF IInv, InSession

LEMMA LoadThrowsStep == IInv /\ LoadThrows => IInv'
<1> SUFFICES ASSUME IInv, LoadThrows PROVE IInv'
  OBVIOUS
<1> USE DEF LoadThrows, files, session, history
<1>1. Types'
  BY DEF IInv, Types, TypeOK
<1>2. Planned' = Planned /\ Mentioned' = Mentioned /\ Found' = Found
      /\ FoundOrder' = FoundOrder /\ Recovered' = Recovered
  BY DEF Planned, Mentioned, Found, Listed, FoundOrder, Recovered
<1>3. BetweenSessions'
  BY <1>2 DEF IInv, InSession, BetweenSessions, FoundCovers
<1>4. KeysHaveData' /\ KeysListedFirst'
  BY <1>2 DEF IInv, KeysHaveData, KeysListedFirst
<1> QED BY <1>1, <1>3, <1>4 DEF IInv, InSession

\* The end of a session, by a close or by the death of the process, leaves what
\* FoundOfSession says.
LEMMA EndedStep ==
  ASSUME IInv, Ended, UNCHANGED files, UNCHANGED map, clean' \in BOOLEAN,
         crashes' \in 0..MaxCrashes,
         clean' => Recovered = map
  PROVE  IInv'
<1> USE DEF Ended, files
<1>1. Types'
  <2>1. /\ keys' \in [DOMAIN keys' -> Content] /\ contents' \in [DOMAIN contents' -> Content]
        /\ writing' \in [DOMAIN writing' -> Content]
    BY EmptyFacts, TypeFacts
  <2>2. /\ DOMAIN contents' = {} /\ DOMAIN writing' = {}
        /\ segments' \in Seq(Ref) /\ Ascending(segments') /\ limit' \in Nat
        /\ MaxSegID \in Nat /\ merge'.pc \in {"none", "write", "schedule", "publish"}
    BY EmptyFacts, RecoveryAssumption
  <2>3. TypeOK'
    <3>1. nextSegID' \in 0..MaxSegID
      BY <2>2
    <3>4. err' \in BOOLEAN
      BY ZenonT(20)
    <3>2. /\ onDisk' \subseteq DOMAIN contents' /\ left' \subseteq DOMAIN keys'
          /\ DOMAIN contents' \subseteq Ref /\ DOMAIN writing' \subseteq Ref
          /\ \A r \in DOMAIN contents' : contents'[r] \in Content
          /\ \A r \in DOMAIN writing' : writing'[r] \in Content
      BY <2>2
    <3>3. TypeOK
      BY DEF IInv, Types
    <3> QED BY <2>2, <3>1, <3>2, <3>3, <3>4 DEF TypeOK
  <2> QED BY <2>1, <2>3, TypeFacts, EmptyFacts DEF Types
<1>2. Planned' = deleted
  BY TypeFacts, ConcatEmptySeq DEF Planned, NoMerge
<1>3. Found' = Found /\ FoundOrder' = FoundOrder /\ Recovered' = Recovered
  BY DEF Found, Listed, FoundOrder, Recovered
<1>4. Mentioned' \subseteq Mentioned
  BY <1>2, ListedIsPlanned DEF Mentioned
<1>5. FoundCovers
  BY FoundOfSession DEF IInv, BetweenSessions
<1>6. FoundCovers'
  BY <1>3, <1>4, <1>5 DEF FoundCovers
<1>7. KeysHaveData' /\ KeysListedFirst'
  BY <1>2, ListedIsPlanned DEF IInv, KeysHaveData, KeysListedFirst
<1>8. BetweenSessions'
  BY <1>3, <1>6 DEF BetweenSessions
<1> QED BY <1>1, <1>7, <1>8 DEF IInv, InSession

LEMMA CrashStep == IInv /\ Crash => IInv'
<1> SUFFICES ASSUME IInv, Crash PROVE IInv'
  OBVIOUS
<1>1. clean' \in BOOLEAN /\ crashes' \in 0..MaxCrashes
  BY RecoveryAssumption DEF Crash, history, IInv, Types, TypeOK
<1>2. clean' => Recovered = map
  BY DEF Crash, IInv, Session, BetweenSessions
<1> QED BY <1>1, <1>2, EndedStep DEF Crash, files

\* The files of the segments in the list, a finished merge among them.
LEMMA CurrentStored ==
  ASSUME IInv, InSession, NEW i \in 1..Len(Current)
  PROVE  IF Current[i] \in onDisk
         THEN /\ Current[i] \in DOMAIN keys /\ Current[i] \in data
              /\ keys[Current[i]] = contents[Current[i]]
         ELSE Current[i] \in DOMAIN keys => Current[i] \in DOMAIN writing
<1>1. ListStored /\ MergeInv
  BY DEF IInv, Session
<1>2. CASE merge.pc \in {"schedule", "publish"}
  <2>1. /\ segments \in Seq(Ref) /\ merge.slice \in Seq(Ref) /\ Target \in Ref
        /\ IsSlice(segments, merge.start, merge.slice)
    BY <1>2, TypeFacts, SliceFacts
  <2>2. Current[i] = Target \/ \E j \in 1..Len(segments) : Current[i] = segments[j]
    BY <1>2, <2>1, SplicedFrom DEF Current
  <2>3. CASE Current[i] = Target
    BY <1>1, <1>2, <2>3 DEF MergeInv
  <2>4. CASE \E j \in 1..Len(segments) : Current[i] = segments[j]
    <3>1. PICK j \in 1..Len(segments) : Current[i] = segments[j]
      BY <2>4
    <3>2. CASE segments[j] \in onDisk
      BY <1>1, <3>1, <3>2 DEF ListStored
    <3>3. CASE segments[j] \notin onDisk
      BY <1>1, <3>1, <3>3 DEF ListStored
    <3> QED BY <3>2, <3>3
  <2> QED BY <2>2, <2>3, <2>4
<1>3. CASE ~(merge.pc \in {"schedule", "publish"})
  <2>1. Current = segments
    BY <1>3 DEF Current
  <2> QED BY <1>1, <2>1 DEF ListStored
<1> QED BY <1>2, <1>3

\* The segments with key files of the list, and of the merges that are not in it, are
\* what the next session holds, once nobody is writing one.
LEMMA RecoveredIsStored ==
  ASSUME IInv, InSession, DOMAIN writing = {}
  PROVE  Recovered = View([i \in 1..Len(Current) |->
                             IF Stored(Current[i]) THEN contents[Current[i]] ELSE NoEntries])
<1> DEFINE g == [r \in Ref |-> IF \E f \in Found : Within(r, f) THEN contents[r] ELSE NoEntries]
           stored == [i \in 1..Len(Current) |->
                        IF Stored(Current[i]) THEN contents[Current[i]] ELSE NoEntries]
<1>1. PICK names \in Seq(Ref) : Grounds(names)
  BY DEF IInv, Session, Grounded
<1>2. /\ Current \in Seq(Ref) /\ Ascending(Current)
      /\ FoundOrder \in Seq(Ref) /\ Ascending(FoundOrder)
      /\ \A q \in 1..Len(FoundOrder) : FoundOrder[q] \in Found
      /\ \A f \in Found : \E q \in 1..Len(FoundOrder) : Within(f, FoundOrder[q])
      /\ Found \subseteq Ref
  BY CurrentFacts, FoundFacts
<1>3. /\ Ascending(names)
      /\ \A i \in 1..Len(Current) :
           /\ Stands(contents, names, Current[i], contents[Current[i]])
           /\ Current[i] \notin onDisk => \E m \in 1..Len(names) : names[m] = Current[i]
      /\ \A l \in Unlisted : Stands(contents, names, l, keys[l])
  BY <1>1, ChainFacts DEF Grounds
<1>4. /\ \A m \in 1..Len(names) : names[m] \in Ref
      /\ \A i \in 1..Len(Current) : Current[i] \in Ref
  BY <1>2
<1>5. Unlisted = left
  BY DEF IInv, Session, WrittenBy, Unlisted
<1>6. /\ \A i \in 1..Len(Current) : Current[i] \in DOMAIN keys => Current[i] \in Found
      /\ left \subseteq Found
      /\ \A f \in Found : \/ f \in left
                          \/ \E i \in 1..Len(Current) :
                               Current[i] \in DOMAIN keys /\ Within(f, Current[i])
      /\ \A q \in 1..Len(FoundOrder) :
           \/ FoundOrder[q] \in left
           \/ \E i \in 1..Len(Current) :
                Current[i] \in DOMAIN keys /\ FoundOrder[q] = Current[i]
  BY <1>5, FoundOfSession
<1>7. \A i \in 1..Len(Current) :
        IF Current[i] \in onDisk
        THEN Current[i] \in DOMAIN keys /\ keys[Current[i]] = contents[Current[i]]
        ELSE Current[i] \notin DOMAIN keys
  BY CurrentStored
\* What is within a segment that would be found.
<1>8. ASSUME NEW f \in Found, NEW r \in Ref, Within(r, f), NEW c,
             Stands(contents, names, r, c)
      PROVE  Stands(g, names, r, c)
  <2>1. ASSUME NEW m \in 1..Len(names), Within(names[m], r)
        PROVE  contents[names[m]] = g[names[m]]
    <3>1. names[m] \in Ref /\ f \in Ref
      BY <1>2, <1>4
    <3>2. Within(names[m], f)
      BY <1>8, <2>1, <3>1, WithinTransitive
    <3> QED BY <3>1, <3>2
  <2> HIDE DEF g
  <2> QED BY <1>3, <1>8, <2>1, StandsOn
<1>9. \A q \in 1..Len(FoundOrder) : Stands(g, names, FoundOrder[q], Stack(keys, FoundOrder)[q])
  <2> TAKE q \in 1..Len(FoundOrder)
  <2>1. Stack(keys, FoundOrder)[q] = keys[FoundOrder[q]]
    BY DEF Stack
  <2>2. FoundOrder[q] \in Found /\ FoundOrder[q] \in Ref /\ Within(FoundOrder[q], FoundOrder[q])
    BY <1>2, WithinItself
  <2>3. Stands(contents, names, FoundOrder[q], keys[FoundOrder[q]])
    <3>1. CASE FoundOrder[q] \in left
      BY <1>3, <1>5, <3>1
    <3>2. CASE FoundOrder[q] \notin left
      BY <1>3, <1>6, <1>7, <3>2
    <3> QED BY <3>1, <3>2
  <2> HIDE DEF g
  <2> QED BY <1>8, <2>1, <2>2, <2>3
<1>10. \A i \in 1..Len(Current) : Stands(g, names, Current[i], stored[i])
  <2> TAKE i \in 1..Len(Current)
  <2>1. stored[i] = IF Stored(Current[i]) THEN contents[Current[i]] ELSE NoEntries
    OBVIOUS
  <2> HIDE DEF stored
  <2>2. Current[i] \in Ref /\ Within(Current[i], Current[i])
    BY <1>4, WithinItself
  <2>3. CASE Current[i] \in onDisk
    <3>1. Current[i] \in Found /\ stored[i] = contents[Current[i]]
      BY <1>6, <1>7, <2>1, <2>3 DEF Stored
    <3> HIDE DEF g
    <3> QED BY <1>3, <1>8, <2>2, <3>1
  <2>4. CASE Current[i] \notin onDisk /\ Stored(Current[i])
    <3>1. PICK l \in left : Within(Current[i], l)
      BY <2>4 DEF Stored
    <3>2. l \in Found /\ stored[i] = contents[Current[i]]
      BY <1>6, <2>1, <2>4
    <3> HIDE DEF g
    <3> QED BY <1>3, <1>8, <2>2, <3>1, <3>2
  <2>5. CASE Current[i] \notin onDisk /\ ~Stored(Current[i])
    <3>1. PICK m \in 1..Len(names) : names[m] = Current[i]
      BY <1>3, <2>5
    <3>2. ASSUME NEW f \in Found, Within(Current[i], f)
          PROVE  FALSE
      <4>1. f \notin left
        BY <2>5, <3>2 DEF Stored
      <4>2. PICK j \in 1..Len(Current) : Current[j] \in DOMAIN keys /\ Within(f, Current[j])
        BY <1>6, <4>1
      <4>3. Within(Current[i], Current[j])
        BY <1>2, <1>4, <3>2, <4>2, WithinTransitive
      <4>4. i = j
        BY <1>2, <4>3, AscendingApart
      <4> QED BY <1>7, <2>5, <4>2, <4>4
    <3>3. g[names[m]] = NoEntries
      BY <2>2, <3>1, <3>2
    <3> HIDE DEF g
    <3>4. Stands(g, names, names[m], g[names[m]])
      BY <1>3, StandsItself
    <3> QED BY <2>1, <2>5, <3>1, <3>3, <3>4
  <2> QED BY <2>3, <2>4, <2>5
<1>11. ASSUME NEW m \in 1..Len(names)
       PROVE  /\ g[names[m]] = NoEntries
                   \/ \E q \in 1..Len(FoundOrder) : Within(names[m], FoundOrder[q])
              /\ g[names[m]] = NoEntries
                   \/ \E i \in 1..Len(Current) : Within(names[m], Current[i])
  <2>1. CASE ~\E f \in Found : Within(names[m], f)
    BY <1>4, <2>1
  <2>2. ASSUME NEW f \in Found, Within(names[m], f)
        PROVE  /\ \E q \in 1..Len(FoundOrder) : Within(names[m], FoundOrder[q])
               /\ \E i \in 1..Len(Current) : Within(names[m], Current[i])
    <3>1. PICK q \in 1..Len(FoundOrder) : Within(f, FoundOrder[q])
      BY <1>2
    <3>2. names[m] \in Ref /\ f \in Ref /\ FoundOrder[q] \in Ref
      BY <1>2, <1>4
    <3>3. Within(names[m], FoundOrder[q])
      BY <2>2, <3>1, <3>2, WithinTransitive
    <3>4. PICK j \in 1..Len(Chain) : Within(names[m], Chain[j])
      BY <1>1 DEF Grounds
    <3>5. CASE j \in 1..Len(Current)
      <4>1. Chain[j] = Current[j]
        BY <3>5, ChainFacts
      <4> QED BY <3>3, <3>4, <3>5, <4>1
    <3>6. CASE j \notin 1..Len(Current)
      <4>1. f \in Mentioned /\ names[m][1] <= names[m][2]
        BY <1>3, FoundFacts DEF Ascending
      <4> QED BY <2>2, <3>2, <3>4, <3>6, <4>1, BeyondCurrent
    <3> QED BY <3>5, <3>6
  <2> QED BY <2>1, <2>2
<1> HIDE DEF g
<1>12. Recovered = View(Stack(g, names))
  <2>1. Len(Stack(keys, FoundOrder)) = Len(FoundOrder)
    BY <1>2, StackProperties
  <2>2. View(Stack(keys, FoundOrder)) = View(Stack(g, names))
    BY <1>2, <1>3, <1>9, <1>11, <2>1, ListShowsNames
  <2> QED BY <1>2, <2>2, RecoveredStack
<1>13. View(stored) = View(Stack(g, names))
  <2>1. Len(stored) = Len(Current)
    BY <1>2, LenProperties
  <2> HIDE DEF stored
  <2> QED BY <1>2, <1>3, <1>10, <1>11, <2>1, ListShowsNames
<1> QED BY <1>12, <1>13

\* Nobody merges or writes while files are deleted.
LEMMA QuietWhileDeleting ==
  ASSUME IInv, pc \in {"opening", "deleting"}
  PROVE  /\ merge = NoMerge /\ DOMAIN writing = {} /\ Planned = deleted
         /\ Current = segments /\ memory = Null /\ Chain = segments /\ Unlisted = left
<1>1. merge = NoMerge /\ memory = Null
  BY DEF IInv, InSession, Session, BetweenSessions, MergeInv, MemoryInv
<1>2. merge.pc = "none" /\ merge.lines = <<>>
  BY <1>1, EmptyFacts
<1>3. DOMAIN writing = {}
  <2>1. CASE pc = "opening"
    BY <2>1, EmptyFacts DEF IInv, InSession, BetweenSessions
  <2>2. CASE pc = "deleting"
    BY <1>2, <2>2 DEF IInv, InSession, Session, WrittenBy
  <2> QED BY <2>1, <2>2
<1> QED BY <1>1, <1>2, <1>3, ListedIsPlanned DEF Current, Chain, Unlisted

LEMMA CloseDoneStep == IInv /\ CloseDone => IInv'
<1> SUFFICES ASSUME IInv, CloseDone PROVE IInv'
  OBVIOUS
<1>1. pc = "deleting" /\ InSession
  BY DEF CloseDone, InSession
<1>2. /\ DOMAIN writing = {} /\ Current = segments /\ Chain = segments
  BY <1>1, QuietWhileDeleting
<1>3. \A i \in 1..Len(segments) :
        Stored(segments[i]) \/ contents[segments[i]] = NoEntries
  BY <1>1 DEF IInv, Session, AllWritten, Unwritten, Members, Stored
<1>4. [i \in 1..Len(Current) |->
         IF Stored(Current[i]) THEN contents[Current[i]] ELSE NoEntries]
        = Stack(contents, Chain)
  BY <1>2, <1>3 DEF Stack
<1>5. Recovered = map
  BY <1>1, <1>2, <1>4, RecoveredIsStored DEF IInv, Session, MapIsHeld
<1>6. clean' \in BOOLEAN /\ crashes' \in 0..MaxCrashes
  <2>1. clean' \in BOOLEAN
    BY DEF CloseDone
  <2>2. crashes' \in 0..MaxCrashes
    BY DEF CloseDone, IInv, Types, TypeOK
  <2> QED BY <2>1, <2>2
<1> QED BY <1>5, <1>6, EndedStep DEF CloseDone, files

-----------------------------------------------------------------------------
(* The list "deleted".                                                     *)

\* What the segments of the next state are held against.
LEMMA GroundsNext ==
  ASSUME NEW names \in Seq(Ref), Ascending(names),
         \A m \in 1..Len(names) : names[m] \in DOMAIN contents',
         \A i \in 1..Len(Chain') :
           /\ Stands(contents', names, Chain'[i], contents'[Chain'[i]])
           /\ Chain'[i] \notin onDisk' => \E m \in 1..Len(names) : names[m] = Chain'[i],
         \A m \in 1..Len(names) : \E i \in 1..Len(Chain') : Within(names[m], Chain'[i]),
         \A l \in Unlisted' : Stands(contents', names, l, keys'[l])
  PROVE  Grounded'
<1>1. Grounds(names)'
  BY DEF Grounds
<1> QED BY <1>1 DEF Grounded

\* Most steps change no contents: only a merge that has just got a key file is new to
\* what the segments are held against.
LEMMA GroundsSame ==
  ASSUME NEW names \in Seq(Ref), Grounds(names),
         Chain' = Chain, contents' = contents, onDisk \subseteq onDisk',
         \A l \in Unlisted' : \/ l \in Unlisted /\ keys'[l] = keys[l]
                              \/ Stands(contents, names, l, keys'[l])
  PROVE  Grounded'
<1>1. /\ Ascending(names) /\ \A m \in 1..Len(names) : names[m] \in DOMAIN contents'
      /\ \A m \in 1..Len(names) : \E i \in 1..Len(Chain') : Within(names[m], Chain'[i])
  BY DEF Grounds
<1>2. \A i \in 1..Len(Chain') :
        /\ Stands(contents', names, Chain'[i], contents'[Chain'[i]])
        /\ Chain'[i] \notin onDisk' => \E m \in 1..Len(names) : names[m] = Chain'[i]
  BY DEF Grounds
<1>3. \A l \in Unlisted' : Stands(contents', names, l, keys'[l])
  BY DEF Grounds
<1> QED BY <1>1, <1>2, <1>3, GroundsNext

\* When files that the list names disappear.
LEMMA FilesRemoved ==
  ASSUME IInv, pc \in {"opening", "deleting"},
         UNCHANGED <<tmp, pc, session, writing, merge, limit, err, history>>,
         keys' \in [DOMAIN keys' -> Content], data' \subseteq data,
         DOMAIN keys' \subseteq DOMAIN keys, \A r \in DOMAIN keys' : keys'[r] = keys[r],
         left \subseteq DOMAIN keys',
         \A i \in 1..Len(segments) :
           /\ segments[i] \in DOMAIN keys => segments[i] \in DOMAIN keys'
           /\ segments[i] \in data => segments[i] \in data',
         Found' = Found, deleted' \in {deleted, <<>>},
         KeysHaveData'
  PROVE  IInv'
<1> USE DEF session, history
<1>1. /\ merge = NoMerge /\ DOMAIN writing = {} /\ Planned = deleted
      /\ Current = segments /\ Chain = segments /\ memory = Null /\ Unlisted = left
  BY QuietWhileDeleting
<1>2. deleted' \in Seq(File)
  BY TypeFacts, EmptyFacts
<1>3. Types'
  <2>1. /\ DOMAIN keys' \subseteq Ref /\ data' \subseteq Ref
        /\ IsFiniteSet(DOMAIN keys') /\ \A r \in DOMAIN keys' : r[1] <= r[2]
    BY TypeFacts, FS_Subset
  <2>2. \A r \in DOMAIN keys' : keys'[r] \in Content
    OBVIOUS
  <2>3. TypeOK
    BY DEF IInv, Types
  <2>4. TypeOK'
    BY <1>2, <2>1, <2>2, <2>3 DEF TypeOK
  <2>5. Types
    BY DEF IInv
  <2> QED BY <2>1, <2>4, <2>5 DEF Types
<1>4. /\ Planned' = deleted' /\ Current' = Current /\ Chain' = Chain /\ Unlisted' = left
      /\ Target' = Target
  <2>1. merge'.lines = <<>> /\ merge'.pc = "none" /\ merge.pc = "none"
    BY <1>1, EmptyFacts
  <2>2. Planned' = deleted'
    BY <1>2, <2>1, ConcatEmptySeq DEF Planned
  <2>3. Current' = Current /\ Unlisted' = left /\ Target' = Target
    BY <2>1 DEF Current, Unlisted, Target
  <2> QED BY <2>2, <2>3 DEF Chain
<1>5. KeysFirst(deleted) /\ KeysFirst(<<>>) /\ Refs(<<>>) = {}
  <2>1. KeysFirst(deleted)
    BY ListedIsPlanned
  <2>2. KeysFirst(<<>>) /\ Refs(<<>>) = {}
    BY EmptyFacts DEF KeysFirst, Refs, Members
  <2> QED BY <2>1, <2>2
<1>6. KeysListedFirst'
  BY <1>4, <1>5 DEF KeysListedFirst
<1>7. Refs(Planned)' \subseteq Refs(Planned)
  BY <1>1, <1>4, <1>5
<1>8. Mentioned' \subseteq Mentioned
  BY <1>7 DEF Mentioned
<1>9. CASE pc = "opening"
  <2>1. BetweenSessions
    BY <1>9 DEF IInv, InSession
  <2>2. FoundOrder' = FoundOrder /\ Recovered' = Recovered
    <3>1. \A r \in Found : keys'[r] = keys[r]
      <4>1. Found' \subseteq DOMAIN keys'
        BY DEF Found
      <4> QED BY <4>1
    <3> QED BY <3>1, FoundSame
  <2>3. FoundCovers'
    BY <1>8, <2>1, <2>2 DEF BetweenSessions, FoundCovers
  <2>4. BetweenSessions'
    BY <2>1, <2>2, <2>3 DEF BetweenSessions
  <2> QED BY <1>3, <1>6, <1>9, <2>4 DEF IInv, InSession
<1>10. CASE pc = "deleting"
  <2>1. Session
    BY <1>10 DEF IInv, InSession
  <2>2. ListCovers'
    BY <1>1, <1>4, <1>8, <2>1 DEF Session, ListCovers
  <2>3. NotPlanned'
    BY <1>4, <1>7, <2>1 DEF Session, NotPlanned
  <2>4. UnlistedKept'
    BY <1>1, <1>4, <1>7, <1>10, <2>1 DEF Session, UnlistedKept
  <2>5. ListStored'
    <3> SUFFICES ASSUME NEW i \in 1..Len(segments)
                 PROVE  IF segments[i] \in onDisk
                        THEN /\ segments[i] \in DOMAIN keys' /\ segments[i] \in data'
                             /\ keys'[segments[i]] = contents[segments[i]]
                        ELSE /\ segments[i] \notin data'
                             /\ segments[i] \notin DOMAIN keys'
      BY DEF ListStored
    <3>1. CASE segments[i] \in onDisk
      BY <2>1, <3>1 DEF Session, ListStored
    <3>2. CASE segments[i] \notin onDisk
      BY <1>1, <2>1, <3>2 DEF Session, ListStored
    <3> QED BY <3>1, <3>2
  <2>6. FilesWritten'
    BY <1>1 DEF FilesWritten
  <2>7. WrittenBy' /\ MergeInv' /\ MemoryInv' /\ MapIsHeld' /\ AllWritten' /\ ~clean'
    <3>1. merge.pc = "none" /\ merge.lines = <<>>
      BY <1>1, EmptyFacts
    <3>2. MergeInv' /\ MemoryInv' /\ ~clean'
      BY <1>1, <2>1, <3>1 DEF Session, MergeInv, MemoryInv
    <3>3. MapIsHeld'
      BY <1>4, <2>1 DEF Session, MapIsHeld
    <3>4. AllWritten'
      BY <2>1 DEF Session, AllWritten, Unwritten
    <3>5. WrittenBy'
      BY <1>1, EmptyFacts DEF WrittenBy
    <3> QED BY <3>2, <3>3, <3>4, <3>5
  <2>8. Grounded'
    <3>1. PICK names \in Seq(Ref) : Grounds(names)
      BY <2>1 DEF Session, Grounded
    <3> QED BY <1>1, <1>4, <3>1, GroundsSame
  <2> QED BY <1>3, <1>6, <1>10, <2>2, <2>3, <2>4, <2>5, <2>6, <2>7, <2>8
          DEF IInv, InSession, Session
<1> QED BY <1>9, <1>10

LEMMA DeleteScheduledStep == IInv /\ DeleteScheduled => IInv'
<1> SUFFICES ASSUME IInv, DeleteScheduled PROVE IInv'
  OBVIOUS
<1>1. /\ pc \in {"opening", "deleting"}
      /\ UNCHANGED <<tmp, deleted, pc, session, writing, merge, limit, err, history>>
  BY DEF DeleteScheduled
<1>2. PICK i \in 1..Len(deleted) :
        /\ \A j \in 1..(i - 1) : ~Exists(deleted[j])
        /\ RemoveFile(deleted[i])
  BY DEF DeleteScheduled
<1> DEFINE f == deleted[i]
           r == f[2]
<1>3. f \in File /\ f[1] \in {"keys", "data"} /\ f = <<f[1], r>> /\ f \in Listed
  <2>1. f \in File
    BY TypeFacts
  <2> QED BY <2>1, FileType DEF Listed, Members
<1>4. r \in Refs(Planned)
  BY <1>3, ListedIsPlanned
<1>5. Planned = deleted /\ Chain = segments /\ Unlisted = left
  BY <1>1, QuietWhileDeleting
<1> HIDE DEF f, r
<1>6. r \notin left /\ \A j \in 1..Len(segments) : segments[j] # r
  <2>1. CASE pc = "deleting"
    BY <1>4, <1>5, <2>1, QuietWhileDeleting
       DEF IInv, InSession, Session, NotPlanned, UnlistedKept
  <2>2. CASE pc = "opening"
    BY <2>2 DEF IInv, InSession, BetweenSessions
  <2> QED BY <1>1, <2>1, <2>2
<1>7. CASE f[1] = "keys"
  <2>1. keys' = [y \in DOMAIN keys \ {r} |-> keys[y]] /\ data' = data
    BY <1>2, <1>7 DEF RemoveFile, Without, f, r
  <2>2. /\ DOMAIN keys' = DOMAIN keys \ {r} /\ \A y \in DOMAIN keys' : keys'[y] = keys[y]
        /\ keys' \in [DOMAIN keys' -> Content]
    BY <2>1, TypeFacts
  <2>3. Found' = Found
    BY <1>1, <1>3, <1>7, <2>2 DEF Found, Listed
  <2>4. KeysHaveData'
    BY <1>1, <2>1, <2>2 DEF IInv, KeysHaveData
  <2>5. left \subseteq DOMAIN keys'
    BY <1>6, <2>2, TypeFacts
  <2> QED BY <1>1, <1>6, <2>1, <2>2, <2>3, <2>4, <2>5, FilesRemoved
<1>8. CASE f[1] = "data"
  <2>1. data' = data \ {r} /\ keys' = keys
    BY <1>2, <1>8 DEF RemoveFile, f, r
  <2>2. r \notin DOMAIN keys
    <3>1. PICK j \in 1..(i - 1) : deleted[j] = <<"keys", r>>
      BY <1>5, <1>8 DEF IInv, KeysListedFirst, KeysFirst, f, r
    <3>2. ~Exists(<<"keys", r>>)
      BY <1>2, <3>1
    <3> QED BY <3>2 DEF Exists
  <2>3. Found' = Found
    BY <1>1, <2>1 DEF Found, Listed
  <2>4. KeysHaveData'
    BY <1>1, <2>1, <2>2 DEF IInv, KeysHaveData
  <2>5. left \subseteq DOMAIN keys'
    BY <2>1, TypeFacts
  <2> QED BY <1>1, <1>6, <2>1, <2>3, <2>4, <2>5, TypeFacts, FilesRemoved
<1> QED BY <1>3, <1>7, <1>8

LEMMA RemoveListStep == IInv /\ RemoveList => IInv'
<1> SUFFICES ASSUME IInv, RemoveList PROVE IInv'
  OBVIOUS
<1>1. /\ pc \in {"opening", "deleting"} /\ ListDone /\ deleted' = <<>>
      /\ UNCHANGED <<keys, data, tmp, pc, session, writing, merge, limit, err, history>>
  BY DEF RemoveList
<1>2. \A r \in DOMAIN keys : <<"keys", r>> \notin Listed
  BY <1>1 DEF ListDone, Exists
<1>3. Found' = Found
  BY <1>1, <1>2 DEF Found, Listed, Members
<1>4. KeysHaveData'
  BY <1>1 DEF IInv, KeysHaveData
<1>5. left \subseteq DOMAIN keys'
  BY <1>1, TypeFacts
<1> QED BY <1>1, <1>3, <1>4, <1>5, TypeFacts, FilesRemoved

-----------------------------------------------------------------------------
(* openImpl.                                                               *)

LEMMA MaxUpperFacts ==
  ASSUME NEW list \in Seq(Ref), Ascending(list)
  PROVE  /\ MaxUpper(Members(list)) \in Nat
         /\ \A i \in 1..Len(list) : list[i][2] <= MaxUpper(Members(list))
<1>1. CASE Len(list) = 0
  <2>1. Members(list) = {}
    BY <1>1 DEF Members
  <2> QED BY <1>1, <2>1 DEF MaxUpper
<1>2. CASE Len(list) # 0
  <2> DEFINE n == Len(list)
             uppers == {r[2] : r \in Members(list)}
  <2>1. n \in 1..n /\ n \in Nat
    BY <1>2
  <2>2. list[n][2] \in uppers /\ list[n][2] \in Nat
    BY <2>1, AscendingPositions DEF Members
  <2>3. \A i \in 1..n : list[i][2] <= list[n][2] /\ list[i][2] \in Nat
    BY <2>1, AscendingPositions
  <2>4. \A u \in uppers : u <= list[n][2] /\ u \in Nat
    BY <2>3 DEF Members
  <2> HIDE DEF uppers
  <2>5. MaxOf(uppers) \in uppers /\ \A u \in uppers : u <= MaxOf(uppers)
    BY <2>2, <2>4 DEF MaxOf
  <2>6. Members(list) # {} /\ MaxUpper(Members(list)) = MaxOf(uppers)
    BY <2>1 DEF MaxUpper, uppers, Members
  <2>7. \A i \in 1..n : list[i][2] \in uppers
    BY DEF uppers, Members
  <2> QED BY <2>4, <2>5, <2>6, <2>7
<1> QED BY <1>1, <1>2

LEMMA AppendAscending ==
  ASSUME NEW list \in Seq(Ref), Ascending(list), NEW n \in Nat,
         \A i \in 1..Len(list) : list[i][2] < n
  PROVE  Append(list, <<n, n>>) \in Seq(Ref) /\ Ascending(Append(list, <<n, n>>))
<1> DEFINE r == <<n, n>>
           more == Append(list, r)
<1>1. r \in Ref /\ r[1] = n /\ r[2] = n
  BY DEF Ref
<1> HIDE DEF r
<1>2. /\ more \in Seq(Ref) /\ Len(more) = Len(list) + 1 /\ Len(list) \in Nat
      /\ \A i \in 1..Len(list) : more[i] = list[i]
      /\ more[Len(list) + 1] = r
  BY <1>1, AppendProperties
<1> HIDE DEF more
<1>3. \A i \in 1..Len(more) : i \in 1..Len(list) \/ i = Len(list) + 1
  BY <1>2
<1>4. \A i \in 1..Len(more) : more[i][1] <= more[i][2]
  BY <1>1, <1>2, <1>3 DEF Ascending
<1>5. ASSUME NEW i \in 1..Len(more), NEW j \in 1..Len(more), i < j
      PROVE  more[i][1] < more[j][1] /\ more[i][2] < more[j][2]
  <2>1. i \in 1..Len(list)
    BY <1>2, <1>5
  <2>2. CASE j \in 1..Len(list)
    BY <1>2, <1>5, <2>1, <2>2 DEF Ascending
  <2>3. CASE j = Len(list) + 1
    <3>1. list[i][1] \in Nat /\ list[i][2] \in Nat /\ list[i][1] <= list[i][2] /\ list[i][2] < n
      BY <2>1, AscendingPositions
    <3> QED BY <1>1, <1>2, <2>1, <2>3, <3>1
  <2> QED BY <1>3, <2>2, <2>3
<1> QED BY <1>2, <1>4, <1>5 DEF Ascending, more, r

LEMMA LoadStep == IInv /\ Load => IInv'
<1> SUFFICES ASSUME IInv, Load PROVE IInv'
  OBVIOUS
<1> DEFINE id == MaxUpper(Members(FoundOrder)) + 1
           found == Members(FoundOrder)
           new == Append(FoundOrder, <<id, id>>)
<1>1. /\ pc = "opening" /\ deleted = <<>> /\ Loadable /\ id <= MaxSegID
      /\ segments' = FoundOrder
      /\ memory' = <<id, id>>
      /\ contents' = [r \in found \cup {<<id, id>>} |->
                        IF r = <<id, id>> THEN NoEntries ELSE keys[r]]
      /\ onDisk' = found /\ nextSegID' = id
      /\ pc' = "open" /\ map' = Recovered /\ clean' = FALSE /\ limit' = MaxSegments
      /\ UNCHANGED <<keys, data, tmp, deleted, left, writing, merge, err, crashes>>
  BY DEF Load, files
<1>2. BetweenSessions
  BY <1>1 DEF IInv, InSession
<1>3. /\ FoundOrder \in Seq(Ref) /\ Ascending(FoundOrder) /\ Len(FoundOrder) \in Nat
      /\ \A i \in 1..Len(FoundOrder) : FoundOrder[i] \in Found /\ FoundOrder[i] \in Ref
      /\ \A r \in Mentioned : \E i \in 1..Len(FoundOrder) : Within(r, FoundOrder[i])
      /\ Found \subseteq DOMAIN keys
  BY <1>2, FoundFacts DEF BetweenSessions, FoundCovers
<1>4. /\ id \in Nat /\ \A i \in 1..Len(FoundOrder) : FoundOrder[i][2] < id
  <2>1. \A i \in 1..Len(FoundOrder) : FoundOrder[i][2] \in Nat
    BY <1>3, AscendingPositions
  <2> QED BY <1>3, <2>1, MaxUpperFacts
<1> HIDE DEF id
<1>5. <<id, id>> \in Ref /\ <<id, id>> \notin found /\ <<id, id>> # Null
  <2>1. <<id, id>> \in Ref
    BY <1>4 DEF Ref
  <2>2. \A i \in 1..Len(FoundOrder) : FoundOrder[i] # <<id, id>>
    BY <1>4
  <2> QED BY <2>1, <2>2, RecoveryAssumption DEF Members
<1>6. \A r \in DOMAIN keys : r \in data /\ r \in Found
  BY <1>1 DEF Loadable, Found, Listed, Members
<1>7. found \subseteq DOMAIN keys /\ found \subseteq Ref
  BY <1>3 DEF Members
<1>8. /\ DOMAIN contents' = found \cup {<<id, id>>}
      /\ \A r \in found : contents'[r] = keys[r]
      /\ contents'[<<id, id>>] = NoEntries
      /\ contents' \in [DOMAIN contents' -> Content]
  <2>1. NoEntries \in Content
    BY DEF NoEntries, Content, Entry
  <2>2. \A r \in found : keys[r] \in Content
    BY <1>7, TypeFacts
  <2> QED BY <1>1, <1>5, <2>1, <2>2
<1>9. merge = NoMerge /\ DOMAIN writing = {} /\ left = {}
  BY <1>2, EmptyFacts DEF BetweenSessions
<1>10. /\ Planned' = <<>> /\ Refs(Planned)' = {}
       /\ Current' = FoundOrder /\ Chain' = new /\ Unlisted' = {}
  <2>1. merge'.pc = "none" /\ merge'.lines = <<>>
    BY <1>1, <1>9, EmptyFacts
  <2>2. Planned' = <<>>
    BY <1>1, <2>1, EmptyFacts, ConcatEmptySeq DEF Planned
  <2>3. Refs(Planned)' = {}
    BY <2>2, EmptyFacts DEF Refs, Members
  <2>4. Current' = FoundOrder /\ Unlisted' = {}
    BY <1>1, <1>9, <2>1 DEF Current, Unlisted
  <2>5. Chain' = new
    BY <1>1, <1>5, <2>4 DEF Chain
  <2> QED BY <2>2, <2>3, <2>4, <2>5
<1>11. Types'
  <2>1. /\ segments' \in Seq(Ref) /\ Ascending(segments') /\ memory' \in Ref
        /\ DOMAIN contents' \subseteq Ref /\ onDisk' \subseteq DOMAIN contents'
        /\ \A r \in DOMAIN contents' : contents'[r] \in Content
    BY <1>1, <1>3, <1>5, <1>7, <1>8
  <2>2. nextSegID' \in 0..MaxSegID /\ limit' \in Nat
    BY <1>1, <1>4, EmptyFacts, RecoveryAssumption
  <2>3. map' \in [Key -> Value \cup {Empty}]
    BY <1>1, ViewType DEF Recovered
  <2>4. clean' \in BOOLEAN /\ err' = err
    BY <1>1
  <2>5. TypeOK
    BY DEF IInv, Types
  <2>6. TypeOK'
    BY <1>1, <2>1, <2>2, <2>3, <2>4, <2>5 DEF TypeOK
  <2>7. Types
    BY DEF IInv
  <2> QED BY <1>1, <1>8, <2>6, <2>7 DEF Types
<1>12. KeysHaveData' /\ KeysListedFirst'
  BY <1>1, <1>6, <1>10, EmptyFacts DEF KeysHaveData, KeysListedFirst, KeysFirst
<1>13. ListCovers'
  <2>1. Mentioned' \subseteq Mentioned
    BY <1>1, <1>7, <1>10 DEF Mentioned
  <2> QED BY <1>1, <1>3, <1>10, <2>1 DEF ListCovers
<1>14. NotPlanned' /\ UnlistedKept'
  BY <1>10 DEF NotPlanned, UnlistedKept
<1>15. ListStored'
  <2> SUFFICES ASSUME NEW i \in 1..Len(FoundOrder)
               PROVE  /\ FoundOrder[i] \in onDisk' /\ FoundOrder[i] \in DOMAIN keys
                      /\ FoundOrder[i] \in data
                      /\ keys[FoundOrder[i]] = contents'[FoundOrder[i]]
    BY <1>1 DEF ListStored
  <2>1. FoundOrder[i] \in found
    BY DEF Members
  <2> QED BY <1>1, <1>6, <1>7, <1>8, <2>1
<1>16. FilesWritten' /\ WrittenBy'
  BY <1>1, <1>9, EmptyFacts DEF FilesWritten, WrittenBy
<1>17. MergeInv' /\ AllWritten'
  BY <1>1, <1>9, EmptyFacts DEF MergeInv, AllWritten
<1>18. MemoryInv'
  BY <1>1, <1>4, <1>8 DEF MemoryInv, Members
<1>19. /\ new \in Seq(Ref) /\ Len(new) = Len(FoundOrder) + 1
       /\ \A i \in 1..Len(FoundOrder) : new[i] = FoundOrder[i]
       /\ new[Len(FoundOrder) + 1] = <<id, id>>
       /\ Ascending(new)
  BY <1>3, <1>4, <1>5, AppendProperties, AppendAscending
<1> HIDE DEF new
<1>20. MapIsHeld'
  <2>2. /\ Len(Stack(contents', new)) = Len(FoundOrder) + 1
        /\ \A i \in 1..(Len(FoundOrder) + 1) : Stack(contents', new)[i] = contents'[new[i]]
    BY <1>19, StackProperties
  <2>3. /\ Len(Stack(keys, FoundOrder)) = Len(FoundOrder)
        /\ \A i \in 1..Len(FoundOrder) : Stack(keys, FoundOrder)[i] = keys[FoundOrder[i]]
    BY <1>3, StackProperties
  <2>4. \A i \in 1..Len(FoundOrder) : Stack(contents', new)[i] = Stack(keys, FoundOrder)[i]
    <3> TAKE i \in 1..Len(FoundOrder)
    <3>1. FoundOrder[i] \in found /\ i \in 1..(Len(FoundOrder) + 1)
      BY <1>3 DEF Members
    <3> QED BY <1>8, <1>19, <2>2, <2>3, <3>1
  <2>5. Stack(contents', new)[Len(FoundOrder) + 1] = NoEntries
    <3>1. Len(FoundOrder) + 1 \in 1..(Len(FoundOrder) + 1)
      BY <1>3
    <3> QED BY <1>8, <1>19, <2>2, <3>1
  <2>6. View(Stack(contents', new)) = View(Stack(keys, FoundOrder))
    BY ONLY <1>3, <2>2, <2>3, <2>4, <2>5, ViewWithEmptyTop
  <2> QED BY <1>1, <1>3, <1>10, <2>6, RecoveredStack DEF MapIsHeld
\* Each segment of the new session stands for itself.
<1>21. Grounded'
  <2>1. \A i \in 1..Len(new) : new[i] \in Ref
    BY <1>19
  <2>2. \A i \in 1..Len(new) : Stands(contents', new, new[i], contents'[new[i]])
    BY <1>19, StandsItself
  <2>3. \A m \in 1..Len(new) : Within(new[m], new[m])
    BY <2>1, WithinItself
  <2>4. \A m \in 1..Len(new) : new[m] \in DOMAIN contents'
    BY <1>3, <1>8, <1>19 DEF Members
  <2> QED BY <1>10, <1>19, <2>2, <2>3, <2>4, GroundsNext
<1> QED BY <1>1, <1>11, <1>12, <1>13, <1>14, <1>15, <1>16, <1>17, <1>18, <1>20, <1>21
        DEF IInv, InSession, Session

-----------------------------------------------------------------------------
(* writeAndLoadSegment.                                                    *)

\* What a step on files alone leaves as it is.
LEMMA SessionSame ==
  ASSUME IInv, InSession, UNCHANGED <<pc, session, writing, merge, map, clean>>,
         DOMAIN keys \subseteq DOMAIN keys', \A r \in DOMAIN keys : keys'[r] = keys[r],
         data \subseteq data'
  PROVE  /\ WrittenBy' /\ MergeInv' /\ MemoryInv' /\ MapIsHeld' /\ AllWritten' /\ ~clean'
         /\ Current' = Current /\ Chain' = Chain /\ Target' = Target
<1> USE DEF session
<1>1. Target' = Target /\ Current' = Current /\ Chain' = Chain /\ Unwritten' = Unwritten
  BY DEF Target, Current, Chain, Unwritten
<1>2. Stack(contents, merge.slice)' = Stack(contents, merge.slice)
  BY DEF Stack
<1>3. Session
  BY DEF IInv
<1>4. WrittenBy'
  BY <1>1, <1>2, <1>3 DEF Session, WrittenBy
<1>5. MergeInv'
  <2>1. /\ merge'.pc = "none" => merge' = NoMerge
        /\ merge'.pc # "none" =>
             /\ pc' \in {"open", "closing"}
             /\ IsSlice(segments', merge'.start, merge'.slice) /\ Len(merge'.slice) >= 2
        /\ merge'.pc # "schedule" => merge'.lines = <<>>
    BY <1>3 DEF Session, MergeInv
  <2>2. ASSUME merge.pc \in {"schedule", "publish"}
        PROVE  /\ Target \in onDisk /\ Target \in DOMAIN keys' /\ Target \in data'
               /\ keys'[Target] = contents[Target]
               /\ contents[Target] = Merged(Stack(contents, merge.slice), merge.start = 1)
    BY <1>3, <2>2 DEF Session, MergeInv
  <2> QED BY <1>1, <1>2, <2>1, <2>2 DEF MergeInv
<1>6. MemoryInv' /\ MapIsHeld' /\ AllWritten' /\ ~clean'
  BY <1>1, <1>3 DEF Session, MemoryInv, MapIsHeld, AllWritten, Stack
<1> QED BY <1>1, <1>4, <1>5, <1>6

LEMMA WritingInSession ==
  ASSUME IInv, DOMAIN writing # {}
  PROVE  InSession /\ Session
BY EmptyFacts DEF IInv, BetweenSessions

\* A flush writes a segment of the list, and no merge is under way.
LEMMA FlushingFacts ==
  ASSUME IInv, InSession, merge.pc # "write", NEW t \in DOMAIN writing
  PROVE  /\ pc = "flushing" /\ merge = NoMerge /\ merge.pc = "none"
         /\ t \in Unwritten /\ writing[t] = contents[t]
         /\ Current = segments /\ Planned = deleted /\ Unlisted = left
         /\ t[1] <= t[2]
         /\ \E i \in 1..Len(segments) : segments[i] = t
<1>1. pc = "flushing" /\ t \in Unwritten /\ writing[t] = contents[t]
  BY DEF IInv, Session, WrittenBy
<1>2. merge = NoMerge /\ merge.pc = "none" /\ merge.lines = <<>>
  BY <1>1, EmptyFacts DEF IInv, Session, MergeInv
<1>3. Current = segments /\ Unlisted = left
  BY <1>2 DEF Current, Unlisted
<1>4. \E i \in 1..Len(segments) : segments[i] = t
  BY <1>1 DEF Unwritten, Members
<1>5. t[1] <= t[2]
  BY <1>4, TypeFacts DEF Ascending
<1> QED BY <1>1, <1>2, <1>3, <1>4, <1>5, ListedIsPlanned

LEMMA ChainAscends ==
  ASSUME IInv, InSession
  PROVE  Chain \in Seq(Ref) /\ Ascending(Chain)
<1>1. Current \in Seq(Ref) /\ Ascending(Current)
  BY CurrentFacts
<1>2. CASE memory = Null
  BY <1>1, <1>2 DEF Chain
<1>3. CASE memory # Null
  <2>1. pc = "open"
    BY <1>3 DEF IInv, Session, MemoryInv
  <2>2. /\ nextSegID \in Nat /\ memory = <<nextSegID, nextSegID>>
        /\ \A i \in 1..Len(Current) : Current[i][2] < nextSegID
    BY <2>1, MemoryApart
  <2> QED BY <1>1, <1>3, <2>2, AppendAscending DEF Chain
<1> QED BY <1>2, <1>3

\* A merge of the list is one of the list with the memory segment on top.
LEMMA ChainSpliced ==
  ASSUME IInv, InSession, merge.pc = "write"
  PROVE  LET new == Splice(segments, merge.start, merge.slice, Target)
         IN  /\ IsSlice(Chain, merge.start, merge.slice)
             /\ Splice(Chain, merge.start, merge.slice, Target)
                  = IF memory = Null THEN new ELSE Append(new, memory)
<1>1. /\ segments \in Seq(Ref) /\ merge.slice \in Seq(Ref) /\ Target \in Ref
      /\ IsSlice(segments, merge.start, merge.slice) /\ Current = segments
  BY TypeFacts, SliceFacts DEF Current
<1>2. CASE memory = Null
  BY <1>1, <1>2 DEF Chain
<1>3. CASE memory # Null
  <2>1. memory \in Ref
    BY <1>3, ChainFacts
  <2>2. /\ IsSlice(Append(segments, memory), merge.start, merge.slice)
        /\ Append(Splice(segments, merge.start, merge.slice, Target), memory)
             = Splice(Append(segments, memory), merge.start, merge.slice, Target)
    BY ONLY <1>1, <2>1, SpliceAppend
  <2> QED BY <1>1, <1>3, <2>2 DEF Chain
<1> QED BY <1>2, <1>3

\* What a merge writes stands for the range of its name.
LEMMA TargetStands ==
  ASSUME IInv, InSession, merge.pc = "write", NEW names \in Seq(Ref), Grounds(names)
  PROVE  Stands(contents, names, Target, Merged(Stack(contents, merge.slice), merge.start = 1))
<1>1. /\ segments \in Seq(Ref) /\ merge.slice \in Seq(Ref) /\ Target \in Ref
      /\ IsSlice(segments, merge.start, merge.slice) /\ Current = segments
  BY TypeFacts, SliceFacts DEF Current
<1>2. Chain \in Seq(Ref) /\ Ascending(Chain)
  BY ChainAscends
<1>3. IsSlice(Chain, merge.start, merge.slice)
  BY ChainSpliced
<1>4. /\ Ascending(names)
      /\ \A i \in 1..Len(Chain) : Stands(contents, names, Chain[i], contents[Chain[i]])
      /\ \A m \in 1..Len(names) : \E i \in 1..Len(Chain) : Within(names[m], Chain[i])
  BY DEF Grounds
<1> DEFINE start == merge.start
           slice == merge.slice
           purge == merge.start = 1
<1>5. purge => start = 1
  OBVIOUS
<1>6. slice \in Seq(Ref) /\ IsSlice(Chain, start, slice)
  BY <1>1, <1>3
<1> HIDE DEF start, slice, purge
<1>7. Stands(contents, names, TargetOf(slice), Merged(Stack(contents, slice), purge))
  BY <1>2, <1>4, <1>5, <1>6, MergeStands
<1> QED BY <1>7 DEF start, slice, purge, Target

LEMMA RenameKeysStep == IInv /\ RenameKeys => IInv'
<1> SUFFICES ASSUME IInv, RenameKeys PROVE IInv'
  OBVIOUS
<1>1. PICK t \in DOMAIN writing :
        /\ <<"keys", t>> \in tmp
        /\ tmp' = tmp \ {<<"keys", t>>}
        /\ keys' = With(keys, t, writing[t])
  BY DEF RenameKeys
<1>2. UNCHANGED <<data, deleted, pc, session, writing, merge, limit, err, history>>
  BY DEF RenameKeys
<1> USE DEF session, history
<1>3. InSession /\ Session
  BY WritingInSession
<1>4. t \in Ref /\ t \notin Mentioned /\ <<"data", t>> \in tmp /\ writing[t] \in Content
  BY <1>1, <1>3, TypeFacts DEF Session, FilesWritten
<1>5. /\ t \notin DOMAIN keys /\ t \notin data /\ t \notin onDisk /\ t \notin Refs(Planned)
      /\ t \notin left
  BY <1>4, TypeFacts DEF Mentioned
<1>6. /\ DOMAIN keys' = DOMAIN keys \cup {t} /\ keys'[t] = writing[t]
      /\ \A r \in DOMAIN keys : keys'[r] = keys[r]
      /\ keys' \in [DOMAIN keys' -> Content]
  BY <1>1, <1>4, <1>5, TypeFacts DEF With
<1>7. /\ \A r : <<"data", r>> \in tmp' <=> <<"data", r>> \in tmp
      /\ \A r : <<"keys", r>> \in tmp' <=> <<"keys", r>> \in tmp /\ r # t
  BY <1>1
<1>8. /\ WrittenBy' /\ MergeInv' /\ MemoryInv' /\ MapIsHeld' /\ AllWritten' /\ ~clean'
      /\ Current' = Current /\ Chain' = Chain /\ Target' = Target
  BY <1>2, <1>3, <1>6, SessionSame
\* A merge has a key file, and no place in the list; a flush writes a segment of it.
<1>9. \/ merge.pc = "write" /\ t = Target /\ Unlisted = left /\ Unlisted' = left \cup {t}
      \/ /\ merge.pc # "write" /\ Unlisted = left /\ Unlisted' = left
         /\ Current = segments /\ \E i \in 1..Len(segments) : segments[i] = t
  <2>1. CASE merge.pc = "write"
    <3>1. t = Target
      BY <1>3, <2>1 DEF Session, WrittenBy
    <3> QED BY <1>1, <1>2, <1>7, <1>8, <2>1, <3>1 DEF Unlisted
  <2>2. CASE merge.pc # "write"
    BY <1>2, <1>3, <2>2, FlushingFacts DEF Unlisted
  <2> QED BY <2>1, <2>2
<1>10. Types'
  <2>1. t[1] <= t[2]
    BY <1>3, <1>9, SliceFacts, FlushingFacts
  <2>2. /\ DOMAIN keys' \subseteq Ref /\ tmp' \subseteq File
        /\ IsFiniteSet(DOMAIN keys') /\ \A r \in DOMAIN keys' : r[1] <= r[2]
    BY <1>1, <1>4, <1>6, <2>1, TypeFacts, FS_AddElement
  <2>3. TypeOK /\ Types
    BY DEF IInv, Types
  <2>4. TypeOK'
    BY <1>2, <1>6, <2>2, <2>3 DEF TypeOK
  <2> QED BY <1>2, <1>6, <2>2, <2>3, <2>4 DEF Types
<1>11. Planned' = Planned /\ Mentioned' = Mentioned \cup {t}
  BY <1>2, <1>6 DEF Planned, Mentioned
<1>12. KeysHaveData' /\ KeysListedFirst'
  BY <1>2, <1>4, <1>6, <1>7, <1>11 DEF IInv, KeysHaveData, KeysListedFirst
<1>13. ListCovers'
  <2> SUFFICES ASSUME NEW r \in Mentioned' \ Unlisted'
               PROVE  \E j \in 1..Len(Current) : Current[j] \in DOMAIN keys' /\ Within(r, Current[j])
    BY <1>8 DEF ListCovers
  <2>1. CASE r = t
    <3>1. PICK i \in 1..Len(segments) : Current = segments /\ segments[i] = t
      BY <1>9, <2>1
    <3> QED BY <1>4, <1>6, <2>1, <3>1, WithinItself
  <2>2. CASE r # t
    <3>1. r \in Mentioned \ Unlisted
      BY <1>9, <1>11, <2>2
    <3> QED BY <1>3, <1>6, <3>1 DEF Session, ListCovers
  <2> QED BY <2>1, <2>2
<1>14. NotPlanned'
  BY <1>3, <1>8, <1>11 DEF Session, NotPlanned
<1>15. UnlistedKept'
  <2> SUFFICES ASSUME NEW l \in Unlisted'
               PROVE  /\ l \in DOMAIN keys' /\ l \notin Refs(Planned)
                      /\ \A i \in 1..Len(Chain) : Chain[i] # l
                      /\ pc = "open" => l[2] < nextSegID
    BY <1>2, <1>8, <1>11 DEF UnlistedKept
  <2>1. CASE l \in Unlisted
    BY <1>3, <1>6, <2>1 DEF Session, UnlistedKept
  <2>2. CASE l \notin Unlisted
    <3>1. l = t /\ t = Target /\ merge.pc = "write" /\ Current = segments
      BY <1>9, <2>2 DEF Current
    <3>2. \A i \in 1..Len(Current) : Current[i] # l
      BY <1>3, <3>1, SliceFacts
    <3>3. pc = "open" => l[2] < nextSegID /\ memory # l
      BY <3>1, MemoryApart
    <3>4. \A i \in 1..Len(Chain) : Chain[i] # l
      <4>1. CASE memory = Null
        BY <1>3, <3>2, <4>1, ChainFacts
      <4>2. CASE memory # Null
        <5>1. memory # l
          BY <1>3, <3>3, <4>2 DEF Session, MemoryInv
        <5>2. \A i \in 1..Len(Chain) : i \in 1..Len(Current) \/ i = Len(Current) + 1
          BY <1>3, <4>2, ChainFacts, CurrentFacts
        <5> QED BY <1>3, <3>2, <4>2, <5>1, <5>2, ChainFacts
      <4> QED BY <4>1, <4>2
    <3> QED BY <1>5, <1>6, <3>1, <3>3, <3>4
  <2> QED BY <2>1, <2>2
<1>16. ListStored'
  <2> SUFFICES ASSUME NEW i \in 1..Len(segments)
               PROVE  IF segments[i] \in onDisk
                      THEN /\ segments[i] \in DOMAIN keys' /\ segments[i] \in data
                           /\ keys'[segments[i]] = contents[segments[i]]
                      ELSE /\ segments[i] \notin data
                           /\ segments[i] \in DOMAIN keys' =>
                                segments[i] \in DOMAIN writing /\ <<"keys", segments[i]>> \notin tmp'
    BY <1>2 DEF ListStored
  <2>1. CASE segments[i] \in onDisk
    BY <1>3, <1>6, <2>1 DEF Session, ListStored
  <2>2. CASE segments[i] \notin onDisk
    <3>1. segments[i] \notin data
      BY <1>3, <2>2 DEF Session, ListStored
    <3>2. ASSUME segments[i] \in DOMAIN keys'
          PROVE  segments[i] \in DOMAIN writing /\ <<"keys", segments[i]>> \notin tmp'
      <4>1. CASE segments[i] = t
        BY <1>7, <4>1
      <4>2. CASE segments[i] # t
        BY <1>3, <1>6, <1>7, <2>2, <3>2, <4>2 DEF Session, ListStored
      <4> QED BY <4>1, <4>2
    <3> QED BY <2>2, <3>1, <3>2
  <2> QED BY <2>1, <2>2
<1>17. FilesWritten'
  <2> SUFFICES ASSUME NEW u \in DOMAIN writing
               PROVE  /\ <<"data", u>> \in tmp'
                      /\ IF <<"keys", u>> \in tmp'
                         THEN u \notin Mentioned'
                         ELSE /\ u \notin data /\ u \notin left /\ u \in DOMAIN keys'
                              /\ keys'[u] = writing[u]
    BY <1>2 DEF FilesWritten
  <2>1. CASE u = t
    BY <1>4, <1>5, <1>6, <1>7, <2>1
  <2>2. CASE u # t
    BY <1>3, <1>6, <1>7, <1>11, <2>2 DEF Session, FilesWritten
  <2> QED BY <2>1, <2>2
<1>18. Grounded'
  <2>1. PICK names \in Seq(Ref) : Grounds(names)
    BY <1>3 DEF Session, Grounded
  <2>2. ASSUME NEW l \in Unlisted'
        PROVE  \/ l \in Unlisted /\ keys'[l] = keys[l]
               \/ Stands(contents, names, l, keys'[l])
    <3>1. CASE l \in Unlisted
      BY <1>3, <1>6, <3>1 DEF Session, UnlistedKept
    <3>2. CASE l \notin Unlisted
      <4>1. l = t /\ t = Target /\ merge.pc = "write"
        BY <1>9, <3>2
      <4>2. keys'[l] = Merged(Stack(contents, merge.slice), merge.start = 1)
        BY <1>3, <1>6, <4>1 DEF Session, WrittenBy
      <4> QED BY <1>3, <2>1, <4>1, <4>2, TargetStands
    <3> QED BY <3>1, <3>2
  <2> QED BY <1>2, <1>8, <2>1, <2>2, GroundsSame
<1>19. InSession'
  BY <1>2, <1>3 DEF InSession
<1> QED BY <1>8, <1>10, <1>12, <1>13, <1>14, <1>15, <1>16, <1>17, <1>18, <1>19
        DEF IInv, Session

-----------------------------------------------------------------------------
(* Merging.                                                                *)

LEMMA SliceProperties ==
  ASSUME segments \in Seq(Ref), NEW start \in 1..(Len(segments) - 1)
  PROVE  /\ Slice(start, Len(segments)) \in Seq(Ref)
         /\ Len(Slice(start, Len(segments))) >= 2
         /\ IsSlice(segments, start, Slice(start, Len(segments)))
<1> DEFINE n == Len(segments)
           size == IF n \div 2 > MinMergeSize THEN n \div 2 ELSE MinMergeSize
           end == IF start + size - 1 < n THEN start + size - 1 ELSE n
           slice == SubSeq(segments, start, end)
<1>1. n \in Nat /\ start \in Nat /\ start >= 1 /\ start <= n - 1 /\ start \in 1..n
  OBVIOUS
<1>2. size \in Nat /\ size >= 2
  BY <1>1, RecoveryAssumption
<1>3. end \in Nat /\ end >= start + 1 /\ end <= n
  <2> HIDE DEF size, n
  <2> QED BY <1>1, <1>2
<1>4. Slice(start, Len(segments)) = slice
  BY DEF Slice
<1> HIDE DEF end
<1>5. /\ slice \in Seq(Ref) /\ Len(slice) = end - start + 1
      /\ \A i \in 1..(end - start + 1) : slice[i] = segments[start + i - 1]
  <2>1. \A i \in start..end : i \in 1..Len(segments)
    BY <1>1, <1>3
  <2>2. slice \in Seq(Ref) /\ Len(slice) = IF start <= end THEN end - start + 1 ELSE 0
    BY <1>1, <1>3, <2>1, SubSeqProperties
  <2>3. \A i \in 1..(end - start + 1) : slice[i] = segments[start + i - 1]
    BY <1>1, <1>3, <2>1, SubSeqProperties
  <2> QED BY <1>1, <1>3, <2>2, <2>3
<1> HIDE DEF slice
<1>6. Len(slice) >= 2 /\ start + Len(slice) - 1 <= n
  BY <1>1, <1>3, <1>5
<1>7. IsSlice(segments, start, slice)
  BY <1>1, <1>3, <1>5, <1>6 DEF IsSlice
<1> QED BY <1>4, <1>5, <1>6, <1>7

\* A merge that throws leaves what had files of it behind.
LEMMA ThrowsStep ==
  ASSUME IInv, InSession, pc \in {"open", "closing"}, MergeThrows,
         merge.pc \in {"none", "write"}, DOMAIN writing' = {},
         writing' \in [DOMAIN writing' -> Content],
         tmp' \subseteq tmp, KeysHaveData', left' = Unlisted,
         data' = data \/ (data' = data \cup {Target} /\ merge.pc = "write" /\ Target \in left')
  PROVE  IInv'
<1> USE DEF history
<1>1. /\ merge' = NoMerge
      /\ UNCHANGED <<keys, deleted, segments, memory, contents, onDisk, nextSegID, limit, history>>
      /\ \/ pc = "open" /\ pc' = pc /\ err' = TRUE
         \/ pc # "open" /\ pc' = "broken" /\ err' = err
  BY DEF MergeThrows
<1>2. Session
  BY DEF IInv
<1>3. merge'.pc = "none" /\ merge'.lines = <<>> /\ merge.lines = <<>>
  BY <1>1, <1>2, EmptyFacts DEF Session, MergeInv
<1>4. Current = segments /\ Current' = Current /\ Chain' = Chain /\ Unlisted' = Unlisted
  BY <1>1, <1>3 DEF Current, Chain, Unlisted
<1>5. left' \subseteq DOMAIN keys
  BY <1>2 DEF Session, UnlistedKept
<1>6. Planned' = Planned /\ Mentioned' = Mentioned
  BY <1>1, <1>3, <1>5 DEF Planned, Mentioned
<1>7. Types'
  <2>1. err' \in BOOLEAN
    BY <1>1 DEF IInv, Types, TypeOK
  <2>2. data' \subseteq Ref /\ tmp' \subseteq File /\ DOMAIN writing' \subseteq Ref
    BY <1>5, TypeFacts
  <2>3. TypeOK /\ Types
    BY DEF IInv, Types
  <2>4. TypeOK'
    BY <1>1, <1>3, <1>5, <2>1, <2>2, <2>3 DEF TypeOK
  <2> QED BY <1>1, <2>3, <2>4, EmptyFacts DEF Types
<1>8. KeysListedFirst'
  BY <1>6 DEF IInv, KeysListedFirst
<1>9. ListCovers' /\ NotPlanned'
  BY <1>1, <1>2, <1>4, <1>6 DEF Session, ListCovers, NotPlanned
<1>10. UnlistedKept'
  BY <1>1, <1>2, <1>4, <1>6 DEF Session, UnlistedKept
<1>11. ListStored'
  <2> SUFFICES ASSUME NEW i \in 1..Len(segments)
               PROVE  IF segments[i] \in onDisk
                      THEN /\ segments[i] \in DOMAIN keys /\ segments[i] \in data'
                           /\ keys[segments[i]] = contents[segments[i]]
                      ELSE segments[i] \notin data' /\ segments[i] \notin DOMAIN keys
    BY <1>1 DEF ListStored
  <2>1. CASE segments[i] \in onDisk
    BY <1>2, <2>1 DEF Session, ListStored
  <2>2. CASE segments[i] \notin onDisk
    <3>1. merge.pc = "write" => segments[i] # Target
      BY SliceFacts
    <3>2. segments[i] \notin DOMAIN writing
      BY <1>2, <3>1 DEF Session, WrittenBy
    <3>3. segments[i] \notin data /\ segments[i] \notin DOMAIN keys
      BY <1>2, <2>2, <3>2 DEF Session, ListStored
    <3> QED BY <2>2, <3>1, <3>3
  <2> QED BY <2>1, <2>2
<1>12. FilesWritten' /\ WrittenBy' /\ MergeInv'
  BY <1>1, <1>3 DEF FilesWritten, WrittenBy, MergeInv
<1>13. MemoryInv' /\ MapIsHeld' /\ AllWritten' /\ ~clean'
  BY <1>1, <1>2, <1>4 DEF Session, MemoryInv, MapIsHeld, AllWritten
<1>14. Grounded'
  <2>1. PICK names \in Seq(Ref) : Grounds(names)
    BY <1>2 DEF Session, Grounded
  <2> QED BY <1>1, <1>4, <2>1, GroundsSame
<1>15. InSession'
  BY <1>1 DEF InSession
<1> QED BY <1>7, <1>8, <1>9, <1>10, <1>11, <1>12, <1>13, <1>14, <1>15 DEF IInv, Session

\* Before a merge, and before the first segment is flushed, nothing is being written.
LEMMA QuietWithoutMerge ==
  ASSUME IInv, pc \in {"open", "closing"}, merge = NoMerge
  PROVE  /\ InSession /\ Session /\ merge.pc = "none" /\ merge.lines = <<>>
         /\ DOMAIN writing = {} /\ Current = segments /\ Unlisted = left
<1>1. InSession /\ Session
  BY DEF InSession, IInv
<1>2. merge.pc = "none" /\ merge.lines = <<>>
  BY EmptyFacts
<1>3. DOMAIN writing = {}
  BY <1>1, <1>2 DEF Session, WrittenBy
<1> QED BY <1>1, <1>2, <1>3 DEF Current, Unlisted

LEMMA MergeMeetsFilesStep ==
  ASSUME IInv, pc \in {"open", "closing"}, merge = NoMerge, NEW slice, MergeMeetsFiles(slice)
  PROVE  IInv'
<1>1. MergeThrows /\ UNCHANGED <<data, tmp, left, writing>> /\ UNCHANGED keys
  BY DEF MergeMeetsFiles, MergeThrows
<1>2. /\ InSession /\ merge.pc = "none" /\ DOMAIN writing = {} /\ Unlisted = left
  BY QuietWithoutMerge
<1>3. KeysHaveData'
  BY <1>1 DEF IInv, KeysHaveData
<1> QED BY <1>1, <1>2, <1>3, TypeFacts, ThrowsStep

LEMMA MergeWritesStep ==
  ASSUME IInv, pc \in {"open", "closing"}, merge = NoMerge,
         NEW start \in 1..(Len(segments) - 1), MergeWrites(start, Slice(start, Len(segments)))
  PROVE  IInv'
<1> DEFINE slice == Slice(start, Len(segments))
           target == TargetOf(slice)
           content == Merged(Stack(contents, slice), start = 1)
<1>1. /\ merge' = [pc |-> "write", start |-> start, slice |-> slice, lines |-> <<>>]
      /\ writing' = With(writing, target, content)
      /\ tmp' = tmp \cup FilesOf({target})
      /\ target \notin DOMAIN keys /\ target \notin data
      /\ UNCHANGED <<keys, data, deleted, pc, session, limit, err, history>>
  BY DEF MergeWrites, WriteTmp, Stack, InTheWay
<1> USE DEF session, history
<1>2. /\ InSession /\ Session /\ merge.pc = "none" /\ merge.lines = <<>>
      /\ DOMAIN writing = {} /\ Current = segments /\ Unlisted = left
  BY QuietWithoutMerge
<1>3. /\ segments \in Seq(Ref) /\ Ascending(segments) /\ Len(segments) \in Nat
      /\ slice \in Seq(Ref) /\ Len(slice) >= 2 /\ IsSlice(segments, start, slice)
  BY TypeFacts, SliceProperties
<1> HIDE DEF slice
<1>4. /\ target \in Ref /\ \A i \in 1..Len(segments) : ~Within(target, segments[i])
  BY <1>3, TargetProperties, TargetIsNew
<1> HIDE DEF target
<1>5. /\ merge'.pc = "write" /\ merge'.lines = <<>> /\ merge'.start = start
      /\ merge'.slice = slice /\ Target' = target
  BY <1>1 DEF Target, target
<1>6. <<"keys", target>> \in tmp' /\ <<"data", target>> \in tmp' /\ tmp \subseteq tmp'
      /\ tmp' \subseteq File
  BY <1>1, <1>4, TypeFacts, FileType DEF FilesOf
<1>7. Current' = segments /\ Chain' = Chain /\ Unlisted' = left
  BY <1>1, <1>2, <1>5, <1>6 DEF Current, Chain, Unlisted
<1>8. Planned' = Planned /\ Mentioned' = Mentioned
  BY <1>1, <1>2, <1>5 DEF Planned, Mentioned
<1>9. content \in Content
  <2>1. \A i \in 1..Len(slice) : slice[i] \in DOMAIN contents
    <3> SUFFICES ASSUME NEW i \in 1..Len(slice) PROVE slice[i] \in DOMAIN contents
      OBVIOUS
    <3>1. /\ start + i - 1 \in 1..Len(segments) /\ slice[i] = segments[start + i - 1]
      BY <1>3 DEF IsSlice
    <3> QED BY <1>2, <3>1 DEF Session, MemoryInv
  <2>2. /\ Len(Stack(contents, slice)) = Len(slice) /\ Len(slice) \in Nat
        /\ \A i \in 1..Len(slice) : Stack(contents, slice)[i] = contents[slice[i]]
    BY <1>3, StackProperties
  <2>3. \A i \in 1..Len(slice) : Stack(contents, slice)[i] \in Content
    BY <2>1, <2>2, TypeFacts
  <2> QED BY <2>2, <2>3, MergedType
<1> HIDE DEF content
<1>10. /\ DOMAIN writing' = {target} /\ writing'[target] = content
       /\ writing' \in [DOMAIN writing' -> Content]
  BY <1>1, <1>2, <1>9 DEF With
<1>11. Types'
  <2>1. merge' \in [pc : {"none", "write", "schedule", "publish"}, start : Nat,
                    slice : Seq(Ref), lines : Seq(File)]
    BY <1>1, <1>3, EmptyFacts
  <2>2. TypeOK /\ Types
    BY DEF IInv, Types
  <2>3. TypeOK'
    BY <1>1, <1>4, <1>5, <1>6, <1>10, <2>2 DEF TypeOK
  <2> QED BY <1>1, <1>10, <2>1, <2>2, <2>3 DEF Types
<1>12. KeysHaveData' /\ KeysListedFirst'
  BY <1>1, <1>6, <1>8 DEF IInv, KeysHaveData, KeysListedFirst
<1>13. ListCovers' /\ NotPlanned' /\ UnlistedKept'
  BY <1>1, <1>2, <1>7, <1>8 DEF Session, ListCovers, NotPlanned, UnlistedKept
<1>14. ListStored'
  <2> SUFFICES ASSUME NEW i \in 1..Len(segments)
               PROVE  IF segments[i] \in onDisk
                      THEN /\ segments[i] \in DOMAIN keys /\ segments[i] \in data
                           /\ keys[segments[i]] = contents[segments[i]]
                      ELSE segments[i] \notin data /\ segments[i] \notin DOMAIN keys
    BY <1>1 DEF ListStored
  <2>1. CASE segments[i] \in onDisk
    BY <1>2, <2>1 DEF Session, ListStored
  <2>2. CASE segments[i] \notin onDisk
    BY <1>2, <2>2 DEF Session, ListStored
  <2> QED BY <2>1, <2>2
\* No file has the name of the merge, no line of "deleted" does, and no segment.
<1>15. target \notin Mentioned
  <2>1. target \notin Unlisted
    BY <1>1, <1>2, TypeFacts
  <2> QED BY <1>2, <1>4, <2>1 DEF Session, ListCovers
<1>16. FilesWritten'
  BY <1>6, <1>8, <1>10, <1>15 DEF FilesWritten
<1>17. WrittenBy'
  BY <1>1, <1>5, <1>10 DEF WrittenBy, content
<1>18. MergeInv'
  BY <1>1, <1>3, <1>5 DEF MergeInv
<1>19. MemoryInv' /\ MapIsHeld' /\ AllWritten' /\ ~clean'
  BY <1>1, <1>2, <1>7 DEF Session, MemoryInv, MapIsHeld, AllWritten
<1>20. Grounded'
  <2>1. PICK names \in Seq(Ref) : Grounds(names)
    BY <1>2 DEF Session, Grounded
  <2> QED BY <1>1, <1>2, <1>7, <2>1, GroundsSame
<1>21. InSession'
  BY <1>1, <1>2 DEF InSession
<1> QED BY <1>11, <1>12, <1>13, <1>14, <1>16, <1>17, <1>18, <1>19, <1>20, <1>21
        DEF IInv, Session

LEMMA MergeStartStep == IInv /\ MergeStart => IInv'
<1> SUFFICES ASSUME IInv, MergeStart PROVE IInv'
  OBVIOUS
<1>1. pc \in {"open", "closing"} /\ merge = NoMerge
  BY DEF MergeStart
<1>2. PICK start \in 1..(Len(segments) - 1) :
        \/ MergeMeetsFiles(Slice(start, Len(segments)))
        \/ MergeWrites(start, Slice(start, Len(segments)))
  BY DEF MergeStart
<1> QED BY <1>1, <1>2, MergeMeetsFilesStep, MergeWritesStep

LEMMA MergeFailsStep == IInv /\ MergeFails => IInv'
<1> SUFFICES ASSUME IInv, MergeFails PROVE IInv'
  OBVIOUS
<1>1. /\ merge.pc = "write" /\ MergeThrows /\ UNCHANGED keys
      /\ IF <<"keys", Target>> \in tmp
         THEN writing' = Without(writing, Target) /\ UNCHANGED <<data, tmp, left>>
         ELSE /\ writing' = Without(writing, Target)
              /\ left' = left \cup {Target}
              /\ UNCHANGED <<data, tmp>> \/ RenameData(Target)
  BY DEF MergeFails, MergeThrows
<1>2. InSession /\ Session
  BY <1>1, EmptyFacts DEF IInv, BetweenSessions
<1>3. DOMAIN writing = {Target} /\ pc \in {"open", "closing"}
  BY <1>1, <1>2 DEF Session, WrittenBy, MergeInv
<1>4. DOMAIN writing' = {} /\ writing' \in [DOMAIN writing' -> Content]
  BY <1>1, <1>3 DEF Without
<1>5. left' = Unlisted
  BY <1>1 DEF Unlisted
<1>6. CASE UNCHANGED <<data, tmp>>
  <2>1. KeysHaveData'
    BY <1>1, <1>6 DEF IInv, KeysHaveData
  <2> QED BY <1>1, <1>2, <1>3, <1>4, <1>5, <1>6, <2>1, ThrowsStep
<1>7. CASE <<"keys", Target>> \notin tmp /\ RenameData(Target)
  <2>1. tmp' = tmp \ {<<"data", Target>>} /\ data' = data \cup {Target} /\ Target \in left'
    BY <1>1, <1>7 DEF RenameData
  <2>2. KeysHaveData'
    BY <1>1, <2>1 DEF IInv, KeysHaveData
  <2> QED BY <1>1, <1>2, <1>3, <1>4, <1>5, <2>1, <2>2, ThrowsStep
<1> QED BY <1>1, <1>6, <1>7

\* What a merge writes is within the range of its name.
LEMMA SliceCovered ==
  ASSUME IInv, InSession, merge.pc # "none", NEW r \in Members(merge.slice)
  PROVE  /\ \E i \in 1..Len(segments) : r = segments[i]
         /\ Within(r, Target)
<1>1. /\ segments \in Seq(Ref) /\ Ascending(segments) /\ merge.slice \in Seq(Ref)
      /\ IsSlice(segments, merge.start, merge.slice)
  BY TypeFacts, SliceFacts
<1> DEFINE last == merge.start + Len(merge.slice) - 1
<1>2. /\ merge.start \in 1..Len(segments) /\ last \in 1..Len(segments)
      /\ Target[1] = segments[merge.start][1] /\ Target[2] = segments[last][2]
  BY <1>1, TargetProperties DEF Target
<1>3. PICK i \in 1..Len(merge.slice) : r = merge.slice[i]
  BY DEF Members
<1> DEFINE j == merge.start + i - 1
<1>4. j \in 1..Len(segments) /\ r = segments[j] /\ merge.start <= j /\ j <= last
  <2>1. /\ merge.start \in Nat /\ Len(merge.slice) \in Nat /\ i \in 1..Len(merge.slice)
        /\ last \in 1..Len(segments) /\ Len(segments) \in Nat /\ merge.start >= 1
    BY <1>1, <1>2
  <2>2. j \in 1..Len(segments) /\ merge.start <= j /\ j <= last
    BY <2>1
  <2>3. merge.slice[i] = segments[j]
    BY <1>1 DEF IsSlice
  <2> QED BY <1>3, <2>2, <2>3
<1> HIDE DEF last, j
<1>5. segments[merge.start][1] <= segments[j][1] /\ segments[j][2] <= segments[last][2]
  BY <1>1, <1>2, <1>4, AscendingPositions
<1> QED BY <1>2, <1>4, <1>5 DEF Within

LEMMA MergeWrittenStep == IInv /\ MergeWritten => IInv'
<1> SUFFICES ASSUME IInv, MergeWritten PROVE IInv'
  OBVIOUS
<1> DEFINE t == Target
           new == Splice(segments, merge.start, merge.slice, Target)
<1>1. /\ merge.pc = "write"
      /\ <<"keys", t>> \notin tmp /\ <<"data", t>> \in tmp
      /\ tmp' = tmp \ {<<"data", t>>} /\ data' = data \cup {t}
      /\ writing' = Without(writing, t)
      /\ merge' = [merge EXCEPT !.pc = "schedule", !.lines = Lines]
      /\ contents' = With(contents, t, writing[t])
      /\ onDisk' = onDisk \cup {t}
      /\ UNCHANGED <<keys, deleted, pc, segments, memory, left, nextSegID, limit, err, history>>
  BY DEF MergeWritten, RenameData
<1> USE DEF history
<1>2. InSession /\ Session
  BY <1>1, EmptyFacts DEF IInv, BetweenSessions
<1>3. /\ DOMAIN writing = {t} /\ pc \in {"open", "closing"} /\ merge.lines = <<>>
      /\ writing[t] = Merged(Stack(contents, merge.slice), merge.start = 1)
  BY <1>1, <1>2 DEF Session, WrittenBy, MergeInv
<1>4. /\ segments \in Seq(Ref) /\ Ascending(segments) /\ merge.slice \in Seq(Ref)
      /\ IsSlice(segments, merge.start, merge.slice) /\ Len(merge.slice) >= 2
      /\ t \in Ref /\ t[1] <= t[2] /\ new \in Seq(Ref) /\ Ascending(new)
      /\ \A i \in 1..Len(segments) : segments[i] # t /\ ~Within(t, segments[i])
  BY <1>1, <1>2, TypeFacts, SliceFacts
<1>5. /\ merge'.pc = "schedule" /\ merge'.lines = Lines /\ merge'.start = merge.start
      /\ merge'.slice = merge.slice /\ Target' = t
      /\ merge' \in [pc : {"none", "write", "schedule", "publish"}, start : Nat,
                     slice : Seq(Ref), lines : Seq(File)]
  <2>1. merge \in [pc : {"none", "write", "schedule", "publish"}, start : Nat,
                   slice : Seq(Ref), lines : Seq(File)] /\ Lines \in Seq(File)
    BY LinesFacts DEF IInv, Types
  <2>2. /\ merge'.pc = "schedule" /\ merge'.lines = Lines /\ merge'.start = merge.start
        /\ merge'.slice = merge.slice
        /\ merge' \in [pc : {"none", "write", "schedule", "publish"}, start : Nat,
                       slice : Seq(Ref), lines : Seq(File)]
    BY <1>1, <2>1
  <2> QED BY <2>2 DEF Target
<1>6. /\ Current = segments /\ Current' = new
      /\ Unlisted = left \cup {t} /\ Unlisted' = left
  BY <1>1, <1>5 DEF Current, Unlisted
<1>7. /\ IsSlice(Chain, merge.start, merge.slice)
      /\ Chain' = Splice(Chain, merge.start, merge.slice, t)
  BY <1>1, <1>2, <1>6, ChainSpliced DEF Chain
<1>8. Chain \in Seq(Ref) /\ Ascending(Chain)
  BY <1>2, ChainAscends
<1>9. \A i \in 1..Len(Chain') : Chain'[i] = t \/ \E j \in 1..Len(Chain) : Chain'[i] = Chain[j]
  BY <1>4, <1>7, <1>8, SplicedFrom
<1>10. \A i \in 1..Len(new) : new[i] = t \/ \E j \in 1..Len(segments) : new[i] = segments[j]
  BY <1>4, SplicedFrom
<1>11. /\ merge.start \in 1..Len(new) /\ new[merge.start] = t
       /\ \A i \in 1..Len(segments) : \E j \in 1..Len(new) : Within(segments[i], new[j])
  BY <1>4, SpliceCovers DEF Target
<1>12. \A i \in 1..Len(Chain) : \E j \in 1..Len(Chain') : Within(Chain[i], Chain'[j])
  BY <1>4, <1>7, <1>8, SpliceCovers DEF Target
<1>13. pc = "open" => /\ t[2] < nextSegID /\ nextSegID \in Nat
                      /\ memory = <<nextSegID, nextSegID>>
  BY <1>1, MemoryApart
\* The merge was made of what the list held, under a name of its own.
<1>14. \A i \in 1..Len(Chain) : /\ ~Within(t, Chain[i])
                                /\ Chain[i] # t /\ Chain[i] \in DOMAIN contents
  <2> TAKE i \in 1..Len(Chain)
  <2>1. CASE i \in 1..Len(Current)
    BY <1>2, <1>4, <1>6, <2>1, ChainFacts DEF Session, MemoryInv
  <2>2. CASE i \notin 1..Len(Current)
    <3>1. memory # Null /\ Chain[i] = memory
      BY <1>2, <2>2, ChainFacts, CurrentFacts
    <3>2. pc = "open" /\ memory \in DOMAIN contents
      BY <1>2, <3>1 DEF Session, MemoryInv
    <3>3. t[1] \in Nat /\ t[2] \in Nat
      BY <1>4 DEF Ref
    <3>4. ~Within(t, memory) /\ memory # t
      BY <1>4, <1>13, <3>2, <3>3 DEF Within
    <3> QED BY <3>1, <3>2, <3>4
  <2> QED BY <2>1, <2>2
<1> HIDE DEF t
<1>15. /\ t \in DOMAIN keys /\ t \notin data /\ t \notin left /\ keys[t] = writing[t]
  BY <1>1, <1>2, <1>3 DEF Session, FilesWritten
<1>16. writing[t] \in Content /\ DOMAIN contents \subseteq Ref /\ onDisk \subseteq DOMAIN contents
  BY <1>3, TypeFacts
<1>17. /\ DOMAIN contents' = DOMAIN contents \cup {t} /\ contents'[t] = writing[t]
       /\ \A r \in DOMAIN contents : r # t => contents'[r] = contents[r]
       /\ contents' \in [DOMAIN contents' -> Content]
  BY <1>1, <1>16, TypeFacts DEF With
<1>18. DOMAIN writing' = {} /\ writing' \in [DOMAIN writing' -> Content]
  BY <1>1, <1>3 DEF Without
<1>19. Types'
  <2>1. data' \subseteq Ref /\ tmp' \subseteq File
    BY <1>1, <1>4, TypeFacts
  <2>2. /\ DOMAIN contents' \subseteq Ref /\ onDisk' \subseteq DOMAIN contents'
        /\ \A r \in DOMAIN contents' : contents'[r] \in Content
    BY <1>1, <1>4, <1>16, <1>17
  <2>3. TypeOK /\ Types
    BY DEF IInv, Types
  <2>4. TypeOK'
    BY <1>1, <1>5, <1>18, <2>1, <2>2, <2>3 DEF TypeOK
  <2> QED BY <1>1, <1>5, <1>17, <1>18, <2>3, <2>4 DEF Types
<1>20. /\ Planned' = deleted \o Lines /\ Planned = deleted
       /\ Refs(Planned)' = Refs(deleted) \cup Refs(Lines)
  BY <1>1, <1>3, <1>5, TypeFacts, LinesFacts, RefsOfConcat, ListedIsPlanned DEF Planned
<1>21. /\ \A r \in Refs(Lines) : /\ r # t /\ r \in onDisk
                                 /\ \E i \in 1..Len(segments) : r = segments[i]
       /\ Refs(Lines) \subseteq Members(merge.slice)
  <2>1. Refs(Lines) \subseteq Members(merge.slice) \cap onDisk
    BY LinesFacts
  <2>2. \A r \in Members(merge.slice) : \E i \in 1..Len(segments) : r = segments[i]
    BY <1>1, <1>2, SliceCovered
  <2> QED BY <1>4, <2>1, <2>2
<1>22. KeysHaveData'
  BY <1>1 DEF IInv, KeysHaveData
<1>23. KeysListedFirst'
  <2>1. KeysFirst(deleted) /\ KeysFirst(Lines) /\ deleted \in Seq(File) /\ Lines \in Seq(File)
    BY LinesFacts, ListedIsPlanned, TypeFacts
  <2> QED BY <1>20, <2>1, KeysFirstConcat DEF KeysListedFirst
<1>24. Mentioned' = Mentioned
  BY <1>1, <1>15, <1>20, <1>21 DEF Mentioned
<1>25. ListCovers'
  <2> SUFFICES ASSUME NEW r \in Mentioned \ left
               PROVE  \E j \in 1..Len(new) : new[j] \in DOMAIN keys /\ Within(r, new[j])
    BY <1>1, <1>6, <1>24 DEF ListCovers
  <2>1. CASE r = t
    BY <1>4, <1>11, <1>15, <2>1, WithinItself
  <2>2. CASE r # t
    <3>1. PICK i \in 1..Len(segments) : segments[i] \in DOMAIN keys /\ Within(r, segments[i])
      BY <1>2, <1>6, <2>2 DEF Session, ListCovers
    <3>2. PICK j \in 1..Len(new) : Within(segments[i], new[j])
      BY <1>11
    <3>3. r \in Ref /\ segments[i] \in Ref /\ new[j] \in Ref
      BY <1>4, MentionedType
    <3>4. new[j] \in DOMAIN keys
      <4>1. ASSUME NEW k \in 1..Len(segments), new[j] = segments[k]
            PROVE  new[j] = segments[i]
        <5>1. i = k
          BY <1>4, <3>2, <4>1, AscendingApart
        <5> QED BY <4>1, <5>1
      <4> QED BY <1>10, <1>15, <3>1, <4>1
    <3> QED BY <3>1, <3>2, <3>3, <3>4, WithinTransitive
  <2> QED BY <2>1, <2>2
<1>26. NotPlanned'
  <2>1. \A i \in 1..Len(new) : new[i] \notin Refs(deleted)
    BY <1>2, <1>6, <1>10, <1>20 DEF Session, NotPlanned, UnlistedKept
  <2>2. Members(new) = (Members(segments) \ Members(merge.slice)) \cup {t}
    BY <1>4, MembersOfSplice DEF t
  <2>3. \A i \in 1..Len(new) : new[i] \notin Refs(Lines)
    <3> SUFFICES ASSUME NEW i \in 1..Len(new) PROVE new[i] \notin Refs(Lines)
      OBVIOUS
    <3>1. new[i] \in Members(new)
      BY DEF Members
    <3> QED BY <1>21, <2>2, <3>1
  <2> QED BY <1>6, <1>20, <2>1, <2>3 DEF NotPlanned
<1>27. UnlistedKept'
  <2> SUFFICES ASSUME NEW l \in left
               PROVE  /\ l \in DOMAIN keys /\ l \notin Refs(deleted) /\ l \notin Refs(Lines)
                      /\ \A i \in 1..Len(Chain') : Chain'[i] # l
                      /\ pc = "open" => l[2] < nextSegID
    BY <1>1, <1>6, <1>20 DEF UnlistedKept
  <2>1. /\ l \in DOMAIN keys /\ l \notin Refs(deleted)
        /\ \A i \in 1..Len(Chain) : Chain[i] # l
        /\ pc = "open" => l[2] < nextSegID
    BY <1>2, <1>6, <1>20 DEF Session, UnlistedKept
  <2>2. l \notin Refs(Lines)
    BY <1>2, <1>6, <1>21, <2>1, ChainFacts
  <2>3. \A i \in 1..Len(Chain') : Chain'[i] # l
    BY <1>9, <1>15, <2>1
  <2> QED BY <2>1, <2>2, <2>3
<1>28. ListStored'
  <2> SUFFICES ASSUME NEW i \in 1..Len(segments)
               PROVE  IF segments[i] \in onDisk'
                      THEN /\ segments[i] \in DOMAIN keys /\ segments[i] \in data'
                           /\ keys[segments[i]] = contents'[segments[i]]
                      ELSE segments[i] \notin data' /\ segments[i] \notin DOMAIN keys
    BY <1>1 DEF ListStored
  <2>1. segments[i] # t /\ segments[i] \in DOMAIN contents
    BY <1>2, <1>4 DEF Session, MemoryInv
  <2>2. CASE segments[i] \in onDisk
    <3>1. /\ segments[i] \in DOMAIN keys /\ segments[i] \in data
          /\ keys[segments[i]] = contents[segments[i]]
      BY <1>2, <2>2 DEF Session, ListStored
    <3> QED BY <1>1, <1>17, <2>1, <2>2, <3>1
  <2>3. CASE segments[i] \notin onDisk
    <3>1. segments[i] \notin data /\ segments[i] \notin DOMAIN keys
      BY <1>2, <1>3, <2>1, <2>3 DEF Session, ListStored
    <3> QED BY <1>1, <2>1, <2>3, <3>1
  <2> QED BY <2>2, <2>3
<1>29. FilesWritten' /\ WrittenBy'
  BY <1>5, <1>18 DEF FilesWritten, WrittenBy
<1>30. \A i \in 1..Len(Chain) : contents'[Chain[i]] = contents[Chain[i]]
  BY <1>14, <1>17
<1>31. Stack(contents', merge.slice) = Stack(contents, merge.slice)
  <2>1. \A i \in 1..Len(merge.slice) : contents'[merge.slice[i]] = contents[merge.slice[i]]
    <3> SUFFICES ASSUME NEW i \in 1..Len(merge.slice)
                 PROVE  contents'[merge.slice[i]] = contents[merge.slice[i]]
      OBVIOUS
    <3>1. merge.slice[i] \in Members(merge.slice)
      BY DEF Members
    <3>2. \E j \in 1..Len(segments) : merge.slice[i] = segments[j]
      BY <1>1, <1>2, <3>1, SliceCovered
    <3> QED BY <1>2, <1>4, <1>17, <3>2 DEF Session, MemoryInv
  <2> QED BY <2>1, StackSame
<1>32. contents'[t] = Merged(Stack(contents', merge.slice), merge.start = 1)
  BY <1>3, <1>17, <1>31
<1>33. MergeInv'
  <2>1. /\ Target' \in onDisk' /\ Target' \in DOMAIN keys' /\ Target' \in data'
        /\ keys'[Target'] = contents'[Target']
    BY <1>1, <1>5, <1>15, <1>17
  <2>2. Stack(contents, merge.slice)' = Stack(contents', merge.slice)
    BY <1>5 DEF Stack
  <2> QED BY <1>1, <1>3, <1>4, <1>5, <1>32, <2>1, <2>2 DEF MergeInv
<1>34. MemoryInv' /\ AllWritten' /\ ~clean'
  BY <1>1, <1>2, <1>3, <1>17 DEF Session, MemoryInv, AllWritten
<1>35. MapIsHeld'
  <2> DEFINE purge == merge.start = 1
             h == contents'
             start == merge.start
             slice == merge.slice
  <2>1. h[t] = Merged(Stack(h, slice), purge) /\ (purge => start = 1)
    BY <1>32
  <2>2. slice \in Seq(Ref) /\ IsSlice(Chain, start, slice)
    BY <1>4, <1>7
  <2>3. Chain' = Splice(Chain, start, slice, t)
    BY <1>7
  <2>4. View(Stack(h, Splice(Chain, start, slice, t))) = View(Stack(h, Chain))
    <3> HIDE DEF h, start, slice, purge
    <3> QED BY <1>4, <1>8, <2>1, <2>2, ViewOfSplice
  <2>5. Stack(h, Chain) = Stack(contents, Chain)
    BY <1>30, StackSame
  <2> QED BY <1>1, <1>2, <2>3, <2>4, <2>5 DEF Session, MapIsHeld
<1>36. Grounded'
  <2>1. PICK names \in Seq(Ref) : Grounds(names)
    BY <1>2 DEF Session, Grounded
  <2>2. /\ Ascending(names)
        /\ \A m \in 1..Len(names) : names[m] \in DOMAIN contents
        /\ \A m \in 1..Len(names) : \E i \in 1..Len(Chain) : Within(names[m], Chain[i])
        /\ \A i \in 1..Len(Chain) :
             /\ Stands(contents, names, Chain[i], contents[Chain[i]])
             /\ Chain[i] \notin onDisk => \E m \in 1..Len(names) : names[m] = Chain[i]
        /\ \A l \in Unlisted : Stands(contents, names, l, keys[l])
    BY <2>1 DEF Grounds
  <2>3. \A m \in 1..Len(names) : names[m] # t /\ contents'[names[m]] = contents[names[m]]
    BY <1>14, <1>17, <2>2
  <2>4. \A r, c : Stands(contents, names, r, c) => Stands(contents', names, r, c)
    BY <2>2, <2>3, StandsOn
  <2>5. ASSUME NEW i \in 1..Len(Chain')
        PROVE  /\ Stands(contents', names, Chain'[i], contents'[Chain'[i]])
               /\ Chain'[i] \notin onDisk' => \E m \in 1..Len(names) : names[m] = Chain'[i]
    <3>1. CASE Chain'[i] = t
      <4>1. Stands(contents', names, t, contents'[t])
        BY <1>6, <1>15, <1>17, <2>2, <2>4
      <4> QED BY <1>1, <3>1, <4>1
    <3>2. CASE Chain'[i] # t
      <4>1. PICK j \in 1..Len(Chain) : Chain'[i] = Chain[j]
        BY <1>9, <3>2
      <4> QED BY <1>1, <1>30, <2>2, <2>4, <4>1
    <3> QED BY <3>1, <3>2
  <2>6. ASSUME NEW m \in 1..Len(names)
        PROVE  \E j \in 1..Len(Chain') : Within(names[m], Chain'[j])
    <3>1. PICK i \in 1..Len(Chain) : Within(names[m], Chain[i])
      BY <2>2
    <3>2. PICK j \in 1..Len(Chain') : Within(Chain[i], Chain'[j])
      BY <1>12
    <3>3. names[m] \in Ref /\ Chain[i] \in Ref /\ Chain'[j] \in Ref
      BY <1>4, <1>8, <1>9
    <3> QED BY <3>1, <3>2, <3>3, WithinTransitive
  <2>7. \A l \in Unlisted' : Stands(contents', names, l, keys'[l])
    BY <1>1, <1>6, <2>2, <2>4
  <2>8. \A m \in 1..Len(names) : names[m] \in DOMAIN contents'
    BY <1>17, <2>2
  <2> QED BY <2>2, <2>5, <2>6, <2>7, <2>8, GroundsNext
<1>37. InSession'
  BY <1>1, <1>3 DEF InSession
<1> QED BY <1>19, <1>22, <1>23, <1>25, <1>26, <1>27, <1>28, <1>29, <1>33, <1>34, <1>35, <1>36,
           <1>37
        DEF IInv, Session

LEMMA MergeScheduleStep == IInv /\ MergeSchedule => IInv'
<1> SUFFICES ASSUME IInv, MergeSchedule PROVE IInv'
  OBVIOUS
<1>1. /\ merge.pc = "schedule"
      /\ UNCHANGED <<keys, data, tmp, pc, session, writing, limit, err, history>>
  BY DEF MergeSchedule
<1> USE DEF session, history
<1>2. InSession /\ Session
  BY <1>1, EmptyFacts DEF IInv, BetweenSessions
<1>3. /\ merge \in [pc : {"none", "write", "schedule", "publish"}, start : Nat,
                    slice : Seq(Ref), lines : Seq(File)]
      /\ deleted \in Seq(File)
  BY TypeFacts DEF IInv, Types
<1>4. /\ merge' \in [pc : {"none", "write", "schedule", "publish"}, start : Nat,
                     slice : Seq(Ref), lines : Seq(File)]
      /\ merge'.start = merge.start /\ merge'.slice = merge.slice
      /\ merge'.pc \in {"schedule", "publish"}
      /\ merge'.pc # "schedule" => merge'.lines = <<>>
      /\ deleted' \in Seq(File)
      /\ Planned' = Planned
  <2>1. CASE merge.lines = <<>>
    <3>1. merge' = [merge EXCEPT !.pc = "publish"] /\ deleted' = deleted
      BY <2>1 DEF MergeSchedule
    <3> QED BY <1>3, <2>1, <3>1 DEF Planned
  <2>2. CASE merge.lines # <<>>
    <3>1. /\ deleted' = Append(deleted, Head(merge.lines))
          /\ merge' = [merge EXCEPT !.lines = Tail(@)]
      BY <2>2 DEF MergeSchedule
    <3>2. /\ Head(merge.lines) \in File /\ Tail(merge.lines) \in Seq(File)
          /\ deleted' \in Seq(File)
      BY <1>3, <2>2, <3>1, HeadTailProperties
    <3>3. /\ merge' \in [pc : {"none", "write", "schedule", "publish"}, start : Nat,
                         slice : Seq(Ref), lines : Seq(File)]
          /\ merge'.start = merge.start /\ merge'.slice = merge.slice
          /\ merge'.pc = "schedule" /\ merge'.lines = Tail(merge.lines)
      BY <1>1, <1>3, <3>1, <3>2
    <3>4. Append(deleted, Head(merge.lines)) \o Tail(merge.lines) = deleted \o merge.lines
      BY <1>3, <2>2, <3>2
    <3> QED BY <3>1, <3>2, <3>3, <3>4 DEF Planned
  <2> QED BY <2>1, <2>2
<1>5. /\ Target' = Target /\ Current' = Current /\ Chain' = Chain
      /\ Mentioned' = Mentioned /\ Unlisted' = Unlisted
  <2>1. Target' = Target
    BY <1>4 DEF Target
  <2> QED BY <1>1, <1>4, <2>1 DEF Current, Chain, Mentioned, Unlisted
<1>6. Types'
  <2>1. TypeOK'
    BY <1>1, <1>4 DEF IInv, Types, TypeOK
  <2> QED BY <1>1, <1>4, <2>1 DEF IInv, Types
<1>7. KeysHaveData' /\ KeysListedFirst'
  BY <1>1, <1>4 DEF IInv, KeysHaveData, KeysListedFirst
<1>8. /\ ListCovers' /\ NotPlanned' /\ UnlistedKept' /\ ListStored' /\ FilesWritten'
      /\ Grounded'
  <2>1. ListCovers' /\ NotPlanned' /\ UnlistedKept'
    BY <1>1, <1>2, <1>4, <1>5 DEF Session, ListCovers, NotPlanned, UnlistedKept
  <2>2. ListStored' /\ FilesWritten'
    BY <1>1, <1>2, <1>5 DEF Session, ListStored, FilesWritten
  <2>3. PICK names \in Seq(Ref) : Grounds(names)
    BY <1>2 DEF Session, Grounded
  <2> QED BY <1>1, <1>5, <2>1, <2>2, <2>3, GroundsSame
<1>9. WrittenBy' /\ MergeInv'
  <2>1. Stack(contents, merge.slice)' = Stack(contents, merge.slice)
    BY <1>1, <1>4 DEF Stack
  <2>2. WrittenBy'
    BY <1>1, <1>2, <1>4 DEF Session, WrittenBy, Unwritten
  <2>3. MergeInv'
    BY <1>1, <1>2, <1>4, <1>5, <2>1 DEF Session, MergeInv
  <2> QED BY <2>2, <2>3
<1>10. MemoryInv' /\ MapIsHeld' /\ AllWritten' /\ ~clean'
  BY <1>1, <1>2, <1>5 DEF Session, MemoryInv, MapIsHeld, AllWritten, Unwritten, Stack
<1>11. InSession'
  BY <1>1, <1>2 DEF InSession
<1> QED BY <1>6, <1>7, <1>8, <1>9, <1>10, <1>11 DEF IInv, Session

LEMMA MergePublishStep == IInv /\ MergePublish => IInv'
<1> SUFFICES ASSUME IInv, MergePublish PROVE IInv'
  OBVIOUS
<1> DEFINE new == Splice(segments, merge.start, merge.slice, Target)
<1>1. /\ merge.pc = "publish" /\ segments' = new /\ merge' = NoMerge
      /\ UNCHANGED <<files, pc, memory, contents, onDisk, left, nextSegID, writing, limit, err,
                     history>>
  BY DEF MergePublish
<1> USE DEF files, history
<1>2. InSession /\ Session
  BY <1>1, EmptyFacts DEF IInv, BetweenSessions
<1>3. /\ pc \in {"open", "closing"} /\ merge.lines = <<>> /\ Target \in onDisk
  BY <1>1, <1>2 DEF Session, MergeInv
<1>4. new \in Seq(Ref) /\ Ascending(new)
  BY <1>1, <1>2, SliceFacts
<1>5. merge'.pc = "none" /\ merge'.lines = <<>>
  BY <1>1, EmptyFacts
<1>6. /\ Current = new /\ Current' = new /\ Chain' = Chain
      /\ Unlisted = left /\ Unlisted' = left
  BY <1>1, <1>5 DEF Current, Chain, Unlisted
<1>7. Planned' = Planned /\ Mentioned' = Mentioned
  BY <1>1, <1>3, <1>5 DEF Planned, Mentioned
<1>8. DOMAIN writing = {}
  BY <1>1, <1>2, <1>3 DEF Session, WrittenBy
<1>9. \A i \in 1..Len(new) : new[i] = Target \/ \E j \in 1..Len(segments) : new[i] = segments[j]
  <2>1. /\ segments \in Seq(Ref) /\ merge.slice \in Seq(Ref) /\ Target \in Ref
        /\ IsSlice(segments, merge.start, merge.slice)
    BY <1>1, <1>2, TypeFacts, SliceFacts
  <2> QED BY <2>1, SplicedFrom
<1>10. Types'
  <2>1. TypeOK'
    BY <1>1, <1>4, <1>5 DEF IInv, Types, TypeOK
  <2> QED BY <1>1, <2>1, EmptyFacts DEF IInv, Types
<1>11. KeysHaveData' /\ KeysListedFirst'
  BY <1>1, <1>7 DEF IInv, KeysHaveData, KeysListedFirst
<1>12. ListCovers' /\ NotPlanned' /\ UnlistedKept' /\ ListStored' /\ Grounded'
  <2>1. ListCovers' /\ NotPlanned' /\ UnlistedKept'
    BY <1>1, <1>2, <1>6, <1>7 DEF Session, ListCovers, NotPlanned, UnlistedKept
  <2>2. ListStored'
    <3> SUFFICES ASSUME NEW i \in 1..Len(new)
                 PROVE  IF new[i] \in onDisk
                        THEN new[i] \in DOMAIN keys /\ new[i] \in data /\ keys[new[i]] = contents[new[i]]
                        ELSE new[i] \notin data /\ new[i] \notin DOMAIN keys
      BY <1>1 DEF ListStored
    <3>1. CASE new[i] = Target
      <4> HIDE DEF new
      <4> QED BY <1>1, <1>2, <3>1 DEF Session, MergeInv
    <3>2. CASE new[i] # Target
      <4>1. PICK j \in 1..Len(segments) : new[i] = segments[j]
        BY <1>9, <3>2
      <4> HIDE DEF new
      <4>2. CASE segments[j] \in onDisk
        <5>1. /\ segments[j] \in DOMAIN keys /\ segments[j] \in data
              /\ keys[segments[j]] = contents[segments[j]]
          BY <1>2, <4>2 DEF Session, ListStored
        <5> QED BY <4>1, <4>2, <5>1
      <4>3. CASE segments[j] \notin onDisk
        <5>1. segments[j] \notin data /\ segments[j] \notin DOMAIN keys
          BY <1>2, <1>8, <4>3 DEF Session, ListStored
        <5> QED BY <4>1, <4>3, <5>1
      <4> QED BY <4>2, <4>3
    <3> QED BY <3>1, <3>2
  <2>3. PICK names \in Seq(Ref) : Grounds(names)
    BY <1>2 DEF Session, Grounded
  <2> QED BY <1>1, <1>6, <2>1, <2>2, <2>3, GroundsSame
<1>13. FilesWritten' /\ WrittenBy' /\ MergeInv'
  BY <1>1, <1>5, <1>8 DEF FilesWritten, WrittenBy, MergeInv
<1>14. MemoryInv'
  <2>1. /\ \A i \in 1..Len(segments) : segments[i] \in DOMAIN contents
        /\ Target \in DOMAIN contents
    BY <1>2, <1>3, TypeFacts DEF Session, MemoryInv
  <2>2. \A i \in 1..Len(new) : new[i] \in DOMAIN contents
    BY <1>9, <2>1
  <2>3. ASSUME pc = "open"
        PROVE  \A i \in 1..Len(new) : new[i][2] < nextSegID
    <3>1. \A i \in 1..Len(segments) : segments[i][2] < nextSegID
      BY <1>2, <2>3 DEF Session, MemoryInv
    <3>2. /\ merge.start + Len(merge.slice) - 1 \in 1..Len(segments)
          /\ Target[2] = segments[merge.start + Len(merge.slice) - 1][2]
      BY <1>1, <1>2, TypeFacts, SliceFacts, TargetProperties DEF Target
    <3> QED BY <1>9, <3>1, <3>2
  <2> HIDE DEF new
  <2> QED BY <1>1, <1>2, <2>2, <2>3 DEF Session, MemoryInv
<1>15. MapIsHeld' /\ AllWritten' /\ ~clean'
  BY <1>1, <1>2, <1>3, <1>6 DEF Session, MapIsHeld, AllWritten
<1>16. InSession'
  BY <1>1, <1>2 DEF InSession
<1> QED BY <1>10, <1>11, <1>12, <1>13, <1>14, <1>15, <1>16 DEF IInv, Session

-----------------------------------------------------------------------------
(* Calls on the database.                                                  *)

\* A memory segment that joins the list has no files yet.
LEMMA MemoryAppended ==
  ASSUME IInv, pc = "open", segments' = Append(segments, memory),
         UNCHANGED <<files, onDisk, left, writing, merge>>,
         \A r \in onDisk : contents'[r] = contents[r]
  PROVE  /\ segments' \in Seq(Ref) /\ Ascending(segments')
         /\ Len(segments') = Len(segments) + 1
         /\ \A i \in 1..Len(segments) : segments'[i] = segments[i]
         /\ segments'[Len(segments) + 1] = memory
         /\ Target' = Target /\ Planned' = Planned /\ Mentioned' = Mentioned
         /\ Unlisted' = Unlisted
         /\ Current' = Append(Current, memory)
         /\ ListCovers' /\ NotPlanned' /\ ListStored' /\ FilesWritten'
         /\ merge.pc # "none" => IsSlice(segments', merge.start, merge.slice)
<1> USE DEF files
<1>1. /\ InSession /\ Session /\ memory \in Ref /\ memory = <<nextSegID, nextSegID>>
      /\ nextSegID \in Nat
  BY MemoryApart
<1>2. memory \notin Mentioned
  BY MemoryApart
<1>3. /\ segments \in Seq(Ref) /\ Ascending(segments) /\ Len(segments) \in Nat
      /\ \A i \in 1..Len(segments) : segments[i][2] < nextSegID
  BY TypeFacts, MemoryApart
<1>4. segments' \in Seq(Ref) /\ Ascending(segments')
  BY <1>1, <1>3, AppendAscending
<1>5. /\ Len(segments') = Len(segments) + 1
      /\ \A i \in 1..Len(segments) : segments'[i] = segments[i]
      /\ segments'[Len(segments) + 1] = memory
  BY <1>1, <1>3, AppendProperties
<1>6. /\ Target' = Target /\ Planned' = Planned /\ Mentioned' = Mentioned
      /\ Unlisted' = Unlisted
  BY DEF Target, Planned, Mentioned, Unlisted
<1>7. ASSUME merge.pc # "none"
      PROVE  /\ IsSlice(segments', merge.start, merge.slice)
             /\ Append(Splice(segments, merge.start, merge.slice, Target), memory)
                  = Splice(segments', merge.start, merge.slice, Target)
  <2>1. /\ IsSlice(segments, merge.start, merge.slice) /\ merge.slice \in Seq(Ref)
        /\ Target \in Ref
    BY <1>1, <1>7, TypeFacts, SliceFacts
  <2>2. /\ IsSlice(Append(segments, memory), merge.start, merge.slice)
        /\ Append(Splice(segments, merge.start, merge.slice, Target), memory)
             = Splice(Append(segments, memory), merge.start, merge.slice, Target)
    <3>1. segments \in Seq(Ref) /\ memory \in Ref
      BY <1>1, <1>3
    <3> QED BY ONLY <2>1, <3>1, SpliceAppend
  <2> QED BY <2>2
<1>8. Current' = Append(Current, memory)
  BY <1>6, <1>7 DEF Current
<1>9. /\ Len(Current') = Len(Current) + 1 /\ Len(Current) \in Nat
      /\ \A i \in 1..Len(Current) : Current'[i] = Current[i]
      /\ Current'[Len(Current) + 1] = memory
  <2>1. Current \in Seq(Ref)
    BY <1>1, CurrentFacts
  <2> QED BY <1>1, <1>8, <2>1, AppendProperties
<1>10. /\ \A i \in 1..Len(Current') : i \in 1..Len(Current) \/ i = Len(Current) + 1
       /\ \A i \in 1..Len(segments') : i \in 1..Len(segments) \/ i = Len(segments) + 1
  BY <1>3, <1>5, <1>9
<1>11. /\ memory \notin Refs(Planned) /\ memory \notin onDisk /\ memory \notin data
       /\ memory \notin DOMAIN keys
  BY <1>2 DEF Mentioned
<1>12. ListCovers'
  <2> SUFFICES ASSUME NEW r \in Mentioned \ Unlisted
               PROVE  \E j \in 1..Len(Current') :
                        Current'[j] \in DOMAIN keys /\ Within(r, Current'[j])
    BY <1>6 DEF ListCovers
  <2>1. PICK i \in 1..Len(Current) : Current[i] \in DOMAIN keys /\ Within(r, Current[i])
    BY <1>1 DEF Session, ListCovers
  <2>2. i \in 1..Len(Current') /\ Current'[i] = Current[i]
    BY <1>9
  <2> QED BY <2>1, <2>2
<1>13. NotPlanned'
  <2>1. \A i \in 1..Len(Current) : Current[i] \notin Refs(Planned)
    BY <1>1 DEF Session, NotPlanned
  <2>2. \A i \in 1..Len(Current') : Current'[i] \notin Refs(Planned)
    BY <1>9, <1>10, <1>11, <2>1
  <2> QED BY <1>6, <2>2 DEF NotPlanned
<1>14. ListStored'
  <2> SUFFICES ASSUME NEW i \in 1..Len(segments')
               PROVE  LET r == segments'[i]
                      IN  IF r \in onDisk
                          THEN r \in DOMAIN keys /\ r \in data /\ keys[r] = contents'[r]
                          ELSE /\ r \notin data
                               /\ r \in DOMAIN keys =>
                                    r \in DOMAIN writing /\ <<"keys", r>> \notin tmp
    BY DEF ListStored
  <2>1. CASE i = Len(segments) + 1
    BY <1>5, <1>11, <2>1
  <2>2. CASE i \in 1..Len(segments)
    <3>1. LET r == segments[i]
          IN  IF r \in onDisk
              THEN r \in DOMAIN keys /\ r \in data /\ keys[r] = contents[r]
              ELSE /\ r \notin data
                   /\ r \in DOMAIN keys => r \in DOMAIN writing /\ <<"keys", r>> \notin tmp
      BY <1>1, <2>2 DEF Session, ListStored
    <3> QED BY <1>5, <2>2, <3>1
  <2> QED BY <1>10, <2>1, <2>2
<1>15. FilesWritten'
  BY <1>1, <1>6 DEF Session, FilesWritten
<1> QED BY <1>4, <1>5, <1>6, <1>7, <1>8, <1>12, <1>13, <1>14, <1>15

\* A merge under way does not see what calls do.
LEMMA MergeKept ==
  ASSUME IInv, pc = "open", UNCHANGED <<keys, data, pc, writing, merge, onDisk>>,
         \A r \in DOMAIN contents : r[2] < nextSegID => contents'[r] = contents[r],
         merge.pc # "none" => IsSlice(segments', merge.start, merge.slice)
  PROVE  WrittenBy' /\ MergeInv'
<1>1. /\ InSession /\ Session /\ memory = <<nextSegID, nextSegID>> /\ nextSegID \in Nat
      /\ \A i \in 1..Len(segments) : segments[i][2] < nextSegID
      /\ merge.pc # "none" => Target[2] < nextSegID
  BY MemoryApart
<1>2. Target' = Target
  BY DEF Target
<1>3. CASE merge.pc = "none"
  <2>1. DOMAIN writing = {} /\ merge = NoMerge
    BY <1>1, <1>3 DEF Session, WrittenBy, MergeInv
  <2> QED BY <1>3, <2>1, EmptyFacts DEF WrittenBy, MergeInv
<1>4. CASE merge.pc # "none"
  <2>1. \A i \in 1..Len(merge.slice) : contents'[merge.slice[i]] = contents[merge.slice[i]]
    <3> SUFFICES ASSUME NEW i \in 1..Len(merge.slice)
                 PROVE  contents'[merge.slice[i]] = contents[merge.slice[i]]
      OBVIOUS
    <3>1. merge.slice[i] \in Members(merge.slice)
      BY DEF Members
    <3>2. PICK j \in 1..Len(segments) : merge.slice[i] = segments[j]
      BY <1>1, <1>4, <3>1, SliceCovered
    <3>3. segments[j] \in DOMAIN contents /\ segments[j][2] < nextSegID
      BY <1>1 DEF Session, MemoryInv
    <3> QED BY <3>2, <3>3
  <2>2. Stack(contents', merge.slice) = Stack(contents, merge.slice)
    BY <2>1, StackSame
  <2>3. Stack(contents, merge.slice)' = Stack(contents', merge.slice)
    BY DEF Stack
  <2>4. Target[2] < nextSegID
    BY <1>1, <1>4
  <2>5. WrittenBy'
    <3>1. CASE merge.pc = "write"
      BY <1>1, <1>2, <2>2, <2>3, <3>1 DEF Session, WrittenBy
    <3>2. CASE merge.pc # "write"
      <4>1. DOMAIN writing = {}
        BY <1>1, <3>2 DEF Session, WrittenBy
      <4> QED BY <3>2, <4>1 DEF WrittenBy
    <3> QED BY <3>1, <3>2
  <2>6. MergeInv'
    <3>1. IsSlice(segments', merge.start, merge.slice) /\ Len(merge.slice) >= 2
      BY <1>1, <1>4 DEF Session, MergeInv
    <3>2. ASSUME merge.pc \in {"schedule", "publish"}
          PROVE  /\ Target \in onDisk /\ Target \in DOMAIN keys /\ Target \in data
                 /\ keys[Target] = contents'[Target]
                 /\ contents'[Target] = Merged(Stack(contents', merge.slice), merge.start = 1)
      <4>1. /\ Target \in onDisk /\ Target \in DOMAIN keys /\ Target \in data
            /\ keys[Target] = contents[Target]
            /\ contents[Target] = Merged(Stack(contents, merge.slice), merge.start = 1)
        BY <1>1, <3>2 DEF Session, MergeInv
      <4>2. contents'[Target] = contents[Target]
        BY <2>4, <4>1, TypeFacts
      <4> QED BY <2>2, <4>1, <4>2
    <3>3. merge.pc # "schedule" => merge.lines = <<>>
      BY <1>1 DEF Session, MergeInv
    <3> QED BY <1>2, <1>4, <2>3, <3>1, <3>2, <3>3 DEF MergeInv
  <2> QED BY <2>5, <2>6
<1> QED BY <1>3, <1>4

OnTop(all, list, r) ==
  /\ all \in Seq(Ref) /\ Len(all) = Len(list) + 1
  /\ \A i \in 1..Len(list) : all[i] = list[i]
  /\ all[Len(list) + 1] = r

\* An entry that reaches the segment on top of a list.
LEMMA ViewOfTopPut ==
  ASSUME NEW list \in Seq(Ref), NEW r \in Ref, NEW all, OnTop(all, list, r),
         NEW g, NEW h, h[r] \in Content,
         NEW k \in Key, NEW v \in Value \cup {Empty}, g[r] = Put(h[r], k, v),
         \A i \in 1..Len(list) : g[list[i]] = h[list[i]]
  PROVE  View(Stack(g, all)) = [View(Stack(h, all)) EXCEPT ![k] = v]
<1> DEFINE layers == Stack(h, all)
           more == Stack(g, all)
<1>1. /\ all \in Seq(Ref) /\ Len(all) = Len(list) + 1 /\ Len(list) \in Nat
      /\ \A i \in 1..Len(list) : all[i] = list[i]
      /\ all[Len(list) + 1] = r
  BY DEF OnTop
<1>2. /\ Len(layers) = Len(all) /\ \A i \in 1..Len(all) : layers[i] = h[all[i]]
      /\ Len(more) = Len(all) /\ \A i \in 1..Len(all) : more[i] = g[all[i]]
  BY <1>1, StackProperties
<1> HIDE DEF layers, more
<1>3. Len(layers) \in Nat /\ Len(layers) >= 1 /\ Len(more) = Len(layers)
  BY <1>1, <1>2
<1>4. \A i \in 1..Len(layers) : i # Len(layers) => more[i] = layers[i]
  <2> TAKE i \in 1..Len(layers)
  <2> HAVE i # Len(layers)
  <2>1. i \in 1..Len(list) /\ i \in 1..Len(all)
    BY <1>1, <1>2
  <2> QED BY <1>1, <1>2, <2>1
<1>5. /\ layers[Len(layers)] \in Content
      /\ more[Len(layers)] = Put(layers[Len(layers)], k, v)
  BY <1>1, <1>2
<1>6. k \in Key /\ v \in Value \cup {Empty}
  OBVIOUS
<1>7. View(more) = [View(layers) EXCEPT ![k] = v]
  BY ONLY <1>3, <1>4, <1>5, <1>6, ViewOfPut
<1> QED BY <1>7 DEF layers, more

\* The same for a new segment r.
AddsTop(g, all, r, h, list, k, v) ==
  /\ list \in Seq(Ref) /\ r \in Ref /\ OnTop(all, list, r)
  /\ k \in Key /\ v \in Value \cup {Empty}
  /\ g[r] = Put(NoEntries, k, v)
  /\ \A i \in 1..Len(list) : g[list[i]] = h[list[i]]

LEMMA ViewOfNewTop ==
  ASSUME NEW g, NEW all, NEW r, NEW h, NEW list, NEW k, NEW v,
         AddsTop(g, all, r, h, list, k, v)
  PROVE  View(Stack(g, all)) = [View(Stack(h, list)) EXCEPT ![k] = v]
<1> USE DEF AddsTop
<1> DEFINE layers == Stack(h, list)
           mid == [i \in 1..(Len(list) + 1) |-> IF i = Len(list) + 1 THEN NoEntries ELSE layers[i]]
           more == Stack(g, all)
<1>1. /\ all \in Seq(Ref) /\ Len(all) = Len(list) + 1 /\ Len(list) \in Nat
      /\ \A i \in 1..Len(list) : all[i] = list[i]
      /\ all[Len(list) + 1] = r
  BY DEF OnTop
<1>2. /\ Len(layers) = Len(list) /\ \A i \in 1..Len(list) : layers[i] = h[list[i]]
      /\ Len(more) = Len(all) /\ \A i \in 1..Len(all) : more[i] = g[all[i]]
  BY <1>1, StackProperties
<1> HIDE DEF layers, more
<1>3. /\ Len(mid) = Len(list) + 1 /\ mid[Len(list) + 1] = NoEntries
      /\ \A i \in 1..Len(list) : mid[i] = layers[i]
  <2>1. Len(list) + 1 \in Nat
    BY <1>1
  <2>2. Len(mid) = Len(list) + 1
    BY <2>1, LenProperties
  <2> QED BY <1>1, <2>1, <2>2
<1> HIDE DEF mid
<1>4. View(mid) = View(layers)
  BY <1>1, <1>2, <1>3, ViewWithEmptyTop
<1>5. \A i \in 1..Len(mid) : i # Len(mid) => more[i] = mid[i]
  <2> TAKE i \in 1..Len(mid)
  <2> HAVE i # Len(mid)
  <2>1. i \in 1..Len(list) /\ i \in 1..Len(all)
    BY <1>1, <1>3
  <2> QED BY <1>1, <1>2, <1>3, <2>1
<1>6. /\ Len(mid) \in Nat /\ Len(mid) >= 1 /\ Len(more) = Len(mid)
  BY <1>1, <1>2, <1>3
<1>7. /\ mid[Len(mid)] \in Content
      /\ more[Len(mid)] = Put(mid[Len(mid)], k, v)
  <2>1. NoEntries \in Content
    BY DEF NoEntries, Content, Entry
  <2> QED BY <1>1, <1>2, <1>3, <2>1
<1>8. k \in Key /\ v \in Value \cup {Empty}
  OBVIOUS
<1>9. View(more) = [View(mid) EXCEPT ![k] = v]
  BY ONLY <1>5, <1>6, <1>7, <1>8, ViewOfPut
<1> QED BY <1>4, <1>9 DEF layers, more

\* Every segment of the list with the finished merge in it holds something.
LEMMA CurrentHeld ==
  ASSUME IInv, InSession
  PROVE  \A i \in 1..Len(Current) : Current[i] \in DOMAIN contents
<1>1. \A i \in 1..Len(segments) : segments[i] \in DOMAIN contents
  BY DEF IInv, Session, MemoryInv
<1>2. CASE merge.pc \in {"schedule", "publish"}
  <2>1. /\ segments \in Seq(Ref) /\ merge.slice \in Seq(Ref) /\ Target \in Ref
        /\ IsSlice(segments, merge.start, merge.slice)
    BY <1>2, TypeFacts, SliceFacts
  <2>2. Target \in DOMAIN contents
    BY <1>2, TypeFacts DEF IInv, Session, MergeInv
  <2>3. \A i \in 1..Len(Splice(segments, merge.start, merge.slice, Target)) :
          \/ Splice(segments, merge.start, merge.slice, Target)[i] = Target
          \/ \E j \in 1..Len(segments) :
               Splice(segments, merge.start, merge.slice, Target)[i] = segments[j]
    BY <2>1, SplicedFrom
  <2> QED BY <1>1, <1>2, <2>2, <2>3 DEF Current
<1>3. CASE ~(merge.pc \in {"schedule", "publish"})
  BY <1>1, <1>3 DEF Current
<1> QED BY <1>2, <1>3

\* What a call changes in the memory segment alone, the segment itself stands for:
\* nothing else was made of it.
LEMMA GroundedPut ==
  ASSUME IInv, pc = "open", Chain' = Chain, Unlisted' = Unlisted, UNCHANGED <<keys, onDisk>>,
         DOMAIN contents' = DOMAIN contents,
         \A r \in DOMAIN contents : r # memory => contents'[r] = contents[r]
  PROVE  Grounded'
<1>1. /\ InSession /\ Session /\ nextSegID \in Nat /\ memory = <<nextSegID, nextSegID>>
      /\ memory \in Ref /\ memory # Null /\ memory \notin Mentioned
      /\ \A i \in 1..Len(Current) : Current[i][2] < nextSegID
  BY MemoryApart
<1>2. PICK names \in Seq(Ref) : Grounds(names)
  BY <1>1 DEF Session, Grounded
<1>3. /\ Ascending(names) /\ \A m \in 1..Len(names) : names[m] \in DOMAIN contents
      /\ \A i \in 1..Len(Chain) :
           /\ Stands(contents, names, Chain[i], contents[Chain[i]])
           /\ Chain[i] \notin onDisk => \E m \in 1..Len(names) : names[m] = Chain[i]
      /\ \A m \in 1..Len(names) : \E i \in 1..Len(Chain) : Within(names[m], Chain[i])
      /\ \A l \in Unlisted : Stands(contents, names, l, keys[l])
  BY <1>2 DEF Grounds
<1> DEFINE n == Len(Current) + 1
<1>4. /\ Chain \in Seq(Ref) /\ Ascending(Chain) /\ Len(Chain) = n /\ Len(Current) \in Nat
      /\ Chain[n] = memory /\ n \in 1..Len(Chain)
      /\ \A i \in 1..Len(Chain) : i # n => i \in 1..Len(Current) /\ Chain[i] = Current[i]
  <2>1. /\ Chain \in Seq(Ref) /\ Ascending(Chain) /\ Len(Current) \in Nat
        /\ Len(Chain) = Len(Current) + 1 /\ Chain[Len(Current) + 1] = memory
        /\ \A i \in 1..Len(Current) : Chain[i] = Current[i]
    BY <1>1, ChainFacts, ChainAscends, CurrentFacts
  <2> QED BY <2>1
<1> HIDE DEF n
<1>5. PICK m0 \in 1..Len(names) : names[m0] = memory
  BY <1>1, <1>3, <1>4 DEF Mentioned
<1>6. ASSUME NEW i \in 1..Len(Chain), i # n
      PROVE  Stands(contents', names, Chain[i], contents'[Chain[i]])
  <2>1. Chain[i] \in DOMAIN contents /\ Chain[i] # memory
    <3>1. i \in 1..Len(Current) /\ Chain[i] = Current[i]
      BY <1>4, <1>6
    <3>2. Current[i][2] < nextSegID /\ Current[i] \in DOMAIN contents
      BY <1>1, <3>1, CurrentHeld
    <3>3. Current[i] # memory
      BY <1>1, <3>2
    <3> QED BY <3>1, <3>2, <3>3
  <2>2. ASSUME NEW m \in 1..Len(names), Within(names[m], Chain[i])
        PROVE  contents[names[m]] = contents'[names[m]]
    <3>1. names[m] # memory
      BY <1>4, <1>6, <2>2, AscendingApart
    <3> QED BY <1>3, <3>1
  <2>3. Stands(contents, names, Chain[i], contents[Chain[i]])
    BY <1>3
  <2>4. Stands(contents', names, Chain[i], contents[Chain[i]])
    BY <1>3, <2>2, <2>3, StandsOn
  <2> QED BY <2>1, <2>4
<1>7. Stands(contents', names, memory, contents'[memory])
  BY <1>3, <1>5, StandsItself
<1>8. ASSUME NEW l \in Unlisted
      PROVE  Stands(contents', names, l, keys[l])
  <2>1. l \in Ref /\ l[2] < nextSegID
    BY <1>1, TypeFacts DEF Session, UnlistedKept
  <2>2. ~Within(memory, l)
    BY <1>1, <2>1 DEF Within, Ref
  <2>3. \A m \in 1..Len(names) : Within(names[m], l) => contents[names[m]] = contents'[names[m]]
    BY <1>3, <2>2
  <2>4. Stands(contents, names, l, keys[l])
    BY <1>3
  <2> QED BY <1>3, <2>3, <2>4, StandsOn
<1>9. /\ \A m \in 1..Len(names) : names[m] \in DOMAIN contents'
      /\ \A m \in 1..Len(names) : \E i \in 1..Len(Chain') : Within(names[m], Chain'[i])
      /\ \A l \in Unlisted' : Stands(contents', names, l, keys'[l])
  BY <1>3, <1>8
<1>10. \A i \in 1..Len(Chain') :
         /\ Stands(contents', names, Chain'[i], contents'[Chain'[i]])
         /\ Chain'[i] \notin onDisk' => \E m \in 1..Len(names) : names[m] = Chain'[i]
  BY <1>3, <1>4, <1>6, <1>7
<1> QED BY <1>3, <1>9, <1>10, GroundsNext

\* A new memory segment stands for itself, above all the others.
LEMMA GroundedSwap ==
  ASSUME IInv, pc = "open", NEW new, new = <<nextSegID + 1, nextSegID + 1>>,
         Chain' = Append(Chain, new), Unlisted' = Unlisted, UNCHANGED <<keys, onDisk>>,
         DOMAIN contents' = DOMAIN contents \cup {new},
         \A r \in DOMAIN contents : r # new => contents'[r] = contents[r]
  PROVE  Grounded'
<1>1. /\ InSession /\ Session /\ nextSegID \in Nat /\ memory = <<nextSegID, nextSegID>>
      /\ memory \in Ref /\ memory # Null /\ memory \in DOMAIN contents
      /\ \A i \in 1..Len(Current) : Current[i][2] < nextSegID
  BY MemoryApart
<1>2. new \in Ref /\ new[1] = nextSegID + 1 /\ new[2] = nextSegID + 1 /\ nextSegID + 1 \in Nat
  BY <1>1 DEF Ref
<1>3. PICK names \in Seq(Ref) : Grounds(names)
  BY <1>1 DEF Session, Grounded
<1>4. /\ Ascending(names) /\ \A m \in 1..Len(names) : names[m] \in DOMAIN contents
      /\ \A i \in 1..Len(Chain) :
           /\ Stands(contents, names, Chain[i], contents[Chain[i]])
           /\ Chain[i] \notin onDisk => \E m \in 1..Len(names) : names[m] = Chain[i]
      /\ \A m \in 1..Len(names) : \E i \in 1..Len(Chain) : Within(names[m], Chain[i])
      /\ \A l \in Unlisted : Stands(contents, names, l, keys[l])
  BY <1>3 DEF Grounds
<1>5. Chain \in Seq(Ref) /\ Len(Chain) \in Nat
  BY <1>1, ChainFacts
<1>6. ASSUME NEW i \in 1..Len(Chain)
      PROVE  Chain[i][2] < nextSegID + 1 /\ Chain[i] \in DOMAIN contents /\ Chain[i] \in Ref
  <2>1. CASE i \in 1..Len(Current)
    <3>1. Chain[i] = Current[i] /\ Current[i] \in Ref /\ Current[i][2] < nextSegID
      BY <1>1, <2>1, ChainFacts, CurrentFacts
    <3>2. Current[i][2] \in Nat
      BY <3>1 DEF Ref
    <3> QED BY <1>1, <2>1, <3>1, <3>2, CurrentHeld
  <2>2. CASE i \notin 1..Len(Current)
    <3>1. Chain[i] = memory
      BY <1>1, <2>2, ChainFacts, CurrentFacts
    <3> QED BY <1>1, <3>1
  <2> QED BY <2>1, <2>2
<1>7. ASSUME NEW m \in 1..Len(names)
      PROVE  names[m][2] < nextSegID + 1 /\ names[m] # new
  <2>1. PICK i \in 1..Len(Chain) : Within(names[m], Chain[i])
    BY <1>4
  <2>2. names[m] \in Ref /\ names[m][2] <= Chain[i][2]
    BY <2>1 DEF Within
  <2>3. names[m][2] \in Nat /\ Chain[i][2] \in Nat
    BY <1>6, <2>2 DEF Ref
  <2> QED BY <1>1, <1>2, <1>6, <2>2, <2>3
<1> DEFINE more == Append(names, new)
<1>8. more \in Seq(Ref) /\ Ascending(more)
  BY <1>2, <1>4, <1>7, AppendAscending
<1>9. /\ Len(more) = Len(names) + 1 /\ Len(names) \in Nat /\ more[Len(names) + 1] = new
      /\ \A m \in 1..Len(names) : more[m] = names[m]
      /\ Len(Chain') = Len(Chain) + 1 /\ Chain'[Len(Chain) + 1] = new
      /\ \A i \in 1..Len(Chain) : Chain'[i] = Chain[i]
  BY <1>2, <1>5, AppendProperties
<1>10. ASSUME NEW r, NEW c, Stands(contents, names, r, c)
       PROVE  Stands(contents', more, r, c)
  <2>1. \A m \in 1..Len(names) : Within(names[m], r) => contents[names[m]] = contents'[names[m]]
    BY <1>4, <1>7
  <2>2. Stands(contents', names, r, c)
    BY <1>4, <1>10, <2>1, StandsOn
  <2> QED BY <1>2, <2>2, StandsBelow
<1> HIDE DEF more
<1>11. /\ \A m \in 1..Len(more) : m \in 1..Len(names) \/ m = Len(names) + 1
       /\ \A i \in 1..Len(Chain') : i \in 1..Len(Chain) \/ i = Len(Chain) + 1
       /\ Len(names) + 1 \in 1..Len(more) /\ Len(Chain) + 1 \in 1..Len(Chain')
       /\ \A m \in 1..Len(names) : m \in 1..Len(more)
       /\ \A i \in 1..Len(Chain) : i \in 1..Len(Chain')
  BY <1>5, <1>9
<1>12. \A m \in 1..Len(more) :
         /\ more[m] \in DOMAIN contents'
         /\ \E i \in 1..Len(Chain') : Within(more[m], Chain'[i])
  <2> TAKE m \in 1..Len(more)
  <2>1. CASE m \in 1..Len(names)
    <3>1. PICK i \in 1..Len(Chain) : Within(names[m], Chain[i])
      BY <1>4, <2>1
    <3> QED BY <1>4, <1>9, <1>11, <2>1, <3>1
  <2>2. CASE m = Len(names) + 1
    BY <1>2, <1>9, <1>11, <2>2, WithinItself
  <2> QED BY <1>11, <2>1, <2>2
<1>13. ASSUME NEW i \in 1..Len(Chain')
       PROVE  /\ Stands(contents', more, Chain'[i], contents'[Chain'[i]])
              /\ Chain'[i] \notin onDisk => \E m \in 1..Len(more) : more[m] = Chain'[i]
  <2>1. CASE i \in 1..Len(Chain)
    <3>1. Chain[i] # new /\ contents'[Chain[i]] = contents[Chain[i]]
      BY <1>1, <1>2, <1>6, <2>1
    <3>2. Stands(contents', more, Chain[i], contents[Chain[i]])
      BY <1>4, <1>10, <2>1
    <3>3. Chain[i] \notin onDisk => \E m \in 1..Len(more) : more[m] = Chain[i]
      BY <1>4, <1>9, <1>11, <2>1
    <3> QED BY <1>9, <2>1, <3>1, <3>2, <3>3
  <2>2. CASE i = Len(Chain) + 1
    <3>1. Stands(contents', more, more[Len(names) + 1], contents'[more[Len(names) + 1]])
      BY <1>8, <1>11, StandsItself
    <3> QED BY <1>9, <1>11, <2>2, <3>1
  <2> QED BY <1>11, <2>1, <2>2
<1>14. \A l \in Unlisted' : Stands(contents', more, l, keys'[l])
  BY <1>4, <1>10
<1> QED BY <1>8, <1>12, <1>13, <1>14, GroundsNext

\* A call that the memory segment has room for.
LEMMA PutInMemory ==
  ASSUME IInv, NEW k \in Key, NEW e \in Value \cup {Empty}, Write(k, e),
         ~(Bytes(contents[memory]) > MaxMemory)
  PROVE  IInv'
<1>1. /\ pc = "open"
      /\ contents' = [contents EXCEPT ![memory] = Put(@, k, e)]
      /\ map' = [map EXCEPT ![k] = e]
      /\ UNCHANGED <<segments, memory, nextSegID>>
      /\ UNCHANGED <<files, pc, onDisk, left, writing, merge, limit, err, clean, crashes>>
  BY DEF Write
<1> USE DEF files
<1>2. /\ InSession /\ Session /\ nextSegID \in Nat /\ memory = <<nextSegID, nextSegID>>
      /\ memory \in Ref /\ memory # Null /\ memory \in DOMAIN contents
      /\ \A i \in 1..Len(Current) : Current[i][2] < nextSegID
      /\ memory \notin Mentioned
  BY <1>1, MemoryApart
<1>3. /\ contents \in [DOMAIN contents -> Content] /\ contents[memory] \in Content
      /\ Put(contents[memory], k, e) \in Content
  <2>1. contents \in [DOMAIN contents -> Content] /\ contents[memory] \in Content
    BY <1>2, TypeFacts
  <2> QED BY <2>1 DEF Put, Content, Entry
<1>4. /\ DOMAIN contents' = DOMAIN contents /\ contents' \in [DOMAIN contents' -> Content]
      /\ contents'[memory] = Put(contents[memory], k, e)
      /\ \A r \in DOMAIN contents : r # memory => contents'[r] = contents[r]
  BY <1>1, <1>2, <1>3
<1>5. Types'
  <2>1. map' \in [Key -> Value \cup {Empty}]
    BY <1>1 DEF IInv, Types, TypeOK
  <2>2. TypeOK'
    BY <1>1, <1>4, <2>1 DEF IInv, Types, TypeOK
  <2> QED BY <1>1, <1>4, <2>2 DEF IInv, Types
<1>6. /\ Target' = Target /\ Planned' = Planned /\ Mentioned' = Mentioned
      /\ Unlisted' = Unlisted /\ Current' = Current /\ Chain = Append(Current, memory)
      /\ Chain' = Append(Current, memory)
  <2>1. Target' = Target
    BY <1>1 DEF Target
  <2> QED BY <1>1, <1>2, <2>1 DEF Planned, Mentioned, Unlisted, Current, Chain
<1>7. KeysHaveData' /\ KeysListedFirst'
  BY <1>1, <1>6 DEF IInv, KeysHaveData, KeysListedFirst
<1>8. ListCovers' /\ NotPlanned' /\ UnlistedKept' /\ FilesWritten'
  BY <1>1, <1>2, <1>6 DEF Session, ListCovers, NotPlanned, UnlistedKept, FilesWritten
<1>9. ListStored'
  <2>1. \A r \in onDisk : contents'[r] = contents[r]
    BY <1>2, <1>4, TypeFacts DEF Mentioned
  <2> QED BY <1>1, <1>2, <1>6, <2>1 DEF Session, ListStored
<1>10. WrittenBy' /\ MergeInv'
  <2>1. merge.pc # "none" => IsSlice(segments', merge.start, merge.slice)
    BY <1>1, <1>2 DEF Session, MergeInv
  <2>2. \A r \in DOMAIN contents : r[2] < nextSegID => r # memory
    BY <1>2
  <2> QED BY <1>1, <1>4, <2>1, <2>2, MergeKept
<1>11. MemoryInv' /\ AllWritten' /\ ~clean'
  BY <1>1, <1>2, <1>4 DEF Session, MemoryInv, AllWritten
<1>12. MapIsHeld'
  <2>1. Current \in Seq(Ref) /\ \A i \in 1..Len(Current) : Current[i] \in DOMAIN contents
    <3>1. Current \in Seq(Ref)
      BY <1>2, CurrentFacts
    <3> QED BY <1>2, <3>1, CurrentHeld
  <2>2. \A i \in 1..Len(Current) : contents'[Current[i]] = contents[Current[i]]
    <3> TAKE i \in 1..Len(Current)
    <3>1. Current[i] # memory
      BY <1>2
    <3> QED BY <1>4, <2>1, <3>1
  <2>3. View(Stack(contents', Append(Current, memory)))
          = [View(Stack(contents, Append(Current, memory))) EXCEPT ![k] = e]
    <3> DEFINE g == contents'
               h == contents
               list == Current
               all == Append(list, memory)
    <3>1. /\ list \in Seq(Ref) /\ memory \in Ref /\ h[memory] \in Content
          /\ k \in Key /\ e \in Value \cup {Empty} /\ g[memory] = Put(h[memory], k, e)
          /\ \A i \in 1..Len(list) : g[list[i]] = h[list[i]]
      BY <1>2, <1>3, <1>4, <2>1, <2>2
    <3>2. OnTop(all, list, memory)
      BY <1>2, <2>1, AppendProperties DEF OnTop
    <3> HIDE DEF g, h, list, all
    <3>3. View(Stack(g, all)) = [View(Stack(h, all)) EXCEPT ![k] = e]
      BY ONLY <3>1, <3>2, ViewOfTopPut
    <3> QED BY <3>3 DEF g, h, list, all
  <2>4. map = View(Stack(contents, Append(Current, memory)))
    BY <1>2, <1>6 DEF Session, MapIsHeld
  <2> QED BY <1>1, <1>6, <2>3, <2>4 DEF MapIsHeld
<1>13. Grounded'
  BY <1>1, <1>4, <1>6, GroundedPut
<1>14. InSession'
  BY <1>1, <1>2 DEF InSession
<1> QED BY <1>5, <1>7, <1>8, <1>9, <1>10, <1>11, <1>12, <1>13, <1>14 DEF IInv, Session

\* A call that swaps the memory segment first.
LEMMA PutAfterSwap ==
  ASSUME IInv, NEW k \in Key, NEW e \in Value \cup {Empty}, Write(k, e),
         Bytes(contents[memory]) > MaxMemory
  PROVE  IInv'
<1> DEFINE new == <<nextSegID + 1, nextSegID + 1>>
<1>1. /\ pc = "open"
      /\ nextSegID < MaxSegID /\ nextSegID' = nextSegID + 1
      /\ segments' = Append(segments, memory)
      /\ memory' = new
      /\ contents' = With(contents, new, Put(NoEntries, k, e))
      /\ map' = [map EXCEPT ![k] = e]
      /\ UNCHANGED <<files, pc, onDisk, left, writing, merge, limit, err, clean, crashes>>
  BY DEF Write
<1> USE DEF files
<1>2. /\ InSession /\ Session /\ nextSegID \in Nat /\ memory = <<nextSegID, nextSegID>>
      /\ memory \in Ref /\ memory # Null /\ memory \in DOMAIN contents
      /\ \A i \in 1..Len(segments) : segments[i][2] < nextSegID
      /\ \A i \in 1..Len(Current) : Current[i][2] < nextSegID
      /\ new \notin Mentioned
  <2>1. \A n \in Nat : n >= nextSegID => <<n, n>> \notin Mentioned
    BY <1>1, MemoryApart
  <2>2. nextSegID \in Nat
    BY <1>1, MemoryApart
  <2>3. new \notin Mentioned
    BY <2>1, <2>2
  <2> QED BY <1>1, <2>3, MemoryApart
<1>3. new \in Ref /\ new # Null /\ new # memory
  <2>1. new \in Ref /\ new # memory
    BY <1>2 DEF Ref
  <2> QED BY <2>1, RecoveryAssumption
<1>4. Put(NoEntries, k, e) \in Content
  BY DEF Put, NoEntries, Content, Entry
<1>5. /\ DOMAIN contents' = DOMAIN contents \cup {new}
      /\ contents' \in [DOMAIN contents' -> Content]
      /\ contents'[new] = Put(NoEntries, k, e)
      /\ \A r \in DOMAIN contents : r # new => contents'[r] = contents[r]
  <2> HIDE DEF new
  <2> QED BY <1>1, <1>4, TypeFacts DEF With
<1>6. \A r \in onDisk : contents'[r] = contents[r]
  BY <1>2, <1>5, TypeFacts DEF Mentioned
<1>7. /\ segments' \in Seq(Ref) /\ Ascending(segments')
      /\ Len(segments') = Len(segments) + 1
      /\ \A i \in 1..Len(segments) : segments'[i] = segments[i]
      /\ segments'[Len(segments) + 1] = memory
      /\ Target' = Target /\ Planned' = Planned /\ Mentioned' = Mentioned
      /\ Unlisted' = Unlisted
      /\ Current' = Append(Current, memory)
      /\ ListCovers' /\ NotPlanned' /\ ListStored' /\ FilesWritten'
      /\ merge.pc # "none" => IsSlice(segments', merge.start, merge.slice)
  BY <1>1, <1>6, MemoryAppended
<1>8. Types'
  <2>1. map' \in [Key -> Value \cup {Empty}]
    BY <1>1 DEF IInv, Types, TypeOK
  <2>2. nextSegID' \in 0..MaxSegID
    BY <1>1, <1>2, RecoveryAssumption
  <2>3. DOMAIN contents' \subseteq Ref /\ onDisk' \subseteq DOMAIN contents'
    BY <1>1, <1>3, <1>5, TypeFacts
  <2>4. memory' \in Ref \cup {Null}
    BY <1>1, <1>3
  <2>5. TypeOK'
    BY <1>1, <1>5, <1>7, <2>1, <2>2, <2>3, <2>4 DEF IInv, Types, TypeOK
  <2> QED BY <1>1, <1>5, <2>5 DEF IInv, Types
<1>9. KeysHaveData' /\ KeysListedFirst'
  BY <1>1, <1>7 DEF IInv, KeysHaveData, KeysListedFirst
<1>10. \A i \in 1..Len(segments) : segments[i] \in DOMAIN contents /\ segments[i] # new
  <2> TAKE i \in 1..Len(segments)
  <2>1. segments[i] \in DOMAIN contents
    BY <1>2 DEF Session, MemoryInv
  <2>2. segments[i][2] < nextSegID
    BY <1>2
  <2> QED BY <1>2, <2>1, <2>2
<1>11. WrittenBy' /\ MergeInv'
  <2>1. \A r \in DOMAIN contents : r[2] < nextSegID => r # new
    BY <1>2
  <2> QED BY <1>1, <1>5, <1>7, <2>1, MergeKept
<1>12. MemoryInv' /\ AllWritten' /\ ~clean'
  <2>1. \A i \in 1..Len(segments') : i \in 1..Len(segments) \/ i = Len(segments) + 1
    BY <1>7, TypeFacts
  <2>2. \A i \in 1..Len(segments') : segments'[i] \in DOMAIN contents'
    BY <1>2, <1>5, <1>7, <1>10, <2>1
  <2>3. \A i \in 1..Len(segments') : segments'[i][2] < nextSegID + 1
    <3> TAKE i \in 1..Len(segments')
    <3>1. CASE i \in 1..Len(segments)
      <4>1. segments[i][2] < nextSegID /\ segments[i] \in Ref
        BY <1>2, <3>1, TypeFacts
      <4>2. segments[i][2] \in Nat
        BY <4>1 DEF Ref
      <4> QED BY <1>2, <1>7, <3>1, <4>1, <4>2
    <3>2. CASE i = Len(segments) + 1
      BY <1>2, <1>7, <3>2
    <3> QED BY <2>1, <3>1, <3>2
  <2>4. new \in DOMAIN contents'
    BY <1>5
  <2> QED BY <1>1, <1>2, <2>2, <2>3, <2>4 DEF Session, MemoryInv, AllWritten
<1>13. MapIsHeld'
  <2> DEFINE all == Append(Current, memory)
  <2>1. Current \in Seq(Ref) /\ \A i \in 1..Len(Current) : Current[i] \in DOMAIN contents
    <3>1. Current \in Seq(Ref)
      BY <1>2, CurrentFacts
    <3> QED BY <1>2, <3>1, CurrentHeld
  <2>2. /\ all \in Seq(Ref) /\ Len(all) = Len(Current) + 1 /\ Len(Current) \in Nat
        /\ \A i \in 1..Len(Current) : all[i] = Current[i]
        /\ all[Len(Current) + 1] = memory
    BY <1>2, <2>1, AppendProperties
  <2> HIDE DEF all
  <2>3. \A i \in 1..Len(all) : contents'[all[i]] = contents[all[i]]
    <3> TAKE i \in 1..Len(all)
    <3>1. CASE i \in 1..Len(Current)
      <4>1. Current[i] # new /\ Current[i] \in DOMAIN contents
        BY <1>2, <2>1, <3>1
      <4> QED BY <1>5, <2>2, <3>1, <4>1
    <3>2. CASE i = Len(Current) + 1
      BY <1>2, <1>3, <1>5, <2>2, <3>2
    <3> QED BY <2>2, <3>1, <3>2
  <2>4. View(Stack(contents', Append(all, new))) = [map EXCEPT ![k] = e]
    <3> DEFINE g == contents'
               h == contents
               more == Append(all, new)
    <3>1. /\ all \in Seq(Ref) /\ new \in Ref /\ k \in Key /\ e \in Value \cup {Empty}
          /\ g[new] = Put(NoEntries, k, e)
          /\ \A i \in 1..Len(all) : g[all[i]] = h[all[i]]
      BY <1>3, <1>5, <2>2, <2>3
    <3>2. OnTop(more, all, new)
      BY <1>3, <2>2, AppendProperties DEF OnTop
    <3> HIDE DEF g, new, more
    <3>3. Chain = all
      BY <1>2 DEF Chain, all
    <3>4. map = View(Stack(h, all))
      BY <1>2, <3>3 DEF Session, MapIsHeld
    <3>5. AddsTop(g, more, new, h, all, k, e)
      BY <3>1, <3>2 DEF AddsTop
    <3> HIDE DEF h
    <3>6. View(Stack(g, more)) = [View(Stack(h, all)) EXCEPT ![k] = e]
      BY ONLY <3>5, ViewOfNewTop
    <3> QED BY <3>4, <3>6 DEF g, more
  <2>5. Chain' = Append(all, new)
    BY <1>1, <1>2, <1>3, <1>7 DEF Chain, all
  <2> QED BY <1>1, <1>2, <2>4, <2>5 DEF Session, MapIsHeld
<1>14. Chain' = Append(Chain, new)
  BY <1>1, <1>2, <1>3, <1>7 DEF Chain
<1>15. Grounded'
  <2> HIDE DEF new
  <2>1. new = <<nextSegID + 1, nextSegID + 1>>
    BY DEF new
  <2> QED BY <1>1, <1>5, <1>7, <1>14, <2>1, GroundedSwap
<1>16. UnlistedKept'
  <2> SUFFICES ASSUME NEW l \in Unlisted
               PROVE  /\ l \in DOMAIN keys /\ l \notin Refs(Planned)
                      /\ \A i \in 1..Len(Chain') : Chain'[i] # l
                      /\ l[2] < nextSegID + 1
    BY <1>1, <1>7 DEF UnlistedKept
  <2>1. /\ l \in DOMAIN keys /\ l \notin Refs(Planned) /\ l[2] < nextSegID
        /\ \A i \in 1..Len(Chain) : Chain[i] # l
    BY <1>1, <1>2 DEF Session, UnlistedKept
  <2>2. l[2] \in Nat
    <3>1. l \in Ref
      BY <2>1, TypeFacts
    <3> QED BY <3>1 DEF Ref
  <2>3. l # new
    BY <1>2, <2>1, <2>2
  <2>4. \A i \in 1..Len(Chain') : Chain'[i] # l
    <3>1. Chain \in Seq(Ref) /\ Len(Chain) \in Nat
      BY <1>2, ChainFacts
    <3>2. /\ Len(Chain') = Len(Chain) + 1 /\ Chain'[Len(Chain) + 1] = new
          /\ \A i \in 1..Len(Chain) : Chain'[i] = Chain[i]
      BY <1>3, <1>14, <3>1, AppendProperties
    <3> HIDE DEF new
    <3>3. \A i \in 1..Len(Chain') : i \in 1..Len(Chain) \/ i = Len(Chain) + 1
      BY <3>1, <3>2
    <3> QED BY <2>1, <2>3, <3>2, <3>3
  <2> QED BY <1>2, <2>1, <2>2, <2>4
<1>17. InSession'
  BY <1>1, <1>2 DEF InSession
<1> QED BY <1>7, <1>8, <1>9, <1>11, <1>12, <1>13, <1>15, <1>16, <1>17 DEF IInv, Session

LEMMA WriteStep ==
  ASSUME IInv, NEW k \in Key, NEW e \in Value \cup {Empty}, Write(k, e)
  PROVE  IInv'
BY PutInMemory, PutAfterSwap

-----------------------------------------------------------------------------
(* closeWithMerge.                                                         *)

LEMMA CloseBeginStep ==
  ASSUME IInv, NEW count \in CloseCounts, CloseBegin(count)
  PROVE  IInv'
<1>1. /\ pc = "open" /\ merge = NoMerge /\ pc' \in {"closing", "flushing"} /\ limit' = count
      /\ segments' = Append(segments, memory) /\ memory' = Null
      /\ UNCHANGED <<files, contents, onDisk, left, nextSegID, writing, merge, err, history>>
  BY DEF CloseBegin
<1> USE DEF files, history
<1>2. InSession /\ Session /\ memory # Null /\ memory \in DOMAIN contents
  BY <1>1, MemoryApart
<1>3. /\ segments' \in Seq(Ref) /\ Ascending(segments')
      /\ Len(segments') = Len(segments) + 1
      /\ \A i \in 1..Len(segments) : segments'[i] = segments[i]
      /\ segments'[Len(segments) + 1] = memory
      /\ Target' = Target /\ Planned' = Planned /\ Mentioned' = Mentioned
      /\ Unlisted' = Unlisted
      /\ Current' = Append(Current, memory)
      /\ ListCovers' /\ NotPlanned' /\ ListStored' /\ FilesWritten'
  BY <1>1, MemoryAppended
<1>4. merge.pc = "none" /\ DOMAIN writing = {}
  <2>1. merge.pc = "none"
    BY <1>1, EmptyFacts
  <2> QED BY <1>1, <1>2, <2>1 DEF Session, WrittenBy
<1>5. Types'
  <2>1. limit' \in Nat
    BY <1>1, RecoveryAssumption
  <2>2. TypeOK'
    BY <1>1, <1>3, <2>1 DEF IInv, Types, TypeOK
  <2> QED BY <1>1, <2>2 DEF IInv, Types
<1>6. KeysHaveData' /\ KeysListedFirst'
  BY <1>1, <1>3 DEF IInv, KeysHaveData, KeysListedFirst
<1>7. WrittenBy' /\ MergeInv'
  BY <1>1, <1>4, EmptyFacts DEF WrittenBy, MergeInv
<1>8. MemoryInv'
  <2>1. \A i \in 1..Len(segments') : i \in 1..Len(segments) \/ i = Len(segments) + 1
    BY <1>3, TypeFacts
  <2>2. \A i \in 1..Len(segments') : segments'[i] \in DOMAIN contents
    BY <1>2, <1>3, <2>1 DEF Session, MemoryInv
  <2> QED BY <1>1, <2>2 DEF MemoryInv
<1>9. Chain' = Chain
  BY <1>1, <1>2, <1>3 DEF Chain
<1>10. MapIsHeld'
  BY <1>1, <1>2, <1>9 DEF Session, MapIsHeld
<1>11. UnlistedKept' /\ Grounded'
  <2>1. UnlistedKept'
    BY <1>1, <1>2, <1>3, <1>9 DEF Session, UnlistedKept
  <2>2. PICK names \in Seq(Ref) : Grounds(names)
    BY <1>2 DEF Session, Grounded
  <2> QED BY <1>1, <1>3, <1>9, <2>1, <2>2, GroundsSame
<1>12. AllWritten' /\ ~clean' /\ InSession'
  BY <1>1, <1>2 DEF Session, AllWritten, InSession
<1> QED BY <1>3, <1>5, <1>6, <1>7, <1>8, <1>10, <1>11, <1>12 DEF IInv, Session

\* A close that goes on to its next part: nobody merges or writes then.
LEMMA CloseGoesOn ==
  ASSUME IInv, InSession, merge = NoMerge, DOMAIN writing = {},
         pc # "open", pc' \in {"flushing", "deleting"}, pc' = "deleting" => Unwritten = {},
         UNCHANGED <<files, session, writing, merge, limit, err, history>>
  PROVE  IInv'
<1> USE DEF files, session, history
<1>1. Session /\ memory = Null
  BY DEF IInv, Session, MemoryInv
<1>2. /\ Target' = Target /\ Planned' = Planned /\ Mentioned' = Mentioned
      /\ Unlisted' = Unlisted /\ Current' = Current /\ Chain' = Chain
      /\ Unwritten' = Unwritten
  <2>1. Target' = Target
    BY DEF Target
  <2> QED BY <2>1 DEF Planned, Mentioned, Unlisted, Current, Chain, Unwritten
<1>3. Types'
  <2>1. TypeOK'
    BY DEF IInv, Types, TypeOK
  <2> QED BY <2>1 DEF IInv, Types
<1>4. KeysHaveData' /\ KeysListedFirst'
  BY <1>2 DEF IInv, KeysHaveData, KeysListedFirst
<1>5. ListCovers' /\ NotPlanned' /\ UnlistedKept' /\ ListStored' /\ FilesWritten'
  BY <1>1, <1>2
     DEF Session, ListCovers, NotPlanned, UnlistedKept, ListStored, FilesWritten
<1>6. WrittenBy' /\ MergeInv'
  BY EmptyFacts DEF WrittenBy, MergeInv
<1>7. MemoryInv' /\ AllWritten' /\ ~clean'
  BY <1>1, <1>2 DEF Session, MemoryInv, AllWritten
<1>8. MapIsHeld'
  BY <1>1, <1>2 DEF Session, MapIsHeld
<1>9. Grounded'
  <2>1. PICK names \in Seq(Ref) : Grounds(names)
    BY <1>1 DEF Session, Grounded
  <2> QED BY <1>2, <2>1, GroundsSame
<1> QED BY <1>3, <1>4, <1>5, <1>6, <1>7, <1>8, <1>9 DEF IInv, InSession, Session

LEMMA MergedEnoughStep == IInv /\ MergedEnough => IInv'
<1> SUFFICES ASSUME IInv, MergedEnough PROVE IInv'
  OBVIOUS
<1>1. /\ pc = "closing" /\ merge = NoMerge /\ pc' = "flushing"
      /\ UNCHANGED <<files, session, writing, merge, limit, err, history>>
  BY DEF MergedEnough
<1>2. InSession /\ Session
  BY <1>1 DEF InSession, IInv
<1>3. DOMAIN writing = {}
  BY <1>1, <1>2, EmptyFacts DEF Session, WrittenBy
<1> QED BY <1>1, <1>2, <1>3, CloseGoesOn

\* The segments are written once no merge is under way.
LEMMA WhileFlushing ==
  ASSUME IInv, pc = "flushing"
  PROVE  /\ InSession /\ Session /\ merge = NoMerge /\ merge.pc = "none"
         /\ Planned = deleted /\ Current = segments /\ Unlisted = left
         /\ \A t \in DOMAIN writing : t \in Unwritten /\ writing[t] = contents[t]
<1>1. InSession /\ Session
  BY DEF InSession, IInv
<1>2. merge = NoMerge /\ merge.pc = "none" /\ merge.lines = <<>>
  BY <1>1, EmptyFacts DEF Session, MergeInv
<1>3. Current = segments /\ Unlisted = left
  BY <1>2 DEF Current, Unlisted
<1>4. \A t \in DOMAIN writing : t \in Unwritten /\ writing[t] = contents[t]
  BY <1>1, <1>2 DEF Session, WrittenBy
<1> QED BY <1>1, <1>2, <1>3, <1>4, ListedIsPlanned

LEMMA FlushDoneStep == IInv /\ FlushDone => IInv'
<1> SUFFICES ASSUME IInv, FlushDone PROVE IInv'
  OBVIOUS
<1>1. /\ pc = "flushing" /\ Unwritten = {} /\ pc' = "deleting"
      /\ UNCHANGED <<files, session, writing, merge, limit, err, history>>
  BY DEF FlushDone, TasksDone
<1>2. InSession /\ merge = NoMerge /\ DOMAIN writing = {}
  BY <1>1, WhileFlushing
<1> QED BY <1>1, <1>2, CloseGoesOn

LEMMA FlushStartStep ==
  ASSUME IInv, NEW r \in Members(segments), FlushStart(r)
  PROVE  IInv'
<1>1. /\ pc = "flushing" /\ r \in Unwritten /\ r \notin DOMAIN writing
      /\ writing' = With(writing, r, contents[r]) /\ tmp' = tmp \cup FilesOf({r})
      /\ UNCHANGED <<keys, data, deleted, pc, session, merge, limit, err, history>>
  BY DEF FlushStart, WriteTmp
<1> USE DEF session, history
<1>2. /\ InSession /\ Session /\ merge = NoMerge /\ merge.pc = "none"
      /\ Planned = deleted /\ Current = segments /\ Unlisted = left
      /\ \A t \in DOMAIN writing : t \in Unwritten /\ writing[t] = contents[t]
  BY <1>1, WhileFlushing
<1>3. PICK i \in 1..Len(segments) : r = segments[i]
  BY DEF Members
<1>4. r \in Ref /\ r \in DOMAIN contents /\ contents[r] \in Content /\ r \notin onDisk
  <2>1. r \in Ref /\ r \in DOMAIN contents
    BY <1>2, <1>3, TypeFacts DEF Session, MemoryInv
  <2> QED BY <1>1, <2>1, TypeFacts DEF Unwritten
<1>5. r \notin Mentioned
  <2> SUFFICES ASSUME r \in Mentioned PROVE FALSE
    OBVIOUS
  <2>1. i \in 1..Len(Current) /\ Current[i] = r
    BY <1>2, <1>3
  <2>2. r \in DOMAIN keys
    BY <1>2, <2>1, MentionedInList
  <2> QED BY <1>1, <1>2, <1>3, <1>4, <2>2 DEF Session, ListStored
<1>6. /\ DOMAIN writing' = DOMAIN writing \cup {r} /\ writing'[r] = contents[r]
      /\ \A t \in DOMAIN writing : writing'[t] = writing[t]
      /\ writing' \in [DOMAIN writing' -> Content]
  BY <1>1, <1>4, TypeFacts DEF With
<1>7. /\ \A t : <<"data", t>> \in tmp' <=> <<"data", t>> \in tmp \/ t = r
      /\ \A t : <<"keys", t>> \in tmp' <=> <<"keys", t>> \in tmp \/ t = r
      /\ tmp' \subseteq File
  BY <1>1, <1>4, TypeFacts DEF FilesOf, File
<1>8. /\ Planned' = Planned /\ Mentioned' = Mentioned /\ Unlisted' = Unlisted
      /\ Current' = segments /\ Chain' = Chain /\ Unwritten' = Unwritten
  BY <1>1, <1>2 DEF Planned, Mentioned, Unlisted, Current, Chain, Unwritten
<1>9. Types'
  <2>1. DOMAIN writing' \subseteq Ref
    BY <1>4, <1>6, TypeFacts
  <2>2. TypeOK'
    BY <1>1, <1>6, <1>7, <2>1 DEF IInv, Types, TypeOK
  <2> QED BY <1>1, <1>6, <2>2 DEF IInv, Types
<1>10. KeysHaveData' /\ KeysListedFirst'
  BY <1>1, <1>7, <1>8 DEF IInv, KeysHaveData, KeysListedFirst
<1>11. ListCovers' /\ NotPlanned' /\ UnlistedKept'
  BY <1>1, <1>2, <1>8 DEF Session, ListCovers, NotPlanned, UnlistedKept
<1>12. ListStored'
  <2>1. r \notin DOMAIN keys
    BY <1>5 DEF Mentioned
  <2> QED BY <1>1, <1>2, <1>6, <1>7, <1>8, <2>1 DEF Session, ListStored
<1>13. FilesWritten'
  <2> SUFFICES ASSUME NEW t \in DOMAIN writing'
               PROVE  /\ <<"data", t>> \in tmp'
                      /\ IF <<"keys", t>> \in tmp'
                         THEN t \notin Mentioned
                         ELSE /\ t \notin data /\ t \notin left
                              /\ t \in DOMAIN keys /\ keys[t] = writing'[t]
    BY <1>1, <1>8 DEF FilesWritten
  <2>1. CASE t = r
    BY <1>5, <1>7, <2>1
  <2>2. CASE t # r
    BY <1>2, <1>6, <1>7, <2>2 DEF Session, FilesWritten
  <2> QED BY <2>1, <2>2
<1>14. WrittenBy'
  <2>1. \A t \in DOMAIN writing' : t \in Unwritten /\ writing'[t] = contents[t]
    BY <1>1, <1>2, <1>6
  <2> QED BY <1>1, <1>2, <1>8, <2>1 DEF WrittenBy
<1>15. MergeInv' /\ MemoryInv' /\ AllWritten' /\ ~clean'
  BY <1>1, <1>2, EmptyFacts DEF Session, MergeInv, MemoryInv, AllWritten
<1>16. MapIsHeld' /\ InSession'
  BY <1>1, <1>2, <1>8 DEF Session, MapIsHeld, InSession
<1>17. Grounded'
  <2>1. PICK names \in Seq(Ref) : Grounds(names)
    BY <1>2 DEF Session, Grounded
  <2> QED BY <1>1, <1>8, <2>1, GroundsSame
<1> QED BY <1>9, <1>10, <1>11, <1>12, <1>13, <1>14, <1>15, <1>16, <1>17 DEF IInv, Session

LEMMA FlushWrittenStep ==
  ASSUME IInv, NEW r \in Members(segments), FlushWritten(r)
  PROVE  IInv'
<1>1. /\ pc = "flushing" /\ r \in DOMAIN writing
      /\ <<"keys", r>> \notin tmp /\ <<"data", r>> \in tmp
      /\ tmp' = tmp \ {<<"data", r>>} /\ data' = data \cup {r}
      /\ writing' = Without(writing, r)
      /\ onDisk' = onDisk \cup {r}
      /\ UNCHANGED <<keys, deleted, pc, segments, memory, contents, left, nextSegID, merge, limit,
                     err, history>>
  BY DEF FlushWritten, RenameData
<1> USE DEF history
<1>2. /\ InSession /\ Session /\ merge = NoMerge /\ merge.pc = "none"
      /\ Planned = deleted /\ Current = segments /\ Unlisted = left
      /\ \A t \in DOMAIN writing : t \in Unwritten /\ writing[t] = contents[t]
  BY <1>1, WhileFlushing
<1>3. /\ r \notin data /\ r \notin left /\ r \in DOMAIN keys /\ keys[r] = contents[r]
  BY <1>1, <1>2 DEF Session, FilesWritten
<1>4. r \in Ref /\ r \in DOMAIN contents
  <2>1. \E i \in 1..Len(segments) : r = segments[i]
    BY DEF Members
  <2> QED BY <1>2, <2>1, TypeFacts DEF Session, MemoryInv
<1>5. /\ DOMAIN writing' = DOMAIN writing \ {r}
      /\ \A t \in DOMAIN writing' : writing'[t] = writing[t]
      /\ writing' \in [DOMAIN writing' -> Content]
  BY <1>1, TypeFacts DEF Without
<1>6. /\ \A t : <<"data", t>> \in tmp' <=> <<"data", t>> \in tmp /\ t # r
      /\ \A t : <<"keys", t>> \in tmp' <=> <<"keys", t>> \in tmp
  BY <1>1
<1>7. /\ Planned' = Planned /\ Mentioned' = Mentioned /\ Unlisted' = Unlisted
      /\ Current' = segments /\ Chain' = Chain
  BY <1>1, <1>2, <1>3 DEF Planned, Mentioned, Unlisted, Current, Chain
<1>8. Types'
  <2>1. data' \subseteq Ref /\ tmp' \subseteq File /\ onDisk' \subseteq DOMAIN contents
        /\ DOMAIN writing' \subseteq Ref
    BY <1>1, <1>4, <1>5, TypeFacts
  <2>2. TypeOK'
    BY <1>1, <1>5, <2>1 DEF IInv, Types, TypeOK
  <2> QED BY <1>1, <1>5, <2>2 DEF IInv, Types
<1>9. KeysHaveData' /\ KeysListedFirst'
  BY <1>1, <1>6, <1>7 DEF IInv, KeysHaveData, KeysListedFirst
<1>10. ListCovers' /\ NotPlanned' /\ UnlistedKept'
  BY <1>1, <1>2, <1>7 DEF Session, ListCovers, NotPlanned, UnlistedKept
<1>11. ListStored'
  <2> SUFFICES ASSUME NEW i \in 1..Len(segments)
               PROVE  IF segments[i] \in onDisk'
                      THEN /\ segments[i] \in DOMAIN keys /\ segments[i] \in data'
                           /\ keys[segments[i]] = contents[segments[i]]
                      ELSE /\ segments[i] \notin data'
                           /\ segments[i] \in DOMAIN keys =>
                                /\ segments[i] \in DOMAIN writing'
                                /\ <<"keys", segments[i]>> \notin tmp'
    BY <1>1, <1>7 DEF ListStored
  <2>1. CASE segments[i] = r
    BY <1>1, <1>3, <2>1
  <2>2. CASE segments[i] # r
    <3>1. IF segments[i] \in onDisk
          THEN /\ segments[i] \in DOMAIN keys /\ segments[i] \in data
               /\ keys[segments[i]] = contents[segments[i]]
          ELSE /\ segments[i] \notin data
               /\ segments[i] \in DOMAIN keys =>
                    segments[i] \in DOMAIN writing /\ <<"keys", segments[i]>> \notin tmp
      BY <1>2 DEF Session, ListStored
    <3> QED BY <1>1, <1>5, <1>6, <2>2, <3>1
  <2> QED BY <2>1, <2>2
<1>12. FilesWritten'
  <2> SUFFICES ASSUME NEW t \in DOMAIN writing'
               PROVE  /\ <<"data", t>> \in tmp'
                      /\ IF <<"keys", t>> \in tmp'
                         THEN t \notin Mentioned
                         ELSE /\ t \notin data' /\ t \notin left
                              /\ t \in DOMAIN keys /\ keys[t] = writing'[t]
    BY <1>1, <1>7 DEF FilesWritten
  <2>1. t \in DOMAIN writing /\ t # r /\ writing'[t] = writing[t]
    BY <1>5
  <2> QED BY <1>1, <1>2, <1>6, <2>1 DEF Session, FilesWritten
<1>13. WrittenBy'
  <2>1. \A t \in DOMAIN writing' : t \in Unwritten' /\ writing'[t] = contents[t]
    <3> SUFFICES ASSUME NEW t \in DOMAIN writing'
                 PROVE  t \in Unwritten' /\ writing'[t] = contents[t]
      OBVIOUS
    <3>1. t \in DOMAIN writing /\ t # r /\ writing'[t] = writing[t]
      BY <1>5
    <3>2. t \in Unwritten /\ writing[t] = contents[t]
      BY <1>2, <3>1
    <3> QED BY <1>1, <3>1, <3>2 DEF Unwritten, Members
  <2> QED BY <1>1, <1>2, <2>1 DEF WrittenBy
<1>14. MergeInv' /\ MemoryInv' /\ AllWritten' /\ ~clean'
  BY <1>1, <1>2, EmptyFacts DEF Session, MergeInv, MemoryInv, AllWritten
<1>15. MapIsHeld' /\ InSession'
  BY <1>1, <1>2, <1>7 DEF Session, MapIsHeld, InSession
<1>16. Grounded'
  <2>1. PICK names \in Seq(Ref) : Grounds(names)
    BY <1>2 DEF Session, Grounded
  <2> QED BY <1>1, <1>7, <2>1, GroundsSame
<1> QED BY <1>8, <1>9, <1>10, <1>11, <1>12, <1>13, <1>14, <1>15, <1>16 DEF IInv, Session

-----------------------------------------------------------------------------
(* Every step.                                                             *)

LEMMA Stutter == IInv /\ UNCHANGED vars => IInv'
<1> SUFFICES ASSUME IInv, UNCHANGED vars PROVE IInv'
  OBVIOUS
<1> USE DEF vars, files, session, history
<1>1. Types'
  <2>1. TypeOK'
    BY DEF IInv, Types, TypeOK
  <2> QED BY <2>1 DEF IInv, Types
<1>2. /\ Target' = Target /\ Planned' = Planned /\ Mentioned' = Mentioned /\ Found' = Found
      /\ Unlisted' = Unlisted /\ InSession' = InSession
  BY DEF Target, Planned, Mentioned, Found, Listed, Unlisted, InSession
<1>3. /\ Current' = Current /\ Chain' = Chain
      /\ FoundOrder' = FoundOrder /\ Recovered' = Recovered
  BY <1>2 DEF Current, Chain, FoundOrder, Recovered
<1>4. KeysHaveData' /\ KeysListedFirst'
  BY <1>2 DEF IInv, KeysHaveData, KeysListedFirst
<1>5. CASE InSession
  <2>1. Session
    BY <1>5 DEF IInv
  <2>2. ListCovers' /\ NotPlanned' /\ UnlistedKept' /\ ListStored' /\ FilesWritten'
    BY <1>2, <1>3, <2>1
       DEF Session, ListCovers, NotPlanned, UnlistedKept, ListStored, FilesWritten
  <2>3. WrittenBy' /\ MergeInv' /\ MemoryInv' /\ MapIsHeld' /\ AllWritten' /\ ~clean'
    BY <1>5, SessionSame
  <2>4. PICK names \in Seq(Ref) : Grounds(names)
    BY <2>1 DEF Session, Grounded
  <2>5. Grounded'
    BY <1>2, <1>3, <2>4, GroundsSame
  <2> QED BY <1>1, <1>2, <1>4, <1>5, <2>2, <2>3, <2>5 DEF IInv, Session
<1>6. CASE ~InSession
  <2>1. BetweenSessions
    BY <1>6 DEF IInv
  <2>2. BetweenSessions'
    BY <1>2, <1>3, <2>1 DEF BetweenSessions, FoundCovers
  <2> QED BY <1>1, <1>2, <1>4, <1>6, <2>2 DEF IInv
<1> QED BY <1>5, <1>6

\* The invariant is inductive.
LEMMA NextStep == IInv /\ [Next]_vars => IInv'
<1> SUFFICES ASSUME IInv, [Next]_vars PROVE IInv'
  OBVIOUS
<1>1. CASE OpenBegin
  BY <1>1, OpenBeginStep
<1>2. CASE DeleteScheduled
  BY <1>2, DeleteScheduledStep
<1>3. CASE RemoveList
  BY <1>3, RemoveListStep
<1>4. CASE Load
  BY <1>4, LoadStep
<1>5. CASE LoadThrows
  BY <1>5, LoadThrowsStep
<1>6. CASE \E k \in Key, e \in Value \cup {Empty} : Write(k, e)
  BY <1>6, WriteStep
<1>7. CASE RenameKeys
  BY <1>7, RenameKeysStep
<1>8. CASE MergeStart
  BY <1>8, MergeStartStep
<1>9. CASE MergeFails
  BY <1>9, MergeFailsStep
<1>10. CASE MergeWritten
  BY <1>10, MergeWrittenStep
<1>11. CASE MergeSchedule
  BY <1>11, MergeScheduleStep
<1>12. CASE MergePublish
  BY <1>12, MergePublishStep
<1>13. CASE \E count \in CloseCounts : CloseBegin(count)
  BY <1>13, CloseBeginStep
<1>14. CASE MergedEnough
  BY <1>14, MergedEnoughStep
<1>15. CASE \E r \in Members(segments) : FlushStart(r) \/ FlushWritten(r)
  BY <1>15, FlushStartStep, FlushWrittenStep
<1>16. CASE FlushDone
  BY <1>16, FlushDoneStep
<1>17. CASE CloseDone
  BY <1>17, CloseDoneStep
<1>18. CASE Crash
  BY <1>18, CrashStep
<1>19. CASE UNCHANGED vars
  BY <1>19, Stutter
<1> QED BY <1>1, <1>2, <1>3, <1>4, <1>5, <1>6, <1>7, <1>8, <1>9, <1>10, <1>11, <1>12, <1>13,
           <1>14, <1>15, <1>16, <1>17, <1>18, <1>19 DEF Next

-----------------------------------------------------------------------------
(* What follows.                                                           *)

\* In every state the files of the directory are those of a list of segments, of
\* what went into them, and of merges that failed: in a session the list that the
\* session works with, between sessions the one the next open finds.
THEOREM Invariance == Spec => []IInv
<1>1. Init => IInv
  BY InitStep
<1>2. IInv /\ [Next]_vars => IInv'
  BY NextStep
<1> QED BY <1>1, <1>2, PTL DEF Spec

\* Every variable keeps its type, and the list of segments its order
\* (DatabaseState::segments).
THEOREM TypeCorrect == Spec => []TypeOK
<1>1. IInv => TypeOK
  BY DEF IInv, Types
<1> QED BY <1>1, Invariance, PTL

\* Whenever a process dies while no segment is being written, the next open finds
\* exactly what the segments of the session held that have key files, however much of
\* a merge was renamed, scheduled, published or removed, and whatever merges had
\* failed behind a rename (mergeSegments1, writeAndLoadSegment, Deleter).
THEOREM DiskMatches == Spec => []DiskMatchesSession
<1>1. IInv => DiskMatchesSession
  <2> SUFFICES ASSUME IInv, pc \in {"open", "closing", "flushing", "deleting"},
                      writing = Nothing
               PROVE  Recovered = View([i \in 1..Len(Current) |->
                                          IF Stored(Current[i]) THEN contents[Current[i]]
                                          ELSE NoEntries])
    BY DEF DiskMatchesSession
  <2>1. InSession
    BY DEF InSession
  <2>2. DOMAIN writing = {}
    BY EmptyFacts
  <2> QED BY <2>1, <2>2, RecoveredIsStored
<1> QED BY <1>1, Invariance, PTL

\* A database that was closed opens with what it was closed with
\* (closeWithMerge, openImpl), whatever crashes there were before.
THEOREM ClosesKeepEverything == Spec => []CloseKeepsEverything
<1>1. IInv => CloseKeepsEverything
  BY DEF IInv, InSession, BetweenSessions, CloseKeepsEverything
<1> QED BY <1>1, Invariance, PTL

\* Neither a flush nor a merge that the merger could start finds its files there
\* already, apart from those that a merge of the same session has left behind
\* (writeAndLoadSegment, the name of a merged segment).
THEOREM TargetsStayFree == Spec => []TargetsAreFree
<1>1. IInv => TargetsAreFree
  <2> SUFFICES ASSUME IInv PROVE TargetsAreFree
    OBVIOUS
  <2>1. CASE ~InSession
    <3>1. Members(segments) = {} /\ 1..(Len(segments) - 1) = {}
      BY <2>1 DEF IInv, BetweenSessions, Members
    <3> QED BY <3>1 DEF TargetsAreFree, Unwritten
  <2>2. CASE InSession
    <3>1. Session
      BY <2>2 DEF IInv
    <3>2. ASSUME NEW r \in Unwritten \ DOMAIN writing
          PROVE  ~InTheWay(r)
      <4>1. PICK i \in 1..Len(segments) : segments[i] = r
        BY DEF Unwritten, Members
      <4>2. r \notin data /\ r \notin DOMAIN keys
        BY <3>1, <4>1 DEF Session, ListStored, Unwritten
      <4> QED BY <4>2 DEF InTheWay
    <3>3. ASSUME merge = NoMerge, NEW start \in 1..(Len(segments) - 1),
                 InTheWay(TargetOf(Slice(start, Len(segments)))),
                 TargetOf(Slice(start, Len(segments))) \notin left
          PROVE  FALSE
      <4> DEFINE slice == Slice(start, Len(segments))
      <4>1. Current = segments /\ Unlisted = left
        BY <3>3, EmptyFacts DEF Current, Unlisted
      <4>2. /\ segments \in Seq(Ref) /\ Ascending(segments)
            /\ slice \in Seq(Ref) /\ Len(slice) >= 2 /\ IsSlice(segments, start, slice)
        BY TypeFacts, SliceProperties
      <4> HIDE DEF slice
      <4>3. TargetOf(slice) \in Mentioned \ left
        BY <3>3 DEF slice, InTheWay, Mentioned
      <4>4. PICK i \in 1..Len(segments) : Within(TargetOf(slice), segments[i])
        BY <3>1, <4>1, <4>3 DEF Session, ListCovers
      <4> QED BY <4>2, <4>4, TargetIsNew
    <3> QED BY <3>2, <3>3 DEF TargetsAreFree
  <2> QED BY <2>1, <2>2
<1> QED BY <1>1, Invariance, PTL

\* Without temporary files every open succeeds: no key file that is to be loaded
\* lacks its data file (DiskSegment::files, Deleter::deleteScheduled).
THEOREM OpensUnlessTmp == Spec => []OpensUnlessTmpLeft
<1>1. IInv => OpensUnlessTmpLeft
  <2> SUFFICES ASSUME IInv, tmp = {}, NEW r \in Found
               PROVE  r \in DOMAIN keys /\ r \in data /\ <<"data", r>> \notin Listed
    BY DEF OpensUnlessTmpLeft, Loadable
  <2>1. r \in DOMAIN keys /\ <<"keys", r>> \notin Listed
    BY DEF Found
  <2>2. r \in data
    BY <2>1 DEF IInv, KeysHaveData
  <2>3. ASSUME <<"data", r>> \in Listed
        PROVE  FALSE
    <3>1. PICK i \in 1..Len(deleted) : deleted[i] = <<"data", r>>
      BY <2>3 DEF Listed, Members
    <3>2. PICK j \in 1..(i - 1) : deleted[j] = <<"keys", r>>
      BY <3>1, ListedIsPlanned DEF KeysFirst
    <3>3. j \in 1..Len(deleted)
      BY TypeFacts
    <3> QED BY <2>1, <3>2, <3>3 DEF Listed, Members
  <2> QED BY <2>1, <2>2, <2>3
<1> QED BY <1>1, Invariance, PTL
=============================================================================
