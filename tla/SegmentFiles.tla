---------------------------- MODULE SegmentFiles ----------------------------
(***************************************************************************)
(* What Segments says of a stack of segments, carried out: a merging       *)
(* iterator over iterators of memory and disk segments, one call at a      *)
(* time, the files that merges and flushes write from it, and gets that    *)
(* search those files.                                                     *)
(*                                                                         *)
(* Nothing runs beside an iteration: the database iterates over segments   *)
(* that no longer change (Database::lookup takes a snapshot first).        *)
(***************************************************************************)
EXTENDS KeyFile

CONSTANTS
  Key,      \* keys that checkKey lets pass; some may be longer than maxKeySize
  Value,    \* values that are not empty
  Absent,
  Bound,    \* what lookups are given as lower and upper; <<>> for none
  Stacks    \* what the memory segments hold at the start, the oldest first

S == INSTANCE Segments WITH Empty <- <<>>

ASSUME SegmentFilesAssumption ==
  /\ Key \cup Value \cup Bound \subseteq Seq(0..255)
  /\ <<>> \notin Key \cup Value /\ IsFiniteSet(Key)
  /\ Absent \notin Value \cup {<<>>}
  /\ Stacks \subseteq Seq(S!Content)
  /\ \A k \in Key : ItemLen(Len(k)) < keyBlockSize - 2

VARIABLES
  segments,   \* memory and disk segments, the oldest first
  layers,     \* what each of them should hold
  pc,         \* "idle", "next", "skip", "handOver", "dead"
  call,       \* the call under way and its arguments
  iterators,  \* MultiSegment::Iterator::iterators
  current,    \* its currentIndex
  kv,         \* the entry it returns
  handed,     \* the entries a lookup has handed out
  file,       \* the files being written
  answer      \* what get returned

vars == <<segments, layers, pc, call, iterators, current, kv, handed, file, answer>>

Ascending(keys) ==
  [i \in 1..Cardinality(keys) |->
     CHOOSE k \in keys : Cardinality({j \in keys : Less(j, k)}) = i - 1]

Memory(content) ==
  LET held == Ascending({k \in Key : content[k] # Absent})
  IN  [kind |-> "memory", entries |-> [i \in 1..Len(held) |->
                                          [key |-> held[i], value |-> content[held[i]]]]]

Disk(f) == [kind |-> "disk", blocks |-> f.blocks, index |-> f.index, data |-> f.data]

NoCall == [name |-> "none", first |-> 1, last |-> 0, lower |-> <<>>, upper |-> <<>>]

Init ==
  /\ layers \in Stacks
  /\ segments = [i \in 1..Len(layers) |-> Memory(layers[i])]
  /\ pc = "idle" /\ call = NoCall
  /\ iterators = <<>> /\ current = 0 /\ kv = NoEntry /\ handed = <<>>
  /\ file = NewFile /\ answer = <<>>

-----------------------------------------------------------------------------
\* Iterators.  Each has the entries it has not come to yet, and what peekKey or
\* next returned last.  The key a SkipListIterator caches is the one it stands on.

\* What is left of entries once those below lower have been passed over.
From(entries, lower) ==
  LET below == {n \in 0..Len(entries) : \A i \in 1..n : Less(entries[i].key, lower)}
  IN  SubSeq(entries, Max(below) + 1, Len(entries))

Iterator(kind, rest, lower, upper) ==
  [kind |-> kind, rest |-> rest, lower |-> lower, upper |-> upper,
   valid |-> FALSE, finished |-> FALSE, entry |-> NoEntry]

\* DiskSegment::lookup starts with the block that the index gives for lower.
StartBlock(seg, lower) == IF lower = <<>> THEN 0 ELSE IndexBlock(seg.index, lower)

Lookup(seg, lower, upper) ==
  IF seg.kind = "memory" \/ seg.blocks = <<>>
  THEN Iterator("memory", IF seg.kind = "memory" THEN From(seg.entries, lower) ELSE <<>>,
                lower, upper)
  ELSE LET start == StartBlock(seg, lower)
       IN  Iterator("disk",
                    FlattenSeq([b \in 1..(Len(seg.blocks) - start) |-> Decoded(seg, start + b - 1)]),
                    lower, upper)

Beyond(key, upper) == upper # <<>> /\ Less(upper, key)

\* SkipListIterator
MemoryPeek(it) ==
  [it EXCEPT !.entry = IF it.rest = <<>> \/ Beyond(it.rest[1].key, it.upper)
                       THEN NoEntry ELSE it.rest[1]]
MemoryNext(it) ==
  LET peeked == MemoryPeek(it)
  IN  IF peeked.entry = NoEntry THEN peeked ELSE [peeked EXCEPT !.rest = Tail(@)]

\* DiskSegment::Iterator::nextKeyValue passes over the entries below lower.
\* The entry with the key lower is returned without a look at upper.
Passed(it) == Len(it.rest) - Len(From(it.rest, it.lower))
NextKeyValue(it) ==
  LET rest == From(it.rest, it.lower)
      found == rest # <<>> /\ (rest[1].key = it.lower \/ ~Beyond(rest[1].key, it.upper))
  IN  IF it.finished THEN [it EXCEPT !.entry = NoEntry]
      ELSE IF found
      THEN [it EXCEPT !.entry = rest[1], !.rest = Tail(rest), !.valid = TRUE]
      ELSE [it EXCEPT !.entry = NoEntry, !.valid = TRUE, !.finished = TRUE]

\* decodeKeyLen throws at a key longer than maxKeySize: such a key is never
\* compressed, since a prefix and a suffix together are not that long.
Throws(it) ==
  /\ it.kind = "disk" /\ ~it.valid /\ ~it.finished
  /\ \E i \in 1..Min({Passed(it) + 1, Len(it.rest)}) : TooLongToRead(it.rest[i].key)

DiskPeek(it) == IF it.valid THEN it ELSE NextKeyValue(it)
DiskNext(it) == [DiskPeek(it) EXCEPT !.valid = FALSE]

Peek(it) == IF it.kind = "memory" THEN MemoryPeek(it) ELSE DiskPeek(it)
NextOf(it) == IF it.kind = "memory" THEN MemoryNext(it) ELSE DiskNext(it)
PeekAll == [i \in DOMAIN iterators |-> Peek(iterators[i])]

-----------------------------------------------------------------------------
\* Calls begin.  All of them read or write the list of segments as it stands.

Begin(name, first, last, lower, upper) ==
  /\ pc = "idle"
  /\ pc' = "next"
  /\ call' = [name |-> name, first |-> first, last |-> last, lower |-> lower, upper |-> upper]
  /\ iterators' = [i \in 1..(last - first + 1) |->
                     Lookup(segments[first + i - 1], lower, upper)]
  /\ handed' = <<>> /\ file' = NewFile /\ answer' = <<>>
  /\ UNCHANGED <<segments, layers, current, kv>>

BeginLookup(lower, upper) == Begin("lookup", 1, Len(segments), lower, upper)

BeginMerge(first, last) == first < last /\ Begin("write", first, last, <<>>, <<>>)

\* writeSegmentToDisk: an empty memory segment gets no file.
BeginFlush(i) ==
  /\ segments[i].kind = "memory" /\ segments[i].entries # <<>>
  /\ Begin("write", i, i, <<>>, <<>>)

\* MultiSegment::get: the newest segment with an answer.
SegmentGet(seg, key) ==
  IF seg.kind = "disk" THEN DiskGet(seg, key)
  ELSE LET hits == {e \in Range(seg.entries) : e.key = key}
       IN  IF hits = {} THEN <<>> ELSE (CHOOSE e \in hits : TRUE).value

Unsearchable(seg) == seg.kind = "disk" /\ SearchFails(seg)

Get(key) ==
  /\ pc = "idle"
  /\ LET blind == {i \in DOMAIN segments : Unsearchable(segments[i])}
         hits  == {i \in DOMAIN segments \ blind : SegmentGet(segments[i], key) # <<>>}
         hit   == IF hits = {} THEN 0 ELSE Max(hits)
     IN  /\ pc' = IF \E i \in blind : i > hit THEN "dead" ELSE "idle"
         /\ answer' = IF hits = {} THEN <<>> ELSE SegmentGet(segments[hit], key)
  /\ call' = [NoCall EXCEPT !.name = "get", !.lower = key]
  /\ handed' = <<>> /\ file' = NewFile
  /\ UNCHANGED <<segments, layers, iterators, current, kv>>

-----------------------------------------------------------------------------
\* MultiSegment::Iterator::next.

\* Of the iterators that stand on the lowest key, the one of the newest segment.
OldestFirst(standing) == Min(standing)
Preferred(standing) == Max(standing)

TakeLowest ==
  /\ pc = "next"
  /\ ~\E i \in DOMAIN iterators : Throws(iterators[i])
  /\ LET peeked == PeekAll
         held   == {i \in DOMAIN peeked : peeked[i].entry.key # <<>>}
         lowest == {i \in held : \A j \in held : ~Less(peeked[j].entry.key, peeked[i].entry.key)}
         c      == Preferred(lowest)
     IN  IF held = {}
         THEN iterators' = peeked /\ current' = 0 /\ kv' = NoEntry /\ pc' = "handOver"
         ELSE LET taken == NextOf(peeked[c])
              IN  /\ iterators' = [peeked EXCEPT ![c] = taken]
                  /\ current' = c
                  /\ kv' = taken.entry
                  /\ pc' = "skip"
  /\ UNCHANGED <<segments, layers, call, handed, file, answer>>

\* The others step past the key that was taken.
NotPast(it) == Peek(it).entry.key # <<>> /\ ~Less(kv.key, Peek(it).entry.key)
Behind == {i \in DOMAIN iterators \ {current} : NotPast(iterators[i])}

Skip ==
  /\ pc = "skip"
  /\ ~\E i \in DOMAIN iterators \ {current} : Throws(iterators[i])
  /\ iterators' = [i \in DOMAIN iterators |->
                     IF i = current THEN iterators[i]
                     ELSE IF i \in Behind THEN NextOf(Peek(iterators[i]))
                     ELSE Peek(iterators[i])]
  /\ pc' = IF Behind = {} THEN "handOver" ELSE "skip"
  /\ UNCHANGED <<segments, layers, call, current, kv, handed, file, answer>>

DecodeThrows ==
  /\ pc \in {"next", "skip"}
  /\ \E i \in DOMAIN iterators \ (IF pc = "skip" THEN {current} ELSE {}) : Throws(iterators[i])
  /\ pc' = "dead"
  /\ UNCHANGED <<segments, layers, call, iterators, current, kv, handed, file, answer>>

-----------------------------------------------------------------------------
\* The caller gets the entry.

Yield ==
  /\ pc = "handOver" /\ kv # NoEntry /\ call.name = "lookup"
  /\ handed' = Append(handed, kv)
  /\ pc' = "next"
  /\ UNCHANGED <<segments, layers, call, iterators, current, kv, file, answer>>

\* writeSegmentFiles leaves removed keys out of a merge with the oldest segment.
PurgeDeleted == call.first = 1 /\ call.first < call.last
Purged(e) == PurgeDeleted /\ e.value = <<>>

Write ==
  /\ pc = "handOver" /\ kv # NoEntry /\ call.name = "write"
  /\ file' = IF Purged(kv) THEN file ELSE WriteEntry(file, kv)
  /\ pc' = "next"
  /\ UNCHANGED <<segments, layers, call, iterators, current, kv, handed, answer>>

Replaced(list, x) ==
  SubSeq(list, 1, call.first - 1) \o <<x>> \o SubSeq(list, call.last + 1, Len(list))

Return ==
  /\ pc = "handOver" /\ kv = NoEntry
  /\ IF call.name = "write"
     THEN /\ segments' = Replaced(segments, Disk(file))
          /\ layers' = Replaced(layers, S!Merged(SubSeq(layers, call.first, call.last), PurgeDeleted))
     ELSE UNCHANGED <<segments, layers>>
  /\ pc' = "idle"
  /\ iterators' = <<>> /\ current' = 0 /\ file' = NewFile
  /\ UNCHANGED <<call, kv, handed, answer>>

Next ==
  \/ \E lower, upper \in Bound : BeginLookup(lower, upper)
  \/ \E first, last \in DOMAIN segments : BeginMerge(first, last)
  \/ \E i \in DOMAIN segments : BeginFlush(i)
  \/ \E key \in Key : Get(key)
  \/ TakeLowest \/ Skip \/ DecodeThrows \/ Yield \/ Write \/ Return

Spec == Init /\ [][Next]_vars

-----------------------------------------------------------------------------
DiskSegments == {i \in DOMAIN segments : segments[i].kind = "disk"}

EntriesOf(seg) ==
  IF seg.kind = "memory" THEN seg.entries
  ELSE FlattenSeq([b \in 1..Len(seg.blocks) |-> Decoded(seg, b - 1)])

ContentOf(seg) ==
  LET entries == EntriesOf(seg)
      at(k) == {i \in DOMAIN entries : entries[i].key = k}
  IN  [k \in Key |-> IF at(k) = {} THEN Absent ELSE entries[Max(at(k))].value]

\* A lookup shows its range of the map that the segments stand for, in ascending
\* order: no key twice, each with its value in the newest segment that has the key,
\* and none with a value is missing, from whatever block the iteration has to begin
\* in and whichever segments are still in memory (MultiSegment::Iterator,
\* SkipListIterator, DiskSegment::Iterator).  A removed key may come without a
\* value: see RemovedStayHidden.  It says nothing of a range whose lower end is
\* above its upper one.
InRange(k) == ~Less(k, call.lower) /\ ~Beyond(k, call.upper)
HandedOut(k) == \E i \in DOMAIN handed : handed[i].key = k
PassedBy(k) == pc = "idle" \/ \E i \in DOMAIN handed : Less(k, handed[i].key)

LookupsShowTheMap ==
  call.name = "lookup" /\ ~Beyond(call.lower, call.upper) =>
    /\ \A i \in DOMAIN handed :
         /\ handed[i].key \in Key /\ InRange(handed[i].key)
         /\ handed[i].value = S!View(layers)[handed[i].key]
         /\ \A j \in 1..(i - 1) : Less(handed[j].key, handed[i].key)
    /\ \A k \in Key :
         InRange(k) /\ S!View(layers)[k] # <<>> /\ PassedBy(k) => HandedOut(k)

\* A lookup hands out no pair that was removed ("remove a key/value pair from the
\* database", include/database.h:114, where a value "must be non-empty", :110).
RemovedStayHidden ==
  call.name = "lookup" => \A i \in DOMAIN handed : handed[i].value # <<>>

\* The files of a flush or a merge, decoded, hold what Segments says a merge
\* holds, ascending: purged keys are gone, compression loses nothing, and each
\* value is where its item says (writeSegmentFiles).
FilesHoldTheMerge ==
  \A i \in DOMAIN segments :
    /\ ContentOf(segments[i]) = layers[i]
    /\ LET entries == EntriesOf(segments[i])
       IN  \A j \in 1..(Len(entries) - 1) : Less(entries[j].key, entries[j + 1].key)

\* A block never runs over its size, end mark included, and begins with a whole
\* key, which is all that searches read of it (writeSegmentFiles, binarySearch0).
BlocksFit ==
  \A i \in DiskSegments : \A b \in DOMAIN segments[i].blocks :
    LET items == segments[i].blocks[b]
    IN  /\ items[1].prefix = 0
        /\ MapThenSumSet(LAMBDA j : ItemLen(Len(items[j].suffix)), DOMAIN items) + 2 <= keyBlockSize

\* The index that the writer hands to the segment is the one that the next
\* session will load from the file (writeSegmentFiles, loadKeyIndex).
IndexIsReloaded ==
  \A i \in DiskSegments : segments[i].index = LoadKeyIndex(segments[i])

\* A get finds by index, binary search and scan what Segments says a stack of
\* segments answers (MultiSegment::get, DiskSegment::get).
GetsAnswer == call.name = "get" /\ pc = "idle" => answer = S!MultiGet(layers, call.lower)

\* A call only fails on a key longer than maxKeySize, which checkKey lets pass up
\* to a length of 1024, or a get on a key file of length zero (decodeKeyLen,
\* MemoryMappedFile::readAt).
FailsOnlyOnLongKeysAndEmptyFiles ==
  pc = "dead" =>
    \/ \E i \in DiskSegments : \E e \in Range(EntriesOf(segments[i])) : Len(e.key) > maxKeySize
    \/ call.name = "get" /\ \E i \in DiskSegments : segments[i].blocks = <<>>
=============================================================================
