------------------------------ MODULE KeyFile ------------------------------
(***************************************************************************)
(* The key file and the data file of a disk segment: how writeSegmentFiles *)
(* lays out sorted entries in blocks with prefix-compressed keys and an    *)
(* index, and how DiskSegment finds an entry again.                        *)
(*                                                                         *)
(* Keys and values are sequences of bytes.  The empty value stands for a   *)
(* removed key, and the empty key for the end.  A file is built up in a    *)
(* record with writeSegmentFiles' local variables; sizes are in bytes.     *)
(***************************************************************************)
EXTENDS Integers, SequencesExt, FiniteSetsExt

CONSTANTS
  keyBlockSize,
  keyIndexInterval,   \* in blocks
  maxPrefixLen,
  maxCompressedLen,
  maxKeySize          \* what the readers are made for

ASSUME KeyFileAssumption ==
  /\ keyBlockSize \in Nat /\ keyIndexInterval \in Nat \ {0}
  /\ maxPrefixLen \in Nat /\ maxCompressedLen \in Nat
  /\ maxKeySize \in Nat /\ maxPrefixLen + maxCompressedLen <= maxKeySize

\* Slice::less: bytes first, then length.
Less(a, b) ==
  \/ IsStrictPrefix(a, b)
  \/ \E i \in 1..Len(a) : /\ i <= Len(b) /\ a[i] < b[i]
                          /\ SubSeq(a, 1, i - 1) = SubSeq(b, 1, i - 1)

NoEntry == [key |-> <<>>, value |-> <<>>]

-----------------------------------------------------------------------------
\* writeSegmentFiles.

\* keyBlockLen, prevKey and the rest, before the first entry.
NewFile == [blocks |-> <<>>, index |-> <<>>, data |-> <<>>,
            keyBlockLen |-> 0, prevKey |-> <<>>]

\* A length, the key, and offset and length of the value.
ItemLen(keylen) == 2 + keylen + 8 + 4

CommonLen(a, b) ==
  Max({n \in 0..Len(a) : n <= Len(b) /\ SubSeq(a, 1, n) = SubSeq(b, 1, n)})

\* A prefix or a suffix whose length does not fit into its bits of keylen; one
\* that is too long is not shortened, the key is written in full.
PrefixNotTested(prefix, suffix) == suffix > maxCompressedLen
TooLongToCompress(prefix, suffix) == prefix > maxPrefixLen \/ suffix > maxCompressedLen

CalculatePrefixLen(prevKey, key) ==
  LET length == CommonLen(prevKey, key)
  IN  IF TooLongToCompress(length, Len(key) - length) THEN 0 ELSE length

\* The block must have room for the key, uncompressed, and its end mark.
BlockIsFullByKeys(f, key) == f.keyBlockLen + Len(key) >= keyBlockSize
BlockIsFull(f, key) == f.keyBlockLen + ItemLen(Len(key)) >= keyBlockSize - 2

\* The first key of a block is written in full: searches start there.
PrevKey(f, key) == IF BlockIsFull(f, key) THEN <<>> ELSE f.prevKey

IndexedNextBlock(block) == (block + 1) % keyIndexInterval = 0
Indexed(block) == block % keyIndexInterval = 0

WriteEntry(f, e) ==
  LET fresh  == f.keyBlockLen = 0 \/ BlockIsFull(f, e.key)
      prefix == CalculatePrefixLen(PrevKey(f, e.key), e.key)
      suffix == SubSeq(e.key, prefix + 1, Len(e.key))
      item   == [prefix |-> prefix % (maxPrefixLen + 1), suffix |-> suffix,
                 offset |-> Len(f.data), length |-> Len(e.value)]
  IN  [blocks |-> IF fresh THEN Append(f.blocks, <<item>>)
                  ELSE [f.blocks EXCEPT ![Len(f.blocks)] = Append(@, item)],
       index  |-> IF fresh /\ Indexed(Len(f.blocks)) THEN Append(f.index, e.key)
                  ELSE f.index,
       data   |-> f.data \o e.value,
       keyBlockLen |-> (IF fresh THEN 0 ELSE f.keyBlockLen) + ItemLen(Len(suffix)),
       prevKey |-> e.key]

-----------------------------------------------------------------------------
\* Reading.  Blocks are counted from 0.

Block(seg, b) == seg.blocks[b + 1]

\* The keys of a block: each is a prefix of the one before it and its suffix.
DecodedKeys(items) ==
  LET key[i \in 0..Len(items)] ==
        IF i = 0 THEN <<>> ELSE SubSeq(key[i - 1], 1, items[i].prefix) \o items[i].suffix
  IN  key

ValueOf(seg, item) == SubSeq(seg.data, item.offset + 1, item.offset + item.length)

Decoded(seg, b) ==
  LET items == Block(seg, b)
  IN  [i \in 1..Len(items) |-> [key |-> DecodedKeys(items)[i], value |-> ValueOf(seg, items[i])]]

\* loadKeyIndex: the first key of every keyIndexInterval'th block.
LoadKeyIndex(seg) ==
  LET n == (Len(seg.blocks) + keyIndexInterval - 1) \div keyIndexInterval
  IN  [i \in 1..n |-> Block(seg, (i - 1) * keyIndexInterval)[1].suffix]

\* The last block of the index that starts at or before key (upper_bound and a
\* step back), where lookups and searches begin.
IndexBlock(index, key) ==
  LET notAfter == Cardinality({i \in DOMAIN index : ~Less(key, index[i])})
  IN  keyIndexInterval * (IF notAfter = 0 THEN 0 ELSE notAfter - 1)

HighBlock(seg, low) == Min({low + keyIndexInterval, Len(seg.blocks) - 1})

\* binarySearch0: the block to scan.
LowOrHighSwapped(before, low, high) == IF before THEN high ELSE low
LowOrHigh(before, low, high) == IF before THEN low ELSE high

BinarySearch0(seg, lowBlock, highBlock, key) ==
  LET Before(b) == Less(key, Block(seg, b)[1].suffix)
      Blocks == lowBlock..highBlock
      search[range \in Blocks \X Blocks] ==
        LET low  == range[1]
            high == range[2]
            mid  == (high - low) \div 2 + low
        IN  IF high - low <= 1 THEN LowOrHigh(Before(high), low, high)
            ELSE IF Before(mid) THEN search[<<low, mid>>]
            ELSE search[<<mid, high>>]
  IN  search[<<lowBlock, highBlock>>]

\* scanBlock, which stops at the first key that is not below the one it looks for.
ScanBlock(seg, b, key) ==
  LET entries == Decoded(seg, b)
      hits == {i \in 1..Len(entries) :
                 entries[i].key = key /\ \A j \in 1..(i - 1) : Less(entries[j].key, key)}
  IN  IF hits = {} THEN <<>> ELSE entries[Min(hits)].value

\* DiskSegment::get
DiskGet(seg, key) ==
  LET low == IndexBlock(seg.index, key)
  IN  ScanBlock(seg, BinarySearch0(seg, low, HighBlock(seg, low), key), key)

\* The buffers of binarySearch and scanBlock hold maxKeySize bytes of a key;
\* what a longer one does to them is undefined.  A file of length zero is not
\* mapped, and reading it ends the process.
LongerOrAsLong(key) == Len(key) >= maxKeySize
TooLongToRead(key) == Len(key) > maxKeySize

KeyTooLong(seg) ==
  \E b \in 0..(Len(seg.blocks) - 1) : \E e \in Range(Decoded(seg, b)) : TooLongToRead(e.key)
SearchFails(seg) == seg.blocks = <<>> \/ KeyTooLong(seg)
=============================================================================
