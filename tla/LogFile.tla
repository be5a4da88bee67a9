------------------------------ MODULE LogFile ------------------------------
(***************************************************************************)
(* The log of a memory segment: MemorySegment::put and ::write change the  *)
(* skip list and append to a stream whose buffer a flush hands to the file *)
(* as a whole, and readLogFile turns the file back into a list.  The       *)
(* writers hold db_lock, so there is one write at a time; it can stop      *)
(* anywhere, because the process ends or because a flush fails.            *)
(*                                                                         *)
(* The file is a sequence of parts: the count of a batch, a length with    *)
(* the key that follows, a length with the value that follows.  A file     *)
(* that ends inside a part reads like one that ends before it.             *)
(***************************************************************************)
EXTENDS Integers, Sequences, SequencesExt

CONSTANTS
  Key,
  Value,
  Removed,        \* the value of length 0, which marks a removed key
  Absent,         \* the value of a key that a list does not hold
  EmptyKey,       \* the key of length 0
  MaxBatch,       \* bound on the entries of a batch
  MaxWrites       \* bound on the writes of a segment

ASSUME LogFileAssumption ==
  /\ EmptyKey \notin Key
  /\ Removed \in Value
  /\ Absent \notin Value
  /\ MaxBatch \in Nat /\ MaxWrites \in Nat

VARIABLES
  disableFlush, \* LogFile::disableFlush
  list,       \* MemorySegment::list
  log,        \* whether the log was created, and its descriptor is open
  file,       \* what the file holds
  buffer,     \* FdFileBuf: what the next flush hands to the file
  bad,        \* the badbit of the stream
  call,       \* the write in progress: [pc, entries, done]
  written,    \* the writes that reached the stream, each a sequence of entries
  durable     \* how many of them the last flush included

vars == <<disableFlush, list, log, file, buffer, bad, call, written, durable>>

Entry == [key : Key, value : Value]
Batches == BoundedSeq(Entry, MaxBatch)

Modes == {"discardPartial", "applyPartial", "returnOpenError"}

CountPart(n) == [part |-> "count", n |-> n]
KeyPart(k) == [part |-> "key", key |-> k]
ValuePart(v) == [part |-> "value", value |-> v]

Parts(e) == <<KeyPart(e.key), ValuePart(e.value)>>

EmptyList == [k \in Key \cup {EmptyKey} |-> Absent]
PutEntry(l, e) == [l EXCEPT ![e.key] = e.value]
ListPutOnce(l, e) == IF l[e.key] = Absent THEN PutEntry(l, e) ELSE l
ListPut(l, e) == PutEntry(l, e)
PutAll(l, entries) == FoldLeft(PutEntry, l, entries)

Idle == [pc |-> "idle", entries |-> <<>>, done |-> 0]

Init ==
  /\ disableFlush \in BOOLEAN
  /\ list = EmptyList
  /\ log = "none"
  /\ file = <<>> /\ buffer = <<>>
  /\ bad = FALSE
  /\ call = Idle
  /\ written = <<>>
  /\ durable = 0

-----------------------------------------------------------------------------
\* Writing.

\* maybeCreateLogFile, by the first write.  FdFileBuf::open does not look at
\* the descriptor it gets, and a stream without one drops nothing and writes
\* nothing.
MaybeCreateLogFile ==
  IF log # "none" THEN UNCHANGED log
  ELSE log' \in {"open", "noFile"}

\* What is written to a stream that is not bad.  A bad stream takes no more: by
\* the C++ library, the write then throws or returns as if it had been done.
Stream(parts) == buffer' = IF bad THEN buffer ELSE buffer \o parts
Reaches(entries) == written' = IF bad THEN written ELSE Append(written, entries)

\* What follows a write: the flush of the stream, which a bad one leaves out.
WillFlush == IF bad THEN Idle ELSE [Idle EXCEPT !.pc = "flush"]

\* MemorySegment::put, and remove, which puts the empty value: the list first,
\* then the stream.
Put(e) ==
  /\ call.pc = "idle" /\ Len(written) < MaxWrites
  /\ MaybeCreateLogFile
  /\ list' = ListPut(list, e)
  /\ Stream(Parts(e))
  /\ Reaches(<<e>>)
  /\ call' = IF disableFlush THEN Idle ELSE WillFlush
  /\ UNCHANGED <<disableFlush, file, bad, durable>>

\* MemorySegment::write: startBatch, an entry at a time, endBatch.
StartBatch(b) ==
  /\ call.pc = "idle" /\ Len(written) < MaxWrites
  /\ MaybeCreateLogFile
  /\ Stream(<<CountPart(Len(b))>>)
  /\ Reaches(b)
  /\ call' = [pc |-> "batch", entries |-> b, done |-> 0]
  /\ UNCHANGED <<disableFlush, list, file, bad, durable>>

BatchEntry ==
  /\ call.pc = "batch" /\ call.done < Len(call.entries)
  /\ LET e == call.entries[call.done + 1]
     IN  /\ list' = ListPut(list, e)
         /\ Stream(Parts(e))
  /\ call' = [call EXCEPT !.done = @ + 1]
  /\ UNCHANGED <<disableFlush, log, file, bad, written, durable>>

EndCount(n) == <<CountPart(n)>>

EndBatch ==
  /\ call.pc = "batch" /\ call.done = Len(call.entries)
  /\ Stream(EndCount(Len(call.entries)))
  /\ call' = WillFlush
  /\ UNCHANGED <<disableFlush, list, log, file, bad, written, durable>>

\* FdFileBuf::sync.
AfterFlush(b) == <<>>

HasFileUnchecked == TRUE
HasFile == log = "open"

Flush ==
  /\ call.pc = "flush"
  /\ IF HasFile
     THEN file' = file \o buffer /\ buffer' = AfterFlush(buffer)
     ELSE UNCHANGED <<file, buffer>>
  /\ durable' = Len(written)
  /\ call' = Idle
  /\ UNCHANGED <<disableFlush, list, log, bad, written>>

\* write(2) takes some of the buffer; sync throws, which makes the stream bad.
FlushFails ==
  /\ call.pc = "flush" /\ HasFile
  /\ \E n \in 0..(Len(buffer) - 1) : file' = file \o SubSeq(buffer, 1, n)
  /\ bad' = TRUE
  /\ call' = Idle
  /\ UNCHANGED <<disableFlush, list, log, buffer, written, durable>>

Next == \/ \E e \in Entry : Put(e)
        \/ \E b \in Batches : StartBatch(b)
        \/ BatchEntry \/ EndBatch \/ Flush \/ FlushFails

Spec == Init /\ [][Next]_vars

-----------------------------------------------------------------------------
\* readLogFile: the entries it puts in the list, and whether it throws.

Reads(entries, throws) == [entries |-> entries, throws |-> throws]

EntryAt(f, i) == [key |-> f[i].key, value |-> f[i + 1].value]

\* The entries of a batch that are in the file, of n that start at i.
BatchEntriesOneLess(f, i, n) ==
  [j \in 1..((IF i + 2 * n - 1 <= Len(f) THEN n ELSE (Len(f) - i + 1) \div 2) - 1) |->
     EntryAt(f, i + 2 * (j - 1))]
BatchEntries(f, i, n) ==
  [j \in 1..(IF i + 2 * n - 1 <= Len(f) THEN n ELSE (Len(f) - i + 1) \div 2) |->
     EntryAt(f, i + 2 * (j - 1))]

\* What is put of a batch whose end is missing, by Options::batchReadMode.
PartialBatchApplied(entries, mode) == entries
PartialBatch(entries, mode) == IF mode = "applyPartial" THEN entries ELSE <<>>

Thrown(mode) == mode = "returnOpenError"

\* A get() at the end of the file throws before eof() is looked at, so every
\* read ends in the outer handler, which throws in one of the modes.
ReadLogFile(f, mode) ==
  LET readFrom[i \in 1..(Len(f) + 3)] ==
        LET end == Reads(<<>>, Thrown(mode))
            then(entries, next) ==
              LET rest == readFrom[next] IN Reads(entries \o rest.entries, rest.throws)
        IN  IF i > Len(f) THEN end
            ELSE IF f[i].part = "count" /\ f[i].n > 0 THEN
              LET n == f[i].n
                  entries == BatchEntries(f, i + 1, n)
              IN  IF i + 2 * n + 1 <= Len(f) /\ Len(entries) = n
                  THEN then(entries, i + 2 * n + 2)
                  ELSE Reads(PartialBatch(entries, mode), Thrown(mode))
            ELSE IF i + 1 > Len(f) THEN end
            \* the two counts of an empty batch are a key and a value of length 0
            ELSE IF f[i].part = "count"
                 THEN then(<<[key |-> EmptyKey, value |-> Removed]>>, i + 2)
            ELSE then(<<EntryAt(f, i)>>, i + 2)
  IN  readFrom[1]

ReadAll(f, mode) == PutAll(EmptyList, ReadLogFile(f, mode).entries)

\* What it reads of the keys that a put accepts.
Kept(l) == [k \in Key |-> l[k]]
ReadList(f, mode) == Kept(ReadAll(f, mode))

-----------------------------------------------------------------------------
TypeOK ==
  /\ disableFlush \in BOOLEAN
  /\ list \in [Key \cup {EmptyKey} -> Value \cup {Absent}]
  /\ log \in {"none", "open", "noFile"}
  /\ bad \in BOOLEAN
  /\ call \in [pc : {"idle", "batch", "flush"}, entries : Seq(Entry), done : 0..MaxBatch]
  /\ written \in Seq(Seq(Entry)) /\ Len(written) <= MaxWrites
  /\ durable \in 0..Len(written)
  /\ bad => log = "open"

Reached(n) == FlattenSeq(SubSeq(written, 1, n))

\* Wherever the process ends, reading the log while discarding partial batches
\* gives the writes up to one of them, none in part, and at least those that
\* have been flushed (LogFile::endBatch, readLogFile).
DiscardKeepsWholeWrites ==
  log = "open" =>
    \E n \in durable..Len(written) :
      ReadList(file, "discardPartial") = Kept(PutAll(EmptyList, Reached(n)))

\* Reading it while applying them gives the entries up to one of them, again no
\* fewer than have been flushed.
ApplyKeepsAPrefix ==
  log = "open" =>
    LET all == Reached(Len(written))
    IN  \E n \in Len(Reached(durable))..Len(all) :
          ReadList(file, "applyPartial") = Kept(PutAll(EmptyList, SubSeq(all, 1, n)))

\* Between writes, when nothing waits for a flush and no flush failed, the log
\* and the memory segment hold the same.
LogHoldsTheList ==
  call.pc = "idle" /\ log = "open" /\ ~bad /\ durable = Len(written)
    => ReadList(file, "discardPartial") = Kept(list)

\* A write that has returned with flushing enabled is in the file.
ReturnedWritesAreInTheFile ==
  call.pc = "idle" /\ ~bad /\ ~disableFlush =>
    ReadList(file, "discardPartial") = Kept(list)

\* A log read back holds no entry with an empty key, which every iteration over
\* the list would take for its end (checkKey refuses such a key).
NoEmptyKey == ReadAll(file, "discardPartial")[EmptyKey] = Absent

\* A log that is whole can be read in every mode.
WholeLogsDoNotThrow ==
  call.pc = "idle" /\ log = "open" /\ ~bad /\ buffer = <<>> =>
    \A mode \in Modes : ~ReadLogFile(file, mode).throws
=============================================================================
