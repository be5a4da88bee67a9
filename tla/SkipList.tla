------------------------------ MODULE SkipList ------------------------------
(***************************************************************************)
(* The skip list of a memory segment.  One writer at a time (the callers   *)
(* hold db_lock) puts and removes entries while readers search and iterate *)
(* without a lock.  Every load and every store of a link that another      *)
(* thread can see is an action of its own; links are std::atomic with the  *)
(* default ordering, so the actions are totally ordered.  Nodes come from  *)
(* an arena and are freed with the list only, never while it is in use.    *)
(***************************************************************************)
EXTENDS Integers, Sequences

CONSTANTS
  Key,        \* a set of integers, ordered as cmp orders keys
  Value,
  Absent,     \* the value of a key that the list does not hold
  Reader,
  Null,       \* the null pointer
  Garbage,    \* a link that was never set: the arena does not clear its memory
  MaxHeight,  \* kMaxHeight
  MaxNodes    \* bound on the nodes allocated

Writer == "writer"
Head0 == 0    \* head_

ASSUME SkipListAssumption ==
  /\ Key \subseteq Int /\ Key # {}
  /\ Absent \notin Value
  /\ Writer \notin Reader
  /\ Null # Garbage /\ Null \notin Int /\ Garbage \notin Int
  /\ MaxHeight \in Nat \ {0}
  /\ MaxNodes \in Nat

VARIABLES
  node,       \* the nodes allocated, in order: [key, value, height]
  next,       \* Node::next_ of each node and of head_
  maxHeight,
  walk,       \* findGreaterOrEqual of each thread: [x, level]
  writer,     \* put or remove: [pc, key, value, prev, new, old, done]
  reader,     \* get, contains or an Iterator: [pc, key, result]
  map,        \* the value of each key, changed with the link of the lowest level
  seen,       \* the values the key of a get had since it was called
  steady,     \* the keys that were in the list all the time since an iteration began
  visited     \* the keys an iteration came across

vars == <<node, next, maxHeight, walk, writer, reader, map, seen, steady, visited>>

Level == 0..(MaxHeight - 1)
Node == 0..Len(node)
Height(n) == IF n = Head0 THEN MaxHeight ELSE node[n].height

AtHead == [x |-> Head0, level |-> 0]

Present(m) == {k \in Key : m[k] # Absent}

NoWrite == [pc |-> "idle", key |-> Null, value |-> Null,
            prev |-> [l \in Level |-> Null], new |-> Null, old |-> Null, done |-> 0]

Init ==
  /\ node = <<>>
  /\ next = [n \in {Head0} |-> [l \in Level |-> Null]]
  /\ maxHeight = 1
  /\ walk = [a \in Reader \cup {Writer} |-> AtHead]
  /\ writer = NoWrite
  /\ reader = [r \in Reader |-> [pc |-> "idle", key |-> Null, result |-> Null]]
  /\ map = [k \in Key |-> Absent]
  /\ seen = [r \in Reader |-> {}]
  /\ steady = [r \in Reader |-> {}]
  /\ visited = [r \in Reader |-> {}]

-----------------------------------------------------------------------------
\* findGreaterOrEqual, one load of a link at a time.

Link(a) == next[walk[a].x][walk[a].level]

KeyIsAfterNode(k, n) == n \notin {Null, Garbage} /\ node[n].key < k

FindEnd(a) == walk' = [walk EXCEPT ![a] = AtHead]

FindBegin(a) == walk' = [walk EXCEPT ![a] = [x |-> Head0, level |-> maxHeight - 1]]

GoRight(a, k) ==
  /\ KeyIsAfterNode(k, Link(a))
  /\ walk' = [walk EXCEPT ![a].x = Link(a)]

StayOnLevel(level) == level
LevelBelow(level) == level - 1

GoDown(a, k) ==
  /\ ~KeyIsAfterNode(k, Link(a))
  /\ walk[a].level > 0
  /\ walk' = [walk EXCEPT ![a].level = LevelBelow(@)]

Arrived(a, k) == ~KeyIsAfterNode(k, Link(a)) /\ walk[a].level = 0

FoundAny(n, k) == n # Null
Found(n, k) == n # Null /\ node[n].key = k

-----------------------------------------------------------------------------
\* put and remove.

WriteBegin(pc, k, v) ==
  /\ writer.pc = "idle"
  /\ writer' = [NoWrite EXCEPT !.pc = pc, !.key = k, !.value = v]
  /\ FindBegin(Writer)
  /\ UNCHANGED <<node, next, maxHeight, reader, map, seen, steady, visited>>

WriterFind ==
  /\ writer.pc \in {"put", "remove"}
  /\ \/ GoRight(Writer, writer.key) /\ UNCHANGED writer
     \/ /\ GoDown(Writer, writer.key)
        /\ writer' = [writer EXCEPT !.prev[walk[Writer].level] = walk[Writer].x]
  /\ UNCHANGED <<node, next, maxHeight, reader, map, seen, steady, visited>>

\* newNode constructs next_[0]; the memory of the other links is as it was.
Allocate(k, v, height) ==
  /\ Len(node) < MaxNodes
  /\ node' = Append(node, [key |-> k, value |-> v, height |-> height])
  /\ next' = [n \in 0..(Len(node) + 1) |->
                IF n = Len(node) + 1 THEN [l \in Level |-> IF l = 0 THEN Null ELSE Garbage]
                ELSE next[n]]

\* put finds a node with the key: it is replaced by one of the same height.
PutReplace ==
  LET x == Link(Writer)
  IN  /\ writer.pc = "put"
      /\ Arrived(Writer, writer.key) /\ Found(x, writer.key)
      /\ Allocate(writer.key, writer.value, node[x].height)
      /\ writer' = [writer EXCEPT !.pc = "link", !.prev[0] = walk[Writer].x,
                                  !.new = Len(node) + 1, !.old = x]
      /\ FindEnd(Writer)
      /\ UNCHANGED <<maxHeight, reader, map, seen, steady, visited>>

\* Or there is none: a node of any height, above maxHeight behind head_.
NewMaxHeightAbove(height) == IF height > maxHeight THEN height + 1 ELSE maxHeight
NewMaxHeight(height) == IF height > maxHeight THEN height ELSE maxHeight

PutInsert(height) ==
  /\ writer.pc = "put"
  /\ Arrived(Writer, writer.key) /\ ~Found(Link(Writer), writer.key)
  /\ Allocate(writer.key, writer.value, height)
  /\ maxHeight' = NewMaxHeight(height)
  /\ writer' = [writer EXCEPT !.pc = "link", !.new = Len(node) + 1,
                  !.prev = [l \in Level |->
                              IF l = 0 THEN walk[Writer].x
                              ELSE IF l \in maxHeight..(height - 1) THEN Head0
                              ELSE writer.prev[l]]]
  /\ FindEnd(Writer)
  /\ UNCHANGED <<reader, map, seen, steady, visited>>

\* The entry of a key changes with the link of the lowest level.
Becomes(k, v) ==
  /\ map' = [map EXCEPT ![k] = v]
  /\ seen' = [r \in Reader |-> IF reader[r].pc = "get" /\ reader[r].key = k
                               THEN seen[r] \cup {v} ELSE seen[r]]
  /\ steady' = IF v = Absent THEN [r \in Reader |-> steady[r] \ {k}] ELSE steady

\* The link of one more level has been stored; the last one ends the call.
LevelDone(levels) ==
  writer' = IF writer.done + 1 < levels THEN [writer EXCEPT !.done = @ + 1] ELSE NoWrite

TopDown(height, done) == height - 1 - done
BottomUp(height, done) == done

NextAfterStore(l) == writer.new
NextOfNew(l) ==
  IF writer.old = Null THEN next[writer.prev[l]][l] ELSE next[writer.old][l]

LowestLevelOnly(height) == 1
LevelsReplaced(height) == height

PutLink ==
  LET height == Height(writer.new)
      l == BottomUp(height, writer.done)
  IN  /\ writer.pc = "link"
      /\ next' = [next EXCEPT ![writer.new][l] = NextOfNew(l),
                              ![writer.prev[l]][l] = writer.new]
      /\ IF l = 0 THEN Becomes(writer.key, writer.value)
                  ELSE UNCHANGED <<map, seen, steady>>
      /\ LevelDone(IF writer.old = Null THEN height ELSE LevelsReplaced(height))
      /\ UNCHANGED <<node, maxHeight, walk, reader, visited>>

RemoveFound ==
  LET x == Link(Writer)
  IN  /\ writer.pc = "remove"
      /\ Arrived(Writer, writer.key)
      /\ writer' = IF Found(x, writer.key)
                   THEN [writer EXCEPT !.pc = "unlink", !.prev[0] = walk[Writer].x,
                                       !.old = x]
                   ELSE NoWrite
      /\ FindEnd(Writer)
      /\ UNCHANGED <<node, next, maxHeight, reader, map, seen, steady, visited>>

RemoveUnlink ==
  LET l == writer.done
  IN  /\ writer.pc = "unlink"
      /\ next' = [next EXCEPT ![writer.prev[l]][l] = next[writer.old][l]]
      /\ IF l = 0 THEN Becomes(writer.key, Absent)
                  ELSE UNCHANGED <<map, seen, steady>>
      /\ LevelDone(Height(writer.old))
      /\ UNCHANGED <<node, maxHeight, walk, reader, visited>>

-----------------------------------------------------------------------------
\* get and contains, and the Iterator: seek or seekToFirst, then next.

ReaderUnchanged == UNCHANGED <<node, next, maxHeight, writer, map>>

SearchBegin(r, pc, k) ==
  /\ reader[r].pc \in {"idle", "returned"}
  /\ reader' = [reader EXCEPT ![r] = [pc |-> pc, key |-> k, result |-> Null]]
  /\ FindBegin(r)
  /\ seen' = [seen EXCEPT ![r] = IF pc = "get" THEN {map[k]} ELSE {}]
  /\ steady' = [steady EXCEPT ![r] = IF pc = "seek" THEN {j \in Present(map) : j >= k}
                                                    ELSE {}]
  /\ visited' = [visited EXCEPT ![r] = {}]
  /\ ReaderUnchanged

SearchStep(r) ==
  /\ reader[r].pc \in {"get", "seek"}
  /\ GoRight(r, reader[r].key) \/ GoDown(r, reader[r].key)
  /\ UNCHANGED <<reader, seen, steady, visited>> /\ ReaderUnchanged

GetReturn(r) ==
  LET x == Link(r)
      k == reader[r].key
  IN  /\ reader[r].pc = "get"
      /\ Arrived(r, k)
      /\ reader' = [reader EXCEPT ![r] =
               [pc |-> "returned", key |-> Null,
                result |-> IF Found(x, k) THEN node[x].value ELSE Absent]]
      /\ FindEnd(r)
      /\ UNCHANGED <<seen, steady, visited>> /\ ReaderUnchanged

\* The iterator stands on x, or is past the end. The key that it sought is of no
\* further use.
StandOn(r, x) ==
  IF x \in {Null, Garbage}
  THEN /\ reader' = [reader EXCEPT ![r].pc = "returned", ![r].key = Null]
       /\ FindEnd(r)
       /\ UNCHANGED visited
  ELSE /\ reader' = [reader EXCEPT ![r].pc = "scan", ![r].key = Null]
       /\ walk' = [walk EXCEPT ![r] = [x |-> x, level |-> 0]]
       /\ visited' = [visited EXCEPT ![r] = @ \cup {node[x].key}]

SeekReturn(r) ==
  /\ reader[r].pc = "seek"
  /\ Arrived(r, reader[r].key)
  /\ StandOn(r, Link(r))
  /\ UNCHANGED <<seen, steady>> /\ ReaderUnchanged

SeekToFirst(r) ==
  /\ reader[r].pc \in {"idle", "returned"}
  /\ LET x == next[Head0][0]
     IN  /\ reader' = [reader EXCEPT ![r] =
               [pc |-> IF x = Null THEN "returned" ELSE "scan", key |-> Null, result |-> Null]]
         /\ walk' = [walk EXCEPT ![r] =
               [x |-> IF x = Null THEN Head0 ELSE x, level |-> 0]]
         /\ visited' = [visited EXCEPT ![r] = IF x = Null THEN {} ELSE {node[x].key}]
  /\ seen' = [seen EXCEPT ![r] = {}]
  /\ steady' = [steady EXCEPT ![r] = Present(map)]
  /\ ReaderUnchanged

ScanNext(r) ==
  /\ reader[r].pc = "scan"
  /\ StandOn(r, Link(r))
  /\ UNCHANGED <<seen, steady>> /\ ReaderUnchanged

-----------------------------------------------------------------------------
Write == \/ \E k \in Key, v \in Value : WriteBegin("put", k, v)
         \/ \E k \in Key : WriteBegin("remove", k, Null)
         \/ WriterFind
         \/ PutReplace
         \/ \E height \in 1..MaxHeight : PutInsert(height)
         \/ PutLink
         \/ RemoveFound
         \/ RemoveUnlink

Search(r) == SearchStep(r) \/ GetReturn(r) \/ SeekReturn(r) \/ ScanNext(r)

Read(r) == \/ \E k \in Key : SearchBegin(r, "get", k) \/ SearchBegin(r, "seek", k)
           \/ SeekToFirst(r)
           \/ Search(r)

Next == Write \/ \E r \in Reader : Read(r)

Spec == Init /\ [][Next]_vars

\* A reader that has called goes on; nothing is assumed of the writer, which may
\* stop in the middle of a put.
FairSpec == Spec /\ \A r \in Reader : WF_vars(Search(r))

-----------------------------------------------------------------------------
Links == Node \cup {Null, Garbage}

TypeOK ==
  /\ node \in Seq([key : Key, value : Value, height : 1..MaxHeight])
  /\ next \in [Node -> [Level -> Links]]
  /\ maxHeight \in 1..MaxHeight
  /\ walk \in [Reader \cup {Writer} -> [x : Node, level : Level]]
  /\ writer \in [pc : {"idle", "put", "remove", "link", "unlink"},
                 key : Key \cup {Null}, value : Value \cup {Null},
                 prev : [Level -> Node \cup {Null}],
                 new : Node \cup {Null}, old : Node \cup {Null}, done : Level]
  /\ reader \in [Reader -> [pc : {"idle", "get", "seek", "scan", "returned"},
                            key : Key \cup {Null},
                            result : Value \cup {Absent, Null}]]
  /\ map \in [Key -> Value \cup {Absent}]
  /\ seen \in [Reader -> SUBSET (Value \cup {Absent})]
  /\ steady \in [Reader -> SUBSET Key]
  /\ visited \in [Reader -> SUBSET Key]

\* Every link leads to a node with a greater key, also the links of nodes that
\* have been replaced or removed and that a reader may still stand on: a search
\* or an iteration only ever moves forward (findGreaterOrEqual, Iterator::next).
LinksAscend ==
  \A n \in Node : \A l \in 0..(Height(n) - 1) :
    next[n][l] \notin {Null, Garbage} =>
      /\ l < Height(next[n][l])
      /\ n # Head0 => node[n].key < node[next[n][l]].key

\* The nodes that the links of a level lead to from head_: those in every set of
\* nodes that has head_ in it and that no link of the level leads out of.
Chained(l) ==
  LET closed == {S \in SUBSET Node : /\ Head0 \in S
                                     /\ \A n \in S : next[n][l] \in S \cup {Null, Garbage}}
  IN  {n \in Node \ {Head0} : \A S \in closed : n \in S}

\* When no write is in progress the lowest level holds the map, each key once, and
\* every other level holds exactly the nodes tall enough for it (SkipList::put and
\* remove, which change one level after the other). A call that is still looking for
\* its key has changed no link, so that nothing is lost by looking at idle writers only.
Structure ==
  writer.pc = "idle" =>
    LET lowest == Chained(0)
    IN  /\ \A k \in Key : map[k] # Absent =>
             \E n \in lowest : node[n].key = k /\ node[n].value = map[k]
        /\ \A n \in lowest : map[node[n].key] # Absent
        /\ \A m, n \in lowest : node[m].key = node[n].key => m = n
        /\ \A l \in Level : Chained(l) = {n \in lowest : node[n].height > l}

\* No thread loads a link that was never set, or a link above the height of its
\* node, although a node can be reached before its upper links are set
\* (SkipList::put links the lowest level first).
NeverLoadsGarbage ==
  \A a \in Reader \cup {Writer} :
    walk[a].level < Height(walk[a].x) /\ Link(a) # Garbage

\* A get returns a value that its key had at some time since the call, whatever
\* was put, replaced or removed around it.
GetLinearizable ==
  \A r \in Reader : reader[r].pc = "returned" /\ reader[r].result # Null
                      => reader[r].result \in seen[r]

\* An iteration that has come to the end has come across every key that was in
\* the list from its beginning to its end.
ScanSeesAll ==
  \A r \in Reader : reader[r].pc = "returned" /\ reader[r].result = Null
                      => steady[r] \subseteq visited[r]

\* A search or an iteration ends, even when the writer stops half way: readers
\* wait for nobody.
SearchReturns ==
  \A r \in Reader : reader[r].pc \in {"get", "seek", "scan"} ~> reader[r].pc = "returned"
=============================================================================
