--------------------------- MODULE SkipListProofs ---------------------------
(***************************************************************************)
(* Readers of the skip list search and iterate without a lock while the    *)
(* writer changes one link at a time.  Proved for any number of readers,   *)
(* keys, levels and nodes: a get returns a value its key had since the     *)
(* call, an iteration comes across what was there all the time, links      *)
(* only ever lead forward, and no thread loads a link that was never set.  *)
(***************************************************************************)
EXTENDS SkipList, TLAPS, SequenceTheorems, WellFoundedInduction

Entry == 1..Len(node)

\* head_ comes before every key.
Before(n, k) == n = Head0 \/ node[n].key < k

Latest(n) == \A m \in Entry : node[m].key = node[n].key => m <= n

\* The nodes that hang on a level.  While a node is linked or unlinked, from the
\* lowest level up, it and the node that it replaces share the levels.
On(n, l) ==
  /\ l < Height(n)
  /\ IF n = Head0 THEN TRUE
     ELSE IF n = writer.new THEN l < writer.done
     ELSE IF n = writer.old THEN l >= writer.done
     ELSE Latest(n) /\ map[node[n].key] # Absent

\* The link of a level leads from a node to the next one on it.
LevelsLinked ==
  \A l \in Level : \A n \in Node : On(n, l) =>
    /\ next[n][l] # Garbage
    /\ next[n][l] # Null => next[n][l] \in Entry /\ On(next[n][l], l)
    /\ \A m \in Entry : On(m, l) /\ Before(n, node[m].key) =>
         next[n][l] \in Entry /\ node[next[n][l]].key <= node[m].key

\* The lowest level holds the map.
MapIsHeld ==
  /\ \A n \in Entry : On(n, 0) => map[node[n].key] = node[n].value
  /\ \A k \in Key : map[k] # Absent => \E n \in Entry : On(n, 0) /\ node[n].key = k

HeightsBelowMax == \A n \in Entry : node[n].height <= maxHeight

\* Every link that was stored leads forward, to a node whose links are set up to
\* that level, whether or not the node it belongs to is still in the list.
LinksLeadForward ==
  /\ \A l \in Level : next[Head0][l] # Garbage
  /\ \A n \in Node : \A l \in Level :
       LET x == next[n][l]
       IN  x \notin {Null, Garbage} =>
             /\ x \in Entry /\ Before(n, node[x].key)
             /\ l < Height(n) /\ l < Height(x)
             /\ \A j \in 0..l : next[x][j] # Garbage

\* What findGreaterOrEqual leaves in prev[l]: the last node before the key.
LastBefore(n, l, k) ==
  /\ n \in Node /\ On(n, l) /\ Before(n, k)
  /\ ~KeyIsAfterNode(k, next[n][l])

Searching ==
  /\ writer.new = Null /\ writer.old = Null /\ writer.done = 0
  /\ writer.key \in Key
  /\ writer.pc = "put" => writer.value \in Value
  /\ On(walk[Writer].x, walk[Writer].level) /\ Before(walk[Writer].x, writer.key)
  /\ walk[Writer].level < maxHeight
  /\ \A l \in Level : walk[Writer].level < l /\ l < maxHeight
       => LastBefore(writer.prev[l], l, writer.key)

\* The levels that are still to be stored, from done on, and those that were.
Linking ==
  /\ writer.new \in Entry /\ writer.new = Len(node)
  /\ writer.done < Height(writer.new)
  /\ writer.key \in Key /\ writer.value \in Value
  /\ node[writer.new].key = writer.key /\ node[writer.new].value = writer.value
  /\ \A l \in Level : l >= writer.done => next[writer.new][l] \in {Null, Garbage}
  /\ \A l \in Level : writer.done <= l /\ l < Height(writer.new) =>
       LastBefore(writer.prev[l], l, writer.key)

Inserting ==
  writer.old = Null =>
    /\ writer.done = 0 => map[writer.key] = Absent
    /\ \A l \in Level : writer.done <= l /\ l < Height(writer.new) =>
         LET x == next[writer.prev[l]][l] IN x # Null => node[x].key # writer.key

Replacing ==
  writer.old # Null =>
    /\ writer.old \in Entry /\ writer.old # writer.new
    /\ node[writer.old].key = writer.key
    /\ Height(writer.old) = Height(writer.new)
    /\ map[writer.key] # Absent
    /\ \A j \in 0..(writer.done - 1) : next[writer.old][j] = next[writer.new][j]
    /\ \A l \in Level : writer.done <= l /\ l < Height(writer.new) =>
         next[writer.prev[l]][l] = writer.old

Unlinking ==
  /\ writer.new = Null /\ writer.old \in Entry /\ Latest(writer.old)
  /\ writer.done < Height(writer.old)
  /\ writer.key \in Key /\ node[writer.old].key = writer.key
  /\ writer.done = 0 <=> map[writer.key] # Absent
  /\ \A j \in 0..(writer.done - 1) :
       /\ LastBefore(writer.prev[j], j, writer.key)
       /\ next[writer.old][j] = next[writer.prev[j]][j]
  /\ \A l \in Level : writer.done <= l /\ l < Height(writer.old) =>
       /\ LastBefore(writer.prev[l], l, writer.key)
       /\ next[writer.prev[l]][l] = writer.old

WriterInv ==
  /\ writer.pc = "idle" => writer = NoWrite
  /\ writer.pc \in {"put", "remove"} => Searching
  /\ writer.pc = "link" => Linking /\ Inserting /\ Replacing
  /\ writer.pc = "unlink" => Unlinking

ListInv ==
  TypeOK /\ LevelsLinked /\ MapIsHeld /\ HeightsBelowMax /\ LinksLeadForward /\ WriterInv

-----------------------------------------------------------------------------
\* Where a reader can get to before it comes to a key: from each of these nodes
\* the links lead to another one, or to the key, with a value seen since the
\* call.  They do not lead past the key unless it was absent meanwhile.
Path(r, k, S) ==
  /\ walk[r].x \in S
  /\ \A n \in Node : \A l \in Level : On(n, l) /\ Before(n, k) => n \in S
  /\ \A n \in S :
       /\ Before(n, k)
       /\ \A l \in Level : next[n][l] \in Entry /\ Before(next[n][l], k)
                             => next[n][l] \in S
       /\ \/ Absent \in seen[r]
          \/ next[n][0] \in Entry /\ node[next[n][0]].key <= k
       /\ reader[r].pc = "get" =>
            (next[n][0] \in Entry /\ node[next[n][0]].key = k
               => node[next[n][0]].value \in seen[r])

\* The keys that a reader must not miss.
Sought(r) ==
  CASE reader[r].pc = "get" -> {reader[r].key}
    [] reader[r].pc \in {"seek", "scan"} -> steady[r] \ visited[r]
    [] OTHER -> {}

OnPath(r) == \A k \in Sought(r) : \E S \in SUBSET Node : Path(r, k, S)

Underway(r) ==
  /\ reader[r].pc \in {"get", "seek"} =>
       reader[r].key \in Key /\ Before(walk[r].x, reader[r].key)
  /\ reader[r].pc = "scan" => walk[r].x \in Entry /\ walk[r].level = 0
  /\ reader[r].pc = "get" => steady[r] = {} /\ map[reader[r].key] \in seen[r]
  /\ reader[r].pc = "seek" => \A k \in steady[r] : k >= reader[r].key
  /\ reader[r].pc \in {"seek", "scan"} =>
       seen[r] = {} /\ reader[r].result = Null /\ steady[r] \subseteq Present(map)

Answered(r) ==
  reader[r].pc = "returned" =>
    IF reader[r].result = Null THEN steady[r] \subseteq visited[r]
                               ELSE reader[r].result \in seen[r]

ReaderInv(r) == OnPath(r) /\ Underway(r) /\ Answered(r)

\* A thread can load the link it is about to load, and those below it.
LinksSet(a) ==
  /\ walk[a].level < Height(walk[a].x)
  /\ \A j \in 0..walk[a].level : next[walk[a].x][j] # Garbage

IInv ==
  /\ ListInv
  /\ \A a \in Reader \cup {Writer} : LinksSet(a)
  /\ \A r \in Reader : ReaderInv(r)

-----------------------------------------------------------------------------
WriterType ==
  [pc : {"idle", "put", "remove", "link", "unlink"},
   key : Key \cup {Null}, value : Value \cup {Null},
   prev : [Level -> Node \cup {Null}],
   new : Node \cup {Null}, old : Node \cup {Null}, done : Level]

LEMMA Ground ==
  ASSUME TypeOK
  PROVE  /\ Len(node) \in Nat /\ Node = Entry \cup {Head0} /\ Head0 \notin Entry
         /\ Entry \subseteq Int /\ Null \notin Node /\ Garbage \notin Node
         /\ \A n \in Entry : /\ node[n].key \in Key /\ node[n].key \in Int
                            /\ node[n].value \in Value /\ node[n].value # Absent
                            /\ node[n].height \in 1..MaxHeight
                            /\ Height(n) = node[n].height
         /\ Height(Head0) = MaxHeight
         /\ \A n \in Node : Height(n) \in 1..MaxHeight
         /\ \A n \in Node, l \in Level : next[n][l] \in Entry \cup {Head0, Null, Garbage}
<1> USE SkipListAssumption
<1>1. Len(node) \in Nat /\ \A n \in Entry : node[n] \in [key : Key, value : Value, height : 1..MaxHeight]
  <2> DEFINE R == [key : Key, value : Value, height : 1..MaxHeight]
  <2>1. node \in Seq(R)
    BY DEF TypeOK
  <2> HIDE DEF R
  <2>2. Len(node) \in Nat /\ \A n \in Entry : node[n] \in R
    BY <2>1, ElementOfSeq, LenProperties DEF Entry
  <2> QED BY <2>2 DEF R
<1>2. Node = Entry \cup {Head0} /\ Head0 \notin Entry /\ Entry \subseteq Int
  BY <1>1 DEF Node, Entry, Head0
<1>3. Null \notin Node /\ Garbage \notin Node
  BY <1>1 DEF Node
<1>4. \A n \in Entry : /\ node[n].key \in Key /\ node[n].key \in Int
                      /\ node[n].value \in Value /\ node[n].value # Absent
                      /\ node[n].height \in 1..MaxHeight
                      /\ Height(n) = node[n].height
  BY <1>1, <1>2 DEF Height
<1>5. Height(Head0) = MaxHeight
  BY DEF Height
<1>6. \A n \in Node : Height(n) \in 1..MaxHeight
  BY <1>2, <1>4, <1>5
<1>7. \A n \in Node, l \in Level : next[n][l] \in Entry \cup {Head0, Null, Garbage}
  BY <1>2 DEF TypeOK, Links
<1> QED BY <1>1, <1>2, <1>3, <1>4, <1>5, <1>6, <1>7

LEMMA InitList == Init => IInv
<1> SUFFICES ASSUME Init PROVE IInv
  OBVIOUS
<1> USE SkipListAssumption
<1>1. Len(node) = 0 /\ Entry = {} /\ Node = {Head0} /\ Null \notin Node
  BY DEF Init, Entry, Node, Head0
<1>2. TypeOK
  <2>1. node \in Seq([key : Key, value : Value, height : 1..MaxHeight])
    BY DEF Init
  <2>2. next \in [Node -> [Level -> Links]] /\ maxHeight \in 1..MaxHeight
    BY <1>1 DEF Init, Links
  <2>3. walk \in [Reader \cup {Writer} -> [x : Node, level : Level]]
    BY <1>1 DEF Init, AtHead, Level
  <2>4. writer \in [pc : {"idle", "put", "remove", "link", "unlink"},
                 key : Key \cup {Null}, value : Value \cup {Null},
                 prev : [Level -> Node \cup {Null}],
                 new : Node \cup {Null}, old : Node \cup {Null}, done : Level]
    BY DEF Init, NoWrite, Level
  <2> QED BY <2>1, <2>2, <2>3, <2>4 DEF Init, TypeOK
<1>3. \A l \in Level : next[Head0][l] = Null
  BY DEF Init
<1>4. LevelsLinked /\ LinksLeadForward
  BY <1>1, <1>3 DEF LevelsLinked, LinksLeadForward
<1>5. MapIsHeld /\ HeightsBelowMax
  BY <1>1 DEF MapIsHeld, HeightsBelowMax, Init
<1>6. WriterInv
  BY DEF WriterInv, Init, NoWrite
<1>7. ASSUME NEW a \in Reader \cup {Writer} PROVE LinksSet(a)
  <2>1. walk[a].x = Head0 /\ walk[a].level = 0 /\ 0 \in Level
    BY DEF Init, AtHead, Level
  <2> QED BY <2>1, <1>3 DEF Height, LinksSet
<1>8. ASSUME NEW r \in Reader PROVE ReaderInv(r)
  BY DEF Init, ReaderInv, OnPath, Sought, Underway, Answered
<1> QED BY <1>2, <1>4, <1>5, <1>6, <1>7, <1>8 DEF IInv, ListInv

-----------------------------------------------------------------------------
\* findGreaterOrEqual of any thread.

LEMMA Loads ==
  ASSUME IInv, NEW a \in Reader \cup {Writer}
  PROVE  /\ walk[a] \in [x : Node, level : Level]
         /\ walk[a].x \in Node /\ walk[a].level \in Level
         /\ Link(a) \in Entry \cup {Null}
         /\ Link(a) # Null => /\ Before(walk[a].x, node[Link(a)].key)
                             /\ walk[a].level < Height(Link(a))
                             /\ \A j \in 0..walk[a].level : next[Link(a)][j] # Garbage
<1>1. walk[a] \in [x : Node, level : Level] /\ walk[a].x \in Node /\ walk[a].level \in Level
  BY DEF IInv, ListInv, TypeOK
<1>2. Link(a) # Garbage
  BY <1>1 DEF IInv, LinksSet, Link, Level
<1> QED BY <1>1, <1>2, Ground DEF IInv, ListInv, LinksLeadForward, Link

\* A step of the search of a thread.
SearchOn(a, k) == GoRight(a, k) \/ GoDown(a, k)

LEMMA SearchesOn ==
  ASSUME IInv, NEW a \in Reader \cup {Writer}, NEW k \in Key, SearchOn(a, k),
         Before(walk[a].x, k)
  PROVE  /\ walk' = [walk EXCEPT ![a] = walk'[a]]
         /\ walk'[a] \in [x : Node, level : Level]
         /\ walk'[a].level < Height(walk'[a].x)
         /\ \A j \in 0..walk'[a].level : next[walk'[a].x][j] # Garbage
         /\ Before(walk'[a].x, k)
         /\ \/ /\ walk'[a].x = Link(a) /\ walk'[a].level = walk[a].level
               /\ Link(a) \in Entry
            \/ /\ walk'[a].x = walk[a].x /\ walk'[a].level = walk[a].level - 1
               /\ ~KeyIsAfterNode(k, Link(a))
<1>0. walk \in [Reader \cup {Writer} -> [x : Node, level : Level]]
  BY DEF IInv, ListInv, TypeOK
<1>1. CASE GoRight(a, k)
  <2>1. Link(a) \in Entry /\ node[Link(a)].key < k /\ Link(a) \in Node
    BY <1>1, Loads, Ground DEF GoRight, KeyIsAfterNode, IInv, ListInv
  <2>2. walk'[a] = [x |-> Link(a), level |-> walk[a].level]
        /\ walk' = [walk EXCEPT ![a] = walk'[a]]
    BY <1>0, <1>1 DEF GoRight
  <2>3. walk'[a].x = Link(a) /\ walk'[a].level = walk[a].level
    BY <2>2
  <2>4. walk[a].level \in Level /\ Link(a) # Null
    BY <2>1, Loads, Ground DEF IInv, ListInv
  <2>5. walk'[a] \in [x : Node, level : Level]
    BY <2>1, <2>2, <2>4
  <2>6. Before(Link(a), k)
    BY <2>1 DEF Before
  <2>7. /\ walk[a].level < Height(Link(a))
        /\ \A j \in 0..walk[a].level : next[Link(a)][j] # Garbage
    BY <2>4, Loads
  <2> QED BY <2>1, <2>2, <2>3, <2>5, <2>6, <2>7
<1>2. CASE GoDown(a, k)
  <2>1. walk'[a] = [x |-> walk[a].x, level |-> walk[a].level - 1]
        /\ walk' = [walk EXCEPT ![a] = walk'[a]]
    BY <1>0, <1>2 DEF GoDown, LevelBelow
  <2>2. walk[a].level - 1 \in Level /\ 0..(walk[a].level - 1) \subseteq 0..walk[a].level
    BY <1>2, Loads, SkipListAssumption DEF GoDown, Level
  <2>3. walk[a].level - 1 < Height(walk[a].x)
    BY Loads, Ground DEF IInv, ListInv, LinksSet, Level
  <2>4. \A j \in 0..(walk[a].level - 1) : next[walk[a].x][j] # Garbage
    BY <2>2 DEF IInv, LinksSet
  <2>5. walk'[a].x = walk[a].x /\ walk'[a].level = walk[a].level - 1
    BY <2>1
  <2>6. walk'[a] \in [x : Node, level : Level]
    BY <2>1, <2>2, Loads
  <2>7. ~KeyIsAfterNode(k, Link(a))
    BY <1>2 DEF GoDown
  <2> QED BY <2>1, <2>3, <2>4, <2>5, <2>6, <2>7
<1> QED BY <1>1, <1>2 DEF SearchOn

LEMMA SearchBegins ==
  ASSUME IInv, NEW a \in Reader \cup {Writer},
         NEW h, h \in {0, maxHeight - 1}, walk' = [walk EXCEPT ![a] = [x |-> Head0, level |-> h]]
  PROVE  /\ walk'[a] = [x |-> Head0, level |-> h]
         /\ walk'[a] \in [x : Node, level : Level]
         /\ walk'[a].level < Height(walk'[a].x)
         /\ \A j \in 0..walk'[a].level : next[walk'[a].x][j] # Garbage
<1>1. walk'[a] = [x |-> Head0, level |-> h]
  BY DEF IInv, ListInv, TypeOK
<1>2. h \in Level /\ h < MaxHeight /\ 0..h \subseteq Level
  BY SkipListAssumption DEF IInv, ListInv, TypeOK, Level
<1> QED BY <1>1, <1>2, Ground DEF IInv, ListInv, LinksLeadForward

\* What the nodes and links do not change, no other thread notices.
LEMMA LinksStaySet ==
  ASSUME IInv, UNCHANGED <<node, next>>, NEW a \in Reader \cup {Writer},
         walk' = [walk EXCEPT ![a] = walk'[a]],
         walk'[a] \in [x : Node, level : Level],
         walk'[a].level < Height(walk'[a].x),
         \A j \in 0..walk'[a].level : next[walk'[a].x][j] # Garbage
  PROVE  /\ walk' \in [Reader \cup {Writer} -> [x : Node, level : Level]]'
         /\ \A b \in Reader \cup {Writer} : LinksSet(b)'
<1>0. walk \in [Reader \cup {Writer} -> [x : Node, level : Level]]
  BY DEF IInv, ListInv, TypeOK
<1>1. \A n : Height(n)' = Height(n)
  BY DEF Height
<1>2. walk' \in [Reader \cup {Writer} -> [x : Node, level : Level]]'
  BY <1>0 DEF Node
<1>3. ASSUME NEW b \in Reader \cup {Writer} PROVE LinksSet(b)'
  <2>1. CASE b = a
    BY <2>1, <1>1 DEF LinksSet
  <2>2. CASE b # a
    <3>1. walk'[b] = walk[b]
      BY <1>0, <2>2
    <3> QED BY <3>1, <1>1 DEF IInv, LinksSet
  <2> QED BY <2>1, <2>2
<1> QED BY <1>2, <1>3
-----------------------------------------------------------------------------
\* A node that hangs on some level leads, on each level, to where a node leads
\* that hangs there and is as far: itself, what replaced it, or what was before it.
LEMMA StandsFor ==
  ASSUME ListInv, NEW n \in Node, NEW i \in Level, On(n, i), NEW j \in Level
  PROVE  \/ next[n][j] \notin Entry /\ j # 0
         \/ \E m \in Node : /\ On(m, j) /\ next[m][j] = next[n][j]
                           /\ \A k \in Key : Before(n, k) => Before(m, k)
<1> USE DEF ListInv
<1>0. i \in Int /\ i >= 0 /\ j \in Int /\ j >= 0 /\ 0 \in Level
  BY SkipListAssumption DEF Level
<1>1. CASE On(n, j)
  BY <1>1
<1>2. CASE j >= Height(n)
  BY <1>2, <1>0, Ground DEF LinksLeadForward
<1>3. CASE ~On(n, j) /\ j < Height(n)
  <2>1. n # Head0 /\ n \in Entry /\ n # Null
    BY <1>3, Ground DEF On
  <2>2. CASE n = writer.new
    <3>1. i < writer.done /\ ~(j < writer.done)
      BY <1>3, <2>1, <2>2 DEF On
    <3>2. writer.pc = "link" /\ writer.done \in Int
      BY <2>1, <2>2, SkipListAssumption
         DEF WriterInv, Searching, Unlinking, NoWrite, TypeOK, Level
    <3>3. next[n][j] \in {Null, Garbage}
      BY <3>1, <3>2, <2>2, <1>0 DEF WriterInv, Linking
    <3> QED BY <3>1, <3>2, <3>3, <1>0, Ground
  <2>3. CASE n # writer.new /\ n = writer.old
    <3>1. j < writer.done /\ writer.done \in Int
      BY <1>0, <1>3, <2>1, <2>3 DEF On, TypeOK, Level
    <3>2. writer.pc \in {"link", "unlink"}
      BY <2>1, <2>3 DEF WriterInv, Searching, NoWrite, TypeOK
    <3>3. CASE writer.pc = "link"
      <4>1. /\ next[n][j] = next[writer.new][j] /\ writer.new \in Entry
            /\ node[n].key = writer.key /\ node[writer.new].key = writer.key
            /\ Height(writer.new) = Height(n)
        BY <1>0, <2>1, <2>3, <3>1, <3>3 DEF WriterInv, Linking, Replacing
      <4>2. On(writer.new, j) /\ writer.new # Head0 /\ writer.new \in Node
        BY <1>3, <3>1, <4>1, Ground DEF On
      <4> QED BY <2>1, <4>1, <4>2 DEF Before
    <3>4. CASE writer.pc = "unlink"
      <4>1. /\ LastBefore(writer.prev[j], j, writer.key)
            /\ next[n][j] = next[writer.prev[j]][j]
            /\ node[n].key = writer.key /\ writer.key \in Key
        BY <1>0, <2>3, <3>1, <3>4 DEF WriterInv, Unlinking
      <4>2. \A k \in Key : Before(n, k) => Before(writer.prev[j], k)
        <5> TAKE k \in Key
        <5>1. k \in Int /\ writer.key \in Int
          BY <4>1, SkipListAssumption
        <5>2. CASE writer.prev[j] = Head0
          BY <5>2 DEF Before
        <5>3. CASE writer.prev[j] # Head0
          <6>1. node[writer.prev[j]].key < writer.key /\ node[writer.prev[j]].key \in Int
            BY <5>3, <4>1, Ground DEF LastBefore, Before
          <6> QED BY <6>1, <5>1, <4>1, <2>1 DEF Before
        <5> QED BY <5>2, <5>3
      <4> QED BY <4>1, <4>2 DEF LastBefore
    <3> QED BY <3>2, <3>3, <3>4
  <2>4. CASE n # writer.new /\ n # writer.old
    BY <1>3, <2>1, <2>4 DEF On
  <2> QED BY <2>2, <2>3, <2>4
<1> QED BY <1>0, <1>1, <1>2, <1>3, Ground

\* The nodes in the list before a key: from there a search comes to the key.
HeldBefore(k) == {n \in Node : Before(n, k) /\ \E l \in Level : On(n, l)}

LEMMA HeldLeadTo ==
  ASSUME ListInv, NEW k \in Key
  PROVE  /\ Head0 \in HeldBefore(k)
         /\ \A n \in HeldBefore(k) :
              /\ \A l \in Level : next[n][l] \in Entry /\ Before(next[n][l], k)
                                    => next[n][l] \in HeldBefore(k)
              /\ map[k] # Absent => next[n][0] \in Entry /\ node[next[n][0]].key <= k
              /\ next[n][0] \in Entry => On(next[n][0], 0)
              /\ next[n][0] \in Entry /\ node[next[n][0]].key = k
                   => node[next[n][0]].value = map[k]
<1> USE DEF ListInv
<1>0. 0 \in Level
  BY SkipListAssumption DEF Level
<1>1. Head0 \in HeldBefore(k)
  BY <1>0, Ground, SkipListAssumption DEF HeldBefore, On, Before
<1>2. ASSUME NEW n \in HeldBefore(k)
      PROVE  /\ \A l \in Level : next[n][l] \in Entry /\ Before(next[n][l], k)
                                    => next[n][l] \in HeldBefore(k)
             /\ map[k] # Absent => next[n][0] \in Entry /\ node[next[n][0]].key <= k
             /\ next[n][0] \in Entry => On(next[n][0], 0)
             /\ next[n][0] \in Entry /\ node[next[n][0]].key = k
                   => node[next[n][0]].value = map[k]
  <2>0. n \in Node /\ Before(n, k)
    BY DEF HeldBefore
  <2>1. PICK i \in Level : On(n, i)
    BY DEF HeldBefore
  <2>2. ASSUME NEW l \in Level, next[n][l] \in Entry, Before(next[n][l], k)
        PROVE  next[n][l] \in HeldBefore(k)
    <3>1. PICK m \in Node : On(m, l) /\ next[m][l] = next[n][l]
      BY <2>0, <2>1, <2>2, StandsFor
    <3>2. On(next[n][l], l)
      BY <3>1, <2>2, Ground DEF LevelsLinked
    <3> QED BY <3>2, <2>2, Ground DEF HeldBefore
  <2>3. PICK m \in Node : On(m, 0) /\ next[m][0] = next[n][0] /\ Before(m, k)
    BY <1>0, <2>0, <2>1, StandsFor
  <2>4. ASSUME map[k] # Absent PROVE next[n][0] \in Entry /\ node[next[n][0]].key <= k
    <3>1. PICK x \in Entry : On(x, 0) /\ node[x].key = k
      BY <2>4 DEF MapIsHeld
    <3> QED BY <1>0, <2>3, <3>1 DEF LevelsLinked
  <2>5. next[n][0] \in Entry => On(next[n][0], 0)
    BY <1>0, <2>3, Ground DEF LevelsLinked
  <2>6. next[n][0] \in Entry /\ node[next[n][0]].key = k
           => node[next[n][0]].value = map[k]
    BY <2>5 DEF MapIsHeld
  <2> QED BY <2>2, <2>4, <2>5, <2>6
<1> QED BY <1>1, <1>2

-----------------------------------------------------------------------------
\* Steps of a reader change nothing for anybody else.
LEMMA ListUntouched ==
  ASSUME ListInv, UNCHANGED <<node, next, maxHeight, writer, map>>,
         walk'[Writer] = walk[Writer], TypeOK'
  PROVE  ListInv'
<1>1. Entry' = Entry /\ Node' = Node /\ \A n : Height(n)' = Height(n)
  BY DEF Entry, Node, Height
<1>2. \A n, l : On(n, l)' = On(n, l)
  BY <1>1 DEF On, Latest
<1>3. \A n, k : Before(n, k)' = Before(n, k) /\ KeyIsAfterNode(k, n)' = KeyIsAfterNode(k, n)
  BY DEF Before, KeyIsAfterNode
<1>4. \A n, l, k : LastBefore(n, l, k)' = LastBefore(n, l, k)
  BY <1>1, <1>2, <1>3 DEF LastBefore, Before, KeyIsAfterNode
<1>5. LevelsLinked'
  BY <1>1, <1>2 DEF ListInv, LevelsLinked, Before
<1>6. MapIsHeld' /\ HeightsBelowMax'
  BY <1>1, <1>2 DEF ListInv, MapIsHeld, HeightsBelowMax
<1>7. LinksLeadForward'
  BY <1>1 DEF ListInv, LinksLeadForward, Before
<1>8. Searching = Searching' /\ Linking = Linking' /\ Inserting = Inserting'
      /\ Replacing = Replacing' /\ Unlinking = Unlinking'
  BY <1>1, <1>2, <1>4 DEF Searching, Linking, Inserting, Replacing, Unlinking, Before, Latest
<1>9. WriterInv'
  BY <1>8 DEF ListInv, WriterInv
<1> QED BY <1>5, <1>6, <1>7, <1>9 DEF ListInv

\* What a reader has got does not depend on anything else than nodes and links.
LEMMA ReaderUntouched ==
  ASSUME TypeOK, UNCHANGED <<node, next, map>>,
         \A n \in Node, l \in Level : On(n, l)' = On(n, l),
         NEW r \in Reader, ReaderInv(r), walk'[r] = walk[r], reader'[r] = reader[r],
         seen'[r] = seen[r], steady'[r] = steady[r], visited'[r] = visited[r]
  PROVE  ReaderInv(r)'
<1>1. Entry' = Entry /\ Node' = Node
  BY DEF Entry, Node
<1>2. \A k, S : Path(r, k, S)' = Path(r, k, S)
  BY <1>1 DEF Path, Before
<1>3. OnPath(r)'
  BY <1>1, <1>2 DEF ReaderInv, OnPath, Sought
<1>4. Underway(r)'
  BY <1>1 DEF ReaderInv, Underway, Before, Present
<1>5. Answered(r)'
  BY DEF ReaderInv, Answered
<1> QED BY <1>3, <1>4, <1>5 DEF ReaderInv

\* So a step of a reader has to be looked at for the reader itself alone.
LEMMA OneReads ==
  ASSUME IInv, NEW r \in Reader, ReaderUnchanged,
         walk' = [walk EXCEPT ![r] = walk'[r]],
         reader' = [reader EXCEPT ![r] = reader'[r]],
         seen' = [seen EXCEPT ![r] = seen'[r]],
         steady' = [steady EXCEPT ![r] = steady'[r]],
         visited' = [visited EXCEPT ![r] = visited'[r]],
         walk'[r] \in [x : Node, level : Level],
         walk'[r].level < Height(walk'[r].x),
         \A j \in 0..walk'[r].level : next[walk'[r].x][j] # Garbage,
         reader'[r] \in [pc : {"idle", "get", "seek", "scan", "returned"},
                         key : Key \cup {Null}, result : Value \cup {Absent, Null}],
         seen'[r] \subseteq Value \cup {Absent},
         steady'[r] \subseteq Key, visited'[r] \subseteq Key,
         ReaderInv(r)'
  PROVE  IInv'
<1> USE DEF ReaderUnchanged
<1>1. /\ walk' \in [Reader \cup {Writer} -> [x : Node, level : Level]]'
      /\ \A a \in Reader \cup {Writer} : LinksSet(a)'
  BY LinksStaySet
<1>2. TypeOK'
  <2>1. Node' = Node /\ Links' = Links
    BY DEF Node, Links
  <2>2. /\ reader' \in [Reader -> [pc : {"idle", "get", "seek", "scan", "returned"},
                         key : Key \cup {Null}, result : Value \cup {Absent, Null}]]
        /\ seen' \in [Reader -> SUBSET (Value \cup {Absent})]
        /\ steady' \in [Reader -> SUBSET Key] /\ visited' \in [Reader -> SUBSET Key]
    BY DEF IInv, ListInv, TypeOK
  <2> QED BY <1>1, <2>1, <2>2 DEF IInv, ListInv, TypeOK
<1>3. ListInv'
  <2>1. walk'[Writer] = walk[Writer]
    BY SkipListAssumption DEF IInv, ListInv, TypeOK
  <2> QED BY <1>2, <2>1, ListUntouched DEF IInv
<1>4. ASSUME NEW q \in Reader PROVE ReaderInv(q)'
  <2>1. CASE q = r
    BY <2>1
  <2>2. CASE q # r
    <3>1. /\ walk'[q] = walk[q] /\ reader'[q] = reader[q] /\ seen'[q] = seen[q]
          /\ steady'[q] = steady[q] /\ visited'[q] = visited[q]
      BY <2>2 DEF IInv, ListInv, TypeOK
    <3>2. \A n \in Node, l \in Level : On(n, l)' = On(n, l)
      BY DEF On, Latest, Height, Entry
    <3> QED BY <3>1, <3>2, ReaderUntouched DEF IInv, ListInv
  <2> QED BY <2>1, <2>2
<1> QED BY <1>1, <1>3, <1>4 DEF IInv

LEMMA ReadersFrame ==
  ASSUME IInv, ReaderUnchanged
  PROVE  /\ Entry' = Entry /\ Node' = Node
         /\ \A n, l : On(n, l)' = On(n, l)
         /\ \A n, k : Before(n, k)' = Before(n, k)
         /\ \A n : Height(n)' = Height(n)
BY DEF ReaderUnchanged, Entry, Node, On, Latest, Height, Before

LEMMA ReaderTypes ==
  ASSUME IInv, NEW r \in Reader
  PROVE  /\ reader \in [Reader -> [pc : {"idle", "get", "seek", "scan", "returned"},
                         key : Key \cup {Null}, result : Value \cup {Absent, Null}]]
         /\ reader[r] \in [pc : {"idle", "get", "seek", "scan", "returned"},
                         key : Key \cup {Null}, result : Value \cup {Absent, Null}]
         /\ seen \in [Reader -> SUBSET (Value \cup {Absent})]
         /\ seen[r] \subseteq Value \cup {Absent}
         /\ steady \in [Reader -> SUBSET Key] /\ steady[r] \subseteq Key
         /\ visited \in [Reader -> SUBSET Key] /\ visited[r] \subseteq Key
         /\ walk \in [Reader \cup {Writer} -> [x : Node, level : Level]]
         /\ walk[r] \in [x : Node, level : Level]
         /\ seen = [seen EXCEPT ![r] = seen[r]]
         /\ steady = [steady EXCEPT ![r] = steady[r]]
         /\ visited = [visited EXCEPT ![r] = visited[r]]
BY DEF IInv, ListInv, TypeOK

LEMMA StepSearchBegin ==
  ASSUME IInv, NEW r \in Reader, NEW k \in Key, NEW pc \in {"get", "seek"},
         SearchBegin(r, pc, k)
  PROVE  IInv'
<1> USE DEF SearchBegin
<1>1. /\ reader'[r] = [pc |-> pc, key |-> k, result |-> Null]
      /\ reader' = [reader EXCEPT ![r] = reader'[r]]
  BY ReaderTypes
<1>2. /\ seen'[r] = IF pc = "get" THEN {map[k]} ELSE {}
      /\ steady'[r] = IF pc = "seek" THEN {j \in Present(map) : j >= k} ELSE {}
      /\ visited'[r] = {}
      /\ seen' = [seen EXCEPT ![r] = seen'[r]]
      /\ steady' = [steady EXCEPT ![r] = steady'[r]]
      /\ visited' = [visited EXCEPT ![r] = visited'[r]]
  BY ReaderTypes
<1>3. map[k] \in Value \cup {Absent} /\ Present(map) \subseteq Key
  BY DEF IInv, ListInv, TypeOK, Present
<1>4. /\ walk'[r] = [x |-> Head0, level |-> maxHeight - 1]
      /\ walk' = [walk EXCEPT ![r] = walk'[r]]
      /\ walk'[r] \in [x : Node, level : Level]
      /\ walk'[r].level < Height(walk'[r].x)
      /\ \A j \in 0..walk'[r].level : next[walk'[r].x][j] # Garbage
  BY ReaderTypes, SearchBegins DEF FindBegin
<1>5. ReaderInv(r)'
  <2>1. Underway(r)'
    BY <1>1, <1>2, <1>3, <1>4 DEF Underway, Before, ReaderUnchanged, Present
  <2>2. Answered(r)'
    BY <1>1 DEF Answered
  <2>3. ASSUME NEW j \in Key, pc = "get" => j = k, pc = "seek" => j \in Present(map)
        PROVE  \E S \in SUBSET Node' : Path(r, j, S)'
    <3>1. HeldBefore(j) \in SUBSET Node'
      BY ReadersFrame DEF HeldBefore
    <3>2. walk'[r].x \in HeldBefore(j)
      BY <1>4, HeldLeadTo DEF IInv
    <3>3. \A n \in Node : \A l \in Level : On(n, l) /\ Before(n, j) => n \in HeldBefore(j)
      BY DEF HeldBefore
    <3>4. ASSUME NEW n \in HeldBefore(j)
          PROVE  /\ Before(n, j)
                 /\ \A l \in Level : next[n][l] \in Entry /\ Before(next[n][l], j)
                                        => next[n][l] \in HeldBefore(j)
                 /\ \/ Absent \in seen'[r]
                    \/ next[n][0] \in Entry /\ node[next[n][0]].key <= j
                 /\ pc = "get" => (next[n][0] \in Entry /\ node[next[n][0]].key = j
                                    => node[next[n][0]].value \in seen'[r])
      <4>1. Before(n, j)
        BY DEF HeldBefore
      <4>2. pc = "get" => seen'[r] = {map[j]}
        BY <1>2, <2>3
      <4>3. Absent \in seen'[r] \/ map[j] # Absent
        BY <2>3, <4>2 DEF Present
      <4> QED BY <4>1, <4>2, <4>3, HeldLeadTo DEF IInv
    <3>5. \A S : S = HeldBefore(j) => Path(r, j, S)'
      BY <1>1, <3>2, <3>3, <3>4, ReadersFrame DEF Path, ReaderUnchanged
    <3> QED BY <3>1, <3>5
  <2>4. OnPath(r)'
    <3> SUFFICES ASSUME NEW j \in Sought(r)' PROVE \E S \in SUBSET Node' : Path(r, j, S)'
      BY DEF OnPath
    <3>1. /\ j \in Key
          /\ pc = "get" => j = k
          /\ pc = "seek" => j \in Present(map)
      BY <1>1, <1>2, <1>3 DEF Sought
    <3> QED BY <2>3, <3>1
  <2> QED BY <2>1, <2>2, <2>4 DEF ReaderInv
<1>6. reader'[r] \in [pc : {"idle", "get", "seek", "scan", "returned"},
                      key : Key \cup {Null}, result : Value \cup {Absent, Null}]
  BY <1>1
<1>7. seen'[r] \subseteq Value \cup {Absent} /\ steady'[r] \subseteq Key /\ visited'[r] \subseteq Key
  BY <1>2, <1>3
<1> QED BY <1>1, <1>2, <1>4, <1>5, <1>6, <1>7, OneReads

LEMMA StepSearchStep ==
  ASSUME IInv, NEW r \in Reader, SearchStep(r)
  PROVE  IInv'
<1> USE DEF SearchStep
<1> DEFINE q == reader[r].key
<1>1. /\ reader[r].pc \in {"get", "seek"} /\ q \in Key /\ Before(walk[r].x, q)
      /\ SearchOn(r, q)
  BY DEF IInv, ReaderInv, Underway, SearchOn
<1>2. /\ walk' = [walk EXCEPT ![r] = walk'[r]]
      /\ walk'[r] \in [x : Node, level : Level]
      /\ walk'[r].level < Height(walk'[r].x)
      /\ \A j \in 0..walk'[r].level : next[walk'[r].x][j] # Garbage
      /\ Before(walk'[r].x, q)
      /\ \/ walk'[r].x = Link(r) /\ Link(r) \in Entry
         \/ walk'[r].x = walk[r].x
  BY <1>1, SearchesOn
<1>3. /\ reader' = [reader EXCEPT ![r] = reader'[r]] /\ reader'[r] = reader[r]
      /\ seen' = [seen EXCEPT ![r] = seen'[r]] /\ seen'[r] = seen[r]
      /\ steady' = [steady EXCEPT ![r] = steady'[r]] /\ steady'[r] = steady[r]
      /\ visited' = [visited EXCEPT ![r] = visited'[r]] /\ visited'[r] = visited[r]
  BY ReaderTypes
<1>4. Underway(r)' /\ Answered(r)'
  BY <1>1, <1>2, <1>3, ReadersFrame DEF IInv, ReaderInv, Underway, Answered, Before,
     ReaderUnchanged, Present
<1>5. OnPath(r)'
  <2> SUFFICES ASSUME NEW k \in Sought(r) PROVE \E S \in SUBSET Node' : Path(r, k, S)'
    BY <1>3 DEF OnPath, Sought
  <2>1. PICK S \in SUBSET Node : Path(r, k, S)
    BY DEF IInv, ReaderInv, OnPath
  <2>2. k \in Key /\ q <= k
    BY <1>1, ReaderTypes, SkipListAssumption DEF Sought, IInv, ReaderInv, Underway
  <2>3. \A n \in Node : Before(n, q) => Before(n, k)
    BY <1>1, <2>2, Ground, SkipListAssumption DEF Before, IInv, ListInv
  <2>4. walk'[r].x \in S
    <3>1. CASE walk'[r].x = walk[r].x
      BY <2>1, <3>1 DEF Path
    <3>2. CASE walk'[r].x = Link(r) /\ Link(r) \in Entry
      <4>1. walk[r].x \in S /\ walk[r].level \in Level /\ Before(Link(r), k)
        BY <1>2, <2>1, <2>3, <3>2, Loads, Ground DEF Path, IInv, ListInv
      <4> QED BY <2>1, <3>2, <4>1 DEF Path, Link
    <3> QED BY <1>2, <3>1, <3>2
  <2>5. Path(r, k, S)'
    BY <1>3, <2>1, <2>4, ReadersFrame DEF Path, ReaderUnchanged
  <2> QED BY <2>5, ReadersFrame
<1> QED BY <1>2, <1>3, <1>4, <1>5, ReaderTypes, OneReads DEF ReaderInv

\* What a reader finds on the lowest level.
LEMMA Arrives ==
  ASSUME IInv, NEW r \in Reader, walk[r].level = 0, NEW k \in Sought(r)
  PROVE  /\ Before(walk[r].x, k)
         /\ \/ Absent \in seen[r]
            \/ Link(r) \in Entry /\ node[Link(r)].key <= k
         /\ reader[r].pc = "get" =>
              (Link(r) \in Entry /\ node[Link(r)].key = k => node[Link(r)].value \in seen[r])
<1>1. PICK S \in SUBSET Node : Path(r, k, S)
  BY DEF IInv, ReaderInv, OnPath
<1> QED BY <1>1 DEF Path, Link

LEMMA StepGetReturn ==
  ASSUME IInv, NEW r \in Reader, GetReturn(r)
  PROVE  IInv'
<1> USE DEF GetReturn
<1> DEFINE k == reader[r].key
           answer == IF Found(Link(r), k) THEN node[Link(r)].value ELSE Absent
<1>1. /\ reader[r].pc = "get" /\ k \in Key /\ k \in Int
      /\ walk[r].level = 0 /\ ~KeyIsAfterNode(k, Link(r)) /\ k \in Sought(r)
  BY SkipListAssumption DEF IInv, ReaderInv, Underway, Arrived, Sought
<1>2. answer \in seen[r]
  <2>1. CASE Found(Link(r), k)
    BY <1>1, <2>1, Loads, Arrives DEF Found
  <2>2. CASE ~Found(Link(r), k)
    <3>1. ~(Link(r) \in Entry /\ node[Link(r)].key <= k)
      BY <1>1, <2>2, Loads, Ground DEF Found, KeyIsAfterNode, IInv, ListInv
    <3> QED BY <1>1, <2>2, <3>1, Arrives
  <2> QED BY <2>1, <2>2
<1> HIDE DEF answer
<1>3. /\ reader' = [reader EXCEPT ![r] = reader'[r]]
      /\ reader'[r] = [pc |-> "returned", key |-> Null, result |-> answer]
  BY ReaderTypes DEF answer
<1>4. answer \in Value \cup {Absent}
  BY <1>2, ReaderTypes
<1>5. reader'[r].pc = "returned" /\ reader'[r].result = answer
      /\ reader'[r] \in [pc : {"idle", "get", "seek", "scan", "returned"},
                         key : Key \cup {Null}, result : Value \cup {Absent, Null}]
  BY <1>1, <1>3, <1>4
<1>6. /\ seen' = [seen EXCEPT ![r] = seen'[r]] /\ seen'[r] = seen[r]
      /\ steady' = [steady EXCEPT ![r] = steady'[r]] /\ steady'[r] = steady[r]
      /\ visited' = [visited EXCEPT ![r] = visited'[r]] /\ visited'[r] = visited[r]
  BY ReaderTypes
<1>7. ReaderInv(r)'
  <2>1. steady[r] = {}
    BY <1>1 DEF IInv, ReaderInv, Underway
  <2> QED BY <1>2, <1>5, <1>6, <2>1 DEF ReaderInv, OnPath, Sought, Underway, Answered
<1>8. /\ walk'[r] = [x |-> Head0, level |-> 0]
      /\ walk' = [walk EXCEPT ![r] = walk'[r]]
      /\ walk'[r] \in [x : Node, level : Level]
      /\ walk'[r].level < Height(walk'[r].x)
      /\ \A j \in 0..walk'[r].level : next[walk'[r].x][j] # Garbage
  BY ReaderTypes, SearchBegins DEF FindEnd, AtHead
<1> QED BY <1>3, <1>5, <1>6, <1>7, <1>8, ReaderTypes, OneReads

\* A step of an iteration, with no key that it must not miss left behind.
LEMMA StandsOn ==
  ASSUME IInv, NEW r \in Reader, StandOn(r, Link(r)), walk[r].level = 0,
         reader[r].pc \in {"seek", "scan"},
         UNCHANGED <<seen, steady>>, ReaderUnchanged
  PROVE  IInv'
<1>0. /\ seen[r] = {} /\ reader[r].result = Null /\ steady[r] \subseteq Present(map)
      /\ Sought(r) = steady[r] \ visited[r] /\ Sought(r) \subseteq Key
  BY ReaderTypes DEF IInv, ReaderInv, Underway, Sought
<1>1. /\ seen' = [seen EXCEPT ![r] = seen'[r]] /\ seen'[r] = seen[r]
      /\ steady' = [steady EXCEPT ![r] = steady'[r]] /\ steady'[r] = steady[r]
  BY ReaderTypes
<1>2. CASE Link(r) = Null
  <2>1. /\ reader' = [reader EXCEPT ![r].pc = "returned", ![r].key = Null]
        /\ walk' = [walk EXCEPT ![r] = [x |-> Head0, level |-> 0]]
        /\ visited' = visited
    BY <1>2 DEF StandOn, FindEnd, AtHead
  <2>2. /\ reader' = [reader EXCEPT ![r] = reader'[r]]
        /\ reader'[r] = [reader[r] EXCEPT !.pc = "returned", !.key = Null]
    BY <2>1, ReaderTypes
  <2>3. reader'[r].pc = "returned" /\ reader'[r].result = Null
        /\ reader'[r] \in [pc : {"idle", "get", "seek", "scan", "returned"},
                           key : Key \cup {Null}, result : Value \cup {Absent, Null}]
    BY <1>0, <2>2, ReaderTypes
  <2>4. Sought(r) = {}
    BY <1>0, <1>2, Ground, Arrives DEF IInv, ListInv, Entry
  <2>5. ReaderInv(r)'
    BY <1>0, <1>1, <2>1, <2>3, <2>4 DEF ReaderInv, OnPath, Sought, Underway, Answered
  <2>6. /\ walk'[r] = [x |-> Head0, level |-> 0]
        /\ walk' = [walk EXCEPT ![r] = walk'[r]]
        /\ walk'[r] \in [x : Node, level : Level]
        /\ walk'[r].level < Height(walk'[r].x)
        /\ \A j \in 0..walk'[r].level : next[walk'[r].x][j] # Garbage
    BY <2>1, ReaderTypes, SearchBegins
  <2> QED BY <1>1, <2>1, <2>2, <2>3, <2>5, <2>6, ReaderTypes, OneReads
<1>3. CASE Link(r) # Null
  <2>0. Link(r) \in Entry /\ Link(r) \in Node /\ Link(r) # Garbage
        /\ node[Link(r)].key \in Key
    BY <1>3, Loads, Ground DEF IInv, ListInv
  <2>1. /\ reader' = [reader EXCEPT ![r].pc = "scan", ![r].key = Null]
        /\ walk' = [walk EXCEPT ![r] = [x |-> Link(r), level |-> 0]]
        /\ visited' = [visited EXCEPT ![r] = @ \cup {node[Link(r)].key}]
    BY <1>3, <2>0 DEF StandOn
  <2>2. /\ reader' = [reader EXCEPT ![r] = reader'[r]]
        /\ reader'[r] = [reader[r] EXCEPT !.pc = "scan", !.key = Null]
        /\ visited' = [visited EXCEPT ![r] = visited'[r]]
        /\ visited'[r] = visited[r] \cup {node[Link(r)].key}
    BY <2>1, ReaderTypes
  <2>3. reader'[r].pc = "scan" /\ reader'[r].result = Null
        /\ reader'[r] \in [pc : {"idle", "get", "seek", "scan", "returned"},
                           key : Key \cup {Null}, result : Value \cup {Absent, Null}]
    BY <1>0, <2>2, ReaderTypes
  <2>4. walk'[r] = [x |-> Link(r), level |-> 0]
        /\ walk' = [walk EXCEPT ![r] = walk'[r]]
    BY <2>1, ReaderTypes
  <2>5. walk'[r].x = Link(r) /\ walk'[r].level = 0
        /\ walk'[r] \in [x : Node, level : Level]
    BY <2>0, <2>4, SkipListAssumption DEF Level
  <2>6. walk'[r].level < Height(walk'[r].x)
        /\ \A j \in 0..walk'[r].level : next[walk'[r].x][j] # Garbage
    BY <1>3, <2>5, Loads
  <2>7. Underway(r)' /\ Answered(r)'
    BY <1>0, <1>1, <2>0, <2>3, <2>5, ReadersFrame
       DEF Underway, Answered, ReaderUnchanged, Present
  <2>8. OnPath(r)'
    <3> SUFFICES ASSUME NEW k \in Sought(r)' PROVE \E S \in SUBSET Node' : Path(r, k, S)'
      BY DEF OnPath
    <3>1. k \in Sought(r) /\ k # node[Link(r)].key /\ k \in Int
      BY <1>0, <1>1, <2>2, <2>3, SkipListAssumption DEF Sought
    <3>2. PICK S \in SUBSET Node : Path(r, k, S)
      BY <3>1 DEF IInv, ReaderInv, OnPath
    <3>3. Before(Link(r), k)
      BY <1>0, <2>0, <3>1, Arrives, Ground DEF Before, IInv, ListInv
    <3>4. Link(r) \in S
      BY <2>0, <3>2, <3>3, SkipListAssumption DEF Path, Link, Level
    <3>5. Path(r, k, S)'
      BY <1>0, <1>1, <2>3, <2>5, <3>2, <3>4, ReadersFrame DEF Path, ReaderUnchanged
    <3> QED BY <3>5, ReadersFrame
  <2>9. visited'[r] \subseteq Key
    BY <2>0, <2>2, ReaderTypes
  <2> QED BY <1>1, <2>2, <2>3, <2>4, <2>5, <2>6, <2>7, <2>8, <2>9, ReaderTypes, OneReads
          DEF ReaderInv
<1> QED BY <1>2, <1>3

LEMMA StepSeekReturn ==
  ASSUME IInv, NEW r \in Reader, SeekReturn(r)
  PROVE  IInv'
BY StandsOn DEF SeekReturn, Arrived

LEMMA StepScanNext ==
  ASSUME IInv, NEW r \in Reader, ScanNext(r)
  PROVE  IInv'
<1>1. walk[r].level = 0
  BY DEF ScanNext, IInv, ReaderInv, Underway
<1> QED BY <1>1, StandsOn DEF ScanNext

LEMMA StepSeekToFirst ==
  ASSUME IInv, NEW r \in Reader, SeekToFirst(r)
  PROVE  IInv'
<1> USE DEF SeekToFirst
<1> DEFINE first == next[Head0][0]
<1>0. 0 \in Level
  BY SkipListAssumption DEF Level
<1>1. first \in Entry \cup {Null} /\ Null \notin Entry
  BY <1>0, Ground DEF IInv, ListInv, LinksLeadForward
<1>2. first # Null => /\ node[first].key \in Key
                      /\ 0 < Height(first) /\ \A j \in 0..0 : next[first][j] # Garbage
  BY <1>0, <1>1, Ground DEF IInv, ListInv, LinksLeadForward
<1>3. \A k \in Present(map) : first # Null /\ node[first].key <= k
  BY <1>1, HeldLeadTo DEF Present, IInv
<1> HIDE DEF first
<1>4. /\ reader'[r] = [pc |-> IF first = Null THEN "returned" ELSE "scan",
                       key |-> Null, result |-> Null]
      /\ reader' = [reader EXCEPT ![r] = reader'[r]]
  BY ReaderTypes DEF first
<1>5. reader'[r] \in [pc : {"idle", "get", "seek", "scan", "returned"},
                      key : Key \cup {Null}, result : Value \cup {Absent, Null}]
  BY <1>4
<1>6. /\ seen'[r] = {} /\ steady'[r] = Present(map)
      /\ visited'[r] = IF first = Null THEN {} ELSE {node[first].key}
      /\ seen' = [seen EXCEPT ![r] = seen'[r]]
      /\ steady' = [steady EXCEPT ![r] = steady'[r]]
      /\ visited' = [visited EXCEPT ![r] = visited'[r]]
  BY ReaderTypes DEF first
<1>7. seen'[r] \subseteq Value \cup {Absent} /\ steady'[r] \subseteq Key /\ visited'[r] \subseteq Key
  <2>1. Present(map) \subseteq Key
    BY DEF Present
  <2>2. first # Null => node[first].key \in Key
    BY <1>2
  <2>3. visited'[r] \subseteq Key
    BY <1>6, <2>2
  <2>4. steady'[r] \subseteq Key
    BY <1>6, <2>1
  <2> QED BY <1>6, <2>3, <2>4
<1>8. walk'[r] = [x |-> IF first = Null THEN Head0 ELSE first, level |-> 0]
      /\ walk' = [walk EXCEPT ![r] = walk'[r]]
  BY ReaderTypes DEF first
<1>9. /\ walk'[r].x = IF first = Null THEN Head0 ELSE first
      /\ walk'[r].level = 0
      /\ walk'[r] \in [x : Node, level : Level]
  BY <1>0, <1>1, <1>8, Ground DEF IInv, ListInv
<1>10. /\ walk'[r].level < Height(walk'[r].x)
       /\ \A j \in 0..walk'[r].level : next[walk'[r].x][j] # Garbage
  <2>1. 0 < Height(Head0) /\ \A j \in 0..0 : next[Head0][j] # Garbage
    BY <1>0, Ground, SkipListAssumption DEF IInv, ListInv, LinksLeadForward
  <2> QED BY <1>2, <1>9, <2>1
<1>11. Underway(r)' /\ Answered(r)'
  BY <1>1, <1>3, <1>4, <1>6, <1>9, ReadersFrame
     DEF Underway, Answered, ReaderUnchanged, Present
<1>12. OnPath(r)'
  <2> SUFFICES ASSUME NEW k \in Sought(r)' PROVE \E S \in SUBSET Node' : Path(r, k, S)'
    BY DEF OnPath
  <2>1. /\ reader'[r].pc = "scan" /\ first # Null
        /\ k \in Present(map) /\ k # node[first].key /\ k \in Key
    BY <1>4, <1>6 DEF Sought, Present
  <2>2. HeldBefore(k) \in SUBSET Node' /\ first \in HeldBefore(k)
    <3>1. Before(first, k)
      <4>1. node[first].key \in Int /\ k \in Int
        BY <1>2, <2>1, SkipListAssumption
      <4> QED BY <1>3, <2>1, <4>1 DEF Before
    <3>2. Head0 \in HeldBefore(k) /\ On(first, 0)
      BY <1>1, <2>1, HeldLeadTo DEF first, IInv
    <3> QED BY <1>0, <1>1, <2>1, <3>1, <3>2, Ground, ReadersFrame DEF HeldBefore, IInv, ListInv
  <2>3. \A n \in Node : \A l \in Level : On(n, l) /\ Before(n, k) => n \in HeldBefore(k)
    BY DEF HeldBefore
  <2>4. ASSUME NEW n \in HeldBefore(k)
        PROVE  /\ Before(n, k)
               /\ \A l \in Level : next[n][l] \in Entry /\ Before(next[n][l], k)
                                      => next[n][l] \in HeldBefore(k)
               /\ next[n][0] \in Entry /\ node[next[n][0]].key <= k
    BY <2>1, HeldLeadTo DEF HeldBefore, IInv, Present
  <2>5. \A S : S = HeldBefore(k) => Path(r, k, S)'
    BY <1>9, <2>1, <2>2, <2>3, <2>4, ReadersFrame DEF Path, ReaderUnchanged
  <2> QED BY <2>2, <2>5
<1> QED BY <1>4, <1>5, <1>6, <1>7, <1>8, <1>9, <1>10, <1>11, <1>12, OneReads DEF ReaderInv

-----------------------------------------------------------------------------
\* The search of the writer: the list and what hangs on which level stay.

LEMMA WriterTypes ==
  ASSUME TypeOK
  PROVE  /\ writer \in WriterType
         /\ writer.pc \in {"idle", "put", "remove", "link", "unlink"}
         /\ writer.key \in Key \cup {Null} /\ writer.value \in Value \cup {Null}
         /\ writer.prev \in [Level -> Node \cup {Null}]
         /\ writer.new \in Node \cup {Null} /\ writer.old \in Node \cup {Null}
         /\ writer.done \in Level
         /\ walk \in [Reader \cup {Writer} -> [x : Node, level : Level]]
BY DEF TypeOK, WriterType

LEMMA WriterSearches ==
  ASSUME IInv, UNCHANGED <<node, next, maxHeight, reader, map, seen, steady, visited>>,
         walk' = [walk EXCEPT ![Writer] = walk'[Writer]],
         walk'[Writer] \in [x : Node, level : Level],
         walk'[Writer].level < Height(walk'[Writer].x),
         \A j \in 0..walk'[Writer].level : next[walk'[Writer].x][j] # Garbage,
         writer' \in WriterType,
         \A n \in Node, l \in Level : On(n, l)' = On(n, l),
         WriterInv'
  PROVE  IInv'
<1>0. Entry' = Entry /\ Node' = Node /\ \A n : Height(n)' = Height(n)
  BY DEF Entry, Node, Height
<1>1. /\ walk' \in [Reader \cup {Writer} -> [x : Node, level : Level]]'
      /\ \A a \in Reader \cup {Writer} : LinksSet(a)'
  BY LinksStaySet
<1>2. TypeOK'
  <2>1. Links' = Links
    BY <1>0 DEF Links
  <2> QED BY <1>0, <1>1, <2>1 DEF IInv, ListInv, TypeOK, WriterType
<1>3. LevelsLinked' /\ MapIsHeld' /\ HeightsBelowMax' /\ LinksLeadForward'
  <2>1. Entry \subseteq Node /\ 0 \in Level
    BY Ground, SkipListAssumption DEF IInv, ListInv, Level
  <2>2. LevelsLinked'
    BY <1>0, <2>1 DEF IInv, ListInv, LevelsLinked, Before
  <2>3. MapIsHeld' /\ HeightsBelowMax'
    BY <1>0, <2>1 DEF IInv, ListInv, MapIsHeld, HeightsBelowMax
  <2>4. LinksLeadForward'
    BY <1>0 DEF IInv, ListInv, LinksLeadForward, Before
  <2> QED BY <2>2, <2>3, <2>4
<1>4. ASSUME NEW r \in Reader PROVE ReaderInv(r)'
  <2>1. walk'[r] = walk[r]
    BY SkipListAssumption DEF IInv, ListInv, TypeOK
  <2> QED BY <2>1, ReaderUntouched DEF IInv, ListInv
<1> QED BY <1>1, <1>2, <1>3, <1>4 DEF IInv, ListInv

LEMMA OnDepends ==
  ASSUME UNCHANGED <<node, map>>,
         writer'.new = writer.new, writer'.old = writer.old, writer'.done = writer.done
  PROVE  \A n, l : On(n, l)' = On(n, l)
BY DEF On, Latest, Entry, Height

LEMMA StepWriteBegin ==
  ASSUME IInv, NEW k \in Key, NEW pc \in {"put", "remove"}, NEW v \in Value \cup {Null},
         pc = "put" => v \in Value, WriteBegin(pc, k, v)
  PROVE  IInv'
<1> USE DEF WriteBegin
<1>1. writer = NoWrite
  BY DEF IInv, ListInv, WriterInv
<1>2. writer' = [pc |-> pc, key |-> k, value |-> v, prev |-> [l \in Level |-> Null],
                 new |-> Null, old |-> Null, done |-> 0]
  BY DEF NoWrite
<1>3. writer' \in WriterType
  BY <1>2, SkipListAssumption DEF WriterType, Level
<1>4. \A n, l : On(n, l)' = On(n, l)
  BY <1>1, <1>2, OnDepends DEF NoWrite
<1>5. /\ walk'[Writer] = [x |-> Head0, level |-> maxHeight - 1]
      /\ walk' = [walk EXCEPT ![Writer] = walk'[Writer]]
      /\ walk'[Writer] \in [x : Node, level : Level]
      /\ walk'[Writer].level < Height(walk'[Writer].x)
      /\ \A j \in 0..walk'[Writer].level : next[walk'[Writer].x][j] # Garbage
  BY WriterTypes, SearchBegins DEF FindBegin, IInv, ListInv
<1>6. Searching'
  <2>1. walk'[Writer].x = Head0 /\ walk'[Writer].level = maxHeight - 1
    BY <1>5
  <2>2. On(walk[Writer].x, walk[Writer].level)'
    BY <1>5, <2>1 DEF On, Height
  <2>3. maxHeight \in 1..MaxHeight
    BY DEF IInv, ListInv, TypeOK
  <2>4. \A l \in Level : ~(walk'[Writer].level < l /\ l < maxHeight')
    BY <2>1, <2>3 DEF Level
  <2>5. /\ writer'.new = Null /\ writer'.old = Null /\ writer'.done = 0
        /\ writer'.key = k /\ writer'.pc = pc /\ writer'.value = v
    <3> HIDE DEF WriteBegin
    <3> QED BY <1>2
  <2> QED BY <2>1, <2>2, <2>3, <2>4, <2>5 DEF Searching, Before
<1>7. WriterInv'
  BY <1>2, <1>6 DEF WriterInv
<1> QED BY <1>3, <1>4, <1>5, <1>7, WriterSearches

LEMMA StepWriterFind ==
  ASSUME IInv, WriterFind
  PROVE  IInv'
<1> USE DEF WriterFind
<1> DEFINE k == writer.key
           x == walk[Writer].x
           level == walk[Writer].level
<1>0. Searching /\ k \in Key /\ Before(x, k) /\ x \in Node /\ level \in Level /\ On(x, level)
  BY Loads DEF IInv, ListInv, WriterInv, Searching
<1>1. SearchOn(Writer, k)
  BY DEF SearchOn
<1>2. /\ walk' = [walk EXCEPT ![Writer] = walk'[Writer]]
      /\ walk'[Writer] \in [x : Node, level : Level]
      /\ walk'[Writer].level < Height(walk'[Writer].x)
      /\ \A j \in 0..walk'[Writer].level : next[walk'[Writer].x][j] # Garbage
      /\ Before(walk'[Writer].x, k)
      /\ \/ walk'[Writer].x = Link(Writer) /\ walk'[Writer].level = level /\ Link(Writer) \in Entry
         \/ /\ walk'[Writer].x = x /\ walk'[Writer].level = level - 1
            /\ ~KeyIsAfterNode(k, Link(Writer))
  BY <1>0, <1>1, SearchesOn
<1>3. writer' \in WriterType /\ writer'.pc = writer.pc /\ writer'.key = k
      /\ writer'.value = writer.value
      /\ writer'.new = writer.new /\ writer'.old = writer.old /\ writer'.done = writer.done
  BY <1>0, WriterTypes DEF WriterType, IInv, ListInv
<1>4. \A n, l : On(n, l)' = On(n, l)
  BY <1>3, OnDepends
<1>5. /\ On(walk'[Writer].x, walk'[Writer].level) /\ walk'[Writer].level < maxHeight
      /\ \A l \in Level : walk'[Writer].level < l /\ l < maxHeight
           => LastBefore(writer'.prev[l], l, k)
  <2>1. CASE GoRight(Writer, k) /\ UNCHANGED writer
    <3>1. walk'[Writer].x = Link(Writer) /\ walk'[Writer].level = level /\ Link(Writer) # Null
      BY <2>1, WriterTypes DEF GoRight, KeyIsAfterNode, IInv, ListInv
    <3>2. On(Link(Writer), level)
      BY <1>0, <3>1 DEF IInv, ListInv, LevelsLinked, Link
    <3> QED BY <1>0, <2>1, <3>1, <3>2 DEF Searching
  <2>2. CASE /\ GoDown(Writer, k)
             /\ writer' = [writer EXCEPT !.prev[walk[Writer].level] = walk[Writer].x]
    <3>1. walk'[Writer].x = x /\ walk'[Writer].level = level - 1 /\ level > 0
      BY <2>2, WriterTypes DEF GoDown, LevelBelow, IInv, ListInv
    <3>2. On(x, level - 1)
      BY <1>0, <3>1, Ground, WriterTypes DEF On, Searching, IInv, ListInv, Level
    <3>3. LastBefore(x, level, k)
      BY <1>0, <2>2 DEF LastBefore, GoDown, Link
    <3>4. writer'.prev = [writer.prev EXCEPT ![level] = x]
      BY <2>2, WriterTypes DEF WriterType, IInv, ListInv
    <3>5. level < maxHeight /\ maxHeight \in Int /\ level \in Int
      BY <1>0 DEF Searching, IInv, ListInv, TypeOK, Level
    <3>6. ASSUME NEW l \in Level, level - 1 < l, l < maxHeight
          PROVE  LastBefore(writer'.prev[l], l, k)
      <4>1. CASE l = level
        BY <1>0, <3>3, <3>4, <4>1, WriterTypes DEF IInv, ListInv
      <4>2. CASE l # level
        BY <1>0, <3>4, <3>5, <3>6, <4>2, WriterTypes DEF IInv, ListInv, Searching, Level
      <4> QED BY <4>1, <4>2
    <3> QED BY <3>1, <3>2, <3>5, <3>6
  <2> QED BY <2>1, <2>2
<1>6. Searching'
  <2>1. \A n, l : LastBefore(n, l, k)' = LastBefore(n, l, k)
    BY <1>3, <1>4 DEF LastBefore, Before, KeyIsAfterNode, Node
  <2> QED BY <1>0, <1>2, <1>3, <1>4, <1>5, <2>1 DEF Searching, Before
<1>7. WriterInv'
  BY <1>3, <1>6 DEF WriterInv
<1> QED BY <1>2, <1>3, <1>4, <1>7, WriterSearches

\* What put and remove know when findGreaterOrEqual returns.
LEMMA WriterArrived ==
  ASSUME ListInv, Searching, writer.pc \in {"put", "remove"},
         NEW k, k = writer.key, NEW x, x = walk[Writer].x, x \in Node,
         Link(Writer) \in Entry \cup {Null}, Arrived(Writer, k)
  PROVE  /\ LastBefore(x, 0, k)
         /\ \A l \in Level : 0 < l /\ l < maxHeight => LastBefore(writer.prev[l], l, k)
         /\ \A n \in Entry, l \in Level :
              On(n, l) <=> l < Height(n) /\ Latest(n) /\ map[node[n].key] # Absent
         /\ Found(Link(Writer), k) =>
              /\ Link(Writer) \in Entry /\ node[Link(Writer)].key = k
              /\ Latest(Link(Writer)) /\ map[k] # Absent
              /\ Height(Link(Writer)) <= maxHeight
         /\ ~Found(Link(Writer), k) => map[k] = Absent
<1> USE DEF ListInv
<1>0. k \in Key /\ k \in Int /\ 0 \in Level
  <2>1. k \in Key
    BY DEF Searching
  <2> QED BY <2>1, SkipListAssumption DEF Level
<1>1. LastBefore(x, 0, k) /\ walk[Writer].level = 0
  BY DEF LastBefore, Searching, Arrived, Link
<1>2. \A l \in Level : 0 < l /\ l < maxHeight => LastBefore(writer.prev[l], l, k)
  BY <1>1 DEF Searching
<1>3. ASSUME NEW n \in Entry, NEW l \in Level
      PROVE  On(n, l) <=> l < Height(n) /\ Latest(n) /\ map[node[n].key] # Absent
  BY Ground DEF On, Searching
<1>4. ASSUME Found(Link(Writer), k)
      PROVE  /\ Link(Writer) \in Entry /\ node[Link(Writer)].key = k
             /\ Latest(Link(Writer)) /\ map[k] # Absent
             /\ Height(Link(Writer)) <= maxHeight
  <2>1. Link(Writer) \in Entry /\ node[Link(Writer)].key = k
    BY <1>4 DEF Found
  <2>2. On(Link(Writer), 0)
    BY <1>0, <1>1, <2>1, Ground DEF LevelsLinked, LastBefore, Link
  <2> QED BY <1>0, <1>3, <2>1, <2>2, Ground DEF HeightsBelowMax
<1>5. ASSUME ~Found(Link(Writer), k), map[k] # Absent
      PROVE  FALSE
  <2>1. x \in HeldBefore(k)
    BY <1>0, <1>1 DEF HeldBefore, LastBefore
  <2>2. Link(Writer) \in Entry /\ node[Link(Writer)].key <= k
    BY <1>0, <1>1, <1>5, <2>1, HeldLeadTo DEF Link
  <2> QED BY <1>0, <1>5, <2>2, Ground DEF Found, Arrived, KeyIsAfterNode
<1> QED BY <1>1, <1>2, <1>3, <1>4, <1>5

\* A node of the key that hangs on a level is the next one there.
LEMMA NextIsFound ==
  ASSUME ListInv, Searching, NEW l \in Level, NEW n, LastBefore(n, l, writer.key),
         NEW x \in Entry, On(x, l), node[x].key = writer.key
  PROVE  next[n][l] = x
<1> USE DEF ListInv
<1>0. writer.key \in Int
  BY SkipListAssumption DEF Searching
<1>1. next[n][l] \in Entry /\ node[next[n][l]].key <= writer.key /\ On(next[n][l], l)
  BY Ground DEF LevelsLinked, LastBefore
<1>2. node[next[n][l]].key = writer.key
  BY <1>0, <1>1, Ground DEF LastBefore, KeyIsAfterNode
<1>3. Latest(x) /\ Latest(next[n][l])
  BY <1>1, Ground DEF On, Searching
<1> QED BY <1>1, <1>2, <1>3, Ground DEF Latest

LEMMA StepRemoveFound ==
  ASSUME IInv, RemoveFound
  PROVE  IInv'
<1> DEFINE k == writer.key
           p == walk[Writer].x
           x == Link(Writer)
<1>0. /\ Searching /\ writer.pc \in {"put", "remove"} /\ x \in Entry \cup {Null}
      /\ p \in Node /\ Arrived(Writer, k) /\ k \in Key
  BY Loads DEF IInv, ListInv, WriterInv, Searching, RemoveFound
<1>1. /\ LastBefore(p, 0, k)
      /\ \A l \in Level : 0 < l /\ l < maxHeight => LastBefore(writer.prev[l], l, k)
      /\ \A n \in Entry, l \in Level :
              On(n, l) <=> l < Height(n) /\ Latest(n) /\ map[node[n].key] # Absent
      /\ Found(x, k) =>
              /\ x \in Entry /\ node[x].key = k /\ Latest(x) /\ map[k] # Absent
              /\ Height(x) <= maxHeight
  BY <1>0, WriterArrived DEF IInv, ListInv
<1>2. /\ UNCHANGED <<node, next, maxHeight, reader, map, seen, steady, visited>>
      /\ walk' = [walk EXCEPT ![Writer] = [x |-> Head0, level |-> 0]]
  BY DEF RemoveFound, FindEnd, AtHead
<1>3. /\ walk'[Writer] = [x |-> Head0, level |-> 0]
      /\ walk' = [walk EXCEPT ![Writer] = walk'[Writer]]
      /\ walk'[Writer] \in [x : Node, level : Level]
      /\ walk'[Writer].level < Height(walk'[Writer].x)
      /\ \A j \in 0..walk'[Writer].level : next[walk'[Writer].x][j] # Garbage
  BY <1>2, WriterTypes, SearchBegins DEF IInv, ListInv
<1>4. CASE Found(x, k)
  <2>1. writer' = [writer EXCEPT !.pc = "unlink", !.prev[0] = p, !.old = x]
    BY <1>4 DEF RemoveFound
  <2>2. /\ writer' \in WriterType
        /\ writer'.pc = "unlink" /\ writer'.key = k /\ writer'.new = Null /\ writer'.old = x
        /\ writer'.done = 0 /\ writer'.prev = [writer.prev EXCEPT ![0] = p]
    BY <1>0, <1>1, <1>4, <2>1, WriterTypes, Ground DEF WriterType, Searching, IInv, ListInv
  <2>3. \A n \in Node, l \in Level : On(n, l)' = On(n, l)
    BY <1>0, <1>1, <1>2, <1>4, <2>2, Ground, SkipListAssumption
       DEF On, Latest, Entry, Height, Searching, IInv, ListInv, Level
  <2>4. Unlinking'
    <3>1. \A l \in Level : l < Height(x) =>
            LastBefore(writer'.prev[l], l, k) /\ next[writer'.prev[l]][l] = x
      <4> SUFFICES ASSUME NEW l \in Level, l < Height(x)
                   PROVE  LastBefore(writer'.prev[l], l, k) /\ next[writer'.prev[l]][l] = x
        OBVIOUS
      <4>0. l < Height(x)
        OBVIOUS
      <4>1. LastBefore(writer'.prev[l], l, k)
        <5>1. maxHeight \in Int /\ Height(x) \in Int /\ Height(x) <= maxHeight
          BY <1>1, <1>4, Ground DEF IInv, ListInv, TypeOK
        <5>2. 0 <= l /\ l \in Int /\ l < maxHeight
          BY <4>0, <5>1 DEF Level
        <5>3. writer'.prev[l] = IF l = 0 THEN p ELSE writer.prev[l]
          BY <2>2, WriterTypes DEF IInv, ListInv
        <5> QED BY <1>1, <5>2, <5>3
      <4>2. On(x, l)
        BY <1>1, <1>4
      <4> QED BY <1>0, <1>1, <1>4, <4>1, <4>2, NextIsFound DEF IInv
    <3>2. \A n, l : LastBefore(n, l, k) /\ l \in Level => LastBefore(n, l, writer.key)'
      BY <1>2, <2>2, <2>3 DEF LastBefore, Before, KeyIsAfterNode, Node
    <3>3. 0 < Height(x) /\ \A n : Height(n)' = Height(n)
      BY <1>1, <1>2, <1>4, Ground DEF IInv, ListInv, Height
    <3>4. Latest(writer.old)' /\ writer'.old \in Entry'
      BY <1>1, <1>2, <1>4, <2>2 DEF Latest, Entry
    <3>5. \A l \in Level : writer'.done <= l /\ l < Height(writer.old)' =>
            /\ LastBefore(writer.prev[l], l, writer.key)'
            /\ next'[writer'.prev[l]][l] = writer'.old
      BY <1>2, <2>2, <3>1, <3>2, <3>3
    <3>6. 0..(writer'.done - 1) = {} /\ writer'.done < Height(writer.old)'
      BY <2>2, <3>3
    <3>7. writer'.new = Null /\ writer'.key \in Key /\ node'[writer'.old].key = writer'.key
      BY <1>0, <1>1, <1>2, <1>4, <2>2
    <3>8. writer'.done = 0 /\ map'[writer'.key] # Absent
      BY <1>1, <1>2, <1>4, <2>2
    <3> QED BY <3>4, <3>5, <3>6, <3>7, <3>8 DEF Unlinking
  <2>5. WriterInv'
    BY <2>2, <2>4 DEF WriterInv
  <2> QED BY <1>2, <1>3, <2>2, <2>3, <2>5, WriterSearches
<1>5. CASE ~Found(x, k)
  <2>1. writer' = NoWrite
    BY <1>5 DEF RemoveFound
  <2>2. writer' \in WriterType
    BY <2>1, SkipListAssumption DEF NoWrite, WriterType, Level
  <2>3. \A n, l : On(n, l)' = On(n, l)
    BY <1>0, <1>2, <2>1, OnDepends DEF NoWrite, Searching
  <2>4. WriterInv'
    BY <2>1 DEF WriterInv, NoWrite
  <2> QED BY <1>2, <1>3, <2>2, <2>3, <2>4, WriterSearches
<1> QED BY <1>4, <1>5

-----------------------------------------------------------------------------
\* A new node, which hangs on no level yet.

LEMMA Allocated ==
  ASSUME TypeOK, NEW k \in Key, NEW v \in Value, NEW height \in 1..MaxHeight,
         Allocate(k, v, height), NEW N, N = Len(node) + 1
  PROVE  /\ N \notin Node /\ Entry' = Entry \cup {N} /\ Node' = Node \cup {N}
         /\ N = Len(node)' /\ N \in Int /\ N # Head0 /\ N # Null /\ N # Garbage
         /\ \A n \in Entry : node'[n] = node[n] /\ n < N
         /\ node'[N].key = k /\ node'[N].value = v /\ node'[N].height = height
         /\ \A n \in Node : Height(n)' = Height(n) /\ next'[n] = next[n]
         /\ \A n : n = N => Height(n)' = height
         /\ \A l \in Level : next'[N][l] = IF l = 0 THEN Null ELSE Garbage
         /\ node' \in Seq([key : Key, value : Value, height : 1..MaxHeight])
         /\ next' \in [Node' -> [Level -> Links']]
<1> DEFINE R == [key : Key, value : Value, height : 1..MaxHeight]
           e == [key |-> k, value |-> v, height |-> height]
<1>1. node \in Seq(R) /\ e \in R /\ node' = Append(node, e)
  BY DEF TypeOK, Allocate
<1>2. e.key = k /\ e.value = v /\ e.height = height
  OBVIOUS
<1> HIDE DEF R, e
<1>3. /\ node' \in Seq(R) /\ Len(node)' = N /\ node'[N] = e
      /\ \A n \in 1..Len(node) : node'[n] = node[n]
      /\ Len(node) \in Nat
  BY <1>1, AppendProperties, LenProperties
<1>4. Node = Entry \cup {Head0} /\ Null \notin Int /\ Garbage \notin Int
  BY Ground, SkipListAssumption
<1>5. /\ N \notin Node /\ Entry' = Entry \cup {N} /\ Node' = Node \cup {N}
      /\ N \in Int /\ N # Head0 /\ N # Null /\ N # Garbage
      /\ \A n \in Entry : n < N
  BY <1>3, <1>4 DEF Entry, Node, Head0
<1>6. next' = [n \in 0..N |->
                 IF n = N THEN [l \in Level |-> IF l = 0 THEN Null ELSE Garbage] ELSE next[n]]
  BY DEF Allocate
<1>7. Node' = 0..N
  BY <1>3 DEF Node
<1>8. \A n \in Node : Height(n)' = Height(n) /\ next'[n] = next[n]
  BY <1>3, <1>4, <1>5, <1>6, <1>7 DEF Height, Entry
<1>9. \A n : n = N => Height(n)' = height
  BY <1>2, <1>3, <1>5 DEF Height
<1>10. \A l \in Level : next'[N][l] = IF l = 0 THEN Null ELSE Garbage
  BY <1>5, <1>6, <1>7
<1>11. next' \in [Node' -> [Level -> Links']]
  <2>1. Links \subseteq Links'
    BY <1>5 DEF Links
  <2>2. \A n \in Node : next[n] \in [Level -> Links']
    BY <2>1 DEF TypeOK
  <2>3. [l \in Level |-> IF l = 0 THEN Null ELSE Garbage] \in [Level -> Links']
    BY DEF Links
  <2> QED BY <1>5, <1>6, <1>7, <2>2, <2>3
<1> QED BY <1>2, <1>3, <1>5, <1>8, <1>9, <1>10, <1>11 DEF R, Entry

LEMMA AllocatedOn ==
  ASSUME ListInv, Searching, NEW height \in 1..MaxHeight, writer.pc = "put",
         Allocate(writer.key, writer.value, height), UNCHANGED map,
         NEW N, N = Len(node) + 1, writer'.new = N, writer'.done = 0,
         \/ writer'.old = Null /\ map[writer.key] = Absent
         \/ /\ writer'.old \in Entry /\ node[writer'.old].key = writer.key
            /\ Latest(writer'.old) /\ map[writer.key] # Absent
  PROVE  /\ \A n \in Node, l \in Level : On(n, l)' <=> On(n, l)
         /\ \A l \in Level : \A n : n = N => ~On(n, l)'
<1>0. writer.key \in Key /\ writer.value \in Value
  BY DEF Searching
<1>1. /\ N \notin Node /\ Entry' = Entry \cup {N} /\ N # Head0
      /\ \A n \in Entry : node'[n] = node[n] /\ n < N
      /\ node'[N].key = writer.key
      /\ \A n \in Node : Height(n)' = Height(n)
  BY <1>0, Allocated DEF ListInv
<1>2. /\ Node = Entry \cup {Head0} /\ Head0 \notin Entry /\ Entry \subseteq Int
      /\ Null \notin Node /\ N \in Int
  BY <1>0, Ground, Allocated DEF ListInv
<1>3. \A l \in Level : \A n : n = N => ~On(n, l)'
  BY <1>1 DEF On, Level
<1>4. ASSUME NEW n \in Node, NEW l \in Level PROVE On(n, l)' <=> On(n, l)
  <2>1. CASE n = Head0
    BY <1>1, <2>1 DEF On
  <2>2. CASE n # Head0
    <3>0. n \in Entry /\ n # N
      BY <1>1, <1>2, <2>2
    <3>1. On(n, l) <=> l < Height(n) /\ Latest(n) /\ map[node[n].key] # Absent
      BY <1>2, <2>2 DEF On, Searching
    <3>2. Latest(n)' <=> Latest(n) /\ node[n].key # writer.key
      <4>1. ASSUME Latest(n), node[n].key # writer.key PROVE Latest(n)'
        BY <1>1, <3>0, <4>1 DEF Latest
      <4>2. ASSUME Latest(n)' PROVE Latest(n) /\ node[n].key # writer.key
        <5>1. \A m \in Entry : node[m].key = node[n].key => m <= n
          BY <1>1, <3>0, <4>2 DEF Latest
        <5>2. node[n].key = writer.key => N <= n
          BY <1>1, <3>0, <4>2 DEF Latest
        <5>3. n < N /\ n \in Int /\ N \in Int
          BY <1>1, <1>2, <3>0
        <5> QED BY <5>1, <5>2, <5>3 DEF Latest
      <4> QED BY <4>1, <4>2
    <3>3. CASE n = writer'.old
      BY <1>1, <1>2, <2>2, <3>0, <3>1, <3>3 DEF On, Level
    <3>4. CASE n # writer'.old
      <4>1. On(n, l)' <=> l < Height(n) /\ Latest(n)' /\ map[node[n].key] # Absent
        BY <1>1, <2>2, <3>0, <3>4 DEF On
      <4>2. ~(Latest(n) /\ node[n].key = writer.key /\ map[node[n].key] # Absent)
        <5> SUFFICES ASSUME Latest(n), node[n].key = writer.key, map[writer.key] # Absent
                     PROVE  FALSE
          OBVIOUS
        <5>1. /\ writer'.old \in Entry /\ node[writer'.old].key = writer.key
              /\ Latest(writer'.old)
          OBVIOUS
        <5>2. n <= writer'.old /\ writer'.old <= n
          BY <3>0, <5>1 DEF Latest
        <5>3. n \in Int /\ writer'.old \in Int
          BY <1>2, <3>0, <5>1
        <5> QED BY <3>4, <5>2, <5>3
      <4> QED BY <3>1, <3>2, <4>1, <4>2
    <3> QED BY <3>3, <3>4
  <2> QED BY <2>1, <2>2
<1> QED BY <1>3, <1>4

LEMMA Allocates ==
  ASSUME IInv, Searching, NEW height \in 1..MaxHeight, writer.pc = "put",
         Allocate(writer.key, writer.value, height),
         FindEnd(Writer), UNCHANGED <<reader, map, seen, steady, visited>>,
         maxHeight' \in 1..MaxHeight, maxHeight <= maxHeight', height <= maxHeight',
         writer' \in WriterType',
         NEW N, N = Len(node) + 1, writer'.new = N, writer'.done = 0,
         \/ writer'.old = Null /\ map[writer.key] = Absent
         \/ /\ writer'.old \in Entry /\ node[writer'.old].key = writer.key
            /\ Latest(writer'.old) /\ map[writer.key] # Absent,
         WriterInv'
  PROVE  IInv'
<1> USE DEF ListInv
<1>0. /\ writer.key \in Key /\ writer.value \in Value /\ 0 \in Level
      /\ Null \notin Int /\ Garbage \notin Int
  <2>1. writer.key \in Key /\ writer.value \in Value
    BY DEF Searching
  <2> QED BY <2>1, SkipListAssumption DEF Level
<1>1. /\ N \notin Node /\ Entry' = Entry \cup {N} /\ Node' = Node \cup {N}
      /\ N \in Int /\ N # Head0 /\ N # Null /\ N # Garbage
      /\ \A n \in Entry : node'[n] = node[n]
      /\ node'[N].height = height
      /\ \A n \in Node : Height(n)' = Height(n) /\ next'[n] = next[n]
      /\ \A n : n = N => Height(n)' = height
      /\ \A l \in Level : next'[N][l] = IF l = 0 THEN Null ELSE Garbage
      /\ node' \in Seq([key : Key, value : Value, height : 1..MaxHeight])
      /\ next' \in [Node' -> [Level -> Links']]
  <2> DEFINE k == writer.key
             v == writer.value
  <2>1. TypeOK /\ k \in Key /\ v \in Value /\ Allocate(k, v, height)
    BY <1>0 DEF IInv
  <2> HIDE DEF k, v
  <2>2. /\ N \notin Node /\ Entry' = Entry \cup {N} /\ Node' = Node \cup {N}
        /\ N = Len(node)' /\ N \in Int /\ N # Head0 /\ N # Null /\ N # Garbage
        /\ \A n \in Entry : node'[n] = node[n] /\ n < N
        /\ node'[N].key = k /\ node'[N].value = v /\ node'[N].height = height
        /\ \A n \in Node : Height(n)' = Height(n) /\ next'[n] = next[n]
        /\ \A n : n = N => Height(n)' = height
        /\ \A l \in Level : next'[N][l] = IF l = 0 THEN Null ELSE Garbage
        /\ node' \in Seq([key : Key, value : Value, height : 1..MaxHeight])
        /\ next' \in [Node' -> [Level -> Links']]
    BY <2>1, Allocated, Zenon
  <2> QED BY <2>2
<1>2. /\ Node = Entry \cup {Head0} /\ Head0 \notin Entry
      /\ \A n \in Node, l \in Level : next[n][l] \in Entry \cup {Head0, Null, Garbage}
      /\ \A n \in Entry : Height(n) = node[n].height
  BY Ground DEF IInv
<1>3. /\ \A n \in Node, l \in Level : On(n, l)' <=> On(n, l)
      /\ \A l \in Level : \A n : n = N => ~On(n, l)'
  BY AllocatedOn DEF IInv
<1>4. \A n \in Node, l \in Level : next[n][l] # N
  BY <1>1, <1>2
<1>5. walk' = [walk EXCEPT ![Writer] = [x |-> Head0, level |-> 0]]
  BY DEF FindEnd, AtHead
<1>6. TypeOK'
  <2>1. Head0 \in Node' /\ Node \subseteq Node'
    BY <1>1, <1>2
  <2>2. walk' \in [Reader \cup {Writer} -> [x : Node, level : Level]]'
    BY <1>0, <1>5, <2>1 DEF IInv, TypeOK
  <2> QED BY <1>1, <2>2 DEF IInv, TypeOK, WriterType
<1>7. LevelsLinked'
  <2> SUFFICES ASSUME NEW l \in Level, NEW n \in Node', On(n, l)'
               PROVE  /\ next'[n][l] # Garbage
                      /\ next'[n][l] # Null => next'[n][l] \in Entry' /\ On(next[n][l], l)'
                      /\ \A m \in Entry' : On(m, l)' /\ Before(n, node[m].key)' =>
                           next'[n][l] \in Entry' /\ node'[next'[n][l]].key <= node'[m].key
    BY DEF LevelsLinked
  <2>1. n \in Node /\ On(n, l) /\ next'[n][l] = next[n][l]
    BY <1>1, <1>3
  <2>2. next[n][l] # Garbage /\ (next[n][l] # Null => next[n][l] \in Entry /\ On(next[n][l], l))
    BY <2>1 DEF IInv, LevelsLinked
  <2>3. next[n][l] # Null => On(next[n][l], l)'
    <3>1. \A x : x \in Entry /\ On(x, l) => On(x, l)'
      BY <1>2, <1>3
    <3> QED BY <2>1, <2>2, <3>1
  <2>4. ASSUME NEW m \in Entry', On(m, l)', Before(n, node[m].key)'
        PROVE  next[n][l] \in Entry /\ node'[next[n][l]].key <= node'[m].key
    <3>1. m \in Entry /\ On(m, l) /\ node'[m] = node[m]
      BY <1>1, <1>2, <1>3, <2>4
    <3>2. Before(n, node[m].key)
      BY <1>1, <1>2, <2>1, <2>4, <3>1 DEF Before
    <3>3. next[n][l] \in Entry /\ node[next[n][l]].key <= node[m].key
      BY <2>1, <3>1, <3>2 DEF IInv, LevelsLinked
    <3> QED BY <1>1, <3>1, <3>3
  <2> QED BY <1>1, <2>1, <2>2, <2>3, <2>4
<1>8. MapIsHeld' /\ HeightsBelowMax'
  <2>1. ASSUME NEW n \in Entry', On(n, 0)' PROVE map'[node'[n].key] = node'[n].value
    BY <1>0, <1>1, <1>2, <1>3, <2>1 DEF IInv, MapIsHeld
  <2>2. ASSUME NEW j \in Key, map'[j] # Absent
        PROVE  \E n \in Entry' : On(n, 0)' /\ node'[n].key = j
    <3>1. PICK n \in Entry : On(n, 0) /\ node[n].key = j
      BY <2>2 DEF IInv, MapIsHeld
    <3>2. n \in Entry' /\ On(n, 0)' /\ node'[n].key = j
      BY <1>0, <1>1, <1>2, <1>3, <3>1
    <3> QED BY <3>2
  <2>3. ASSUME NEW n \in Entry' PROVE node'[n].height <= maxHeight'
    <3>1. CASE n = N
      BY <1>1, <3>1
    <3>2. CASE n # N
      <4>1. n \in Entry /\ node[n].height <= maxHeight /\ node'[n] = node[n]
        BY <1>1, <3>2 DEF IInv, HeightsBelowMax
      <4>2. node[n].height \in Int /\ maxHeight \in Int /\ maxHeight' \in Int
        BY <4>1, Ground DEF IInv, TypeOK
      <4> QED BY <4>1, <4>2
    <3> QED BY <3>1, <3>2
  <2> QED BY <2>1, <2>2, <2>3 DEF MapIsHeld, HeightsBelowMax
<1>9. LinksLeadForward'
  <2>1. \A l \in Level : next'[Head0][l] # Garbage
    BY <1>1, <1>2 DEF IInv, LinksLeadForward
  <2>2. ASSUME NEW n \in Node', NEW l \in Level, next'[n][l] \notin {Null, Garbage}
        PROVE  /\ next'[n][l] \in Entry' /\ Before(n, node[next[n][l]].key)'
               /\ l < Height(n)' /\ l < Height(next[n][l])'
               /\ \A j \in 0..l : next'[next'[n][l]][j] # Garbage
    <3>1. n \in Node /\ next'[n][l] = next[n][l]
      BY <1>1, <2>2
    <3>2. /\ next[n][l] \in Entry /\ Before(n, node[next[n][l]].key)
          /\ l < Height(n) /\ l < Height(next[n][l])
          /\ \A j \in 0..l : next[next[n][l]][j] # Garbage
      BY <2>2, <3>1 DEF IInv, LinksLeadForward
    <3>3. \A x \in Entry : Height(x)' = Height(x) /\ next'[x] = next[x] /\ node'[x] = node[x]
      BY <1>1, <1>2
    <3>4. l < Height(next[n][l])'
      BY <3>1, <3>2, <3>3
    <3> QED BY <1>1, <1>2, <3>1, <3>2, <3>3, <3>4 DEF Before
  <2> QED BY <2>1, <2>2 DEF LinksLeadForward
<1>10. ASSUME NEW a \in Reader \cup {Writer} PROVE LinksSet(a)'
  <2>1. CASE a = Writer
    <3>1. walk'[a].x = Head0 /\ walk'[a].level = 0
      BY <1>5, <2>1 DEF IInv, TypeOK
    <3>2. \A n : n = Head0 => 0 < Height(n)' /\ next'[n][0] # Garbage
      BY <1>0, <1>1, <1>2, Ground DEF IInv, LinksLeadForward
    <3> QED BY <3>1, <3>2 DEF LinksSet
  <2>2. CASE a # Writer
    <3>1. walk'[a] = walk[a] /\ walk[a].x \in Node
      BY <1>5, <2>2 DEF IInv, TypeOK
    <3>2. Height(walk[a].x)' = Height(walk[a].x)
      BY <1>1, <3>1
    <3> QED BY <1>1, <3>1, <3>2 DEF IInv, LinksSet
  <2> QED BY <2>1, <2>2
<1>11. ASSUME NEW r \in Reader PROVE ReaderInv(r)'
  <2>0. walk'[r] = walk[r] /\ walk[r].x \in Node
    BY <1>5, SkipListAssumption DEF IInv, TypeOK
  <2>1. \A k : \A n \in Node : Before(n, k)' <=> Before(n, k)
    BY <1>1, <1>2 DEF Before
  <2>2. Underway(r)'
    BY <1>1, <2>0, <2>1 DEF IInv, ReaderInv, Underway, Present
  <2>3. Answered(r)'
    BY DEF IInv, ReaderInv, Answered
  <2>4. ASSUME NEW k \in Sought(r), NEW S \in SUBSET Node, Path(r, k, S)
        PROVE  Path(r, k, S)'
    <3>1. \A n \in Node' : \A l \in Level : On(n, l)' /\ Before(n, k)' => n \in S
      BY <1>1, <1>3, <2>1, <2>4 DEF Path
    <3>2. ASSUME NEW n \in S
          PROVE  /\ Before(n, k)'
                 /\ \A l \in Level : next'[n][l] \in Entry' /\ Before(next[n][l], k)'
                                        => next'[n][l] \in S
                 /\ \/ Absent \in seen'[r]
                    \/ next'[n][0] \in Entry' /\ node'[next'[n][0]].key <= k
                 /\ reader'[r].pc = "get" =>
                      (next'[n][0] \in Entry' /\ node'[next'[n][0]].key = k
                         => node'[next'[n][0]].value \in seen'[r])
      <4>1. /\ n \in Node /\ next'[n] = next[n] /\ \A l \in Level : next[n][l] # N
            /\ \A l \in Level : next[n][l] \in Entry' <=> next[n][l] \in Entry
        BY <1>1, <1>4
      <4>2. \A l \in Level : next[n][l] \in Entry =>
              (Before(next[n][l], k)' <=> Before(next[n][l], k))
        BY <1>1, <1>2, <4>1 DEF Before
      <4> QED BY <1>0, <1>1, <2>1, <2>4, <4>1, <4>2 DEF Path
    <3> QED BY <2>0, <2>4, <3>1, <3>2 DEF Path
  <2>5. OnPath(r)'
    <3> SUFFICES ASSUME NEW k \in Sought(r) PROVE \E S \in SUBSET Node' : Path(r, k, S)'
      BY DEF OnPath, Sought
    <3>1. PICK S \in SUBSET Node : Path(r, k, S)
      BY DEF IInv, ReaderInv, OnPath
    <3> QED BY <1>1, <2>4, <3>1
  <2> QED BY <2>2, <2>3, <2>5 DEF ReaderInv
<1> QED BY <1>6, <1>7, <1>8, <1>9, <1>10, <1>11 DEF IInv

\* What was there is as it was; the new node is about to be linked.
LEMMA AllocatedLinking ==
  ASSUME IInv, Searching, NEW height \in 1..MaxHeight, writer.pc = "put",
         Allocate(writer.key, writer.value, height), UNCHANGED map,
         NEW N, N = Len(node) + 1,
         writer'.new = N, writer'.done = 0,
         writer'.key = writer.key, writer'.value = writer.value,
         \/ writer'.old = Null /\ map[writer.key] = Absent
         \/ /\ writer'.old \in Entry /\ node[writer'.old].key = writer.key
            /\ Latest(writer'.old) /\ map[writer.key] # Absent,
         \A l \in Level : l < height => LastBefore(writer'.prev[l], l, writer.key)
  PROVE  /\ Linking'
         /\ \A n \in Node : next'[n] = next[n] /\ Height(n)' = Height(n)
         /\ \A n \in Entry : node'[n] = node[n]
         /\ Entry \subseteq Entry' /\ N \notin Entry
         /\ \A n : n = N => Height(n)' = height
<1>0. /\ writer.key \in Key /\ writer.value \in Value
  BY DEF Searching
<1>1. /\ N \notin Node /\ Entry' = Entry \cup {N} /\ Node' = Node \cup {N}
      /\ N = Len(node)' /\ N \in Int /\ N # Head0 /\ N # Null /\ N # Garbage
      /\ \A n \in Entry : node'[n] = node[n] /\ n < N
      /\ node'[N].key = writer.key /\ node'[N].value = writer.value /\ node'[N].height = height
      /\ \A n \in Node : Height(n)' = Height(n) /\ next'[n] = next[n]
      /\ \A n : n = N => Height(n)' = height
      /\ \A l \in Level : next'[N][l] = IF l = 0 THEN Null ELSE Garbage
      /\ node' \in Seq([key : Key, value : Value, height : 1..MaxHeight])
      /\ next' \in [Node' -> [Level -> Links']]
  <2> DEFINE k == writer.key
             v == writer.value
  <2>1. TypeOK /\ k \in Key /\ v \in Value /\ Allocate(k, v, height)
    BY <1>0 DEF IInv, ListInv
  <2> HIDE DEF k, v
  <2>2. /\ N \notin Node /\ Entry' = Entry \cup {N} /\ Node' = Node \cup {N}
        /\ N = Len(node)' /\ N \in Int /\ N # Head0 /\ N # Null /\ N # Garbage
        /\ \A n \in Entry : node'[n] = node[n] /\ n < N
        /\ node'[N].key = k /\ node'[N].value = v /\ node'[N].height = height
        /\ \A n \in Node : Height(n)' = Height(n) /\ next'[n] = next[n]
        /\ \A n : n = N => Height(n)' = height
        /\ \A l \in Level : next'[N][l] = IF l = 0 THEN Null ELSE Garbage
        /\ node' \in Seq([key : Key, value : Value, height : 1..MaxHeight])
        /\ next' \in [Node' -> [Level -> Links']]
    BY <2>1, Allocated, Zenon
  <2> QED BY <2>2 DEF k, v
<1>2. \A n \in Node, l \in Level : On(n, l)' <=> On(n, l)
  BY AllocatedOn DEF IInv
<1>3. Node = Entry \cup {Head0} /\ Head0 \notin Entry
  BY Ground DEF IInv, ListInv
<1>4. ASSUME NEW l \in Level, l < height PROVE LastBefore(writer.prev[l], l, writer.key)'
  <2>1. /\ writer'.prev[l] \in Node /\ On(writer'.prev[l], l)
        /\ Before(writer'.prev[l], writer.key)
        /\ ~KeyIsAfterNode(writer.key, next[writer'.prev[l]][l])
    BY <1>4 DEF LastBefore
  <2>2. On(writer.prev[l], l)'
    BY <1>2, <2>1
  <2>3. Before(writer.prev[l], writer.key)'
    BY <1>1, <1>3, <2>1 DEF Before
  <2>4. next[writer'.prev[l]][l] \in Entry \cup {Head0, Null, Garbage}
    BY <2>1, Ground DEF IInv, ListInv
  <2>5. next[writer'.prev[l]][l] # Head0
    BY <2>1, <1>3, SkipListAssumption DEF IInv, ListInv, LinksLeadForward, Head0
  <2>6. ~KeyIsAfterNode(writer.key, next[writer.prev[l]][l])'
    BY <1>1, <1>3, <2>1, <2>4, <2>5 DEF KeyIsAfterNode
  <2> QED BY <1>1, <2>1, <2>2, <2>3, <2>6 DEF LastBefore
<1>5. Height(writer.new)' = height /\ height > 0
  BY <1>1
<1>6. Linking'
  <2>1. \A l \in Level : l >= writer'.done => next'[writer'.new][l] \in {Null, Garbage}
    BY <1>1
  <2>2. writer'.done < Height(writer.new)'
    BY <1>5
  <2> QED BY <1>0, <1>1, <1>4, <1>5, <2>1, <2>2 DEF Linking
<1> QED BY <1>1, <1>3, <1>6

LEMMA StepPutReplace ==
  ASSUME IInv, PutReplace
  PROVE  IInv'
<1> DEFINE k == writer.key
           p == walk[Writer].x
           x == Link(Writer)
<1>0. /\ Searching /\ writer.pc = "put" /\ x \in Entry \cup {Null}
      /\ p \in Node /\ Arrived(Writer, k) /\ k \in Key /\ Found(x, k)
      /\ UNCHANGED <<maxHeight, reader, map, seen, steady, visited>> /\ FindEnd(Writer)
      /\ Allocate(k, writer.value, node[x].height)
  BY Loads DEF IInv, ListInv, WriterInv, Searching, PutReplace
<1>1. /\ LastBefore(p, 0, k)
      /\ \A l \in Level : 0 < l /\ l < maxHeight => LastBefore(writer.prev[l], l, k)
      /\ \A n \in Entry, l \in Level :
              On(n, l) <=> l < Height(n) /\ Latest(n) /\ map[node[n].key] # Absent
      /\ x \in Entry /\ node[x].key = k /\ Latest(x) /\ map[k] # Absent
      /\ Height(x) <= maxHeight
  BY <1>0, WriterArrived DEF IInv, ListInv
<1>2. PICK N : N = Len(node) + 1
  OBVIOUS
<1>3. N \in Node' /\ Node \subseteq Node' /\ N # Null /\ x # N
  <2>1. Len(node) \in Nat /\ Len(node)' = Len(node) + 1
    BY <1>0, AppendProperties, Ground DEF Allocate, IInv, ListInv
  <2> QED BY <1>1, <1>2, <2>1, SkipListAssumption DEF Node, Entry
<1>4. writer' = [writer EXCEPT !.pc = "link", !.prev[0] = p, !.new = N, !.old = x]
  BY <1>2 DEF PutReplace
<1>5. /\ writer' \in WriterType'
      /\ writer'.pc = "link" /\ writer'.key = k /\ writer'.new = N /\ writer'.old = x
      /\ writer'.value = writer.value
      /\ writer'.done = 0 /\ writer'.prev = [writer.prev EXCEPT ![0] = p]
  BY <1>0, <1>1, <1>3, <1>4, WriterTypes, Ground DEF WriterType, Searching, IInv, ListInv
<1>6. Height(x) \in 1..MaxHeight /\ Height(x) = node[x].height /\ maxHeight \in 1..MaxHeight
  BY <1>1, Ground DEF IInv, ListInv, TypeOK
<1>7. ASSUME NEW l \in Level, l < Height(x)
      PROVE  LastBefore(writer'.prev[l], l, k) /\ next[writer'.prev[l]][l] = x
  <2>1. 0 <= l /\ l \in Int /\ l < maxHeight
    BY <1>1, <1>6, <1>7 DEF Level
  <2>2. writer'.prev[l] = IF l = 0 THEN p ELSE writer.prev[l]
    BY <1>5, WriterTypes DEF IInv, ListInv
  <2>3. LastBefore(writer'.prev[l], l, k)
    BY <1>1, <2>1, <2>2
  <2> QED BY <1>0, <1>1, <1>7, <2>3, NextIsFound DEF IInv
<1>8. /\ Linking'
      /\ \A n \in Node : next'[n] = next[n] /\ Height(n)' = Height(n)
      /\ \A n \in Entry : node'[n] = node[n]
      /\ Entry \subseteq Entry' /\ N \notin Entry
      /\ \A n : n = N => Height(n)' = Height(x)
  <2> HIDE DEF p, x
  <2> QED BY <1>0, <1>1, <1>2, <1>5, <1>6, <1>7, AllocatedLinking
<1>9. Replacing' /\ Inserting'
  <2>1. writer'.old # Null /\ writer'.old \in Entry' /\ writer'.old # writer'.new
        /\ node'[writer'.old].key = writer'.key /\ map'[writer'.key] # Absent
    BY <1>0, <1>1, <1>3, <1>5, <1>8, Ground DEF IInv, ListInv
  <2>2. Height(writer.old)' = Height(x) /\ Height(writer.new)' = Height(x)
    BY <1>1, <1>5, <1>8, Ground DEF IInv, ListInv
  <2>3. 0..(writer'.done - 1) = {}
    BY <1>5
  <2>4. \A l \in Level : writer'.done <= l /\ l < Height(writer.new)' =>
          next'[writer'.prev[l]][l] = writer'.old
    BY <1>5, <1>7, <1>8, <2>2 DEF LastBefore
  <2> QED BY <2>1, <2>2, <2>3, <2>4 DEF Replacing, Inserting
<1>10. WriterInv'
  BY <1>5, <1>8, <1>9 DEF WriterInv
<1> HIDE DEF p, x
<1> QED BY <1>0, <1>1, <1>2, <1>5, <1>6, <1>10, Allocates

LEMMA StepPutInsert ==
  ASSUME IInv, NEW height \in 1..MaxHeight, PutInsert(height)
  PROVE  IInv'
<1> DEFINE k == writer.key
           p == walk[Writer].x
           x == Link(Writer)
<1>0. /\ Searching /\ writer.pc = "put" /\ x \in Entry \cup {Null}
      /\ p \in Node /\ Arrived(Writer, k) /\ k \in Key /\ ~Found(x, k)
      /\ UNCHANGED <<reader, map, seen, steady, visited>> /\ FindEnd(Writer)
      /\ Allocate(k, writer.value, height)
      /\ maxHeight' = IF height > maxHeight THEN height ELSE maxHeight
  BY Loads DEF IInv, ListInv, WriterInv, Searching, PutInsert, NewMaxHeight
<1>1. /\ LastBefore(p, 0, k)
      /\ \A l \in Level : 0 < l /\ l < maxHeight => LastBefore(writer.prev[l], l, k)
      /\ \A n \in Entry, l \in Level :
              On(n, l) <=> l < Height(n) /\ Latest(n) /\ map[node[n].key] # Absent
      /\ map[k] = Absent
  BY <1>0, WriterArrived DEF IInv, ListInv
<1>2. PICK N : N = Len(node) + 1
  OBVIOUS
<1>3. N \in Node' /\ Node \subseteq Node' /\ N # Null
  <2>1. Len(node) \in Nat /\ Len(node)' = Len(node) + 1
    BY <1>0, AppendProperties, Ground DEF Allocate, IInv, ListInv
  <2> QED BY <1>2, <2>1, SkipListAssumption DEF Node
<1>4. writer' = [writer EXCEPT !.pc = "link", !.new = N,
                  !.prev = [l \in Level |->
                              IF l = 0 THEN p
                              ELSE IF l \in maxHeight..(height - 1) THEN Head0
                              ELSE writer.prev[l]]]
  BY <1>2 DEF PutInsert
<1>5. /\ writer' \in WriterType'
      /\ writer'.pc = "link" /\ writer'.key = k /\ writer'.new = N /\ writer'.old = Null
      /\ writer'.value = writer.value /\ writer'.done = 0
      /\ \A l \in Level : writer'.prev[l] = IF l = 0 THEN p
                                      ELSE IF l \in maxHeight..(height - 1) THEN Head0
                                      ELSE writer.prev[l]
  <2>1. [l \in Level |-> IF l = 0 THEN p
                        ELSE IF l \in maxHeight..(height - 1) THEN Head0
                        ELSE writer.prev[l]] \in [Level -> Node' \cup {Null}]
    BY <1>0, <1>3, WriterTypes, Ground DEF IInv, ListInv
  <2> QED BY <1>0, <1>3, <1>4, <2>1, WriterTypes, Ground DEF WriterType, Searching, IInv, ListInv
<1>6. maxHeight \in 1..MaxHeight /\ maxHeight' \in 1..MaxHeight
      /\ maxHeight <= maxHeight' /\ height <= maxHeight'
  BY <1>0 DEF IInv, ListInv, TypeOK
<1>7. ASSUME NEW l \in Level, l < height
      PROVE  /\ LastBefore(writer'.prev[l], l, k)
             /\ next[writer'.prev[l]][l] # Null => node[next[writer'.prev[l]][l]].key # k
  <2>0. 0 <= l /\ l \in Int
    BY DEF Level
  <2>1. LastBefore(writer'.prev[l], l, k)
    <3>1. CASE l = 0
      BY <1>1, <1>5, <3>1
    <3>2. CASE l # 0 /\ l < maxHeight
      BY <1>1, <1>5, <1>6, <2>0, <3>2
    <3>3. CASE l # 0 /\ ~(l < maxHeight)
      <4>1. writer'.prev[l] = Head0 /\ Head0 \in Node /\ On(Head0, l)
        BY <1>5, <1>6, <1>7, <2>0, <3>3, Ground DEF On, IInv, ListInv, Level
      <4>2. next[Head0][l] = Null
        <5> SUFFICES ASSUME next[Head0][l] # Null PROVE FALSE
          OBVIOUS
        <5>1. next[Head0][l] \in Entry /\ On(next[Head0][l], l)
          BY <4>1 DEF IInv, ListInv, LevelsLinked
        <5>2. l < Height(next[Head0][l]) /\ Height(next[Head0][l]) <= maxHeight
              /\ Height(next[Head0][l]) \in Int
          BY <1>1, <5>1, Ground DEF IInv, ListInv, HeightsBelowMax
        <5> QED BY <1>6, <2>0, <3>3, <5>2
      <4> QED BY <4>1, <4>2 DEF LastBefore, Before, KeyIsAfterNode
    <3> QED BY <3>1, <3>2, <3>3
  <2>2. ASSUME next[writer'.prev[l]][l] # Null
        PROVE  node[next[writer'.prev[l]][l]].key # k
    <3>1. next[writer'.prev[l]][l] \in Entry /\ On(next[writer'.prev[l]][l], l)
      BY <2>1, <2>2 DEF LastBefore, IInv, ListInv, LevelsLinked
    <3> QED BY <1>1, <3>1
  <2> QED BY <2>1, <2>2
<1>8. /\ Linking'
      /\ \A n \in Node : next'[n] = next[n] /\ Height(n)' = Height(n)
      /\ \A n \in Entry : node'[n] = node[n]
      /\ Entry \subseteq Entry' /\ N \notin Entry
      /\ \A n : n = N => Height(n)' = height
  <2> HIDE DEF p, x
  <2> QED BY <1>0, <1>1, <1>2, <1>5, <1>6, <1>7, AllocatedLinking
<1>9. Replacing' /\ Inserting'
  <2>1. writer'.old = Null /\ writer'.done = 0 /\ map'[writer'.key] = Absent
    BY <1>0, <1>1, <1>5
  <2>2. Height(writer.new)' = height
    BY <1>5, <1>8
  <2>3. ASSUME NEW l \in Level, l < height, next'[writer'.prev[l]][l] # Null
        PROVE  node'[next'[writer'.prev[l]][l]].key # writer'.key
    <3>1. LastBefore(writer'.prev[l], l, k) /\ next'[writer'.prev[l]] = next[writer'.prev[l]]
      BY <1>7, <1>8, <2>3 DEF LastBefore
    <3>2. next[writer'.prev[l]][l] \in Entry
      BY <2>3, <3>1 DEF LastBefore, IInv, ListInv, LevelsLinked
    <3> QED BY <1>5, <1>7, <1>8, <2>3, <3>1, <3>2
  <2> QED BY <2>1, <2>2, <2>3 DEF Replacing, Inserting
<1>10. WriterInv'
  BY <1>5, <1>8, <1>9 DEF WriterInv
<1> HIDE DEF p, x
<1> QED BY <1>0, <1>1, <1>2, <1>5, <1>6, <1>10, Allocates

-----------------------------------------------------------------------------
\* What is around the link that put or remove is about to store.

NextAfter(l) == IF writer.old = Null THEN next[writer.prev[l]][l] ELSE next[writer.old][l]

Surroundings(l, k, P, O, N, B) ==
  /\ l \in Level /\ k \in Key /\ k \in Int
  /\ P \in Node /\ On(P, l) /\ Before(P, k) /\ P # N /\ P # O
  /\ O # Null => O \in Entry /\ On(O, l) /\ node[O].key = k /\ next[P][l] = O
  /\ writer.pc = "link" => N \in Entry /\ N = Len(node) /\ node[N].key = k /\ N # O
  /\ writer.pc = "unlink" => N = Null /\ O # Null
  /\ next[P][l] # Null => next[P][l] \in Entry /\ ~(node[next[P][l]].key < k)
  /\ next[P][l] # Garbage
  /\ B # Null => /\ B \in Entry /\ On(B, l) /\ node[B].key > k
                /\ l < Height(B) /\ \A j \in 0..l : next[B][j] # Garbage
  /\ \A m \in Entry : On(m, l) /\ node[m].key > k
                      => B \in Entry /\ node[B].key <= node[m].key
  /\ \A m \in Entry : On(m, l) /\ node[m].key = k => m = O
  /\ \A n \in Node : On(n, l) /\ Before(n, k) /\ n # P
                      => next[n][l] \in Entry /\ node[next[n][l]].key < k

LEMMA Around ==
  ASSUME ListInv, writer.pc \in {"link", "unlink"},
         NEW l, l = writer.done, NEW k, k = writer.key, NEW P, P = writer.prev[l],
         NEW O, O = writer.old, NEW N, N = writer.new, NEW B, B = NextAfter(l)
  PROVE  Surroundings(l, k, P, O, N, B)
<1> USE DEF ListInv
<1>0. /\ l \in Level /\ l \in Int /\ l >= 0 /\ Null \notin Int /\ Garbage \notin Int
      /\ Node = Entry \cup {Head0} /\ Head0 \notin Entry
      /\ \A n \in Entry : n \in Int /\ node[n].key \in Int
  BY WriterTypes, Ground, SkipListAssumption DEF Level
<1>1. /\ k \in Key /\ LastBefore(P, l, k) /\ l < Height(IF N = Null THEN O ELSE N)
      /\ O # Null => /\ O \in Entry /\ node[O].key = k /\ next[P][l] = O
                    /\ l < Height(O)
      /\ writer.pc = "link" => N \in Entry /\ N = Len(node) /\ node[N].key = k /\ N # O
      /\ writer.pc = "unlink" => N = Null /\ O # Null /\ Latest(O)
  <2>1. CASE writer.pc = "link"
    <3>1. Linking /\ Inserting /\ Replacing
      BY <2>1 DEF WriterInv
    <3>2. /\ k \in Key /\ LastBefore(P, l, k) /\ l < Height(N)
          /\ N \in Entry /\ N = Len(node) /\ node[N].key = k /\ N # Null
      BY <1>0, <3>1 DEF Linking
    <3>3. O # Null => /\ O \in Entry /\ node[O].key = k /\ next[P][l] = O
                      /\ l < Height(O) /\ N # O
      BY <1>0, <3>1, <3>2 DEF Replacing
    <3> QED BY <1>0, <2>1, <3>2, <3>3
  <2>2. CASE writer.pc = "unlink"
    BY <1>0, <2>2 DEF WriterInv, Unlinking
  <2> QED BY <2>1, <2>2
<1>2. k \in Int
  BY <1>1, SkipListAssumption
<1>3. P \in Node /\ On(P, l) /\ Before(P, k)
  BY <1>1 DEF LastBefore
<1>4. P # N /\ P # O
  <2>1. P # Null
    BY <1>0, <1>3, Ground
  <2>2. P \in Entry => node[P].key < k
    BY <1>0, <1>3 DEF Before
  <2> QED BY <1>0, <1>1, <1>2, <2>1, <2>2
<1>5. O # Null => On(O, l)
  BY <1>0, <1>1 DEF On
<1>6. /\ next[P][l] # Null => next[P][l] \in Entry /\ ~(node[next[P][l]].key < k)
      /\ next[P][l] # Garbage
  BY <1>0, <1>1 DEF LastBefore, LevelsLinked, KeyIsAfterNode
<1>7. ASSUME NEW m \in Entry, On(m, l), node[m].key = k PROVE m = O
  <2>1. CASE m = N
    BY <1>0, <1>7, <2>1, Ground DEF On
  <2>2. CASE m # N /\ m # O
    <3>1. Latest(m)
      BY <1>0, <1>7, <2>2 DEF On
    <3>2. writer.pc # "link"
      <4> SUFFICES ASSUME writer.pc = "link" PROVE FALSE
        OBVIOUS
      <4>1. N <= m /\ m <= Len(node)
        BY <1>1, <1>7, <3>1 DEF Latest, Entry
      <4> QED BY <1>0, <1>1, <2>2, <4>1
    <3>3. O \in Entry /\ node[O].key = k /\ Latest(O)
      BY <1>1, <3>2
    <3>4. m <= O /\ O <= m
      BY <1>7, <3>1, <3>3 DEF Latest
    <3> QED BY <1>0, <2>2, <3>3, <3>4
  <2> QED BY <2>1, <2>2
<1>8. B # Null => /\ B \in Entry /\ On(B, l) /\ node[B].key > k
                  /\ l < Height(B) /\ \A j \in 0..l : next[B][j] # Garbage
  <2> SUFFICES ASSUME B # Null
               PROVE  /\ B \in Entry /\ On(B, l) /\ node[B].key > k
                      /\ l < Height(B) /\ \A j \in 0..l : next[B][j] # Garbage
    OBVIOUS
  <2> DEFINE C == IF O = Null THEN P ELSE O
  <2>1. B = next[C][l] /\ C \in Node /\ On(C, l)
    BY <1>0, <1>1, <1>3, <1>5 DEF NextAfter
  <2>2. B \in Entry /\ On(B, l)
    BY <1>0, <2>1 DEF LevelsLinked
  <2>3. B \notin {Null, Garbage}
    BY <1>0, <2>2
  <2>4. /\ Before(C, node[B].key) /\ l < Height(B)
        /\ \A j \in 0..l : next[B][j] # Garbage
    <3>1. LinksLeadForward
      OBVIOUS
    <3> QED BY ONLY <1>0, <2>1, <2>3, <3>1 DEF LinksLeadForward
  <2>5. CASE O = Null
    <3>1. ~(node[B].key < k) /\ node[B].key \in Int
      BY <1>0, <1>6, <2>1, <2>2, <2>5
    <3>2. node[B].key # k
      BY <1>0, <1>7, <2>2, <2>5
    <3> QED BY <1>2, <2>2, <2>4, <3>1, <3>2
  <2>6. CASE O # Null
    BY <1>0, <1>1, <2>1, <2>2, <2>4, <2>6 DEF Before
  <2> QED BY <2>5, <2>6
<1>9. ASSUME NEW m \in Entry, On(m, l), node[m].key > k
      PROVE  B \in Entry /\ node[B].key <= node[m].key
  <2> DEFINE C == IF O = Null THEN P ELSE O
  <2>1. B = next[C][l] /\ C \in Node /\ On(C, l)
    BY <1>0, <1>1, <1>3, <1>5 DEF NextAfter
  <2>2. Before(C, node[m].key)
    BY <1>0, <1>1, <1>2, <1>3, <1>9 DEF Before
  <2> QED BY <1>0, <1>9, <2>1, <2>2 DEF LevelsLinked
<1>10. ASSUME NEW n \in Node, On(n, l), Before(n, k), n # P
       PROVE  next[n][l] \in Entry /\ node[next[n][l]].key < k
  <2>1. CASE P \in Entry /\ Before(n, node[P].key)
    <3>1. next[n][l] \in Entry /\ node[next[n][l]].key <= node[P].key /\ node[P].key < k
      BY <1>0, <1>3, <1>10, <2>1 DEF LevelsLinked, Before
    <3> QED BY <1>0, <1>2, <2>1, <3>1
  <2>2. CASE n \in Entry /\ Before(P, node[n].key)
    <3>1. next[P][l] \in Entry /\ node[next[P][l]].key <= node[n].key /\ node[n].key < k
      BY <1>0, <1>3, <1>10, <2>2 DEF LevelsLinked, Before
    <3> QED BY <1>0, <1>2, <1>6, <2>2, <3>1
  <2>3. CASE n \in Entry /\ P \in Entry /\ node[n].key = node[P].key
    <3>1. node[n].key < k
      BY <1>0, <1>10, <2>3 DEF Before
    <3>2. n # N /\ n # O /\ n # Head0 /\ P # Head0
      <4>1. /\ node[n].key # k
            /\ n \in Node /\ n # Head0 /\ P # Head0
        BY ONLY <1>0, <1>2, <2>3, <3>1
      <4>2. N \in Entry => node[N].key = k
        BY ONLY <1>0, <1>1, writer.pc \in {"link", "unlink"}
      <4>3. O # Null => node[O].key = k
        BY ONLY <1>1
      <4>4. n # O
        BY ONLY <4>1, <4>3, <1>0, <2>3
      <4>5. n # N
        BY ONLY <4>1, <4>2, <2>3
      <4> QED BY ONLY <4>1, <4>4, <4>5
    <3>3. Latest(n) /\ Latest(P)
      BY <1>3, <1>4, <1>10, <3>2 DEF On
    <3>4. n <= P /\ P <= n
      BY <2>3, <3>3 DEF Latest
    <3> QED BY <1>0, <1>10, <2>3, <3>4
  <2>4. CASE n = Head0 \/ P = Head0
    BY <1>0, <1>3, <1>10, <2>1, <2>2, <2>4 DEF Before
  <2>5. CASE n \in Entry /\ P \in Entry
    <3>1. node[n].key \in Int /\ node[P].key \in Int
      BY <1>0, <2>5
    <3> QED BY <2>1, <2>2, <2>3, <2>5, <3>1 DEF Before
  <2> QED BY <1>0, <1>3, <1>10, <2>4, <2>5
<1> QED BY <1>0, <1>1, <1>2, <1>3, <1>4, <1>5, <1>6, <1>7, <1>8, <1>9, <1>10
        DEF Surroundings

\* What PutLink does to the links, to the map, and to what hangs on the level.
LinkStored(l, k, P, O, N, B) ==
  /\ UNCHANGED <<node, maxHeight, walk, reader, visited>>
  /\ next' \in [Node -> [Level -> Links]]
  /\ \A n \in Node, j \in Level :
       next'[n][j] = IF n = N /\ j = l THEN B
                     ELSE IF n = P /\ j = l THEN N ELSE next[n][j]
  /\ map' \in [Key -> Value \cup {Absent}]
  /\ map'[k] = node[N].value /\ \A j \in Key : j # k => map'[j] = map[j]
  /\ l # 0 => UNCHANGED <<map, seen, steady>>
  /\ l = 0 => Becomes(k, node[N].value)
  /\ \A n \in Node, j \in Level :
       On(n, j)' <=> (On(n, j) /\ ~(n = O /\ j = l)) \/ (n = N /\ j = l)
  /\ \/ writer' = [writer EXCEPT !.done = l + 1] /\ l + 1 < Height(N)
     \/ writer' = NoWrite

LEMMA PutLinkStores ==
  ASSUME IInv, PutLink,
         NEW l, l = writer.done, NEW k, k = writer.key, NEW P, P = writer.prev[l],
         NEW O, O = writer.old, NEW N, N = writer.new, NEW B, B = NextAfter(l)
  PROVE  Surroundings(l, k, P, O, N, B) /\ LinkStored(l, k, P, O, N, B)
<1> DEFINE height == Height(N)
<1>0. /\ writer.pc = "link" /\ Linking /\ Inserting /\ Replacing
      /\ UNCHANGED <<node, maxHeight, walk, reader, visited>>
      /\ next' = [next EXCEPT ![N][l] = B, ![P][l] = N]
      /\ l # 0 => UNCHANGED <<map, seen, steady>>
      /\ l = 0 => Becomes(k, node[N].value)
      /\ writer' = IF l + 1 < height THEN [writer EXCEPT !.done = l + 1] ELSE NoWrite
  BY DEF PutLink, BottomUp, NextOfNew, NextAfter, LevelsReplaced, LevelDone, IInv, ListInv,
     WriterInv, Linking
<1>1. Surroundings(l, k, P, O, N, B)
  BY <1>0, Around DEF IInv
<1>2. /\ l \in Level /\ k \in Key /\ P \in Node /\ P # N /\ N \in Entry /\ N = Len(node)
      /\ node[N].key = k /\ N # O
      /\ B # Null => B \in Entry
      /\ O # Null => O \in Entry /\ node[O].key = k
  BY <1>0, <1>1 DEF Surroundings
<1>3. /\ Node = Entry \cup {Head0} /\ Head0 \notin Entry /\ Null \notin Node
      /\ \A n \in Entry : n \in Int /\ node[n].key \in Key /\ node[n].value \in Value
                         /\ node[n].value # Absent
      /\ l \in Int /\ l >= 0 /\ 0 \in Level /\ height \in 1..MaxHeight
  BY <1>2, Ground, SkipListAssumption DEF IInv, ListInv, Level
<1>4. next \in [Node -> [Level -> Links]] /\ Entry \subseteq Links /\ Null \in Links
  BY <1>3 DEF IInv, ListInv, TypeOK, Links
<1>5. /\ next' \in [Node -> [Level -> Links]]
      /\ \A n \in Node, j \in Level :
           next'[n][j] = IF n = N /\ j = l THEN B
                         ELSE IF n = P /\ j = l THEN N ELSE next[n][j]
  <2>1. N \in Node /\ P \in Node /\ P # N /\ B \in Links /\ N \in Links /\ l \in Level
    BY <1>2, <1>3, <1>4
  <2>2. next' = [next EXCEPT ![N] = [next[N] EXCEPT ![l] = B],
                             ![P] = [next[P] EXCEPT ![l] = N]]
    BY <1>0, <1>4, <2>1
  <2> QED BY <1>4, <2>1, <2>2
<1>6. /\ map' \in [Key -> Value \cup {Absent}]
      /\ map'[k] = node[N].value /\ \A j \in Key : j # k => map'[j] = map[j]
  <2>0. map \in [Key -> Value \cup {Absent}]
    BY DEF IInv, ListInv, TypeOK
  <2>1. CASE l = 0
    BY <1>0, <1>2, <1>3, <2>0, <2>1 DEF Becomes
  <2>2. CASE l # 0
    <3>1. On(N, 0)
      BY <1>0, <1>2, <1>3, <2>2 DEF On
    <3> QED BY <1>0, <1>2, <2>0, <2>2, <3>1 DEF IInv, ListInv, MapIsHeld
  <2> QED BY <2>1, <2>2
<1>7. ASSUME NEW n \in Node, NEW j \in Level
      PROVE  On(n, j)' <=> (On(n, j) /\ ~(n = O /\ j = l)) \/ (n = N /\ j = l)
  <2>0. /\ Height(n)' = Height(n) /\ Latest(n)' = Latest(n) /\ j \in Int /\ j >= 0
        /\ l < height
    BY <1>0 DEF Height, Latest, Entry, Level, Linking
  <2>1. CASE n = Head0
    BY <1>2, <1>3, <2>0, <2>1 DEF On
  <2>2. CASE n = N
    <3>1. On(n, j) <=> j < Height(n) /\ j < l
      BY <1>2, <1>3, <2>2 DEF On
    <3>2. CASE l + 1 < height
      <4>1. writer'.new = N /\ writer'.done = l + 1
        BY <1>0, <1>2, <3>2, WriterTypes DEF WriterType, IInv, ListInv
      <4>2. On(n, j)' <=> j < Height(n) /\ j < l + 1
        BY <1>2, <1>3, <2>0, <2>2, <4>1 DEF On
      <4> QED BY <1>2, <1>3, <2>0, <2>2, <3>1, <4>2
    <3>3. CASE ~(l + 1 < height)
      <4>1. writer'.new = Null /\ writer'.old = Null
        BY <1>0, <3>3 DEF NoWrite
      <4>2. Latest(N) /\ map'[node'[N].key] # Absent
        BY <1>0, <1>2, <1>3, <1>6 DEF Latest, Entry
      <4>3. On(n, j)' <=> j < Height(n)
        BY <1>2, <1>3, <2>0, <2>2, <4>1, <4>2 DEF On
      <4> QED BY <1>2, <1>3, <2>0, <2>2, <3>1, <3>3, <4>3
    <3> QED BY <3>2, <3>3
  <2>3. CASE n # Head0 /\ n # N
    <3>0. n \in Entry /\ n # Null
      BY <1>3, <2>3
    <3>1. node[n].key = k => ~Latest(n)
      <4> SUFFICES ASSUME node[n].key = k, Latest(n) PROVE FALSE
        OBVIOUS
      <4>1. N <= n /\ n <= Len(node)
        BY <1>2, <3>0 DEF Latest, Entry
      <4> QED BY <1>2, <1>3, <2>3, <3>0, <4>1
    <3>2. node[n].key # k => map'[node[n].key] = map[node[n].key]
      BY <1>3, <1>6, <3>0
    <3>3. CASE l + 1 < height
      <4>1. writer'.new = N /\ writer'.old = O /\ writer'.done = l + 1
        BY <1>0, <1>2, <3>3, WriterTypes DEF WriterType, IInv, ListInv
      <4>2. CASE n = O
        BY <1>0, <1>2, <1>3, <2>0, <2>3, <4>1, <4>2 DEF On
      <4>3. CASE n # O
        BY <1>0, <2>0, <2>3, <3>1, <3>2, <4>1, <4>3 DEF On
      <4> QED BY <4>2, <4>3
    <3>4. CASE ~(l + 1 < height)
      <4>1. writer'.new = Null /\ writer'.old = Null
        BY <1>0, <3>4 DEF NoWrite
      <4>2. On(n, j)' <=> j < Height(n) /\ Latest(n) /\ map[node[n].key] # Absent
        BY <1>0, <2>0, <2>3, <3>0, <3>1, <3>2, <4>1 DEF On
      <4>3. CASE n = O
        <5>1. Height(n) = height
          BY <1>0, <3>0, <4>3 DEF Replacing
        <5>2. On(n, j) => j = l
          BY <1>2, <1>3, <2>0, <2>3, <3>4, <4>3, <5>1 DEF On
        <5> QED BY <1>2, <2>3, <3>0, <3>1, <4>2, <4>3, <5>2
      <4>4. CASE n # O
        BY <2>3, <4>2, <4>4 DEF On
      <4> QED BY <4>3, <4>4
    <3> QED BY <3>3, <3>4
  <2> QED BY <2>1, <2>2, <2>3
<1> QED BY <1>0, <1>1, <1>5, <1>6, <1>7 DEF LinkStored

LEMMA StoreGround ==
  ASSUME ListInv
  PROVE  /\ Node = Entry \cup {Head0} /\ Head0 \notin Entry /\ Null \notin Node
         /\ Garbage \notin Node /\ Null # Garbage /\ 0 \in Level
         /\ \A n \in Entry : /\ n \in Int /\ n # Null /\ n # Garbage /\ n # Head0
                            /\ node[n].key \in Int /\ node[n].key \in Key
         /\ \A k \in Key : k \in Int
         /\ \A j \in Level : j \in Int /\ j >= 0 /\ 0..j \subseteq Level
<1>1. /\ Null # Garbage /\ 0 \in Level /\ \A k \in Key : k \in Int
      /\ \A j \in Level : j \in Int /\ j >= 0 /\ 0..j \subseteq Level
  BY SkipListAssumption DEF Level
<1> QED BY <1>1, Ground DEF ListInv

LEMMA PutLinkLevels ==
  ASSUME ListInv, writer.pc = "link", NEW l, NEW k, NEW P, NEW O, NEW N, NEW B,
         Surroundings(l, k, P, O, N, B), LinkStored(l, k, P, O, N, B)
  PROVE  LevelsLinked'
<1> SUFFICES ASSUME NEW j \in Level, NEW n \in Node', On(n, j)'
             PROVE  /\ next'[n][j] # Garbage
                    /\ next'[n][j] # Null => next'[n][j] \in Entry' /\ On(next[n][j], j)'
                    /\ \A m \in Entry' : On(m, j)' /\ Before(n, node[m].key)' =>
                         next'[n][j] \in Entry' /\ node'[next'[n][j]].key <= node'[m].key
  BY DEF LevelsLinked
<1>0. /\ Entry' = Entry /\ Node' = Node /\ node' = node /\ n \in Node
      /\ \A x, a : Before(x, a)' <=> Before(x, a)
  BY DEF LinkStored, Entry, Node, Before
<1>1. /\ \A x \in Node, i \in Level :
           next'[x][i] = IF x = N /\ i = l THEN B
                         ELSE IF x = P /\ i = l THEN N ELSE next[x][i]
      /\ \A x \in Node, i \in Level :
           On(x, i)' <=> (On(x, i) /\ ~(x = O /\ i = l)) \/ (x = N /\ i = l)
  BY DEF LinkStored
<1>2. /\ N \in Entry /\ node[N].key = k /\ k \in Int /\ l \in Level /\ N # O /\ N \in Node
      /\ P \in Node /\ P # N /\ Before(P, k) /\ On(P, l)
  BY StoreGround DEF Surroundings
<1>3. CASE j # l
  <2>1. On(n, j) /\ next'[n][j] = next[n][j]
    BY <1>0, <1>1, <1>3
  <2>2. /\ next[n][j] # Garbage
        /\ next[n][j] # Null => next[n][j] \in Entry /\ On(next[n][j], j)
        /\ \A m \in Entry : On(m, j) /\ Before(n, node[m].key) =>
             next[n][j] \in Entry /\ node[next[n][j]].key <= node[m].key
    BY <1>0, <2>1 DEF ListInv, LevelsLinked
  <2>3. \A m \in Entry : On(m, j)' <=> On(m, j)
    BY <1>1, <1>3, StoreGround
  <2>4. \A x : x \in Entry /\ x = next'[n][j] /\ On(x, j)' => On(next[n][j], j)'
    OBVIOUS
  <2> QED BY <1>0, <2>1, <2>2, <2>3, <2>4
<1>4. CASE j = l
  <2>0. \A x : x \in Entry /\ x = next'[n][j] /\ On(x, j)' => On(next[n][j], j)'
    OBVIOUS
  <2>1. ASSUME NEW m \in Entry, On(m, j)' PROVE m = N \/ (On(m, l) /\ m # O /\ node[m].key # k)
    BY <1>1, <1>4, <2>1, StoreGround DEF Surroundings
  <2>2. CASE n = N
    <3>1. next'[n][j] = B
      BY <1>0, <1>1, <1>4, <2>2
    <3>2. B # Null => B \in Entry /\ On(B, l) /\ node[B].key > k
      BY DEF Surroundings
    <3>3. B # Null => B # O /\ On(B, l)'
      BY <1>0, <1>1, <1>2, <3>2, StoreGround DEF Surroundings
    <3>4. ASSUME NEW m \in Entry, On(m, j)', Before(n, node[m].key)
          PROVE  B \in Entry /\ node[B].key <= node[m].key
      <4>1. node[m].key > k /\ On(m, l)
        BY <1>2, <2>1, <2>2, <3>4, StoreGround DEF Before
      <4> QED BY <4>1 DEF Surroundings
    <3> QED BY <1>0, <1>4, <2>0, <3>1, <3>2, <3>3, <3>4, StoreGround
  <2>3. CASE n = P
    <3>1. next'[n][j] = N /\ On(N, l)'
      BY <1>0, <1>1, <1>2, <1>4, <2>3
    <3>2. ASSUME NEW m \in Entry, On(m, j)', Before(n, node[m].key)
          PROVE  node[N].key <= node[m].key
      <4>1. CASE m = N
        BY <1>2, <4>1
      <4>2. CASE m # N
        <5>1. On(m, l) /\ Before(P, node[m].key)
          BY <2>1, <2>3, <3>2, <4>2
        <5>2. next[P][l] \in Entry /\ node[next[P][l]].key <= node[m].key
          BY <1>2, <5>1 DEF ListInv, LevelsLinked
        <5>3. ~(node[next[P][l]].key < k)
          BY <5>2, StoreGround DEF Surroundings
        <5> QED BY <1>2, <5>2, <5>3, StoreGround
      <4> QED BY <4>1, <4>2
    <3> QED BY <1>0, <1>2, <1>4, <2>0, <3>1, <3>2, StoreGround
  <2>4. CASE n # N /\ n # P
    <3>1. On(n, l) /\ n # O /\ next'[n][j] = next[n][l]
      BY <1>0, <1>1, <1>4, <2>4
    <3>2. /\ next[n][l] # Garbage
          /\ next[n][l] # Null => next[n][l] \in Entry /\ On(next[n][l], l)
          /\ \A m \in Entry : On(m, l) /\ Before(n, node[m].key) =>
               next[n][l] \in Entry /\ node[next[n][l]].key <= node[m].key
      BY <1>0, <1>2, <3>1 DEF ListInv, LevelsLinked
    <3>3. next[n][l] # Null => next[n][l] # O
      <4> SUFFICES ASSUME next[n][l] # Null, next[n][l] = O PROVE FALSE
        OBVIOUS
      <4>1. O \in Entry /\ node[O].key = k
        BY DEF Surroundings
      <4>2. CASE Before(n, k)
        BY <1>0, <1>2, <2>4, <3>1, <4>1, <4>2 DEF Surroundings
      <4>3. CASE ~Before(n, k)
        <5>1. next[n][l] \notin {Null, Garbage} /\ Before(n, node[next[n][l]].key)
          BY <1>0, <1>2, <4>1, StoreGround DEF ListInv, LinksLeadForward
        <5> QED BY <4>1, <4>3, <5>1
      <4> QED BY <4>2, <4>3
    <3>4. ASSUME NEW m \in Entry, On(m, j)', Before(n, node[m].key)
          PROVE  next[n][l] \in Entry /\ node[next[n][l]].key <= node[m].key
      <4>1. CASE m = N
        <5>1. next[n][l] \in Entry /\ node[next[n][l]].key < k
          BY <1>0, <1>2, <2>4, <3>1, <3>4, <4>1 DEF Surroundings
        <5> QED BY <1>2, <4>1, <5>1, StoreGround
      <4>2. CASE m # N
        BY <2>1, <3>2, <3>4, <4>2
      <4> QED BY <4>1, <4>2
    <3>5. next[n][l] # Null => On(next[n][l], l) /\ next[n][l] \in Node
      BY <1>0, <3>2, StoreGround
    <3>6. \A x : x \in Node /\ x # O /\ On(x, l) => On(x, l)'
      BY <1>1, <1>2
    <3> QED BY <1>0, <1>4, <2>0, <3>1, <3>2, <3>3, <3>4, <3>5, <3>6
  <2> QED BY <2>2, <2>3, <2>4
<1> QED BY <1>3, <1>4

LEMMA PutLinkHolds ==
  ASSUME ListInv, writer.pc = "link", NEW l, NEW k, NEW P, NEW O, NEW N, NEW B, l = writer.done,
         Surroundings(l, k, P, O, N, B), LinkStored(l, k, P, O, N, B), l < Height(N),
         \A j \in 0..(l - 1) : next[N][j] # Garbage
  PROVE  MapIsHeld' /\ HeightsBelowMax' /\ LinksLeadForward'
<1>0. /\ Entry' = Entry /\ Node' = Node /\ node' = node /\ maxHeight' = maxHeight
      /\ \A x : Height(x)' = Height(x)
      /\ \A x, a : Before(x, a)' <=> Before(x, a)
  BY DEF LinkStored, Entry, Node, Before, Height
<1>1. /\ \A x \in Node, i \in Level :
           next'[x][i] = IF x = N /\ i = l THEN B
                         ELSE IF x = P /\ i = l THEN N ELSE next[x][i]
      /\ \A x \in Node, i \in Level :
           On(x, i)' <=> (On(x, i) /\ ~(x = O /\ i = l)) \/ (x = N /\ i = l)
      /\ map'[k] = node[N].value /\ \A j \in Key : j # k => map'[j] = map[j]
      /\ l # 0 => map' = map
  BY DEF LinkStored
<1>2. /\ N \in Entry /\ node[N].key = k /\ k \in Int /\ l \in Level /\ N # O /\ N \in Node
      /\ P \in Node /\ P # N /\ Before(P, k) /\ On(P, l) /\ k \in Key
      /\ l < Height(P)
  BY StoreGround DEF Surroundings, On
<1>3. MapIsHeld'
  <2>1. ASSUME NEW n \in Entry, On(n, 0)' PROVE map'[node[n].key] = node[n].value
    <3>1. CASE n = N
      BY <1>1, <1>2, <3>1
    <3>2. CASE n # N
      <4>1. On(n, 0) /\ ~(n = O /\ l = 0)
        BY <1>1, <2>1, <3>2, StoreGround
      <4>2. l = 0 => node[n].key # k
        BY <4>1 DEF Surroundings
      <4>3. map[node[n].key] = node[n].value
        BY <4>1 DEF ListInv, MapIsHeld
      <4> QED BY <1>1, <4>2, <4>3, StoreGround
    <3> QED BY <3>1, <3>2
  <2>2. ASSUME NEW j \in Key, map'[j] # Absent
        PROVE  \E n \in Entry : On(n, 0)' /\ node[n].key = j
    <3>1. CASE j = k /\ l = 0
      <4>1. On(N, 0)'
        BY <1>1, <1>2, <3>1
      <4> QED BY <1>2, <3>1, <4>1
    <3>2. CASE j # k \/ l # 0
      <4>1. PICK n \in Entry : On(n, 0) /\ node[n].key = j
        BY <1>1, <2>2, <3>2 DEF ListInv, MapIsHeld
      <4>2. ~(n = O /\ 0 = l)
        BY <3>2, <4>1, StoreGround DEF Surroundings
      <4>3. On(n, 0)'
        BY <1>1, <4>1, <4>2, StoreGround
      <4> QED BY <4>1, <4>3
    <3> QED BY <3>1, <3>2
  <2> QED BY <1>0, <2>1, <2>2 DEF MapIsHeld
<1>4. HeightsBelowMax'
  BY <1>0 DEF ListInv, HeightsBelowMax
<1>5. LinksLeadForward'
  <2>0. B # Null => /\ B \in Entry /\ node[B].key > k /\ l < Height(B) /\ B # Garbage
                    /\ \A j \in 0..l : next[B][j] # Garbage
    BY StoreGround DEF Surroundings
  <2>1. ASSUME NEW n \in Node, NEW j \in Level, next[n][j] # Garbage
        PROVE  next'[n][j] # Garbage
    BY <1>1, <1>2, <2>0, <2>1, StoreGround
  <2>2. B # Garbage
    BY <2>0, StoreGround
  <2>3. \A j \in Level : next'[Head0][j] # Garbage
    BY <2>1, StoreGround DEF ListInv, LinksLeadForward
  <2>4. ASSUME NEW n \in Node, NEW j \in Level, next'[n][j] \notin {Null, Garbage}
        PROVE  /\ next'[n][j] \in Entry /\ Before(n, node[next'[n][j]].key)
               /\ j < Height(n) /\ j < Height(next'[n][j])
               /\ \A i \in 0..j : next'[next'[n][j]][i] # Garbage
    <3>1. CASE n = N /\ j = l
      <4>1. next'[n][j] = B /\ B # Null
        BY <1>1, <1>2, <2>4, <3>1
      <4>2. B \in Node /\ Before(N, node[B].key)
        BY <1>2, <2>0, <4>1, StoreGround DEF Before
      <4> QED BY <1>2, <2>0, <2>1, <3>1, <4>1, <4>2, StoreGround
    <3>2. CASE n = P /\ j = l
      <4>1. next'[n][j] = N
        BY <1>1, <1>2, <3>2
      <4>2. ASSUME NEW i \in 0..l PROVE next'[N][i] # Garbage
        <5>1. CASE i = l
          BY <1>1, <1>2, <2>2, <5>1
        <5>2. CASE i # l
          <6>1. i \in 0..(l - 1) /\ i \in Level
            BY <1>2, <5>2, StoreGround
          <6> QED BY <1>2, <2>1, <6>1
        <5> QED BY <5>1, <5>2
      <4> QED BY <1>2, <3>2, <4>1, <4>2
    <3>3. CASE ~(n = N /\ j = l) /\ ~(n = P /\ j = l)
      <4>1. next'[n][j] = next[n][j]
        BY <1>1, <3>3
      <4>2. /\ next[n][j] \in Entry /\ Before(n, node[next[n][j]].key)
            /\ j < Height(n) /\ j < Height(next[n][j])
            /\ \A i \in 0..j : next[next[n][j]][i] # Garbage
        BY <2>4, <4>1 DEF ListInv, LinksLeadForward
      <4>3. next[n][j] \in Node /\ 0..j \subseteq Level
        BY <4>2, StoreGround
      <4> QED BY <2>1, <4>1, <4>2, <4>3
    <3> QED BY <3>1, <3>2, <3>3
  <2> QED BY <1>0, <2>3, <2>4 DEF LinksLeadForward, Height, LinkStored, Before
<1> QED BY <1>3, <1>4, <1>5

LEMMA PutLinkGoesOn ==
  ASSUME ListInv, writer.pc = "link", NEW l, l = writer.done, NEW k, k = writer.key,
         NEW P, P = writer.prev[l], NEW O, O = writer.old, NEW N, N = writer.new,
         NEW B, B = NextAfter(l),
         Surroundings(l, k, P, O, N, B), LinkStored(l, k, P, O, N, B)
  PROVE  writer' \in WriterType /\ WriterInv'
<1>0. /\ Entry' = Entry /\ Node' = Node /\ node' = node
      /\ \A x : Height(x)' = Height(x)
  BY DEF LinkStored, Entry, Node, Height
<1>1. /\ \A x \in Node, i \in Level :
           next'[x][i] = IF x = N /\ i = l THEN B
                         ELSE IF x = P /\ i = l THEN N ELSE next[x][i]
      /\ \A x \in Node, i \in Level :
           On(x, i)' <=> (On(x, i) /\ ~(x = O /\ i = l)) \/ (x = N /\ i = l)
      /\ map'[k] = node[N].value
  BY DEF LinkStored
<1>2. /\ N \in Entry /\ node[N].key = k /\ k \in Int /\ l \in Level /\ N # O /\ N \in Node
      /\ P \in Node /\ P # N /\ P # O /\ Before(P, k) /\ k \in Key
      /\ node[N].value # Absent
      /\ l \in Int /\ l >= 0
  BY StoreGround, Ground DEF Surroundings, ListInv
<1>3. CASE writer' = NoWrite
  <2>1. writer' \in WriterType
    BY <1>3, SkipListAssumption DEF NoWrite, WriterType, Level
  <2> QED BY <1>3, <2>1 DEF WriterInv, NoWrite
<1>4. CASE writer' = [writer EXCEPT !.done = l + 1] /\ l + 1 < Height(N)
  <2>1. l + 1 \in Level
    BY <1>2, <1>4, Ground DEF ListInv, Level
  <2>2. /\ writer' \in WriterType
        /\ writer'.pc = "link" /\ writer'.key = k /\ writer'.new = N /\ writer'.old = O
        /\ writer'.value = writer.value /\ writer'.done = l + 1 /\ writer'.prev = writer.prev
    BY <1>4, <2>1, WriterTypes DEF WriterType, ListInv
  <2>3. Linking /\ Inserting /\ Replacing
    BY DEF ListInv, WriterInv
  <2>4. ASSUME NEW i \in Level, l + 1 <= i, i < Height(N)
        PROVE  /\ LastBefore(writer.prev[i], i, k)
               /\ LastBefore(writer.prev[i], i, writer.key)'
               /\ next'[writer.prev[i]][i] = next[writer.prev[i]][i]
    <3>1. l <= i /\ i # l
      BY <1>2, <2>4, StoreGround
    <3>2. LastBefore(writer.prev[i], i, k)
      BY <2>3, <2>4, <3>1 DEF Linking
    <3>3. next'[writer.prev[i]][i] = next[writer.prev[i]][i] /\ On(writer.prev[i], i)'
      <4>1. /\ writer'.prev[i] = writer.prev[i] /\ writer.prev[i] \in Node
            /\ On(writer.prev[i], i)
        BY <2>2, <3>2 DEF LastBefore
      <4>2. \A x : x \in Node /\ On(x, i) => On(x, i)'
        BY <1>1, <3>1
      <4> QED BY <1>1, <2>2, <3>1, <4>1, <4>2
    <3>4. LastBefore(writer.prev[i], i, writer.key)'
      BY <1>0, <2>2, <3>2, <3>3 DEF LastBefore, Before, KeyIsAfterNode
    <3> QED BY <3>2, <3>3, <3>4
  <2>5. Linking'
    <3>1. \A i \in Level : i >= writer'.done => next'[N][i] \in {Null, Garbage}
      <4> SUFFICES ASSUME NEW i \in Level, i >= l + 1 PROVE next'[N][i] \in {Null, Garbage}
        BY <2>2
      <4>1. i >= l /\ i # l
        BY <1>2, StoreGround
      <4> QED BY <1>1, <1>2, <2>3, <4>1 DEF Linking
    <3>2. \A i \in Level : writer'.done <= i /\ i < Height(writer.new)' =>
            LastBefore(writer.prev[i], i, writer.key)'
      BY <1>0, <2>2, <2>4
    <3>3. writer'.done < Height(writer.new)'
      BY <1>0, <1>4, <2>2
    <3> QED BY <1>0, <1>2, <2>2, <2>3, <3>1, <3>2, <3>3 DEF Linking
  <2>6. Inserting'
    <3>1. ASSUME O = Null, NEW i \in Level, l + 1 <= i, i < Height(N),
                 next'[writer.prev[i]][i] # Null
          PROVE  node[next'[writer.prev[i]][i]].key # k
      <4>1. l <= i
        BY <1>2, <3>1, StoreGround
      <4> QED BY <2>3, <2>4, <3>1, <4>1 DEF Inserting
    <3> QED BY <1>0, <1>2, <2>2, <3>1 DEF Inserting
  <2>7. Replacing'
    <3> SUFFICES ASSUME O # Null PROVE Replacing'
      BY <2>2 DEF Replacing
    <3>1. /\ O \in Entry /\ node[O].key = k /\ Height(O) = Height(N)
          /\ \A j \in 0..(l - 1) : next[O][j] = next[N][j]
          /\ B = next[O][l] /\ O # P /\ O \in Node
      BY <2>3, <1>2, StoreGround DEF Replacing, NextAfter
    <3>2. ASSUME NEW j \in 0..l PROVE next'[O][j] = next'[N][j]
      <4>1. j \in Level
        BY <1>2, StoreGround
      <4>2. next'[O][j] = next[O][j]
        BY <1>1, <1>2, <3>1, <4>1
      <4>3. CASE j = l
        BY <1>1, <1>2, <3>1, <4>2, <4>3
      <4>4. CASE j # l
        <5>1. j \in 0..(l - 1)
          BY <1>2, <4>4
        <5> QED BY <1>1, <1>2, <3>1, <4>1, <4>2, <4>4, <5>1
      <4> QED BY <4>3, <4>4
    <3>3. 0..(writer'.done - 1) = 0..l
      BY <1>2, <2>2
    <3>4. ASSUME NEW i \in Level, l + 1 <= i, i < Height(N)
          PROVE  next'[writer.prev[i]][i] = O
      <4>1. l <= i
        BY <1>2, <3>4, StoreGround
      <4> QED BY <2>3, <2>4, <3>4, <4>1 DEF Replacing
    <3> QED BY <1>0, <1>1, <1>2, <2>2, <3>1, <3>2, <3>3, <3>4 DEF Replacing
  <2> QED BY <2>2, <2>5, <2>6, <2>7 DEF WriterInv
<1> QED BY <1>3, <1>4 DEF LinkStored

LEMMA PutLinkRead ==
  ASSUME ListInv, writer.pc = "link", NEW l, NEW k, NEW P, NEW O, NEW N, NEW B, l = writer.done,
         N = writer.new, B = NextAfter(l), P = writer.prev[l], O = writer.old,
         Surroundings(l, k, P, O, N, B), LinkStored(l, k, P, O, N, B), l < Height(N),
         NEW r \in Reader, ReaderInv(r)
  PROVE  ReaderInv(r)'
<1>0. /\ Entry' = Entry /\ Node' = Node /\ node' = node
      /\ \A x, a : Before(x, a)' <=> Before(x, a)
      /\ UNCHANGED <<walk, reader, visited>>
  BY DEF LinkStored, Entry, Node, Before
<1>1. /\ \A x \in Node, i \in Level :
           next'[x][i] = IF x = N /\ i = l THEN B
                         ELSE IF x = P /\ i = l THEN N ELSE next[x][i]
      /\ \A x \in Node, i \in Level :
           On(x, i)' <=> (On(x, i) /\ ~(x = O /\ i = l)) \/ (x = N /\ i = l)
      /\ map'[k] = node[N].value /\ \A j \in Key : j # k => map'[j] = map[j]
  BY DEF LinkStored
<1>2. /\ N \in Entry /\ node[N].key = k /\ k \in Int /\ l \in Level /\ N # O /\ N \in Node
      /\ P \in Node /\ P # N /\ P # O /\ Before(P, k) /\ On(P, l) /\ k \in Key
      /\ node[N].value # Absent
      /\ l \in Int /\ l >= 0
  BY StoreGround, Ground DEF Surroundings, ListInv
<1>3. /\ steady'[r] = steady[r]
      /\ seen'[r] = IF l = 0 /\ reader[r].pc = "get" /\ reader[r].key = k
                    THEN seen[r] \cup {node[N].value} ELSE seen[r]
  <2>1. CASE l = 0
    BY <1>2, <2>1 DEF LinkStored, Becomes
  <2>2. CASE l # 0
    BY <2>2 DEF LinkStored
  <2> QED BY <2>1, <2>2
<1>4. Underway(r)'
  <2>1. Present(map) \subseteq Present(map')
    BY <1>1, <1>2 DEF Present
  <2>2. reader[r].pc = "get" => map'[reader[r].key] \in seen'[r]
    <3> SUFFICES ASSUME reader[r].pc = "get" PROVE map'[reader[r].key] \in seen'[r]
      OBVIOUS
    <3>1. reader[r].key \in Key /\ map[reader[r].key] \in seen[r]
      BY DEF ReaderInv, Underway
    <3>2. CASE l = 0
      BY <1>1, <1>3, <3>1, <3>2
    <3>3. CASE l # 0
      BY <1>3, <3>1, <3>3 DEF LinkStored
    <3> QED BY <3>2, <3>3
  <2>3. reader[r].pc # "get" => seen'[r] = seen[r]
    BY <1>3
  <2> QED BY <1>0, <1>3, <2>1, <2>2, <2>3 DEF ReaderInv, Underway, Present
<1>5. Answered(r)'
  BY <1>0, <1>3 DEF ReaderInv, Answered
<1>6. OnPath(r)'
  <2> SUFFICES ASSUME NEW q \in Sought(r) PROVE \E S \in SUBSET Node : Path(r, q, S)'
    BY <1>0, <1>3 DEF OnPath, Sought
  <2>1. PICK S \in SUBSET Node : Path(r, q, S)
    BY DEF ReaderInv, OnPath
  <2>2. q \in Key /\ q \in Int
    BY StoreGround DEF Sought, ReaderInv, Underway, Present
  <2> DEFINE T == IF k < q THEN S \cup {N} ELSE S
  <2>3. T \in SUBSET Node
    BY <1>2
  <2>4. ASSUME NEW n \in Node, NEW j \in Level, On(n, j)', Before(n, q)
        PROVE  n \in T
    <3>1. CASE On(n, j)
      BY <2>1, <2>4, <3>1 DEF Path
    <3>2. CASE n = N
      BY <1>2, <2>2, <2>4, <3>2, StoreGround DEF Before
    <3> QED BY <1>1, <2>4, <3>1, <3>2
  <2>5. ASSUME NEW n \in T
        PROVE  /\ n \in Node /\ Before(n, q)
               /\ n # N => n \in S
    BY <1>2, <2>1 DEF Path, Before
  <2>6. ASSUME l # 0, k < q PROVE N \in S
    <3>1. On(N, 0) /\ 0 \in Level
      BY <1>2, <2>6, StoreGround, Ground DEF On, ListInv
    <3> QED BY <1>2, <2>1, <2>6, <3>1 DEF Path, Before
  <2>7. ASSUME NEW n \in T, NEW j \in Level, next'[n][j] \in Entry, Before(next'[n][j], q)
        PROVE  next'[n][j] \in T
    <3>1. CASE n = N /\ j = l
      <4>1. next'[n][j] = B /\ B \in Node /\ On(B, l)
        BY <1>1, <1>2, <2>7, <3>1, StoreGround DEF Surroundings
      <4> QED BY <2>1, <2>7, <3>1, <4>1 DEF Path
    <3>2. CASE n = P /\ j = l
      <4>1. next'[n][j] = N
        BY <1>1, <1>2, <3>2
      <4> QED BY <1>2, <2>2, <2>7, <4>1, StoreGround DEF Before
    <3>3. CASE ~(n = N /\ j = l) /\ ~(n = P /\ j = l)
      <4>1. next'[n][j] = next[n][j] /\ n \in Node
        BY <1>1, <2>5, <3>3
      <4>2. n \in S
        <5>1. CASE n # N
          BY <2>5, <5>1
        <5>2. CASE n = N
          <6>1. j # l /\ next[N][j] \in Entry
            BY <2>7, <3>3, <4>1, <5>2
          <6>2. ~(j >= l)
            BY <6>1, StoreGround DEF ListInv, WriterInv, Linking
          <6>3. l # 0
            BY <1>2, <6>2, StoreGround
          <6>4. k < q
            BY <1>2, <2>5, <5>2, StoreGround DEF Before
          <6> QED BY <2>6, <5>2, <6>3, <6>4
        <5> QED BY <5>1, <5>2
      <4> QED BY <2>1, <2>7, <4>1, <4>2 DEF Path
    <3> QED BY <3>1, <3>2, <3>3
  <2>8. ASSUME NEW n \in T
        PROVE  /\ \/ Absent \in seen'[r]
                  \/ next'[n][0] \in Entry /\ node[next'[n][0]].key <= q
               /\ reader[r].pc = "get" =>
                    (next'[n][0] \in Entry /\ node[next'[n][0]].key = q
                       => node[next'[n][0]].value \in seen'[r])
    <3>1. \A x \in S : /\ \/ Absent \in seen[r]
                          \/ next[x][0] \in Entry /\ node[next[x][0]].key <= q
                       /\ reader[r].pc = "get" =>
                           (next[x][0] \in Entry /\ node[next[x][0]].key = q
                              => node[next[x][0]].value \in seen[r])
      BY <2>1 DEF Path
    <3>2. seen[r] \subseteq seen'[r]
      BY <1>3
    <3>3. CASE l # 0
      <4>1. n \in S
        BY <2>6, <3>3
      <4>2. next'[n][0] = next[n][0]
        BY <1>1, <2>5, <3>3, StoreGround
      <4> QED BY <3>1, <3>2, <4>1, <4>2
    <3>4. CASE l = 0
      <4>1. CASE n = N
        <5>0. k < q
          BY <1>2, <2>5, <4>1, StoreGround DEF Before
        <5>1. PICK C \in S : next[C][0] = B
          <6>1. P \in S
            <7>1. Before(P, q)
              BY <1>2, <2>2, <5>0, StoreGround DEF Before
            <7> QED BY <1>2, <2>1, <7>1 DEF Path
          <6>2. O # Null => O \in S
            <7>1. O # Null => O \in Node /\ On(O, l) /\ Before(O, q)
              BY <5>0, StoreGround DEF Surroundings, Before
            <7> QED BY <1>2, <2>1, <7>1 DEF Path
          <6> QED BY <3>4, <6>1, <6>2 DEF NextAfter
        <5>2. next'[n][0] = B
          BY <1>1, <1>2, <3>4, <4>1
        <5> QED BY <3>1, <3>2, <5>1, <5>2
      <4>2. CASE n = P
        <5>1. next'[n][0] = N /\ n \in S
          BY <1>1, <1>2, <2>5, <3>4, <4>2
        <5>2. Absent \in seen[r] \/ k <= q
          <6> SUFFICES ASSUME Absent \notin seen[r], ~(k <= q) PROVE FALSE
            OBVIOUS
          <6>1. next[P][0] \in Entry /\ node[next[P][0]].key <= q
            BY <3>1, <4>2, <5>1
          <6>2. ~(node[next[P][0]].key < k)
            BY <3>4, <6>1, StoreGround DEF Surroundings
          <6> QED BY <1>2, <2>2, <6>1, <6>2, StoreGround
        <5>3. reader[r].pc = "get" /\ k = q => node[N].value \in seen'[r]
          BY <1>3, <3>4 DEF Sought
        <5> QED BY <1>2, <3>2, <5>1, <5>2, <5>3
      <4>3. CASE n # N /\ n # P
        <5>1. next'[n][0] = next[n][0] /\ n \in S
          BY <1>1, <2>5, <4>3, StoreGround
        <5> QED BY <3>1, <3>2, <5>1
      <4> QED BY <4>1, <4>2, <4>3
    <3> QED BY <3>3, <3>4
  <2>9. walk'[r].x \in T
    BY <1>0, <2>1 DEF Path
  <2> HIDE DEF T
  <2>10. Path(r, q, T)'
    BY <1>0, <2>4, <2>5, <2>7, <2>8, <2>9 DEF Path
  <2> QED BY <2>3, <2>10
<1> QED BY <1>4, <1>5, <1>6 DEF ReaderInv

\* The rest of what a store has to keep, of put as of remove.
LEMMA StoreKeepsTypes ==
  ASSUME IInv, UNCHANGED <<node, maxHeight, walk, reader, visited>>,
         next' \in [Node -> [Level -> Links]], map' \in [Key -> Value \cup {Absent}],
         writer' \in WriterType,
         NEW k \in Key, NEW v \in Value \cup {Absent},
         Becomes(k, v) \/ UNCHANGED <<seen, steady>>,
         \A n \in Node, j \in Level : next[n][j] # Garbage => next'[n][j] # Garbage
  PROVE  TypeOK' /\ \A a \in Reader \cup {Writer} : LinksSet(a)'
<1>0. Node' = Node /\ Links' = Links /\ \A x : Height(x)' = Height(x)
  BY DEF Node, Links, Height
<1>1. /\ seen' \in [Reader -> SUBSET (Value \cup {Absent})]
      /\ steady' \in [Reader -> SUBSET Key]
  <2>0. /\ seen \in [Reader -> SUBSET (Value \cup {Absent})]
        /\ steady \in [Reader -> SUBSET Key]
    BY DEF IInv, ListInv, TypeOK
  <2>1. CASE Becomes(k, v)
    BY <2>0, <2>1 DEF Becomes
  <2>2. CASE UNCHANGED <<seen, steady>>
    BY <2>0, <2>2
  <2> QED BY <2>1, <2>2
<1>2. TypeOK'
  BY <1>0, <1>1 DEF IInv, ListInv, TypeOK, WriterType
<1>3. ASSUME NEW a \in Reader \cup {Writer} PROVE LinksSet(a)'
  <2>1. walk[a].x \in Node /\ 0..walk[a].level \subseteq Level
    BY Loads, StoreGround DEF IInv
  <2> QED BY <1>0, <2>1 DEF IInv, LinksSet
<1> QED BY <1>2, <1>3

LEMMA StepPutLink ==
  ASSUME IInv, PutLink
  PROVE  IInv'
<1>1. PICK l, k, P, O, N, B :
        /\ l = writer.done /\ k = writer.key /\ P = writer.prev[l]
        /\ O = writer.old /\ N = writer.new /\ B = NextAfter(l)
  OBVIOUS
<1>2. Surroundings(l, k, P, O, N, B) /\ LinkStored(l, k, P, O, N, B)
  BY <1>1, PutLinkStores
<1>3. ListInv /\ writer.pc = "link" /\ Linking /\ k \in Key /\ node[N].value \in Value
  BY <1>1, <1>2, Ground DEF PutLink, IInv, ListInv, WriterInv, Surroundings
<1>4. l < Height(N) /\ l \in Level /\ l \in Int /\ N \in Entry /\ N \in Node
  BY <1>1, <1>2, <1>3, StoreGround DEF Linking, Surroundings
<1>5. \A j \in 0..(l - 1) : next[N][j] # Garbage
  <2> TAKE j \in 0..(l - 1)
  <2>1. j \in Level /\ j < l
    BY <1>4, StoreGround, <1>3
  <2>2. On(N, j)
    <3>1. j < Height(N)
      BY <1>3, <1>4, <2>1, Ground DEF ListInv, Level
    <3> QED BY <1>1, <1>3, <1>4, <2>1, <3>1, StoreGround DEF On
  <2> QED BY <1>3, <1>4, <2>1, <2>2 DEF ListInv, LevelsLinked
<1>6. writer' \in WriterType /\ WriterInv'
  BY <1>1, <1>2, <1>3, PutLinkGoesOn
<1>7. TypeOK' /\ \A a \in Reader \cup {Writer} : LinksSet(a)'
  <2>1. \A n \in Node, j \in Level : next[n][j] # Garbage => next'[n][j] # Garbage
    <3>1. N # Garbage /\ B # Garbage
      BY <1>2, <1>3, <1>4, StoreGround DEF Surroundings
    <3> QED BY <1>2, <3>1 DEF LinkStored
  <2>2. Becomes(k, node[N].value) \/ UNCHANGED <<seen, steady>>
    BY <1>2 DEF LinkStored
  <2> QED BY <1>2, <1>3, <1>6, <2>1, <2>2, StoreKeepsTypes DEF LinkStored
<1>8. LevelsLinked' /\ MapIsHeld' /\ HeightsBelowMax' /\ LinksLeadForward'
  BY <1>1, <1>2, <1>3, <1>4, <1>5, PutLinkLevels, PutLinkHolds
<1>9. \A r \in Reader : ReaderInv(r)'
  BY <1>1, <1>2, <1>3, <1>4, PutLinkRead DEF IInv
<1> QED BY <1>6, <1>7, <1>8, <1>9 DEF IInv, ListInv

-----------------------------------------------------------------------------
\* What RemoveUnlink does to the links, to the map, and to what hangs on the level.
LinkTaken(l, k, P, O, B) ==
  /\ UNCHANGED <<node, maxHeight, walk, reader, visited>>
  /\ next' \in [Node -> [Level -> Links]]
  /\ \A n \in Node, j \in Level : next'[n][j] = IF n = P /\ j = l THEN B ELSE next[n][j]
  /\ map' \in [Key -> Value \cup {Absent}]
  /\ map'[k] = Absent /\ \A j \in Key : j # k => map'[j] = map[j]
  /\ l # 0 => UNCHANGED <<map, seen, steady>>
  /\ l = 0 => Becomes(k, Absent)
  /\ \A n \in Node, j \in Level : On(n, j)' <=> On(n, j) /\ ~(n = O /\ j = l)
  /\ \/ writer' = [writer EXCEPT !.done = l + 1] /\ l + 1 < Height(O)
     \/ writer' = NoWrite

LEMMA UnlinkTakes ==
  ASSUME IInv, RemoveUnlink,
         NEW l, l = writer.done, NEW k, k = writer.key, NEW P, P = writer.prev[l],
         NEW O, O = writer.old, NEW N, N = writer.new, NEW B, B = NextAfter(l)
  PROVE  Surroundings(l, k, P, O, N, B) /\ LinkTaken(l, k, P, O, B)
<1> DEFINE height == Height(O)
<1>0. /\ writer.pc = "unlink" /\ Unlinking
      /\ UNCHANGED <<node, maxHeight, walk, reader, visited>>
      /\ next' = [next EXCEPT ![P][l] = next[O][l]]
      /\ l # 0 => UNCHANGED <<map, seen, steady>>
      /\ l = 0 => Becomes(k, Absent)
      /\ writer' = IF l + 1 < height THEN [writer EXCEPT !.done = l + 1] ELSE NoWrite
  BY DEF RemoveUnlink, LevelDone, IInv, ListInv, WriterInv
<1>1. Surroundings(l, k, P, O, N, B)
  BY <1>0, Around DEF IInv
<1>2. /\ l \in Level /\ k \in Key /\ P \in Node /\ O \in Entry /\ node[O].key = k
      /\ P # O /\ N = Null /\ B = next[O][l] /\ Latest(O)
      /\ B # Null => B \in Entry
      /\ O # Null
  BY <1>0, <1>1 DEF Surroundings, NextAfter, Unlinking
<1>3. /\ Node = Entry \cup {Head0} /\ Head0 \notin Entry /\ Null \notin Node
      /\ \A n \in Entry : n \in Int /\ node[n].key \in Key
      /\ l \in Int /\ l >= 0 /\ height \in 1..MaxHeight
  BY <1>2, Ground, SkipListAssumption DEF IInv, ListInv, Level
<1>5. /\ next' \in [Node -> [Level -> Links]]
      /\ \A n \in Node, j \in Level : next'[n][j] = IF n = P /\ j = l THEN B ELSE next[n][j]
  <2>1. next \in [Node -> [Level -> Links]] /\ Entry \subseteq Links /\ Null \in Links
    BY <1>3 DEF IInv, ListInv, TypeOK, Links
  <2>2. B \in Links
    BY <1>2, <2>1
  <2> QED BY <1>0, <1>2, <2>1, <2>2
<1>6. /\ map' \in [Key -> Value \cup {Absent}]
      /\ map'[k] = Absent /\ \A j \in Key : j # k => map'[j] = map[j]
  <2>0. map \in [Key -> Value \cup {Absent}]
    BY DEF IInv, ListInv, TypeOK
  <2>1. CASE l = 0
    BY <1>0, <1>2, <2>0, <2>1 DEF Becomes
  <2>2. CASE l # 0
    BY <1>0, <1>2, <2>0, <2>2 DEF Unlinking
  <2> QED BY <2>1, <2>2
<1>7. ASSUME NEW n \in Node, NEW j \in Level
      PROVE  On(n, j)' <=> On(n, j) /\ ~(n = O /\ j = l)
  <2>0. /\ Height(n)' = Height(n) /\ Latest(n)' = Latest(n) /\ j \in Int /\ j >= 0
        /\ l < height /\ n # Null
    BY <1>0, <1>3 DEF Height, Latest, Entry, Level, Unlinking
  <2>1. /\ writer'.new = Null
        /\ l + 1 < height => writer'.old = O /\ writer'.done = l + 1
        /\ ~(l + 1 < height) => writer'.old = Null
    BY <1>0, <1>2, WriterTypes DEF WriterType, NoWrite, IInv, ListInv
  <2>2. CASE n = Head0
    BY <1>2, <1>3, <2>0, <2>2 DEF On
  <2>3. CASE n = O
    <3>1. On(n, j) <=> j < Height(n) /\ j >= l
      BY <1>2, <1>3, <2>0, <2>3 DEF On
    <3>2. CASE l + 1 < height
      BY <1>2, <1>3, <2>0, <2>1, <2>3, <3>1, <3>2 DEF On
    <3>3. CASE ~(l + 1 < height)
      <4>1. ~On(n, j)'
        BY <1>0, <1>2, <1>3, <1>6, <2>0, <2>1, <2>3, <3>3 DEF On
      <4>2. On(n, j) => j = l
        BY <1>3, <2>0, <2>3, <3>1, <3>3
      <4> QED BY <2>3, <4>1, <4>2
    <3> QED BY <3>2, <3>3
  <2>4. CASE n # Head0 /\ n # O
    <3>0. n \in Entry
      BY <1>3, <2>4
    <3>1. node[n].key = k => ~Latest(n)
      <4> SUFFICES ASSUME node[n].key = k, Latest(n) PROVE FALSE
        OBVIOUS
      <4>1. O <= n /\ n <= O
        BY <1>2, <3>0 DEF Latest
      <4> QED BY <1>2, <1>3, <2>4, <3>0, <4>1
    <3>2. node[n].key # k => map'[node[n].key] = map[node[n].key]
      BY <1>3, <1>6, <3>0
    <3>3. On(n, j) <=> j < Height(n) /\ Latest(n) /\ map[node[n].key] # Absent
      BY <1>2, <2>0, <2>4 DEF On
    <3>4. On(n, j)' <=> j < Height(n) /\ Latest(n) /\ map'[node[n].key] # Absent
      BY <1>0, <2>0, <2>1, <2>4 DEF On
    <3> QED BY <2>4, <3>1, <3>2, <3>3, <3>4
  <2> QED BY <2>2, <2>3, <2>4
<1> QED BY <1>0, <1>1, <1>5, <1>6, <1>7 DEF LinkTaken

LEMMA UnlinkLevels ==
  ASSUME ListInv, writer.pc = "unlink", NEW l, NEW k, NEW P, NEW O, NEW B,
         Surroundings(l, k, P, O, Null, B), LinkTaken(l, k, P, O, B)
  PROVE  LevelsLinked'
<1> SUFFICES ASSUME NEW j \in Level, NEW n \in Node', On(n, j)'
             PROVE  /\ next'[n][j] # Garbage
                    /\ next'[n][j] # Null => next'[n][j] \in Entry' /\ On(next[n][j], j)'
                    /\ \A m \in Entry' : On(m, j)' /\ Before(n, node[m].key)' =>
                         next'[n][j] \in Entry' /\ node'[next'[n][j]].key <= node'[m].key
  BY DEF LevelsLinked
<1>0. /\ Entry' = Entry /\ Node' = Node /\ node' = node /\ n \in Node
      /\ \A x, a : Before(x, a)' <=> Before(x, a)
      /\ \A x : x \in Entry /\ x = next'[n][j] /\ On(x, j)' => On(next[n][j], j)'
  BY DEF LinkTaken, Entry, Node, Before
<1>1. /\ \A x \in Node, i \in Level : next'[x][i] = IF x = P /\ i = l THEN B ELSE next[x][i]
      /\ \A x \in Node, i \in Level : On(x, i)' <=> On(x, i) /\ ~(x = O /\ i = l)
  BY DEF LinkTaken
<1>2. /\ k \in Int /\ l \in Level /\ O \in Entry /\ O \in Node /\ node[O].key = k
      /\ P \in Node /\ Before(P, k) /\ On(P, l) /\ next[P][l] = O /\ O # Null
  BY StoreGround DEF Surroundings
<1>3. On(n, j) /\ ~(n = O /\ j = l)
  BY <1>0, <1>1
<1>4. /\ next[n][j] # Garbage
      /\ next[n][j] # Null => next[n][j] \in Entry /\ On(next[n][j], j)
      /\ \A m \in Entry : On(m, j) /\ Before(n, node[m].key) =>
           next[n][j] \in Entry /\ node[next[n][j]].key <= node[m].key
  BY <1>0, <1>3 DEF ListInv, LevelsLinked
<1>5. \A m \in Entry : On(m, j)' => On(m, j) /\ ~(m = O /\ j = l)
  BY <1>1, StoreGround
<1>6. CASE n = P /\ j = l
  <2>1. next'[n][j] = B
    BY <1>0, <1>1, <1>6
  <2>2. B # Null => /\ B \in Entry /\ B \in Node /\ B # O /\ On(B, l) /\ B # Garbage
                    /\ On(B, l)'
    <3>1. B # Null => /\ B \in Entry /\ B \in Node /\ B # O /\ On(B, l) /\ B # Garbage
      BY <1>2, StoreGround DEF Surroundings
    <3> QED BY <1>1, <1>2, <3>1
  <2>3. ASSUME NEW m \in Entry, On(m, j)', Before(n, node[m].key)
        PROVE  B \in Entry /\ node[B].key <= node[m].key
    <3>1. On(m, l) /\ m # O /\ node[m].key # k
      BY <1>5, <1>6, <2>3 DEF Surroundings
    <3>2. k <= node[m].key
      BY <1>2, <1>4, <1>6, <2>3, <3>1
    <3>3. node[m].key > k
      BY <1>2, <3>1, <3>2, StoreGround
    <3> QED BY <3>1, <3>3 DEF Surroundings
  <2> QED BY <1>0, <1>6, <2>1, <2>2, <2>3, StoreGround
<1>7. CASE ~(n = P /\ j = l)
  <2>1. next'[n][j] = next[n][j]
    BY <1>0, <1>1, <1>7
  <2>2. ASSUME next[n][j] # Null PROVE ~(next[n][j] = O /\ j = l)
    <3> SUFFICES ASSUME next[n][j] = O, j = l PROVE FALSE
      OBVIOUS
    <3>1. CASE Before(n, k)
      BY <1>0, <1>2, <1>3, <1>7, <3>1, StoreGround DEF Surroundings
    <3>2. CASE ~Before(n, k)
      <4>1. next[n][l] \notin {Null, Garbage} /\ Before(n, node[next[n][l]].key)
        BY <1>0, <1>2, StoreGround DEF ListInv, LinksLeadForward
      <4> QED BY <1>2, <3>2, <4>1
    <3> QED BY <3>1, <3>2
  <2>3. next[n][j] # Null => On(next[n][j], j)' /\ next[n][j] \in Entry
    BY <1>0, <1>1, <1>4, <2>1, <2>2, StoreGround
  <2> QED BY <1>0, <1>4, <1>5, <2>1, <2>3
<1> QED BY <1>6, <1>7

LEMMA UnlinkHolds ==
  ASSUME ListInv, writer.pc = "unlink", NEW l, NEW k, NEW P, NEW O, NEW B,
         Surroundings(l, k, P, O, Null, B), LinkTaken(l, k, P, O, B)
  PROVE  MapIsHeld' /\ HeightsBelowMax' /\ LinksLeadForward'
<1>0. /\ Entry' = Entry /\ Node' = Node /\ node' = node /\ maxHeight' = maxHeight
      /\ \A x : Height(x)' = Height(x)
      /\ \A x, a : Before(x, a)' <=> Before(x, a)
  BY DEF LinkTaken, Entry, Node, Before, Height
<1>1. /\ \A x \in Node, i \in Level : next'[x][i] = IF x = P /\ i = l THEN B ELSE next[x][i]
      /\ \A x \in Node, i \in Level : On(x, i)' <=> On(x, i) /\ ~(x = O /\ i = l)
      /\ map'[k] = Absent /\ \A j \in Key : j # k => map'[j] = map[j]
      /\ l # 0 => map' = map
  BY DEF LinkTaken
<1>2. /\ k \in Int /\ k \in Key /\ l \in Level /\ O \in Entry /\ O \in Node /\ node[O].key = k
      /\ P \in Node /\ Before(P, k) /\ On(P, l) /\ l < Height(P) /\ O # Null
  BY StoreGround DEF Surroundings, On
<1>3. MapIsHeld'
  <2>1. ASSUME NEW n \in Entry, On(n, 0)' PROVE map'[node[n].key] = node[n].value
    <3>1. On(n, 0) /\ ~(n = O /\ 0 = l)
      BY <1>1, <2>1, StoreGround
    <3>2. l = 0 => node[n].key # k
      BY <3>1 DEF Surroundings
    <3>3. map[node[n].key] = node[n].value
      BY <3>1 DEF ListInv, MapIsHeld
    <3> QED BY <1>1, <3>2, <3>3, StoreGround
  <2>2. ASSUME NEW j \in Key, map'[j] # Absent
        PROVE  \E n \in Entry : On(n, 0)' /\ node[n].key = j
    <3>1. j # k /\ map[j] # Absent
      BY <1>1, <2>2
    <3>2. PICK n \in Entry : On(n, 0) /\ node[n].key = j
      BY <3>1 DEF ListInv, MapIsHeld
    <3>3. On(n, 0)'
      BY <1>1, <1>2, <3>1, <3>2, StoreGround
    <3> QED BY <3>2, <3>3
  <2> QED BY <1>0, <2>1, <2>2 DEF MapIsHeld
<1>4. HeightsBelowMax'
  BY <1>0 DEF ListInv, HeightsBelowMax
<1>5. LinksLeadForward'
  <2>0. B # Null => /\ B \in Entry /\ node[B].key > k /\ l < Height(B) /\ B # Garbage
                    /\ \A j \in 0..l : next[B][j] # Garbage
    BY StoreGround DEF Surroundings
  <2>1. ASSUME NEW n \in Node, NEW j \in Level, next[n][j] # Garbage
        PROVE  next'[n][j] # Garbage
    BY <1>1, <2>0, <2>1, StoreGround
  <2>2. \A j \in Level : next'[Head0][j] # Garbage
    BY <2>1, StoreGround DEF ListInv, LinksLeadForward
  <2>3. ASSUME NEW n \in Node, NEW j \in Level, next'[n][j] \notin {Null, Garbage}
        PROVE  /\ next'[n][j] \in Entry /\ Before(n, node[next'[n][j]].key)
               /\ j < Height(n) /\ j < Height(next'[n][j])
               /\ \A i \in 0..j : next'[next'[n][j]][i] # Garbage
    <3>1. CASE n = P /\ j = l
      <4>1. next'[n][j] = B /\ B # Null
        BY <1>1, <1>2, <2>3, <3>1
      <4>2. B \in Node /\ Before(P, node[B].key)
        BY <1>2, <2>0, <4>1, StoreGround DEF Before
      <4> QED BY <1>2, <2>0, <2>1, <3>1, <4>1, <4>2, StoreGround
    <3>2. CASE ~(n = P /\ j = l)
      <4>1. next'[n][j] = next[n][j]
        BY <1>1, <3>2
      <4>2. /\ next[n][j] \in Entry /\ Before(n, node[next[n][j]].key)
            /\ j < Height(n) /\ j < Height(next[n][j])
            /\ \A i \in 0..j : next[next[n][j]][i] # Garbage
        BY <2>3, <4>1 DEF ListInv, LinksLeadForward
      <4>3. next[n][j] \in Node /\ 0..j \subseteq Level
        BY <4>2, StoreGround
      <4> QED BY <2>1, <4>1, <4>2, <4>3
    <3> QED BY <3>1, <3>2
  <2> QED BY <1>0, <2>2, <2>3 DEF LinksLeadForward, Height, LinkTaken, Before
<1> QED BY <1>3, <1>4, <1>5

LEMMA UnlinkGoesOn ==
  ASSUME ListInv, writer.pc = "unlink", NEW l, l = writer.done, NEW k, k = writer.key,
         NEW P, P = writer.prev[l], NEW O, O = writer.old, NEW B, B = NextAfter(l),
         Surroundings(l, k, P, O, Null, B), LinkTaken(l, k, P, O, B)
  PROVE  writer' \in WriterType /\ WriterInv'
<1>0. /\ Entry' = Entry /\ Node' = Node /\ node' = node
      /\ \A x : Height(x)' = Height(x) /\ Latest(x)' = Latest(x)
  BY DEF LinkTaken, Entry, Node, Height, Latest
<1>1. /\ \A x \in Node, i \in Level : next'[x][i] = IF x = P /\ i = l THEN B ELSE next[x][i]
      /\ \A x \in Node, i \in Level : On(x, i)' <=> On(x, i) /\ ~(x = O /\ i = l)
      /\ map'[k] = Absent
  BY DEF LinkTaken
<1>2. /\ k \in Int /\ k \in Key /\ l \in Level /\ l \in Int /\ l >= 0
      /\ O \in Entry /\ O \in Node /\ node[O].key = k /\ O # Null
      /\ P \in Node /\ P # O /\ On(P, l) /\ Before(P, k) /\ B = next[O][l]
  BY StoreGround DEF Surroundings, NextAfter
<1>3. CASE writer' = NoWrite
  <2>1. writer' \in WriterType
    BY <1>3, SkipListAssumption DEF NoWrite, WriterType, Level
  <2> QED BY <1>3, <2>1 DEF WriterInv, NoWrite
<1>4. CASE writer' = [writer EXCEPT !.done = l + 1] /\ l + 1 < Height(O)
  <2>1. l + 1 \in Level
    BY <1>2, <1>4, Ground DEF ListInv, Level
  <2>2. /\ writer' \in WriterType
        /\ writer'.pc = "unlink" /\ writer'.key = k /\ writer'.new = writer.new
        /\ writer'.old = O /\ writer'.done = l + 1 /\ writer'.prev = writer.prev
    BY <1>4, <2>1, WriterTypes DEF WriterType, ListInv
  <2>3. Unlinking
    BY DEF ListInv, WriterInv
  <2>4. ASSUME NEW i \in Level, i < Height(O)
        PROVE  /\ LastBefore(writer.prev[i], i, k)
               /\ i < l => next[O][i] = next[writer.prev[i]][i]
               /\ l <= i => next[writer.prev[i]][i] = O
    <3>1. i < l => i \in 0..(l - 1)
      BY <1>2, StoreGround
    <3> QED BY <1>2, <2>3, <2>4, <3>1, StoreGround DEF Unlinking
  <2>5. ASSUME NEW i \in Level, i < Height(O)
        PROVE  LastBefore(writer.prev[i], i, writer.key)'
    <3>1. /\ writer.prev[i] \in Node /\ On(writer.prev[i], i) /\ Before(writer.prev[i], k)
          /\ ~KeyIsAfterNode(k, next[writer.prev[i]][i])
      BY <2>4, <2>5 DEF LastBefore
    <3>2. writer.prev[i] # O
      BY <1>2, <3>1, StoreGround DEF Before
    <3>3. \A x : x \in Node /\ x # O /\ On(x, i) => On(x, i)'
      BY <1>1, <1>2
    <3>4. On(writer.prev[i], i)'
      <4>1. writer'.prev[i] = writer.prev[i]
        BY <2>2
      <4> QED BY <3>1, <3>2, <3>3, <4>1
    <3>5. ~KeyIsAfterNode(k, next'[writer.prev[i]][i])
      <4>1. ~KeyIsAfterNode(k, B)
        <5>1. B = Null \/ node[B].key > k
          BY DEF Surroundings
        <5>2. B # Null => B \in Entry /\ node[B].key \in Int /\ B # Garbage
          BY StoreGround DEF Surroundings
        <5> QED BY ONLY <1>2, <5>1, <5>2 DEF KeyIsAfterNode
      <4> QED BY <1>1, <1>2, <3>1, <4>1
    <3> QED BY <1>0, <2>2, <3>1, <3>4, <3>5 DEF LastBefore, Before, KeyIsAfterNode
  <2>6. ASSUME NEW i \in 0..l
        PROVE  /\ LastBefore(writer.prev[i], i, writer.key)'
               /\ next'[O][i] = next'[writer.prev[i]][i]
    <3>1. i \in Level /\ i < Height(O) /\ (i = l \/ i < l)
      BY <1>2, <1>4, StoreGround, Ground DEF ListInv
    <3>2. LastBefore(writer.prev[i], i, writer.key)'
      BY <2>5, <3>1
    <3>3. next'[O][i] = next'[writer.prev[i]][i]
      <4>1. next'[O][i] = next[O][i]
        BY <1>1, <1>2, <3>1
      <4>2. CASE i = l
        BY <1>1, <1>2, <4>1, <4>2
      <4>3. CASE i < l
        <5>1. writer.prev[i] \in Node /\ next[O][i] = next[writer.prev[i]][i]
          BY <2>4, <3>1, <4>3 DEF LastBefore
        <5> QED BY <1>1, <1>2, <3>1, <4>1, <4>3, <5>1
      <4> QED BY <3>1, <4>2, <4>3
    <3> QED BY <3>2, <3>3
  <2>7. ASSUME NEW i \in Level, l + 1 <= i, i < Height(O)
        PROVE  /\ LastBefore(writer.prev[i], i, writer.key)'
               /\ next'[writer.prev[i]][i] = O
    <3>1. l <= i /\ i # l
      BY <1>2, <2>7, StoreGround
    <3>2. writer.prev[i] \in Node /\ next[writer.prev[i]][i] = O
      BY <2>4, <2>7, <3>1 DEF LastBefore
    <3> QED BY <1>1, <2>5, <2>7, <3>1, <3>2
  <2>8. Unlinking'
    <3>1. 0..(writer'.done - 1) = 0..l /\ writer'.done # 0
      BY <1>2, <2>2
    <3>2. /\ writer'.new = Null /\ writer'.old \in Entry' /\ Latest(writer.old)'
          /\ writer'.done < Height(writer.old)'
          /\ writer'.key \in Key /\ node'[writer'.old].key = writer'.key
      BY <1>0, <1>2, <1>4, <2>2, <2>3 DEF Unlinking
    <3>3. map'[writer'.key] = Absent
      BY <1>1, <2>2
    <3> QED BY <1>0, <2>2, <2>6, <2>7, <3>1, <3>2, <3>3 DEF Unlinking
  <2> QED BY <2>2, <2>8 DEF WriterInv
<1> QED BY <1>3, <1>4 DEF LinkTaken

LEMMA UnlinkRead ==
  ASSUME ListInv, writer.pc = "unlink", NEW l, l = writer.done, NEW k,
         NEW P, NEW O, O = writer.old, NEW B, B = NextAfter(l),
         Surroundings(l, k, P, O, Null, B), LinkTaken(l, k, P, O, B),
         NEW r \in Reader, ReaderInv(r)
  PROVE  ReaderInv(r)'
<1>0. /\ Entry' = Entry /\ Node' = Node /\ node' = node
      /\ \A x, a : Before(x, a)' <=> Before(x, a)
      /\ UNCHANGED <<walk, reader, visited>>
  BY DEF LinkTaken, Entry, Node, Before
<1>1. /\ \A x \in Node, i \in Level : next'[x][i] = IF x = P /\ i = l THEN B ELSE next[x][i]
      /\ \A x \in Node, i \in Level : On(x, i)' <=> On(x, i) /\ ~(x = O /\ i = l)
      /\ map'[k] = Absent /\ \A j \in Key : j # k => map'[j] = map[j]
  BY DEF LinkTaken
<1>2. /\ k \in Int /\ k \in Key /\ l \in Level
      /\ O \in Entry /\ O \in Node /\ On(O, l) /\ node[O].key = k /\ O # Null
      /\ P \in Node /\ next[P][l] = O /\ B = next[O][l]
  BY StoreGround DEF Surroundings, NextAfter
<1>3. /\ steady'[r] = IF l = 0 THEN steady[r] \ {k} ELSE steady[r]
      /\ seen'[r] = IF l = 0 /\ reader[r].pc = "get" /\ reader[r].key = k
                    THEN seen[r] \cup {Absent} ELSE seen[r]
  <2>1. CASE l = 0
    BY <2>1 DEF LinkTaken, Becomes
  <2>2. CASE l # 0
    BY <2>2 DEF LinkTaken
  <2> QED BY <2>1, <2>2
<1>4. Underway(r)'
  <2>1. reader[r].pc \in {"seek", "scan"} => steady'[r] \subseteq Present(map')
    <3>1. CASE l = 0
      BY <1>1, <1>3, <3>1 DEF ReaderInv, Underway, Present
    <3>2. CASE l # 0
      <4>1. map' = map
        BY <3>2 DEF LinkTaken
      <4> QED BY <1>3, <3>2, <4>1 DEF ReaderInv, Underway
    <3> QED BY <3>1, <3>2
  <2>2. reader[r].pc = "get" => map'[reader[r].key] \in seen'[r]
    <3> SUFFICES ASSUME reader[r].pc = "get" PROVE map'[reader[r].key] \in seen'[r]
      OBVIOUS
    <3>1. reader[r].key \in Key /\ map[reader[r].key] \in seen[r]
      BY DEF ReaderInv, Underway
    <3>2. CASE l = 0
      BY <1>1, <1>3, <3>1, <3>2
    <3>3. CASE l # 0
      BY <1>3, <3>1, <3>3 DEF LinkTaken
    <3> QED BY <3>2, <3>3
  <2>3. reader[r].pc # "get" => seen'[r] = seen[r]
    BY <1>3
  <2>4. steady'[r] \subseteq steady[r]
    BY <1>3
  <2> QED BY <1>0, <2>1, <2>2, <2>3, <2>4 DEF ReaderInv, Underway, Present
<1>5. Answered(r)'
  BY <1>0, <1>3 DEF ReaderInv, Answered
<1>6. OnPath(r)'
  <2> SUFFICES ASSUME NEW q \in Sought(r)' PROVE \E S \in SUBSET Node : Path(r, q, S)'
    BY <1>0 DEF OnPath
  <2>1. /\ q \in Sought(r)
        /\ l = 0 /\ q = k => reader[r].pc = "get" /\ reader[r].key = k
    BY <1>0, <1>3 DEF Sought
  <2>2. PICK S \in SUBSET Node : Path(r, q, S)
    BY <2>1 DEF ReaderInv, OnPath
  <2>3. q \in Key /\ q \in Int
    BY <2>1, StoreGround DEF Sought, ReaderInv, Underway, Present
  <2>4. ASSUME NEW n \in Node, NEW j \in Level, On(n, j)', Before(n, q)
        PROVE  n \in S
    BY <1>1, <2>2, <2>4 DEF Path
  <2>5. ASSUME NEW n \in S, NEW j \in Level, next'[n][j] \in Entry, Before(next'[n][j], q)
        PROVE  next'[n][j] \in S
    <3>1. CASE n = P /\ j = l
      <4>1. next'[n][j] = B
        BY <1>1, <1>2, <3>1
      <4>2. B \in Node /\ On(B, l)
        BY <2>5, <4>1, StoreGround DEF Surroundings
      <4> QED BY <1>2, <2>2, <2>5, <4>1, <4>2 DEF Path
    <3>2. CASE ~(n = P /\ j = l)
      <4>1. next'[n][j] = next[n][j]
        BY <1>1, <3>2
      <4> QED BY <2>2, <2>5, <4>1 DEF Path
    <3> QED BY <3>1, <3>2
  <2>6. ASSUME NEW n \in S
        PROVE  /\ \/ Absent \in seen'[r]
                  \/ next'[n][0] \in Entry /\ node[next'[n][0]].key <= q
               /\ reader[r].pc = "get" =>
                    (next'[n][0] \in Entry /\ node[next'[n][0]].key = q
                       => node[next'[n][0]].value \in seen'[r])
    <3>1. \A x \in S : /\ \/ Absent \in seen[r]
                          \/ next[x][0] \in Entry /\ node[next[x][0]].key <= q
                       /\ reader[r].pc = "get" =>
                           (next[x][0] \in Entry /\ node[next[x][0]].key = q
                              => node[next[x][0]].value \in seen[r])
      BY <2>2 DEF Path
    <3>2. seen[r] \subseteq seen'[r]
      BY <1>3
    <3>3. CASE ~(n = P /\ l = 0)
      <4>1. next'[n][0] = next[n][0]
        BY <1>1, <3>3, StoreGround
      <4> QED BY <3>1, <3>2, <4>1
    <3>4. CASE n = P /\ l = 0
      <4>1. next'[n][0] = B /\ next[n][0] = O
        BY <1>1, <1>2, <3>4
      <4>2. B \in Entry => node[B].key > k /\ node[B].key \in Int
        BY <1>2, StoreGround DEF Surroundings
      <4>3. CASE q = k
        <5>1. Absent \in seen'[r]
          BY <1>3, <2>1, <3>4, <4>3
        <5>2. B \in Entry => node[B].key # q
          BY <1>2, <4>2, <4>3
        <5> QED BY <4>1, <5>1, <5>2
      <4>4. CASE q < k
        <5>1. Absent \in seen[r]
          BY <1>2, <2>3, <3>1, <4>1, <4>4
        <5>2. B \in Entry => node[B].key # q
          BY <1>2, <2>3, <4>2, <4>4
        <5> QED BY <3>2, <4>1, <5>1, <5>2
      <4>5. CASE k < q
        <5>1. O \in S
          BY <1>2, <2>2, <4>5 DEF Path, Before
        <5>2. next[O][0] = B
          BY <1>2, <3>4
        <5> QED BY <3>1, <3>2, <4>1, <5>1, <5>2
      <4> QED BY <1>2, <2>3, <4>3, <4>4, <4>5
    <3> QED BY <3>3, <3>4
  <2>7. walk'[r].x \in S /\ \A n \in S : Before(n, q)
    BY <1>0, <2>2 DEF Path
  <2>8. Path(r, q, S)'
    BY <1>0, <2>4, <2>5, <2>6, <2>7 DEF Path
  <2> QED BY <2>8
<1> QED BY <1>4, <1>5, <1>6 DEF ReaderInv

LEMMA StepRemoveUnlink ==
  ASSUME IInv, RemoveUnlink
  PROVE  IInv'
<1>1. PICK l, k, P, O, B :
        /\ l = writer.done /\ k = writer.key /\ P = writer.prev[l]
        /\ O = writer.old /\ B = NextAfter(l)
  OBVIOUS
<1>2. ListInv /\ writer.pc = "unlink" /\ writer.new = Null
  BY DEF RemoveUnlink, IInv, ListInv, WriterInv, Unlinking
<1>3. Surroundings(l, k, P, O, Null, B) /\ LinkTaken(l, k, P, O, B)
  BY <1>1, <1>2, UnlinkTakes
<1>4. writer' \in WriterType /\ WriterInv'
  BY <1>1, <1>2, <1>3, UnlinkGoesOn
<1>5. TypeOK' /\ \A a \in Reader \cup {Writer} : LinksSet(a)'
  <2>1. k \in Key /\ Absent \in Value \cup {Absent} /\ B # Garbage
    BY <1>2, <1>3, StoreGround DEF Surroundings
  <2>2. \A n \in Node, j \in Level : next[n][j] # Garbage => next'[n][j] # Garbage
    BY <1>3, <2>1 DEF LinkTaken
  <2>3. Becomes(k, Absent) \/ UNCHANGED <<seen, steady>>
    BY <1>3 DEF LinkTaken
  <2> QED BY <1>3, <1>4, <2>1, <2>2, <2>3, StoreKeepsTypes DEF LinkTaken
<1>6. LevelsLinked' /\ MapIsHeld' /\ HeightsBelowMax' /\ LinksLeadForward'
  BY <1>2, <1>3, UnlinkLevels, UnlinkHolds
<1>7. \A r \in Reader : ReaderInv(r)'
  BY <1>1, <1>2, <1>3, UnlinkRead DEF IInv
<1> QED BY <1>4, <1>5, <1>6, <1>7 DEF IInv, ListInv

-----------------------------------------------------------------------------
LEMMA Stutters ==
  ASSUME IInv, UNCHANGED vars
  PROVE  IInv'
<1> USE DEF vars
<1>1. TypeOK'
  BY DEF IInv, ListInv, TypeOK, Node, Links, Level
<1>2. ListInv'
  BY <1>1, ListUntouched DEF IInv
<1>3. ASSUME NEW a \in Reader \cup {Writer} PROVE LinksSet(a)'
  BY DEF IInv, LinksSet, Height
<1>4. ASSUME NEW r \in Reader PROVE ReaderInv(r)'
  <2>1. \A n \in Node, l \in Level : On(n, l)' = On(n, l)
    BY DEF On, Latest, Entry, Height
  <2> QED BY <2>1, ReaderUntouched DEF IInv, ListInv
<1> QED BY <1>2, <1>3, <1>4 DEF IInv

LEMMA NextList == IInv /\ [Next]_vars => IInv'
<1> SUFFICES ASSUME IInv, [Next]_vars PROVE IInv'
  OBVIOUS
<1>1. CASE Write
  <2>1. ASSUME NEW k \in Key, NEW v \in Value, WriteBegin("put", k, v) PROVE IInv'
    BY <2>1, StepWriteBegin
  <2>2. ASSUME NEW k \in Key, WriteBegin("remove", k, Null) PROVE IInv'
    BY <2>2, StepWriteBegin
  <2>3. ASSUME NEW height \in 1..MaxHeight, PutInsert(height) PROVE IInv'
    BY <2>3, StepPutInsert
  <2> QED BY <1>1, <2>1, <2>2, <2>3, StepWriterFind, StepPutReplace, StepPutLink,
             StepRemoveFound, StepRemoveUnlink DEF Write
<1>2. ASSUME NEW r \in Reader, Read(r) PROVE IInv'
  <2>1. ASSUME NEW k \in Key, NEW pc \in {"get", "seek"}, SearchBegin(r, pc, k) PROVE IInv'
    BY <2>1, StepSearchBegin
  <2> QED BY <1>2, <2>1, StepSeekToFirst, StepSearchStep, StepGetReturn, StepSeekReturn,
             StepScanNext DEF Read, Search
<1>3. CASE UNCHANGED vars
  BY <1>3, Stutters
<1> QED BY <1>1, <1>2, <1>3 DEF Next

-----------------------------------------------------------------------------
\* The shape of the list between writes.

\* The least-number principle, for a set instead of a predicate.
LEMMA LeastNatural ==
  ASSUME NEW M \in SUBSET Nat, M # {}
  PROVE  \E n \in M : \A m \in M : n <= m
<1>1. PICK n \in M : \A m \in M : ~(<<m, n>> \in OpToRel(<, Nat))
  BY WFMin, NatLessThanWellFounded
<1>2. \A m \in M : ~(m < n)
  BY <1>1 DEF OpToRel
<1> QED BY <1>2

\* Between writes two nodes on a level do not have the same key.
LEMMA OneOfEachKey ==
  ASSUME ListInv, writer.pc \in {"idle", "put", "remove"}, NEW l \in Level,
         NEW m \in Entry, NEW n \in Entry, On(m, l), On(n, l), node[m].key = node[n].key
  PROVE  m = n
<1>1. writer.new = Null /\ writer.old = Null
  <2>1. CASE writer.pc = "idle"
    BY <2>1 DEF ListInv, WriterInv, NoWrite
  <2>2. CASE writer.pc \in {"put", "remove"}
    BY <2>2 DEF ListInv, WriterInv, Searching
  <2> QED BY <2>1, <2>2
<1>2. Null \notin Node /\ Node = Entry \cup {Head0} /\ Head0 \notin Entry /\ Entry \subseteq Int
  BY Ground DEF ListInv
<1>3. Latest(m) /\ Latest(n)
  BY <1>1, <1>2 DEF On
<1>4. m <= n /\ n <= m
  BY <1>3 DEF Latest
<1> QED BY <1>2, <1>4

\* Between writes a level has the nodes that hang on it, and no others: what its links
\* lead to from head_ hangs on it, and a node that hangs on it is not stepped over.
LEMMA ChainedIsOn ==
  ASSUME ListInv, writer.pc \in {"idle", "put", "remove"}, NEW l \in Level
  PROVE  Chained(l) = {n \in Entry : On(n, l)}
<1>1. /\ Node = Entry \cup {Head0} /\ Head0 \notin Entry
      /\ \A n \in Entry : node[n].key \in Int
  BY Ground DEF ListInv
<1>2. On(Head0, l)
  BY SkipListAssumption DEF On, Height, Level
<1>3. ASSUME NEW n \in Chained(l) PROVE n \in Entry /\ On(n, l)
  <2> DEFINE S == {m \in Node : On(m, l)}
  <2>1. S \in SUBSET Node /\ Head0 \in S
    BY <1>1, <1>2
  <2>2. \A m \in S : next[m][l] \in S \cup {Null, Garbage}
    BY <1>1 DEF ListInv, LevelsLinked
  <2>3. n \in Node \ {Head0} /\ n \in S
    <3> HIDE DEF S
    <3> QED BY <1>3, <2>1, <2>2 DEF Chained
  <2> QED BY <1>1, <2>3
<1>4. ASSUME NEW n \in Entry, On(n, l), NEW S \in SUBSET Node, Head0 \in S,
             \A m \in S : next[m][l] \in S \cup {Null, Garbage}
      PROVE  n \in S
  <2> DEFINE k == node[n].key
             Steps == {m \in S : On(m, l) /\ Before(m, k)}
             Entries == Steps \ {Head0}
  <2>1. \A m \in Steps : /\ next[m][l] \in Entry /\ On(next[m][l], l)
                         /\ node[next[m][l]].key <= k /\ next[m][l] \in S
    <3> TAKE m \in Steps
    <3>1. m \in Node /\ On(m, l) /\ Before(m, k)
      OBVIOUS
    <3>2. next[m][l] \in Entry /\ node[next[m][l]].key <= k
      BY <3>1, <1>4 DEF ListInv, LevelsLinked
    <3>3. next[m][l] # Null /\ next[m][l] # Garbage
      BY <3>2, <1>1, Ground DEF ListInv
    <3>4. On(next[m][l], l)
      BY <3>1, <3>3 DEF ListInv, LevelsLinked
    <3>5. next[m][l] \in S
      BY <1>4, <3>3
    <3> QED BY <3>2, <3>4, <3>5
  <2>2. PICK m \in Steps : ~(next[m][l] \in Steps)
    <3>1. CASE Entries = {}
      <4>1. Head0 \in Steps
        BY <1>2, <1>4 DEF Before
      <4>2. next[Head0][l] \notin Steps
        BY <2>1, <3>1, <4>1, <1>1
      <4> QED BY <4>1, <4>2
    <3>2. CASE Entries # {}
      <4>1. \A m \in Entries : m \in Entry /\ node[m].key \in Int /\ node[m].key < k
        BY <1>1 DEF Before
      <4>2. k \in Int
        BY <1>1, <1>4
      <4> DEFINE D == {k - node[m].key : m \in Entries}
      <4>3. D \in SUBSET Nat /\ D # {}
        BY <3>2, <4>1, <4>2
      <4> HIDE DEF D, k, Entries, Steps
      <4>4. PICK d \in D : \A e \in D : d <= e
        BY <4>3, LeastNatural
      <4>5. PICK m \in Entries : d = k - node[m].key
        BY <4>4 DEF D
      <4>6. m \in Steps /\ m \in Node
        BY DEF Entries, Steps
      <4>7. next[m][l] \in Entry
        BY <2>1, <4>6
      <4>8. SUFFICES ASSUME next[m][l] \in Steps PROVE FALSE
        BY <4>6
      <4>9. next[m][l] \in Entries
        BY <4>7, <4>8, <1>1 DEF Entries
      <4>10. k - node[next[m][l]].key \in D
        BY <4>9 DEF D
      <4>11. node[next[m][l]].key <= node[m].key
        <5>1. d <= k - node[next[m][l]].key
          BY <4>4, <4>10
        <5> QED BY <5>1, <4>5, <4>1, <4>2, <4>9
      <4>12. node[m].key < node[next[m][l]].key
        <5>1. Before(m, node[next[m][l]].key)
          BY <4>6, <4>7, <1>1, Ground DEF ListInv, LinksLeadForward
        <5> QED BY <5>1, <4>5, <4>1, <1>1 DEF Before
      <4> QED BY <4>1, <4>5, <4>9, <4>11, <4>12
    <3> QED BY <3>1, <3>2
  <2>3. next[m][l] \in Entry /\ On(next[m][l], l) /\ node[next[m][l]].key = k /\ next[m][l] \in S
    BY <2>1, <2>2, <1>1 DEF Before
  <2>4. next[m][l] = n
    BY <2>3, <1>4, OneOfEachKey
  <2> QED BY <2>3, <2>4
<1>5. Chained(l) \subseteq {n \in Entry : On(n, l)}
  BY <1>3
<1>6. {n \in Entry : On(n, l)} \subseteq Chained(l)
  BY <1>1, <1>4 DEF Chained
<1> QED BY <1>5, <1>6

-----------------------------------------------------------------------------
\* The levels of the list, what the writer knows of them, and the nodes from which
\* each reader gets to its keys, hold together in every state (SkipList::put, remove,
\* findGreaterOrEqual, the Iterator).
THEOREM Invariance == Spec => []IInv
BY InitList, NextList, PTL DEF Spec

\* The nodes, the links and the threads keep their types (Node, SkipList, Iterator).
THEOREM TypeCorrect == Spec => []TypeOK
<1>1. IInv => TypeOK
  BY DEF IInv, ListInv
<1> QED BY <1>1, Invariance, PTL

\* Links lead to greater keys only, also those of nodes that were replaced or
\* removed: a reader that stands on one still moves forward (Iterator::next).
THEOREM LinksStayAscending == Spec => []LinksAscend
<1>1. IInv => LinksAscend
  <2> SUFFICES ASSUME IInv, NEW n \in Node, NEW l \in 0..(Height(n) - 1),
                      next[n][l] \notin {Null, Garbage}
               PROVE  /\ l < Height(next[n][l])
                      /\ n # Head0 => node[n].key < node[next[n][l]].key
    BY DEF LinksAscend
  <2>1. l \in Level
    <3>1. Height(n) \in 1..MaxHeight
      BY Ground DEF IInv, ListInv
    <3> QED BY <3>1, SkipListAssumption DEF Level
  <2> QED BY <2>1 DEF IInv, ListInv, LinksLeadForward, Before
<1> QED BY <1>1, Invariance, PTL

\* No search and no iteration loads a link that put has not set yet, or one above
\* the height of its node (SkipList::put, newNode, findGreaterOrEqual).
THEOREM NoGarbageIsLoaded == Spec => []NeverLoadsGarbage
<1>1. IInv => NeverLoadsGarbage
  <2> SUFFICES ASSUME IInv, NEW a \in Reader \cup {Writer}
               PROVE  walk[a].level < Height(walk[a].x) /\ Link(a) # Garbage
    BY DEF NeverLoadsGarbage
  <2>1. walk[a].level \in 0..walk[a].level
    BY Loads DEF Level
  <2> QED BY <2>1 DEF IInv, LinksSet, Link
<1> QED BY <1>1, Invariance, PTL

\* A get that runs among puts and removes returns a value that its key had at some
\* time since the call (SkipList::get without db_lock).
THEOREM GetsAreLinearizable == Spec => []GetLinearizable
<1>1. IInv => GetLinearizable
  BY DEF IInv, ReaderInv, Answered, GetLinearizable
<1> QED BY <1>1, Invariance, PTL

\* An iteration that ends has come across every key that was there from its
\* beginning to its end, however the list changed under it (SkipList::Iterator).
THEOREM ScansMissNothing == Spec => []ScanSeesAll
<1>1. IInv => ScanSeesAll
  BY DEF IInv, ReaderInv, Answered, ScanSeesAll
<1> QED BY <1>1, Invariance, PTL
\* Between writes the lowest level is the map, each key once, and each of the others
\* has the nodes that are tall enough (SkipList::put, remove).
THEOREM StructureHolds == Spec => []Structure
<1>1. IInv => Structure
  <2> SUFFICES ASSUME IInv, writer.pc = "idle"
               PROVE  /\ \A k \in Key : map[k] # Absent =>
                           \E n \in Chained(0) : node[n].key = k /\ node[n].value = map[k]
                      /\ \A n \in Chained(0) : map[node[n].key] # Absent
                      /\ \A m, n \in Chained(0) : node[m].key = node[n].key => m = n
                      /\ \A l \in Level : Chained(l) = {n \in Chained(0) : node[n].height > l}
    BY DEF Structure
  <2>1. ListInv /\ TypeOK
    BY DEF IInv, ListInv
  <2>2. 0 \in Level /\ Level \subseteq Nat
    BY SkipListAssumption DEF Level
  <2>3. \A l \in Level : Chained(l) = {n \in Entry : On(n, l)}
    BY <2>1, ChainedIsOn
  <2>4. Chained(0) = {n \in Entry : On(n, 0)}
    BY <2>2, <2>3
  <2>5. \A k \in Key : map[k] # Absent =>
          \E n \in Chained(0) : node[n].key = k /\ node[n].value = map[k]
    BY <2>1, <2>4 DEF ListInv, MapIsHeld
  <2>6. \A n \in Chained(0) : map[node[n].key] # Absent
    BY <2>1, <2>4, Ground DEF ListInv, MapIsHeld
  <2>7. \A m, n \in Chained(0) : node[m].key = node[n].key => m = n
    BY <2>1, <2>2, <2>4, OneOfEachKey
  <2>8. ASSUME NEW l \in Level
        PROVE  Chained(l) = {n \in Chained(0) : node[n].height > l}
    <3>1. \A n \in Entry : On(n, l) <=> On(n, 0) /\ node[n].height > l
      <4> TAKE n \in Entry
      <4>1. n # Head0 /\ Height(n) = node[n].height /\ node[n].height \in Nat /\ n \in Node
        BY <2>1, Ground
      <4>2. writer.new # n /\ writer.old # n
        <5>1. writer.new = Null /\ writer.old = Null
          BY <2>1 DEF ListInv, WriterInv, Searching, NoWrite
        <5> QED BY <5>1, <4>1, <2>1, Ground
      <4>3. On(n, l) <=> l < node[n].height /\ Latest(n) /\ map[node[n].key] # Absent
        BY <4>1, <4>2 DEF On
      <4>4. On(n, 0) <=> 0 < node[n].height /\ Latest(n) /\ map[node[n].key] # Absent
        BY <4>1, <4>2 DEF On
      <4> QED BY <4>1, <4>3, <4>4, <2>2
    <3> QED BY <3>1, <2>3, <2>4
  <2> QED BY <2>5, <2>6, <2>7, <2>8
<1> QED BY <1>1, Invariance, PTL
=============================================================================
