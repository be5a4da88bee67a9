---------------------------- MODULE LogFileProofs ----------------------------
(***************************************************************************)
(* Proofs about LogFile, for all keys, values and bounds: whatever a       *)
(* process that ends has handed to the file, readLogFile makes the list of *)
(* whole writes out of it, or of a prefix of the last one.                 *)
(*                                                                         *)
(* The recursive functions of the reader and the folds that put entries    *)
(* into a list are shown to exist and to be unique by Induction over sets  *)
(* of numbers.  Then the writes that reached the stream are cut into the   *)
(* parts X they become (Whole), the file and the buffer are always the     *)
(* start of X (LogIs), and a reader that is given a start of X stops in    *)
(* the write in which it ends (DiscardReads, ApplyReads).                  *)
(***************************************************************************)
EXTENDS LogFile, TLAPS, WellFoundedInduction

-----------------------------------------------------------------------------
\* Natural numbers.

\* The least-number principle, for a set instead of a predicate.
LEMMA Least ==
  ASSUME NEW S \in SUBSET Nat, S # {}
  PROVE  \E n \in S : \A m \in S : n <= m
<1>1. PICK n \in S : \A m \in S : ~(<<m, n>> \in OpToRel(<, Nat))
  BY WFMin, NatLessThanWellFounded
<1>2. \A m \in S : ~(m < n)
  BY <1>1 DEF OpToRel
<1> QED BY <1>2

\* Induction, for a set instead of a predicate.
LEMMA Induction ==
  ASSUME NEW S \in SUBSET Nat, 0 \in S, \A n \in S : n + 1 \in S
  PROVE  S = Nat
<1> SUFFICES ASSUME Nat \ S # {} PROVE FALSE
  OBVIOUS
<1>1. PICK n \in Nat \ S : \A m \in Nat \ S : n <= m
  BY Least
<1>2. n - 1 \in Nat /\ n - 1 \notin Nat \ S
  BY <1>1
<1> QED BY <1>2

\* A set of positions has a greatest one.
LEMMA Greatest ==
  ASSUME NEW n \in Nat, NEW T \in SUBSET (1..n), T # {}
  PROVE  Max(T) \in T /\ \A i \in T : i <= Max(T)
<1> DEFINE S == {m \in Nat : \A i \in T : i <= m}
<1>1. S # {} /\ S \in SUBSET Nat
  <2>1. n \in S
    OBVIOUS
  <2> QED BY <2>1
<1>2. PICK m \in S : \A j \in S : m <= j
  <2> HIDE DEF S
  <2> QED BY <1>1, Least
<1>3. m \in T
  <2> SUFFICES ASSUME m \notin T PROVE FALSE
    OBVIOUS
  <2>1. \A i \in T : i \in Nat /\ i <= m /\ i # m /\ 1 <= i
    BY <1>2
  <2>2. PICK j \in T : TRUE
    OBVIOUS
  <2>3. m \in Nat
    OBVIOUS
  <2>4. m - 1 \in Nat /\ \A i \in T : i <= m - 1
    BY <2>1, <2>2, <2>3
  <2> QED BY <2>4, <2>3, <1>2
<1>4. \E x \in T : \A y \in T : x >= y
  BY <1>2, <1>3
<1>5. Max(T) \in T /\ \A y \in T : Max(T) >= y
  BY <1>4 DEF Max
<1> QED BY <1>5

\* It is the only one that is not below another.
LEMMA GreatestIs ==
  ASSUME NEW n \in Nat, NEW T \in SUBSET (1..n), NEW i \in T, \A j \in T : j <= i
  PROVE  Max(T) = i
<1>1. Max(T) \in T /\ \A j \in T : j <= Max(T)
  BY Greatest
<1>2. T \subseteq Nat
  OBVIOUS
<1>3. Max(T) \in Nat /\ i \in Nat /\ Max(T) <= i /\ i <= Max(T)
  BY <1>1, <1>2
<1> QED BY <1>3

-----------------------------------------------------------------------------
\* Putting entries one after the other.

At(s, T, k) == {i \in T : s[i].key = k}

\* What a key has after the entries at the positions T of s were put in l.
Put1(l, s, T, k) == IF At(s, T, k) = {} THEN l[k] ELSE s[Max(At(s, T, k))].value

PutOn(l, s, T) == [k \in DOMAIN l |-> Put1(l, s, T, k)]

\* The function that the fold of PutAll is computed with.
IsFold(g, l, s) ==
  g = [T \in SUBSET DOMAIN s |->
         IF T = {} THEN l ELSE PutEntry(g[T \ {Max(T)}], s[Max(T)])]

\* A put after others, at the greatest of the positions.
LEMMA PutStep ==
  ASSUME NEW n \in Nat, NEW s, NEW l, NEW T \in SUBSET (1..n), T # {}
  PROVE  PutEntry(PutOn(l, s, T \ {Max(T)}), s[Max(T)]) = PutOn(l, s, T)
<1> DEFINE m == Max(T)
<1>1. m \in T /\ \A i \in T : i <= m
  BY Greatest
<1> HIDE DEF m
<1>2. ASSUME NEW k
      PROVE  Put1(l, s, T, k) = IF s[m].key = k THEN s[m].value ELSE Put1(l, s, T \ {m}, k)
  <2>1. CASE s[m].key = k
    <3>1. At(s, T, k) \in SUBSET (1..n) /\ m \in At(s, T, k)
          /\ \A i \in At(s, T, k) : i <= m
      BY <1>1, <2>1 DEF At
    <3>2. Max(At(s, T, k)) = m
      BY <3>1, GreatestIs
    <3> QED BY <3>1, <3>2, <2>1 DEF Put1
  <2>2. CASE s[m].key # k
    <3>1. At(s, T, k) = At(s, T \ {m}, k)
      BY <2>2 DEF At
    <3> QED BY <3>1, <2>2 DEF Put1
  <2> QED BY <2>1, <2>2
<1> DEFINE F == [k \in DOMAIN l |-> Put1(l, s, T \ {m}, k)]
<1>3. PutEntry(F, s[m]) = [F EXCEPT ![s[m].key] = s[m].value]
  BY DEF PutEntry
<1>4. [F EXCEPT ![s[m].key] = s[m].value]
        = [k \in DOMAIN l |-> IF s[m].key = k THEN s[m].value ELSE F[k]]
  OBVIOUS
<1>5. [k \in DOMAIN l |-> IF s[m].key = k THEN s[m].value ELSE F[k]]
        = [k \in DOMAIN l |-> Put1(l, s, T, k)]
  BY <1>2
<1> QED BY <1>3, <1>4, <1>5 DEF m, PutOn

\* What PutAll returns: of each key the last entry, or what the list had.
LEMMA PutAllIs ==
  ASSUME NEW l, l = [k \in DOMAIN l |-> l[k]],
         NEW n \in Nat, NEW s, DOMAIN s = 1..n
  PROVE  PutAll(l, s) = PutOn(l, s, 1..n)
<1>1. PutOn(l, s, {}) = l
  BY DEF PutOn, Put1, At
<1>2. \A T \in SUBSET (1..n) : T # {} => PutOn(l, s, T) = PutEntry(PutOn(l, s, T \ {Max(T)}), s[Max(T)])
  BY PutStep
<1> DEFINE G == [T \in SUBSET (1..n) |-> PutOn(l, s, T)]
<1>3. IsFold(G, l, s)
  <2>1. \A T \in SUBSET (1..n) :
          G[T] = IF T = {} THEN l ELSE PutEntry(G[T \ {Max(T)}], s[Max(T)])
    <3> TAKE T \in SUBSET (1..n)
    <3>1. T \ {Max(T)} \in SUBSET (1..n)
      OBVIOUS
    <3> QED BY <1>1, <1>2, <3>1
  <2> QED BY <2>1 DEF IsFold
<1> DEFINE g == CHOOSE h : IsFold(h, l, s)
<1>4. IsFold(g, l, s)
  BY <1>3
<1>5. PutAll(l, s) = g[DOMAIN s]
  BY DEF PutAll, FoldLeft, MapThenFoldSet, IsFold
<1> HIDE DEF g, G
<1>6. \A T \in SUBSET (1..n) :
        g[T] = IF T = {} THEN l ELSE PutEntry(g[T \ {Max(T)}], s[Max(T)])
  BY <1>4 DEF IsFold
<1> DEFINE S == {m \in Nat : \A T \in SUBSET (1..n) : T \subseteq 1..m => g[T] = PutOn(l, s, T)}
<1>7. 0 \in S
  <2>1. \A T : T \subseteq 1..0 => T = {}
    OBVIOUS
  <2>2. g[{}] = PutOn(l, s, {})
    BY <1>1, <1>6
  <2> QED BY <2>1, <2>2
<1>8. ASSUME NEW m \in S PROVE m + 1 \in S
  <2> SUFFICES ASSUME NEW T \in SUBSET (1..n), T \subseteq 1..(m + 1) PROVE g[T] = PutOn(l, s, T)
    OBVIOUS
  <2>1. CASE T = {}
    BY <2>1, <1>1, <1>6
  <2>2. CASE T # {}
    <3>1. Max(T) \in T /\ \A i \in T : i <= Max(T)
      BY <2>2, Greatest
    <3>2. T \ {Max(T)} \subseteq 1..m
      <4> SUFFICES ASSUME NEW i \in T, i # Max(T) PROVE i \in 1..m
        OBVIOUS
      <4>1. i <= Max(T) /\ i \in 1..(m+1) /\ Max(T) \in 1..(m + 1) /\ m \in Nat
        BY <3>1
      <4> QED BY <4>1
    <3>3. T \ {Max(T)} \in SUBSET (1..n)
      OBVIOUS
    <3>4. g[T \ {Max(T)}] = PutOn(l, s, T \ {Max(T)})
      BY <3>2, <3>3
    <3> QED BY <2>2, <3>4, <1>2, <1>6
  <2> QED BY <2>1, <2>2
<1>9. n \in S
  <2>1. S \in SUBSET Nat
    OBVIOUS
  <2> HIDE DEF S
  <2> QED BY <1>7, <1>8, <2>1, Induction
<1> QED BY <1>5, <1>9

\* The entries that a reader can put: those of a write, and that of an empty batch.
EmptyEntry == [key |-> EmptyKey, value |-> Removed]
Entries == Entry \cup {EmptyEntry}

LEMMA EntryFields ==
  /\ \A e \in Entries : e.key \in Key \cup {EmptyKey} /\ e.value \in Value
  /\ \A e \in Entry : e.key \in Key /\ e = [key |-> e.key, value |-> e.value]
BY LogFileAssumption DEF Entries, Entry, EmptyEntry

Hits(s, k) == At(s, 1..Len(s), k)
PutOf(l, s, k) == Put1(l, s, 1..Len(s), k)

\* Of two sequences, the second decides for the keys that it has.
LEMMA Put1Concat ==
  ASSUME NEW l, NEW s \in Seq(Entries), NEW x \in Seq(Entries), NEW k
  PROVE  /\ At(x, 1..Len(x), k) # {} =>
              Put1(l, s \o x, 1..Len(s \o x), k) = x[Max(At(x, 1..Len(x), k))].value
         /\ At(x, 1..Len(x), k) = {} =>
              Put1(l, s \o x, 1..Len(s \o x), k) = Put1(l, s, 1..Len(s), k)
<1> DEFINE y == s \o x
           m == Len(s)
           n == Len(x)
<1>1. /\ m \in Nat /\ n \in Nat /\ Len(y) = m + n
      /\ \A i \in 1..m : y[i] = s[i]
      /\ \A i \in 1..n : y[m + i] = x[i]
      /\ \A i \in (m + 1)..(m + n) : i - m \in 1..n /\ y[i] = x[i - m]
  OBVIOUS
<1>2. \A i \in 1..(m + n) : i \in 1..m \/ i \in (m + 1)..(m + n)
  BY <1>1
<1> HIDE DEF y, m, n
<1>3. ASSUME At(x, 1..n, k) # {}
      PROVE  Put1(l, y, 1..(m + n), k) = x[Max(At(x, 1..n, k))].value
  <2> DEFINE j == Max(At(x, 1..n, k))
  <2>1. At(x, 1..n, k) \in SUBSET (1..n)
    BY DEF At
  <2>2. j \in At(x, 1..n, k) /\ \A i \in At(x, 1..n, k) : i <= j
    BY <1>1, <1>3, <2>1, Greatest
  <2> HIDE DEF j
  <2>3. j \in 1..n /\ x[j].key = k /\ y[m + j] = x[j] /\ m + j \in 1..(m + n)
    BY <1>1, <2>2 DEF At
  <2>4. m + j \in At(y, 1..(m + n), k)
    BY <2>3 DEF At
  <2>5. \A i \in At(y, 1..(m + n), k) : i <= m + j
    <3> TAKE i \in At(y, 1..(m + n), k)
    <3>1. i \in 1..(m + n) /\ y[i].key = k
      BY DEF At
    <3>2. CASE i \in 1..m
      BY <3>2, <1>1, <2>3
    <3>3. CASE i \in (m + 1)..(m + n)
      <4>1. i - m \in At(x, 1..n, k)
        BY <3>1, <3>3, <1>1 DEF At
      <4>2. i - m <= j
        BY <4>1, <2>2
      <4> QED BY <4>2, <3>3, <1>1, <2>3
    <3> QED BY <3>1, <3>2, <3>3, <1>2
  <2>6. At(y, 1..(m + n), k) \in SUBSET (1..(m + n))
    BY DEF At
  <2>7. Max(At(y, 1..(m + n), k)) = m + j
    <3>1. m + n \in Nat
      BY <1>1
    <3> QED BY <2>4, <2>5, <2>6, <3>1, GreatestIs
  <2> QED BY <2>3, <2>4, <2>7 DEF Put1, j
<1>4. ASSUME At(x, 1..n, k) = {}
      PROVE  Put1(l, y, 1..(m + n), k) = Put1(l, s, 1..m, k)
  <2>1. At(y, 1..(m + n), k) = At(s, 1..m, k)
    <3>1. \A i \in (m + 1)..(m + n) : y[i].key # k
      BY <1>1, <1>4 DEF At
    <3>2. 1..m \subseteq 1..(m + n)
      BY <1>1
    <3> QED BY <1>1, <1>2, <3>1, <3>2 DEF At
  <2>2. At(s, 1..m, k) # {} => Max(At(s, 1..m, k)) \in 1..m
    <3>1. At(s, 1..m, k) \in SUBSET (1..m)
      BY DEF At
    <3> QED BY <3>1, <1>1, Greatest
  <2> QED BY <2>1, <2>2, <1>1 DEF Put1
<1> QED BY <1>1, <1>3, <1>4 DEF y, m, n

LEMMA Put1Hit ==
  ASSUME NEW l, NEW s \in Seq(Entries), NEW x \in Seq(Entries), NEW k,
         Hits(x, k) # {}
  PROVE  PutOf(l, s \o x, k) = x[Max(Hits(x, k))].value
BY Put1Concat DEF PutOf, Hits

LEMMA Put1Miss ==
  ASSUME NEW l, NEW s \in Seq(Entries), NEW x \in Seq(Entries), NEW k,
         Hits(x, k) = {}
  PROVE  PutOf(l, s \o x, k) = PutOf(l, s, k)
BY Put1Concat DEF PutOf, Hits

\* Every key that a put accepts, after all puts.
LEMMA PutAllAt ==
  ASSUME NEW s \in Seq(Entries)
  PROVE  /\ PutAll(EmptyList, s) = PutOn(EmptyList, s, 1..Len(s))
         /\ DOMAIN PutAll(EmptyList, s) = Key \cup {EmptyKey}
         /\ \A k \in Key \cup {EmptyKey} :
              PutAll(EmptyList, s)[k] = PutOf(EmptyList, s, k)
<1>1. EmptyList = [k \in DOMAIN EmptyList |-> EmptyList[k]] /\ DOMAIN EmptyList = Key \cup {EmptyKey}
  BY DEF EmptyList
<1>2. Len(s) \in Nat /\ DOMAIN s = 1..Len(s)
  OBVIOUS
<1>3. PutAll(EmptyList, s) = PutOn(EmptyList, s, 1..Len(s))
  BY <1>1, <1>2, PutAllIs
<1> QED BY <1>1, <1>3 DEF PutOn, PutOf

LEMMA PutAllNothing == PutAll(EmptyList, <<>>) = EmptyList
<1>1. <<>> \in Seq(Entries) /\ Len(<<>>) = 0
  OBVIOUS
<1>2. \A k : At(<<>>, 1..0, k) = {}
  BY DEF At
<1>3. PutOn(EmptyList, <<>>, 1..0) = EmptyList
  BY <1>2 DEF PutOn, Put1, EmptyList
<1> QED BY <1>1, <1>3, PutAllAt

\* One entry more.
LEMMA PutAllAppend ==
  ASSUME NEW s \in Seq(Entries), NEW e \in Entries
  PROVE  PutAll(EmptyList, Append(s, e)) = PutEntry(PutAll(EmptyList, s), e)
<1> DEFINE x == <<e>>
<1>1. x \in Seq(Entries) /\ Len(x) = 1 /\ x[1] = e /\ Append(s, e) = s \o x
      /\ Append(s, e) \in Seq(Entries)
  OBVIOUS
<1> HIDE DEF x
<1>2. ASSUME NEW k \in Key \cup {EmptyKey}
      PROVE  PutOf(EmptyList, s \o x, k)
               = IF e.key = k THEN e.value ELSE PutOf(EmptyList, s, k)
  <2>1. CASE e.key = k
    <3>1. Hits(x, k) = {1}
      BY <1>1, <2>1 DEF At, Hits
    <3>2. Max({1}) = 1
      BY GreatestIs
    <3>3. PutOf(EmptyList, s \o x, k) = x[Max(Hits(x, k))].value
      <4>1. Hits(x, k) # {}
        BY <3>1
      <4> QED BY <4>1, <1>1, Put1Hit
    <3> QED BY <3>1, <3>2, <3>3, <2>1, <1>1
  <2>2. CASE e.key # k
    <3>1. Hits(x, k) = {}
      BY <1>1, <2>2 DEF At, Hits
    <3> QED BY <3>1, <2>2, <1>1, Put1Miss
  <2> QED BY <2>1, <2>2
<1>3. PutAll(EmptyList, s \o x)
        = [k \in Key \cup {EmptyKey} |-> IF e.key = k THEN e.value ELSE PutAll(EmptyList, s)[k]]
  <2>1. s \o x \in Seq(Entries)
    BY <1>1
  <2>2. PutAll(EmptyList, s \o x) = PutOn(EmptyList, s \o x, 1..Len(s \o x))
    BY <2>1, PutAllAt
  <2>3. \A k \in Key \cup {EmptyKey} :
          PutOf(EmptyList, s \o x, k)
            = IF e.key = k THEN e.value ELSE PutAll(EmptyList, s)[k]
    BY <1>2, PutAllAt
  <2>4. DOMAIN EmptyList = Key \cup {EmptyKey}
    BY DEF EmptyList
  <2> QED BY <2>2, <2>3, <2>4 DEF PutOn, PutOf
<1>4. PutAll(EmptyList, s) = [k \in Key \cup {EmptyKey} |-> PutAll(EmptyList, s)[k]]
  <2>1. DOMAIN EmptyList = Key \cup {EmptyKey}
    BY DEF EmptyList
  <2> QED BY <2>1, PutAllAt DEF PutOn
<1>5. PutEntry(PutAll(EmptyList, s), e)
        = [k \in Key \cup {EmptyKey} |-> IF e.key = k THEN e.value ELSE PutAll(EmptyList, s)[k]]
  BY <1>4 DEF PutEntry
<1> QED BY <1>1, <1>3, <1>5

\* Sequences of entries that leave the same in the list, EmptyKey aside.
Same(a, b) == Kept(PutAll(EmptyList, a)) = Kept(PutAll(EmptyList, b))

LEMMA SameConcat ==
  ASSUME NEW a \in Seq(Entries), NEW b \in Seq(Entries), NEW x \in Seq(Entries), Same(a, b)
  PROVE  Same(a \o x, b \o x)
<1>1. \A k \in Key : PutAll(EmptyList, a)[k] = PutAll(EmptyList, b)[k]
  BY DEF Same, Kept
<1>2. a \o x \in Seq(Entries) /\ b \o x \in Seq(Entries)
  OBVIOUS
<1>3. ASSUME NEW k \in Key
      PROVE  PutOf(EmptyList, a \o x, k) = PutOf(EmptyList, b \o x, k)
  <2>1. PutOf(EmptyList, a, k) = PutOf(EmptyList, b, k)
    BY <1>1, PutAllAt
  <2>2. CASE Hits(x, k) = {}
    <3>1. PutOf(EmptyList, a \o x, k) = PutOf(EmptyList, a, k)
      BY <2>2, Put1Miss
    <3>2. PutOf(EmptyList, b \o x, k) = PutOf(EmptyList, b, k)
      BY <2>2, Put1Miss
    <3> QED BY <2>1, <3>1, <3>2
  <2>3. CASE Hits(x, k) # {}
    BY <2>3, Put1Hit
  <2> QED BY <2>2, <2>3
<1>4. \A k \in Key : PutAll(EmptyList, a \o x)[k] = PutAll(EmptyList, b \o x)[k]
  BY <1>2, <1>3, PutAllAt
<1> QED BY <1>4 DEF Same, Kept

\* The entry of an empty batch is not seen.
LEMMA SameWithEmpty ==
  ASSUME NEW a \in Seq(Entries), NEW b \in Seq(Entries), Same(a, b)
  PROVE  Same(a \o <<EmptyEntry>>, b)
<1>1. <<EmptyEntry>> \in Seq(Entries) /\ Append(a, EmptyEntry) = a \o <<EmptyEntry>>
      /\ EmptyEntry \in Entries
  BY DEF Entries
<1>2. PutAll(EmptyList, a \o <<EmptyEntry>>) = PutEntry(PutAll(EmptyList, a), EmptyEntry)
  BY <1>1, PutAllAppend
<1>3. \A k \in Key : PutEntry(PutAll(EmptyList, a), EmptyEntry)[k] = PutAll(EmptyList, a)[k]
  <2>1. \A k \in Key : k # EmptyEntry.key
    BY LogFileAssumption DEF EmptyEntry
  <2>2. DOMAIN PutAll(EmptyList, a) = Key \cup {EmptyKey}
    BY PutAllAt
  <2> QED BY <2>1, <2>2 DEF PutEntry
<1> QED BY <1>2, <1>3 DEF Same, Kept

-----------------------------------------------------------------------------
\* The writes one after the other.

\* The function that FlattenSeq is computed with.
IsFlat(g, ss, n) == g = [i \in 1..n |-> IF i = 1 THEN ss[i] ELSE g[i - 1] \o ss[i]]

LEMMA FlatExists ==
  ASSUME NEW ss
  PROVE  \A n \in Nat : \E g : IsFlat(g, ss, n)
<1> DEFINE S == {n \in Nat : \E g : IsFlat(g, ss, n)}
<1>1. 0 \in S
  <2>1. IsFlat(<<>>, ss, 0)
    BY DEF IsFlat
  <2> QED BY <2>1
<1>2. ASSUME NEW n \in S PROVE n + 1 \in S
  <2>1. PICK g : IsFlat(g, ss, n)
    OBVIOUS
  <2> DEFINE x == IF n + 1 = 1 THEN ss[n + 1] ELSE g[n] \o ss[n + 1]
             h == [i \in 1..(n + 1) |-> IF i = n + 1 THEN x ELSE g[i]]
  <2>2. \A i \in 1..n : g[i] = IF i = 1 THEN ss[i] ELSE g[i - 1] \o ss[i]
    BY <2>1 DEF IsFlat
  <2>3. n \in Nat
    OBVIOUS
  <2>4. \A i \in 1..(n + 1) : h[i] = IF i = 1 THEN ss[i] ELSE h[i - 1] \o ss[i]
    <3> TAKE i \in 1..(n + 1)
    <3>1. CASE i = n + 1
      <4>1. i # 1 => n \in 1..(n + 1) /\ n # n + 1 /\ i - 1 = n
        BY <3>1, <2>3
      <4> HIDE DEF x
      <4>2. h[i] = x /\ (i # 1 => h[i - 1] = g[n])
        BY <3>1, <4>1
      <4> QED BY <4>1, <4>2, <3>1 DEF x
    <3>2. CASE i # n + 1
      <4>1. i \in 1..n /\ (i # 1 => i - 1 \in 1..(n + 1) /\ i - 1 # n + 1)
        BY <3>2, <2>3
      <4> HIDE DEF x
      <4>2. h[i] = g[i] /\ (i # 1 => h[i - 1] = g[i - 1])
        BY <3>2, <4>1
      <4> QED BY <4>1, <4>2, <2>2
    <3> QED BY <3>1, <3>2
  <2> HIDE DEF x
  <2>5. h = [i \in 1..(n + 1) |-> h[i]]
    OBVIOUS
  <2> HIDE DEF h
  <2>6. IsFlat(h, ss, n + 1)
    BY <2>4, <2>5 DEF IsFlat
  <2> QED BY <2>6
<1>3. S \in SUBSET Nat
  OBVIOUS
<1> HIDE DEF S
<1>4. S = Nat
  BY <1>1, <1>2, <1>3, Induction
<1> QED BY <1>4 DEF S

\* Two such functions agree where the sequences do.
LEMMA FlatUnique ==
  ASSUME NEW g, NEW h, NEW ss, NEW tt, NEW n \in Nat, NEW m \in Nat, n <= m,
         IsFlat(g, ss, n), IsFlat(h, tt, m), \A i \in 1..n : ss[i] = tt[i]
  PROVE  \A i \in 1..n : g[i] = h[i]
<1> DEFINE S == {j \in Nat : \A i \in 1..n : i <= j => g[i] = h[i]}
<1>1. \A i \in 1..n : /\ g[i] = IF i = 1 THEN ss[i] ELSE g[i - 1] \o ss[i]
                      /\ h[i] = IF i = 1 THEN ss[i] ELSE h[i - 1] \o ss[i]
  <2>1. \A i \in 1..n : i \in 1..m
    OBVIOUS
  <2> QED BY <2>1 DEF IsFlat
<1>2. 0 \in S
  OBVIOUS
<1>3. ASSUME NEW j \in S PROVE j + 1 \in S
  <2> SUFFICES ASSUME NEW i \in 1..n, i <= j + 1 PROVE g[i] = h[i]
    OBVIOUS
  <2>1. i # 1 => i - 1 \in 1..n /\ i - 1 <= j
    OBVIOUS
  <2>2. i # 1 => g[i - 1] = h[i - 1]
    BY <2>1
  <2> QED BY <2>2, <1>1
<1>4. S \in SUBSET Nat
  OBVIOUS
<1> HIDE DEF S
<1>5. S = Nat
  BY <1>2, <1>3, <1>4, Induction
<1> QED BY <1>5 DEF S

LEMMA FlattenIs ==
  ASSUME NEW ss, NEW n \in Nat \ {0}, Len(ss) = n
  PROVE  \E g : IsFlat(g, ss, n) /\ FlattenSeq(ss) = g[n]
<1> DEFINE g == CHOOSE h : IsFlat(h, ss, n)
<1>1. IsFlat(g, ss, n)
  BY FlatExists
<1>2. FlattenSeq(ss) = g[n]
  BY DEF FlattenSeq, IsFlat
<1> QED BY <1>1, <1>2

\* A write more.
LEMMA FlattenMore ==
  ASSUME NEW ws \in Seq(Seq(Entry)), NEW n \in 1..Len(ws)
  PROVE  FlattenSeq(SubSeq(ws, 1, n))
           = IF n = 1 THEN ws[1] ELSE FlattenSeq(SubSeq(ws, 1, n - 1)) \o ws[n]
<1> DEFINE s == SubSeq(ws, 1, n)
           t == SubSeq(ws, 1, n - 1)
<1>1. /\ Len(s) = n /\ n \in Nat \ {0} /\ \A i \in 1..n : s[i] = ws[i]
      /\ n # 1 => Len(t) = n - 1 /\ n - 1 \in Nat \ {0} /\ \A i \in 1..(n - 1) : t[i] = ws[i]
  OBVIOUS
<1> HIDE DEF s, t
<1>2. PICK g : IsFlat(g, s, n) /\ FlattenSeq(s) = g[n]
  BY <1>1, FlattenIs
<1>3. CASE n = 1
  BY <1>1, <1>2, <1>3 DEF IsFlat, s, t
<1>4. CASE n # 1
  <2>1. PICK h : IsFlat(h, t, n - 1) /\ FlattenSeq(t) = h[n - 1]
    BY <1>1, <1>4, FlattenIs
  <2>2. \A i \in 1..(n - 1) : t[i] = s[i]
    BY <1>1, <1>4
  <2>3. \A i \in 1..(n - 1) : h[i] = g[i]
    <3>1. n - 1 \in Nat /\ n \in Nat /\ n - 1 <= n
      BY <1>1
    <3> QED BY <3>1, <1>2, <2>1, <2>2, FlatUnique
  <2>4. g[n] = g[n - 1] \o s[n]
    <3>1. n \in 1..n
      BY <1>1
    <3>2. \A i \in 1..n : g[i] = IF i = 1 THEN s[i] ELSE g[i - 1] \o s[i]
      BY <1>2 DEF IsFlat
    <3> QED BY <3>1, <3>2, <1>4
  <2>5. n - 1 \in 1..(n - 1) /\ n \in 1..n
    BY <1>1, <1>4
  <2> QED BY <1>1, <1>2, <1>4, <2>1, <2>3, <2>4, <2>5 DEF s, t
<1> QED BY <1>3, <1>4

\* The entries of the first n of the writes ws: Reached, of any sequence of writes.
First(ws, n) == FlattenSeq(SubSeq(ws, 1, n))

LEMMA FirstNone ==
  ASSUME NEW ws \in Seq(Seq(Entry))
  PROVE  First(ws, 0) = <<>>
<1>1. SubSeq(ws, 1, 0) = <<>> /\ Len(<<>>) = 0
  OBVIOUS
<1> QED BY <1>1 DEF First, FlattenSeq

LEMMA FirstMore ==
  ASSUME NEW ws \in Seq(Seq(Entry)), NEW n \in 1..Len(ws), First(ws, n - 1) \in Seq(Entry)
  PROVE  First(ws, n) = First(ws, n - 1) \o ws[n] /\ First(ws, n) \in Seq(Entry)
<1>1. ws[n] \in Seq(Entry)
  OBVIOUS
<1>2. CASE n = 1
  <2>1. First(ws, n) = ws[1]
    BY <1>2, FlattenMore DEF First
  <2>2. First(ws, n - 1) = <<>>
    BY <1>2, FirstNone
  <2> QED BY <1>1, <1>2, <2>1, <2>2
<1>3. CASE n # 1
  <2>1. FlattenSeq(SubSeq(ws, 1, n)) = FlattenSeq(SubSeq(ws, 1, n - 1)) \o ws[n]
    BY <1>3, FlattenMore
  <2>2. First(ws, n) = First(ws, n - 1) \o ws[n]
    BY <2>1 DEF First
  <2> QED BY <1>1, <2>2
<1> QED BY <1>2, <1>3

LEMMA FirstType ==
  ASSUME NEW ws \in Seq(Seq(Entry)), NEW n \in 0..Len(ws)
  PROVE  First(ws, n) \in Seq(Entry)
<1> DEFINE S == {m \in Nat : m <= Len(ws) => First(ws, m) \in Seq(Entry)}
<1>1. 0 \in S
  <2>1. First(ws, 0) = <<>> /\ <<>> \in Seq(Entry)
    BY FirstNone
  <2> QED BY <2>1
<1>2. ASSUME NEW m \in S PROVE m + 1 \in S
  <2> SUFFICES ASSUME m + 1 <= Len(ws) PROVE First(ws, m + 1) \in Seq(Entry)
    OBVIOUS
  <2> DEFINE k == m + 1
  <2>1. k \in 1..Len(ws) /\ k - 1 = m /\ m <= Len(ws)
    OBVIOUS
  <2> HIDE DEF k
  <2>2. First(ws, k - 1) \in Seq(Entry)
    BY <2>1
  <2>3. First(ws, k) \in Seq(Entry)
    BY <2>1, <2>2, FirstMore
  <2> QED BY <2>3 DEF k
<1>3. S \in SUBSET Nat
  OBVIOUS
<1> HIDE DEF S
<1>4. S = Nat
  BY <1>1, <1>2, <1>3, Induction
<1> QED BY <1>4 DEF S

LEMMA FirstStep ==
  ASSUME NEW ws \in Seq(Seq(Entry)), NEW n \in 1..Len(ws)
  PROVE  First(ws, n) = First(ws, n - 1) \o ws[n]
<1>1. First(ws, n - 1) \in Seq(Entry)
  BY FirstType
<1> QED BY <1>1, FirstMore

\* The entries of fewer writes are a prefix of those of more.
LEMMA FirstIsPrefix ==
  ASSUME NEW ws \in Seq(Seq(Entry)), NEW n \in 0..Len(ws), NEW m \in n..Len(ws)
  PROVE  /\ Len(First(ws, n)) <= Len(First(ws, m))
         /\ \A i \in 1..Len(First(ws, n)) : First(ws, m)[i] = First(ws, n)[i]
<1> DEFINE OK(j) == /\ Len(First(ws, n)) <= Len(First(ws, j))
                    /\ \A i \in 1..Len(First(ws, n)) : First(ws, j)[i] = First(ws, n)[i]
           S == {j \in Nat : n + j <= Len(ws) => OK(n + j)}
<1>0. n \in Nat /\ m \in Nat /\ m - n \in Nat /\ n + 0 = n /\ n + (m - n) = m
  OBVIOUS
<1>1. 0 \in S
  <2>1. Len(First(ws, n)) \in Nat
    BY FirstType
  <2> HIDE DEF OK
  <2>2. OK(n)
    BY <2>1 DEF OK
  <2> QED BY <2>2, <1>0
<1>2. ASSUME NEW j \in S PROVE j + 1 \in S
  <2> SUFFICES ASSUME n + (j + 1) <= Len(ws) PROVE OK(n + (j + 1))
    OBVIOUS
  <2> DEFINE k == n + j
  <2>1. /\ n + (j + 1) = k + 1 /\ k + 1 \in 1..Len(ws) /\ k + 1 - 1 = k
        /\ k \in 0..Len(ws) /\ k <= Len(ws)
    BY <1>0
  <2>2. OK(k)
    BY <2>1
  <2> HIDE DEF k
  <2>3. First(ws, k + 1) = First(ws, k) \o ws[k + 1]
    <3> DEFINE i == k + 1
    <3>1. i \in 1..Len(ws) /\ i - 1 = k
      BY <2>1
    <3> HIDE DEF i
    <3>2. First(ws, i) = First(ws, i - 1) \o ws[i]
      BY <3>1, FirstStep
    <3> QED BY <3>1, <3>2 DEF i
  <2>4. First(ws, k) \in Seq(Entry) /\ ws[k + 1] \in Seq(Entry) /\ First(ws, n) \in Seq(Entry)
    BY <2>1, FirstType
  <2>5. OK(k + 1)
    BY <2>2, <2>3, <2>4
  <2> QED BY <2>5, <2>1
<1>3. S \in SUBSET Nat
  OBVIOUS
<1> HIDE DEF S
<1>4. m - n \in S
  BY <1>0, <1>1, <1>2, <1>3, Induction
<1> QED BY <1>4, <1>0 DEF S

\* Writes that are added later make no difference to the first ones.
LEMMA FirstOfAppend ==
  ASSUME NEW ws \in Seq(Seq(Entry)), NEW w \in Seq(Entry), NEW n \in 0..Len(ws)
  PROVE  First(Append(ws, w), n) = First(ws, n)
<1>1. SubSeq(Append(ws, w), 1, n) = SubSeq(ws, 1, n)
  OBVIOUS
<1> QED BY <1>1 DEF First

-----------------------------------------------------------------------------
\* Reading a file.

End(mode) == Reads(<<>>, Thrown(mode))
Then(g, entries, next) == Reads(entries \o g[next].entries, g[next].throws)

\* One turn of the reader, at part i, with what g says of the parts after it.
Turn(g, f, mode, i) ==
  IF i > Len(f) THEN End(mode)
  ELSE IF f[i].part = "count" /\ f[i].n > 0 THEN
    IF i + 2 * f[i].n + 1 <= Len(f) /\ Len(BatchEntries(f, i + 1, f[i].n)) = f[i].n
    THEN Then(g, BatchEntries(f, i + 1, f[i].n), i + 2 * f[i].n + 2)
    ELSE Reads(PartialBatch(BatchEntries(f, i + 1, f[i].n), mode), Thrown(mode))
  ELSE IF i + 1 > Len(f) THEN End(mode)
  ELSE IF f[i].part = "count" THEN Then(g, <<EmptyEntry>>, i + 2)
  ELSE Then(g, <<EntryAt(f, i)>>, i + 2)

IsRead(g, f, mode) == g = [i \in 1..(Len(f) + 3) |-> Turn(g, f, mode, i)]

\* What stands at the front of a batch is a number.
Counts(f) == \A i \in 1..Len(f) : f[i].part = "count" => f[i].n \in Nat

\* A turn looks at later parts only.
LEMMA TurnLooksAhead ==
  ASSUME NEW f, Len(f) \in Nat, Counts(f), NEW mode, NEW g, NEW h,
         NEW i \in 1..(Len(f) + 3), \A j \in (i + 1)..(Len(f) + 3) : g[j] = h[j]
  PROVE  Turn(g, f, mode, i) = Turn(h, f, mode, i)
<1> DEFINE L == Len(f)
<1>1. CASE i > L
  BY <1>1 DEF Turn
<1>2. CASE i <= L /\ f[i].part = "count" /\ f[i].n > 0
  <2>1. f[i].n \in Nat
    BY <1>2 DEF Counts
  <2> DEFINE next == i + 2 * f[i].n + 2
  <2>2. next - 1 <= L => g[next] = h[next]
    <3>1. next - 1 <= L => next \in (i + 1)..(L + 3)
      BY <2>1, <1>2
    <3> HIDE DEF next
    <3> QED BY <3>1
  <2>3. i + 2 * f[i].n + 1 <= L => g[next] = h[next]
    BY <2>1, <2>2
  <2> HIDE DEF next
  <2>4. i + 2 * f[i].n + 1 <= L =>
          Then(g, BatchEntries(f, i + 1, f[i].n), next) = Then(h, BatchEntries(f, i + 1, f[i].n), next)
    BY <2>3 DEF Then
  <2>5. ~(i > L)
    BY <1>2
  <2> QED BY <1>2, <2>4, <2>5 DEF Turn, next
<1>3. CASE i <= L /\ ~(f[i].part = "count" /\ f[i].n > 0)
  <2>1. i + 2 \in (i + 1)..(L + 3)
    BY <1>3
  <2>2. \A e : Then(g, e, i + 2) = Then(h, e, i + 2)
    BY <2>1 DEF Then
  <2>3. ~(i > L)
    BY <1>3
  <2> QED BY <1>3, <2>2, <2>3 DEF Turn
<1> QED BY <1>1, <1>2, <1>3

LEMMA ReadExists ==
  ASSUME NEW f, Len(f) \in Nat, Counts(f), NEW mode
  PROVE  \E g : IsRead(g, f, mode)
<1> DEFINE N == Len(f) + 3
           Upto(n, g) == /\ g = [i \in 1..N |-> g[i]]
                         /\ \A i \in 1..N : i > N - n => g[i] = Turn(g, f, mode, i)
           S == {n \in Nat : n <= N => \E g : Upto(n, g)}
<1>0. N \in Nat
  OBVIOUS
<1>1. 0 \in S
  <2>1. Upto(0, [i \in 1..N |-> 0])
    BY <1>0
  <2> QED BY <2>1
<1>2. ASSUME NEW n \in S PROVE n + 1 \in S
  <2> SUFFICES ASSUME n + 1 <= N PROVE \E h : Upto(n + 1, h)
    OBVIOUS
  <2>0. n \in Nat
    OBVIOUS
  <2>1. PICK g : Upto(n, g)
    BY <1>0, <2>0
  <2> DEFINE m == N - n
  <2>2. m \in 1..N /\ N - (n + 1) = m - 1
    BY <1>0, <2>0
  <2>3. /\ g = [i \in 1..N |-> g[i]]
        /\ \A i \in 1..N : i > m => g[i] = Turn(g, f, mode, i)
    BY <2>1
  <2> HIDE DEF m, Upto
  <2> DEFINE h == [g EXCEPT ![m] = Turn(g, f, mode, m)]
  <2>4. /\ h = [i \in 1..N |-> h[i]]
        /\ h[m] = Turn(g, f, mode, m)
        /\ \A i \in 1..N : i # m => h[i] = g[i]
    BY <2>2, <2>3
  <2> HIDE DEF h
  <2>5. ASSUME NEW i \in 1..N, i > m - 1 PROVE h[i] = Turn(h, f, mode, i)
    <3>1. \A j \in (i + 1)..N : g[j] = h[j]
      <4> TAKE j \in (i + 1)..N
      <4>1. j \in 1..N /\ j # m
        BY <2>2, <2>5, <1>0
      <4> QED BY <4>1, <2>4
    <3>2. Turn(g, f, mode, i) = Turn(h, f, mode, i)
      BY <3>1, TurnLooksAhead
    <3>3. CASE i = m
      BY <3>2, <3>3, <2>4
    <3>4. CASE i # m
      <4>1. i > m
        BY <3>4, <2>5, <2>2
      <4> QED BY <4>1, <3>2, <3>4, <2>3, <2>4
    <3> QED BY <3>3, <3>4
  <2>6. Upto(n + 1, h)
    BY <2>2, <2>4, <2>5 DEF Upto
  <2> QED BY <2>6
<1>3. S \in SUBSET Nat
  OBVIOUS
<1> HIDE DEF S, Upto
<1>4. N \in S
  BY <1>0, <1>1, <1>2, <1>3, Induction
<1>5. PICK g : Upto(N, g)
  BY <1>4, <1>0 DEF S
<1>6. \A i \in 1..N : g[i] = Turn(g, f, mode, i)
  <2>1. \A i \in 1..N : i > N - N
    BY <1>0
  <2> QED BY <1>5, <2>1 DEF Upto
<1>7. g = [i \in 1..N |-> Turn(g, f, mode, i)]
  BY <1>5, <1>6 DEF Upto
<1> QED BY <1>7 DEF IsRead

LEMMA ReadIs ==
  ASSUME NEW f, Len(f) \in Nat, Counts(f), NEW mode
  PROVE  \E g : ReadLogFile(f, mode) = g[1] /\ \A i \in 1..(Len(f) + 3) : g[i] = Turn(g, f, mode, i)
<1> DEFINE g == CHOOSE h : IsRead(h, f, mode)
<1>1. IsRead(g, f, mode)
  BY ReadExists
<1>2. ReadLogFile(f, mode) = g[1]
  BY DEF ReadLogFile, IsRead, Turn, Then, End, EmptyEntry
<1> HIDE DEF g
<1>3. \A i \in 1..(Len(f) + 3) : g[i] = Turn(g, f, mode, i)
  BY <1>1 DEF IsRead
<1> QED BY <1>2, <1>3

-----------------------------------------------------------------------------
\* Whole logs: X is a file to which nothing more would have to be written, and
\* the write i ends at position ends[i] of it.

IsPut(X, s, t, w) ==
  /\ Len(w) = 1 /\ t = s + 2
  /\ X[s + 1] = KeyPart(w[1].key) /\ X[s + 2] = ValuePart(w[1].value)

IsBatch(X, s, t, w) ==
  /\ t = s + 2 * Len(w) + 2
  /\ X[s + 1] = CountPart(Len(w)) /\ X[t] = CountPart(Len(w))
  /\ \A j \in 1..Len(w) : /\ X[s + 2 * j] = KeyPart(w[j].key)
                          /\ X[s + 2 * j + 1] = ValuePart(w[j].value)

IsWrite(X, s, t, w) == IsPut(X, s, t, w) \/ IsBatch(X, s, t, w)

Whole(X, ends, ws) ==
  /\ Len(X) \in Nat
  /\ ends \in [0..Len(ws) -> Nat]
  /\ ends[0] = 0 /\ ends[Len(ws)] = Len(X)
  /\ \A i \in 1..Len(ws) : IsWrite(X, ends[i - 1], ends[i], ws[i])

\* f is what is in the file of X.
Starts(f, X) ==
  Len(f) \in Nat /\ Len(f) <= Len(X) /\ \A i \in 1..Len(f) : f[i] = X[i]

LEMMA PartsAre ==
  /\ \A k : KeyPart(k).part = "key" /\ KeyPart(k).key = k
  /\ \A v : ValuePart(v).part = "value" /\ ValuePart(v).value = v
  /\ \A n : CountPart(n).part = "count" /\ CountPart(n).n = n
BY DEF KeyPart, ValuePart, CountPart

LEMMA EndsGrow ==
  ASSUME NEW X, NEW ends, NEW ws \in Seq(Seq(Entry)), Whole(X, ends, ws),
         NEW i \in 0..Len(ws), NEW j \in i..Len(ws)
  PROVE  ends[i] <= ends[j] /\ (i < j => ends[i] < ends[j])
<1> DEFINE S == {d \in Nat : i + d <= Len(ws) =>
                   ends[i] <= ends[i + d] /\ (d > 0 => ends[i] < ends[i + d])}
<1>0. \A k \in 0..Len(ws) : ends[k] \in Nat
  BY DEF Whole
<1>1. 0 \in S
  BY <1>0
<1>2. ASSUME NEW d \in S PROVE d + 1 \in S
  <2> SUFFICES ASSUME i + (d + 1) <= Len(ws)
               PROVE  ends[i] < ends[i + (d + 1)]
    BY <1>0
  <2> DEFINE k == i + (d + 1)
  <2>1. k \in 1..Len(ws) /\ k - 1 = i + d /\ k - 1 \in 0..Len(ws) /\ i + d <= Len(ws) /\ k \in 0..Len(ws)
    OBVIOUS
  <2>2. ends[i] <= ends[k - 1]
    BY <2>1
  <2> HIDE DEF k
  <2>3. IsWrite(X, ends[k - 1], ends[k], ws[k])
    BY <2>1 DEF Whole
  <2>4. Len(ws[k]) \in Nat /\ ends[k - 1] \in Nat /\ ends[k] \in Nat /\ ends[i] \in Nat
    BY <2>1, <1>0
  <2>5. ends[k - 1] < ends[k]
    <3> DEFINE s == ends[k - 1]
               t == ends[k]
    <3>1. t = s + 2 \/ t = s + 2 * Len(ws[k]) + 2
      BY <2>3 DEF IsWrite, IsPut, IsBatch
    <3>2. s \in Nat /\ t \in Nat
      BY <2>4
    <3> HIDE DEF s, t
    <3>3. s < t
      BY <3>1, <3>2, <2>4
    <3> QED BY <3>3 DEF s, t
  <2>6. ends[i] < ends[k]
    BY <2>2, <2>4, <2>5
  <2> QED BY <2>6 DEF k
<1>3. S \in SUBSET Nat
  OBVIOUS
<1> HIDE DEF S
<1>4. S = Nat
  BY <1>1, <1>2, <1>3, Induction
<1>5. j - i \in S /\ i + (j - i) = j /\ (i < j => j - i > 0) /\ j \in Int
  BY <1>4
<1> QED BY <1>5 DEF S

\* Every position of a whole log is in one of its writes.
LEMMA InAWrite ==
  ASSUME NEW X, NEW ends, NEW ws \in Seq(Seq(Entry)), Whole(X, ends, ws),
         NEW m \in 0..Len(X)
  PROVE  \E n \in 0..Len(ws) : ends[n] <= m /\ (n < Len(ws) => m < ends[n + 1])
<1> DEFINE S == {d \in 0..Len(ws) : ends[Len(ws) - d] <= m}
<1>1. S # {} /\ S \in SUBSET Nat
  <2>1. Len(ws) \in S
    BY DEF Whole
  <2> QED BY <2>1
<1>2. PICK d \in S : \A c \in S : d <= c
  <2> HIDE DEF S
  <2> QED BY <1>1, Least
<1> DEFINE n == Len(ws) - d
<1>3. n \in 0..Len(ws) /\ ends[n] <= m
  OBVIOUS
<1>4. ASSUME n < Len(ws) PROVE m < ends[n + 1]
  <2>1. d - 1 \in 0..Len(ws) /\ ~(d <= d - 1) /\ Len(ws) - (d - 1) = n + 1 /\ n + 1 \in 0..Len(ws)
    BY <1>4
  <2>2. d - 1 \notin S
    BY <2>1, <1>2
  <2>3. ~(ends[n + 1] <= m)
    BY <2>1, <2>2
  <2>4. ends[n + 1] \in Nat /\ m \in Nat
    <3> HIDE DEF n
    <3> QED BY <2>1 DEF Whole
  <2> QED BY <2>3, <2>4
<1> QED BY <1>3, <1>4

LEMMA CountsOfWhole ==
  ASSUME NEW X, NEW ends, NEW ws \in Seq(Seq(Entry)), Whole(X, ends, ws)
  PROVE  Counts(X)
<1> SUFFICES ASSUME NEW p \in 1..Len(X), X[p].part = "count" PROVE X[p].n \in Nat
  BY DEF Counts
<1>0. Len(X) \in Nat
  BY DEF Whole
<1>1. p - 1 \in 0..Len(X)
  BY <1>0
<1>2. PICK n \in 0..Len(ws) : ends[n] <= p - 1 /\ (n < Len(ws) => p - 1 < ends[n + 1])
  BY <1>1, InAWrite
<1>3. n < Len(ws)
  BY <1>0, <1>2 DEF Whole
<1> DEFINE k == n + 1
<1>4. k \in 1..Len(ws) /\ k - 1 = n /\ k \in 0..Len(ws)
  BY <1>3
<1>5. p - 1 < ends[k]
  BY <1>2, <1>3
<1> HIDE DEF k
<1> DEFINE s == ends[n]
           t == ends[k]
           w == ws[k]
<1>6. s \in Nat /\ t \in Nat /\ Len(w) \in Nat /\ s < p /\ p <= t /\ p \in Nat
  <2>1. s \in Nat /\ t \in Nat
    BY <1>4 DEF Whole
  <2>2. ws[k] \in Seq(Entry)
    BY <1>4
  <2> QED BY <2>1, <2>2, <1>2, <1>5
<1>7. IsWrite(X, s, t, w)
  BY <1>4 DEF Whole
<1> HIDE DEF s, t, w
<1>8. CASE IsPut(X, s, t, w)
  <2>1. p = s + 1 \/ p = s + 2
    BY <1>6, <1>8 DEF IsPut
  <2> QED BY <2>1, <1>8, PartsAre DEF IsPut
<1>9. CASE IsBatch(X, s, t, w)
  <2>1. p = s + 1 \/ p = t \/ \E j \in 1..Len(w) : p = s + 2 * j \/ p = s + 2 * j + 1
    <3>1. t = s + 2 * Len(w) + 2
      BY <1>9 DEF IsBatch
    <3> DEFINE j == (p - s) \div 2
    <3>2. j \in Nat /\ (p - s = 2 * j \/ p - s = 2 * j + 1)
      BY <1>6
    <3>3. p # s + 1 /\ p # t => j \in 1..Len(w)
      BY <3>1, <3>2, <1>6
    <3> QED BY <3>2, <3>3, <1>6
  <2>2. CASE p = s + 1 \/ p = t
    BY <2>2, <1>6, <1>9, PartsAre DEF IsBatch
  <2>3. ASSUME NEW j \in 1..Len(w), p = s + 2 * j \/ p = s + 2 * j + 1 PROVE FALSE
    <3>1. X[p].part = "key" \/ X[p].part = "value"
      <4>1. /\ X[s + 2 * j] = KeyPart(w[j].key)
            /\ X[s + 2 * j + 1] = ValuePart(w[j].value)
        BY ONLY <1>9, j \in 1..Len(w) DEF IsBatch
      <4> QED BY ONLY <2>3, <4>1, PartsAre
    <3> QED BY <3>1
  <2> QED BY <2>1, <2>2, <2>3
<1> QED BY <1>7, <1>8, <1>9 DEF IsWrite

LEMMA CountsOfStart ==
  ASSUME NEW X, NEW ends, NEW ws \in Seq(Seq(Entry)), Whole(X, ends, ws),
         NEW f, Starts(f, X)
  PROVE  Counts(f)
<1>1. Counts(X) /\ Len(X) \in Nat
  BY CountsOfWhole DEF Whole
<1>2. \A i \in 1..Len(f) : i \in 1..Len(X)
  BY <1>1 DEF Starts
<1> QED BY <1>1, <1>2 DEF Counts, Starts

-----------------------------------------------------------------------------
\* Reading what a file holds of a whole log.

\* The entries of a batch that a file holds whole, the last part of which may be cut off.
WholeEntries(f, s, w) ==
  IF s + 1 + 2 * Len(w) <= Len(f) THEN Len(w) ELSE (Len(f) - s - 1) \div 2

HoldsEntries(f, s, w, q) ==
  \A j \in 1..q : f[s + 2 * j] = KeyPart(w[j].key) /\ f[s + 2 * j + 1] = ValuePart(w[j].value)

ReadsEntries(f, s, w, q) == BatchEntries(f, s + 2, Len(w)) = SubSeq(w, 1, q)

LEMMA BatchIs ==
  ASSUME NEW f, NEW s \in Nat, NEW w \in Seq(Entry), Len(f) \in Nat,
         NEW q \in 0..Len(w), HoldsEntries(f, s, w, q), q = WholeEntries(f, s, w)
  PROVE  ReadsEntries(f, s, w, q)
<1> USE DEF HoldsEntries, WholeEntries, ReadsEntries
<1>1. BatchEntries(f, s + 2, Len(w)) = [j \in 1..q |-> EntryAt(f, s + 2 + 2 * (j - 1))]
  <2>1. s + 2 + 2 * Len(w) - 1 = s + 1 + 2 * Len(w) /\ Len(f) - (s + 2) + 1 = Len(f) - s - 1
    OBVIOUS
  <2> QED BY <2>1 DEF BatchEntries
<1>2. \A j \in 1..q : EntryAt(f, s + 2 + 2 * (j - 1)) = w[j]
  <2> TAKE j \in 1..q
  <2>1. s + 2 + 2 * (j - 1) = s + 2 * j
    OBVIOUS
  <2>2. w[j] \in Entry
    OBVIOUS
  <2>3. EntryAt(f, s + 2 * j) = [key |-> w[j].key, value |-> w[j].value]
    BY PartsAre DEF EntryAt
  <2> QED BY <2>1, <2>2, <2>3, EntryFields
<1>3. SubSeq(w, 1, q) = [j \in 1..q |-> w[j]]
  OBVIOUS
<1> QED BY <1>1, <1>2, <1>3

\* The turns of the reader.
Turns(g, f, mode) == \A i \in 1..(Len(f) + 3) : g[i] = Turn(g, f, mode, i)

\* From position s on the reader puts the entries of w and goes on at t.
PutsWrite(g, s, t, w) ==
  \E x \in Seq(Entries) : /\ g[s + 1].entries = x \o g[t + 1].entries
                          /\ x = w \/ (w = <<>> /\ x = <<EmptyEntry>>)

\* It puts the first n writes, and perhaps a part of the one after them.
PutsFirst(f, mode, ws, n) ==
  \E y, z \in Seq(Entries) :
    /\ ReadLogFile(f, mode).entries = y \o z
    /\ Same(y, First(ws, n))
    /\ \/ z = <<>>
       \/ /\ mode = "applyPartial" /\ n < Len(ws)
          /\ \E q \in 0..Len(ws[n + 1]) : z = SubSeq(ws[n + 1], 1, q)

\* A write that is all there is put as it was.
LEMMA ReadsWrite ==
  ASSUME NEW X, NEW f, Starts(f, X), NEW mode, NEW g, Turns(g, f, mode),
         NEW s \in Nat, NEW t \in Nat, NEW w \in Seq(Entry), IsWrite(X, s, t, w), t <= Len(f)
  PROVE  PutsWrite(g, s, t, w)
<1>1. Len(f) \in Nat /\ \A i \in 1..Len(f) : f[i] = X[i]
  BY DEF Starts
<1>2. w \in Seq(Entries) /\ <<EmptyEntry>> \in Seq(Entries) /\ Len(w) \in Nat
  BY DEF Entries
<1>3. CASE IsPut(X, s, t, w)
  <2>1. /\ t = s + 2 /\ Len(w) = 1 /\ s + 1 \in 1..Len(f) /\ s + 2 \in 1..Len(f)
        /\ s + 1 \in 1..(Len(f) + 3)
    BY <1>1, <1>3 DEF IsPut
  <2>2. f[s + 1] = KeyPart(w[1].key) /\ f[s + 2] = ValuePart(w[1].value)
    BY <1>1, <1>3, <2>1 DEF IsPut
  <2>3. EntryAt(f, s + 1) = w[1]
    <3>1. w[1] \in Entry /\ s + 1 + 1 = s + 2
      <4>1. 1 \in 1..Len(w)
        BY <2>1
      <4> QED BY <4>1
    <3>2. EntryAt(f, s + 1) = [key |-> w[1].key, value |-> w[1].value]
      BY <2>2, <3>1, PartsAre DEF EntryAt
    <3> QED BY <3>1, <3>2, EntryFields
  <2>4. f[s + 1].part # "count"
    BY <2>2, PartsAre
  <2>5. g[s + 1] = Then(g, <<EntryAt(f, s + 1)>>, s + 1 + 2)
    <3>1. g[s + 1] = Turn(g, f, mode, s + 1)
      BY <2>1 DEF Turns
    <3>2. ~(s + 1 > Len(f)) /\ ~(s + 1 + 1 > Len(f))
      BY <2>1, <1>1
    <3> QED BY <3>1, <3>2, <2>4 DEF Turn
  <2>6. g[s + 1].entries = <<w[1]>> \o g[t + 1].entries
    <3>1. s + 1 + 2 = t + 1
      BY <2>1
    <3> QED BY <2>3, <2>5, <3>1 DEF Then, Reads
  <2>7. <<w[1]>> = w
    BY <2>1
  <2>8. g[s + 1].entries = w \o g[t + 1].entries
    BY <2>6, <2>7
  <2> QED BY <1>2, <2>8 DEF PutsWrite
<1>4. CASE IsBatch(X, s, t, w)
  <2> DEFINE n == Len(w)
  <2>1. /\ t = s + 2 * n + 2 /\ s + 1 \in 1..Len(f) /\ t \in 1..Len(f) /\ n \in Nat
        /\ s + 1 \in 1..(Len(f) + 3)
    BY <1>1, <1>2, <1>4 DEF IsBatch
  <2>2. f[s + 1] = CountPart(n) /\ f[s + 1].part = "count" /\ f[s + 1].n = n
    BY <1>1, <1>4, <2>1, PartsAre DEF IsBatch
  <2>3. g[s + 1] = Turn(g, f, mode, s + 1)
    BY <2>1 DEF Turns
  <2>4. ~(s + 1 > Len(f)) /\ ~(s + 1 + 1 > Len(f))
    BY <2>1, <1>1
  <2>5. CASE n = 0
    <3>1. g[s + 1] = Then(g, <<EmptyEntry>>, s + 1 + 2)
      BY <2>2, <2>3, <2>4, <2>5 DEF Turn
    <3>2. s + 1 + 2 = t + 1
      BY <2>1, <2>5
    <3>3. w = <<>>
      BY <2>5
    <3>4. g[s + 1].entries = <<EmptyEntry>> \o g[t + 1].entries
      BY <3>1, <3>2 DEF Then, Reads
    <3> QED BY <3>3, <3>4, <1>2 DEF PutsWrite
  <2>6. CASE n > 0
    <3>1. \A j \in 1..n : /\ f[s + 2 * j] = KeyPart(w[j].key)
                          /\ f[s + 2 * j + 1] = ValuePart(w[j].value)
      <4> TAKE j \in 1..n
      <4>1. s + 2 * j \in 1..Len(f) /\ s + 2 * j + 1 \in 1..Len(f)
        BY <2>1, <1>1
      <4> QED BY <4>1, <1>1, <1>4 DEF IsBatch
    <3>2. BatchEntries(f, s + 2, n) = SubSeq(w, 1, n)
      <4>1. s + 1 + 2 * n <= Len(f) /\ n \in 0..Len(w)
        BY <2>1, <1>1
      <4>2. HoldsEntries(f, s, w, n)
        BY ONLY <3>1 DEF HoldsEntries
      <4>3. n = WholeEntries(f, s, w)
        BY <4>1 DEF WholeEntries
      <4>4. s \in Nat /\ w \in Seq(Entry) /\ Len(f) \in Nat
        BY <1>1
      <4>5. ReadsEntries(f, s, w, n)
        BY ONLY <4>1, <4>2, <4>3, <4>4, BatchIs
      <4> QED BY <4>5 DEF ReadsEntries
    <3>3. SubSeq(w, 1, n) = w
      OBVIOUS
    <3>4. s + 1 + 2 * n + 1 <= Len(f) /\ s + 1 + 2 * n + 2 = t + 1 /\ s + 1 + 1 = s + 2
      BY <2>1, <1>1
    <3>5. g[s + 1] = Then(g, w, t + 1)
      BY <2>2, <2>3, <2>4, <2>6, <3>2, <3>3, <3>4 DEF Turn
    <3>6. g[s + 1].entries = w \o g[t + 1].entries
      BY <3>5 DEF Then, Reads
    <3> QED BY <3>6, <1>2 DEF PutsWrite
  <2>7. n = 0 \/ n > 0
    BY <2>1
  <2> QED BY <2>5, <2>6, <2>7
<1> QED BY <1>3, <1>4 DEF IsWrite

\* Of a write that is not, nothing or some first entries are put.
LEMMA ReadsPart ==
  ASSUME NEW X, NEW f, Starts(f, X), NEW mode, NEW g, Turns(g, f, mode),
         NEW s \in Nat, NEW t \in Nat, NEW w \in Seq(Entry), IsWrite(X, s, t, w),
         s <= Len(f), Len(f) < t
  PROVE  \/ g[s + 1].entries = <<>>
         \/ mode = "applyPartial" /\ \E q \in 0..Len(w) : g[s + 1].entries = SubSeq(w, 1, q)
<1>1. Len(f) \in Nat /\ (\A i \in 1..Len(f) : f[i] = X[i]) /\ Len(w) \in Nat
  BY DEF Starts
<1>2. s + 1 \in 1..(Len(f) + 3)
  BY <1>1
<1>3. g[s + 1] = Turn(g, f, mode, s + 1)
  BY <1>2 DEF Turns
<1>4. CASE s = Len(f)
  <2>1. s + 1 > Len(f)
    BY <1>4
  <2> QED BY <1>3, <2>1 DEF Turn, End, Reads
<1>5. CASE s # Len(f)
  <2>1. s + 1 \in 1..Len(f) /\ ~(s + 1 > Len(f))
    BY <1>1, <1>5
  <2>2. CASE IsPut(X, s, t, w)
    <3>1. s + 1 + 1 > Len(f)
      BY <2>1, <2>2, <1>1 DEF IsPut
    <3>2. f[s + 1].part # "count"
      BY <1>1, <2>1, <2>2, PartsAre DEF IsPut
    <3> QED BY <1>3, <2>1, <3>1, <3>2 DEF Turn, End, Reads
  <2>3. CASE IsBatch(X, s, t, w)
    <3> DEFINE n == Len(w)
    <3>1. f[s + 1].part = "count" /\ f[s + 1].n = n /\ t = s + 2 * n + 2
      BY <1>1, <2>1, <2>3, PartsAre DEF IsBatch
    <3>2. CASE n = 0
      <4>1. s + 1 + 1 > Len(f)
        BY <2>1, <3>1, <3>2, <1>1
      <4> QED BY <1>3, <2>1, <3>1, <3>2, <4>1 DEF Turn, End, Reads
    <3>3. CASE n > 0
      <4>1. ~(s + 1 + 2 * n + 1 <= Len(f))
        BY <3>1, <1>1
      <4>2. g[s + 1].entries = PartialBatch(BatchEntries(f, s + 2, n), mode)
        <5>1. s + 1 + 1 = s + 2
          OBVIOUS
        <5> QED BY <1>3, <2>1, <3>1, <3>3, <4>1, <5>1 DEF Turn, Reads
      <4>3. CASE mode # "applyPartial"
        BY <4>2, <4>3 DEF PartialBatch
      <4>4. CASE mode = "applyPartial"
        <5> DEFINE q == IF s + 1 + 2 * Len(w) <= Len(f) THEN Len(w) ELSE (Len(f) - s - 1) \div 2
        <5>1. q \in 0..Len(w) /\ s + 2 * q + 1 <= Len(f)
          BY <1>1, <2>1, <3>1
        <5> HIDE DEF q
        <5>2. \A j \in 1..q : /\ f[s + 2 * j] = KeyPart(w[j].key)
                              /\ f[s + 2 * j + 1] = ValuePart(w[j].value)
          <6> TAKE j \in 1..q
          <6>1. s + 2 * j \in 1..Len(f) /\ s + 2 * j + 1 \in 1..Len(f) /\ j \in 1..Len(w)
            BY <5>1, <1>1
          <6>2. X[s + 2 * j] = KeyPart(w[j].key) /\ X[s + 2 * j + 1] = ValuePart(w[j].value)
            BY ONLY <2>3, <6>1 DEF IsBatch
          <6> QED BY ONLY <1>1, <6>1, <6>2
        <5>3. BatchEntries(f, s + 2, Len(w)) = SubSeq(w, 1, q)
          <6>1. q = WholeEntries(f, s, w)
            BY DEF q, WholeEntries
          <6>2. HoldsEntries(f, s, w, q)
            BY ONLY <5>2 DEF HoldsEntries
          <6>3. Len(f) \in Nat /\ q \in 0..Len(w)
            BY ONLY <1>1, <5>1
          <6>4. ReadsEntries(f, s, w, q)
            BY ONLY <6>1, <6>2, <6>3, s \in Nat, w \in Seq(Entry), BatchIs
          <6> QED BY ONLY <6>4 DEF ReadsEntries
        <5> QED BY <4>2, <4>4, <5>1, <5>3 DEF PartialBatch
      <4> QED BY <4>3, <4>4
    <3> QED BY <3>2, <3>3, <1>1
  <2> QED BY <2>2, <2>3 DEF IsWrite
<1> QED BY <1>4, <1>5

\* The first n writes are put, and perhaps a part of the one after them.
LEMMA ReadsFirst ==
  ASSUME NEW X, NEW ends, NEW ws \in Seq(Seq(Entry)), Whole(X, ends, ws),
         NEW f, Starts(f, X), NEW mode,
         NEW n \in 0..Len(ws), ends[n] <= Len(f), n < Len(ws) => Len(f) < ends[n + 1]
  PROVE  PutsFirst(f, mode, ws, n)
<1>0. Len(f) \in Nat /\ Counts(f)
  BY CountsOfStart DEF Starts
<1>1. PICK g : ReadLogFile(f, mode) = g[1] /\ Turns(g, f, mode)
  BY <1>0, ReadIs DEF Turns
<1> DEFINE z == g[ends[n] + 1].entries
<1>2. /\ z \in Seq(Entries)
      /\ \/ z = <<>>
         \/ /\ mode = "applyPartial" /\ n < Len(ws)
            /\ \E q \in 0..Len(ws[n + 1]) : z = SubSeq(ws[n + 1], 1, q)
  <2>1. CASE n = Len(ws)
    <3>1. ends[n] = Len(f)
      BY <2>1, <1>0 DEF Whole, Starts
    <3>2. Len(f) + 1 \in 1..(Len(f) + 3) /\ Len(f) + 1 > Len(f)
      BY <1>0
    <3>3. g[Len(f) + 1] = End(mode)
      BY <3>2, <1>1 DEF Turns, Turn
    <3>4. z = <<>>
      BY <3>1, <3>3 DEF End, Reads
    <3> QED BY <3>4
  <2>2. CASE n # Len(ws)
    <3> DEFINE k == n + 1
    <3>1. k \in 1..Len(ws) /\ k - 1 = n /\ n < Len(ws) /\ k \in 0..Len(ws)
      BY <2>2
    <3>2. Len(f) < ends[k]
      BY <3>1
    <3> HIDE DEF k
    <3>3. IsWrite(X, ends[n], ends[k], ws[k]) /\ ends[n] \in Nat /\ ends[k] \in Nat
      BY <3>1 DEF Whole
    <3>4. ws[k] \in Seq(Entry)
      BY <3>1
    <3> DEFINE s == ends[n]
               t == ends[k]
               w == ws[k]
    <3>5. s <= Len(f) /\ Len(f) < t /\ IsWrite(X, s, t, w) /\ s \in Nat /\ t \in Nat /\ w \in Seq(Entry)
      BY <3>2, <3>3, <3>4
    <3>6. z = g[s + 1].entries
      OBVIOUS
    <3> HIDE DEF z, s, t, w
    <3>7. \/ z = <<>>
          \/ mode = "applyPartial" /\ \E q \in 0..Len(w) : z = SubSeq(w, 1, q)
      BY <3>5, <3>6, <1>1, ReadsPart
    <3>8. \A q \in 0..Len(w) : SubSeq(w, 1, q) \in Seq(Entries)
      BY <3>5 DEF Entries
    <3>9. z \in Seq(Entries)
      <4>1. <<>> \in Seq(Entries)
        OBVIOUS
      <4> QED BY <4>1, <3>7, <3>8
    <3>10. w = ws[n + 1]
      BY DEF w, k
    <3> QED BY <3>1, <3>7, <3>9, <3>10
  <2> QED BY <2>1, <2>2
<1> HIDE DEF z
<1> DEFINE Good(i) == \E y \in Seq(Entries) :
              /\ g[ends[i] + 1].entries = y \o z
              /\ \A a \in Seq(Entries) : Same(a, First(ws, i)) => Same(a \o y, First(ws, n))
           S == {d \in Nat : d <= n => Good(n - d)}
<1>3. 0 \in S
  <2>1. \A a \in Seq(Entries) : a \o <<>> = a
    OBVIOUS
  <2>2. <<>> \in Seq(Entries) /\ <<>> \o z = z
    BY <1>2
  <2>3. g[ends[n] + 1].entries = <<>> \o z
    BY <2>2 DEF z
  <2> HIDE DEF Good
  <2>4. Good(n)
    BY <2>1, <2>2, <2>3 DEF Good
  <2>5. n - 0 = n
    OBVIOUS
  <2> QED BY <2>4, <2>5
<1>4. ASSUME NEW d \in S PROVE d + 1 \in S
  <2> HIDE DEF Good
  <2> SUFFICES ASSUME d + 1 <= n PROVE Good(n - (d + 1))
    OBVIOUS
  <2> DEFINE i == n - d
  <2>1. i \in 1..Len(ws) /\ i \in 0..Len(ws) /\ i - 1 = n - (d + 1) /\ i <= n /\ d <= n /\ n \in i..Len(ws)
        /\ i - 1 \in 0..Len(ws)
    <3>1. d \in Nat /\ n \in Nat /\ n <= Len(ws) /\ Len(ws) \in Nat
      OBVIOUS
    <3> QED BY <3>1
  <2> HIDE DEF Good
  <2>2. Good(i)
    BY <2>1
  <2> HIDE DEF i
  <2>3. PICK y \in Seq(Entries) :
          /\ g[ends[i] + 1].entries = y \o z
          /\ \A a \in Seq(Entries) : Same(a, First(ws, i)) => Same(a \o y, First(ws, n))
    BY <2>2 DEF Good
  <2>4. /\ IsWrite(X, ends[i - 1], ends[i], ws[i]) /\ ends[i] \in Nat /\ ends[i - 1] \in Nat
        /\ ws[i] \in Seq(Entry)
    <3>1. ws[i] \in Seq(Entry)
      BY <2>1
    <3> QED BY <3>1, <2>1 DEF Whole
  <2>5. ends[i] <= Len(f)
    <3>1. ends[i] <= ends[n] /\ ends[n] \in Nat
      BY <2>1, EndsGrow DEF Whole
    <3> QED BY <3>1, <2>4, <1>0
  <2>6. PICK x \in Seq(Entries) : /\ g[ends[i - 1] + 1].entries = x \o g[ends[i] + 1].entries
                                  /\ x = ws[i] \/ (ws[i] = <<>> /\ x = <<EmptyEntry>>)
    <3> DEFINE s == ends[i - 1]
               t == ends[i]
               w == ws[i]
    <3>1. IsWrite(X, s, t, w) /\ s \in Nat /\ t \in Nat /\ w \in Seq(Entry) /\ t <= Len(f)
      BY <2>4, <2>5
    <3> HIDE DEF s, t, w
    <3>2. PutsWrite(g, s, t, w)
      BY <3>1, <1>1, ReadsWrite
    <3> QED BY <3>2 DEF PutsWrite, s, t, w
  <2>7. g[ends[i - 1] + 1].entries = (x \o y) \o z
    <3>1. z \in Seq(Entries)
      BY <1>2
    <3>2. x \o (y \o z) = (x \o y) \o z
      BY <3>1
    <3>3. g[ends[i - 1] + 1].entries = x \o (y \o z)
      BY <2>3, <2>6
    <3> QED BY <3>2, <3>3
  <2>8. ASSUME NEW a \in Seq(Entries), Same(a, First(ws, i - 1))
        PROVE  Same(a \o (x \o y), First(ws, n))
    <3>1. First(ws, i - 1) \in Seq(Entries) /\ ws[i] \in Seq(Entries) /\ a \o x \in Seq(Entries)
      <4>1. First(ws, i - 1) \in Seq(Entry)
        BY <2>1, FirstType
      <4> QED BY <4>1, <2>4 DEF Entries
    <3>2. First(ws, i) = First(ws, i - 1) \o ws[i]
      BY <2>1, FirstStep
    <3>3. Same(a \o x, First(ws, i))
      <4>1. CASE x = ws[i]
        BY <4>1, <2>8, <3>1, <3>2, SameConcat
      <4>2. CASE ws[i] = <<>> /\ x = <<EmptyEntry>>
        <5>1. First(ws, i) = First(ws, i - 1)
          BY <4>2, <3>1, <3>2
        <5> QED BY <4>2, <5>1, <2>8, <3>1, SameWithEmpty
      <4> QED BY <4>1, <4>2, <2>6
    <3>4. Same((a \o x) \o y, First(ws, n))
      BY <3>1, <3>3, <2>3
    <3>5. (a \o x) \o y = a \o (x \o y)
      OBVIOUS
    <3> QED BY <3>4, <3>5
  <2>9. x \o y \in Seq(Entries)
    OBVIOUS
  <2>10. Good(i - 1)
    BY <2>7, <2>8, <2>9 DEF Good
  <2> QED BY <2>1, <2>10
<1>5. S \in SUBSET Nat
  OBVIOUS
<1> HIDE DEF S, Good
<1>6. n \in S
  <2>1. n \in Nat
    OBVIOUS
  <2> QED BY <2>1, <1>3, <1>4, <1>5, Induction
<1>7. Good(0)
  <2>1. n - n = 0 /\ n <= n
    OBVIOUS
  <2> QED BY <1>6, <2>1 DEF S
<1>8. PICK y \in Seq(Entries) :
        /\ g[ends[0] + 1].entries = y \o z
        /\ \A a \in Seq(Entries) : Same(a, First(ws, 0)) => Same(a \o y, First(ws, n))
  BY <1>7 DEF Good
<1>9. Same(y, First(ws, n))
  <2>1. <<>> \in Seq(Entries) /\ <<>> \o y = y /\ First(ws, 0) = <<>>
    BY FirstNone
  <2>2. Same(<<>>, <<>>)
    BY DEF Same
  <2>3. Same(<<>> \o y, First(ws, n))
    BY <2>1, <2>2, <1>8
  <2> QED BY <2>1, <2>3
<1>10. ReadLogFile(f, mode).entries = y \o z
  <2>1. ends[0] + 1 = 1
    BY DEF Whole
  <2> QED BY <2>1, <1>1, <1>8
<1> QED BY <1>2, <1>9, <1>10 DEF PutsFirst

\* A reader that discards partial batches puts the first writes, as many as are
\* all in the file.
LEMMA DiscardReads ==
  ASSUME NEW X, NEW ends, NEW ws \in Seq(Seq(Entry)), Whole(X, ends, ws),
         NEW f, Starts(f, X)
  PROVE  \E n \in 0..Len(ws) : /\ n < Len(ws) => Len(f) < ends[n + 1]
                               /\ ReadList(f, "discardPartial") = Kept(PutAll(EmptyList, First(ws, n)))
<1>1. Len(f) \in 0..Len(X)
  BY DEF Starts, Whole
<1>2. PICK n \in 0..Len(ws) : ends[n] <= Len(f) /\ (n < Len(ws) => Len(f) < ends[n + 1])
  BY <1>1, InAWrite
<1>3. PICK y \in Seq(Entries), z \in Seq(Entries) :
        /\ ReadLogFile(f, "discardPartial").entries = y \o z
        /\ Same(y, First(ws, n))
        /\ \/ z = <<>>
           \/ /\ "discardPartial" = "applyPartial" /\ n < Len(ws)
              /\ \E q \in 0..Len(ws[n + 1]) : z = SubSeq(ws[n + 1], 1, q)
  <2>1. PutsFirst(f, "discardPartial", ws, n)
    BY <1>2, ReadsFirst
  <2> QED BY <2>1 DEF PutsFirst
<1>4. ReadLogFile(f, "discardPartial").entries = y
  <2>1. z = <<>>
    BY ONLY <1>3
  <2>2. y \o <<>> = y
    BY ONLY y \in Seq(Entries)
  <2> QED BY ONLY <1>3, <2>1, <2>2
<1> QED BY <1>2, <1>3, <1>4 DEF ReadList, ReadAll, Same

\* What a sequence and some of the next one come to is the beginning of the whole.
BeginsWith(all, b) == Len(b) <= Len(all) /\ \A i \in 1..Len(b) : all[i] = b[i]

IsPrefixWith(all, a, c, q) ==
  /\ Len(a) + q \in Len(a)..Len(all)
  /\ a \o SubSeq(c, 1, q) = SubSeq(all, 1, Len(a) + q)

LEMMA JoinedPrefix ==
  ASSUME NEW V, NEW a \in Seq(V), NEW c \in Seq(V), NEW all \in Seq(V), NEW b, b = a \o c,
         BeginsWith(all, b), NEW q \in 0..Len(c)
  PROVE  IsPrefixWith(all, a, c, q)
<1> USE DEF BeginsWith
<1> DEFINE l == Len(a)
           m == Len(c)
           N == Len(all)
           z == SubSeq(c, 1, q)
           p == a \o z
           r == SubSeq(all, 1, l + q)
<1>1. l \in Nat /\ m \in Nat /\ N \in Nat /\ q \in 0..m
  OBVIOUS
<1>2. /\ Len(b) = l + m
      /\ \A i \in 1..l : b[i] = a[i]
      /\ \A i \in 1..m : b[l + i] = c[i]
  OBVIOUS
<1>3. z \in Seq(V) /\ Len(z) = q /\ \A i \in 1..q : z[i] = c[i]
  OBVIOUS
<1> HIDE DEF z
<1>4. /\ p \in Seq(V) /\ Len(p) = l + q
      /\ \A i \in 1..l : p[i] = a[i]
      /\ \A i \in 1..q : p[l + i] = z[i]
  <2>0. a \in Seq(V) /\ z \in Seq(V)
    BY <1>3
  <2>1. p \in Seq(V) /\ Len(p) = Len(a) + Len(z)
    BY ONLY <2>0
  <2>2. \A i \in 1..Len(a) : p[i] = a[i]
    BY ONLY <2>0
  <2>3. \A i \in 1..Len(z) : p[Len(a) + i] = z[i]
    BY ONLY <2>0
  <2> HIDE DEF p
  <2> QED BY ONLY <1>3, <2>1, <2>2, <2>3
<1> HIDE DEF l, m, N, p
<1>5. l + q \in l..N /\ l + q \in 0..N
  <2>1. Len(b) <= N
    BY DEF N
  <2> QED BY ONLY <1>1, <1>2, <2>1
<1>6. r \in Seq(V) /\ Len(r) = l + q /\ \A i \in 1..(l + q) : r[i] = all[i]
  BY ONLY <1>1, <1>5, all \in Seq(V) DEF N
<1> HIDE DEF r
<1>7. \A i \in 1..(l + q) : p[i] = r[i]
  <2> TAKE i \in 1..(l + q)
  <2>1. i \in 1..(l + m)
    BY ONLY <1>1, i \in 1..(l + q)
  <2>2. r[i] = b[i]
    BY <1>2, <1>6, <2>1
  <2>3. CASE i \in 1..l
    BY ONLY <1>2, <1>4, <2>2, <2>3
  <2>4. CASE i \notin 1..l
    <3> DEFINE j == i - l
    <3>1. j \in 1..q /\ j \in 1..m /\ l + j = i
      BY ONLY <1>1, <2>4, i \in 1..(l + q)
    <3> HIDE DEF j
    <3>2. p[i] = z[j] /\ z[j] = c[j] /\ b[i] = c[j]
      BY ONLY <1>2, <1>3, <1>4, <3>1
    <3> QED BY ONLY <2>2, <3>2
  <2> QED BY ONLY <2>3, <2>4
<1>8. p = r
  BY ONLY <1>4, <1>6, <1>7
<1> QED BY ONLY <1>5, <1>8 DEF l, N, p, r, z, IsPrefixWith

\* One that applies them puts the first entries.
LEMMA ApplyReads ==
  ASSUME NEW X, NEW ends, NEW ws \in Seq(Seq(Entry)), Whole(X, ends, ws),
         NEW f, Starts(f, X), NEW d \in 0..Len(ws), ends[d] <= Len(f)
  PROVE  \E n \in Len(First(ws, d))..Len(First(ws, Len(ws))) :
           ReadList(f, "applyPartial") = Kept(PutAll(EmptyList, SubSeq(First(ws, Len(ws)), 1, n)))
<1> DEFINE all == First(ws, Len(ws))
           mode == "applyPartial"
<1>1. Len(f) \in 0..Len(X) /\ Len(ws) \in 0..Len(ws) /\ Len(ws) \in Nat
  BY DEF Starts, Whole
<1>2. PICK n \in 0..Len(ws) : ends[n] <= Len(f) /\ (n < Len(ws) => Len(f) < ends[n + 1])
  BY <1>1, InAWrite
<1>3. PICK y \in Seq(Entries), z \in Seq(Entries) :
        /\ ReadLogFile(f, mode).entries = y \o z
        /\ Same(y, First(ws, n))
        /\ \/ z = <<>>
           \/ /\ mode = "applyPartial" /\ n < Len(ws)
              /\ \E q \in 0..Len(ws[n + 1]) : z = SubSeq(ws[n + 1], 1, q)
  <2>1. PutsFirst(f, mode, ws, n)
    BY <1>2, ReadsFirst
  <2> QED BY <2>1 DEF PutsFirst
<1>4. First(ws, n) \in Seq(Entries) /\ First(ws, d) \in Seq(Entries) /\ all \in Seq(Entries)
  <2>1. First(ws, n) \in Seq(Entry) /\ First(ws, d) \in Seq(Entry) /\ all \in Seq(Entry)
    BY <1>1, FirstType
  <2> QED BY <2>1 DEF Entries
<1>5. Same(y \o z, First(ws, n) \o z)
  BY <1>3, <1>4, SameConcat
<1>6. d <= n
  <2> SUFFICES ASSUME n < d PROVE FALSE
    OBVIOUS
  <2> DEFINE k == n + 1
  <2>1. k \in 0..Len(ws) /\ d \in k..Len(ws) /\ Len(f) < ends[k]
    BY <1>2
  <2> HIDE DEF k
  <2>2. ends[k] <= ends[d] /\ ends[k] \in Nat /\ ends[d] \in Nat
    BY <2>1, EndsGrow DEF Whole
  <2> QED BY <2>1, <2>2, <1>1
<1>7. Len(First(ws, d)) <= Len(First(ws, n))
  BY <1>6, FirstIsPrefix
<1>8. \E m \in Len(First(ws, n))..Len(all) : First(ws, n) \o z = SubSeq(all, 1, m)
  <2>1. CASE z = <<>>
    <3>1. First(ws, n) \o z = First(ws, n)
      BY <2>1, <1>4
    <3>2. /\ Len(First(ws, n)) <= Len(all)
          /\ \A i \in 1..Len(First(ws, n)) : all[i] = First(ws, n)[i]
      BY <1>1, FirstIsPrefix
    <3> DEFINE a == First(ws, n)
    <3> HIDE DEF all, a
    <3>3. a = SubSeq(all, 1, Len(a)) /\ Len(a) \in Len(a)..Len(all)
      BY <3>2, <1>4 DEF a
    <3> QED BY <3>1, <3>3 DEF a
  <2>2. ASSUME n < Len(ws), NEW q \in 0..Len(ws[n + 1]), z = SubSeq(ws[n + 1], 1, q)
        PROVE  \E m \in Len(First(ws, n))..Len(all) : First(ws, n) \o z = SubSeq(all, 1, m)
    <3> DEFINE k == n + 1
               a == First(ws, n)
               b == First(ws, k)
    <3>1. k \in 1..Len(ws) /\ k - 1 = n /\ k \in 0..Len(ws)
      BY <2>2
    <3>2. b = a \o ws[k]
      <4> HIDE DEF k
      <4> QED BY <3>1, FirstStep
    <3>3. Len(b) <= Len(all) /\ \A i \in 1..Len(b) : all[i] = b[i]
      <4> HIDE DEF k
      <4> QED BY <1>1, <3>1, FirstIsPrefix
    <3>4. z = SubSeq(ws[k], 1, q) /\ q \in 0..Len(ws[k]) /\ ws[k] \in Seq(Entry)
      BY <2>2, <3>1
    <3> HIDE DEF all, a, b, k
    <3>5. a \in Seq(Entries) /\ ws[k] \in Seq(Entries) /\ all \in Seq(Entries)
      BY <1>4, <3>4 DEF a, Entries
    <3>6. /\ Len(a) + q \in Len(a)..Len(all)
          /\ a \o z = SubSeq(all, 1, Len(a) + q)
      <4>1. /\ Len(a) + q \in Len(a)..Len(all)
            /\ a \o SubSeq(ws[k], 1, q) = SubSeq(all, 1, Len(a) + q)
        <5>1. BeginsWith(all, b)
          BY ONLY <3>3 DEF BeginsWith
        <5>2. IsPrefixWith(all, a, ws[k], q)
          BY ONLY <3>2, <3>4, <3>5, <5>1, JoinedPrefix
        <5> QED BY ONLY <5>2 DEF IsPrefixWith
      <4> QED BY ONLY <3>4, <4>1
    <3> QED BY <3>6 DEF a
  <2> QED BY <2>1, <2>2, <1>3
<1>9. PICK m \in Len(First(ws, n))..Len(all) : First(ws, n) \o z = SubSeq(all, 1, m)
  BY <1>8
<1>10. m \in Len(First(ws, d))..Len(all)
  BY <1>4, <1>7
<1>11. ReadList(f, mode) = Kept(PutAll(EmptyList, SubSeq(all, 1, m)))
  BY <1>3, <1>5, <1>9 DEF ReadList, ReadAll, Same
<1> HIDE DEF all
<1> QED BY <1>10, <1>11 DEF all

-----------------------------------------------------------------------------
\* Whole logs grow.

Part == {CountPart(n) : n \in Nat} \cup {KeyPart(k) : k \in Key} \cup {ValuePart(v) : v \in Value}

LEMMA WriteStays ==
  ASSUME NEW X, NEW Y, NEW s \in Nat, NEW t \in Nat, NEW w \in Seq(Entry), IsWrite(X, s, t, w),
         \A i \in 1..t : Y[i] = X[i]
  PROVE  IsWrite(Y, s, t, w)
<1>1. CASE IsPut(X, s, t, w)
  <2>1. s + 1 \in 1..t /\ s + 2 \in 1..t
    BY <1>1 DEF IsPut
  <2> QED BY <1>1, <2>1 DEF IsWrite, IsPut
<1>2. CASE IsBatch(X, s, t, w)
  <2>1. t = s + 2 * Len(w) + 2 /\ Len(w) \in Nat
    BY <1>2 DEF IsBatch
  <2>2. s + 1 \in 1..t /\ t \in 1..t
    BY <2>1
  <2>3. \A j \in 1..Len(w) : s + 2 * j \in 1..t /\ s + 2 * j + 1 \in 1..t
    BY <2>1
  <2>4. IsBatch(Y, s, t, w)
    BY <1>2, <2>2, <2>3 DEF IsBatch
  <2> QED BY <2>4 DEF IsWrite
<1> QED BY <1>1, <1>2 DEF IsWrite

EndsAnd(ends, n, t) == [i \in 0..(n + 1) |-> IF i = n + 1 THEN t ELSE ends[i]]

LEMMA WholeGrows ==
  ASSUME NEW X, NEW ends, NEW ws \in Seq(Seq(Entry)), Whole(X, ends, ws),
         NEW Y, Len(Y) \in Nat, Len(X) <= Len(Y), \A i \in 1..Len(X) : Y[i] = X[i],
         NEW w \in Seq(Entry), IsWrite(Y, Len(X), Len(Y), w)
  PROVE  Whole(Y, EndsAnd(ends, Len(ws), Len(Y)), Append(ws, w))
<1> DEFINE N == Len(ws)
           vs == Append(ws, w)
           e == EndsAnd(ends, Len(ws), Len(Y))
<1>1. /\ N \in Nat /\ Len(vs) = N + 1 /\ vs[N + 1] = w
      /\ \A i \in 1..N : vs[i] = ws[i] /\ ws[i] \in Seq(Entry)
  OBVIOUS
<1>2. /\ Len(X) \in Nat /\ ends \in [0..N -> Nat] /\ ends[0] = 0 /\ ends[N] = Len(X)
      /\ \A i \in 1..N : IsWrite(X, ends[i - 1], ends[i], ws[i])
  BY DEF Whole
<1>3. \A i \in 1..N : ends[i] <= Len(X)
  <2> TAKE i \in 1..N
  <2>1. i \in 0..N /\ N \in i..N
    BY <1>1
  <2>2. ends[i] <= ends[N]
    BY <2>1, EndsGrow
  <2> QED BY <2>2, <1>2
<1> HIDE DEF vs, N
<1>4. e = [i \in 0..(N + 1) |-> IF i = N + 1 THEN Len(Y) ELSE ends[i]]
  BY DEF EndsAnd, N
<1> HIDE DEF e
<1>5. e \in [0..(N + 1) -> Nat] /\ e[0] = 0 /\ e[N + 1] = Len(Y)
      /\ \A i \in 0..N : e[i] = ends[i]
  <2>1. \A i \in 0..(N + 1) : i # N + 1 => i \in 0..N
    BY <1>1
  <2>2. \A i \in 0..N : i # N + 1 /\ i \in 0..(N + 1)
    BY <1>1
  <2>3. 0 \in 0..N /\ N + 1 \in 0..(N + 1)
    BY <1>1
  <2> QED BY <1>2, <1>4, <2>1, <2>2, <2>3
<1>6. ASSUME NEW i \in 1..(N + 1) PROVE IsWrite(Y, e[i - 1], e[i], vs[i])
  <2>1. CASE i = N + 1
    <3>1. i - 1 = N /\ N \in 0..N
      BY <1>1, <2>1
    <3>2. e[i - 1] = Len(X) /\ e[i] = Len(Y) /\ vs[i] = w
      BY <1>1, <1>2, <1>5, <2>1, <3>1
    <3> QED BY <3>2
  <2>2. CASE i # N + 1
    <3>1. i \in 1..N /\ i - 1 \in 0..N /\ i \in 0..N
      BY <1>1, <2>2
    <3>2. IsWrite(X, ends[i - 1], ends[i], ws[i]) /\ ends[i - 1] \in Nat /\ ends[i] \in Nat
      BY <1>2, <3>1
    <3>3. \A j \in 1..ends[i] : Y[j] = X[j]
      <4> TAKE j \in 1..ends[i]
      <4>1. j \in 1..Len(X)
        BY <1>2, <1>3, <3>1, <3>2
      <4> QED BY <4>1
    <3>4. IsWrite(Y, ends[i - 1], ends[i], ws[i])
      BY <1>1, <3>1, <3>2, <3>3, WriteStays
    <3> QED BY <1>1, <1>5, <3>1, <3>4
  <2> QED BY <2>1, <2>2
<1> QED BY <1>1, <1>5, <1>6 DEF Whole, e, vs

LEMMA PartFacts ==
  /\ \A n \in Nat : CountPart(n) \in Part
  /\ \A e \in Entry : KeyPart(e.key) \in Part /\ ValuePart(e.value) \in Part /\ Parts(e) \in Seq(Part)
  /\ \A e \in Entry : Len(Parts(e)) = 2 /\ Parts(e)[1] = KeyPart(e.key) /\ Parts(e)[2] = ValuePart(e.value)
<1>1. \A e \in Entry : e.key \in Key /\ e.value \in Value
  BY DEF Entry
<1>2. \A e \in Entry : KeyPart(e.key) \in Part /\ ValuePart(e.value) \in Part
  BY <1>1 DEF Part
<1> QED BY <1>2 DEF Part, Parts

LEMMA PartsMore ==
  ASSUME NEW X \in Seq(Part), NEW ps \in Seq(Part)
  PROVE  /\ X \o ps \in Seq(Part) /\ Len(X \o ps) = Len(X) + Len(ps) /\ Len(X) \in Nat
         /\ \A i \in 1..Len(X) : (X \o ps)[i] = X[i]
         /\ \A i \in 1..Len(ps) : (X \o ps)[Len(X) + i] = ps[i]
OBVIOUS

\* The log of a put.
LEMMA WholePut ==
  ASSUME NEW X \in Seq(Part), NEW ends, NEW ws \in Seq(Seq(Entry)), Whole(X, ends, ws),
         NEW e \in Entry
  PROVE  /\ X \o Parts(e) \in Seq(Part) /\ Len(X \o Parts(e)) = Len(X) + 2
         /\ Whole(X \o Parts(e), EndsAnd(ends, Len(ws), Len(X) + 2), Append(ws, <<e>>))
<1> DEFINE Y == X \o Parts(e)
<1>1. /\ Y \in Seq(Part) /\ Len(Y) = Len(X) + 2 /\ Len(X) \in Nat
      /\ \A i \in 1..Len(X) : Y[i] = X[i]
      /\ Y[Len(X) + 1] = KeyPart(e.key) /\ Y[Len(X) + 2] = ValuePart(e.value)
  <2> DEFINE P == Parts(e)
  <2>1. P \in Seq(Part) /\ Len(P) = 2 /\ P[1] = KeyPart(e.key) /\ P[2] = ValuePart(e.value)
    BY PartFacts
  <2> HIDE DEF P
  <2>2. /\ X \o P \in Seq(Part) /\ Len(X \o P) = Len(X) + Len(P) /\ Len(X) \in Nat
        /\ \A i \in 1..Len(X) : (X \o P)[i] = X[i]
        /\ \A i \in 1..Len(P) : (X \o P)[Len(X) + i] = P[i]
    BY <2>1, PartsMore
  <2> QED BY <2>1, <2>2 DEF P
<1> HIDE DEF Y
<1>2. IsWrite(Y, Len(X), Len(Y), <<e>>)
  BY <1>1 DEF IsWrite, IsPut
<1>3. <<e>> \in Seq(Entry) /\ Len(X) <= Len(Y) /\ Len(Y) \in Nat
  BY <1>1
<1>4. Whole(Y, EndsAnd(ends, Len(ws), Len(Y)), Append(ws, <<e>>))
  BY <1>1, <1>2, <1>3, WholeGrows
<1> QED BY <1>1, <1>4 DEF Y

\* X and the log of a batch after it.
AndBatch(X, b) ==
  [p \in 1..(Len(X) + 2 * Len(b) + 2) |->
     IF p <= Len(X) THEN X[p]
     ELSE IF p = Len(X) + 1 \/ p = Len(X) + 2 * Len(b) + 2 THEN CountPart(Len(b))
     ELSE IF (p - Len(X)) % 2 = 0 THEN KeyPart(b[(p - Len(X)) \div 2].key)
     ELSE ValuePart(b[(p - Len(X)) \div 2].value)]

LEMMA WholeBatch ==
  ASSUME NEW X \in Seq(Part), NEW ends, NEW ws \in Seq(Seq(Entry)), Whole(X, ends, ws),
         NEW b \in Seq(Entry)
  PROVE  /\ AndBatch(X, b) \in Seq(Part)
         /\ Len(AndBatch(X, b)) = Len(X) + 2 * Len(b) + 2
         /\ \A i \in 1..Len(X) : AndBatch(X, b)[i] = X[i]
         /\ IsBatch(AndBatch(X, b), Len(X), Len(AndBatch(X, b)), b)
         /\ Whole(AndBatch(X, b), EndsAnd(ends, Len(ws), Len(AndBatch(X, b))), Append(ws, b))
<1> DEFINE Y == AndBatch(X, b)
           s == Len(X)
           n == Len(b)
           t == s + 2 * n + 2
<1>0. s \in Nat /\ n \in Nat /\ t \in Nat /\ (\A i \in 1..s : X[i] \in Part)
      /\ \A j \in 1..n : b[j] \in Entry
  OBVIOUS
<1>1. Y = [p \in 1..t |-> IF p <= s THEN X[p]
                         ELSE IF p = s + 1 \/ p = t THEN CountPart(n)
                         ELSE IF (p - s) % 2 = 0 THEN KeyPart(b[(p - s) \div 2].key)
                         ELSE ValuePart(b[(p - s) \div 2].value)]
  BY DEF AndBatch
<1> HIDE DEF Y, s, n
<1>2. \A p \in 1..t : Y[p] \in Part
  <2> TAKE p \in 1..t
  <2>1. CASE p <= s
    <3>1. p \in 1..s
      BY <2>1, <1>0
    <3> QED BY <2>1, <3>1, <1>0, <1>1
  <2>2. CASE ~(p <= s) /\ (p = s + 1 \/ p = t)
    BY <2>2, <1>0, <1>1, PartFacts
  <2>3. CASE ~(p <= s) /\ ~(p = s + 1 \/ p = t)
    <3>1. (p - s) \div 2 \in 1..n
      BY <2>3, <1>0
    <3>2. b[(p - s) \div 2] \in Entry
      BY <3>1, <1>0
    <3> QED BY <2>3, <3>2, <1>1, PartFacts
  <2> QED BY <2>1, <2>2, <2>3
<1>3. Y \in Seq(Part) /\ Len(Y) = t
  <2>1. Y = [p \in 1..t |-> Y[p]] /\ t \in Nat
    BY <1>0, <1>1
  <2>2. \A m \in Nat : \A S, f : f = [p \in 1..m |-> f[p]] /\ (\A p \in 1..m : f[p] \in S)
                            => f \in Seq(S) /\ Len(f) = m
    OBVIOUS
  <2> HIDE DEF t
  <2> QED BY <1>2, <2>1, <2>2
<1>4. \A i \in 1..s : Y[i] = X[i]
  <2> TAKE i \in 1..s
  <2>1. i \in 1..t /\ i <= s
    BY <1>0
  <2> QED BY <2>1, <1>1
<1>5. IsBatch(Y, s, t, b)
  <2>1. s + 1 \in 1..t /\ t \in 1..t /\ ~(s + 1 <= s) /\ ~(t <= s)
    BY <1>0
  <2>2. Y[s + 1] = CountPart(n) /\ Y[t] = CountPart(n)
    BY <2>1, <1>1
  <2>3. \A j \in 1..n : Y[s + 2 * j] = KeyPart(b[j].key) /\ Y[s + 2 * j + 1] = ValuePart(b[j].value)
    <3> TAKE j \in 1..n
    <3> DEFINE p == s + 2 * j
               q == s + 2 * j + 1
    <3>1. /\ p \in 1..t /\ ~(p <= s) /\ p # s + 1 /\ p # t
          /\ (p - s) % 2 = 0 /\ (p - s) \div 2 = j
      BY <1>0
    <3>2. /\ q \in 1..t /\ ~(q <= s) /\ q # s + 1 /\ q # t
          /\ (q - s) % 2 # 0 /\ (q - s) \div 2 = j
      BY <1>0
    <3> HIDE DEF p, q, t
    <3>3. Y[p] = KeyPart(b[j].key)
      BY <3>1, <1>1
    <3>4. Y[q] = ValuePart(b[j].value)
      BY <3>2, <1>1
    <3> QED BY <3>3, <3>4 DEF p, q
  <2> QED BY <2>2, <2>3 DEF IsBatch, n
<1>6. IsWrite(Y, Len(X), Len(Y), b) /\ Len(X) <= Len(Y) /\ Len(Y) \in Nat
  BY <1>0, <1>3, <1>5 DEF IsWrite, s
<1>7. Whole(Y, EndsAnd(ends, Len(ws), Len(Y)), Append(ws, b))
  BY <1>4, <1>6, WholeGrows DEF s
<1> QED BY <1>3, <1>4, <1>5, <1>7 DEF Y, s, n

-----------------------------------------------------------------------------
\* What is in the file and what is in the buffer.

LEMMA StartsOfLonger ==
  ASSUME NEW f, NEW X, NEW Y, Starts(f, X), Len(X) \in Nat, Len(Y) \in Nat, Len(X) <= Len(Y),
         \A i \in 1..Len(X) : Y[i] = X[i]
  PROVE  Starts(f, Y)
BY DEF Starts

\* The next parts of X reach the buffer.
LEMMA StreamGoesOn ==
  ASSUME NEW X \in Seq(Part), NEW f \in Seq(Part), NEW b \in Seq(Part), NEW ps \in Seq(Part),
         Starts(f \o b, X), Len(f \o b) + Len(ps) <= Len(X),
         \A i \in 1..Len(ps) : X[Len(f \o b) + i] = ps[i]
  PROVE  /\ b \o ps \in Seq(Part)
         /\ Starts(f \o (b \o ps), X)
         /\ Len(f \o (b \o ps)) = Len(f \o b) + Len(ps)
<1> DEFINE g == f \o b
<1>1. g \in Seq(Part) /\ f \o (b \o ps) = g \o ps /\ b \o ps \in Seq(Part)
  OBVIOUS
<1>2. Starts(g, X) /\ Len(g) + Len(ps) <= Len(X) /\ \A i \in 1..Len(ps) : X[Len(g) + i] = ps[i]
  OBVIOUS
<1> HIDE DEF g
<1>3. Len(g \o ps) = Len(g) + Len(ps) /\ Len(g) \in Nat /\ Len(ps) \in Nat
  BY <1>1
<1>4. ASSUME NEW i \in 1..Len(g \o ps) PROVE (g \o ps)[i] = X[i]
  <2>1. CASE i <= Len(g)
    <3>1. i \in 1..Len(g)
      BY <1>3, <2>1
    <3>2. (g \o ps)[i] = g[i]
      BY <1>1, <3>1
    <3> QED BY <1>2, <3>1, <3>2 DEF Starts
  <2>2. CASE ~(i <= Len(g))
    <3> DEFINE j == i - Len(g)
    <3>1. j \in 1..Len(ps) /\ i = Len(g) + j
      BY <1>3, <2>2
    <3> HIDE DEF j
    <3>2. (g \o ps)[i] = ps[j]
      BY <1>1, <3>1
    <3> QED BY <1>2, <3>1, <3>2
  <2> QED BY <2>1, <2>2
<1>5. Starts(g \o ps, X)
  BY <1>2, <1>3, <1>4 DEF Starts
<1> QED BY <1>1, <1>3, <1>5 DEF g

\* A flush that fails hands on some of the buffer.
LEMMA StartsInPart ==
  ASSUME NEW X, NEW f \in Seq(Part), NEW b \in Seq(Part), Starts(f \o b, X), NEW n \in 0..Len(b)
  PROVE  /\ f \o SubSeq(b, 1, n) \in Seq(Part)
         /\ Starts(f \o SubSeq(b, 1, n), X)
         /\ Len(f) <= Len(f \o SubSeq(b, 1, n))
<1> DEFINE c == SubSeq(b, 1, n)
<1>1. c \in Seq(Part) /\ Len(c) = n /\ Len(c) <= Len(b) /\ \A i \in 1..Len(c) : c[i] = b[i]
  OBVIOUS
<1> HIDE DEF c
<1>2. Len(f \o c) = Len(f) + Len(c) /\ Len(f \o b) = Len(f) + Len(b)
      /\ Len(f) \in Nat /\ Len(b) \in Nat /\ Len(c) \in Nat /\ f \o c \in Seq(Part)
  <2>1. Len(f \o c) = Len(f) + Len(c) /\ f \o c \in Seq(Part) /\ Len(c) \in Nat
    BY ONLY <1>1, f \in Seq(Part)
  <2>2. Len(f \o b) = Len(f) + Len(b) /\ Len(f) \in Nat /\ Len(b) \in Nat
    BY ONLY f \in Seq(Part), b \in Seq(Part)
  <2> QED BY ONLY <2>1, <2>2
<1>3. ASSUME NEW i \in 1..Len(f \o c) PROVE (f \o c)[i] = (f \o b)[i] /\ i \in 1..Len(f \o b)
  <2>1. i \in 1..Len(f \o b)
    BY <1>1, <1>2
  <2>2. CASE i <= Len(f)
    BY <1>1, <1>2, <2>2
  <2>3. CASE ~(i <= Len(f))
    <3> DEFINE j == i - Len(f)
    <3>1. j \in 1..Len(c) /\ j \in 1..Len(b) /\ i = Len(f) + j
      BY <1>1, <1>2, <2>3
    <3> HIDE DEF j
    <3>2. (f \o c)[i] = c[j] /\ (f \o b)[i] = b[j]
      BY <1>1, <3>1
    <3> QED BY <1>1, <2>1, <3>1, <3>2
  <2> QED BY <2>1, <2>2, <2>3
<1>4. Starts(f \o c, X)
  BY <1>1, <1>2, <1>3 DEF Starts
<1> QED BY <1>2, <1>4 DEF c

\* A batch of a call is a sequence of entries, of no more than the bound.
LEMMA BatchesAre ==
  ASSUME NEW b \in Batches
  PROVE  b \in Seq(Entry) /\ Len(b) <= MaxBatch
<1>1. PICK m \in 0..MaxBatch : b \in [1..m -> Entry]
  BY DEF Batches, BoundedSeq, SeqOf
<1> QED BY <1>1, LogFileAssumption

-----------------------------------------------------------------------------
\* The inductive invariant.

\* The parts that the write in progress has still to bring.
ToCome == IF call.pc = "batch" THEN 2 * (Len(call.entries) - call.done) + 1 ELSE 0

\* X is the log that the writes make up once the one in progress is done.
LogIs(X, ends) ==
  /\ X \in Seq(Part) /\ Whole(X, ends, written)
  /\ Starts(file, X)
  /\ log = "open" => ends[durable] <= Len(file)
  /\ ~bad => /\ Starts(file \o buffer, X)
             /\ Len(file \o buffer) + ToCome = Len(X)
             /\ call.pc = "batch" => /\ Len(written) # 0
                                     /\ call.entries = written[Len(written)]
                                     /\ IsBatch(X, ends[Len(written) - 1], Len(X), call.entries)

\* The file, and unless a flush has failed the buffer after it, are the front
\* of the log of the writes.
StreamHoldsTheWrites == \E X, ends : LogIs(X, ends)

\* The entries that have been put in the list.
Applied ==
  IF call.pc = "batch"
  THEN First(written, Len(written) - 1) \o SubSeq(call.entries, 1, call.done)
  ELSE First(written, Len(written))

ListHoldsTheWrites == ~bad => list = PutAll(EmptyList, Applied)

CallInv ==
  /\ call.pc = "flush" => ~bad
  /\ call.pc = "batch" => call.done <= Len(call.entries) /\ Len(call.entries) <= MaxBatch
  /\ log = "none" => written = <<>>
  /\ file \in Seq(Part) /\ buffer \in Seq(Part)

IInv == TypeOK /\ CallInv /\ StreamHoldsTheWrites /\ ListHoldsTheWrites

-----------------------------------------------------------------------------
\* The invariant holds.

LEMMA EmptyListType == EmptyList \in [Key \cup {EmptyKey} -> Value \cup {Absent}]
BY DEF EmptyList

LEMMA PutEntryType ==
  ASSUME NEW l \in [Key \cup {EmptyKey} -> Value \cup {Absent}], NEW e \in Entry
  PROVE  PutEntry(l, e) \in [Key \cup {EmptyKey} -> Value \cup {Absent}]
<1>1. e.value \in Value
  BY DEF Entry
<1> QED BY <1>1 DEF PutEntry

LEMMA InitHolds == Init => IInv
<1> SUFFICES ASSUME Init PROVE IInv
  OBVIOUS
<1>1. TypeOK
  <2>1. written \in Seq(Seq(Entry)) /\ Len(written) = 0
    BY DEF Init
  <2>2. call \in [pc : {"idle", "batch", "flush"}, entries : Seq(Entry), done : 0..MaxBatch]
    BY LogFileAssumption DEF Init, Idle
  <2>3. list \in [Key \cup {EmptyKey} -> Value \cup {Absent}]
    BY EmptyListType DEF Init
  <2>4. 0 \in 0..0 /\ 0 <= MaxWrites
    BY LogFileAssumption
  <2> QED BY <2>1, <2>2, <2>3, <2>4 DEF Init, TypeOK
<1>2. CallInv
  BY DEF Init, CallInv, Idle
<1>3. StreamHoldsTheWrites
  <2> DEFINE X == <<>>
             ends == [i \in 0..0 |-> 0]
  <2>1. Len(<<>>) = 0 /\ Len(<<>> \o <<>>) = 0 /\ <<>> \in Seq(Part)
    OBVIOUS
  <2>2. Whole(X, ends, written)
    BY <2>1 DEF Init, Whole
  <2>3. Starts(<<>>, X) /\ Starts(<<>> \o <<>>, X)
    BY <2>1 DEF Starts
  <2>4. LogIs(X, ends)
    BY <2>1, <2>2, <2>3 DEF Init, LogIs, ToCome, Idle
  <2> QED BY <2>4 DEF StreamHoldsTheWrites
<1>4. ListHoldsTheWrites
  <2>1. written \in Seq(Seq(Entry)) /\ Len(written) = 0
    BY DEF Init
  <2>2. First(written, Len(written)) = <<>>
    BY <2>1, FirstNone
  <2> QED BY <2>2, PutAllNothing DEF Init, Idle, ListHoldsTheWrites, Applied
<1> QED BY <1>1, <1>2, <1>3, <1>4 DEF IInv

\* The entries of the writes before w, with those of w.
LEMMA AppendedEntries ==
  ASSUME NEW ws \in Seq(Seq(Entry)), NEW w \in Seq(Entry)
  PROVE  /\ Append(ws, w) \in Seq(Seq(Entry)) /\ Len(Append(ws, w)) = Len(ws) + 1
         /\ Append(ws, w)[Len(ws) + 1] = w
         /\ First(Append(ws, w), Len(ws)) = First(ws, Len(ws))
         /\ First(Append(ws, w), Len(ws) + 1) = First(ws, Len(ws)) \o w
<1> DEFINE vs == Append(ws, w)
           n == Len(ws) + 1
<1>1. vs \in Seq(Seq(Entry)) /\ Len(vs) = Len(ws) + 1 /\ vs[n] = w /\ Len(ws) \in 0..Len(ws)
  OBVIOUS
<1>2. First(vs, Len(ws)) = First(ws, Len(ws))
  BY <1>1, FirstOfAppend
<1>3. n \in 1..Len(vs) /\ n - 1 = Len(ws)
  BY <1>1
<1> HIDE DEF vs, n
<1>4. First(vs, n) = First(vs, n - 1) \o vs[n]
  BY <1>1, <1>3, FirstStep
<1> QED BY <1>1, <1>2, <1>3, <1>4 DEF vs, n

LEMMA EntriesOf ==
  ASSUME NEW s \in Seq(Entry)
  PROVE  s \in Seq(Entries)
BY DEF Entries

\* A put of one entry after the entries s.
LEMMA PutAfter ==
  ASSUME NEW s \in Seq(Entry), NEW e \in Entry
  PROVE  PutAll(EmptyList, s \o <<e>>) = ListPut(PutAll(EmptyList, s), e)
<1>1. s \in Seq(Entries) /\ e \in Entries /\ s \o <<e>> = Append(s, e)
  BY DEF Entries
<1>2. PutAll(EmptyList, Append(s, e)) = PutEntry(PutAll(EmptyList, s), e)
  BY <1>1, PutAllAppend
<1> QED BY <1>1, <1>2 DEF ListPut

LEMMA PutType ==
  ASSUME TypeOK, CallInv, NEW e \in Entry, Put(e)
  PROVE  TypeOK' /\ CallInv'
<1>1. log' # "none" /\ log' \in {"open", "noFile"} /\ (bad => log' = "open")
  BY DEF Put, MaybeCreateLogFile, TypeOK
<1>2. written' \in Seq(Seq(Entry)) /\ Len(written') <= MaxWrites /\ durable' \in 0..Len(written')
  <2>1. written \in Seq(Seq(Entry)) /\ Len(written) <= MaxWrites /\ durable \in 0..Len(written)
        /\ Len(written) < MaxWrites /\ durable' = durable /\ MaxWrites \in Nat
    BY LogFileAssumption DEF Put, TypeOK
  <2>2. written' = written \/ written' = Append(written, <<e>>)
    BY DEF Put, Reaches
  <2>3. CASE written' = written
    BY <2>1, <2>3
  <2>4. CASE written' = Append(written, <<e>>)
    <3>1. <<e>> \in Seq(Entry)
      OBVIOUS
    <3>2. written' \in Seq(Seq(Entry)) /\ Len(written') = Len(written) + 1
      BY <2>1, <2>4, <3>1, AppendedEntries
    <3> QED BY <2>1, <3>2
  <2> QED BY <2>2, <2>3, <2>4
<1>3. buffer' \in Seq(Part)
  BY PartFacts, PartsMore DEF Put, Stream, CallInv
<1>4. list' \in [Key \cup {EmptyKey} -> Value \cup {Absent}]
  BY PutEntryType DEF Put, ListPut, TypeOK
<1>5. /\ call' \in [pc : {"idle", "batch", "flush"}, entries : Seq(Entry), done : 0..MaxBatch]
      /\ call'.pc # "batch" /\ (call'.pc = "flush" => ~bad)
  <2>1. Idle \in [pc : {"idle", "batch", "flush"}, entries : Seq(Entry), done : 0..MaxBatch]
    BY LogFileAssumption DEF Idle
  <2>2. call' = Idle \/ (call' = [Idle EXCEPT !.pc = "flush"] /\ ~bad)
    BY DEF Put, WillFlush
  <2> QED BY <2>1, <2>2 DEF Idle
<1> QED BY <1>1, <1>2, <1>3, <1>4, <1>5 DEF Put, TypeOK, CallInv

LEMMA PutList ==
  ASSUME TypeOK, ListHoldsTheWrites, NEW e \in Entry, Put(e)
  PROVE  ListHoldsTheWrites'
<1> SUFFICES ASSUME ~bad PROVE list' = PutAll(EmptyList, Applied')
  BY DEF Put, ListHoldsTheWrites
<1>1. /\ list = PutAll(EmptyList, First(written, Len(written)))
      /\ list' = ListPut(list, e) /\ written' = Append(written, <<e>>) /\ call'.pc # "batch"
  BY DEF Put, Reaches, ListHoldsTheWrites, Applied, Idle, WillFlush
<1>2. written \in Seq(Seq(Entry)) /\ <<e>> \in Seq(Entry) /\ Len(written) \in 0..Len(written)
  BY DEF TypeOK
<1>3. First(written', Len(written')) = First(written, Len(written)) \o <<e>>
  BY <1>1, <1>2, AppendedEntries
<1>4. First(written, Len(written)) \in Seq(Entry)
  BY <1>2, FirstType
<1>5. PutAll(EmptyList, First(written', Len(written'))) = list'
  BY <1>1, <1>3, <1>4, PutAfter
<1>6. Applied' = First(written', Len(written'))
  BY <1>1 DEF Applied
<1> QED BY <1>5, <1>6

LEMMA PutStream ==
  ASSUME TypeOK, CallInv, StreamHoldsTheWrites, NEW e \in Entry, Put(e)
  PROVE  StreamHoldsTheWrites'
<1>0. PICK X, ends : LogIs(X, ends)
  BY DEF StreamHoldsTheWrites
<1>1. /\ X \in Seq(Part) /\ Whole(X, ends, written) /\ Starts(file, X) /\ Len(X) \in Nat
      /\ file' = file /\ bad' = bad /\ durable' = durable /\ call'.pc # "batch" /\ ToCome' = 0
      /\ written \in Seq(Seq(Entry)) /\ durable \in 0..Len(written) /\ Len(file) \in Nat
      /\ file \in Seq(Part) /\ buffer \in Seq(Part)
  BY <1>0 DEF Put, LogIs, Idle, WillFlush, ToCome, TypeOK, CallInv, Starts, Whole
<1>2. ends[durable] <= Len(file) \/ (log # "open" /\ log # "none")
  <2>1. CASE log = "none"
    <3>1. written = <<>> /\ durable = 0 /\ ends[0] = 0
      BY <1>1, <2>1 DEF CallInv, Whole
    <3> QED BY <1>1, <3>1
  <2> QED BY <1>0, <2>1 DEF LogIs
<1>3. log' = "open" => ends[durable] <= Len(file)
  BY <1>2 DEF Put, MaybeCreateLogFile
<1>4. CASE bad
  <2>1. written' = written /\ buffer' = buffer
    BY <1>4 DEF Put, Reaches, Stream
  <2>2. LogIs(X, ends)'
    BY <1>1, <1>3, <1>4, <2>1 DEF LogIs
  <2> QED BY <2>2 DEF StreamHoldsTheWrites
<1>5. CASE ~bad
  <2> DEFINE P == Parts(e)
             Y == X \o P
             t == Len(X) + 2
             newEnds == EndsAnd(ends, Len(written), t)
  <2>1. written' = Append(written, <<e>>) /\ buffer' = buffer \o P
    BY <1>5 DEF Put, Reaches, Stream
  <2>2. Y \in Seq(Part) /\ Len(Y) = t /\ Whole(Y, newEnds, written')
    BY <1>1, <2>1, WholePut
  <2>3. P \in Seq(Part) /\ Len(P) = 2
    BY PartFacts
  <2> HIDE DEF P
  <2>4. (\A i \in 1..Len(X) : Y[i] = X[i]) /\ \A i \in 1..Len(P) : Y[Len(X) + i] = P[i]
    BY <1>1, <2>3, PartsMore
  <2> HIDE DEF Y
  <2>5. Starts(file \o buffer, X) /\ Len(file \o buffer) = Len(X)
    <3>1. ToCome = 0
      BY DEF Put, ToCome
    <3>2. Len(file \o buffer) + 0 = Len(X) /\ Starts(file \o buffer, X) /\ Len(file \o buffer) \in Nat
      BY <1>0, <1>5, <3>1 DEF LogIs, Starts
    <3> QED BY <3>2
  <2>6. Starts(file, Y) /\ Starts(file \o buffer, Y)
    <3>1. Len(Y) \in Nat /\ Len(X) <= Len(Y)
      BY <1>1, <2>2
    <3> QED BY <1>1, <2>4, <2>5, <3>1, StartsOfLonger
  <2>7. Len(file \o buffer) + Len(P) <= Len(Y) /\ \A i \in 1..Len(P) : Y[Len(file \o buffer) + i] = P[i]
    BY <1>1, <2>2, <2>3, <2>4, <2>5
  <2>8. Starts(file \o buffer', Y) /\ Len(file \o buffer') = Len(Y)
    <3>1. P \in Seq(Part) /\ Y \in Seq(Part) /\ file \in Seq(Part) /\ buffer \in Seq(Part)
      BY <1>1, <2>2, <2>3
    <3>2. Starts(file \o (buffer \o P), Y) /\ Len(file \o (buffer \o P)) = Len(file \o buffer) + Len(P)
      BY <2>6, <2>7, <3>1, StreamGoesOn
    <3> QED BY <2>1, <2>2, <2>3, <2>5, <3>2
  <2>9. newEnds[durable] = ends[durable]
    BY <1>1 DEF EndsAnd
  <2> HIDE DEF newEnds
  <2>10. PICK d : d = newEnds
    OBVIOUS
  <2>11. LogIs(Y, d)'
    <3>1. Len(file' \o buffer') + ToCome' = Len(Y)
      BY <1>1, <2>2, <2>8
    <3> QED BY <1>1, <1>3, <1>5, <2>2, <2>6, <2>8, <2>9, <2>10, <3>1 DEF LogIs
  <2> QED BY <2>11 DEF StreamHoldsTheWrites
<1> QED BY <1>4, <1>5

LEMMA StartBatchType ==
  ASSUME TypeOK, CallInv, NEW b \in Batches, StartBatch(b)
  PROVE  TypeOK' /\ CallInv'
<1>0. b \in Seq(Entry) /\ Len(b) <= MaxBatch /\ Len(b) \in Nat
  BY BatchesAre
<1>1. log' # "none" /\ log' \in {"open", "noFile"} /\ (bad => log' = "open")
  BY DEF StartBatch, MaybeCreateLogFile, TypeOK
<1>2. written' \in Seq(Seq(Entry)) /\ Len(written') <= MaxWrites /\ durable' \in 0..Len(written')
  <2>1. written \in Seq(Seq(Entry)) /\ Len(written) <= MaxWrites /\ durable \in 0..Len(written)
        /\ Len(written) < MaxWrites /\ durable' = durable /\ MaxWrites \in Nat
    BY LogFileAssumption DEF StartBatch, TypeOK
  <2>2. written' = written \/ written' = Append(written, b)
    BY DEF StartBatch, Reaches
  <2>3. CASE written' = written
    BY <2>1, <2>3
  <2>4. CASE written' = Append(written, b)
    <3>1. written' \in Seq(Seq(Entry)) /\ Len(written') = Len(written) + 1
      BY <1>0, <2>1, <2>4, AppendedEntries
    <3> QED BY <2>1, <3>1
  <2> QED BY <2>2, <2>3, <2>4
<1>3. buffer' \in Seq(Part)
  <2>1. <<CountPart(Len(b))>> \in Seq(Part)
    BY <1>0, PartFacts
  <2> QED BY <2>1, PartsMore DEF StartBatch, Stream, CallInv
<1>4. /\ call' \in [pc : {"idle", "batch", "flush"}, entries : Seq(Entry), done : 0..MaxBatch]
      /\ call'.pc = "batch" /\ call'.done <= Len(call'.entries) /\ Len(call'.entries) <= MaxBatch
  <2>1. call' = [pc |-> "batch", entries |-> b, done |-> 0]
    BY DEF StartBatch
  <2> QED BY <1>0, <2>1, LogFileAssumption
<1> QED BY <1>1, <1>2, <1>3, <1>4 DEF StartBatch, TypeOK, CallInv

LEMMA StartBatchList ==
  ASSUME TypeOK, ListHoldsTheWrites, NEW b \in Batches, StartBatch(b)
  PROVE  ListHoldsTheWrites'
<1> SUFFICES ASSUME ~bad PROVE list' = PutAll(EmptyList, Applied')
  BY DEF StartBatch, ListHoldsTheWrites
<1>1. /\ list = PutAll(EmptyList, First(written, Len(written)))
      /\ list' = list /\ written' = Append(written, b)
      /\ call'.pc = "batch" /\ call'.done = 0 /\ call'.entries = b
  BY DEF StartBatch, Reaches, ListHoldsTheWrites, Applied
<1>2. written \in Seq(Seq(Entry)) /\ b \in Seq(Entry) /\ Len(written) \in 0..Len(written)
  BY BatchesAre DEF TypeOK
<1>3. Len(written') - 1 = Len(written) /\ First(written', Len(written)) = First(written, Len(written))
  <2>1. Len(written') = Len(written) + 1 /\ First(written', Len(written)) = First(written, Len(written))
    BY <1>1, <1>2, AppendedEntries
  <2> QED BY <1>2, <2>1
<1>4. First(written, Len(written)) \in Seq(Entry)
  BY <1>2, FirstType
<1>5. SubSeq(b, 1, 0) = <<>> /\ First(written, Len(written)) \o <<>> = First(written, Len(written))
  BY <1>2, <1>4
<1>6. Applied' = First(written, Len(written))
  BY <1>1, <1>3, <1>5 DEF Applied
<1> QED BY <1>1, <1>6

LEMMA StartBatchStream ==
  ASSUME TypeOK, CallInv, StreamHoldsTheWrites, NEW b \in Batches, StartBatch(b)
  PROVE  StreamHoldsTheWrites'
<1>0. PICK X, ends : LogIs(X, ends)
  BY DEF StreamHoldsTheWrites
<1>1. /\ X \in Seq(Part) /\ Whole(X, ends, written) /\ Starts(file, X) /\ Len(X) \in Nat
      /\ file' = file /\ bad' = bad /\ durable' = durable
      /\ written \in Seq(Seq(Entry)) /\ durable \in 0..Len(written) /\ Len(file) \in Nat
      /\ file \in Seq(Part) /\ buffer \in Seq(Part)
  BY <1>0 DEF StartBatch, LogIs, TypeOK, CallInv, Starts, Whole
<1>2. ends[durable] <= Len(file) \/ (log # "open" /\ log # "none")
  <2>1. CASE log = "none"
    <3>1. written = <<>> /\ durable = 0 /\ ends[0] = 0
      BY <1>1, <2>1 DEF CallInv, Whole
    <3> QED BY <1>1, <3>1
  <2> QED BY <1>0, <2>1 DEF LogIs
<1>3. log' = "open" => ends[durable] <= Len(file)
  BY <1>2 DEF StartBatch, MaybeCreateLogFile
<1>4. CASE bad
  <2>1. written' = written /\ buffer' = buffer
    BY <1>4 DEF StartBatch, Reaches, Stream
  <2>2. LogIs(X, ends)'
    BY <1>1, <1>3, <1>4, <2>1 DEF LogIs
  <2> QED BY <2>2 DEF StreamHoldsTheWrites
<1>5. CASE ~bad
  <2>0. b \in Seq(Entry) /\ Len(b) \in Nat
    BY BatchesAre
  <2> DEFINE C == <<CountPart(Len(b))>>
             Y == AndBatch(X, b)
             newEnds == EndsAnd(ends, Len(written), Len(Y))
  <2>1. /\ written' = Append(written, b) /\ buffer' = buffer \o C
        /\ call' = [pc |-> "batch", entries |-> b, done |-> 0]
    BY <1>5 DEF StartBatch, Reaches, Stream
  <2>2. /\ Y \in Seq(Part) /\ Len(Y) = Len(X) + 2 * Len(b) + 2 /\ Whole(Y, newEnds, written')
        /\ (\A i \in 1..Len(X) : Y[i] = X[i]) /\ IsBatch(Y, Len(X), Len(Y), b)
    BY <1>1, <2>0, <2>1, WholeBatch
  <2>3. C \in Seq(Part) /\ Len(C) = 1 /\ \A i \in 1..Len(C) : C[i] = Y[Len(X) + i]
    <3>1. CountPart(Len(b)) \in Part
      BY <2>0, PartFacts
    <3>2. Y[Len(X) + 1] = CountPart(Len(b))
      BY <2>2 DEF IsBatch
    <3> QED BY <3>1, <3>2
  <2> HIDE DEF C, Y
  <2>4. Starts(file \o buffer, X) /\ Len(file \o buffer) = Len(X)
    <3>1. ToCome = 0
      BY DEF StartBatch, ToCome
    <3>2. Len(file \o buffer) + 0 = Len(X) /\ Starts(file \o buffer, X) /\ Len(file \o buffer) \in Nat
      BY <1>0, <1>5, <3>1 DEF LogIs, Starts
    <3> QED BY <3>2
  <2>5. Len(Y) \in Nat /\ Len(X) + 1 <= Len(Y) /\ Len(X) <= Len(Y)
    BY <1>1, <2>0, <2>2
  <2>6. Starts(file, Y) /\ Starts(file \o buffer, Y)
    BY <1>1, <2>2, <2>4, <2>5, StartsOfLonger
  <2>7. Len(file \o buffer) + Len(C) <= Len(Y) /\ \A i \in 1..Len(C) : Y[Len(file \o buffer) + i] = C[i]
    BY <2>3, <2>4, <2>5
  <2>8. Starts(file \o buffer', Y) /\ Len(file \o buffer') = Len(X) + 1
    <3>1. C \in Seq(Part) /\ Y \in Seq(Part) /\ file \in Seq(Part) /\ buffer \in Seq(Part)
      BY <1>1, <2>2, <2>3
    <3>2. Starts(file \o (buffer \o C), Y) /\ Len(file \o (buffer \o C)) = Len(file \o buffer) + Len(C)
      BY <2>6, <2>7, <3>1, StreamGoesOn
    <3> QED BY <2>1, <2>3, <2>4, <3>2
  <2>9. newEnds[durable] = ends[durable] /\ newEnds[Len(written)] = Len(X)
    <3>1. ends[Len(written)] = Len(X)
      BY <1>1 DEF Whole
    <3>2. \A i \in 0..Len(written) : newEnds[i] = ends[i]
      BY <1>1 DEF EndsAnd
    <3>3. durable \in 0..Len(written) /\ Len(written) \in 0..Len(written)
      BY <1>1
    <3> HIDE DEF newEnds
    <3> QED BY <3>1, <3>2, <3>3
  <2>10. Len(written') = Len(written) + 1 /\ Len(written) \in Nat /\ written'[Len(written')] = b
         /\ Len(written') # 0 /\ Len(written') - 1 = Len(written)
    <3>1. Len(written') = Len(written) + 1 /\ Len(written) \in Nat /\ written'[Len(written) + 1] = b
      BY <1>1, <2>0, <2>1, AppendedEntries
    <3> QED BY <3>1
  <2>11. ToCome' = 2 * Len(b) + 1
    BY <2>0, <2>1 DEF ToCome
  <2> HIDE DEF newEnds
  <2>12. PICK d : d = newEnds
    OBVIOUS
  <2>13. LogIs(Y, d)'
    <3>1. Len(file' \o buffer') + ToCome' = Len(Y)
      BY <1>1, <2>0, <2>2, <2>8, <2>11
    <3>2. IsBatch(Y, d[Len(written') - 1], Len(Y), call'.entries) /\ call'.entries = written'[Len(written')]
      BY <2>1, <2>2, <2>9, <2>10, <2>12
    <3> QED BY <1>1, <1>3, <1>5, <2>2, <2>6, <2>8, <2>9, <2>10, <2>12, <3>1, <3>2 DEF LogIs, Y
  <2> QED BY <2>13 DEF StreamHoldsTheWrites
<1> QED BY <1>4, <1>5

LEMMA OneMoreAfter ==
  ASSUME NEW F \in Seq(Entry), NEW s \in Seq(Entry), NEW e \in Entry
  PROVE  F \o s \in Seq(Entry) /\ F \o (s \o <<e>>) = (F \o s) \o <<e>>
OBVIOUS

\* The entry that BatchEntry puts is the one that the log has next.
LEMMA BatchEntryType ==
  ASSUME TypeOK, CallInv, BatchEntry
  PROVE  TypeOK' /\ CallInv'
<1> DEFINE e == call.entries[call.done + 1]
<1>1. /\ call.entries \in Seq(Entry) /\ call.done \in 0..MaxBatch /\ call.done < Len(call.entries)
      /\ Len(call.entries) <= MaxBatch /\ call.pc = "batch" /\ MaxBatch \in Nat
  BY LogFileAssumption DEF BatchEntry, TypeOK, CallInv
<1>2. call.done + 1 \in 1..Len(call.entries) /\ call.done + 1 \in 0..MaxBatch
  BY <1>1
<1>3. e \in Entry
  BY <1>1, <1>2
<1>4. call' = [call EXCEPT !.done = call.done + 1]
  BY DEF BatchEntry
<1>5. /\ call' \in [pc : {"idle", "batch", "flush"}, entries : Seq(Entry), done : 0..MaxBatch]
      /\ call'.pc = "batch" /\ call'.done = call.done + 1 /\ call'.entries = call.entries
  BY <1>2, <1>4, <1>1 DEF TypeOK
<1>6. list' = ListPut(list, e) /\ (buffer' = buffer \/ buffer' = buffer \o Parts(e))
  BY DEF BatchEntry, Stream
<1> HIDE DEF e
<1>7. list' \in [Key \cup {EmptyKey} -> Value \cup {Absent}]
  BY <1>3, <1>6, PutEntryType DEF ListPut, TypeOK
<1>8. buffer' \in Seq(Part)
  BY <1>3, <1>6, PartFacts, PartsMore DEF CallInv
<1>9. call'.done <= Len(call'.entries) /\ Len(call'.entries) <= MaxBatch
  BY <1>1, <1>5
<1> QED BY <1>5, <1>7, <1>8, <1>9 DEF BatchEntry, TypeOK, CallInv

LEMMA BatchEntryList ==
  ASSUME TypeOK, CallInv, StreamHoldsTheWrites, ListHoldsTheWrites, BatchEntry
  PROVE  ListHoldsTheWrites'
<1> SUFFICES ASSUME ~bad PROVE list' = PutAll(EmptyList, Applied')
  BY DEF BatchEntry, ListHoldsTheWrites
<1> DEFINE s == call.entries
           n == call.done
           e == s[n + 1]
           F == First(written, Len(written) - 1)
<1>1. s \in Seq(Entry) /\ n \in Nat /\ n < Len(s) /\ call.pc = "batch"
  BY DEF BatchEntry, TypeOK
<1>2. list = PutAll(EmptyList, F \o SubSeq(s, 1, n)) /\ list' = ListPut(list, e)
  BY DEF BatchEntry, ListHoldsTheWrites, Applied
<1>3. written' = written /\ call'.pc = "batch" /\ call'.done = n + 1 /\ call'.entries = s
  BY DEF BatchEntry, TypeOK
<1>4. Applied' = F \o SubSeq(s, 1, n + 1)
  BY <1>3 DEF Applied
<1>5. F \in Seq(Entry)
  <2>1. Len(written) # 0
    BY <1>1 DEF StreamHoldsTheWrites, LogIs
  <2>2. written \in Seq(Seq(Entry)) /\ Len(written) - 1 \in 0..Len(written)
    BY <2>1 DEF TypeOK
  <2> QED BY <2>2, FirstType
<1> HIDE DEF s, n, F
<1>6. SubSeq(s, 1, n) \in Seq(Entry) /\ e \in Entry /\ SubSeq(s, 1, n + 1) = SubSeq(s, 1, n) \o <<e>>
  BY <1>1
<1>7. F \o SubSeq(s, 1, n) \in Seq(Entry)
      /\ F \o SubSeq(s, 1, n + 1) = (F \o SubSeq(s, 1, n)) \o <<e>>
  BY <1>5, <1>6, OneMoreAfter
<1> HIDE DEF e
<1>8. PutAll(EmptyList, (F \o SubSeq(s, 1, n)) \o <<e>>) = ListPut(PutAll(EmptyList, F \o SubSeq(s, 1, n)), e)
  BY <1>6, <1>7, PutAfter
<1> QED BY <1>2, <1>4, <1>7, <1>8

LEMMA BatchEntryStream ==
  ASSUME TypeOK, CallInv, StreamHoldsTheWrites, BatchEntry
  PROVE  StreamHoldsTheWrites'
<1>0. PICK X, ends : LogIs(X, ends)
  BY DEF StreamHoldsTheWrites
<1> DEFINE s == call.entries
           n == call.done
           e == s[n + 1]
           P == Parts(e)
<1>1. /\ X \in Seq(Part) /\ Whole(X, ends, written) /\ Starts(file, X) /\ Len(X) \in Nat
      /\ file' = file /\ bad' = bad /\ durable' = durable /\ written' = written /\ log' = log
      /\ (log = "open" => ends[durable] <= Len(file))
      /\ file \in Seq(Part) /\ buffer \in Seq(Part)
  BY <1>0 DEF BatchEntry, LogIs, CallInv, Whole
<1>2. s \in Seq(Entry) /\ n \in Nat /\ n < Len(s) /\ Len(s) \in Nat /\ call.pc = "batch"
  BY DEF BatchEntry, TypeOK
<1>3. call'.pc = "batch" /\ call'.done = n + 1 /\ call'.entries = s
  BY DEF BatchEntry, TypeOK
<1>4. CASE bad
  <2>1. buffer' = buffer
    BY <1>4 DEF BatchEntry, Stream
  <2>2. LogIs(X, ends)'
    BY <1>1, <1>4, <2>1 DEF LogIs
  <2> QED BY <2>2 DEF StreamHoldsTheWrites
<1>5. CASE ~bad
  <2> DEFINE g == file \o buffer
             p == ends[Len(written) - 1]
  <2>1. buffer' = buffer \o P
    BY <1>5 DEF BatchEntry, Stream
  <2>2. /\ Starts(g, X) /\ Len(g) + ToCome = Len(X)
        /\ Len(written) # 0 /\ s = written[Len(written)] /\ IsBatch(X, p, Len(X), s)
    BY <1>0, <1>2, <1>5 DEF LogIs
  <2>3. ToCome = 2 * (Len(s) - n) + 1 /\ ToCome' = 2 * (Len(s) - (n + 1)) + 1
    BY <1>2, <1>3 DEF ToCome
  <2>4. Len(g) \in Nat
    BY <2>2 DEF Starts
  <2>5. p \in Nat
    <3>1. Len(written) - 1 \in 0..Len(written)
      BY <2>2 DEF TypeOK
    <3> QED BY <1>1, <3>1 DEF Whole
  <2>6. e \in Entry
    BY <1>2
  <2>7. X[p + 2 * (n + 1)] = KeyPart(e.key) /\ X[p + 2 * (n + 1) + 1] = ValuePart(e.value)
        /\ Len(X) = p + 2 * Len(s) + 2
    <3>1. n + 1 \in 1..Len(s)
      BY <1>2
    <3> QED BY <2>2, <3>1 DEF IsBatch
  <2> HIDE DEF s, n, e, p, g
  <2>8. Len(g) + 1 = p + 2 * (n + 1) /\ Len(g) + 2 = p + 2 * (n + 1) + 1
        /\ Len(g) + 2 <= Len(X) /\ Len(g) + 2 + ToCome' = Len(X)
    <3> DEFINE l == Len(s)
               k == Len(g)
               x == Len(X)
    <3>1. /\ l \in Nat /\ n \in Nat /\ n < l /\ k \in Nat /\ p \in Nat /\ x = p + 2 * l + 2
          /\ k + (2 * (l - n) + 1) = x /\ ToCome' = 2 * (l - (n + 1)) + 1
      BY <1>2, <2>2, <2>3, <2>4, <2>5, <2>7
    <3> HIDE DEF l, k, x
    <3>2. k + 1 = p + 2 * (n + 1) /\ k + 2 = p + 2 * (n + 1) + 1 /\ k + 2 <= x /\ k + 2 + ToCome' = x
      BY <3>1
    <3> QED BY <3>2 DEF k, x
  <2>9. P \in Seq(Part) /\ Len(P) = 2 /\ P[1] = X[Len(g) + 1] /\ P[2] = X[Len(g) + 2]
    BY <2>6, <2>7, <2>8, PartFacts
  <2> HIDE DEF P
  <2>10. (\A i \in 1..Len(P) : X[Len(g) + i] = P[i]) /\ Len(g) + Len(P) <= Len(X)
    BY <2>8, <2>9
  <2>11. Starts(file \o buffer', X) /\ Len(file \o buffer') = Len(g) + Len(P)
    <3>1. Starts(file \o (buffer \o P), X) /\ Len(file \o (buffer \o P)) = Len(file \o buffer) + Len(P)
      <4>1. P \in Seq(Part) /\ X \in Seq(Part) /\ file \in Seq(Part) /\ buffer \in Seq(Part)
        BY <1>1, <2>9
      <4>2. /\ Starts(file \o buffer, X) /\ Len(file \o buffer) + Len(P) <= Len(X)
            /\ \A i \in 1..Len(P) : X[Len(file \o buffer) + i] = P[i]
        BY <2>2, <2>10 DEF g
      <4> QED BY <4>1, <4>2, StreamGoesOn
    <3> QED BY <2>1, <3>1 DEF g
  <2>12. Len(file \o buffer') + ToCome' = Len(X)
    BY <2>8, <2>9, <2>11
  <2>13. LogIs(X, ends)'
    BY <1>1, <1>3, <1>5, <2>2, <2>11, <2>12 DEF LogIs, p
  <2> QED BY <2>13 DEF StreamHoldsTheWrites
<1> QED BY <1>4, <1>5

LEMMA EndBatchHolds ==
  ASSUME TypeOK, CallInv, StreamHoldsTheWrites, ListHoldsTheWrites, EndBatch
  PROVE  TypeOK' /\ CallInv' /\ StreamHoldsTheWrites' /\ ListHoldsTheWrites'
<1>0. PICK X, ends : LogIs(X, ends)
  BY DEF StreamHoldsTheWrites
<1> DEFINE s == call.entries
           N == Len(written)
           C == EndCount(Len(s))
<1>1. /\ s \in Seq(Entry) /\ Len(s) \in Nat /\ call.pc = "batch" /\ call.done = Len(s)
      /\ written' = written /\ log' = log /\ file' = file /\ durable' = durable /\ list' = list
      /\ bad' = bad /\ disableFlush' = disableFlush
      /\ written \in Seq(Seq(Entry)) /\ file \in Seq(Part) /\ buffer \in Seq(Part) /\ N \in Nat
  BY DEF EndBatch, TypeOK, CallInv
<1>2. /\ call' \in [pc : {"idle", "batch", "flush"}, entries : Seq(Entry), done : 0..MaxBatch]
      /\ call'.pc # "batch" /\ (call'.pc = "flush" => ~bad)
  <2>1. Idle \in [pc : {"idle", "batch", "flush"}, entries : Seq(Entry), done : 0..MaxBatch]
    BY LogFileAssumption DEF Idle
  <2>2. call' = Idle \/ (call' = [Idle EXCEPT !.pc = "flush"] /\ ~bad)
    BY DEF EndBatch, WillFlush
  <2> QED BY <2>1, <2>2 DEF Idle
<1>3. C \in Seq(Part) /\ Len(C) = 1 /\ C[1] = CountPart(Len(s))
  BY <1>1, PartFacts DEF EndCount
<1>4. buffer' = buffer \/ buffer' = buffer \o C
  BY DEF EndBatch, Stream
<1> HIDE DEF C
<1>5. buffer' \in Seq(Part)
  BY <1>1, <1>3, <1>4, PartsMore
<1>6. TypeOK' /\ CallInv'
  BY <1>1, <1>2, <1>5 DEF TypeOK, CallInv
<1>7. ListHoldsTheWrites'
  <2> SUFFICES ASSUME ~bad PROVE list = PutAll(EmptyList, Applied')
    BY <1>1 DEF ListHoldsTheWrites
  <2>1. list = PutAll(EmptyList, First(written, N - 1) \o SubSeq(s, 1, Len(s)))
    BY <1>1 DEF ListHoldsTheWrites, Applied
  <2>2. N # 0 /\ s = written[N]
    BY <1>0, <1>1 DEF LogIs
  <2>3. N \in 1..Len(written) /\ SubSeq(s, 1, Len(s)) = s
    BY <1>1, <2>2
  <2>4. Applied' = First(written, N)
    BY <1>1, <1>2 DEF Applied
  <2> HIDE DEF s, N
  <2>5. First(written, N) = First(written, N - 1) \o s
    BY <1>1, <2>2, <2>3, FirstStep
  <2> QED BY <2>1, <2>3, <2>4, <2>5
<1>8. CASE bad
  <2>1. buffer' = buffer
    BY <1>8 DEF EndBatch, Stream
  <2>2. LogIs(X, ends)'
    BY <1>0, <1>1, <1>8, <2>1 DEF LogIs
  <2> QED BY <1>6, <1>7, <2>2 DEF StreamHoldsTheWrites
<1>9. CASE ~bad
  <2>1. buffer' = buffer \o C
    BY <1>9 DEF EndBatch, Stream, C
  <2>2. /\ X \in Seq(Part) /\ Whole(X, ends, written) /\ Starts(file, X) /\ Len(X) \in Nat
        /\ (log = "open" => ends[durable] <= Len(file)) /\ Starts(file \o buffer, X)
        /\ Len(file \o buffer) \in Nat /\ Len(file \o buffer) + ToCome = Len(X)
        /\ IsBatch(X, ends[N - 1], Len(X), s)
    BY <1>0, <1>1, <1>9 DEF LogIs, Starts, Whole
  <2>3. ToCome = 1 /\ ToCome' = 0
    BY <1>1, <1>2 DEF ToCome
  <2>4. Len(file \o buffer) + 1 = Len(X) /\ X[Len(X)] = CountPart(Len(s))
    BY <2>2, <2>3 DEF IsBatch
  <2> HIDE DEF s, N
  <2>5. (\A i \in 1..Len(C) : X[Len(file \o buffer) + i] = C[i]) /\ Len(file \o buffer) + Len(C) <= Len(X)
    BY <1>3, <2>4, <2>2
  <2>6. Starts(file \o (buffer \o C), X) /\ Len(file \o (buffer \o C)) = Len(file \o buffer) + Len(C)
    <3>1. C \in Seq(Part) /\ X \in Seq(Part) /\ file \in Seq(Part) /\ buffer \in Seq(Part)
      BY <1>1, <1>3, <2>2
    <3>2. Starts(file \o buffer, X)
      BY <2>2
    <3>3. /\ Len(file \o buffer) + Len(C) <= Len(X)
          /\ \A i \in 1..Len(C) : X[Len(file \o buffer) + i] = C[i]
      BY <2>5
    <3> QED BY <3>1, <3>2, <3>3, StreamGoesOn
  <2>7. Starts(file \o buffer', X) /\ Len(file \o buffer') + ToCome' = Len(X)
    BY <1>3, <2>1, <2>2, <2>3, <2>4, <2>6
  <2>8. LogIs(X, ends)'
    BY <1>1, <1>2, <2>2, <2>7 DEF LogIs
  <2> QED BY <1>6, <1>7, <2>8 DEF StreamHoldsTheWrites
<1> QED BY <1>8, <1>9

LEMMA FlushHolds ==
  ASSUME TypeOK, CallInv, StreamHoldsTheWrites, ListHoldsTheWrites, Flush
  PROVE  TypeOK' /\ CallInv' /\ StreamHoldsTheWrites' /\ ListHoldsTheWrites'
<1>0. PICK X, ends : LogIs(X, ends)
  BY DEF StreamHoldsTheWrites
<1>1. /\ call.pc = "flush" /\ ~bad /\ written' = written /\ log' = log /\ list' = list
      /\ bad' = bad /\ disableFlush' = disableFlush /\ durable' = Len(written) /\ call' = Idle
      /\ written \in Seq(Seq(Entry)) /\ Len(written) \in Nat
      /\ file \in Seq(Part) /\ buffer \in Seq(Part)
  BY DEF Flush, TypeOK, CallInv
<1>2. /\ call' \in [pc : {"idle", "batch", "flush"}, entries : Seq(Entry), done : 0..MaxBatch]
      /\ call'.pc = "idle"
  BY <1>1, LogFileAssumption DEF Idle
<1>3. \/ log = "open" /\ file' = file \o buffer /\ buffer' = <<>>
      \/ log # "open" /\ file' = file /\ buffer' = buffer
  BY DEF Flush, HasFile, AfterFlush
<1>4. file' \in Seq(Part) /\ buffer' \in Seq(Part) /\ file' \o buffer' = file \o buffer
  <2>1. file \o buffer \in Seq(Part) /\ (file \o buffer) \o <<>> = file \o buffer
    BY <1>1
  <2>2. <<>> \in Seq(Part)
    OBVIOUS
  <2> DEFINE fb == file \o buffer
  <2>3. CASE file' = fb /\ buffer' = <<>>
    BY <2>1, <2>2, <2>3
  <2>4. CASE file' = file /\ buffer' = buffer
    BY <1>1, <2>4
  <2> HIDE DEF fb
  <2> QED BY <1>3, <2>3, <2>4 DEF fb
<1>5. TypeOK'
  BY <1>1, <1>2 DEF TypeOK
<1>6. CallInv'
  BY <1>1, <1>2, <1>4 DEF CallInv
<1>7. ListHoldsTheWrites'
  <2>1. Applied' = Applied
    BY <1>1, <1>2 DEF Applied
  <2> QED BY <1>1, <2>1 DEF ListHoldsTheWrites
<1>8. LogIs(X, ends)'
  <2>1. /\ X \in Seq(Part) /\ Whole(X, ends, written) /\ Starts(file, X)
        /\ Starts(file \o buffer, X) /\ Len(file \o buffer) + ToCome = Len(X)
        /\ ends[Len(written)] = Len(X) /\ Len(file \o buffer) \in Nat
    BY <1>0, <1>1 DEF LogIs, Whole, Starts
  <2>2. ToCome = 0 /\ ToCome' = 0
    BY <1>1, <1>2 DEF ToCome
  <2>3. Len(file \o buffer) = Len(X) /\ Len(file' \o buffer') + ToCome' = Len(X)
    BY <1>4, <2>1, <2>2
  <2>4. Starts(file' \o buffer', X) /\ Starts(file', X)
    BY <1>3, <1>4, <2>1
  <2>5. log' = "open" => ends[durable'] <= Len(file')
    <3>1. CASE log = "open"
      BY <1>1, <1>3, <2>1, <2>3, <3>1
    <3> QED BY <1>1, <3>1
  <2> QED BY <1>1, <1>2, <2>1, <2>3, <2>4, <2>5 DEF LogIs
<1> QED BY <1>5, <1>6, <1>7, <1>8 DEF StreamHoldsTheWrites

LEMMA FlushFailsHolds ==
  ASSUME TypeOK, CallInv, StreamHoldsTheWrites, ListHoldsTheWrites, FlushFails
  PROVE  TypeOK' /\ CallInv' /\ StreamHoldsTheWrites' /\ ListHoldsTheWrites'
<1>0. PICK X, ends : LogIs(X, ends)
  BY DEF StreamHoldsTheWrites
<1>1. /\ call.pc = "flush" /\ ~bad /\ log = "open" /\ written' = written /\ log' = log /\ list' = list
      /\ bad' = TRUE /\ disableFlush' = disableFlush /\ durable' = durable /\ call' = Idle
      /\ buffer' = buffer
      /\ written \in Seq(Seq(Entry)) /\ durable \in 0..Len(written)
      /\ file \in Seq(Part) /\ buffer \in Seq(Part)
  BY DEF FlushFails, HasFile, TypeOK, CallInv
<1>2. /\ call' \in [pc : {"idle", "batch", "flush"}, entries : Seq(Entry), done : 0..MaxBatch]
      /\ call'.pc = "idle"
  BY <1>1, LogFileAssumption DEF Idle
<1>3. PICK n \in 0..(Len(buffer) - 1) : file' = file \o SubSeq(buffer, 1, n)
  BY DEF FlushFails
<1>4. n \in 0..Len(buffer)
  BY <1>1
<1>5. /\ X \in Seq(Part) /\ Whole(X, ends, written) /\ ends[durable] <= Len(file)
      /\ Starts(file \o buffer, X) /\ ends[durable] \in Nat
  BY <1>0, <1>1 DEF LogIs, Whole
<1>6. file' \in Seq(Part) /\ Starts(file', X) /\ Len(file) <= Len(file')
  BY <1>1, <1>3, <1>4, <1>5, StartsInPart
<1>7. Len(file) \in Nat /\ Len(file') \in Nat
  BY <1>1, <1>6
<1>8. LogIs(X, ends)'
  <2>1. ends[durable'] <= Len(file')
    BY <1>1, <1>5, <1>6, <1>7
  <2> QED BY <1>1, <1>5, <1>6, <2>1 DEF LogIs
<1>9. TypeOK'
  BY <1>1, <1>2 DEF TypeOK
<1>10. CallInv'
  BY <1>1, <1>2, <1>6 DEF CallInv
<1>11. ListHoldsTheWrites'
  BY <1>1 DEF ListHoldsTheWrites
<1> QED BY <1>8, <1>9, <1>10, <1>11 DEF StreamHoldsTheWrites

LEMMA StepHolds == IInv /\ [Next]_vars => IInv'
<1> SUFFICES ASSUME TypeOK, CallInv, StreamHoldsTheWrites, ListHoldsTheWrites, [Next]_vars
             PROVE  TypeOK' /\ CallInv' /\ StreamHoldsTheWrites' /\ ListHoldsTheWrites'
  BY DEF IInv
<1>1. ASSUME NEW e \in Entry, Put(e) PROVE TypeOK' /\ CallInv' /\ StreamHoldsTheWrites' /\ ListHoldsTheWrites'
  BY <1>1, PutType, PutList, PutStream
<1>2. ASSUME NEW b \in Batches, StartBatch(b)
      PROVE  TypeOK' /\ CallInv' /\ StreamHoldsTheWrites' /\ ListHoldsTheWrites'
  BY <1>2, StartBatchType, StartBatchList, StartBatchStream
<1>3. CASE BatchEntry
  BY <1>3, BatchEntryType, BatchEntryList, BatchEntryStream
<1>4. CASE EndBatch
  BY <1>4, EndBatchHolds
<1>5. CASE Flush
  BY <1>5, FlushHolds
<1>6. CASE FlushFails
  BY <1>6, FlushFailsHolds
<1>7. CASE UNCHANGED vars
  <2>1. ASSUME NEW X, NEW ends, LogIs(X, ends) PROVE LogIs(X, ends)'
    BY <1>7, <2>1 DEF vars, LogIs, ToCome
  <2>2. StreamHoldsTheWrites'
    BY <2>1 DEF StreamHoldsTheWrites
  <2> QED BY <1>7, <2>2 DEF vars, TypeOK, CallInv, ListHoldsTheWrites, Applied
<1> QED BY <1>1, <1>2, <1>3, <1>4, <1>5, <1>6, <1>7 DEF Next

\* The invariant is inductive: the file and the buffer are the start of what the writes
\* that reached the stream become, and the list is what they put (MemorySegment::put
\* and ::write, LogFile::endBatch, FdFileBuf::sync).
THEOREM LogInvariance == Spec => []IInv
<1>1. Init => IInv
  BY InitHolds
<1>2. IInv /\ [Next]_vars => IInv'
  BY StepHolds
<1> QED BY <1>1, <1>2, PTL DEF Spec

\* The invariant keeps a log whole up to its end: what a reader of it puts.
LEMMA ReadsWhole ==
  ASSUME IInv, log = "open"
  PROVE  \E n \in durable..Len(written) :
           ReadList(file, "discardPartial") = Kept(PutAll(EmptyList, First(written, n)))
<1>1. PICK X, ends : LogIs(X, ends)
  BY DEF IInv, StreamHoldsTheWrites
<1>2. /\ Whole(X, ends, written) /\ Starts(file, X) /\ ends[durable] <= Len(file)
      /\ written \in Seq(Seq(Entry)) /\ durable \in 0..Len(written) /\ Len(file) \in Nat
  BY <1>1 DEF LogIs, IInv, TypeOK, Starts
<1>3. PICK n \in 0..Len(written) :
        /\ n < Len(written) => Len(file) < ends[n + 1]
        /\ ReadList(file, "discardPartial") = Kept(PutAll(EmptyList, First(written, n)))
  BY <1>2, DiscardReads
<1>4. n >= durable
  <2> SUFFICES ASSUME n < durable PROVE FALSE
    BY <1>2
  <2> DEFINE k == n + 1
  <2>1. k \in 0..Len(written) /\ durable \in k..Len(written) /\ n < Len(written)
    BY <1>2
  <2>2. Len(file) < ends[k]
    BY <1>3, <2>1
  <2> HIDE DEF k
  <2>3. ends[k] <= ends[durable] /\ ends[k] \in Nat /\ ends[durable] \in Nat
    BY <1>2, <2>1, EndsGrow DEF Whole
  <2> QED BY <1>2, <2>2, <2>3
<1> QED BY <1>2, <1>3, <1>4

\* The types of the variables: no more writes count as flushed than were written, and
\* a stream is bad only when its file was opened (FdFileBuf, MemorySegment).
THEOREM TypeCorrect == Spec => []TypeOK
BY LogInvariance, PTL DEF IInv

\* Reading a log up to where it stops, whole writes only: what is put is a prefix of
\* the writes that has at least those the last flush included (readLogFile with
\* DiscardPartial).
THEOREM DiscardKeeps == Spec => []DiscardKeepsWholeWrites
<1>1. IInv => DiscardKeepsWholeWrites
  BY ReadsWhole DEF DiscardKeepsWholeWrites, Reached, First
<1> QED BY <1>1, LogInvariance, PTL

\* Reading a log up to where it stops, entry by entry: what is put is a prefix of the
\* entries that has at least those the last flush included (readLogFile with
\* ApplyPartial).
THEOREM ApplyKeeps == Spec => []ApplyKeepsAPrefix
<1>1. IInv => ApplyKeepsAPrefix
  <2> SUFFICES ASSUME IInv, log = "open"
               PROVE  \E n \in Len(First(written, durable))..Len(First(written, Len(written))) :
                        ReadList(file, "applyPartial")
                          = Kept(PutAll(EmptyList, SubSeq(First(written, Len(written)), 1, n)))
    BY DEF ApplyKeepsAPrefix, Reached, First
  <2>1. PICK X, ends : LogIs(X, ends)
    BY DEF IInv, StreamHoldsTheWrites
  <2>2. /\ Whole(X, ends, written) /\ Starts(file, X) /\ ends[durable] <= Len(file)
        /\ written \in Seq(Seq(Entry)) /\ durable \in 0..Len(written)
    BY <2>1 DEF LogIs, IInv, TypeOK
  <2> QED BY <2>2, ApplyReads
<1> QED BY <1>1, LogInvariance, PTL

\* A log that has been flushed reads as the list in memory (MemorySegment::put and
\* ::write, readLogFile).
THEOREM LogIsTheList == Spec => []LogHoldsTheList
<1>1. IInv => LogHoldsTheList
  <2> SUFFICES ASSUME IInv, call.pc = "idle", log = "open", ~bad, durable = Len(written)
               PROVE  ReadList(file, "discardPartial") = Kept(list)
    BY DEF LogHoldsTheList
  <2>1. PICK n \in durable..Len(written) :
          ReadList(file, "discardPartial") = Kept(PutAll(EmptyList, First(written, n)))
    BY ReadsWhole
  <2>2. n = Len(written)
    BY DEF IInv, TypeOK
  <2>3. list = PutAll(EmptyList, First(written, Len(written)))
    BY DEF IInv, ListHoldsTheWrites, Applied
  <2> QED BY <2>1, <2>2, <2>3
<1> QED BY <1>1, LogInvariance, PTL
=============================================================================
