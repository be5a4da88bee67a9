-------------------------- MODULE SegmentFilesProofs --------------------------
(***************************************************************************)
(* Proofs about SegmentFiles and KeyFile, for all keys, values, sizes and  *)
(* stacks of segments: what the key files hold and how they are laid out,  *)
(* what iterations hand out, what gets find and when calls fail.           *)
(*                                                                         *)
(* Keys compare as the sequences of bytes they are: LessIs and LessOrder   *)
(* make Slice::less a total order.  Recursive functions and folds of       *)
(* KeyFile (the decoded keys of a block, its length, the search for a      *)
(* block) are shown to exist and to be unique by Induction over sets of    *)
(* numbers.  Then a file is followed as it is written (FileOK, WriteAdds), *)
(* an iterator by what it has still to return (Due, PeekIs, NextOfIs), and *)
(* the invariant IInv ties what is collected to what is due.               *)
(***************************************************************************)
EXTENDS SegmentFiles, TLAPS, WellFoundedInduction, FiniteSetTheorems

-----------------------------------------------------------------------------
\* Natural numbers.

\* The least-number principle, for a set instead of a predicate.
LEMMA Least ==
  ASSUME NEW M \in SUBSET Nat, M # {}
  PROVE  \E n \in M : \A m \in M : n <= m
<1>1. PICK n \in M : \A m \in M : ~(<<m, n>> \in OpToRel(<, Nat))
  BY WFMin, NatLessThanWellFounded
<1>2. \A m \in M : ~(m < n)
  BY <1>1 DEF OpToRel
<1> QED BY <1>2

\* Induction, for a set instead of a predicate.
LEMMA Induction ==
  ASSUME NEW M \in SUBSET Nat, 0 \in M, \A n \in M : n + 1 \in M
  PROVE  M = Nat
<1> SUFFICES ASSUME Nat \ M # {} PROVE FALSE
  OBVIOUS
<1>1. PICK n \in Nat \ M : \A m \in Nat \ M : n <= m
  BY Least
<1>2. n - 1 \in Nat /\ n - 1 \notin Nat \ M
  BY <1>1
<1> QED BY <1>2

\* A set of positions has a greatest one.
LEMMA Greatest ==
  ASSUME NEW n \in Nat, NEW T \in SUBSET (0..n), T # {}
  PROVE  Max(T) \in T /\ \A i \in T : i <= Max(T)
<1> DEFINE M == {m \in Nat : \A i \in T : i <= m}
<1>1. M # {} /\ M \in SUBSET Nat
  <2>1. n \in M
    OBVIOUS
  <2> QED BY <2>1
<1>2. PICK m \in M : \A j \in M : m <= j
  <2> HIDE DEF M
  <2> QED BY <1>1, Least
<1>3. m \in T
  <2> SUFFICES ASSUME m \notin T PROVE FALSE
    OBVIOUS
  <2>1. \A i \in T : i \in Nat /\ i <= m /\ i # m
    BY <1>2
  <2>2. PICK j \in T : TRUE
    OBVIOUS
  <2>3. m \in Nat /\ m # 0
    BY <2>1, <2>2
  <2>4. m - 1 \in Nat /\ \A i \in T : i <= m - 1
    BY <2>1, <2>3
  <2> QED BY <2>4, <2>3, <1>2
<1>4. \E x \in T : \A y \in T : x >= y
  BY <1>2, <1>3
<1>5. Max(T) \in T /\ \A y \in T : Max(T) >= y
  BY <1>4 DEF Max
<1> QED BY <1>5

-----------------------------------------------------------------------------
\* The order of the keys.

Byte == 0..255
Bytes == Seq(Byte)

\* A byte of a, or what is below every byte when a ends before it.
Digit(a, i) == IF i \in 1..Len(a) THEN a[i] ELSE -1

Agree(a, b, n) == \A m \in 1..n : Digit(a, m) = Digit(b, m)

LEMMA DigitType ==
  ASSUME NEW a \in Bytes, NEW i \in Nat
  PROVE  Digit(a, i) \in Int /\ Digit(a, i) >= -1 /\ (Digit(a, i) = -1 <=> i \notin 1..Len(a))
<1>1. CASE i \in 1..Len(a)
  <2>1. a[i] \in Byte
    BY <1>1 DEF Bytes
  <2>2. \A x \in Byte : x \in Int /\ x >= -1 /\ x # -1
    BY DEF Byte
  <2>3. Digit(a, i) = a[i]
    BY <1>1 DEF Digit
  <2> QED BY <1>1, <2>1, <2>2, <2>3
<1>2. CASE i \notin 1..Len(a)
  BY <1>2 DEF Digit
<1> QED BY <1>1, <1>2

\* Less looks at the first byte where two keys differ.
LEMMA LessIs ==
  ASSUME NEW a \in Bytes, NEW b \in Bytes
  PROVE  Less(a, b) <=> \E n \in Nat : Digit(a, n + 1) < Digit(b, n + 1) /\ Agree(a, b, n)
<1>0. Len(a) \in Nat /\ Len(b) \in Nat
  BY DEF Bytes
<1>1. ASSUME Less(a, b) PROVE \E n \in Nat : Digit(a, n + 1) < Digit(b, n + 1) /\ Agree(a, b, n)
  <2>1. CASE IsStrictPrefix(a, b)
    <3>1. Len(a) <= Len(b) /\ SubSeq(a, 1, Len(a)) = SubSeq(b, 1, Len(a)) /\ a # b
      BY <2>1 DEF IsStrictPrefix, IsPrefix
    <3>2. \A i \in 1..Len(a) : a[i] = b[i]
      <4> TAKE i \in 1..Len(a)
      <4>1. SubSeq(a, 1, Len(a))[i] = a[i] /\ SubSeq(b, 1, Len(a))[i] = b[i]
        BY <3>1, <1>0 DEF Bytes
      <4> QED BY <4>1, <3>1
    <3>3. Len(a) # Len(b)
      BY <3>1, <3>2 DEF Bytes
    <3>4. Len(a) + 1 \in 1..Len(b)
      BY <1>0, <3>1, <3>3
    <3>5. Digit(a, Len(a) + 1) < Digit(b, Len(a) + 1)
      <4>1. Digit(b, Len(a) + 1) > -1
        BY <1>0, <3>4, DigitType
      <4>2. Digit(a, Len(a) + 1) = -1
        BY <1>0 DEF Digit
      <4> QED BY <4>1, <4>2
    <3>6. Agree(a, b, Len(a))
      BY <1>0, <3>1, <3>2 DEF Agree, Digit
    <3> QED BY <1>0, <3>5, <3>6
  <2>2. ASSUME NEW i \in 1..Len(a), i <= Len(b), a[i] < b[i], SubSeq(a, 1, i - 1) = SubSeq(b, 1, i - 1)
        PROVE  \E n \in Nat : Digit(a, n + 1) < Digit(b, n + 1) /\ Agree(a, b, n)
    <3> DEFINE n == i - 1
    <3>1. n \in Nat /\ n + 1 = i /\ n <= Len(a) /\ n <= Len(b)
      BY <1>0, <2>2
    <3>2. SubSeq(a, 1, n) = SubSeq(b, 1, n)
      BY <2>2
    <3>3. Digit(a, n + 1) < Digit(b, n + 1)
      BY <2>2, <1>0 DEF Digit
    <3> HIDE DEF n
    <3>4. ASSUME NEW m \in 1..n PROVE Digit(a, m) = Digit(b, m)
      <4>1. SubSeq(a, 1, n)[m] = a[m] /\ SubSeq(b, 1, n)[m] = b[m]
        BY <3>1, <1>0 DEF Bytes
      <4> QED BY <4>1, <3>1, <3>2, <1>0 DEF Digit
    <3> QED BY <3>1, <3>3, <3>4 DEF Agree
  <2> QED BY <1>1, <2>1, <2>2 DEF Less
<1>2. ASSUME NEW n \in Nat, Digit(a, n + 1) < Digit(b, n + 1), Agree(a, b, n)
      PROVE  Less(a, b)
  <2>1. n + 1 \in 1..Len(b)
    <3>1. Digit(b, n + 1) > -1
      BY <1>2, DigitType
    <3> QED BY <3>1 DEF Digit
  <2>2. \A m \in 1..n : m \in 1..Len(a)
    <3> TAKE m \in 1..n
    <3>1. Digit(a, m) = Digit(b, m) /\ m \in 1..Len(b) /\ m \in Nat
      BY <1>2, <2>1, <1>0 DEF Agree
    <3> QED BY <3>1, DigitType
  <2>3. n <= Len(a) /\ n <= Len(b)
    BY <1>0, <2>1, <2>2
  <2>4. SubSeq(a, 1, n) = SubSeq(b, 1, n)
    <3>1. \A m \in 1..n : a[m] = b[m]
      BY <1>2, <2>2, <2>3, <1>0 DEF Agree, Digit
    <3> QED BY <3>1, <2>3, <1>0 DEF Bytes
  <2>5. CASE n + 1 \in 1..Len(a)
    <3> DEFINE i == n + 1
    <3>1. i \in 1..Len(a) /\ i <= Len(b) /\ a[i] < b[i] /\ i - 1 = n
      BY <1>2, <2>1, <2>5, <1>0 DEF Digit
    <3> HIDE DEF i
    <3> QED BY <3>1, <2>4 DEF Less
  <2>6. CASE n + 1 \notin 1..Len(a)
    <3>1. n = Len(a) /\ Len(a) # Len(b) /\ Len(a) <= Len(b)
      BY <2>1, <2>3, <2>6, <1>0
    <3>2. a # b
      BY <3>1
    <3>3. IsStrictPrefix(a, b)
      BY <2>4, <3>1, <3>2 DEF IsStrictPrefix, IsPrefix
    <3> QED BY <3>3 DEF Less
  <2> QED BY <2>5, <2>6
<1> QED BY <1>1, <1>2

\* Two keys that differ differ in a first byte.
LEMMA FirstDifference ==
  ASSUME NEW a \in Bytes, NEW b \in Bytes, a # b
  PROVE  \E n \in Nat : Digit(a, n + 1) # Digit(b, n + 1) /\ Agree(a, b, n)
<1> DEFINE M == {n \in Nat : Digit(a, n + 1) # Digit(b, n + 1)}
<1>0. Len(a) \in Nat /\ Len(b) \in Nat
  BY DEF Bytes
<1>1. M # {}
  <2> SUFFICES ASSUME \A n \in Nat : Digit(a, n + 1) = Digit(b, n + 1) PROVE FALSE
    OBVIOUS
  <2>1. \A i \in Nat \ {0} : Digit(a, i) = Digit(b, i)
    <3> TAKE i \in Nat \ {0}
    <3>1. i - 1 \in Nat /\ (i - 1) + 1 = i
      OBVIOUS
    <3>2. Digit(a, (i - 1) + 1) = Digit(b, (i - 1) + 1)
      BY <3>1
    <3> QED BY <3>1, <3>2
  <2>2. \A i \in Nat \ {0} : i \in 1..Len(a) <=> i \in 1..Len(b)
    BY <2>1, DigitType
  <2>3. Len(a) = Len(b)
    <3>1. Len(a) # 0 => Len(a) <= Len(b)
      BY <1>0, <2>2
    <3>2. Len(b) # 0 => Len(b) <= Len(a)
      BY <1>0, <2>2
    <3> QED BY <1>0, <3>1, <3>2
  <2>4. \A i \in 1..Len(a) : a[i] = b[i]
    BY <1>0, <2>1, <2>3 DEF Digit
  <2> QED BY <2>3, <2>4 DEF Bytes
<1>2. M \in SUBSET Nat
  OBVIOUS
<1> HIDE DEF M
<1>3. PICK n \in M : \A m \in M : n <= m
  BY <1>1, <1>2, Least
<1>4. n \in Nat /\ Digit(a, n + 1) # Digit(b, n + 1)
  BY <1>3 DEF M
<1>5. ASSUME NEW m \in 1..n PROVE Digit(a, m) = Digit(b, m)
  <2>1. m - 1 \in Nat /\ (m - 1) + 1 = m /\ ~(n <= m - 1)
    BY <1>4
  <2>2. m - 1 \notin M
    BY <1>3, <2>1
  <2>3. Digit(a, (m - 1) + 1) = Digit(b, (m - 1) + 1)
    BY <2>1, <2>2 DEF M
  <2> QED BY <2>1, <2>3
<1> QED BY <1>4, <1>5 DEF Agree

\* The order is strict and total.
LEMMA LessOrder ==
  ASSUME NEW a \in Bytes, NEW b \in Bytes, NEW c \in Bytes
  PROVE  /\ ~Less(a, a)
         /\ Less(a, b) => ~Less(b, a) /\ a # b
         /\ Less(a, b) /\ Less(b, c) => Less(a, c)
         /\ a = b \/ Less(a, b) \/ Less(b, a)
         /\ ~Less(b, a) /\ Less(b, c) => Less(a, c)
         /\ Less(a, b) /\ ~Less(c, b) => Less(a, c)
<1>1. ASSUME NEW x \in Bytes PROVE ~Less(x, x)
  <2> SUFFICES ASSUME NEW n \in Nat, Digit(x, n + 1) < Digit(x, n + 1) PROVE FALSE
    BY LessIs
  <2>1. Digit(x, n + 1) \in Int
    BY DigitType
  <2> QED BY <2>1
<1>2. ASSUME NEW x \in Bytes, NEW y \in Bytes, NEW z \in Bytes, Less(x, y), Less(y, z)
      PROVE  Less(x, z)
  <2>1. PICK n \in Nat : Digit(x, n + 1) < Digit(y, n + 1) /\ Agree(x, y, n)
    BY <1>2, LessIs
  <2>2. PICK m \in Nat : Digit(y, m + 1) < Digit(z, m + 1) /\ Agree(y, z, m)
    BY <1>2, LessIs
  <2>3. \A i \in Nat : Digit(x, i) \in Int /\ Digit(y, i) \in Int /\ Digit(z, i) \in Int
    BY DigitType
  <2>4. n + 1 \in Nat /\ m + 1 \in Nat
    OBVIOUS
  <2>5. CASE n <= m
    <3>1. Agree(x, z, n)
      BY <2>1, <2>2, <2>5 DEF Agree
    <3>2. Digit(y, n + 1) <= Digit(z, n + 1)
      <4>1. CASE n = m
        BY <2>2, <2>3, <2>4, <4>1
      <4>2. CASE n < m
        <5>1. n + 1 \in 1..m
          BY <4>2
        <5>2. Digit(y, n + 1) = Digit(z, n + 1)
          BY <5>1, <2>2 DEF Agree
        <5> QED BY <5>2, <2>3, <2>4
      <4> QED BY <4>1, <4>2, <2>5
    <3>3. Digit(x, n + 1) < Digit(z, n + 1)
      BY <2>1, <2>3, <2>4, <3>2
    <3> QED BY <3>1, <3>3, LessIs
  <2>6. CASE m < n
    <3>1. Agree(x, z, m)
      BY <2>1, <2>2, <2>6 DEF Agree
    <3>2. Digit(x, m + 1) = Digit(y, m + 1)
      <4>1. m + 1 \in 1..n
        BY <2>6
      <4> QED BY <4>1, <2>1 DEF Agree
    <3> QED BY <2>2, <3>1, <3>2, LessIs
  <2> QED BY <2>5, <2>6
<1>3. ASSUME NEW x \in Bytes, NEW y \in Bytes PROVE x = y \/ Less(x, y) \/ Less(y, x)
  <2> SUFFICES ASSUME x # y PROVE Less(x, y) \/ Less(y, x)
    OBVIOUS
  <2>1. PICK n \in Nat : Digit(x, n + 1) # Digit(y, n + 1) /\ Agree(x, y, n)
    BY FirstDifference
  <2>2. Digit(x, n + 1) \in Int /\ Digit(y, n + 1) \in Int
    BY DigitType
  <2>3. Digit(x, n + 1) < Digit(y, n + 1) \/ Digit(y, n + 1) < Digit(x, n + 1)
    BY <2>1, <2>2
  <2>4. Agree(y, x, n)
    BY <2>1 DEF Agree
  <2> QED BY <2>1, <2>3, <2>4, LessIs
<1> QED BY <1>1, <1>2, <1>3

\* Nothing is below the empty key, and every other key is above it.
LEMMA LessEmpty ==
  ASSUME NEW a \in Bytes
  PROVE  <<>> \in Bytes /\ ~Less(a, <<>>) /\ (a # <<>> => Less(<<>>, a))
<1>1. <<>> \in Bytes /\ Len(<<>>) = 0
  BY DEF Bytes
<1>2. ~Less(a, <<>>)
  <2> SUFFICES ASSUME NEW n \in Nat, Digit(a, n + 1) < Digit(<<>>, n + 1) PROVE FALSE
    BY <1>1, LessIs
  <2>1. Digit(<<>>, n + 1) = -1 /\ Digit(a, n + 1) >= -1 /\ Digit(a, n + 1) \in Int
    BY <1>1, DigitType DEF Digit
  <2> QED BY <2>1
<1> QED BY <1>1, <1>2, LessOrder

-----------------------------------------------------------------------------
\* Sequences of keys that go up.

Rising(s) == \A i, j \in 1..Len(s) : i < j => Less(s[i], s[j])

\* The keys below k, and the one that has i - 1 of them.
Under(keys, k) == {j \in keys : Less(j, k)}

Ranked(keys, i) == CHOOSE k \in keys : Cardinality({j \in keys : Less(j, k)}) = i - 1

LEMMA UnderProperties ==
  ASSUME NEW keys \in SUBSET Bytes, IsFiniteSet(keys), NEW k \in keys
  PROVE  /\ Cardinality(Under(keys, k)) \in 0..(Cardinality(keys) - 1)
         /\ \A j \in keys : Less(k, j) => Cardinality(Under(keys, k)) < Cardinality(Under(keys, j))
<1>1. ASSUME NEW j \in keys
      PROVE  /\ IsFiniteSet(Under(keys, j)) /\ Cardinality(Under(keys, j)) \in Nat
             /\ k \notin Under(keys, k)
  <2>1. Under(keys, j) \in SUBSET keys
    BY DEF Under
  <2>2. k \notin Under(keys, k)
    BY LessOrder DEF Under
  <2> QED BY <2>1, <2>2, FS_Subset, FS_CardinalityType
<1>2. Cardinality(Under(keys, k)) <= Cardinality(keys) - 1
  <2>1. IsFiniteSet(keys \ {k}) /\ Cardinality(keys \ {k}) = Cardinality(keys) - 1
    BY FS_RemoveElement
  <2>2. Under(keys, k) \in SUBSET (keys \ {k})
    BY <1>1 DEF Under
  <2>3. Cardinality(Under(keys, k)) <= Cardinality(keys \ {k})
    BY <2>1, <2>2, FS_Subset
  <2> QED BY <2>1, <2>3
<1>3. ASSUME NEW j \in keys, Less(k, j)
      PROVE  Cardinality(Under(keys, k)) < Cardinality(Under(keys, j))
  <2>1. Under(keys, k) \in SUBSET Under(keys, j)
    <3> SUFFICES ASSUME NEW e \in keys, Less(e, k) PROVE Less(e, j)
      BY DEF Under
    <3> QED BY <1>3, LessOrder
  <2>2. k \in Under(keys, j) /\ k \notin Under(keys, k)
    BY <1>1, <1>3 DEF Under
  <2>3. /\ Cardinality(Under(keys, k)) <= Cardinality(Under(keys, j))
        /\ Cardinality(Under(keys, j)) # Cardinality(Under(keys, k))
    <3>1. IsFiniteSet(Under(keys, j))
      BY <1>1
    <3> QED BY ONLY <3>1, <2>1, <2>2, FS_Subset
  <2>4. Cardinality(Under(keys, k)) \in Nat /\ Cardinality(Under(keys, j)) \in Nat
    BY <1>1
  <2> QED BY <2>3, <2>4
<1>4. Cardinality(keys) \in Nat
  BY FS_CardinalityType
<1> QED BY <1>1, <1>2, <1>3, <1>4

\* Ascending is the keys, each once, in their order.
LEMMA AscendingIs ==
  ASSUME NEW keys \in SUBSET Bytes, IsFiniteSet(keys)
  PROVE  /\ Ascending(keys) \in Seq(Bytes)
         /\ \A i \in 1..Len(Ascending(keys)) : Ascending(keys)[i] \in keys
         /\ \A k \in keys : \E i \in 1..Len(Ascending(keys)) : Ascending(keys)[i] = k
         /\ Rising(Ascending(keys))
<1> DEFINE n == Cardinality(keys)
           s == Ascending(keys)
           rank == [k \in keys |-> Cardinality(Under(keys, k)) + 1]
<1>1. n \in Nat /\ IsFiniteSet(1..n) /\ Cardinality(1..n) = n
  <2>1. n \in Nat
    BY FS_CardinalityType
  <2>2. IsFiniteSet(1..n) /\ Cardinality(1..n) = IF 1 > n THEN 0 ELSE n - 1 + 1
    BY <2>1, FS_Interval
  <2> QED BY <2>1, <2>2
<1>2. \A k \in keys : Cardinality(Under(keys, k)) + 1 \in 1..n
  <2> TAKE k \in keys
  <2>1. Cardinality(Under(keys, k)) \in 0..(n - 1)
    BY UnderProperties
  <2> QED BY <1>1, <2>1
<1>3. ASSUME NEW k \in keys, NEW j \in keys, k # j
      PROVE  /\ Less(k, j) => rank[k] < rank[j]
             /\ Less(j, k) => rank[j] < rank[k]
             /\ rank[k] \in Nat /\ rank[j] \in Nat
             /\ rank[k] # rank[j]
  <2>1. /\ Cardinality(Under(keys, k)) \in Nat /\ Cardinality(Under(keys, j)) \in Nat
        /\ Less(k, j) => Cardinality(Under(keys, k)) < Cardinality(Under(keys, j))
        /\ Less(j, k) => Cardinality(Under(keys, j)) < Cardinality(Under(keys, k))
    BY UnderProperties
  <2>2. Less(k, j) \/ Less(j, k)
    BY <1>3, LessOrder
  <2> QED BY <2>1, <2>2
<1>4. rank \in Injection(keys, 1..n)
  <2>1. rank \in [keys -> 1..n]
    BY <1>2
  <2> QED BY <1>3, <2>1 DEF Injection, IsInjective
<1>5. rank \in Surjection(keys, 1..n)
  <2> HIDE DEF rank
  <2> QED BY <1>1, <1>4, FS_Injection
<1>6. ASSUME NEW i \in 1..n
      PROVE  s[i] \in keys /\ rank[s[i]] = i
  <2>1. PICK k \in keys : rank[k] = i
    <3> HIDE DEF rank
    <3> QED BY <1>5 DEF Surjection
  <2>2. Cardinality({j \in keys : Less(j, k)}) = i - 1
    <3>1. Cardinality(Under(keys, k)) \in Nat /\ Cardinality(Under(keys, k)) + 1 = i
      BY <2>1, UnderProperties
    <3> QED BY <3>1 DEF Under
  <2>3. s[i] = CHOOSE x \in keys : Cardinality({j \in keys : Less(j, x)}) = i - 1
    BY DEF Ascending
  <2> HIDE DEF s
  <2>4. s[i] \in keys /\ Cardinality({j \in keys : Less(j, s[i])}) = i - 1
    BY <2>2, <2>3
  <2>5. Cardinality(Under(keys, s[i])) = i - 1
    BY <2>4 DEF Under
  <2> QED BY <2>4, <2>5
<1>7. s \in Seq(Bytes) /\ Len(s) = n
  <2>1. \A i \in 1..n : s[i] \in Bytes
    BY <1>6
  <2>0. s = [i \in 1..n |-> Ranked(keys, i)]
    BY DEF Ascending, Ranked
  <2> HIDE DEF s, n
  <2>2. s = [i \in 1..n |-> s[i]]
    BY <2>0
  <2>3. s \in [1..n -> Bytes]
    BY <2>1, <2>2
  <2> QED BY <1>1, <2>3
<1> HIDE DEF s
<1>8. ASSUME NEW k \in keys
      PROVE  \E i \in 1..n : s[i] = k
  <2> DEFINE i == rank[k]
  <2>1. i \in 1..n
    BY <1>2
  <2>2. s[i] \in keys /\ rank[s[i]] = i
    BY <1>6, <2>1
  <2>3. s[i] = k
    <3> HIDE DEF rank
    <3> QED BY <2>2, <1>3
  <2> QED BY <2>1, <2>3
<1>9. ASSUME NEW i \in 1..n, NEW j \in 1..n, i < j
      PROVE  Less(s[i], s[j])
  <2>1. s[i] \in keys /\ s[j] \in keys /\ rank[s[i]] = i /\ rank[s[j]] = j
    BY <1>6
  <2> HIDE DEF rank
  <2>2. s[i] # s[j]
    BY <2>1, <1>9
  <2>3. ~Less(s[j], s[i])
    BY <2>1, <2>2, <1>3, <1>9
  <2> QED BY <2>1, <2>2, <2>3, LessOrder
<1> HIDE DEF n
<1> QED BY <1>6, <1>7, <1>8, <1>9 DEF Rising, s

-----------------------------------------------------------------------------
\* Sequences one after the other.

\* The function that FlattenSeq is computed with.
IsFlat(g, ss, n) == g = [i \in 1..n |-> IF i = 1 THEN ss[i] ELSE g[i - 1] \o ss[i]]

LEMMA FlatExists ==
  ASSUME NEW ss
  PROVE  \A n \in Nat : \E g : IsFlat(g, ss, n)
<1> DEFINE M == {n \in Nat : \E g : IsFlat(g, ss, n)}
<1>1. 0 \in M
  <2>1. IsFlat(<<>>, ss, 0)
    BY DEF IsFlat
  <2> QED BY <2>1
<1>2. ASSUME NEW n \in M PROVE n + 1 \in M
  <2>1. PICK g : IsFlat(g, ss, n)
    OBVIOUS
  <2> DEFINE x == IF n + 1 = 1 THEN ss[n + 1] ELSE g[n] \o ss[n + 1]
             h == [i \in 1..(n + 1) |-> IF i = n + 1 THEN x ELSE g[i]]
  <2>2. \A i \in 1..n : g[i] = IF i = 1 THEN ss[i] ELSE g[i - 1] \o ss[i]
    BY <2>1 DEF IsFlat
  <2>3. n \in Nat
    OBVIOUS
  <2>4. \A i \in 1..(n + 1) : h[i] = IF i = 1 THEN ss[i] ELSE h[i - 1] \o ss[i]
    <3> TAKE i \in 1..(n + 1)
    <3>1. CASE i = n + 1
      <4>1. i # 1 => n \in 1..(n + 1) /\ n # n + 1 /\ i - 1 = n
        BY <3>1, <2>3
      <4> HIDE DEF x
      <4>2. h[i] = x /\ (i # 1 => h[i - 1] = g[n])
        BY <3>1, <4>1
      <4> QED BY <4>1, <4>2, <3>1 DEF x
    <3>2. CASE i # n + 1
      <4>1. i \in 1..n /\ (i # 1 => i - 1 \in 1..(n + 1) /\ i - 1 # n + 1)
        BY <3>2, <2>3
      <4> HIDE DEF x
      <4>2. h[i] = g[i] /\ (i # 1 => h[i - 1] = g[i - 1])
        BY <3>2, <4>1
      <4> QED BY <4>1, <4>2, <2>2
    <3> QED BY <3>1, <3>2
  <2> HIDE DEF x
  <2>5. h = [i \in 1..(n + 1) |-> h[i]]
    OBVIOUS
  <2> HIDE DEF h
  <2>6. IsFlat(h, ss, n + 1)
    BY <2>4, <2>5 DEF IsFlat
  <2> QED BY <2>6
<1>3. M \in SUBSET Nat
  OBVIOUS
<1> HIDE DEF M
<1>4. M = Nat
  BY <1>1, <1>2, <1>3, Induction
<1> QED BY <1>4 DEF M

\* Two such functions agree where the sequences do.
LEMMA FlatUnique ==
  ASSUME NEW g, NEW h, NEW ss, NEW tt, NEW n \in Nat, NEW m \in Nat, n <= m,
         IsFlat(g, ss, n), IsFlat(h, tt, m), \A i \in 1..n : ss[i] = tt[i]
  PROVE  \A i \in 1..n : g[i] = h[i]
<1> DEFINE M == {j \in Nat : \A i \in 1..n : i <= j => g[i] = h[i]}
<1>1. \A i \in 1..n : /\ g[i] = IF i = 1 THEN ss[i] ELSE g[i - 1] \o ss[i]
                      /\ h[i] = IF i = 1 THEN ss[i] ELSE h[i - 1] \o ss[i]
  <2>1. \A i \in 1..n : i \in 1..m
    OBVIOUS
  <2> QED BY <2>1 DEF IsFlat
<1>2. 0 \in M
  OBVIOUS
<1>3. ASSUME NEW j \in M PROVE j + 1 \in M
  <2> SUFFICES ASSUME NEW i \in 1..n, i <= j + 1 PROVE g[i] = h[i]
    OBVIOUS
  <2>1. i # 1 => i - 1 \in 1..n /\ i - 1 <= j
    OBVIOUS
  <2>2. i # 1 => g[i - 1] = h[i - 1]
    BY <2>1
  <2> QED BY <2>2, <1>1
<1>4. M \in SUBSET Nat
  OBVIOUS
<1> HIDE DEF M
<1>5. M = Nat
  BY <1>2, <1>3, <1>4, Induction
<1> QED BY <1>5 DEF M

LEMMA FlattenIs ==
  ASSUME NEW ss, NEW n \in Nat \ {0}, Len(ss) = n
  PROVE  \E g : IsFlat(g, ss, n) /\ FlattenSeq(ss) = g[n]
<1> DEFINE g == CHOOSE h : IsFlat(h, ss, n)
<1>1. IsFlat(g, ss, n)
  BY FlatExists
<1>2. FlattenSeq(ss) = g[n]
  BY DEF FlattenSeq, IsFlat
<1> QED BY <1>1, <1>2

\* One sequence more.
LEMMA FlattenMore ==
  ASSUME NEW n \in Nat, NEW s, NEW t, Len(s) = n + 1, Len(t) = n, \A i \in 1..n : s[i] = t[i]
  PROVE  FlattenSeq(s) = IF n = 0 THEN s[1] ELSE FlattenSeq(t) \o s[n + 1]
<1> DEFINE k == n + 1
<1>0. k \in Nat \ {0} /\ k \in 1..k /\ Len(s) = k /\ k - 1 = n
  OBVIOUS
<1> HIDE DEF k
<1>1. PICK g : IsFlat(g, s, k) /\ FlattenSeq(s) = g[k]
  BY <1>0, FlattenIs
<1>2. g[k] = IF k = 1 THEN s[k] ELSE g[k - 1] \o s[k]
  <2>1. \A i \in 1..k : g[i] = IF i = 1 THEN s[i] ELSE g[i - 1] \o s[i]
    BY <1>1 DEF IsFlat
  <2> QED BY <1>0, <2>1
<1>3. CASE n = 0
  BY <1>1, <1>2, <1>3 DEF k
<1>4. CASE n # 0
  <2>1. PICK h : IsFlat(h, t, n) /\ FlattenSeq(t) = h[n]
    BY <1>4, FlattenIs
  <2>2. \A i \in 1..n : t[i] = s[i]
    OBVIOUS
  <2>3. \A i \in 1..n : h[i] = g[i]
    <3>1. n <= k
      BY <1>0
    <3> QED BY <3>1, <1>0, <1>1, <2>1, <2>2, FlatUnique
  <2>4. n \in 1..n /\ k # 1
    BY <1>0, <1>4
  <2> QED BY <1>0, <1>1, <1>2, <1>4, <2>1, <2>3, <2>4 DEF k
<1> QED BY <1>3, <1>4

-----------------------------------------------------------------------------
\* The keys of a block.

Item == [prefix : Nat, suffix : Bytes, offset : Nat, length : Nat]
Raw == [key : Bytes, value : Bytes]

NextKey(prev, item) == SubSeq(prev, 1, item.prefix) \o item.suffix

\* The function that DecodedKeys computes, up to n of the items.
IsKeys(g, items, n) ==
  g = [i \in 0..n |-> IF i = 0 THEN <<>> ELSE NextKey(g[i - 1], items[i])]

LEMMA KeysExist ==
  ASSUME NEW items
  PROVE  \A n \in Nat : \E g : IsKeys(g, items, n)
<1> DEFINE M == {n \in Nat : \E g : IsKeys(g, items, n)}
<1>1. 0 \in M
  <2> DEFINE g == [i \in 0..0 |-> <<>>]
  <2>1. IsKeys(g, items, 0)
    BY DEF IsKeys
  <2> HIDE DEF g
  <2> QED BY <2>1
<1>2. ASSUME NEW n \in M PROVE n + 1 \in M
  <2>1. PICK g : IsKeys(g, items, n)
    OBVIOUS
  <2> DEFINE x == NextKey(g[n], items[n + 1])
             h == [i \in 0..(n + 1) |-> IF i = n + 1 THEN x ELSE g[i]]
  <2>2. \A i \in 0..n : g[i] = IF i = 0 THEN <<>> ELSE NextKey(g[i - 1], items[i])
    BY <2>1 DEF IsKeys
  <2>3. n \in Nat
    OBVIOUS
  <2>4. \A i \in 0..(n + 1) : h[i] = IF i = 0 THEN <<>> ELSE NextKey(h[i - 1], items[i])
    <3> TAKE i \in 0..(n + 1)
    <3>1. CASE i = n + 1
      <4>1. i # 0 /\ n \in 0..(n + 1) /\ n # n + 1 /\ i - 1 = n
        BY <3>1, <2>3
      <4> HIDE DEF x
      <4>2. h[i] = x /\ h[i - 1] = g[n]
        BY <3>1, <4>1
      <4> QED BY <4>1, <4>2, <3>1 DEF x
    <3>2. CASE i # n + 1
      <4>1. i \in 0..n /\ (i # 0 => i - 1 \in 0..(n + 1) /\ i - 1 # n + 1)
        BY <3>2, <2>3
      <4> HIDE DEF x
      <4>2. h[i] = g[i] /\ (i # 0 => h[i - 1] = g[i - 1])
        BY <3>2, <4>1
      <4> QED BY <4>1, <4>2, <2>2
    <3> QED BY <3>1, <3>2
  <2> HIDE DEF x
  <2>5. h = [i \in 0..(n + 1) |-> h[i]]
    OBVIOUS
  <2> HIDE DEF h
  <2>6. IsKeys(h, items, n + 1)
    BY <2>4, <2>5 DEF IsKeys
  <2> QED BY <2>6
<1>3. M \in SUBSET Nat
  OBVIOUS
<1> HIDE DEF M
<1>4. M = Nat
  BY <1>1, <1>2, <1>3, Induction
<1> QED BY <1>4 DEF M

LEMMA DecodedIs ==
  ASSUME NEW items, Len(items) \in Nat
  PROVE  IsKeys(DecodedKeys(items), items, Len(items))
<1> DEFINE g == CHOOSE h : IsKeys(h, items, Len(items))
<1>1. IsKeys(g, items, Len(items))
  BY KeysExist
<1>2. DecodedKeys(items) = g
  BY DEF DecodedKeys, IsKeys, NextKey
<1> QED BY <1>1, <1>2

LEMMA KeysUnique ==
  ASSUME NEW g, NEW h, NEW s, NEW t, NEW n \in Nat, NEW m \in Nat, n <= m,
         IsKeys(g, s, n), IsKeys(h, t, m), \A i \in 1..n : s[i] = t[i]
  PROVE  \A i \in 0..n : g[i] = h[i]
<1> DEFINE M == {j \in Nat : \A i \in 0..n : i <= j => g[i] = h[i]}
<1>1. \A i \in 0..n : /\ g[i] = IF i = 0 THEN <<>> ELSE NextKey(g[i - 1], s[i])
                      /\ h[i] = IF i = 0 THEN <<>> ELSE NextKey(h[i - 1], t[i])
  <2>1. \A i \in 0..n : i \in 0..m
    OBVIOUS
  <2> QED BY <2>1 DEF IsKeys
<1>2. 0 \in M
  BY <1>1
<1>3. ASSUME NEW j \in M PROVE j + 1 \in M
  <2> SUFFICES ASSUME NEW i \in 0..n, i <= j + 1 PROVE g[i] = h[i]
    OBVIOUS
  <2>1. i # 0 => i - 1 \in 0..n /\ i - 1 <= j /\ i \in 1..n
    OBVIOUS
  <2>2. i # 0 => g[i - 1] = h[i - 1] /\ s[i] = t[i]
    BY <2>1
  <2> QED BY <2>2, <1>1
<1>4. M \in SUBSET Nat
  OBVIOUS
<1> HIDE DEF M
<1>5. M = Nat
  BY <1>2, <1>3, <1>4, Induction
<1> QED BY <1>5 DEF M

\* The keys of a block that are not there yet make no difference.
LEMMA DecodedMore ==
  ASSUME NEW s \in Seq(Item), NEW item \in Item
  PROVE  /\ \A i \in 0..Len(s) : DecodedKeys(Append(s, item))[i] = DecodedKeys(s)[i]
         /\ DecodedKeys(Append(s, item))[Len(s) + 1] = NextKey(DecodedKeys(s)[Len(s)], item)
<1> DEFINE t == Append(s, item)
           n == Len(s)
           g == DecodedKeys(s)
           h == DecodedKeys(t)
<1>1. n \in Nat /\ Len(t) = n + 1 /\ t[n + 1] = item /\ \A i \in 1..n : s[i] = t[i]
  OBVIOUS
<1> HIDE DEF t, n
<1>2. IsKeys(g, s, n) /\ IsKeys(h, t, n + 1)
  BY <1>1, DecodedIs DEF n
<1> HIDE DEF g, h
<1>3. \A i \in 0..n : g[i] = h[i]
  <2>1. n + 1 \in Nat /\ n <= n + 1
    BY <1>1
  <2> QED BY <1>1, <1>2, <2>1, KeysUnique
<1>4. h[n + 1] = NextKey(h[n], item)
  <2> DEFINE k == n + 1
  <2>1. k \in 0..k /\ k # 0 /\ k - 1 = n
    BY <1>1
  <2>2. \A i \in 0..k : h[i] = IF i = 0 THEN <<>> ELSE NextKey(h[i - 1], t[i])
    BY <1>2 DEF IsKeys
  <2> HIDE DEF k
  <2>3. h[k] = NextKey(h[n], t[k])
    BY <2>1, <2>2
  <2> QED BY <2>3, <1>1 DEF k
<1>5. n \in 0..n
  BY <1>1
<1> QED BY <1>3, <1>4, <1>5 DEF t, n, g, h

LEMMA NextKeyInFull ==
  ASSUME NEW a \in Bytes, NEW item \in Item, item.prefix = 0
  PROVE  NextKey(a, item) = item.suffix
<1>1. item.suffix \in Bytes
  BY DEF Item
<1>2. SubSeq(a, 1, 0) = <<>>
  BY DEF Bytes
<1>3. \A x \in Bytes : <<>> \o x = x
  BY DEF Bytes
<1> QED BY <1>1, <1>2, <1>3 DEF NextKey

\* The first key of a block.
LEMMA FirstKeyIs ==
  ASSUME NEW s \in Seq(Item), Len(s) # 0, s[1].prefix = 0
  PROVE  DecodedKeys(s)[1] = s[1].suffix
<1>1. Len(s) \in Nat /\ s[1] \in Item /\ <<>> \in Bytes
  BY DEF Bytes
<1>2. \A i \in 0..Len(s) : DecodedKeys(s)[i] = IF i = 0 THEN <<>> ELSE NextKey(DecodedKeys(s)[i - 1], s[i])
  BY <1>1, DecodedIs DEF IsKeys
<1>3. 0 \in 0..Len(s) /\ 1 \in 0..Len(s) /\ 1 - 1 = 0
  BY <1>1
<1>4. DecodedKeys(s)[1] = NextKey(<<>>, s[1])
  BY <1>2, <1>3
<1> QED BY <1>1, <1>4, NextKeyInFull

-----------------------------------------------------------------------------
\* The length of a block.

Bits(items, j) == ItemLen(Len(items[j].suffix))

ItemSum(items) == MapThenSumSet(LAMBDA j : ItemLen(Len(items[j].suffix)), DOMAIN items)

\* What is summed up for a set of items, taking one at a time.
IsSum(g, items, D) ==
  g = [T \in SUBSET D |-> IF T = {} THEN 0
                          ELSE LET x == CHOOSE x \in T : TRUE IN Bits(items, x) + g[T \ {x}]]

Sums(g, items, n) ==
  /\ g[{}] = 0
  /\ \A T \in SUBSET (1..n) : g[T] \in Nat
  /\ \A T \in SUBSET (1..n) : \A y \in T : g[T] = Bits(items, y) + g[T \ {y}]

BitsUpTo(items, n) == \A j \in 1..n : Bits(items, j) \in Nat

\* Of a set of positions it does not matter which is taken first.
LEMMA SumTakes ==
  ASSUME NEW items, NEW n \in Nat, NEW g, IsSum(g, items, 1..n), BitsUpTo(items, n)
  PROVE  Sums(g, items, n)
<1>0. \A j \in 1..n : Bits(items, j) \in Nat
  BY DEF BitsUpTo
<1> DEFINE Takes(T) == g[T] \in Nat /\ \A y \in T : g[T] = Bits(items, y) + g[T \ {y}]
           M == {m \in Nat : \A T \in SUBSET (1..n) : Cardinality(T) <= m => Takes(T)}
<1>1. g[{}] = 0 /\ \A T \in SUBSET (1..n) : T # {} =>
        \E x \in T : g[T] = Bits(items, x) + g[T \ {x}]
  <2>1. \A T \in SUBSET (1..n) :
          g[T] = IF T = {} THEN 0
                 ELSE LET x == CHOOSE x \in T : TRUE IN Bits(items, x) + g[T \ {x}]
    BY DEF IsSum
  <2>2. {} \in SUBSET (1..n)
    OBVIOUS
  <2> QED BY <2>1, <2>2
<1>2. \A T \in SUBSET (1..n) : IsFiniteSet(T) /\ Cardinality(T) \in Nat
  <2>1. IsFiniteSet(1..n)
    BY FS_Interval
  <2> QED BY <2>1, FS_Subset, FS_CardinalityType
<1>3. 0 \in M
  <2> SUFFICES ASSUME NEW T \in SUBSET (1..n), Cardinality(T) <= 0 PROVE Takes(T)
    OBVIOUS
  <2>1. Cardinality(T) = 0
    BY <1>2
  <2>2. T = {}
    BY <1>2, <2>1, FS_EmptySet
  <2> QED BY <1>1, <2>2
<1>4. ASSUME NEW m \in M PROVE m + 1 \in M
  <2> SUFFICES ASSUME NEW T \in SUBSET (1..n), Cardinality(T) <= m + 1 PROVE Takes(T)
    OBVIOUS
  <2>0. m \in Nat
    OBVIOUS
  <2>1. ASSUME NEW U \in SUBSET (1..n), Cardinality(U) <= m PROVE Takes(U)
    BY <2>1
  <2>2. \A y \in T : T \ {y} \in SUBSET (1..n) /\ Cardinality(T \ {y}) <= m
    <3> TAKE y \in T
    <3>1. IsFiniteSet(T)
      BY <1>2
    <3>2. Cardinality(T \ {y}) = Cardinality(T) - 1
      BY <3>1, FS_RemoveElement
    <3>3. Cardinality(T) \in Nat
      BY <1>2
    <3> QED BY <2>0, <3>2, <3>3
  <2>3. \A y \in T : Takes(T \ {y})
    BY <2>1, <2>2
  <2>4. CASE T = {}
    BY <1>1, <2>4
  <2>5. CASE T # {}
    <3>1. PICK x \in T : g[T] = Bits(items, x) + g[T \ {x}]
      BY <1>1, <2>5
    <3>2. g[T] \in Nat
      <4>1. Bits(items, x) \in Nat /\ g[T \ {x}] \in Nat
        BY <1>0, <2>3
      <4> QED BY <3>1, <4>1
    <3>3. ASSUME NEW y \in T PROVE g[T] = Bits(items, y) + g[T \ {y}]
      <4>1. CASE y = x
        BY <3>1, <4>1
      <4>2. CASE y # x
        <5>1. y \in T \ {x} /\ x \in T \ {y} /\ (T \ {x}) \ {y} = (T \ {y}) \ {x}
          BY <4>2
        <5> DEFINE z == g[(T \ {x}) \ {y}]
        <5>2. g[T \ {x}] = Bits(items, y) + z /\ g[T \ {y}] = Bits(items, x) + z
          <6>1. Takes(T \ {x}) /\ Takes(T \ {y})
            BY <2>3
          <6>2. g[T \ {x}] = Bits(items, y) + g[(T \ {x}) \ {y}]
            BY ONLY <5>1, <6>1
          <6>3. g[T \ {y}] = Bits(items, x) + g[(T \ {y}) \ {x}]
            BY ONLY <5>1, <6>1
          <6> QED BY ONLY <5>1, <6>2, <6>3
        <5>3. z \in Nat
          <6>1. (T \ {x}) \ {y} \in SUBSET (1..n) /\ IsFiniteSet(T \ {x})
            BY <1>2
          <6>2. Cardinality((T \ {x}) \ {y}) = Cardinality(T \ {x}) - 1 /\ Cardinality(T \ {x}) \in Nat
            BY <5>1, <6>1, <1>2, FS_RemoveElement
          <6>3. Cardinality((T \ {x}) \ {y}) <= m
            BY <2>0, <2>2, <6>2
          <6> QED BY <2>1, <6>1, <6>3
        <5>4. Bits(items, x) \in Nat /\ Bits(items, y) \in Nat
          BY <1>0
        <5> HIDE DEF z
        <5> QED BY <3>1, <5>2, <5>3, <5>4
      <4> QED BY <4>1, <4>2
    <3> QED BY <3>2, <3>3
  <2> QED BY <2>4, <2>5
<1>5. M \in SUBSET Nat
  OBVIOUS
<1> HIDE DEF M
<1>6. M = Nat
  BY <1>3, <1>4, <1>5, Induction
<1>7. ASSUME NEW T \in SUBSET (1..n) PROVE Takes(T)
  <2>1. Cardinality(T) \in M /\ Cardinality(T) <= Cardinality(T)
    BY <1>2, <1>6
  <2> HIDE DEF Takes
  <2> QED BY <2>1 DEF M
<1> QED BY <1>1, <1>7 DEF Sums

LEMMA SumExists ==
  ASSUME NEW items, NEW k \in Nat, BitsUpTo(items, k)
  PROVE  \E g : IsSum(g, items, 1..k)
<1>0. \A j \in 1..k : Bits(items, j) \in Nat
  BY DEF BitsUpTo
<1> DEFINE M == {n \in Nat : n <= k => \E g : IsSum(g, items, 1..n)}
<1>1. 0 \in M
  <2> DEFINE g == [T \in SUBSET (1..0) |-> 0]
  <2>1. \A T \in SUBSET (1..0) : T = {}
    OBVIOUS
  <2>2. IsSum(g, items, 1..0)
    BY <2>1 DEF IsSum
  <2> HIDE DEF g
  <2> QED BY <2>2
<1>2. ASSUME NEW n \in M PROVE n + 1 \in M
  <2> SUFFICES ASSUME n + 1 <= k PROVE \E g : IsSum(g, items, 1..(n + 1))
    OBVIOUS
  <2>0. n \in Nat /\ n <= k /\ n + 1 \in 1..k /\ \A j \in 1..n : j \in 1..k
    OBVIOUS
  <2>1. PICK g : IsSum(g, items, 1..n)
    BY <2>0
  <2> DEFINE l == n + 1
             extra(T) == IF l \in T THEN Bits(items, l) ELSE 0
             h == [T \in SUBSET (1..l) |-> extra(T) + g[T \ {l}]]
  <2>2. /\ g[{}] = 0
        /\ \A T \in SUBSET (1..n) : g[T] \in Nat
        /\ \A T \in SUBSET (1..n) : \A y \in T : g[T] = Bits(items, y) + g[T \ {y}]
    <3>1. BitsUpTo(items, n)
      BY <1>0, <2>0 DEF BitsUpTo
    <3>2. Sums(g, items, n)
      BY <2>0, <2>1, <3>1, SumTakes
    <3> QED BY ONLY <3>2 DEF Sums
  <2>3. Bits(items, l) \in Nat /\ \A T \in SUBSET (1..l) : T \ {l} \in SUBSET (1..n)
    BY <1>0, <2>0
  <2>4. l \in 1..l /\ l \notin 1..n
    BY <2>0
  <2> HIDE DEF l
  <2>5. ASSUME NEW T \in SUBSET (1..l), NEW x \in T
        PROVE  h[T] = Bits(items, x) + h[T \ {x}]
    <3>1. T \ {x} \in SUBSET (1..l) /\ T \ {l} \in SUBSET (1..n) /\ (T \ {x}) \ {l} \in SUBSET (1..n)
      BY <2>3
    <3>2. CASE x = l
      <4>1. (T \ {x}) \ {l} = T \ {l} /\ l \in T /\ l \notin T \ {x}
        BY <3>2
      <4>2. h[T] = Bits(items, l) + g[T \ {l}] /\ h[T \ {x}] = 0 + g[T \ {l}]
        BY <3>1, <4>1
      <4>3. g[T \ {l}] \in Nat
        BY <2>2, <3>1
      <4> QED BY <3>2, <4>2, <4>3, <2>3
    <3>3. CASE x # l
      <4>1. x \in T \ {l} /\ (T \ {x}) \ {l} = (T \ {l}) \ {x} /\ (l \in T <=> l \in T \ {x})
        BY <3>3
      <4>2. h[T] = extra(T) + g[T \ {l}] /\ h[T \ {x}] = extra(T) + g[(T \ {l}) \ {x}]
        BY <3>1, <4>1
      <4>3. g[T \ {l}] = Bits(items, x) + g[(T \ {l}) \ {x}]
        BY <2>2, <3>1, <4>1
      <4>4. extra(T) \in Nat /\ Bits(items, x) \in Nat /\ g[(T \ {l}) \ {x}] \in Nat
        <5>1. x \in 1..k
          BY <2>0, <3>1, <4>1
        <5> QED BY <1>0, <2>2, <2>3, <3>1, <4>1, <5>1
      <4> HIDE DEF extra, h
      <4> QED BY <4>2, <4>3, <4>4
    <3> QED BY <3>2, <3>3
  <2>6. h[{}] = 0
    BY <2>2
  <2>7. h = [T \in SUBSET (1..l) |-> h[T]]
    OBVIOUS
  <2> HIDE DEF h
  <2>8. \A T \in SUBSET (1..l) :
          h[T] = IF T = {} THEN 0
                 ELSE LET x == CHOOSE x \in T : TRUE IN Bits(items, x) + h[T \ {x}]
    <3> TAKE T \in SUBSET (1..l)
    <3>1. CASE T = {}
      BY <2>6, <3>1
    <3>2. CASE T # {}
      <4> DEFINE x == CHOOSE x \in T : TRUE
      <4>1. x \in T
        BY <3>2
      <4> HIDE DEF x
      <4>2. h[T] = Bits(items, x) + h[T \ {x}]
        BY <2>5, <4>1
      <4> QED BY <3>2, <4>2 DEF x
    <3> QED BY <3>1, <3>2
  <2>9. IsSum(h, items, 1..l)
    BY <2>7, <2>8 DEF IsSum
  <2> QED BY <2>9 DEF l
<1>3. M \in SUBSET Nat
  OBVIOUS
<1> HIDE DEF M
<1>4. k \in M
  BY <1>1, <1>2, <1>3, Induction
<1> QED BY <1>4 DEF M

LEMMA SumUnique ==
  ASSUME NEW g, NEW h, NEW s, NEW t, NEW n \in Nat, NEW m \in Nat, n <= m,
         IsSum(g, s, 1..n), IsSum(h, t, 1..m),
         BitsUpTo(s, n), BitsUpTo(t, m),
         \A j \in 1..n : s[j] = t[j]
  PROVE  g[1..n] = h[1..n]
<1>0. Sums(g, s, n) /\ Sums(h, t, m)
  BY SumTakes
<1> DEFINE M == {i \in Nat : i <= n => g[1..i] = h[1..i]}
<1>1. 0 \in M
  <2>1. 1..0 = {}
    OBVIOUS
  <2>2. g[{}] = 0 /\ h[{}] = 0
    BY <1>0 DEF Sums
  <2> QED BY <2>1, <2>2
<1>2. ASSUME NEW i \in M PROVE i + 1 \in M
  <2> SUFFICES ASSUME i + 1 <= n PROVE g[1..(i + 1)] = h[1..(i + 1)]
    OBVIOUS
  <2> DEFINE T == 1..(i + 1)
             y == i + 1
  <2>1. /\ T \in SUBSET (1..n) /\ T \in SUBSET (1..m) /\ y \in T /\ T \ {y} = 1..i /\ y \in 1..n
        /\ i <= n
    OBVIOUS
  <2>2. Bits(s, y) = Bits(t, y)
    BY <2>1 DEF Bits
  <2> HIDE DEF T, y
  <2>3. g[T] = Bits(s, y) + g[T \ {y}] /\ h[T] = Bits(t, y) + h[T \ {y}]
    BY <1>0, <2>1 DEF Sums
  <2>4. g[1..i] = h[1..i]
    BY <2>1
  <2>5. g[T] = h[T]
    BY <2>1, <2>2, <2>3, <2>4
  <2> QED BY <2>5 DEF T
<1>3. M \in SUBSET Nat
  OBVIOUS
<1> HIDE DEF M
<1>4. n \in M
  BY <1>1, <1>2, <1>3, Induction
<1> QED BY <1>4 DEF M

LEMMA BitsType ==
  ASSUME NEW s \in Seq(Item)
  PROVE  BitsUpTo(s, Len(s))
<1> SUFFICES ASSUME NEW j \in 1..Len(s) PROVE Bits(s, j) \in Nat
  BY DEF BitsUpTo
<1>1. s[j] \in Item
  OBVIOUS
<1>2. Len(s[j].suffix) \in Nat
  BY <1>1 DEF Item, Bytes
<1> QED BY <1>2 DEF Bits, ItemLen

LEMMA SumIs ==
  ASSUME NEW s \in Seq(Item)
  PROVE  \E g : IsSum(g, s, 1..Len(s)) /\ ItemSum(s) = g[1..Len(s)]
<1>1. DOMAIN s = 1..Len(s) /\ Len(s) \in Nat
  OBVIOUS
<1> DEFINE g == CHOOSE h : IsSum(h, s, 1..Len(s))
<1>2. IsSum(g, s, 1..Len(s))
  BY <1>1, BitsType, SumExists
<1>3. ItemSum(s) = (CHOOSE h : IsSum(h, s, DOMAIN s))[DOMAIN s]
  BY DEF ItemSum, MapThenSumSet, MapThenFoldSet, IsSum, Bits
<1>4. ItemSum(s) = g[1..Len(s)]
  BY <1>1, <1>3
<1> QED BY <1>2, <1>4

\* An item makes a block longer by its own length.
LEMMA SumMore ==
  ASSUME NEW s \in Seq(Item), NEW item \in Item
  PROVE  ItemSum(s) \in Nat /\ ItemSum(Append(s, item)) = ItemSum(s) + ItemLen(Len(item.suffix))
<1> DEFINE t == Append(s, item)
           n == Len(s)
           k == n + 1
<1>1. /\ t \in Seq(Item) /\ Len(t) = k /\ n \in Nat /\ k \in Nat /\ n <= k /\ t[k] = item
      /\ (\A j \in 1..n : s[j] = t[j]) /\ k \in 1..k /\ (1..k) \ {k} = 1..n
  OBVIOUS
<1> HIDE DEF t, n, k
<1>2. PICK g : IsSum(g, s, 1..n) /\ ItemSum(s) = g[1..n]
  BY SumIs DEF n
<1>3. PICK h : IsSum(h, t, 1..k) /\ ItemSum(t) = h[1..k]
  BY <1>1, SumIs
<1>4. BitsUpTo(s, n) /\ BitsUpTo(t, k)
  BY <1>1, BitsType DEF n
<1>5. g[1..n] = h[1..n]
  <2>1. n \in Nat /\ k \in Nat /\ n <= k /\ \A j \in 1..n : s[j] = t[j]
    BY <1>1
  <2>2. IsSum(g, s, 1..n) /\ IsSum(h, t, 1..k)
    BY <1>2, <1>3
  <2>3. BitsUpTo(s, n) /\ BitsUpTo(t, k)
    BY <1>4
  <2> QED BY <2>1, <2>2, <2>3, SumUnique
<1>6. g[1..n] \in Nat
  BY <1>1, <1>2, <1>4, SumTakes DEF Sums
<1>7. h[1..k] = Bits(t, k) + h[1..n]
  <2>1. 1..k \in SUBSET (1..k)
    OBVIOUS
  <2>2. k \in Nat /\ k \in 1..k /\ (1..k) \ {k} = 1..n
    BY <1>1
  <2>3. \A T \in SUBSET (1..k) : \A y \in T : h[T] = Bits(t, y) + h[T \ {y}]
    <3>1. IsSum(h, t, 1..k) /\ BitsUpTo(t, k)
      BY <1>3, <1>4
    <3>2. Sums(h, t, k)
      BY <2>2, <3>1, SumTakes
    <3> QED BY <3>2 DEF Sums
  <2>4. h[1..k] = Bits(t, k) + h[(1..k) \ {k}]
    BY <2>1, <2>2, <2>3
  <2> QED BY <2>2, <2>4
<1>8. Bits(t, k) = ItemLen(Len(item.suffix)) /\ Bits(t, k) \in Nat
  BY <1>1, <1>4 DEF Bits, BitsUpTo
<1> QED BY <1>2, <1>3, <1>5, <1>6, <1>7, <1>8 DEF t

LEMMA SumOfNone == ItemSum(<<>>) = 0
<1>1. <<>> \in Seq(Item) /\ Len(<<>>) = 0 /\ 1..0 = {}
  OBVIOUS
<1>2. PICK g : IsSum(g, <<>>, 1..0) /\ ItemSum(<<>>) = g[1..0]
  BY <1>1, SumIs
<1>3. g[{}] = 0
  <2>1. BitsUpTo(<<>>, 0)
    BY <1>1 DEF BitsUpTo
  <2> QED BY <1>2, <2>1, SumTakes DEF Sums
<1> QED BY <1>1, <1>2, <1>3

-----------------------------------------------------------------------------
\* Entries, one after the other.

Held == [key : Key, value : Value \cup {<<>>}]

\* The keys of a sequence of entries go up.
Up(s) == \A i, j \in 1..Len(s) : i < j => Less(s[i].key, s[j].key)

LEMMA KeysAreBytes ==
  /\ Key \subseteq Bytes /\ Bound \subseteq Bytes /\ Value \cup {<<>>} \subseteq Bytes
  /\ <<>> \notin Key /\ <<>> \notin Value /\ IsFiniteSet(Key)
  /\ Absent \notin Value \cup {<<>>}
<1>1. <<>> \in Seq(0..255)
  OBVIOUS
<1>2. /\ Key \cup Value \cup Bound \subseteq Seq(0..255)
      /\ <<>> \notin Key \cup Value /\ IsFiniteSet(Key) /\ Absent \notin Value \cup {<<>>}
  BY SegmentFilesAssumption
<1>3. Bytes = Seq(0..255)
  BY DEF Bytes, Byte
<1>4. Key \subseteq Bytes /\ Value \subseteq Bytes /\ Bound \subseteq Bytes
  BY ONLY <1>2, <1>3
<1>5. <<>> \in Bytes
  BY ONLY <1>1, <1>3
<1>6. <<>> \notin Key /\ <<>> \notin Value
  BY ONLY <1>2
<1> QED BY ONLY <1>2, <1>4, <1>5, <1>6

LEMMA HeldIs ==
  ASSUME NEW e \in Held
  PROVE  e.key \in Key /\ e.key \in Bytes /\ e.value \in Bytes /\ e = [key |-> e.key, value |-> e.value]
         /\ e.key # <<>> /\ e # NoEntry /\ e.value \in Value \cup {<<>>}
BY KeysAreBytes DEF Held, NoEntry

\* Keys that go up are different.
LEMMA UpOnce ==
  ASSUME NEW s \in Seq(Held), Up(s), NEW i \in 1..Len(s), NEW j \in 1..Len(s)
  PROVE  /\ s[i].key = s[j].key => i = j
         /\ Less(s[i].key, s[j].key) => i < j
<1>1. s[i] \in Held /\ s[j] \in Held
  OBVIOUS
<1>2. s[i].key \in Bytes /\ s[j].key \in Bytes
  BY <1>1, HeldIs
<1>3. Len(s) \in Nat
  OBVIOUS
<1>4. CASE i < j
  <2>1. Less(s[i].key, s[j].key)
    BY <1>4 DEF Up
  <2> QED BY <1>2, <2>1, <1>4, LessOrder
<1>5. CASE j < i
  <2>1. Less(s[j].key, s[i].key)
    BY <1>5 DEF Up
  <2> QED BY <1>2, <2>1, <1>5, LessOrder
<1>6. CASE i = j
  BY <1>2, <1>6, LessOrder
<1> QED BY <1>3, <1>4, <1>5, <1>6

\* All of the entries of a are below all of the entries of b.
Before(a, b) == \A x \in Range(a), y \in Range(b) : Less(x.key, y.key)

LEMMA RangeIs ==
  ASSUME NEW s \in Seq(Held)
  PROVE  /\ \A i \in 1..Len(s) : s[i] \in Range(s) /\ s[i] \in Held
         /\ \A e \in Range(s) : e \in Held /\ \E i \in 1..Len(s) : s[i] = e
<1>1. DOMAIN s = 1..Len(s)
  OBVIOUS
<1> QED BY <1>1 DEF Range

LEMMA AppendIs ==
  ASSUME NEW s \in Seq(Held), NEW t \in Seq(Held), NEW e \in Held, Len(t) = Len(s) + 1,
         t[Len(s) + 1] = e, \A i \in 1..Len(s) : t[i] = s[i]
  PROVE  t = Append(s, e)
<1> DEFINE u == Append(s, e)
<1>1. u \in Seq(Held) /\ Len(u) = Len(s) + 1 /\ u[Len(s) + 1] = e /\ \A i \in 1..Len(s) : u[i] = s[i]
  OBVIOUS
<1>2. Len(s) \in Nat
  OBVIOUS
<1> HIDE DEF u
<1>3. \A i \in 1..Len(t) : t[i] = u[i]
  <2> TAKE i \in 1..Len(t)
  <2>1. i \in 1..Len(s) \/ i = Len(s) + 1
    BY <1>2
  <2> QED BY <2>1, <1>1
<1>4. t = u
  BY <1>1, <1>2, <1>3
<1> QED BY <1>4 DEF u

LEMMA AppendJoined ==
  ASSUME NEW a \in Seq(Held), NEW b \in Seq(Held), NEW e \in Held
  PROVE  a \o Append(b, e) = Append(a \o b, e)
OBVIOUS

LEMMA JoinIs ==
  ASSUME NEW a \in Seq(Held), NEW b \in Seq(Held)
  PROVE  /\ a \o b \in Seq(Held)
         /\ Range(a \o b) = Range(a) \cup Range(b)
         /\ Up(a \o b) <=> Up(a) /\ Up(b) /\ Before(a, b)
<1> DEFINE c == a \o b
           n == Len(a)
           m == Len(b)
<1>0. /\ c \in Seq(Held) /\ Len(c) = n + m /\ n \in Nat /\ m \in Nat
      /\ \A i \in 1..n : c[i] = a[i]
      /\ \A i \in 1..m : c[n + i] = b[i]
  OBVIOUS
<1>r. /\ \A i \in 1..n : a[i] \in Range(a)
      /\ \A e \in Range(a) : \E i \in 1..n : a[i] = e
      /\ \A i \in 1..m : b[i] \in Range(b)
      /\ \A e \in Range(b) : \E i \in 1..m : b[i] = e
  BY RangeIs
<1> HIDE DEF c
<1>1. \A i \in 1..Len(c) : i \in 1..n \/ (i - n \in 1..m /\ n + (i - n) = i /\ i > n)
  BY <1>0
<1>s. /\ \A i \in 1..Len(c) : c[i] \in Range(c)
      /\ \A e \in Range(c) : \E i \in 1..Len(c) : c[i] = e
  BY <1>0, RangeIs
<1>2. Range(c) = Range(a) \cup Range(b)
  <2>1. ASSUME NEW e \in Range(c) PROVE e \in Range(a) \cup Range(b)
    <3>1. PICK i \in 1..Len(c) : c[i] = e
      BY <1>s
    <3>2. CASE i \in 1..n
      BY <1>0, <1>r, <3>1, <3>2
    <3>3. CASE i - n \in 1..m /\ n + (i - n) = i
      BY <1>0, <1>r, <3>1, <3>3
    <3> QED BY <1>1, <3>2, <3>3
  <2>2. ASSUME NEW e \in Range(a) PROVE e \in Range(c)
    <3>1. PICK i \in 1..n : a[i] = e
      BY <1>r
    <3>2. i \in 1..Len(c) /\ c[i] = e
      BY <1>0, <3>1
    <3> QED BY <1>s, <3>2
  <2>3. ASSUME NEW e \in Range(b) PROVE e \in Range(c)
    <3>1. PICK i \in 1..m : b[i] = e
      BY <1>r
    <3>2. n + i \in 1..Len(c) /\ c[n + i] = e
      BY <1>0, <3>1
    <3> QED BY <1>s, <3>2
  <2> QED BY <2>1, <2>2, <2>3
<1>3. ASSUME Up(c) PROVE Up(a) /\ Up(b) /\ Before(a, b)
  <2>1. ASSUME NEW i \in 1..n, NEW j \in 1..n, i < j PROVE Less(a[i].key, a[j].key)
    <3>1. i \in 1..Len(c) /\ j \in 1..Len(c) /\ c[i] = a[i] /\ c[j] = a[j]
      BY <1>0
    <3> QED BY <3>1, <2>1, <1>3 DEF Up
  <2>2. ASSUME NEW i \in 1..m, NEW j \in 1..m, i < j PROVE Less(b[i].key, b[j].key)
    <3>1. n + i \in 1..Len(c) /\ n + j \in 1..Len(c) /\ c[n + i] = b[i] /\ c[n + j] = b[j] /\ n + i < n + j
      BY <1>0, <2>2
    <3> QED BY <3>1, <1>3 DEF Up
  <2>3. ASSUME NEW x \in Range(a), NEW y \in Range(b) PROVE Less(x.key, y.key)
    <3>1. PICK i \in 1..n : a[i] = x
      BY <1>r
    <3>2. PICK j \in 1..m : b[j] = y
      BY <1>r
    <3>3. i \in 1..Len(c) /\ n + j \in 1..Len(c) /\ c[i] = x /\ c[n + j] = y /\ i < n + j
      BY <1>0, <3>1, <3>2
    <3> QED BY <3>3, <1>3 DEF Up
  <2> QED BY <2>1, <2>2, <2>3 DEF Up, Before
<1>4. ASSUME Up(a), Up(b), Before(a, b) PROVE Up(c)
  <2> SUFFICES ASSUME NEW i \in 1..Len(c), NEW j \in 1..Len(c), i < j
               PROVE  Less(c[i].key, c[j].key)
    BY DEF Up
  <2>1. CASE i \in 1..n /\ j \in 1..n
    BY <1>0, <1>4, <2>1 DEF Up
  <2>2. CASE i \in 1..n /\ j - n \in 1..m /\ n + (j - n) = j
    <3>1. c[i] = a[i] /\ c[j] = b[j - n]
      BY <1>0, <2>2
    <3>2. c[i] \in Range(a) /\ c[j] \in Range(b)
      BY <1>r, <2>2, <3>1
    <3> QED BY <1>4, <3>2 DEF Before
  <2>3. CASE /\ i - n \in 1..m /\ n + (i - n) = i
             /\ j - n \in 1..m /\ n + (j - n) = j
    <3> DEFINE p == i - n
               q == j - n
    <3>1. p \in 1..m /\ q \in 1..m /\ n + p = i /\ n + q = j
      BY ONLY <2>3
    <3> HIDE DEF p, q
    <3>2. c[i] = b[p] /\ c[j] = b[q]
      BY ONLY <1>0, <3>1
    <3>3. p < q
      BY ONLY <1>0, <3>1, i < j
    <3>4. Less(b[p].key, b[q].key)
      BY <1>4, <3>1, <3>3 DEF Up
    <3> QED BY ONLY <3>2, <3>4
  <2>4. ~(i \notin 1..n /\ j \in 1..n)
    BY <1>0
  <2> QED BY <1>1, <2>1, <2>2, <2>3, <2>4
<1> QED BY <1>0, <1>2, <1>3, <1>4 DEF c

\* What is known of sequences of entries that are put one after the other.
FlatProperties(s) ==
  /\ FlattenSeq(s) \in Seq(Held)
  /\ Range(FlattenSeq(s)) = {e \in Held : \E b \in 1..Len(s) : e \in Range(s[b])}
  /\ Up(FlattenSeq(s)) <=> /\ \A b \in 1..Len(s) : Up(s[b])
                           /\ \A b, c \in 1..Len(s) : b < c => Before(s[b], s[c])

LEMMA FlattenProperties ==
  ASSUME NEW s \in Seq(Seq(Held))
  PROVE  FlatProperties(s)
<1> DEFINE M == {n \in Nat : \A x \in Seq(Seq(Held)) : Len(x) = n => FlatProperties(x)}
<1>1. 0 \in M
  <2> SUFFICES ASSUME NEW x \in Seq(Seq(Held)), Len(x) = 0 PROVE FlatProperties(x)
    OBVIOUS
  <2>1. x = <<>>
    OBVIOUS
  <2>2. FlattenSeq(x) = <<>>
    BY <2>1 DEF FlattenSeq
  <2>3. <<>> \in Seq(Held) /\ Range(<<>>) = {} /\ Len(<<>>) = 0 /\ 1..0 = {}
    BY DEF Range
  <2> QED BY <2>1, <2>2, <2>3 DEF FlatProperties, Up
<1>2. ASSUME NEW n \in M PROVE n + 1 \in M
  <2> SUFFICES ASSUME NEW x \in Seq(Seq(Held)), Len(x) = n + 1 PROVE FlatProperties(x)
    OBVIOUS
  <2> DEFINE y == SubSeq(x, 1, n)
             k == n + 1
  <2>1. /\ y \in Seq(Seq(Held)) /\ Len(y) = n /\ (\A i \in 1..n : x[i] = y[i]) /\ n \in Nat
        /\ k \in 1..k /\ x[k] \in Seq(Held) /\ Len(x) = k
        /\ \A i \in 1..k : i \in 1..n \/ i = k
        /\ \A i \in 1..n : i \in 1..k /\ i < k
    OBVIOUS
  <2>2. FlatProperties(y)
    <3> HIDE DEF y
    <3> QED BY <2>1
  <2>3. FlattenSeq(x) = IF n = 0 THEN x[1] ELSE FlattenSeq(y) \o x[k]
    <3> HIDE DEF y
    <3> QED BY <2>1, FlattenMore
  <2> HIDE DEF y
  <2>4. CASE n = 0
    <3>1. k = 1
      BY <2>4
    <3>2. FlattenSeq(x) = x[k]
      BY <2>3, <2>4, <3>1
    <3>3. \A i \in 1..k : i = k
      BY <3>1
    <3>4. Range(x[k]) \subseteq Held
      BY <2>1, RangeIs
    <3> HIDE DEF k
    <3> QED BY <2>1, <3>2, <3>3, <3>4 DEF FlatProperties
  <2>5. CASE n # 0
    <3> HIDE DEF k
    <3> DEFINE a == FlattenSeq(y)
    <3>1. FlattenSeq(x) = a \o x[k]
      BY <2>3, <2>5
    <3>2. /\ a \in Seq(Held)
          /\ Range(a) = {e \in Held : \E b \in 1..n : e \in Range(x[b])}
          /\ Up(a) <=> /\ \A b \in 1..n : Up(x[b])
                       /\ \A b, c \in 1..n : b < c => Before(x[b], x[c])
      BY <2>1, <2>2 DEF FlatProperties
    <3> HIDE DEF a
    <3>3. /\ a \o x[k] \in Seq(Held)
          /\ Range(a \o x[k]) = Range(a) \cup Range(x[k])
          /\ Up(a \o x[k]) <=> Up(a) /\ Up(x[k]) /\ Before(a, x[k])
      BY <2>1, <3>2, JoinIs
    <3>4. Range(x[k]) \subseteq Held
      BY <2>1, RangeIs
    <3>5. Before(a, x[k]) <=> \A b \in 1..n : Before(x[b], x[k])
      <4>1. \A b \in 1..n : Range(x[b]) \subseteq Held
        <5>1. \A b \in 1..n : x[b] \in Seq(Held)
          BY <2>1
        <5> QED BY <5>1, RangeIs
      <4> QED BY <3>2, <4>1 DEF Before
    <3>6. Range(FlattenSeq(x)) = {e \in Held : \E b \in 1..k : e \in Range(x[b])}
      BY <2>1, <3>1, <3>2, <3>3, <3>4
    <3>7. Up(FlattenSeq(x)) <=> /\ \A b \in 1..k : Up(x[b])
                                /\ \A b, c \in 1..k : b < c => Before(x[b], x[c])
      <4>1. Up(FlattenSeq(x)) <=> /\ \A b \in 1..n : Up(x[b])
                                  /\ \A b, c \in 1..n : b < c => Before(x[b], x[c])
                                  /\ Up(x[k])
                                  /\ \A b \in 1..n : Before(x[b], x[k])
        BY <3>1, <3>2, <3>3, <3>5
      <4>2. (\A b \in 1..k : Up(x[b])) <=> (\A b \in 1..n : Up(x[b])) /\ Up(x[k])
        BY <2>1
      <4>3. (\A b, c \in 1..k : b < c => Before(x[b], x[c])) <=>
              /\ \A b, c \in 1..n : b < c => Before(x[b], x[c])
              /\ \A b \in 1..n : Before(x[b], x[k])
        <5>1. \A c \in 1..k : c # k => c \in 1..n
          BY <2>1
        <5>2. \A c \in 1..k : ~(k < c)
          BY <2>1
        <5> QED BY <2>1, <5>1, <5>2
      <4> QED BY <4>1, <4>2, <4>3
    <3> QED BY <2>1, <3>1, <3>3, <3>6, <3>7 DEF FlatProperties
  <2> QED BY <2>4, <2>5
<1>3. M \in SUBSET Nat
  OBVIOUS
<1> HIDE DEF M
<1>4. Len(s) \in M
  <2>1. Len(s) \in Nat
    OBVIOUS
  <2> QED BY <1>1, <1>2, <1>3, <2>1, Induction
<1> QED BY <1>4 DEF M

-----------------------------------------------------------------------------
\* Writing an entry.

LEMMA CommonLenIs ==
  ASSUME NEW a \in Bytes, NEW b \in Bytes
  PROVE  /\ CommonLen(a, b) \in 0..Len(a) /\ CommonLen(a, b) <= Len(b)
         /\ SubSeq(a, 1, CommonLen(a, b)) = SubSeq(b, 1, CommonLen(a, b))
<1> DEFINE T == {n \in 0..Len(a) : n <= Len(b) /\ SubSeq(a, 1, n) = SubSeq(b, 1, n)}
<1>1. Len(a) \in Nat /\ Len(b) \in Nat
  BY DEF Bytes
<1>2. 0 \in T
  <2>1. SubSeq(a, 1, 0) = <<>> /\ SubSeq(b, 1, 0) = <<>>
    BY DEF Bytes
  <2> QED BY <1>1, <2>1
<1>3. T \in SUBSET (0..Len(a)) /\ T # {}
  BY <1>2
<1>4. CommonLen(a, b) = Max(T)
  BY DEF CommonLen
<1>5. CommonLen(a, b) \in T
  <2> HIDE DEF T
  <2> QED BY <1>1, <1>3, <1>4, Greatest
<1> QED BY <1>5

LEMMA BytesJoined ==
  ASSUME NEW a \in Bytes, NEW b \in Bytes
  PROVE  /\ a \o b \in Bytes /\ Len(a \o b) = Len(a) + Len(b)
         /\ \A i \in 1..Len(a) : (a \o b)[i] = a[i]
         /\ \A i \in 1..Len(b) : (a \o b)[Len(a) + i] = b[i]
BY DEF Bytes

\* A key is the prefix that it shares with the key before it, and the rest.
LEMMA CutAndJoined ==
  ASSUME NEW key \in Bytes, NEW p \in Nat, p <= Len(key)
  PROVE  /\ SubSeq(key, 1, p) \o SubSeq(key, p + 1, Len(key)) = key
         /\ SubSeq(key, p + 1, Len(key)) \in Bytes
         /\ Len(SubSeq(key, p + 1, Len(key))) = Len(key) - p
<1> DEFINE q == p + 1
           n == Len(key)
           a == SubSeq(key, 1, p)
           b == SubSeq(key, q, n)
<1>1. n \in Nat /\ q \in Nat /\ q <= n + 1 /\ 1 <= q /\ key \in Seq(Byte) /\ q = p + 1
  BY DEF Bytes
<1> HIDE DEF q
<1>2. a \in Seq(Byte) /\ Len(a) = p /\ \A i \in 1..p : a[i] = key[i]
  BY <1>1
<1>3. b \in Seq(Byte) /\ Len(b) = n - p /\ \A i \in 1..(n - p) : b[i] = key[i + p]
  <2>1. b \in Seq(Byte)
    BY <1>1
  <2>2. Len(b) = n - p
    BY <1>1
  <2>3. \A i \in 1..(n - p) : b[i] = key[q + i - 1]
    BY <1>1
  <2>4. \A i \in 1..(n - p) : q + i - 1 = i + p
    BY <1>1
  <2> QED BY <2>1, <2>2, <2>3, <2>4
<1> HIDE DEF a, b, n
<1>4. a \o b = key
  <2> DEFINE c == a \o b
  <2>1. /\ c \in Seq(Byte) /\ Len(c) = Len(a) + Len(b)
        /\ \A i \in 1..Len(a) : c[i] = a[i]
        /\ \A i \in 1..Len(b) : c[Len(a) + i] = b[i]
    <3>1. a \in Bytes /\ b \in Bytes
      BY <1>2, <1>3 DEF Bytes
    <3> QED BY <3>1, BytesJoined DEF Bytes
  <2> HIDE DEF c
  <2>2. Len(c) = n
    BY <1>1, <1>2, <1>3, <2>1
  <2>3. \A i \in 1..n : c[i] = key[i]
    <3> TAKE i \in 1..n
    <3>1. CASE i <= p
      <4>1. i \in 1..p
        BY <3>1, <1>1
      <4> QED BY <4>1, <1>2, <2>1
    <3>2. CASE i > p
      <4>1. i - p \in 1..(n - p) /\ (i - p) + p = i /\ p + (i - p) = i
        BY <3>2, <1>1
      <4>2. c[p + (i - p)] = b[i - p]
        BY <4>1, <1>2, <1>3, <2>1
      <4> QED BY <4>1, <4>2, <1>3
    <3> QED BY <3>1, <3>2, <1>1
  <2>4. n = Len(key)
    BY DEF n
  <2>5. c = key
    BY <1>1, <2>1, <2>2, <2>3, <2>4
  <2> QED BY <2>5 DEF c
<1> QED BY <1>3, <1>4 DEF a, b, n, q, Bytes

\* The item that WriteEntry adds for an entry.
FreshBlock(f, e) == f.keyBlockLen = 0 \/ BlockIsFull(f, e.key)

PrefixOf(f, e) == CalculatePrefixLen(PrevKey(f, e.key), e.key)

NewItem(f, e) ==
  [prefix |-> PrefixOf(f, e) % (maxPrefixLen + 1),
   suffix |-> SubSeq(e.key, PrefixOf(f, e) + 1, Len(e.key)),
   offset |-> Len(f.data), length |-> Len(e.value)]

LEMMA PrefixIs ==
  ASSUME NEW a \in Bytes, NEW b \in Bytes
  PROVE  /\ CalculatePrefixLen(a, b) \in Nat
         /\ CalculatePrefixLen(a, b) % (maxPrefixLen + 1) = CalculatePrefixLen(a, b)
         /\ CalculatePrefixLen(a, b) <= Len(a) /\ CalculatePrefixLen(a, b) <= Len(b)
         /\ SubSeq(a, 1, CalculatePrefixLen(a, b)) = SubSeq(b, 1, CalculatePrefixLen(a, b))
<1> DEFINE n == CommonLen(a, b)
           p == CalculatePrefixLen(a, b)
<1>1. /\ n \in Nat /\ n <= Len(a) /\ n <= Len(b) /\ SubSeq(a, 1, n) = SubSeq(b, 1, n)
      /\ Len(a) \in Nat /\ Len(b) \in Nat
  <2>1. Len(a) \in Nat /\ Len(b) \in Nat
    BY DEF Bytes
  <2>2. n \in 0..Len(a) /\ n <= Len(b) /\ SubSeq(a, 1, n) = SubSeq(b, 1, n)
    BY CommonLenIs
  <2> HIDE DEF n
  <2> QED BY ONLY <2>1, <2>2
<1>2. maxPrefixLen \in Nat
  BY KeyFileAssumption
<1>3. p = IF TooLongToCompress(n, Len(b) - n) THEN 0 ELSE n
  BY DEF CalculatePrefixLen
<1> HIDE DEF n, p
<1>4. CASE TooLongToCompress(n, Len(b) - n)
  <2>1. p = 0 /\ 0 % (maxPrefixLen + 1) = 0
    BY <1>2, <1>3, <1>4
  <2>2. SubSeq(a, 1, 0) = <<>> /\ SubSeq(b, 1, 0) = <<>>
    BY DEF Bytes
  <2> QED BY <1>1, <2>1, <2>2 DEF p
<1>5. CASE ~TooLongToCompress(n, Len(b) - n)
  <2>1. p = n /\ n <= maxPrefixLen
    BY <1>1, <1>2, <1>3, <1>5 DEF TooLongToCompress
  <2>2. n % (maxPrefixLen + 1) = n
    BY <1>1, <1>2, <2>1
  <2> QED BY <1>1, <2>1, <2>2 DEF p
<1> QED BY <1>4, <1>5

LEMMA NewItemIs ==
  ASSUME NEW f, NEW e \in Held, f.data \in Bytes, f.prevKey \in Bytes
  PROVE  /\ NewItem(f, e) \in Item
         /\ NextKey(PrevKey(f, e.key), NewItem(f, e)) = e.key
         /\ PrevKey(f, e.key) = <<>> => NewItem(f, e).prefix = 0 /\ NewItem(f, e).suffix = e.key
         /\ Len(NewItem(f, e).suffix) <= Len(e.key)
         /\ NewItem(f, e).offset = Len(f.data) /\ NewItem(f, e).length = Len(e.value)
<1> DEFINE a == PrevKey(f, e.key)
           b == e.key
           p == PrefixOf(f, e)
           s == SubSeq(b, p + 1, Len(b))
<1>1. a \in Bytes /\ b \in Bytes /\ e.value \in Bytes
  BY HeldIs, LessEmpty DEF PrevKey
<1>2. /\ p \in Nat /\ p % (maxPrefixLen + 1) = p /\ p <= Len(a) /\ p <= Len(b)
      /\ SubSeq(a, 1, p) = SubSeq(b, 1, p)
  <2> HIDE DEF a, b
  <2>1. p = CalculatePrefixLen(a, b)
    BY DEF PrefixOf, a, b
  <2> QED BY <1>1, <2>1, PrefixIs
<1> HIDE DEF a, b, p
<1>3. SubSeq(b, 1, p) \o s = b /\ s \in Bytes /\ Len(s) = Len(b) - p
  BY <1>1, <1>2, CutAndJoined
<1>4. NewItem(f, e) = [prefix |-> p, suffix |-> s, offset |-> Len(f.data), length |-> Len(e.value)]
  BY <1>2 DEF NewItem, p, b
<1> HIDE DEF s
<1>5. Len(f.data) \in Nat /\ Len(e.value) \in Nat /\ Len(b) \in Nat
  BY <1>1 DEF Bytes
<1>6. NextKey(a, NewItem(f, e)) = b
  BY <1>2, <1>3, <1>4 DEF NextKey
<1>7. ASSUME a = <<>> PROVE p = 0 /\ s = b
  <2>1. p = 0
    BY <1>2, <1>7
  <2>2. SubSeq(b, 1, 0) = <<>> /\ \A x \in Bytes : <<>> \o x = x
    BY <1>1 DEF Bytes
  <2> QED BY <1>3, <2>1, <2>2
<1> QED BY <1>2, <1>3, <1>4, <1>5, <1>6, <1>7 DEF a, b, Item

\* What the items of a block say with the data that belongs to them.
EntriesIn(items, data) ==
  [i \in 1..Len(items) |->
     [key |-> DecodedKeys(items)[i],
      value |-> SubSeq(data, items[i].offset + 1, items[i].offset + items[i].length)]]

LEMMA DecodedIsEntries ==
  ASSUME NEW seg, NEW b \in Int
  PROVE  Decoded(seg, b - 1) = EntriesIn(seg.blocks[b], seg.data)
<1>1. (b - 1) + 1 = b
  OBVIOUS
<1>2. Block(seg, b - 1) = seg.blocks[b]
  BY <1>1 DEF Block
<1> QED BY <1>2 DEF Decoded, EntriesIn, ValueOf

\* A block that can be read and does not run over.
ItemsOK(items, data) ==
  /\ items \in Seq(Item) /\ Len(items) # 0 /\ items[1].prefix = 0
  /\ ItemSum(items) + 2 <= keyBlockSize
  /\ \A i \in 1..Len(items) : items[i].offset + items[i].length <= Len(data)
  /\ EntriesIn(items, data) \in Seq(Held)

LEMMA DataKept ==
  ASSUME NEW a \in Bytes, NEW b \in Bytes, NEW m \in Nat, NEW n \in Nat, m + n <= Len(a)
  PROVE  SubSeq(a \o b, m + 1, m + n) = SubSeq(a, m + 1, m + n)
<1> DEFINE c == a \o b
           p == m + 1
           q == m + n
<1>1. c \in Seq(Byte) /\ Len(a) <= Len(c) /\ a \in Seq(Byte) /\ \A i \in 1..Len(a) : c[i] = a[i]
  <2>1. Len(a) \in Nat /\ Len(b) \in Nat
    BY DEF Bytes
  <2> QED BY <2>1, BytesJoined DEF Bytes
<1>2. p \in Nat /\ q \in Nat /\ 1 <= p /\ p <= q + 1 /\ q <= Len(a)
  OBVIOUS
<1> HIDE DEF c, p, q
<1>3. SubSeq(c, p, q) = SubSeq(a, p, q)
  <2>1. Len(a) \in Nat /\ Len(c) \in Nat
    BY <1>1
  <2>2. \A i \in p..q : c[i] = a[i]
    BY <1>1, <1>2, <2>1
  <2> QED BY <1>1, <1>2, <2>1, <2>2
<1> QED BY <1>3 DEF c, p, q

LEMMA DataAdded ==
  ASSUME NEW a \in Bytes, NEW b \in Bytes
  PROVE  SubSeq(a \o b, Len(a) + 1, Len(a) + Len(b)) = b
<1> DEFINE c == a \o b
           n == Len(a)
           m == Len(b)
           p == n + 1
           q == n + m
<1>1. /\ c \in Seq(Byte) /\ Len(c) = q /\ b \in Seq(Byte) /\ n \in Nat /\ m \in Nat
      /\ \A i \in 1..m : c[n + i] = b[i]
  BY BytesJoined DEF Bytes
<1>2. p \in Nat /\ q \in Nat /\ 1 <= p /\ p <= q + 1 /\ q - p + 1 = m /\ p - 1 = n
  BY <1>1
<1> HIDE DEF c, p, q, n
<1> DEFINE d == SubSeq(c, p, q)
<1>3. d \in Seq(Byte) /\ Len(d) = m /\ \A i \in 1..m : d[i] = c[p + i - 1]
  BY <1>1, <1>2
<1>4. \A i \in 1..m : p + i - 1 = n + i
  BY <1>1, <1>2
<1> HIDE DEF d, m
<1>5. \A i \in 1..m : d[i] = b[i]
  BY <1>1, <1>3, <1>4
<1>6. d = b
  BY <1>1, <1>3, <1>5 DEF m
<1> QED BY <1>6 DEF c, p, q, n, m, d

\* More data changes nothing about the blocks that are there.
LEMMA ItemsKept ==
  ASSUME NEW items, NEW data \in Bytes, NEW v \in Bytes, ItemsOK(items, data)
  PROVE  ItemsOK(items, data \o v) /\ EntriesIn(items, data \o v) = EntriesIn(items, data)
<1>1. items \in Seq(Item) /\ \A i \in 1..Len(items) : items[i].offset + items[i].length <= Len(data)
  BY DEF ItemsOK
<1>2. data \o v \in Bytes /\ Len(data) <= Len(data \o v) /\ Len(data) \in Nat /\ Len(data \o v) \in Nat
  <2>1. Len(data) \in Nat /\ Len(v) \in Nat
    BY DEF Bytes
  <2> QED BY <2>1, BytesJoined
<1>3. \A i \in 1..Len(items) :
        /\ items[i].offset \in Nat /\ items[i].length \in Nat
        /\ items[i].offset + items[i].length <= Len(data \o v)
        /\ SubSeq(data \o v, items[i].offset + 1, items[i].offset + items[i].length)
             = SubSeq(data, items[i].offset + 1, items[i].offset + items[i].length)
  <2> TAKE i \in 1..Len(items)
  <2>1. items[i].offset \in Nat /\ items[i].length \in Nat
    <3>1. items[i] \in Item
      BY <1>1
    <3> QED BY <3>1 DEF Item
  <2>2. items[i].offset + items[i].length <= Len(data)
    BY <1>1
  <2>3. items[i].offset + items[i].length <= Len(data \o v)
    BY <1>2, <2>1, <2>2
  <2> QED BY <2>1, <2>2, <2>3, DataKept
<1>4. EntriesIn(items, data \o v) = EntriesIn(items, data)
  BY <1>3 DEF EntriesIn
<1> QED BY <1>3, <1>4 DEF ItemsOK

\* An entry more.
LEMMA ItemsMore ==
  ASSUME NEW items, NEW data \in Bytes, NEW e \in Held, NEW item \in Item, ItemsOK(items, data),
         NextKey(DecodedKeys(items)[Len(items)], item) = e.key,
         item.offset = Len(data), item.length = Len(e.value),
         ItemSum(items) + ItemLen(Len(item.suffix)) + 2 <= keyBlockSize
  PROVE  /\ ItemsOK(Append(items, item), data \o e.value)
         /\ EntriesIn(Append(items, item), data \o e.value) = Append(EntriesIn(items, data), e)
         /\ DecodedKeys(Append(items, item))[Len(Append(items, item))] = e.key
<1> DEFINE more == Append(items, item)
           d == data \o e.value
           n == Len(items)
<1>1. /\ items \in Seq(Item) /\ n \in Nat /\ n # 0 /\ more \in Seq(Item) /\ Len(more) = n + 1
      /\ more[n + 1] = item /\ \A i \in 1..n : more[i] = items[i]
  BY DEF ItemsOK
<1>2. e.value \in Bytes /\ e = [key |-> e.key, value |-> e.value]
  BY HeldIs
<1>3. ItemsOK(items, d) /\ EntriesIn(items, d) = EntriesIn(items, data)
  BY <1>2, ItemsKept
<1>4. /\ \A i \in 0..n : DecodedKeys(more)[i] = DecodedKeys(items)[i]
      /\ DecodedKeys(more)[n + 1] = e.key
  BY <1>1, DecodedMore
<1>5. SubSeq(d, item.offset + 1, item.offset + item.length) = e.value
  BY <1>2, DataAdded
<1>6. ItemSum(more) = ItemSum(items) + ItemLen(Len(item.suffix))
  BY <1>1, SumMore
<1>7. Len(d) = Len(data) + Len(e.value) /\ Len(data) \in Nat /\ Len(e.value) \in Nat
  BY <1>2, BytesJoined DEF Bytes
<1> HIDE DEF more, d
<1> DEFINE k == n + 1
           was == EntriesIn(items, data)
           new == EntriesIn(more, d)
<1>8. /\ k \in 1..k /\ k \in Nat /\ Len(more) = k
      /\ \A i \in 1..k : i \in 1..n \/ i = k
      /\ \A i \in 1..n : i \in 1..k /\ i # k /\ i \in 0..n
  BY <1>1
<1>9. was \in Seq(Held) /\ Len(was) = n
  <2>1. was \in Seq(Held)
    BY DEF ItemsOK
  <2>2. DOMAIN was = 1..n
    BY DEF EntriesIn
  <2> QED BY <1>1, <2>1, <2>2
<1>10. \A i \in 1..n : new[i] = was[i]
  <2> TAKE i \in 1..n
  <2>1. new[i] = [key |-> DecodedKeys(more)[i],
                  value |-> SubSeq(d, more[i].offset + 1, more[i].offset + more[i].length)]
    BY <1>8 DEF EntriesIn
  <2>2. EntriesIn(items, d)[i]
          = [key |-> DecodedKeys(items)[i],
             value |-> SubSeq(d, items[i].offset + 1, items[i].offset + items[i].length)]
    BY DEF EntriesIn
  <2>3. new[i] = EntriesIn(items, d)[i]
    <3> HIDE DEF new
    <3> QED BY <1>1, <1>4, <1>8, <2>1, <2>2
  <2> QED BY <2>3, <1>3
<1>11. new[k] = e
  <2>1. new[k] = [key |-> DecodedKeys(more)[k],
                  value |-> SubSeq(d, more[k].offset + 1, more[k].offset + more[k].length)]
    BY <1>8 DEF EntriesIn
  <2> HIDE DEF new
  <2>2. new[k] = [key |-> e.key, value |-> e.value]
    BY <1>1, <1>4, <1>5, <2>1
  <2> QED BY <2>2, <1>2
<1>12. new = Append(was, e)
  <2>1. new = [i \in 1..k |-> new[i]]
    BY <1>8 DEF EntriesIn
  <2> HIDE DEF new, was
  <2>2. \A i \in 1..k : new[i] \in Held
    <3>1. \A i \in 1..n : was[i] \in Held
      BY <1>9
    <3> QED BY <3>1, <1>8, <1>10, <1>11
  <2>3. new \in Seq(Held) /\ Len(new) = k
    <3>1. new \in [1..k -> Held]
      BY <2>1, <2>2
    <3> HIDE DEF k
    <3> QED BY <1>8, <3>1
  <2> QED BY <1>9, <1>10, <1>11, <2>3, AppendIs
<1>13. new \in Seq(Held)
  <2> HIDE DEF new, was
  <2> QED BY <1>9, <1>12
<1> HIDE DEF k, n, new
<1>14. ItemsOK(more, d)
  <2>1. Len(more) # 0 /\ more[1].prefix = 0
    <3>1. 1 \in 1..n /\ items[1].prefix = 0
      BY <1>1 DEF ItemsOK
    <3> QED BY <1>1, <3>1
  <2>2. \A i \in 1..Len(more) : more[i].offset + more[i].length <= Len(d)
    <3> TAKE i \in 1..Len(more)
    <3>1. CASE i = k
      BY <1>1, <1>7, <3>1 DEF k
    <3>2. CASE i \in 1..n
      BY <1>1, <1>3, <3>2 DEF ItemsOK, n
    <3> QED BY <1>8, <3>1, <3>2
  <2>3. ItemSum(more) + 2 <= keyBlockSize
    BY <1>6
  <2> QED BY <1>1, <1>13, <2>1, <2>2, <2>3 DEF ItemsOK, new
<1> QED BY <1>4, <1>8, <1>12, <1>14 DEF more, d, k, new

\* The first entry of a block.
LEMMA ItemsFirst ==
  ASSUME NEW data \in Bytes, NEW e \in Held, NEW item \in Item,
         item.prefix = 0, item.suffix = e.key, item.offset = Len(data), item.length = Len(e.value)
  PROVE  /\ ItemsOK(<<item>>, data \o e.value)
         /\ EntriesIn(<<item>>, data \o e.value) = <<e>>
         /\ DecodedKeys(<<item>>)[1] = e.key
         /\ ItemSum(<<item>>) = ItemLen(Len(e.key))
<1> DEFINE d == data \o e.value
<1>1. <<item>> \in Seq(Item) /\ Len(<<item>>) = 1 /\ <<item>>[1] = item
      /\ <<>> \in Seq(Item) /\ <<item>> = Append(<<>>, item)
  OBVIOUS
<1>2. DecodedKeys(<<item>>)[1] = e.key
  <2> DEFINE one == <<item>>
  <2>1. one \in Seq(Item) /\ Len(one) # 0 /\ one[1] = item
    BY <1>1
  <2> HIDE DEF one
  <2>2. DecodedKeys(one)[1] = one[1].suffix
    BY <2>1, FirstKeyIs
  <2> QED BY <2>1, <2>2 DEF one
<1>3. ItemSum(<<item>>) = ItemLen(Len(e.key))
  <2>1. ItemSum(Append(<<>>, item)) = ItemSum(<<>>) + ItemLen(Len(item.suffix))
    BY <1>1, SumMore
  <2>2. ItemLen(Len(e.key)) \in Nat
    <3>1. Len(e.key) \in Nat
      BY HeldIs DEF Bytes
    <3> QED BY <3>1 DEF ItemLen
  <2> QED BY <1>1, <2>1, <2>2, SumOfNone
<1>4. e.value \in Bytes /\ e = [key |-> e.key, value |-> e.value] /\ e.key \in Key
  BY HeldIs
<1>5. SubSeq(d, item.offset + 1, item.offset + item.length) = e.value
  BY <1>4, DataAdded
<1>6. Len(d) = Len(data) + Len(e.value) /\ Len(data) \in Nat /\ Len(e.value) \in Nat
  BY <1>4, BytesJoined DEF Bytes
<1> HIDE DEF d
<1>7. EntriesIn(<<item>>, d) = <<e>>
  <2>1. EntriesIn(<<item>>, d)
          = [i \in 1..1 |-> [key |-> DecodedKeys(<<item>>)[i],
                             value |-> SubSeq(d, <<item>>[i].offset + 1, <<item>>[i].offset + <<item>>[i].length)]]
    BY <1>1 DEF EntriesIn
  <2> DEFINE new == EntriesIn(<<item>>, d)
  <2>2. new = [i \in 1..1 |-> new[i]]
    BY <2>1
  <2>3. 1 \in 1..1 /\ \A i \in 1..1 : i = 1
    OBVIOUS
  <2>4. new[1] = [key |-> DecodedKeys(<<item>>)[1],
                  value |-> SubSeq(d, <<item>>[1].offset + 1, <<item>>[1].offset + <<item>>[1].length)]
    BY <2>1, <2>3
  <2>5. new[1] = e
    <3> HIDE DEF new
    <3> QED BY <2>4, <1>1, <1>2, <1>4, <1>5
  <2> HIDE DEF new
  <2>6. new = <<e>>
    BY <2>2, <2>3, <2>5
  <2> QED BY <2>6 DEF new
<1>8. ItemLen(Len(e.key)) + 2 <= keyBlockSize
  <2>1. ItemLen(Len(e.key)) < keyBlockSize - 2
    BY <1>4, SegmentFilesAssumption
  <2>2. keyBlockSize \in Nat /\ Len(e.key) \in Nat
    BY KeyFileAssumption, HeldIs DEF Bytes
  <2> QED BY <2>1, <2>2 DEF ItemLen
<1>9. ItemsOK(<<item>>, d)
  <2> DEFINE one == <<item>>
  <2>1. one \in Seq(Item) /\ Len(one) # 0 /\ one[1] = item /\ Len(one) = 1
    BY <1>1
  <2>2. EntriesIn(one, d) \in Seq(Held)
    <3>1. <<e>> \in Seq(Held)
      OBVIOUS
    <3> QED BY <3>1, <1>7
  <2>3. ItemSum(one) + 2 <= keyBlockSize
    BY <1>3, <1>8
  <2> HIDE DEF one
  <2>4. one[1].prefix = 0
    BY <2>1
  <2>5. \A i \in 1..Len(one) : one[i].offset + one[i].length <= Len(d)
    BY <2>1, <1>6
  <2>6. ItemsOK(one, d)
    BY <2>1, <2>2, <2>3, <2>4, <2>5 DEF ItemsOK
  <2> QED BY <2>6 DEF one
<1> QED BY <1>2, <1>3, <1>7, <1>9 DEF d

-----------------------------------------------------------------------------
\* The index.

LEMMA Division ==
  ASSUME NEW n \in Nat, NEW k \in Nat \ {0}
  PROVE  n = k * (n \div k) + (n % k) /\ n % k \in 0..(k - 1) /\ n \div k \in Nat
OBVIOUS

LEMMA Quotient ==
  ASSUME NEW n \in Nat, NEW k \in Nat \ {0}, NEW q \in Nat, NEW r \in 0..(k - 1), n = k * q + r
  PROVE  n \div k = q /\ n % k = r
OBVIOUS

LEMMA Product ==
  ASSUME NEW k \in Nat, NEW a \in Nat, NEW b \in Nat, a <= b
  PROVE  k * a <= k * b /\ k * a \in Nat /\ k * b \in Nat
OBVIOUS

\* How many blocks of n are in the index.
IndexLength(n) == (n + keyIndexInterval - 1) \div keyIndexInterval

LEMMA IndexLengthIs ==
  ASSUME NEW n \in Nat
  PROVE  /\ IndexLength(n) \in Nat
         /\ IndexLength(n + 1) = IF Indexed(n) THEN IndexLength(n) + 1 ELSE IndexLength(n)
         /\ Indexed(n) => IndexLength(n) * keyIndexInterval = n
         /\ \A i \in 1..IndexLength(n) : (i - 1) * keyIndexInterval \in 0..(n - 1)
<1> DEFINE k == keyIndexInterval
           q == n \div k
           r == n % k
<1>1. k \in Nat \ {0}
  BY KeyFileAssumption
<1>2. n = k * q + r /\ r \in 0..(k - 1) /\ q \in Nat /\ k * q \in Nat
  <2>1. n = k * q + r /\ r \in 0..(k - 1) /\ q \in Nat
    <3> HIDE DEF k
    <3> QED BY <1>1, Division
  <2> HIDE DEF q
  <2> QED BY <1>1, <2>1, Product
<1>3. Indexed(n) <=> r = 0
  BY DEF Indexed
<1> HIDE DEF k, q, r
<1>4. k * (q + 1) = k * q + k /\ q + 1 \in Nat
  BY <1>1, <1>2
<1>5. IndexLength(n + 1) = q + 1
  <2>1. (n + 1) + k - 1 = k * (q + 1) + r /\ (n + 1) + k - 1 \in Nat
    BY <1>1, <1>2, <1>4
  <2>2. ((n + 1) + k - 1) \div k = q + 1
    BY <1>1, <1>2, <1>4, <2>1, Quotient
  <2> QED BY <2>2 DEF IndexLength, k
<1>6. IndexLength(n) = IF r = 0 THEN q ELSE q + 1
  <2>0. n + k - 1 \in Nat
    BY <1>1
  <2>1. CASE r = 0
    <3>1. n + k - 1 = k * q + (k - 1) /\ k - 1 \in 0..(k - 1)
      BY <1>1, <1>2, <2>1
    <3>2. (n + k - 1) \div k = q
      BY <1>1, <1>2, <2>0, <3>1, Quotient
    <3> QED BY <2>1, <3>2 DEF IndexLength, k
  <2>2. CASE r # 0
    <3>1. n + k - 1 = k * (q + 1) + (r - 1) /\ r - 1 \in 0..(k - 1)
      BY <1>1, <1>2, <1>4, <2>2
    <3>2. (n + k - 1) \div k = q + 1
      BY <1>1, <1>4, <2>0, <3>1, Quotient
    <3> QED BY <2>2, <3>2 DEF IndexLength, k
  <2> QED BY <2>1, <2>2
<1>7. r = 0 => q * k = n
  <2>1. q * k = k * q
    BY <1>1, <1>2
  <2> QED BY <1>2, <2>1
<1>8. ASSUME NEW i \in 1..IndexLength(n) PROVE (i - 1) * k \in 0..(n - 1)
  <2>1. i - 1 \in Nat /\ i - 1 <= q /\ (r = 0 => (i - 1) + 1 <= q)
    BY <1>2, <1>6
  <2> DEFINE j == i - 1
  <2>2. j * k = k * j /\ k * j <= k * q /\ k * j \in Nat
    <3>1. j \in Nat /\ j <= q
      BY <2>1
    <3> HIDE DEF j
    <3> QED BY <1>1, <1>2, <3>1, Product
  <2>3. r = 0 => k * (j + 1) <= k * q
    <3> SUFFICES ASSUME r = 0 PROVE k * (j + 1) <= k * q
      OBVIOUS
    <3>1. j + 1 \in Nat /\ j + 1 <= q
      BY <2>1
    <3> HIDE DEF j
    <3> QED BY <1>1, <1>2, <3>1, Product
  <2>4. k * (j + 1) = k * j + k
    <3>1. j \in Nat
      BY <2>1
    <3> HIDE DEF j
    <3> QED BY <1>1, <3>1
  <2> HIDE DEF j
  <2>5. j * k \in 0..(n - 1)
    BY <1>1, <1>2, <2>2, <2>3, <2>4
  <2> QED BY <2>5 DEF j
<1> QED BY <1>2, <1>3, <1>5, <1>6, <1>7, <1>8 DEF k

\* The index of a file has the first key of each block that is indexed.
IndexOf(blocks) ==
  [i \in 1..IndexLength(Len(blocks)) |-> blocks[(i - 1) * keyIndexInterval + 1][1].suffix]

LEMMA IndexIs ==
  ASSUME NEW seg
  PROVE  LoadKeyIndex(seg) = IndexOf(seg.blocks)
BY DEF LoadKeyIndex, IndexOf, IndexLength, Block

LEMMA AppendAt ==
  ASSUME NEW V, NEW s \in Seq(V), NEW x \in V
  PROVE  /\ Append(s, x) \in Seq(V) /\ Len(Append(s, x)) = Len(s) + 1
         /\ Append(s, x)[Len(s) + 1] = x /\ \A i \in 1..Len(s) : Append(s, x)[i] = s[i]
OBVIOUS

LEMMA AppendFunction ==
  ASSUME NEW V, NEW s \in Seq(V), NEW x \in V
  PROVE  Append(s, x) = [i \in 1..(Len(s) + 1) |-> IF i = Len(s) + 1 THEN x ELSE s[i]]
<1> DEFINE t == Append(s, x)
           n == Len(s) + 1
<1>1. t \in Seq(V) /\ Len(t) = n /\ t[n] = x /\ \A i \in 1..Len(s) : t[i] = s[i]
  OBVIOUS
<1>2. \A i \in 1..n : i = n \/ i \in 1..Len(s)
  OBVIOUS
<1>3. n \notin 1..Len(s)
  OBVIOUS
<1> HIDE DEF t, n
<1>4. t = [i \in 1..n |-> t[i]]
  BY <1>1
<1>5. \A i \in 1..n : t[i] = IF i = n THEN x ELSE s[i]
  BY <1>1, <1>2, <1>3
<1>6. t = [i \in 1..n |-> IF i = n THEN x ELSE s[i]]
  BY <1>4, <1>5
<1> QED BY <1>6 DEF t, n

\* A block has been added.
LEMMA IndexMore ==
  ASSUME NEW a \in Seq(Seq(Item)), NEW b \in Seq(Seq(Item)), Len(b) = Len(a) + 1,
         \A i \in 1..Len(a) : b[i] = a[i]
  PROVE  IndexOf(b) = IF Indexed(Len(a)) THEN Append(IndexOf(a), b[Len(a) + 1][1].suffix)
                      ELSE IndexOf(a)
<1> DEFINE n == Len(a)
           l == IndexLength(n)
           x == b[n + 1][1].suffix
<1>1. n \in Nat /\ n + 1 \in Nat
  OBVIOUS
<1>2. l \in Nat /\ \A i \in 1..l : (i - 1) * keyIndexInterval \in 0..(n - 1)
  <2> HIDE DEF n
  <2> QED BY <1>1, IndexLengthIs
<1>3. \A i \in 1..l : b[(i - 1) * keyIndexInterval + 1][1].suffix = a[(i - 1) * keyIndexInterval + 1][1].suffix
  <2> TAKE i \in 1..l
  <2> DEFINE p == (i - 1) * keyIndexInterval
  <2>1. p \in 0..(n - 1)
    BY <1>2
  <2> HIDE DEF p
  <2>2. p + 1 \in 1..n
    BY <1>1, <2>1
  <2>3. b[p + 1] = a[p + 1]
    BY <2>2
  <2> QED BY <2>3 DEF p
<1>4. CASE ~Indexed(n)
  <2>1. IndexLength(n + 1) = l
    <3> HIDE DEF n
    <3> QED BY <1>1, <1>4, IndexLengthIs
  <2> HIDE DEF l
  <2>2. IndexLength(Len(b)) = l /\ IndexLength(Len(a)) = l
    BY <2>1 DEF l
  <2>3. IndexOf(b) = [i \in 1..l |-> b[(i - 1) * keyIndexInterval + 1][1].suffix]
    BY <2>2 DEF IndexOf
  <2>4. IndexOf(a) = [i \in 1..l |-> a[(i - 1) * keyIndexInterval + 1][1].suffix]
    BY <2>2 DEF IndexOf
  <2>5. IndexOf(a) = IndexOf(b)
    BY <1>3, <2>3, <2>4
  <2> QED BY <1>4, <2>5
<1>5. CASE Indexed(n)
  <2>1. IndexLength(n + 1) = l + 1 /\ l * keyIndexInterval = n
    <3> HIDE DEF n
    <3> QED BY <1>1, <1>5, IndexLengthIs
  <2>2. IndexLength(Len(b)) = l + 1 /\ IndexLength(Len(a)) = l
    BY <2>1
  <2> HIDE DEF l
  <2> DEFINE u == IndexOf(a)
             v == IndexOf(b)
             m == l + 1
  <2>3. v = [i \in 1..m |-> b[(i - 1) * keyIndexInterval + 1][1].suffix]
    BY <2>2 DEF IndexOf
  <2>4. u = [i \in 1..l |-> a[(i - 1) * keyIndexInterval + 1][1].suffix]
    BY <2>2 DEF IndexOf
  <2>5. \A i \in 1..l : v[i] = u[i] /\ i \in 1..m
    <3>1. \A i \in 1..l : i \in 1..m
      BY <1>2
    <3> HIDE DEF u, v, m
    <3> QED BY <1>3, <2>3, <2>4, <3>1
  <2>6. v[m] = x
    <3>1. m - 1 = l /\ m \in 1..m
      BY <1>2
    <3>2. v[m] = b[(m - 1) * keyIndexInterval + 1][1].suffix
      <4> HIDE DEF v, m
      <4> QED BY <2>3, <3>1
    <3>3. (m - 1) * keyIndexInterval + 1 = n + 1
      <4> HIDE DEF m
      <4> QED BY <3>1, <2>1
    <3> HIDE DEF v, m
    <3> QED BY <3>2, <3>3
  <2>7. v = Append(u, x)
    <3>1. u \in Seq(Range(u) \cup {x}) /\ Len(u) = l
      <4>1. \A i \in 1..l : u[i] \in Range(u)
        <5>1. DOMAIN u = 1..l
          <6> HIDE DEF u
          <6> QED BY <2>4
        <5> HIDE DEF u
        <5> QED BY <5>1 DEF Range
      <4>2. u = [i \in 1..l |-> u[i]]
        BY <2>4
      <4> DEFINE V == Range(u) \cup {x}
      <4>3. \A i \in 1..l : u[i] \in V
        BY <4>1
      <4> HIDE DEF u, V
      <4>4. u \in [1..l -> V]
        BY <4>2, <4>3
      <4>5. u \in Seq(V) /\ Len(u) = l
        BY <1>2, <4>4
      <4> QED BY <4>5 DEF V
    <3>2. v = [i \in 1..m |-> v[i]]
      BY <2>3
    <3> HIDE DEF u, v, x
    <3>3. Append(u, x) = [i \in 1..(l + 1) |-> IF i = l + 1 THEN x ELSE u[i]]
      <4> DEFINE V == Range(u) \cup {x}
      <4>1. u \in Seq(V) /\ x \in V
        BY <3>1
      <4> HIDE DEF V
      <4>2. Append(u, x) = [i \in 1..(Len(u) + 1) |-> IF i = Len(u) + 1 THEN x ELSE u[i]]
        BY <4>1, AppendFunction
      <4> QED BY <3>1, <4>2
    <3>4. \A i \in 1..m : v[i] = IF i = m THEN x ELSE u[i]
      <4>1. \A i \in 1..m : i = m \/ i \in 1..l
        BY <1>2 DEF m
      <4>2. m \notin 1..l
        BY <1>2 DEF m
      <4> QED BY <4>1, <4>2, <2>5, <2>6
    <3> HIDE DEF m
    <3>5. v = [i \in 1..m |-> IF i = m THEN x ELSE u[i]]
      BY <3>2, <3>4
    <3> QED BY <3>3, <3>5 DEF m
  <2> QED BY <1>5, <2>7
<1> QED BY <1>4, <1>5

\* A block has got longer.
LEMMA IndexSame ==
  ASSUME NEW a \in Seq(Seq(Item)), NEW b \in Seq(Seq(Item)), Len(b) = Len(a),
         \A i \in 1..Len(a) : b[i][1] = a[i][1]
  PROVE  IndexOf(b) = IndexOf(a)
<1> DEFINE n == Len(a)
           l == IndexLength(n)
<1>1. n \in Nat
  OBVIOUS
<1>2. l \in Nat /\ \A i \in 1..l : (i - 1) * keyIndexInterval \in 0..(n - 1)
  <2> HIDE DEF n
  <2> QED BY <1>1, IndexLengthIs
<1>3. \A i \in 1..l : b[(i - 1) * keyIndexInterval + 1][1].suffix = a[(i - 1) * keyIndexInterval + 1][1].suffix
  <2> TAKE i \in 1..l
  <2> DEFINE p == (i - 1) * keyIndexInterval
  <2>1. p \in 0..(n - 1)
    BY <1>2
  <2> HIDE DEF p
  <2>2. p + 1 \in 1..n
    BY <1>1, <2>1
  <2>3. b[p + 1][1] = a[p + 1][1]
    BY <2>2
  <2> QED BY <2>3 DEF p
<1> QED BY <1>3 DEF IndexOf

-----------------------------------------------------------------------------
\* Files.

BlockEntries(f) == [b \in 1..Len(f.blocks) |-> EntriesIn(f.blocks[b], f.data)]

Contents(f) == FlattenSeq(BlockEntries(f))

BlocksOK(f) ==
  /\ f.blocks \in Seq(Seq(Item)) /\ f.data \in Bytes
  /\ \A b \in 1..Len(f.blocks) : ItemsOK(f.blocks[b], f.data)
  /\ f.index = IndexOf(f.blocks)

\* What the writer keeps is about the last block and its last key.
WriterOK(f) ==
  /\ f.prevKey \in Bytes
  /\ f.blocks = <<>> => f.keyBlockLen = 0 /\ f.prevKey = <<>>
  /\ f.blocks # <<>> =>
       LET last == f.blocks[Len(f.blocks)]
       IN  /\ f.keyBlockLen = ItemSum(last) /\ f.keyBlockLen # 0
           /\ f.prevKey = DecodedKeys(last)[Len(last)]

FileOK(f) == BlocksOK(f) /\ WriterOK(f)

LEMMA EntriesAreContents ==
  ASSUME NEW seg, seg.kind # "memory", Len(seg.blocks) \in Nat
  PROVE  EntriesOf(seg) = Contents(seg)
<1>1. \A b \in 1..Len(seg.blocks) : Decoded(seg, b - 1) = EntriesIn(seg.blocks[b], seg.data)
  BY DecodedIsEntries
<1> QED BY <1>1 DEF EntriesOf, Contents, BlockEntries

LEMMA BlockEntriesIs ==
  ASSUME NEW f, BlocksOK(f)
  PROVE  /\ BlockEntries(f) \in Seq(Seq(Held)) /\ Len(BlockEntries(f)) = Len(f.blocks)
         /\ \A b \in 1..Len(f.blocks) : BlockEntries(f)[b] = EntriesIn(f.blocks[b], f.data)
<1>1. \A b \in 1..Len(f.blocks) : EntriesIn(f.blocks[b], f.data) \in Seq(Held)
  BY DEF BlocksOK, ItemsOK
<1>2. Len(f.blocks) \in Nat
  BY DEF BlocksOK
<1>3. BlockEntries(f) \in [1..Len(f.blocks) -> Seq(Held)]
  BY <1>1 DEF BlockEntries
<1>4. BlockEntries(f) \in Seq(Seq(Held)) /\ Len(BlockEntries(f)) = Len(f.blocks)
  BY <1>2, <1>3
<1> QED BY <1>4 DEF BlockEntries

LEMMA NewFileOK == FileOK(NewFile) /\ Contents(NewFile) = <<>>
<1>1. /\ NewFile.blocks = <<>> /\ NewFile.index = <<>> /\ NewFile.data = <<>>
      /\ NewFile.keyBlockLen = 0 /\ NewFile.prevKey = <<>>
  BY DEF NewFile
<1>2. <<>> \in Seq(Seq(Item)) /\ <<>> \in Bytes /\ Len(<<>>) = 0 /\ 1..0 = {}
  BY DEF Bytes
<1>3. IndexOf(<<>>) = <<>>
  <2>1. IndexLength(0) = 0
    <3>1. /\ 0 \in Nat /\ IndexLength(0) \in Nat
          /\ \A i \in 1..IndexLength(0) : (i - 1) * keyIndexInterval \in 0..(0 - 1)
      BY IndexLengthIs
    <3>2. IndexLength(0) # 0 => 1 \in 1..IndexLength(0)
      BY <3>1
    <3> QED BY <3>1, <3>2
  <2> QED BY <1>2, <2>1 DEF IndexOf
<1>4. BlockEntries(NewFile) = <<>>
  BY <1>1, <1>2 DEF BlockEntries
<1>5. Contents(NewFile) = <<>>
  BY <1>2, <1>4 DEF Contents, FlattenSeq
<1> QED BY <1>1, <1>2, <1>3, <1>5 DEF FileOK, BlocksOK, WriterOK

\* An entry that is written is there after those before it.
Written(f, e) == FileOK(WriteEntry(f, e)) /\ Contents(WriteEntry(f, e)) = Append(Contents(f), e)

\* In a block of its own.
LEMMA WriteFresh ==
  ASSUME NEW f, NEW e \in Held, FileOK(f), FreshBlock(f, e)
  PROVE  Written(f, e)
<1> DEFINE item == NewItem(f, e)
           g == WriteEntry(f, e)
           n == Len(f.blocks)
           bs == Append(f.blocks, <<item>>)
           d == f.data \o e.value
<1>1. /\ f.blocks \in Seq(Seq(Item)) /\ f.data \in Bytes /\ n \in Nat
      /\ \A b \in 1..n : ItemsOK(f.blocks[b], f.data)
      /\ f.index = IndexOf(f.blocks) /\ f.prevKey \in Bytes
  BY DEF FileOK, BlocksOK, WriterOK
<1>2. PrevKey(f, e.key) = <<>>
  <2>1. CASE BlockIsFull(f, e.key)
    BY <2>1 DEF PrevKey
  <2>2. CASE f.keyBlockLen = 0
    <3>1. f.prevKey = <<>>
      BY <2>2 DEF FileOK, WriterOK
    <3> QED BY <3>1 DEF PrevKey
  <2> QED BY <2>1, <2>2 DEF FreshBlock
<1>3. /\ item \in Item /\ item.prefix = 0 /\ item.suffix = e.key
      /\ item.offset = Len(f.data) /\ item.length = Len(e.value)
  BY <1>1, <1>2, NewItemIs
<1>4. /\ g.blocks = bs /\ g.data = d /\ g.prevKey = e.key
      /\ g.index = IF Indexed(n) THEN Append(f.index, e.key) ELSE f.index
      /\ g.keyBlockLen = 0 + ItemLen(Len(item.suffix))
  BY DEF WriteEntry, FreshBlock, NewItem, PrefixOf
<1> HIDE DEF g, item
<1> DEFINE one == <<item>>
<1>5. /\ ItemsOK(one, d) /\ EntriesIn(one, d) = <<e>> /\ DecodedKeys(one)[1] = e.key
      /\ ItemSum(one) = ItemLen(Len(e.key))
  BY <1>1, <1>3, ItemsFirst
<1>6. one \in Seq(Item) /\ Len(one) = 1 /\ one[1] = item
  BY <1>3
<1>7. e.key \in Bytes /\ e.value \in Bytes /\ Len(e.key) \in Nat
  BY HeldIs DEF Bytes
<1> DEFINE k == n + 1
<1>k. k \in Nat /\ k # 0 /\ (\A b \in 1..k : b \in 1..n \/ b = k) /\ k \in 1..k /\ \A b \in 1..n : b \in 1..k
  BY <1>1
<1> HIDE DEF one
<1>8. bs \in Seq(Seq(Item)) /\ Len(bs) = k /\ bs[k] = one /\ \A b \in 1..n : bs[b] = f.blocks[b]
  <2>1. bs = Append(f.blocks, one)
    BY DEF one
  <2>2. /\ Append(f.blocks, one) \in Seq(Seq(Item)) /\ Len(Append(f.blocks, one)) = Len(f.blocks) + 1
        /\ Append(f.blocks, one)[Len(f.blocks) + 1] = one
        /\ \A b \in 1..Len(f.blocks) : Append(f.blocks, one)[b] = f.blocks[b]
    BY <1>1, <1>6, AppendAt
  <2> HIDE DEF bs
  <2> QED BY <2>1, <2>2
<1> HIDE DEF bs
<1>9. d \in Bytes /\ \A b \in 1..n : /\ ItemsOK(f.blocks[b], d)
                                     /\ EntriesIn(f.blocks[b], d) = EntriesIn(f.blocks[b], f.data)
  <2>1. d \in Bytes
    BY <1>1, <1>7, BytesJoined
  <2>2. ASSUME NEW b \in 1..n
        PROVE  /\ ItemsOK(f.blocks[b], d)
               /\ EntriesIn(f.blocks[b], d) = EntriesIn(f.blocks[b], f.data)
    <3>1. ItemsOK(f.blocks[b], f.data)
      BY ONLY <1>1, b \in 1..n
    <3>2. f.data \in Bytes /\ e.value \in Bytes
      BY ONLY <1>1, <1>7
    <3> QED BY ONLY <3>1, <3>2, ItemsKept
  <2> QED BY ONLY <2>1, <2>2
<1> HIDE DEF d, k, n
<1>10. \A b \in 1..k : ItemsOK(bs[b], d)
  BY <1>k, <1>5, <1>8, <1>9
<1>11. IndexOf(bs) = IF Indexed(n) THEN Append(f.index, e.key) ELSE f.index
  <2>1. Len(bs) = Len(f.blocks) + 1 /\ \A b \in 1..Len(f.blocks) : bs[b] = f.blocks[b]
    BY <1>8 DEF k, n
  <2>2. IndexOf(bs) = IF Indexed(Len(f.blocks)) THEN Append(IndexOf(f.blocks), bs[Len(f.blocks) + 1][1].suffix)
                      ELSE IndexOf(f.blocks)
    BY <1>1, <1>8, <2>1, IndexMore
  <2>3. bs[n + 1][1].suffix = e.key
    BY <1>3, <1>6, <1>8 DEF k
  <2> QED BY <1>1, <2>2, <2>3 DEF n
<1>12. BlocksOK(g)
  BY <1>4, <1>8, <1>9, <1>10, <1>11 DEF BlocksOK
<1>13. WriterOK(g)
  <2>1. g.blocks # <<>>
    BY <1>4, <1>8, <1>k
  <2>2. g.blocks[Len(g.blocks)] = one
    BY <1>4, <1>8
  <2>3. ItemLen(Len(e.key)) \in Nat /\ ItemLen(Len(e.key)) # 0
    BY <1>7 DEF ItemLen
  <2>4. g.prevKey = DecodedKeys(one)[Len(one)] /\ g.prevKey \in Bytes
    BY <1>4, <1>5, <1>6, <1>7
  <2>5. g.keyBlockLen = ItemSum(one) /\ g.keyBlockLen # 0
    BY <1>3, <1>4, <1>5, <2>3
  <2> QED BY <2>1, <2>2, <2>4, <2>5 DEF WriterOK
<1>14. Contents(g) = Append(Contents(f), e)
  <2> DEFINE s == BlockEntries(f)
             t == BlockEntries(g)
  <2>1. s \in Seq(Seq(Held)) /\ Len(s) = n /\ \A b \in 1..n : s[b] = EntriesIn(f.blocks[b], f.data)
    <3>1. BlocksOK(f)
      BY DEF FileOK
    <3> QED BY <3>1, BlockEntriesIs DEF n
  <2>2. t \in Seq(Seq(Held)) /\ Len(t) = k /\ \A b \in 1..k : t[b] = EntriesIn(bs[b], d)
    BY <1>4, <1>8, <1>12, BlockEntriesIs
  <2> HIDE DEF s, t
  <2>3. (\A b \in 1..n : t[b] = s[b]) /\ t[k] = <<e>>
    BY <2>1, <2>2, <1>k, <1>5, <1>8, <1>9
  <2>4. FlattenSeq(t) = IF n = 0 THEN t[1] ELSE FlattenSeq(s) \o t[n + 1]
    <3>1. n \in Nat /\ Len(t) = n + 1 /\ Len(s) = n
      BY <1>1, <2>1, <2>2 DEF k
    <3> QED BY <3>1, <2>3, FlattenMore
  <2>5. FlattenSeq(s) \in Seq(Held)
    BY <2>1, FlattenProperties DEF FlatProperties
  <2>6. n = 0 => FlattenSeq(s) = <<>>
    <3> SUFFICES ASSUME n = 0 PROVE FlattenSeq(s) = <<>>
      OBVIOUS
    <3>1. s = <<>>
      BY <2>1
    <3> QED BY <3>1 DEF FlattenSeq
  <2>7. <<e>> = Append(<<>>, e)
    OBVIOUS
  <2>8. FlattenSeq(s) \o <<e>> = Append(FlattenSeq(s), e)
    BY <2>5
  <2>9. FlattenSeq(t) = Append(FlattenSeq(s), e)
    <3>1. CASE n = 0
      <4>1. FlattenSeq(t) = <<e>> /\ FlattenSeq(s) = <<>>
        BY <3>1, <2>3, <2>4, <2>6 DEF k
      <4> QED BY <4>1, <2>7
    <3>2. CASE n # 0
      <4>1. FlattenSeq(t) = FlattenSeq(s) \o <<e>>
        BY <3>2, <2>3, <2>4 DEF k
      <4> QED BY <4>1, <2>8
    <3> QED BY <3>1, <3>2
  <2> QED BY <2>9 DEF Contents, s, t
<1> QED BY <1>12, <1>13, <1>14 DEF Written, FileOK, g

\* In the last block.
LEMMA WriteFurther ==
  ASSUME NEW f, NEW e \in Held, FileOK(f), ~FreshBlock(f, e)
  PROVE  Written(f, e)
<1> DEFINE item == NewItem(f, e)
           g == WriteEntry(f, e)
           n == Len(f.blocks)
           last == f.blocks[n]
           more == Append(last, item)
           bs == [f.blocks EXCEPT ![n] = more]
           d == f.data \o e.value
<1>1. /\ f.blocks \in Seq(Seq(Item)) /\ f.data \in Bytes /\ n \in Nat
      /\ \A b \in 1..n : ItemsOK(f.blocks[b], f.data)
      /\ f.index = IndexOf(f.blocks) /\ f.prevKey \in Bytes
  BY DEF FileOK, BlocksOK, WriterOK
<1>2. f.keyBlockLen # 0 /\ ~BlockIsFull(f, e.key) /\ f.blocks # <<>> /\ n # 0
  <2>1. f.keyBlockLen # 0 /\ ~BlockIsFull(f, e.key)
    BY DEF FreshBlock
  <2>2. f.blocks # <<>>
    BY <2>1 DEF FileOK, WriterOK
  <2> QED BY <1>1, <2>1, <2>2
<1>3. f.keyBlockLen = ItemSum(last) /\ f.prevKey = DecodedKeys(last)[Len(last)]
  BY <1>2 DEF FileOK, WriterOK
<1>4. n \in 1..n /\ last \in Seq(Item) /\ ItemsOK(last, f.data)
  <2>1. n \in 1..n
    BY <1>1, <1>2
  <2> QED BY <1>1, <2>1
<1>5. PrevKey(f, e.key) = f.prevKey
  BY <1>2 DEF PrevKey
<1>6. /\ item \in Item /\ NextKey(f.prevKey, item) = e.key /\ Len(item.suffix) <= Len(e.key)
      /\ item.offset = Len(f.data) /\ item.length = Len(e.value)
  BY <1>1, <1>5, NewItemIs
<1>7. e.key \in Bytes /\ e.value \in Bytes /\ Len(e.key) \in Nat /\ Len(item.suffix) \in Nat
  <2>1. item.suffix \in Bytes
    BY <1>6 DEF Item
  <2> HIDE DEF item
  <2> QED BY <2>1, HeldIs DEF Bytes
<1>8. /\ g.blocks = bs /\ g.data = d /\ g.prevKey = e.key /\ g.index = f.index
      /\ g.keyBlockLen = f.keyBlockLen + ItemLen(Len(item.suffix))
  <2>1. ~(f.keyBlockLen = 0 \/ BlockIsFull(f, e.key))
    BY <1>2
  <2> QED BY <2>1 DEF WriteEntry, NewItem, PrefixOf
<1> HIDE DEF g, item
<1>9. ItemSum(last) \in Nat /\ ItemSum(last) + ItemLen(Len(item.suffix)) + 2 <= keyBlockSize
  <2>1. ItemSum(last) \in Nat
    BY <1>4, <1>6, SumMore
  <2>2. ~(ItemSum(last) + ItemLen(Len(e.key)) >= keyBlockSize - 2)
    BY <1>2, <1>3 DEF BlockIsFull
  <2>3. keyBlockSize \in Nat
    BY KeyFileAssumption
  <2> QED BY <1>6, <1>7, <2>1, <2>2, <2>3 DEF ItemLen
<1>10. /\ ItemsOK(more, d) /\ EntriesIn(more, d) = Append(EntriesIn(last, f.data), e)
       /\ DecodedKeys(more)[Len(more)] = e.key
  <2>1. NextKey(DecodedKeys(last)[Len(last)], item) = e.key
    BY <1>3, <1>6
  <2> HIDE DEF last
  <2>2. f.data \in Bytes /\ ItemsOK(last, f.data) /\ item \in Item
    BY <1>1, <1>4, <1>6
  <2>3. item.offset = Len(f.data) /\ item.length = Len(e.value)
    BY <1>6
  <2>4. ItemSum(last) + ItemLen(Len(item.suffix)) + 2 <= keyBlockSize
    BY <1>9
  <2> DEFINE data == f.data
  <2> HIDE DEF data
  <2>5. /\ ItemsOK(Append(last, item), data \o e.value)
        /\ EntriesIn(Append(last, item), data \o e.value) = Append(EntriesIn(last, data), e)
        /\ DecodedKeys(Append(last, item))[Len(Append(last, item))] = e.key
    BY <2>1, <2>2, <2>3, <2>4, ItemsMore DEF data
  <2> QED BY <2>5 DEF data
<1>11. /\ more \in Seq(Item) /\ more[1] = last[1] /\ ItemSum(more) = ItemSum(last) + ItemLen(Len(item.suffix))
  <2>0. Len(last) \in Nat /\ Len(last) # 0
    BY <1>4 DEF ItemsOK
  <2> HIDE DEF last
  <2>1. /\ more \in Seq(Item)
        /\ \A i \in 1..Len(last) : more[i] = last[i]
    BY <1>4, <1>6, AppendAt
  <2>2. 1 \in 1..Len(last)
    BY <2>0
  <2>3. ItemSum(more) = ItemSum(last) + ItemLen(Len(item.suffix))
    BY <1>4, <1>6, SumMore
  <2> QED BY <2>1, <2>2, <2>3
<1> HIDE DEF more
<1>12. bs \in Seq(Seq(Item)) /\ Len(bs) = n /\ bs[n] = more /\ \A b \in 1..n : b # n => bs[b] = f.blocks[b]
  BY <1>1, <1>4, <1>11
<1> HIDE DEF bs
<1>13. d \in Bytes /\ \A b \in 1..n : /\ ItemsOK(f.blocks[b], d)
                                      /\ EntriesIn(f.blocks[b], d) = EntriesIn(f.blocks[b], f.data)
  <2>1. d \in Bytes
    BY <1>1, <1>7, BytesJoined
  <2>2. ASSUME NEW b \in 1..n
        PROVE  /\ ItemsOK(f.blocks[b], d)
               /\ EntriesIn(f.blocks[b], d) = EntriesIn(f.blocks[b], f.data)
    <3>1. ItemsOK(f.blocks[b], f.data)
      BY ONLY <1>1, b \in 1..n
    <3>2. f.data \in Bytes /\ e.value \in Bytes
      BY ONLY <1>1, <1>7
    <3> QED BY ONLY <3>1, <3>2, ItemsKept
  <2> QED BY ONLY <2>1, <2>2
<1>14. \A b \in 1..n : ItemsOK(bs[b], d)
  BY <1>10, <1>12, <1>13
<1>15. IndexOf(bs) = f.index
  <2>1. Len(bs) = Len(f.blocks) /\ \A b \in 1..Len(f.blocks) : bs[b][1] = f.blocks[b][1]
    BY <1>11, <1>12
  <2> QED BY <1>1, <1>12, <2>1, IndexSame
<1>16. BlocksOK(g)
  BY <1>8, <1>12, <1>13, <1>14, <1>15 DEF BlocksOK
<1>17. WriterOK(g)
  <2>1. g.blocks # <<>>
    BY <1>2, <1>8, <1>12
  <2>2. g.blocks[Len(g.blocks)] = more
    BY <1>8, <1>12
  <2>3. g.keyBlockLen = ItemSum(more) /\ g.keyBlockLen # 0
    BY <1>3, <1>7, <1>8, <1>9, <1>11 DEF ItemLen
  <2>4. g.prevKey = DecodedKeys(more)[Len(more)] /\ g.prevKey \in Bytes
    BY <1>7, <1>8, <1>10
  <2> QED BY <2>1, <2>2, <2>3, <2>4 DEF WriterOK
<1>18. Contents(g) = Append(Contents(f), e)
  <2> DEFINE s == BlockEntries(f)
             t == BlockEntries(g)
             m == n - 1
             r == SubSeq(s, 1, m)
  <2>1. s \in Seq(Seq(Held)) /\ Len(s) = n /\ \A b \in 1..n : s[b] = EntriesIn(f.blocks[b], f.data)
    <3>1. BlocksOK(f)
      BY DEF FileOK
    <3> QED BY <3>1, BlockEntriesIs
  <2>2. t \in Seq(Seq(Held)) /\ Len(t) = n /\ \A b \in 1..n : t[b] = EntriesIn(bs[b], d)
    BY <1>8, <1>12, <1>16, BlockEntriesIs
  <2> HIDE DEF s, t, d, n
  <2>3. m \in Nat /\ n = m + 1 /\ \A b \in 1..m : b \in 1..n /\ b # n
    BY <1>1, <1>2
  <2>4. (\A b \in 1..m : t[b] = s[b]) /\ t[n] = Append(s[n], e)
    <3>1. \A b \in 1..m : t[b] = s[b]
      BY <1>12, <1>13, <2>1, <2>2, <2>3
    <3>2. t[n] = Append(s[n], e)
      BY <1>4, <1>10, <1>12, <2>1, <2>2
    <3> QED BY <3>1, <3>2
  <2> HIDE DEF m
  <2>5. r \in Seq(Seq(Held)) /\ Len(r) = m /\ \A b \in 1..m : s[b] = r[b] /\ t[b] = r[b]
    BY <2>1, <2>3, <2>4
  <2> HIDE DEF r
  <2>6. FlattenSeq(t) = IF m = 0 THEN t[1] ELSE FlattenSeq(r) \o t[m + 1]
    BY <2>2, <2>3, <2>5, FlattenMore
  <2>7. FlattenSeq(s) = IF m = 0 THEN s[1] ELSE FlattenSeq(r) \o s[m + 1]
    BY <2>1, <2>3, <2>5, FlattenMore
  <2>8. FlattenSeq(r) \in Seq(Held) /\ s[n] \in Seq(Held)
    BY <1>4, <2>1, <2>5, FlattenProperties DEF FlatProperties
  <2>9. CASE m = 0
    BY <2>3, <2>4, <2>6, <2>7, <2>9 DEF Contents, s, t
  <2>10. CASE m # 0
    <3> DEFINE a == FlattenSeq(r)
               b == s[n]
    <3>1. FlattenSeq(t) = a \o Append(b, e) /\ FlattenSeq(s) = a \o b
      BY <2>3, <2>4, <2>6, <2>7, <2>10
    <3>2. a \in Seq(Held) /\ b \in Seq(Held)
      BY <2>8
    <3> HIDE DEF a, b
    <3>3. a \o Append(b, e) = Append(a \o b, e)
      BY <3>2, AppendJoined
    <3> QED BY <3>1, <3>3 DEF Contents, s, t
  <2> QED BY <2>9, <2>10
<1> QED BY <1>16, <1>17, <1>18 DEF Written, FileOK, g

LEMMA WriteAdds ==
  ASSUME NEW f, NEW e \in Held, FileOK(f)
  PROVE  FileOK(WriteEntry(f, e)) /\ Contents(WriteEntry(f, e)) = Append(Contents(f), e)
<1>1. CASE FreshBlock(f, e)
  BY <1>1, WriteFresh DEF Written
<1>2. CASE ~FreshBlock(f, e)
  BY <1>2, WriteFurther DEF Written
<1> QED BY <1>1, <1>2

-----------------------------------------------------------------------------
\* Segments and what they hold.

Holds(entries, content) ==
  /\ entries \in Seq(Held) /\ Up(entries)
  /\ \A e \in Held : e \in Range(entries) <=> content[e.key] = e.value

Segment == [kind : {"memory"}, entries : Seq(Held)]
           \cup [kind : {"disk"}, blocks : Seq(Seq(Item)), index : Seq(Bytes), data : Bytes]

SegmentOK(seg, content) ==
  /\ seg \in Segment /\ content \in S!Content
  /\ seg.kind = "disk" => BlocksOK(seg)
  /\ Holds(EntriesOf(seg), content)

LEMMA ContentIs ==
  ASSUME NEW content \in S!Content
  PROVE  /\ content = [k \in Key |-> content[k]]
         /\ \A k \in Key : content[k] = Absent \/ content[k] \in Value \cup {<<>>}
         /\ \A k \in Key : content[k] # Absent => [key |-> k, value |-> content[k]] \in Held
BY DEF S!Content, S!Entry, Held

LEMMA MemoryOK ==
  ASSUME NEW content \in S!Content
  PROVE  SegmentOK(Memory(content), content)
<1> DEFINE keys == {k \in Key : content[k] # Absent}
           held == Ascending(keys)
           E == [i \in 1..Len(held) |-> [key |-> held[i], value |-> content[held[i]]]]
<1>1. keys \in SUBSET Bytes /\ IsFiniteSet(keys)
  <2>1. keys \in SUBSET Key
    OBVIOUS
  <2> QED BY <2>1, KeysAreBytes, FS_Subset
<1>2. /\ held \in Seq(Bytes) /\ \A i \in 1..Len(held) : held[i] \in keys
      /\ \A k \in keys : \E i \in 1..Len(held) : held[i] = k
      /\ Rising(held)
  <2> HIDE DEF keys
  <2> QED BY <1>1, AscendingIs
<1>3. Memory(content) = [kind |-> "memory", entries |-> E]
  BY DEF Memory
<1> HIDE DEF held
<1>4. Len(held) \in Nat /\ \A i \in 1..Len(held) : E[i] = [key |-> held[i], value |-> content[held[i]]] /\ E[i] \in Held
  BY <1>2, ContentIs
<1>5. E \in Seq(Held) /\ Len(E) = Len(held)
  <2>1. E = [i \in 1..Len(held) |-> E[i]]
    OBVIOUS
  <2> HIDE DEF E
  <2>2. E \in [1..Len(held) -> Held]
    BY <2>1, <1>4
  <2> QED BY <1>4, <2>2
<1> HIDE DEF E
<1>6. Up(E)
  <2> SUFFICES ASSUME NEW i \in 1..Len(E), NEW j \in 1..Len(E), i < j
               PROVE  Less(E[i].key, E[j].key)
    BY DEF Up
  <2>1. i \in 1..Len(held) /\ j \in 1..Len(held)
    BY <1>5
  <2>2. E[i].key = held[i] /\ E[j].key = held[j]
    <3>1. E[i] = [key |-> held[i], value |-> content[held[i]]]
      BY <1>4, <2>1
    <3>2. E[j] = [key |-> held[j], value |-> content[held[j]]]
      BY <1>4, <2>1
    <3> QED BY <3>1, <3>2
  <2>3. Less(held[i], held[j])
    BY <1>2, <2>1 DEF Rising
  <2> QED BY <2>2, <2>3
<1>7. ASSUME NEW e \in Held PROVE e \in Range(E) <=> content[e.key] = e.value
  <2>0. e.key \in Key /\ e.value # Absent /\ e = [key |-> e.key, value |-> e.value]
    BY HeldIs, KeysAreBytes
  <2>1. ASSUME e \in Range(E) PROVE content[e.key] = e.value
    <3>1. PICK i \in 1..Len(E) : E[i] = e
      BY <1>5, <2>1, RangeIs
    <3>2. i \in 1..Len(held)
      BY <1>5
    <3>3. e.key = held[i] /\ e.value = content[held[i]]
      <4>1. E[i] = [key |-> held[i], value |-> content[held[i]]]
        BY <1>4, <3>2
      <4> QED BY <3>1, <4>1
    <3> QED BY <3>3
  <2>2. ASSUME content[e.key] = e.value PROVE e \in Range(E)
    <3>1. e.key \in keys
      BY <2>0, <2>2
    <3>2. PICK i \in 1..Len(held) : held[i] = e.key
      BY <1>2, <3>1
    <3>3. E[i] = e
      BY <1>4, <2>0, <2>2, <3>2
    <3>4. i \in 1..Len(E)
      BY <1>5, <3>2
    <3> QED BY <1>5, <3>3, <3>4, RangeIs
  <2> QED BY <2>1, <2>2
<1>8. Memory(content) \in Segment /\ Memory(content).kind = "memory" /\ EntriesOf(Memory(content)) = E
  BY <1>3, <1>5 DEF Segment, EntriesOf
<1> QED BY <1>5, <1>6, <1>7, <1>8 DEF SegmentOK, Holds

LEMMA IndexType ==
  ASSUME NEW f, BlocksOK(f)
  PROVE  f.index \in Seq(Bytes)
<1> DEFINE n == Len(f.blocks)
<1>1. n \in Nat /\ f.index = IndexOf(f.blocks) /\ f.blocks \in Seq(Seq(Item))
      /\ \A b \in 1..n : ItemsOK(f.blocks[b], f.data)
  BY DEF BlocksOK
<1> HIDE DEF n
<1>2. /\ IndexLength(n) \in Nat
      /\ \A i \in 1..IndexLength(n) : (i - 1) * keyIndexInterval \in 0..(n - 1)
  BY <1>1, IndexLengthIs
<1>3. ASSUME NEW i \in 1..IndexLength(n)
      PROVE  f.blocks[(i - 1) * keyIndexInterval + 1][1].suffix \in Bytes
  <2> DEFINE p == (i - 1) * keyIndexInterval
  <2>1. p \in 0..(n - 1)
    BY <1>2
  <2> HIDE DEF p
  <2>2. p + 1 \in 1..n
    BY <1>1, <2>1
  <2>3. ItemsOK(f.blocks[p + 1], f.data)
    BY <1>1, <2>2
  <2> DEFINE items == f.blocks[p + 1]
  <2> HIDE DEF items
  <2>4. items \in Seq(Item) /\ Len(items) # 0
    BY <2>3 DEF ItemsOK, items
  <2>5. items[1] \in Item
    BY <2>4
  <2>6. items[1].suffix \in Bytes
    BY <2>5 DEF Item
  <2> QED BY <2>6 DEF items, p
<1>4. IndexOf(f.blocks) \in [1..IndexLength(n) -> Bytes]
  BY <1>3 DEF IndexOf, n
<1> QED BY <1>1, <1>2, <1>4

LEMMA DiskOK ==
  ASSUME NEW f, NEW content \in S!Content, FileOK(f), Holds(Contents(f), content)
  PROVE  SegmentOK(Disk(f), content)
<1> DEFINE seg == Disk(f)
<1>1. seg.kind = "disk" /\ seg.blocks = f.blocks /\ seg.data = f.data /\ seg.index = f.index
      /\ seg = [kind |-> "disk", blocks |-> f.blocks, index |-> f.index, data |-> f.data]
  BY DEF Disk
<1>2. BlocksOK(f) /\ f.index \in Seq(Bytes) /\ f.blocks \in Seq(Seq(Item)) /\ f.data \in Bytes
  BY IndexType DEF FileOK, BlocksOK
<1>3. seg \in Segment
  BY <1>1, <1>2 DEF Segment
<1> HIDE DEF seg
<1>4. BlocksOK(seg)
  BY <1>1, <1>2 DEF BlocksOK
<1>5. Contents(seg) = Contents(f)
  BY <1>1 DEF Contents, BlockEntries
<1>6. EntriesOf(seg) = Contents(f)
  <2>1. Len(seg.blocks) \in Nat /\ seg.kind # "memory"
    BY <1>1, <1>2
  <2> QED BY <2>1, <1>5, EntriesAreContents
<1> QED BY <1>1, <1>3, <1>4, <1>6 DEF SegmentOK, seg

LEMMA SegmentIs ==
  ASSUME NEW seg, NEW content, SegmentOK(seg, content)
  PROVE  /\ EntriesOf(seg) \in Seq(Held) /\ Up(EntriesOf(seg))
         /\ \A e \in Held : e \in Range(EntriesOf(seg)) <=> content[e.key] = e.value
         /\ content \in S!Content
         /\ seg.kind \in {"memory", "disk"}
         /\ seg.kind = "memory" => EntriesOf(seg) = seg.entries
         /\ seg.kind = "disk" => BlocksOK(seg) /\ EntriesOf(seg) = Contents(seg)
<1>1. seg.kind \in {"memory", "disk"}
  BY DEF SegmentOK, Segment
<1>2. seg.kind = "disk" => BlocksOK(seg) /\ EntriesOf(seg) = Contents(seg)
  <2> SUFFICES ASSUME seg.kind = "disk" PROVE BlocksOK(seg) /\ EntriesOf(seg) = Contents(seg)
    OBVIOUS
  <2>1. BlocksOK(seg)
    BY DEF SegmentOK
  <2>2. Len(seg.blocks) \in Nat
    BY <2>1 DEF BlocksOK
  <2> QED BY <2>1, <2>2, EntriesAreContents
<1>3. seg.kind = "memory" => EntriesOf(seg) = seg.entries
  BY DEF EntriesOf
<1> QED BY <1>1, <1>2, <1>3 DEF SegmentOK, Holds

\* A segment that is read whole says what it should.
LEMMA SegmentContent ==
  ASSUME NEW seg, NEW content, SegmentOK(seg, content)
  PROVE  ContentOf(seg) = content
<1> DEFINE E == EntriesOf(seg)
           at(k) == {i \in DOMAIN E : E[i].key = k}
<1>1. /\ E \in Seq(Held) /\ Up(E) /\ \A e \in Held : e \in Range(E) <=> content[e.key] = e.value
      /\ content \in S!Content
  BY SegmentIs
<1>2. ContentOf(seg) = [k \in Key |-> IF at(k) = {} THEN Absent ELSE E[Max(at(k))].value]
  BY DEF ContentOf
<1> HIDE DEF E
<1>3. DOMAIN E = 1..Len(E) /\ Len(E) \in Nat
  BY <1>1
<1>4. ASSUME NEW k \in Key
      PROVE  (IF at(k) = {} THEN Absent ELSE E[Max(at(k))].value) = content[k]
  <2>1. CASE at(k) = {}
    <3>1. ASSUME content[k] # Absent PROVE FALSE
      <4> DEFINE e == [key |-> k, value |-> content[k]]
      <4>1. e \in Held
        BY <1>1, <3>1, ContentIs
      <4>2. e \in Range(E)
        BY <1>1, <4>1
      <4>3. PICK i \in 1..Len(E) : E[i] = e
        <5> HIDE DEF e
        <5> QED BY <1>1, <4>2, RangeIs
      <4>4. i \in at(k)
        BY <1>3, <4>3
      <4> QED BY <2>1, <4>4
    <3> QED BY <2>1, <3>1
  <2>2. CASE at(k) # {}
    <3>1. at(k) \in SUBSET (0..Len(E))
      BY <1>3
    <3>2. Max(at(k)) \in at(k)
      <4> HIDE DEF at
      <4> QED BY <1>3, <2>2, <3>1, Greatest
    <3> DEFINE i == Max(at(k))
    <3>3. i \in 1..Len(E) /\ E[i].key = k
      BY <1>3, <3>2
    <3> HIDE DEF i
    <3>4. E[i] \in Held /\ E[i] \in Range(E)
      BY <1>1, <3>3, RangeIs
    <3>5. content[k] = E[i].value
      BY <1>1, <3>3, <3>4
    <3> QED BY <2>2, <3>5 DEF i
  <2> QED BY <2>1, <2>2
<1>5. content = [k \in Key |-> content[k]]
  BY <1>1, ContentIs
<1> HIDE DEF at
<1> QED BY <1>2, <1>4, <1>5

LEMMA Joined ==
  ASSUME NEW V, NEW a \in Seq(V), NEW b \in Seq(V)
  PROVE  /\ a \o b \in Seq(V) /\ Len(a \o b) = Len(a) + Len(b)
         /\ \A i \in 1..Len(a) : (a \o b)[i] = a[i]
         /\ \A i \in 1..Len(b) : (a \o b)[Len(a) + i] = b[i]
OBVIOUS

LEMMA SliceIs ==
  ASSUME NEW V, NEW s \in Seq(V), NEW p \in Nat, NEW n \in Nat, 1 <= p, p <= n + 1, n <= Len(s)
  PROVE  /\ SubSeq(s, p, n) \in Seq(V) /\ Len(SubSeq(s, p, n)) = n - p + 1
         /\ \A i \in 1..(n - p + 1) : SubSeq(s, p, n)[i] = s[p + i - 1]
OBVIOUS

\* What Replaced makes of a list.
LEMMA ReplacedIs ==
  ASSUME NEW V, NEW list \in Seq(V), NEW x \in V,
         call.first \in 1..Len(list), call.last \in call.first..Len(list)
  PROVE  /\ Replaced(list, x) \in Seq(V)
         /\ Len(Replaced(list, x)) = Len(list) - (call.last - call.first)
         /\ \A i \in 1..Len(Replaced(list, x)) :
              Replaced(list, x)[i] = IF i < call.first THEN list[i]
                                     ELSE IF i = call.first THEN x
                                     ELSE list[i + (call.last - call.first)]
<1> DEFINE f == call.first
           l == call.last
           n == Len(list)
           p == l + 1
           m == f - 1
           k == n - l
<1>0. /\ n \in Nat /\ f \in Nat /\ l \in Nat /\ 1 <= f /\ f <= l /\ l <= n /\ p \in Nat /\ m \in Nat
      /\ k \in Nat /\ p = l + 1 /\ m = f - 1 /\ k = n - l
  OBVIOUS
<1> HIDE DEF p, m, k
<1> DEFINE a == SubSeq(list, 1, m)
           b == <<x>>
           c == SubSeq(list, p, n)
<1>1. a \in Seq(V) /\ Len(a) = m /\ \A i \in 1..m : a[i] = list[i]
  BY <1>0
<1>2. b \in Seq(V) /\ Len(b) = 1 /\ b[1] = x
  OBVIOUS
<1>3. c \in Seq(V) /\ Len(c) = k /\ \A i \in 1..k : c[i] = list[l + i]
  <2>1. c \in Seq(V) /\ Len(c) = n - p + 1 /\ \A i \in 1..(n - p + 1) : c[i] = list[p + i - 1]
    <3>0. n = Len(list)
      OBVIOUS
    <3> HIDE DEF n, l, f
    <3>1. p \in Nat /\ n \in Nat /\ 1 <= p /\ p <= n + 1 /\ n <= Len(list)
      BY <1>0, <3>0
    <3> HIDE DEF n
    <3> QED BY <3>1, SliceIs
  <2>2. n - p + 1 = k /\ \A i \in 1..k : p + i - 1 = l + i
    <3> HIDE DEF n, l, f, c
    <3> QED BY <1>0
  <2> QED BY <2>1, <2>2
<1>4. Replaced(list, x) = (a \o b) \o c
  BY DEF Replaced, a, b, c, p, m
<1> HIDE DEF a, b, c, f, l, n
<1> DEFINE u == a \o b
<1>5. u \in Seq(V) /\ Len(u) = m + 1 /\ u[m + 1] = x /\ \A i \in 1..m : u[i] = list[i]
  <2>1. /\ u \in Seq(V) /\ Len(u) = Len(a) + Len(b)
        /\ \A i \in 1..Len(a) : u[i] = a[i]
        /\ \A i \in 1..Len(b) : u[Len(a) + i] = b[i]
    <3>1. a \in Seq(V) /\ b \in Seq(V)
      BY <1>1, <1>2
    <3> QED BY <3>1, Joined
  <2> HIDE DEF u
  <2>2. 1 \in 1..Len(b)
    BY <1>2
  <2> QED BY <1>1, <1>2, <2>1, <2>2
<1> HIDE DEF u
<1> DEFINE r == u \o c
<1>6. /\ r \in Seq(V) /\ Len(r) = m + 1 + k
      /\ \A i \in 1..(m + 1) : r[i] = u[i]
      /\ \A i \in 1..k : r[m + 1 + i] = list[l + i]
  <2>1. /\ r \in Seq(V) /\ Len(r) = Len(u) + Len(c)
        /\ \A i \in 1..Len(u) : r[i] = u[i]
        /\ \A i \in 1..Len(c) : r[Len(u) + i] = c[i]
    <3>1. u \in Seq(V) /\ c \in Seq(V)
      BY <1>3, <1>5
    <3> QED BY <3>1, Joined
  <2> HIDE DEF r
  <2> QED BY <1>3, <1>5, <2>1
<1>7. Replaced(list, x) = r
  BY <1>4 DEF u
<1> HIDE DEF r
<1>8. Len(r) = n - (l - f)
  BY <1>0, <1>6
<1>9. \A i \in 1..Len(r) : r[i] = IF i < f THEN list[i] ELSE IF i = f THEN x ELSE list[i + (l - f)]
  <2> TAKE i \in 1..Len(r)
  <2>1. CASE i < f
    <3>1. i \in 1..m /\ i \in 1..(m + 1)
      BY <1>0, <2>1
    <3> QED BY <2>1, <3>1, <1>5, <1>6
  <2>2. CASE i = f
    <3>1. i = m + 1 /\ i \in 1..(m + 1) /\ ~(i < f)
      BY <1>0, <2>2
    <3> QED BY <2>2, <3>1, <1>5, <1>6
  <2>3. CASE i > f
    <3> DEFINE j == i - f
    <3>1. j \in 1..k /\ m + 1 + j = i /\ l + j = i + (l - f) /\ ~(i < f) /\ i # f
      BY <1>0, <1>6, <2>3
    <3> HIDE DEF j
    <3>2. r[m + 1 + j] = list[l + j]
      BY <1>6, <3>1
    <3> QED BY <3>1, <3>2
  <2> QED BY <1>0, <2>1, <2>2, <2>3
<1> QED BY <1>6, <1>7, <1>8, <1>9 DEF f, l, n

-----------------------------------------------------------------------------
\* Iterators.

\* The end of a sequence of entries.
LEMMA DropIs ==
  ASSUME NEW s \in Seq(Held), Up(s), NEW p \in Nat, p <= Len(s)
  PROVE  /\ SubSeq(s, p + 1, Len(s)) \in Seq(Held) /\ Up(SubSeq(s, p + 1, Len(s)))
         /\ Range(SubSeq(s, p + 1, Len(s))) = {e \in Held : \E i \in (p + 1)..Len(s) : s[i] = e}
         /\ Len(SubSeq(s, p + 1, Len(s))) = Len(s) - p
         /\ \A i \in 1..(Len(s) - p) : SubSeq(s, p + 1, Len(s))[i] = s[p + i]
<1> DEFINE n == Len(s)
           q == p + 1
           d == SubSeq(s, q, n)
<1>1. n \in Nat /\ q \in Nat /\ 1 <= q /\ q <= n + 1 /\ n <= Len(s) /\ q = p + 1 /\ n - q + 1 = n - p
      /\ Len(s) = n
  OBVIOUS
<1> HIDE DEF n, q
<1>2. /\ d \in Seq(Held) /\ Len(d) = n - q + 1
      /\ \A i \in 1..(n - q + 1) : d[i] = s[q + i - 1]
  BY <1>1, SliceIs
<1> HIDE DEF d
<1>3. Len(d) = n - p /\ \A i \in 1..(n - p) : d[i] = s[p + i] /\ p + i \in q..n
  <2> SUFFICES ASSUME NEW i \in 1..(n - p) PROVE d[i] = s[p + i] /\ p + i \in q..n
    BY <1>1, <1>2
  <2>1. q + i - 1 = p + i /\ p + i \in q..n /\ i \in 1..(n - q + 1)
    BY <1>1
  <2> QED BY <1>2, <2>1
<1>4. \A j \in q..n : j - p \in 1..(n - p) /\ p + (j - p) = j /\ j \in 1..n
  BY <1>1
<1>5. Range(d) = {e \in Held : \E i \in q..n : s[i] = e}
  <2>1. ASSUME NEW e \in Range(d) PROVE e \in Held /\ \E i \in q..n : s[i] = e
    <3>1. PICK i \in 1..Len(d) : d[i] = e
      BY <1>2, <2>1, RangeIs
    <3>2. i \in 1..(n - p)
      BY <1>3
    <3>3. s[p + i] = e /\ p + i \in q..n
      BY <1>3, <3>1, <3>2
    <3> QED BY <3>3, <1>2, <2>1, RangeIs
  <2>2. ASSUME NEW i \in q..n PROVE s[i] \in Range(d)
    <3>1. d[i - p] = s[i] /\ i - p \in 1..Len(d)
      BY <1>3, <1>4
    <3> QED BY <3>1, <1>2, RangeIs
  <2> QED BY <2>1, <2>2
<1>6. Up(d)
  <2> SUFFICES ASSUME NEW i \in 1..Len(d), NEW j \in 1..Len(d), i < j
               PROVE  Less(d[i].key, d[j].key)
    BY DEF Up
  <2>1. d[i] = s[p + i] /\ d[j] = s[p + j] /\ p + i \in q..n /\ p + j \in q..n
    <3>1. i \in 1..(n - p) /\ j \in 1..(n - p)
      BY <1>3
    <3> QED BY <1>3, <3>1
  <2>2. p + i \in 1..Len(s) /\ p + j \in 1..Len(s) /\ p + i < p + j
    BY <1>1, <1>4, <2>1
  <2> QED BY <2>1, <2>2 DEF Up
<1> QED BY <1>1, <1>2, <1>3, <1>5, <1>6 DEF d, q, n

LEMMA TailIs ==
  ASSUME NEW s \in Seq(Held), Up(s), s # <<>>
  PROVE  /\ s[1] \in Held /\ s[1] \in Range(s)
         /\ Tail(s) \in Seq(Held) /\ Up(Tail(s))
         /\ Range(Tail(s)) = Range(s) \ {s[1]}
         /\ \A e \in Range(Tail(s)) : Less(s[1].key, e.key)
<1>1. Len(s) \in Nat /\ 1 \in 1..Len(s)
  OBVIOUS
<1>2. Tail(s) = SubSeq(s, 1 + 1, Len(s))
  BY <1>1
<1>3. /\ SubSeq(s, 1 + 1, Len(s)) \in Seq(Held) /\ Up(SubSeq(s, 1 + 1, Len(s)))
      /\ Range(SubSeq(s, 1 + 1, Len(s))) = {e \in Held : \E i \in (1 + 1)..Len(s) : s[i] = e}
  <2>1. 1 \in Nat /\ 1 <= Len(s)
    BY <1>1
  <2> QED BY <2>1, DropIs
<1>4. s[1] \in Held /\ s[1] \in Range(s)
  BY <1>1, RangeIs
<1>5. ASSUME NEW e \in Range(Tail(s)) PROVE Less(s[1].key, e.key) /\ e \in Range(s) /\ e # s[1]
  <2>1. PICK i \in (1 + 1)..Len(s) : s[i] = e
    BY <1>2, <1>3
  <2>2. i \in 1..Len(s) /\ 1 < i
    BY <1>1
  <2>3. Less(s[1].key, s[i].key)
    BY <1>1, <2>2 DEF Up
  <2>4. e \in Range(s)
    BY <2>1, <2>2, RangeIs
  <2>5. e # s[1]
    BY <1>1, <2>1, <2>2, UpOnce
  <2> QED BY <2>1, <2>3, <2>4, <2>5
<1>6. ASSUME NEW e \in Range(s), e # s[1] PROVE e \in Range(Tail(s))
  <2>1. PICK i \in 1..Len(s) : s[i] = e
    BY RangeIs
  <2>2. i \in (1 + 1)..Len(s)
    BY <1>1, <1>6, <2>1
  <2> QED BY <1>2, <1>3, <2>1, <2>2, RangeIs
<1> QED BY <1>2, <1>3, <1>4, <1>5, <1>6

\* What is passed over is below lower, and what is left is not.
LEMMA FromIs ==
  ASSUME NEW s \in Seq(Held), Up(s), NEW lower \in Bytes
  PROVE  /\ From(s, lower) \in Seq(Held) /\ Up(From(s, lower))
         /\ Range(From(s, lower)) = {e \in Range(s) : ~Less(e.key, lower)}
         /\ Len(From(s, lower)) <= Len(s)
<1> DEFINE n == Len(s)
           below == {m \in 0..n : \A i \in 1..m : Less(s[i].key, lower)}
           p == Max(below)
<1>1. n \in Nat /\ 0 \in below
  OBVIOUS
<1>2. p \in below /\ \A m \in below : m <= p
  <2>1. below \in SUBSET (0..n) /\ below # {}
    BY <1>1
  <2> HIDE DEF below
  <2> QED BY <1>1, <2>1, Greatest
<1>3. From(s, lower) = SubSeq(s, p + 1, n)
  BY DEF From
<1>4. p \in Nat /\ p <= n /\ \A i \in 1..p : Less(s[i].key, lower)
  BY <1>1, <1>2
<1>5. \A i \in 1..n : s[i] \in Held /\ s[i].key \in Bytes
  BY HeldIs
<1>6. \A i \in (p + 1)..n : ~Less(s[i].key, lower)
  <2> SUFFICES ASSUME NEW i \in (p + 1)..n, Less(s[i].key, lower) PROVE FALSE
    OBVIOUS
  <2>1. i \in 1..n /\ p < i
    BY <1>1, <1>4
  <2>2. \A j \in 1..i : Less(s[j].key, lower)
    <3> TAKE j \in 1..i
    <3>1. j \in 1..n
      BY <2>1, <1>1
    <3>2. CASE j = i
      BY <3>2
    <3>3. CASE j < i
      <4>1. Less(s[j].key, s[i].key)
        BY <2>1, <3>1, <3>3 DEF Up
      <4> QED BY <4>1, <2>1, <3>1, <1>5, LessOrder
    <3> QED BY <3>2, <3>3
  <2>3. i \in below
    BY <2>1, <2>2
  <2> HIDE DEF below
  <2> QED BY <1>2, <1>4, <2>1, <2>3
<1> HIDE DEF p, below
<1>7. /\ SubSeq(s, p + 1, n) \in Seq(Held) /\ Up(SubSeq(s, p + 1, n))
      /\ Range(SubSeq(s, p + 1, n)) = {e \in Held : \E i \in (p + 1)..n : s[i] = e}
      /\ Len(SubSeq(s, p + 1, n)) = n - p
  BY <1>4, DropIs
<1>8. Range(From(s, lower)) = {e \in Range(s) : ~Less(e.key, lower)}
  <2>1. ASSUME NEW e \in Range(From(s, lower)) PROVE e \in Range(s) /\ ~Less(e.key, lower)
    <3>1. PICK i \in (p + 1)..n : s[i] = e
      BY <1>3, <1>7
    <3>2. i \in 1..n
      BY <1>1, <1>4
    <3> QED BY <3>1, <3>2, <1>6, RangeIs
  <2>2. ASSUME NEW e \in Range(s), ~Less(e.key, lower) PROVE e \in Range(From(s, lower))
    <3>1. PICK i \in 1..n : s[i] = e
      BY RangeIs
    <3>2. i \in (p + 1)..n
      BY <1>1, <1>4, <2>2, <3>1
    <3> QED BY <1>3, <1>7, <3>1, <3>2, RangeIs
  <2> QED BY <2>1, <2>2
<1> QED BY <1>1, <1>3, <1>4, <1>7, <1>8

LEMMA BeyondUp ==
  ASSUME NEW a \in Bytes, NEW b \in Bytes, NEW upper \in Bytes, Less(a, b), Beyond(a, upper)
  PROVE  Beyond(b, upper)
BY LessOrder DEF Beyond

Iterators ==
  [kind : {"memory", "disk"}, rest : Seq(Held), lower : Bytes, upper : Bytes,
   valid : BOOLEAN, finished : BOOLEAN, entry : Held \cup {NoEntry}]

\* An iterator over entries, whatever it has come to.
IteratorOK(it, entries) ==
  /\ it \in Iterators
  /\ Up(it.rest) /\ Range(it.rest) \subseteq Range(entries) /\ Range(entries) \subseteq Held
  /\ it.kind = "memory" => \A e \in Range(it.rest) : ~Less(e.key, it.lower)
  /\ it.kind = "disk" /\ it.valid /\ it.finished => it.entry = NoEntry
  /\ it.kind = "disk" /\ it.valid /\ ~it.finished =>
       /\ it.entry \in Range(entries) /\ ~Less(it.entry.key, it.lower)
       /\ \A e \in Range(it.rest) : Less(it.entry.key, e.key)
       /\ ~Beyond(it.lower, it.upper) => ~Beyond(it.entry.key, it.upper)

\* What it will still return.
Due(it) ==
  IF it.kind = "memory" THEN {e \in Range(it.rest) : ~Beyond(e.key, it.upper)}
  ELSE IF it.finished THEN {}
  ELSE (IF it.valid THEN {it.entry} ELSE {})
       \cup {e \in Range(it.rest) : ~Less(e.key, it.lower) /\ ~Beyond(e.key, it.upper)}

\* What peekKey says: the lowest entry, if there is one.
PeekedRight(it, p) ==
  /\ p.entry = NoEntry => Due(it) = {}
  /\ p.entry # NoEntry =>
       /\ p.entry \in Due(it)
       /\ \A e \in Due(it) : e = p.entry \/ Less(p.entry.key, e.key)
  /\ Due(p) = Due(it)

PeekedIs(it, p, entries) ==
  /\ IteratorOK(p, entries) /\ p.kind = it.kind /\ p.lower = it.lower /\ p.upper = it.upper
  /\ p.entry # NoEntry => p.entry \in Range(entries) /\ p.entry \in Held
  /\ ~Beyond(it.lower, it.upper) => PeekedRight(it, p)
  /\ Peek(p) = p

LEMMA MemoryPeekIs ==
  ASSUME NEW it, NEW entries, IteratorOK(it, entries), it.kind = "memory"
  PROVE  PeekedIs(it, Peek(it), entries)
<1> DEFINE p == MemoryPeek(it)
<1>1. /\ it \in Iterators /\ it.rest \in Seq(Held) /\ it.upper \in Bytes /\ it.lower \in Bytes
      /\ Up(it.rest) /\ Range(it.rest) \subseteq Range(entries) /\ Range(entries) \subseteq Held
      /\ \A e \in Range(it.rest) : ~Less(e.key, it.lower)
  BY DEF IteratorOK, Iterators
<1>2. Peek(it) = p
  BY DEF Peek
<1> DEFINE x == IF it.rest = <<>> \/ Beyond(it.rest[1].key, it.upper) THEN NoEntry ELSE it.rest[1]
<1>3. p = [it EXCEPT !.entry = x]
  BY DEF MemoryPeek
<1>4. it.rest # <<>> =>
        /\ it.rest[1] \in Held /\ it.rest[1] \in Range(it.rest)
        /\ \A e \in Range(it.rest) : e = it.rest[1] \/ Less(it.rest[1].key, e.key)
  <2> SUFFICES ASSUME it.rest # <<>>
               PROVE  /\ it.rest[1] \in Held /\ it.rest[1] \in Range(it.rest)
                      /\ \A e \in Range(it.rest) : e = it.rest[1] \/ Less(it.rest[1].key, e.key)
    OBVIOUS
  <2>1. /\ it.rest[1] \in Held /\ it.rest[1] \in Range(it.rest)
        /\ Range(Tail(it.rest)) = Range(it.rest) \ {it.rest[1]}
        /\ \A e \in Range(Tail(it.rest)) : Less(it.rest[1].key, e.key)
    BY <1>1, TailIs
  <2> QED BY <2>1
<1>5. x \in Held \cup {NoEntry} /\ (x # NoEntry => x = it.rest[1] /\ it.rest # <<>> /\ ~Beyond(x.key, it.upper))
  BY <1>4
<1>6. x = NoEntry => it.rest = <<>> \/ Beyond(it.rest[1].key, it.upper)
  <2>1. it.rest # <<>> => it.rest[1] # NoEntry
    BY <1>4, HeldIs
  <2> QED BY <2>1
<1> HIDE DEF x
<1>7. /\ p \in Iterators /\ p.kind = "memory" /\ p.rest = it.rest /\ p.upper = it.upper
      /\ p.lower = it.lower /\ p.entry = x
  BY <1>1, <1>3, <1>5 DEF Iterators
<1>8. Peek(p) = p
  <2>1. Peek(p) = MemoryPeek(p)
    BY <1>7 DEF Peek
  <2>2. MemoryPeek(p) = [p EXCEPT !.entry = x]
    BY <1>7 DEF MemoryPeek, x
  <2>3. [p EXCEPT !.entry = x] = p
    <3> HIDE DEF p
    <3> QED BY <1>7 DEF Iterators
  <2> QED BY <2>1, <2>2, <2>3
<1> HIDE DEF p
<1>9. IteratorOK(p, entries)
  BY <1>1, <1>7 DEF IteratorOK
<1>10. Due(p) = Due(it) /\ Due(it) = {e \in Range(it.rest) : ~Beyond(e.key, it.upper)}
  BY <1>7 DEF Due
<1>11. x = NoEntry => Due(it) = {}
  <2> SUFFICES ASSUME x = NoEntry, NEW e \in Range(it.rest) PROVE Beyond(e.key, it.upper)
    BY <1>10
  <2>1. it.rest # <<>>
    BY DEF Range
  <2>2. Beyond(it.rest[1].key, it.upper)
    BY <1>6, <2>1
  <2>3. e \in Held
    BY <1>1
  <2>4. e.key \in Bytes /\ it.rest[1].key \in Bytes
    BY <1>4, <2>1, <2>3, HeldIs
  <2>5. e = it.rest[1] \/ Less(it.rest[1].key, e.key)
    BY <1>4, <2>1
  <2> QED BY <1>1, <2>2, <2>4, <2>5, BeyondUp
<1>12. x # NoEntry => x \in Due(it) /\ \A e \in Due(it) : e = x \/ Less(x.key, e.key)
  BY <1>4, <1>5, <1>10
<1>13. x # NoEntry => x \in Range(entries) /\ x \in Held
  BY <1>1, <1>4, <1>5
<1> QED BY <1>2, <1>7, <1>8, <1>9, <1>10, <1>11, <1>12, <1>13 DEF PeekedIs, PeekedRight

LEMMA DiskPeekIs ==
  ASSUME NEW it, NEW entries, IteratorOK(it, entries), it.kind = "disk"
  PROVE  PeekedIs(it, Peek(it), entries)
<1>1. /\ it \in Iterators /\ it.rest \in Seq(Held) /\ it.upper \in Bytes /\ it.lower \in Bytes
      /\ Up(it.rest) /\ Range(it.rest) \subseteq Range(entries) /\ Range(entries) \subseteq Held
      /\ it.kind # "memory" /\ it.valid \in BOOLEAN /\ it.finished \in BOOLEAN
  BY DEF IteratorOK, Iterators
<1> DEFINE p == DiskPeek(it)
<1>2. Peek(it) = p
  BY <1>1 DEF Peek
<1>3. CASE it.valid
  <2>1. p = it
    BY <1>3 DEF DiskPeek
  <2> HIDE DEF p
  <2>2. it.finished => it.entry = NoEntry /\ Due(it) = {}
    BY <1>1, <1>3 DEF IteratorOK, Due
  <2>3. ~it.finished =>
          /\ it.entry \in Range(entries) /\ it.entry \in Held /\ it.entry # NoEntry /\ it.entry \in Due(it)
          /\ \A e \in Due(it) : e = it.entry \/ Less(it.entry.key, e.key)
    <3> SUFFICES ASSUME ~it.finished
                 PROVE  /\ it.entry \in Range(entries) /\ it.entry \in Held /\ it.entry # NoEntry
                        /\ it.entry \in Due(it)
                        /\ \A e \in Due(it) : e = it.entry \/ Less(it.entry.key, e.key)
      OBVIOUS
    <3>1. it.entry \in Range(entries) /\ \A e \in Range(it.rest) : Less(it.entry.key, e.key)
      BY <1>3 DEF IteratorOK
    <3>2. it.entry \in Held /\ it.entry # NoEntry
      BY <1>1, <3>1, HeldIs
    <3> QED BY <1>1, <1>3, <3>1, <3>2 DEF Due
  <2> QED BY <1>2, <2>1, <2>2, <2>3 DEF PeekedIs, PeekedRight
<1>4. CASE ~it.valid /\ it.finished
  <2>1. p = [it EXCEPT !.entry = NoEntry]
    BY <1>4 DEF DiskPeek, NextKeyValue
  <2>2. /\ p \in Iterators /\ p.kind = "disk" /\ p.rest = it.rest /\ p.upper = it.upper
        /\ p.lower = it.lower /\ p.entry = NoEntry /\ ~p.valid /\ p.finished
    <3> HIDE DEF p
    <3> QED BY <1>1, <1>4, <2>1 DEF Iterators, IteratorOK
  <2>3. Peek(p) = p
    <3>1. Peek(p) = [p EXCEPT !.entry = NoEntry]
      BY <2>2 DEF Peek, DiskPeek, NextKeyValue
    <3> HIDE DEF p
    <3>2. [p EXCEPT !.entry = NoEntry] = p
      BY <2>2 DEF Iterators
    <3> QED BY <3>1, <3>2
  <2> HIDE DEF p
  <2>4. IteratorOK(p, entries)
    BY <1>1, <2>2 DEF IteratorOK
  <2>5. Due(p) = {} /\ Due(it) = {}
    BY <1>1, <1>4, <2>2 DEF Due
  <2> QED BY <1>2, <2>2, <2>3, <2>4, <2>5 DEF PeekedIs, PeekedRight
<1>5. CASE ~it.valid /\ ~it.finished
  <2> DEFINE rest == From(it.rest, it.lower)
             found == rest # <<>> /\ (rest[1].key = it.lower \/ ~Beyond(rest[1].key, it.upper))
  <2>0. Due(it) = {e \in Range(it.rest) : ~Less(e.key, it.lower) /\ ~Beyond(e.key, it.upper)}
    BY <1>1, <1>5 DEF Due
  <2>1. /\ rest \in Seq(Held) /\ Up(rest)
        /\ Range(rest) = {e \in Range(it.rest) : ~Less(e.key, it.lower)}
    BY <1>1, FromIs
  <2>2. p = IF found THEN [it EXCEPT !.entry = rest[1], !.rest = Tail(rest), !.valid = TRUE]
            ELSE [it EXCEPT !.entry = NoEntry, !.valid = TRUE, !.finished = TRUE]
    BY <1>5 DEF DiskPeek, NextKeyValue
  <2> HIDE DEF rest
  <2>3. rest # <<>> =>
          /\ rest[1] \in Held /\ rest[1] \in Range(rest)
          /\ Tail(rest) \in Seq(Held) /\ Up(Tail(rest))
          /\ Range(Tail(rest)) = Range(rest) \ {rest[1]}
          /\ \A e \in Range(Tail(rest)) : Less(rest[1].key, e.key)
    BY <2>1, TailIs
  <2>4. CASE found
    <3> DEFINE x == rest[1]
               t == Tail(rest)
    <3>1. /\ x \in Held /\ x \in Range(rest) /\ t \in Seq(Held) /\ Up(t)
          /\ Range(t) = Range(rest) \ {x} /\ \A e \in Range(t) : Less(x.key, e.key)
      BY <2>3, <2>4
    <3>2. p = [it EXCEPT !.entry = x, !.rest = t, !.valid = TRUE]
      BY <2>2, <2>4
    <3>3. ~Beyond(it.lower, it.upper) => ~Beyond(x.key, it.upper)
      BY <2>4
    <3> HIDE DEF x, t, p
    <3>4. /\ p \in Iterators /\ p.kind = "disk" /\ p.rest = t /\ p.upper = it.upper
          /\ p.lower = it.lower /\ p.entry = x /\ p.valid /\ ~p.finished
      BY <1>1, <1>5, <3>1, <3>2 DEF Iterators, IteratorOK
    <3>5. Peek(p) = p
      BY <3>4 DEF Peek, DiskPeek
    <3>6. x \in Range(entries) /\ ~Less(x.key, it.lower) /\ x # NoEntry
      BY <1>1, <2>1, <3>1, HeldIs
    <3>7. IteratorOK(p, entries)
      BY <1>1, <2>1, <3>1, <3>3, <3>4, <3>6 DEF IteratorOK
    <3>8. ASSUME ~Beyond(it.lower, it.upper) PROVE PeekedRight(it, p)
      <4>1. ~Beyond(x.key, it.upper)
        BY <3>3, <3>8
      <4>2. x \in Due(it)
        BY <2>0, <2>1, <3>1, <4>1
      <4>3. \A e \in Due(it) : e = x \/ Less(x.key, e.key)
        BY <2>0, <2>1, <3>1
      <4>4. Due(p) = {x} \cup {e \in Range(t) : ~Less(e.key, it.lower) /\ ~Beyond(e.key, it.upper)}
        BY <3>4 DEF Due
      <4>5. Due(p) = Due(it)
        BY <2>0, <2>1, <3>1, <4>2, <4>4
      <4> QED BY <3>4, <3>6, <4>2, <4>3, <4>5 DEF PeekedRight
    <3> QED BY <1>2, <3>1, <3>4, <3>5, <3>6, <3>7, <3>8 DEF PeekedIs
  <2>5. CASE ~found
    <3>1. p = [it EXCEPT !.entry = NoEntry, !.valid = TRUE, !.finished = TRUE]
      BY <2>2, <2>5
    <3> HIDE DEF p
    <3>2. /\ p \in Iterators /\ p.kind = "disk" /\ p.rest = it.rest /\ p.upper = it.upper
          /\ p.lower = it.lower /\ p.entry = NoEntry /\ p.valid /\ p.finished
      BY <1>1, <1>5, <3>1 DEF Iterators, IteratorOK
    <3>3. Peek(p) = p
      BY <3>2 DEF Peek, DiskPeek
    <3>4. IteratorOK(p, entries)
      BY <1>1, <3>2 DEF IteratorOK
    <3>5. Due(it) = {}
      <4> SUFFICES ASSUME NEW e \in Range(rest) PROVE Beyond(e.key, it.upper)
        BY <2>0, <2>1
      <4>1. rest # <<>>
        BY DEF Range
      <4>2. Beyond(rest[1].key, it.upper)
        BY <2>5, <4>1
      <4>3. e = rest[1] \/ Less(rest[1].key, e.key)
        BY <2>3, <4>1
      <4>4. e \in Held /\ rest[1] \in Held
        BY <1>1, <2>1, <2>3, <4>1
      <4>5. e.key \in Bytes /\ rest[1].key \in Bytes
        BY <4>4, HeldIs
      <4> QED BY <1>1, <4>2, <4>3, <4>5, BeyondUp
    <3>6. Due(p) = {}
      BY <3>2 DEF Due
    <3> QED BY <1>2, <3>2, <3>3, <3>4, <3>5, <3>6 DEF PeekedIs, PeekedRight
  <2> QED BY <2>4, <2>5
<1> QED BY <1>1, <1>3, <1>4, <1>5

LEMMA PeekIs ==
  ASSUME NEW it, NEW entries, IteratorOK(it, entries)
  PROVE  PeekedIs(it, Peek(it), entries)
<1>1. it.kind \in {"memory", "disk"}
  BY DEF IteratorOK, Iterators
<1> QED BY <1>1, MemoryPeekIs, DiskPeekIs

\* next returns what peekKey has said, and is past it.
LEMMA NextOfIs ==
  ASSUME NEW p, NEW entries, IteratorOK(p, entries), Peek(p) = p, p.entry # NoEntry
  PROVE  /\ IteratorOK(NextOf(p), entries) /\ NextOf(p).entry = p.entry
         /\ NextOf(p).lower = p.lower /\ NextOf(p).upper = p.upper
         /\ ~Beyond(p.lower, p.upper) => Due(NextOf(p)) = Due(p) \ {p.entry}
<1> DEFINE q == NextOf(p)
<1>1. /\ p \in Iterators /\ p.rest \in Seq(Held) /\ p.upper \in Bytes /\ p.lower \in Bytes
      /\ Up(p.rest) /\ Range(p.rest) \subseteq Range(entries) /\ Range(entries) \subseteq Held
      /\ p.kind \in {"memory", "disk"} /\ p.valid \in BOOLEAN /\ p.finished \in BOOLEAN
  BY DEF IteratorOK, Iterators
<1>2. CASE p.kind = "memory"
  <2>1. MemoryPeek(p) = p
    BY <1>2 DEF Peek
  <2>2. p.rest # <<>> /\ p.entry = p.rest[1]
    <3> DEFINE x == IF p.rest = <<>> \/ Beyond(p.rest[1].key, p.upper) THEN NoEntry ELSE p.rest[1]
    <3>1. p = [p EXCEPT !.entry = x]
      BY <2>1 DEF MemoryPeek
    <3> HIDE DEF x
    <3>2. p.entry = x
      <4>1. [p EXCEPT !.entry = x].entry = x
        BY <1>1 DEF Iterators
      <4> QED BY <3>1, <4>1
    <3> QED BY <3>2 DEF x
  <2>3. q = [p EXCEPT !.rest = Tail(@)]
    BY <1>2, <2>1 DEF NextOf, MemoryNext
  <2>4. /\ Tail(p.rest) \in Seq(Held) /\ Up(Tail(p.rest))
        /\ Range(Tail(p.rest)) = Range(p.rest) \ {p.rest[1]}
    BY <1>1, <2>2, TailIs
  <2> HIDE DEF q
  <2>5. /\ q \in Iterators /\ q.kind = "memory" /\ q.rest = Tail(p.rest) /\ q.upper = p.upper
        /\ q.lower = p.lower /\ q.entry = p.entry
    BY <1>1, <1>2, <2>3, <2>4 DEF Iterators
  <2>6. IteratorOK(q, entries)
    <3>1. \A e \in Range(p.rest) : ~Less(e.key, p.lower)
      BY <1>2 DEF IteratorOK
    <3> QED BY <1>1, <2>4, <2>5, <3>1 DEF IteratorOK
  <2>7. Due(q) = Due(p) \ {p.entry}
    BY <1>2, <2>2, <2>4, <2>5 DEF Due
  <2> QED BY <2>5, <2>6, <2>7 DEF q
<1>3. CASE p.kind = "disk"
  <2>0. p.kind # "memory"
    BY <1>3
  <2>1. DiskPeek(p) = p
    BY <2>0 DEF Peek
  <2>2. p.valid /\ ~p.finished
    <3>1. ~(~p.valid /\ p.finished)
      <4> SUFFICES ASSUME ~p.valid, p.finished PROVE FALSE
        OBVIOUS
      <4>1. p = [p EXCEPT !.entry = NoEntry]
        BY <2>1 DEF DiskPeek, NextKeyValue
      <4>2. [p EXCEPT !.entry = NoEntry].entry = NoEntry
        BY <1>1 DEF Iterators
      <4> QED BY <4>1, <4>2
    <3>2. ~(~p.valid /\ ~p.finished)
      <4> SUFFICES ASSUME ~p.valid, ~p.finished PROVE FALSE
        OBVIOUS
      <4> DEFINE rest == From(p.rest, p.lower)
                 found == rest # <<>> /\ (rest[1].key = p.lower \/ ~Beyond(rest[1].key, p.upper))
                 a == [p EXCEPT !.entry = rest[1], !.rest = Tail(rest), !.valid = TRUE]
                 b == [p EXCEPT !.entry = NoEntry, !.valid = TRUE, !.finished = TRUE]
      <4>1. p = IF found THEN a ELSE b
        BY <2>1 DEF DiskPeek, NextKeyValue
      <4> HIDE DEF rest, found
      <4>2. a.valid /\ b.valid
        BY <1>1 DEF Iterators
      <4> QED BY <4>1, <4>2
    <3>3. ~(p.valid /\ p.finished)
      BY <1>3 DEF IteratorOK
    <3> QED BY <1>1, <3>1, <3>2, <3>3
  <2>3. q = [p EXCEPT !.valid = FALSE]
    BY <2>0, <2>1 DEF NextOf, DiskNext
  <2>4. /\ p.entry \in Range(entries)
        /\ \A e \in Range(p.rest) : Less(p.entry.key, e.key)
    BY <1>3, <2>2 DEF IteratorOK
  <2> HIDE DEF q
  <2>5. /\ q \in Iterators /\ q.kind = "disk" /\ q.rest = p.rest /\ q.upper = p.upper
        /\ q.lower = p.lower /\ q.entry = p.entry /\ ~q.valid /\ ~q.finished
    BY <1>1, <1>3, <2>2, <2>3 DEF Iterators
  <2>6. IteratorOK(q, entries)
    BY <1>1, <2>5 DEF IteratorOK
  <2>7. p.entry \notin Range(p.rest)
    <3>1. p.entry.key \in Bytes
      BY <1>1, <2>4, HeldIs
    <3> QED BY <2>4, <3>1, LessOrder
  <2>8. Due(q) = Due(p) \ {p.entry}
    BY <2>0, <2>2, <2>5, <2>7 DEF Due
  <2> QED BY <2>5, <2>6, <2>8 DEF q
<1> QED BY <1>1, <1>2, <1>3

-----------------------------------------------------------------------------
\* Where a search or a lookup starts.

\* A set of positions that has all those below one of its own.
LEMMA DownSet ==
  ASSUME NEW n \in Nat, NEW T \in SUBSET (1..n), \A i \in T : \A j \in 1..i : j \in T
  PROVE  Cardinality(T) \in 0..n /\ T = 1..Cardinality(T)
<1>1. CASE T = {}
  <2>1. Cardinality(T) = 0
    BY <1>1, FS_EmptySet
  <2> QED BY <1>1, <2>1
<1>2. CASE T # {}
  <2> DEFINE t == Max(T)
  <2>1. t \in T /\ \A i \in T : i <= t
    <3>1. T \in SUBSET (0..n)
      OBVIOUS
    <3> QED BY <3>1, <1>2, Greatest
  <2> HIDE DEF t
  <2>2. t \in 1..n
    BY <2>1
  <2>3. T = 1..t
    <3>1. \A j \in 1..t : j \in T
      BY <2>1
    <3>2. \A j \in T : j \in 1..t
      BY <2>1, <2>2
    <3> QED BY <3>1, <3>2
  <2>4. Cardinality(1..t) = t
    <3>1. Cardinality(1..t) = IF 1 > t THEN 0 ELSE t - 1 + 1
      BY <2>2, FS_Interval
    <3> QED BY <2>2, <3>1
  <2> QED BY <2>2, <2>3, <2>4
<1> QED BY <1>1, <1>2

\* Every block before the end of the file has a place in the index.
LEMMA IndexReaches ==
  ASSUME NEW n \in Nat, NEW j \in Nat, keyIndexInterval * j < n
  PROVE  j + 1 <= IndexLength(n)
<1> DEFINE k == keyIndexInterval
           c == IndexLength(n)
<1>1. k \in Nat \ {0}
  BY KeyFileAssumption
<1>2. n + k - 1 = k * c + ((n + k - 1) % k) /\ (n + k - 1) % k \in 0..(k - 1) /\ c \in Nat
  <2>1. n + k - 1 \in Nat
    BY <1>1
  <2> HIDE DEF k
  <2>2. c = (n + k - 1) \div k
    BY DEF IndexLength, k
  <2> HIDE DEF c
  <2> QED BY <1>1, <2>1, <2>2, Division
<1> HIDE DEF k, c
<1> DEFINE r == (n + k - 1) % k
<1>3. n + k - 1 = k * c + r /\ r \in 0..(k - 1) /\ k * c \in Nat
  <2>1. k * c \in Nat
    BY <1>1, <1>2, Product
  <2> QED BY <1>2, <2>1
<1> HIDE DEF r
<1>4. k * j < k * c
  <2>1. k * j < n /\ k * j \in Nat
    <3>1. k * j \in Nat
      BY <1>1, Product
    <3> QED BY <3>1 DEF k
  <2> QED BY <1>1, <1>3, <2>1
<1>5. j < c
  <2> SUFFICES ASSUME c <= j PROVE FALSE
    BY <1>2
  <2>1. k * c <= k * j
    BY <1>1, <1>2, Product
  <2>2. k * c \in Nat /\ k * j \in Nat
    BY <1>1, <1>2, Product
  <2> QED BY <1>4, <2>1, <2>2
<1> QED BY <1>2, <1>5 DEF c

\* The first key of a block, counted from 0.
FirstKey(seg, b) == Block(seg, b)[1].suffix

\* A file whose blocks can be read, in the order of their keys.
Sorted(seg) == BlocksOK(seg) /\ Up(Contents(seg)) /\ seg.blocks # <<>>

LEMMA BlocksRise ==
  ASSUME NEW seg, Sorted(seg)
  PROVE  LET s == BlockEntries(seg)
             n == Len(seg.blocks)
         IN  /\ n \in Nat /\ n # 0
             /\ \A b \in 1..n : /\ s[b] \in Seq(Held) /\ Len(s[b]) # 0 /\ Up(s[b])
                                /\ s[b][1].key = FirstKey(seg, b - 1) /\ s[b][1] \in Range(s[b])
             /\ \A b, c \in 1..n : b < c => Before(s[b], s[c])
             /\ Range(Contents(seg)) = {e \in Held : \E b \in 1..n : e \in Range(s[b])}
<1> DEFINE s == BlockEntries(seg)
           n == Len(seg.blocks)
<1>1. BlocksOK(seg) /\ Up(Contents(seg)) /\ seg.blocks # <<>>
  BY DEF Sorted
<1>2. n \in Nat /\ n # 0 /\ \A b \in 1..n : ItemsOK(seg.blocks[b], seg.data)
  BY <1>1 DEF BlocksOK
<1>3. s \in Seq(Seq(Held)) /\ Len(s) = n /\ \A b \in 1..n : s[b] = EntriesIn(seg.blocks[b], seg.data)
  BY <1>1, BlockEntriesIs
<1>4. FlatProperties(s)
  BY <1>3, FlattenProperties
<1>5. /\ \A b \in 1..n : Up(s[b])
      /\ \A b, c \in 1..n : b < c => Before(s[b], s[c])
      /\ Range(Contents(seg)) = {e \in Held : \E b \in 1..n : e \in Range(s[b])}
  BY <1>1, <1>3, <1>4 DEF FlatProperties, Contents
<1> HIDE DEF s, n
<1>6. ASSUME NEW b \in 1..n
      PROVE  /\ s[b] \in Seq(Held) /\ Len(s[b]) # 0
             /\ s[b][1].key = FirstKey(seg, b - 1) /\ s[b][1] \in Range(s[b])
  <2> DEFINE items == seg.blocks[b]
  <2>1. /\ items \in Seq(Item) /\ Len(items) # 0 /\ items[1].prefix = 0
        /\ EntriesIn(items, seg.data) \in Seq(Held) /\ s[b] = EntriesIn(items, seg.data)
    BY <1>2, <1>3 DEF ItemsOK
  <2>2. Block(seg, b - 1) = items
    <3>1. (b - 1) + 1 = b
      BY <1>2
    <3> QED BY <3>1 DEF Block
  <2> HIDE DEF items
  <2>3. 1 \in 1..Len(items) /\ Len(items) \in Nat
    BY <2>1
  <2>4. EntriesIn(items, seg.data)[1].key = items[1].suffix
    <3>1. EntriesIn(items, seg.data)[1].key = DecodedKeys(items)[1]
      BY <2>3 DEF EntriesIn
    <3>2. DecodedKeys(items)[1] = items[1].suffix
      BY <2>1, FirstKeyIs
    <3> QED BY <3>1, <3>2
  <2>5. Len(EntriesIn(items, seg.data)) = Len(items)
    <3>1. DOMAIN EntriesIn(items, seg.data) = 1..Len(items)
      BY DEF EntriesIn
    <3> QED BY <2>1, <2>3, <3>1
  <2>6. s[b][1] \in Range(s[b])
    <3>1. 1 \in 1..Len(s[b]) /\ s[b] \in Seq(Held)
      BY <2>1, <2>3, <2>5
    <3> QED BY <3>1, RangeIs
  <2> QED BY <2>1, <2>2, <2>4, <2>5, <2>6 DEF FirstKey
<1> QED BY <1>2, <1>5, <1>6 DEF s, n

\* Where IndexBlock leads: everything before it is below the key, and the next
\* block of the index starts above it.
IndexRight(seg, key, low) ==
  /\ low \in 0..(Len(seg.blocks) - 1)
  /\ low # 0 => ~Less(key, FirstKey(seg, low))
  /\ low + keyIndexInterval <= Len(seg.blocks) - 1 => Less(key, FirstKey(seg, low + keyIndexInterval))

LEMMA IndexBlockIs ==
  ASSUME NEW seg, NEW key \in Bytes, Sorted(seg)
  PROVE  IndexRight(seg, key, IndexBlock(seg.index, key))
<1> DEFINE n == Len(seg.blocks)
           k == keyIndexInterval
           m == IndexLength(n)
           index == seg.index
           T == {i \in 1..m : ~Less(key, index[i])}
           t == Cardinality(T)
           s == BlockEntries(seg)
<1>1. /\ n \in Nat /\ n # 0
      /\ \A b \in 1..n : /\ s[b] \in Seq(Held) /\ s[b][1].key = FirstKey(seg, b - 1) /\ s[b][1] \in Range(s[b])
      /\ \A b, c \in 1..n : b < c => Before(s[b], s[c])
  BY BlocksRise
<1>2. k \in Nat \ {0}
  BY KeyFileAssumption
<1> HIDE DEF s
<1>3. ASSUME NEW b \in 0..(n - 1), NEW c \in 0..(n - 1), b < c
      PROVE  Less(FirstKey(seg, b), FirstKey(seg, c))
  <2> DEFINE p == b + 1
             q == c + 1
  <2>1. p \in 1..n /\ q \in 1..n /\ p < q /\ p - 1 = b /\ q - 1 = c
    BY <1>1, <1>3
  <2> HIDE DEF p, q
  <2>2. Before(s[p], s[q])
    BY <1>1, <2>1
  <2>3. Less(s[p][1].key, s[q][1].key)
    BY <1>1, <2>1, <2>2 DEF Before
  <2> QED BY <1>1, <2>1, <2>3
<1>4. ASSUME NEW b \in 0..(n - 1) PROVE FirstKey(seg, b) \in Bytes
  <2> DEFINE p == b + 1
  <2>1. p \in 1..n /\ p - 1 = b
    BY <1>1
  <2> HIDE DEF p
  <2>2. s[p][1] \in Held
    BY <1>1, <2>1, RangeIs
  <2> QED BY <1>1, <2>1, <2>2, HeldIs
<1> HIDE DEF n
<1>5. /\ m \in Nat /\ \A i \in 1..m : (i - 1) * k \in 0..(n - 1)
  BY <1>1, IndexLengthIs
<1>6. DOMAIN index = 1..m /\ \A i \in 1..m : index[i] = FirstKey(seg, (i - 1) * k)
  <2>1. index = IndexOf(seg.blocks)
    BY DEF Sorted, BlocksOK
  <2>2. DOMAIN index = 1..m /\ \A i \in 1..m : index[i] = seg.blocks[(i - 1) * k + 1][1].suffix
    BY <2>1 DEF IndexOf, n
  <2> QED BY <2>2 DEF FirstKey, Block
<1>7. IndexBlock(index, key) = k * (IF t = 0 THEN 0 ELSE t - 1)
  <2>1. {i \in DOMAIN index : ~Less(key, index[i])} = T
    BY <1>6
  <2> HIDE DEF T
  <2> QED BY <2>1 DEF IndexBlock
<1> HIDE DEF m, index, k
<1>8. t \in 0..m /\ T = 1..t
  <2>1. \A i \in T : \A j \in 1..i : j \in T
    <3> SUFFICES ASSUME NEW i \in T, NEW j \in 1..i PROVE j \in T
      OBVIOUS
    <3>1. i \in 1..m /\ j \in 1..m /\ ~Less(key, index[i])
      BY <1>5
    <3>2. CASE i = j
      BY <3>2
    <3>3. CASE j < i
      <4> DEFINE a == (j - 1) * k
                 b == (i - 1) * k
      <4>1. a \in 0..(n - 1) /\ b \in 0..(n - 1)
        BY <1>5, <3>1
      <4>2. a < b
        <5> DEFINE x == j - 1
                   y == i - 1
        <5>1. x \in Nat /\ y \in Nat /\ x + 1 <= y /\ x + 1 \in Nat
          BY <3>1, <3>3
        <5> HIDE DEF x, y
        <5>2. k * (x + 1) <= k * y
          BY <1>2, <5>1, Product
        <5>3. k * (x + 1) = k * x + k /\ k * x \in Nat /\ k * y \in Nat /\ x * k = k * x /\ y * k = k * y
          BY <1>2, <5>1
        <5>4. x * k < y * k
          BY <1>2, <5>2, <5>3
        <5> QED BY <5>4 DEF x, y
      <4> HIDE DEF a, b
      <4>3. Less(FirstKey(seg, a), FirstKey(seg, b))
        BY <1>3, <4>1, <4>2
      <4>4. Less(index[j], index[i]) /\ index[j] \in Bytes /\ index[i] \in Bytes
        BY <1>4, <1>6, <3>1, <4>1, <4>3 DEF a, b
      <4>5. ~Less(key, index[j])
        BY <3>1, <4>4, LessOrder
      <4> QED BY <3>1, <4>5
    <3> QED BY <3>1, <3>2, <3>3, <1>5
  <2>2. T \in SUBSET (1..m)
    OBVIOUS
  <2> HIDE DEF T
  <2> QED BY <1>5, <2>1, <2>2, DownSet
<1> DEFINE j == IF t = 0 THEN 0 ELSE t - 1
           low == k * j
<1>9. j \in Nat /\ (t # 0 => j = t - 1 /\ t \in 1..m) /\ (t = 0 => j = 0)
  BY <1>5, <1>8
<1> HIDE DEF t, j
<1>10. low \in 0..(n - 1) /\ (t # 0 => low = (t - 1) * k)
  <2>1. CASE t = 0
    BY <1>1, <1>2, <1>9, <2>1
  <2>2. CASE t # 0
    <3>1. (t - 1) * k \in 0..(n - 1)
      BY <1>5, <1>9, <2>2
    <3>2. k * j = j * k
      BY <1>2, <1>9
    <3> QED BY <1>9, <2>2, <3>1, <3>2
  <2> QED BY <2>1, <2>2
<1>11. ASSUME low # 0 PROVE ~Less(key, FirstKey(seg, low))
  <2>1. t # 0
    BY <1>2, <1>9, <1>11
  <2>2. t \in T
    BY <1>8, <1>9, <2>1
  <2>3. ~Less(key, index[t])
    BY <2>2
  <2>4. index[t] = FirstKey(seg, low)
    BY <1>6, <1>9, <1>10, <2>1
  <2> QED BY <2>3, <2>4
<1>12. ASSUME low + k <= n - 1 PROVE Less(key, FirstKey(seg, low + k))
  <2> DEFINE i == j + 1
  <2>0. i \in Nat /\ j + 1 = i
    BY <1>9
  <2>1. k * i = low + k /\ low \in Nat
    BY <1>2, <1>9, <1>10
  <2> HIDE DEF i, low
  <2>2. k * i < n
    BY <1>1, <1>2, <1>12, <2>1
  <2>3. i + 1 <= m
    BY <1>1, <2>0, <2>2, IndexReaches DEF m, k
  <2> DEFINE h == i + 1
  <2>4. h \in 1..m /\ h - 1 = i
    BY <1>5, <2>0, <2>3
  <2> HIDE DEF h
  <2>5. h \notin T
    <3>1. h > t /\ h \in Nat
      BY <1>8, <1>9, <2>0, <2>4
    <3> HIDE DEF T
    <3> QED BY <1>8, <3>1
  <2>6. Less(key, index[h])
    BY <2>4, <2>5
  <2>7. index[h] = FirstKey(seg, i * k)
    BY <1>6, <2>4
  <2>8. i * k = k * i
    BY <1>2, <2>0
  <2> QED BY <2>1, <2>6, <2>7, <2>8
<1>13. IndexBlock(index, key) = low
  BY <1>7 DEF j
<1> HIDE DEF low
<1> QED BY <1>10, <1>11, <1>12, <1>13 DEF IndexRight, n, k, index

\* The entries from a block on.
FromBlock(seg, start) ==
  FlattenSeq([b \in 1..(Len(seg.blocks) - start) |-> Decoded(seg, start + b - 1)])

LEMMA FromBlockIs ==
  ASSUME NEW seg, Sorted(seg), NEW start \in 0..(Len(seg.blocks) - 1)
  PROVE  /\ FromBlock(seg, start) \in Seq(Held) /\ Up(FromBlock(seg, start))
         /\ Range(FromBlock(seg, start)) =
              {e \in Held : \E b \in (start + 1)..Len(seg.blocks) : e \in Range(BlockEntries(seg)[b])}
<1> DEFINE n == Len(seg.blocks)
           s == BlockEntries(seg)
           m == n - start
           u == [b \in 1..m |-> Decoded(seg, start + b - 1)]
<1>1. /\ n \in Nat /\ n # 0
      /\ \A b \in 1..n : s[b] \in Seq(Held) /\ Up(s[b])
      /\ \A b, c \in 1..n : b < c => Before(s[b], s[c])
  BY BlocksRise
<1>2. \A b \in 1..n : s[b] = EntriesIn(seg.blocks[b], seg.data)
  <2>1. BlocksOK(seg)
    BY DEF Sorted
  <2> QED BY <2>1, BlockEntriesIs
<1> HIDE DEF n, s
<1>3. m \in Nat /\ start \in Nat /\ \A b \in 1..m : start + b \in 1..n
  <2>1. start \in 0..(n - 1)
    BY DEF n
  <2> QED BY <1>1, <2>1
<1>4. \A b \in 1..m : u[b] = s[start + b]
  <2> TAKE b \in 1..m
  <2> DEFINE c == start + b
  <2>1. c \in 1..n /\ c \in Int /\ u[b] = Decoded(seg, c - 1)
    BY <1>3
  <2> HIDE DEF c, u
  <2>2. Decoded(seg, c - 1) = EntriesIn(seg.blocks[c], seg.data)
    BY <2>1, DecodedIsEntries
  <2> QED BY <1>2, <2>1, <2>2 DEF c
<1>5. FromBlock(seg, start) = FlattenSeq(u)
  BY DEF FromBlock, n
<1>6. u \in Seq(Seq(Held)) /\ Len(u) = m
  <2>1. u = [b \in 1..m |-> u[b]]
    OBVIOUS
  <2> HIDE DEF u
  <2>2. \A b \in 1..m : u[b] \in Seq(Held)
    BY <1>1, <1>3, <1>4
  <2>3. u \in [1..m -> Seq(Held)]
    BY <2>1, <2>2
  <2> HIDE DEF m
  <2> QED BY <1>3, <2>3
<1> HIDE DEF u
<1>7. FlatProperties(u)
  BY <1>6, FlattenProperties
<1>8. \A b \in 1..m : Up(u[b])
  BY <1>1, <1>3, <1>4
<1>9. \A b, c \in 1..m : b < c => Before(u[b], u[c])
  <2> SUFFICES ASSUME NEW b \in 1..m, NEW c \in 1..m, b < c PROVE Before(u[b], u[c])
    OBVIOUS
  <2>1. start + b \in 1..n /\ start + c \in 1..n /\ start + b < start + c
    BY <1>3
  <2> QED BY <1>1, <1>4, <2>1
<1>10. \A c \in (start + 1)..n : c - start \in 1..m /\ start + (c - start) = c
  BY <1>1, <1>3
<1>11. \A b \in 1..m : start + b \in (start + 1)..n
  BY <1>1, <1>3
<1>12. \A e : (\E b \in 1..m : e \in Range(u[b])) <=> \E c \in (start + 1)..n : e \in Range(s[c])
  <2> TAKE e
  <2>1. ASSUME NEW b \in 1..m, e \in Range(u[b]) PROVE \E c \in (start + 1)..n : e \in Range(s[c])
    BY <1>4, <1>11, <2>1
  <2>2. ASSUME NEW c \in (start + 1)..n, e \in Range(s[c]) PROVE \E b \in 1..m : e \in Range(u[b])
    <3> DEFINE b == c - start
    <3>1. b \in 1..m /\ start + b = c
      BY <1>10
    <3> HIDE DEF b
    <3>2. u[b] = s[c]
      BY <1>4, <3>1
    <3> QED BY <2>2, <3>1, <3>2
  <2> QED BY <2>1, <2>2
<1> HIDE DEF m
<1> QED BY <1>5, <1>6, <1>7, <1>8, <1>9, <1>12 DEF FlatProperties, n, s

\* What a lookup is due from a segment.
DueFrom(content, lower, upper) ==
  {e \in Held : content[e.key] = e.value /\ ~Less(e.key, lower) /\ ~Beyond(e.key, upper)}

LookedUp(it, seg, content, lower, upper) ==
  /\ IteratorOK(it, EntriesOf(seg)) /\ it.lower = lower /\ it.upper = upper
  /\ Due(it) = DueFrom(content, lower, upper)

LEMMA IteratorStarts ==
  ASSUME NEW kind \in {"memory", "disk"}, NEW rest \in Seq(Held), NEW lower \in Bytes, NEW upper \in Bytes,
         NEW entries, Up(rest), Range(rest) \subseteq Range(entries), Range(entries) \subseteq Held,
         kind = "memory" => \A e \in Range(rest) : ~Less(e.key, lower)
  PROVE  LET it == Iterator(kind, rest, lower, upper)
         IN  /\ IteratorOK(it, entries) /\ it.lower = lower /\ it.upper = upper
             /\ Due(it) = {e \in Range(rest) : ~Less(e.key, lower) /\ ~Beyond(e.key, upper)}
<1> DEFINE it == Iterator(kind, rest, lower, upper)
<1>1. /\ it \in Iterators /\ it.kind = kind /\ it.rest = rest /\ it.lower = lower /\ it.upper = upper
      /\ it.valid = FALSE /\ it.finished = FALSE
  BY DEF Iterator, Iterators
<1> HIDE DEF it
<1>2. IteratorOK(it, entries)
  BY <1>1 DEF IteratorOK
<1>3. Due(it) = {e \in Range(rest) : ~Less(e.key, lower) /\ ~Beyond(e.key, upper)}
  <2>1. CASE kind = "memory"
    BY <1>1, <2>1 DEF Due
  <2>2. CASE kind = "disk"
    BY <1>1, <2>2 DEF Due
  <2> QED BY <2>1, <2>2
<1> QED BY <1>1, <1>2, <1>3 DEF it

LEMMA LookupIs ==
  ASSUME NEW seg, NEW content, SegmentOK(seg, content), NEW lower \in Bytes, NEW upper \in Bytes
  PROVE  LookedUp(Lookup(seg, lower, upper), seg, content, lower, upper)
<1> DEFINE E == EntriesOf(seg)
           it == Lookup(seg, lower, upper)
<1>1. /\ E \in Seq(Held) /\ Up(E)
      /\ \A e \in Held : e \in Range(E) <=> content[e.key] = e.value
      /\ seg.kind \in {"memory", "disk"}
      /\ seg.kind = "memory" => E = seg.entries
      /\ seg.kind = "disk" => BlocksOK(seg) /\ E = Contents(seg)
  BY SegmentIs
<1>2. Range(E) \subseteq Held
  BY <1>1, RangeIs
<1> HIDE DEF E
<1>3. {e \in Range(E) : ~Less(e.key, lower) /\ ~Beyond(e.key, upper)} = DueFrom(content, lower, upper)
  BY <1>1, <1>2 DEF DueFrom
<1>4. CASE seg.kind = "memory"
  <2> DEFINE rest == From(E, lower)
  <2>1. it = Iterator("memory", rest, lower, upper)
    BY <1>1, <1>4 DEF Lookup
  <2>2. rest \in Seq(Held) /\ Up(rest) /\ Range(rest) = {e \in Range(E) : ~Less(e.key, lower)}
    BY <1>1, FromIs
  <2> HIDE DEF rest, it
  <2>3. /\ IteratorOK(it, E) /\ it.lower = lower /\ it.upper = upper
        /\ Due(it) = {e \in Range(rest) : ~Less(e.key, lower) /\ ~Beyond(e.key, upper)}
    <3>1. Range(rest) \subseteq Range(E) /\ \A e \in Range(rest) : ~Less(e.key, lower)
      BY <2>2
    <3> QED BY <1>2, <2>1, <2>2, <3>1, IteratorStarts
  <2>4. Due(it) = DueFrom(content, lower, upper)
    BY <1>3, <2>2, <2>3
  <2> QED BY <2>3, <2>4 DEF LookedUp, it, E
<1>5. CASE seg.kind = "disk" /\ seg.blocks = <<>>
  <2>1. it = Iterator("memory", <<>>, lower, upper)
    BY <1>5 DEF Lookup
  <2>2. E = <<>>
    <3>1. E = Contents(seg) /\ Len(seg.blocks) = 0
      BY <1>1, <1>5
    <3>2. BlockEntries(seg) = <<>>
      BY <3>1 DEF BlockEntries
    <3> QED BY <3>1, <3>2 DEF Contents, FlattenSeq
  <2>3. <<>> \in Seq(Held) /\ Range(<<>>) = {} /\ Up(<<>>)
    BY DEF Range, Up
  <2> HIDE DEF it
  <2>4. /\ IteratorOK(it, E) /\ it.lower = lower /\ it.upper = upper
        /\ Due(it) = {e \in Range(<<>>) : ~Less(e.key, lower) /\ ~Beyond(e.key, upper)}
    <3> DEFINE nil == <<>>
    <3>1. /\ nil \in Seq(Held) /\ Up(nil) /\ Range(nil) \subseteq Range(E)
          /\ \A e \in Range(nil) : ~Less(e.key, lower)
      BY <2>3
    <3>2. it = Iterator("memory", nil, lower, upper)
      BY <2>1
    <3> HIDE DEF nil
    <3>3. /\ IteratorOK(it, E) /\ it.lower = lower /\ it.upper = upper
          /\ Due(it) = {e \in Range(nil) : ~Less(e.key, lower) /\ ~Beyond(e.key, upper)}
      BY <1>2, <3>1, <3>2, IteratorStarts
    <3> QED BY <3>3 DEF nil
  <2>5. Due(it) = DueFrom(content, lower, upper)
    BY <1>3, <2>2, <2>3, <2>4
  <2> QED BY <2>4, <2>5 DEF LookedUp, it, E
<1>6. CASE seg.kind = "disk" /\ seg.blocks # <<>>
  <2> DEFINE start == StartBlock(seg, lower)
             rest == FromBlock(seg, start)
             n == Len(seg.blocks)
             s == BlockEntries(seg)
  <2>1. Sorted(seg) /\ E = Contents(seg)
    BY <1>1, <1>6 DEF Sorted
  <2>2. it = Iterator("disk", rest, lower, upper)
    <3>1. ~(seg.kind = "memory" \/ seg.blocks = <<>>)
      BY <1>6
    <3> QED BY <3>1 DEF Lookup, FromBlock
  <2>3. /\ n \in Nat /\ n # 0
        /\ \A b \in 1..n : s[b] \in Seq(Held) /\ s[b][1].key = FirstKey(seg, b - 1) /\ s[b][1] \in Range(s[b])
        /\ \A b, c \in 1..n : b < c => Before(s[b], s[c])
        /\ Range(Contents(seg)) = {e \in Held : \E b \in 1..n : e \in Range(s[b])}
    BY <2>1, BlocksRise
  <2> HIDE DEF n, s
  <2>4. start \in 0..(n - 1) /\ (start # 0 => ~Less(lower, FirstKey(seg, start)))
    <3>1. CASE lower = <<>>
      BY <2>3, <3>1 DEF StartBlock
    <3>2. CASE lower # <<>>
      <4>1. start = IndexBlock(seg.index, lower)
        BY <3>2 DEF StartBlock
      <4>2. IndexRight(seg, lower, start)
        BY <2>1, <4>1, IndexBlockIs
      <4> QED BY <4>2 DEF IndexRight, n
    <3> QED BY <3>1, <3>2
  <2> HIDE DEF start
  <2>5. /\ rest \in Seq(Held) /\ Up(rest)
        /\ Range(rest) = {e \in Held : \E b \in (start + 1)..n : e \in Range(s[b])}
    <3>1. start \in 0..(Len(seg.blocks) - 1)
      BY <2>4 DEF n
    <3> QED BY <2>1, <3>1, FromBlockIs DEF n, s
  <2> HIDE DEF rest
  <2>6. Range(rest) \subseteq Range(E)
    <3>1. \A b \in (start + 1)..n : b \in 1..n
      BY <2>3, <2>4
    <3> QED BY <2>1, <2>3, <2>5, <3>1
  <2>7. \A e \in Range(E) : ~Less(e.key, lower) => e \in Range(rest)
    <3> SUFFICES ASSUME NEW e \in Range(E), ~Less(e.key, lower) PROVE e \in Range(rest)
      OBVIOUS
    <3>1. e \in Held
      BY <1>2
    <3>2. PICK b \in 1..n : e \in Range(s[b])
      BY <2>1, <2>3
    <3>3. CASE b \in (start + 1)..n
      BY <2>5, <3>1, <3>2, <3>3
    <3>4. CASE b <= start
      <4> DEFINE c == start + 1
      <4>1. start # 0 /\ c \in 1..n /\ b < c /\ c - 1 = start
        BY <2>3, <2>4, <3>4
      <4> HIDE DEF c
      <4>2. Before(s[b], s[c])
        BY <2>3, <4>1
      <4>3. Less(e.key, FirstKey(seg, start))
        BY <2>3, <3>2, <4>1, <4>2 DEF Before
      <4>4. FirstKey(seg, start) \in Bytes
        <5>1. s[c][1] \in Held /\ s[c][1].key = FirstKey(seg, start)
          BY <2>3, <4>1, RangeIs
        <5> QED BY <5>1, HeldIs
      <4>5. Less(e.key, lower)
        <5>1. e.key \in Bytes
          BY <3>1, HeldIs
        <5> QED BY <2>4, <4>1, <4>3, <4>4, <5>1, LessOrder
      <4> QED BY <4>5
    <3>5. b \in (start + 1)..n \/ b <= start
      BY <2>3, <2>4
    <3> QED BY <3>3, <3>4, <3>5
  <2> HIDE DEF it
  <2>8. /\ IteratorOK(it, E) /\ it.lower = lower /\ it.upper = upper
        /\ Due(it) = {e \in Range(rest) : ~Less(e.key, lower) /\ ~Beyond(e.key, upper)}
    BY <1>2, <2>2, <2>5, <2>6, IteratorStarts
  <2>9. Due(it) = DueFrom(content, lower, upper)
    BY <1>3, <2>6, <2>7, <2>8
  <2> QED BY <2>8, <2>9 DEF LookedUp, it, E
<1> QED BY <1>1, <1>4, <1>5, <1>6

-----------------------------------------------------------------------------
\* The newest entry of a key.

NewestEntry(L, e) ==
  \E i \in 1..Len(L) : L[i][e.key] = e.value /\ \A j \in (i + 1)..Len(L) : L[j][e.key] = Absent

LEMMA NewestIs ==
  ASSUME NEW L \in Seq(S!Content)
  PROVE  /\ \A e \in Held : NewestEntry(L, e) <=> S!Newest(L, e.key) = e.value
         /\ \A k \in Key : S!Newest(L, k) # Absent => S!Newest(L, k) \in Value \cup {<<>>}
<1>1. Len(L) \in Nat /\ \A i \in 1..Len(L) : L[i] \in S!Content
  OBVIOUS
<1>2. ASSUME NEW k \in Key, S!Defining(L, k) # {}
      PROVE  /\ S!MaxOf(S!Defining(L, k)) \in S!Defining(L, k)
             /\ \A i \in S!Defining(L, k) : i <= S!MaxOf(S!Defining(L, k))
  <2> DEFINE T == S!Defining(L, k)
  <2>1. T \in SUBSET (0..Len(L)) /\ T # {}
    BY <1>1, <1>2 DEF S!Defining
  <2> HIDE DEF T
  <2>2. Max(T) \in T /\ \A i \in T : i <= Max(T)
    BY <1>1, <2>1, Greatest
  <2>3. S!MaxOf(T) \in T /\ \A i \in T : i <= S!MaxOf(T)
    BY <2>2 DEF S!MaxOf
  <2> QED BY <2>3 DEF T
<1>3. ASSUME NEW k \in Key, S!Newest(L, k) # Absent
      PROVE  /\ S!Defining(L, k) # {}
             /\ S!Newest(L, k) = L[S!MaxOf(S!Defining(L, k))][k]
  BY <1>3 DEF S!Newest
<1>4. ASSUME NEW k \in Key, S!Newest(L, k) # Absent
      PROVE  S!Newest(L, k) \in Value \cup {<<>>}
  <2> DEFINE i == S!MaxOf(S!Defining(L, k))
  <2>1. i \in S!Defining(L, k) /\ S!Newest(L, k) = L[i][k]
    BY <1>2, <1>3, <1>4
  <2> HIDE DEF i
  <2>2. i \in 1..Len(L) /\ L[i][k] # Absent
    BY <2>1 DEF S!Defining
  <2> QED BY <1>1, <2>1, <2>2, ContentIs
<1>5. ASSUME NEW e \in Held, NewestEntry(L, e) PROVE S!Newest(L, e.key) = e.value
  <2>0. e.key \in Key /\ e.value # Absent
    BY HeldIs, KeysAreBytes
  <2>1. PICK i \in 1..Len(L) : L[i][e.key] = e.value /\ \A j \in (i + 1)..Len(L) : L[j][e.key] = Absent
    BY <1>5 DEF NewestEntry
  <2>2. i \in S!Defining(L, e.key)
    BY <2>0, <2>1 DEF S!Defining
  <2> DEFINE m == S!MaxOf(S!Defining(L, e.key))
  <2>3. m \in S!Defining(L, e.key) /\ i <= m
    BY <1>2, <2>0, <2>2
  <2>4. S!Newest(L, e.key) = L[m][e.key]
    BY <2>2 DEF S!Newest
  <2> HIDE DEF m
  <2>5. m \in 1..Len(L) /\ L[m][e.key] # Absent
    BY <2>3 DEF S!Defining
  <2>6. m = i
    <3>1. m \notin (i + 1)..Len(L)
      BY <2>1, <2>5
    <3> QED BY <1>1, <2>3, <2>5, <3>1
  <2> QED BY <2>1, <2>4, <2>6
<1>6. ASSUME NEW e \in Held, S!Newest(L, e.key) = e.value PROVE NewestEntry(L, e)
  <2>0. e.key \in Key /\ e.value # Absent
    BY HeldIs, KeysAreBytes
  <2> DEFINE m == S!MaxOf(S!Defining(L, e.key))
  <2>1. /\ m \in S!Defining(L, e.key) /\ \A i \in S!Defining(L, e.key) : i <= m
        /\ L[m][e.key] = e.value
    BY <1>2, <1>3, <1>6, <2>0
  <2> HIDE DEF m
  <2>2. m \in 1..Len(L)
    BY <2>1 DEF S!Defining
  <2>3. ASSUME NEW j \in (m + 1)..Len(L) PROVE L[j][e.key] = Absent
    <3>1. j \in 1..Len(L) /\ ~(j <= m)
      BY <1>1, <2>2
    <3> QED BY <2>1, <3>1 DEF S!Defining
  <2> QED BY <2>1, <2>2, <2>3 DEF NewestEntry
<1> QED BY <1>4, <1>5, <1>6

\* A key has one newest entry.
LEMMA NewestOnce ==
  ASSUME NEW L \in Seq(S!Content), NEW x \in Held, NEW y \in Held,
         NewestEntry(L, x), NewestEntry(L, y), x.key = y.key
  PROVE  x = y
<1>1. x.value = y.value
  BY NewestIs
<1> QED BY <1>1, HeldIs

-----------------------------------------------------------------------------
\* What a call collects.

Wants(L, c, e) ==
  /\ NewestEntry(L, e) /\ ~Less(e.key, c.lower) /\ ~Beyond(e.key, c.upper)
  /\ ~(c.name = "write" /\ c.first = 1 /\ c.first < c.last /\ e.value = <<>>)

\* Of the entries that c wants, those with the keys D, each once.
Collected(out, L, c, D) ==
  /\ out \in Seq(Held) /\ Up(out)
  /\ \A e \in Held : e \in Range(out) <=> Wants(L, c, e) /\ e.key \in D

\* Entries that c wants, none left out.
Partial(out, L, c) ==
  /\ out \in Seq(Held) /\ Up(out)
  /\ \A e \in Range(out) : Wants(L, c, e)
  /\ \A e \in Held : \A x \in Range(out) : Wants(L, c, e) /\ Less(e.key, x.key) => e \in Range(out)

Below(k) == {j \in Key : Less(j, k)}
UpTo(k) == {j \in Key : ~Less(k, j)}

LEMMA AppendUp ==
  ASSUME NEW s \in Seq(Held), Up(s), NEW e \in Held, \A x \in Range(s) : Less(x.key, e.key)
  PROVE  Append(s, e) \in Seq(Held) /\ Up(Append(s, e)) /\ Range(Append(s, e)) = Range(s) \cup {e}
<1> DEFINE t == Append(s, e)
           n == Len(s)
           k == n + 1
<1>1. t \in Seq(Held) /\ Len(t) = k /\ t[k] = e /\ \A i \in 1..n : t[i] = s[i]
  BY AppendAt
<1>2. n \in Nat /\ k \in 1..k /\ (\A i \in 1..k : i \in 1..n \/ i = k) /\ \A i \in 1..n : i \in 1..k /\ i # k
  OBVIOUS
<1> HIDE DEF t, n, k
<1>3. Range(t) = Range(s) \cup {e}
  <2>1. ASSUME NEW x \in Range(t) PROVE x \in Range(s) \cup {e}
    <3>1. PICK i \in 1..k : t[i] = x
      BY <1>1, RangeIs
    <3> QED BY <3>1, <1>1, <1>2, RangeIs DEF n
  <2>2. ASSUME NEW x \in Range(s) PROVE x \in Range(t)
    <3>1. PICK i \in 1..n : s[i] = x
      BY RangeIs DEF n
    <3>2. i \in 1..Len(t) /\ t[i] = x
      BY <1>1, <1>2, <3>1
    <3> QED BY <1>1, <3>2, RangeIs
  <2>3. e \in Range(t)
    <3>1. k \in 1..Len(t) /\ t[k] = e
      BY <1>1, <1>2
    <3> QED BY <1>1, <3>1, RangeIs
  <2> QED BY <2>1, <2>2, <2>3
<1>4. Up(t)
  <2> SUFFICES ASSUME NEW i \in 1..k, NEW j \in 1..k, i < j PROVE Less(t[i].key, t[j].key)
    BY <1>1 DEF Up
  <2>1. i \in 1..n
    BY <1>2, k = n + 1 DEF k
  <2>2. CASE j = k
    <3>1. t[i] \in Range(s) /\ t[j] = e
      BY <1>1, <2>1, <2>2, RangeIs DEF n
    <3> QED BY <3>1
  <2>3. CASE j \in 1..n
    <3>1. t[i] = s[i] /\ t[j] = s[j]
      BY <1>1, <2>1, <2>3
    <3> QED BY <2>1, <2>3, <3>1 DEF Up, n
  <2> QED BY <1>2, <2>2, <2>3
<1> QED BY <1>1, <1>3, <1>4 DEF t

\* One more entry.
LEMMA CollectMore ==
  ASSUME NEW out, NEW L \in Seq(S!Content), NEW c, NEW e \in Held,
         Collected(out, L, c, Below(e.key)), Wants(L, c, e)
  PROVE  Collected(Append(out, e), L, c, UpTo(e.key))
<1>1. out \in Seq(Held) /\ Up(out) /\ \A x \in Held : x \in Range(out) <=> Wants(L, c, x) /\ x.key \in Below(e.key)
  BY DEF Collected
<1>2. \A x \in Range(out) : Less(x.key, e.key)
  BY <1>1, RangeIs DEF Below
<1>3. Append(out, e) \in Seq(Held) /\ Up(Append(out, e)) /\ Range(Append(out, e)) = Range(out) \cup {e}
  BY <1>1, <1>2, AppendUp
<1>4. ASSUME NEW x \in Held
      PROVE  x \in Range(out) \cup {e} <=> Wants(L, c, x) /\ x.key \in UpTo(e.key)
  <2>1. e.key \in Bytes /\ x.key \in Bytes /\ e.key \in Key /\ x.key \in Key
    BY HeldIs
  <2>2. x.key \in UpTo(e.key) <=> x.key \in Below(e.key) \/ x.key = e.key
    BY <2>1, LessOrder DEF UpTo, Below
  <2>3. Wants(L, c, x) /\ x.key = e.key => x = e
    BY NewestOnce DEF Wants
  <2> QED BY <1>1, <2>2, <2>3
<1> QED BY <1>3, <1>4 DEF Collected

\* An entry is passed over.
LEMMA CollectPast ==
  ASSUME NEW out, NEW L \in Seq(S!Content), NEW c, NEW e \in Held,
         Collected(out, L, c, Below(e.key)), NewestEntry(L, e), ~Wants(L, c, e)
  PROVE  Collected(out, L, c, UpTo(e.key))
<1>1. ASSUME NEW x \in Held, Wants(L, c, x)
      PROVE  x.key \in UpTo(e.key) <=> x.key \in Below(e.key)
  <2>1. e.key \in Bytes /\ x.key \in Bytes /\ e.key \in Key /\ x.key \in Key
    BY HeldIs
  <2>2. x.key \in UpTo(e.key) <=> x.key \in Below(e.key) \/ x.key = e.key
    BY <2>1, LessOrder DEF UpTo, Below
  <2>3. x.key = e.key => x = e
    BY <1>1, NewestOnce DEF Wants
  <2> QED BY <1>1, <2>2, <2>3
<1> QED BY <1>1 DEF Collected

LEMMA CollectSame ==
  ASSUME NEW out, NEW L, NEW c, NEW D, NEW E, Collected(out, L, c, D),
         \A e \in Held : Wants(L, c, e) => (e.key \in D <=> e.key \in E)
  PROVE  Collected(out, L, c, E)
BY DEF Collected

LEMMA CollectNone ==
  ASSUME NEW L, NEW c
  PROVE  Collected(<<>>, L, c, UpTo(<<>>))
<1>1. <<>> \in Seq(Held) /\ Up(<<>>) /\ Range(<<>>) = {}
  BY DEF Up, Range
<1>2. \A e \in Held : e.key \notin UpTo(<<>>)
  BY HeldIs, LessEmpty DEF UpTo
<1> QED BY <1>1, <1>2 DEF Collected

\* What has been collected when a call fails.
LEMMA CollectedIsPartial ==
  ASSUME NEW out, NEW L, NEW c, NEW D, Collected(out, L, c, D),
         \A j, k \in Key : Less(j, k) /\ k \in D => j \in D
  PROVE  Partial(out, L, c)
<1>1. \A x \in Range(out) : x \in Held /\ Wants(L, c, x) /\ x.key \in D /\ x.key \in Key
  BY RangeIs, HeldIs DEF Collected
<1>2. \A e \in Held : e.key \in Key
  BY HeldIs
<1> QED BY <1>1, <1>2 DEF Collected, Partial

-----------------------------------------------------------------------------
\* What a call has still to collect from a segment.

Left(content, c, D) == {e \in DueFrom(content, c.lower, c.upper) : e.key \notin D}

Fits(it, seg, c) ==
  /\ IteratorOK(it, EntriesOf(seg)) /\ it.lower = c.lower /\ it.upper = c.upper
  /\ it.kind = "disk" => seg.kind = "disk"

LEMMA LookupFits ==
  ASSUME NEW seg, NEW content, SegmentOK(seg, content), NEW c, c.lower \in Bytes, c.upper \in Bytes
  PROVE  /\ Fits(Lookup(seg, c.lower, c.upper), seg, c)
         /\ Due(Lookup(seg, c.lower, c.upper)) = Left(content, c, UpTo(<<>>))
<1> DEFINE it == Lookup(seg, c.lower, c.upper)
<1>1. LookedUp(it, seg, content, c.lower, c.upper)
  BY LookupIs
<1>2. it.kind = "disk" => seg.kind = "disk"
  <2>1. seg.kind \in {"memory", "disk"}
    BY SegmentIs
  <2>2. CASE seg.kind = "memory"
    BY <2>2 DEF Lookup, Iterator
  <2> QED BY <2>1, <2>2
<1> HIDE DEF it
<1>3. \A e \in Held : e.key \notin UpTo(<<>>)
  BY HeldIs, LessEmpty DEF UpTo
<1>4. Left(content, c, UpTo(<<>>)) = DueFrom(content, c.lower, c.upper)
  BY <1>3 DEF Left, DueFrom
<1> QED BY <1>1, <1>2, <1>4 DEF LookedUp, Fits, it

LEMMA PeekFits ==
  ASSUME NEW it, NEW seg, NEW c, Fits(it, seg, c)
  PROVE  /\ Fits(Peek(it), seg, c) /\ Peek(Peek(it)) = Peek(it)
         /\ Peek(it).entry # NoEntry => Peek(it).entry \in Held
         /\ Peek(it).entry \in Held \cup {NoEntry}
         /\ ~Beyond(c.lower, c.upper) => PeekedRight(it, Peek(it))
<1> DEFINE p == Peek(it)
<1>1. IteratorOK(it, EntriesOf(seg)) /\ it.lower = c.lower /\ it.upper = c.upper
      /\ (it.kind = "disk" => seg.kind = "disk")
  BY DEF Fits
<1>2. PeekedIs(it, p, EntriesOf(seg))
  BY <1>1, PeekIs
<1> HIDE DEF p
<1>3. Fits(p, seg, c) /\ Peek(p) = p
  BY <1>1, <1>2 DEF PeekedIs, Fits
<1>4. p.entry # NoEntry => p.entry \in Held
  BY <1>2 DEF PeekedIs
<1>5. ~Beyond(c.lower, c.upper) => PeekedRight(it, p)
  BY <1>1, <1>2 DEF PeekedIs
<1> QED BY <1>3, <1>4, <1>5 DEF p

LEMMA NextFits ==
  ASSUME NEW p, NEW seg, NEW c, Fits(p, seg, c), Peek(p) = p, p.entry # NoEntry
  PROVE  /\ Fits(NextOf(p), seg, c) /\ NextOf(p).entry = p.entry
         /\ ~Beyond(c.lower, c.upper) => Due(NextOf(p)) = Due(p) \ {p.entry}
<1> DEFINE q == NextOf(p)
<1>1. IteratorOK(p, EntriesOf(seg)) /\ p.lower = c.lower /\ p.upper = c.upper
      /\ (p.kind = "disk" => seg.kind = "disk")
  BY DEF Fits
<1>2. /\ IteratorOK(q, EntriesOf(seg)) /\ q.entry = p.entry /\ q.lower = p.lower /\ q.upper = p.upper
      /\ ~Beyond(p.lower, p.upper) => Due(q) = Due(p) \ {p.entry}
  BY <1>1, NextOfIs
<1>3. q.kind = p.kind
  <2>1. p.kind \in {"memory", "disk"} /\ p = [p EXCEPT !.kind = p.kind]
    BY <1>1 DEF IteratorOK, Iterators
  <2>2. CASE p.kind = "memory"
    <3>1. MemoryPeek(p) = p
      BY <2>2 DEF Peek
    <3>2. q = [p EXCEPT !.rest = Tail(@)]
      BY <2>2, <3>1 DEF NextOf, MemoryNext
    <3> QED BY <3>2, <1>1 DEF IteratorOK, Iterators
  <2>3. CASE p.kind = "disk"
    <3>1. DiskPeek(p) = p
      BY <2>3 DEF Peek
    <3>2. q = [p EXCEPT !.valid = FALSE]
      BY <2>3, <3>1 DEF NextOf, DiskNext
    <3> QED BY <3>2, <1>1 DEF IteratorOK, Iterators
  <2> QED BY <2>1, <2>2, <2>3
<1> HIDE DEF q
<1> QED BY <1>1, <1>2, <1>3 DEF Fits, q

\* An iterator that has yet to step past an entry with the key of e, or has no such entry.
LEMMA StepPast ==
  ASSUME NEW it, NEW seg, NEW content, NEW c, NEW e \in Held, Fits(it, seg, c), SegmentOK(seg, content),
         ~Beyond(c.lower, c.upper),
         Due(it) = Left(content, c, UpTo(e.key)) \/ Due(it) = Left(content, c, Below(e.key))
  PROVE  LET p == Peek(it)
             behind == p.entry.key # <<>> /\ ~Less(e.key, p.entry.key)
         IN  Due(IF behind THEN NextOf(p) ELSE p) = Left(content, c, UpTo(e.key))
<1> DEFINE p == Peek(it)
           M == Left(content, c, UpTo(e.key))
           T == Left(content, c, Below(e.key))
<1>1. /\ Fits(p, seg, c) /\ Peek(p) = p /\ (p.entry # NoEntry => p.entry \in Held)
      /\ PeekedRight(it, p)
  BY PeekFits
<1>2. /\ p.entry.key # <<>> <=> p.entry # NoEntry
  BY <1>1, HeldIs DEF NoEntry
<1>3. Due(p) = Due(it) /\ Due(it) \in {M, T}
  BY <1>1 DEF PeekedRight
<1>4. e.key \in Bytes /\ e.key \in Key /\ \A x \in Held : x.key \in Bytes /\ x.key \in Key
  BY HeldIs
<1>5. /\ M = {x \in DueFrom(content, c.lower, c.upper) : Less(e.key, x.key)}
      /\ T = {x \in DueFrom(content, c.lower, c.upper) : ~Less(x.key, e.key)}
      /\ DueFrom(content, c.lower, c.upper) \in SUBSET Held
  BY <1>4 DEF Left, UpTo, Below, DueFrom
<1>6. \A x, y \in DueFrom(content, c.lower, c.upper) : x.key = y.key => x = y
  BY HeldIs DEF DueFrom
<1>7. CASE p.entry # NoEntry /\ ~Less(e.key, p.entry.key)
  <2>1. p.entry \in Due(it) /\ p.entry \in Held
    BY <1>1, <1>7 DEF PeekedRight
  <2>2. Due(it) = T /\ p.entry.key = e.key
    BY <1>3, <1>4, <1>5, <1>7, <2>1, LessOrder
  <2>3. Due(NextOf(p)) = T \ {p.entry}
    BY <1>1, <1>3, <1>7, <2>2, NextFits
  <2>4. T \ {p.entry} = M
    <3> HIDE DEF p
    <3>1. \A x \in DueFrom(content, c.lower, c.upper) :
            /\ Less(e.key, x.key) => ~Less(x.key, e.key) /\ x # p.entry
            /\ ~Less(x.key, e.key) => Less(e.key, x.key) \/ x.key = e.key
      BY <1>4, <1>5, <2>2, LessOrder
    <3>2. p.entry \in DueFrom(content, c.lower, c.upper)
      BY <1>5, <2>1, <2>2
    <3> QED BY <1>5, <1>6, <2>2, <3>1, <3>2
  <2> QED BY <1>2, <1>7, <2>3, <2>4
<1>8. CASE ~(p.entry # NoEntry /\ ~Less(e.key, p.entry.key))
  <2>1. ASSUME NEW x \in Due(it) PROVE Less(e.key, x.key)
    <3> HIDE DEF M, T
    <3>1. p.entry # NoEntry /\ Less(e.key, p.entry.key) /\ p.entry \in Held
      BY <1>1, <1>8, <2>1 DEF PeekedRight
    <3>2. x = p.entry \/ Less(p.entry.key, x.key)
      BY <1>1, <2>1, <3>1 DEF PeekedRight
    <3>3. x \in Held
      BY <1>3, <1>5, <2>1
    <3> QED BY <1>4, <3>1, <3>2, <3>3, LessOrder
  <2>2. \A x \in DueFrom(content, c.lower, c.upper) : Less(e.key, x.key) => ~Less(x.key, e.key)
    BY <1>4, <1>5, LessOrder
  <2>3. Due(it) = M
    BY <1>3, <1>5, <2>1, <2>2
  <2> QED BY <1>2, <1>3, <1>8, <2>3
<1> QED BY <1>7, <1>8

-----------------------------------------------------------------------------
\* The lowest key that iterators stand on, and what it is.

HeldBy(p) == {i \in DOMAIN p : p[i].entry.key # <<>>}
LowestBy(p) == {i \in HeldBy(p) : \A j \in HeldBy(p) : ~Less(p[j].entry.key, p[i].entry.key)}

LEMMA LowestIs ==
  ASSUME NEW n \in Nat, NEW p, DOMAIN p = 1..n, \A i \in 1..n : p[i].entry \in Held \cup {NoEntry}
  PROVE  /\ HeldBy(p) = {i \in 1..n : p[i].entry \in Held}
         /\ HeldBy(p) # {} =>
              LET m == Preferred(LowestBy(p))
              IN  /\ m \in 1..n /\ p[m].entry \in Held
                  /\ \A j \in HeldBy(p) : ~Less(p[j].entry.key, p[m].entry.key)
                  /\ \A j \in HeldBy(p) : j > m => p[j].entry.key # p[m].entry.key
<1> DEFINE key(i) == p[i].entry.key
           rank(i) == Cardinality(Under(Key, key(i)))
           M == {rank(i) : i \in HeldBy(p)}
           m == Preferred(LowestBy(p))
<1>1. HeldBy(p) = {i \in 1..n : p[i].entry \in Held}
  BY HeldIs DEF HeldBy, NoEntry
<1>2. \A i \in HeldBy(p) : i \in 1..n /\ p[i].entry \in Held /\ key(i) \in Key /\ key(i) \in Bytes
  BY <1>1, HeldIs
<1>3. ASSUME HeldBy(p) # {} PROVE LowestBy(p) # {}
  <2>1. \A i \in HeldBy(p) : rank(i) \in Nat
    <3> SUFFICES ASSUME NEW i \in HeldBy(p) PROVE rank(i) \in Nat
      OBVIOUS
    <3>1. Under(Key, key(i)) \in SUBSET Key
      BY DEF Under
    <3> QED BY <3>1, KeysAreBytes, FS_Subset, FS_CardinalityType
  <2>2. M \in SUBSET Nat /\ M # {}
    BY <1>3, <2>1
  <2>3. PICK r \in M : \A q \in M : r <= q
    <3> HIDE DEF M
    <3> QED BY <2>2, Least
  <2>4. PICK i \in HeldBy(p) : r = rank(i)
    BY <2>3
  <2>5. ASSUME NEW j \in HeldBy(p), Less(key(j), key(i)) PROVE FALSE
    <3>1. rank(j) < rank(i)
      BY <1>2, <2>5, UnderProperties, KeysAreBytes
    <3>2. rank(i) <= rank(j)
      BY <2>3, <2>4
    <3> HIDE DEF rank
    <3> QED BY <3>1, <3>2, <2>1
  <2> QED BY <2>5 DEF LowestBy
<1>4. ASSUME HeldBy(p) # {} PROVE m \in LowestBy(p) /\ \A i \in LowestBy(p) : i <= m
  <2>1. LowestBy(p) \in SUBSET (0..n) /\ LowestBy(p) # {}
    <3>1. LowestBy(p) \subseteq HeldBy(p)
      BY DEF LowestBy
    <3>2. HeldBy(p) \subseteq 0..n
      <4>1. 1..n \subseteq 0..n
        OBVIOUS
      <4> QED BY ONLY <1>2, <4>1
    <3>3. LowestBy(p) # {}
      BY <1>3, <1>4
    <3> QED BY ONLY <3>1, <3>2, <3>3
  <2> QED BY <2>1, Greatest DEF Preferred
<1> HIDE DEF m
<1>5. ASSUME HeldBy(p) # {}
      PROVE  /\ m \in 1..n /\ p[m].entry \in Held
             /\ \A j \in HeldBy(p) : ~Less(key(j), key(m))
             /\ \A j \in HeldBy(p) : j > m => key(j) # key(m)
  <2>1. m \in HeldBy(p) /\ \A j \in HeldBy(p) : ~Less(key(j), key(m))
    BY <1>4, <1>5 DEF LowestBy
  <2>2. ASSUME NEW j \in HeldBy(p), j > m, key(j) = key(m) PROVE FALSE
    <3>1. j \in LowestBy(p)
      BY <2>1, <2>2 DEF LowestBy
    <3>2. j <= m
      BY <1>4, <1>5, <3>1
    <3> QED BY <1>2, <2>1, <2>2, <3>2
  <2> QED BY <1>2, <2>1, <2>2
<1> QED BY <1>1, <1>5 DEF m

\* Iterators that are each due everything above k.
Standing(its, p, L, c, k) ==
  /\ DOMAIN p = 1..Len(L) /\ \A i \in 1..Len(L) : p[i].entry \in Held \cup {NoEntry}
  /\ \A i \in 1..Len(L) : PeekedRight(its[i], p[i]) /\ Due(its[i]) = Left(L[i], c, UpTo(k))

\* Nothing is left.
LEMMA NoneLeft ==
  ASSUME NEW L \in Seq(S!Content), NEW c, NEW k, NEW its, NEW p, Standing(its, p, L, c, k),
         HeldBy(p) = {}, NEW e \in Held, Wants(L, c, e)
  PROVE  e.key \in UpTo(k)
<1>1. PICK i \in 1..Len(L) : L[i][e.key] = e.value
  BY DEF Wants, NewestEntry
<1>2. e \in DueFrom(L[i], c.lower, c.upper)
  BY <1>1 DEF Wants, DueFrom
<1>3. p[i].entry = NoEntry
  BY HeldIs DEF Standing, HeldBy
<1>4. Due(its[i]) = {} /\ Due(its[i]) = Left(L[i], c, UpTo(k))
  BY <1>3 DEF Standing, PeekedRight
<1> QED BY <1>2, <1>4 DEF Left

\* The entry that is taken is the newest of its key, and there is nothing between it and
\* what has been collected.
TakenIs(its, L, c, k, e) ==
  /\ NewestEntry(L, e) /\ ~Less(e.key, c.lower) /\ ~Beyond(e.key, c.upper)
  /\ \A x \in Held : Wants(L, c, x) => (x.key \in UpTo(k) <=> x.key \in Below(e.key))
  /\ \A i \in 1..Len(L) : Due(its[i]) = Left(L[i], c, Below(e.key))

LEMMA LowestTaken ==
  ASSUME NEW L \in Seq(S!Content), NEW c, NEW k \in Bytes, NEW its, NEW p, Standing(its, p, L, c, k),
         HeldBy(p) # {}
  PROVE  TakenIs(its, L, c, k, p[Preferred(LowestBy(p))].entry)
<1> DEFINE m == Preferred(LowestBy(p))
           e == p[m].entry
           n == Len(L)
<1>1. /\ n \in Nat /\ DOMAIN p = 1..n /\ \A i \in 1..n : p[i].entry \in Held \cup {NoEntry}
      /\ \A i \in 1..n : PeekedRight(its[i], p[i]) /\ Due(its[i]) = Left(L[i], c, UpTo(k))
  BY DEF Standing
<1>2. /\ HeldBy(p) = {i \in 1..n : p[i].entry \in Held}
      /\ m \in 1..n /\ e \in Held
      /\ \A j \in HeldBy(p) : ~Less(p[j].entry.key, e.key)
      /\ \A j \in HeldBy(p) : j > m => p[j].entry.key # e.key
  BY <1>1, LowestIs
<1> HIDE DEF m, n
<1>3. e.key \in Bytes /\ e.key \in Key /\ e \in Due(its[m])
  BY <1>1, <1>2, HeldIs DEF PeekedRight
<1> HIDE DEF e
<1>4. e \in DueFrom(L[m], c.lower, c.upper) /\ e.key \notin UpTo(k)
  BY <1>1, <1>2, <1>3 DEF Left
<1>5. L[m][e.key] = e.value /\ ~Less(e.key, c.lower) /\ ~Beyond(e.key, c.upper) /\ Less(k, e.key)
  BY <1>3, <1>4 DEF DueFrom, UpTo
<1>6. ASSUME NEW i \in 1..n, NEW x \in DueFrom(L[i], c.lower, c.upper), x.key \notin UpTo(k)
      PROVE  /\ i \in HeldBy(p) /\ ~Less(x.key, e.key)
             /\ x.key = e.key => p[i].entry.key = e.key
  <2>1. x \in Due(its[i]) /\ x \in Held
    BY <1>1, <1>6 DEF Left, DueFrom
  <2>2. p[i].entry # NoEntry /\ (x = p[i].entry \/ Less(p[i].entry.key, x.key))
    BY <1>1, <2>1 DEF PeekedRight
  <2>3. i \in HeldBy(p) /\ p[i].entry \in Held
    BY <1>1, <1>2, <2>2
  <2>4. p[i].entry.key \in Bytes /\ x.key \in Bytes /\ ~Less(p[i].entry.key, e.key)
    BY <1>2, <2>1, <2>3, HeldIs
  <2> QED BY <1>3, <2>2, <2>3, <2>4, LessOrder
<1>7. ASSUME NEW x \in Held, ~Less(x.key, c.lower), ~Beyond(x.key, c.upper),
             NEW i \in 1..n, L[i][x.key] = x.value
      PROVE  /\ x \in DueFrom(L[i], c.lower, c.upper)
             /\ x.key \in UpTo(k) <=> x.key \in Below(e.key)
  <2>1. x \in DueFrom(L[i], c.lower, c.upper) /\ x.key \in Bytes /\ x.key \in Key
    BY <1>7, HeldIs DEF DueFrom
  <2>2. x.key \notin UpTo(k) => ~Less(x.key, e.key)
    BY <1>6, <2>1
  <2>3. ~Less(k, x.key) => Less(x.key, e.key)
    BY <1>3, <1>5, <2>1, LessOrder
  <2> QED BY <2>1, <2>2, <2>3 DEF UpTo, Below
<1>8. NewestEntry(L, e)
  <2>1. ASSUME NEW j \in (m + 1)..n PROVE L[j][e.key] = Absent
    <3>1. j \in 1..n /\ j > m
      BY <1>1, <1>2
    <3>2. SUFFICES ASSUME L[j][e.key] # Absent PROVE FALSE
      OBVIOUS
    <3> DEFINE x == [key |-> e.key, value |-> L[j][e.key]]
    <3>3. x \in Held
      BY <1>3, <3>1, <3>2, ContentIs DEF n
    <3>4. x.key = e.key /\ x.value = L[j][e.key]
      OBVIOUS
    <3> HIDE DEF x
    <3>5. x \in DueFrom(L[j], c.lower, c.upper) /\ x.key \notin UpTo(k)
      BY <1>4, <1>5, <3>3, <3>4 DEF DueFrom
    <3>6. j \in HeldBy(p) /\ p[j].entry.key = e.key
      BY <1>6, <3>1, <3>4, <3>5
    <3> QED BY <1>2, <3>1, <3>6
  <2> QED BY <1>2, <1>5, <2>1 DEF NewestEntry, n
<1>9. ASSUME NEW x \in Held, Wants(L, c, x) PROVE x.key \in UpTo(k) <=> x.key \in Below(e.key)
  <2>1. PICK i \in 1..n : L[i][x.key] = x.value
    BY <1>9 DEF Wants, NewestEntry, n
  <2> QED BY <1>7, <1>9, <2>1 DEF Wants
<1>10. ASSUME NEW i \in 1..n PROVE Due(its[i]) = Left(L[i], c, Below(e.key))
  <2>1. \A x \in DueFrom(L[i], c.lower, c.upper) : x.key \in UpTo(k) <=> x.key \in Below(e.key)
    BY <1>7 DEF DueFrom
  <2>2. Left(L[i], c, UpTo(k)) = Left(L[i], c, Below(e.key))
    BY <2>1 DEF Left
  <2> QED BY <1>1, <2>2
<1>11. TakenIs(its, L, c, k, e)
  BY <1>5, <1>8, <1>9, <1>10 DEF TakenIs, n
<1> QED BY <1>11 DEF e, m

-----------------------------------------------------------------------------
\* The inductive invariant.

Slice == SubSeq(layers, call.first, call.last)
Running == pc \in {"next", "skip", "handOver"}
Sane == ~Beyond(call.lower, call.upper)
Iterates == call.name = "lookup" \/ (call.name = "write" /\ pc # "idle")

\* An entry has been taken and not yet handed over.
Taken == pc = "skip" \/ (pc = "handOver" /\ kv # NoEntry)

\* The keys the call is done with.
DoneKeys == IF pc = "next" THEN UpTo(kv.key) ELSE IF Taken THEN Below(kv.key) ELSE Key

\* The segments hold what they should.
StackOK ==
  /\ segments \in Seq(Segment) /\ layers \in Seq(S!Content) /\ Len(segments) = Len(layers)
  /\ \A i \in 1..Len(layers) : SegmentOK(segments[i], layers[i])

CallOK ==
  /\ pc \in {"idle", "next", "skip", "handOver", "dead"}
  /\ call.name \in {"none", "get", "lookup", "write"} /\ call.lower \in Bytes /\ call.upper \in Bytes
  /\ call.name = "none" => pc = "idle"
  /\ call.name = "get" => pc \in {"idle", "dead"}
  /\ call.name = "lookup" => call.first = 1 /\ call.last = Len(segments)
  /\ call.name = "write" /\ pc # "idle" =>
       /\ call.first \in 1..Len(segments) /\ call.last \in call.first..Len(segments)
       /\ call.lower = <<>> /\ call.upper = <<>>

IteratorsOK ==
  Running => /\ DOMAIN iterators = 1..Len(Slice)
             /\ \A i \in 1..Len(Slice) : Fits(iterators[i], segments[call.first + i - 1], call)

TakenOK ==
  /\ kv \in Held \cup {NoEntry} /\ (pc = "idle" => kv = NoEntry)
  /\ pc = "skip" => kv # NoEntry /\ current \in 1..Len(Slice)

\* What the iterators have still to return goes with what has been taken from them.
DueOK ==
  Sane =>
    /\ pc = "next" \/ (pc = "handOver" /\ kv # NoEntry) =>
         \A i \in 1..Len(Slice) : Due(iterators[i]) = Left(Slice[i], call, UpTo(kv.key))
    /\ pc = "skip" =>
         \A i \in 1..Len(Slice) :
           \/ Due(iterators[i]) = Left(Slice[i], call, UpTo(kv.key))
           \/ i # current /\ Due(iterators[i]) = Left(Slice[i], call, Below(kv.key))
    /\ Taken => NewestEntry(Slice, kv) /\ ~Less(kv.key, call.lower) /\ ~Beyond(kv.key, call.upper)

\* And so does what has been collected.
CollectedOK ==
  /\ call.name = "write" /\ Running => FileOK(file)
  /\ Sane =>
       /\ call.name = "lookup" /\ pc # "dead" => Collected(handed, Slice, call, DoneKeys)
       /\ call.name = "lookup" /\ pc = "dead" => Partial(handed, Slice, call)
       /\ call.name = "write" /\ Running => Collected(Contents(file), Slice, call, DoneKeys)

IInv ==
  /\ StackOK /\ CallOK /\ IteratorsOK /\ TakenOK /\ DueOK /\ CollectedOK
  /\ GetsAnswer /\ FailsOnlyOnLongKeysAndEmptyFiles

-----------------------------------------------------------------------------
LEMMA SliceOf ==
  ASSUME NEW lays \in Seq(S!Content), NEW f \in Nat, NEW l \in Nat, 1 <= f, f <= l + 1, l <= Len(lays)
  PROVE  /\ SubSeq(lays, f, l) \in Seq(S!Content) /\ Len(SubSeq(lays, f, l)) \in Nat
         /\ Len(SubSeq(lays, f, l)) = l - f + 1
         /\ \A i \in 1..Len(SubSeq(lays, f, l)) :
              /\ f + i - 1 \in 1..Len(lays)
              /\ SubSeq(lays, f, l)[i] \in S!Content /\ SubSeq(lays, f, l)[i] = lays[f + i - 1]
<1> DEFINE m == Len(lays)
           sl == SubSeq(lays, f, l)
<1>1. m \in Nat
  OBVIOUS
<1>2. /\ sl \in Seq(S!Content) /\ Len(sl) = l - f + 1
      /\ \A i \in 1..(l - f + 1) : sl[i] = lays[f + i - 1]
  BY SliceIs
<1>3. \A i \in 1..Len(sl) : sl[i] \in S!Content
  BY <1>2
<1> HIDE DEF m, sl
<1>4. \A i \in 1..(l - f + 1) : f + i - 1 \in 1..m
  BY <1>1 DEF m
<1>5. l - f + 1 \in Nat
  OBVIOUS
<1> QED BY <1>2, <1>3, <1>4, <1>5 DEF m, sl

LEMMA SliceFacts ==
  ASSUME StackOK, CallOK, Iterates
  PROVE  /\ Slice \in Seq(S!Content) /\ Len(Slice) \in Nat
         /\ call.first \in Nat /\ call.last \in Nat /\ Len(Slice) = call.last - call.first + 1
         /\ \A i \in 1..Len(Slice) :
              /\ Slice[i] \in S!Content /\ Slice[i] = layers[call.first + i - 1]
              /\ call.first + i - 1 \in 1..Len(segments)
              /\ SegmentOK(segments[call.first + i - 1], Slice[i])
<1>1. /\ layers \in Seq(S!Content) /\ Len(segments) = Len(layers) /\ Len(layers) \in Nat
      /\ \A i \in 1..Len(layers) : SegmentOK(segments[i], layers[i])
  BY DEF StackOK
<1> DEFINE f == call.first
           l == call.last
<1>2. f \in Nat /\ l \in Nat /\ 1 <= f /\ f <= l + 1 /\ l <= Len(layers)
  <2>1. CASE call.name = "lookup"
    BY <1>1, <2>1 DEF CallOK
  <2>2. CASE call.name = "write" /\ pc # "idle"
    BY <1>1, <2>2 DEF CallOK
  <2> QED BY <2>1, <2>2 DEF Iterates
<1> HIDE DEF f, l
<1> DEFINE sl == SubSeq(layers, f, l)
<1>3. /\ sl \in Seq(S!Content) /\ Len(sl) \in Nat /\ Len(sl) = l - f + 1
      /\ \A i \in 1..Len(sl) :
           f + i - 1 \in 1..Len(layers) /\ sl[i] \in S!Content /\ sl[i] = layers[f + i - 1]
  BY <1>1, <1>2, SliceOf
<1>4. sl = Slice
  BY DEF Slice, f, l
<1> HIDE DEF sl
<1> QED BY <1>1, <1>2, <1>3, <1>4 DEF f, l

LEMMA InitHolds ==
  ASSUME Init
  PROVE  IInv
<1>1. layers \in Seq(S!Content)
  BY SegmentFilesAssumption DEF Init
<1>2. Len(layers) \in Nat /\ \A i \in 1..Len(layers) : layers[i] \in S!Content
  BY <1>1
<1>3. \A i \in 1..Len(layers) : SegmentOK(Memory(layers[i]), layers[i])
  BY <1>2, MemoryOK
<1>4. segments \in [1..Len(layers) -> Segment]
  BY <1>2, <1>3 DEF Init, SegmentOK
<1>5. segments \in Seq(Segment) /\ Len(segments) = Len(layers)
  BY <1>2, <1>4
<1>6. StackOK
  BY <1>1, <1>3, <1>5 DEF StackOK, Init
<1>7. pc = "idle" /\ call.name = "none" /\ call.lower = <<>> /\ call.upper = <<>> /\ kv = NoEntry
  BY DEF Init, NoCall
<1>8. CallOK
  BY <1>7, LessEmpty, KeysAreBytes DEF CallOK
<1>9. IteratorsOK /\ TakenOK /\ DueOK /\ CollectedOK
  BY <1>7 DEF IteratorsOK, TakenOK, DueOK, CollectedOK, Running, Taken
<1>10. GetsAnswer /\ FailsOnlyOnLongKeysAndEmptyFiles
  BY <1>7 DEF GetsAnswer, FailsOnlyOnLongKeysAndEmptyFiles
<1> QED BY <1>6, <1>8, <1>9, <1>10 DEF IInv

LEMMA BeginHolds ==
  ASSUME IInv, NEW name, NEW first, NEW last, NEW lower \in Bytes, NEW upper \in Bytes,
         Begin(name, first, last, lower, upper),
         \/ name = "lookup" /\ first = 1 /\ last = Len(segments)
         \/ /\ name = "write" /\ first \in 1..Len(segments) /\ last \in first..Len(segments)
            /\ lower = <<>> /\ upper = <<>>
  PROVE  IInv'
<1>1. /\ pc = "idle" /\ pc' = "next" /\ UNCHANGED <<segments, layers, current, kv>>
      /\ call' = [name |-> name, first |-> first, last |-> last, lower |-> lower, upper |-> upper]
      /\ iterators' = [i \in 1..(last - first + 1) |-> Lookup(segments[first + i - 1], lower, upper)]
      /\ handed' = <<>> /\ file' = NewFile
  BY DEF Begin
<1>2. /\ call'.name = name /\ call'.first = first /\ call'.last = last /\ call'.lower = lower
      /\ call'.upper = upper
  BY <1>1
<1>3. StackOK'
  BY <1>1 DEF IInv, StackOK
<1>4. CallOK'
  BY <1>1, <1>2 DEF CallOK
<1>5. Iterates'
  BY <1>1, <1>2 DEF Iterates
<1>6. kv' = NoEntry /\ kv'.key = <<>>
  BY <1>1 DEF IInv, TakenOK, NoEntry
<1> DEFINE s == Slice'
           c == call'
<1>7. /\ s \in Seq(S!Content) /\ Len(s) \in Nat /\ Len(s) = last - first + 1
      /\ \A i \in 1..Len(s) : SegmentOK(segments[first + i - 1], s[i])
  <2> DEFINE n == Len(layers)
             sl == SubSeq(layers, first, last)
  <2>1. /\ layers \in Seq(S!Content) /\ Len(segments) = n /\ n \in Nat
        /\ \A i \in 1..n : SegmentOK(segments[i], layers[i])
    BY DEF IInv, StackOK
  <2>2. first \in Nat /\ last \in Nat /\ 1 <= first /\ first <= last + 1 /\ last <= n
    <3> HIDE DEF n
    <3> QED BY <2>1
  <2>3. /\ sl \in Seq(S!Content) /\ Len(sl) \in Nat /\ Len(sl) = last - first + 1
        /\ \A i \in 1..Len(sl) :
             first + i - 1 \in 1..n /\ sl[i] \in S!Content /\ sl[i] = layers[first + i - 1]
    BY <2>1, <2>2, SliceOf
  <2>4. s = sl
    BY <1>1, <1>2 DEF Slice
  <2> HIDE DEF sl, s, n
  <2> QED BY <2>1, <2>3, <2>4
<1>8. \A i \in 1..Len(s) : iterators'[i] = Lookup(segments[first + i - 1], lower, upper)
  BY <1>1, <1>7
<1> HIDE DEF s, c
<1>9. ASSUME NEW i \in 1..Len(s)
      PROVE  /\ Fits(iterators'[i], segments[first + i - 1], c)
             /\ Due(iterators'[i]) = Left(s[i], c, UpTo(<<>>))
  <2>1. c.lower = lower /\ c.upper = upper
    BY <1>2 DEF c
  <2>2. SegmentOK(segments[first + i - 1], s[i])
    BY <1>7
  <2>3. iterators'[i] = Lookup(segments[first + i - 1], c.lower, c.upper)
    BY <1>8, <2>1
  <2>4. c.lower \in Bytes /\ c.upper \in Bytes
    BY <2>1
  <2> QED BY <2>2, <2>3, <2>4, LookupFits
<1>10. IteratorsOK'
  BY <1>1, <1>2, <1>7, <1>9 DEF IteratorsOK, s, c
<1>11. TakenOK'
  BY <1>1, <1>6 DEF TakenOK
<1>12. DueOK'
  BY <1>1, <1>6, <1>9 DEF DueOK, Taken, s, c
<1>13. CollectedOK'
  <2>1. Collected(<<>>, s, c, UpTo(<<>>))
    BY CollectNone
  <2>2. DoneKeys' = UpTo(<<>>)
    BY <1>1, <1>6 DEF DoneKeys
  <2>3. FileOK(file') /\ Contents(file') = <<>>
    BY <1>1, NewFileOK
  <2> QED BY <1>1, <2>1, <2>2, <2>3 DEF CollectedOK, s, c
<1>14. GetsAnswer' /\ FailsOnlyOnLongKeysAndEmptyFiles'
  BY <1>1 DEF GetsAnswer, FailsOnlyOnLongKeysAndEmptyFiles
<1> QED BY <1>3, <1>4, <1>10, <1>11, <1>12, <1>13, <1>14 DEF IInv

\* A step of the iteration: what is true of every one.
Iterating(n) ==
  /\ n = Len(Slice) /\ n \in Nat /\ Iterates /\ Slice \in Seq(S!Content)
  /\ call.name \in {"lookup", "write"} /\ call.lower \in Bytes /\ call.upper \in Bytes
  /\ DOMAIN iterators = 1..n
  /\ \A i \in 1..n :
       /\ Fits(iterators[i], segments[call.first + i - 1], call)
       /\ SegmentOK(segments[call.first + i - 1], Slice[i])
       /\ call.first + i - 1 \in 1..Len(segments)

LEMMA RunningFacts ==
  ASSUME IInv, Running
  PROVE  Iterating(Len(Slice))
<1>1. Iterates /\ call.name \in {"lookup", "write"}
  BY DEF IInv, CallOK, Running, Iterates
<1>2. /\ Slice \in Seq(S!Content) /\ Len(Slice) \in Nat
      /\ \A i \in 1..Len(Slice) :
           /\ call.first + i - 1 \in 1..Len(segments)
           /\ SegmentOK(segments[call.first + i - 1], Slice[i])
  BY <1>1, SliceFacts DEF IInv
<1>3. /\ DOMAIN iterators = 1..Len(Slice)
      /\ \A i \in 1..Len(Slice) : Fits(iterators[i], segments[call.first + i - 1], call)
  BY DEF IInv, IteratorsOK
<1>4. call.lower \in Bytes /\ call.upper \in Bytes
  BY DEF IInv, CallOK
<1> QED BY <1>1, <1>2, <1>3, <1>4 DEF Iterating

\* What is collected with the keys D is collected with the keys E.
CollectedWith(D) ==
  /\ call.name = "lookup" => Collected(handed, Slice, call, D)
  /\ call.name = "write" => Collected(Contents(file), Slice, call, D)

LEMMA TakeHolds ==
  ASSUME IInv, TakeLowest
  PROVE  IInv'
<1> DEFINE n == Len(Slice)
           L == Slice
           p == PeekAll
           m == Preferred(LowestBy(p))
           e == p[m].entry
           k == kv.key
<1>1. pc = "next" /\ UNCHANGED <<segments, layers, call, handed, file, answer>>
  BY DEF TakeLowest
<1>2. Iterating(n)
  BY <1>1, RunningFacts DEF Running
<1>3. UNCHANGED Slice
  BY <1>1 DEF Slice
<1>4. /\ HeldBy(p) = {} => iterators' = p /\ current' = 0 /\ kv' = NoEntry /\ pc' = "handOver"
      /\ HeldBy(p) # {} =>
           /\ iterators' = [p EXCEPT ![m] = NextOf(p[m])] /\ current' = m
           /\ kv' = NextOf(p[m]).entry /\ pc' = "skip"
  BY DEF TakeLowest, HeldBy, LowestBy
<1>5. DOMAIN p = 1..n /\ \A i \in 1..n : p[i] = Peek(iterators[i])
  BY <1>2 DEF PeekAll, Iterating
<1> HIDE DEF p, n
<1>6. ASSUME NEW i \in 1..n
      PROVE  /\ Fits(p[i], segments[call.first + i - 1], call) /\ Peek(p[i]) = p[i]
             /\ p[i].entry \in Held \cup {NoEntry}
             /\ Sane => PeekedRight(iterators[i], p[i])
  <2>1. Fits(iterators[i], segments[call.first + i - 1], call)
    BY <1>2 DEF Iterating
  <2> QED BY <1>5, <2>1, PeekFits DEF Sane
<1>7. k \in Bytes /\ L \in Seq(S!Content) /\ n \in Nat /\ n = Len(L)
  <2>1. kv.key \in Bytes
    BY HeldIs, LessEmpty, KeysAreBytes DEF IInv, TakenOK, NoEntry
  <2> QED BY <1>2, <2>1 DEF Iterating
<1> HIDE DEF L, k
<1>8. ASSUME Sane PROVE Standing(iterators, p, L, call, k)
  <2>1. \A i \in 1..n : Due(iterators[i]) = Left(L[i], call, UpTo(k))
    BY <1>1, <1>8 DEF IInv, DueOK, L, k, n
  <2> QED BY <1>5, <1>6, <1>7, <1>8, <2>1 DEF Standing
<1>9. Sane => CollectedWith(UpTo(k))
  BY <1>1 DEF IInv, CollectedOK, CollectedWith, DoneKeys, Running, k
<1>10. Running /\ (call.name = "write" => FileOK(file))
  BY <1>1 DEF IInv, CollectedOK, Running
<1>11. StackOK'
  BY <1>1 DEF IInv, StackOK
<1>12. CallOK'
  <2>1. pc' \in {"skip", "handOver"}
    BY <1>4
  <2> QED BY <1>1, <2>1 DEF IInv, CallOK
<1>13. GetsAnswer' /\ FailsOnlyOnLongKeysAndEmptyFiles'
  <2>1. pc' \in {"skip", "handOver"}
    BY <1>4
  <2> QED BY <2>1 DEF GetsAnswer, FailsOnlyOnLongKeysAndEmptyFiles
<1>14. CASE HeldBy(p) = {}
  <2>1. iterators' = p /\ kv' = NoEntry /\ pc' = "handOver"
    BY <1>4, <1>14
  <2>2. IteratorsOK'
    BY <1>1, <1>3, <1>5, <1>6, <2>1 DEF IteratorsOK, n
  <2>3. TakenOK'
    BY <2>1 DEF TakenOK
  <2>4. DueOK'
    BY <2>1 DEF DueOK, Taken
  <2>5. DoneKeys' = Key
    BY <2>1 DEF DoneKeys, Taken
  <2>6. ASSUME Sane, NEW out, Collected(out, L, call, UpTo(k)) PROVE Collected(out, L, call, Key)
    <3>1. \A x \in Held : Wants(L, call, x) => (x.key \in UpTo(k) <=> x.key \in Key)
      BY <1>7, <1>8, <1>14, <2>6, NoneLeft, HeldIs
    <3> QED BY <2>6, <3>1, CollectSame
  <2>7. Sane => CollectedWith(Key)
    BY <1>9, <2>6 DEF CollectedWith, L
  <2>8. CollectedOK'
    BY <1>1, <1>3, <1>10, <2>1, <2>5, <2>7 DEF CollectedOK, CollectedWith, Sane
  <2> QED BY <1>11, <1>12, <1>13, <2>2, <2>3, <2>4, <2>8 DEF IInv
<1>15. CASE HeldBy(p) # {}
  <2>1. /\ iterators' = [p EXCEPT ![m] = NextOf(p[m])] /\ current' = m
        /\ kv' = NextOf(p[m]).entry /\ pc' = "skip"
    BY <1>4, <1>15
  <2>2. m \in 1..n /\ e \in Held
    BY <1>5, <1>6, <1>7, <1>15, LowestIs
  <2>3. e # NoEntry
    BY <2>2, HeldIs
  <2>4. /\ Fits(NextOf(p[m]), segments[call.first + m - 1], call) /\ NextOf(p[m]).entry = e
    BY <1>6, <2>2, <2>3, NextFits
  <2>5. kv' = e
    BY <2>1, <2>4
  <2>6. /\ DOMAIN iterators' = 1..n /\ iterators'[m] = NextOf(p[m])
        /\ \A i \in 1..n : i # m => iterators'[i] = p[i]
    BY <1>5, <2>1, <2>2
  <2>7. ASSUME Sane
        PROVE  /\ NewestEntry(L, e) /\ ~Less(e.key, call.lower) /\ ~Beyond(e.key, call.upper)
               /\ \A x \in Held : Wants(L, call, x) => (x.key \in UpTo(k) <=> x.key \in Below(e.key))
               /\ \A i \in 1..n : Due(iterators[i]) = Left(L[i], call, Below(e.key))
    <3>1. Standing(iterators, p, L, call, k) /\ k \in Bytes /\ L \in Seq(S!Content)
      BY <1>7, <1>8, <2>7
    <3>2. TakenIs(iterators, L, call, k, e)
      BY <1>15, <3>1, LowestTaken
    <3> HIDE DEF e
    <3> QED BY <1>7, <3>2 DEF TakenIs
  <2>8. ASSUME Sane, NEW i \in 1..n PROVE Due(p[i]) = Left(L[i], call, Below(e.key))
    BY <1>6, <2>7, <2>8 DEF PeekedRight
  <2>9. ASSUME Sane PROVE Due(NextOf(p[m])) = Left(L[m], call, UpTo(e.key))
    <3>1. e.key # <<>> /\ ~Less(e.key, e.key) /\ Peek(p[m]) = p[m]
      BY <1>6, <2>2, HeldIs, LessOrder
    <3>2. SegmentOK(segments[call.first + m - 1], L[m]) /\ Fits(p[m], segments[call.first + m - 1], call)
      BY <1>2, <1>6, <2>2 DEF Iterating, L
    <3>3. ~Beyond(call.lower, call.upper) /\ Due(p[m]) = Left(L[m], call, Below(e.key))
      BY <2>2, <2>8, <2>9 DEF Sane
    <3>4. Due(IF Peek(p[m]).entry.key # <<>> /\ ~Less(e.key, Peek(p[m]).entry.key)
              THEN NextOf(Peek(p[m])) ELSE Peek(p[m])) = Left(L[m], call, UpTo(e.key))
      <4> DEFINE x == e
      <4>1. x \in Held /\ Due(p[m]) = Left(L[m], call, Below(x.key))
        BY <2>2, <3>3
      <4> HIDE DEF x
      <4>2. Due(IF Peek(p[m]).entry.key # <<>> /\ ~Less(x.key, Peek(p[m]).entry.key)
                THEN NextOf(Peek(p[m])) ELSE Peek(p[m])) = Left(L[m], call, UpTo(x.key))
        BY <3>2, <3>3, <4>1, StepPast
      <4> QED BY <4>2 DEF x
    <3> QED BY <3>1, <3>4
  <2> HIDE DEF m, e
  <2>10. IteratorsOK'
    <3>1. \A i \in 1..n : Fits(iterators'[i], segments[call.first + i - 1], call)
      BY <1>6, <2>4, <2>6
    <3> QED BY <1>1, <1>3, <2>6, <3>1 DEF IteratorsOK, n
  <2>11. TakenOK'
    BY <1>3, <2>1, <2>2, <2>3, <2>5 DEF TakenOK, n
  <2>12. DueOK'
    <3>1. Sane' <=> Sane
      BY <1>1 DEF Sane
    <3>2. ASSUME Sane, NEW i \in 1..n
          PROVE  \/ Due(iterators'[i]) = Left(L[i], call, UpTo(e.key))
                 \/ i # m /\ Due(iterators'[i]) = Left(L[i], call, Below(e.key))
      BY <2>6, <2>8, <2>9, <3>2
    <3> QED BY <1>1, <1>3, <2>1, <2>5, <2>7, <3>1, <3>2 DEF DueOK, n, L
  <2>13. DoneKeys' = Below(e.key)
    BY <2>1, <2>5 DEF DoneKeys, Taken
  <2>14. ASSUME Sane, NEW out, Collected(out, L, call, UpTo(k)) PROVE Collected(out, L, call, Below(e.key))
    <3>1. \A x \in Held : Wants(L, call, x) => (x.key \in UpTo(k) <=> x.key \in Below(e.key))
      BY <2>7, <2>14
    <3> QED BY <2>14, <3>1, CollectSame
  <2>15. Sane => CollectedWith(Below(e.key))
    BY <1>9, <2>14 DEF CollectedWith, L
  <2>16. CollectedOK'
    BY <1>1, <1>3, <1>10, <2>1, <2>13, <2>15 DEF CollectedOK, CollectedWith, Sane
  <2> QED BY <1>11, <1>12, <1>13, <2>10, <2>11, <2>12, <2>16 DEF IInv
<1> QED BY <1>14, <1>15

LEMMA SkipHolds ==
  ASSUME IInv, Skip
  PROVE  IInv'
<1> DEFINE n == Len(Slice)
           L == Slice
           next(i) == IF i = current THEN iterators[i]
                      ELSE IF i \in Behind THEN NextOf(Peek(iterators[i])) ELSE Peek(iterators[i])
<1>1. pc = "skip" /\ UNCHANGED <<segments, layers, call, current, kv, handed, file, answer>>
  BY DEF Skip
<1>2. Iterating(n)
  BY <1>1, RunningFacts DEF Running
<1>3. UNCHANGED Slice
  BY <1>1 DEF Slice
<1>4. n = Len(L) /\ n \in Nat /\ DOMAIN iterators = 1..n
  BY <1>2 DEF Iterating
<1>5. pc' \in {"handOver", "skip"} /\ DOMAIN iterators' = 1..n /\ \A i \in 1..n : iterators'[i] = next(i)
  <2> HIDE DEF n
  <2>1. iterators' = [i \in DOMAIN iterators |-> next(i)] /\ pc' \in {"handOver", "skip"}
    BY DEF Skip
  <2> HIDE DEF next
  <2> QED BY <1>4, <2>1
<1>6. kv \in Held /\ kv # NoEntry /\ current \in 1..n /\ kv.key \in Bytes
  BY <1>1, HeldIs DEF IInv, TakenOK
<1> HIDE DEF n, L
<1>7. ASSUME NEW i \in 1..n, i # current
      PROVE  /\ Fits(next(i), segments[call.first + i - 1], call)
             /\ next(i) = IF Peek(iterators[i]).entry.key # <<>> /\ ~Less(kv.key, Peek(iterators[i]).entry.key)
                          THEN NextOf(Peek(iterators[i])) ELSE Peek(iterators[i])
  <2> DEFINE q == Peek(iterators[i])
  <2>1. i \in Behind <=> q.entry.key # <<>> /\ ~Less(kv.key, q.entry.key)
    BY <1>4, <1>7 DEF Behind, NotPast
  <2>2. Fits(iterators[i], segments[call.first + i - 1], call)
    BY <1>2 DEF Iterating
  <2>3. Fits(q, segments[call.first + i - 1], call) /\ Peek(q) = q
    BY <2>2, PeekFits
  <2> HIDE DEF q
  <2>4. CASE i \in Behind
    <3>1. q.entry # NoEntry
      BY <2>1, <2>4 DEF NoEntry
    <3>2. Fits(NextOf(q), segments[call.first + i - 1], call)
      BY <2>3, <3>1, NextFits
    <3> QED BY <1>7, <2>1, <2>4, <3>2 DEF q
  <2>5. CASE i \notin Behind
    BY <1>7, <2>1, <2>3, <2>5 DEF q
  <2> QED BY <2>4, <2>5
<1>8. ASSUME NEW i \in 1..n PROVE Fits(iterators'[i], segments[call.first + i - 1], call)
  <2>1. CASE i = current
    BY <1>2, <1>5, <2>1 DEF Iterating
  <2>2. CASE i # current
    BY <1>5, <1>7, <2>2
  <2> QED BY <2>1, <2>2
<1>9. ASSUME Sane, NEW i \in 1..n PROVE Due(iterators'[i]) = Left(L[i], call, UpTo(kv.key))
  <2>1. \/ Due(iterators[i]) = Left(L[i], call, UpTo(kv.key))
        \/ i # current /\ Due(iterators[i]) = Left(L[i], call, Below(kv.key))
    BY <1>1, <1>9 DEF IInv, DueOK, n, L
  <2>2. CASE i = current
    BY <1>5, <2>1, <2>2
  <2>3. CASE i # current
    <3>1. /\ Fits(iterators[i], segments[call.first + i - 1], call)
          /\ SegmentOK(segments[call.first + i - 1], L[i])
      BY <1>2 DEF Iterating, L
    <3>2. ~Beyond(call.lower, call.upper)
      BY <1>9 DEF Sane
    <3>3. Due(iterators[i]) = Left(L[i], call, UpTo(kv.key)) \/ Due(iterators[i]) = Left(L[i], call, Below(kv.key))
      BY <2>1
    <3>4. Due(IF Peek(iterators[i]).entry.key # <<>> /\ ~Less(kv.key, Peek(iterators[i]).entry.key)
              THEN NextOf(Peek(iterators[i])) ELSE Peek(iterators[i])) = Left(L[i], call, UpTo(kv.key))
      BY <1>6, <3>1, <3>2, <3>3, StepPast
    <3> HIDE DEF next
    <3> QED BY <1>5, <1>7, <2>3, <3>4
  <2> QED BY <2>2, <2>3
<1>10. StackOK' /\ CallOK' /\ GetsAnswer' /\ FailsOnlyOnLongKeysAndEmptyFiles'
  <2>1. StackOK'
    BY <1>1 DEF IInv, StackOK
  <2>2. CallOK'
    BY <1>1, <1>5 DEF IInv, CallOK
  <2> QED BY <1>5, <2>1, <2>2 DEF GetsAnswer, FailsOnlyOnLongKeysAndEmptyFiles
<1>11. IteratorsOK'
  BY <1>1, <1>3, <1>5, <1>8 DEF IteratorsOK, n
<1>12. TakenOK'
  BY <1>1, <1>3, <1>5, <1>6 DEF TakenOK, n
<1>13. (Taken' <=> Taken) /\ Taken /\ DoneKeys' = DoneKeys /\ (Sane' <=> Sane)
  BY <1>1, <1>5, <1>6 DEF Taken, DoneKeys, Sane
<1>14. DueOK'
  <2>1. Sane => NewestEntry(L, kv) /\ ~Less(kv.key, call.lower) /\ ~Beyond(kv.key, call.upper)
    BY <1>13 DEF IInv, DueOK, L
  <2> QED BY <1>1, <1>3, <1>5, <1>9, <1>13, <2>1 DEF DueOK, n, L
<1>15. CollectedOK'
  <2>1. (Running' <=> Running) /\ (pc' # "dead") /\ (pc # "dead")
    BY <1>1, <1>5 DEF Running
  <2> QED BY <1>1, <1>3, <1>13, <2>1 DEF IInv, CollectedOK
<1> QED BY <1>10, <1>11, <1>12, <1>14, <1>15 DEF IInv

\* What has been handed over, or passed over.
LEMMA HandOverHolds ==
  ASSUME IInv, pc = "handOver", kv # NoEntry, pc' = "next",
         UNCHANGED <<segments, layers, call, iterators, current, kv, answer>>,
         call.name = "write" => FileOK(file'),
         Sane /\ call.name = "lookup" => Collected(handed', Slice, call, UpTo(kv.key)),
         Sane /\ call.name = "write" => Collected(Contents(file'), Slice, call, UpTo(kv.key))
  PROVE  IInv'
<1>1. UNCHANGED Slice /\ (Sane' <=> Sane)
  BY DEF Slice, Sane
<1>2. StackOK' /\ CallOK' /\ IteratorsOK' /\ TakenOK'
  <2>1. StackOK'
    BY DEF IInv, StackOK
  <2>2. CallOK'
    BY DEF IInv, CallOK
  <2>3. IteratorsOK'
    BY <1>1 DEF IInv, IteratorsOK, Running
  <2>4. TakenOK'
    BY <1>1 DEF IInv, TakenOK
  <2> QED BY <2>1, <2>2, <2>3, <2>4
<1>3. DueOK'
  BY <1>1 DEF IInv, DueOK, Taken
<1>4. DoneKeys' = UpTo(kv.key)
  BY DEF DoneKeys
<1>5. CollectedOK'
  BY <1>1, <1>4 DEF CollectedOK
<1>6. GetsAnswer' /\ FailsOnlyOnLongKeysAndEmptyFiles'
  BY DEF GetsAnswer, FailsOnlyOnLongKeysAndEmptyFiles
<1> QED BY <1>2, <1>3, <1>5, <1>6 DEF IInv

LEMMA HandOverFacts ==
  ASSUME IInv, pc = "handOver", kv # NoEntry
  PROVE  /\ kv \in Held /\ Slice \in Seq(S!Content)
         /\ Sane => /\ NewestEntry(Slice, kv) /\ ~Less(kv.key, call.lower) /\ ~Beyond(kv.key, call.upper)
                    /\ CollectedWith(Below(kv.key))
         /\ call.name = "write" => FileOK(file) /\ Sane
<1>1. kv \in Held /\ Slice \in Seq(S!Content)
  BY RunningFacts DEF Running, Iterating, IInv, TakenOK
<1>2. Taken /\ DoneKeys = Below(kv.key) /\ Running
  BY DEF Taken, DoneKeys, Running
<1>3. Sane => /\ NewestEntry(Slice, kv) /\ ~Less(kv.key, call.lower) /\ ~Beyond(kv.key, call.upper)
              /\ CollectedWith(Below(kv.key))
  BY <1>2 DEF IInv, DueOK, CollectedOK, CollectedWith
<1>4. call.name = "write" => FileOK(file) /\ Sane
  BY <1>2 DEF IInv, CollectedOK, CallOK, Sane, Beyond
<1> QED BY <1>1, <1>3, <1>4

LEMMA YieldHolds ==
  ASSUME IInv, Yield
  PROVE  IInv'
<1>1. /\ pc = "handOver" /\ kv # NoEntry /\ call.name = "lookup" /\ pc' = "next"
      /\ handed' = Append(handed, kv)
      /\ UNCHANGED <<segments, layers, call, iterators, current, kv, file, answer>>
  BY DEF Yield
<1>2. /\ kv \in Held /\ Slice \in Seq(S!Content)
      /\ Sane => /\ NewestEntry(Slice, kv) /\ ~Less(kv.key, call.lower) /\ ~Beyond(kv.key, call.upper)
                 /\ CollectedWith(Below(kv.key))
  BY <1>1, HandOverFacts
<1>3. ASSUME Sane PROVE Collected(handed', Slice, call, UpTo(kv.key))
  <2>1. Wants(Slice, call, kv) /\ Collected(handed, Slice, call, Below(kv.key))
    BY <1>1, <1>2, <1>3 DEF Wants, CollectedWith
  <2> QED BY <1>1, <1>2, <2>1, CollectMore
<1> QED BY <1>1, <1>3, HandOverHolds

LEMMA WriteHolds ==
  ASSUME IInv, Write
  PROVE  IInv'
<1>1. /\ pc = "handOver" /\ kv # NoEntry /\ call.name = "write" /\ pc' = "next"
      /\ file' = IF Purged(kv) THEN file ELSE WriteEntry(file, kv)
      /\ UNCHANGED <<segments, layers, call, iterators, current, kv, handed, answer>>
  BY DEF Write
<1>2. /\ kv \in Held /\ Slice \in Seq(S!Content) /\ FileOK(file)
      /\ NewestEntry(Slice, kv) /\ ~Less(kv.key, call.lower) /\ ~Beyond(kv.key, call.upper)
      /\ Collected(Contents(file), Slice, call, Below(kv.key))
  BY <1>1, HandOverFacts DEF CollectedWith
<1>3. Wants(Slice, call, kv) <=> ~Purged(kv)
  BY <1>1, <1>2 DEF Wants, Purged, PurgeDeleted
<1>4. FileOK(file') /\ Collected(Contents(file'), Slice, call, UpTo(kv.key))
  <2>1. CASE Purged(kv)
    BY <1>1, <1>2, <1>3, <2>1, CollectPast
  <2>2. CASE ~Purged(kv)
    <3>1. file' = WriteEntry(file, kv)
      BY <1>1, <2>2
    <3>2. FileOK(WriteEntry(file, kv)) /\ Contents(WriteEntry(file, kv)) = Append(Contents(file), kv)
      BY <1>2, WriteAdds
    <3>3. Collected(Append(Contents(file), kv), Slice, call, UpTo(kv.key))
      BY <1>2, <1>3, <2>2, CollectMore
    <3> QED BY <3>1, <3>2, <3>3
  <2> QED BY <2>1, <2>2
<1> QED BY <1>1, <1>4, HandOverHolds

\* A key that no buffer of the readers holds is the key of an entry.
LEMMA ThrowsAtALongKey ==
  ASSUME NEW it, NEW seg, NEW c, Fits(it, seg, c), Throws(it)
  PROVE  seg.kind = "disk" /\ \E e \in Range(EntriesOf(seg)) : Len(e.key) > maxKeySize
<1> DEFINE b == Len(it.rest)
           a == Passed(it) + 1
           m == Min({a, b})
<1>1. it.rest \in Seq(Held) /\ Up(it.rest) /\ it.lower \in Bytes /\ Range(it.rest) \subseteq Range(EntriesOf(seg))
  BY DEF Fits, IteratorOK, Iterators
<1>2. a \in Int /\ b \in Int
  <2>1. From(it.rest, it.lower) \in Seq(Held)
    BY <1>1, FromIs
  <2> QED BY <1>1, <2>1 DEF Passed
<1>3. PICK i \in 1..m : TooLongToRead(it.rest[i].key)
  BY DEF Throws
<1> HIDE DEF a, b
<1>4. m \in {a, b} /\ m <= b
  <2>1. CASE a <= b
    <3>1. a \in {a, b} /\ \A y \in {a, b} : a <= y
      BY <1>2, <2>1
    <3> QED BY <1>2, <3>1 DEF Min
  <2>2. CASE b <= a
    <3>1. b \in {a, b} /\ \A y \in {a, b} : b <= y
      BY <1>2, <2>2
    <3> QED BY <1>2, <3>1 DEF Min
  <2> QED BY <1>2, <2>1, <2>2
<1> HIDE DEF m
<1>5. i \in 1..b
  BY <1>2, <1>3, <1>4
<1>6. it.rest[i] \in Range(EntriesOf(seg))
  BY <1>1, <1>5, RangeIs DEF b
<1>7. Len(it.rest[i].key) > maxKeySize
  BY <1>3 DEF TooLongToRead
<1>8. seg.kind = "disk"
  BY DEF Fits, Throws
<1> QED BY <1>6, <1>7, <1>8

LEMMA ThrowHolds ==
  ASSUME IInv, DecodeThrows
  PROVE  IInv'
<1>1. /\ pc \in {"next", "skip"} /\ pc' = "dead"
      /\ UNCHANGED <<segments, layers, call, iterators, current, kv, handed, file, answer>>
  BY DEF DecodeThrows
<1>2. Iterating(Len(Slice))
  BY <1>1, RunningFacts DEF Running
<1>3. PICK i \in DOMAIN iterators : Throws(iterators[i])
  BY DEF DecodeThrows
<1> DEFINE j == call.first + i - 1
<1>4. i \in 1..Len(Slice) /\ Fits(iterators[i], segments[j], call) /\ j \in 1..Len(segments)
  BY <1>2, <1>3 DEF Iterating
<1>5. segments[j].kind = "disk" /\ \E e \in Range(EntriesOf(segments[j])) : Len(e.key) > maxKeySize
  BY <1>3, <1>4, ThrowsAtALongKey
<1> HIDE DEF j
<1>6. DOMAIN segments = 1..Len(segments)
  BY DEF IInv, StackOK
<1>7. FailsOnlyOnLongKeysAndEmptyFiles'
  <2>1. j \in DiskSegments
    BY <1>4, <1>5, <1>6 DEF DiskSegments
  <2>2. UNCHANGED DiskSegments
    BY <1>1 DEF DiskSegments
  <2> QED BY <1>1, <1>5, <2>1, <2>2 DEF FailsOnlyOnLongKeysAndEmptyFiles
<1>8. UNCHANGED Slice /\ (Sane' <=> Sane)
  BY <1>1 DEF Slice, Sane
<1>9. StackOK' /\ CallOK' /\ IteratorsOK' /\ TakenOK' /\ DueOK' /\ GetsAnswer'
  <2>1. StackOK'
    BY <1>1 DEF IInv, StackOK
  <2>2. CallOK'
    BY <1>1 DEF IInv, CallOK
  <2>3. TakenOK'
    BY <1>1 DEF IInv, TakenOK
  <2> QED BY <1>1, <2>1, <2>2, <2>3 DEF IteratorsOK, DueOK, Running, Taken, GetsAnswer
<1>10. CollectedOK'
  <2>1. SUFFICES ASSUME Sane, call.name = "lookup" PROVE Partial(handed, Slice, call)
    BY <1>1, <1>8 DEF CollectedOK, Running
  <2>2. Collected(handed, Slice, call, DoneKeys)
    BY <1>1, <2>1 DEF IInv, CollectedOK
  <2>3. kv.key \in Bytes /\ \A x \in Key : x \in Bytes
    BY HeldIs, LessEmpty, KeysAreBytes DEF IInv, TakenOK, NoEntry
  <2>4. \A x, y \in Key : Less(x, y) /\ y \in DoneKeys => x \in DoneKeys
    <3>1. ASSUME NEW x \in Key, NEW y \in Key, Less(x, y)
          PROVE  /\ y \in UpTo(kv.key) => x \in UpTo(kv.key)
                 /\ y \in Below(kv.key) => x \in Below(kv.key)
      <4>1. ~Less(kv.key, y) => ~Less(kv.key, x)
        BY <2>3, <3>1, LessOrder
      <4>2. Less(y, kv.key) => Less(x, kv.key)
        BY <2>3, <3>1, LessOrder
      <4> QED BY <4>1, <4>2 DEF UpTo, Below
    <3>2. DoneKeys \in {UpTo(kv.key), Below(kv.key)}
      BY <1>1 DEF DoneKeys, Taken
    <3> QED BY <3>1, <3>2
  <2> QED BY <2>2, <2>4, CollectedIsPartial
<1> QED BY <1>7, <1>9, <1>10 DEF IInv

\* The file of a merge holds the merge.
LEMMA MergedHeld ==
  ASSUME NEW L \in Seq(S!Content), NEW c, c.name = "write", c.lower = <<>>, c.upper = <<>>,
         NEW purge \in BOOLEAN, purge <=> c.first = 1 /\ c.first < c.last,
         NEW out, Collected(out, L, c, Key)
  PROVE  S!Merged(L, purge) \in S!Content /\ Holds(out, S!Merged(L, purge))
<1> DEFINE M == S!Merged(L, purge)
<1>1. \A k \in Key : M[k] = IF purge /\ S!Newest(L, k) = <<>> THEN Absent ELSE S!Newest(L, k)
  BY DEF S!Merged
<1>2. M \in S!Content
  <2>1. \A k \in Key : S!Newest(L, k) # Absent => S!Newest(L, k) \in Value \cup {<<>>}
    BY NewestIs
  <2>2. M \in [Key -> Value \cup {<<>>, Absent}]
    BY <1>1, <2>1 DEF S!Merged
  <2> QED BY <2>2 DEF S!Content, S!Entry
<1>3. ASSUME NEW e \in Held PROVE e \in Range(out) <=> M[e.key] = e.value
  <2>1. e.key \in Key /\ e.key \in Bytes /\ e.value # Absent
    BY HeldIs, KeysAreBytes
  <2>2. NewestEntry(L, e) <=> S!Newest(L, e.key) = e.value
    BY NewestIs
  <2>3. ~Less(e.key, <<>>)
    BY <2>1, LessEmpty
  <2>4. Wants(L, c, e) <=> NewestEntry(L, e) /\ ~(purge /\ e.value = <<>>)
    BY <2>3 DEF Wants, Beyond
  <2>5. e \in Range(out) <=> Wants(L, c, e)
    BY <2>1 DEF Collected
  <2>6. M[e.key] = IF purge /\ S!Newest(L, e.key) = <<>> THEN Absent ELSE S!Newest(L, e.key)
    BY <1>1, <2>1
  <2> HIDE DEF M
  <2> QED BY <2>1, <2>2, <2>4, <2>5, <2>6
<1> HIDE DEF M
<1> QED BY <1>2, <1>3 DEF Collected, Holds, M

LEMMA ReturnHolds ==
  ASSUME IInv, Return
  PROVE  IInv'
<1>1. /\ pc = "handOver" /\ kv = NoEntry /\ pc' = "idle" /\ UNCHANGED <<call, kv, handed, answer>>
      /\ call.name = "write" =>
           /\ segments' = Replaced(segments, Disk(file))
           /\ layers' = Replaced(layers, S!Merged(Slice, PurgeDeleted))
      /\ call.name # "write" => UNCHANGED <<segments, layers>>
  BY DEF Return, Slice
<1>2. DoneKeys = Key /\ Running /\ Slice \in Seq(S!Content) /\ call.name \in {"lookup", "write"}
  BY <1>1, RunningFacts DEF DoneKeys, Taken, Running, Iterating
<1>3. IteratorsOK' /\ TakenOK' /\ DueOK' /\ FailsOnlyOnLongKeysAndEmptyFiles' /\ GetsAnswer'
  <2>1. IteratorsOK' /\ DueOK' /\ FailsOnlyOnLongKeysAndEmptyFiles'
    BY <1>1 DEF IteratorsOK, DueOK, Running, Taken, FailsOnlyOnLongKeysAndEmptyFiles
  <2>2. TakenOK'
    BY <1>1 DEF TakenOK
  <2>3. GetsAnswer'
    BY <1>1, <1>2 DEF GetsAnswer
  <2> QED BY <2>1, <2>2, <2>3
<1>4. CASE call.name = "lookup"
  <2>1. UNCHANGED <<segments, layers, call>>
    BY <1>1, <1>4
  <2>2. UNCHANGED Slice /\ (Sane' <=> Sane)
    BY <2>1 DEF Slice, Sane
  <2>3. StackOK'
    BY <2>1 DEF IInv, StackOK
  <2>4. CallOK'
    BY <1>1, <2>1, <1>4 DEF IInv, CallOK
  <2>5. DoneKeys' = Key
    BY <1>1 DEF DoneKeys, Taken
  <2>6. CollectedOK'
    BY <1>1, <1>2, <1>4, <2>1, <2>2, <2>5 DEF IInv, CollectedOK, Running
  <2> QED BY <1>3, <2>3, <2>4, <2>6 DEF IInv
<1>5. CASE call.name = "write"
  <2> DEFINE content == S!Merged(Slice, PurgeDeleted)
             seg == Disk(file)
             n == Len(layers)
             f == call.first
             d == call.last - call.first
  <2>1. FileOK(file) /\ Collected(Contents(file), Slice, call, Key)
    BY <1>2, <1>5 DEF IInv, CollectedOK, CallOK, Sane, Beyond, Running
  <2>2. content \in S!Content /\ Holds(Contents(file), content)
    <3>1. call.lower = <<>> /\ call.upper = <<>>
      BY <1>1, <1>5 DEF IInv, CallOK
    <3>2. PurgeDeleted \in BOOLEAN /\ (PurgeDeleted <=> call.first = 1 /\ call.first < call.last)
      BY DEF PurgeDeleted
    <3> QED BY <1>2, <1>5, <2>1, <3>1, <3>2, MergedHeld
  <2> HIDE DEF content
  <2>3. SegmentOK(seg, content)
    BY <2>1, <2>2, DiskOK
  <2> HIDE DEF seg
  <2>4. seg \in Segment
    BY <2>3 DEF SegmentOK
  <2>5. /\ segments \in Seq(Segment) /\ layers \in Seq(S!Content) /\ Len(segments) = n /\ n \in Nat
        /\ \A i \in 1..n : SegmentOK(segments[i], layers[i])
    BY DEF IInv, StackOK
  <2>6. call.first \in 1..n /\ call.last \in call.first..n
    BY <1>1, <1>5, <2>5 DEF IInv, CallOK
  <2> DEFINE a == Replaced(segments, seg)
             b == Replaced(layers, content)
  <2>7. /\ a \in Seq(Segment) /\ Len(a) = n - d
        /\ \A i \in 1..Len(a) : a[i] = IF i < f THEN segments[i] ELSE IF i = f THEN seg ELSE segments[i + d]
    <3>1. /\ segments \in Seq(Segment) /\ seg \in Segment
          /\ call.first \in 1..Len(segments) /\ call.last \in call.first..Len(segments)
      BY <2>4, <2>5, <2>6
    <3>2. /\ Replaced(segments, seg) \in Seq(Segment)
          /\ Len(Replaced(segments, seg)) = Len(segments) - (call.last - call.first)
          /\ \A i \in 1..Len(Replaced(segments, seg)) :
               Replaced(segments, seg)[i] = IF i < call.first THEN segments[i]
                                     ELSE IF i = call.first THEN seg
                                     ELSE segments[i + (call.last - call.first)]
      BY ONLY <3>1, ReplacedIs
    <3> QED BY ONLY <2>5, <3>2
  <2>8. /\ b \in Seq(S!Content) /\ Len(b) = n - d
        /\ \A i \in 1..Len(b) : b[i] = IF i < f THEN layers[i] ELSE IF i = f THEN content ELSE layers[i + d]
    <3>1. /\ layers \in Seq(S!Content) /\ content \in S!Content
          /\ call.first \in 1..Len(layers) /\ call.last \in call.first..Len(layers)
      BY <2>2, <2>5, <2>6
    <3>2. /\ Replaced(layers, content) \in Seq(S!Content)
          /\ Len(Replaced(layers, content)) = Len(layers) - (call.last - call.first)
          /\ \A i \in 1..Len(Replaced(layers, content)) :
               Replaced(layers, content)[i] = IF i < call.first THEN layers[i]
                                     ELSE IF i = call.first THEN content
                                     ELSE layers[i + (call.last - call.first)]
      BY ONLY <3>1, ReplacedIs
    <3> QED BY ONLY <2>5, <3>2
  <2>9. f \in Nat /\ d \in Nat /\ f + d \in 1..n /\ f \in 1..n
    <3> HIDE DEF n
    <3> QED BY <2>5, <2>6
  <2>10. segments' = a /\ layers' = b
    BY <1>1, <1>5 DEF seg, content
  <2> HIDE DEF a, b, n, f, d
  <2>11. ASSUME NEW i \in 1..Len(b) PROVE SegmentOK(a[i], b[i])
    <3>1. i \in Nat /\ i <= n - d /\ 1 <= i
      BY <2>5, <2>8, <2>9
    <3>2. CASE i < f
      <4>1. i \in 1..n
        BY <2>5, <2>9, <3>1, <3>2
      <4> QED BY <2>5, <2>7, <2>8, <3>2, <4>1
    <3>3. CASE i = f
      BY <2>3, <2>7, <2>8, <2>9, <3>3
    <3>4. CASE i > f
      <4>1. i + d \in 1..n /\ ~(i < f) /\ i # f
        BY <2>5, <2>9, <3>1, <3>4
      <4> QED BY <2>5, <2>7, <2>8, <3>4, <4>1
    <3> QED BY <2>9, <3>1, <3>2, <3>3, <3>4
  <2>12. StackOK'
    BY <2>7, <2>8, <2>10, <2>11 DEF StackOK
  <2>13. CallOK'
    BY <1>1, <1>5 DEF IInv, CallOK
  <2>14. CollectedOK'
    BY <1>1, <1>5 DEF CollectedOK, Running
  <2> QED BY <1>3, <2>12, <2>13, <2>14 DEF IInv
<1> QED BY <1>2, <1>4, <1>5

-----------------------------------------------------------------------------
\* binarySearch0 finds the last block of its range that does not start above the key.

Stop(seg, key, b) == Less(key, Block(seg, b)[1].suffix)

\* Once the key has been passed it stays passed.
Passes(seg, key, A) == \A b, c \in A : Stop(seg, key, b) /\ b < c => Stop(seg, key, c)

IsSearch(h, A, seg, key) ==
  h = [range \in A \X A |->
         LET low  == range[1]
             high == range[2]
             mid  == (high - low) \div 2 + low
         IN  IF high - low <= 1 THEN LowOrHigh(Stop(seg, key, high), low, high)
             ELSE IF Stop(seg, key, mid) THEN h[<<low, mid>>] ELSE h[<<mid, high>>]]

LastIs(seg, key, a, b, r) ==
  /\ r \in a..b /\ (r = a \/ ~Stop(seg, key, r))
  /\ \A c \in a..b : c > r => Stop(seg, key, c)

LEMMA Halves ==
  ASSUME NEW a \in Nat, NEW b \in Nat, ~(b - a <= 1)
  PROVE  LET mid == (b - a) \div 2 + a IN mid \in Nat /\ a < mid /\ mid < b
OBVIOUS

LEMMA LastExists ==
  ASSUME NEW seg, NEW key, NEW a \in Nat, NEW b \in Nat, a <= b
  PROVE  \E r : LastIs(seg, key, a, b, r)
<1> DEFINE T == {r \in a..b : r = a \/ ~Stop(seg, key, r)}
<1>1. T \in SUBSET (0..b) /\ T # {}
  <2>1. a \in T
    OBVIOUS
  <2> QED BY <2>1
<1>2. Max(T) \in T /\ \A i \in T : i <= Max(T)
  <2> HIDE DEF T
  <2> QED BY <1>1, Greatest
<1>3. PICK r \in T : \A i \in T : i <= r
  BY <1>2
<1>4. ASSUME NEW c \in a..b, c > r PROVE Stop(seg, key, c)
  BY <1>3, <1>4
<1> QED BY <1>3, <1>4 DEF LastIs

LEMMA LastOnce ==
  ASSUME NEW seg, NEW key, NEW a \in Nat, NEW b \in Nat, NEW r, NEW q,
         LastIs(seg, key, a, b, r), LastIs(seg, key, a, b, q)
  PROVE  r = q
BY DEF LastIs

\* Half of a range says what all of it does.
LEMMA LastInHalf ==
  ASSUME NEW seg, NEW key, NEW a \in Nat, NEW b \in Nat, NEW mid \in Nat, a < mid, mid < b,
         Passes(seg, key, a..b), NEW r
  PROVE  /\ Stop(seg, key, mid) /\ LastIs(seg, key, a, mid, r) => LastIs(seg, key, a, b, r)
         /\ ~Stop(seg, key, mid) /\ LastIs(seg, key, mid, b, r) => LastIs(seg, key, a, b, r)
<1>1. ASSUME Stop(seg, key, mid), LastIs(seg, key, a, mid, r) PROVE LastIs(seg, key, a, b, r)
  <2>1. r \in a..mid /\ r \in a..b /\ (r = a \/ ~Stop(seg, key, r))
    BY <1>1 DEF LastIs
  <2>2. ASSUME NEW c \in a..b, c > r PROVE Stop(seg, key, c)
    <3>1. CASE c <= mid
      <4>1. c \in a..mid
        BY <3>1
      <4> QED BY <1>1, <2>2, <4>1 DEF LastIs
    <3>2. CASE mid < c
      <4>1. mid \in a..b
        OBVIOUS
      <4> QED BY <1>1, <3>2, <4>1 DEF Passes
    <3> QED BY <3>1, <3>2
  <2> QED BY <2>1, <2>2 DEF LastIs
<1>2. ASSUME ~Stop(seg, key, mid), LastIs(seg, key, mid, b, r) PROVE LastIs(seg, key, a, b, r)
  <2>1. r \in mid..b /\ r \in a..b /\ ~Stop(seg, key, r)
    BY <1>2 DEF LastIs
  <2>2. ASSUME NEW c \in a..b, c > r PROVE Stop(seg, key, c)
    <3>1. c \in mid..b
      BY <2>1, <2>2
    <3> QED BY <1>2, <2>2, <3>1 DEF LastIs
  <2> QED BY <2>1, <2>2 DEF LastIs
<1> QED BY <1>1, <1>2

StepsRight(h, seg, key, a, b) ==
  LET mid == (b - a) \div 2 + a
  IN  h[<<a, b>>] = IF b - a <= 1 THEN LowOrHigh(Stop(seg, key, b), a, b)
                    ELSE IF Stop(seg, key, mid) THEN h[<<a, mid>>] ELSE h[<<mid, b>>]

LEMMA SearchStep ==
  ASSUME NEW h, NEW A, NEW seg, NEW key, IsSearch(h, A, seg, key), NEW a \in A, NEW b \in A
  PROVE  StepsRight(h, seg, key, a, b)
BY DEF IsSearch, StepsRight

\* Whatever search the recursion defines.
LEMMA SearchIs ==
  ASSUME NEW low \in Nat, NEW high \in Nat, NEW seg, NEW key, Passes(seg, key, low..high),
         NEW h, IsSearch(h, low..high, seg, key),
         NEW a \in low..high, NEW b \in low..high, a <= b
  PROVE  LastIs(seg, key, a, b, h[<<a, b>>])
<1> DEFINE A == low..high
           Right(x, y) == LastIs(seg, key, x, y, h[<<x, y>>])
           M == {d \in Nat : \A x, y \in A : x <= y /\ y - x <= d => Right(x, y)}
<1>0. A \in SUBSET Nat
  OBVIOUS
<1>1. ASSUME NEW x \in A, NEW y \in A, x <= y, y - x <= 1 PROVE Right(x, y)
  <2>1. h[<<x, y>>] = LowOrHigh(Stop(seg, key, y), x, y)
    <3>1. IsSearch(h, A, seg, key)
      OBVIOUS
    <3> HIDE DEF A
    <3>2. StepsRight(h, seg, key, x, y)
      BY <3>1, SearchStep
    <3> QED BY <1>1, <3>2 DEF StepsRight
  <2>2. h[<<x, y>>] = IF Stop(seg, key, y) THEN x ELSE y
    BY <2>1 DEF LowOrHigh
  <2> QED BY <1>0, <1>1, <2>2 DEF LastIs
<1>2. 0 \in M
  <2> HIDE DEF Right
  <2> QED BY <1>0, <1>1
<1>3. ASSUME NEW d \in M PROVE d + 1 \in M
  <2>1. d \in Nat
    OBVIOUS
  <2>2. ASSUME NEW x \in A, NEW y \in A, x <= y, y - x <= d + 1 PROVE Right(x, y)
    <3>1. CASE y - x <= 1
      BY <1>1, <2>2, <3>1
    <3>2. CASE ~(y - x <= 1)
      <4> DEFINE mid == (y - x) \div 2 + x
      <4>1. mid \in Nat /\ x < mid /\ mid < y
        BY <1>0, <3>2, Halves
      <4>2. h[<<x, y>>] = IF Stop(seg, key, mid) THEN h[<<x, mid>>] ELSE h[<<mid, y>>]
        <5>1. IsSearch(h, A, seg, key)
          OBVIOUS
        <5> HIDE DEF A
        <5>2. StepsRight(h, seg, key, x, y)
          BY <5>1, SearchStep
        <5> QED BY <3>2, <5>2 DEF StepsRight
      <4> HIDE DEF mid
      <4>3. mid \in A /\ mid - x <= d /\ y - mid <= d
        BY <1>0, <2>1, <2>2, <4>1
      <4>4. Right(x, mid) /\ Right(mid, y)
        <5> HIDE DEF Right
        <5> QED BY <2>2, <4>1, <4>3
      <4>5. Passes(seg, key, x..y)
        <5>1. x..y \in SUBSET A
          OBVIOUS
        <5> QED BY <5>1 DEF Passes
      <4>6. \A r : /\ Stop(seg, key, mid) /\ LastIs(seg, key, x, mid, r) => LastIs(seg, key, x, y, r)
                   /\ ~Stop(seg, key, mid) /\ LastIs(seg, key, mid, y, r) => LastIs(seg, key, x, y, r)
        BY <1>0, <4>1, <4>5, LastInHalf
      <4>7. CASE Stop(seg, key, mid)
        <5>1. h[<<x, y>>] = h[<<x, mid>>]
          BY <4>2, <4>7
        <5> QED BY <4>4, <4>6, <4>7, <5>1
      <4>8. CASE ~Stop(seg, key, mid)
        <5>1. h[<<x, y>>] = h[<<mid, y>>]
          BY <4>2, <4>8
        <5> QED BY <4>4, <4>6, <4>8, <5>1
      <4> QED BY <4>7, <4>8
    <3> QED BY <3>1, <3>2
  <2> HIDE DEF Right
  <2> QED BY <2>1, <2>2
<1>4. M = Nat
  <2>1. M \in SUBSET Nat
    OBVIOUS
  <2> HIDE DEF M
  <2> QED BY <1>2, <1>3, <2>1, Induction
<1>5. b - a \in Nat
  OBVIOUS
<1> HIDE DEF Right
<1>6. b - a \in M
  BY <1>4, <1>5
<1>7. Right(a, b)
  BY <1>6, <1>5
<1> QED BY <1>7 DEF Right

LEMMA SearchExists ==
  ASSUME NEW low \in Nat, NEW high \in Nat, NEW seg, NEW key, Passes(seg, key, low..high)
  PROVE  \E h : IsSearch(h, low..high, seg, key)
<1> DEFINE A == low..high
           Closed(x, y) == IF y <= x THEN LowOrHigh(Stop(seg, key, y), x, y)
                           ELSE CHOOSE r : LastIs(seg, key, x, y, r)
           h == [range \in A \X A |-> Closed(range[1], range[2])]
           Step(x, y) == LET mid == (y - x) \div 2 + x
                         IN  IF y - x <= 1 THEN LowOrHigh(Stop(seg, key, y), x, y)
                             ELSE IF Stop(seg, key, mid) THEN h[<<x, mid>>] ELSE h[<<mid, y>>]
<1>0. A \in SUBSET Nat
  OBVIOUS
<1>1. \A x, y \in A : h[<<x, y>>] = Closed(x, y)
  <2> HIDE DEF Closed, A
  <2> QED OBVIOUS
<1>2. ASSUME NEW x \in A, NEW y \in A, x < y
      PROVE  LastIs(seg, key, x, y, Closed(x, y))
  <2>1. \E r : LastIs(seg, key, x, y, r)
    <3>1. x \in Nat /\ y \in Nat /\ x <= y
      BY <1>0, <1>2
    <3> QED BY <3>1, LastExists
  <2>2. Closed(x, y) = CHOOSE r : LastIs(seg, key, x, y, r)
    BY <1>0, <1>2
  <2> HIDE DEF Closed
  <2> QED BY <2>1, <2>2
<1> HIDE DEF h
<1>3. ASSUME NEW x \in A, NEW y \in A PROVE h[<<x, y>>] = Step(x, y)
  <2>1. CASE y <= x
    <3>1. y - x <= 1
      BY <1>0, <2>1
    <3> QED BY <1>1, <2>1, <3>1
  <2>2. CASE x < y /\ y - x <= 1
    <3>1. LastIs(seg, key, x, y, Closed(x, y))
      BY <1>2, <2>2
    <3>2. y = x + 1 /\ x \in Nat /\ y \in Nat
      BY <1>0, <2>2
    <3> DEFINE r == Closed(x, y)
    <3>3. r \in x..y /\ (r = x \/ ~Stop(seg, key, r)) /\ (y > r => Stop(seg, key, y))
      BY <3>1, <3>2 DEF LastIs
    <3> HIDE DEF r
    <3>4. r = IF Stop(seg, key, y) THEN x ELSE y
      BY <3>2, <3>3
    <3>5. h[<<x, y>>] = r
      BY <1>1 DEF r
    <3> QED BY <2>2, <3>4, <3>5 DEF LowOrHigh
  <2>3. CASE ~(y - x <= 1)
    <3> DEFINE mid == (y - x) \div 2 + x
    <3>1. mid \in Nat /\ x < mid /\ mid < y
      BY <1>0, <2>3, Halves
    <3>2. Step(x, y) = IF Stop(seg, key, mid) THEN h[<<x, mid>>] ELSE h[<<mid, y>>]
      BY <2>3
    <3> HIDE DEF mid, Step
    <3>3. mid \in A /\ x \in Nat /\ y \in Nat
      BY <1>0, <3>1
    <3>4. Passes(seg, key, x..y)
      <4>1. x..y \in SUBSET A
        OBVIOUS
      <4> QED BY <4>1 DEF Passes
    <3>5. \A r : /\ Stop(seg, key, mid) /\ LastIs(seg, key, x, mid, r) => LastIs(seg, key, x, y, r)
                 /\ ~Stop(seg, key, mid) /\ LastIs(seg, key, mid, y, r) => LastIs(seg, key, x, y, r)
      BY <3>1, <3>3, <3>4, LastInHalf
    <3>6. x < y
      BY <3>1, <3>3
    <3>7. /\ LastIs(seg, key, x, y, Closed(x, y)) /\ LastIs(seg, key, x, mid, Closed(x, mid))
          /\ LastIs(seg, key, mid, y, Closed(mid, y))
      BY <1>2, <3>1, <3>3, <3>6
    <3> HIDE DEF Closed, A
    <3>8. CASE Stop(seg, key, mid)
      <4>1. Closed(x, y) = Closed(x, mid)
        BY <3>3, <3>5, <3>7, <3>8, LastOnce
      <4> QED BY <1>1, <3>2, <3>3, <3>8, <4>1
    <3>9. CASE ~Stop(seg, key, mid)
      <4>1. Closed(x, y) = Closed(mid, y)
        BY <3>3, <3>5, <3>7, <3>9, LastOnce
      <4> QED BY <1>1, <3>2, <3>3, <3>9, <4>1
    <3> QED BY <3>8, <3>9
  <2>4. y <= x \/ (x < y /\ y - x <= 1) \/ ~(y - x <= 1)
    BY <1>0
  <2> QED BY <2>1, <2>2, <2>3, <2>4
<1>4. h = [range \in A \X A |-> Step(range[1], range[2])]
  <2>1. h = [range \in A \X A |-> h[range]]
    BY DEF h
  <2> HIDE DEF A, Step
  <2>2. \A range \in A \X A : h[range] = Step(range[1], range[2])
    BY <1>3
  <2> QED BY <2>1, <2>2
<1>5. IsSearch(h, A, seg, key)
  BY <1>4 DEF IsSearch
<1> QED BY <1>5

LEMMA BinarySearchIs ==
  ASSUME NEW low \in Nat, NEW high \in Nat, low <= high, NEW seg, NEW key, Passes(seg, key, low..high)
  PROVE  LastIs(seg, key, low, high, BinarySearch0(seg, low, high, key))
<1> DEFINE h == CHOOSE g : IsSearch(g, low..high, seg, key)
<1>1. BinarySearch0(seg, low, high, key) = h[<<low, high>>]
  BY DEF IsSearch, BinarySearch0, Stop
<1>2. IsSearch(h, low..high, seg, key)
  BY SearchExists
<1> HIDE DEF h
<1>3. low \in low..high /\ high \in low..high
  OBVIOUS
<1>4. LastIs(seg, key, low, high, h[<<low, high>>])
  BY <1>2, <1>3, SearchIs
<1> QED BY <1>1, <1>4

-----------------------------------------------------------------------------
\* A get finds what a segment holds.

\* The block with an entry of the key is the one that is searched.
LEMMA BlockFound ==
  ASSUME NEW seg, Sorted(seg), NEW key \in Bytes
  PROVE  \E r \in 1..Len(seg.blocks) :
           /\ BinarySearch0(seg, IndexBlock(seg.index, key),
                            HighBlock(seg, IndexBlock(seg.index, key)), key) = r - 1
           /\ \A b \in 1..Len(seg.blocks) :
                \A e \in Range(BlockEntries(seg)[b]) : e.key = key => b = r
<1> DEFINE n == Len(seg.blocks)
           k == keyIndexInterval
           s == BlockEntries(seg)
           low == IndexBlock(seg.index, key)
           high == HighBlock(seg, low)
           q == BinarySearch0(seg, low, high, key)
<1>1. /\ n \in Nat /\ n # 0
      /\ \A b \in 1..n : /\ s[b] \in Seq(Held) /\ Len(s[b]) # 0 /\ Up(s[b])
                         /\ s[b][1].key = FirstKey(seg, b - 1) /\ s[b][1] \in Range(s[b])
      /\ \A b, c \in 1..n : b < c => Before(s[b], s[c])
  BY BlocksRise
<1>2. IndexRight(seg, key, low)
  BY IndexBlockIs
<1> HIDE DEF s, q
<1>3. k \in Nat /\ k # 0
  BY KeyFileAssumption
<1>4. low \in 0..(n - 1) /\ low \in Nat
  BY <1>1, <1>2 DEF IndexRight
<1> HIDE DEF n, low, k
<1>5. high \in Nat /\ low <= high /\ high <= n - 1 /\ (high = low + k \/ high = n - 1)
  <2> DEFINE x == low + k
             y == n - 1
  <2>1. x \in Int /\ y \in Int
    BY <1>1, <1>3, <1>4
  <2>2. high = Min({x, y})
    BY DEF HighBlock, n, k
  <2> HIDE DEF x, y, high
  <2>3. CASE x <= y
    <3>1. x \in {x, y} /\ \A z \in {x, y} : x <= z
      BY <2>1, <2>3
    <3>2. high \in {x, y} /\ high <= x /\ high <= y
      BY <2>1, <2>2, <3>1 DEF Min
    <3> QED BY <1>1, <1>3, <1>4, <3>2 DEF x, y
  <2>4. CASE y <= x
    <3>1. y \in {x, y} /\ \A z \in {x, y} : y <= z
      BY <2>1, <2>4
    <3>2. high \in {x, y} /\ high <= x /\ high <= y
      BY <2>1, <2>2, <3>1 DEF Min
    <3> QED BY <1>1, <1>3, <1>4, <3>2 DEF x, y
  <2> QED BY <2>1, <2>3, <2>4
<1> HIDE DEF high
\* The first key of a block is above all of the blocks before it.
<1>6. ASSUME NEW b \in 0..(n - 1), NEW c \in 0..(n - 1), b < c
      PROVE  Less(FirstKey(seg, b), FirstKey(seg, c))
  <2> DEFINE i == b + 1
             j == c + 1
  <2>1. i \in 1..n /\ j \in 1..n /\ i < j /\ i - 1 = b /\ j - 1 = c
    BY <1>1, <1>6
  <2> HIDE DEF i, j
  <2>2. s[i][1] \in Range(s[i]) /\ s[j][1] \in Range(s[j]) /\ Before(s[i], s[j])
    BY <1>1, <2>1
  <2>3. s[i][1].key = FirstKey(seg, b) /\ s[j][1].key = FirstKey(seg, c)
    BY <1>1, <2>1
  <2> QED BY <2>2, <2>3 DEF Before
<1>7. ASSUME NEW b \in 0..(n - 1) PROVE FirstKey(seg, b) \in Bytes
  <2> DEFINE i == b + 1
  <2>1. i \in 1..n /\ i - 1 = b
    BY <1>1, <1>7
  <2> HIDE DEF i
  <2>2. s[i][1] \in Held /\ s[i][1].key = FirstKey(seg, b)
    BY <1>1, <2>1, RangeIs
  <2> QED BY <2>2, HeldIs
<1>8. Passes(seg, key, low..high)
  <2>1. low..high \in SUBSET (0..(n - 1))
    BY <1>1, <1>4, <1>5
  <2>2. ASSUME NEW b \in low..high, NEW c \in low..high, Stop(seg, key, b), b < c PROVE Stop(seg, key, c)
    <3>1. Less(FirstKey(seg, b), FirstKey(seg, c)) /\ FirstKey(seg, b) \in Bytes /\ FirstKey(seg, c) \in Bytes
      BY <1>6, <1>7, <2>1, <2>2
    <3>2. Less(key, FirstKey(seg, b))
      BY <2>2 DEF Stop, FirstKey
    <3>3. Less(key, FirstKey(seg, c))
      BY <3>1, <3>2, LessOrder
    <3> QED BY <3>3 DEF Stop, FirstKey
  <2> QED BY <2>2 DEF Passes
<1>9. LastIs(seg, key, low, high, q)
  BY <1>4, <1>5, <1>8, BinarySearchIs DEF q
<1>10. /\ q \in low..high /\ (q = low \/ ~Less(key, FirstKey(seg, q)))
       /\ \A c \in low..high : c > q => Less(key, FirstKey(seg, c))
  BY <1>9 DEF LastIs, Stop, FirstKey
<1>11. q \in 0..(n - 1) /\ q \in Nat
  BY <1>1, <1>4, <1>5, <1>10
<1>12. q # 0 => ~Less(key, FirstKey(seg, q))
  <2>1. low # 0 => ~Less(key, FirstKey(seg, low))
    BY <1>2 DEF IndexRight
  <2> QED BY <1>10, <2>1
<1>13. ASSUME NEW c \in 0..(n - 1), c > q PROVE Less(key, FirstKey(seg, c))
  <2>1. CASE c <= high
    <3>1. c \in low..high
      BY <1>4, <1>5, <1>10, <1>13, <2>1
    <3> QED BY <1>10, <1>13, <3>1
  <2>2. CASE high < c
    <3>1. high = low + k /\ low + k <= n - 1 /\ low + k \in 0..(n - 1) /\ low + k < c
      BY <1>1, <1>3, <1>4, <1>5, <2>2
    <3>2. Less(key, FirstKey(seg, low + k))
      BY <1>2, <3>1 DEF IndexRight, n, k
    <3>3. Less(FirstKey(seg, low + k), FirstKey(seg, c))
      BY <1>6, <3>1
    <3>4. FirstKey(seg, low + k) \in Bytes /\ FirstKey(seg, c) \in Bytes
      BY <1>7, <3>1
    <3> QED BY <3>2, <3>3, <3>4, LessOrder
  <2> QED BY <1>5, <2>1, <2>2
<1> DEFINE r == q + 1
<1>14. r \in 1..n /\ r - 1 = q
  BY <1>1, <1>11
<1> HIDE DEF r
<1>15. ASSUME NEW b \in 1..n, NEW e \in Range(s[b]), e.key = key PROVE b = r
  <2>1. s[b] \in Seq(Held) /\ Len(s[b]) # 0 /\ Up(s[b]) /\ s[b][1].key = FirstKey(seg, b - 1)
    BY <1>1
  <2>2. CASE b < r
    <3>1. Before(s[b], s[r]) /\ s[r][1] \in Range(s[r]) /\ s[r][1].key = FirstKey(seg, q)
      BY <1>1, <1>14, <2>2
    <3>2. Less(key, FirstKey(seg, q))
      BY <1>15, <3>1 DEF Before
    <3>3. q # 0
      BY <1>11, <1>14, <2>2
    <3> QED BY <1>12, <3>2, <3>3
  <2>3. CASE r < b
    <3> DEFINE c == b - 1
    <3>1. c \in 0..(n - 1) /\ c > q
      BY <1>1, <1>11, <1>14, <2>3
    <3> HIDE DEF c
    <3>2. Less(key, FirstKey(seg, c)) /\ FirstKey(seg, c) \in Bytes
      BY <1>7, <1>13, <3>1
    <3>3. PICK i \in 1..Len(s[b]) : s[b][i] = e
      BY <2>1, RangeIs
    <3>4. i = 1 \/ (1 \in 1..Len(s[b]) /\ 1 < i)
      BY <2>1, <3>3
    <3>5. s[b][1].key = key \/ Less(s[b][1].key, key)
      BY <1>15, <2>1, <3>3, <3>4 DEF Up
    <3>6. s[b][1].key = FirstKey(seg, c)
      BY <2>1 DEF c
    <3> QED BY <3>2, <3>5, <3>6, LessOrder
  <2> QED BY <1>14, <2>2, <2>3
<1> QED BY <1>14, <1>15 DEF s, q, n, low, high

\* scanBlock stops at the entry, if the block has one.
LEMMA ScanIs ==
  ASSUME NEW seg, NEW r, NEW key \in Bytes, Decoded(seg, r) \in Seq(Held), Up(Decoded(seg, r))
  PROVE  /\ \A e \in Range(Decoded(seg, r)) : e.key = key => ScanBlock(seg, r, key) = e.value
         /\ (\A e \in Range(Decoded(seg, r)) : e.key # key) => ScanBlock(seg, r, key) = <<>>
<1> DEFINE E == Decoded(seg, r)
           hits == {i \in 1..Len(E) : E[i].key = key /\ \A j \in 1..(i - 1) : Less(E[j].key, key)}
<1>1. ScanBlock(seg, r, key) = IF hits = {} THEN <<>> ELSE E[Min(hits)].value
  BY DEF ScanBlock
<1>2. E \in Seq(Held) /\ Up(E) /\ Len(E) \in Nat
  OBVIOUS
<1> HIDE DEF E
<1>3. ASSUME NEW e \in Range(E), e.key = key PROVE ScanBlock(seg, r, key) = e.value
  <2>1. PICK i \in 1..Len(E) : E[i] = e
    BY <1>2, RangeIs
  <2>2. ASSUME NEW j \in 1..(i - 1) PROVE Less(E[j].key, key)
    <3>1. j \in 1..Len(E) /\ j < i
      BY <1>2
    <3> QED BY <1>2, <1>3, <2>1, <3>1 DEF Up
  <2>3. i \in hits
    BY <1>3, <2>1, <2>2
  <2>4. \A j \in hits : j = i
    <3> SUFFICES ASSUME NEW j \in hits PROVE j = i
      OBVIOUS
    <3>1. j \in 1..Len(E) /\ E[j].key = E[i].key
      BY <1>3, <2>1
    <3> HIDE DEF hits
    <3> QED BY <1>2, <3>1, UpOnce
  <2>5. hits = {i} /\ i \in Int
    BY <2>3, <2>4
  <2> HIDE DEF hits
  <2>6. Min({i}) = i
    BY <2>5 DEF Min
  <2> QED BY <1>1, <2>1, <2>5, <2>6
<1>4. ASSUME \A e \in Range(E) : e.key # key PROVE ScanBlock(seg, r, key) = <<>>
  <2>1. \A i \in 1..Len(E) : E[i] \in Range(E)
    BY <1>2, RangeIs
  <2>2. hits = {}
    BY <1>4, <2>1
  <2> QED BY <1>1, <2>2
<1> QED BY <1>3, <1>4 DEF E

LEMMA DiskGetIs ==
  ASSUME NEW seg, Sorted(seg), NEW key \in Bytes
  PROVE  /\ \A e \in Range(Contents(seg)) : e.key = key => DiskGet(seg, key) = e.value
         /\ (\A e \in Range(Contents(seg)) : e.key # key) => DiskGet(seg, key) = <<>>
<1> DEFINE n == Len(seg.blocks)
           s == BlockEntries(seg)
           low == IndexBlock(seg.index, key)
           q == BinarySearch0(seg, low, HighBlock(seg, low), key)
<1>1. /\ \A b \in 1..n : s[b] \in Seq(Held) /\ Up(s[b])
      /\ Range(Contents(seg)) = {e \in Held : \E b \in 1..n : e \in Range(s[b])}
  BY BlocksRise
<1>2. PICK r \in 1..n : /\ q = r - 1
                        /\ \A b \in 1..n : \A e \in Range(s[b]) : e.key = key => b = r
  BY BlockFound
<1>3. DiskGet(seg, key) = ScanBlock(seg, q, key)
  BY DEF DiskGet
<1>4. Decoded(seg, q) = s[r]
  <2>1. Decoded(seg, r - 1) = EntriesIn(seg.blocks[r], seg.data)
    BY DecodedIsEntries
  <2>2. s[r] = EntriesIn(seg.blocks[r], seg.data)
    BY DEF BlockEntries
  <2> QED BY <1>2, <2>1, <2>2
<1> HIDE DEF s, q, n
<1>5. /\ \A e \in Range(s[r]) : e.key = key => ScanBlock(seg, q, key) = e.value
      /\ (\A e \in Range(s[r]) : e.key # key) => ScanBlock(seg, q, key) = <<>>
  <2>1. Decoded(seg, q) \in Seq(Held) /\ Up(Decoded(seg, q))
    BY <1>1, <1>4
  <2>2. /\ \A e \in Range(Decoded(seg, q)) : e.key = key => ScanBlock(seg, q, key) = e.value
        /\ (\A e \in Range(Decoded(seg, q)) : e.key # key) => ScanBlock(seg, q, key) = <<>>
    BY <2>1, ScanIs
  <2> QED BY <1>4, <2>2
<1>6. ASSUME NEW e \in Range(Contents(seg)), e.key = key PROVE DiskGet(seg, key) = e.value
  <2>1. e \in Range(s[r])
    BY <1>1, <1>2, <1>6
  <2> QED BY <1>3, <1>5, <1>6, <2>1
<1>7. ASSUME \A e \in Range(Contents(seg)) : e.key # key PROVE DiskGet(seg, key) = <<>>
  <2>1. \A e \in Range(s[r]) : e \in Held /\ e.key # key
    <3>1. \A e \in Range(s[r]) : e \in Held
      BY <1>1, RangeIs
    <3> QED BY <1>1, <1>7, <3>1
  <2> QED BY <1>3, <1>5, <2>1
<1> QED BY <1>6, <1>7

LEMMA SegmentGetIs ==
  ASSUME NEW seg, NEW content, SegmentOK(seg, content), ~Unsearchable(seg), NEW key \in Key
  PROVE  SegmentGet(seg, key) = IF content[key] \in Value THEN content[key] ELSE <<>>
<1> DEFINE E == EntriesOf(seg)
<1>1. /\ E \in Seq(Held) /\ Up(E) /\ content \in S!Content
      /\ \A e \in Held : e \in Range(E) <=> content[e.key] = e.value
      /\ seg.kind \in {"memory", "disk"}
      /\ seg.kind = "memory" => E = seg.entries
      /\ seg.kind = "disk" => BlocksOK(seg) /\ E = Contents(seg)
  BY SegmentIs
<1> HIDE DEF E
<1>2. key \in Bytes /\ <<>> \notin Value /\ Absent \notin Value \cup {<<>>}
  BY KeysAreBytes
\* Of either kind of segment: the value of the entry with the key, if there is one.
<1>3. /\ \A e \in Range(E) : e.key = key => SegmentGet(seg, key) = e.value
      /\ (\A e \in Range(E) : e.key # key) => SegmentGet(seg, key) = <<>>
  <2>1. CASE seg.kind = "memory"
    <3> DEFINE hits == {e \in Range(E) : e.key = key}
    <3>1. SegmentGet(seg, key) = IF hits = {} THEN <<>> ELSE (CHOOSE e \in hits : TRUE).value
      <4>1. seg.kind # "disk" /\ E = seg.entries
        BY <1>1, <2>1
      <4>2. SegmentGet(seg, key) = IF {e \in Range(seg.entries) : e.key = key} = {} THEN <<>>
                                   ELSE (CHOOSE e \in {e \in Range(seg.entries) : e.key = key} : TRUE).value
        BY <4>1 DEF SegmentGet
      <4> QED BY <4>1, <4>2
    <3>2. \A d, e \in hits : d = e
      <4> SUFFICES ASSUME NEW d \in hits, NEW e \in hits PROVE d = e
        OBVIOUS
      <4>1. d \in Held /\ e \in Held /\ d.key = e.key
        BY <1>1, RangeIs
      <4>2. d.value = e.value
        BY <1>1, <4>1
      <4> QED BY <4>1, <4>2, HeldIs
    <3>3. ASSUME NEW e \in Range(E), e.key = key PROVE SegmentGet(seg, key) = e.value
      <4>1. e \in hits
        BY <3>3
      <4> HIDE DEF hits
      <4> QED BY <3>1, <3>2, <4>1
    <3>4. ASSUME \A e \in Range(E) : e.key # key PROVE SegmentGet(seg, key) = <<>>
      BY <3>1, <3>4
    <3> QED BY <3>3, <3>4
  <2>2. CASE seg.kind = "disk"
    <3>1. SegmentGet(seg, key) = DiskGet(seg, key)
      BY <2>2 DEF SegmentGet
    <3>2. Sorted(seg)
      BY <1>1, <2>2 DEF Sorted, Unsearchable, SearchFails
    <3> QED BY <1>1, <1>2, <2>2, <3>1, <3>2, DiskGetIs
  <2> QED BY <1>1, <2>1, <2>2
<1>4. CASE content[key] # Absent
  <2> DEFINE e == [key |-> key, value |-> content[key]]
  <2>1. e \in Held /\ e.key = key /\ e.value = content[key]
    BY <1>1, <1>4, ContentIs
  <2> HIDE DEF e
  <2>2. SegmentGet(seg, key) = content[key]
    BY <1>1, <1>3, <2>1
  <2>3. content[key] \in Value \cup {<<>>}
    BY <1>1, <1>4, ContentIs
  <2> QED BY <1>2, <2>2, <2>3
<1>5. CASE content[key] = Absent
  <2>1. ASSUME NEW e \in Range(E), e.key = key PROVE FALSE
    <3>1. e \in Held
      BY <1>1, RangeIs
    <3>2. content[key] = e.value
      BY <1>1, <2>1, <3>1
    <3> QED BY <1>5, <3>1, <3>2, HeldIs, KeysAreBytes
  <2> QED BY <1>2, <1>3, <1>5, <2>1
<1> QED BY <1>4, <1>5

\* A segment that cannot be searched has no block, or a key that no buffer holds.
LEMMA UnsearchableIs ==
  ASSUME NEW seg, NEW content, SegmentOK(seg, content), Unsearchable(seg)
  PROVE  /\ seg.kind = "disk"
         /\ seg.blocks = <<>> \/ \E e \in Range(EntriesOf(seg)) : Len(e.key) > maxKeySize
<1>1. seg.kind = "disk" /\ SearchFails(seg)
  BY DEF Unsearchable
<1>2. BlocksOK(seg) /\ Up(Contents(seg)) /\ EntriesOf(seg) = Contents(seg)
  BY <1>1, SegmentIs
<1>3. SUFFICES ASSUME seg.blocks # <<>> PROVE \E e \in Range(Contents(seg)) : Len(e.key) > maxKeySize
  BY <1>1, <1>2
<1>4. PICK c \in 0..(Len(seg.blocks) - 1) : \E e \in Range(Decoded(seg, c)) : TooLongToRead(e.key)
  BY <1>1, <1>3 DEF SearchFails, KeyTooLong
<1>5. PICK e \in Range(Decoded(seg, c)) : TooLongToRead(e.key)
  BY <1>4
<1> DEFINE n == Len(seg.blocks)
           s == BlockEntries(seg)
           b == c + 1
<1>6. Sorted(seg)
  BY <1>2, <1>3 DEF Sorted
<1>7. /\ n \in Nat /\ \A i \in 1..n : s[i] \in Seq(Held)
      /\ Range(Contents(seg)) = {x \in Held : \E i \in 1..n : x \in Range(s[i])}
  BY <1>6, BlocksRise
<1> HIDE DEF n
<1>8. b \in 1..n /\ b - 1 = c
  BY <1>7 DEF n
<1> HIDE DEF b
<1>9. Decoded(seg, c) = s[b]
  <2>1. Decoded(seg, b - 1) = EntriesIn(seg.blocks[b], seg.data)
    <3>1. b \in Int
      BY <1>7, <1>8
    <3> QED BY <3>1, DecodedIsEntries
  <2>2. s[b] = EntriesIn(seg.blocks[b], seg.data)
    BY <1>8 DEF BlockEntries, n
  <2> QED BY <1>8, <2>1, <2>2
<1> HIDE DEF s
<1>10. e \in Range(s[b]) /\ e \in Held
  BY <1>5, <1>7, <1>8, <1>9, RangeIs
<1>11. e \in Range(Contents(seg))
  BY <1>7, <1>8, <1>10
<1> QED BY <1>5, <1>11 DEF TooLongToRead

LEMMA GetHolds ==
  ASSUME IInv, NEW key \in Key, Get(key)
  PROVE  IInv'
<1> DEFINE n == Len(layers)
           blind == {i \in DOMAIN segments : Unsearchable(segments[i])}
           hits == {i \in DOMAIN segments \ blind : SegmentGet(segments[i], key) # <<>>}
           hit == IF hits = {} THEN 0 ELSE Max(hits)
<1>1. /\ pc = "idle" /\ pc' = IF \E i \in blind : i > hit THEN "dead" ELSE "idle"
      /\ answer' = IF hits = {} THEN <<>> ELSE SegmentGet(segments[hit], key)
      /\ call' = [NoCall EXCEPT !.name = "get", !.lower = key]
      /\ UNCHANGED <<segments, layers, iterators, current, kv>>
  BY DEF Get
<1>2. call'.name = "get" /\ call'.lower = key /\ call'.upper = <<>> /\ pc' \in {"idle", "dead"}
  BY <1>1 DEF NoCall
<1>3. /\ segments \in Seq(Segment) /\ layers \in Seq(S!Content) /\ Len(segments) = n /\ n \in Nat
      /\ DOMAIN segments = 1..n
      /\ \A i \in 1..n : SegmentOK(segments[i], layers[i])
  BY DEF IInv, StackOK
<1>4. key \in Bytes /\ <<>> \in Bytes /\ <<>> \notin Value
  BY KeysAreBytes, LessEmpty
<1>5. StackOK' /\ CallOK' /\ IteratorsOK' /\ TakenOK' /\ DueOK' /\ CollectedOK'
  <2>1. StackOK'
    BY <1>1 DEF IInv, StackOK
  <2>2. CallOK'
    BY <1>2, <1>4 DEF CallOK
  <2>3. IteratorsOK' /\ DueOK'
    BY <1>2 DEF IteratorsOK, DueOK, Running, Taken
  <2>4. TakenOK'
    BY <1>1, <1>2 DEF IInv, TakenOK
  <2>5. CollectedOK'
    BY <1>2 DEF CollectedOK
  <2> QED BY <2>1, <2>2, <2>3, <2>4, <2>5
<1> HIDE DEF n
<1>6. FailsOnlyOnLongKeysAndEmptyFiles'
  <2> SUFFICES ASSUME pc' = "dead" PROVE FailsOnlyOnLongKeysAndEmptyFiles'
    BY DEF FailsOnlyOnLongKeysAndEmptyFiles
  <2>1. PICK i \in blind : i > hit
    BY <1>1
  <2>2. i \in 1..n /\ Unsearchable(segments[i]) /\ SegmentOK(segments[i], layers[i])
    BY <1>3, <2>1
  <2>3. /\ segments[i].kind = "disk"
        /\ segments[i].blocks = <<>> \/ \E e \in Range(EntriesOf(segments[i])) : Len(e.key) > maxKeySize
    BY <2>2, UnsearchableIs
  <2>4. i \in DiskSegments /\ UNCHANGED DiskSegments
    BY <1>1, <1>3, <2>2, <2>3 DEF DiskSegments
  <2> QED BY <1>1, <1>2, <2>3, <2>4 DEF FailsOnlyOnLongKeysAndEmptyFiles
<1>7. GetsAnswer'
  <2> SUFFICES ASSUME pc' = "idle" PROVE answer' = S!MultiGet(layers, key)
    BY <1>1, <1>2 DEF GetsAnswer
  <2> DEFINE found == {i \in 1..Len(layers) : layers[i][key] \in Value}
  <2>1. S!MultiGet(layers, key) = IF found = {} THEN <<>> ELSE layers[S!MaxOf(found)][key]
    BY DEF S!MultiGet
  <2>2. \A i \in blind : ~(i > hit)
    BY <1>1
  <2>3. ASSUME NEW i \in 1..n, i \notin blind
        PROVE  /\ SegmentGet(segments[i], key) = IF layers[i][key] \in Value THEN layers[i][key] ELSE <<>>
               /\ i \in hits <=> i \in found
    <3>1. ~Unsearchable(segments[i]) /\ SegmentOK(segments[i], layers[i])
      BY <1>3, <2>3
    <3>2. SegmentGet(segments[i], key) = IF layers[i][key] \in Value THEN layers[i][key] ELSE <<>>
      BY <3>1, SegmentGetIs
    <3> QED BY <1>3, <1>4, <2>3, <3>2 DEF n
  <2>4. hits \in SUBSET (0..n) /\ found \in SUBSET (1..n) /\ \A i \in hits : i \in 1..n /\ i \notin blind
    BY <1>3 DEF n
  <2>5. CASE hits = {}
    <3>1. \A i \in 1..n : i \notin blind
      <4>1. hit = 0
        BY <2>5
      <4> HIDE DEF blind, hit
      <4> QED BY <1>3, <2>2, <4>1
    <3>2. found = {}
      <4> HIDE DEF hits, blind, found
      <4> QED BY <2>3, <2>4, <2>5, <3>1
    <3> QED BY <1>1, <2>1, <2>5, <3>2
  <2>6. CASE hits # {}
    <3>1. hit = Max(hits)
      BY <2>6
    <3> HIDE DEF hits, hit, blind, found
    <3>2. hit \in hits /\ \A i \in hits : i <= hit
      BY <1>3, <2>4, <2>6, <3>1, Greatest
    <3>3. hit \in found /\ hit \in 1..n
      BY <2>3, <2>4, <3>2
    <3>4. ASSUME NEW j \in found PROVE j <= hit
      <4>1. j \in 1..n
        BY <2>4
      <4>2. CASE j \in blind
        BY <1>3, <2>2, <3>3, <4>1, <4>2
      <4>3. CASE j \notin blind
        BY <2>3, <3>2, <4>1, <4>3
      <4> QED BY <4>2, <4>3
    <3>5. S!MaxOf(found) = hit
      <4>1. \A i \in found : i \in Nat
        BY <2>4
      <4>2. \A i \in found : (\A j \in found : j <= i) => i = hit
        BY <3>3, <3>4, <4>1
      <4> QED BY <3>3, <3>4, <4>2 DEF S!MaxOf
    <3>6. SegmentGet(segments[hit], key) = layers[hit][key]
      <4>1. hit \notin blind
        BY <2>4, <3>2
      <4>2. layers[hit][key] \in Value
        BY <3>3 DEF found
      <4> QED BY <2>3, <3>3, <4>1, <4>2
    <3> QED BY <1>1, <2>1, <2>6, <3>3, <3>5, <3>6 DEF hit
  <2> QED BY <2>5, <2>6
<1> QED BY <1>5, <1>6, <1>7 DEF IInv

LEMMA StepHolds ==
  ASSUME IInv, [Next]_vars
  PROVE  IInv'
<1>1. DOMAIN segments = 1..Len(segments) /\ Len(segments) \in Nat
  BY DEF IInv, StackOK
<1>2. ASSUME NEW lower \in Bound, NEW upper \in Bound, BeginLookup(lower, upper) PROVE IInv'
  <2>1. lower \in Bytes /\ upper \in Bytes
    BY KeysAreBytes
  <2>2. Begin("lookup", 1, Len(segments), lower, upper)
    BY <1>2 DEF BeginLookup
  <2> QED BY <2>1, <2>2, BeginHolds
<1>3. ASSUME NEW first \in DOMAIN segments, NEW last \in DOMAIN segments, BeginMerge(first, last) PROVE IInv'
  <2>1. first \in 1..Len(segments) /\ last \in first..Len(segments)
    BY <1>1, <1>3 DEF BeginMerge
  <2>2. Begin("write", first, last, <<>>, <<>>) /\ <<>> \in Bytes
    BY <1>3, LessEmpty, KeysAreBytes DEF BeginMerge
  <2> QED BY <2>1, <2>2, BeginHolds
<1>4. ASSUME NEW i \in DOMAIN segments, BeginFlush(i) PROVE IInv'
  <2>1. i \in 1..Len(segments) /\ i \in i..Len(segments)
    BY <1>1, <1>4
  <2>2. Begin("write", i, i, <<>>, <<>>) /\ <<>> \in Bytes
    BY <1>4, LessEmpty, KeysAreBytes DEF BeginFlush
  <2> QED BY <2>1, <2>2, BeginHolds
<1>5. ASSUME NEW key \in Key, Get(key) PROVE IInv'
  BY <1>5, GetHolds
<1>6. CASE TakeLowest \/ Skip \/ DecodeThrows
  BY <1>6, TakeHolds, SkipHolds, ThrowHolds
<1>7. CASE Yield \/ Write \/ Return
  BY <1>7, YieldHolds, WriteHolds, ReturnHolds
<1>8. CASE UNCHANGED vars
  <2>1. /\ UNCHANGED <<segments, layers, pc, call, iterators, current, kv, handed, file, answer>>
        /\ UNCHANGED Slice /\ UNCHANGED DoneKeys
    BY <1>8 DEF vars, Slice, DoneKeys, Taken
  <2>2. StackOK' /\ CallOK' /\ IteratorsOK'
    BY <2>1 DEF IInv, StackOK, CallOK, IteratorsOK, Running
  <2>3. TakenOK' /\ DueOK' /\ CollectedOK'
    BY <2>1 DEF IInv, TakenOK, DueOK, CollectedOK, Running, Taken, Sane
  <2>4. GetsAnswer' /\ FailsOnlyOnLongKeysAndEmptyFiles'
    BY <2>1 DEF IInv, GetsAnswer, FailsOnlyOnLongKeysAndEmptyFiles, DiskSegments
  <2> QED BY <2>2, <2>3, <2>4 DEF IInv
<1> QED BY <1>2, <1>3, <1>4, <1>5, <1>6, <1>7, <1>8 DEF Next

\* The invariant is inductive: every call keeps the segments what they should be, and
\* an iteration has handed over or written the newest entries up to where it stands
\* (SegmentFiles' Next: MultiSegment::Iterator, writeSegmentFiles, MultiSegment::get).
THEOREM FilesInvariance == Spec => []IInv
<1>1. Init => IInv
  BY InitHolds
<1>2. IInv /\ [Next]_vars => IInv'
  BY StepHolds
<1> QED BY <1>1, <1>2, PTL DEF Spec

-----------------------------------------------------------------------------
\* What follows from it.

LEMMA InvariantSaysBlocksFit ==
  ASSUME IInv
  PROVE  BlocksFit /\ IndexIsReloaded
<1>1. SUFFICES ASSUME NEW i \in DiskSegments
               PROVE  /\ segments[i].index = LoadKeyIndex(segments[i])
                      /\ \A b \in DOMAIN segments[i].blocks :
                           /\ segments[i].blocks[b][1].prefix = 0
                           /\ ItemSum(segments[i].blocks[b]) + 2 <= keyBlockSize
  BY DEF BlocksFit, IndexIsReloaded, ItemSum
<1> DEFINE seg == segments[i]
<1>2. SegmentOK(seg, layers[i]) /\ seg.kind = "disk"
  BY <1>1 DEF IInv, StackOK, DiskSegments
<1> HIDE DEF seg
<1>3. BlocksOK(seg)
  BY <1>2, SegmentIs
<1>4. seg.index = LoadKeyIndex(seg)
  BY <1>3, IndexIs DEF BlocksOK
<1>5. DOMAIN seg.blocks = 1..Len(seg.blocks)
  BY <1>3 DEF BlocksOK
<1>6. \A b \in 1..Len(seg.blocks) : seg.blocks[b][1].prefix = 0 /\ ItemSum(seg.blocks[b]) + 2 <= keyBlockSize
  BY <1>3 DEF BlocksOK, ItemsOK
<1> QED BY <1>4, <1>5, <1>6 DEF seg

LEMMA InvariantSaysMerged ==
  ASSUME IInv
  PROVE  FilesHoldTheMerge
<1> SUFFICES ASSUME NEW i \in DOMAIN segments
             PROVE  /\ ContentOf(segments[i]) = layers[i]
                    /\ \A j \in 1..(Len(EntriesOf(segments[i])) - 1) :
                         Less(EntriesOf(segments[i])[j].key, EntriesOf(segments[i])[j + 1].key)
  BY DEF FilesHoldTheMerge
<1>1. SegmentOK(segments[i], layers[i])
  BY DEF IInv, StackOK
<1>2. ContentOf(segments[i]) = layers[i]
  BY <1>1, SegmentContent
<1> DEFINE E == EntriesOf(segments[i])
<1>3. E \in Seq(Held) /\ Up(E)
  BY <1>1, SegmentIs
<1> HIDE DEF E
<1>4. \A j \in 1..(Len(E) - 1) : Less(E[j].key, E[j + 1].key)
  <2> SUFFICES ASSUME NEW j \in 1..(Len(E) - 1) PROVE Less(E[j].key, E[j + 1].key)
    OBVIOUS
  <2>1. j \in 1..Len(E) /\ j + 1 \in 1..Len(E) /\ j < j + 1 /\ Len(E) \in Nat
    BY <1>3
  <2> QED BY <1>3, <2>1 DEF Up
<1> QED BY <1>2, <1>4 DEF E

\* The newest entry of a key is its value in the map, or a removal, which has none.
LEMMA NewestShows ==
  ASSUME NEW L \in Seq(S!Content), NEW k \in Key
  PROVE  /\ \A e \in Held : NewestEntry(L, e) /\ e.key = k => S!View(L)[k] = e.value
         /\ S!View(L)[k] # <<>> => /\ [key |-> k, value |-> S!View(L)[k]] \in Held
                                   /\ NewestEntry(L, [key |-> k, value |-> S!View(L)[k]])
<1>1. S!View(L)[k] = S!Live(S!Newest(L, k))
  BY DEF S!View
<1>2. ASSUME NEW e \in Held, NewestEntry(L, e), e.key = k PROVE S!View(L)[k] = e.value
  <2>1. S!Newest(L, k) = e.value /\ e.value \in Value \cup {<<>>}
    BY <1>2, NewestIs, HeldIs
  <2> QED BY <1>1, <2>1 DEF S!Live
<1>3. ASSUME S!View(L)[k] # <<>>
      PROVE  /\ [key |-> k, value |-> S!View(L)[k]] \in Held
             /\ NewestEntry(L, [key |-> k, value |-> S!View(L)[k]])
  <2>1. S!Newest(L, k) \in Value /\ S!View(L)[k] = S!Newest(L, k)
    BY <1>1, <1>3 DEF S!Live
  <2> DEFINE e == [key |-> k, value |-> S!View(L)[k]]
  <2>2. e \in Held /\ e.key = k /\ e.value = S!Newest(L, k)
    BY <2>1 DEF Held
  <2> HIDE DEF e
  <2>3. NewestEntry(L, e)
    BY <2>2, NewestIs
  <2> QED BY <2>2, <2>3 DEF e
<1> QED BY <1>2, <1>3

LEMMA InvariantSaysShown ==
  ASSUME IInv
  PROVE  LookupsShowTheMap
<1> SUFFICES ASSUME call.name = "lookup", ~Beyond(call.lower, call.upper)
             PROVE  /\ \A i \in DOMAIN handed :
                         /\ handed[i].key \in Key /\ InRange(handed[i].key)
                         /\ handed[i].value = S!View(layers)[handed[i].key]
                         /\ \A j \in 1..(i - 1) : Less(handed[j].key, handed[i].key)
                    /\ \A k \in Key : InRange(k) /\ S!View(layers)[k] # <<>> /\ PassedBy(k) => HandedOut(k)
  BY DEF LookupsShowTheMap
<1>1. layers \in Seq(S!Content) /\ Len(segments) = Len(layers) /\ call.first = 1 /\ call.last = Len(layers)
  BY DEF IInv, StackOK, CallOK
<1>2. Slice = layers
  <2>1. SubSeq(layers, 1, Len(layers)) = layers
    BY <1>1
  <2> QED BY <1>1, <2>1 DEF Slice
<1>3. Partial(handed, layers, call)
  <2>1. CASE pc = "dead"
    BY <1>2, <2>1 DEF IInv, CollectedOK, Sane
  <2>2. CASE pc # "dead"
    <3>1. Collected(handed, layers, call, DoneKeys)
      BY <1>2, <2>2 DEF IInv, CollectedOK, Sane
    <3>2. kv.key \in Bytes /\ \A x \in Key : x \in Bytes
      BY HeldIs, LessEmpty, KeysAreBytes DEF IInv, TakenOK, NoEntry
    <3>3. DoneKeys \in {UpTo(kv.key), Below(kv.key), Key}
      BY DEF DoneKeys
    <3>4. \A x, y \in Key : Less(x, y) /\ y \in DoneKeys => x \in DoneKeys
      <4> SUFFICES ASSUME NEW x \in Key, NEW y \in Key, Less(x, y), y \in DoneKeys PROVE x \in DoneKeys
        OBVIOUS
      <4>1. ~Less(kv.key, y) => ~Less(kv.key, x)
        BY <3>2, LessOrder
      <4>2. Less(y, kv.key) => Less(x, kv.key)
        BY <3>2, LessOrder
      <4> QED BY <3>3, <4>1, <4>2 DEF UpTo, Below
    <3> QED BY <3>1, <3>4, CollectedIsPartial
  <2> QED BY <2>1, <2>2
<1>4. /\ Len(handed) \in Nat /\ DOMAIN handed = 1..Len(handed) /\ handed \in Seq(Held)
      /\ \A i \in 1..Len(handed) : handed[i] \in Held /\ handed[i] \in Range(handed)
      /\ \A e \in Range(handed) : \E i \in 1..Len(handed) : handed[i] = e
  <2>1. handed \in Seq(Held)
    BY <1>3 DEF Partial
  <2> QED BY <2>1, RangeIs
<1>5. ASSUME NEW i \in 1..Len(handed)
      PROVE  /\ handed[i].key \in Key /\ InRange(handed[i].key)
             /\ handed[i].value = S!View(layers)[handed[i].key]
             /\ \A j \in 1..(i - 1) : Less(handed[j].key, handed[i].key)
  <2>1. handed[i] \in Held /\ handed[i].key \in Key /\ Wants(layers, call, handed[i])
    BY <1>3, <1>4, HeldIs DEF Partial
  <2>2. handed[i].value = S!View(layers)[handed[i].key]
    BY <1>1, <2>1, NewestShows DEF Wants
  <2>3. \A j \in 1..(i - 1) : Less(handed[j].key, handed[i].key)
    BY <1>3, <1>4 DEF Partial, Up
  <2> QED BY <2>1, <2>2, <2>3 DEF Wants, InRange
<1>6. ASSUME NEW k \in Key, InRange(k), S!View(layers)[k] # <<>>, PassedBy(k) PROVE HandedOut(k)
  <2> DEFINE e == [key |-> k, value |-> S!View(layers)[k]]
  <2>1. e \in Held /\ e.key = k /\ NewestEntry(layers, e)
    BY <1>1, <1>6, NewestShows
  <2> HIDE DEF e
  <2>2. Wants(layers, call, e)
    BY <1>6, <2>1 DEF Wants, InRange
  <2>3. e \in Range(handed)
    <3>1. CASE pc = "idle"
      <4>1. Collected(handed, layers, call, Key)
        BY <1>2, <3>1 DEF IInv, CollectedOK, DoneKeys, Taken, Sane
      <4> QED BY <2>1, <2>2, <4>1 DEF Collected
    <3>2. CASE \E i \in DOMAIN handed : Less(k, handed[i].key)
      <4>1. PICK x \in Range(handed) : Less(e.key, x.key)
        BY <1>4, <2>1, <3>2
      <4> QED BY <1>3, <2>1, <2>2, <4>1 DEF Partial
    <3> QED BY <1>6, <3>1, <3>2 DEF PassedBy
  <2> QED BY <1>4, <2>1, <2>3 DEF HandedOut
<1> QED BY <1>4, <1>5, <1>6

\* Iteration: a lookup hands out the keys of its range in ascending order, each once
\* and with the value the map has, and leaves out none that has a value
\* (MultiSegment::Iterator::next, SkipListIterator, DiskSegment::Iterator).
THEOREM LookupsShow == Spec => []LookupsShowTheMap
<1>1. IInv => LookupsShowTheMap
  BY InvariantSaysShown
<1> QED BY <1>1, FilesInvariance, PTL

\* Merges and flushes: what a key file and its data file decode to is, in ascending
\* order, what the merged segments hold (writeSegmentFiles, calculatePrefixLen).
THEOREM FilesHold == Spec => []FilesHoldTheMerge
<1>1. IInv => FilesHoldTheMerge
  BY InvariantSaysMerged
<1> QED BY <1>1, FilesInvariance, PTL

\* Blocks: none runs over its size, end mark included, and each begins with a key
\* that is written in full (writeSegmentFiles).
THEOREM BlocksHaveRoom == Spec => []BlocksFit
<1>1. IInv => BlocksFit
  BY InvariantSaysBlocksFit
<1> QED BY <1>1, FilesInvariance, PTL

\* The index: what the writer keeps in memory is what a later session loads from the
\* file (writeSegmentFiles, loadKeyIndex).
THEOREM IndexReloaded == Spec => []IndexIsReloaded
<1>1. IInv => IndexIsReloaded
  BY InvariantSaysBlocksFit
<1> QED BY <1>1, FilesInvariance, PTL

\* Gets: index, binary search and scan find what the newest segment with an answer
\* says (MultiSegment::get, DiskSegment::get).
THEOREM GetsFind == Spec => []GetsAnswer
<1>1. IInv => GetsAnswer
  BY DEF IInv
<1> QED BY <1>1, FilesInvariance, PTL

\* Failures: a call fails only at a key longer than maxKeySize, or at a get on a key
\* file of length zero (decodeKeyLen, MemoryMappedFile::readAt).
THEOREM FailuresHaveReasons == Spec => []FailsOnlyOnLongKeysAndEmptyFiles
<1>1. IInv => FailsOnlyOnLongKeysAndEmptyFiles
  BY DEF IInv
<1> QED BY <1>1, FilesInvariance, PTL
=============================================================================
