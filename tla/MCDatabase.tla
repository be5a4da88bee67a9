----------------------------- MODULE MCDatabase -----------------------------
(* Values of the constants of Database for TLC.                            *)
EXTENDS Database

CONSTANTS k1, k2, v1, v2

Layer(a, b) == [k \in Key |-> IF k = k1 THEN a ELSE b]

\* put of one entry.
Puts == {<<(<<k, v>>)>> : k \in Key, v \in Value}

\* write of two keys at once, to the value that no key has at the start.
Pairs == {<<(<<k1, v2>>), (<<k2, v2>>)>>}

OneLayer == {<<Layer(v1, Absent)>>}
PairLayer == {<<Layer(v1, v1)>>}

\* The second of them removes k1.
ThreeLayers == {<<Layer(v1, v1), Layer(Empty, Absent), Layer(Absent, v1)>>}

NoCloseCounts == {}
Counts1 == {1}
Counts012 == {0, 1, 2}
=============================================================================
