--------------------------- MODULE MCSegmentFiles ---------------------------
(***************************************************************************)
(* SegmentFiles for TLC: single memory segments with keys of all kinds,    *)
(* and stacks of up to three with a few keys that hide each other.         *)
(***************************************************************************)
EXTENDS SegmentFiles

LongKey == <<2, 2, 2, 2, 2>>
MCKey == {<<1>>, <<1, 1>>, <<1, 1, 1>>, <<1, 1, 1, 1>>, <<1, 1, 1, 3>>,
          <<1, 1, 2>>, <<1, 2, 2>>, <<2>>, LongKey}
MCValue == {<<7>>, <<8, 8>>, <<9>>}
MCBound == {<<>>, <<1, 1, 1>>, <<1, 2>>, <<2>>}

Holding(f) == [k \in MCKey |-> IF k \in DOMAIN f THEN f[k] ELSE Absent]

\* One segment: any set of keys, values of different lengths, one key removed.
ValueIn(k) == IF k = <<1, 1, 1>> THEN <<>> ELSE IF Len(k) = 2 THEN <<8, 8>> ELSE <<7>>
Singles == {<<Holding([k \in keys |-> ValueIn(k)])>> : keys \in SUBSET MCKey}

\* Several: each key put, removed or not there.
Layer(keys, v) == {Holding(f) : f \in [keys -> {v, <<>>, Absent}]}
Twos   == Layer({<<1>>, <<1, 1, 1>>, <<2>>}, <<7>>) \X Layer({<<1>>, <<1, 1, 1>>, <<2>>}, <<8, 8>>)
Threes == Layer({<<1>>, <<2>>}, <<7>>) \X Layer({<<1>>, <<2>>}, <<8, 8>>) \X Layer({<<1>>}, <<9>>)

MCStacks == Singles \cup Twos \cup Threes
=============================================================================
