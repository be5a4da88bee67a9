------------------------------- MODULE KVStore -------------------------------
(***************************************************************************)
(* What a database promises its callers: a map from keys to values that    *)
(* changes only by what the callers ask for, and read-only snapshots that  *)
(* keep the map they were taken of (include/database.h).  A key without a  *)
(* value maps to Empty.  A request is a put, a remove or a batch; its      *)
(* entries take effect in order, one requester at a time, and a snapshot   *)
(* is never taken in the middle of one.                                    *)
(*                                                                         *)
(* There are no segments here: swapping the memory segment, merging, and   *)
(* closing do not exist at this level, so an implementation shows none of  *)
(* them.                                                                   *)
(***************************************************************************)
EXTENDS Sequences

CONSTANTS Key, Value, Empty, Batches, Writer, Snap, Null

VARIABLES map, requests, snapshots

vars == <<map, requests, snapshots>>

Quiet == \A w \in Writer : requests[w] = <<>>

Removal(k) == <<(<<k, Empty>>)>>

Init ==
  /\ map \in [Key -> Value \cup {Empty}]
  /\ requests = [w \in Writer |-> <<>>]
  /\ snapshots = [s \in Snap |-> Null]

Request(w, b) ==
  /\ Quiet
  /\ requests' = [requests EXCEPT ![w] = b]
  /\ UNCHANGED <<map, snapshots>>

\* The next entry of a request takes effect.
Apply(w) ==
  /\ requests[w] # <<>>
  /\ map' = [map EXCEPT ![Head(requests[w])[1]] = Head(requests[w])[2]]
  /\ requests' = [requests EXCEPT ![w] = Tail(@)]
  /\ UNCHANGED snapshots

TakeSnapshot(s) ==
  /\ Quiet
  /\ snapshots[s] = Null
  /\ snapshots' = [snapshots EXCEPT ![s] = map]
  /\ UNCHANGED <<map, requests>>

ReleaseSnapshot(s) ==
  /\ snapshots' = [snapshots EXCEPT ![s] = Null]
  /\ UNCHANGED <<map, requests>>

Next ==
  \/ \E w \in Writer : \/ \E b \in Batches : Request(w, b)
                       \/ \E k \in Key : Request(w, Removal(k))
                       \/ Apply(w)
  \/ \E s \in Snap : TakeSnapshot(s) \/ ReleaseSnapshot(s)

Spec == Init /\ [][Next]_vars
=============================================================================
