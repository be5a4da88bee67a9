------------------------------ MODULE TaskSet ------------------------------
(***************************************************************************)
(* What a close needs of the thread pool, and what Database takes it for:  *)
(* tasks it hands over are carried out, in any order, each once, and the   *)
(* close does not return before its tasks have been.                       *)
(***************************************************************************)
CONSTANT Task

VARIABLES pending, finished, closing

vars == <<pending, finished, closing>>

Init == pending = {} /\ finished = {} /\ closing = FALSE

CloseBegins ==
  /\ ~closing /\ closing' = TRUE
  /\ UNCHANGED <<pending, finished>>

Submit(t) ==
  /\ closing /\ t \notin pending \cup finished
  /\ pending' = pending \cup {t}
  /\ UNCHANGED <<finished, closing>>

Finish(t) ==
  /\ t \in pending
  /\ pending' = pending \ {t} /\ finished' = finished \cup {t}
  /\ UNCHANGED closing

CloseReturns ==
  /\ closing /\ pending = {}
  /\ closing' = FALSE
  /\ UNCHANGED <<pending, finished>>

Next == CloseBegins \/ (\E t \in Task : Submit(t) \/ Finish(t)) \/ CloseReturns

Spec == Init /\ [][Next]_vars /\ \A t \in Task : WF_vars(Finish(t))
=============================================================================
