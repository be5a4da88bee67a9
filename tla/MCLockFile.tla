----------------------------- MODULE MCLockFile -----------------------------
(* Instances of LockFile for TLC.  Processes and handles are alike.         *)
EXTENDS LockFile, TLC

Symmetry == Permutations(Process) \cup Permutations(Handle)
=============================================================================
