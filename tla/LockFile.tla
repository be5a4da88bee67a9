------------------------------ MODULE LockFile ------------------------------
(***************************************************************************)
(* The lock on the directory of a database.  LockFile takes it with flock; *)
(* the kernel gives it back when the descriptor it was taken with is       *)
(* closed, or when the process ends.  openImpl locks a LockFile that lives *)
(* on its stack and copies it into the Database, so that two objects hold  *)
(* the same descriptor number and each closes it.  Numbers are given out   *)
(* again, the lowest first: a log that is created later can get one.       *)
(*                                                                         *)
(* A handle is a Database object of a process.  All are opened with the    *)
(* same path.  Descriptors and locks of the kernel are external.           *)
(***************************************************************************)
EXTENDS Integers, FiniteSets

CONSTANTS
  Process,
  Handle,      \* the Database objects of one process
  MaxFd,       \* bound on the descriptors of a process
  TheLockFile, \* the file "lockfile" of the directory
  None

ASSUME LockFileAssumption ==
  /\ MaxFd \in Nat \ {0}
  /\ None \notin (1..MaxFd) \cup (Process \X (1..MaxFd))
  /\ {None, TheLockFile} \cap (Process \X Handle) = {}

Database == Process \X Handle
Fd == 1..MaxFd

VARIABLES
  pc,        \* of each Database: "none", "opening", "removing", "unlinked", "open",
             \* "closed"
  fd,        \* LockFile::fd, of the one on the stack and then of the copy
  locked,    \* LockFile::locked
  log,       \* the descriptor of its log, or None
  table,     \* what each descriptor of a process is open on
  flock      \* the descriptor that holds the lock, or None

vars == <<pc, fd, locked, log, table, flock>>

Init ==
  /\ pc = [d \in Database |-> "none"]
  /\ fd = [d \in Database |-> -1]
  /\ locked = [d \in Database |-> FALSE]
  /\ log = [d \in Database |-> None]
  /\ table = [p \in Process |-> [n \in Fd |-> None]]
  /\ flock = None

-----------------------------------------------------------------------------
\* open(2), close(2) and flock(2).

FreeFds(p) == {n \in Fd : table[p][n] = None}
NewFd(p) == CHOOSE n \in FreeFds(p) : \A m \in FreeFds(p) : n <= m

OpenFile(p, what) ==
  /\ FreeFds(p) # {}
  /\ table' = [table EXCEPT ![p][NewFd(p)] = what]

\* Closing a number that is not open changes nothing.
CloseFile(p, n) ==
  /\ table' = [table EXCEPT ![p][n] = None]
  /\ flock' = IF flock = <<p, n>> THEN None ELSE flock

-----------------------------------------------------------------------------
\* One open or remove at a time in a process: they hold global_lock.
GlobalLockFree(p) ==
  \A d \in Database : d[1] = p => pc[d] \notin {"opening", "removing", "unlinked"}

FlockIgnored(p) == TRUE
FlockSucceeds(p) == flock = None

\* openImpl or remove: tryLock succeeds.
TryLock(d, for) ==
  LET p == d[1]
  IN  /\ pc[d] = "none" /\ GlobalLockFree(p)
      /\ FlockSucceeds(p)
      /\ OpenFile(p, TheLockFile)
      /\ flock' = <<p, NewFd(p)>>
      /\ pc' = [pc EXCEPT ![d] = for]
      /\ fd' = [fd EXCEPT ![d] = NewFd(p)]
      /\ locked' = [locked EXCEPT ![d] = TRUE]
      /\ UNCHANGED log

\* What tryLock leaves open when the lock is taken; then DatabaseInUse.
LeftOpen(p) == OpenFile(p, TheLockFile)
LeftClosed(p) == FreeFds(p) # {} /\ UNCHANGED table

TryLockFails(d) ==
  /\ pc[d] = "none" /\ GlobalLockFree(d[1])
  /\ ~FlockSucceeds(d[1])
  /\ LeftClosed(d[1])
  /\ UNCHANGED <<pc, fd, locked, log, flock>>

\* The end of openImpl: the Database has its copy, the original is destroyed.
OpenReturns(d) ==
  /\ pc[d] = "opening"
  /\ CloseFile(d[1], fd[d])
  /\ pc' = [pc EXCEPT ![d] = "open"]
  /\ UNCHANGED <<fd, locked, log>>

\* remove: one of the files it removes is the lock file itself.  The next open
\* creates another one, which nobody has locked.
Unlink(d) ==
  /\ pc[d] = "removing"
  /\ pc' = [pc EXCEPT ![d] = "unlinked"]
  /\ flock' = None
  /\ UNCHANGED <<fd, locked, log, table>>

\* An exception leaves openImpl or remove, or remove ends: the LockFile on the
\* stack is destroyed.  A Database that openImpl allocated is never deleted.
LockFileDestroyed(d) ==
  /\ pc[d] \in {"opening", "removing", "unlinked"}
  /\ CloseFile(d[1], fd[d])
  /\ pc' = [pc EXCEPT ![d] = "none"]
  /\ fd' = [fd EXCEPT ![d] = -1]
  /\ locked' = [locked EXCEPT ![d] = FALSE]
  /\ UNCHANGED log

\* The first put creates the log of the memory segment.
CreateLog(d) ==
  /\ pc[d] = "open" /\ log[d] = None
  /\ OpenFile(d[1], d)
  /\ log' = [log EXCEPT ![d] = NewFd(d[1])]
  /\ UNCHANGED <<pc, fd, locked, flock>>

\* closeWithMerge: the memory segment is on disk and its log is deleted.
Close(d) ==
  /\ pc[d] = "open"
  /\ IF log[d] # None THEN CloseFile(d[1], log[d]) ELSE UNCHANGED <<table, flock>>
  /\ log' = [log EXCEPT ![d] = None]
  /\ pc' = [pc EXCEPT ![d] = "closed"]
  /\ UNCHANGED <<fd, locked>>

\* The last reference to the Database goes, and its LockFile with it.
Destroy(d) ==
  /\ pc[d] = "closed"
  /\ IF locked[d] THEN CloseFile(d[1], fd[d]) ELSE UNCHANGED <<table, flock>>
  /\ pc' = [pc EXCEPT ![d] = "none"]
  /\ fd' = [fd EXCEPT ![d] = -1]
  /\ locked' = [locked EXCEPT ![d] = FALSE]
  /\ UNCHANGED log

\* The process ends.
Exit(p) ==
  /\ \E d \in Database : d[1] = p /\ pc[d] # "none"
  /\ pc' = [d \in Database |-> IF d[1] = p THEN "none" ELSE pc[d]]
  /\ fd' = [d \in Database |-> IF d[1] = p THEN -1 ELSE fd[d]]
  /\ locked' = [d \in Database |-> IF d[1] = p THEN FALSE ELSE locked[d]]
  /\ log' = [d \in Database |-> IF d[1] = p THEN None ELSE log[d]]
  /\ table' = [table EXCEPT ![p] = [n \in Fd |-> None]]
  /\ flock' = IF flock # None /\ flock[1] = p THEN None ELSE flock

Next ==
  \/ \E d \in Database : \/ TryLock(d, "opening") \/ TryLock(d, "removing")
                         \/ TryLockFails(d)
                         \/ OpenReturns(d) \/ Unlink(d) \/ LockFileDestroyed(d)
                         \/ CreateLog(d) \/ Close(d) \/ Destroy(d)
  \/ \E p \in Process : Exit(p)

Spec == Init /\ [][Next]_vars

-----------------------------------------------------------------------------
\* While one process deletes the scheduled files and loads the segments, or has
\* begun to remove the directory, no other does (LockFile::tryLock).
OpensExclude ==
  \A c, d \in Database :
    pc[c] \in {"opening", "removing"} /\ pc[d] \in {"opening", "removing"} => c = d

\* A descriptor that is open belongs to a lock file in use or to a log: opens
\* that fail leave none behind (LockFile::tryLock, ~LockFile).
NoDescriptorLeak ==
  \A p \in Process : \A n \in Fd :
    table[p][n] # None =>
      \E d \in Database : d[1] = p /\ ((locked[d] /\ fd[d] = n) \/ log[d] = n)

\* A database is open in one process only (Database::open).
OpenInOneProcess ==
  \A c, d \in Database : pc[c] = "open" /\ pc[d] = "open" => c[1] = d[1]

\* Nobody opens a database while another process removes its files
\* (Database::remove).
RemoveExcludesOpens ==
  \A c, d \in Database : pc[c] \in {"removing", "unlinked"} => pc[d] # "opening"

\* The log that a database writes is open (FdFileBuf::sync).
LogsStayOpen ==
  \A d \in Database : log[d] # None => table[d[1]][log[d]] = d
=============================================================================
