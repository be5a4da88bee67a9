--------------------------- MODULE LockFileProofs ---------------------------
(***************************************************************************)
(* What the lock of a directory excludes, and that no descriptor of it is  *)
(* left behind, for any number of processes and descriptors.               *)
(***************************************************************************)
EXTENDS LockFile, TLAPS, WellFoundedInduction

TypeOK ==
  /\ pc \in [Database -> {"none", "opening", "removing", "unlinked", "open", "closed"}]
  /\ fd \in [Database -> Fd \cup {-1}]
  /\ locked \in [Database -> BOOLEAN]
  /\ log \in [Database -> Fd \cup {None}]
  /\ table \in [Process -> [Fd -> Database \cup {TheLockFile, None}]]
  /\ flock \in (Process \X Fd) \cup {None}

\* A Database holds what it has opened until its LockFile is destroyed.
HeldUntilDestroyed ==
  \A d \in Database :
    /\ locked[d] <=> pc[d] # "none"
    /\ locked[d] => fd[d] \in Fd
    /\ log[d] # None => pc[d] = "open"

\* An open or a remove in progress has the lock, with its own descriptor.
InsideHasLock ==
  \A d \in Database :
    pc[d] \in {"opening", "removing"} => flock = <<d[1], fd[d]>>

\* open(2) gives the lowest number that is free.
LEMMA NewFdIsFree ==
  ASSUME NEW p, FreeFds(p) # {}
  PROVE  NewFd(p) \in Fd /\ table[p][NewFd(p)] = None
<1>1. FreeFds(p) \in SUBSET Nat
  BY LockFileAssumption DEF FreeFds, Fd
<1>2. PICK n \in FreeFds(p) : \A m \in FreeFds(p) : ~(<<m, n>> \in OpToRel(<, Nat))
  BY <1>1, WFMin, NatLessThanWellFounded
<1>3. \A m \in FreeFds(p) : n <= m
  <2>1. \A m \in FreeFds(p) : ~(m < n)
    BY <1>1, <1>2 DEF OpToRel
  <2> QED BY <1>1, <2>1
<1>4. NewFd(p) \in FreeFds(p)
  BY <1>3 DEF NewFd
<1> QED BY <1>4 DEF FreeFds

LeakInv == TypeOK /\ HeldUntilDestroyed /\ NoDescriptorLeak

LEMMA InitLeak == Init => LeakInv
BY DEF Init, LeakInv, TypeOK, HeldUntilDestroyed, NoDescriptorLeak

\* What the calls of the kernel do to the types.
LEMMA CloseFileTypes ==
  ASSUME TypeOK, NEW p \in Process, NEW n, CloseFile(p, n)
  PROVE  /\ table' \in [Process -> [Fd -> Database \cup {TheLockFile, None}]]
         /\ flock' \in (Process \X Fd) \cup {None}
         /\ \A q \in Process, m \in Fd :
              table'[q][m] = IF q = p /\ m = n THEN None ELSE table[q][m]
<1>1. table \in [Process -> [Fd -> Database \cup {TheLockFile, None}]]
      /\ flock \in (Process \X Fd) \cup {None}
  BY DEF TypeOK
<1>2. table' = [table EXCEPT ![p][n] = None]
      /\ flock' = IF flock = <<p, n>> THEN None ELSE flock
  BY DEF CloseFile
<1> QED BY <1>1, <1>2

LEMMA OpenFileTypes ==
  ASSUME TypeOK, NEW p \in Process, NEW what \in Database \cup {TheLockFile},
         OpenFile(p, what)
  PROVE  /\ NewFd(p) \in Fd
         /\ table' \in [Process -> [Fd -> Database \cup {TheLockFile, None}]]
         /\ \A q \in Process, m \in Fd :
              table'[q][m] = IF q = p /\ m = NewFd(p) THEN what ELSE table[q][m]
<1>1. table \in [Process -> [Fd -> Database \cup {TheLockFile, None}]]
  BY DEF TypeOK
<1>2. NewFd(p) \in Fd
  BY NewFdIsFree DEF OpenFile
<1>3. table' = [table EXCEPT ![p][NewFd(p)] = what]
  BY DEF OpenFile
<1> HIDE DEF NewFd
<1> QED BY <1>1, <1>2, <1>3

\* One operation of one Database changes nothing of the others.
Others(d) ==
  \A c \in Database : c # d =>
    pc'[c] = pc[c] /\ fd'[c] = fd[c] /\ locked'[c] = locked[c] /\ log'[c] = log[c]

\* What is closed was a descriptor that d had, and d has it no longer.
LEMMA ClosingLeavesNothing ==
  ASSUME LeakInv, NEW d \in Database, NEW n, CloseFile(d[1], n), Others(d),
         pc' \in [Database -> {"none", "opening", "removing", "unlinked", "open", "closed"}],
         fd' \in [Database -> Fd \cup {-1}],
         locked' \in [Database -> BOOLEAN],
         log' \in [Database -> Fd \cup {None}],
         HeldUntilDestroyed',
         \A m \in Fd : locked[d] /\ fd[d] = m => m = n \/ (locked'[d] /\ fd'[d] = m),
         \A m \in Fd : log[d] = m => m = n \/ log'[d] = m
  PROVE  LeakInv'
<1>1. /\ table' \in [Process -> [Fd -> Database \cup {TheLockFile, None}]]
      /\ flock' \in (Process \X Fd) \cup {None}
      /\ \A q \in Process, m \in Fd :
           table'[q][m] = IF q = d[1] /\ m = n THEN None ELSE table[q][m]
  BY CloseFileTypes DEF LeakInv, Database
<1>2. TypeOK'
  BY <1>1 DEF TypeOK
<1>3. NoDescriptorLeak'
  <2> SUFFICES ASSUME NEW q \in Process, NEW m \in Fd, table'[q][m] # None
               PROVE  \E c \in Database :
                        c[1] = q /\ ((locked'[c] /\ fd'[c] = m) \/ log'[c] = m)
    BY DEF NoDescriptorLeak
  <2>1. table[q][m] # None /\ ~(q = d[1] /\ m = n)
    BY <1>1
  <2>2. PICK c \in Database : c[1] = q /\ ((locked[c] /\ fd[c] = m) \/ log[c] = m)
    BY <2>1 DEF LeakInv, NoDescriptorLeak
  <2>3. CASE c = d
    BY <2>1, <2>2, <2>3
  <2>4. CASE c # d
    BY <2>2, <2>4 DEF Others
  <2> QED BY <2>3, <2>4
<1> QED BY <1>2, <1>3 DEF LeakInv

LEMMA LeakStep ==
  ASSUME LeakInv, [Next]_vars
  PROVE  LeakInv'
<1> USE LockFileAssumption
<1>1. /\ TypeOK
      /\ pc \in [Database -> {"none", "opening", "removing", "unlinked", "open", "closed"}]
      /\ fd \in [Database -> Fd \cup {-1}]
      /\ locked \in [Database -> BOOLEAN]
      /\ log \in [Database -> Fd \cup {None}]
      /\ HeldUntilDestroyed /\ NoDescriptorLeak
  BY DEF LeakInv, TypeOK
<1>2. None \notin Fd /\ \A d \in Database : d[1] \in Process
  BY DEF Fd, Database
<1>3. ASSUME NEW d \in Database, NEW for \in {"opening", "removing"}, TryLock(d, for)
      PROVE  LeakInv'
  <2> DEFINE p == d[1]
  <2>1. /\ pc[d] = "none" /\ OpenFile(p, TheLockFile)
        /\ flock' = <<p, NewFd(p)>>
        /\ pc' = [pc EXCEPT ![d] = for]
        /\ fd' = [fd EXCEPT ![d] = NewFd(p)]
        /\ locked' = [locked EXCEPT ![d] = TRUE]
        /\ log' = log
    BY <1>3 DEF TryLock
  <2>2. /\ p \in Process /\ NewFd(p) \in Fd
        /\ table' \in [Process -> [Fd -> Database \cup {TheLockFile, None}]]
        /\ \A q \in Process, m \in Fd :
             table'[q][m] = IF q = p /\ m = NewFd(p) THEN TheLockFile ELSE table[q][m]
    BY <1>1, <1>2, <2>1, OpenFileTypes
  <2> HIDE DEF p, NewFd
  <2>3. TypeOK'
    BY <1>1, <2>1, <2>2 DEF TypeOK
  <2>4. HeldUntilDestroyed'
    BY <1>1, <2>1, <2>2 DEF HeldUntilDestroyed
  <2>5. ~locked[d] /\ locked'[d] /\ fd'[d] = NewFd(p) /\ Others(d) /\ log'[d] = log[d]
    BY <1>1, <2>1 DEF HeldUntilDestroyed, Others
  <2>6. NoDescriptorLeak'
    <3> SUFFICES ASSUME NEW q \in Process, NEW m \in Fd, table'[q][m] # None
                 PROVE  \E c \in Database :
                          c[1] = q /\ ((locked'[c] /\ fd'[c] = m) \/ log'[c] = m)
      BY DEF NoDescriptorLeak
    <3>1. CASE q = p /\ m = NewFd(p)
      BY <2>5, <3>1 DEF p
    <3>2. CASE ~(q = p /\ m = NewFd(p))
      <4>1. table[q][m] # None
        BY <2>2, <3>2
      <4>2. PICK c \in Database :
              c[1] = q /\ ((locked[c] /\ fd[c] = m) \/ log[c] = m)
        BY <1>1, <4>1 DEF NoDescriptorLeak
      <4> QED BY <2>5, <4>2 DEF Others
    <3> QED BY <3>1, <3>2
  <2> QED BY <2>3, <2>4, <2>6 DEF LeakInv
<1>4. ASSUME NEW d \in Database, TryLockFails(d)
      PROVE  LeakInv'
  <2>1. UNCHANGED vars
    BY <1>4 DEF TryLockFails, LeftClosed, vars
  <2> QED BY <2>1 DEF LeakInv, TypeOK, HeldUntilDestroyed, NoDescriptorLeak, vars
<1>5. ASSUME NEW d \in Database, OpenReturns(d)
      PROVE  LeakInv'
  <2>1. /\ pc[d] = "opening" /\ CloseFile(d[1], fd[d])
        /\ pc' = [pc EXCEPT ![d] = "open"]
        /\ UNCHANGED <<fd, locked, log>>
    BY <1>5 DEF OpenReturns
  <2>2. HeldUntilDestroyed'
    BY <1>1, <2>1 DEF HeldUntilDestroyed
  <2>3. /\ pc' \in [Database -> {"none", "opening", "removing", "unlinked", "open", "closed"}]
        /\ Others(d)
    BY <1>1, <2>1 DEF Others
  <2> QED BY <1>1, <2>1, <2>2, <2>3, ClosingLeavesNothing DEF LeakInv
<1>6. ASSUME NEW d \in Database, Unlink(d)
      PROVE  LeakInv'
  <2>1. /\ pc[d] = "removing" /\ pc' = [pc EXCEPT ![d] = "unlinked"]
        /\ flock' = None /\ UNCHANGED <<fd, locked, log, table>>
    BY <1>6 DEF Unlink
  <2> QED BY <1>1, <2>1 DEF LeakInv, TypeOK, HeldUntilDestroyed, NoDescriptorLeak
<1>7. ASSUME NEW d \in Database, LockFileDestroyed(d) \/ (Destroy(d) /\ locked[d])
      PROVE  LeakInv'
  <2>1. /\ pc[d] \in {"opening", "removing", "unlinked", "closed"}
        /\ CloseFile(d[1], fd[d])
        /\ pc' = [pc EXCEPT ![d] = "none"]
        /\ fd' = [fd EXCEPT ![d] = -1]
        /\ locked' = [locked EXCEPT ![d] = FALSE]
        /\ log' = log
    BY <1>7 DEF LockFileDestroyed, Destroy
  <2>2. HeldUntilDestroyed'
    BY <1>1, <2>1 DEF HeldUntilDestroyed
  <2>3. /\ pc' \in [Database -> {"none", "opening", "removing", "unlinked", "open", "closed"}]
        /\ fd' \in [Database -> Fd \cup {-1}] /\ locked' \in [Database -> BOOLEAN]
        /\ Others(d)
    BY <1>1, <2>1 DEF Others
  <2> QED BY <1>1, <2>1, <2>2, <2>3, ClosingLeavesNothing DEF LeakInv
<1>8. ASSUME NEW d \in Database, Destroy(d)
      PROVE  locked[d]
  BY <1>1, <1>8 DEF Destroy, HeldUntilDestroyed
<1>9. ASSUME NEW d \in Database, CreateLog(d)
      PROVE  LeakInv'
  <2> DEFINE p == d[1]
  <2>1. /\ pc[d] = "open" /\ log[d] = None /\ OpenFile(p, d)
        /\ log' = [log EXCEPT ![d] = NewFd(p)]
        /\ UNCHANGED <<pc, fd, locked, flock>>
    BY <1>9 DEF CreateLog
  <2>2. /\ p \in Process /\ NewFd(p) \in Fd
        /\ table' \in [Process -> [Fd -> Database \cup {TheLockFile, None}]]
        /\ \A q \in Process, m \in Fd :
             table'[q][m] = IF q = p /\ m = NewFd(p) THEN d ELSE table[q][m]
    BY <1>1, <1>2, <2>1, OpenFileTypes
  <2> HIDE DEF p, NewFd
  <2>3. TypeOK'
    BY <1>1, <2>1, <2>2 DEF TypeOK
  <2>4. HeldUntilDestroyed'
    BY <1>1, <2>1 DEF HeldUntilDestroyed
  <2>5. NoDescriptorLeak'
    <3> SUFFICES ASSUME NEW q \in Process, NEW m \in Fd, table'[q][m] # None
                 PROVE  \E c \in Database :
                          c[1] = q /\ ((locked'[c] /\ fd'[c] = m) \/ log'[c] = m)
      BY DEF NoDescriptorLeak
    <3>1. CASE q = p /\ m = NewFd(p)
      BY <1>1, <2>1, <3>1 DEF p
    <3>2. CASE ~(q = p /\ m = NewFd(p))
      <4>1. table[q][m] # None
        BY <2>2, <3>2
      <4>2. PICK c \in Database :
              c[1] = q /\ ((locked[c] /\ fd[c] = m) \/ log[c] = m)
        BY <1>1, <4>1 DEF NoDescriptorLeak
      <4>3. c = d => log[c] # m
        BY <1>2, <2>1
      <4> QED BY <1>1, <2>1, <4>2, <4>3
    <3> QED BY <3>1, <3>2
  <2> QED BY <2>3, <2>4, <2>5 DEF LeakInv
<1>10. ASSUME NEW d \in Database, Close(d)
       PROVE  LeakInv'
  <2>1. /\ pc[d] = "open"
        /\ log' = [log EXCEPT ![d] = None] /\ pc' = [pc EXCEPT ![d] = "closed"]
        /\ UNCHANGED <<fd, locked>>
    BY <1>10 DEF Close
  <2>2. HeldUntilDestroyed'
    BY <1>1, <2>1 DEF HeldUntilDestroyed
  <2>3. /\ pc' \in [Database -> {"none", "opening", "removing", "unlinked", "open", "closed"}]
        /\ log' \in [Database -> Fd \cup {None}]
        /\ Others(d)
    BY <1>1, <2>1 DEF Others
  <2>4. CASE log[d] # None
    <3>1. CloseFile(d[1], log[d])
      BY <1>10, <2>4 DEF Close
    <3> QED BY <1>1, <2>1, <2>2, <2>3, <3>1, ClosingLeavesNothing DEF LeakInv
  <2>5. CASE log[d] = None
    <3>1. UNCHANGED <<table, flock>>
      BY <1>10, <2>5 DEF Close
    <3>2. log' = log
      BY <1>1, <2>1, <2>5
    <3> QED BY <1>1, <2>1, <2>2, <2>3, <3>1, <3>2 DEF LeakInv, TypeOK, NoDescriptorLeak
  <2> QED BY <2>4, <2>5
<1>11. ASSUME NEW p \in Process, Exit(p)
       PROVE  LeakInv'
  <2>1. /\ pc' = [d \in Database |-> IF d[1] = p THEN "none" ELSE pc[d]]
        /\ fd' = [d \in Database |-> IF d[1] = p THEN -1 ELSE fd[d]]
        /\ locked' = [d \in Database |-> IF d[1] = p THEN FALSE ELSE locked[d]]
        /\ log' = [d \in Database |-> IF d[1] = p THEN None ELSE log[d]]
        /\ table' = [table EXCEPT ![p] = [n \in Fd |-> None]]
        /\ flock' = IF flock # None /\ flock[1] = p THEN None ELSE flock
    BY <1>11 DEF Exit
  <2>2. table \in [Process -> [Fd -> Database \cup {TheLockFile, None}]]
        /\ flock \in (Process \X Fd) \cup {None}
    BY <1>1 DEF TypeOK
  <2>3. table' \in [Process -> [Fd -> Database \cup {TheLockFile, None}]]
        /\ \A q \in Process, m \in Fd :
              table'[q][m] = IF q = p THEN None ELSE table[q][m]
    BY <2>1, <2>2
  <2>4. TypeOK'
    BY <1>1, <2>1, <2>2, <2>3 DEF TypeOK
  <2>5. HeldUntilDestroyed'
    BY <1>1, <2>1 DEF HeldUntilDestroyed
  <2>6. NoDescriptorLeak'
    BY <1>1, <2>1, <2>3 DEF NoDescriptorLeak
  <2> QED BY <2>4, <2>5, <2>6 DEF LeakInv
<1>12. CASE UNCHANGED vars
  BY <1>12 DEF LeakInv, TypeOK, HeldUntilDestroyed, NoDescriptorLeak, vars
<1> QED BY <1>3, <1>4, <1>5, <1>6, <1>7, <1>8, <1>9, <1>10, <1>11, <1>12 DEF Next

LEMMA LeakInvariance == Spec => []LeakInv
BY InitLeak, LeakStep, PTL DEF Spec

\* Whatever opens fail, or overtake each other, no descriptor of a lock file or a
\* log is left that no object will close (LockFile::tryLock, ~LockFile).
THEOREM NothingLeaks == Spec => []NoDescriptorLeak
<1>1. LeakInv => NoDescriptorLeak
  BY DEF LeakInv
<1> QED BY <1>1, LeakInvariance, PTL

-----------------------------------------------------------------------------
(* Exclusion.  It rests on a process having one Database object only: two    *)
(* hold the same number once the first open has returned, and destroying the *)
(* one then closes the descriptor with which the other has the lock.         *)

OneHandle == \A g, h \in Handle : g = h

LockInv == LeakInv /\ InsideHasLock

LEMMA OthersElsewhere ==
  ASSUME OneHandle, NEW c \in Database, NEW d \in Database, c # d
  PROVE  c[1] # d[1]
<1>1. c = <<c[1], c[2]>> /\ d = <<d[1], d[2]>> /\ c[2] \in Handle /\ d[2] \in Handle
  BY DEF Database
<1>2. c[2] = d[2]
  BY <1>1 DEF OneHandle
<1> QED BY <1>1, <1>2

\* One Database that is not, or no longer, inside an open or a remove takes the
\* lock from nobody else.
LEMMA ClosingKeepsLock ==
  ASSUME OneHandle, LockInv, NEW d \in Database, NEW n, Others(d),
         flock' = flock \/ flock' = IF flock = <<d[1], n>> THEN None ELSE flock,
         pc'[d] \notin {"opening", "removing"}
  PROVE  InsideHasLock'
<1> SUFFICES ASSUME NEW c \in Database, pc'[c] \in {"opening", "removing"}
             PROVE  flock' = <<c[1], fd'[c]>>
  BY DEF InsideHasLock
<1>1. c # d
  OBVIOUS
<1>2. flock = <<c[1], fd[c]>> /\ fd'[c] = fd[c]
  BY <1>1 DEF LockInv, InsideHasLock, Others
<1>3. c[1] # d[1]
  BY <1>1, OthersElsewhere
<1> QED BY <1>2, <1>3

LEMMA LockStep ==
  ASSUME OneHandle, LockInv, [Next]_vars
  PROVE  InsideHasLock'
<1> USE LockFileAssumption
<1>1. /\ pc \in [Database -> {"none", "opening", "removing", "unlinked", "open", "closed"}]
      /\ fd \in [Database -> Fd \cup {-1}] /\ locked \in [Database -> BOOLEAN]
      /\ log \in [Database -> Fd \cup {None}]
      /\ flock \in (Process \X Fd) \cup {None}
      /\ InsideHasLock /\ HeldUntilDestroyed
  BY DEF LockInv, LeakInv, TypeOK
<1>2. ASSUME NEW d \in Database, NEW for \in {"opening", "removing"}, TryLock(d, for)
      PROVE  InsideHasLock'
  <2>1. /\ flock = None /\ flock' = <<d[1], NewFd(d[1])>>
        /\ pc' = [pc EXCEPT ![d] = for] /\ fd' = [fd EXCEPT ![d] = NewFd(d[1])]
    BY <1>2 DEF TryLock, FlockSucceeds
  <2>2. ASSUME NEW c \in Database, pc[c] \in {"opening", "removing"}
        PROVE  FALSE
    <3>1. flock = <<c[1], fd[c]>>
      BY <1>1, <2>2 DEF InsideHasLock
    <3>2. fd[c] \in Fd
      BY <1>1, <2>2 DEF HeldUntilDestroyed
    <3>3. c[1] \in Process
      BY DEF Database
    <3> QED BY <2>1, <3>1, <3>2, <3>3 DEF Fd
  <2> HIDE DEF NewFd
  <2> QED BY <1>1, <2>1, <2>2 DEF InsideHasLock
<1>3. ASSUME NEW d \in Database, OpenReturns(d) \/ LockFileDestroyed(d)
      PROVE  InsideHasLock'
  <2>1. /\ CloseFile(d[1], fd[d]) /\ Others(d)
        /\ pc'[d] \notin {"opening", "removing"}
    BY <1>1, <1>3 DEF OpenReturns, LockFileDestroyed, Others
  <2> QED BY <2>1, ClosingKeepsLock DEF CloseFile
<1>4. ASSUME NEW d \in Database, Unlink(d)
      PROVE  InsideHasLock'
  <2>1. /\ pc[d] = "removing" /\ pc' = [pc EXCEPT ![d] = "unlinked"]
    BY <1>4 DEF Unlink
  <2>2. ASSUME NEW c \in Database, c # d, pc[c] \in {"opening", "removing"}
        PROVE  FALSE
    <3>1. flock = <<c[1], fd[c]>> /\ flock = <<d[1], fd[d]>>
      BY <1>1, <2>1, <2>2 DEF InsideHasLock
    <3> QED BY <2>2, <3>1, OthersElsewhere
  <2> QED BY <1>1, <2>1, <2>2 DEF InsideHasLock
<1>5. ASSUME NEW d \in Database, Close(d) \/ Destroy(d)
      PROVE  InsideHasLock'
  <2>1. /\ Others(d) /\ pc'[d] \notin {"opening", "removing"}
    BY <1>1, <1>5 DEF Close, Destroy, Others
  <2>2. flock' = flock \/ \E n : CloseFile(d[1], n)
    BY <1>5 DEF Close, Destroy
  <2> QED BY <2>1, <2>2, ClosingKeepsLock DEF CloseFile
<1>6. ASSUME NEW d \in Database, CreateLog(d)
      PROVE  InsideHasLock'
  BY <1>1, <1>6 DEF CreateLog, InsideHasLock
<1>7. ASSUME NEW p \in Process, Exit(p)
      PROVE  InsideHasLock'
  <2> SUFFICES ASSUME NEW c \in Database, pc'[c] \in {"opening", "removing"}
               PROVE  flock' = <<c[1], fd'[c]>>
    BY DEF InsideHasLock
  <2>1. c[1] # p /\ pc[c] \in {"opening", "removing"} /\ fd'[c] = fd[c]
    BY <1>7 DEF Exit
  <2>2. flock = <<c[1], fd[c]>>
    BY <1>1, <2>1 DEF InsideHasLock
  <2>3. flock' = flock
    BY <1>7, <2>1, <2>2 DEF Exit
  <2> QED BY <2>1, <2>2, <2>3
<1>8. CASE UNCHANGED vars \/ \E d \in Database : TryLockFails(d)
  BY <1>1, <1>8 DEF InsideHasLock, vars, TryLockFails
<1> QED BY <1>2, <1>3, <1>4, <1>5, <1>6, <1>7, <1>8 DEF Next

\* Only one process at a time loads the segments of a directory, or removes them,
\* as long as a process has one Database object for it (LockFile::tryLock).
THEOREM OpensAreExclusive == OneHandle => (Spec => []OpensExclude)
<1>1. Init => LockInv
  BY InitLeak DEF LockInv, Init, InsideHasLock
<1>2. OneHandle /\ LockInv /\ [Next]_vars => LockInv'
  BY LeakStep, LockStep DEF LockInv
<1>3. OneHandle /\ LockInv => OpensExclude
  <2> SUFFICES ASSUME OneHandle, LockInv, NEW c \in Database, NEW d \in Database,
                      pc[c] \in {"opening", "removing"}, pc[d] \in {"opening", "removing"},
                      c # d
               PROVE  FALSE
    BY DEF OpensExclude
  <2>1. flock = <<c[1], fd[c]>> /\ flock = <<d[1], fd[d]>>
    BY DEF LockInv, InsideHasLock
  <2> QED BY <2>1, OthersElsewhere
<1>4. ASSUME OneHandle
      PROVE  Spec => []OpensExclude
  <2>1. LockInv /\ [Next]_vars => LockInv'
    BY <1>2, <1>4
  <2>2. LockInv => OpensExclude
    BY <1>3, <1>4
  <2> QED BY <1>1, <2>1, <2>2, PTL DEF Spec
<1> QED BY <1>4
=============================================================================
