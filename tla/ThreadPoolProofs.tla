-------------------------- MODULE ThreadPoolProofs --------------------------
(***************************************************************************)
(* The pool carries out each task once, and a close that returns has had   *)
(* its tasks carried out, for any number of threads and tasks.             *)
(***************************************************************************)
EXTENDS ThreadPool, TLAPS, SequenceTheorems, FiniteSetTheorems

TypeOK ==
  /\ tasks \in Seq(Task) /\ stop \in BOOLEAN /\ queueMutex \in Worker \cup {Nobody}
  /\ worker \in [Worker -> {"lock", "test", "block", "asleep", "write", "done", "ended"}]
  /\ task \in [Worker -> Task \cup {Nobody}]
  /\ n \in Int /\ wgMutex \in BOOLEAN
  /\ close \in {"none", "submit", "enqueue", "notify", "waitLock", "waitBlock", "asleep"}
  /\ next \in Task \cup {Nobody}
  /\ exit \in {"none", "notify", "join", "ended"}
  /\ submitted \subseteq Task /\ written \subseteq submitted

Pending == submitted \ written
Writing == {w \in Worker : worker[w] = "write"}
Finishing == {w \in Worker : worker[w] = "done"}

\* A task that was handed over waits in the queue or is being written by one
\* thread, and is nowhere twice.
TasksOnce ==
  /\ \A i \in 1..Len(tasks) : tasks[i] \in Pending
  /\ \A w \in Writing : task[w] \in Pending
  /\ \A i, j \in 1..Len(tasks) : i # j => tasks[i] # tasks[j]
  /\ \A w \in Writing : \A i \in 1..Len(tasks) : tasks[i] # task[w]
  /\ \A v, w \in Writing : v # w => task[v] # task[w]
  /\ \A t \in Pending : \/ \E i \in 1..Len(tasks) : t = tasks[i]
                        \/ \E w \in Writing : t = task[w]

\* The task the close is about to hand over is new.
NextIsNew == close = "enqueue" => next \in Task \ submitted

\* WaitGroup::n: what is to be done, the tasks whose done has still to come, and
\* the one that was added before the pool gets it.
Announced == IF close = "enqueue" THEN 1 ELSE 0

CountsTasks ==
  /\ IsFiniteSet(Pending) /\ IsFiniteSet(Finishing)
  /\ n = Cardinality(Pending) + Cardinality(Finishing) + Announced

\* Who holds queue_mutex_ from one step to the next.
MutexHeld ==
  \A w \in Worker : worker[w] \in {"test", "block"} <=> queueMutex = w

\* A thread goes to sleep only with an empty queue that has not been stopped,
\* and ends only with an empty queue that has.
SleepsOrLeaves ==
  \A w \in Worker :
    /\ worker[w] = "block" => tasks = <<>> /\ ~stop
    /\ worker[w] = "asleep" /\ stop => exit = "notify"
    /\ worker[w] = "ended" => tasks = <<>> /\ stop

\* Not all threads sleep on a task, unless the close has still to notify one.
OneAwake ==
  tasks # <<>> /\ (\A w \in Worker : worker[w] = "asleep") => close = "notify"

\* The close sleeps only while there is something to wait for.
CloseAsleep ==
  /\ close = "waitBlock" <=> wgMutex
  /\ close \in {"waitBlock", "asleep"} => n > 0

\* Nothing is handed over once the pool is stopped.
StopIsLast ==
  /\ stop <=> exit # "none"
  /\ stop => close \notin {"submit", "enqueue", "notify"}
  /\ exit = "ended" => \A w \in Worker : worker[w] = "ended"

PoolInv ==
  /\ TypeOK /\ TasksOnce /\ NextIsNew /\ CountsTasks /\ MutexHeld
  /\ SleepsOrLeaves /\ OneAwake /\ CloseAsleep /\ StopIsLast

LEMMA InitPool == Init => PoolInv
<1> SUFFICES ASSUME Init PROVE PoolInv
  OBVIOUS
<1> USE ThreadPoolAssumption
<1>1. TypeOK
  <2>1. <<>> \in Seq(Task)
    BY EmptySeq
  <2>2. tasks \in Seq(Task) /\ n \in Int /\ submitted \subseteq Task
        /\ written \subseteq submitted
    BY <2>1 DEF Init
  <2>3. /\ worker \in [Worker -> {"lock", "test", "block", "asleep", "write", "done", "ended"}]
        /\ task \in [Worker -> Task \cup {Nobody}]
    BY DEF Init
  <2> QED BY <2>2, <2>3 DEF Init, TypeOK
<1>2. Pending = {} /\ Writing = {} /\ Finishing = {}
  BY DEF Init, Pending, Writing, Finishing
<1>3. TasksOnce
  BY <1>2 DEF Init, TasksOnce
<1>4. CountsTasks
  BY <1>2, FS_EmptySet DEF Init, CountsTasks, Announced
<1> QED BY <1>1, <1>3, <1>4 DEF Init, PoolInv, NextIsNew, MutexHeld, SleepsOrLeaves,
           OneAwake, CloseAsleep, StopIsLast

-----------------------------------------------------------------------------
\* Who writes, and who is about to call done, after one thread went on.
LEMMA OneGoesOn ==
  ASSUME TypeOK, NEW w \in Worker, NEW s, worker' = [worker EXCEPT ![w] = s]
  PROVE  /\ Writing' = IF s = "write" THEN Writing \cup {w} ELSE Writing \ {w}
         /\ Finishing' = IF s = "done" THEN Finishing \cup {w} ELSE Finishing \ {w}
BY DEF TypeOK, Writing, Finishing

\* The steps that have nothing to do with the tasks.
NoTask ==
  /\ UNCHANGED <<tasks, task, n, next, submitted, written>>
  /\ Writing' = Writing /\ Finishing' = Finishing
  /\ close' = "enqueue" <=> close = "enqueue"

LEMMA Steps ==
  ASSUME PoolInv, [Next]_vars
  PROVE  \/ NoTask
         \/ \E w \in Worker : Pop(w) \/ WriteSegment(w) \/ Done(w)
         \/ \E t \in Task : Add(t)
         \/ Enqueue
<1> USE DEF PoolInv
<1>1. ASSUME NEW w \in Worker, Lock(w) \/ WakeUp(w) \/ Test(w) \/ Block(w) \/ Leave(w)
      PROVE  NoTask
  <2>1. PICK s \in {"lock", "test", "block", "asleep", "ended"} :
          worker' = [worker EXCEPT ![w] = s]
    BY <1>1 DEF Lock, WakeUp, Test, Block, Leave
  <2>2. w \notin Writing /\ w \notin Finishing
    BY <1>1 DEF Lock, WakeUp, Test, Block, Leave, Writing, Finishing
  <2>3. Writing' = Writing /\ Finishing' = Finishing
    <3>1. s # "write" /\ s # "done" /\ TypeOK
      OBVIOUS
    <3>2. Writing' = Writing \ {w} /\ Finishing' = Finishing \ {w}
      BY ONLY <2>1, <3>1, OneGoesOn, w \in Worker
    <3> QED BY <2>2, <3>2
  <2>4. UNCHANGED <<tasks, task, n, next, submitted, written, close>>
    BY <1>1 DEF Lock, WakeUp, Test, Block, Leave, group, history
  <2> QED BY <2>3, <2>4 DEF NoTask
<1>2. CASE CloseBegins \/ WaitEmpty \/ WaitTest \/ WaitBlock \/ WaitWakeUp \/ Stop \/ Join
  <2>1. UNCHANGED <<tasks, worker, task, n, next, submitted, written>>
    BY <1>2 DEF CloseBegins, WaitEmpty, WaitTest, WaitBlock, WaitWakeUp, Stop, Join, pool,
       group, history
  <2>2. close' = "enqueue" <=> close = "enqueue"
    BY <1>2 DEF CloseBegins, WaitEmpty, WaitTest, WaitBlock, WaitWakeUp, Stop, Join
  <2> QED BY <2>1, <2>2 DEF NoTask, Writing, Finishing
<1>3. CASE NotifyOne
  <2>1. Writing' = Writing /\ Finishing' = Finishing
    <3>1. CASE worker' = worker
      BY <3>1 DEF Writing, Finishing
    <3>2. ASSUME NEW w \in Asleep, worker' = [worker EXCEPT ![w] = "lock"]
          PROVE  Writing' = Writing /\ Finishing' = Finishing
      <4>1. w \in Worker /\ w \notin Writing /\ w \notin Finishing /\ TypeOK
        BY DEF Asleep, Writing, Finishing
      <4>2. Writing' = Writing \ {w} /\ Finishing' = Finishing \ {w}
        BY <3>2, <4>1 DEF Writing, Finishing
      <4> QED BY <4>1, <4>2
    <3> QED BY <1>3, <3>1, <3>2 DEF NotifyOne, WithOneAwake
  <2> QED BY <1>3, <2>1 DEF NotifyOne, NoTask, group, history
<1>4. CASE NotifyAll
  <2>1. Writing' = Writing /\ Finishing' = Finishing
    BY <1>4 DEF NotifyAll, Asleep, Writing, Finishing
  <2> QED BY <1>4, <2>1 DEF NotifyAll, NoTask, group, history
<1>5. CASE UNCHANGED vars
  BY <1>5 DEF vars, pool, group, history, NoTask, Writing, Finishing
<1> QED BY <1>1, <1>2, <1>3, <1>4, <1>5 DEF Next, WorkerStep, CloseStep

LEMMA TypeStep ==
  ASSUME PoolInv, [Next]_vars
  PROVE  TypeOK'
<1> USE DEF PoolInv, TypeOK
<1>1. ASSUME NEW w \in Worker, Lock(w) \/ WakeUp(w)
      PROVE  TypeOK'
  BY <1>1 DEF Lock, WakeUp, group, history
<1>2. ASSUME NEW w \in Worker, Test(w) \/ Block(w) \/ Leave(w)
      PROVE  TypeOK'
  BY <1>2 DEF Test, Block, Leave, group, history
<1>3. ASSUME NEW w \in Worker, Pop(w)
      PROVE  TypeOK'
  <2>1. Head(tasks) \in Task /\ Tail(tasks) \in Seq(Task)
    BY <1>3, HeadTailProperties DEF Pop
  <2> QED BY <1>3, <2>1 DEF Pop, group, history
<1>4. ASSUME NEW w \in Worker, WriteSegment(w)
      PROVE  TypeOK'
  <2>1. task[w] \in submitted
    BY <1>4 DEF WriteSegment, TasksOnce, Writing, Pending
  <2> QED BY <1>4, <2>1 DEF WriteSegment, group
<1>5. ASSUME NEW w \in Worker, Done(w)
      PROVE  TypeOK'
  BY <1>5 DEF Done, Notified, history
<1>6. CASE CloseBegins \/ WaitEmpty \/ WaitTest \/ WaitBlock \/ WaitWakeUp
  BY <1>6 DEF CloseBegins, WaitEmpty, WaitTest, WaitBlock, WaitWakeUp, pool, group, history
<1>7. ASSUME NEW t \in Task, Add(t)
      PROVE  TypeOK'
  BY <1>7 DEF Add, pool, history
<1>8. CASE Enqueue
  <2>1. next \in Task
    BY <1>8 DEF Enqueue, NextIsNew
  <2>2. Append(tasks, next) \in Seq(Task)
    BY <2>1, AppendProperties
  <2> QED BY <1>8, <2>1, <2>2 DEF Enqueue, group
<1>9. CASE NotifyOne
  <2>1. worker' \in [Worker -> {"lock", "test", "block", "asleep", "write", "done", "ended"}]
    BY <1>9 DEF NotifyOne, WithOneAwake, Asleep
  <2> QED BY <1>9, <2>1 DEF NotifyOne, group, history
<1>10. CASE Stop \/ NotifyAll \/ Join
  BY <1>10 DEF Stop, NotifyAll, Join, pool, group, history
<1>11. CASE UNCHANGED vars
  BY <1>11 DEF vars, pool, group, history
<1> QED BY <1>1, <1>2, <1>3, <1>4, <1>5, <1>6, <1>7, <1>8, <1>9, <1>10, <1>11
        DEF Next, WorkerStep, CloseStep

\* What popping a task and writing it do to the tasks.
LEMMA PopStep ==
  ASSUME PoolInv, NEW w \in Worker, Pop(w)
  PROVE  /\ TasksOnce' /\ CountsTasks' /\ NextIsNew'
<1> USE DEF PoolInv
<1>1. /\ tasks \in Seq(Task) /\ tasks # <<>>
      /\ tasks' = Tail(tasks) /\ task' = [task EXCEPT ![w] = tasks[1]]
      /\ UNCHANGED <<n, close, next, submitted, written>>
  BY DEF Pop, TypeOK, group, history, HeadTailProperties
<1>2. Writing' = Writing \cup {w} /\ w \notin Writing /\ Finishing' = Finishing
      /\ Writing \subseteq Worker
  BY OneGoesOn DEF Pop, Writing, Finishing
<1>3. /\ Len(tasks) \in Nat /\ 1 \in 1..Len(tasks) /\ Len(tasks') = Len(tasks) - 1
      /\ \A i \in 1..Len(tasks') : tasks'[i] = tasks[i + 1] /\ i + 1 \in 1..Len(tasks)
  BY <1>1, HeadTailProperties, EmptySeq
<1>4. task'[w] = tasks[1] /\ \A v \in Writing : task'[v] = task[v]
  BY <1>1, <1>2 DEF TypeOK
<1>5. Pending' = Pending
  BY <1>1 DEF Pending
<1>6. TasksOnce'
  <2>1. \A i \in 1..Len(tasks') : tasks'[i] \in Pending
    BY <1>3 DEF TasksOnce
  <2>2. \A v \in Writing' : task'[v] \in Pending
    BY <1>2, <1>3, <1>4 DEF TasksOnce
  <2>3. ASSUME NEW i \in 1..Len(tasks'), NEW j \in 1..Len(tasks'), i # j
        PROVE  tasks'[i] # tasks'[j]
    <3>1. i + 1 # j + 1
      BY <2>3
    <3> QED BY <1>3, <3>1 DEF TasksOnce
  <2>4. ASSUME NEW v \in Writing', NEW i \in 1..Len(tasks')
        PROVE  tasks'[i] # task'[v]
    <3>1. i + 1 # 1
      OBVIOUS
    <3>2. CASE v = w
      BY <1>3, <1>4, <3>1, <3>2 DEF TasksOnce
    <3>3. CASE v \in Writing
      BY <1>3, <1>4, <3>3 DEF TasksOnce
    <3> QED BY <1>2, <3>2, <3>3
  <2>5. ASSUME NEW u \in Writing', NEW v \in Writing', u # v
        PROVE  task'[u] # task'[v]
    BY <1>2, <1>3, <1>4, <2>5 DEF TasksOnce
  <2>6. ASSUME NEW t \in Pending
        PROVE  \/ \E i \in 1..Len(tasks') : t = tasks'[i]
               \/ \E v \in Writing' : t = task'[v]
    <3>1. CASE \E v \in Writing : t = task[v]
      BY <1>2, <1>4, <3>1
    <3>2. ASSUME NEW i \in 1..Len(tasks), t = tasks[i]
          PROVE  \/ \E j \in 1..Len(tasks') : t = tasks'[j]
                 \/ \E v \in Writing' : t = task'[v]
      <4>1. CASE i = 1
        BY <1>2, <1>4, <3>2, <4>1
      <4>2. CASE i # 1
        <5>1. i - 1 \in 1..Len(tasks') /\ (i - 1) + 1 = i
          BY <1>3, <4>2
        <5>2. tasks'[i - 1] = t
          BY <1>3, <3>2, <5>1
        <5> QED BY <5>1, <5>2
      <4> QED BY <4>1, <4>2
    <3> QED BY <3>1, <3>2 DEF TasksOnce
  <2> QED BY <1>5, <2>1, <2>2, <2>3, <2>4, <2>5, <2>6 DEF TasksOnce
<1>7. CountsTasks' /\ NextIsNew'
  BY <1>1, <1>2, <1>5 DEF CountsTasks, NextIsNew, Announced
<1> QED BY <1>6, <1>7

LEMMA WriteSegmentStep ==
  ASSUME PoolInv, NEW w \in Worker, WriteSegment(w)
  PROVE  /\ TasksOnce' /\ CountsTasks' /\ NextIsNew'
         /\ TS!Finish(task[w]) /\ task[w] \in Task
<1> USE DEF PoolInv
<1>1. /\ w \in Writing /\ written' = written \cup {task[w]}
      /\ UNCHANGED <<tasks, task, n, close, next, submitted>>
  BY DEF WriteSegment, Writing, group
<1>2. Writing' = Writing \ {w} /\ Finishing' = Finishing \cup {w} /\ w \notin Finishing
  BY OneGoesOn DEF WriteSegment, Finishing
<1>3. task[w] \in Pending /\ Pending' = Pending \ {task[w]} /\ task[w] \in Task
  BY <1>1 DEF TasksOnce, Pending, TypeOK
<1>4. TasksOnce'
  BY <1>1, <1>2, <1>3 DEF TasksOnce
<1>5. CountsTasks'
  <2>1. /\ IsFiniteSet(Pending') /\ Cardinality(Pending') = Cardinality(Pending) - 1
    BY <1>3, FS_RemoveElement DEF CountsTasks
  <2>2. /\ IsFiniteSet(Finishing') /\ Cardinality(Finishing') = Cardinality(Finishing) + 1
    BY <1>2, FS_AddElement DEF CountsTasks
  <2>3. Cardinality(Pending) \in Nat /\ Cardinality(Finishing) \in Nat
    BY FS_CardinalityType DEF CountsTasks
  <2>4. Announced' = Announced /\ Announced \in Nat
    BY <1>1 DEF Announced
  <2> QED BY <1>1, <2>1, <2>2, <2>3, <2>4 DEF CountsTasks
<1>6. NextIsNew'
  BY <1>1 DEF NextIsNew
<1>7. TS!Finish(task[w])
  BY <1>1, <1>3 DEF TS!Finish, Pending
<1> QED BY <1>3, <1>4, <1>5, <1>6, <1>7

LEMMA DoneStep ==
  ASSUME PoolInv, NEW w \in Worker, Done(w)
  PROVE  /\ TasksOnce' /\ CountsTasks' /\ NextIsNew'
<1> USE DEF PoolInv
<1>1. /\ w \in Finishing /\ n' = n - 1
      /\ task' = [task EXCEPT ![w] = Nobody]
      /\ close' = "enqueue" <=> close = "enqueue"
      /\ UNCHANGED <<tasks, next, submitted, written>>
  BY DEF Done, Finishing, Notified, history
<1>2. Writing' = Writing /\ Finishing' = Finishing \ {w} /\ w \notin Writing
  <2>1. TypeOK /\ worker[w] = "done" /\ worker' = [worker EXCEPT ![w] = "lock"]
    <3>1. TypeOK
      BY ONLY PoolInv DEF PoolInv
    <3> QED BY ONLY <3>1, Done(w) DEF Done
  <2>2. Writing' = Writing \ {w} /\ Finishing' = Finishing \ {w}
    <3>1. "lock" # "write" /\ "lock" # "done"
      OBVIOUS
    <3>2. /\ Writing' = IF "lock" = "write" THEN Writing \cup {w} ELSE Writing \ {w}
          /\ Finishing' = IF "lock" = "done" THEN Finishing \cup {w} ELSE Finishing \ {w}
      BY ONLY <2>1, w \in Worker, OneGoesOn
    <3> QED BY ONLY <3>1, <3>2
  <2>3. w \notin Writing
    BY ONLY <2>1 DEF Writing
  <2> QED BY ONLY <2>2, <2>3
<1>3. Pending' = Pending /\ \A v \in Writing : task'[v] = task[v]
  BY <1>1, <1>2 DEF Pending, TypeOK, Writing
<1>4. TasksOnce'
  BY <1>1, <1>2, <1>3 DEF TasksOnce
<1>5. CountsTasks'
  <2>1. /\ IsFiniteSet(Finishing') /\ Cardinality(Finishing') = Cardinality(Finishing) - 1
    BY <1>1, <1>2, FS_RemoveElement DEF CountsTasks
  <2>2. Cardinality(Pending) \in Nat /\ Cardinality(Finishing) \in Nat
    BY FS_CardinalityType DEF CountsTasks
  <2>3. Announced' = Announced /\ Announced \in Nat
    BY <1>1 DEF Announced
  <2> QED BY <1>1, <1>3, <2>1, <2>2, <2>3 DEF CountsTasks
<1>6. NextIsNew'
  BY <1>1 DEF NextIsNew
<1> QED BY <1>4, <1>5, <1>6

LEMMA AddStep ==
  ASSUME PoolInv, NEW t \in Task, Add(t)
  PROVE  /\ TasksOnce' /\ CountsTasks' /\ NextIsNew'
<1> USE DEF PoolInv
<1>1. /\ close = "submit" /\ close' = "enqueue" /\ n' = n + 1 /\ next' = t
      /\ t \notin submitted
      /\ UNCHANGED <<tasks, worker, task, submitted, written>>
  BY DEF Add, pool, history
<1>2. Writing' = Writing /\ Finishing' = Finishing /\ Pending' = Pending
  BY <1>1 DEF Writing, Finishing, Pending
<1>3. TasksOnce' /\ NextIsNew'
  BY <1>1, <1>2 DEF TasksOnce, NextIsNew
<1>4. CountsTasks'
  <2>1. Cardinality(Pending) \in Nat /\ Cardinality(Finishing) \in Nat
    BY FS_CardinalityType DEF CountsTasks
  <2> QED BY <1>1, <1>2, <2>1 DEF CountsTasks, Announced
<1> QED BY <1>3, <1>4

LEMMA EnqueueStep ==
  ASSUME PoolInv, Enqueue
  PROVE  /\ TasksOnce' /\ CountsTasks' /\ NextIsNew'
         /\ next \in Task /\ TS!Submit(next)
<1> USE DEF PoolInv
<1>1. /\ close = "enqueue" /\ close' = "notify" /\ tasks' = Append(tasks, next)
      /\ submitted' = submitted \cup {next}
      /\ UNCHANGED <<worker, task, n, written>>
  BY DEF Enqueue, group
<1>2. next \in Task /\ next \notin submitted /\ written \subseteq submitted
      /\ tasks \in Seq(Task)
  BY <1>1 DEF NextIsNew, TypeOK
<1>3. Writing' = Writing /\ Finishing' = Finishing
  BY <1>1 DEF Writing, Finishing
<1>4. Pending' = Pending \cup {next} /\ next \notin Pending
  BY <1>1, <1>2 DEF Pending
<1>5. /\ Len(tasks) \in Nat /\ Len(tasks') = Len(tasks) + 1
      /\ \A i \in 1..Len(tasks) : tasks'[i] = tasks[i]
      /\ tasks'[Len(tasks) + 1] = next
  BY <1>1, <1>2, AppendProperties
<1>6. \A i \in 1..Len(tasks') : i \in 1..Len(tasks) \/ i = Len(tasks) + 1
  BY <1>5
<1>7. TasksOnce'
  <2>1. \A i \in 1..Len(tasks') : tasks'[i] \in Pending'
    BY <1>4, <1>5, <1>6 DEF TasksOnce
  <2>2. \A w \in Writing' : task'[w] \in Pending'
    BY <1>1, <1>3, <1>4 DEF TasksOnce
  <2>3. \A i, j \in 1..Len(tasks') : i # j => tasks'[i] # tasks'[j]
    BY <1>4, <1>5, <1>6 DEF TasksOnce
  <2>4. \A w \in Writing' : \A i \in 1..Len(tasks') : tasks'[i] # task'[w]
    BY <1>1, <1>3, <1>4, <1>5, <1>6 DEF TasksOnce
  <2>5. \A v, w \in Writing' : v # w => task'[v] # task'[w]
    BY <1>1, <1>3 DEF TasksOnce
  <2>6. ASSUME NEW t \in Pending'
        PROVE  \/ \E i \in 1..Len(tasks') : t = tasks'[i]
               \/ \E w \in Writing' : t = task'[w]
    <3>1. 1..Len(tasks) \subseteq 1..Len(tasks') /\ Len(tasks) + 1 \in 1..Len(tasks')
      BY <1>5
    <3>2. CASE t = next
      BY <1>5, <3>1, <3>2
    <3>3. CASE t \in Pending
      BY <1>1, <1>3, <1>5, <3>1, <3>3 DEF TasksOnce
    <3> QED BY <1>4, <3>2, <3>3
  <2> QED BY <2>1, <2>2, <2>3, <2>4, <2>5, <2>6 DEF TasksOnce
<1>8. CountsTasks'
  <2>1. /\ IsFiniteSet(Pending') /\ Cardinality(Pending') = Cardinality(Pending) + 1
    BY <1>4, FS_AddElement DEF CountsTasks
  <2>2. Cardinality(Pending) \in Nat /\ Cardinality(Finishing) \in Nat
    BY FS_CardinalityType DEF CountsTasks
  <2> QED BY <1>1, <1>3, <2>1, <2>2 DEF CountsTasks, Announced
<1>9. NextIsNew'
  BY <1>1 DEF NextIsNew
<1>10. TS!Submit(next)
  BY <1>1, <1>2, <1>4 DEF TS!Submit, Pending
<1> QED BY <1>2, <1>7, <1>8, <1>9, <1>10

LEMMA NoTaskStep ==
  ASSUME PoolInv, NoTask
  PROVE  TasksOnce' /\ CountsTasks' /\ NextIsNew'
<1>1. Pending' = Pending
  BY DEF NoTask, Pending
<1> QED BY <1>1 DEF PoolInv, NoTask, TasksOnce, CountsTasks, NextIsNew, Announced

-----------------------------------------------------------------------------
\* The parts of the invariant about who sleeps, ends, or holds a mutex.
SleepInv ==
  MutexHeld /\ SleepsOrLeaves /\ OneAwake /\ CloseAsleep /\ StopIsLast

LEMMA SleepStep ==
  ASSUME PoolInv, [Next]_vars
  PROVE  SleepInv'
<1> USE ThreadPoolAssumption
<1>1. /\ worker \in [Worker -> {"lock", "test", "block", "asleep", "write", "done", "ended"}]
      /\ tasks \in Seq(Task)
      /\ MutexHeld /\ SleepsOrLeaves /\ OneAwake /\ CloseAsleep /\ StopIsLast
  BY DEF PoolInv, TypeOK
<1> USE <1>1 DEF SleepInv, MutexHeld, SleepsOrLeaves, OneAwake, CloseAsleep, StopIsLast
<1>2. ASSUME NEW w \in Worker, Lock(w)
      PROVE  SleepInv'
  BY <1>2 DEF Lock, group, history
<1>3. ASSUME NEW w \in Worker, Test(w)
      PROVE  SleepInv'
  BY <1>3 DEF Test, group, history
<1>4. ASSUME NEW w \in Worker, Block(w)
      PROVE  SleepInv'
  BY <1>4 DEF Block, group, history
<1>5. ASSUME NEW w \in Worker, WakeUp(w)
      PROVE  SleepInv'
  BY <1>5 DEF WakeUp, group, history
<1>6. ASSUME NEW w \in Worker, Leave(w)
      PROVE  SleepInv'
  BY <1>6 DEF Leave, MayLeave, group, history
<1>7. ASSUME NEW w \in Worker, Pop(w)
      PROVE  SleepInv'
  BY <1>7 DEF Pop, group, history
<1>8. ASSUME NEW w \in Worker, WriteSegment(w)
      PROVE  SleepInv'
  BY <1>8 DEF WriteSegment, group
<1>9. ASSUME NEW w \in Worker, Done(w)
      PROVE  SleepInv'
  BY <1>9 DEF Done, DoneMayLock, Notified, history
<1>10. CASE CloseBegins \/ WaitEmpty \/ WaitWakeUp
  BY <1>10 DEF CloseBegins, WaitEmpty, WaitWakeUp, pool, group, history
<1>11. CASE WaitTest \/ WaitBlock
  BY <1>11 DEF WaitTest, WaitBlock, pool, history
<1>12. ASSUME NEW t \in Task, Add(t)
      PROVE  SleepInv'
  BY <1>12 DEF Add, pool, history
<1>13. CASE Enqueue
  BY <1>13 DEF Enqueue, group
<1>14. CASE NotifyOne
  <2>1. \/ Asleep = {} /\ worker' = worker
        \/ \E w \in Worker : /\ worker[w] = "asleep"
                             /\ worker' = [worker EXCEPT ![w] = "lock"]
    BY <1>14 DEF NotifyOne, WithOneAwake, Asleep
  <2>2. CASE Asleep = {} /\ worker' = worker
    BY <1>14, <2>2 DEF NotifyOne, Asleep, group, history
  <2>3. ASSUME NEW w \in Worker, worker[w] = "asleep",
               worker' = [worker EXCEPT ![w] = "lock"]
        PROVE  SleepInv'
    BY <1>14, <2>3 DEF NotifyOne, group, history
  <2> QED BY <2>1, <2>2, <2>3
<1>15. CASE Stop
  BY <1>15 DEF Stop, StopMayLock, group, history
<1>16. CASE NotifyAll
  BY <1>16 DEF NotifyAll, Asleep, group, history
<1>17. CASE Join
  BY <1>17 DEF Join, pool, group, history
<1>18. CASE UNCHANGED vars
  BY <1>18 DEF vars, pool, group, history
<1> QED BY <1>2, <1>3, <1>4, <1>5, <1>6, <1>7, <1>8, <1>9, <1>10, <1>11, <1>12, <1>13,
           <1>14, <1>15, <1>16, <1>17, <1>18 DEF Next, WorkerStep, CloseStep

LEMMA NextPool == PoolInv /\ [Next]_vars => PoolInv'
<1> SUFFICES ASSUME PoolInv, [Next]_vars
             PROVE  PoolInv'
  OBVIOUS
<1>1. TasksOnce' /\ CountsTasks' /\ NextIsNew'
  BY Steps, NoTaskStep, PopStep, WriteSegmentStep, DoneStep, AddStep, EnqueueStep
<1> QED BY <1>1, TypeStep, SleepStep DEF PoolInv, SleepInv

LEMMA PoolInvariance == Spec => []PoolInv
BY InitPool, NextPool, PTL DEF Spec

-----------------------------------------------------------------------------
\* A close returns when n is 0: then everything handed over has been written.
LEMMA NothingPending ==
  ASSUME PoolInv, n <= 0
  PROVE  Pending = {}
<1>1. /\ IsFiniteSet(Pending)
      /\ Cardinality(Pending) \in Nat /\ Cardinality(Finishing) \in Nat
      /\ n = Cardinality(Pending) + Cardinality(Finishing) + Announced
      /\ Announced \in Nat
  BY FS_CardinalityType DEF PoolInv, CountsTasks, Announced
<1>2. Cardinality(Pending) = 0
  BY <1>1
<1> QED BY <1>1, <1>2, FS_EmptySet

LEMMA StepsOfTaskSet == PoolInv /\ [Next]_vars => [TS!Next]_(TS!vars)
<1> SUFFICES ASSUME PoolInv, [Next]_vars
             PROVE  [TS!Next]_(TS!vars)
  OBVIOUS
<1>1. ASSUME NEW w \in Worker, WriteSegment(w)
      PROVE  TS!Next
  BY <1>1, WriteSegmentStep DEF TS!Next
<1>2. CASE Enqueue
  BY <1>2, EnqueueStep DEF TS!Next
<1>3. CASE CloseBegins
  BY <1>3 DEF CloseBegins, history, TS!Next, TS!CloseBegins
<1>4. CASE WaitTest
  <2>1. CASE n > 0
    BY <1>4, <2>1 DEF WaitTest, history, TS!vars
  <2>2. CASE ~(n > 0)
    <3>1. Pending = {}
      BY <2>2, NothingPending DEF PoolInv, TypeOK
    <3> QED BY <1>4, <2>2, <3>1 DEF WaitTest, history, Pending, TS!Next, TS!CloseReturns
  <2> QED BY <2>1, <2>2
<1>5. ASSUME NEW w \in Worker,
             \/ Lock(w) \/ Test(w) \/ Block(w) \/ WakeUp(w) \/ Leave(w) \/ Pop(w) \/ Done(w)
      PROVE  UNCHANGED TS!vars
  BY <1>5 DEF Lock, Test, Block, WakeUp, Leave, Pop, Done, Notified, history, TS!vars
<1>6. CASE \/ \E t \in Task : Add(t)
           \/ NotifyOne \/ WaitEmpty \/ WaitBlock \/ WaitWakeUp
  BY <1>6 DEF Add, NotifyOne, WaitEmpty, WaitBlock, WaitWakeUp, history, TS!vars
<1>7. CASE Stop \/ NotifyAll \/ Join \/ UNCHANGED vars
  BY <1>7 DEF Stop, NotifyAll, Join, vars, history, TS!vars
<1> QED BY <1>1, <1>2, <1>3, <1>4, <1>5, <1>6, <1>7 DEF Next, WorkerStep, CloseStep

\* The pool does each task once, and a close returns only when all of the tasks it
\* handed over are done, whatever the number of threads and tasks: the safety part
\* of ImplementsTaskSet (ThreadPool, WaitGroup, closeWithMerge).
THEOREM TasksAreCarriedOut == Spec => TS!Init /\ [][TS!Next]_(TS!vars)
<1>1. Init => TS!Init
  BY DEF Init, TS!Init
<1>2. Spec => [][TS!Next]_(TS!vars)
  BY PoolInvariance, StepsOfTaskSet, PTL DEF Spec
<1> QED BY <1>1, <1>2 DEF Spec

\* Threads do not all sleep on a task, the close does not sleep on nothing, and no
\* thread sleeps once the pool was stopped: no notification comes too early
\* (ThreadPool, WaitGroup).
NoLostWakeUp ==
  /\ tasks # <<>> => close = "notify" \/ \E w \in Worker : worker[w] # "asleep"
  /\ close = "asleep" => n > 0
  /\ stop /\ exit # "notify" => \A w \in Worker : worker[w] # "asleep"

THEOREM WakeUpsAreNotLost == Spec => []NoLostWakeUp
<1>1. PoolInv => NoLostWakeUp
  BY DEF PoolInv, SleepsOrLeaves, OneAwake, CloseAsleep, NoLostWakeUp
<1> QED BY <1>1, PoolInvariance, PTL

\* When the destructor has joined the threads, nothing that was handed over is
\* left (~ThreadPool).
NothingLeft == exit = "ended" => tasks = <<>> /\ written = submitted

THEOREM ExitLeavesNothing == Spec => []NothingLeft
<1>1. ASSUME PoolInv, exit = "ended"
      PROVE  tasks = <<>> /\ written = submitted
  <2>1. \A w \in Worker : worker[w] = "ended"
    BY <1>1 DEF PoolInv, StopIsLast
  <2>2. tasks = <<>>
    BY <2>1, ThreadPoolAssumption, <1>1 DEF PoolInv, SleepsOrLeaves
  <2>3. Writing = {}
    BY <2>1 DEF Writing
  <2>4. Pending = {}
    BY <2>2, <2>3, <1>1 DEF PoolInv, TasksOnce
  <2> QED BY <2>2, <2>4, <1>1 DEF Pending, PoolInv, TypeOK
<1>2. PoolInv => NothingLeft
  BY <1>1 DEF NothingLeft
<1> QED BY <1>2, PoolInvariance, PTL
=============================================================================
