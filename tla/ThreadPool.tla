----------------------------- MODULE ThreadPool -----------------------------
(***************************************************************************)
(* The thread pool that writes the segments of a close, with the           *)
(* WaitGroup through which the close waits for it: mutexes, condition      *)
(* variables, threads that sleep, and the destructor that ends them when   *)
(* the process exits.  One close at a time uses it, since closeWithMerge   *)
(* holds global_lock.                                                      *)
(*                                                                         *)
(* A thread that waits on a condition variable may wake up without having  *)
(* been notified.                                                          *)
(***************************************************************************)
EXTENDS Integers, Sequences, FiniteSets

CONSTANTS
  Worker,
  Task,       \* writeSegmentToDisk of a segment
  Nobody

ASSUME ThreadPoolAssumption ==
  /\ Worker # {}     \* hardware_concurrency() may be 0: then no task is ever run
  /\ Nobody \notin Worker

VARIABLES
  tasks,       \* ThreadPool::tasks_
  stop,        \* ThreadPool::stop_
  queueMutex,  \* who holds queue_mutex_ across steps
  worker,      \* the control state of each thread
  task,        \* its local variable
  n,           \* WaitGroup::n
  wgMutex,     \* whether the close holds WaitGroup::mtx across steps
  close,       \* the control state of the close
  next,        \* the task it is handing over
  exit,        \* the control state of ~ThreadPool
  submitted,   \* history: the tasks handed over, and those carried out
  written

pool == <<tasks, stop, queueMutex, worker, task>>
group == <<n, wgMutex>>
history == <<submitted, written>>
vars == <<pool, group, close, next, exit, history>>

Init ==
  /\ tasks = <<>> /\ stop = FALSE /\ queueMutex = Nobody
  /\ worker = [w \in Worker |-> "lock"] /\ task = [w \in Worker |-> Nobody]
  /\ n = 0 /\ wgMutex = FALSE
  /\ close = "none" /\ next = Nobody
  /\ exit = "none"
  /\ submitted = {} /\ written = {}

-----------------------------------------------------------------------------
\* A thread of the pool.

Lock(w) ==
  /\ worker[w] = "lock" /\ queueMutex = Nobody
  /\ queueMutex' = w
  /\ worker' = [worker EXCEPT ![w] = "test"]
  /\ UNCHANGED <<tasks, stop, task, group, close, next, exit, history>>

\* The predicate of the wait does not hold: the thread will sleep.  It has the
\* mutex until it does.
Test(w) ==
  /\ worker[w] = "test" /\ tasks = <<>> /\ ~stop
  /\ worker' = [worker EXCEPT ![w] = "block"]
  /\ UNCHANGED <<tasks, stop, queueMutex, task, group, close, next, exit, history>>

Block(w) ==
  /\ worker[w] = "block"
  /\ worker' = [worker EXCEPT ![w] = "asleep"]
  /\ queueMutex' = Nobody
  /\ UNCHANGED <<tasks, stop, task, group, close, next, exit, history>>

WakeUp(w) ==
  /\ worker[w] = "asleep"
  /\ worker' = [worker EXCEPT ![w] = "lock"]
  /\ UNCHANGED <<tasks, stop, queueMutex, task, group, close, next, exit, history>>

\* A stopped pool still empties its queue.
MayLeave == stop /\ tasks = <<>>

Leave(w) ==
  /\ worker[w] = "test" /\ MayLeave
  /\ worker' = [worker EXCEPT ![w] = "ended"]
  /\ queueMutex' = Nobody
  /\ UNCHANGED <<tasks, stop, task, group, close, next, exit, history>>

Pop(w) ==
  /\ worker[w] = "test" /\ tasks # <<>> /\ ~MayLeave
  /\ task' = [task EXCEPT ![w] = Head(tasks)]
  /\ tasks' = Tail(tasks)
  /\ queueMutex' = Nobody
  /\ worker' = [worker EXCEPT ![w] = "write"]
  /\ UNCHANGED <<stop, group, close, next, exit, history>>

\* The task: writeSegmentToDisk, and then done of the WaitGroup, which notifies
\* the close.
WriteSegment(w) ==
  /\ worker[w] = "write"
  /\ written' = written \cup {task[w]}
  /\ worker' = [worker EXCEPT ![w] = "done"]
  /\ UNCHANGED <<tasks, stop, queueMutex, task, group, close, next, exit, submitted>>

DoneMayLockAlways == TRUE
DoneMayLock == ~wgMutex

Notified == IF close = "asleep" THEN "waitLock" ELSE close

Done(w) ==
  /\ worker[w] = "done" /\ DoneMayLock
  /\ n' = n - 1
  /\ close' = Notified
  /\ task' = [task EXCEPT ![w] = Nobody]
  /\ worker' = [worker EXCEPT ![w] = "lock"]
  /\ UNCHANGED <<tasks, stop, queueMutex, wgMutex, next, exit, history>>

-----------------------------------------------------------------------------
\* The end of closeWithMerge: for every segment add(1) and enqueue, then
\* waitEmpty.

CloseBegins ==
  /\ close = "none" /\ exit = "none"
  /\ close' = "submit"
  /\ UNCHANGED <<pool, group, next, exit, history>>

Add(t) ==
  /\ close = "submit" /\ ~wgMutex
  /\ t \notin submitted
  /\ n' = n + 1
  /\ next' = t
  /\ close' = "enqueue"
  /\ UNCHANGED <<pool, wgMutex, exit, history>>

Enqueue ==
  /\ close = "enqueue" /\ queueMutex = Nobody
  /\ tasks' = Append(tasks, next)
  /\ submitted' = submitted \cup {next}
  /\ next' = Nobody
  /\ close' = "notify"
  /\ UNCHANGED <<stop, queueMutex, worker, task, group, exit, written>>

Asleep == {w \in Worker : worker[w] = "asleep"}

NobodyAwake == {worker}
WithOneAwake ==
  IF Asleep = {} THEN {worker} ELSE {[worker EXCEPT ![w] = "lock"] : w \in Asleep}

NotifyOne ==
  /\ close = "notify"
  /\ worker' \in WithOneAwake
  /\ close' = "submit"
  /\ UNCHANGED <<tasks, stop, queueMutex, task, group, next, exit, history>>

WaitEmpty ==
  /\ close = "submit"
  /\ close' = "waitLock"
  /\ UNCHANGED <<pool, group, next, exit, history>>

WaitTest ==
  /\ close = "waitLock" /\ ~wgMutex
  /\ IF n > 0 THEN close' = "waitBlock" /\ wgMutex' = TRUE
     ELSE close' = "none" /\ UNCHANGED wgMutex
  /\ UNCHANGED <<pool, n, next, exit, history>>

WaitBlock ==
  /\ close = "waitBlock"
  /\ close' = "asleep" /\ wgMutex' = FALSE
  /\ UNCHANGED <<pool, n, next, exit, history>>

WaitWakeUp ==
  /\ close = "asleep"
  /\ close' = "waitLock"
  /\ UNCHANGED <<pool, group, next, exit, history>>

-----------------------------------------------------------------------------
\* ~ThreadPool, when the process exits, which it does not while a close is
\* handing over tasks.

StopMayLockAlways == TRUE
StopMayLock == queueMutex = Nobody

Stop ==
  /\ exit = "none" /\ close \notin {"enqueue", "notify", "submit"}
  /\ StopMayLock
  /\ stop' = TRUE
  /\ exit' = "notify"
  /\ UNCHANGED <<tasks, queueMutex, worker, task, group, close, next, history>>

NotifyAll ==
  /\ exit = "notify"
  /\ worker' = [w \in Worker |-> IF w \in Asleep THEN "lock" ELSE worker[w]]
  /\ exit' = "join"
  /\ UNCHANGED <<tasks, stop, queueMutex, task, group, close, next, history>>

Join ==
  /\ exit = "join" /\ \A w \in Worker : worker[w] = "ended"
  /\ exit' = "ended"
  /\ UNCHANGED <<pool, group, close, next, history>>

WorkerStep(w) ==
  Test(w) \/ Block(w) \/ Leave(w) \/ Pop(w) \/ WriteSegment(w) \/ Done(w)

CloseStep == Enqueue \/ NotifyOne \/ WaitEmpty \/ WaitTest \/ WaitBlock

Next ==
  \/ \E w \in Worker : Lock(w) \/ WakeUp(w) \/ WorkerStep(w)
  \/ CloseBegins \/ \E t \in Task : Add(t)
  \/ CloseStep \/ WaitWakeUp
  \/ Stop \/ NotifyAll \/ Join

\* Threads that run go on, and one that wants a mutex gets it in the end;
\* nobody has to close or exit, and nobody wakes up unless notified.
Fairness ==
  /\ \A w \in Worker : WF_vars(WorkerStep(w)) /\ SF_vars(Lock(w)) /\ SF_vars(Done(w))
  /\ SF_vars(CloseStep)
  /\ WF_vars(NotifyAll \/ Join)

Spec == Init /\ [][Next]_vars
FairSpec == Spec /\ Fairness

-----------------------------------------------------------------------------
\* The pool does what Database takes it for: each task once, in any order, none
\* forgotten, and a close that returns has had all of its tasks carried out
\* (ThreadPool, WaitGroup, closeWithMerge).
TS == INSTANCE TaskSet WITH pending <- submitted \ written, finished <- written,
                            closing <- close # "none"

ImplementsTaskSet == TS!Spec

\* waitEmpty returns: no notification of done is lost (WaitGroup::waitEmpty).
CloseReturns == close = "waitLock" ~> close = "none"

\* Leaving the process waits for the threads of the pool, and ends: no thread
\* sleeps through the notification, and no task is left in the queue
\* (~ThreadPool).
ExitEnds == stop ~> (exit = "ended" /\ tasks = <<>> /\ written = submitted)
=============================================================================
