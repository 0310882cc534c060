----------------------------- MODULE ThreadPool -----------------------------
(***************************************************************************)
(* The class ThreadPool of thread_pool_server.h and thread_pool_server.cpp *)
(* : a queue of tasks, one mutex and one condition variable, a fixed set   *)
(* of worker threads, enqueue() and the destructor.                        *)
(*                                                                         *)
(* The atomic steps are the ones the C++ memory model gives: everything    *)
(* between lock and unlock is invisible to the threads that also take the  *)
(* mutex, but stop_ is a std::atomic that the destructor writes WITHOUT    *)
(* the mutex, so every load of stop_ inside a critical section is a step   *)
(* of its own.                                                             *)
(*                                                                         *)
(* Workers, Callers (threads that call enqueue) and Main (the caller that  *)
(* also owns the pool and runs its destructor) are threads; a task is      *)
(* passed to enqueue at most once, so that it can be followed.             *)
(***************************************************************************)
EXTENDS Naturals, Sequences

CONSTANTS
  ThreadCount,   \* the argument of the constructor
  Callers,       \* the threads that call enqueue
  Main,          \* the caller that destroys the pool
  Tasks,         \* the tasks that may be enqueued
  NoThread,      \* the mutex is free
  NoTask         \* a worker's local variable task holds nothing

\* A pool of zero threads is given one.
PoolSize == IF ThreadCount = 0 THEN 1 ELSE ThreadCount

Workers == 1 .. PoolSize

ASSUME PoolAssumption ==
  /\ ThreadCount \in Nat
  /\ Main \in Callers
  /\ Callers \cap Workers = {}
  /\ NoThread \notin Callers \cup Workers
  /\ NoTask \notin Tasks

VARIABLES
  mutex,      \* tasks_mutex_: the thread that holds it, or NoThread
  tasks,      \* tasks_
  stop,       \* stop_
  worker,     \* the point each worker thread has reached
  job,        \* the local variable task of each worker
  caller,     \* the point each caller has reached in enqueue
  arg,        \* the task each caller is enqueueing
  owner,      \* the point Main has reached in the destructor
  offered,    \* history: the tasks ever passed to enqueue
  accepted,   \* history: the tasks put in the queue, in that order
  started     \* history: the tasks taken from the queue, in that order

vars == <<mutex, tasks, stop, worker, job, caller, arg, owner,
          offered, accepted, started>>

WorkerState == {"start", "test", "block", "waiting", "take", "running", "exited"}
CallerState == {"idle", "testing", "emplacing", "notifying"}
OwnerState  == {"alive", "notifying", "joining", "destroyed"}

TypeOK ==
  /\ mutex \in Workers \cup Callers \cup {NoThread}
  /\ tasks \in Seq(Tasks)
  /\ stop \in BOOLEAN
  /\ worker \in [Workers -> WorkerState]
  /\ job \in [Workers -> Tasks \cup {NoTask}]
  /\ caller \in [Callers -> CallerState]
  /\ arg \in [Callers -> Tasks \cup {NoTask}]
  /\ owner \in OwnerState
  /\ offered \in SUBSET Tasks
  /\ accepted \in Seq(Tasks)
  /\ started \in Seq(Tasks)

Init ==
  /\ mutex = NoThread
  /\ tasks = <<>>
  /\ stop = FALSE
  /\ worker = [w \in Workers |-> "start"]
  /\ job = [w \in Workers |-> NoTask]
  /\ caller = [c \in Callers |-> "idle"]
  /\ arg = [c \in Callers |-> NoTask]
  /\ owner = "alive"
  /\ offered = {}
  /\ accepted = <<>>
  /\ started = <<>>

-----------------------------------------------------------------------------
(* The loop of a worker thread.                                            *)

\* unique_lock at the head of the loop, and the lock that wait() takes again.
WorkerLock(w) ==
  /\ worker[w] = "start"
  /\ mutex = NoThread
  /\ mutex' = w
  /\ worker' = [worker EXCEPT ![w] = "test"]
  /\ UNCHANGED <<tasks, stop, job, caller, arg, owner, offered, accepted, started>>

\* Mutant: the predicate forgets stop_.
WakeUpWithoutStop == tasks # <<>>

\* The predicate of wait(): stop_ or a task to run.
WakeUpCondition == stop \/ tasks # <<>>

\* Mutant: wait() without a predicate.
WorkerTestNothing(w) ==
  /\ worker[w] = "test"
  /\ worker' = [worker EXCEPT ![w] = "take"]
  /\ UNCHANGED <<mutex, tasks, stop, job, caller, arg, owner, offered, accepted, started>>

WorkerTest(w) ==
  /\ worker[w] = "test"
  /\ worker' = [worker EXCEPT ![w] = IF WakeUpCondition THEN "take" ELSE "block"]
  /\ UNCHANGED <<mutex, tasks, stop, job, caller, arg, owner, offered, accepted, started>>

\* wait() releases the mutex and starts to wait in one step.
WorkerBlock(w) ==
  /\ worker[w] = "block"
  /\ mutex' = NoThread
  /\ worker' = [worker EXCEPT ![w] = "waiting"]
  /\ UNCHANGED <<tasks, stop, job, caller, arg, owner, offered, accepted, started>>

\* A condition variable may wake without a notification.
SpuriousWakeup(w) ==
  /\ worker[w] = "waiting"
  /\ worker' = [worker EXCEPT ![w] = "start"]
  /\ UNCHANGED <<mutex, tasks, stop, job, caller, arg, owner, offered, accepted, started>>

\* Mutant: a worker leaves as soon as stop_ is set.
WorkerExitAtOnce(w) ==
  /\ worker[w] = "take"
  /\ stop
  /\ mutex' = NoThread
  /\ worker' = [worker EXCEPT ![w] = "exited"]
  /\ UNCHANGED <<tasks, stop, job, caller, arg, owner, offered, accepted, started>>

\* wait() has returned; stop_ is loaded a second time.
WorkerExit(w) ==
  /\ worker[w] = "take"
  /\ stop /\ tasks = <<>>
  /\ mutex' = NoThread
  /\ worker' = [worker EXCEPT ![w] = "exited"]
  /\ UNCHANGED <<tasks, stop, job, caller, arg, owner, offered, accepted, started>>

\* Mutant: the worker takes the task at the back of the queue.
WorkerTakeBack(w) ==
  /\ worker[w] = "take"
  /\ ~(stop /\ tasks = <<>>)
  /\ job' = [job EXCEPT ![w] = tasks[Len(tasks)]]
  /\ started' = Append(started, tasks[Len(tasks)])
  /\ tasks' = SubSeq(tasks, 1, Len(tasks) - 1)
  /\ mutex' = NoThread
  /\ worker' = [worker EXCEPT ![w] = "running"]
  /\ UNCHANGED <<stop, caller, arg, owner, offered, accepted>>

WorkerTake(w) ==
  /\ worker[w] = "take"
  /\ ~(stop /\ tasks = <<>>)
  /\ job' = [job EXCEPT ![w] = Head(tasks)]
  /\ started' = Append(started, Head(tasks))
  /\ tasks' = Tail(tasks)
  /\ mutex' = NoThread
  /\ worker' = [worker EXCEPT ![w] = "running"]
  /\ UNCHANGED <<stop, caller, arg, owner, offered, accepted>>

\* task() returns (an exception ends in the future) and task is destroyed.
WorkerFinish(w) ==
  /\ worker[w] = "running"
  /\ job' = [job EXCEPT ![w] = NoTask]
  /\ worker' = [worker EXCEPT ![w] = "start"]
  /\ UNCHANGED <<mutex, tasks, stop, caller, arg, owner, offered, accepted, started>>

-----------------------------------------------------------------------------
(* enqueue(), called by c with the task t.                                 *)

\* The object exists until the destructor has returned, and Main, which runs
\* the destructor, cannot call enqueue from within it.
MayCall(c) == owner # "destroyed" /\ (c = Main => owner = "alive")

EnqueueLock(c, t) ==
  /\ caller[c] = "idle"
  /\ MayCall(c)
  /\ t \notin offered
  /\ mutex = NoThread
  /\ mutex' = c
  /\ arg' = [arg EXCEPT ![c] = t]
  /\ offered' = offered \cup {t}
  /\ caller' = [caller EXCEPT ![c] = "testing"]
  /\ UNCHANGED <<tasks, stop, worker, job, owner, accepted, started>>

\* "enqueue on stopped ThreadPool"
EnqueueThrow(c) ==
  /\ caller[c] = "testing"
  /\ stop
  /\ mutex' = NoThread
  /\ arg' = [arg EXCEPT ![c] = NoTask]
  /\ caller' = [caller EXCEPT ![c] = "idle"]
  /\ UNCHANGED <<tasks, stop, worker, job, owner, offered, accepted, started>>

\* Mutant: enqueue does not look at stop_.
EnqueuePassBlindly(c) ==
  /\ caller[c] = "testing"
  /\ caller' = [caller EXCEPT ![c] = "emplacing"]
  /\ UNCHANGED <<mutex, tasks, stop, worker, job, arg, owner, offered, accepted, started>>

EnqueuePass(c) ==
  /\ caller[c] = "testing"
  /\ ~stop
  /\ caller' = [caller EXCEPT ![c] = "emplacing"]
  /\ UNCHANGED <<mutex, tasks, stop, worker, job, arg, owner, offered, accepted, started>>

EnqueueEmplace(c) ==
  /\ caller[c] = "emplacing"
  /\ tasks' = Append(tasks, arg[c])
  /\ accepted' = Append(accepted, arg[c])
  /\ mutex' = NoThread
  /\ arg' = [arg EXCEPT ![c] = NoTask]
  /\ caller' = [caller EXCEPT ![c] = "notifying"]
  /\ UNCHANGED <<stop, worker, job, owner, offered, started>>

Waiting == {w \in Workers : worker[w] = "waiting"}

\* Mutant: notify_one() is forgotten.
EnqueueNoNotify(c) ==
  /\ caller[c] = "notifying"
  /\ caller' = [caller EXCEPT ![c] = "idle"]
  /\ UNCHANGED <<mutex, tasks, stop, worker, job, arg, owner, offered, accepted, started>>

\* notify_one() after the mutex is released; it is lost if nobody waits.
EnqueueNotify(c) ==
  /\ caller[c] = "notifying"
  /\ IF Waiting = {}
       THEN UNCHANGED worker
       ELSE \E w \in Waiting : worker' = [worker EXCEPT ![w] = "start"]
  /\ caller' = [caller EXCEPT ![c] = "idle"]
  /\ UNCHANGED <<mutex, tasks, stop, job, arg, owner, offered, accepted, started>>

-----------------------------------------------------------------------------
(* ~ThreadPool(), run by Main.                                             *)

\* stop_ is stored without the mutex.
DestructorStop ==
  /\ owner = "alive"
  /\ caller[Main] = "idle"
  /\ stop' = TRUE
  /\ owner' = "notifying"
  /\ UNCHANGED <<mutex, tasks, worker, job, caller, arg, offered, accepted, started>>

\* notify_all() reaches the workers that wait now, and no other.
DestructorNotify ==
  /\ owner = "notifying"
  /\ worker' = [w \in Workers |-> IF w \in Waiting THEN "start" ELSE worker[w]]
  /\ owner' = "joining"
  /\ UNCHANGED <<mutex, tasks, stop, job, caller, arg, offered, accepted, started>>

\* The joins return once every worker has returned.
DestructorJoin ==
  /\ owner = "joining"
  /\ \A w \in Workers : worker[w] = "exited"
  /\ owner' = "destroyed"
  /\ UNCHANGED <<mutex, tasks, stop, worker, job, caller, arg, offered, accepted, started>>

-----------------------------------------------------------------------------

\* What a worker does on its own, but for the task it runs.
WorkerLoop(w) ==
  \/ WorkerLock(w)
  \/ WorkerTest(w)
  \/ WorkerBlock(w)
  \/ WorkerExit(w)
  \/ WorkerTake(w)

EnqueueSteps(c) ==
  \/ EnqueueThrow(c)
  \/ EnqueuePass(c)
  \/ EnqueueEmplace(c)
  \/ EnqueueNotify(c)

Next ==
  \/ \E w \in Workers : WorkerLoop(w) \/ WorkerFinish(w) \/ SpuriousWakeup(w)
  \/ \E c \in Callers : EnqueueSteps(c) \/ \E t \in Tasks : EnqueueLock(c, t)
  \/ DestructorStop
  \/ DestructorNotify
  \/ DestructorJoin

(***************************************************************************)
(* A thread that can run does run, a task that runs returns, and a thread  *)
(* that asks for the mutex again and again gets it (no thread is starved   *)
(* by the scheduler).  Nothing forces a caller to call, the owner to       *)
(* destroy the pool, or a condition variable to wake for no reason.        *)
(***************************************************************************)
Fairness ==
  /\ \A w \in Workers :
       /\ SF_vars(WorkerLock(w))
       /\ WF_vars(WorkerTest(w))
       /\ WF_vars(WorkerBlock(w))
       /\ WF_vars(WorkerExit(w))
       /\ WF_vars(WorkerTake(w))
       /\ WF_vars(WorkerFinish(w))
  /\ \A c \in Callers : WF_vars(EnqueueSteps(c))
  /\ WF_vars(DestructorNotify)
  /\ WF_vars(DestructorJoin)

Spec == Init /\ [][Next]_vars

FairSpec == Spec /\ Fairness

-----------------------------------------------------------------------------
(* Properties.                                                             *)

\* Hand-off through tasks_ is first in, first out, and loses and repeats
\* nothing: what was emplaced is what was popped followed by what is queued.
FifoHandOff == accepted = started \o tasks

\* A worker that returned from wait() never calls front() on an empty queue
\* unless it is about to leave because of stop_, although stop_ may change
\* between the predicate and the second test.
FrontIsSafe == \A w \in Workers : worker[w] = "take" => WakeUpCondition

\* No wake-up of enqueue is lost: while a task is queued, some worker is on
\* its way to it or a notify_one() is still to come.
NoStrandedTask ==
  tasks # <<>> =>
    \/ \E w \in Workers : worker[w] \notin {"block", "waiting", "exited"}
    \/ \E c \in Callers : caller[c] = "notifying"

\* The destructor returns only when every task that enqueue accepted was run
\* to its end, even one accepted while stop_ was being set.
DrainedWhenDestroyed ==
  owner = "destroyed" =>
    /\ started = accepted
    /\ \A w \in Workers : job[w] = NoTask
    /\ \A c \in Callers : caller[c] # "emplacing"

\* enqueue's check of stop_ under the mutex: once a worker has left, nothing is
\* accepted any more.
NothingAcceptedAfterExit ==
  [][accepted' # accepted => \A w \in Workers : worker[w] # "exited"]_vars

Ran(t) ==
  /\ \E i \in 1 .. Len(started) : started[i] = t
  /\ \A w \in Workers : job[w] # t

\* A task that enqueue accepted is run to its end, whether or not the pool is
\* being destroyed meanwhile.
AcceptedTaskRuns ==
  \A t \in Tasks : (\E i \in 1 .. Len(accepted) : accepted[i] = t) ~> Ran(t)

\* The destructor returns if its notify_all() found no worker between a test of
\* the predicate made before stop_ was set and the wait.
QuietJoinReturns ==
  (owner = "joining" /\ \A w \in Workers : worker[w] \notin {"block", "waiting"})
    ~> (owner = "destroyed")

=============================================================================
