-------------------------- MODULE ThreadPoolProofs --------------------------
(***************************************************************************)
(* What ThreadPool guarantees for every number of workers, callers and     *)
(* tasks.  One inductive invariant, PoolInv, carries the theorems on the   *)
(* runs' properties; OnceInv, on top of it, follows each single task.      *)
(***************************************************************************)
EXTENDS ThreadPool, SequenceTheorems, TLAPS

\* Who holds tasks_mutex_ is exactly who is inside a critical section.
LockInv ==
  /\ \A w \in Workers : worker[w] \in {"test", "block", "take"} <=> mutex = w
  /\ \A c \in Callers : caller[c] \in {"testing", "emplacing"} <=> mutex = c

\* A worker that is about to wait saw an empty queue and still holds the mutex.
BlockInv == \A w \in Workers : worker[w] = "block" => tasks = <<>>

\* A worker leaves a stopped and empty pool, and no caller can still emplace:
\* its load of stop_ would have had to come before, under the mutex.
ExitInv ==
  \A w \in Workers : worker[w] = "exited" =>
    /\ stop
    /\ tasks = <<>>
    /\ \A c \in Callers : caller[c] # "emplacing"

\* The locals of the threads, and what each stage of the destructor implies.
LocalInv ==
  /\ \A c \in Callers : caller[c] \in {"testing", "emplacing"} => arg[c] \in Tasks
  /\ \A w \in Workers : job[w] # NoTask => worker[w] = "running"
  /\ owner = "destroyed" => \A w \in Workers : worker[w] = "exited"

PoolInv ==
  /\ TypeOK
  /\ FifoHandOff
  /\ LockInv
  /\ BlockInv
  /\ FrontIsSafe
  /\ ExitInv
  /\ LocalInv
  /\ NoStrandedTask

-----------------------------------------------------------------------------

\* The constructor's clamp: the pool always has a worker.
LEMMA PoolHasWorker == PoolSize \in Nat /\ 1 \in Workers
  BY PoolAssumption DEF PoolSize, Workers

\* A thread is a worker or a caller, and never nobody.
LEMMA ThreadsDistinct ==
  /\ \A w \in Workers, c \in Callers : w # c
  /\ NoThread \notin Workers
  /\ NoThread \notin Callers
  BY PoolAssumption

\* Moving the head of one sequence to the end of another keeps their
\* concatenation.
LEMMA MoveHead ==
  ASSUME NEW S, NEW s \in Seq(S), NEW t \in Seq(S), t # <<>>
  PROVE  /\ Head(t) \in S
         /\ Tail(t) \in Seq(S)
         /\ Append(s, Head(t)) \in Seq(S)
         /\ Append(s, Head(t)) \o Tail(t) = s \o t
  OBVIOUS

\* Appending at the end of a concatenation.
LEMMA AppendRight ==
  ASSUME NEW S, NEW s \in Seq(S), NEW t \in Seq(S), NEW e \in S
  PROVE  s \o Append(t, e) = Append(s \o t, e)
  OBVIOUS

-----------------------------------------------------------------------------

\* The pool starts with the invariant.
LEMMA InitPoolInv == Init => PoolInv
  <1> SUFFICES ASSUME Init PROVE PoolInv
    OBVIOUS
  <1>1. TypeOK
    <2>1. <<>> \in Seq(Tasks)
      OBVIOUS
    <2>2. QED
      BY <2>1 DEF Init, TypeOK, WorkerState, CallerState, OwnerState
  <1>2. FifoHandOff
    BY DEF Init, FifoHandOff
  <1>3. LockInv /\ BlockInv /\ FrontIsSafe /\ ExitInv /\ LocalInv /\ NoStrandedTask
    BY ThreadsDistinct
       DEF Init, LockInv, BlockInv, FrontIsSafe, ExitInv, LocalInv, NoStrandedTask
  <1>4. QED
    BY <1>1, <1>2, <1>3 DEF PoolInv

\* Every step of a worker keeps the invariant.
LEMMA WorkerStep ==
  ASSUME PoolInv, NEW w \in Workers,
         WorkerLoop(w) \/ WorkerFinish(w) \/ SpuriousWakeup(w)
  PROVE  PoolInv'
  <1> USE ThreadsDistinct
          DEF PoolInv, TypeOK, WorkerState, CallerState, OwnerState, LockInv, BlockInv,
              FrontIsSafe, WakeUpCondition, ExitInv, LocalInv, NoStrandedTask
  <1>1. CASE WorkerLock(w)
    BY <1>1 DEF WorkerLock, FifoHandOff
  <1>2. CASE WorkerTest(w)
    BY <1>2 DEF WorkerTest, FifoHandOff
  <1>3. CASE WorkerBlock(w)
    BY <1>3 DEF WorkerBlock, FifoHandOff
  <1>4. CASE WorkerExit(w)
    BY <1>4 DEF WorkerExit, FifoHandOff
  <1>5. CASE WorkerTake(w)
    <2>1. tasks # <<>>
      BY <1>5 DEF WorkerTake
    <2>2. /\ Head(tasks) \in Tasks
          /\ Tail(tasks) \in Seq(Tasks)
          /\ Append(started, Head(tasks)) \in Seq(Tasks)
          /\ Append(started, Head(tasks)) \o Tail(tasks) = started \o tasks
      BY <2>1, MoveHead
    <2>3. TypeOK'
      BY <1>5, <2>2 DEF WorkerTake
    <2>4. FifoHandOff'
      BY <1>5, <2>2 DEF WorkerTake, FifoHandOff
    <2>5. LockInv' /\ BlockInv' /\ FrontIsSafe' /\ LocalInv'
      BY <1>5 DEF WorkerTake
    <2>6. ExitInv' /\ NoStrandedTask'
      BY <1>5, <2>1 DEF WorkerTake
    <2>7. QED
      BY <2>3, <2>4, <2>5, <2>6
  <1>6. CASE WorkerFinish(w)
    BY <1>6 DEF WorkerFinish, FifoHandOff
  <1>7. CASE SpuriousWakeup(w)
    BY <1>7 DEF SpuriousWakeup, FifoHandOff
  <1>8. QED
    BY <1>1, <1>2, <1>3, <1>4, <1>5, <1>6, <1>7 DEF WorkerLoop

\* Every step of enqueue keeps the invariant.
LEMMA CallerStep ==
  ASSUME PoolInv, NEW c \in Callers,
         EnqueueSteps(c) \/ \E t \in Tasks : EnqueueLock(c, t)
  PROVE  PoolInv'
  <1> USE ThreadsDistinct
          DEF PoolInv, TypeOK, WorkerState, CallerState, OwnerState, LockInv, BlockInv,
              FrontIsSafe, WakeUpCondition, ExitInv, LocalInv, NoStrandedTask
  <1>1. ASSUME NEW t \in Tasks, EnqueueLock(c, t)
        PROVE  PoolInv'
    BY <1>1 DEF EnqueueLock, FifoHandOff
  <1>2. CASE EnqueueThrow(c)
    BY <1>2 DEF EnqueueThrow, FifoHandOff
  <1>3. CASE EnqueuePass(c)
    BY <1>3 DEF EnqueuePass, FifoHandOff
  <1>4. CASE EnqueueEmplace(c)
    <2>1. /\ arg[c] \in Tasks
          /\ started \o Append(tasks, arg[c]) = Append(started \o tasks, arg[c])
      BY <1>4, AppendRight DEF EnqueueEmplace
    <2>2. TypeOK'
      BY <1>4, <2>1 DEF EnqueueEmplace
    <2>3. FifoHandOff'
      BY <1>4, <2>1 DEF EnqueueEmplace, FifoHandOff
    <2>4. LockInv' /\ BlockInv' /\ FrontIsSafe' /\ LocalInv'
      BY <1>4 DEF EnqueueEmplace
    <2>5. ExitInv' /\ NoStrandedTask'
      BY <1>4 DEF EnqueueEmplace
    <2>6. QED
      BY <2>2, <2>3, <2>4, <2>5
  <1>5. CASE EnqueueNotify(c)
    <2>1. CASE Waiting = {}
      BY <1>5, <2>1, PoolHasWorker DEF EnqueueNotify, Waiting, FifoHandOff
    <2>2. CASE Waiting # {}
      BY <1>5, <2>2 DEF EnqueueNotify, Waiting, FifoHandOff
    <2>3. QED
      BY <2>1, <2>2
  <1>6. QED
    BY <1>1, <1>2, <1>3, <1>4, <1>5 DEF EnqueueSteps

\* Every step of the destructor keeps the invariant.
LEMMA DestructorStep ==
  ASSUME PoolInv, DestructorStop \/ DestructorNotify \/ DestructorJoin
  PROVE  PoolInv'
  <1> USE ThreadsDistinct
          DEF PoolInv, TypeOK, WorkerState, CallerState, OwnerState, LockInv, BlockInv,
              FrontIsSafe, WakeUpCondition, ExitInv, LocalInv, NoStrandedTask
  <1>1. CASE DestructorStop
    BY <1>1 DEF DestructorStop, FifoHandOff
  <1>2. CASE DestructorNotify
    BY <1>2 DEF DestructorNotify, Waiting, FifoHandOff
  <1>3. CASE DestructorJoin
    BY <1>3 DEF DestructorJoin, FifoHandOff
  <1>4. QED
    BY <1>1, <1>2, <1>3

\* PoolInv is an invariant of the pool.
THEOREM PoolInvariant == Spec => []PoolInv
  <1>1. PoolInv /\ [Next]_vars => PoolInv'
    <2> SUFFICES ASSUME PoolInv, [Next]_vars PROVE PoolInv'
      OBVIOUS
    <2>1. CASE Next
      BY <2>1, WorkerStep, CallerStep, DestructorStep DEF Next
    <2>2. CASE UNCHANGED vars
      BY <2>2 DEF vars, PoolInv, TypeOK, FifoHandOff, LockInv, BlockInv, FrontIsSafe,
                  WakeUpCondition, ExitInv, LocalInv, NoStrandedTask
    <2>3. QED
      BY <2>1, <2>2
  <1>2. QED
    BY <1>1, InitPoolInv, PTL DEF Spec

-----------------------------------------------------------------------------

\* Every variable keeps its type, for every number of threads and tasks.
THEOREM TypeTheorem == Spec => []TypeOK
  BY PoolInvariant, PTL DEF PoolInv

\* No task is lost, repeated or reordered between enqueue and the workers.
THEOREM FifoTheorem == Spec => []FifoHandOff
  BY PoolInvariant, PTL DEF PoolInv

\* front() is never called on an empty queue.
THEOREM FrontTheorem == Spec => []FrontIsSafe
  BY PoolInvariant, PTL DEF PoolInv

\* enqueue's notify_one() is enough: a queued task always has a worker coming.
THEOREM StrandedTheorem == Spec => []NoStrandedTask
  BY PoolInvariant, PTL DEF PoolInv

\* The destructor returns only after every accepted task was run.
THEOREM DrainTheorem == Spec => []DrainedWhenDestroyed
  <1>1. PoolInv => DrainedWhenDestroyed
    <2> SUFFICES ASSUME PoolInv, owner = "destroyed"
                 PROVE  /\ started = accepted
                        /\ \A w \in Workers : job[w] = NoTask
                        /\ \A c \in Callers : caller[c] # "emplacing"
      BY DEF DrainedWhenDestroyed
    <2>1. \A w \in Workers : worker[w] = "exited"
      BY DEF PoolInv, LocalInv
    <2>2. tasks = <<>> /\ \A c \in Callers : caller[c] # "emplacing"
      BY <2>1, PoolHasWorker DEF PoolInv, ExitInv
    <2>3. started = accepted
      BY <2>2 DEF PoolInv, FifoHandOff, TypeOK
    <2>4. \A w \in Workers : job[w] = NoTask
      BY <2>1 DEF PoolInv, LocalInv
    <2>5. QED
      BY <2>2, <2>3, <2>4
  <1>2. QED
    BY <1>1, PoolInvariant, PTL

\* Only emplacing extends the history of accepted tasks.
LEMMA AcceptingStep ==
  ASSUME PoolInv, [Next]_vars, accepted' # accepted
  PROVE  \A w \in Workers : worker[w] # "exited"
  <1>1. PICK c \in Callers : EnqueueEmplace(c)
    BY DEF Next, vars, WorkerLoop, WorkerLock, WorkerTest, WorkerBlock, WorkerExit,
           WorkerTake, WorkerFinish, SpuriousWakeup, EnqueueSteps, EnqueueLock,
           EnqueueThrow, EnqueuePass, EnqueueNotify, DestructorStop,
           DestructorNotify, DestructorJoin
  <1>2. QED
    BY <1>1 DEF EnqueueEmplace, PoolInv, ExitInv

\* Once a worker has left the pool, enqueue accepts nothing any more.
THEOREM ExitTheorem == Spec => NothingAcceptedAfterExit
  <1>1. PoolInv /\ [Next]_vars
          => [accepted' # accepted => \A w \in Workers : worker[w] # "exited"]_vars
    BY AcceptingStep
  <1>2. QED
    BY <1>1, PoolInvariant, PTL DEF Spec, NothingAcceptedAfterExit

-----------------------------------------------------------------------------
(* Each task is run once.                                                  *)

\* A task is with its caller until it is accepted; it is accepted once, and with a
\* worker only after it was taken from the queue.
OnceInv ==
  /\ \A c \in Callers : arg[c] # NoTask =>
       /\ arg[c] \in offered
       /\ \A d \in Callers : arg[d] = arg[c] => d = c
       /\ \A i \in 1 .. Len(accepted) : accepted[i] # arg[c]
  /\ \A i \in 1 .. Len(accepted) :
       /\ accepted[i] \in offered
       /\ \A j \in 1 .. Len(accepted) : accepted[i] = accepted[j] => i = j
  /\ \A w \in Workers : job[w] # NoTask =>
       /\ \E i \in 1 .. Len(started) : started[i] = job[w]
       /\ \A v \in Workers : job[v] = job[w] => v = w

\* The head of the queue was accepted behind all that was started.
LEMMA HeadIsNew ==
  ASSUME PoolInv, OnceInv, tasks # <<>>
  PROVE  \A i \in 1 .. Len(started) : started[i] # Head(tasks)
  <1>1. started \in Seq(Tasks) /\ tasks \in Seq(Tasks) /\ accepted = started \o tasks
    BY DEF PoolInv, TypeOK, FifoHandOff
  <1>2. /\ Len(started) + 1 \in 1 .. Len(accepted)
        /\ accepted[Len(started) + 1] = Head(tasks)
        /\ \A i \in 1 .. Len(started) : i \in 1 .. Len(accepted) /\ accepted[i] = started[i]
    BY <1>1
  <1>3. ASSUME NEW i \in 1 .. Len(started), started[i] = Head(tasks)
        PROVE  FALSE
    <2>1. i = Len(started) + 1
      BY <1>2, <1>3 DEF OnceInv
    <2>2. QED
      BY <1>1, <2>1
  <1>4. QED
    BY <1>3

\* A worker takes a task that no worker has had.
LEMMA TakeOnceInv ==
  ASSUME PoolInv, OnceInv, NEW w \in Workers, WorkerTake(w)
  PROVE  OnceInv'
  <1>1. /\ tasks # <<>>
        /\ job' = [job EXCEPT ![w] = Head(tasks)]
        /\ started' = Append(started, Head(tasks))
        /\ UNCHANGED <<arg, offered, accepted>>
    BY DEF WorkerTake, PoolInv, FrontIsSafe, WakeUpCondition
  <1>2. /\ started \in Seq(Tasks) /\ Head(tasks) \in Tasks
        /\ job \in [Workers -> Tasks \cup {NoTask}]
    BY <1>1, MoveHead DEF PoolInv, TypeOK
  <1>3. /\ Len(started') = Len(started) + 1
        /\ started'[Len(started) + 1] = Head(tasks)
        /\ \A i \in 1 .. Len(started) : started'[i] = started[i]
    BY <1>1, <1>2
  <1>4. \A v \in Workers : job[v] # Head(tasks)
    BY <1>1, <1>2, HeadIsNew, PoolAssumption DEF OnceInv
  <1>5. \A v \in Workers : v # w => job'[v] = job[v]
    BY <1>1, <1>2
  <1>6. job'[w] = Head(tasks)
    BY <1>1, <1>2
  <1>7. ASSUME NEW v \in Workers, job'[v] # NoTask
        PROVE  /\ \E i \in 1 .. Len(started') : started'[i] = job'[v]
               /\ \A u \in Workers : job'[u] = job'[v] => u = v
    <2>1. CASE v = w
      <3>1. Len(started) + 1 \in 1 .. Len(started')
        BY <1>2, <1>3
      <3>2. QED
        BY <1>3, <1>4, <1>5, <1>6, <2>1, <3>1
    <2>2. CASE v # w
      <3>1. PICK i \in 1 .. Len(started) : started[i] = job[v]
        BY <1>5, <1>7, <2>2 DEF OnceInv
      <3>2. i \in 1 .. Len(started') /\ started'[i] = job'[v]
        BY <1>2, <1>3, <1>5, <2>2, <3>1
      <3>3. \A u \in Workers : job'[u] = job'[v] => u = v
        BY <1>4, <1>5, <1>6, <1>7, <2>2 DEF OnceInv
      <3>4. QED
        BY <3>2, <3>3
    <2>3. QED
      BY <2>1, <2>2
  <1>8. QED
    BY <1>1, <1>7 DEF OnceInv

\* enqueue puts a task into the queue that is not, and was not, there.
LEMMA EmplaceOnceInv ==
  ASSUME PoolInv, OnceInv, NEW c \in Callers, EnqueueEmplace(c)
  PROVE  OnceInv'
  <1>1. /\ accepted' = Append(accepted, arg[c])
        /\ arg' = [arg EXCEPT ![c] = NoTask]
        /\ UNCHANGED <<job, started, offered>>
    BY DEF EnqueueEmplace
  <1>2. /\ arg[c] \in Tasks /\ arg[c] # NoTask
        /\ accepted \in Seq(Tasks) /\ arg \in [Callers -> Tasks \cup {NoTask}]
    BY PoolAssumption DEF EnqueueEmplace, PoolInv, TypeOK, LocalInv
  <1>3. /\ Len(accepted') = Len(accepted) + 1
        /\ accepted'[Len(accepted) + 1] = arg[c]
        /\ \A i \in 1 .. Len(accepted) : accepted'[i] = accepted[i]
    BY <1>1, <1>2
  <1>4. /\ arg[c] \in offered
        /\ \A d \in Callers : arg[d] = arg[c] => d = c
        /\ \A i \in 1 .. Len(accepted) : accepted[i] # arg[c]
    BY <1>2 DEF OnceInv
  <1>5. ASSUME NEW d \in Callers, arg'[d] # NoTask
        PROVE  d # c /\ arg'[d] = arg[d] /\ arg[d] # arg[c]
    BY <1>1, <1>2, <1>4, <1>5
  <1>6. \A i \in 1 .. Len(accepted') : i \in 1 .. Len(accepted) \/ i = Len(accepted) + 1
    BY <1>2, <1>3
  <1>7. ASSUME NEW d \in Callers, arg'[d] # NoTask
        PROVE  /\ arg'[d] \in offered'
               /\ \A e \in Callers : arg'[e] = arg'[d] => e = d
               /\ \A i \in 1 .. Len(accepted') : accepted'[i] # arg'[d]
    BY <1>1, <1>3, <1>5, <1>6, <1>7 DEF OnceInv
  <1>8. ASSUME NEW i \in 1 .. Len(accepted')
        PROVE  /\ accepted'[i] \in offered'
               /\ \A j \in 1 .. Len(accepted') : accepted'[i] = accepted'[j] => i = j
    BY <1>1, <1>3, <1>4, <1>6 DEF OnceInv
  <1>9. QED
    BY <1>1, <1>7, <1>8 DEF OnceInv

\* Every step keeps it.
LEMMA NextOnceInv == PoolInv /\ OnceInv /\ [Next]_vars => OnceInv'
  <1> SUFFICES ASSUME PoolInv, OnceInv, [Next]_vars
               PROVE  OnceInv'
    OBVIOUS
  <1> USE PoolAssumption
  <1>1. CASE UNCHANGED <<arg, offered, accepted, started, job>>
    BY <1>1 DEF OnceInv
  <1>2. ASSUME NEW w \in Workers, WorkerTake(w)
        PROVE  OnceInv'
    BY <1>2, TakeOnceInv
  <1>3. ASSUME NEW w \in Workers, WorkerFinish(w)
        PROVE  OnceInv'
    BY <1>3 DEF WorkerFinish, OnceInv, PoolInv, TypeOK
  <1>4. ASSUME NEW c \in Callers, NEW t \in Tasks, EnqueueLock(c, t)
        PROVE  OnceInv'
    BY <1>4 DEF EnqueueLock, OnceInv, PoolInv, TypeOK
  <1>5. ASSUME NEW c \in Callers, EnqueueThrow(c)
        PROVE  OnceInv'
    BY <1>5 DEF EnqueueThrow, OnceInv, PoolInv, TypeOK
  <1>6. ASSUME NEW c \in Callers, EnqueueEmplace(c)
        PROVE  OnceInv'
    BY <1>6, EmplaceOnceInv
  <1>7. QED
    BY <1>1, <1>2, <1>3, <1>4, <1>5, <1>6
       DEF Next, vars, WorkerLoop, WorkerLock, WorkerTest, WorkerBlock, WorkerExit,
           SpuriousWakeup, EnqueueSteps, EnqueuePass, EnqueueNotify, DestructorStop,
           DestructorNotify, DestructorJoin

\* No task is run twice: not by two workers at a time, and not again when it was run
\* once, whoever is woken for it.
THEOREM OnceTheorem ==
  Spec => /\ [](\A v, w \in Workers : job[v] # NoTask /\ job[v] = job[w] => v = w)
          /\ [](\A i, j \in 1 .. Len(started) : started[i] = started[j] => i = j)
  <1>1. Init => OnceInv
    BY DEF Init, OnceInv
  <1>2. PoolInv /\ OnceInv =>
          /\ \A v, w \in Workers : job[v] # NoTask /\ job[v] = job[w] => v = w
          /\ \A i, j \in 1 .. Len(started) : started[i] = started[j] => i = j
    <2> SUFFICES ASSUME PoolInv, OnceInv
                 PROVE  \A i, j \in 1 .. Len(started) : started[i] = started[j] => i = j
      BY DEF OnceInv
    <2>1. started \in Seq(Tasks) /\ tasks \in Seq(Tasks) /\ accepted = started \o tasks
      BY DEF PoolInv, TypeOK, FifoHandOff
    <2>2. \A i \in 1 .. Len(started) : i \in 1 .. Len(accepted) /\ accepted[i] = started[i]
      BY <2>1
    <2>3. QED
      BY <2>2 DEF OnceInv
  <1>3. QED
    BY <1>1, <1>2, NextOnceInv, PoolInvariant, PTL DEF Spec

-----------------------------------------------------------------------------
(* What can become of a join.                                              *)

\* The destructor joins, and no worker is between a test of the predicate that found
\* stop_ unset and its wake-up.
Quiet == owner = "joining" /\ \A w \in Workers : worker[w] \notin {"block", "waiting"}

\* The flag is set before the destructor notifies and joins, and never cleared.
LEMMA StopInvariant == Spec => [](owner # "alive" => stop)
  <1>1. Init => (owner # "alive" => stop)
    BY DEF Init
  <1>2. (owner # "alive" => stop) /\ [Next]_vars => (owner # "alive" => stop)'
    BY DEF Next, vars, WorkerLoop, WorkerLock, WorkerTest, WorkerBlock, WorkerExit,
           WorkerTake, WorkerFinish, SpuriousWakeup, EnqueueSteps, EnqueueLock,
           EnqueueThrow, EnqueuePass, EnqueueEmplace, EnqueueNotify, DestructorStop,
           DestructorNotify, DestructorJoin
  <1>3. QED
    BY <1>1, <1>2, PTL DEF Spec

\* A join that notify_all() left without a sleeper has none later: no worker goes
\* back to sleep, so that the join waits for workers that run only.  Whoever has the
\* mutex then, or may take it, is a thread with a step to do.
THEOREM QuietTheorem ==
  Spec => /\ [][Quiet => Quiet' \/ owner' = "destroyed"]_vars
          /\ [](Quiet => \/ \A w \in Workers : worker[w] = "exited"
                         \/ \E w \in Workers : worker[w] = "running"
                         \/ mutex = NoThread /\ \E w \in Workers : worker[w] = "start"
                         \/ \E w \in Workers : mutex = w /\ worker[w] \in {"test", "take"}
                         \/ \E c \in Callers : mutex = c /\ caller[c] \in {"testing", "emplacing"})
  <1> DEFINE Stopped == owner # "alive" => stop
             Runs == \/ \A w \in Workers : worker[w] = "exited"
                     \/ \E w \in Workers : worker[w] = "running"
                     \/ mutex = NoThread /\ \E w \in Workers : worker[w] = "start"
                     \/ \E w \in Workers : mutex = w /\ worker[w] \in {"test", "take"}
                     \/ \E c \in Callers : mutex = c /\ caller[c] \in {"testing", "emplacing"}
  <1>1. ASSUME PoolInv, Stopped, [Next]_vars, Quiet
        PROVE  Quiet' \/ owner' = "destroyed"
    <2>1. stop /\ owner = "joining" /\ worker \in [Workers -> WorkerState]
          /\ \A w \in Workers : worker[w] \notin {"block", "waiting"}
      BY <1>1 DEF Quiet, PoolInv, TypeOK
    <2>2. CASE UNCHANGED <<owner, worker>>
      BY <2>1, <2>2 DEF Quiet
    <2>3. ASSUME NEW w \in Workers, WorkerLoop(w) \/ WorkerFinish(w) \/ SpuriousWakeup(w)
          PROVE  Quiet'
      BY <2>1, <2>3 DEF Quiet, WorkerLoop, WorkerLock, WorkerTest, WakeUpCondition,
                        WorkerBlock, WorkerExit, WorkerTake, WorkerFinish, SpuriousWakeup
    <2>4. ASSUME NEW c \in Callers, EnqueueNotify(c)
          PROVE  Quiet'
      BY <2>1, <2>4 DEF Quiet, EnqueueNotify, Waiting
    <2>5. QED
      BY <1>1, <2>1, <2>2, <2>3, <2>4
         DEF Next, vars, EnqueueSteps, EnqueueLock, EnqueueThrow, EnqueuePass,
             EnqueueEmplace, DestructorStop, DestructorNotify, DestructorJoin
  <1>2. PoolInv => (Quiet => Runs)
    BY DEF PoolInv, TypeOK, LockInv, Quiet, WorkerState, CallerState
  <1>3. PoolInv /\ Stopped /\ [Next]_vars => [Quiet => Quiet' \/ owner' = "destroyed"]_vars
    BY <1>1
  <1>4. QED
    BY <1>2, <1>3, StopInvariant, PoolInvariant, PTL DEF Spec

=============================================================================
