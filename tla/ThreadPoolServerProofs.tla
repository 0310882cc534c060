----------------------- MODULE ThreadPoolServerProofs -----------------------
(***************************************************************************)
(* What ThreadPoolServer guarantees for every number of workers and        *)
(* clients.  First, the server uses its pool only as the ThreadPool module *)
(* allows: each of its steps is a step of the pool or leaves the pool      *)
(* alone, so the pool's theorems hold inside the server.  Then, on top of  *)
(* them, every socket has one owner until it is closed; and what a client  *)
(* sends is echoed before its socket is closed, up to a full window.       *)
(***************************************************************************)
EXTENDS ThreadPoolServer, FiniteSetTheorems, TLAPS

\* The main thread holds a connection from accept until the queue has it, and
\* is inside enqueue only at that point of its loop; main() returns after the
\* pool's destructor has.
HandInv ==
  /\ backlog \in Seq(Conns)
  /\ hand \in Conns \cup {NoConn}
  /\ caller \in [{Main} -> Pool!CallerState]
  /\ arg \in [{Main} -> Conns \cup {NoConn}]
  /\ phase \notin {"handing", "enqueue", "killed"} => hand = NoConn /\ caller[Main] = "idle"
  /\ phase = "handing" => hand \in Conns /\ caller[Main] = "idle"
  /\ phase = "enqueue" => IF caller[Main] = "notifying" THEN hand = NoConn ELSE hand \in Conns
  /\ arg[Main] = IF caller[Main] \in {"testing", "emplacing"} THEN hand ELSE NoConn
  /\ phase = "exited" => owner = "destroyed"

\* The server starts without a connection.
LEMMA InitHandInv == Init => HandInv
  BY DEF Init, Pool!Init, HandInv, Pool!CallerState

\* A step of the main thread keeps HandInv.
LEMMA MainHandInv ==
  ASSUME HandInv,
         MainStep \/ ListenFails \/ AcceptThrows \/ ConstructThrows \/ Signal \/ EarlySignal
  PROVE  HandInv'
  <1> USE DEF HandInv, poolVars
  <1>1. CASE Listen \/ ListenFails \/ InstallHandlers \/ AcceptThrows \/ LoopEnds
    BY <1>1 DEF Listen, ListenFails, InstallHandlers, AcceptThrows, LoopEnds, socketVars
  <1>2. CASE Accept
    <2>1. Head(backlog) \in Conns /\ Tail(backlog) \in Seq(Conns)
      BY <1>2 DEF Accept
    <2>2. QED
      BY <1>2, <2>1 DEF Accept
  <1>3. CASE Construct \/ ConstructThrows
    BY <1>3 DEF Construct, ConstructThrows, socketVars
  <1>4. CASE Enqueue
    BY <1>4 DEF Enqueue, Pool!EnqueueLock, Pool!EnqueuePass, Pool!EnqueueEmplace,
                Pool!EnqueueNotify, Pool!CallerState, socketVars
  <1>5. CASE ServerStop
    BY <1>5 DEF ServerStop
  <1>6. CASE DestroyPool
    BY <1>6 DEF DestroyPool, Pool!DestructorStop, Pool!DestructorNotify,
                Pool!DestructorJoin, socketVars
  <1>7. CASE Signal \/ EarlySignal
    BY <1>7 DEF Signal, EarlySignal, socketVars
  <1>8. QED
    BY <1>1, <1>2, <1>3, <1>4, <1>5, <1>6, <1>7 DEF MainStep

\* A step of a worker or of a client keeps HandInv.
LEMMA OtherHandInv ==
  ASSUME HandInv,
         \/ \E w \in Pool!Workers : WorkerStep(w) \/ \E c \in Conns : ProcessRequest(w, c)
         \/ \E c \in Conns : Connect(c) \/ Client(c) \/ ResetArrives(c)
  PROVE  HandInv'
  <1> USE DEF HandInv
  <1>1. CASE \E w \in Pool!Workers : WorkerStep(w)
    BY <1>1 DEF WorkerStep, Pool!WorkerLoop, Pool!WorkerLock, Pool!WorkerTest, Pool!WorkerBlock,
                Pool!WorkerExit, Pool!WorkerTake, Pool!SpuriousWakeup, mainVars, socketVars
  <1>2. CASE \E w \in Pool!Workers, c \in Conns : ProcessRequest(w, c)
    BY <1>2 DEF ProcessRequest, Recv, Send, SendFails, SendBrokenPipe, RecvWouldBlock, RecvEnds,
                Pool!WorkerFinish, vars, poolVars, mainVars, socketVars
  <1>3. CASE \E c \in Conns : Connect(c)
    BY <1>3 DEF Connect, poolVars, mainVars
  <1>4. CASE \E c \in Conns : Client(c) \/ ResetArrives(c)
    BY <1>4 DEF Client, ClientSend, ClientRead, ClientClose, ResetArrives, poolVars, mainVars
  <1>5. QED
    BY <1>1, <1>2, <1>3, <1>4

\* HandInv holds of every reachable state.
LEMMA HandInvariant == Spec => []HandInv
  <1>1. HandInv /\ [Next]_vars => HandInv'
    <2>1. ASSUME HandInv, Next PROVE HandInv'
      BY <2>1, MainHandInv, OtherHandInv DEF Next
    <2>2. ASSUME HandInv, UNCHANGED vars PROVE HandInv'
      BY <2>2 DEF HandInv, vars, poolVars, mainVars, socketVars
    <2>3. QED
      BY <2>1, <2>2
  <1>2. QED
    BY InitHandInv, <1>1, PTL DEF Spec

-----------------------------------------------------------------------------
(* The server implements the pool.                                         *)

\* Whatever the server does, the pool makes one of its own steps or none.
LEMMA ServerStepIsPoolStep ==
  ASSUME HandInv, [Next]_vars
  PROVE  [Pool!Next]_(Pool!vars)
  <1> USE DEF Pool!Next, Pool!vars, poolVars
  <1>1. CASE Enqueue
    <2>1. Pool!EnqueueLock(Main, hand) => hand \in Conns
      BY <1>1 DEF HandInv, Enqueue, Pool!EnqueueLock
    <2>2. QED
      BY <1>1, <2>1 DEF Enqueue, Pool!EnqueueSteps
  <1>2. CASE DestroyPool
    BY <1>2 DEF DestroyPool
  <1>3. CASE \E w \in Pool!Workers : WorkerStep(w)
    BY <1>3 DEF WorkerStep
  <1>4. CASE \E w \in Pool!Workers, c \in Conns : ProcessRequest(w, c)
    BY <1>4 DEF ProcessRequest, Recv, Send, SendFails, SendBrokenPipe, RecvWouldBlock, RecvEnds, vars
  <1>5. CASE \/ Listen \/ InstallHandlers \/ Accept \/ LoopEnds \/ Construct \/ ServerStop
            \/ ListenFails \/ AcceptThrows \/ ConstructThrows \/ Signal \/ EarlySignal
    BY <1>5 DEF Listen, InstallHandlers, Accept, LoopEnds, Construct, ServerStop, ListenFails,
                AcceptThrows, ConstructThrows, Signal, EarlySignal
  <1>6. CASE \E c \in Conns : Connect(c) \/ Client(c) \/ ResetArrives(c)
    BY <1>6 DEF Connect, Client, ClientSend, ClientRead, ClientClose, ResetArrives
  <1>7. CASE UNCHANGED vars
    BY <1>7 DEF vars
  <1>8. QED
    BY <1>1, <1>2, <1>3, <1>4, <1>5, <1>6, <1>7 DEF Next, MainStep

\* The server calls its pool only through enqueue and the destructor, one call
\* at a time and none after the destructor: it implements the pool's
\* specification.
THEOREM ServerImplementsPool == Spec => PoolSpec
  <1>1. Init => Pool!Init
    BY DEF Init
  <1>2. HandInv /\ [Next]_vars => [Pool!Next]_(Pool!vars)
    BY ServerStepIsPoolStep
  <1>3. QED
    BY <1>1, <1>2, HandInvariant, PTL DEF Spec, PoolSpec, Pool!Spec

\* The theorems of ThreadPoolProofs, read at the server's pool.
P == INSTANCE ThreadPoolProofs WITH Callers <- {Main}, Tasks <- Conns, NoTask <- NoConn

\* The server's threads and connections meet the pool's assumptions.
LEMMA ServerPoolAssumption == P!PoolAssumption
  BY ServerAssumption DEF P!PoolAssumption, P!Workers, P!PoolSize

\* The two instances are the same pool.
LEMMA SamePool == (Pool!Init <=> P!Init) /\ ([Pool!Next]_(Pool!vars) <=> [P!Next]_(P!vars))
  <1>1. Pool!Init <=> P!Init
    BY DEF Pool!Init, P!Init, Pool!Workers, P!Workers, Pool!PoolSize, P!PoolSize
  <1>2. [Pool!Next]_(Pool!vars) <=> [P!Next]_(P!vars)
    BY DEF Pool!WorkerLoop, P!WorkerLoop, Pool!WorkerLock, P!WorkerLock,
           Pool!WorkerTest, P!WorkerTest, Pool!WakeUpCondition, P!WakeUpCondition,
           Pool!WorkerBlock, P!WorkerBlock, Pool!WorkerExit, P!WorkerExit,
           Pool!WorkerTake, P!WorkerTake, Pool!WorkerFinish, P!WorkerFinish,
           Pool!SpuriousWakeup, P!SpuriousWakeup, Pool!EnqueueSteps, P!EnqueueSteps,
           Pool!EnqueueLock, P!EnqueueLock, Pool!MayCall, P!MayCall,
           Pool!EnqueueThrow, P!EnqueueThrow, Pool!EnqueuePass, P!EnqueuePass,
           Pool!EnqueueEmplace, P!EnqueueEmplace, Pool!EnqueueNotify, P!EnqueueNotify,
           Pool!Waiting, P!Waiting, Pool!DestructorStop, P!DestructorStop,
           Pool!DestructorNotify, P!DestructorNotify, Pool!DestructorJoin,
           P!DestructorJoin, Pool!Workers, P!Workers, Pool!PoolSize, P!PoolSize,
           Pool!vars, P!vars, Pool!Next, P!Next
  <1>3. QED
    BY <1>1, <1>2

\* What the server needs of its pool: the types of the queue and of the
\* workers' locals, that only a running worker holds a task, and that a
\* destroyed pool is empty.
PoolFacts ==
  /\ tasks \in Seq(Conns)
  /\ worker \in [Pool!Workers -> Pool!WorkerState]
  /\ job \in [Pool!Workers -> Conns \cup {NoConn}]
  /\ \A w \in Pool!Workers : job[w] # NoConn => worker[w] = "running"
  /\ owner = "destroyed" => tasks = <<>> /\ \A w \in Pool!Workers : job[w] = NoConn

\* They follow from the pool's inductive invariant.
LEMMA PoolFactsInvariant == Spec => []PoolFacts
  <1>1. P!Spec => []P!PoolInv
    BY P!PoolInvariant, ServerPoolAssumption
  <1>2. P!PoolInv => PoolFacts
    <2>1. 1 \in P!Workers
      BY P!PoolHasWorker, ServerPoolAssumption
    <2>2. QED
      BY <2>1 DEF P!PoolInv, P!TypeOK, P!LocalInv, P!ExitInv, P!Workers, P!PoolSize,
                  P!WorkerState, PoolFacts, Pool!Workers, Pool!PoolSize, Pool!WorkerState
  <1>3. QED
    BY <1>1, <1>2, SamePool, ServerImplementsPool, PTL DEF PoolSpec, Pool!Spec, P!Spec

-----------------------------------------------------------------------------
(* One owner per socket.                                                   *)

\* The kernel's backlog holds each connection once, and only while the
\* listening socket is open.
BacklogInv ==
  /\ fd \in [Conns -> {"none", "backlog", "open", "closed", "refused"}]
  /\ \A i \in 1 .. Len(backlog) : fd[backlog[i]] = "backlog"
  /\ \A i, j \in 1 .. Len(backlog) : backlog[i] = backlog[j] => i = j
  /\ peer \in [Conns -> {"new", "open", "closed", "reset"}]
  /\ \A c \in Conns : peer[c] = "new" => fd[c] = "none"
  /\ \A c \in Conns : fd[c] = "backlog" => Listening \/ phase = "killed"

\* An open socket is in the hands of the main thread, of the queue or of a
\* worker, and in one of them only.
OwnInv ==
  /\ hand # NoConn => fd[hand] = "open"
  /\ \A i \in 1 .. Len(tasks) : fd[tasks[i]] = "open" /\ tasks[i] # hand
  /\ \A i, j \in 1 .. Len(tasks) : tasks[i] = tasks[j] => i = j
  /\ \A w \in Pool!Workers : job[w] # NoConn =>
       /\ fd[job[w]] = "open"
       /\ job[w] # hand
       /\ \A i \in 1 .. Len(tasks) : tasks[i] # job[w]
  /\ \A v, w \in Pool!Workers : job[v] = job[w] /\ job[v] # NoConn => v = w
  /\ \A c \in Conns : fd[c] = "open" =>
       \/ c = hand
       \/ \E i \in 1 .. Len(tasks) : tasks[i] = c
       \/ \E w \in Pool!Workers : job[w] = c

ServerInv == HandInv /\ PoolFacts /\ BacklogInv /\ OwnInv

\* Initially there is no socket.
LEMMA InitOwnInv == Init => BacklogInv /\ OwnInv
  BY DEF Init, Pool!Init, BacklogInv, OwnInv

\* A step that moves no connection keeps the ownership.
LEMMA OwnUnchanged ==
  ASSUME OwnInv, UNCHANGED <<tasks, job, hand, fd>>
  PROVE  OwnInv'
  BY DEF OwnInv

\* A step that leaves the sockets and the phase alone, or kills the program,
\* keeps the backlog as it was.
LEMMA BacklogUnchanged ==
  ASSUME BacklogInv, UNCHANGED <<fd, backlog, peer>>, phase' \in {phase, "killed"}
  PROVE  BacklogInv'
  BY DEF BacklogInv, Listening

\* A step of the main thread keeps the ownership.
LEMMA MainOwnInv ==
  ASSUME ServerInv, PoolFacts', HandInv',
         MainStep \/ ListenFails \/ AcceptThrows \/ ConstructThrows \/ Signal \/ EarlySignal
  PROVE  BacklogInv' /\ OwnInv'
  <1> USE ServerAssumption
          DEF ServerInv, HandInv, PoolFacts, BacklogInv, OwnInv, poolVars, Listening
  <1>1. CASE Listen \/ ListenFails \/ InstallHandlers \/ AcceptThrows \/ LoopEnds
    <2>1. UNCHANGED <<tasks, job, hand, fd, backlog, peer>> /\ phase # "killed"
      BY <1>1 DEF Listen, ListenFails, InstallHandlers, AcceptThrows, LoopEnds, socketVars
    <2>2. phase' # "destroying" \/ ~Listening
      BY <1>1 DEF Listen, ListenFails, InstallHandlers, AcceptThrows, LoopEnds
    <2>3. phase' \in {"listening", "loop", "leaving", "destroying"}
      BY <1>1 DEF Listen, ListenFails, InstallHandlers, AcceptThrows, LoopEnds
    <2>4. BacklogInv'
      BY <2>1, <2>2, <2>3
    <2>5. OwnInv'
      BY <2>1, OwnUnchanged
    <2>6. QED
      BY <2>4, <2>5
  <1>2. CASE Accept
    <2>1. /\ Head(backlog) \in Conns
          /\ Head(backlog) = backlog[1]
          /\ Tail(backlog) \in Seq(Conns)
          /\ Len(Tail(backlog)) = Len(backlog) - 1
          /\ 1 \in 1 .. Len(backlog)
          /\ \A i \in 1 .. Len(Tail(backlog)) :
               Tail(backlog)[i] = backlog[i + 1] /\ i + 1 \in 1 .. Len(backlog)
      BY <1>2 DEF Accept
    <2>2. BacklogInv'
      BY <1>2, <2>1 DEF Accept
    <2>3. OwnInv'
      BY <1>2, <2>1 DEF Accept
    <2>4. QED
      BY <2>2, <2>3
  <1>3. CASE Construct \/ ConstructThrows
    BY <1>3 DEF Construct, ConstructThrows, socketVars
  <1>4. CASE Enqueue
    <2>1. CASE UNCHANGED <<tasks, job, hand>>
      BY <1>4, <2>1 DEF Enqueue, Pool!EnqueueLock, Pool!EnqueuePass, Pool!EnqueueEmplace,
                        Pool!EnqueueNotify, socketVars
    <2>2. CASE Pool!EnqueueEmplace(Main) /\ hand' = NoConn
      <3>1. /\ arg[Main] = hand /\ hand \in Conns
            /\ tasks' = Append(tasks, hand)
            /\ UNCHANGED <<job, fd, backlog, peer, phase>>
        BY <1>4, <2>2 DEF Enqueue, Pool!EnqueueEmplace, socketVars
      <3>2. /\ Len(tasks') = Len(tasks) + 1
            /\ tasks'[Len(tasks) + 1] = hand
            /\ \A i \in 1 .. Len(tasks) : tasks'[i] = tasks[i]
        BY <3>1
      <3>3. BacklogInv'
        BY <3>1
      <3>4. /\ \A i \in 1 .. Len(tasks') : fd'[tasks'[i]] = "open" /\ tasks'[i] # hand'
            /\ \A i, j \in 1 .. Len(tasks') : tasks'[i] = tasks'[j] => i = j
        BY <2>2, <3>1, <3>2
      <3>5. \A w \in Pool!Workers : job'[w] # NoConn =>
              /\ fd'[job'[w]] = "open"
              /\ job'[w] # hand'
              /\ \A i \in 1 .. Len(tasks') : tasks'[i] # job'[w]
        BY <2>2, <3>1, <3>2
      <3>6. \A c \in Conns : fd'[c] = "open" =>
              \/ c = hand'
              \/ \E i \in 1 .. Len(tasks') : tasks'[i] = c
              \/ \E w \in Pool!Workers : job'[w] = c
        BY <2>2, <3>1, <3>2
      <3>7. /\ hand' # NoConn => fd'[hand'] = "open"
            /\ \A v, w \in Pool!Workers : job'[v] = job'[w] /\ job'[v] # NoConn => v = w
        BY <2>2, <3>1
      <3>8. OwnInv'
        BY <3>4, <3>5, <3>6, <3>7
      <3>9. QED
        BY <3>3, <3>8
    <2>3. QED
      BY <1>4, <2>1, <2>2 DEF Enqueue, Pool!EnqueueLock, Pool!EnqueuePass,
                              Pool!EnqueueNotify
  <1>5. CASE ServerStop
    BY <1>5 DEF ServerStop
  <1>6. CASE DestroyPool
    <2>1. /\ UNCHANGED <<tasks, job, hand, fd, backlog, peer>>
          /\ phase = "destroying" /\ phase' \in {"destroying", "exited"}
      BY <1>6 DEF DestroyPool, Pool!DestructorStop, Pool!DestructorNotify,
                  Pool!DestructorJoin, socketVars
    <2>2. BacklogInv'
      BY <2>1
    <2>3. OwnInv'
      BY <2>1, OwnUnchanged
    <2>4. QED
      BY <2>2, <2>3
  <1>7. CASE Signal \/ EarlySignal
    <2>1. /\ UNCHANGED <<tasks, job, hand, fd, backlog, peer>>
          /\ phase' \in {phase, "killed"}
      BY <1>7 DEF Signal, EarlySignal, socketVars
    <2> HIDE DEF BacklogInv, OwnInv
    <2>2. QED
      BY <2>1, OwnUnchanged, BacklogUnchanged
  <1>8. QED
    BY <1>1, <1>2, <1>3, <1>4, <1>5, <1>6, <1>7 DEF MainStep

\* A step of a worker keeps the ownership.
LEMMA WorkerOwnInv ==
  ASSUME ServerInv, PoolFacts', NEW w \in Pool!Workers,
         WorkerStep(w) \/ \E c \in Conns : ProcessRequest(w, c)
  PROVE  BacklogInv' /\ OwnInv'
  <1> USE ServerAssumption DEF ServerInv, PoolFacts, BacklogInv, OwnInv, Listening
  <1>1. CASE WorkerStep(w) /\ UNCHANGED <<tasks, job>>
    <2> HIDE DEF BacklogInv, OwnInv
    <2>1. QED
      BY <1>1, OwnUnchanged, BacklogUnchanged DEF WorkerStep, mainVars, socketVars
  <1>2. CASE WorkerStep(w) /\ Pool!WorkerTake(w)
    <2>1. UNCHANGED <<fd, backlog, peer, phase, hand>>
      BY <1>2 DEF WorkerStep, mainVars, socketVars
    <2>2. /\ tasks' = Tail(tasks)
          /\ job' = [job EXCEPT ![w] = tasks[1]]
          /\ job[w] = NoConn
          /\ tasks # <<>>
      BY <1>2 DEF Pool!WorkerTake
    <2>3. /\ Len(tasks') = Len(tasks) - 1
          /\ 1 \in 1 .. Len(tasks)
          /\ \A i \in 1 .. Len(tasks') : tasks'[i] = tasks[i + 1] /\ i + 1 \in 1 .. Len(tasks)
          /\ \A i \in 1 .. Len(tasks) : i = 1 \/ (i - 1 \in 1 .. Len(tasks') /\ tasks'[i - 1] = tasks[i])
      BY <2>2
    <2>4. BacklogInv'
      <3> HIDE DEF BacklogInv, OwnInv, PoolFacts
      <3>1. QED
        BY <2>1, BacklogUnchanged
    <2>5. /\ hand' # NoConn => fd'[hand'] = "open"
          /\ \A i \in 1 .. Len(tasks') : fd'[tasks'[i]] = "open" /\ tasks'[i] # hand'
          /\ \A i, j \in 1 .. Len(tasks') : tasks'[i] = tasks'[j] => i = j
      BY <2>1, <2>3
    <2>6. \A v \in Pool!Workers : job'[v] # NoConn =>
            /\ fd'[job'[v]] = "open"
            /\ job'[v] # hand'
            /\ \A i \in 1 .. Len(tasks') : tasks'[i] # job'[v]
      BY <2>1, <2>2, <2>3
    <2>7. \A u, v \in Pool!Workers : job'[u] = job'[v] /\ job'[u] # NoConn => u = v
      BY <2>1, <2>2, <2>3
    <2>8. \A c \in Conns : fd'[c] = "open" =>
            \/ c = hand'
            \/ \E i \in 1 .. Len(tasks') : tasks'[i] = c
            \/ \E v \in Pool!Workers : job'[v] = c
      <3>1. job'[w] = tasks[1]
        BY <2>2
      <3>2. \A v \in Pool!Workers : job[v] # NoConn => job'[v] = job[v]
        BY <2>2
      <3>3. SUFFICES ASSUME NEW c \in Conns, fd[c] = "open", c # hand
                     PROVE  \/ \E i \in 1 .. Len(tasks') : tasks'[i] = c
                            \/ \E v \in Pool!Workers : job'[v] = c
        BY <2>1
      <3>4. CASE \E v \in Pool!Workers : job[v] = c
        BY <3>2, <3>4
      <3>5. ASSUME NEW i \in 1 .. Len(tasks), tasks[i] = c
            PROVE  \/ \E j \in 1 .. Len(tasks') : tasks'[j] = c
                   \/ \E v \in Pool!Workers : job'[v] = c
        BY <2>3, <3>1, <3>5
      <3>6. QED
        BY <3>3, <3>4, <3>5
    <2>9. QED
      BY <2>4, <2>5, <2>6, <2>7, <2>8
  <1>3. CASE \E c \in Conns : \/ Recv(w, c) \/ Send(w, c) \/ SendFails(w, c) \/ SendBrokenPipe(w, c)
                             \/ RecvWouldBlock(w, c)
    <2>1. /\ UNCHANGED <<tasks, job, hand, fd, backlog, peer>>
          /\ phase' \in {phase, "killed"}
      BY <1>3 DEF Recv, Send, SendFails, SendBrokenPipe, RecvWouldBlock, vars, poolVars, mainVars, socketVars
    <2> HIDE DEF BacklogInv, OwnInv
    <2>2. QED
      BY <2>1, OwnUnchanged, BacklogUnchanged
  <1>4. ASSUME NEW c \in Conns, RecvEnds(w, c) PROVE BacklogInv' /\ OwnInv'
    <2>1. /\ job[w] = c
          /\ job' = [job EXCEPT ![w] = NoConn]
          /\ fd' = [fd EXCEPT ![c] = "closed"]
          /\ UNCHANGED <<tasks, backlog, peer, phase, hand>>
      BY <1>4 DEF RecvEnds, Serving, Pool!WorkerFinish, mainVars
    <2>2. fd[c] = "open"
      BY <2>1
    <2>3. BacklogInv'
      <3> HIDE DEF OwnInv, PoolFacts
      <3>1. \A i \in 1 .. Len(backlog) : backlog[i] # c
        BY <2>2
      <3>2. backlog \in Seq(Conns)
        BY DEF HandInv
      <3>3. QED
        BY <2>1, <2>2, <3>1, <3>2
    <2>4. OwnInv'
      <3> HIDE DEF BacklogInv
      <3>1. \A d \in Conns : fd'[d] = "open" <=> fd[d] = "open" /\ d # c
        BY <2>1 DEF BacklogInv
      <3>2. /\ hand # c
            /\ \A i \in 1 .. Len(tasks) : tasks[i] # c /\ tasks[i] \in Conns
            /\ \A v \in Pool!Workers : job'[v] # NoConn => v # w /\ job'[v] = job[v]
            /\ \A v \in Pool!Workers : v # w => job'[v] = job[v] /\ job[v] # c
        BY <2>1
      <3>3. /\ hand' # NoConn => fd'[hand'] = "open"
            /\ \A i \in 1 .. Len(tasks') : fd'[tasks'[i]] = "open" /\ tasks'[i] # hand'
            /\ \A i, j \in 1 .. Len(tasks') : tasks'[i] = tasks'[j] => i = j
        BY <2>1, <3>1, <3>2 DEF HandInv
      <3>4. \A v \in Pool!Workers : job'[v] # NoConn =>
              /\ fd'[job'[v]] = "open"
              /\ job'[v] # hand'
              /\ \A i \in 1 .. Len(tasks') : tasks'[i] # job'[v]
        BY <2>1, <3>1, <3>2
      <3>5. \A u, v \in Pool!Workers : job'[u] = job'[v] /\ job'[u] # NoConn => u = v
        BY <3>2
      <3>6. \A d \in Conns : fd'[d] = "open" =>
              \/ d = hand'
              \/ \E i \in 1 .. Len(tasks') : tasks'[i] = d
              \/ \E v \in Pool!Workers : job'[v] = d
        <4>1. SUFFICES ASSUME NEW d \in Conns, fd[d] = "open", d # c,
                              NEW v \in Pool!Workers, job[v] = d
                       PROVE  job'[v] = d
          BY <2>1, <3>1
        <4>2. QED
          BY <2>1, <3>2, <4>1
      <3>7. QED
        BY <3>3, <3>4, <3>5, <3>6
    <2>5. QED
      BY <2>3, <2>4
  <1>5. QED
    BY <1>1, <1>2, <1>3, <1>4
       DEF WorkerStep, ProcessRequest, Pool!WorkerLoop, Pool!WorkerLock, Pool!WorkerTest,
           Pool!WorkerBlock, Pool!WorkerExit, Pool!SpuriousWakeup

\* A step of a client keeps the ownership.
LEMMA ClientOwnInv ==
  ASSUME ServerInv, PoolFacts', NEW c \in Conns, Connect(c) \/ Client(c) \/ ResetArrives(c)
  PROVE  BacklogInv' /\ OwnInv'
  <1> USE ServerAssumption DEF ServerInv, HandInv, PoolFacts, BacklogInv, OwnInv, Listening
  <1>1. CASE Connect(c)
    <2>1. /\ fd[c] = "none"
          /\ fd' = [fd EXCEPT ![c] = "backlog"]
          /\ peer' = [peer EXCEPT ![c] = "open"]
          /\ backlog' = Append(backlog, c)
          /\ Listening
          /\ UNCHANGED <<tasks, job, phase, hand>>
      BY <1>1 DEF Connect, poolVars, mainVars
    <2>2. /\ Len(backlog') = Len(backlog) + 1
          /\ backlog'[Len(backlog) + 1] = c
          /\ \A i \in 1 .. Len(backlog) : backlog'[i] = backlog[i]
      BY <2>1
    <2>3. BacklogInv'
      BY <2>1, <2>2
    <2>4. \A d \in Conns : fd'[d] = "open" <=> fd[d] = "open"
      BY <2>1
    <2>5. /\ \A i \in 1 .. Len(tasks) : tasks[i] \in Conns
          /\ \A w \in Pool!Workers : job[w] \in Conns \cup {NoConn}
          /\ hand \in Conns \cup {NoConn}
      OBVIOUS
    <2>6. OwnInv'
      <3> HIDE DEF HandInv, BacklogInv
      <3>1. UNCHANGED <<tasks, job, hand>>
        BY <2>1
      <3>2. /\ hand' # NoConn => fd'[hand'] = "open"
            /\ \A i \in 1 .. Len(tasks') : fd'[tasks'[i]] = "open" /\ tasks'[i] # hand'
            /\ \A i, j \in 1 .. Len(tasks') : tasks'[i] = tasks'[j] => i = j
        BY <2>4, <2>5, <3>1
      <3>3. \A w \in Pool!Workers : job'[w] # NoConn =>
              /\ fd'[job'[w]] = "open"
              /\ job'[w] # hand'
              /\ \A i \in 1 .. Len(tasks') : tasks'[i] # job'[w]
        BY <2>4, <2>5, <3>1
      <3>4. /\ \A v, w \in Pool!Workers : job'[v] = job'[w] /\ job'[v] # NoConn => v = w
            /\ \A d \in Conns : fd'[d] = "open" =>
                 \/ d = hand'
                 \/ \E i \in 1 .. Len(tasks') : tasks'[i] = d
                 \/ \E w \in Pool!Workers : job'[w] = d
        BY <2>4, <3>1
      <3>5. QED
        BY <3>2, <3>3, <3>4
    <2>7. QED
      BY <2>3, <2>6
  <1>2. CASE Client(c) \/ ResetArrives(c)
    <2>1. UNCHANGED <<tasks, job, phase, hand, fd, backlog>>
      BY <1>2 DEF Client, ClientSend, ClientRead, ClientClose, ResetArrives, poolVars, mainVars
    <2>2. /\ peer' \in [Conns -> {"new", "open", "closed", "reset"}]
          /\ \A d \in Conns : peer'[d] = "new" => peer[d] = "new"
      <3> HIDE DEF HandInv, PoolFacts, OwnInv
      <3>1. \/ peer' = peer
            \/ peer' = [peer EXCEPT ![c] = "reset"]
            \/ peer' = [peer EXCEPT ![c] = "closed"]
        BY <1>2 DEF Client, ClientSend, ClientRead, ClientClose, ResetArrives
      <3>2. QED
        BY <3>1
    <2>3. BacklogInv'
      BY <2>1, <2>2
    <2>4. OwnInv'
      BY <2>1, OwnUnchanged
    <2>5. QED
      BY <2>3, <2>4
  <1>3. QED
    BY <1>1, <1>2

\* The strengthened invariant of the server.
LEMMA ServerInvariant == Spec => []ServerInv
  <1>1. Init => BacklogInv /\ OwnInv
    BY InitOwnInv
  <1>2. ServerInv /\ PoolFacts' /\ HandInv' /\ [Next]_vars => (BacklogInv /\ OwnInv)'
    <2>1. ASSUME ServerInv, PoolFacts', HandInv', Next PROVE (BacklogInv /\ OwnInv)'
      BY <2>1, MainOwnInv, WorkerOwnInv, ClientOwnInv DEF Next
    <2>2. ASSUME ServerInv, UNCHANGED vars PROVE (BacklogInv /\ OwnInv)'
      BY <2>2 DEF ServerInv, BacklogInv, OwnInv, Listening, vars, poolVars, mainVars, socketVars
    <2>3. QED
      BY <2>1, <2>2
  <1>3. QED
    BY <1>1, <1>2, HandInvariant, PoolFactsInvariant, PTL DEF Spec, ServerInv

\* A connection occurs at most once in an injective sequence.
LEMMA OccursOnce ==
  ASSUME NEW s \in Seq(Conns), \A i, j \in 1 .. Len(s) : s[i] = s[j] => i = j, NEW c
  PROVE  Cardinality({i \in 1 .. Len(s) : s[i] = c})
           = IF \E i \in 1 .. Len(s) : s[i] = c THEN 1 ELSE 0
  <1>1. CASE \E i \in 1 .. Len(s) : s[i] = c
    <2>1. PICK i \in 1 .. Len(s) : s[i] = c
      BY <1>1
    <2>2. {j \in 1 .. Len(s) : s[j] = c} = {i}
      BY <2>1
    <2>3. QED
      BY <1>1, <2>2, FS_Singleton
  <1>2. CASE ~\E i \in 1 .. Len(s) : s[i] = c
    <2>1. {j \in 1 .. Len(s) : s[j] = c} = {}
      BY <1>2
    <2>2. QED
      BY <1>2, <2>1, FS_EmptySet
  <1>3. QED
    BY <1>1, <1>2

\* A connection is the task of at most one worker.
LEMMA HeldOnce ==
  ASSUME OwnInv, NEW c \in Conns
  PROVE  Cardinality({w \in Pool!Workers : job[w] = c})
           = IF \E w \in Pool!Workers : job[w] = c THEN 1 ELSE 0
  <1>1. CASE \E w \in Pool!Workers : job[w] = c
    <2>1. PICK w \in Pool!Workers : job[w] = c
      BY <1>1
    <2>2. {v \in Pool!Workers : job[v] = c} = {w}
      BY <2>1, ServerAssumption DEF OwnInv
    <2>3. QED
      BY <1>1, <2>2, FS_Singleton
  <1>2. CASE ~\E w \in Pool!Workers : job[w] = c
    <2>1. {w \in Pool!Workers : job[w] = c} = {}
      BY <1>2
    <2>2. QED
      BY <1>2, <2>1, FS_EmptySet
  <1>3. QED
    BY <1>1, <1>2

\* A descriptor that accept returned has one owner until it is closed and none
\* after it: none leaks and none is closed twice.
THEOREM OneOwnerTheorem == Spec => []OneOwner
  <1>1. ServerInv => OneOwner
    <2> SUFFICES ASSUME ServerInv, NEW c \in Conns
                 PROVE  Holders(c) = IF fd[c] = "open" THEN 1 ELSE 0
      BY DEF OneOwner
    <2>1. c \in {hand, arg[Main]} <=> c = hand
      BY ServerAssumption DEF ServerInv, HandInv
    <2>2. Cardinality({i \in 1 .. Len(tasks) : tasks[i] = c})
            = IF \E i \in 1 .. Len(tasks) : tasks[i] = c THEN 1 ELSE 0
      <3>1. tasks \in Seq(Conns) /\ \A i, j \in 1 .. Len(tasks) : tasks[i] = tasks[j] => i = j
        BY DEF ServerInv, OwnInv, PoolFacts
      <3>2. QED
        BY <3>1, OccursOnce
    <2>3. Cardinality({w \in Pool!Workers : job[w] = c})
            = IF \E w \in Pool!Workers : job[w] = c THEN 1 ELSE 0
      BY HeldOnce DEF ServerInv
    <2>4. QED
      BY <2>1, <2>2, <2>3, ServerAssumption DEF Holders, ServerInv, OwnInv, PoolFacts
  <1>2. QED
    BY <1>1, ServerInvariant, PTL

\* When the program ends normally every socket was closed, the queued
\* connections having been served first.
THEOREM ExitTheorem == Spec => []NothingOpenAtExit
  <1>1. ServerInv => NothingOpenAtExit
    <2> SUFFICES ASSUME ServerInv, phase = "exited"
                 PROVE  tasks = <<>> /\ \A c \in Conns : fd[c] \notin {"backlog", "open"}
      BY DEF NothingOpenAtExit
    <2>1. tasks = <<>> /\ hand = NoConn /\ \A w \in Pool!Workers : job[w] = NoConn
      BY DEF ServerInv, HandInv, PoolFacts
    <2>2. \A c \in Conns : fd[c] # "backlog"
      BY DEF ServerInv, BacklogInv, Listening
    <2>3. \A c \in Conns : fd[c] # "open"
      <3>1. Len(tasks) = 0
        BY <2>1
      <3>2. QED
        BY <2>1, <3>1, ServerAssumption DEF ServerInv, OwnInv
    <2>4. QED
      BY <2>1, <2>2, <2>3
  <1>2. QED
    BY <1>1, ServerInvariant, PTL

-----------------------------------------------------------------------------
(* The types.                                                              *)

\* No client has more than MaxSend units under way or received, and what is in
\* the buffer of a worker or was echoed was received.
DataInv ==
  /\ inbox \in [Conns -> 0 .. MaxSend] /\ received \in [Conns -> 0 .. MaxSend]
  /\ buf \in [Conns -> 0 .. BufferSize] /\ echoed \in [Conns -> 0 .. MaxSend]
  /\ reply \in [Conns -> 0 .. Window]
  /\ \A c \in Conns :
       inbox[c] + received[c] <= MaxSend /\ echoed[c] + buf[c] <= received[c]

\* One connection is served, the others are left as they were.
LEMMA DataOfOne ==
  ASSUME DataInv, NEW c \in Conns,
         NEW i \in 0 .. MaxSend, NEW r \in 0 .. MaxSend, NEW b \in 0 .. BufferSize,
         NEW e \in 0 .. MaxSend, NEW y \in 0 .. Window,
         i + r <= MaxSend, e + b <= r,
         inbox' = [inbox EXCEPT ![c] = i], received' = [received EXCEPT ![c] = r],
         buf' = [buf EXCEPT ![c] = b], echoed' = [echoed EXCEPT ![c] = e],
         reply' = [reply EXCEPT ![c] = y]
  PROVE  DataInv'
  <1>1. /\ inbox' \in [Conns -> 0 .. MaxSend] /\ received' \in [Conns -> 0 .. MaxSend]
        /\ buf' \in [Conns -> 0 .. BufferSize] /\ echoed' \in [Conns -> 0 .. MaxSend]
        /\ reply' \in [Conns -> 0 .. Window]
    BY DEF DataInv
  <1>2. ASSUME NEW d \in Conns
        PROVE  inbox'[d] + received'[d] <= MaxSend /\ echoed'[d] + buf'[d] <= received'[d]
    <2>1. CASE d = c
      BY <2>1 DEF DataInv
    <2>2. CASE d # c
      BY <2>2 DEF DataInv
    <2>3. QED
      BY <2>1, <2>2
  <1>3. QED
    BY <1>1, <1>2 DEF DataInv

\* What a connection holds, as numbers.
LEMMA DataFacts ==
  ASSUME DataInv, NEW c \in Conns
  PROVE  /\ inbox[c] \in 0 .. MaxSend /\ received[c] \in 0 .. MaxSend
         /\ buf[c] \in 0 .. BufferSize /\ echoed[c] \in 0 .. MaxSend
         /\ reply[c] \in 0 .. Window
         /\ inbox[c] + received[c] <= MaxSend /\ echoed[c] + buf[c] <= received[c]
         /\ inbox = [inbox EXCEPT ![c] = inbox[c]] /\ received = [received EXCEPT ![c] = received[c]]
         /\ buf = [buf EXCEPT ![c] = buf[c]] /\ echoed = [echoed EXCEPT ![c] = echoed[c]]
         /\ reply = [reply EXCEPT ![c] = reply[c]]
  BY DEF DataInv

\* No data at the start.
LEMMA InitDataInv == Init => DataInv
  <1> SUFFICES ASSUME Init
               PROVE  DataInv
    OBVIOUS
  <1>1. 0 \in 0 .. MaxSend /\ 0 \in 0 .. BufferSize /\ 0 \in 0 .. Window /\ 0 + 0 <= 0
    BY ServerAssumption
  <1>2. QED
    BY <1>1, ServerAssumption DEF Init, DataInv

\* recv takes no more than there is, send drops what does not fit, and a client
\* stops at MaxSend.
LEMMA NextDataInv == DataInv /\ [Next]_vars => DataInv'
  <1> SUFFICES ASSUME DataInv, [Next]_vars
               PROVE  DataInv'
    OBVIOUS
  <1> USE ServerAssumption
  <1>1. CASE UNCHANGED <<inbox, buf, reply, received, echoed>>
    BY <1>1 DEF DataInv
  <1>2. ASSUME NEW w \in Pool!Workers, NEW c \in Conns, Recv(w, c)
        PROVE  DataInv'
    <2> DEFINE n == Smaller(inbox[c], BufferSize)
    <2>1. /\ buf[c] = 0
          /\ inbox' = [inbox EXCEPT ![c] = inbox[c] - n]
          /\ buf' = [buf EXCEPT ![c] = n]
          /\ received' = [received EXCEPT ![c] = received[c] + n]
          /\ reply' = reply /\ echoed' = echoed
      BY <1>2 DEF Recv
    <2>2. n \in 0 .. BufferSize /\ n <= inbox[c]
      BY DataFacts DEF Smaller
    <2> HIDE DEF n
    <2>3. /\ inbox[c] - n \in 0 .. MaxSend /\ received[c] + n \in 0 .. MaxSend
          /\ (inbox[c] - n) + (received[c] + n) <= MaxSend
          /\ echoed[c] + n <= received[c] + n
      BY <2>1, <2>2, DataFacts
    <2>4. QED
      BY <2>1, <2>2, <2>3, DataFacts, DataOfOne
  <1>3. ASSUME NEW w \in Pool!Workers, NEW c \in Conns, Send(w, c)
        PROVE  DataInv'
    <2> DEFINE n == Smaller(buf[c], Window - reply[c])
    <2>1. /\ reply' = [reply EXCEPT ![c] = reply[c] + n]
          /\ echoed' = [echoed EXCEPT ![c] = echoed[c] + n]
          /\ buf' = [buf EXCEPT ![c] = 0]
          /\ inbox' = inbox /\ received' = received
      BY <1>3 DEF Send
    <2>2. n \in Nat /\ n <= buf[c] /\ n <= Window - reply[c]
      BY DataFacts DEF Smaller
    <2> HIDE DEF n
    <2>3. /\ reply[c] + n \in 0 .. Window /\ echoed[c] + n \in 0 .. MaxSend
          /\ 0 \in 0 .. BufferSize /\ (echoed[c] + n) + 0 <= received[c]
      BY <2>2, DataFacts
    <2>4. QED
      BY <2>1, <2>3, DataFacts, DataOfOne
  <1>4. ASSUME NEW w \in Pool!Workers, NEW c \in Conns, SendFails(w, c)
        PROVE  DataInv'
    <2>1. /\ buf' = [buf EXCEPT ![c] = 0] /\ 0 \in 0 .. BufferSize
          /\ UNCHANGED <<inbox, reply, received, echoed>>
      BY <1>4 DEF SendFails
    <2>2. buf' \in [Conns -> 0 .. BufferSize]
      BY <2>1 DEF DataInv
    <2>3. ASSUME NEW d \in Conns
          PROVE  echoed[d] + buf'[d] <= received[d]
      BY <2>1, DataFacts DEF DataInv
    <2>4. QED
      BY <2>1, <2>2, <2>3 DEF DataInv
  <1>5. ASSUME NEW c \in Conns, ClientSend(c)
        PROVE  DataInv'
    <2> DEFINE i == inbox[c] + 1
    <2>1. /\ inbox[c] + received[c] < MaxSend
          /\ inbox' = [inbox EXCEPT ![c] = i]
          /\ UNCHANGED <<buf, reply, received, echoed>>
      BY <1>5, DataFacts DEF ClientSend, Requested
    <2>2. i \in 0 .. MaxSend /\ i + received[c] <= MaxSend
      BY <2>1, DataFacts
    <2> HIDE DEF i
    <2>3. /\ received[c] \in 0 .. MaxSend /\ buf[c] \in 0 .. BufferSize
          /\ echoed[c] \in 0 .. MaxSend /\ reply[c] \in 0 .. Window
          /\ echoed[c] + buf[c] <= received[c]
      BY DataFacts
    <2>4. /\ inbox' = [inbox EXCEPT ![c] = i]
          /\ received' = [received EXCEPT ![c] = received[c]]
          /\ buf' = [buf EXCEPT ![c] = buf[c]] /\ echoed' = [echoed EXCEPT ![c] = echoed[c]]
          /\ reply' = [reply EXCEPT ![c] = reply[c]]
      BY <2>1, DataFacts
    <2>5. QED
      BY <2>2, <2>3, <2>4, DataOfOne
  <1>6. ASSUME NEW c \in Conns, ClientRead(c)
        PROVE  DataInv'
    <2>1. /\ reply' = [reply EXCEPT ![c] = 0] /\ 0 \in 0 .. Window
          /\ UNCHANGED <<inbox, buf, received, echoed>>
      BY <1>6 DEF ClientRead
    <2>2. /\ inbox[c] \in 0 .. MaxSend /\ received[c] \in 0 .. MaxSend
          /\ buf[c] \in 0 .. BufferSize /\ echoed[c] \in 0 .. MaxSend
          /\ inbox[c] + received[c] <= MaxSend /\ echoed[c] + buf[c] <= received[c]
      BY DataFacts
    <2>3. /\ inbox' = [inbox EXCEPT ![c] = inbox[c]]
          /\ received' = [received EXCEPT ![c] = received[c]]
          /\ buf' = [buf EXCEPT ![c] = buf[c]] /\ echoed' = [echoed EXCEPT ![c] = echoed[c]]
      BY <2>1, DataFacts
    <2>4. QED
      BY <2>1, <2>2, <2>3, DataOfOne
  <1>7. QED
    BY <1>1, <1>2, <1>3, <1>4, <1>5, <1>6
       DEF Next, MainStep, Listen, ListenFails, InstallHandlers, Accept, AcceptThrows, LoopEnds,
           Construct, ConstructThrows, Enqueue, ServerStop, DestroyPool, Signal, EarlySignal,
           WorkerStep, ProcessRequest, SendBrokenPipe, RecvWouldBlock, RecvEnds, Connect, Client,
           ClientClose, ResetArrives, vars, socketVars

\* The main thread's own variables.
MainType ==
  /\ phase \in Phase
  /\ running \in BOOLEAN /\ handlers \in BOOLEAN /\ terminate \in BOOLEAN

\* Every step keeps the types of the main thread.
LEMMA NextMainType == MainType /\ [Next]_vars => MainType'
  <1> SUFFICES ASSUME MainType, [Next]_vars
               PROVE  MainType'
    OBVIOUS
  <1>1. CASE Listen \/ ListenFails \/ InstallHandlers \/ Accept \/ AcceptThrows \/ LoopEnds
    BY <1>1 DEF MainType, Phase, Listen, ListenFails, InstallHandlers, Accept, AcceptThrows, LoopEnds
  <1>2. CASE Construct \/ ConstructThrows \/ Enqueue \/ ServerStop \/ DestroyPool
    BY <1>2 DEF MainType, Phase, Construct, ConstructThrows, Enqueue, ServerStop, DestroyPool
  <1>3. CASE Signal \/ EarlySignal \/ \E w \in Pool!Workers, c \in Conns : SendBrokenPipe(w, c)
    BY <1>3 DEF MainType, Phase, Signal, EarlySignal, SendBrokenPipe
  <1>4. CASE UNCHANGED mainVars
    BY <1>4 DEF MainType, mainVars
  <1>5. QED
    BY <1>1, <1>2, <1>3, <1>4
       DEF Next, MainStep, WorkerStep, ProcessRequest, Recv, Send, SendFails, RecvWouldBlock,
           RecvEnds,
           Connect, Client, ClientSend, ClientRead, ClientClose, ResetArrives, vars

\* Every variable has its type, those of the pool included: the server adds to what
\* the pool guarantees the bounds of its buffers.
THEOREM TypeTheorem == Spec => []TypeOK
  <1>1. Spec => []DataInv
    BY InitDataInv, NextDataInv, PTL DEF Spec
  <1>2. Init => MainType
    BY DEF Init, MainType, Phase
  <1>3. Spec => []MainType
    BY <1>2, NextMainType, PTL DEF Spec
  <1>4. P!Spec => []P!TypeOK
    BY P!TypeTheorem, ServerPoolAssumption
  <1>5. P!TypeOK => Pool!TypeOK
    BY DEF P!TypeOK, Pool!TypeOK, P!Workers, Pool!Workers, P!PoolSize, Pool!PoolSize,
           P!WorkerState, Pool!WorkerState, P!CallerState, Pool!CallerState,
           P!OwnerState, Pool!OwnerState
  <1>6. ServerInv /\ DataInv /\ MainType /\ Pool!TypeOK => TypeOK
    BY DEF ServerInv, HandInv, BacklogInv, DataInv, MainType, TypeOK
  <1>7. QED
    BY <1>1, <1>3, <1>4, <1>5, <1>6, SamePool, ServerImplementsPool, ServerInvariant, PTL
       DEF PoolSpec, Pool!Spec, P!Spec

-----------------------------------------------------------------------------
(* The pool inside the server.                                             *)

\* The pool guarantees to the server what it guarantees to any of its callers: no
\* connection is lost or repeated between accept and the workers, none is left in the
\* queue while all workers sleep, and the pool is destroyed when all were served.
THEOREM PoolTheorem ==
  Spec => /\ [](Pool!FifoHandOff /\ Pool!FrontIsSafe)
          /\ [](Pool!NoStrandedTask /\ Pool!DrainedWhenDestroyed)
          /\ Pool!NothingAcceptedAfterExit
  <1>1. P!Spec => /\ []P!FifoHandOff /\ []P!FrontIsSafe /\ []P!NoStrandedTask
                  /\ []P!DrainedWhenDestroyed /\ P!NothingAcceptedAfterExit
    BY P!FifoTheorem, P!FrontTheorem, P!StrandedTheorem, P!DrainTheorem, P!ExitTheorem,
       ServerPoolAssumption
  <1>2. Pool!Workers = P!Workers
    BY DEF Pool!Workers, P!Workers, Pool!PoolSize, P!PoolSize
  <1>3. /\ P!FifoHandOff => Pool!FifoHandOff
        /\ P!FrontIsSafe => Pool!FrontIsSafe
        /\ P!NoStrandedTask => Pool!NoStrandedTask
        /\ P!DrainedWhenDestroyed => Pool!DrainedWhenDestroyed
    BY <1>2 DEF P!FifoHandOff, Pool!FifoHandOff, P!FrontIsSafe, Pool!FrontIsSafe,
                P!WakeUpCondition, Pool!WakeUpCondition, P!NoStrandedTask, Pool!NoStrandedTask,
                P!DrainedWhenDestroyed, Pool!DrainedWhenDestroyed
  <1>4. [accepted' # accepted => \A w \in P!Workers : worker[w] # "exited"]_(P!vars)
          => [accepted' # accepted => \A w \in Pool!Workers : worker[w] # "exited"]_(Pool!vars)
    BY <1>2 DEF P!vars, Pool!vars
  <1>5. P!NothingAcceptedAfterExit => Pool!NothingAcceptedAfterExit
    BY <1>4, PTL DEF P!NothingAcceptedAfterExit, Pool!NothingAcceptedAfterExit
  <1>6. Spec => P!Spec
    BY SamePool, ServerImplementsPool, PTL DEF PoolSpec, Pool!Spec, P!Spec
  <1>7. QED
    BY <1>1, <1>3, <1>5, <1>6, PTL

-----------------------------------------------------------------------------
(* The echo.                                                               *)

\* What was received from client c is echoed or about to be, unless a whole window of
\* replies was echoed already or the client gave its replies up.
EchoComplete(c) ==
  \/ received[c] = echoed[c] + buf[c]
  \/ echoed[c] >= Window
  \/ peer[c] = "reset" /\ c \notin OneShot

\* linux_client sends one request, of which nothing is lost, and it leaves a server
\* that is still there only after it has read the answer.
OneShotEcho(c) ==
  /\ Requested(c) <= 1
  /\ received[c] = echoed[c] + buf[c]
  /\ peer[c] \in {"closed", "reset"} /\ ~ServerGone(c) => peer[c] = "closed" /\ Answered(c)

EchoOf(c) ==
  /\ reply[c] <= echoed[c]
  /\ EchoComplete(c)
  /\ c \in OneShot => OneShotEcho(c)

EchoInv == \A c \in Conns : EchoOf(c)

\* What the server has left stays left: a closed socket is not opened again, and an
\* ended program does not go on.
LEMMA GoneStays ==
  ASSUME ServerInv, [Next]_vars, NEW c \in Conns, peer[c] # "new", ServerGone(c)
  PROVE  ServerGone(c)'
  <1> USE DEF ServerGone, Alive, ServerInv, BacklogInv, HandInv
  <1>1. CASE \/ Listen \/ InstallHandlers \/ LoopEnds \/ Construct \/ Enqueue \/ DestroyPool
            \/ ListenFails \/ AcceptThrows \/ Signal \/ EarlySignal
    BY <1>1 DEF Listen, InstallHandlers, LoopEnds, Construct, Enqueue, DestroyPool, ListenFails,
                AcceptThrows, Signal, EarlySignal, socketVars
  <1>2. CASE Accept
    <2>1. Head(backlog) \in Conns /\ fd[Head(backlog)] = "backlog"
      BY <1>2 DEF Accept
    <2>2. QED
      BY <1>2, <2>1 DEF Accept
  <1>3. CASE ConstructThrows \/ ServerStop
    BY <1>3 DEF ConstructThrows, ServerStop
  <1>4. CASE \E w \in Pool!Workers : WorkerStep(w) \/ \E d \in Conns : ProcessRequest(w, d)
    BY <1>4 DEF WorkerStep, ProcessRequest, Recv, Send, SendFails, SendBrokenPipe, RecvWouldBlock,
                RecvEnds, Serving, vars, mainVars, socketVars
  <1>5. CASE \E d \in Conns : Connect(d) \/ Client(d) \/ ResetArrives(d)
    BY <1>5 DEF Connect, Client, ClientSend, ClientRead, ClientClose, ResetArrives, mainVars
  <1>6. CASE UNCHANGED vars
    BY <1>6 DEF vars, mainVars, socketVars
  <1>7. QED
    BY <1>1, <1>2, <1>3, <1>4, <1>5, <1>6 DEF Next, MainStep

\* A step that leaves client c and its data alone keeps its echo.
LEMMA EchoUnchanged ==
  ASSUME ServerInv, [Next]_vars, NEW c \in Conns, EchoOf(c),
         UNCHANGED <<peer[c], inbox[c], buf[c], reply[c], received[c], echoed[c]>>
  PROVE  EchoOf(c)'
  <1>1. EchoComplete(c)'
    BY DEF EchoOf, EchoComplete
  <1>2. ASSUME c \in OneShot
        PROVE  OneShotEcho(c)'
    <2>1. peer'[c] \in {"closed", "reset"} /\ ~ServerGone(c)' => ~ServerGone(c)
      BY GoneStays
    <2>2. QED
      BY <1>2, <2>1 DEF EchoOf, OneShotEcho, Requested, Answered
  <1>3. QED
    BY <1>1, <1>2 DEF EchoOf

\* A worker has an open socket, so its client has connected and the server is there.
LEMMA ServingFacts ==
  ASSUME ServerInv, NEW w \in Pool!Workers, NEW c \in Conns, Serving(w, c)
  PROVE  peer[c] \in {"open", "closed", "reset"} /\ ~ServerGone(c)
  <1>1. fd[c] = "open"
    BY ServerAssumption DEF ServerInv, OwnInv, Serving
  <1>2. QED
    BY <1>1 DEF ServerInv, BacklogInv, ServerGone, Serving

\* What the invariants say of one connection.
LEMMA EchoFacts ==
  ASSUME DataInv, NEW c \in Conns, EchoOf(c)
  PROVE  /\ inbox[c] \in Nat /\ received[c] \in Nat /\ buf[c] \in Nat /\ echoed[c] \in Nat
         /\ reply[c] \in Nat /\ reply[c] <= echoed[c] /\ reply[c] <= Window
         /\ echoed[c] + buf[c] <= received[c]
         /\ c \in OneShot => inbox[c] + received[c] <= 1
         /\ EchoComplete(c)
  BY ServerAssumption, DataFacts DEF EchoOf, OneShotEcho, Requested

\* recv keeps the echo: it reads into an empty buffer.
LEMMA RecvEcho ==
  ASSUME DataInv, ServerInv, [Next]_vars, NEW w \in Pool!Workers, NEW c \in Conns,
         EchoOf(c), Recv(w, c)
  PROVE  EchoOf(c)'
  <1> DEFINE n == Smaller(inbox[c], BufferSize)
  <1>1. /\ buf[c] = 0
        /\ inbox'[c] = inbox[c] - n /\ buf'[c] = n /\ received'[c] = received[c] + n
        /\ peer' = peer /\ reply' = reply /\ echoed' = echoed
    BY DEF Recv, DataInv
  <1>2. n \in Nat /\ n <= inbox[c]
    BY ServerAssumption, DataFacts DEF Smaller
  <1> HIDE DEF n
  <1>3. EchoComplete(c)'
    BY <1>1, <1>2, EchoFacts DEF EchoComplete
  <1>4. ASSUME c \in OneShot
        PROVE  OneShotEcho(c)'
    <2>1. Requested(c)' <= 1 /\ received'[c] = echoed'[c] + buf'[c]
      BY <1>1, <1>2, <1>4, EchoFacts DEF EchoOf, OneShotEcho, Requested
    <2>2. peer'[c] \in {"closed", "reset"} => peer'[c] = "closed" /\ Answered(c)'
      BY <1>1, <1>4, ServingFacts DEF EchoOf, OneShotEcho, Answered, Recv
    <2>3. QED
      BY <2>1, <2>2 DEF OneShotEcho
  <1>5. QED
    BY <1>1, <1>3, <1>4 DEF EchoOf

\* send keeps the echo: what it drops comes behind a full window, and it drops
\* nothing of linux_client's one request.
LEMMA SendEcho ==
  ASSUME DataInv, ServerInv, [Next]_vars, NEW w \in Pool!Workers, NEW c \in Conns,
         EchoOf(c), Send(w, c)
  PROVE  EchoOf(c)'
  <1> DEFINE n == Smaller(buf[c], Window - reply[c])
  <1>1. /\ buf[c] > 0 /\ peer[c] # "reset"
        /\ reply'[c] = reply[c] + n /\ echoed'[c] = echoed[c] + n /\ buf'[c] = 0
        /\ peer' = peer /\ inbox' = inbox /\ received' = received
    BY DEF Send, DataInv
  <1>2. /\ n \in Nat /\ (n = buf[c] \/ reply[c] + n = Window)
        /\ (reply[c] + buf[c] <= Window => n = buf[c])
    BY ServerAssumption, EchoFacts DEF Smaller
  <1> HIDE DEF n
  <1>3. EchoComplete(c)'
    BY <1>1, <1>2, EchoFacts, ServerAssumption DEF EchoComplete
  <1>4. ASSUME c \in OneShot
        PROVE  OneShotEcho(c)'
    <2>1. received[c] = 1 /\ buf[c] = 1 /\ echoed[c] = 0 /\ reply[c] = 0
      BY <1>1, <1>4, EchoFacts DEF EchoOf, OneShotEcho
    <2>2. n = 1
      BY <1>2, <2>1, ServerAssumption
    <2>3. Requested(c)' <= 1 /\ received'[c] = echoed'[c] + buf'[c]
      BY <1>1, <1>4, <2>1, <2>2, EchoFacts DEF Requested
    <2>4. peer[c] = "open"
      BY <1>1, <1>4, <2>1, ServingFacts DEF EchoOf, OneShotEcho, Answered, Send
    <2>5. QED
      BY <1>1, <2>3, <2>4 DEF OneShotEcho
  <1>5. reply'[c] <= echoed'[c]
    BY <1>1, <1>2, EchoFacts
  <1>6. QED
    BY <1>3, <1>4, <1>5 DEF EchoOf

\* A send that fails drops the replies of a client that gave them up; linux_client
\* never resets a connection that is served.
LEMMA SendFailsEcho ==
  ASSUME DataInv, ServerInv, NEW w \in Pool!Workers, NEW c \in Conns,
         EchoOf(c), SendFails(w, c)
  PROVE  EchoOf(c)'
  <1>1. peer[c] = "reset" /\ UNCHANGED <<peer, reply, echoed>>
    BY DEF SendFails
  <1>2. c \notin OneShot
    BY <1>1, ServingFacts DEF EchoOf, OneShotEcho, SendFails
  <1>3. QED
    BY <1>1, <1>2 DEF EchoOf, EchoComplete

\* A client keeps the echo: what it sends and reads, and how it leaves.
LEMMA ClientEcho ==
  ASSUME DataInv, ServerInv, [Next]_vars, NEW c \in Conns, EchoOf(c),
         Connect(c) \/ Client(c) \/ ResetArrives(c)
  PROVE  EchoOf(c)'
  <1>1. CASE ClientSend(c)
    <2>1. /\ peer[c] = "open" /\ peer' = peer
          /\ c \in OneShot => inbox[c] + received[c] < 1
          /\ inbox'[c] = inbox[c] + 1
          /\ UNCHANGED <<buf, reply, received, echoed>>
      BY <1>1 DEF ClientSend, Requested, DataInv
    <2>2. c \in OneShot => Requested(c)' <= 1
      BY <2>1, EchoFacts DEF Requested
    <2>3. QED
      BY <2>1, <2>2 DEF EchoOf, EchoComplete, OneShotEcho
  <1>2. CASE ClientRead(c)
    <2>1. /\ peer[c] = "open" /\ peer' = peer
          /\ reply'[c] = 0
          /\ UNCHANGED <<inbox, buf, received, echoed>>
      BY <1>2 DEF ClientRead, DataInv
    <2>2. reply'[c] <= echoed'[c]
      BY <2>1, EchoFacts
    <2>3. QED
      BY <2>1, <2>2 DEF EchoOf, EchoComplete, OneShotEcho, Requested
  <1>3. CASE Connect(c)
    <2>1. peer[c] = "new" /\ peer'[c] = "open" /\ UNCHANGED <<inbox, buf, reply, received, echoed>>
      BY <1>3 DEF Connect, ServerInv, BacklogInv
    <2>2. QED
      BY <2>1 DEF EchoOf, EchoComplete, OneShotEcho, Requested
  <1>4. CASE ClientClose(c)
    <2>1. /\ peer[c] = "open" /\ peer'[c] = IF reply[c] > 0 THEN "reset" ELSE "closed"
          /\ c \in OneShot => Answered(c) \/ ServerGone(c)
          /\ UNCHANGED <<inbox, buf, reply, received, echoed>>
      BY <1>4 DEF ClientClose, ServerInv, BacklogInv
    <2>2. ASSUME c \in OneShot, ~ServerGone(c)'
          PROVE  peer'[c] = "closed" /\ Answered(c)'
      <3>1. echoed[c] > reply[c]
        BY <2>1, <2>2, GoneStays DEF Answered
      <3>2. reply[c] = 0
        BY <2>2, <3>1, EchoFacts
      <3>3. QED
        BY <2>1, <3>1, <3>2 DEF Answered
    <2>3. QED
      BY <2>1, <2>2 DEF EchoOf, EchoComplete, OneShotEcho, Requested
  <1>5. CASE ResetArrives(c)
    <2>1. /\ peer[c] = "closed" /\ reply[c] > 0 /\ peer'[c] = "reset"
          /\ UNCHANGED <<inbox, buf, reply, received, echoed>>
      BY <1>5 DEF ResetArrives, ServerInv, BacklogInv
    <2>2. ASSUME c \in OneShot
          PROVE  ServerGone(c)'
      <3>1. ~(echoed[c] > reply[c])
        BY <2>1, <2>2, EchoFacts
      <3>2. QED
        BY <2>1, <2>2, <3>1, GoneStays DEF EchoOf, OneShotEcho, Answered
    <2>3. QED
      BY <2>1, <2>2 DEF EchoOf, EchoComplete, OneShotEcho, Requested
  <1>6. QED
    BY <1>1, <1>2, <1>3, <1>4, <1>5 DEF Client

\* Every step keeps the echo of every client.
LEMMA NextEchoInv == DataInv /\ ServerInv /\ EchoInv /\ [Next]_vars => EchoInv'
  <1> SUFFICES ASSUME DataInv, ServerInv, EchoInv, [Next]_vars, NEW c \in Conns
               PROVE  EchoOf(c)'
    BY DEF EchoInv
  <1> DEFINE Kept == UNCHANGED <<peer[c], inbox[c], buf[c], reply[c], received[c], echoed[c]>>
  <1>1. EchoOf(c)
    BY DEF EchoInv
  <1>2. CASE Kept
    BY <1>1, <1>2, EchoUnchanged
  <1>3. ASSUME NEW w \in Pool!Workers, NEW d \in Conns, ProcessRequest(w, d)
        PROVE  EchoOf(c)'
    <2>1. CASE d = c /\ (Recv(w, d) \/ Send(w, d) \/ SendFails(w, d))
      BY <1>1, <2>1, RecvEcho, SendEcho, SendFailsEcho
    <2>2. CASE ~(d = c /\ (Recv(w, d) \/ Send(w, d) \/ SendFails(w, d)))
      <3>1. Kept
        BY <1>3, <2>2 DEF ProcessRequest, Recv, Send, SendFails, SendBrokenPipe, RecvWouldBlock,
                          RecvEnds, vars, socketVars, DataInv
      <3>2. QED
        BY <1>2, <3>1
    <2>3. QED
      BY <2>1, <2>2
  <1>4. ASSUME NEW d \in Conns, Connect(d) \/ Client(d) \/ ResetArrives(d)
        PROVE  EchoOf(c)'
    <2>1. CASE d = c
      BY <1>1, <1>4, <2>1, ClientEcho
    <2>2. CASE d # c
      <3>1. Kept
        BY <1>4, <2>2 DEF Connect, Client, ClientSend, ClientRead, ClientClose, ResetArrives,
                          DataInv, ServerInv, BacklogInv
      <3>2. QED
        BY <1>2, <3>1
    <2>3. QED
      BY <2>1, <2>2
  <1>5. QED
    BY <1>2, <1>3, <1>4
       DEF Next, MainStep, Listen, ListenFails, InstallHandlers, Accept, AcceptThrows, LoopEnds,
           Construct, ConstructThrows, Enqueue, ServerStop, DestroyPool, Signal, EarlySignal,
           WorkerStep, vars, socketVars

\* The echo of every reachable state.
LEMMA EchoInvariant == Spec => [](DataInv /\ ServerInv /\ EchoInv)
  <1>1. Init => EchoInv
    BY DEF Init, EchoInv, EchoOf, EchoComplete, OneShotEcho, Requested
  <1>2. QED
    BY <1>1, InitDataInv, NextDataInv, NextEchoInv, ServerInvariant, PTL DEF Spec

\* The single unchecked send loses nothing of a client before a full window of replies
\* was echoed to it, except when the client reset the connection; and it never loses
\* the request of linux_client, which leaves a server that is there with its answer.
THEOREM LossTheorem == Spec => [](\A c \in Conns : EchoComplete(c) /\ (c \in OneShot => OneShotEcho(c)))
  <1>1. EchoInv => \A c \in Conns : EchoComplete(c) /\ (c \in OneShot => OneShotEcho(c))
    BY DEF EchoInv, EchoOf
  <1>2. QED
    BY <1>1, EchoInvariant, PTL

\* Only the end of a task closes a socket that was constructed, with nothing unread.
LEMMA OnlyRecvEndsCloses ==
  ASSUME DataInv, ServerInv, [Next]_vars, NEW c \in Conns \ {hand},
         fd[c] = "open", fd'[c] = "closed"
  PROVE  inbox[c] = 0 /\ buf[c] = 0
  <1> USE DEF ServerInv, BacklogInv
  <1>1. CASE \E w \in Pool!Workers, d \in Conns : ProcessRequest(w, d)
    BY <1>1 DEF ProcessRequest, Recv, Send, SendFails, SendBrokenPipe, RecvWouldBlock, RecvEnds,
                vars, socketVars
  <1>2. CASE Accept \/ ConstructThrows \/ ServerStop \/ \E d \in Conns : Connect(d)
    BY <1>2 DEF Accept, ConstructThrows, ServerStop, Connect
  <1>3. CASE UNCHANGED fd
    BY <1>3
  <1>4. QED
    BY <1>1, <1>2, <1>3
       DEF Next, MainStep, Listen, ListenFails, InstallHandlers, AcceptThrows, LoopEnds, Construct,
           Enqueue, DestroyPool, Signal, EarlySignal, WorkerStep, Client, ClientSend, ClientRead,
           ClientClose, ResetArrives, vars, socketVars

\* When a worker closes a socket its client's requests were echoed, or a full window
\* of them, unless the client reset the connection: all clients, buffers and windows.
THEOREM EchoTheorem == Spec => EchoedBeforeClose
  <1>1. DataInv /\ ServerInv /\ EchoInv /\ [Next]_vars
          => [\A c \in Conns \ {hand} :
                fd[c] = "open" /\ fd'[c] = "closed"
                  => \/ echoed[c] >= Smaller(Requested(c), Window)
                     \/ peer[c] = "reset" /\ c \notin OneShot]_vars
    <2> SUFFICES ASSUME DataInv, ServerInv, EchoInv, [Next]_vars,
                        NEW c \in Conns \ {hand}, fd[c] = "open", fd'[c] = "closed"
                 PROVE  \/ echoed[c] >= Smaller(Requested(c), Window)
                        \/ peer[c] = "reset" /\ c \notin OneShot
      OBVIOUS
    <2>1. inbox[c] = 0 /\ buf[c] = 0
      BY OnlyRecvEndsCloses
    <2>2. EchoOf(c)
      BY DEF EchoInv
    <2>3. CASE received[c] = echoed[c] + buf[c]
      BY <2>1, <2>2, <2>3, EchoFacts, ServerAssumption DEF Requested, Smaller
    <2>4. CASE echoed[c] >= Window
      BY <2>1, <2>2, <2>4, EchoFacts, ServerAssumption DEF Requested, Smaller
    <2>5. QED
      BY <2>2, <2>3, <2>4 DEF EchoOf, EchoComplete
  <1>2. QED
    BY <1>1, EchoInvariant, PTL DEF Spec, EchoedBeforeClose

=============================================================================
