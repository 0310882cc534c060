-------------------------- MODULE ThreadPoolServer --------------------------
(***************************************************************************)
(* The program thread_pool_server: main() of thread_pool_main.cpp, the     *)
(* class ThreadPoolTcpServer (accept loop on the main thread, shutdown by  *)
(* signal) and TcpConnection (one connection served by one worker), on top *)
(* of the ThreadPool module, with the clients at the other end of the      *)
(* sockets.                                                                *)
(*                                                                         *)
(* A connection stands for its server-side file descriptor too.  Data is   *)
(* counted in units; a recv takes at most BufferSize of them (kBufferSize  *)
(* - 1 in the code) and the kernel buffers at most Window unread units of  *)
(* replies per client, which is what makes a non-blocking send fall short. *)
(* The prefix "Echo: " and the log lines are left out.                     *)
(***************************************************************************)
EXTENDS Naturals, Sequences, FiniteSets

CONSTANTS
  ThreadCount,  \* std::thread::hardware_concurrency()
  Conns,        \* the connections clients may open
  OneShot,      \* the connections opened by linux_client
  MaxSend,      \* bound: the units one client sends (linux_client sends one)
  BufferSize,
  Window,
  Main, NoThread, NoConn

ASSUME ServerAssumption ==
  /\ ThreadCount \in Nat
  /\ Main \notin Nat
  /\ NoThread \notin Nat \cup {Main}
  /\ NoConn \notin Conns
  /\ OneShot \subseteq Conns
  /\ MaxSend \in Nat \ {0}
  /\ BufferSize \in Nat \ {0}
  /\ Window \in Nat \ {0}

VARIABLES
  mutex, tasks, stop, worker, job, caller, arg, owner, offered, accepted, started,
  phase,     \* the point the main thread has reached
  hand,      \* client_fd, between accept and enqueue
  running,   \* running_
  handlers,  \* run() has installed its signal handlers
  terminate, \* s_terminate
  backlog,   \* connections the kernel completed and nobody accepted
  fd,        \* the server-side descriptor of each connection
  peer,      \* the client's end of each connection
  inbox,     \* units received by the kernel and not yet by recv
  buf,       \* units a worker received and has not echoed yet
  reply,     \* units echoed and not yet read by the client
  received,  \* history: units that recv returned
  echoed     \* history: units that send accepted

poolVars   == <<mutex, tasks, stop, worker, job, caller, arg, owner,
                offered, accepted, started>>
mainVars   == <<phase, hand, running, handlers, terminate>>
socketVars == <<backlog, fd, peer, inbox, buf, reply, received, echoed>>
vars       == <<poolVars, mainVars, socketVars>>

Pool == INSTANCE ThreadPool WITH Callers <- {Main}, Tasks <- Conns, NoTask <- NoConn

Phase == {"start", "listening", "loop", "handing", "enqueue", "leaving",
          "destroying", "exited", "killed"}

TypeOK ==
  /\ Pool!TypeOK
  /\ phase \in Phase
  /\ hand \in Conns \cup {NoConn}
  /\ running \in BOOLEAN
  /\ handlers \in BOOLEAN
  /\ terminate \in BOOLEAN
  /\ backlog \in Seq(Conns)
  /\ fd \in [Conns -> {"none", "backlog", "open", "closed", "refused"}]
  /\ peer \in [Conns -> {"new", "open", "closed", "reset"}]
  /\ inbox \in [Conns -> 0 .. MaxSend]
  /\ buf \in [Conns -> 0 .. BufferSize]
  /\ reply \in [Conns -> 0 .. Window]
  /\ received \in [Conns -> 0 .. MaxSend]
  /\ echoed \in [Conns -> 0 .. MaxSend]

Init ==
  /\ Pool!Init
  /\ phase = "start"
  /\ hand = NoConn
  /\ running = FALSE
  /\ handlers = FALSE
  /\ terminate = FALSE
  /\ backlog = <<>>
  /\ fd = [c \in Conns |-> "none"]
  /\ peer = [c \in Conns |-> "new"]
  /\ inbox = [c \in Conns |-> 0]
  /\ buf = [c \in Conns |-> 0]
  /\ reply = [c \in Conns |-> 0]
  /\ received = [c \in Conns |-> 0]
  /\ echoed = [c \in Conns |-> 0]

Alive == phase \notin {"exited", "killed"}
Listening == phase \in {"listening", "loop", "handing", "enqueue", "leaving"}

Smaller(m, n) == IF m < n THEN m ELSE n

-----------------------------------------------------------------------------
(* The main thread: run(), and the destructors once it has returned.       *)

\* createListenSocket() succeeds and running_ is set.
Listen ==
  /\ phase = "start"
  /\ running' = TRUE
  /\ phase' = "listening"
  /\ UNCHANGED <<poolVars, hand, handlers, terminate, socketVars>>

\* One of its system calls fails: run() throws before running_ is set, so that
\* stop() finds nothing to do; a socket that was opened closes with its handle.
ListenFails ==
  /\ phase = "start"
  /\ phase' = "destroying"
  /\ UNCHANGED <<poolVars, hand, running, handlers, terminate, socketVars>>

InstallHandlers ==
  /\ phase = "listening"
  /\ handlers' = TRUE
  /\ phase' = "loop"
  /\ UNCHANGED <<poolVars, hand, running, terminate, socketVars>>

LoopCondition == running /\ ~terminate

\* The accept that finds no connection only sleeps: it changes nothing here.
Accept ==
  /\ phase = "loop"
  /\ LoopCondition
  /\ backlog # <<>>
  /\ hand' = Head(backlog)
  /\ fd' = [fd EXCEPT ![Head(backlog)] = "open"]
  /\ backlog' = Tail(backlog)
  /\ phase' = "handing"
  /\ UNCHANGED <<poolVars, running, handlers, terminate, peer, inbox, buf, reply, received, echoed>>

\* Any accept error but EAGAIN leaves run() by an exception.
AcceptThrows ==
  /\ phase = "loop"
  /\ LoopCondition
  /\ phase' = "leaving"
  /\ UNCHANGED <<poolVars, hand, running, handlers, terminate, socketVars>>

LoopEnds ==
  /\ phase = "loop"
  /\ ~LoopCondition
  /\ phase' = "leaving"
  /\ UNCHANGED <<poolVars, hand, running, handlers, terminate, socketVars>>

\* The TcpConnection is built: its constructor makes the socket non-blocking.
Construct ==
  /\ phase = "handing"
  /\ phase' = "enqueue"
  /\ UNCHANGED <<poolVars, hand, running, handlers, terminate, socketVars>>

\* The constructor throws: socket_ is destroyed, which closes the descriptor.
ConstructThrows ==
  /\ phase = "handing"
  /\ fd' = [fd EXCEPT ![hand] = "closed"]
  /\ hand' = NoConn
  /\ phase' = "leaving"
  /\ UNCHANGED <<poolVars, running, handlers, terminate, backlog, peer, inbox, buf, reply,
                 received, echoed>>

\* pool_.enqueue(...); the connection belongs to the queue once it is emplaced.
Enqueue ==
  /\ phase = "enqueue"
  /\ \/ Pool!EnqueueLock(Main, hand) /\ UNCHANGED <<phase, hand>>
     \/ Pool!EnqueuePass(Main) /\ UNCHANGED <<phase, hand>>
     \/ Pool!EnqueueEmplace(Main) /\ hand' = NoConn /\ UNCHANGED phase
     \/ Pool!EnqueueNotify(Main) /\ phase' = "loop" /\ UNCHANGED hand
  /\ UNCHANGED <<running, handlers, terminate, socketVars>>

\* Mutant: the listening socket stays open.
ServerStopKeepsListening ==
  /\ phase = "leaving"
  /\ running' = FALSE
  /\ phase' = "destroying"
  /\ UNCHANGED <<poolVars, hand, handlers, terminate, socketVars>>

\* ~ThreadPoolTcpServer: stop() closes the listening socket, and the kernel
\* resets the connections nobody accepted.
ServerStop ==
  /\ phase = "leaving"
  /\ running' = FALSE
  /\ fd' = [c \in Conns |-> IF fd[c] = "backlog" THEN "refused" ELSE fd[c]]
  /\ backlog' = <<>>
  /\ phase' = "destroying"
  /\ UNCHANGED <<poolVars, hand, handlers, terminate, peer, inbox, buf, reply, received, echoed>>

\* Mutant: the destructor detaches the workers instead of joining them.
DestroyPoolDetached ==
  /\ phase = "destroying"
  /\ \/ Pool!DestructorStop /\ UNCHANGED phase
     \/ Pool!DestructorNotify /\ UNCHANGED phase
     \/ /\ owner = "joining"
        /\ owner' = "destroyed"
        /\ phase' = "exited"
        /\ UNCHANGED <<mutex, tasks, stop, worker, job, caller, arg, offered, accepted, started>>
  /\ UNCHANGED <<hand, running, handlers, terminate, socketVars>>

\* pool_ is destroyed after the listening socket; then main() returns.
DestroyPool ==
  /\ phase = "destroying"
  /\ \/ Pool!DestructorStop /\ UNCHANGED phase
     \/ Pool!DestructorNotify /\ UNCHANGED phase
     \/ Pool!DestructorJoin /\ phase' = "exited"
  /\ UNCHANGED <<hand, running, handlers, terminate, socketVars>>

\* SIGINT or SIGTERM.
Signal ==
  /\ Alive /\ handlers
  /\ terminate' = TRUE
  /\ UNCHANGED <<poolVars, phase, hand, running, handlers, socketVars>>

\* Before signal() is called they have their default effect.
EarlySignal ==
  /\ Alive /\ ~handlers
  /\ phase' = "killed"
  /\ UNCHANGED <<poolVars, hand, running, handlers, terminate, socketVars>>

-----------------------------------------------------------------------------
(* A worker: the loop of the pool, and processRequest() as its task.       *)

WorkerStep(w) ==
  /\ Alive
  /\ Pool!WorkerLoop(w) \/ Pool!SpuriousWakeup(w)
  /\ UNCHANGED <<mainVars, socketVars>>

\* Worker w runs the task of connection c and is about to call recv.
Serving(w, c) == Alive /\ worker[w] = "running" /\ job[w] = c

\* Mutant: recv is repeated into the same buffer before the answer is sent.
RecvOverwrites(w, c) ==
  /\ Serving(w, c)
  /\ inbox[c] > 0
  /\ LET n == Smaller(inbox[c], BufferSize) IN
       /\ inbox' = [inbox EXCEPT ![c] = @ - n]
       /\ buf' = [buf EXCEPT ![c] = n]
       /\ received' = [received EXCEPT ![c] = @ + n]
  /\ UNCHANGED <<poolVars, mainVars, backlog, fd, peer, reply, echoed>>

Recv(w, c) ==
  /\ Serving(w, c)
  /\ buf[c] = 0
  /\ inbox[c] > 0
  /\ LET n == Smaller(inbox[c], BufferSize) IN
       /\ inbox' = [inbox EXCEPT ![c] = @ - n]
       /\ buf' = [buf EXCEPT ![c] = n]
       /\ received' = [received EXCEPT ![c] = @ + n]
  /\ UNCHANGED <<poolVars, mainVars, backlog, fd, peer, reply, echoed>>

\* One non-blocking send, never repeated: what the kernel does not take, or
\* all of it when send fails with EAGAIN, is dropped.
Send(w, c) ==
  /\ Serving(w, c)
  /\ buf[c] > 0
  /\ peer[c] # "reset"
  /\ LET n == Smaller(buf[c], Window - reply[c]) IN
       /\ reply' = [reply EXCEPT ![c] = @ + n]
       /\ echoed' = [echoed EXCEPT ![c] = @ + n]
  /\ buf' = [buf EXCEPT ![c] = 0]
  /\ UNCHANGED <<poolVars, mainVars, backlog, fd, peer, inbox, received>>

\* send to a reset connection: the first one fails with ECONNRESET, unless the client
\* had closed before, and the loop goes on after a line in the log.
SendFails(w, c) ==
  /\ Serving(w, c)
  /\ buf[c] > 0
  /\ peer[c] = "reset"
  /\ buf' = [buf EXCEPT ![c] = 0]
  /\ UNCHANGED <<poolVars, mainVars, backlog, fd, peer, inbox, reply, received, echoed>>

\* Any other, without MSG_NOSIGNAL, raises SIGPIPE, which the program does not
\* handle.  Which of them it is is left open.
SendBrokenPipe(w, c) ==
  /\ Serving(w, c)
  /\ buf[c] > 0
  /\ peer[c] = "reset"
  /\ phase' = "killed"
  /\ UNCHANGED <<poolVars, hand, running, handlers, terminate, socketVars>>

\* recv returns EAGAIN: the loop continues at once.
WouldBlock(w, c) ==
  /\ Serving(w, c)
  /\ buf[c] = 0 /\ inbox[c] = 0 /\ peer[c] = "open"

RecvWouldBlock(w, c) == WouldBlock(w, c) /\ UNCHANGED vars

\* Mutants: the task returns without closing the socket; it returns when the
\* client has closed, whatever is unread; it returns when recv would block.
RecvEndsLeaking(w, c) ==
  /\ Serving(w, c)
  /\ buf[c] = 0 /\ inbox[c] = 0 /\ peer[c] \in {"closed", "reset"}
  /\ Pool!WorkerFinish(w)
  /\ UNCHANGED <<mainVars, socketVars>>

RecvEndsEarly(w, c) ==
  /\ Serving(w, c)
  /\ peer[c] \in {"closed", "reset"}
  /\ Pool!WorkerFinish(w)
  /\ fd' = [fd EXCEPT ![c] = "closed"]
  /\ UNCHANGED <<mainVars, backlog, peer, inbox, buf, reply, received, echoed>>

RecvEndsWhenEmpty(w, c) ==
  /\ Serving(w, c)
  /\ buf[c] = 0 /\ inbox[c] = 0
  /\ Pool!WorkerFinish(w)
  /\ fd' = [fd EXCEPT ![c] = "closed"]
  /\ UNCHANGED <<mainVars, backlog, peer, inbox, buf, reply, received, echoed>>

\* recv returns 0 (the client closed) or fails (it reset the connection): the
\* task returns and its destruction closes the socket.
RecvEnds(w, c) ==
  /\ Serving(w, c)
  /\ buf[c] = 0 /\ inbox[c] = 0 /\ peer[c] \in {"closed", "reset"}
  /\ Pool!WorkerFinish(w)
  /\ fd' = [fd EXCEPT ![c] = "closed"]
  /\ UNCHANGED <<mainVars, backlog, peer, inbox, buf, reply, received, echoed>>

ProcessRequest(w, c) ==
  \/ Recv(w, c)
  \/ Send(w, c)
  \/ SendFails(w, c)
  \/ SendBrokenPipe(w, c)
  \/ RecvWouldBlock(w, c)
  \/ RecvEnds(w, c)

-----------------------------------------------------------------------------
(* The clients.  Those of OneShot run linux_client: one request, one recv, *)
(* then close; the others send, read and close as they like.               *)

Requested(c) == inbox[c] + received[c]
Answered(c) == echoed[c] > reply[c]      \* the client has read something
ServerGone(c) == fd[c] \in {"closed", "refused"} \/ ~Alive

Connect(c) ==
  /\ Alive /\ Listening
  /\ peer[c] = "new"
  /\ peer' = [peer EXCEPT ![c] = "open"]
  /\ fd' = [fd EXCEPT ![c] = "backlog"]
  /\ backlog' = Append(backlog, c)
  /\ UNCHANGED <<poolVars, mainVars, inbox, buf, reply, received, echoed>>

ClientSend(c) ==
  /\ peer[c] = "open"
  /\ ~ServerGone(c)
  /\ Requested(c) < IF c \in OneShot THEN 1 ELSE MaxSend
  /\ inbox' = [inbox EXCEPT ![c] = @ + 1]
  /\ UNCHANGED <<poolVars, mainVars, backlog, fd, peer, buf, reply, received, echoed>>

ClientRead(c) ==
  /\ peer[c] = "open"
  /\ reply[c] > 0
  /\ reply' = [reply EXCEPT ![c] = 0]
  /\ UNCHANGED <<poolVars, mainVars, backlog, fd, peer, inbox, buf, received, echoed>>

\* Closing with unread data resets the connection.
ClientClose(c) ==
  /\ peer[c] = "open"
  /\ c \in OneShot => Answered(c) \/ ServerGone(c)
  /\ peer' = [peer EXCEPT ![c] = IF reply[c] > 0 THEN "reset" ELSE "closed"]
  /\ UNCHANGED <<poolVars, mainVars, backlog, fd, inbox, buf, reply, received, echoed>>

\* A reply reaches a socket that is closed already.
ResetArrives(c) ==
  /\ peer[c] = "closed"
  /\ reply[c] > 0
  /\ peer' = [peer EXCEPT ![c] = "reset"]
  /\ UNCHANGED <<poolVars, mainVars, backlog, fd, inbox, buf, reply, received, echoed>>

Client(c) == ClientSend(c) \/ ClientRead(c) \/ ClientClose(c)

-----------------------------------------------------------------------------

MainStep ==
  \/ Listen
  \/ InstallHandlers
  \/ Accept
  \/ LoopEnds
  \/ Construct
  \/ Enqueue
  \/ ServerStop
  \/ DestroyPool

Next ==
  \/ MainStep
  \/ ListenFails
  \/ AcceptThrows
  \/ ConstructThrows
  \/ Signal
  \/ EarlySignal
  \/ \E w \in Pool!Workers :
       WorkerStep(w) \/ \E c \in Conns : ProcessRequest(w, c)
  \/ \E c \in Conns : Connect(c) \/ Client(c) \/ ResetArrives(c)

Spec == Init /\ [][Next]_vars

(***************************************************************************)
(* Threads that can run do run, and a thread that asks for the mutex again *)
(* and again gets it.  linux_client does what it is programmed to; nothing *)
(* is assumed of the other clients, of signals or of failures.             *)
(***************************************************************************)
Fairness ==
  /\ SF_vars(MainStep)
  /\ \A w \in Pool!Workers :
       /\ SF_vars(Alive /\ Pool!WorkerLoop(w) /\ UNCHANGED <<mainVars, socketVars>>)
       /\ \A c \in Conns :
            WF_vars(\/ Recv(w, c) \/ Send(w, c) \/ SendFails(w, c)
                    \/ SendBrokenPipe(w, c) \/ RecvEnds(w, c))
  /\ \A c \in OneShot : WF_vars(Client(c))

FairSpec == Spec /\ Fairness

-----------------------------------------------------------------------------
(* Properties.                                                             *)

\* How many objects hold the SocketHandle of c: the main thread's temporary or
\* the packaged task made from it, entries of the queue, tasks of workers.
Holders(c) ==
  (IF c \in {hand, arg[Main]} THEN 1 ELSE 0)
    + Cardinality({i \in 1 .. Len(tasks) : tasks[i] = c})
    + Cardinality({w \in Pool!Workers : job[w] = c})

\* A descriptor that accept returned has exactly one owner until it is closed,
\* and none afterwards: it is neither leaked nor closed twice.
OneOwner ==
  \A c \in Conns : Holders(c) = IF fd[c] = "open" THEN 1 ELSE 0

\* A normal end of the program, by signal or by exception, closes every socket:
\* the connections still queued are served before the pool is gone.
NothingOpenAtExit ==
  phase = "exited" =>
    /\ \A c \in Conns : fd[c] \notin {"backlog", "open"}
    /\ tasks = <<>>

\* When a worker closes a socket, all that its client sent was echoed, or as much as
\* the kernel holds for a client that does not read: the single unchecked send loses
\* only what comes behind a full window.  A client that resets its connection gives
\* up its replies, which linux_client never does.
EchoedBeforeClose ==
  [][\A c \in Conns \ {hand} :
       fd[c] = "open" /\ fd'[c] = "closed"
         => \/ echoed[c] >= Smaller(Requested(c), Window)
            \/ peer[c] = "reset" /\ c \notin OneShot]_vars

\* The composition uses the pool only through its operations.
PoolSpec == Pool!Spec

\* A client that says nothing and does not close holds a worker for ever; as many of
\* them as there are workers stop the server.  With fewer the others are served.
FewSilent == Cardinality(Conns \ OneShot) < Pool!PoolSize

\* A request of linux_client that reached the queue is answered, even when the
\* server is told to stop meanwhile, unless silent clients hold all workers.
QueuedClientAnswered ==
  FewSilent =>
    \A c \in OneShot :
      (\E i \in 1 .. Len(tasks) : tasks[i] = c) ~> (Answered(c) \/ phase = "killed")

\* Every connection of linux_client ends: served and closed, or refused, unless
\* silent clients hold all workers.
ClientTerminates ==
  FewSilent => \A c \in OneShot : (peer[c] = "open") ~> (peer[c] # "open")

\* "install simple signal handler for graceful shutdown": after a signal the
\* program ends.
GracefulShutdown == (phase = "loop" /\ terminate) ~> ~Alive

=============================================================================
