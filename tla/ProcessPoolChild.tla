-------------------------- MODULE ProcessPoolChild --------------------------
(***************************************************************************)
(* A child of processpool<cgi_conn> in cpt_15_3.h: run_child, an event     *)
(* loop on edge-triggered epoll, and cgi_conn::process, which reads one    *)
(* request and starts the program it names.                                *)
(*                                                                         *)
(* The child meets its parent at the pipe only, where each notice stands   *)
(* for a connection it is to accept.  Notices arrive here the way the      *)
(* parent's code for a new connection sends them; that the parent as built *)
(* does not get to that code is the matter of the module ProcessPool.      *)
(*                                                                         *)
(* A request is sent in units; a client ends its line with any of them, or *)
(* with none, and sends no more after that.  Capacity units fit the buffer *)
(* of a connection.                                                        *)
(***************************************************************************)
EXTENDS Naturals, Sequences, FiniteSets

CONSTANTS
  Conns,     \* the clients; each connects once
  Fds,       \* the descriptors accept may return
  NoConn,    \* a descriptor that is not open
  NoFd,      \* process() is not running
  Capacity,  \* BUFFER_SIZE - 1
  MaxSend    \* bound: the units a client sends

ASSUME ChildAssumption ==
  /\ Fds \cap {"pipe", "signals"} = {} /\ NoFd \notin Fds
  /\ NoConn \notin Conns
  /\ Capacity \in Nat \ {0}
  /\ MaxSend \in Nat /\ MaxSend > Capacity

VARIABLES
  phase,    \* in epoll_wait, handling its events, or out of the loop
  serving,  \* the descriptor whose process() is running
  batch,    \* the reported sources that are still to handle
  ready,    \* the sources epoll has to report
  slot,     \* the client of each descriptor
  readIdx,  \* m_read_idx of users[fd]
  stop,     \* m_stop
  backlog,  \* the connections that no accept has returned, for all children
  arrived,  \* epoll has a new connection to report to the parent
  notices,  \* the notices in the pipe
  parent,   \* whether another process still holds the other end of the pipe
  pipe,     \* the signals written to sig_pipefd
  programs, zombies,   \* the programs that run, and those not waited for
  peer, unread, sent,  \* the clients: connection, input, units sent and not discarded
  complete  \* the clients that have ended their line

loopVars   == <<phase, serving, batch, stop>>
userVars   == <<slot, readIdx>>
parentVars == <<backlog, arrived, notices, parent>>
signalVars == <<pipe, programs, zombies>>
clientVars == <<peer, unread, sent, complete>>
vars == <<loopVars, userVars, parentVars, signalVars, clientVars, ready>>

Sources == {"pipe", "signals"} \cup Fds

TypeOK ==
  /\ phase \in {"waiting", "events", "stopped"}
  /\ serving \in Fds \cup {NoFd}
  /\ batch \subseteq Sources /\ ready \subseteq Sources
  /\ slot \in [Fds -> Conns \cup {NoConn}]
  /\ readIdx \in [Fds -> 0 .. Capacity]
  /\ stop \in BOOLEAN
  /\ backlog \in Seq(Conns)
  /\ arrived \in BOOLEAN /\ notices \in Nat /\ parent \in BOOLEAN
  /\ pipe \subseteq {"CHLD", "TERM"}
  /\ programs \in Nat /\ zombies \in Nat
  /\ peer \in [Conns -> {"new", "open", "closed", "gone"}]
  /\ unread \in [Conns -> 0 .. MaxSend]
  /\ sent \in [Conns -> 0 .. MaxSend]
  /\ complete \subseteq Conns

\* After setup_sig_pipe; the constructor of cgi_conn sets no field.
Init ==
  /\ phase = "waiting"
  /\ serving = NoFd
  /\ batch = {} /\ ready = {}
  /\ slot = [fd \in Fds |-> NoConn]
  /\ readIdx \in [Fds -> 0 .. Capacity]
  /\ stop = FALSE
  /\ backlog = <<>> /\ arrived = FALSE
  /\ notices = 0 /\ parent = TRUE
  /\ pipe = {} /\ programs = 0 /\ zombies = 0
  /\ peer = [c \in Conns |-> "new"]
  /\ unread = [c \in Conns |-> 0] /\ sent = [c \in Conns |-> 0]
  /\ complete = {}

-----------------------------------------------------------------------------
(* The loop of run_child.                                                  *)

HasInput(c) == unread[c] > 0 \/ peer[c] = "closed"

Readable(s) ==
  \/ s = "pipe" /\ (notices > 0 \/ ~parent)
  \/ s = "signals" /\ pipe # {}
  \/ s \in Fds /\ slot[s] # NoConn /\ HasInput(slot[s])

EpollWait ==
  /\ phase = "waiting"
  /\ batch' = {s \in ready : Readable(s)}
  /\ batch' # {}
  /\ ready' = {}
  /\ phase' = "events"
  /\ UNCHANGED <<userVars, parentVars, signalVars, clientVars, serving, stop>>

Handling(s) ==
  /\ phase = "events" /\ serving = NoFd
  /\ s \in batch /\ batch' = batch \ {s}
  /\ UNCHANGED phase

\* Mutant: init() is not called.
InitNothing(fd) == UNCHANGED readIdx

InitUser(fd) == readIdx' = [readIdx EXCEPT ![fd] = 0]

ReadNotice ==
  /\ Handling("pipe")
  /\ notices > 0 /\ notices' = notices - 1
  /\ UNCHANGED <<signalVars, clientVars, serving, stop, arrived, parent>>

\* One notice is read, accept returns a connection, and init() prepares its user.
Accept ==
  /\ ReadNotice
  /\ backlog # <<>> /\ backlog' = Tail(backlog)
  /\ LET c == Head(backlog) IN
       \E fd \in {f \in Fds : slot[f] = NoConn} :
         /\ slot' = [slot EXCEPT ![fd] = c]
         /\ InitUser(fd)
         /\ ready' = IF HasInput(c) THEN ready \cup {fd} ELSE ready

\* accept fails: another child was faster, or there is no descriptor left.
AcceptFails ==
  /\ ReadNotice
  /\ backlog = <<>> \/ \A fd \in Fds : slot[fd] # NoConn
  /\ UNCHANGED <<userVars, ready, backlog>>

\* The other end of the pipe is closed: recv returns 0, and the child goes on.
ParentIsGone ==
  /\ Handling("pipe")
  /\ notices = 0 /\ ~parent
  /\ UNCHANGED <<userVars, parentVars, signalVars, clientVars, ready, serving, stop>>

\* Mutant: waitpid is called once.
WaitOnce == IF zombies > 0 THEN zombies - 1 ELSE 0

\* waitpid is called until no program is left.
WaitAll == 0

\* Mutant: the cases of the switch exclude each other.
StopsAlone == pipe = {"TERM"}

Stops == "TERM" \in pipe

\* All signals are read at once.
ReadSignals ==
  /\ Handling("signals")
  /\ zombies' = IF "CHLD" \in pipe THEN WaitAll ELSE zombies
  /\ stop' = (stop \/ Stops)
  /\ pipe' = {}
  /\ UNCHANGED <<userVars, parentVars, clientVars, ready, serving, programs>>

LoopEnd ==
  /\ phase = "events" /\ batch = {} /\ serving = NoFd
  /\ phase' = IF stop THEN "stopped" ELSE "waiting"
  /\ UNCHANGED <<userVars, parentVars, signalVars, clientVars, ready, serving, batch, stop>>

-----------------------------------------------------------------------------
(* cgi_conn::process, called for fd.                                       *)

Process(fd) ==
  /\ Handling(fd)
  /\ serving' = fd
  /\ UNCHANGED <<userVars, parentVars, signalVars, clientVars, ready, stop>>

\* A client is closed; what it sent is gone.
Forget(c) ==
  /\ peer' = [peer EXCEPT ![c] = "gone"]
  /\ unread' = [unread EXCEPT ![c] = 0] /\ sent' = [sent EXCEPT ![c] = 0]
  /\ complete' = complete \ {c}

\* Mutant: the loop goes on after removefd.
BreakNot == UNCHANGED serving

Break == serving' = NoFd

RemoveFd(fd) ==
  /\ slot' = [slot EXCEPT ![fd] = NoConn]
  /\ ready' = ready \ {fd}
  /\ Forget(slot[fd])
  /\ Break

\* The part of the input that recv puts in the buffer.
Taken(fd) ==
  IF unread[slot[fd]] < Capacity - readIdx[fd] THEN unread[slot[fd]] ELSE Capacity - readIdx[fd]

EndOfLine(fd) == slot[fd] \in complete /\ Taken(fd) = unread[slot[fd]]

RecvSome(fd) ==
  /\ serving = fd /\ Taken(fd) > 0
  /\ readIdx' = [readIdx EXCEPT ![fd] = @ + Taken(fd)]
  /\ UNCHANGED <<parentVars, phase, batch, stop, pipe, zombies>>

\* Mutant: process() returns until the next event.
Return == serving' = NoFd

Continue == UNCHANGED serving

\* recv returns data without the end of the line: the loop goes on.
RecvPart(fd) ==
  /\ RecvSome(fd) /\ ~EndOfLine(fd)
  /\ unread' = [unread EXCEPT ![slot[fd]] = @ - Taken(fd)]
  /\ Continue
  /\ UNCHANGED <<ready, slot, programs, peer, sent, complete>>

\* The line is complete: the program is started, or does not exist, or fork
\* fails; the connection is removed from this process in any case.
RecvLine(fd) ==
  /\ RecvSome(fd) /\ EndOfLine(fd)
  /\ RemoveFd(fd)
  /\ programs' \in {programs, programs + 1}

\* recv returns 0 or fails: the client is gone, or has sent more than fits.
RecvZero(fd) ==
  /\ serving = fd
  /\ \/ unread[slot[fd]] = 0 /\ peer[slot[fd]] = "closed"
     \/ unread[slot[fd]] > 0 /\ readIdx[fd] = Capacity
  /\ RemoveFd(fd)
  /\ UNCHANGED <<parentVars, signalVars, phase, batch, readIdx, stop>>

\* recv would block, and the loop repeats it at once.
RecvWouldBlock(fd) ==
  /\ serving = fd
  /\ ~HasInput(slot[fd])
  /\ UNCHANGED vars

-----------------------------------------------------------------------------
(* The parent, the other children, the programs and the clients.           *)

Connect(c) ==
  /\ peer[c] = "new"
  /\ peer' = [peer EXCEPT ![c] = "open"]
  /\ backlog' = Append(backlog, c)
  /\ arrived' = TRUE
  /\ UNCHANGED <<loopVars, userVars, signalVars, ready, notices, parent, unread, sent, complete>>

\* The parent sends a notice for the connections that arrived.
Notify ==
  /\ parent /\ arrived
  /\ arrived' = FALSE
  /\ notices' = notices + 1
  /\ ready' = ready \cup {"pipe"}
  /\ UNCHANGED <<loopVars, userVars, signalVars, clientVars, backlog, parent>>

\* A child that had a notice before accepts the connection.
SiblingAccepts ==
  /\ backlog # <<>> /\ backlog' = Tail(backlog)
  /\ Forget(Head(backlog))
  /\ UNCHANGED <<loopVars, userVars, signalVars, ready, arrived, notices, parent>>

ParentEnds ==
  /\ parent /\ parent' = FALSE
  /\ ready' = ready \cup {"pipe"}
  /\ UNCHANGED <<loopVars, userVars, signalVars, clientVars, backlog, arrived, notices>>

\* sig_handler.
Signal(sig) ==
  /\ pipe' = pipe \cup {sig}
  /\ ready' = ready \cup {"signals"}
  /\ UNCHANGED <<loopVars, userVars, parentVars, clientVars>>

\* SIGTERM to the child, or to a program before execl has taken the handlers of
\* its child from it: either comes out of the pipe of the child.
Terminate == Signal("TERM") /\ UNCHANGED <<programs, zombies>>

ProgramEnds ==
  /\ programs > 0
  /\ programs' = programs - 1 /\ zombies' = zombies + 1
  /\ Signal("CHLD")

Arrival(c) == ready' = ready \cup {fd \in Fds : slot[fd] = c}

ClientSend(c) ==
  /\ peer[c] = "open"
  /\ c \notin complete /\ sent[c] < MaxSend
  /\ complete' \in {complete, complete \cup {c}}
  /\ sent' = [sent EXCEPT ![c] = @ + 1] /\ unread' = [unread EXCEPT ![c] = @ + 1]
  /\ Arrival(c)
  /\ UNCHANGED <<loopVars, userVars, parentVars, signalVars, peer>>

\* A close, or a reset, which discards what was not read.
ClientClose(c) ==
  /\ peer[c] = "open"
  /\ peer' = [peer EXCEPT ![c] = "closed"]
  /\ \/ UNCHANGED <<unread, sent, complete>>
     \/ /\ unread' = [unread EXCEPT ![c] = 0]
        /\ sent' = [sent EXCEPT ![c] = @ - unread[c]]
        /\ complete' = complete \ {c}
  /\ Arrival(c)
  /\ UNCHANGED <<loopVars, userVars, parentVars, signalVars>>

-----------------------------------------------------------------------------

ChildStep ==
  \/ EpollWait
  \/ Accept \/ AcceptFails \/ ParentIsGone
  \/ ReadSignals
  \/ \E fd \in Fds : Process(fd) \/ RecvPart(fd) \/ RecvLine(fd) \/ RecvZero(fd)
  \/ LoopEnd

Environment ==
  \/ Notify \/ SiblingAccepts \/ ParentEnds
  \/ Terminate \/ ProgramEnds
  \/ \E c \in Conns : Connect(c) \/ ClientSend(c) \/ ClientClose(c)

Next ==
  \/ ChildStep
  \/ \E fd \in Fds : RecvWouldBlock(fd)
  \/ phase # "stopped" /\ Environment

Spec == Init /\ [][Next]_vars

\* The child runs whenever it can.  Nothing is assumed of its clients.
FairSpec == Spec /\ WF_vars(ChildStep)

-----------------------------------------------------------------------------
(* Properties.                                                             *)

\* No event is stale: every descriptor of a batch, and the one process() is
\* called for, is open and has an initialised user, whatever the events before
\* it closed and opened.
NoStaleEvent == \A fd \in (batch \cup {serving}) \cap Fds : slot[fd] # NoConn

\* A user whose descriptor is reused starts afresh: the bytes in its buffer are
\* from its present client, none of them lost.
BufferIsOwn ==
  \A fd \in Fds : slot[fd] # NoConn => readIdx[fd] + unread[slot[fd]] = sent[slot[fd]]

\* Programs that ended are waited for even if their signals arrive as one: there
\* is a SIGCHLD that is still to be read, and epoll will report it.
ZombiesAnnounced ==
  phase # "stopped" =>
    /\ zombies > 0 => "CHLD" \in pipe
    /\ pipe # {} => "signals" \in ready \cup batch

\* The child repeats recv for a client that has not ended its line, did not close
\* and is not heard of again.  Only such a client can hold the child.
Spins == \E fd \in Fds : serving = fd /\ ~HasInput(slot[fd])
SpinsForEver == <>[]Spins

\* Client c sends until its line ends or the buffer overflows, or closes.
Prompt(c) == WF_vars(phase # "stopped" /\ ClientSend(c))

\* An accepted client that sends its request is done with, whatever the others do,
\* unless one of them holds the child for ever.
EveryClientServed ==
  \A c \in Conns :
    Prompt(c) => \/ SpinsForEver
                 \/ (\E fd \in Fds : slot[fd] = c)
                      ~> (phase = "stopped" \/ \A fd \in Fds : slot[fd] # c)

\* SIGTERM ends the child, unless a client holds it for ever: process() spins on
\* EAGAIN and the signal pipe is not read meanwhile.  No other state of the child,
\* its pipe, its programs or its siblings keeps it from stopping.
TermStops == SpinsForEver \/ (("TERM" \in pipe) ~> (phase = "stopped"))

=============================================================================
