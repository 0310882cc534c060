------------------------------ MODULE EpollLoops ------------------------------
(***************************************************************************)
(* The loops around epoll_wait of io_epoll.h and demo.h: two that serve    *)
(* sockets, four that watch standard input, and four that watch standard   *)
(* output.  Each shows when epoll reports a source again: always while it  *)
(* is ready, if it is level-triggered, or only after something arrived     *)
(* there or it was registered anew, if it is edge-triggered.               *)
(*                                                                         *)
(* epoll keeps a source in ready from an arrival on until epoll_wait       *)
(* reports it, and longer if it is level-triggered.  What the user types   *)
(* is the input of a client that is always connected.                      *)
(***************************************************************************)
EXTENDS Naturals, Sequences, FiniteSets

CONSTANTS
  Conns,       \* the clients; each connects once
  Fds,         \* the descriptors accept may return
  NoConn,      \* a descriptor that is not open
  NoFd,        \* no descriptor is being read
  BufferSize,  \* the units one recv takes
  StdioSize,   \* the units printf keeps before it writes them out
  MaxSend      \* bound: the units the clients send or the user types

ASSUME LoopsAssumption ==
  /\ (Fds \cup Conns) \cap {"listen", "sockets", "stdin", "stdout"} = {} /\ NoFd \notin Fds
  /\ NoConn \notin Conns \cup {"stdin"}
  /\ {BufferSize, StdioSize} \subseteq Nat \ {0} /\ MaxSend \in Nat

-----------------------------------------------------------------------------
(* The loops, by what they watch and by what they do with an event.        *)

Loop(watched, does) == [watches |-> watched, does |-> does]

lt == Loop("sockets", {})
et == Loop("sockets", {"edge", "read all"})

pure_ET    == Loop("stdin", {"edge"})
pure_LT    == Loop("stdin", {})
readout_LT == Loop("stdin", {"read all"})
Reset_ET   == Loop("stdin", {"edge", "register"})

Write_ET_loop   == Loop("stdout", {"edge", "newline"})
Write_ET_hang   == Loop("stdout", {"edge"})
Write_LT_loop   == Loop("stdout", {})
Write_ET_RELoad == Loop("stdout", {"edge", "register"})

Loops ==
  {lt, et} \cup {pure_ET, pure_LT, readout_LT, Reset_ET}
           \cup {Write_ET_loop, Write_ET_hang, Write_LT_loop, Write_ET_RELoad}

VARIABLES
  loop,     \* the loop that runs
  batch,    \* the reported sources that are still to handle
  serving,  \* the descriptor that lt or et reads from
  ready,    \* the sources epoll has to report
  backlog,  \* the connections that accept has not returned
  slot,     \* the client of each descriptor
  stdio,    \* the units in the buffer of stdout
  shown,    \* whether the terminal has shown what was written to it
  peer, unread, sent   \* the clients: connections, input, units sent so far

loopVars   == <<loop, batch, serving>>
socketVars == <<backlog, slot>>
outputVars == <<stdio, shown>>
clientVars == <<peer, unread, sent>>
vars == <<loopVars, socketVars, outputVars, clientVars, ready>>

Inputs  == Fds \cup {"stdin"}
Senders == Conns \cup {"stdin"}

TypeOK ==
  /\ loop \in Loops
  /\ batch \cup ready \subseteq Inputs \cup {"listen", "stdout"}
  /\ serving \in Fds \cup {NoFd}
  /\ backlog \in Seq(Conns)
  /\ slot \in [Inputs -> Senders \cup {NoConn}]
  /\ stdio \in 0 .. StdioSize - 1 /\ shown \in BOOLEAN
  /\ peer \in [Senders -> {"new", "open", "closed", "reset", "gone"}]
  /\ unread \in [Senders -> 0 .. MaxSend] /\ sent \in 0 .. MaxSend

\* The source is registered; there is room in the terminal at once.
Init ==
  /\ loop \in Loops
  /\ batch = {} /\ serving = NoFd
  /\ ready = {"stdout"} \cap {loop.watches}
  /\ backlog = <<>>
  /\ slot = [s \in Inputs |-> IF s = loop.watches THEN "stdin" ELSE NoConn]
  /\ stdio = 0 /\ shown = TRUE
  /\ peer = [c \in Senders |-> IF c = loop.watches THEN "open" ELSE "new"]
  /\ unread = [c \in Senders |-> 0] /\ sent = 0

Does(action) == action \in loop.does

-----------------------------------------------------------------------------
(* epoll_wait and accept.                                                  *)

HasInput(c) == unread[c] > 0 \/ peer[c] \in {"closed", "reset"}

Ready(s) ==
  \/ s = "listen" /\ backlog # <<>>
  \/ s = "stdout"
  \/ s \in Inputs /\ slot[s] # NoConn /\ HasInput(slot[s])

\* The listening socket is edge-triggered in either mode.
EdgeTriggered(s) == s = "listen" \/ Does("edge")

EpollWait ==
  /\ batch = {} /\ serving = NoFd
  /\ batch' = {s \in ready : Ready(s)}
  /\ batch' # {}
  /\ ready' = {s \in batch' : ~EdgeTriggered(s)}
  /\ UNCHANGED <<socketVars, outputVars, clientVars, loop, serving>>

Handling(s) == serving = NoFd /\ s \in batch /\ batch' = batch \ {s}

\* One connection is accepted and its descriptor registered.
Accept ==
  /\ Handling("listen")
  /\ \E fd \in Fds :
       /\ slot[fd] = NoConn
       /\ slot' = [slot EXCEPT ![fd] = Head(backlog)]
       /\ ready' = ready \cup {f \in {fd} : HasInput(Head(backlog))}
  /\ backlog' = Tail(backlog)
  /\ UNCHANGED <<outputVars, clientVars, loop, serving>>

\* No descriptor is left: accept returns -1, which addfd cannot register.
AcceptFails ==
  /\ Handling("listen")
  /\ \A fd \in Fds : slot[fd] # NoConn
  /\ UNCHANGED <<socketVars, outputVars, clientVars, loop, serving, ready>>

-----------------------------------------------------------------------------
(* The event of a client: lt calls recv once, et until it fails.           *)

Receive(fd) ==
  /\ Handling(fd)
  /\ serving' = fd
  /\ UNCHANGED <<socketVars, outputVars, clientVars, loop, ready>>

\* Mutant: et is content with one recv.
Once == serving' = NoFd

GoOn == serving' = IF Does("read all") THEN serving ELSE NoFd

RecvData(fd) ==
  /\ serving = fd
  /\ slot[fd] # NoConn /\ unread[slot[fd]] > 0
  /\ unread' = [unread EXCEPT ![slot[fd]] = IF @ > BufferSize THEN @ - BufferSize ELSE 0]
  /\ GoOn
  /\ UNCHANGED <<socketVars, outputVars, loop, batch, ready, peer, sent>>

\* "read later"; lt does not call recv when there is nothing to read.
RecvWouldBlock(fd) ==
  /\ serving = fd
  /\ slot[fd] # NoConn /\ ~HasInput(slot[fd])
  /\ serving' = NoFd
  /\ UNCHANGED <<socketVars, outputVars, clientVars, loop, batch, ready>>

Close(fd) ==
  /\ slot' = [slot EXCEPT ![fd] = NoConn]
  /\ peer' = [peer EXCEPT ![slot[fd]] = "gone"]
  /\ ready' = ready \ {fd}

\* recv returns 0: both close the descriptor, and et goes on with its loop.
RecvEnd(fd) ==
  /\ serving = fd
  /\ slot[fd] # NoConn /\ unread[slot[fd]] = 0 /\ peer[slot[fd]] = "closed"
  /\ Close(fd)
  /\ GoOn
  /\ UNCHANGED <<outputVars, loop, batch, backlog, unread, sent>>

\* recv fails because the client has reset the connection.
RecvReset(fd) ==
  /\ serving = fd
  /\ slot[fd] # NoConn /\ peer[slot[fd]] = "reset"
  /\ Close(fd)
  /\ serving' = NoFd
  /\ UNCHANGED <<outputVars, loop, batch, backlog, unread, sent>>

\* Mutant: the loop goes on whatever the reason recv fails for.
BreakNot == UNCHANGED serving

Break == serving' = NoFd

\* et calls recv and close on the descriptor it has closed; both fail.
RecvOnClosed(fd) ==
  /\ serving = fd
  /\ slot[fd] = NoConn
  /\ Break
  /\ UNCHANGED <<socketVars, outputVars, clientVars, loop, batch, ready>>

-----------------------------------------------------------------------------
(* The event of standard input or output.                                  *)

\* Mutant: EPOLL_CTL_MOD is forgotten.
RegisterNothing(s) == UNCHANGED ready

\* EPOLL_CTL_MOD makes epoll look at the source again.
Register(s) == ready' = ready \cup {t \in {s} : Does("register")}

StdinEvent ==
  /\ Handling("stdin")
  /\ unread' = [unread EXCEPT !["stdin"] = IF Does("read all") THEN 0 ELSE @]
  /\ Register("stdin")
  /\ UNCHANGED <<socketVars, outputVars, loop, serving, peer, sent>>

\* printf writes the buffer out at the end of a line and when it is full.
StdoutEvent ==
  /\ Handling("stdout")
  /\ \/ /\ Does("newline") \/ stdio + 1 = StdioSize
        /\ stdio' = 0 /\ shown' = FALSE
     \/ /\ ~Does("newline") /\ stdio + 1 < StdioSize
        /\ stdio' = stdio + 1 /\ UNCHANGED shown
  /\ Register("stdout")
  /\ UNCHANGED <<socketVars, clientVars, loop, serving>>

\* The terminal shows what was written to it and has room again.
Shows ==
  /\ ~shown /\ shown' = TRUE
  /\ ready' = ready \cup {"stdout"}
  /\ UNCHANGED <<loopVars, socketVars, clientVars, stdio>>

-----------------------------------------------------------------------------
(* The clients and the user.                                               *)

Connect(c) ==
  /\ loop.watches = "sockets" /\ peer[c] = "new"
  /\ peer' = [peer EXCEPT ![c] = "open"]
  /\ backlog' = Append(backlog, c)
  /\ ready' = ready \cup {"listen"}
  /\ UNCHANGED <<loopVars, outputVars, slot, unread, sent>>

Arrival(c) == ready' = ready \cup {s \in Inputs : slot[s] = c}

Send(c) ==
  /\ peer[c] = "open" /\ sent < MaxSend
  /\ sent' = sent + 1
  /\ unread' = [unread EXCEPT ![c] = @ + 1]
  /\ Arrival(c)
  /\ UNCHANGED <<loopVars, socketVars, outputVars, peer>>

\* A reset discards what was not read.
Disconnect(c) ==
  /\ peer[c] = "open"
  /\ \/ peer' = [peer EXCEPT ![c] = "closed"] /\ UNCHANGED unread
     \/ peer' = [peer EXCEPT ![c] = "reset"] /\ unread' = [unread EXCEPT ![c] = 0]
  /\ Arrival(c)
  /\ UNCHANGED <<loopVars, socketVars, outputVars, sent>>

-----------------------------------------------------------------------------

LoopStep ==
  \/ EpollWait
  \/ Accept \/ AcceptFails
  \/ \E fd \in Fds :
       \/ Receive(fd)
       \/ RecvData(fd) \/ RecvWouldBlock(fd) \/ RecvEnd(fd) \/ RecvReset(fd) \/ RecvOnClosed(fd)
  \/ StdinEvent \/ StdoutEvent

Next ==
  \/ LoopStep
  \/ Shows
  \/ \E c \in Conns : Connect(c) \/ Disconnect(c)
  \/ \E c \in Senders : Send(c)

Spec == Init /\ [][Next]_vars

\* The loop runs whenever it can, and the terminal shows what it is given.
FairSpec == Spec /\ WF_vars(LoopStep) /\ WF_vars(Shows)

-----------------------------------------------------------------------------
(* Properties.                                                             *)

\* "to make sure that all data is read out of the buffer of the socket": as long as
\* a client has input or is gone, its descriptor is being read or epoll reports
\* it, level-triggered or not.
InputIsAnnounced ==
  \A fd \in Fds :
    slot[fd] # NoConn /\ HasInput(slot[fd]) => fd \in ready \cup batch \cup {serving}

\* The input of every accepted client is read and the clients that are gone are
\* closed; that et goes on with a descriptor it has closed does not keep it from
\* the others.  Nobody sends for ever (MaxSend): et reads on as long as there is input.
EveryClientServed ==
  \A fd \in Fds : (slot[fd] # NoConn /\ HasInput(slot[fd])) ~> (slot[fd] = NoConn \/ ~HasInput(slot[fd]))

\* What the comments of demo.h say: the loops that report for ever, from the start
\* or from the first input on, and those that fall silent once nothing more is
\* typed, the input still unread or the terminal still with room.
LoopsAsDescribed ==
  /\ loop \in {Write_ET_loop, Write_LT_loop, Write_ET_RELoad} ~> (batch # {})
  /\ (loop \in {pure_LT, Reset_ET} /\ sent > 0) ~> (batch # {})
  /\ loop \in {pure_ET, readout_LT, Write_ET_hang} => <>[](batch = {})

=============================================================================
