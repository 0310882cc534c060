----------------------------- MODULE TimerServer -----------------------------
(***************************************************************************)
(* test_timer_server of cpt_11_2_2.h: a single-threaded loop on            *)
(* edge-triggered epoll that accepts clients, reads from them, and closes  *)
(* the ones that were silent for three time slots, on the timer list of    *)
(* cpt_11_2_1.h.  SIGALRM and SIGTERM arrive through a socket pair.        *)
(*                                                                         *)
(* The event sources are the listening socket, the socket pair and the     *)
(* descriptors of the clients.  epoll keeps a source in ready from the     *)
(* moment something arrives there until the next epoll_wait, which reports *)
(* it if there is still something to read.  What was not read then is not  *)
(* reported again.                                                         *)
(*                                                                         *)
(* Times are kept relative to the present, in units of which TIMESLOT has  *)
(* Slot; an expiry that has passed is 0.  All sockets are blocking.        *)
(***************************************************************************)
EXTENDS Naturals, Sequences, FiniteSets

CONSTANTS
  Conns,       \* the clients, numbered in the order in which they connect
  Fds,         \* the descriptors accept may return
  NoConn,      \* a descriptor that is not open
  Slot,        \* TIMESLOT
  BufferSize,  \* the units one recv takes
  MaxUnread    \* bound: the units of all clients that no recv has returned yet

ASSUME TimerServerAssumption ==
  /\ Fds \cap {"listen", "signals"} = {}
  /\ Conns \subseteq Nat /\ NoConn \notin Conns
  /\ Slot \in Nat \ {0} /\ BufferSize \in Nat \ {0} /\ MaxUnread \in Nat

VARIABLES
  phase,    \* in epoll_wait, handling its events, or out of the loop
  batch,    \* the reported sources that are still to handle
  ready,    \* the sources epoll has to report
  backlog,  \* the connections that accept has not returned
  slot,     \* the client of each descriptor, users[fd]
  timers,   \* timer_list: the descriptors in the order of their timers
  left,     \* _expire of each timer
  alarm,    \* the time to SIGALRM, 0 if alarm() is not set
  pipe,     \* the signals written to the socket pair
  timeout, stop,  \* timeout and stop_server
  peer, unread,  \* the clients: connections, input
  idle      \* history: the time since accept or recv returned for the client

listVars   == <<timers, left>>
loopVars   == <<phase, batch, timeout, stop>>
tableVars  == <<slot, timers, left>>
clientVars == <<peer, unread, idle>>
kernelVars == <<backlog, alarm, pipe>>
vars == <<loopVars, tableVars, clientVars, kernelVars, ready>>

Sources == {"listen", "signals"} \cup Fds
Limit == 3 * Slot

\* timer_list, whose operations SortedTimers describes.
List == INSTANCE SortedTimers WITH
          Timers <- Fds, Delays <- {Limit}, MaxTime <- 0,
          list <- timers, expire <- left, now <- 0, mode <- "idle", cur <- 0,
          stepped <- FALSE

TypeOK ==
  /\ phase \in {"waiting", "events", "stopped"}
  /\ batch \subseteq Sources /\ ready \subseteq Sources
  /\ backlog \in Seq(Conns)
  /\ slot \in [Fds -> Conns \cup {NoConn}]
  /\ timers \in Seq(Fds)
  /\ left \in [Fds -> 0 .. Limit]
  /\ alarm \in 0 .. Slot
  /\ pipe \subseteq {"ALRM", "TERM"}
  /\ timeout \in BOOLEAN /\ stop \in BOOLEAN
  /\ peer \in [Conns -> {"new", "open", "closed", "gone"}]
  /\ unread \in [Conns -> Nat]
  /\ idle \in [Conns -> 0 .. Limit]

\* The sockets are set up, the handlers installed and the first alarm is set.
Init ==
  /\ phase = "waiting"
  /\ batch = {} /\ ready = {}
  /\ backlog = <<>>
  /\ slot = [fd \in Fds |-> NoConn]
  /\ timers = <<>>
  /\ left = [fd \in Fds |-> 0]
  /\ alarm = Slot
  /\ pipe = {}
  /\ timeout = FALSE /\ stop = FALSE
  /\ peer = [c \in Conns |-> "new"]
  /\ unread = [c \in Conns |-> 0]
  /\ idle = [c \in Conns |-> 0]

-----------------------------------------------------------------------------

HasInput(c) == unread[c] > 0 \/ peer[c] = "closed"

\* What makes epoll report s, and a blocking call on s return.
Readable(s) ==
  \/ s = "listen" /\ backlog # <<>>
  \/ s = "signals" /\ pipe # {}
  \/ s \in Fds /\ slot[s] # NoConn /\ HasInput(slot[s])

EpollWait ==
  /\ phase = "waiting"
  /\ batch' = {s \in ready : Readable(s)}
  /\ batch' # {}
  /\ ready' = {}
  /\ phase' = "events"
  /\ UNCHANGED <<tableVars, clientVars, kernelVars, timeout, stop>>

\* Mutant: accept is called until it fails, which a blocking one does not.
NextUnlessListening(s) == batch' = IF s = "listen" THEN batch ELSE batch \ {s}

\* On to the next event.
NextEvent(s) == batch' = batch \ {s}

Handling(s) ==
  /\ phase = "events" /\ s \in batch
  /\ NextEvent(s)
  /\ UNCHANGED phase

\* One accept for the event, however many connections are waiting; the new
\* descriptor is watched and gets a timer.
Accept ==
  /\ Handling("listen")
  /\ LET c == Head(backlog) IN
       \E fd \in {f \in Fds : slot[f] = NoConn} :
         /\ slot' = [slot EXCEPT ![fd] = c]
         /\ ready' = IF HasInput(c) THEN ready \cup {fd} ELSE ready
         /\ timers' = List!Insert(timers, fd, Limit)
         /\ left' = [left EXCEPT ![fd] = Limit]
         /\ idle' = [idle EXCEPT ![c] = 0]
  /\ backlog' = Tail(backlog)
  /\ UNCHANGED <<peer, unread, alarm, pipe, timeout, stop>>

\* Mutant: the cases of the switch exclude each other.
StopsAlone == pipe = {"TERM"}

Stops == "TERM" \in pipe

\* One recv takes all the signals.
ReadSignals ==
  /\ Handling("signals")
  /\ timeout' = (timeout \/ "ALRM" \in pipe)
  /\ stop' = (stop \/ Stops)
  /\ pipe' = {}
  /\ UNCHANGED <<tableVars, clientVars, ready, backlog, alarm>>

\* Mutants: adjust_timer or del_timer is forgotten.
LeaveTimer(fd) == UNCHANGED <<timers, left>>

\* Mutant: the timer of which the expiry was set is not moved.
StartAnew(fd) == left' = [left EXCEPT ![fd] = Limit] /\ UNCHANGED timers

AdjustTimer(fd) ==
  /\ left' = [left EXCEPT ![fd] = Limit]
  /\ timers' = List!Adjusted(timers, fd, Limit)

DelTimer(fd) ==
  /\ left' = [left EXCEPT ![fd] = 0]
  /\ timers' = List!Without(timers, fd)

\* One recv for the event, however much there is to read; the timer starts anew.
Receive(fd) ==
  /\ Handling(fd) /\ slot[fd] # NoConn
  /\ LET c == slot[fd] IN
       /\ unread[c] > 0
       /\ unread' = [unread EXCEPT ![c] = IF @ < BufferSize THEN 0 ELSE @ - BufferSize]
       /\ idle' = [idle EXCEPT ![c] = 0]
  /\ AdjustTimer(fd)
  /\ UNCHANGED <<kernelVars, slot, ready, timeout, stop, peer>>

\* cb_func for the descriptors of closed: what their clients sent is gone.  It is
\* close() that ends their registration; the epollfd of cb_func is another.
Close(closed) ==
  LET gone == {slot[fd] : fd \in closed}
      zeroed(f) == [c \in Conns |-> IF c \in gone THEN 0 ELSE f[c]]
  IN  /\ slot' = [fd \in Fds |-> IF fd \in closed THEN NoConn ELSE slot[fd]]
      /\ ready' = ready \ closed
      /\ peer' = [c \in Conns |-> IF c \in gone THEN "gone" ELSE peer[c]]
      /\ unread' = zeroed(unread) /\ idle' = zeroed(idle)

\* recv finds the end of the connection or its reset: cb_func and del_timer.
ReceiveEnd(fd) ==
  /\ Handling(fd) /\ slot[fd] # NoConn
  /\ unread[slot[fd]] = 0 /\ peer[slot[fd]] = "closed"
  /\ Close({fd})
  /\ DelTimer(fd)
  /\ UNCHANGED <<kernelVars, timeout, stop>>

\* The timers tick() reaches before the first that is not due.
DueCount == CHOOSE n \in 0 .. Len(timers) :
              /\ \A i \in 1 .. n : left[timers[i]] = 0
              /\ n < Len(timers) => left[timers[n + 1]] > 0

Due == {timers[i] : i \in 1 .. DueCount}

\* Mutant: the alarm is not set again.
NoAlarm == UNCHANGED alarm

NextAlarm == alarm' = Slot

\* timer_handler: tick(), whose callbacks are cb_func, and the next alarm.
TimerHandler ==
  /\ Close(Due)
  /\ timers' = SubSeq(timers, DueCount + 1, Len(timers))
  /\ NextAlarm
  /\ timeout' = FALSE

\* The end of the events, and the test of stop_server.
LoopEnd ==
  /\ phase = "events" /\ batch = {}
  /\ IF timeout THEN TimerHandler
                ELSE UNCHANGED <<peer, unread, idle, slot, timers, ready, alarm, timeout>>
  /\ phase' = IF stop THEN "stopped" ELSE "waiting"
  /\ UNCHANGED <<batch, left, backlog, pipe, stop>>

-----------------------------------------------------------------------------
(* The clients, the signals and the clock.                                 *)

Arrival(c) == ready' = ready \cup {fd \in Fds : slot[fd] = c}

\* Bound: never more clients at a time than descriptors.
Connect(c) ==
  /\ peer[c] = "new"
  /\ \A d \in Conns : d < c => peer[d] # "new"
  /\ Len(backlog) + Cardinality({fd \in Fds : slot[fd] # NoConn}) < Cardinality(Fds)
  /\ peer' = [peer EXCEPT ![c] = "open"]
  /\ backlog' = Append(backlog, c)
  /\ ready' = ready \cup {"listen"}
  /\ UNCHANGED <<loopVars, tableVars, alarm, pipe, unread, idle>>

\* The units that wait to be read, one by one.
Unread == {u \in Conns \X (1 .. MaxUnread) : u[2] <= unread[u[1]]}

\* A client may send for ever.
ClientSend(c) ==
  /\ peer[c] = "open" /\ Cardinality(Unread) < MaxUnread
  /\ unread' = [unread EXCEPT ![c] = @ + 1]
  /\ Arrival(c)
  /\ UNCHANGED <<loopVars, tableVars, kernelVars, peer, idle>>

\* A close, or a reset, which discards what was not read.
ClientClose(c) ==
  /\ peer[c] = "open"
  /\ peer' = [peer EXCEPT ![c] = "closed"]
  /\ unread' \in {unread, [unread EXCEPT ![c] = 0]}
  /\ Arrival(c)
  /\ UNCHANGED <<loopVars, tableVars, kernelVars, idle>>

\* sig_handler.
Signal(sig) == pipe' = pipe \cup {sig} /\ ready' = ready \cup {"signals"}

\* Bound: SIGTERM comes once.
Terminate ==
  /\ ~stop /\ "TERM" \notin pipe
  /\ Signal("TERM")
  /\ UNCHANGED <<loopVars, tableVars, clientVars, backlog, alarm>>

\* A unit of time; the alarm may go off.
Wait ==
  /\ left' = [fd \in Fds |-> IF left[fd] = 0 THEN 0 ELSE left[fd] - 1]
  /\ idle' = [c \in Conns |-> IF c \in {slot[fd] : fd \in Fds} /\ idle[c] < Limit
                                THEN idle[c] + 1 ELSE idle[c]]
  /\ alarm' = IF alarm = 0 THEN 0 ELSE alarm - 1
  /\ IF alarm = 1 THEN Signal("ALRM") ELSE UNCHANGED <<pipe, ready>>
  /\ UNCHANGED <<loopVars, slot, timers, peer, unread, backlog>>

-----------------------------------------------------------------------------

ServerStep ==
  \/ EpollWait
  \/ Accept
  \/ ReadSignals
  \/ \E fd \in Fds : Receive(fd) \/ ReceiveEnd(fd)
  \/ LoopEnd

Environment ==
  \/ \E c \in Conns : Connect(c) \/ ClientSend(c) \/ ClientClose(c)
  \/ Terminate
  \/ Wait

Next == ServerStep \/ (phase # "stopped" /\ Environment)

Spec == Init /\ [][Next]_vars

\* The loop runs, and time passes.
FairSpec == Spec /\ WF_vars(ServerStep) /\ WF_vars(phase # "stopped" /\ Wait)

-----------------------------------------------------------------------------
(* Properties.                                                             *)

\* accept and recv are called on blocking sockets, but only where they return:
\* every reported source stays open and readable until its event is handled,
\* although events before it in the batch close and open descriptors.
NeverBlocks == \A s \in batch : Readable(s)

\* users[fd]._timer: each open descriptor has one timer in the list, and no
\* timer is left whose descriptor is closed.
OneTimerPerClient ==
  /\ {timers[i] : i \in 1 .. Len(timers)} = {fd \in Fds : slot[fd] # NoConn}
  /\ \A i, j \in 1 .. Len(timers) : i # j => timers[i] # timers[j]

\* The chain of alarms never breaks and never doubles: there is one alarm that is
\* set, or one SIGALRM on its way through the socket pair, or timeout.
TickScheduled ==
  phase # "stopped" =>
    Cardinality({x \in {"set", "sent", "seen"} :
                   \/ x = "set" /\ alarm > 0
                   \/ x = "sent" /\ "ALRM" \in pipe
                   \/ x = "seen" /\ timeout}) = 1

\* tick() closes the clients that were silent for three slots and no others,
\* although it stops at the first timer that is not due and adjust_timer moves
\* timers about.
TickClosesIdle ==
  [][timeout /\ ~timeout' =>
       \A fd \in Fds :
         slot[fd] # NoConn => (slot'[fd] = NoConn <=> idle[slot[fd]] = Limit)]_vars

\* An accepted client that falls silent, without closing its connection, is closed,
\* however much the other clients send.  One that goes on sending keeps its timer
\* running and stays.
EveryClientClosed ==
  \A c \in Conns :
    <>[][~ClientSend(c)]_vars =>
      ((\E fd \in Fds : slot[fd] = c)
         ~> (phase = "stopped" \/ \A fd \in Fds : slot[fd] # c))

\* SIGTERM ends the loop.
TermStops == ("TERM" \in pipe) ~> (phase = "stopped")

=============================================================================
