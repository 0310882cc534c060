--------------------------- MODULE EpollLoopsProofs ---------------------------
(***************************************************************************)
(* That the two loops that serve sockets lose no input, for every number   *)
(* of clients and descriptors and every size of a buffer.  The loops keep  *)
(* it for different reasons, which the inductive invariant holds apart: a  *)
(* level-triggered descriptor with input stays in ready whatever the loop  *)
(* does (LevelInv), an edge-triggered one leaves batch only to be read to  *)
(* the end.  The other loops have no sockets (SocketInv).                  *)
(***************************************************************************)
EXTENDS EpollLoops, SequenceTheorems, TLAPS

\* What a client has sent and was not read is part of what was sent in all.
UnreadInv == \A c \in Senders : unread[c] <= sent

\* Only a loop that watches sockets accepts, and only where a connection waits.
SocketInv ==
  /\ loop.watches # "sockets" => backlog = <<>> /\ \A fd \in Fds : slot[fd] = NoConn
  /\ "listen" \in batch => backlog # <<>>

\* A level-triggered descriptor is reported as long as it has input.
LevelInv ==
  ~Does("edge") => \A fd \in Fds : slot[fd] # NoConn /\ HasInput(slot[fd]) => fd \in ready

LoopsInv ==
  /\ TypeOK /\ UnreadInv
  /\ SocketInv
  /\ LevelInv /\ InputIsAnnounced

-----------------------------------------------------------------------------
(* What the steps share.                                                   *)

\* Two loops watch sockets, the others standard input or output.
LEMMA WhatLoopsWatch ==
  ASSUME NEW l \in Loops
  PROVE  /\ l.watches \in {"sockets", "stdin", "stdout"}
         /\ l.watches = "sockets" => l \in {lt, et}
  <1>1. /\ pure_ET.watches = "stdin" /\ pure_LT.watches = "stdin"
        /\ readout_LT.watches = "stdin" /\ Reset_ET.watches = "stdin"
    BY DEF Loop, pure_ET, pure_LT, readout_LT, Reset_ET
  <1>2. /\ Write_ET_loop.watches = "stdout" /\ Write_ET_hang.watches = "stdout"
        /\ Write_LT_loop.watches = "stdout" /\ Write_ET_RELoad.watches = "stdout"
    BY DEF Loop, Write_ET_loop, Write_ET_hang, Write_LT_loop, Write_ET_RELoad
  <1>3. lt.watches = "sockets" /\ et.watches = "sockets"
    BY DEF Loop, lt, et
  <1>4. QED
    BY <1>1, <1>2, <1>3 DEF Loops

\* The one that is edge-triggered reads them to the end.
LEMMA EdgeReadsAll ==
  ASSUME loop \in Loops, loop.watches = "sockets", Does("edge")
  PROVE  Does("read all")
  <1>1. loop = lt \/ loop = et
    BY WhatLoopsWatch
  <1>2. lt.does = {} /\ et.does = {"edge", "read all"}
    BY DEF Loop, lt, et
  <1>3. QED
    BY <1>1, <1>2 DEF Does

\* What is read is no longer unread.
LEMMA LessUnread ==
  ASSUME LoopsInv, NEW c \in Senders, NEW n \in Nat, n <= unread[c],
         unread' = [unread EXCEPT ![c] = n], sent' = sent
  PROVE  /\ unread' \in [Senders -> 0 .. MaxSend]
         /\ \A d \in Senders : unread'[d] > 0 => unread[d] > 0
         /\ UnreadInv'
  <1> USE LoopsAssumption
  <1>1. unread \in [Senders -> 0 .. MaxSend] /\ sent \in 0 .. MaxSend
    BY DEF LoopsInv, TypeOK
  <1>2. ASSUME NEW d \in Senders
        PROVE  unread'[d] \in 0 .. MaxSend /\ unread'[d] <= unread[d]
    <2>1. unread[d] \in 0 .. MaxSend
      BY <1>1
    <2>2. CASE d = c
      BY <1>1, <2>1, <2>2
    <2>3. CASE d # c
      BY <1>1, <2>1, <2>3
    <2>4. QED
      BY <2>2, <2>3
  <1>3. unread' \in [Senders -> 0 .. MaxSend]
    BY <1>1, <1>2
  <1>4. \A d \in Senders : unread[d] \in 0 .. MaxSend /\ unread[d] <= sent
    BY <1>1 DEF LoopsInv, UnreadInv
  <1>5. UnreadInv'
    BY <1>1, <1>2, <1>4 DEF UnreadInv
  <1>6. QED
    BY <1>2, <1>3, <1>4, <1>5

\* Input comes only to descriptors that become ready by it; a descriptor leaves
\* ready, or stops being read, when it has none.
LEMMA SocketsKept ==
  ASSUME LoopsInv, UNCHANGED <<loop, batch, serving>>, ready \subseteq ready',
         \A fd \in Fds :
           (slot'[fd] # NoConn /\ (unread'[slot'[fd]] > 0 \/ peer'[slot'[fd]] \in {"closed", "reset"}))
             => (slot[fd] # NoConn /\ HasInput(slot[fd])) \/ fd \in ready'
  PROVE  LevelInv' /\ InputIsAnnounced'
  <1>1. LevelInv'
    BY DEF LoopsInv, LevelInv, HasInput, Does
  <1>2. InputIsAnnounced'
    BY DEF LoopsInv, InputIsAnnounced, HasInput
  <1>3. QED
    BY <1>1, <1>2

\* The descriptor that is read is open only in a loop that watches sockets.
LEMMA ServingFacts ==
  ASSUME LoopsInv, NEW fd \in Fds, slot[fd] # NoConn
  PROVE  /\ slot[fd] \in Senders
         /\ loop \in Loops /\ loop.watches = "sockets"
         /\ Does("edge") => Does("read all")
  BY EdgeReadsAll DEF LoopsInv, TypeOK, SocketInv, Inputs

-----------------------------------------------------------------------------
(* epoll_wait and accept.                                                  *)

\* Every loop starts with nothing to serve.
LEMMA InitLoopsInv == Init => LoopsInv
  <1> SUFFICES ASSUME Init
               PROVE  LoopsInv
    OBVIOUS
  <1> USE LoopsAssumption DEF Init
  <1>1. TypeOK
    <2>1. /\ [c \in Senders |-> 0] \in [Senders -> 0 .. MaxSend]
          /\ 0 \in 0 .. StdioSize - 1 /\ 0 \in 0 .. MaxSend
      OBVIOUS
    <2>2. /\ slot \in [Inputs -> Senders \cup {NoConn}]
          /\ peer \in [Senders -> {"new", "open", "closed", "reset", "gone"}]
      BY DEF Senders
    <2>3. /\ loop \in Loops /\ serving \in Fds \cup {NoFd}
          /\ batch \cup ready \subseteq Inputs \cup {"listen", "stdout"}
          /\ backlog \in Seq(Conns) /\ shown \in BOOLEAN
      OBVIOUS
    <2>4. /\ unread \in [Senders -> 0 .. MaxSend] /\ sent \in 0 .. MaxSend
          /\ stdio \in 0 .. StdioSize - 1
      BY <2>1
    <2>5. QED
      BY <2>2, <2>3, <2>4 DEF TypeOK
  <1>2. UnreadInv
    BY DEF UnreadInv
  <1>3. \A fd \in Fds : slot[fd] = NoConn \/ fd = loop.watches
    BY DEF Inputs
  <1>4. loop.watches \notin Fds
    BY WhatLoopsWatch
  <1>5. SocketInv /\ LevelInv /\ InputIsAnnounced
    BY <1>3, <1>4 DEF SocketInv, LevelInv, InputIsAnnounced
  <1>6. QED
    BY <1>1, <1>2, <1>5 DEF LoopsInv

\* epoll_wait takes what has input from ready to batch, and leaves it there too if
\* it is level-triggered.
LEMMA EpollWaitLoopsInv ==
  ASSUME LoopsInv, EpollWait
  PROVE  LoopsInv'
  <1> USE LoopsAssumption
  <1>1. /\ batch = {} /\ serving = NoFd
        /\ batch' = {s \in ready : Ready(s)}
        /\ ready' = {s \in batch' : ~EdgeTriggered(s)}
        /\ UNCHANGED <<backlog, slot, stdio, shown, peer, unread, sent, loop, serving>>
    BY DEF EpollWait, socketVars, outputVars, clientVars
  <1>2. TypeOK' /\ UnreadInv'
    BY <1>1 DEF LoopsInv, TypeOK, UnreadInv
  <1>3. SocketInv'
    BY <1>1 DEF LoopsInv, SocketInv, Ready, Inputs
  <1>4. ASSUME NEW fd \in Fds, slot[fd] # NoConn, HasInput(slot[fd])
        PROVE  fd \in batch' /\ (~Does("edge") => fd \in ready')
    <2>1. fd \in ready /\ fd # "listen" /\ fd \in Inputs
      BY <1>1, <1>4 DEF LoopsInv, InputIsAnnounced, Inputs
    <2>2. QED
      BY <1>1, <1>4, <2>1 DEF Ready, EdgeTriggered
  <1>5. LevelInv' /\ InputIsAnnounced'
    BY <1>1, <1>4 DEF LevelInv, InputIsAnnounced, HasInput, Does
  <1>6. QED
    BY <1>2, <1>3, <1>5 DEF LoopsInv

\* accept: the new descriptor is ready if its client was faster.
LEMMA AcceptLoopsInv ==
  ASSUME LoopsInv, Accept
  PROVE  LoopsInv'
  <1> USE LoopsAssumption
  <1> DEFINE c == Head(backlog)
  <1>1. /\ serving = NoFd /\ "listen" \in batch /\ batch' = batch \ {"listen"}
        /\ backlog' = Tail(backlog)
        /\ UNCHANGED <<stdio, shown, peer, unread, sent, loop, serving>>
    BY DEF Accept, Handling, outputVars, clientVars
  <1>2. PICK fd \in Fds :
          /\ slot[fd] = NoConn
          /\ slot' = [slot EXCEPT ![fd] = c]
          /\ ready' = ready \cup {f \in {fd} : HasInput(c)}
    BY DEF Accept
  <1>3. backlog # <<>> /\ loop.watches = "sockets"
    BY <1>1 DEF LoopsInv, SocketInv
  <1>4. c \in Conns /\ backlog' \in Seq(Conns)
    BY <1>1, <1>3, HeadTailProperties DEF LoopsInv, TypeOK
  <1> HIDE DEF c
  <1>5. TypeOK'
    <2>1. fd \in Inputs /\ c \in Senders
      BY <1>4 DEF Inputs, Senders
    <2>2. slot' \in [Inputs -> Senders \cup {NoConn}]
      BY <1>2, <2>1 DEF LoopsInv, TypeOK
    <2>3. batch' \cup ready' \subseteq Inputs \cup {"listen", "stdout"}
      BY <1>1, <1>2, <2>1 DEF LoopsInv, TypeOK
    <2>4. QED
      BY <1>1, <1>4, <2>2, <2>3 DEF LoopsInv, TypeOK
  <1>6. UnreadInv'
    BY <1>1 DEF LoopsInv, UnreadInv
  <1>7. SocketInv'
    BY <1>1, <1>3 DEF LoopsInv, SocketInv
  <1>8. ASSUME NEW gd \in Fds, slot'[gd] # NoConn,
               unread'[slot'[gd]] > 0 \/ peer'[slot'[gd]] \in {"closed", "reset"}
        PROVE  /\ gd \in ready' \cup batch' \cup {serving'}
               /\ ~Does("edge") => gd \in ready'
    <2>1. CASE gd = fd
      <3>1. slot'[fd] = c
        BY <1>2 DEF LoopsInv, TypeOK, Inputs
      <3>2. HasInput(c)
        BY <1>1, <1>8, <2>1, <3>1 DEF HasInput
      <3>3. QED
        BY <1>2, <2>1, <3>2
    <2>2. CASE gd # fd
      <3>1. slot'[gd] = slot[gd]
        BY <1>2, <2>2 DEF LoopsInv, TypeOK, Inputs
      <3>2. HasInput(slot[gd])
        BY <1>1, <1>8, <3>1 DEF HasInput
      <3>3. gd \in ready \cup batch \cup {serving} /\ (~Does("edge") => gd \in ready)
        BY <1>8, <3>1, <3>2 DEF LoopsInv, InputIsAnnounced, LevelInv
      <3>4. QED
        BY <1>1, <1>2, <3>3
    <2>3. QED
      BY <2>1, <2>2
  <1>9. LevelInv' /\ InputIsAnnounced'
    BY <1>1, <1>8 DEF LevelInv, InputIsAnnounced, HasInput, Does
  <1>10. QED
    BY <1>5, <1>6, <1>7, <1>9 DEF LoopsInv

\* A failed accept only drops the event.
LEMMA AcceptFailsLoopsInv ==
  ASSUME LoopsInv, AcceptFails
  PROVE  LoopsInv'
  <1> USE LoopsAssumption
  <1>1. /\ batch' = batch \ {"listen"}
        /\ UNCHANGED <<backlog, slot, stdio, shown, peer, unread, sent, loop, serving, ready>>
    BY DEF AcceptFails, Handling, socketVars, outputVars, clientVars
  <1>2. TypeOK' /\ UnreadInv' /\ SocketInv'
    BY <1>1 DEF LoopsInv, TypeOK, UnreadInv, SocketInv
  <1>3. LevelInv' /\ InputIsAnnounced'
    BY <1>1 DEF LoopsInv, LevelInv, InputIsAnnounced, HasInput, Does
  <1>4. QED
    BY <1>2, <1>3 DEF LoopsInv

-----------------------------------------------------------------------------
(* The event of a client.                                                  *)

\* The event of a client is taken: its descriptor is served, no longer in the batch.
LEMMA ReceiveLoopsInv ==
  ASSUME LoopsInv, NEW fd \in Fds, Receive(fd)
  PROVE  LoopsInv'
  <1> USE LoopsAssumption
  <1>1. /\ serving = NoFd /\ serving' = fd /\ batch' = batch \ {fd}
        /\ UNCHANGED <<backlog, slot, stdio, shown, peer, unread, sent, loop, ready>>
    BY DEF Receive, Handling, socketVars, outputVars, clientVars
  <1>2. TypeOK' /\ UnreadInv' /\ SocketInv'
    BY <1>1 DEF LoopsInv, TypeOK, UnreadInv, SocketInv
  <1>3. LevelInv' /\ InputIsAnnounced'
    BY <1>1 DEF LoopsInv, LevelInv, InputIsAnnounced, HasInput, Does
  <1>4. QED
    BY <1>2, <1>3 DEF LoopsInv

\* recv returns data: et goes on, and to lt epoll reports what is left.
LEMMA RecvDataLoopsInv ==
  ASSUME LoopsInv, NEW fd \in Fds, RecvData(fd)
  PROVE  LoopsInv'
  <1> USE LoopsAssumption
  <1> DEFINE c == slot[fd]
  <1>1. /\ serving = fd /\ c # NoConn /\ unread[c] > 0
        /\ unread' = [unread EXCEPT ![c] = IF @ > BufferSize THEN @ - BufferSize ELSE 0]
        /\ serving' = IF Does("read all") THEN serving ELSE NoFd
        /\ UNCHANGED <<backlog, slot, stdio, shown, loop, batch, ready, peer, sent>>
    BY DEF RecvData, GoOn, socketVars, outputVars
  <1>2. c \in Senders /\ (Does("edge") => Does("read all"))
    BY <1>1, ServingFacts
  <1> HIDE DEF c
  <1>3. /\ unread' \in [Senders -> 0 .. MaxSend]
        /\ \A d \in Senders : unread'[d] > 0 => unread[d] > 0
        /\ UnreadInv'
    <2> DEFINE n == IF unread[c] > BufferSize THEN unread[c] - BufferSize ELSE 0
    <2>1. unread[c] \in 0 .. MaxSend
      BY <1>2 DEF LoopsInv, TypeOK
    <2>2. n \in Nat /\ n <= unread[c]
      BY <2>1
    <2>3. unread' = [unread EXCEPT ![c] = n]
      BY <1>1
    <2> HIDE DEF n
    <2>4. QED
      BY <1>1, <1>2, <2>2, <2>3, LessUnread
  <1>4. TypeOK' /\ SocketInv'
    BY <1>1, <1>3 DEF LoopsInv, TypeOK, SocketInv
  <1>6. ASSUME NEW gd \in Fds, slot[gd] # NoConn,
               unread'[slot[gd]] > 0 \/ peer[slot[gd]] \in {"closed", "reset"}
        PROVE  /\ gd \in ready \cup batch \cup {serving'}
               /\ ~Does("edge") => gd \in ready
    <2>1. slot[gd] \in Senders
      BY <1>6, ServingFacts
    <2>2. HasInput(slot[gd])
      BY <1>3, <1>6, <2>1 DEF HasInput
    <2>3. gd \in ready \cup batch \cup {serving} /\ (~Does("edge") => gd \in ready)
      BY <1>6, <2>2 DEF LoopsInv, InputIsAnnounced, LevelInv
    <2>4. QED
      BY <1>1, <1>2, <2>3
  <1>7. LevelInv' /\ InputIsAnnounced'
    BY <1>1, <1>6 DEF LevelInv, InputIsAnnounced, HasInput, Does
  <1>8. QED
    BY <1>3, <1>4, <1>7 DEF LoopsInv

\* The descriptor that is no longer read has no input.
LEMMA StopsReading ==
  ASSUME LoopsInv, NEW fd \in Fds, serving = fd, serving' = NoFd,
         slot[fd] = NoConn \/ ~HasInput(slot[fd]),
         UNCHANGED <<socketVars, outputVars, clientVars, loop, batch, ready>>
  PROVE  LoopsInv'
  <1> USE LoopsAssumption DEF socketVars, outputVars, clientVars
  <1>1. TypeOK' /\ UnreadInv' /\ SocketInv'
    BY DEF LoopsInv, TypeOK, UnreadInv, SocketInv
  <1>2. LevelInv' /\ InputIsAnnounced'
    BY DEF LoopsInv, LevelInv, InputIsAnnounced, HasInput, Does
  <1>3. QED
    BY <1>1, <1>2 DEF LoopsInv

\* A descriptor is closed while it is read, whether the loop goes on or not.
LEMMA CloseLoopsInv ==
  ASSUME LoopsInv, NEW fd \in Fds, serving = fd, serving' \in {fd, NoFd},
         slot[fd] # NoConn, Close(fd),
         UNCHANGED <<outputVars, loop, batch, backlog, unread, sent>>
  PROVE  LoopsInv'
  <1> USE LoopsAssumption DEF outputVars
  <1> DEFINE c == slot[fd]
  <1>1. /\ slot' = [slot EXCEPT ![fd] = NoConn]
        /\ peer' = [peer EXCEPT ![c] = "gone"]
        /\ ready' = ready \ {fd}
        /\ fd \in Inputs
    BY DEF Close, Inputs
  <1>2. c \in Senders
    BY ServingFacts
  <1> HIDE DEF c
  <1>3. /\ slot' \in [Inputs -> Senders \cup {NoConn}] /\ slot'[fd] = NoConn
        /\ \A gd \in Fds : gd # fd => slot'[gd] = slot[gd]
    BY <1>1 DEF LoopsInv, TypeOK, Inputs
  <1>4. /\ peer' \in [Senders -> {"new", "open", "closed", "reset", "gone"}]
        /\ \A d \in Senders : peer'[d] \in {"closed", "reset"} => peer[d] \in {"closed", "reset"}
    BY <1>1, <1>2 DEF LoopsInv, TypeOK
  <1>5. TypeOK'
    BY <1>1, <1>3, <1>4 DEF LoopsInv, TypeOK
  <1>6. UnreadInv' /\ SocketInv'
    BY <1>3 DEF LoopsInv, UnreadInv, SocketInv
  <1>7. ASSUME NEW gd \in Fds, slot'[gd] # NoConn,
               unread'[slot'[gd]] > 0 \/ peer'[slot'[gd]] \in {"closed", "reset"}
        PROVE  /\ gd \in ready' \cup batch
               /\ ~Does("edge") => gd \in ready'
    <2>1. gd # fd /\ slot'[gd] = slot[gd] /\ slot[gd] # NoConn
      BY <1>3, <1>7
    <2>2. slot[gd] \in Senders
      BY <2>1, ServingFacts
    <2>3. HasInput(slot[gd])
      BY <1>4, <1>7, <2>1, <2>2 DEF HasInput
    <2>4. gd \in ready \cup batch \cup {serving} /\ (~Does("edge") => gd \in ready)
      BY <2>1, <2>3 DEF LoopsInv, InputIsAnnounced, LevelInv
    <2>5. QED
      BY <1>1, <2>1, <2>4
  <1>8. LevelInv' /\ InputIsAnnounced'
    BY <1>7 DEF LevelInv, InputIsAnnounced, HasInput, Does
  <1>9. QED
    BY <1>5, <1>6, <1>8 DEF LoopsInv

-----------------------------------------------------------------------------
(* Standard input and output.                                              *)

\* A loop reacts to the input typed, reads it or registers again.
LEMMA StdinEventLoopsInv ==
  ASSUME LoopsInv, StdinEvent
  PROVE  LoopsInv'
  <1> USE LoopsAssumption
  <1>1. /\ batch' = batch \ {"stdin"}
        /\ unread' = [unread EXCEPT !["stdin"] = IF Does("read all") THEN 0 ELSE @]
        /\ ready' = ready \cup {t \in {"stdin"} : Does("register")}
        /\ UNCHANGED <<backlog, slot, stdio, shown, loop, serving, peer, sent>>
    BY DEF StdinEvent, Handling, Register, socketVars, outputVars
  <1>2. /\ unread' \in [Senders -> 0 .. MaxSend]
        /\ \A d \in Senders : unread'[d] > 0 => unread[d] > 0
        /\ UnreadInv'
    <2> DEFINE n == IF Does("read all") THEN 0 ELSE unread["stdin"]
    <2>1. "stdin" \in Senders
      BY DEF Senders
    <2>2. n \in Nat /\ n <= unread["stdin"]
      <3>1. unread["stdin"] \in 0 .. MaxSend
        BY <2>1 DEF LoopsInv, TypeOK
      <3>2. n = 0 \/ n = unread["stdin"]
        OBVIOUS
      <3> HIDE DEF n
      <3>3. QED
        BY <3>1, <3>2
    <2>3. unread' = [unread EXCEPT !["stdin"] = n]
      BY <1>1
    <2> HIDE DEF n
    <2>4. QED
      BY <1>1, <2>1, <2>2, <2>3, LessUnread
  <1>3. TypeOK' /\ SocketInv'
    BY <1>1, <1>2 DEF LoopsInv, TypeOK, SocketInv, Inputs
  <1>5. ASSUME NEW gd \in Fds, slot[gd] # NoConn,
               unread'[slot[gd]] > 0 \/ peer[slot[gd]] \in {"closed", "reset"}
        PROVE  /\ gd \in ready' \cup batch' \cup {serving}
               /\ ~Does("edge") => gd \in ready'
    <2>1. slot[gd] \in Senders
      BY <1>5, ServingFacts
    <2>2. HasInput(slot[gd])
      BY <1>2, <1>5, <2>1 DEF HasInput
    <2>3. gd \in ready \cup batch \cup {serving} /\ (~Does("edge") => gd \in ready)
      BY <1>5, <2>2 DEF LoopsInv, InputIsAnnounced, LevelInv
    <2>4. QED
      BY <1>1, <2>3
  <1>6. LevelInv' /\ InputIsAnnounced'
    BY <1>1, <1>5 DEF LevelInv, InputIsAnnounced, HasInput, Does
  <1>7. QED
    BY <1>2, <1>3, <1>6 DEF LoopsInv

\* A loop reacts to the room in the terminal.
LEMMA StdoutEventLoopsInv ==
  ASSUME LoopsInv, StdoutEvent
  PROVE  LoopsInv'
  <1> USE LoopsAssumption
  <1>1. /\ batch' = batch \ {"stdout"}
        /\ ready' = ready \cup {t \in {"stdout"} : Does("register")}
        /\ UNCHANGED <<backlog, slot, peer, unread, sent, loop, serving>>
    BY DEF StdoutEvent, Handling, Register, socketVars, clientVars
  <1>2. stdio' \in 0 .. StdioSize - 1 /\ shown' \in BOOLEAN
    <2>1. stdio \in 0 .. StdioSize - 1 /\ shown \in BOOLEAN
      BY DEF LoopsInv, TypeOK
    <2>2. \/ stdio' = 0 /\ shown' = FALSE
          \/ stdio + 1 < StdioSize /\ stdio' = stdio + 1 /\ shown' = shown
      BY DEF StdoutEvent
    <2>3. stdio' \in 0 .. StdioSize - 1
      BY <2>1, <2>2
    <2>4. QED
      BY <2>1, <2>2, <2>3
  <1>3. TypeOK' /\ UnreadInv' /\ SocketInv'
    BY <1>1, <1>2 DEF LoopsInv, TypeOK, UnreadInv, SocketInv
  <1>4. LevelInv' /\ InputIsAnnounced'
    BY <1>1 DEF LoopsInv, LevelInv, InputIsAnnounced, HasInput, Does
  <1>5. QED
    BY <1>3, <1>4 DEF LoopsInv

\* The terminal shows a line and has room again.
LEMMA ShowsLoopsInv ==
  ASSUME LoopsInv, Shows
  PROVE  LoopsInv'
  <1>1. /\ shown' = TRUE /\ ready' = ready \cup {"stdout"}
        /\ UNCHANGED <<loop, batch, serving, backlog, slot, peer, unread, sent, stdio>>
    BY DEF Shows, loopVars, socketVars, clientVars
  <1>2. TypeOK' /\ UnreadInv' /\ SocketInv'
    BY <1>1 DEF LoopsInv, TypeOK, UnreadInv, SocketInv
  <1>3. LevelInv' /\ InputIsAnnounced'
    BY <1>1, SocketsKept DEF HasInput
  <1>4. QED
    BY <1>2, <1>3 DEF LoopsInv

-----------------------------------------------------------------------------
(* The clients and the user.                                               *)

\* A connection is completed and the listening socket becomes ready.
LEMMA ConnectLoopsInv ==
  ASSUME LoopsInv, NEW c \in Conns, Connect(c)
  PROVE  LoopsInv'
  <1>1. /\ loop.watches = "sockets"
        /\ peer' = [peer EXCEPT ![c] = "open"]
        /\ backlog' = Append(backlog, c)
        /\ ready' = ready \cup {"listen"}
        /\ UNCHANGED <<loop, batch, serving, stdio, shown, slot, unread, sent>>
    BY DEF Connect, loopVars, outputVars
  <1>2. backlog' \in Seq(Conns) /\ backlog' # <<>>
    BY <1>1, AppendProperties DEF LoopsInv, TypeOK
  <1>3. /\ peer' \in [Senders -> {"new", "open", "closed", "reset", "gone"}]
        /\ \A d \in Senders : peer'[d] \in {"closed", "reset"} => peer[d] \in {"closed", "reset"}
    BY <1>1 DEF LoopsInv, TypeOK, Senders
  <1>4. TypeOK' /\ UnreadInv'
    BY <1>1, <1>2, <1>3 DEF LoopsInv, TypeOK, UnreadInv
  <1>5. SocketInv'
    BY <1>1, <1>2 DEF SocketInv
  <1>6. ASSUME NEW fd \in Fds, slot'[fd] # NoConn,
               unread'[slot'[fd]] > 0 \/ peer'[slot'[fd]] \in {"closed", "reset"}
        PROVE  slot[fd] # NoConn /\ HasInput(slot[fd])
    <2>1. slot[fd] # NoConn /\ slot'[fd] = slot[fd]
      BY <1>1, <1>6
    <2>2. slot[fd] \in Senders
      BY <2>1, ServingFacts
    <2>3. QED
      BY <1>1, <1>3, <1>6, <2>1, <2>2 DEF HasInput
  <1>7. LevelInv' /\ InputIsAnnounced'
    BY <1>1, <1>6, SocketsKept
  <1>8. QED
    BY <1>4, <1>5, <1>7 DEF LoopsInv

\* What a client does makes its descriptor ready.
LEMMA ArrivalKeeps ==
  ASSUME LoopsInv, NEW c \in Senders, Arrival(c), UNCHANGED <<loopVars, socketVars>>,
         \A d \in Senders : d # c => unread'[d] = unread[d] /\ peer'[d] = peer[d]
  PROVE  SocketInv' /\ LevelInv' /\ InputIsAnnounced'
  <1> USE DEF loopVars, socketVars
  <1>1. ready' = ready \cup {s \in Inputs : slot[s] = c}
    BY DEF Arrival
  <1>2. ASSUME NEW fd \in Fds, slot'[fd] # NoConn,
               unread'[slot'[fd]] > 0 \/ peer'[slot'[fd]] \in {"closed", "reset"}
        PROVE  (slot[fd] # NoConn /\ HasInput(slot[fd])) \/ fd \in ready'
    <2>1. slot[fd] # NoConn /\ slot'[fd] = slot[fd] /\ slot[fd] \in Senders
      BY <1>2, ServingFacts
    <2>2. CASE slot[fd] = c
      BY <1>1, <2>2 DEF Inputs
    <2>3. CASE slot[fd] # c
      BY <1>2, <2>1, <2>3 DEF HasInput
    <2>4. QED
      BY <2>2, <2>3
  <1>3. LevelInv' /\ InputIsAnnounced'
    BY <1>1, <1>2, SocketsKept
  <1>4. SocketInv'
    BY DEF LoopsInv, SocketInv
  <1>5. QED
    BY <1>3, <1>4

\* Input arrives, and its descriptor becomes ready with it.
LEMMA SendLoopsInv ==
  ASSUME LoopsInv, NEW c \in Senders, Send(c)
  PROVE  LoopsInv'
  <1> USE LoopsAssumption
  <1>1. /\ sent < MaxSend /\ sent' = sent + 1
        /\ unread' = [unread EXCEPT ![c] = @ + 1]
        /\ Arrival(c)
        /\ UNCHANGED <<loopVars, socketVars, outputVars, peer>>
    BY DEF Send
  <1>2. \A d \in Senders : unread'[d] <= sent' /\ unread'[d] \in 0 .. MaxSend
    BY <1>1 DEF LoopsInv, TypeOK, UnreadInv
  <1>3. unread' \in [Senders -> 0 .. MaxSend] /\ sent' \in 0 .. MaxSend
    BY <1>1, <1>2 DEF LoopsInv, TypeOK
  <1>4. ready' \subseteq Inputs \cup {"listen", "stdout"}
    BY <1>1 DEF LoopsInv, TypeOK, Arrival
  <1>5. TypeOK'
    BY <1>1, <1>3, <1>4 DEF LoopsInv, TypeOK, loopVars, socketVars, outputVars
  <1>6. UnreadInv'
    BY <1>2 DEF UnreadInv
  <1>7. \A d \in Senders : d # c => unread'[d] = unread[d] /\ peer'[d] = peer[d]
    BY <1>1 DEF LoopsInv, TypeOK
  <1>8. SocketInv' /\ LevelInv' /\ InputIsAnnounced'
    BY <1>1, <1>7, ArrivalKeeps
  <1>9. QED
    BY <1>5, <1>6, <1>8 DEF LoopsInv

\* A client is gone, which its descriptor announces too.
LEMMA DisconnectLoopsInv ==
  ASSUME LoopsInv, NEW c \in Conns, Disconnect(c)
  PROVE  LoopsInv'
  <1> USE LoopsAssumption
  <1>1. /\ peer' \in {[peer EXCEPT ![c] = "closed"], [peer EXCEPT ![c] = "reset"]}
        /\ unread' \in {unread, [unread EXCEPT ![c] = 0]}
        /\ Arrival(c)
        /\ UNCHANGED <<loopVars, socketVars, outputVars, sent>>
    BY DEF Disconnect
  <1>2. c \in Senders
    BY DEF Senders
  <1>3. /\ unread' \in [Senders -> 0 .. MaxSend]
        /\ \A d \in Senders : unread'[d] <= sent /\ (d # c => unread'[d] = unread[d])
    BY <1>1, <1>2 DEF LoopsInv, TypeOK, UnreadInv
  <1>4. /\ peer' \in [Senders -> {"new", "open", "closed", "reset", "gone"}]
        /\ \A d \in Senders : d # c => peer'[d] = peer[d]
    BY <1>1, <1>2 DEF LoopsInv, TypeOK
  <1>5. ready' \subseteq Inputs \cup {"listen", "stdout"}
    BY <1>1 DEF LoopsInv, TypeOK, Arrival
  <1>6. TypeOK'
    BY <1>1, <1>3, <1>4, <1>5 DEF LoopsInv, TypeOK, loopVars, socketVars, outputVars
  <1>7. UnreadInv'
    BY <1>1, <1>3 DEF UnreadInv
  <1>8. SocketInv' /\ LevelInv' /\ InputIsAnnounced'
    BY <1>1, <1>2, <1>3, <1>4, ArrivalKeeps
  <1>9. QED
    BY <1>6, <1>7, <1>8 DEF LoopsInv

-----------------------------------------------------------------------------
(* The theorems.                                                           *)

\* The invariant is inductive.
LEMMA NextLoopsInv == LoopsInv /\ [Next]_vars => LoopsInv'
  <1> SUFFICES ASSUME LoopsInv, [Next]_vars
               PROVE  LoopsInv'
    OBVIOUS
  <1>1. CASE EpollWait
    BY <1>1, EpollWaitLoopsInv
  <1>2. CASE Accept \/ AcceptFails
    BY <1>2, AcceptLoopsInv, AcceptFailsLoopsInv
  <1>3. ASSUME NEW fd \in Fds,
               \/ Receive(fd)
               \/ RecvData(fd) \/ RecvWouldBlock(fd) \/ RecvEnd(fd) \/ RecvReset(fd) \/ RecvOnClosed(fd)
        PROVE  LoopsInv'
    <2>1. CASE Receive(fd)
      BY <2>1, ReceiveLoopsInv
    <2>2. CASE RecvData(fd)
      BY <2>2, RecvDataLoopsInv
    <2>3. CASE RecvWouldBlock(fd)
      BY <2>3, StopsReading DEF RecvWouldBlock
    <2>4. CASE RecvEnd(fd)
      BY <2>4, CloseLoopsInv DEF RecvEnd, GoOn
    <2>5. CASE RecvReset(fd)
      BY <2>5, CloseLoopsInv DEF RecvReset
    <2>6. CASE RecvOnClosed(fd)
      BY <2>6, StopsReading DEF RecvOnClosed, Break
    <2>7. QED
      BY <1>3, <2>1, <2>2, <2>3, <2>4, <2>5, <2>6
  <1>4. CASE StdinEvent \/ StdoutEvent
    BY <1>4, StdinEventLoopsInv, StdoutEventLoopsInv
  <1>5. CASE Shows
    BY <1>5, ShowsLoopsInv
  <1>6. ASSUME NEW c \in Conns, Connect(c) \/ Disconnect(c)
        PROVE  LoopsInv'
    BY <1>6, ConnectLoopsInv, DisconnectLoopsInv
  <1>7. ASSUME NEW c \in Senders, Send(c)
        PROVE  LoopsInv'
    BY <1>7, SendLoopsInv
  <1>8. CASE UNCHANGED vars
    <2> USE <1>8 DEF LoopsInv, vars, loopVars, socketVars, outputVars, clientVars
    <2>1. TypeOK' /\ UnreadInv' /\ SocketInv'
      BY DEF TypeOK, UnreadInv, SocketInv
    <2>2. LevelInv' /\ InputIsAnnounced'
      BY DEF LevelInv, InputIsAnnounced, HasInput, Does
    <2>3. QED
      BY <2>1, <2>2
  <1>9. QED
    BY <1>1, <1>2, <1>3, <1>4, <1>5, <1>6, <1>7, <1>8 DEF Next, LoopStep

\* The inductive invariant.
LEMMA LoopsInvariant == Spec => []LoopsInv
  BY InitLoopsInv, NextLoopsInv, PTL DEF Spec

\* Every variable has its type.
THEOREM TypeTheorem == Spec => []TypeOK
  <1>1. LoopsInv => TypeOK
    BY DEF LoopsInv
  <1>2. QED
    BY <1>1, LoopsInvariant, PTL

\* No input is left behind: a descriptor with input is being read, or is in the
\* batch, or will be reported.
THEOREM InputTheorem == Spec => []InputIsAnnounced
  <1>1. LoopsInv => InputIsAnnounced
    BY DEF LoopsInv
  <1>2. QED
    BY <1>1, LoopsInvariant, PTL

=============================================================================
