------------------------ MODULE ProcessPoolChildProofs ------------------------
(***************************************************************************)
(* What a child of the process pool guarantees for every number of clients *)
(* and descriptors and every size of the buffer.  No client is at two      *)
(* places (ConnInv) and the descriptor that is read has left the batch     *)
(* (PhaseInv), so that the end of one client leaves the events and the     *)
(* buffers of the others as they were; what a client sent before it was    *)
(* accepted is still unread (OutsideInv).                                  *)
(***************************************************************************)
EXTENDS ProcessPoolChild, SequenceTheorems, TLAPS

\* The descriptor that is read is not in the batch too, and both are empty while
\* the child waits.
PhaseInv ==
  /\ serving \in Fds => serving \notin batch
  /\ phase # "events" => batch = {} /\ serving = NoFd

\* A client is accepted once, or waits once to be accepted.
ConnInv ==
  /\ \A fd, gd \in Fds : slot[fd] # NoConn /\ slot[fd] = slot[gd] => fd = gd
  /\ \A fd \in Fds : slot[fd] # NoConn => peer[slot[fd]] # "new"
  /\ \A i \in 1 .. Len(backlog) :
       /\ peer[backlog[i]] # "new"
       /\ \A fd \in Fds : slot[fd] # backlog[i]
       /\ \A j \in 1 .. Len(backlog) : i < j => backlog[i] # backlog[j]

\* Nothing is read of a client that has no descriptor.
OutsideInv == \A c \in Conns : (\A fd \in Fds : slot[fd] # c) => unread[c] = sent[c]

ChildInv ==
  /\ TypeOK /\ PhaseInv /\ ConnInv
  /\ OutsideInv /\ BufferIsOwn
  /\ NoStaleEvent /\ ZombiesAnnounced

-----------------------------------------------------------------------------
(* What the steps share.                                                   *)

\* What the parts of the invariant say of an open descriptor.
LEMMA OpenFacts ==
  ASSUME ChildInv, NEW fd \in Fds, slot[fd] # NoConn
  PROVE  /\ slot[fd] \in Conns
         /\ \A gd \in Fds : gd # fd => slot[gd] # slot[fd]
         /\ \A i \in 1 .. Len(backlog) : backlog[i] # slot[fd]
  BY DEF ChildInv, TypeOK, ConnInv

\* The descriptor that is read is open.
LEMMA ServingIsOpen ==
  ASSUME ChildInv, NEW fd \in Fds, serving = fd
  PROVE  slot[fd] # NoConn /\ fd \notin batch /\ phase = "events"
  BY ChildAssumption DEF ChildInv, NoStaleEvent, PhaseInv

\* No client has more units unread than it has sent.
LEMMA UnreadSent ==
  ASSUME ChildInv, NEW c \in Conns
  PROVE  unread[c] \in 0 .. MaxSend /\ sent[c] \in 0 .. MaxSend /\ unread[c] <= sent[c]
  <1>1. unread[c] \in 0 .. MaxSend /\ sent[c] \in 0 .. MaxSend
    BY DEF ChildInv, TypeOK
  <1>2. CASE \A fd \in Fds : slot[fd] # c
    BY <1>1, <1>2 DEF ChildInv, OutsideInv
  <1>3. ASSUME NEW fd \in Fds, slot[fd] = c
        PROVE  unread[c] <= sent[c]
    <2>1. readIdx[fd] \in Nat /\ readIdx[fd] + unread[c] = sent[c]
      BY <1>3, ChildAssumption DEF ChildInv, TypeOK, BufferIsOwn
    <2>2. QED
      BY <1>1, <2>1
  <1>4. QED
    BY <1>1, <1>2, <1>3

\* The first connection of the backlog, and the rest.
LEMMA BacklogHead ==
  ASSUME ChildInv, backlog # <<>>
  PROVE  LET c == Head(backlog)
             b == Tail(backlog)
         IN  /\ c \in Conns /\ b \in Seq(Conns)
             /\ peer[c] # "new" /\ \A fd \in Fds : slot[fd] # c
             /\ \A i \in 1 .. Len(b) :
                  /\ b[i] \in Conns /\ b[i] # c /\ peer[b[i]] # "new"
                  /\ \A fd \in Fds : slot[fd] # b[i]
                  /\ \A j \in 1 .. Len(b) : i < j => b[i] # b[j]
  <1> DEFINE c == Head(backlog)
             b == Tail(backlog)
  <1>1. /\ c \in Conns /\ c = backlog[1] /\ 1 \in 1 .. Len(backlog)
        /\ b \in Seq(Conns) /\ Len(b) = Len(backlog) - 1
        /\ \A i \in 1 .. Len(b) : b[i] = backlog[i + 1] /\ i + 1 \in 1 .. Len(backlog)
    BY HeadTailProperties DEF ChildInv, TypeOK
  <1> HIDE DEF c, b
  <1>2. peer[c] # "new" /\ \A fd \in Fds : slot[fd] # c
    BY <1>1 DEF ChildInv, ConnInv
  <1>3. ASSUME NEW i \in 1 .. Len(b)
        PROVE  /\ b[i] \in Conns /\ b[i] # c /\ peer[b[i]] # "new"
               /\ \A fd \in Fds : slot[fd] # b[i]
               /\ \A j \in 1 .. Len(b) : i < j => b[i] # b[j]
    <2>1. /\ i + 1 \in 1 .. Len(backlog) /\ b[i] = backlog[i + 1] /\ 1 < i + 1
          /\ \A j \in 1 .. Len(b) : b[j] = backlog[j + 1] /\ j + 1 \in 1 .. Len(backlog)
      BY <1>1
    <2>2. b[i] \in Conns
      BY <1>1
    <2>3. backlog[1] # backlog[i + 1]
      BY <1>1, <2>1 DEF ChildInv, ConnInv
    <2>4. /\ peer[backlog[i + 1]] # "new"
          /\ \A fd \in Fds : slot[fd] # backlog[i + 1]
          /\ \A j \in 1 .. Len(backlog) : i + 1 < j => backlog[i + 1] # backlog[j]
      BY <2>1 DEF ChildInv, ConnInv
    <2>5. QED
      BY <1>1, <2>1, <2>2, <2>3, <2>4
  <1>4. QED
    BY <1>1, <1>2, <1>3 DEF c, b

\* Each part of the invariant speaks of some variables only.
LEMMA UsersKept ==
  ASSUME ChildInv, UNCHANGED <<slot, readIdx, unread, sent>>
  PROVE  OutsideInv' /\ BufferIsOwn'
  BY DEF ChildInv, OutsideInv, BufferIsOwn

\* Only slots, clients and the backlog matter to who owns which connection.
LEMMA ConnsKept ==
  ASSUME ChildInv, UNCHANGED <<slot, peer, backlog>>
  PROVE  ConnInv'
  BY DEF ChildInv, ConnInv

\* Only the phase, the batch and the slots matter to whose event is handled.
LEMMA EventsKept ==
  ASSUME ChildInv, UNCHANGED <<phase, serving, batch, slot>>
  PROVE  PhaseInv' /\ NoStaleEvent'
  BY DEF ChildInv, PhaseInv, NoStaleEvent

\* A step that keeps the event of the signal pipe keeps the zombies announced.
LEMMA SignalsKept ==
  ASSUME ChildInv, UNCHANGED <<phase, pipe, zombies>>,
         "signals" \in ready \cup batch => "signals" \in ready' \cup batch'
  PROVE  ZombiesAnnounced'
  BY DEF ChildInv, ZombiesAnnounced

\* The child starts without clients.
LEMMA InitChildInv == Init => ChildInv
  <1> SUFFICES ASSUME Init
               PROVE  ChildInv
    OBVIOUS
  <1> USE ChildAssumption DEF Init
  <1>1. TypeOK
    <2>1. /\ [c \in Conns |-> 0] \in [Conns -> 0 .. MaxSend]
          /\ 0 \in Nat
      OBVIOUS
    <2>2. /\ unread \in [Conns -> 0 .. MaxSend] /\ sent \in [Conns -> 0 .. MaxSend]
          /\ notices \in Nat /\ programs \in Nat /\ zombies \in Nat
      BY <2>1
    <2>3. /\ slot \in [Fds -> Conns \cup {NoConn}]
          /\ peer \in [Conns -> {"new", "open", "closed", "gone"}]
          /\ readIdx \in [Fds -> 0 .. Capacity]
          /\ backlog \in Seq(Conns) /\ complete \subseteq Conns
      OBVIOUS
    <2>4. /\ phase \in {"waiting", "events", "stopped"} /\ serving \in Fds \cup {NoFd}
          /\ batch \subseteq Sources /\ ready \subseteq Sources
          /\ stop \in BOOLEAN /\ arrived \in BOOLEAN /\ parent \in BOOLEAN
          /\ pipe \subseteq {"CHLD", "TERM"}
      OBVIOUS
    <2>5. QED
      BY <2>2, <2>3, <2>4 DEF TypeOK
  <1>2. PhaseInv /\ ConnInv
    BY DEF PhaseInv, ConnInv
  <1>3. OutsideInv /\ BufferIsOwn /\ NoStaleEvent /\ ZombiesAnnounced
    BY DEF OutsideInv, BufferIsOwn, NoStaleEvent, ZombiesAnnounced
  <1>4. QED
    BY <1>1, <1>2, <1>3 DEF ChildInv

-----------------------------------------------------------------------------
(* The loop of run_child.                                                  *)

\* epoll_wait reports only what is readable.
LEMMA EpollWaitChildInv ==
  ASSUME ChildInv, EpollWait
  PROVE  ChildInv'
  <1>1. /\ phase = "waiting" /\ phase' = "events"
        /\ batch' = {s \in ready : Readable(s)} /\ ready' = {}
        /\ UNCHANGED <<userVars, parentVars, signalVars, clientVars, serving, stop>>
    BY DEF EpollWait
  <1> USE DEF userVars, parentVars, signalVars, clientVars
  <1>2. batch = {} /\ serving = NoFd
    BY <1>1 DEF ChildInv, PhaseInv
  <1>3. TypeOK'
    BY <1>1 DEF ChildInv, TypeOK
  <1>4. PhaseInv'
    BY <1>1, <1>2, ChildAssumption DEF PhaseInv
  <1>5. NoStaleEvent'
    BY <1>1, <1>2, ChildAssumption DEF NoStaleEvent, Readable
  <1>6. ZombiesAnnounced'
    BY <1>1, <1>2 DEF ChildInv, ZombiesAnnounced, Readable
  <1>7. ConnInv' /\ OutsideInv' /\ BufferIsOwn'
    BY <1>1, ConnsKept, UsersKept
  <1>8. QED
    BY <1>3, <1>4, <1>5, <1>6, <1>7 DEF ChildInv

\* The new user begins with an empty buffer and all that its client has sent unread.
LEMMA AcceptChildInv ==
  ASSUME ChildInv, Accept
  PROVE  ChildInv'
  <1> USE ChildAssumption
  <1> DEFINE c == Head(backlog)
             b == Tail(backlog)
  <1>1. /\ phase = "events" /\ phase' = phase /\ serving = NoFd /\ serving' = serving
        /\ "pipe" \in batch /\ batch' = batch \ {"pipe"}
        /\ notices > 0 /\ notices' = notices - 1
        /\ backlog # <<>> /\ backlog' = b
        /\ UNCHANGED <<pipe, programs, zombies, peer, unread, sent, complete, stop, arrived, parent>>
    BY DEF Accept, ReadNotice, Handling, signalVars, clientVars
  <1>2. PICK fd \in Fds :
          /\ slot[fd] = NoConn
          /\ slot' = [slot EXCEPT ![fd] = c]
          /\ readIdx' = [readIdx EXCEPT ![fd] = 0]
          /\ ready' = IF HasInput(c) THEN ready \cup {fd} ELSE ready
    BY DEF Accept, InitUser
  <1>3. /\ c \in Conns /\ b \in Seq(Conns)
        /\ peer[c] # "new" /\ \A gd \in Fds : slot[gd] # c
        /\ \A i \in 1 .. Len(b) :
             /\ b[i] \in Conns /\ b[i] # c /\ peer[b[i]] # "new"
             /\ \A gd \in Fds : slot[gd] # b[i]
             /\ \A j \in 1 .. Len(b) : i < j => b[i] # b[j]
    BY <1>1, BacklogHead
  <1> HIDE DEF c, b
  <1>4. /\ slot \in [Fds -> Conns \cup {NoConn}] /\ slot' \in [Fds -> Conns \cup {NoConn}]
        /\ slot'[fd] = c /\ \A gd \in Fds : gd # fd => slot'[gd] = slot[gd]
    BY <1>2, <1>3 DEF ChildInv, TypeOK
  <1>5. /\ readIdx' \in [Fds -> 0 .. Capacity]
        /\ readIdx'[fd] = 0 /\ \A gd \in Fds : gd # fd => readIdx'[gd] = readIdx[gd]
    BY <1>2 DEF ChildInv, TypeOK
  <1>6. TypeOK'
    <2>1. batch' \subseteq Sources /\ ready' \subseteq Sources
      BY <1>1, <1>2 DEF ChildInv, TypeOK, Sources
    <2>2. notices' \in Nat
      BY <1>1 DEF ChildInv, TypeOK
    <2>3. QED
      BY <1>1, <1>3, <1>4, <1>5, <2>1, <2>2 DEF ChildInv, TypeOK
  <1>7. PhaseInv'
    BY <1>1 DEF PhaseInv
  <1>8. ConnInv'
    <2>1. \A gd, hd \in Fds : slot'[gd] # NoConn /\ slot'[gd] = slot'[hd] => gd = hd
      BY <1>3, <1>4 DEF ChildInv, ConnInv
    <2>2. \A gd \in Fds : slot'[gd] # NoConn => peer'[slot'[gd]] # "new"
      BY <1>1, <1>3, <1>4 DEF ChildInv, ConnInv
    <2>3. \A i \in 1 .. Len(b) :
            /\ peer'[b[i]] # "new"
            /\ \A gd \in Fds : slot'[gd] # b[i]
            /\ \A j \in 1 .. Len(b) : i < j => b[i] # b[j]
      BY <1>1, <1>3, <1>4
    <2>4. QED
      BY <1>1, <2>1, <2>2, <2>3 DEF ConnInv
  <1>9. OutsideInv'
    <2> SUFFICES ASSUME NEW d \in Conns, \A gd \in Fds : slot'[gd] # d
                 PROVE  unread[d] = sent[d]
      BY <1>1 DEF OutsideInv
    <2>1. \A gd \in Fds : slot[gd] # d
      BY <1>2, <1>4
    <2>2. QED
      BY <2>1 DEF ChildInv, OutsideInv
  <1>10. BufferIsOwn'
    <2> SUFFICES ASSUME NEW gd \in Fds, slot'[gd] # NoConn
                 PROVE  readIdx'[gd] + unread[slot'[gd]] = sent[slot'[gd]]
      BY <1>1 DEF BufferIsOwn
    <2>1. CASE gd = fd
      <3>1. unread[c] = sent[c] /\ unread[c] \in 0 .. MaxSend
        BY <1>3 DEF ChildInv, TypeOK, OutsideInv
      <3>2. QED
        BY <1>4, <1>5, <2>1, <3>1
    <2>2. CASE gd # fd
      BY <1>4, <1>5, <2>2 DEF ChildInv, BufferIsOwn
    <2>3. QED
      BY <2>1, <2>2
  <1>11. NoStaleEvent'
    BY <1>1, <1>3, <1>4 DEF ChildInv, NoStaleEvent
  <1>12. ZombiesAnnounced'
    BY <1>1, <1>2, SignalsKept
  <1>13. QED
    BY <1>6, <1>7, <1>8, <1>9, <1>10, <1>11, <1>12 DEF ChildInv

\* An event that leaves the users, the clients and the signals alone.
LEMMA EventChildInv ==
  ASSUME ChildInv, NEW s \in {"pipe", "signals"}, Handling(s), serving' = serving, slot' = slot
  PROVE  PhaseInv' /\ NoStaleEvent' /\ batch' \subseteq Sources
  BY ChildAssumption DEF ChildInv, TypeOK, Handling, PhaseInv, NoStaleEvent

\* A notice that leads to no client changes nothing but the batch.
LEMMA NoticeChildInv ==
  ASSUME ChildInv, AcceptFails \/ ParentIsGone
  PROVE  ChildInv'
  <1>1. /\ Handling("pipe") /\ phase' = phase /\ batch' = batch \ {"pipe"}
        /\ UNCHANGED <<userVars, signalVars, clientVars, ready, serving, stop, backlog, arrived, parent>>
    BY DEF AcceptFails, ParentIsGone, ReadNotice, Handling, parentVars
  <1>2. notices' \in Nat
    <2>1. notices \in Nat
      BY DEF ChildInv, TypeOK
    <2>2. CASE AcceptFails
      BY <2>1, <2>2 DEF AcceptFails, ReadNotice
    <2>3. CASE ParentIsGone
      BY <2>1, <2>3 DEF ParentIsGone, parentVars
    <2>4. QED
      BY <2>2, <2>3
  <1> USE DEF userVars, signalVars, clientVars
  <1>3. PhaseInv' /\ NoStaleEvent' /\ batch' \subseteq Sources
    BY <1>1, EventChildInv
  <1>4. TypeOK'
    BY <1>1, <1>2, <1>3 DEF ChildInv, TypeOK
  <1>5. ConnInv' /\ OutsideInv' /\ BufferIsOwn' /\ ZombiesAnnounced'
    BY <1>1, ConnsKept, UsersKept, SignalsKept
  <1>6. QED
    BY <1>3, <1>4, <1>5 DEF ChildInv

\* SIGCHLD is read and every program that ended waited for.
LEMMA ReadSignalsChildInv ==
  ASSUME ChildInv, ReadSignals
  PROVE  ChildInv'
  <1>1. /\ Handling("signals") /\ phase = "events" /\ phase' = phase /\ batch' = batch \ {"signals"}
        /\ zombies' = IF "CHLD" \in pipe THEN 0 ELSE zombies
        /\ stop' \in BOOLEAN
        /\ pipe' = {}
        /\ UNCHANGED <<userVars, parentVars, clientVars, ready, serving, programs>>
    BY DEF ReadSignals, Handling, WaitAll
  <1> USE DEF userVars, parentVars, clientVars
  <1>2. PhaseInv' /\ NoStaleEvent' /\ batch' \subseteq Sources
    BY <1>1, EventChildInv
  <1>3. zombies' \in Nat /\ zombies' = 0
    <2>1. zombies \in Nat
      BY DEF ChildInv, TypeOK
    <2>2. CASE "CHLD" \in pipe
      BY <1>1, <2>2
    <2>3. CASE "CHLD" \notin pipe
      <3>1. ~(zombies > 0)
        BY <1>1, <2>3 DEF ChildInv, ZombiesAnnounced
      <3>2. QED
        BY <1>1, <2>1, <2>3, <3>1
    <2>4. QED
      BY <2>2, <2>3
  <1>4. TypeOK'
    BY <1>1, <1>2, <1>3 DEF ChildInv, TypeOK
  <1>5. ZombiesAnnounced'
    BY <1>1, <1>3 DEF ZombiesAnnounced
  <1>6. ConnInv' /\ OutsideInv' /\ BufferIsOwn'
    BY <1>1, ConnsKept, UsersKept
  <1>7. QED
    BY <1>2, <1>4, <1>5, <1>6 DEF ChildInv

\* The batch is done and the loop tests its condition.
LEMMA LoopEndChildInv ==
  ASSUME ChildInv, LoopEnd
  PROVE  ChildInv'
  <1>1. /\ phase = "events" /\ phase' \in {"waiting", "stopped"} /\ batch = {} /\ serving = NoFd
        /\ UNCHANGED <<userVars, parentVars, signalVars, clientVars, ready, serving, batch, stop>>
    BY DEF LoopEnd
  <1> USE DEF userVars, parentVars, signalVars, clientVars
  <1>2. TypeOK'
    BY <1>1 DEF ChildInv, TypeOK
  <1>3. PhaseInv' /\ NoStaleEvent'
    BY <1>1, ChildAssumption DEF ChildInv, PhaseInv, NoStaleEvent
  <1>4. ZombiesAnnounced'
    BY <1>1 DEF ChildInv, ZombiesAnnounced
  <1>5. ConnInv' /\ OutsideInv' /\ BufferIsOwn'
    BY <1>1, ConnsKept, UsersKept
  <1>6. QED
    BY <1>2, <1>3, <1>4, <1>5 DEF ChildInv

-----------------------------------------------------------------------------
(* cgi_conn::process.                                                      *)

\* process() starts on the event of a client.
LEMMA ProcessChildInv ==
  ASSUME ChildInv, NEW fd \in Fds, Process(fd)
  PROVE  ChildInv'
  <1> USE ChildAssumption
  <1>1. /\ phase = "events" /\ phase' = phase /\ fd \in batch
        /\ batch' = batch \ {fd} /\ serving' = fd
        /\ UNCHANGED <<userVars, parentVars, signalVars, clientVars, ready, stop>>
    BY DEF Process, Handling
  <1> USE DEF userVars, parentVars, signalVars, clientVars
  <1>2. TypeOK'
    BY <1>1 DEF ChildInv, TypeOK
  <1>3. PhaseInv' /\ NoStaleEvent'
    BY <1>1 DEF ChildInv, PhaseInv, NoStaleEvent
  <1>4. ConnInv' /\ OutsideInv' /\ BufferIsOwn' /\ ZombiesAnnounced'
    BY <1>1, ConnsKept, UsersKept, SignalsKept
  <1>5. QED
    BY <1>2, <1>3, <1>4 DEF ChildInv

\* The buffer takes what recv returns, and no more than fits.
LEMMA TakenFacts ==
  ASSUME ChildInv, NEW fd \in Fds, slot[fd] # NoConn
  PROVE  /\ Taken(fd) \in Nat /\ Taken(fd) <= unread[slot[fd]]
         /\ readIdx[fd] + Taken(fd) \in 0 .. Capacity
  <1>1. unread[slot[fd]] \in 0 .. MaxSend
    BY OpenFacts, UnreadSent
  <1>2. readIdx[fd] \in 0 .. Capacity
    BY DEF ChildInv, TypeOK
  <1>3. QED
    BY <1>1, <1>2, ChildAssumption DEF Taken

\* recv returns a part of the line.
LEMMA RecvPartChildInv ==
  ASSUME ChildInv, NEW fd \in Fds, RecvPart(fd)
  PROVE  ChildInv'
  <1> USE ChildAssumption
  <1> DEFINE n == Taken(fd)
             c == slot[fd]
  <1>1. /\ serving = fd /\ serving' = serving
        /\ readIdx' = [readIdx EXCEPT ![fd] = @ + n]
        /\ unread' = [unread EXCEPT ![c] = @ - n]
        /\ UNCHANGED <<parentVars, phase, batch, stop, pipe, zombies,
                       ready, slot, programs, peer, sent, complete>>
    BY DEF RecvPart, RecvSome, Continue
  <1>2. c # NoConn /\ c \in Conns /\ \A gd \in Fds : gd # fd => slot[gd] # c
    BY <1>1, ServingIsOpen, OpenFacts
  <1>3. /\ n \in Nat /\ n <= unread[c] /\ readIdx[fd] + n \in 0 .. Capacity
        /\ unread[c] \in 0 .. MaxSend
    BY <1>2, TakenFacts, UnreadSent
  <1>4. readIdx[fd] \in 0 .. Capacity /\ sent[c] \in 0 .. MaxSend
        /\ readIdx[fd] + unread[c] = sent[c]
    BY <1>2 DEF ChildInv, TypeOK, BufferIsOwn
  <1> HIDE DEF n, c
  <1>5. unread[c] - n \in 0 .. MaxSend /\ (readIdx[fd] + n) + (unread[c] - n) = sent[c]
    BY <1>3, <1>4
  <1>6. /\ readIdx' \in [Fds -> 0 .. Capacity] /\ readIdx'[fd] = readIdx[fd] + n
        /\ \A gd \in Fds : gd # fd => readIdx'[gd] = readIdx[gd]
    BY <1>1, <1>3 DEF ChildInv, TypeOK
  <1>7. /\ unread' \in [Conns -> 0 .. MaxSend] /\ unread'[c] = unread[c] - n
        /\ \A d \in Conns : d # c => unread'[d] = unread[d]
    BY <1>1, <1>2, <1>5 DEF ChildInv, TypeOK
  <1>8. TypeOK'
    BY <1>1, <1>6, <1>7 DEF ChildInv, TypeOK, parentVars
  <1>9. BufferIsOwn'
    <2> SUFFICES ASSUME NEW gd \in Fds, slot[gd] # NoConn
                 PROVE  readIdx'[gd] + unread'[slot[gd]] = sent[slot[gd]]
      BY <1>1 DEF BufferIsOwn
    <2>1. CASE gd = fd
      BY <1>5, <1>6, <1>7, <2>1 DEF c
    <2>2. CASE gd # fd
      <3>1. slot[gd] \in Conns /\ slot[gd] # c
        BY <1>2, <2>2, OpenFacts
      <3>2. QED
        BY <1>6, <1>7, <2>2, <3>1 DEF ChildInv, BufferIsOwn
    <2>3. QED
      BY <2>1, <2>2
  <1>10. OutsideInv'
    <2> SUFFICES ASSUME NEW d \in Conns, \A gd \in Fds : slot[gd] # d
                 PROVE  unread'[d] = sent[d]
      BY <1>1 DEF OutsideInv
    <2>1. d # c
      BY DEF c
    <2>2. QED
      BY <1>7, <2>1 DEF ChildInv, OutsideInv
  <1>11. ConnInv' /\ PhaseInv' /\ NoStaleEvent' /\ ZombiesAnnounced'
    BY <1>1, ConnsKept, EventsKept, SignalsKept DEF parentVars
  <1>12. QED
    BY <1>8, <1>9, <1>10, <1>11 DEF ChildInv

\* What becomes of a client that is closed.
LEMMA ForgetFacts ==
  ASSUME ChildInv, NEW c \in Conns, Forget(c)
  PROVE  /\ peer' \in [Conns -> {"new", "open", "closed", "gone"}]
         /\ unread' \in [Conns -> 0 .. MaxSend] /\ sent' \in [Conns -> 0 .. MaxSend]
         /\ complete' \subseteq Conns
         /\ unread'[c] = 0 /\ sent'[c] = 0 /\ peer'[c] = "gone"
         /\ \A d \in Conns : d # c =>
              unread'[d] = unread[d] /\ sent'[d] = sent[d] /\ peer'[d] = peer[d]
  BY ChildAssumption DEF ChildInv, TypeOK, Forget

\* A client is removed while it is read.
LEMMA RemoveChildInv ==
  ASSUME ChildInv, NEW fd \in Fds, serving = fd, RemoveFd(fd),
         readIdx' \in [Fds -> 0 .. Capacity],
         \A gd \in Fds : gd # fd => readIdx'[gd] = readIdx[gd],
         programs' \in Nat,
         UNCHANGED <<parentVars, phase, batch, stop, pipe, zombies>>
  PROVE  ChildInv'
  <1> USE ChildAssumption DEF parentVars
  <1> DEFINE c == slot[fd]
  <1>1. /\ slot' = [slot EXCEPT ![fd] = NoConn]
        /\ ready' = ready \ {fd}
        /\ Forget(c) /\ serving' = NoFd
    BY DEF RemoveFd, Break
  <1>2. fd \notin batch /\ phase = "events" /\ c # NoConn
    BY ServingIsOpen
  <1>3. /\ c \in Conns /\ \A gd \in Fds : gd # fd => slot[gd] # c
        /\ \A i \in 1 .. Len(backlog) : backlog[i] # c
    BY <1>2, OpenFacts
  <1> HIDE DEF c
  <1>4. /\ peer' \in [Conns -> {"new", "open", "closed", "gone"}]
        /\ unread' \in [Conns -> 0 .. MaxSend] /\ sent' \in [Conns -> 0 .. MaxSend]
        /\ complete' \subseteq Conns
        /\ unread'[c] = 0 /\ sent'[c] = 0 /\ peer'[c] = "gone"
        /\ \A d \in Conns : d # c =>
             unread'[d] = unread[d] /\ sent'[d] = sent[d] /\ peer'[d] = peer[d]
    BY <1>1, <1>3, ForgetFacts
  <1>5. /\ slot \in [Fds -> Conns \cup {NoConn}] /\ slot' \in [Fds -> Conns \cup {NoConn}]
        /\ slot'[fd] = NoConn /\ \A gd \in Fds : gd # fd => slot'[gd] = slot[gd]
    BY <1>1 DEF ChildInv, TypeOK
  <1>6. TypeOK'
    BY <1>1, <1>4, <1>5 DEF ChildInv, TypeOK
  <1>7. PhaseInv'
    BY <1>1, <1>2 DEF PhaseInv
  <1>8. ConnInv'
    <2>1. \A gd, hd \in Fds : slot'[gd] # NoConn /\ slot'[gd] = slot'[hd] => gd = hd
      BY <1>5 DEF ChildInv, ConnInv
    <2>2. ASSUME NEW gd \in Fds, slot'[gd] # NoConn
          PROVE  peer'[slot'[gd]] # "new"
      <3>1. gd # fd /\ slot'[gd] = slot[gd] /\ slot[gd] \in Conns /\ slot[gd] # c
        BY <1>3, <1>5, <2>2
      <3>2. peer[slot[gd]] # "new"
        BY <2>2, <3>1 DEF ChildInv, ConnInv
      <3>3. QED
        BY <1>4, <3>1, <3>2
    <2>3. ASSUME NEW i \in 1 .. Len(backlog)
          PROVE  /\ peer'[backlog[i]] # "new"
                 /\ \A gd \in Fds : slot'[gd] # backlog[i]
                 /\ \A j \in 1 .. Len(backlog) : i < j => backlog[i] # backlog[j]
      <3>1. backlog[i] \in Conns /\ backlog[i] # c /\ backlog[i] # NoConn
        BY <1>3 DEF ChildInv, TypeOK
      <3>2. QED
        BY <1>4, <1>5, <3>1 DEF ChildInv, ConnInv
    <2>4. QED
      BY <2>1, <2>2, <2>3 DEF ConnInv
  <1>9. OutsideInv'
    <2> SUFFICES ASSUME NEW d \in Conns, \A gd \in Fds : slot'[gd] # d
                 PROVE  unread'[d] = sent'[d]
      BY DEF OutsideInv
    <2>1. CASE d = c
      BY <1>4, <2>1
    <2>2. CASE d # c
      <3>1. \A gd \in Fds : slot[gd] # d
        BY <1>5, <2>2 DEF c
      <3>2. QED
        BY <1>4, <2>2, <3>1 DEF ChildInv, OutsideInv
    <2>3. QED
      BY <2>1, <2>2
  <1>10. BufferIsOwn'
    <2> SUFFICES ASSUME NEW gd \in Fds, slot'[gd] # NoConn
                 PROVE  readIdx'[gd] + unread'[slot'[gd]] = sent'[slot'[gd]]
      BY DEF BufferIsOwn
    <2>1. gd # fd /\ slot'[gd] = slot[gd] /\ slot[gd] \in Conns /\ slot[gd] # c
      BY <1>3, <1>5
    <2>2. readIdx[gd] + unread[slot[gd]] = sent[slot[gd]]
      BY <2>1 DEF ChildInv, BufferIsOwn
    <2>3. QED
      BY <1>4, <2>1, <2>2
  <1>11. NoStaleEvent'
    BY <1>1, <1>2, <1>5 DEF ChildInv, NoStaleEvent
  <1>12. ZombiesAnnounced'
    BY <1>1, SignalsKept
  <1>13. QED
    BY <1>6, <1>7, <1>8, <1>9, <1>10, <1>11, <1>12 DEF ChildInv

\* recv completes the line: the program is started and the slot freed.
LEMMA RecvLineChildInv ==
  ASSUME ChildInv, NEW fd \in Fds, RecvLine(fd)
  PROVE  ChildInv'
  <1>1. /\ serving = fd /\ RemoveFd(fd) /\ programs' \in {programs, programs + 1}
        /\ readIdx' = [readIdx EXCEPT ![fd] = @ + Taken(fd)]
        /\ UNCHANGED <<parentVars, phase, batch, stop, pipe, zombies>>
    BY DEF RecvLine, RecvSome
  <1>2. readIdx[fd] + Taken(fd) \in 0 .. Capacity
    BY <1>1, ServingIsOpen, TakenFacts
  <1>3. /\ readIdx' \in [Fds -> 0 .. Capacity]
        /\ \A gd \in Fds : gd # fd => readIdx'[gd] = readIdx[gd]
    BY <1>1, <1>2 DEF ChildInv, TypeOK
  <1>4. programs' \in Nat
    BY <1>1 DEF ChildInv, TypeOK
  <1>5. QED
    BY <1>1, <1>3, <1>4, RemoveChildInv

\* The client is gone and its slot is freed.
LEMMA RecvZeroChildInv ==
  ASSUME ChildInv, NEW fd \in Fds, RecvZero(fd)
  PROVE  ChildInv'
  <1>1. /\ serving = fd /\ RemoveFd(fd)
        /\ UNCHANGED <<parentVars, signalVars, phase, batch, readIdx, stop>>
    BY DEF RecvZero
  <1>2. readIdx' \in [Fds -> 0 .. Capacity] /\ programs' \in Nat
    BY <1>1 DEF ChildInv, TypeOK, signalVars
  <1>3. QED
    BY <1>1, <1>2, RemoveChildInv DEF signalVars

-----------------------------------------------------------------------------
(* The parent, the other children, the programs and the clients.           *)

\* A client connects.
LEMMA ConnectChildInv ==
  ASSUME ChildInv, NEW c \in Conns, Connect(c)
  PROVE  ChildInv'
  <1>1. /\ peer[c] = "new"
        /\ peer' = [peer EXCEPT ![c] = "open"]
        /\ backlog' = Append(backlog, c)
        /\ arrived' = TRUE
        /\ UNCHANGED <<loopVars, userVars, signalVars, ready, notices, parent, unread, sent, complete>>
    BY DEF Connect
  <1> USE DEF loopVars, userVars, signalVars
  <1>2. /\ backlog \in Seq(Conns) /\ backlog' \in Seq(Conns) /\ Len(backlog') = Len(backlog) + 1
        /\ \A i \in 1 .. Len(backlog) : backlog'[i] = backlog[i]
        /\ backlog'[Len(backlog) + 1] = c
    BY <1>1, AppendProperties DEF ChildInv, TypeOK
  <1>3. /\ \A fd \in Fds : slot[fd] # c
        /\ \A i \in 1 .. Len(backlog) : backlog[i] # c
    BY <1>1, ChildAssumption DEF ChildInv, ConnInv
  <1>4. /\ peer' \in [Conns -> {"new", "open", "closed", "gone"}] /\ peer'[c] = "open"
        /\ \A d \in Conns : d # c => peer'[d] = peer[d]
    BY <1>1 DEF ChildInv, TypeOK
  <1>5. TypeOK'
    BY <1>1, <1>2, <1>4 DEF ChildInv, TypeOK
  <1>6. ConnInv'
    <2>1. slot' = slot /\ slot \in [Fds -> Conns \cup {NoConn}]
      BY <1>1 DEF ChildInv, TypeOK
    <2>2. \A fd, gd \in Fds : slot'[fd] # NoConn /\ slot'[fd] = slot'[gd] => fd = gd
      BY <2>1 DEF ChildInv, ConnInv
    <2>3. \A fd \in Fds : slot'[fd] # NoConn => peer'[slot'[fd]] # "new"
      BY <1>3, <1>4, <2>1 DEF ChildInv, ConnInv
    <2>4. ASSUME NEW i \in 1 .. Len(backlog')
          PROVE  /\ peer'[backlog'[i]] # "new"
                 /\ \A fd \in Fds : slot'[fd] # backlog'[i]
                 /\ \A j \in 1 .. Len(backlog') : i < j => backlog'[i] # backlog'[j]
      <3>1. CASE i = Len(backlog) + 1
        <4>1. backlog'[i] = c /\ \A j \in 1 .. Len(backlog') : ~(i < j)
          BY <1>2, <3>1
        <4>2. QED
          BY <1>3, <1>4, <2>1, <4>1
      <3>2. CASE i # Len(backlog) + 1
        <4>1. i \in 1 .. Len(backlog) /\ backlog'[i] = backlog[i] /\ backlog[i] \in Conns
          BY <1>2, <3>2
        <4>2. peer'[backlog[i]] # "new"
          BY <1>3, <1>4, <4>1 DEF ChildInv, ConnInv
        <4>3. \A fd \in Fds : slot'[fd] # backlog[i]
          BY <2>1, <4>1 DEF ChildInv, ConnInv
        <4>4. ASSUME NEW j \in 1 .. Len(backlog'), i < j
              PROVE  backlog[i] # backlog'[j]
          <5>1. CASE j = Len(backlog) + 1
            BY <1>2, <1>3, <4>1, <5>1
          <5>2. CASE j # Len(backlog) + 1
            <6>1. j \in 1 .. Len(backlog) /\ backlog'[j] = backlog[j]
              BY <1>2, <5>2
            <6>2. QED
              BY <4>1, <4>4, <6>1 DEF ChildInv, ConnInv
          <5>3. QED
            BY <5>1, <5>2
        <4>5. QED
          BY <4>1, <4>2, <4>3, <4>4
      <3>3. QED
        BY <3>1, <3>2
    <2>5. QED
      BY <2>2, <2>3, <2>4 DEF ConnInv
  <1>7. PhaseInv' /\ NoStaleEvent' /\ OutsideInv' /\ BufferIsOwn' /\ ZombiesAnnounced'
    BY <1>1, EventsKept, UsersKept, SignalsKept
  <1>8. QED
    BY <1>5, <1>6, <1>7 DEF ChildInv

\* The parent sends a notice or ends.
LEMMA ParentChildInv ==
  ASSUME ChildInv, Notify \/ ParentEnds
  PROVE  ChildInv'
  <1>1. /\ ready' = ready \cup {"pipe"} /\ arrived' \in BOOLEAN /\ parent' \in BOOLEAN
        /\ notices' \in {notices, notices + 1}
        /\ UNCHANGED <<loopVars, userVars, signalVars, clientVars, backlog>>
    BY DEF Notify, ParentEnds, ChildInv, TypeOK
  <1> USE DEF loopVars, userVars, signalVars, clientVars
  <1>2. notices' \in Nat /\ ready' \subseteq Sources
    BY <1>1 DEF ChildInv, TypeOK, Sources
  <1>3. TypeOK'
    BY <1>1, <1>2 DEF ChildInv, TypeOK
  <1>4. ConnInv' /\ PhaseInv' /\ NoStaleEvent' /\ OutsideInv' /\ BufferIsOwn' /\ ZombiesAnnounced'
    BY <1>1, ConnsKept, EventsKept, UsersKept, SignalsKept
  <1>5. QED
    BY <1>3, <1>4 DEF ChildInv

\* Another child accepts the first connection of the backlog.
LEMMA SiblingChildInv ==
  ASSUME ChildInv, SiblingAccepts
  PROVE  ChildInv'
  <1> DEFINE c == Head(backlog)
             b == Tail(backlog)
  <1>1. /\ backlog # <<>> /\ backlog' = b
        /\ Forget(c)
        /\ UNCHANGED <<loopVars, userVars, signalVars, ready, arrived, notices, parent>>
    BY DEF SiblingAccepts
  <1> USE DEF loopVars, userVars, signalVars
  <1>2. /\ c \in Conns /\ b \in Seq(Conns) /\ \A fd \in Fds : slot[fd] # c
        /\ \A i \in 1 .. Len(b) :
             /\ b[i] \in Conns /\ b[i] # c /\ peer[b[i]] # "new"
             /\ \A fd \in Fds : slot[fd] # b[i]
             /\ \A j \in 1 .. Len(b) : i < j => b[i] # b[j]
    BY <1>1, BacklogHead
  <1> HIDE DEF c, b
  <1>3. /\ peer' \in [Conns -> {"new", "open", "closed", "gone"}]
        /\ unread' \in [Conns -> 0 .. MaxSend] /\ sent' \in [Conns -> 0 .. MaxSend]
        /\ complete' \subseteq Conns
        /\ unread'[c] = 0 /\ sent'[c] = 0 /\ peer'[c] = "gone"
        /\ \A d \in Conns : d # c =>
             unread'[d] = unread[d] /\ sent'[d] = sent[d] /\ peer'[d] = peer[d]
    BY <1>1, <1>2, ForgetFacts
  <1>4. TypeOK'
    BY <1>1, <1>2, <1>3 DEF ChildInv, TypeOK
  <1>5. slot' = slot /\ slot \in [Fds -> Conns \cup {NoConn}]
    BY <1>1 DEF ChildInv, TypeOK
  <1>6. ConnInv'
    <2>1. \A fd, gd \in Fds : slot'[fd] # NoConn /\ slot'[fd] = slot'[gd] => fd = gd
      BY <1>5 DEF ChildInv, ConnInv
    <2>2. \A fd \in Fds : slot'[fd] # NoConn => peer'[slot'[fd]] # "new"
      BY <1>2, <1>3, <1>5 DEF ChildInv, ConnInv
    <2>3. \A i \in 1 .. Len(b) :
            /\ peer'[b[i]] # "new"
            /\ \A fd \in Fds : slot'[fd] # b[i]
            /\ \A j \in 1 .. Len(b) : i < j => b[i] # b[j]
      BY <1>2, <1>3, <1>5
    <2>4. QED
      BY <1>1, <2>1, <2>2, <2>3 DEF ConnInv
  <1>7. OutsideInv'
    <2> SUFFICES ASSUME NEW d \in Conns, \A fd \in Fds : slot[fd] # d
                 PROVE  unread'[d] = sent'[d]
      BY <1>5 DEF OutsideInv
    <2>1. CASE d = c
      BY <1>3, <2>1
    <2>2. CASE d # c
      BY <1>3, <2>2 DEF ChildInv, OutsideInv
    <2>3. QED
      BY <2>1, <2>2
  <1>8. BufferIsOwn'
    <2> SUFFICES ASSUME NEW fd \in Fds, slot[fd] # NoConn
                 PROVE  readIdx[fd] + unread'[slot[fd]] = sent'[slot[fd]]
      BY <1>1 DEF BufferIsOwn
    <2>1. slot[fd] \in Conns /\ slot[fd] # c
      BY <1>2, OpenFacts
    <2>2. QED
      BY <1>3, <2>1 DEF ChildInv, BufferIsOwn
  <1>9. PhaseInv' /\ NoStaleEvent' /\ ZombiesAnnounced'
    BY <1>1, EventsKept, SignalsKept
  <1>10. QED
    BY <1>4, <1>6, <1>7, <1>8, <1>9 DEF ChildInv

\* A signal is announced with its arrival; SIGCHLD comes with the program's end.
LEMMA SignalChildInv ==
  ASSUME ChildInv, NEW sig \in {"CHLD", "TERM"}, Signal(sig),
         programs' \in Nat, zombies' \in Nat, zombies' = zombies \/ sig = "CHLD"
  PROVE  ChildInv'
  <1>1. /\ pipe' = pipe \cup {sig} /\ ready' = ready \cup {"signals"}
        /\ UNCHANGED <<loopVars, userVars, parentVars, clientVars>>
    BY DEF Signal
  <1> USE DEF loopVars, userVars, parentVars, clientVars
  <1>2. ready' \subseteq Sources /\ pipe' \subseteq {"CHLD", "TERM"}
    BY <1>1 DEF ChildInv, TypeOK, Sources
  <1>3. TypeOK'
    BY <1>1, <1>2 DEF ChildInv, TypeOK
  <1>4. ZombiesAnnounced'
    BY <1>1 DEF ChildInv, ZombiesAnnounced
  <1>5. ConnInv' /\ PhaseInv' /\ NoStaleEvent' /\ OutsideInv' /\ BufferIsOwn'
    BY <1>1, ConnsKept, EventsKept, UsersKept
  <1>6. QED
    BY <1>3, <1>4, <1>5 DEF ChildInv

\* A client sends a part of its line.
LEMMA ClientSendChildInv ==
  ASSUME ChildInv, NEW c \in Conns, ClientSend(c)
  PROVE  ChildInv'
  <1> USE ChildAssumption
  <1>1. /\ sent[c] < MaxSend /\ complete' \in {complete, complete \cup {c}}
        /\ sent' = [sent EXCEPT ![c] = @ + 1] /\ unread' = [unread EXCEPT ![c] = @ + 1]
        /\ ready' = ready \cup {fd \in Fds : slot[fd] = c}
        /\ UNCHANGED <<loopVars, userVars, parentVars, signalVars, peer>>
    BY DEF ClientSend, Arrival
  <1>2. unread[c] \in 0 .. MaxSend /\ sent[c] \in 0 .. MaxSend /\ unread[c] <= sent[c]
    BY UnreadSent
  <1>3. sent[c] + 1 \in 0 .. MaxSend /\ unread[c] + 1 \in 0 .. MaxSend
    BY <1>1, <1>2
  <1>4. /\ unread' \in [Conns -> 0 .. MaxSend] /\ sent' \in [Conns -> 0 .. MaxSend]
        /\ unread'[c] = unread[c] + 1 /\ sent'[c] = sent[c] + 1
        /\ \A d \in Conns : d # c => unread'[d] = unread[d] /\ sent'[d] = sent[d]
    BY <1>1, <1>3 DEF ChildInv, TypeOK
  <1> USE DEF loopVars, userVars, parentVars, signalVars
  <1>5. ready' \subseteq Sources /\ complete' \subseteq Conns
    BY <1>1 DEF ChildInv, TypeOK, Sources
  <1>6. TypeOK'
    BY <1>1, <1>4, <1>5 DEF ChildInv, TypeOK
  <1>7. OutsideInv'
    BY <1>1, <1>4 DEF ChildInv, OutsideInv
  <1>8. BufferIsOwn'
    <2> SUFFICES ASSUME NEW fd \in Fds, slot[fd] # NoConn
                 PROVE  readIdx[fd] + unread'[slot[fd]] = sent'[slot[fd]]
      BY <1>1 DEF BufferIsOwn
    <2>1. slot[fd] \in Conns /\ readIdx[fd] \in 0 .. Capacity
          /\ readIdx[fd] + unread[slot[fd]] = sent[slot[fd]]
      BY DEF ChildInv, TypeOK, BufferIsOwn
    <2>2. CASE slot[fd] = c
      BY <1>2, <1>4, <2>1, <2>2
    <2>3. CASE slot[fd] # c
      BY <1>4, <2>1, <2>3
    <2>4. QED
      BY <2>2, <2>3
  <1>9. ConnInv' /\ PhaseInv' /\ NoStaleEvent' /\ ZombiesAnnounced'
    BY <1>1, ConnsKept, EventsKept, SignalsKept
  <1>10. QED
    BY <1>6, <1>7, <1>8, <1>9 DEF ChildInv

\* What a reset discards was not read, and counts no longer as sent.
LEMMA ClientCloseChildInv ==
  ASSUME ChildInv, NEW c \in Conns, ClientClose(c)
  PROVE  ChildInv'
  <1> USE ChildAssumption
  <1>1. /\ peer' = [peer EXCEPT ![c] = "closed"]
        /\ \/ UNCHANGED <<unread, sent, complete>>
           \/ /\ unread' = [unread EXCEPT ![c] = 0]
              /\ sent' = [sent EXCEPT ![c] = @ - unread[c]]
              /\ complete' = complete \ {c}
        /\ ready' = ready \cup {fd \in Fds : slot[fd] = c}
        /\ UNCHANGED <<loopVars, userVars, parentVars, signalVars>>
    BY DEF ClientClose, Arrival
  <1>2. unread[c] \in 0 .. MaxSend /\ sent[c] \in 0 .. MaxSend /\ unread[c] <= sent[c]
    BY UnreadSent
  <1>3. sent[c] - unread[c] \in 0 .. MaxSend /\ 0 \in 0 .. MaxSend
    BY <1>2
  <1>4. /\ unread' \in [Conns -> 0 .. MaxSend] /\ sent' \in [Conns -> 0 .. MaxSend]
        /\ \/ unread'[c] = unread[c] /\ sent'[c] = sent[c]
           \/ unread'[c] = 0 /\ sent'[c] = sent[c] - unread[c]
        /\ \A d \in Conns : d # c => unread'[d] = unread[d] /\ sent'[d] = sent[d]
    <2>1. unread \in [Conns -> 0 .. MaxSend] /\ sent \in [Conns -> 0 .. MaxSend]
      BY DEF ChildInv, TypeOK
    <2>2. CASE UNCHANGED <<unread, sent, complete>>
      BY <2>1, <2>2
    <2>3. CASE /\ unread' = [unread EXCEPT ![c] = 0]
               /\ sent' = [sent EXCEPT ![c] = @ - unread[c]]
      BY <1>3, <2>1, <2>3
    <2>4. QED
      BY <1>1, <2>2, <2>3
  <1>5. /\ peer' \in [Conns -> {"new", "open", "closed", "gone"}]
        /\ \A d \in Conns : peer[d] # "new" => peer'[d] # "new"
    BY <1>1 DEF ChildInv, TypeOK
  <1> USE DEF loopVars, userVars, parentVars, signalVars
  <1>6. ready' \subseteq Sources /\ complete' \subseteq Conns
    BY <1>1 DEF ChildInv, TypeOK, Sources
  <1>7. TypeOK'
    BY <1>1, <1>4, <1>5, <1>6 DEF ChildInv, TypeOK
  <1>8. OutsideInv'
    <2> SUFFICES ASSUME NEW d \in Conns, \A fd \in Fds : slot[fd] # d
                 PROVE  unread'[d] = sent'[d]
      BY <1>1 DEF OutsideInv
    <2>1. unread[d] = sent[d]
      BY DEF ChildInv, OutsideInv
    <2>2. CASE d = c
      BY <1>2, <1>4, <2>1, <2>2
    <2>3. CASE d # c
      BY <1>4, <2>1, <2>3
    <2>4. QED
      BY <2>2, <2>3
  <1>9. BufferIsOwn'
    <2> SUFFICES ASSUME NEW fd \in Fds, slot[fd] # NoConn
                 PROVE  readIdx[fd] + unread'[slot[fd]] = sent'[slot[fd]]
      BY <1>1 DEF BufferIsOwn
    <2>1. slot[fd] \in Conns /\ readIdx[fd] \in 0 .. Capacity
          /\ readIdx[fd] + unread[slot[fd]] = sent[slot[fd]]
      BY DEF ChildInv, TypeOK, BufferIsOwn
    <2>2. CASE slot[fd] = c
      BY <1>2, <1>4, <2>1, <2>2
    <2>3. CASE slot[fd] # c
      BY <1>4, <2>1, <2>3
    <2>4. QED
      BY <2>2, <2>3
  <1>10. ConnInv'
    <2>1. slot' = slot /\ backlog' = backlog
      BY <1>1
    <2>2. /\ slot \in [Fds -> Conns \cup {NoConn}]
          /\ \A i \in 1 .. Len(backlog) : backlog[i] \in Conns
      BY DEF ChildInv, TypeOK
    <2>3. QED
      BY <1>5, <2>1, <2>2 DEF ChildInv, ConnInv
  <1>11. PhaseInv' /\ NoStaleEvent' /\ ZombiesAnnounced'
    BY <1>1, EventsKept, SignalsKept
  <1>12. QED
    BY <1>7, <1>8, <1>9, <1>10, <1>11 DEF ChildInv

-----------------------------------------------------------------------------
(* The theorems.                                                           *)

\* The invariant is inductive.
LEMMA NextChildInv == ChildInv /\ [Next]_vars => ChildInv'
  <1> SUFFICES ASSUME ChildInv, [Next]_vars
               PROVE  ChildInv'
    OBVIOUS
  <1>1. CASE EpollWait \/ ReadSignals \/ LoopEnd
    BY <1>1, EpollWaitChildInv, ReadSignalsChildInv, LoopEndChildInv
  <1>2. CASE Accept \/ AcceptFails \/ ParentIsGone
    BY <1>2, AcceptChildInv, NoticeChildInv
  <1>3. ASSUME NEW fd \in Fds, Process(fd) \/ RecvPart(fd) \/ RecvLine(fd) \/ RecvZero(fd)
        PROVE  ChildInv'
    BY <1>3, ProcessChildInv, RecvPartChildInv, RecvLineChildInv, RecvZeroChildInv
  <1>4. CASE Notify \/ SiblingAccepts \/ ParentEnds
    BY <1>4, ParentChildInv, SiblingChildInv
  <1>5. CASE Terminate
    <2>1. Signal("TERM") /\ programs' \in Nat /\ zombies' \in Nat /\ zombies' = zombies
      BY <1>5 DEF Terminate, ChildInv, TypeOK
    <2>2. QED
      BY <2>1, SignalChildInv
  <1>6. CASE ProgramEnds
    <2>1. Signal("CHLD") /\ programs' \in Nat /\ zombies' \in Nat
      BY <1>6 DEF ProgramEnds, ChildInv, TypeOK
    <2>2. QED
      BY <2>1, SignalChildInv
  <1>7. ASSUME NEW c \in Conns, Connect(c) \/ ClientSend(c) \/ ClientClose(c)
        PROVE  ChildInv'
    BY <1>7, ConnectChildInv, ClientSendChildInv, ClientCloseChildInv
  <1>8. CASE UNCHANGED vars
    <2> USE <1>8 DEF vars, loopVars, userVars, parentVars, signalVars, clientVars
    <2>1. TypeOK'
      BY DEF ChildInv, TypeOK
    <2>2. ConnInv' /\ PhaseInv' /\ NoStaleEvent' /\ OutsideInv' /\ BufferIsOwn' /\ ZombiesAnnounced'
      BY ConnsKept, EventsKept, UsersKept, SignalsKept
    <2>3. QED
      BY <2>1, <2>2 DEF ChildInv
  <1>9. QED
    BY <1>1, <1>2, <1>3, <1>4, <1>5, <1>6, <1>7, <1>8
       DEF Next, ChildStep, Environment, RecvWouldBlock

\* The inductive invariant.
LEMMA ChildInvariant == Spec => []ChildInv
  BY InitChildInv, NextChildInv, PTL DEF Spec

\* Every variable has its type; the buffer of a user is never written past its end.
THEOREM TypeTheorem == Spec => []TypeOK
  <1>1. ChildInv => TypeOK
    BY DEF ChildInv
  <1>2. QED
    BY <1>1, ChildInvariant, PTL

\* No event outlives its client.
THEOREM EventTheorem == Spec => []NoStaleEvent
  <1>1. ChildInv => NoStaleEvent
    BY DEF ChildInv
  <1>2. QED
    BY <1>1, ChildInvariant, PTL

\* A buffer holds what its client has sent, and nothing of the client before.
THEOREM BufferTheorem == Spec => []BufferIsOwn
  <1>1. ChildInv => BufferIsOwn
    BY DEF ChildInv
  <1>2. QED
    BY <1>1, ChildInvariant, PTL

\* No program that ended is forgotten.
THEOREM ZombieTheorem == Spec => []ZombiesAnnounced
  <1>1. ChildInv => ZombiesAnnounced
    BY DEF ChildInv
  <1>2. QED
    BY <1>1, ChildInvariant, PTL

=============================================================================
