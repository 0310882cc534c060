-------------------------- MODULE TimerServerProofs --------------------------
(***************************************************************************)
(* What the timer server guarantees for every number of clients and        *)
(* descriptors and every length of its slot.  The argument has six parts:  *)
(* no client is at two places (ConnInv), so that what is done to one       *)
(* descriptor leaves the events of the others as they were (NeverBlocks);  *)
(* the list holds the open descriptors (OneTimerPerClient); the time to an *)
(* expiry and the time a client has been silent add up (IdleInv); one      *)
(* alarm is set or seen (AlarmInv); and the list stays in the order  *)
(* of the time that is left (OrderInv).                                    *)
(***************************************************************************)
EXTENDS TimerServer, FiniteSetTheorems, SequenceTheorems, TLAPS

\* What is proved of the operations of the timer list.  Its clock, its ticks and its
\* pointers are of no concern here.
Timer == INSTANCE SortedTimersProofs WITH
           Timers <- Fds, Delays <- {Limit}, MaxTime <- 0,
           list <- timers, expire <- left, now <- 0, mode <- "idle", cur <- 0,
           stepped <- FALSE,
           None <- NoConn, head <- NoConn, tail <- NoConn, next <- <<>>, prev <- <<>>,
           allocated <- {}, tmp <- NoConn

\* A client is accepted once, or waits once to be accepted.
ConnInv ==
  /\ \A fd, gd \in Fds : slot[fd] # NoConn /\ slot[fd] = slot[gd] => fd = gd
  /\ \A fd \in Fds : slot[fd] # NoConn => peer[slot[fd]] # "new"
  /\ \A i \in 1 .. Len(backlog) :
       /\ peer[backlog[i]] # "new"
       /\ \A fd \in Fds : slot[fd] # backlog[i]
       /\ \A j \in 1 .. Len(backlog) : i < j => backlog[i] # backlog[j]

\* A timer runs while its client is silent.
IdleInv == \A fd \in Fds : slot[fd] # NoConn => left[fd] + idle[slot[fd]] = Limit

\* There is one alarm that is set, one SIGALRM in the pipe, or timeout.
AlarmInv ==
  phase # "stopped" =>
    \/ alarm > 0 /\ "ALRM" \notin pipe /\ ~timeout
    \/ alarm = 0 /\ "ALRM" \in pipe /\ ~timeout
    \/ alarm = 0 /\ "ALRM" \notin pipe /\ timeout

ServerInv ==
  /\ TypeOK
  /\ ConnInv /\ NeverBlocks
  /\ OneTimerPerClient /\ IdleInv
  /\ AlarmInv

-----------------------------------------------------------------------------
(* The timer list.                                                         *)

\* The operations are those of which SortedTimersProofs speaks.
LEMMA SameList ==
  ASSUME NEW s, NEW t, NEW e
  PROVE  /\ List!Insert(s, t, e) = Timer!Insert(s, t, e)
         /\ List!Adjusted(s, t, e) = Timer!Adjusted(s, t, e)
         /\ List!Without(s, t) = Timer!Without(s, t)
  BY DEF List!Insert, List!InsertBehind, List!Adjusted, List!Without, List!Place,
         Timer!Insert, Timer!InsertBehind, Timer!Adjusted, Timer!Without, Timer!Place

\* A timer never expires at the moment it is set.
LEMMA LimitPositive == Limit \in Nat \ {0}
  BY TimerServerAssumption DEF Limit

\* The server's timers meet the assumptions of the list.
LEMMA ListAssumption == Timer!TimersAssumption
  BY LimitPositive DEF Timer!TimersAssumption

\* OneTimerPerClient in the terms of the lemmas on lists.
LEMMA TimersMean ==
  OneTimerPerClient <=> /\ Timer!Elements(timers) = {fd \in Fds : slot[fd] # NoConn}
                        /\ Timer!Distinct(timers)
  BY DEF OneTimerPerClient, Timer!Elements, Timer!Distinct

\* The same of the next state.
LEMMA TimersNext ==
  OneTimerPerClient' <=> /\ Timer!Elements(timers') = {fd \in Fds : slot'[fd] # NoConn}
                         /\ Timer!Distinct(timers')
  BY DEF OneTimerPerClient, Timer!Elements, Timer!Distinct

\* add_timer adds the timer.
LEMMA InsertElements ==
  ASSUME NEW s \in Seq(Fds), NEW t \in Fds, NEW e \in Nat, left \in [Fds -> Nat],
         Timer!Distinct(s), t \notin Timer!Elements(s)
  PROVE  LET r == List!Insert(s, t, e) IN
           r \in Seq(Fds) /\ Timer!Distinct(r) /\ Timer!Elements(r) = Timer!Elements(s) \cup {t}
  <1>1. PICK k \in 0 .. Len(s) : Timer!Insert(s, t, e) = Timer!Spliced(s, k, t)
    BY Timer!InsertProperties, ListAssumption
  <1>2. Timer!Spliced(s, k, t) \in Seq(Fds)
    BY Timer!SplicedProperties, ListAssumption
  <1>3. /\ Timer!Distinct(Timer!Spliced(s, k, t))
        /\ Timer!Elements(Timer!Spliced(s, k, t)) = Timer!Elements(s) \cup {t}
    BY Timer!SplicedElements, ListAssumption
  <1>4. QED
    BY <1>1, <1>2, <1>3, SameList

\* del_timer takes it away.
LEMMA WithoutElements ==
  ASSUME NEW s \in Seq(Fds), Timer!Distinct(s), NEW t \in Timer!Elements(s)
  PROVE  LET r == List!Without(s, t) IN
           r \in Seq(Fds) /\ Timer!Distinct(r) /\ Timer!Elements(r) = Timer!Elements(s) \ {t}
  <1> DEFINE p == Timer!Place(s, t)
  <1>1. p \in 1 .. Len(s) /\ s[p] = t /\ List!Without(s, t) = Timer!Cut(s, p)
    BY Timer!PlaceProperties, SameList, ListAssumption
  <1> HIDE DEF p
  <1>2. Timer!Cut(s, p) \in Seq(Fds)
    BY <1>1, Timer!CutProperties, ListAssumption
  <1>3. Timer!Distinct(Timer!Cut(s, p)) /\ Timer!Elements(Timer!Cut(s, p)) = Timer!Elements(s) \ {t}
    BY <1>1, Timer!CutElements, ListAssumption
  <1>4. QED
    BY <1>1, <1>2, <1>3

\* adjust_timer moves it.
LEMMA AdjustedElements ==
  ASSUME NEW s \in Seq(Fds), Timer!Distinct(s), NEW t \in Timer!Elements(s),
         NEW e \in Nat, left \in [Fds -> Nat]
  PROVE  LET r == List!Adjusted(s, t, e) IN
           r \in Seq(Fds) /\ Timer!Distinct(r) /\ Timer!Elements(r) = Timer!Elements(s)
  <1> DEFINE p == Timer!Place(s, t)
             c == Timer!Cut(s, p)
  <1>1. p \in 1 .. Len(s) /\ s[p] = t /\ t \in Fds
    BY Timer!PlaceProperties, ListAssumption
  <1>2. PICK k \in p - 1 .. Len(c) : Timer!Adjusted(s, t, e) = Timer!Spliced(c, k, t)
    BY Timer!AdjustedProperties, ListAssumption
  <1> HIDE DEF p
  <1>3. /\ c \in Seq(Fds) /\ Timer!Distinct(c)
        /\ Timer!Elements(c) = Timer!Elements(s) \ {t}
    BY <1>1, Timer!CutProperties, Timer!CutElements, ListAssumption
  <1> HIDE DEF c
  <1>4. k \in 0 .. Len(c) /\ t \notin Timer!Elements(c)
    BY <1>1, <1>2, <1>3
  <1>5. Timer!Spliced(c, k, t) \in Seq(Fds)
    BY <1>1, <1>3, <1>4, Timer!SplicedProperties, ListAssumption
  <1>6. /\ Timer!Distinct(Timer!Spliced(c, k, t))
        /\ Timer!Elements(Timer!Spliced(c, k, t)) = Timer!Elements(c) \cup {t}
    BY <1>1, <1>3, <1>4, Timer!SplicedElements, ListAssumption
  <1>7. List!Adjusted(s, t, e) = Timer!Spliced(c, k, t)
    BY <1>2, SameList
  <1>8. QED
    BY <1>3, <1>5, <1>6, <1>7

\* tick() takes the due timers away, which are the first ones.
LEMMA DueProperties ==
  ASSUME timers \in Seq(Fds), left \in [Fds -> Nat]
  PROVE  /\ DueCount \in 0 .. Len(timers)
         /\ \A i \in 1 .. DueCount : left[timers[i]] = 0
         /\ DueCount < Len(timers) => left[timers[DueCount + 1]] > 0
  <1> DEFINE Ends(n) == n < Len(timers) => left[timers[n + 1]] > 0
             Found(n) == Ends(n) /\ \A i \in 1 .. n : left[timers[i]] = 0
             K == {n \in 0 .. Len(timers) : Ends(n)}
  <1>1. K \in SUBSET Nat /\ Len(timers) \in K
    OBVIOUS
  <1>2. PICK n \in K : \A m \in K : n <= m
    <2> HIDE DEF K
    <2>1. QED
      BY <1>1, Timer!LeastNumber, ListAssumption
  <1>3. ASSUME NEW i \in 1 .. n
        PROVE  left[timers[i]] = 0
    <2>1. i - 1 \in 0 .. Len(timers) /\ i - 1 < n /\ i - 1 < Len(timers) /\ i \in 1 .. Len(timers)
      OBVIOUS
    <2>2. i - 1 \notin K
      BY <1>2, <2>1
    <2>3. ~(left[timers[(i - 1) + 1]] > 0) /\ left[timers[i]] \in Nat
      BY <2>1, <2>2
    <2>4. QED
      BY <2>1, <2>3
  <1>4. n \in 0 .. Len(timers) /\ Found(n)
    BY <1>2, <1>3
  <1>5. DueCount \in 0 .. Len(timers) /\ Found(DueCount)
    BY <1>4 DEF DueCount
  <1>6. QED
    BY <1>5

\* tick() takes the timers that are due from the front of the list.
LEMMA TickElements ==
  ASSUME timers \in Seq(Fds), left \in [Fds -> Nat], Timer!Distinct(timers)
  PROVE  LET r == SubSeq(timers, DueCount + 1, Len(timers)) IN
           /\ r \in Seq(Fds) /\ Timer!Distinct(r)
           /\ Timer!Elements(r) = Timer!Elements(timers) \ Due
           /\ Due \subseteq Timer!Elements(timers)
  <1> DEFINE n == DueCount
             r == SubSeq(timers, n + 1, Len(timers))
  <1>1. n \in 0 .. Len(timers)
    BY DueProperties
  <1>2. Due = {timers[i] : i \in 1 .. n}
    BY DEF Due
  <1> HIDE DEF n
  <1>3. /\ r \in Seq(Fds) /\ Len(r) = Len(timers) - n
        /\ \A i \in 1 .. Len(r) : r[i] = timers[n + i]
    BY <1>1, SubSeqProperties
  <1> HIDE DEF r
  <1>4. ASSUME NEW i \in 1 .. Len(r), NEW j \in 1 .. Len(r), i < j
        PROVE  r[i] # r[j]
    <2>1. /\ n + i \in 1 .. Len(timers) /\ n + j \in 1 .. Len(timers) /\ n + i < n + j
          /\ r[i] = timers[n + i] /\ r[j] = timers[n + j]
      BY <1>1, <1>3, <1>4
    <2>2. QED
      BY <2>1 DEF Timer!Distinct
  <1>5. ASSUME NEW i \in 1 .. Len(timers), timers[i] \notin Due
        PROVE  timers[i] \in Timer!Elements(r)
    <2>1. i - n \in 1 .. Len(r) /\ n + (i - n) = i
      BY <1>1, <1>2, <1>3, <1>5
    <2>2. r[i - n] = timers[i]
      BY <1>3, <2>1
    <2>3. QED
      BY <2>1, <2>2 DEF Timer!Elements
  <1>6. ASSUME NEW i \in 1 .. Len(r)
        PROVE  r[i] \in Timer!Elements(timers) \ Due
    <2>1. n + i \in 1 .. Len(timers) /\ r[i] = timers[n + i] /\ n + i > n
      BY <1>1, <1>3
    <2>2. \A j \in 1 .. n : timers[j] # timers[n + i]
      BY <1>1, <2>1 DEF Timer!Distinct
    <2>3. QED
      BY <1>2, <2>1, <2>2 DEF Timer!Elements
  <1>7. Timer!Elements(r) = Timer!Elements(timers) \ Due
    BY <1>5, <1>6 DEF Timer!Elements
  <1>8. Due \subseteq Timer!Elements(timers)
    BY <1>1, <1>2 DEF Timer!Elements
  <1>9. QED
    BY <1>3, <1>4, <1>7, <1>8 DEF Timer!Distinct, r, n

-----------------------------------------------------------------------------
(* The steps of the server.                                                *)

\* What the parts of the invariant say of an open descriptor.
LEMMA OpenFacts ==
  ASSUME ServerInv, NEW fd \in Fds, slot[fd] # NoConn
  PROVE  /\ slot[fd] \in Conns
         /\ fd \in Timer!Elements(timers)
         /\ \A gd \in Fds : gd # fd => slot[gd] # slot[fd]
  BY TimersMean DEF ServerInv, TypeOK, ConnInv

\* The server starts without clients and timers.
LEMMA InitServerInv == Init => ServerInv
  <1> SUFFICES ASSUME Init
               PROVE  ServerInv
    OBVIOUS
  <1> USE TimerServerAssumption, LimitPositive DEF Init
  <1>1. TypeOK
    <2>1. /\ [c \in Conns |-> 0] \in [Conns -> Nat]
          /\ [c \in Conns |-> 0] \in [Conns -> 0 .. Limit]
          /\ [fd \in Fds |-> 0] \in [Fds -> 0 .. Limit]
          /\ Slot \in 0 .. Slot
      OBVIOUS
    <2>2. /\ slot \in [Fds -> Conns \cup {NoConn}]
          /\ peer \in [Conns -> {"new", "open", "closed", "gone"}]
          /\ backlog \in Seq(Conns) /\ timers \in Seq(Fds)
      OBVIOUS
    <2>3. /\ unread \in [Conns -> Nat]
          /\ idle \in [Conns -> 0 .. Limit] /\ left \in [Fds -> 0 .. Limit]
          /\ alarm \in 0 .. Slot
      BY <2>1
    <2>4. /\ phase \in {"waiting", "events", "stopped"}
          /\ batch \subseteq Sources /\ ready \subseteq Sources
          /\ pipe \subseteq {"ALRM", "TERM"}
          /\ timeout \in BOOLEAN /\ stop \in BOOLEAN
      OBVIOUS
    <2>5. QED
      BY <2>2, <2>3, <2>4 DEF TypeOK
  <1>2. ConnInv /\ NeverBlocks /\ IdleInv /\ AlarmInv
    BY DEF ConnInv, NeverBlocks, IdleInv, AlarmInv
  <1>3. OneTimerPerClient
    BY DEF OneTimerPerClient
  <1>4. QED
    BY <1>1, <1>2, <1>3 DEF ServerInv

\* epoll_wait reports only what is readable.
LEMMA EpollWaitServerInv ==
  ASSUME ServerInv, EpollWait
  PROVE  ServerInv'
  <1> USE DEF ServerInv, EpollWait, tableVars, clientVars, kernelVars
  <1>1. TypeOK' /\ AlarmInv'
    BY DEF TypeOK, AlarmInv
  <1>2. ConnInv' /\ IdleInv' /\ OneTimerPerClient'
    BY DEF ConnInv, IdleInv, OneTimerPerClient
  <1>3. NeverBlocks'
    BY DEF NeverBlocks, Readable, HasInput
  <1>4. QED
    BY <1>1, <1>2, <1>3

\* accept finds the connection it was called for, and its descriptor has no timer
\* and no event yet.
LEMMA AcceptServerInv ==
  ASSUME ServerInv, Accept
  PROVE  ServerInv'
  <1> USE TimerServerAssumption, LimitPositive
  <1> DEFINE c == Head(backlog)
  <1>1. /\ phase = "events" /\ phase' = phase
        /\ "listen" \in batch /\ batch' = batch \ {"listen"}
        /\ backlog' = Tail(backlog)
        /\ UNCHANGED <<peer, unread, alarm, pipe, timeout, stop>>
    BY DEF Accept, Handling, NextEvent
  <1>2. PICK fd \in Fds :
          /\ slot[fd] = NoConn
          /\ slot' = [slot EXCEPT ![fd] = c]
          /\ ready' = IF HasInput(c) THEN ready \cup {fd} ELSE ready
          /\ timers' = List!Insert(timers, fd, Limit)
          /\ left' = [left EXCEPT ![fd] = Limit]
          /\ idle' = [idle EXCEPT ![c] = 0]
    BY DEF Accept
  <1>3. backlog # <<>>
    BY <1>1 DEF ServerInv, NeverBlocks, Readable
  <1>4. /\ c \in Conns /\ c = backlog[1] /\ 1 \in 1 .. Len(backlog)
        /\ backlog' \in Seq(Conns) /\ Len(backlog') = Len(backlog) - 1
        /\ \A i \in 1 .. Len(backlog') : backlog'[i] = backlog[i + 1] /\ i + 1 \in 1 .. Len(backlog)
    BY <1>1, <1>3, HeadTailProperties DEF ServerInv, TypeOK
  <1> HIDE DEF c
  <1>5. /\ timers' \in Seq(Fds) /\ Timer!Distinct(timers')
        /\ Timer!Elements(timers') = Timer!Elements(timers) \cup {fd}
    <2>1. /\ timers \in Seq(Fds) /\ left \in [Fds -> Nat]
          /\ Timer!Distinct(timers) /\ fd \notin Timer!Elements(timers)
      BY <1>2, TimersMean DEF ServerInv, TypeOK
    <2>2. QED
      BY <1>2, <2>1, InsertElements
  <1>6. TypeOK'
    <2>1. ready' \subseteq Sources /\ batch' \subseteq Sources
      BY <1>1, <1>2 DEF ServerInv, TypeOK, Sources
    <2>2. /\ slot' \in [Fds -> Conns \cup {NoConn}]
          /\ left' \in [Fds -> 0 .. Limit]
          /\ idle' \in [Conns -> 0 .. Limit]
      BY <1>2, <1>4 DEF ServerInv, TypeOK
    <2>3. QED
      BY <1>1, <1>4, <1>5, <2>1, <2>2 DEF ServerInv, TypeOK
  <1>7. AlarmInv'
    BY <1>1 DEF ServerInv, AlarmInv
  <1>8. \A gd \in Fds : slot[gd] # c
    BY <1>4 DEF ServerInv, ConnInv
  <1>9. ConnInv'
    <2>1. \A gd, hd \in Fds : slot'[gd] # NoConn /\ slot'[gd] = slot'[hd] => gd = hd
      BY <1>2, <1>8 DEF ServerInv, TypeOK, ConnInv
    <2>2. \A gd \in Fds : slot'[gd] # NoConn => peer'[slot'[gd]] # "new"
      BY <1>1, <1>2, <1>4 DEF ServerInv, TypeOK, ConnInv
    <2>3. ASSUME NEW i \in 1 .. Len(backlog')
          PROVE  /\ peer'[backlog'[i]] # "new"
                 /\ \A gd \in Fds : slot'[gd] # backlog'[i]
                 /\ \A j \in 1 .. Len(backlog') : i < j => backlog'[i] # backlog'[j]
      <3>1. /\ i + 1 \in 1 .. Len(backlog) /\ backlog'[i] = backlog[i + 1]
            /\ \A j \in 1 .. Len(backlog') : backlog'[j] = backlog[j + 1] /\ j + 1 \in 1 .. Len(backlog)
        BY <1>4
      <3>2. backlog[1] # backlog[i + 1]
        BY <1>4, <3>1 DEF ServerInv, ConnInv
      <3>3. /\ peer[backlog[i + 1]] # "new"
            /\ \A gd \in Fds : slot[gd] # backlog[i + 1]
            /\ \A j \in 1 .. Len(backlog) : i + 1 < j => backlog[i + 1] # backlog[j]
        BY <3>1 DEF ServerInv, ConnInv
      <3>4. QED
        BY <1>1, <1>2, <1>4, <3>1, <3>2, <3>3 DEF ServerInv, TypeOK
    <2>4. QED
      BY <2>1, <2>2, <2>3 DEF ConnInv
  <1>10. NeverBlocks'
    <2> SUFFICES ASSUME NEW s \in batch'
                 PROVE  Readable(s)'
      BY DEF NeverBlocks
    <2>1. s \in batch /\ s # "listen" /\ Readable(s)
      BY <1>1 DEF ServerInv, NeverBlocks
    <2>2. s # fd
      BY <1>2, <2>1 DEF Readable
    <2>3. QED
      BY <1>1, <1>2, <2>1, <2>2 DEF ServerInv, TypeOK, Readable, HasInput
  <1>11. OneTimerPerClient'
    <2>1. {gd \in Fds : slot'[gd] # NoConn} = {gd \in Fds : slot[gd] # NoConn} \cup {fd}
      BY <1>2, <1>4 DEF ServerInv, TypeOK
    <2>2. QED
      BY <1>5, <2>1, TimersMean, TimersNext DEF ServerInv
  <1>12. IdleInv'
    BY <1>2, <1>4, <1>8 DEF ServerInv, TypeOK, IdleInv
  <1>13. QED
    BY <1>6, <1>7, <1>9, <1>10, <1>11, <1>12 DEF ServerInv

\* The signals are read: timeout takes over from SIGALRM.
LEMMA ReadSignalsServerInv ==
  ASSUME ServerInv, ReadSignals
  PROVE  ServerInv'
  <1> USE DEF ServerInv, ReadSignals, Handling, NextEvent, tableVars, clientVars
  <1>1. TypeOK'
    BY DEF TypeOK
  <1>2. AlarmInv'
    BY DEF AlarmInv
  <1>3. ConnInv' /\ IdleInv' /\ OneTimerPerClient'
    BY DEF ConnInv, IdleInv, OneTimerPerClient
  <1>4. NeverBlocks'
    BY DEF NeverBlocks, Readable, HasInput
  <1>5. QED
    BY <1>1, <1>2, <1>3, <1>4

\* recv takes input of one client, whose timer starts anew.
LEMMA ReceiveServerInv ==
  ASSUME ServerInv, NEW fd \in Fds, Receive(fd)
  PROVE  ServerInv'
  <1> USE TimerServerAssumption, LimitPositive
  <1> DEFINE c == slot[fd]
  <1>1. /\ phase' = phase /\ batch' = batch \ {fd}
        /\ c # NoConn /\ unread[c] > 0
        /\ unread' = [unread EXCEPT ![c] = IF @ < BufferSize THEN 0 ELSE @ - BufferSize]
        /\ idle' = [idle EXCEPT ![c] = 0]
        /\ left' = [left EXCEPT ![fd] = Limit]
        /\ timers' = List!Adjusted(timers, fd, Limit)
        /\ UNCHANGED <<backlog, alarm, pipe, slot, ready, timeout, stop, peer>>
    BY DEF Receive, Handling, NextEvent, AdjustTimer, kernelVars
  <1>2. /\ c \in Conns /\ fd \in Timer!Elements(timers)
        /\ \A gd \in Fds : gd # fd => slot[gd] # c
    BY <1>1, OpenFacts
  <1> HIDE DEF c
  <1>3. /\ timers' \in Seq(Fds) /\ Timer!Distinct(timers')
        /\ Timer!Elements(timers') = Timer!Elements(timers)
    <2>1. timers \in Seq(Fds) /\ left \in [Fds -> Nat] /\ Timer!Distinct(timers)
      BY TimersMean DEF ServerInv, TypeOK
    <2>2. QED
      BY <1>1, <1>2, <2>1, AdjustedElements
  <1>4. /\ unread' \in [Conns -> Nat]
        /\ \A d \in Conns : unread'[d] <= unread[d] /\ (d # c => unread'[d] = unread[d])
    BY <1>1, <1>2 DEF ServerInv, TypeOK
  <1>5. TypeOK'
    BY <1>1, <1>2, <1>3, <1>4 DEF ServerInv, TypeOK
  <1>7. ConnInv' /\ AlarmInv'
    BY <1>1 DEF ServerInv, ConnInv, AlarmInv
  <1>8. NeverBlocks'
    <2> SUFFICES ASSUME NEW s \in batch'
                 PROVE  Readable(s)'
      BY DEF NeverBlocks
    <2>1. s \in batch /\ s # fd /\ Readable(s)
      BY <1>1 DEF ServerInv, NeverBlocks
    <2>2. CASE s \in Fds /\ slot[s] # NoConn
      <3>1. slot[s] \in Conns /\ slot[s] # c
        BY <1>2, <2>1, <2>2, OpenFacts
      <3>2. QED
        BY <1>1, <1>4, <2>1, <3>1 DEF Readable, HasInput
    <2>3. CASE s \notin Fds \/ slot[s] = NoConn
      BY <1>1, <2>1, <2>3 DEF Readable
    <2>4. QED
      BY <2>2, <2>3
  <1>9. OneTimerPerClient'
    BY <1>1, <1>3, TimersMean, TimersNext DEF ServerInv
  <1>10. IdleInv'
    BY <1>1, <1>2 DEF ServerInv, TypeOK, IdleInv, c
  <1>11. QED
    BY <1>5, <1>7, <1>8, <1>9, <1>10 DEF ServerInv

\* What cb_func does to the descriptors of closed and to their clients, and what it
\* leaves alone.
LEMMA CloseEffects ==
  ASSUME ServerInv, NEW closed \in SUBSET {fd \in Fds : slot[fd] # NoConn}, Close(closed)
  PROVE  /\ slot' = [fd \in Fds |-> IF fd \in closed THEN NoConn ELSE slot[fd]]
         /\ ready' \subseteq ready
         /\ peer' \in [Conns -> {"new", "open", "closed", "gone"}]
         /\ unread' \in [Conns -> Nat] /\ idle' \in [Conns -> 0 .. Limit]
         /\ \A c \in Conns : unread'[c] <= unread[c] /\ (peer[c] # "new" => peer'[c] # "new")
         /\ \A fd \in Fds \ closed : slot[fd] # NoConn =>
              /\ slot'[fd] = slot[fd]
              /\ peer'[slot[fd]] = peer[slot[fd]]
              /\ unread'[slot[fd]] = unread[slot[fd]]
              /\ idle'[slot[fd]] = idle[slot[fd]]
  <1> USE TimerServerAssumption, LimitPositive
  <1> DEFINE gone == {slot[fd] : fd \in closed}
  <1>1. /\ slot' = [fd \in Fds |-> IF fd \in closed THEN NoConn ELSE slot[fd]]
        /\ ready' = ready \ closed
        /\ peer' = [c \in Conns |-> IF c \in gone THEN "gone" ELSE peer[c]]
        /\ unread' = [c \in Conns |-> IF c \in gone THEN 0 ELSE unread[c]]
        /\ idle' = [c \in Conns |-> IF c \in gone THEN 0 ELSE idle[c]]
    BY DEF Close
  <1>2. ASSUME NEW fd \in Fds \ closed, slot[fd] # NoConn
        PROVE  slot[fd] \in Conns /\ slot[fd] \notin gone
    BY <1>2, OpenFacts
  <1> HIDE DEF gone
  <1>3. ASSUME NEW fd \in Fds \ closed, slot[fd] # NoConn
        PROVE  /\ slot'[fd] = slot[fd]
               /\ peer'[slot[fd]] = peer[slot[fd]]
               /\ unread'[slot[fd]] = unread[slot[fd]]
               /\ idle'[slot[fd]] = idle[slot[fd]]
    BY <1>1, <1>2, <1>3
  <1>4. /\ peer' \in [Conns -> {"new", "open", "closed", "gone"}]
        /\ unread' \in [Conns -> Nat] /\ idle' \in [Conns -> 0 .. Limit]
    BY <1>1 DEF ServerInv, TypeOK
  <1>5. \A c \in Conns : unread'[c] <= unread[c] /\ (peer[c] # "new" => peer'[c] # "new")
    BY <1>1 DEF ServerInv, TypeOK
  <1>6. QED
    BY <1>1, <1>3, <1>4, <1>5

\* A close whose timers are deleted with it keeps the invariant: recv found the end
\* of a connection, or tick() the expiry of some.
LEMMA CloseServerInv ==
  ASSUME ServerInv, NEW closed \in SUBSET {fd \in Fds : slot[fd] # NoConn}, Close(closed),
         batch' \subseteq batch \ closed, phase' \in {"waiting", "events", "stopped"},
         timers' \in Seq(Fds), Timer!Distinct(timers'),
         Timer!Elements(timers') = Timer!Elements(timers) \ closed,
         left' \in [Fds -> 0 .. Limit],
         \A fd \in Fds \ closed : left'[fd] = left[fd],
         UNCHANGED <<backlog, pipe, stop>>,
         alarm' \in 0 .. Slot, timeout' \in BOOLEAN, AlarmInv'
  PROVE  ServerInv'
  <1> USE TimerServerAssumption, LimitPositive
  <1>1. /\ slot' = [fd \in Fds |-> IF fd \in closed THEN NoConn ELSE slot[fd]]
        /\ ready' \subseteq ready
        /\ peer' \in [Conns -> {"new", "open", "closed", "gone"}]
        /\ unread' \in [Conns -> Nat] /\ idle' \in [Conns -> 0 .. Limit]
        /\ \A c \in Conns : unread'[c] <= unread[c] /\ (peer[c] # "new" => peer'[c] # "new")
    BY CloseEffects
  <1>2. ASSUME NEW fd \in Fds \ closed, slot[fd] # NoConn
        PROVE  /\ slot'[fd] = slot[fd]
               /\ peer'[slot[fd]] = peer[slot[fd]]
               /\ unread'[slot[fd]] = unread[slot[fd]]
               /\ idle'[slot[fd]] = idle[slot[fd]]
    BY <1>2, CloseEffects
  <1>3. slot \in [Fds -> Conns \cup {NoConn}] /\ backlog \in Seq(Conns)
    BY DEF ServerInv, TypeOK
  <1>4. TypeOK'
    BY <1>1, <1>3 DEF ServerInv, TypeOK
  <1>6. ConnInv'
    <2>1. \A fd, gd \in Fds : slot'[fd] # NoConn /\ slot'[fd] = slot'[gd] => fd = gd
      BY <1>1, <1>3 DEF ServerInv, ConnInv
    <2>2. ASSUME NEW fd \in Fds, slot'[fd] # NoConn
          PROVE  peer'[slot'[fd]] # "new"
      <3>1. slot'[fd] = slot[fd] /\ slot[fd] \in Conns
        BY <1>1, <1>3, <2>2
      <3>2. peer[slot[fd]] # "new"
        BY <2>2, <3>1 DEF ServerInv, ConnInv
      <3>3. QED
        BY <1>1, <3>1, <3>2
    <2>3. ASSUME NEW i \in 1 .. Len(backlog')
          PROVE  /\ peer'[backlog'[i]] # "new"
                 /\ \A fd \in Fds : slot'[fd] # backlog'[i]
                 /\ \A j \in 1 .. Len(backlog') : i < j => backlog'[i] # backlog'[j]
      <3>1. backlog[i] \in Conns /\ backlog[i] # NoConn
        BY <1>3
      <3>2. QED
        BY <1>1, <3>1 DEF ServerInv, ConnInv
    <2>4. QED
      BY <2>1, <2>2, <2>3 DEF ConnInv
  <1>7. NeverBlocks'
    <2> SUFFICES ASSUME NEW s \in batch'
                 PROVE  Readable(s)'
      BY DEF NeverBlocks
    <2>1. s \in batch /\ s \notin closed /\ Readable(s)
      BY DEF ServerInv, NeverBlocks
    <2>2. CASE s \in Fds
      <3>1. s \in Fds \ closed /\ slot[s] # NoConn /\ HasInput(slot[s])
        BY <2>1, <2>2 DEF Readable
      <3>2. slot'[s] # NoConn /\ (unread'[slot'[s]] > 0 \/ peer'[slot'[s]] = "closed")
        BY <1>2, <3>1 DEF HasInput
      <3>3. QED
        BY <2>2, <3>2 DEF Readable, HasInput
    <2>3. CASE s \notin Fds
      BY <2>1, <2>3 DEF Readable
    <2>4. QED
      BY <2>2, <2>3
  <1>8. OneTimerPerClient'
    <2>1. {fd \in Fds : slot'[fd] # NoConn} = {fd \in Fds : slot[fd] # NoConn} \ closed
      BY <1>1
    <2>2. QED
      BY <2>1, TimersMean, TimersNext DEF ServerInv
  <1>9. IdleInv'
    <2> SUFFICES ASSUME NEW fd \in Fds, slot'[fd] # NoConn
                 PROVE  left'[fd] + idle'[slot'[fd]] = Limit
      BY DEF IdleInv
    <2>1. fd \in Fds \ closed /\ slot[fd] # NoConn
      BY <1>1
    <2>2. QED
      BY <1>2, <2>1 DEF ServerInv, IdleInv
  <1>10. QED
    BY <1>4, <1>6, <1>7, <1>8, <1>9 DEF ServerInv

\* recv finds the end of the connection.
LEMMA ReceiveEndServerInv ==
  ASSUME ServerInv, NEW fd \in Fds, ReceiveEnd(fd)
  PROVE  ServerInv'
  <1> USE TimerServerAssumption, LimitPositive
  <1>1. /\ phase' = phase /\ batch' = batch \ {fd} /\ slot[fd] # NoConn
        /\ Close({fd})
        /\ left' = [left EXCEPT ![fd] = 0]
        /\ timers' = List!Without(timers, fd)
        /\ UNCHANGED <<backlog, alarm, pipe, timeout, stop>>
    BY DEF ReceiveEnd, Handling, NextEvent, DelTimer, kernelVars
  <1>2. /\ timers' \in Seq(Fds) /\ Timer!Distinct(timers')
        /\ Timer!Elements(timers') = Timer!Elements(timers) \ {fd}
    <2>1. timers \in Seq(Fds) /\ Timer!Distinct(timers) /\ fd \in Timer!Elements(timers)
      BY <1>1, TimersMean DEF ServerInv, TypeOK
    <2>2. QED
      BY <1>1, <2>1, WithoutElements
  <1>3. left' \in [Fds -> 0 .. Limit] /\ \A gd \in Fds \ {fd} : left'[gd] = left[gd]
    BY <1>1 DEF ServerInv, TypeOK
  <1>4. AlarmInv'
    BY <1>1 DEF ServerInv, AlarmInv
  <1>5. {fd} \in SUBSET {gd \in Fds : slot[gd] # NoConn}
    BY <1>1
  <1>6. alarm' \in 0 .. Slot /\ timeout' \in BOOLEAN /\ phase' \in {"waiting", "events", "stopped"}
    BY <1>1 DEF ServerInv, TypeOK
  <1>7. QED
    BY <1>1, <1>2, <1>3, <1>4, <1>5, <1>6, CloseServerInv

\* The end of the events: tick() closes what is due, and the alarm takes over from
\* timeout.
LEMMA LoopEndServerInv ==
  ASSUME ServerInv, LoopEnd
  PROVE  ServerInv'
  <1> USE TimerServerAssumption, LimitPositive
  <1>1. /\ phase = "events" /\ phase' \in {"waiting", "events", "stopped"}
        /\ UNCHANGED <<batch, left, backlog, pipe, stop>>
        /\ batch = {}
    BY DEF LoopEnd
  <1>2. CASE timeout
    <2>1. /\ Close(Due) /\ alarm' = Slot /\ timeout' = FALSE
          /\ timers' = SubSeq(timers, DueCount + 1, Len(timers))
      BY <1>2 DEF LoopEnd, TimerHandler, NextAlarm
    <2>2. /\ timers' \in Seq(Fds) /\ Timer!Distinct(timers')
          /\ Timer!Elements(timers') = Timer!Elements(timers) \ Due
          /\ Due \subseteq Timer!Elements(timers)
      <3>1. timers \in Seq(Fds) /\ left \in [Fds -> Nat] /\ Timer!Distinct(timers)
        BY TimersMean DEF ServerInv, TypeOK
      <3>2. QED
        BY <2>1, <3>1, TickElements
    <2>3. Due \in SUBSET {fd \in Fds : slot[fd] # NoConn}
      BY <2>2, TimersMean DEF ServerInv
    <2>4. AlarmInv'
      BY <1>1, <1>2, <2>1 DEF ServerInv, AlarmInv
    <2>5. alarm' \in 0 .. Slot /\ timeout' \in BOOLEAN
      <3>1. Slot \in 0 .. Slot
        OBVIOUS
      <3>2. QED
        BY <2>1, <3>1
    <2>6. left' \in [Fds -> 0 .. Limit] /\ \A fd \in Fds \ Due : left'[fd] = left[fd]
      BY <1>1 DEF ServerInv, TypeOK
    <2>7. batch' \subseteq batch \ Due
      BY <1>1
    <2>8. QED
      BY <1>1, <2>1, <2>2, <2>3, <2>4, <2>5, <2>6, <2>7, CloseServerInv
  <1>3. CASE ~timeout
    <2>1. UNCHANGED <<peer, unread, idle, slot, timers, ready, alarm, timeout>>
      BY <1>3 DEF LoopEnd
    <2>2. TypeOK' /\ AlarmInv'
      BY <1>1, <2>1 DEF ServerInv, TypeOK, AlarmInv
    <2>3. ConnInv' /\ IdleInv' /\ OneTimerPerClient'
      BY <1>1, <2>1 DEF ServerInv, ConnInv, IdleInv, OneTimerPerClient
    <2>4. NeverBlocks'
      BY <1>1, <2>1 DEF ServerInv, NeverBlocks
    <2>5. QED
      BY <2>2, <2>3, <2>4 DEF ServerInv
  <1>4. QED
    BY <1>2, <1>3

-----------------------------------------------------------------------------
(* The clients, the signals and the clock.                                 *)

\* A client connects.
LEMMA ConnectServerInv ==
  ASSUME ServerInv, NEW c \in Conns, Connect(c)
  PROVE  ServerInv'
  <1>1. /\ peer[c] = "new"
        /\ peer' = [peer EXCEPT ![c] = "open"]
        /\ backlog' = Append(backlog, c)
        /\ ready' = ready \cup {"listen"}
        /\ UNCHANGED <<loopVars, tableVars, alarm, pipe, unread, idle>>
    BY DEF Connect
  <1>2. /\ backlog \in Seq(Conns) /\ backlog' \in Seq(Conns) /\ Len(backlog') = Len(backlog) + 1
        /\ \A i \in 1 .. Len(backlog) : backlog'[i] = backlog[i]
        /\ backlog'[Len(backlog) + 1] = c
    BY <1>1, AppendProperties DEF ServerInv, TypeOK
  <1>3. /\ \A fd \in Fds : slot[fd] = NoConn \/ slot[fd] # c
        /\ \A i \in 1 .. Len(backlog) : backlog[i] # c
    BY <1>1 DEF ServerInv, ConnInv
  <1>4. \A d \in Conns : d # c => peer'[d] = peer[d]
    BY <1>1 DEF ServerInv, TypeOK
  <1>5. peer'[c] = "open"
    BY <1>1 DEF ServerInv, TypeOK
  <1>6. TypeOK'
    BY <1>1, <1>2 DEF ServerInv, TypeOK, Sources, loopVars, tableVars
  <1>7. AlarmInv' /\ IdleInv' /\ OneTimerPerClient'
    BY <1>1 DEF ServerInv, AlarmInv, IdleInv, OneTimerPerClient, loopVars, tableVars
  <1>8. ConnInv'
    <2>1. slot' = slot /\ slot \in [Fds -> Conns \cup {NoConn}]
      BY <1>1 DEF ServerInv, TypeOK, tableVars
    <2>2. \A fd, gd \in Fds : slot'[fd] # NoConn /\ slot'[fd] = slot'[gd] => fd = gd
      BY <2>1 DEF ServerInv, ConnInv
    <2>3. \A fd \in Fds : slot'[fd] # NoConn => peer'[slot'[fd]] # "new"
      BY <1>3, <1>4, <2>1 DEF ServerInv, ConnInv
    <2>4. ASSUME NEW i \in 1 .. Len(backlog')
          PROVE  /\ peer'[backlog'[i]] # "new"
                 /\ \A fd \in Fds : slot'[fd] # backlog'[i]
                 /\ \A j \in 1 .. Len(backlog') : i < j => backlog'[i] # backlog'[j]
      <3>1. CASE i = Len(backlog) + 1
        <4>1. backlog'[i] = c
          BY <1>2, <3>1
        <4>2. \A fd \in Fds : slot'[fd] # c
          BY <1>3, <2>1, TimerServerAssumption
        <4>3. \A j \in 1 .. Len(backlog') : ~(i < j)
          BY <1>2, <3>1
        <4>4. QED
          BY <1>5, <4>1, <4>2, <4>3
      <3>2. CASE i # Len(backlog) + 1
        <4>1. i \in 1 .. Len(backlog) /\ backlog'[i] = backlog[i] /\ backlog[i] \in Conns
          BY <1>2, <3>2
        <4>2. peer'[backlog[i]] # "new"
          BY <1>3, <1>4, <4>1 DEF ServerInv, ConnInv
        <4>3. \A fd \in Fds : slot'[fd] # backlog[i]
          BY <2>1, <4>1 DEF ServerInv, ConnInv
        <4>4. ASSUME NEW j \in 1 .. Len(backlog'), i < j
              PROVE  backlog[i] # backlog'[j]
          <5>1. CASE j = Len(backlog) + 1
            BY <1>2, <1>3, <4>1, <5>1
          <5>2. CASE j # Len(backlog) + 1
            <6>1. j \in 1 .. Len(backlog) /\ backlog'[j] = backlog[j]
              BY <1>2, <5>2
            <6>2. QED
              BY <4>1, <4>4, <6>1 DEF ServerInv, ConnInv
          <5>3. QED
            BY <5>1, <5>2
        <4>5. QED
          BY <4>1, <4>2, <4>3, <4>4
      <3>3. QED
        BY <3>1, <3>2
    <2>5. QED
      BY <2>2, <2>3, <2>4 DEF ConnInv
  <1>9. NeverBlocks'
    <2> SUFFICES ASSUME NEW s \in batch'
                 PROVE  Readable(s)'
      BY DEF NeverBlocks
    <2>1. s \in batch /\ Readable(s) /\ slot' = slot /\ pipe' = pipe /\ unread' = unread
      BY <1>1 DEF ServerInv, NeverBlocks, loopVars, tableVars
    <2>2. CASE s = "listen"
      BY <1>2, <2>2 DEF Readable
    <2>3. CASE s # "listen" /\ s \in Fds /\ slot[s] # NoConn /\ HasInput(slot[s])
      <3>1. slot[s] \in Conns /\ slot[s] # c
        BY <1>3, <2>3 DEF ServerInv, TypeOK
      <3>2. QED
        BY <1>4, <2>1, <2>3, <3>1 DEF Readable, HasInput
    <2>4. CASE s = "signals" /\ pipe # {}
      BY <2>1, <2>4 DEF Readable
    <2>5. QED
      BY <2>1, <2>2, <2>3, <2>4 DEF Readable
  <1>10. QED
    BY <1>6, <1>7, <1>8, <1>9 DEF ServerInv

\* More input makes nothing unreadable.
LEMMA MoreInput ==
  ASSUME ServerInv, UNCHANGED <<batch, slot, backlog, pipe>>,
         \A c \in Conns : HasInput(c) => HasInput(c)'
  PROVE  NeverBlocks'
  <1> SUFFICES ASSUME NEW s \in batch
               PROVE  Readable(s)'
    BY DEF NeverBlocks
  <1>1. Readable(s)
    BY DEF ServerInv, NeverBlocks
  <1>2. CASE s \in Fds /\ slot[s] # NoConn /\ HasInput(slot[s])
    <2>1. slot[s] \in Conns
      BY <1>2 DEF ServerInv, TypeOK
    <2>2. unread'[slot[s]] > 0 \/ peer'[slot[s]] = "closed"
      BY <1>2, <2>1 DEF HasInput
    <2>3. QED
      BY <1>2, <2>2 DEF Readable, HasInput
  <1>3. QED
    BY <1>1, <1>2 DEF Readable

\* A client sends.
LEMMA ClientSendServerInv ==
  ASSUME ServerInv, NEW c \in Conns, ClientSend(c)
  PROVE  ServerInv'
  <1> USE TimerServerAssumption
  <1>1. /\ unread' = [unread EXCEPT ![c] = @ + 1]
        /\ ready' = ready \cup {fd \in Fds : slot[fd] = c}
        /\ UNCHANGED <<loopVars, tableVars, kernelVars, peer, idle>>
    BY DEF ClientSend, Arrival
  <1>3. unread' \in [Conns -> Nat]
    BY <1>1 DEF ServerInv, TypeOK
  <1>4. ready' \subseteq Sources
    BY <1>1 DEF ServerInv, TypeOK, Sources
  <1>5. TypeOK'
    BY <1>1, <1>3, <1>4 DEF ServerInv, TypeOK, loopVars, tableVars, kernelVars
  <1>7. ConnInv' /\ IdleInv' /\ AlarmInv' /\ OneTimerPerClient'
    BY <1>1 DEF ServerInv, ConnInv, IdleInv, AlarmInv, OneTimerPerClient,
                loopVars, tableVars, kernelVars
  <1>8. NeverBlocks'
    <2>1. \A d \in Conns : HasInput(d) => HasInput(d)'
      BY <1>1 DEF ServerInv, TypeOK, HasInput
    <2>2. QED
      BY <1>1, <2>1, MoreInput DEF loopVars, tableVars, kernelVars
  <1>9. QED
    BY <1>5, <1>7, <1>8 DEF ServerInv

\* A client closes.
LEMMA ClientCloseServerInv ==
  ASSUME ServerInv, NEW c \in Conns, ClientClose(c)
  PROVE  ServerInv'
  <1> USE TimerServerAssumption
  <1>1. /\ peer' = [peer EXCEPT ![c] = "closed"]
        /\ unread' \in {unread, [unread EXCEPT ![c] = 0]}
        /\ ready' = ready \cup {fd \in Fds : slot[fd] = c}
        /\ UNCHANGED <<loopVars, tableVars, kernelVars, idle>>
    BY DEF ClientClose, Arrival
  <1>2. /\ unread' \in [Conns -> Nat]
        /\ \A d \in Conns : d # c => unread'[d] = unread[d]
    BY <1>1 DEF ServerInv, TypeOK
  <1>3. /\ peer' \in [Conns -> {"new", "open", "closed", "gone"}]
        /\ peer'[c] = "closed" /\ \A d \in Conns : d # c => peer'[d] = peer[d]
    BY <1>1 DEF ServerInv, TypeOK
  <1>4. ready' \subseteq Sources
    BY <1>1 DEF ServerInv, TypeOK, Sources
  <1>5. TypeOK'
    BY <1>1, <1>2, <1>3, <1>4 DEF ServerInv, TypeOK, loopVars, tableVars, kernelVars
  <1>7. IdleInv' /\ AlarmInv' /\ OneTimerPerClient'
    BY <1>1 DEF ServerInv, IdleInv, AlarmInv, OneTimerPerClient,
                loopVars, tableVars, kernelVars
  <1>8. ConnInv'
    <2>1. slot' = slot /\ backlog' = backlog
      BY <1>1 DEF tableVars, kernelVars
    <2>2. /\ slot \in [Fds -> Conns \cup {NoConn}]
          /\ \A i \in 1 .. Len(backlog) : backlog[i] \in Conns
      BY DEF ServerInv, TypeOK
    <2>3. \A d \in Conns : peer[d] # "new" => peer'[d] # "new"
      BY <1>3
    <2>4. QED
      BY <2>1, <2>2, <2>3 DEF ServerInv, ConnInv
  <1>9. NeverBlocks'
    <2>1. \A d \in Conns : HasInput(d) => HasInput(d)'
      BY <1>2, <1>3 DEF HasInput
    <2>2. QED
      BY <1>1, <2>1, MoreInput DEF loopVars, tableVars, kernelVars
  <1>10. QED
    BY <1>5, <1>7, <1>8, <1>9 DEF ServerInv

\* A signal arrives while none of its kind is on its way.
LEMMA TerminateServerInv ==
  ASSUME ServerInv, Terminate
  PROVE  ServerInv'
  <1>1. /\ pipe' = pipe \cup {"TERM"} /\ ready' = ready \cup {"signals"}
        /\ UNCHANGED <<loopVars, tableVars, clientVars, backlog, alarm>>
    BY DEF Terminate, Signal
  <1>2. TypeOK' /\ AlarmInv'
    BY <1>1 DEF ServerInv, TypeOK, AlarmInv, Sources,
                loopVars, tableVars, clientVars
  <1>3. ConnInv' /\ IdleInv' /\ OneTimerPerClient'
    BY <1>1 DEF ServerInv, ConnInv, IdleInv, OneTimerPerClient,
                loopVars, tableVars, clientVars
  <1>4. NeverBlocks'
    BY <1>1 DEF ServerInv, NeverBlocks, Readable, HasInput, loopVars, tableVars, clientVars
  <1>5. QED
    BY <1>2, <1>3, <1>4 DEF ServerInv

\* Time passes for the timers and for the silence of the clients alike.
LEMMA WaitServerInv ==
  ASSUME ServerInv, Wait
  PROVE  ServerInv'
  <1> USE TimerServerAssumption, LimitPositive
  <1>1. /\ left' = [fd \in Fds |-> IF left[fd] = 0 THEN 0 ELSE left[fd] - 1]
        /\ idle' = [c \in Conns |-> IF c \in {slot[fd] : fd \in Fds} /\ idle[c] < Limit
                                       THEN idle[c] + 1 ELSE idle[c]]
        /\ alarm' = IF alarm = 0 THEN 0 ELSE alarm - 1
        /\ UNCHANGED <<loopVars, slot, timers, peer, unread, backlog>>
    BY DEF Wait
  <1>2. \/ alarm = 1 /\ pipe' = pipe \cup {"ALRM"} /\ ready' = ready \cup {"signals"}
        \/ alarm # 1 /\ pipe' = pipe /\ ready' = ready
    BY DEF Wait, Signal
  <1>3. /\ left' \in [Fds -> 0 .. Limit] /\ idle' \in [Conns -> 0 .. Limit]
        /\ alarm' \in 0 .. Slot
    BY <1>1 DEF ServerInv, TypeOK
  <1>4. pipe' \subseteq {"ALRM", "TERM"} /\ ready' \subseteq Sources /\ pipe \subseteq pipe'
    BY <1>2 DEF ServerInv, TypeOK, Sources
  <1>5. TypeOK'
    BY <1>1, <1>3, <1>4 DEF ServerInv, TypeOK, loopVars
  <1>6. ConnInv' /\ OneTimerPerClient'
    BY <1>1 DEF ServerInv, ConnInv, OneTimerPerClient
  <1>7. NeverBlocks'
    BY <1>1, <1>4 DEF ServerInv, NeverBlocks, Readable, HasInput, loopVars
  <1>8. IdleInv'
    <2> SUFFICES ASSUME NEW fd \in Fds, slot[fd] # NoConn
                 PROVE  left'[fd] + idle'[slot[fd]] = Limit
      BY <1>1 DEF IdleInv
    <2>1. slot[fd] \in Conns /\ slot[fd] \in {slot[gd] : gd \in Fds}
      BY DEF ServerInv, TypeOK
    <2>2. /\ left[fd] \in Nat /\ idle[slot[fd]] \in Nat
          /\ left[fd] + idle[slot[fd]] = Limit
      <3>1. left \in [Fds -> 0 .. Limit] /\ idle \in [Conns -> 0 .. Limit]
        BY DEF ServerInv, TypeOK
      <3>2. left[fd] + idle[slot[fd]] = Limit
        BY DEF ServerInv, IdleInv
      <3>3. left[fd] \in 0 .. Limit /\ idle[slot[fd]] \in 0 .. Limit
        BY <2>1, <3>1
      <3>4. QED
        BY <3>2, <3>3
    <2>3. CASE left[fd] = 0
      BY <1>1, <2>1, <2>2, <2>3
    <2>4. CASE left[fd] # 0
      <3>1. idle[slot[fd]] < Limit /\ left[fd] - 1 + (idle[slot[fd]] + 1) = Limit
        BY <2>2, <2>4
      <3>2. left'[fd] = left[fd] - 1 /\ idle'[slot[fd]] = idle[slot[fd]] + 1
        BY <1>1, <2>1, <2>4, <3>1
      <3>3. QED
        BY <3>1, <3>2
    <2>5. QED
      BY <2>3, <2>4
  <1>9. AlarmInv'
    BY <1>1, <1>2 DEF ServerInv, TypeOK, AlarmInv, loopVars
  <1>10. QED
    BY <1>5, <1>6, <1>7, <1>8, <1>9 DEF ServerInv

-----------------------------------------------------------------------------
(* The invariant.                                                          *)

\* The invariant is inductive.
LEMMA NextServerInv == ServerInv /\ [Next]_vars => ServerInv'
  <1> SUFFICES ASSUME ServerInv, [Next]_vars
               PROVE  ServerInv'
    OBVIOUS
  <1>1. CASE EpollWait
    BY <1>1, EpollWaitServerInv
  <1>2. CASE Accept
    BY <1>2, AcceptServerInv
  <1>3. CASE ReadSignals
    BY <1>3, ReadSignalsServerInv
  <1>4. ASSUME NEW fd \in Fds, Receive(fd) \/ ReceiveEnd(fd)
        PROVE  ServerInv'
    BY <1>4, ReceiveServerInv, ReceiveEndServerInv
  <1>5. CASE LoopEnd
    BY <1>5, LoopEndServerInv
  <1>6. ASSUME NEW c \in Conns, Connect(c) \/ ClientSend(c) \/ ClientClose(c)
        PROVE  ServerInv'
    BY <1>6, ConnectServerInv, ClientSendServerInv, ClientCloseServerInv
  <1>7. CASE Terminate
    BY <1>7, TerminateServerInv
  <1>8. CASE Wait
    BY <1>8, WaitServerInv
  <1>9. CASE UNCHANGED vars
    <2> USE <1>9 DEF ServerInv, vars, loopVars, tableVars, clientVars, kernelVars
    <2>1. TypeOK' /\ AlarmInv'
      BY DEF TypeOK, AlarmInv
    <2>2. ConnInv' /\ IdleInv' /\ OneTimerPerClient'
      BY DEF ConnInv, IdleInv, OneTimerPerClient
    <2>3. NeverBlocks'
      BY DEF NeverBlocks, Readable, HasInput
    <2>4. QED
      BY <2>1, <2>2, <2>3
  <1>10. QED
    BY <1>1, <1>2, <1>3, <1>4, <1>5, <1>6, <1>7, <1>8, <1>9
       DEF Next, ServerStep, Environment

\* The inductive invariant.
LEMMA ServerInvariant == Spec => []ServerInv
  BY InitServerInv, NextServerInv, PTL DEF Spec

-----------------------------------------------------------------------------
(* The order of the timers.                                                *)

\* The list is sorted by the time that is left.
OrderInv == Timer!Ascending(timers, left)

\* Signals that wait in the socket pair are reported, or about to be read: epoll does
\* not report them twice.
SignalInv ==
  /\ phase # "events" => batch = {}
  /\ pipe # {} => "signals" \in ready \cup batch

\* Timers that were not looked at are in order as long as their times are.
LEMMA AscendingElsewhere ==
  ASSUME NEW s \in Seq(Fds), NEW f \in [Fds -> Nat], NEW g \in [Fds -> Nat],
         Timer!Ascending(s, f), \A i \in 1 .. Len(s) : g[s[i]] = f[s[i]]
  PROVE  Timer!Ascending(s, g)
  BY DEF Timer!Ascending

\* A new timer expires last.
LEMMA AcceptOrderInv ==
  ASSUME ServerInv, OrderInv, Accept
  PROVE  OrderInv'
  <1> USE LimitPositive
  <1>1. PICK fd \in Fds :
          /\ slot[fd] = NoConn
          /\ timers' = List!Insert(timers, fd, Limit)
          /\ left' = [left EXCEPT ![fd] = Limit]
    BY DEF Accept
  <1>2. /\ timers \in Seq(Fds) /\ left \in [Fds -> Nat]
        /\ fd \notin Timer!Elements(timers)
    BY <1>1, TimersMean DEF ServerInv, TypeOK
  <1>3. PICK k \in 0 .. Len(timers) :
          /\ Timer!Insert(timers, fd, Limit) = Timer!Spliced(timers, k, fd)
          /\ Timer!Divides(timers, k, left, Limit)
    BY <1>2, Timer!InsertDivides, ListAssumption
  <1>4. Timer!Ascending(Timer!Spliced(timers, k, fd), [left EXCEPT ![fd] = Limit])
    BY <1>2, <1>3, Timer!SplicedAscending, ListAssumption DEF OrderInv
  <1>5. QED
    BY <1>1, <1>3, <1>4, SameList DEF OrderInv

\* So does the timer of a client that sent something.
LEMMA ReceiveOrderInv ==
  ASSUME ServerInv, OrderInv, NEW fd \in Fds, Receive(fd)
  PROVE  OrderInv'
  <1> USE LimitPositive
  <1>1. /\ slot[fd] # NoConn
        /\ left' = [left EXCEPT ![fd] = Limit]
        /\ timers' = List!Adjusted(timers, fd, Limit)
    BY DEF Receive, AdjustTimer
  <1>2. /\ timers \in Seq(Fds) /\ left \in [Fds -> Nat] /\ left[fd] <= Limit
        /\ Timer!Distinct(timers) /\ fd \in Timer!Elements(timers)
    BY <1>1, OpenFacts, TimersMean DEF ServerInv, TypeOK
  <1> DEFINE c == Timer!Without(timers, fd)
  <1>3. PICK k \in 0 .. Len(c) :
          /\ Timer!Adjusted(timers, fd, Limit) = Timer!Spliced(c, k, fd)
          /\ Timer!Divides(c, k, left, Limit)
    BY <1>2, Timer!AdjustedDivides, ListAssumption DEF OrderInv
  <1>4. PICK p \in 1 .. Len(timers) : timers[p] = fd /\ c = Timer!Cut(timers, p)
    BY <1>2, Timer!PlaceProperties, ListAssumption
  <1> HIDE DEF c
  <1>5. /\ c \in Seq(Fds) /\ fd \notin Timer!Elements(c) /\ Timer!Ascending(c, left)
    BY <1>2, <1>4, Timer!CutProperties, Timer!CutElements, Timer!CutAscending, ListAssumption
       DEF OrderInv
  <1>6. Timer!Ascending(Timer!Spliced(c, k, fd), [left EXCEPT ![fd] = Limit])
    BY <1>2, <1>3, <1>5, Timer!SplicedAscending, ListAssumption
  <1>7. QED
    BY <1>1, <1>3, <1>6, SameList DEF OrderInv

\* Without a timer the others are in order.
LEMMA ReceiveEndOrderInv ==
  ASSUME ServerInv, OrderInv, NEW fd \in Fds, ReceiveEnd(fd)
  PROVE  OrderInv'
  <1> USE LimitPositive
  <1>1. /\ slot[fd] # NoConn
        /\ left' = [left EXCEPT ![fd] = 0]
        /\ timers' = List!Without(timers, fd)
    BY DEF ReceiveEnd, DelTimer
  <1>2. /\ timers \in Seq(Fds) /\ left \in [Fds -> Nat]
        /\ Timer!Distinct(timers) /\ fd \in Timer!Elements(timers)
    BY <1>1, OpenFacts, TimersMean DEF ServerInv, TypeOK
  <1> DEFINE c == Timer!Without(timers, fd)
  <1>3. PICK p \in 1 .. Len(timers) : timers[p] = fd /\ c = Timer!Cut(timers, p)
    BY <1>2, Timer!PlaceProperties, ListAssumption
  <1> HIDE DEF c
  <1>4. /\ c \in Seq(Fds) /\ fd \notin Timer!Elements(c) /\ Timer!Ascending(c, left)
    BY <1>2, <1>3, Timer!CutProperties, Timer!CutElements, Timer!CutAscending, ListAssumption
       DEF OrderInv
  <1>5. left' \in [Fds -> Nat] /\ \A i \in 1 .. Len(c) : left'[c[i]] = left[c[i]]
    BY <1>1, <1>2, <1>4 DEF Timer!Elements
  <1>6. Timer!Ascending(c, left')
    BY <1>2, <1>4, <1>5, AscendingElsewhere
  <1>7. QED
    BY <1>1, <1>6, SameList DEF OrderInv, c

\* tick() takes a front of the list.
LEMMA LoopEndOrderInv ==
  ASSUME ServerInv, OrderInv, LoopEnd
  PROVE  OrderInv'
  <1>1. left' = left
    BY DEF LoopEnd
  <1>2. CASE timeout
    <2>1. timers' = SubSeq(timers, DueCount + 1, Len(timers))
      BY <1>2 DEF LoopEnd, TimerHandler
    <2>2. timers \in Seq(Fds) /\ DueCount \in 0 .. Len(timers)
      BY DueProperties, LimitPositive DEF ServerInv, TypeOK
    <2>3. /\ Len(timers') = Len(timers) - DueCount
          /\ \A i \in 1 .. Len(timers') : timers'[i] = timers[DueCount + i]
      BY <2>1, <2>2, SubSeqProperties
    <2>4. ASSUME NEW i \in 1 .. Len(timers'), NEW j \in 1 .. Len(timers'), i < j
          PROVE  left'[timers'[i]] <= left'[timers'[j]]
      <3>1. /\ DueCount + i \in 1 .. Len(timers) /\ DueCount + j \in 1 .. Len(timers)
            /\ DueCount + i < DueCount + j
        BY <2>2, <2>3, <2>4
      <3>2. left[timers[DueCount + i]] <= left[timers[DueCount + j]]
        BY <3>1 DEF OrderInv, Timer!Ascending
      <3>3. QED
        BY <1>1, <2>3, <3>2
    <2>5. QED
      BY <2>4 DEF OrderInv, Timer!Ascending
  <1>3. CASE ~timeout
    BY <1>1, <1>3 DEF LoopEnd, OrderInv
  <1>4. QED
    BY <1>2, <1>3

\* Time passes for all timers alike.
LEMMA WaitOrderInv ==
  ASSUME ServerInv, OrderInv, Wait
  PROVE  OrderInv'
  <1>1. /\ left' = [fd \in Fds |-> IF left[fd] = 0 THEN 0 ELSE left[fd] - 1]
        /\ timers' = timers
    BY DEF Wait
  <1>2. timers \in Seq(Fds) /\ left \in [Fds -> Nat]
    BY LimitPositive DEF ServerInv, TypeOK
  <1>3. ASSUME NEW i \in 1 .. Len(timers), NEW j \in 1 .. Len(timers), i < j
        PROVE  left'[timers[i]] <= left'[timers[j]]
    <2>1. left[timers[i]] <= left[timers[j]]
      BY <1>3 DEF OrderInv, Timer!Ascending
    <2>2. /\ timers[i] \in Fds /\ timers[j] \in Fds
          /\ left[timers[i]] \in Nat /\ left[timers[j]] \in Nat
      BY <1>2
    <2>3. QED
      BY <1>1, <2>1, <2>2
  <1>4. QED
    BY <1>1, <1>3 DEF OrderInv, Timer!Ascending

\* Both hold on.
LEMMA NextOrderInv == ServerInv /\ OrderInv /\ SignalInv /\ [Next]_vars => OrderInv' /\ SignalInv'
  <1> SUFFICES ASSUME ServerInv, OrderInv, SignalInv, [Next]_vars
               PROVE  OrderInv' /\ SignalInv'
    OBVIOUS
  <1>1. OrderInv'
    <2>1. CASE UNCHANGED <<timers, left>>
      BY <2>1 DEF OrderInv
    <2>2. CASE Accept \/ LoopEnd \/ Wait \/ \E fd \in Fds : Receive(fd) \/ ReceiveEnd(fd)
      BY <2>2, AcceptOrderInv, LoopEndOrderInv, WaitOrderInv, ReceiveOrderInv, ReceiveEndOrderInv
    <2>3. QED
      BY <2>1, <2>2 DEF Next, ServerStep, Environment, EpollWait, ReadSignals, Connect,
                        ClientSend, ClientClose, Terminate, vars, tableVars
  <1>2. SignalInv'
    <2> USE TimerServerAssumption DEF SignalInv
    <2>1. CASE EpollWait
      BY <2>1 DEF EpollWait, Readable, kernelVars
    <2>2. CASE Accept
      BY <2>2 DEF Accept, Handling, NextEvent
    <2>3. CASE ReadSignals
      BY <2>3 DEF ReadSignals, Handling, NextEvent
    <2>4. ASSUME NEW fd \in Fds, Receive(fd) \/ ReceiveEnd(fd)
          PROVE  SignalInv'
      BY <2>4 DEF Receive, ReceiveEnd, Handling, NextEvent, Close, kernelVars
    <2>5. CASE LoopEnd
      <3>1. Due \subseteq Fds
        BY TickElements, TimersMean, LimitPositive DEF ServerInv, TypeOK
      <3>2. QED
        BY <2>5, <3>1 DEF LoopEnd, TimerHandler, Close
    <2>6. ASSUME NEW c \in Conns, Connect(c) \/ ClientSend(c) \/ ClientClose(c)
          PROVE  SignalInv'
      BY <2>6 DEF Connect, ClientSend, ClientClose, Arrival, loopVars, kernelVars
    <2>7. CASE Terminate
      BY <2>7 DEF Terminate, Signal, loopVars
    <2>8. CASE Wait
      BY <2>8 DEF Wait, Signal, loopVars
    <2>9. CASE UNCHANGED vars
      BY <2>9 DEF vars, loopVars, kernelVars
    <2>10. QED
      BY <2>1, <2>2, <2>3, <2>4, <2>5, <2>6, <2>7, <2>8, <2>9 DEF Next, ServerStep, Environment
  <1>3. QED
    BY <1>1, <1>2

\* The list stays sorted, and the signals announced.
LEMMA OrderInvariant == Spec => [](OrderInv /\ SignalInv)
  <1>1. Init => OrderInv /\ SignalInv
    BY DEF Init, OrderInv, SignalInv, Timer!Ascending
  <1>2. QED
    BY <1>1, NextOrderInv, ServerInvariant, PTL DEF Spec

\* What tick() takes is all that is due.
LEMMA DueExact ==
  ASSUME ServerInv, OrderInv
  PROVE  Due = {fd \in Fds : slot[fd] # NoConn /\ left[fd] = 0}
  <1>1. /\ timers \in Seq(Fds) /\ left \in [Fds -> Nat]
        /\ Timer!Elements(timers) = {fd \in Fds : slot[fd] # NoConn}
    BY TimersMean, LimitPositive DEF ServerInv, TypeOK
  <1>2. /\ DueCount \in 0 .. Len(timers)
        /\ \A i \in 1 .. DueCount : left[timers[i]] = 0
        /\ DueCount < Len(timers) => left[timers[DueCount + 1]] > 0
    BY <1>1, DueProperties
  <1>3. ASSUME NEW fd \in Due
        PROVE  fd \in Timer!Elements(timers) /\ left[fd] = 0
    BY <1>2 DEF Due, Timer!Elements
  <1>4. ASSUME NEW i \in 1 .. Len(timers), left[timers[i]] = 0
        PROVE  timers[i] \in Due
    <2>1. CASE i <= DueCount
      BY <1>2, <2>1 DEF Due
    <2>2. CASE i > DueCount
      <3>1. DueCount + 1 \in 1 .. Len(timers) /\ left[timers[DueCount + 1]] > 0
        BY <1>2, <2>2
      <3>2. left[timers[DueCount + 1]] <= left[timers[i]]
        <4>1. CASE i = DueCount + 1
          BY <1>1, <4>1
        <4>2. CASE i > DueCount + 1
          BY <3>1, <4>2 DEF OrderInv, Timer!Ascending
        <4>3. QED
          BY <1>2, <2>2, <4>1, <4>2
      <3>3. left[timers[DueCount + 1]] \in Nat
        BY <1>1, <3>1
      <3>4. QED
        BY <1>4, <3>1, <3>2, <3>3
    <2>3. QED
      BY <1>2, <2>1, <2>2
  <1>5. QED
    BY <1>1, <1>3, <1>4 DEF Timer!Elements

-----------------------------------------------------------------------------
(* The theorems.                                                           *)

\* Every variable has its type.
THEOREM TypeTheorem == Spec => []TypeOK
  <1>1. ServerInv => TypeOK
    BY DEF ServerInv
  <1>2. QED
    BY <1>1, ServerInvariant, PTL

\* accept and recv return: no event of the batch is out of date when its turn comes.
THEOREM BlockTheorem == Spec => []NeverBlocks
  <1>1. ServerInv => NeverBlocks
    BY DEF ServerInv
  <1>2. QED
    BY <1>1, ServerInvariant, PTL

\* The timers of the list are those of the open descriptors.
THEOREM OneTimerTheorem == Spec => []OneTimerPerClient
  <1>1. ServerInv => OneTimerPerClient
    BY DEF ServerInv
  <1>2. QED
    BY <1>1, ServerInvariant, PTL

\* Exactly one alarm is set, on its way or seen until the loop ends.
THEOREM TickTheorem == Spec => []TickScheduled
  <1>1. ServerInv => TickScheduled
    <2> SUFFICES ASSUME ServerInv, phase # "stopped"
                 PROVE  Cardinality({x \in {"set", "sent", "seen"} :
                          \/ x = "set" /\ alarm > 0
                          \/ x = "sent" /\ "ALRM" \in pipe
                          \/ x = "seen" /\ timeout}) = 1
      BY DEF TickScheduled
    <2> DEFINE S == {x \in {"set", "sent", "seen"} :
                       \/ x = "set" /\ alarm > 0
                       \/ x = "sent" /\ "ALRM" \in pipe
                       \/ x = "seen" /\ timeout}
    <2>1. S = {"set"} \/ S = {"sent"} \/ S = {"seen"}
      BY DEF ServerInv, AlarmInv
    <2> HIDE DEF S
    <2>2. Cardinality(S) = 1
      BY <2>1, FS_Singleton
    <2>3. QED
      BY <2>2 DEF S
  <1>2. QED
    BY <1>1, ServerInvariant, PTL

\* No signal is forgotten in the socket pair: epoll, which reports it once, has it
\* still to report, or it is among the events that are handled.  So SIGTERM and the
\* alarm wait for nothing but the loop.
THEOREM SignalTheorem == Spec => [](pipe # {} => "signals" \in ready \cup batch)
  <1>1. SignalInv => (pipe # {} => "signals" \in ready \cup batch)
    BY DEF SignalInv
  <1>2. QED
    BY <1>1, OrderInvariant, PTL

\* A tick closes the descriptors of the clients that were silent for as long as their
\* timers ran, since the last thing recv or accept returned for them, and no others:
\* it stops at the first timer that is not due, but those behind it expire later.
THEOREM IdleTheorem == Spec => TickClosesIdle
  <1>1. ASSUME ServerInv, OrderInv, [Next]_vars, timeout, ~timeout', NEW fd \in Fds,
               slot[fd] # NoConn
        PROVE  slot'[fd] = NoConn <=> idle[slot[fd]] = Limit
    <2>1. LoopEnd
      <3>1. ~EpollWait /\ ~Accept /\ ~ReadSignals /\ \A gd \in Fds : ~Receive(gd) /\ ~ReceiveEnd(gd)
        BY <1>1 DEF EpollWait, Accept, ReadSignals, Receive, ReceiveEnd
      <3>2. ~Environment /\ ~UNCHANGED vars
        BY <1>1 DEF Environment, Connect, ClientSend, ClientClose, Terminate, Wait, vars, loopVars
      <3>3. QED
        BY <1>1, <3>1, <3>2 DEF Next, ServerStep
    <2>2. slot' = [gd \in Fds |-> IF gd \in Due THEN NoConn ELSE slot[gd]]
      BY <1>1, <2>1 DEF LoopEnd, TimerHandler, Close
    <2>3. slot'[fd] = NoConn <=> left[fd] = 0
      BY <1>1, <2>2, DueExact
    <2>4. /\ left[fd] + idle[slot[fd]] = Limit
          /\ left[fd] \in Nat /\ idle[slot[fd]] \in Nat /\ Limit \in Nat
      <3>1. slot[fd] \in Conns
        BY <1>1, OpenFacts
      <3>2. QED
        BY <1>1, <3>1, LimitPositive DEF ServerInv, TypeOK, IdleInv
    <2>5. left[fd] = 0 <=> idle[slot[fd]] = Limit
      BY <2>4
    <2>6. QED
      BY <2>3, <2>5
  <1>2. ServerInv /\ OrderInv /\ [Next]_vars =>
          [timeout /\ ~timeout' =>
             \A fd \in Fds :
               slot[fd] # NoConn => (slot'[fd] = NoConn <=> idle[slot[fd]] = Limit)]_vars
    BY <1>1
  <1>3. QED
    BY <1>2, ServerInvariant, OrderInvariant, PTL DEF Spec, TickClosesIdle

=============================================================================
