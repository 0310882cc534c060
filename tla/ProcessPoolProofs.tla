-------------------------- MODULE ProcessPoolProofs --------------------------
(***************************************************************************)
(* Proofs about ProcessPool, for every number of children: who holds the   *)
(* ends of the pipes while the constructor forks and processes come to     *)
(* their end in any order; and that a child that has a SIGTERM ends, since *)
(* its epoll goes on reporting it (TermInv).                               *)
(***************************************************************************)
EXTENDS ProcessPool, TLAPS

\* How far the constructor has come: it works on pipe i, and no child after it
\* has been forked.
ForkInv ==
  /\ state[Parent] \in {"pair", "fork", "close"} => i <= Size
  /\ \A c \in Children : state[c] # "none" => c <= i
  /\ \A c \in Children : state[Parent] \in {"pair", "fork"} /\ state[c] # "none" => c < i

\* The other processes that hold m_pipefd[0] of child c: the parent, and the
\* children forked after c.
Others(c) == {p \in Procs : Exists(p) /\ (p = Parent \/ p > c)}

\* These are exactly its holders, and c itself until it has closed its copy.
NearInv ==
  /\ state[Parent] = "fork" => near[i] = {Parent}
  /\ \A c \in Children :
       /\ state[c] = "close" => near[c] = Others(c) \cup {c}
       /\ state[c] \in {"setup", "waiting", "ended"} => near[c] = Others(c)

\* The parent is none of the children.
LEMMA ProcsFacts ==
  /\ Parent \in Procs /\ Parent \notin Children /\ Children \subseteq Procs
  /\ Procs \subseteq Nat /\ Size \in Nat
BY PoolAssumption DEF Parent, Children, Procs

\* A fork copies the descriptors of one process to another.
LEMMA InheritType ==
  ASSUME NEW ends \in [Children -> SUBSET Procs], NEW p \in Procs, NEW q \in Procs
  PROVE  Inherit(ends, p, q) \in [Children -> SUBSET Procs]
BY DEF Inherit

\* The types hold at the start.
LEMMA InitType == Init => TypeOK
<1> USE ProcsFacts
<1> SUFFICES ASSUME Init PROVE TypeOK
  OBVIOUS
<1>1. /\ state \in [Procs -> ParentState \cup ChildState]
      /\ state[Parent] \in ParentState
      /\ \A c \in Children : state[c] \in ChildState
  BY DEF Init, ParentState, ChildState
<1>2. i \in 1 .. Size + 1 /\ backlog \in 0 .. MaxConns
  BY PoolAssumption DEF Init
<1>3. near \in [Children -> SUBSET Procs] /\ far \in [Children -> SUBSET Procs]
  BY DEF Init
<1>4. ready \in [Procs -> SUBSET {"listen", "pipe", "signals"}] /\ pipe \in [Procs -> SUBSET {"TERM", "CHLD"}]
  BY DEF Init
<1> QED BY <1>1, <1>2, <1>3, <1>4 DEF TypeOK

\* The types are kept, given how far the constructor has come.
LEMMA NextType == TypeOK /\ ForkInv /\ [Next]_vars => TypeOK'
<1> USE ProcsFacts
<1> SUFFICES ASSUME TypeOK, ForkInv, [Next]_vars PROVE TypeOK'
  OBVIOUS
<1>1. CASE Socketpair
  BY <1>1 DEF Socketpair, TypeOK, ParentState, ChildState, Goto, ForkInv, Children, Parent
<1>2. CASE Fork
  <2>1. i \in Children
    BY <1>2, PoolAssumption DEF Fork, TypeOK, ForkInv, Children
  <2>2. near' \in [Children -> SUBSET Procs] /\ far' \in [Children -> SUBSET Procs]
    BY <1>2, <2>1, InheritType DEF Fork, TypeOK
  <2> QED BY <1>2, <2>1, <2>2 DEF Fork, TypeOK, ParentState, ChildState
<1>3. CASE ParentCloses
  BY <1>3, PoolAssumption DEF ParentCloses, TypeOK, ParentState, ChildState, Goto, ForkInv, Children, Parent
<1>4. ASSUME NEW c \in Children, ChildCloses(c) PROVE TypeOK'
  BY <1>4 DEF ChildCloses, TypeOK, ParentState, ChildState, Goto
<1>5. ASSUME NEW p \in Procs, Setup(p) PROVE TypeOK'
  BY <1>5 DEF Setup, TypeOK, ParentState, ChildState, Goto
<1>6. CASE ParentWaits
  BY <1>6 DEF ParentWaits, TypeOK
<1>7. ASSUME NEW p \in Procs, Exists(p), Exit(p) PROVE TypeOK'
  <2>1. state' \in [Procs -> ParentState \cup ChildState] /\ state'[Parent] \in ParentState
          /\ \A c \in Children : state'[c] \in ChildState
    BY <1>7 DEF Exit, Goto, TypeOK, ParentState, ChildState
  <2>2. near' \in [Children -> SUBSET Procs] /\ far' \in [Children -> SUBSET Procs]
    BY <1>7 DEF Exit, TypeOK
  <2>3. pipe' \in [Procs -> SUBSET {"TERM", "CHLD"}]
    BY <1>7 DEF Exit, TypeOK
  <2>4. ready' \in [Procs -> SUBSET {"listen", "pipe", "signals"}]
    BY <1>7 DEF Exit, TypeOK
  <2> QED BY <1>7, <2>1, <2>2, <2>3, <2>4 DEF Exit, TypeOK
<1>8. ASSUME NEW c \in Children, ChildStops(c) PROVE TypeOK'
  BY <1>7, <1>8 DEF ChildStops, Exists
<1>9. ASSUME NEW c \in Children, ChildSeesEnd(c) PROVE TypeOK'
  BY <1>9 DEF ChildSeesEnd, TypeOK
<1>10. ASSUME NEW p \in Procs, Terminate(p) PROVE TypeOK'
  <2>1. CASE Exists(p) /\ Exit(p)
    BY <1>7, <2>1
  <2>2. CASE /\ pipe' = [pipe EXCEPT ![p] = @ \cup {"TERM"}]
             /\ ready' = [ready EXCEPT ![p] = @ \cup {"signals"}]
             /\ UNCHANGED <<state, i, near, far, backlog>>
    BY <2>2 DEF TypeOK
  <2> QED BY <1>10, <2>1, <2>2 DEF Terminate
<1>11. ASSUME NEW p \in Procs, Crash(p) PROVE TypeOK'
  BY <1>7, <1>11 DEF Crash
<1>12. CASE Connect
  BY <1>12, PoolAssumption DEF Connect, TypeOK
<1>13. CASE UNCHANGED vars
  BY <1>13 DEF vars, TypeOK
<1> QED
  BY <1>1, <1>2, <1>3, <1>4, <1>5, <1>6, <1>8, <1>9, <1>10, <1>11, <1>12, <1>13
  DEF Next, PoolStep

-----------------------------------------------------------------------------
(* The progress of the constructor.                                        *)

\* Nothing is forked at the start.
LEMMA InitFork == Init => ForkInv
BY PoolAssumption, ProcsFacts DEF Init, ForkInv, Children

\* The constructor makes its pairs and children in order.
LEMMA NextFork == TypeOK /\ ForkInv /\ [Next]_vars => ForkInv'
<1> USE ProcsFacts
<1> SUFFICES ASSUME TypeOK, ForkInv, [Next]_vars PROVE ForkInv'
  OBVIOUS
<1>0. i \in Nat
  BY DEF TypeOK
<1>1. CASE Socketpair
  BY <1>0, <1>1 DEF Socketpair, Goto, TypeOK, ForkInv
<1>2. CASE Fork
  BY <1>0, <1>2 DEF Fork, TypeOK, ForkInv
<1>3. CASE ParentCloses
  <2>1. \A c \in Children : state'[c] = state[c]
    BY <1>3 DEF ParentCloses, Goto, TypeOK
  <2>2. state'[Parent] = "pair" => i < Size
    BY <1>3 DEF ParentCloses, Goto, TypeOK
  <2>3. state'[Parent] \notin {"fork", "close"} /\ i' = i + 1
    BY <1>3 DEF ParentCloses, Goto, TypeOK
  <2> QED BY <1>0, <2>1, <2>2, <2>3 DEF ForkInv, Children
<1>4. ASSUME NEW c \in Children, ChildCloses(c) PROVE ForkInv'
  BY <1>4 DEF ChildCloses, Goto, TypeOK, ForkInv
<1>5. ASSUME NEW p \in Procs, Setup(p) PROVE ForkInv'
  BY <1>5 DEF Setup, Goto, TypeOK, ForkInv
<1>6. ASSUME NEW p \in Procs, Exists(p), Exit(p) PROVE ForkInv'
  BY <1>6 DEF Exit, Exists, Goto, TypeOK, ForkInv
<1>7. CASE UNCHANGED <<state, i>>
  BY <1>7 DEF ForkInv
<1> QED
  BY <1>1, <1>2, <1>3, <1>4, <1>5, <1>6, <1>7
  DEF Next, PoolStep, ParentWaits, ChildStops, ChildSeesEnd, Terminate, Crash, Exists, Connect, vars

\* The constructor and the loops of all processes keep the types.
THEOREM TypeTheorem == Spec => []TypeOK
<1>1. Init => TypeOK /\ ForkInv
  BY InitType, InitFork
<1>2. TypeOK /\ ForkInv /\ [Next]_vars => (TypeOK /\ ForkInv)'
  BY NextType, NextFork
<1> QED BY <1>1, <1>2, PTL DEF Spec

-----------------------------------------------------------------------------
(* The end through which notices are read.                                 *)

\* No process but child c ever gets a descriptor on which the notices for c could be
\* received: fork copies the ones the parent has, and the parent has closed those of
\* the earlier children by then.
THEOREM PrivateTheorem == Spec => []NoticeIsPrivate
<1> USE ProcsFacts
<1>1. Init => NoticeIsPrivate
  BY DEF Init, NoticeIsPrivate
<1>2. TypeOK /\ ForkInv /\ NoticeIsPrivate /\ [Next]_vars => NoticeIsPrivate'
  <2> SUFFICES ASSUME TypeOK, ForkInv, NoticeIsPrivate, [Next]_vars PROVE NoticeIsPrivate'
    OBVIOUS
  <2>1. CASE Socketpair
    BY <2>1 DEF Socketpair, Goto, TypeOK, NoticeIsPrivate
  <2>2. CASE Fork
    <3>1. i \in Children
      BY <2>2, PoolAssumption DEF Fork, TypeOK, ForkInv, Children
    <3> QED BY <2>2, <3>1 DEF Fork, Inherit, TypeOK, NoticeIsPrivate
  <2>3. CASE ParentCloses
    BY <2>3 DEF ParentCloses, TypeOK, NoticeIsPrivate
  <2>4. ASSUME NEW c \in Children, ChildCloses(c) PROVE NoticeIsPrivate'
    BY <2>4 DEF ChildCloses, Goto, TypeOK, NoticeIsPrivate
  <2>5. ASSUME NEW p \in Procs, Setup(p) PROVE NoticeIsPrivate'
    BY <2>5 DEF Setup, Goto, TypeOK, NoticeIsPrivate
  <2>6. ASSUME NEW p \in Procs, Exit(p) PROVE NoticeIsPrivate'
    BY <2>6 DEF Exit, Goto, TypeOK, NoticeIsPrivate
  <2>7. CASE UNCHANGED <<state, i, far>>
    BY <2>7 DEF NoticeIsPrivate
  <2> QED
    BY <2>1, <2>2, <2>3, <2>4, <2>5, <2>6, <2>7
    DEF Next, PoolStep, ParentWaits, ChildStops, ChildSeesEnd, Terminate, Crash, Connect, vars
<1>3. Init => TypeOK /\ ForkInv
  BY InitType, InitFork
<1>4. TypeOK /\ ForkInv /\ [Next]_vars => (TypeOK /\ ForkInv)'
  BY NextType, NextFork
<1> QED BY <1>1, <1>2, <1>3, <1>4, PTL DEF Spec

-----------------------------------------------------------------------------
(* The end whose last copy announces that the parent is gone.              *)

\* No pair exists at the start.
LEMMA InitNear == Init => NearInv
BY ProcsFacts DEF Init, NearInv

\* The copies of a pair's end are closed as the constructors say.
LEMMA NextNear == TypeOK /\ ForkInv /\ NearInv /\ [Next]_vars => NearInv'
<1> USE ProcsFacts
<1> SUFFICES ASSUME TypeOK, ForkInv, NearInv, [Next]_vars PROVE NearInv'
  OBVIOUS
<1>0. i \in Nat
  BY DEF TypeOK
<1>1. CASE Socketpair
  <2>1. \A p \in Procs : Exists(p)' <=> Exists(p)
    BY <1>1 DEF Socketpair, Goto, Exists, TypeOK
  <2>2. \A c \in Children : Others(c)' = Others(c)
    BY <2>1 DEF Others
  <2>3. \A c \in Children : state'[c] = state[c] /\ (state[c] # "none" => near'[c] = near[c])
    BY <1>0, <1>1 DEF Socketpair, Goto, TypeOK, ForkInv
  <2>4. near'[i'] = {Parent}
    BY <1>1, PoolAssumption DEF Socketpair, TypeOK, ForkInv, Children
  <2> QED BY <2>2, <2>3, <2>4 DEF NearInv
<1>2. CASE Fork
  <2>1. i \in Children
    BY <1>2, PoolAssumption DEF Fork, TypeOK, ForkInv, Children
  <2>2. \A p \in Procs : Exists(p)' <=> (Exists(p) \/ p = i)
    BY <1>2, <2>1 DEF Fork, Exists, TypeOK
  <2>3. \A c \in Children : state[c] # "none" => Others(c)' = Others(c) \cup {i}
    BY <1>0, <1>2, <2>1, <2>2 DEF Others, ForkInv, Fork
  <2>4. \A c \in Children : state[c] # "none" => near'[c] = near[c] \cup {i}
    <3> SUFFICES ASSUME NEW c \in Children, state[c] # "none" PROVE near'[c] = near[c] \cup {i}
      OBVIOUS
    <3>1. Exists(Parent)
      BY <1>2 DEF Fork, Exists
    <3>2. Parent \in near[c]
      BY <3>1 DEF NearInv, Others, TypeOK, ChildState
    <3> QED BY <1>2, <3>2 DEF Fork, Inherit
  <2>5. near'[i] = {Parent, i}
    BY <1>2, <2>1 DEF Fork, Inherit, NearInv
  <2>6. ASSUME NEW c \in Children, c = i PROVE Others(c)' = {Parent}
    <3>1. ASSUME NEW p \in Children, p > c PROVE ~Exists(p)'
      <4>1. ~(p < i) /\ p # i
        BY <1>0, <2>6, <3>1
      <4>2. state[p] = "none"
        BY <1>2, <4>1 DEF Fork, ForkInv
      <4> QED BY <2>2, <4>1, <4>2 DEF Exists
    <3>2. Exists(Parent)'
      BY <1>2, <2>2 DEF Fork, Exists
    <3> QED BY <3>1, <3>2 DEF Others, Procs
  <2>7. \A c \in Children : c # i => state'[c] = state[c]
    BY <1>2, <2>1 DEF Fork, TypeOK
  <2>8. state'[Parent] = "close" /\ state'[i] = "close" /\ state[i] = "none"
    BY <1>0, <1>2, <2>1 DEF Fork, TypeOK, ForkInv
  <2>9. ASSUME NEW c \in Children
        PROVE  /\ state'[c] = "close" => near'[c] = Others(c)' \cup {c}
               /\ state'[c] \in {"setup", "waiting", "ended"} => near'[c] = Others(c)'
    <3>1. CASE c = i
      BY <2>5, <2>6, <2>8, <3>1
    <3>2. CASE c # i
      <4>1. /\ state[c] = "close" => near[c] = Others(c) \cup {c}
            /\ state[c] \in {"setup", "waiting", "ended"} => near[c] = Others(c)
        BY DEF NearInv
      <4> QED BY <2>3, <2>4, <2>7, <3>2, <4>1
    <3> QED BY <3>1, <3>2
  <2> QED BY <2>8, <2>9 DEF NearInv
<1>3. CASE ParentCloses
  <2>1. \A p \in Procs : Exists(p)' <=> Exists(p)
    BY <1>3 DEF ParentCloses, Goto, Exists, TypeOK
  <2>2. \A c \in Children : Others(c)' = Others(c)
    BY <2>1 DEF Others
  <2>3. state'[Parent] # "fork" /\ \A c \in Children : state'[c] = state[c]
    BY <1>3 DEF ParentCloses, Goto, TypeOK
  <2> QED BY <1>3, <2>2, <2>3 DEF NearInv, ParentCloses
<1>4. ASSUME NEW c \in Children, ChildCloses(c) PROVE NearInv'
  <2>1. \A p \in Procs : Exists(p)' <=> Exists(p)
    BY <1>4 DEF ChildCloses, Goto, Exists, TypeOK
  <2>2. \A d \in Children : Others(d)' = Others(d)
    BY <2>1 DEF Others
  <2>3. c \notin Others(c)
    BY DEF Others
  <2>4. near'[c] = Others(c) /\ \A d \in Children : d # c => near'[d] = near[d]
    BY <1>4, <2>3 DEF ChildCloses, NearInv, TypeOK
  <2>5. state'[c] = "setup" /\ \A d \in Procs : d # c => state'[d] = state[d]
    BY <1>4 DEF ChildCloses, Goto, TypeOK
  <2>6. state'[Parent] = "fork" => i # c
    BY <1>0, <1>4, <2>5 DEF ForkInv, ChildCloses
  <2>7. state'[Parent] = "fork" => i \in Children
    BY <1>0, <2>5, PoolAssumption DEF ForkInv, TypeOK, Children
  <2>8. i' = i
    BY <1>4 DEF ChildCloses
  <2> QED BY <2>2, <2>4, <2>5, <2>6, <2>7, <2>8 DEF NearInv
<1>5. ASSUME NEW q \in Procs, Setup(q) PROVE NearInv'
  <2>1. \A p \in Procs : Exists(p)' <=> Exists(p)
    BY <1>5 DEF Setup, Goto, Exists, TypeOK
  <2>2. \A c \in Children : Others(c)' = Others(c)
    BY <2>1 DEF Others
  <2>3. near' = near /\ i' = i /\ state[q] = "setup" /\ state' = [state EXCEPT ![q] = "waiting"]
    BY <1>5 DEF Setup, Goto
  <2> QED BY <2>2, <2>3 DEF NearInv, TypeOK
<1>6. ASSUME NEW q \in Procs, Exists(q), Exit(q) PROVE NearInv'
  <2>1. \A p \in Procs : Exists(p)' <=> (Exists(p) /\ p # q)
    BY <1>6 DEF Exit, Goto, Exists, TypeOK
  <2>2. \A c \in Children : Others(c)' = Others(c) \ {q}
    BY <2>1 DEF Others
  <2>3. \A c \in Children : near'[c] = near[c] \ {q}
    BY <1>6 DEF Exit
  <2>4. i' = i /\ state'[q] = "ended" /\ \A p \in Procs : p # q => state'[p] = state[p]
    BY <1>6 DEF Exit, Goto, TypeOK
  <2>5. state'[Parent] = "fork" => near'[i] = {Parent}
    <3> SUFFICES ASSUME state'[Parent] = "fork" PROVE near'[i] = {Parent}
      OBVIOUS
    <3>1. state[Parent] = "fork" /\ q # Parent
      BY <2>4
    <3>2. i \in Children
      BY <3>1, PoolAssumption DEF ForkInv, TypeOK, Children
    <3> QED BY <2>3, <3>1, <3>2 DEF NearInv
  <2>6. ASSUME NEW c \in Children, c # q
        PROVE  /\ state'[c] = "close" => near'[c] = Others(c)' \cup {c}
               /\ state'[c] \in {"setup", "waiting", "ended"} => near'[c] = Others(c)'
    <3>1. /\ state[c] = "close" => near[c] = Others(c) \cup {c}
          /\ state[c] \in {"setup", "waiting", "ended"} => near[c] = Others(c)
      BY DEF NearInv
    <3>2. state'[c] = state[c]
      BY <2>4, <2>6
    <3> QED BY <2>2, <2>3, <2>6, <3>1, <3>2
  <2>7. ASSUME q \in Children PROVE near'[q] = Others(q)'
    <3>1. state[q] \in {"close", "setup", "waiting"}
      BY <1>6, <2>7 DEF Exists, TypeOK, ChildState
    <3>2. near[q] = Others(q) \/ near[q] = Others(q) \cup {q}
      BY <2>7, <3>1 DEF NearInv
    <3> QED BY <2>2, <2>3, <2>7, <3>2
  <2> QED BY <2>4, <2>5, <2>6, <2>7 DEF NearInv
<1>7. CASE UNCHANGED <<state, i, near>>
  BY <1>7 DEF NearInv, Others, Exists
<1> QED
  BY <1>1, <1>2, <1>3, <1>4, <1>5, <1>6, <1>7
  DEF Next, PoolStep, ParentWaits, ChildStops, ChildSeesEnd, Terminate, Crash, Exists, Connect, vars

\* recv on the pipe returns 0 to a child exactly when the parent and all the children
\* forked after it are gone: the copies of the parent's end that fork made keep the
\* pipe open for as long as one of them lives.
THEOREM OrphanTheorem == Spec => []EndMeansOrphaned
<1>1. Init => TypeOK /\ ForkInv /\ NearInv
  BY InitType, InitFork, InitNear
<1>2. TypeOK /\ ForkInv /\ NearInv /\ [Next]_vars => (TypeOK /\ ForkInv /\ NearInv)'
  BY NextType, NextFork, NextNear
<1>3. NearInv => EndMeansOrphaned
  BY DEF NearInv, EndMeansOrphaned, Others
<1> QED BY <1>1, <1>2, <1>3, PTL DEF Spec

-----------------------------------------------------------------------------
(* SIGTERM.                                                                *)

\* A child that has a SIGTERM to read is in its loop, and epoll has the signal pipe to
\* report.
TermInv ==
  \A c \in Children : "TERM" \in pipe[c] => state[c] = "waiting" /\ "signals" \in ready[c]

\* Nothing but the end of the child takes the signal away, or what announces it.
LEMMA NextTerm == TypeOK /\ ForkInv /\ TermInv /\ [Next]_vars => TermInv'
<1> USE ProcsFacts
<1> SUFFICES ASSUME TypeOK, ForkInv, TermInv, [Next]_vars PROVE TermInv'
  OBVIOUS
<1>1. CASE Socketpair
  BY <1>1 DEF Socketpair, Goto, TypeOK, TermInv
<1>2. CASE Fork
  <2>1. i \in Children /\ state[i] = "none"
    BY <1>2, PoolAssumption DEF Fork, TypeOK, ForkInv, Children, ChildState
  <2> QED BY <1>2, <2>1 DEF Fork, TypeOK, TermInv
<1>3. CASE ParentCloses
  BY <1>3 DEF ParentCloses, Goto, TypeOK, TermInv
<1>4. ASSUME NEW c \in Children, ChildCloses(c) PROVE TermInv'
  BY <1>4 DEF ChildCloses, Goto, TypeOK, TermInv
<1>5. ASSUME NEW p \in Procs, Setup(p) PROVE TermInv'
  BY <1>5 DEF Setup, Goto, TypeOK, TermInv
<1>6. CASE ParentWaits
  BY <1>6 DEF ParentWaits, TypeOK, TermInv
<1>7. ASSUME NEW p \in Procs, Exit(p) PROVE TermInv'
  <2> SUFFICES ASSUME NEW c \in Children, "TERM" \in pipe'[c]
               PROVE  state'[c] = "waiting" /\ "signals" \in ready'[c]
    BY DEF TermInv
  <2>1. c # p /\ "TERM" \in pipe[c]
    BY <1>7 DEF Exit, TypeOK
  <2> QED BY <1>7, <2>1 DEF Exit, Goto, TypeOK, TermInv
<1>8. ASSUME NEW c \in Children, ChildSeesEnd(c) PROVE TermInv'
  BY <1>8 DEF ChildSeesEnd, TypeOK, TermInv
<1>9. ASSUME NEW p \in Procs, Terminate(p) PROVE TermInv'
  BY <1>7, <1>9 DEF Terminate, TypeOK, TermInv
<1>10. CASE Connect
  BY <1>10 DEF Connect, TypeOK, TermInv
<1>11. CASE UNCHANGED vars
  BY <1>11 DEF vars, TermInv
<1> QED
  BY <1>1, <1>2, <1>3, <1>4, <1>5, <1>6, <1>7, <1>8, <1>9, <1>10, <1>11
  DEF Next, PoolStep, ChildStops, Crash

\* A SIGTERM that a child has received is announced by its epoll until the child ends,
\* whatever happens at its pipe, to its parent and to its siblings.
THEOREM AnnouncedTheorem == Spec => []TermInv
<1>1. Init => TypeOK /\ ForkInv /\ TermInv
  BY InitType, InitFork, ProcsFacts DEF Init, TermInv
<1>2. TypeOK /\ ForkInv /\ TermInv /\ [Next]_vars => (TypeOK /\ ForkInv /\ TermInv)'
  BY NextType, NextFork, NextTerm
<1> QED BY <1>1, <1>2, PTL DEF Spec

\* When child c can read its SIGTERM, and that it does so if it stays so: the weak
\* fairness of ChildStops(c), with the guard of the action for its being enabled.
MayStop(c) == state[c] = "waiting" /\ "signals" \in ready[c] /\ "TERM" \in pipe[c]
Stopped(c) == state[c] = "ended"
StopsFairly(c) == <>[]MayStop(c) => []<><<ChildStops(c)>>_vars

\* SIGTERM stays until it is obeyed, and obeying it is the end of the child.
LEMMA TermStep ==
  ASSUME NEW c \in Children, TypeOK
  PROVE  /\ "TERM" \in pipe[c] /\ [Next]_vars => "TERM" \in pipe'[c] \/ Stopped(c)'
         /\ ChildStops(c) => MayStop(c) /\ Stopped(c)'
<1> USE ProcsFacts
<1>1. ASSUME NEW p \in Procs, Exit(p), "TERM" \in pipe[c]
      PROVE  "TERM" \in pipe'[c] \/ Stopped(c)'
  BY <1>1 DEF Exit, Goto, TypeOK, Stopped
<1>2. ASSUME "TERM" \in pipe[c], [Next]_vars
      PROVE  "TERM" \in pipe'[c] \/ Stopped(c)'
  <2>1. CASE UNCHANGED pipe
    BY <1>2, <2>1
  <2>2. CASE \E p \in Procs : pipe' = [pipe EXCEPT ![p] = @ \cup {"TERM"}]
    BY <1>2, <2>2 DEF TypeOK
  <2> QED
    BY <1>1, <1>2, <2>1, <2>2
    DEF Next, PoolStep, Socketpair, Fork, ParentCloses, ParentWaits, Setup, ChildCloses,
        ChildStops, ChildSeesEnd, Terminate, Crash, Connect, vars
<1>3. ChildStops(c) => MayStop(c) /\ Stopped(c)'
  BY DEF ChildStops, MayStop, Stopped, Exit, Goto, TypeOK
<1> QED BY <1>2, <1>3

\* So a child that runs when it can ends on SIGTERM.
THEOREM TermTheorem == Spec /\ (\A c \in Children : StopsFairly(c)) => TermStopsChild
<1>1. ASSUME NEW c \in Children
      PROVE  Spec /\ StopsFairly(c) => ("TERM" \in pipe[c] ~> state[c] = "ended")
  <2>1. TypeOK /\ "TERM" \in pipe[c] /\ [Next]_vars => ("TERM" \in pipe[c])' \/ Stopped(c)'
    BY TermStep
  <2>2. TypeOK /\ <<ChildStops(c)>>_vars => Stopped(c)'
    BY TermStep
  <2>3. TermInv /\ "TERM" \in pipe[c] => MayStop(c)
    BY DEF TermInv, MayStop
  <2>4. Stopped(c) <=> state[c] = "ended"
    BY DEF Stopped
  <2> QED
    BY <2>1, <2>2, <2>3, <2>4, TypeTheorem, AnnouncedTheorem, PTL DEF Spec, StopsFairly
<1>2. QED
  BY <1>1 DEF TermStopsChild
=============================================================================
