----------------------------- MODULE ProcessPool -----------------------------
(***************************************************************************)
(* processpool of cpt_15_3.h across its processes: the constructor, which  *)
(* makes a pipe and a child at a time, setup_sig_pipe, the event loop of   *)
(* the parent, and of the children what they do with signals and with the  *)
(* end of their pipe (the module ProcessPoolChild has the rest).           *)
(*                                                                         *)
(* fork copies every descriptor that is open, so that a child also holds   *)
(* the parent's ends of the pipes made before its own: a pipe reports its  *)
(* end to the child only when all these copies are closed.                 *)
(*                                                                         *)
(* The loop of run_parent closes before the code that handles its events:  *)
(* what epoll_wait reports is dropped there, and m_stop is never set.  The *)
(* loop ends only if epoll_wait fails, and then there are no events.       *)
(***************************************************************************)
EXTENDS Naturals

CONSTANTS
  Size,      \* process_number
  MaxConns   \* bound: the connections that arrive

ASSUME PoolAssumption == Size \in 1 .. 16 /\ MaxConns \in Nat

Parent == 0
Children == 1 .. Size
Procs == {Parent} \cup Children

VARIABLES
  state,     \* the point each process has reached
  i,         \* the local variable i of the constructor, from 1
  near, far, \* the processes that hold m_pipefd[0] and m_pipefd[1] of each pipe
  ready,     \* the sources each epoll has to report
  pipe,      \* the signals written to sig_pipefd of each process
  backlog    \* the connections that no accept has returned

vars == <<state, i, near, far, ready, pipe, backlog>>

ParentState == {"pair", "fork", "close", "setup", "waiting", "ended"}
ChildState  == {"none", "close", "setup", "waiting", "ended"}

TypeOK ==
  /\ state \in [Procs -> ParentState \cup ChildState]
  /\ state[Parent] \in ParentState
  /\ \A c \in Children : state[c] \in ChildState
  /\ i \in 1 .. Size + 1
  /\ near \in [Children -> SUBSET Procs]
  /\ far \in [Children -> SUBSET Procs]
  /\ ready \in [Procs -> SUBSET {"listen", "pipe", "signals"}]
  /\ pipe \in [Procs -> SUBSET {"TERM", "CHLD"}]
  /\ backlog \in 0 .. MaxConns

Init ==
  /\ state = [p \in Procs |-> IF p = Parent THEN "pair" ELSE "none"]
  /\ i = 1
  /\ near = [c \in Children |-> {}] /\ far = [c \in Children |-> {}]
  /\ ready = [p \in Procs |-> {}]
  /\ pipe = [p \in Procs |-> {}]
  /\ backlog = 0

Goto(p, s) == state' = [state EXCEPT ![p] = s]

\* Descriptors of process p, once more for process q.
Inherit(ends, p, q) == [c \in Children |-> IF p \in ends[c] THEN ends[c] \cup {q} ELSE ends[c]]

-----------------------------------------------------------------------------
(* The constructor.                                                        *)

Socketpair ==
  /\ state[Parent] = "pair"
  /\ near' = [near EXCEPT ![i] = {Parent}]
  /\ far' = [far EXCEPT ![i] = {Parent}]
  /\ Goto(Parent, "fork")
  /\ UNCHANGED <<i, ready, pipe, backlog>>

Fork ==
  /\ state[Parent] = "fork"
  /\ near' = Inherit(near, Parent, i)
  /\ far' = Inherit(far, Parent, i)
  /\ state' = [state EXCEPT ![Parent] = "close", ![i] = "close"]
  /\ UNCHANGED <<i, ready, pipe, backlog>>

\* Mutant: the parent closes nothing.
ParentKeepsBoth ==
  /\ state[Parent] = "close"
  /\ i' = i + 1
  /\ Goto(Parent, IF i < Size THEN "pair" ELSE "setup")
  /\ UNCHANGED <<near, far, ready, pipe, backlog>>

ParentCloses ==
  /\ state[Parent] = "close"
  /\ far' = [far EXCEPT ![i] = @ \ {Parent}]
  /\ i' = i + 1
  /\ Goto(Parent, IF i < Size THEN "pair" ELSE "setup")
  /\ UNCHANGED <<near, ready, pipe, backlog>>

\* Mutant: the child closes nothing.
ChildKeepsBoth(c) ==
  /\ state[c] = "close"
  /\ Goto(c, "setup")
  /\ UNCHANGED <<i, near, far, ready, pipe, backlog>>

ChildCloses(c) ==
  /\ state[c] = "close"
  /\ near' = [near EXCEPT ![c] = @ \ {c}]
  /\ Goto(c, "setup")
  /\ UNCHANGED <<i, far, ready, pipe, backlog>>

-----------------------------------------------------------------------------
(* run().                                                                  *)

\* setup_sig_pipe, and the descriptor of the loop is watched: epoll reports what
\* is there already.
Setup(p) ==
  /\ state[p] = "setup"
  /\ ready' = [ready EXCEPT ![p] =
                 IF p = Parent THEN {s \in {"listen"} : backlog > 0}
                               ELSE {s \in {"pipe"} : near[p] = {}}]
  /\ Goto(p, "waiting")
  /\ UNCHANGED <<i, near, far, pipe, backlog>>

\* epoll_wait of the parent, whose events nobody looks at.
ParentWaits ==
  /\ state[Parent] = "waiting"
  /\ ready[Parent] # {}
  /\ ready' = [ready EXCEPT ![Parent] = {}]
  /\ UNCHANGED <<state, i, near, far, pipe, backlog>>

\* p is gone: its descriptors are closed, its parent is told, and the children
\* that wait at pipes nobody else holds are woken.
Exit(p) ==
  /\ Goto(p, "ended")
  /\ near' = [c \in Children |-> near[c] \ {p}]
  /\ far' = [c \in Children |-> far[c] \ {p}]
  /\ LET told == p # Parent /\ state[Parent] = "waiting"
         woken == {c \in Children : p \in near[c] /\ near[c] = {p} /\ state[c] = "waiting"}
     IN  /\ pipe' = [q \in Procs |-> IF q = p THEN {}
                       ELSE IF q = Parent /\ told THEN pipe[q] \cup {"CHLD"} ELSE pipe[q]]
         /\ ready' = [q \in Procs |-> IF q = p THEN {}
                        ELSE ready[q] \cup {s \in {"signals"} : q = Parent /\ told}
                                      \cup {s \in {"pipe"} : q \in woken}]
  /\ UNCHANGED <<i, backlog>>

\* A child reads its signals: SIGTERM ends the loop, and the process.
ChildStops(c) ==
  /\ state[c] = "waiting"
  /\ "signals" \in ready[c] /\ "TERM" \in pipe[c]
  /\ Exit(c)

\* Mutant: only the first event of a batch is handled.
ChildSeesEndOnly(c) ==
  /\ state[c] = "waiting"
  /\ "pipe" \in ready[c]
  /\ ready' = [ready EXCEPT ![c] = {}]
  /\ UNCHANGED <<state, i, near, far, pipe, backlog>>

\* recv returns 0 at the end of the pipe; the child goes on.
ChildSeesEnd(c) ==
  /\ state[c] = "waiting"
  /\ "pipe" \in ready[c]
  /\ ready' = [ready EXCEPT ![c] = @ \ {"pipe"}]
  /\ UNCHANGED <<state, i, near, far, pipe, backlog>>

-----------------------------------------------------------------------------
(* What happens to the processes.                                          *)

Exists(p) == state[p] \notin {"none", "ended"}

\* SIGTERM, before and after the handler is installed.
Terminate(p) ==
  \/ /\ Exists(p) /\ state[p] # "waiting"
     /\ Exit(p)
  \/ /\ state[p] = "waiting"
     /\ pipe' = [pipe EXCEPT ![p] = @ \cup {"TERM"}]
     /\ ready' = [ready EXCEPT ![p] = @ \cup {"signals"}]
     /\ UNCHANGED <<state, i, near, far, backlog>>

\* A signal that cannot be handled, or an assertion that fails.
Crash(p) == Exists(p) /\ Exit(p)

Connect ==
  /\ backlog < MaxConns
  /\ backlog' = backlog + 1
  /\ ready' = [ready EXCEPT ![Parent] = IF state[Parent] = "waiting" THEN @ \cup {"listen"} ELSE @]
  /\ UNCHANGED <<state, i, near, far, pipe>>

-----------------------------------------------------------------------------

PoolStep ==
  \/ Socketpair \/ Fork \/ ParentCloses
  \/ ParentWaits
  \/ \E p \in Procs : Setup(p)
  \/ \E c \in Children : ChildCloses(c) \/ ChildStops(c) \/ ChildSeesEnd(c)

Next ==
  \/ PoolStep
  \/ \E p \in Procs : Terminate(p) \/ Crash(p)
  \/ Connect

Spec == Init /\ [][Next]_vars

\* Each process runs when it can.
FairSpec ==
  /\ Spec
  /\ WF_vars(Socketpair \/ Fork \/ ParentCloses \/ Setup(Parent))
  /\ WF_vars(ParentWaits)
  /\ \A c \in Children :
       /\ WF_vars(ChildCloses(c)) /\ WF_vars(Setup(c))
       /\ WF_vars(ChildStops(c)) /\ WF_vars(ChildSeesEnd(c))

-----------------------------------------------------------------------------
(* Properties.                                                             *)

\* A notice can reach no process but the child it is meant for: the child's end of
\* a pipe is held by that child, and by the parent only until it has forked it.
NoticeIsPrivate ==
  \A c \in Children : \A p \in far[c] :
    p = c \/ (p = Parent /\ c = i /\ state[Parent] \in {"fork", "close"})

\* The end of the pipe tells a child that the parent is gone, and tells it only
\* when its younger siblings, which inherited the other end, are gone as well.
EndMeansOrphaned ==
  \A c \in Children :
    state[c] \in {"setup", "waiting"} =>
      (near[c] = {} <=> \A p \in Procs : (p = Parent \/ p > c) => ~Exists(p))

\* A child ends on SIGTERM, whatever happened to its parent and its siblings.
TermStopsChild ==
  \A c \in Children : ("TERM" \in pipe[c]) ~> (state[c] = "ended")

\* "if a new connection arrives, send it to a child process": the connections do
\* not stay where they are as long as the parent is there.
DispatchesConnections ==
  (state[Parent] = "waiting" /\ backlog > 0) ~> (state[Parent] = "ended" \/ backlog = 0)

=============================================================================
