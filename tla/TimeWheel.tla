------------------------------ MODULE TimeWheel ------------------------------
(***************************************************************************)
(* The class time_wheel of time_wheel.h: N slots that tick() visits one at *)
(* a time, each with the timers due when the wheel is there, some of them  *)
(* only after more rotations.  The list of a slot, which the code keeps in *)
(* no order, is a set here; the module TimeWheelList has the lists.        *)
(*                                                                         *)
(* tick() runs timer by timer, because it calls cb_func on the way and the *)
(* callback may itself add and delete timers (but not the timer that is    *)
(* firing, which tick() deletes).                                          *)
(***************************************************************************)
EXTENDS Integers

CONSTANTS
  N,         \* the slots of the wheel
  SI,        \* the time between two calls of tick()
  Timers,    \* the addresses a timer may have
  Timeouts,  \* the arguments of add_timer
  None       \* no timer

ASSUME WheelAssumption ==
  /\ N \in Nat \ {0}
  /\ SI \in Nat \ {0}
  /\ Timeouts \subseteq Int
  /\ None \notin Timers

VARIABLES
  cur,       \* cur_slot
  live,      \* the timers on the wheel
  rotation,  \* rotation of each timer
  slot,      \* time_slot of each timer
  ticking,   \* tick() is running
  pending,   \* the timers this tick() has still to visit
  firing,    \* the timer whose cb_func is running
  age,       \* history: the ticks completed since the timer was added
  due,       \* history: the ticks after which it is to fire
  late       \* history: N if it was added to the slot being visited, else 0

vars == <<cur, live, rotation, slot, ticking, pending, firing, age, due, late>>

TypeOK ==
  /\ cur \in 0 .. N - 1
  /\ live \in SUBSET Timers
  /\ rotation \in [Timers -> Nat]
  /\ slot \in [Timers -> 0 .. N - 1]
  /\ ticking \in BOOLEAN
  /\ pending \in SUBSET live
  /\ firing \in pending \cup {None}
  /\ age \in [Timers -> Nat]
  /\ due \in [Timers -> Nat]
  /\ late \in [Timers -> {0, N}]

Zero == [t \in Timers |-> 0]

Init ==
  /\ cur = 0
  /\ live = {}
  /\ rotation = Zero /\ slot = Zero
  /\ ticking = FALSE
  /\ pending = {}
  /\ firing = None
  /\ age = Zero /\ due = Zero /\ late = Zero

-----------------------------------------------------------------------------

\* Anyone may use the wheel between two ticks, a callback while it runs.
MayCall == ticking => firing # None

\* The number of ticks a timeout is worth.
Ticks(timeout) == IF timeout < SI THEN 1 ELSE timeout \div SI

\* Mutant: the turns are counted from one tick less.
AddOneTurnShort(t, timeout) ==
  /\ MayCall
  /\ t \notin live
  /\ timeout >= 0
  /\ LET ticks == Ticks(timeout) IN
       /\ rotation' = [rotation EXCEPT ![t] = IF ticks = 0 THEN 0 ELSE (ticks - 1) \div N]
       /\ slot' = [slot EXCEPT ![t] = (cur + (ticks % N)) % N]
       /\ due' = [due EXCEPT ![t] = ticks]
       /\ late' = [late EXCEPT ![t] = IF ticking /\ ticks % N = 0 THEN N ELSE 0]
  /\ live' = live \cup {t}
  /\ age' = [age EXCEPT ![t] = 0]
  /\ UNCHANGED <<cur, ticking, pending, firing>>

Add(t, timeout) ==
  /\ MayCall
  /\ t \notin live
  /\ timeout >= 0
  /\ LET ticks == Ticks(timeout) IN
       /\ rotation' = [rotation EXCEPT ![t] = ticks \div N]
       /\ slot' = [slot EXCEPT ![t] = (cur + (ticks % N)) % N]
       /\ due' = [due EXCEPT ![t] = ticks]
       /\ late' = [late EXCEPT ![t] = IF ticking /\ ticks % N = 0 THEN N ELSE 0]
  /\ live' = live \cup {t}
  /\ age' = [age EXCEPT ![t] = 0]
  /\ UNCHANGED <<cur, ticking, pending, firing>>

\* The timer is deleted; its memory says nothing any more.
Forget(t) ==
  /\ live' = live \ {t}
  /\ pending' = pending \ {t}
  /\ rotation' = [rotation EXCEPT ![t] = 0]
  /\ slot' = [slot EXCEPT ![t] = 0]
  /\ age' = [age EXCEPT ![t] = 0]
  /\ due' = [due EXCEPT ![t] = 0]
  /\ late' = [late EXCEPT ![t] = 0]

Del(t) ==
  /\ MayCall
  /\ t \in live
  /\ t # firing
  /\ Forget(t)
  /\ UNCHANGED <<cur, ticking, firing>>

TickStart ==
  /\ ~ticking
  /\ ticking' = TRUE
  /\ pending' = {t \in live : slot[t] = cur}
  /\ UNCHANGED <<cur, live, rotation, slot, firing, age, due, late>>

\* A timer with rotations left is not due in this round.
Skip(t) ==
  /\ firing = None
  /\ t \in pending
  /\ rotation[t] > 0
  /\ rotation' = [rotation EXCEPT ![t] = @ - 1]
  /\ pending' = pending \ {t}
  /\ UNCHANGED <<cur, live, slot, ticking, firing, age, due, late>>

Call(t) ==
  /\ firing = None
  /\ t \in pending
  /\ rotation[t] = 0
  /\ firing' = t
  /\ UNCHANGED <<cur, live, rotation, slot, ticking, pending, age, due, late>>

\* Mutant: tick() does not go on to the next timer.
ReturnToSame ==
  /\ firing # None
  /\ live' = live \ {firing}
  /\ rotation' = [rotation EXCEPT ![firing] = 0]
  /\ firing' = None
  /\ UNCHANGED <<cur, slot, ticking, pending, age, due, late>>

\* cb_func returns and the timer is deleted.
Return ==
  /\ firing # None
  /\ Forget(firing)
  /\ firing' = None
  /\ UNCHANGED <<cur, ticking>>

TickEnd ==
  /\ ticking
  /\ pending = {}
  /\ cur' = (cur + 1) % N
  /\ ticking' = FALSE
  /\ age' = [t \in Timers |-> IF t \in live THEN age[t] + 1 ELSE 0]
  /\ UNCHANGED <<live, rotation, slot, pending, firing, due, late>>

\* The wheel is destroyed with its timers, and another one is made.
Destroy ==
  /\ ~ticking
  /\ live' = {} /\ cur' = 0
  /\ rotation' = Zero /\ slot' = Zero
  /\ age' = Zero /\ due' = Zero /\ late' = Zero
  /\ UNCHANGED <<ticking, pending, firing>>

Tick == TickStart \/ (\E t \in Timers : Skip(t) \/ Call(t)) \/ Return \/ TickEnd

Next ==
  \/ Tick
  \/ \E t \in Timers : Del(t) \/ \E timeout \in Timeouts : Add(t, timeout)
  \/ Destroy

Spec == Init /\ [][Next]_vars

\* "After SI, call this function": ticks go on, and callbacks return.
FairSpec == Spec /\ WF_vars(Tick)

-----------------------------------------------------------------------------
(* Properties.                                                             *)

\* A timer fires in the tick() after as many ticks as its timeout is worth,
\* over any number of rotations, and N ticks later if a callback added it to the
\* slot that tick() was visiting; and no timer is passed over, so that none on the
\* wheel is older than that.
FiresWhenDue ==
  /\ firing # None => age[firing] = due[firing] + late[firing]
  /\ \A t \in live : age[t] <= due[t] + late[t]

\* Every timer fires, or is deleted before.
EveryTimerEnds == \A t \in Timers : t \in live ~> t \notin live

=============================================================================
