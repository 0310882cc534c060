---------------------------- MODULE SortedTimers ----------------------------
(***************************************************************************)
(* What Sort_timer_list of cpt_11_2_1.h promises: the timers in the order  *)
(* of their expiry, those of equal expiry in the order they were added or  *)
(* adjusted.  tick() calls the callbacks of the timers that are due and    *)
(* deletes them; a callback may call the list too, but leaves the timer it *)
(* is called for alone, which tick() deletes next, and adds none before    *)
(* it.  The order depends on a clock that is never set back, which time()  *)
(* does not promise.  The module SortTimerList has the pointers.           *)
(***************************************************************************)
EXTENDS Naturals, Sequences

CONSTANTS
  Timers,   \* the addresses a timer may have
  Delays,   \* from now to the expiry a caller asks for
  MaxTime   \* bound: when the clock of the model stops

ASSUME TimersAssumption ==
  /\ Delays \subseteq Nat \ {0}
  /\ MaxTime \in Nat

VARIABLES
  list,     \* the timers from _head on
  expire,   \* _expire of each timer
  now,      \* time(nullptr)
  mode,     \* between ticks, in the loop of tick(), or in a callback
  cur,      \* the local variable of tick()
  stepped   \* history: the clock was set back

tickVars == <<mode, cur>>
clock == <<now, stepped>>
vars == <<list, expire, tickVars, clock>>

InList == {list[i] : i \in 1 .. Len(list)}

TypeOK ==
  /\ list \in Seq(Timers)
  /\ expire \in [Timers -> Nat]
  /\ now \in 0 .. MaxTime
  /\ mode \in {"idle", "visiting", "calling"}
  /\ cur \in 0 .. MaxTime
  /\ stepped \in BOOLEAN
  /\ mode = "calling" => list # <<>>

Init ==
  /\ list = <<>>
  /\ expire = [t \in Timers |-> 0]
  /\ now = 0
  /\ mode = "idle"
  /\ cur = 0
  /\ stepped = FALSE

MayCall == mode \in {"idle", "calling"}

\* The timer tick() is at, which its callback must not touch.
Firing(t) == mode = "calling" /\ t = list[1]

\* Mutant: the new timer goes to the end.
InsertAtEnd(s, t, e) == Append(s, t)

\* s with t behind the last of the timers from position from on that expire by e;
\* the timer at from is not looked at.
InsertBehind(s, t, from, e) ==
  LET at == CHOOSE k \in from .. Len(s) :
              /\ k < Len(s) => e < expire[s[k + 1]]
              /\ \A j \in from + 1 .. k : expire[s[j]] <= e
  IN  SubSeq(s, 1, at) \o <<t>> \o SubSeq(s, at + 1, Len(s))

\* s with the new timer t.
Insert(s, t, e) ==
  IF s = <<>> \/ e < expire[s[1]] THEN <<t>> \o s ELSE InsertBehind(s, t, 1, e)

Place(s, t) == CHOOSE i \in 1 .. Len(s) : s[i] = t

Without(s, t) == SubSeq(s, 1, Place(s, t) - 1) \o SubSeq(s, Place(s, t) + 1, Len(s))

\* Mutant: it also stays before a successor of the same expiry.
AdjustedBeforeEqual(s, t, e) ==
  LET p == Place(s, t) IN
    IF p = Len(s) \/ e <= expire[s[p + 1]] THEN s ELSE InsertBehind(Without(s, t), t, p, e)

\* s with the timer t, whose expiry is now e: it stays where it is if it expires
\* before its successor, and is searched a place from there on if not.
Adjusted(s, t, e) ==
  LET p == Place(s, t) IN
    IF p = Len(s) \/ e < expire[s[p + 1]] THEN s ELSE InsertBehind(Without(s, t), t, p, e)

\* A callback adds no timer that expires before the one it is called for: tick()
\* would lose it.
Add(t, e) ==
  /\ MayCall
  /\ t \notin InList
  /\ mode = "calling" => expire[list[1]] <= e
  /\ list' = Insert(list, t, e)
  /\ expire' = [expire EXCEPT ![t] = e]
  /\ UNCHANGED <<tickVars, clock>>

\* A caller sets a later expiry, or an earlier one if the clock was set back, and
\* lets adjust_timer find the new place.
Adjust(t, e) ==
  /\ MayCall
  /\ t \in InList /\ ~Firing(t)
  /\ expire[t] <= e \/ stepped
  /\ list' = Adjusted(list, t, e)
  /\ expire' = [expire EXCEPT ![t] = e]
  /\ UNCHANGED <<tickVars, clock>>

Del(t) ==
  /\ MayCall
  /\ t \in InList /\ ~Firing(t)
  /\ list' = Without(list, t)
  /\ expire' = [expire EXCEPT ![t] = 0]
  /\ UNCHANGED <<tickVars, clock>>

\* Mutant: the time is not read.
Unread == cur

Time == now

TickStart ==
  /\ mode = "idle"
  /\ list # <<>>
  /\ cur' = Time
  /\ mode' = "visiting"
  /\ UNCHANGED <<list, expire, clock>>

Call ==
  /\ mode = "visiting"
  /\ list # <<>>
  /\ expire[list[1]] <= cur
  /\ mode' = "calling"
  /\ UNCHANGED <<list, expire, clock, cur>>

\* The timer is unlinked and deleted after its callback.
Return ==
  /\ mode = "calling"
  /\ list' = Tail(list)
  /\ expire' = [expire EXCEPT ![list[1]] = 0]
  /\ mode' = "visiting"
  /\ UNCHANGED <<clock, cur>>

\* Mutant: tick() returns after one timer.
LeaveAnyway == TRUE

Leave == list # <<>> => cur < expire[list[1]]

TickEnd ==
  /\ mode = "visiting"
  /\ Leave
  /\ mode' = "idle"
  /\ cur' = 0
  /\ UNCHANGED <<list, expire, clock>>

\* The destructor deletes every timer.
Destroy ==
  /\ mode = "idle"
  /\ list' = <<>>
  /\ expire' = [t \in Timers |-> 0]
  /\ UNCHANGED <<tickVars, clock>>

\* Time passes, in tick() as well.
Wait ==
  /\ now < MaxTime
  /\ now' = now + 1
  /\ UNCHANGED <<list, expire, tickVars, stepped>>

\* The clock is set back, in tick() as well.
SetBack ==
  /\ now' \in 0 .. now - 1
  /\ stepped' = TRUE
  /\ UNCHANGED <<list, expire, tickVars>>

Tick == TickStart \/ Call \/ Return \/ TickEnd

Next ==
  \/ Tick
  \/ Destroy
  \/ Wait
  \/ SetBack
  \/ \E t \in Timers :
       \/ Del(t)
       \/ \E delay \in Delays : Add(t, now + delay) \/ Adjust(t, now + delay)

Spec == Init /\ [][Next]_vars

\* tick() is called again and again, and callbacks return.
FairSpec == Spec /\ WF_vars(Tick)

-----------------------------------------------------------------------------
(* Properties.                                                             *)

\* The list holds no timer twice, and stays sorted by expiry whatever adjust_timer
\* moves, if the clock is not set back.
Ordered ==
  \A i, j \in 1 .. Len(list) :
    i < j => list[i] # list[j] /\ (stepped \/ expire[list[i]] <= expire[list[j]])

\* add_timer and adjust_timer put a timer behind those that expire by its time and
\* before those that expire later, and leave the others in their order, although
\* adjust_timer looks only from the place of the timer on; so timers of the same
\* expiry fire in the order of the calls.  Both if the clock is not set back.
InOrderOfCalls ==
  [][\A t \in Timers : \A delay \in Delays :
       ~stepped /\ (Add(t, now + delay) \/ Adjust(t, now + delay)) =>
         /\ Without(list', t) = IF t \in InList THEN Without(list, t) ELSE list
         /\ \A u \in InList \ {t} :
              Place(list', u) < Place(list', t) <=> expire[u] <= now + delay]_vars

\* tick() calls no callback before the time of its timer, and does not return
\* while a timer that was due when it started is left, although it stops at the
\* first timer that is not; both if the clock is not set back.
TickIsExact ==
  /\ [][mode' = "calling" /\ mode # "calling" => stepped \/ expire[list[1]] <= now]_vars
  /\ [][mode = "visiting" /\ mode' = "idle" =>
          stepped \/ \A t \in InList : expire[t] > cur]_vars

\* A timer that is due is fired, unless it is adjusted or deleted first or the
\* clock is set back.
DueTimerFires ==
  \A t \in Timers :
    (t \in InList /\ expire[t] <= now) ~> (t \notin InList \/ expire[t] > now \/ stepped)

=============================================================================
