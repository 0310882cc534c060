---------------------------- MODULE TimeWheelList ----------------------------
(***************************************************************************)
(* time_wheel with the lists of its slots, pointer by pointer: slots has   *)
(* the head of each list, next and prev link the timers, tick() walks a    *)
(* list with tmp while its callbacks add and delete timers.  A timer is an *)
(* address, allocated says which of them are in use.                       *)
(***************************************************************************)
EXTENDS Integers, FiniteSets

CONSTANTS N, SI, Timers, Timeouts, None

\* The addresses of a program: there are finitely many.
ASSUME ListsAssumption == IsFiniteSet(Timers)

VARIABLES
  cur, allocated, rotation, slot, age, due, late,  \* as in TimeWheel
  slots,       \* slots[]: the first timer of each list
  next, prev,
  mode,        \* between ticks, in the loop of tick(), or in a callback
  tmp          \* the local variable of tick()

timerVars == <<allocated, rotation, slot, age, due, late>>
linkVars  == <<slots, next, prev>>
vars == <<cur, timerVars, linkVars, mode, tmp>>

\* The timers of the list that starts at t.
From(t) ==
  LET reached[n \in 0 .. Cardinality(Timers)] ==
        IF n = 0 THEN {t} ELSE reached[n - 1] \cup {next[u] : u \in reached[n - 1] \ {None}}
  IN  reached[Cardinality(Timers)] \ {None}

Wheel == INSTANCE TimeWheel WITH
           live <- allocated,
           ticking <- mode # "idle",
           pending <- IF mode = "idle" THEN {} ELSE From(tmp),
           firing <- IF mode = "calling" THEN tmp ELSE None

Nowhere == [t \in Timers |-> None]

Init ==
  /\ slots = [i \in 0 .. N - 1 |-> None]
  /\ next = Nowhere /\ prev = Nowhere
  /\ mode = "idle"
  /\ tmp = None
  /\ Wheel!Init

-----------------------------------------------------------------------------

MayCall == mode \in {"idle", "calling"}

\* Mutant: the other timer keeps its pointer.
SetNot(p, t, v) == p

\* p with the pointer of t set to v, if there is a t.
Set(p, t, v) == IF t = None THEN p ELSE [p EXCEPT ![t] = v]

\* The new timer becomes the first of its slot.
Add(t, timeout) ==
  /\ MayCall
  /\ t \notin allocated
  /\ timeout >= 0
  /\ LET ticks == Wheel!Ticks(timeout)
         ts == (cur + (ticks % N)) % N
     IN  /\ rotation' = [rotation EXCEPT ![t] = ticks \div N]
         /\ slot' = [slot EXCEPT ![t] = ts]
         /\ next' = [next EXCEPT ![t] = slots[ts]]
         /\ prev' = Set(prev, slots[ts], t)
         /\ slots' = [slots EXCEPT ![ts] = t]
         /\ due' = [due EXCEPT ![t] = ticks]
         /\ late' = [late EXCEPT ![t] = IF mode = "calling" /\ ts = cur THEN N ELSE 0]
  /\ allocated' = allocated \cup {t}
  /\ age' = [age EXCEPT ![t] = 0]
  /\ UNCHANGED <<cur, mode, tmp>>

\* Take t out of the list of slot s and delete it.
Unlink(t, s) ==
  LET deleted(f) == [f EXCEPT ![t] = 0] IN
    /\ \/ /\ t = slots[s]
          /\ slots' = [slots EXCEPT ![s] = next[t]]
          /\ prev' = [Set(prev, next[t], None) EXCEPT ![t] = None]
          /\ next' = [next EXCEPT ![t] = None]
       \/ /\ t # slots[s]
          /\ next' = [Set(next, prev[t], next[t]) EXCEPT ![t] = None]
          /\ prev' = [Set(prev, next[t], prev[t]) EXCEPT ![t] = None]
          /\ UNCHANGED slots
    /\ allocated' = allocated \ {t}
    /\ rotation' = deleted(rotation) /\ slot' = deleted(slot)
    /\ age' = deleted(age) /\ due' = deleted(due) /\ late' = deleted(late)

Del(t) ==
  /\ MayCall
  /\ t \in allocated
  /\ mode = "calling" => t # tmp
  /\ Unlink(t, slot[t])
  /\ UNCHANGED <<cur, mode, tmp>>

TickStart ==
  /\ mode = "idle"
  /\ tmp' = slots[cur]
  /\ mode' = "visiting"
  /\ UNCHANGED <<cur, timerVars, linkVars>>

\* A timer that has turns left loses one.
Skip ==
  /\ mode = "visiting" /\ tmp # None
  /\ rotation[tmp] > 0
  /\ rotation' = [rotation EXCEPT ![tmp] = @ - 1]
  /\ tmp' = next[tmp]
  /\ UNCHANGED <<cur, allocated, slot, age, due, late, linkVars, mode>>

Call ==
  /\ mode = "visiting" /\ tmp # None
  /\ rotation[tmp] = 0
  /\ mode' = "calling"
  /\ UNCHANGED <<cur, timerVars, linkVars, tmp>>

\* Mutant: tick() goes on at the head of the list.
HeadAgain == slots'[cur]

Following == next[tmp]

\* After the callback: slots[cur_slot], tmp->prev and tmp->next are read again.
Return ==
  /\ mode = "calling"
  /\ Unlink(tmp, cur)
  /\ tmp' = Following
  /\ mode' = "visiting"
  /\ UNCHANGED cur

TickEnd ==
  /\ mode = "visiting" /\ tmp = None
  /\ cur' = (cur + 1) % N
  /\ mode' = "idle"
  /\ age' = [t \in Timers |-> IF t \in allocated THEN age[t] + 1 ELSE 0]
  /\ UNCHANGED <<allocated, rotation, slot, due, late, linkVars, tmp>>

\* The destructor deletes what it reaches from the slots.
Destroy ==
  /\ mode = "idle"
  /\ allocated' = allocated \ UNION {From(slots[i]) : i \in 0 .. N - 1}
  /\ cur' = 0
  /\ slots' = [i \in 0 .. N - 1 |-> None]
  /\ next' = Nowhere /\ prev' = Nowhere
  /\ rotation' = Wheel!Zero /\ slot' = Wheel!Zero
  /\ age' = Wheel!Zero /\ due' = Wheel!Zero /\ late' = Wheel!Zero
  /\ UNCHANGED <<mode, tmp>>

Next ==
  \/ TickStart \/ Skip \/ Call \/ Return \/ TickEnd
  \/ \E t \in Timers : Del(t) \/ \E timeout \in Timeouts : Add(t, timeout)
  \/ Destroy

Spec == Init /\ [][Next]_vars

-----------------------------------------------------------------------------
(* Properties.                                                             *)

\* No pointer the code may follow leads to a deleted timer: not from a slot, not
\* from a timer in use, not tmp, whatever a callback deleted meanwhile.
NoDangling ==
  LET usable == allocated \cup {None} IN
    /\ \A i \in 0 .. N - 1 : slots[i] \in usable
    /\ \A t \in allocated : next[t] \in usable /\ prev[t] \in usable
    /\ tmp \in usable

\* The lists are doubly linked, and del_timer finds a predecessor of every timer
\* that is not the first of its slot.
DoublyLinked ==
  \A t \in allocated :
    /\ next[t] # None => prev[next[t]] = t
    /\ IF slots[slot[t]] = t THEN prev[t] = None ELSE prev[t] # None /\ next[prev[t]] = t

\* The lists of the slots and tmp stay well linked through every callback.
WellLinked == NoDangling /\ DoublyLinked

\* The lists do what the sets of TimeWheel do: tick() visits the timers of its
\* slot once each, callbacks or not, and the destructor deletes all timers.
ImplementsWheel == Wheel!Spec

=============================================================================
