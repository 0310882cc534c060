---------------------------- MODULE SortTimerList ----------------------------
(***************************************************************************)
(* Sort_timer_list of cpt_11_2_1.h pointer by pointer.  A timer is an      *)
(* address; allocated says which are in use.  A deleted timer keeps no     *)
(* field, and _tail keeps its address when tick() empties the list.        *)
(***************************************************************************)
EXTENDS Naturals, Sequences, FiniteSets

CONSTANTS Timers, Delays, MaxTime, None

\* The addresses of a program, of which there are finitely many, and nullptr.
ASSUME ListAssumption == IsFiniteSet(Timers) /\ None \notin Timers

VARIABLES
  head, tail, next, prev, allocated,
  expire, now, mode, cur, stepped,  \* as in SortedTimers
  tmp                               \* the local variable of tick()

pointers == <<head, tail, next, prev>>
tickVars == <<mode, cur, tmp>>
clock == <<now, stepped>>
vars == <<pointers, allocated, expire, tickVars, clock>>

\* The timers reached from t, in order.
Chain(t) ==
  LET chain[n \in 0 .. Cardinality(Timers)] ==
        [u \in Timers \cup {None} |->
           IF n = 0 \/ u = None THEN <<>> ELSE <<u>> \o chain[n - 1][next[u]]]
  IN  chain[Cardinality(Timers)][t]

Sorted == INSTANCE SortedTimers WITH list <- Chain(head)

Nowhere == [t \in Timers |-> None]

Init ==
  /\ head = None /\ tail = None
  /\ next = Nowhere /\ prev = Nowhere
  /\ allocated = {}
  /\ expire = [t \in Timers |-> 0]
  /\ now = 0
  /\ mode = "idle"
  /\ cur = 0
  /\ tmp = None
  /\ stepped = FALSE

MayCall == mode \in {"idle", "calling"}

\* Mutants: a timer goes before those of the same expiry; the other timer keeps
\* its pointer.
NotAfter(e, t) == e <= expire[t]
SetNot(p, t, v) == p

Before(e, t) == e < expire[t]

\* p with the pointer of t set to v, if there is a t.
Set(p, t, v) == IF t = None THEN p ELSE [p EXCEPT ![t] = v]

\* Where add_timer(timer, lst_head) stops: the last node from u on, in the list
\* nx, whose successor does not expire after e.  It never looks at u itself.
Place(nx, u, e) ==
  LET place[n \in 0 .. Cardinality(Timers)] ==
        [v \in Timers |->
           IF n = 0 \/ nx[v] = None \/ Before(e, nx[v]) THEN v ELSE place[n - 1][nx[v]]]
  IN  place[Cardinality(Timers)][u]

\* add_timer(timer, lst_head): t goes behind the place found, in the list nx, pv.
InsertBehind(t, nx, pv, u, e) ==
  LET p == Place(nx, u, e) IN
    /\ next' = [nx EXCEPT ![p] = t, ![t] = nx[p]]
    /\ prev' = [Set(pv, nx[p], t) EXCEPT ![t] = p]
    /\ tail' = IF nx[p] = None THEN t ELSE tail

\* new Util_timer, its expiry, and add_timer(timer).
Add(t, e) ==
  /\ MayCall
  /\ t \notin allocated
  /\ mode = "calling" => expire[tmp] <= e
  /\ allocated' = allocated \cup {t}
  /\ expire' = [expire EXCEPT ![t] = e]
  /\ \/ /\ head = None
        /\ head' = t /\ tail' = t
        /\ UNCHANGED <<next, prev>>
     \/ /\ head # None /\ e < expire[head]
        /\ next' = [next EXCEPT ![t] = head]
        /\ prev' = [prev EXCEPT ![head] = t]
        /\ head' = t
        /\ UNCHANGED tail
     \/ /\ head # None /\ e >= expire[head]
        /\ InsertBehind(t, next, prev, head, e)
        /\ UNCHANGED head
  /\ UNCHANGED <<tickVars, clock>>

\* The caller has set the expiry to e; a timer that still expires before the
\* next one stays.
Adjust(t, e) ==
  /\ MayCall
  /\ t \in allocated
  /\ mode = "calling" => t # tmp
  /\ expire[t] <= e \/ stepped
  /\ expire' = [expire EXCEPT ![t] = e]
  /\ LET after == next[t] IN
       \/ /\ after # None => e < expire[after]
          /\ UNCHANGED pointers
       \/ /\ after # None /\ e >= expire[after]
          /\ t = head
          /\ head' = after
          /\ InsertBehind(t, [next EXCEPT ![t] = None], [prev EXCEPT ![after] = None], after, e)
       \/ /\ after # None /\ e >= expire[after]
          /\ t # head
          /\ InsertBehind(t, [next EXCEPT ![prev[t]] = after],
                             [prev EXCEPT ![after] = prev[t]], after, e)
          /\ UNCHANGED head
  /\ UNCHANGED <<allocated, tickVars, clock>>

\* delete timer.
Free(t) ==
  /\ allocated' = allocated \ {t}
  /\ expire' = [expire EXCEPT ![t] = 0]

Del(t) ==
  /\ MayCall
  /\ t \in allocated
  /\ mode = "calling" => t # tmp
  /\ Free(t)
  /\ \/ /\ t = head /\ t = tail
        /\ head' = None /\ tail' = None
        /\ next' = Set(next, t, None) /\ prev' = Set(prev, t, None)
     \/ /\ t = head /\ t # tail
        /\ head' = next[t]
        /\ next' = Set(next, t, None) /\ prev' = [prev EXCEPT ![next[t]] = None, ![t] = None]
        /\ UNCHANGED tail
     \/ /\ t # head /\ t = tail
        /\ tail' = prev[t]
        /\ next' = [next EXCEPT ![prev[t]] = None, ![t] = None] /\ prev' = Set(prev, t, None)
        /\ UNCHANGED head
     \/ /\ t # head /\ t # tail
        /\ next' = [next EXCEPT ![prev[t]] = next[t], ![t] = None]
        /\ prev' = [prev EXCEPT ![next[t]] = prev[t], ![t] = None]
        /\ UNCHANGED <<head, tail>>
  /\ UNCHANGED <<tickVars, clock>>

TickStart ==
  /\ mode = "idle"
  /\ head # None
  /\ cur' = now
  /\ tmp' = head
  /\ mode' = "visiting"
  /\ UNCHANGED <<pointers, allocated, expire, clock>>

Call ==
  /\ mode = "visiting"
  /\ tmp # None
  /\ expire[tmp] <= cur
  /\ mode' = "calling"
  /\ UNCHANGED <<pointers, allocated, expire, clock, cur, tmp>>

\* The head moves on after the callback; _tail is not touched.
Return ==
  /\ mode = "calling"
  /\ head' = next[tmp]
  /\ prev' = [Set(prev, next[tmp], None) EXCEPT ![tmp] = None]
  /\ next' = [next EXCEPT ![tmp] = None]
  /\ Free(tmp)
  /\ tmp' = next[tmp]
  /\ mode' = "visiting"
  /\ UNCHANGED <<tail, clock, cur>>

TickEnd ==
  /\ mode = "visiting"
  /\ tmp # None => cur < expire[tmp]
  /\ mode' = "idle"
  /\ cur' = 0
  /\ tmp' = None
  /\ UNCHANGED <<pointers, allocated, expire, clock>>

\* The destructor deletes what it reaches from _head, and leaves _tail.
Destroy ==
  /\ mode = "idle"
  /\ allocated' = allocated \ {Chain(head)[i] : i \in 1 .. Len(Chain(head))}
  /\ head' = None
  /\ next' = Nowhere /\ prev' = Nowhere
  /\ expire' = [t \in Timers |-> 0]
  /\ UNCHANGED <<tail, tickVars, clock>>

Wait ==
  /\ now < MaxTime
  /\ now' = now + 1
  /\ UNCHANGED <<pointers, allocated, expire, tickVars, stepped>>

SetBack ==
  /\ now' \in 0 .. now - 1
  /\ stepped' = TRUE
  /\ UNCHANGED <<pointers, allocated, expire, tickVars>>

Next ==
  \/ TickStart \/ Call \/ Return \/ TickEnd
  \/ Destroy
  \/ Wait \/ SetBack
  \/ \E t \in Timers :
       \/ Del(t)
       \/ \E delay \in Delays : Add(t, now + delay) \/ Adjust(t, now + delay)

Spec == Init /\ [][Next]_vars

-----------------------------------------------------------------------------
(* Properties.                                                             *)

\* No pointer the code may follow leads to a deleted timer: _tail only while the
\* list is not empty, since tick() leaves it behind when it empties the list.
NoDangling ==
  LET usable == allocated \cup {None} IN
    /\ head \in usable /\ tmp \in usable
    /\ head # None => tail \in allocated
    /\ \A t \in allocated : next[t] \in usable /\ prev[t] \in usable

\* _head and _tail are the two ends of one doubly linked list of all timers in
\* use: no timer is lost by an insertion, an adjustment or a callback.
OneList ==
  /\ allocated = {Chain(head)[i] : i \in 1 .. Len(Chain(head))}
  /\ head # None => prev[head] = None /\ next[tail] = None
  /\ \A t \in allocated :
       /\ next[t] # None => prev[next[t]] = t
       /\ prev[t] # None => next[prev[t]] = t
       /\ (prev[t] = None) <=> (t = head)

\* The list and tmp stay well linked through every operation and callback, also
\* when a clock that was set back has left them out of order.
WellLinked == NoDangling /\ OneList

\* The list does what SortedTimers promises.
ImplementsSorted == Sorted!Spec

=============================================================================
