--------------------------- MODULE TimeWheelProofs ---------------------------
(***************************************************************************)
(* The wheel fires every timer at its tick, for every number of slots and  *)
(* every timeout.  The argument: the ticks a timer has waited and those    *)
(* its slot and its rotation still make it wait always add up to the ticks *)
(* it was added for (CountdownInv).  Then the same of its lists: that the  *)
(* pointers of TimeWheelList stay linked, and do what sets of timers do.   *)
(***************************************************************************)
EXTENDS TimeWheel, WellFoundedInduction, FiniteSetTheorems, TLAPS

\* The slots from cur_slot to slot s, in the direction of the wheel.
Distance(s, c) == IF s >= c THEN s - c ELSE s - c + N

\* The ticks to complete before the tick() that fires t: a timer of the current
\* slot that this tick() does not visit any more waits for a whole turn.
Remaining(t) ==
  rotation[t] * N
    + (IF ticking /\ slot[t] = cur /\ t \notin pending THEN N ELSE Distance(slot[t], cur))

CountdownInv == \A t \in live : age[t] + Remaining(t) = due[t] + late[t]

\* What tick() has still to visit is in its slot, and what it fires has no
\* rotation left.
VisitInv ==
  /\ ~ticking => pending = {}
  /\ \A t \in pending : slot[t] = cur
  /\ firing # None => rotation[firing] = 0

WheelInv == TypeOK /\ VisitInv /\ CountdownInv

-----------------------------------------------------------------------------
(* Arithmetic of the wheel.                                                *)

\* ticks/N turns and ticks%N slots make ticks.
LEMMA TurnsAndSlots ==
  ASSUME NEW k \in Nat, NEW n \in Nat \ {0}
  PROVE  /\ k \div n \in Nat
         /\ k % n \in 0 .. n - 1
         /\ (k \div n) * n + (k % n) = k
  <1>1. k \div n \in Nat
    OBVIOUS
  <1>2. k % n \in 0 .. n - 1
    OBVIOUS
  <1>3. (k \div n) * n + (k % n) = k
    OBVIOUS
  <1>4. QED
    BY <1>1, <1>2, <1>3

\* A slot m places further on.
LEMMA WrapAround ==
  ASSUME NEW n \in Nat \ {0}, NEW c \in 0 .. n - 1, NEW m \in 0 .. n - 1
  PROVE  (c + m) % n = IF c + m < n THEN c + m ELSE c + m - n
  OBVIOUS

\* The slot after cur_slot.
LEMMA NextSlot ==
  ASSUME NEW n \in Nat \ {0}, NEW c \in 0 .. n - 1
  PROVE  (c + 1) % n = IF c + 1 < n THEN c + 1 ELSE 0
  OBVIOUS

\* Rotations count whole turns.
LEMMA Turns ==
  ASSUME NEW n \in Nat \ {0}, NEW r \in Nat
  PROVE  r * n \in Nat /\ (r > 0 => (r - 1) * n = r * n - n)
  OBVIOUS

\* add_timer waits for at least one tick.
LEMMA TicksPositive ==
  ASSUME NEW timeout \in Int, timeout >= 0
  PROVE  Ticks(timeout) \in Nat
  <1>1. timeout \div SI \in Nat
    BY WheelAssumption, TurnsAndSlots
  <1>2. QED
    BY <1>1 DEF Ticks

-----------------------------------------------------------------------------

\* The empty wheel.
LEMMA InitWheelInv == Init => WheelInv
  <1> SUFFICES ASSUME Init PROVE WheelInv
    OBVIOUS
  <1>1. Zero \in [Timers -> Nat] /\ Zero \in [Timers -> 0 .. N - 1] /\ Zero \in [Timers -> {0, N}]
    BY WheelAssumption DEF Zero
  <1>2. TypeOK
    <2>1. /\ rotation \in [Timers -> Nat]
          /\ slot \in [Timers -> 0 .. N - 1]
          /\ age \in [Timers -> Nat]
          /\ due \in [Timers -> Nat]
          /\ late \in [Timers -> {0, N}]
      BY <1>1 DEF Init
    <2>2. cur \in 0 .. N - 1
      BY WheelAssumption DEF Init
    <2>3. ticking \in BOOLEAN /\ live \in SUBSET Timers /\ firing \in pending \cup {None}
      BY DEF Init
    <2>4. pending \in SUBSET live
      BY DEF Init
    <2>5. QED
      BY <2>1, <2>2, <2>3, <2>4 DEF TypeOK
  <1>3. VisitInv /\ CountdownInv
    BY DEF Init, VisitInv, CountdownInv
  <1>4. QED
    BY <1>2, <1>3 DEF WheelInv

\* add_timer puts the timer as many ticks ahead as its timeout is worth.
LEMMA AddWheelInv ==
  ASSUME WheelInv, NEW t \in Timers, NEW timeout \in Timeouts, Add(t, timeout)
  PROVE  WheelInv'
  <1> DEFINE k == Ticks(timeout)
  <1> USE WheelAssumption
  <1>1. k \in Nat
    BY TicksPositive DEF Add
  <1>2. /\ k \div N \in Nat
        /\ k % N \in 0 .. N - 1
        /\ (k \div N) * N + (k % N) = k
    BY <1>1, TurnsAndSlots
  <1>3. /\ cur \in 0 .. N - 1
        /\ (cur + (k % N)) % N = IF cur + (k % N) < N THEN cur + (k % N) ELSE cur + (k % N) - N
    BY <1>2, WrapAround DEF WheelInv, TypeOK
  <1> HIDE DEF k
  <1>4. /\ rotation' = [rotation EXCEPT ![t] = k \div N]
        /\ slot' = [slot EXCEPT ![t] = (cur + (k % N)) % N]
        /\ due' = [due EXCEPT ![t] = k]
        /\ late' = [late EXCEPT ![t] = IF ticking /\ k % N = 0 THEN N ELSE 0]
        /\ live' = live \cup {t}
        /\ age' = [age EXCEPT ![t] = 0]
        /\ t \notin live
        /\ UNCHANGED <<cur, ticking, pending, firing>>
    BY DEF Add, k
  <1>5. TypeOK'
    BY <1>1, <1>2, <1>3, <1>4 DEF WheelInv, TypeOK
  <1>6. VisitInv'
    BY <1>4 DEF WheelInv, TypeOK, VisitInv
  <1>7. CountdownInv'
    <2> SUFFICES ASSUME NEW u \in live'
                 PROVE  age'[u] + Remaining(u)' = due'[u] + late'[u]
      BY DEF CountdownInv
    <2>1. CASE u = t
      BY <1>1, <1>2, <1>3, <1>4, <2>1 DEF WheelInv, TypeOK, Remaining, Distance
    <2>2. CASE u # t
      BY <1>4, <2>2 DEF WheelInv, TypeOK, CountdownInv, Remaining, Distance
    <2>3. QED
      BY <2>1, <2>2
  <1>8. QED
    BY <1>5, <1>6, <1>7 DEF WheelInv

\* Deleting a timer, from outside or after its callback, leaves the others alone.
LEMMA ForgetWheelInv ==
  ASSUME WheelInv, NEW t \in Timers, Forget(t), UNCHANGED <<cur, ticking>>,
         firing' \in {firing, None}, firing' # t
  PROVE  WheelInv'
  <1> USE WheelAssumption
  <1>1. TypeOK'
    BY DEF WheelInv, TypeOK, Forget
  <1>2. VisitInv'
    BY DEF WheelInv, TypeOK, VisitInv, Forget
  <1>3. CountdownInv'
    BY DEF WheelInv, TypeOK, CountdownInv, Remaining, Distance, Forget
  <1>4. QED
    BY <1>1, <1>2, <1>3 DEF WheelInv

\* A step of tick() keeps every countdown.
LEMMA TickWheelInv ==
  ASSUME WheelInv, Tick
  PROVE  WheelInv'
  <1> USE WheelAssumption
  <1>1. CASE TickStart
    <2>1. \A t \in live : Remaining(t)' = Remaining(t)
      BY <1>1 DEF TickStart, WheelInv, TypeOK, VisitInv, Remaining, Distance
    <2>2. QED
      BY <1>1, <2>1 DEF TickStart, WheelInv, TypeOK, VisitInv, CountdownInv
  <1>2. ASSUME NEW t \in Timers, Skip(t) PROVE WheelInv'
    <2>1. t \in live /\ ticking /\ slot[t] = cur /\ rotation[t] \in Nat /\ rotation[t] > 0
      BY <1>2 DEF Skip, WheelInv, TypeOK, VisitInv
    <2>2. TypeOK' /\ VisitInv'
      BY <1>2, <2>1 DEF Skip, WheelInv, TypeOK, VisitInv
    <2>3. Remaining(t)' = Remaining(t)
      <3>1. (rotation[t] - 1) * N = rotation[t] * N - N /\ rotation[t] * N \in Nat
        BY <2>1, Turns
      <3>2. Remaining(t)' = (rotation[t] - 1) * N + N
        BY <1>2, <2>1 DEF Skip, WheelInv, TypeOK, Remaining
      <3>3. Remaining(t) = rotation[t] * N + 0
        BY <1>2, <2>1 DEF Skip, WheelInv, TypeOK, Remaining, Distance
      <3>4. QED
        BY <3>1, <3>2, <3>3
    <2>4. \A u \in live : u # t => Remaining(u)' = Remaining(u)
      BY <1>2 DEF Skip, WheelInv, TypeOK, Remaining, Distance
    <2>5. CountdownInv'
      BY <1>2, <2>3, <2>4 DEF Skip, WheelInv, CountdownInv
    <2>6. QED
      BY <2>2, <2>5 DEF WheelInv
  <1>3. ASSUME NEW t \in Timers, Call(t) PROVE WheelInv'
    BY <1>3 DEF Call, WheelInv, TypeOK, VisitInv, CountdownInv, Remaining, Distance
  <1>4. CASE Return
    <2>1. firing \in Timers
      BY <1>4 DEF Return, WheelInv, TypeOK
    <2>2. QED
      BY <1>4, <2>1, ForgetWheelInv DEF Return
  <1>5. CASE TickEnd
    <2>1. cur \in 0 .. N - 1 /\ cur' = IF cur + 1 < N THEN cur + 1 ELSE 0
      BY <1>5, NextSlot DEF TickEnd, WheelInv, TypeOK
    <2>2. TypeOK' /\ VisitInv'
      <3>1. age' \in [Timers -> Nat]
        BY <1>5 DEF TickEnd, WheelInv, TypeOK
      <3>2. cur' \in 0 .. N - 1
        BY <2>1
      <3>3. TypeOK'
        BY <1>5, <3>1, <3>2 DEF TickEnd, WheelInv, TypeOK
      <3>4. VisitInv'
        BY <1>5 DEF TickEnd, WheelInv, TypeOK, VisitInv
      <3>5. QED
        BY <3>3, <3>4
    <2>3. ASSUME NEW t \in live
          PROVE  Remaining(t)' = Remaining(t) - 1
      <3>1. slot[t] \in 0 .. N - 1 /\ rotation[t] * N \in Nat
        BY Turns DEF WheelInv, TypeOK
      <3>2. Remaining(t) = rotation[t] * N
                             + (IF slot[t] = cur THEN N ELSE Distance(slot[t], cur))
        BY <1>5 DEF TickEnd, Remaining
      <3>3. Remaining(t)' = rotation[t] * N + Distance(slot[t], cur')
        BY <1>5 DEF TickEnd, Remaining, Distance
      <3>4. QED
        BY <2>1, <3>1, <3>2, <3>3 DEF Distance
    <2>4. \A t \in live : Remaining(t) \in Int
      <3> SUFFICES ASSUME NEW t \in live PROVE Remaining(t) \in Int
        OBVIOUS
      <3>1. slot[t] \in 0 .. N - 1 /\ rotation[t] * N \in Nat
        BY Turns DEF WheelInv, TypeOK
      <3>2. QED
        BY <2>1, <3>1 DEF Remaining, Distance
    <2>5. CountdownInv'
      BY <1>5, <2>3, <2>4 DEF TickEnd, WheelInv, TypeOK, CountdownInv
    <2>6. QED
      BY <2>2, <2>5 DEF WheelInv
  <1>6. QED
    BY <1>1, <1>2, <1>3, <1>4, <1>5 DEF Tick

\* CountdownInv holds of every reachable wheel.
LEMMA WheelInvariant == Spec => []WheelInv
  <1>1. WheelInv /\ [Next]_vars => WheelInv'
    <2> SUFFICES ASSUME WheelInv, [Next]_vars PROVE WheelInv'
      OBVIOUS
    <2>1. ASSUME NEW t \in Timers, Del(t) PROVE WheelInv'
      BY <2>1, ForgetWheelInv DEF Del
    <2>2. CASE Destroy
      BY <2>2, WheelAssumption DEF Destroy, Zero, WheelInv, TypeOK, VisitInv, CountdownInv
    <2>3. CASE UNCHANGED vars
      BY <2>3 DEF vars, WheelInv, TypeOK, VisitInv, CountdownInv, Remaining, Distance
    <2>4. QED
      BY <2>1, <2>2, <2>3, AddWheelInv, TickWheelInv DEF Next
  <1>2. QED
    BY <1>1, InitWheelInv, PTL DEF Spec

\* Every field keeps its type.
THEOREM TypeTheorem == Spec => []TypeOK
  BY WheelInvariant, PTL DEF WheelInv

\* A timer fires at its tick, neither earlier nor later, however many slots and
\* rotations there are and whatever callbacks add and delete; none is passed over.
THEOREM FiresTheorem == Spec => []FiresWhenDue
  <1>1. ASSUME WheelInv, firing # None
        PROVE  age[firing] = due[firing] + late[firing]
    <2>1. /\ firing \in pending /\ firing \in live
          /\ slot[firing] = cur /\ rotation[firing] = 0
      BY <1>1 DEF WheelInv, TypeOK, VisitInv
    <2>2. Remaining(firing) = 0
      BY <1>1, <2>1, WheelAssumption DEF WheelInv, TypeOK, Remaining, Distance
    <2>3. QED
      BY <1>1, <2>1, <2>2 DEF WheelInv, TypeOK, CountdownInv
  <1>2. ASSUME WheelInv, NEW t \in live
        PROVE  age[t] <= due[t] + late[t]
    <2>1. rotation[t] * N \in Nat
      BY <1>2, WheelAssumption, Turns DEF WheelInv, TypeOK
    <2>2. Remaining(t) \in Nat
      BY <1>2, <2>1, WheelAssumption DEF WheelInv, TypeOK, Remaining, Distance
    <2>3. QED
      BY <1>2, <2>2 DEF WheelInv, TypeOK, CountdownInv
  <1>3. WheelInv => FiresWhenDue
    BY <1>1, <1>2 DEF FiresWhenDue
  <1>4. QED
    BY <1>3, WheelInvariant, PTL

-----------------------------------------------------------------------------

\* A set of natural numbers that is not empty has a least element.
LEMMA LeastNumber ==
  ASSUME NEW S \in SUBSET Nat, S # {}
  PROVE  \E n \in S : \A m \in S : n <= m
  <1> DEFINE R == {p \in Nat \X Nat : p[1] < p[2]}
  <1>1. IsWellFoundedOn(R, Nat)
    BY NatLessThanWellFounded DEF OpToRel
  <1>2. PICK n \in S : \A m \in S : <<m, n>> \notin R
    <2> HIDE DEF R
    <2>1. QED
      BY <1>1, WFMin
  <1>3. \A m \in S : ~(m < n)
    BY <1>2
  <1>4. QED
    BY <1>3

-----------------------------------------------------------------------------
(* The lists of the slots.  What the pointers lead to is described by the  *)
(* place each timer has in the list of its slot: add_timer moves the       *)
(* timers of a slot one place back, taking a timer out moves those behind  *)
(* it one place ahead.                                                     *)

\* Those of TimeWheelList that TimeWheel lacks.
VARIABLES
  slots, next, prev, mode, tmp

Lists == INSTANCE TimeWheelList WITH allocated <- live

\* Lists!From, of any pointers nx.
Reached(nx, t) ==
  LET reached[n \in 0 .. Cardinality(Timers)] ==
        IF n = 0 THEN {t} ELSE reached[n - 1] \cup {nx[u] : u \in reached[n - 1] \ {None}}
  IN  reached[Cardinality(Timers)] \ {None}

\* The timers From of the lists reaches, as an operator of the pointers.
LEMMA FromIsReached == ASSUME NEW t PROVE Lists!From(t) = Reached(next, t)
  BY Zenon DEF Lists!From, Reached, Lists!Cardinality, Cardinality

\* al are the timers of the lists that nx links, sl says of which list each of them
\* is, and d which place it has there.
Places(al, sl, nx, d) ==
  /\ al \subseteq Timers
  /\ d \in [Timers -> Nat]
  /\ \A t \in al : /\ nx[t] \in al \cup {None}
                   /\ nx[t] # None => sl[nx[t]] = sl[t] /\ d[nx[t]] = d[t] + 1
                   /\ d[t] # 0 => \E p \in al : sl[p] = sl[t] /\ d[t] = d[p] + 1 /\ nx[p] = t
  /\ \A t, u \in al : sl[t] = sl[u] /\ d[t] = d[u] => t = u

\* All places before that of a timer are taken.
LEMMA PlacesBefore ==
  ASSUME NEW al, NEW sl, NEW nx, NEW d, Places(al, sl, nx, d), NEW t \in al,
         NEW n \in 0 .. d[t]
  PROVE  \E u \in al : sl[u] = sl[t] /\ d[u] = d[t] - n
  <1> DEFINE S == {m \in Nat : m <= d[t] /\ ~\E u \in al : sl[u] = sl[t] /\ d[u] = d[t] - m}
  <1>1. CASE S = {}
    BY <1>1 DEF Places
  <1>2. CASE S # {}
    <2>1. PICK m \in S : \A k \in S : m <= k
      BY <1>2, LeastNumber
    <2>2. m \in Nat /\ m <= d[t] /\ d[t] \in Nat /\ t \in Timers
      BY <2>1 DEF Places
    <2>3. m # 0
      BY <2>1, <2>2
    <2>4. m - 1 \in Nat /\ m - 1 \notin S
      BY <2>1, <2>2, <2>3
    <2>5. PICK u \in al : sl[u] = sl[t] /\ d[u] = d[t] - (m - 1)
      BY <2>2, <2>4
    <2>6. d[u] # 0
      BY <2>2, <2>5
    <2>7. PICK p \in al : sl[p] = sl[u] /\ d[u] = d[p] + 1
      BY <2>6 DEF Places
    <2>8. d[p] \in Nat /\ d[p] = d[t] - m
      BY <2>2, <2>5, <2>7 DEF Places
    <2>9. QED
      BY <2>1, <2>5, <2>7, <2>8
  <1>3. QED
    BY <1>1, <1>2

\* A place is a number below that of the timers.
LEMMA PlacesBounded ==
  ASSUME IsFiniteSet(Timers), NEW al, NEW sl, NEW nx, NEW d, Places(al, sl, nx, d), NEW t \in al
  PROVE  Cardinality(Timers) \in Nat /\ d[t] < Cardinality(Timers)
  <1> DEFINE At(n) == CHOOSE u \in al : sl[u] = sl[t] /\ d[u] = d[t] - n
             f == [n \in 0 .. d[t] |-> At(n)]
  <1>1. d[t] \in Nat /\ al \subseteq Timers
    BY DEF Places
  <1>2. ASSUME NEW n \in 0 .. d[t]
        PROVE  At(n) \in al /\ d[At(n)] = d[t] - n
    BY PlacesBefore
  <1>3. f \in Injection(0 .. d[t], Timers)
    <2> HIDE DEF At
    <2>1. f \in [0 .. d[t] -> Timers]
      BY <1>1, <1>2
    <2>2. ASSUME NEW m \in 0 .. d[t], NEW n \in 0 .. d[t], f[m] = f[n]
          PROVE  m = n
      BY <1>1, <1>2, <2>2
    <2>3. QED
      BY <2>1, <2>2 DEF Injection, IsInjective
  <1> HIDE DEF f
  <1>4. Cardinality(0 .. d[t]) <= Cardinality(Timers) /\ Cardinality(Timers) \in Nat
    BY <1>3, FS_Injection, FS_CardinalityType
  <1>5. Cardinality(0 .. d[t]) = d[t] + 1
    BY <1>1, FS_Interval
  <1>6. QED
    BY <1>1, <1>4, <1>5

\* One step further from the timers of A, and what Lists!From computes.
Further(nx, A) == A \cup {nx[u] : u \in A \ {None}}
Solves(c, nx, t) ==
  c = [n \in 0 .. Cardinality(Timers) |-> IF n = 0 THEN {t} ELSE Further(nx, c[n - 1])]

\* The recursion has one solution.
LEMMA OneSolution ==
  ASSUME IsFiniteSet(Timers), NEW nx, NEW t, NEW c, Solves(c, nx, t)
  PROVE  Reached(nx, t) = c[Cardinality(Timers)] \ {None}
  <1> DEFINE K == Cardinality(Timers)
             r == CHOOSE g : Solves(g, nx, t)
  <1>1. K \in Nat
    BY FS_CardinalityType
  <1>2. Solves(r, nx, t)
    OBVIOUS
  <1>3. Reached(nx, t) = r[K] \ {None}
    BY DEF Reached, Solves, Further
  <1> HIDE DEF r
  <1>4. ASSUME NEW g, Solves(g, nx, t)
        PROVE  g[0] = {t} /\ \A n \in 1 .. K : g[n] = Further(nx, g[n - 1])
    <2> DEFINE h == [n \in 0 .. K |-> IF n = 0 THEN {t} ELSE Further(nx, g[n - 1])]
    <2>1. h[0] = {t} /\ \A n \in 1 .. K : h[n] = Further(nx, g[n - 1])
      BY <1>1
    <2>2. g = h
      BY <1>4 DEF Solves
    <2> HIDE DEF h
    <2>3. QED
      BY <2>1, <2>2
  <1>5. /\ r[0] = c[0]
        /\ \A n \in 1 .. K : r[n] = Further(nx, r[n - 1]) /\ c[n] = Further(nx, c[n - 1])
    BY <1>2, <1>4
  <1> HIDE DEF K
  <1>6. r[K] = c[K]
    <2> DEFINE S == {m \in Nat : m <= K /\ r[m] # c[m]}
    <2>1. CASE S = {}
      BY <1>1, <2>1
    <2>2. CASE S # {}
      <3>1. PICK m \in S : \A k \in S : m <= k
        BY <2>2, LeastNumber
      <3>2. m # 0
        BY <1>5, <3>1
      <3>3. m - 1 \in Nat /\ m \in 1 .. K /\ r[m - 1] = c[m - 1]
        BY <1>1, <3>1, <3>2
      <3>4. r[m] = c[m]
        BY <1>5, <3>3
      <3>5. QED
        BY <3>1, <3>4
    <2>3. QED
      BY <2>1, <2>2
  <1>7. QED
    BY <1>3, <1>6 DEF K

\* None leads nowhere.
LEMMA FromNone ==
  ASSUME IsFiniteSet(Timers), NEW nx
  PROVE  Reached(nx, None) = {}
  <1> DEFINE K == Cardinality(Timers)
             C == [n \in 0 .. K |-> {None}]
  <1>1. K \in Nat
    BY FS_CardinalityType
  <1>2. \A n \in 0 .. K : n # 0 => Further(nx, C[n - 1]) = {None}
    BY <1>1 DEF Further
  <1>3. Solves(C, nx, None)
    BY <1>2 DEF Solves
  <1>4. C[K] = {None}
    BY <1>1
  <1> HIDE DEF C
  <1>5. QED
    BY <1>3, <1>4, OneSolution

\* From t on the pointers lead to the timers behind it, each place a step.
LEMMA FromPlace ==
  ASSUME IsFiniteSet(Timers), None \notin Timers,
         NEW al, NEW sl, NEW nx, NEW d, Places(al, sl, nx, d), NEW t \in al
  PROVE  Reached(nx, t) = {u \in al : sl[u] = sl[t] /\ d[u] >= d[t]}
  <1> DEFINE K == Cardinality(Timers)
             After(n) == {u \in al : sl[u] = sl[t] /\ d[t] <= d[u] /\ d[u] <= d[t] + n}
             Ends(n) == \E u \in al : sl[u] = sl[t] /\ d[t] <= d[u] /\ d[u] < d[t] + n /\ nx[u] = None
             C(n) == After(n) \cup {x \in {None} : Ends(n)}
             c == [n \in 0 .. K |-> C(n)]
  <1>1. K \in Nat /\ al \subseteq Timers /\ None \notin al /\ d[t] \in Nat
    BY FS_CardinalityType DEF Places
  <1>2. C(0) = {t}
    BY <1>1 DEF Places
  <1>3. ASSUME NEW n \in Nat, n # 0
        PROVE  C(n) = Further(nx, C(n - 1))
    <2> USE DEF Further
    <2>1. ASSUME NEW v \in C(n)
          PROVE  v \in Further(nx, C(n - 1))
      <3>1. CASE v \in al /\ d[v] <= d[t] + (n - 1)
        BY <1>1, <1>3, <2>1, <3>1
      <3>2. CASE v \in al /\ ~(d[v] <= d[t] + (n - 1))
        <4>1. d[v] \in Nat /\ d[v] = d[t] + n /\ sl[v] = sl[t]
          BY <1>1, <1>3, <2>1, <3>2 DEF Places
        <4>2. PICK p \in al : sl[p] = sl[v] /\ d[v] = d[p] + 1 /\ nx[p] = v
          BY <1>1, <1>3, <3>2, <4>1 DEF Places
        <4>3. d[p] \in Nat /\ p \in After(n - 1) /\ p # None
          BY <1>1, <1>3, <4>1, <4>2 DEF Places
        <4>4. QED
          BY <4>2, <4>3
      <3>3. CASE v = None
        <4>1. PICK u \in al : sl[u] = sl[t] /\ d[t] <= d[u] /\ d[u] < d[t] + n /\ nx[u] = None
          BY <1>1, <2>1, <3>3
        <4>2. u \in After(n - 1) /\ u # None
          BY <1>1, <1>3, <4>1 DEF Places
        <4>3. QED
          BY <3>3, <4>1, <4>2
      <3>4. QED
        BY <2>1, <3>1, <3>2, <3>3
    <2>2. ASSUME NEW v \in Further(nx, C(n - 1))
          PROVE  v \in C(n)
      <3>1. CASE v \in After(n - 1)
        BY <1>1, <1>3, <3>1 DEF Places
      <3>2. CASE v = None /\ Ends(n - 1)
        BY <1>1, <1>3, <3>2 DEF Places
      <3>3. ASSUME NEW u \in After(n - 1), v = nx[u]
            PROVE  v \in C(n)
        <4>1. u \in al /\ sl[u] = sl[t] /\ d[t] <= d[u] /\ d[u] <= d[t] + (n - 1) /\ d[u] \in Nat
          BY <1>1 DEF Places
        <4>2. CASE v = None
          <5>1. nx[u] = None /\ d[u] < d[t] + n
            BY <1>1, <1>3, <3>3, <4>1, <4>2
          <5>2. Ends(n)
            BY <4>1, <5>1
          <5>3. QED
            BY <4>2, <5>2
        <4>3. CASE v # None
          <5>1. v \in al /\ sl[v] = sl[t] /\ d[v] = d[u] + 1
            BY <3>3, <4>1, <4>3 DEF Places
          <5>2. QED
            BY <1>1, <1>3, <4>1, <5>1
        <4>4. QED
          BY <4>2, <4>3
      <3>4. QED
        BY <2>2, <3>1, <3>2, <3>3
    <2>3. QED
      BY <2>1, <2>2
  <1>4. Solves(c, nx, t)
    <2> HIDE DEF C
    <2>1. ASSUME NEW n \in 0 .. K
          PROVE  C(n) = IF n = 0 THEN {t} ELSE Further(nx, c[n - 1])
      BY <1>1, <1>2, <1>3
    <2>2. QED
      BY <2>1 DEF Solves
  <1> HIDE DEF c
  <1>5. Reached(nx, t) = c[K] \ {None}
    BY <1>4, OneSolution
  <1>6. c[K] = C(K)
    BY <1>1 DEF c
  <1>8. C(K) \ {None} = {u \in al : sl[u] = sl[t] /\ d[u] >= d[t]}
    <2>1. ASSUME NEW u \in al
          PROVE  d[u] \in Nat /\ d[u] <= d[t] + K
      <3>1. d[u] \in Nat
        BY DEF Places
      <3>2. d[u] < K
        BY PlacesBounded
      <3>3. QED
        BY <1>1, <3>1, <3>2
    <2>2. QED
      BY <1>1, <2>1
  <1>9. QED
    BY <1>5, <1>6, <1>8

-----------------------------------------------------------------------------

\* The lists of the slots ss are linked in both directions, the timer at place 0
\* of each first, and al are the timers of all of them.
Linked(al, sl, ss, nx, pv, d) ==
  /\ Places(al, sl, nx, d)
  /\ sl \in [Timers -> 0 .. N - 1]
  /\ ss \in [0 .. N - 1 -> al \cup {None}]
  /\ nx \in [Timers -> al \cup {None}] /\ pv \in [Timers -> al \cup {None}]
  /\ \A i \in 0 .. N - 1 : ss[i] # None => sl[ss[i]] = i /\ d[ss[i]] = 0
  /\ \A t \in Timers \ al : nx[t] = None /\ pv[t] = None
  /\ \A t \in al :
       /\ d[t] = 0 => ss[sl[t]] = t /\ pv[t] = None
       /\ d[t] # 0 => pv[t] # None /\ nx[pv[t]] = t
       /\ nx[t] # None => pv[nx[t]] = t

\* add_timer: one timer comes before those of its slot.
Shifted(al, sl, d, t, i) ==
  [u \in Timers |-> IF u = t THEN 0 ELSE IF u \in al /\ sl[u] = i THEN d[u] + 1 ELSE d[u]]

\* add_timer: the lists stay linked when t becomes the first of slot i.
LEMMA Inserted ==
  ASSUME NEW al, NEW sl, NEW ss, NEW nx, NEW pv, NEW d, Linked(al, sl, ss, nx, pv, d),
         NEW t \in Timers \ al, NEW i \in 0 .. N - 1
  PROVE  Linked(al \cup {t}, [sl EXCEPT ![t] = i], [ss EXCEPT ![i] = t],
                [nx EXCEPT ![t] = ss[i]], Lists!Set(pv, ss[i], t), Shifted(al, sl, d, t, i))
  <1> DEFINE al2 == al \cup {t}
             sl2 == [sl EXCEPT ![t] = i]
             ss2 == [ss EXCEPT ![i] = t]
             nx2 == [nx EXCEPT ![t] = ss[i]]
             pv2 == Lists!Set(pv, ss[i], t)
             d2 == Shifted(al, sl, d, t, i)
  <1> USE WheelAssumption DEF Linked, Places
  <1>1. /\ sl2 \in [Timers -> 0 .. N - 1] /\ ss2 \in [0 .. N - 1 -> al2 \cup {None}]
        /\ nx2 \in [Timers -> al2 \cup {None}] /\ d2 \in [Timers -> Nat]
    BY DEF Shifted
  <1>2. pv2 \in [Timers -> al2 \cup {None}]
    BY DEF Lists!Set
  <1>3. al2 \subseteq Timers /\ None \notin al2
    OBVIOUS
  <1>4. sl2[t] = i /\ ss2[i] = t /\ nx2[t] = ss[i] /\ d2[t] = 0 /\ pv2[t] = None
    BY DEF Shifted, Lists!Set
  <1>5. \A u \in al :
          /\ sl2[u] = sl[u] /\ nx2[u] = nx[u]
          /\ d2[u] = IF sl[u] = i THEN d[u] + 1 ELSE d[u]
          /\ pv2[u] = IF u = ss[i] THEN t ELSE pv[u]
    BY DEF Shifted, Lists!Set
  <1>6. \A u \in Timers \ al2 : nx2[u] = None /\ pv2[u] = None
    BY DEF Lists!Set
  <1>7. \A k \in 0 .. N - 1 : k # i => ss2[k] = ss[k]
    OBVIOUS
  <1> HIDE DEF al2, sl2, ss2, nx2, pv2, d2
  <1>8. ASSUME NEW u \in al2
        PROVE  /\ nx2[u] \in al2 \cup {None}
               /\ nx2[u] # None => sl2[nx2[u]] = sl2[u] /\ d2[nx2[u]] = d2[u] + 1 /\ pv2[nx2[u]] = u
               /\ d2[u] # 0 => pv2[u] \in al2 /\ nx2[pv2[u]] = u /\ sl2[pv2[u]] = sl2[u]
                               /\ d2[u] = d2[pv2[u]] + 1
               /\ d2[u] = 0 => ss2[sl2[u]] = u /\ pv2[u] = None
    <2>1. CASE u = t
      BY <1>1, <1>3, <1>4, <1>5, <2>1
    <2>2. CASE u \in al
      <3>1. /\ nx2[u] \in al2 \cup {None}
            /\ nx2[u] # None => sl2[nx2[u]] = sl2[u] /\ d2[nx2[u]] = d2[u] + 1 /\ pv2[nx2[u]] = u
        <4>1. CASE nx[u] = None
          BY <1>5, <2>2, <4>1
        <4>2. CASE nx[u] # None
          <5>1. /\ nx[u] \in al /\ sl[nx[u]] = sl[u] /\ d[nx[u]] = d[u] + 1 /\ pv[nx[u]] = u
                /\ d[u] \in Nat
            BY <2>2, <4>2
          <5>2. nx[u] # ss[i]
            BY <4>2, <5>1
          <5>3. QED
            BY <1>3, <1>5, <2>2, <4>2, <5>1, <5>2 DEF al2
        <4>3. QED
          BY <4>1, <4>2
      <3>2. CASE u = ss[i]
        <4>1. sl[u] = i /\ d[u] = 0 /\ u # None
          BY <1>3, <2>2, <3>2 DEF al2
        <4>2. QED
          BY <1>4, <1>5, <2>2, <3>1, <3>2, <4>1 DEF al2
      <3>3. CASE u # ss[i] /\ d[u] = 0
        <4>1. ss[sl[u]] = u /\ pv[u] = None /\ sl[u] \in 0 .. N - 1 /\ sl[u] # i
          BY <2>2, <3>3
        <4>2. QED
          BY <1>4, <1>5, <1>7, <2>2, <3>1, <3>3, <4>1
      <3>4. CASE u # ss[i] /\ d[u] # 0
        <4>1. pv[u] \in al /\ nx[pv[u]] = u /\ u # None
          BY <1>3, <2>2, <3>4 DEF al2
        <4>2. sl[pv[u]] = sl[u] /\ d[u] = d[pv[u]] + 1 /\ d[u] \in Nat /\ d[pv[u]] \in Nat
          BY <2>2, <4>1
        <4>3. d2[u] # 0
          BY <1>5, <2>2, <3>4, <4>2
        <4>4. QED
          BY <1>5, <2>2, <3>1, <3>4, <4>1, <4>2, <4>3 DEF al2
      <3>5. QED
        BY <3>2, <3>3, <3>4
    <2>3. QED
      BY <2>1, <2>2 DEF al2
  <1>9. \A u, v \in al2 : sl2[u] = sl2[v] /\ d2[u] = d2[v] => u = v
    BY <1>1, <1>4, <1>5 DEF al2
  <1>10. \A k \in 0 .. N - 1 : ss2[k] # None => sl2[ss2[k]] = k /\ d2[ss2[k]] = 0
    <2>1. ASSUME NEW k \in 0 .. N - 1, k # i, ss[k] # None
          PROVE  sl2[ss[k]] = k /\ d2[ss[k]] = 0
      BY <1>5, <2>1
    <2>2. QED
      BY <1>4, <1>7, <2>1
  <1>11. Places(al2, sl2, nx2, d2)
    BY <1>1, <1>3, <1>8, <1>9
  <1>12. Linked(al2, sl2, ss2, nx2, pv2, d2)
    BY <1>1, <1>2, <1>3, <1>6, <1>8, <1>10, <1>11
  <1>13. QED
    BY <1>12 DEF al2, sl2, ss2, nx2, pv2, d2

\* del_timer, and tick() behind a callback: the neighbours of a timer are linked.
Closed(al, sl, d, t) ==
  [u \in Timers |-> IF u \in al /\ sl[u] = sl[t] /\ d[u] > d[t] THEN d[u] - 1 ELSE d[u]]

\* del_timer and tick(): the lists stay linked when t is taken out.
LEMMA Removed ==
  ASSUME NEW al, NEW sl, NEW ss, NEW nx, NEW pv, NEW d, Linked(al, sl, ss, nx, pv, d), NEW t \in al
  PROVE  Linked(al \ {t}, [sl EXCEPT ![t] = 0],
                [i \in 0 .. N - 1 |-> IF ss[i] = t THEN nx[t] ELSE ss[i]],
                [u \in Timers |-> IF u = t THEN None ELSE IF u = pv[t] THEN nx[t] ELSE nx[u]],
                [u \in Timers |-> IF u = t THEN None ELSE IF u = nx[t] THEN pv[t] ELSE pv[u]],
                Closed(al, sl, d, t))
  <1> DEFINE al2 == al \ {t}
             sl2 == [sl EXCEPT ![t] = 0]
             ss2 == [i \in 0 .. N - 1 |-> IF ss[i] = t THEN nx[t] ELSE ss[i]]
             nx2 == [u \in Timers |-> IF u = t THEN None ELSE IF u = pv[t] THEN nx[t] ELSE nx[u]]
             pv2 == [u \in Timers |-> IF u = t THEN None ELSE IF u = nx[t] THEN pv[t] ELSE pv[u]]
             d2 == Closed(al, sl, d, t)
  <1> USE WheelAssumption
  <1>1. /\ al \subseteq Timers /\ None \notin al /\ t \in Timers
        /\ d \in [Timers -> Nat] /\ sl \in [Timers -> 0 .. N - 1]
    BY DEF Linked, Places
  \* A timer and the one behind it.
  <1>2. ASSUME NEW u \in al, nx[u] # None
        PROVE  nx[u] \in al /\ sl[nx[u]] = sl[u] /\ d[nx[u]] = d[u] + 1 /\ pv[nx[u]] = u
    BY <1>2 DEF Linked, Places
  \* A timer and the one before it.
  <1>3. ASSUME NEW u \in al, d[u] # 0
        PROVE  pv[u] \in al /\ nx[pv[u]] = u /\ sl[pv[u]] = sl[u] /\ d[u] = d[pv[u]] + 1
    <2>1. pv[u] \in al /\ nx[pv[u]] = u
      BY <1>1, <1>3 DEF Linked
    <2>2. QED
      BY <1>1, <1>2, <2>1
  \* The first timer of a slot.
  <1>4. ASSUME NEW u \in al, d[u] = 0
        PROVE  ss[sl[u]] = u /\ pv[u] = None
    BY <1>4 DEF Linked
  <1>5. ASSUME NEW i \in 0 .. N - 1, ss[i] # None
        PROVE  ss[i] \in al /\ sl[ss[i]] = i /\ d[ss[i]] = 0
    BY <1>5 DEF Linked
  <1>6. \A u, v \in al : sl[u] = sl[v] /\ d[u] = d[v] => u = v
    BY DEF Linked, Places
  <1>7. /\ \A u \in al : nx[u] \in al \cup {None} /\ pv[u] \in al \cup {None}
        /\ \A u \in Timers \ al : nx[u] = None /\ pv[u] = None
    BY <1>1 DEF Linked
  <1>8. \A u \in al2 :
          /\ u \in al /\ u # t /\ u \in Timers
          /\ sl2[u] = sl[u]
          /\ nx2[u] = IF u = pv[t] THEN nx[t] ELSE nx[u]
          /\ pv2[u] = IF u = nx[t] THEN pv[t] ELSE pv[u]
          /\ d2[u] = IF sl[u] = sl[t] /\ d[u] > d[t] THEN d[u] - 1 ELSE d[u]
    BY <1>1 DEF Closed
  <1>9. \A i \in 0 .. N - 1 : ss2[i] = IF ss[i] = t THEN nx[t] ELSE ss[i]
    OBVIOUS
  <1>10. /\ sl2 \in [Timers -> 0 .. N - 1] /\ d2 \in [Timers -> Nat]
    BY <1>1 DEF Closed
  <1>11. \A u \in Timers \ al2 : nx2[u] = None /\ pv2[u] = None
    BY <1>1, <1>7
  <1>12. t \notin {nx[t], pv[t]}
    BY <1>1, <1>2, <1>3, <1>4
  <1>13. \A u \in al2 : nx[u] = t => u = pv[t]
    BY <1>1, <1>2, <1>8
  <1>14. \A u \in al2 : pv[u] = t => u = nx[t]
    BY <1>1, <1>3, <1>4, <1>8
  <1>15. \A i \in 0 .. N - 1 : ss2[i] \in al2 \cup {None}
    BY <1>5, <1>7, <1>9, <1>12
  <1>16. \A u \in Timers : nx2[u] \in al2 \cup {None} /\ pv2[u] \in al2 \cup {None}
    <2>1. ASSUME NEW u \in al2
          PROVE  nx2[u] \in al2 \cup {None} /\ pv2[u] \in al2 \cup {None}
      <3>1. nx[t] \in al2 \cup {None} /\ pv[t] \in al2 \cup {None}
        BY <1>7, <1>12
      <3>2. (u # pv[t] => nx[u] \in al2 \cup {None}) /\ (u # nx[t] => pv[u] \in al2 \cup {None})
        BY <1>7, <1>8, <1>13, <1>14
      <3>3. QED
        BY <1>8, <3>1, <3>2
    <2>2. QED
      BY <1>11, <2>1
  <1>17. nx2 \in [Timers -> al2 \cup {None}] /\ pv2 \in [Timers -> al2 \cup {None}]
         /\ ss2 \in [0 .. N - 1 -> al2 \cup {None}]
    BY <1>15, <1>16
  <1> HIDE DEF al2, sl2, ss2, nx2, pv2, d2
  <1>18. ASSUME NEW u \in al2, NEW w \in al2, sl[w] = sl[u], d[w] = d[u] + 1
         PROVE  d2[w] = d2[u] + 1
    <2>1. d[u] \in Nat /\ d[t] \in Nat
      BY <1>1, <1>8
    <2>2. sl[u] = sl[t] => d[u] # d[t]
      BY <1>6, <1>8
    <2>3. QED
      BY <1>8, <1>18, <2>1, <2>2
  <1>19. ASSUME NEW u \in al2, nx2[u] # None
         PROVE  /\ sl2[nx2[u]] = sl2[u] /\ d2[nx2[u]] = d2[u] + 1 /\ pv2[nx2[u]] = u
    <2>1. nx2[u] \in al2
      BY <1>1, <1>8, <1>17, <1>19
    <2>2. CASE u = pv[t]
      <3>1. nx2[u] = nx[t] /\ nx[t] \in al2 /\ nx[t] # None
        BY <1>8, <1>19, <2>1, <2>2
      <3>2. d[t] # 0
        BY <1>1, <1>4, <1>8, <2>2
      <3>3. sl[u] = sl[t] /\ d[t] = d[u] + 1
        BY <1>3, <2>2, <3>2
      <3>4. sl[nx[t]] = sl[t] /\ d[nx[t]] = d[t] + 1
        BY <1>2, <3>1
      <3>5. d[u] \in Nat /\ d[t] \in Nat
        BY <1>1, <1>8
      <3>6. QED
        BY <1>8, <2>2, <3>1, <3>3, <3>4, <3>5
    <2>3. CASE u # pv[t]
      <3>1. nx2[u] = nx[u] /\ nx[u] \in al2 /\ nx[u] # None
        BY <1>8, <1>19, <2>1, <2>3
      <3>2. sl[nx[u]] = sl[u] /\ d[nx[u]] = d[u] + 1 /\ pv[nx[u]] = u
        BY <1>2, <1>8, <3>1
      <3>3. nx[u] # nx[t]
        BY <1>2, <1>8, <3>1, <3>2
      <3>4. QED
        BY <1>8, <1>18, <3>1, <3>2, <3>3
    <2>4. QED
      BY <2>2, <2>3
  <1>20. ASSUME NEW u \in al2
         PROVE  /\ d2[u] = 0 => ss2[sl2[u]] = u /\ pv2[u] = None
                /\ d2[u] # 0 => /\ pv2[u] \in al2 /\ nx2[pv2[u]] = u
                                /\ sl2[pv2[u]] = sl2[u] /\ d2[u] = d2[pv2[u]] + 1
    <2>1. d[u] \in Nat /\ d[t] \in Nat /\ sl[u] \in 0 .. N - 1 /\ u # None
      BY <1>1, <1>8
    <2>2. CASE u = nx[t]
      <3>1. sl[u] = sl[t] /\ d[u] = d[t] + 1 /\ d2[u] = d[t] /\ pv2[u] = pv[t]
        BY <1>2, <1>8, <2>1, <2>2
      <3>2. CASE d[t] = 0
        BY <1>4, <1>8, <1>9, <2>1, <2>2, <3>1, <3>2
      <3>3. CASE d[t] # 0
        <4>1. pv[t] \in al2 /\ nx[pv[t]] = t /\ sl[pv[t]] = sl[t] /\ d[t] = d[pv[t]] + 1
          BY <1>3, <1>12, <3>3 DEF al2
        <4>2. d[pv[t]] \in Nat
          BY <1>1, <1>8, <4>1
        <4>3. QED
          BY <1>8, <2>1, <2>2, <3>1, <3>3, <4>1, <4>2
      <3>4. QED
        BY <3>2, <3>3
    <2>3. CASE u # nx[t] /\ d[u] = 0
      <3>1. ss[sl[u]] = u /\ pv[u] = None
        BY <1>4, <1>8, <2>3
      <3>2. d2[u] = 0 /\ ss2[sl[u]] = u
        BY <1>8, <1>9, <2>1, <2>3, <3>1
      <3>3. QED
        BY <1>8, <2>3, <3>1, <3>2
    <2>4. CASE u # nx[t] /\ d[u] # 0
      <3>1. pv[u] \in al /\ nx[pv[u]] = u /\ sl[pv[u]] = sl[u] /\ d[u] = d[pv[u]] + 1
        BY <1>3, <1>8, <2>4
      <3>2. pv[u] \in al2
        BY <2>4, <3>1 DEF al2
      <3>3. pv[u] # pv[t]
        <4>1. CASE d[t] = 0
          BY <1>1, <1>4, <3>1, <4>1
        <4>2. CASE d[t] # 0
          BY <1>3, <1>8, <3>1, <4>2
        <4>3. QED
          BY <4>1, <4>2
      <3>4. d2[u] = d2[pv[u]] + 1 /\ d2[pv[u]] \in Nat
        BY <1>1, <1>8, <1>10, <1>18, <3>1, <3>2
      <3>5. QED
        BY <1>8, <2>4, <3>1, <3>2, <3>3, <3>4
    <2>5. QED
      BY <2>2, <2>3, <2>4
  <1>21. \A u, v \in al2 : sl2[u] = sl2[v] /\ d2[u] = d2[v] => u = v
    <2>1. ASSUME NEW u \in al2, NEW v \in al2, sl[u] = sl[v], d2[u] = d2[v]
          PROVE  u = v
      <3>1. d[u] \in Nat /\ d[v] \in Nat /\ d[t] \in Nat
        BY <1>1, <1>8
      <3>2. sl[u] = sl[t] => d[u] # d[t]
        BY <1>6, <1>8
      <3>3. sl[v] = sl[t] => d[v] # d[t]
        BY <1>6, <1>8
      <3>4. d[u] = d[v]
        BY <1>8, <2>1, <3>1, <3>2, <3>3
      <3>5. QED
        BY <1>6, <1>8, <2>1, <3>4
    <2>2. QED
      BY <1>8, <2>1
  <1>22. \A i \in 0 .. N - 1 : ss2[i] # None => sl2[ss2[i]] = i /\ d2[ss2[i]] = 0
    <2>1. ASSUME NEW i \in 0 .. N - 1, ss2[i] # None
          PROVE  sl2[ss2[i]] = i /\ d2[ss2[i]] = 0
      <3>1. ss2[i] \in al2
        BY <1>17, <2>1
      <3>2. CASE ss[i] = t
        <4>1. ss2[i] = nx[t] /\ nx[t] # None /\ sl[t] = i /\ d[t] = 0
          BY <1>1, <1>5, <1>9, <2>1, <3>2
        <4>2. sl[nx[t]] = i /\ d[nx[t]] = 1
          BY <1>2, <4>1
        <4>3. QED
          BY <1>8, <3>1, <4>1, <4>2
      <3>3. CASE ss[i] # t
        <4>1. ss2[i] = ss[i] /\ sl[ss[i]] = i /\ d[ss[i]] = 0
          BY <1>5, <1>9, <2>1, <3>3
        <4>2. QED
          BY <1>1, <1>8, <3>1, <4>1
      <3>4. QED
        BY <3>2, <3>3
    <2>2. QED
      BY <2>1
  <1>23. al2 \subseteq Timers
    BY <1>1 DEF al2
  <1>24. Places(al2, sl2, nx2, d2)
    BY <1>10, <1>17, <1>19, <1>20, <1>21, <1>23 DEF Places
  <1>25. Linked(al2, sl2, ss2, nx2, pv2, d2)
    BY <1>1, <1>10, <1>11, <1>17, <1>19, <1>20, <1>22, <1>24 DEF Linked, al2
  <1>26. QED
    BY <1>25 DEF al2, sl2, ss2, nx2, pv2, d2

-----------------------------------------------------------------------------

\* What tick() is at is in its slot, and nothing between ticks.
CursorInv ==
  /\ mode \in {"idle", "visiting", "calling"}
  /\ tmp \in live \cup {None}
  /\ tmp # None => slot[tmp] = cur
  /\ mode = "idle" => tmp = None
  /\ mode = "calling" => tmp # None

ListsInv ==
  /\ cur \in 0 .. N - 1
  /\ CursorInv
  /\ \E d \in [Timers -> Nat] : Linked(live, slot, slots, next, prev, d)

\* The timers at the place of t in its list and behind it.
Ahead(al, sl, d, t) == {u \in al : t # None /\ sl[u] = sl[t] /\ d[u] >= d[t]}

\* What is reached along the pointers, now and in the next state.
LEMMA FromMeans ==
  ASSUME Lists!ListsAssumption,
         NEW al, NEW sl, NEW ss, NEW nx, NEW pv, NEW d, Linked(al, sl, ss, nx, pv, d),
         NEW t \in al \cup {None}
  PROVE  Reached(nx, t) = Ahead(al, sl, d, t)
  <1>1. IsFiniteSet(Timers) /\ None \notin Timers /\ Places(al, sl, nx, d) /\ None \notin al
    BY WheelAssumption DEF Lists!ListsAssumption, Lists!IsFiniteSet, IsFiniteSet, Linked, Places
  <1>2. CASE t = None
    BY <1>1, <1>2, FromNone DEF Ahead
  <1>3. CASE t \in al
    BY <1>1, <1>3, FromPlace DEF Ahead
  <1>4. QED
    BY <1>2, <1>3

\* An Unlink takes t out of its list.
LEMMA UnlinkMeans ==
  ASSUME NEW d, Linked(live, slot, slots, next, prev, d), NEW t \in live,
         Lists!Unlink(t, slot[t])
  PROVE  /\ slots' = [i \in 0 .. N - 1 |-> IF slots[i] = t THEN next[t] ELSE slots[i]]
         /\ next' = [u \in Timers |-> IF u = t THEN None ELSE IF u = prev[t] THEN next[t] ELSE next[u]]
         /\ prev' = [u \in Timers |-> IF u = t THEN None ELSE IF u = next[t] THEN prev[t] ELSE prev[u]]
         /\ live' = live \ {t}
         /\ slot' = [slot EXCEPT ![t] = 0] /\ rotation' = [rotation EXCEPT ![t] = 0]
         /\ age' = [age EXCEPT ![t] = 0] /\ due' = [due EXCEPT ![t] = 0]
         /\ late' = [late EXCEPT ![t] = 0]
  <1>1. /\ live \subseteq Timers /\ None \notin live /\ slot[t] \in 0 .. N - 1
        /\ slots \in [0 .. N - 1 -> live \cup {None}]
        /\ next \in [Timers -> live \cup {None}] /\ prev \in [Timers -> live \cup {None}]
    BY WheelAssumption DEF Linked, Places
  <1>2. slots[slot[t]] = t => prev[t] = None
    BY <1>1 DEF Linked
  <1>3. \A i \in 0 .. N - 1 : slots[i] = t => i = slot[t]
    BY <1>1 DEF Linked
  <1>4. slots[slot[t]] # t => prev[t] # None
    BY <1>1 DEF Linked
  <1>5. /\ live' = live \ {t}
        /\ slot' = [slot EXCEPT ![t] = 0] /\ rotation' = [rotation EXCEPT ![t] = 0]
        /\ age' = [age EXCEPT ![t] = 0] /\ due' = [due EXCEPT ![t] = 0]
        /\ late' = [late EXCEPT ![t] = 0]
    BY DEF Lists!Unlink
  <1>6. None \notin Timers /\ t \in Timers
    BY <1>1, WheelAssumption
  <1>7. CASE t = slots[slot[t]]
    <2>1. /\ slots' = [slots EXCEPT ![slot[t]] = next[t]]
          /\ prev' = [Lists!Set(prev, next[t], None) EXCEPT ![t] = None]
          /\ next' = [next EXCEPT ![t] = None]
      BY <1>7 DEF Lists!Unlink
    <2>2. slots' = [i \in 0 .. N - 1 |-> IF slots[i] = t THEN next[t] ELSE slots[i]]
      BY <1>1, <1>3, <1>7, <2>1
    <2>3. next' = [u \in Timers |-> IF u = t THEN None ELSE IF u = prev[t] THEN next[t] ELSE next[u]]
      BY <1>1, <1>2, <1>6, <1>7, <2>1
    <2>4. prev' = [u \in Timers |-> IF u = t THEN None ELSE IF u = next[t] THEN prev[t] ELSE prev[u]]
      BY <1>1, <1>2, <1>6, <1>7, <2>1 DEF Lists!Set
    <2>5. QED
      BY <1>5, <2>2, <2>3, <2>4
  <1>8. CASE t # slots[slot[t]]
    <2>1. /\ slots' = slots
          /\ next' = [Lists!Set(next, prev[t], next[t]) EXCEPT ![t] = None]
          /\ prev' = [Lists!Set(prev, next[t], prev[t]) EXCEPT ![t] = None]
      BY <1>8 DEF Lists!Unlink
    <2>2. slots' = [i \in 0 .. N - 1 |-> IF slots[i] = t THEN next[t] ELSE slots[i]]
      BY <1>1, <1>3, <1>8, <2>1
    <2>3. next' = [u \in Timers |-> IF u = t THEN None ELSE IF u = prev[t] THEN next[t] ELSE next[u]]
      BY <1>1, <1>4, <1>6, <1>8, <2>1 DEF Lists!Set
    <2>4. prev' = [u \in Timers |-> IF u = t THEN None ELSE IF u = next[t] THEN prev[t] ELSE prev[u]]
      BY <1>1, <1>6, <2>1 DEF Lists!Set
    <2>5. QED
      BY <1>5, <2>2, <2>3, <2>4
  <1>9. QED
    BY <1>7, <1>8

\* pending of the sets, now and in the next state.
LEMMA PendingMeans ==
  ASSUME Lists!ListsAssumption, NEW d, Linked(live, slot, slots, next, prev, d),
         tmp \in live \cup {None}
  PROVE  Lists!From(tmp) = Ahead(live, slot, d, tmp)
  BY FromIsReached, FromMeans

\* What tick() will still visit, after a step.
LEMMA PendingNext ==
  ASSUME Lists!ListsAssumption, NEW d, Linked(live', slot', slots', next', prev', d),
         tmp' \in live' \cup {None}
  PROVE  Lists!From(tmp)' = Ahead(live', slot', d, tmp')
  <1>1. Lists!From(tmp)' = Reached(next', tmp')
    BY Zenon DEF Lists!From, Reached, Lists!Cardinality, Cardinality
  <1>2. QED
    BY <1>1, FromMeans

-----------------------------------------------------------------------------

\* add_timer puts a timer into its slot, where tick() will not come by any more.
LEMMA AddStep ==
  ASSUME Lists!ListsAssumption, ListsInv, NEW t \in Timers, NEW timeout \in Timeouts,
         Lists!Add(t, timeout)
  PROVE  ListsInv' /\ Lists!Wheel!Add(t, timeout)
  <1> DEFINE ticks == Lists!Wheel!Ticks(timeout)
             i == (cur + (ticks % N)) % N
  <1>1. /\ mode \in {"idle", "calling"} /\ t \notin live /\ timeout >= 0
        /\ rotation' = [rotation EXCEPT ![t] = ticks \div N]
        /\ slot' = [slot EXCEPT ![t] = i]
        /\ next' = [next EXCEPT ![t] = slots[i]]
        /\ prev' = Lists!Set(prev, slots[i], t)
        /\ slots' = [slots EXCEPT ![i] = t]
        /\ due' = [due EXCEPT ![t] = ticks]
        /\ late' = [late EXCEPT ![t] = IF mode = "calling" /\ i = cur THEN N ELSE 0]
        /\ live' = live \cup {t}
        /\ age' = [age EXCEPT ![t] = 0]
        /\ cur' = cur /\ mode' = mode /\ tmp' = tmp
    BY DEF Lists!Add, Lists!MayCall
  <1>2. ticks \in Nat /\ ticks % N \in 0 .. N - 1 /\ i \in 0 .. N - 1 /\ (i = cur <=> ticks % N = 0)
    <2>1. ticks \in Nat
      BY <1>1, WheelAssumption DEF Lists!Wheel!Ticks
    <2> HIDE DEF ticks
    <2>2. ticks % N \in 0 .. N - 1 /\ cur \in 0 .. N - 1
      BY <2>1, WheelAssumption, TurnsAndSlots DEF ListsInv
    <2>3. i = IF cur + (ticks % N) < N THEN cur + (ticks % N) ELSE cur + (ticks % N) - N
      BY <2>2, WheelAssumption, WrapAround
    <2> HIDE DEF i
    <2>4. QED
      BY <2>1, <2>2, <2>3, WheelAssumption
  <1> HIDE DEF ticks, i
  <1>3. PICK d \in [Timers -> Nat] : Linked(live, slot, slots, next, prev, d)
    BY DEF ListsInv
  <1> DEFINE e == Shifted(live, slot, d, t, i)
  <1>4. Linked(live', slot', slots', next', prev', e)
    BY <1>1, <1>2, <1>3, Inserted
  <1>5. /\ tmp \in live \cup {None} /\ (mode = "calling" => tmp # None)
        /\ (tmp # None => slot[tmp] = cur) /\ live \subseteq Timers /\ (mode = "idle" => tmp = None)
        /\ slot \in [Timers -> 0 .. N - 1]
    BY <1>3 DEF ListsInv, CursorInv, Linked, Places
  <1>6. ListsInv'
    <2>1. CursorInv'
      BY <1>1, <1>5 DEF CursorInv
    <2>2. e \in [Timers -> Nat]
      BY <1>4 DEF Linked, Places
    <2> HIDE DEF e
    <2>3. QED
      BY <1>1, <1>4, <2>1, <2>2 DEF ListsInv
  <1>7. Ahead(live', slot', e, tmp) = Ahead(live, slot, d, tmp)
    <2>1. CASE tmp = None
      BY <2>1 DEF Ahead
    <2>2. CASE tmp \in live
      <3>1. /\ \A u \in live : slot'[u] = slot[u] /\ e[u] = IF slot[u] = i THEN d[u] + 1 ELSE d[u]
            /\ slot'[t] = i /\ e[t] = 0
            /\ \A u \in live : d[u] \in Nat
        BY <1>1, <1>3, <1>5 DEF Shifted
      <3> HIDE DEF e
      <3>2. \A u \in live : (slot'[u] = slot'[tmp] /\ e[u] >= e[tmp]) <=> (slot[u] = slot[tmp] /\ d[u] >= d[tmp])
        BY <2>2, <3>1
      <3>3. ~(slot'[t] = slot'[tmp] /\ e[t] >= e[tmp])
        BY <2>2, <3>1
      <3>4. QED
        BY <1>1, <2>2, <3>2, <3>3 DEF Ahead
    <2>3. QED
      BY <1>5, <2>1, <2>2
  <1>8. Lists!From(tmp)' = Lists!From(tmp)
    <2>1. Lists!From(tmp) = Ahead(live, slot, d, tmp)
      BY <1>3, <1>5, PendingMeans
    <2>2. Lists!From(tmp)' = Ahead(live', slot', e, tmp')
      BY <1>1, <1>4, <1>5, PendingNext
    <2>3. QED
      BY <1>1, <1>7, <2>1, <2>2
  <1>9. Lists!Wheel!Add(t, timeout)
    BY <1>1, <1>2, <1>5, <1>8 DEF Lists!Wheel!Add, Lists!Wheel!MayCall, ticks, i
  <1>10. QED
    BY <1>6, <1>9

\* What is behind the timer tick() is at does not depend on those before it.
LEMMA UnlinkStep ==
  ASSUME Lists!ListsAssumption, NEW d \in [Timers -> Nat],
         Linked(live, slot, slots, next, prev, d), NEW t \in live,
         Lists!Unlink(t, slot[t])
  PROVE  /\ Linked(live', slot', slots', next', prev', Closed(live, slot, d, t))
         /\ Closed(live, slot, d, t) \in [Timers -> Nat]
         /\ \A x \in live \ {t} :
              Ahead(live', slot', Closed(live, slot, d, t), x) = Ahead(live, slot, d, x) \ {t}
  <1> DEFINE e == Closed(live, slot, d, t)
  <1>1. /\ slots' = [i \in 0 .. N - 1 |-> IF slots[i] = t THEN next[t] ELSE slots[i]]
        /\ next' = [u \in Timers |-> IF u = t THEN None ELSE IF u = prev[t] THEN next[t] ELSE next[u]]
        /\ prev' = [u \in Timers |-> IF u = t THEN None ELSE IF u = next[t] THEN prev[t] ELSE prev[u]]
        /\ live' = live \ {t} /\ slot' = [slot EXCEPT ![t] = 0]
    BY UnlinkMeans
  <1>2. Linked(live', slot', slots', next', prev', e)
    BY <1>1, Removed
  <1>3. e \in [Timers -> Nat]
    BY <1>2 DEF Linked, Places
  <1>4. /\ live' = live \ {t} /\ slot' = [slot EXCEPT ![t] = 0] /\ live \subseteq Timers
        /\ slot \in [Timers -> 0 .. N - 1] /\ None \notin live
    BY <1>1, WheelAssumption DEF Linked, Places
  <1>5. \A u \in live \ {t} :
          /\ slot'[u] = slot[u]
          /\ e[u] = IF slot[u] = slot[t] /\ d[u] > d[t] THEN d[u] - 1 ELSE d[u]
          /\ slot[u] = slot[t] => d[u] # d[t]
          /\ d[u] \in Nat
    BY <1>4 DEF Closed, Linked, Places
  <1> HIDE DEF e
  <1>6. ASSUME NEW x \in live \ {t}
        PROVE  Ahead(live', slot', e, x) = Ahead(live, slot, d, x) \ {t}
    <2>1. d[t] \in Nat
      BY <1>4
    <2>2. \A u \in live \ {t} : (slot'[u] = slot'[x] /\ e[u] >= e[x]) <=> (slot[u] = slot[x] /\ d[u] >= d[x])
      BY <1>5, <2>1
    <2>3. QED
      BY <1>4, <2>2 DEF Ahead
  <1>7. QED
    BY <1>2, <1>3, <1>6 DEF e

\* del_timer takes out the timer it is given, and no other.
LEMMA DelStep ==
  ASSUME Lists!ListsAssumption, ListsInv, NEW t \in Timers, Lists!Del(t)
  PROVE  ListsInv' /\ Lists!Wheel!Del(t)
  <1>1. /\ mode \in {"idle", "calling"} /\ t \in live /\ (mode = "calling" => t # tmp)
        /\ Lists!Unlink(t, slot[t])
        /\ cur' = cur /\ mode' = mode /\ tmp' = tmp
    BY DEF Lists!Del, Lists!MayCall
  <1>2. PICK d \in [Timers -> Nat] : Linked(live, slot, slots, next, prev, d)
    BY DEF ListsInv
  <1>3. /\ cur \in 0 .. N - 1 /\ tmp \in live \cup {None} /\ (mode = "calling" => tmp # None)
        /\ (tmp # None => slot[tmp] = cur) /\ (mode = "idle" => tmp = None)
        /\ None \notin live /\ live \subseteq Timers /\ slot \in [Timers -> 0 .. N - 1]
    BY <1>2, WheelAssumption DEF ListsInv, CursorInv, Linked, Places
  <1>4. tmp # t
    BY <1>1, <1>3
  <1>5. /\ live' = live \ {t}
        /\ slot' = [slot EXCEPT ![t] = 0] /\ rotation' = [rotation EXCEPT ![t] = 0]
        /\ age' = [age EXCEPT ![t] = 0] /\ due' = [due EXCEPT ![t] = 0]
        /\ late' = [late EXCEPT ![t] = 0]
    BY <1>1, <1>2, UnlinkMeans
  <1>6. PICK e \in [Timers -> Nat] :
          /\ Linked(live', slot', slots', next', prev', e)
          /\ \A x \in live \ {t} : Ahead(live', slot', e, x) = Ahead(live, slot, d, x) \ {t}
    BY <1>1, <1>2, UnlinkStep
  <1>7. CursorInv'
    BY <1>1, <1>3, <1>4, <1>5 DEF CursorInv
  <1>8. Lists!From(tmp)' = Lists!From(tmp) \ {t}
    <2>1. Lists!From(tmp) = Ahead(live, slot, d, tmp)
      BY <1>2, <1>3, PendingMeans
    <2>2. Lists!From(tmp)' = Ahead(live', slot', e, tmp)
      BY <1>1, <1>3, <1>4, <1>5, <1>6, PendingNext
    <2>3. CASE tmp = None
      BY <2>1, <2>2, <2>3 DEF Ahead
    <2>4. CASE tmp # None
      BY <1>3, <1>4, <1>6, <2>1, <2>2, <2>4
    <2>5. QED
      BY <2>3, <2>4
  <1>9. Lists!Wheel!Del(t)
    BY <1>1, <1>3, <1>5, <1>8 DEF Lists!Wheel!Del, Lists!Wheel!MayCall, Lists!Wheel!Forget
  <1>10. QED
    BY <1>1, <1>3, <1>6, <1>7, <1>9 DEF ListsInv

\* Behind a timer comes what its pointer leads to.
LEMMA AheadNext ==
  ASSUME NEW al, NEW sl, NEW ss, NEW nx, NEW pv, NEW d, Linked(al, sl, ss, nx, pv, d), NEW t \in al
  PROVE  /\ Ahead(al, sl, d, nx[t]) = Ahead(al, sl, d, t) \ {t}
         /\ t \in Ahead(al, sl, d, t)
  <1>1. /\ al \subseteq Timers /\ None \notin al /\ Places(al, sl, nx, d)
        /\ \A u \in al : d[u] \in Nat
    BY WheelAssumption DEF Linked, Places
  <1>2. \A u, v \in al : sl[u] = sl[v] /\ d[u] = d[v] => u = v
    BY DEF Linked, Places
  <1>3. CASE nx[t] = None
    <2>1. ASSUME NEW u \in al, sl[u] = sl[t], d[u] > d[t]
          PROVE  FALSE
      <3>1. d[u] - (d[t] + 1) \in 0 .. d[u] /\ d[u] - (d[u] - (d[t] + 1)) = d[t] + 1
        BY <1>1, <2>1
      <3>2. PICK v \in al : sl[v] = sl[u] /\ d[v] = d[t] + 1
        BY <1>1, <3>1, PlacesBefore
      <3>3. PICK p \in al : sl[p] = sl[v] /\ d[v] = d[p] + 1 /\ nx[p] = v
        BY <1>1, <3>2 DEF Places
      <3>4. p = t
        BY <1>1, <1>2, <2>1, <3>2, <3>3
      <3>5. QED
        BY <1>1, <1>3, <3>3, <3>4
    <2>2. QED
      BY <1>1, <1>2, <1>3, <2>1 DEF Ahead
  <1>4. CASE nx[t] # None
    <2>1. nx[t] \in al /\ sl[nx[t]] = sl[t] /\ d[nx[t]] = d[t] + 1
      BY <1>4 DEF Linked, Places
    <2>2. \A u \in al : (sl[u] = sl[t] /\ d[u] >= d[t] + 1) <=> (sl[u] = sl[t] /\ d[u] >= d[t] /\ u # t)
      BY <1>1, <1>2
    <2>3. QED
      BY <1>1, <1>4, <2>1, <2>2 DEF Ahead
  <1>5. QED
    BY <1>3, <1>4

\* All timers of a slot are reached from its head.
LEMMA AheadOfHead ==
  ASSUME NEW al, NEW sl, NEW ss, NEW nx, NEW pv, NEW d, Linked(al, sl, ss, nx, pv, d),
         NEW i \in 0 .. N - 1
  PROVE  Ahead(al, sl, d, ss[i]) = {u \in al : sl[u] = i}
  <1>1. /\ al \subseteq Timers /\ None \notin al /\ Places(al, sl, nx, d)
        /\ \A u \in al : d[u] \in Nat
        /\ ss[i] \in al \cup {None}
    BY WheelAssumption DEF Linked, Places
  <1>2. CASE ss[i] = None
    <2>1. ASSUME NEW u \in al, sl[u] = i
          PROVE  FALSE
      <3>1. PICK v \in al : sl[v] = sl[u] /\ d[v] = d[u] - d[u]
        BY <1>1, PlacesBefore
      <3>2. ss[sl[v]] = v
        BY <1>1, <3>1 DEF Linked
      <3>3. QED
        BY <1>1, <1>2, <2>1, <3>1, <3>2
    <2>2. QED
      BY <1>2, <2>1 DEF Ahead
  <1>3. CASE ss[i] # None
    <2>1. sl[ss[i]] = i /\ d[ss[i]] = 0
      BY <1>3 DEF Linked
    <2>2. QED
      BY <1>1, <1>3, <2>1 DEF Ahead
  <1>4. QED
    BY <1>2, <1>3

\* tick() begins at the head of its slot: all timers of the slot are ahead.
LEMMA TickStartStep ==
  ASSUME Lists!ListsAssumption, ListsInv, Lists!TickStart
  PROVE  ListsInv' /\ Lists!Wheel!TickStart
  <1>1. /\ mode = "idle" /\ mode' = "visiting" /\ tmp' = slots[cur]
        /\ UNCHANGED <<cur, live, rotation, slot, age, due, late, slots, next, prev>>
    BY DEF Lists!TickStart, Lists!timerVars, Lists!linkVars
  <1>2. PICK d \in [Timers -> Nat] : Linked(live, slot, slots, next, prev, d)
    BY DEF ListsInv
  <1>3. /\ cur \in 0 .. N - 1 /\ slots[cur] \in live \cup {None}
        /\ slots[cur] # None => slot[slots[cur]] = cur
    BY <1>2 DEF ListsInv, Linked
  <1>4. Linked(live', slot', slots', next', prev', d)
    BY <1>1, <1>2
  <1>5. ListsInv'
    BY <1>1, <1>3, <1>4 DEF ListsInv, CursorInv
  <1>6. Lists!From(tmp)' = {t \in live : slot[t] = cur}
    <2>1. Lists!From(tmp)' = Ahead(live', slot', d, tmp')
      BY <1>1, <1>3, <1>4, PendingNext
    <2>2. QED
      BY <1>1, <1>2, <1>3, <2>1, AheadOfHead
  <1>7. Lists!Wheel!TickStart
    BY <1>1, <1>6 DEF Lists!Wheel!TickStart
  <1>8. QED
    BY <1>5, <1>7

\* tick() passes a timer that has turns left.
LEMMA SkipStep ==
  ASSUME Lists!ListsAssumption, ListsInv, Lists!Skip
  PROVE  ListsInv' /\ tmp \in Timers /\ Lists!Wheel!Skip(tmp)
  <1>1. /\ mode = "visiting" /\ tmp # None /\ rotation[tmp] > 0
        /\ rotation' = [rotation EXCEPT ![tmp] = @ - 1]
        /\ tmp' = next[tmp]
        /\ UNCHANGED <<cur, live, slot, age, due, late, slots, next, prev, mode>>
    BY DEF Lists!Skip, Lists!linkVars
  <1>2. PICK d \in [Timers -> Nat] : Linked(live, slot, slots, next, prev, d)
    BY DEF ListsInv
  <1>3. /\ cur \in 0 .. N - 1 /\ tmp \in live /\ slot[tmp] = cur /\ live \subseteq Timers
        /\ next[tmp] \in live \cup {None} /\ (next[tmp] # None => slot[next[tmp]] = cur)
    BY <1>1, <1>2 DEF ListsInv, CursorInv, Linked, Places
  <1>4. Linked(live', slot', slots', next', prev', d)
    BY <1>1, <1>2
  <1>5. ListsInv'
    BY <1>1, <1>3, <1>4 DEF ListsInv, CursorInv
  <1>6. Lists!From(tmp)' = Lists!From(tmp) \ {tmp} /\ tmp \in Lists!From(tmp)
    <2>1. Lists!From(tmp)' = Ahead(live', slot', d, tmp')
      BY <1>1, <1>3, <1>4, PendingNext
    <2>2. Lists!From(tmp) = Ahead(live, slot, d, tmp)
      BY <1>2, <1>3, PendingMeans
    <2>3. /\ Ahead(live, slot, d, next[tmp]) = Ahead(live, slot, d, tmp) \ {tmp}
          /\ tmp \in Ahead(live, slot, d, tmp)
      BY <1>2, <1>3, AheadNext
    <2>4. QED
      BY <1>1, <2>1, <2>2, <2>3
  <1>7. Lists!Wheel!Skip(tmp)
    BY <1>1, <1>6 DEF Lists!Wheel!Skip
  <1>8. QED
    BY <1>3, <1>5, <1>7

\* tick() calls the callback of a timer that has none.
LEMMA CallStep ==
  ASSUME Lists!ListsAssumption, ListsInv, Lists!Call
  PROVE  ListsInv' /\ tmp \in Timers /\ Lists!Wheel!Call(tmp)
  <1>1. /\ mode = "visiting" /\ tmp # None /\ rotation[tmp] = 0 /\ mode' = "calling"
        /\ UNCHANGED <<cur, live, rotation, slot, age, due, late, slots, next, prev, tmp>>
    BY DEF Lists!Call, Lists!timerVars, Lists!linkVars
  <1>2. PICK d \in [Timers -> Nat] : Linked(live, slot, slots, next, prev, d)
    BY DEF ListsInv
  <1>3. cur \in 0 .. N - 1 /\ tmp \in live /\ slot[tmp] = cur /\ live \subseteq Timers
    BY <1>1, <1>2 DEF ListsInv, CursorInv, Linked, Places
  <1>4. Linked(live', slot', slots', next', prev', d)
    BY <1>1, <1>2
  <1>5. ListsInv'
    BY <1>1, <1>3, <1>4 DEF ListsInv, CursorInv
  <1>6. Lists!From(tmp)' = Lists!From(tmp) /\ tmp \in Lists!From(tmp)
    <2>1. Lists!From(tmp)' = Ahead(live', slot', d, tmp')
      BY <1>1, <1>3, <1>4, PendingNext
    <2>2. Lists!From(tmp) = Ahead(live, slot, d, tmp)
      BY <1>2, <1>3, PendingMeans
    <2>3. tmp \in Ahead(live, slot, d, tmp)
      BY <1>2, <1>3, AheadNext
    <2>4. QED
      BY <1>1, <2>1, <2>2, <2>3
  <1>7. Lists!Wheel!Call(tmp)
    BY <1>1, <1>6 DEF Lists!Wheel!Call
  <1>8. QED
    BY <1>3, <1>5, <1>7

\* tick() goes on behind the timer it deletes.
LEMMA ReturnStep ==
  ASSUME Lists!ListsAssumption, ListsInv, Lists!Return
  PROVE  ListsInv' /\ Lists!Wheel!Return
  <1>1. /\ mode = "calling" /\ mode' = "visiting" /\ tmp' = next[tmp] /\ cur' = cur
        /\ Lists!Unlink(tmp, cur)
    BY DEF Lists!Return, Lists!Following
  <1>2. PICK d \in [Timers -> Nat] : Linked(live, slot, slots, next, prev, d)
    BY DEF ListsInv
  <1>3. /\ cur \in 0 .. N - 1 /\ tmp \in live /\ slot[tmp] = cur /\ live \subseteq Timers
        /\ next[tmp] \in (live \ {tmp}) \cup {None} /\ (next[tmp] # None => slot[next[tmp]] = cur)
        /\ slot \in [Timers -> 0 .. N - 1] /\ tmp # None
    <2>1. /\ cur \in 0 .. N - 1 /\ tmp \in live /\ slot[tmp] = cur /\ live \subseteq Timers
          /\ next[tmp] \in live \cup {None} /\ tmp # None
          /\ (next[tmp] # None => slot[next[tmp]] = cur /\ d[next[tmp]] = d[tmp] + 1)
          /\ slot \in [Timers -> 0 .. N - 1]
      BY <1>1, <1>2 DEF ListsInv, CursorInv, Linked, Places
    <2>2. d[tmp] \in Nat
      BY <2>1
    <2>3. QED
      BY <2>1, <2>2
  <1>4. /\ live' = live \ {tmp}
        /\ slot' = [slot EXCEPT ![tmp] = 0] /\ rotation' = [rotation EXCEPT ![tmp] = 0]
        /\ age' = [age EXCEPT ![tmp] = 0] /\ due' = [due EXCEPT ![tmp] = 0]
        /\ late' = [late EXCEPT ![tmp] = 0]
    BY <1>1, <1>2, <1>3, UnlinkMeans
  <1>5. PICK e \in [Timers -> Nat] :
          /\ Linked(live', slot', slots', next', prev', e)
          /\ \A x \in live \ {tmp} : Ahead(live', slot', e, x) = Ahead(live, slot, d, x) \ {tmp}
    BY <1>1, <1>2, <1>3, UnlinkStep
  <1>6. CursorInv'
    BY <1>1, <1>3, <1>4 DEF CursorInv
  <1>7. Lists!From(tmp)' = Lists!From(tmp) \ {tmp}
    <2>1. Lists!From(tmp) = Ahead(live, slot, d, tmp)
      BY <1>2, <1>3, PendingMeans
    <2>2. Lists!From(tmp)' = Ahead(live', slot', e, next[tmp])
      BY <1>1, <1>3, <1>4, <1>5, PendingNext
    <2>3. Ahead(live, slot, d, next[tmp]) = Ahead(live, slot, d, tmp) \ {tmp}
      BY <1>2, <1>3, AheadNext
    <2>4. CASE next[tmp] = None
      BY <2>1, <2>2, <2>3, <2>4 DEF Ahead
    <2>5. CASE next[tmp] # None
      BY <1>3, <1>5, <2>1, <2>2, <2>3, <2>5
    <2>6. QED
      BY <2>4, <2>5
  <1>8. Lists!Wheel!Return
    BY <1>1, <1>3, <1>4, <1>7 DEF Lists!Wheel!Return, Lists!Wheel!Forget
  <1>9. QED
    BY <1>1, <1>3, <1>5, <1>6, <1>8 DEF ListsInv

\* At the end of its list tick() has visited all of the slot.
LEMMA TickEndStep ==
  ASSUME Lists!ListsAssumption, ListsInv, Lists!TickEnd
  PROVE  ListsInv' /\ Lists!Wheel!TickEnd
  <1>1. /\ mode = "visiting" /\ tmp = None /\ tmp' = None
        /\ cur' = (cur + 1) % N /\ mode' = "idle"
        /\ age' = [t \in Timers |-> IF t \in live THEN age[t] + 1 ELSE 0]
        /\ UNCHANGED <<live, rotation, slot, due, late, slots, next, prev>>
    BY DEF Lists!TickEnd, Lists!linkVars
  <1>2. PICK d \in [Timers -> Nat] : Linked(live, slot, slots, next, prev, d)
    BY DEF ListsInv
  <1>3. cur \in 0 .. N - 1 /\ cur' \in 0 .. N - 1
    <2>1. cur \in 0 .. N - 1
      BY DEF ListsInv
    <2>2. QED
      BY <1>1, <2>1, WheelAssumption, NextSlot
  <1>4. ListsInv'
    BY <1>1, <1>2, <1>3 DEF ListsInv, CursorInv
  <1>5. Lists!From(tmp) = {}
    <2>1. Lists!From(tmp) = Ahead(live, slot, d, tmp)
      BY <1>1, <1>2, PendingMeans
    <2>2. QED
      BY <1>1, <2>1 DEF Ahead
  <1>6. Lists!Wheel!TickEnd
    BY <1>1, <1>5 DEF Lists!Wheel!TickEnd
  <1>7. QED
    BY <1>4, <1>6

\* The destructor reaches every timer from some slot.
LEMMA DestroyStep ==
  ASSUME Lists!ListsAssumption, ListsInv, Lists!Destroy
  PROVE  ListsInv' /\ Lists!Wheel!Destroy
  <1> DEFINE Nowhere == [t \in Timers |-> None]
  <1>1. /\ mode = "idle" /\ mode' = mode /\ tmp' = tmp
        /\ live' = live \ UNION {Lists!From(slots[i]) : i \in 0 .. N - 1}
        /\ cur' = 0 /\ slots' = [i \in 0 .. N - 1 |-> None]
        /\ next' = Nowhere /\ prev' = Nowhere
        /\ rotation' = Zero /\ slot' = Zero /\ age' = Zero /\ due' = Zero /\ late' = Zero
    BY DEF Lists!Destroy, Lists!Nowhere, Lists!Wheel!Zero, Zero
  <1>2. PICK d \in [Timers -> Nat] : Linked(live, slot, slots, next, prev, d)
    BY DEF ListsInv
  <1>3. tmp = None
    BY <1>1 DEF ListsInv, CursorInv
  <1>4. live' = {}
    <2>1. ASSUME NEW t \in live
          PROVE  slot[t] \in 0 .. N - 1 /\ t \in Lists!From(slots[slot[t]])
      <3>1. slot[t] \in 0 .. N - 1 /\ slots[slot[t]] \in live \cup {None}
        BY <1>2 DEF Linked, Places
      <3>2. Lists!From(slots[slot[t]]) = Ahead(live, slot, d, slots[slot[t]])
        BY <1>2, <3>1, FromIsReached, FromMeans
      <3>3. QED
        BY <1>2, <3>1, <3>2, AheadOfHead
    <2>2. QED
      BY <1>1, <2>1
  <1>5. Linked(live', slot', slots', next', prev', d)
    <2>1. 0 \in 0 .. N - 1
      BY WheelAssumption
    <2>2. /\ slot' \in [Timers -> 0 .. N - 1]
          /\ slots' \in [0 .. N - 1 -> {None}]
          /\ next' \in [Timers -> {None}] /\ prev' \in [Timers -> {None}]
      BY <1>1, <2>1 DEF Zero
    <2>3. Places(live', slot', next', d)
      BY <1>2, <1>4 DEF Linked, Places
    <2>4. QED
      BY <1>4, <2>2, <2>3 DEF Linked
  <1>6. ListsInv'
    <2>1. CursorInv'
      BY <1>1, <1>3 DEF CursorInv
    <2>2. d \in [Timers -> Nat]
      BY <1>2
    <2>3. cur' \in 0 .. N - 1
      BY <1>1, WheelAssumption
    <2>4. QED
      BY <1>5, <2>1, <2>2, <2>3 DEF ListsInv
  <1>7. Lists!Wheel!Destroy
    BY <1>1, <1>3, <1>4 DEF Lists!Wheel!Destroy, Lists!Wheel!Zero, Zero
  <1>8. QED
    BY <1>6, <1>7

-----------------------------------------------------------------------------

\* The constructor's lists are empty.
LEMMA InitLists ==
  ASSUME Lists!Init
  PROVE  ListsInv /\ Lists!Wheel!Init
  <1>1. /\ slots = [i \in 0 .. N - 1 |-> None]
        /\ next = [t \in Timers |-> None] /\ prev = [t \in Timers |-> None]
        /\ mode = "idle" /\ tmp = None /\ cur = 0 /\ live = {}
        /\ slot = [t \in Timers |-> 0]
    BY DEF Lists!Init, Lists!Nowhere, Lists!Wheel!Init, Lists!Wheel!Zero
  <1>2. Linked(live, slot, slots, next, prev, slot) /\ slot \in [Timers -> Nat]
    BY <1>1, WheelAssumption DEF Linked, Places
  <1>3. ListsInv
    BY <1>1, <1>2, WheelAssumption DEF ListsInv, CursorInv
  <1>4. QED
    BY <1>3 DEF Lists!Init

\* Every step keeps the lists linked and is a step of the sets.
LEMMA NextLists ==
  ASSUME Lists!ListsAssumption, ListsInv, [Lists!Next]_(Lists!vars)
  PROVE  ListsInv' /\ [Lists!Wheel!Next]_(Lists!Wheel!vars)
  <1> USE DEF Lists!Wheel!Next, Lists!Wheel!Tick
  <1>1. CASE Lists!TickStart
    BY <1>1, TickStartStep
  <1>2. CASE Lists!Skip
    BY <1>2, SkipStep
  <1>3. CASE Lists!Call
    BY <1>3, CallStep
  <1>4. CASE Lists!Return
    BY <1>4, ReturnStep
  <1>5. CASE Lists!TickEnd
    BY <1>5, TickEndStep
  <1>6. ASSUME NEW t \in Timers, Lists!Del(t)
        PROVE  ListsInv' /\ [Lists!Wheel!Next]_(Lists!Wheel!vars)
    BY <1>6, DelStep
  <1>7. ASSUME NEW t \in Timers, NEW timeout \in Timeouts, Lists!Add(t, timeout)
        PROVE  ListsInv' /\ [Lists!Wheel!Next]_(Lists!Wheel!vars)
    BY <1>7, AddStep
  <1>8. CASE Lists!Destroy
    BY <1>8, DestroyStep
  <1>9. CASE UNCHANGED Lists!vars
    <2>1. UNCHANGED <<cur, live, rotation, slot, age, due, late, slots, next, prev, mode, tmp>>
      BY <1>9 DEF Lists!vars, Lists!timerVars, Lists!linkVars
    <2>2. ListsInv'
      BY <2>1 DEF ListsInv, CursorInv
    <2>3. Lists!From(tmp)' = Lists!From(tmp)
      BY <2>1 DEF Lists!From
    <2>4. UNCHANGED Lists!Wheel!vars
      BY <2>1, <2>3 DEF Lists!Wheel!vars
    <2>5. QED
      BY <2>2, <2>4
  <1>10. QED
    BY <1>1, <1>2, <1>3, <1>4, <1>5, <1>6, <1>7, <1>8, <1>9 DEF Lists!Next

\* The pointers of time_wheel do what its slots as sets of timers do: tick()
\* visits the timers of its slot once each, whatever callbacks add and delete, and
\* the destructor deletes every timer.
THEOREM ListsImplementWheel == Lists!ListsAssumption => (Lists!Spec => Lists!ImplementsWheel)
  <1> SUFFICES ASSUME Lists!ListsAssumption
               PROVE  Lists!Spec => Lists!ImplementsWheel
    OBVIOUS
  <1>1. Lists!Init => ListsInv /\ Lists!Wheel!Init
    BY InitLists
  <1>2. ListsInv /\ [Lists!Next]_(Lists!vars)
          => ListsInv' /\ [Lists!Wheel!Next]_(Lists!Wheel!vars)
    BY NextLists
  <1>3. QED
    BY <1>1, <1>2, PTL DEF Lists!Spec, Lists!ImplementsWheel, Lists!Wheel!Spec

\* add_timer, del_timer, tick() and the destructor keep the lists doubly linked, and
\* no pointer that they follow leads to a deleted timer.
THEOREM LinkedTheorem == Lists!ListsAssumption => (Lists!Spec => []Lists!WellLinked)
  <1> SUFFICES ASSUME Lists!ListsAssumption
               PROVE  Lists!Spec => []Lists!WellLinked
    OBVIOUS
  <1>1. Lists!Init => ListsInv
    BY InitLists
  <1>2. ListsInv /\ [Lists!Next]_(Lists!vars) => ListsInv'
    BY NextLists
  <1>3. ListsInv => Lists!WellLinked
    <2> SUFFICES ASSUME ListsInv
                 PROVE  Lists!WellLinked
      OBVIOUS
    <2>1. PICK d \in [Timers -> Nat] : Linked(live, slot, slots, next, prev, d)
      BY DEF ListsInv
    <2>2. live \subseteq Timers /\ None \notin live
      BY <2>1, WheelAssumption DEF Linked, Places
    <2>3. Lists!NoDangling
      BY <2>1, <2>2 DEF Lists!NoDangling, Linked, ListsInv, CursorInv
    <2>4. Lists!DoublyLinked
      BY <2>1, <2>2 DEF Lists!DoublyLinked, Linked
    <2>5. QED
      BY <2>3, <2>4 DEF Lists!WellLinked
  <1>4. QED
    BY <1>1, <1>2, <1>3, PTL DEF Lists!Spec

=============================================================================
