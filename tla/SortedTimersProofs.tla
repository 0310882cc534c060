------------------------- MODULE SortedTimersProofs -------------------------
(***************************************************************************)
(* The timer list stays in order and its ticks miss nothing, for every set *)
(* of timers, every delay and every clock.  The lemmas say what add_timer, *)
(* adjust_timer and del_timer do to a sequence: one element is taken out   *)
(* (Cut) or put in (Spliced) at a place of which the neighbours are known. *)
(* Then that the pointers of SortTimerList hold such sequences.            *)
(***************************************************************************)
EXTENDS SortedTimers, WellFoundedInduction, SequenceTheorems, FiniteSetTheorems, TLAPS

\* s with t behind its k-th element, and s without its p-th.
Spliced(s, k, t) == SubSeq(s, 1, k) \o <<t>> \o SubSeq(s, k + 1, Len(s))
Cut(s, p) == SubSeq(s, 1, p - 1) \o SubSeq(s, p + 1, Len(s))

\* What that makes of the places of the elements.
PutIn(r, s, k, t) ==
  /\ Len(r) = Len(s) + 1
  /\ \A i \in 1 .. k : r[i] = s[i]
  /\ r[k + 1] = t
  /\ \A i \in k + 2 .. Len(s) + 1 : r[i] = s[i - 1]

TakenOut(r, s, p) ==
  /\ Len(r) = Len(s) - 1
  /\ \A i \in 1 .. p - 1 : r[i] = s[i]
  /\ \A i \in p .. Len(s) - 1 : r[i] = s[i + 1]

Elements(s) == {s[i] : i \in 1 .. Len(s)}
Distinct(s) == \A i, j \in 1 .. Len(s) : i < j => s[i] # s[j]
\* The k elements in front expire by e, the next one later.
Divides(s, k, f, e) ==
  /\ \A i \in 1 .. k : f[s[i]] <= e
  /\ k < Len(s) => e < f[s[k + 1]]

Ascending(s, f) == \A i, j \in 1 .. Len(s) : i < j => f[s[i]] <= f[s[j]]

-----------------------------------------------------------------------------
(* Sequences.                                                              *)

\* A set of numbers that is not empty has a least one.
LEMMA LeastNumber ==
  ASSUME NEW S \in SUBSET Nat, S # {}
  PROVE  \E n \in S : \A m \in S : n <= m
  <1> DEFINE R == {p \in Nat \X Nat : p[1] < p[2]}
  <1>1. IsWellFoundedOn(R, Nat)
    BY NatLessThanWellFounded DEF OpToRel
  <1>2. PICK n \in S : \A m \in S : <<m, n>> \notin R
    <2> HIDE DEF R
    <2>1. QED
      BY <1>1, WFMin
  <1>3. \A m \in S : ~(m < n)
    BY <1>2
  <1>4. QED
    BY <1>3

\* What is put in, and where the others are then.
LEMMA SplicedProperties ==
  ASSUME NEW S, NEW s \in Seq(S), NEW t \in S, NEW k \in 0 .. Len(s)
  PROVE  /\ Spliced(s, k, t) \in Seq(S)
         /\ PutIn(Spliced(s, k, t), s, k, t)
  <1> DEFINE a == SubSeq(s, 1, k)
             b == SubSeq(s, k + 1, Len(s))
  <1>1. /\ a \in Seq(S) /\ Len(a) = k
        /\ \A i \in 1 .. k : a[i] = s[i]
    BY SubSeqProperties
  <1>2. /\ b \in Seq(S) /\ Len(b) = Len(s) - k
        /\ \A i \in 1 .. Len(s) - k : b[i] = s[k + i]
    BY SubSeqProperties
  <1> HIDE DEF a, b
  <1> DEFINE c == a \o <<t>>
  <1>3. /\ c \in Seq(S) /\ Len(c) = k + 1
        /\ \A i \in 1 .. k + 1 : c[i] = IF i <= k THEN s[i] ELSE t
    BY <1>1
  <1> HIDE DEF c
  <1>4. /\ c \o b \in Seq(S)
        /\ Len(c \o b) = Len(s) + 1
        /\ \A i \in 1 .. Len(s) + 1 : (c \o b)[i] = IF i <= k + 1 THEN c[i] ELSE b[i - (k + 1)]
    <2>1. Len(c) + Len(b) = Len(s) + 1
      BY <1>2, <1>3
    <2>2. /\ c \o b \in Seq(S) /\ Len(c \o b) = Len(c) + Len(b)
          /\ \A i \in 1 .. Len(c) + Len(b) : (c \o b)[i] = IF i <= Len(c) THEN c[i] ELSE b[i - Len(c)]
      BY <1>2, <1>3, ConcatProperties
    <2>3. QED
      BY <1>3, <2>1, <2>2
  <1>5. \A i \in 1 .. Len(s) + 1 : i > k + 1 => b[i - (k + 1)] = s[i - 1]
    <2>1. SUFFICES ASSUME NEW i \in 1 .. Len(s) + 1, i > k + 1
                   PROVE  b[i - (k + 1)] = s[i - 1]
      OBVIOUS
    <2>2. i - (k + 1) \in 1 .. Len(s) - k /\ k + (i - (k + 1)) = i - 1
      BY <2>1
    <2>3. QED
      BY <1>2, <2>2
  <1>6. Spliced(s, k, t) = c \o b
    BY DEF Spliced, a, b, c
  <1>7. QED
    BY <1>3, <1>4, <1>5, <1>6 DEF PutIn

\* What is left when one is taken out.
LEMMA CutProperties ==
  ASSUME NEW S, NEW s \in Seq(S), NEW p \in 1 .. Len(s)
  PROVE  /\ Cut(s, p) \in Seq(S)
         /\ TakenOut(Cut(s, p), s, p)
  <1> DEFINE a == SubSeq(s, 1, p - 1)
             b == SubSeq(s, p + 1, Len(s))
  <1>1. /\ a \in Seq(S) /\ Len(a) = p - 1
        /\ \A i \in 1 .. p - 1 : a[i] = s[i]
    BY SubSeqProperties
  <1>2. /\ b \in Seq(S) /\ Len(b) = Len(s) - p
        /\ \A i \in 1 .. Len(s) - p : b[i] = s[p + i]
    BY SubSeqProperties
  <1> HIDE DEF a, b
  <1> DEFINE r == a \o b
  <1>3. /\ r \in Seq(S)
        /\ Len(r) = Len(s) - 1
        /\ \A i \in 1 .. Len(s) - 1 : r[i] = IF i <= p - 1 THEN a[i] ELSE b[i - (p - 1)]
    BY <1>1, <1>2, ConcatProperties
  <1> HIDE DEF r
  <1>4. \A i \in p .. Len(s) - 1 : b[i - (p - 1)] = s[i + 1]
    BY <1>2
  <1>5. Cut(s, p) = r
    BY DEF Cut, a, b, r
  <1>6. \A i \in 1 .. p - 1 : r[i] = s[i]
    BY <1>1, <1>3
  <1>7. \A i \in p .. Len(s) - 1 : r[i] = s[i + 1]
    BY <1>3, <1>4
  <1>8. QED
    BY <1>3, <1>5, <1>6, <1>7 DEF TakenOut

\* An element that was not there is put in: no other appears or is lost.
LEMMA SplicedElements ==
  ASSUME NEW S, NEW s \in Seq(S), NEW t \in S, NEW k \in 0 .. Len(s), Distinct(s), t \notin Elements(s)
  PROVE  /\ Distinct(Spliced(s, k, t))
         /\ Elements(Spliced(s, k, t)) = Elements(s) \cup {t}
  <1> DEFINE r == Spliced(s, k, t)
  <1> HIDE DEF r
  <1>1. PutIn(r, s, k, t)
    BY SplicedProperties DEF r
  <1> USE DEF PutIn
  <1>2. \A i \in 1 .. Len(s) : s[i] # t
    BY DEF Elements
  <1>3. ASSUME NEW i \in 1 .. Len(r), NEW j \in 1 .. Len(r), i < j
        PROVE  r[i] # r[j]
    <2>1. CASE j <= k
      BY <1>1, <1>3, <2>1 DEF Distinct
    <2>2. CASE j = k + 1
      BY <1>1, <1>2, <1>3, <2>2
    <2>3. CASE j > k + 1 /\ i <= k
      <3>1. r[i] = s[i] /\ r[j] = s[j - 1] /\ i < j - 1 /\ i \in 1 .. Len(s) /\ j - 1 \in 1 .. Len(s)
        BY <1>1, <2>3
      <3>2. QED
        BY <3>1 DEF Distinct
    <2>4. CASE i = k + 1
      <3>1. r[i] = t /\ r[j] = s[j - 1] /\ j - 1 \in 1 .. Len(s)
        BY <1>1, <1>3, <2>4
      <3>2. QED
        BY <1>2, <3>1
    <2>5. CASE i > k + 1
      <3>1. /\ r[i] = s[i - 1] /\ r[j] = s[j - 1] /\ i - 1 < j - 1
            /\ i - 1 \in 1 .. Len(s) /\ j - 1 \in 1 .. Len(s)
        BY <1>1, <1>3, <2>5
      <3>2. QED
        BY <3>1 DEF Distinct
    <2>6. QED
      BY <2>1, <2>2, <2>3, <2>4, <2>5
  <1>4. Elements(r) \subseteq Elements(s) \cup {t}
    BY <1>1 DEF Elements
  <1>5. ASSUME NEW i \in 1 .. Len(s)
        PROVE  s[i] \in Elements(r)
    <2>1. CASE i <= k
      BY <1>1, <2>1 DEF Elements
    <2>2. CASE i > k
      <3>1. i + 1 \in 1 .. Len(r) /\ r[i + 1] = s[i]
        BY <1>1, <2>2
      <3>2. QED
        BY <3>1 DEF Elements
    <2>3. QED
      BY <2>1, <2>2
  <1>6. t \in Elements(r)
    <2>1. k + 1 \in 1 .. Len(r) /\ r[k + 1] = t
      BY <1>1
    <2>2. QED
      BY <2>1 DEF Elements
  <1>7. Elements(s) \cup {t} \subseteq Elements(r)
    BY <1>5, <1>6 DEF Elements
  <1>8. QED
    BY <1>3, <1>4, <1>7 DEF Distinct, r

\* It goes between those that expire by e and those that expire later.
LEMMA SplicedAscending ==
  ASSUME NEW S, NEW s \in Seq(S), NEW t \in S, NEW k \in 0 .. Len(s), t \notin Elements(s),
         NEW f \in [S -> Nat], Ascending(s, f), NEW e \in Nat, Divides(s, k, f, e)
  PROVE  Ascending(Spliced(s, k, t), [f EXCEPT ![t] = e])
  <1> DEFINE r == Spliced(s, k, t)
             g == [f EXCEPT ![t] = e]
  <1> HIDE DEF r
  <1>1. PutIn(r, s, k, t)
    BY SplicedProperties DEF r
  <1> USE DEF PutIn
  <1>2. \A i \in 1 .. Len(s) : s[i] \in S /\ g[s[i]] = f[s[i]] /\ f[s[i]] \in Nat
    BY DEF Elements
  <1>3. g[t] = e
    OBVIOUS
  <1> HIDE DEF g
  <1>4. \A i \in 1 .. Len(s) : i > k => e < f[s[i]]
    <2> SUFFICES ASSUME NEW i \in 1 .. Len(s), i > k
                 PROVE  e < f[s[i]]
      OBVIOUS
    <2>1. k + 1 \in 1 .. Len(s) /\ e < f[s[k + 1]]
      BY DEF Divides
    <2>2. i # k + 1 => f[s[k + 1]] <= f[s[i]]
      BY <2>1 DEF Ascending
    <2>3. QED
      BY <1>2, <2>1, <2>2
  <1>5. /\ \A i \in 1 .. k : g[r[i]] = f[s[i]]
        /\ g[r[k + 1]] = e
        /\ \A i \in k + 2 .. Len(s) + 1 : i - 1 \in 1 .. Len(s) /\ g[r[i]] = f[s[i - 1]]
    <2>1. \A i \in 1 .. k : i \in 1 .. Len(s) /\ r[i] = s[i]
      BY <1>1
    <2>2. \A i \in k + 2 .. Len(s) + 1 : i - 1 \in 1 .. Len(s) /\ r[i] = s[i - 1]
      BY <1>1
    <2>3. r[k + 1] = t
      BY <1>1
    <2>4. QED
      BY <1>2, <1>3, <2>1, <2>2, <2>3
  <1>6. ASSUME NEW i \in 1 .. Len(s) + 1, NEW j \in 1 .. Len(s) + 1, i < j
        PROVE  g[r[i]] <= g[r[j]]
    <2>1. CASE j <= k
      <3>1. /\ g[r[i]] = f[s[i]] /\ g[r[j]] = f[s[j]]
            /\ i \in 1 .. Len(s) /\ j \in 1 .. Len(s)
        <4>1. i \in 1 .. k /\ j \in 1 .. k
          BY <1>6, <2>1
        <4>2. QED
          BY <1>5, <4>1
      <3>2. QED
        BY <1>6, <3>1 DEF Ascending
    <2>2. CASE j = k + 1
      <3>1. g[r[i]] = f[s[i]] /\ g[r[j]] = e /\ i \in 1 .. k
        BY <1>5, <1>6, <2>2
      <3>2. QED
        BY <3>1 DEF Divides
    <2>3. CASE j > k + 1 /\ i <= k
      <3>1. /\ g[r[i]] = f[s[i]] /\ g[r[j]] = f[s[j - 1]] /\ i < j - 1
            /\ i \in 1 .. Len(s) /\ j - 1 \in 1 .. Len(s)
        BY <1>5, <2>3
      <3>2. QED
        BY <3>1 DEF Ascending
    <2>4. CASE i = k + 1
      <3>1. g[r[i]] = e /\ g[r[j]] = f[s[j - 1]] /\ j - 1 \in 1 .. Len(s) /\ j - 1 > k
        BY <1>5, <1>6, <2>4
      <3>2. e < f[s[j - 1]] /\ f[s[j - 1]] \in Nat
        BY <1>2, <1>4, <3>1
      <3>3. QED
        BY <3>1, <3>2
    <2>5. CASE i > k + 1
      <3>1. /\ g[r[i]] = f[s[i - 1]] /\ g[r[j]] = f[s[j - 1]] /\ i - 1 < j - 1
            /\ i - 1 \in 1 .. Len(s) /\ j - 1 \in 1 .. Len(s)
        BY <1>5, <1>6, <2>5
      <3>2. QED
        BY <3>1 DEF Ascending
    <2>6. QED
      BY <2>1, <2>2, <2>3, <2>4, <2>5
  <1>7. QED
    BY <1>1, <1>6 DEF Ascending, r, g

\* One element is taken out: the others stay, in their order.
LEMMA CutElements ==
  ASSUME NEW S, NEW s \in Seq(S), NEW p \in 1 .. Len(s), Distinct(s)
  PROVE  /\ Distinct(Cut(s, p))
         /\ Elements(Cut(s, p)) = Elements(s) \ {s[p]}
  <1> DEFINE r == Cut(s, p)
  <1> HIDE DEF r
  <1>1. TakenOut(r, s, p)
    BY CutProperties DEF r
  <1> USE DEF TakenOut
  <1>2. Distinct(r)
    BY <1>1 DEF Distinct
  <1>3. Elements(r) \subseteq Elements(s) \ {s[p]}
    BY <1>1 DEF Elements, Distinct
  <1>4. ASSUME NEW i \in 1 .. Len(s), s[i] # s[p]
        PROVE  s[i] \in Elements(r)
    <2>1. CASE i < p
      BY <1>1, <2>1 DEF Elements
    <2>2. CASE i > p
      <3>1. i - 1 \in 1 .. Len(r) /\ r[i - 1] = s[i]
        BY <1>1, <2>2
      <3>2. QED
        BY <3>1 DEF Elements
    <2>3. QED
      BY <1>4, <2>1, <2>2
  <1>5. Elements(s) \ {s[p]} \subseteq Elements(r)
    BY <1>4 DEF Elements
  <1>6. QED
    BY <1>2, <1>3, <1>5 DEF r

\* A list without one of its timers stays sorted.
LEMMA CutAscending ==
  ASSUME NEW S, NEW s \in Seq(S), NEW p \in 1 .. Len(s),
         NEW f, Ascending(s, f)
  PROVE  Ascending(Cut(s, p), f)
  <1>1. TakenOut(Cut(s, p), s, p)
    BY CutProperties
  <1>2. QED
    BY <1>1 DEF TakenOut, Ascending

\* To put an element back where it was changes nothing.
LEMMA CutAndSpliced ==
  ASSUME NEW S, NEW s \in Seq(S), NEW p \in 1 .. Len(s)
  PROVE  Spliced(Cut(s, p), p - 1, s[p]) = s
  <1> DEFINE c == Cut(s, p)
             r == Spliced(c, p - 1, s[p])
  <1> HIDE DEF c, r
  <1>1. c \in Seq(S) /\ TakenOut(c, s, p)
    BY CutProperties DEF c
  <1>2. p - 1 \in 0 .. Len(c) /\ s[p] \in S
    BY <1>1 DEF TakenOut
  <1>3. r \in Seq(S) /\ PutIn(r, c, p - 1, s[p])
    BY <1>1, <1>2, SplicedProperties DEF r
  <1>4. Len(r) = Len(s) /\ \A i \in 1 .. Len(s) : r[i] = s[i]
    BY <1>1, <1>3 DEF TakenOut, PutIn
  <1>5. QED
    BY <1>3, <1>4, SeqEqual DEF r, c

-----------------------------------------------------------------------------
(* The operations of the list.                                             *)

\* Where InsertBehind stops: behind those that expire by e, as far as it looked.
LEMMA BehindProperties ==
  ASSUME NEW s \in Seq(Timers), NEW t \in Timers, NEW from \in 1 .. Len(s), NEW e \in Nat,
         expire \in [Timers -> Nat]
  PROVE  \E k \in from .. Len(s) :
           /\ InsertBehind(s, t, from, e) = Spliced(s, k, t)
           /\ \A i \in from + 1 .. k : expire[s[i]] <= e
           /\ k < Len(s) => e < expire[s[k + 1]]
  <1> DEFINE Ends(k) == k < Len(s) => e < expire[s[k + 1]]
             Found(k) == Ends(k) /\ \A j \in from + 1 .. k : expire[s[j]] <= e
             K == {k \in from .. Len(s) : Ends(k)}
             at == CHOOSE k \in from .. Len(s) : Found(k)
  <1>1. K \in SUBSET Nat /\ Len(s) \in K
    OBVIOUS
  <1>2. PICK k \in K : \A m \in K : k <= m
    <2> HIDE DEF K
    <2>1. QED
      BY <1>1, LeastNumber
  <1>3. ASSUME NEW j \in from + 1 .. k
        PROVE  expire[s[j]] <= e
    <2>1. j - 1 \in from .. Len(s) /\ j - 1 < k /\ j - 1 < Len(s) /\ j \in 1 .. Len(s)
      OBVIOUS
    <2>2. ~Ends(j - 1)
      <3>1. j - 1 \notin K
        BY <1>2, <2>1
      <3>2. QED
        BY <2>1, <3>1
    <2>3. expire[s[j]] \in Nat
      BY <2>1
    <2>4. QED
      BY <2>1, <2>2, <2>3
  <1>4. k \in from .. Len(s) /\ Found(k)
    BY <1>2, <1>3
  <1>5. at \in from .. Len(s) /\ Found(at)
    <2> HIDE DEF Found
    <2>1. QED
      BY <1>4
  <1>6. InsertBehind(s, t, from, e) = Spliced(s, at, t)
    BY DEF InsertBehind, Spliced
  <1> HIDE DEF at
  <1>7. QED
    BY <1>5, <1>6

\* add_timer keeps the order: t goes behind all that expire by e.
LEMMA InsertProperties ==
  ASSUME NEW s \in Seq(Timers), NEW t \in Timers, NEW e \in Nat, expire \in [Timers -> Nat]
  PROVE  \E k \in 0 .. Len(s) :
           /\ Insert(s, t, e) = Spliced(s, k, t)
           /\ \A i \in 2 .. k : expire[s[i]] <= e
           /\ k > 0 => expire[s[1]] <= e
           /\ k < Len(s) => e < expire[s[k + 1]]
  <1>1. CASE s = <<>> \/ e < expire[s[1]]
    <2>1. Insert(s, t, e) = <<t>> \o s
      BY <1>1 DEF Insert
    <2>2. SubSeq(s, 1, 0) = <<>> /\ SubSeq(s, 1, Len(s)) = s
      BY SubSeqEmpty, SubSeqFull
    <2>3. <<>> \o <<t>> = <<t>>
      OBVIOUS
    <2>4. Insert(s, t, e) = Spliced(s, 0, t)
      BY <2>1, <2>2, <2>3 DEF Spliced
    <2>5. QED
      BY <1>1, <2>4
  <1>2. CASE s # <<>> /\ ~(e < expire[s[1]])
    <2>1. 1 \in 1 .. Len(s) /\ expire[s[1]] \in Nat
      BY <1>2
    <2>2. PICK k \in 1 .. Len(s) :
            /\ InsertBehind(s, t, 1, e) = Spliced(s, k, t)
            /\ \A i \in 1 + 1 .. k : expire[s[i]] <= e
            /\ k < Len(s) => e < expire[s[k + 1]]
      BY <2>1, BehindProperties
    <2>3. Insert(s, t, e) = InsertBehind(s, t, 1, e)
      BY <1>2 DEF Insert
    <2>4. QED
      BY <1>2, <2>1, <2>2, <2>3
  <1>3. QED
    BY <1>1, <1>2

\* The place of a timer in the list.
LEMMA PlaceProperties ==
  ASSUME NEW s \in Seq(Timers), NEW t \in Elements(s)
  PROVE  /\ Place(s, t) \in 1 .. Len(s) /\ s[Place(s, t)] = t
         /\ Without(s, t) = Cut(s, Place(s, t))
  BY DEF Elements, Place, Without, Cut

\* adjust_timer takes the timer out and puts it back, before the first behind its
\* place that expires later.
LEMMA AdjustedProperties ==
  ASSUME NEW s \in Seq(Timers), NEW t \in Elements(s), NEW e \in Nat, expire \in [Timers -> Nat],
         Distinct(s)
  PROVE  LET p == Place(s, t)
             c == Cut(s, p)
         IN  \E k \in p - 1 .. Len(c) :
               /\ Adjusted(s, t, e) = Spliced(c, k, t)
               /\ \A i \in p .. k : expire[c[i]] <= e
               /\ k < Len(c) => e < expire[c[k + 1]]
  <1> DEFINE p == Place(s, t)
             c == Cut(s, p)
  <1>1. p \in 1 .. Len(s) /\ s[p] = t /\ Without(s, t) = c /\ t \in Timers
    BY PlaceProperties
  <1>2. c \in Seq(Timers) /\ TakenOut(c, s, p)
    BY <1>1, CutProperties
  <1>3. Adjusted(s, t, e) =
          IF p = Len(s) \/ e < expire[s[p + 1]] THEN s ELSE InsertBehind(c, t, p, e)
    BY <1>1 DEF Adjusted
  <1>4. Spliced(c, p - 1, t) = s
    BY <1>1, CutAndSpliced
  <1> HIDE DEF p, c
  <1>5. Len(c) = Len(s) - 1
    BY <1>2 DEF TakenOut
  <1>6. p < Len(s) => p \in 1 .. Len(c) /\ c[p] = s[p + 1]
    BY <1>1, <1>2, <1>5 DEF TakenOut
  <1>7. CASE p = Len(s) \/ e < expire[s[p + 1]]
    <2>1. Adjusted(s, t, e) = Spliced(c, p - 1, t)
      BY <1>3, <1>4, <1>7
    <2>2. p - 1 < Len(c) => e < expire[c[(p - 1) + 1]]
      BY <1>1, <1>5, <1>6, <1>7
    <2>3. QED
      BY <1>1, <1>5, <2>1, <2>2 DEF p, c
  <1>8. CASE ~(p = Len(s) \/ e < expire[s[p + 1]])
    <2>1. p \in 1 .. Len(c) /\ ~(e < expire[c[p]]) /\ expire[c[p]] \in Nat
      BY <1>1, <1>2, <1>6, <1>8
    <2>2. PICK k \in p .. Len(c) :
            /\ InsertBehind(c, t, p, e) = Spliced(c, k, t)
            /\ \A i \in p + 1 .. k : expire[c[i]] <= e
            /\ k < Len(c) => e < expire[c[k + 1]]
      BY <1>1, <1>2, <2>1, BehindProperties
    <2>3. Adjusted(s, t, e) = Spliced(c, k, t)
      BY <1>3, <1>8, <2>2
    <2>4. \A i \in p .. k : expire[c[i]] <= e
      BY <1>1, <2>1, <2>2
    <2>5. QED
      BY <1>1, <2>2, <2>3, <2>4 DEF p, c
  <1>9. QED
    BY <1>7, <1>8

\* Only one place of a list is behind those that expire by e and before the others.
LEMMA DividesOnce ==
  ASSUME NEW S, NEW s \in Seq(S), NEW f \in [S -> Nat], NEW e \in Nat,
         NEW k \in 0 .. Len(s), NEW m \in 0 .. Len(s), Divides(s, k, f, e), Divides(s, m, f, e)
  PROVE  k = m
  <1>1. \A i \in 1 .. Len(s) : f[s[i]] \in Nat
    OBVIOUS
  <1>2. ~(k < m)
    BY <1>1 DEF Divides
  <1>3. ~(m < k)
    BY <1>1 DEF Divides
  <1>4. QED
    BY <1>2, <1>3

\* add_timer puts a timer behind those that expire by e and before the others.
LEMMA InsertDivides ==
  ASSUME NEW s \in Seq(Timers), NEW t \in Timers, NEW e \in Nat, expire \in [Timers -> Nat]
  PROVE  \E k \in 0 .. Len(s) : Insert(s, t, e) = Spliced(s, k, t) /\ Divides(s, k, expire, e)
  <1>1. PICK k \in 0 .. Len(s) :
          /\ Insert(s, t, e) = Spliced(s, k, t)
          /\ \A i \in 2 .. k : expire[s[i]] <= e
          /\ k > 0 => expire[s[1]] <= e
          /\ k < Len(s) => e < expire[s[k + 1]]
    BY InsertProperties
  <1>2. QED
    BY <1>1 DEF Divides

\* adjust_timer does so too in a sorted list, although it does not look at those in
\* front, if the timer does not expire earlier than before.
LEMMA AdjustedDivides ==
  ASSUME NEW s \in Seq(Timers), NEW t \in Elements(s), NEW e \in Nat, expire \in [Timers -> Nat],
         Distinct(s), Ascending(s, expire), expire[t] <= e
  PROVE  \E k \in 0 .. Len(Without(s, t)) :
           /\ Adjusted(s, t, e) = Spliced(Without(s, t), k, t)
           /\ Divides(Without(s, t), k, expire, e)
  <1> DEFINE p == Place(s, t)
             c == Cut(s, p)
  <1>1. p \in 1 .. Len(s) /\ s[p] = t /\ Without(s, t) = c
    BY PlaceProperties
  <1>2. PICK k \in p - 1 .. Len(c) :
          /\ Adjusted(s, t, e) = Spliced(c, k, t)
          /\ \A i \in p .. k : expire[c[i]] <= e
          /\ k < Len(c) => e < expire[c[k + 1]]
    BY AdjustedProperties
  <1> HIDE DEF p
  <1>3. c \in Seq(Timers) /\ TakenOut(c, s, p)
    BY <1>1, CutProperties
  <1> HIDE DEF c
  <1>4. ASSUME NEW i \in 1 .. k
        PROVE  expire[c[i]] <= e
    <2>1. CASE i >= p
      BY <1>2, <2>1
    <2>2. CASE i < p
      <3>1. c[i] = s[i] /\ i \in 1 .. Len(s)
        BY <1>1, <1>3, <2>2 DEF TakenOut
      <3>2. expire[s[i]] <= expire[s[p]]
        BY <1>1, <2>2, <3>1 DEF Ascending
      <3>3. expire[s[i]] \in Nat /\ expire[t] \in Nat
        BY <1>1, <3>1
      <3>4. QED
        BY <1>1, <3>1, <3>2, <3>3
    <2>3. QED
      BY <1>1, <2>1, <2>2
  <1>5. k \in 0 .. Len(c) /\ Divides(c, k, expire, e)
    BY <1>1, <1>2, <1>3, <1>4 DEF Divides
  <1>6. QED
    BY <1>1, <1>2, <1>5

\* So adjust_timer, which searches from the place of the timer on, does what
\* del_timer and add_timer from the head would.
THEOREM AdjustedIsReinserted ==
  ASSUME NEW s \in Seq(Timers), NEW t \in Elements(s), NEW e \in Nat, expire \in [Timers -> Nat],
         Distinct(s), Ascending(s, expire), expire[t] <= e
  PROVE  Adjusted(s, t, e) = Insert(Without(s, t), t, e)
  <1> DEFINE c == Without(s, t)
  <1>1. PICK k \in 0 .. Len(c) : Adjusted(s, t, e) = Spliced(c, k, t) /\ Divides(c, k, expire, e)
    BY AdjustedDivides
  <1>2. c \in Seq(Timers) /\ t \in Timers
    BY PlaceProperties, CutProperties DEF Elements
  <1> HIDE DEF c
  <1>3. PICK m \in 0 .. Len(c) : Insert(c, t, e) = Spliced(c, m, t) /\ Divides(c, m, expire, e)
    BY <1>2, InsertDivides
  <1>4. k = m
    BY <1>1, <1>2, <1>3, DividesOnce
  <1>5. QED
    BY <1>1, <1>3, <1>4 DEF c

\* A timer that was put in is behind those that expire by its time, before the
\* others, and can be taken out again.
LEMMA SplicedPlaces ==
  ASSUME NEW s \in Seq(Timers), Distinct(s), NEW t \in Timers, t \notin Elements(s),
         NEW k \in 0 .. Len(s), NEW e \in Nat, expire \in [Timers -> Nat],
         Ascending(s, expire), Divides(s, k, expire, e)
  PROVE  LET r == Spliced(s, k, t) IN
           /\ Without(r, t) = s
           /\ \A u \in Elements(s) : Place(r, u) < Place(r, t) <=> expire[u] <= e
  <1> DEFINE r == Spliced(s, k, t)
  <1>1. r \in Seq(Timers) /\ PutIn(r, s, k, t)
    BY SplicedProperties
  <1>2. Distinct(r) /\ Elements(r) = Elements(s) \cup {t}
    BY SplicedElements
  <1> HIDE DEF r
  <1>3. Place(r, t) \in 1 .. Len(r) /\ r[Place(r, t)] = t /\ Without(r, t) = Cut(r, Place(r, t))
    BY <1>1, <1>2, PlaceProperties
  <1>4. Place(r, t) = k + 1
    <2>1. k + 1 \in 1 .. Len(r) /\ r[k + 1] = t
      BY <1>1 DEF PutIn
    <2>2. QED
      BY <1>2, <1>3, <2>1 DEF Distinct
  <1>5. Without(r, t) = s
    <2>1. Cut(r, k + 1) \in Seq(Timers) /\ TakenOut(Cut(r, k + 1), r, k + 1)
      BY <1>1, <1>3, <1>4, CutProperties
    <2> DEFINE c == Cut(r, k + 1)
    <2> HIDE DEF c
    <2>2. Len(c) = Len(s) /\ \A i \in 1 .. Len(s) : c[i] = s[i]
      <3>1. Len(c) = Len(s)
        BY <1>1, <2>1 DEF PutIn, TakenOut, c
      <3>2. ASSUME NEW i \in 1 .. Len(s), i <= k
            PROVE  c[i] = s[i]
        BY <1>1, <2>1, <3>2 DEF PutIn, TakenOut, c
      <3>3. ASSUME NEW i \in 1 .. Len(s), i > k
            PROVE  c[i] = s[i]
        <4>1. c[i] = r[i + 1]
          BY <1>1, <2>1, <3>3 DEF PutIn, TakenOut, c
        <4>2. r[i + 1] = s[(i + 1) - 1]
          BY <1>1, <3>3 DEF PutIn
        <4>3. QED
          BY <4>1, <4>2
      <3>4. QED
        BY <3>1, <3>2, <3>3
    <2>3. QED
      BY <1>3, <1>4, <2>1, <2>2, SeqEqual DEF c
  <1>6. ASSUME NEW u \in Elements(s)
        PROVE  Place(r, u) < Place(r, t) <=> expire[u] <= e
    <2>1. Place(r, u) \in 1 .. Len(r) /\ r[Place(r, u)] = u
      BY <1>1, <1>2, PlaceProperties
    <2>2. Place(r, u) # k + 1
      BY <1>3, <1>4, <2>1 DEF Elements
    <2>3. CASE Place(r, u) < k + 1
      <3>1. Place(r, u) \in 1 .. k /\ u = s[Place(r, u)]
        BY <1>1, <2>1, <2>3 DEF PutIn
      <3>2. QED
        BY <1>4, <2>3, <3>1 DEF Divides
    <2>4. CASE Place(r, u) > k + 1
      <3>1. /\ Place(r, u) - 1 \in k + 1 .. Len(s) /\ u = s[Place(r, u) - 1]
            /\ k + 1 \in 1 .. Len(s) /\ k < Len(s)
        BY <1>1, <2>1, <2>4 DEF PutIn
      <3>2. expire[s[k + 1]] <= expire[u]
        <4>1. CASE Place(r, u) - 1 = k + 1
          BY <3>1, <4>1
        <4>2. CASE k + 1 < Place(r, u) - 1
          BY <3>1, <4>2 DEF Ascending
        <4>3. QED
          BY <3>1, <4>1, <4>2
      <3>3. e < expire[s[k + 1]] /\ expire[s[k + 1]] \in Nat /\ expire[u] \in Nat
        BY <3>1 DEF Divides
      <3>4. QED
        BY <1>4, <2>1, <2>4, <3>2, <3>3
    <2>5. QED
      BY <1>1, <2>1, <2>2, <2>3, <2>4
  <1>7. QED
    BY <1>5, <1>6 DEF r

-----------------------------------------------------------------------------
(* The inductive invariant: the list is in order unless the clock was set  *)
(* back, and the time that tick() compares with has come.                  *)

TimeInv == mode # "idle" => stepped \/ cur <= now

SortedInv == TypeOK /\ Ordered /\ TimeInv

\* Ordered in the terms of the lemmas on lists.
LEMMA OrderedMeans == Ordered <=> Distinct(list) /\ (stepped \/ Ascending(list, expire))
  BY DEF Ordered, Distinct, Ascending

\* The same of the next state.
LEMMA OrderedNext == Ordered' <=> Distinct(list') /\ (stepped' \/ Ascending(list', expire'))
  BY DEF Ordered, Distinct, Ascending

\* The empty list.
LEMMA InitSortedInv == Init => SortedInv
  <1> SUFFICES ASSUME Init
               PROVE  SortedInv
    OBVIOUS
  <1>1. TypeOK
    <2>1. 0 \in 0 .. MaxTime /\ <<>> \in Seq(Timers) /\ [t \in Timers |-> 0] \in [Timers -> Nat]
      BY TimersAssumption
    <2>2. QED
      BY <2>1 DEF Init, TypeOK
  <1>2. Ordered /\ TimeInv
    BY DEF Init, Ordered, TimeInv
  <1>3. QED
    BY <1>1, <1>2 DEF SortedInv

\* What is in the list.
LEMMA ListElements == InList = Elements(list)
  BY DEF InList, Elements

\* add_timer.
LEMMA AddSortedInv ==
  ASSUME SortedInv, NEW t \in Timers, NEW e \in Nat, Add(t, e)
  PROVE  SortedInv'
  <1>1. /\ list \in Seq(Timers) /\ expire \in [Timers -> Nat]
        /\ t \notin Elements(list)
        /\ list' = Insert(list, t, e)
        /\ expire' = [expire EXCEPT ![t] = e]
        /\ UNCHANGED <<mode, cur, now, stepped>>
    BY ListElements DEF SortedInv, TypeOK, Add, tickVars, clock
  <1>2. Distinct(list) /\ (stepped \/ Ascending(list, expire))
    BY OrderedMeans DEF SortedInv
  <1>3. PICK k \in 0 .. Len(list) :
          /\ list' = Spliced(list, k, t)
          /\ \A i \in 2 .. k : expire[list[i]] <= e
          /\ k > 0 => expire[list[1]] <= e
          /\ k < Len(list) => e < expire[list[k + 1]]
    BY <1>1, InsertProperties
  <1>4. list' \in Seq(Timers) /\ PutIn(list', list, k, t)
    BY <1>1, <1>3, SplicedProperties
  <1>5. Distinct(list')
    BY <1>1, <1>2, <1>3, SplicedElements
  <1>6. ASSUME Ascending(list, expire)
        PROVE  Ascending(list', expire')
    <2>1. Divides(list, k, expire, e)
      BY <1>3 DEF Divides
    <2>2. Ascending(Spliced(list, k, t), [expire EXCEPT ![t] = e])
      BY <1>1, <1>6, <2>1, SplicedAscending
    <2>3. QED
      BY <1>1, <1>3, <2>2
  <1>7. Ordered'
    BY <1>1, <1>2, <1>5, <1>6, OrderedNext
  <1>8. list' # <<>>
    BY <1>4 DEF PutIn
  <1>9. TypeOK' /\ TimeInv'
    BY <1>1, <1>4, <1>8 DEF SortedInv, TypeOK, TimeInv
  <1>10. QED
    BY <1>7, <1>9 DEF SortedInv

\* adjust_timer; its caller has not set an earlier expiry, unless the clock was set back.
LEMMA AdjustSortedInv ==
  ASSUME SortedInv, NEW t \in Timers, NEW e \in Nat, Adjust(t, e)
  PROVE  SortedInv'
  <1> DEFINE p == Place(list, t)
             c == Cut(list, p)
  <1>1. /\ list \in Seq(Timers) /\ expire \in [Timers -> Nat]
        /\ t \in Elements(list)
        /\ expire[t] <= e \/ stepped
        /\ list' = Adjusted(list, t, e)
        /\ expire' = [expire EXCEPT ![t] = e]
        /\ UNCHANGED <<mode, cur, now, stepped>>
    BY ListElements DEF SortedInv, TypeOK, Adjust, tickVars, clock
  <1>2. Distinct(list) /\ (stepped \/ Ascending(list, expire))
    BY OrderedMeans DEF SortedInv
  <1>3. p \in 1 .. Len(list) /\ list[p] = t
    BY <1>1, PlaceProperties
  <1>4. PICK k \in p - 1 .. Len(c) :
          /\ list' = Spliced(c, k, t)
          /\ \A i \in p .. k : expire[c[i]] <= e
          /\ k < Len(c) => e < expire[c[k + 1]]
    BY <1>1, <1>2, AdjustedProperties
  <1> HIDE DEF p
  <1>5. /\ c \in Seq(Timers) /\ TakenOut(c, list, p)
        /\ Distinct(c) /\ Elements(c) = Elements(list) \ {t}
    BY <1>1, <1>2, <1>3, CutProperties, CutElements
  <1>6. ASSUME Ascending(list, expire)
        PROVE  Ascending(c, expire)
    BY <1>1, <1>3, <1>6, CutAscending
  <1> HIDE DEF c
  <1>7. k \in 0 .. Len(c)
    BY <1>3, <1>4, <1>5
  <1>8. list' \in Seq(Timers) /\ PutIn(list', c, k, t)
    BY <1>4, <1>5, <1>7, SplicedProperties
  <1>9. Distinct(list')
    BY <1>4, <1>5, <1>7, SplicedElements
  <1>10. ASSUME ~stepped
         PROVE  Ascending(list', expire')
    <2>1. PICK m \in 0 .. Len(c) : list' = Spliced(c, m, t) /\ Divides(c, m, expire, e)
      <3>1. Without(list, t) = c
        BY <1>1, PlaceProperties DEF c, p
      <3>2. QED
        BY <1>1, <1>2, <1>10, <3>1, AdjustedDivides
    <2>2. Ascending(c, expire) /\ t \notin Elements(c)
      BY <1>2, <1>5, <1>6, <1>10
    <2>3. Ascending(Spliced(c, m, t), [expire EXCEPT ![t] = e])
      BY <1>1, <1>5, <2>1, <2>2, SplicedAscending
    <2>4. QED
      BY <1>1, <2>1, <2>3
  <1>11. Ordered'
    BY <1>1, <1>9, <1>10, OrderedNext
  <1>12. list' # <<>>
    BY <1>5, <1>7, <1>8 DEF PutIn
  <1>13. TypeOK' /\ TimeInv'
    BY <1>1, <1>8, <1>12 DEF SortedInv, TypeOK, TimeInv
  <1>14. QED
    BY <1>11, <1>13 DEF SortedInv

\* del_timer; a callback does not delete the timer it is called for, so the list
\* does not become empty in it.
LEMMA DelSortedInv ==
  ASSUME SortedInv, NEW t \in Timers, Del(t)
  PROVE  SortedInv'
  <1> DEFINE p == Place(list, t)
             c == Cut(list, p)
  <1>1. /\ list \in Seq(Timers) /\ expire \in [Timers -> Nat]
        /\ t \in Elements(list)
        /\ list' = Without(list, t)
        /\ expire' = [expire EXCEPT ![t] = 0]
        /\ mode = "calling" => t # list[1]
        /\ UNCHANGED <<mode, cur, now, stepped>>
    BY ListElements DEF SortedInv, TypeOK, Del, Firing, tickVars, clock
  <1>2. Distinct(list) /\ (stepped \/ Ascending(list, expire))
    BY OrderedMeans DEF SortedInv
  <1>3. p \in 1 .. Len(list) /\ list[p] = t /\ list' = c
    BY <1>1, PlaceProperties
  <1> HIDE DEF p
  <1>4. /\ list' \in Seq(Timers) /\ TakenOut(list', list, p)
        /\ Distinct(list') /\ Elements(list') = Elements(list) \ {t}
    BY <1>1, <1>2, <1>3, CutProperties, CutElements
  <1>5. ASSUME Ascending(list, expire)
        PROVE  Ascending(list', expire')
    <2>1. Ascending(list', expire)
      BY <1>1, <1>3, <1>5, CutAscending
    <2>2. \A i \in 1 .. Len(list') : expire'[list'[i]] = expire[list'[i]]
      <3>1. \A i \in 1 .. Len(list') : list'[i] # t
        BY <1>4 DEF Elements
      <3>2. QED
        BY <1>1, <1>4, <3>1
    <2>3. QED
      BY <2>1, <2>2 DEF Ascending
  <1>6. Ordered'
    BY <1>1, <1>2, <1>4, <1>5, OrderedNext
  <1>7. mode = "calling" => list' # <<>>
    <2>1. mode = "calling" => p # 1 /\ Len(list) > 1
      BY <1>1, <1>3
    <2>2. QED
      BY <1>1, <1>4, <2>1 DEF TakenOut
  <1>8. TypeOK' /\ TimeInv'
    BY <1>1, <1>4, <1>7 DEF SortedInv, TypeOK, TimeInv
  <1>9. QED
    BY <1>6, <1>8 DEF SortedInv

\* The deletion of the timer whose callback has returned.
LEMMA ReturnSortedInv ==
  ASSUME SortedInv, Return
  PROVE  SortedInv'
  <1>1. /\ list \in Seq(Timers) /\ expire \in [Timers -> Nat] /\ list # <<>>
        /\ list' = Tail(list)
        /\ expire' = [expire EXCEPT ![list[1]] = 0]
        /\ mode = "calling" /\ mode' = "visiting"
        /\ UNCHANGED <<cur, now, stepped>>
    BY DEF SortedInv, TypeOK, Return, clock
  <1>2. Distinct(list) /\ (stepped \/ Ascending(list, expire))
    BY OrderedMeans DEF SortedInv
  <1>3. /\ list' \in Seq(Timers) /\ Len(list') = Len(list) - 1
        /\ \A i \in 1 .. Len(list') : list'[i] = list[i + 1]
    BY <1>1, HeadTailProperties
  <1>4. Distinct(list')
    BY <1>1, <1>2, <1>3 DEF Distinct
  <1>5. \A i \in 1 .. Len(list') : expire'[list'[i]] = expire[list[i + 1]]
    <2>1. \A i \in 1 .. Len(list') : list'[i] = list[i + 1] /\ list[i + 1] # list[1]
      BY <1>1, <1>2, <1>3 DEF Distinct
    <2>2. QED
      BY <1>1, <1>3, <2>1
  <1>6. Ascending(list, expire) => Ascending(list', expire')
    BY <1>1, <1>3, <1>5 DEF Ascending
  <1>7. Ordered'
    BY <1>1, <1>2, <1>4, <1>6, OrderedNext
  <1>8. TypeOK' /\ TimeInv'
    BY <1>1, <1>3 DEF SortedInv, TypeOK, TimeInv
  <1>9. QED
    BY <1>7, <1>8 DEF SortedInv

\* Every step keeps the invariant.
LEMMA NextSortedInv == SortedInv /\ [Next]_vars => SortedInv'
  <1> SUFFICES ASSUME SortedInv, [Next]_vars
               PROVE  SortedInv'
    OBVIOUS
  <1> USE DEF SortedInv
  <1>1. ASSUME UNCHANGED <<list, expire>>, stepped => stepped', Ordered
        PROVE  Ordered'
    BY <1>1 DEF Ordered
  <1>2. CASE TickStart
    <2>1. TypeOK' /\ TimeInv'
      BY <1>2 DEF TickStart, Time, clock, TypeOK, TimeInv
    <2>2. QED
      BY <1>1, <1>2, <2>1 DEF TickStart, clock
  <1>3. CASE Call \/ TickEnd
    <2>1. TypeOK' /\ TimeInv'
      BY <1>3, TimersAssumption DEF Call, TickEnd, clock, TypeOK, TimeInv
    <2>2. QED
      BY <1>1, <1>3, <2>1 DEF Call, TickEnd, clock
  <1>4. CASE Return
    BY <1>4, ReturnSortedInv
  <1>5. CASE Destroy
    BY <1>5 DEF Destroy, tickVars, clock, TypeOK, Ordered, TimeInv
  <1>6. CASE Wait \/ SetBack
    <2>1. TypeOK'
      <3>1. now' \in 0 .. MaxTime
        BY <1>6, TimersAssumption DEF Wait, SetBack, TypeOK
      <3>2. QED
        BY <1>6, <3>1 DEF Wait, SetBack, tickVars, TypeOK
    <2>2. TimeInv'
      BY <1>6 DEF Wait, SetBack, tickVars, TypeOK, TimeInv
    <2>3. QED
      BY <1>1, <1>6, <2>1, <2>2 DEF Wait, SetBack, tickVars
  <1>7. ASSUME NEW t \in Timers, NEW delay \in Delays, Add(t, now + delay) \/ Adjust(t, now + delay)
        PROVE  SortedInv'
    <2>1. now + delay \in Nat
      BY TimersAssumption DEF TypeOK
    <2>2. QED
      BY <1>7, <2>1, AddSortedInv, AdjustSortedInv
  <1>8. ASSUME NEW t \in Timers, Del(t)
        PROVE  SortedInv'
    BY <1>8, DelSortedInv
  <1>9. CASE UNCHANGED vars
    BY <1>9 DEF vars, tickVars, clock, TypeOK, Ordered, TimeInv
  <1>10. QED
    BY <1>2, <1>3, <1>4, <1>5, <1>6, <1>7, <1>8, <1>9 DEF Next, Tick

\* The invariant holds in every reachable state.
LEMMA SortedInvariant == Spec => []SortedInv
  BY InitSortedInv, NextSortedInv, PTL DEF Spec

-----------------------------------------------------------------------------
(* The theorems.                                                           *)

\* The list keeps its types, and is not empty in a callback, which tick() calls
\* for its head.
THEOREM TypeTheorem == Spec => []TypeOK
  BY SortedInvariant, PTL DEF SortedInv

\* add_timer, adjust_timer, del_timer and tick() keep the list sorted, and no timer
\* is in it twice, for every set of timers and all delays.
THEOREM OrderTheorem == Spec => []Ordered
  BY SortedInvariant, PTL DEF SortedInv

\* add_timer and adjust_timer put a timer behind those that expire by its time and
\* before those that expire later, and move no other, if the clock is not set back.
LEMMA AddInOrder ==
  ASSUME SortedInv, ~stepped, NEW t \in Timers, NEW e \in Nat, Add(t, e) \/ Adjust(t, e)
  PROVE  /\ Without(list', t) = IF t \in InList THEN Without(list, t) ELSE list
         /\ \A u \in InList \ {t} : Place(list', u) < Place(list', t) <=> expire[u] <= e
  <1>1. /\ list \in Seq(Timers) /\ expire \in [Timers -> Nat]
        /\ Distinct(list) /\ Ascending(list, expire)
    BY OrderedMeans DEF SortedInv, TypeOK
  <1>2. CASE Add(t, e)
    <2>1. t \notin Elements(list) /\ list' = Insert(list, t, e)
      BY <1>2, ListElements DEF Add
    <2>2. PICK k \in 0 .. Len(list) : list' = Spliced(list, k, t) /\ Divides(list, k, expire, e)
      BY <1>1, <2>1, InsertDivides
    <2>3. /\ Without(list', t) = list
          /\ \A u \in Elements(list) : Place(list', u) < Place(list', t) <=> expire[u] <= e
      BY <1>1, <2>1, <2>2, SplicedPlaces
    <2>4. QED
      BY <2>1, <2>3, ListElements
  <1>3. CASE Adjust(t, e)
    <2> DEFINE c == Without(list, t)
    <2>1. t \in Elements(list) /\ expire[t] <= e /\ list' = Adjusted(list, t, e)
      BY <1>3, ListElements DEF Adjust
    <2>2. PICK k \in 0 .. Len(c) : list' = Spliced(c, k, t) /\ Divides(c, k, expire, e)
      BY <1>1, <2>1, AdjustedDivides
    <2>3. Place(list, t) \in 1 .. Len(list) /\ list[Place(list, t)] = t /\ c = Cut(list, Place(list, t))
      BY <1>1, <2>1, PlaceProperties
    <2>4. /\ c \in Seq(Timers) /\ Distinct(c) /\ Elements(c) = Elements(list) \ {t}
          /\ Ascending(c, expire)
      BY <1>1, <2>3, CutProperties, CutElements, CutAscending
    <2> HIDE DEF c
    <2>5. /\ Without(list', t) = c
          /\ \A u \in Elements(c) : Place(list', u) < Place(list', t) <=> expire[u] <= e
      BY <1>1, <2>2, <2>4, SplicedPlaces
    <2>6. QED
      BY <2>1, <2>4, <2>5, ListElements DEF c
  <1>4. QED
    BY <1>2, <1>3

\* Timers of the same expiry stay in the order in which they were added or adjusted.
THEOREM CallsTheorem == Spec => InOrderOfCalls
  <1>1. ASSUME SortedInv, NEW t \in Timers, NEW delay \in Delays, ~stepped,
               Add(t, now + delay) \/ Adjust(t, now + delay)
        PROVE  /\ Without(list', t) = IF t \in InList THEN Without(list, t) ELSE list
               /\ \A u \in InList \ {t} :
                    Place(list', u) < Place(list', t) <=> expire[u] <= now + delay
    <2>1. now + delay \in Nat
      BY <1>1, TimersAssumption DEF SortedInv, TypeOK
    <2>2. QED
      BY Zenon, <1>1, <2>1, AddInOrder
  <1>2. SortedInv =>
          [\A t \in Timers : \A delay \in Delays :
             ~stepped /\ (Add(t, now + delay) \/ Adjust(t, now + delay)) =>
               /\ Without(list', t) = IF t \in InList THEN Without(list, t) ELSE list
               /\ \A u \in InList \ {t} :
                    Place(list', u) < Place(list', t) <=> expire[u] <= now + delay]_vars
    BY Zenon, <1>1
  <1>3. QED
    BY <1>2, SortedInvariant, PTL DEF InOrderOfCalls

\* tick() calls no callback too early and leaves no timer that was due when it
\* began, for it looks no further than the first that is not.
THEOREM TickTheorem == Spec => TickIsExact
  <1>1. ASSUME SortedInv, [Next]_vars, mode' = "calling", mode # "calling"
        PROVE  stepped \/ expire[list[1]] <= now
    <2>1. Call
      BY <1>1 DEF Next, Tick, TickStart, Return, TickEnd, Destroy, Wait, SetBack, Del, Add, Adjust,
                  vars, tickVars
    <2>2. /\ list[1] \in Timers /\ expire[list[1]] <= cur
          /\ stepped \/ cur <= now
      BY <1>1, <2>1 DEF Call, SortedInv, TypeOK, TimeInv
    <2>3. expire[list[1]] \in Nat /\ cur \in Nat /\ now \in Nat
      BY <1>1, <2>2 DEF SortedInv, TypeOK
    <2>4. QED
      BY <2>2, <2>3
  <1>2. ASSUME SortedInv, [Next]_vars, mode = "visiting", mode' = "idle"
        PROVE  stepped \/ \A t \in InList : expire[t] > cur
    <2>1. TickEnd
      BY <1>2 DEF Next, Tick, TickStart, Call, Return, Destroy, Wait, SetBack, Del, Add, Adjust,
                  MayCall, vars, tickVars
    <2>2. SUFFICES ASSUME ~stepped, NEW i \in 1 .. Len(list)
                   PROVE  expire[list[i]] > cur
      BY DEF InList
    <2>3. /\ list \in Seq(Timers) /\ expire \in [Timers -> Nat] /\ cur \in Nat
          /\ cur < expire[list[1]]
      BY <1>2, <2>1 DEF TickEnd, Leave, SortedInv, TypeOK
    <2>4. 1 \in 1 .. Len(list) /\ expire[list[1]] \in Nat /\ expire[list[i]] \in Nat
      BY <2>3
    <2>5. i # 1 => expire[list[1]] <= expire[list[i]]
      BY <1>2, <2>2, <2>4 DEF SortedInv, Ordered
    <2>6. QED
      BY <2>3, <2>4, <2>5
  <1>3. SortedInv /\ [Next]_vars =>
          /\ [mode' = "calling" /\ mode # "calling" => stepped \/ expire[list[1]] <= now]_vars
          /\ [mode = "visiting" /\ mode' = "idle" => stepped \/ \A t \in InList : expire[t] > cur]_vars
    BY <1>1, <1>2
  <1>4. QED
    BY <1>3, SortedInvariant, PTL DEF Spec, TickIsExact

-----------------------------------------------------------------------------
(* The pointers of SortTimerList.  They link the timers of some sequence,  *)
(* in its order; an insertion splices a timer into it, an unlinking cuts   *)
(* one out, at the places where the operators of SortedTimers do.          *)

\* Those of SortTimerList that SortedTimers lacks.
CONSTANT None

VARIABLES
  head, tail, next, prev, allocated, tmp

Lists == INSTANCE SortTimerList

\* The pointers nx and pv link the timers of s.
Links(s, nx, pv) ==
  /\ s \in Seq(Timers) /\ Distinct(s)
  /\ nx \in [Timers -> Timers \cup {None}] /\ pv \in [Timers -> Timers \cup {None}]
  /\ \A i \in 1 .. Len(s) :
       /\ nx[s[i]] = IF i = Len(s) THEN None ELSE s[i + 1]
       /\ pv[s[i]] = IF i = 1 THEN None ELSE s[i - 1]

\* No timer of T has a pointer.
Unlinked(T, nx, pv) == \A t \in T : nx[t] = None /\ pv[t] = None

\* The timers of s, in use, are the list of hd and tl, and no others have pointers.
IsList(s, al, hd, tl, nx, pv) ==
  /\ Links(s, nx, pv)
  /\ al = Elements(s)
  /\ hd = IF s = <<>> THEN None ELSE s[1]
  /\ s # <<>> => tl = s[Len(s)]
  /\ Unlinked(Timers \ al, nx, pv)

\* Lists!Chain and Lists!Place, of any pointers nx and expiry f.
ChainOf(nx, t) ==
  LET chain[n \in 0 .. Cardinality(Timers)] ==
        [u \in Timers \cup {None} |->
           IF n = 0 \/ u = None THEN <<>> ELSE <<u>> \o chain[n - 1][nx[u]]]
  IN  chain[Cardinality(Timers)][t]

PlaceOf(nx, u, e, f) ==
  LET place[n \in 0 .. Cardinality(Timers)] ==
        [v \in Timers |->
           IF n = 0 \/ nx[v] = None \/ e < f[nx[v]] THEN v ELSE place[n - 1][nx[v]]]
  IN  place[Cardinality(Timers)][u]

\* The chain of Lists, as an operator of the pointers.
LEMMA ChainIsChainOf == ASSUME NEW t PROVE Lists!Chain(t) = ChainOf(next, t)
  BY Zenon DEF Lists!Chain, ChainOf, Lists!Cardinality, Cardinality

\* The place that add_timer(timer, lst_head) finds, as an operator of the pointers.
LEMMA PlaceIsPlaceOf == ASSUME NEW nx, NEW u, NEW e PROVE Lists!Place(nx, u, e) = PlaceOf(nx, u, e, expire)
  BY Zenon DEF Lists!Place, Lists!Before, PlaceOf, Lists!Cardinality, Cardinality

\* What they recurse over, up to m.
ChainSolves(c, m, nx) ==
  c = [n \in 0 .. m |->
        [u \in Timers \cup {None} |->
           IF n = 0 \/ u = None THEN <<>> ELSE <<u>> \o c[n - 1][nx[u]]]]

PlaceSolves(c, m, nx, e, f) ==
  c = [n \in 0 .. m |->
        [v \in Timers |->
           IF n = 0 \/ nx[v] = None \/ e < f[nx[v]] THEN v ELSE c[n - 1][nx[v]]]]

\* There are at least as many addresses as timers in a list.
LEMMA DistinctBounded ==
  ASSUME IsFiniteSet(Timers), NEW s \in Seq(Timers), Distinct(s)
  PROVE  Cardinality(Timers) \in Nat /\ Len(s) <= Cardinality(Timers)
  <1>1. s \in Injection(1 .. Len(s), Timers)
    <2>1. s \in [1 .. Len(s) -> Timers]
      OBVIOUS
    <2>2. ASSUME NEW i \in 1 .. Len(s), NEW j \in 1 .. Len(s), s[i] = s[j]
          PROVE  i = j
      BY <2>2 DEF Distinct
    <2>3. QED
      BY <2>1, <2>2 DEF Injection, IsInjective
  <1>2. Cardinality(1 .. Len(s)) <= Cardinality(Timers) /\ Cardinality(Timers) \in Nat
    BY <1>1, FS_Injection, FS_CardinalityType
  <1>3. Cardinality(1 .. Len(s)) = Len(s)
    <2>1. Len(s) \in Nat
      OBVIOUS
    <2>2. QED
      BY <2>1, FS_Interval
  <1>4. QED
    BY <1>2, <1>3

ChainEquals(c, m, nx) ==
  \A n \in 0 .. m : \A u \in Timers \cup {None} :
    c[n][u] = IF n = 0 \/ u = None THEN <<>> ELSE <<u>> \o c[n - 1][nx[u]]

PlaceEquals(c, m, nx, e, f) ==
  \A n \in 0 .. m : \A v \in Timers :
    c[n][v] = IF n = 0 \/ nx[v] = None \/ e < f[nx[v]] THEN v ELSE c[n - 1][nx[v]]

\* The recursion of a chain as equations.
LEMMA ChainEquations ==
  ASSUME NEW m, NEW nx, NEW c, ChainSolves(c, m, nx)
  PROVE  ChainEquals(c, m, nx)
  <1> DEFINE V(n, u) == IF n = 0 \/ u = None THEN <<>> ELSE <<u>> \o c[n - 1][nx[u]]
             h == [n \in 0 .. m |-> [u \in Timers \cup {None} |-> V(n, u)]]
  <1>1. c = h
    BY Zenon DEF ChainSolves
  <1>2. \A n \in 0 .. m : \A u \in Timers \cup {None} : h[n][u] = V(n, u)
    <2> HIDE DEF V
    <2>1. QED
      OBVIOUS
  <1> HIDE DEF h, V
  <1>3. \A n \in 0 .. m : \A u \in Timers \cup {None} : c[n][u] = V(n, u)
    BY Zenon, <1>1, <1>2
  <1>4. QED
    BY Zenon, <1>3 DEF V, ChainEquals

\* The recursion along the pointers has a solution, whatever they point at.
LEMMA ChainExists ==
  ASSUME NEW nx, NEW K \in Nat
  PROVE  \E c : ChainSolves(c, K, nx)
  <1> DEFINE S == {m \in Nat : ~\E c : ChainSolves(c, m, nx)}
  <1>1. CASE S = {}
    BY <1>1
  <1>2. CASE S # {}
    <2>1. PICK m \in S : \A k \in S : m <= k
      BY <1>2, LeastNumber
    <2> DEFINE V(c, n, u) == IF n = 0 \/ u = None THEN <<>> ELSE <<u>> \o c[n - 1][nx[u]]
               H(c) == [n \in 0 .. m |-> [u \in Timers \cup {None} |-> V(c, n, u)]]
    <2>2. m \in Nat /\ \A c : ~ChainSolves(c, m, nx)
      BY <2>1
    <2>3. \A c : ChainSolves(c, m, nx) <=> c = H(c)
      BY Zenon DEF ChainSolves
    <2>4. CASE m = 0
      <3> DEFINE g == [n \in 0 .. m |-> [u \in Timers \cup {None} |-> V(<<>>, 0, u)]]
      <3>1. H(g) = g
        <4>1. \A n \in 0 .. m, u \in Timers \cup {None} : V(g, n, u) = V(<<>>, 0, u)
          BY Z3, <2>4
        <4> HIDE DEF V
        <4>2. QED
          BY <4>1
      <3> HIDE DEF g, H
      <3>2. QED
        BY Zenon, <2>2, <2>3, <3>1
    <2>5. CASE m # 0
      <3>1. m - 1 \in Nat /\ m - 1 \notin S
        BY <2>1, <2>2, <2>5
      <3>2. PICK c : ChainSolves(c, m - 1, nx)
        BY <3>1
      <3>3. \A n \in 0 .. m - 1 : \A u \in Timers \cup {None} : c[n][u] = V(c, n, u)
        <4>1. ChainEquals(c, m - 1, nx)
          BY Zenon, <3>2, ChainEquations
        <4>2. QED
          BY Zenon, <4>1 DEF ChainEquals
      <3> DEFINE h == H(c)
      <3>4. \A n \in 0 .. m : h[n] = [u \in Timers \cup {None} |-> V(c, n, u)]
        <4> HIDE DEF V
        <4>1. QED
          OBVIOUS
      <3>5. c = [n \in 0 .. m - 1 |-> [u \in Timers \cup {None} |-> V(c, n, u)]]
        BY Zenon, <3>2 DEF ChainSolves
      <3>6. \A n \in 0 .. m - 1 : c[n] = [u \in Timers \cup {None} |-> V(c, n, u)]
        <4> HIDE DEF V, h
        <4> DEFINE k == [n \in 0 .. m - 1 |-> [u \in Timers \cup {None} |-> V(c, n, u)]]
        <4>1. \A n \in 0 .. m - 1 : k[n] = [u \in Timers \cup {None} |-> V(c, n, u)]
          OBVIOUS
        <4>2. c = k
          BY Zenon, <3>5
        <4> HIDE DEF k
        <4>3. QED
          BY Zenon, <4>1, <4>2
      <3> HIDE DEF h
      <3>7. \A n \in 0 .. m : n # 0 => h[n - 1] = c[n - 1]
        <4>1. \A n \in 0 .. m : n # 0 => n - 1 \in 0 .. m - 1 /\ n - 1 \in 0 .. m
          BY <2>2
        <4> HIDE DEF V
        <4>2. QED
          BY Zenon, <3>4, <3>6, <4>1
      <3>8. \A n \in 0 .. m : \A u \in Timers \cup {None} : V(c, n, u) = V(h, n, u)
        BY Zenon, <3>7
      <3>9. h = H(h)
        <4>1. h = [n \in 0 .. m |-> [u \in Timers \cup {None} |-> V(c, n, u)]]
          BY DEF h
        <4> HIDE DEF V
        <4>2. QED
          BY <3>8, <4>1
      <3> HIDE DEF H
      <3>10. QED
        BY Zenon, <2>2, <2>3, <3>9
    <2>6. QED
      BY <2>4, <2>5
  <1>3. QED
    BY <1>1, <1>2

\* The search as equations.
LEMMA PlaceEquations ==
  ASSUME NEW m, NEW nx, NEW e, NEW f, NEW c, PlaceSolves(c, m, nx, e, f)
  PROVE  PlaceEquals(c, m, nx, e, f)
  <1> DEFINE V(n, v) == IF n = 0 \/ nx[v] = None \/ e < f[nx[v]] THEN v ELSE c[n - 1][nx[v]]
             h == [n \in 0 .. m |-> [v \in Timers |-> V(n, v)]]
  <1>1. c = h
    BY Zenon DEF PlaceSolves
  <1>2. \A n \in 0 .. m : \A v \in Timers : h[n][v] = V(n, v)
    <2> HIDE DEF V
    <2>1. QED
      OBVIOUS
  <1> HIDE DEF h, V
  <1>3. \A n \in 0 .. m : \A v \in Timers : c[n][v] = V(n, v)
    BY Zenon, <1>1, <1>2
  <1>4. QED
    BY Zenon, <1>3 DEF V, PlaceEquals

\* So has the search for a place.
LEMMA PlaceExists ==
  ASSUME NEW nx, NEW e, NEW f, NEW K \in Nat
  PROVE  \E c : PlaceSolves(c, K, nx, e, f)
  <1> DEFINE S == {m \in Nat : ~\E c : PlaceSolves(c, m, nx, e, f)}
  <1>1. CASE S = {}
    BY <1>1
  <1>2. CASE S # {}
    <2>1. PICK m \in S : \A k \in S : m <= k
      BY <1>2, LeastNumber
    <2> DEFINE V(c, n, v) == IF n = 0 \/ nx[v] = None \/ e < f[nx[v]] THEN v ELSE c[n - 1][nx[v]]
               H(c) == [n \in 0 .. m |-> [v \in Timers |-> V(c, n, v)]]
    <2>2. m \in Nat /\ \A c : ~PlaceSolves(c, m, nx, e, f)
      BY <2>1
    <2>3. \A c : PlaceSolves(c, m, nx, e, f) <=> c = H(c)
      BY Zenon DEF PlaceSolves
    <2>4. CASE m = 0
      <3> DEFINE g == [n \in 0 .. m |-> [v \in Timers |-> V(<<>>, 0, v)]]
      <3>1. H(g) = g
        <4>1. \A n \in 0 .. m, v \in Timers : V(g, n, v) = V(<<>>, 0, v)
          BY Z3, <2>4
        <4> HIDE DEF V
        <4>2. QED
          BY <4>1
      <3> HIDE DEF g, H
      <3>2. QED
        BY Zenon, <2>2, <2>3, <3>1
    <2>5. CASE m # 0
      <3>1. m - 1 \in Nat /\ m - 1 \notin S
        BY <2>1, <2>2, <2>5
      <3>2. PICK c : PlaceSolves(c, m - 1, nx, e, f)
        BY <3>1
      <3>3. \A n \in 0 .. m - 1 : \A v \in Timers : c[n][v] = V(c, n, v)
        <4>1. PlaceEquals(c, m - 1, nx, e, f)
          BY Zenon, <3>2, PlaceEquations
        <4>2. QED
          BY Zenon, <4>1 DEF PlaceEquals
      <3> DEFINE h == H(c)
      <3>4. \A n \in 0 .. m : h[n] = [v \in Timers |-> V(c, n, v)]
        <4> HIDE DEF V
        <4>1. QED
          OBVIOUS
      <3>5. c = [n \in 0 .. m - 1 |-> [v \in Timers |-> V(c, n, v)]]
        BY Zenon, <3>2 DEF PlaceSolves
      <3>6. \A n \in 0 .. m - 1 : c[n] = [v \in Timers |-> V(c, n, v)]
        <4> HIDE DEF V, h
        <4> DEFINE k == [n \in 0 .. m - 1 |-> [v \in Timers |-> V(c, n, v)]]
        <4>1. \A n \in 0 .. m - 1 : k[n] = [v \in Timers |-> V(c, n, v)]
          OBVIOUS
        <4>2. c = k
          BY Zenon, <3>5
        <4> HIDE DEF k
        <4>3. QED
          BY Zenon, <4>1, <4>2
      <3> HIDE DEF h
      <3>7. \A n \in 0 .. m : n # 0 => h[n - 1] = c[n - 1]
        <4>1. \A n \in 0 .. m : n # 0 => n - 1 \in 0 .. m - 1 /\ n - 1 \in 0 .. m
          BY <2>2
        <4> HIDE DEF V
        <4>2. QED
          BY Zenon, <3>4, <3>6, <4>1
      <3>8. \A n \in 0 .. m : \A v \in Timers : V(c, n, v) = V(h, n, v)
        BY Zenon, <3>7
      <3>9. h = H(h)
        <4>1. h = [n \in 0 .. m |-> [v \in Timers |-> V(c, n, v)]]
          BY DEF h
        <4> HIDE DEF V
        <4>2. QED
          BY <3>8, <4>1
      <3> HIDE DEF H
      <3>10. QED
        BY Zenon, <2>2, <2>3, <3>9
    <2>6. QED
      BY <2>4, <2>5
  <1>3. QED
    BY <1>1, <1>2

\* A chain has the timers of the list, in order.
LEMMA ChainMeans ==
  ASSUME IsFiniteSet(Timers), None \notin Timers, NEW s, NEW nx, NEW pv, Links(s, nx, pv)
  PROVE  ChainOf(nx, IF s = <<>> THEN None ELSE s[1]) = s
  <1> DEFINE K == Cardinality(Timers)
             c == CHOOSE g : ChainSolves(g, K, nx)
             Rest(i) == SubSeq(s, i, Len(s))
             Wrong(n) == \E i \in 1 .. Len(s) : Len(s) - i < n /\ c[n][s[i]] # Rest(i)
             S == {n \in 0 .. K : Wrong(n)}
  <1>1. /\ s \in Seq(Timers) /\ Distinct(s) /\ Len(s) \in Nat
        /\ \A i \in 1 .. Len(s) : s[i] \in Timers /\ nx[s[i]] = IF i = Len(s) THEN None ELSE s[i + 1]
    BY DEF Links
  <1>2. K \in Nat /\ Len(s) <= K
    BY <1>1, DistinctBounded
  <1>3. ChainSolves(c, K, nx)
    BY <1>2, ChainExists
  <1>4. ChainOf(nx, IF s = <<>> THEN None ELSE s[1]) = c[K][IF s = <<>> THEN None ELSE s[1]]
    BY Zenon DEF ChainOf, ChainSolves
  <1>5. ChainEquals(c, K, nx)
    BY Zenon, <1>3, ChainEquations
  <1> HIDE DEF c, K
  <1>6. S = {}
    <2> SUFFICES ASSUME S # {} PROVE FALSE
      OBVIOUS
    <2>1. S \in SUBSET Nat
      BY <1>2
    <2>2. PICK n \in S : \A m \in S : n <= m
      <3> HIDE DEF S
      <3>1. QED
        BY <2>1, LeastNumber
    <2>3. n \in 0 .. K /\ n \in Nat
      BY <1>2, <2>2
    <2>4. PICK i \in 1 .. Len(s) : Len(s) - i < n /\ c[n][s[i]] # Rest(i)
      BY <2>2
    <2>5. n # 0 /\ n - 1 \in 0 .. K /\ s[i] # None
      BY <1>1, <1>2, <2>3, <2>4
    <2>6. c[n][s[i]] = <<s[i]>> \o c[n - 1][nx[s[i]]]
      BY <1>1, <1>5, <2>3, <2>5 DEF ChainEquals
    <2>7. n - 1 \notin S
      <3> HIDE DEF S
      <3>1. QED
        BY <2>2, <2>3
    <2>8. c[n - 1][nx[s[i]]] = Rest(i + 1)
      <3>1. CASE i = Len(s)
        <4>1. nx[s[i]] = None
          BY <1>1, <3>1
        <4>2. c[n - 1][None] = <<>>
          BY <1>5, <2>5 DEF ChainEquals
        <4>3. Rest(i + 1) = <<>>
          BY <1>1, <3>1
        <4>4. QED
          BY <4>1, <4>2, <4>3
      <3>2. CASE i # Len(s)
        <4>1. nx[s[i]] = s[i + 1] /\ i + 1 \in 1 .. Len(s) /\ Len(s) - (i + 1) < n - 1
          <5>1. nx[s[i]] = s[i + 1]
            BY <1>1, <3>2
          <5>2. i + 1 \in 1 .. Len(s)
            BY <1>1, <3>2
          <5>3. Len(s) - i < n
            BY <2>4
          <5>4. Len(s) - (i + 1) < n - 1
            BY <1>1, <2>3, <5>3
          <5>5. QED
            BY <5>1, <5>2, <5>4
        <4>2. c[n - 1][s[i + 1]] = Rest(i + 1)
          BY <2>5, <2>7, <4>1
        <4>3. QED
          BY <4>1, <4>2
      <3>3. QED
        BY <3>1, <3>2
    <2>9. Rest(i) = <<s[i]>> \o Rest(i + 1)
      <3> DEFINE r == Rest(i + 1)
      <3>1. Rest(i) \in Seq(Timers) /\ Len(Rest(i)) = Len(s) - i + 1
            /\ \A j \in 1 .. Len(s) - i + 1 : Rest(i)[j] = s[i + j - 1]
        BY <1>1
      <3>2. r \in Seq(Timers) /\ Len(r) = Len(s) - i
            /\ \A j \in 1 .. Len(s) - i : r[j] = s[i + j]
        BY <1>1
      <3> HIDE DEF r
      <3>3. <<s[i]>> \o r \in Seq(Timers) /\ Len(<<s[i]>> \o r) = Len(s) - i + 1
            /\ \A j \in 1 .. Len(s) - i + 1 : (<<s[i]>> \o r)[j] = IF j = 1 THEN s[i] ELSE r[j - 1]
        <4>1. <<s[i]>> \in Seq(Timers) /\ Len(<<s[i]>>) = 1 /\ <<s[i]>>[1] = s[i]
          BY <1>1
        <4> DEFINE q == <<s[i]>>
        <4> HIDE DEF q
        <4>2. /\ q \o r \in Seq(Timers) /\ Len(q \o r) = Len(q) + Len(r)
              /\ \A j \in 1 .. Len(q) + Len(r) : (q \o r)[j] = IF j <= Len(q) THEN q[j] ELSE r[j - Len(q)]
          BY <3>2, <4>1, ConcatProperties DEF q
        <4>3. Len(q) + Len(r) = Len(s) - i + 1 /\ Len(q) = 1 /\ q[1] = s[i]
          BY <1>1, <3>2, <4>1 DEF q
        <4>4. \A j \in 1 .. Len(s) - i + 1 : (q \o r)[j] = IF j = 1 THEN s[i] ELSE r[j - 1]
          <5>1. \A j \in 1 .. Len(s) - i + 1 : j \in 1 .. Len(q) + Len(r) /\ (j <= 1 <=> j = 1)
            BY <4>3
          <5>2. QED
            BY <4>2, <4>3, <5>1
        <4>5. QED
          BY <4>2, <4>3, <4>4 DEF q
      <3>4. \A j \in 1 .. Len(s) - i + 1 : (<<s[i]>> \o r)[j] = s[i + j - 1]
        <4>1. SUFFICES ASSUME NEW j \in 1 .. Len(s) - i + 1
                       PROVE  (<<s[i]>> \o r)[j] = s[i + j - 1]
          OBVIOUS
        <4>2. CASE j = 1
          BY <3>3, <4>2
        <4>3. CASE j # 1
          <5>1. j - 1 \in 1 .. Len(s) - i /\ i + (j - 1) = i + j - 1
            BY <1>1, <4>3
          <5>2. QED
            BY <3>2, <3>3, <4>3, <5>1
        <4>4. QED
          BY <4>2, <4>3
      <3> HIDE DEF Rest
      <3>5. Rest(i) = <<s[i]>> \o r
        <4> DEFINE q == <<s[i]>> \o r
        <4>1. q \in Seq(Timers) /\ Len(q) = Len(Rest(i)) /\ \A j \in 1 .. Len(q) : Rest(i)[j] = q[j]
          BY <3>1, <3>3, <3>4
        <4> HIDE DEF q
        <4>2. Rest(i) = q
          BY <3>1, <4>1, SeqEqual
        <4>3. QED
          BY <4>2 DEF q
      <3>6. QED
        BY <3>5 DEF r
    <2> HIDE DEF Rest
    <2>10. QED
      BY <2>4, <2>6, <2>8, <2>9
  <1>7. CASE s = <<>>
    <2>1. K \in 0 .. K
      BY <1>2
    <2>2. c[K][None] = <<>>
      BY Zenon, <1>5, <2>1 DEF ChainEquals
    <2>3. QED
      BY <1>4, <1>7, <2>2
  <1>8. CASE s # <<>>
    <2>1. 1 \in 1 .. Len(s) /\ Len(s) - 1 < K /\ K \in 0 .. K
      BY <1>1, <1>2, <1>8
    <2>2. c[K][s[1]] = Rest(1)
      BY <1>6, <2>1
    <2>3. Rest(1) = s
      BY <1>1, SubSeqFull
    <2>4. QED
      BY <1>4, <1>8, <2>2, <2>3
  <1>9. QED
    BY <1>7, <1>8

\* From the i-th place on, the k-th is the first behind which e has its place.
StopsAt(s, i, k, e, f) ==
  /\ k < Len(s) => e < f[s[k + 1]]
  /\ \A j \in i + 1 .. k : ~(e < f[s[j]])

\* Place finds the last of the timers that expire by e, from the i-th on.
LEMMA PlaceMeans ==
  ASSUME IsFiniteSet(Timers), None \notin Timers, NEW s, NEW nx, NEW pv, Links(s, nx, pv),
         NEW e, NEW f, NEW i \in 1 .. Len(s), NEW k \in i .. Len(s),
         StopsAt(s, i, k, e, f)
  PROVE  PlaceOf(nx, s[i], e, f) = s[k]
  <1> DEFINE K == Cardinality(Timers)
             c == CHOOSE g : PlaceSolves(g, K, nx, e, f)
             Wrong(n) == \E j \in i .. k : Len(s) - j <= n /\ c[n][s[j]] # s[k]
             S == {n \in 0 .. K : Wrong(n)}
  <1>1. /\ s \in Seq(Timers) /\ Distinct(s) /\ Len(s) \in Nat
        /\ \A j \in 1 .. Len(s) : s[j] \in Timers /\ nx[s[j]] = IF j = Len(s) THEN None ELSE s[j + 1]
    BY DEF Links
  <1>2. K \in Nat /\ Len(s) <= K
    BY <1>1, DistinctBounded
  <1>3. PlaceSolves(c, K, nx, e, f)
    BY <1>2, PlaceExists
  <1>4. PlaceOf(nx, s[i], e, f) = c[K][s[i]]
    BY Zenon DEF PlaceOf, PlaceSolves
  <1>5. PlaceEquals(c, K, nx, e, f)
    BY Zenon, <1>3, PlaceEquations
  <1> HIDE DEF c, K
  <1>6. S = {}
    <2> SUFFICES ASSUME S # {} PROVE FALSE
      OBVIOUS
    <2>1. S \in SUBSET Nat
      BY <1>2
    <2>2. PICK n \in S : \A m \in S : n <= m
      <3> HIDE DEF S
      <3>1. QED
        BY <2>1, LeastNumber
    <2>3. n \in 0 .. K /\ n \in Nat
      BY <1>2, <2>2
    <2>4. PICK j \in i .. k : Len(s) - j <= n /\ c[n][s[j]] # s[k]
      BY <2>2
    <2>5. j \in 1 .. Len(s) /\ s[j] \in Timers
      BY <1>1
    <2>6. c[n][s[j]] = IF n = 0 \/ nx[s[j]] = None \/ e < f[nx[s[j]]]
                       THEN s[j] ELSE c[n - 1][nx[s[j]]]
      BY <1>5, <2>3, <2>5 DEF PlaceEquals
    <2>7. CASE j = k
      <3>1. CASE k = Len(s)
        BY <1>1, <2>4, <2>5, <2>6, <2>7, <3>1
      <3>2. CASE k # Len(s)
        <4>1. nx[s[j]] = s[k + 1] /\ e < f[s[k + 1]]
          BY <1>1, <2>5, <2>7, <3>2 DEF StopsAt
        <4>2. QED
          BY <2>4, <2>6, <2>7, <4>1
      <3>3. QED
        BY <3>1, <3>2
    <2>8. CASE j # k
      <3>1. j + 1 \in i + 1 .. k /\ j + 1 \in i .. k /\ j + 1 \in 1 .. Len(s) /\ j # Len(s)
        BY <1>1, <2>8
      <3>2. nx[s[j]] = s[j + 1] /\ s[j + 1] # None /\ ~(e < f[s[j + 1]])
        BY <1>1, <2>5, <3>1 DEF StopsAt
      <3>3. n # 0 /\ n - 1 \in 0 .. K /\ Len(s) - (j + 1) <= n - 1
        <4>1. j < Len(s)
          BY <1>1, <2>5, <3>1
        <4>2. Len(s) - j <= n
          BY <2>4
        <4>3. n # 0
          <5>1. j \in Nat /\ Len(s) \in Nat
            BY <1>1, <2>5
          <5>2. QED
            BY <2>3, <4>1, <4>2, <5>1
        <4>4. n - 1 \in 0 .. K
          BY <1>2, <2>3, <4>3
        <4>5. QED
          <5>1. j \in Nat /\ Len(s) \in Nat
            BY <1>1, <2>5
          <5>2. Len(s) - (j + 1) <= n - 1
            BY <2>3, <4>2, <5>1
          <5>3. QED
            BY <4>3, <4>4, <5>2
      <3>4. c[n][s[j]] = c[n - 1][s[j + 1]]
        BY <2>6, <3>2, <3>3
      <3>5. n - 1 \notin S
        <4> HIDE DEF S
        <4>1. QED
          BY <2>2, <2>3
      <3>6. c[n - 1][s[j + 1]] = s[k]
        BY <3>1, <3>3, <3>5
      <3>7. QED
        BY <2>4, <3>4, <3>6
    <2>9. QED
      BY <2>7, <2>8
  <1>7. i \in i .. k /\ Len(s) - i <= K /\ K \in 0 .. K
    BY <1>1, <1>2
  <1>8. QED
    BY <1>4, <1>6, <1>7

\* nx2 and pv2 are nx and pv, but for t behind the k-th timer of s.
PointersSpliced(s, k, t, nx, pv, nx2, pv2) ==
  /\ nx2 \in [Timers -> Timers \cup {None}] /\ pv2 \in [Timers -> Timers \cup {None}]
  /\ \A u \in Elements(s) : /\ nx2[u] = IF k > 0 /\ u = s[k] THEN t ELSE nx[u]
                            /\ pv2[u] = IF k < Len(s) /\ u = s[k + 1] THEN t ELSE pv[u]
  /\ nx2[t] = IF k = Len(s) THEN None ELSE s[k + 1]
  /\ pv2[t] = IF k = 0 THEN None ELSE s[k]

\* They are nx and pv, but for the neighbours of the p-th timer of s.
PointersCut(s, p, nx, pv, nx2, pv2) ==
  /\ nx2 \in [Timers -> Timers \cup {None}] /\ pv2 \in [Timers -> Timers \cup {None}]
  /\ \A u \in Elements(s) \ {s[p]} :
       /\ nx2[u] = IF p > 1 /\ u = s[p - 1] THEN nx[s[p]] ELSE nx[u]
       /\ pv2[u] = IF p < Len(s) /\ u = s[p + 1] THEN pv[s[p]] ELSE pv[u]

\* A timer is linked between two others.
LEMMA LinksSpliced ==
  ASSUME None \notin Timers, NEW s, NEW nx, NEW pv, Links(s, nx, pv),
         NEW t \in Timers, t \notin Elements(s), NEW k \in 0 .. Len(s),
         NEW nx2, NEW pv2, PointersSpliced(s, k, t, nx, pv, nx2, pv2)
  PROVE  Links(Spliced(s, k, t), nx2, pv2)
  <1> DEFINE r == Spliced(s, k, t)
  <1>1. /\ s \in Seq(Timers) /\ Distinct(s) /\ Len(s) \in Nat
        /\ \A i \in 1 .. Len(s) : /\ s[i] \in Elements(s)
                                  /\ nx[s[i]] = IF i = Len(s) THEN None ELSE s[i + 1]
                                  /\ pv[s[i]] = IF i = 1 THEN None ELSE s[i - 1]
    BY DEF Links, Elements
  <1>2. r \in Seq(Timers) /\ PutIn(r, s, k, t)
    BY <1>1, SplicedProperties
  <1>3. Distinct(r)
    BY <1>1, SplicedElements
  <1> HIDE DEF r
  <1>4. /\ Len(r) = Len(s) + 1
        /\ \A i \in 1 .. k : r[i] = s[i]
        /\ r[k + 1] = t
        /\ \A i \in k + 2 .. Len(s) + 1 : r[i] = s[i - 1]
    BY <1>2 DEF PutIn
  <1>5. \A i, j \in 1 .. Len(s) : s[i] = s[j] => i = j
    BY <1>1 DEF Distinct
  <1>6. /\ nx2 \in [Timers -> Timers \cup {None}] /\ pv2 \in [Timers -> Timers \cup {None}]
        /\ \A u \in Elements(s) : /\ nx2[u] = IF k > 0 /\ u = s[k] THEN t ELSE nx[u]
                                  /\ pv2[u] = IF k < Len(s) /\ u = s[k + 1] THEN t ELSE pv[u]
        /\ nx2[t] = IF k = Len(s) THEN None ELSE s[k + 1]
        /\ pv2[t] = IF k = 0 THEN None ELSE s[k]
    BY DEF PointersSpliced
  <1>7. ASSUME NEW i \in 1 .. Len(r)
        PROVE  /\ nx2[r[i]] = IF i = Len(r) THEN None ELSE r[i + 1]
               /\ pv2[r[i]] = IF i = 1 THEN None ELSE r[i - 1]
    <2>1. CASE i \in 1 .. k
      <3>1. r[i] = s[i] /\ i \in 1 .. Len(s) /\ s[i] \in Elements(s) /\ i # Len(r)
        BY <1>1, <1>4, <2>1
      <3>2. nx2[s[i]] = IF i = k THEN t ELSE s[i + 1]
        <4>1. k > 0 /\ k \in 1 .. Len(s) /\ (s[i] = s[k] <=> i = k)
          BY <1>1, <1>5, <2>1, <3>1
        <4>2. i # k => i # Len(s)
          BY <1>1, <2>1
        <4>3. QED
          BY <1>1, <1>6, <3>1, <4>1, <4>2
      <3>3. r[i + 1] = IF i = k THEN t ELSE s[i + 1]
        BY <1>1, <1>4, <2>1
      <3>4. pv2[s[i]] = pv[s[i]]
        <4>1. k < Len(s) => k + 1 \in 1 .. Len(s) /\ i # k + 1
          BY <1>1, <2>1
        <4>2. QED
          BY <1>5, <1>6, <3>1, <4>1
      <3>5. i # 1 => r[i - 1] = s[i - 1]
        BY <1>1, <1>4, <2>1
      <3>6. QED
        BY <1>1, <3>1, <3>2, <3>3, <3>4, <3>5
    <2>2. CASE i = k + 1
      <3>1. r[i] = t /\ (i = Len(r) <=> k = Len(s)) /\ (i = 1 <=> k = 0)
        BY <1>1, <1>4, <2>2
      <3>2. i # Len(r) => r[i + 1] = s[k + 1]
        <4>1. i # Len(r) => i + 1 \in k + 2 .. Len(s) + 1 /\ (i + 1) - 1 = k + 1
          BY <1>1, <1>4, <2>2
        <4>2. QED
          BY <1>4, <4>1
      <3>3. i # 1 => r[i - 1] = s[k]
        BY <1>1, <1>4, <2>2
      <3>4. QED
        BY <1>6, <3>1, <3>2, <3>3
    <2>3. CASE i \in k + 2 .. Len(s) + 1
      <3>1. r[i] = s[i - 1] /\ i - 1 \in 1 .. Len(s) /\ s[i - 1] \in Elements(s) /\ i # 1
        BY <1>1, <1>4, <2>3
      <3>2. nx2[s[i - 1]] = nx[s[i - 1]]
        <4>1. k > 0 => k \in 1 .. Len(s) /\ i - 1 # k
          BY <1>1, <2>3
        <4>2. QED
          BY <1>5, <1>6, <3>1, <4>1
      <3>3. nx[s[i - 1]] = IF i - 1 = Len(s) THEN None ELSE s[i]
        <4>1. (i - 1) + 1 = i
          BY <2>3
        <4>2. QED
          BY <1>1, <3>1, <4>1
      <3>4. (i = Len(r) <=> i - 1 = Len(s)) /\ (i # Len(r) => r[i + 1] = s[i])
        <4>1. i # Len(r) => i + 1 \in k + 2 .. Len(s) + 1 /\ (i + 1) - 1 = i
          <5>1. i \in Nat /\ k + 2 <= i /\ i <= Len(s) + 1 /\ k \in Nat
            BY <1>1, <2>3
          <5>2. Len(r) = Len(s) + 1 /\ Len(s) \in Nat
            BY <1>1, <1>4
          <5>3. QED
            BY <5>1, <5>2
        <4>2. QED
          BY <1>1, <1>4, <2>3, <4>1
      <3>5. pv2[s[i - 1]] = IF i = k + 2 THEN t ELSE pv[s[i - 1]]
        <4>1. k + 1 \in 1 .. Len(s) /\ k < Len(s) /\ (i - 1 = k + 1 <=> i = k + 2)
          BY <1>1, <2>3
        <4>2. QED
          BY <1>5, <1>6, <3>1, <4>1
      <3>6. i # k + 2 => pv[s[i - 1]] = s[i - 2]
        <4>1. i # k + 2 => i - 1 # 1 /\ (i - 1) - 1 = i - 2
          BY <1>1, <2>3
        <4>2. QED
          BY <1>1, <3>1, <4>1
      <3>7. r[i - 1] = IF i = k + 2 THEN t ELSE s[i - 2]
        <4>1. i = k + 2 => i - 1 = k + 1
          BY <2>3
        <4>2. i # k + 2 => i - 1 \in k + 2 .. Len(s) + 1 /\ (i - 1) - 1 = i - 2
          BY <1>1, <2>3
        <4>3. QED
          BY <1>4, <4>1, <4>2
      <3>8. QED
        BY <3>1, <3>2, <3>3, <3>4, <3>5, <3>6, <3>7
    <2>4. i \in 1 .. k \/ i = k + 1 \/ i \in k + 2 .. Len(s) + 1
      BY <1>1, <1>4
    <2>5. QED
      BY <2>1, <2>2, <2>3, <2>4
  <1>8. QED
    BY <1>2, <1>3, <1>7, <1>6 DEF Links, r

\* A timer is unlinked.
LEMMA LinksCut ==
  ASSUME None \notin Timers, NEW s, NEW nx, NEW pv, Links(s, nx, pv), NEW p \in 1 .. Len(s),
         NEW nx2, NEW pv2, PointersCut(s, p, nx, pv, nx2, pv2)
  PROVE  Links(Cut(s, p), nx2, pv2)
  <1> DEFINE r == Cut(s, p)
  <1>1. /\ s \in Seq(Timers) /\ Distinct(s) /\ Len(s) \in Nat
        /\ \A i \in 1 .. Len(s) : /\ s[i] \in Elements(s)
                                  /\ nx[s[i]] = IF i = Len(s) THEN None ELSE s[i + 1]
                                  /\ pv[s[i]] = IF i = 1 THEN None ELSE s[i - 1]
    BY DEF Links, Elements
  <1>2. r \in Seq(Timers) /\ TakenOut(r, s, p)
    BY <1>1, CutProperties
  <1>3. Distinct(r)
    BY <1>1, CutElements
  <1> HIDE DEF r
  <1>4. /\ Len(r) = Len(s) - 1
        /\ \A i \in 1 .. p - 1 : r[i] = s[i]
        /\ \A i \in p .. Len(s) - 1 : r[i] = s[i + 1]
    BY <1>2 DEF TakenOut
  <1>5. \A i, j \in 1 .. Len(s) : s[i] = s[j] => i = j
    BY <1>1 DEF Distinct
  <1>6. /\ nx2 \in [Timers -> Timers \cup {None}] /\ pv2 \in [Timers -> Timers \cup {None}]
        /\ \A u \in Elements(s) \ {s[p]} :
             /\ nx2[u] = IF p > 1 /\ u = s[p - 1] THEN nx[s[p]] ELSE nx[u]
             /\ pv2[u] = IF p < Len(s) /\ u = s[p + 1] THEN pv[s[p]] ELSE pv[u]
    BY DEF PointersCut
  <1>7. ASSUME NEW i \in 1 .. Len(r)
        PROVE  /\ nx2[r[i]] = IF i = Len(r) THEN None ELSE r[i + 1]
               /\ pv2[r[i]] = IF i = 1 THEN None ELSE r[i - 1]
    <2>1. CASE i \in 1 .. p - 1
      <3>1. r[i] = s[i] /\ i \in 1 .. Len(s) /\ s[i] \in Elements(s) \ {s[p]} /\ i # Len(s)
        BY <1>1, <1>4, <1>5, <2>1
      <3>2. nx2[s[i]] = IF i = p - 1 THEN nx[s[p]] ELSE s[i + 1]
        <4>1. p > 1 /\ p - 1 \in 1 .. Len(s) /\ (s[i] = s[p - 1] <=> i = p - 1)
          BY <1>1, <1>5, <2>1, <3>1
        <4>2. QED
          BY <1>1, <1>6, <3>1, <4>1
      <3>3. i = p - 1 => /\ nx[s[p]] = IF i = Len(r) THEN None ELSE s[p + 1]
                         /\ i # Len(r) => r[i + 1] = s[p + 1]
        BY <1>1, <1>4, <2>1
      <3>4. i # p - 1 => i # Len(r) /\ r[i + 1] = s[i + 1]
        BY <1>1, <1>4, <2>1
      <3>5. pv2[s[i]] = pv[s[i]]
        <4>1. p < Len(s) => p + 1 \in 1 .. Len(s) /\ i # p + 1
          BY <1>1, <2>1
        <4>2. QED
          BY <1>5, <1>6, <3>1, <4>1
      <3>6. i # 1 => r[i - 1] = s[i - 1]
        BY <1>1, <1>4, <2>1
      <3>7. QED
        BY <1>1, <3>1, <3>2, <3>3, <3>4, <3>5, <3>6
    <2>2. CASE i \in p .. Len(s) - 1
      <3>1. r[i] = s[i + 1] /\ i + 1 \in 1 .. Len(s) /\ s[i + 1] \in Elements(s) \ {s[p]} /\ p < Len(s)
        BY <1>1, <1>4, <1>5, <2>2
      <3>2. nx2[s[i + 1]] = nx[s[i + 1]]
        <4>1. p > 1 => p - 1 \in 1 .. Len(s) /\ i + 1 # p - 1
          BY <1>1, <2>2
        <4>2. QED
          BY <1>5, <1>6, <3>1, <4>1
      <3>3. nx[s[i + 1]] = IF i = Len(r) THEN None ELSE r[i + 1]
        <4>1. i = Len(r) <=> i + 1 = Len(s)
          BY <1>1, <1>4, <2>2
        <4>2. i # Len(r) => i + 1 \in p .. Len(s) - 1
          BY <1>1, <1>4, <2>2
        <4>3. i # Len(r) => r[i + 1] = s[(i + 1) + 1]
          BY <1>4, <4>2
        <4>4. QED
          BY <1>1, <3>1, <4>1, <4>3
      <3>4. pv2[s[i + 1]] = IF i = p THEN pv[s[p]] ELSE pv[s[i + 1]]
        <4>1. p + 1 \in 1 .. Len(s) /\ (i + 1 = p + 1 <=> i = p)
          BY <1>1, <2>2, <3>1
        <4>2. QED
          BY <1>5, <1>6, <3>1, <4>1
      <3>5. i = p => pv[s[p]] = IF i = 1 THEN None ELSE r[i - 1]
        BY <1>1, <1>4, <2>2
      <3>6. i # p => i # 1 /\ pv[s[i + 1]] = r[i - 1]
        <4>1. i # p => i # 1 /\ i + 1 # 1 /\ i - 1 \in p .. Len(s) - 1 /\ (i + 1) - 1 = i /\ (i - 1) + 1 = i
          BY <1>1, <2>2
        <4>2. i # p => r[i - 1] = s[i]
          BY <1>4, <4>1
        <4>3. i # p => pv[s[i + 1]] = s[i]
          BY <1>1, <3>1, <4>1
        <4>4. QED
          BY <4>1, <4>2, <4>3
      <3>7. QED
        BY <3>1, <3>2, <3>3, <3>4, <3>5, <3>6
    <2>3. i \in 1 .. p - 1 \/ i \in p .. Len(s) - 1
      BY <1>1, <1>4
    <2>4. QED
      BY <2>1, <2>2, <2>3
  <1>8. QED
    BY <1>2, <1>3, <1>7, <1>6 DEF Links, r

-----------------------------------------------------------------------------
(* The invariant: the pointers from head to tail link the timers in use.   *)

TickInv ==
  /\ mode \in {"idle", "visiting", "calling"}
  /\ tmp = IF mode = "idle" THEN None ELSE head
  /\ mode = "calling" => head # None

ListsInv ==
  /\ expire \in [Timers -> Nat]
  /\ now \in Nat
  /\ TickInv
  /\ \E s \in Seq(Timers) : IsList(s, allocated, head, tail, next, prev)

\* What the refinement mapping sees in linked timers, now and in the next state.
LEMMA ListMeans ==
  ASSUME Lists!ListAssumption, NEW s, IsList(s, allocated, head, tail, next, prev)
  PROVE  /\ Lists!Chain(head) = s
         /\ Lists!Sorted!InList = Elements(s)
         /\ allocated = Elements(s)
         /\ s # <<>> => Lists!Chain(head)[1] = head
         /\ s = <<>> <=> head = None
  <1>1. IsFiniteSet(Timers) /\ None \notin Timers
    BY Zenon DEF Lists!ListAssumption, Lists!IsFiniteSet, IsFiniteSet
  <1>2. head = IF s = <<>> THEN None ELSE s[1]
    BY DEF IsList
  <1>3. Links(s, next, prev)
    BY DEF IsList
  <1>4. Lists!Chain(head) = s
    BY <1>1, <1>2, <1>3, ChainMeans, ChainIsChainOf
  <1>5. Lists!Sorted!InList = Elements(s)
    BY <1>4 DEF Lists!Sorted!InList, Elements
  <1>6. s # <<>> => s[1] \in Timers
    BY <1>3 DEF Links
  <1>7. QED
    BY <1>1, <1>2, <1>4, <1>5, <1>6 DEF IsList

\* The same of the next state.
LEMMA ListNext ==
  ASSUME Lists!ListAssumption, NEW s, IsList(s, allocated', head', tail', next', prev')
  PROVE  Lists!Chain(head)' = s
  <1>1. IsFiniteSet(Timers) /\ None \notin Timers
    BY Zenon DEF Lists!ListAssumption, Lists!IsFiniteSet, IsFiniteSet
  <1>2. head' = IF s = <<>> THEN None ELSE s[1]
    BY DEF IsList
  <1>3. Links(s, next', prev')
    BY DEF IsList
  <1>4. ChainOf(next', head') = s
    BY <1>1, <1>2, <1>3, ChainMeans
  <1>5. Lists!Chain(head)' = ChainOf(next', head')
    BY Zenon DEF Lists!Chain, ChainOf, Lists!Cardinality, Cardinality
  <1>6. QED
    BY <1>4, <1>5

\* The operators of the two modules.
LEMMA SameOperators ==
  ASSUME NEW s, NEW t, NEW e
  PROVE  /\ Lists!Sorted!Insert(s, t, e) = Insert(s, t, e)
         /\ Lists!Sorted!Adjusted(s, t, e) = Adjusted(s, t, e)
         /\ Lists!Sorted!Without(s, t) = Without(s, t)
  <1>1. Lists!Sorted!Place(s, t) = Place(s, t)
    BY DEF Lists!Sorted!Place, Place
  <1>2. Lists!Sorted!Without(s, t) = Without(s, t)
    BY <1>1 DEF Lists!Sorted!Without, Without
  <1>3. ASSUME NEW r, NEW i
        PROVE  Lists!Sorted!InsertBehind(r, t, i, e) = InsertBehind(r, t, i, e)
    BY Zenon DEF Lists!Sorted!InsertBehind, InsertBehind
  <1>4. Lists!Sorted!Insert(s, t, e) = Insert(s, t, e)
    BY <1>3 DEF Lists!Sorted!Insert, Insert
  <1>5. Lists!Sorted!Adjusted(s, t, e) = Adjusted(s, t, e)
    BY Zenon, <1>1, <1>2, <1>3 DEF Lists!Sorted!Adjusted, Adjusted
  <1>6. QED
    BY <1>2, <1>4, <1>5

\* What that means for the pointers.
PutBehind(s, t, i, e, nx, pv) ==
  \E k \in i .. Len(s) :
    /\ InsertBehind(s, t, i, e) = Spliced(s, k, t)
    /\ Links(Spliced(s, k, t), next', prev')
    /\ tail' = IF k = Len(s) THEN t ELSE s[Len(s)]
    /\ Unlinked(Timers \ (Elements(s) \cup {t}), nx, pv)
         => Unlinked(Timers \ (Elements(s) \cup {t}), next', prev')

\* A timer that is not linked goes behind the i-th one or further.
LEMMA BehindStep ==
  ASSUME IsFiniteSet(Timers), None \notin Timers, expire \in [Timers -> Nat],
         NEW s, NEW nx, NEW pv, Links(s, nx, pv),
         NEW t \in Timers, t \notin Elements(s), NEW i \in 1 .. Len(s), NEW e \in Nat,
         tail = s[Len(s)],
         Lists!InsertBehind(t, nx, pv, s[i], e)
  PROVE  PutBehind(s, t, i, e, nx, pv)
  <1>1. /\ s \in Seq(Timers) /\ Distinct(s) /\ Len(s) \in Nat
        /\ nx \in [Timers -> Timers \cup {None}] /\ pv \in [Timers -> Timers \cup {None}]
        /\ \A j \in 1 .. Len(s) : /\ s[j] \in Elements(s) /\ s[j] \in Timers
                                  /\ nx[s[j]] = IF j = Len(s) THEN None ELSE s[j + 1]
    BY DEF Links, Elements
  <1>2. PICK k \in i .. Len(s) :
          /\ InsertBehind(s, t, i, e) = Spliced(s, k, t)
          /\ \A j \in i + 1 .. k : expire[s[j]] <= e
          /\ k < Len(s) => e < expire[s[k + 1]]
    BY <1>1, BehindProperties
  <1>3. k \in 1 .. Len(s) /\ k \in 0 .. Len(s) /\ k > 0
    BY <1>1
  <1>4. StopsAt(s, i, k, e, expire)
    BY <1>1, <1>2 DEF StopsAt
  <1>5. Lists!Place(nx, s[i], e) = s[k]
    <2>1. PlaceOf(nx, s[i], e, expire) = s[k]
      BY SMT, <1>4, PlaceMeans
    <2>2. QED
      BY <2>1, PlaceIsPlaceOf
  <1>6. /\ next' = [nx EXCEPT ![s[k]] = t, ![t] = nx[s[k]]]
        /\ prev' = [Lists!Set(pv, nx[s[k]], t) EXCEPT ![t] = s[k]]
        /\ tail' = IF nx[s[k]] = None THEN t ELSE tail
    BY <1>5 DEF Lists!InsertBehind
  <1>7. nx[s[k]] = IF k = Len(s) THEN None ELSE s[k + 1]
    BY <1>1, <1>3
  <1>8. k # Len(s) => s[k + 1] \in Elements(s) /\ s[k + 1] \in Timers
    BY <1>1, <1>3
  <1>9. prev' = IF k = Len(s) THEN [pv EXCEPT ![t] = s[k]]
                              ELSE [pv EXCEPT ![s[k + 1]] = t, ![t] = s[k]]
    BY <1>6, <1>7, <1>8 DEF Lists!Set
  <1>10. /\ next' \in [Timers -> Timers \cup {None}]
         /\ prev' \in [Timers -> Timers \cup {None}]
    <2>1. s[k] \in Timers /\ nx[s[k]] \in Timers \cup {None}
      BY <1>1, <1>3
    <2>2. next' \in [Timers -> Timers \cup {None}]
      BY <1>1, <1>6, <2>1
    <2>3. prev' \in [Timers -> Timers \cup {None}]
      BY <1>1, <1>8, <1>9, <2>1
    <2>4. QED
      BY <2>2, <2>3
  <1>11. Elements(s) \subseteq Timers /\ s[k] \in Elements(s)
    BY <1>1, <1>3 DEF Elements
  <1>12. \A u \in Elements(s) : /\ next'[u] = IF k > 0 /\ u = s[k] THEN t ELSE nx[u]
                                /\ prev'[u] = IF k < Len(s) /\ u = s[k + 1] THEN t ELSE pv[u]
    BY <1>1, <1>3, <1>6, <1>9, <1>11
  <1>13. /\ next'[t] = IF k = Len(s) THEN None ELSE s[k + 1]
         /\ prev'[t] = IF k = 0 THEN None ELSE s[k]
    BY <1>1, <1>3, <1>6, <1>7, <1>8, <1>9, <1>11
  <1>14. Links(Spliced(s, k, t), next', prev')
    <2>1. PointersSpliced(s, k, t, nx, pv, next', prev')
      BY <1>10, <1>12, <1>13 DEF PointersSpliced
    <2>2. QED
      BY <1>3, <2>1, LinksSpliced
  <1>15. tail' = IF k = Len(s) THEN t ELSE s[Len(s)]
    BY <1>6, <1>7, <1>8
  <1>16. \A u \in Timers \ Elements(s) : u # t => next'[u] = nx[u] /\ prev'[u] = pv[u]
    <2> SUFFICES ASSUME NEW u \in Timers \ Elements(s), u # t
                 PROVE  next'[u] = nx[u] /\ prev'[u] = pv[u]
      OBVIOUS
    <2>1. next'[u] = nx[u]
      BY <1>1, <1>6, <1>11
    <2>2. prev'[u] = pv[u]
      BY <1>1, <1>8, <1>9
    <2>3. QED
      BY <2>1, <2>2
  <1>17. QED
    BY <1>2, <1>14, <1>15, <1>16 DEF Unlinked, PutBehind

\* A list with one timer more, and with one less.
LEMMA SplicedList ==
  ASSUME NEW s \in Seq(Timers), Distinct(s), NEW t \in Timers, t \notin Elements(s),
         NEW k \in 0 .. Len(s), NEW nx, NEW pv, Links(Spliced(s, k, t), nx, pv),
         NEW hd, hd = IF k = 0 THEN t ELSE s[1],
         NEW tl, tl = IF k = Len(s) THEN t ELSE s[Len(s)],
         Unlinked(Timers \ (Elements(s) \cup {t}), nx, pv)
  PROVE  IsList(Spliced(s, k, t), Elements(s) \cup {t}, hd, tl, nx, pv)
  <1> DEFINE r == Spliced(s, k, t)
  <1>1. r \in Seq(Timers) /\ PutIn(r, s, k, t)
    BY SplicedProperties
  <1>2. Elements(r) = Elements(s) \cup {t}
    BY SplicedElements
  <1> HIDE DEF r
  <1>3. /\ Len(r) = Len(s) + 1 /\ Len(s) \in Nat
        /\ \A i \in 1 .. k : r[i] = s[i]
        /\ r[k + 1] = t
        /\ \A i \in k + 2 .. Len(s) + 1 : r[i] = s[i - 1]
    BY <1>1 DEF PutIn
  <1>4. r # <<>> /\ hd = r[1]
    <2>1. CASE k = 0
      BY <1>3, <2>1
    <2>2. CASE k # 0
      BY <1>3, <2>2
    <2>3. QED
      BY <2>1, <2>2
  <1>5. tl = r[Len(r)]
    <2>1. CASE k = Len(s)
      BY <1>3, <2>1
    <2>2. CASE k # Len(s)
      <3>1. Len(s) + 1 \in k + 2 .. Len(s) + 1 /\ (Len(s) + 1) - 1 = Len(s)
        BY <1>3, <2>2
      <3>2. QED
        BY <1>3, <2>2, <3>1
    <2>3. QED
      BY <2>1, <2>2
  <1>6. QED
    BY <1>2, <1>4, <1>5 DEF IsList, r

\* The list without one of its timers.
LEMMA CutList ==
  ASSUME NEW s \in Seq(Timers), Distinct(s), NEW p \in 1 .. Len(s),
         NEW nx, NEW pv, Links(Cut(s, p), nx, pv),
         NEW hd, hd = IF p > 1 THEN s[1] ELSE IF Len(s) = 1 THEN None ELSE s[2],
         NEW tl, Len(s) > 1 => tl = IF p = Len(s) THEN s[Len(s) - 1] ELSE s[Len(s)],
         Unlinked(Timers \ (Elements(s) \ {s[p]}), nx, pv)
  PROVE  IsList(Cut(s, p), Elements(s) \ {s[p]}, hd, tl, nx, pv)
  <1> DEFINE r == Cut(s, p)
  <1>1. r \in Seq(Timers) /\ TakenOut(r, s, p)
    BY CutProperties
  <1>2. Elements(r) = Elements(s) \ {s[p]}
    BY CutElements
  <1> HIDE DEF r
  <1>3. /\ Len(r) = Len(s) - 1 /\ Len(s) \in Nat
        /\ \A i \in 1 .. p - 1 : r[i] = s[i]
        /\ \A i \in p .. Len(s) - 1 : r[i] = s[i + 1]
    BY <1>1 DEF TakenOut
  <1>4. r = <<>> <=> Len(s) = 1
    BY <1>1, <1>3
  <1>5. hd = IF r = <<>> THEN None ELSE r[1]
    <2>1. CASE p > 1
      BY <1>3, <1>4, <2>1
    <2>2. CASE p = 1
      BY <1>3, <1>4, <2>2
    <2>3. QED
      BY <2>1, <2>2
  <1>6. r # <<>> => tl = r[Len(r)]
    <2>1. CASE p = Len(s)
      BY <1>3, <1>4, <2>1
    <2>2. CASE p # Len(s)
      <3>1. Len(s) - 1 \in p .. Len(s) - 1 /\ (Len(s) - 1) + 1 = Len(s)
        BY <1>3, <2>2
      <3>2. QED
        BY <1>3, <1>4, <2>2, <3>1
    <2>3. QED
      BY <2>1, <2>2
  <1>7. QED
    BY <1>2, <1>5, <1>6 DEF IsList, r

\* What a step starts from.
TheList(s) ==
  /\ expire \in [Timers -> Nat] /\ now \in Nat
  /\ IsFiniteSet(Timers) /\ None \notin Timers
  /\ Lists!Chain(head) = s /\ Lists!Sorted!InList = Elements(s) /\ allocated = Elements(s)
  /\ s = <<>> <=> head = None
  /\ Links(s, next, prev) /\ Distinct(s) /\ Len(s) \in Nat
  /\ next \in [Timers -> Timers \cup {None}] /\ prev \in [Timers -> Timers \cup {None}]
  /\ head = IF s = <<>> THEN None ELSE s[1]
  /\ s # <<>> => tail = s[Len(s)]
  /\ Unlinked(Timers \ Elements(s), next, prev)
  /\ Elements(s) \subseteq Timers
  /\ \A i \in 1 .. Len(s) : /\ s[i] \in Elements(s)
                            /\ next[s[i]] = IF i = Len(s) THEN None ELSE s[i + 1]
                            /\ prev[s[i]] = IF i = 1 THEN None ELSE s[i - 1]
  /\ \A i, j \in 1 .. Len(s) : s[i] = s[j] => i = j

\* Some list is linked in every state of the invariant.
LEMMA ListFacts ==
  ASSUME Lists!ListAssumption, ListsInv
  PROVE  \E s \in Seq(Timers) : TheList(s) /\ IsList(s, allocated, head, tail, next, prev)
  <1>1. PICK s \in Seq(Timers) : IsList(s, allocated, head, tail, next, prev)
    BY DEF ListsInv
  <1>2. IsFiniteSet(Timers) /\ None \notin Timers
    BY Zenon DEF Lists!ListAssumption, Lists!IsFiniteSet, IsFiniteSet
  <1>3. /\ Lists!Chain(head) = s /\ Lists!Sorted!InList = Elements(s) /\ allocated = Elements(s)
        /\ s = <<>> <=> head = None
    BY <1>1, ListMeans
  <1>4. /\ Links(s, next, prev) /\ Distinct(s) /\ Len(s) \in Nat
        /\ next \in [Timers -> Timers \cup {None}] /\ prev \in [Timers -> Timers \cup {None}]
        /\ head = IF s = <<>> THEN None ELSE s[1]
        /\ s # <<>> => tail = s[Len(s)]
        /\ Unlinked(Timers \ Elements(s), next, prev)
    BY <1>1, <1>3 DEF IsList, Links
  <1>5. /\ Elements(s) \subseteq Timers
        /\ \A i \in 1 .. Len(s) : /\ s[i] \in Elements(s)
                                  /\ next[s[i]] = IF i = Len(s) THEN None ELSE s[i + 1]
                                  /\ prev[s[i]] = IF i = 1 THEN None ELSE s[i - 1]
    BY <1>4 DEF Elements, Links
  <1>6. \A i, j \in 1 .. Len(s) : s[i] = s[j] => i = j
    BY <1>4 DEF Distinct
  <1>7. TheList(s)
    BY <1>2, <1>3, <1>4, <1>5, <1>6 DEF TheList, ListsInv
  <1>8. QED
    BY <1>1, <1>7

\* add_timer links the new timer where the sorted sequence has it.
LEMMA AddStep ==
  ASSUME Lists!ListAssumption, ListsInv, NEW t \in Timers, NEW e \in Nat, Lists!Add(t, e)
  PROVE  ListsInv' /\ Lists!Sorted!Add(t, e)
  <1>1. /\ mode \in {"idle", "calling"} /\ t \notin allocated
        /\ mode = "calling" => expire[tmp] <= e
        /\ allocated' = allocated \cup {t} /\ expire' = [expire EXCEPT ![t] = e]
        /\ UNCHANGED <<mode, cur, tmp, now, stepped>>
    BY DEF Lists!Add, Lists!MayCall, Lists!tickVars, Lists!clock
  <1>2. PICK s \in Seq(Timers) : TheList(s)
    BY ListFacts
  <1>3. /\ expire \in [Timers -> Nat] /\ now \in Nat
        /\ IsFiniteSet(Timers) /\ None \notin Timers
        /\ Lists!Chain(head) = s /\ Lists!Sorted!InList = Elements(s) /\ allocated = Elements(s)
        /\ s = <<>> <=> head = None
    BY <1>2 DEF TheList
  <1>4. /\ Links(s, next, prev) /\ Distinct(s) /\ Len(s) \in Nat
        /\ next \in [Timers -> Timers \cup {None}] /\ prev \in [Timers -> Timers \cup {None}]
        /\ head = IF s = <<>> THEN None ELSE s[1]
        /\ s # <<>> => tail = s[Len(s)]
        /\ Unlinked(Timers \ Elements(s), next, prev)
    BY <1>2 DEF TheList
  <1>5. Elements(s) \subseteq Timers /\ \A i \in 1 .. Len(s) : s[i] \in Elements(s)
    BY <1>2 DEF TheList
  <1>6. \E k \in 0 .. Len(s) :
          /\ Insert(s, t, e) = Spliced(s, k, t)
          /\ IsList(Spliced(s, k, t), allocated', head', tail', next', prev')
          /\ s # <<>> /\ expire[head] <= e => head' = head
    <2>1. CASE head = None
      <3>1. s = <<>> /\ Len(s) = 0
        BY <1>3, <2>1
      <3>2. head' = t /\ tail' = t /\ next' = next /\ prev' = prev
        BY <2>1 DEF Lists!Add
      <3>3. Insert(s, t, e) = Spliced(s, 0, t)
        <4>1. PICK k \in 0 .. Len(s) : Insert(s, t, e) = Spliced(s, k, t)
          BY <1>3, InsertProperties
        <4>2. k = 0
          BY <3>1, <4>1
        <4>3. QED
          BY <4>1, <4>2
      <3>4. next[t] = None /\ prev[t] = None
        BY <1>1, <1>3, <1>4 DEF Unlinked
      <3>5. Links(Spliced(s, 0, t), next, prev)
        <4>1. \A u \in Elements(s) : FALSE
          BY <3>1 DEF Elements
        <4>2. PointersSpliced(s, 0, t, next, prev, next, prev)
          BY <1>4, <3>1, <3>4, <4>1 DEF PointersSpliced
        <4>3. 0 \in 0 .. Len(s) /\ t \notin Elements(s)
          BY <1>4, <4>1
        <4>4. QED
          BY <1>3, <1>4, <4>2, <4>3, LinksSpliced
      <3>6. IsList(Spliced(s, 0, t), Elements(s) \cup {t}, t, t, next, prev)
        <4>1. Unlinked(Timers \ (Elements(s) \cup {t}), next, prev)
          BY <1>4 DEF Unlinked
        <4>2. 0 \in 0 .. Len(s) /\ t \notin Elements(s)
          BY <1>1, <1>3, <1>4
        <4>3. QED
          BY <1>4, <3>1, <3>5, <4>1, <4>2, SplicedList
      <3>7. QED
        BY <1>1, <1>3, <3>1, <3>2, <3>3, <3>6
    <2>2. CASE head # None /\ e < expire[head]
      <3>1. s # <<>> /\ head = s[1] /\ 1 \in 1 .. Len(s) /\ Len(s) # 0 /\ head \in Timers
        BY <1>3, <1>4, <1>5, <2>2
      <3>2. /\ next' = [next EXCEPT ![t] = head] /\ prev' = [prev EXCEPT ![head] = t]
            /\ head' = t /\ tail' = tail
        BY <2>2, <1>3, <3>1 DEF Lists!Add
      <3>3. Insert(s, t, e) = Spliced(s, 0, t)
        <4>1. PICK k \in 0 .. Len(s) : Insert(s, t, e) = Spliced(s, k, t) /\ (k > 0 => expire[s[1]] <= e)
          BY <1>3, InsertProperties
        <4>2. k = 0
          BY <1>3, <2>2, <3>1, <4>1
        <4>3. QED
          BY <4>1, <4>2
      <3>4. /\ next' \in [Timers -> Timers \cup {None}] /\ prev' \in [Timers -> Timers \cup {None}]
        BY <1>4, <3>1, <3>2
      <3>5. \A u \in Timers : u # t => next'[u] = next[u] /\ prev'[u] = IF u = head THEN t ELSE prev[u]
        BY <1>4, <3>1, <3>2
      <3>6. next'[t] = s[1] /\ prev'[t] = None
        BY <1>1, <1>3, <1>4, <1>5, <3>1, <3>2 DEF Unlinked
      <3>7. Links(Spliced(s, 0, t), next', prev')
        <4>1. \A u \in Elements(s) : u \in Timers /\ u # t
          BY <1>1, <1>3, <1>5
        <4>2. PointersSpliced(s, 0, t, next, prev, next', prev')
          BY <1>4, <3>1, <3>4, <3>5, <3>6, <4>1 DEF PointersSpliced
        <4>3. 0 \in 0 .. Len(s) /\ t \notin Elements(s)
          BY <1>4, <4>1
        <4>4. QED
          BY <1>3, <1>4, <4>2, <4>3, LinksSpliced
      <3>8. IsList(Spliced(s, 0, t), Elements(s) \cup {t}, t, tail, next', prev')
        <4>1. Unlinked(Timers \ (Elements(s) \cup {t}), next', prev')
          BY <1>4, <1>5, <3>1, <3>5 DEF Unlinked
        <4>2. 0 \in 0 .. Len(s) /\ t \notin Elements(s)
          BY <1>1, <1>3, <1>4
        <4>3. t = IF 0 = 0 THEN t ELSE s[1]
          OBVIOUS
        <4>4. tail = IF 0 = Len(s) THEN t ELSE s[Len(s)]
          BY <1>4, <3>1
        <4>5. QED
          BY <1>4, <3>7, <4>1, <4>2, <4>3, <4>4, SplicedList
      <3>9. QED
        BY <1>1, <1>3, <2>2, <3>1, <3>2, <3>3, <3>8
    <2>3. CASE head # None /\ e >= expire[head]
      <3>1. s # <<>> /\ head = s[1] /\ 1 \in 1 .. Len(s) /\ head \in Timers /\ tail = s[Len(s)]
        BY <1>3, <1>4, <1>5, <2>3
      <3>2. Lists!InsertBehind(t, next, prev, s[1], e) /\ head' = head
        BY <1>3, <2>3, <3>1 DEF Lists!Add
      <3>3. PICK k \in 1 .. Len(s) :
              /\ InsertBehind(s, t, 1, e) = Spliced(s, k, t)
              /\ Links(Spliced(s, k, t), next', prev')
              /\ tail' = IF k = Len(s) THEN t ELSE s[Len(s)]
              /\ Unlinked(Timers \ (Elements(s) \cup {t}), next, prev)
                   => Unlinked(Timers \ (Elements(s) \cup {t}), next', prev')
        <4>1. t \notin Elements(s)
          BY <1>1, <1>3
        <4>2. PutBehind(s, t, 1, e, next, prev)
          BY Zenon, <1>3, <1>4, <3>1, <3>2, <4>1, BehindStep
        <4>3. QED
          BY Zenon, <4>2 DEF PutBehind
      <3>4. Insert(s, t, e) = InsertBehind(s, t, 1, e)
        BY <1>3, <2>3, <3>1 DEF Insert
      <3>5. IsList(Spliced(s, k, t), Elements(s) \cup {t}, s[1], tail', next', prev')
        <4>1. Unlinked(Timers \ (Elements(s) \cup {t}), next', prev')
          BY <1>4, <3>3 DEF Unlinked
        <4>2. k \in 0 .. Len(s) /\ t \notin Elements(s) /\ k # 0
          BY <1>1, <1>3, <1>4
        <4>3. s[1] = IF k = 0 THEN t ELSE s[1]
          BY <4>2
        <4>4. QED
          BY Zenon, <1>4, <3>3, <4>1, <4>2, <4>3, SplicedList
      <3>6. QED
        BY <1>1, <1>3, <3>1, <3>2, <3>3, <3>4, <3>5
    <2>4. head # None => expire[head] \in Nat /\ e \in Nat
      BY <1>3, <1>4, <1>5
    <2>5. QED
      BY <2>1, <2>2, <2>3, <2>4
  <1>7. PICK k \in 0 .. Len(s) :
          /\ Insert(s, t, e) = Spliced(s, k, t)
          /\ IsList(Spliced(s, k, t), allocated', head', tail', next', prev')
          /\ s # <<>> /\ expire[head] <= e => head' = head
    BY <1>6
  <1>8. Spliced(s, k, t) \in Seq(Timers)
    BY SplicedProperties
  <1>9. mode = "calling" => s # <<>> /\ tmp = head /\ head = s[1]
    BY <1>3, <1>4 DEF ListsInv, TickInv
  <1>10. ListsInv'
    <2>1. TickInv'
      BY <1>1, <1>7, <1>9 DEF ListsInv, TickInv
    <2>2. expire' \in [Timers -> Nat] /\ now' \in Nat
      BY <1>1, <1>3
    <2>3. QED
      BY <1>7, <1>8, <2>1, <2>2 DEF ListsInv
  <1>11. Lists!Chain(head)' = Lists!Sorted!Insert(Lists!Chain(head), t, e)
    BY <1>3, <1>7, ListNext, SameOperators
  <1>12. Lists!Sorted!Add(t, e)
    BY <1>1, <1>3, <1>9, <1>11
       DEF Lists!Sorted!Add, Lists!Sorted!MayCall, Lists!Sorted!tickVars, Lists!Sorted!clock
  <1>13. QED
    BY <1>10, <1>12

\* adjust_timer takes a timer out and puts it behind its successor or further.
LEMMA MoveStep ==
  ASSUME NEW s \in Seq(Timers), TheList(s), NEW p \in 1 .. Len(s), p # Len(s), NEW e \in Nat,
         NEW nx, NEW pv, PointersCut(s, p, next, prev, nx, pv),
         Unlinked(Timers \ Elements(s), nx, pv),
         Lists!InsertBehind(s[p], nx, pv, s[p + 1], e),
         head' = IF p = 1 THEN s[2] ELSE head
  PROVE  \E r \in Seq(Timers) :
           /\ InsertBehind(Cut(s, p), s[p], p, e) = r
           /\ IsList(r, Elements(s), head', tail', next', prev')
  <1> DEFINE t == s[p]
             c == Cut(s, p)
  <1>1. /\ IsFiniteSet(Timers) /\ None \notin Timers /\ expire \in [Timers -> Nat]
        /\ Links(s, next, prev) /\ Distinct(s) /\ Len(s) \in Nat
        /\ Elements(s) \subseteq Timers /\ t \in Elements(s)
        /\ s # <<>> /\ head = s[1] /\ tail = s[Len(s)]
    BY DEF TheList
  <1>2. Links(c, nx, pv)
    BY <1>1, LinksCut
  <1>3. c \in Seq(Timers) /\ TakenOut(c, s, p)
    BY CutProperties
  <1>4. Distinct(c) /\ Elements(c) = Elements(s) \ {t}
    BY <1>1, CutElements
  <1> HIDE DEF c
  <1>5. /\ Len(c) = Len(s) - 1
        /\ \A i \in 1 .. p - 1 : c[i] = s[i]
        /\ \A i \in p .. Len(s) - 1 : c[i] = s[i + 1]
    BY <1>3 DEF TakenOut
  <1>6. /\ p \in 1 .. Len(c) /\ c[p] = s[p + 1]
        /\ Len(c) \in p .. Len(s) - 1 /\ Len(c) + 1 = Len(s)
    BY <1>1, <1>5
  <1>7. tail = c[Len(c)]
    BY <1>1, <1>5, <1>6
  <1>8. t \in Timers /\ t \notin Elements(c)
    BY <1>1, <1>4
  <1>9. PutBehind(c, t, p, e, nx, pv)
    <2>1. Lists!InsertBehind(t, nx, pv, c[p], e)
      BY <1>6
    <2> HIDE DEF t
    <2>2. QED
      BY Zenon, <1>1, <1>2, <1>6, <1>7, <1>8, <2>1, BehindStep
  <1>10. Elements(c) \cup {t} = Elements(s)
    BY <1>1, <1>4
  <1>11. PICK k \in p .. Len(c) :
          /\ InsertBehind(c, t, p, e) = Spliced(c, k, t)
          /\ Links(Spliced(c, k, t), next', prev')
          /\ tail' = IF k = Len(c) THEN t ELSE c[Len(c)]
          /\ Unlinked(Timers \ (Elements(c) \cup {t}), nx, pv)
               => Unlinked(Timers \ (Elements(c) \cup {t}), next', prev')
    BY Zenon, <1>9 DEF PutBehind
  <1>12. k \in 0 .. Len(c) /\ k # 0
    BY <1>6
  <1>13. head' = c[1]
    <2>1. CASE p = 1
      BY <1>6, <2>1
    <2>2. CASE p # 1
      <3>1. 1 \in 1 .. p - 1
        BY <2>2
      <3>2. QED
        BY <1>1, <1>5, <2>2, <3>1
    <2>3. QED
      BY <2>1, <2>2
  <1>14. head' = IF k = 0 THEN t ELSE c[1]
    BY <1>12, <1>13
  <1>15. Unlinked(Timers \ (Elements(c) \cup {t}), next', prev')
    BY <1>10, <1>11
  <1> HIDE DEF t
  <1>16. IsList(Spliced(c, k, t), Elements(c) \cup {t}, head', tail', next', prev')
    BY Zenon, <1>3, <1>4, <1>8, <1>11, <1>12, <1>14, <1>15, SplicedList
  <1>17. Spliced(c, k, t) \in Seq(Timers)
    BY <1>3, <1>8, <1>12, SplicedProperties
  <1>18. QED
    BY <1>10, <1>11, <1>16, <1>17 DEF c, t

\* adjust_timer links the timer anew where the sorted sequence has it.
LEMMA AdjustStep ==
  ASSUME Lists!ListAssumption, ListsInv, NEW t \in Timers, NEW e \in Nat, Lists!Adjust(t, e)
  PROVE  ListsInv' /\ Lists!Sorted!Adjust(t, e)
  <1>1. /\ mode \in {"idle", "calling"} /\ t \in allocated
        /\ mode = "calling" => t # tmp
        /\ expire[t] <= e \/ stepped
        /\ allocated' = allocated /\ expire' = [expire EXCEPT ![t] = e]
        /\ UNCHANGED <<mode, cur, tmp, now, stepped>>
    BY DEF Lists!Adjust, Lists!MayCall, Lists!tickVars, Lists!clock
  <1>2. PICK s \in Seq(Timers) : TheList(s) /\ IsList(s, allocated, head, tail, next, prev)
    BY ListFacts
  <1>3. /\ expire \in [Timers -> Nat] /\ now \in Nat /\ None \notin Timers
        /\ Lists!Chain(head) = s /\ Lists!Sorted!InList = Elements(s) /\ allocated = Elements(s)
        /\ next \in [Timers -> Timers \cup {None}] /\ prev \in [Timers -> Timers \cup {None}]
        /\ Elements(s) \subseteq Timers /\ Len(s) \in Nat
        /\ Unlinked(Timers \ Elements(s), next, prev)
        /\ s = <<>> <=> head = None
        /\ head = IF s = <<>> THEN None ELSE s[1]
    BY <1>2 DEF TheList
  <1>4. /\ \A i \in 1 .. Len(s) : /\ s[i] \in Elements(s)
                                  /\ next[s[i]] = IF i = Len(s) THEN None ELSE s[i + 1]
                                  /\ prev[s[i]] = IF i = 1 THEN None ELSE s[i - 1]
        /\ \A i, j \in 1 .. Len(s) : s[i] = s[j] => i = j
    BY <1>2 DEF TheList
  <1> DEFINE p == Place(s, t)
  <1>5. p \in 1 .. Len(s) /\ s[p] = t /\ Without(s, t) = Cut(s, p)
    BY <1>1, <1>3, PlaceProperties
  <1>6. Adjusted(s, t, e) =
          IF p = Len(s) \/ e < expire[s[p + 1]] THEN s ELSE InsertBehind(Cut(s, p), t, p, e)
    BY <1>5 DEF Adjusted
  <1> HIDE DEF p
  <1>7. /\ next[t] = IF p = Len(s) THEN None ELSE s[p + 1]
        /\ prev[t] = IF p = 1 THEN None ELSE s[p - 1]
    BY <1>4, <1>5
  <1>8. s # <<>> /\ head = s[1] /\ (p = 1 <=> t = head)
    <2>1. 1 \in 1 .. Len(s) /\ s # <<>>
      BY <1>3, <1>5
    <2>2. QED
      BY <1>3, <1>4, <1>5, <2>1
  <1>9. p # Len(s) => /\ p + 1 \in 1 .. Len(s) /\ s[p + 1] \in Timers /\ s[p + 1] # None
                      /\ s[p + 1] # t /\ expire[s[p + 1]] \in Nat /\ p < Len(s)
    BY <1>3, <1>4, <1>5
  <1>10. p # 1 => p - 1 \in 1 .. Len(s) /\ s[p - 1] \in Timers /\ s[p - 1] # t
    BY <1>3, <1>4, <1>5
  <1>11. \E r \in Seq(Timers) :
          /\ Adjusted(s, t, e) = r
          /\ IsList(r, allocated', head', tail', next', prev')
          /\ mode = "calling" => head' = head
    <2>1. CASE next[t] # None => e < expire[next[t]]
      <3>1. UNCHANGED <<head, tail, next, prev>>
        BY <1>3, <1>7, <1>9, <2>1 DEF Lists!Adjust, Lists!pointers
      <3>2. Adjusted(s, t, e) = s
        BY <1>6, <1>7, <1>9, <2>1
      <3>3. QED
        BY <1>1, <1>2, <3>1, <3>2
    <2>2. CASE next[t] # None /\ e >= expire[next[t]] /\ t = head
      <3> DEFINE nx == [next EXCEPT ![t] = None]
                 pv == [prev EXCEPT ![s[2]] = None]
      <3>1. p = 1 /\ p # Len(s) /\ next[t] = s[2] /\ s[p + 1] = s[2] /\ prev[t] = None
        BY <1>7, <1>8, <2>2
      <3>2. Lists!InsertBehind(t, nx, pv, s[2], e) /\ head' = s[2]
        BY <1>3, <1>9, <2>2, <3>1 DEF Lists!Adjust
      <3>3. PointersCut(s, p, next, prev, nx, pv)
        <4>1. nx \in [Timers -> Timers \cup {None}] /\ pv \in [Timers -> Timers \cup {None}]
          BY <1>3
        <4>2. \A u \in Elements(s) \ {t} : nx[u] = next[u] /\ pv[u] = IF u = s[2] THEN None ELSE prev[u]
          BY <1>3
        <4> HIDE DEF nx, pv
        <4>3. p < Len(s) /\ ~(p > 1)
          <5>1. p < Len(s)
            BY Zenon, <1>9, <3>1
          <5>2. ~(1 > 1)
            OBVIOUS
          <5>3. QED
            BY Zenon, <3>1, <5>1, <5>2
        <4>4. QED
          BY <1>5, <3>1, <4>1, <4>2, <4>3 DEF PointersCut
      <3>4. Unlinked(Timers \ Elements(s), nx, pv)
        BY <1>3, <1>9, <3>1 DEF Unlinked
      <3> HIDE DEF nx, pv
      <3>5. head' = IF p = 1 THEN s[2] ELSE head
        BY <3>1, <3>2
      <3>6. PICK r \in Seq(Timers) :
              /\ InsertBehind(Cut(s, p), s[p], p, e) = r
              /\ IsList(r, Elements(s), head', tail', next', prev')
        <4>1. Lists!InsertBehind(s[p], nx, pv, s[p + 1], e)
          BY <1>5, <3>1, <3>2
        <4>2. QED
          BY Zenon, <1>2, <1>5, <3>1, <3>3, <3>4, <3>5, <4>1, MoveStep
      <3>7. Adjusted(s, t, e) = r
        BY <1>5, <1>6, <1>9, <2>2, <3>1, <3>6
      <3>8. mode # "calling"
        BY <1>1, <1>8, <2>2 DEF ListsInv, TickInv
      <3>9. QED
        BY <1>1, <1>3, <3>6, <3>7, <3>8
    <2>3. CASE next[t] # None /\ e >= expire[next[t]] /\ t # head
      <3> DEFINE nx == [next EXCEPT ![s[p - 1]] = s[p + 1]]
                 pv == [prev EXCEPT ![s[p + 1]] = s[p - 1]]
      <3>1. p # 1 /\ p # Len(s) /\ next[t] = s[p + 1] /\ prev[t] = s[p - 1]
        BY <1>7, <1>8, <2>3
      <3>2. Lists!InsertBehind(t, nx, pv, s[p + 1], e) /\ head' = head
        BY <1>3, <1>9, <2>3, <3>1 DEF Lists!Adjust
      <3>3. PointersCut(s, p, next, prev, nx, pv)
        <4>1. nx \in [Timers -> Timers \cup {None}] /\ pv \in [Timers -> Timers \cup {None}]
          BY <1>3, <1>9, <1>10, <3>1
        <4>2. \A u \in Elements(s) \ {t} :
                /\ nx[u] = IF u = s[p - 1] THEN s[p + 1] ELSE next[u]
                /\ pv[u] = IF u = s[p + 1] THEN s[p - 1] ELSE prev[u]
          BY <1>3
        <4> HIDE DEF nx, pv
        <4>3. p < Len(s) /\ p > 1
          BY <1>3, <1>5, <3>1
        <4>4. QED
          BY <1>5, <3>1, <4>1, <4>2, <4>3 DEF PointersCut
      <3>4. Unlinked(Timers \ Elements(s), nx, pv)
        <4>1. s[p - 1] \in Elements(s) /\ s[p + 1] \in Elements(s)
          BY <1>4, <1>9, <1>10, <3>1
        <4>2. QED
          BY <1>3, <4>1 DEF Unlinked
      <3> HIDE DEF nx, pv
      <3>5. head' = IF p = 1 THEN s[2] ELSE head
        BY <3>1, <3>2
      <3>6. PICK r \in Seq(Timers) :
              /\ InsertBehind(Cut(s, p), s[p], p, e) = r
              /\ IsList(r, Elements(s), head', tail', next', prev')
        <4>1. Lists!InsertBehind(s[p], nx, pv, s[p + 1], e)
          BY <1>5, <3>2
        <4>2. QED
          BY Zenon, <1>2, <1>5, <3>1, <3>3, <3>4, <3>5, <4>1, MoveStep
      <3>7. Adjusted(s, t, e) = r
        BY <1>5, <1>6, <1>9, <2>3, <3>1, <3>6
      <3>8. QED
        BY <1>1, <1>3, <3>2, <3>6, <3>7
    <2>4. (next[t] # None => e < expire[next[t]]) \/ (next[t] # None /\ e >= expire[next[t]])
      BY <1>7, <1>9
    <2>5. QED
      BY <2>1, <2>2, <2>3, <2>4
  <1>12. PICK r \in Seq(Timers) :
          /\ Adjusted(s, t, e) = r
          /\ IsList(r, allocated', head', tail', next', prev')
          /\ mode = "calling" => head' = head
    BY <1>11
  <1>13. mode = "calling" => tmp = head
    BY DEF ListsInv, TickInv
  <1>14. ListsInv'
    <2>1. TickInv'
      BY <1>1, <1>12 DEF ListsInv, TickInv
    <2>2. expire' \in [Timers -> Nat] /\ now' \in Nat
      BY <1>1, <1>3
    <2>3. QED
      BY <1>12, <2>1, <2>2 DEF ListsInv
  <1>15. Lists!Chain(head)' = Lists!Sorted!Adjusted(Lists!Chain(head), t, e)
    BY <1>3, <1>12, ListNext, SameOperators
  <1>16. Lists!Sorted!Adjust(t, e)
    BY <1>1, <1>3, <1>8, <1>13, <1>15
       DEF Lists!Sorted!Adjust, Lists!Sorted!MayCall, Lists!Sorted!Firing,
           Lists!Sorted!tickVars, Lists!Sorted!clock
  <1>17. QED
    BY <1>14, <1>16

\* del_timer unlinks its timer, at either end of the list or between two others.
LEMMA DelStep ==
  ASSUME Lists!ListAssumption, ListsInv, NEW t \in Timers, Lists!Del(t)
  PROVE  ListsInv' /\ Lists!Sorted!Del(t)
  <1>1. /\ mode \in {"idle", "calling"} /\ t \in allocated
        /\ mode = "calling" => t # tmp
        /\ allocated' = allocated \ {t} /\ expire' = [expire EXCEPT ![t] = 0]
        /\ UNCHANGED <<mode, cur, tmp, now, stepped>>
    BY DEF Lists!Del, Lists!Free, Lists!MayCall, Lists!tickVars, Lists!clock
  <1>2. PICK s \in Seq(Timers) : TheList(s) /\ IsList(s, allocated, head, tail, next, prev)
    BY ListFacts
  <1>3. /\ expire \in [Timers -> Nat] /\ now \in Nat /\ None \notin Timers
        /\ Lists!Chain(head) = s /\ Lists!Sorted!InList = Elements(s) /\ allocated = Elements(s)
        /\ Links(s, next, prev) /\ Distinct(s)
        /\ next \in [Timers -> Timers \cup {None}] /\ prev \in [Timers -> Timers \cup {None}]
        /\ Elements(s) \subseteq Timers /\ Len(s) \in Nat
        /\ Unlinked(Timers \ Elements(s), next, prev)
        /\ s # <<>> => head = s[1] /\ tail = s[Len(s)]
    BY <1>2 DEF TheList
  <1>4. /\ \A i \in 1 .. Len(s) : /\ s[i] \in Elements(s)
                                  /\ next[s[i]] = IF i = Len(s) THEN None ELSE s[i + 1]
                                  /\ prev[s[i]] = IF i = 1 THEN None ELSE s[i - 1]
        /\ \A i, j \in 1 .. Len(s) : s[i] = s[j] => i = j
    BY <1>2 DEF TheList
  <1> DEFINE p == Place(s, t)
  <1>5. p \in 1 .. Len(s) /\ s[p] = t /\ Without(s, t) = Cut(s, p)
    BY <1>1, <1>3, PlaceProperties
  <1> HIDE DEF p
  <1>6. /\ next[t] = IF p = Len(s) THEN None ELSE s[p + 1]
        /\ prev[t] = IF p = 1 THEN None ELSE s[p - 1]
    BY <1>4, <1>5
  <1>7. /\ s # <<>> /\ head = s[1] /\ tail = s[Len(s)]
        /\ (p = 1 <=> t = head) /\ (p = Len(s) <=> t = tail)
    <2>1. 1 \in 1 .. Len(s) /\ Len(s) \in 1 .. Len(s) /\ s # <<>>
      BY <1>3, <1>5
    <2>2. QED
      BY <1>3, <1>4, <1>5, <2>1
  <1>8. p # Len(s) => p + 1 \in 1 .. Len(s) /\ s[p + 1] \in Timers /\ s[p + 1] # t /\ p < Len(s)
    BY <1>3, <1>4, <1>5
  <1>9. p # 1 => p - 1 \in 1 .. Len(s) /\ s[p - 1] \in Timers /\ s[p - 1] # t /\ p > 1
    BY <1>3, <1>4, <1>5
  <1>10. /\ head' = IF p > 1 THEN s[1] ELSE IF Len(s) = 1 THEN None ELSE s[2]
         /\ Len(s) > 1 => tail' = IF p = Len(s) THEN s[Len(s) - 1] ELSE s[Len(s)]
         /\ next' = IF p = 1 THEN [next EXCEPT ![t] = None]
                             ELSE [next EXCEPT ![s[p - 1]] = next[t], ![t] = None]
         /\ prev' = IF p = Len(s) THEN [prev EXCEPT ![t] = None]
                                  ELSE [prev EXCEPT ![s[p + 1]] = prev[t], ![t] = None]
    <2>1. t # None
      BY <1>3
    <2>2. CASE t = head /\ t = tail
      <3>1. p = 1 /\ p = Len(s) /\ Len(s) = 1
        BY <1>7, <2>2
      <3>2. head' = None /\ next' = [next EXCEPT ![t] = None] /\ prev' = [prev EXCEPT ![t] = None]
        BY <2>1, <2>2 DEF Lists!Del, Lists!Set
      <3>3. QED
        BY <3>1, <3>2
    <2>3. CASE t = head /\ t # tail
      <3>1. p = 1 /\ p # Len(s) /\ Len(s) # 1 /\ ~(p > 1) /\ next[t] = s[2] /\ prev[t] = None
        BY <1>6, <1>7, <2>3
      <3>2. /\ head' = next[t] /\ tail' = tail
            /\ next' = [next EXCEPT ![t] = None] /\ prev' = [prev EXCEPT ![next[t]] = None, ![t] = None]
        BY <2>1, <2>3 DEF Lists!Del, Lists!Set
      <3>3. s[p + 1] = s[2]
        BY <3>1
      <3>4. QED
        BY <1>7, <3>1, <3>2, <3>3
    <2>4. CASE t # head /\ t = tail
      <3>1. p # 1 /\ p = Len(s) /\ p > 1 /\ next[t] = None /\ prev[t] = s[p - 1]
        BY <1>6, <1>7, <1>9, <2>4
      <3>2. /\ head' = head /\ tail' = prev[t]
            /\ next' = [next EXCEPT ![prev[t]] = None, ![t] = None] /\ prev' = [prev EXCEPT ![t] = None]
        BY <2>1, <2>4 DEF Lists!Del, Lists!Set
      <3>3. QED
        BY <1>7, <3>1, <3>2
    <2>5. CASE t # head /\ t # tail
      <3>1. p # 1 /\ p # Len(s) /\ p > 1 /\ next[t] = s[p + 1] /\ prev[t] = s[p - 1]
        BY <1>6, <1>7, <1>9, <2>5
      <3>2. /\ head' = head /\ tail' = tail
            /\ next' = [next EXCEPT ![prev[t]] = next[t], ![t] = None]
            /\ prev' = [prev EXCEPT ![next[t]] = prev[t], ![t] = None]
        BY <2>5 DEF Lists!Del
      <3>3. QED
        BY <1>7, <3>1, <3>2
    <2>6. QED
      BY <2>2, <2>3, <2>4, <2>5
  <1>11. /\ next' \in [Timers -> Timers \cup {None}] /\ prev' \in [Timers -> Timers \cup {None}]
    <2>1. next[t] \in Timers \cup {None} /\ prev[t] \in Timers \cup {None}
      BY <1>3
    <2>2. next' \in [Timers -> Timers \cup {None}]
      BY <1>3, <1>10, <2>1
    <2>3. prev' \in [Timers -> Timers \cup {None}]
      BY <1>3, <1>10, <2>1
    <2>4. QED
      BY <2>2, <2>3
  <1>12. \A u \in Timers \ {t} :
           /\ next'[u] = IF p > 1 /\ u = s[p - 1] THEN next[t] ELSE next[u]
           /\ prev'[u] = IF p < Len(s) /\ u = s[p + 1] THEN prev[t] ELSE prev[u]
    <2>1. (p > 1 <=> p # 1) /\ (p < Len(s) <=> p # Len(s))
      BY <1>3, <1>5
    <2>2. QED
      BY <1>3, <1>8, <1>9, <1>10, <2>1
  <1>13. next'[t] = None /\ prev'[t] = None
    BY <1>3, <1>8, <1>9, <1>10
  <1>14. Links(Cut(s, p), next', prev')
    <2>1. PointersCut(s, p, next, prev, next', prev')
      BY <1>3, <1>5, <1>11, <1>12 DEF PointersCut
    <2>2. QED
      BY Zenon, <1>3, <1>5, <2>1, LinksCut
  <1>15. Unlinked(Timers \ (Elements(s) \ {s[p]}), next', prev')
    <2>1. p # 1 => s[p - 1] \in Elements(s)
      BY <1>4, <1>9
    <2>2. p # Len(s) => s[p + 1] \in Elements(s)
      BY <1>4, <1>8
    <2>3. (p > 1 <=> p # 1) /\ (p < Len(s) <=> p # Len(s))
      BY <1>3, <1>5
    <2>4. QED
      BY <1>3, <1>5, <1>12, <1>13, <2>1, <2>2, <2>3 DEF Unlinked
  <1>16. IsList(Cut(s, p), allocated', head', tail', next', prev')
    <2>1. allocated' = Elements(s) \ {s[p]}
      BY <1>1, <1>3, <1>5
    <2>2. IsList(Cut(s, p), Elements(s) \ {s[p]}, head', tail', next', prev')
      BY Zenon, <1>3, <1>5, <1>10, <1>14, <1>15, CutList
    <2>3. QED
      BY <2>1, <2>2
  <1>17. mode = "calling" => tmp = head /\ head' = head
    <2>1. mode = "calling" => tmp = head
      BY DEF ListsInv, TickInv
    <2>2. mode = "calling" => p > 1
      BY <1>1, <1>7, <1>9, <2>1
    <2>3. QED
      BY <1>7, <1>10, <2>1, <2>2
  <1>18. ListsInv'
    <2>1. TickInv'
      BY <1>1, <1>17 DEF ListsInv, TickInv
    <2>2. expire' \in [Timers -> Nat] /\ now' \in Nat
      BY <1>1, <1>3
    <2>3. Cut(s, p) \in Seq(Timers)
      BY <1>5, CutProperties
    <2>4. QED
      BY <1>16, <2>1, <2>2, <2>3 DEF ListsInv
  <1>19. Lists!Chain(head)' = Lists!Sorted!Without(Lists!Chain(head), t)
    BY <1>3, <1>5, <1>16, ListNext, SameOperators
  <1>20. Lists!Sorted!Del(t)
    BY <1>1, <1>3, <1>7, <1>17, <1>19
       DEF Lists!Sorted!Del, Lists!Sorted!MayCall, Lists!Sorted!Firing,
           Lists!Sorted!tickVars, Lists!Sorted!clock
  <1>21. QED
    BY <1>18, <1>20

\* tick() unlinks the head after its callback; the tail it leaves behind when the
\* list gets empty is of no list.
LEMMA ReturnStep ==
  ASSUME Lists!ListAssumption, ListsInv, Lists!Return
  PROVE  ListsInv' /\ Lists!Sorted!Return
  <1>1. PICK s \in Seq(Timers) : TheList(s)
    BY ListFacts
  <1>2. /\ expire \in [Timers -> Nat] /\ now \in Nat /\ None \notin Timers
        /\ Lists!Chain(head) = s /\ allocated = Elements(s)
        /\ Links(s, next, prev) /\ Distinct(s)
        /\ next \in [Timers -> Timers \cup {None}] /\ prev \in [Timers -> Timers \cup {None}]
        /\ Elements(s) \subseteq Timers /\ Len(s) \in Nat
        /\ Unlinked(Timers \ Elements(s), next, prev)
        /\ s = <<>> <=> head = None
        /\ s # <<>> => head = s[1] /\ tail = s[Len(s)]
    BY <1>1 DEF TheList
  <1>3. /\ \A i \in 1 .. Len(s) : /\ s[i] \in Elements(s)
                                  /\ next[s[i]] = IF i = Len(s) THEN None ELSE s[i + 1]
                                  /\ prev[s[i]] = IF i = 1 THEN None ELSE s[i - 1]
        /\ \A i, j \in 1 .. Len(s) : s[i] = s[j] => i = j
    BY <1>1 DEF TheList
  <1> DEFINE t == s[1]
  <1>4. mode = "calling" /\ tmp = head /\ head # None
    BY DEF Lists!Return, ListsInv, TickInv
  <1>5. /\ s # <<>> /\ tmp = t /\ head = t /\ tail = s[Len(s)]
        /\ 1 \in 1 .. Len(s) /\ t \in Elements(s) /\ t \in Timers
        /\ next[t] = IF Len(s) = 1 THEN None ELSE s[2]
    <2>1. s # <<>>
      BY <1>2, <1>4
    <2>2. 1 \in 1 .. Len(s) /\ (1 = Len(s) <=> Len(s) = 1) /\ 1 + 1 = 2
      BY <2>1
    <2>3. t \in Elements(s) /\ t \in Timers /\ next[t] = IF Len(s) = 1 THEN None ELSE s[2]
      <3>1. next[s[1]] = IF 1 = Len(s) THEN None ELSE s[1 + 1]
        BY <1>3, <2>2
      <3>2. s[1] \in Elements(s)
        BY <1>3, <2>2
      <3>3. QED
        BY <1>2, <2>2, <3>1, <3>2
    <2>4. QED
      BY <1>2, <1>4, <2>1, <2>2, <2>3
  <1>6. Len(s) # 1 => 2 \in 1 .. Len(s) /\ s[2] \in Timers /\ s[2] # t /\ prev[s[2]] = t
    <2>1. Len(s) \in Nat /\ Len(s) # 0
      BY <1>2, <1>5
    <2>2. \A n \in Nat : n # 0 /\ n # 1 => 2 \in 1 .. n
      OBVIOUS
    <2>3. Len(s) # 1 => 2 \in 1 .. Len(s)
      BY Zenon, <2>1, <2>2
    <2>4. ASSUME Len(s) # 1
          PROVE  s[2] \in Elements(s) /\ s[2] # t /\ prev[s[2]] = t
      BY <1>3, <1>5, <2>3, <2>4
    <2>5. QED
      BY <1>2, <2>3, <2>4
  <1> HIDE DEF t
  <1>7. /\ head' = next[t] /\ tmp' = next[t] /\ mode' = "visiting"
        /\ prev' = [Lists!Set(prev, next[t], None) EXCEPT ![t] = None]
        /\ next' = [next EXCEPT ![t] = None]
        /\ allocated' = allocated \ {t} /\ expire' = [expire EXCEPT ![t] = 0]
        /\ UNCHANGED <<tail, now, stepped, cur>>
    BY <1>5 DEF Lists!Return, Lists!Free, Lists!clock
  <1>8. prev' = IF Len(s) = 1 THEN [prev EXCEPT ![t] = None]
                              ELSE [prev EXCEPT ![s[2]] = None, ![t] = None]
    BY <1>2, <1>5, <1>6, <1>7 DEF Lists!Set
  <1>9. next' \in [Timers -> Timers \cup {None}] /\ prev' \in [Timers -> Timers \cup {None}]
    BY <1>2, <1>5, <1>6, <1>7, <1>8
  <1>10. \A u \in Timers \ {t} :
           /\ next'[u] = next[u]
           /\ prev'[u] = IF Len(s) # 1 /\ u = s[2] THEN None ELSE prev[u]
    BY <1>2, <1>6, <1>7, <1>8
  <1>11. next'[t] = None /\ prev'[t] = None /\ prev[t] = None
    BY <1>2, <1>3, <1>5, <1>6, <1>7, <1>8 DEF t
  <1>12. 1 < Len(s) <=> Len(s) # 1
    <2>1. Len(s) \in Nat /\ Len(s) # 0
      BY <1>2, <1>5
    <2>2. \A n \in Nat : n # 0 => (1 < n <=> n # 1)
      OBVIOUS
    <2>3. QED
      BY Zenon, <2>1, <2>2
  <1>13. Links(Cut(s, 1), next', prev')
    <2>1. PointersCut(s, 1, next, prev, next', prev')
      BY <1>2, <1>9, <1>10, <1>11, <1>12 DEF PointersCut, t
    <2>2. QED
      BY Zenon, <1>2, <1>5, <2>1, LinksCut
  <1>14. Unlinked(Timers \ (Elements(s) \ {s[1]}), next', prev')
    <2>1. Len(s) # 1 => s[2] \in Elements(s)
      BY <1>3, <1>6
    <2>2. QED
      BY <1>2, <1>10, <1>11, <2>1 DEF Unlinked, t
  <1>15. /\ head' = IF 1 > 1 THEN s[1] ELSE IF Len(s) = 1 THEN None ELSE s[2]
         /\ Len(s) > 1 => tail' = IF 1 = Len(s) THEN s[Len(s) - 1] ELSE s[Len(s)]
    BY <1>2, <1>5, <1>7
  <1>16. IsList(Cut(s, 1), allocated', head', tail', next', prev')
    <2>1. allocated' = Elements(s) \ {s[1]}
      BY <1>2, <1>7 DEF t
    <2>2. IsList(Cut(s, 1), Elements(s) \ {s[1]}, head', tail', next', prev')
      BY Zenon, <1>2, <1>5, <1>13, <1>14, <1>15, CutList
    <2>3. QED
      BY <2>1, <2>2
  <1>17. ListsInv'
    <2>1. TickInv'
      BY <1>7 DEF TickInv
    <2>2. expire' \in [Timers -> Nat] /\ now' \in Nat
      BY <1>2, <1>7
    <2>3. Cut(s, 1) \in Seq(Timers)
      BY <1>5, CutProperties
    <2>4. QED
      BY <1>16, <2>1, <2>2, <2>3 DEF ListsInv
  <1>18. Cut(s, 1) = Tail(s)
    <2>1. Cut(s, 1) \in Seq(Timers) /\ TakenOut(Cut(s, 1), s, 1)
      BY <1>5, CutProperties
    <2>2. /\ Tail(s) \in Seq(Timers) /\ Len(Tail(s)) = Len(s) - 1
          /\ \A i \in 1 .. Len(s) - 1 : Tail(s)[i] = s[i + 1]
      BY <1>5, HeadTailProperties
    <2>3. QED
      BY <2>1, <2>2, SeqEqual DEF TakenOut
  <1>19. Lists!Chain(head)' = Tail(s)
    BY <1>16, <1>18, ListNext
  <1>20. Lists!Sorted!Return
    BY <1>2, <1>4, <1>5, <1>7, <1>19 DEF Lists!Sorted!Return, Lists!Sorted!clock, t
  <1>21. QED
    BY <1>17, <1>20

\* tick() starts at the first timer.
LEMMA TickStartStep ==
  ASSUME Lists!ListAssumption, ListsInv, Lists!TickStart
  PROVE  ListsInv' /\ Lists!Sorted!TickStart
  <1>1. PICK s \in Seq(Timers) : TheList(s) /\ IsList(s, allocated, head, tail, next, prev)
    BY ListFacts
  <1>2. Lists!Chain(head) = s /\ (s = <<>> <=> head = None) /\ expire \in [Timers -> Nat] /\ now \in Nat
    BY <1>1 DEF TheList
  <1>3. /\ mode = "idle" /\ head # None /\ cur' = now /\ tmp' = head /\ mode' = "visiting"
        /\ UNCHANGED <<head, tail, next, prev, allocated, expire, now, stepped>>
    BY DEF Lists!TickStart, Lists!pointers, Lists!clock
  <1>4. IsList(s, allocated', head', tail', next', prev')
    BY <1>1, <1>3
  <1>5. TickInv'
    BY <1>3 DEF TickInv
  <1>6. ListsInv'
    BY <1>2, <1>3, <1>4, <1>5 DEF ListsInv
  <1>7. Lists!Sorted!TickStart
    BY <1>2, <1>3, <1>4, ListNext DEF Lists!Sorted!TickStart, Lists!Sorted!Time, Lists!Sorted!clock
  <1>8. QED
    BY <1>6, <1>7

\* tick() calls the callback of the first timer.
LEMMA CallStep ==
  ASSUME Lists!ListAssumption, ListsInv, Lists!Call
  PROVE  ListsInv' /\ Lists!Sorted!Call
  <1>1. PICK s \in Seq(Timers) : TheList(s) /\ IsList(s, allocated, head, tail, next, prev)
    BY ListFacts
  <1>2. /\ Lists!Chain(head) = s /\ (s = <<>> <=> head = None)
        /\ head = IF s = <<>> THEN None ELSE s[1]
        /\ expire \in [Timers -> Nat] /\ now \in Nat
    BY <1>1 DEF TheList
  <1>3. /\ mode = "visiting" /\ tmp # None /\ expire[tmp] <= cur /\ mode' = "calling"
        /\ UNCHANGED <<head, tail, next, prev, allocated, expire, now, stepped, cur, tmp>>
    BY DEF Lists!Call, Lists!pointers, Lists!clock
  <1>4. IsList(s, allocated', head', tail', next', prev')
    BY <1>1, <1>3
  <1>5. tmp = head
    BY <1>3 DEF ListsInv, TickInv
  <1>6. ListsInv'
    BY <1>2, <1>3, <1>4, <1>5 DEF ListsInv, TickInv
  <1>7. Lists!Sorted!Call
    BY <1>2, <1>3, <1>4, <1>5, ListNext DEF Lists!Sorted!Call, Lists!Sorted!clock
  <1>8. QED
    BY <1>6, <1>7

\* tick() stops where the sequence says it does.
LEMMA TickEndStep ==
  ASSUME Lists!ListAssumption, ListsInv, Lists!TickEnd
  PROVE  ListsInv' /\ Lists!Sorted!TickEnd
  <1>1. PICK s \in Seq(Timers) : TheList(s) /\ IsList(s, allocated, head, tail, next, prev)
    BY ListFacts
  <1>2. /\ Lists!Chain(head) = s /\ (s = <<>> <=> head = None)
        /\ head = IF s = <<>> THEN None ELSE s[1]
        /\ expire \in [Timers -> Nat] /\ now \in Nat
    BY <1>1 DEF TheList
  <1>3. /\ mode = "visiting" /\ (tmp # None => cur < expire[tmp])
        /\ mode' = "idle" /\ cur' = 0 /\ tmp' = None
        /\ UNCHANGED <<head, tail, next, prev, allocated, expire, now, stepped>>
    BY DEF Lists!TickEnd, Lists!pointers, Lists!clock
  <1>4. IsList(s, allocated', head', tail', next', prev')
    BY <1>1, <1>3
  <1>5. tmp = head
    BY <1>3 DEF ListsInv, TickInv
  <1>6. ListsInv'
    BY <1>2, <1>3, <1>4 DEF ListsInv, TickInv
  <1>7. Lists!Sorted!TickEnd
    BY <1>2, <1>3, <1>4, <1>5, ListNext
       DEF Lists!Sorted!TickEnd, Lists!Sorted!Leave, Lists!Sorted!clock
  <1>8. QED
    BY <1>6, <1>7

\* No timer, no pointer.
LEMMA EmptyList ==
  ASSUME NEW tl, NEW nx, NEW pv,
         nx = [t \in Timers |-> None], pv = [t \in Timers |-> None]
  PROVE  <<>> \in Seq(Timers) /\ IsList(<<>>, {}, None, tl, nx, pv)
  <1>1. Links(<<>>, nx, pv)
    BY DEF Links, Distinct
  <1>2. Elements(<<>>) = {}
    BY DEF Elements
  <1>3. QED
    BY <1>1, <1>2 DEF IsList, Unlinked

\* The destructor reaches every timer from head.
LEMMA DestroyStep ==
  ASSUME Lists!ListAssumption, ListsInv, Lists!Destroy
  PROVE  ListsInv' /\ Lists!Sorted!Destroy
  <1>1. PICK s \in Seq(Timers) : TheList(s)
    BY ListFacts
  <1>2. Lists!Chain(head) = s /\ allocated = Elements(s) /\ now \in Nat
    BY <1>1 DEF TheList
  <1>3. /\ mode = "idle" /\ head' = None
        /\ allocated' = allocated \ {Lists!Chain(head)[i] : i \in 1 .. Len(Lists!Chain(head))}
        /\ next' = [t \in Timers |-> None] /\ prev' = [t \in Timers |-> None]
        /\ expire' = [t \in Timers |-> 0]
        /\ UNCHANGED <<tail, mode, cur, tmp, now, stepped>>
    BY DEF Lists!Destroy, Lists!Nowhere, Lists!tickVars, Lists!clock
  <1>4. allocated' = {}
    BY <1>2, <1>3 DEF Elements
  <1>5. <<>> \in Seq(Timers) /\ IsList(<<>>, allocated', head', tail', next', prev')
    <2>1. <<>> \in Seq(Timers) /\ IsList(<<>>, {}, None, tail', next', prev')
      BY Zenon, <1>3, EmptyList
    <2>2. QED
      BY Zenon, <1>3, <1>4, <2>1
  <1>6. ListsInv'
    <2>1. TickInv'
      BY <1>3 DEF ListsInv, TickInv
    <2>2. expire' \in [Timers -> Nat] /\ now' \in Nat
      BY <1>2, <1>3
    <2>3. QED
      BY <1>5, <2>1, <2>2 DEF ListsInv
  <1>7. Lists!Sorted!Destroy
    BY <1>3, <1>5, ListNext DEF Lists!Sorted!Destroy, Lists!Sorted!tickVars, Lists!Sorted!clock
  <1>8. QED
    BY <1>6, <1>7

\* The clock moves no pointer.
LEMMA ClockStep ==
  ASSUME Lists!ListAssumption, ListsInv
  PROVE  /\ Lists!Wait => ListsInv' /\ Lists!Sorted!Wait
         /\ Lists!SetBack => ListsInv' /\ Lists!Sorted!SetBack
  <1>1. PICK s \in Seq(Timers) : TheList(s) /\ IsList(s, allocated, head, tail, next, prev)
    BY ListFacts
  <1>2. Lists!Chain(head) = s /\ expire \in [Timers -> Nat] /\ now \in Nat
    BY <1>1 DEF TheList
  <1>3. ASSUME UNCHANGED <<head, tail, next, prev, allocated, expire, mode, cur, tmp>>, now' \in Nat
        PROVE  ListsInv' /\ Lists!Chain(head)' = Lists!Chain(head)
    <2>1. IsList(s, allocated', head', tail', next', prev')
      BY <1>1, <1>3
    <2>2. Lists!Chain(head)' = s
      BY <2>1, ListNext
    <2>3. TickInv'
      BY <1>3 DEF ListsInv, TickInv
    <2>4. QED
      BY <1>2, <1>3, <2>1, <2>2, <2>3 DEF ListsInv
  <1>4. ASSUME Lists!Wait
        PROVE  ListsInv' /\ Lists!Sorted!Wait
    <2>1. /\ UNCHANGED <<head, tail, next, prev, allocated, expire, mode, cur, tmp, stepped>>
          /\ now < MaxTime /\ now' = now + 1
      BY <1>4 DEF Lists!Wait, Lists!pointers, Lists!tickVars
    <2>2. now' \in Nat
      BY <1>2, <2>1
    <2>3. QED
      BY <1>3, <2>1, <2>2 DEF Lists!Sorted!Wait, Lists!Sorted!tickVars
  <1>5. ASSUME Lists!SetBack
        PROVE  ListsInv' /\ Lists!Sorted!SetBack
    <2>1. /\ UNCHANGED <<head, tail, next, prev, allocated, expire, mode, cur, tmp>>
          /\ now' \in 0 .. now - 1 /\ stepped' = TRUE
      BY <1>5 DEF Lists!SetBack, Lists!pointers, Lists!tickVars
    <2>2. now' \in Nat
      BY <1>2, <2>1
    <2>3. QED
      BY <1>3, <2>1, <2>2 DEF Lists!Sorted!SetBack, Lists!Sorted!tickVars
  <1>6. QED
    BY <1>4, <1>5

-----------------------------------------------------------------------------

\* The constructor's list is empty.
LEMMA InitLists ==
  ASSUME Lists!ListAssumption, Lists!Init
  PROVE  ListsInv /\ Lists!Sorted!Init
  <1>1. /\ head = None /\ tail = None /\ allocated = {}
        /\ next = [t \in Timers |-> None] /\ prev = [t \in Timers |-> None]
        /\ expire = [t \in Timers |-> 0] /\ now = 0 /\ mode = "idle" /\ cur = 0
        /\ tmp = None /\ stepped = FALSE
    BY DEF Lists!Init, Lists!Nowhere
  <1>2. <<>> \in Seq(Timers) /\ IsList(<<>>, allocated, head, tail, next, prev)
    BY <1>1, EmptyList
  <1>3. ListsInv
    BY <1>1, <1>2 DEF ListsInv, TickInv
  <1>4. Lists!Chain(head) = <<>>
    BY <1>2, ListMeans
  <1>5. QED
    BY <1>1, <1>3, <1>4 DEF Lists!Sorted!Init

\* Every step keeps the list linked and is a step of the sorted sequence.
LEMMA NextLists ==
  ASSUME Lists!ListAssumption, ListsInv, [Lists!Next]_(Lists!vars)
  PROVE  ListsInv' /\ [Lists!Sorted!Next]_(Lists!Sorted!vars)
  <1> USE DEF Lists!Sorted!Next, Lists!Sorted!Tick
  <1>1. CASE Lists!TickStart
    BY <1>1, TickStartStep
  <1>2. CASE Lists!Call
    BY <1>2, CallStep
  <1>3. CASE Lists!Return
    BY <1>3, ReturnStep
  <1>4. CASE Lists!TickEnd
    BY <1>4, TickEndStep
  <1>5. CASE Lists!Destroy
    BY <1>5, DestroyStep
  <1>6. CASE Lists!Wait \/ Lists!SetBack
    BY <1>6, ClockStep
  <1>7. ASSUME NEW t \in Timers, Lists!Del(t)
        PROVE  ListsInv' /\ [Lists!Sorted!Next]_(Lists!Sorted!vars)
    BY <1>7, DelStep
  <1>8. ASSUME NEW delay \in Delays
        PROVE  now + delay \in Nat
    BY TimersAssumption DEF ListsInv
  <1>9. ASSUME NEW t \in Timers, NEW delay \in Delays, Lists!Add(t, now + delay)
        PROVE  ListsInv' /\ [Lists!Sorted!Next]_(Lists!Sorted!vars)
    <2>1. ListsInv' /\ Lists!Sorted!Add(t, now + delay)
      BY Zenon, <1>8, <1>9, AddStep
    <2>2. QED
      BY <2>1
  <1>10. ASSUME NEW t \in Timers, NEW delay \in Delays, Lists!Adjust(t, now + delay)
         PROVE  ListsInv' /\ [Lists!Sorted!Next]_(Lists!Sorted!vars)
    <2>1. ListsInv' /\ Lists!Sorted!Adjust(t, now + delay)
      BY Zenon, <1>8, <1>10, AdjustStep
    <2>2. QED
      BY <2>1
  <1>11. CASE UNCHANGED Lists!vars
    <2>1. UNCHANGED <<head, tail, next, prev, allocated, expire, mode, cur, tmp, now, stepped>>
      BY <1>11 DEF Lists!vars, Lists!pointers, Lists!tickVars, Lists!clock
    <2>2. PICK s \in Seq(Timers) : IsList(s, allocated, head, tail, next, prev)
      BY DEF ListsInv
    <2>3. IsList(s, allocated', head', tail', next', prev')
      BY <2>1, <2>2
    <2>4. Lists!Chain(head)' = Lists!Chain(head)
      BY <2>2, <2>3, ListMeans, ListNext
    <2>5. ListsInv'
      BY <2>1, <2>3 DEF ListsInv, TickInv
    <2>6. UNCHANGED Lists!Sorted!vars
      BY <2>1, <2>4 DEF Lists!Sorted!vars, Lists!Sorted!tickVars, Lists!Sorted!clock
    <2>7. QED
      BY <2>5, <2>6
  <1>12. QED
    BY <1>1, <1>2, <1>3, <1>4, <1>5, <1>6, <1>7, <1>9, <1>10, <1>11 DEF Lists!Next

\* The pointers of Sort_timer_list do what SortedTimers promises: add_timer,
\* adjust_timer, del_timer, tick() and the destructor leave in the list from head the
\* sequence that its operators compute.
THEOREM ListsImplementSorted == Lists!ListAssumption => (Lists!Spec => Lists!ImplementsSorted)
  <1> SUFFICES ASSUME Lists!ListAssumption
               PROVE  Lists!Spec => Lists!ImplementsSorted
    OBVIOUS
  <1>1. Lists!Init => ListsInv /\ Lists!Sorted!Init
    BY InitLists
  <1>2. ListsInv /\ [Lists!Next]_(Lists!vars)
          => ListsInv' /\ [Lists!Sorted!Next]_(Lists!Sorted!vars)
    BY NextLists
  <1>3. QED
    BY <1>1, <1>2, PTL DEF Lists!Spec, Lists!ImplementsSorted, Lists!Sorted!Spec

\* They keep one doubly linked list of all timers in use, from head to tail, and no
\* pointer that they follow leads to a deleted timer.
THEOREM LinkedTheorem == Lists!ListAssumption => (Lists!Spec => []Lists!WellLinked)
  <1> SUFFICES ASSUME Lists!ListAssumption
               PROVE  Lists!Spec => []Lists!WellLinked
    OBVIOUS
  <1>1. Lists!Init => ListsInv
    BY InitLists
  <1>2. ListsInv /\ [Lists!Next]_(Lists!vars) => ListsInv'
    BY NextLists
  <1>3. ListsInv => Lists!WellLinked
    <2> SUFFICES ASSUME ListsInv
                 PROVE  Lists!WellLinked
      OBVIOUS
    <2>1. PICK s \in Seq(Timers) : TheList(s)
      BY ListFacts
    <2>2. /\ None \notin Timers /\ Lists!Chain(head) = s /\ allocated = Elements(s)
          /\ s = <<>> <=> head = None
          /\ next \in [Timers -> Timers \cup {None}] /\ prev \in [Timers -> Timers \cup {None}]
          /\ s # <<>> => head = s[1] /\ tail = s[Len(s)]
          /\ Elements(s) \subseteq Timers /\ Len(s) \in Nat
      BY <2>1 DEF TheList
    <2>3. \A i \in 1 .. Len(s) : /\ s[i] \in Elements(s)
                                 /\ next[s[i]] = IF i = Len(s) THEN None ELSE s[i + 1]
                                 /\ prev[s[i]] = IF i = 1 THEN None ELSE s[i - 1]
      BY <2>1 DEF TheList
    <2>4. s # <<>> => 1 \in 1 .. Len(s) /\ Len(s) \in 1 .. Len(s)
      BY <2>2
    <2>5. ASSUME NEW t \in allocated
          PROVE  /\ next[t] \in allocated \cup {None} /\ prev[t] \in allocated \cup {None}
                 /\ next[t] # None => prev[next[t]] = t
                 /\ prev[t] # None => next[prev[t]] = t
                 /\ (prev[t] = None) <=> (t = head)
      <3>1. PICK i \in 1 .. Len(s) : t = s[i]
        BY <2>2 DEF Elements
      <3>2. CASE next[t] # None
        <4>1. i # Len(s) /\ i + 1 \in 1 .. Len(s) /\ next[t] = s[i + 1] /\ (i + 1) - 1 = i /\ i + 1 # 1
          BY <2>2, <2>3, <3>1, <3>2
        <4>2. QED
          BY <2>2, <2>3, <3>1, <4>1
      <3>3. CASE prev[t] # None
        <4>1. i # 1 /\ i - 1 \in 1 .. Len(s) /\ prev[t] = s[i - 1] /\ (i - 1) + 1 = i /\ i - 1 # Len(s)
          BY <2>2, <2>3, <3>1, <3>3
        <4>2. QED
          BY <2>2, <2>3, <3>1, <4>1
      <3>4. (prev[t] = None) <=> (t = head)
        <4>1. s # <<>> /\ head = s[1] /\ 1 \in 1 .. Len(s)
          BY <2>2, <2>4, <3>1
        <4>2. i = 1 => prev[t] = None
          BY <2>3, <3>1
        <4>3. i # 1 => prev[t] # None
          BY <2>2, <2>3, <3>1
        <4>4. i # 1 => t # head
          <5>1. prev[head] = None
            BY <2>3, <4>1
          <5>2. QED
            BY <4>3, <5>1
        <4>5. QED
          BY <3>1, <4>1, <4>2, <4>3, <4>4
      <3>5. QED
        BY <2>2, <3>2, <3>3, <3>4
    <2>6. Lists!NoDangling
      BY <2>2, <2>3, <2>4, <2>5 DEF Lists!NoDangling, ListsInv, TickInv
    <2>7. allocated = {Lists!Chain(head)[i] : i \in 1 .. Len(Lists!Chain(head))}
      BY <2>2 DEF Elements
    <2>8. head # None => prev[head] = None /\ next[tail] = None
      BY <2>2, <2>3, <2>4
    <2>9. Lists!OneList
      BY <2>5, <2>7, <2>8 DEF Lists!OneList
    <2>10. QED
      BY <2>6, <2>9 DEF Lists!WellLinked
  <1>4. QED
    BY <1>1, <1>2, <1>3, PTL DEF Lists!Spec

=============================================================================
