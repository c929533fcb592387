------------------------------ MODULE HeapProofs ------------------------------
(***************************************************************************)
(* Theorems about StateHeap.  container/heap is a few loops; what they do  *)
(* to a heap of any size is proved first, from an induction over their     *)
(* rounds, and then what schedule relies on: the place every State keeps   *)
(* of itself, and the order of the heap.                                   *)
(***************************************************************************)
EXTENDS StateHeap, FiniteSetTheorems, WellFoundedInduction, TLAPS

-----------------------------------------------------------------------------
(* Induction over the natural numbers, for sets                              *)

LEMMA Smallest ==
  ASSUME NEW S \in SUBSET Nat, S # {}
  PROVE  \E m \in S : \A k \in S : m <= k
<1>1. PICK m \in S : \A k \in S : <<k, m>> \notin OpToRel(<, Nat)
  BY WFMin, NatLessThanWellFounded, Zenon
<1>2. \A k \in S : ~(k < m)
  BY <1>1, Zenon DEF OpToRel
<1> QED
  BY <1>2

LEMMA Inductive ==
  ASSUME NEW S, 0 \in S, \A n \in Nat : n \in S => n + 1 \in S
  PROVE  \A n \in Nat : n \in S
<1>1. SUFFICES ASSUME Nat \ S # {} PROVE FALSE
  OBVIOUS
<1>2. PICK m \in Nat \ S : \A k \in Nat \ S : m <= k
  BY <1>1, Smallest
<1>3. m # 0 /\ m - 1 \in Nat
  BY <1>2
<1>4. m - 1 \in S
  BY <1>2, <1>3
<1> QED
  BY <1>2, <1>3, <1>4

-----------------------------------------------------------------------------
(* Loops                                                                     *)

\* The first n rounds of a loop.
Upto(round, start, n, f) ==
  f = [k \in 0..n |-> IF k = 0 THEN start ELSE round[f[k - 1]]]

LEMMA SomeRounds ==
  ASSUME NEW round, NEW start
  PROVE  \A n \in Nat : \E f : Upto(round, start, n, f)
<1> DEFINE S == {n \in Nat : \E f : Upto(round, start, n, f)}
<1>1. 0 \in S
  <2>1. Upto(round, start, 0, [k \in 0..0 |-> start])
    BY DEF Upto
  <2> QED
    BY <2>1
<1>2. ASSUME NEW n \in Nat, n \in S PROVE n + 1 \in S
  <2>1. PICK f : Upto(round, start, n, f)
    BY <1>2
  <2> DEFINE g == [k \in 0..(n + 1) |-> IF k = n + 1 THEN round[f[n]] ELSE f[k]]
  <2>2. \A k \in 0..n : g[k] = f[k]
    OBVIOUS
  <2>3. \A k \in 0..n : f[k] = IF k = 0 THEN start ELSE round[f[k - 1]]
    BY <2>1 DEF Upto
  <2>4. ASSUME NEW k \in 0..(n + 1)
        PROVE  g[k] = IF k = 0 THEN start ELSE round[g[k - 1]]
    <3>1. CASE k = n + 1
      BY <2>2, <3>1
    <3>2. CASE k # n + 1
      <4>1. k \in 0..n /\ (k # 0 => k - 1 \in 0..n)
        BY <3>2
      <4> HIDE DEF g
      <4> QED
        BY <2>2, <2>3, <4>1
    <3> QED
      BY <3>1, <3>2
  <2>5. g = [k \in 0..(n + 1) |-> g[k]]
    OBVIOUS
  <2> HIDE DEF g
  <2>6. Upto(round, start, n + 1, g)
    BY <2>4, <2>5 DEF Upto
  <2> QED
    BY <2>6
<1> HIDE DEF S
<1>3. \A n \in Nat : n \in S
  BY <1>1, <1>2, Inductive
<1> QED
  BY <1>3 DEF S

LEMMA SameRounds ==
  ASSUME NEW round, NEW start, NEW m \in Nat, NEW n \in Nat, NEW f, NEW g, m <= n,
         Upto(round, start, m, f), Upto(round, start, n, g)
  PROVE  \A k \in 0..m : f[k] = g[k]
<1> DEFINE S == {k \in Nat : k <= m => f[k] = g[k]}
<1>1. /\ \A k \in 0..m : f[k] = IF k = 0 THEN start ELSE round[f[k - 1]]
      /\ \A k \in 0..n : g[k] = IF k = 0 THEN start ELSE round[g[k - 1]]
  BY DEF Upto
<1>2. 0 \in S
  BY <1>1
<1>3. ASSUME NEW k \in Nat, k \in S PROVE k + 1 \in S
  <2>1. CASE k + 1 <= m
    <3>1. k + 1 \in 0..m /\ k + 1 \in 0..n /\ k + 1 # 0 /\ (k + 1) - 1 = k /\ k <= m
      BY <2>1
    <3>2. f[k] = g[k]
      BY <1>3, <3>1
    <3>3. f[k + 1] = round[f[k]] /\ g[k + 1] = round[g[k]]
      BY <1>1, <3>1
    <3> QED
      BY <3>2, <3>3
  <2> QED
    BY <2>1
<1> HIDE DEF S
<1>4. \A k \in Nat : k \in S
  BY <1>2, <1>3, Inductive
<1> QED
  BY <1>4 DEF S

\* The function that Loop names exists, so it is what its equation says.
Counts(f, round, start) ==
  f = [n \in Nat |-> IF n = 0 THEN start ELSE round[f[n - 1]]]

LEMMA AllRounds ==
  ASSUME NEW round, NEW start
  PROVE  \E f : Counts(f, round, start)
<1> DEFINE part(n) == CHOOSE f : Upto(round, start, n, f)
           F == [n \in Nat |-> part(n)[n]]
<1>1. \A n \in Nat : Upto(round, start, n, part(n))
  BY SomeRounds
<1> HIDE DEF part
<1>2. ASSUME NEW n \in Nat
      PROVE  F[n] = IF n = 0 THEN start ELSE round[F[n - 1]]
  <2>1. n \in 0..n /\ part(n)[n] = IF n = 0 THEN start ELSE round[part(n)[n - 1]]
    BY <1>1 DEF Upto
  <2>2. CASE n = 0
    BY <2>1, <2>2
  <2>3. CASE n # 0
    <3>1. n - 1 \in Nat /\ n - 1 <= n /\ n - 1 \in 0..(n - 1)
      BY <2>3
    <3>2. part(n - 1)[n - 1] = part(n)[n - 1]
      BY <1>1, <3>1, SameRounds
    <3> QED
      BY <2>1, <2>3, <3>1, <3>2
  <2> QED
    BY <2>2, <2>3
<1>3. F = [n \in Nat |-> F[n]]
  OBVIOUS
<1> HIDE DEF F
<1>4. F = [n \in Nat |-> IF n = 0 THEN start ELSE round[F[n - 1]]]
  BY <1>2, <1>3
<1> QED
  BY <1>4 DEF Counts

\* A round keeps the invariant I, makes the measure mu smaller until the loop is
\* done, and leaves what is done alone.
Closes(round, I, Done, mu) ==
  \A y \in I : /\ mu[y] \in Nat /\ round[y] \in I
               /\ y \in Done => round[y] = y
               /\ y \notin Done => mu[round[y]] < mu[y]

\* Such a loop comes to its end, with the invariant.
LEMMA LoopEnds ==
  ASSUME NEW round, NEW start, NEW I, NEW Done, NEW mu, Closes(round, I, Done, mu),
         start \in I, Len0(start.heap) \in Nat, mu[start] <= Len0(start.heap)
  PROVE  Loop(round, start) \in I \cap Done
<1> DEFINE after[n \in Nat] == IF n = 0 THEN start ELSE round[after[n - 1]]
           S == {n \in Nat : /\ after[n] \in I
                             /\ after[n] \in Done \/ mu[after[n]] + n <= mu[start]}
           L == Len0(start.heap)
<1>1. Loop(round, start) = after[L]
  BY DEF Loop
<1>2. after = [n \in Nat |-> IF n = 0 THEN start ELSE round[after[n - 1]]]
  <2>1. after = CHOOSE f : Counts(f, round, start)
    BY DEF Counts
  <2> HIDE DEF after
  <2>2. Counts(after, round, start)
    BY <2>1, AllRounds, Zenon
  <2> QED
    BY <2>2 DEF Counts
<1> HIDE DEF after, L
<1>3. after[0] = start
  BY <1>2
<1>4. \A n \in Nat : after[n + 1] = round[after[n]]
  BY <1>2
<1>5. 0 \in S
  BY <1>3 DEF Closes
<1>6. ASSUME NEW n \in Nat, n \in S PROVE n + 1 \in S
  <2>1. after[n] \in I /\ after[n + 1] \in I /\ mu[after[n]] \in Nat /\ mu[after[n + 1]] \in Nat
    BY <1>4, <1>6 DEF Closes
  <2>2. CASE after[n] \in Done
    BY <1>4, <2>1, <2>2 DEF Closes
  <2>3. CASE after[n] \notin Done
    <3>1. mu[after[n + 1]] < mu[after[n]] /\ mu[after[n]] + n <= mu[start] /\ mu[start] \in Nat
      BY <1>4, <1>6, <2>1, <2>3 DEF Closes
    <3>2. mu[after[n + 1]] + (n + 1) <= mu[start]
      BY <2>1, <3>1
    <3> QED
      BY <2>1, <3>2
  <2> QED
    BY <2>2, <2>3
<1>7. L \in Nat /\ mu[start] <= L /\ mu[start] \in Nat
  BY DEF L, Closes
<1> HIDE DEF S
<1>8. \A n \in Nat : n \in S
  BY <1>5, <1>6, Inductive
<1>9. after[L] \in I /\ (after[L] \in Done \/ mu[after[L]] + L <= mu[start])
  BY <1>7, <1>8 DEF S
<1>10. after[L] \in Done
  <2> SUFFICES ASSUME after[L] \notin Done PROVE FALSE
    OBVIOUS
  <2>1. mu[after[L]] \in Nat /\ mu[round[after[L]]] \in Nat /\ mu[round[after[L]]] < mu[after[L]]
    BY <1>9 DEF Closes
  <2> QED
    BY <1>7, <1>9, <2>1
<1> QED
  BY <1>1, <1>9, <1>10

-----------------------------------------------------------------------------
(* What the loops do to the places                                           *)

Heaps == [q : Seq(Objs), ix : [Objs -> Int]]
Places(h) == 0..(Len0(h) - 1)

\* The place a State remembers is a place where it is.
Placed(h, o) == h.ix[o] \in Places(h) /\ At(h, h.ix[o]) = o
IndexFits(h) == \A o \in Objs : h.ix[o] = -1 \/ Placed(h, o)

Distinct(h) == \A k, l \in Places(h) : At(h, k) = At(h, l) => k = l

\* g has the States of the first n places of h there, in some order, and the
\* others where they were; the index of a State changes only to a right one.
Shuffled(h, g, n) ==
  /\ g \in Heaps /\ Len0(g) = Len0(h)
  /\ \A k \in Places(h) : k >= n => At(g, k) = At(h, k)
  /\ \A k \in 0..(n - 1) : \E l \in 0..(n - 1) : At(g, k) = At(h, l)
  /\ \A k \in 0..(n - 1) : \E l \in 0..(n - 1) : At(h, k) = At(g, l)
  /\ Distinct(h) => Distinct(g)
  /\ \A o \in Objs : Placed(h, o) => Placed(g, o)
  /\ \A o \in Objs : g.ix[o] = h.ix[o] \/ Placed(g, o)

LEMMA HeapType ==
  ASSUME NEW h \in Heaps
  PROVE  /\ Len0(h) \in Nat
         /\ \A k \in Places(h) : At(h, k) \in Objs /\ k + 1 \in 1..Len(h.q)
         /\ h.q = [k \in 1..Len(h.q) |-> h.q[k]]
BY DEF Heaps, Len0, At, Places

LEMMA SwapIs ==
  ASSUME NEW h \in Heaps, NEW i \in Places(h), NEW j \in Places(h)
  PROVE  LET g == Swap(h, i, j)
         IN  /\ g \in Heaps /\ Len0(g) = Len0(h)
             /\ \A k \in Places(h) :
                  At(g, k) = IF k = i THEN At(h, j)
                             ELSE IF k = j THEN At(h, i) ELSE At(h, k)
             /\ \A o \in Objs :
                  g.ix[o] = IF o = At(h, i) THEN j
                            ELSE IF o = At(h, j) THEN i ELSE h.ix[o]
<1> DEFINE r == [h.q EXCEPT ![i + 1] = At(h, j), ![j + 1] = At(h, i)]
           ix == [h.ix EXCEPT ![At(h, j)] = i, ![At(h, i)] = j]
           g == Swap(h, i, j)
<1>1. /\ i + 1 \in 1..Len(h.q) /\ j + 1 \in 1..Len(h.q) /\ At(h, i) \in Objs /\ At(h, j) \in Objs
      /\ h.q \in Seq(Objs) /\ h.ix \in [Objs -> Int] /\ Len(h.q) \in Nat
      /\ i \in Int /\ j \in Int
  <2>1. Len0(h) \in Nat /\ i \in Int /\ j \in Int
    <3>1. Len0(h) \in Nat
      BY HeapType
    <3> QED
      BY <3>1 DEF Places
  <2>2. i + 1 \in 1..Len(h.q) /\ j + 1 \in 1..Len(h.q) /\ At(h, i) \in Objs /\ At(h, j) \in Objs
    BY HeapType
  <2>3. h.q \in Seq(Objs) /\ h.ix \in [Objs -> Int]
    BY DEF Heaps
  <2> QED
    BY <2>1, <2>2, <2>3
<1>2. r \in Seq(Objs) /\ Len(r) = Len(h.q)
  BY <1>1
<1>3. ix \in [Objs -> Int]
  BY <1>1
<1>4. g.q = r /\ g.ix = ix /\ g = [q |-> r, ix |-> ix]
  BY DEF Swap
<1>5. \A k \in 1..Len(h.q) :
        r[k] = IF k = i + 1 THEN (IF j = i THEN At(h, i) ELSE At(h, j))
               ELSE IF k = j + 1 THEN At(h, i) ELSE h.q[k]
  <2> DEFINE q == h.q
             a == At(h, i)
             b == At(h, j)
  <2>1. /\ DOMAIN q = 1..Len(q) /\ i + 1 \in DOMAIN q /\ j + 1 \in DOMAIN q
        /\ r = [q EXCEPT ![i + 1] = b, ![j + 1] = a]
    BY <1>1
  <2>2. i = j => i + 1 = j + 1
    OBVIOUS
  <2>3. i # j => i + 1 # j + 1
    BY <1>1
  <2> HIDE DEF q, a, b, r
  <2>4. \A k \in 1..Len(q) :
          r[k] = IF k = i + 1 THEN (IF j = i THEN a ELSE b)
                 ELSE IF k = j + 1 THEN a ELSE q[k]
    BY <2>1, <2>2, <2>3
  <2> QED
    BY <2>4 DEF q, a, b
<1>6. \A o \in Objs :
        ix[o] = IF o = At(h, i) THEN j ELSE IF o = At(h, j) THEN i ELSE h.ix[o]
  BY <1>1
<1> HIDE DEF r, ix, g
<1>7. \A k \in Places(h) :
        At(g, k) = IF k = i THEN At(h, j) ELSE IF k = j THEN At(h, i) ELSE At(h, k)
  BY <1>1, <1>4, <1>5 DEF At, Places, Len0
<1>8. g \in Heaps /\ Len0(g) = Len0(h)
  BY <1>2, <1>3, <1>4 DEF Heaps, Len0
<1> QED
  BY <1>4, <1>6, <1>7, <1>8 DEF g

LEMMA SameShuffled ==
  ASSUME NEW h \in Heaps, NEW n \in Nat
  PROVE  Shuffled(h, h, n)
BY DEF Shuffled

LEMMA SwapShuffles ==
  ASSUME NEW h \in Heaps, NEW f, NEW n \in Nat, n <= Len0(h), Shuffled(h, f, n),
         NEW i \in 0..(n - 1), NEW j \in 0..(n - 1)
  PROVE  Shuffled(h, Swap(f, i, j), n)
<1> DEFINE g == Swap(f, i, j)
<1>1. /\ f \in Heaps /\ Len0(f) = Len0(h) /\ Places(f) = Places(h) /\ Len0(h) \in Nat
      /\ i \in Places(f) /\ j \in Places(f)
      /\ \A k \in 0..(n - 1) : k \in Places(h)
  <2>1. f \in Heaps /\ Len0(f) = Len0(h) /\ Len0(h) \in Nat
    BY HeapType DEF Shuffled
  <2> QED
    BY <2>1 DEF Places
<1>2. /\ g \in Heaps /\ Len0(g) = Len0(f)
      /\ \A k \in Places(f) :
           At(g, k) = IF k = i THEN At(f, j) ELSE IF k = j THEN At(f, i) ELSE At(f, k)
      /\ \A o \in Objs :
           g.ix[o] = IF o = At(f, i) THEN j ELSE IF o = At(f, j) THEN i ELSE f.ix[o]
  BY <1>1, SwapIs
<1>3. Places(g) = Places(f)
  BY <1>2 DEF Places
<1> HIDE DEF g
<1>4. \A k \in Places(h) : k >= n => At(g, k) = At(h, k)
  <2>1. \A k \in Places(f) : k >= n => k # i /\ k # j
    BY <1>1 DEF Places
  <2> QED
    BY <1>1, <1>2, <2>1 DEF Shuffled
<1>5. ASSUME NEW k \in 0..(n - 1)
      PROVE  /\ \E l \in 0..(n - 1) : At(g, k) = At(h, l)
             /\ \E l \in 0..(n - 1) : At(h, k) = At(g, l)
  <2>1. \E l \in 0..(n - 1) : At(g, k) = At(f, l)
    BY <1>1, <1>2
  <2>2. PICK l \in 0..(n - 1) : At(h, k) = At(f, l)
    BY DEF Shuffled
  <2>3. \E m \in 0..(n - 1) : At(f, l) = At(g, m)
    <3>1. CASE l = i
      BY <1>1, <1>2, <3>1
    <3>2. CASE l = j
      BY <1>1, <1>2, <3>2
    <3>3. CASE l # i /\ l # j
      BY <1>1, <1>2, <3>3
    <3> QED
      BY <3>1, <3>2, <3>3
  <2> QED
    BY <2>1, <2>2, <2>3 DEF Shuffled
<1>6. Distinct(f) => Distinct(g)
  BY <1>1, <1>2, <1>3 DEF Distinct
<1>7. \A o \in Objs : o = At(f, i) \/ o = At(f, j) => Placed(g, o)
  BY <1>1, <1>2, <1>3 DEF Placed
<1>8. \A o \in Objs : o # At(f, i) /\ o # At(f, j) /\ Placed(f, o) => Placed(g, o)
  BY <1>1, <1>2, <1>3 DEF Placed
<1>9. \A o \in Objs : g.ix[o] = f.ix[o] \/ Placed(g, o)
  BY <1>2, <1>7
<1>10. \A o \in Objs : Placed(h, o) => Placed(g, o)
  BY <1>7, <1>8 DEF Shuffled
<1>11. \A o \in Objs : g.ix[o] = h.ix[o] \/ Placed(g, o)
  BY <1>7, <1>8, <1>9 DEF Shuffled
<1> QED
  BY <1>1, <1>2, <1>4, <1>5, <1>6, <1>10, <1>11 DEF Shuffled, g

-----------------------------------------------------------------------------
(* What the loops do to the order                                            *)

Parent(k) == (k - 1) \div 2

LEMMA ParentIs ==
  ASSUME NEW k \in Nat, k # 0
  PROVE  Parent(k) \in Nat /\ Parent(k) < k /\ (k = 2 * Parent(k) + 1 \/ k = 2 * Parent(k) + 2)
BY DEF Parent

\* When the State at place k is due.
Due(h, due, k) == due[At(h, k)]

\* Among the first n places, a State is due no earlier than its parent.
Rising(h, due, k) == Due(h, due, Parent(k)) <= Due(h, due, k)
Ordered(h, due, n) == \A k \in 1..(n - 1) : Rising(h, due, k)

\* Only the State at j may be due before its parent.
NearUp(h, due, j, n) ==
  /\ \A k \in 1..(n - 1) : k # j => Rising(h, due, k)
  /\ \A k \in 1..(n - 1) :
       Parent(k) = j /\ j > 0 => Due(h, due, Parent(j)) <= Due(h, due, k)

\* Swapping two of the first n places swaps when their States are due.
LEMMA DueSwap ==
  ASSUME NEW f \in Heaps, NEW due \in [Objs -> Nat], NEW n \in Nat, n <= Len0(f),
         NEW i \in 0..(n - 1), NEW j \in 0..(n - 1)
  PROVE  /\ \A k \in 0..(n - 1) : Due(f, due, k) \in Nat
         /\ \A k \in 0..(n - 1) :
              Due(Swap(f, i, j), due, k) =
                IF k = i THEN Due(f, due, j)
                ELSE IF k = j THEN Due(f, due, i) ELSE Due(f, due, k)
<1>1. Len0(f) \in Nat
  BY HeapType
<1>2. \A k \in 0..(n - 1) : k \in Places(f)
  BY <1>1 DEF Places
<1>3. \A k \in Places(f) : At(f, k) \in Objs
  BY HeapType
<1> QED
  BY <1>2, <1>3, SwapIs DEF Due

LEMMA UpStep ==
  ASSUME NEW f \in Heaps, NEW due \in [Objs -> Nat], NEW n \in Nat, n <= Len0(f),
         NEW j \in 1..(n - 1), NearUp(f, due, j, n), Due(f, due, j) < Due(f, due, Parent(j))
  PROVE  NearUp(Swap(f, Parent(j), j), due, Parent(j), n)
<1> DEFINE i == Parent(j)
           g == Swap(f, i, j)
<1>1. i \in 0..(n - 1) /\ j \in 0..(n - 1) /\ i < j
  BY ParentIs
<1>2. \A k \in 1..(n - 1) : Parent(k) \in 0..(n - 1) /\ Parent(k) < k /\ k \in 0..(n - 1)
  BY ParentIs
<1> HIDE DEF g
<1>3. /\ \A k \in 0..(n - 1) : Due(f, due, k) \in Nat
      /\ \A k \in 0..(n - 1) :
           Due(g, due, k) = IF k = i THEN Due(f, due, j)
                            ELSE IF k = j THEN Due(f, due, i) ELSE Due(f, due, k)
  BY <1>1, DueSwap DEF g
<1>4. ASSUME NEW k \in 1..(n - 1), k # i PROVE Rising(g, due, k)
  <2>1. CASE k = j
    BY <1>1, <1>3, <2>1 DEF Rising
  <2>2. CASE k # j /\ Parent(k) = j
    <3>1. Due(f, due, i) <= Due(f, due, k)
      BY <1>1, <2>2 DEF NearUp
    <3> QED
      BY <1>1, <1>2, <1>3, <1>4, <2>2, <3>1 DEF Rising
  <2>3. CASE k # j /\ Parent(k) = i
    <3>1. Due(f, due, i) <= Due(f, due, k)
      BY <1>1, <2>3 DEF NearUp, Rising
    <3> QED
      BY <1>1, <1>2, <1>3, <1>4, <2>3, <3>1 DEF Rising
  <2>4. CASE k # j /\ Parent(k) # j /\ Parent(k) # i
    <3>1. Due(f, due, Parent(k)) <= Due(f, due, k)
      BY <1>1, <2>4 DEF NearUp, Rising
    <3> QED
      BY <1>1, <1>2, <1>3, <1>4, <2>4, <3>1 DEF Rising
  <2> QED
    BY <2>1, <2>2, <2>3, <2>4
<1>5. ASSUME NEW k \in 1..(n - 1), Parent(k) = i, i > 0
      PROVE  Due(g, due, Parent(i)) <= Due(g, due, k)
  <2>1. i \in 1..(n - 1) /\ Parent(i) \in 0..(n - 1) /\ Parent(i) < i
    BY <1>1, <1>5, ParentIs
  <2>2. Due(f, due, Parent(i)) <= Due(f, due, i)
    BY <1>1, <2>1 DEF NearUp, Rising
  <2>3. Due(g, due, Parent(i)) = Due(f, due, Parent(i))
    BY <1>1, <1>3, <2>1
  <2>4. CASE k = j
    BY <1>1, <1>3, <2>2, <2>3, <2>4
  <2>5. CASE k # j
    <3>1. Due(f, due, i) <= Due(f, due, k)
      BY <1>5, <2>5 DEF NearUp, Rising
    <3>2. Due(g, due, k) = Due(f, due, k)
      BY <1>2, <1>3, <1>5, <2>5
    <3> QED
      BY <1>2, <1>3, <2>1, <2>2, <2>3, <3>1, <3>2
  <2> QED
    BY <2>4, <2>5
<1> QED
  BY <1>4, <1>5 DEF NearUp, g

LEMMA UpDone ==
  ASSUME NEW g \in Heaps, NEW due \in [Objs -> Nat], NEW n \in Nat, n <= Len0(g),
         NEW j \in 0..(n - 1), NearUp(g, due, j, n),
         j = 0 \/ ~(Due(g, due, j) < Due(g, due, Parent(j)))
  PROVE  Ordered(g, due, n)
<1>1. /\ \A k \in 0..(n - 1) : Due(g, due, k) \in Nat
      /\ j # 0 => Parent(j) \in 0..(n - 1)
  BY DueSwap, ParentIs
<1> QED
  BY <1>1 DEF NearUp, Ordered, Rising

\* container/heap's up: a State that alone may be due before its parent finds
\* its place.
LEMMA SiftUpOrders ==
  ASSUME NEW h \in Heaps, NEW due \in [Objs -> Nat], NEW n \in Nat, n <= Len0(h),
         NEW j \in 0..(n - 1)
  PROVE  /\ Shuffled(h, SiftUp(h, due, j), n)
         /\ NearUp(h, due, j, n) => Ordered(SiftUp(h, due, j), due, n)
<1> DEFINE start == [heap |-> h, at |-> j]
           I == {y \in Cursors :
                   /\ Shuffled(h, y.heap, n) /\ y.at \in 0..(n - 1)
                   /\ NearUp(h, due, j, n) => NearUp(y.heap, due, y.at, n)}
           Done == {y \in Cursors :
                      y.at = 0 \/ ~Less(y.heap, due, y.at, Parent(y.at))}
           mu == [y \in I |-> y.at]
<1>1. start \in I /\ start.heap = h /\ start.at = j
  <2>1. start \in Cursors /\ start.heap = h /\ start.at = j
    BY DEF Cursors, Heaps
  <2>2. Shuffled(h, h, n)
    BY SameShuffled
  <2> HIDE DEF start
  <2> QED
    BY <2>1, <2>2
<1>2. ASSUME NEW y \in I
      PROVE  /\ mu[y] \in Nat /\ UpRound(due)[y] \in I
             /\ y \in Done => UpRound(due)[y] = y
             /\ y \notin Done => mu[UpRound(due)[y]] < mu[y]
  <2> DEFINE f == y.heap
             i == Parent(y.at)
  <2>1. /\ y \in Cursors /\ y.at \in 0..(n - 1) /\ Shuffled(h, f, n)
        /\ NearUp(h, due, j, n) => NearUp(f, due, y.at, n)
    OBVIOUS
  <2>2. UpRound(due)[y] = IF y.at = 0 \/ ~Less(f, due, y.at, i) THEN y
                          ELSE [heap |-> Swap(f, i, y.at), at |-> i]
    BY <2>1 DEF UpRound, Parent
  <2>3. CASE y \in Done
    BY <2>1, <2>2, <2>3
  <2>4. CASE y \notin Done
    <3>1. y.at # 0 /\ Less(f, due, y.at, i) /\ y.at \in 1..(n - 1)
      BY <2>1, <2>4
    <3>2. i \in 0..(n - 1) /\ i < y.at
      BY <3>1, ParentIs
    <3>3. Due(f, due, y.at) < Due(f, due, i)
      BY <3>1 DEF Less, Due
    <3>4. f \in Heaps /\ n <= Len0(f)
      BY <2>1 DEF Shuffled
    <3>5. Shuffled(h, Swap(f, i, y.at), n)
      BY <2>1, <3>2, SwapShuffles
    <3>6. NearUp(h, due, j, n) => NearUp(Swap(f, i, y.at), due, i, n)
      BY <2>1, <3>1, <3>3, <3>4, UpStep
    <3>7. UpRound(due)[y] = [heap |-> Swap(f, i, y.at), at |-> i]
      BY <2>2, <3>1
    <3>8. [heap |-> Swap(f, i, y.at), at |-> i] \in Cursors
      BY <3>2, <3>5 DEF Cursors, Shuffled, Heaps
    <3> HIDE DEF f, i, Done
    <3>9. UpRound(due)[y] \in I
      BY <3>2, <3>5, <3>6, <3>7, <3>8
    <3> QED
      BY <2>1, <2>4, <3>2, <3>7, <3>9
  <2> QED
    BY <2>3, <2>4
<1>3. Len0(h) \in Nat /\ mu[start] <= Len0(h)
  <2>1. Len0(h) \in Nat /\ mu[start] = j
    BY <1>1, HeapType
  <2> QED
    BY <2>1
<1> HIDE DEF I, Done, mu, start
<1>4. Loop(UpRound(due), start) \in I \cap Done
  <2>1. Closes(UpRound(due), I, Done, mu)
    BY <1>2 DEF Closes
  <2>2. start \in I /\ Len0(start.heap) \in Nat /\ mu[start] <= Len0(start.heap)
    BY <1>1, <1>3
  <2> QED
    BY <2>1, <2>2, LoopEnds, Zenon
<1> DEFINE z == Loop(UpRound(due), start)
<1>5. SiftUp(h, due, j) = z.heap
  BY DEF SiftUp, start
<1> HIDE DEF z
<1>6. /\ Shuffled(h, z.heap, n) /\ z.at \in 0..(n - 1)
      /\ NearUp(h, due, j, n) => NearUp(z.heap, due, z.at, n)
      /\ z.at = 0 \/ ~(Due(z.heap, due, z.at) < Due(z.heap, due, Parent(z.at)))
  BY <1>4 DEF z, I, Done, Less, Due
<1>7. z.heap \in Heaps /\ n <= Len0(z.heap)
  BY <1>6 DEF Shuffled
<1> QED
  BY <1>5, <1>6, <1>7, UpDone

\* Only the State at i may be due after its children.  from is where it came from:
\* while it is there its parent may be due later, too.  Places whose parent is
\* before lo do not count.
NearDown(h, due, i, from, lo, n) ==
  /\ \A k \in 1..(n - 1) :
       Parent(k) >= lo /\ Parent(k) # i /\ (k = i => i # from) => Rising(h, due, k)
  /\ \A k \in 1..(n - 1) :
       Parent(k) = i /\ i > 0 /\ Parent(i) >= lo => Due(h, due, Parent(i)) <= Due(h, due, k)

LEMMA LesserChildIs ==
  ASSUME NEW f \in Heaps, NEW due \in [Objs -> Nat], NEW n \in Nat, n <= Len0(f),
         NEW i \in Nat, 2 * i + 1 < n
  PROVE  LET j == LesserChild(f, due, i, n)
         IN  /\ j \in 1..(n - 1) /\ Parent(j) = i
             /\ \A k \in 1..(n - 1) : Parent(k) = i => Due(f, due, j) <= Due(f, due, k)
<1> DEFINE l == 2 * i + 1
           j == LesserChild(f, due, i, n)
<1>1. l \in 1..(n - 1) /\ Parent(l) = i /\ l + 1 \in Nat /\ Parent(l + 1) = i
  BY DEF Parent
<1>2. \A k \in 1..(n - 1) : Parent(k) = i => k = l \/ k = l + 1
  BY ParentIs
<1>3. \A k \in 0..(n - 1) : Due(f, due, k) \in Nat
  <2>1. 0 \in 0..(n - 1)
    OBVIOUS
  <2> QED
    BY <2>1, DueSwap
<1>4. j = IF l + 1 < n /\ Due(f, due, l + 1) < Due(f, due, l) THEN l + 1 ELSE l
  BY DEF LesserChild, Less, Due
<1> HIDE DEF j, l
<1>5. l \in Nat /\ l \in 0..(n - 1)
  BY <1>1
<1>6. j \in 1..(n - 1) /\ Parent(j) = i
  BY <1>1, <1>4, <1>5
<1>7. ASSUME NEW k \in 1..(n - 1), Parent(k) = i PROVE Due(f, due, j) <= Due(f, due, k)
  <2>1. k \in 0..(n - 1) /\ (k = l \/ k = l + 1)
    BY <1>2, <1>7
  <2>2. Due(f, due, k) \in Nat /\ Due(f, due, l) \in Nat
    BY <1>3, <1>5, <2>1
  <2>3. CASE k = l
    <3>1. l + 1 < n => Due(f, due, l + 1) \in Nat
      BY <1>3, <1>5
    <3> QED
      BY <1>4, <2>2, <2>3, <3>1
  <2>4. CASE k = l + 1
    <3>1. l + 1 < n
      BY <1>5, <2>4
    <3>2. CASE Due(f, due, l + 1) < Due(f, due, l)
      BY <1>4, <2>2, <2>4, <3>1, <3>2
    <3>3. CASE ~(Due(f, due, l + 1) < Due(f, due, l))
      BY <1>4, <2>2, <2>4, <3>3
    <3> QED
      BY <3>2, <3>3
  <2> QED
    BY <2>1, <2>3, <2>4
<1> QED
  BY <1>6, <1>7 DEF j

LEMMA DownStep ==
  ASSUME NEW f \in Heaps, NEW due \in [Objs -> Nat], NEW n \in Nat, n <= Len0(f),
         NEW i \in Nat, NEW j \in 1..(n - 1), Parent(j) = i,
         \A k \in 1..(n - 1) : Parent(k) = i => Due(f, due, j) <= Due(f, due, k),
         Due(f, due, j) < Due(f, due, i),
         NEW from \in Nat, NEW lo \in Nat, lo <= from, from <= i,
         NearDown(f, due, i, from, lo, n)
  PROVE  NearDown(Swap(f, i, j), due, j, from, lo, n)
<1> DEFINE g == Swap(f, i, j)
<1>1. i \in 0..(n - 1) /\ j \in 0..(n - 1) /\ i < j
  BY ParentIs
<1>2. \A k \in 1..(n - 1) : Parent(k) \in 0..(n - 1) /\ Parent(k) < k /\ k \in 0..(n - 1)
  BY ParentIs
<1> HIDE DEF g
<1>3. /\ \A k \in 0..(n - 1) : Due(f, due, k) \in Nat
      /\ \A k \in 0..(n - 1) :
           Due(g, due, k) = IF k = i THEN Due(f, due, j)
                            ELSE IF k = j THEN Due(f, due, i) ELSE Due(f, due, k)
  BY <1>1, DueSwap DEF g
<1>4. ASSUME NEW k \in 1..(n - 1), Parent(k) >= lo, Parent(k) # j PROVE Rising(g, due, k)
  <2>1. CASE k = j
    BY <1>1, <1>3, <2>1 DEF Rising
  <2>2. CASE k = i
    <3>1. Due(f, due, Parent(k)) <= Due(f, due, j)
      BY <1>2, <1>4, <2>2 DEF NearDown
    <3> QED
      BY <1>1, <1>2, <1>3, <2>2, <3>1 DEF Rising
  <2>3. CASE k # j /\ Parent(k) = i
    <3>1. Due(f, due, j) <= Due(f, due, k)
      BY <2>3
    <3> QED
      BY <1>1, <1>2, <1>3, <2>3, <3>1 DEF Rising
  <2>4. CASE k # j /\ k # i /\ Parent(k) # i
    <3>1. Due(f, due, Parent(k)) <= Due(f, due, k)
      BY <1>4, <2>4 DEF NearDown, Rising
    <3> QED
      BY <1>1, <1>2, <1>3, <1>4, <2>4, <3>1 DEF Rising
  <2> QED
    BY <2>1, <2>2, <2>3, <2>4
<1>5. ASSUME NEW k \in 1..(n - 1), Parent(k) = j
      PROVE  Due(g, due, Parent(j)) <= Due(g, due, k)
  <2>1. k # j /\ k # i /\ k # from /\ Parent(k) # i
    BY <1>1, <1>2, <1>5
  <2>2. Parent(k) >= lo
    BY <1>1, <1>5
  <2>3. Due(f, due, j) <= Due(f, due, k)
    BY <1>5, <2>1, <2>2 DEF NearDown, Rising
  <2> QED
    BY <1>1, <1>2, <1>3, <2>1, <2>3
<1> QED
  BY <1>4, <1>5 DEF NearDown, g

LEMMA DownDone ==
  ASSUME NEW g \in Heaps, NEW due \in [Objs -> Nat], NEW n \in Nat, n <= Len0(g),
         NEW i \in Nat, NEW from \in Nat, NEW lo \in Nat, NearDown(g, due, i, from, lo, n),
         2 * i + 1 >= n \/ ~(Due(g, due, LesserChild(g, due, i, n)) < Due(g, due, i))
  PROVE  \A k \in 1..(n - 1) : Parent(k) >= lo /\ (k = from => i # from) => Rising(g, due, k)
<1> SUFFICES ASSUME NEW k \in 1..(n - 1), Parent(k) >= lo, k = from => i # from
             PROVE  Rising(g, due, k)
  OBVIOUS
<1>1. CASE Parent(k) = i
  <2> DEFINE j == LesserChild(g, due, i, n)
  <2>1. 2 * i + 1 < n /\ i \in 0..(n - 1)
    <3>1. k \in Nat /\ k # 0 /\ k < n
      OBVIOUS
    <3>2. k = 2 * i + 1 \/ k = 2 * i + 2
      BY <1>1, <3>1, ParentIs
    <3> QED
      BY <3>1, <3>2
  <2>2. j \in 1..(n - 1) /\ Due(g, due, j) <= Due(g, due, k)
    BY <1>1, <2>1, LesserChildIs
  <2>3. Due(g, due, i) \in Nat /\ Due(g, due, j) \in Nat /\ Due(g, due, k) \in Nat
    BY <2>1, <2>2, DueSwap
  <2>4. ~(Due(g, due, j) < Due(g, due, i))
    BY <2>1
  <2> HIDE DEF j
  <2> QED
    BY <1>1, <2>2, <2>3, <2>4 DEF Rising
<1>2. CASE Parent(k) # i
  BY <1>2 DEF NearDown
<1> QED
  BY <1>1, <1>2

\* container/heap's down: a State that alone may be due after its children finds its
\* place below, or stays.
LEMMA SiftDownOrders ==
  ASSUME NEW h \in Heaps, NEW due \in [Objs -> Nat], NEW n \in Nat, n <= Len0(h),
         NEW i \in Nat, NEW lo \in Nat, lo <= i
  PROVE  LET x == SiftDown(h, due, i, n)
         IN  /\ Shuffled(h, x.heap, n) /\ x.at \in Nat /\ i <= x.at
             /\ NearDown(h, due, i, i, lo, n) =>
                  /\ NearDown(x.heap, due, x.at, i, lo, n)
                  /\ \A k \in 1..(n - 1) :
                       Parent(k) >= lo /\ (k = i => x.at # i) => Rising(x.heap, due, k)
<1> DEFINE start == [heap |-> h, at |-> i]
           I == {y \in Cursors :
                   /\ Shuffled(h, y.heap, n) /\ y.at \in Nat /\ i <= y.at
                   /\ NearDown(h, due, i, i, lo, n) => NearDown(y.heap, due, y.at, i, lo, n)}
           Done == {y \in Cursors :
                      2 * y.at + 1 >= n
                        \/ ~Less(y.heap, due, LesserChild(y.heap, due, y.at, n), y.at)}
           mu == [y \in I |-> IF y.at < n THEN n - y.at ELSE 0]
<1>1. start \in I /\ start.heap = h /\ start.at = i
  <2>1. start \in Cursors /\ start.heap = h /\ start.at = i
    BY DEF Cursors, Heaps
  <2>2. Shuffled(h, h, n)
    BY SameShuffled
  <2> HIDE DEF start
  <2> QED
    BY <2>1, <2>2
<1>2. ASSUME NEW y \in I
      PROVE  /\ mu[y] \in Nat /\ DownRound(due, n)[y] \in I
             /\ y \in Done => DownRound(due, n)[y] = y
             /\ y \notin Done => mu[DownRound(due, n)[y]] < mu[y]
  <2> DEFINE f == y.heap
             j == LesserChild(f, due, y.at, n)
  <2>1. /\ y \in Cursors /\ y.at \in Nat /\ i <= y.at /\ Shuffled(h, f, n)
        /\ NearDown(h, due, i, i, lo, n) => NearDown(f, due, y.at, i, lo, n)
    OBVIOUS
  <2>2. DownRound(due, n)[y] =
          IF 2 * y.at + 1 >= n \/ ~Less(f, due, j, y.at) THEN y
          ELSE [heap |-> Swap(f, y.at, j), at |-> j]
    BY <2>1 DEF DownRound
  <2>3. CASE y \in Done
    BY <2>1, <2>2, <2>3
  <2>4. CASE y \notin Done
    <3>1. 2 * y.at + 1 < n /\ Less(f, due, j, y.at)
      BY <2>1, <2>4
    <3>2. f \in Heaps /\ n <= Len0(f)
      BY <2>1 DEF Shuffled
    <3>3. /\ j \in 1..(n - 1) /\ Parent(j) = y.at
          /\ \A k \in 1..(n - 1) : Parent(k) = y.at => Due(f, due, j) <= Due(f, due, k)
      BY <2>1, <3>1, <3>2, LesserChildIs
    <3>4. Due(f, due, j) < Due(f, due, y.at)
      BY <3>1 DEF Less, Due
    <3> HIDE DEF f, j, Done
    <3>5. y.at \in 0..(n - 1) /\ j \in 0..(n - 1) /\ j \in Nat /\ y.at < j /\ j < n
      BY <3>3, ParentIs
    <3>6. Shuffled(h, Swap(f, y.at, j), n)
      BY <2>1, <3>5, SwapShuffles
    <3>7. NearDown(h, due, i, i, lo, n) => NearDown(Swap(f, y.at, j), due, j, i, lo, n)
      BY <2>1, <3>2, <3>3, <3>4, DownStep
    <3>8. DownRound(due, n)[y] = [heap |-> Swap(f, y.at, j), at |-> j]
      BY <2>2, <3>1
    <3>9. [heap |-> Swap(f, y.at, j), at |-> j] \in Cursors
      BY <3>5, <3>6 DEF Cursors, Shuffled, Heaps
    <3>10. DownRound(due, n)[y] \in I
      BY <2>1, <3>5, <3>6, <3>7, <3>8, <3>9
    <3> QED
      BY <2>1, <2>4, <3>5, <3>8, <3>10
  <2> QED
    BY <2>3, <2>4
<1>3. Len0(h) \in Nat /\ mu[start] <= Len0(h)
  <2>1. Len0(h) \in Nat /\ mu[start] = IF i < n THEN n - i ELSE 0
    BY <1>1, HeapType
  <2> QED
    BY <2>1
<1> HIDE DEF I, Done, mu, start
<1>4. Loop(DownRound(due, n), start) \in I \cap Done
  <2>1. Closes(DownRound(due, n), I, Done, mu)
    BY <1>2 DEF Closes
  <2>2. start \in I /\ Len0(start.heap) \in Nat /\ mu[start] <= Len0(start.heap)
    BY <1>1, <1>3
  <2> QED
    BY <2>1, <2>2, LoopEnds, Zenon
<1> DEFINE z == Loop(DownRound(due, n), start)
<1>5. SiftDown(h, due, i, n) = z
  BY DEF SiftDown, start
<1> HIDE DEF z
<1>6. /\ Shuffled(h, z.heap, n) /\ z.at \in Nat /\ i <= z.at
      /\ NearDown(h, due, i, i, lo, n) => NearDown(z.heap, due, z.at, i, lo, n)
      /\ \/ 2 * z.at + 1 >= n
         \/ ~(Due(z.heap, due, LesserChild(z.heap, due, z.at, n)) < Due(z.heap, due, z.at))
  BY <1>4 DEF z, I, Done, Less, Due
<1>7. z.heap \in Heaps /\ n <= Len0(z.heap)
  BY <1>6 DEF Shuffled
<1> QED
  BY <1>5, <1>6, <1>7, DownDone

LEMMA ShuffledTwice ==
  ASSUME NEW h \in Heaps, NEW f, NEW g, NEW n \in Nat, n <= Len0(h),
         Shuffled(h, f, n), Shuffled(f, g, n)
  PROVE  Shuffled(h, g, n)
<1>1. /\ f \in Heaps /\ g \in Heaps /\ Len0(f) = Len0(h) /\ Len0(g) = Len0(h)
      /\ Places(f) = Places(h)
  BY DEF Shuffled, Places
<1>2. \A k \in Places(h) : k >= n => At(g, k) = At(h, k)
  BY <1>1 DEF Shuffled
<1>3. ASSUME NEW k \in 0..(n - 1)
      PROVE  /\ \E l \in 0..(n - 1) : At(g, k) = At(h, l)
             /\ \E l \in 0..(n - 1) : At(h, k) = At(g, l)
  <2>1. PICK l \in 0..(n - 1) : At(g, k) = At(f, l)
    BY DEF Shuffled
  <2>2. PICK m \in 0..(n - 1) : At(h, k) = At(f, m)
    BY DEF Shuffled
  <2>3. \E e \in 0..(n - 1) : At(f, l) = At(h, e)
    BY DEF Shuffled
  <2>4. \E e \in 0..(n - 1) : At(f, m) = At(g, e)
    BY DEF Shuffled
  <2> QED
    BY <2>1, <2>2, <2>3, <2>4
<1>4. \A o \in Objs : Placed(h, o) => Placed(g, o)
  BY DEF Shuffled
<1>5. \A o \in Objs : g.ix[o] = h.ix[o] \/ Placed(g, o)
  BY DEF Shuffled
<1>6. Distinct(h) => Distinct(g)
  BY DEF Shuffled
<1> QED
  BY <1>1, <1>2, <1>3, <1>4, <1>5, <1>6 DEF Shuffled

LEMMA ShuffledMore ==
  ASSUME NEW h \in Heaps, NEW g, NEW n \in Nat, NEW m \in Nat, n <= m, m <= Len0(h),
         Shuffled(h, g, n)
  PROVE  Shuffled(h, g, m)
<1>1. Len0(h) \in Nat
  BY HeapType
<1>2. \A k \in Places(h) : k >= m => At(g, k) = At(h, k)
  <2>1. \A k \in Places(h) : k >= m => k >= n
    BY <1>1 DEF Places
  <2> QED
    BY <2>1 DEF Shuffled
<1>3. ASSUME NEW k \in 0..(m - 1)
      PROVE  /\ \E l \in 0..(m - 1) : At(g, k) = At(h, l)
             /\ \E l \in 0..(m - 1) : At(h, k) = At(g, l)
  <2>1. CASE k < n
    <3>1. k \in 0..(n - 1) /\ \A l \in 0..(n - 1) : l \in 0..(m - 1)
      BY <2>1
    <3> QED
      BY <3>1 DEF Shuffled
  <2>2. CASE ~(k < n)
    <3>1. k \in Places(h) /\ k >= n
      BY <1>1, <2>2 DEF Places
    <3> QED
      BY <3>1 DEF Shuffled
  <2> QED
    BY <2>1, <2>2
<1> QED
  BY <1>2, <1>3 DEF Shuffled

\* container/heap's Fix, but for the length: a State that alone may be out of order.
LEMMA SettleOrders ==
  ASSUME NEW h \in Heaps, NEW due \in [Objs -> Nat], NEW n \in Nat, n <= Len0(h),
         NEW i \in 0..(n - 1)
  PROVE  /\ Shuffled(h, Settle(h, due, i, n), n)
         /\ NearDown(h, due, i, i, 0, n) => Ordered(Settle(h, due, i, n), due, n)
<1> DEFINE x == SiftDown(h, due, i, n)
           g == SiftUp(x.heap, due, i)
<1>1. i \in Nat /\ \A k \in 1..(n - 1) : Parent(k) >= 0
  BY ParentIs
<1>2. /\ Shuffled(h, x.heap, n) /\ x.at \in Nat /\ i <= x.at
      /\ NearDown(h, due, i, i, 0, n) =>
           /\ NearDown(x.heap, due, x.at, i, 0, n)
           /\ \A k \in 1..(n - 1) :
                Parent(k) >= 0 /\ (k = i => x.at # i) => Rising(x.heap, due, k)
  BY <1>1, SiftDownOrders
<1>3. Settle(h, due, i, n) = IF x.at > i THEN x.heap ELSE g
  BY DEF Settle
<1>4. x.heap \in Heaps /\ n <= Len0(x.heap)
  BY <1>2 DEF Shuffled
<1>5. /\ Shuffled(x.heap, g, n)
      /\ NearUp(x.heap, due, i, n) => Ordered(g, due, n)
  BY <1>4, SiftUpOrders
<1> HIDE DEF x, g
<1>6. Shuffled(h, g, n)
  BY <1>2, <1>5, ShuffledTwice
<1>7. ASSUME NearDown(h, due, i, i, 0, n) PROVE Ordered(Settle(h, due, i, n), due, n)
  <2>1. CASE x.at > i
    BY <1>1, <1>2, <1>3, <1>7, <2>1 DEF Ordered
  <2>2. CASE x.at = i
    <3>1. \A k \in 1..(n - 1) : k # i => Rising(x.heap, due, k)
      BY <1>1, <1>2, <1>7
    <3>2. i > 0 => Parent(i) >= 0
      BY ParentIs
    <3>3. NearUp(x.heap, due, i, n)
      BY <1>2, <1>7, <2>2, <3>1, <3>2 DEF NearDown, NearUp
    <3> QED
      BY <1>3, <1>5, <2>2, <3>3
  <2> QED
    BY <1>1, <1>2, <2>1, <2>2
<1> QED
  BY <1>2, <1>3, <1>6, <1>7

\* container/heap's Init puts any slice in order.
LEMMA InitOrders ==
  ASSUME NEW h \in Heaps, NEW due \in [Objs -> Nat]
  PROVE  /\ Shuffled(h, HeapInit(h, due), Len0(h))
         /\ Ordered(HeapInit(h, due), due, Len0(h))
<1> DEFINE n == Len0(h)
           start == [heap |-> h, at |-> n \div 2 - 1]
           I == {y \in Cursors :
                   /\ Shuffled(h, y.heap, n) /\ y.at >= -1 /\ y.at < n
                   /\ \A k \in 1..(n - 1) : Parent(k) > y.at => Rising(y.heap, due, k)}
           Done == {y \in Cursors : y.at < 0}
           mu == [y \in I |-> y.at + 1]
<1>1. n \in Nat
  BY HeapType
<1>2. start \in I /\ start.heap = h /\ start.at = n \div 2 - 1
  <2>1. start.heap = h /\ start.at = n \div 2 - 1
    OBVIOUS
  <2>2. start.at \in Int /\ start.at >= -1 /\ (n > 0 => start.at < n)
    BY <1>1
  <2>3. start \in Cursors
    BY <1>1 DEF Cursors, Heaps
  <2>4. start.at < n
    BY <1>1
  <2>5. \A k \in 1..(n - 1) : ~(Parent(k) > start.at)
    BY <1>1, <2>1 DEF Parent
  <2>6. Shuffled(h, h, n)
    BY <1>1, SameShuffled
  <2> HIDE DEF start, n
  <2> QED
    BY <2>1, <2>2, <2>3, <2>4, <2>5, <2>6
<1> HIDE DEF n
<1>3. ASSUME NEW y \in I
      PROVE  /\ mu[y] \in Nat /\ BuildRound(due)[y] \in I
             /\ y \in Done => BuildRound(due)[y] = y
             /\ y \notin Done => mu[BuildRound(due)[y]] < mu[y]
  <2> DEFINE f == y.heap
             x == SiftDown(f, due, y.at, Len0(f))
  <2>1. /\ y \in Cursors /\ y.at \in Int /\ y.at >= -1 /\ y.at < n /\ Shuffled(h, f, n)
        /\ \A k \in 1..(n - 1) : Parent(k) > y.at => Rising(f, due, k)
    BY DEF Cursors
  <2>2. BuildRound(due)[y] = IF y.at < 0 THEN y ELSE [heap |-> x.heap, at |-> y.at - 1]
    BY <2>1 DEF BuildRound
  <2>3. CASE y \in Done
    BY <2>1, <2>2, <2>3
  <2>4. CASE y \notin Done
    <3>1. y.at \in Nat
      BY <2>1, <2>4
    <3>2. f \in Heaps /\ Len0(f) = n
      BY <2>1 DEF Shuffled, n
    <3>3. \A k \in 1..(n - 1) : Parent(k) \in Nat /\ Parent(k) < k
      BY <1>1, ParentIs
    <3>4. NearDown(f, due, y.at, y.at, y.at, n)
      <4>1. \A k \in 1..(n - 1) :
              Parent(k) >= y.at /\ Parent(k) # y.at /\ (k = y.at => y.at # y.at)
                => Rising(f, due, k)
        BY <2>1, <3>1, <3>3
      <4>2. y.at > 0 => ~(Parent(y.at) >= y.at)
        BY <3>1, ParentIs
      <4> QED
        BY <4>1, <4>2 DEF NearDown
    <3>5. /\ Shuffled(f, x.heap, n)
          /\ \A k \in 1..(n - 1) :
               Parent(k) >= y.at /\ (k = y.at => x.at # y.at) => Rising(x.heap, due, k)
      BY <1>1, <3>1, <3>2, <3>4, SiftDownOrders
    <3>6. \A k \in 1..(n - 1) : Parent(k) > y.at - 1 => Rising(x.heap, due, k)
      BY <3>1, <3>3, <3>5
    <3>7. Shuffled(h, x.heap, n)
      BY <1>1, <2>1, <3>5, ShuffledTwice DEF n
    <3>8. BuildRound(due)[y] = [heap |-> x.heap, at |-> y.at - 1]
      BY <2>2, <3>1
    <3>9. [heap |-> x.heap, at |-> y.at - 1] \in Cursors
      BY <3>1, <3>7 DEF Cursors, Shuffled, Heaps
    <3> HIDE DEF x, f
    <3>10. BuildRound(due)[y] \in I
      BY <1>1, <2>1, <3>1, <3>6, <3>7, <3>8, <3>9
    <3> QED
      BY <2>1, <2>4, <3>1, <3>8, <3>10
  <2> QED
    BY <2>3, <2>4
<1>4. mu[start] <= n
  BY <1>1, <1>2
<1> HIDE DEF I, Done, mu, start
<1>5. Loop(BuildRound(due), start) \in I \cap Done
  <2>1. Closes(BuildRound(due), I, Done, mu)
    BY <1>3 DEF Closes
  <2>2. Len0(start.heap) = n
    BY <1>2 DEF n
  <2>3. start \in I /\ Len0(start.heap) \in Nat /\ mu[start] <= Len0(start.heap)
    BY <1>1, <1>2, <1>4, <2>2
  <2> QED
    BY <2>1, <2>3, LoopEnds, Zenon
<1> DEFINE z == Loop(BuildRound(due), start)
<1>6. HeapInit(h, due) = z.heap
  BY DEF HeapInit, start, n
<1> HIDE DEF z
<1>7. /\ Shuffled(h, z.heap, n) /\ z.at < 0 /\ z.at \in Int
      /\ \A k \in 1..(n - 1) : Parent(k) > z.at => Rising(z.heap, due, k)
  BY <1>5 DEF z, I, Done, Cursors
<1>8. \A k \in 1..(n - 1) : Parent(k) \in Nat
  BY <1>1, ParentIs
<1> QED
  BY <1>6, <1>7, <1>8 DEF Ordered, n

\* In an ordered heap the head is due first.
LEMMA HeadFirst ==
  ASSUME NEW h \in Heaps, NEW due \in [Objs -> Nat], Ordered(h, due, Len0(h))
  PROVE  \A k \in Places(h) : Due(h, due, 0) <= Due(h, due, k)
<1> DEFINE n == Len0(h)
           S == {k \in 0..(n - 1) : ~(Due(h, due, 0) <= Due(h, due, k))}
<1>1. n \in Nat /\ Places(h) = 0..(n - 1)
  BY HeapType DEF Places
<1>2. \A k \in 0..(n - 1) : Due(h, due, k) \in Nat
  BY <1>1, HeapType DEF Due
<1> SUFFICES ASSUME S # {} PROVE FALSE
  BY <1>1
<1>3. PICK m \in S : \A k \in S : m <= k
  <2>1. S \in SUBSET Nat
    BY <1>1
  <2> HIDE DEF S
  <2> QED
    BY <2>1, Smallest
<1>4. m # 0 /\ m \in 1..(n - 1)
  BY <1>1, <1>2, <1>3
<1>5. Parent(m) \in 0..(n - 1) /\ Parent(m) < m
  BY <1>1, <1>4, ParentIs
<1>6. Parent(m) \notin S
  BY <1>3, <1>5
<1>7. Due(h, due, Parent(m)) <= Due(h, due, m)
  BY <1>4 DEF Ordered, Rising
<1>8. 0 \in 0..(n - 1)
  BY <1>1, <1>4
<1> QED
  BY <1>2, <1>3, <1>5, <1>6, <1>7, <1>8

-----------------------------------------------------------------------------
(* What Push, Pop, Fix and Remove promise                                    *)

Holds(h, o) == \E k \in Places(h) : At(h, k) = o
InOrder(h, due) == Ordered(h, due, Len0(h))

LEMMA HoldsIs ==
  ASSUME NEW h \in Heaps
  PROVE  ToSet(h.q) = {o \in Objs : Holds(h, o)}
<1>1. /\ Len(h.q) \in Nat /\ DOMAIN h.q = 1..Len(h.q)
      /\ \A k \in 1..Len(h.q) : h.q[k] \in Objs /\ k - 1 \in Places(h) /\ (k - 1) + 1 = k
      /\ \A k \in Places(h) : k + 1 \in 1..Len(h.q)
  <2>1. h.q \in Seq(Objs)
    BY DEF Heaps
  <2> QED
    BY <2>1 DEF Places, Len0
<1>2. ToSet(h.q) = {h.q[k] : k \in 1..Len(h.q)}
  BY <1>1 DEF ToSet
<1>3. \A o \in ToSet(h.q) : o \in Objs /\ Holds(h, o)
  <2> SUFFICES ASSUME NEW o \in ToSet(h.q) PROVE o \in Objs /\ Holds(h, o)
    OBVIOUS
  <2>1. PICK k \in 1..Len(h.q) : h.q[k] = o
    BY <1>2
  <2>2. k - 1 \in Places(h) /\ At(h, k - 1) = o
    BY <1>1, <2>1 DEF At
  <2> QED
    BY <1>1, <2>1, <2>2 DEF Holds
<1>4. \A o \in Objs : Holds(h, o) => o \in ToSet(h.q)
  BY <1>1, <1>2 DEF Holds, At
<1> QED
  BY <1>3, <1>4

\* Shuffling all of a heap.
LEMMA ShuffledAll ==
  ASSUME NEW h \in Heaps, NEW g, Shuffled(h, g, Len0(h))
  PROVE  /\ \A o : Holds(g, o) <=> Holds(h, o)
         /\ \A o \in Objs : Placed(h, o) => Placed(g, o)
         /\ IndexFits(h) => IndexFits(g)
         /\ Distinct(h) => Distinct(g)
         /\ g \in Heaps /\ Len0(g) = Len0(h)
<1>1. Places(h) = 0..(Len0(h) - 1) /\ Places(g) = 0..(Len0(h) - 1)
  BY DEF Shuffled, Places
<1>2. ASSUME NEW o PROVE Holds(g, o) <=> Holds(h, o)
  <2>1. ASSUME NEW k \in Places(g), At(g, k) = o PROVE Holds(h, o)
    <3>1. PICK l \in 0..(Len0(h) - 1) : At(g, k) = At(h, l)
      BY <1>1 DEF Shuffled
    <3> QED
      BY <1>1, <2>1, <3>1 DEF Holds
  <2>2. ASSUME NEW k \in Places(h), At(h, k) = o PROVE Holds(g, o)
    <3>1. PICK l \in 0..(Len0(h) - 1) : At(h, k) = At(g, l)
      BY <1>1 DEF Shuffled
    <3> QED
      BY <1>1, <2>2, <3>1 DEF Holds
  <2> QED
    BY <2>1, <2>2 DEF Holds
<1>3. IndexFits(h) => IndexFits(g)
  <2> SUFFICES ASSUME IndexFits(h), NEW o \in Objs PROVE g.ix[o] = -1 \/ Placed(g, o)
    BY DEF IndexFits
  <2>1. g.ix[o] = h.ix[o] \/ Placed(g, o)
    BY DEF Shuffled
  <2>2. h.ix[o] = -1 \/ Placed(h, o)
    BY DEF IndexFits
  <2>3. Placed(h, o) => Placed(g, o)
    BY DEF Shuffled
  <2> QED
    BY <2>1, <2>2, <2>3
<1> QED
  BY <1>2, <1>3 DEF Shuffled

LEMMA AppendIs ==
  ASSUME NEW h \in Heaps, NEW o \in Objs
  PROVE  LET f == AppendState(h, o)
         IN  /\ f \in Heaps /\ Len0(f) = Len0(h) + 1
             /\ \A k \in Places(h) : At(f, k) = At(h, k)
             /\ At(f, Len0(h)) = o
             /\ \A p \in Objs : f.ix[p] = IF p = o THEN Len0(h) ELSE h.ix[p]
<1> DEFINE f == AppendState(h, o)
<1>1. h.q \in Seq(Objs) /\ h.ix \in [Objs -> Int] /\ Len(h.q) \in Nat /\ Len0(h) = Len(h.q)
  BY DEF Heaps, Len0
<1>2. f.q = Append(h.q, o) /\ f.ix = [h.ix EXCEPT ![o] = Len(h.q)] /\ f = [q |-> f.q, ix |-> f.ix]
  BY <1>1 DEF AppendState
<1> HIDE DEF f
<1>3. f \in Heaps
  <2>1. f.q \in Seq(Objs)
    BY <1>1, <1>2
  <2>2. f.ix \in [Objs -> Int]
    BY <1>1, <1>2
  <2> QED
    BY <1>2, <2>1, <2>2 DEF Heaps
<1>4. Len(f.q) = Len(h.q) + 1
  BY <1>1, <1>2
<1>5. \A k \in 1..Len(h.q) : f.q[k] = h.q[k]
  BY <1>1, <1>2
<1>6. f.q[Len(h.q) + 1] = o
  BY <1>1, <1>2
<1>7. \A k \in Places(h) : k + 1 \in 1..Len(h.q)
  BY HeapType
<1>8. \A p \in Objs : f.ix[p] = IF p = o THEN Len(h.q) ELSE h.ix[p]
  BY <1>1, <1>2
<1> QED
  BY <1>1, <1>3, <1>4, <1>5, <1>6, <1>7, <1>8 DEF Len0, At, f

LEMMA PushIs ==
  ASSUME NEW h \in Heaps, NEW due \in [Objs -> Nat], NEW o \in Objs
  PROVE  LET g == HeapPush(h, due, o)
         IN  /\ g \in Heaps /\ Len0(g) = Len0(h) + 1
             /\ \A p : Holds(g, p) <=> Holds(h, p) \/ p = o
             /\ Distinct(h) /\ ~Holds(h, o) => Distinct(g)
             /\ Placed(g, o) /\ \A p \in Objs : Placed(h, p) => Placed(g, p)
             /\ IndexFits(h) => IndexFits(g)
             /\ InOrder(h, due) => InOrder(g, due)
<1> DEFINE f == AppendState(h, o)
           g == HeapPush(h, due, o)
           n == Len0(h)
<1>1. /\ f \in Heaps /\ Len0(f) = n + 1 /\ n \in Nat
      /\ \A k \in Places(h) : At(f, k) = At(h, k)
      /\ At(f, n) = o
      /\ \A p \in Objs : f.ix[p] = IF p = o THEN n ELSE h.ix[p]
  <2>1. n \in Nat
    BY HeapType
  <2> QED
    BY <2>1, AppendIs
<1>2. g = SiftUp(f, due, n)
  BY DEF HeapPush
<1> HIDE DEF f, g, n
<1>3. Places(h) = 0..(n - 1) /\ Places(f) = 0..n /\ n \in Places(f)
  BY <1>1 DEF Places, n
<1>4. Shuffled(f, g, n + 1) /\ (NearUp(f, due, n, n + 1) => Ordered(g, due, n + 1))
  BY <1>1, <1>2, SiftUpOrders
<1>5. \A p : Holds(f, p) <=> Holds(h, p) \/ p = o
  BY <1>1, <1>3 DEF Holds
<1>6. Distinct(h) /\ ~Holds(h, o) => Distinct(f)
  BY <1>1, <1>3 DEF Distinct, Holds
<1>7. Placed(f, o)
  BY <1>1, <1>3 DEF Placed
<1>8. \A p \in Objs : Placed(h, p) => Placed(f, p)
  BY <1>1, <1>3, <1>7 DEF Placed
<1>9. IndexFits(h) => IndexFits(f)
  BY <1>1, <1>7, <1>8 DEF IndexFits
<1>10. InOrder(h, due) => NearUp(f, due, n, n + 1)
  <2> SUFFICES ASSUME InOrder(h, due) PROVE NearUp(f, due, n, n + 1)
    OBVIOUS
  <2>1. \A k \in 1..n : Parent(k) \in Nat /\ Parent(k) < k
    BY <1>1, ParentIs
  <2>2. ASSUME NEW k \in 1..n, k # n PROVE Rising(f, due, k)
    <3>1. k \in 1..(n - 1) /\ k \in Places(h) /\ Parent(k) \in Places(h)
      BY <1>1, <1>3, <2>1, <2>2
    <3>2. Rising(h, due, k)
      BY <3>1 DEF InOrder, Ordered, n
    <3> QED
      BY <1>1, <3>1, <3>2 DEF Rising, Due
  <2>3. \A k \in 1..n : Parent(k) # n
    BY <1>1, <2>1
  <2>4. (n + 1) - 1 = n
    BY <1>1
  <2> QED
    BY <2>2, <2>3, <2>4 DEF NearUp
<1>11. /\ \A p : Holds(g, p) <=> Holds(f, p)
       /\ \A p \in Objs : Placed(f, p) => Placed(g, p)
       /\ IndexFits(f) => IndexFits(g)
       /\ Distinct(f) => Distinct(g)
       /\ g \in Heaps /\ Len0(g) = n + 1
  BY <1>1, <1>4, ShuffledAll
<1>12. InOrder(h, due) => InOrder(g, due)
  BY <1>4, <1>10, <1>11 DEF InOrder
<1> QED
  BY <1>5, <1>6, <1>7, <1>8, <1>9, <1>11, <1>12 DEF g, n

LEMMA FixIs ==
  ASSUME NEW h \in Heaps, NEW due \in [Objs -> Nat], NEW i \in Places(h)
  PROVE  LET g == HeapFix(h, due, i)
         IN  /\ g \in Heaps /\ Len0(g) = Len0(h)
             /\ \A p : Holds(g, p) <=> Holds(h, p)
             /\ Distinct(h) => Distinct(g)
             /\ \A p \in Objs : Placed(h, p) => Placed(g, p)
             /\ IndexFits(h) => IndexFits(g)
             /\ NearDown(h, due, i, i, 0, Len0(h)) => InOrder(g, due)
<1> DEFINE g == HeapFix(h, due, i)
<1>1. Len0(h) \in Nat /\ i \in 0..(Len0(h) - 1)
  BY HeapType DEF Places
<1>2. /\ Shuffled(h, g, Len0(h))
      /\ NearDown(h, due, i, i, 0, Len0(h)) => Ordered(g, due, Len0(h))
  BY <1>1, SettleOrders DEF HeapFix
<1> HIDE DEF g
<1>3. /\ \A p : Holds(g, p) <=> Holds(h, p)
      /\ \A p \in Objs : Placed(h, p) => Placed(g, p)
      /\ IndexFits(h) => IndexFits(g)
      /\ Distinct(h) => Distinct(g)
      /\ g \in Heaps /\ Len0(g) = Len0(h)
  BY <1>2, ShuffledAll
<1> QED
  BY <1>2, <1>3 DEF InOrder, g

LEMMA DropIs ==
  ASSUME NEW f \in Heaps, Len0(f) > 0
  PROVE  LET g == DropLast(f)
             n == Len0(f) - 1
         IN  /\ g \in Heaps /\ Len0(g) = n
             /\ \A k \in 0..(n - 1) : At(g, k) = At(f, k)
             /\ \A p \in Objs : g.ix[p] = IF p = At(f, n) THEN -1 ELSE f.ix[p]
<1> DEFINE g == DropLast(f)
           n == Len0(f) - 1
<1>1. /\ f.q \in Seq(Objs) /\ f.ix \in [Objs -> Int] /\ Len(f.q) \in Nat /\ Len(f.q) > 0
      /\ n = Len(f.q) - 1 /\ At(f, n) = f.q[Len(f.q)]
  BY DEF Heaps, Len0, At
<1>2. /\ g.q = SubSeq(f.q, 1, n) /\ g.ix = [f.ix EXCEPT ![f.q[Len(f.q)]] = -1]
      /\ g = [q |-> g.q, ix |-> g.ix]
  BY <1>1 DEF DropLast, Front, Last
<1> HIDE DEF g, n
<1>3. n \in Nat /\ n <= Len(f.q)
  BY <1>1
<1>4. g.q \in Seq(Objs) /\ Len(g.q) = n /\ \A k \in 1..n : g.q[k] = f.q[k]
  BY <1>1, <1>2, <1>3
<1>5. g.ix \in [Objs -> Int]
  BY <1>1, <1>2
<1>6. \A p \in Objs : g.ix[p] = IF p = f.q[Len(f.q)] THEN -1 ELSE f.ix[p]
  BY <1>1, <1>2
<1>7. g \in Heaps
  BY <1>2, <1>4, <1>5 DEF Heaps
<1>8. \A k \in 0..(n - 1) : At(g, k) = At(f, k)
  BY <1>3, <1>4 DEF At
<1> QED
  BY <1>1, <1>4, <1>6, <1>7, <1>8 DEF Len0, g, n

\* Remove and Pop shuffle a heap until the State to take out is last, and drop it.
LEMMA TakeOutIs ==
  ASSUME NEW h \in Heaps, NEW due \in [Objs -> Nat], NEW f, NEW o \in Objs, Len0(h) > 0,
         Shuffled(h, f, Len0(h)), At(f, Len0(h) - 1) = o
  PROVE  LET g == DropLast(f)
         IN  /\ g \in Heaps /\ Len0(g) = Len0(h) - 1
             /\ \A p : Holds(g, p) => Holds(h, p)
             /\ \A p : p # o /\ Holds(h, p) => Holds(g, p)
             /\ Distinct(h) => Distinct(g) /\ ~Holds(g, o)
             /\ \A p \in Objs : p # o /\ Placed(h, p) => Placed(g, p)
             /\ IndexFits(h) => IndexFits(g)
             /\ Ordered(f, due, Len0(h) - 1) => InOrder(g, due)
<1> DEFINE g == DropLast(f)
           n == Len0(h) - 1
<1>1. /\ \A p : Holds(f, p) <=> Holds(h, p)
      /\ \A p \in Objs : Placed(h, p) => Placed(f, p)
      /\ IndexFits(h) => IndexFits(f)
      /\ Distinct(h) => Distinct(f)
      /\ f \in Heaps /\ Len0(f) = Len0(h)
  BY ShuffledAll
<1>2. Len0(h) \in Nat /\ n \in Nat
  <2>1. Len0(h) \in Nat
    BY HeapType
  <2> QED
    BY <2>1
<1>3. /\ g \in Heaps /\ Len0(g) = n
      /\ \A k \in 0..(n - 1) : At(g, k) = At(f, k)
      /\ \A p \in Objs : g.ix[p] = IF p = o THEN -1 ELSE f.ix[p]
  BY <1>1, DropIs
<1>4. At(f, n) = o
  OBVIOUS
<1> HIDE DEF g
<1>5. Places(f) = 0..n /\ Places(g) = 0..(n - 1) /\ \A k \in Places(f) : k \in Places(g) \/ k = n
  BY <1>1, <1>2, <1>3 DEF Places
<1>6. \A k \in Places(g) : k \in Places(f) /\ k # n
  BY <1>2, <1>5
<1> HIDE DEF n
<1>7. \A p : Holds(g, p) => Holds(f, p)
  BY <1>3, <1>5, <1>6 DEF Holds
<1>8. \A p : p # o /\ Holds(f, p) => Holds(g, p)
  BY <1>3, <1>4, <1>5 DEF Holds
<1>9. Distinct(f) => Distinct(g) /\ ~Holds(g, o)
  <2> SUFFICES ASSUME Distinct(f) PROVE Distinct(g) /\ ~Holds(g, o)
    OBVIOUS
  <2>1. n \in Places(f)
    BY <1>2, <1>5
  <2>2. Distinct(g)
    BY <1>3, <1>5, <1>6 DEF Distinct
  <2>3. ~Holds(g, o)
    BY <1>3, <1>4, <1>5, <1>6, <2>1 DEF Distinct, Holds
  <2> QED
    BY <2>2, <2>3
<1>10. \A p \in Objs : p # o /\ Placed(f, p) => Placed(g, p)
  BY <1>3, <1>4, <1>5 DEF Placed
<1>11. IndexFits(f) => IndexFits(g)
  BY <1>3, <1>10 DEF IndexFits
<1>12. Ordered(f, due, n) => InOrder(g, due)
  <2> SUFFICES ASSUME Ordered(f, due, n), NEW k \in 1..(n - 1) PROVE Rising(g, due, k)
    BY <1>3 DEF InOrder, Ordered
  <2>1. Parent(k) \in 0..(n - 1) /\ k \in 0..(n - 1)
    BY <1>2, ParentIs
  <2> QED
    BY <1>3, <2>1 DEF Ordered, Rising, Due
<1> QED
  BY <1>1, <1>3, <1>7, <1>8, <1>9, <1>10, <1>11, <1>12 DEF g, n

\* With the last State in its place, only that place may be out of order.
LEMMA LastForFirst ==
  ASSUME NEW h \in Heaps, NEW due \in [Objs -> Nat], InOrder(h, due), NEW i \in Places(h)
  PROVE  LET n == Len0(h) - 1
         IN  NearDown(Swap(h, i, n), due, i, i, 0, n)
<1> DEFINE n == Len0(h) - 1
           f == Swap(h, i, n)
<1>1. Len0(h) \in Nat /\ n \in Nat /\ i \in 0..n /\ n \in 0..n /\ n + 1 = Len0(h)
  <2>1. Len0(h) \in Nat
    BY HeapType
  <2> QED
    BY <2>1 DEF Places
<1> HIDE DEF n, f
<1>2. /\ \A k \in 0..n : Due(h, due, k) \in Nat
      /\ \A k \in 0..n : Due(f, due, k) =
           IF k = i THEN Due(h, due, n) ELSE IF k = n THEN Due(h, due, i) ELSE Due(h, due, k)
  <2>1. n + 1 \in Nat /\ n + 1 <= Len0(h) /\ (n + 1) - 1 = n
    BY <1>1
  <2> QED
    BY <1>1, <2>1, DueSwap DEF f
<1>3. \A k \in 1..n : Due(h, due, Parent(k)) <= Due(h, due, k)
  BY <1>1 DEF InOrder, Ordered, Rising
<1>4. \A k \in 1..n : Parent(k) \in 0..(n - 1) /\ Parent(k) < k
  BY <1>1, ParentIs
<1>5. ASSUME NEW k \in 1..(n - 1), Parent(k) # i, k # i PROVE Rising(f, due, k)
  BY <1>1, <1>2, <1>3, <1>4, <1>5 DEF Rising
<1>6. ASSUME NEW k \in 1..(n - 1), Parent(k) = i, i > 0
      PROVE  Due(f, due, Parent(i)) <= Due(f, due, k)
  <2>1. i \in 1..n /\ k \in 1..n /\ k # i /\ k # n /\ Parent(i) # i /\ Parent(i) # n
    BY <1>1, <1>4, <1>6
  <2>2. Parent(i) \in 0..n /\ k \in 0..n /\ i \in 0..n
    BY <1>1, <1>4, <2>1
  <2>3. Due(f, due, Parent(i)) = Due(h, due, Parent(i)) /\ Due(f, due, k) = Due(h, due, k)
    BY <1>2, <2>1, <2>2
  <2>4. Due(h, due, Parent(i)) <= Due(h, due, i) /\ Due(h, due, i) <= Due(h, due, k)
    BY <1>3, <1>6, <2>1
  <2> QED
    BY <1>2, <2>2, <2>3, <2>4
<1> QED
  BY <1>5, <1>6 DEF NearDown, n, f

\* A State's nextDue was changed in place: only its place may be out of order.
LEMMA ChangedInPlace ==
  ASSUME NEW h \in Heaps, NEW due \in [Objs -> Nat], NEW new \in [Objs -> Nat],
         InOrder(h, due), Distinct(h), NEW i \in Places(h),
         \A p \in Objs \ {At(h, i)} : new[p] = due[p]
  PROVE  NearDown(h, new, i, i, 0, Len0(h))
<1> DEFINE n == Len0(h)
<1>1. n \in Nat /\ i \in 0..(n - 1) /\ Places(h) = 0..(n - 1)
  BY HeapType DEF Places
<1>2. \A k \in Places(h) : At(h, k) \in Objs
  BY HeapType
<1>3. \A k \in Places(h) : k # i => Due(h, new, k) = Due(h, due, k)
  BY <1>2 DEF Distinct, Due
<1>4. \A k \in Places(h) : Due(h, due, k) \in Nat
  BY <1>2 DEF Due
<1>5. \A k \in 1..(n - 1) : Due(h, due, Parent(k)) <= Due(h, due, k)
  BY DEF InOrder, Ordered, Rising
<1> HIDE DEF n
<1>6. \A k \in 1..(n - 1) : Parent(k) \in Places(h) /\ Parent(k) < k /\ k \in Places(h)
  BY <1>1, ParentIs
<1>7. ASSUME NEW k \in 1..(n - 1), Parent(k) # i, k # i PROVE Rising(h, new, k)
  BY <1>3, <1>5, <1>6, <1>7 DEF Rising
<1>8. ASSUME NEW k \in 1..(n - 1), Parent(k) = i, i > 0
      PROVE  Due(h, new, Parent(i)) <= Due(h, new, k)
  <2>1. i \in 1..(n - 1) /\ k # i /\ Parent(i) # i
    BY <1>1, <1>6, <1>8
  <2>2. Due(h, due, Parent(i)) <= Due(h, due, i) /\ Due(h, due, i) <= Due(h, due, k)
    BY <1>5, <1>8, <2>1
  <2>3. Parent(i) \in Places(h) /\ k \in Places(h)
    BY <1>6, <2>1
  <2>4. /\ Due(h, new, Parent(i)) = Due(h, due, Parent(i)) /\ Due(h, new, k) = Due(h, due, k)
        /\ Due(h, due, Parent(i)) \in Nat /\ Due(h, due, i) \in Nat /\ Due(h, due, k) \in Nat
    BY <1>3, <1>4, <2>1, <2>3
  <2> QED
    BY <2>2, <2>4
<1> QED
  BY <1>7, <1>8 DEF NearDown, n

LEMMA PopIs ==
  ASSUME NEW h \in Heaps, NEW due \in [Objs -> Nat], h.q # <<>>
  PROVE  LET g == HeapPop(h, due)
             o == At(h, 0)
         IN  /\ g \in Heaps /\ Len0(g) = Len0(h) - 1 /\ o \in Objs
             /\ \A p : Holds(g, p) => Holds(h, p)
             /\ \A p : p # o /\ Holds(h, p) => Holds(g, p)
             /\ Distinct(h) => Distinct(g) /\ ~Holds(g, o)
             /\ \A p \in Objs : p # o /\ Placed(h, p) => Placed(g, p)
             /\ IndexFits(h) => IndexFits(g)
             /\ InOrder(h, due) => InOrder(g, due)
<1> DEFINE n == Len0(h) - 1
           s == Swap(h, 0, n)
           x == SiftDown(s, due, 0, n)
           o == At(h, 0)
<1>1. Len0(h) \in Nat /\ n \in Nat /\ Len0(h) > 0
  <2>1. h.q \in Seq(Objs) /\ h.q # <<>>
    BY DEF Heaps
  <2>2. Len(h.q) \in Nat /\ Len(h.q) > 0
    BY <2>1
  <2> QED
    BY <2>2 DEF Len0
<1>2. 0 \in Places(h) /\ n \in Places(h)
  BY <1>1 DEF Places
<1>3. o \in Objs
  BY <1>2, HeapType
<1>4. s \in Heaps /\ Len0(s) = Len0(h) /\ At(s, n) = o
  BY <1>2, SwapIs
<1>5. Shuffled(h, s, Len0(h))
  <2>1. Shuffled(h, h, Len0(h))
    BY <1>1, SameShuffled
  <2> QED
    BY <1>1, <1>2, <2>1, SwapShuffles DEF Places
<1> HIDE DEF s
<1>6. /\ Shuffled(s, x.heap, n)
      /\ NearDown(s, due, 0, 0, 0, n) =>
           \A k \in 1..(n - 1) :
             Parent(k) >= 0 /\ (k = 0 => x.at # 0) => Rising(x.heap, due, k)
  BY <1>1, <1>4, SiftDownOrders
<1> HIDE DEF x
<1>7. Shuffled(h, x.heap, Len0(h))
  <2>1. Shuffled(s, x.heap, Len0(h))
    BY <1>1, <1>4, <1>6, ShuffledMore
  <2> QED
    BY <1>1, <1>4, <1>5, <2>1, ShuffledTwice
<1>8. At(x.heap, n) = o
  BY <1>1, <1>2, <1>4, <1>6 DEF Shuffled, Places
<1>9. InOrder(h, due) => Ordered(x.heap, due, n)
  <2>1. \A k \in 1..(n - 1) : Parent(k) >= 0 /\ k # 0
    BY <1>1, ParentIs
  <2>2. InOrder(h, due) => NearDown(s, due, 0, 0, 0, n)
    BY <1>2, LastForFirst DEF s
  <2> QED
    BY <1>6, <2>1, <2>2 DEF Ordered
<1>10. HeapPop(h, due) = DropLast(x.heap)
  BY DEF HeapPop, x, s
<1> HIDE DEF o
<1> QED
  BY <1>1, <1>3, <1>7, <1>8, <1>9, <1>10, TakeOutIs DEF o

LEMMA RemoveIs ==
  ASSUME NEW h \in Heaps, NEW due \in [Objs -> Nat], NEW i \in Places(h)
  PROVE  LET g == HeapRemove(h, due, i)
             o == At(h, i)
         IN  /\ g \in Heaps /\ Len0(g) = Len0(h) - 1 /\ o \in Objs
             /\ \A p : Holds(g, p) => Holds(h, p)
             /\ \A p : p # o /\ Holds(h, p) => Holds(g, p)
             /\ Distinct(h) => Distinct(g) /\ ~Holds(g, o)
             /\ \A p \in Objs : p # o /\ Placed(h, p) => Placed(g, p)
             /\ IndexFits(h) => IndexFits(g)
             /\ InOrder(h, due) => InOrder(g, due)
<1> DEFINE n == Len0(h) - 1
           s == Swap(h, i, n)
           f == IF i = n THEN h ELSE Settle(s, due, i, n)
           o == At(h, i)
<1>1. Len0(h) \in Nat /\ n \in Nat /\ Len0(h) > 0 /\ i \in 0..n
  <2>1. Len0(h) \in Nat
    BY HeapType
  <2> QED
    BY <2>1 DEF Places
<1>2. n \in Places(h)
  BY <1>1 DEF Places
<1>3. o \in Objs
  BY HeapType
<1>4. s \in Heaps /\ Len0(s) = Len0(h) /\ At(s, n) = o
  BY <1>2, SwapIs
<1>5. Shuffled(h, h, Len0(h))
  BY <1>1, SameShuffled
<1>6. Shuffled(h, s, Len0(h))
  BY <1>1, <1>2, <1>5, SwapShuffles DEF Places
<1>7. Shuffled(h, f, Len0(h)) /\ At(f, n) = o /\ (InOrder(h, due) => Ordered(f, due, n))
  <2>1. CASE i = n
    <3>1. InOrder(h, due) => Ordered(h, due, n)
      BY <1>1 DEF InOrder, Ordered
    <3> QED
      BY <1>5, <2>1, <3>1
  <2>2. CASE i # n
    <3>1. i \in 0..(n - 1) /\ n <= Len0(s)
      BY <1>1, <1>4, <2>2
    <3>2. f = Settle(s, due, i, n)
      BY <2>2
    <3>3. InOrder(h, due) => NearDown(s, due, i, i, 0, n)
      BY LastForFirst
    <3> HIDE DEF s, f
    <3>4. Shuffled(s, f, n) /\ (NearDown(s, due, i, i, 0, n) => Ordered(f, due, n))
      BY <1>1, <1>4, <3>1, <3>2, SettleOrders
    <3>5. Shuffled(s, f, Len0(h))
      BY <1>1, <1>4, <3>4, ShuffledMore
    <3>6. Shuffled(h, f, Len0(h))
      BY <1>1, <1>6, <3>5, ShuffledTwice
    <3>7. At(f, n) = At(s, n)
      BY <1>1, <1>4, <3>4 DEF Shuffled, Places
    <3> QED
      BY <1>4, <3>3, <3>4, <3>6, <3>7
  <2> QED
    BY <2>1, <2>2
<1>8. HeapRemove(h, due, i) = DropLast(f)
  BY DEF HeapRemove
<1> HIDE DEF o, f, s
<1> QED
  BY <1>1, <1>3, <1>7, <1>8, TakeOutIs DEF o

-----------------------------------------------------------------------------
(* The inductive invariant                                                   *)

ClockOK == now \in 0..MaxNow /\ cut \in 0..now /\ timer \in Nat /\ sent \in Nat

ThreadsOK ==
  /\ schedPc \in {"dispatch", "send", "select"}
  /\ sending \in Configs \cup {NoObj} /\ (sending # NoObj <=> schedPc = "send")
  /\ checking \in [Configs -> Nat] /\ reports \in Seq([cfg : Configs, at : Nat])

\* What is in the map or in the heap has a job; a State is in the map once.
StatesOK ==
  /\ states \in [Configs -> Objs \cup {NoObj}]
  /\ job \in [Objs -> Jobs \cup {NoJob}] /\ nextDue \in [Objs -> Nat]
  /\ inFlight \subseteq Objs /\ doubled \in BOOLEAN
  /\ \A c \in Configs : states[c] # NoObj => job[states[c]] # NoJob
  /\ \A o \in Objs : Holds(hp, o) => job[o] # NoJob
  /\ \A c, d \in Configs : states[c] = states[d] /\ states[c] # NoObj => c = d

HeapOK == hp \in Heaps /\ IndexFits(hp)

TypeInv == ClockOK /\ ThreadsOK /\ StatesOK /\ HeapOK

\* The heap is in order unless a State was pushed twice, and a State in flight is
\* not in it.
Sorted ==
  ~doubled => /\ InOrder(hp, nextDue) /\ Distinct(hp)
              /\ \A o \in inFlight : ~Holds(hp, o)

\* The timer was set by the head, and nothing was pushed since.
TimerSet ==
  ~doubled /\ schedPc = "select" =>
    \A o \in Objs : Holds(hp, o) => timer <= nextDue[o] \/ timer <= now

HeapInv == TypeInv /\ IndexOK /\ Sorted /\ TimerSet

LEMMA InHeapIs ==
  ASSUME HeapOK
  PROVE  InHeap = {o \in Objs : Holds(hp, o)}
BY HoldsIs DEF HeapOK, InHeap

LEMMA TypeInvTypes ==
  ASSUME TypeInv
  PROVE  TypeOK
<1>1. InHeap = {o \in Objs : Holds(hp, o)}
  BY InHeapIs DEF TypeInv
<1>2. \A o \in Objs : job[o] = NoJob => NotLive(o)
  BY <1>1 DEF TypeInv, StatesOK, NotLive, Entries
<1>3. hp.q \in Seq(Objs) /\ hp.ix \in [Objs -> -1..(Len0(hp) - 1)]
  <2>1. hp.q \in Seq(Objs) /\ hp.ix \in [Objs -> Int] /\ Len0(hp) \in Nat
    BY HeapType DEF TypeInv, HeapOK, Heaps
  <2>2. \A o \in Objs : hp.ix[o] = -1 \/ hp.ix[o] \in 0..(Len0(hp) - 1)
    BY DEF TypeInv, HeapOK, IndexFits, Placed, Places
  <2>3. \A o \in Objs : hp.ix[o] \in -1..(Len0(hp) - 1)
    BY <2>1, <2>2
  <2> QED
    BY <2>1, <2>3
<1> QED
  BY <1>2, <1>3 DEF TypeInv, ClockOK, ThreadsOK, StatesOK, TypeOK

-----------------------------------------------------------------------------
(* Start                                                                     *)

LEMMA EntriesOnce ==
  ASSUME NEW f \in SetToSeqs(Entries), states \in [Configs -> Objs]
  PROVE  /\ f \in Seq(Entries) /\ Len(f) \in Nat /\ DOMAIN f = 1..Len(f)
         /\ \A i, j \in DOMAIN f : f[i] = f[j] => i = j
         /\ \A o \in Entries : \E i \in DOMAIN f : f[i] = o
<1>1. Entries = {states[c] : c \in Configs}
  BY HeapAssumption DEF Entries
<1>2. states \in Surjection(Configs, Entries)
  BY <1>1 DEF Surjection
<1>3. IsFiniteSet(Entries)
  BY <1>2, FS_Surjection, HeapAssumption
<1> DEFINE n == Cardinality(Entries)
<1>4. n \in Nat
  BY <1>3, FS_CardinalityType
<1>5. f \in [1..n -> Entries] /\ \A i, j \in 1..n : f[i] = f[j] => i = j
  BY DEF SetToSeqs
<1> HIDE DEF n
<1>6. f \in Injection(1..n, Entries)
  BY <1>5 DEF Injection, IsInjective
<1>7. Cardinality(1..n) = n /\ IsFiniteSet(1..n)
  <2>1. Cardinality(1..n) = IF 1 > n THEN 0 ELSE n - 1 + 1
    BY <1>4, FS_Interval
  <2>2. IsFiniteSet(1..n)
    BY <1>4, FS_Interval
  <2> QED
    BY <1>4, <2>1, <2>2
<1>8. f \in Surjection(1..n, Entries)
  BY <1>3, <1>6, <1>7, FS_Injection DEF n
<1>9. \A o \in Entries : \E i \in 1..n : f[i] = o
  BY <1>8 DEF Surjection
<1>10. f \in Seq(Entries) /\ Len(f) = n /\ DOMAIN f = 1..n
  BY <1>4, <1>5
<1> QED
  BY <1>4, <1>5, <1>9, <1>10

LEMMA Starts ==
  ASSUME Init
  PROVE  HeapInv
<1>1. states \in [Configs -> Objs] /\ IsInjective(states)
  BY HeapAssumption DEF Init
<1>2. PICK f \in SetToSeqs(Entries) :
        hp = HeapInit([q |-> f, ix |-> [o \in Objs |->
               IF \E i \in DOMAIN f : f[i] = o
               THEN (CHOOSE i \in DOMAIN f : f[i] = o) - 1 ELSE -1]], nextDue)
  BY DEF Init
<1> DEFINE ix == [o \in Objs |->
                    IF \E i \in DOMAIN f : f[i] = o
                    THEN (CHOOSE i \in DOMAIN f : f[i] = o) - 1 ELSE -1]
           h == [q |-> f, ix |-> ix]
<1>3. /\ f \in Seq(Entries) /\ Len(f) \in Nat /\ DOMAIN f = 1..Len(f)
      /\ \A i, j \in DOMAIN f : f[i] = f[j] => i = j
      /\ \A o \in Entries : \E i \in DOMAIN f : f[i] = o
  BY <1>1, EntriesOnce
<1>4. Entries \subseteq Objs /\ \A c \in Configs : states[c] \in Entries
  BY <1>1, HeapAssumption DEF Entries
<1>5. nextDue \in [Objs -> Nat] /\ job \in [Objs -> Jobs \cup {NoJob}]
      /\ \A o \in Entries : job[o] # NoJob
  <2>1. nextDue \in [Objs -> 0..(JitterMax - 1)] /\ job \in [Objs -> Jobs \cup {NoJob}]
        /\ \A o \in Entries : job[o] # NoJob
    BY <1>4 DEF Init
  <2>2. JitterMax \in Nat
    BY HeapAssumption
  <2> QED
    BY <2>1, <2>2
<1>6. f \in Seq(Objs)
  BY <1>3, <1>4
<1>7. \A o \in Objs : \/ ix[o] = -1 /\ ~\E i \in DOMAIN f : f[i] = o
                      \/ ix[o] + 1 \in DOMAIN f /\ f[ix[o] + 1] = o /\ ix[o] \in 0..(Len(f) - 1)
  <2> SUFFICES ASSUME NEW o \in Objs, \E i \in DOMAIN f : f[i] = o
               PROVE  ix[o] + 1 \in DOMAIN f /\ f[ix[o] + 1] = o /\ ix[o] \in 0..(Len(f) - 1)
    OBVIOUS
  <2>1. PICK i \in DOMAIN f : i = (CHOOSE k \in DOMAIN f : f[k] = o) /\ f[i] = o
    OBVIOUS
  <2>2. ix[o] = i - 1
    BY <2>1
  <2> HIDE DEF ix
  <2> QED
    BY <1>3, <2>1, <2>2
<1>8. ix \in [Objs -> Int]
  <2>1. \A o \in Objs : ix[o] \in Int
    BY <1>3, <1>7
  <2>2. ix = [o \in Objs |-> ix[o]]
    OBVIOUS
  <2> HIDE DEF ix
  <2> QED
    BY <2>1, <2>2
<1> HIDE DEF ix
<1>9. h \in Heaps /\ Len0(h) = Len(f) /\ h.ix = ix /\ h.q = f
  BY <1>6, <1>8 DEF Heaps, Len0
<1> HIDE DEF h
<1>10. /\ \A k \in Places(h) : At(h, k) = f[k + 1] /\ k + 1 \in DOMAIN f
       /\ \A i \in DOMAIN f : i - 1 \in Places(h) /\ At(h, i - 1) = f[i]
       /\ Places(h) = 0..(Len(f) - 1)
  BY <1>3, <1>9 DEF Places, At
<1>11. \A o \in Objs : (h.ix[o] = -1 /\ ~\E i \in DOMAIN f : f[i] = o) \/ Placed(h, o)
  BY <1>7, <1>9, <1>10 DEF Placed
<1>12. IndexFits(h) /\ \A o \in Entries : Placed(h, o)
  BY <1>3, <1>4, <1>11 DEF IndexFits
<1>13. Distinct(h)
  <2>1. \A k \in Places(h) : k \in Nat
    BY <1>10
  <2> QED
    BY <1>3, <1>10, <2>1 DEF Distinct
<1>14. hp = HeapInit(h, nextDue)
  BY <1>2 DEF h, ix
<1>15. Shuffled(h, hp, Len0(h)) /\ Ordered(hp, nextDue, Len0(h))
  BY <1>5, <1>9, <1>14, InitOrders
<1>16. /\ \A o : Holds(hp, o) <=> Holds(h, o)
       /\ \A o \in Objs : Placed(h, o) => Placed(hp, o)
       /\ IndexFits(hp) /\ Distinct(hp) /\ hp \in Heaps /\ InOrder(hp, nextDue)
  BY <1>9, <1>12, <1>13, <1>15, ShuffledAll DEF InOrder
<1>17. \A o : Holds(h, o) => o \in Entries
  BY <1>3, <1>10 DEF Holds
<1>18. StatesOK
  <2>1. \A c, d \in Configs : states[c] = states[d] => c = d
    BY <1>1 DEF IsInjective
  <2>2. inFlight = {} /\ doubled = FALSE
    BY DEF Init
  <2> QED
    BY <1>1, <1>4, <1>5, <1>16, <1>17, <2>1, <2>2 DEF StatesOK
<1>19. ClockOK
  BY HeapAssumption DEF Init, ClockOK
<1>20. ThreadsOK
  BY HeapAssumption DEF Init, ThreadsOK
<1>21. IndexOK
  BY <1>4, <1>12, <1>16 DEF IndexOK, Placed, Places
<1>22. Sorted /\ TimerSet
  BY <1>16 DEF Init, Sorted, TimerSet
<1> QED
  BY <1>16, <1>18, <1>19, <1>20, <1>21, <1>22 DEF HeapInv, TypeInv, HeapOK

-----------------------------------------------------------------------------
(* The steps                                                                 *)

\* A step that changes no State and leaves the heap as it is.
LEMMA StatesUntouched ==
  ASSUME HeapInv, UNCHANGED <<states, job, nextDue, inFlight, hp, doubled>>
  PROVE  StatesOK' /\ HeapOK' /\ IndexOK' /\ Sorted'
<1>1. \A o : Holds(hp, o)' <=> Holds(hp, o)
  BY DEF Holds, Places, Len0, At
<1>2. StatesOK'
  BY <1>1 DEF HeapInv, TypeInv, StatesOK
<1>3. HeapOK'
  BY DEF HeapInv, TypeInv, HeapOK, IndexFits, Placed, Places, Len0, At
<1>4. IndexOK'
  BY DEF HeapInv, IndexOK, Len0, At
<1>5. Sorted'
  <2>1. InOrder(hp, nextDue)' <=> InOrder(hp, nextDue)
    BY DEF InOrder, Ordered, Rising, Due, Len0, At
  <2>2. Distinct(hp)' <=> Distinct(hp)
    BY DEF Distinct, Places, Len0, At
  <2> QED
    BY <1>1, <2>1, <2>2 DEF HeapInv, Sorted
<1> QED
  BY <1>2, <1>3, <1>4, <1>5

\* An index or an order that is right for the new heap is right in the new state.
LEMMA HeapSteps ==
  ASSUME NEW g \in Heaps, hp' = g, IndexFits(g)
  PROVE  /\ HeapOK' /\ \A o : Holds(hp, o)' <=> Holds(g, o)
         /\ InOrder(hp, nextDue)' <=> InOrder(g, nextDue')
         /\ Distinct(hp)' <=> Distinct(g)
         /\ (\A c \in Configs : states'[c] \in Objs \ inFlight' => Placed(g, states'[c]))
              => IndexOK'
<1>1. HeapOK'
  BY DEF HeapOK, IndexFits, Placed, Places, Len0, At
<1>2. \A o : Holds(hp, o)' <=> Holds(g, o)
  BY DEF Holds, Places, Len0, At
<1>3. InOrder(hp, nextDue)' <=> InOrder(g, nextDue')
  BY DEF InOrder, Ordered, Rising, Due, Len0, At
<1>4. Distinct(hp)' <=> Distinct(g)
  BY DEF Distinct, Places, Len0, At
<1>5. (\A c \in Configs : states'[c] \in Objs \ inFlight' => Placed(g, states'[c]))
        => IndexOK'
  BY DEF IndexOK, Placed, Places, Len0, At
<1> QED
  BY <1>1, <1>2, <1>3, <1>4, <1>5

LEMMA TickStep ==
  ASSUME HeapInv, Tick
  PROVE  HeapInv'
<1>1. StatesOK' /\ HeapOK' /\ IndexOK' /\ Sorted'
  BY StatesUntouched DEF Tick
<1>2. ClockOK'
  BY HeapAssumption DEF Tick, HeapInv, TypeInv, ClockOK
<1>3. ThreadsOK'
  BY DEF Tick, HeapInv, TypeInv, ThreadsOK
<1>4. TimerSet'
  <2>1. \A o : Holds(hp, o)' <=> Holds(hp, o)
    BY DEF Tick, Holds, Places, Len0, At
  <2>2. now \in Nat /\ now' = now + 1 /\ timer \in Nat
    BY HeapAssumption DEF Tick, HeapInv, TypeInv, ClockOK
  <2>3. timer <= now => timer <= now'
    BY <2>2
  <2> QED
    BY <2>1, <2>3 DEF Tick, HeapInv, TimerSet
<1> QED
  BY <1>1, <1>2, <1>3, <1>4 DEF HeapInv, TypeInv

LEMMA SendStep ==
  ASSUME HeapInv, SendJob
  PROVE  HeapInv'
<1>1. StatesOK' /\ HeapOK' /\ IndexOK' /\ Sorted'
  BY StatesUntouched DEF SendJob
<1>2. ClockOK'
  BY DEF SendJob, HeapInv, TypeInv, ClockOK
<1>3. ThreadsOK'
  BY DEF SendJob, HeapInv, TypeInv, ThreadsOK
<1>4. TimerSet'
  BY DEF SendJob, TimerSet
<1> QED
  BY <1>1, <1>2, <1>3, <1>4 DEF HeapInv, TypeInv

\* The timer is set to when the head is due, and the head is due first.
LEMMA SleepStep ==
  ASSUME HeapInv, Sleep
  PROVE  HeapInv'
<1>1. StatesOK' /\ HeapOK' /\ IndexOK' /\ Sorted'
  BY StatesUntouched DEF Sleep
<1>2. /\ hp \in Heaps /\ now \in Nat /\ Hour \in Nat /\ nextDue \in [Objs -> Nat]
      /\ Len(hp.q) \in Nat /\ hp.q \in Seq(Objs)
  BY HeapAssumption DEF HeapInv, TypeInv, HeapOK, Heaps, ClockOK, StatesOK
<1>3. hp.q # <<>> => 0 \in Places(hp) /\ At(hp, 0) \in Objs /\ nextDue[At(hp, 0)] \in Nat
  <2>1. hp.q # <<>> => Len(hp.q) > 0
    BY <1>2
  <2>2. hp.q # <<>> => 0 \in Places(hp)
    BY <1>2, <2>1 DEF Places, Len0
  <2> QED
    BY <1>2, <2>2, HeapType
<1>4. ClockOK'
  <2>1. timer' \in Nat
    BY <1>2, <1>3 DEF Sleep, SleepUntilNext, GreaterOf
  <2>2. 0 \in 0..now
    BY <1>2
  <2> QED
    BY <2>1, <2>2 DEF Sleep, HeapInv, TypeInv, ClockOK
<1>5. ThreadsOK'
  BY DEF Sleep, HeapInv, TypeInv, ThreadsOK
<1>6. TimerSet'
  <2> SUFFICES ASSUME ~doubled, NEW o \in Objs, Holds(hp, o)
               PROVE  timer' <= nextDue[o] \/ timer' <= now
    <3>1. \A o : Holds(hp, o)' <=> Holds(hp, o)
      BY DEF Sleep, Holds, Places, Len0, At
    <3> QED
      BY <3>1 DEF Sleep, TimerSet
  <2>1. PICK k \in Places(hp) : At(hp, k) = o
    BY DEF Holds
  <2>2. Due(hp, nextDue, 0) <= Due(hp, nextDue, k)
    BY <1>2, HeadFirst DEF HeapInv, Sorted, InOrder
  <2>3. hp.q # <<>>
    BY <1>2, <2>1 DEF Places, Len0
  <2>4. timer' = GreaterOf(now, nextDue[At(hp, 0)])
    BY <2>3 DEF Sleep, SleepUntilNext
  <2>5. nextDue[At(hp, 0)] <= nextDue[o] /\ nextDue[At(hp, 0)] \in Nat /\ nextDue[o] \in Nat
    BY <1>2, <1>3, <2>1, <2>2, <2>3 DEF Due
  <2> QED
    BY <1>2, <2>4, <2>5 DEF GreaterOf
<1> QED
  BY <1>1, <1>4, <1>5, <1>6 DEF HeapInv, TypeInv

\* The loop begins again: it is not asleep, and the clock was read.
LEMMA LoopStep ==
  ASSUME HeapInv, LoopAgain, schedPc = "select", sent' \in Nat,
         reports' \in Seq([cfg : Configs, at : Nat])
  PROVE  ClockOK' /\ ThreadsOK' /\ TimerSet'
<1>1. ClockOK'
  <2>1. now \in Nat
    BY HeapAssumption DEF HeapInv, TypeInv, ClockOK
  <2> QED
    BY <2>1 DEF LoopAgain, HeapInv, TypeInv, ClockOK
<1>2. ThreadsOK'
  BY DEF LoopAgain, HeapInv, TypeInv, ThreadsOK
<1>3. TimerSet'
  BY DEF LoopAgain, TimerSet
<1> QED
  BY <1>1, <1>2, <1>3

LEMMA TimerStep ==
  ASSUME HeapInv, TimerFires
  PROVE  HeapInv'
<1>1. StatesOK' /\ HeapOK' /\ IndexOK' /\ Sorted'
  BY StatesUntouched DEF TimerFires
<1>2. LoopAgain /\ schedPc = "select" /\ sent' \in Nat /\ reports' \in Seq([cfg : Configs, at : Nat])
  BY DEF TimerFires, HeapInv, TypeInv, ClockOK, ThreadsOK
<1> QED
  BY <1>1, <1>2, LoopStep DEF HeapInv, TypeInv

LEMMA CheckEndsStep ==
  ASSUME HeapInv, NEW c \in Configs, CheckEnds(c)
  PROVE  HeapInv'
<1>1. StatesOK' /\ HeapOK' /\ IndexOK' /\ Sorted'
  BY StatesUntouched DEF CheckEnds
<1>2. ClockOK'
  BY DEF CheckEnds, HeapInv, TypeInv, ClockOK
<1>3. ThreadsOK'
  <2>1. checking \in [Configs -> Nat] /\ checking[c] > 0
        /\ reports \in Seq([cfg : Configs, at : Nat]) /\ now \in Nat
    BY HeapAssumption DEF CheckEnds, HeapInv, TypeInv, ThreadsOK, ClockOK
  <2>2. checking' \in [Configs -> Nat]
    BY <2>1 DEF CheckEnds
  <2>3. reports' \in Seq([cfg : Configs, at : Nat])
    BY <2>1 DEF CheckEnds
  <2> QED
    BY <2>2, <2>3 DEF CheckEnds, HeapInv, TypeInv, ThreadsOK
<1>4. TimerSet'
  <2>1. \A o : Holds(hp, o)' <=> Holds(hp, o)
    BY DEF CheckEnds, Holds, Places, Len0, At
  <2> QED
    BY <2>1 DEF CheckEnds, HeapInv, TimerSet
<1> QED
  BY <1>1, <1>2, <1>3, <1>4 DEF HeapInv, TypeInv

LEMMA PopStep ==
  ASSUME HeapInv, PopDue
  PROVE  HeapInv'
<1> DEFINE o == At(hp, 0)
           g == HeapPop(hp, nextDue)
<1>1. hp \in Heaps /\ IndexFits(hp) /\ nextDue \in [Objs -> Nat] /\ hp.q # <<>>
  BY DEF HeapInv, TypeInv, HeapOK, StatesOK, PopDue, HeadDue
<1>2. /\ g \in Heaps /\ o \in Objs
      /\ \A p : Holds(g, p) => Holds(hp, p)
      /\ Distinct(hp) => Distinct(g) /\ ~Holds(g, o)
      /\ \A p \in Objs : p # o /\ Placed(hp, p) => Placed(g, p)
      /\ IndexFits(g)
      /\ InOrder(hp, nextDue) => InOrder(g, nextDue)
  BY <1>1, PopIs
<1>3. Holds(hp, o)
  <2>1. Len(hp.q) \in Nat /\ Len(hp.q) > 0
    BY <1>1 DEF Heaps
  <2>2. 0 \in Places(hp)
    BY <2>1 DEF Places, Len0
  <2> QED
    BY <2>2 DEF Holds
<1>4. /\ hp' = g /\ inFlight' = inFlight \cup {o} /\ sending' = job[o].cfg /\ schedPc' = "send"
      /\ UNCHANGED <<now, states, job, nextDue, cut, timer, checking, reports, sent, doubled>>
  BY DEF PopDue
<1> HIDE DEF g, o
<1>5. /\ HeapOK' /\ \A p : Holds(hp, p)' <=> Holds(g, p)
      /\ InOrder(hp, nextDue)' <=> InOrder(g, nextDue')
      /\ Distinct(hp)' <=> Distinct(g)
      /\ (\A c \in Configs : states'[c] \in Objs \ inFlight' => Placed(g, states'[c]))
           => IndexOK'
  BY <1>2, <1>4, HeapSteps
<1>6. ClockOK'
  BY <1>4 DEF HeapInv, TypeInv, ClockOK
<1>7. StatesOK'
  BY <1>2, <1>4, <1>5 DEF HeapInv, TypeInv, StatesOK
<1>8. ThreadsOK'
  <2>1. job[o] \in Jobs
    BY <1>2, <1>3 DEF HeapInv, TypeInv, StatesOK
  <2>2. job[o].cfg \in Configs
    BY <2>1 DEF Jobs
  <2> QED
    BY <1>4, <2>2, HeapAssumption DEF HeapInv, TypeInv, ThreadsOK
<1>9. IndexOK'
  <2>1. ASSUME NEW c \in Configs, states'[c] \in Objs \ inFlight' PROVE Placed(g, states'[c])
    <3>1. states[c] \in Objs \ inFlight /\ states[c] # o
      BY <1>4, <2>1
    <3>2. Placed(hp, states[c])
      BY <3>1 DEF HeapInv, IndexOK, Placed, Places
    <3> QED
      BY <1>2, <1>4, <3>1, <3>2
  <2> QED
    BY <1>5, <2>1
<1>10. Sorted'
  <2> SUFFICES ASSUME ~doubled
               PROVE  /\ InOrder(g, nextDue) /\ Distinct(g)
                      /\ \A p \in inFlight' : ~Holds(g, p)
    BY <1>4, <1>5 DEF Sorted
  <2>1. InOrder(hp, nextDue) /\ Distinct(hp) /\ \A p \in inFlight : ~Holds(hp, p)
    BY DEF HeapInv, Sorted
  <2> QED
    BY <1>2, <1>4, <2>1
<1>11. TimerSet'
  BY <1>4 DEF TimerSet
<1> QED
  BY <1>5, <1>6, <1>7, <1>8, <1>9, <1>10, <1>11 DEF HeapInv, TypeInv

LEMMA OneReportLess ==
  ASSUME NEW S, NEW s \in Seq(S), NEW i \in DOMAIN s
  PROVE  RemoveAt(s, i) \in Seq(S)
<1>1. Len(s) \in Nat /\ i \in 1..Len(s)
  OBVIOUS
<1>2. SubSeq(s, 1, i - 1) \in Seq(S)
  BY <1>1
<1>3. SubSeq(s, i + 1, Len(s)) \in Seq(S)
  BY <1>1
<1> QED
  BY <1>2, <1>3 DEF RemoveAt

\* A State is pushed: nothing else is due at another time, and it was not in the
\* heap, or was and doubled says so.
LEMMA Pushes ==
  ASSUME HeapInv, NEW o \in Objs, hp' = HeapPush(hp, nextDue', o),
         nextDue' \in [Objs -> Nat], \A p \in Objs \ {o} : nextDue'[p] = nextDue[p],
         inFlight' = inFlight \ {o}, Holds(hp, o) => doubled', doubled => doubled',
         \A c \in Configs : states'[c] = states[c] \/ states'[c] = o
  PROVE  HeapOK' /\ IndexOK' /\ Sorted' /\ \A p : Holds(hp, p)' <=> Holds(hp, p) \/ p = o
<1> DEFINE g == HeapPush(hp, nextDue', o)
<1>1. hp \in Heaps /\ IndexFits(hp) /\ nextDue \in [Objs -> Nat]
  BY DEF HeapInv, TypeInv, HeapOK, StatesOK
<1>2. /\ g \in Heaps
      /\ \A p : Holds(g, p) <=> Holds(hp, p) \/ p = o
      /\ Distinct(hp) /\ ~Holds(hp, o) => Distinct(g)
      /\ Placed(g, o) /\ \A p \in Objs : Placed(hp, p) => Placed(g, p)
      /\ IndexFits(g)
      /\ InOrder(hp, nextDue') => InOrder(g, nextDue')
  BY <1>1, PushIs
<1>3. hp' = g
  OBVIOUS
<1> HIDE DEF g
<1>4. /\ HeapOK' /\ \A p : Holds(hp, p)' <=> Holds(g, p)
      /\ InOrder(hp, nextDue)' <=> InOrder(g, nextDue')
      /\ Distinct(hp)' <=> Distinct(g)
      /\ (\A c \in Configs : states'[c] \in Objs \ inFlight' => Placed(g, states'[c]))
           => IndexOK'
  BY <1>2, <1>3, HeapSteps
<1>5. IndexOK'
  <2>1. ASSUME NEW c \in Configs, states'[c] \in Objs \ inFlight', states'[c] # o
        PROVE  Placed(hp, states'[c])
    <3>1. states[c] = states'[c] /\ states[c] \in Objs \ inFlight
      BY <2>1
    <3> QED
      BY <3>1 DEF HeapInv, IndexOK, Placed, Places
  <2> QED
    BY <1>2, <1>4, <2>1
<1>6. Sorted'
  <2> SUFFICES ASSUME ~doubled'
               PROVE  /\ InOrder(g, nextDue') /\ Distinct(g)
                      /\ \A p \in inFlight' : ~Holds(g, p)
    BY <1>4 DEF Sorted
  <2>1. /\ ~Holds(hp, o) /\ InOrder(hp, nextDue) /\ Distinct(hp)
        /\ \A p \in inFlight : ~Holds(hp, p)
    BY DEF HeapInv, Sorted
  <2>2. \A k \in Places(hp) : Due(hp, nextDue', k) = Due(hp, nextDue, k)
    <3>1. \A k \in Places(hp) : At(hp, k) \in Objs /\ At(hp, k) # o
      BY <1>1, <2>1, HeapType DEF Holds
    <3> QED
      BY <3>1 DEF Due
  <2>3. InOrder(hp, nextDue')
    <3>1. Len0(hp) \in Nat
      BY <1>1, HeapType
    <3>2. \A k \in 1..(Len0(hp) - 1) : k \in Places(hp) /\ Parent(k) \in Places(hp)
      BY <3>1, ParentIs DEF Places
    <3> QED
      BY <2>1, <2>2, <3>2 DEF InOrder, Ordered, Rising
  <2> QED
    BY <1>2, <2>1, <2>3
<1> QED
  BY <1>2, <1>4, <1>5, <1>6

LEMMA MemberAt ==
  ASSUME NEW S, NEW s \in Seq(S), NEW k \in 1..Len(s)
  PROVE  s[k] \in S
OBVIOUS

LEMMA RecvEventStep ==
  ASSUME HeapInv, NEW i \in DOMAIN reports, RecvEvent(i)
  PROVE  HeapInv'
<1>1. /\ reports \in Seq([cfg : Configs, at : Nat])
      /\ reports[i].cfg \in Configs /\ reports[i].at \in Nat
  <2>1. reports \in Seq([cfg : Configs, at : Nat])
    BY DEF HeapInv, TypeInv, ThreadsOK
  <2>2. i \in 1..Len(reports)
    BY <2>1
  <2>3. reports[i] \in [cfg : Configs, at : Nat]
    BY <2>1, <2>2, MemberAt
  <2> QED
    BY <2>1, <2>3
<1> DEFINE o == states[reports[i].cfg]
<1>2. reports' \in Seq([cfg : Configs, at : Nat])
  BY <1>1, OneReportLess DEF RecvEvent
<1>3. ClockOK' /\ ThreadsOK' /\ TimerSet'
  <2>1. LoopAgain /\ schedPc = "select" /\ sent' \in Nat
    BY DEF RecvEvent, HeapInv, TypeInv, ClockOK
  <2> QED
    BY <1>2, <2>1, LoopStep
<1>4. CASE o = NoObj
  <2>1. UNCHANGED <<states, job, nextDue, inFlight, hp, doubled>>
    BY <1>4 DEF RecvEvent
  <2> QED
    BY <1>3, <2>1, StatesUntouched DEF HeapInv, TypeInv
<1>5. CASE o # NoObj
  <2>1. o \in Objs /\ job[o] \in Jobs
    BY <1>1, <1>5 DEF HeapInv, TypeInv, StatesOK
  <2>2. reports[i].at + job[o].int \in Nat
    <3>1. job[o].int \in Intervals
      BY <2>1 DEF Jobs
    <3>2. job[o].int \in Nat
      BY <3>1, HeapAssumption
    <3> HIDE DEF o
    <3> QED
      BY <1>1, <3>2
  <2>3. /\ nextDue' = [nextDue EXCEPT ![o] = reports[i].at + job[o].int]
        /\ inFlight' = inFlight \ {o} /\ hp' = HeapPush(hp, nextDue', o)
        /\ doubled' = (doubled \/ o \in InHeap) /\ states' = states /\ job' = job
    BY <1>5 DEF RecvEvent
  <2> HIDE DEF o
  <2>4. nextDue' \in [Objs -> Nat] /\ \A p \in Objs \ {o} : nextDue'[p] = nextDue[p]
    BY <2>1, <2>2, <2>3 DEF HeapInv, TypeInv, StatesOK
  <2>5. o \in InHeap <=> Holds(hp, o)
    BY <2>1, InHeapIs DEF HeapInv, TypeInv
  <2>6. HeapOK' /\ IndexOK' /\ Sorted' /\ \A p : Holds(hp, p)' <=> Holds(hp, p) \/ p = o
    BY <2>1, <2>3, <2>4, <2>5, Pushes
  <2>7. StatesOK'
    <3>1. doubled' \in BOOLEAN
      BY <2>3
    <3>2. job[o] # NoJob
      BY <2>1, HeapAssumption DEF Jobs
    <3> QED
      BY <2>3, <2>4, <2>6, <3>1, <3>2 DEF HeapInv, TypeInv, StatesOK
  <2> QED
    BY <1>3, <2>6, <2>7 DEF HeapInv, TypeInv
<1> QED
  BY <1>4, <1>5

LEMMA AdoptStep ==
  ASSUME HeapInv, NEW c \in Configs, NEW int \in Intervals, Adopt(c, int), doubled' = doubled
  PROVE  StatesOK' /\ HeapOK' /\ IndexOK' /\ Sorted'
<1>1. PICK o \in Objs :
        /\ NotLive(o)
        /\ states' = [states EXCEPT ![c] = o]
        /\ job' = [job EXCEPT ![o] = [cfg |-> c, int |-> int]]
        /\ nextDue' = [nextDue EXCEPT ![o] = now]
        /\ inFlight' = inFlight \ {o}
        /\ hp' = HeapPush(hp, nextDue', o)
  BY DEF Adopt
<1>2. ~Holds(hp, o)
  BY <1>1, InHeapIs DEF NotLive, HeapInv, TypeInv
<1>3. now \in Nat /\ nextDue \in [Objs -> Nat] /\ states \in [Configs -> Objs \cup {NoObj}]
  BY HeapAssumption DEF HeapInv, TypeInv, ClockOK, StatesOK
<1>4. nextDue' \in [Objs -> Nat] /\ \A p \in Objs \ {o} : nextDue'[p] = nextDue[p]
  BY <1>1, <1>3
<1>5. \A d \in Configs : states'[d] = IF d = c THEN o ELSE states[d]
  BY <1>1, <1>3
<1>6. \A d \in Configs : states[d] # o
  BY <1>1, HeapAssumption DEF NotLive, Entries
<1>7. HeapOK' /\ IndexOK' /\ Sorted' /\ \A p : Holds(hp, p)' <=> Holds(hp, p) \/ p = o
  BY <1>1, <1>2, <1>4, <1>5, Pushes
<1>8. [cfg |-> c, int |-> int] \in Jobs /\ [cfg |-> c, int |-> int] # NoJob
  BY HeapAssumption DEF Jobs
<1>9. StatesOK'
  <2>1. job' \in [Objs -> Jobs \cup {NoJob}] /\ job'[o] # NoJob
        /\ \A p \in Objs \ {o} : job'[p] = job[p]
    BY <1>1, <1>8 DEF HeapInv, TypeInv, StatesOK
  <2>2. states' \in [Configs -> Objs \cup {NoObj}]
    BY <1>1, <1>3
  <2>3. \A d \in Configs : states'[d] # NoObj => job'[states'[d]] # NoJob
    <3> SUFFICES ASSUME NEW d \in Configs, states'[d] # NoObj PROVE job'[states'[d]] # NoJob
      OBVIOUS
    <3>1. CASE states'[d] = o
      BY <2>1, <3>1
    <3>2. CASE states'[d] # o
      BY <1>5, <2>1, <2>2, <3>2 DEF HeapInv, TypeInv, StatesOK
    <3> QED
      BY <3>1, <3>2
  <2>4. \A p \in Objs : Holds(hp, p)' => job'[p] # NoJob
    BY <1>7, <2>1 DEF HeapInv, TypeInv, StatesOK
  <2>5. \A d, e \in Configs : states'[d] = states'[e] /\ states'[d] # NoObj => d = e
    BY <1>5, <1>6 DEF HeapInv, TypeInv, StatesOK
  <2>6. inFlight' \subseteq Objs /\ doubled' \in BOOLEAN
    BY <1>1 DEF HeapInv, TypeInv, StatesOK
  <2> QED
    BY <1>4, <2>1, <2>2, <2>3, <2>4, <2>5, <2>6 DEF StatesOK
<1> QED
  BY <1>7, <1>9

\* heap.Fix is called at the State's place, which was the only one to change.
LEMMA RetargetStep ==
  ASSUME HeapInv, NEW c \in Configs, NEW int \in Intervals, NEW updated \in BOOLEAN,
         Retarget(c, int, updated), doubled' = doubled
  PROVE  StatesOK' /\ HeapOK' /\ IndexOK' /\ Sorted'
<1> DEFINE o == states[c]
           i == hp.ix[o]
           g == IF o \in inFlight THEN hp ELSE HeapFix(hp, nextDue', i)
<1>1. o \in Objs /\ now \in Nat /\ hp \in Heaps /\ IndexFits(hp) /\ nextDue \in [Objs -> Nat]
  BY HeapAssumption DEF Retarget, HeapInv, TypeInv, StatesOK, HeapOK, ClockOK
<1>2. /\ job' = [job EXCEPT ![o].int = int] /\ states' = states /\ inFlight' = inFlight
      /\ nextDue' = IF updated THEN [nextDue EXCEPT ![o] = now] ELSE nextDue
      /\ hp' = g
  BY DEF Retarget
<1> HIDE DEF g, i, o
<1>3. nextDue' \in [Objs -> Nat] /\ \A p \in Objs \ {o} : nextDue'[p] = nextDue[p]
  BY <1>1, <1>2
<1>4. o \notin inFlight => i \in Places(hp) /\ At(hp, i) = o
  BY <1>1 DEF HeapInv, IndexOK, Places, o, i
<1>5. /\ g \in Heaps
      /\ \A p : Holds(g, p) <=> Holds(hp, p)
      /\ Distinct(hp) => Distinct(g)
      /\ \A p \in Objs : Placed(hp, p) => Placed(g, p)
      /\ IndexFits(g)
  <2>1. CASE o \in inFlight
    BY <1>1, <2>1 DEF g
  <2>2. CASE o \notin inFlight
    BY <1>1, <1>3, <1>4, <2>2, FixIs DEF g
  <2> QED
    BY <2>1, <2>2
<1>6. /\ HeapOK' /\ \A p : Holds(hp, p)' <=> Holds(g, p)
      /\ InOrder(hp, nextDue)' <=> InOrder(g, nextDue')
      /\ Distinct(hp)' <=> Distinct(g)
      /\ (\A d \in Configs : states'[d] \in Objs \ inFlight' => Placed(g, states'[d]))
           => IndexOK'
  BY <1>2, <1>5, HeapSteps
<1>7. IndexOK'
  <2>1. \A d \in Configs : states[d] \in Objs \ inFlight => Placed(hp, states[d])
    BY DEF HeapInv, IndexOK, Placed, Places
  <2> QED
    BY <1>2, <1>5, <1>6, <2>1
<1>8. Sorted'
  <2> SUFFICES ASSUME ~doubled
               PROVE  /\ InOrder(g, nextDue') /\ Distinct(g)
                      /\ \A p \in inFlight : ~Holds(g, p)
    BY <1>2, <1>6 DEF Sorted
  <2>1. InOrder(hp, nextDue) /\ Distinct(hp) /\ \A p \in inFlight : ~Holds(hp, p)
    BY DEF HeapInv, Sorted
  <2>2. CASE o \in inFlight
    <3>1. \A k \in Places(hp) : At(hp, k) \in Objs /\ At(hp, k) # o
      BY <1>1, <2>1, <2>2, HeapType DEF Holds
    <3>2. \A k \in Places(hp) : Due(hp, nextDue', k) = Due(hp, nextDue, k)
      BY <1>3, <3>1 DEF Due
    <3>3. Len0(hp) \in Nat
      BY <1>1, HeapType
    <3>4. \A k \in 1..(Len0(hp) - 1) : k \in Places(hp) /\ Parent(k) \in Places(hp)
      BY <3>3, ParentIs DEF Places
    <3>5. InOrder(hp, nextDue')
      BY <2>1, <3>2, <3>4 DEF InOrder, Ordered, Rising
    <3> QED
      BY <2>1, <2>2, <3>5 DEF g
  <2>3. CASE o \notin inFlight
    <3>1. NearDown(hp, nextDue', i, i, 0, Len0(hp))
      BY <1>1, <1>3, <1>4, <2>1, <2>3, ChangedInPlace
    <3>2. InOrder(g, nextDue')
      BY <1>1, <1>3, <1>4, <2>3, <3>1, FixIs DEF g
    <3> QED
      BY <1>5, <2>1, <3>2
  <2> QED
    BY <2>2, <2>3
<1>9. StatesOK'
  <2>1. job[o] \in Jobs /\ job \in [Objs -> Jobs \cup {NoJob}]
    BY <1>1, HeapAssumption DEF HeapInv, TypeInv, StatesOK, o
  <2>2. [job[o] EXCEPT !.int = int] \in Jobs /\ [job[o] EXCEPT !.int = int] # NoJob
    BY <2>1, HeapAssumption DEF Jobs
  <2>3. job' = [job EXCEPT ![o] = [job[o] EXCEPT !.int = int]]
    BY <1>1, <1>2, <2>1
  <2>4. job' \in [Objs -> Jobs \cup {NoJob}] /\ \A p \in Objs : job[p] # NoJob => job'[p] # NoJob
    BY <1>1, <2>1, <2>2, <2>3
  <2> QED
    BY <1>2, <1>3, <1>5, <1>6, <2>4 DEF HeapInv, TypeInv, StatesOK
<1> QED
  BY <1>6, <1>7, <1>8, <1>9

\* heap.Remove is called at the State's place and takes out no other.
LEMMA DropStep ==
  ASSUME HeapInv, NEW c \in Configs, Drop(c), doubled' = doubled
  PROVE  StatesOK' /\ HeapOK' /\ IndexOK' /\ Sorted'
<1> DEFINE o == states[c]
           i == hp.ix[o]
           g == IF o \in inFlight THEN hp ELSE HeapRemove(hp, nextDue, i)
<1>1. o \in Objs /\ hp \in Heaps /\ IndexFits(hp) /\ nextDue \in [Objs -> Nat]
      /\ states \in [Configs -> Objs \cup {NoObj}]
  BY DEF Drop, HeapInv, TypeInv, StatesOK, HeapOK
<1>2. /\ states' = [states EXCEPT ![c] = NoObj]
      /\ hp' = g
      /\ IF o \in ToSet(hp'.q)
         THEN UNCHANGED <<job, nextDue, inFlight>>
         ELSE /\ job' = [job EXCEPT ![o] = NoJob]
              /\ nextDue' = [nextDue EXCEPT ![o] = 0]
              /\ inFlight' = inFlight \ {o}
  BY DEF Drop
<1> HIDE DEF g, i, o
<1>3. o \notin inFlight => i \in Places(hp) /\ At(hp, i) = o
  BY <1>1 DEF HeapInv, IndexOK, Places, o, i
<1>4. /\ g \in Heaps
      /\ \A p : Holds(g, p) => Holds(hp, p)
      /\ Distinct(hp) => Distinct(g)
      /\ Distinct(hp) /\ o \notin inFlight => ~Holds(g, o)
      /\ \A p \in Objs : p # o /\ Placed(hp, p) => Placed(g, p)
      /\ IndexFits(g)
      /\ InOrder(hp, nextDue) => InOrder(g, nextDue)
  <2>1. CASE o \in inFlight
    BY <1>1, <2>1 DEF g
  <2>2. CASE o \notin inFlight
    BY <1>1, <1>3, <2>2, RemoveIs DEF g
  <2> QED
    BY <2>1, <2>2
<1>5. /\ HeapOK' /\ \A p : Holds(hp, p)' <=> Holds(g, p)
      /\ InOrder(hp, nextDue)' <=> InOrder(g, nextDue')
      /\ Distinct(hp)' <=> Distinct(g)
      /\ (\A d \in Configs : states'[d] \in Objs \ inFlight' => Placed(g, states'[d]))
           => IndexOK'
  BY <1>2, <1>4, HeapSteps
<1>6. o \in ToSet(hp'.q) <=> Holds(g, o)
  BY <1>1, <1>2, <1>4, HoldsIs
<1>7. \A d \in Configs : /\ states'[d] = IF d = c THEN NoObj ELSE states[d]
                         /\ states'[d] # o
  <2>1. o # NoObj
    BY <1>1, HeapAssumption
  <2> QED
    BY <1>1, <1>2, <2>1 DEF HeapInv, TypeInv, StatesOK, o
<1>8. /\ nextDue' \in [Objs -> Nat] /\ \A p \in Objs \ {o} : nextDue'[p] = nextDue[p]
      /\ Holds(g, o) => nextDue' = nextDue
      /\ inFlight' \subseteq inFlight /\ inFlight \subseteq inFlight' \cup {o}
  BY <1>1, <1>2, <1>6
<1>9. IndexOK'
  <2>1. ASSUME NEW d \in Configs, states'[d] \in Objs \ inFlight' PROVE Placed(g, states'[d])
    <3>1. states'[d] = states[d] /\ states[d] # o /\ states[d] \in Objs \ inFlight
      BY <1>7, <1>8, <2>1, HeapAssumption
    <3>2. Placed(hp, states[d])
      BY <3>1 DEF HeapInv, IndexOK, Placed, Places
    <3> QED
      BY <1>4, <3>1, <3>2
  <2> QED
    BY <1>5, <2>1
<1>10. Sorted'
  <2> SUFFICES ASSUME ~doubled
               PROVE  /\ InOrder(g, nextDue') /\ Distinct(g)
                      /\ \A p \in inFlight' : ~Holds(g, p)
    BY <1>5 DEF Sorted
  <2>1. InOrder(hp, nextDue) /\ Distinct(hp) /\ \A p \in inFlight : ~Holds(hp, p)
    BY DEF HeapInv, Sorted
  <2>2. \A k \in Places(g) : Due(g, nextDue', k) = Due(g, nextDue, k)
    <3>1. \A k \in Places(g) : At(g, k) \in Objs /\ (At(g, k) = o => Holds(g, o))
      BY <1>4, HeapType DEF Holds
    <3> QED
      BY <1>8, <3>1 DEF Due
  <2>3. InOrder(g, nextDue')
    <3>1. Len0(g) \in Nat
      BY <1>4, HeapType
    <3>2. \A k \in 1..(Len0(g) - 1) : k \in Places(g) /\ Parent(k) \in Places(g)
      BY <3>1, ParentIs DEF Places
    <3> QED
      BY <1>4, <2>1, <2>2, <3>2 DEF InOrder, Ordered, Rising
  <2> QED
    BY <1>4, <1>8, <2>1, <2>3
<1>11. StatesOK'
  <2>1. /\ job' \in [Objs -> Jobs \cup {NoJob}]
        /\ \A p \in Objs : job'[p] = job[p] \/ (p = o /\ ~Holds(g, o))
    BY <1>1, <1>2, <1>6 DEF HeapInv, TypeInv, StatesOK
  <2>2. states' \in [Configs -> Objs \cup {NoObj}]
    BY <1>1, <1>2
  <2>3. \A d \in Configs : states'[d] # NoObj => job'[states'[d]] # NoJob
    BY <1>7, <2>1, <2>2 DEF HeapInv, TypeInv, StatesOK
  <2>4. \A p \in Objs : Holds(hp, p)' => job'[p] # NoJob
    BY <1>4, <1>5, <2>1 DEF HeapInv, TypeInv, StatesOK
  <2>5. \A d, e \in Configs : states'[d] = states'[e] /\ states'[d] # NoObj => d = e
    BY <1>7 DEF HeapInv, TypeInv, StatesOK
  <2>6. inFlight' \subseteq Objs /\ doubled' \in BOOLEAN
    BY <1>8 DEF HeapInv, TypeInv, StatesOK
  <2> QED
    BY <1>8, <2>1, <2>2, <2>3, <2>4, <2>5, <2>6 DEF StatesOK
<1> QED
  BY <1>5, <1>9, <1>10, <1>11

LEMMA RecvConfigEventStep ==
  ASSUME HeapInv, NEW c \in Configs, RecvConfigEvent(c)
  PROVE  HeapInv'
<1>1. doubled' = doubled /\ LoopAgain /\ schedPc = "select"
  BY DEF RecvConfigEvent
<1>2. sent' \in Nat /\ reports' \in Seq([cfg : Configs, at : Nat])
  BY DEF RecvConfigEvent, HeapInv, TypeInv, ClockOK, ThreadsOK
<1>3. ClockOK' /\ ThreadsOK' /\ TimerSet'
  BY <1>1, <1>2, LoopStep
<1>4. StatesOK' /\ HeapOK' /\ IndexOK' /\ Sorted'
  <2>1. CASE \E int \in Intervals : Adopt(c, int)
    BY <1>1, <2>1, AdoptStep
  <2>2. CASE \E int \in Intervals : \E updated \in BOOLEAN : Retarget(c, int, updated)
    BY <1>1, <2>2, RetargetStep
  <2>3. CASE Drop(c)
    BY <1>1, <2>3, DropStep
  <2> QED
    BY <2>1, <2>2, <2>3 DEF RecvConfigEvent
<1> QED
  BY <1>3, <1>4 DEF HeapInv, TypeInv

LEMMA Steps ==
  ASSUME HeapInv, [Next]_vars
  PROVE  HeapInv'
<1>1. CASE UNCHANGED vars
  <2>1. StatesOK' /\ HeapOK' /\ IndexOK' /\ Sorted'
    BY <1>1, StatesUntouched DEF vars
  <2>2. \A o : Holds(hp, o)' <=> Holds(hp, o)
    BY <1>1 DEF vars, Holds, Places, Len0, At
  <2>3. ClockOK' /\ ThreadsOK'
    BY <1>1 DEF vars, HeapInv, TypeInv, ClockOK, ThreadsOK
  <2>4. TimerSet'
    BY <1>1, <2>2 DEF vars, HeapInv, TimerSet
  <2> QED
    BY <2>1, <2>3, <2>4 DEF HeapInv, TypeInv
<1> QED
  BY <1>1, TickStep, SendStep, SleepStep, TimerStep, CheckEndsStep, PopStep, RecvEventStep,
    RecvConfigEventStep DEF Next

LEMMA Always == Spec => []HeapInv
<1>1. Init => HeapInv
  BY Starts
<1>2. HeapInv /\ [Next]_vars => HeapInv'
  BY Steps
<1> QED
  BY <1>1, <1>2, PTL DEF Spec

-----------------------------------------------------------------------------
(* The theorems                                                              *)

\* Every reachable state is well typed, for any number of configs and addresses:
\* what the map and the heap name has a job, and an index is a place or -1.
THEOREM TypeCorrect == Spec => []TypeOK
<1>1. HeapInv => TypeOK
  BY TypeInvTypes DEF HeapInv
<1> QED
  BY <1>1, Always, PTL

\* heap.Fix and heap.Remove are always given the place where the State is,
\* even when it was pushed twice (applyConfigEvent).
THEOREM IndexIsPlace == Spec => []IndexOK
<1>1. HeapInv => IndexOK
  BY DEF HeapInv
<1> QED
  BY <1>1, Always, PTL

\* As long as no State was pushed twice, the timer fires before anything in the
\* heap is due, whatever was pushed, fixed and removed (sleepUntilNext).
THEOREM NeverSleepsPast == Spec => []NoOversleep
<1>1. HeapInv => NoOversleep
  BY InHeapIs DEF HeapInv, TypeInv, TimerSet, NoOversleep
<1> QED
  BY <1>1, Always, PTL

\* And dispatch takes the checks that are due in the order they were due.
THEOREM TakesOldest == Spec => OldestFirst
<1>1. ASSUME HeapInv, [Next]_vars, NEW o \in Objs, o \in inFlight' \ inFlight, ~doubled,
             NEW p \in InHeap
      PROVE  nextDue[o] <= nextDue[p]
  <2>1. PopDue
    BY <1>1 DEF Next, vars, Tick, SendJob, Sleep, TimerFires, RecvEvent, RecvConfigEvent,
      CheckEnds, Adopt, Retarget, Drop
  <2>2. o = At(hp, 0)
    BY <1>1, <2>1 DEF PopDue
  <2>3. p \in Objs /\ Holds(hp, p)
    BY <1>1, InHeapIs DEF HeapInv, TypeInv
  <2>4. PICK k \in Places(hp) : At(hp, k) = p
    BY <2>3 DEF Holds
  <2>5. Due(hp, nextDue, 0) <= Due(hp, nextDue, k)
    BY <1>1, HeadFirst DEF HeapInv, TypeInv, HeapOK, StatesOK, Sorted, InOrder
  <2> QED
    BY <2>2, <2>4, <2>5 DEF Due
<1>2. HeapInv /\ [Next]_vars =>
        [\A o \in Objs : o \in inFlight' \ inFlight /\ ~doubled =>
           \A p \in InHeap : nextDue[o] <= nextDue[p]]_vars
  BY <1>1
<1> QED
  BY <1>2, Always, PTL DEF Spec, OldestFirst
=============================================================================
