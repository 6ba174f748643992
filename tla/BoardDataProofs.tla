--------------------------- MODULE BoardDataProofs ---------------------------
(***************************************************************************)
(* Proofs about what the constructor of BoardData makes of a               *)
(* configuration: the pins and drivers of Gpio, whatever the order they    *)
(* are listed in and however often, and the banks of DeviceBanks, for all  *)
(* devices.                                                                *)
(***************************************************************************)
EXTENDS Gpio, DeviceBanks, BisectionProofs, SequenceTheorems, FiniteSetTheorems, TLAPS

-----------------------------------------------------------------------------
(* What the constructor makes of a configuration.                          *)

\* A sequence can be sorted: a counterexample would have a shortest part that
\* cannot, and its last number can be inserted into the rest.
LEMMA CanSort ==
  ASSUME NEW ids, NEW N \in Nat, DOMAIN ids = 1..N, \A i \in 1..N : ids[i] \in Nat
  PROVE  \E p \in [DOMAIN ids -> DOMAIN ids] : Sorts(p, ids)
<1> DEFINE Sorted(m, p) == /\ \A i \in 1..m : \E j \in 1..m : p[j] = i
                           /\ \A i, j \in 1..m : i < j => ids[p[i]] <= ids[p[j]]
           Can(m) == \E p \in [1..m -> 1..m] : Sorted(m, p)
           bad == {m \in 0..N : ~Can(m)}
<1>1. ASSUME bad # {} PROVE FALSE
  <2>1. bad \subseteq Nat
    OBVIOUS
  <2>2. PICK m \in bad : \A y \in bad : m <= y
    <3> HIDE DEF bad
    <3> QED
      BY <1>1, <2>1, Least
  <2>3. m \in 0..N /\ ~Can(m)
    OBVIOUS
  <2>4. m # 0
    <3>1. Can(0)
      <4>1. [i \in 1..0 |-> i] \in [1..0 -> 1..0]
        OBVIOUS
      <4>2. Sorted(0, [i \in 1..0 |-> i])
        OBVIOUS
      <4> QED
        BY <4>1, <4>2
    <3> HIDE DEF Can
    <3> QED
      BY <2>3, <3>1
  <2>5. Can(m - 1)
    <3> HIDE DEF Can
    <3>1. m - 1 \in 0..N /\ ~(m <= m - 1)
      BY <2>3, <2>4
    <3>2. m - 1 \notin bad
      BY <2>2, <3>1
    <3> QED
      BY <3>1, <3>2
  <2> HIDE DEF bad
  <2>6. PICK p \in [1..(m - 1) -> 1..(m - 1)] : Sorted(m - 1, p)
    BY <2>5
  <2>16. /\ \A x, y \in 1..(m - 1) : x < y => ids[p[x]] <= ids[p[y]]
         /\ \A x \in 1..(m - 1) : \E y \in 1..(m - 1) : p[y] = x
    BY <2>6
  <2>17. m \in Nat /\ N \in Nat /\ m <= N /\ m >= 1
    BY <2>3, <2>4
  <2> HIDE DEF Sorted, Can
  <2> DEFINE big == {k \in 1..(m - 1) : ids[m] < ids[p[k]]} \cup {m}
  <2>7. PICK k \in big : \A y \in big : k <= y
    <3>1. big \subseteq Nat /\ big # {}
      BY <2>17
    <3> HIDE DEF big
    <3> QED
      BY <3>1, Least
  <2>8. m \in 1..N /\ k \in 1..m /\ k \in Nat /\ ids[m] \in Nat
    <3>1. m \in 1..N /\ k \in 1..m
      BY <2>17
    <3> QED
      BY <3>1, <2>17
  <2>9. \A i \in 1..(m - 1) : p[i] \in 1..(m - 1) /\ ids[p[i]] \in Nat
    <3> SUFFICES ASSUME NEW i \in 1..(m - 1) PROVE p[i] \in 1..(m - 1) /\ ids[p[i]] \in Nat
      OBVIOUS
    <3>1. p[i] \in 1..(m - 1)
      OBVIOUS
    <3>2. p[i] \in 1..N
      BY <2>17, <3>1
    <3> QED
      BY <3>1, <3>2
  <2>10. /\ \A i \in 1..(k - 1) : ids[p[i]] <= ids[m]
         /\ \A i \in k..(m - 1) : ids[m] <= ids[p[i]]
    <3>1. ASSUME NEW i \in 1..(k - 1) PROVE ids[p[i]] <= ids[m]
      <4>1. i \in 1..(m - 1) /\ ~(k <= i)
        BY <2>8, <2>17
      <4>2. ~(ids[m] < ids[p[i]])
        BY <2>7, <4>1
      <4>3. ids[p[i]] \in Nat /\ ids[m] \in Nat
        BY <2>8, <2>9, <4>1
      <4> QED
        BY <4>2, <4>3
    <3>2. ASSUME NEW i \in k..(m - 1) PROVE ids[m] <= ids[p[i]]
      <4>1. k \in 1..(m - 1) /\ i \in 1..(m - 1) /\ k # m
        BY <2>8, <2>17
      <4>2. ids[m] < ids[p[k]]
        BY <2>7, <4>1
      <4>3. ids[p[k]] \in Nat /\ ids[p[i]] \in Nat /\ ids[m] \in Nat
        BY <2>8, <2>9, <4>1
      <4>4. CASE k = i
        BY <4>2, <4>3, <4>4
      <4>5. CASE k # i
        <5>1. k < i
          BY <2>8, <4>5
        <5>2. ids[p[k]] <= ids[p[i]]
          BY <2>16, <4>1, <5>1
        <5> QED
          BY SMTT(40), <4>2, <4>3, <5>2
      <4> QED
        BY <4>4, <4>5
    <3> QED
      BY <3>1, <3>2
  <2> HIDE DEF big
  <2> DEFINE q == [i \in 1..m |-> IF i < k THEN p[i] ELSE IF i = k THEN m ELSE p[i - 1]]
  <2>11. /\ \A i \in 1..m : i < k => i \in 1..(m - 1) /\ q[i] = p[i]
         /\ \A i \in 1..m : i > k => i - 1 \in 1..(m - 1) /\ i - 1 >= k /\ q[i] = p[i - 1]
         /\ q[k] = m
    BY <2>8, <2>17
  <2>12. q \in [1..m -> 1..m]
    <3> SUFFICES ASSUME NEW i \in 1..m PROVE q[i] \in 1..m
      OBVIOUS
    <3>1. CASE i < k
      <4>1. q[i] = p[i] /\ p[i] \in 1..(m - 1)
        BY <2>9, <2>11, <3>1
      <4> HIDE DEF q
      <4> QED
        BY <2>17, <4>1
    <3>2. CASE i = k
      BY <2>17, <2>11, <3>2
    <3>3. CASE i > k
      <4>1. q[i] = p[i - 1] /\ p[i - 1] \in 1..(m - 1)
        BY <2>9, <2>11, <3>3
      <4> HIDE DEF q
      <4> QED
        BY <2>17, <4>1
    <3> QED
      BY <2>8, <3>1, <3>2, <3>3
  <2> HIDE DEF q
  <2>13. \A i \in 1..m : \E j \in 1..m : q[j] = i
    <3> SUFFICES ASSUME NEW i \in 1..m PROVE \E j \in 1..m : q[j] = i
      OBVIOUS
    <3>1. CASE i = m
      BY <2>8, <2>11, <3>1
    <3>2. CASE i # m
      <4>1. i \in 1..(m - 1)
        BY <2>8, <3>2
      <4>2. PICK j \in 1..(m - 1) : p[j] = i
        BY <2>16, <4>1
      <4>3. CASE j < k
        <5>1. j \in 1..m
          BY <2>8
        <5> QED
          BY <2>11, <4>2, <4>3, <5>1
      <4>4. CASE ~(j < k)
        <5>1. j + 1 \in 1..m /\ j + 1 > k /\ (j + 1) - 1 = j
          BY <2>8, <4>4
        <5> QED
          BY <2>11, <4>2, <5>1
      <4> QED
        BY <4>3, <4>4
    <3> QED
      BY <3>1, <3>2
  <2>14. \A i, j \in 1..m : i < j => ids[q[i]] <= ids[q[j]]
    <3> SUFFICES ASSUME NEW i \in 1..m, NEW j \in 1..m, i < j
                 PROVE  ids[q[i]] <= ids[q[j]]
      OBVIOUS
    <3>1. \A x, y \in 1..(m - 1) : x < y => ids[p[x]] <= ids[p[y]]
      BY <2>16
    <3>2. CASE j < k
      <4>1. i < k /\ i \in 1..(m - 1) /\ j \in 1..(m - 1)
        BY <2>8, <3>2
      <4> QED
        BY <2>11, <3>1, <3>2, <4>1
    <3>3. CASE j = k
      <4>1. i < k /\ i \in 1..(k - 1)
        BY <2>8, <3>3
      <4> QED
        BY <2>10, <2>11, <3>3, <4>1
    <3>4. CASE j > k /\ i < k
      <4>1. i \in 1..(m - 1) /\ j - 1 \in 1..(m - 1) /\ i < j - 1
        BY <2>8, <3>4
      <4>2. ids[p[i]] <= ids[p[j - 1]]
        BY <3>1, <4>1
      <4> QED
        BY <2>11, <3>4, <4>2
    <3>5. CASE j > k /\ i = k
      <4>1. j - 1 \in k..(m - 1)
        BY <2>8, <3>5
      <4> QED
        BY <2>10, <2>11, <3>5, <4>1
    <3>6. CASE i > k
      <4>1. i - 1 \in 1..(m - 1) /\ j - 1 \in 1..(m - 1) /\ i - 1 < j - 1 /\ j > k
        BY <2>8, <3>6
      <4>2. ids[p[i - 1]] <= ids[p[j - 1]]
        BY <3>1, <4>1
      <4> QED
        BY <2>11, <3>6, <4>1, <4>2
    <3> QED
      BY <2>8, <3>2, <3>3, <3>4, <3>5, <3>6
  <2>15. Sorted(m, q)
    BY <2>13, <2>14 DEF Sorted
  <2> QED
    BY <2>3, <2>12, <2>15 DEF Can
<1>2. Can(N)
  <2> HIDE DEF Can
  <2> QED
    BY <1>1
<1> QED
  BY <1>2 DEF Sorts

\* The pins are numbered as listed, in order.
LEMMA OrderIsRight ==
  ASSUME NEW S, S \subseteq Nat, NEW ids \in Seq(S)
  PROVE  /\ DOMAIN Order(ids) = 1..Len(ids) /\ Len(ids) \in Nat
         /\ \A i \in 1..Len(ids) : Order(ids)[i] \in S
         /\ \A i \in 1..Len(ids) : \E j \in 1..Len(ids) : Order(ids)[j] = ids[i]
         /\ \A j \in 1..Len(ids) : \E i \in 1..Len(ids) : Order(ids)[j] = ids[i]
         /\ \A i, j \in 1..Len(ids) : i < j => Order(ids)[i] <= Order(ids)[j]
<1>1. DOMAIN ids = 1..Len(ids) /\ Len(ids) \in Nat /\ \A i \in 1..Len(ids) : ids[i] \in S
  <2>1. DOMAIN ids = 1..Len(ids) /\ Len(ids) \in Nat
    BY LenProperties
  <2>2. \A i \in 1..Len(ids) : ids[i] \in S
    BY ElementOfSeq
  <2> QED
    BY <2>1, <2>2
<1>2. \E p \in [DOMAIN ids -> DOMAIN ids] : Sorts(p, ids)
  <2>1. \A i \in 1..Len(ids) : ids[i] \in Nat
    BY <1>1
  <2> QED
    BY <1>1, <2>1, CanSort
<1> DEFINE p == CHOOSE p \in [DOMAIN ids -> DOMAIN ids] : Sorts(p, ids)
<1>3. p \in [DOMAIN ids -> DOMAIN ids] /\ Sorts(p, ids)
  BY <1>2
<1>4. Order(ids) = [i \in DOMAIN ids |-> ids[p[i]]]
  BY DEF Order
<1> HIDE DEF p
<1>5. \A i \in 1..Len(ids) : p[i] \in 1..Len(ids) /\ Order(ids)[i] = ids[p[i]]
  BY <1>1, <1>3, <1>4
<1>6. /\ \A i \in 1..Len(ids) : \E j \in 1..Len(ids) : p[j] = i
      /\ \A i, j \in 1..Len(ids) : i < j => ids[p[i]] <= ids[p[j]]
  BY <1>1, <1>3 DEF Sorts
<1>7. DOMAIN Order(ids) = 1..Len(ids)
  BY <1>1, <1>4
<1>8. \A i \in 1..Len(ids) : Order(ids)[i] \in S
  BY <1>1, <1>5
<1>9. \A j \in 1..Len(ids) : \E i \in 1..Len(ids) : Order(ids)[j] = ids[i]
  BY <1>5
<1>10. \A i \in 1..Len(ids) : \E j \in 1..Len(ids) : Order(ids)[j] = ids[i]
  <2> SUFFICES ASSUME NEW i \in 1..Len(ids) PROVE \E j \in 1..Len(ids) : Order(ids)[j] = ids[i]
    OBVIOUS
  <2>1. PICK j \in 1..Len(ids) : p[j] = i
    BY <1>6
  <2> QED
    BY <1>5, <2>1
<1>11. \A i, j \in 1..Len(ids) : i < j => Order(ids)[i] <= Order(ids)[j]
  BY <1>5, <1>6
<1> QED
  BY <1>1, <1>7, <1>8, <1>9, <1>10, <1>11

\* The pins after the first n drivers, given what they were before the last of them.
Layer(f, c, n) == IF n = 0 THEN [i \in DOMAIN Order(c.pins) |-> Blank(Order(c.pins)[i])]
                  ELSE Drive(f[n - 1], c.drivers[n])

\* The recursive function of Pins exists: a counterexample would have a first
\* driver at which it does not.
LEMMA Layers ==
  ASSUME NEW c, NEW N \in Nat
  PROVE  \E f : f = [n \in 0..N |-> Layer(f, c, n)]
<1> DEFINE Good(m) == \E f : f = [n \in 0..m |-> Layer(f, c, n)]
           bad == {m \in 0..N : ~Good(m)}
<1>1. SUFFICES ASSUME bad # {} PROVE FALSE
  OBVIOUS
<1>2. PICK m \in bad : \A y \in bad : m <= y
  <2>1. bad \subseteq Nat
    OBVIOUS
  <2> HIDE DEF bad
  <2> QED
    BY <1>1, <2>1, Least
<1>3. m \in 0..N
  OBVIOUS
<1>4. \E f : \A n \in 0..(m - 1) : f[n] = Layer(f, c, n)
  <2>1. CASE m = 0
    BY <2>1
  <2>2. CASE m # 0
    <3>1. m - 1 \in 0..N /\ ~(m <= m - 1)
      BY <1>3, <2>2
    <3>2. m - 1 \notin bad
      BY <1>2, <3>1
    <3>3. PICK f : f = [n \in 0..(m - 1) |-> Layer(f, c, n)]
      BY <3>1, <3>2
    <3> HIDE DEF Good, bad
    <3>4. \A n \in 0..(m - 1) : f[n] = Layer(f, c, n)
      BY <3>3
    <3> QED
      BY <3>4
  <2> QED
    BY <2>1, <2>2
<1>5. PICK f : \A n \in 0..(m - 1) : f[n] = Layer(f, c, n)
  BY <1>4
<1> DEFINE g == [n \in 0..m |-> Layer(f, c, n)]
<1>6. \A n \in 0..m : Layer(g, c, n) = Layer(f, c, n)
  <2> SUFFICES ASSUME NEW n \in 0..m PROVE Layer(g, c, n) = Layer(f, c, n)
    OBVIOUS
  <2>1. \A k \in 0..(m - 1) : g[k] = f[k]
    BY <1>3, <1>5
  <2> HIDE DEF g
  <2>2. CASE n = 0
    BY <2>2 DEF Layer
  <2>3. CASE n # 0
    <3>1. n - 1 \in 0..(m - 1)
      BY <1>3, <2>3
    <3>2. g[n - 1] = f[n - 1]
      BY <2>1, <3>1
    <3> QED
      BY <2>3, <3>2 DEF Layer
  <2> QED
    BY <2>2, <2>3
<1>7. g = [n \in 0..m |-> Layer(g, c, n)]
  BY <1>6
<1>8. Good(m)
  <2> HIDE DEF g
  <2> QED
    BY <1>7
<1> QED
  BY <1>2, <1>3, <1>8

\* What Pins computes is one driver after the other.
LEMMA Unfolding ==
  ASSUME NEW c, Len(c.drivers) \in Nat
  PROVE  \E f : /\ \A n \in 0..Len(c.drivers) : f[n] = Layer(f, c, n)
                /\ Pins(c) = f[Len(c.drivers)]
<1> DEFINE Eq(g) == g = [n \in 0..Len(c.drivers) |-> Layer(g, c, n)]
           f == CHOOSE g : Eq(g)
<1>1. \E g : Eq(g)
  BY Layers
<1>2. Eq(f)
  <2> HIDE DEF Eq
  <2> QED
    BY <1>1
<1>3. Pins(c) = f[Len(c.drivers)]
  BY DEF Pins, Layer
<1> HIDE DEF f
<1>4. \A n \in 0..Len(c.drivers) : f[n] = Layer(f, c, n)
  BY <1>2
<1> QED
  BY <1>3, <1>4

\* What the last of the first k drivers for pin n allows, or nothing.
Giving(c, k, n, kind) == {j \in 1..k : c.drivers[j].pin = n /\ c.drivers[j][kind] # <<>>}
LastOf(c, S, kind) ==
  IF S = {} THEN {} ELSE c.drivers[CHOOSE j \in S : \A m \in S : m <= j][kind][1]
Allowed(c, k, n, kind) == LastOf(c, Giving(c, k, n, kind), kind)

Kinds == {"digital", "analog"}

\* One more driver replaces what the earlier ones for its pin allowed, if it is given.
LEMMA AllowedNext ==
  ASSUME NEW c, NEW k \in Nat, NEW n, NEW kind
  PROVE  Allowed(c, k + 1, n, kind) =
           IF c.drivers[k + 1].pin = n THEN Given(Allowed(c, k, n, kind), c.drivers[k + 1][kind])
           ELSE Allowed(c, k, n, kind)
<1> DEFINE S == Giving(c, k, n, kind)
           T == Giving(c, k + 1, n, kind)
<1>1. CASE c.drivers[k + 1].pin = n /\ c.drivers[k + 1][kind] # <<>>
  <2>1. k + 1 \in T /\ T \subseteq 1..(k + 1)
    BY <1>1 DEF Giving
  <2> DEFINE top == CHOOSE j \in T : \A m \in T : m <= j
  <2>2. top = k + 1
    <3>1. \A m \in T : m <= k + 1 /\ m \in Nat
      BY <2>1
    <3> HIDE DEF T
    <3>2. top \in T /\ \A m \in T : m <= top
      BY <2>1, <3>1
    <3> HIDE DEF top
    <3>3. k + 1 <= top /\ top <= k + 1 /\ top \in Nat
      BY <2>1, <3>1, <3>2
    <3> QED
      BY <3>3
  <2>3. T # {}
    BY <2>1
  <2>4. Allowed(c, k + 1, n, kind) = c.drivers[top][kind][1]
    BY <2>3 DEF Allowed, LastOf
  <2> HIDE DEF top, T
  <2>5. Allowed(c, k + 1, n, kind) = c.drivers[k + 1][kind][1]
    BY <2>2, <2>4
  <2> QED
    BY <1>1, <2>5 DEF Given
<1>2. CASE ~(c.drivers[k + 1].pin = n /\ c.drivers[k + 1][kind] # <<>>)
  <2>1. T = S
    <3>1. \A j : j \in 1..(k + 1) <=> j \in 1..k \/ j = k + 1
      OBVIOUS
    <3> QED
      BY <1>2, <3>1 DEF Giving
  <2>2. Allowed(c, k + 1, n, kind) = Allowed(c, k, n, kind)
    BY <2>1 DEF Allowed
  <2> QED
    BY <1>2, <2>2 DEF Given
<1> QED
  BY <1>1, <1>2

\* The pins after the first k drivers: numbered in order, unused, and the first pin of
\* each number allows what these drivers say.
First(ids, i) == \A j \in DOMAIN ids : j < i => ids[j] # ids[i]
PinIs(ids, ps, i) == /\ ps[i] \in PinRecords /\ ps[i].id = ids[i]
                     /\ ps[i].value = 0 /\ ps[i].direction = "in"
Made(c, ids, ps, k) ==
  /\ ps \in [DOMAIN ids -> PinRecords]
  /\ \A i \in DOMAIN ids : PinIs(ids, ps, i)
  /\ \A i \in DOMAIN ids : First(ids, i) =>
        /\ ps[i].digital = Allowed(c, k, ids[i], "digital")
        /\ ps[i].analog = Allowed(c, k, ids[i], "analog")

\* Words are naturals, and the levels of a digital pin are words.
LEMMA WordFacts ==
  /\ \A v \in 0..255 : v \in Words
  /\ \A v \in Words : v \in Nat
<1>1. \A v \in 0..255 : v \in Words
  BY SMT DEF Words
<1>2. \A v \in Words : v \in Nat
  BY SMT DEF Words
<1> QED
  BY <1>1, <1>2

\* Given yields a driver, old or new.
LEMMA GivenIsAllowed ==
  ASSUME NEW S, NEW old \in S, NEW new \in Seq(S)
  PROVE  Given(old, new) \in S
<1>1. CASE new = <<>>
  BY <1>1 DEF Given
<1>2. CASE new # <<>>
  <2>1. Len(new) \in Nat /\ Len(new) # 0
    BY <1>2, EmptySeq, LenProperties
  <2>2. 1 \in 1..Len(new)
    BY <2>1
  <2>3. new[1] \in S
    BY <2>2, ElementOfSeq
  <2> QED
    BY <1>2, <2>3 DEF Given
<1> QED
  BY <1>1, <1>2

\* Before the first driver, no pin allows anything.
LEMMA MadeFirst ==
  ASSUME NEW c, NEW ids, NEW N \in Nat, DOMAIN ids = 1..N, \A i \in 1..N : ids[i] \in Words
  PROVE  Made(c, ids, [i \in DOMAIN ids |-> Blank(ids[i])], 0)
<1> DEFINE ps == [i \in DOMAIN ids |-> Blank(ids[i])]
<1>1. /\ DOMAIN ps = DOMAIN ids /\ ps = [i \in DOMAIN ids |-> ps[i]]
      /\ \A i \in DOMAIN ids : ps[i] = Blank(ids[i])
  OBVIOUS
<1> HIDE DEF ps
<1>2. \A n, kind : Allowed(c, 0, n, kind) = {}
  <2> SUFFICES ASSUME NEW n, NEW kind PROVE Allowed(c, 0, n, kind) = {}
    OBVIOUS
  <2>1. Giving(c, 0, n, kind) = {}
    BY DEF Giving
  <2> QED
    BY <2>1 DEF Allowed, LastOf
<1>3. ASSUME NEW i \in DOMAIN ids
      PROVE  PinIs(ids, ps, i) /\ ps[i].digital = {} /\ ps[i].analog = {}
  <2>1. ids[i] \in Words /\ ps[i] = Blank(ids[i])
    BY <1>1
  <2>2. 0 \in Words
    BY WordFacts
  <2> QED
    BY <2>1, <2>2 DEF Blank, PinIs, PinRecords
<1>4. \A i \in DOMAIN ids : PinIs(ids, ps, i)
  BY <1>3
<1>5. \A i \in DOMAIN ids : /\ ps[i].digital = Allowed(c, 0, ids[i], "digital")
                            /\ ps[i].analog = Allowed(c, 0, ids[i], "analog")
  BY <1>2, <1>3
<1>6. ps \in [DOMAIN ids -> PinRecords]
  BY <1>1, <1>4 DEF PinIs
<1>7. Made(c, ids, ps, 0)
  BY <1>4, <1>5, <1>6 DEF Made
<1> QED
  BY <1>7 DEF ps

\* One more driver changes the first pin of its number and no other.
LEMMA MadeNext ==
  ASSUME NEW c, NEW k \in Nat, c.drivers[k + 1] \in Drivers,
         NEW ids, NEW N \in Nat, DOMAIN ids = 1..N, \A i \in 1..N : ids[i] \in Words,
         NEW ps, Made(c, ids, ps, k)
  PROVE  Made(c, ids, Drive(ps, c.drivers[k + 1]), k + 1)
<1> DEFINE d == c.drivers[k + 1]
           at == {i \in DOMAIN ps : ps[i].id = d.pin}
           first == CHOOSE i \in at : \A j \in at : i <= j
           new == Drive(ps, d)
<1>1. /\ DOMAIN ps = 1..N
      /\ \A i \in 1..N : PinIs(ids, ps, i)
      /\ \A i \in 1..N : First(ids, i) =>
            /\ ps[i].digital = Allowed(c, k, ids[i], "digital")
            /\ ps[i].analog = Allowed(c, k, ids[i], "analog")
  BY DEF Made
<1>2. /\ \A i \in 1..N : i \in at <=> ids[i] = d.pin
      /\ at \subseteq 1..N
  BY <1>1 DEF PinIs
<1>3. at # {} => first \in at /\ \A j \in at : first <= j
  <2>1. at \subseteq Nat
    BY <1>2
  <2> HIDE DEF at
  <2>2. at # {} => \E i \in at : \A j \in at : i <= j
    BY <2>1, Least
  <2> QED
    BY <2>2
<1>4. new = IF at = {} THEN ps
            ELSE [ps EXCEPT ![first].digital = Given(@, d.digital),
                            ![first].analog = Given(@, d.analog)]
  BY DEF Drive
<1>5. d.digital \in Seq(SUBSET Abilities) /\ d.analog \in Seq(SUBSET Abilities) /\ d.pin \in Nat
  BY DEF Drivers
<1> HIDE DEF d, at, first, new
<1>6. DOMAIN new = 1..N /\ new = [i \in 1..N |-> new[i]]
  <2>1. ps = [i \in 1..N |-> ps[i]]
    BY DEF Made
  <2> QED
    BY <1>1, <1>4, <2>1
<1>7. ASSUME NEW i \in 1..N
      PROVE  new[i] = IF at # {} /\ i = first
                      THEN [ps[i] EXCEPT !.digital = Given(@, d.digital), !.analog = Given(@, d.analog)]
                      ELSE ps[i]
  <2>1. i \in DOMAIN ps
    BY <1>1
  <2>2. ps[i] \in PinRecords
    BY <1>1 DEF PinIs
  <2> QED
    BY <1>4, <2>1, <2>2 DEF PinRecords
<1>8. ASSUME NEW i \in 1..N PROVE PinIs(ids, new, i)
  <2>1. PinIs(ids, ps, i)
    BY <1>1
  <2>2. ps[i].digital \in SUBSET Abilities /\ ps[i].analog \in SUBSET Abilities
    BY <2>1 DEF PinIs, PinRecords
  <2>3. /\ Given(ps[i].digital, d.digital) \in SUBSET Abilities
        /\ Given(ps[i].analog, d.analog) \in SUBSET Abilities
    BY <1>5, <2>2, GivenIsAllowed
  <2>4. CASE ~(at # {} /\ i = first)
    <3>1. new[i] = ps[i]
      BY <1>7, <2>4
    <3> QED
      BY <2>1, <3>1 DEF PinIs
  <2>5. CASE at # {} /\ i = first
    <3>1. new[i] = [ps[i] EXCEPT !.digital = Given(@, d.digital), !.analog = Given(@, d.analog)]
      BY <1>7, <2>5
    <3> QED
      BY <2>1, <2>3, <3>1 DEF PinIs, PinRecords
  <2> QED
    BY <2>4, <2>5
<1>9. ASSUME NEW i \in 1..N, First(ids, i)
      PROVE  (at # {} /\ i = first) <=> ids[i] = d.pin
  <2>1. CASE ids[i] = d.pin
    <3>1. i \in at
      BY <1>2, <2>1
    <3>2. first \in at /\ first <= i /\ first \in 1..N
      BY <1>2, <1>3, <3>1
    <3>3. ids[first] = d.pin
      BY <1>2, <3>2
    <3>4. ~(first < i)
      BY <1>9, <2>1, <3>2, <3>3 DEF First
    <3> QED
      BY <2>1, <3>1, <3>2, <3>4
  <2>2. CASE ids[i] # d.pin
    <3>1. i \notin at
      BY <1>2, <2>2
    <3> QED
      BY <1>3, <2>2, <3>1
  <2> QED
    BY <2>1, <2>2
<1>10. ASSUME NEW i \in 1..N, First(ids, i)
       PROVE  /\ new[i].digital = Allowed(c, k + 1, ids[i], "digital")
              /\ new[i].analog = Allowed(c, k + 1, ids[i], "analog")
  <2>1. ps[i] \in PinRecords /\ ps[i].digital = Allowed(c, k, ids[i], "digital")
        /\ ps[i].analog = Allowed(c, k, ids[i], "analog")
    BY <1>1, <1>10 DEF PinIs
  <2>2. /\ Allowed(c, k + 1, ids[i], "digital") =
             IF d.pin = ids[i] THEN Given(Allowed(c, k, ids[i], "digital"), d.digital)
             ELSE Allowed(c, k, ids[i], "digital")
        /\ Allowed(c, k + 1, ids[i], "analog") =
             IF d.pin = ids[i] THEN Given(Allowed(c, k, ids[i], "analog"), d.analog)
             ELSE Allowed(c, k, ids[i], "analog")
    BY AllowedNext DEF d
  <2>3. CASE ids[i] = d.pin
    <3>1. new[i] = [ps[i] EXCEPT !.digital = Given(@, d.digital), !.analog = Given(@, d.analog)]
      BY <1>7, <1>9, <1>10, <2>3
    <3>2. new[i].digital = Given(ps[i].digital, d.digital) /\ new[i].analog = Given(ps[i].analog, d.analog)
      BY <2>1, <3>1 DEF PinRecords
    <3> QED
      BY <2>1, <2>2, <2>3, <3>2
  <2>4. CASE ids[i] # d.pin
    <3>1. new[i] = ps[i]
      BY <1>7, <1>9, <1>10, <2>4
    <3> QED
      BY <2>1, <2>2, <2>4, <3>1
  <2> QED
    BY <2>3, <2>4
<1>11. Made(c, ids, new, k + 1)
  <2>1. new \in [DOMAIN ids -> PinRecords]
    BY <1>6, <1>8 DEF PinIs
  <2> QED
    BY <1>6, <1>8, <1>10, <2>1 DEF Made
<1> QED
  BY <1>11 DEF new, d

\* The types of a configuration.
LEMMA ConfFacts ==
  ASSUME NEW c \in Confs
  PROVE  /\ c.pins \in Seq(Words) /\ c.drivers \in Seq(Drivers)
         /\ Len(c.drivers) \in Nat /\ DOMAIN c.drivers = 1..Len(c.drivers)
         /\ \A j \in 1..Len(c.drivers) : c.drivers[j] \in Drivers
<1>1. c.pins \in Seq(Words) /\ c.drivers \in Seq(Drivers)
  BY GpioAssumption, SMT
<1>2. Len(c.drivers) \in Nat /\ DOMAIN c.drivers = 1..Len(c.drivers)
  BY <1>1, LenProperties
<1>3. \A j \in 1..Len(c.drivers) : c.drivers[j] \in Drivers
  BY <1>1, ElementOfSeq
<1> QED
  BY <1>1, <1>2, <1>3

\* What the constructor makes of a configuration: a first driver after which it is
\* not made as it should be does not exist.
LEMMA PinsAreMade ==
  ASSUME NEW c \in Confs
  PROVE  Made(c, Order(c.pins), Pins(c), Len(c.drivers))
<1> DEFINE ids == Order(c.pins)
           N == Len(c.pins)
           K == Len(c.drivers)
<1>1. N \in Nat /\ DOMAIN ids = 1..N /\ \A i \in 1..N : ids[i] \in Words
  <2>1. c.pins \in Seq(Words) /\ Words \subseteq Nat
    BY ConfFacts, WordFacts
  <2> QED
    BY <2>1, OrderIsRight
<1>2. PICK f : (\A n \in 0..K : f[n] = Layer(f, c, n)) /\ Pins(c) = f[K]
  BY ConfFacts, Unfolding
<1>3. K \in Nat /\ \A j \in 1..K : c.drivers[j] \in Drivers
  BY ConfFacts
<1> HIDE DEF ids, N, K
<1>4. f[0] = [i \in DOMAIN ids |-> Blank(ids[i])]
  <2>1. 0 \in 0..K
    BY <1>3
  <2> QED
    BY <1>2, <2>1 DEF Layer, ids
<1>5. \A n \in 0..K : n # 0 => f[n] = Drive(f[n - 1], c.drivers[n])
  BY <1>2 DEF Layer
<1> DEFINE bad == {n \in 0..K : ~Made(c, ids, f[n], n)}
<1>6. ASSUME bad # {} PROVE FALSE
  <2>1. bad \subseteq Nat
    BY <1>3
  <2>2. PICK n \in bad : \A y \in bad : n <= y
    <3> HIDE DEF bad
    <3> QED
      BY <1>6, <2>1, Least
  <2>3. n \in 0..K /\ ~Made(c, ids, f[n], n)
    OBVIOUS
  <2>4. Made(c, ids, f[0], 0)
    BY <1>1, <1>4, MadeFirst
  <2>5. n # 0
    BY <2>3, <2>4
  <2>6. n - 1 \in Nat /\ n - 1 \in 0..K /\ n \in 1..K /\ ~(n <= n - 1) /\ (n - 1) + 1 = n
    BY <1>3, <2>3, <2>5
  <2>7. Made(c, ids, f[n - 1], n - 1)
    <3>1. n - 1 \notin bad
      BY <2>2, <2>6
    <3> QED
      BY <2>6, <3>1
  <2> HIDE DEF bad
  <2> DEFINE k == n - 1
  <2>8. c.drivers[k + 1] \in Drivers /\ k \in Nat
    BY <1>3, <2>6
  <2>9. Made(c, ids, f[k], k)
    BY <2>7
  <2> HIDE DEF k
  <2>10. Made(c, ids, Drive(f[k], c.drivers[k + 1]), k + 1)
    BY <1>1, <2>8, <2>9, MadeNext
  <2>11. f[n] = Drive(f[k], c.drivers[k + 1]) /\ k + 1 = n
    BY <1>5, <2>3, <2>5, <2>6 DEF k
  <2> QED
    BY <2>3, <2>10, <2>11
<1>7. Made(c, ids, f[K], K)
  BY <1>3, <1>6
<1> QED
  BY <1>2, <1>7 DEF ids, K
-----------------------------------------------------------------------------
(* How a pin is found.                                                     *)

\* An int converted to size_t is the number of a pin only if it was before: what is below
\* zero becomes larger than any 16-bit number.
LEMMA AsSizeIsRight ==
  ASSUME NEW n \in Numbers
  PROVE  AsSize(n) \in Nat /\ \A w \in Words : AsSize(n) = w <=> n = w
<1>1. n \in Int /\ -536870912 <= n /\ n < 536870912
  BY GpioAssumption, SMT
<1>4. \A w \in Words : w \in Nat /\ w < 536870912
  BY SMT DEF Words
<1>2. CASE n < 0
  <2>1. AsSize(n) = n + 1073741824
    BY <1>1, <1>2, SMT DEF AsSize
  <2>2. AsSize(n) \in Nat /\ 536870912 <= AsSize(n)
    BY <1>1, <2>1, SMT
  <2> QED
    BY <1>1, <1>2, <1>4, <2>2, SMT
<1>3. CASE 0 <= n
  <2>1. AsSize(n) = n
    BY <1>1, <1>3, SMT DEF AsSize
  <2> QED
    BY <1>1, <1>3, <1>4, <2>1, SMT
<1> QED
  BY <1>1, <1>2, <1>3, SMT

\* An interval from 1 tells its length.
LEMMA SameLength ==
  ASSUME NEW m \in Nat, NEW n \in Nat, 1..m = 1..n
  PROVE  m = n
<1>1. \A i \in Int : i \in 1..m <=> i \in 1..n
  OBVIOUS
<1>2. m # 0 => m \in 1..n
  BY <1>1
<1>3. n # 0 => n \in 1..m
  BY <1>1
<1> QED
  BY <1>2, <1>3

Numbered(N) == /\ N \in Nat /\ pins \in [1..N -> PinRecords]
               /\ \A i, j \in 1..N : i < j => pins[i].id <= pins[j].id

\* The look-up finds the first pin of a number, or none.
LEMMA FindIsRight ==
  ASSUME NEW N, Numbered(N), NEW n \in Numbers
  PROVE  /\ Find(n) \in 0..N
         /\ Exists(Find(n)) <=> \E i \in 1..N : pins[i].id = AsSize(n)
         /\ Exists(Find(n)) => /\ pins[Find(n)].id = AsSize(n)
                               /\ \A j \in 1..N : j < Find(n) => pins[j].id # AsSize(n)
<1> DEFINE keys == [j \in DOMAIN pins |-> pins[j].id]
           key == AsSize(n)
           b == LowerBound(keys, key)
<1>1. N \in Nat /\ DOMAIN pins = 1..N /\ \A i \in 1..N : pins[i].id \in Words
  BY DEF Numbered, PinRecords
<1>2. keys \in [1..N -> Words] /\ \A i \in 1..N : keys[i] = pins[i].id
  BY <1>1
<1>3. \A i, j \in 1..N : i < j => keys[i] <= keys[j]
  BY <1>2 DEF Numbered
<1>4. key \in Nat
  BY AsSizeIsRight
<1>5. Find(n) = IF b \in 1..N /\ pins[b].id = key THEN b ELSE 0
  BY <1>1 DEF Find
<1> HIDE DEF keys, key
<1>6. Len(keys) = N
  <2>1. keys \in Seq(Words)
    BY <1>1, <1>2, SeqDef
  <2>2. Len(keys) \in Nat /\ DOMAIN keys = 1..Len(keys)
    BY <2>1, LenProperties
  <2>3. DOMAIN keys = 1..N
    BY <1>2
  <2>4. 1..N = 1..Len(keys)
    BY <2>2, <2>3
  <2> QED
    BY <1>1, <2>2, <2>4, SameLength
<1>7. \A i \in 1..N : keys[i] \in Nat
  BY <1>1, <1>2, WordFacts
<1>8. b \in 1..(N + 1) /\ \A i \in 1..N : keys[i] < key <=> i < b
  <2>1. Len(keys) \in Nat /\ \A i \in 1..Len(keys) : keys[i] \in Nat
    BY <1>1, <1>6, <1>7
  <2>2. \A i, j \in 1..Len(keys) : i < j => keys[i] <= keys[j]
    BY <1>3, <1>6
  <2> QED
    BY <1>4, <1>6, <2>1, <2>2, LowerBoundIsRight
<1> HIDE DEF b
<1>9. \A i \in 1..N : pins[i].id = key => b <= i /\ pins[b].id = key /\ b \in 1..N
  <2> SUFFICES ASSUME NEW i \in 1..N, pins[i].id = key
               PROVE  b <= i /\ pins[b].id = key /\ b \in 1..N
    OBVIOUS
  <2>1. keys[i] = key /\ ~(keys[i] < key)
    BY <1>2, <1>4
  <2>2. b <= i /\ b \in 1..N
    BY <1>1, <1>8, <2>1
  <2>3. ~(keys[b] < key) /\ keys[b] \in Nat
    BY <1>7, <1>8, <2>2
  <2>4. keys[b] <= key
    <3>1. CASE b = i
      BY <1>4, <2>1, <3>1
    <3>2. CASE b # i
      <4>1. b < i
        BY <1>1, <2>2, <3>2
      <4> QED
        BY <1>3, <2>1, <2>2, <4>1
    <3> QED
      BY <3>1, <3>2
  <2>5. keys[b] = key
    BY <1>4, <2>3, <2>4
  <2> QED
    BY <1>2, <2>2, <2>5
<1>10. Find(n) \in 0..N
  BY <1>1, <1>5
<1>11. Exists(Find(n)) <=> Find(n) \in 1..N
  BY <1>1 DEF Exists
<1>12. Exists(Find(n)) <=> \E i \in 1..N : pins[i].id = key
  BY <1>1, <1>5, <1>9, <1>11
<1>13. ASSUME Exists(Find(n))
       PROVE  pins[Find(n)].id = key /\ \A j \in 1..N : j < Find(n) => pins[j].id # key
  <2>1. Find(n) = b /\ b \in 1..N /\ pins[b].id = key
    BY <1>1, <1>5, <1>11, <1>13
  <2>2. ASSUME NEW j \in 1..N, j < b PROVE pins[j].id # key
    <3>1. ~(b <= j)
      BY <1>1, <2>1, <2>2
    <3> QED
      BY <1>9, <3>1
  <2> QED
    BY <2>1, <2>2
<1> QED
  BY <1>10, <1>12, <1>13 DEF key

-----------------------------------------------------------------------------
(* The pins keep their numbers and their drivers, and calls their pin.     *)

\* What LaidOut says, spelt out: the pins are those the constructor made, but for
\* their values and directions.
LEMMA Layout ==
  ASSUME TypeOK, LaidOut
  PROVE  /\ Numbered(Len(conf.pins))
         /\ \A n \in Numbers : Exists(Find(n)) =>
              /\ pins[Find(n)].digital = Configured(pins[Find(n)].id, "digital")
              /\ pins[Find(n)].analog = Configured(pins[Find(n)].id, "analog")
         /\ \A w \in Words : (\E i \in 1..Len(conf.pins) : pins[i].id = w)
                               <=> \E j \in DOMAIN conf.pins : conf.pins[j] = w
<1> DEFINE N == Len(conf.pins)
           ids == Order(conf.pins)
           K == Len(conf.drivers)
           made == Pins(conf)
<1>1. conf \in Confs /\ pins \in Seq(PinRecords)
  BY DEF TypeOK
<1>2. Made(conf, ids, made, K)
  BY <1>1, PinsAreMade
<1>3. /\ DOMAIN ids = 1..N /\ N \in Nat
      /\ \A i \in 1..N : ids[i] \in Words
      /\ \A i \in 1..N : \E j \in 1..N : ids[j] = conf.pins[i]
      /\ \A j \in 1..N : \E i \in 1..N : ids[j] = conf.pins[i]
      /\ \A i, j \in 1..N : i < j => ids[i] <= ids[j]
  <2>1. conf.pins \in Seq(Words) /\ Words \subseteq Nat
    BY <1>1, ConfFacts, WordFacts
  <2> QED
    BY <2>1, OrderIsRight
<1>4. DOMAIN conf.pins = 1..N
  BY <1>1, ConfFacts, LenProperties
<1>5. DOMAIN pins = DOMAIN made /\ \A i \in DOMAIN pins :
          pins[i] = [made[i] EXCEPT !.value = pins[i].value, !.direction = pins[i].direction]
  BY DEF LaidOut
<1>6. K \in Nat /\ DOMAIN conf.drivers = 1..K
  BY <1>1, ConfFacts
<1> HIDE DEF N, ids, K, made
<1>7. DOMAIN pins = 1..N
  BY <1>2, <1>3, <1>5 DEF Made
<1>8. ASSUME NEW i \in 1..N
      PROVE  /\ pins[i].id = ids[i] /\ pins[i] \in PinRecords
             /\ pins[i].digital = made[i].digital /\ pins[i].analog = made[i].analog
  <2>1. made[i] \in PinRecords /\ made[i].id = ids[i]
    BY <1>2, <1>3 DEF Made, PinIs
  <2>2. pins[i] = [made[i] EXCEPT !.value = pins[i].value, !.direction = pins[i].direction]
    BY <1>5, <1>7
  <2>3. pins[i] \in PinRecords
    <3>1. i \in 1..Len(pins)
      BY <1>1, <1>7, LenProperties
    <3> QED
      BY <1>1, <3>1, ElementOfSeq
  <2> QED
    BY <2>1, <2>2, <2>3 DEF PinRecords
<1>9. pins \in [1..N -> PinRecords]
  <2>1. pins \in [1..Len(pins) -> PinRecords]
    BY <1>1, LenProperties
  <2> QED
    BY <1>7, <2>1
<1>10. Numbered(N)
  BY <1>3, <1>8, <1>9 DEF Numbered
<1>11. \A n, kind : Configured(n, kind) = Allowed(conf, K, n, kind)
  <2> SUFFICES ASSUME NEW n, NEW kind PROVE Configured(n, kind) = Allowed(conf, K, n, kind)
    OBVIOUS
  <2> DEFINE given == {j \in DOMAIN conf.drivers : /\ conf.drivers[j].pin = n
                                                   /\ conf.drivers[j][kind] # <<>>}
  <2>1. given = Giving(conf, K, n, kind)
    BY <1>6 DEF Giving
  <2>2. Configured(n, kind) = LastOf(conf, given, kind)
    BY DEF Configured, LastOf
  <2> HIDE DEF given
  <2> QED
    BY <2>1, <2>2 DEF Allowed
<1>12. ASSUME NEW n \in Numbers, Exists(Find(n))
       PROVE  /\ pins[Find(n)].digital = Configured(pins[Find(n)].id, "digital")
              /\ pins[Find(n)].analog = Configured(pins[Find(n)].id, "analog")
  <2>1. Find(n) \in 1..N
    BY <1>7, <1>12 DEF Exists
  <2>2. \A j \in 1..N : j < Find(n) => pins[j].id # pins[Find(n)].id
    BY <1>10, <1>12, FindIsRight
  <2>3. First(ids, Find(n))
    <3> DEFINE f == Find(n)
    <3>1. f \in 1..N /\ \A j \in 1..N : j < f => pins[j].id # pins[f].id
      BY <2>1, <2>2
    <3> HIDE DEF f
    <3>2. \A j \in 1..N : pins[j].id = ids[j]
      BY <1>8
    <3>3. First(ids, f)
      BY ZenonT(60), <1>3, <3>1, <3>2 DEF First
    <3> QED
      BY <3>3 DEF f
  <2>4. /\ made[Find(n)].digital = Allowed(conf, K, ids[Find(n)], "digital")
        /\ made[Find(n)].analog = Allowed(conf, K, ids[Find(n)], "analog")
    BY <1>2, <1>3, <2>1, <2>3 DEF Made
  <2> QED
    BY <1>8, <1>11, <2>1, <2>4
<1>13. \A w \in Words : (\E i \in 1..N : pins[i].id = w) <=> \E j \in 1..N : conf.pins[j] = w
  <2>1. ASSUME NEW w \in Words, NEW i \in 1..N, pins[i].id = w PROVE \E j \in 1..N : conf.pins[j] = w
    <3>1. ids[i] = w
      BY <1>8, <2>1
    <3> QED
      BY <1>3, <3>1
  <2>2. ASSUME NEW w \in Words, NEW j \in 1..N, conf.pins[j] = w PROVE \E i \in 1..N : pins[i].id = w
    <3>1. PICK i \in 1..N : ids[i] = w
      BY <1>3, <2>2
    <3> QED
      BY <1>8, <3>1
  <2> QED
    BY <2>1, <2>2
<1> QED
  BY <1>4, <1>10, <1>12, <1>13 DEF N

\* Pins that are as the constructor made them are as configured.
LEMMA Configuration ==
  ASSUME TypeOK, LaidOut
  PROVE  PinsAreAsConfigured
<1> SUFFICES ASSUME NEW n \in Numbers
             PROVE  LET i == Find(n)
                        listed == \E j \in DOMAIN conf.pins : conf.pins[j] = n
                    IN /\ Exists(i) <=> listed
                       /\ listed => /\ pins[i].digital = Configured(n, "digital")
                                    /\ pins[i].analog = Configured(n, "analog")
  BY DEF PinsAreAsConfigured
<1> DEFINE N == Len(conf.pins)
<1>1. Numbered(N)
  BY Layout
<1>2. /\ Exists(Find(n)) <=> \E i \in 1..N : pins[i].id = AsSize(n)
      /\ Exists(Find(n)) => pins[Find(n)].id = AsSize(n)
  BY <1>1, FindIsRight
<1>3. \A w \in Words : AsSize(n) = w <=> n = w
  BY AsSizeIsRight
<1>4. \A i \in 1..N : pins[i].id \in Words
  BY <1>1 DEF Numbered, PinRecords
<1>5. \A j \in DOMAIN conf.pins : conf.pins[j] \in Words
  <2>1. conf.pins \in Seq(Words)
    BY ConfFacts DEF TypeOK
  <2> QED
    BY <2>1, LenProperties, ElementOfSeq
<1>6. \A w \in Words : (\E i \in 1..N : pins[i].id = w) <=> \E j \in DOMAIN conf.pins : conf.pins[j] = w
  BY Layout
<1> HIDE DEF N
<1>7. Exists(Find(n)) <=> \E j \in DOMAIN conf.pins : conf.pins[j] = n
  <2>1. CASE n \in Words
    <3>1. AsSize(n) = n
      BY <1>3, <2>1
    <3> QED
      BY <1>2, <1>6, <2>1, <3>1
  <2>2. CASE n \notin Words
    <3>1. AsSize(n) \notin Words
      BY <1>3, <2>2
    <3> QED
      BY <1>2, <1>4, <1>5, <2>2, <3>1
  <2> QED
    BY <2>1, <2>2
<1>8. ASSUME \E j \in DOMAIN conf.pins : conf.pins[j] = n
      PROVE  /\ pins[Find(n)].digital = Configured(n, "digital")
             /\ pins[Find(n)].analog = Configured(n, "analog")
  <2>1. n \in Words /\ AsSize(n) = n
    BY <1>3, <1>5, <1>8
  <2>2. pins[Find(n)].id = n /\ Exists(Find(n))
    BY <1>2, <1>7, <1>8, <2>1
  <2>3. /\ pins[Find(n)].digital = Configured(pins[Find(n)].id, "digital")
        /\ pins[Find(n)].analog = Configured(pins[Find(n)].id, "analog")
    BY <2>2, Layout
  <2> QED
    BY <2>2, <2>3
<1> QED
  BY <1>7, <1>8

\* The inductive invariant of the module.
IndInv == TypeOK /\ LaidOut /\ CallInv /\ LevelsCarry

\* What every action does to the pins: it changes values and directions.
Keeps == /\ DOMAIN pins' = DOMAIN pins /\ pins' \in Seq(PinRecords)
         /\ \A i \in DOMAIN pins : /\ pins'[i].id = pins[i].id
                                   /\ pins'[i].digital = pins[i].digital
                                   /\ pins'[i].analog = pins[i].analog

\* A pin of which one field changes stays a pin.
LEMMA ValueChanges ==
  ASSUME NEW r \in PinRecords, NEW v \in Words
  PROVE  LET q == [r EXCEPT !.value = v]
         IN /\ q \in PinRecords /\ q.id = r.id /\ q.digital = r.digital
            /\ q.analog = r.analog /\ q.direction = r.direction /\ q.value = v
BY DEF PinRecords

\* A pin with another direction is still a pin, otherwise the same.
LEMMA DirectionChanges ==
  ASSUME NEW r \in PinRecords, NEW d \in {"in", "out"}
  PROVE  LET q == [r EXCEPT !.direction = d]
         IN /\ q \in PinRecords /\ q.id = r.id /\ q.digital = r.digital
            /\ q.analog = r.analog /\ q.direction = d /\ q.value = r.value
BY DEF PinRecords

\* The pins are a sequence of pins.
LEMMA PinFacts ==
  ASSUME TypeOK
  PROVE  /\ DOMAIN pins = 1..Len(pins) /\ Len(pins) \in Nat
         /\ \A i \in DOMAIN pins : pins[i] \in PinRecords
         /\ pins = [i \in DOMAIN pins |-> pins[i]]
         /\ \A ps : ps \in [DOMAIN pins -> PinRecords] => ps \in Seq(PinRecords)
<1>1. pins \in Seq(PinRecords)
  BY DEF TypeOK
<1>2. DOMAIN pins = 1..Len(pins) /\ Len(pins) \in Nat /\ pins \in [1..Len(pins) -> PinRecords]
  BY <1>1, LenProperties
<1>3. \A i \in DOMAIN pins : pins[i] \in PinRecords
  BY <1>2
<1>4. pins = [i \in DOMAIN pins |-> pins[i]]
  BY <1>2
<1>5. \A ps : ps \in [1..Len(pins) -> PinRecords] => ps \in Seq(PinRecords)
  BY <1>2, SeqDef
<1> QED
  BY <1>2, <1>3, <1>4, <1>5

Writable(kind, v) == /\ kind \in {"digital", "analog"} /\ v \in Words
                     /\ kind = "digital" => v \in {0, 1}

\* A write through a driver changes one value, and the level carries to the other driver.
LEMMA WriteKeeps ==
  ASSUME IndInv, NEW i, NEW kind, NEW v, Writable(kind, v), WriteDriver(i, kind, v)
  PROVE  /\ Keeps
         /\ \A j \in DOMAIN pins : pins'[j].direction = pins[j].direction
         /\ \A j \in DOMAIN pins : j # i => pins'[j].value = pins[j].value
         /\ meant' \in [DOMAIN pins' -> {"digital", "analog"} \X Words]
         /\ \A j \in DOMAIN pins' : meant'[j][1] = "digital" => meant'[j][2] \in {0, 1}
         /\ LevelsCarry'
<1>1. /\ DOMAIN pins = 1..Len(pins) /\ Len(pins) \in Nat
      /\ \A j \in DOMAIN pins : pins[j] \in PinRecords
      /\ pins = [j \in DOMAIN pins |-> pins[j]]
      /\ \A ps : ps \in [DOMAIN pins -> PinRecords] => ps \in Seq(PinRecords)
      /\ pins \in Seq(PinRecords)
  BY PinFacts DEF IndInv, TypeOK
<1>2. /\ meant \in [DOMAIN pins -> {"digital", "analog"} \X Words]
      /\ \A j \in DOMAIN pins : meant[j][1] = "digital" => meant[j][2] \in {0, 1}
  BY DEF IndInv, TypeOK, CallInv
<1>3. CASE ~Exists(i)
  <2>1. pins' = pins /\ meant' = meant
    BY <1>3 DEF WriteDriver
  <2>2. LevelsCarry'
    BY <2>1 DEF IndInv, LevelsCarry, ReadDigital, ReadAnalog, Exists
  <2> QED
    BY <1>1, <1>2, <2>1, <2>2 DEF Keeps
<1>4. CASE Exists(i)
  <2>1. /\ pins' = [pins EXCEPT ![i].value = Level(kind, v)]
        /\ meant' = [meant EXCEPT ![i] = <<kind, v>>]
        /\ i \in DOMAIN pins
    BY <1>4 DEF WriteDriver, Exists
  <2>2. Level(kind, v) \in Words /\ 255 \in Words /\ 0 \in Words
    BY WordFacts DEF Level, Writable
  <2>3. /\ DOMAIN pins' = DOMAIN pins /\ pins' = [j \in DOMAIN pins |-> pins'[j]]
        /\ \A j \in DOMAIN pins : j # i => pins'[j] = pins[j]
        /\ pins'[i] = [pins[i] EXCEPT !.value = Level(kind, v)]
    BY <1>1, <2>1
  <2>12. pins[i] \in PinRecords
    BY <1>1, <2>1
  <2>4. /\ pins'[i] \in PinRecords /\ pins'[i].value = Level(kind, v)
        /\ pins'[i].id = pins[i].id /\ pins'[i].digital = pins[i].digital
        /\ pins'[i].analog = pins[i].analog /\ pins'[i].direction = pins[i].direction
    BY <2>2, <2>3, <2>12, ValueChanges
  <2>5. pins' \in [DOMAIN pins -> PinRecords]
    BY <1>1, <2>3, <2>4
  <2>6. Keeps
    BY <1>1, <2>3, <2>4, <2>5 DEF Keeps
  <2>7. /\ DOMAIN meant' = DOMAIN pins
        /\ \A j \in DOMAIN pins : j # i => meant'[j] = meant[j]
        /\ meant'[i] = <<kind, v>>
        /\ meant' \in [DOMAIN pins -> {"digital", "analog"} \X Words]
    BY <1>2, <2>1 DEF Writable
  <2>8. \A j \in DOMAIN pins : meant'[j][1] = "digital" => meant'[j][2] \in {0, 1}
    BY <1>2, <2>7 DEF Writable
  <2>9. ASSUME NEW j \in DOMAIN pins
        PROVE  /\ (IF pins'[j].value # 0 THEN 1 ELSE 0) = 1 <=> meant'[j][2] # 0
               /\ pins'[j].value = IF meant'[j][1] = "analog" THEN meant'[j][2] ELSE 255 * meant'[j][2]
    <3>1. CASE j = i
      BY <2>4, <2>7, <3>1 DEF Level, Writable
    <3>2. CASE j # i
      <4>1. /\ (IF pins[j].value # 0 THEN 1 ELSE 0) = 1 <=> meant[j][2] # 0
            /\ pins[j].value = IF meant[j][1] = "analog" THEN meant[j][2] ELSE 255 * meant[j][2]
        BY DEF IndInv, LevelsCarry, ReadDigital, ReadAnalog, Exists
      <4> QED
        BY <2>3, <2>7, <3>2, <4>1
    <3> QED
      BY <3>1, <3>2
  <2>10. LevelsCarry'
    BY <2>3, <2>9 DEF LevelsCarry, ReadDigital, ReadAnalog, Exists
  <2>11. DOMAIN pins' = DOMAIN pins
    BY <2>3
  <2>13. \A j \in DOMAIN pins' : meant'[j][1] = "digital" => meant'[j][2] \in {0, 1}
    BY <2>8, <2>11
  <2>14. meant' \in [DOMAIN pins' -> {"digital", "analog"} \X Words]
    BY <2>7, <2>11
  <2>15. \A j \in DOMAIN pins : pins'[j].direction = pins[j].direction
    <3> SUFFICES ASSUME NEW j \in DOMAIN pins PROVE pins'[j].direction = pins[j].direction
      OBVIOUS
    <3>1. CASE j = i
      BY <2>4, <3>1
    <3>2. CASE j # i
      BY <2>3, <3>2
    <3> QED
      BY <3>1, <3>2
  <2>16. \A j \in DOMAIN pins : j # i => pins'[j].value = pins[j].value
    BY <2>3
  <2> QED
    BY <2>6, <2>10, <2>13, <2>14, <2>15, <2>16
<1> QED
  BY <1>3, <1>4

\* A change of direction changes nothing else; a pin that is not found is left alone.
LEMMA DirectionKeeps ==
  ASSUME IndInv, NEW i, NEW d \in {"in", "out"}, SetDirection(i, d), UNCHANGED meant
  PROVE  /\ Keeps
         /\ \A j \in DOMAIN pins : pins'[j].value = pins[j].value
         /\ meant' \in [DOMAIN pins' -> {"digital", "analog"} \X Words]
         /\ \A j \in DOMAIN pins' : meant'[j][1] = "digital" => meant'[j][2] \in {0, 1}
         /\ LevelsCarry'
<1>1. /\ DOMAIN pins = 1..Len(pins) /\ Len(pins) \in Nat
      /\ \A j \in DOMAIN pins : pins[j] \in PinRecords
      /\ pins = [j \in DOMAIN pins |-> pins[j]]
      /\ \A ps : ps \in [DOMAIN pins -> PinRecords] => ps \in Seq(PinRecords)
      /\ pins \in Seq(PinRecords)
  BY PinFacts DEF IndInv, TypeOK
<1>2. /\ meant \in [DOMAIN pins -> {"digital", "analog"} \X Words]
      /\ \A j \in DOMAIN pins : meant[j][1] = "digital" => meant[j][2] \in {0, 1}
  BY DEF IndInv, TypeOK, CallInv
<1>3. Keeps /\ \A j \in DOMAIN pins : pins'[j].value = pins[j].value
  <2>1. CASE pins' = pins
    BY <1>1, <2>1 DEF Keeps
  <2>2. CASE Exists(i) /\ pins' = [pins EXCEPT ![i].direction = d]
    <3>1. i \in DOMAIN pins
      BY <2>2 DEF Exists
    <3>2. /\ DOMAIN pins' = DOMAIN pins /\ pins' = [j \in DOMAIN pins |-> pins'[j]]
          /\ \A j \in DOMAIN pins : j # i => pins'[j] = pins[j]
          /\ pins'[i] = [pins[i] EXCEPT !.direction = d]
      BY <1>1, <2>2, <3>1
    <3>3. pins[i] \in PinRecords
      BY <1>1, <3>1
    <3>4. /\ pins'[i] \in PinRecords /\ pins'[i].value = pins[i].value
          /\ pins'[i].id = pins[i].id /\ pins'[i].digital = pins[i].digital
          /\ pins'[i].analog = pins[i].analog
      <4> DEFINE q == [pins[i] EXCEPT !.direction = d]
      <4>1. /\ q \in PinRecords /\ q.id = pins[i].id /\ q.digital = pins[i].digital
            /\ q.analog = pins[i].analog /\ q.value = pins[i].value
        BY <3>3, DirectionChanges
      <4>2. pins'[i] = q
        BY <3>2
      <4> QED
        BY <4>1, <4>2
    <3>5. pins' \in [DOMAIN pins -> PinRecords]
      BY <1>1, <3>2, <3>4
    <3> QED
      BY <1>1, <3>2, <3>4, <3>5 DEF Keeps
  <2> QED
    BY <2>1, <2>2 DEF SetDirection
<1>4. DOMAIN pins' = DOMAIN pins /\ meant' = meant
  BY <1>3 DEF Keeps
<1>5. LevelsCarry'
  <2>1. \A j \in DOMAIN pins :
            /\ (IF pins[j].value # 0 THEN 1 ELSE 0) = 1 <=> meant[j][2] # 0
            /\ pins[j].value = IF meant[j][1] = "analog" THEN meant[j][2] ELSE 255 * meant[j][2]
    BY DEF IndInv, LevelsCarry, ReadDigital, ReadAnalog, Exists
  <2> QED
    BY <1>3, <1>4, <2>1 DEF LevelsCarry, ReadDigital, ReadAnalog, Exists
<1> QED
  BY <1>2, <1>3, <1>4, <1>5

Remade(m, p) == p = [m EXCEPT !.value = p.value, !.direction = p.direction]

\* A pin made by the constructor stays one while its number and drivers stay.
LEMMA StillMade ==
  ASSUME NEW m \in PinRecords, NEW p \in PinRecords, NEW q \in PinRecords, Remade(m, p),
         q.id = p.id, q.digital = p.digital, q.analog = p.analog
  PROVE  Remade(m, q)
<1> DEFINE r == [m EXCEPT !.value = q.value, !.direction = q.direction]
<1>1. p.id = m.id /\ p.digital = m.digital /\ p.analog = m.analog
  BY DEF PinRecords, Remade
<1>2. /\ r.id = m.id /\ r.digital = m.digital /\ r.analog = m.analog
      /\ r.value = q.value /\ r.direction = q.direction
  BY DEF PinRecords
<1>3. r \in PinRecords
  BY DEF PinRecords
<1>4. r.driver = q.driver
  BY <1>3 DEF PinRecords
<1>5. r = q
  <2> HIDE DEF r
  <2> QED
    BY <1>1, <1>2, <1>3, <1>4 DEF PinRecords
<1> QED
  BY <1>5 DEF Remade

\* While every pin keeps its number and drivers, the pins are as the constructor made them.
LEMMA LayoutStays ==
  ASSUME IndInv, Keeps, conf' = conf
  PROVE  LaidOut'
<1> DEFINE made == Pins(conf)
<1>1. TypeOK /\ LaidOut /\ conf \in Confs
  BY DEF IndInv, TypeOK
<1>2. /\ DOMAIN pins = DOMAIN made
      /\ \A i \in DOMAIN pins : Remade(made[i], pins[i])
  BY <1>1 DEF LaidOut, Remade
<1>3. \A i \in DOMAIN pins : made[i] \in PinRecords
  <2>1. Made(conf, Order(conf.pins), made, Len(conf.drivers))
    BY <1>1, PinsAreMade
  <2> HIDE DEF made
  <2> QED
    BY <1>2, <2>1 DEF Made
<1> HIDE DEF made
<1>4. \A i \in DOMAIN pins : pins[i] \in PinRecords /\ pins'[i] \in PinRecords
  <2>1. pins' \in Seq(PinRecords) /\ DOMAIN pins' = DOMAIN pins
    BY DEF Keeps
  <2>2. DOMAIN pins' = 1..Len(pins')
    BY <2>1, LenProperties
  <2>3. \A i \in DOMAIN pins' : pins'[i] \in PinRecords
    BY <2>1, <2>2, ElementOfSeq
  <2> QED
    BY <1>1, <2>1, <2>3, PinFacts
<1>5. ASSUME NEW i \in DOMAIN pins
      PROVE  Remade(made[i], pins'[i])
  <2>1. /\ made[i] \in PinRecords /\ pins[i] \in PinRecords /\ pins'[i] \in PinRecords
        /\ Remade(made[i], pins[i])
    BY <1>2, <1>3, <1>4
  <2>2. /\ pins'[i].id = pins[i].id /\ pins'[i].digital = pins[i].digital
        /\ pins'[i].analog = pins[i].analog
    BY DEF Keeps
  <2> QED
    BY <2>1, <2>2, StillMade
<1>6. DOMAIN pins' = DOMAIN pins
  BY DEF Keeps
<1> QED
  BY <1>2, <1>5, <1>6 DEF LaidOut, Remade, made

\* While every pin keeps its number, a look-up finds the same.
LEMMA FindStays ==
  ASSUME Keeps, NEW n
  PROVE  Find(n)' = Find(n)
<1> DEFINE keys == [j \in DOMAIN pins |-> pins[j].id]
           news == [j \in DOMAIN pins' |-> pins'[j].id]
           b == LowerBound(keys, AsSize(n))
           c == LowerBound(news, AsSize(n))
<1>1. DOMAIN pins' = DOMAIN pins /\ \A j \in DOMAIN pins : pins'[j].id = pins[j].id
  BY DEF Keeps
<1>2. news = keys
  BY <1>1
<1>3. Find(n) = IF b \in DOMAIN pins /\ pins[b].id = AsSize(n) THEN b ELSE 0
  BY DEF Find
<1>4. Find(n)' = IF c \in DOMAIN pins' /\ pins'[c].id = AsSize(n) THEN c ELSE 0
  BY DEF Find, AsSize
<1> HIDE DEF keys, news
<1>5. b = c
  BY <1>2
<1> HIDE DEF b, c
<1> QED
  BY <1>1, <1>3, <1>4, <1>5

PastTypes == [at : {"none", "access"}, kind : {"digital", "analog"}, how : Abilities,
              pin : 0 .. Len(pins), value : Words]

\* No action adds or removes a pin.
LEMMA SameLen ==
  ASSUME TypeOK, Keeps
  PROVE  Len(pins') = Len(pins) /\ DOMAIN pins' = DOMAIN pins
<1>1. pins \in Seq(PinRecords) /\ pins' \in Seq(PinRecords) /\ DOMAIN pins' = DOMAIN pins
  BY DEF TypeOK, Keeps
<1>2. /\ Len(pins) \in Nat /\ DOMAIN pins = 1..Len(pins)
      /\ Len(pins') \in Nat /\ DOMAIN pins' = 1..Len(pins')
  BY <1>1, LenProperties
<1>3. 1..Len(pins') = 1..Len(pins)
  BY <1>1, <1>2
<1> HIDE DEF Keeps
<1> QED
  BY <1>1, <1>2, <1>3, SameLength

\* An action that changes the pins alone, or ends a call, keeps the invariant.
LEMMA StepKeeps ==
  ASSUME IndInv, Keeps, conf' = conf, call' = call \/ call' = Idle,
         ret' \in {"nothing", "missing", "unable", "locked", "direction", "done"},
         meant' \in [DOMAIN pins' -> {"digital", "analog"} \X Words],
         \A j \in DOMAIN pins' : meant'[j][1] = "digital" => meant'[j][2] \in {0, 1},
         LevelsCarry',
         call'.at = "access" /\ ~HostDirects
           => \A j \in DOMAIN pins : pins'[j].direction = pins[j].direction
  PROVE  IndInv'
<1>1. LaidOut'
  BY LayoutStays
<1>2. Len(pins') = Len(pins) /\ DOMAIN pins' = DOMAIN pins
  BY SameLen DEF IndInv
<1>3. 0 \in Words /\ Len(pins) \in Nat
  BY WordFacts, PinFacts DEF IndInv
<1>4. call' \in [at : {"none", "access"}, kind : {"digital", "analog"}, how : Abilities,
                 pin : 0 .. Len(pins'), value : Words]
  <2>1. CASE call' = call
    BY <1>2, <2>1 DEF IndInv, TypeOK
  <2>2. CASE call' = Idle
    BY <1>2, <1>3, <2>2 DEF Idle, Abilities
  <2> QED
    BY <2>1, <2>2
<1>5. TypeOK'
  <2>1. conf' \in Confs
    BY DEF IndInv, TypeOK
  <2>2. pins' \in Seq(PinRecords)
    BY DEF Keeps
  <2> QED
    BY <1>4, <2>1, <2>2 DEF TypeOK
<1>6. ASSUME call'.at = "access"
      PROVE  /\ \E n \in Numbers : call'.pin = Find(n)' /\ call'.pin \in DOMAIN pins'
             /\ call'.how \in pins'[call'.pin][call'.kind]
             /\ ~HostDirects => pins'[call'.pin].direction = Needed(call'.how)
             /\ call'.kind = "digital" => call'.value \in {0, 1}
  <2>1. call' = call /\ call.at = "access"
    BY <1>6 DEF Idle
  <2>2. /\ \E n \in Numbers : call.pin = Find(n) /\ Exists(call.pin)
        /\ call.how \in pins[call.pin][call.kind]
        /\ ~HostDirects => pins[call.pin].direction = Needed(call.how)
        /\ call.kind = "digital" => call.value \in {0, 1}
    BY <2>1 DEF IndInv, CallInv
  <2>3. PICK n \in Numbers : call.pin = Find(n) /\ call.pin \in DOMAIN pins
    BY <2>2 DEF Exists
  <2>4. call'.pin = Find(n)' /\ call'.pin \in DOMAIN pins'
    BY <1>2, <2>1, <2>3, FindStays
  <2>5. pins'[call.pin][call.kind] = pins[call.pin][call.kind]
    <3>1. call.kind \in {"digital", "analog"}
      BY DEF IndInv, TypeOK
    <3>2. /\ pins'[call.pin].digital = pins[call.pin].digital
          /\ pins'[call.pin].analog = pins[call.pin].analog
      BY <2>3 DEF Keeps
    <3> QED
      BY <3>1, <3>2
  <2>6. ~HostDirects => pins'[call.pin].direction = pins[call.pin].direction
    BY <1>6, <2>3
  <2> QED
    BY <2>1, <2>2, <2>4, <2>5, <2>6
<1>7. CallInv'
  <2>1. \A i \in DOMAIN pins' : meant'[i][1] = "digital" => meant'[i][2] \in {0, 1}
    OBVIOUS
  <2>2. call'.at = "access" => \E n \in Numbers : call'.pin = Find(n)' /\ Exists(call.pin)'
    BY <1>6 DEF Exists
  <2> QED
    BY <1>6, <2>1, <2>2 DEF CallInv, Needed
<1> QED
  BY <1>1, <1>5, <1>7 DEF IndInv

\* The inductive invariant holds when the board was prepared ...
LEMMA InitInv == Init => IndInv
<1> SUFFICES ASSUME Init PROVE IndInv
  OBVIOUS
<1> DEFINE N == Len(conf.pins)
<1>1. conf \in Confs /\ pins = Pins(conf) /\ call = Idle /\ ret = "nothing"
      /\ meant = [i \in DOMAIN pins |-> <<"digital", 0>>]
  BY DEF Init
<1>2. /\ pins \in [1..N -> PinRecords] /\ N \in Nat
      /\ \A i \in 1..N : pins[i].value = 0 /\ pins[i].direction = "in"
  <2>1. Made(conf, Order(conf.pins), pins, Len(conf.drivers))
    BY <1>1, PinsAreMade
  <2>2. DOMAIN Order(conf.pins) = 1..N /\ N \in Nat
    <3>1. conf.pins \in Seq(Words) /\ Words \subseteq Nat
      BY <1>1, ConfFacts, WordFacts
    <3> QED
      BY <3>1, OrderIsRight
  <2> HIDE DEF N
  <2> QED
    BY <2>1, <2>2 DEF Made, PinIs
<1> HIDE DEF N
<1>3. pins \in Seq(PinRecords) /\ DOMAIN pins = 1..N
  BY <1>2, SeqDef
<1>4. 0 \in Words /\ Len(pins) \in Nat
  BY <1>3, WordFacts, LenProperties
<1>5. TypeOK
  <2>1. call \in [at : {"none", "access"}, kind : {"digital", "analog"}, how : Abilities,
                  pin : 0 .. Len(pins), value : Words]
    BY <1>1, <1>4 DEF Idle, Abilities
  <2>2. meant \in [DOMAIN pins -> {"digital", "analog"} \X Words]
    BY <1>1, <1>4
  <2> QED
    BY <1>1, <1>3, <2>1, <2>2 DEF TypeOK
<1>6. LaidOut
  <2>1. \A i \in DOMAIN pins : pins[i] = [pins[i] EXCEPT !.value = pins[i].value,
                                                        !.direction = pins[i].direction]
    BY <1>2, <1>3 DEF PinRecords
  <2> QED
    BY <1>1, <2>1 DEF LaidOut
<1>7. CallInv
  BY <1>1 DEF CallInv, Idle
<1>8. LevelsCarry
  BY <1>1, <1>2, <1>3 DEF LevelsCarry, ReadDigital, ReadAnalog, Exists
<1> QED
  BY <1>5, <1>6, <1>7, <1>8 DEF IndInv

\* ... every call of the host and every step of a sketch keeps it ...
LEMMA NextInv == IndInv /\ [Next]_vars => IndInv'
<1> SUFFICES ASSUME IndInv, [Next]_vars PROVE IndInv'
  OBVIOUS
<1>words. /\ \A v \in {0, 1} : v \in Words
      /\ AnalogValues \subseteq Words
      /\ \A v \in ByteValues : v \in Words
  <2>1. AnalogValues \subseteq Words /\ \A v \in ByteValues : v \in 0..255
    BY GpioAssumption, SMT
  <2>2. \A v \in {0, 1} : v \in 0..255
    OBVIOUS
  <2> QED
    BY <2>1, <2>2, WordFacts
<1>types. /\ ret \in {"nothing", "missing", "unable", "locked", "direction", "done"}
       /\ DOMAIN pins = 1..Len(pins)
       /\ meant \in [DOMAIN pins -> {"digital", "analog"} \X Words]
       /\ \A j \in DOMAIN pins : meant[j][1] = "digital" => meant[j][2] \in {0, 1}
  BY PinFacts DEF IndInv, TypeOK, CallInv
<1>1. ASSUME NEW n \in Numbers, NEW kind \in {"digital", "analog"},
             NEW v \in AnalogValues \cup {0, 1}, HostWrites(n, kind, v)
      PROVE  IndInv'
  <2>1. Writable(kind, v)
    BY <1>words, <1>1 DEF HostWrites, Writable
  <2>2. WriteDriver(Find(n), kind, v) /\ conf' = conf /\ call' = call /\ ret' = ret
    BY <1>1 DEF HostWrites
  <2>3. /\ Keeps
        /\ \A j \in DOMAIN pins : pins'[j].direction = pins[j].direction
        /\ meant' \in [DOMAIN pins' -> {"digital", "analog"} \X Words]
        /\ \A j \in DOMAIN pins' : meant'[j][1] = "digital" => meant'[j][2] \in {0, 1}
        /\ LevelsCarry'
    BY <2>1, <2>2, WriteKeeps
  <2> QED
    BY <1>types, <2>2, <2>3, StepKeeps
<1>2. ASSUME NEW n \in Numbers, NEW d \in {"in", "out"}, HostSetsDirection(n, d)
      PROVE  IndInv'
  <2>1. /\ SetDirection(Find(n), d) /\ UNCHANGED meant /\ conf' = conf /\ call' = call
        /\ ret' = ret /\ HostDirects
    BY <1>2 DEF HostSetsDirection
  <2>2. /\ Keeps
        /\ meant' \in [DOMAIN pins' -> {"digital", "analog"} \X Words]
        /\ \A j \in DOMAIN pins' : meant'[j][1] = "digital" => meant'[j][2] \in {0, 1}
        /\ LevelsCarry'
    BY <2>1, DirectionKeeps
  <2> QED
    BY <1>types, <2>1, <2>2, StepKeeps
<1>3. ASSUME NEW n \in Numbers, NEW d \in {"in", "out"}, PinMode(n, d)
      PROVE  IndInv'
  <2>1. /\ SetDirection(Find(n), d) /\ UNCHANGED meant /\ conf' = conf /\ call' = call
        /\ call = Idle
        /\ ret' \in {"nothing", "missing", "unable", "locked", "direction", "done"}
    BY <1>3 DEF PinMode
  <2>2. /\ Keeps
        /\ meant' \in [DOMAIN pins' -> {"digital", "analog"} \X Words]
        /\ \A j \in DOMAIN pins' : meant'[j][1] = "digital" => meant'[j][2] \in {0, 1}
        /\ LevelsCarry'
    BY <2>1, DirectionKeeps
  <2>3. call'.at = "none"
    BY <2>1 DEF Idle
  <2> QED
    BY <2>1, <2>2, <2>3, StepKeeps
<1>4. ASSUME NEW n \in Numbers, NEW kind \in {"digital", "analog"}, NEW how \in Abilities,
             NEW v, Writable(kind, v), Calls(n, kind, how, v)
      PROVE  IndInv'
  <2> DEFINE r == Refusal(Find(n), kind, how)
  <2>1. /\ UNCHANGED <<conf, pins, meant>>
        /\ ret' = IF r = "done" THEN "nothing" ELSE r
        /\ call' = IF r = "done"
                   THEN [at |-> "access", kind |-> kind, how |-> how, pin |-> Find(n), value |-> v]
                   ELSE Idle
    BY <1>4 DEF Calls
  <2>2. r \in {"missing", "unable", "locked", "direction", "done"}
    BY DEF Refusal, Abilities
  <2>3. r = "done" => /\ Exists(Find(n)) /\ how \in pins[Find(n)][kind]
                      /\ pins[Find(n)].direction = Needed(how)
    BY DEF Refusal, CanRead, CanWrite, Direction, Locked, Abilities
  <2> HIDE DEF r
  <2>4. \A m : Find(m)' = Find(m)
    BY <2>1 DEF Find, AsSize
  <2>5. 0 \in Words /\ Len(pins) \in Nat /\ DOMAIN pins = 1..Len(pins)
    BY WordFacts, PinFacts DEF IndInv
  <2>6. call' \in [at : {"none", "access"}, kind : {"digital", "analog"}, how : Abilities,
                   pin : 0 .. Len(pins), value : Words]
    <3>1. CASE r = "done"
      <4>1. Find(n) \in 0..Len(pins)
        BY <2>3, <2>5, <3>1 DEF Exists
      <4> QED
        BY <1>4, <2>1, <3>1, <4>1 DEF Writable
    <3>2. CASE r # "done"
      BY <2>1, <2>5, <3>2 DEF Idle, Abilities
    <3> QED
      BY <3>1, <3>2
  <2>7. TypeOK'
    BY <2>1, <2>2, <2>6 DEF IndInv, TypeOK
  <2>8. LaidOut' /\ LevelsCarry'
    BY ZenonT(60), <2>1 DEF IndInv, LaidOut, LevelsCarry, ReadDigital, ReadAnalog, Exists
  <2>9. CallInv'
    <3>1. \A i \in DOMAIN pins' : meant'[i][1] = "digital" => meant'[i][2] \in {0, 1}
      BY <1>types, <2>1
    <3>2. CASE r = "done"
      <4>1. /\ call'.pin = Find(n)' /\ call'.pin = Find(n) /\ call'.how = how
            /\ call'.kind = kind /\ call'.value = v
        BY <2>1, <2>4, <3>2
      <4>2. Exists(call.pin)' /\ Exists(Find(n))
        BY <2>1, <2>3, <3>2, <4>1 DEF Exists
      <4>3. /\ call'.how \in pins'[call'.pin][call'.kind]
            /\ pins'[call'.pin].direction = Needed(call'.how)
            /\ call'.kind = "digital" => call'.value \in {0, 1}
        BY <1>4, <2>1, <2>3, <3>2, <4>1 DEF Writable
      <4> QED
        BY <3>1, <4>1, <4>2, <4>3 DEF CallInv, Needed
    <3>3. CASE r # "done"
      <4>1. call'.at = "none"
        BY <2>1, <3>3 DEF Idle
      <4> QED
        BY <3>1, <4>1 DEF CallInv
    <3> QED
      BY <3>2, <3>3
  <2> QED
    BY <2>7, <2>8, <2>9 DEF IndInv
<1>5. ASSUME Accesses
      PROVE  IndInv'
  <2>1. /\ call.at = "access" /\ call' = Idle /\ ret' = "done" /\ conf' = conf
        /\ IF call.how = "write" THEN WriteDriver(call.pin, call.kind, call.value)
           ELSE UNCHANGED <<pins, meant>>
    BY <1>5 DEF Accesses
  <2>2. Writable(call.kind, call.value)
    BY <2>1 DEF IndInv, TypeOK, CallInv, Writable
  <2>3. /\ Keeps
        /\ meant' \in [DOMAIN pins' -> {"digital", "analog"} \X Words]
        /\ \A j \in DOMAIN pins' : meant'[j][1] = "digital" => meant'[j][2] \in {0, 1}
        /\ LevelsCarry'
    <3>1. CASE call.how = "write"
      BY <2>1, <2>2, <3>1, WriteKeeps
    <3>2. CASE call.how # "write"
      <4>1. UNCHANGED <<pins, meant>>
        BY <2>1, <3>2
      <4>2. Keeps
        BY <4>1 DEF Keeps, IndInv, TypeOK
      <4>3. LevelsCarry'
        BY <4>1 DEF IndInv, LevelsCarry, ReadDigital, ReadAnalog, Exists
      <4> QED
        BY <1>types, <4>1, <4>2, <4>3
    <3> QED
      BY <3>1, <3>2
  <2>4. call'.at = "none"
    BY <2>1 DEF Idle
  <2> QED
    BY <2>1, <2>3, <2>4, StepKeeps
<1>6. CASE UNCHANGED vars
  <2>1. conf' = conf /\ pins' = pins /\ call' = call /\ ret' = ret /\ meant' = meant
    BY <1>6 DEF vars
  <2>2. \A m : Find(m)' = Find(m)
    BY <2>1 DEF Find, AsSize
  <2>3. TypeOK' /\ LaidOut' /\ LevelsCarry'
    BY ZenonT(60), <2>1 DEF IndInv, TypeOK, LaidOut, LevelsCarry, ReadDigital, ReadAnalog, Exists
  <2>4. CallInv'
    BY <2>1, <2>2 DEF IndInv, CallInv, Exists, Needed
  <2> QED
    BY <2>3, <2>4 DEF IndInv
<1>7. CASE Host
  BY <1>1, <1>2, <1>7 DEF Host
<1>8. CASE SketchCalls
  <2>1. ASSUME NEW n \in Numbers, NEW kind \in {"digital", "analog"}, Reads(n, kind)
        PROVE  IndInv'
    <3>1. Writable(kind, 0) /\ "read" \in Abilities
      BY <1>words DEF Writable, Abilities
    <3> QED
      BY <1>4, <2>1, <3>1 DEF Reads
  <2>2. ASSUME NEW n \in Numbers, NEW kind \in {"digital", "analog"},
               NEW v \in ByteValues \cup {0, 1}, Writes(n, kind, v)
        PROVE  IndInv'
    <3>1. Writable(kind, v) /\ "write" \in Abilities
      BY <1>words, <2>2 DEF Writes, Writable, Abilities
    <3> QED
      BY <1>4, <2>2, <3>1 DEF Writes
  <2> QED
    BY <1>3, <1>5, <1>8, <2>1, <2>2 DEF SketchCalls
<1> QED
  BY <1>6, <1>7, <1>8 DEF Next

\* ... so that it holds in every reachable state.
LEMMA Invariance == Spec => []IndInv
BY InitInv, NextInv, PTL DEF Spec
-----------------------------------------------------------------------------
(* What it is for                                                          *)

\* In every configuration, whatever the order of its pins and drivers and however
\* often they are named, BoardView finds a pin by its number with the drivers given
\* last and finds no other number; a call past its checks has a pin that exists.
THEOREM PinsAreRight == Spec => []PinsInv
<1>1. IndInv => PinsInv
  BY Configuration DEF IndInv, PinsInv
<1> QED
  BY Invariance, <1>1, PTL

\* Digital reads agree with the last write of either process to the pin, of 16
\* bits, and analog reads give it back or full scale.
THEOREM LevelsAlwaysCarry == Spec => []LevelsCarry
<1>1. IndInv => LevelsCarry
  BY DEF IndInv
<1> QED
  BY Invariance, <1>1, PTL

\* While the host sets no directions, the Arduino functions write only output pins
\* that the configuration lets the board write, whatever the host does between the
\* check of a call and its access.
THEOREM OnlyOutputs ==
  ASSUME ~HostDirects
  PROVE  Spec => SketchDrivesOutputs
<1>1. ASSUME IndInv, Next, NEW i \in DOMAIN pins, call' # call, pins'[i].value # pins[i].value
      PROVE  /\ pins[i].direction = "out"
             /\ "write" \in Configured(pins[i].id, call.kind)
  <2>1. Accesses
    <3>1. ~Host
      BY <1>1 DEF Host, HostWrites, HostSetsDirection
    <3>2. \A n, d : ~PinMode(n, d)
      BY <1>1 DEF PinMode
    <3>3. \A n, kind, how, v : ~Calls(n, kind, how, v)
      BY <1>1 DEF Calls
    <3> QED
      BY <1>1, <3>1, <3>2, <3>3 DEF Next, SketchCalls, Reads, Writes
  <2>2. /\ call.at = "access" /\ call.how = "write"
        /\ WriteDriver(call.pin, call.kind, call.value)
    BY <1>1, <2>1 DEF Accesses
  <2>3. /\ \E n \in Numbers : call.pin = Find(n) /\ Exists(call.pin)
        /\ "write" \in pins[call.pin][call.kind]
        /\ pins[call.pin].direction = "out"
    BY <1>1, <2>2 DEF IndInv, CallInv, Needed
  <2>4. i = call.pin
    <3>1. Writable(call.kind, call.value)
      BY <1>1, <2>2 DEF IndInv, TypeOK, CallInv, Writable
    <3>2. \A j \in DOMAIN pins : j # call.pin => pins'[j].value = pins[j].value
      BY <1>1, <2>2, <3>1, WriteKeeps
    <3> QED
      BY <1>1, <3>2
  <2>5. PICK n \in Numbers : call.pin = Find(n) /\ Exists(Find(n))
    BY <2>3
  <2>6. /\ pins[i].digital = Configured(pins[i].id, "digital")
        /\ pins[i].analog = Configured(pins[i].id, "analog")
    BY <1>1, <2>4, <2>5, Layout DEF IndInv
  <2>7. call.kind \in {"digital", "analog"}
    BY <1>1 DEF IndInv, TypeOK
  <2> QED
    BY <2>3, <2>4, <2>6, <2>7
<1>2. IndInv /\ [Next]_vars
        => [\A i \in DOMAIN pins :
              (call' # call /\ pins'[i].value # pins[i].value)
                => /\ pins[i].direction = "out"
                   /\ "write" \in Configured(pins[i].id, call.kind)]_vars
  BY <1>1
<1> QED
  BY Invariance, <1>2, PTL DEF Spec, SketchDrivesOutputs

-----------------------------------------------------------------------------
(* The types of the fields of board devices.                               *)

\* The types of fields and of banks, as sets.
LEMMA TypesOfFields ==
  /\ Range(FieldTypes) = {"u8", "u16", "u32", "u64", "s8", "s16", "s32", "s64", "f32", "f64",
                          "au8", "au16", "au32", "au64", "as8", "as16", "as32", "as64",
                          "af32", "af64", "mutex"}
  /\ Banks = {"u8", "u16", "u32", "u64", "f32", "f64",
              "au8", "au16", "au32", "au64", "af32", "af64", "mutex"}
<1>1. DOMAIN FieldTypes = 1 .. 21 /\ DOMAIN BankTypes = 1 .. 13
  BY DEF FieldTypes, BankTypes
<1>2. Range(FieldTypes) = {FieldTypes[i] : i \in 1 .. 21} /\ Banks = {BankTypes[i] : i \in 1 .. 13}
  BY <1>1 DEF Range, Banks
<1> QED
  BY <1>2 DEF FieldTypes, BankTypes

\* Each type of a field has a bank, which holds mutexes or integers of its width.
LEMMA BankOfType ==
  ASSUME NEW t \in Range(FieldTypes)
  PROVE  /\ Bank(t) \in Banks /\ (Bank(t) = "mutex" <=> t = "mutex")
         /\ Bank(t) \in {"u8", "au8"} => t # "mutex" /\ t \notin Real /\ Span(t) = 2^8
BY TypesOfFields DEF Bank, Span, Real

\* Division with a remainder.
LEMMA Divide ==
  ASSUME NEW m \in Nat \ {0}, NEW v \in Int
  PROVE  v = m * (v \div m) + (v % m) /\ v \div m \in Int /\ v % m \in 0 .. m - 1
<1>1. v % m \in 0 .. m - 1
  OBVIOUS
<1>2. v \div m \in Int
  OBVIOUS
<1>3. v = m * (v \div m) + (v % m)
  OBVIOUS
<1> QED
  BY <1>1, <1>2, <1>3

LEMMA Multiple == ASSUME NEW m \in Nat \ {0}, NEW q \in Int PROVE (m * q) % m = 0
OBVIOUS

\* The width of a type is a number of bits.
LEMMA SpanIsEven == \A t : /\ Span(t) \in Nat \ {0} /\ Span(t) \div 2 \in Nat
                           /\ Span(t) = 2 * (Span(t) \div 2)
<1> DEFINE Even(n) == n \in Nat \ {0} /\ n \div 2 \in Nat /\ n = 2 * (n \div 2)
           word == 2^32
<1>1. Even(2^8) /\ Even(2^16) /\ Even(word)
  BY SMT
<1> HIDE DEF word
<1>2. Even(word * word)
  <2>1. PICK h \in Nat \ {0} : word = 2 * h
    BY <1>1, SMT
  <2>2. h * word \in Nat \ {0} /\ word * word = 2 * (h * word)
    BY <1>1, <2>1, SMT
  <2>3. \A n \in Nat \ {0} : Even(2 * n)
    BY SMT
  <2> HIDE DEF Even
  <2> QED
    BY <2>2, <2>3, SMT
<1> HIDE DEF Even
<1>3. ASSUME NEW t PROVE Even(Span(t))
  <2>1. Span(t) \in {2^8, 2^16, word, word * word}
    BY DEF Span, word
  <2> QED
    BY <1>1, <1>2, <2>1
<1> QED
  BY <1>3 DEF Even

\* What a field holds converts back to the value that was stored in it.
LEMMA StoredConverts ==
  ASSUME NEW t, NEW v, t \notin {"mutex"} \cup Real => v \in Int
  PROVE  Converts(t, v, AsSigned(t, Stored(t, v)))
<1>1. CASE t = "mutex" \/ t \in Real
  <2>1. t \notin Signed
    BY <1>1 DEF Signed, Real
  <2>2. AsSigned(t, Stored(t, v)) = v
    BY <1>1, <2>1 DEF AsSigned, Stored, AsUnsigned, Real
  <2> QED
    BY <1>1, <2>2 DEF Converts
<1>2. CASE t # "mutex" /\ t \notin Real
  <2> DEFINE m == Span(t)
             h == Span(t) \div 2
             u == v % m
             x == AsSigned(t, u)
  <2>1. m \in Nat \ {0} /\ h \in Nat /\ m = 2 * h /\ v \in Int
    BY <1>2, SpanIsEven
  <2>2. Stored(t, v) = u
    BY <1>2 DEF Stored, AsUnsigned
  <2>3. x = IF t \in Signed /\ u >= h THEN u - m ELSE u
    BY DEF AsSigned
  <2> HIDE DEF m, h
  <2>4. u \in 0 .. m - 1 /\ v = m * (v \div m) + u /\ v \div m \in Int
    BY <2>1, Divide
  <2> HIDE DEF u, x
  <2>5. x \in Int /\ IF t \in Signed THEN x \in -h .. h - 1 ELSE x \in 0 .. m - 1
    BY <2>1, <2>3, <2>4
  <2>6. (u - v) % m = 0 /\ (u - m - v) % m = 0
    <3>1. u - v = m * (0 - (v \div m)) /\ u - m - v = m * (0 - (v \div m) - 1)
      BY <2>1, <2>4
    <3>2. \A q \in Int : (m * q) % m = 0
      BY <2>1, Multiple
    <3>3. 0 - (v \div m) \in Int /\ 0 - (v \div m) - 1 \in Int
      BY <2>4
    <3> QED
      BY <3>1, <3>2, <3>3
  <2>7. (x - v) % m = 0
    BY <2>1, <2>3, <2>4, <2>6
  <2> QED
    BY <1>2, <2>2, <2>5, <2>7 DEF Converts, m, h, x
<1> QED
  BY <1>1, <1>2

-----------------------------------------------------------------------------
(* Specifications and their iterators.                                     *)

\* What is expected of one of a board's devices.
LegalDevice(d) ==
    /\ d.count \in Nat
    /\ DOMAIN Class(d.spec) \subseteq Nat /\ IsFiniteSet(Begin(d.spec))
    /\ \A n \in DOMAIN Class(d.spec) : Class(d.spec)[n] \in Range(FieldTypes)
    /\ IsNative(d.spec) =>
         /\ Begin(d.spec) \subseteq Nat
         /\ \A p, q \in Begin(d.spec) : d.spec.tokens[p].name = d.spec.tokens[q].name => p = q

LEMMA DevicesAreLegal ==
  ASSUME Legal(Configs), NEW c \in Configs
  PROVE  /\ Len(c) \in Nat /\ \A j \in 1 .. Len(c) : LegalDevice(c[j])
         /\ \A i, j \in 1 .. Len(c) : Name(c[i].spec) = Name(c[j].spec) => i = j
BY DEF Legal, LegalDevice

\* The class of a specification has the fields that an iterator visits, each with the
\* type that the specification gives it.
NativeClass(s) ==
  /\ DOMAIN Class(s) = {s.tokens[p].name : p \in Begin(s)}
  /\ \A p \in Begin(s) : Class(s)[s.tokens[p].name] = s.tokens[p].type

LEMMA ClassOfNative == ASSUME NEW d, LegalDevice(d), IsNative(d.spec) PROVE NativeClass(d.spec)
<1> DEFINE s == d.spec
           one(n) == CHOOSE p \in Begin(s) : s.tokens[p].name = n
           names == {s.tokens[p].name : p \in Begin(s)}
<1>1. Class(s) = [n \in names |-> s.tokens[one(n)].type]
  BY DEF Class
<1>2. ASSUME NEW p \in Begin(s) PROVE one(s.tokens[p].name) = p
  BY DEF LegalDevice
<1> HIDE DEF one
<1>3. ASSUME NEW p \in Begin(s) PROVE Class(s)[s.tokens[p].name] = s.tokens[p].type
  <2>1. s.tokens[p].name \in names
    OBVIOUS
  <2> HIDE DEF names
  <2>2. Class(s)[s.tokens[p].name] = s.tokens[one(s.tokens[p].name)].type
    BY <1>1, <2>1
  <2> QED
    BY <1>2, <2>2
<1>4. DOMAIN Class(s) = names
  BY <1>1
<1> QED
  BY <1>3, <1>4 DEF NativeClass

\* The class of a device has finitely many fields.
LEMMA FieldsAreFinite ==
  ASSUME NEW d, LegalDevice(d)
  PROVE  IsFiniteSet(DOMAIN Class(d.spec))
<1>1. CASE ~IsNative(d.spec)
  BY <1>1 DEF LegalDevice, Begin, Class
<1>2. CASE IsNative(d.spec)
  <2> DEFINE f == [p \in Begin(d.spec) |-> d.spec.tokens[p].name]
  <2>1. DOMAIN Class(d.spec) = {f[p] : p \in Begin(d.spec)}
    <3>1. DOMAIN Class(d.spec) = {d.spec.tokens[p].name : p \in Begin(d.spec)}
      BY <1>2, ClassOfNative DEF NativeClass
    <3>2. \A p \in Begin(d.spec) : f[p] = d.spec.tokens[p].name
      OBVIOUS
    <3> HIDE DEF f
    <3> QED
      BY <3>1, <3>2
  <2>2. f = [p \in Begin(d.spec) |-> f[p]]
    OBVIOUS
  <2> HIDE DEF f
  <2>3. f \in [Begin(d.spec) -> DOMAIN Class(d.spec)]
    BY <2>1, <2>2
  <2>4. f \in Surjection(Begin(d.spec), DOMAIN Class(d.spec))
    BY <2>1, <2>3 DEF Surjection
  <2> QED
    BY <2>4, FS_Surjection DEF LegalDevice
<1> QED
  BY <1>1, <1>2

\* Before the loop no field has been seen, after it all have.
LEMMA SeenAtEnds ==
  ASSUME NEW d, LegalDevice(d)
  PROVE  /\ Seen(d.spec, Begin(d.spec)) = {} /\ Seen(d.spec, {}) = DOMAIN Class(d.spec)
         /\ \A i : Seen(d.spec, i) \subseteq DOMAIN Class(d.spec)
<1>1. CASE ~IsNative(d.spec)
  BY <1>1 DEF Seen, Begin, Class
<1>2. CASE IsNative(d.spec)
  <2> DEFINE s == d.spec
  <2>1. NativeClass(s)
    BY <1>2, ClassOfNative
  <2>2. \A i : Seen(s, i) = {s.tokens[p].name : p \in Begin(s) \ i}
    BY <1>2 DEF Seen
  <2> HIDE DEF s
  <2>3. Seen(s, Begin(s)) = {} /\ Seen(s, {}) = DOMAIN Class(s)
    BY <2>1, <2>2 DEF NativeClass
  <2>4. ASSUME NEW i PROVE Seen(s, i) \subseteq DOMAIN Class(s)
    BY <2>1, <2>2 DEF NativeClass
  <2> QED
    BY <2>3, <2>4 DEF s
<1> QED
  BY <1>1, <1>2

\* An iterator goes on to a field that it has not seen.
GoesOnTo(s, i, x) ==
  /\ x.next \subseteq Begin(s)
  /\ x.field.name \in DOMAIN Class(s)
  /\ x.field.type = Class(s)[x.field.name]
  /\ x.field.name \notin Seen(s, i)
  /\ Seen(s, x.next) = Seen(s, i) \cup {x.field.name}

LEMMA AtIsNext ==
  ASSUME NEW d, LegalDevice(d), NEW i \in SUBSET Begin(d.spec), NEW x \in At(d.spec, i)
  PROVE  GoesOnTo(d.spec, i, x)
<1> DEFINE s == d.spec
<1>1. CASE ~IsNative(s)
  <2>1. PICK n \in i : x = [field |-> [name |-> n, type |-> s.fields[n]], next |-> i \ {n}]
    BY <1>1 DEF At
  <2>2. Class(s) = s.fields /\ Begin(s) = DOMAIN s.fields
    BY <1>1 DEF Class, Begin
  <2>3. Seen(s, i) = Begin(s) \ i /\ Seen(s, x.next) = Begin(s) \ x.next
    BY <1>1 DEF Seen
  <2> QED
    BY <2>1, <2>2, <2>3 DEF GoesOnTo
<1>2. CASE IsNative(s)
  <2>1. PICK p \in i : x = [field |-> s.tokens[p], next |-> i \ {p}]
    BY <1>2 DEF At
  <2>2. p \in Begin(s) /\ x.next = i \ {p} /\ x.field.name = s.tokens[p].name
        /\ x.field.type = s.tokens[p].type
    BY <2>1
  <2>3. /\ Seen(s, i) = {s.tokens[q].name : q \in Begin(s) \ i}
        /\ Seen(s, x.next) = {s.tokens[q].name : q \in Begin(s) \ x.next}
    BY <1>2 DEF Seen
  <2>4. Begin(s) \ x.next = (Begin(s) \ i) \cup {p} /\ p \notin Begin(s) \ i
    BY <2>1, <2>2
  <2>5. \A q \in Begin(s) \ i : s.tokens[q].name # s.tokens[p].name
    BY <1>2, <2>2, <2>4 DEF LegalDevice
  <2>6. Seen(s, x.next) = Seen(s, i) \cup {s.tokens[p].name} /\ s.tokens[p].name \notin Seen(s, i)
    BY <2>3, <2>4, <2>5
  <2>7. s.tokens[p].name \in DOMAIN Class(s) /\ Class(s)[s.tokens[p].name] = s.tokens[p].type
    <3>1. NativeClass(s)
      BY <1>2, ClassOfNative
    <3> HIDE DEF s
    <3> QED
      BY <2>2, <3>1 DEF NativeClass
  <2>8. x.next \subseteq Begin(s)
    BY <2>2
  <2> QED
    BY <2>2, <2>6, <2>7, <2>8 DEF GoesOnTo
<1> QED
  BY <1>1, <1>2

\* How many fields are in a bank when one more is seen.
LEMMA CountInBank ==
  ASSUME NEW s, NEW ns, IsFiniteSet(ns), NEW b
  PROVE  /\ IsFiniteSet(InBank(s, ns, b)) /\ Cardinality(InBank(s, ns, b)) \in Nat
         /\ ns = {} => Cardinality(InBank(s, ns, b)) = 0
         /\ \A n : n \notin ns => Cardinality(InBank(s, ns \cup {n}, b)) =
               Cardinality(InBank(s, ns, b)) + (IF Bank(Class(s)[n]) = b THEN 1 ELSE 0)
<1>1. IsFiniteSet(InBank(s, ns, b)) /\ Cardinality(InBank(s, ns, b)) \in Nat
  BY FS_Subset, FS_CardinalityType DEF InBank
<1>2. ASSUME ns = {} PROVE Cardinality(InBank(s, ns, b)) = 0
  <2>1. InBank(s, ns, b) = {}
    BY <1>2 DEF InBank
  <2> QED
    BY <2>1, FS_EmptySet
<1>3. ASSUME NEW n, n \notin ns
      PROVE  Cardinality(InBank(s, ns \cup {n}, b)) =
               Cardinality(InBank(s, ns, b)) + (IF Bank(Class(s)[n]) = b THEN 1 ELSE 0)
  <2>1. CASE Bank(Class(s)[n]) = b
    <3> DEFINE S == InBank(s, ns, b)
    <3>1. InBank(s, ns \cup {n}, b) = S \cup {n} /\ n \notin S
      BY <1>3, <2>1 DEF InBank
    <3>2. IsFiniteSet(S)
      BY <1>1
    <3> HIDE DEF S
    <3>3. Cardinality(S \cup {n}) = Cardinality(S) + 1
      BY <3>1, <3>2, FS_AddElement
    <3> QED
      BY <2>1, <3>1, <3>3 DEF S
  <2>2. CASE Bank(Class(s)[n]) # b
    <3>1. InBank(s, ns \cup {n}, b) = InBank(s, ns, b)
      BY <2>2 DEF InBank
    <3> QED
      BY <1>1, <2>2, <3>1
  <2> QED
    BY <2>1, <2>2
<1> QED
  BY <1>1, <1>2, <1>3

-----------------------------------------------------------------------------
(* The sizes of the banks.                                                 *)

\* How many fields of a device are in a bank, and what the bank then needs.
FieldsIn(d, b) == Cardinality(InBank(d.spec, DOMAIN Class(d.spec), b))
AddDevice(sizes, d) == [b \in Banks |-> sizes[b] + d.count * FieldsIn(d, b)]

LEMMA NatSumAndProduct == \A x, y, z \in Nat : x + y * z \in Nat /\ x <= x + y * z
<1>1. \A y, z \in Nat : y * z \in Nat
  OBVIOUS
<1> QED
  BY <1>1

LEMMA FieldsInIsNat ==
  ASSUME NEW d, LegalDevice(d), NEW b
  PROVE  FieldsIn(d, b) \in Nat
BY FieldsAreFinite, CountInBank DEF FieldsIn

LEMMA AddDeviceIsNat ==
  ASSUME NEW d, LegalDevice(d), NEW sizes \in [Banks -> Nat]
  PROVE  /\ AddDevice(sizes, d) \in [Banks -> Nat]
         /\ \A b \in Banks : sizes[b] <= AddDevice(sizes, d)[b]
<1>1. \A b \in Banks : /\ sizes[b] + d.count * FieldsIn(d, b) \in Nat
                       /\ sizes[b] <= sizes[b] + d.count * FieldsIn(d, b)
  <2> SUFFICES ASSUME NEW b \in Banks
               PROVE  /\ sizes[b] + d.count * FieldsIn(d, b) \in Nat
                      /\ sizes[b] <= sizes[b] + d.count * FieldsIn(d, b)
    OBVIOUS
  <2>1. sizes[b] \in Nat /\ d.count \in Nat /\ FieldsIn(d, b) \in Nat
    BY FieldsInIsNat DEF LegalDevice
  <2> QED
    BY <2>1, NatSumAndProduct
<1> QED
  BY <1>1 DEF AddDevice

\* Sizes adds up the devices from the front.
LEMMA SizesUnfold ==
  ASSUME Legal(Configs), NEW c \in Configs
  PROVE  /\ Sizes(c)[0] = NoBases
         /\ \A j \in 0 .. Len(c) : Sizes(c)[j] \in [Banks -> Nat]
         /\ \A j \in 1 .. Len(c) : Sizes(c)[j] = AddDevice(Sizes(c)[j - 1], c[j])
<1> DEFINE N == Len(c)
           Acc == [Banks -> Nat]
           g == [p \in (1 .. N) \X Acc |-> AddDevice(p[2], c[p[1]])]
           Eq(f) == f = [j \in 0 .. N |->
                           IF j = 0 THEN NoBases
                           ELSE LET s == c[j].spec IN
                                [b \in Banks |->
                                    f[j - 1][b] + c[j].count * Cardinality(InBank(s, DOMAIN Class(s), b))]]
           from == CHOOSE f : Eq(f)
<1>1. N \in Nat /\ \A j \in 1 .. N : LegalDevice(c[j])
  BY DevicesAreLegal
<1>2. \A j \in 1 .. N, u \in Acc : AddDevice(u, c[j]) \in Acc
  BY <1>1, AddDeviceIsNat
<1>3. NoBases \in Acc
  BY DEF NoBases
<1> HIDE DEF N, Acc
<1>4. g \in [(1 .. N) \X Acc -> Acc]
  BY <1>2
<1>5. \A j \in 1 .. N, u \in Acc : g[<<j, u>>] = AddDevice(u, c[j])
  OBVIOUS
<1> HIDE DEF g
<1>6. PICK f \in [0 .. N -> Acc] : Runs(f, NoBases, g, N)
  BY <1>1, <1>3, <1>4, RunExists
<1>7. \A j \in 1 .. N : j - 1 \in 0 .. N
  BY <1>1
<1>8. \A j \in 1 .. N : f[j] = AddDevice(f[j - 1], c[j])
  BY <1>5, <1>6, <1>7 DEF Runs
<1>9. Eq(f)
  <2>1. f[0] = NoBases
    BY <1>6 DEF Runs
  <2>2. \A j \in 1 .. N : f[j] = LET s == c[j].spec IN
          [b \in Banks |-> f[j - 1][b] + c[j].count * Cardinality(InBank(s, DOMAIN Class(s), b))]
    BY <1>8 DEF AddDevice, FieldsIn
  <2>3. \A j \in 0 .. N : f[j] =
          IF j = 0 THEN NoBases
          ELSE LET s == c[j].spec IN
               [b \in Banks |-> f[j - 1][b] + c[j].count * Cardinality(InBank(s, DOMAIN Class(s), b))]
    <3> SUFFICES ASSUME NEW j \in 0 .. N, j # 0 PROVE j \in 1 .. N
      BY <2>1, <2>2
    <3> QED
      BY <1>1
  <2> QED
    BY <2>3
<1>10. Eq(from)
  <2> HIDE DEF Eq
  <2> QED
    BY <1>9
<1>11. Sizes(c) = from
  BY DEF Sizes, N
<1> HIDE DEF from
<1>12. from[0] = NoBases /\ \A j \in 1 .. N : from[j] = AddDevice(from[j - 1], c[j])
  <2>1. \A j \in 0 .. N : from[j] =
          IF j = 0 THEN NoBases
          ELSE LET s == c[j].spec IN
               [b \in Banks |-> from[j - 1][b] + c[j].count * Cardinality(InBank(s, DOMAIN Class(s), b))]
    BY <1>10
  <2>2. 0 \in 0 .. N
    BY <1>1
  <2>3. from[0] = NoBases
    BY <2>1, <2>2
  <2>4. ASSUME NEW j \in 1 .. N PROVE from[j] = AddDevice(from[j - 1], c[j])
    <3>1. j \in 0 .. N /\ j # 0
      BY <1>1
    <3>2. from[j] = LET s == c[j].spec IN
               [b \in Banks |-> from[j - 1][b] + c[j].count * Cardinality(InBank(s, DOMAIN Class(s), b))]
      BY <2>1, <3>1
    <3> QED
      BY <3>2 DEF AddDevice, FieldsIn
  <2> QED
    BY <2>3, <2>4
<1>13. \A j \in 0 .. N : from[j] \in Acc
  <2> DEFINE P == {j \in 0 .. N : from[j] \in Acc}
  <2>1. 0 \in P /\ \A j \in 1 .. N : j - 1 \in P => j \in P
    BY <1>1, <1>2, <1>3, <1>12
  <2> HIDE DEF P
  <2>2. \A j \in 0 .. N : j \in P
    BY <1>1, <2>1, CountUp
  <2> QED
    BY <2>2 DEF P
<1> QED
  BY <1>11, <1>12, <1>13 DEF N, Acc

\* The banks only grow from device to device.
LEMMA SizesGrow ==
  ASSUME Legal(Configs), NEW c \in Configs, NEW b \in Banks
  PROVE  /\ \A j \in 0 .. Len(c) : Sizes(c)[j][b] \in Nat
         /\ \A j, m \in 0 .. Len(c) : j <= m => Sizes(c)[j][b] <= Sizes(c)[m][b]
<1> DEFINE N == Len(c)
           size(j) == Sizes(c)[j][b]
<1>1. N \in Nat /\ \A j \in 1 .. N : LegalDevice(c[j])
  BY DevicesAreLegal
<1>2. \A j \in 0 .. N : size(j) \in Nat
  BY SizesUnfold
<1>3. \A j \in 1 .. N : size(j - 1) <= size(j)
  <2> SUFFICES ASSUME NEW j \in 1 .. N PROVE size(j - 1) <= size(j)
    OBVIOUS
  <2>1. j - 1 \in 0 .. N /\ Sizes(c)[j - 1] \in [Banks -> Nat] /\ LegalDevice(c[j])
    BY <1>1, SizesUnfold
  <2>2. Sizes(c)[j] = AddDevice(Sizes(c)[j - 1], c[j])
    BY SizesUnfold
  <2> QED
    BY <2>1, <2>2, AddDeviceIsNat
<1> HIDE DEF N, size
<1>4. ASSUME NEW j \in 0 .. N PROVE \A m \in 0 .. N : j <= m => size(j) <= size(m)
  <2> DEFINE P == {m \in 0 .. N : j <= m => size(j) <= size(m)}
  <2>1. 0 \in P
    BY <1>1, <1>2
  <2>2. ASSUME NEW m \in 1 .. N, m - 1 \in P PROVE m \in P
    <3>1. m \in 0 .. N /\ m - 1 \in 0 .. N
      BY <1>1
    <3>2. size(m - 1) <= size(m) /\ size(m) \in Nat /\ size(m - 1) \in Nat /\ size(j) \in Nat
      BY <1>2, <1>3, <3>1
    <3>3. j <= m => j = m \/ j <= m - 1
      BY <3>1
    <3>4. j <= m - 1 => size(j) <= size(m - 1)
      BY <2>2
    <3> QED
      BY <3>1, <3>2, <3>3, <3>4
  <2> HIDE DEF P
  <2>3. \A m \in 0 .. N : m \in P
    BY <1>1, <2>1, <2>2, CountUp
  <2> QED
    BY <2>3 DEF P
<1> QED
  BY <1>2, <1>4 DEF N, size

-----------------------------------------------------------------------------
(* What the two loops count.                                               *)

CountedIn(c, j, i, b) ==
  IF j = 0 THEN 0
  ELSE Sizes(c)[j - 1][b] + c[j].count * Cardinality(InBank(c[j].spec, Seen(c[j].spec, i), b))

LEMMA CountedIsIn ==
  /\ \A b : Counted(b) = CountedIn(config, dev, it, b)
  /\ (\A b : Counted(b) = CountedIn(config, dev, it, b))'
BY DEF Counted, CountedIn, Current, Count

LEMMA CountedAtEnd ==
  ASSUME Legal(Configs), NEW c \in Configs, NEW j \in 0 .. Len(c), NEW b \in Banks
  PROVE  CountedIn(c, j, {}, b) = Sizes(c)[j][b]
<1>1. CASE j = 0
  BY <1>1, SizesUnfold DEF CountedIn, NoBases
<1>2. CASE j # 0
  <2>1. j \in 1 .. Len(c) /\ LegalDevice(c[j])
    BY <1>2, DevicesAreLegal
  <2>2. Sizes(c)[j] = AddDevice(Sizes(c)[j - 1], c[j])
    BY <2>1, SizesUnfold
  <2>3. Seen(c[j].spec, {}) = DOMAIN Class(c[j].spec)
    BY <2>1, SeenAtEnds
  <2> QED
    BY <1>2, <2>2, <2>3 DEF CountedIn, AddDevice, FieldsIn
<1> QED
  BY <1>1, <1>2

LEMMA CountedAtStart ==
  ASSUME Legal(Configs), NEW c \in Configs, NEW j \in 1 .. Len(c), NEW b \in Banks
  PROVE  CountedIn(c, j, Begin(c[j].spec), b) = Sizes(c)[j - 1][b]
<1>1. Len(c) \in Nat /\ LegalDevice(c[j]) /\ j # 0 /\ j - 1 \in 0 .. Len(c)
  BY DevicesAreLegal
<1>2. Seen(c[j].spec, Begin(c[j].spec)) = {}
  BY <1>1, SeenAtEnds
<1>3. Cardinality(InBank(c[j].spec, {}, b)) = 0
  <2>1. InBank(c[j].spec, {}, b) = {}
    BY DEF InBank
  <2> QED
    BY <2>1, FS_EmptySet
<1>4. c[j].count \in Nat /\ Sizes(c)[j - 1][b] \in Nat
  BY <1>1, SizesGrow DEF LegalDevice
<1>5. CountedIn(c, j, Begin(c[j].spec), b) = Sizes(c)[j - 1][b] + c[j].count * 0
  BY <1>1, <1>2, <1>3 DEF CountedIn
<1> QED
  BY <1>4, <1>5

\* What a loop finds at its iterator.
LEMMA FieldAt ==
  ASSUME Legal(Configs), NEW c \in Configs, NEW j \in 1 .. Len(c),
         NEW i \in SUBSET Begin(c[j].spec), NEW x \in At(c[j].spec, i)
  PROVE  LegalDevice(c[j]) /\ GoesOnTo(c[j].spec, i, x)
<1>1. LegalDevice(c[j])
  BY DevicesAreLegal
<1> QED
  BY <1>1, AtIsNext

\* A field that is counted is one more of its bank in every instance.
LEMMA CountedNext ==
  ASSUME Legal(Configs), NEW c \in Configs, NEW j \in 1 .. Len(c),
         NEW i \in SUBSET Begin(c[j].spec), NEW x \in At(c[j].spec, i)
  PROVE  /\ Bank(x.field.type) \in Banks
         /\ \A b \in Banks : CountedIn(c, j, x.next, b) =
               CountedIn(c, j, i, b) + (IF b = Bank(x.field.type) THEN c[j].count ELSE 0)
<1> DEFINE s == c[j].spec
           n == x.field.name
           t == x.field.type
<1>1. Len(c) \in Nat /\ LegalDevice(c[j]) /\ j # 0 /\ j - 1 \in 0 .. Len(c)
  BY DevicesAreLegal
<1>2. /\ n \in DOMAIN Class(s) /\ t = Class(s)[n] /\ n \notin Seen(s, i)
      /\ Seen(s, x.next) = Seen(s, i) \cup {n}
  <2>1. LegalDevice(c[j]) /\ GoesOnTo(s, i, x)
    BY FieldAt
  <2> HIDE DEF s
  <2> QED
    BY <2>1 DEF GoesOnTo
<1>3. t \in Range(FieldTypes)
  BY <1>1, <1>2 DEF LegalDevice
<1>4. Bank(t) \in Banks
  BY <1>3, BankOfType
<1>5. IsFiniteSet(Seen(s, i))
  BY <1>1, SeenAtEnds, FieldsAreFinite, FS_Subset
<1> HIDE DEF s, n, t
<1>6. ASSUME NEW b \in Banks
      PROVE  CountedIn(c, j, x.next, b) = CountedIn(c, j, i, b) + (IF b = Bank(t) THEN c[j].count ELSE 0)
  <2> DEFINE old == Cardinality(InBank(s, Seen(s, i), b))
             new == Cardinality(InBank(s, Seen(s, x.next), b))
             size == Sizes(c)[j - 1][b]
             count == c[j].count
  <2>1. old \in Nat /\ new = old + (IF Bank(t) = b THEN 1 ELSE 0)
    BY <1>2, <1>5, CountInBank
  <2>2. size \in Nat /\ count \in Nat
    BY <1>1, SizesGrow DEF LegalDevice
  <2>3. CountedIn(c, j, i, b) = size + count * old /\ CountedIn(c, j, x.next, b) = size + count * new
    BY <1>1 DEF CountedIn, s
  <2> HIDE DEF old, new, size, count
  <2>4. count * (old + 1) = count * old + count
    BY <2>1, <2>2
  <2> QED
    <3>1. CASE Bank(t) = b
      <4>1. new = old + 1
        BY <2>1, <3>1
      <4> QED
        BY <2>1, <2>2, <2>3, <2>4, <3>1, <4>1 DEF count
    <3>2. CASE Bank(t) # b
      <4>1. new = old /\ size + count * old \in Int
        BY <2>1, <2>2, <3>2
      <4> QED
        BY <2>3, <3>2, <4>1
    <3> QED
      BY <3>1, <3>2
<1> QED
  BY <1>4, <1>6 DEF t, s

\* What the map of devices is when j devices of c are in it, the last one up to i.
MapAt(m, c, j, i) ==
  /\ DOMAIN m = {Name(c[k].spec) : k \in 1 .. j}
  /\ \A k \in 1 .. j :
       LET s == c[k].spec IN
       m[Name(s)] = [fields |-> [n \in (IF k = j THEN Seen(s, i) ELSE DOMAIN Class(s)) |-> Class(s)[n]],
                     count |-> c[k].count, bases |-> Sizes(c)[k - 1]]

\* A device is added to the map, or a field to one of its devices.
WithDevice(m, c, j) ==
  [n \in DOMAIN m \cup {Name(c[j + 1].spec)} |->
     IF n \in DOMAIN m THEN m[n]
     ELSE [fields |-> NoFields, count |-> c[j + 1].count, bases |-> Sizes(c)[j]]]
WithField(m, s, x) ==
  [m EXCEPT ![Name(s)].fields =
     [n \in DOMAIN @ \cup {x.field.name} |-> IF n \in DOMAIN @ THEN @[n] ELSE x.field.type]]

LEMMA MapNewDevice ==
  ASSUME Legal(Configs), NEW c \in Configs, NEW j \in 0 .. (Len(c) - 1), NEW m, MapAt(m, c, j, {})
  PROVE  MapAt(WithDevice(m, c, j), c, j + 1, Begin(c[j + 1].spec))
<1> DEFINE new == c[j + 1]
           M == [n \in DOMAIN m \cup {Name(new.spec)} |->
                   IF n \in DOMAIN m THEN m[n]
                   ELSE [fields |-> NoFields, count |-> new.count, bases |-> Sizes(c)[j]]]
<1>1. /\ Len(c) \in Nat /\ j + 1 \in 1 .. Len(c) /\ j \in 0 .. Len(c) /\ j + 1 - 1 = j
      /\ \A k \in 1 .. j : k \in 1 .. Len(c) /\ k # j + 1
      /\ \A k \in 1 .. j + 1 : k = j + 1 \/ k \in 1 .. j
      /\ \A k \in 1 .. j : k \in 1 .. j + 1
      /\ j + 1 \in 1 .. j + 1
  BY DevicesAreLegal
<1>2. \A k \in 1 .. j : Name(c[k].spec) # Name(new.spec)
  BY <1>1, DevicesAreLegal
<1>3. Name(new.spec) \notin DOMAIN m
  BY <1>2 DEF MapAt
<1>4. DOMAIN M = {Name(c[k].spec) : k \in 1 .. j + 1}
  <2>1. DOMAIN M = {Name(c[k].spec) : k \in 1 .. j} \cup {Name(new.spec)}
    BY DEF MapAt
  <2> HIDE DEF M
  <2> QED
    BY <1>1, <2>1
<1>5. ASSUME NEW k \in 1 .. j
      PROVE  M[Name(c[k].spec)] =
               [fields |-> [n \in DOMAIN Class(c[k].spec) |-> Class(c[k].spec)[n]],
                count |-> c[k].count, bases |-> Sizes(c)[k - 1]]
  <2>1. Name(c[k].spec) \in DOMAIN m
    BY DEF MapAt
  <2>2. M[Name(c[k].spec)] = m[Name(c[k].spec)]
    BY <2>1
  <2>3. LegalDevice(c[k])
    BY <1>1, DevicesAreLegal
  <2>4. Seen(c[k].spec, {}) = DOMAIN Class(c[k].spec)
    BY <2>3, SeenAtEnds
  <2> HIDE DEF M
  <2> QED
    BY <2>2, <2>4 DEF MapAt
<1>6. M[Name(new.spec)] =
        [fields |-> [n \in Seen(new.spec, Begin(new.spec)) |-> Class(new.spec)[n]],
         count |-> new.count, bases |-> Sizes(c)[j]]
  <2>1. LegalDevice(new)
    BY <1>1, DevicesAreLegal
  <2>2. Seen(new.spec, Begin(new.spec)) = {}
    BY <2>1, SeenAtEnds
  <2>3. [n \in {} |-> Class(new.spec)[n]] = NoFields
    BY DEF NoFields
  <2>4. M[Name(new.spec)] = [fields |-> NoFields, count |-> new.count, bases |-> Sizes(c)[j]]
    BY <1>3
  <2> QED
    BY <2>2, <2>3, <2>4
<1> HIDE DEF M
<1>7. MapAt(M, c, j + 1, Begin(new.spec))
  <2>1. ASSUME NEW k \in 1 .. j + 1
        PROVE  M[Name(c[k].spec)] =
                 [fields |-> [n \in (IF k = j + 1 THEN Seen(c[k].spec, Begin(new.spec))
                                     ELSE DOMAIN Class(c[k].spec)) |-> Class(c[k].spec)[n]],
                  count |-> c[k].count, bases |-> Sizes(c)[k - 1]]
    <3>1. CASE k = j + 1
      <4>1. c[k] = new /\ k - 1 = j
        BY <1>1, <3>1
      <4> QED
        BY <1>6, <3>1, <4>1
    <3>2. CASE k \in 1 .. j
      BY <1>1, <1>5, <3>2
    <3> QED
      BY <1>1, <3>1, <3>2
  <2> QED
    BY <1>4, <2>1 DEF MapAt
<1> QED
  BY <1>7 DEF M, WithDevice

LEMMA MapNewField ==
  ASSUME Legal(Configs), NEW c \in Configs, NEW j \in 1 .. Len(c), NEW m,
         NEW i \in SUBSET Begin(c[j].spec), NEW x \in At(c[j].spec, i), MapAt(m, c, j, i)
  PROVE  MapAt(WithField(m, c[j].spec, x), c, j, x.next)
<1> DEFINE s == c[j].spec
           old == m[Name(s)]
           F == [n \in DOMAIN old.fields \cup {x.field.name} |->
                    IF n \in DOMAIN old.fields THEN old.fields[n] ELSE x.field.type]
           M == [m EXCEPT ![Name(s)] = [old EXCEPT !.fields = F]]
<1>1. /\ Len(c) \in Nat /\ LegalDevice(c[j]) /\ j \in 1 .. j
      /\ \A k \in 1 .. j : k # j => k \in 1 .. Len(c) /\ Name(c[k].spec) # Name(s)
  BY DevicesAreLegal
<1>2. /\ x.field.name \in DOMAIN Class(s) /\ x.field.type = Class(s)[x.field.name]
      /\ x.field.name \notin Seen(s, i)
      /\ Seen(s, x.next) = Seen(s, i) \cup {x.field.name}
  <2>1. LegalDevice(c[j]) /\ GoesOnTo(s, i, x)
    BY FieldAt
  <2> HIDE DEF s
  <2> QED
    BY <2>1 DEF GoesOnTo
<1>3. Name(s) \in DOMAIN m
  BY <1>1 DEF MapAt
<1>4. old = [fields |-> [n \in Seen(s, i) |-> Class(s)[n]],
             count |-> c[j].count, bases |-> Sizes(c)[j - 1]]
  BY <1>1 DEF MapAt
<1>5. F = [n \in Seen(s, x.next) |-> Class(s)[n]]
  <2>1. DOMAIN old.fields = Seen(s, i) /\ \A n \in Seen(s, i) : old.fields[n] = Class(s)[n]
    BY <1>4
  <2> HIDE DEF old, s
  <2> QED
    BY <1>2, <2>1
<1>6. [old EXCEPT !.fields = F] = [fields |-> F, count |-> c[j].count, bases |-> Sizes(c)[j - 1]]
  <2> HIDE DEF F, s
  <2> QED
    BY <1>4
<1>7. /\ DOMAIN M = DOMAIN m /\ M[Name(s)] = [old EXCEPT !.fields = F]
      /\ \A n \in DOMAIN m : n # Name(s) => M[n] = m[n]
  <2> HIDE DEF F, old
  <2> QED
    BY <1>3
<1> HIDE DEF M, F, old
<1>8. MapAt(M, c, j, x.next)
  <2>1. ASSUME NEW k \in 1 .. j
        PROVE  M[Name(c[k].spec)] =
                 [fields |-> [n \in (IF k = j THEN Seen(c[k].spec, x.next) ELSE DOMAIN Class(c[k].spec)) |->
                                Class(c[k].spec)[n]],
                  count |-> c[k].count, bases |-> Sizes(c)[k - 1]]
    <3>1. CASE k = j
      BY <1>5, <1>6, <1>7, <3>1
    <3>2. CASE k # j
      <4>1. Name(c[k].spec) \in DOMAIN m
        BY DEF MapAt
      <4>2. M[Name(c[k].spec)] = m[Name(c[k].spec)]
        BY <1>1, <1>7, <3>2, <4>1
      <4> QED
        BY <3>2, <4>2 DEF MapAt
    <3> QED
      BY <3>1, <3>2
  <2> QED
    BY <1>7, <2>1 DEF MapAt
<1> QED
  BY <1>8 DEF M, F, old, WithField

-----------------------------------------------------------------------------
(* The constructor lays the banks out.                                     *)

\* LayoutInv, of values.
LayoutIn(c, p, j, i, counts, slots, m) ==
  /\ c \in Configs /\ j \in 0 .. Len(c)
  /\ i \subseteq (IF j = 0 THEN {} ELSE Begin(c[j].spec))
  /\ counts = [b \in Banks |-> CountedIn(c, j, i, b)]
  /\ p = "count" => m = NoDevices
  /\ p \in {"insert", "ready"} =>
       /\ \A b \in Banks : DOMAIN slots[b] = 0 .. Sizes(c)[Len(c)][b] - 1
       /\ MapAt(m, c, j, i)
  /\ p = "ready" => j = Len(c) /\ i = {}

LEMMA LayoutIsIn ==
  /\ LayoutInv <=> LayoutIn(config, phase, dev, it, bases, banks, deviceMap)
  /\ LayoutInv' <=> LayoutIn(config, phase, dev, it, bases, banks, deviceMap)'
<1>1. LayoutInv <=> LayoutIn(config, phase, dev, it, bases, banks, deviceMap)
  BY CountedIsIn DEF LayoutInv, LayoutIn, MapAt, Current
<1>2. LayoutInv' <=> LayoutIn(config, phase, dev, it, bases, banks, deviceMap)'
  BY CountedIsIn DEF LayoutInv, LayoutIn, MapAt, Current
<1> QED
  BY <1>1, <1>2

\* The constructor begins with nothing counted.
LEMMA LayoutInit ==
  ASSUME Legal(Configs), BankInit
  PROVE  LayoutInv
<1>1. config \in Configs /\ dev \in 0 .. Len(config) /\ dev = 0 /\ it = {} /\ phase = "count"
      /\ deviceMap = NoDevices
  BY DevicesAreLegal DEF BankInit
<1>2. bases = [b \in Banks |-> CountedIn(config, dev, it, b)]
  BY DEF BankInit, NoBases, CountedIn
<1> QED
  BY <1>1, <1>2, LayoutIsIn DEF LayoutIn

\* A loop begins with the next device.
LEMMA NextDevice ==
  ASSUME Legal(Configs), NEW c \in Configs, NEW j \in 0 .. Len(c), j < Len(c)
  PROVE  /\ j + 1 \in 1 .. Len(c) /\ j + 1 \in 0 .. Len(c) /\ j + 1 # 0 /\ j \in 0 .. (Len(c) - 1)
         /\ [b \in Banks |-> CountedIn(c, j, {}, b)] = [b \in Banks |-> CountedIn(c, j + 1, Begin(c[j + 1].spec), b)]
         /\ [b \in Banks |-> CountedIn(c, j, {}, b)] = Sizes(c)[j]
<1>1. /\ j + 1 \in 1 .. Len(c) /\ j + 1 \in 0 .. Len(c) /\ j + 1 # 0 /\ j \in 0 .. (Len(c) - 1)
      /\ j + 1 - 1 = j
  BY DevicesAreLegal
<1>2. \A b \in Banks : CountedIn(c, j, {}, b) = Sizes(c)[j][b]
  BY CountedAtEnd
<1>3. \A b \in Banks : CountedIn(c, j + 1, Begin(c[j + 1].spec), b) = Sizes(c)[j][b]
  BY <1>1, CountedAtStart
<1>4. Sizes(c)[j] \in [Banks -> Nat]
  BY SizesUnfold
<1>5. Sizes(c)[j] = [b \in Banks |-> Sizes(c)[j][b]]
  BY <1>4
<1> QED
  BY <1>1, <1>2, <1>3, <1>5

LEMMA CountDeviceStep ==
  ASSUME Legal(Configs), LayoutInv, CountDevice
  PROVE  LayoutInv'
<1>1. /\ config \in Configs /\ dev \in 0 .. Len(config) /\ it = {} /\ phase = "count"
      /\ bases = [b \in Banks |-> CountedIn(config, dev, it, b)] /\ deviceMap = NoDevices
      /\ dev < Len(config)
  BY LayoutIsIn DEF LayoutIn, CountDevice, AtEnd, More
<1>2. /\ config' = config /\ dev' = dev + 1 /\ it' = Begin(config[dev + 1].spec) /\ phase' = "count"
      /\ bases' = bases /\ deviceMap' = deviceMap
  BY DEF CountDevice, StartDevice
<1>3. /\ dev + 1 \in 1 .. Len(config) /\ dev + 1 \in 0 .. Len(config) /\ dev + 1 # 0
      /\ bases = [b \in Banks |-> CountedIn(config, dev + 1, Begin(config[dev + 1].spec), b)]
  BY <1>1, NextDevice
<1> QED
  BY <1>1, <1>2, <1>3, LayoutIsIn DEF LayoutIn

\* What is counted is a number.
LEMMA CountedIsNat ==
  ASSUME Legal(Configs), NEW c \in Configs, NEW j \in 0 .. Len(c), NEW i, NEW b \in Banks
  PROVE  CountedIn(c, j, i, b) \in Nat
<1>1. CASE j = 0
  BY <1>1 DEF CountedIn
<1>2. CASE j # 0
  <2>1. LegalDevice(c[j]) /\ j - 1 \in 0 .. Len(c)
    BY <1>2, DevicesAreLegal
  <2>2. IsFiniteSet(Seen(c[j].spec, i))
    BY <2>1, SeenAtEnds, FieldsAreFinite, FS_Subset
  <2>3. Cardinality(InBank(c[j].spec, Seen(c[j].spec, i), b)) \in Nat
    BY <2>2, CountInBank
  <2>4. Sizes(c)[j - 1][b] \in Nat /\ c[j].count \in Nat
    BY <2>1, SizesGrow DEF LegalDevice
  <2> QED
    BY <1>2, <2>3, <2>4, NatSumAndProduct DEF CountedIn
<1> QED
  BY <1>1, <1>2

\* Where a loop goes from one field to the next.
LEMMA NextField ==
  ASSUME Legal(Configs), LayoutInv, ~AtEnd, NEW x \in At(Current, it)
  PROVE  /\ dev \in 1 .. Len(config) /\ it \in SUBSET Begin(config[dev].spec)
         /\ x \in At(config[dev].spec, it) /\ x.next \subseteq Begin(config[dev].spec)
         /\ Needs(x.field.type) = [b \in Banks |-> CountedIn(config, dev, x.next, b)]
<1>1. /\ config \in Configs /\ dev \in 0 .. Len(config)
      /\ it \subseteq (IF dev = 0 THEN {} ELSE Begin(config[dev].spec))
      /\ bases = [b \in Banks |-> CountedIn(config, dev, it, b)]
      /\ it # {}
  BY LayoutIsIn DEF LayoutIn, AtEnd
<1>2. dev # 0 /\ it \subseteq Begin(config[dev].spec)
  BY <1>1
<1>3. dev \in 1 .. Len(config)
  BY <1>1, <1>2, DevicesAreLegal
<1>4. it \in SUBSET Begin(config[dev].spec) /\ x \in At(config[dev].spec, it)
  BY <1>2 DEF Current
<1>5. GoesOnTo(config[dev].spec, it, x)
  BY <1>1, <1>3, <1>4, FieldAt
<1>6. /\ Bank(x.field.type) \in Banks
      /\ \A b \in Banks : CountedIn(config, dev, x.next, b) =
            CountedIn(config, dev, it, b) + (IF b = Bank(x.field.type) THEN config[dev].count ELSE 0)
  BY <1>1, <1>3, <1>4, CountedNext
<1>7. \A b \in Banks : CountedIn(config, dev, it, b) \in Int
  BY <1>1, CountedIsNat
<1>8. Needs(x.field.type) = [b \in Banks |-> CountedIn(config, dev, x.next, b)]
  <2>1. Needs(x.field.type) =
          [b \in Banks |-> IF b = Bank(x.field.type) THEN bases[b] + config[dev].count ELSE bases[b]]
    BY <1>1, <1>6 DEF Needs, Count
  <2>2. \A b \in Banks : (IF b = Bank(x.field.type) THEN bases[b] + config[dev].count ELSE bases[b])
                           = CountedIn(config, dev, x.next, b)
    BY <1>1, <1>6, <1>7
  <2> QED
    BY <2>1, <2>2
<1> QED
  BY <1>3, <1>4, <1>5, <1>8 DEF GoesOnTo

LEMMA CountFieldStep ==
  ASSUME Legal(Configs), LayoutInv, CountField
  PROVE  LayoutInv'
<1>1. config \in Configs /\ dev \in 0 .. Len(config) /\ deviceMap = NoDevices
  BY LayoutIsIn DEF LayoutIn, CountField
<1>2. PICK x \in At(Current, it) : bases' = Needs(x.field.type) /\ it' = x.next
  BY DEF CountField
<1>3. config' = config /\ dev' = dev /\ phase' = "count" /\ deviceMap' = deviceMap /\ ~AtEnd
  BY DEF CountField
<1>4. /\ dev \in 1 .. Len(config) /\ x.next \subseteq Begin(config[dev].spec)
      /\ bases' = [b \in Banks |-> CountedIn(config, dev, x.next, b)]
  BY <1>2, <1>3, NextField
<1>5. dev # 0
  BY <1>4
<1> QED
  BY <1>1, <1>2, <1>3, <1>4, <1>5, LayoutIsIn DEF LayoutIn

LEMMA ResizeBanksStep ==
  ASSUME Legal(Configs), LayoutInv, ResizeBanks
  PROVE  LayoutInv'
<1>1. /\ config \in Configs /\ dev \in 0 .. Len(config) /\ it = {} /\ deviceMap = NoDevices
      /\ bases = [b \in Banks |-> CountedIn(config, dev, it, b)] /\ ~(dev < Len(config))
  BY LayoutIsIn DEF LayoutIn, ResizeBanks, AtEnd, More
<1>2. dev = Len(config)
  BY <1>1, DevicesAreLegal
<1>3. \A b \in Banks : bases[b] = Sizes(config)[Len(config)][b]
  BY <1>1, <1>2, CountedAtEnd
<1>4. /\ banks' = [b \in Banks |-> [i \in 0 .. bases[b] - 1 |-> Zero(b)]]
      /\ bases' = NoBases /\ phase' = "insert" /\ dev' = 0 /\ it' = {}
      /\ config' = config /\ deviceMap' = deviceMap
  BY DEF ResizeBanks
<1>5. \A b \in Banks : DOMAIN banks'[b] = 0 .. Sizes(config)[Len(config)][b] - 1
  BY <1>3, <1>4
<1>6. NoBases = [b \in Banks |-> CountedIn(config, 0, {}, b)]
  BY DEF NoBases, CountedIn
<1>7. MapAt(NoDevices, config, 0, {})
  BY DEF MapAt, NoDevices
<1>8. 0 \in 0 .. Len(config)
  BY <1>1, DevicesAreLegal
<1> QED
  BY <1>1, <1>4, <1>5, <1>6, <1>7, <1>8, LayoutIsIn DEF LayoutIn

LEMMA InsertDeviceStep ==
  ASSUME Legal(Configs), LayoutInv, InsertDevice
  PROVE  LayoutInv'
<1> DEFINE d == config[dev + 1]
           n == Name(d.spec)
<1>1. /\ config \in Configs /\ dev \in 0 .. Len(config) /\ it = {} /\ phase = "insert"
      /\ bases = [b \in Banks |-> CountedIn(config, dev, {}, b)] /\ dev < Len(config)
      /\ \A b \in Banks : DOMAIN banks[b] = 0 .. Sizes(config)[Len(config)][b] - 1
      /\ MapAt(deviceMap, config, dev, {})
  BY LayoutIsIn DEF LayoutIn, InsertDevice, AtEnd, More
<1>2. config' = config /\ dev' = dev + 1 /\ it' = Begin(d.spec) /\ bases' = bases /\ banks' = banks
  BY DEF InsertDevice, StartDevice
<1>3. /\ dev + 1 \in 1 .. Len(config) /\ dev + 1 \in 0 .. Len(config) /\ dev + 1 # 0
      /\ dev \in 0 .. (Len(config) - 1)
      /\ bases = [b \in Banks |-> CountedIn(config, dev + 1, Begin(d.spec), b)]
      /\ bases = Sizes(config)[dev]
  BY <1>1, NextDevice
<1>4. CASE phase' = "terminated"
  BY <1>1, <1>2, <1>3, <1>4, LayoutIsIn DEF LayoutIn
<1>5. CASE phase' = "insert"
  <2>1. deviceMap' = WithDevice(deviceMap, config, dev)
    <3>1. deviceMap' = [m \in DOMAIN deviceMap \cup {n} |->
             IF m \in DOMAIN deviceMap THEN deviceMap[m]
             ELSE [fields |-> NoFields, count |-> d.count, bases |-> bases]]
      BY <1>5 DEF InsertDevice
    <3> QED
      BY <1>3, <3>1 DEF WithDevice
  <2>2. MapAt(deviceMap', config, dev + 1, Begin(d.spec))
    BY <1>1, <1>3, <2>1, MapNewDevice
  <2> QED
    BY <1>1, <1>2, <1>3, <1>5, <2>2, LayoutIsIn DEF LayoutIn
<1>6. phase' \in {"terminated", "insert"}
  BY DEF InsertDevice
<1> QED
  BY <1>4, <1>5, <1>6

LEMMA InsertFieldStep ==
  ASSUME Legal(Configs), LayoutInv, InsertField
  PROVE  LayoutInv'
<1>1. /\ config \in Configs /\ dev \in 0 .. Len(config) /\ phase = "insert" /\ ~AtEnd
      /\ it \subseteq (IF dev = 0 THEN {} ELSE Begin(config[dev].spec))
      /\ bases = [b \in Banks |-> CountedIn(config, dev, it, b)]
      /\ \A b \in Banks : DOMAIN banks[b] = 0 .. Sizes(config)[Len(config)][b] - 1
      /\ MapAt(deviceMap, config, dev, it)
  BY LayoutIsIn DEF LayoutIn, InsertField
<1>2. config' = config /\ dev' = dev /\ banks' = banks
  BY DEF InsertField
<1>3. PICK x \in At(Current, it) :
        IF x.field.name \in LongNames
        THEN phase' = "terminated" /\ UNCHANGED <<it, bases, deviceMap>>
        ELSE /\ deviceMap' = [deviceMap EXCEPT ![Name(Current)].fields =
                   [m \in DOMAIN @ \cup {x.field.name} |-> IF m \in DOMAIN @ THEN @[m] ELSE x.field.type]]
             /\ bases' = Needs(x.field.type)
             /\ it' = x.next
             /\ UNCHANGED phase
  BY DEF InsertField
<1>4. /\ dev \in 1 .. Len(config) /\ it \in SUBSET Begin(config[dev].spec)
      /\ x \in At(config[dev].spec, it) /\ x.next \subseteq Begin(config[dev].spec)
      /\ Needs(x.field.type) = [b \in Banks |-> CountedIn(config, dev, x.next, b)]
  BY <1>1, NextField
<1>5. CASE x.field.name \in LongNames
  BY <1>1, <1>2, <1>3, <1>5, LayoutIsIn DEF LayoutIn
<1>6. CASE x.field.name \notin LongNames
  <2>1. MapAt(deviceMap', config, dev, x.next)
    <3>1. deviceMap' = WithField(deviceMap, config[dev].spec, x)
      BY <1>3, <1>6 DEF Current, WithField
    <3> QED
      BY <1>1, <1>4, <3>1, MapNewField
  <2>2. dev # 0
    BY <1>4
  <2>3. bases' = [b \in Banks |-> CountedIn(config, dev, x.next, b)] /\ it' = x.next /\ phase' = "insert"
    BY <1>1, <1>3, <1>4, <1>6
  <2> QED
    BY <1>1, <1>2, <1>4, <2>1, <2>2, <2>3, LayoutIsIn DEF LayoutIn
<1> QED
  BY <1>5, <1>6

LEMMA ConstructedStep ==
  ASSUME Legal(Configs), LayoutInv, Constructed
  PROVE  LayoutInv'
<1>1. /\ config \in Configs /\ dev \in 0 .. Len(config) /\ it = {} /\ ~(dev < Len(config))
      /\ bases = [b \in Banks |-> CountedIn(config, dev, it, b)]
      /\ \A b \in Banks : DOMAIN banks[b] = 0 .. Sizes(config)[Len(config)][b] - 1
      /\ MapAt(deviceMap, config, dev, it)
  BY LayoutIsIn DEF LayoutIn, Constructed, AtEnd, More
<1>2. dev = Len(config)
  BY <1>1, DevicesAreLegal
<1>3. /\ config' = config /\ dev' = dev /\ banks' = banks /\ it' = it /\ bases' = bases
      /\ deviceMap' = deviceMap /\ phase' = "ready"
  BY DEF Constructed
<1> QED
  BY <1>1, <1>2, <1>3, LayoutIsIn DEF LayoutIn

-----------------------------------------------------------------------------
(* The places of the fields.                                               *)

\* How many members of S come before n.
Rank(S, n) == Cardinality({m \in S : m < n})

\* Ranks number the members of a set from 0.
LEMMA Ranks ==
  ASSUME NEW S, S \subseteq Nat, IsFiniteSet(S)
  PROVE  /\ Cardinality(S) \in Nat
         /\ \A n \in S : Rank(S, n) \in 0 .. Cardinality(S) - 1
         /\ \A n, m \in S : Rank(S, n) = Rank(S, m) => n = m
         /\ \A k \in 0 .. Cardinality(S) - 1 : \E n \in S : Rank(S, n) = k
<1> DEFINE Before(n) == {m \in S : m < n}
           N == Cardinality(S)
           T == 0 .. N - 1
           f == [n \in S |-> Rank(S, n)]
<1>1. N \in Nat
  BY FS_CardinalityType
<1>2. ASSUME NEW n \in S
      PROVE IsFiniteSet(Before(n)) /\ Rank(S, n) \in Nat
  <2>1. Before(n) \in SUBSET S
    OBVIOUS
  <2>2. IsFiniteSet(Before(n))
    BY <2>1, FS_Subset
  <2> QED
    BY <2>2, FS_CardinalityType DEF Rank
<1>3. ASSUME NEW n \in S PROVE Rank(S, n) \in T
  <2>1. Before(n) \in SUBSET (S \ {n})
    OBVIOUS
  <2>2. IsFiniteSet(S \ {n}) /\ Cardinality(S \ {n}) = N - 1
    BY FS_RemoveElement
  <2>3. Cardinality(Before(n)) <= Cardinality(S \ {n})
    BY <2>1, <2>2, FS_Subset
  <2>4. Rank(S, n) <= N - 1
    BY <2>2, <2>3 DEF Rank
  <2>5. Rank(S, n) \in Nat
    BY <1>2
  <2> HIDE DEF N
  <2> QED
    BY <1>1, <2>4, <2>5
<1>4. ASSUME NEW n \in S, NEW m \in S, n < m PROVE Rank(S, n) < Rank(S, m)
  <2>1. Before(n) \cup {n} \in SUBSET Before(m) /\ n \notin Before(n)
    <3>1. n \in Nat /\ m \in Nat /\ n < m /\ ~(n < n)
      BY <1>4
    <3>2. ASSUME NEW y \in Before(n) PROVE y \in Before(m)
      <4>1. y \in S /\ y < n /\ y \in Nat
        OBVIOUS
      <4> QED
        BY <3>1, <4>1
    <3> QED
      BY <3>1, <3>2
  <2>2. IsFiniteSet(Before(n)) /\ IsFiniteSet(Before(m)) /\ Rank(S, n) \in Nat /\ Rank(S, m) \in Nat
    BY <1>2
  <2> HIDE DEF Before
  <2>3. Cardinality(Before(n) \cup {n}) = Cardinality(Before(n)) + 1
    BY <2>1, <2>2, FS_AddElement
  <2>4. Cardinality(Before(n) \cup {n}) <= Cardinality(Before(m))
    BY <2>1, <2>2, FS_Subset
  <2>5. Rank(S, n) = Cardinality(Before(n)) /\ Rank(S, m) = Cardinality(Before(m))
    BY DEF Rank, Before
  <2> QED
    BY <2>2, <2>3, <2>4, <2>5
<1>5. ASSUME NEW n \in S, NEW m \in S, Rank(S, n) = Rank(S, m) PROVE n = m
  <2>1. n \in Nat /\ m \in Nat /\ Rank(S, n) \in Nat /\ Rank(S, m) \in Nat
    BY <1>2
  <2>2. ~(n < m) /\ ~(m < n)
    BY <1>4, <1>5, <2>1
  <2> QED
    BY <2>1, <2>2
<1>6. f \in Injection(S, T)
  <2>1. f \in [S -> T]
    BY <1>3
  <2>2. \A n, m \in S : f[n] = f[m] => n = m
    BY <1>5
  <2> HIDE DEF f, T
  <2> QED
    BY <2>1, <2>2 DEF Injection, IsInjective
<1>7. IsFiniteSet(T) /\ Cardinality(T) = N
  <2>1. 0 \in Int /\ N - 1 \in Int
    BY <1>1
  <2>2. IsFiniteSet(0 .. N - 1) /\ Cardinality(0 .. N - 1) = IF 0 > N - 1 THEN 0 ELSE N - 1 - 0 + 1
    BY <2>1, FS_Interval
  <2> QED
    BY <1>1, <2>2
<1>8. f \in Surjection(S, T)
  <2> HIDE DEF f, T
  <2> QED
    BY <1>6, <1>7, FS_Injection
<1>9. ASSUME NEW k \in T PROVE \E n \in S : Rank(S, n) = k
  <2>1. \E n \in S : f[n] = k
    <3> HIDE DEF f, T
    <3> QED
      BY <1>8, <1>9 DEF Surjection
  <2> QED
    BY <2>1
<1> QED
  BY <1>1, <1>3, <1>5, <1>9

\* Where the x-th place of row i is in rows of k places each.
Cell(k, i, x) == k * i + x

\* A place is in one row, at one column.
Cells(k, count) ==
  /\ Cell(k, count, 0) = count * k /\ Cell(k, count, 0) \in Nat
  /\ \A i \in 0 .. count - 1, x \in 0 .. k - 1 :
       Cell(k, i, x) \in Nat /\ Cell(k, i, x) < Cell(k, count, 0)
  /\ \A i, h \in 0 .. count - 1 : \A x, y \in 0 .. k - 1 :
       Cell(k, i, x) = Cell(k, h, y) => i = h /\ x = y
  /\ \A q \in Nat : q < Cell(k, count, 0) =>
       \E i \in 0 .. count - 1, x \in 0 .. k - 1 : q = Cell(k, i, x)

LEMMA RowAndColumn == ASSUME NEW k \in Nat, NEW count \in Nat PROVE Cells(k, count)
<1>1. \A u, v \in Nat : u * v \in Nat
  OBVIOUS
<1>2. \A i, h \in Nat : i < h => k * i + k <= k * h
  <2> SUFFICES ASSUME NEW i \in Nat, NEW h \in Nat, i < h PROVE k * i + k <= k * h
    OBVIOUS
  <2> DEFINE e == h - i - 1
  <2>1. e \in Nat /\ h = i + 1 + e
    OBVIOUS
  <2> HIDE DEF e
  <2>2. k * h = k * i + k + k * e
    BY <2>1
  <2>3. k * e \in Nat /\ k * i \in Nat
    BY <1>1, <2>1
  <2> QED
    BY <2>2, <2>3
<1>3. ASSUME NEW i \in 0 .. count - 1, NEW x \in 0 .. k - 1
      PROVE  k * i + x \in Nat /\ k * i + x < count * k
  <2>1. i \in Nat /\ i < count /\ x \in Nat /\ x < k
    OBVIOUS
  <2>2. k * i \in Nat /\ k * count \in Nat /\ k * count = count * k
    BY <1>1, <2>1
  <2>3. k * i + k <= k * count
    BY <1>2, <2>1
  <2> QED
    BY <2>1, <2>2, <2>3
<1>4. ASSUME NEW i \in 0 .. count - 1, NEW h \in 0 .. count - 1,
             NEW x \in 0 .. k - 1, NEW y \in 0 .. k - 1, k * i + x = k * h + y
      PROVE  i = h /\ x = y
  <2>1. i \in Nat /\ h \in Nat /\ x \in Nat /\ y \in Nat /\ x < k /\ y < k
    OBVIOUS
  <2>2. k * i \in Nat /\ k * h \in Nat
    BY <1>1, <2>1
  <2>3. ~(i < h)
    <3>1. i < h => k * i + k <= k * h
      BY <1>2, <2>1
    <3> QED
      BY <1>4, <2>1, <2>2, <3>1
  <2>4. ~(h < i)
    <3>1. h < i => k * h + k <= k * i
      BY <1>2, <2>1
    <3> QED
      BY <1>4, <2>1, <2>2, <3>1
  <2>5. i = h
    BY <2>1, <2>3, <2>4
  <2> QED
    BY <1>4, <2>1, <2>2, <2>5
<1>5. ASSUME NEW q \in Nat, q < count * k
      PROVE  \E i \in 0 .. count - 1, x \in 0 .. k - 1 : q = k * i + x
  <2>1. k # 0
    <3>1. k = 0 => count * k = 0
      OBVIOUS
    <3> QED
      BY <1>5, <3>1
  <2>2. PICK i \in Int, x \in 0 .. k - 1 : q = k * i + x
    <3>1. k \in Nat \ {0} /\ q \in Int
      BY <2>1
    <3>2. q = k * (q \div k) + (q % k) /\ q \div k \in Int /\ q % k \in 0 .. k - 1
      BY <3>1, Divide
    <3> QED
      BY <3>2
  <2>3. i >= 0
    <3> SUFFICES ASSUME i < 0 PROVE FALSE
      BY <2>2
    <3>1. PICK e \in Nat : i = 0 - 1 - e
      <4>1. 0 - 1 - i \in Nat /\ i = 0 - 1 - (0 - 1 - i)
        BY <2>2
      <4> QED
        BY <4>1
    <3>2. k * i = 0 - k - k * e /\ k * e \in Nat
      BY <1>1, <3>1
    <3> QED
      BY <2>2, <3>2
  <2>4. i < count
    <3> SUFFICES ASSUME ~(i < count) PROVE FALSE
      OBVIOUS
    <3>1. PICK e \in Nat : i = count + e
      <4>1. i - count \in Nat /\ i = count + (i - count)
        BY <2>2
      <4> QED
        BY <4>1
    <3>2. k * i = count * k + k * e /\ k * e \in Nat /\ count * k \in Nat
      BY <1>1, <3>1
    <3> QED
      BY <1>5, <2>2, <3>2
  <2> QED
    BY <2>2, <2>3, <2>4
<1>6. Cell(k, count, 0) = count * k /\ count * k \in Nat
  BY <1>1 DEF Cell
<1> QED
  BY <1>3, <1>4, <1>5, <1>6 DEF Cell, Cells

\* The bank of a field of a specification, and where the field of instance i of the
\* j-th device is in it.
BankIn(s, n) == Bank(Class(s)[n])
PlaceIn(c, j, i, n) ==
  LET b == BankIn(c[j].spec, n) IN
  Sizes(c)[j - 1][b] + Cell(FieldsIn(c[j], b), i, Rank(InBank(c[j].spec, DOMAIN Class(c[j].spec), b), n))

\* The fields of all instances of c.
Fields(c) == {f \in (1 .. Len(c)) \X Nat \X Nat :
                f[2] < c[f[1]].count /\ f[3] \in DOMAIN Class(c[f[1]].spec)}

LEMMA FieldsOfDevices ==
  ASSUME Legal(Configs), NEW c \in Configs, NEW f \in Fields(c)
  PROVE  /\ Len(c) \in Nat /\ f[1] \in 1 .. Len(c) /\ f[1] - 1 \in 0 .. Len(c) /\ f[1] \in 0 .. Len(c)
         /\ LegalDevice(c[f[1]]) /\ f[2] \in 0 .. c[f[1]].count - 1
         /\ f[3] \in DOMAIN Class(c[f[1]].spec) /\ f = <<f[1], f[2], f[3]>>
         /\ BankIn(c[f[1]].spec, f[3]) \in Banks
<1>1. /\ f \in (1 .. Len(c)) \X Nat \X Nat
      /\ f[2] < c[f[1]].count /\ f[3] \in DOMAIN Class(c[f[1]].spec)
  BY DEF Fields
<1>2. f[1] \in 1 .. Len(c) /\ f[2] \in Nat /\ f = <<f[1], f[2], f[3]>>
  BY <1>1
<1>3. Len(c) \in Nat /\ LegalDevice(c[f[1]])
  BY <1>2, DevicesAreLegal
<1>4. f[1] - 1 \in 0 .. Len(c) /\ f[1] \in 0 .. Len(c)
  BY <1>2, <1>3
<1>5. c[f[1]].count \in Nat /\ Class(c[f[1]].spec)[f[3]] \in Range(FieldTypes)
  BY <1>1, <1>3 DEF LegalDevice
<1>6. f[2] \in 0 .. c[f[1]].count - 1
  BY <1>1, <1>2, <1>5
<1>7. BankIn(c[f[1]].spec, f[3]) \in Banks
  BY <1>5, BankOfType DEF BankIn
<1> QED
  BY <1>1, <1>2, <1>3, <1>4, <1>6, <1>7

\* The fields of one bank of a device, and their ranks.
Ranked(S, k) ==
  /\ k \in Nat
  /\ \A n \in S : Rank(S, n) \in 0 .. k - 1
  /\ \A n, m \in S : Rank(S, n) = Rank(S, m) => n = m
  /\ \A x \in 0 .. k - 1 : \E n \in S : Rank(S, n) = x

LEMMA RanksInBank ==
  ASSUME NEW d, LegalDevice(d), NEW b
  PROVE  Ranked(InBank(d.spec, DOMAIN Class(d.spec), b), FieldsIn(d, b))
<1> DEFINE S == InBank(d.spec, DOMAIN Class(d.spec), b)
<1>1. S \subseteq Nat
  BY DEF InBank, LegalDevice
<1>2. IsFiniteSet(S)
  BY FieldsAreFinite, CountInBank
<1>3. FieldsIn(d, b) = Cardinality(S)
  BY DEF FieldsIn
<1> HIDE DEF S
<1>4. Ranked(S, Cardinality(S))
  BY <1>1, <1>2, Ranks DEF Ranked
<1> QED
  BY <1>3, <1>4 DEF S

\* A device's fields are between where it begins and where the next one does.
LEMMA PlacesInside ==
  ASSUME Legal(Configs), NEW c \in Configs, NEW f \in Fields(c), NEW b, b = BankIn(c[f[1]].spec, f[3])
  PROVE  /\ PlaceIn(c, f[1], f[2], f[3]) \in Nat
         /\ Sizes(c)[f[1] - 1][b] <= PlaceIn(c, f[1], f[2], f[3])
         /\ PlaceIn(c, f[1], f[2], f[3]) < Sizes(c)[f[1]][b]
<1> DEFINE d == c[f[1]]
           S == InBank(d.spec, DOMAIN Class(d.spec), b)
           k == FieldsIn(d, b)
           x == Rank(S, f[3])
           base == Sizes(c)[f[1] - 1][b]
<1>1. /\ f[1] \in 1 .. Len(c) /\ f[1] - 1 \in 0 .. Len(c) /\ b \in Banks
      /\ LegalDevice(d) /\ f[2] \in 0 .. d.count - 1 /\ f[3] \in DOMAIN Class(d.spec)
  BY FieldsOfDevices
<1>2. f[3] \in S
  BY <1>1 DEF InBank, BankIn
<1>3. k \in Nat /\ x \in 0 .. k - 1
  <2>1. Ranked(S, k)
    BY <1>1, RanksInBank
  <2> QED
    BY <1>2, <2>1 DEF Ranked
<1>4. d.count \in Nat /\ base \in Nat
  BY <1>1, SizesGrow DEF LegalDevice
<1>5. PlaceIn(c, f[1], f[2], f[3]) = base + Cell(k, f[2], x)
  BY DEF PlaceIn
<1>6. Sizes(c)[f[1]][b] = base + d.count * k
  <2>1. Sizes(c)[f[1]] = AddDevice(Sizes(c)[f[1] - 1], d)
    BY <1>1, SizesUnfold
  <2> QED
    BY <1>1, <2>1 DEF AddDevice
<1> HIDE DEF d, S, k, x, base
<1> DEFINE cell == Cell(k, f[2], x)
           all == Cell(k, d.count, 0)
<1>7. cell \in Nat /\ cell < all /\ all \in Nat /\ all = d.count * k
  <2>1. Cells(k, d.count)
    BY <1>3, <1>4, RowAndColumn
  <2> QED
    BY <1>1, <1>3, <2>1 DEF Cells
<1> HIDE DEF cell, all
<1>8. base + cell \in Nat /\ base <= base + cell /\ base + cell < base + all
  BY <1>4, <1>7
<1> QED
  BY <1>5, <1>6, <1>7, <1>8 DEF base, cell

\* No two fields have one place.
LEMMA PlacesDiffer ==
  ASSUME Legal(Configs), NEW c \in Configs, NEW f \in Fields(c), NEW g \in Fields(c),
         BankIn(c[f[1]].spec, f[3]) = BankIn(c[g[1]].spec, g[3]),
         PlaceIn(c, f[1], f[2], f[3]) = PlaceIn(c, g[1], g[2], g[3])
  PROVE  f = g
<1> DEFINE b == BankIn(c[f[1]].spec, f[3])
<1>1. /\ f[1] \in 1 .. Len(c) /\ f[1] - 1 \in 0 .. Len(c) /\ f[1] \in 0 .. Len(c) /\ b \in Banks
      /\ LegalDevice(c[f[1]]) /\ f[2] \in 0 .. c[f[1]].count - 1
      /\ f[3] \in DOMAIN Class(c[f[1]].spec) /\ f = <<f[1], f[2], f[3]>>
  BY FieldsOfDevices
<1>2. /\ g[1] \in 1 .. Len(c) /\ g[1] - 1 \in 0 .. Len(c) /\ g[1] \in 0 .. Len(c)
      /\ g[2] \in 0 .. c[g[1]].count - 1
      /\ g[3] \in DOMAIN Class(c[g[1]].spec) /\ g = <<g[1], g[2], g[3]>>
  BY FieldsOfDevices
<1>3. ASSUME NEW u \in Fields(c), NEW v \in Fields(c), BankIn(c[u[1]].spec, u[3]) = b,
             BankIn(c[v[1]].spec, v[3]) = b, u[1] < v[1]
      PROVE  PlaceIn(c, u[1], u[2], u[3]) < PlaceIn(c, v[1], v[2], v[3])
  <2> DEFINE pu == PlaceIn(c, u[1], u[2], u[3])
             pv == PlaceIn(c, v[1], v[2], v[3])
             end == Sizes(c)[u[1]][b]
             begin == Sizes(c)[v[1] - 1][b]
  <2>1. u[1] \in 0 .. Len(c) /\ v[1] - 1 \in 0 .. Len(c) /\ v[1] \in 1 .. Len(c) /\ Len(c) \in Nat
    BY FieldsOfDevices
  <2>2. u[1] <= v[1] - 1
    BY <1>3, <2>1
  <2>3. end \in Nat /\ begin \in Nat /\ end <= begin
    BY <1>1, <2>1, <2>2, SizesGrow
  <2>4. pu \in Nat /\ pu < end
    BY <1>3, PlacesInside
  <2>5. pv \in Nat /\ begin <= pv
    BY <1>3, PlacesInside
  <2> HIDE DEF pu, pv, end, begin
  <2>6. pu < pv
    BY <2>3, <2>4, <2>5
  <2> QED
    BY <2>6 DEF pu, pv
<1>4. f[1] = g[1]
  <2> DEFINE pf == PlaceIn(c, f[1], f[2], f[3])
             pg == PlaceIn(c, g[1], g[2], g[3])
  <2>1. pf \in Nat /\ pg = pf
    BY PlacesInside
  <2>2. f[1] < g[1] => pf < pg
    BY <1>3
  <2>3. g[1] < f[1] => pg < pf
    BY <1>3
  <2>4. f[1] \in Int /\ g[1] \in Int
    BY <1>1, <1>2
  <2> HIDE DEF pf, pg
  <2>5. ~(f[1] < g[1]) /\ ~(g[1] < f[1])
    BY <2>1, <2>2, <2>3
  <2> QED
    BY <2>4, <2>5
<1> DEFINE d == c[f[1]]
           S == InBank(d.spec, DOMAIN Class(d.spec), b)
           k == FieldsIn(d, b)
           base == Sizes(c)[f[1] - 1][b]
           x == Rank(S, f[3])
           y == Rank(S, g[3])
<1>5. f[3] \in S /\ g[3] \in S
  BY <1>1, <1>2, <1>4 DEF InBank, BankIn
<1>6. Ranked(S, k) /\ k \in Nat /\ x \in 0 .. k - 1 /\ y \in 0 .. k - 1
  <2>1. Ranked(S, k)
    BY <1>1, RanksInBank
  <2> QED
    BY <1>5, <2>1 DEF Ranked
<1>7. d.count \in Nat /\ base \in Nat /\ f[2] \in 0 .. d.count - 1 /\ g[2] \in 0 .. d.count - 1
  BY <1>1, <1>2, <1>4, SizesGrow DEF LegalDevice
<1>8. base + Cell(k, f[2], x) = base + Cell(k, g[2], y)
  BY <1>4 DEF PlaceIn
<1>9. x = y => f[3] = g[3]
  <2>1. \A n, m \in S : Rank(S, n) = Rank(S, m) => n = m
    BY <1>6 DEF Ranked
  <2> HIDE DEF S
  <2> QED
    BY <1>5, <2>1
<1> HIDE DEF d, S, k, x, y, base, b
<1>10. Cell(k, f[2], x) \in Nat /\ Cell(k, g[2], y) \in Nat
  <2>1. Cells(k, d.count)
    BY <1>6, <1>7, RowAndColumn
  <2> QED
    BY <1>6, <1>7, <2>1 DEF Cells
<1>11. Cell(k, f[2], x) = Cell(k, g[2], y)
  BY <1>7, <1>8, <1>10
<1>12. f[2] = g[2] /\ x = y
  <2>1. Cells(k, d.count)
    BY <1>6, <1>7, RowAndColumn
  <2> QED
    BY <1>6, <1>7, <1>11, <2>1 DEF Cells
<1> QED
  BY <1>1, <1>2, <1>4, <1>9, <1>12

\* Each place is that of a field.
LEMMA PlacesCover ==
  ASSUME Legal(Configs), NEW c \in Configs, NEW b \in Banks, NEW p \in 0 .. Sizes(c)[Len(c)][b] - 1
  PROVE  \E f \in Fields(c) : BankIn(c[f[1]].spec, f[3]) = b /\ PlaceIn(c, f[1], f[2], f[3]) = p
<1> DEFINE ends == {m \in 0 .. Len(c) : p < Sizes(c)[m][b]}
<1>1. Len(c) \in Nat /\ Sizes(c)[Len(c)][b] \in Nat
  BY DevicesAreLegal, SizesGrow
<1>2. Len(c) \in ends /\ ends \subseteq Nat /\ p \in Nat
  BY <1>1
<1> HIDE DEF ends
<1>3. PICK j \in ends : \A m \in ends : j <= m
  BY <1>2, Least
<1>4. j \in 0 .. Len(c) /\ p < Sizes(c)[j][b]
  BY DEF ends
<1>5. j # 0
  <2>1. Sizes(c)[0][b] = 0
    BY SizesUnfold DEF NoBases
  <2> QED
    BY <1>2, <1>4, <2>1
<1>6. j \in 1 .. Len(c) /\ j - 1 \in 0 .. Len(c) /\ ~(j <= j - 1)
  BY <1>1, <1>4, <1>5
<1> DEFINE d == c[j]
           S == InBank(d.spec, DOMAIN Class(d.spec), b)
           k == FieldsIn(d, b)
           base == Sizes(c)[j - 1][b]
           q == p - base
<1>7. LegalDevice(d) /\ d.count \in Nat /\ base \in Nat
  BY <1>6, DevicesAreLegal, SizesGrow DEF LegalDevice
<1>8. ~(p < base)
  <2>1. j - 1 \notin ends
    BY <1>3, <1>6
  <2> QED
    BY <1>6, <2>1 DEF ends
<1>9. Sizes(c)[j][b] = base + d.count * k
  <2>1. Sizes(c)[j] = AddDevice(Sizes(c)[j - 1], d)
    BY <1>6, SizesUnfold
  <2> QED
    BY <2>1 DEF AddDevice
<1>10. k \in Nat /\ \A x \in 0 .. k - 1 : \E n \in S : Rank(S, n) = x
  <2>1. Ranked(S, k)
    BY <1>7, RanksInBank
  <2> QED
    BY <2>1 DEF Ranked
<1>11. \A n \in S : n \in DOMAIN Class(d.spec) /\ BankIn(d.spec, n) = b
  BY DEF InBank, BankIn
<1>12. \A n \in DOMAIN Class(d.spec) : n \in Nat
  BY <1>7 DEF LegalDevice
<1>13. \A i, n : BankIn(d.spec, n) = b => PlaceIn(c, j, i, n) = base + Cell(k, i, Rank(S, n))
  BY DEF PlaceIn
<1>14. \A i \in Nat : \A n \in DOMAIN Class(d.spec) : i < d.count => <<j, i, n>> \in Fields(c)
  BY <1>6, <1>12 DEF Fields
<1> HIDE DEF d, S, k, base
<1>15. Cell(k, d.count, 0) \in Nat /\ Cell(k, d.count, 0) = d.count * k
  <2>1. Cells(k, d.count)
    BY <1>7, <1>10, RowAndColumn
  <2> QED
    BY <2>1 DEF Cells
<1>16. q \in Nat /\ q < Cell(k, d.count, 0) /\ p = base + q
  BY <1>2, <1>4, <1>7, <1>8, <1>9, <1>15
<1>17. PICK i \in 0 .. d.count - 1, x \in 0 .. k - 1 : q = Cell(k, i, x)
  <2>1. Cells(k, d.count)
    BY <1>7, <1>10, RowAndColumn
  <2> HIDE DEF q
  <2> QED
    BY <1>16, <2>1 DEF Cells
<1>18. PICK n \in S : Rank(S, n) = x
  BY <1>10
<1>19. i \in Nat /\ i < d.count
  BY <1>7
<1> DEFINE f == <<j, i, n>>
<1>20. f \in Fields(c) /\ f[1] = j /\ f[2] = i /\ f[3] = n
  BY <1>11, <1>14, <1>19
<1>21. BankIn(d.spec, n) = b /\ PlaceIn(c, j, i, n) = p
  BY <1>11, <1>13, <1>16, <1>17, <1>18
<1> QED
  BY <1>20, <1>21 DEF d

\* Whom a field of c is found by.
RefAt(c, f) == <<Name(c[f[1]].spec), f[2], f[3]>>

\* What the map says of a device when it is complete.
LEMMA DeviceIsThere ==
  ASSUME Legal(Configs), LayoutInv, phase = "ready", NEW j \in 1 .. Len(config)
  PROVE  LET s == config[j].spec  d == deviceMap[Name(s)] IN
         /\ Name(s) \in DOMAIN deviceMap /\ LegalDevice(config[j])
         /\ d.count = config[j].count /\ d.bases = Sizes(config)[j - 1]
         /\ DOMAIN d.fields = DOMAIN Class(s)
         /\ \A n \in DOMAIN Class(s) : d.fields[n] = Class(s)[n]
<1> DEFINE s == config[j].spec
           d == deviceMap[Name(s)]
<1>1. /\ config \in Configs /\ dev = Len(config) /\ it = {}
      /\ MapAt(deviceMap, config, dev, it)
  BY LayoutIsIn DEF LayoutIn
<1>2. LegalDevice(config[j])
  BY <1>1, DevicesAreLegal
<1>3. Seen(s, {}) = DOMAIN Class(s)
  BY <1>2, SeenAtEnds
<1>4. /\ DOMAIN deviceMap = {Name(config[k].spec) : k \in 1 .. Len(config)}
      /\ d = [fields |-> [n \in (IF j = Len(config) THEN Seen(s, {}) ELSE DOMAIN Class(s)) |-> Class(s)[n]],
              count |-> config[j].count, bases |-> Sizes(config)[j - 1]]
  BY <1>1 DEF MapAt
<1>5. d = [fields |-> [n \in DOMAIN Class(s) |-> Class(s)[n]],
           count |-> config[j].count, bases |-> Sizes(config)[j - 1]]
  BY <1>3, <1>4
<1>6. Name(s) \in DOMAIN deviceMap
  BY <1>4
<1> HIDE DEF s, d
<1>7. /\ d.count = config[j].count /\ d.bases = Sizes(config)[j - 1]
      /\ d.fields = [n \in DOMAIN Class(s) |-> Class(s)[n]]
  BY <1>5
<1>8. DOMAIN d.fields = DOMAIN Class(s) /\ \A n \in DOMAIN Class(s) : d.fields[n] = Class(s)[n]
  BY <1>7
<1> QED
  BY <1>2, <1>6, <1>7, <1>8 DEF s, d

\* A field of the configuration is found in the map, at its place.
FoundAt(c, f, r) ==
  /\ r \in Refs /\ TypeOf(r) = Class(c[f[1]].spec)[f[3]]
  /\ Bank(TypeOf(r)) = BankIn(c[f[1]].spec, f[3])
  /\ Base(r[1], r[2], r[3]) = PlaceIn(c, f[1], f[2], f[3])

LEMMA FieldIsFound ==
  ASSUME Legal(Configs), LayoutInv, phase = "ready", NEW f \in Fields(config)
  PROVE  FoundAt(config, f, RefAt(config, f))
<1> DEFINE s == config[f[1]].spec
           n == f[3]
           d == Name(s)
           b == BankIn(s, n)
           r == RefAt(config, f)
           all == InBank(s, DOMAIN Class(s), b)
<1>1. config \in Configs
  BY LayoutIsIn DEF LayoutIn
<1>2. /\ f[1] \in 1 .. Len(config) /\ f[1] - 1 \in 0 .. Len(config)
      /\ f[2] \in 0 .. config[f[1]].count - 1 /\ n \in DOMAIN Class(s) /\ b \in Banks
  BY <1>1, FieldsOfDevices
<1>3. /\ d \in DOMAIN deviceMap
      /\ deviceMap[d].count = config[f[1]].count /\ deviceMap[d].bases = Sizes(config)[f[1] - 1]
      /\ DOMAIN deviceMap[d].fields = DOMAIN Class(s)
      /\ \A m \in DOMAIN Class(s) : deviceMap[d].fields[m] = Class(s)[m]
      /\ LegalDevice(config[f[1]])
  BY <1>2, DeviceIsThere
<1>4. r = <<d, f[2], n>> /\ r[1] = d /\ r[2] = f[2] /\ r[3] = n
  BY DEF RefAt
<1>5. r \in Refs
  <2> HIDE DEF d, n, r
  <2>1. r \in {<<d, i, m>> : i \in 0 .. deviceMap[d].count - 1, m \in DOMAIN deviceMap[d].fields}
    BY <1>2, <1>3, <1>4
  <2> QED
    BY <1>3, <2>1 DEF Refs
<1>6. TypeOf(r) = Class(s)[n] /\ Bank(TypeOf(r)) = b /\ deviceMap[d].fields[n] = Class(s)[n]
  BY <1>2, <1>3, <1>4 DEF TypeOf, BankIn
<1>7. SameBank(d, n) = all
  <2> HIDE DEF d, s, n
  <2> QED
    BY <1>2, <1>3 DEF SameBank, InBank, BankIn
<1>8. Cardinality(all) = FieldsIn(config[f[1]], b)
  BY DEF FieldsIn
<1>9. Base(d, f[2], n) = Sizes(config)[f[1] - 1][b] + FieldsIn(config[f[1]], b) * f[2] + Rank(all, n)
  <2>1. Base(d, f[2], n) = deviceMap[d].bases[b] + Cardinality(SameBank(d, n)) * f[2]
                             + Cardinality({m \in SameBank(d, n) : m < n})
    BY <1>6 DEF Base, BankIn
  <2> HIDE DEF d, s, n, b, all
  <2> QED
    BY <1>3, <1>7, <1>8, <2>1 DEF Rank
<1>10. PlaceIn(config, f[1], f[2], n) = Sizes(config)[f[1] - 1][b] + Cell(FieldsIn(config[f[1]], b), f[2], Rank(all, n))
  BY DEF PlaceIn
<1>11. Sizes(config)[f[1] - 1][b] \in Nat
  BY <1>1, <1>2, SizesGrow
<1>12. Rank(all, n) \in Nat /\ FieldsIn(config[f[1]], b) \in Nat
  <2>1. n \in all
    BY <1>2 DEF InBank, BankIn
  <2>2. Ranked(all, FieldsIn(config[f[1]], b))
    BY <1>3, RanksInBank
  <2>3. Rank(all, n) \in 0 .. FieldsIn(config[f[1]], b) - 1 /\ FieldsIn(config[f[1]], b) \in Nat
    BY <2>1, <2>2 DEF Ranked
  <2> QED
    BY <2>3
<1>13. f[2] \in Nat /\ FieldsIn(config[f[1]], b) * f[2] \in Nat
  <2>1. f[2] \in Nat
    BY <1>2
  <2> QED
    BY <1>12, <2>1
<1> HIDE DEF s, n, d, b, r, all
<1>14. Base(d, f[2], n) = PlaceIn(config, f[1], f[2], n)
  <2> DEFINE x == Sizes(config)[f[1] - 1][b]
             y == FieldsIn(config[f[1]], b) * f[2]
             z == Rank(all, n)
  <2>1. x \in Nat /\ y \in Nat /\ z \in Nat
    BY <1>11, <1>12, <1>13
  <2>2. Base(d, f[2], n) = x + y + z /\ PlaceIn(config, f[1], f[2], n) = x + (y + z)
    BY <1>9, <1>10 DEF Cell
  <2> HIDE DEF x, y, z
  <2> QED
    BY <2>1, <2>2
<1>15. Base(r[1], r[2], r[3]) = PlaceIn(config, f[1], f[2], f[3])
  BY <1>4, <1>14 DEF n
<1> QED
  BY <1>5, <1>6, <1>15 DEF FoundAt, r, s, b, n

\* And the map has no others.
LEMMA RefIsField ==
  ASSUME Legal(Configs), LayoutInv, phase = "ready", NEW r \in Refs
  PROVE  \E f \in Fields(config) : r = RefAt(config, f)
<1>1. PICK d \in DOMAIN deviceMap : \E i \in 0 .. deviceMap[d].count - 1, n \in DOMAIN deviceMap[d].fields :
        r = <<d, i, n>>
  BY DEF Refs
<1>2. PICK i \in 0 .. deviceMap[d].count - 1, n \in DOMAIN deviceMap[d].fields : r = <<d, i, n>>
  BY <1>1
<1>3. /\ config \in Configs /\ dev = Len(config) /\ MapAt(deviceMap, config, dev, it)
  BY LayoutIsIn DEF LayoutIn
<1>4. PICK j \in 1 .. Len(config) : d = Name(config[j].spec)
  BY <1>3 DEF MapAt
<1>5. /\ LegalDevice(config[j]) /\ deviceMap[d].count = config[j].count
      /\ DOMAIN deviceMap[d].fields = DOMAIN Class(config[j].spec)
  BY <1>4, DeviceIsThere
<1>6. config[j].count \in Nat /\ \A m \in DOMAIN Class(config[j].spec) : m \in Nat
  BY <1>5 DEF LegalDevice
<1>7. i \in 0 .. config[j].count - 1 /\ n \in DOMAIN Class(config[j].spec)
  BY <1>5
<1>8. i \in Nat /\ i < config[j].count /\ n \in Nat
  BY <1>6, <1>7
<1> DEFINE f == <<j, i, n>>
<1>9. f \in Fields(config)
  BY <1>7, <1>8 DEF Fields
<1>10. r = RefAt(config, f)
  BY <1>2, <1>4 DEF RefAt
<1> QED
  BY <1>9, <1>10

\* The constructor and the look-up agree: the fields tile the banks.
LEMMA LayoutTiles ==
  ASSUME Legal(Configs), LayoutInv, DOMAIN banks = Banks
  PROVE  BanksAreTiled
<1> SUFFICES ASSUME phase = "ready" PROVE BanksAreTiled
  BY DEF BanksAreTiled
<1>1. config \in Configs /\ \A b \in Banks : DOMAIN banks[b] = 0 .. Sizes(config)[Len(config)][b] - 1
  BY LayoutIsIn DEF LayoutIn
<1>2. \A f \in Fields(config) : FoundAt(config, f, RefAt(config, f))
  BY FieldIsFound
<1>3. \A r \in Refs : \E f \in Fields(config) : r = RefAt(config, f)
  BY RefIsField
<1>4. ASSUME NEW r \in Refs, NEW q \in Refs, Place(r) = Place(q) PROVE r = q
  <2>1. PICK f \in Fields(config) : r = RefAt(config, f)
    BY <1>3
  <2>2. PICK g \in Fields(config) : q = RefAt(config, g)
    BY <1>3
  <2>3. FoundAt(config, f, r) /\ FoundAt(config, g, q)
    BY <1>2, <2>1, <2>2
  <2>4. Bank(TypeOf(r)) = Bank(TypeOf(q)) /\ Base(r[1], r[2], r[3]) = Base(q[1], q[2], q[3])
    BY <1>4 DEF Place
  <2>5. /\ BankIn(config[f[1]].spec, f[3]) = BankIn(config[g[1]].spec, g[3])
        /\ PlaceIn(config, f[1], f[2], f[3]) = PlaceIn(config, g[1], g[2], g[3])
    BY <2>3, <2>4 DEF FoundAt
  <2>6. f = g
    BY <1>1, <2>5, PlacesDiffer
  <2> QED
    BY <2>1, <2>2, <2>6
<1>5. ASSUME NEW r \in Refs PROVE \E b \in Banks : \E k \in DOMAIN banks[b] : Place(r) = <<b, k>>
  <2>1. PICK f \in Fields(config) : r = RefAt(config, f)
    BY <1>3
  <2>2. FoundAt(config, f, r)
    BY <1>2, <2>1
  <2> DEFINE b == BankIn(config[f[1]].spec, f[3])
             k == PlaceIn(config, f[1], f[2], f[3])
             N == Len(config)
  <2>3. Place(r) = <<b, k>>
    BY <2>2 DEF Place, FoundAt
  <2>4. b \in Banks /\ f[1] \in 0 .. N /\ N \in Nat /\ f[1] \in 1 .. N
    BY <1>1, FieldsOfDevices
  <2>5. k \in Nat /\ k < Sizes(config)[f[1]][b]
    BY <1>1, PlacesInside
  <2>6. Sizes(config)[f[1]][b] \in Nat /\ Sizes(config)[N][b] \in Nat /\ Sizes(config)[f[1]][b] <= Sizes(config)[N][b]
    <3>1. N \in 0 .. N /\ f[1] <= N
      BY <2>4
    <3> QED
      BY <1>1, <2>4, <3>1, SizesGrow
  <2> HIDE DEF k, N, b
  <2>7. k \in 0 .. Sizes(config)[N][b] - 1
    BY <2>5, <2>6
  <2> QED
    BY <1>1, <2>3, <2>4, <2>7 DEF N
<1>6. ASSUME NEW b \in Banks, NEW k \in DOMAIN banks[b] PROVE \E r \in Refs : Place(r) = <<b, k>>
  <2>1. k \in 0 .. Sizes(config)[Len(config)][b] - 1
    BY <1>1
  <2>2. PICK f \in Fields(config) : BankIn(config[f[1]].spec, f[3]) = b /\ PlaceIn(config, f[1], f[2], f[3]) = k
    BY <1>1, <2>1, PlacesCover
  <2>3. FoundAt(config, f, RefAt(config, f))
    BY <1>2
  <2> QED
    BY <2>2, <2>3 DEF FoundAt, Place
<1>7. {Place(r) : r \in Refs} = UNION {{<<b, k>> : k \in DOMAIN banks[b]} : b \in Banks}
  <2> DEFINE A == {Place(r) : r \in Refs}
             U == UNION {{<<b, k>> : k \in DOMAIN banks[b]} : b \in Banks}
  <2>1. ASSUME NEW p \in A PROVE p \in U
    BY <1>5
  <2>2. ASSUME NEW p \in U PROVE p \in A
    <3>1. PICK b \in Banks : \E k \in DOMAIN banks[b] : p = <<b, k>>
      BY <2>2
    <3>2. PICK k \in DOMAIN banks[b] : p = <<b, k>>
      BY <3>1
    <3>3. PICK r \in Refs : Place(r) = <<b, k>>
      BY <1>6
    <3> QED
      BY <3>2, <3>3
  <2> QED
    BY <2>1, <2>2
<1> QED
  BY <1>4, <1>7 DEF BanksAreTiled

-----------------------------------------------------------------------------
(* What the host and the sketch do to the banks.                           *)

\* The outcomes of an access to field n of instance i of the class of s.
Uses(a, s, i, n) ==
  LET t == Class(s)[n]  d == Name(s) IN
  /\ i \in Objects(a, s) /\ UNCHANGED <<layout, sketchUp>>
  /\ \/ ~Inside(d, i, n, t) /\ UNCHANGED <<banks, last, waits>>
     \/ /\ Inside(d, i, n, t) /\ UNCHANGED wild
        /\ \/ UNCHANGED <<banks, last, waits>>
           \/ /\ \E v \in (IF t = "mutex" THEN Actors \cup {NoOne} ELSE Values) :
                    Put(<<d, i, n>>, Bank(t), Base(d, i, n), Stored(t, v), v)
              /\ UNCHANGED waits
           \/ /\ t = "mutex" /\ waits' = [waits EXCEPT ![a] = <<d, i, n, Base(d, i, n)>>]
              /\ UNCHANGED <<banks, last>>

LEMMA StoreUses ==
  ASSUME NEW a, NEW s, NEW i, NEW n, Store(a, s, i, n)
  PROVE  Uses(a, s, i, n)
<1> DEFINE t == Class(s)[n]
           d == Name(s)
<1>1. PICK v \in Values : t # "mutex" /\
        LET P(u, k) == Put(<<d, i, n>>, Bank(u), k, AsUnsigned(u, v), v) /\ UNCHANGED waits
        IN Access(a, s, i, n, P)
  BY DEF Store
<1>2. /\ i \in Objects(a, s) /\ UNCHANGED <<layout, sketchUp>>
      /\ IF Inside(d, i, n, t)
         THEN (Put(<<d, i, n>>, Bank(t), Base(d, i, n), AsUnsigned(t, v), v) /\ UNCHANGED waits) /\ UNCHANGED wild
         ELSE wild' = TRUE /\ UNCHANGED <<banks, last, waits>>
  BY <1>1 DEF Access
<1>3. Stored(t, v) = AsUnsigned(t, v)
  BY <1>1 DEF Stored
<1> QED
  BY <1>1, <1>2, <1>3 DEF Uses

LEMMA LockUses ==
  ASSUME NEW a \in Actors, NEW s, NEW i, NEW n, Lock(a, s, i, n)
  PROVE  Uses(a, s, i, n)
<1> DEFINE t == Class(s)[n]
           d == Name(s)
<1>1. t = "mutex" /\ LET P(u, k) == IF banks[Bank(u)][k] = NoOne
                     THEN Put(<<d, i, n>>, Bank(u), k, a, a) /\ UNCHANGED waits
                     ELSE waits' = [waits EXCEPT ![a] = <<d, i, n, k>>] /\ UNCHANGED <<banks, last>>
      IN Access(a, s, i, n, P)
  BY DEF Lock
<1>2. /\ i \in Objects(a, s) /\ UNCHANGED <<layout, sketchUp>>
      /\ IF Inside(d, i, n, t)
         THEN (IF banks[Bank(t)][Base(d, i, n)] = NoOne
               THEN Put(<<d, i, n>>, Bank(t), Base(d, i, n), a, a) /\ UNCHANGED waits
               ELSE waits' = [waits EXCEPT ![a] = <<d, i, n, Base(d, i, n)>>] /\ UNCHANGED <<banks, last>>)
              /\ UNCHANGED wild
         ELSE wild' = TRUE /\ UNCHANGED <<banks, last, waits>>
  BY <1>1 DEF Access
<1>3. Stored(t, a) = a /\ a \in Actors \cup {NoOne}
  BY <1>1 DEF Stored
<1> QED
  BY <1>1, <1>2, <1>3 DEF Uses

LEMMA TryLockUses ==
  ASSUME NEW a \in Actors, NEW s, NEW i, NEW n, TryLock(a, s, i, n)
  PROVE  Uses(a, s, i, n)
<1> DEFINE t == Class(s)[n]
           d == Name(s)
<1>1. t = "mutex" /\ LET P(u, k) == IF banks[Bank(u)][k] = NoOne
                     THEN Put(<<d, i, n>>, Bank(u), k, a, a) /\ UNCHANGED waits
                     ELSE UNCHANGED <<banks, last, waits>>
      IN Access(a, s, i, n, P)
  BY DEF TryLock
<1>2. /\ i \in Objects(a, s) /\ UNCHANGED <<layout, sketchUp>>
      /\ IF Inside(d, i, n, t)
         THEN (IF banks[Bank(t)][Base(d, i, n)] = NoOne
               THEN Put(<<d, i, n>>, Bank(t), Base(d, i, n), a, a) /\ UNCHANGED waits
               ELSE UNCHANGED <<banks, last, waits>>)
              /\ UNCHANGED wild
         ELSE wild' = TRUE /\ UNCHANGED <<banks, last, waits>>
  BY <1>1 DEF Access
<1>3. Stored(t, a) = a /\ a \in Actors \cup {NoOne}
  BY <1>1 DEF Stored
<1> QED
  BY <1>1, <1>2, <1>3 DEF Uses

LEMMA UnlockUses ==
  ASSUME NEW a \in Actors, NEW s, NEW i, NEW n, Unlock(a, s, i, n)
  PROVE  Uses(a, s, i, n)
<1> DEFINE t == Class(s)[n]
           d == Name(s)
<1>1. t = "mutex" /\ LET P(u, k) == Put(<<d, i, n>>, Bank(u), k, NoOne, NoOne) /\ UNCHANGED waits
      IN Access(a, s, i, n, P)
  BY DEF Unlock
<1>2. /\ i \in Objects(a, s) /\ UNCHANGED <<layout, sketchUp>>
      /\ IF Inside(d, i, n, t)
         THEN (Put(<<d, i, n>>, Bank(t), Base(d, i, n), NoOne, NoOne) /\ UNCHANGED waits) /\ UNCHANGED wild
         ELSE wild' = TRUE /\ UNCHANGED <<banks, last, waits>>
  BY <1>1 DEF Access
<1>3. Stored(t, NoOne) = NoOne /\ NoOne \in Actors \cup {NoOne}
  BY <1>1 DEF Stored
<1> QED
  BY <1>1, <1>2, <1>3 DEF Uses

\* A step either lays out, or leaves the layout alone.
LEMMA StepsOfDevices ==
  ASSUME BankNext
  PROVE  \/ Construct \/ Kill \/ \E a \in Actors : Acquire(a) \/ Probe(a)
         \/ \E a \in Actors, s \in Known : \E i, n : n \in DOMAIN Class(s) /\ Uses(a, s, i, n)
<1> SUFFICES ASSUME NEW a \in Actors, NEW s \in Known, NEW i, NEW n \in DOMAIN Class(s),
                    Store(a, s, i, n) \/ Lock(a, s, i, n) \/ TryLock(a, s, i, n) \/ Unlock(a, s, i, n)
             PROVE  Uses(a, s, i, n)
  BY DEF BankNext
<1> QED
  BY StoreUses, LockUses, TryLockUses, UnlockUses

\* A store leaves the banks where they are.
LEMMA PutKeepsDomains ==
  ASSUME NEW r, NEW b, NEW k, NEW x, NEW v, Put(r, b, k, x, v), DOMAIN banks = Banks
  PROVE  DOMAIN banks' = Banks /\ \A e \in Banks : DOMAIN banks'[e] = DOMAIN banks[e]
<1>1. banks' = [banks EXCEPT ![b] = [banks[b] EXCEPT ![k] = x]]
  BY DEF Put
<1>2. DOMAIN [banks[b] EXCEPT ![k] = x] = DOMAIN banks[b]
  OBVIOUS
<1> QED
  BY <1>1, <1>2

DomainsKept == /\ UNCHANGED layout /\ DOMAIN banks' = Banks /\ DOMAIN waits' = Actors
               /\ \A b \in Banks : DOMAIN banks'[b] = DOMAIN banks[b]

LEMMA UsesKeepsDomains ==
  ASSUME NEW a, NEW s, NEW i, NEW n, Uses(a, s, i, n), DOMAIN banks = Banks, DOMAIN waits = Actors
  PROVE  DomainsKept
<1>1. UNCHANGED layout
  BY DEF Uses
<1>2. DOMAIN waits' = Actors
  BY DEF Uses
<1>3. CASE banks' = banks
  BY <1>1, <1>2, <1>3 DEF DomainsKept
<1>4. CASE banks' # banks
  <2>1. \E r, b, k, x, v : Put(r, b, k, x, v)
    BY <1>4 DEF Uses
  <2> QED
    BY <1>1, <1>2, <2>1, PutKeepsDomains DEF DomainsKept
<1> QED
  BY <1>3, <1>4

LEMMA OthersKeepDomains ==
  ASSUME Kill \/ \E a \in Actors : Acquire(a) \/ Probe(a), DOMAIN banks = Banks, DOMAIN waits = Actors
  PROVE  DomainsKept
<1>1. CASE Kill
  BY <1>1 DEF Kill, DomainsKept
<1>2. ASSUME NEW a \in Actors, Probe(a) PROVE DomainsKept
  BY <1>2 DEF Probe, DomainsKept
<1>3. ASSUME NEW a \in Actors, Acquire(a) PROVE DomainsKept
  <2>1. UNCHANGED layout /\ waits' = [waits EXCEPT ![a] = <<>>]
        /\ \E r, b, k, x, v : Put(r, b, k, x, v)
    BY <1>3 DEF Acquire
  <2> QED
    BY <2>1, PutKeepsDomains DEF DomainsKept
<1> QED
  BY <1>1, <1>2, <1>3

LEMMA KeptLayout ==
  ASSUME LayoutInv, DomainsKept
  PROVE  LayoutInv'
<1>1. /\ config' = config /\ phase' = phase /\ dev' = dev /\ it' = it /\ bases' = bases
      /\ deviceMap' = deviceMap /\ \A b \in Banks : DOMAIN banks'[b] = DOMAIN banks[b]
  BY DEF DomainsKept, layout
<1> QED
  BY <1>1, LayoutIsIn DEF LayoutIn

\* The constructor's steps keep the domains, or lay the banks out.
LEMMA ConstructKeepsDomains ==
  ASSUME Construct, DOMAIN banks = Banks, DOMAIN waits = Actors
  PROVE  DOMAIN banks' = Banks /\ DOMAIN waits' = Actors /\ last' = last /\ wild' = wild /\ waits' = waits
         /\ phase' \in {"count", "insert", "ready", "terminated"}
<1>1. CASE ResizeBanks
  BY <1>1 DEF ResizeBanks
<1>2. CASE CountDevice \/ CountField \/ InsertDevice \/ InsertField \/ Constructed
  BY <1>2 DEF CountDevice, CountField, InsertDevice, InsertField, Constructed
<1> QED
  BY <1>1, <1>2 DEF Construct

LEMMA ConstructKeepsLayout ==
  ASSUME Legal(Configs), LayoutInv, Construct
  PROVE  LayoutInv'
BY CountDeviceStep, CountFieldStep, ResizeBanksStep, InsertDeviceStep, InsertFieldStep, ConstructedStep
   DEF Construct

Laid == /\ LayoutInv /\ DOMAIN banks = Banks /\ DOMAIN waits = Actors
        /\ phase \in {"count", "insert", "ready", "terminated"}

LEMMA LaidInit ==
  ASSUME Legal(Configs), BankInit
  PROVE  Laid
BY LayoutInit DEF BankInit, Laid

LEMMA LaidStep ==
  ASSUME Legal(Configs), Laid, [BankNext]_bankVars
  PROVE  Laid'
<1>1. /\ LayoutInv /\ DOMAIN banks = Banks /\ DOMAIN waits = Actors
      /\ phase \in {"count", "insert", "ready", "terminated"}
  BY DEF Laid
<1>2. CASE Construct
  <2>1. LayoutInv'
    BY <1>1, <1>2, ConstructKeepsLayout
  <2>2. /\ DOMAIN banks' = Banks /\ DOMAIN waits' = Actors
        /\ phase' \in {"count", "insert", "ready", "terminated"}
    BY <1>1, <1>2, ConstructKeepsDomains
  <2> QED
    BY <2>1, <2>2 DEF Laid
<1>3. CASE DomainsKept
  <2>1. LayoutInv'
    BY <1>1, <1>3, KeptLayout
  <2> QED
    BY <1>1, <1>3, <2>1 DEF Laid, DomainsKept, layout
<1>4. CASE UNCHANGED bankVars
  <2>1. DomainsKept
    BY <1>1, <1>4 DEF DomainsKept, bankVars
  <2> QED
    BY <1>3, <2>1
<1>5. CASE BankNext /\ ~Construct
  <2>1. DomainsKept
    BY <1>1, <1>5, StepsOfDevices, UsesKeepsDomains, OthersKeepDomains
  <2> QED
    BY <1>3, <2>1
<1> QED
  BY <1>2, <1>4, <1>5

\* The banks are laid out as LayoutInv says, whatever the devices are.
LEMMA LayoutInvariance ==
  ASSUME Legal(Configs)
  PROVE  BankSpec => []Laid
<1>1. BankInit => Laid
  BY LaidInit
<1>2. Laid /\ [BankNext]_bankVars => Laid'
  BY LaidStep
<1> QED
  BY <1>1, <1>2, PTL DEF BankSpec

-----------------------------------------------------------------------------
(* What the fields hold.                                                   *)

Slot(r) == Base(r[1], r[2], r[3])

\* What may be stored in a field of type t.
Storable(t) == IF t = "mutex" THEN Actors \cup {NoOne} ELSE Int

\* Field r holds v.
Holds(r, v) == banks[Bank(TypeOf(r))][Slot(r)] = Stored(TypeOf(r), v)
LastStored(r) == IF r \in DOMAIN last THEN last[r] ELSE Zero(Bank(TypeOf(r)))
WaitsWell(a) == waits[a] = <<>> \/ \E r \in Refs : TypeOf(r) = "mutex" /\ waits[a] = <<r[1], r[2], r[3], Slot(r)>>

\* SlotsInv when the devices are ready.
InUse == /\ DOMAIN last \subseteq Refs
         /\ \A r \in DOMAIN last : last[r] \in Storable(TypeOf(r))
         /\ \A r \in Refs : Holds(r, LastStored(r))
         /\ \A a \in Actors : WaitsWell(a)
Unused == /\ DOMAIN last = {} /\ \A a \in Actors : waits[a] = <<>>
          /\ \A b \in Banks : \A k \in DOMAIN banks[b] : banks[b][k] = Zero(b)

LEMMA SlotsIsInUse ==
  /\ SlotsInv <=> (phase # "ready" => Unused) /\ (phase = "ready" => InUse)
  /\ SlotsInv' <=> (phase' # "ready" => Unused') /\ (phase' = "ready" => InUse')
<1>1. SlotsInv <=> (phase # "ready" => Unused) /\ (phase = "ready" => InUse)
  BY DEF SlotsInv, Unused, InUse, Holds, LastStored, WaitsWell, Storable, Slot
<1>2. SlotsInv' <=> (phase' # "ready" => Unused') /\ (phase' = "ready" => InUse')
  BY DEF SlotsInv, Unused, InUse, Holds, LastStored, WaitsWell, Storable, Slot
<1> QED
  BY <1>1, <1>2

\* A step that leaves the map alone leaves the places of the fields alone.
LEMMA SamePlaces ==
  ASSUME deviceMap' = deviceMap
  PROVE  Refs' = Refs /\ \A r : TypeOf(r)' = TypeOf(r) /\ Slot(r)' = Slot(r)
<1>1. Refs' = Refs
  BY DEF Refs
<1>2. \A r : TypeOf(r)' = TypeOf(r)
  BY DEF TypeOf
<1>3. \A r : Slot(r)' = Slot(r)
  BY DEF Slot, Base, SameBank
<1> QED
  BY <1>1, <1>2, <1>3

\* Where a field is, when the banks are tiled.
LEMMA SlotIsThere ==
  ASSUME BanksAreTiled, phase = "ready", NEW r \in Refs
  PROVE  /\ Bank(TypeOf(r)) \in Banks /\ Slot(r) \in DOMAIN banks[Bank(TypeOf(r))]
         /\ \A q \in Refs : q # r => Bank(TypeOf(q)) # Bank(TypeOf(r)) \/ Slot(q) # Slot(r)
<1>1. Place(r) \in UNION {{<<b, k>> : k \in DOMAIN banks[b]} : b \in Banks}
  BY DEF BanksAreTiled
<1>2. PICK b \in Banks : \E k \in DOMAIN banks[b] : Place(r) = <<b, k>>
  BY <1>1
<1>3. Place(r) = <<Bank(TypeOf(r)), Slot(r)>>
  BY DEF Place, Slot
<1>4. Bank(TypeOf(r)) = b /\ Slot(r) \in DOMAIN banks[b]
  BY <1>2, <1>3
<1>5. ASSUME NEW q \in Refs, q # r PROVE Bank(TypeOf(q)) # Bank(TypeOf(r)) \/ Slot(q) # Slot(r)
  <2>1. Place(q) # Place(r)
    BY <1>5 DEF BanksAreTiled
  <2> QED
    BY <2>1 DEF Place, Slot
<1> QED
  BY <1>2, <1>4, <1>5

\* A field that is stored to holds what was stored, the others what they held.
LEMMA PutInSlot ==
  ASSUME BanksAreTiled, phase = "ready", DOMAIN banks = Banks, NEW r \in Refs, NEW v,
         Put(r, Bank(TypeOf(r)), Slot(r), Stored(TypeOf(r), v), v), deviceMap' = deviceMap,
         v \in Storable(TypeOf(r)),
         DOMAIN last \subseteq Refs, \A q \in DOMAIN last : last[q] \in Storable(TypeOf(q)),
         \A q \in Refs : Holds(q, LastStored(q))
  PROVE  /\ DOMAIN last' \subseteq Refs' /\ \A q \in DOMAIN last' : last'[q] \in Storable(TypeOf(q)')
         /\ \A q \in Refs' : Holds(q, LastStored(q))'
<1>1. /\ Refs' = Refs
      /\ \A q : TypeOf(q)' = TypeOf(q) /\ Slot(q)' = Slot(q)
  BY SamePlaces
<1>2. last' = [q \in DOMAIN last \cup {r} |-> IF q = r THEN v ELSE last[q]]
  BY DEF Put
<1>3. /\ DOMAIN last' = DOMAIN last \cup {r} /\ last'[r] = v
      /\ \A q \in DOMAIN last : q # r => last'[q] = last[q]
  BY <1>2
<1>4. \A q \in DOMAIN last' : last'[q] \in Storable(TypeOf(q)')
  <2> SUFFICES ASSUME NEW q \in DOMAIN last' PROVE last'[q] \in Storable(TypeOf(q))
    BY <1>1
  <2> QED
    BY <1>3
<1> DEFINE b == Bank(TypeOf(r))
           k == Slot(r)
           x == Stored(TypeOf(r), v)
<1>5. b \in Banks /\ k \in DOMAIN banks[b]
  BY SlotIsThere
<1>6. banks' = [banks EXCEPT ![b] = [banks[b] EXCEPT ![k] = x]]
  BY DEF Put
<1> HIDE DEF b, k, x
<1>7. banks'[b][k] = x /\ \A e, h : e \in Banks /\ (e # b \/ h # k) /\ h \in DOMAIN banks[e] => banks'[e][h] = banks[e][h]
  BY <1>5, <1>6
<1>8. ASSUME NEW q \in Refs PROVE Holds(q, LastStored(q))'
  <2>1. Holds(q, LastStored(q))' <=> banks'[Bank(TypeOf(q))][Slot(q)] =
           Stored(TypeOf(q), IF q \in DOMAIN last' THEN last'[q] ELSE Zero(Bank(TypeOf(q))))
    BY <1>1 DEF Holds, LastStored
  <2>2. CASE q = r
    BY <1>3, <1>7, <2>1, <2>2 DEF b, k, x
  <2>3. CASE q # r
    <3>1. /\ Bank(TypeOf(q)) \in Banks /\ Slot(q) \in DOMAIN banks[Bank(TypeOf(q))]
          /\ Bank(TypeOf(q)) # b \/ Slot(q) # k
      BY <2>3, SlotIsThere DEF b, k
    <3>2. banks'[Bank(TypeOf(q))][Slot(q)] = banks[Bank(TypeOf(q))][Slot(q)]
      BY <1>7, <3>1
    <3>3. (q \in DOMAIN last' <=> q \in DOMAIN last) /\ (q \in DOMAIN last => last'[q] = last[q])
      BY <1>3, <2>3
    <3>4. banks[Bank(TypeOf(q))][Slot(q)] =
             Stored(TypeOf(q), IF q \in DOMAIN last THEN last[q] ELSE Zero(Bank(TypeOf(q))))
      BY DEF Holds, LastStored
    <3> QED
      BY <2>1, <3>2, <3>3, <3>4
  <2> QED
    BY <2>2, <2>3
<1>9. DOMAIN last' \subseteq Refs'
  BY <1>1, <1>3
<1> QED
  BY <1>1, <1>4, <1>8, <1>9

\* Who uses an object of a class, uses a field of the board.
LEMMA ObjectIsThere ==
  ASSUME Legal(Configs), Matching(Configs, Known, Probes), Laid, BanksAreTiled,
         NEW a, NEW s \in Known, NEW i \in Objects(a, s), NEW n \in DOMAIN Class(s)
  PROVE  LET r == <<Name(s), i, n>> IN
         phase = "ready" /\ r \in Refs /\ TypeOf(r) = Class(s)[n] /\ Inside(Name(s), i, n, Class(s)[n])
<1> DEFINE d == Name(s)
           r == <<d, i, n>>
<1>1. /\ phase = "ready" /\ waits[a] = <<>> /\ i \in 0 .. DeviceCount(d) - 1
  BY DEF Objects
<1>2. d \in DOMAIN deviceMap /\ i \in 0 .. deviceMap[d].count - 1
  BY <1>1 DEF DeviceCount
<1>3. LayoutInv /\ config \in Configs /\ dev = Len(config) /\ MapAt(deviceMap, config, dev, it)
  BY <1>1, LayoutIsIn DEF LayoutIn, Laid
<1>4. PICK j \in 1 .. Len(config) : d = Name(config[j].spec)
  BY <1>2, <1>3 DEF MapAt
<1>5. Class(s) = Class(config[j].spec)
  BY <1>3, <1>4 DEF Matching
<1>6. DOMAIN deviceMap[d].fields = DOMAIN Class(s) /\ \A m \in DOMAIN Class(s) : deviceMap[d].fields[m] = Class(s)[m]
  BY <1>1, <1>3, <1>4, <1>5, DeviceIsThere
<1>7. r \in Refs
  <2>1. n \in DOMAIN deviceMap[d].fields
    BY <1>6
  <2> HIDE DEF d
  <2> QED
    BY <1>2, <2>1 DEF Refs
<1>8. TypeOf(r) = Class(s)[n]
  BY <1>6 DEF TypeOf
<1>9. Slot(r) \in DOMAIN banks[Bank(Class(s)[n])]
  BY <1>1, <1>7, <1>8, SlotIsThere
<1>10. Inside(d, i, n, Class(s)[n])
  BY <1>6, <1>9 DEF Inside, Found, Slot
<1> QED
  BY <1>1, <1>7, <1>8, <1>10

\* The fields that are found have the types of fields.
RefsAreTyped == phase = "ready" => \A r \in Refs : TypeOf(r) \in Range(FieldTypes)
Tiled == Laid /\ BanksAreTiled /\ RefsAreTyped

LEMMA LaidIsTiled ==
  ASSUME Legal(Configs), Laid
  PROVE  Tiled
<1>1. LayoutInv /\ DOMAIN banks = Banks
  BY DEF Laid
<1>2. BanksAreTiled
  BY <1>1, LayoutTiles
<1>3. ASSUME phase = "ready", NEW r \in Refs PROVE TypeOf(r) \in Range(FieldTypes)
  <2>1. PICK f \in Fields(config) : r = RefAt(config, f)
    BY <1>1, <1>3, RefIsField
  <2>2. FoundAt(config, f, r)
    BY <1>1, <1>3, <2>1, FieldIsFound
  <2>3. config \in Configs
    BY <1>1, LayoutIsIn DEF LayoutIn
  <2>4. LegalDevice(config[f[1]]) /\ f[3] \in DOMAIN Class(config[f[1]].spec)
    BY <2>3, FieldsOfDevices
  <2> QED
    BY <2>2, <2>4 DEF FoundAt, LegalDevice
<1> QED
  BY <1>2, <1>3 DEF Tiled, RefsAreTyped

LEMMA TiledInvariance ==
  ASSUME Legal(Configs)
  PROVE  BankSpec => []Tiled
<1>1. Laid => Tiled
  BY LaidIsTiled
<1> QED
  BY <1>1, LayoutInvariance, PTL

\* What is stored where nobody has stored yet.
LEMMA StoredZero ==
  ASSUME NEW t \in Range(FieldTypes)
  PROVE  Stored(t, Zero(Bank(t))) = Zero(Bank(t)) /\ Zero(Bank(t)) \in Storable(t)
<1>1. Bank(t) = "mutex" <=> t = "mutex"
  BY BankOfType
<1>2. CASE t = "mutex"
  BY <1>1, <1>2 DEF Stored, Zero, Storable
<1>3. CASE t # "mutex"
  <2>1. Zero(Bank(t)) = 0 /\ Stored(t, 0) = AsUnsigned(t, 0)
    BY <1>1, <1>3 DEF Zero, Stored
  <2>2. AsUnsigned(t, 0) = 0
    <3>1. Span(t) \in Nat \ {0}
      BY SpanIsEven
    <3>2. 0 % Span(t) = 0
      BY <3>1
    <3> QED
      BY <3>2 DEF AsUnsigned
  <2> QED
    BY <1>3, <2>1, <2>2 DEF Storable
<1> QED
  BY <1>2, <1>3

Safe == SlotsInv /\ NoWildAccess

LEMMA SafeInit == ASSUME BankInit PROVE Safe
BY DEF BankInit, Safe, SlotsInv, NoWildAccess

\* The fields are zero when the constructor ends.
LEMMA ConstructedIsInUse ==
  ASSUME Tiled', Unused, Constructed
  PROVE  InUse'
<1>1. /\ DOMAIN last = {} /\ last' = last /\ waits' = waits /\ banks' = banks /\ phase' = "ready"
      /\ \A a \in Actors : waits[a] = <<>>
      /\ \A b \in Banks : \A k \in DOMAIN banks[b] : banks[b][k] = Zero(b)
  BY DEF Unused, Constructed
<1>2. DOMAIN last' \subseteq Refs' /\ \A r \in DOMAIN last' : last'[r] \in Storable(TypeOf(r)')
  BY <1>1
<1>3. \A a \in Actors : WaitsWell(a)'
  BY <1>1 DEF WaitsWell
<1>4. ASSUME NEW r \in Refs' PROVE Holds(r, LastStored(r))'
  <2> DEFINE t == TypeOf(r)'
             k == Slot(r)'
  <2>1. t \in Range(FieldTypes)
    BY <1>1 DEF Tiled, RefsAreTyped
  <2>2. Place(r)' \in UNION {{<<b, h>> : h \in DOMAIN banks[b]} : b \in Banks}
    BY <1>1 DEF Tiled, BanksAreTiled
  <2>3. PICK b \in Banks : \E h \in DOMAIN banks[b] : Place(r)' = <<b, h>>
    BY <2>2
  <2>4. Place(r)' = <<Bank(t), k>>
    BY DEF Place, Slot
  <2>5. Bank(t) \in Banks /\ k \in DOMAIN banks[Bank(t)]
    BY <2>3, <2>4
  <2>6. banks[Bank(t)][k] = Zero(Bank(t))
    BY <1>1, <2>5
  <2>7. LastStored(r)' = Zero(Bank(t))
    BY <1>1 DEF LastStored
  <2>8. Stored(t, Zero(Bank(t))) = Zero(Bank(t))
    BY <2>1, StoredZero
  <2>9. Holds(r, LastStored(r))' <=> banks'[Bank(t)][k] = Stored(t, LastStored(r)')
    BY DEF Holds
  <2> HIDE DEF t, k
  <2> QED
    BY <1>1, <2>6, <2>7, <2>8, <2>9
<1> QED
  BY <1>2, <1>3, <1>4 DEF InUse

LEMMA ConstructIsSafe ==
  ASSUME Tiled, Tiled', Safe, Construct
  PROVE  Safe'
<1>1. DOMAIN banks = Banks /\ DOMAIN waits = Actors
  BY DEF Tiled, Laid
<1>2. last' = last /\ waits' = waits /\ wild' = wild
  BY <1>1, ConstructKeepsDomains
<1>3. NoWildAccess'
  BY <1>2 DEF Safe, NoWildAccess
<1>4. phase \in {"count", "insert"}
  BY DEF Construct, CountDevice, CountField, ResizeBanks, InsertDevice, InsertField, Constructed
<1>5. Unused
  BY <1>4, SlotsIsInUse DEF Safe
<1>6. CASE Constructed
  <2>1. InUse' /\ phase' = "ready"
    BY <1>5, <1>6, ConstructedIsInUse DEF Constructed
  <2> QED
    BY <1>3, <2>1, SlotsIsInUse DEF Safe
<1>7. CASE ResizeBanks
  <2>1. Unused' /\ phase' # "ready"
    BY <1>2, <1>5, <1>7 DEF Unused, ResizeBanks
  <2> QED
    BY <1>3, <2>1, SlotsIsInUse DEF Safe
<1>8. CASE CountDevice \/ CountField \/ InsertDevice \/ InsertField
  <2>1. banks' = banks /\ phase' # "ready"
    BY <1>8 DEF CountDevice, CountField, InsertDevice, InsertField
  <2>2. Unused'
    BY <1>2, <1>5, <2>1 DEF Unused
  <2> QED
    BY <1>3, <2>1, <2>2, SlotsIsInUse DEF Safe
<1> QED
  BY <1>6, <1>7, <1>8 DEF Construct

\* What a step of the host or of the sketch must do to keep what is in use well.
LEMMA StaysInUse ==
  ASSUME Tiled, InUse, phase = "ready", UNCHANGED layout, NEW r \in Refs,
         \/ UNCHANGED <<banks, last>>
         \/ \E v \in Storable(TypeOf(r)) : Put(r, Bank(TypeOf(r)), Slot(r), Stored(TypeOf(r), v), v),
         \A a \in Actors : \/ waits'[a] = waits[a] \/ waits'[a] = <<>>
                           \/ TypeOf(r) = "mutex" /\ waits'[a] = <<r[1], r[2], r[3], Slot(r)>>
  PROVE  InUse' /\ phase' = "ready"
<1>1. deviceMap' = deviceMap /\ phase' = "ready"
  BY DEF layout
<1>2. Refs' = Refs /\ \A q : TypeOf(q)' = TypeOf(q) /\ Slot(q)' = Slot(q)
  BY <1>1, SamePlaces
<1>3. /\ DOMAIN last \subseteq Refs /\ \A q \in DOMAIN last : last[q] \in Storable(TypeOf(q))
      /\ \A q \in Refs : Holds(q, LastStored(q))
      /\ DOMAIN banks = Banks /\ BanksAreTiled
  BY DEF InUse, Tiled, Laid
<1>4. /\ DOMAIN last' \subseteq Refs' /\ \A q \in DOMAIN last' : last'[q] \in Storable(TypeOf(q)')
      /\ \A q \in Refs' : Holds(q, LastStored(q))'
  <2>1. CASE UNCHANGED <<banks, last>>
    BY <1>2, <1>3, <2>1 DEF Holds, LastStored
  <2>2. CASE \E v \in Storable(TypeOf(r)) : Put(r, Bank(TypeOf(r)), Slot(r), Stored(TypeOf(r), v), v)
    BY <1>1, <1>3, <2>2, PutInSlot
  <2> QED
    BY <2>1, <2>2
<1>5. ASSUME NEW a \in Actors PROVE WaitsWell(a)'
  <2>1. WaitsWell(a)
    BY DEF InUse
  <2> QED
    BY <1>2, <2>1 DEF WaitsWell
<1> QED
  BY <1>1, <1>4, <1>5 DEF InUse

LEMMA UsesIsSafe ==
  ASSUME Legal(Configs), Matching(Configs, Known, Probes), Values \subseteq Int, Tiled, Safe,
         NEW a \in Actors, NEW s \in Known, NEW i, NEW n \in DOMAIN Class(s), Uses(a, s, i, n)
  PROVE  Safe'
<1> DEFINE r == <<Name(s), i, n>>
           t == Class(s)[n]
<1>1. i \in Objects(a, s) /\ UNCHANGED layout
  BY DEF Uses
<1>2. phase = "ready" /\ r \in Refs /\ TypeOf(r) = t /\ Inside(Name(s), i, n, t)
  BY <1>1, ObjectIsThere DEF Tiled
<1>3. Slot(r) = Base(Name(s), i, n) /\ r[1] = Name(s) /\ r[2] = i /\ r[3] = n
  BY DEF Slot
<1>4. InUse /\ ~wild
  BY <1>2, SlotsIsInUse DEF Safe, NoWildAccess
<1>5. /\ UNCHANGED wild
      /\ \/ UNCHANGED <<banks, last, waits>>
         \/ /\ \E v \in (IF t = "mutex" THEN Actors \cup {NoOne} ELSE Values) :
                  Put(r, Bank(t), Slot(r), Stored(t, v), v)
            /\ UNCHANGED waits
         \/ /\ t = "mutex" /\ waits' = [waits EXCEPT ![a] = <<r[1], r[2], r[3], Slot(r)>>]
            /\ UNCHANGED <<banks, last>>
  BY <1>2, <1>3 DEF Uses
<1>6. DOMAIN waits = Actors
  BY DEF Tiled, Laid
<1> HIDE DEF r, t
<1>7. \/ UNCHANGED <<banks, last>>
      \/ \E v \in Storable(TypeOf(r)) : Put(r, Bank(TypeOf(r)), Slot(r), Stored(TypeOf(r), v), v)
  BY <1>2, <1>5 DEF Storable
<1>8. \A e \in Actors : \/ waits'[e] = waits[e] \/ waits'[e] = <<>>
                        \/ TypeOf(r) = "mutex" /\ waits'[e] = <<r[1], r[2], r[3], Slot(r)>>
  BY <1>2, <1>5, <1>6
<1>9. InUse' /\ phase' = "ready"
  BY <1>1, <1>2, <1>4, <1>7, <1>8, StaysInUse
<1> QED
  BY <1>4, <1>5, <1>9, SlotsIsInUse DEF Safe, NoWildAccess

LEMMA AcquireIsSafe ==
  ASSUME Tiled, Safe, NEW a \in Actors, Acquire(a)
  PROVE  Safe'
<1>1. /\ waits[a] # <<>> /\ waits' = [waits EXCEPT ![a] = <<>>] /\ UNCHANGED layout /\ wild' = wild
      /\ Put(SubSeq(waits[a], 1, 3), "mutex", waits[a][4], a, a)
  BY DEF Acquire
<1>2. phase = "ready" /\ InUse
  BY <1>1, SlotsIsInUse DEF Safe, Unused
<1>3. PICK r \in Refs : TypeOf(r) = "mutex" /\ waits[a] = <<r[1], r[2], r[3], Slot(r)>>
  BY <1>1, <1>2 DEF InUse, WaitsWell
<1>4. r = <<r[1], r[2], r[3]>>
  <2>1. PICK d \in DOMAIN deviceMap :
          r \in {<<d, i, n>> : i \in 0 .. deviceMap[d].count - 1, n \in DOMAIN deviceMap[d].fields}
    BY DEF Refs
  <2> QED
    BY <2>1
<1>5. SubSeq(waits[a], 1, 3) = r /\ waits[a][4] = Slot(r)
  BY <1>3, <1>4
<1>6. Bank(TypeOf(r)) = "mutex" /\ Stored(TypeOf(r), a) = a /\ a \in Storable(TypeOf(r))
  BY <1>3 DEF Bank, Stored, Storable
<1>7. \E v \in Storable(TypeOf(r)) : Put(r, Bank(TypeOf(r)), Slot(r), Stored(TypeOf(r), v), v)
  BY <1>1, <1>5, <1>6
<1>8. \A e \in Actors : waits'[e] = waits[e] \/ waits'[e] = <<>>
  <2>1. DOMAIN waits = Actors
    BY DEF Tiled, Laid
  <2> QED
    BY <1>1, <2>1
<1>9. InUse' /\ phase' = "ready"
  BY <1>1, <1>2, <1>7, <1>8, StaysInUse
<1> QED
  BY <1>1, <1>9, SlotsIsInUse DEF Safe, NoWildAccess

\* A step that changes neither the layout nor what is stored.
LEMMA SameSlots ==
  ASSUME SlotsInv, UNCHANGED <<layout, banks, last, waits>>
  PROVE  SlotsInv'
<1>1. deviceMap' = deviceMap /\ phase' = phase /\ banks' = banks /\ last' = last /\ waits' = waits
  BY DEF layout
<1>2. Refs' = Refs /\ \A q : TypeOf(q)' = TypeOf(q) /\ Slot(q)' = Slot(q)
  BY <1>1, SamePlaces
<1>3. Unused => Unused'
  BY <1>1 DEF Unused
<1>4. InUse => InUse'
  BY <1>1, <1>2 DEF InUse, Holds, LastStored, WaitsWell
<1> QED
  BY <1>1, <1>3, <1>4, SlotsIsInUse

LEMMA ProbeIsSafe ==
  ASSUME Legal(Configs), Matching(Configs, Known, Probes), Tiled, Safe, NEW a, Probe(a)
  PROVE  Safe'
<1>1. PICK p \in Probes : wild' = (wild \/ (DeviceExists(p[1]) /\ ~Found(p[1], p[2])))
  BY DEF Probe
<1>2. ASSUME DeviceExists(p[1]) PROVE Found(p[1], p[2])
  <2>1. phase = "ready" /\ p[1] \in DOMAIN deviceMap
    BY <1>2 DEF DeviceExists
  <2>2. LayoutInv /\ config \in Configs /\ dev = Len(config) /\ MapAt(deviceMap, config, dev, it)
    BY <2>1, LayoutIsIn DEF LayoutIn, Tiled, Laid
  <2>3. PICK j \in 1 .. Len(config) : p[1] = Name(config[j].spec)
    BY <2>1, <2>2 DEF MapAt
  <2>4. p[2] \in DOMAIN Class(config[j].spec)
    BY <2>2, <2>3 DEF Matching
  <2>5. DOMAIN deviceMap[p[1]].fields = DOMAIN Class(config[j].spec)
    BY <2>1, <2>2, <2>3, DeviceIsThere
  <2> QED
    BY <2>4, <2>5 DEF Found
<1>3. ~wild'
  BY <1>1, <1>2 DEF Safe, NoWildAccess
<1>4. SlotsInv'
  BY SameSlots DEF Probe, Safe
<1> QED
  BY <1>3, <1>4 DEF Safe, NoWildAccess

LEMMA SafeStep ==
  ASSUME Legal(Configs), Matching(Configs, Known, Probes), Values \subseteq Int,
         Tiled, Tiled', Safe, [BankNext]_bankVars
  PROVE  Safe'
<1>1. CASE UNCHANGED bankVars
  <2>1. SlotsInv' /\ wild' = wild
    BY <1>1, SameSlots DEF bankVars, Safe
  <2> QED
    BY <2>1 DEF Safe, NoWildAccess
<1>2. CASE Kill
  <2>1. SlotsInv' /\ wild' = wild
    BY <1>2, SameSlots DEF Kill, Safe
  <2> QED
    BY <2>1 DEF Safe, NoWildAccess
<1>3. CASE BankNext
  BY <1>2, <1>3, StepsOfDevices, ConstructIsSafe, AcquireIsSafe, ProbeIsSafe, UsesIsSafe
<1> QED
  BY <1>1, <1>3

LEMMA SafeInvariance ==
  ASSUME Legal(Configs), Matching(Configs, Known, Probes), Values \subseteq Int
  PROVE  BankSpec => [](Tiled /\ Safe)
<1>1. BankInit => Safe
  BY SafeInit
<1>2. Tiled /\ Tiled' /\ Safe /\ [BankNext]_bankVars => Safe'
  BY SafeStep
<1> QED
  BY <1>1, <1>2, TiledInvariance, PTL DEF BankSpec

\* What is stored has the type of its bank.
LEMMA BanksAreTyped ==
  ASSUME Legal(Configs), Tiled, Safe
  PROVE  BankTypeOK
<1>1. /\ LayoutInv /\ DOMAIN banks = Banks /\ DOMAIN waits = Actors
      /\ phase \in {"count", "insert", "ready", "terminated"}
  BY DEF Tiled, Laid
<1>2. bases \in [Banks -> Nat]
  <2>1. /\ config \in Configs /\ dev \in 0 .. Len(config)
        /\ bases = [b \in Banks |-> CountedIn(config, dev, it, b)]
    BY <1>1, LayoutIsIn DEF LayoutIn
  <2> QED
    BY <2>1, CountedIsNat
<1>3. ASSUME NEW b \in Banks, NEW k \in DOMAIN banks[b]
      PROVE IF b = "mutex" THEN banks[b][k] \in Actors \cup {NoOne}
            ELSE b \in {"u8", "au8"} => banks[b][k] \in 0 .. 255
  <2>1. CASE phase # "ready"
    <3>1. banks[b][k] = Zero(b)
      BY <2>1, SlotsIsInUse DEF Safe, Unused
    <3> QED
      BY <3>1 DEF Zero
  <2>2. CASE phase = "ready"
    <3>1. InUse
      BY <2>2, SlotsIsInUse DEF Safe
    <3>2. PICK r \in Refs : Place(r) = <<b, k>>
      <4>1. <<b, k>> \in UNION {{<<e, h>> : h \in DOMAIN banks[e]} : e \in Banks}
        OBVIOUS
      <4>2. <<b, k>> \in {Place(r) : r \in Refs}
        BY <2>2, <4>1 DEF Tiled, BanksAreTiled
      <4> QED
        BY <4>2
    <3> DEFINE t == TypeOf(r)
               v == LastStored(r)
    <3>3. b = Bank(t) /\ k = Slot(r)
      BY <3>2 DEF Place, Slot
    <3>4. t \in Range(FieldTypes)
      BY <2>2 DEF Tiled, RefsAreTyped
    <3>5. v \in Storable(t)
      BY <3>1, <3>4, StoredZero DEF InUse, LastStored
    <3>6. banks[b][k] = Stored(t, v)
      BY <3>1, <3>3 DEF InUse, Holds
    <3> HIDE DEF t, v
    <3>7. CASE b = "mutex"
      <4>1. t = "mutex"
        BY <3>3, <3>4, <3>7, BankOfType
      <4> QED
        BY <3>5, <3>6, <3>7, <4>1 DEF Stored, Storable
    <3>8. CASE b \in {"u8", "au8"}
      <4>1. t # "mutex" /\ t \notin Real /\ Span(t) = 2^8
        BY <3>3, <3>4, <3>8, BankOfType
      <4>2. banks[b][k] = v % 256 /\ v \in Int
        BY <3>5, <3>6, <4>1 DEF Stored, AsUnsigned, Storable
      <4>3. v % 256 \in 0 .. 255
        BY <4>2
      <4>4. b # "mutex"
        BY <3>8
      <4> QED
        BY <4>2, <4>3, <4>4
    <3> QED
      BY <3>7, <3>8
  <2> QED
    BY <2>1, <2>2
<1> QED
  BY <1>1, <1>2, <1>3 DEF BankTypeOK

\* What was stored last is what is read.
LEMMA FieldsRead ==
  ASSUME Tiled, Safe
  PROVE  FieldsKeepTheirValues
<1> SUFFICES ASSUME phase = "ready", NEW r \in Refs
             PROVE  LET t == TypeOf(r)  slot == Base(r[1], r[2], r[3]) IN
                    /\ slot \in DOMAIN banks[Bank(t)]
                    /\ Converts(t, IF r \in DOMAIN last THEN last[r] ELSE Zero(Bank(t)),
                                AsSigned(t, banks[Bank(t)][slot]))
  BY DEF FieldsKeepTheirValues
<1> DEFINE t == TypeOf(r)
           v == LastStored(r)
<1>1. InUse
  BY SlotsIsInUse DEF Safe
<1>2. Slot(r) \in DOMAIN banks[Bank(t)]
  BY SlotIsThere DEF Tiled
<1>3. t \in Range(FieldTypes)
  BY DEF Tiled, RefsAreTyped
<1>4. v \in Storable(t)
  BY <1>1, <1>3, StoredZero DEF InUse, LastStored
<1>5. banks[Bank(t)][Slot(r)] = Stored(t, v)
  BY <1>1 DEF InUse, Holds
<1>6. Converts(t, v, AsSigned(t, Stored(t, v)))
  <2> HIDE DEF t, v
  <2>1. t \notin {"mutex"} \cup Real => v \in Int
    BY <1>4 DEF Storable
  <2> QED
    BY <2>1, StoredConverts
<1>7. v = IF r \in DOMAIN last THEN last[r] ELSE Zero(Bank(t))
  BY DEF LastStored
<1> HIDE DEF t, v
<1> QED
  BY <1>2, <1>5, <1>6, <1>7 DEF Slot, t

\* The constructor and the look-ups of both processes mean the same places, and no
\* access is outside the banks, for every board whose devices and fields have names
\* of their own and that host and sketch were generated for.
THEOREM BankInvariance ==
  ASSUME Legal(Configs), Matching(Configs, Known, Probes), Values \subseteq Int
  PROVE  BankSpec => []DevicesInv
<1>1. Tiled /\ Safe => DevicesInv
  BY BanksAreTyped DEF DevicesInv, Tiled, Laid, Safe
<1> QED
  BY <1>1, SafeInvariance, PTL

\* A field reads as what was last stored in it, converted to its type.
THEOREM FieldsAreKept ==
  ASSUME Legal(Configs), Matching(Configs, Known, Probes), Values \subseteq Int
  PROVE  BankSpec => []FieldsKeepTheirValues
<1>1. Tiled /\ Safe => FieldsKeepTheirValues
  BY FieldsRead
<1> QED
  BY <1>1, SafeInvariance, PTL
===============================================================================
