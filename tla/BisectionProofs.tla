---------------------------- MODULE BisectionProofs ----------------------------
(***************************************************************************)
(* The bisection finds what it should in every sorted sequence.  What      *)
(* holds of a recursive function is proved by its least counterexample.    *)
(***************************************************************************)
EXTENDS Bisection, WellFoundedInduction, TLAPS

\* A set of natural numbers that is not empty has a least member.
LEMMA Least ==
  ASSUME NEW S, S \subseteq Nat, S # {}
  PROVE  \E x \in S : \A y \in S : x <= y
<1> DEFINE R == {ss \in Nat \X Nat : ss[1] < ss[2]}
<1>1. IsWellFoundedOn(R, Nat)
  BY NatLessThanWellFounded DEF OpToRel
<1> HIDE DEF R
<1>2. PICK x \in S : \A y \in S : ~(<<y, x>> \in R)
  BY <1>1, WFMin
<1>3. ASSUME NEW y \in S PROVE x <= y
  <2>1. x \in Nat /\ y \in Nat /\ <<y, x>> \notin R
    BY <1>2
  <2> QED
    BY <2>1 DEF R
<1> QED
  BY <1>3

\* What holds of 0, and of each number when it holds of the one before, holds of all.
LEMMA CountUp ==
  ASSUME NEW N \in Nat, NEW P, 0 \in P, \A n \in 1 .. N : n - 1 \in P => n \in P
  PROVE  \A n \in 0 .. N : n \in P
<1> DEFINE bad == {n \in 0 .. N : n \notin P}
<1>1. SUFFICES ASSUME bad # {} PROVE FALSE
  OBVIOUS
<1>2. PICK m \in bad : \A y \in bad : m <= y
  <2>1. bad \subseteq Nat
    OBVIOUS
  <2> HIDE DEF bad
  <2> QED
    BY <1>1, <2>1, Least
<1>3. m \in 1 .. N /\ m - 1 \in 0 .. N /\ ~(m <= m - 1)
  OBVIOUS
<1>4. m - 1 \notin bad
  BY <1>2, <1>3
<1> QED
  BY <1>3, <1>4

\* What is computed from 0 to N, each value from the one before.
Runs(f, base, g, N) == f[0] = base /\ \A n \in 1 .. N : f[n] = g[<<n, f[n - 1]>>]

\* Such a computation exists.
LEMMA RunExists ==
  ASSUME NEW Acc, NEW base \in Acc, NEW N \in Nat, NEW g \in [(1 .. N) \X Acc -> Acc]
  PROVE  \E f \in [0 .. N -> Acc] : Runs(f, base, g, N)
<1> DEFINE Good(m) == \E f \in [0 .. m -> Acc] : Runs(f, base, g, m)
           P == {m \in 0 .. N : Good(m)}
<1>1. 0 \in P
  <2> DEFINE h == [n \in 0 .. 0 |-> base]
  <2>1. h \in [0 .. 0 -> Acc] /\ Runs(h, base, g, 0)
    BY DEF Runs
  <2> QED
    BY <2>1
<1>2. ASSUME NEW m \in 1 .. N, m - 1 \in P PROVE m \in P
  <2>1. PICK f \in [0 .. (m - 1) -> Acc] : Runs(f, base, g, m - 1)
    BY <1>2
  <2> DEFINE h == [n \in 0 .. m |-> IF n = m THEN g[<<m, f[m - 1]>>] ELSE f[n]]
  <2>2. m - 1 \in 0 .. (m - 1) /\ m \in 0 .. m
    OBVIOUS
  <2>3. f[m - 1] \in Acc /\ g[<<m, f[m - 1]>>] \in Acc
    BY <2>2
  <2>4. h \in [0 .. m -> Acc]
    BY <2>3
  <2>5. \A n \in 0 .. (m - 1) : h[n] = f[n]
    OBVIOUS
  <2>6. h[m] = g[<<m, h[m - 1]>>]
    <3>1. h[m - 1] = f[m - 1]
      BY <2>2, <2>5
    <3> QED
      BY <2>2, <3>1
  <2> HIDE DEF h
  <2>7. \A n \in 1 .. m : h[n] = g[<<n, h[n - 1]>>]
    <3> SUFFICES ASSUME NEW n \in 1 .. m, n # m PROVE h[n] = g[<<n, h[n - 1]>>]
      BY <2>6
    <3>1. n \in 1 .. (m - 1) /\ n \in 0 .. (m - 1) /\ n - 1 \in 0 .. (m - 1)
      OBVIOUS
    <3>2. h[n] = f[n] /\ h[n - 1] = f[n - 1] /\ f[n] = g[<<n, f[n - 1]>>]
      BY <2>1, <2>5, <3>1 DEF Runs
    <3> QED
      BY <3>2
  <2>8. h[0] = base
    BY <2>1, <2>5 DEF Runs
  <2> QED
    BY <2>4, <2>7, <2>8 DEF Runs
<1> HIDE DEF P
<1>3. N \in P
  BY <1>1, <1>2, CountUp
<1> QED
  BY <1>3 DEF P

\* One step of the bisection, given what it makes of shorter ranges.
Bisect(from, keys, key, len) ==
  [first \in 0..(Len(keys) - len) |->
     IF len = 0 THEN first
     ELSE LET half == len \div 2 IN
          IF keys[first + half + 1] < key THEN from[len - half - 1][first + half + 1]
          ELSE from[half][first]]

\* Both parts of a range that bisection leaves out or keeps are shorter than the range.
LEMMA Halves == \A len \in Nat \ {0} : /\ len \div 2 \in Nat /\ len \div 2 < len
                                     /\ len - (len \div 2) - 1 \in Nat
                                     /\ len - (len \div 2) - 1 < len
OBVIOUS

\* The recursive function of LowerBound exists, up to every length.
LEMMA Recursion ==
  ASSUME NEW keys, Len(keys) \in Nat, NEW key
  PROVE  \A m \in 0..Len(keys) : \E f : f = [len \in 0..m |-> Bisect(f, keys, key, len)]
<1> DEFINE N == Len(keys)
           Good(m) == \E f : f = [len \in 0..m |-> Bisect(f, keys, key, len)]
           bad == {m \in 0..N : ~Good(m)}
<1> HIDE DEF N
<1>1. SUFFICES ASSUME bad # {} PROVE FALSE
  BY DEF N
<1>2. PICK m \in bad : \A y \in bad : m <= y
  <2>1. bad \subseteq Nat
    BY DEF N
  <2> HIDE DEF bad
  <2> QED
    BY <1>1, <2>1, Least
<1>3. m \in 0..N /\ N \in Nat
  BY DEF N
<1>4. \E f : \A len \in 0..(m - 1) : f[len] = Bisect(f, keys, key, len)
  <2>1. CASE m = 0
    BY <2>1
  <2>2. CASE m # 0
    <3>1. m - 1 \in 0..N /\ ~(m <= m - 1)
      BY <1>3, <2>2
    <3>2. m - 1 \notin bad
      BY <1>2, <3>1
    <3>3. PICK f : f = [len \in 0..(m - 1) |-> Bisect(f, keys, key, len)]
      BY <3>1, <3>2
    <3> HIDE DEF Good, bad
    <3>4. \A len \in 0..(m - 1) : f[len] = Bisect(f, keys, key, len)
      BY <3>3
    <3> QED
      BY <3>4
  <2> QED
    BY <2>1, <2>2
<1>5. PICK f : \A len \in 0..(m - 1) : f[len] = Bisect(f, keys, key, len)
  BY <1>4
<1> DEFINE g == [len \in 0..m |-> Bisect(f, keys, key, len)]
<1>6. \A len \in 0..m : Bisect(g, keys, key, len) = Bisect(f, keys, key, len)
  <2> SUFFICES ASSUME NEW len \in 0..m
               PROVE  Bisect(g, keys, key, len) = Bisect(f, keys, key, len)
    OBVIOUS
  <2>1. \A k \in 0..(m - 1) : g[k] = f[k]
    BY <1>3, <1>5
  <2> HIDE DEF g
  <2>2. CASE len = 0
    BY <2>2 DEF Bisect
  <2>3. CASE len # 0
    <3>1. len \div 2 \in 0..(m - 1) /\ len - (len \div 2) - 1 \in 0..(m - 1)
      BY <1>3, <2>3, Halves
    <3>2. /\ g[len \div 2] = f[len \div 2]
          /\ g[len - (len \div 2) - 1] = f[len - (len \div 2) - 1]
      BY <2>1, <3>1
    <3> QED
      BY <3>2 DEF Bisect
  <2> QED
    BY <2>2, <2>3
<1>7. g = [len \in 0..m |-> Bisect(g, keys, key, len)]
  BY <1>6
<1>8. Good(m)
  <2> HIDE DEF g
  <2> QED
    BY <1>7
<1> QED
  BY <1>2, <1>3, <1>8

\* What LowerBound computes is one step of the bisection after the other.
LEMMA Unfold ==
  ASSUME NEW keys, Len(keys) \in Nat, NEW key
  PROVE  \E from : /\ \A len \in 0..Len(keys) : from[len] = Bisect(from, keys, key, len)
                   /\ LowerBound(keys, key) = from[Len(keys)][0] + 1
<1> DEFINE Eq(f) == f = [len \in 0..Len(keys) |-> Bisect(f, keys, key, len)]
           from == CHOOSE f : Eq(f)
<1>1. \E f : Eq(f)
  BY Recursion
<1>2. Eq(from)
  <2> HIDE DEF Eq
  <2> QED
    BY <1>1
<1>3. LowerBound(keys, key) = from[Len(keys)][0] + 1
  BY DEF LowerBound, Bisect
<1> HIDE DEF from
<1>4. \A len \in 0..Len(keys) : from[len] = Bisect(from, keys, key, len)
  BY <1>2
<1> QED
  BY <1>3, <1>4

\* In every sorted sequence, with repeated elements or none, std::lower_bound as the
\* look-ups of pins and frame buffers use it (BoardView.cpp) returns the first
\* element that is not below the key, or the end.
THEOREM LowerBoundIsRight ==
  ASSUME NEW keys, Len(keys) \in Nat, \A i \in 1..Len(keys) : keys[i] \in Nat, NEW key \in Nat,
         \A i, j \in 1..Len(keys) : i < j => keys[i] <= keys[j]
  PROVE  /\ LowerBound(keys, key) \in 1..(Len(keys) + 1)
         /\ \A i \in 1..Len(keys) : keys[i] < key <=> i < LowerBound(keys, key)
<1> DEFINE N == Len(keys)
<1>1. PICK from : /\ \A len \in 0..N : from[len] = Bisect(from, keys, key, len)
                  /\ LowerBound(keys, key) = from[N][0] + 1
  BY Unfold
<1> DEFINE Right(len) == \A first \in 0..(N - len) :
             (\A i \in 1..first : keys[i] < key) /\ (\A i \in (first + len + 1)..N : ~(keys[i] < key))
               => /\ from[len][first] \in 0..N
                  /\ \A i \in 1..N : keys[i] < key <=> i <= from[len][first]
           bad == {len \in 0..N : ~Right(len)}
<1> HIDE DEF N
<1>2. /\ N \in Nat /\ \A i \in 1..N : keys[i] \in Nat
      /\ \A i, j \in 1..N : i < j => keys[i] <= keys[j]
      /\ N = Len(keys)
  BY DEF N
<1>3. ASSUME bad # {} PROVE FALSE
  <2>1. bad \subseteq Nat
    BY <1>2
  <2>2. PICK len \in bad : \A y \in bad : len <= y
    <3> HIDE DEF bad
    <3> QED
      BY <1>3, <2>1, Least
  <2>3. len \in 0..N /\ ~Right(len) /\ \A l \in 0..N : l < len => Right(l)
    <3> HIDE DEF Right
    <3>1. len \in 0..N /\ ~Right(len)
      OBVIOUS
    <3>2. ASSUME NEW l \in 0..N, l < len PROVE Right(l)
      <4>1. ~(len <= l)
        BY <1>2, <3>1, <3>2
      <4> QED
        BY <2>2, <4>1
    <3> QED
      BY <3>1, <3>2
  <2> HIDE DEF bad
  <2>4. PICK first \in 0..(N - len) :
             /\ \A i \in 1..first : keys[i] < key
             /\ \A i \in (first + len + 1)..N : ~(keys[i] < key)
             /\ ~(/\ from[len][first] \in 0..N
                  /\ \A i \in 1..N : keys[i] < key <=> i <= from[len][first])
    BY <2>3
  <2> DEFINE half == len \div 2
  <2>5. from[len][first] = IF len = 0 THEN first
                           ELSE IF keys[first + half + 1] < key
                                THEN from[len - half - 1][first + half + 1]
                                ELSE from[half][first]
    <3>1. from[len] = Bisect(from, keys, key, len) /\ first \in 0..(Len(keys) - len)
      BY <1>1, <1>2, <2>3
    <3> QED
      BY <3>1 DEF Bisect
  <2>6. CASE len = 0
    BY <1>2, <2>4, <2>5, <2>6
  <2>7. CASE len # 0
    <3>1. /\ half \in Nat /\ half < len /\ len - half - 1 \in Nat /\ len - half - 1 < len
          /\ len \in Nat /\ first \in Nat /\ first + len <= N
      BY <1>2, <2>3, <2>4, <2>7, Halves
    <3> HIDE DEF half, Right
    <3>2. first + half + 1 \in 1..N
      BY <1>2, <3>1
    <3>3. CASE keys[first + half + 1] < key
      <4> DEFINE f == first + half + 1  l == len - half - 1
      <4>1. f \in 0..(N - l) /\ l \in 0..N /\ l < len /\ f + l + 1 = first + len + 1
        BY <1>2, <3>1
      <4>2. \A i \in 1..f : keys[i] < key
        <5> SUFFICES ASSUME NEW i \in 1..f, i # f PROVE keys[i] < key
          BY <3>3
        <5>1. i \in 1..N /\ f \in 1..N /\ i < f
          BY <1>2, <3>1
        <5>2. keys[i] <= keys[f] /\ keys[i] \in Nat /\ keys[f] \in Nat
          BY <1>2, <5>1
        <5> QED
          BY <3>3, <5>2
      <4>3. from[len][first] = from[l][f]
        BY <2>5, <2>7, <3>3
      <4> HIDE DEF f, l
      <4>4. Right(l)
        BY <2>3, <4>1
      <4>5. \A i \in (f + l + 1)..N : ~(keys[i] < key)
        BY <2>4, <4>1
      <4> QED
        BY <2>4, <4>1, <4>2, <4>3, <4>4, <4>5 DEF Right
    <3>4. CASE ~(keys[first + half + 1] < key)
      <4>1. first \in 0..(N - half) /\ half \in 0..N
        BY <1>2, <3>1
      <4>2. \A i \in (first + half + 1)..N : ~(keys[i] < key)
        <5> SUFFICES ASSUME NEW i \in (first + half + 1)..N, i # first + half + 1
                     PROVE  ~(keys[i] < key)
          BY <3>4
        <5> DEFINE f == first + half + 1
        <5>1. i \in 1..N /\ f \in 1..N /\ f < i
          BY <1>2, <3>1
        <5>2. keys[f] <= keys[i] /\ keys[i] \in Nat /\ keys[f] \in Nat
          BY <1>2, <5>1
        <5> QED
          BY <3>4, <5>2
      <4>3. from[len][first] = from[half][first]
        BY <2>5, <2>7, <3>4
      <4>4. Right(half)
        BY <2>3, <3>1, <4>1
      <4> QED
        BY <2>4, <4>1, <4>2, <4>3, <4>4 DEF Right
    <3> QED
      BY <3>3, <3>4
  <2> QED
    BY <2>6, <2>7
<1>4. Right(N)
  BY SMTT(40), <1>2, <1>3
<1>5. from[N][0] \in 0..N /\ \A i \in 1..N : keys[i] < key <=> i <= from[N][0]
  BY <1>2, <1>4
<1> QED
  BY <1>1, <1>2, <1>5
===============================================================================
