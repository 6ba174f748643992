----------------------------- MODULE SerialProofs -----------------------------
(***************************************************************************)
(* Proofs about HardwareSerial and EchoSketch, for any sizes of the        *)
(* buffers, any bytes and any bound on how many are written.  What holds   *)
(* of a text read from its front is proved by its least counterexample.    *)
(***************************************************************************)
EXTENDS EchoSketch, BisectionProofs, FiniteSetTheorems, SequenceTheorems, TLAPS

\* The number that a byte makes of the number before it.
Shifted(v, b) == IF b \in Digits THEN 10 * v + b - 48 ELSE v

\* Digits add up to a natural number.
LEMMA ShiftedIsNat == \A v \in Nat : \A b : Shifted(v, b) \in Nat
BY DEF Shifted, Digits

\* Spelt adds up the digits from the front.
LEMMA SpeltUnfolds ==
  ASSUME NEW s, Len(s) \in Nat
  PROVE  \E f \in [0 .. Len(s) -> Nat] :
           /\ f[0] = 0 /\ \A n \in 1 .. Len(s) : f[n] = Shifted(f[n - 1], s[n])
           /\ Spelt(s) = f[Len(s)]
<1> DEFINE N == Len(s)
           g == [p \in (1 .. N) \X Nat |-> Shifted(p[2], s[p[1]])]
           Eq(f) == f = [n \in 0 .. N |-> IF n = 0 THEN 0
                                          ELSE IF s[n] \in Digits THEN 10 * f[n - 1] + s[n] - 48
                                               ELSE f[n - 1]]
           from == CHOOSE f : Eq(f)
<1>1. \A v \in Nat : \A b : Shifted(v, b) \in Nat
  BY ShiftedIsNat
<1>2. g \in [(1 .. N) \X Nat -> Nat]
  BY <1>1
<1>3. \A n \in 1 .. N, v \in Nat : g[<<n, v>>] = Shifted(v, s[n])
  OBVIOUS
<1> HIDE DEF g
<1>4. PICK f \in [0 .. N -> Nat] : Runs(f, 0, g, N)
  BY <1>2, RunExists
<1>5. \A n \in 1 .. N : f[n - 1] \in Nat /\ f[n] = Shifted(f[n - 1], s[n])
  <2> SUFFICES ASSUME NEW n \in 1 .. N PROVE f[n - 1] \in Nat /\ f[n] = Shifted(f[n - 1], s[n])
    OBVIOUS
  <2>1. n - 1 \in 0 .. N
    OBVIOUS
  <2>2. f[n - 1] \in Nat
    BY <2>1
  <2> QED
    BY <2>2, <1>3, <1>4 DEF Runs
<1>6. Eq(f)
  <2>1. f[0] = 0
    BY <1>4 DEF Runs
  <2>2. \A n \in 1 .. N : f[n] = IF s[n] \in Digits THEN 10 * f[n - 1] + s[n] - 48 ELSE f[n - 1]
    BY <1>5 DEF Shifted
  <2> QED
    BY <2>1, <2>2
<1>7. Eq(from)
  <2> HIDE DEF Eq
  <2> QED
    BY <1>6
<1>8. Spelt(s) = from[N]
  BY DEF Spelt
<1> HIDE DEF from
<1>9. \A n \in 0 .. N : from[n] = f[n]
  <2>1. \A n \in 0 .. N :
          from[n] = IF n = 0 THEN 0
                    ELSE IF s[n] \in Digits THEN 10 * from[n - 1] + s[n] - 48 ELSE from[n - 1]
    BY <1>7
  <2>2. from[0] = f[0]
    BY <1>4, <2>1 DEF Runs
  <2>3. \A n \in 1 .. N : from[n] = Shifted(from[n - 1], s[n])
    BY <2>1 DEF Shifted
  <2>4. \A n \in 1 .. N : from[n - 1] = f[n - 1] => from[n] = f[n]
    BY <1>5, <2>3
  <2>5. N \in Nat
    OBVIOUS
  <2> DEFINE P == {n \in 0 .. N : from[n] = f[n]}
  <2>6. 0 \in P /\ \A n \in 1 .. N : n - 1 \in P => n \in P
    BY <2>2, <2>4
  <2> HIDE DEF P
  <2>7. \A n \in 0 .. N : n \in P
    BY <2>5, <2>6, CountUp
  <2> QED
    BY <2>7 DEF P
<1> QED
  BY <1>4, <1>5, <1>8, <1>9 DEF Runs

\* An empty text spells nothing.
LEMMA SpeltEmpty == Spelt(<<>>) = 0
<1>1. Len(<<>>) = 0
  OBVIOUS
<1> QED
  BY <1>1, SpeltUnfolds

\* A digit shifts the number before it by one place, another byte leaves it.
LEMMA SpeltAppend ==
  ASSUME NEW S, NEW s \in Seq(S), NEW b \in S
  PROVE  Spelt(s) \in Nat /\ Spelt(Append(s, b)) = Shifted(Spelt(s), b)
<1> DEFINE t == Append(s, b)
<1>1. /\ Len(s) \in Nat /\ Len(t) = Len(s) + 1 /\ t[Len(s) + 1] = b
      /\ \A n \in 1 .. Len(s) : t[n] = s[n]
  BY AppendProperties, LenProperties
<1> HIDE DEF t
<1>2. PICK f \in [0 .. Len(s) -> Nat] :
        /\ f[0] = 0 /\ \A n \in 1 .. Len(s) : f[n] = Shifted(f[n - 1], s[n])
        /\ Spelt(s) = f[Len(s)]
  BY <1>1, SpeltUnfolds
<1>3. PICK h \in [0 .. Len(t) -> Nat] :
        /\ h[0] = 0 /\ \A n \in 1 .. Len(t) : h[n] = Shifted(h[n - 1], t[n])
        /\ Spelt(t) = h[Len(t)]
  BY <1>1, SpeltUnfolds
<1>4. \A n \in 1 .. Len(s) : f[n - 1] = h[n - 1] => f[n] = h[n]
  BY <1>1, <1>2, <1>3
<1>5. \A n \in 0 .. Len(s) : f[n] = h[n]
  <2>1. Len(s) \in Nat /\ f[0] = h[0]
    BY <1>1, <1>2, <1>3
  <2> DEFINE P == {n \in 0 .. Len(s) : f[n] = h[n]}
  <2>2. 0 \in P /\ \A n \in 1 .. Len(s) : n - 1 \in P => n \in P
    BY <1>4, <2>1
  <2> HIDE DEF P
  <2>3. \A n \in 0 .. Len(s) : n \in P
    BY <2>1, <2>2, CountUp
  <2> QED
    BY <2>3 DEF P
<1>6. h[Len(s) + 1] = Shifted(h[Len(s)], b)
  BY <1>1, <1>3
<1> QED
  BY <1>1, <1>2, <1>3, <1>5, <1>6 DEF t

\* What readString() makes of one more byte.
Extended(t, b) == IF Keeps(b) THEN Append(t, b) ELSE t

\* Kept takes up the bytes from the front.
LEMMA KeptUnfolds ==
  ASSUME NEW S, NEW s \in Seq(S)
  PROVE  \E f \in [0 .. Len(s) -> Seq(S)] :
           /\ f[0] = <<>> /\ \A n \in 1 .. Len(s) : f[n] = Extended(f[n - 1], s[n])
           /\ Kept(s) = f[Len(s)]
<1> DEFINE N == Len(s)
           g == [p \in (1 .. N) \X Seq(S) |-> Extended(p[2], s[p[1]])]
           Eq(f) == f = [n \in 0 .. N |-> IF n = 0 THEN <<>>
                                          ELSE IF Keeps(s[n]) THEN Append(f[n - 1], s[n])
                                               ELSE f[n - 1]]
           from == CHOOSE f : Eq(f)
<1>1. N \in Nat /\ \A n \in 1 .. N : s[n] \in S
  BY LenProperties, ElementOfSeq
<1>2. \A t \in Seq(S), b \in S : Extended(t, b) \in Seq(S)
  BY AppendProperties DEF Extended
<1> HIDE DEF N
<1>3. g \in [(1 .. N) \X Seq(S) -> Seq(S)]
  BY <1>1, <1>2
<1>4. \A n \in 1 .. N, t \in Seq(S) : g[<<n, t>>] = Extended(t, s[n])
  OBVIOUS
<1> HIDE DEF g
<1>5. PICK f \in [0 .. N -> Seq(S)] : Runs(f, <<>>, g, N)
  <2>1. <<>> \in Seq(S)
    OBVIOUS
  <2> QED
    BY <1>1, <1>3, <2>1, RunExists
<1>6. \A n \in 1 .. N : f[n] = Extended(f[n - 1], s[n])
  <2> SUFFICES ASSUME NEW n \in 1 .. N PROVE f[n] = Extended(f[n - 1], s[n])
    OBVIOUS
  <2>1. n - 1 \in 0 .. N
    BY <1>1
  <2>2. f[n - 1] \in Seq(S)
    BY <2>1
  <2> QED
    BY <2>2, <1>4, <1>5 DEF Runs
<1>7. Eq(f)
  <2>1. f[0] = <<>>
    BY <1>5 DEF Runs
  <2>2. \A n \in 1 .. N : f[n] = IF Keeps(s[n]) THEN Append(f[n - 1], s[n]) ELSE f[n - 1]
    BY <1>6 DEF Extended
  <2>3. \A n \in 0 .. N : n = 0 \/ n \in 1 .. N
    BY <1>1
  <2>4. \A n \in 0 .. N : f[n] = IF n = 0 THEN <<>>
                                  ELSE IF Keeps(s[n]) THEN Append(f[n - 1], s[n]) ELSE f[n - 1]
    BY <2>1, <2>2, <2>3
  <2> QED
    BY <2>4
<1>8. Eq(from)
  <2> HIDE DEF Eq
  <2> QED
    BY <1>7
<1>9. Kept(s) = from[N]
  BY DEF Kept, N
<1> HIDE DEF from
<1>10. \A n \in 0 .. N : from[n] = f[n]
  <2>1. \A n \in 0 .. N :
          from[n] = IF n = 0 THEN <<>>
                    ELSE IF Keeps(s[n]) THEN Append(from[n - 1], s[n]) ELSE from[n - 1]
    BY <1>8
  <2>2. from[0] = f[0]
    BY <1>1, <1>5, <2>1 DEF Runs
  <2>3. \A n \in 1 .. N : from[n] = Extended(from[n - 1], s[n])
    BY <1>1, <2>1 DEF Extended
  <2>4. \A n \in 1 .. N : from[n - 1] = f[n - 1] => from[n] = f[n]
    BY <1>6, <2>3
  <2> DEFINE P == {n \in 0 .. N : from[n] = f[n]}
  <2>5. 0 \in P /\ \A n \in 1 .. N : n - 1 \in P => n \in P
    BY <1>1, <2>2, <2>4
  <2> HIDE DEF P
  <2>6. \A n \in 0 .. N : n \in P
    BY <1>1, <2>5, CountUp
  <2> QED
    BY <2>6 DEF P
<1>11. f[0] = <<>>
  BY <1>5 DEF Runs
<1> QED
  BY SMTT(40), <1>1, <1>6, <1>9, <1>10, <1>11 DEF N

\* Nothing is kept of an empty text, and what is kept is made of the text's bytes.
LEMMA KeptEmpty == Kept(<<>>) = <<>>
<1> DEFINE e == <<>>
<1>1. e \in Seq({0}) /\ Len(e) = 0
  OBVIOUS
<1> HIDE DEF e
<1>2. PICK f \in [0 .. Len(e) -> Seq({0})] : f[0] = <<>> /\ Kept(e) = f[Len(e)]
  <2>1. \E f \in [0 .. Len(e) -> Seq({0})] :
          /\ f[0] = <<>> /\ \A n \in 1 .. Len(e) : f[n] = Extended(f[n - 1], e[n])
          /\ Kept(e) = f[Len(e)]
    BY <1>1, KeptUnfolds
  <2> QED
    BY <2>1
<1> QED
  BY <1>1, <1>2 DEF e

\* A byte at the end of a text is kept at the end, or left out.
LEMMA KeptAppend ==
  ASSUME NEW S, NEW s \in Seq(S), NEW b \in S
  PROVE  Kept(s) \in Seq(S) /\ Kept(Append(s, b)) = Extended(Kept(s), b)
<1> DEFINE t == Append(s, b)
           N == Len(s)
<1>1. /\ N \in Nat /\ t \in Seq(S) /\ Len(t) = N + 1 /\ t[N + 1] = b
      /\ \A n \in 1 .. N : t[n] = s[n]
  BY AppendProperties, LenProperties
<1>2. PICK f \in [0 .. N -> Seq(S)] :
        /\ f[0] = <<>> /\ \A n \in 1 .. N : f[n] = Extended(f[n - 1], s[n])
        /\ Kept(s) = f[N]
  BY KeptUnfolds
<1> HIDE DEF t
<1>3. PICK h \in [0 .. Len(t) -> Seq(S)] :
        /\ h[0] = <<>> /\ \A n \in 1 .. Len(t) : h[n] = Extended(h[n - 1], t[n])
        /\ Kept(t) = h[Len(t)]
  BY <1>1, KeptUnfolds
<1> HIDE DEF N
<1>4. \A n \in 1 .. N : f[n - 1] = h[n - 1] => f[n] = h[n]
  BY <1>1, <1>2, <1>3
<1> DEFINE P == {n \in 0 .. N : f[n] = h[n]}
<1>5. 0 \in P /\ \A n \in 1 .. N : n - 1 \in P => n \in P
  BY <1>1, <1>2, <1>3, <1>4
<1> HIDE DEF P
<1>6. \A n \in 0 .. N : n \in P
  BY <1>1, <1>5, CountUp
<1>7. f[N] = h[N]
  BY <1>1, <1>6 DEF P
<1>8. h[N + 1] = Extended(h[N], b)
  BY <1>1, <1>3
<1>9. f[N] \in Seq(S)
  BY <1>1, <1>2
<1> QED
  BY <1>1, <1>2, <1>3, <1>7, <1>8, <1>9 DEF t

\* What is kept of the first byte and then of the rest is what is kept of the text.
LEMMA KeptHeadTail ==
  ASSUME NEW S, NEW s \in Seq(S), s # <<>>
  PROVE  Kept(s) = Extended(<<>>, Head(s)) \o Kept(Tail(s))
<1> DEFINE t == Tail(s)
           N == Len(t)
           k == Extended(<<>>, Head(s))
<1>1. /\ N \in Nat /\ t \in Seq(S) /\ Len(s) = N + 1 /\ Head(s) = s[1]
      /\ \A n \in 1 .. N : t[n] = s[n + 1] /\ t[n] \in S
  BY LenProperties, HeadTailProperties, ElementOfSeq
<1>2. PICK f \in [0 .. Len(s) -> Seq(S)] :
        /\ f[0] = <<>> /\ \A n \in 1 .. Len(s) : f[n] = Extended(f[n - 1], s[n])
        /\ Kept(s) = f[Len(s)]
  BY KeptUnfolds
<1> HIDE DEF t
<1>3. PICK h \in [0 .. N -> Seq(S)] :
        /\ h[0] = <<>> /\ \A n \in 1 .. N : h[n] = Extended(h[n - 1], t[n])
        /\ Kept(t) = h[N]
  BY <1>1, KeptUnfolds
<1> HIDE DEF N
<1>4. k \in Seq(S)
  BY HeadTailProperties, AppendProperties DEF Extended
<1>5. f[1] = k
  BY <1>1, <1>2
<1> HIDE DEF k
<1> DEFINE P == {n \in 0 .. N : f[n + 1] = k \o h[n]}
<1>6. 0 \in P
  <2>1. k \o <<>> = k
    BY <1>4, ConcatEmptySeq
  <2>2. 0 + 1 = 1 /\ 0 \in 0 .. N
    BY <1>1
  <2> QED
    BY <1>3, <1>5, <2>1, <2>2
<1>7. ASSUME NEW n \in 1 .. N, n - 1 \in P PROVE n \in P
  <2>1. n - 1 \in 0 .. N /\ n \in 1 .. Len(s) /\ n + 1 \in 1 .. Len(s)
    BY <1>1
  <2>2. f[n] = k \o h[n - 1]
    <3>1. f[(n - 1) + 1] = k \o h[n - 1]
      BY <1>7
    <3>2. (n - 1) + 1 = n
      BY <1>1
    <3> QED
      BY <3>1, <3>2
  <2>3. f[n + 1] = Extended(f[n], t[n]) /\ h[n] = Extended(h[n - 1], t[n])
    <3>1. (n + 1) - 1 = n
      BY <1>1
    <3>2. f[n + 1] = Extended(f[(n + 1) - 1], s[n + 1])
      BY <1>2, <2>1
    <3>3. t[n] = s[n + 1]
      BY <1>1
    <3> QED
      BY <1>3, <3>1, <3>2, <3>3
  <2>4. h[n - 1] \in Seq(S) /\ t[n] \in S
    BY <1>1, <2>1
  <2>5. Append(k \o h[n - 1], t[n]) = k \o Append(h[n - 1], t[n])
    <3> DEFINE u == h[n - 1]
               b == t[n]
    <3>1. u \in Seq(S) /\ b \in S
      BY <2>4
    <3> HIDE DEF u, b
    <3>2. k \o u \in Seq(S) /\ <<b>> \in Seq(S)
      BY <1>4, <3>1, ConcatProperties
    <3>3. Append(k \o u, b) = (k \o u) \o <<b>> /\ Append(u, b) = u \o <<b>>
      BY <3>1, <3>2, AppendIsConcat
    <3>4. (k \o u) \o <<b>> = k \o (u \o <<b>>)
      BY <1>4, <3>1, <3>2, ConcatAssociative
    <3>5. Append(k \o u, b) = k \o Append(u, b)
      BY <3>3, <3>4
    <3> QED
      BY <3>5 DEF u, b
  <2>6. f[n + 1] = k \o h[n]
    BY <2>2, <2>3, <2>5 DEF Extended
  <2> QED
    BY <2>1, <2>6
<1> HIDE DEF P
<1>8. \A n \in 1 .. N : n - 1 \in P => n \in P
  BY <1>7
<1>9. \A n \in 0 .. N : n \in P
  BY <1>1, <1>6, <1>8, CountUp
<1>10. f[N + 1] = k \o h[N]
  BY <1>1, <1>9 DEF P
<1> QED
  BY <1>1, <1>2, <1>3, <1>10 DEF k, t

\* The indices of a text with one more byte, and what stands there.
LEMMA AppendIndices ==
  ASSUME NEW S, NEW s \in Seq(S), NEW b \in S
  PROVE  /\ Len(s) \in Nat /\ DOMAIN s = 1 .. Len(s) /\ DOMAIN Append(s, b) = 1 .. Len(s) + 1
         /\ Append(s, b) \in Seq(S) /\ Append(s, b)[Len(s) + 1] = b
         /\ \A i \in 1 .. Len(s) : Append(s, b)[i] = s[i]
  BY AppendProperties, LenProperties

\* A byte is in the longer text if it was in the text or is the one appended.
LEMMA HasAppend ==
  ASSUME NEW S, NEW s \in Seq(S), NEW b \in S, NEW x
  PROVE  Has(Append(s, b), x) <=> Has(s, x) \/ b = x
<1> DEFINE t == Append(s, b)
           N == Len(s)
<1>1. /\ N \in Nat /\ DOMAIN s = 1 .. N /\ DOMAIN t = 1 .. N + 1
      /\ t[N + 1] = b /\ \A i \in 1 .. N : t[i] = s[i]
  BY AppendIndices
<1> HIDE DEF t, N
<1>2. Has(t, x) <=> \E i \in 1 .. N + 1 : t[i] = x
  BY <1>1 DEF Has
<1>3. 1 .. N + 1 = (1 .. N) \cup {N + 1}
  BY <1>1
<1>4. Has(t, x) <=> (\E i \in 1 .. N : s[i] = x) \/ b = x
  BY <1>1, <1>2, <1>3
<1> QED
  BY <1>1, <1>4 DEF t, Has

\* Where the digits after a point stand.
After(s) == {i \in DOMAIN s : s[i] \in Digits /\ \E j \in DOMAIN s : j < i /\ s[j] = Dot}

\* The places of a text: finite, and one more only for a digit after a point.
LEMMA AfterAppend ==
  ASSUME NEW S, NEW s \in Seq(S), NEW b \in S
  PROVE  /\ IsFiniteSet(After(s)) /\ Len(s) + 1 \notin After(s)
         /\ After(Append(s, b)) = IF b \in Digits /\ Has(s, Dot) THEN After(s) \cup {Len(s) + 1}
                                  ELSE After(s)
<1> DEFINE t == Append(s, b)
           N == Len(s)
<1>1. /\ N \in Nat /\ DOMAIN s = 1 .. N /\ DOMAIN t = 1 .. N + 1
      /\ t[N + 1] = b /\ \A i \in 1 .. N : t[i] = s[i]
  BY AppendIndices
<1> HIDE DEF t, N
<1>2. IsFiniteSet(1 .. N)
  BY <1>1, FS_Interval
<1>3. IsFiniteSet(After(s)) /\ N + 1 \notin After(s)
  BY <1>1, <1>2, FS_Subset DEF After
<1>4. \A i \in 1 .. N : i \in After(t) <=> i \in After(s)
  <2> SUFFICES ASSUME NEW i \in 1 .. N PROVE i \in After(t) <=> i \in After(s)
    OBVIOUS
  <2>1. (\E j \in 1 .. N + 1 : j < i /\ t[j] = Dot) <=> \E j \in 1 .. N : j < i /\ s[j] = Dot
    BY <1>1
  <2> QED
    BY <1>1, <2>1 DEF After
<1>5. N + 1 \in After(t) <=> b \in Digits /\ Has(s, Dot)
  <2>1. (\E j \in 1 .. N + 1 : j < N + 1 /\ t[j] = Dot) <=> \E j \in 1 .. N : s[j] = Dot
    BY <1>1
  <2> QED
    BY <1>1, <2>1 DEF After, Has
<1>6. After(t) \subseteq 1 .. N + 1 /\ After(s) \subseteq 1 .. N
  BY <1>1 DEF After
<1>7. After(t) = IF b \in Digits /\ Has(s, Dot) THEN After(s) \cup {N + 1} ELSE After(s)
  <2>1. \A i \in After(t) : i \in 1 .. N \/ i = N + 1
    BY <1>1, <1>6
  <2>2. CASE b \in Digits /\ Has(s, Dot)
    <3>1. \A i : i \in After(t) <=> i \in After(s) \cup {N + 1}
      BY <1>4, <1>5, <1>6, <2>1, <2>2
    <3> QED
      BY <2>2, <3>1
  <2>3. CASE ~(b \in Digits /\ Has(s, Dot))
    <3>1. \A i : i \in After(t) <=> i \in After(s)
      BY <1>4, <1>5, <1>6, <2>1, <2>3
    <3> QED
      BY <2>3, <3>1
  <2> QED
    BY <2>2, <2>3
<1> QED
  BY <1>3, <1>7 DEF t, N

\* How a byte at the end changes the places of a number that had no second point.
LEMMA PlacesAppend ==
  ASSUME NEW S, NEW s \in Seq(S), NEW b \in S
  PROVE  /\ Places(s) \in Int /\ Places(s) >= -1 /\ (Has(s, Dot) <=> Places(s) >= 0)
         /\ b = Dot /\ ~Has(s, Dot) => Places(Append(s, b)) = 0
         /\ b \in Digits => Places(Append(s, b)) = IF Places(s) >= 0 THEN Places(s) + 1 ELSE -1
         /\ b # Dot /\ b \notin Digits => Places(Append(s, b)) = Places(s)
<1> DEFINE t == Append(s, b)
<1>1. /\ IsFiniteSet(After(s)) /\ Len(s) + 1 \notin After(s)
      /\ After(t) = IF b \in Digits /\ Has(s, Dot) THEN After(s) \cup {Len(s) + 1} ELSE After(s)
      /\ Has(t, Dot) <=> Has(s, Dot) \/ b = Dot
  BY AfterAppend, HasAppend
<1> HIDE DEF t
<1>2. /\ Cardinality(After(s)) \in Nat
      /\ Cardinality(After(s) \cup {Len(s) + 1}) = Cardinality(After(s)) + 1
  BY <1>1, FS_CardinalityType, FS_AddElement
<1>3. /\ Places(s) = IF Has(s, Dot) THEN Cardinality(After(s)) ELSE -1
      /\ Places(t) = IF Has(t, Dot) THEN Cardinality(After(t)) ELSE -1
  BY DEF Places, After
<1>4. Dot \notin Digits
  BY DEF Dot, Digits
<1>5. Places(s) \in Int /\ Places(s) >= -1 /\ (Has(s, Dot) <=> Places(s) >= 0)
  BY <1>2, <1>3
<1>6. ASSUME ~Has(s, Dot) PROVE After(s) = {}
  BY <1>6 DEF After, Has
<1>7. ASSUME b = Dot, ~Has(s, Dot) PROVE Places(t) = 0
  <2>1. After(t) = {}
    BY <1>1, <1>4, <1>6, <1>7
  <2> QED
    BY <1>1, <1>3, <1>7, <2>1, FS_EmptySet
<1>8. ASSUME b \in Digits
      PROVE  Places(t) = IF Places(s) >= 0 THEN Places(s) + 1 ELSE -1
  <2>1. Has(t, Dot) <=> Has(s, Dot)
    BY <1>1, <1>4, <1>8
  <2> QED
    BY <1>1, <1>2, <1>3, <1>5, <1>8, <2>1
<1>9. ASSUME b # Dot, b \notin Digits PROVE Places(t) = Places(s)
  BY <1>1, <1>3, <1>9
<1> QED
  BY <1>5, <1>7, <1>8, <1>9 DEF t

\* An empty text has no place, no sign and no point.
LEMMA EmptyNumber ==
  /\ Places(<<>>) = -1 /\ IsNumber(<<>>) /\ \A x : ~Has(<<>>, x)
<1>1. DOMAIN <<>> = {}
  OBVIOUS
<1> QED
  BY <1>1 DEF Places, IsNumber, Has

\* A number stays one when a digit or an ignored byte, its first sign in front or its
\* first point follows.
LEMMA IsNumberAppend ==
  ASSUME NEW S, NEW s \in Seq(S), NEW b \in S, IsNumber(s),
         b = Minus => s = <<>>, b = Dot => ~Has(s, Dot)
  PROVE  IsNumber(Append(s, b))
<1> DEFINE t == Append(s, b)
           N == Len(s)
<1>1. /\ N \in Nat /\ DOMAIN s = 1 .. N /\ DOMAIN t = 1 .. N + 1
      /\ t[N + 1] = b /\ \A i \in 1 .. N : t[i] = s[i]
  BY AppendIndices
<1>2. s = <<>> => N = 0
  OBVIOUS
<1> HIDE DEF t, N
<1> SUFFICES ASSUME NEW i \in 1 .. N + 1, NEW j \in 1 .. N + 1
             PROVE  /\ t[j] = Minus => j = 1
                    /\ (t[i] = Dot /\ t[j] = Dot) => i = j
  BY <1>1 DEF IsNumber, t
<1>3. t[j] = Minus => j = 1
  BY <1>1, <1>2 DEF IsNumber
<1>4. ASSUME t[i] = Dot, t[j] = Dot PROVE i = j
  <2>1. CASE i \in 1 .. N /\ j \in 1 .. N
    BY <1>1, <1>4, <2>1 DEF IsNumber
  <2>2. CASE i = N + 1 /\ j \in 1 .. N
    BY <1>1, <1>4, <2>2 DEF Has
  <2>3. CASE j = N + 1 /\ i \in 1 .. N
    BY <1>1, <1>4, <2>3 DEF Has
  <2> QED
    BY <1>1, <2>1, <2>2, <2>3
<1> QED
  BY <1>3, <1>4

\* The sizes are natural numbers, and what the host writes are bytes.
LEMMA SerialConstants ==
  /\ RxMax \in Nat /\ TxMax \in Nat /\ MaxBytes \in Nat /\ Bytes \subseteq Byte
  /\ Texts \subseteq Seq(Byte) /\ Limits \subseteq Nat /\ CharSigned \in BOOLEAN
  /\ TimeOuts \subseteq BOOLEAN /\ LongMax \in Nat /\ Garbage \subseteq Int
BY SMT, SerialAssumption

\* What a byte reads as; one that does not read as negative reads as itself.
LEMMA AsIntOfByte ==
  ASSUME NEW b \in Byte
  PROVE  AsInt(b) \in AsInts /\ AsInt(b) \in Int /\ (AsInt(b) >= 0 => AsInt(b) = b)
BY SerialConstants DEF AsInt, AsInts, Byte

\* No function of Stream in progress.
LEMMA NoOpIsIdle == /\ NoOp \in Ops /\ NoOp.fn = "none" /\ NoOp.taken = <<>>
                    /\ NoOp.decimals = -1 /\ ~NoOp.late
BY SerialConstants DEF NoOp, Ops, Byte, AsInts

\* What a call that collects or parses nothing returns.
LEMMA ReturnsIsTyped ==
  ASSUME NEW call \in Calls, NEW value \in Int
  PROVE  /\ Returns(call, value) \in Rets /\ Returns(call, value).call = call
         /\ \A late \in BOOLEAN : /\ [Returns(call, value) EXCEPT !.late = late] \in Rets
                                  /\ [Returns(call, value) EXCEPT !.late = late].call = call
<1> DEFINE r == Returns(call, value)
<1>1. r = [call |-> call, value |-> value, decimals |-> -1, asked |-> 0, text |-> <<>>,
           taken |-> <<>>, late |-> FALSE]
  BY DEF Returns
<1>2. r \in Rets
  <2>1. <<>> \in Seq(Byte) /\ <<>> \in Seq(Bytes) /\ -1 \in Int /\ 0 \in Nat
    OBVIOUS
  <2> QED
    BY <1>1, <2>1 DEF Rets
<1>3. r.call = call
  BY <1>1
<1> HIDE DEF r
<1>4. ASSUME NEW late \in BOOLEAN
      PROVE  [r EXCEPT !.late = late] \in Rets /\ [r EXCEPT !.late = late].call = call
  BY <1>2, <1>3 DEF Rets
<1> QED
  BY <1>2, <1>3, <1>4 DEF r

\* A time-out, or none in this behaviour.
LEMMA LatesAreBoolean == Lates \subseteq BOOLEAN /\ ParseLates \subseteq BOOLEAN
BY DEF Lates, ParseLates

\* The queues are empty at first, and the channel is not active.
LEMMA SerialInit == Init => SerialInv
<1> SUFFICES ASSUME Init PROVE SerialInv
  OBVIOUS
<1>1. op = NoOp /\ ret = Returns("nothing", 0) /\ rx = <<>> /\ tx = <<>>
  BY DEF Init
<1>2. op \in Ops /\ ret \in Rets /\ ret.call = "nothing"
  <2>1. "nothing" \in Calls /\ 0 \in Int
    BY DEF Calls
  <2>2. ret \in Rets /\ ret.call = "nothing"
    BY <1>1, <2>1, ReturnsIsTyped, Zenon
  <2> QED
    BY <1>1, <2>2, NoOpIsIdle
<1>3. TypeOK
  <2>1. timely \in BOOLEAN
    BY DEF Init
  <2>2. rx \in Seq(Bytes) /\ Len(rx) = 0 /\ tx \in Seq(Byte) /\ Len(tx) = 0
    BY <1>1
  <2>3. active \in BOOLEAN /\ room = 0 /\ sent = 0 /\ got = 0
    BY DEF Init
  <2> QED
    BY <1>2, <2>1, <2>2, <2>3, SerialConstants DEF TypeOK
<1>4. RoomIsThere /\ BytesAreCounted
  BY <1>1, NoOpIsIdle, SerialConstants DEF Init, RoomIsThere, BytesAreCounted
<1>5. ParsesWhatItTook
  BY <1>1, NoOpIsIdle DEF ParsesWhatItTook
<1> QED
  BY <1>2, <1>3, <1>4, <1>5 DEF SerialInv, NumbersAreReadOnce, NumbersAreWellFormed

\* A step that neither is nor ends a parse keeps what is known of numbers.
LEMMA NoNumberStep ==
  ASSUME SerialInv, ret' = ret \/ ret'.call # "parse"
  PROVE  NumbersAreReadOnce' /\ NumbersAreWellFormed'
BY DEF SerialInv, NumbersAreReadOnce, NumbersAreWellFormed

\* Between two calls of the sketch, or when one that collects begins or goes on,
\* nothing is being parsed.
LEMMA NoParse ==
  ASSUME op'.fn \in {"none", "collect"}, op'.taken = <<>>, op'.decimals = -1
  PROVE  ParsesWhatItTook'
<1>1. Len(<<>>) = 0
  OBVIOUS
<1> QED
  BY <1>1 DEF ParsesWhatItTook

\* What is cut off the front of a sequence and the rest make up the sequence.
LEMMA TakeAndDrop ==
  ASSUME NEW S, NEW s \in Seq(S), NEW n \in Nat, n <= Len(s)
  PROVE  /\ SubSeq(s, 1, n) \in Seq(S)
         /\ SubSeq(s, n + 1, Len(s)) \in Seq(S)
         /\ Len(SubSeq(s, 1, n)) = n
         /\ Len(SubSeq(s, n + 1, Len(s))) = Len(s) - n
         /\ SubSeq(s, 1, n) \o SubSeq(s, n + 1, Len(s)) = s
<1>1. Len(s) \in Nat /\ \A i \in 1 .. Len(s) : s[i] \in S
  BY LenProperties, ElementOfSeq
<1>2. SubSeq(s, 1, n) \in Seq(S) /\ Len(SubSeq(s, 1, n)) = n
  <2>1. \A i \in 1 .. n : s[i] \in S
    BY <1>1
  <2> QED
    BY <1>1, <2>1, SubSeqProperties
<1>3. /\ SubSeq(s, n + 1, Len(s)) \in Seq(S)
      /\ Len(SubSeq(s, n + 1, Len(s))) = Len(s) - n
  <2>1. \A i \in n + 1 .. Len(s) : s[i] \in S
    BY <1>1
  <2> QED
    BY <1>1, <2>1, SubSeqProperties
<1>4. SubSeq(s, 1, n) \o SubSeq(s, n + 1, Len(s)) = SubSeq(s, 1, Len(s))
  <2>1. 1 \in 1 .. Len(s) + 1 /\ n \in 1 - 1 .. Len(s) /\ Len(s) \in n .. Len(s)
    BY <1>1
  <2> QED
    BY <2>1, ConcatAdjacentSubSeq
<1> QED
  BY <1>2, <1>3, <1>4, SubSeqFull

\* The host appends a byte to rx.
LEMMA HostWritesStep ==
  ASSUME SerialInv, NEW b \in Bytes, HostWrites(b)
  PROVE  SerialInv'
<1> USE DEF HostWrites
<1>1. /\ TypeOK /\ rx \in Seq(Bytes) /\ rx' = Append(rx, b) /\ Len(rx) \in Nat
      /\ sent \in Nat /\ Len(rx) < RxMax /\ sent < MaxBytes
  BY LenProperties, SerialConstants DEF SerialInv, TypeOK
<1>2. rx' \in Seq(Bytes) /\ Len(rx') = Len(rx) + 1
  BY <1>1, AppendProperties
<1>3. rx # <<>> => rx' # <<>> /\ Head(rx') = Head(rx)
  <2> SUFFICES ASSUME rx # <<>> PROVE rx' # <<>> /\ Head(rx') = Head(rx)
    OBVIOUS
  <2>1. Len(rx) > 0 /\ rx'[1] = rx[1]
    BY <1>1, AppendIndices, EmptySeq, LenProperties
  <2> QED
    BY <1>1, <1>2, <2>1
<1>4. TypeOK'
  BY <1>1, <1>2, SerialConstants DEF TypeOK
<1>5. RoomIsThere' /\ BytesAreCounted'
  BY <1>1, <1>2, SerialConstants DEF SerialInv, TypeOK, RoomIsThere, BytesAreCounted, Ops
<1>6. ParsesWhatItTook'
  <2>1. ParsesWhatItTook /\ op' = op /\ active' = active
    BY DEF SerialInv
  <2>2. rx # <<>> /\ op.c = AsInt(Head(rx)) => rx' # <<>> /\ op.c = AsInt(Head(rx'))
    BY <1>3
  <2>3. op'.fn = "digit" => /\ active' /\ rx' # <<>> /\ op'.c = AsInt(Head(rx'))
                            /\ op'.c \in Digits \cup {Minus, Dot, NoIgnoreChar}
                            /\ op'.c = Dot => op'.decimals = -1
                            /\ op'.c = Minus /\ ~op'.late => op'.taken = <<>>
    BY <2>1, <2>2 DEF ParsesWhatItTook
  <2>4. /\ op'.fn = "skip" => op'.taken = <<>> /\ op'.value = 0 /\ ~op'.negative /\ op'.decimals = -1
        /\ op'.decimals < Len(op'.taken) + (IF op'.late THEN 1 ELSE 0)
        /\ op'.fn \in {"digit", "more"} /\ ~op'.late =>
             /\ IsLong(op'.taken) => op'.value = Spelt(op'.taken)
             /\ op'.decimals = Places(op'.taken)
             /\ op'.negative <=> Has(op'.taken, Minus)
             /\ IsNumber(op'.taken)
    BY <2>1, ZenonT(60) DEF ParsesWhatItTook
  <2> QED
    BY <2>3, <2>4 DEF ParsesWhatItTook, AsInt
<1> QED
  BY <1>4, <1>5, <1>6, NoNumberStep DEF SerialInv

\* The host takes bytes out of tx.
LEMMA HostReadsStep ==
  ASSUME SerialInv, HostReads
  PROVE  SerialInv'
<1>1. PICK n \in 1 .. Len(tx) : got' = got + n /\ tx' = SubSeq(tx, n + 1, Len(tx))
  BY DEF HostReads
<1>2. TypeOK /\ tx \in Seq(Byte) /\ Len(tx) \in Nat /\ got \in Nat
  BY LenProperties, SerialConstants DEF SerialInv, TypeOK
<1>3. tx' \in Seq(Byte) /\ Len(tx') = Len(tx) - n
  <2>1. n \in Nat /\ n <= Len(tx)
    BY <1>2
  <2>2. /\ SubSeq(tx, n + 1, Len(tx)) \in Seq(Byte)
        /\ Len(SubSeq(tx, n + 1, Len(tx))) = Len(tx) - n
    BY <1>2, <2>1, TakeAndDrop
  <2> QED
    BY <1>1, <2>2
<1>4. RoomIsThere' /\ BytesAreCounted'
  <2>1. RoomIsThere /\ BytesAreCounted /\ room \in Nat /\ TxMax \in Nat /\ MaxBytes \in Nat
    BY <1>2, SerialConstants DEF SerialInv, TypeOK
  <2>2. active' = active /\ room' = room /\ rx' = rx /\ op' = op /\ sent' = sent
    BY DEF HostReads
  <2>3. RoomIsThere'
    BY <1>1, <1>2, <1>3, <2>1, <2>2 DEF RoomIsThere, Exists
  <2>4. got' + Len(tx') = got + Len(tx)
    <3>1. n \in Int /\ got \in Int /\ Len(tx) \in Int
      BY <1>2
    <3>2. got' = got + n /\ Len(tx') = Len(tx) - n
      BY <1>1, <1>3
    <3> QED
      BY <3>1, <3>2
  <2>5. got' + Len(tx') <= MaxBytes
    BY <2>1, <2>4 DEF BytesAreCounted
  <2>6. Len(rx') + Len(op'.taken) <= sent'
    BY <2>1, <2>2 DEF BytesAreCounted
  <2> QED
    BY <2>3, <2>5, <2>6 DEF BytesAreCounted
<1>5. TypeOK'
  <2>1. got' \in Nat /\ Len(tx') \in Nat /\ MaxBytes \in Nat /\ Len(tx') <= TxMax /\ TxMax \in Nat
    BY <1>1, <1>2, <1>3, SerialConstants DEF TypeOK
  <2>2. got' \in 0..MaxBytes
    BY <1>4, <2>1 DEF BytesAreCounted
  <2> QED
    BY <1>2, <1>3, <2>1, <2>2 DEF TypeOK, HostReads
<1>6. ParsesWhatItTook'
  BY DEF SerialInv, ParsesWhatItTook, AsInt, HostReads
<1> QED
  BY <1>4, <1>5, <1>6, NoNumberStep DEF SerialInv, HostReads

\* begin() and end(), and the calls that look only: available(), availableForWrite()
\* and peek().
LEMMA LookingStep ==
  ASSUME SerialInv, Begin \/ End \/ Available \/ AvailableForWrite \/ Peek
  PROVE  SerialInv'
<1>1. /\ TypeOK /\ op = NoOp /\ op' = op /\ rx' = rx /\ tx' = tx /\ timely' = timely
      /\ sent' = sent /\ got' = got
  BY DEF SerialInv, Begin, End, Available, AvailableForWrite, Peek, Free
<1>2. Len(rx) \in Nat /\ Len(tx) \in Nat /\ TxMax \in Nat /\ Len(tx) <= TxMax
  BY <1>1, LenProperties, SerialConstants DEF TypeOK
<1>3. ret' \in Rets /\ ret'.call # "parse"
  <2>1. CASE Begin
    BY <2>1, ReturnsIsTyped DEF Begin, Calls
  <2>2. CASE End
    BY <2>2, ReturnsIsTyped DEF End, Calls
  <2>3. CASE Available
    <3>1. PICK late \in BOOLEAN, n \in Int : ret' = [Returns("available", n) EXCEPT !.late = late]
      BY <1>2, <2>3, LatesAreBoolean DEF Available
    <3> QED
      BY <3>1, ReturnsIsTyped DEF Calls
  <2>4. CASE AvailableForWrite
    <3>1. PICK late \in BOOLEAN, n \in Int :
            ret' = [Returns("availableForWrite", n) EXCEPT !.late = late]
      BY <1>2, <2>4, LatesAreBoolean DEF AvailableForWrite, FreeSpace
    <3> QED
      BY <3>1, ReturnsIsTyped DEF Calls
  <2>5. CASE Peek
    <3>1. PICK late1 \in BOOLEAN, late2 \in BOOLEAN :
            ret' = [Returns("peek", Peeked(late1, late2)) EXCEPT !.late = late1 \/ late2]
      BY <2>5, LatesAreBoolean DEF Peek
    <3>2. Peeked(late1, late2) \in Int
      <4>1. rx # <<>> => Head(rx) \in Byte
        BY <1>1, HeadTailProperties, SerialConstants DEF TypeOK
      <4>2. rx # <<>> => AsInt(Head(rx)) \in Int
        BY <4>1, AsIntOfByte
      <4>3. \/ Peeked(late1, late2) = -1 \/ Peeked(late1, late2) = 0
            \/ rx # <<>> /\ Peeked(late1, late2) = AsInt(Head(rx))
        BY Zenon DEF Peeked
      <4> QED
        BY <4>2, <4>3
    <3> QED
      BY <3>1, <3>2, ReturnsIsTyped DEF Calls
  <2> QED
    BY <2>1, <2>2, <2>3, <2>4, <2>5
<1>4. RoomIsThere' /\ active' \in BOOLEAN /\ room' \in 0..TxMax
  <2>1. CASE Begin
    BY <1>1, <1>2, <2>1 DEF Begin, SerialInv, TypeOK, RoomIsThere, Exists
  <2>2. CASE End
    <3>1. active' \in BOOLEAN /\ ~active' /\ room' = 0
      BY <2>2, Zenon DEF End
    <3> QED
      BY <1>1, <1>2, <3>1 DEF RoomIsThere
  <2>3. CASE Available \/ Peek
    BY <1>1, <1>2, <2>3 DEF Available, Peek, SerialInv, TypeOK, RoomIsThere
  <2>4. CASE AvailableForWrite
    BY <1>1, <1>2, <2>4 DEF AvailableForWrite, FreeSpace, SerialInv, TypeOK, RoomIsThere
  <2> QED
    BY <2>1, <2>2, <2>3, <2>4
<1>5. TypeOK' /\ BytesAreCounted'
  BY <1>1, <1>3, <1>4 DEF SerialInv, TypeOK, BytesAreCounted
<1>6. ParsesWhatItTook'
  BY <1>1, NoOpIsIdle, NoParse
<1> QED
  BY <1>3, <1>4, <1>5, <1>6, NoNumberStep DEF SerialInv

\* What write() takes is what fits and no more, and nothing after a time-out.
LEMMA WrittenFits ==
  ASSUME TypeOK, RoomIsThere, NEW s \in Seq(Byte), NEW late \in BOOLEAN
  PROVE  /\ Written(s, late) \in Nat /\ Written(s, late) <= Len(s)
         /\ Written(s, late) <= TxMax - Len(tx)
         /\ ~late => Written(s, late) >= Smaller(Len(s), room)
<1>1. /\ Len(s) \in Nat /\ Len(tx) \in Nat /\ TxMax \in Nat /\ Len(tx) <= TxMax /\ room \in Nat
      /\ active \in BOOLEAN
  BY LenProperties, SerialConstants DEF TypeOK
<1>2. CASE ~active \/ late
  <2>1. Written(s, late) = 0
    BY <1>2 DEF Written
  <2>2. ~late => room = 0
    BY <1>2 DEF RoomIsThere
  <2> QED
    BY <1>1, <2>1, <2>2 DEF Smaller
<1>3. CASE active /\ ~late
  <2>1. Written(s, late) = Smaller(TxMax - Len(tx), Len(s))
    BY <1>3 DEF Written
  <2>2. room <= TxMax - Len(tx)
    BY <1>1 DEF RoomIsThere
  <2> QED
    BY <1>1, <2>1, <2>2 DEF Smaller
<1> QED
  BY <1>1, <1>2, <1>3

\* write() appends what fits to tx.
LEMMA WriteStep ==
  ASSUME SerialInv, NEW s \in Seq(Byte), Write(s)
  PROVE  /\ SerialInv'
         /\ (ret'.call = "write" /\ ~ret'.late) => ret'.value >= Smaller(ret'.asked, room)
         /\ \E w \in Nat : /\ w <= Len(s) /\ tx' = tx \o SubSeq(s, 1, w)
                           /\ ret'.value = w /\ ret'.asked = Len(s)
<1>1. /\ TypeOK /\ RoomIsThere /\ BytesAreCounted /\ op = NoOp /\ op' = op /\ rx' = rx
      /\ timely' = timely /\ sent' = sent /\ got' = got /\ active' = active
      /\ got + Len(tx) + Len(s) <= MaxBytes
  BY DEF SerialInv, Write, Free
<1>2. /\ Len(s) \in Nat /\ Len(tx) \in Nat /\ TxMax \in Nat /\ MaxBytes \in Nat /\ got \in Nat
      /\ tx \in Seq(Byte)
  BY <1>1, LenProperties, SerialConstants DEF TypeOK
<1>3. PICK late \in BOOLEAN : Writes(s, late)
  BY LatesAreBoolean DEF Write
<1> DEFINE w == Written(s, late)
<1>4. /\ w \in Nat /\ w <= Len(s) /\ w <= TxMax - Len(tx)
      /\ ~late => w >= Smaller(Len(s), room)
  BY <1>1, WrittenFits
<1>5. /\ tx' = tx \o SubSeq(s, 1, w) /\ room' = 0
      /\ ret' = [Returns("write", w) EXCEPT !.asked = Len(s), !.late = late]
  BY <1>3 DEF Writes
<1> HIDE DEF w
<1>6. /\ ret' \in Rets /\ ret'.call = "write" /\ ret'.value = w /\ ret'.asked = Len(s)
      /\ ret'.late = late
  <2>1. Returns("write", w) \in Rets /\ Returns("write", w).call = "write"
    BY <1>4, ReturnsIsTyped DEF Calls
  <2>2. Returns("write", w).value = w
    BY DEF Returns
  <2> QED
    BY <1>2, <1>5, <2>1, <2>2 DEF Rets
<1>7. /\ SubSeq(s, 1, w) \in Seq(Byte) /\ Len(SubSeq(s, 1, w)) = w
  BY <1>4, TakeAndDrop
<1>8. tx' \in Seq(Byte) /\ Len(tx') = Len(tx) + w
  BY <1>2, <1>5, <1>7, ConcatProperties
<1>9. TypeOK'
  <2>1. Len(tx') <= TxMax /\ room' \in 0..TxMax
    BY <1>2, <1>4, <1>5, <1>8
  <2> QED
    BY <1>1, <1>6, <1>8, <2>1 DEF TypeOK
<1>10. RoomIsThere'
  BY <1>1, <1>2, <1>4, <1>5, <1>8 DEF RoomIsThere, Exists
<1>11. BytesAreCounted'
  <2>1. got' + Len(tx') <= MaxBytes
    BY <1>1, <1>2, <1>4, <1>8
  <2> QED
    BY <1>1, <2>1 DEF BytesAreCounted
<1>12. ParsesWhatItTook'
  BY <1>1, NoOpIsIdle, NoParse
<1>13. SerialInv'
  BY <1>6, <1>9, <1>10, <1>11, <1>12, NoNumberStep DEF SerialInv
<1> QED
  BY <1>4, <1>5, <1>6, <1>13

\* What read() does: it takes the first byte out, or nothing when it returns -1, and
\* it may return a negative number for a byte that it took out.
LEMMA TakesStep ==
  ASSUME TypeOK, NEW late \in BOOLEAN, Takes(late)
  PROVE  /\ rx' \in Seq(Bytes) /\ Len(rx') \in Nat /\ Len(rx) \in Nat
         /\ Len(rx') <= Len(rx) /\ ReadValue(late) \in Int
         /\ \/ /\ ~Taken(late) /\ rx' = rx /\ ReadValue(late) = -1
            \/ /\ Taken(late) /\ rx # <<>> /\ rx' = Tail(rx) /\ Len(rx) = Len(rx') + 1
               /\ Head(rx) \in Bytes /\ Head(rx) \in Byte
               /\ ReadValue(late) = AsInt(Head(rx))
               /\ ReadValue(late) >= 0 => ReadValue(late) = Head(rx)
<1>1. rx \in Seq(Bytes) /\ Len(rx) \in Nat
  BY LenProperties DEF TypeOK
<1>2. CASE ~Taken(late)
  BY <1>1, <1>2 DEF Takes, ReadValue
<1>3. CASE Taken(late)
  <2>1. rx # <<>> /\ rx' = Tail(rx) /\ ReadValue(late) = AsInt(Head(rx))
    BY <1>3 DEF Takes, ReadValue, Taken
  <2>2. Tail(rx) \in Seq(Bytes) /\ Head(rx) \in Bytes /\ Len(Tail(rx)) = Len(rx) - 1
    BY <1>1, <2>1, HeadTailProperties
  <2>3. Head(rx) \in Byte
    BY <2>2, SerialConstants
  <2>4. AsInt(Head(rx)) \in Int /\ (AsInt(Head(rx)) >= 0 => AsInt(Head(rx)) = Head(rx))
    BY <2>3, AsIntOfByte
  <2>5. Len(rx') \in Nat /\ Len(rx) = Len(rx') + 1
    BY <1>1, <2>1, <2>2, LenProperties
  <2> QED
    BY <1>1, <1>3, <2>1, <2>2, <2>3, <2>4, <2>5
<1> QED
  BY <1>2, <1>3

\* read() outside of Stream's functions
LEMMA ReadStep ==
  ASSUME SerialInv, Read
  PROVE  SerialInv'
<1>1. PICK late \in BOOLEAN :
        Takes(late) /\ ret' = [Returns("read", ReadValue(late)) EXCEPT !.late = late]
  BY LatesAreBoolean DEF Read
<1>2. /\ TypeOK /\ RoomIsThere /\ BytesAreCounted /\ op = NoOp /\ op' = op /\ tx' = tx
      /\ timely' = timely /\ sent' = sent /\ got' = got /\ active' = active /\ room' = room
  BY DEF SerialInv, Read, Free
<1>3. /\ rx' \in Seq(Bytes) /\ Len(rx') \in Nat /\ Len(rx) \in Nat /\ Len(rx') <= Len(rx)
      /\ ReadValue(late) \in Int
  BY <1>1, <1>2, TakesStep
<1>4. ret' \in Rets /\ ret'.call # "parse"
  BY <1>1, <1>3, ReturnsIsTyped DEF Calls
<1>5. TypeOK'
  <2>1. RxMax \in Nat /\ Len(rx) <= RxMax
    BY <1>2, SerialConstants DEF TypeOK
  <2>2. Len(rx') <= RxMax
    BY <1>3, <2>1
  <2> QED
    BY <1>2, <1>3, <1>4, <2>2 DEF TypeOK
<1>6. RoomIsThere'
  BY <1>2 DEF RoomIsThere, Exists
<1>7. BytesAreCounted'
  <2>1. Len(op.taken) = 0 /\ sent \in Nat /\ MaxBytes \in Nat
    BY <1>2, NoOpIsIdle, SerialConstants DEF TypeOK
  <2>2. Len(rx) <= sent
    BY <1>2, <1>3, <2>1 DEF BytesAreCounted
  <2> QED
    BY <1>2, <1>3, <2>1, <2>2 DEF BytesAreCounted
<1>8. ParsesWhatItTook'
  BY <1>2, NoOpIsIdle, NoParse
<1> QED
  BY <1>4, <1>5, <1>6, <1>7, <1>8, NoNumberStep DEF SerialInv

\* One of Stream's functions begins.
LEMMA BeginStreamStep ==
  ASSUME SerialInv,
         \/ \E stop \in Bytes \cup {NoIgnoreChar}, limit \in Nat : BeginCollect(stop, limit)
         \/ \E mode \in {"all", "none", "white"}, float \in BOOLEAN : BeginParse(mode, float)
  PROVE  SerialInv'
<1>1. /\ TypeOK /\ RoomIsThere /\ BytesAreCounted /\ op = NoOp /\ rx' = rx /\ tx' = tx
      /\ timely' = timely /\ active' = active /\ ret' = ret /\ room' = room /\ sent' = sent
      /\ got' = got
  BY DEF SerialInv, BeginCollect, BeginParse, Free
<1>2. \/ \E stop \in Byte, limit \in Nat :
           op' = [NoOp EXCEPT !.fn = "collect", !.stop = stop, !.limit = limit]
      \/ \E mode \in {"all", "none", "white"}, float \in BOOLEAN :
           op' = [NoOp EXCEPT !.fn = "skip", !.mode = mode, !.float = float]
  <2>1. Bytes \cup {NoIgnoreChar} \subseteq Byte
    BY SerialConstants DEF NoIgnoreChar, Byte
  <2> QED
    BY <2>1 DEF BeginCollect, BeginParse
<1>3. /\ op' \in Ops /\ op'.taken = <<>> /\ op'.decimals = -1 /\ op'.fn \in {"collect", "skip"}
      /\ op'.value = 0 /\ ~op'.negative
  <2>1. NoOp.value = 0 /\ ~NoOp.negative
    BY DEF NoOp
  <2>2. CASE \E stop \in Byte, limit \in Nat :
               op' = [NoOp EXCEPT !.fn = "collect", !.stop = stop, !.limit = limit]
    BY <2>1, <2>2, NoOpIsIdle DEF Ops
  <2>3. CASE \E mode \in {"all", "none", "white"}, float \in BOOLEAN :
               op' = [NoOp EXCEPT !.fn = "skip", !.mode = mode, !.float = float]
    BY <2>1, <2>3, NoOpIsIdle DEF Ops
  <2> QED
    BY <1>2, <2>2, <2>3
<1>4. TypeOK' /\ RoomIsThere'
  BY <1>1, <1>3 DEF TypeOK, RoomIsThere, Exists
<1>5. BytesAreCounted'
  BY <1>1, <1>3, NoOpIsIdle DEF BytesAreCounted
<1>6. ParsesWhatItTook'
  <2>1. Len(<<>>) = 0
    OBVIOUS
  <2> QED
    BY <1>3, <2>1 DEF ParsesWhatItTook
<1> QED
  BY <1>1, <1>4, <1>5, <1>6, NoNumberStep DEF SerialInv

\* One step of a function that collects: it ends, or takes one more byte into its text.
LEMMA CollectCases ==
  ASSUME TypeOK, Collect
  PROVE  \/ EndsCollect /\ rx' = rx
         \/ /\ rx # <<>> /\ rx' = Tail(rx) /\ EndsCollect
            /\ AsInt(Head(rx)) < 0 \/ AsInt(Head(rx)) = AsInt(op.stop)
         \/ /\ rx # <<>> /\ rx' = Tail(rx) /\ ret' = ret
            /\ op' = [op EXCEPT !.text = Append(@, Head(rx))]
            /\ AsInt(Head(rx)) >= 0 /\ AsInt(Head(rx)) # AsInt(op.stop)
<1>1. CASE Len(op.text) = op.limit /\ EndsCollect /\ UNCHANGED rx
  BY <1>1
<1>2. ASSUME NEW late \in Lates, Takes(late),
             IF ReadValue(late) < 0 \/ ReadValue(late) = AsInt(op.stop) THEN EndsCollect
             ELSE /\ op' = [op EXCEPT !.text = Append(@, ReadValue(late) % 256)]
                  /\ UNCHANGED ret
      PROVE  \/ EndsCollect /\ rx' = rx
             \/ /\ rx # <<>> /\ rx' = Tail(rx) /\ EndsCollect
                /\ AsInt(Head(rx)) < 0 \/ AsInt(Head(rx)) = AsInt(op.stop)
             \/ /\ rx # <<>> /\ rx' = Tail(rx) /\ ret' = ret
                /\ op' = [op EXCEPT !.text = Append(@, Head(rx))]
                /\ AsInt(Head(rx)) >= 0 /\ AsInt(Head(rx)) # AsInt(op.stop)
  <2> DEFINE c == ReadValue(late)
  <2>1. late \in BOOLEAN
    BY LatesAreBoolean
  <2>2. CASE ~Taken(late) /\ rx' = rx /\ c = -1
    BY <1>2, <2>2
  <2>3. CASE /\ rx # <<>> /\ rx' = Tail(rx) /\ Head(rx) \in Byte /\ c = AsInt(Head(rx))
             /\ c >= 0 => c = Head(rx)
    <3>1. c \in Int /\ (c >= 0 => c % 256 = Head(rx))
      <4>1. \A x \in Byte : x % 256 = x
        BY DEF Byte
      <4>2. AsInt(Head(rx)) \in Int /\ (AsInt(Head(rx)) >= 0 => AsInt(Head(rx)) = Head(rx))
        BY <2>3, AsIntOfByte
      <4>3. c \in Int /\ (c >= 0 => c = Head(rx))
        BY <2>3, <4>2
      <4> HIDE DEF c
      <4> QED
        BY <2>3, <4>1, <4>3
    <3>2. CASE c < 0 \/ c = AsInt(op.stop)
      BY <1>2, <2>3, <3>2
    <3>3. CASE ~(c < 0 \/ c = AsInt(op.stop))
      <4>1. op' = [op EXCEPT !.text = Append(@, c % 256)] /\ ret' = ret
        BY <1>2, <3>3
      <4>2. c >= 0 /\ c % 256 = Head(rx)
        BY <3>1, <3>3
      <4> QED
        BY <2>3, <3>3, <4>1, <4>2
    <3> QED
      BY <3>2, <3>3
  <2> QED
    BY <1>2, <2>1, <2>2, <2>3, TakesStep
<1> QED
  BY <1>1, <1>2 DEF Collect

\* readString() and its kin, one byte at a time
LEMMA CollectStep ==
  ASSUME SerialInv, Collect
  PROVE  SerialInv'
<1>1. /\ TypeOK /\ RoomIsThere /\ BytesAreCounted /\ op.fn = "collect" /\ tx' = tx
      /\ timely' = timely /\ active' = active /\ room' = room /\ sent' = sent /\ got' = got
      /\ op \in Ops /\ ret \in Rets /\ rx \in Seq(Bytes) /\ MaxBytes \in Nat
  BY SerialConstants DEF SerialInv, TypeOK, Collect
<1>2. /\ Len(op.text) \in Nat /\ op.text \in Seq(Byte) /\ Len(op.taken) \in Nat
      /\ Len(rx) \in Nat
  BY <1>1, LenProperties DEF Ops
<1>3. EndsCollect => op' = NoOp /\ ret' \in Rets /\ ret'.call # "parse"
  <2>1. Returns("collect", Len(op.text)) \in Rets /\ Returns("collect", Len(op.text)).call = "collect"
    BY <1>2, ReturnsIsTyped DEF Calls
  <2> QED
    BY <1>2, <2>1 DEF EndsCollect, Rets
<1>4. /\ rx' \in Seq(Bytes) /\ Len(rx') \in Nat /\ Len(rx') <= Len(rx)
      /\ rx # <<>> => Head(rx) \in Byte
  <2>1. rx # <<>> => Tail(rx) \in Seq(Bytes) /\ Len(Tail(rx)) = Len(rx) - 1 /\ Head(rx) \in Bytes
    BY <1>1, HeadTailProperties
  <2>2. rx' = rx \/ (rx # <<>> /\ rx' = Tail(rx))
    BY <1>1, CollectCases
  <2>3. Len(rx') \in Nat
    BY <1>1, <2>1, <2>2, LenProperties
  <2> QED
    BY <1>1, <1>2, <2>1, <2>2, <2>3, SerialConstants
<1>5. \/ op' = NoOp /\ ret' \in Rets /\ ret'.call # "parse"
      \/ /\ rx # <<>> /\ ret' = ret /\ op' = [op EXCEPT !.text = Append(@, Head(rx))]
  BY <1>1, <1>3, CollectCases
<1>6. /\ op' \in Ops /\ ret' \in Rets /\ (ret' = ret \/ ret'.call # "parse")
      /\ Len(op'.taken) \in Nat /\ Len(op'.taken) <= Len(op.taken)
  <2>1. CASE op' = NoOp /\ ret' \in Rets /\ ret'.call # "parse"
    <3>1. Len(NoOp.taken) = 0
      BY NoOpIsIdle
    <3> QED
      BY <1>2, <2>1, <3>1, NoOpIsIdle
  <2>2. CASE rx # <<>> /\ ret' = ret /\ op' = [op EXCEPT !.text = Append(@, Head(rx))]
    <3>1. Append(op.text, Head(rx)) \in Seq(Byte)
      BY <1>2, <1>4, <2>2, AppendProperties
    <3>2. op' \in Ops
      BY <1>1, <2>2, <3>1 DEF Ops
    <3>3. op'.taken = op.taken
      BY <1>1, <2>2 DEF Ops
    <3> QED
      BY <1>1, <1>2, <2>2, <3>2, <3>3
  <2> QED
    BY <1>5, <2>1, <2>2
<1>7. TypeOK'
  <2>1. RxMax \in Nat /\ Len(rx) <= RxMax
    BY <1>1, SerialConstants DEF TypeOK
  <2>2. Len(rx') <= RxMax
    BY <1>2, <1>4, <2>1
  <2> QED
    BY <1>1, <1>4, <1>6, <2>2 DEF TypeOK
<1>8. RoomIsThere'
  BY <1>1 DEF RoomIsThere, Exists
<1>9. BytesAreCounted'
  <2>1. sent \in Nat
    BY <1>1 DEF TypeOK
  <2>2. Len(rx) + Len(op.taken) <= sent /\ got + Len(tx) <= MaxBytes
    BY <1>1 DEF BytesAreCounted
  <2>3. Len(rx') + Len(op'.taken) <= sent'
    BY <1>1, <1>2, <1>4, <1>6, <2>1, <2>2
  <2> QED
    BY <1>1, <2>2, <2>3 DEF BytesAreCounted
<1>10. ParsesWhatItTook'
  <2>1. CASE op' = NoOp
    BY <2>1, NoOpIsIdle, NoParse
  <2>2. CASE op' = [op EXCEPT !.text = Append(@, Head(rx))]
    <3>1. /\ op'.fn = "collect" /\ op'.taken = op.taken /\ op'.decimals = op.decimals
          /\ op'.late = op.late
      BY <1>1, <2>2 DEF Ops
    <3> QED
      BY <3>1 DEF SerialInv, ParsesWhatItTook
  <2> QED
    BY <1>5, <2>1, <2>2
<1> QED
  BY <1>6, <1>7, <1>8, <1>9, <1>10, NoNumberStep DEF SerialInv

\* What peek() returns: the byte in front, or -1, or NUL after a time-out.
LEMMA PeekedIs ==
  ASSUME TypeOK, NEW late1 \in BOOLEAN, NEW late2 \in BOOLEAN
  PROVE  \/ Peeked(late1, late2) = -1
         \/ Peeked(late1, late2) = 0
         \/ /\ active /\ rx # <<>> /\ ~late1 /\ ~late2 /\ Head(rx) \in Byte
            /\ Peeked(late1, late2) = AsInt(Head(rx))
            /\ Peeked(late1, late2) \in AsInts /\ Peeked(late1, late2) \in Int
            /\ Peeked(late1, late2) >= 0 => Peeked(late1, late2) = Head(rx)
<1>1. rx # <<>> => Head(rx) \in Byte
  <2>1. rx # <<>> => Head(rx) \in Bytes
    BY HeadTailProperties DEF TypeOK
  <2> QED
    BY <2>1, SerialConstants
<1>2. \/ Peeked(late1, late2) = -1
      \/ Peeked(late1, late2) = 0
      \/ /\ active /\ rx # <<>> /\ ~late1 /\ ~late2
         /\ Peeked(late1, late2) = AsInt(Head(rx))
  BY Zenon DEF Peeked, TypeOK
<1>3. rx # <<>> => /\ AsInt(Head(rx)) \in AsInts /\ AsInt(Head(rx)) \in Int
                   /\ AsInt(Head(rx)) >= 0 => AsInt(Head(rx)) = Head(rx)
  BY <1>1, AsIntOfByte
<1> QED
  BY <1>1, <1>2, <1>3

\* A function that ends its parse returns what it has parsed; it does so between two
\* turns of its loop, or before the first.
LEMMA EndsParseStep ==
  ASSUME SerialInv, NEW late \in BOOLEAN, op.fn \in {"skip", "more"}, EndsParse(late),
         UNCHANGED <<timely, rx, tx, active, room, sent, got>>
  PROVE  SerialInv'
<1>1. /\ TypeOK /\ RoomIsThere /\ BytesAreCounted /\ ParsesWhatItTook
      /\ op \in Ops /\ op.value \in Int /\ op.decimals \in Int /\ op.taken \in Seq(Bytes)
      /\ op.negative \in BOOLEAN /\ op.late \in BOOLEAN
  BY SerialConstants DEF SerialInv, TypeOK, Ops
<1> DEFINE v == IF op.negative THEN 0 - op.value ELSE op.value
<1>2. v \in Int
  BY <1>1
<1>3. /\ op' = NoOp
      /\ ret' = [Returns("parse", v) EXCEPT !.decimals = op.decimals, !.taken = op.taken,
                                            !.late = op.late \/ late]
  BY DEF EndsParse
<1> HIDE DEF v
<1>4. /\ ret' \in Rets /\ ret'.value = v /\ ret'.decimals = op.decimals
      /\ ret'.taken = op.taken /\ ret'.late = (op.late \/ late)
  <2>1. Returns("parse", v) \in Rets
    BY <1>2, ReturnsIsTyped DEF Calls
  <2>2. Returns("parse", v).value = v
    BY DEF Returns
  <2> QED
    BY <1>1, <1>3, <2>1, <2>2 DEF Rets
<1>5. ASSUME ~ret'.late
      PROVE  /\ IsLong(op.taken) => v = ReadOff(op.taken)
             /\ op.decimals = Places(op.taken)
             /\ IsNumber(op.taken)
  <2>1. ~op.late
    BY <1>4, <1>5, <1>1
  <2>2. CASE op.fn = "skip"
    <3>1. op.taken = <<>> /\ op.value = 0 /\ op.decimals = -1
      BY <1>1, <2>2 DEF ParsesWhatItTook
    <3>2. v = 0
      BY <3>1 DEF v
    <3> QED
      BY <3>1, <3>2, SpeltEmpty, EmptyNumber DEF ReadOff
  <2>3. CASE op.fn = "more"
    <3>1. /\ IsLong(op.taken) => op.value = Spelt(op.taken)
          /\ op.decimals = Places(op.taken)
          /\ op.negative <=> Has(op.taken, Minus)
          /\ IsNumber(op.taken)
      BY <1>1, <2>1, <2>3 DEF ParsesWhatItTook
    <3>2. IsLong(op.taken) =>
            v = IF Has(op.taken, Minus) THEN 0 - Spelt(op.taken) ELSE Spelt(op.taken)
      BY <3>1 DEF v
    <3> QED
      BY <3>1, <3>2 DEF ReadOff
  <2> QED
    BY <2>2, <2>3
<1>6. NumbersAreReadOnce' /\ NumbersAreWellFormed'
  BY <1>4, <1>5 DEF NumbersAreReadOnce, NumbersAreWellFormed
<1>7. TypeOK' /\ RoomIsThere'
  BY <1>1, <1>3, <1>4, NoOpIsIdle DEF TypeOK, RoomIsThere, Exists
<1>8. BytesAreCounted'
  <2>1. Len(op.taken) \in Nat /\ Len(op'.taken) = 0 /\ Len(rx) \in Nat /\ sent \in Nat
    BY <1>1, <1>3, NoOpIsIdle, LenProperties DEF TypeOK
  <2> QED
    BY <1>1, <2>1 DEF BytesAreCounted
<1>9. ParsesWhatItTook'
  BY <1>3, NoOpIsIdle, NoParse
<1> QED
  BY <1>6, <1>7, <1>8, <1>9 DEF SerialInv

\* A byte that a number is made of is in front of rx, and was peeked at in time.
LEMMA PeekedOfNumber ==
  ASSUME TypeOK, NEW late1 \in BOOLEAN, NEW late2 \in BOOLEAN,
         Peeked(late1, late2) \in Digits \cup {Minus, Dot, NoIgnoreChar}
  PROVE  /\ active /\ rx # <<>> /\ ~late1 /\ ~late2
         /\ Peeked(late1, late2) = AsInt(Head(rx)) /\ Peeked(late1, late2) \in AsInts
<1>1. Peeked(late1, late2) # -1 /\ Peeked(late1, late2) # 0
  BY DEF Digits, Minus, Dot, NoIgnoreChar
<1> QED
  BY <1>1, PeekedIs

\* peekNextDigit(), one byte at a time
LEMMA SkipStep ==
  ASSUME SerialInv, Skip
  PROVE  SerialInv'
<1>1. /\ TypeOK /\ RoomIsThere /\ BytesAreCounted /\ ParsesWhatItTook /\ op.fn = "skip"
      /\ tx' = tx /\ timely' = timely /\ active' = active /\ room' = room /\ sent' = sent
      /\ got' = got /\ op \in Ops /\ rx \in Seq(Bytes) /\ Len(rx) \in Nat /\ sent \in Nat
  BY LenProperties, SerialConstants DEF SerialInv, TypeOK, Skip
<1>2. op.taken = <<>> /\ op.value = 0 /\ ~op.negative /\ op.decimals = -1 /\ Len(op.taken) = 0
  BY <1>1 DEF ParsesWhatItTook
<1>3. PICK late1 \in BOOLEAN, late2 \in BOOLEAN, late3 \in BOOLEAN :
        \/ /\ StartsNumber(Peeked(late1, late2)) /\ rx' = rx /\ ret' = ret
           /\ op' = [op EXCEPT !.fn = "digit", !.c = Peeked(late1, late2),
                               !.late = @ \/ (late1 \/ late2)]
        \/ /\ Takes(late3) /\ ret' = ret
           /\ op' = [op EXCEPT !.late = @ \/ (late1 \/ late2) \/ late3]
        \/ EndsParse(late1 \/ late2) /\ rx' = rx
  <2> DEFINE Peeks(c, late, late3) ==
               CASE c >= 0 /\ StartsNumber(c) ->
                      /\ op' = [op EXCEPT !.fn = "digit", !.c = c, !.late = @ \/ late]
                      /\ UNCHANGED <<rx, ret>>
                 [] c >= 0 /\ ~StartsNumber(c) /\ Skipped(c) ->
                      /\ Takes(late3)
                      /\ op' = [op EXCEPT !.late = @ \/ late \/ late3]
                      /\ UNCHANGED ret
                 [] OTHER -> EndsParse(late) /\ UNCHANGED rx
  <2>1. PICK late1 \in ParseLates, late2 \in ParseLates, late3 \in ParseLates :
          Peeks(Peeked(late1, late2), late1 \/ late2, late3)
    BY DEF Skip
  <2>2. late1 \in BOOLEAN /\ late2 \in BOOLEAN /\ late3 \in BOOLEAN
    BY LatesAreBoolean
  <2> DEFINE c == Peeked(late1, late2)
             late == late1 \/ late2
  <2> HIDE DEF c, late
  <2>3. Peeks(c, late, late3)
    BY <2>1 DEF c, late
  <2>4. CASE c >= 0 /\ StartsNumber(c)
    BY <2>2, <2>3, <2>4 DEF c, late
  <2>5. CASE c >= 0 /\ ~StartsNumber(c) /\ Skipped(c)
    BY <2>2, <2>3, <2>5 DEF c, late
  <2>6. CASE ~(c >= 0 /\ StartsNumber(c)) /\ ~(c >= 0 /\ ~StartsNumber(c) /\ Skipped(c))
    BY <2>2, <2>3, <2>6 DEF c, late
  <2> QED
    BY <2>4, <2>5, <2>6
<1>4. CASE /\ StartsNumber(Peeked(late1, late2)) /\ rx' = rx /\ ret' = ret
           /\ op' = [op EXCEPT !.fn = "digit", !.c = Peeked(late1, late2),
                               !.late = @ \/ (late1 \/ late2)]
  <2> DEFINE c == Peeked(late1, late2)
  <2>1. c \in Digits \cup {Minus, Dot, NoIgnoreChar}
    BY <1>4 DEF StartsNumber
  <2>2. active /\ rx # <<>> /\ ~late1 /\ ~late2 /\ c = AsInt(Head(rx)) /\ c \in AsInts
    BY <1>1, <2>1, PeekedOfNumber
  <2> HIDE DEF c
  <2>3. op' = [op EXCEPT !.fn = "digit", !.c = c, !.late = @ \/ (late1 \/ late2)]
    BY <1>4 DEF c
  <2>4. /\ op' \in Ops /\ op'.fn = "digit" /\ op'.c = c /\ op'.taken = <<>> /\ op'.value = 0
        /\ ~op'.negative /\ op'.decimals = -1
    BY <1>1, <1>2, <2>2, <2>3 DEF Ops
  <2>5. TypeOK' /\ RoomIsThere'
    BY <1>1, <1>4, <2>4 DEF TypeOK, RoomIsThere, Exists
  <2>6. BytesAreCounted'
    BY <1>1, <1>2, <1>4, <2>4 DEF BytesAreCounted
  <2>7. ParsesWhatItTook'
    <3>1. Len(op'.taken) = 0
      BY <2>4
    <3>2. op'.value = Spelt(op'.taken) /\ op'.decimals = Places(op'.taken)
      BY <2>4, SpeltEmpty, EmptyNumber
    <3>3. (op'.negative <=> Has(op'.taken, Minus)) /\ IsNumber(op'.taken)
      BY <2>4, EmptyNumber
    <3>4. active' /\ rx' # <<>> /\ op'.c = AsInt(Head(rx'))
      BY <1>1, <1>4, <2>2, <2>4
    <3> QED
      BY <2>1, <2>4, <3>1, <3>2, <3>3, <3>4 DEF ParsesWhatItTook, AsInt
  <2> QED
    BY <1>4, <2>5, <2>6, <2>7, NoNumberStep DEF SerialInv
<1>5. CASE /\ Takes(late3) /\ ret' = ret
           /\ op' = [op EXCEPT !.late = @ \/ (late1 \/ late2) \/ late3]
  <2>1. rx' \in Seq(Bytes) /\ Len(rx') \in Nat /\ Len(rx') <= Len(rx)
    BY <1>1, <1>5, TakesStep
  <2>2. /\ op' \in Ops /\ op'.fn = "skip" /\ op'.taken = <<>> /\ op'.value = 0 /\ ~op'.negative
        /\ op'.decimals = -1
    BY <1>1, <1>2, <1>5 DEF Ops
  <2>3. TypeOK'
    <3>1. RxMax \in Nat /\ Len(rx) <= RxMax
      BY <1>1, SerialConstants DEF TypeOK
    <3>2. Len(rx') <= RxMax
      BY <1>1, <2>1, <3>1
    <3> QED
      BY <1>1, <1>5, <2>1, <2>2, <3>2 DEF TypeOK
  <2>4. RoomIsThere'
    BY <1>1 DEF RoomIsThere, Exists
  <2>5. BytesAreCounted'
    <3>1. Len(op'.taken) = 0 /\ Len(rx) <= sent
      BY <1>1, <1>2, <2>2 DEF BytesAreCounted
    <3>2. Len(rx') <= sent
      BY <1>1, <2>1, <3>1
    <3> QED
      BY <1>1, <2>1, <3>1, <3>2 DEF BytesAreCounted
  <2>6. ParsesWhatItTook'
    <3>1. Len(op'.taken) = 0
      BY <2>2
    <3> QED
      BY <2>2, <3>1 DEF ParsesWhatItTook
  <2> QED
    BY <1>5, <2>3, <2>4, <2>5, <2>6, NoNumberStep DEF SerialInv
<1>6. CASE EndsParse(late1 \/ late2) /\ rx' = rx
  BY <1>1, <1>6, EndsParseStep
<1> QED
  BY <1>3, <1>4, <1>5, <1>6

\* What the loop's body makes of the peeked byte, field by field.
LEMMA AccountFields ==
  ASSUME op \in Ops, op.c \in Digits \cup {Minus, Dot, NoIgnoreChar}, NEW sum
  PROVE  Account(op, sum) = [op EXCEPT !.value = IF op.c \in Digits THEN sum ELSE @,
                                       !.negative = @ \/ op.c = Minus,
                                       !.decimals = IF op.c = Dot THEN 0
                                                    ELSE IF op.c \in Digits /\ @ >= 0 THEN @ + 1 ELSE @]
<1>1. /\ Minus \notin Digits /\ Dot \notin Digits /\ NoIgnoreChar \notin Digits
      /\ Minus # Dot /\ Minus # NoIgnoreChar /\ Dot # NoIgnoreChar
  BY DEF Digits, Minus, Dot, NoIgnoreChar
<1>2. op.negative \in BOOLEAN
  BY DEF Ops
<1>3. CASE op.c = NoIgnoreChar
  BY <1>1, <1>2, <1>3 DEF Account, Ops
<1>4. CASE op.c = Minus
  BY <1>1, <1>2, <1>4 DEF Account, Ops
<1>5. CASE op.c = Dot
  BY <1>1, <1>2, <1>5 DEF Account, Ops
<1>6. CASE op.c \in Digits
  <2>1. op.c # NoIgnoreChar /\ op.c # Minus /\ op.c # Dot
    BY <1>1, <1>6
  <2>2. Account(op, sum) = [op EXCEPT !.value = sum, !.decimals = IF @ >= 0 THEN @ + 1 ELSE @]
    BY <1>6, <2>1 DEF Account
  <2>3. (op.negative \/ op.c = Minus) = op.negative
    BY <1>2, <2>1
  <2>4. op = [op EXCEPT !.negative = op.negative]
    BY DEF Ops
  <2> QED
    BY <1>6, <2>1, <2>2, <2>3, <2>4 DEF Ops
<1> QED
  BY <1>3, <1>4, <1>5, <1>6

\* The sum is a number and, if a long holds what the text with the byte spells, that.
LEMMA SumsOfText ==
  ASSUME NEW value \in Int, NEW c \in Digits, NEW sum \in Sums(value, c)
  PROVE  /\ sum \in Int
         /\ \A s \in Seq(Bytes) :
               IsLong(Append(s, c)) /\ c \in Bytes /\ (IsLong(s) => value = Spelt(s))
                   => sum = Spelt(Append(s, c))
<1>1. sum \in Int
  BY SerialConstants DEF Sums, Digits
<1>2. ASSUME NEW s \in Seq(Bytes), IsLong(Append(s, c)), c \in Bytes,
             IsLong(s) => value = Spelt(s)
      PROVE  sum = Spelt(Append(s, c))
  <2> DEFINE n == Spelt(s)
  <2>1. n \in Nat /\ Spelt(Append(s, c)) = 10 * n + c - 48
    BY <1>2, SpeltAppend DEF Shifted
  <2>2. LongMax \in Nat /\ c \in Int /\ c >= 48
    BY SerialConstants DEF Digits
  <2>3. Spelt(Append(s, c)) + 48 <= LongMax
    BY <1>2 DEF IsLong
  <2>4. IsLong(s) <=> n + 48 <= LongMax
    BY DEF IsLong
  <2> HIDE DEF n
  <2>5. 10 * n + c <= LongMax /\ n + 48 <= LongMax
    BY <2>1, <2>2, <2>3
  <2>6. value = n
    BY <1>2, <2>4, <2>5 DEF n
  <2>7. Fits(value, c)
    BY <2>1, <2>2, <2>5, <2>6 DEF Fits
  <2>8. sum = 10 * value + c - 48
    BY <2>7 DEF Sums
  <2> QED
    BY <2>1, <2>6, <2>8
<1> QED
  BY <1>1, <1>2

\* The body of parseInt()'s and parseFloat()'s loop
LEMMA DigitStep ==
  ASSUME SerialInv, Digit
  PROVE  SerialInv'
<1> DEFINE b == Head(rx)
<1>1. /\ TypeOK /\ RoomIsThere /\ BytesAreCounted /\ ParsesWhatItTook /\ op.fn = "digit"
      /\ tx' = tx /\ timely' = timely /\ active' = active /\ room' = room /\ sent' = sent
      /\ got' = got /\ ret' = ret /\ op \in Ops /\ rx \in Seq(Bytes) /\ Len(rx) \in Nat
      /\ sent \in Nat /\ MaxBytes \in Nat /\ sent <= MaxBytes
  BY LenProperties, SerialConstants DEF SerialInv, TypeOK, Digit
<1>2. /\ active /\ rx # <<>> /\ op.c = AsInt(b) /\ op.c \in Digits \cup {Minus, Dot, NoIgnoreChar}
      /\ op.c = Dot => op.decimals = -1
      /\ op.c = Minus /\ ~op.late => op.taken = <<>>
      /\ op.decimals < Len(op.taken) + (IF op.late THEN 1 ELSE 0)
  BY <1>1 DEF ParsesWhatItTook
<1>3. /\ op.taken \in Seq(Bytes) /\ Len(op.taken) \in Nat /\ op.decimals \in Int
      /\ op.decimals >= -1 /\ op.value \in Int /\ op.negative \in BOOLEAN /\ op.late \in BOOLEAN
  BY <1>1, LenProperties DEF Ops
<1>4. /\ b \in Bytes /\ b = op.c
  <2>1. b \in Bytes
    BY <1>1, <1>2, HeadTailProperties
  <2>2. b \in Byte
    BY <2>1, SerialConstants
  <2>3. op.c >= 0
    BY <1>2 DEF Digits, Minus, Dot, NoIgnoreChar
  <2> QED
    BY <1>2, <2>1, <2>2, <2>3, AsIntOfByte
<1>5. PICK late \in ParseLates, sum \in Sums(op.value, op.c) :
        /\ Takes(late)
        /\ op' = [Account(op, sum) EXCEPT !.fn = "more", !.late = @ \/ late,
                                          !.taken = IF Taken(late) THEN Append(@, b) ELSE @]
  BY DEF Digit
<1>6. late \in BOOLEAN /\ (op.late => ~late) /\ (Taken(late) <=> ~late)
  BY <1>1, <1>2, LatesAreBoolean, Zenon DEF ParseLates, Taken, TypeOK
<1> DEFINE decimals == IF op.c = Dot THEN 0
                       ELSE IF op.c \in Digits /\ op.decimals >= 0 THEN op.decimals + 1
                            ELSE op.decimals
           taken == IF Taken(late) THEN Append(op.taken, b) ELSE op.taken
           value == IF op.c \in Digits THEN sum ELSE op.value
<1>7. op' = [op EXCEPT !.value = value, !.negative = op.negative \/ op.c = Minus,
                       !.decimals = decimals, !.fn = "more", !.late = op.late \/ late,
                       !.taken = taken]
  <2> DEFINE negative == op.negative \/ op.c = Minus  late2 == op.late \/ late
  <2>1. Account(op, sum) = [op EXCEPT !.value = value, !.negative = negative,
                                      !.decimals = decimals]
    BY <1>1, <1>2, AccountFields
  <2> HIDE DEF value, negative, decimals
  <2>2. Account(op, sum).late = op.late /\ Account(op, sum).taken = op.taken
    BY <1>1, <2>1 DEF Ops
  <2>3. op' = [Account(op, sum) EXCEPT !.fn = "more", !.late = late2, !.taken = taken]
    BY <1>5, <2>2
  <2> HIDE DEF taken, late2
  <2>4. op' = [op EXCEPT !.value = value, !.negative = negative, !.decimals = decimals,
                         !.fn = "more", !.late = late2, !.taken = taken]
    BY <1>1, <2>1, <2>3 DEF Ops
  <2> QED
    BY <2>4 DEF negative, late2
<1>8. /\ taken \in Seq(Bytes) /\ Len(taken) \in Nat
      /\ \/ late /\ Len(taken) = Len(op.taken)
         \/ ~late /\ Len(taken) = Len(op.taken) + 1 /\ taken = Append(op.taken, b)
  <2>1. CASE late
    <3>1. taken = op.taken
      BY <1>6, <2>1
    <3> QED
      BY <1>3, <2>1, <3>1
  <2>2. CASE ~late
    <3>1. taken = Append(op.taken, b)
      BY <1>6, <2>2
    <3>2. taken \in Seq(Bytes) /\ Len(taken) = Len(op.taken) + 1
      BY <1>3, <1>4, <3>1, AppendProperties
    <3> QED
      BY <1>3, <2>2, <3>1, <3>2
  <2> QED
    BY <2>1, <2>2
<1>9. /\ rx' \in Seq(Bytes) /\ Len(rx') \in Nat /\ Len(rx) >= 1
      /\ \/ late /\ Len(rx') = Len(rx)
         \/ ~late /\ Len(rx') = Len(rx) - 1
  <2>1. Len(rx) # 0
    BY <1>1, <1>2, EmptySeq
  <2> QED
    BY <1>1, <1>5, <1>6, <2>1, TakesStep
<1> HIDE DEF taken, b
<1>10. /\ decimals \in Int /\ decimals >= -1 /\ decimals <= op.decimals + 1
  BY <1>3
<1> HIDE DEF decimals, value
<1>11. decimals < Len(taken) + (IF op.late \/ late THEN 1 ELSE 0)
  <2>1. CASE op.late
    <3>1. op.decimals < Len(op.taken) + 1 /\ ~late
      BY <1>2, <1>6, <2>1
    <3>2. decimals < Len(taken) + 1
      BY <1>3, <1>8, <1>10, <3>1
    <3> QED
      BY <2>1, <3>2
  <2>2. CASE ~op.late
    <3>1. op.decimals < Len(op.taken)
      BY <1>2, <1>3, <2>2
    <3>2. CASE late
      <4>1. decimals < Len(taken) + 1
        BY <1>3, <1>8, <1>10, <3>1
      <4> QED
        BY <3>2, <4>1
    <3>3. CASE ~late
      <4>1. decimals < Len(taken)
        BY <1>3, <1>8, <1>10, <3>1, <3>3
      <4> QED
        BY <1>8, <1>10, <2>2, <3>3, <4>1
    <3> QED
      BY <3>2, <3>3
  <2> QED
    BY <2>1, <2>2
<1>12. Len(rx) + Len(op.taken) <= sent
  BY <1>1 DEF BytesAreCounted
<1>13. decimals <= MaxBytes
  <2>1. op.decimals <= Len(op.taken)
    <3>1. CASE op.late
      <4>1. op.decimals < Len(op.taken) + 1
        BY <1>2, <3>1
      <4> QED
        BY <1>3, <4>1
    <3>2. CASE ~op.late
      <4>1. op.decimals < Len(op.taken) + 0
        BY <1>2, <3>2
      <4> QED
        BY <1>3, <4>1
    <3> QED
      BY <3>1, <3>2
  <2> QED
    BY <1>1, <1>3, <1>9, <1>10, <1>12, <2>1
<1>14. value \in Int
  BY <1>3, <1>5, SumsOfText DEF value
<1>15. /\ op' \in Ops /\ op'.fn = "more" /\ op'.taken = taken /\ op'.decimals = decimals
       /\ op'.value = value /\ op'.late = (op.late \/ late)
       /\ op'.negative = (op.negative \/ op.c = Minus)
  <2>1. /\ decimals \in -1 .. MaxBytes /\ (op.late \/ late) \in BOOLEAN
        /\ (op.negative \/ op.c = Minus) \in BOOLEAN
    BY <1>1, <1>10, <1>13
  <2> QED
    BY <1>1, <1>7, <1>8, <1>14, <2>1 DEF Ops
<1>16. TypeOK'
  <2>1. RxMax \in Nat /\ Len(rx) <= RxMax
    BY <1>1, SerialConstants DEF TypeOK
  <2>2. Len(rx') <= RxMax
    BY <1>1, <1>9, <2>1
  <2> QED
    BY <1>1, <1>9, <1>15, <2>2 DEF TypeOK
<1>17. RoomIsThere'
  BY <1>1 DEF RoomIsThere, Exists
<1>18. BytesAreCounted'
  <2>1. Len(rx') + Len(taken) = Len(rx) + Len(op.taken)
    <3>1. CASE late
      <4>1. Len(taken) = Len(op.taken) /\ Len(rx') = Len(rx)
        BY <1>8, <1>9, <3>1
      <4> QED
        BY <4>1
    <3>2. CASE ~late
      <4>1. Len(taken) = Len(op.taken) + 1 /\ Len(rx') = Len(rx) - 1
        BY <1>8, <1>9, <3>2
      <4> QED
        BY <1>1, <1>3, <4>1
    <3> QED
      BY <3>1, <3>2
  <2> QED
    BY <1>1, <1>12, <1>15, <2>1 DEF BytesAreCounted
<1>19. ASSUME ~(op.late \/ late)
       PROVE  /\ IsLong(taken) => value = Spelt(taken)
              /\ decimals = Places(taken)
              /\ (op.negative \/ op.c = Minus) <=> Has(taken, Minus)
              /\ IsNumber(taken)
  <2>1. taken = Append(op.taken, b)
    BY <1>8, <1>19
  <2>2. /\ IsLong(op.taken) => op.value = Spelt(op.taken)
        /\ op.decimals = Places(op.taken)
        /\ op.negative <=> Has(op.taken, Minus)
        /\ IsNumber(op.taken)
    BY <1>1, <1>19 DEF ParsesWhatItTook
  <2>3. IsLong(taken) => value = Spelt(taken)
    <3>1. CASE op.c \in Digits
      BY <1>3, <1>4, <1>5, <2>1, <2>2, <3>1, SumsOfText DEF value
    <3>2. CASE op.c \notin Digits
      <4>1. Spelt(taken) = Spelt(op.taken)
        BY <1>3, <1>4, <2>1, <3>2, SpeltAppend DEF Shifted
      <4> QED
        BY <2>2, <3>2, <4>1 DEF IsLong, value
    <3> QED
      BY <3>1, <3>2
  <2>4. (op.negative \/ op.c = Minus) <=> Has(taken, Minus)
    BY <1>3, <1>4, <2>1, <2>2, HasAppend
  <2>5. op.c = Dot => ~Has(op.taken, Dot)
    BY <1>2, <1>3, <1>4, <2>2, PlacesAppend
  <2>6. IsNumber(taken)
    BY <1>2, <1>3, <1>4, <1>19, <2>1, <2>2, <2>5, IsNumberAppend
  <2>7. decimals = Places(taken)
    <3>1. Dot \notin Digits
      BY DEF Dot, Digits
    <3>2. op.c = Dot => Places(taken) = 0
      BY <1>3, <1>4, <2>1, <2>5, PlacesAppend
    <3>3. op.c \in Digits =>
            Places(taken) = IF op.decimals >= 0 THEN op.decimals + 1 ELSE -1
      BY <1>3, <1>4, <2>1, <2>2, PlacesAppend
    <3>4. op.c # Dot /\ op.c \notin Digits => Places(taken) = op.decimals
      BY <1>3, <1>4, <2>1, <2>2, PlacesAppend
    <3> QED
      BY <1>3, <3>1, <3>2, <3>3, <3>4 DEF decimals
  <2> QED
    BY <2>3, <2>4, <2>6, <2>7
<1>20. ParsesWhatItTook'
  <2>1. op'.decimals < Len(op'.taken) + (IF op'.late THEN 1 ELSE 0)
    BY <1>11, <1>15
  <2>2. ~op'.late =>
          /\ IsLong(op'.taken) => op'.value = Spelt(op'.taken)
          /\ op'.decimals = Places(op'.taken)
          /\ op'.negative <=> Has(op'.taken, Minus)
          /\ IsNumber(op'.taken)
    BY <1>15, <1>19
  <2> QED
    BY <1>15, <2>1, <2>2 DEF ParsesWhatItTook
<1> QED
  BY <1>1, <1>16, <1>17, <1>18, <1>20, NoNumberStep DEF SerialInv

\* The condition of that loop
LEMMA MoreStep ==
  ASSUME SerialInv, More
  PROVE  SerialInv'
<1>1. /\ TypeOK /\ RoomIsThere /\ BytesAreCounted /\ ParsesWhatItTook /\ op.fn = "more"
      /\ rx' = rx /\ tx' = tx /\ timely' = timely /\ active' = active /\ room' = room
      /\ sent' = sent /\ got' = got /\ op \in Ops
  BY DEF SerialInv, TypeOK, More
<1>2. PICK late1 \in BOOLEAN, late2 \in BOOLEAN :
        \/ /\ GoesOn(Peeked(late1, late2)) /\ ret' = ret
           /\ op' = [op EXCEPT !.fn = "digit", !.c = Peeked(late1, late2),
                               !.late = @ \/ (late1 \/ late2)]
        \/ EndsParse(late1 \/ late2)
  BY LatesAreBoolean DEF More
<1>3. CASE EndsParse(late1 \/ late2)
  BY <1>1, <1>3, EndsParseStep
<1>4. CASE /\ GoesOn(Peeked(late1, late2)) /\ ret' = ret
           /\ op' = [op EXCEPT !.fn = "digit", !.c = Peeked(late1, late2),
                               !.late = @ \/ (late1 \/ late2)]
  <2> DEFINE c == Peeked(late1, late2)
  <2>1. c \in Digits \cup {Dot, NoIgnoreChar} /\ (c = Dot => op.decimals < 0)
    BY <1>4 DEF GoesOn, Digits, Dot, NoIgnoreChar
  <2>2. active /\ rx # <<>> /\ ~late1 /\ ~late2 /\ c = AsInt(Head(rx)) /\ c \in AsInts
    BY <1>1, <2>1, PeekedOfNumber
  <2>3. c # Minus
    BY <2>1 DEF Digits, Dot, NoIgnoreChar, Minus
  <2> HIDE DEF c
  <2>4. op' = [op EXCEPT !.fn = "digit", !.c = c, !.late = @ \/ (late1 \/ late2)]
    BY <1>4 DEF c
  <2>5. /\ op' \in Ops /\ op'.fn = "digit" /\ op'.c = c /\ op'.taken = op.taken
        /\ op'.value = op.value /\ op'.negative = op.negative /\ op'.decimals = op.decimals
        /\ op'.late = op.late
    BY <1>1, <2>2, <2>4 DEF Ops
  <2>6. TypeOK' /\ RoomIsThere' /\ BytesAreCounted'
    BY <1>1, <1>4, <2>5 DEF TypeOK, RoomIsThere, BytesAreCounted, Exists
  <2>7. c = Dot => op.decimals = -1
    BY <1>1, <2>1 DEF Ops
  <2>8. ParsesWhatItTook'
    <3>1. active' /\ rx' # <<>> /\ op'.c = AsInt(Head(rx'))
      BY <1>1, <2>2, <2>5
    <3>2. op'.c \in Digits \cup {Minus, Dot, NoIgnoreChar} /\ op'.c # Minus
      BY <2>1, <2>3, <2>5
    <3> QED
      BY <1>1, <2>5, <2>7, <3>1, <3>2 DEF ParsesWhatItTook, AsInt
  <2> QED
    BY <1>4, <2>6, <2>8, NoNumberStep DEF SerialInv
<1> QED
  BY <1>2, <1>3, <1>4

\* Every step of the host and of a sketch keeps the invariant.
LEMMA SerialStep ==
  ASSUME SerialInv, [Next]_vars
  PROVE  SerialInv'
<1>1. CASE UNCHANGED vars
  <2>1. TypeOK'
    BY <1>1 DEF vars, SerialInv, TypeOK
  <2>2. RoomIsThere' /\ BytesAreCounted'
    BY <1>1 DEF vars, SerialInv, RoomIsThere, BytesAreCounted, Exists
  <2>3. ParsesWhatItTook'
    BY <1>1 DEF vars, SerialInv, ParsesWhatItTook, AsInt
  <2>4. ret' = ret
    BY <1>1 DEF vars
  <2> QED
    BY <2>1, <2>2, <2>3, <2>4, NoNumberStep DEF SerialInv
<1>2. CASE Host
  BY <1>2, HostWritesStep, HostReadsStep DEF Host
<1>3. CASE Sketch
  <2>1. Limits \cup {NoLimit} \subseteq Nat
    BY SerialConstants DEF NoLimit
  <2>2. CASE \E s \in Texts : Write(s)
    BY <2>2, WriteStep, SerialConstants
  <2>3. CASE \E stop \in Bytes \cup {NoIgnoreChar}, limit \in Limits \cup {NoLimit} :
               BeginCollect(stop, limit)
    BY <2>1, <2>3, BeginStreamStep
  <2>4. CASE \E mode \in {"all", "none", "white"}, float \in BOOLEAN : BeginParse(mode, float)
    BY <2>4, BeginStreamStep
  <2> QED
    BY <1>3, <2>2, <2>3, <2>4, LookingStep, ReadStep, CollectStep, SkipStep, DigitStep, MoreStep
       DEF Sketch
<1> QED
  BY <1>1, <1>2, <1>3 DEF Next

\* What parseInt() and parseFloat() have added up without a time-out is a number and,
\* if a long holds it, the one that was sent, whatever the host writes while they run
\* and whatever an overflow leaves, for any buffer sizes.
THEOREM SerialIsRead == Spec => []SerialInv
<1>1. SerialInv /\ [Next]_vars => SerialInv'
  BY SerialStep
<1> QED
  BY <1>1, SerialInit, PTL DEF Spec

\* Only write() returns what a write returns.
LEMMA OnlyWriteWrites ==
  ASSUME SerialInv, [Next]_vars, ~(\E s \in Texts : Write(s)), ret' # ret
  PROVE  ret'.call # "write"
<1>1. \A call \in Calls, value \in Int, late \in BOOLEAN :
        [Returns(call, value) EXCEPT !.late = late].call = call
  BY ReturnsIsTyped
<1>2. TypeOK /\ RoomIsThere /\ op \in Ops /\ Len(tx) \in Nat /\ Len(rx) \in Nat /\ TxMax \in Nat
  BY LenProperties, SerialConstants DEF SerialInv, TypeOK
<1>3. CASE Begin \/ End
  BY <1>3, ReturnsIsTyped DEF Begin, End, Calls, Returns
<1>4. CASE Available
  BY <1>4 DEF Available, Returns
<1>5. CASE AvailableForWrite
  BY <1>5 DEF AvailableForWrite, Returns
<1>6. CASE Peek
  BY <1>6 DEF Peek, Returns
<1>7. CASE Read
  BY <1>7 DEF Read, Returns
<1>8. CASE Collect
  <2>1. EndsCollect
    BY <1>2, <1>8, CollectCases
  <2> QED
    BY <2>1 DEF EndsCollect, Returns
<1>9. CASE Skip \/ More
  <2>1. PICK late : EndsParse(late)
    BY <1>9, Zenon DEF Skip, More
  <2> QED
    BY <2>1 DEF EndsParse, Returns
<1> QED
  BY <1>3, <1>4, <1>5, <1>6, <1>7, <1>8, <1>9
     DEF Next, Host, Sketch, vars, HostWrites, HostReads, BeginCollect, BeginParse, Digit

\* After an availableForWrite() that could look, a write of no more is taken whole
\* unless it times out, whatever the host reads in between.
THEOREM WhatFitsIsWritten == Spec => WritesFit
<1> DEFINE WritesAll == (ret' # ret /\ ret'.call = "write" /\ ~ret'.late)
                          => ret'.value >= Smaller(ret'.asked, room)
<1>1. SerialInv /\ [Next]_vars => [WritesAll]_vars
  <2> SUFFICES ASSUME SerialInv, [Next]_vars PROVE WritesAll
    OBVIOUS
  <2>1. CASE \E s \in Texts : Write(s)
    BY <2>1, WriteStep, SerialConstants
  <2>2. CASE ~(\E s \in Texts : Write(s))
    BY <2>2, OnlyWriteWrites
  <2> QED
    BY <2>1, <2>2
<1> QED
  BY <1>1, SerialIsRead, PTL DEF Spec, WritesFit
-------------------------------------------------------------------------------
(* The echo of the UART test                                                *)

\* What was within the places of a text up to n is within those up to a later one,
\* also when the text grows.
LEMMA WithinMore ==
  ASSUME NEW s, NEW t, NEW u, NEW n \in Nat, NEW m \in Nat, n <= m, Within(s, t, n),
         \A i \in 1 .. n : u[i] = t[i]
  PROVE  Within(s, u, m)
<1>1. PICK f \in [DOMAIN s -> 1 .. n] : /\ \A i, j \in DOMAIN f : i < j => f[i] < f[j]
                                       /\ \A i \in DOMAIN f : s[i] = t[f[i]]
  BY DEF Within
<1>2. 1 .. n \subseteq 1 .. m
  OBVIOUS
<1>3. f \in [DOMAIN s -> 1 .. m]
  BY <1>2
<1>4. \A i \in DOMAIN f : s[i] = u[f[i]]
  BY <1>1
<1> QED
  BY <1>1, <1>3, <1>4 DEF Within

\* The element at the next place may follow.
LEMMA WithinAppend ==
  ASSUME NEW S, NEW s \in Seq(S), NEW b \in S, NEW t, NEW n \in Nat, Within(s, t, n), b = t[n + 1]
  PROVE  Within(Append(s, b), t, n + 1)
<1> DEFINE u == Append(s, b)
           N == Len(s)
<1>1. PICK f \in [DOMAIN s -> 1 .. n] : /\ \A i, j \in DOMAIN f : i < j => f[i] < f[j]
                                       /\ \A i \in DOMAIN f : s[i] = t[f[i]]
  BY DEF Within
<1>2. /\ N \in Nat /\ DOMAIN s = 1 .. N /\ DOMAIN u = 1 .. N + 1
      /\ u[N + 1] = b /\ \A i \in 1 .. N : u[i] = s[i]
  BY AppendIndices
<1> HIDE DEF u, N
<1> DEFINE g == [i \in 1 .. N + 1 |-> IF i = N + 1 THEN n + 1 ELSE f[i]]
<1>3. \A i \in 1 .. N : f[i] \in 1 .. n
  BY <1>2
<1>4. \A i \in 1 .. N + 1 : i = N + 1 \/ i \in 1 .. N
  BY <1>2
<1>5. g[N + 1] = n + 1 /\ \A i \in 1 .. N : g[i] = f[i]
  BY <1>2
<1>6. g \in [DOMAIN u -> 1 .. n + 1] /\ DOMAIN g = 1 .. N + 1
  BY <1>2, <1>3, <1>4
<1> HIDE DEF g
<1>7. ASSUME NEW i \in 1 .. N + 1, NEW j \in 1 .. N + 1, i < j PROVE g[i] < g[j]
  <2>1. i \in 1 .. N
    BY <1>2, <1>7
  <2>2. CASE j = N + 1
    BY <1>3, <1>5, <2>1, <2>2
  <2>3. CASE j \in 1 .. N
    BY <1>1, <1>2, <1>5, <1>7, <2>1, <2>3
  <2> QED
    BY <1>4, <2>2, <2>3
<1>8. ASSUME NEW i \in 1 .. N + 1 PROVE u[i] = t[g[i]]
  BY <1>1, <1>2, <1>4, <1>5
<1>9. Within(u, t, n + 1)
  BY <1>6, <1>7, <1>8 DEF Within
<1> QED
  BY <1>9 DEF u, N

\* The beginning of a text is within where the text is.
LEMMA WithinPrefix ==
  ASSUME NEW S, NEW p \in Seq(S), NEW q \in Seq(S), NEW t, NEW n \in Nat, Within(p \o q, t, n)
  PROVE  Within(p, t, n)
<1> DEFINE s == p \o q
<1>1. PICK f \in [DOMAIN s -> 1 .. n] : /\ \A i, j \in DOMAIN f : i < j => f[i] < f[j]
                                       /\ \A i \in DOMAIN f : s[i] = t[f[i]]
  BY DEF Within
<1>2. /\ Len(p) \in Nat /\ Len(q) \in Nat /\ s \in Seq(S) /\ Len(s) = Len(p) + Len(q)
      /\ DOMAIN p = 1 .. Len(p) /\ \A i \in 1 .. Len(p) : s[i] = p[i]
  BY ConcatProperties, LenProperties
<1>3. DOMAIN s = 1 .. Len(s)
  BY <1>2, LenProperties
<1> HIDE DEF s
<1>4. DOMAIN p \subseteq DOMAIN s
  BY <1>2, <1>3
<1> DEFINE g == [i \in DOMAIN p |-> f[i]]
<1>5. g \in [DOMAIN p -> 1 .. n] /\ DOMAIN g = DOMAIN p /\ \A i \in DOMAIN p : g[i] = f[i]
  BY <1>4
<1> HIDE DEF g
<1>6. \A i, j \in DOMAIN g : i < j => g[i] < g[j]
  BY <1>1, <1>4, <1>5
<1>7. \A i \in DOMAIN g : p[i] = t[g[i]]
  BY <1>1, <1>2, <1>4, <1>5
<1> QED
  BY <1>5, <1>6, <1>7 DEF Within

\* Nothing is within every text.
LEMMA WithinEmpty == \A t : \A n \in Nat : Within(<<>>, t, n)
<1> SUFFICES ASSUME NEW t, NEW n \in Nat PROVE Within(<<>>, t, n)
  OBVIOUS
<1>1. DOMAIN <<>> = {} /\ <<>> \in [{} -> 1 .. n]
  OBVIOUS
<1> QED
  BY <1>1 DEF Within

\* Before the sketch runs nothing was sent.
LEMMA EchoInitInv == EchoInit => SerialInv /\ EchoInv
<1> SUFFICES ASSUME EchoInit PROVE SerialInv /\ EchoInv
  OBVIOUS
<1>1. /\ rx = <<>> /\ tx = <<>> /\ input = <<>> /\ output = <<>> /\ line = "begin" /\ op = NoOp
      /\ short = FALSE
  BY DEF EchoInit, Init
<1>2. Len(<<>>) = 0 /\ <<>> \in Seq(Bytes) /\ <<>> \in Seq(Byte)
  OBVIOUS
<1>3. Echoed = <<>>
  <2>1. Held = <<>>
    BY <1>1 DEF Held
  <2>2. <<>> \o <<>> = <<>>
    OBVIOUS
  <2> QED
    BY <1>1, <2>1, <2>2 DEF Echoed
<1>4. LineOfCall
  BY <1>1 DEF LineOfCall
<1>5. RxIsTheEnd
  BY <1>1, <1>2 DEF RxIsTheEnd
<1>6. EchoIsFaithful
  <2>1. Len(input) - Len(rx) = 0
    BY <1>1, <1>2
  <2>2. Echoed \o Kept(rx) = Kept(input)
    BY <1>1, <1>3, KeptEmpty
  <2> QED
    BY <1>3, <2>1, <2>2, WithinEmpty DEF EchoIsFaithful
<1>7. SerialInv
  BY SerialInit DEF EchoInit
<1> QED
  BY <1>4, <1>5, <1>6, <1>7 DEF EchoInv

\* What is kept is a text of the same bytes.
LEMMA KeptIsText ==
  ASSUME NEW S, NEW s \in Seq(S)
  PROVE  Kept(s) \in Seq(S)
<1>1. PICK f \in [0 .. Len(s) -> Seq(S)] : Kept(s) = f[Len(s)]
  BY KeptUnfolds
<1>2. Len(s) \in 0 .. Len(s)
  BY LenProperties
<1> QED
  BY <1>1, <1>2

\* The texts an invariant state speaks of.
LEMMA EchoTexts ==
  ASSUME SerialInv, EchoInv
  PROVE  /\ rx \in Seq(Byte) /\ input \in Seq(Byte) /\ output \in Seq(Byte) /\ tx \in Seq(Byte)
         /\ rx \in Seq(Bytes) /\ input \in Seq(Bytes)
         /\ Held \in Seq(Byte) /\ Echoed \in Seq(Byte)
         /\ Kept(rx) \in Seq(Byte) /\ Kept(input) \in Seq(Byte)
         /\ Len(rx) \in Nat /\ Len(input) \in Nat /\ Len(input) - Len(rx) \in Nat
         /\ Echoed = (output \o tx) \o Held
         /\ op.text \in Seq(Byte) /\ ret.text \in Seq(Byte)
<1>1. /\ rx \in Seq(Bytes) /\ tx \in Seq(Byte) /\ op \in Ops /\ ret \in Rets
  BY DEF SerialInv, TypeOK
<1>2. input \in Seq(Bytes) /\ output \in Seq(Byte) /\ Len(rx) <= Len(input)
  BY DEF EchoInv, RxIsTheEnd
<1>3. rx \in Seq(Byte) /\ input \in Seq(Byte)
  BY <1>1, <1>2, SerialConstants
<1>4. op.text \in Seq(Byte) /\ ret.text \in Seq(Byte)
  BY <1>1 DEF Ops, Rets
<1>5. Held \in Seq(Byte)
  BY <1>4 DEF Held
<1>6. Echoed = (output \o tx) \o Held
  BY DEF Echoed
<1>7. output \o tx \in Seq(Byte)
  BY <1>1, <1>2, ConcatProperties
<1>8. Echoed \in Seq(Byte)
  BY <1>5, <1>6, <1>7, ConcatProperties
<1>9. Kept(rx) \in Seq(Byte) /\ Kept(input) \in Seq(Byte)
  BY <1>3, KeptIsText
<1>10. Len(rx) \in Nat /\ Len(input) \in Nat
  BY <1>3, LenProperties
<1>11. Len(input) - Len(rx) \in Nat
  BY <1>2, <1>10
<1> QED
  BY <1>1, <1>2, <1>3, <1>4, <1>5, <1>6, <1>8, <1>9, <1>10, <1>11

\* A step of the sketch that leaves rx alone and loses nothing it holds.
LEMMA SameEcho ==
  ASSUME SerialInv, EchoInv, LineOfCall', rx' = rx, input' = input, output' \in Seq(Byte),
         Echoed' = Echoed, short' = short
  PROVE  EchoInv'
<1>1. RxIsTheEnd'
  BY DEF EchoInv, RxIsTheEnd
<1>2. Len(input') - Len(rx') = Len(input) - Len(rx) /\ Kept(rx') = Kept(rx) /\ Kept(input') = Kept(input)
  OBVIOUS
<1>3. /\ Within(Echoed, input, Len(input) - Len(rx))
      /\ ~short => Echoed \o Kept(rx) = Kept(input)
  BY DEF EchoInv, EchoIsFaithful
<1>4. EchoIsFaithful'
  BY <1>2, <1>3 DEF EchoIsFaithful
<1> QED
  BY <1>1, <1>4 DEF EchoInv

\* The test writes a byte.
LEMMA TestSendsStep ==
  ASSUME SerialInv, EchoInv, NEW b \in Bytes, TestSends(b)
  PROVE  SerialInv' /\ EchoInv'
<1> DEFINE n == Len(input) - Len(rx)
<1>1. /\ rx' = Append(rx, b) /\ input' = Append(input, b) /\ output' = output /\ tx' = tx
      /\ op' = op /\ ret' = ret /\ line' = line /\ short' = short
  BY DEF TestSends, HostWrites
<1>2. /\ rx \in Seq(Bytes) /\ input \in Seq(Bytes) /\ rx \in Seq(Byte) /\ input \in Seq(Byte)
      /\ b \in Byte /\ output \in Seq(Byte) /\ Echoed \in Seq(Byte) /\ Kept(rx) \in Seq(Byte)
      /\ Len(rx) \in Nat /\ Len(input) \in Nat /\ n \in Nat /\ Len(rx) <= Len(input)
  BY EchoTexts, SerialConstants DEF EchoInv, RxIsTheEnd
<1>3. /\ input' \in Seq(Bytes) /\ Len(rx') = Len(rx) + 1 /\ Len(input') = Len(input) + 1
      /\ rx'[Len(rx) + 1] = b /\ input'[Len(input) + 1] = b
      /\ \A i \in 1 .. Len(rx) : rx'[i] = rx[i]
      /\ \A i \in 1 .. Len(input) : input'[i] = input[i]
  BY <1>1, <1>2, AppendProperties, AppendIndices
<1>4. Len(input') - Len(rx') = n
  BY <1>2, <1>3
<1>5. RxIsTheEnd'
  <2>1. ASSUME NEW i \in 1 .. Len(rx') PROVE rx'[i] = input'[n + i]
    <3>1. CASE i = Len(rx) + 1
      <4>1. n + i = Len(input) + 1
        BY <1>2, <3>1
      <4> QED
        BY <1>3, <3>1, <4>1
    <3>2. CASE i \in 1 .. Len(rx)
      <4>1. n + i \in 1 .. Len(input)
        BY <1>2, <3>2
      <4>2. rx[i] = input[n + i]
        BY <3>2 DEF EchoInv, RxIsTheEnd
      <4> QED
        BY <1>3, <3>2, <4>1, <4>2
    <3> QED
      BY <1>2, <1>3, <3>1, <3>2
  <2>2. Len(rx') <= Len(input') /\ short' \in BOOLEAN
    BY <1>1, <1>2, <1>3 DEF EchoInv, LineOfCall
  <2>3. \A i \in 1 .. Len(rx') : rx'[i] = input'[Len(input') - Len(rx') + i]
    BY <1>4, <2>1
  <2> QED
    BY <1>1, <1>2, <1>3, <2>2, <2>3 DEF RxIsTheEnd
<1>6. Echoed' = Echoed
  BY <1>1 DEF Echoed, Held
<1>7. Within(Echoed', input', Len(input') - Len(rx'))
  <2>1. Within(Echoed, input, n)
    BY DEF EchoInv, EchoIsFaithful
  <2>2. \A i \in 1 .. n : input'[i] = input[i]
    <3>1. \A i \in 1 .. n : i \in 1 .. Len(input)
      BY <1>2
    <3> HIDE DEF n
    <3> QED
      BY <1>3, <3>1
  <2> DEFINE e == Echoed
             u == input'
  <2> HIDE DEF n, e, u
  <2>3. n \in Nat /\ n <= n /\ Within(e, input, n) /\ \A i \in 1 .. n : u[i] = input[i]
    BY <1>2, <2>1, <2>2 DEF e, u
  <2>4. Within(e, u, n)
    BY <2>3, WithinMore
  <2>5. Within(Echoed, input', n)
    BY <2>4 DEF e, u
  <2> QED
    BY <1>4, <1>6, <2>5
<1>8. ~short => Echoed' \o Kept(rx') = Kept(input')
  <2> SUFFICES ASSUME ~short PROVE Echoed \o Kept(rx') = Kept(input')
    BY <1>6
  <2>1. Echoed \o Kept(rx) = Kept(input)
    BY DEF EchoInv, EchoIsFaithful
  <2>2. Kept(rx') = Extended(Kept(rx), b) /\ Kept(input') = Extended(Kept(input), b)
    BY <1>1, <1>2, KeptAppend
  <2> DEFINE e == Echoed
             k == Kept(rx)
  <2>3. e \in Seq(Byte) /\ k \in Seq(Byte) /\ <<b>> \in Seq(Byte)
    BY <1>2
  <2> HIDE DEF e, k
  <2>4. e \o Append(k, b) = Append(e \o k, b)
    <3>1. e \o k \in Seq(Byte)
      BY <2>3, ConcatProperties
    <3>2. Append(k, b) = k \o <<b>> /\ Append(e \o k, b) = (e \o k) \o <<b>>
      BY <1>2, <2>3, <3>1, AppendIsConcat
    <3>3. (e \o k) \o <<b>> = e \o (k \o <<b>>)
      BY <2>3, ConcatAssociative
    <3> QED
      BY <3>2, <3>3
  <2>5. e \o Extended(k, b) = Extended(e \o k, b)
    BY <2>4 DEF Extended
  <2> QED
    BY <2>1, <2>2, <2>5 DEF e, k
<1>9. LineOfCall'
  BY <1>1 DEF EchoInv, LineOfCall
<1>10. EchoIsFaithful'
  BY <1>1, <1>7, <1>8 DEF EchoIsFaithful
<1>11. SerialInv'
  BY HostWritesStep DEF TestSends
<1> QED
  BY <1>5, <1>9, <1>10, <1>11 DEF EchoInv

\* The test reads what tx holds, or the front of it.
LEMMA TestReceivesStep ==
  ASSUME SerialInv, EchoInv, TestReceives
  PROVE  SerialInv' /\ EchoInv'
<1>1. PICK n \in 1 .. Len(tx) : tx' = SubSeq(tx, n + 1, Len(tx))
  BY DEF TestReceives, HostReads
<1>2. /\ output' = output \o SubSeq(tx, 1, Len(tx) - Len(tx')) /\ line' = line /\ short' = short
      /\ input' = input /\ rx' = rx /\ op' = op /\ ret' = ret
  BY DEF TestReceives, HostReads
<1>3. /\ tx \in Seq(Byte) /\ output \in Seq(Byte) /\ Len(tx) \in Nat /\ Held \in Seq(Byte)
      /\ Echoed = (output \o tx) \o Held
  BY EchoTexts, LenProperties
<1>4. n \in Nat /\ n <= Len(tx)
  BY <1>3
<1> DEFINE a == SubSeq(tx, 1, n)
           z == SubSeq(tx, n + 1, Len(tx))
<1>5. a \in Seq(Byte) /\ z \in Seq(Byte) /\ Len(z) = Len(tx) - n /\ a \o z = tx
  BY <1>3, <1>4, TakeAndDrop
<1>6. tx' = z /\ output' = output \o a
  <2>1. Len(tx) - Len(z) = n
    BY <1>3, <1>4, <1>5
  <2> QED
    BY <1>1, <1>2, <2>1
<1> HIDE DEF a, z
<1>7. output' \o tx' = output \o tx
  <2>1. (output \o a) \o z = output \o (a \o z)
    <3>1. output \in Seq(Byte) /\ a \in Seq(Byte) /\ z \in Seq(Byte)
      BY <1>3, <1>5
    <3> QED
      BY <3>1, ConcatAssociative
  <2> QED
    BY <1>5, <1>6, <2>1
<1>8. Held' = Held
  BY <1>2 DEF Held
<1>9. Echoed' = Echoed
  BY <1>7, <1>8 DEF Echoed
<1>10. output' \in Seq(Byte)
  BY <1>3, <1>5, <1>6, ConcatProperties
<1>11. LineOfCall'
  BY <1>2 DEF EchoInv, LineOfCall
<1>12. SerialInv'
  BY HostReadsStep DEF TestReceives
<1> QED
  BY <1>2, <1>9, <1>10, <1>11, <1>12, SameEcho

\* The sketch between two texts: setup(), available() and the begin of readString()
LEMMA SketchWaitsStep ==
  ASSUME SerialInv, EchoInv, UNCHANGED <<input, output, short>>,
         \/ line = "begin" /\ Begin /\ line' = "available"
         \/ /\ line = "available" /\ Available
            /\ line' = IF ret'.value > 0 THEN "readString" ELSE "available"
         \/ line = "readString" /\ BeginCollect(NoIgnoreChar, NoLimit) /\ line' = "reading"
  PROVE  SerialInv' /\ EchoInv'
<1>1. /\ rx' = rx /\ tx' = tx /\ output' = output /\ input' = input /\ short' = short
  BY DEF Begin, Available, BeginCollect
<1>2. Held = <<>>
  BY DEF Held
<1>3. LineOfCall' /\ Held' = <<>>
  <2>1. CASE line = "readString" /\ BeginCollect(NoIgnoreChar, NoLimit) /\ line' = "reading"
    <3>1. op' = [NoOp EXCEPT !.fn = "collect", !.stop = NoIgnoreChar, !.limit = NoLimit]
      BY <2>1 DEF BeginCollect
    <3>2. /\ op'.fn = "collect" /\ op'.stop = NoIgnoreChar /\ op'.limit = NoLimit
          /\ op'.text = <<>>
      BY <3>1 DEF NoOp
    <3> QED
      BY <1>1, <2>1, <3>2 DEF EchoInv, LineOfCall, Held
  <2>2. CASE line \in {"begin", "available"} /\ line' \in {"available", "readString"} /\ op' = op
    BY <1>1, <2>2 DEF EchoInv, LineOfCall, Held
  <2> QED
    BY <2>1, <2>2 DEF Begin, Available
<1>4. Echoed' = Echoed /\ output' \in Seq(Byte)
  BY <1>1, <1>2, <1>3, EchoTexts DEF Echoed
<1>5. SerialInv'
  <2>1. NoLimit \in Nat
    BY SerialConstants DEF NoLimit
  <2> QED
    BY <2>1, LookingStep, BeginStreamStep
<1> QED
  BY <1>1, <1>3, <1>4, <1>5, SameEcho

\* readString() takes out one byte or ends; what it leaves out cannot be kept.
LEMMA SketchReadsStep ==
  ASSUME SerialInv, EchoInv, UNCHANGED <<input, output, short>>, line = "reading", Collect,
         line' = IF op'.fn = "none" THEN "print" ELSE "reading"
  PROVE  SerialInv' /\ EchoInv'
<1> DEFINE n == Len(input) - Len(rx)
           b == Head(rx)
<1>1. SerialInv' /\ TypeOK
  BY CollectStep DEF SerialInv
<1>2. /\ output' = output /\ input' = input /\ short' = short /\ tx' = tx
      /\ op.fn = "collect" /\ op.stop = NoIgnoreChar /\ op.limit = NoLimit /\ op \in Ops
      /\ short \in BOOLEAN /\ Len(rx) <= Len(input)
  BY <1>1 DEF EchoInv, LineOfCall, RxIsTheEnd, Collect, TypeOK
<1>3. /\ rx \in Seq(Bytes) /\ rx \in Seq(Byte) /\ input \in Seq(Bytes) /\ output \in Seq(Byte)
      /\ tx \in Seq(Byte) /\ Echoed \in Seq(Byte) /\ Kept(rx) \in Seq(Byte) /\ n \in Nat
      /\ Len(rx) \in Nat /\ Len(input) \in Nat /\ op.text \in Seq(Byte)
  BY EchoTexts
<1>4. Held = op.text
  BY DEF Held
<1>5. ASSUME EndsCollect
      PROVE  LineOfCall' /\ Echoed' = Echoed
  <2>1. op' = NoOp /\ ret'.text = op.text
    BY <1>5 DEF EndsCollect, Returns
  <2>2. line' = "print"
    BY <2>1, NoOpIsIdle
  <2>3. Held' = op.text
    BY <2>1, <2>2 DEF Held
  <2>4. LineOfCall'
    BY <1>2, <2>1, <2>2 DEF LineOfCall
  <2> QED
    BY <1>2, <1>4, <2>3, <2>4 DEF Echoed
<1>6. ASSUME rx # <<>>, rx' = Tail(rx)
      PROVE  /\ RxIsTheEnd' /\ Len(input') - Len(rx') = n + 1 /\ b = input[n + 1] /\ b \in Byte
             /\ Kept(rx) = Extended(<<>>, b) \o Kept(rx') /\ Kept(rx') \in Seq(Byte)
  <2>1. /\ rx' \in Seq(Bytes) /\ Len(rx') = Len(rx) - 1 /\ b = rx[1] /\ b \in Byte /\ Len(rx) # 0
        /\ \A i \in 1 .. Len(rx') : rx'[i] = rx[i + 1]
    BY <1>3, <1>6, HeadTailProperties, EmptySeq
  <2>2. Len(input') - Len(rx') = n + 1
    BY <1>2, <1>3, <2>1
  <2>3. b = input[n + 1]
    <3>1. 1 \in 1 .. Len(rx)
      BY <1>3, <2>1
    <3> QED
      BY <2>1, <3>1 DEF EchoInv, RxIsTheEnd
  <2>4. ASSUME NEW i \in 1 .. Len(rx') PROVE rx'[i] = input[(n + 1) + i]
    <3>1. i + 1 \in 1 .. Len(rx) /\ n + (i + 1) = (n + 1) + i
      BY <1>3, <2>1
    <3>2. rx[i + 1] = input[n + (i + 1)]
      BY <3>1 DEF EchoInv, RxIsTheEnd
    <3> QED
      BY <2>1, <3>1, <3>2
  <2>5. Len(rx') <= Len(input')
    BY <1>2, <1>3, <2>1
  <2> HIDE DEF n
  <2>6. \A i \in 1 .. Len(rx') : rx'[i] = input'[Len(input') - Len(rx') + i]
    BY <1>2, <2>2, <2>4
  <2>7. RxIsTheEnd'
    BY <1>2, <1>3, <2>1, <2>5, <2>6 DEF RxIsTheEnd
  <2>8. Kept(rx) = Extended(<<>>, b) \o Kept(rx')
    BY <1>3, <1>6, KeptHeadTail
  <2>9. Kept(rx') \in Seq(Byte)
    <3>1. rx' \in Seq(Byte)
      BY <2>1, SerialConstants
    <3> QED
      BY <3>1, KeptIsText
  <2> QED
    BY <2>1, <2>2, <2>3, <2>7, <2>8, <2>9
<1> HIDE DEF n, b
<1>7. /\ Within(Echoed, input, n)
      /\ ~short => Echoed \o Kept(rx) = Kept(input)
  BY DEF EchoInv, EchoIsFaithful, n
<1>8. CASE EndsCollect /\ rx' = rx
  BY <1>1, <1>2, <1>3, <1>5, <1>8, SameEcho
<1>9. CASE /\ rx # <<>> /\ rx' = Tail(rx) /\ EndsCollect
           /\ AsInt(b) < 0 \/ AsInt(b) = AsInt(op.stop)
  <2>1. ~Keeps(b)
    <3>1. b \in Byte /\ NoIgnoreChar \in Byte
      BY <1>6, <1>9 DEF NoIgnoreChar, Byte
    <3>2. AsInt(NoIgnoreChar) = NoIgnoreChar /\ NoIgnoreChar >= 0
      BY DEF AsInt, NoIgnoreChar
    <3>3. AsInt(b) \in Int /\ (AsInt(b) >= 0 => AsInt(b) = b)
      BY <3>1, AsIntOfByte
    <3> QED
      BY <1>2, <1>9, <3>2, <3>3 DEF Keeps
  <2>2. Kept(rx') = Kept(rx)
    <3>1. <<>> \o Kept(rx') = Kept(rx')
      BY <1>6, <1>9, ConcatEmptySeq
    <3> QED
      BY <1>6, <1>9, <2>1, <3>1 DEF Extended
  <2>3. Within(Echoed, input, n + 1)
    <3>1. n \in Nat /\ n + 1 \in Nat /\ n <= n + 1
      BY <1>3
    <3> QED
      BY <1>7, <3>1, WithinMore
  <2>4. Echoed' = Echoed /\ LineOfCall'
    BY <1>5, <1>9
  <2>5. EchoIsFaithful'
    BY SMTT(40), <1>2, <1>6, <1>7, <1>9, <2>2, <2>3, <2>4 DEF EchoIsFaithful
  <2> QED
    BY <1>1, <1>6, <1>9, <2>4, <2>5 DEF EchoInv
<1>10. CASE /\ rx # <<>> /\ rx' = Tail(rx) /\ ret' = ret
            /\ op' = [op EXCEPT !.text = Append(@, b)]
            /\ AsInt(b) >= 0 /\ AsInt(b) # AsInt(op.stop)
  <2>1. Keeps(b)
    BY <1>2, <1>10 DEF Keeps
  <2>2. /\ op'.fn = "collect" /\ op'.stop = NoIgnoreChar /\ op'.limit = NoLimit
        /\ op'.text = Append(op.text, b)
    BY <1>2, <1>10 DEF Ops
  <2>3. line' = "reading"
    BY <2>2
  <2>4. LineOfCall'
    BY <1>2, <2>2, <2>3 DEF LineOfCall
  <2>5. Echoed' = Append(Echoed, b)
    <3>1. Held' = Append(op.text, b)
      BY <2>2, <2>3 DEF Held
    <3> DEFINE o == output \o tx
               t == op.text
    <3>2. o \in Seq(Byte) /\ t \in Seq(Byte) /\ b \in Byte /\ <<b>> \in Seq(Byte)
      BY <1>3, <1>6, <1>10, ConcatProperties
    <3>3. Echoed' = o \o Append(t, b) /\ Echoed = o \o t
      BY <1>2, <1>4, <3>1 DEF Echoed
    <3> HIDE DEF o, t
    <3>4. o \o t \in Seq(Byte)
      BY <3>2, ConcatProperties
    <3>5. Append(t, b) = t \o <<b>> /\ Append(o \o t, b) = (o \o t) \o <<b>>
      BY <3>2, <3>4, AppendIsConcat
    <3>6. (o \o t) \o <<b>> = o \o (t \o <<b>>)
      BY <3>2, ConcatAssociative
    <3> QED
      BY <3>3, <3>5, <3>6
  <2>6. Within(Echoed', input', Len(input') - Len(rx'))
    <3>1. Within(Append(Echoed, b), input, n + 1)
      BY <1>3, <1>6, <1>7, <1>10, WithinAppend
    <3> QED
      BY <1>2, <1>6, <1>10, <2>5, <3>1
  <2>7. ~short => Echoed' \o Kept(rx') = Kept(input')
    <3> SUFFICES ASSUME ~short PROVE Echoed' \o Kept(rx') = Kept(input')
      OBVIOUS
    <3> DEFINE e == Echoed
               k == Kept(rx')
    <3>1. e \in Seq(Byte) /\ k \in Seq(Byte) /\ b \in Byte /\ <<b>> \in Seq(Byte)
      BY <1>3, <1>6, <1>10
    <3>2. Kept(rx) = <<b>> \o k
      <4>1. Append(<<>>, b) = <<b>>
        OBVIOUS
      <4> QED
        BY <1>6, <1>10, <2>1, <4>1 DEF Extended
    <3>3. e \o (<<b>> \o k) = Kept(input)
      BY <1>7, <3>2
    <3> HIDE DEF e, k
    <3>4. Append(e, b) = e \o <<b>> /\ (e \o <<b>>) \o k = e \o (<<b>> \o k)
      BY <3>1, AppendIsConcat, ConcatAssociative
    <3>5. Echoed' = Append(e, b)
      BY <2>5 DEF e
    <3> QED
      BY <1>2, <3>3, <3>4, <3>5 DEF k
  <2>8. EchoIsFaithful'
    BY <1>2, <2>6, <2>7 DEF EchoIsFaithful
  <2> QED
    BY <1>1, <1>6, <1>10, <2>4, <2>8 DEF EchoInv
<1> QED
  BY <1>1, <1>8, <1>9, <1>10, CollectCases DEF b

\* print() sends what fits of the text.
LEMMA SketchPrintsStep ==
  ASSUME SerialInv, EchoInv, UNCHANGED <<input, output>>, line = "print", Write(ret.text),
         line' = "available", short' = (short \/ ret'.value < ret'.asked)
  PROVE  SerialInv' /\ EchoInv'
<1> DEFINE t == ret.text
           o == output \o tx
           n == Len(input) - Len(rx)
<1>1. /\ t \in Seq(Byte) /\ o \in Seq(Byte) /\ tx \in Seq(Byte) /\ output \in Seq(Byte)
      /\ n \in Nat /\ Len(t) \in Nat
  BY EchoTexts, ConcatProperties, LenProperties
<1>2. Echoed = o \o t
  BY DEF Echoed, Held
<1>3. PICK w \in Nat : /\ w <= Len(t) /\ tx' = tx \o SubSeq(t, 1, w)
                       /\ ret'.value = w /\ ret'.asked = Len(t)
  BY <1>1, WriteStep
<1>4. SerialInv'
  BY <1>1, WriteStep
<1>5. rx' = rx /\ op' = op /\ input' = input /\ output' = output /\ op = NoOp
  BY DEF Write, Free
<1> DEFINE a == SubSeq(t, 1, w)
           z == SubSeq(t, w + 1, Len(t))
<1>6. a \in Seq(Byte) /\ z \in Seq(Byte) /\ a \o z = t
  BY <1>1, <1>3, TakeAndDrop
<1>7. w = Len(t) => a = t
  BY <1>1, SubSeqFull
<1>8. Echoed' = o \o a
  <2>1. Held' = <<>>
    BY DEF Held
  <2> HIDE DEF a
  <2>2. tx \o a \in Seq(Byte) /\ output \o (tx \o a) \in Seq(Byte)
    BY <1>1, <1>6, ConcatProperties
  <2>3. (output \o tx) \o a = output \o (tx \o a)
    <3>1. output \in Seq(Byte) /\ tx \in Seq(Byte) /\ a \in Seq(Byte)
      BY <1>1, <1>6
    <3> QED
      BY <3>1, ConcatAssociative
  <2>4. (output \o (tx \o a)) \o <<>> = output \o (tx \o a)
    BY <2>2, ConcatEmptySeq
  <2> QED
    BY <1>3, <1>5, <2>1, <2>3, <2>4 DEF Echoed, a
<1> HIDE DEF t, o, n, a, z
<1>9. /\ Within(o \o t, input, n)
      /\ ~short => (o \o t) \o Kept(rx) = Kept(input)
  BY <1>2 DEF EchoInv, EchoIsFaithful, n
<1>10. Within(o \o a, input, n)
  <2>1. o \in Seq(Byte) /\ a \in Seq(Byte) /\ z \in Seq(Byte)
    BY <1>1, <1>6
  <2>2. (o \o a) \o z = o \o (a \o z) /\ o \o a \in Seq(Byte)
    BY <2>1, ConcatAssociative, ConcatProperties
  <2>3. (o \o a) \o z = o \o t
    BY <1>6, <2>2
  <2> DEFINE p == o \o a
             m == n
  <2>4. p \in Seq(Byte) /\ z \in Seq(Byte) /\ m \in Nat /\ Within(p \o z, input, m)
    BY <1>1, <1>9, <2>1, <2>2, <2>3
  <2> HIDE DEF p, m
  <2>5. Within(p, input, m)
    BY <2>4, WithinPrefix
  <2> QED
    BY <2>5 DEF p, m
<1>11. ~short' => (o \o a) \o Kept(rx) = Kept(input)
  <2> SUFFICES ASSUME ~short' PROVE (o \o a) \o Kept(rx) = Kept(input)
    OBVIOUS
  <2>1. ~short /\ ~(w < Len(t))
    BY <1>3
  <2>2. w = Len(t)
    BY <1>1, <1>3, <2>1
  <2> QED
    BY <1>7, <1>9, <2>1, <2>2
<1>12. EchoIsFaithful'
  BY <1>5, <1>8, <1>10, <1>11 DEF EchoIsFaithful, n
<1>13. LineOfCall' /\ RxIsTheEnd'
  <2>1. short' \in BOOLEAN
    BY DEF EchoInv, LineOfCall
  <2> QED
    BY <1>5, <2>1 DEF EchoInv, LineOfCall, RxIsTheEnd
<1> QED
  BY <1>4, <1>12, <1>13 DEF EchoInv

\* Every step of the sketch and of the test keeps the invariants.
LEMMA EchoStep ==
  ASSUME SerialInv, EchoInv, [EchoNext]_evars
  PROVE  SerialInv' /\ EchoInv'
<1>1. CASE UNCHANGED evars
  <2>1. SerialInv'
    BY <1>1, SerialStep DEF evars
  <2>2. Echoed' = Echoed /\ LineOfCall' /\ output' \in Seq(Byte)
    BY <1>1, EchoTexts DEF evars, vars, Echoed, Held, EchoInv, LineOfCall
  <2> QED
    BY <1>1, <2>1, <2>2, SameEcho DEF evars, vars
<1>2. CASE Setup
  BY <1>2, SketchWaitsStep DEF Setup
<1>3. CASE Loop
  BY <1>3, SketchWaitsStep, SketchReadsStep, SketchPrintsStep DEF Loop, Reply
<1>4. CASE \E b \in Bytes : TestSends(b)
  BY <1>4, TestSendsStep
<1>5. CASE TestReceives
  BY <1>5, TestReceivesStep
<1> QED
  BY <1>1, <1>2, <1>3, <1>4, <1>5 DEF EchoNext

\* What the sketch of the UART test sends back is what it was sent, in its order and
\* no byte twice, without the bytes that readString() cannot return; and bytes are
\* missing only if a print() fell short: for any sizes of the buffers and any number
\* of bytes.
THEOREM EchoIsRight == EchoSpec => []EchoInv
<1>1. SerialInv /\ EchoInv /\ [EchoNext]_evars => SerialInv' /\ EchoInv'
  BY EchoStep
<1> QED
  BY <1>1, EchoInitInv, PTL DEF EchoSpec
===============================================================================
