----------------------------- MODULE MCDeviceBanks -----------------------------
(***************************************************************************)
(* Instances of DeviceBanks for TLC: three native specifications, one of   *)
(* them of mutexes only, and a synthetic one, in several orders and with   *)
(* up to two instances.                                                    *)
(***************************************************************************)
EXTENDS DeviceBanks

CONSTANTS h, k

F(n, t) == [name |-> n, type |-> t]
N(t) == [kind |-> "native", tokens |-> t]
A == N(<<1, "1.0", F(2, "s8"), F(1, "u8")>>)
B == N(<<3, "1.0", F(1, "au8"), F(2, "u8"), F(3, "mutex")>>)
C == [kind |-> "synthetic", name |-> 2, version |-> "1.0", fields |-> <<"as8", "u8">>]
A2 == N(<<1, "2.0", F(3, "s8"), F(4, "u8")>>)
M == N(<<4, "1.0", F(3, "mutex"), F(4, "mutex")>>)
Long == N(<<1, "1.0", F(1, "u8"), F(9, "u8")>>)
D(s, n) == [spec |-> s, count |-> n]

\* Two or three devices of different names in any order.
Mixed == {<<D(A, m), D(B, n)>> : m \in {0, 2}, n \in {1}}
         \cup {<<D(B, m), D(A, n)>> : m \in 1 .. 2, n \in 1 .. 1}
         \cup {<<D(C, m), D(A, n)>> : m \in 1 .. 2, n \in 1 .. 2}
         \cup {<<D(A, 1), D(C, 1), D(B, 1)>>, <<D(B, 1), D(C, 1), D(A, 1)>>}
Signs == {-2}
Asked == {<<1, 1>>, <<7, 1>>}
MixedAndMutexes == Mixed \cup {<<D(M, 2)>>, <<D(A, 1), D(M, 1)>>}
AllAndM == {A, B, C, M}

ASSUME Legal(MixedAndMutexes) /\ Matching(MixedAndMutexes, AllAndM, Asked)

\* Two versions of one device around another one.
Twice == {<<D(A, 1), D(C, 1), D(A2, 1)>>}
TwiceKnown == {A, A2, C}
LongOne == {<<D(Long, 1)>>}
JustLong == {Long}
===============================================================================
