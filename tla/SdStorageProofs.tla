---------------------------- MODULE SdStorageProofs ----------------------------
(***************************************************************************)
(* Proofs about SdStorage, for any cards, pins, File variables, paths and  *)
(* bytes: the trees stay well formed and on the cards, reads return bytes  *)
(* of the file in its order, and a File that has failed is dead.           *)
(***************************************************************************)
EXTENDS SdStorage, SequenceTheorems, TLAPS

-----------------------------------------------------------------------------
(* Paths.                                                                  *)

\* The parent of a path, and the ancestors, are shorter paths of the same names.
LEMMA Lineage ==
  ASSUME NEW q \in Paths
  PROVE  /\ q \in Seq(Range(q)) /\ Len(q) \in Nat \ {0}
         /\ Parent(q) = SubSeq(q, 1, Len(q) - 1)
         /\ Ancestors(q) \subseteq Paths
         /\ Len(q) = 1 => Parent(q) = <<>>
         /\ Len(q) > 1 => Parent(q) \in Ancestors(q)
         /\ Parent(q) # <<>> => Parent(q) \in Ancestors(q)
<1>1. q \in Seq(Range(q)) /\ q # <<>> /\ \A n \in 1..Len(q) : SubSeq(q, 1, n) \in Paths
  BY SdAssumption
<1>2. Len(q) \in Nat \ {0}
  BY <1>1, EmptySeq
<1>3. Parent(q) = SubSeq(q, 1, Len(q) - 1)
  BY DEF Parent, Front
<1>4. Ancestors(q) \subseteq Paths
  <2> SUFFICES ASSUME NEW n \in 1..(Len(q) - 1) PROVE SubSeq(q, 1, n) \in Paths
    BY DEF Ancestors
  <2>1. n \in 1..Len(q)
    BY <1>2
  <2> QED
    BY <1>1, <2>1
<1>5. Len(q) = 1 => Parent(q) = <<>>
  BY <1>3, SubSeqEmpty
<1>6. Len(q) > 1 => Parent(q) \in Ancestors(q)
  BY <1>2, <1>3 DEF Ancestors
<1> QED
  BY <1>1, <1>2, <1>3, <1>4, <1>5, <1>6

\* The parent of an ancestor is an ancestor.
LEMMA AncestorsClosed ==
  ASSUME NEW q \in Paths, NEW x \in Ancestors(q), Parent(x) # <<>>
  PROVE  Parent(x) \in Ancestors(q)
<1>1. PICK n \in 1..(Len(q) - 1) : x = SubSeq(q, 1, n)
  BY DEF Ancestors
<1>2. q \in Seq(Range(q)) /\ Len(q) \in Nat
  BY Lineage
<1>3. x \in Paths /\ Len(x) = n
  <2>1. \A i \in 1..n : q[i] \in Range(q)
    BY <1>1, <1>2, ElementOfSeq
  <2> QED
    BY <1>1, <1>2, <2>1, Lineage, SubSeqProperties
<1>4. n > 1
  <2>1. Len(x) = 1 => Parent(x) = <<>>
    BY <1>3, Lineage
  <2> QED
    BY <1>1, <1>3, <2>1
<1>5. Parent(x) = SubSeq(SubSeq(q, 1, n), 1, n - 1)
  <2>1. Parent(x) = SubSeq(x, 1, Len(x) - 1)
    BY <1>3, Lineage
  <2> QED
    BY <1>1, <1>3, <2>1
<1>6. Parent(x) = SubSeq(q, 1, n - 1)
  BY <1>1, <1>2, <1>4, <1>5, SubSeqOfSubSeq
<1> QED
  BY <1>1, <1>2, <1>4, <1>6 DEF Ancestors

\* What lies in a directory inside p, or in p itself, is inside p.
LEMMA InsideClosed ==
  ASSUME NEW p \in Paths, NEW q \in Paths, Parent(q) \in Paths,
         Parent(q) = p \/ IsStrictPrefix(p, Parent(q))
  PROVE  IsStrictPrefix(p, q)
<1>1. /\ p \in Seq(Range(p)) /\ Len(p) \in Nat \ {0}
      /\ q \in Seq(Range(q)) /\ Len(q) \in Nat \ {0}
      /\ Parent(q) = SubSeq(q, 1, Len(q) - 1)
  BY Lineage
<1>2. IsPrefix(p, Parent(q))
  BY <1>1 DEF IsStrictPrefix, IsPrefix
<1> DEFINE k == Len(q) - 1
<1>3. k \in 0..Len(q) /\ Parent(q) = SubSeq(q, 1, k) /\ k < Len(q)
  BY <1>1
<1> HIDE DEF k
<1>4. Len(Parent(q)) = k
  <2>1. \A i \in 1..k : q[i] \in Range(q)
    BY <1>1, <1>3, ElementOfSeq
  <2> QED
    BY <1>1, <1>3, <2>1, SubSeqProperties
<1>5. Len(p) <= k /\ SubSeq(p, 1, Len(p)) = SubSeq(Parent(q), 1, Len(p))
  BY <1>2, <1>4 DEF IsPrefix
<1>6. SubSeq(Parent(q), 1, Len(p)) = SubSeq(q, 1, Len(p))
  BY <1>1, <1>3, <1>5, SubSeqOfSubSeq
<1> QED
  BY <1>1, <1>3, <1>5, <1>6 DEF IsStrictPrefix, IsPrefix

-----------------------------------------------------------------------------
(* Types.                                                                  *)

\* A File variable holds nothing, a directory or a stream.
LEMMA Kinds ==
  ASSUME TypeOK, NEW h \in Handles
  PROVE  /\ IsStream(h) <=> file[h] \in Streams
         /\ file[h].kind = "dir" <=> file[h] \in Directories
<1>1. file[h] \in {NotOpened} \cup Directories \cup Streams
  BY DEF TypeOK
<1> QED
  BY <1>1 DEF IsStream, NotOpened, Directories, Streams

\* The working directory of the sketch is not the directory of a card.
LEMMA CwdIsNoCard == Cwd \notin Cards
BY SdAssumption DEF Cwd

\* The root of a card is one of the directories.
LEMMA RootType == Root \in Places
BY DEF Root, StorageGetRoot, Places

\* The empty tree is a function.
LEMMA EmptyTree == ASSUME NEW S PROVE <<>> \in [{} -> S]
<1>1. <<>> \in [1..Len(<<>>) -> S] /\ Len(<<>>) = 0
  BY EmptySeq, LenProperties
<1>2. 1..0 = {}
  OBVIOUS
<1> QED
  BY <1>1, <1>2

\* The invariants hold when the sketch starts.
LEMMA InitInv == Init => SdInv /\ ReadsInOrder
<1> SUFFICES ASSUME Init PROVE SdInv /\ ReadsInOrder
  OBVIOUS
<1>1. data \in [Files -> Contents]
  BY EmptySeq DEF Init, Contents
<1>2. \A p \in Places : tree[p] = <<>>
  BY DEF Init
<1>3. \A h \in Handles : ~IsStream(h)
  BY DEF Init, IsStream, NotOpened
<1>4. TypeOK
  <2>1. \A p \in Places : DOMAIN tree[p] = {}
    BY <1>2
  <2>2. \A p \in Places : tree[p] \in [DOMAIN tree[p] -> {Dir} \cup Files]
    BY <1>2, <2>1, EmptyTree
  <2> QED
    BY <1>1, <1>3, <2>1, <2>2 DEF Init, TypeOK
<1>5. TreeIsClosed
  BY <1>2 DEF TreeIsClosed
<1>6. NothingOutsideCards
  BY <1>2 DEF NothingOutsideCards, Places
<1> QED
  BY <1>3, <1>4, <1>5, <1>6 DEF SdInv, StreamsApart, Tracked, ReadsInOrder

\* What the library's operations make of a stream.
LEMMA ToldType == ASSUME NEW f \in Streams
                  PROVE  /\ Told(f) \in Streams /\ Told(f).i = f.i /\ Told(f).pos = f.pos
                         /\ Told(f).from = f.from /\ Told(f).got = f.got
                         /\ Told(f).skip = f.skip
                         /\ Failed(f) => Failed(Told(f))
BY DEF Told, Streams, Failed, Good

\* What a seek for reading does to a stream: nothing, if it has failed ...
LEMMA SeekgType == ASSUME NEW f \in Streams, NEW p \in Nat
                   PROVE  /\ Seekg(f, p) \in Streams /\ Seekg(f, p).i = f.i
                          /\ Failed(Seekg(f, p)) <=> Failed(f)
                          /\ Seekg(f, p).pos = IF Failed(f) THEN f.pos ELSE p
BY DEF Seekg, Streams, Failed

\* ... and what a seek for writing does, which does not count as a seek of the reader.
LEMMA SeekpType == ASSUME NEW f \in Streams, NEW p \in Nat
                   PROVE  /\ Seekp(f, p) \in Streams /\ Seekp(f, p).i = f.i
                          /\ Seekp(f, p).from = f.from /\ Seekp(f, p).got = f.got
                          /\ Seekp(f, p).skip = f.skip
                          /\ Failed(Seekp(f, p)) <=> Failed(f)
                          /\ Seekp(f, p).pos = IF Failed(f) THEN f.pos ELSE p
BY DEF Seekp, Streams, Failed

\* From here on, what is read is counted anew.
LEMMA FreshType == ASSUME NEW f \in Streams
                   PROVE  /\ Fresh(f) \in Streams /\ Fresh(f).i = f.i
                          /\ Fresh(f).pos = f.pos /\ Fresh(f).from = f.pos
                          /\ Fresh(f).got = <<>> /\ Fresh(f).skip = 0
                          /\ Failed(Fresh(f)) <=> Failed(f)
<1>1. <<>> \in Seq(Found)
  BY EmptySeq
<1> QED
  BY <1>1 DEF Fresh, Streams, Failed

\* What can be read is what is left of the file, and nothing after an error.
LEMMA AvailableType ==
  ASSUME TypeOK, NEW f \in Streams, NEW n \in Nat
  PROVE  /\ Content(f) \in Contents /\ Len(Content(f)) \in Nat
         /\ Available(f, n) \in 0..n
         /\ Available(f, n) > 0 => f.pos + Available(f, n) <= Len(Content(f))
         /\ ~Good(f) => Available(f, n) = 0
<1>1. Content(f) \in Contents
  <2>1. f.i \in Files
    BY DEF Streams
  <2> QED
    BY <2>1 DEF Content, TypeOK
<1>2. Len(Content(f)) \in Nat
  BY <1>1 DEF Contents
<1>3. f.pos \in Nat
  BY DEF Streams
<1> QED
  BY <1>1, <1>2, <1>3 DEF Available

\* Reading moves the position by what was read, and fails if that was too little.
LEMMA TakenType ==
  ASSUME TypeOK, NEW f \in Streams, NEW n \in Nat
  PROVE  /\ Taken(f, n) \in Streams /\ Taken(f, n).i = f.i
         /\ Taken(f, n).from = f.from /\ Taken(f, n).got = f.got
         /\ Taken(f, n).skip = f.skip
         /\ Taken(f, n).pos = f.pos + Available(f, n)
         /\ Failed(f) => Failed(Taken(f, n))
         /\ Available(f, n) # n => Failed(Taken(f, n))
<1>1. Available(f, n) \in Nat /\ f.pos \in Nat
  <2>1. Available(f, n) \in 0..n
    BY AvailableType
  <2> QED
    BY <2>1 DEF Streams
<1>2. f.pos + Available(f, n) \in Nat /\ (f.eof \/ Good(f)) \in BOOLEAN
  BY <1>1 DEF Streams, Good
<1>3. CASE Available(f, n) = n
  <2>1. Taken(f, n) = [f EXCEPT !.pos = f.pos + Available(f, n)]
    BY <1>3 DEF Taken
  <2> QED
    BY <1>2, <1>3, <2>1 DEF Streams, Failed
<1>4. CASE Available(f, n) # n
  <2> DEFINE e == f.eof \/ Good(f)
  <2>1. Taken(f, n) = [f EXCEPT !.pos = f.pos + Available(f, n), !.fail = TRUE, !.eof = e]
    BY <1>4 DEF Taken
  <2>2. e \in BOOLEAN
    BY <1>2
  <2> HIDE DEF e
  <2> QED
    BY <1>2, <2>1, <2>2 DEF Streams, Failed
<1> QED
  BY <1>3, <1>4

\* The operations of an open File.
StreamCall(h) == \/ Position(h) \/ Peek(h) \/ Read(h)
                 \/ \E p \in 0..MaxLen : Seek(h, p) \/ ReadMany(h, p)
                 \/ \E c \in Bytes : Write(h, c)

\* A block of bytes that are there is a sequence of them.
LEMMA BlockType ==
  ASSUME NEW f \in Streams, NEW n \in Nat, Content(f) \in Contents,
         n > 0 => f.pos + n <= Len(Content(f))
  PROVE  /\ Block(f, n) \in Seq(Found) /\ Len(Block(f, n)) = n
         /\ \A j \in 1..n : Block(f, n)[j] = [at |-> f.pos + j - 1,
                                             byte |-> Content(f)[f.pos + j]]
<1>1. f.pos \in Nat /\ Len(Content(f)) \in Nat
  BY LenProperties DEF Streams, Contents
<1>2. ASSUME NEW j \in 1..n
      PROVE  [at |-> f.pos + j - 1, byte |-> Content(f)[f.pos + j]] \in Found
  <2>1. f.pos + j - 1 \in Nat /\ f.pos + j \in 1..Len(Content(f))
    BY <1>1, <1>2
  <2>2. Content(f)[f.pos + j] \in Bytes \cup {0}
    BY <2>1, ElementOfSeq DEF Contents
  <2> QED
    BY <2>1, <2>2 DEF Found
<1>3. Block(f, n) \in [1..n -> Found]
  BY <1>2 DEF Block
<1>4. Block(f, n) \in Seq(Found)
  BY <1>3, SeqDef
<1> QED
  BY <1>3, <1>4, LenProperties DEF Block

\* What they may make of its stream f: the history starts anew, stands still, or
\* goes on with the bytes at the position, after which some may be skipped.
Anew(f, g) == g.got = <<>> /\ g.from = g.pos /\ g.skip = 0
Still(f, g) == g.got = f.got /\ g.from = f.from /\ g.pos = f.pos /\ g.skip = f.skip
More(f, g) ==
    \E n \in Nat : /\ n > 0 => f.pos + n <= Len(Content(f))
                   /\ g.got = f.got \o Block(f, n) /\ g.from = f.from
                   /\ g.skip >= f.skip
                   /\ g.pos = f.pos + n + (g.skip - f.skip)

\* A failed stream stays failed, where it is.
Dead(f, g) == Failed(f) => Failed(g) /\ g.pos = f.pos

Became(f, g) == /\ g \in Streams /\ g.i = f.i /\ Dead(f, g)
                /\ Anew(f, g) \/ Still(f, g) \/ More(f, g)

\* position() and peek() change their own stream only ...
LEMMA QueryStep ==
  ASSUME TypeOK, NEW h \in Handles, Position(h) \/ Peek(h)
  PROVE  \E g : Became(file[h], g) /\ file' = [file EXCEPT ![h] = g]
<1> DEFINE f == file[h]
<1>1. f \in Streams
  BY Kinds DEF Position, Peek
<1> HIDE DEF f
<1>3. CASE Position(h)
  <2>1. Became(f, Told(f))
    BY <1>1, ToldType DEF Became, Still, Dead
  <2> QED
    BY <1>3, <2>1 DEF Position, Becomes, f
<1>4. CASE Peek(h)
  <2> DEFINE e == Available(f, 1) = 0
             g == IF ~Good(f) THEN [f EXCEPT !.fail = TRUE] ELSE [f EXCEPT !.eof = e]
  <2>1. e \in BOOLEAN
    OBVIOUS
  <2> HIDE DEF e
  <2>2. Became(f, g)
    BY <1>1, <2>1 DEF Became, Still, Dead, Streams, Failed, Good
  <2>3. file' = [file EXCEPT ![h] = g]
    BY <1>4 DEF Peek, Becomes, f, e
  <2> QED
    BY <2>2, <2>3 DEF f
<1> QED
  BY <1>3, <1>4

\* ... and so do seek() ...
LEMMA SeekStep ==
  ASSUME TypeOK, NEW h \in Handles, NEW p \in 0..MaxLen, Seek(h, p)
  PROVE  \E g : Became(file[h], g) /\ file' = [file EXCEPT ![h] = g]
<1> DEFINE f == file[h]
<1>1. f \in Streams /\ p \in Nat
  BY Kinds, SdAssumption DEF Seek
<1> HIDE DEF f
<1>2. Became(f, Sized(f))
  BY <1>1, ToldType DEF Became, Still, Dead, Sized
<1> DEFINE a == Sized(f)  b == Seekg(a, p)  c == Seekp(b, p)
<1>3. a \in Streams /\ a.i = f.i /\ a.pos = f.pos /\ (Failed(f) => Failed(a))
  BY <1>1, ToldType DEF Sized
<1> HIDE DEF a
<1>4. /\ b \in Streams /\ b.i = f.i
      /\ Failed(f) => Failed(b) /\ b.pos = f.pos
  BY <1>1, <1>3, SeekgType
<1> HIDE DEF b
<1>5. /\ c \in Streams /\ c.i = f.i
      /\ Failed(f) => Failed(c) /\ c.pos = f.pos
  BY <1>1, <1>4, SeekpType
<1> HIDE DEF c
<1>6. Became(f, Fresh(c))
  BY <1>5, FreshType DEF Became, Anew, Dead
<1>7. file' = [file EXCEPT ![h] = Sized(f)] \/ file' = [file EXCEPT ![h] = Fresh(c)]
  BY DEF Seek, Becomes, a, b, c, f
<1> QED
  BY <1>2, <1>6, <1>7 DEF f

\* What a read that found n bytes leaves: nothing moved, or so many bytes more.
LEMMA BecameMore ==
  ASSUME NEW f \in Streams, NEW g \in Streams, NEW n \in Nat, NEW m \in Nat,
         Content(f) \in Contents, n > 0 => f.pos + n <= Len(Content(f)),
         g.i = f.i, g.from = f.from, g.got = f.got, g.skip = f.skip,
         g.pos = f.pos + n + m, Failed(f) => n = 0 /\ m = 0 /\ Failed(g)
  PROVE  LET r == [g EXCEPT !.got = g.got \o Block(f, n), !.skip = g.skip + m]
         IN  Became(f, r)
<1> DEFINE more == g.got \o Block(f, n)  k == g.skip + m
           r == [g EXCEPT !.got = more, !.skip = k]
<1>1. Block(f, n) \in Seq(Found)
  BY BlockType
<1>2. g.got \in Seq(Found)
  BY DEF Streams
<1>3. more \in Seq(Found)
  BY <1>1, <1>2, ConcatProperties
<1>4. f.pos \in Nat /\ f.skip \in Nat /\ k \in Nat /\ k = f.skip + m
  BY DEF Streams
<1>5. more = f.got \o Block(f, n)
  OBVIOUS
<1> HIDE DEF more, k
<1>6. /\ r \in Streams /\ r.i = f.i /\ r.from = f.from /\ r.got = more /\ r.skip = k
      /\ r.pos = g.pos /\ (Failed(r) <=> Failed(g))
  BY <1>3, <1>4 DEF Streams, Failed
<1> HIDE DEF r
<1>7. More(f, r)
  <2>1. k >= f.skip /\ f.pos + n + m = f.pos + n + (k - f.skip)
    BY <1>4
  <2> QED
    BY <1>5, <1>6, <2>1 DEF More
<1>8. Dead(f, r)
  BY <1>4, <1>6 DEF Dead
<1>9. Became(f, r)
  BY <1>6, <1>7, <1>8 DEF Became
<1> QED
  BY <1>9 DEF r, more, k

\* ... read() ...
LEMMA ReadStep ==
  ASSUME TypeOK, NEW h \in Handles, Read(h)
  PROVE  \E g : Became(file[h], g) /\ file' = [file EXCEPT ![h] = g]
<1> DEFINE f == file[h]  n == Available(f, 1)  t == Taken(f, 1)
           u == IF n = 0 THEN Seekp(t, t.pos + 1) ELSE t
           r == [u EXCEPT !.got = u.got \o Block(f, n)]
<1>1. f \in Streams
  BY Kinds DEF Read
<1>2. file' = [file EXCEPT ![h] = r]
  BY DEF Read, Becomes
<1> HIDE DEF f
<1>3. /\ n \in 0..1 /\ (n > 0 => f.pos + n <= Len(Content(f))) /\ (~Good(f) => n = 0)
      /\ Content(f) \in Contents
  BY <1>1, AvailableType
<1>4. f.pos \in Nat /\ (Failed(f) => ~Good(f))
  BY <1>1 DEF Streams, Good, Failed
<1>5. /\ t \in Streams /\ t.i = f.i /\ t.from = f.from /\ t.got = f.got
      /\ t.skip = f.skip /\ t.pos = f.pos + n
      /\ (n # 1 => Failed(t)) /\ (Failed(f) => Failed(t))
  BY <1>1, TakenType
<1> HIDE DEF t, n
<1>6. /\ u \in Streams /\ u.i = f.i /\ u.from = f.from /\ u.got = f.got
      /\ u.skip = f.skip /\ u.pos = f.pos + n /\ (Failed(f) => Failed(u))
  <2>1. t.pos + 1 \in Nat
    BY <1>3, <1>4, <1>5
  <2>2. CASE n = 0
    <3> DEFINE y == t.pos + 1
    <3>1. u = Seekp(t, y) /\ y \in Nat
      BY <2>1, <2>2
    <3>2. Failed(t)
      BY <1>5, <2>2
    <3> HIDE DEF u, y
    <3> QED
      BY <1>5, <3>1, <3>2, SeekpType
  <2>3. CASE n # 0
    <3>1. u = t
      BY <2>3
    <3> QED
      BY <1>5, <3>1
  <2> QED
    BY <2>2, <2>3
<1> HIDE DEF u
<1>7. u.pos = f.pos + n + 0 /\ u.skip + 0 = u.skip /\ n \in Nat /\ 0 \in Nat
  BY <1>3, <1>4, <1>6 DEF Streams
<1>8. Became(f, [u EXCEPT !.got = u.got \o Block(f, n), !.skip = u.skip + 0])
  <2>1. Failed(f) => n = 0 /\ 0 = 0 /\ Failed(u)
    BY <1>3, <1>4, <1>6
  <2> QED
    BY <1>1, <1>3, <1>6, <1>7, <2>1, BecameMore
<1>9. r = [u EXCEPT !.got = u.got \o Block(f, n), !.skip = u.skip + 0]
  BY <1>6, <1>7 DEF Streams
<1> QED
  BY <1>2, <1>8, <1>9 DEF f

\* ... and read(buffer, size).
LEMMA ReadManyStep ==
  ASSUME TypeOK, NEW h \in Handles, NEW p \in 0..MaxLen, ReadMany(h, p)
  PROVE  \E g : Became(file[h], g) /\ file' = [file EXCEPT ![h] = g]
<1> DEFINE f == file[h]  t == Taken(f, p)  n == Available(f, p)  x == t.pos + n
           u == Seekp(t, x)  m == u.pos - t.pos
           r == [u EXCEPT !.got = u.got \o Block(f, n), !.skip = u.skip + m]
<1>1. f \in Streams /\ p \in Nat
  BY Kinds, SdAssumption DEF ReadMany
<1>2. file' = [file EXCEPT ![h] = r]
  BY DEF ReadMany, Becomes
<1> HIDE DEF f
<1>3. /\ n \in Nat /\ (n > 0 => f.pos + n <= Len(Content(f))) /\ (~Good(f) => n = 0)
      /\ Content(f) \in Contents
  BY <1>1, AvailableType
<1>4. f.pos \in Nat /\ (Failed(f) => ~Good(f))
  BY <1>1 DEF Streams, Good, Failed
<1>5. /\ t \in Streams /\ t.i = f.i /\ t.from = f.from /\ t.got = f.got
      /\ t.skip = f.skip /\ t.pos = f.pos + n /\ (Failed(f) => Failed(t))
  BY <1>1, TakenType
<1> HIDE DEF t, n
<1>6. x \in Nat /\ x = f.pos + n + n
  BY <1>3, <1>4, <1>5
<1> HIDE DEF x
<1>7. /\ u \in Streams /\ u.i = f.i /\ u.from = f.from /\ u.got = f.got
      /\ u.skip = f.skip /\ (Failed(f) => Failed(u))
      /\ u.pos = IF Failed(t) THEN t.pos ELSE x
  BY <1>5, <1>6, SeekpType
<1> HIDE DEF u
<1>8. m \in Nat /\ u.pos = f.pos + n + m /\ (Failed(f) => n = 0 /\ m = 0)
  <2>0. /\ n \in Nat /\ f.pos \in Nat /\ t.pos = f.pos + n /\ m = u.pos - t.pos
        /\ Failed(f) => n = 0 /\ Failed(t)
    BY <1>3, <1>4, <1>5
  <2> HIDE DEF m
  <2>1. CASE Failed(t)
    <3>1. u.pos = f.pos + n /\ m = 0
      BY <1>7, <2>0, <2>1
    <3> QED
      BY <2>0, <2>1, <3>1
  <2>2. CASE ~Failed(t)
    <3>1. u.pos = f.pos + n + n /\ m = n
      BY <1>6, <1>7, <2>0, <2>2
    <3> QED
      BY <2>0, <2>2, <3>1
  <2> QED
    BY <2>1, <2>2
<1> HIDE DEF m
<1>9. Became(f, r)
  BY <1>1, <1>3, <1>7, <1>8, BecameMore
<1> QED
  BY <1>2, <1>9 DEF f

\* A byte is put into a file, which grows up to it if need be.
LEMMA PutType ==
  ASSUME NEW c \in Contents, NEW p \in Nat, NEW byte \in Bytes
  PROVE  Put(c, p, byte) \in Contents
<1> DEFINE S == Bytes \cup {0}  n == IF p < Len(c) THEN Len(c) ELSE p + 1
<1>1. Len(c) \in Nat /\ \A k \in 1..Len(c) : c[k] \in S
  BY ElementOfSeq, LenProperties DEF Contents
<1>2. n \in Nat
  BY <1>1
<1>3. Put(c, p, byte) \in [1..n -> S]
  <2>1. \A k \in 1..n : k <= Len(c) => c[k] \in S
    BY <1>1, <1>2
  <2> QED
    BY <2>1 DEF Put
<1> HIDE DEF n, S
<1>4. Put(c, p, byte) \in Seq(S)
  BY <1>2, <1>3, SeqDef
<1> QED
  BY <1>4 DEF Contents, S

\* A write goes to the file of the stream, and starts the history anew.
LEMMA WriteStep ==
  ASSUME TypeOK, NEW h \in Handles, NEW c \in Bytes, Write(h, c)
  PROVE  /\ \E g : /\ Became(file[h], g) /\ Anew(file[h], g)
                   /\ file' = [file EXCEPT ![h] = g]
         /\ \/ UNCHANGED data
            \/ \E x \in Contents : data' = [data EXCEPT ![file[h].i] = x]
<1> DEFINE f == file[h]
           Made(g) == Became(f, g) /\ Anew(f, g) /\ file' = [file EXCEPT ![h] = g]
           Kept == UNCHANGED data \/ \E x \in Contents : data' = [data EXCEPT ![f.i] = x]
<1> SUFFICES (\E g : Made(g)) /\ Kept
  OBVIOUS
<1>1. f \in Streams
  BY Kinds DEF Write
<1>2. f.pos \in Nat /\ Content(f) \in Contents
  <2>1. f.pos \in Nat
    BY <1>1 DEF Streams
  <2> QED
    BY <1>1, <2>1, AvailableType
<1>3. ASSUME NEW g \in Streams, g.i = f.i, Dead(f, g), file' = [file EXCEPT ![h] = Fresh(g)]
      PROVE  \E u : Made(u)
  <2>1. Became(f, Fresh(g)) /\ Anew(f, Fresh(g))
    BY <1>3, FreshType DEF Became, Anew, Dead
  <2> QED
    BY <1>3, <2>1
<1>4. CASE Good(f) /\ f.out
  <2> DEFINE a == [f EXCEPT !.pos = f.pos + 1]  b == Seekg(a, f.pos + 2)
  <2>1. /\ file' = [file EXCEPT ![h] = Fresh(b)]
        /\ data' = [data EXCEPT ![f.i] = Put(data[f.i], f.pos, c)]
    BY <1>4 DEF Write, Becomes
  <2>2. a \in Streams /\ a.i = f.i /\ f.pos + 2 \in Nat
    <3>1. f.pos + 1 \in Nat
      BY <1>2
    <3> QED
      BY <1>1, <1>2, <3>1 DEF Streams
  <2> HIDE DEF f, a
  <2>3. b \in Streams /\ b.i = f.i
    BY <2>2, SeekgType
  <2> HIDE DEF b
  <2>4. Dead(f, b)
    BY <1>4 DEF Dead, Good, Failed
  <2>5. Put(data[f.i], f.pos, c) \in Contents
    BY <1>2, PutType DEF Content
  <2>6. \E u : Made(u)
    BY <1>3, <2>1, <2>3, <2>4
  <2> QED
    BY <2>1, <2>5, <2>6
<1>5. CASE Good(f) /\ ~f.out
  <2> DEFINE b == [f EXCEPT !.bad = TRUE]
  <2>1. file' = [file EXCEPT ![h] = Fresh(b)] /\ UNCHANGED data
    BY <1>5 DEF Write, Becomes
  <2>2. b \in Streams /\ b.i = f.i
    BY <1>1 DEF Streams
  <2>3. Dead(f, b)
    BY <1>5 DEF Dead, Good, Failed
  <2> HIDE DEF b
  <2> QED
    BY <1>3, <2>1, <2>2, <2>3
<1>6. CASE ~Good(f)
  <2>1. PICK flagged \in BOOLEAN :
           LET g == [f EXCEPT !.fail = @ \/ flagged] IN
           file' = [file EXCEPT ![h] = Fresh(IF g.bad THEN g ELSE Seekg(g, g.pos + 1))]
    BY <1>6 DEF Write, Becomes
  <2>2. UNCHANGED data
    BY <1>6 DEF Write
  <2> DEFINE e == f.fail \/ flagged  a == [f EXCEPT !.fail = e]  b == Seekg(a, a.pos + 1)
  <2>3. e \in BOOLEAN
    OBVIOUS
  <2>4. a \in Streams /\ a.i = f.i /\ a.pos = f.pos /\ (Failed(f) => Failed(a))
    <3>1. f.fail => e
      OBVIOUS
    <3> HIDE DEF e
    <3> QED
      BY <1>1, <2>3, <3>1 DEF Streams, Failed
  <2>5. IF a.bad THEN file' = [file EXCEPT ![h] = Fresh(a)]
                 ELSE file' = [file EXCEPT ![h] = Fresh(b)]
    BY <2>1
  <2> HIDE DEF f, a
  <2>6. /\ b \in Streams /\ b.i = f.i
        /\ Failed(f) => Failed(b) /\ b.pos = f.pos
    <3>1. a.pos + 1 \in Nat
      BY <1>2, <2>4
    <3> QED
      BY <2>4, <3>1, SeekgType
  <2> HIDE DEF b
  <2>7. Dead(f, a) /\ Dead(f, b)
    BY <2>4, <2>6 DEF Dead
  <2> QED
    BY <1>3, <2>2, <2>4, <2>5, <2>6, <2>7
<1> QED
  BY <1>4, <1>5, <1>6

\* The operations of an open File: what becomes of its stream, and of the files.
LEMMA StreamStep ==
  ASSUME TypeOK, NEW h \in Handles, StreamCall(h)
  PROVE  /\ IsStream(h) /\ UNCHANGED <<sd, tree>>
         /\ \E g : /\ Became(file[h], g) /\ file' = [file EXCEPT ![h] = g]
                   /\ \/ UNCHANGED data
                      \/ /\ Anew(file[h], g)
                         /\ \E x \in Contents : data' = [data EXCEPT ![file[h].i] = x]
<1>1. IsStream(h) /\ UNCHANGED <<sd, tree>>
  BY DEF StreamCall, Position, Peek, Read, Seek, ReadMany, Write
<1>2. ASSUME Position(h) \/ Peek(h) \/ Read(h) \/ \E p \in 0..MaxLen : Seek(h, p) \/ ReadMany(h, p)
      PROVE  UNCHANGED data
  BY <1>2 DEF Position, Peek, Read, Seek, ReadMany
<1> QED
  BY <1>1, <1>2, QueryStep, SeekStep, ReadStep, ReadManyStep, WriteStep DEF StreamCall

-----------------------------------------------------------------------------
(* Trees.                                                                  *)

\* A tree of files in which everything lies in a directory.
Closed(t) == \A q \in DOMAIN t :
                Parent(q) # <<>> => Parent(q) \in DOMAIN t /\ t[Parent(q)] = Dir
Tree(t) == /\ DOMAIN t \subseteq Paths /\ t \in [DOMAIN t -> {Dir} \cup Files]
           /\ Closed(t)

\* The trees of all places are closed if each is.
LEMMA Trees ==
  ASSUME TypeOK
  PROVE  TreeIsClosed <=> \A p \in Places : Tree(tree[p])
BY DEF TypeOK, TreeIsClosed, Tree, Closed

\* Removing a file ...
LEMMA WithoutFile ==
  ASSUME NEW t, Tree(t), NEW path \in Paths,
         path \in DOMAIN t => t[path] # Dir
  PROVE  Tree(Without(t, {path}))
BY DEF Tree, Closed, Without

\* ... or a directory with all that is inside keeps a tree closed ...
LEMMA WithoutDir ==
  ASSUME NEW t, Tree(t), NEW path \in Paths
  PROVE  Tree(Without(t, {path} \cup {q \in DOMAIN t : IsStrictPrefix(path, q)}))
<1> DEFINE gone == {path} \cup {q \in DOMAIN t : IsStrictPrefix(path, q)}
<1>1. \A q \in DOMAIN t : Parent(q) \in DOMAIN t /\ Parent(q) \in gone => q \in gone
  BY InsideClosed DEF Tree
<1> HIDE DEF gone
<1>2. Tree(Without(t, gone))
  BY <1>1 DEF Tree, Closed, Without
<1> QED
  BY <1>2 DEF gone

\* ... as does making a directory and the ancestors that it lacks ...
LEMMA WithAncestors ==
  ASSUME NEW t, Tree(t), NEW path \in Paths,
         \A p \in Ancestors(path) : p \in DOMAIN t => t[p] = Dir
  PROVE  Tree(WithDirs(t, Ancestors(path) \cup {path}))
<1> DEFINE u == WithDirs(t, Ancestors(path) \cup {path})
<1>1. /\ DOMAIN u = DOMAIN t \cup Ancestors(path) \cup {path}
      /\ \A q \in DOMAIN u : u[q] = IF q \in DOMAIN t THEN t[q] ELSE Dir
      /\ u \in [DOMAIN u -> {Dir} \cup Files]
  BY DEF WithDirs, Tree, Dir
<1>2. Ancestors(path) \subseteq Paths
  BY Lineage
<1>3. \A q \in Ancestors(path) \cup {path} : Parent(q) # <<>> => Parent(q) \in Ancestors(path)
  BY AncestorsClosed, Lineage
<1> HIDE DEF u
<1>4. Closed(u)
  BY <1>1, <1>3 DEF Tree, Closed
<1> QED
  BY <1>1, <1>2, <1>4 DEF Tree, u

\* ... and making a file in a directory that is there.
LEMMA WithFile ==
  ASSUME NEW i \in Files, NEW t, Tree(t), NEW path \in Paths, path \notin DOMAIN t,
         Parent(path) = <<>> \/ (Parent(path) \in DOMAIN t /\ t[Parent(path)] = Dir)
  PROVE  Tree(With(t, path, i))
<1> DEFINE u == With(t, path, i)
<1>1. /\ DOMAIN u = DOMAIN t \cup {path}
      /\ \A q \in DOMAIN t : u[q] = t[q]
      /\ u \in [DOMAIN u -> {Dir} \cup Files]
  BY DEF With, Tree
<1> HIDE DEF u
<1>2. Closed(u)
  BY <1>1 DEF Tree, Closed
<1> QED
  BY <1>1, <1>2 DEF Tree, u

-----------------------------------------------------------------------------
(* Opening.                                                                *)

\* The contents of the files that are open stay.
DataKept == /\ data' \in [Files -> Contents]
            /\ \A k \in Handles : IsStream(k) => data'[file[k].i] = data[file[k].i]

\* A File variable holds a new File: nothing, a directory, or a stream at the start
\* of a file that is not open.
Opens(r) == \/ r = NotOpened \/ r \in Directories
            \/ /\ r \in Streams /\ r.got = <<>> /\ r.from = r.pos /\ r.skip = 0
               /\ \A k \in Handles : IsStream(k) => file[k].i # r.i

\* A stream that was just opened has read nothing.
LEMMA StreamType ==
  ASSUME NEW i \in Files, NEW in \in BOOLEAN, NEW out \in BOOLEAN
  PROVE  /\ Stream(i, in, out) \in Streams /\ Stream(i, in, out).i = i
         /\ Stream(i, in, out).got = <<>> /\ Stream(i, in, out).skip = 0
         /\ Stream(i, in, out).from = Stream(i, in, out).pos
<1>1. <<>> \in Seq(Found)
  BY EmptySeq
<1> QED
  BY <1>1 DEF Stream, Streams

\* Files that do not change are kept.
LEMMA DataUnchanged == ASSUME TypeOK, UNCHANGED data PROVE DataKept
BY DEF DataKept, TypeOK

\* A file that no File has open may be emptied, and a File may take it: the others
\* keep theirs.
LEMMA Emptied ==
  ASSUME TypeOK, NEW i \in Files, \A k \in Handles : IsStream(k) => file[k].i # i,
         UNCHANGED data \/ data' = [data EXCEPT ![i] = <<>>],
         NEW in \in BOOLEAN, NEW out \in BOOLEAN
  PROVE  DataKept /\ Opens(Stream(i, in, out))
<1>1. <<>> \in Contents
  BY EmptySeq DEF Contents
<1>2. data' \in [Files -> Contents]
  BY <1>1 DEF TypeOK
<1>3. ASSUME NEW k \in Handles, IsStream(k) PROVE data'[file[k].i] = data[file[k].i]
  <2>1. file[k].i # i /\ file[k].i \in Files
    BY <1>3, Kinds DEF Streams
  <2>2. data \in [Files -> Contents]
    BY DEF TypeOK
  <2> HIDE DEF Files, IsStream
  <2> QED
    BY <2>1, <2>2
<1>4. Opens(Stream(i, in, out))
  BY StreamType DEF Opens
<1> QED
  BY <1>2, <1>3, <1>4 DEF DataKept

\* What OpenFile does: it takes a file, makes one, or opens nothing.
LEMMA OpenFileStep ==
  ASSUME TypeOK, TreeIsClosed, NEW files, NEW h \in Handles, NEW path \in Paths,
         NEW mode \in Modes, OpenFile(files, h, path, mode)
  PROVE  /\ DataKept
         /\ \E r : Opens(r) /\ file' = [files EXCEPT ![h] = r]
         /\ \/ UNCHANGED tree
            \/ \E t : Tree(t) /\ tree' = [tree EXCEPT ![Root] = t]
<1>1. CASE IsFile(path) /\ mode # {}
  <2> DEFINE i == tree[Root][path]  r == Stream(i, "r" \in mode, "w" \in mode)
  <2>1. /\ ~OpenedElsewhere(path) /\ UNCHANGED tree
        /\ data' = IF mode = {"w"} THEN [data EXCEPT ![i] = <<>>] ELSE data
        /\ file' = [files EXCEPT ![h] = r]
    BY <1>1 DEF OpenFile
  <2>2. i \in Files
    <3>1. path \in DOMAIN tree[Root] /\ i # Dir
      BY <1>1 DEF IsFile, IsDirectory, Exists
    <3> QED
      BY <3>1, RootType DEF TypeOK
  <2>3. \A k \in Handles : IsStream(k) => file[k].i # i
    BY <2>1 DEF OpenedElsewhere, IsStream
  <2>4. DataKept /\ Opens(r)
    <3> DEFINE in == "r" \in mode  out == "w" \in mode
    <3>1. UNCHANGED data \/ data' = [data EXCEPT ![i] = <<>>]
      BY <2>1
    <3>2. in \in BOOLEAN /\ out \in BOOLEAN
      OBVIOUS
    <3> HIDE DEF i, in, out
    <3>3. DataKept /\ Opens(Stream(i, in, out))
      BY <2>2, <2>3, <3>1, <3>2, Emptied
    <3> QED
      BY <3>3 DEF in, out
  <2> QED
    BY <2>1, <2>4
<1>2. CASE /\ ~(IsFile(path) /\ mode # {})
           /\ ~Exists(path) /\ mode = {"w"} /\ HasParent(path)
  <2>1. PICK i \in Files :
           /\ ~InUse(i) /\ data' = [data EXCEPT ![i] = <<>>]
           /\ tree' = [tree EXCEPT ![Root] = With(@, path, i)]
           /\ file' = [files EXCEPT ![h] = Stream(i, FALSE, TRUE)]
    BY <1>2 DEF OpenFile
  <2>2. \A k \in Handles : IsStream(k) => file[k].i # i
    BY <2>1 DEF InUse, IsStream
  <2>3. DataKept /\ Opens(Stream(i, FALSE, TRUE))
    BY <2>1, <2>2, Emptied
  <2>4. Tree(With(tree[Root], path, i))
    <3>1. Tree(tree[Root])
      BY Trees, RootType
    <3>2. /\ path \notin DOMAIN tree[Root]
          /\ \/ Parent(path) = <<>>
             \/ Parent(path) \in DOMAIN tree[Root] /\ tree[Root][Parent(path)] = Dir
      BY <1>2 DEF Exists, HasParent, IsDirectory
    <3> QED
      BY <3>1, <3>2, WithFile
  <2> QED
    BY <2>1, <2>3, <2>4
<1>3. CASE file' = [files EXCEPT ![h] = NotOpened] /\ UNCHANGED <<tree, data>>
  BY <1>3, DataUnchanged DEF Opens
<1> QED
  BY <1>1, <1>2, <1>3 DEF OpenFile

\* One File variable holds a new File; at most a listing of another has advanced.
Renewed(h) ==
    /\ Opens(file'[h])
    /\ file' \in [Handles -> {NotOpened} \cup Directories \cup Streams]
    /\ \A j \in Handles \ {h} :
          file'[j] = file[j] \/ (file[j] \in Directories /\ file'[j] \in Directories)

\* Opening or closing one File leaves the others alone.
LEMMA RenewsOne ==
  ASSUME TypeOK, NEW h \in Handles, NEW r, Opens(r), file' = [file EXCEPT ![h] = r]
  PROVE  Renewed(h)
<1>1. file \in [Handles -> {NotOpened} \cup Directories \cup Streams]
  BY DEF TypeOK
<1>2. r \in {NotOpened} \cup Directories \cup Streams
  BY DEF Opens
<1> HIDE DEF Opens
<1> QED
  BY <1>1, <1>2 DEF Renewed

\* The entries of a directory are paths.
LEMMA EntriesType ==
  ASSUME TypeOK, NEW path
  PROVE  Entries(path) \in SUBSET Listed
<1>1. DOMAIN tree[Root] \subseteq Paths
  BY RootType DEF TypeOK
<1>2. \A q \in Children(path) : q \in Paths /\ (tree[Root][q] = Dir) \in BOOLEAN
  BY <1>1 DEF Children, Inside
<1>3. ASSUME NEW e \in Entries(path) PROVE e \in Listed
  <2>1. PICK q \in Children(path) : e = [path |-> q, dir |-> tree[Root][q] = Dir]
    BY DEF Entries
  <2> DEFINE d == tree[Root][q] = Dir
  <2>2. e = [path |-> q, dir |-> d] /\ q \in Paths /\ d \in BOOLEAN
    BY <1>2, <2>1
  <2> HIDE DEF d
  <2> QED
    BY <2>2 DEF Listed
<1> QED
  BY <1>3

\* A directory that is open lists what it had then.
LEMMA DirectoryType ==
  ASSUME TypeOK, NEW path \in Paths \cup {<<>>}
  PROVE  Directory(Root, path, Entries(path)) \in Directories
BY RootType, EntriesType DEF Directory, Directories

\* open() changes one File, and leaves the tree it opens it in well formed.
LEMMA OpenStep ==
  ASSUME TypeOK, TreeIsClosed, NEW h \in Handles, NEW path \in Paths \cup {<<>>},
         NEW mode \in Modes, Open(h, path, mode)
  PROVE  /\ DataKept /\ Renewed(h)
         /\ \/ UNCHANGED tree
            \/ \E t : Tree(t) /\ tree' = [tree EXCEPT ![Root] = t]
<1>1. CASE path = <<>> \/ IsDirectory(path)
  <2> DEFINE r == Directory(Root, path, Entries(path))
  <2>1. file' = [file EXCEPT ![h] = r] /\ UNCHANGED <<tree, data>>
    BY <1>1 DEF Open
  <2>2. Opens(r)
    BY DirectoryType DEF Opens
  <2> HIDE DEF r
  <2> QED
    BY <2>1, <2>2, DataUnchanged, RenewsOne
<1>2. CASE ~(path = <<>> \/ IsDirectory(path))
  <2>1. OpenFile(file, h, path, mode) /\ path \in Paths
    BY <1>2 DEF Open
  <2> QED
    BY <2>1, OpenFileStep, RenewsOne
<1> QED
  BY <1>1, <1>2

\* openNextFile() changes one File, and may make the next one anew.
LEMMA OpenNextFileStep ==
  ASSUME TypeOK, TreeIsClosed, NEW h \in Handles, NEW g \in Handles,
         NEW mode \in Modes, OpenNextFile(h, g, mode)
  PROVE  /\ DataKept /\ \E j \in Handles : Renewed(j)
         /\ \/ UNCHANGED tree
            \/ \E t : Tree(t) /\ tree' = [tree EXCEPT ![Root] = t]
<1>1. file[h] \in Directories
  BY Kinds DEF OpenNextFile, Listing
<1>2. PICK e \in file[h].left : NextFile(h, g, e, mode) \/ NextDirectory(h, g, e)
  BY DEF OpenNextFile
<1> DEFINE rest == [file EXCEPT ![h].left = @ \ {e}]
<1>3. e.path \in Paths /\ e.path \in Paths \cup {<<>>}
  BY <1>1 DEF Directories, Listed
<1>4. /\ rest \in [Handles -> {NotOpened} \cup Directories \cup Streams]
      /\ rest[h] \in Directories /\ \A j \in Handles \ {h} : rest[j] = file[j]
  <2>1. file \in [Handles -> {NotOpened} \cup Directories \cup Streams]
    BY DEF TypeOK
  <2> DEFINE r == [file[h] EXCEPT !.left = file[h].left \ {e}]
  <2>2. r \in Directories
    BY <1>1 DEF Directories
  <2>3. rest = [file EXCEPT ![h] = r]
    OBVIOUS
  <2> HIDE DEF r
  <2> QED
    BY <2>1, <2>2, <2>3
<1>5. ASSUME NEW r, Opens(r), file' = [rest EXCEPT ![g] = r] PROVE Renewed(g)
  <2>1. r \in {NotOpened} \cup Directories \cup Streams
    BY <1>5 DEF Opens
  <2> HIDE DEF rest
  <2> QED
    BY <1>1, <1>4, <1>5, <2>1 DEF Renewed
<1>6. CASE NextFile(h, g, e, mode)
  <2>1. OpenFile(rest, g, e.path, mode)
    BY <1>6 DEF NextFile
  <2> HIDE DEF rest
  <2> QED
    BY <1>3, <1>5, <2>1, OpenFileStep
<1>7. CASE NextDirectory(h, g, e) /\ IsDirectory(e.path)
  <2>1. /\ file' = [rest EXCEPT ![g] = Directory(Root, e.path, Entries(e.path))]
        /\ UNCHANGED <<tree, data>>
    BY <1>7 DEF NextDirectory
  <2>2. Opens(Directory(Root, e.path, Entries(e.path)))
    BY <1>3, DirectoryType DEF Opens
  <2> QED
    BY <1>5, <2>1, <2>2, DataUnchanged
<1>8. CASE NextDirectory(h, g, e) /\ ~IsDirectory(e.path)
  <2>1. file' = rest /\ UNCHANGED <<tree, data>>
    BY <1>8 DEF NextDirectory
  <2> HIDE DEF rest
  <2>2. Renewed(h)
    BY <1>4, <2>1 DEF Renewed, Opens
  <2> QED
    BY <2>1, <2>2, DataUnchanged
<1> QED
  BY <1>2, <1>6, <1>7, <1>8

\* What becomes of the File variables and of the files in a step.
LEMMA FileStep ==
  ASSUME TypeOK, TreeIsClosed, Next
  PROVE  \/ \E h \in Handles : StreamCall(h)
         \/ UNCHANGED <<data, file>>
         \/ DataKept /\ \E h \in Handles : Renewed(h)
<1>1. ASSUME NEW h \in Handles, RewindDirectory(h) PROVE DataKept /\ Renewed(h)
  <2> DEFINE r == [file[h] EXCEPT !.left = Entries(file[h].path)]
  <2>1. file' = [file EXCEPT ![h] = r] /\ UNCHANGED data
    BY <1>1 DEF RewindDirectory
  <2>2. r \in Directories
    <3>1. file[h] \in Directories
      BY <1>1, Kinds DEF RewindDirectory, Listing
    <3> QED
      BY <3>1, EntriesType DEF Directories
  <2>3. Opens(r)
    BY <2>2 DEF Opens
  <2> HIDE DEF r
  <2> QED
    BY <2>1, <2>3, DataUnchanged, RenewsOne
<1>2. ASSUME NEW h \in Handles, Close(h) PROVE DataKept /\ Renewed(h)
  <2>1. Opens(NotOpened)
    BY DEF Opens
  <2> QED
    BY <1>2, <2>1, DataUnchanged, RenewsOne DEF Close
<1>3. ASSUME FileCalls PROVE \/ \E h \in Handles : StreamCall(h)
                             \/ DataKept /\ \E h \in Handles : Renewed(h)
  BY <1>1, <1>2, <1>3, OpenNextFileStep DEF FileCalls, StreamCall
<1>4. ASSUME CardCalls PROVE \/ UNCHANGED <<data, file>>
                             \/ DataKept /\ \E h \in Handles : Renewed(h)
  <2>1. ASSUME NEW q \in Paths, RemoveFile(q) \/ Mkdir(q) \/ Rmdir(q)
        PROVE  UNCHANGED <<data, file>>
    BY <2>1 DEF RemoveFile, Mkdir, Rmdir
  <2>2. ASSUME NEW p \in Pins, Begin(p) PROVE UNCHANGED <<data, file>>
    BY <2>2 DEF Begin
  <2> QED
    BY <1>4, <2>1, <2>2, OpenStep DEF CardCalls
<1> QED
  BY <1>3, <1>4 DEF Next

\* What becomes of the trees: one of them, at the root, may become another tree.
LEMMA TreeStep ==
  ASSUME TypeOK, TreeIsClosed, Next
  PROVE  \/ UNCHANGED tree
         \/ \E t : Tree(t) /\ tree' = [tree EXCEPT ![Root] = t]
<1>1. Tree(tree[Root])
  BY Trees, RootType
<1> DEFINE New(t) == Tree(t) /\ tree' = [tree EXCEPT ![Root] = t]
<1>2. ASSUME NEW path \in Paths, RemoveFile(path) PROVE \E t : New(t)
  <2>1. Tree(Without(tree[Root], {path}))
    <3>1. path \in DOMAIN tree[Root] => tree[Root][path] # Dir
      BY <1>2 DEF RemoveFile, IsDirectory, Exists
    <3> QED
      BY <1>1, <3>1, WithoutFile
  <2>2. tree' = [tree EXCEPT ![Root] = Without(tree[Root], {path})] /\ UNCHANGED data
    BY <1>2 DEF RemoveFile
  <2> QED
    BY <2>1, <2>2
<1>3. ASSUME NEW path \in Paths, Mkdir(path) PROVE \E t : New(t)
  <2> DEFINE u == WithDirs(tree[Root], Ancestors(path) \cup {path})
  <2>1. Tree(u)
    <3>1. \A p \in Ancestors(path) : p \in DOMAIN tree[Root] => tree[Root][p] = Dir
      BY <1>3 DEF Mkdir, IsFile, IsDirectory, Exists
    <3> QED
      BY <1>1, <3>1, WithAncestors
  <2>2. tree' = [tree EXCEPT ![Root] = u] /\ UNCHANGED data
    BY <1>3 DEF Mkdir
  <2> HIDE DEF u
  <2> QED
    BY <2>1, <2>2
<1>4. ASSUME NEW path \in Paths, Rmdir(path) PROVE \E t : New(t)
  <2> DEFINE gone == {path} \cup {q \in DOMAIN tree[Root] : IsStrictPrefix(path, q)}
             u == Without(tree[Root], gone)
  <2>1. Tree(u)
    BY <1>1, WithoutDir
  <2>2. tree' = [tree EXCEPT ![Root] = u] /\ UNCHANGED data
    BY <1>4 DEF Rmdir, Inside
  <2> HIDE DEF u
  <2> QED
    BY <2>1, <2>2
<1>5. ASSUME NEW h \in Handles, NEW path \in Paths \cup {<<>>}, NEW mode \in Modes,
             Open(h, path, mode)
      PROVE  UNCHANGED tree \/ \E t : New(t)
  BY <1>5, OpenStep
<1>6. ASSUME NEW p \in Pins, Begin(p) PROVE UNCHANGED tree
  BY <1>6 DEF Begin
<1>7. ASSUME NEW h \in Handles, NEW g \in Handles, NEW mode \in Modes,
             OpenNextFile(h, g, mode)
      PROVE  UNCHANGED tree \/ \E t : New(t)
  BY <1>7, OpenNextFileStep
<1>9. ASSUME NEW h \in Handles,
             RewindDirectory(h) \/ Close(h) \/ StreamCall(h)
      PROVE  UNCHANGED tree
  BY <1>9 DEF RewindDirectory, Close, StreamCall, Position, Peek, Read, Seek, ReadMany, Write
<1> HIDE DEF New
<1>8. UNCHANGED tree \/ \E t : New(t)
  BY <1>2, <1>3, <1>4, <1>5, <1>6, <1>7, <1>9
     DEF Next, CardCalls, FileCalls, StreamCall
<1> QED
  BY <1>8 DEF New
-----------------------------------------------------------------------------
(* The streams and what they have read.                                    *)

\* A stream f over the contents c is in step with what it read, which is in order.
Faithful(f, c) == InStep(f) /\ Orderly(f, c)

\* ReadsInOrder and Tracked, File by File.
LEMMA FaithfulStreams ==
  Tracked /\ ReadsInOrder <=>
      \A h \in Handles : IsStream(h) => Faithful(file[h], data[file[h].i])
BY DEF Tracked, ReadsInOrder, Faithful, Content

\* The same of the state after a step.
LEMMA FaithfulAfter ==
  ASSUME \A h \in Handles : IsStream(h)' => Faithful(file'[h], data'[file'[h].i])
  PROVE  (Tracked /\ ReadsInOrder)'
BY DEF Tracked, ReadsInOrder, Faithful, Content

\* A stream that has read nothing is faithful.
LEMMA FaithfulAnew ==
  ASSUME NEW g \in Streams, NEW c, g.got = <<>>, g.from = g.pos, g.skip = 0
  PROVE  Faithful(g, c)
<1>1. Len(g.got) = 0 /\ g.from \in Nat /\ DOMAIN g.got = {}
  BY EmptySeq DEF Streams
<1> QED
  BY <1>1 DEF Faithful, InStep, Orderly

\* A faithful stream that reads on stays faithful.
LEMMA FaithfulMore ==
  ASSUME NEW f \in Streams, NEW g \in Streams, Content(f) \in Contents,
         Faithful(f, Content(f)), More(f, g)
  PROVE  Faithful(g, Content(f))
<1> DEFINE c == Content(f)  m == Len(f.got)
<1>1. PICK n \in Nat : /\ n > 0 => f.pos + n <= Len(c)
                       /\ g.got = f.got \o Block(f, n) /\ g.from = f.from
                       /\ g.skip >= f.skip /\ g.pos = f.pos + n + (g.skip - f.skip)
  BY DEF More
<1> DEFINE p == f.pos  s == f.skip  t == g.skip  o == f.from
<1>2. /\ f.got \in Seq(Found) /\ m \in Nat /\ DOMAIN f.got = 1..m /\ Len(c) \in Nat
      /\ o \in Nat /\ p \in Nat /\ s \in Nat /\ t \in Nat
  BY LenProperties DEF Streams, Contents
<1>3. /\ Block(f, n) \in Seq(Found) /\ Len(Block(f, n)) = n
      /\ \A j \in 1..n : Block(f, n)[j] = [at |-> f.pos + j - 1, byte |-> c[f.pos + j]]
  BY <1>1, BlockType
<1>4. /\ Len(g.got) = m + n /\ g.got \in Seq(Found)
      /\ \A j \in 1..(m + n) : g.got[j] = IF j <= m THEN f.got[j] ELSE Block(f, n)[j - m]
  <2> DEFINE a == f.got  b == Block(f, n)
  <2>1. a \in Seq(Found) /\ b \in Seq(Found) /\ Len(a) = m /\ Len(b) = n
    BY <1>2, <1>3
  <2>2. g.got = a \o b
    BY <1>1
  <2> HIDE DEF a, b, m
  <2>3. /\ Len(a \o b) = m + n /\ a \o b \in Seq(Found)
        /\ \A j \in 1..(m + n) : (a \o b)[j] = IF j <= m THEN a[j] ELSE b[j - m]
    BY <2>1, ConcatProperties
  <2> QED
    BY <2>2, <2>3 DEF a, b
<1>5. DOMAIN g.got = 1..(m + n)
  BY <1>4, LenProperties
<1>6. /\ p = o + m + s
      /\ \A j \in 1..m : f.got[j].at \in o..(p - 1)
  BY <1>2 DEF Faithful, InStep
<1>6a. Orderly(f, c) /\ DOMAIN f.got = 1..m
  BY <1>2 DEF Faithful
<1> HIDE DEF c, m
<1>6b. \A j \in 1..m : /\ f.got[j].at < Len(c)
                       /\ f.got[j].byte = c[f.got[j].at + 1]
                       /\ s = 0 => f.got[j].at = o + j - 1
  BY <1>6a DEF Orderly
<1>6c. \A j, k \in 1..m : j < k => f.got[j].at < f.got[k].at
  BY <1>6a DEF Orderly
<1>6d. /\ n > 0 => p + n <= Len(c)
       /\ g.from = o /\ t >= s /\ g.pos = p + n + (t - s)
  BY <1>1
<1> HIDE DEF p, s, t, o
<1>7. ASSUME NEW j \in 1..(m + n)
      PROVE  \/ j \in 1..m /\ g.got[j] = f.got[j]
             \/ /\ j > m /\ g.got[j].at = p + (j - m) - 1
                /\ g.got[j].byte = c[p + (j - m)]
  <2>1. CASE j <= m
    BY <1>2, <1>4, <2>1
  <2>2. CASE j > m
    <3>1. j - m \in 1..n
      BY <1>2, <2>2
    <3>2. g.got[j] = Block(f, n)[j - m]
      BY <1>2, <1>4, <2>2
    <3> QED
      BY <1>3, <2>2, <3>1, <3>2 DEF p
  <2> QED
    BY <1>2, <2>1, <2>2
<1>8. ASSUME NEW j \in 1..(m + n)
      PROVE  /\ g.got[j].at \in o..(g.pos - 1) /\ g.got[j].at < Len(c)
             /\ g.got[j].byte = c[g.got[j].at + 1]
             /\ t = 0 => g.got[j].at = o + j - 1
  <2>1. CASE j \in 1..m /\ g.got[j] = f.got[j]
    <3>1. f.got[j].at \in o..(p - 1) /\ p <= g.pos /\ g.pos \in Nat
      <4>1. p <= g.pos /\ g.pos \in Nat
        BY <1>2, <1>6d
      <4> QED
        BY <1>6, <2>1, <4>1
    <3>2. g.got[j].at \in o..(g.pos - 1)
      BY <1>2, <2>1, <3>1
    <3>3. t = 0 => s = 0
      BY <1>2, <1>6d
    <3> QED
      BY <1>6b, <2>1, <3>2, <3>3
  <2>2. CASE /\ j > m /\ g.got[j].at = p + (j - m) - 1
             /\ g.got[j].byte = c[p + (j - m)]
    <3>1. p + n <= Len(c) /\ j - m \in 1..n
      BY <1>2, <1>6d, <2>2
    <3>2. g.got[j].at + 1 = p + (j - m)
      BY <1>2, <2>2, <3>1
    <3>3. g.got[j].at \in o..(g.pos - 1) /\ g.got[j].at < Len(c)
      <4>1. o <= p
        BY <1>2, <1>6
      <4> QED
        BY <1>2, <1>6d, <2>2, <3>1, <4>1
    <3>4. t = 0 => g.got[j].at = o + j - 1
      <4>1. t = 0 => p = o + m
        BY <1>2, <1>6, <1>6d
      <4> QED
        BY <1>2, <2>2, <3>1, <4>1
    <3> QED
      BY <2>2, <3>2, <3>3, <3>4
  <2> QED
    BY <1>7, <2>1, <2>2
<1>9. ASSUME NEW j \in 1..(m + n), NEW k \in 1..(m + n), j < k
      PROVE  g.got[j].at < g.got[k].at
  <2>1. CASE k \in 1..m /\ g.got[k] = f.got[k]
    <3>1. j \in 1..m
      BY <1>2, <1>9, <2>1
    <3>2. g.got[j] = f.got[j]
      BY <1>2, <1>7, <3>1
    <3> QED
      BY <1>9, <1>6c, <2>1, <3>1, <3>2
  <2>2. CASE k > m /\ g.got[k].at = p + (k - m) - 1
    <3>1. CASE j \in 1..m /\ g.got[j] = f.got[j]
      <4>1. g.got[j].at \in o..(p - 1)
        BY <1>6, <3>1
      <4> QED
        BY <1>2, <2>2, <4>1
    <3>2. CASE j > m /\ g.got[j].at = p + (j - m) - 1
      BY <1>2, <1>9, <2>2, <3>2
    <3> QED
      BY <1>7, <3>1, <3>2
  <2> QED
    BY <1>7, <2>1, <2>2
<1>10. g.pos = o + (m + n) + t /\ g.from = o
  <2>1. p = o + m + s
    BY <1>6
  <2> QED
    BY <1>2, <1>6d, <2>1
<1>11. Faithful(g, c)
  <2>1. InStep(g)
    BY <1>4, <1>5, <1>8, <1>10 DEF InStep, t
  <2>2. Orderly(g, c)
    BY <1>5, <1>8, <1>9, <1>10 DEF Orderly, t
  <2> QED
    BY <2>1, <2>2 DEF Faithful
<1> QED
  BY <1>11 DEF c

\* What the File variables and the files satisfy together.
FilesInv == /\ data \in [Files -> Contents]
            /\ file \in [Handles -> {NotOpened} \cup Directories \cup Streams]
            /\ StreamsApart /\ Tracked /\ ReadsInOrder

\* A call on an open file keeps the streams apart and faithful ...
LEMMA FilesAfterStreamCall ==
  ASSUME SdInv, ReadsInOrder, NEW h \in Handles, StreamCall(h)
  PROVE  FilesInv'
<1>1. PICK g : /\ Became(file[h], g) /\ file' = [file EXCEPT ![h] = g]
               /\ \/ UNCHANGED data
                  \/ /\ Anew(file[h], g)
                     /\ \E x \in Contents : data' = [data EXCEPT ![file[h].i] = x]
  BY StreamStep DEF SdInv
<1>2. /\ IsStream(h) /\ file[h] \in Streams /\ g \in Streams /\ g.i = file[h].i
      /\ g.i \in Files
  <2>1. IsStream(h) /\ file[h] \in Streams
    BY StreamStep, Kinds DEF SdInv
  <2> QED
    BY <1>1, <2>1 DEF Became, Streams
<1>3. /\ data \in [Files -> Contents]
      /\ file \in [Handles -> {NotOpened} \cup Directories \cup Streams]
  BY DEF SdInv, TypeOK
<1>4. /\ data' \in [Files -> Contents]
      /\ \A i \in Files : i # g.i => data'[i] = data[i]
  BY <1>1, <1>2, <1>3
<1>5. /\ file' \in [Handles -> {NotOpened} \cup Directories \cup Streams]
      /\ file'[h] = g /\ IsStream(h)'
      /\ \A j \in Handles \ {h} : file'[j] = file[j] /\ (IsStream(j)' <=> IsStream(j))
  BY <1>1, <1>2, <1>3 DEF IsStream, Streams
<1>6. \A j \in Handles : IsStream(j)' => IsStream(j) /\ file'[j].i = file[j].i
  BY <1>2, <1>5
<1>8. StreamsApart'
  BY <1>6 DEF SdInv, StreamsApart
<1>9. Faithful(g, data'[g.i])
  <2>1. Faithful(file[h], Content(file[h])) /\ Content(file[h]) \in Contents
    BY <1>2, <1>3, FaithfulStreams DEF SdInv, Content
  <2>2. CASE Anew(file[h], g)
    BY <1>2, <2>2, FaithfulAnew DEF Anew
  <2>3. CASE ~Anew(file[h], g)
    <3>1. data'[g.i] = Content(file[h])
      BY <1>1, <1>2, <2>3 DEF Content
    <3>2. CASE Still(file[h], g)
      BY <2>1, <3>1, <3>2 DEF Still, Faithful, InStep, Orderly
    <3>3. CASE More(file[h], g)
      BY <1>2, <2>1, <3>1, <3>3, FaithfulMore
    <3> QED
      BY <1>1, <2>3, <3>2, <3>3 DEF Became
  <2> QED
    BY <2>2, <2>3
<1>10. ASSUME NEW j \in Handles \ {h}, IsStream(j)'
       PROVE  Faithful(file'[j], data'[file'[j].i])
  <2>1. /\ IsStream(j) /\ file'[j] = file[j] /\ file[j].i # g.i /\ file[j].i \in Files
    BY <1>2, <1>3, <1>5, <1>10, Kinds DEF SdInv, StreamsApart, Streams
  <2>2. data'[file[j].i] = data[file[j].i]
    BY <1>4, <2>1
  <2> QED
    BY <2>1, <2>2, FaithfulStreams DEF SdInv
<1>11. (Tracked /\ ReadsInOrder)'
  <2>1. \A j \in Handles : IsStream(j)' => Faithful(file'[j], data'[file'[j].i])
    BY <1>5, <1>9, <1>10
  <2> QED
    BY <2>1, FaithfulAfter
<1> QED
  BY <1>4, <1>5, <1>8, <1>11 DEF FilesInv

\* ... and so does an open or a close ...
LEMMA FilesAfterRenewal ==
  ASSUME SdInv, ReadsInOrder, DataKept, NEW h \in Handles, Renewed(h)
  PROVE  FilesInv'
<1>1. data' \in [Files -> Contents]
  BY DEF DataKept
<1>2. /\ file' \in [Handles -> {NotOpened} \cup Directories \cup Streams]
      /\ Opens(file'[h])
  BY DEF Renewed
<1>3. \A j \in Handles \ {h} : IsStream(j)' => IsStream(j) /\ file'[j] = file[j]
  BY DEF Renewed, IsStream, Directories
<1>4. IsStream(h)' => /\ file'[h] \in Streams /\ file'[h].skip = 0
                      /\ file'[h].got = <<>> /\ file'[h].from = file'[h].pos
                      /\ \A k \in Handles : IsStream(k) => file[k].i # file'[h].i
  BY <1>2 DEF Opens, IsStream, Directories, NotOpened
<1>6. StreamsApart'
  BY <1>3, <1>4 DEF SdInv, StreamsApart
<1>7. ASSUME NEW j \in Handles, IsStream(j)'
      PROVE  Faithful(file'[j], data'[file'[j].i])
  <2>1. CASE j = h
    BY <1>4, <1>7, <2>1, FaithfulAnew
  <2>2. CASE j # h
    <3>1. IsStream(j) /\ file'[j] = file[j] /\ data'[file[j].i] = data[file[j].i]
      BY <1>3, <1>7, <2>2 DEF DataKept
    <3> QED
      BY <3>1, FaithfulStreams DEF SdInv
  <2> QED
    BY <2>1, <2>2
<1>8. (Tracked /\ ReadsInOrder)'
  BY <1>7, FaithfulAfter
<1> QED
  BY <1>1, <1>2, <1>6, <1>8 DEF FilesInv

\* ... and every step.
LEMMA FilesAfterStep ==
  ASSUME SdInv, ReadsInOrder, [Next]_vars
  PROVE  FilesInv'
<1>1. CASE UNCHANGED <<data, file>>
  <2>1. FilesInv
    BY DEF FilesInv, SdInv, TypeOK
  <2> QED
    BY <1>1, <2>1 DEF FilesInv, IsStream, StreamsApart, Tracked, ReadsInOrder, Content
<1>2. CASE Next
  BY <1>1, <1>2, FileStep, FilesAfterStreamCall, FilesAfterRenewal DEF SdInv
<1> QED
  BY <1>1, <1>2 DEF vars

-----------------------------------------------------------------------------
(* The card.                                                               *)

SdType == sd \in [begun : BOOLEAN, cspin : Pins \cup {0}, asked : Pins \cup {0},
                  noDevice : BOOLEAN]

\* The selected card of an SDClass keeps its type.
LEMMA SdStep ==
  ASSUME SdType, [Next]_vars
  PROVE  SdType'
<1>1. ASSUME NEW p \in Pins, Begin(p) PROVE SdType'
  <2> DEFINE none == ~sd.begun /\ Root = Cwd
             pin == IF sd.begun \/ Root = Cwd THEN sd.cspin ELSE p
             begun == sd.begun \/ Root # Cwd
  <2>1. sd' = [sd EXCEPT !.asked = p, !.noDevice = none, !.cspin = pin, !.begun = begun]
    BY <1>1 DEF Begin
  <2>2. /\ none \in BOOLEAN
        /\ pin \in Pins \cup {0} /\ begun \in BOOLEAN
    BY DEF SdType
  <2> HIDE DEF none, pin, begun
  <2> QED
    BY <2>1, <2>2 DEF SdType
<1>2. ASSUME FileCalls PROVE UNCHANGED sd
  BY <1>2 DEF FileCalls, OpenNextFile, RewindDirectory, Close, Position, Peek, Read, Seek,
              ReadMany, Write
<1>3. ASSUME CardCalls PROVE UNCHANGED sd \/ \E p \in Pins : Begin(p)
  BY <1>3 DEF CardCalls, RemoveFile, Mkdir, Rmdir, Open
<1> QED
  BY <1>1, <1>2, <1>3 DEF Next, vars, SdType

-----------------------------------------------------------------------------
(* The invariant.                                                          *)

\* Every step keeps the trees closed and the working directory untouched.
LEMMA TreesAfterStep ==
  ASSUME SdInv, [Next]_vars
  PROVE  /\ DOMAIN tree' = Places
         /\ \A p \in Places : Tree(tree'[p])
         /\ NothingOutsideCards'
<1>1. DOMAIN tree = Places /\ \A p \in Places : Tree(tree[p])
  BY Trees DEF SdInv, TypeOK
<1>3. CASE UNCHANGED tree
  BY <1>1, <1>3 DEF SdInv, NothingOutsideCards
<1>4. CASE \E t : Tree(t) /\ tree' = [tree EXCEPT ![Root] = t]
  <2>1. PICK t : Tree(t) /\ tree' = [tree EXCEPT ![Root] = t]
    BY <1>4
  <2>2. DOMAIN tree' = Places /\ \A p \in Places : Tree(tree'[p])
    BY <1>1, <2>1
  <2>3. {0} \cup Pins \subseteq Cards => Root # Cwd
    BY CwdIsNoCard DEF SdInv, TypeOK, Root, StorageGetRoot
  <2>4. NothingOutsideCards'
    BY <1>1, <2>1, <2>3 DEF SdInv, NothingOutsideCards, Places
  <2> QED
    BY <2>2, <2>4
<1> QED
  BY <1>3, <1>4, TreeStep DEF SdInv, vars

\* Every step keeps the invariants.
LEMMA SdStepInv ==
  ASSUME SdInv, ReadsInOrder, [Next]_vars
  PROVE  (SdInv /\ ReadsInOrder)'
<1>1. FilesInv'
  BY FilesAfterStep
<1>2. SdType'
  BY SdStep DEF SdInv, TypeOK, SdType
<1>3. /\ DOMAIN tree' = Places
      /\ \A p \in Places : Tree(tree'[p])
      /\ NothingOutsideCards'
  BY TreesAfterStep
<1>4. TypeOK'
  BY <1>1, <1>2, <1>3 DEF TypeOK, FilesInv, SdType, Tree
<1>5. TreeIsClosed'
  BY <1>3 DEF TreeIsClosed, Tree, Closed
<1> QED
  BY <1>1, <1>3, <1>4, <1>5 DEF SdInv, FilesInv

\* Whatever a sketch does with its cards, the trees stay well formed and on the
\* cards, and the streams apart and in step with what they read (SDClass, File).
THEOREM Invariance == Spec => []SdInv
<1>1. Init => SdInv /\ ReadsInOrder
  BY InitInv
<1>2. (SdInv /\ ReadsInOrder) /\ [Next]_vars => (SdInv /\ ReadsInOrder)'
  BY SdStepInv
<1> QED
  BY <1>1, <1>2, PTL DEF Spec

\* File::read() and read(buffer, n) return the bytes of the file in order, none
\* twice, and single reads alone leave no gap, whatever other Files do meanwhile.
THEOREM InOrder == Spec => []ReadsInOrder
<1>1. Init => SdInv /\ ReadsInOrder
  BY InitInv
<1>2. (SdInv /\ ReadsInOrder) /\ [Next]_vars => (SdInv /\ ReadsInOrder)'
  BY SdStepInv
<1> QED
  BY <1>1, <1>2, PTL DEF Spec

-----------------------------------------------------------------------------
\* A File that has failed stays failed where it is until it is opened anew.
LEMMA DeadStep ==
  ASSUME SdInv, [Next]_vars, NEW h \in Handles,
         IsStream(h), Failed(file[h]), IsStream(h)', file'[h].i = file[h].i
  PROVE  Failed(file'[h]) /\ file'[h].pos = file[h].pos
<1>1. CASE UNCHANGED file
  BY <1>1
<1>2. ASSUME NEW j \in Handles, StreamCall(j)
      PROVE  Failed(file'[h]) /\ file'[h].pos = file[h].pos
  <2>1. PICK g : Became(file[j], g) /\ file' = [file EXCEPT ![j] = g]
    BY <1>2, StreamStep DEF SdInv
  <2>2. file \in [Handles -> {NotOpened} \cup Directories \cup Streams]
    BY DEF SdInv, TypeOK
  <2>3. CASE j = h
    BY <2>1, <2>2, <2>3 DEF Became, Dead
  <2>4. CASE j # h
    BY <2>1, <2>2, <2>4
  <2> QED
    BY <2>3, <2>4
<1>3. ASSUME NEW j \in Handles, Renewed(j)
      PROVE  Failed(file'[h]) /\ file'[h].pos = file[h].pos
  <2>1. CASE j = h
    BY <1>3, <2>1 DEF Renewed, Opens, IsStream, NotOpened, Directories
  <2>2. CASE j # h
    BY <1>3, <2>2 DEF Renewed, IsStream, Directories
  <2> QED
    BY <2>1, <2>2
<1>4. Next => \/ \E j \in Handles : StreamCall(j)
              \/ UNCHANGED file
              \/ \E j \in Handles : Renewed(j)
  BY FileStep DEF SdInv
<1> QED
  BY <1>1, <1>2, <1>3, <1>4 DEF vars

\* Neither a seek nor a write brings a failed File back to life (File).
THEOREM StaysDead == Spec => DeadAfterEnd
<1> DEFINE Stays == \A h \in Handles :
        IsStream(h) /\ Failed(file[h]) /\ IsStream(h)' /\ file'[h].i = file[h].i =>
            Failed(file'[h]) /\ file'[h].pos = file[h].pos
<1>1. SdInv /\ [Next]_vars => [Stays]_vars
  BY DeadStep
<1> QED
  BY <1>1, Invariance, PTL DEF Spec, DeadAfterEnd
===============================================================================
