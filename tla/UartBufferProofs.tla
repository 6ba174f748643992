--------------------------- MODULE UartBufferProofs ---------------------------
(***************************************************************************)
(* Proofs about UartBuffer: its inductive invariant and the safety         *)
(* properties that follow from it, for any number of threads on either     *)
(* side, any capacity and any length of the calls.                         *)
(***************************************************************************)
EXTENDS UartBuffer, SequenceTheorems, TLAPS

\* What is cut off the front of a sequence and the rest make up the sequence.
LEMMA TakeAndDrop ==
  ASSUME NEW S, NEW s \in Seq(S), NEW n \in Nat, n <= Len(s)
  PROVE  /\ SubSeq(s, 1, n) \in Seq(S)
         /\ SubSeq(s, n + 1, Len(s)) \in Seq(S)
         /\ Len(SubSeq(s, 1, n)) = n
         /\ Len(SubSeq(s, n + 1, Len(s))) = Len(s) - n
         /\ SubSeq(s, 1, n) \o SubSeq(s, n + 1, Len(s)) = s
<1>1. Len(s) \in Nat /\ \A i \in 1 .. Len(s) : s[i] \in S
  BY LenProperties, ElementOfSeq
<1>2. SubSeq(s, 1, n) \in Seq(S) /\ Len(SubSeq(s, 1, n)) = n
  <2>1. \A i \in 1 .. n : s[i] \in S
    BY <1>1
  <2> QED
    BY <1>1, <2>1, SubSeqProperties
<1>3. /\ SubSeq(s, n + 1, Len(s)) \in Seq(S)
      /\ Len(SubSeq(s, n + 1, Len(s))) = Len(s) - n
  <2>1. \A i \in n + 1 .. Len(s) : s[i] \in S
    BY <1>1
  <2> QED
    BY <1>1, <2>1, SubSeqProperties
<1>4. SubSeq(s, 1, n) \o SubSeq(s, n + 1, Len(s)) = SubSeq(s, 1, Len(s))
  <2>1. 1 \in 1 .. Len(s) + 1 /\ n \in 1 - 1 .. Len(s) /\ Len(s) \in n .. Len(s)
    BY <1>1
  <2> QED
    BY <2>1, ConcatAdjacentSubSeq
<1> QED
  BY <1>2, <1>3, <1>4, SubSeqFull

\* The first bytes of a buffer stay the first ones when a byte is appended.
LEMMA PrefixOfAppend ==
  ASSUME NEW S, NEW s \in Seq(S), NEW e \in S, NEW n \in Nat, n <= Len(s)
  PROVE  SubSeq(Append(s, e), 1, n) = SubSeq(s, 1, n)
<1>1. CASE n = 0
  BY <1>1, SubSeqEmpty
<1>2. CASE n > 0
  <2>1. Append(s, e) = s \o <<e>> /\ <<e>> \in Seq(S)
    BY AppendIsConcat
  <2>2. 1 \in 1 .. Len(s) /\ n \in 1 .. Len(s)
    BY <1>2, LenProperties
  <2> QED
    BY <2>1, <2>2, SubSeqOfConcat1
<1> QED
  BY <1>1, <1>2

\* The capacity is a natural number below 2^16.
LEMMA CapacityIsNat == Capacity \in Nat
  BY UartAssumption DEF Capacity

\* The empty buffer, with everybody outside, satisfies the invariant.
LEMMA BufferInit == Init => BufferInv
<1> SUFFICES ASSUME Init PROVE BufferInv
  OBVIOUS
<1>1. TypeOK
  BY EmptySeq DEF Init, TypeOK, Places
<1>2. LockInv
  BY UartAssumption DEF Init, LockInv, Inside
<1>3. RoomInv
  BY CapacityIsNat, EmptySeq DEF Init, RoomInv, WithinCapacity
<1>4. PushInv /\ ReaderInv /\ NoSurprise
  BY EmptySeq DEF Init, PushInv, ReaderInv, NoSurprise
<1>5. Lossless
  BY ConcatEmptySeq, EmptySeq DEF Init, Lossless
<1> QED
  BY <1>1, <1>2, <1>3, <1>4, <1>5 DEF BufferInv

\* Push appends one byte of a writer that has room for it to the buffer and to the
\* history of the bytes sent.
LEMMA PushEffect ==
  ASSUME BufferInv, NEW t \in Threads, Push(t)
  PROVE  LET b == <<t, calls[t], pushed>>
         IN  /\ b \in Bytes /\ owner = t /\ at[t] = "writing" /\ want[t] > 0
             /\ buf' = Append(buf, b) /\ buf' \in Seq(Bytes)
             /\ sent' = Append(sent, b) /\ sent' \in Seq(Bytes)
             /\ Len(buf') = Len(buf) + 1 /\ Len(buf) \in Nat
             /\ \A i \in 1 .. Len(buf) : buf'[i] = buf[i]
             /\ buf'[Len(buf) + 1] = b
<1> DEFINE b == <<t, calls[t], pushed>>
<1>1. at[t] = "writing" /\ want[t] > 0 /\ t \in Writers
  BY DEF Push, BufferInv, RoomInv
<1>2. owner = t
  <2>1. sketch # "dead" \/ t \notin Mortal
    BY DEF Push, CanStep
  <2> QED
    BY <1>1, <2>1 DEF BufferInv, LockInv, Inside
<1>3. b \in Bytes
  BY <1>1 DEF BufferInv, TypeOK, Bytes
<1>4. buf' = Append(buf, b) /\ sent' = Append(sent, b)
  BY DEF Push, Appended
<1>5. buf \in Seq(Bytes) /\ sent \in Seq(Bytes)
  BY DEF BufferInv, TypeOK
<1>6. Len(buf) \in Nat
  BY <1>5, LenProperties
<1> HIDE DEF b
<1>7. /\ buf' \in Seq(Bytes) /\ Len(buf') = Len(buf) + 1
      /\ \A i \in 1 .. Len(buf) : buf'[i] = buf[i]
      /\ buf'[Len(buf) + 1] = b
  BY <1>3, <1>4, <1>5, AppendProperties
<1>8. sent' \in Seq(Bytes)
  BY <1>3, <1>4, <1>5, AppendProperties
<1> QED
  BY <1>1, <1>2, <1>3, <1>4, <1>6, <1>7, <1>8 DEF b

\* EndRead hands over the first bytes of the buffer and leaves the others.
LEMMA EndReadEffect ==
  ASSUME BufferInv, NEW t \in Threads, EndRead(t)
  PROVE  /\ owner = t /\ at[t] = "erasing" /\ t \in Readers
         /\ known[t] = 0 /\ front[t] = NoByte
         /\ got[t] \in Seq(Bytes) /\ got[t] \o buf' = buf
         /\ buf' \in Seq(Bytes) /\ Len(buf') <= Len(buf)
         /\ delivered' = delivered \o got[t] /\ delivered' \in Seq(Bytes)
<1>1. at[t] = "erasing" /\ t \in Readers /\ known[t] = 0 /\ front[t] = NoByte
  BY DEF EndRead, BufferInv, ReaderInv
<1>2. owner = t
  <2>1. sketch # "dead" \/ t \notin Mortal
    BY DEF EndRead, CanStep
  <2> QED
    BY <1>1, <2>1 DEF BufferInv, LockInv, Inside
<1>3. /\ buf \in Seq(Bytes) /\ got[t] \in Seq(Bytes) /\ delivered \in Seq(Bytes)
      /\ Len(got[t]) \in Nat /\ Len(buf) \in Nat
  BY LenProperties DEF BufferInv, TypeOK
<1>4. Len(got[t]) <= Len(buf) /\ got[t] = SubSeq(buf, 1, Len(got[t]))
  BY <1>1 DEF BufferInv, RoomInv
<1>5. buf' = SubSeq(buf, Len(got[t]) + 1, Len(buf))
  BY DEF EndRead
<1>6. got[t] \o buf' = buf /\ buf' \in Seq(Bytes) /\ Len(buf') <= Len(buf)
  <2> DEFINE n == Len(got[t])
             rest == SubSeq(buf, n + 1, Len(buf))
  <2>1. n \in Nat /\ n <= Len(buf)
    BY <1>3, <1>4
  <2> HIDE DEF n
  <2>2. /\ rest \in Seq(Bytes) /\ Len(rest) = Len(buf) - n
        /\ SubSeq(buf, 1, n) \o rest = buf
    BY <1>3, <2>1, TakeAndDrop
  <2> HIDE DEF rest
  <2>3. buf' = rest /\ got[t] = SubSeq(buf, 1, n)
    BY <1>4, <1>5 DEF n, rest
  <2> QED
    BY <1>3, <2>1, <2>2, <2>3
<1>7. delivered' = delivered \o got[t] /\ delivered' \in Seq(Bytes)
  BY <1>3, ConcatProperties DEF EndRead
<1> QED
  BY <1>1, <1>2, <1>3, <1>6, <1>7

\* Every step of a thread, and whatever happens to the sketch, preserves the
\* invariant.
LEMMA BufferStep == BufferInv /\ [Next]_vars => BufferInv'
<1> SUFFICES ASSUME BufferInv, [Next]_vars PROVE BufferInv'
  OBVIOUS
<1>0. buf \in Seq(Bytes) /\ Len(buf) \in Nat /\ Capacity \in Nat
  BY CapacityIsNat, LenProperties DEF BufferInv, TypeOK
<1> USE <1>0, UartAssumption DEF BufferInv, TypeOK
<1>1. ASSUME NEW t \in Threads, NEW n \in 1..MaxChunk, CallWrite(t, n)
      PROVE  BufferInv'
  <2>1. TypeOK'
    BY SMTT(40), <1>1 DEF CallWrite, Places
  <2>2. LockInv'
    BY <1>1 DEF CallWrite, CanStep, LockInv, Inside
  <2>3. RoomInv' /\ PushInv'
    BY ZenonT(60), <1>1 DEF CallWrite, CanStep, RoomInv, PushInv, WithinCapacity, LockInv, Inside
  <2>4. ReaderInv' /\ Lossless' /\ NoSurprise'
    BY <1>1 DEF CallWrite, CanStep, ReaderInv, Lossless, NoSurprise
  <2> QED
    BY <2>1, <2>2, <2>3, <2>4
<1>2. ASSUME NEW t \in Threads, NEW n \in 1..MaxChunk, CallRead(t, n)
      PROVE  BufferInv'
  <2>1. TypeOK'
    BY <1>2 DEF CallRead, Places
  <2>2. LockInv'
    BY <1>2 DEF CallRead, CanStep, LockInv, Inside
  <2>3. RoomInv' /\ PushInv'
    BY <1>2 DEF CallRead, CanStep, RoomInv, PushInv, WithinCapacity, LockInv, Inside
  <2>4. ReaderInv' /\ Lossless' /\ NoSurprise'
    BY SMTT(40), <1>2 DEF CallRead, CanStep, ReaderInv, Lossless, NoSurprise
  <2> QED
    BY <2>1, <2>2, <2>3, <2>4
<1>3. ASSUME NEW t \in Threads, NEW w \in {"size?", "front?"}, CallLook(t, w)
      PROVE  BufferInv'
  <2>1. TypeOK'
    BY <1>3 DEF CallLook, Places
  <2>2. LockInv'
    BY <1>3 DEF CallLook, CanStep, LockInv, Inside
  <2>3. RoomInv' /\ PushInv'
    BY <1>3 DEF CallLook, CanStep, RoomInv, PushInv, WithinCapacity, LockInv, Inside
  <2>4. ReaderInv' /\ Lossless' /\ NoSurprise'
    BY <1>3 DEF CallLook, CanStep, ReaderInv, Lossless, NoSurprise
  <2> QED
    BY <2>1, <2>2, <2>3, <2>4
<1>4. ASSUME NEW t \in Threads, GiveUp(t) PROVE BufferInv'
  <2>1. TypeOK'
    BY <1>4 DEF GiveUp, NotLooked, Places
  <2>2. LockInv'
    BY <1>4 DEF GiveUp, NotLooked, CanStep, LockInv, Inside
  <2>3. RoomInv' /\ PushInv'
    BY <1>4 DEF GiveUp, NotLooked, CanStep, RoomInv, PushInv, WithinCapacity,
       LockInv, Inside
  <2>4. ReaderInv' /\ Lossless' /\ NoSurprise'
    BY SMTT(40), <1>4 DEF GiveUp, NotLooked, CanStep, ReaderInv, Lossless, NoSurprise
  <2> QED
    BY <2>1, <2>2, <2>3, <2>4
<1>5. ASSUME NEW t \in Threads, BeginWrite(t) PROVE BufferInv'
  <2>1. TypeOK'
    BY <1>5 DEF BeginWrite, Lockable, Room, Smaller, Places
  <2>2. LockInv'
    BY SMTT(40), <1>5 DEF BeginWrite, Lockable, Room, Smaller, CanStep, LockInv, Inside
  <2>3. RoomInv' /\ PushInv'
    BY SMTT(40), <1>5 DEF BeginWrite, Lockable, Room, Smaller, CanStep, RoomInv, PushInv,
       WithinCapacity, LockInv, Inside
  <2>4. ReaderInv' /\ Lossless' /\ NoSurprise'
    BY <1>5 DEF BeginWrite, Lockable, Room, Smaller, CanStep, ReaderInv, Lossless,
       NoSurprise
  <2> QED
    BY <2>1, <2>2, <2>3, <2>4
<1>6. ASSUME NEW t \in Threads, EndWrite(t) PROVE BufferInv'
  <2>1. TypeOK'
    BY <1>6 DEF EndWrite, Places
  <2>2. LockInv'
    BY <1>6 DEF EndWrite, CanStep, LockInv, Inside
  <2>3. RoomInv' /\ PushInv'
    BY <1>6 DEF EndWrite, CanStep, RoomInv, PushInv, WithinCapacity, LockInv, Inside
  <2>4. ReaderInv' /\ Lossless' /\ NoSurprise'
    BY <1>6 DEF EndWrite, CanStep, ReaderInv, Lossless, NoSurprise
  <2> QED
    BY <2>1, <2>2, <2>3, <2>4
<1>7. ASSUME NEW t \in Threads, BeginRead(t) PROVE BufferInv'
  <2>1. TypeOK'
    BY <1>7 DEF BeginRead, Lockable, Smaller, Places
  <2>2. LockInv'
    BY SMTT(40), <1>7 DEF BeginRead, Lockable, Smaller, CanStep, LockInv, Inside
  <2>3. RoomInv' /\ PushInv'
    BY <1>7 DEF BeginRead, Lockable, Smaller, CanStep, RoomInv, PushInv,
       WithinCapacity, LockInv, Inside
  <2>4. ReaderInv' /\ Lossless' /\ NoSurprise'
    BY <1>7 DEF BeginRead, Lockable, Smaller, CanStep, ReaderInv, Lossless, NoSurprise
  <2> QED
    BY <2>1, <2>2, <2>3, <2>4
<1>8. ASSUME NEW t \in Threads, Copy(t) PROVE BufferInv'
  <2>1. TypeOK'
    BY SMTT(40), <1>8 DEF Copy, Places, RoomInv
  <2>2. LockInv'
    BY SMTT(40), <1>8 DEF Copy, CanStep, LockInv, Inside
  <2>3. RoomInv' /\ PushInv'
    BY SMTT(40), <1>8 DEF Copy, CanStep, RoomInv, PushInv, WithinCapacity, LockInv, Inside
  <2>4. ReaderInv' /\ Lossless' /\ NoSurprise'
    BY <1>8 DEF Copy, CanStep, ReaderInv, Lossless, NoSurprise
  <2> QED
    BY <2>1, <2>2, <2>3, <2>4
<1>9. ASSUME NEW t \in Threads, BeginLook(t) PROVE BufferInv'
  <2>1. TypeOK'
    BY <1>9 DEF BeginLook, Lockable, Places
  <2>2. LockInv'
    BY SMTT(40), <1>9 DEF BeginLook, Lockable, CanStep, LockInv, Inside
  <2>3. RoomInv' /\ PushInv'
    BY <1>9 DEF BeginLook, Lockable, CanStep, RoomInv, PushInv, WithinCapacity,
       LockInv, Inside
  <2>4. ReaderInv' /\ Lossless' /\ NoSurprise'
    BY <1>9 DEF BeginLook, Lockable, CanStep, ReaderInv, Lossless, NoSurprise
  <2> QED
    BY <2>1, <2>2, <2>3, <2>4
<1>10. ASSUME NEW t \in Threads, EndLook(t) PROVE BufferInv'
  <2>1. TypeOK'
    BY <1>10 DEF EndLook, Front, Places
  <2>2. LockInv'
    BY <1>10 DEF EndLook, Front, CanStep, LockInv, Inside
  <2>3. RoomInv' /\ PushInv'
    BY <1>10 DEF EndLook, Front, CanStep, RoomInv, PushInv, WithinCapacity, LockInv,
       Inside
  <2>4. ReaderInv' /\ Lossless' /\ NoSurprise'
    BY <1>10 DEF EndLook, Front, CanStep, ReaderInv, Lossless, NoSurprise
  <2> QED
    BY <2>1, <2>2, <2>3, <2>4
<1>11. CASE Suspend
  <2>1. TypeOK'
    BY <1>11 DEF Suspend, Places
  <2>2. LockInv'
    BY <1>11 DEF Suspend, LockInv, Inside
  <2>3. RoomInv' /\ PushInv'
    BY <1>11 DEF Suspend, RoomInv, PushInv, WithinCapacity, LockInv, Inside
  <2>4. ReaderInv' /\ Lossless' /\ NoSurprise'
    BY <1>11 DEF Suspend, ReaderInv, Lossless, NoSurprise
  <2> QED
    BY <2>1, <2>2, <2>3, <2>4
<1>12. CASE Resume
  <2>1. TypeOK'
    BY <1>12 DEF Resume, Places
  <2>2. LockInv'
    BY <1>12 DEF Resume, LockInv, Inside
  <2>3. RoomInv' /\ PushInv'
    BY <1>12 DEF Resume, RoomInv, PushInv, WithinCapacity, LockInv, Inside
  <2>4. ReaderInv' /\ Lossless' /\ NoSurprise'
    BY <1>12 DEF Resume, ReaderInv, Lossless, NoSurprise
  <2> QED
    BY <2>1, <2>2, <2>3, <2>4
<1>13. CASE Kill
  <2>1. TypeOK'
    BY <1>13 DEF Kill, Places
  <2>2. LockInv'
    BY <1>13 DEF Kill, LockInv, Inside
  <2>3. RoomInv' /\ PushInv'
    BY <1>13 DEF Kill, RoomInv, PushInv, WithinCapacity, LockInv, Inside
  <2>4. ReaderInv' /\ Lossless' /\ NoSurprise'
    BY <1>13 DEF Kill, ReaderInv, Lossless, NoSurprise
  <2> QED
    BY <2>1, <2>2, <2>3, <2>4
<1>14. CASE UNCHANGED vars
  <2>1. TypeOK'
    BY <1>14 DEF vars, Places
  <2>2. LockInv'
    BY <1>14 DEF vars, LockInv, Inside
  <2>3. RoomInv' /\ PushInv'
    BY <1>14 DEF vars, RoomInv, PushInv, WithinCapacity, LockInv, Inside
  <2>4. ReaderInv' /\ Lossless' /\ NoSurprise'
    BY <1>14 DEF vars, ReaderInv, Lossless, NoSurprise
  <2> QED
    BY <2>1, <2>2, <2>3, <2>4
<1>15. ASSUME NEW t \in Threads, Push(t) PROVE BufferInv'
  <2> DEFINE b == <<t, calls[t], pushed>>
  <2>0. /\ b \in Bytes /\ owner = t /\ at[t] = "writing" /\ want[t] > 0
        /\ buf' = Append(buf, b) /\ buf' \in Seq(Bytes)
        /\ sent' = Append(sent, b) /\ sent' \in Seq(Bytes)
        /\ Len(buf') = Len(buf) + 1
        /\ \A i \in 1 .. Len(buf) : buf'[i] = buf[i]
        /\ buf'[Len(buf) + 1] = b
    BY <1>15, PushEffect
  <2> HIDE DEF b
  <2>1. UNCHANGED <<owner, sketch, at, got, known, front, calls, delivered>>
    BY <1>15 DEF Push
  <2>2. pushed' = pushed + 1 /\ want' = [want EXCEPT ![t] = want[t] - 1]
    BY <1>15 DEF Push
  <2>3. \A u \in Threads : at[u] \in Inside => u = t
    BY <2>0 DEF LockInv, Inside
  <2>4. TypeOK'
    BY <2>0, <2>1, <2>2
  <2>5. LockInv' /\ ReaderInv'
    BY <2>1 DEF LockInv, ReaderInv
  <2>6. RoomInv'
    BY SMTT(40), <2>0, <2>1, <2>2, <2>3 DEF RoomInv, WithinCapacity, Inside
  <2>7. PushInv'
    <3>0. pushed \in Nat /\ pushed <= Len(buf)
      BY DEF PushInv
    <3>1. pushed' <= Len(buf') /\ \E u \in Threads : at'[u] = "writing"
      BY <2>0, <2>1, <2>2 DEF PushInv
    <3>2. ASSUME NEW i \in 1 .. pushed'
          PROVE  buf'[Len(buf') - pushed' + i] = <<t, calls[t], i - 1>>
      <4>1. CASE i = pushed + 1
        BY <2>0, <2>2, <4>1 DEF b
      <4>2. CASE i \in 1 .. pushed
        <5>1. buf[Len(buf) - pushed + i] = <<t, calls[t], i - 1>>
          BY <2>0, <4>2 DEF PushInv
        <5>2. Len(buf) - pushed + i \in 1 .. Len(buf)
          BY <3>0, <4>2
        <5>3. Len(buf') - pushed' + i = Len(buf) - pushed + i
          BY <2>0, <2>2, <3>0
        <5> QED
          BY <2>0, <5>1, <5>2, <5>3
      <4>3. i = pushed + 1 \/ i \in 1 .. pushed
        BY <2>2, <3>0
      <4> QED
        BY <4>1, <4>2, <4>3
    <3> QED
      BY <2>1, <2>3, <3>1, <3>2 DEF PushInv, Inside
  <2>8. Lossless'
    <3>1. <<b>> \in Seq(Bytes) /\ delivered \in Seq(Bytes) /\ sent \in Seq(Bytes)
      BY <2>0
    <3>2. buf' = buf \o <<b>> /\ sent' = sent \o <<b>>
      BY <2>0, <3>1, AppendIsConcat
    <3>3. sent = delivered \o buf
      BY DEF Lossless
    <3> HIDE DEF BufferInv, TypeOK
    <3>4. (delivered \o buf) \o <<b>> = delivered \o (buf \o <<b>>)
      BY <1>0, <3>1, ConcatAssociative
    <3> QED
      BY <2>1, <3>2, <3>3, <3>4 DEF Lossless
  <2>9. NoSurprise'
    <3>1. buf' # <<>> /\ (buf # <<>> => Head(buf') = Head(buf))
      BY <2>0, HeadTailAppend, EmptySeq
    <3> QED
      BY <2>0, <2>1, <3>1 DEF NoSurprise
  <2> QED
    BY <2>4, <2>5, <2>6, <2>7, <2>8, <2>9
<1>16. ASSUME NEW t \in Threads, EndRead(t) PROVE BufferInv'
  <2>0. /\ owner = t /\ at[t] = "erasing" /\ t \in Readers
        /\ known[t] = 0 /\ front[t] = NoByte
        /\ got[t] \in Seq(Bytes) /\ got[t] \o buf' = buf
        /\ buf' \in Seq(Bytes) /\ Len(buf') <= Len(buf)
        /\ delivered' = delivered \o got[t] /\ delivered' \in Seq(Bytes)
    BY <1>16, EndReadEffect
  <2>1. UNCHANGED <<sketch, want, pushed, known, front, calls, sent>>
    BY <1>16 DEF EndRead
  <2>2. /\ got' = [got EXCEPT ![t] = <<>>] /\ at' = [at EXCEPT ![t] = "out"]
        /\ owner' = NoThread
    BY <1>16 DEF EndRead
  <2>3. \A u \in Threads : at[u] \in Inside => u = t
    BY <2>0 DEF LockInv, Inside
  <2>4. Len(buf') \in Nat
    BY <2>0, LenProperties
  <2>5. TypeOK'
    BY <2>0, <2>1, <2>2 DEF Places
  <2>6. LockInv' /\ ReaderInv'
    BY <2>1, <2>2, <2>3 DEF LockInv, ReaderInv, Inside
  <2>7. RoomInv'
    BY <2>0, <2>1, <2>2, <2>3, <2>4 DEF RoomInv, WithinCapacity, Inside
  <2>8. PushInv'
    <3>1. pushed = 0
      BY <2>0, <2>3 DEF PushInv, Inside
    <3> QED
      BY <2>1, <2>2, <2>3, <2>4, <3>1 DEF Inside, PushInv
  <2>9. Lossless'
    <3>1. delivered \in Seq(Bytes) /\ sent = delivered \o buf
      BY DEF Lossless
    <3> HIDE DEF BufferInv, TypeOK
    <3>2. ASSUME NEW g \in Seq(Bytes), NEW rest \in Seq(Bytes)
          PROVE  (delivered \o g) \o rest = delivered \o (g \o rest)
      BY SMTT(40), <3>1, ConcatAssociative
    <3> QED
      BY <2>0, <2>1, <3>1, <3>2 DEF Lossless
  <2>10. NoSurprise'
    BY <2>0, <2>1, <2>4 DEF NoSurprise
  <2> QED
    BY <2>5, <2>6, <2>7, <2>8, <2>9, <2>10
<1> QED
  BY <1>1, <1>2, <1>3, <1>4, <1>5, <1>6, <1>7, <1>8, <1>9, <1>10, <1>11, <1>12,
     <1>13, <1>14, <1>15, <1>16 DEF Next, Call, Proceed

\* A byte names its writer, the writer's call and its place in the call.
LEMMA ByteParts ==
  ASSUME TypeOK
  PROVE  /\ Len(sent) \in Nat
         /\ \A i \in 1 .. Len(sent) :
              /\ sent[i][1] \in Threads /\ calls[sent[i][1]] \in Nat
              /\ sent[i][2] \in Nat /\ sent[i][3] \in Nat
<1>1. sent \in Seq(Bytes) /\ calls \in [Threads -> Nat]
  BY DEF TypeOK
<1>2. ASSUME NEW x \in Bytes
      PROVE  x[1] \in Threads /\ x[2] \in Nat /\ x[3] \in Nat
  BY DEF Bytes, Threads
<1>3. \A i \in 1 .. Len(sent) : sent[i] \in Bytes
  BY <1>1, ElementOfSeq
<1>4. Len(sent) \in Nat
  BY <1>1, LenProperties
<1>5. ASSUME NEW i \in 1 .. Len(sent)
      PROVE  /\ sent[i][1] \in Threads /\ calls[sent[i][1]] \in Nat
             /\ sent[i][2] \in Nat /\ sent[i][3] \in Nat
  <2>1. sent[i][1] \in Threads /\ sent[i][2] \in Nat /\ sent[i][3] \in Nat
    BY <1>2, <1>3
  <2> QED
    BY <1>1, <2>1
<1>6. \A i \in 1 .. Len(sent) :
         /\ sent[i][1] \in Threads /\ calls[sent[i][1]] \in Nat
         /\ sent[i][2] \in Nat /\ sent[i][3] \in Nat
  BY <1>5
<1> QED
  BY <1>4, <1>6

\* A byte that is sent continues its call or begins a new one.
LEMMA PushWhole ==
  ASSUME IInv, NEW t \in Threads, Push(t)
  PROVE  WholeInv' /\ WritesStayWhole'
<1> DEFINE b == <<t, calls[t], pushed>>
           n == Len(sent)
<1>1. /\ b \in Bytes /\ at[t] = "writing"
      /\ sent' = Append(sent, b) /\ sent \in Seq(Bytes) /\ n \in Nat
  BY PushEffect, LenProperties DEF IInv, BufferInv, TypeOK
<1>2. /\ TypeOK /\ calls[t] \in Nat /\ pushed \in Nat /\ pushed <= n
      /\ \A i \in 1 .. n : sent[i][2] \in Nat /\ calls[sent[i][1]] \in Nat
  <2>1. TypeOK /\ pushed <= n
    BY DEF IInv, BufferInv, WholeInv
  <2>2. calls[t] \in Nat /\ pushed \in Nat
    BY <2>1 DEF TypeOK
  <2> QED
    BY <2>1, <2>2, ByteParts
<1>3. UNCHANGED <<at, calls>> /\ pushed' = pushed + 1
  BY DEF Push
<1>4. b[1] = t /\ b[2] = calls[t] /\ b[3] = pushed
  OBVIOUS
<1> HIDE DEF b
<1>5. /\ Len(sent') = n + 1 /\ sent'[n + 1] = b
      /\ \A i \in 1 .. n : sent'[i] = sent[i]
  BY <1>1, AppendProperties
<1> HIDE DEF n
<1>6. \A u \in Threads : at[u] = "writing" => u = t
  BY <1>1 DEF IInv, BufferInv, LockInv, Inside
<1>7. /\ \A i \in 1 .. n : i > n - pushed =>
           sent[i] = <<t, calls[t], i - 1 - (n - pushed)>>
      /\ \A i \in 1 .. n - pushed : sent[i][2] < calls[sent[i][1]]
  BY <1>1 DEF IInv, WholeInv, n
<1>8. WholeInv'
  <2>1. pushed' <= Len(sent') /\ Len(sent') - pushed' = n - pushed
    BY <1>2, <1>3, <1>5, <1>1
  <2>2. ASSUME NEW i \in 1 .. n + 1, i > n - pushed
        PROVE  sent'[i] = <<t, calls[t], i - 1 - (n - pushed)>>
    <3>1. CASE i = n + 1
      <4>1. i - 1 - (n - pushed) = pushed
        BY <1>1, <1>2, <3>1
      <4> QED
        BY <1>5, <3>1, <4>1 DEF b
    <3>2. CASE i \in 1 .. n
      BY <1>5, <1>7, <2>2, <3>2
    <3>3. i = n + 1 \/ i \in 1 .. n
      BY <1>1
    <3> QED
      BY <3>1, <3>2, <3>3
  <2>3. ASSUME NEW i \in 1 .. n - pushed PROVE sent'[i][2] < calls[sent'[i][1]]
    BY <1>1, <1>2, <1>5, <1>7
  <2> QED
    BY <1>3, <1>5, <1>6, <2>1, <2>2, <2>3 DEF WholeInv
<1>9. WritesStayWhole'
  <2>1. ASSUME NEW i \in 1 .. n
        PROVE  \/ sent'[i+1][3] = 0
               \/ sent'[i+1] = <<sent'[i][1], sent'[i][2], sent'[i][3] + 1>>
    <3>1. CASE i = n /\ pushed = 0
      BY <1>4, <1>5, <3>1
    <3>2. CASE i = n /\ pushed > 0
      <4>1. n > n - pushed /\ n - 1 - (n - pushed) = pushed - 1
        BY <1>1, <1>2, <3>2
      <4>2. sent[n] = <<t, calls[t], pushed - 1>>
        BY <1>7, <3>2, <4>1
      <4>3. sent[n][1] = t /\ sent[n][2] = calls[t] /\ sent[n][3] + 1 = pushed
        BY <1>2, <4>2
      <4> QED
        BY <1>5, <3>2, <4>3 DEF b
    <3>3. CASE i < n
      <4>1. i \in 1 .. n - 1 /\ i + 1 \in 1 .. n
        BY <1>1, <3>3
      <4> QED
        BY <1>5, <4>1 DEF IInv, WritesStayWhole, Whole, n
    <3>4. (i = n /\ pushed = 0) \/ (i = n /\ pushed > 0) \/ i < n
      BY <1>1, <1>2
    <3> QED
      BY <3>1, <3>2, <3>3, <3>4
  <2>2. ASSUME NEW i \in 1 .. n + 1, NEW j \in 1 .. n + 1,
               i < j, sent'[i][1] = sent'[j][1]
        PROVE  \/ sent'[i][2] < sent'[j][2]
               \/ sent'[i][2] = sent'[j][2] /\ sent'[i][3] < sent'[j][3]
    <3>1. CASE j = n + 1 /\ i \in 1 .. n - pushed
      BY <1>1, <1>2, <1>4, <1>5, <1>7, <2>2, <3>1
    <3>2. CASE j = n + 1 /\ i > n - pushed
      <4>1. i \in 1 .. n /\ i - 1 - (n - pushed) < pushed
        BY <1>1, <1>2, <2>2, <3>2
      <4>2. sent[i] = <<t, calls[t], i - 1 - (n - pushed)>>
        BY <1>7, <3>2, <4>1
      <4> QED
        BY <1>4, <1>5, <3>2, <4>1, <4>2
    <3>3. CASE j # n + 1
      <4>1. i \in 1 .. n /\ j \in 1 .. n
        BY <1>1, <2>2, <3>3
      <4> QED
        BY <1>5, <2>2, <4>1 DEF IInv, WritesStayWhole, Whole, n
    <3>4. \/ j = n + 1 /\ i \in 1 .. n - pushed
          \/ j = n + 1 /\ i > n - pushed
          \/ j # n + 1
      BY <1>1, <1>2
    <3> QED
      BY <3>1, <3>2, <3>3, <3>4
  <2>3. Len(sent') - 1 = n
    BY <1>1, <1>5
  <2> QED
    BY <1>5, <2>1, <2>2, <2>3 DEF WritesStayWhole, Whole
<1> QED
  BY <1>8, <1>9

\* When a write() ends, its bytes become bytes of a call that has ended.
LEMMA EndWriteWhole ==
  ASSUME IInv, NEW t \in Threads, EndWrite(t)
  PROVE  WholeInv' /\ WritesStayWhole'
<1> DEFINE n == Len(sent)
<1>1. /\ at[t] = "writing" /\ n \in Nat /\ pushed \in Nat /\ pushed <= n
      /\ calls \in [Threads -> Nat]
      /\ \A i \in 1 .. n : sent[i][1] \in Threads /\ sent[i][2] \in Nat
  <2>1. TypeOK /\ pushed <= n /\ at[t] = "writing"
    BY DEF EndWrite, IInv, BufferInv, WholeInv
  <2>2. pushed \in Nat /\ calls \in [Threads -> Nat]
    BY <2>1 DEF TypeOK
  <2> QED
    BY <2>1, <2>2, ByteParts
<1>2. /\ sent' = sent /\ pushed' = 0 /\ at' = [at EXCEPT ![t] = "out"]
      /\ calls' = IF pushed > 0 THEN [calls EXCEPT ![t] = calls[t] + 1] ELSE calls
  BY DEF EndWrite
<1>3. \A u \in Threads : at'[u] # "writing"
  BY <1>1, <1>2 DEF IInv, BufferInv, TypeOK, LockInv, Inside
<1>4. /\ \A i \in 1 .. n : i > n - pushed =>
           sent[i] = <<t, calls[t], i - 1 - (n - pushed)>>
      /\ \A i \in 1 .. n - pushed : sent[i][2] < calls[sent[i][1]]
  BY <1>1 DEF IInv, WholeInv
<1> HIDE DEF n
<1>5. ASSUME NEW i \in 1 .. n PROVE sent[i][2] < calls'[sent[i][1]]
  <2>1. CASE i \in 1 .. n - pushed
    <3>1. sent[i][2] \in Nat /\ sent[i][2] < calls[sent[i][1]]
      BY <1>1, <1>4, <2>1
    <3> QED
      BY <1>1, <1>2, <3>1
  <2>2. CASE i > n - pushed
    <3>1. sent[i][1] = t /\ sent[i][2] = calls[t] /\ pushed > 0
      BY <1>1, <1>4, <2>2
    <3> QED
      BY <1>1, <1>2, <3>1
  <2> QED
    BY <1>1, <2>1, <2>2
<1>6. WholeInv'
  BY <1>1, <1>2, <1>3, <1>5 DEF WholeInv, n
<1>7. WritesStayWhole'
  BY <1>2 DEF IInv, WritesStayWhole
<1> QED
  BY <1>6, <1>7

\* The first state satisfies the whole invariant ...
LEMMA InitInv == Init => IInv
<1> SUFFICES ASSUME Init PROVE WholeInv /\ WritesStayWhole
  BY BufferInit DEF IInv
<1>1. sent = <<>> /\ Len(sent) = 0 /\ pushed = 0
  BY EmptySeq DEF Init
<1> QED
  BY <1>1 DEF WholeInv, WritesStayWhole, Whole

\* ... and every step preserves it.
LEMMA StepInv == IInv /\ [Next]_vars => IInv'
<1> SUFFICES ASSUME IInv, [Next]_vars PROVE WholeInv' /\ WritesStayWhole'
  BY BufferStep DEF IInv
<1>1. ASSUME NEW t \in Threads, Push(t) PROVE WholeInv' /\ WritesStayWhole'
  BY <1>1, PushWhole
<1>2. ASSUME NEW t \in Threads, EndWrite(t) PROVE WholeInv' /\ WritesStayWhole'
  BY <1>2, EndWriteWhole
<1>3. CASE /\ UNCHANGED <<sent, calls, pushed>>
           /\ \A u \in Threads :
                at'[u] = "writing" => at[u] = "writing" \/ pushed = 0
  <2>1. WritesStayWhole'
    BY <1>3 DEF IInv, WritesStayWhole
  <2>2. Len(sent) \in Nat /\ pushed \in Nat
    BY ByteParts DEF IInv, BufferInv, TypeOK
  <2>3. pushed' <= Len(sent')
    BY <1>3 DEF IInv, WholeInv
  <2>4. ASSUME NEW u \in Threads, at'[u] = "writing",
               NEW i \in 1 .. Len(sent), i > Len(sent) - pushed
        PROVE  sent[i] = <<u, calls[u], i - 1 - (Len(sent) - pushed)>>
    <3>1. at[u] = "writing"
      BY <1>3, <2>2, <2>4
    <3> QED
      BY <2>4, <3>1 DEF IInv, WholeInv
  <2>5. \A i \in 1 .. Len(sent) - pushed : sent[i][2] < calls[sent[i][1]]
    BY DEF IInv, WholeInv
  <2> QED
    BY <1>3, <2>1, <2>3, <2>4, <2>5 DEF WholeInv
<1>4. ASSUME NEW t \in Threads, BeginWrite(t)
      PROVE  UNCHANGED <<sent, calls, pushed>> /\ pushed = 0
  BY <1>4, UartAssumption
     DEF BeginWrite, Lockable, IInv, BufferInv, PushInv, LockInv, Inside
<1>5. ASSUME NEW t \in Threads, BeginWrite(t) PROVE WholeInv' /\ WritesStayWhole'
  BY <1>3, <1>4, <1>5
<1>6. at \in [Threads -> Places]
  BY DEF IInv, BufferInv, TypeOK
<1> QED
  BY ZenonT(60), <1>1, <1>2, <1>3, <1>5, <1>6
     DEF Next, vars, Call, Proceed, CallWrite, CallRead, CallLook, GiveUp,
         BeginRead, Copy, EndRead, BeginLook, EndLook, Suspend, Resume, Kill

\* Every variable keeps its type.
THEOREM TypeCorrect == Spec => []TypeOK
<1> QED
  BY InitInv, StepInv, PTL DEF Spec, IInv, BufferInv

\* The inductive invariant holds in every reachable state.
THEOREM Invariance == Spec => []IInv
<1> QED
  BY InitInv, StepInv, PTL DEF Spec

\* Whatever threads race for the buffer and whoever is killed inside, it holds no
\* more than its capacity, and loses, repeats and reorders no byte.
THEOREM NothingIsLost == Spec => [](WithinCapacity /\ Lossless)
<1>1. IInv => WithinCapacity /\ Lossless
  BY DEF IInv, BufferInv, RoomInv
<1> QED
  BY <1>1, Invariance, PTL

\* The bytes of one write() stay together, whoever else writes (copy_n under the
\* mutex).
THEOREM WholeWrites == Spec => []WritesStayWhole
<1>1. IInv => WritesStayWhole
  BY DEF IInv
<1> QED
  BY <1>1, Invariance, PTL

\* What size() and front() told a sole reader still holds when it reads.
THEOREM SoleReader == Spec => []NoSurprise
<1>1. IInv => NoSurprise
  BY DEF IInv, BufferInv
<1> QED
  BY <1>1, Invariance, PTL

-----------------------------------------------------------------------------
\* What is in the abstract queue: the bytes of the write() in progress are not.
Queue == SubSeq(buf, 1, Len(buf) - pushed)

\* When nothing is being written, the abstract queue is the buffer.
LEMMA QueueIsBuf == TypeOK /\ pushed = 0 => Queue = buf
<1> SUFFICES ASSUME TypeOK, pushed = 0 PROVE Queue = buf
  OBVIOUS
<1>1. buf \in Seq(Bytes) /\ Len(buf) \in Nat
  BY LenProperties DEF TypeOK
<1> QED
  BY <1>1, SubSeqFull DEF Queue

\* When a write() that appended something ends, its bytes enter the queue at once.
LEMMA EndWritePuts ==
  ASSUME BufferInv, NEW t \in Threads, EndWrite(t), pushed > 0
  PROVE  Fifo!Put(t, pushed) /\ t \in Writers /\ pushed \in 1 .. Capacity
<1> DEFINE k == Len(buf) - pushed
           last == SubSeq(buf, k + 1, Len(buf))
           run == [i \in 1 .. pushed |-> <<t, calls[t], i - 1>>]
<1>1. /\ buf \in Seq(Bytes) /\ Len(buf) \in Nat /\ pushed \in Nat
      /\ \A i \in 1 .. Len(buf) : buf[i] \in Bytes
  BY LenProperties, ElementOfSeq DEF BufferInv, TypeOK
<1>2. /\ t \in Writers /\ pushed <= Len(buf) /\ Len(buf) <= Capacity
      /\ \A i \in 1 .. pushed : buf[Len(buf) - pushed + i] = <<t, calls[t], i - 1>>
  BY DEF EndWrite, BufferInv, RoomInv, PushInv, WithinCapacity
<1>3. k \in Nat /\ k <= Len(buf) /\ Len(buf) = k + pushed
  BY <1>1, <1>2
<1> HIDE DEF k
<1>4. /\ SubSeq(buf, 1, k) \o last = buf /\ Len(SubSeq(buf, 1, k)) = k
      /\ last \in Seq(Bytes) /\ Len(last) = pushed
  BY <1>1, <1>3, TakeAndDrop
<1>5. ASSUME NEW i \in 1 .. pushed PROVE last[i] = <<t, calls[t], i - 1>>
  <2>1. \A j \in k + 1 .. Len(buf) : buf[j] \in Bytes
    BY <1>1, <1>3
  <2>2. /\ k + 1 \in Int /\ Len(buf) \in Int /\ i \in 1 .. Len(buf) - (k + 1) + 1
        /\ (k + 1) + i - 1 = k + i
    BY <1>1, <1>3
  <2>3. last[i] = buf[(k + 1) + i - 1]
    BY <2>1, <2>2, SubSeqProperties
  <2>4. k + i = Len(buf) - pushed + i
    BY <1>1, <1>3
  <2> HIDE DEF last
  <2> QED
    BY <1>2, <2>2, <2>3, <2>4
<1>6. last = run
  <2>1. DOMAIN last = 1 .. pushed /\ last = [i \in 1 .. pushed |-> last[i]]
    BY <1>4, LenProperties
  <2> QED
    BY <1>5, <2>1
<1>7. buf' = buf /\ pushed' = 0 /\ delivered' = delivered
  BY DEF EndWrite
<1>8. calls' = [calls EXCEPT ![t] = calls[t] + 1]
  BY DEF EndWrite
<1>9. Queue = SubSeq(buf, 1, k) /\ Queue' = buf
  <2>1. Queue' = SubSeq(buf, 1, Len(buf))
    BY <1>1, <1>7 DEF Queue
  <2> QED
    BY <1>1, <2>1, SubSeqFull DEF Queue, k
<1>10. Queue' = Queue \o run
  BY <1>4, <1>6, <1>9
<1>11. pushed <= Capacity - Len(Queue)
  BY <1>1, <1>2, <1>3, <1>4, <1>9, CapacityIsNat
<1>12. Fifo!Put(t, pushed)
  BY <1>7, <1>8, <1>10, <1>11, Zenon DEF Fifo!Put, Queue
<1> QED
  BY <1>1, <1>2, <1>12, CapacityIsNat

\* When a read() that found something ends, its bytes leave the queue at once.
LEMMA EndReadTakes ==
  ASSUME BufferInv, NEW t \in Threads, EndRead(t)
  PROVE  \/ \E n \in 1 .. Len(Queue) : Fifo!Take(n)
         \/ UNCHANGED <<Queue, calls, delivered>>
<1> DEFINE n == Len(got[t])
<1>1. /\ buf \in Seq(Bytes) /\ Len(buf) \in Nat /\ got[t] \in Seq(Bytes)
      /\ n \in Nat /\ delivered \in Seq(Bytes) /\ TypeOK
  BY LenProperties DEF BufferInv, TypeOK
<1>2. n <= Len(buf) /\ got[t] = SubSeq(buf, 1, n)
  BY DEF EndRead, BufferInv, RoomInv
<1>3. pushed = 0
  BY DEF EndRead, BufferInv, LockInv, PushInv, Inside
<1>4. Queue = buf
  BY <1>1, <1>3, QueueIsBuf
<1>5. /\ buf' = SubSeq(buf, n + 1, Len(buf)) /\ delivered' = delivered \o got[t]
      /\ pushed' = pushed /\ calls' = calls
  BY DEF EndRead
<1>6. buf' \in Seq(Bytes) /\ Len(buf') \in Nat
  BY EndReadEffect, LenProperties
<1>7. Queue' = buf'
  <2>1. Queue' = SubSeq(buf', 1, Len(buf'))
    BY <1>3, <1>5, <1>6 DEF Queue
  <2> QED
    BY <1>6, <2>1, SubSeqFull
<1> HIDE DEF n
<1>8. CASE n = 0
  <2>1. got[t] = <<>>
    BY <1>2, <1>8, SubSeqEmpty
  <2>2. delivered' = delivered
    BY <1>1, <1>5, <2>1, ConcatEmptySeq
  <2>3. buf' = buf
    BY <1>1, <1>5, <1>8, SubSeqFull
  <2> QED
    BY <1>4, <1>5, <1>7, <2>2, <2>3
<1>9. CASE n # 0
  <2>1. n \in 1 .. Len(Queue)
    BY <1>1, <1>2, <1>4, <1>9
  <2>2. Fifo!Take(n)
    BY <1>2, <1>4, <1>5, <1>7 DEF Fifo!Take, Queue
  <2> QED
    BY <2>1, <2>2
<1> QED
  BY <1>8, <1>9

\* Every step of the buffer is a step of the bounded FIFO or changes nothing of it.
LEMMA StepImplements == BufferInv /\ [Next]_vars => [Fifo!Next]_(Fifo!fvars)
<1> SUFFICES ASSUME BufferInv, [Next]_vars
             PROVE  Fifo!Next \/ UNCHANGED <<Queue, calls, delivered>>
  BY DEF Fifo!fvars, Queue
<1>1. ASSUME NEW t \in Threads, Push(t)
      PROVE  UNCHANGED <<Queue, calls, delivered>>
  <2> DEFINE b == <<t, calls[t], pushed>>
             k == Len(buf) - pushed
  <2>1. b \in Bytes /\ buf' = Append(buf, b) /\ Len(buf') = Len(buf) + 1
    BY <1>1, PushEffect
  <2>2. /\ buf \in Seq(Bytes) /\ Len(buf) \in Nat /\ k \in Nat /\ k <= Len(buf)
        /\ pushed \in Nat
    BY LenProperties DEF BufferInv, TypeOK, PushInv
  <2>3. /\ pushed' = pushed + 1 /\ calls' = calls /\ delivered' = delivered
    BY <1>1 DEF Push
  <2>4. Len(buf') - pushed' = k
    BY <2>1, <2>2, <2>3
  <2> HIDE DEF b, k
  <2>5. SubSeq(Append(buf, b), 1, k) = SubSeq(buf, 1, k)
    BY <2>1, <2>2, PrefixOfAppend
  <2>6. Queue' = SubSeq(buf', 1, k) /\ Queue = SubSeq(buf, 1, k)
    BY <2>4 DEF Queue, k
  <2> QED
    BY <2>1, <2>3, <2>5, <2>6
<1>2. ASSUME NEW t \in Threads, EndWrite(t)
      PROVE  Fifo!Next \/ UNCHANGED <<Queue, calls, delivered>>
  <2>1. CASE pushed > 0
    BY <1>2, <2>1, EndWritePuts DEF Fifo!Next
  <2>2. CASE pushed = 0
    BY <1>2, <2>2 DEF EndWrite, Queue
  <2>3. pushed \in Nat
    BY DEF BufferInv, TypeOK
  <2> QED
    BY <2>1, <2>2, <2>3
<1>3. ASSUME NEW t \in Threads, EndRead(t)
      PROVE  Fifo!Next \/ UNCHANGED <<Queue, calls, delivered>>
  BY <1>3, EndReadTakes DEF Fifo!Next, Queue
<1>4. CASE UNCHANGED <<buf, pushed, calls, delivered>>
  BY <1>4 DEF Queue
<1> QED
  BY <1>1, <1>2, <1>3, <1>4
     DEF Next, vars, Call, Proceed, CallWrite, CallRead, CallLook, GiveUp,
         BeginWrite, BeginRead, Copy, BeginLook, EndLook, Suspend, Resume, Kill

\* The buffer, whose bytes are moved one by one by threads that can be frozen or
\* killed in between, implements a FIFO whose operations are atomic.
THEOREM Implementation == Spec => FifoSpec
<1>1. Init => Fifo!Init
  <2> SUFFICES ASSUME Init PROVE Fifo!Init
    OBVIOUS
  <2>1. SubSeq(buf, 1, Len(buf) - pushed) = <<>>
    BY EmptySeq, SubSeqEmpty DEF Init
  <2> QED
    BY <2>1 DEF Init, Fifo!Init, Threads
<1> QED
  BY <1>1, StepImplements, Invariance, PTL DEF Spec, IInv, FifoSpec, Fifo!Spec
===============================================================================
