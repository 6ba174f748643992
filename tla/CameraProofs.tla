------------------------------ MODULE CameraProofs ------------------------------
(***************************************************************************)
(* Proofs about Camera and the frame buffers it uses, for any number of    *)
(* threads of the host, any buffers, dimensions and frames, with the       *)
(* buffers resized by the host and by the camera in the middle of copies.  *)
(***************************************************************************)
EXTENDS Camera, BisectionProofs, SequenceTheorems, TLAPS

-----------------------------------------------------------------------------
(* Pixels.                                                                 *)

\* A colour is stored as a pixel of the format asked for.
LEMMA EncodeType ==
  ASSUME NEW fmt \in Formats, NEW c \in Colour4
  PROVE  Encode(fmt, c) \in Pixels(fmt)
<1>1. c[1] \in 0..15 /\ c[2] \in 0..15 /\ c[3] \in 0..15
  BY DEF Colour4
<1>2. CASE fmt = "RGB888"
  BY <1>1, <1>2 DEF Encode, Pixels, Byte
<1>3. CASE fmt = "RGB444"
  BY <1>1, <1>3 DEF Encode, Pixels, Byte
<1> QED
  BY <1>2, <1>3 DEF Formats

\* A stored pixel has the colour that the caller's pixel had ...
LEMMA StoredColour ==
  ASSUME NEW fmt \in Formats, NEW p \in Pixels(fmt)
  PROVE  /\ Stored(fmt, p) \in Pixels("RGB888")
         /\ Colour(Stored(fmt, p)) = Decode(fmt, p)
         /\ Decode(fmt, p) \in Colour4
<1>1. CASE fmt = "RGB888"
  <2>1. p[1] \in Byte /\ p[2] \in Byte /\ p[3] \in Byte
    BY <1>1 DEF Pixels
  <2> QED
    BY <1>1, <2>1 DEF Stored, Colour, Decode, Pixels, Byte, Down, Colour4
<1>2. CASE fmt = "RGB444"
  <2>1. p[1] \in Byte /\ p[2] \in 0..15
    BY <1>2 DEF Pixels
  <2>2. Stored(fmt, p) = <<Up(p[2]), High(p[1]), Up(p[1])>>
    BY <1>2 DEF Stored
  <2>3. Up(p[2]) \in Byte /\ High(p[1]) \in Byte /\ Up(p[1]) \in Byte
    BY <2>1 DEF Byte, Up, High
  <2>4. Down(Up(p[2])) = p[2] /\ Down(High(p[1])) = p[1] \div 16
    BY <2>1 DEF Byte, Up, High, Down
  <2>5. Down(Up(p[1])) = p[1] % 16
    BY <2>1 DEF Byte, Up, Down
  <2>6. p[1] \div 16 \in 0..15 /\ p[1] % 16 \in 0..15
    BY <2>1 DEF Byte
  <2> QED
    BY <1>2, <2>1, <2>2, <2>3, <2>4, <2>5, <2>6 DEF Colour, Decode, Pixels, Colour4
<1> QED
  BY <1>1, <1>2 DEF Formats

\* ... and so has a fetched one.
LEMMA FetchedColour ==
  ASSUME NEW fmt \in Formats, NEW p \in Pixels("RGB888")
  PROVE  /\ Fetched(fmt, p) \in Pixels(fmt)
         /\ Decode(fmt, Fetched(fmt, p)) = Colour(p)
<1>1. p[1] \in Byte /\ p[2] \in Byte /\ p[3] \in Byte
  BY DEF Pixels
<1>2. CASE fmt = "RGB888"
  BY <1>1, <1>2 DEF Fetched, Pixels, Colour
<1>3. CASE fmt = "RGB444"
  <2> DEFINE b == High(p[2]) + Down(p[3])
  <2>1. Fetched(fmt, p) = <<b, Down(p[1])>>
    BY <1>3 DEF Fetched
  <2>2. b \in Byte /\ b \div 16 = Down(p[2]) /\ b % 16 = Down(p[3]) /\ Down(p[1]) \in 0..15
    BY SMTT(40), <1>1 DEF Byte, High, Down
  <2> HIDE DEF b
  <2> QED
    BY <1>3, <2>1, <2>2 DEF Pixels, Decode, Colour
<1> QED
  BY <1>2, <1>3 DEF Formats

\* Counting pixels in bytes and back changes nothing: three bytes or two each.
LEMMA Thirds == \A m \in Nat : (3 * m) \div 3 = m /\ (m * 2) \div 2 = m
OBVIOUS

\* A frame that passes the size check has as many pixels as the buffer.
LEMMA SizeFits ==
  ASSUME NEW i, Len(fbs[i].data) \in Nat, NEW fmt \in Formats, NEW n \in Nat,
         SizeOk(i, fmt, BytesPerPixel(fmt) * n)
  PROVE  n = Len(fbs[i].data)
<1>1. CASE fmt = "RGB888"
  BY <1>1 DEF SizeOk, BytesPerPixel
<1>2. CASE fmt = "RGB444"
  <2>1. 2 * n = ((3 * Len(fbs[i].data)) \div 3) * 2
    BY <1>2 DEF SizeOk, BytesPerPixel
  <2>2. 2 * n = Len(fbs[i].data) * 2
    BY <2>1, Thirds
  <2> QED
    BY <2>2
<1> QED
  BY <1>1, <1>2 DEF Formats

\* A frame that passes the size check has as many pixels as the buffer.
LEMMA SizeFitsBytes ==
  ASSUME NEW i, Len(fbs[i].data) \in Nat, NEW fmt \in Formats, NEW bytes,
         SizeOk(i, fmt, bytes)
  PROVE  bytes \div BytesPerPixel(fmt) = Len(fbs[i].data)
<1>1. CASE fmt = "RGB888"
  BY <1>1 DEF SizeOk, BytesPerPixel
<1>2. CASE fmt = "RGB444"
  BY <1>2, Thirds DEF SizeOk, BytesPerPixel
<1> QED
  BY <1>1, <1>2 DEF Formats

-----------------------------------------------------------------------------
(* The calls, the mutex and the copies.                                    *)

CopyOps == Copies("RGB888") \cup Copies("RGB444")

OpTypeOK == /\ op \in [Threads -> {Idle} \cup CopyOps \cup Flips \cup Setters]
            /\ \A t \in Threads : op[t] \in Setters => (op[t].call = "set" <=> t # Sketch)

\* What the buffers and the calls on them satisfy, whatever the camera does.
FbInv == FbTypeOK /\ OpTypeOK /\ CopyInv /\ KeyInv /\ FrameInv

\* Where a thread is tells which kind of call it is in.
LEMMA Kinds ==
  ASSUME OpTypeOK, NEW t \in Threads
  PROVE  /\ op[t].at \in {"wait", "copy"} <=> op[t] \in CopyOps
         /\ op[t].at = "flip" <=> op[t] \in Flips
         /\ op[t].at \in Phases <=> op[t] \in Setters
         /\ op[t].at = "idle" <=> op[t] = Idle
         /\ op[t] \in Setters => (op[t].call = "set" <=> t # Sketch)
<1>1. op[t] \in {Idle} \cup CopyOps \cup Flips \cup Setters
  BY DEF OpTypeOK
<1>2. op[t] \in Setters => (op[t].call = "set" <=> t # Sketch)
  BY DEF OpTypeOK
<1>3. op[t] \in CopyOps => op[t].at \in {"wait", "copy"}
  BY DEF CopyOps, Copies
<1>4. op[t] \in Setters => op[t].at \in Phases
  BY DEF Setters
<1>5. op[t] \in Flips => op[t].at = "flip"
  BY DEF Flips
<1>6. Idle.at = "idle"
  BY DEF Idle
<1> QED
  BY <1>1, <1>2, <1>3, <1>4, <1>5, <1>6 DEF Phases

\* The fields of a copy in progress.
LEMMA CopyType ==
  ASSUME NEW r \in CopyOps
  PROVE  /\ r.fmt \in Formats /\ r \in Copies(r.fmt) /\ r.fb \in 1..Len(Conf)
         /\ r.size \in Nat /\ r.done \in Nat /\ r.buf \in Seq(Pixels(r.fmt))
         /\ Len(r.buf) \in Nat /\ r.call \in {"read", "write"} /\ r.at \in {"wait", "copy"}
         /\ r.met \in BOOLEAN
BY LenProperties DEF CopyOps, Copies, Formats

\* The fields of a frame buffer.
LEMMA BufferType ==
  ASSUME FbTypeOK, NEW i \in 1..Len(Conf)
  PROVE  /\ i \in DOMAIN fbs /\ fbs[i] \in Buffers /\ fbs[i].data \in Seq(Pixels("RGB888"))
         /\ Len(fbs[i].data) \in Nat /\ shown[i] \in Seq(Colour4)
<1>1. fbs \in Seq(Buffers) /\ Len(fbs) = Len(Conf)
  BY DEF FbTypeOK
<1>2. i \in DOMAIN fbs /\ fbs[i] \in Buffers
  BY <1>1, ElementOfSeq, LenProperties
<1>3. fbs[i].data \in Seq(Pixels("RGB888"))
  BY <1>2 DEF Buffers
<1> QED
  BY <1>2, <1>3, LenProperties DEF FbTypeOK

\* There are as many frame buffers as the configuration lists.
LEMMA BufferDomain ==
  FbTypeOK => DOMAIN fbs = 1..Len(Conf) /\ Len(fbs) = Len(Conf) /\ Len(Conf) \in Nat
<1>1. Len(Conf) \in Nat
  BY FrameBufferAssumption, LenProperties
<1> QED
  BY <1>1, LenProperties DEF FbTypeOK

\* A buffer is replaced by another one.
LEMMA PutBuffer ==
  ASSUME FbTypeOK, NEW i \in 1..Len(Conf), NEW b \in Buffers, fbs' = [fbs EXCEPT ![i] = b]
  PROVE  /\ fbs' \in Seq(Buffers) /\ Len(fbs') = Len(Conf) /\ DOMAIN fbs' = 1..Len(Conf)
         /\ fbs'[i] = b /\ \A j \in 1..Len(Conf) : j # i => fbs'[j] = fbs[j]
<1>1. fbs \in Seq(Buffers) /\ Len(fbs) = Len(Conf) /\ DOMAIN fbs = 1..Len(Conf)
  BY BufferDomain DEF FbTypeOK
<1>2. fbs' \in Seq(Buffers) /\ Len(fbs') = Len(fbs)
  BY <1>1, ExceptSeq
<1> QED
  BY <1>1, <1>2

\* The pixels of a buffer after a resize.
LEMMA ResizedType ==
  ASSUME NEW S, NEW s \in Seq(S), NEW n \in Nat, NEW blank \in S
  PROVE  /\ Resized(s, n, blank) \in Seq(S) /\ Len(Resized(s, n, blank)) = n
         /\ \A j \in 1..n : Resized(s, n, blank)[j] = IF j <= Len(s) THEN s[j] ELSE blank
         /\ n = Len(s) => Resized(s, n, blank) = s
<1> DEFINE r == Resized(s, n, blank)
<1>1. Len(s) \in Nat /\ DOMAIN s = 1..Len(s) /\ \A j \in 1..Len(s) : s[j] \in S
  BY LenProperties, ElementOfSeq
<1>2. r \in [1..n -> S] /\ \A j \in 1..n : r[j] = IF j <= Len(s) THEN s[j] ELSE blank
  BY <1>1 DEF Resized
<1>3. n = Len(s) => r = s
  <2> SUFFICES ASSUME n = Len(s) PROVE r = s
    OBVIOUS
  <2>1. s \in [1..n -> S] /\ \A j \in 1..n : r[j] = s[j]
    BY <1>1, <1>2, LenProperties
  <2> HIDE DEF r
  <2> QED
    BY <1>2, <2>1
<1> HIDE DEF r
<1>4. r \in Seq(S)
  BY <1>2, SeqDef
<1>5. Len(r) = n
  BY <1>2, <1>4, LenProperties
<1> QED
  BY <1>2, <1>3, <1>4, <1>5 DEF r

\* The constructor makes buffers that are empty, and nobody is copying.
LEMMA FbInitInv == Init => FbInv
<1> SUFFICES ASSUME Init PROVE FbInv
  OBVIOUS
<1>1. Len(Conf) \in Nat /\ \A i \in 1..Len(Conf) : Conf[i] \in [key : Nat, direction : {"in", "out"}]
  BY FrameBufferAssumption, LenProperties, ElementOfSeq
<1>2. /\ <<>> \in Seq(Pixels("RGB888")) /\ <<>> \in Seq(Colour4) /\ Len(<<>>) = 0
  BY EmptySeq
<1>3. \A i \in 1..Len(Conf) : BufferOf(Conf[i]) \in Buffers
  BY <1>1, <1>2 DEF BufferOf, Buffers
<1>4. fbs = [i \in 1..Len(Conf) |-> BufferOf(Conf[i])]
  BY DEF Init, FbInit
<1>5. fbs \in Seq(Buffers) /\ Len(fbs) = Len(Conf) /\ DOMAIN fbs = 1..Len(Conf)
  <2>1. fbs \in [1..Len(Conf) -> Buffers]
    BY <1>3, <1>4
  <2>2. fbs \in Seq(Buffers)
    BY <1>1, <2>1, SeqDef
  <2> QED
    BY <1>1, <2>1, <2>2, LenProperties
<1>6. \A i \in DOMAIN fbs : /\ fbs[i].owner = NoThread /\ fbs[i].key = Conf[i].key
                            /\ fbs[i].data = <<>>
  BY <1>4, <1>5 DEF BufferOf
<1>7. /\ op = [t \in Threads |-> Idle] /\ \A t \in Threads : op[t] = Idle /\ op[t].at = "idle"
  BY DEF Init, FbInit, Idle
<1>8. shown \in [1..Len(Conf) -> Seq(Colour4)] /\ \A i \in 1..Len(Conf) : shown[i] = <<>>
  BY <1>2 DEF Init, FbInit
<1>9. FbTypeOK /\ OpTypeOK
  <2>1. Idle \notin Setters
    BY DEF Idle, Setters, Phases
  <2> QED
    BY <1>5, <1>7, <1>8, <2>1 DEF FbTypeOK, OpTypeOK, Init, FbInit
<1>10. CopyInv /\ KeyInv
  BY <1>2, <1>6, <1>7 DEF CopyInv, KeyInv
<1>11. FrameInv
  BY <1>2, <1>5, <1>6, <1>7, <1>8 DEF FrameInv
<1> QED
  BY <1>9, <1>10, <1>11 DEF FbInv

\* A thread that copies nothing enters a call, and no buffer changes.
LEMMA CallStep ==
  ASSUME FbInv, NEW t \in Threads, op[t].at \notin {"wait", "copy"},
         NEW r \in {Idle} \cup CopyOps \cup Flips \cup Setters,
         r \in Setters => (r.call = "set" <=> t # Sketch),
         r \in CopyOps => /\ r.at = "wait" /\ r.done = 0
                          /\ Len(r.buf) = IF r.call = "write" THEN r.size ELSE 0
                          /\ r.size = Len(fbs[r.fb].data),
         op' = [op EXCEPT ![t] = r], UNCHANGED <<fbs, sketch, shown>>
  PROVE  FbInv'
<1>1. /\ op \in [Threads -> {Idle} \cup CopyOps \cup Flips \cup Setters]
      /\ op[t].at # "copy"
  BY DEF FbInv, OpTypeOK
<1>2. op'[t] = r /\ \A u \in Threads \ {t} : op'[u] = op[u]
  BY <1>1
<1>3. r.at \in {"wait", "copy"} <=> r \in CopyOps
  <2>1. CASE r \in CopyOps
    BY <2>1 DEF CopyOps, Copies
  <2>2. CASE r \in Flips
    BY <2>2 DEF CopyOps, Copies, Flips
  <2>3. CASE r \in Setters
    BY <2>3 DEF CopyOps, Copies, Setters, Phases
  <2>4. CASE r = Idle
    BY <2>4 DEF CopyOps, Copies, Idle
  <2> QED
    BY <2>1, <2>2, <2>3, <2>4
<1>4. r.at # "copy"
  BY <1>3 DEF CopyOps, Copies
<1>5. FbTypeOK' /\ KeyInv'
  BY DEF FbInv, FbTypeOK, KeyInv
<1>6. OpTypeOK'
  BY <1>1, <1>2 DEF FbInv, OpTypeOK
<1>7. CopyInv'
  <2>1. ASSUME NEW u \in Threads, op'[u].at \in {"wait", "copy"}
        PROVE  /\ op'[u].done <= op'[u].size
               /\ op'[u].at = "wait" => op'[u].done = 0
               /\ Len(op'[u].buf) = IF op'[u].call = "write" THEN op'[u].size ELSE op'[u].done
               /\ op'[u].at = "copy" => fbs'[op'[u].fb].owner = u
    <3>1. CASE u = t
      <4>1. r \in CopyOps /\ r.size \in Nat
        BY <1>2, <1>3, <2>1, <3>1, CopyType
      <4> QED
        BY <1>2, <1>4, <3>1, <4>1
    <3>2. CASE u # t
      BY <1>2, <2>1, <3>2 DEF FbInv, CopyInv
    <3> QED
      BY <3>1, <3>2
  <2>2. ASSUME NEW i \in DOMAIN fbs, fbs[i].owner # NoThread
        PROVE  op'[fbs[i].owner].at = "copy" /\ op'[fbs[i].owner].fb = i
    <3>1. op[fbs[i].owner].at = "copy" /\ op[fbs[i].owner].fb = i
      BY <2>2 DEF FbInv, CopyInv
    <3>2. fbs[i].owner \in Threads
      <4>1. i \in 1..Len(Conf)
        BY BufferDomain DEF FbInv
      <4>2. fbs[i] \in Buffers
        BY <4>1, BufferType DEF FbInv
      <4> QED
        BY <2>2, <4>2 DEF Buffers
    <3> QED
      BY <1>1, <1>2, <3>1, <3>2
  <2> QED
    BY <2>1, <2>2 DEF CopyInv
<1>8. FrameInv'
  <2>1. FrameInv
    BY DEF FbInv
  <2>2. \A u \in Threads : op'[u].at \in {"wait", "copy"} /\ ~op'[u].met =>
           op'[u].size = Len(fbs[op'[u].fb].data)
    BY <1>2, <1>3, <2>1 DEF FrameInv
  <2>3. ASSUME NEW u \in Threads, op'[u].at = "copy", ~op'[u].met, NEW n \in 1..op'[u].done
        PROVE  IF op'[u].call = "write"
               THEN Colour(fbs[op'[u].fb].data[n]) = Decode(op'[u].fmt, op'[u].buf[n])
               ELSE Decode(op'[u].fmt, op'[u].buf[n]) = shown[op'[u].fb][n]
    <3>1. u # t /\ op'[u] = op[u]
      BY <1>2, <1>4, <2>3
    <3> QED
      BY <2>1, <2>3, <3>1 DEF FrameInv
  <2>4. ASSUME NEW i \in DOMAIN fbs, fbs[i].owner # NoThread => op'[fbs[i].owner].call = "read"
        PROVE  fbs[i].owner # NoThread => op[fbs[i].owner].call = "read"
    <3>1. fbs[i].owner # NoThread => fbs[i].owner # t /\ fbs[i].owner \in Threads
      <4>1. i \in 1..Len(Conf)
        BY BufferDomain DEF FbInv
      <4>2. fbs[i] \in Buffers
        BY <4>1, BufferType DEF FbInv
      <4> QED
        BY <1>1, <4>2 DEF Buffers, FbInv, CopyInv
    <3> QED
      BY <1>2, <2>4, <3>1
  <2> QED
    BY <2>1, <2>2, <2>3, <2>4 DEF FrameInv
<1> QED
  BY <1>5, <1>6, <1>7, <1>8 DEF FbInv

\* The mutex of a buffer is free, or its holder is copying that very buffer.
LEMMA OwnerType ==
  ASSUME FbInv, NEW i \in 1..Len(Conf)
  PROVE  /\ fbs[i].owner \in Threads \cup {NoThread} /\ NoThread \notin Threads
         /\ fbs[i].owner # NoThread => /\ op[fbs[i].owner].at = "copy"
                                       /\ op[fbs[i].owner].fb = i
                                       /\ op[fbs[i].owner] \in CopyOps
<1>1. i \in DOMAIN fbs /\ fbs[i] \in Buffers
  BY BufferType DEF FbInv
<1>2. fbs[i].owner \in Threads \cup {NoThread} /\ NoThread \notin Threads
  BY <1>1, FrameBufferAssumption DEF Buffers, Threads
<1>3. fbs[i].owner # NoThread => op[fbs[i].owner].at = "copy" /\ op[fbs[i].owner].fb = i
  BY <1>1 DEF FbInv, CopyInv
<1>4. fbs[i].owner # NoThread => op[fbs[i].owner] \in CopyOps
  BY <1>2, <1>3, Kinds DEF FbInv
<1> QED
  BY <1>2, <1>3, <1>4

\* Taking data_mut keeps the invariant of the frame buffers.
LEMMA LockStep ==
  ASSUME FbInv, NEW t \in Threads, Lock(t)
  PROVE  FbInv'
<1> DEFINE f == op[t]  i == f.fb  b == [fbs[i] EXCEPT !.owner = t]
           r == [f EXCEPT !.at = "copy"]
<1>1. /\ f \in CopyOps /\ f.at = "wait" /\ f.done = 0 /\ i \in 1..Len(Conf)
      /\ Len(f.buf) = IF f.call = "write" THEN f.size ELSE f.done
      /\ f.done <= f.size /\ f.size \in Nat
  <2>1. f.at = "wait"
    BY DEF Lock
  <2>2. f \in CopyOps
    BY <2>1, Kinds DEF FbInv
  <2>3. f.fb \in 1..Len(Conf) /\ f.size \in Nat
    BY <2>2, CopyType
  <2> QED
    BY <2>1, <2>2, <2>3 DEF FbInv, CopyInv
<1>2. /\ fbs[i].owner = NoThread /\ UNCHANGED <<sketch, shown>>
      /\ fbs' = [fbs EXCEPT ![i] = b] /\ op' = [op EXCEPT ![t] = r]
  BY DEF Lock, Lockable
<1> HIDE DEF f
<1>3. /\ r \in CopyOps /\ r.at = "copy" /\ r.fb = i /\ r.done = 0 /\ r.size = f.size
      /\ r.buf = f.buf /\ r.call = f.call /\ r.met = f.met
  BY <1>1 DEF CopyOps, Copies
<1>4. b \in Buffers /\ b.owner = t /\ b.data = fbs[i].data /\ b.key = fbs[i].key
  <2>1. fbs[i] \in Buffers
    BY <1>1, BufferType DEF FbInv
  <2> QED
    BY <2>1 DEF Buffers
<1> HIDE DEF r, b
<1>5. /\ fbs' \in Seq(Buffers) /\ Len(fbs') = Len(Conf) /\ DOMAIN fbs' = 1..Len(Conf)
      /\ fbs'[i] = b /\ \A j \in 1..Len(Conf) : j # i => fbs'[j] = fbs[j]
      /\ DOMAIN fbs = 1..Len(Conf)
  BY <1>1, <1>2, <1>4, PutBuffer, BufferDomain DEF FbInv
<1> HIDE DEF i
<1>6. op'[t] = r /\ op[t] = f /\ \A u \in Threads \ {t} : op'[u] = op[u]
  BY <1>2 DEF FbInv, OpTypeOK, f
<1>7. \A j \in 1..Len(Conf) : /\ fbs'[j].data = fbs[j].data /\ fbs'[j].key = fbs[j].key
                              /\ j # i => fbs'[j].owner = fbs[j].owner
  BY <1>4, <1>5
<1>8. \A u \in Threads \ {t} : op[u].at = "copy" => op[u].fb # i
  <2>1. \A u \in Threads : op[u].at = "copy" => fbs[op[u].fb].owner = u
    BY DEF FbInv, CopyInv
  <2> QED
    BY <1>1, <1>2, <2>1, OwnerType
<1>9. FbTypeOK' /\ KeyInv'
  BY <1>2, <1>5, <1>7 DEF FbInv, FbTypeOK, KeyInv
<1>10. OpTypeOK'
  BY <1>2, <1>3 DEF FbInv, OpTypeOK, CopyOps, Copies, Setters, Phases
<1>11. CopyInv'
  <2>1. ASSUME NEW u \in Threads, op'[u].at \in {"wait", "copy"}
        PROVE  /\ op'[u].done <= op'[u].size
               /\ op'[u].at = "wait" => op'[u].done = 0
               /\ Len(op'[u].buf) = IF op'[u].call = "write" THEN op'[u].size ELSE op'[u].done
               /\ op'[u].at = "copy" => fbs'[op'[u].fb].owner = u
    <3>1. CASE u = t
      BY <1>1, <1>3, <1>4, <1>5, <1>6, <3>1
    <3>2. CASE u # t
      <4>1. op'[u] = op[u] /\ op[u].fb \in 1..Len(Conf)
        BY <1>6, <2>1, <3>2, Kinds, CopyType DEF FbInv
      <4> QED
        BY <1>7, <1>8, <2>1, <3>2, <4>1 DEF FbInv, CopyInv
    <3> QED
      BY <3>1, <3>2
  <2>2. ASSUME NEW j \in 1..Len(Conf), fbs'[j].owner # NoThread
        PROVE  op'[fbs'[j].owner].at = "copy" /\ op'[fbs'[j].owner].fb = j
    <3>1. CASE j = i
      BY <1>3, <1>4, <1>5, <1>6, <3>1
    <3>2. CASE j # i
      <4>1. fbs[j].owner # NoThread /\ fbs'[j].owner = fbs[j].owner
        BY <1>7, <2>2, <3>2
      <4>2. op[fbs[j].owner].at = "copy" /\ op[fbs[j].owner].fb = j /\ fbs[j].owner \in Threads
        BY <4>1, OwnerType
      <4>3. fbs[j].owner # t
        BY <1>1, <1>6, <4>2
      <4> QED
        BY <1>6, <4>1, <4>2, <4>3
    <3> QED
      BY <3>1, <3>2
  <2> QED
    BY <1>5, <2>1, <2>2 DEF CopyInv
<1>12. FrameInv'
  <2>1. FrameInv
    BY DEF FbInv
  <2>2. ASSUME NEW u \in Threads, op'[u].at \in {"wait", "copy"}, ~op'[u].met
        PROVE  op'[u].size = Len(fbs'[op'[u].fb].data)
    <3>1. /\ op'[u].size = op[u].size /\ op'[u].fb = op[u].fb /\ op[u].at \in {"wait", "copy"}
          /\ ~op[u].met
      BY <1>1, <1>3, <1>6, <2>2 DEF i
    <3>2. op[u].fb \in 1..Len(Conf)
      BY <3>1, Kinds, CopyType DEF FbInv
    <3> QED
      BY <1>7, <2>1, <3>1, <3>2 DEF FrameInv
  <2>3. ASSUME NEW u \in Threads, op'[u].at = "copy", ~op'[u].met, NEW n \in 1..op'[u].done
        PROVE  IF op'[u].call = "write"
               THEN Colour(fbs'[op'[u].fb].data[n]) = Decode(op'[u].fmt, op'[u].buf[n])
               ELSE Decode(op'[u].fmt, op'[u].buf[n]) = shown[op'[u].fb][n]
    <3>1. u # t /\ op'[u] = op[u]
      BY <1>3, <1>6, <2>3
    <3>2. op[u].fb \in 1..Len(Conf)
      BY <2>3, <3>1, Kinds, CopyType DEF FbInv
    <3> QED
      BY <1>7, <2>1, <2>3, <3>1, <3>2 DEF FrameInv
  <2>4. ASSUME NEW j \in 1..Len(Conf), fbs'[j].owner # NoThread => op'[fbs'[j].owner].call = "read"
        PROVE  fbs[j].owner # NoThread => op[fbs[j].owner].call = "read"
    <3>1. CASE j = i
      BY <1>2, <3>1
    <3>2. CASE j # i /\ fbs[j].owner # NoThread
      <4>1. fbs[j].owner # t /\ fbs[j].owner \in Threads
        BY <1>1, <1>6, <3>2, OwnerType
      <4> QED
        BY <1>6, <1>7, <2>4, <3>2, <4>1
    <3> QED
      BY <3>1, <3>2
  <2> QED
    BY <1>2, <1>5, <1>7, <2>1, <2>2, <2>3, <2>4 DEF FrameInv
<1> QED
  BY <1>9, <1>10, <1>11, <1>12 DEF FbInv

\* The thread that is copying goes on with its call r on the buffer, which becomes b:
\* a read leaves the pixels alone, a write keeps their number.
LEMMA CopyingStep ==
  ASSUME FbInv, NEW t \in Threads, op[t].at = "copy", NEW r \in CopyOps, NEW b \in Buffers,
         r.at = "copy", r.fb = op[t].fb, r.call = op[t].call, r.size = op[t].size,
         r.met = op[t].met,
         r.done <= r.size,
         Len(r.buf) = IF r.call = "write" THEN r.size ELSE r.done,
         b.owner = t, b.key = fbs[r.fb].key, Len(b.data) = Len(fbs[r.fb].data),
         r.call = "read" => b.data = fbs[r.fb].data,
         ~r.met => \A n \in 1..r.done :
             IF r.call = "write" THEN Colour(b.data[n]) = Decode(r.fmt, r.buf[n])
                                 ELSE Decode(r.fmt, r.buf[n]) = shown[r.fb][n],
         op' = [op EXCEPT ![t] = r], fbs' = [fbs EXCEPT ![r.fb] = b],
         UNCHANGED <<sketch, shown>>
  PROVE  FbInv'
<1> DEFINE i == r.fb
<1>1. /\ i \in 1..Len(Conf) /\ op[t] \in CopyOps /\ fbs[i].owner = t
      /\ r.size \in Nat /\ r.done \in Nat
  <2>1. op[t] \in CopyOps
    BY Kinds DEF FbInv
  <2> QED
    BY <2>1, CopyType DEF FbInv, CopyInv
<1>2. /\ fbs' \in Seq(Buffers) /\ Len(fbs') = Len(Conf) /\ DOMAIN fbs' = 1..Len(Conf)
      /\ fbs'[i] = b /\ \A j \in 1..Len(Conf) : j # i => fbs'[j] = fbs[j]
      /\ DOMAIN fbs = 1..Len(Conf)
  BY <1>1, PutBuffer, BufferDomain DEF FbInv
<1>3. op'[t] = r /\ \A u \in Threads \ {t} : op'[u] = op[u]
  BY DEF FbInv, OpTypeOK
<1>4. \A j \in 1..Len(Conf) : /\ fbs'[j].owner = fbs[j].owner /\ fbs'[j].key = fbs[j].key
                              /\ Len(fbs'[j].data) = Len(fbs[j].data)
                              /\ j # i => fbs'[j].data = fbs[j].data
  BY <1>1, <1>2
<1>5. \A u \in Threads \ {t} : op[u].at = "copy" => op[u].fb # i
  BY <1>1 DEF FbInv, CopyInv
<1>6. FbTypeOK' /\ KeyInv'
  BY <1>2, <1>4 DEF FbInv, FbTypeOK, KeyInv
<1>7. OpTypeOK'
  BY DEF FbInv, OpTypeOK, CopyOps, Copies, Setters, Phases
<1>8. CopyInv'
  <2>1. ASSUME NEW u \in Threads, op'[u].at \in {"wait", "copy"}
        PROVE  /\ op'[u].done <= op'[u].size
               /\ op'[u].at = "wait" => op'[u].done = 0
               /\ Len(op'[u].buf) = IF op'[u].call = "write" THEN op'[u].size ELSE op'[u].done
               /\ op'[u].at = "copy" => fbs'[op'[u].fb].owner = u
    <3>1. CASE u = t
      BY <1>1, <1>3, <1>4, <3>1
    <3>2. CASE u # t
      <4>1. op'[u] = op[u] /\ op[u].fb \in 1..Len(Conf)
        BY <1>3, <2>1, <3>2, Kinds, CopyType DEF FbInv
      <4> QED
        BY <1>4, <2>1, <4>1 DEF FbInv, CopyInv
    <3> QED
      BY <3>1, <3>2
  <2>2. ASSUME NEW j \in 1..Len(Conf), fbs'[j].owner # NoThread
        PROVE  op'[fbs'[j].owner].at = "copy" /\ op'[fbs'[j].owner].fb = j
    BY <1>3, <1>4, <2>2, OwnerType
  <2> QED
    BY <1>2, <2>1, <2>2 DEF CopyInv
<1>9. FrameInv'
  <2>1. FrameInv
    BY DEF FbInv
  <2>2. ASSUME NEW u \in Threads, op'[u].at \in {"wait", "copy"}, ~op'[u].met
        PROVE  op'[u].size = Len(fbs'[op'[u].fb].data)
    <3>1. /\ op'[u].size = op[u].size /\ op'[u].fb = op[u].fb /\ op[u].at \in {"wait", "copy"}
          /\ ~op[u].met
      BY <1>3, <2>2
    <3>2. op[u].fb \in 1..Len(Conf)
      BY <3>1, Kinds, CopyType DEF FbInv
    <3> QED
      BY <1>4, <2>1, <3>1, <3>2 DEF FrameInv
  <2>3. ASSUME NEW u \in Threads, op'[u].at = "copy", ~op'[u].met, NEW n \in 1..op'[u].done
        PROVE  IF op'[u].call = "write"
               THEN Colour(fbs'[op'[u].fb].data[n]) = Decode(op'[u].fmt, op'[u].buf[n])
               ELSE Decode(op'[u].fmt, op'[u].buf[n]) = shown[op'[u].fb][n]
    <3>1. CASE u = t
      BY SMTT(40), <1>2, <1>3, <2>3, <3>1
    <3>2. CASE u # t
      <4>1. op'[u] = op[u] /\ op[u].fb \in 1..Len(Conf) /\ op[u].fb # i
        BY <1>3, <1>5, <2>3, <3>2, Kinds, CopyType DEF FbInv
      <4> QED
        BY <1>4, <2>1, <2>3, <4>1 DEF FrameInv
    <3> QED
      BY <3>1, <3>2
  <2>4. ASSUME NEW j \in 1..Len(Conf), fbs'[j].owner # NoThread => op'[fbs'[j].owner].call = "read"
        PROVE  /\ fbs[j].owner # NoThread => op[fbs[j].owner].call = "read"
               /\ fbs'[j].data = fbs[j].data
    <3>1. fbs[j].owner # NoThread => fbs[j].owner \in Threads
      BY OwnerType
    <3>2. fbs[j].owner # NoThread => op[fbs[j].owner].call = "read"
      BY <1>3, <1>4, <2>4, <3>1
    <3>3. j = i => fbs[j].owner # NoThread /\ r.call = "read"
      BY <1>1, <3>2, FrameBufferAssumption DEF Threads
    <3> QED
      BY <1>2, <1>4, <3>2, <3>3
  <2>5. ASSUME NEW j \in 1..Len(Conf)
        PROVE  /\ Len(shown'[j]) = Len(fbs'[j].data)
               /\ (fbs'[j].owner # NoThread => op'[fbs'[j].owner].call = "read") =>
                     \A n \in 1..Len(fbs'[j].data) : Colour(fbs'[j].data[n]) = shown'[j][n]
    <3>1. /\ Len(shown[j]) = Len(fbs[j].data)
          /\ (fbs[j].owner # NoThread => op[fbs[j].owner].call = "read") =>
                \A n \in 1..Len(fbs[j].data) : Colour(fbs[j].data[n]) = shown[j][n]
      <4>1. \A h \in DOMAIN fbs :
              /\ Len(shown[h]) = Len(fbs[h].data)
              /\ (fbs[h].owner # NoThread => op[fbs[h].owner].call = "read") =>
                    \A n \in 1..Len(fbs[h].data) : Colour(fbs[h].data[n]) = shown[h][n]
        BY <2>1, Zenon DEF FrameInv
      <4>2. j \in DOMAIN fbs
        BY <1>2
      <4> QED
        BY <4>1, <4>2, Zenon
    <3> QED
      BY <1>4, <2>4, <3>1
  <2>6. \A u \in Threads : op'[u].at = "copy" /\ ~op'[u].met => \A n \in 1..op'[u].done :
           IF op'[u].call = "write"
           THEN Colour(fbs'[op'[u].fb].data[n]) = Decode(op'[u].fmt, op'[u].buf[n])
           ELSE Decode(op'[u].fmt, op'[u].buf[n]) = shown'[op'[u].fb][n]
    <3>1. shown' = shown
      OBVIOUS
    <3> QED
      BY <2>3, <3>1
  <2>7. \A u \in Threads : op'[u].at \in {"wait", "copy"} /\ ~op'[u].met =>
           op'[u].size = Len(fbs'[op'[u].fb].data)
    BY <2>2
  <2>8. \A j \in DOMAIN fbs' :
           /\ Len(shown'[j]) = Len(fbs'[j].data)
           /\ (fbs'[j].owner # NoThread => op'[fbs'[j].owner].call = "read") =>
                 \A n \in 1..Len(fbs'[j].data) : Colour(fbs'[j].data[n]) = shown'[j][n]
    BY <1>2, <2>5
  <2> QED
    BY <2>6, <2>7, <2>8, Zenon DEF FrameInv
<1> QED
  BY <1>6, <1>7, <1>8, <1>9 DEF FbInv

\* So does each pixel of a copy ...
LEMMA CopyPixelStep ==
  ASSUME FbInv, NEW t \in Threads, CopyPixel(t)
  PROVE  FbInv'
<1> DEFINE f == op[t]  i == f.fb  n == f.done + 1  c == fbs[i].data
<1>1. /\ f \in CopyOps /\ f.at = "copy" /\ i \in 1..Len(Conf) /\ n <= f.size
      /\ f.size \in Nat /\ f.done \in Nat /\ n \in 1..f.size /\ f.fmt \in Formats
      /\ f.buf \in Seq(Pixels(f.fmt)) /\ f \in Copies(f.fmt)
      /\ Len(f.buf) = IF f.call = "write" THEN f.size ELSE f.done
      /\ fbs[i].owner = t /\ f.call \in {"read", "write"} /\ f.met \in BOOLEAN
  <2>1. f.at = "copy" /\ n <= f.size
    BY DEF CopyPixel
  <2>2. f \in CopyOps
    BY <2>1, Kinds DEF FbInv
  <2> QED
    BY <2>1, <2>2, CopyType DEF FbInv, CopyInv
<1>2. fbs[i] \in Buffers /\ c \in Seq(Pixels("RGB888")) /\ Len(c) \in Nat
  BY <1>1, BufferType DEF FbInv
<1>3. ~f.met => f.size = Len(c)
  BY <1>1 DEF FbInv, FrameInv
<1>4. ~f.met => \A m \in 1..f.done :
           IF f.call = "write" THEN Colour(c[m]) = Decode(f.fmt, f.buf[m])
                               ELSE Decode(f.fmt, f.buf[m]) = shown[i][m]
  BY <1>1 DEF FbInv, FrameInv
<1>5. f.call = "read" => \A m \in 1..Len(c) : Colour(c[m]) = shown[i][m]
  BY <1>1, BufferDomain DEF FbInv, FrameInv
<1>6. CASE f.call = "write"
  <2> DEFINE r == [f EXCEPT !.done = n]
             d == [c EXCEPT ![n] = Stored(f.fmt, f.buf[n])]
             stores == n <= Len(c) /\ fbs' = [fbs EXCEPT ![i].data[n] = Stored(f.fmt, f.buf[n])]
             b == IF stores THEN [fbs[i] EXCEPT !.data = d] ELSE fbs[i]
  <2>1. UNCHANGED <<sketch, shown>> /\ op' = [op EXCEPT ![t] = r]
    BY <1>6 DEF CopyPixel
  <2>2. fbs' = [fbs EXCEPT ![i] = b] /\ (~stores => ~(n <= Len(c)) \/ f.met)
    <3>1. stores \/ (fbs' = fbs /\ (~(n <= Len(c)) \/ f.met))
      BY <1>6 DEF CopyPixel
    <3>2. fbs = [fbs EXCEPT ![i] = fbs[i]]
      BY DEF FbInv, FbTypeOK
    <3>3. CASE stores
      BY <3>3
    <3>4. CASE ~stores
      BY <3>1, <3>2, <3>4
    <3> QED
      BY <3>3, <3>4
  <2>3. /\ f.buf[n] \in Pixels(f.fmt) /\ Stored(f.fmt, f.buf[n]) \in Pixels("RGB888")
        /\ Colour(Stored(f.fmt, f.buf[n])) = Decode(f.fmt, f.buf[n])
    <3>1. f.buf[n] \in Pixels(f.fmt)
      BY <1>1, <1>6, ElementOfSeq
    <3> QED
      BY <1>1, <3>1, StoredColour
  <2>4. n <= Len(c) => /\ d \in Seq(Pixels("RGB888")) /\ Len(d) = Len(c)
                       /\ \A m \in 1..Len(c) :
                             d[m] = IF m = n THEN Stored(f.fmt, f.buf[n]) ELSE c[m]
    BY <1>1, <1>2, <2>3, ExceptSeq
  <2>5. /\ r \in CopyOps /\ r.at = "copy" /\ r.fb = i /\ r.call = f.call /\ r.size = f.size
        /\ r.done = n /\ r.buf = f.buf /\ r.fmt = f.fmt /\ r.met = f.met
    BY <1>1 DEF CopyOps, Copies
  <2> HIDE DEF r, d, f, c
  <2>6. /\ b \in Buffers /\ b.owner = t /\ b.key = fbs[i].key
        /\ b.data = IF stores THEN d ELSE c
        /\ stores => n <= Len(c)
    BY <1>1, <1>2, <2>4 DEF Buffers, c
  <2> HIDE DEF stores
  <2>7. ~f.met => \A m \in 1..n : Colour(b.data[m]) = Decode(f.fmt, f.buf[m])
    <3> SUFFICES ASSUME ~f.met, NEW m \in 1..n
                 PROVE  Colour(b.data[m]) = Decode(f.fmt, f.buf[m])
      OBVIOUS
    <3>1. b.data = d /\ n <= Len(c)
      BY <1>1, <1>3, <2>2, <2>6
    <3>2. d[m] = IF m = n THEN Stored(f.fmt, f.buf[n]) ELSE c[m]
      BY <1>1, <1>2, <2>4, <3>1
    <3>3. m # n => m \in 1..f.done
      BY <1>1
    <3> QED
      BY <1>4, <1>6, <2>3, <3>1, <3>2, <3>3
  <2>8. Len(b.data) = Len(c)
    BY <2>4, <2>6
  <2> HIDE DEF b
  <2>9. /\ op[t].at = "copy" /\ op[t].fb = i /\ op[t].call = f.call /\ op[t].size = f.size
        /\ op[t].met = f.met
    BY <1>1 DEF f
  <2>10. /\ Len(r.buf) = IF r.call = "write" THEN r.size ELSE r.done
         /\ r.done <= r.size /\ r.fb = op[t].fb /\ r.call = op[t].call /\ r.size = op[t].size
         /\ r.call # "read" /\ r.met = op[t].met
    BY <1>1, <1>6, <2>5, <2>9
  <2>11. /\ b.key = fbs[r.fb].key /\ Len(b.data) = Len(fbs[r.fb].data)
         /\ fbs' = [fbs EXCEPT ![r.fb] = b]
    BY <2>2, <2>5, <2>6, <2>8 DEF c
  <2>12. ~r.met => \A m \in 1..r.done :
             IF r.call = "write" THEN Colour(b.data[m]) = Decode(r.fmt, r.buf[m])
                                 ELSE Decode(r.fmt, r.buf[m]) = shown[r.fb][m]
    BY <1>6, <2>5, <2>7
  <2> HIDE DEF n, i
  <2> QED
    BY <2>1, <2>5, <2>6, <2>9, <2>10, <2>11, <2>12, CopyingStep
<1>7. CASE f.call = "read"
  <2>1. PICK p \in PixelAt(i, n) \cup (IF ~(n <= Len(c)) \/ f.met THEN Strays ELSE {}) :
           op' = [op EXCEPT ![t].done = n, ![t].buf = Append(@, Fetched(f.fmt, p))]
    BY <1>7 DEF CopyPixel
  <2>2. UNCHANGED <<sketch, shown, fbs>>
    BY <1>7 DEF CopyPixel
  <2>3. p \in Pixels("RGB888") /\ (~f.met => p = c[n] /\ n \in 1..Len(c))
    <3>1. \A x \in PixelAt(i, n) : x = c[n] /\ n \in 1..Len(c) /\ x \in Pixels("RGB888")
      BY <1>2, ElementOfSeq, LenProperties DEF PixelAt
    <3>2. \A x \in Strays : x \in Pixels("RGB888")
      BY EncodeType, FrameBufferAssumption DEF Formats, Strays
    <3>3. ~f.met => n <= Len(c)
      BY <1>1, <1>3
    <3> QED
      BY <2>1, <3>1, <3>2, <3>3
  <2> DEFINE q == Fetched(f.fmt, p)
             more == Append(f.buf, q)
             r == [f EXCEPT !.done = n, !.buf = more]
  <2>4. q \in Pixels(f.fmt) /\ Decode(f.fmt, q) = Colour(p)
    BY <1>1, <2>3, FetchedColour
  <2>5. op' = [op EXCEPT ![t] = r]
    BY <2>1
  <2>6. /\ Append(f.buf, q) \in Seq(Pixels(f.fmt)) /\ Len(Append(f.buf, q)) = n
        /\ \A m \in 1..f.done : Append(f.buf, q)[m] = f.buf[m]
        /\ Append(f.buf, q)[n] = q
    BY <1>1, <1>7, <2>4, AppendProperties
  <2> HIDE DEF q
  <2>7. /\ r \in CopyOps /\ r.at = "copy" /\ r.fb = i /\ r.call = f.call /\ r.size = f.size
        /\ r.done = n /\ r.buf = more /\ r.fmt = f.fmt /\ r.met = f.met
    <3>1. more \in Seq(Pixels(f.fmt)) /\ n \in Nat
      BY <1>1, <2>6
    <3> HIDE DEF more, f, n
    <3>2. /\ r \in Copies(f.fmt) /\ r.at = f.at /\ r.fb = f.fb /\ r.call = f.call
          /\ r.size = f.size /\ r.done = n /\ r.buf = more /\ r.fmt = f.fmt /\ r.met = f.met
      BY <1>1, <3>1 DEF Copies
    <3>3. r \in CopyOps
      BY <1>1, <3>2 DEF CopyOps, Formats
    <3> HIDE DEF r
    <3> QED
      BY <1>1, <3>2, <3>3
  <2>8. ~f.met => \A m \in 1..n : Decode(f.fmt, more[m]) = shown[i][m]
    <3> SUFFICES ASSUME ~f.met, NEW m \in 1..n
                 PROVE  Decode(f.fmt, more[m]) = shown[i][m]
      OBVIOUS
    <3>1. CASE m = n
      <4>1. p = c[n] /\ n \in 1..Len(c)
        BY <2>3
      <4> QED
        BY <1>5, <1>7, <2>4, <2>6, <3>1, <4>1
    <3>2. CASE m # n
      <4>1. m \in 1..f.done
        BY <1>1, <3>2
      <4> QED
        BY <1>4, <1>7, <2>6, <4>1
    <3> QED
      BY <3>1, <3>2
  <2>9. Len(r.buf) = r.done /\ r.done <= r.size /\ r.call = "read"
    BY <1>1, <1>7, <2>6, <2>7
  <2> HIDE DEF r, more
  <2>10. /\ Len(r.buf) = IF r.call = "write" THEN r.size ELSE r.done
         /\ r.fb = op[t].fb /\ r.call = op[t].call /\ r.size = op[t].size /\ r.met = op[t].met
    BY <2>7, <2>9
  <2>11. fbs' = [fbs EXCEPT ![r.fb] = fbs[r.fb]]
    BY <2>2 DEF FbInv, FbTypeOK
  <2>12. ~r.met => \A m \in 1..r.done :
             IF r.call = "write" THEN Colour(fbs[r.fb].data[m]) = Decode(r.fmt, r.buf[m])
                                 ELSE Decode(r.fmt, r.buf[m]) = shown[r.fb][m]
    BY <2>7, <2>8, <2>9
  <2>13. fbs[r.fb] \in Buffers /\ fbs[r.fb].owner = t /\ op[t].at = "copy"
    BY <1>1, <1>2, <2>7
  <2> HIDE DEF n, i, f
  <2> QED
    BY <2>2, <2>5, <2>7, <2>9, <2>10, <2>11, <2>12, <2>13, CopyingStep
<1> QED
  BY <1>1, <1>6, <1>7

\* ... the return of a copy ...
LEMMA UnlockStep ==
  ASSUME FbInv, NEW t \in Threads, Unlock(t)
  PROVE  FbInv'
<1> DEFINE f == op[t]  i == f.fb  b == [fbs[i] EXCEPT !.owner = NoThread]
           w == [n \in 1..Len(f.buf) |-> Decode(f.fmt, f.buf[n])]
           s == IF f.met THEN Frame(i) ELSE w
<1>1. /\ f \in CopyOps /\ f.at = "copy" /\ i \in 1..Len(Conf) /\ f.done = f.size
      /\ f.size \in Nat /\ f.fmt \in Formats /\ f.buf \in Seq(Pixels(f.fmt))
      /\ Len(f.buf) = IF f.call = "write" THEN f.size ELSE f.done
      /\ fbs[i].owner = t /\ f.call \in {"read", "write"} /\ f.met \in BOOLEAN
      /\ fbs[i].data \in Seq(Pixels("RGB888")) /\ Len(fbs[i].data) \in Nat
  <2>1. f.at = "copy" /\ f.done = f.size
    BY DEF Unlock
  <2>2. f \in CopyOps
    BY <2>1, Kinds DEF FbInv
  <2> QED
    BY <2>1, <2>2, CopyType, BufferType DEF FbInv, CopyInv
<1>2. /\ fbs' = [fbs EXCEPT ![i] = b] /\ op' = [op EXCEPT ![t] = Idle] /\ UNCHANGED sketch
      /\ f.call = "read" => shown' = shown
      /\ f.call # "read" => shown' = [shown EXCEPT ![i] = s]
  BY DEF Unlock
<1>3. ASSUME f.call = "write"
      PROVE  /\ s \in Seq(Colour4)
             /\ f.met => /\ Len(s) = Len(fbs[i].data)
                         /\ \A n \in 1..Len(s) : s[n] = Colour(fbs[i].data[n])
             /\ ~f.met => Len(s) = f.size /\ \A n \in 1..f.size : s[n] = Decode(f.fmt, f.buf[n])
  <2>1. CASE f.met
    <3>1. s = [n \in 1..Len(fbs[i].data) |-> Colour(fbs[i].data[n])]
      BY <2>1 DEF Frame
    <3>2. \A n \in 1..Len(fbs[i].data) : Colour(fbs[i].data[n]) \in Colour4
      <4>1. \A n \in 1..Len(fbs[i].data) : fbs[i].data[n] \in Pixels("RGB888")
        BY <1>1, ElementOfSeq
      <4> QED
        BY <4>1, StoredColour DEF Formats, Colour
    <3>3. s \in [1..Len(fbs[i].data) -> Colour4]
      BY <3>1, <3>2
    <3>4. s \in Seq(Colour4) /\ Len(s) = Len(fbs[i].data)
      <4> DEFINE n == Len(fbs[i].data)
      <4>1. n \in Nat /\ s \in [1..n -> Colour4]
        BY <1>1, <3>3
      <4> HIDE DEF s, n
      <4>2. s \in Seq(Colour4) /\ Len(s) = n
        BY <4>1, SeqDef, LenProperties
      <4> QED
        BY <4>2 DEF n
    <3> QED
      BY <2>1, <3>1, <3>4
  <2>2. CASE ~f.met
    <3>1. Len(f.buf) = f.size /\ s = w
      BY <1>1, <1>3, <2>2
    <3>2. \A n \in 1..f.size : Decode(f.fmt, f.buf[n]) \in Colour4
      BY <1>1, <3>1, ElementOfSeq, StoredColour
    <3>3. s \in [1..f.size -> Colour4]
      BY <3>1, <3>2
    <3>4. s \in Seq(Colour4) /\ Len(s) = f.size
      <4> DEFINE n == f.size
      <4>1. n \in Nat /\ s \in [1..n -> Colour4]
        BY <1>1, <3>3
      <4> HIDE DEF s, n
      <4>2. s \in Seq(Colour4) /\ Len(s) = n
        BY <4>1, SeqDef, LenProperties
      <4> QED
        BY <4>2 DEF n
    <3> QED
      BY <2>2, <3>1, <3>4
  <2> QED
    BY <2>1, <2>2
<1>4. b \in Buffers /\ b.owner = NoThread /\ b.data = fbs[i].data /\ b.key = fbs[i].key
  <2>1. fbs[i] \in Buffers
    BY <1>1, BufferType DEF FbInv
  <2> QED
    BY <2>1 DEF Buffers
<1> HIDE DEF f, s, b
<1>5. /\ fbs' \in Seq(Buffers) /\ Len(fbs') = Len(Conf) /\ DOMAIN fbs' = 1..Len(Conf)
      /\ fbs'[i] = b /\ \A j \in 1..Len(Conf) : j # i => fbs'[j] = fbs[j]
      /\ DOMAIN fbs = 1..Len(Conf)
  BY <1>1, <1>2, <1>4, PutBuffer, BufferDomain DEF FbInv
<1> HIDE DEF i
<1>6. /\ op'[t] = Idle /\ op'[t].at = "idle" /\ op[t] = f
      /\ \A u \in Threads \ {t} : op'[u] = op[u]
  BY <1>2 DEF FbInv, OpTypeOK, f, Idle
<1>7. \A j \in 1..Len(Conf) : /\ fbs'[j].data = fbs[j].data /\ fbs'[j].key = fbs[j].key
                              /\ j # i => fbs'[j].owner = fbs[j].owner
  BY <1>4, <1>5
<1>8. \A u \in Threads \ {t} : op[u].at = "copy" => op[u].fb # i
  BY <1>1 DEF FbInv, CopyInv
<1>9. /\ shown' \in [1..Len(Conf) -> Seq(Colour4)]
      /\ \A j \in 1..Len(Conf) : j # i => shown'[j] = shown[j]
      /\ shown'[i] = IF f.call = "read" THEN shown[i] ELSE s
  <2>1. shown \in [1..Len(Conf) -> Seq(Colour4)]
    BY DEF FbInv, FbTypeOK
  <2> QED
    BY <1>1, <1>2, <1>3, <2>1
<1>10. FbTypeOK' /\ KeyInv'
  BY <1>2, <1>5, <1>7, <1>9 DEF FbInv, FbTypeOK, KeyInv
<1>11. OpTypeOK'
  BY <1>2 DEF FbInv, OpTypeOK, Idle, Setters, Phases
<1>12. CopyInv'
  <2>1. ASSUME NEW u \in Threads, op'[u].at \in {"wait", "copy"}
        PROVE  /\ op'[u].done <= op'[u].size
               /\ op'[u].at = "wait" => op'[u].done = 0
               /\ Len(op'[u].buf) = IF op'[u].call = "write" THEN op'[u].size ELSE op'[u].done
               /\ op'[u].at = "copy" => fbs'[op'[u].fb].owner = u
    <3>1. op'[u] = op[u] /\ u # t /\ op[u].fb \in 1..Len(Conf)
      BY <1>6, <2>1, Kinds, CopyType DEF FbInv
    <3> QED
      BY <1>7, <1>8, <2>1, <3>1 DEF FbInv, CopyInv
  <2>2. ASSUME NEW j \in 1..Len(Conf), fbs'[j].owner # NoThread
        PROVE  op'[fbs'[j].owner].at = "copy" /\ op'[fbs'[j].owner].fb = j
    <3>1. j # i /\ fbs[j].owner # NoThread /\ fbs'[j].owner = fbs[j].owner
      BY <1>4, <1>5, <1>7, <2>2
    <3>2. op[fbs[j].owner].at = "copy" /\ op[fbs[j].owner].fb = j /\ fbs[j].owner \in Threads
      BY <3>1, OwnerType
    <3>3. fbs[j].owner # t
      BY <1>6, <3>1, <3>2 DEF i
    <3> QED
      BY <1>6, <3>1, <3>2, <3>3
  <2> QED
    BY <1>5, <2>1, <2>2 DEF CopyInv
<1>13. FrameInv'
  <2>1. FrameInv
    BY DEF FbInv
  <2>2. ASSUME NEW u \in Threads, op'[u].at \in {"wait", "copy"}, ~op'[u].met
        PROVE  op'[u].size = Len(fbs'[op'[u].fb].data)
    <3>1. op'[u] = op[u] /\ op[u].fb \in 1..Len(Conf)
      BY <1>6, <2>2, Kinds, CopyType DEF FbInv
    <3> QED
      BY <1>7, <2>1, <2>2, <3>1 DEF FrameInv
  <2>3. ASSUME NEW u \in Threads, op'[u].at = "copy", ~op'[u].met, NEW n \in 1..op'[u].done
        PROVE  IF op'[u].call = "write"
               THEN Colour(fbs'[op'[u].fb].data[n]) = Decode(op'[u].fmt, op'[u].buf[n])
               ELSE Decode(op'[u].fmt, op'[u].buf[n]) = shown'[op'[u].fb][n]
    <3>1. op'[u] = op[u] /\ op[u].fb \in 1..Len(Conf) /\ op[u].fb # i
      BY <1>6, <1>8, <2>3, Kinds, CopyType DEF FbInv
    <3> QED
      BY SMTT(40), <1>7, <1>9, <2>1, <2>3, <3>1 DEF FrameInv
  <2>4. ASSUME NEW j \in 1..Len(Conf)
        PROVE  /\ Len(shown'[j]) = Len(fbs'[j].data)
               /\ (fbs'[j].owner # NoThread => op'[fbs'[j].owner].call = "read") =>
                     \A n \in 1..Len(fbs'[j].data) : Colour(fbs'[j].data[n]) = shown'[j][n]
    <3>1. /\ Len(shown[j]) = Len(fbs[j].data)
          /\ (fbs[j].owner # NoThread => op[fbs[j].owner].call = "read") =>
                \A n \in 1..Len(fbs[j].data) : Colour(fbs[j].data[n]) = shown[j][n]
      BY <1>5, <2>1 DEF FrameInv
    <3>2. CASE j # i
      <4>1. fbs[j].owner # NoThread => fbs[j].owner \in Threads /\ fbs[j].owner # t
        BY <1>6, <3>2, OwnerType DEF i
      <4> QED
        BY <1>6, <1>7, <1>9, <3>1, <3>2, <4>1
    <3>3. CASE j = i /\ f.call = "read"
      BY <1>1, <1>6, <1>7, <1>9, <3>1, <3>3
    <3>4. CASE j = i /\ f.call = "write" /\ f.met
      BY <1>3, <1>7, <1>9, <3>4
    <3>5. CASE j = i /\ f.call = "write" /\ ~f.met
      <4>1. f.size = Len(fbs[i].data)
        BY <1>1, <1>6, <2>1, <3>5 DEF FrameInv, i
      <4>2. \A n \in 1..f.size : Colour(fbs[i].data[n]) = Decode(f.fmt, f.buf[n])
        BY SMTT(40), <1>1, <1>6, <2>1, <3>5 DEF FrameInv, i
      <4> QED
        BY <1>3, <1>7, <1>9, <3>5, <4>1, <4>2
    <3> QED
      BY <1>1, <3>2, <3>3, <3>4, <3>5
  <2> QED
    BY <1>5, <2>2, <2>3, <2>4 DEF FrameInv
<1> QED
  BY <1>10, <1>11, <1>12, <1>13 DEF FbInv

\* A thread that copies nothing ends, or goes on with, what it sets in a buffer, which
\* becomes b and keeps its pixels.
LEMMA SettingStep ==
  ASSUME FbInv, NEW t \in Threads, op[t].at \notin {"wait", "copy"},
         NEW r \in {Idle} \cup Setters, r \in Setters => (r.call = "set" <=> t # Sketch),
         NEW i \in 1..Len(Conf), NEW b \in Buffers,
         b.key = fbs[i].key, b.owner = fbs[i].owner, b.data = fbs[i].data,
         op' = [op EXCEPT ![t] = r], fbs' = [fbs EXCEPT ![i] = b],
         UNCHANGED <<sketch, shown>>
  PROVE  FbInv'
<1>1. /\ fbs' \in Seq(Buffers) /\ Len(fbs') = Len(Conf) /\ DOMAIN fbs' = 1..Len(Conf)
      /\ DOMAIN fbs = 1..Len(Conf)
      /\ \A j \in 1..Len(Conf) : /\ fbs'[j].owner = fbs[j].owner /\ fbs'[j].key = fbs[j].key
                                 /\ fbs'[j].data = fbs[j].data
  BY PutBuffer, BufferDomain DEF FbInv
<1>2. r.at \notin {"wait", "copy"}
  <2>1. r \in Setters => r.at \in Phases
    BY DEF Setters
  <2>2. Idle.at = "idle"
    BY DEF Idle
  <2> QED
    BY <2>1, <2>2 DEF Phases
<1>3. op'[t] = r /\ \A u \in Threads \ {t} : op'[u] = op[u]
  BY DEF FbInv, OpTypeOK
<1>4. \A j \in 1..Len(Conf) : fbs[j].owner # NoThread =>
           fbs[j].owner \in Threads /\ op'[fbs[j].owner] = op[fbs[j].owner]
  <2>1. ASSUME NEW j \in 1..Len(Conf) PROVE fbs[j].owner # t
    BY OwnerType
  <2> QED
    BY <1>3, <2>1, OwnerType
<1>5. FbTypeOK' /\ KeyInv'
  BY <1>1 DEF FbInv, FbTypeOK, KeyInv
<1>6. OpTypeOK'
  BY <1>3 DEF FbInv, OpTypeOK
<1>7. ASSUME NEW u \in Threads, op'[u].at \in {"wait", "copy"}
      PROVE  op'[u] = op[u] /\ op[u].fb \in 1..Len(Conf)
  BY <1>2, <1>3, <1>7, Kinds, CopyType DEF FbInv
<1>8. CopyInv'
  <2>1. ASSUME NEW u \in Threads, op'[u].at \in {"wait", "copy"}
        PROVE  /\ op'[u].done <= op'[u].size
               /\ op'[u].at = "wait" => op'[u].done = 0
               /\ Len(op'[u].buf) = IF op'[u].call = "write" THEN op'[u].size ELSE op'[u].done
               /\ op'[u].at = "copy" => fbs'[op'[u].fb].owner = u
    BY <1>1, <1>7, <2>1 DEF FbInv, CopyInv
  <2>2. ASSUME NEW j \in 1..Len(Conf), fbs'[j].owner # NoThread
        PROVE  op'[fbs'[j].owner].at = "copy" /\ op'[fbs'[j].owner].fb = j
    BY <1>1, <1>4, <2>2, OwnerType
  <2> QED
    BY <1>1, <2>1, <2>2 DEF CopyInv
<1>9. FrameInv'
  <2>1. FrameInv
    BY DEF FbInv
  <2>2. ASSUME NEW u \in Threads, op'[u].at \in {"wait", "copy"}, ~op'[u].met
        PROVE  op'[u].size = Len(fbs'[op'[u].fb].data)
    BY <1>1, <1>7, <2>1, <2>2 DEF FrameInv
  <2>3. ASSUME NEW u \in Threads, op'[u].at = "copy", ~op'[u].met, NEW n \in 1..op'[u].done
        PROVE  IF op'[u].call = "write"
               THEN Colour(fbs'[op'[u].fb].data[n]) = Decode(op'[u].fmt, op'[u].buf[n])
               ELSE Decode(op'[u].fmt, op'[u].buf[n]) = shown'[op'[u].fb][n]
    BY <1>1, <1>7, <2>1, <2>3 DEF FrameInv
  <2>4. ASSUME NEW j \in 1..Len(Conf)
        PROVE  /\ Len(shown'[j]) = Len(fbs'[j].data)
               /\ (fbs'[j].owner # NoThread => op'[fbs'[j].owner].call = "read") =>
                     \A n \in 1..Len(fbs'[j].data) : Colour(fbs'[j].data[n]) = shown'[j][n]
    BY <1>1, <1>4, <2>1 DEF FrameInv
  <2> QED
    BY <1>1, <2>2, <2>3, <2>4 DEF FrameInv
<1> QED
  BY <1>5, <1>6, <1>8, <1>9 DEF FbInv

\* So does the store of the flip word ...
LEMMA FlipStep ==
  ASSUME FbInv, NEW t \in Threads, StoreFlip(t)
  PROVE  FbInv'
<1> DEFINE f == op[t]  i == f.fb
           b == [fbs[i] EXCEPT !.horiz = f.word.horiz, !.vert = f.word.vert]
<1>1. f.at = "flip" /\ f \in Flips
  <2>1. f.at = "flip"
    BY DEF StoreFlip
  <2> QED
    BY <2>1, Kinds DEF FbInv
<1>2. /\ i \in 1..Len(Conf) /\ f.word.horiz \in BOOLEAN /\ f.word.vert \in BOOLEAN
  BY <1>1 DEF Flips
<1>3. fbs[i] \in Buffers /\ i \in DOMAIN fbs
  BY <1>2, BufferType DEF FbInv
<1>4. /\ fbs' = [fbs EXCEPT ![i] = b] /\ op' = [op EXCEPT ![t] = Idle]
      /\ UNCHANGED <<sketch, shown>>
  BY <1>3 DEF StoreFlip
<1> HIDE DEF f
<1>5. b \in Buffers /\ b.owner = fbs[i].owner /\ b.data = fbs[i].data /\ b.key = fbs[i].key
  BY <1>2, <1>3 DEF Buffers
<1>6. Idle \notin Setters
  BY DEF Idle, Setters, Phases
<1>7. op[t].at \notin {"wait", "copy"}
  BY <1>1 DEF f
<1> HIDE DEF i, b
<1> QED
  BY <1>2, <1>4, <1>5, <1>6, <1>7, SettingStep

\* The fields of a setter in progress, and what becomes of the call after a resize.
LEMMA SetterType ==
  ASSUME OpTypeOK, NEW t \in Threads, op[t].at \in Phases
  PROVE  /\ op[t] \in Setters /\ op[t].fb \in 1..Len(Conf)
         /\ op[t].w \in Nat /\ op[t].h \in Nat /\ op[t].f \in Nat
         /\ op[t].call \in {"set", "begin", "end"} /\ (op[t].call = "set" <=> t # Sketch)
         /\ \A at \in Phases : [op[t] EXCEPT !.at = at] \in Setters
         /\ \A at \in Phases : /\ After(t, at) \in {Idle} \cup Setters
                               /\ After(t, at) \in Setters => After(t, at).call = op[t].call
<1>1. op[t] \in Setters /\ (op[t].call = "set" <=> t # Sketch)
  BY Kinds
<1>2. ASSUME NEW at \in Phases
      PROVE  [op[t] EXCEPT !.at = at] \in Setters /\ [op[t] EXCEPT !.at = at].call = op[t].call
  BY <1>1 DEF Setters
<1>3. Idle \notin Setters
  BY DEF Idle, Setters, Phases
<1> QED
  BY <1>1, <1>2, <1>3 DEF Setters, After

\* ... the store of a dimension and that of the frequency ...
LEMMA StoreStep ==
  ASSUME FbInv, NEW t \in Threads, StoreWidth(t) \/ StoreHeight(t) \/ StoreFreq(t)
  PROVE  FbInv'
<1> DEFINE f == op[t]  i == f.fb
<1>1. f.at \in Phases /\ UNCHANGED <<sketch, shown>>
  BY DEF StoreWidth, StoreHeight, StoreFreq, Setting
<1>2. /\ f \in Setters /\ i \in 1..Len(Conf) /\ f.w \in Nat /\ f.h \in Nat /\ f.f \in Nat
      /\ (f.call = "set" <=> t # Sketch)
      /\ \A at \in Phases : [f EXCEPT !.at = at] \in Setters
  BY <1>1, SetterType DEF FbInv
<1>3. fbs[i] \in Buffers /\ i \in DOMAIN fbs
  BY <1>2, BufferType DEF FbInv
<1>4. PICK b \in Buffers : /\ b.key = fbs[i].key /\ b.owner = fbs[i].owner
                           /\ b.data = fbs[i].data /\ fbs' = [fbs EXCEPT ![i] = b]
  <2>1. CASE StoreWidth(t)
    <3> DEFINE b == [fbs[i] EXCEPT !.width = f.w]
    <3>1. b \in Buffers /\ b.key = fbs[i].key /\ b.owner = fbs[i].owner /\ b.data = fbs[i].data
      BY <1>2, <1>3 DEF Buffers
    <3>2. fbs' = [fbs EXCEPT ![i] = b]
      BY <1>3, <2>1 DEF StoreWidth
    <3> QED
      BY <3>1, <3>2
  <2>2. CASE StoreHeight(t)
    <3> DEFINE b == [fbs[i] EXCEPT !.height = f.h]
    <3>1. b \in Buffers /\ b.key = fbs[i].key /\ b.owner = fbs[i].owner /\ b.data = fbs[i].data
      BY <1>2, <1>3 DEF Buffers
    <3>2. fbs' = [fbs EXCEPT ![i] = b]
      BY <1>3, <2>2 DEF StoreHeight
    <3> QED
      BY <3>1, <3>2
  <2>3. CASE StoreFreq(t)
    <3> DEFINE b == [fbs[i] EXCEPT !.freq = f.f]
    <3>1. b \in Buffers /\ b.key = fbs[i].key /\ b.owner = fbs[i].owner /\ b.data = fbs[i].data
      BY <1>2, <1>3 DEF Buffers
    <3>2. fbs' = [fbs EXCEPT ![i] = b]
      BY <1>3, <2>3 DEF StoreFreq
    <3> QED
      BY <3>1, <3>2
  <2> QED
    BY <2>1, <2>2, <2>3
<1>5. PICK r \in {Idle} \cup Setters : /\ op' = [op EXCEPT ![t] = r]
                                       /\ r \in Setters => r.call = f.call
  <2>1. CASE StoreFreq(t)
    <3>1. Idle \notin Setters
      BY DEF Idle, Setters, Phases
    <3> QED
      BY <2>1, <3>1 DEF StoreFreq
  <2>2. ASSUME NEW at \in Phases, op' = [op EXCEPT ![t].at = at]
        PROVE  \E r \in {Idle} \cup Setters : /\ op' = [op EXCEPT ![t] = r]
                                              /\ r \in Setters => r.call = f.call
    <3> DEFINE r == [f EXCEPT !.at = at]
    <3>1. r \in Setters /\ r.call = f.call
      BY <1>2 DEF Setters
    <3>2. op' = [op EXCEPT ![t] = r]
      BY <2>2
    <3> QED
      BY <3>1, <3>2
  <2>3. "width resize" \in Phases /\ "height resize" \in Phases
    BY DEF Phases
  <2> QED
    BY <2>1, <2>2, <2>3 DEF StoreWidth, StoreHeight
<1>6. op[t].at \notin {"wait", "copy"}
  BY <1>1 DEF Phases
<1> HIDE DEF f, i
<1>7. r \in Setters => (r.call = "set" <=> t # Sketch)
  BY <1>2, <1>5
<1>8. i \in 1..Len(Conf) /\ UNCHANGED <<sketch, shown>>
  BY <1>1, <1>2
<1> QED
  BY <1>4, <1>5, <1>6, <1>7, <1>8, SettingStep

\* What a resize does to the calls of the other threads: those that copy the pixels
\* are marked, unless all the pixels stay.
LEMMA Marked ==
  ASSUME FbInv, NEW t \in Threads, NEW n \in Nat, NEW to \in Phases, op[t].at \in Phases,
         Resize(t, n, to)
  PROVE  /\ op'[t] = After(t, to)
         /\ OpTypeOK'
         /\ \A u \in Threads : op'[u].at \in {"wait", "copy"} <=> op[u].at \in {"wait", "copy"}
         /\ \A u \in Threads : op[u].at \in {"wait", "copy"} =>
               /\ u # t /\ op'[u].at = op[u].at /\ op'[u].fb = op[u].fb
               /\ op'[u].call = op[u].call /\ op'[u].fmt = op[u].fmt
               /\ op'[u].size = op[u].size /\ op'[u].buf = op[u].buf
               /\ op'[u].done = op[u].done
               /\ ~op'[u].met => /\ ~op[u].met
                                 /\ op[u].fb = op[t].fb => n = Len(fbs[op[t].fb].data)
         /\ \A u \in Threads : u # t /\ op[u].at \notin {"wait", "copy"} => op'[u] = op[u]
<1> DEFINE i == op[t].fb  M == Meets(i, n)
<1>1. \A u \in Threads : op'[u] = IF u = t THEN After(t, to)
                                 ELSE IF u \in M THEN [op[u] EXCEPT !.met = TRUE] ELSE op[u]
  BY DEF Resize
<1>2. \A u \in Threads : u \in M <=> /\ n # Len(fbs[i].data)
                                   /\ op[u].at \in {"wait", "copy"} /\ op[u].fb = i
  BY DEF Meets, Copying
<1>3. op' \in [Threads -> {After(t, to)} \cup {[op[u] EXCEPT !.met = TRUE] : u \in M}
                           \cup {op[u] : u \in Threads}]
  BY DEF Resize
<1> HIDE DEF M, i
<1>4. /\ After(t, to) \in {Idle} \cup Setters
      /\ After(t, to) \in Setters => (After(t, to).call = "set" <=> t # Sketch)
  BY SetterType DEF FbInv
<1>5. After(t, to).at \notin {"wait", "copy"} /\ op[t].at \notin {"wait", "copy"}
  <2>1. \A r \in Setters : r.at \in Phases
    BY DEF Setters
  <2>2. Idle.at = "idle"
    BY DEF Idle
  <2>3. After(t, to).at \in Phases \cup {"idle"}
    BY <1>4, <2>1, <2>2
  <2> QED
    BY <2>3 DEF Phases
<1>6. ASSUME NEW u \in Threads, op[u].at \in {"wait", "copy"}
      PROVE  /\ [op[u] EXCEPT !.met = TRUE] \in CopyOps
             /\ [op[u] EXCEPT !.met = TRUE].at = op[u].at /\ [op[u] EXCEPT !.met = TRUE].fb = op[u].fb
             /\ [op[u] EXCEPT !.met = TRUE].call = op[u].call
             /\ [op[u] EXCEPT !.met = TRUE].fmt = op[u].fmt
             /\ [op[u] EXCEPT !.met = TRUE].size = op[u].size
             /\ [op[u] EXCEPT !.met = TRUE].buf = op[u].buf
             /\ [op[u] EXCEPT !.met = TRUE].done = op[u].done
             /\ [op[u] EXCEPT !.met = TRUE].met
  <2>1. op[u] \in Copies("RGB888") \/ op[u] \in Copies("RGB444")
    BY <1>6, Kinds DEF FbInv, CopyOps
  <2> QED
    BY <2>1 DEF CopyOps, Copies
<1>7. OpTypeOK'
  <2>1. \A r \in CopyOps : r \notin Setters
    <3>1. \A r \in CopyOps : r.at \in {"wait", "copy"}
      BY DEF CopyOps, Copies
    <3>2. \A r \in Setters : r.at \in Phases
      BY DEF Setters
    <3> QED
      BY <3>1, <3>2 DEF Phases
  <2> DEFINE S == {Idle} \cup CopyOps \cup Flips \cup Setters
  <2>2. ASSUME NEW u \in Threads
        PROVE  op'[u] \in S /\ (op'[u] \in Setters => (op'[u].call = "set" <=> u # Sketch))
    <3>1. CASE u = t
      BY <1>1, <1>4, <3>1
    <3>2. CASE u # t /\ u \in M
      <4>1. op'[u] \in CopyOps
        BY <1>1, <1>2, <1>6, <3>2
      <4> QED
        BY <2>1, <4>1
    <3>3. CASE u # t /\ u \notin M
      BY <1>1, <3>3 DEF FbInv, OpTypeOK
    <3> QED
      BY <3>1, <3>2, <3>3
  <2>3. op' \in [Threads -> S]
    <3> HIDE DEF S
    <3> QED
      BY <1>3, <2>2
  <2> QED
    BY <2>2, <2>3 DEF OpTypeOK
<1>8. ASSUME NEW u \in Threads
      PROVE  op'[u].at \in {"wait", "copy"} <=> op[u].at \in {"wait", "copy"}
  BY <1>1, <1>2, <1>5, <1>6
<1>9. ASSUME NEW u \in Threads, op[u].at \in {"wait", "copy"}
      PROVE  /\ u # t /\ op'[u].at = op[u].at /\ op'[u].fb = op[u].fb
             /\ op'[u].call = op[u].call /\ op'[u].fmt = op[u].fmt
             /\ op'[u].size = op[u].size /\ op'[u].buf = op[u].buf
             /\ op'[u].done = op[u].done
             /\ ~op'[u].met => ~op[u].met /\ (op[u].fb = i => n = Len(fbs[i].data))
  <2>1. u # t
    BY <1>5, <1>9
  <2>2. CASE u \in M
    BY <1>1, <1>6, <1>9, <2>1, <2>2
  <2>3. CASE u \notin M
    BY <1>1, <1>2, <1>9, <2>1, <2>3
  <2> QED
    BY <2>2, <2>3
<1>10. ASSUME NEW u \in Threads, u # t, op[u].at \notin {"wait", "copy"}
       PROVE  op'[u] = op[u]
  BY <1>1, <1>2, <1>10
<1>11. op'[t] = After(t, to)
  BY <1>1
<1> QED
  BY <1>7, <1>8, <1>9, <1>10, <1>11 DEF i

\* ... and the resize, of the pixels and of what is shown alike.
LEMMA ResizeStep ==
  ASSUME FbInv, NEW t \in Threads, NEW n \in Nat, NEW to \in Phases, op[t].at \in Phases,
         Resize(t, n, to)
  PROVE  FbInv'
<1> DEFINE i == op[t].fb
           d == Resized(fbs[i].data, n, Black)  s == Resized(shown[i], n, Black)
           b == [fbs[i] EXCEPT !.data = d]
<1>0. i \in 1..Len(Conf)
  BY SetterType DEF FbInv
<1>1. /\ fbs[i] \in Buffers /\ i \in DOMAIN fbs /\ fbs[i].data \in Seq(Pixels("RGB888"))
      /\ shown[i] \in Seq(Colour4) /\ Len(fbs[i].data) \in Nat
  BY <1>0, BufferType DEF FbInv
<1>2. Black \in Pixels("RGB888") /\ Black \in Colour4 /\ Colour(Black) = Black
  BY DEF Black, Pixels, Byte, Colour4, Colour, Decode, Down
<1>3. /\ fbs' = [fbs EXCEPT ![i] = b] /\ shown' = [shown EXCEPT ![i] = s] /\ UNCHANGED sketch
  BY <1>1 DEF Resize
<1>4. /\ d \in Seq(Pixels("RGB888")) /\ Len(d) = n
      /\ \A j \in 1..n : d[j] = IF j <= Len(fbs[i].data) THEN fbs[i].data[j] ELSE Black
      /\ n = Len(fbs[i].data) => d = fbs[i].data
  <2> DEFINE e == fbs[i].data  S == Pixels("RGB888")
  <2>1. e \in Seq(S) /\ Black \in S
    BY <1>1, <1>2
  <2> HIDE DEF e, S
  <2>2. /\ Resized(e, n, Black) \in Seq(S) /\ Len(Resized(e, n, Black)) = n
        /\ \A j \in 1..n : Resized(e, n, Black)[j] = IF j <= Len(e) THEN e[j] ELSE Black
        /\ n = Len(e) => Resized(e, n, Black) = e
    BY <2>1, ResizedType
  <2> QED
    BY <2>2 DEF e, S
<1>5. /\ s \in Seq(Colour4) /\ Len(s) = n
      /\ \A j \in 1..n : s[j] = IF j <= Len(shown[i]) THEN shown[i][j] ELSE Black
      /\ n = Len(shown[i]) => s = shown[i]
  <2> DEFINE e == shown[i]
  <2>1. e \in Seq(Colour4) /\ Black \in Colour4
    BY <1>1, <1>2
  <2> HIDE DEF e
  <2>2. /\ Resized(e, n, Black) \in Seq(Colour4) /\ Len(Resized(e, n, Black)) = n
        /\ \A j \in 1..n : Resized(e, n, Black)[j] = IF j <= Len(e) THEN e[j] ELSE Black
        /\ n = Len(e) => Resized(e, n, Black) = e
    BY <2>1, ResizedType
  <2> QED
    BY <2>2 DEF e
<1> HIDE DEF d, s
<1>6. b \in Buffers /\ b.owner = fbs[i].owner /\ b.key = fbs[i].key /\ b.data = d
  BY <1>1, <1>4 DEF Buffers
<1> HIDE DEF b
<1>7. /\ fbs' \in Seq(Buffers) /\ Len(fbs') = Len(Conf) /\ DOMAIN fbs' = 1..Len(Conf)
      /\ fbs'[i] = b /\ \A j \in 1..Len(Conf) : j # i => fbs'[j] = fbs[j]
      /\ DOMAIN fbs = 1..Len(Conf)
  BY <1>0, <1>3, <1>6, PutBuffer, BufferDomain DEF FbInv
<1>8. /\ shown' \in [1..Len(Conf) -> Seq(Colour4)] /\ shown'[i] = s
      /\ \A j \in 1..Len(Conf) : j # i => shown'[j] = shown[j]
  BY <1>0, <1>3, <1>5 DEF FbInv, FbTypeOK
<1>9. \A j \in 1..Len(Conf) : fbs'[j].owner = fbs[j].owner /\ fbs'[j].key = fbs[j].key
  BY <1>6, <1>7
<1>10. \A u \in Threads : op'[u].at \in {"wait", "copy"} =>
         /\ op[u].at = op'[u].at /\ op[u].fb \in 1..Len(Conf) /\ op'[u].fb = op[u].fb
         /\ op'[u].call = op[u].call /\ op'[u].fmt = op[u].fmt /\ op'[u].size = op[u].size
         /\ op'[u].buf = op[u].buf /\ op'[u].done = op[u].done
         /\ ~op'[u].met => ~op[u].met /\ (op[u].fb = i => n = Len(fbs[i].data))
  <2>1. \A u \in Threads : op[u].at \in {"wait", "copy"} => op[u].fb \in 1..Len(Conf)
    BY Kinds, CopyType DEF FbInv
  <2> HIDE DEF FbInv
  <2> QED
    BY <2>1, Marked
<1>11. \A j \in 1..Len(Conf) : fbs[j].owner # NoThread =>
         /\ fbs[j].owner \in Threads /\ op'[fbs[j].owner].at = "copy"
         /\ op'[fbs[j].owner].fb = j /\ op'[fbs[j].owner].call = op[fbs[j].owner].call
  <2> SUFFICES ASSUME NEW j \in 1..Len(Conf), fbs[j].owner # NoThread
               PROVE  /\ fbs[j].owner \in Threads /\ op'[fbs[j].owner].at = "copy"
                      /\ op'[fbs[j].owner].fb = j
                      /\ op'[fbs[j].owner].call = op[fbs[j].owner].call
    OBVIOUS
  <2>1. fbs[j].owner \in Threads /\ op[fbs[j].owner].at = "copy" /\ op[fbs[j].owner].fb = j
    BY OwnerType
  <2> QED
    BY <2>1, Marked
<1>12. FbTypeOK' /\ KeyInv'
  BY <1>3, <1>7, <1>8, <1>9 DEF FbInv, FbTypeOK, KeyInv
<1>13. OpTypeOK'
  BY Marked
<1>14. CopyInv'
  <2>1. ASSUME NEW u \in Threads, op'[u].at \in {"wait", "copy"}
        PROVE  /\ op'[u].done <= op'[u].size
               /\ op'[u].at = "wait" => op'[u].done = 0
               /\ Len(op'[u].buf) = IF op'[u].call = "write" THEN op'[u].size ELSE op'[u].done
               /\ op'[u].at = "copy" => fbs'[op'[u].fb].owner = u
    BY <1>9, <1>10, <2>1 DEF FbInv, CopyInv
  <2> QED
    BY <1>7, <1>9, <1>11, <2>1 DEF CopyInv
<1>15. FrameInv'
  <2>1. FrameInv
    BY DEF FbInv
  <2>2. Len(shown[i]) = Len(fbs[i].data)
    BY <1>1, <2>1 DEF FrameInv
  <2>3. ASSUME NEW u \in Threads, op'[u].at \in {"wait", "copy"}, ~op'[u].met
        PROVE  fbs'[op[u].fb].data = fbs[op[u].fb].data /\ shown'[op[u].fb] = shown[op[u].fb]
    BY <1>4, <1>5, <1>6, <1>7, <1>8, <1>10, <2>2, <2>3
  <2>4. ASSUME NEW u \in Threads, op'[u].at \in {"wait", "copy"}, ~op'[u].met
        PROVE  op'[u].size = Len(fbs'[op'[u].fb].data)
    BY <1>10, <2>1, <2>3, <2>4 DEF FrameInv
  <2>5. ASSUME NEW u \in Threads, op'[u].at = "copy", ~op'[u].met, NEW m \in 1..op'[u].done
        PROVE  IF op'[u].call = "write"
               THEN Colour(fbs'[op'[u].fb].data[m]) = Decode(op'[u].fmt, op'[u].buf[m])
               ELSE Decode(op'[u].fmt, op'[u].buf[m]) = shown'[op'[u].fb][m]
    BY <1>10, <2>1, <2>3, <2>5 DEF FrameInv
  <2>6. ASSUME NEW j \in 1..Len(Conf)
        PROVE  /\ Len(shown'[j]) = Len(fbs'[j].data)
               /\ (fbs'[j].owner # NoThread => op'[fbs'[j].owner].call = "read") =>
                     \A m \in 1..Len(fbs'[j].data) : Colour(fbs'[j].data[m]) = shown'[j][m]
    <3>1. /\ Len(shown[j]) = Len(fbs[j].data)
          /\ (fbs[j].owner # NoThread => op[fbs[j].owner].call = "read") =>
                \A m \in 1..Len(fbs[j].data) : Colour(fbs[j].data[m]) = shown[j][m]
      BY <1>7, <2>1 DEF FrameInv
    <3>2. CASE j # i
      BY <1>7, <1>8, <1>11, <3>1, <3>2
    <3>3. CASE j = i
      <4>1. Len(shown'[j]) = n /\ Len(fbs'[j].data) = n
        BY <1>4, <1>5, <1>6, <1>7, <1>8, <3>3
      <4>2. ASSUME fbs'[j].owner # NoThread => op'[fbs'[j].owner].call = "read", NEW m \in 1..n
            PROVE  Colour(fbs'[j].data[m]) = shown'[j][m]
        <5>1. \A k \in 1..Len(fbs[j].data) : Colour(fbs[j].data[k]) = shown[j][k]
          BY <1>9, <1>11, <3>1, <4>2
        <5>2. fbs'[j].data = d /\ shown'[j] = s
          BY <1>6, <1>7, <1>8, <3>3
        <5>3. /\ d[m] = IF m <= Len(fbs[i].data) THEN fbs[i].data[m] ELSE Black
              /\ s[m] = IF m <= Len(fbs[i].data) THEN shown[i][m] ELSE Black
          BY <1>4, <1>5, <2>2
        <5>4. m <= Len(fbs[i].data) => Colour(fbs[i].data[m]) = shown[i][m]
          BY <1>1, <3>3, <5>1
        <5> QED
          BY <1>2, <5>2, <5>3, <5>4
      <4> QED
        BY <4>1, <4>2
    <3> QED
      BY <3>2, <3>3
  <2> QED
    BY <1>7, <2>4, <2>5, <2>6 DEF FrameInv
<1> QED
  BY <1>12, <1>13, <1>14, <1>15 DEF FbInv

\* The dimensions of a buffer and its pixels.
LEMMA Dimensions ==
  ASSUME FbInv, NEW i \in 1..Len(Conf)
  PROVE  fbs[i].width \in Nat /\ fbs[i].height \in Nat /\ Len(fbs[i].data) \in Nat
BY BufferType DEF FbInv, Buffers

\* What a resize gets: the pixels that the dimensions make by then.
LEMMA Resizes ==
  ASSUME FbInv, NEW t \in Threads, ResizeWidth(t) \/ ResizeHeight(t)
  PROVE  /\ op[t].at \in Phases /\ op[t].fb \in 1..Len(Conf)
         /\ ResizeWidth(t) => /\ op[t].w * fbs[op[t].fb].height \in Nat /\ "height" \in Phases
                              /\ Resize(t, op[t].w * fbs[op[t].fb].height, "height")
         /\ ResizeHeight(t) => /\ op[t].h * fbs[op[t].fb].width \in Nat /\ "freq" \in Phases
                               /\ Resize(t, op[t].h * fbs[op[t].fb].width, "freq")
<1>1. op[t].at \in Phases
  BY DEF ResizeWidth, ResizeHeight, Setting
<1>2. op[t].fb \in 1..Len(Conf) /\ op[t].w \in Nat /\ op[t].h \in Nat
  BY <1>1, SetterType DEF FbInv
<1>3. fbs[op[t].fb].width \in Nat /\ fbs[op[t].fb].height \in Nat
  BY <1>2, Dimensions
<1> DEFINE i == op[t].fb  n == op[t].w * fbs[i].height  m == op[t].h * fbs[i].width
<1>4. n \in Nat /\ m \in Nat
  BY <1>2, <1>3
<1>5. "height" \in Phases /\ "freq" \in Phases
  BY DEF Phases
<1>6. /\ ResizeWidth(t) => Resize(t, n, "height")
      /\ ResizeHeight(t) => Resize(t, m, "freq")
  BY DEF ResizeWidth, ResizeHeight
<1> QED
  BY <1>1, <1>2, <1>4, <1>5, <1>6

\* A setter, of the host or of the camera, keeps the invariant of the frame buffers.
LEMMA SetterFb ==
  ASSUME FbInv, NEW t \in Threads, SetDimension(t) \/ StoreFreq(t)
  PROVE  FbInv'
<1>1. CASE StoreWidth(t) \/ StoreHeight(t) \/ StoreFreq(t)
  BY <1>1, StoreStep
<1>2. CASE ResizeWidth(t) \/ ResizeHeight(t)
  BY <1>2, Resizes, ResizeStep
<1> QED
  BY <1>1, <1>2 DEF SetDimension

\* A look-up returns a buffer with the key asked for, or none.
LEMMA FindType ==
  ASSUME FbTypeOK, NEW key
  PROVE  /\ Find(key) \in 0..Len(Conf)
         /\ Exists(Find(key)) => Find(key) \in 1..Len(Conf) /\ fbs[Find(key)].key = key
         /\ \A i : Exists(i) <=> i \in 1..Len(Conf)
<1> DEFINE b == LowerBound(FbKeys, key)
<1> HIDE DEF b
<1>1. Find(key) = IF Exists(b) /\ fbs[b].key = key THEN b ELSE 0
  BY DEF Find, b
<1>2. \A i : Exists(i) <=> i \in 1..Len(Conf)
  BY BufferDomain DEF Exists
<1> QED
  BY <1>1, <1>2, BufferDomain

CamTypeOK ==
    /\ cam \in [key : Keys, format : Formats, begun : BOOLEAN, missing : BOOLEAN]
    /\ sizer \in [1..Len(Conf) -> {"camera", "host", "left behind"}]

\* A call to write is made of frames of one colour, of the length of the buffer.
LEMMA WriteCall ==
  ASSUME FbInv, NEW t \in Threads, NEW i, NEW fmt \in Formats, NEW buf \in Seq(Pixels(fmt)),
         CallWrite(t, i, fmt, buf)
  PROVE  FbInv'
<1> DEFINE r == [at |-> "wait", call |-> "write", fb |-> i, fmt |-> fmt,
                 size |-> Len(buf), buf |-> buf, done |-> 0, met |-> FALSE]
<1>1. /\ op[t] = Idle /\ Exists(i) /\ SizeOk(i, fmt, BytesPerPixel(fmt) * Len(buf))
      /\ op' = [op EXCEPT ![t] = r] /\ UNCHANGED <<fbs, sketch, shown>>
  BY DEF CallWrite, Free
<1>2. i \in 1..Len(Conf)
  BY <1>1, FindType DEF FbInv
<1>3. Len(buf) \in Nat /\ Len(buf) = Len(fbs[i].data)
  <2>1. Len(buf) \in Nat /\ Len(fbs[i].data) \in Nat
    BY <1>2, BufferType, LenProperties DEF FbInv
  <2> QED
    BY <1>1, <2>1, SizeFits
<1>4. r \in Copies(fmt)
  BY <1>2, <1>3 DEF Copies
<1>5. /\ r \in CopyOps /\ r \notin Setters /\ r.at = "wait" /\ r.done = 0 /\ r.fb = i
      /\ r.size = Len(fbs[i].data) /\ r.call = "write" /\ Len(r.buf) = r.size
  BY <1>3, <1>4 DEF CopyOps, Formats, Setters, Phases
<1> HIDE DEF r
<1>6. op[t].at \notin {"wait", "copy"}
  BY <1>1 DEF Idle
<1> QED
  BY <1>1, <1>5, <1>6, CallStep

\* A read that passed its size check waits for the mutex and has read nothing.
LEMMA ReadCall ==
  ASSUME FbInv, NEW t \in Threads, NEW i, NEW fmt \in Formats, NEW bytes,
         CallRead(t, i, fmt, bytes)
  PROVE  FbInv'
<1> DEFINE n == bytes \div BytesPerPixel(fmt)
           r == [at |-> "wait", call |-> "read", fb |-> i, fmt |-> fmt,
                 size |-> n, buf |-> <<>>, done |-> 0, met |-> FALSE]
<1>1. /\ op[t] = Idle /\ Exists(i) /\ SizeOk(i, fmt, bytes)
      /\ op' = [op EXCEPT ![t] = r] /\ UNCHANGED <<fbs, sketch, shown>>
  BY DEF CallRead, Free
<1>2. i \in 1..Len(Conf)
  BY <1>1, FindType DEF FbInv
<1>3. n \in Nat /\ n = Len(fbs[i].data)
  <2>1. Len(fbs[i].data) \in Nat
    BY <1>2, BufferType DEF FbInv
  <2> QED
    BY <1>1, <2>1, SizeFitsBytes
<1> HIDE DEF n
<1>4. r \in Copies(fmt)
  BY <1>2, <1>3, EmptySeq DEF Copies
<1>5. /\ r \in CopyOps /\ r \notin Setters /\ r.at = "wait" /\ r.done = 0 /\ r.fb = i
      /\ r.size = Len(fbs[i].data) /\ r.call = "read" /\ Len(r.buf) = 0
  BY <1>3, <1>4, EmptySeq DEF CopyOps, Formats, Setters, Phases
<1> HIDE DEF r
<1>6. op[t].at \notin {"wait", "copy"}
  BY <1>1 DEF Idle
<1> QED
  BY <1>1, <1>5, <1>6, CallStep

\* A flip call has loaded the word and changed nothing yet.
LEMMA FlipCall ==
  ASSUME FbInv, NEW t \in Threads, NEW i, NEW flag \in Flags, NEW val \in BOOLEAN,
         CallFlip(t, i, flag, val)
  PROVE  FbInv'
<1> DEFINE w == IF flag = "horiz" THEN [horiz |-> val, vert |-> fbs[i].vert]
                                  ELSE [horiz |-> fbs[i].horiz, vert |-> val]
           r == [at |-> "flip", fb |-> i, flag |-> flag, word |-> w]
<1>1. /\ op[t] = Idle /\ Exists(i)
      /\ op' = [op EXCEPT ![t] = r] /\ UNCHANGED <<fbs, sketch, shown>>
  BY DEF CallFlip, Free
<1>2. i \in 1..Len(Conf)
  BY <1>1, FindType DEF FbInv
<1>3. w \in [horiz : BOOLEAN, vert : BOOLEAN]
  <2>1. fbs[i] \in Buffers
    BY <1>2, BufferType DEF FbInv
  <2> QED
    BY <2>1 DEF Buffers
<1> HIDE DEF w
<1>4. r \in Flips /\ r \notin CopyOps /\ r \notin Setters
  BY <1>2, <1>3 DEF Flips, CopyOps, Copies, Setters, Phases
<1> HIDE DEF r
<1>5. op[t].at \notin {"wait", "copy"}
  BY <1>1 DEF Idle
<1> QED
  BY <1>1, <1>4, <1>5, CallStep

\* A call to a setter changes no buffer yet.
LEMMA SetCall ==
  ASSUME FbInv, NEW t \in Threads, NEW i, NEW call \in {"set", "begin", "end"}, NEW at \in Phases,
         NEW w \in Nat, NEW h \in Nat, NEW f \in Nat, CallSet(t, call, i, at, w, h, f),
         call = "set" <=> t # Sketch
  PROVE  FbInv'
<1> DEFINE r == [at |-> at, call |-> call, fb |-> i, w |-> w, h |-> h, f |-> f]
<1>1. /\ op[t] = Idle /\ Exists(i)
      /\ op' = [op EXCEPT ![t] = r] /\ UNCHANGED <<fbs, sketch, shown>>
  BY DEF CallSet, Free
<1>2. i \in 1..Len(Conf)
  BY <1>1, FindType DEF FbInv
<1>3. r \in Setters /\ r.call = call
  BY <1>2 DEF Setters
<1>4. r \notin CopyOps
  BY DEF CopyOps, Copies, Phases
<1> HIDE DEF r
<1>5. op[t].at \notin {"wait", "copy"}
  BY <1>1 DEF Idle
<1> QED
  BY <1>1, <1>3, <1>4, <1>5, CallStep

\* What the host calls keeps the invariant of the frame buffers ...
LEMMA HostFb ==
  ASSUME FbInv, NEW h \in Hosts, HostCalls(h)
  PROVE  FbInv'
<1>1. h \in Threads
  BY DEF Threads
<1>2. PICK i \in 1..Len(fbs), fmt \in Formats :
        \/ \E c \in Colours, len \in Lengths :
              CallWrite(h, i, fmt, [n \in 1..len |-> Encode(fmt, c)])
        \/ \E len \in Lengths : CallRead(h, i, fmt, BytesPerPixel(fmt) * len)
        \/ \E flag \in Flags, val \in BOOLEAN : CallFlip(h, i, flag, val)
        \/ \E d \in Dims : CallSet(h, "set", i, "width", d, 0, 0)
        \/ \E d \in Dims : CallSet(h, "set", i, "height", 0, d, 0)
        \/ \E f \in Rates : CallSet(h, "set", i, "freq", 0, 0, f)
  BY DEF HostCalls
<1>3. ASSUME NEW c \in Colours, NEW len \in Lengths,
             CallWrite(h, i, fmt, [n \in 1..len |-> Encode(fmt, c)])
      PROVE  FbInv'
  <2> DEFINE buf == [n \in 1..len |-> Encode(fmt, c)]
  <2>1. len \in Nat /\ Encode(fmt, c) \in Pixels(fmt)
    BY EncodeType, FrameBufferAssumption
  <2>2. buf \in Seq(Pixels(fmt))
    <3>1. buf \in [1..len -> Pixels(fmt)]
      BY <2>1
    <3> QED
      BY <2>1, <3>1, SeqDef
  <2>3. CallWrite(h, i, fmt, buf)
    BY <1>3
  <2> HIDE DEF buf
  <2> QED
    BY <1>1, <2>2, <2>3, WriteCall
<1>4. ASSUME NEW len \in Lengths, CallRead(h, i, fmt, BytesPerPixel(fmt) * len)
      PROVE  FbInv'
  BY <1>1, <1>4, ReadCall
<1>5. ASSUME NEW flag \in Flags, NEW val \in BOOLEAN, CallFlip(h, i, flag, val)
      PROVE  FbInv'
  BY <1>1, <1>5, FlipCall
<1>6. ASSUME NEW at \in Phases, NEW w \in Nat, NEW d \in Nat, NEW f \in Nat,
             CallSet(h, "set", i, at, w, d, f)
      PROVE  FbInv'
  <2>1. h # Sketch
    BY FrameBufferAssumption
  <2> QED
    BY <1>1, <1>6, <2>1, SetCall
<1>7. /\ Dims \subseteq Nat /\ Rates \subseteq Nat
      /\ "width" \in Phases /\ "height" \in Phases /\ "freq" \in Phases
  BY FrameBufferAssumption DEF Phases
<1> QED
  BY <1>2, <1>3, <1>4, <1>5, <1>6, <1>7

\* ... and what the camera of the sketch calls ...
LEMMA CameraFb ==
  ASSUME FbInv, CamTypeOK, CameraCalls
  PROVE  FbInv'
<1>0. Sketch \in Threads /\ cam.format \in Formats
  BY DEF Threads, CamTypeOK
<1>1. ASSUME UNCHANGED fbVars PROVE FbInv'
  <2>1. FbTypeOK' /\ OpTypeOK' /\ CopyInv' /\ KeyInv'
    BY <1>1 DEF fbVars, FbInv, FbTypeOK, OpTypeOK, CopyInv, KeyInv
  <2>2. FrameInv => FrameInv'
    BY <1>1 DEF fbVars, FrameInv
  <2> QED
    BY <2>1, <2>2 DEF FbInv
<1>2. ASSUME NEW call \in {"begin", "end"}, NEW i, NEW w \in Nat, NEW h \in Nat, NEW f \in Nat,
             CallSet(Sketch, call, i, "width", w, h, f)
      PROVE  FbInv'
  BY <1>0, <1>2, SetCall DEF Phases
<1>3. ASSUME NEW k \in Keys, SetPins(k) PROVE FbInv'
  BY <1>1, <1>3 DEF SetPins
<1>4. ASSUME NEW r, NEW fmt, BeginFails(r, fmt) PROVE FbInv'
  BY <1>1, <1>4 DEF BeginFails
<1>5. ASSUME NEW r \in 1..Len(Resolutions), NEW fmt, NEW f \in Rates, Begin(r, fmt, f)
      PROVE  FbInv'
  <2>1. Resolutions[r] \in Nat \X Nat /\ f \in Nat
    BY CameraAssumption, FrameBufferAssumption, ElementOfSeq
  <2> QED
    BY <1>2, <1>5, <2>1 DEF Begin
<1>6. ASSUME End PROVE FbInv'
  BY <1>1, <1>2, <1>6 DEF End, fbVars
<1>7. ASSUME ReadFrame PROVE FbInv'
  BY <1>0, <1>7, ReadCall DEF ReadFrame
<1>8. ASSUME NEW flag \in Flags, NEW val \in BOOLEAN, Flip(flag, val)
      PROVE  FbInv'
  BY <1>0, <1>8, FlipCall DEF Flip
<1> QED
  BY <1>3, <1>4, <1>5, <1>6, <1>7, <1>8 DEF CameraCalls

\* ... and so does every step.
LEMMA FbStep == FbInv /\ CamTypeOK /\ [Next]_vars => FbInv'
<1> SUFFICES ASSUME FbInv, CamTypeOK, [Next]_vars PROVE FbInv'
  OBVIOUS
<1>1. ASSUME UNCHANGED <<fbs, op, shown>>, sketch' \in {"running", "frozen", "dead"}
      PROVE  FbInv'
  <2>1. FbTypeOK' /\ OpTypeOK' /\ CopyInv' /\ KeyInv'
    BY <1>1 DEF FbInv, FbTypeOK, OpTypeOK, CopyInv, KeyInv
  <2>2. FrameInv => FrameInv'
    BY <1>1 DEF FrameInv
  <2> QED
    BY <2>1, <2>2 DEF FbInv
<1>2. ASSUME NEW t \in Threads, Proceed(t) PROVE FbInv'
  BY <1>2, LockStep, CopyPixelStep, UnlockStep, FlipStep DEF Proceed
<1>3. ASSUME Freeze \/ Thaw \/ Kill PROVE FbInv'
  BY <1>1, <1>3 DEF Freeze, Thaw, Kill
<1>4. ASSUME UNCHANGED vars PROVE FbInv'
  BY <1>1, <1>4 DEF vars, fbVars, FbInv, FbTypeOK
<1>5. ASSUME CameraSets PROVE FbInv'
  BY <1>5, SetterFb DEF CameraSets, Threads
<1>6. ASSUME NEW h \in Hosts, HostSets(h) PROVE FbInv'
  BY <1>6, SetterFb DEF HostSets, Threads
<1> QED
  BY <1>2, <1>3, <1>4, <1>5, <1>6, CameraFb, HostFb DEF Next

-----------------------------------------------------------------------------
(* The camera.                                                             *)

\* The driver's fields keep their types.
LEMMA CamType == FbInv /\ CamTypeOK /\ [Next]_vars => CamTypeOK'
<1> SUFFICES ASSUME FbInv, CamTypeOK, [Next]_vars PROVE CamTypeOK'
  OBVIOUS
<1>0. /\ cam \in [key : Keys, format : Formats, begun : BOOLEAN, missing : BOOLEAN]
      /\ sizer \in [1..Len(Conf) -> {"camera", "host", "left behind"}]
  BY DEF CamTypeOK
<1>1. ASSUME NEW k \in Keys, SetPins(k) PROVE CamTypeOK'
  BY <1>0, <1>1 DEF SetPins, CamTypeOK
<1>2. ASSUME NEW r \in 0..Len(Resolutions), NEW fmt, BeginFails(r, fmt) PROVE CamTypeOK'
  BY <1>0, <1>2 DEF BeginFails, CamTypeOK
<1>3. ASSUME NEW r, NEW fmt \in Formats, NEW f, Begin(r, fmt, f) PROVE CamTypeOK'
  BY <1>0, <1>3 DEF Begin, CamTypeOK
<1>4. ASSUME UNCHANGED <<cam, sizer>> PROVE CamTypeOK'
  BY <1>0, <1>4 DEF CamTypeOK
<1>5. ASSUME End PROVE CamTypeOK'
  BY <1>0, <1>5 DEF End, CamTypeOK
<1>6. ASSUME CameraCalls PROVE CamTypeOK'
  BY <1>1, <1>2, <1>3, <1>4, <1>5, <1>6 DEF CameraCalls, ReadFrame, Flip
<1>7. ASSUME CameraSets PROVE CamTypeOK'
  BY <1>0, <1>7 DEF CameraSets, CamTypeOK
<1>8. ASSUME NEW h \in Hosts, HostSets(h) PROVE CamTypeOK'
  BY <1>0, <1>8 DEF HostSets, CamTypeOK
<1> QED
  BY <1>4, <1>6, <1>7, <1>8 DEF Next, vars

\* The configured keys do not change, and so does no look-up.
LEMMA SameFind ==
  ASSUME FbTypeOK, KeyInv, FbTypeOK', KeyInv'
  PROVE  /\ \A key : Find(key)' = Find(key)
         /\ \A i : Exists(i)' <=> Exists(i)
<1>1. FbKeys = [i \in 1..Len(Conf) |-> Conf[i].key]
  BY BufferDomain DEF KeyInv, FbKeys
<1>2. Len(fbs') = Len(Conf) /\ DOMAIN fbs' = 1..Len(Conf) /\ Len(fbs) = Len(Conf)
  BY BufferDomain, LenProperties DEF FbTypeOK
<1>3. FbKeys' = FbKeys
  BY <1>1, <1>2 DEF KeyInv, FbKeys
<1>4. \A i : Exists(i)' <=> Exists(i)
  BY <1>2 DEF Exists
<1>5. ASSUME NEW key PROVE Find(key)' = Find(key)
  <2> DEFINE b == LowerBound(FbKeys, key)
  <2>1. b' = b
    BY <1>3
  <2>2. /\ Find(key) = IF Exists(b) /\ fbs[b].key = key THEN b ELSE 0
        /\ Find(key)' = IF Exists(b') /\ fbs'[b'].key = key THEN b' ELSE 0
    BY <1>2, <1>4, <2>1 DEF Find, Exists
  <2> HIDE DEF b
  <2>3. Exists(b) => fbs'[b].key = fbs[b].key
    BY <1>2, BufferDomain DEF Exists, KeyInv
  <2> QED
    BY <1>2, <2>1, <2>2, <2>3 DEF Exists
<1> QED
  BY <1>4, <1>5

\* A thread that copies or flips leaves the dimensions as they are.
LEMMA SameDims ==
  ASSUME FbInv, NEW t \in Threads, Proceed(t), NEW i \in 1..Len(Conf)
  PROVE  /\ fbs'[i].width = fbs[i].width /\ fbs'[i].height = fbs[i].height
         /\ Len(fbs'[i].data) = Len(fbs[i].data)
<1>1. DOMAIN fbs = 1..Len(Conf) /\ fbs[i] \in Buffers /\ fbs[i].data \in Seq(Pixels("RGB888"))
  BY BufferDomain, BufferType DEF FbInv
<1>2. CASE Lock(t)
  BY <1>1, <1>2 DEF Lock, Buffers
<1>3. CASE CopyPixel(t)
  <2> DEFINE j == op[t].fb  n == op[t].done + 1
             d == [fbs[j].data EXCEPT ![n] = Stored(op[t].fmt, op[t].buf[n])]
  <2>1. \/ fbs' = fbs
        \/ /\ op[t].call = "write" /\ n <= Len(fbs[j].data) /\ n <= op[t].size
           /\ fbs' = [fbs EXCEPT ![j].data = d]
    BY <1>3 DEF CopyPixel
  <2>2. CASE /\ op[t].call = "write" /\ n <= Len(fbs[j].data) /\ n <= op[t].size
             /\ j = i /\ fbs' = [fbs EXCEPT ![j].data = d]
    <3>1. fbs'[i] = [fbs[i] EXCEPT !.data = d]
      BY <1>1, <2>2
    <3>2. /\ op[t].fmt \in Formats /\ op[t].buf \in Seq(Pixels(op[t].fmt))
          /\ op[t].done \in Nat /\ Len(op[t].buf) = op[t].size
      BY <1>3, <2>2, Kinds, CopyType DEF FbInv, CopyInv, CopyPixel
    <3>3. Len(d) = Len(fbs[i].data)
      <4>1. n \in 1..Len(op[t].buf) /\ n \in 1..Len(fbs[i].data)
        BY <1>1, <2>2, <3>2, LenProperties
      <4>2. op[t].buf[n] \in Pixels(op[t].fmt)
        BY <3>2, <4>1, ElementOfSeq
      <4> DEFINE p == Stored(op[t].fmt, op[t].buf[n])  S == Pixels("RGB888")
      <4>3. p \in S /\ fbs[i].data \in Seq(S) /\ d = [fbs[i].data EXCEPT ![n] = p]
        BY <1>1, <2>2, <3>2, <4>2, StoredColour
      <4> HIDE DEF n, d, p, S
      <4> QED
        BY <4>1, <4>3, ExceptSeq
    <3> HIDE DEF d
    <3>4. /\ fbs'[i].data = d /\ fbs'[i].width = fbs[i].width
          /\ fbs'[i].height = fbs[i].height
      BY <1>1, <3>1 DEF Buffers
    <3> QED
      BY <3>3, <3>4
  <2>3. CASE j # i /\ fbs' = [fbs EXCEPT ![j].data = d]
    BY <1>1, <2>3
  <2> QED
    BY <2>1, <2>2, <2>3
<1>4. CASE Unlock(t)
  BY <1>1, <1>4 DEF Unlock, Buffers
<1>5. CASE StoreFlip(t)
  BY <1>1, <1>5 DEF StoreFlip, Buffers
<1> QED
  BY <1>2, <1>3, <1>4, <1>5 DEF Proceed

\* What a setter does to the buffer and to its own call.
LEMMA SetDims ==
  ASSUME FbInv, NEW t \in Threads, SetDimension(t) \/ StoreFreq(t)
  PROVE  LET i == op[t].fb IN
         /\ op[t].at \in Phases /\ i \in 1..Len(Conf)
         /\ \A j \in 1..Len(Conf) : j # i => fbs'[j] = fbs[j]
         /\ StoreWidth(t) => fbs'[i].width = op[t].w
         /\ ~StoreWidth(t) => fbs'[i].width = fbs[i].width
         /\ StoreHeight(t) => fbs'[i].height = op[t].h
         /\ ResizeHeight(t) \/ StoreFreq(t) => fbs'[i].height = fbs[i].height
         /\ ResizeHeight(t) => Len(fbs'[i].data) = op[t].h * fbs[i].width
         /\ StoreFreq(t) => Len(fbs'[i].data) = Len(fbs[i].data)
<1> DEFINE i == op[t].fb
<1>1. op[t].at \in Phases
  BY DEF SetDimension, StoreWidth, ResizeWidth, StoreHeight, ResizeHeight, StoreFreq, Setting
<1>2. i \in 1..Len(Conf) /\ op[t].h \in Nat /\ op[t].w \in Nat
  BY <1>1, SetterType DEF FbInv
<1>3. DOMAIN fbs = 1..Len(Conf) /\ fbs[i] \in Buffers /\ fbs[i].data \in Seq(Pixels("RGB888"))
  BY <1>2, BufferDomain, BufferType DEF FbInv
<1>4. CASE StoreWidth(t)
  <2>1. fbs' = [fbs EXCEPT ![i].width = op[t].w] /\ ~StoreHeight(t) /\ ~ResizeHeight(t) /\ ~StoreFreq(t)
    BY <1>4 DEF StoreWidth, StoreHeight, ResizeHeight, StoreFreq
  <2>2. fbs'[i].width = op[t].w /\ \A j \in 1..Len(Conf) : j # i => fbs'[j] = fbs[j]
    BY <1>2, <1>3, <2>1 DEF Buffers
  <2> QED
    BY <1>1, <1>2, <1>4, <2>1, <2>2
<1>5. CASE StoreHeight(t)
  <2>1. fbs' = [fbs EXCEPT ![i].height = op[t].h] /\ ~StoreWidth(t) /\ ~ResizeHeight(t) /\ ~StoreFreq(t)
    BY <1>5 DEF StoreWidth, StoreHeight, ResizeHeight, StoreFreq
  <2>2. /\ fbs'[i].height = op[t].h /\ fbs'[i].width = fbs[i].width
        /\ \A j \in 1..Len(Conf) : j # i => fbs'[j] = fbs[j]
    BY <1>2, <1>3, <2>1 DEF Buffers
  <2> QED
    BY <1>1, <1>2, <1>5, <2>1, <2>2
<1>6. CASE StoreFreq(t)
  <2>1. fbs' = [fbs EXCEPT ![i].freq = op[t].f] /\ ~StoreWidth(t) /\ ~StoreHeight(t) /\ ~ResizeHeight(t)
    BY <1>6 DEF StoreWidth, StoreHeight, ResizeHeight, StoreFreq
  <2>2. /\ fbs'[i].height = fbs[i].height /\ fbs'[i].width = fbs[i].width
        /\ fbs'[i].data = fbs[i].data
        /\ \A j \in 1..Len(Conf) : j # i => fbs'[j] = fbs[j]
    BY <1>2, <1>3, <2>1 DEF Buffers
  <2> QED
    BY <1>1, <1>2, <1>6, <2>1, <2>2
<1>7. CASE ResizeWidth(t) \/ ResizeHeight(t)
  <2>1. /\ ~StoreWidth(t) /\ ~StoreHeight(t) /\ ~StoreFreq(t)
    BY <1>7 DEF StoreWidth, ResizeWidth, StoreHeight, ResizeHeight, StoreFreq
  <2>2. PICK n \in Nat : /\ fbs' = [fbs EXCEPT ![i].data = Resized(fbs[i].data, n, Black)]
                         /\ ResizeHeight(t) => n = op[t].h * fbs[i].width
    <3>1. ResizeWidth(t) => ~ResizeHeight(t)
      BY DEF ResizeWidth, ResizeHeight
    <3> QED
      BY <1>3, <1>7, <3>1, Resizes DEF Resize
  <2> DEFINE d == Resized(fbs[i].data, n, Black)  S == Pixels("RGB888")
  <2>3. Len(d) = n
    <3>1. Black \in S /\ fbs[i].data \in Seq(S)
      BY <1>3 DEF Black, Pixels, Byte
    <3> HIDE DEF S, i
    <3> QED
      BY <3>1, ResizedType
  <2> HIDE DEF d
  <2>4. /\ fbs'[i].height = fbs[i].height /\ fbs'[i].width = fbs[i].width /\ fbs'[i].data = d
        /\ \A j \in 1..Len(Conf) : j # i => fbs'[j] = fbs[j]
    BY <1>2, <1>3, <2>2 DEF Buffers, d
  <2> QED
    BY <1>1, <1>2, <2>1, <2>2, <2>3, <2>4
<1> QED
  BY <1>4, <1>5, <1>6, <1>7 DEF SetDimension

\* The calls of the other threads are not disturbed by a setter, but for the mark of
\* those that copy.
LEMMA SetOps ==
  ASSUME FbInv, NEW t \in Threads, SetDimension(t) \/ StoreFreq(t)
  PROVE  /\ StoreWidth(t) => op'[t] = [op[t] EXCEPT !.at = "width resize"]
         /\ ResizeWidth(t) => op'[t] = After(t, "height")
         /\ StoreHeight(t) => op'[t] = [op[t] EXCEPT !.at = "height resize"]
         /\ ResizeHeight(t) => op'[t] = After(t, "freq")
         /\ StoreFreq(t) => op'[t] = Idle
         /\ \A u \in Threads : u # t =>
               \/ op'[u] = op[u]
               \/ op'[u].at \in {"wait", "copy"} /\ op[u].at \in {"wait", "copy"}
<1>1. DOMAIN op = Threads
  BY DEF FbInv, OpTypeOK
<1>2. CASE StoreWidth(t) \/ StoreHeight(t) \/ StoreFreq(t)
  <2>1. ~ResizeWidth(t) /\ ~ResizeHeight(t)
    BY <1>2 DEF StoreWidth, StoreHeight, StoreFreq, ResizeWidth, ResizeHeight
  <2> QED
    BY <1>1, <1>2, <2>1 DEF StoreWidth, StoreHeight, StoreFreq
<1>3. CASE ResizeWidth(t) \/ ResizeHeight(t)
  <2>1. ~StoreWidth(t) /\ ~StoreHeight(t) /\ ~StoreFreq(t)
    BY <1>3 DEF StoreWidth, StoreHeight, StoreFreq, ResizeWidth, ResizeHeight
  <2>2. /\ op[t].at \in Phases
        /\ ResizeWidth(t) => \E n \in Nat : Resize(t, n, "height") /\ "height" \in Phases
        /\ ResizeHeight(t) => \E n \in Nat : Resize(t, n, "freq") /\ "freq" \in Phases
    BY <1>3, Resizes
  <2>3. ASSUME NEW n \in Nat, NEW to \in Phases, Resize(t, n, to)
        PROVE  /\ op'[t] = After(t, to)
               /\ \A u \in Threads : u # t =>
                     \/ op'[u] = op[u]
                     \/ op'[u].at \in {"wait", "copy"} /\ op[u].at \in {"wait", "copy"}
    BY <2>2, <2>3, Marked
  <2>4. ResizeWidth(t) => ~ResizeHeight(t)
    BY DEF ResizeWidth, ResizeHeight
  <2> QED
    BY <1>3, <2>1, <2>2, <2>3, <2>4
<1> QED
  BY <1>2, <1>3 DEF SetDimension

\* A thread that goes on with its own call is not setting a buffer up.
LEMMA ProceedOps ==
  ASSUME FbInv, NEW t \in Threads, Proceed(t)
  PROVE  /\ op[t].at \notin Phases /\ op'[t].at \notin Phases
         /\ \A u \in Threads : u # t => op'[u] = op[u]
<1>1. DOMAIN op = Threads
  BY DEF FbInv, OpTypeOK
<1>2. op[t].at \notin Phases
  BY DEF Proceed, Lock, CopyPixel, Unlock, StoreFlip, Phases
<1>3. CASE Lock(t)
  <2>1. op[t] \in CopyOps
    BY <1>3, Kinds DEF FbInv, Lock
  <2>2. op' = [op EXCEPT ![t] = [op[t] EXCEPT !.at = "copy"]]
    BY <1>3 DEF Lock
  <2>3. op'[t].at = "copy"
    BY <1>1, <2>1, <2>2 DEF CopyOps, Copies
  <2> QED
    BY <1>1, <1>2, <2>2, <2>3 DEF Phases
<1>4. CASE CopyPixel(t)
  <2>1. op[t] \in CopyOps /\ op[t].at = "copy"
    BY <1>4, Kinds DEF FbInv, CopyPixel
  <2>2. PICK d, b : \/ op' = [op EXCEPT ![t] = [op[t] EXCEPT !.done = d]]
                    \/ op' = [op EXCEPT ![t] = [op[t] EXCEPT !.done = d, !.buf = b]]
    <3>1. CASE op[t].call = "write"
      BY <1>4, <3>1 DEF CopyPixel
    <3>2. CASE op[t].call = "read"
      <4>1. PICK p : op' = [op EXCEPT ![t].done = op[t].done + 1,
                                      ![t].buf = Append(@, Fetched(op[t].fmt, p))]
        BY <1>4, <3>2 DEF CopyPixel
      <4>2. op' = [op EXCEPT ![t] = [op[t] EXCEPT !.done = op[t].done + 1,
                                                  !.buf = Append(op[t].buf, Fetched(op[t].fmt, p))]]
        BY <4>1
      <4> QED
        BY <4>2
    <3> QED
      BY <1>4, <3>1, <3>2 DEF CopyPixel
  <2> DEFINE r == [op[t] EXCEPT !.done = d]  q == [op[t] EXCEPT !.done = d, !.buf = b]
  <2>3. r.at = "copy" /\ q.at = "copy"
    BY <2>1 DEF CopyOps, Copies
  <2> HIDE DEF r, q
  <2> QED
    BY <1>1, <1>2, <2>2, <2>3 DEF Phases, r, q
<1>5. CASE Unlock(t) \/ StoreFlip(t)
  <2>1. op' = [op EXCEPT ![t] = Idle]
    BY <1>5 DEF Unlock, StoreFlip
  <2>2. Idle.at \notin Phases
    BY DEF Idle, Phases
  <2> QED
    BY <1>1, <1>2, <2>1, <2>2
<1> QED
  BY <1>3, <1>4, <1>5 DEF Proceed

\* The relation of the camera to its buffers is kept while neither the camera, nor
\* its call, nor the dimensions of a buffer that only the camera sized change ...
LEMMA CamKept ==
  ASSUME FbInv, FbInv', CamInv, cam'.key = cam.key, cam'.begun = cam.begun,
         op'[Sketch] = op[Sketch] \/ (~SettingUp /\ op'[Sketch].at \notin Phases),
         \A i \in 1..Len(Conf) : sizer'[i] = "camera" =>
            /\ sizer[i] = "camera"
            /\ fbs'[i].width = fbs[i].width /\ fbs'[i].height = fbs[i].height
            /\ Len(fbs'[i].data) = Len(fbs[i].data)
  PROVE  CamInv'
<1>1. DOMAIN fbs = 1..Len(Conf) /\ DOMAIN fbs' = 1..Len(Conf)
  BY BufferDomain, LenProperties DEF FbInv, FbTypeOK
<1>2. Find(cam.key)' = Find(cam.key)
  BY SameFind DEF FbInv
<1>3. CASE op'[Sketch] = op[Sketch]
  <2> DEFINE k == Find(cam.key)
  <2>1. k' = k /\ (SettingUp' <=> SettingUp)
    BY <1>2, <1>3 DEF SettingUp
  <2>2. SettingUp' => /\ op'[Sketch].fb = k'
                      /\ cam'.begun <=> op'[Sketch].call = "end"
                      /\ op'[Sketch].call = "end" => op'[Sketch].w = 0 /\ op'[Sketch].h = 0
    BY <1>3, <2>1 DEF CamInv
  <2>3. ASSUME NEW i \in 1..Len(Conf), sizer'[i] = "camera"
        PROVE  IF SettingUp' /\ op'[Sketch].fb = i
               THEN /\ op'[Sketch].at # "width" => fbs'[i].width = op'[Sketch].w
                    /\ op'[Sketch].at \in {"height resize", "freq"} =>
                          fbs'[i].height = op'[Sketch].h
                    /\ op'[Sketch].at = "freq" =>
                          Len(fbs'[i].data) = fbs'[i].width * fbs'[i].height
               ELSE /\ Len(fbs'[i].data) = fbs'[i].width * fbs'[i].height
                    /\ ~(cam'.begun /\ i = k') => fbs'[i].width = 0 /\ fbs'[i].height = 0
    <3>1. /\ sizer[i] = "camera" /\ i \in DOMAIN fbs
          /\ fbs'[i].width = fbs[i].width /\ fbs'[i].height = fbs[i].height
          /\ Len(fbs'[i].data) = Len(fbs[i].data)
      BY <1>1, <2>3
    <3>2. IF SettingUp /\ op[Sketch].fb = i
          THEN /\ op[Sketch].at # "width" => fbs[i].width = op[Sketch].w
               /\ op[Sketch].at \in {"height resize", "freq"} => fbs[i].height = op[Sketch].h
               /\ op[Sketch].at = "freq" => Len(fbs[i].data) = fbs[i].width * fbs[i].height
          ELSE /\ Len(fbs[i].data) = fbs[i].width * fbs[i].height
               /\ ~(cam.begun /\ i = k) => fbs[i].width = 0 /\ fbs[i].height = 0
      BY <3>1 DEF CamInv
    <3> HIDE DEF k
    <3>3. CASE SettingUp /\ op[Sketch].fb = i
      BY <1>3, <2>1, <3>1, <3>2, <3>3
    <3>4. CASE ~(SettingUp /\ op[Sketch].fb = i)
      BY <1>3, <2>1, <3>1, <3>2, <3>4
    <3> QED
      BY <3>3, <3>4
  <2> QED
    BY <1>1, <2>2, <2>3 DEF CamInv
<1>4. CASE ~SettingUp /\ op'[Sketch].at \notin Phases
  BY <1>1, <1>2, <1>4 DEF CamInv, SettingUp
<1> QED
  BY <1>3, <1>4

\* ... as in the steps of the host and of the threads that copy ...
LEMMA CamOthersStep ==
  ASSUME FbInv, FbInv', CamTypeOK, CamInv, UNCHANGED cam,
         \/ \E h \in Hosts : HostSets(h)
         \/ /\ \/ \E h \in Hosts : HostCalls(h)
               \/ \E t \in Threads : Proceed(t)
               \/ Freeze \/ Thaw \/ Kill \/ UNCHANGED fbVars
            /\ UNCHANGED sizer
  PROVE  CamInv'
<1>0. /\ Sketch \in Threads /\ Sketch \notin Hosts /\ Hosts \subseteq Threads
      /\ DOMAIN op = Threads /\ DOMAIN fbs = 1..Len(Conf) /\ DOMAIN sizer = 1..Len(Conf)
  BY FrameBufferAssumption, BufferDomain DEF Threads, FbInv, OpTypeOK, CamTypeOK
<1>1. ASSUME NEW h \in Hosts, HostSets(h) PROVE CamInv'
  <2>1. SetDimension(h) \/ StoreFreq(h)
    BY <1>1 DEF HostSets
  <2>2. op'[Sketch] = op[Sketch] \/ (~SettingUp /\ op'[Sketch].at \notin Phases)
    BY <1>0, <2>1, SetOps DEF SettingUp, Phases
  <2>3. ASSUME NEW i \in 1..Len(Conf), sizer'[i] = "camera"
        PROVE  /\ sizer[i] = "camera"
               /\ fbs'[i].width = fbs[i].width /\ fbs'[i].height = fbs[i].height
               /\ Len(fbs'[i].data) = Len(fbs[i].data)
    <3>1. CASE SetDimension(h) /\ sizer' = [sizer EXCEPT ![op[h].fb] = "host"]
      <4>1. i # op[h].fb /\ sizer[i] = "camera"
        BY <1>0, <2>3, <3>1
      <4> QED
        BY <1>0, <2>1, <4>1, SetDims
    <3>2. CASE StoreFreq(h) /\ UNCHANGED sizer
      <4>1. ~StoreWidth(h)
        BY <3>2 DEF StoreFreq, StoreWidth
      <4>2. h \in Threads
        BY <1>0
      <4>3. i # op[h].fb => fbs'[i] = fbs[i]
        BY <3>2, <4>2, SetDims
      <4>4. i = op[h].fb => /\ fbs'[i].width = fbs[i].width /\ fbs'[i].height = fbs[i].height
                            /\ Len(fbs'[i].data) = Len(fbs[i].data)
        BY <3>2, <4>1, <4>2, SetDims
      <4> QED
        BY <2>3, <3>2, <4>3, <4>4
    <3> QED
      BY <1>1, <3>1, <3>2 DEF HostSets
  <2> QED
    BY <2>2, <2>3, CamKept
<1>2. ASSUME UNCHANGED sizer, UNCHANGED fbs, op'[Sketch] = op[Sketch] PROVE CamInv'
  BY <1>2, CamKept
<1>3. ASSUME NEW h \in Hosts, HostCalls(h), UNCHANGED sizer PROVE CamInv'
  <2>1. UNCHANGED fbs /\ op'[Sketch] = op[Sketch]
    BY <1>0, <1>3 DEF HostCalls, CallWrite, CallRead, CallFlip, CallSet
  <2> QED
    BY <1>2, <1>3, <2>1
<1>4. ASSUME NEW t \in Threads, Proceed(t), UNCHANGED sizer PROVE CamInv'
  <2>1. op'[Sketch] = op[Sketch] \/ (~SettingUp /\ op'[Sketch].at \notin Phases)
    BY <1>0, <1>4, ProceedOps DEF SettingUp
  <2>2. \A i \in 1..Len(Conf) :
           /\ fbs'[i].width = fbs[i].width /\ fbs'[i].height = fbs[i].height
           /\ Len(fbs'[i].data) = Len(fbs[i].data)
    BY <1>4, SameDims
  <2> QED
    BY <1>4, <2>1, <2>2, CamKept
<1>5. ASSUME Freeze \/ Thaw \/ Kill \/ UNCHANGED fbVars, UNCHANGED sizer PROVE CamInv'
  BY <1>2, <1>5 DEF Freeze, Thaw, Kill, fbVars
<1> QED
  BY <1>1, <1>3, <1>4, <1>5

\* ... while the calls of the camera start from a buffer that is what they left ...
LEMMA CamCallStep ==
  ASSUME FbInv, FbInv', CamTypeOK, CamTypeOK', CamInv, CameraCalls
  PROVE  CamInv'
<1>1. /\ DOMAIN fbs = 1..Len(Conf) /\ DOMAIN fbs' = 1..Len(Conf)
      /\ Sketch \in Threads /\ DOMAIN op = Threads /\ DOMAIN sizer = 1..Len(Conf)
  <2>1. DOMAIN fbs = 1..Len(Conf) /\ DOMAIN fbs' = 1..Len(Conf)
    BY BufferDomain, LenProperties DEF FbInv, FbTypeOK
  <2> QED
    BY <2>1 DEF FbInv, Threads, OpTypeOK, CamTypeOK
<1>2. /\ \A key : Find(key)' = Find(key)
      /\ \A i : Exists(i) <=> i \in 1..Len(Conf)
  BY SameFind, FindType DEF FbInv
<1>3. cam.begun \in BOOLEAN /\ Idle.at \notin Phases
  BY DEF CamTypeOK, Idle, Phases
<1>4. ASSUME ~SettingUp, NEW i \in 1..Len(Conf), sizer[i] = "camera"
      PROVE  /\ Len(fbs[i].data) = fbs[i].width * fbs[i].height
             /\ ~(cam.begun /\ i = Find(cam.key)) => fbs[i].width = 0 /\ fbs[i].height = 0
  BY <1>1, <1>4 DEF CamInv
<1>5. ASSUME NEW k \in Keys, SetPins(k) PROVE CamInv'
  <2>1. /\ ~SettingUp /\ ~SettingUp' /\ UNCHANGED fbs
        /\ cam'.begun = cam.begun /\ cam'.key = k
    BY <1>3, <1>5 DEF SetPins, Free, SettingUp, fbVars, CamTypeOK
  <2>2. ASSUME NEW i \in 1..Len(Conf), sizer'[i] = "camera"
        PROVE  /\ sizer[i] = "camera"
               /\ cam.begun /\ i = Find(cam.key) => k = cam.key
    BY <1>1, <1>2, <1>5, <2>2 DEF SetPins
  <2>3. Find(cam.key)' = Find(k)
    BY <1>2, <2>1
  <2>4. ASSUME NEW i \in 1..Len(Conf), sizer'[i] = "camera"
        PROVE  /\ Len(fbs'[i].data) = fbs'[i].width * fbs'[i].height
               /\ ~(cam'.begun /\ i = Find(k)) => fbs'[i].width = 0 /\ fbs'[i].height = 0
    BY <1>4, <2>1, <2>2, <2>4
  <2> QED
    BY <1>1, <2>1, <2>3, <2>4 DEF CamInv
<1>6. ASSUME NEW r, NEW fmt, BeginFails(r, fmt) PROVE CamInv'
  <2>1. /\ cam'.begun = cam.begun /\ cam'.key = cam.key /\ UNCHANGED <<fbVars, sizer>>
    BY <1>6 DEF BeginFails, CamTypeOK
  <2> QED
    BY <2>1, CamKept DEF fbVars
<1>7. ASSUME NEW call \in {"begin", "end"}, NEW w, NEW h, NEW f,
             CallSet(Sketch, call, Find(cam.key), "width", w, h, f),
             cam'.key = cam.key, cam'.begun = cam.begun, cam.begun <=> call = "end",
             call = "end" => w = 0 /\ h = 0,
             sizer' = [sizer EXCEPT ![Find(cam.key)] = "camera"]
      PROVE  CamInv'
  <2> DEFINE i == Find(cam.key)
  <2>1. /\ op'[Sketch].fb = i /\ op'[Sketch].call = call /\ op'[Sketch].at = "width"
        /\ op'[Sketch].w = w /\ op'[Sketch].h = h /\ UNCHANGED fbs
        /\ ~SettingUp /\ i \in 1..Len(Conf)
    BY <1>1, <1>2, <1>3, <1>7 DEF CallSet, Free, SettingUp
  <2>2. SettingUp' /\ Find(cam.key)' = i
    BY <1>2, <1>7, <2>1 DEF SettingUp, Phases
  <2>3. \A j \in 1..Len(Conf) : j # i /\ sizer'[j] = "camera" => sizer[j] = "camera"
    BY <1>1, <1>7, <2>1
  <2>4. \A j \in 1..Len(Conf) : j # i /\ sizer'[j] = "camera" =>
           /\ Len(fbs'[j].data) = fbs'[j].width * fbs'[j].height
           /\ fbs'[j].width = 0 /\ fbs'[j].height = 0
    BY <1>4, <2>1, <2>3
  <2> HIDE DEF i
  <2> QED
    BY <1>1, <1>7, <2>1, <2>2, <2>4 DEF CamInv
<1>8. ASSUME NEW r, NEW fmt, NEW f, Begin(r, fmt, f) PROVE CamInv'
  <2>1. cam'.key = cam.key /\ cam'.begun = cam.begun /\ ~cam.begun
    BY <1>8 DEF Begin, CamTypeOK
  <2> QED
    BY <1>7, <1>8, <2>1 DEF Begin
<1>9. ASSUME End PROVE CamInv'
  <2>1. CASE Exists(Find(cam.key))
    BY <1>7, <1>9, <2>1 DEF End
  <2>2. CASE ~Exists(Find(cam.key))
    <3>1. /\ ~SettingUp /\ ~SettingUp' /\ UNCHANGED fbs /\ UNCHANGED sizer
          /\ cam'.begun = FALSE
      BY <1>3, <1>9, <2>2 DEF End, Free, SettingUp, fbVars, CamTypeOK
    <3>2. Find(cam.key) \notin 1..Len(Conf)
      BY <1>2, <2>2
    <3> QED
      BY <1>1, <1>4, <3>1, <3>2 DEF CamInv
  <2> QED
    BY <2>1, <2>2
<1>10. ASSUME ReadFrame \/ \E flag \in Flags, val \in BOOLEAN : Flip(flag, val)
       PROVE  CamInv'
  <2>1. /\ UNCHANGED <<cam, sizer, fbs>> /\ op[Sketch] = Idle
        /\ op'[Sketch].at \in {"wait", "flip"}
    BY <1>1, <1>10 DEF ReadFrame, Flip, CallRead, CallFlip, Free
  <2>2. ~SettingUp /\ op'[Sketch].at \notin Phases
    BY <1>3, <2>1 DEF SettingUp, Phases
  <2> QED
    BY <2>1, <2>2, CamKept
<1> QED
  BY <1>5, <1>6, <1>8, <1>9, <1>10 DEF CameraCalls

\* ... and its setters go through it dimension by dimension.
LEMMA CamSetsStep ==
  ASSUME FbInv, FbInv', CamTypeOK, CamInv, CameraSets
  PROVE  CamInv'
<1> DEFINE f == op[Sketch]  i == f.fb  k == Find(cam.key)
<1>1. /\ DOMAIN fbs = 1..Len(Conf) /\ DOMAIN fbs' = 1..Len(Conf)
      /\ Sketch \in Threads /\ UNCHANGED sizer
  BY BufferDomain, LenProperties DEF FbInv, FbTypeOK, Threads, CameraSets
<1>2. \/ SetDimension(Sketch) /\ cam' = cam
      \/ StoreFreq(Sketch) /\ cam' = [cam EXCEPT !.begun = (f.call = "begin")]
  BY DEF CameraSets
<1>3. /\ f.at \in Phases /\ i \in 1..Len(Conf)
      /\ \A j \in 1..Len(Conf) : j # i => fbs'[j] = fbs[j]
  BY <1>1, <1>2, SetDims
<1>4. /\ f \in Setters /\ f.call \in {"begin", "end"}
      /\ f.w \in Nat /\ f.h \in Nat /\ cam \in [key : Keys, format : Formats, begun : BOOLEAN,
                                                missing : BOOLEAN]
  BY <1>1, <1>3, SetterType DEF FbInv, CamTypeOK
<1>5. /\ SettingUp /\ i = k /\ (cam.begun <=> f.call = "end")
      /\ f.call = "end" => f.w = 0 /\ f.h = 0
  BY <1>3 DEF CamInv, SettingUp
<1>6. cam'.key = cam.key /\ Find(cam.key)' = k
  BY <1>2, <1>4, SameFind DEF FbInv
<1>7. \A j \in 1..Len(Conf) : j # i /\ sizer'[j] = "camera" =>
         /\ Len(fbs'[j].data) = fbs'[j].width * fbs'[j].height
         /\ fbs'[j].width = 0 /\ fbs'[j].height = 0
  BY <1>1, <1>3, <1>5 DEF CamInv
<1>8. sizer'[i] = "camera" =>
         /\ f.at # "width" => fbs[i].width = f.w
         /\ f.at \in {"height resize", "freq"} => fbs[i].height = f.h
         /\ f.at = "freq" => Len(fbs[i].data) = fbs[i].width * fbs[i].height
  BY <1>1, <1>3, <1>5 DEF CamInv
<1> HIDE DEF k
<1>9. ASSUME NEW at \in Phases, op'[Sketch] = [f EXCEPT !.at = at], cam' = cam,
             sizer'[i] = "camera" =>
                /\ at # "width" => fbs'[i].width = f.w
                /\ at \in {"height resize", "freq"} => fbs'[i].height = f.h
                /\ at = "freq" => Len(fbs'[i].data) = fbs'[i].width * fbs'[i].height
      PROVE  CamInv'
  <2>1. /\ op'[Sketch].at = at /\ op'[Sketch].fb = i /\ op'[Sketch].call = f.call
        /\ op'[Sketch].w = f.w /\ op'[Sketch].h = f.h
    BY <1>4, <1>9 DEF Setters
  <2>2. SettingUp'
    BY <2>1 DEF SettingUp
  <2>3. /\ op'[Sketch].fb = Find(cam.key)'
        /\ cam'.begun <=> op'[Sketch].call = "end"
        /\ op'[Sketch].call = "end" => op'[Sketch].w = 0 /\ op'[Sketch].h = 0
    BY <1>5, <1>6, <1>9, <2>1
  <2>4. ASSUME NEW j \in 1..Len(Conf), sizer'[j] = "camera"
        PROVE  IF op'[Sketch].fb = j
               THEN /\ op'[Sketch].at # "width" => fbs'[j].width = op'[Sketch].w
                    /\ op'[Sketch].at \in {"height resize", "freq"} =>
                          fbs'[j].height = op'[Sketch].h
                    /\ op'[Sketch].at = "freq" =>
                          Len(fbs'[j].data) = fbs'[j].width * fbs'[j].height
               ELSE /\ Len(fbs'[j].data) = fbs'[j].width * fbs'[j].height
                    /\ fbs'[j].width = 0 /\ fbs'[j].height = 0
    <3> HIDE DEF f, i
    <3>1. CASE j = i
      BY <1>9, <2>1, <2>4, <3>1
    <3>2. CASE j # i
      BY <1>7, <2>1, <2>4, <3>2
    <3> QED
      BY <3>1, <3>2
  <2> QED
    BY <1>1, <2>2, <2>3, <2>4 DEF CamInv
<1>10. CASE StoreWidth(Sketch)
  <2>1. /\ op'[Sketch] = [f EXCEPT !.at = "width resize"] /\ fbs'[i].width = f.w
        /\ "width resize" \in Phases /\ cam' = cam
    BY <1>1, <1>2, <1>10, SetOps, SetDims DEF Phases, StoreWidth, StoreFreq
  <2> QED
    BY <1>9, <2>1
<1>11. CASE ResizeWidth(Sketch)
  <2>1. f.at = "width resize" /\ ~StoreWidth(Sketch) /\ ~StoreFreq(Sketch)
    BY <1>11 DEF ResizeWidth, StoreWidth, StoreFreq
  <2>2. /\ op'[Sketch] = [f EXCEPT !.at = "height"] /\ fbs'[i].width = fbs[i].width
        /\ "height" \in Phases /\ cam' = cam
    BY <1>1, <1>2, <1>4, <1>11, <2>1, SetOps, SetDims DEF Phases, After
  <2>3. sizer'[i] = "camera" => fbs'[i].width = f.w
    BY <1>8, <2>1, <2>2
  <2> QED
    BY <1>9, <2>2, <2>3
<1>12. CASE StoreHeight(Sketch)
  <2>1. f.at = "height" /\ ~StoreWidth(Sketch) /\ ~StoreFreq(Sketch)
    BY <1>12 DEF StoreHeight, StoreWidth, StoreFreq
  <2>2. /\ op'[Sketch] = [f EXCEPT !.at = "height resize"] /\ fbs'[i].width = fbs[i].width
        /\ fbs'[i].height = f.h /\ "height resize" \in Phases /\ cam' = cam
    BY <1>1, <1>2, <1>12, <2>1, SetOps, SetDims DEF Phases
  <2>3. sizer'[i] = "camera" => fbs'[i].width = f.w
    BY <1>8, <2>1, <2>2
  <2> QED
    BY <1>9, <2>2, <2>3
<1>13. CASE ResizeHeight(Sketch)
  <2>1. f.at = "height resize" /\ ~StoreWidth(Sketch) /\ ~StoreFreq(Sketch)
    BY <1>13 DEF ResizeHeight, StoreWidth, StoreFreq
  <2>2. /\ op'[Sketch] = [f EXCEPT !.at = "freq"] /\ fbs'[i].width = fbs[i].width
        /\ fbs'[i].height = fbs[i].height /\ Len(fbs'[i].data) = f.h * fbs[i].width
        /\ "freq" \in Phases /\ cam' = cam
    BY <1>1, <1>2, <1>4, <1>13, <2>1, SetOps, SetDims DEF Phases, After
  <2>3. sizer'[i] = "camera" =>
           /\ fbs'[i].width = f.w /\ fbs'[i].height = f.h
           /\ Len(fbs'[i].data) = f.h * f.w
    BY <1>8, <2>1, <2>2
  <2>4. f.h * f.w = f.w * f.h
    BY <1>4
  <2>5. sizer'[i] = "camera" => Len(fbs'[i].data) = fbs'[i].width * fbs'[i].height
    <3> HIDE DEF i, f
    <3> QED
      BY <2>3, <2>4
  <2> QED
    BY <1>9, <2>2, <2>3, <2>5
<1>14. CASE StoreFreq(Sketch)
  <2>1. f.at = "freq" /\ ~StoreWidth(Sketch) /\ ~SetDimension(Sketch)
    BY <1>14 DEF StoreFreq, StoreWidth, ResizeWidth, StoreHeight, ResizeHeight, SetDimension
  <2>2. /\ op'[Sketch] = Idle /\ fbs'[i].width = fbs[i].width
        /\ fbs'[i].height = fbs[i].height /\ Len(fbs'[i].data) = Len(fbs[i].data)
    BY <1>1, <1>14, <2>1, SetOps, SetDims
  <2>3. ~SettingUp' /\ (cam'.begun <=> f.call = "begin")
    <3>1. Idle.at \notin Phases
      BY DEF Idle, Phases
    <3> QED
      BY <1>2, <1>4, <2>1, <2>2, <3>1 DEF SettingUp
  <2>4. sizer'[i] = "camera" =>
           /\ Len(fbs'[i].data) = fbs'[i].width * fbs'[i].height
           /\ fbs'[i].width = f.w /\ fbs'[i].height = f.h
    BY <1>8, <2>1, <2>2
  <2>5. ~(cam'.begun /\ i = k) => f.w = 0 /\ f.h = 0
    BY <1>4, <1>5, <2>3
  <2> HIDE DEF f, i
  <2> QED
    BY <1>1, <1>6, <1>7, <2>3, <2>4, <2>5 DEF CamInv
<1> QED
  BY <1>2, <1>10, <1>11, <1>12, <1>13, <1>14 DEF SetDimension

\* A camera that was not begun has not sized any buffer.
LEMMA CamInvInit == Init => CamInv
<1> SUFFICES ASSUME Init PROVE CamInv
  OBVIOUS
<1>1. /\ ~SettingUp
      /\ \A i \in DOMAIN fbs : /\ fbs[i].width = 0 /\ fbs[i].height = 0
                               /\ fbs[i].data = <<>>
  BY DEF Init, FbInit, BufferOf, Threads, SettingUp, Idle, Phases
<1> QED
  BY <1>1 DEF CamInv

-----------------------------------------------------------------------------
(* What the camera's sketch and the host may rely on.                      *)

\* In a board whose buffers are in order, the look-up finds what is configured.
LEMMA FindIsRight ==
  ASSUME Ordered, FbTypeOK, KeyInv, NEW key \in Nat, ~Exists(Find(key))
  PROVE  \A i \in DOMAIN Conf : Conf[i].key # key
<1> DEFINE keys == FbKeys  b == LowerBound(keys, key)
<1>1. /\ DOMAIN Conf = 1..Len(Conf) /\ Len(Conf) \in Nat
      /\ \A i \in 1..Len(Conf) : Conf[i].key \in Nat
  <2>1. Conf \in Seq([key : Nat, direction : {"in", "out"}])
    BY FrameBufferAssumption
  <2>2. \A i \in 1..Len(Conf) : Conf[i] \in [key : Nat, direction : {"in", "out"}]
    BY <2>1, ElementOfSeq
  <2> QED
    BY <2>1, <2>2, LenProperties
<1>2. DOMAIN fbs = 1..Len(Conf) /\ Len(fbs) = Len(Conf)
  BY BufferDomain
<1>3. /\ Len(keys) = Len(Conf) /\ \A i \in 1..Len(Conf) : keys[i] = Conf[i].key
  <2>1. keys = [i \in 1..Len(Conf) |-> Conf[i].key]
    BY <1>2 DEF FbKeys, KeyInv
  <2>2. keys \in [1..Len(Conf) -> Nat]
    BY <1>1, <2>1
  <2>3. keys \in Seq(Nat)
    BY <1>1, <2>2, SeqDef
  <2> HIDE DEF keys
  <2> QED
    BY <2>1, <2>2, <2>3, LenProperties, <1>1
<1>4. \A i \in 1..Len(keys) : keys[i] \in Nat
  BY <1>1, <1>3
<1>5. \A i, j \in 1..Len(keys) : i < j => keys[i] <= keys[j]
  BY <1>1, <1>3 DEF Ordered
<1>6. Find(key) = IF Exists(b) /\ fbs[b].key = key THEN b ELSE 0
  BY DEF Find
<1> HIDE DEF keys
<1>7. /\ b \in 1..(Len(Conf) + 1)
      /\ \A i \in 1..Len(Conf) : keys[i] < key <=> i < b
  BY <1>1, <1>3, <1>4, <1>5, LowerBoundIsRight
<1> HIDE DEF b
<1> SUFFICES ASSUME NEW i \in 1..Len(Conf), Conf[i].key = key PROVE FALSE
  BY <1>1
<1>8. ~(i < b) /\ b \in 1..Len(Conf)
  BY <1>1, <1>3, <1>7
<1>9. keys[b] \in Nat /\ ~(keys[b] < key) /\ keys[b] <= keys[i] /\ keys[i] = key
  BY <1>1, <1>3, <1>5, <1>7, <1>8
<1>10. fbs[b].key = key /\ Exists(b)
  BY <1>1, <1>2, <1>3, <1>8, <1>9 DEF KeyInv, Exists
<1> QED
  BY <1>6, <1>10

CamIndInv == FbInv /\ CamTypeOK /\ CamInv

\* The inductive invariant of the camera and the buffers.
LEMMA Invariance == Spec => []CamIndInv
<1>1. Init => CamIndInv
  BY FbInitInv, CamInvInit, CameraAssumption DEF CamIndInv, CamTypeOK, Init, Formats
<1>2. CamIndInv /\ [Next]_vars => CamIndInv'
  <2> SUFFICES ASSUME FbInv, CamTypeOK, CamInv, [Next]_vars
               PROVE  FbInv' /\ CamTypeOK' /\ CamInv'
    BY DEF CamIndInv
  <2>1. FbInv' /\ CamTypeOK'
    BY FbStep, CamType
  <2>2. CASE CameraCalls
    BY <2>1, <2>2, CamCallStep
  <2>3. CASE CameraSets
    BY <2>1, <2>3, CamSetsStep
  <2>4. CASE \E h \in Hosts : HostSets(h)
    BY <2>1, <2>4, CamOthersStep DEF HostSets
  <2>5. CASE /\ \/ \E h \in Hosts : HostCalls(h)
                \/ \E t \in Threads : Proceed(t)
                \/ Freeze \/ Thaw \/ Kill
             /\ UNCHANGED <<cam, sizer>>
    BY <2>1, <2>5, CamOthersStep
  <2>6. CASE UNCHANGED vars
    BY <2>1, <2>6, CamOthersStep DEF vars
  <2> QED
    BY <2>1, <2>2, <2>3, <2>4, <2>5, <2>6 DEF Next
<1> QED
  BY <1>1, <1>2, PTL DEF Spec

\* With ordered keys, a key that the configuration lists stays found.
LEMMA NotFoundStep ==
  ASSUME Ordered, CamIndInv, NotFoundMeansAbsent, [Next]_vars
  PROVE  NotFoundMeansAbsent'
<1>1. /\ cam.key \in Nat
      /\ cam \in [key : Keys, format : Formats, begun : BOOLEAN, missing : BOOLEAN]
  BY CameraAssumption DEF CamIndInv, CamTypeOK
<1>2. ASSUME cam'.missing = cam.missing, cam'.key = cam.key PROVE NotFoundMeansAbsent'
  BY <1>2 DEF NotFoundMeansAbsent
<1>3. ASSUME cam'.missing = FALSE PROVE NotFoundMeansAbsent'
  BY <1>3 DEF NotFoundMeansAbsent
<1>4. ASSUME NEW r, NEW fmt, BeginFails(r, fmt) PROVE NotFoundMeansAbsent'
  <2>1. /\ cam'.key = cam.key
        /\ cam'.missing => BeginError(r, fmt) = "Framebuffer does not exist"
    BY <1>1, <1>4 DEF BeginFails
  <2>2. BeginError(r, fmt) = "Framebuffer does not exist" => ~Exists(Find(cam.key))
    BY DEF BeginError
  <2> QED
    BY <1>1, <2>1, <2>2, FindIsRight DEF NotFoundMeansAbsent, CamIndInv, FbInv
<1>5. ASSUME CameraCalls PROVE NotFoundMeansAbsent'
  <2>1. ASSUME NEW k \in Keys, SetPins(k) PROVE cam'.missing = FALSE
    BY <1>1, <2>1 DEF SetPins
  <2>2. ASSUME NEW r, NEW fmt, NEW f, Begin(r, fmt, f) PROVE cam'.missing = FALSE
    BY <1>1, <2>2 DEF Begin
  <2>3. ASSUME End PROVE cam'.missing = cam.missing /\ cam'.key = cam.key
    BY <1>1, <2>3 DEF End
  <2> QED
    BY <1>2, <1>3, <1>4, <1>5, <2>1, <2>2, <2>3 DEF CameraCalls, ReadFrame, Flip
<1>6. ASSUME CameraSets PROVE NotFoundMeansAbsent'
  <2>1. cam' = cam \/ cam' = [cam EXCEPT !.begun = (op[Sketch].call = "begin")]
    BY <1>6 DEF CameraSets
  <2> QED
    BY <1>1, <1>2, <2>1
<1>7. ASSUME UNCHANGED cam PROVE NotFoundMeansAbsent'
  BY <1>2, <1>7
<1> QED
  BY <1>5, <1>6, <1>7 DEF Next, vars, HostSets

\* readFrame() asks for as many bytes as the frame of the buffer has.
LEMMA FrameFits == CamIndInv => ReadFrameFits
<1> SUFFICES ASSUME CamIndInv, cam.begun, ~SettingUp, Exists(Find(cam.key)),
                    sizer[Find(cam.key)] = "camera"
             PROVE  SizeOk(Find(cam.key), cam.format, FrameBytes(Find(cam.key)))
  BY DEF ReadFrameFits
<1> DEFINE i == Find(cam.key)  w == fbs[i].width  h == fbs[i].height
<1>1. i \in 1..Len(Conf) /\ i \in DOMAIN fbs /\ cam.format \in Formats
  BY FindType, BufferDomain DEF CamIndInv, FbInv, CamTypeOK
<1>2. w \in Nat /\ h \in Nat /\ Len(fbs[i].data) = w * h
  BY <1>1, Dimensions DEF CamIndInv, CamInv
<1> HIDE DEF i
<1>3. FrameBytes(i) = (BitsPerPixel * w * h) \div 8
  BY DEF FrameBytes
<1> HIDE DEF w, h
<1>4. PICK n \in Nat : n = w * h
  BY <1>2
<1>5. 24 * w * h = 24 * n /\ 16 * w * h = 16 * n
  BY <1>2, <1>4
<1>6. (24 * n) \div 8 = 3 * n /\ (16 * n) \div 8 = 2 * n
  OBVIOUS
<1>7. ASSUME cam.format = "RGB888" PROVE SizeOk(i, cam.format, FrameBytes(i))
  <2>1. FrameBytes(i) = 3 * n
    BY <1>3, <1>5, <1>6, <1>7 DEF BitsPerPixel
  <2> QED
    BY <1>2, <1>4, <1>7, <2>1 DEF SizeOk
<1>8. ASSUME cam.format = "RGB444" PROVE SizeOk(i, cam.format, FrameBytes(i))
  <2>1. FrameBytes(i) = 2 * n
    BY <1>3, <1>5, <1>6, <1>8 DEF BitsPerPixel
  <2> QED
    BY <1>2, <1>4, <1>8, <2>1, Thirds DEF SizeOk
<1> QED
  BY <1>1, <1>7, <1>8 DEF Formats, i

\* What end() leaves is empty, by the invariant of the camera.
LEMMA EndIsEmpty == CamIndInv => EndedMeansEmpty
<1> SUFFICES ASSUME CamIndInv, ~cam.begun, ~SettingUp, NEW i \in DOMAIN fbs, sizer[i] = "camera"
             PROVE  fbs[i].data = <<>>
  BY DEF EndedMeansEmpty
<1>1. Len(fbs[i].data) = 0
  BY DEF CamIndInv, CamInv
<1>2. fbs[i].data \in Seq(Pixels("RGB888"))
  BY BufferDomain, BufferType DEF CamIndInv, FbInv
<1> QED
  BY <1>1, <1>2, EmptySeq

\* The inductive invariant contains the type invariant.
LEMMA TypesAreRight == CamIndInv => TypeOK
BY DEF CamIndInv, FbInv, OpTypeOK, CopyOps, CamTypeOK, TypeOK

\* Every call, flag, buffer and frame is one that the code can hold.
THEOREM TypeCorrect == Spec => []TypeOK
BY Invariance, TypesAreRight, PTL

\* A frame is read as it was written, in whatever format and however many threads
\* write, read and resize at once: only a copy that a resize met may be torn, and
\* what is left of it is read whole again.
THEOREM FramesStayWhole == Spec => []FramesAreWhole
<1>1. CamIndInv => FramesAreWhole
  <2> SUFFICES ASSUME CamIndInv PROVE FramesAreWhole
    OBVIOUS
  <2>1. FrameInv
    BY DEF CamIndInv, FbInv
  <2>2. ASSUME NEW t \in Threads, op[t].at = "copy", op[t].call = "read", ~op[t].met,
               NEW n \in DOMAIN op[t].buf
        PROVE  Decode(op[t].fmt, op[t].buf[n]) = shown[op[t].fb][n]
    <3>1. op[t].buf \in Seq(Pixels(op[t].fmt)) /\ Len(op[t].buf) = op[t].done
      BY <2>2, Kinds, CopyType DEF CamIndInv, FbInv, CopyInv
    <3>2. n \in 1..op[t].done
      BY <2>2, <3>1, LenProperties
    <3> QED
      BY <2>1, <2>2, <3>2 DEF FrameInv
  <2>3. ASSUME NEW i \in DOMAIN fbs, fbs[i].owner = NoThread
        PROVE  Frame(i) = shown[i]
    <3>1. i \in 1..Len(Conf) /\ shown[i] \in Seq(Colour4)
      BY BufferDomain, BufferType DEF CamIndInv, FbInv
    <3>2. /\ Len(shown[i]) = Len(fbs[i].data)
          /\ \A n \in 1..Len(fbs[i].data) : Colour(fbs[i].data[n]) = shown[i][n]
      BY <2>1, <2>3 DEF FrameInv
    <3>3. shown[i] = [n \in 1..Len(shown[i]) |-> shown[i][n]]
      BY <3>1, LenProperties
    <3> QED
      BY <3>2, <3>3 DEF Frame
  <2> QED
    BY <2>2, <2>3 DEF FramesAreWhole
<1> QED
  BY <1>1, Invariance, PTL

\* No copy runs past the end of the pixels unless a resize met it, whatever dimensions
\* the caller computed its size from and whoever resized the buffer before.
THEOREM CopiesAreInside == Spec => []CopiesStayInside
<1>1. CamIndInv => CopiesStayInside
  <2> SUFFICES ASSUME CamIndInv, NEW t \in Threads, op[t].at = "copy", ~op[t].met
               PROVE  op[t].size <= Len(fbs[op[t].fb].data)
    BY DEF CopiesStayInside
  <2>1. op[t].size \in Nat /\ op[t].size = Len(fbs[op[t].fb].data)
    BY Kinds, CopyType DEF CamIndInv, FbInv, FrameInv
  <2> QED
    BY <2>1
<1> QED
  BY <1>1, Invariance, PTL

\* The camera asks for the size that is there and leaves nothing behind in a buffer
\* that only it sized, whatever pins, formats and resolutions the sketch goes through;
\* if the buffers are in the order of their keys, it finds the one configured for it.
THEOREM CameraIsRight == Spec => []CameraInv
<1> DEFINE Found == Ordered => NotFoundMeansAbsent
<1>1. Init => Found
  BY DEF Init, NotFoundMeansAbsent
<1>2. CamIndInv /\ Found /\ [Next]_vars => Found'
  BY NotFoundStep DEF Ordered
<1>3. CamIndInv /\ Found => CameraInv
  BY FrameFits, EndIsEmpty, TypesAreRight DEF CameraInv, CamIndInv, FbInv
<1> QED
  BY <1>1, <1>2, <1>3, Invariance, PTL DEF Spec
===============================================================================
