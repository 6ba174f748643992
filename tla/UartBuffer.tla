------------------------------ MODULE UartBuffer ------------------------------
(***************************************************************************)
(* One direction of a UART channel: the byte deque in the segment, its     *)
(* spin mutex, and the threads of the host and of the sketch that use it   *)
(* through VirtualUartBuffer.  rx and tx are two independent instances.    *)
(*                                                                         *)
(* The threads of the sketch process can be frozen (SIGSTOP) or killed     *)
(* between any two steps, also while one of them holds the mutex.  Taking  *)
(* the mutex gives up after a second, so that nobody depends on them.      *)
(*                                                                         *)
(* A byte is named by its writer, the number of the writer's call and its  *)
(* place in that call.                                                     *)
(***************************************************************************)
EXTENDS Naturals, Sequences

CONSTANTS
    Writers,    \* the threads that write
    Readers,    \* the threads that read
    Mortal,     \* those of them that belong to the sketch process
    NoThread,   \* the mutex is free
    DeadThread, \* the mutex was held by a thread that was killed
    Requested,  \* BoardConfig::UartChannel::rx_buffer_length or tx_buffer_length
    Width,      \* 2^16
    MaxChunk,   \* bound: the longest span passed to read() or write()
    MaxBytes    \* bound: no write() begins after that many bytes

Threads == Writers \cup Readers

ASSUME UartAssumption ==
    /\ Mortal \subseteq Threads
    /\ NoThread \notin Threads /\ DeadThread \notin Threads
    /\ NoThread # DeadThread
    /\ Requested \in Nat /\ Width \in Nat \ {0}
    /\ MaxChunk \in Nat /\ MaxBytes \in Nat

NoByte == <<>>      \* front() of an empty or unavailable buffer: '\0'
Bytes == Writers \X Nat \X Nat

VARIABLES
    buf,        \* rx or tx of the BoardData::UartChannel
    owner,      \* the thread that holds rx_mut or tx_mut
    sketch,     \* the sketch process
    at,         \* at[t]: where thread t is
    want,       \* want[t]: bytes it was asked for; inside, those still to transfer
    got,        \* got[t]: bytes it has copied out and not yet erased
    pushed,     \* bytes appended by the write() that holds the mutex
    known,      \* known[t]: the last size() t was told, until it reads
    front,      \* front[t]: the last front() t was told, until it reads
    calls,      \* history: calls[t], how many write() calls of t were accepted
    sent,       \* history: all bytes ever appended
    delivered   \* history: all bytes ever returned by read()

vars == <<buf, owner, sketch, at, want, got, pushed, known, front, calls, sent,
          delivered>>

\* max_buffered_rx and max_buffered_tx are 16 bits wide.
Capacity == Requested % Width

Places == {"out", "write?", "read?", "size?", "front?",
           "writing", "reading", "erasing", "size", "front"}
Inside == {"writing", "reading", "erasing", "size", "front"}

TypeOK ==
    /\ buf \in Seq(Bytes)
    /\ owner \in Threads \cup {NoThread, DeadThread}
    /\ sketch \in {"running", "frozen", "dead"}
    /\ at \in [Threads -> Places]
    /\ want \in [Threads -> Nat]
    /\ got \in [Threads -> Seq(Bytes)]
    /\ pushed \in Nat
    /\ known \in [Threads -> Nat]
    /\ front \in [Threads -> Bytes \cup {NoByte}]
    /\ calls \in [Threads -> Nat]
    /\ sent \in Seq(Bytes)
    /\ delivered \in Seq(Bytes)

Init ==
    /\ buf = <<>>
    /\ owner = NoThread
    /\ sketch = "running"
    /\ at = [t \in Threads |-> "out"]
    /\ want = [t \in Threads |-> 0]
    /\ got = [t \in Threads |-> <<>>]
    /\ pushed = 0
    /\ known = [t \in Threads |-> 0]
    /\ front = [t \in Threads |-> NoByte]
    /\ calls = [t \in Threads |-> 0]
    /\ sent = <<>>
    /\ delivered = <<>>

CanStep(t) == t \in Mortal => sketch = "running"
-----------------------------------------------------------------------------
\* A thread calls write(), read(), size() or front().  A read() ends what the
\* thread could know about the buffer.
CallWrite(t, n) ==
    /\ CanStep(t) /\ t \in Writers /\ at[t] = "out"
    /\ Len(sent) < MaxBytes
    /\ at' = [at EXCEPT ![t] = "write?"]
    /\ want' = [want EXCEPT ![t] = n]
    /\ UNCHANGED <<buf, owner, sketch, got, pushed, known, front, calls, sent,
                   delivered>>

CallRead(t, n) ==
    /\ CanStep(t) /\ t \in Readers /\ at[t] = "out"
    /\ at' = [at EXCEPT ![t] = "read?"]
    /\ want' = [want EXCEPT ![t] = n]
    /\ known' = [known EXCEPT ![t] = 0]
    /\ front' = [front EXCEPT ![t] = NoByte]
    /\ UNCHANGED <<buf, owner, sketch, got, pushed, calls, sent, delivered>>

CallLook(t, what) ==
    /\ CanStep(t) /\ t \in Readers /\ at[t] = "out"
    /\ at' = [at EXCEPT ![t] = what]
    /\ UNCHANGED <<buf, owner, sketch, want, got, pushed, known, front, calls,
                   sent, delivered>>

\* A variant of Lockable: the mutex is not asked.
Lockable_Always == TRUE

Lockable == owner = NoThread

\* A variant of TimedOut: lock() instead of timed_lock().
TimedOut_Never == FALSE

\* timed_lock fails only if the mutex is still held when the second is over.
TimedOut == owner # NoThread

\* What size() returns if it could not take the mutex.
NotLooked == 0

\* The call returns 0 (or '\0') without having looked.
GiveUp(t) ==
    /\ CanStep(t)
    /\ TimedOut
    /\ at[t] \in {"write?", "read?", "size?", "front?"}
    /\ at' = [at EXCEPT ![t] = "out"]
    /\ want' = [want EXCEPT ![t] = 0]
    /\ known' = IF at[t] = "size?" THEN [known EXCEPT ![t] = NotLooked] ELSE known
    /\ front' = IF at[t] = "front?" THEN [front EXCEPT ![t] = NoByte] ELSE front
    /\ UNCHANGED <<buf, owner, sketch, got, pushed, calls, sent, delivered>>
-----------------------------------------------------------------------------
Smaller(m, n) == IF m < n THEN m ELSE n

\* A variant of Room: off by one.
Room_OneMore == (Capacity + 1) - Len(buf)

\* The difference is unsigned: below zero it would wrap, and be clamped to the
\* capacity.
Room == IF Len(buf) <= Capacity THEN Capacity - Len(buf) ELSE Capacity

BeginWrite(t) ==
    /\ CanStep(t) /\ at[t] = "write?" /\ Lockable
    /\ owner' = t
    /\ at' = [at EXCEPT ![t] = "writing"]
    /\ want' = [want EXCEPT ![t] = Smaller(Room, want[t])]
    /\ UNCHANGED <<buf, sketch, got, pushed, known, front, calls, sent, delivered>>

Appended(b) == Append(buf, b)

\* copy_n with a back_inserter: one byte at a time.
Push(t) ==
    /\ CanStep(t) /\ at[t] = "writing" /\ want[t] > 0
    /\ LET b == <<t, calls[t], pushed>>
       IN  buf' = Appended(b) /\ sent' = Append(sent, b)
    /\ pushed' = pushed + 1
    /\ want' = [want EXCEPT ![t] = want[t] - 1]
    /\ UNCHANGED <<owner, sketch, at, got, known, front, calls, delivered>>

EndWrite(t) ==
    /\ CanStep(t) /\ at[t] = "writing" /\ want[t] = 0
    /\ owner' = NoThread
    /\ at' = [at EXCEPT ![t] = "out"]
    /\ calls' = IF pushed > 0 THEN [calls EXCEPT ![t] = calls[t] + 1] ELSE calls
    /\ pushed' = 0
    /\ UNCHANGED <<buf, sketch, want, got, known, front, sent, delivered>>

BeginRead(t) ==
    /\ CanStep(t) /\ at[t] = "read?" /\ Lockable
    /\ owner' = t
    /\ at' = [at EXCEPT ![t] = "reading"]
    /\ want' = [want EXCEPT ![t] = Smaller(Len(buf), want[t])]
    /\ UNCHANGED <<buf, sketch, got, pushed, known, front, calls, sent, delivered>>

\* copy_n out of the deque, and then erase.
Copy(t) ==
    /\ CanStep(t) /\ at[t] = "reading"
    /\ got' = [got EXCEPT ![t] = SubSeq(buf, 1, want[t])]
    /\ at' = [at EXCEPT ![t] = "erasing"]
    /\ want' = [want EXCEPT ![t] = 0]
    /\ UNCHANGED <<buf, owner, sketch, pushed, known, front, calls, sent, delivered>>

EndRead(t) ==
    /\ CanStep(t) /\ at[t] = "erasing"
    /\ buf' = SubSeq(buf, Len(got[t]) + 1, Len(buf))
    /\ delivered' = delivered \o got[t]
    /\ got' = [got EXCEPT ![t] = <<>>]
    /\ owner' = NoThread
    /\ at' = [at EXCEPT ![t] = "out"]
    /\ UNCHANGED <<sketch, want, pushed, known, front, calls, sent>>

BeginLook(t) ==
    /\ CanStep(t) /\ at[t] \in {"size?", "front?"} /\ Lockable
    /\ owner' = t
    /\ at' = [at EXCEPT ![t] = IF at[t] = "size?" THEN "size" ELSE "front"]
    /\ UNCHANGED <<buf, sketch, want, got, pushed, known, front, calls, sent,
                   delivered>>

\* A variant of Front: the newest byte.
Front_Newest == IF buf = <<>> THEN NoByte ELSE buf[Len(buf)]

Front == IF buf = <<>> THEN NoByte ELSE Head(buf)

EndLook(t) ==
    /\ CanStep(t) /\ at[t] \in {"size", "front"}
    /\ known' = IF at[t] = "size" THEN [known EXCEPT ![t] = Len(buf)] ELSE known
    /\ front' = IF at[t] = "front" THEN [front EXCEPT ![t] = Front] ELSE front
    /\ owner' = NoThread
    /\ at' = [at EXCEPT ![t] = "out"]
    /\ UNCHANGED <<buf, sketch, want, got, pushed, calls, sent, delivered>>
-----------------------------------------------------------------------------
\* Board::suspend and resume, and the kill of Board::terminate or a crash: the
\* mutex stays with a thread that will never release it.
Suspend ==
    /\ sketch = "running"
    /\ sketch' = "frozen"
    /\ UNCHANGED <<buf, owner, at, want, got, pushed, known, front, calls, sent,
                   delivered>>

Resume ==
    /\ sketch = "frozen"
    /\ sketch' = "running"
    /\ UNCHANGED <<buf, owner, at, want, got, pushed, known, front, calls, sent,
                   delivered>>

Kill ==
    /\ sketch # "dead"
    /\ sketch' = "dead"
    /\ owner' = IF owner \in Mortal THEN DeadThread ELSE owner
    /\ UNCHANGED <<buf, at, want, got, pushed, known, front, calls, sent, delivered>>

Call(t) ==
    \/ \E n \in 1..MaxChunk : CallWrite(t, n) \/ CallRead(t, n)
    \/ CallLook(t, "size?") \/ CallLook(t, "front?")

\* What a thread does inside a call, until it returns.
Proceed(t) ==
    \/ GiveUp(t)
    \/ BeginWrite(t) \/ Push(t) \/ EndWrite(t)
    \/ BeginRead(t) \/ Copy(t) \/ EndRead(t)
    \/ BeginLook(t) \/ EndLook(t)

Next ==
    \/ \E t \in Threads : Call(t) \/ Proceed(t)
    \/ Suspend \/ Resume \/ Kill

Spec == Init /\ [][Next]_vars

\* Threads that are not frozen are scheduled; nobody has to call anything.
FairSpec == Spec /\ \A t \in Threads : WF_vars(Proceed(t))
-----------------------------------------------------------------------------
(***************************************************************************)
(* Properties                                                              *)
(***************************************************************************)

\* However many writers race for the buffer, it never holds more bytes than the
\* channel was configured for, 16-bit wide.
WithinCapacity == Len(buf) <= Capacity

\* What the readers were given, followed by what is still in the buffer, is what
\* the writers appended: no byte is lost, duplicated or overtaken, whoever was
\* killed inside the buffer.
Lossless == sent = delivered \o buf

\* In the stream s, every byte begins a call or continues that of the byte before,
\* and the calls of one writer are in order.
Whole(s) ==
    /\ \A i \in 1 .. Len(s) - 1 :
         \/ s[i+1][3] = 0
         \/ s[i+1] = <<s[i][1], s[i][2], s[i][3] + 1>>
    /\ \A i, j \in 1 .. Len(s) :
         i < j /\ s[i][1] = s[j][1] =>
           \/ s[i][2] < s[j][2]
           \/ s[i][2] = s[j][2] /\ s[i][3] < s[j][3]

\* The accepted bytes of one write() follow each other in the stream, whoever else
\* was writing, and the calls of one writer keep their order.
WritesStayWhole == Whole(sent)

\* A thread that is the only reader can rely on what it saw until it reads: as many
\* bytes as size() said are there, and front() comes next.  (HardwareSerial's
\* available() and peek() are used like that by Stream.)
NoSurprise ==
    \A t \in Threads :
        Readers = {t} =>
            /\ known[t] <= Len(buf)
            /\ front[t] # NoByte => buf # <<>> /\ Head(buf) = front[t]

\* Every call returns, unless the thread itself is frozen or dead: nobody waits for
\* ever for a thread that was frozen or killed inside the buffer.
CallsReturn ==
    \A t \in Threads : at[t] # "out" ~> at[t] = "out" \/ ~CanStep(t)

\* The bytes of a write() in progress are not in the abstract queue yet.
Fifo == INSTANCE BoundedFifo WITH
            queue <- SubSeq(buf, 1, Len(buf) - pushed), out <- delivered

\* The buffer implements a bounded FIFO: every write() and every read() appears to
\* happen at once, although the bytes are copied one by one and the thread can be
\* frozen or killed in between.
FifoSpec == Fifo!Spec
-----------------------------------------------------------------------------
(***************************************************************************)
(* The inductive invariant behind the safety properties                    *)
(***************************************************************************)

\* One thread at most is inside, dead or alive, and the mutex knows about it.
LockInv ==
    /\ \A t \in Threads : owner = t => at[t] \in Inside
    /\ \A t \in Threads :
         at[t] \in Inside => owner = t \/ (owner = DeadThread /\ t \in Mortal)
    /\ \A t, u \in Threads : at[t] \in Inside /\ at[u] \in Inside => t = u
    /\ owner = DeadThread => sketch = "dead"

\* What a thread inside is about to do stays within the buffer.
RoomInv ==
    /\ WithinCapacity
    /\ \A t \in Threads :
         /\ at[t] = "writing" => t \in Writers /\ Len(buf) + want[t] <= Capacity
         /\ at[t] = "reading" => want[t] <= Len(buf)
         /\ at[t] = "erasing" =>
              Len(got[t]) <= Len(buf) /\ got[t] = SubSeq(buf, 1, Len(got[t]))
         /\ at[t] = "write?" => t \in Writers
         /\ at[t] # "erasing" => got[t] = <<>>

\* The last bytes of the buffer are those of the write() in progress.
PushInv ==
    /\ pushed # 0 => \E t \in Threads : at[t] = "writing"
    /\ pushed <= Len(buf)
    /\ \A t \in Threads : at[t] = "writing" =>
         \A i \in 1 .. pushed : buf[Len(buf) - pushed + i] = <<t, calls[t], i - 1>>

\* Only readers read, and inside read() they rely on nothing they saw before.
ReaderInv ==
    \A t \in Threads :
        /\ at[t] \notin {"out", "write?", "writing"} => t \in Readers
        /\ at[t] \in {"read?", "reading", "erasing"} =>
             known[t] = 0 /\ front[t] = NoByte

\* Whatever the history of single bytes, this is preserved by every step.
BufferInv ==
    /\ TypeOK /\ LockInv /\ RoomInv /\ PushInv /\ ReaderInv
    /\ Lossless /\ NoSurprise

\* The last bytes sent are those of the write() in progress; all others belong to
\* calls that have ended.
WholeInv ==
    /\ pushed <= Len(sent)
    /\ \A t \in Threads : at[t] = "writing" =>
         \A i \in 1 .. Len(sent) :
            i > Len(sent) - pushed =>
              sent[i] = <<t, calls[t], i - 1 - (Len(sent) - pushed)>>
    /\ \A i \in 1 .. Len(sent) - pushed : sent[i][2] < calls[sent[i][1]]

\* Holds in every reachable state and is preserved by every step.
IInv == BufferInv /\ WholeInv /\ WritesStayWhole
=============================================================================
