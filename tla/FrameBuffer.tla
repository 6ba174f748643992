------------------------------ MODULE FrameBuffer ------------------------------
(***************************************************************************)
(* The frame buffers of a board (cameras and screens) as BoardView's       *)
(* FrameBuffers and FrameBuffer operate on them, from threads of the host  *)
(* and from the sketch's process, which can be frozen or killed anywhere.  *)
(*                                                                         *)
(* Pixels are copied one at a time under data_mut, whose lock() has no     *)
(* timeout; the size is checked before, and a resize takes no lock at all: *)
(* it may meet copies whose size or pixels it takes away.                  *)
(* A colour is a triple of 4-bit values, the precision both formats carry. *)
(***************************************************************************)
EXTENDS Integers, Sequences, FiniteSets, Bisection

CONSTANTS
    Conf,        \* BoardConfig::frame_buffers: a sequence of [key, direction]
    Hosts,       \* the threads of the host
    Sketch,      \* the sketch's thread
    NoThread,    \* the mutex is free
    Colours,     \* bound: the colours frames are made of
    Lengths,     \* bound: the lengths, in pixels, of the frames the host passes
    Sized,       \* bound: the buffers whose dimensions the host sets
    Dims,        \* bound: the widths and heights it sets
    Rates,       \* bound: the frequencies that are set
    Flags,       \* bound: the flip flags that are set
    FlipSetters  \* the threads that set them

Colour4 == (0..15) \X (0..15) \X (0..15)

ASSUME FrameBufferAssumption ==
    /\ Conf \in Seq([key : Nat, direction : {"in", "out"}])
    /\ Sketch \notin Hosts /\ NoThread \notin Hosts \cup {Sketch}
    /\ Colours \subseteq Colour4 /\ Lengths \subseteq Nat
    /\ Sized \subseteq 1..Len(Conf) /\ Dims \subseteq Nat /\ Rates \subseteq Nat
    /\ Flags \subseteq {"horiz", "vert"} /\ FlipSetters \subseteq Hosts \cup {Sketch}

\* The buffers are configured in the order of their keys, which the look-up takes
\* for granted.
Ordered == \A i, j \in 1..Len(Conf) : i < j => Conf[i].key <= Conf[j].key

Threads == Hosts \cup {Sketch}
Formats == {"RGB888", "RGB444"}
Black == <<0, 0, 0>>
Phases == {"width", "width resize", "height", "height resize", "freq"}  \* of a setter

VARIABLES
    fbs,     \* BoardData::frame_buffers
    op,      \* op[t]: the call thread t is in
    sketch,  \* the sketch's process
    shown    \* history: shown[i], the frame the last complete write left in i

fbVars == <<fbs, op, sketch, shown>>

Idle == [at |-> "idle"]
CanStep(t) == t = Sketch => sketch = "running"
Free(t) == CanStep(t) /\ op[t] = Idle

BufferOf(c) == [key |-> c.key, direction |-> c.direction, width |-> 0, height |-> 0,
                freq |-> 0, horiz |-> FALSE, vert |-> FALSE,
                owner |-> NoThread, data |-> <<>>]

FbInit ==
    /\ fbs = [i \in 1..Len(Conf) |-> BufferOf(Conf[i])]
    /\ op = [t \in Threads |-> Idle]
    /\ sketch = "running"
    /\ shown = [i \in 1..Len(Conf) |-> <<>>]

-----------------------------------------------------------------------------
(* Look-up by key: the bisection of std::lower_bound, then a comparison.   *)

Exists(i) == i \in 1..Len(fbs)

FbKeys == [i \in 1..Len(fbs) |-> fbs[i].key]

\* The index of the buffer with that key, or 0 if none was found.
Find(key) ==
    LET i == LowerBound(FbKeys, key) IN IF Exists(i) /\ fbs[i].key = key THEN i ELSE 0

-----------------------------------------------------------------------------
(* Pixel formats.  In the buffer a pixel is <<R, G, B>>, three bytes.      *)

High(b) == (b \div 16) * 16     \* b & 0xF0
Up(b) == (b * 16) % 256         \* b << 4
Down(b) == b \div 16            \* b >> 4

BytesPerPixel(fmt) == IF fmt = "RGB888" THEN 3 ELSE 2

\* What write_rgb888 and write_rgb444 make of a pixel of the caller's buffer.
Stored(fmt, p) ==
    IF fmt = "RGB888" THEN p ELSE <<Up(p[2]), High(p[1]), Up(p[1])>>

\* What read_rgb888 and read_rgb444 make of a pixel of the frame buffer.
Fetched(fmt, p) ==
    IF fmt = "RGB888" THEN p ELSE <<High(p[2]) + Down(p[3]), Down(p[1])>>

\* The layouts BoardView.hpp documents: RRRRRRRRGGGGGGGGBBBBBBBB, GGGGBBBB0000RRRR.
Encode(fmt, c) ==
    IF fmt = "RGB888" THEN <<16 * c[1] + 9, 16 * c[2] + 5, 16 * c[3] + 15>>
                      ELSE <<16 * c[2] + c[3], c[1]>>
Decode(fmt, p) ==
    IF fmt = "RGB888" THEN <<Down(p[1]), Down(p[2]), Down(p[3])>>
                      ELSE <<p[2], p[1] \div 16, p[1] % 16>>

-----------------------------------------------------------------------------
(* Reading and writing frames.                                             *)

\* A variant of SizeOk: the caller is trusted.
SizeOk_Trusting(i, fmt, bytes) == TRUE

\* The size checks, made before the mutex is taken.
SizeOk(i, fmt, bytes) ==
    IF fmt = "RGB888" THEN bytes = 3 * Len(fbs[i].data)
                      ELSE bytes = ((3 * Len(fbs[i].data)) \div 3) * 2

\* buf is the caller's frame; a refused call returns false and changes nothing.
\* met: a resize has taken the pixels away that the size was checked against.
CallWrite(t, i, fmt, buf) ==
    /\ Free(t) /\ Exists(i)
    /\ SizeOk(i, fmt, BytesPerPixel(fmt) * Len(buf))
    /\ op' = [op EXCEPT ![t] = [at |-> "wait", call |-> "write", fb |-> i,
                                fmt |-> fmt, size |-> Len(buf), buf |-> buf, done |-> 0,
                                met |-> FALSE]]
    /\ UNCHANGED <<fbs, sketch, shown>>

CallRead(t, i, fmt, bytes) ==
    /\ Free(t) /\ Exists(i)
    /\ SizeOk(i, fmt, bytes)
    /\ op' = [op EXCEPT ![t] = [at |-> "wait", call |-> "read", fb |-> i, fmt |-> fmt,
                                size |-> bytes \div BytesPerPixel(fmt),
                                buf |-> <<>>, done |-> 0, met |-> FALSE]]
    /\ UNCHANGED <<fbs, sketch, shown>>

\* A variant of Lockable: the mutex does not exclude.
Lockable_Always(i) == TRUE

Lockable(i) == fbs[i].owner = NoThread

Lock(t) ==
    /\ CanStep(t) /\ op[t].at = "wait"
    /\ Lockable(op[t].fb)
    /\ fbs' = [fbs EXCEPT ![op[t].fb].owner = t]
    /\ op' = [op EXCEPT ![t].at = "copy"]
    /\ UNCHANGED <<sketch, shown>>

\* One pixel.  Past the end of the pixels, or once a resize has moved them, the
\* behaviour is undefined: a read finds anything, a write may miss the frame.
Strays == {Encode("RGB888", c) : c \in Colours}
PixelAt(i, n) == {fbs[i].data[m] : m \in {n} \cap DOMAIN fbs[i].data}

CopyPixel(t) ==
    LET i == op[t].fb
        n == op[t].done + 1
        inside == n <= Len(fbs[i].data)
        astray == ~inside \/ op[t].met
    IN
    /\ CanStep(t) /\ op[t].at = "copy" /\ n <= op[t].size
    /\ \/ /\ op[t].call = "write"
          /\ \/ inside /\ fbs' = [fbs EXCEPT ![i].data[n] = Stored(op[t].fmt, op[t].buf[n])]
             \/ astray /\ fbs' = fbs
          /\ op' = [op EXCEPT ![t].done = n]
       \/ /\ op[t].call = "read"
          /\ \E p \in PixelAt(i, n) \cup (IF astray THEN Strays ELSE {}) :
               op' = [op EXCEPT ![t].done = n, ![t].buf = Append(@, Fetched(op[t].fmt, p))]
          /\ UNCHANGED fbs
    /\ UNCHANGED <<sketch, shown>>

Colour(p) == Decode("RGB888", p)
Frame(i) == [n \in 1..Len(fbs[i].data) |-> Colour(fbs[i].data[n])]

\* A variant of Unlock: the mutex is not released.
Unlock_Held(t) ==
    /\ CanStep(t) /\ op[t].at = "copy" /\ op[t].done = op[t].size
    /\ op' = [op EXCEPT ![t] = Idle]
    /\ UNCHANGED <<fbs, sketch, shown>>

\* A write that met a resize leaves what it leaves.
Unlock(t) ==
    LET i == op[t].fb
        written == [n \in 1..Len(op[t].buf) |-> Decode(op[t].fmt, op[t].buf[n])]
    IN
    /\ CanStep(t) /\ op[t].at = "copy" /\ op[t].done = op[t].size
    /\ fbs' = [fbs EXCEPT ![i].owner = NoThread]
    /\ shown' = IF op[t].call = "read" THEN shown
                ELSE [shown EXCEPT ![i] = IF op[t].met THEN Frame(i) ELSE written]
    /\ op' = [op EXCEPT ![t] = Idle]
    /\ UNCHANGED sketch

-----------------------------------------------------------------------------
(* The flip flags: one atomic word, loaded, changed and stored.            *)

CallFlip(t, i, flag, val) ==
    /\ t \in FlipSetters /\ Free(t) /\ Exists(i)
    /\ op' = [op EXCEPT ![t] = [at |-> "flip", fb |-> i, flag |-> flag,
                 word |-> IF flag = "horiz" THEN [horiz |-> val, vert |-> fbs[i].vert]
                                            ELSE [horiz |-> fbs[i].horiz, vert |-> val]]]
    /\ UNCHANGED <<fbs, sketch, shown>>

StoreFlip(t) ==
    /\ CanStep(t) /\ op[t].at = "flip"
    /\ fbs' = [fbs EXCEPT ![op[t].fb].horiz = op[t].word.horiz,
                          ![op[t].fb].vert = op[t].word.vert]
    /\ op' = [op EXCEPT ![t] = Idle]
    /\ UNCHANGED <<sketch, shown>>

-----------------------------------------------------------------------------
(* Resizing: the dimension is stored, then the pixels are resized to it    *)
(* and to what the other dimension is by then, without the mutex.  The     *)
(* resizes of two threads are taken one after the other.                   *)

\* A call of one setter, or of the camera that calls all three.
CallSet(t, call, i, at, w, h, f) ==
    /\ Free(t) /\ Exists(i)
    /\ op' = [op EXCEPT ![t] = [at |-> at, call |-> call, fb |-> i, w |-> w, h |-> h, f |-> f]]
    /\ UNCHANGED <<fbs, sketch, shown>>

Setting(t) == CanStep(t) /\ op[t].at \in Phases
After(t, to) == IF op[t].call = "set" THEN Idle ELSE [op[t] EXCEPT !.at = to]

StoreWidth(t) ==
    /\ Setting(t) /\ op[t].at = "width"
    /\ fbs' = [fbs EXCEPT ![op[t].fb].width = op[t].w]
    /\ op' = [op EXCEPT ![t].at = "width resize"]
    /\ UNCHANGED <<sketch, shown>>

StoreHeight(t) ==
    /\ Setting(t) /\ op[t].at = "height"
    /\ fbs' = [fbs EXCEPT ![op[t].fb].height = op[t].h]
    /\ op' = [op EXCEPT ![t].at = "height resize"]
    /\ UNCHANGED <<sketch, shown>>

Resized(s, n, blank) == [j \in 1..n |-> IF j <= Len(s) THEN s[j] ELSE blank]

\* The copies whose pixels a resize of buffer i to n pixels takes away.
Copying(i) == {t \in Threads : op[t].at \in {"wait", "copy"} /\ op[t].fb = i}
Meets(i, n) == IF n = Len(fbs[i].data) THEN {} ELSE Copying(i)

Resize(t, n, to) ==
    LET i == op[t].fb IN
    /\ fbs' = [fbs EXCEPT ![i].data = Resized(@, n, Black)]
    /\ shown' = [shown EXCEPT ![i] = Resized(@, n, Black)]
    /\ op' = [u \in Threads |-> IF u = t THEN After(t, to)
                                ELSE IF u \in Meets(i, n) THEN [op[u] EXCEPT !.met = TRUE]
                                ELSE op[u]]
    /\ UNCHANGED sketch

ResizeWidth(t) ==
    /\ Setting(t) /\ op[t].at = "width resize"
    /\ Resize(t, op[t].w * fbs[op[t].fb].height, "height")

ResizeHeight(t) ==
    /\ Setting(t) /\ op[t].at = "height resize"
    /\ Resize(t, op[t].h * fbs[op[t].fb].width, "freq")

StoreFreq(t) ==
    /\ Setting(t) /\ op[t].at = "freq"
    /\ fbs' = [fbs EXCEPT ![op[t].fb].freq = op[t].f]
    /\ op' = [op EXCEPT ![t] = Idle]
    /\ UNCHANGED <<sketch, shown>>

SetDimension(t) == StoreWidth(t) \/ ResizeWidth(t) \/ StoreHeight(t) \/ ResizeHeight(t)

-----------------------------------------------------------------------------
Freeze == /\ sketch = "running" /\ sketch' = "frozen"
          /\ UNCHANGED <<fbs, op, shown>>
Thaw == /\ sketch = "frozen" /\ sketch' = "running"
        /\ UNCHANGED <<fbs, op, shown>>
Kill == /\ sketch # "dead" /\ sketch' = "dead"
        /\ UNCHANGED <<fbs, op, shown>>

\* A host's call: a frame of one colour in, or a frame out, or a setter.  The length
\* is what the host computed from the dimensions it read some time before.
HostCalls(h) ==
    \E i \in 1..Len(fbs), fmt \in Formats :
        \/ \E c \in Colours, len \in Lengths :
              CallWrite(h, i, fmt, [n \in 1..len |-> Encode(fmt, c)])
        \/ \E len \in Lengths : CallRead(h, i, fmt, BytesPerPixel(fmt) * len)
        \/ \E flag \in Flags, val \in BOOLEAN : CallFlip(h, i, flag, val)
        \/ /\ i \in Sized
           /\ \/ \E d \in Dims : CallSet(h, "set", i, "width", d, 0, 0)
              \/ \E d \in Dims : CallSet(h, "set", i, "height", 0, d, 0)
              \/ \E f \in Rates : CallSet(h, "set", i, "freq", 0, 0, f)

Proceed(t) == Lock(t) \/ CopyPixel(t) \/ Unlock(t) \/ StoreFlip(t)

-----------------------------------------------------------------------------
Byte == 0..255
Pixels(fmt) == IF fmt = "RGB888" THEN Byte \X Byte \X Byte ELSE Byte \X (0..15)
Copies(fmt) == [at : {"wait", "copy"}, call : {"read", "write"}, fb : 1..Len(Conf),
                fmt : {fmt}, size : Nat, buf : Seq(Pixels(fmt)), done : Nat, met : BOOLEAN]
Setters == [at : Phases, call : {"set", "begin", "end"}, fb : 1..Len(Conf),
            w : Nat, h : Nat, f : Nat]
Flips == [at : {"flip"}, fb : 1..Len(Conf), flag : Flags,
          word : [horiz : BOOLEAN, vert : BOOLEAN]]
Buffers == [key : Nat, direction : {"in", "out"}, width : Nat, height : Nat, freq : Nat,
            horiz : BOOLEAN, vert : BOOLEAN, owner : Threads \cup {NoThread},
            data : Seq(Pixels("RGB888"))]

FbTypeOK ==
    /\ fbs \in Seq(Buffers) /\ Len(fbs) = Len(Conf)
    /\ sketch \in {"running", "frozen", "dead"}
    /\ shown \in [1..Len(Conf) -> Seq(Colour4)]

\* A copy has done its pixels one by one, and the mutex is with the one copying.
CopyInv ==
    /\ \A t \in Threads : op[t].at \in {"wait", "copy"} =>
          /\ op[t].done <= op[t].size
          /\ op[t].at = "wait" => op[t].done = 0
          /\ Len(op[t].buf) = IF op[t].call = "write" THEN op[t].size ELSE op[t].done
          /\ op[t].at = "copy" => fbs[op[t].fb].owner = t
    /\ \A i \in DOMAIN fbs : fbs[i].owner # NoThread =>
          op[fbs[i].owner].at = "copy" /\ op[fbs[i].owner].fb = i

\* The buffers are the configured ones.
KeyInv == \A i \in DOMAIN fbs : fbs[i].key = Conf[i].key

\* What a copy was checked against is still so, unless it met a resize; a write has
\* then stored its first pixels, and the frame is shown unless it is being written.
FrameInv ==
    /\ \A t \in Threads : op[t].at \in {"wait", "copy"} /\ ~op[t].met =>
          op[t].size = Len(fbs[op[t].fb].data)
    /\ \A t \in Threads : op[t].at = "copy" /\ ~op[t].met => \A n \in 1..op[t].done :
          IF op[t].call = "write"
          THEN Colour(fbs[op[t].fb].data[n]) = Decode(op[t].fmt, op[t].buf[n])
          ELSE Decode(op[t].fmt, op[t].buf[n]) = shown[op[t].fb][n]
    /\ \A i \in DOMAIN fbs :
          /\ Len(shown[i]) = Len(fbs[i].data)
          /\ (fbs[i].owner # NoThread => op[fbs[i].owner].call = "read") =>
                \A n \in 1..Len(fbs[i].data) : Colour(fbs[i].data[n]) = shown[i][n]
===============================================================================
