---------------------------- MODULE HardwareSerial ----------------------------
(***************************************************************************)
(* The Arduino object Serial over UART channel 0, and the functions of     *)
(* Stream that are loops over its read() and peek().  Each direction is a  *)
(* bounded queue with atomic operations (UartBuffer implements BoundedFifo)*)
(* and a call that finds the mutex taken for a second gets nothing.        *)
(*                                                                         *)
(* The host only writes rx and only reads tx, and a sketch has one thread. *)
(* Hence nothing leaves rx, and nothing enters tx, between two steps of a  *)
(* call of the sketch.                                                     *)
(***************************************************************************)
EXTENDS Integers, Sequences, FiniteSets

CONSTANTS
    Channels,   \* how many UART channels the board has
    RxMax,      \* max_buffered_rx
    TxMax,      \* max_buffered_tx
    Bytes,      \* bound: the bytes the host writes
    Texts,      \* bound: the texts the sketch writes
    Limits,     \* bound: the lengths readBytesUntil() is called with
    MaxBytes,   \* bound: how many bytes the host and the sketch write in all
    CharSigned, \* whether char is signed on this platform
    LongMax,    \* the greatest value of long on this platform
    Garbage,    \* bound: what an overflow of long, which is undefined, may leave
    TimeOuts    \* whether the host may keep a mutex for a second: a set, of both
                \* if the specification is to allow for both

Byte == 0..255

ASSUME SerialAssumption ==
    /\ Channels \in Nat /\ RxMax \in 0 .. 2^16 - 1 /\ TxMax \in 0 .. 2^16 - 1
    /\ Bytes \subseteq Byte /\ Texts \subseteq Seq(Byte)
    /\ Limits \subseteq Nat /\ MaxBytes \in Nat
    /\ CharSigned \in BOOLEAN /\ TimeOuts \subseteq BOOLEAN
    /\ LongMax \in Nat /\ Garbage \subseteq -LongMax..LongMax /\ Garbage # {}

NoIgnoreChar == 1   \* NO_IGNORE_CHAR, the default terminator and ignored character
Dot == 46
Minus == 45
Whites == {9, 10, 13, 32}
Digits == 48..57

VARIABLES
    timely,     \* no call of the sketch times out in this behaviour
    rx, tx,     \* the two byte queues
    active,     \* the channel's active flag
    op,         \* the Stream function in progress
    ret,        \* what the last call of the sketch returned
    room,       \* history: the last availableForWrite() that looked, until
                \* a write or end()
    sent,       \* history: how many bytes rx accepted
    got         \* history: how many bytes the host read from tx

vars == <<timely, rx, tx, active, op, ret, room, sent, got>>

Lates == IF timely THEN {FALSE} ELSE BOOLEAN

\* fn: where the function is; text: what it collects, at most limit bytes; value,
\* negative, decimals: the number it parses (decimals is -1 before the point);
\* c: the byte it peeked; taken: history, the bytes of the number it took out;
\* late: history, whether a time-out met it.
NoOp == [fn |-> "none", text |-> <<>>, limit |-> 0, stop |-> 0, mode |-> "all", float |-> FALSE,
         value |-> 0, negative |-> FALSE, decimals |-> -1, c |-> 0, taken |-> <<>>,
         late |-> FALSE]

\* asked: the bytes a write() was to take; text: a collected string.
Returns(call, value) ==
    [call |-> call, value |-> value, decimals |-> -1, asked |-> 0, text |-> <<>>, taken |-> <<>>,
     late |-> FALSE]

Init ==
    /\ timely \in {~late : late \in TimeOuts}
    /\ rx = <<>> /\ tx = <<>> /\ active = FALSE
    /\ op = NoOp /\ ret = Returns("nothing", 0)
    /\ room = 0 /\ sent = 0 /\ got = 0

AsInts == -128..255  \* a byte that a char holds, and what reads as one
Ops == [fn : {"none", "collect", "skip", "digit", "more"}, text : Seq(Byte), limit : Nat,
        stop : Byte, mode : {"all", "none", "white"}, float : BOOLEAN, value : Int,
        negative : BOOLEAN, decimals : -1 .. MaxBytes, c : AsInts, taken : Seq(Bytes),
        late : BOOLEAN]
Calls == {"nothing", "begin", "end", "available", "availableForWrite", "write", "peek", "read",
          "collect", "parse"}
Rets == [call : Calls, value : Int, decimals : Int, asked : Nat, text : Seq(Byte),
         taken : Seq(Bytes), late : BOOLEAN]

TypeOK ==
    /\ timely \in BOOLEAN /\ active \in BOOLEAN
    /\ rx \in Seq(Bytes) /\ Len(rx) <= RxMax
    /\ tx \in Seq(Byte) /\ Len(tx) <= TxMax
    /\ op \in Ops /\ ret \in Rets
    /\ room \in 0..TxMax
    /\ sent \in 0..MaxBytes /\ got \in 0..MaxBytes
-----------------------------------------------------------------------------
(* The host, through uart_channels[0]                                      *)

Smaller(m, n) == IF m < n THEN m ELSE n

Exists == Channels > 0

HostWrites(b) ==
    /\ Exists /\ sent < MaxBytes
    /\ Len(rx) < RxMax
    /\ rx' = Append(rx, b)
    /\ sent' = sent + 1
    /\ UNCHANGED <<timely, tx, active, op, ret, room, got>>

HostReads ==
    /\ Exists /\ tx # <<>>
    /\ \E n \in 1 .. Len(tx) :
         /\ got' = got + n
         /\ tx' = SubSeq(tx, n + 1, Len(tx))
    /\ UNCHANGED <<timely, rx, active, op, ret, room, sent>>
-----------------------------------------------------------------------------
(* HardwareSerial                                                          *)

\* A char returned as an int.
AsInt(b) == IF CharSigned /\ b >= 128 THEN b - 256 ELSE b

Free == op = NoOp

Begin ==
    /\ Free
    /\ active' = Exists
    /\ ret' = Returns("begin", 0)
    /\ UNCHANGED <<timely, rx, tx, op, room, sent, got>>

End ==
    /\ Free
    /\ active' = FALSE
    /\ ret' = Returns("end", 0)
    /\ room' = 0
    /\ UNCHANGED <<timely, rx, tx, op, sent, got>>

Available ==
    /\ Free
    /\ \E late \in Lates :
         ret' = [Returns("available", IF active /\ ~late THEN Len(rx) ELSE 0) EXCEPT !.late = late]
    /\ UNCHANGED <<timely, rx, tx, active, op, room, sent, got>>

\* A variant of FreeSpace: the size of the other direction is subtracted.
FreeSpace_OfRx == TxMax - Len(rx)

FreeSpace == TxMax - Len(tx)

\* size() is 0 after a time-out: then the whole buffer is said to be free.
AvailableForWrite ==
    /\ Free
    /\ \E late \in Lates :
         LET n == IF ~active THEN 0 ELSE IF late THEN TxMax ELSE FreeSpace
         IN /\ ret' = [Returns("availableForWrite", n) EXCEPT !.late = late]
            /\ room' = IF late THEN 0 ELSE n
    /\ UNCHANGED <<timely, rx, tx, active, op, sent, got>>

\* How many of the bytes write() takes.
Written(s, late) == IF ~active \/ late THEN 0 ELSE Smaller(TxMax - Len(tx), Len(s))

Writes(s, late) ==
    /\ tx' = tx \o SubSeq(s, 1, Written(s, late))
    /\ ret' = [Returns("write", Written(s, late)) EXCEPT !.asked = Len(s), !.late = late]
    /\ room' = 0

\* write() of a byte or a buffer, and print() of a text
Write(s) ==
    /\ Free /\ got + Len(tx) + Len(s) <= MaxBytes
    /\ \E late \in Lates : Writes(s, late)
    /\ UNCHANGED <<timely, rx, active, op, sent, got>>

\* size() and then front(), which is NUL after a time-out
Peeked(late1, late2) ==
    IF ~active \/ late1 \/ rx = <<>> THEN -1 ELSE IF late2 THEN 0 ELSE AsInt(Head(rx))

\* A variant of Taken: a byte that reads as a negative number is left in the queue.
Taken_NotNegative(late) == active /\ ~late /\ rx # <<>> /\ AsInt(Head(rx)) >= 0

\* Whether read() takes a byte out, and what it returns
Taken(late) == active /\ ~late /\ rx # <<>>
ReadValue(late) == IF Taken(late) THEN AsInt(Head(rx)) ELSE -1

\* A variant of Takes: the byte that is returned stays in the queue.
Takes_Never(late) == rx' = rx

Takes(late) == rx' = IF Taken(late) THEN Tail(rx) ELSE rx

Peek ==
    /\ Free
    /\ \E late1, late2 \in Lates :
         ret' = [Returns("peek", Peeked(late1, late2)) EXCEPT !.late = late1 \/ late2]
    /\ UNCHANGED <<timely, rx, tx, active, op, room, sent, got>>

Read ==
    /\ Free
    /\ \E late \in Lates :
         /\ Takes(late)
         /\ ret' = [Returns("read", ReadValue(late)) EXCEPT !.late = late]
    /\ UNCHANGED <<timely, tx, active, op, room, sent, got>>
-----------------------------------------------------------------------------
(* Stream: each loop of reads is a step of its own, for the host may write *)
(* between any two.                                                        *)

NoLimit == MaxBytes + 1     \* readStringUntil() has none

\* readStringUntil(), readBytesUntil() and, with NoIgnoreChar, readString(), readBytes()
BeginCollect(stop, limit) ==
    /\ Free
    /\ op' = [NoOp EXCEPT !.fn = "collect", !.stop = stop, !.limit = limit]
    /\ UNCHANGED <<timely, rx, tx, active, ret, room, sent, got>>

\* The text so far is what they return.
EndsCollect ==
    /\ op' = NoOp
    /\ ret' = [Returns("collect", Len(op.text)) EXCEPT !.text = op.text]

Collect ==
    /\ op.fn = "collect"
    /\ \/ /\ Len(op.text) = op.limit
          /\ EndsCollect
          /\ UNCHANGED rx
       \/ /\ Len(op.text) < op.limit
          /\ \E late \in Lates :
               LET c == ReadValue(late)
               IN /\ Takes(late)
                  /\ IF c < 0 \/ c = AsInt(op.stop) THEN EndsCollect
                     ELSE /\ op' = [op EXCEPT !.text = Append(@, c % 256)]
                          /\ UNCHANGED ret
    /\ UNCHANGED <<timely, tx, active, room, sent, got>>

\* parseInt() and parseFloat() with their default ignored character
BeginParse(mode, float) ==
    /\ Free
    /\ op' = [NoOp EXCEPT !.fn = "skip", !.mode = mode, !.float = float]
    /\ UNCHANGED <<timely, rx, tx, active, ret, room, sent, got>>

\* bound: a number meets one time-out at most; a digit that is peeked at but not
\* taken out would be counted for ever.
ParseLates == IF op.late THEN {FALSE} ELSE Lates

EndsParse(late) ==
    /\ op' = NoOp
    /\ ret' = [Returns("parse", IF op.negative THEN 0 - op.value ELSE op.value)
                 EXCEPT !.decimals = op.decimals, !.taken = op.taken, !.late = op.late \/ late]

StartsNumber(c) == c = Minus \/ c \in Digits \/ (op.float /\ c = Dot)
Skipped(c) == op.mode = "all" \/ (op.mode = "white" /\ c \in Whites)

\* peekNextDigit(): peek, and read what may be skipped.  Nothing leaves rx in
\* between, so the two are one step; a byte that reads as negative ends it.
Skip ==
    /\ op.fn = "skip"
    /\ \E late1, late2, late3 \in ParseLates :
         LET c == Peeked(late1, late2)
             late == late1 \/ late2
         IN CASE c >= 0 /\ StartsNumber(c) ->
                   /\ op' = [op EXCEPT !.fn = "digit", !.c = c, !.late = @ \/ late]
                   /\ UNCHANGED <<rx, ret>>
              [] c >= 0 /\ ~StartsNumber(c) /\ Skipped(c) ->
                   /\ Takes(late3)
                   /\ op' = [op EXCEPT !.late = @ \/ late \/ late3]
                   /\ UNCHANGED ret
              [] OTHER -> EndsParse(late) /\ UNCHANGED rx
    /\ UNCHANGED <<timely, tx, active, room, sent, got>>

\* value * 10 + c - '0': whether c fits into the long that it is added to.
Fits(value, c) == 10 * value >= -LongMax - 1 /\ 10 * value + c <= LongMax
Sums(value, c) == IF Fits(value, c) THEN {10 * value + c - 48} ELSE Garbage

\* A variant of Account: the point is taken for a digit's place.
Account_PointShifts(o, sum) ==
    CASE o.c = NoIgnoreChar -> o
      [] o.c = Minus -> [o EXCEPT !.negative = TRUE]
      [] o.c = Dot -> [o EXCEPT !.decimals = 1]
      [] o.c \in Digits -> [o EXCEPT !.value = sum,
                                     !.decimals = IF @ >= 0 THEN @ + 1 ELSE @]
      [] OTHER -> o

\* What the loop's body makes of the peeked byte; sum is the value with it.
Account(o, sum) ==
    CASE o.c = NoIgnoreChar -> o
      [] o.c = Minus -> [o EXCEPT !.negative = TRUE]
      [] o.c = Dot -> [o EXCEPT !.decimals = 0]
      [] o.c \in Digits -> [o EXCEPT !.value = sum,
                                     !.decimals = IF @ >= 0 THEN @ + 1 ELSE @]
      [] OTHER -> o

\* The body of the loop, up to read().
Digit ==
    /\ op.fn = "digit"
    /\ \E late \in ParseLates, sum \in Sums(op.value, op.c) :
         /\ Takes(late)
         /\ op' = [Account(op, sum) EXCEPT !.fn = "more", !.late = @ \/ late,
                                           !.taken = IF Taken(late) THEN Append(@, Head(rx)) ELSE @]
    /\ UNCHANGED <<timely, tx, active, ret, room, sent, got>>

\* The condition of the loop
GoesOn(c) == c \in Digits \/ (op.float /\ c = Dot /\ op.decimals < 0) \/ c = NoIgnoreChar

More ==
    /\ op.fn = "more"
    /\ \E late1, late2 \in ParseLates :
         LET c == Peeked(late1, late2)
             late == late1 \/ late2
         IN IF GoesOn(c)
            THEN /\ op' = [op EXCEPT !.fn = "digit", !.c = c, !.late = @ \/ late]
                 /\ UNCHANGED ret
            ELSE EndsParse(late)
    /\ UNCHANGED <<timely, rx, tx, active, room, sent, got>>
-----------------------------------------------------------------------------
Sketch ==
    \/ Begin \/ End \/ Available \/ AvailableForWrite \/ Peek \/ Read
    \/ \E s \in Texts : Write(s)
    \/ \E stop \in Bytes \cup {NoIgnoreChar}, limit \in Limits \cup {NoLimit} :
           BeginCollect(stop, limit)
    \/ \E mode \in {"all", "none", "white"}, float \in BOOLEAN : BeginParse(mode, float)
    \/ Collect \/ Skip \/ Digit \/ More

Host == (\E b \in Bytes : HostWrites(b)) \/ HostReads

Next == Host \/ Sketch

Spec == Init /\ [][Next]_vars
-----------------------------------------------------------------------------
(* What it is for                                                          *)

\* After an availableForWrite() that could look, a write of no more than that is
\* taken whole unless it times out, whatever the host reads in between.
WritesFit ==
    [][(ret' # ret /\ ret'.call = "write" /\ ~ret'.late)
         => ret'.value >= Smaller(ret'.asked, room)]_vars

\* What availableForWrite() counted is still there, the host having read or not; on a
\* channel that is not active it counted nothing.
RoomIsThere == (active => Exists) /\ (~active => room = 0) /\ room + Len(tx) <= TxMax

\* Every byte is in a queue, in a number or with its reader once.
BytesAreCounted == got + Len(tx) <= MaxBytes /\ Len(rx) + Len(op.taken) <= sent

\* The number that the digits of a text spell, whatever stands between them.
Spelt(s) ==
    LET upto[n \in 0 .. Len(s)] ==
          IF n = 0 THEN 0
          ELSE IF s[n] \in Digits THEN 10 * upto[n - 1] + s[n] - 48 ELSE upto[n - 1]
    IN upto[Len(s)]

Has(s, b) == \E i \in DOMAIN s : s[i] = b

\* How many digits there are after a point.
Places(s) ==
    IF Has(s, Dot)
    THEN Cardinality({i \in DOMAIN s : s[i] \in Digits /\ \E j \in DOMAIN s : j < i /\ s[j] = Dot})
    ELSE -1

\* The number, without its point, read from text at once.
ReadOff(s) == IF Has(s, Minus) THEN 0 - Spelt(s) ELSE Spelt(s)

\* A long holds the number and, on the way to it, the last digit's byte too.
IsLong(s) == Spelt(s) + 48 <= LongMax

\* A text has at most one sign, before its digits, and at most one point.
IsNumber(s) ==
    \A i, j \in DOMAIN s : /\ s[j] = Minus => j = 1
                           /\ (s[i] = Dot /\ s[j] = Dot) => i = j

\* What the loop has added up is what it took out, and the byte it peeked at is still
\* in front and may follow what it took out.
ParsesWhatItTook ==
    /\ op.fn = "skip" => op.taken = <<>> /\ op.value = 0 /\ ~op.negative /\ op.decimals = -1
    /\ op.decimals < Len(op.taken) + (IF op.late THEN 1 ELSE 0)
    /\ op.fn = "digit" => /\ active /\ rx # <<>> /\ op.c = AsInt(Head(rx))
                          /\ op.c \in Digits \cup {Minus, Dot, NoIgnoreChar}
                          /\ op.c = Dot => op.decimals = -1
                          /\ op.c = Minus /\ ~op.late => op.taken = <<>>
    /\ op.fn \in {"digit", "more"} /\ ~op.late =>
         /\ IsLong(op.taken) => op.value = Spelt(op.taken)
         /\ op.decimals = Places(op.taken)
         /\ op.negative <=> Has(op.taken, Minus)
         /\ IsNumber(op.taken)

\* A number that parseInt() or parseFloat() returns without a time-out has the
\* places after the point of its bytes and, if it fits into a long, their digits,
\* each counted once, although they are peeked at and taken out one by one while
\* the host writes: no digit twice, none left out.  (parseFloat() has yet to scale
\* it and to convert it to a float.)
NumbersAreReadOnce ==
    (ret.call = "parse" /\ ~ret.late) =>
        /\ IsLong(ret.taken) => ret.value = ReadOff(ret.taken)
        /\ ret.decimals = Places(ret.taken)

\* A number has at most one sign, before its digits, and at most one point.
NumbersAreWellFormed == ret.call = "parse" /\ ~ret.late => IsNumber(ret.taken)

\* What parseInt() and parseFloat() return without a time-out is a number and, if
\* a long holds it, the one that was sent.
SerialInv ==
    /\ TypeOK /\ RoomIsThere /\ BytesAreCounted /\ ParsesWhatItTook
    /\ NumbersAreReadOnce /\ NumbersAreWellFormed
=============================================================================
