------------------------------ MODULE EchoSketch ------------------------------
(***************************************************************************)
(* The sketch of the repository's UART test, which sends back what it is   *)
(* sent: if (Serial.available() > 0) Serial.print(Serial.readString()).    *)
(***************************************************************************)
EXTENDS HardwareSerial

VARIABLES
    line,   \* the call of the sketch that runs next or is running
    short,  \* history: a print() did not take its whole text
    input,  \* history: the bytes the test wrote and rx accepted
    output  \* history: the bytes the test read from tx

evars == <<vars, line, short, input, output>>

EchoInit == Init /\ line = "begin" /\ short = FALSE /\ input = <<>> /\ output = <<>>

Setup == /\ line = "begin" /\ Begin /\ line' = "available"
         /\ UNCHANGED <<short, input, output>>

Reply ==
    \/ /\ line = "available" /\ Available
       /\ line' = IF ret'.value > 0 THEN "readString" ELSE "available"
       /\ UNCHANGED short
    \/ /\ line = "readString" /\ BeginCollect(NoIgnoreChar, NoLimit)
       /\ line' = "reading" /\ UNCHANGED short
    \/ /\ line = "reading" /\ Collect
       /\ line' = IF op'.fn = "none" THEN "print" ELSE "reading"
       /\ UNCHANGED short
    \/ /\ line = "print" /\ Write(ret.text)
       /\ line' = "available"
       /\ short' = (short \/ ret'.value < ret'.asked)

Loop == Reply /\ UNCHANGED <<input, output>>

TestSends(b) == /\ HostWrites(b) /\ input' = Append(input, b)
                /\ UNCHANGED <<line, short, output>>

TestReceives == /\ HostReads /\ output' = output \o SubSeq(tx, 1, Len(tx) - Len(tx'))
                /\ UNCHANGED <<line, short, input>>

EchoNext == Setup \/ Loop \/ (\E b \in Bytes : TestSends(b)) \/ TestReceives

EchoSpec == EchoInit /\ [][EchoNext]_evars

\* The sketch's thread is scheduled, and the test reads what it is sent.
EchoFairSpec == EchoSpec /\ WF_evars(Setup \/ Loop) /\ WF_evars(TestReceives)

\* What survives readString(): it ends at NO_IGNORE_CHAR and at what reads as a
\* negative number, after having taken the byte out.
Keeps(b) == b # NoIgnoreChar /\ AsInt(b) >= 0
Kept(s) ==
    LET upto[n \in 0 .. Len(s)] ==
          IF n = 0 THEN <<>>
          ELSE IF Keeps(s[n]) THEN Append(upto[n - 1], s[n]) ELSE upto[n - 1]
    IN upto[Len(s)]

\* The text the sketch holds between rx and tx.
Held == CASE line = "reading" -> op.text [] line = "print" -> ret.text [] OTHER -> <<>>

Echoed == output \o tx \o Held

\* Which call of Serial is under way while the sketch is at a line.
LineOfCall ==
    /\ line \in {"begin", "available", "readString", "reading", "print"} /\ short \in BOOLEAN
    /\ line = "reading" => op.fn = "collect" /\ op.stop = NoIgnoreChar /\ op.limit = NoLimit
    /\ line # "reading" => op = NoOp

\* What waits in rx is what was sent last.
RxIsTheEnd ==
    /\ input \in Seq(Bytes) /\ output \in Seq(Byte)
    /\ Len(rx) <= Len(input)
    /\ \A i \in 1 .. Len(rx) : rx[i] = input[Len(input) - Len(rx) + i]

\* The elements of s are those of t at some increasing places up to n.
Within(s, t, n) ==
    \E f \in [DOMAIN s -> 1 .. n] : /\ \A i, j \in DOMAIN f : i < j => f[i] < f[j]
                                    /\ \A i \in DOMAIN f : s[i] = t[f[i]]

\* What comes back is what was sent and left rx, in its order and no byte twice; and
\* bytes that readString() can return are missing only if print() found tx full or
\* timed out.
EchoIsFaithful ==
    /\ Within(Echoed, input, Len(input) - Len(rx))
    /\ ~short => Echoed \o Kept(rx) = Kept(input)

EchoInv == LineOfCall /\ RxIsTheEnd /\ EchoIsFaithful

\* The test's wait ends: all that was sent comes back, unless print() fell short.
\* A host that keeps a mutex for a second again and again can put it off for ever.
EchoArrives == timely => <>[](short \/ output = Kept(input))
=============================================================================
