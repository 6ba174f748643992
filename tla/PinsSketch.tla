------------------------------ MODULE PinsSketch ------------------------------
(***************************************************************************)
(* Two sketches on a board's pins: any one, which calls whatever it likes, *)
(* and that of the repository's GPIO test, on the board of that test: pin  *)
(* 2 is to show the opposite of pin 0, which the test writes.              *)
(***************************************************************************)
EXTENDS Gpio

CONSTANT TestConf   \* the configuration of the GPIO test

VARIABLE line   \* the statement of the test's sketch that runs next or is
                \* running; "any" if the sketch is any one

svars == <<vars, line>>

PinsInit == Init /\ (line = "any" \/ (line = "input" /\ conf = TestConf))

AnySketch == line = "any" /\ SketchCalls /\ UNCHANGED line

Setup ==
    \/ /\ line = "input" /\ PinMode(0, "in") /\ line' = "output"
    \/ /\ line = "output" /\ PinMode(2, "out") /\ line' = "read"

\* digitalRead(0) gives 0 if it is refused; the result is digitalWrite's argument.
Loop ==
    \/ /\ line = "read" /\ Reads(0, "digital")
       /\ line' = IF call'.at = "access" THEN "reading" ELSE "write 1"
    \/ /\ line = "reading" /\ Accesses
       /\ line' = IF ReadDigital(call.pin) = 0 THEN "write 1" ELSE "write 0"
    \/ /\ line = "write 0" /\ Writes(2, "digital", 0)
       /\ line' = IF call'.at = "access" THEN "writing" ELSE "read"
    \/ /\ line = "write 1" /\ Writes(2, "digital", 1)
       /\ line' = IF call'.at = "access" THEN "writing" ELSE "read"
    \/ /\ line = "writing" /\ Accesses /\ line' = "read"

\* The test reads and writes pins as a host does.
TestWrites == Host /\ UNCHANGED line

PinsNext == AnySketch \/ Setup \/ Loop \/ TestWrites

\* The thread of the test's sketch is scheduled; nobody else owes anything.
PinsSpec == PinsInit /\ [][PinsNext]_svars /\ WF_svars(Setup \/ Loop)

\* Under the test's sketch, once the test leaves pin 0 at a level, and pin 2
\* alone, pin 2 comes to the opposite level and stays there: what
\* test_pin_delayable waits for.
PinFollows ==
    line # "any" =>
        \A b \in {0, 1} :
            (<>[][line' # line]_svars /\ <>[](ReadDigital(Find(0)) = b))
                => <>[](ReadDigital(Find(2)) = 1 - b)
=============================================================================
