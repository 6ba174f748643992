----------------------------- MODULE MCPinsSketch -----------------------------
(***************************************************************************)
(* Instance of PinsSketch for TLC: pins listed out of order or twice,      *)
(* drivers given twice, for no pin or not at all, and the configuration of *)
(* the repository's test.                                                  *)
(***************************************************************************)
EXTENDS PinsSketch

Free == <<Abilities>>
Reader == <<{"read"}>>
Writer == <<{"write"}>>
None == <<>>

Shuffled == [pins |-> <<9, 2, 0>>,
             drivers |-> <<[pin |-> 2, digital |-> Free, analog |-> None],
                           [pin |-> 0, digital |-> Writer, analog |-> Reader],
                           [pin |-> 7, digital |-> Free, analog |-> Free]>>]
Repeated == [pins |-> <<2, 0, 2>>,
             drivers |-> <<[pin |-> 2, digital |-> Writer, analog |-> Free],
                           [pin |-> 2, digital |-> Reader, analog |-> None],
                           [pin |-> 0, digital |-> None, analog |-> Writer]>>]
Test == [pins |-> <<0, 2>>,
         drivers |-> <<[pin |-> 0, digital |-> Reader, analog |-> Reader],
                       [pin |-> 2, digital |-> Writer, analog |-> Writer]>>]

AllConfs == {Shuffled, Repeated, Test}
SomeNumbers == {-1, 0, 2, 7, 9, 65538}
===============================================================================
