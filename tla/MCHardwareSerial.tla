--------------------------- MODULE MCHardwareSerial ---------------------------
(***************************************************************************)
(* Instance of HardwareSerial for TLC: texts of one and three bytes.        *)
(***************************************************************************)
EXTENDS HardwareSerial

Short == {<<7>>, <<7, 7, 7>>}
===============================================================================
