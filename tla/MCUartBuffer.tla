----------------------------- MODULE MCUartBuffer -----------------------------
(***************************************************************************)
(* Instances of UartBuffer for TLC: h1 and h2 are threads of the host, k   *)
(* is the sketch's.                                                        *)
(***************************************************************************)
EXTENDS UartBuffer

CONSTANTS h1, h2, k
=============================================================================
