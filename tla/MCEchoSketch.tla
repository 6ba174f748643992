----------------------------- MODULE MCEchoSketch -----------------------------
(***************************************************************************)
(* The sketch of the repository's UART test, for TLC.                      *)
(***************************************************************************)
EXTENDS EchoSketch

NoTexts == {}
===============================================================================
