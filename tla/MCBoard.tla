------------------------------- MODULE MCBoard -------------------------------
(***************************************************************************)
(* Instance of Board for TLC: a sketch generated for a device and one that *)
(* needs none, a configuration with the device and one without.            *)
(***************************************************************************)
EXTENDS Board

CONSTANTS s1, s2, c1, c2, d

MCRequired == [s \in Sketches |-> IF s = s1 THEN {d} ELSE {}]
MCProvided == [c \in Confs |-> IF c = c1 THEN {d} ELSE {}]
==============================================================================
