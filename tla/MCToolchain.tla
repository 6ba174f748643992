------------------------------ MODULE MCToolchain ------------------------------
(***************************************************************************)
(* Instances of Toolchain for TLC: threads t and u; sketches a and b, and  *)
(* c, which is a copy of a.                                                *)
(***************************************************************************)
EXTENDS Toolchain

CONSTANTS t, u, a, b, c

Anywhere == SUBSET {"path", "bundled"}
NoCopies == [s \in {} |-> a]
CopyOfA == [s \in {c} |-> a]
Everything == [th \in Threads |-> Sketches]
ItsOwn == [th \in Threads |-> IF th = t THEN {a} ELSE {b}]
===============================================================================
