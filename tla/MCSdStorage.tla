------------------------------ MODULE MCSdStorage ------------------------------
(***************************************************************************)
(* Instances of SdStorage for TLC: a file a, a directory d and a file in   *)
(* it, File variables v and w.                                             *)
(***************************************************************************)
EXTENDS SdStorage

CONSTANTS v, w, a, d

Tree == {<<d>>, <<d, a>>}
OneFile == {<<a>>}

\* File variables are interchangeable; no liveness is checked here.
HandleSymmetry == Permutations(Handles)
===============================================================================
