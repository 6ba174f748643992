--------------------------- MODULE MCDownloadCacher ---------------------------
(***************************************************************************)
(* Instances of DownloadCacher for TLC: processes p, q and r.              *)
(***************************************************************************)
EXTENDS DownloadCacher

CONSTANTS p, q, r
===============================================================================
