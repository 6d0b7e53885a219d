----------------------------- MODULE MCHttpLoop -----------------------------
(* Bounds for TLC.                                                         *)
EXTENDS HttpLoop

CONSTANTS r1, r2, r3, r4, r5
=============================================================================
