---------------------------- MODULE MCThreadPool ----------------------------
(* Bounds for TLC.                                                         *)
EXTENDS ThreadPool

CONSTANTS w1, w2, w3, c1, c2, t1, t2, t3
=============================================================================
