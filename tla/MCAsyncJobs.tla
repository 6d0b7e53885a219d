---------------------------- MODULE MCAsyncJobs -----------------------------
(* Bounds for TLC.                                                         *)
EXTENDS AsyncJobs

CONSTANTS w1, w2, j1, j2, j3, x1, x2, x3
=============================================================================
