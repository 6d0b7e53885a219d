------------------------------ MODULE MCQzmq ------------------------------
(* Instances of Qzmq for TLC. *)
EXTENDS Qzmq

\* Of one part, and of two.
MCMessages == {<<"a">>, <<"b", "c">>}
=============================================================================
