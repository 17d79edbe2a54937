---------------------------- MODULE MCMinMaxLoop ----------------------------
(* A small instance of MinMaxLoop for TLC.                                 *)
EXTENDS MinMaxLoop
=============================================================================
