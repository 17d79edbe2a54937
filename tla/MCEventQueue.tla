---------------------------- MODULE MCEventQueue ----------------------------
(* A small instance of EventQueue for TLC.                                 *)
EXTENDS EventQueue, TLC

MCKeys == {-1, 0, 1}
Symmetry == Permutations(Devices)
=============================================================================
