---------------------------- MODULE MCModelLists ----------------------------
(* Small instances of ModelLists for TLC.                                  *)
EXTENDS ModelLists, TLC

Symmetry == Permutations(Models)

\* Three devices without a prompt; with one, two that differ.
TwoAtPrompt == interactive => match[3] = match[2]
=============================================================================
