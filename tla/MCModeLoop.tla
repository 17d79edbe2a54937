----------------------------- MODULE MCModeLoop -----------------------------
(* Small instances of ModeLoop for TLC.                                    *)
EXTENDS ModeLoop

\* Two programs with one report in common.
TwoPrograms == [p \in Processes |-> IF p = "p" THEN <<"r", "s">> ELSE <<"r">>]
=============================================================================
