-------------------------- MODULE MCConnectionLists -------------------------
(* Small instances of ConnectionLists for TLC.                             *)
EXTENDS ConnectionLists, TLC

CONSTANT FirstNet

ASSUME FirstNetAssumption == FirstNet \in Nets

\* Nets can be exchanged for one another, so that the source of device 1 can be
\* any given net; the others stay interchangeable.
Symmetry == Permutations(Nets \ {FirstNet})

\* Three resistors, or two and a mos; at most one port and one power, since more
\* make fewer dead ends.
AtMostOne == {{}} \cup {{n} : n \in Nets}
MCInit ==
    /\ resistors \in {1 .. 2, 1 .. 3}
    /\ ports \in AtMostOne /\ power \in AtMostOne
    /\ \E source \in {s \in [Devices -> Nets] : s[1] = FirstNet},
          drain \in [Devices -> Nets], gate \in [Mos -> Nets] :
          net_v = [source |-> source, drain |-> drain,
                   gate |-> [d \in Devices |-> IF d \in Mos THEN gate[d] ELSE UNKNOWN_NET]]
    /\ Init
MCSpec == MCInit /\ [][Next]_vars
=============================================================================
