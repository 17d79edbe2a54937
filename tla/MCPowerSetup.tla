---------------------------- MODULE MCPowerSetup ----------------------------
(* Small instances of PowerSetup for TLC.  Voltages are 0, 1 and 2.        *)
EXTENDS PowerSetup, TLC

U == UNKNOWN_VOLTAGE

\* The definition of a line.
Def(type, hiz, min, sim, max, expectedSim, family, of) ==
    [type |-> type, hiz |-> hiz, min |-> min, sim |-> sim, max |-> max,
     expectedSim |-> expectedSim, family |-> family, relativeFriendly |-> TRUE, of |-> of]

Line(def, signal, nets, plain) ==
    def @@ [signal |-> signal, nets |-> nets, plain |-> plain, macro |-> FALSE, alpha |-> plain]

Define(def, signal) == [Line(def, signal, {}, TRUE) EXCEPT !.macro = TRUE]

vdd == Def("power", FALSE, 2, 2, 2, U, "", "")
input == Def("input", FALSE, 1, 1, 1, U, "", "")
net == Def("none", FALSE, 0, 0, 0, U, "", "")
open == Def("none", TRUE, 0, U, 2, U, "", "")
low == Def("none", FALSE, 0, U, U, U, "", "")
high == Def("none", FALSE, U, U, 2, U, "", "")
higher == Def("none", FALSE, U, U, 1, U, "", "")
middle == Def("none", FALSE, U, 1, U, U, "f", "")
expected == Def("none", FALSE, 0, U, U, 1, "", "")
other == Def("none", FALSE, U, U, U, 2, "", "")
macro == Def("input", FALSE, U, U, U, U, "", "m")

\* Signals that are not macro names.
At(def, nets) == Line(def, "*", nets, FALSE)

File(lines, instances) ==
    [lines |-> lines, instances |-> instances, families |-> [f |-> {"a", "b"}],
     autoMacro |-> TRUE, opens |-> TRUE]

Instance(lines) == [lines |-> lines, read |-> <<>>]

Unopened == [File(<<>>, <<>>) EXCEPT !.opens = FALSE]

Pairs == {<<a, b>> \in Nets \X Nets : a < b}

\* Not a definition: the line is read and not listed.
none == Def("none", FALSE, U, U, U, U, "", "")

\* One definition, or none, at each net (two at the last one), and any switches.
Single ==
    {[files |-> {File([k \in 1 .. NetCount |-> At(d[k - 1], {k - 1})], <<>>)},
      switches |-> Pairs, topNets |-> {}, maxLoads |-> 1, maxRepeats |-> 0] :
     d \in {f \in [Nets -> {vdd, input, net, open, none}] : f[NetCount - 1] \in {net, none}}}

\* Up to three lines for the same nets, or for a net that is not found.
Overlapping ==
    {[files |-> {File(lines, <<>>), Unopened}, switches |-> {<<1, 2>>}, topNets |-> {},
      maxLoads |-> 1, maxRepeats |-> 1] :
     lines \in UNION {[1 .. k -> {At(v, nets) : v \in {low, high, higher, middle, expected, other},
                                               nets \in {{0}, {0, 1}}}] : k \in 1 .. 3}
                \cup {<<At(low, {})>>, <<At(other, {})>>}}

\* Instances: their powers are macros, their inputs are expected, the rest is set.
PowerLines ==
    {Line(vdd, "V", {0}, TRUE), Line(vdd, "V", {1}, TRUE), At(vdd, {3}), Line(macro, "A", {1}, TRUE),
     [Line(macro, "A", {1}, TRUE) EXCEPT !.of = "V"], At(input, {1, 2}), At(low, {1, 2})}

Instances ==
    {[files |-> {File(<<Line(vdd, "VDD", {0}, TRUE), Define(input, "m")>>, <<Instance(lines)>>),
                 File(<<Line(vdd, "VDD", {2}, TRUE), Line(open, "VDD", {1}, TRUE),
                        At(macro, {1})>>, <<>>),
                 File(<<Define(net, "m"), At(macro, {2}), At(other, {2})>>, <<>>)},
      switches |-> {<<0, 2>>, <<1, 3>>}, topNets |-> {"VDD"}, maxLoads |-> 2, maxRepeats |-> 0] :
     lines \in UNION {[1 .. k -> PowerLines] : k \in 1 .. 2}}

\* What the bound on the drift of the voltages needs of the files.
ASSUME MarginAssumption == VoltagesHaveMargin

MCCircuits == Single \cup Overlapping \cup Instances
=============================================================================
