------------------------------ MODULE MCChecks ------------------------------
(* Circuits for Checks. *)
EXTENDS CheckDuality

-----------------------------------------------------------------------------
(* Nets and their voltages.                                                *)

NoLevels == [l \in Levels |-> NoNet]

Definition(n, min, sim, max) ==
    [min |-> min, sim |-> sim, max |-> max, power |-> FALSE, input |-> FALSE, hiz |-> FALSE,
     analog |-> FALSE, calculated |-> {}, default |-> NoLevels, family |-> "",
     relativeFriendly |-> TRUE, relativeSet |-> {}, powerSignal |-> n, powerAlias |-> "",
     active |-> {"min", "max"}]

Rail(n, v) == [Definition(n, v, v, v) EXCEPT !.power = TRUE]

\* The situations of a net: where its chains lead, its own power, if any, and the voltages
\* saved before the simulation, if any.
Chain(min, sim, max) ==
    [next |-> [min |-> min, sim |-> sim, max |-> max], own |-> <<>>, saved |-> <<>>]
Own(p) == [next |-> [min |-> "self", sim |-> "self", max |-> "self"], own |-> p,
           saved |-> [min |-> p.min, max |-> p.max]]

Situation(n, k) ==
    CASE k = "low" -> Chain("vss", "vss", "vss")
      [] k = "high" -> Chain("vdd", "vdd", "vdd")
      [] k = "swing" -> Chain("vss", "self", "vdd")
      [] k = "open" -> Chain("self", "self", "self")
      [] k = "pulled" -> Chain("vss", "self", "self")
      [] k = "input" -> Own([Definition(n, 0, UNKNOWN_VOLTAGE, 4) EXCEPT !.input = TRUE])
      [] k = "cut" -> Own([Definition(n, 4, UNKNOWN_VOLTAGE, 4) EXCEPT !.hiz = TRUE, !.power = TRUE])
      [] k = "through" -> Chain("d", "self", "d")
      [] k = "mid" -> Own([Definition(n, 2, 2, 3) EXCEPT !.calculated = {"min", "max"},
                              !.default = [NoLevels EXCEPT !.min = "vss", !.max = "vdd"]])
      [] k = "pumped" -> [Own([Definition(n, 0, UNKNOWN_VOLTAGE, 4) EXCEPT !.input = TRUE])
                             EXCEPT !.saved = [min |-> 0, max |-> 6]]
      [] k = "forgotten" -> [Chain("vdd", "self", "self") EXCEPT !.saved = [min |-> 4, max |-> 4]]
      [] k = "lifted" -> Chain("c", "self", "vdd")
      [] k = "enemy" -> Own([Rail(n, 4) EXCEPT !.family = "f", !.relativeFriendly = FALSE,
                                               !.relativeSet = {"vdd"}])

\* The circuit of situations: the rails and the nets of kinds.
Voltages(kinds) ==
    LET nets == {"vss", "vdd"} \cup DOMAIN kinds
        sit == [n \in DOMAIN kinds |-> Situation(n, kinds[n])]
        next == [l \in Levels |-> [n \in nets |->
                    IF n \in DOMAIN kinds /\ sit[n].next[l] # "self" THEN sit[n].next[l] ELSE n]]
        owned == {n \in DOMAIN kinds : sit[n].own # <<>>}
    IN  [power |-> [n \in {"vss", "vdd"} \cup owned |->
                       CASE n = "vss" -> Rail(n, 0) [] n = "vdd" -> Rail(n, 4)
                         [] OTHER -> sit[n].own],
         next  |-> next,
         res   |-> [l \in Levels |-> [n \in nets |-> IF next[l][n] = n THEN 0 ELSE 1]],
         backup |-> [l \in {"min", "max"} |-> next[l]],
         leak  |-> [n \in {"vss", "vdd"} \cup {m \in DOMAIN kinds : sit[m].saved # <<>>} |->
                       CASE n = "vss" -> [min |-> 0, max |-> 0] [] n = "vdd" -> [min |-> 4, max |-> 4]
                         [] OTHER -> sit[n].saved]]

NoModel == [maxVbg |-> UNKNOWN_VOLTAGE, maxVbs |-> UNKNOWN_VOLTAGE, maxVds |-> UNKNOWN_VOLTAGE,
            maxVgs |-> UNKNOWN_VOLTAGE, checkList |-> {}, diodeList |-> {}]
Limited == [maxVbg |-> 3, maxVbs |-> 3, maxVds |-> 3, maxVgs |-> 3,
            checkList |-> {[minExclusive |-> UNKNOWN_VOLTAGE, minInclusive |-> 0,
                            maxExclusive |-> UNKNOWN_VOLTAGE, maxInclusive |-> 3]},
            diodeList |-> {<<"B", "D">>, <<"B", "S">>}]

Device(type, s, g, d, b) ==
    [type |-> type, Vth |-> CASE IsNmos(type) -> 1 [] IsPmos(type) -> -1 [] OTHER -> 0,
     resistance |-> 2, S |-> s, G |-> g, D |-> d, B |-> b, model |-> Limited]

\* A circuit that is only its top block.
AllNets == <<"vss", "vdd", "a", "o", "b", "c", "d", "t">> \o [k \in 1 .. 20 |-> ToString(k)]
Nets(kinds) == {"vss", "vdd"} \cup DOMAIN kinds
FlatCircuit(kinds, dev) ==
    [db |-> Voltages(kinds), dev |-> dev,
     inverterNet |-> [n \in Nets(kinds) |-> NoNet],
     driver |-> [n \in Nets(kinds) |-> NoNet],
     highLow |-> [n \in Nets(kinds) |-> FALSE],
     order |-> SelectSeq(AllNets, LAMBDA n : n \in Nets(kinds)),
     parent |-> [i \in DOMAIN dev |-> 0],
     local |-> [i \in DOMAIN dev |-> <<"top", i>>],
     inst |-> [i \in {0} |-> [master |-> "top", parentId |-> 0, parallel |-> 0, first |-> 1,
                              firstDevice |-> 0, net |-> <<"vss">>]],
     errorLimit |-> [c \in {"top"} |-> UNKNOWN_DEVICE],
     expected |-> <<>>, inverterIO |-> <<>>, opposite |-> <<>>]

Parameters ==
    [overvoltageThreshold |-> 0, leakOvervoltage |-> TRUE, gateThreshold |-> 0,
     analogGates |-> TRUE, minVthGates |-> FALSE, vthGates |-> FALSE, logicDiodes |-> FALSE,
     biasThreshold |-> 0, forwardThreshold |-> 0, leakThreshold |-> 0, leakLimit |-> <<1, 10>>,
     floatingThreshold |-> 1, ignoreVthFloating |-> FALSE, ignoreNoLeakFloating |-> FALSE,
     expectedThreshold |-> 0, soi |-> FALSE, setup |-> FALSE, cellErrorLimitFile |-> FALSE,
     circuitErrorLimit |-> 3]

-----------------------------------------------------------------------------
(* Single devices in all situations: an NMOS, an LDDN and a capacitor with *)
(* diodes to its bulk, on the same nets.                                   *)

Kinds == {"low", "high", "swing", "open", "cut", "mid", "pumped", "forgotten"}

Terminal(pattern) ==
    CASE pattern = 1 -> <<"a", "b", "b", "c">> [] pattern = 2 -> <<"a", "b", "a", "c">>
      [] pattern = 3 -> <<"a", "b", "c", "a">> [] pattern = 4 -> <<"a", "b", "c", "vss">>
      [] pattern = 5 -> <<"vss", "a", "b", "c">> [] pattern = 6 -> <<"vdd", "a", "b", "c">>

DeviceCircuit(kinds, pattern, more) ==
    LET t == Terminal(pattern)
        types == <<"NMOS", "LDDN", "CAPACITOR">>
        c == FlatCircuit(kinds, [i \in 1 .. 3 |-> Device(types[i], t[1], t[2], t[3], t[4])] \o more)
    IN  [c EXCEPT !.expected = <<[net |-> "a", sim |-> <<"open">>, min |-> <<"volt", 1>>,
                                        max |-> <<"name", "vdd">>]>>]

\* A depletion device, or a device in parallel that is on, with and without another
\* connection at one end.
More(mode) ==
    LET on == Device("NMOS", "vss", "vdd", "b", "c")
    IN  CASE mode = "depletion" -> <<[Device("NMOS", "a", "b", "c", "vss") EXCEPT !.Vth = -1]>>
          [] mode = "tied" -> <<on>>
          [] mode = "parallel" -> <<on, Device("RESISTOR", "b", NoNet, "vdd", NoNet)>>
          [] OTHER -> <<>>

\* Setup mode, SOI, logic diodes and more devices for some of the circuits.
DeviceInit ==
    \E x, y \in Kinds \cup {"lifted"}, z \in Kinds \cup {"enemy"}, pattern \in 1 .. 6,
       mode \in {"normal", "setup", "soi", "depletion", "tied", "parallel"} :
        /\ mode # "normal" => pattern = 5 /\ z = "mid"
        /\ z = "enemy" => pattern = 5
        /\ pattern \in {2, 3, 6} => z \in {"low", "cut", "mid"}
        /\ "lifted" \in {x, y} => pattern \in {2, 5} /\ z = "mid"
        /\ LET changed == SelectSeq(<<x, y, z>>, LAMBDA k : k \in {"pumped", "forgotten"})
           IN  changed # <<>> => /\ Len(changed) = 1 /\ pattern \in {1, 4, 5} /\ mode = "normal"
                                 /\ z \in {"high", "mid", "pumped", "forgotten"}
        /\ Start(DeviceCircuit([a |-> x, b |-> y, c |-> z], pattern, More(mode)),
                 [Parameters EXCEPT !.setup = (mode = "setup"), !.soi = (mode = "soi"),
                                    !.logicDiodes = (mode = "soi")])

-----------------------------------------------------------------------------
(* Inverters: each of the nets a, b and c is an input or driven by an      *)
(* inverter; a transfer gate drives t from d, and t a load.                *)

InverterCircuit(driver, nGate, pGate) ==
    LET kinds == [n \in {"a", "b", "c"} |-> IF driver[n] = NoNet THEN "input" ELSE "swing"]
                     @@ [d |-> "swing", t |-> "through", o |-> "swing"]
        inverter(in, out) == <<Device("NMOS", "vss", in, out, "vss"),
                               Device("PMOS", "vdd", in, out, "vdd")>>
        driven == SelectSeq(<<"a", "b", "c">>, LAMBDA n : driver[n] # NoNet)
        dev == FlattenSeq([k \in DOMAIN driven |-> inverter(driver[driven[k]], driven[k])])
               \o <<Device("NMOS", "d", nGate, "t", "vss"), Device("PMOS", "d", pGate, "t", "vdd")>>
               \o inverter("t", "o")
        inv == [n \in Nets(kinds) |-> IF n \in DOMAIN driver THEN driver[n]
                                      ELSE IF n = "o" THEN "t" ELSE NoNet]
        c == FlatCircuit(kinds, dev)
    IN  [c EXCEPT !.inverterNet = inv, !.driver = inv, !.inverterIO = <<"o", "a">>,
                        !.opposite = <<<<nGate, pGate>>>>]

InverterInit ==
    \E driver \in [{"a", "b", "c"} -> {"a", "b", "c", NoNet}], n \in {"a", "b"}, p \in {"b", "c"} :
        /\ \A x \in {"a", "b", "c"} : driver[x] # x
        /\ Start(InverterCircuit(driver, n, p), Parameters)

-----------------------------------------------------------------------------
(* Hierarchies.                                                            *)

Call(master, nets) == [master |-> master, nets |-> nets]

\* cell: one NMOS from vss to an inner net; block: three cells, two of them in parallel.
\* From k = 3 on the cell has more ports than the limit: the inner net is one of them.
PortLimit == 3
Netlist(k) ==
    LET cell(n, m) == Call("cell", IF k < 3 THEN <<1, 2, n>> ELSE <<1, 2, n, m>>)
    IN  [cell |-> [ports |-> IF k < 3 THEN 3 ELSE 4, nets |-> 4, devices |-> 1, calls |-> <<>>],
         block |-> [ports |-> 3, nets |-> 4, devices |-> 0,
                    calls |-> <<cell(3, 4), cell(4, 3), cell(3, 4)>>],
         top |-> [ports |-> 0, nets |-> 4, devices |-> 0,
                  calls |-> CASE k \in {1, 3} -> <<Call("block", <<1, 2, 3>>), Call("block", <<1, 2, 4>>),
                                                  Call("block", <<1, 2, 3>>)>>
                              [] k = 2 -> <<cell(3, 4), Call("block", <<1, 2, 3>>), cell(4, 3),
                                            Call("block", <<1, 2, 3>>), Call("block", <<1, 2, 3>>)>>
                              [] k = 4 -> <<cell(3, 4), Call("block", <<1, 2, 3>>), cell(3, 4),
                                            Call("block", <<1, 2, 4>>)>>]]

NetName(n) == CASE n = 1 -> "vss" [] n = 2 -> "vdd" [] OTHER -> ToString(n)

HierarchyCircuit(netlist, limit, x, y, inner) ==
    LET table == AssignTopGlobalIDs(netlist, limit)
        expanded == {i \in DOMAIN table.inst : table.inst[i].net # <<>>}
        kinds == [n \in {NetName(m) : m \in 3 .. table.netCount} |->
                     CASE n = "3" -> x [] n = "4" -> y [] OTHER -> inner]
        cells == {i \in expanded : table.inst[i].master = "cell"}
        owner == [d \in 1 .. table.deviceCount |->
                     CHOOSE i \in cells : table.inst[i].firstDevice = d - 1]
        net(i, n) == NetName(table.inst[i].net[n])
        dev == [d \in 1 .. table.deviceCount |->
                   Device("NMOS", "vss", net(owner[d], 3), net(owner[d], 4), "vss")]
        c == FlatCircuit(kinds, dev)
    IN  [c EXCEPT !.parent = owner, !.inst = table.inst,
                  !.local = [d \in DOMAIN dev |-> <<"cell", 1>>],
                  !.errorLimit = [m \in DOMAIN netlist |-> UNKNOWN_DEVICE]]

HierarchyInit ==
    \E k \in 1 .. 4, x \in {"high", "open"}, inner \in {"swing", "high"}, limit \in 0 .. 4,
       cells \in {[cell |-> 0], [cell |-> 1], [block |-> 1], [cell |-> 2], <<>>} :
        LET shared == HierarchyCircuit(Netlist(k), PortLimit, x, "swing", inner)
            more == [flat |-> HierarchyCircuit(Netlist(k), 0, x, "swing", inner),
                     counted |-> CountObjectsAndLinkSubcircuits(Netlist(k)),
                     wide |-> {m \in DOMAIN Netlist(k) : Netlist(k)[m].ports > PortLimit}]
            limited == [shared EXCEPT !.errorLimit = [m \in DOMAIN @ |->
                           IF m \in DOMAIN cells THEN cells[m] ELSE UNKNOWN_DEVICE]]
        IN  /\ cells # <<>> => limit = 3
            /\ Start(limited @@ more,
                     [Parameters EXCEPT !.circuitErrorLimit = limit,
                                        !.cellErrorLimitFile = cells # <<>>])

MCInit == HierarchyInit \/ InverterInit \/ DeviceInit

MCSpec == MCInit /\ [][Next]_vars

=============================================================================
