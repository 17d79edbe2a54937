------------------------------ MODULE MCPasses ------------------------------
(***************************************************************************)
(* Small circuits on two rails, a third power vh, an input and two         *)
(* internal nets, and the powers that may be defined for them.             *)
(***************************************************************************)
EXTENDS Passes

MCLeakLimit == <<1, 100>>

MCNets == <<"gnd", "vdd", "vh", "a", "b", "in">>

N(S, G, D) == [type |-> "NMOS", Vth |-> 3, resistance |-> 2, S |-> S, G |-> G, D |-> D, B |-> "gnd"]
P(S, G, D) == [type |-> "PMOS", Vth |-> -3, resistance |-> 2, S |-> S, G |-> G, D |-> D, B |-> "vdd"]
R(S, D) == [type |-> "RESISTOR", Vth |-> 0, resistance |-> 4, S |-> S, G |-> NoNet, D |-> D,
            B |-> NoNet]
Fuse(type, S, D) == [R(S, D) EXCEPT !.type = type]

Inverter(in, out) == <<N(out, in, "gnd"), P(out, in, "vdd")>>

-----------------------------------------------------------------------------
(* Circuits.                                                               *)

Diodes == <<N("a", "a", "vdd"), P("b", "b", "gnd"), N("vh", "b", "b"), P("in", "a", "a")>>

Plain ==
    Inverter("in", "a") \o Inverter("a", "b") \o Inverter("b", "a") \o
    <<N("a", "in", "b"), P("b", "gnd", "a"), R("a", "b"), R("b", "vdd"), R("gnd", "a"),
      R("a", "in"), P("b", "a", "vh"), N("b", "vdd", "vh")>>

\* Every three devices of a list, in its order.
Triples(list) ==
    LET at == DOMAIN list
    IN  UNION {{<<list[i], list[j], list[k]>> : k \in {m \in at : m > j}} :
                  <<i, j>> \in {t \in at \X at : t[1] < t[2]}}

\* a is low whatever the input is, through one or through two transistors; a is low and high.
Latches ==
    {Inverter("in", "b") \o <<N("a", "in", "gnd"), N("a", "b", "gnd"), P("a", "in", "vdd")>>,
     Inverter("in", "b") \o <<N("a", "vdd", "vh"), N("vh", "in", "gnd"), N("a", "b", "gnd"),
                              P("a", "in", "vdd")>>,
     Inverter("in", "b") \o Inverter("in", "a") \o Inverter("b", "a")}

\* The input is also an output.
Driven ==
    {Inverter("a", "in") \o <<R("in", "b"), P("b", "gnd", "a")>>,
     Inverter("a", "in") \o Inverter("in", "a"),
     Inverter("a", "in") \o <<N("in", "vh", "b"), N("a", "b", "gnd")>>}

\* A cut off power with its switch, and logic on it.
CutOff ==
    {<<P("vh", "a", "vdd")>> \o Inverter("in", "a") \o <<P("b", "in", "vh"), N("b", "in", "gnd")>>,
     <<P("vh", "b", "vdd")>> \o Inverter("in", "a") \o Inverter("a", "b"),
     <<P("a", "b", "vh"), N("a", "b", "gnd"), R("b", "vh"), N("b", "in", "gnd")>>}

\* Fuses, blown and not, between logic nets and at the input.
Fuses ==
    {Inverter("in", "a") \o <<Fuse(type, "a", "b"), N("vh", "b", "gnd")>> : type \in {"FUSE_ON", "FUSE_OFF"}}
    \cup {<<Fuse(type, "in", "a")>> \o Inverter("a", "b") : type \in {"FUSE_ON", "FUSE_OFF"}}

\* Voltage dividers.
Dividers ==
    {<<R("vdd", "in"), R("in", "gnd")>> \o Inverter("in", "b"),
     <<R("vdd", "a"), R("a", "in"), R("in", "b"), R("b", "gnd")>>,
     <<R("vdd", "in"), R("in", "a"), N("a", "vdd", "gnd")>>,
     <<R("vh", "a"), R("a", "in"), P("in", "b", "vdd"), R("in", "gnd")>>}

-----------------------------------------------------------------------------
(* Powers, and the database after LinkDevices.                             *)

Rail(v) ==
    [NewPower EXCEPT !.min = v, !.sim = v, !.max = v, !.power = TRUE, !.powerSignal = "power",
                     !.extra = TRUE]
Input(low, v, high) ==
    [NewPower EXCEPT !.min = low, !.sim = v, !.max = high, !.input = TRUE,
                     !.powerSignal = "input", !.extra = TRUE]
Open(v) ==
    [NewPower EXCEPT !.min = v, !.max = v, !.power = TRUE, !.hiz = TRUE, !.powerSignal = "open",
                     !.family = "cvc-noleak", !.extra = TRUE]

Resistor == [NewPower EXCEPT !.resistor = TRUE, !.powerSignal = "resistor", !.extra = TRUE]

Inputs == {Input(0, v, 12) : v \in {UNKNOWN_VOLTAGE, 0, 12}}

\* All nets are ports; sourceDrainType has the types of the devices at a net.
Database(devices, powers) ==
    LET nets == Range(MCNets)
        typesAt(n) == {devices[i].type : i \in {j \in DOMAIN devices : n \in {devices[j].S, devices[j].D}}}
        at(v) == [n \in nets |-> v]
        levels(v) == [l \in Levels |-> v]
        minMax(v) == [l \in {"min", "max"} |-> v]
    IN  [device |-> devices, order |-> MCNets, power |-> powers,
         list |-> SelectSeq(MCNets, LAMBDA n : n \in DOMAIN powers), dangling |-> {},
         next |-> levels([n \in nets |-> n]), res |-> levels(at(0)), backup |-> minMax(at(NoNet)),
         leak |-> <<>>, leakSet |-> FALSE, shared |-> {}, fixedSim |-> FALSE,
         inactive |-> levels({}), pending |-> levels({}),
         queue |-> levels([main |-> <<>>, delay |-> <<>>, start |-> FALSE]),
         status |-> at({}), depend |-> minMax(at(<<>>)), sdType |-> [n \in nets |-> typesAt(n)],
         inverter |-> at(NoNet), analog |-> {}, errors |-> {}, failed |-> ""]

Databases(circuits, vh, inputs) ==
    {Database(c, "gnd" :> Rail(0) @@ "vdd" :> Rail(12) @@ "vh" :> v @@ "in" :> i) :
        c \in circuits, v \in vh, i \in inputs}

\* Powers that are wholly defined, with diodes only where no power is open.
Complete ==
    Databases(Triples(Plain \o Diodes) \cup Latches \cup Fuses, {Rail(18)}, Inputs)
    \cup Databases(Driven, {Rail(18)}, {Input(3, v, 9) : v \in {UNKNOWN_VOLTAGE, 6}})
    \cup Databases(Dividers, {Rail(18)}, {Resistor})
    \cup Databases(Triples(Plain) \cup CutOff, {Open(12)}, Inputs)

\* The min voltage of the input is to be calculated.
Partial ==
    Databases(Triples(Plain \o Diodes), {Rail(18)}, {Input(UNKNOWN_VOLTAGE, UNKNOWN_VOLTAGE, 12)})

=============================================================================
