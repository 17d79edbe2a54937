----------------------------- MODULE LogicPower -----------------------------
(***************************************************************************)
(* Voltages set between the propagations (CCvcDb_init.cc): the gates of    *)
(* the switches of a power that is cut off (SCRC: a Hi-Z power with equal  *)
(* min and max), the logic nets supplied by one, and the outputs that are  *)
(* driven to the same power whatever a latch holds.                        *)
(***************************************************************************)
EXTENDS SimPropagation

\* CPower(net, sim voltage): a voltage without a source.
NewSimPower(v, signal, alias) ==
    [NewPower EXCEPT !.sim = v, !.flagAllShorts = TRUE, !.calc.sim = "ESTIMATED",
                     !.extra = TRUE, !.powerSignal = signal, !.powerAlias = alias]

HasSim(s, n) == HasPower(s, n) /\ Known(s.power[n].sim)

-----------------------------------------------------------------------------
(* SCRC.                                                                   *)

\* The net that decides the gate net n, through the inverters before it, and whether it is
\* to be high.  The walk has no other end: a ring of inverters keeps it forever.
RECURSIVE ParentNet(_, _, _, _)
ParentNet(s, n, isHigh, seen) ==
    IF n \in seen THEN [net |-> "loop", high |-> isHigh]
    ELSE IF s.inverter[n] = NoNet \/ HasSim(s, n) THEN [net |-> n, high |-> isHigh]
    ELSE ParentNet(s, s.inverter[n], ~ isHigh, seen \cup {n})

\* SetSCRCParentPower: the net behind the gate of d gets the voltage that turns d off.
SetSCRCParentPower(s, d) ==
    LET parent == ParentNet(s, s.device[d]["G"], IsPmos(s.device[d].type), {})
        l == IF parent.high THEN "max" ELSE "min"
        p == MasterPower(s, l, parent.net)
    IN  IF parent.net = "loop" THEN Fail(s, "inverters loop")
        ELSE IF \/ HasSim(s, parent.net)
                \/ p = NoNet
                \/ ~ Known(s.power[p][l]) \/ s.power[p].hiz
                \/ HasPower(s, parent.net)
        THEN s
        ELSE AddPower(s, parent.net, NewSimPower(s.power[p][l], "SCRC_EXPECTED", ""))

\* The devices of a net whose gates SetSCRCGatePower sets: all the switches to another
\* power (isSwitch), or the devices to an SCRC power.
SCRCDevices(s, n, t, isSwitch) ==
    SelectSeq(Attached(s, t, n), LAMBDA d :
        LET far == s.device[d][OtherEnd(t)]
        IN  /\ IsMos(s.device[d].type) /\ HasPower(s, far) /\ n # s.device[d]["G"]
            /\ ~ (isSwitch /\ IsRelatedPower(s, "sim", n, "sim", far, FALSE, FALSE))
            /\ s.power[far].power /\ (isSwitch \/ IsSCRC(s, far)))

SetSCRCGatePower(s, n, t, isSwitch) ==
    Each(SetSCRCParentPower, s, SCRCDevices(s, n, t, isSwitch))

IsSCRCLogicNet(s, n) ==
    LET low == MasterPower(s, "min", n)
        high == MasterPower(s, "max", n)
    IN  /\ low # NoNet /\ high # NoNet
        /\ s.power[low].hiz # s.power[high].hiz
        /\ "min" \notin s.power[low].calculated /\ "max" \notin s.power[high].calculated
        /\ s.sdType[n] = {"NMOS", "PMOS"}
        /\ IsSCRC(s, low) # IsSCRC(s, high)

\* A logic net none of whose gates can be set takes the voltage of its other power.
SetSCRCLogicNet(s, n) ==
    LET low == MasterPower(s, "min", n)
        high == MasterPower(s, "max", n)
        v == IF IsSCRC(s, low) THEN s.power[high].max ELSE s.power[low].min
        drains == SetSCRCGatePower(s, n, "D", FALSE)
    IN  IF ~ IsSCRCLogicNet(s, n) THEN s
        ELSE IF SCRCDevices(s, n, "D", FALSE) \o SCRCDevices(drains, n, "S", FALSE) # <<>>
        THEN SetSCRCGatePower(drains, n, "S", FALSE)
        ELSE IF HasPower(s, n) THEN s
        ELSE AddPower(s, n, NewSimPower(v, "SCRC_FORCED", ""))

SetSCRCPower(s) ==
    LET switches(r, n) == IF ~ r.power[n].hiz THEN r
                          ELSE SetSCRCGatePower(SetSCRCGatePower(r, n, "D", TRUE), n, "S", TRUE)
    IN  IF s.dangling # {} THEN Fail(s, "deleted power used")
        ELSE Each(SetSCRCLogicNet, Each(switches, s, s.list), s.order)

-----------------------------------------------------------------------------
(* Latches.                                                                *)

MaxLatchDeviceCount == 6

\* GetSeriesConnectedDevice: the only other device at net n, of the same type, or 0.
GetSeriesConnectedDevice(s, d, n) ==
    LET skipped == {"SWITCH_OFF", "FUSE_OFF", "CAPACITOR", "DIODE", "BIPOLAR"}
        others == SelectSeq(Attached(s, "D", n) \o Attached(s, "S", n), LAMBDA e :
                      e # d /\ s.device[e].type \notin skipped)
    IN  IF Len(others) = 1 /\ s.device[others[1]].type = s.device[d].type THEN others[1] ELSE 0

\* What FindLatchDevices records for d, at its end t: the net and the gate that decide,
\* those of d or, when d is on, those of the device behind it; "none" when d is passed over.
LatchDevice(s, d, t, low, high) ==
    LET last(n) == FinalNet(s.next.sim, n)
        dev == s.device[d]
        far == dev[OtherEnd(t)]
        p == MasterPower(s, "sim", dev["G"])
        gate == IF p # NoNet /\ "sim" \notin s.power[p].calculated THEN s.power[p].sim
                ELSE UNKNOWN_VOLTAGE
        isOn == IF IsNmos(dev.type) THEN gate >= high ELSE gate <= low
        behind == GetSeriesConnectedDevice(s, d, last(far))
        outer == s.device[behind]
        none == [source |-> NoNet, gate |-> NoNet, id |-> 0]
    IN  IF (far = dev["G"] /\ HasPower(s, far)) \/ ~ IsMos(dev.type) THEN none
        ELSE IF ~ Known(gate) THEN [source |-> last(far), gate |-> last(dev["G"]), id |-> d]
        ELSE IF isOn /\ behind # 0
        THEN [source |-> last(outer[IF last(outer["S"]) = last(far) THEN "D" ELSE "S"]),
              gate |-> last(outer["G"]), id |-> behind]
        ELSE none

FindLatchDevices(s, n, channel, low, high) ==
    LET isOfType(type) == IF channel = "NMOS" THEN IsNmos(type) ELSE IsPmos(type)
        found(t) == [i \in DOMAIN Attached(s, t, n) |->
                        LatchDevice(s, Attached(s, t, n)[i], t, low, high)]
    IN  SelectSeq(found("D") \o found("S"), LAMBDA r : r.id # 0 /\ isOfType(s.device[r.id].type))

IsOppositeLogic(s, a, b) == s.inverter[a] = b \/ a = s.inverter[b]

\* The devices that, with a later one, connect the same voltage through opposite gates.
LatchPairs(s, data) ==
    {i \in DOMAIN data : \E j \in DOMAIN data :
        /\ i < j
        /\ HasSim(s, data[i].source) /\ HasSim(s, data[j].source)
        /\ s.power[data[i].source].sim = s.power[data[j].source].sim
        /\ IsOppositeLogic(s, data[i].gate, data[j].gate)}

\* The voltage both settings of a latch give, the alias of its power and a device: those
\* of the last such pair.
LastPair(s, data, pairs) ==
    LET last == data[CHOOSE i \in pairs : \A j \in pairs : j <= i]
    IN  IF pairs = {} THEN [v |-> UNKNOWN_VOLTAGE, alias |-> "", id |-> 0]
        ELSE [v |-> s.power[last.source].sim, alias |-> s.power[last.source].powerAlias,
              id |-> last.id]

LatchVoltage(s, data) == LastPair(s, data, LatchPairs(s, data))

\* Mutant: a net that has a simulated voltage stays in the next passes.
IgnoredByLatchesUnlessLinked(s, pass, n) ==
    \/ pass = 1 /\ (s.sdType[n] # {"NMOS", "PMOS"} \/ SourceDrainCount(s, n) > MaxLatchDeviceCount)
    \/ FinalNet(s.next.sim, n) # n

\* The nets SetLatchPower leaves alone from now on.
IgnoredByLatches(s, pass, n) ==
    \/ pass = 1 /\ (s.sdType[n] # {"NMOS", "PMOS"} \/ SourceDrainCount(s, n) > MaxLatchDeviceCount)
    \/ FinalNet(s.next.sim, n) # n
    \/ HasSim(s, n)

\* The net n is driven to the voltages of nmos and pmos by its latch devices; r has the
\* database (s), the ignored nets and the new nets.
HoldNet(r, n, nmos, pmos) ==
    LET s == r.s
        held == IF Known(nmos.v) THEN nmos ELSE pmos
    IN  IF ~ Known(held.v) THEN r
        ELSE IF Known(nmos.v) /\ Known(pmos.v) /\ nmos.v # pmos.v
        THEN [r EXCEPT !.s = Report(s, "LEAK", nmos.id)]
        ELSE IF HasSim(s, n) THEN [r EXCEPT !.s = Fail(s, "latch voltage set twice")]
        ELSE [r EXCEPT !.newNets = @ \cup {n},
                       !.s = IF HasPower(s, n)
                             THEN SetPower(s, n, [s.power[n] EXCEPT !.sim = held.v])
                             ELSE AddPower(s, n, NewSimPower(held.v, held.alias, held.alias))]

HoldBetween(r, n, low, high) ==
    LET held(channel) == LatchVoltage(r.s, FindLatchDevices(r.s, n, channel, low, high))
    IN  IF Known(low) THEN HoldNet(r, n, held("NMOS"), held("PMOS")) ELSE r

\* One net of SetLatchPower, between the voltages of its rails: the other one's where one
\* is missing.
SetLatchNet(r, pass, n) ==
    LET rail(l) == LET p == MasterPower(r.s, l, n)
                   IN  IF p # NoNet /\ r.s.power[p].power THEN r.s.power[p][l] ELSE UNKNOWN_VOLTAGE
    IN  IF n \in r.ignored \/ IgnoredByLatches(r.s, pass, n)
        THEN [r EXCEPT !.ignored = @ \cup {n}]
        ELSE HoldBetween(r, n, IF Known(rail("min")) THEN rail("min") ELSE rail("max"),
                         IF Known(rail("max")) THEN rail("max") ELSE rail("min"))

SetLatchPower(s, pass, ignored) ==
    FoldLeft(LAMBDA r, n : SetLatchNet(r, pass, n),
             [s |-> s, ignored |-> ignored, newNets |-> {}], s.order)

=============================================================================
