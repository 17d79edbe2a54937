------------------------------ MODULE NetChecks -----------------------------
(***************************************************************************)
(* The checks that look at the devices around a net: floating inputs       *)
(* (FindFloatingInputErrors, CFullConnection::IsPossibleHiZ,               *)
(* HasParallelShort), inverters with different input and output powers     *)
(* (CheckInverterIO), nets that should be opposite (CheckOppositeLogic),   *)
(* bulk connections (CheckConnections) and expected levels                 *)
(* (CheckExpectedValues).                                                  *)
(*                                                                         *)
(* A circuit ckt has the db of Connections, its devices (dev, by number),  *)
(* and for each net the input of the inverter that drives it (inverterNet, *)
(* NoNet if there is none) and highLow of SetInverters.  order is the      *)
(* sequence of the nets.  The lists of LinkDevices are sets here; a list   *)
(* starts with its highest device.                                         *)
(***************************************************************************)
EXTENDS DeviceChecks, SequencesExt

NoDevice == 0

IsResistor(type) == type \in {"RESISTOR", "FUSE_ON", "FUSE_OFF"}

\* A device whose source is its drain is in no list.
Listed(ckt) == {i \in DOMAIN ckt.dev : ckt.dev[i].S # ckt.dev[i].D}
ListedMos(ckt) == {i \in Listed(ckt) : IsMos(ckt.dev[i].type)}
Conducting(ckt) == ListedMos(ckt) \cup {i \in Listed(ckt) : IsResistor(ckt.dev[i].type)}
Sources(ckt, n) == {i \in Conducting(ckt) : ckt.dev[i].S = n}
Drains(ckt, n) == {i \in Conducting(ckt) : ckt.dev[i].D = n}
Gates(ckt, n) == {i \in ListedMos(ckt) : ckt.dev[i].G = n}
SourcesAndDrains(ckt, n) == Sources(ckt, n) \cup Drains(ckt, n)
SourceDrainCount(ckt, n) == Cardinality(Sources(ckt, n)) + Cardinality(Drains(ckt, n))

First(devices) == CHOOSE i \in devices : \A j \in devices : j <= i

OppositeNet(d, n) == IF d.S = n THEN d.D ELSE d.S

-----------------------------------------------------------------------------
(* Floating inputs.                                                        *)

IsFloatingGate(db, c) ==
    \E l \in {"min", "max"} : ~ Known(c.volt[l]["G"]) \/ IsHiZ(db, c.power[l]["G"])

\* The origin of a gate net, for a P channel device; the sign is turned for an N channel
\* device.
Origin(ckt, n) ==
    IF ckt.inverterNet[n] = NoNet THEN <<"+", n>>
    ELSE <<IF ckt.highLow[n] THEN "+" ELSE "-", ckt.inverterNet[n]>>
InvertedOrigin(ckt, n) ==
    LET o == Origin(ckt, n) IN <<IF o[1] = "+" THEN "-" ELSE "+", o[2]>>

IsTransferGate(ckt, nmos, pmos) ==
    Origin(ckt, ckt.dev[pmos].G) = InvertedOrigin(ckt, ckt.dev[nmos].G)

\* The nets between the gate net and the end of its chain at this level.
Between(next, n) == Path(next, next[n]) \ {FinalNet(next, n)}

\* A transfer gate or a clocked inverter drives the gate net.
IsPossibleHiZ(ckt, c) ==
    LET g == c.id["G"]
        db == ckt.db
        drivers == SourcesAndDrains(ckt, g)
        ofType(ds, is(_)) == {i \in ds : is(ckt.dev[i].type)}
        stack(level, is(_)) ==     \* the devices of the chain, or {} if it branches
            \A n \in Between(db.next[level], g) :
                /\ SourceDrainCount(ckt, n) = 2
                /\ \A i \in SourcesAndDrains(ckt, n) : is(ckt.dev[i].type)
        all == drivers \cup UNION {SourcesAndDrains(ckt, n) :
                   n \in Between(db.next.max, g) \cup Between(db.next.min, g)}
        pmosInputs == {Origin(ckt, ckt.dev[i].G) : i \in ofType(all, IsPmos)}
    IN  /\ SourceDrainCount(ckt, g) <= 10
        /\ ~ (HasPower(db, g) /\ db.power[g].input)
        /\ ofType(drivers, IsResistor) = {}
        /\ Cardinality(ofType(drivers, IsNmos)) = 1
        /\ Cardinality(ofType(drivers, IsPmos)) = 1
        /\ IF db.next.min[g] = db.next.max[g]
           THEN \E n \in ofType(drivers, IsNmos), p \in ofType(drivers, IsPmos) :
                    IsTransferGate(ckt, n, p)
           ELSE /\ stack("max", IsPmos) /\ stack("min", IsNmos)
                /\ \E n \in ofType(all, IsNmos) :
                      /\ InvertedOrigin(ckt, ckt.dev[n].G) \in pmosInputs
                      /\ ~ Known(NetVoltage(db, "sim", ckt.dev[n].G))

\* HasParallelShort: a parallel device of the same polarity is on.  The drain is the pin
\* with fewer connections.
HasParallelShort(ckt, i) ==
    LET d == ckt.dev[i]
        drain == IF SourceDrainCount(ckt, d.D) < SourceDrainCount(ckt, d.S) THEN d.D ELSE d.S
        source == OppositeNet(d, drain)
    IN  \E j \in SourcesAndDrains(ckt, drain) \ {i} :
            LET e == ckt.dev[j]
                gate == NetVoltage(ckt.db, "sim", e.G)
            IN  /\ IsNmos(e.type) = IsNmos(d.type) /\ IsPmos(e.type) = IsPmos(d.type)
                /\ OppositeNet(e, drain) = source
                /\ Known(gate)
                /\ IF IsNmos(d.type) THEN gate > NetVoltage(ckt.db, "min", source) + e.Vth
                                     ELSE gate < NetVoltage(ckt.db, "max", source) + e.Vth

\* The first pass: floating and possibly floating gate nets.
IsFloatingInput(ckt, prm, i, c, leak, physically) ==
    /\ ~ Known(c.volt.sim["G"])
    /\ IsFloatingGate(ckt.db, c) \/ IsPossibleHiZ(ckt, c)
    /\ ~ (prm.ignoreVthFloating /\ IsAlwaysOff(ckt.db, c))
    /\ ~ (~ leak /\ prm.ignoreNoLeakFloating /\ physically)
    /\ ~ (HasParallelShort(ckt, i) /\ (prm.ignoreNoLeakFloating \/ ~ physically))
    /\ leak \/ physically

FloatingInput(ckt, prm, i, c) ==
    IsFloatingInput(ckt, prm, i, c, HasLeakPath(ckt.db, prm, c),
                    SourceDrainCount(ckt, ckt.dev[i].G) = 0)

\* The devices it makes inactive: their gates are floating, not only possibly so.
MadeInactive(ckt) ==
    {i \in ListedMos(ckt) :
        LET c == MapDeviceNets(ckt.db, ckt.dev[i])
        IN  ~ Known(c.volt.sim["G"]) /\ IsFloatingGate(ckt.db, c)}

HasActiveConnections(ckt, inactive, n) == SourcesAndDrains(ckt, n) \ inactive # {}

\* The second pass: nets that only inactive devices drive.
SecondaryFloatingInput(ckt, prm, inactive, i, c) ==
    LET g == ckt.dev[i].G
    IN  /\ ~ Known(NetVoltage(ckt.db, "sim", g))
        /\ ~ (HasPower(ckt.db, g) /\ ckt.db.power[g].input)
        /\ ~ HasActiveConnections(ckt, inactive, g)
        /\ ~ IsFloatingGate(ckt.db, c)
        /\ ~ HasParallelShort(ckt, i)
        /\ HasLeakPath(ckt.db, prm, c)

-----------------------------------------------------------------------------
(* Inverters.                                                              *)

\* IsOnGate: a device of the given polarity whose gate is a power that keeps it on.
IsOnGate(ckt, d, power) ==
    /\ IsPower(ckt.db, d.G)
    /\ IF IsNmos(d.type) THEN ckt.db.power[d.G].min > ckt.db.power[power].min
                         ELSE ckt.db.power[d.G].max < ckt.db.power[power].max

\* GetNextInSeries keeps the devices whose source is their drain (the test of the code is
\* sourceNet_v != drainNet_v) and fails at the second entry; such a device would be in
\* both lists.  It never finds a device.
GetNextInSeries(ckt, i, n) ==
    LET found == {e \in {"S", "D"} \X (DOMAIN ckt.dev \ {i}) :
                     /\ ckt.dev[e[2]][e[1]] = n
                     /\ e[2] \in Conducting(ckt)
                     /\ ckt.dev[e[2]].S = ckt.dev[e[2]].D}
    IN  IF Cardinality(found) = 1 THEN (CHOOSE e \in found : TRUE)[2] ELSE NoDevice

\* FindUniqueMosInputs for one device at the output: the input it stands for, or "fail".
MosInput(ckt, i, out, end) ==
    LET d == ckt.dev[i]
        far == OppositeNet(d, out)
        next == GetNextInSeries(ckt, i, far)
    IN  IF far = end THEN d.G
        ELSE IF /\ IsOnGate(ckt, d, end)
                /\ next # NoDevice
                /\ OppositeNet(ckt.dev[next], far) = end
             THEN ckt.dev[next].G
        ELSE "fail"

\* The devices of a list whose channel is that of an NMOS, or of a PMOS.
OfChannel(ckt, devices, channel) ==
    {i \in devices : IF channel = "NMOS" THEN IsNmos(ckt.dev[i].type) ELSE IsPmos(ckt.dev[i].type)}

FindUniqueMosInputs(ckt, out, channel, end) ==
    {MosInput(ckt, i, out, end) : i \in OfChannel(ckt, SourcesAndDrains(ckt, out), channel)}

UniqueInput(nmos, pmos) ==
    IF nmos = pmos /\ Cardinality(nmos) = 1 /\ "fail" \notin nmos
    THEN CHOOSE n \in nmos : TRUE ELSE NoNet

FindInverterInput(ckt, out) ==
    LET ground == FinalNet(ckt.db.next.min, out)
        power == FinalNet(ckt.db.next.max, out)
    IN  IF IsPower(ckt.db, ground) /\ IsPower(ckt.db, power)
        THEN UniqueInput(FindUniqueMosInputs(ckt, out, "NMOS", ground),
                         FindUniqueMosInputs(ckt, out, "PMOS", power))
        ELSE NoNet

\* FindInverterDevice: the first gate at the input that drives the output.
FindInverterDevice(ckt, in, out, channel) ==
    LET ds == OfChannel(ckt, Gates(ckt, in) \cap SourcesAndDrains(ckt, out), channel)
    IN  IF ds = {} THEN NoDevice ELSE First(ds)

\* CheckInverterIO for one net of inverterInputOutputCheckList and one polarity: the
\* device in error, or NoDevice.  The input is the calculated one, or that of inverterNet_v.
InverterInput(ckt, out, calculated) ==
    IF calculated = NoNet THEN ckt.inverterNet[out] ELSE calculated

DeviceBetween(ckt, in, out, type) ==
    LET final(l, n) == FinalNet(ckt.db.next[l], n)
        tied == /\ final("min", in) = final("max", in)
                /\ \E l \in {"min", "max"} : final(l, in) = final(l, out)
        level == IF type = "NMOS" THEN "min" ELSE "max"
    IN  IF in = NoNet THEN NoDevice
        ELSE IF tied \/ final(level, in) = final(level, out) THEN NoDevice
        ELSE FindInverterDevice(ckt, in, out, type)

InverterIOError(ckt, out, type) ==
    DeviceBetween(ckt, InverterInput(ckt, out, FindInverterInput(ckt, out)), out, type)

-----------------------------------------------------------------------------
(* Opposite logic.                                                         *)

\* The nets on the inverter chain of n with the logic of the first net (same) and with
\* the opposite logic (inverted); failed when an assertion on oscillators fails.
RECURSIVE LogicSets(_, _, _, _)
LogicSets(inv, n, isInverted, sets) ==
    IF n = NoNet \/ n \in sets.same \/ sets.failed THEN sets
    ELSE LET grown == IF isInverted THEN [sets EXCEPT !.inverted = @ \cup {n}]
                                    ELSE [sets EXCEPT !.same = @ \cup {n}]
             failed == inv[n] \in IF isInverted THEN grown.inverted ELSE grown.same
         IN  LogicSets(inv, inv[n], ~ isInverted, [grown EXCEPT !.failed = failed])

\* The walk from the second net: "opposite", "error", or "endless" when it comes back to a
\* net in the same sense.
RECURSIVE OppositeWalk(_, _, _, _, _)
OppositeWalk(inv, sets, n, isInverted, seen) ==
    IF n = NoNet THEN "error"
    ELSE IF n \in IF isInverted THEN sets.inverted ELSE sets.same THEN "opposite"
    ELSE IF <<n, isInverted>> \in seen THEN "endless"
    ELSE OppositeWalk(inv, sets, inv[n], ~ isInverted, seen \cup {<<n, isInverted>>})

\* Mutant: the second net is taken to be in the sense of the first.
OppositeLogicSameSense(ckt, a, b) ==
    OppositeWalk(ckt.inverterNet,
                 LogicSets(ckt.inverterNet, a, FALSE, [same |-> {}, inverted |-> {}, failed |-> FALSE]),
                 b, FALSE, {})

\* CheckOppositeLogic for one pair of oppositeLogicList.
OppositeLogic(ckt, a, b) ==
    LET sets == LogicSets(ckt.inverterNet, a, FALSE, [same |-> {}, inverted |-> {}, failed |-> FALSE])
    IN  IF /\ IsPower(ckt.db, a) /\ IsPower(ckt.db, b)
           /\ ckt.db.power[a].sim # ckt.db.power[b].sim
        THEN "opposite"
        ELSE IF sets.failed THEN "assert"
        ELSE OppositeWalk(ckt.inverterNet, sets, b, TRUE, {})

\* The devices of this polarity it reports: the gates at the net that is no power.
OppositeLogicErrors(ckt, a, b, type) ==
    {i \in Gates(ckt, IF IsPower(ckt.db, a) THEN b ELSE a) :
        /\ OppositeLogic(ckt, a, b) = "error"
        /\ IF type = "NMOS" THEN IsNmos(ckt.dev[i].type) ELSE IsPmos(ckt.dev[i].type)}

-----------------------------------------------------------------------------
(* The origins of the inverter chains (SetInverters): inverterNet becomes  *)
(* the first net of the chain, highLow whether a net is its inverse.       *)
(* LoopPeriod is 1024 in the code: the first net of a walk and every       *)
(* LoopPeriod-th after it are remembered, to end the walk in a ring.       *)

CONSTANT LoopPeriod

ASSUME LoopPeriodAssumption == LoopPeriod \in Nat \ {0}

Remembered(seen, n, count) == IF count % LoopPeriod = 0 THEN seen \cup {n} ELSE seen

RECURSIVE SetInverterHighLow(_, _, _, _, _)
SetInverterHighLow(inv, highLow, n, seen, count) ==
    IF inv[n] = NoNet \/ n \in seen THEN highLow
    ELSE LET after == SetInverterHighLow(inv, highLow, inv[n],
                                         Remembered(seen, n, count), count + 1)
         IN  [after EXCEPT ![n] = ~ after[inv[n]]]

\* Mutant: the chain is not followed past the input of the inverter.
SetInverterInputOnce(inv, n, seen, count) == [inv |-> inv, origin |-> n]

RECURSIVE SetInverterInput(_, _, _, _)
SetInverterInput(inv, n, seen, count) ==
    IF inv[n] = NoNet \/ n \in seen THEN [inv |-> inv, origin |-> n]
    ELSE LET after == SetInverterInput(inv, inv[n], Remembered(seen, n, count), count + 1)
         IN  [inv |-> [after.inv EXCEPT ![n] = after.origin], origin |-> after.origin]

\* The two loops over the nets, in the order of their numbers (order).
SetHighLow(inv, highLow, order) ==
    FoldLeft(LAMBDA hl, n :
                 IF inv[n] = NoNet THEN hl
                 ELSE LET after == SetInverterHighLow(inv, hl, inv[n], {}, 0)
                      IN  [after EXCEPT ![n] = ~ after[inv[n]]],
             highLow, order)

SetInputs(inv, order) ==
    FoldLeft(LAMBDA f, n :
                 IF f[n] = NoNet THEN f
                 ELSE LET after == SetInverterInput(f, f[n], {}, 0)
                      IN  [after.inv EXCEPT ![n] = after.origin],
             inv, order)

SetInverters(ckt) ==
    [ckt EXCEPT !.highLow = SetHighLow(ckt.inverterNet, ckt.highLow, ckt.order),
                !.inverterNet = SetInputs(ckt.inverterNet, ckt.order)]

-----------------------------------------------------------------------------
(* Bulk connections.                                                       *)

\* CheckConnections: what it warns of at net n, "none" if nothing.  The resistances of
\* the model are small numbers; HighResistance stands for 1000000.
CONSTANT HighResistance

BulkDevices(ckt, n) ==
    {i \in DOMAIN ckt.dev : /\ IsMos(ckt.dev[i].type)
                            /\ ckt.dev[i].S # ckt.dev[i].D
                            /\ ckt.dev[i].B = n}

BiasWarning(ckt, n) ==
    LET db == ckt.db
        p == MasterPower(db, "sim", n)
        open == \/ p = NoNet
                \/ /\ ~ Known(db.power[p].sim)
                   /\ ~ Known(db.power[p].min) \/ ~ Known(db.power[p].max)
        fixed == /\ Known(NetVoltage(db, "min", n))
                 /\ FinalNet(db.next.min, n) = FinalNet(db.next.max, n)
    IN  IF \/ BulkDevices(ckt, n) = {}
           \/ Cardinality(BulkDevices(ckt, n)) < SourceDrainCount(ckt, n)
        THEN "none"
        ELSE IF FinalResistance(db.next.sim, db.res.sim, n) > HighResistance THEN "high res"
        ELSE IF open THEN (IF fixed THEN "none" ELSE "missing")
        ELSE IF db.power[p].calculated # {} THEN "calculated" ELSE "none"

-----------------------------------------------------------------------------
(* Expected levels.  An expectation is [net, sim, min, max]; each value is *)
(* <<"none">>, <<"open">>, <<"volt", v>> or <<"name", text>>.              *)

NamesNet(db, n, text) == text = n \/ (HasPower(db, n) /\ text = db.power[n].powerAlias)

ExpectedSimFound(db, prm, e) ==
    LET s == MasterPower(db, "sim", e.net)
        closed(l) == /\ Known(NetVoltage(db, l, e.net))
                     /\ ~ IsHiZ(db, MasterPower(db, l, e.net))
    IN  IF e.sim = <<"open">>
        THEN ~ Known(NetVoltage(db, "sim", e.net)) /\ ~ (closed("min") /\ closed("max"))
        ELSE /\ Known(NetVoltage(db, "sim", e.net))
             /\ \/ /\ e.sim[1] = "volt"
                   /\ AbsoluteDifference(e.sim[2], db.power[s].sim) <= prm.expectedThreshold
                \/ e.sim[1] = "name" /\ NamesNet(db, s, e.sim[2])

\* The minimum may be higher and the maximum lower than expected.  The tests of the code
\* are on the numbers, so that an unknown voltage is higher than any.  A name is read as
\* an unknown voltage before it is compared with the names.
ExpectedLimitFound(db, level, value, n) ==
    LET p == MasterPower(db, level, n)
        number == IF value[1] = "volt" THEN value[2] ELSE UNKNOWN_VOLTAGE
    IN  IF value = <<"open">> THEN p = NoNet \/ ~ Known(db.power[p].sim)
        ELSE /\ p # NoNet
             /\ \/ IF level = "min" THEN number <= db.power[p].min ELSE number >= db.power[p].max
                \/ value[1] = "name" /\ NamesNet(db, p, value[2])

\* CheckExpectedValues: the parts of an expectation that are not met, one error each.
ExpectedErrors(db, prm, e) ==
    {l \in Levels : /\ e[l] # <<"none">>
                    /\ IF l = "sim" THEN ~ ExpectedSimFound(db, prm, e)
                       ELSE ~ ExpectedLimitFound(db, l, e[l], e.net)}

=============================================================================
