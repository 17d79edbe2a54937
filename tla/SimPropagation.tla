--------------------------- MODULE SimPropagation ---------------------------
(***************************************************************************)
(* Voltage propagation at the sim level (CCvcDb.cc, CCvcDb_utility.cc):    *)
(* logic levels through devices that are on, within the min and max        *)
(* voltages already found.  The propagation is of one of three types:      *)
(* POWER_NETS_ONLY, ALL_NETS_NO_FUSE and ALL_NETS_AND_FUSE.                *)
(***************************************************************************)
EXTENDS Propagation

CONSTANT ResistanceRatio      \* the factor 128 (<< 7) of IsAlwaysOnCandidate

ASSUME SimPropagationAssumption == ResistanceRatio \in Nat \ {0}

\* MinSimVoltage and MaxSimVoltage: the voltage of n at a level, limited by the first
\* simulated voltage on the way to it.
RECURSIVE FirstCalculatedSim(_, _, _)
FirstCalculatedSim(s, l, n) ==
    LET m == s.next[l][n]
    IN  IF m = n THEN UNKNOWN_VOLTAGE
        ELSE IF HasPower(s, m) /\ "sim" \in s.power[m].calculated /\ Known(s.power[m].sim)
        THEN s.power[m].sim
        ELSE FirstCalculatedSim(s, l, m)

SimLimit(s, l, n) ==
    LET v == NetVoltage(s, l, n)
        w == FirstCalculatedSim(s, l, n)
    IN  IF ~ Known(w) THEN v
        ELSE IF ~ Known(v) THEN w
        ELSE IF l = "min" THEN Greatest(v, w) ELSE Least(v, w)

\* IsAlwaysOnCandidate: whether a device with an unknown gate that is always on may drive
\* the end t, an output, from the end where it has the stronger connection.
IsAlwaysOnCandidate(s, d, t) ==
    LET dev == s.device[d]
        p == [l \in {"min", "max"} |-> [u \in {"S", "D"} |-> MasterPower(s, l, dev[u])]]
        v == [l \in {"min", "max"} |-> [u \in {"S", "D"} |-> NetVoltage(s, l, dev[u])]]
        r == [l \in {"min", "max"} |-> [u \in {"S", "D"} |-> Resistance(s, l, dev[u])]]
        outer(l) == IF Beyond(Other(l), v[l]["S"], v[l]["D"]) THEN "S"
                    ELSE IF Beyond(l, v[l]["S"], v[l]["D"]) THEN "D"
                    ELSE IF r[l]["S"] > r[l]["D"] THEN "S" ELSE "D"
        target == outer("min")
        isTied == /\ v.min["S"] = v.min["D"]
                  /\ v.min["S"] = v.max["S"] /\ v.min["D"] = v.max["D"]
    IN  \/ s.sdType[dev[t]] # {"NMOS", "PMOS"}
        \/ /\ \A l \in {"min", "max"}, u \in {"S", "D"} : p[l][u] # NoNet
           /\ \/ isTied
              \/ /\ outer("max") = target
                 /\ r.min[target] * ResistanceRatio > r.max[target]
                 /\ r.min[target] < r.max[target] * ResistanceRatio

\* ReportSimShort.
ReportSimShort(s, c, v, w) ==
    LET difference == AbsoluteDifference(v, w)
    IN  IF difference # AbsoluteDifference(c.device.Vth, 0) /\ difference > ShortThreshold
        THEN Report(s, "LEAK", c.id) ELSE s

\* The direction of a simulated voltage: the end that receives it.
SimReceiver(s, c) ==
    IF IsUnknownVoltage(s, c, "S") THEN "S"
    ELSE IF IsUnknownVoltage(s, c, "D") THEN "D"
    ELSE IF ~ Known(c.volt["S"]) /\ Known(c.volt["D"]) THEN "S"
    ELSE IF ~ Known(c.volt["D"]) THEN "D"
    ELSE IF \/ IsPmos(c.device.type) /\ c.volt["D"] >= c.volt["S"]
            \/ IsNmos(c.device.type) /\ c.volt["D"] <= c.volt["S"]
    THEN "S" ELSE "D"

\* The gate voltage of a device with an unknown gate that is on for a voltage v whatever
\* the gate is, or UNKNOWN_VOLTAGE.  The limits are those of the net n: PropagateSimVoltages
\* takes the end of the gate's simulated chain, AdjustSimVoltage the gate itself.
AlwaysOnGate(s, c, n, v) ==
    LET low == NetVoltage(s, "min", n)
        high == NetVoltage(s, "max", n)
    IN  IF IsPmos(c.device.type) /\ Known(high) /\ Known(v) /\ high < v + c.device.Vth THEN high
        ELSE IF IsNmos(c.device.type) /\ Known(low) /\ Known(v) /\ low > v + c.device.Vth THEN low
        ELSE UNKNOWN_VOLTAGE

AlwaysOnGateEnd(s, c, v) == AlwaysOnGate(s, c, FinalNet(s.next.sim, c.device["G"]), v)

-----------------------------------------------------------------------------
(* AdjustSimVoltage: the voltage that reaches the end t, whether it is not *)
(* simply that of the other end, and the database with the shorts found.   *)

Adjusted(s, v, isAdjusted) == [s |-> s, v |-> v, adjusted |-> isAdjusted]

\* Through the device, with target voltages between low and high.
ThroughDevice(s, c, t, v, low, high) ==
    LET p == c.power[t]
        gate == IF Known(c.volt["G"]) THEN c.volt["G"] ELSE AlwaysOnGate(s, c, c.device["G"], v)
        step == gate - c.device.Vth
    IN  IF ~ IsMosDevice(c) THEN Adjusted(s, v, FALSE)
        ELSE IF c.device["G"] = c.device[t]
        THEN IF low = high /\ p # NoNet /\ ~ IsHiZ(s, p) THEN Adjusted(s, high, TRUE)
             ELSE Adjusted(s, UNKNOWN_VOLTAGE, FALSE)
        ELSE IF ~ Known(gate) THEN Adjusted(Fail(s, "gate voltage unknown"), UNKNOWN_VOLTAGE, FALSE)
        ELSE IF step = v THEN Adjusted(s, UNKNOWN_VOLTAGE, FALSE)
        ELSE IF IsNmos(c.device.type) /\ Known(low) /\ ~ IsHiZ(s, p) /\ step < v
        THEN Adjusted(s, Greatest(step, low), TRUE)
        ELSE IF IsPmos(c.device.type) /\ Known(high) /\ ~ IsHiZ(s, p) /\ step > v
        THEN Adjusted(s, Least(step, high), TRUE)
        ELSE Adjusted(s, v, FALSE)

\* Within the limit of a level, reached through the resistance r.
WithinLimit(a, l, limit, r, c, t, type, original) ==
    LET current == <<AbsoluteDifference(a.v, limit), c.device.resistance + c.res[OtherEnd(t)] + r>>
        isShort == /\ type # "POWER_NETS_ONLY" /\ Beyond(Other(l), original, limit)
                   /\ Exceeds(current, LeakLimit)
    IN  IF ~ Known(a.v) \/ ~ Known(limit) \/ ~ Beyond(Other(l), a.v, limit) THEN a
        ELSE Adjusted(IF isShort THEN ReportSimShort(a.s, c, a.v, limit) ELSE a.s, limit, TRUE)

AdjustBetween(s, c, t, v, type, limit, res) ==
    LET crossed == Known(limit.min) /\ limit.min > limit.max
        side(l) == IF crossed THEN Other(l) ELSE l
        within(a, l) == WithinLimit(a, l, limit[side(l)], res[side(l)], c, t, type, v)
    IN  within(within(ThroughDevice(s, c, t, v, limit[side("min")], limit[side("max")]), "min"), "max")

AdjustSimVoltage(s, c, t, v, type) ==
    LET n == c.device[t]
    IN  IF Known(c.volt["S"]) = Known(c.volt["D"])
        THEN Adjusted(Fail(s, "simulated voltages"), UNKNOWN_VOLTAGE, FALSE)
        ELSE AdjustBetween(s, c, t, v, type, [l \in {"min", "max"} |-> SimLimit(s, l, n)],
                           [l \in {"min", "max"} |-> Resistance(s, l, n)])

-----------------------------------------------------------------------------
(* Events of the sim queue.                                                *)

\* ShortSimNets: the end t takes v, limited by its saved voltages, from the other end.
ShortSimNets(s, c, t, v) ==
    LET u == OtherEnd(t)
        slave == c.device[t]
        master == c.device[u]
        low == LeakVoltage(s, "min", slave)
        high == LeakVoltage(s, "max", slave)
        top == IF Known(high) /\ high < v THEN high ELSE v
        short == IF Known(low) /\ low > top THEN low ELSE top
        factor == IF IsMosDevice(c) /\ c.device["G"] = slave THEN DiodeFactor ELSE 1
        opposite == MasterPower(s, IF IsNmos(c.device.type) THEN "max" ELSE "min", slave)
        isSCRCShort == /\ IsSCRC(s, c.power[u]) /\ {"NMOS", "PMOS"} \subseteq s.sdType[slave]
                       /\ IsMosDevice(c) /\ ~ IsSCRC(s, opposite)
        linked == IF short = c.volt[u]
                  THEN Set(IF isSCRCShort THEN Report(s, "LEAK", c.id) ELSE s, "sim", slave, master,
                           c.device.resistance)
                  ELSE Set(CalculatePower(s, "sim", short, slave, master), "sim", slave, slave,
                           c.device.resistance * factor + Resistance(s, "sim", master))
        typed == IF c.device.type = "RESISTOR"
                 THEN PropagateConnectionType(linked, "sim", linked.sdType[slave], master) ELSE linked
    IN  Deactivate(typed, "sim", c.id)

\* The early returns of PropagateSimVoltages.
SkipsSim(s, c, t, v, type) ==
    LET master == c.power[OtherEnd(t)]
        isPriority(p) == p # NoNet /\ IsPriorityPower(s.power[p])
        isDiode == c.device["G"] \in {c.device["S"], c.device["D"]}
    IN  \/ IsUnknownVoltage(s, c, "S") /\ IsUnknownVoltage(s, c, "D")
        \/ IsUnknownVoltage(s, c, t) /\ IsHiZ(s, master) /\ ~ IsSCRC(s, master)
        \/ type = "POWER_NETS_ONLY" /\ ~ isPriority(master)
        \/ /\ IsMosDevice(c) /\ ~ Known(c.volt["G"])
           /\ IF Known(AlwaysOnGateEnd(s, c, v)) THEN ~ IsAlwaysOnCandidate(s, c.id, t)
              ELSE type = "POWER_NETS_ONLY" \/ ~ isDiode
        \/ IsMosDevice(c) /\ Known(c.volt["G"]) /\ type = "POWER_NETS_ONLY" /\ ~ isPriority(c.power["G"])
        \/ c.device.type = "FUSE_ON" /\ type # "ALL_NETS_AND_FUSE"

\* The voltage a.v reaches the end t.
ReachSim(a, c, t, type) ==
    IF (type = "POWER_NETS_ONLY" /\ a.adjusted) \/ ~ Known(a.v) THEN a.s
    ELSE EnqueueAttachedDevices(ShortSimNets(a.s, c, t, a.v), "sim", c.device[t], a.v)

\* The event of a device whose gate has, or is given, a voltage.
SimulateGated(s, c, t, v, type, irrelevance) ==
    IF c.device.type = "FUSE_OFF" THEN Deactivate(s, "sim", c.id)
    ELSE IF irrelevance.is THEN Deactivate(irrelevance.s, "sim", c.id)
    ELSE ReachSim(AdjustSimVoltage(s, c, t, v, type), c, t, type)

SimulateDevice(s, c, t, v, type) == SimulateGated(s, c, t, v, type, Irrelevance(s, "sim", c, v))

SimulateTo(s, c, t, v, type) ==
    IF SkipsSim(s, c, t, v, type) THEN s
    ELSE SimulateDevice(s, IF IsMosDevice(c) /\ ~ Known(c.volt["G"])
                           THEN [c EXCEPT !.volt["G"] = AlwaysOnGateEnd(s, c, v)] ELSE c, t, v, type)

SimulateFrom(s, c, t, type) == SimulateTo(s, c, t, c.volt[OtherEnd(t)], type)
Simulate(s, c, type) == SimulateFrom(s, c, SimReceiver(s, c), type)

PropagateSimVoltages(s, type) ==
    LET d == NextEvent(s, "sim")[2]
        r == GetEvent(s, "sim")
    IN  IF d \in r.inactive.sim THEN r ELSE Simulate(r, MapDevice(r, "sim", d), type)

\* SetSimPower up to the events: the devices at the nets with a simulated voltage (of
\* newNets, when there are any).
StartSimPower(s, type, newNets) ==
    LET clean == [ResetQueue(s, "sim") EXCEPT !.fixedSim = FALSE]
        enqueue(r, n) ==
            LET p == MasterPower(r, "sim", n)
            IN  IF \/ newNets # {} /\ n \notin newNets
                   \/ p = NoNet
                   \/ ~ Known(r.power[p].sim) /\ ~ IsSCRC(r, p)
                   \/ type = "POWER_NETS_ONLY" /\ ~ IsPriorityPower(r.power[p])
                THEN r ELSE EnqueueAttachedDevices(r, "sim", n, r.power[p].sim)
    IN  [Each(enqueue, clean, s.order) EXCEPT !.queue.sim.start = TRUE]

=============================================================================
