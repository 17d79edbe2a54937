---------------------------- MODULE Connections -----------------------------
(***************************************************************************)
(* What the checks see of a device: CFullConnection (CConnection.cc) and   *)
(* the lookups it is filled from (CCvcDb_utility.cc, CPower.cc).           *)
(*                                                                         *)
(* A circuit db is a record:                                               *)
(*   power    the nets with a CPower in netVoltagePtr_v, and its value     *)
(*   next     at each level (min, sim, max) the next net of each net       *)
(*   res      and the resistance of the device between them                *)
(*   backup   the saved next nets of SaveMinMaxLeakVoltages (NoNet: none)  *)
(*   leak     the voltages saved with them (leakVoltagePtr_v)              *)
(* A pointer to a CPower is the name of its net, NULL is NoNet.  A device  *)
(* has a type, a Vth, a resistance and a net for each terminal S, G, D, B. *)
(* All the nets are master nets (n = GetEquivalentNet(n)).                 *)
(***************************************************************************)
EXTENDS Powers, FiniteSets

NoNet == "none"
Levels == {"min", "sim", "max"}
Terminals == {"S", "G", "D", "B"}

Least(a, b) == IF a < b THEN a ELSE b
Greatest(a, b) == IF a > b THEN a ELSE b

IsNmos(type) == type \in {"NMOS", "LDDN"}
IsPmos(type) == type \in {"PMOS", "LDDP"}
IsMos(type) == IsNmos(type) \/ IsPmos(type)

-----------------------------------------------------------------------------
(* Chains of nets.                                                         *)

\* The last net of the chain of n.
RECURSIVE FinalNet(_, _)
FinalNet(next, n) == IF next[n] = n THEN n ELSE FinalNet(next, next[n])

\* The resistance of the whole chain of n, and the nets on it.
RECURSIVE FinalResistance(_, _, _)
FinalResistance(next, res, n) ==
    IF next[n] = n THEN res[n] ELSE res[n] + FinalResistance(next, res, next[n])

RECURSIVE Path(_, _)
Path(next, n) == IF next[n] = n THEN {n} ELSE {n} \cup Path(next, next[n])

HasPower(db, n) == n \in DOMAIN db.power

\* The power at the end of the chain of n, or NoNet.
MasterPower(db, level, n) ==
    IF n # NoNet /\ HasPower(db, FinalNet(db.next[level], n))
    THEN FinalNet(db.next[level], n) ELSE NoNet

\* MinVoltage, SimVoltage and MaxVoltage of a net.
NetVoltage(db, level, n) ==
    LET p == MasterPower(db, level, n)
    IN  IF p = NoNet THEN UNKNOWN_VOLTAGE ELSE db.power[p][level]

\* MinLeakVoltage and MaxLeakVoltage: the value saved before the simulation.
LeakVoltage(db, level, n) ==
    IF n = NoNet \/ db.backup[level][n] = NoNet THEN UNKNOWN_VOLTAGE
    ELSE LET last == FinalNet(db.backup[level], n)
         IN  IF last \in DOMAIN db.leak THEN db.leak[last][level] ELSE UNKNOWN_VOLTAGE

\* True at the first step of the walk unless that step is to the target: the test in the
\* loop of the code is "net_it != myTargetNet".
PathContains(next, n, target) ==
    \/ n = target
    \/ \E m \in Path(next, next[n]) : m # target

PathCrosses(next, n, targetNext, target) ==
    Path(next, n) \cap Path(targetNext, target) # {}

\* GetBasePower: from a calculated power to the net it was calculated from, to the end
\* of that net's chain, and so on to a power that was not calculated.  The walk does not
\* notice that it is back at a power it has seen: "loop" stands for never returning.
RECURSIVE BasePowerAfter(_, _, _, _)
BasePowerAfter(db, level, p, seen) ==
    LET power == db.power[p]
        follows == level \in power.calculated /\ power.default[level] # NoNet
        last == FinalNet(db.next[level], IF follows THEN power.default[level] ELSE p)
    IN  IF ~ follows /\ last = p THEN p
        ELSE IF p \in seen THEN "loop"
        ELSE IF ~ HasPower(db, last) THEN NoNet
        ELSE BasePowerAfter(db, level, last, seen \cup {p})

GetBasePower(db, level, p) == BasePowerAfter(db, level, p, {})

IsRelatedPower(db, level, p, testLevel, q, default, isHiZRelative) ==
    IF q = NoNet THEN default
    ELSE LET base == GetBasePower(db, level, p)
             test == GetBasePower(db, testLevel, q)
         IN  base = test \/ AreRelated(db.power[base], db.power[test], default, isHiZRelative)

-----------------------------------------------------------------------------
(* CFullConnection.                                                        *)

\* MapDeviceNets: for each terminal its net (id), and at each level the next net, the last
\* net, the resistance to it, its power and its voltage.
MapDeviceNets(db, d) ==
    [device |-> d,
     id     |-> [t \in Terminals |-> d[t]],
     next   |-> [l \in Levels |-> [t \in Terminals |->
                    IF d[t] = NoNet THEN NoNet ELSE db.next[l][d[t]]]],
     final  |-> [l \in Levels |-> [t \in Terminals |->
                    IF d[t] = NoNet THEN NoNet ELSE FinalNet(db.next[l], d[t])]],
     res    |-> [l \in Levels |-> [t \in Terminals |->
                    IF d[t] = NoNet THEN 0 ELSE FinalResistance(db.next[l], db.res[l], d[t])]],
     power  |-> [l \in Levels |-> [t \in Terminals |-> MasterPower(db, l, d[t])]],
     volt   |-> [l \in Levels |-> [t \in Terminals |-> NetVoltage(db, l, d[t])]]]

IsHiZ(db, p) == p # NoNet /\ db.power[p].hiz

\* CheckTerminalMinVoltages, ...SimVoltages and ...MaxVoltages.
CheckTerminalVoltages(c, level, ts) == \A t \in ts : Known(c.volt[level][t])

CheckTerminalMinMaxVoltages(db, c, ts, checkHiZ) ==
    \A t \in ts :
        /\ Known(c.volt.min[t])
        /\ Known(c.volt.max[t])
        /\ c.volt.min[t] <= c.volt.max[t]
        /\ checkHiZ \/ ~ (IsHiZ(db, c.power.min[t]) \/ IsHiZ(db, c.power.max[t]))

\* SetMinMaxLeakVoltagesAndFlags: the leak voltages and which values may be compared.
LeakFlags(db, c) ==
    LET leak == [l \in {"min", "max"} |-> [t \in Terminals |-> LeakVoltage(db, l, c.id[t])]]
        set == [l \in {"min", "max"} |-> [t \in Terminals |->
                    Known(c.volt[l][t]) /\ ~ IsHiZ(db, c.power[l][t])]]
        ordered(v, s, t) == s["min"][t] /\ s["max"][t] => v["min"][t] <= v["max"][t]
        leakSet == [l \in {"min", "max"} |-> [t \in Terminals |-> Known(leak[l][t])]]
        validLeak == [l \in {"min", "max"} |-> [t \in Terminals |->
                          leakSet[l][t] /\ ordered(leak, leakSet, t)]]
        inLeak(l, t) == validLeak[l][t] =>
                            IF l = "min" THEN c.volt.min[t] >= leak.min[t]
                                         ELSE c.volt.max[t] <= leak.max[t]
    IN  [leak      |-> leak,
         validLeak |-> validLeak,
         valid     |-> [l \in {"min", "max"} |-> [t \in Terminals |->
                            set[l][t] /\ ordered(c.volt, set, t) /\ inLeak(l, t)]]]

IsPumpCapacitor(c) ==
    /\ c.device.type = "CAPACITOR"
    /\ \E t \in {"S", "D"} :
           c.power.min[t] = c.power.max[t] /\ c.volt.min[t] # c.volt.max[t]

\* SetDiodeConnections: the diode between two terminals of a device, as source and drain.
SetDiodeConnections(c, diode) ==
    LET t == [S |-> diode[1], D |-> diode[2], G |-> "G", B |-> "B"]
        turned(f) == [l \in Levels |-> [u \in Terminals |-> f[l][t[u]]]]
    IN  [device |-> c.device, id |-> [u \in Terminals |-> c.id[t[u]]],
         next |-> turned(c.next), final |-> turned(c.final), res |-> turned(c.res),
         power |-> turned(c.power), volt |-> turned(c.volt)]

-----------------------------------------------------------------------------
(* Estimated currents.  A current is a pair <<volts, ohms>>; VthScale is   *)
(* the factor 1000 of the code for a device at its threshold.              *)

CONSTANT VthScale

ASSUME VthScaleAssumption == VthScale \in Nat \ {0}

NoCurrent == <<0, 1>>

\* A current larger than the limit (volts per ohm, as a pair).
Exceeds(current, limit) == current[1] * limit[2] > limit[1] * current[2]

\* EstimatedCurrent of the simulated voltages, zero through a device that is only just on
\* between a calculated net and another.
EstimatedCurrent(db, c) ==
    LET d == c.device
        s == c.volt.sim["S"]
        e == c.volt.sim["D"]
        g == c.volt.sim["G"]
        atVth == \/ IsNmos(d.type) /\ g - Least(s, e) = d.Vth
                 \/ IsPmos(d.type) /\ g - Greatest(s, e) = d.Vth
        calculated(p) == "sim" \in db.power[p].calculated
        volts == IF IsNmos(d.type) /\ Known(g)
                 THEN AbsoluteDifference(Least(s, e), Least(g, Greatest(s, e)))
                 ELSE IF IsPmos(d.type) /\ Known(g)
                 THEN AbsoluteDifference(Greatest(s, e), Greatest(g, Least(s, e)))
                 ELSE AbsoluteDifference(s, e)
    IN  IF /\ c.power.sim["G"] # NoNet /\ ~ calculated(c.power.sim["G"])
           /\ atVth
           /\ calculated(c.power.sim["D"]) \/ calculated(c.power.sim["S"])
        THEN NoCurrent
        ELSE <<volts, (d.resistance + c.res.sim["S"] + c.res.sim["D"])
                          * (IF atVth THEN VthScale ELSE 1)>>

\* EstimatedMinimumCurrent: between the higher of the two minimum voltages and the lower
\* of the two maximum voltages, when they cross.
EstimatedMinimumCurrent(db, c) ==
    LET d == c.device
        v == c.volt
        up == IF v.min["S"] > v.min["D"] THEN "S" ELSE "D"
        down == IF v.max["S"] < v.max["D"] THEN "S" ELSE "D"
        other(t) == IF t = "S" THEN "D" ELSE "S"
        own(l, t) == LET p == db.power[c.power[l][t]]
                     IN  l \in p.calculated /\ p.default[l] = c.id[other(t)]
        high == v.min[up]
        low == v.max[down]
        atVth == \/ IsNmos(d.type) /\ (v.max["G"] - low = d.Vth \/ low - high <= d.Vth)
                 \/ IsPmos(d.type) /\ (v.min["G"] - high = d.Vth \/ high - low >= d.Vth)
        top == IF IsNmos(d.type) /\ Known(v.max["G"])
               THEN Greatest(low, Least(v.max["G"], high)) ELSE high
        bottom == IF IsPmos(d.type) /\ Known(v.min["G"])
                  THEN Least(high, Greatest(v.min["G"], low)) ELSE low
    IN  IF \/ ~ CheckTerminalVoltages(c, "min", {"S", "D"})
           \/ ~ CheckTerminalVoltages(c, "max", {"S", "D"})
        THEN NoCurrent
        ELSE IF high <= low \/ ((own("min", up) \/ own("max", down)) /\ atVth)
        THEN NoCurrent
        ELSE <<top - bottom, (d.resistance + c.res.min[up] + c.res.max[down])
                                 * (IF atVth THEN VthScale ELSE 1)>>

=============================================================================
