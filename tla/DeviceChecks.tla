---------------------------- MODULE DeviceChecks ----------------------------
(***************************************************************************)
(* The checks of one device (CCvcDb_error.cc): for each, the predicate     *)
(* under which the check calls IncrementDeviceError for the device.  The   *)
(* parameters of the mode (prm) are the error thresholds and the switches  *)
(* of cvcParameters.  db and the connections c are those of Connections.   *)
(***************************************************************************)
EXTENDS Connections

IsSCRCPower(db, p) ==
    p # NoNet /\ db.power[p].hiz /\ db.power[p].min = db.power[p].max

-----------------------------------------------------------------------------
(* Overvoltage (FindAllOverVoltageErrors).  f is LeakFlags of c.           *)

\* Terminals x and y, at opposite levels, are further apart than the limit.
Apart(c, f, x, y, limit) ==
    \/ /\ f.valid.max[x] /\ f.valid.min[y]
       /\ AbsoluteDifference(c.volt.max[x], c.volt.min[y]) > limit
    \/ /\ f.valid.min[x] /\ f.valid.max[y]
       /\ AbsoluteDifference(c.volt.min[x], c.volt.max[y]) > limit

LeakApart(f, x, y, limit) ==
    \/ /\ f.validLeak.max[x] /\ f.validLeak.min[y]
       /\ AbsoluteDifference(f.leak.max[x], f.leak.min[y]) > limit
    \/ /\ f.validLeak.min[x] /\ f.validLeak.max[y]
       /\ AbsoluteDifference(f.leak.min[x], f.leak.max[y]) > limit

\* The leak voltage of x alone is over the limit, where all of ys are open at the other level.
LeakAlone(f, x, ys, limit) ==
    \/ /\ f.validLeak.max[x] /\ \A y \in ys : ~ f.validLeak.min[y]
       /\ AbsoluteDifference(f.leak.max[x], 0) > limit
    \/ /\ f.validLeak.min[x] /\ \A y \in ys : ~ f.validLeak.max[y]
       /\ AbsoluteDifference(f.leak.min[x], 0) > limit

\* The last clause of the code asks for ! validMinGate, not for ! validMinGateLeak.
VbgError(prm, c, f, max) ==
    LET limit == max + prm.overvoltageThreshold
    IN  \/ Apart(c, f, "G", "B", limit)
        \/ /\ prm.leakOvervoltage
           /\ \/ LeakApart(f, "G", "B", limit)
              \/ LeakAlone(f, "G", {"B"}, limit)
              \/ /\ ~ f.validLeak.max["G"] /\ f.validLeak.min["B"]
                 /\ AbsoluteDifference(f.leak.min["B"], 0) > limit
              \/ /\ ~ f.valid.min["G"] /\ f.validLeak.max["B"]
                 /\ AbsoluteDifference(f.leak.max["B"], 0) > limit

\* Mutant: the tolerance is taken off the limit.
VbsErrorStricter(prm, c, f, max) ==
    \E t \in {"S", "D"} : Apart(c, f, t, "B", max - prm.overvoltageThreshold)

VbsError(prm, c, f, max) ==
    LET limit == max + prm.overvoltageThreshold
    IN  \/ \E t \in {"S", "D"} : Apart(c, f, t, "B", limit)
        \/ /\ prm.leakOvervoltage
           /\ \/ \E t \in {"S", "D"} : LeakApart(f, t, "B", limit) \/ LeakAlone(f, t, {"B"}, limit)
              \/ LeakAlone(f, "B", {"S", "D"}, limit)

\* A pumping capacitor passes when the differences at min and at max are in the limit.
VdsError(prm, c, f, max) ==
    LET limit == max + prm.overvoltageThreshold
        v == c.volt
    IN  IF Apart(c, f, "S", "D", limit)
        THEN ~ /\ IsPumpCapacitor(c)
               /\ AbsoluteDifference(v.min["S"], v.min["D"]) <= limit
               /\ AbsoluteDifference(v.max["S"], v.max["D"]) <= limit
        ELSE /\ prm.leakOvervoltage
             /\ \/ LeakApart(f, "S", "D", limit)
                \/ LeakAlone(f, "S", {"D"}, limit)
                \/ LeakAlone(f, "D", {"S"}, limit)

\* Mutant: the voltages of the drain are compared with the gate's at the same level.
VgsErrorSameLevel(prm, c, f, max) ==
    LET limit == max + prm.overvoltageThreshold
    IN  \/ Apart(c, f, "G", "S", limit)
        \/ /\ f.valid.min["G"] /\ f.valid.min["D"]
           /\ AbsoluteDifference(c.volt.min["G"], c.volt.min["D"]) > limit

VgsError(prm, c, f, max) ==
    LET limit == max + prm.overvoltageThreshold
    IN  \/ \E t \in {"S", "D"} : Apart(c, f, "G", t, limit)
        \/ /\ prm.leakOvervoltage
           /\ \/ \E t \in {"S", "D"} : LeakApart(f, "G", t, limit) \/ LeakAlone(f, t, {"G"}, limit)
              \/ LeakAlone(f, "G", {"S", "D"}, limit)

\* FindModelError: the only check is of the bulk ("Vb"), against a bound on each side,
\* exclusive when both kinds are given.  A missing bound is UNKNOWN_VOLTAGE.
ModelError(c, f, check) ==
    \/ ~ (f.valid.min["B"] /\ f.valid.max["B"])
    \/ IF Known(check.minExclusive) THEN c.volt.min["B"] <= check.minExclusive
       ELSE Known(check.minInclusive) /\ c.volt.min["B"] < check.minInclusive
    \/ IF Known(check.maxExclusive) THEN c.volt.max["B"] >= check.maxExclusive
       ELSE Known(check.maxInclusive) /\ c.volt.max["B"] > check.maxInclusive

\* FindAllOverVoltageErrors for one device: the checks of its model.  A model with no
\* maximum voltage is skipped as a whole, its model checks too.
HasMaximumVoltage(m) == \E v \in {m.maxVbg, m.maxVbs, m.maxVds, m.maxVgs} : Known(v)

OverVoltageErrors(db, prm, c) ==
    LET m == c.device.model
        f == LeakFlags(db, c)
    IN  (IF Known(m.maxVbg) /\ VbgError(prm, c, f, m.maxVbg) THEN {"OVERVOLTAGE_VBG"} ELSE {})
        \cup (IF Known(m.maxVbs) /\ VbsError(prm, c, f, m.maxVbs) THEN {"OVERVOLTAGE_VBS"} ELSE {})
        \cup (IF Known(m.maxVds) /\ VdsError(prm, c, f, m.maxVds) THEN {"OVERVOLTAGE_VDS"} ELSE {})
        \cup (IF Known(m.maxVgs) /\ VgsError(prm, c, f, m.maxVgs) THEN {"OVERVOLTAGE_VGS"} ELSE {})

\* The model checks that fail, each an error of its own.
ModelErrors(db, c) ==
    {check \in c.device.model.checkList :
        HasMaximumVoltage(c.device.model) /\ ModelError(c, LeakFlags(db, c), check)}

-----------------------------------------------------------------------------
(* Gate against source and drain (Find{N,P}mosGateVsSourceErrors).         *)

IsPower(db, n) == HasPower(db, n) /\ db.power[n].power
IsInputOrPower(db, n) == HasPower(db, n) /\ (db.power[n].input \/ db.power[n].power)

\* "capacitor check": direct power capacitors, and capacitors whose end nets (at level
\* min in both checks) are not input or power, are not errors.
IsIgnoredCapacitor(db, c) ==
    /\ c.id["S"] = c.id["D"]
    /\ \/ IsPower(db, c.id["G"]) /\ IsPower(db, c.id["D"])
       \/ ~ IsInputOrPower(db, c.final.min["S"])
       \/ ~ IsInputOrPower(db, c.final.min["G"])

\* The gate power is related to the powers of the source and the drain.
GateIsRelated(db, c, level) ==
    \A t \in {"S", "D"} :
        IsRelatedPower(db, level, c.power[level]["G"], level, c.power[level][t], TRUE, TRUE)

\* The difference that counts: from first, raised by the terminal whose voltage is known
\* and that is not tied to the gate on the other side.
WorstDifference(c, level, first, toS, toD) ==
    LET afterS == IF /\ CheckTerminalVoltages(c, level, {"G", "S"})
                     /\ toS > first
                     /\ c.id["G"] # c.id["D"]
                  THEN toS ELSE first
    IN  IF /\ CheckTerminalVoltages(c, level, {"G", "D"})
           /\ toD > afterS
           /\ c.id["G"] # c.id["S"]
        THEN toD ELSE afterS

NmosGateVsSourceError(db, prm, c) ==
    LET v == c.volt
        p == db.power[c.power.min["G"]]
        vth == c.device.Vth
        below(t) == Least(v.min[t], v.min[t] + vth)
        worst == WorstDifference(c, "min", Least(0, vth),
                                 v.min["G"] - below("S"), v.min["G"] - below("D"))
        known == {t \in {"S", "D"} : Known(v.max[t])}
        atVth == "min" \in p.calculated /\ \E t \in {"S", "D"} : v.min["G"] - v.min[t] = vth
    IN  /\ IsNmos(c.device.type)
        /\ c.power.min["G"] # NoNet
        /\ ~ (p.analog /\ ~ prm.analogGates)
        /\ ~ IsSCRCPower(db, c.power.min["G"])
        /\ GateIsRelated(db, c, "min") =>
              /\ worst > prm.gateThreshold
              /\ ~ (prm.minVthGates /\ worst < vth)
              /\ \E t \in known : v.min["G"] < v.max[t] - prm.gateThreshold  \* not fully on
              /\ ~ (known = {"S", "D"} /\ IsIgnoredCapacitor(db, c))
              /\ ~ (atVth /\ ~ prm.vthGates)

PmosGateVsSourceError(db, prm, c) ==
    LET v == c.volt
        p == db.power[c.power.max["G"]]
        vth == c.device.Vth
        above(t) == Greatest(v.max[t], v.max[t] + vth)
        worst == WorstDifference(c, "max", Greatest(0, vth),
                                 above("S") - v.max["G"], above("D") - v.max["G"])
        known == {t \in {"S", "D"} : Known(v.min[t])}
        atVth == "max" \in p.calculated /\ \E t \in {"S", "D"} : v.max["G"] - v.max[t] = vth
    IN  /\ IsPmos(c.device.type)
        /\ c.power.max["G"] # NoNet
        /\ ~ (p.analog /\ ~ prm.analogGates)
        /\ ~ IsSCRCPower(db, c.power.max["G"])
        /\ GateIsRelated(db, c, "max") =>
              /\ worst > prm.gateThreshold
              /\ ~ (prm.minVthGates /\ worst < -vth)
              /\ \E t \in known : v.max["G"] > v.min[t] + prm.gateThreshold  \* not fully on
              /\ ~ (known = {"S", "D"} /\ IsIgnoredCapacitor(db, c))
              /\ ~ (atVth /\ ~ prm.vthGates)

\* With CVC_LOGIC_DIODES the P channel error at a gate with a calculated maximum and no
\* power of its own becomes an expected low level of the gate net, checked at the end.
ExpectsLowGate(db, prm, c) ==
    /\ PmosGateVsSourceError(db, prm, c)
    /\ "max" \in db.power[c.power.max["G"]].calculated
    /\ prm.logicDiodes
    /\ ~ HasPower(db, c.id["G"])

-----------------------------------------------------------------------------
(* Source and drain against bulk (Find{N,P}mosSourceVsBulkErrors).         *)

\* Terminal t at this level is outside the bulk, or at the bulk's voltage behind a
\* smaller resistance (checked when no difference is tolerated).  outside(t) is the
\* difference in the wrong direction.
BeyondBulk(prm, c, level, t, outside) ==
    /\ CheckTerminalVoltages(c, level, {"B", t})
    /\ \/ outside > prm.biasThreshold
       \/ /\ c.volt[level][t] = c.volt[level]["B"]
          /\ prm.biasThreshold = 0
          /\ c.res[level][t] < c.res[level]["B"]

\* The same at the level where bulk should be the far end: a calculated voltage of t that
\* defaults to the bulk is no error, and the resistance check is backwards.
BeyondFarBulk(db, prm, c, level, otherLevel, t, outside) ==
    /\ CheckTerminalVoltages(c, level, {"B", t})
    /\ \/ /\ outside > prm.biasThreshold
          /\ db.power[c.power[level][t]].default[level] # c.id["B"]
       \/ /\ c.volt[level][t] = c.volt[level]["B"]
          /\ prm.biasThreshold = 0
          /\ c.volt[level][t] # c.volt[otherLevel]["B"]
          /\ c.res[level][t] > c.res[level]["B"]
          /\ ~ IsHiZ(db, c.power[otherLevel]["B"])
          /\ ~ PathContains(db.next[level], c.id[t], c.id["B"])

\* A cut-off bulk: a source or drain power that is not one of its relatives.  wrongSide:
\* the ends whose simulated voltage is on the conducting side of the bulk.
UnrelatedToHiZBulk(db, c, level, wrongSide) ==
    LET bulk == c.power[level]["B"]
        unrelated(l, t) == /\ c.power[l][t] # NoNet
                           /\ ~ IsRelatedPower(db, level, bulk, l, c.power[l][t], FALSE, FALSE)
    IN  \E t \in {"S", "D"} :
            \/ unrelated("min", t)
            \/ unrelated("sim", t) /\ Known(c.volt.sim[t]) /\ t \in wrongSide
            \/ unrelated("max", t)

BulkIsRelated(db, c, level) ==
    \/ c.power[level]["B"] = NoNet
    \/ \A t \in {"S", "D"} :
           IsRelatedPower(db, level, c.power[level]["B"], level, c.power[level][t], TRUE, TRUE)

HasSomeConnection(c) == \E l \in Levels, t \in {"S", "D"} : c.power[l][t] # NoNet

\* The result is {} or the flag the check sets: "error", "source", "drain", "unrelated".
\* The clauses are tried in this order; the first that holds sets the flag.
NmosSourceVsBulk(db, prm, c) ==
    LET v == c.volt
        quiet == \A t \in {"S", "D"} : v.max["B"] = v.min[t] \/ ~ Known(v.min[t])
        far(l, t) == v[l]["B"] - v[l][t]
    IN  IF ~ IsNmos(c.device.type) \/ (c.id["S"] = c.id["D"] /\ c.id["S"] = c.id["B"]) THEN {}
        ELSE IF ~ BulkIsRelated(db, c, "min") THEN {"unrelated"}
        ELSE IF quiet THEN {}
        ELSE IF IsHiZ(db, c.power.min["B"])
             THEN IF UnrelatedToHiZBulk(db, c, "min", {t \in {"S", "D"} : v.sim[t] < v.max["B"]})
                  THEN {"error"} ELSE {}
        ELSE IF ~ Known(v.min["B"]) THEN IF HasSomeConnection(c) THEN {"error"} ELSE {}
        ELSE IF BeyondBulk(prm, c, "min", "S", far("min", "S")) THEN {"source"}
        ELSE IF BeyondBulk(prm, c, "min", "D", far("min", "D")) THEN {"drain"}
        ELSE IF \E t \in {"S", "D"} :
                    \/ BeyondBulk(prm, c, "sim", t, far("sim", t))
                    \/ BeyondFarBulk(db, prm, c, "max", "min", t, far("max", t))
             THEN {"error"} ELSE {}

PmosSourceVsBulk(db, prm, c) ==
    LET v == c.volt
        quiet == \A t \in {"S", "D"} : v.min["B"] = v.max[t] \/ ~ Known(v.max[t])
        far(l, t) == v[l][t] - v[l]["B"]
    IN  IF ~ IsPmos(c.device.type) \/ (c.id["S"] = c.id["D"] /\ c.id["S"] = c.id["B"]) THEN {}
        ELSE IF ~ BulkIsRelated(db, c, "max") THEN {"unrelated"}
        ELSE IF quiet THEN {}
        ELSE IF IsHiZ(db, c.power.max["B"])
             THEN IF UnrelatedToHiZBulk(db, c, "max", {t \in {"S", "D"} : v.sim[t] > v.min["B"]})
                  THEN {"error"} ELSE {}
        ELSE IF ~ Known(v.max["B"]) THEN IF HasSomeConnection(c) THEN {"error"} ELSE {}
        ELSE IF \E t \in {"S", "D"} :
                    \/ BeyondFarBulk(db, prm, c, "min", "max", t, far("min", t))
                    \/ BeyondBulk(prm, c, "sim", t, far("sim", t))
             THEN {"error"}
        ELSE IF BeyondBulk(prm, c, "max", "S", far("max", "S")) THEN {"source"}
        ELSE IF BeyondBulk(prm, c, "max", "D", far("max", "D")) THEN {"drain"}
        ELSE {}

\* In setup mode the nets of the direct errors are collected instead of counted.
SourceBulkProblemNets(d, flags) ==
    {d[t] : t \in {x \in {"S", "D"} :
        (x = "S" /\ "source" \in flags) \/ (x = "D" /\ "drain" \in flags)}}

-----------------------------------------------------------------------------
(* Forward biased diodes (FindForwardBiasDiodes), x being the diode as     *)
(* source (anode) and drain (cathode).                                     *)

ForwardBias(db, prm, x) ==
    LET v == x.volt
        r == x.res
        sameMin == x.power.min["S"] = x.power.min["D"]
        sameMax == x.power.max["S"] = x.power.max["D"]
        minDrain == sameMin /\ r.min["S"] > r.min["D"]
        cathodeFirst == sameMax /\ r.max["D"] < r.max["S"]
        skipped == \/ sameMin /\ v.max["S"] = v.max["D"] /\ v.min["S"] = v.max["D"]
                   \/ /\ sameMax
                      /\ ~ cathodeFirst \/ minDrain
                      /\ PathCrosses(db.next.max, x.id["S"], db.next.min, x.id["D"])
        anode == IF sameMin /\ r.min["S"] < r.min["D"] /\ ~ (sameMax /\ ~ cathodeFirst)
                 THEN v.min["S"] ELSE v.max["S"]
        cathode == IF cathodeFirst /\ ~ minDrain THEN v.max["D"] ELSE v.min["D"]
        known(t) == CheckTerminalMinMaxVoltages(db, x, {t}, TRUE)
        cut == IsHiZ(db, x.power.max["S"]) \/ IsHiZ(db, x.power.min["D"])
        related(l) == IsRelatedPower(db, l, x.power[l]["S"], l, x.power[l]["D"], TRUE, TRUE)
    IN  /\ x.id["S"] # x.id["D"]
        /\ \/ /\ known("S") /\ known("D") /\ ~ skipped
              /\ IF anode - cathode > prm.forwardThreshold
                 THEN cut => \/ anode > v.max["D"]
                             \/ ~ IsRelatedPower(db, "max", x.power.max["S"],
                                                 "min", x.power.min["D"], TRUE, FALSE)
                 ELSE ~ (related("min") /\ related("max"))
           \/ known("S") /\ ~ known("D") /\ v.max["S"] > 0 /\ ~ IsHiZ(db, x.power.max["S"])
           \/ ~ known("S") /\ known("D") /\ v.min["D"] <= 0 /\ ~ IsHiZ(db, x.power.min["D"])

\* One error at most for all the diodes of a device.
ForwardDiodeError(db, prm, c) ==
    /\ ~ IsMos(c.device.type)
    /\ \E diode \in c.device.model.diodeList : ForwardBias(db, prm, SetDiodeConnections(c, diode))

-----------------------------------------------------------------------------
(* LDD devices (FindLDDErrors): the source of an LDDN must be the lower    *)
(* end, of an LDDP the upper end.                                          *)

LddnError(db, c) ==
    LET v == c.volt
        r == c.res
    IN  /\ CheckTerminalMinMaxVoltages(db, c, {"S", "D"}, TRUE)
        /\ v.max["S"] > v.min["D"]
        /\ \/ v.min["S"] > v.min["D"]
           \/ v.min["S"] = v.min["D"] /\ r.min["S"] > r.min["D"]
           \/ v.max["S"] > v.max["D"]
           \/ /\ v.max["S"] = v.max["D"] /\ r.max["S"] < r.max["D"]
              /\ v.min["S"] # v.max["D"] /\ c.next.max["D"] # c.id["S"]
        /\ ~ (Known(v.sim["G"]) /\ v.sim["G"] <= Least(v.min["S"], v.min["D"]))

\* Mutant: the resistances are compared as for an LDDN.
LddpErrorUnturned(db, c) ==
    LET v == c.volt
        r == c.res
    IN  /\ CheckTerminalMinMaxVoltages(db, c, {"S", "D"}, TRUE)
        /\ v.min["S"] < v.max["D"]
        /\ v.max["S"] < v.max["D"] \/ (v.min["S"] = v.min["D"] /\ r.min["S"] > r.min["D"])

LddpError(db, c) ==
    LET v == c.volt
        r == c.res
    IN  /\ CheckTerminalMinMaxVoltages(db, c, {"S", "D"}, TRUE)
        /\ v.min["S"] < v.max["D"]
        /\ \/ v.max["S"] < v.max["D"]
           \/ v.max["S"] = v.max["D"] /\ r.max["S"] > r.max["D"]
           \/ v.min["S"] < v.min["D"]
           \/ /\ v.min["S"] = v.min["D"] /\ r.min["S"] < r.min["D"]
              /\ v.max["S"] # v.min["D"] /\ c.next.min["D"] # c.id["S"]
        /\ ~ (Known(v.sim["G"]) /\ v.sim["G"] >= Greatest(v.max["S"], v.max["D"]))

LddError(db, c) ==
    \/ c.device.type = "LDDN" /\ LddnError(db, c)
    \/ c.device.type = "LDDP" /\ LddpError(db, c)

-----------------------------------------------------------------------------
(* Possible leaks through a device whose gate is unknown                   *)
(* (Find{N,P}mosPossibleLeakErrors).                                       *)

\* The part common to both checks: the simulated source and drain differ, or the minimum
\* and maximum voltages cross.
LeaksThrough(db, prm, c) ==
    LET s == c.power.sim["S"]
        d == c.power.sim["D"]
        cutOff(p, q) == IsHiZ(db, p) /\ ~ IsRelatedPower(db, "sim", p, "sim", q, FALSE, FALSE)
        internal(p) == ~ (db.power[p].input \/ db.power[p].power)
        calculated(p) == "sim" \in db.power[p].calculated
    IN  IF CheckTerminalVoltages(c, "sim", {"S", "D"})
        THEN /\ c.volt.sim["S"] # c.volt.sim["D"]
             /\ AbsoluteDifference(c.volt.sim["S"], c.volt.sim["D"]) > prm.leakThreshold
             /\ \/ cutOff(s, d)
                \/ cutOff(d, s)
                \/ /\ ~ internal(s) /\ ~ internal(d)
                   /\ calculated(s) \/ calculated(d) =>
                         Exceeds(EstimatedCurrent(db, c), prm.leakLimit)
        ELSE Exceeds(EstimatedMinimumCurrent(db, c), prm.leakLimit)

\* The voltage of the gate at this level, or the one saved before the simulation.
GateLimit(db, c, level) ==
    LET now == NetVoltage(db, level, c.id["G"])
    IN  IF Known(now) THEN now ELSE LeakVoltage(db, level, c.id["G"])

NmosPossibleLeakError(db, prm, c) ==
    LET gate == GateLimit(db, c, "max")
    IN  /\ IsNmos(c.device.type)
        /\ ~ Known(c.volt.sim["G"])
        /\ ~ /\ CheckTerminalVoltages(c, "min", {"S", "D"})
             /\ Known(gate)
             /\ \A t \in {"S", "D"} : gate <= c.volt.min[t] + c.device.Vth   \* always off
        /\ LeaksThrough(db, prm, c)

PmosPossibleLeakError(db, prm, c) ==
    LET gate == GateLimit(db, c, "min")
    IN  /\ IsPmos(c.device.type)
        /\ ~ Known(c.volt.sim["G"])
        /\ ~ /\ CheckTerminalVoltages(c, "max", {"S", "D"})
             /\ Known(gate)
             /\ \A t \in {"S", "D"} : gate >= c.volt.max[t] + c.device.Vth   \* always off
        /\ LeaksThrough(db, prm, c)

-----------------------------------------------------------------------------
(* Leak paths of a device with a floating gate.                            *)

\* IsAlwaysOff: with the voltages saved before the simulation the device never conducts.
IsOffAt(d, leak) ==
    LET all(l, ts) == \A t \in ts : Known(leak[l][t])
    IN  CASE IsNmos(d.type) ->
               /\ Known(leak.max["G"]) /\ all("min", {"S", "D"})
               /\ leak.max["G"] < Least(leak.min["S"], leak.min["D"]) + d.Vth
          [] IsPmos(d.type) ->
               /\ Known(leak.min["G"]) /\ all("max", {"S", "D"})
               /\ leak.min["G"] > Greatest(leak.max["S"], leak.max["D"]) + d.Vth
          [] d.type = "DIODE" ->
               Known(leak.min["D"]) /\ Known(leak.max["S"]) /\ leak.max["S"] > leak.min["D"]
          [] OTHER -> d.type \in {"CAPACITOR", "SWITCH_OFF"}

IsAlwaysOff(db, c) == IsOffAt(c.device, LeakFlags(db, c).leak)

\* The net a voltage of t comes from: the next net, or what a calculated one defaults to.
LeakSource(db, c, level, t) ==
    LET n == c.id[t]
    IN  IF HasPower(db, n) /\ level \in db.power[n].calculated /\ db.power[n].default[level] # NoNet
        THEN db.power[n].default[level] ELSE db.next[level][n]

\* DefaultMinVoltage and DefaultMaxVoltage of a calculated power, else the voltage itself.
LeakSourceVoltage(db, c, level, t) ==
    LET p == c.power[level][t]
    IN  IF p # NoNet /\ level \in db.power[p].calculated
        THEN NetVoltage(db, level, db.power[p].default[level]) ELSE c.volt[level][t]

\* A cut-off or inactive power on one side decides; the four tests are made in the order
\* min source, min drain, max source, max drain.  The result is "yes", "no" or "go on".
HiZLeak(db, c, level, t) ==
    LET other == IF t = "S" THEN "D" ELSE "S"
        far == IF level = "min" THEN "max" ELSE "min"
        p == c.power[level][t]
        q == c.power[far][other]
    IN  IF p = NoNet THEN "go on"
        ELSE IF level \notin db.power[p].active THEN "no"
        ELSE IF q = NoNet \/ ~ IsHiZ(db, p) THEN "go on"
        ELSE IF db.next[far][c.id[other]] = c.id[other] /\ ~ Known(c.volt[far][other]) THEN "no"
        ELSE IF IsRelatedPower(db, level, p, far, q, FALSE, FALSE) THEN "no" ELSE "yes"

HasLeakPathUnless(hiZ, db, prm, c) ==
    LET v == c.volt
        own(t, o) == /\ c.power.sim[t] # NoNet
                     /\ db.power[c.power.sim[t]].default.sim = c.id[o]
        through(t, o) == \A l \in {"min", "max"} :
                             LeakSource(db, c, l, t) = c.id[o] \/ ~ Known(v[l][t])
        lower(a, b) == Known(a) /\ Known(b) /\ a < b
    IN  IF hiZ # "go on" THEN hiZ = "yes"
        ELSE /\ ~ own("S", "D") /\ ~ own("D", "S")
             /\ ~ (Known(v.sim["S"]) /\
                   AbsoluteDifference(v.sim["S"], v.sim["D"]) < prm.floatingThreshold)
             /\ ~ through("S", "D") /\ ~ through("D", "S")
             /\ \/ lower(LeakSourceVoltage(db, c, "min", "S"), LeakSourceVoltage(db, c, "max", "D"))
                \/ lower(LeakSourceVoltage(db, c, "min", "D"), LeakSourceVoltage(db, c, "max", "S"))

HasLeakPath(db, prm, c) ==
    LET first(a, b) == IF a = "go on" THEN b ELSE a
    IN  HasLeakPathUnless(first(HiZLeak(db, c, "min", "S"),
                                first(HiZLeak(db, c, "min", "D"),
                                      first(HiZLeak(db, c, "max", "S"),
                                            HiZLeak(db, c, "max", "D")))),
                          db, prm, c)

=============================================================================
