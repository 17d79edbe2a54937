---------------------------- MODULE CheckDuality ----------------------------
(***************************************************************************)
(* Properties of the checks that compare a circuit with another one: its   *)
(* mirror image (every voltage negated, so that the minimum is the         *)
(* maximum, and N channel devices are P channel devices), the circuit with *)
(* source and drain of a device exchanged, the same circuit under larger   *)
(* thresholds and the circuit without sharing of parallel instances.       *)
(***************************************************************************)
EXTENDS Checks

\* What a check finds.
Errors(c, p, check) ==
    CASE check = "diodes" -> DiodeErrors(c, p)
      [] check = "nmos bulk" -> NmosBulkErrors(c, p)
      [] check = "pmos bulk" -> PmosBulkErrors(c, p)
      [] check = "nmos gate" -> NmosGateErrors(c, p)
      [] check = "pmos gate" -> PmosGateErrors(c, p)
      [] check = "ldd" -> LddErrors(c)
      [] check = "overvoltage" -> OverVoltage(c, p)
      [] check = "nmos leak" -> NmosLeakErrors(c, p)
      [] check = "pmos leak" -> PmosLeakErrors(c, p)
      [] check = "floating" -> FloatingInputs(c, p, MadeInactive(c))
      [] OTHER -> <<>>

-----------------------------------------------------------------------------
(* The mirror image.                                                       *)

Negated(v) == IF Known(v) THEN -v ELSE v
Flipped(l) == CASE l = "min" -> "max" [] l = "max" -> "min" [] OTHER -> l

MirrorPower(p) ==
    [p EXCEPT !.min = Negated(p.max), !.sim = Negated(p.sim), !.max = Negated(p.min),
              !.calculated = {Flipped(l) : l \in p.calculated},
              !.default = [l \in Levels |-> p.default[Flipped(l)]],
              !.active = {Flipped(l) : l \in p.active}]

MirrorDb(db) ==
    [power  |-> [n \in DOMAIN db.power |-> MirrorPower(db.power[n])],
     next   |-> [l \in Levels |-> db.next[Flipped(l)]],
     res    |-> [l \in Levels |-> db.res[Flipped(l)]],
     backup |-> [l \in {"min", "max"} |-> db.backup[Flipped(l)]],
     leak   |-> [n \in DOMAIN db.leak |->
                    [l \in {"min", "max"} |-> Negated(db.leak[n][Flipped(l)])]]]

MirrorType(t) ==
    CASE t = "NMOS" -> "PMOS" [] t = "PMOS" -> "NMOS"
      [] t = "LDDN" -> "LDDP" [] t = "LDDP" -> "LDDN" [] OTHER -> t

MirrorCheck(check) ==
    [minExclusive |-> Negated(check.maxExclusive), minInclusive |-> Negated(check.maxInclusive),
     maxExclusive |-> Negated(check.minExclusive), maxInclusive |-> Negated(check.minInclusive)]

MirrorDevice(d) ==
    [d EXCEPT !.type = MirrorType(d.type), !.Vth = -d.Vth,
              !.model.checkList = {MirrorCheck(x) : x \in @},
              !.model.diodeList = {<<x[2], x[1]>> : x \in @}]

Mirror(c) == [c EXCEPT !.db = MirrorDb(c.db), !.dev = [i \in DOMAIN c.dev |-> MirrorDevice(c.dev[i])]]

DualName ==
    [x \in {"nmos bulk", "pmos bulk", "nmos gate", "pmos gate", "nmos leak", "pmos leak",
            "NMOS_SOURCE_BULK", "PMOS_SOURCE_BULK", "NMOS_GATE_SOURCE", "PMOS_GATE_SOURCE",
            "NMOS_POSSIBLE_LEAK", "PMOS_POSSIBLE_LEAK"} |->
        CASE x = "nmos bulk" -> "pmos bulk" [] x = "pmos bulk" -> "nmos bulk"
          [] x = "nmos gate" -> "pmos gate" [] x = "pmos gate" -> "nmos gate"
          [] x = "nmos leak" -> "pmos leak" [] x = "pmos leak" -> "nmos leak"
          [] x = "NMOS_SOURCE_BULK" -> "PMOS_SOURCE_BULK"
          [] x = "PMOS_SOURCE_BULK" -> "NMOS_SOURCE_BULK"
          [] x = "NMOS_GATE_SOURCE" -> "PMOS_GATE_SOURCE"
          [] x = "PMOS_GATE_SOURCE" -> "NMOS_GATE_SOURCE"
          [] x = "NMOS_POSSIBLE_LEAK" -> "PMOS_POSSIBLE_LEAK"
          [] x = "PMOS_POSSIBLE_LEAK" -> "NMOS_POSSIBLE_LEAK"]
Dual(x) == IF x \in DOMAIN DualName THEN DualName[x] ELSE x

\* The errors of the mirror image, turned back.
MirroredErrors ==
    {<<Dual(e[1]), e[2]>> : e \in Range(Errors(Mirror(ckt), prm, Dual(last)))}

\* The checks with a form for N and one for P channel devices, or one form that is its own
\* mirror image.  The diode check is not: it takes an open end for 0 V, which is an error
\* at the cathode and none at the anode.  Nor is the floating check: HasLeakPath tests the
\* minimum before the maximum, and HasParallelShort takes an unknown voltage for a high one.
DualChecks == DOMAIN DualName \cup {"ldd", "overvoltage"}

IsDepletion(d) == (IsNmos(d.type) /\ d.Vth < 0) \/ (IsPmos(d.type) /\ d.Vth > 0)

\* Where the code is not its own mirror image.  The check of gate and bulk looks at the
\* current minimum of the gate, and at the saved ones otherwise.
VbgIsOneSided(db, c) ==
    LET f == LeakFlags(db, c)
    IN  \E l \in {"min", "max"} : f.valid[l]["G"] # f.validLeak[l]["G"]

\* The gate checks look at the ends of a capacitor at level min in both forms, only the P
\* form turns errors into expected levels, and the difference of a depletion device starts
\* below 0 in the N form and above 0 in the P form.
GateIsOneSided(p, c) ==
    p.logicDiodes \/ c.id["S"] = c.id["D"] \/ IsDepletion(c.device)

\* The bulk checks compare with a bulk voltage that may be UNKNOWN_VOLTAGE, a large number,
\* when the bulk is cut off.
BulkIsOneSided(db, c) ==
    /\ \E l \in {"min", "max"} : IsHiZ(db, c.power[l]["B"])
    /\ \E l \in {"min", "max"} : ~ Known(c.volt[l]["B"])

IsOneSided(e) ==
    LET c == Mapped(ckt, e[2])
    IN  CASE e[1] = "OVERVOLTAGE_VBG" -> VbgIsOneSided(ckt.db, c)
          [] last \in {"nmos gate", "pmos gate"} -> GateIsOneSided(prm, c)
          [] last \in {"nmos bulk", "pmos bulk"} -> BulkIsOneSided(ckt.db, c)
          [] OTHER -> FALSE

\* The code has a check for N channel devices and another, written out with every
\* comparison turned, for P channel devices: a circuit and its mirror image have the same
\* errors, but for the cases above.
MirrorDuality ==
    last \in DualChecks =>
        {e \in Range(found) : ~ IsOneSided(e)} = {e \in MirroredErrors : ~ IsOneSided(e)}

-----------------------------------------------------------------------------
(* Source and drain.                                                       *)

IsSymmetric(d) == d.type \notin {"LDDN", "LDDP", "DIODE", "BIPOLAR"}

SwapDevice(d) ==
    LET other(t) == CASE t = "S" -> "D" [] t = "D" -> "S" [] OTHER -> t
    IN  IF IsSymmetric(d)
        THEN [d EXCEPT !.S = d.D, !.D = d.S,
                       !.model.diodeList = {<<other(x[1]), other(x[2])>> : x \in @}]
        ELSE d

Swap(c) == [c EXCEPT !.dev = [i \in DOMAIN c.dev |-> SwapDevice(c.dev[i])]]

\* In the floating check the order decides between cut-off or inactive powers that
\* contradict each other (HasLeakPath), and which of two ends with as many connections is
\* the drain (HasParallelShort).  EstimatedMinimumCurrent takes the drain on a tie, which
\* matters when the minimum of a net is above its maximum.
DependsOnOrder(e) ==
    LET c == Mapped(ckt, e[2])
        v == c.volt
        decides(l, t) == /\ c.power[l][t] # NoNet
                         /\ \/ IsHiZ(ckt.db, c.power[l][t])
                            \/ l \notin ckt.db.power[c.power[l][t]].active
    IN  \/ /\ last = "floating"
           /\ \/ SourceDrainCount(ckt, c.id["S"]) = SourceDrainCount(ckt, c.id["D"])
              \/ \E l \in {"min", "max"}, t \in {"S", "D"} : decides(l, t)
        \/ /\ last \in {"nmos leak", "pmos leak"}
           /\ \E t \in {"S", "D"} : Known(v.max[t]) /\ Known(v.min[t]) /\ v.max[t] < v.min[t]

\* The source and the drain of a device are interchangeable: the netlist lists them in
\* any order, and no check depends on it, except those of LDD devices and diodes and in the
\* cases above.
SwapSymmetry ==
    LET swapped == Range(Errors(Swap(ckt), prm, last))
    IN  last \notin {"none", "inverters", "expected"} =>
            {e \in Range(found) : ~ DependsOnOrder(e)} = {e \in swapped : ~ DependsOnOrder(e)}

-----------------------------------------------------------------------------
(* Thresholds.                                                             *)

Tolerance(check) ==
    CASE check = "diodes" -> "forwardThreshold"
      [] check \in {"nmos bulk", "pmos bulk"} -> "biasThreshold"
      [] check \in {"nmos gate", "pmos gate"} -> "gateThreshold"
      [] check = "overvoltage" -> "overvoltageThreshold"
      [] check = "floating" -> "floatingThreshold"
      [] OTHER -> "leakThreshold"

\* Where a difference above the threshold may be no error although one below it is: a
\* pumping capacitor between source and drain, whose saved voltages count only below, and
\* a diode at a cut-off power, whose ends must be related at each level only below.
HasGapAbove(e) ==
    LET c == Mapped(ckt, e[2])
    IN  \/ e[1] = "OVERVOLTAGE_VDS" /\ IsPumpCapacitor(c)
        \/ e[1] = "FORWARD_DIODE" /\ \E t \in Terminals, l \in Levels : IsHiZ(ckt.db, c.power[l][t])

\* A larger error threshold never adds an error to those the check found, but for the
\* cases above.
ThresholdsAreMonotone ==
    \A e \in Range(Errors(ckt, [prm EXCEPT ![Tolerance(last)] = @ + 1], last)) :
        e \in Range(found) \/ HasGapAbove(e)

-----------------------------------------------------------------------------
(* Parallel instances.                                                     *)

NumberOf(type, errors) == Len(SelectSeq(errors, LAMBDA e : e[1] = type))

InstancesOf(inst, c) == {i \in DOMAIN inst : inst[i].master = c}

RECURSIVE Ancestors(_, _)
Ancestors(inst, i) ==
    IF i = 0 THEN {} ELSE {inst[i].parentId} \cup Ancestors(inst, inst[i].parentId)

\* A circuit with more ports than cvcParallelCircuitPortLimit (ckt.wide) inside an instance
\* that stands for others: its count starts at 0 instead of 1.
IsUndercounted(c, i) ==
    /\ c.inst[i].master \in c.wide /\ ~ IsParallelInstance(c.inst[i])
    /\ \E a \in Ancestors(c.inst, i) : ~ IsParallelInstance(c.inst[a]) /\ c.inst[a].parallel > 1

\* Instances in parallel are checked once, and each error counts for all of them: after
\* every check the totals are those of the netlist with every instance expanded (ckt.flat),
\* when no limit of a cell hides errors, and lower ones only where a circuit has too many
\* ports.  The table of instances has the size CountObjectsAndLinkSubcircuits
\* counted (ckt.counted), for every circuit.
TotalsAreFlat ==
    last # "none" /\ prm.circuitErrorLimit > 0 /\ ~ prm.cellErrorLimitFile /\ DOMAIN ckt.inst # {0} =>
        LET checks == SubSeq(Schedule(prm), 1, Len(Schedule(prm)) - Len(todo))
            all == FlattenSeq([k \in DOMAIN checks |-> Errors(ckt.flat, prm, checks[k])])
            exact == ~ \E i \in DOMAIN ckt.inst : IsUndercounted(ckt, i)
        IN  /\ \A t \in ErrorTypes \ {"EXPECTED_VOLTAGE"} :
                  /\ counts.error[t] <= NumberOf(t, all)
                  /\ exact => counts.error[t] = NumberOf(t, all)
            /\ \A c \in DOMAIN ckt.counted.instances :
                  ckt.counted.instances[c] = Cardinality(InstancesOf(ckt.inst, c))
            /\ ckt.counted.subcircuits["top"] = Cardinality(DOMAIN ckt.inst)

=============================================================================
