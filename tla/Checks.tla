------------------------------- MODULE Checks -------------------------------
(***************************************************************************)
(* The checks of one mode and their error counts: the calls of             *)
(* CCvcDb_main.cc from stage 4 to stage 7, one action for each, with       *)
(* IncrementDeviceError, the limits on the reports and                     *)
(* PrintAndResetCircuitErrors at the end of each check.  The propagation   *)
(* between the stages is not here: the circuit has the voltages it leaves. *)
(*                                                                         *)
(* A circuit is that of NetChecks with, for each device, its instance      *)
(* (parent) and its place in its circuit (local, <<circuit, device>>), the *)
(* table of instances (inst), the error limits of the cells (errorLimit)   *)
(* and the checks asked for: expected levels (expected), nets that are     *)
(* outputs of inverters (inverterIO) and opposite nets (opposite).         *)
(***************************************************************************)
EXTENDS NetChecks, Instances, Bags

VARIABLES ckt,          \* the circuit
          prm,          \* the parameters of the mode
          todo,         \* the checks that remain
          status,       \* "running", "assert" or "endless"
          last, found,  \* the last check, and the errors it found
          shown,        \* the errors it printed with their connections
          counts,       \* errorCount, deviceErrorCount_v, devicePrintCount_v and
                        \* cellErrorCountMap
          lines,        \* the summary lines of the error file
          inactive,     \* devices with SIM_INACTIVE
          warnings,     \* the warnings of CheckConnections
          problemNets   \* setup mode: the nets with bias problems

vars == <<ckt, prm, todo, status, last, found, shown, counts, lines, inactive, warnings,
          problemNets>>

OverVoltageTypes == <<"OVERVOLTAGE_VBG", "OVERVOLTAGE_VBS", "OVERVOLTAGE_VDS",
                      "OVERVOLTAGE_VGS", "MODEL_CHECK">>
ErrorTypes == Range(OverVoltageTypes) \cup
    {"LDD_SOURCE", "HIZ_INPUT", "FORWARD_DIODE", "NMOS_SOURCE_BULK", "NMOS_GATE_SOURCE",
     "NMOS_POSSIBLE_LEAK", "PMOS_SOURCE_BULK", "PMOS_GATE_SOURCE", "PMOS_POSSIBLE_LEAK",
     "EXPECTED_VOLTAGE"}

UNKNOWN_DEVICE == 1000        \* larger than any count

-----------------------------------------------------------------------------
(* What a check finds: a sequence of <<type, device>>, in the order of the *)
(* calls of IncrementDeviceError.  Within a loop the order is that of the  *)
(* device numbers.                                                         *)

Selected(c, type, devices) ==
    LET ds == SelectSeq([i \in DOMAIN c.dev |-> i], LAMBDA i : i \in devices)
    IN  [k \in DOMAIN ds |-> <<type, ds[k]>>]

Mapped(c, i) == MapDeviceNets(c.db, c.dev[i])

InverterErrors(c, type, error) ==
    SelectSeq([k \in DOMAIN c.inverterIO |-> <<error, InverterIOError(c, c.inverterIO[k], type)>>],
              LAMBDA e : e[2] # NoDevice)

OppositeErrors(c, type) ==
    FlattenSeq([k \in DOMAIN c.opposite |->
        LET ds == OppositeLogicErrors(c, c.opposite[k][1], c.opposite[k][2], type)
        IN  Selected(c, "HIZ_INPUT", ds)])

DiodeErrors(c, p) ==
    Selected(c, "FORWARD_DIODE", {i \in DOMAIN c.dev : ForwardDiodeError(c.db, p, Mapped(c, i))})

NmosBulkErrors(c, p) ==
    Selected(c, "NMOS_SOURCE_BULK", {i \in DOMAIN c.dev : NmosSourceVsBulk(c.db, p, Mapped(c, i)) # {}})

PmosBulkErrors(c, p) ==
    Selected(c, "PMOS_SOURCE_BULK", {i \in DOMAIN c.dev : PmosSourceVsBulk(c.db, p, Mapped(c, i)) # {}})

NmosGateErrors(c, p) ==
    Selected(c, "NMOS_GATE_SOURCE",
             {i \in DOMAIN c.dev : NmosGateVsSourceError(c.db, p, Mapped(c, i))})
    \o InverterErrors(c, "NMOS", "NMOS_GATE_SOURCE") \o OppositeErrors(c, "NMOS")

PmosGateErrors(c, p) ==
    Selected(c, "PMOS_GATE_SOURCE",
             {i \in DOMAIN c.dev : /\ PmosGateVsSourceError(c.db, p, Mapped(c, i))
                                   /\ ~ ExpectsLowGate(c.db, p, Mapped(c, i))})
    \o InverterErrors(c, "PMOS", "PMOS_GATE_SOURCE") \o OppositeErrors(c, "PMOS")

LddErrors(c) == Selected(c, "LDD_SOURCE", {i \in DOMAIN c.dev : LddError(c.db, Mapped(c, i))})

OverVoltage(c, p) ==
    FlattenSeq([k \in 1 .. 4 |->
        Selected(c, OverVoltageTypes[k],
                 {i \in DOMAIN c.dev :
                     OverVoltageTypes[k] \in OverVoltageErrors(c.db, p, Mapped(c, i))})])
    \o FlattenSeq([i \in DOMAIN c.dev |->
           [k \in 1 .. Cardinality(ModelErrors(c.db, Mapped(c, i))) |->
               <<"MODEL_CHECK", i>>]])

NmosLeakErrors(c, p) ==
    Selected(c, "NMOS_POSSIBLE_LEAK",
             {i \in DOMAIN c.dev : NmosPossibleLeakError(c.db, p, Mapped(c, i))})

PmosLeakErrors(c, p) ==
    Selected(c, "PMOS_POSSIBLE_LEAK",
             {i \in DOMAIN c.dev : PmosPossibleLeakError(c.db, p, Mapped(c, i))})

FloatingInputs(c, p, off) ==
    Selected(c, "HIZ_INPUT", {i \in ListedMos(c) : FloatingInput(c, p, i, Mapped(c, i))})
    \o Selected(c, "HIZ_INPUT",
                {i \in ListedMos(c) : SecondaryFloatingInput(c, p, off, i, Mapped(c, i))})

\* The checks of a mode, in the order of CCvcDb_main.cc.  A setup run ends after stage 4.
Schedule(p) ==
    LET stage4 == (IF p.logicDiodes THEN <<>> ELSE <<"diodes">>)
                  \o (IF p.soi THEN <<>> ELSE <<"nmos bulk">>)
                  \o (IF p.setup THEN <<>> ELSE <<"nmos gate">>)
                  \o (IF p.soi THEN <<>> ELSE <<"pmos bulk">>)
                  \o (IF p.setup THEN <<>> ELSE <<"pmos gate">>)
    IN  IF p.setup THEN stage4
        ELSE stage4 \o (IF p.soi THEN <<>> ELSE <<"connections">>)
             \o <<"ldd", "inverters">>
             \o (IF p.logicDiodes THEN <<"diodes">> ELSE <<>>)
             \o <<"overvoltage", "nmos leak", "pmos leak", "floating", "expected">>

-----------------------------------------------------------------------------
(* Counting.                                                               *)

\* Only the overvoltage and model checks have counters of their own.
SubIndex(type) ==
    IF type \in Range(OverVoltageTypes)
    THEN (CHOOSE k \in 1 .. 5 : OverVoltageTypes[k] = type) - 1 ELSE 0

Keys(c) == {<<l[1], l[2], s>> : l \in Range(c.local), s \in 0 .. 4}

NothingCountedYet(c) ==
    [error |-> [t \in ErrorTypes |-> 0], device |-> [k \in Keys(c) |-> 0],
     print |-> [k \in Keys(c) |-> 0], cell |-> EmptyBag]

\* The first instance from id upwards whose master has an error limit, 0 if there is none.
RECURSIVE LimitedAncestor(_, _)
LimitedAncestor(c, id) ==
    IF id = 0 \/ c.errorLimit[c.inst[id].master] # UNKNOWN_DEVICE THEN id
    ELSE LimitedAncestor(c, c.inst[id].parentId)

\* Mutant: an error in an instance is one error, however many instances it stands for.
IncrementDeviceErrorByOne(c, p, n, type, i) ==
    LET key == <<c.local[i][1], c.local[i][2], SubIndex(type)>>
    IN  [counts |-> [n EXCEPT !.device[key] = @ + 1, !.error[type] = @ + 1,
                              !.print[key] = @ + 1],
         count |-> n.print[key] + 1]

\* IncrementDeviceError: the new counts, and the number the callers compare with the
\* error limit.
IncrementDeviceError(c, p, n, type, i) ==
    LET key == <<c.local[i][1], c.local[i][2], SubIndex(type)>>
        ancestor == IF p.cellErrorLimitFile THEN LimitedAncestor(c, c.parent[i]) ELSE 0
        master == c.inst[ancestor].master
        limit == IF ancestor > 0 THEN c.errorLimit[master] ELSE UNKNOWN_DEVICE
        counted == ancestor > 0 /\ limit > 0
        cell == IF counted THEN n.cell (+) SetToBag({<<master, key>>}) ELSE n.cell
        inCell == CopiesIn(<<master, key>>, cell)
        count == IF ancestor = 0 THEN n.print[key] + 1
                 ELSE IF counted /\ inCell <= limit THEN inCell ELSE UNKNOWN_DEVICE
        factor == IF limit > 0 THEN CalculateMFactor(c.inst, c.parent[i]) ELSE 0
    IN  [counts |-> [n EXCEPT !.device[key] = @ + factor, !.error[type] = @ + factor,
                              !.print[key] = @ + (IF count < UNKNOWN_DEVICE THEN 1 ELSE 0),
                              !.cell = cell],
         count |-> count]

\* One error: PrintOverVoltageError and PrintModelError do not count when there is no
\* limit, the other checks do.
ReportError(c, p, st, e) ==
    LET r == IncrementDeviceError(c, p, st.counts, e[1], e[2])
    IN  IF p.circuitErrorLimit = 0 /\ e[1] \in Range(OverVoltageTypes)
        THEN [st EXCEPT !.shown = Append(@, e)]
        ELSE [counts |-> r.counts,
              shown |-> IF r.count < p.circuitErrorLimit \/ p.circuitErrorLimit = 0
                        THEN Append(st.shown, e) ELSE st.shown]

\* Mutant: the counts of the errors stay.
ResetPrintsOnly(n, s) ==
    [n EXCEPT !.print = [k \in DOMAIN n.print |-> IF k[3] = s THEN 0 ELSE n.print[k]],
              !.cell = EmptyBag]

\* Mutant: the counts of the reports stay.
ResetErrorsOnly(n, s) ==
    [n EXCEPT !.device = [k \in DOMAIN n.device |-> IF k[3] = s THEN 0 ELSE n.device[k]],
              !.cell = EmptyBag]

\* PrintAndResetCircuitErrors for one sub-index: the counters afterwards, and the lines.
ResetCircuitErrors(n, s) ==
    [n EXCEPT !.print = [k \in DOMAIN n.print |-> IF k[3] = s THEN 0 ELSE n.print[k]],
              !.device = [k \in DOMAIN n.device |-> IF k[3] = s THEN 0 ELSE n.device[k]],
              !.cell = EmptyBag]

SummaryLines(check, n, s) ==
    {[check |-> check, key |-> k, errors |-> n.device[k]] :
        k \in {x \in DOMAIN n.print : x[3] = s /\ n.print[x] > 0}}

\* One check with its reports and its summaries; AppendErrorFile is called for each of
\* the sub-indexes (subs) in turn.  st is the state after the reports.
Finish(check, errors, st, subs) ==
    /\ todo' = Tail(todo) /\ last' = check /\ found' = errors
    /\ shown' = st.shown
    /\ counts' = FoldLeft(ResetCircuitErrors, st.counts, subs)
    /\ lines' = lines \cup UNION {SummaryLines(check, st.counts, s) : s \in Range(subs)}

Reported(errors) ==
    FoldLeft(LAMBDA x, e : ReportError(ckt, prm, x, e), [counts |-> counts, shown |-> <<>>], errors)

RunCheck(check, errors) ==
    /\ todo # <<>> /\ Head(todo) = check /\ status = "running"
    /\ Finish(check, errors, Reported(errors),
              IF check = "overvoltage" THEN <<0, 1, 2, 3, 4>> ELSE <<0>>)

-----------------------------------------------------------------------------
(* The calls.                                                              *)

Others == <<ckt, prm, status, inactive, warnings, problemNets>>

FindForwardBiasDiodes ==
    RunCheck("diodes", DiodeErrors(ckt, prm)) /\ UNCHANGED Others

\* In setup mode the nets of the direct errors are collected, and nothing is counted.
CollectProblemNets(check, nets) ==
    /\ prm.setup
    /\ todo # <<>> /\ Head(todo) = check
    /\ todo' = Tail(todo)
    /\ problemNets' = problemNets \cup UNION nets
    /\ UNCHANGED <<ckt, prm, status, last, found, shown, counts, lines, inactive, warnings>>

ProblemNets(flags) == {SourceBulkProblemNets(ckt.dev[i], flags[i]) : i \in DOMAIN ckt.dev}

FindNmosSourceVsBulkErrors ==
    \/ ~ prm.setup /\ RunCheck("nmos bulk", NmosBulkErrors(ckt, prm)) /\ UNCHANGED Others
    \/ CollectProblemNets("nmos bulk", ProblemNets(
           [i \in DOMAIN ckt.dev |-> NmosSourceVsBulk(ckt.db, prm, Mapped(ckt, i))]))

FindPmosSourceVsBulkErrors ==
    \/ ~ prm.setup /\ RunCheck("pmos bulk", PmosBulkErrors(ckt, prm)) /\ UNCHANGED Others
    \/ CollectProblemNets("pmos bulk", ProblemNets(
           [i \in DOMAIN ckt.dev |-> PmosSourceVsBulk(ckt.db, prm, Mapped(ckt, i))]))

\* CheckOppositeLogic may fail an assertion or not return, at the first pair that does.
AfterOppositeLogic ==
    LET outcome == [k \in DOMAIN ckt.opposite |-> OppositeLogic(ckt, ckt.opposite[k][1],
                                                                ckt.opposite[k][2])]
        bad == SelectSeq(outcome, LAMBDA o : o \in {"assert", "endless"})
    IN  IF bad = <<>> THEN "running" ELSE Head(bad)

FindNmosGateVsSourceErrors ==
    /\ RunCheck("nmos gate", NmosGateErrors(ckt, prm))
    /\ status' = AfterOppositeLogic
    /\ UNCHANGED <<ckt, prm, inactive, warnings, problemNets>>

FindPmosGateVsSourceErrors ==
    LET low == SelectSeq([i \in DOMAIN ckt.dev |-> i],
                         LAMBDA i : ExpectsLowGate(ckt.db, prm, MapDeviceNets(ckt.db, ckt.dev[i])))
        expect(i) == [net |-> ckt.dev[i].G, sim |-> <<"volt", 0>>,
                      min |-> <<"none">>, max |-> <<"none">>]
    IN  /\ RunCheck("pmos gate", PmosGateErrors(ckt, prm))
        /\ ckt' = [ckt EXCEPT !.expected = @ \o [k \in DOMAIN low |-> expect(low[k])]]
        /\ status' = AfterOppositeLogic
        /\ UNCHANGED <<prm, inactive, warnings, problemNets>>

CheckConnections ==
    /\ todo # <<>> /\ Head(todo) = "connections" /\ status = "running"
    /\ todo' = Tail(todo)
    /\ warnings' = {w \in {<<n, BiasWarning(ckt, n)>> : n \in Range(ckt.order)} : w[2] # "none"}
    /\ UNCHANGED <<ckt, prm, status, last, found, shown, counts, lines, inactive, problemNets>>

FindLDDErrors == RunCheck("ldd", LddErrors(ckt)) /\ UNCHANGED Others

\* ResetMinMaxPower before it is not modelled here.
SetTheInverters ==
    /\ todo # <<>> /\ Head(todo) = "inverters" /\ status = "running"
    /\ todo' = Tail(todo)
    /\ last' = "inverters"
    /\ ckt' = SetInverters(ckt)
    /\ UNCHANGED <<prm, status, found, shown, counts, lines, inactive, warnings, problemNets>>

FindAllOverVoltageErrors ==
    RunCheck("overvoltage", OverVoltage(ckt, prm)) /\ UNCHANGED Others

FindNmosPossibleLeakErrors ==
    RunCheck("nmos leak", NmosLeakErrors(ckt, prm)) /\ UNCHANGED Others

FindPmosPossibleLeakErrors ==
    RunCheck("pmos leak", PmosLeakErrors(ckt, prm)) /\ UNCHANGED Others

FindFloatingInputErrors ==
    /\ RunCheck("floating", FloatingInputs(ckt, prm, MadeInactive(ckt)))
    /\ inactive' = inactive \cup MadeInactive(ckt)
    /\ UNCHANGED <<ckt, prm, status, warnings, problemNets>>

\* Expected voltage errors do not respect the limits and have no summary.
CheckExpectedValues ==
    /\ todo # <<>> /\ Head(todo) = "expected" /\ status = "running"
    /\ todo' = Tail(todo)
    /\ last' = "expected"
    /\ counts' = [counts EXCEPT !.error["EXPECTED_VOLTAGE"] =
                     @ + FoldLeft(LAMBDA sum, e : sum + Cardinality(ExpectedErrors(ckt.db, prm, e)),
                                  0, ckt.expected)]
    /\ UNCHANGED <<ckt, prm, status, found, shown, lines, inactive, warnings, problemNets>>

Start(c, p) ==
    /\ ckt = c /\ prm = p
    /\ todo = Schedule(p)
    /\ status = "running" /\ last = "none" /\ found = <<>> /\ shown = <<>>
    /\ counts = NothingCountedYet(c)
    /\ lines = {} /\ inactive = {} /\ warnings = {} /\ problemNets = {}

Next ==
    \/ FindForwardBiasDiodes
    \/ FindNmosSourceVsBulkErrors
    \/ FindNmosGateVsSourceErrors
    \/ FindPmosSourceVsBulkErrors
    \/ FindPmosGateVsSourceErrors
    \/ CheckConnections
    \/ FindLDDErrors
    \/ SetTheInverters
    \/ FindAllOverVoltageErrors
    \/ FindNmosPossibleLeakErrors
    \/ FindPmosPossibleLeakErrors
    \/ FindFloatingInputErrors
    \/ CheckExpectedValues

-----------------------------------------------------------------------------
(* Properties of the counts.                                               *)

\* Every error that is counted is in one summary line: the lines of all the checks add up
\* to the totals, so that no check leaves counts for the next one and none is lost, with
\* and without the limits of cells.
SummariesAddUp ==
    MapThenSumSet(LAMBDA t : counts.error[t], ErrorTypes \ {"EXPECTED_VOLTAGE"})
        = MapThenSumSet(LAMBDA l : l.errors, lines)

NumberAt(key, errors) ==
    Len(SelectSeq(errors, LAMBDA e : <<ckt.local[e[2]][1], ckt.local[e[2]][2], SubIndex(e[1])>> = key))

\* Without limits of cells every error at a device of a circuit is shown while there are
\* fewer than the limit, whatever the checks before it have counted, and never more than the
\* limit are shown ("Once the error limit is exceeded, specific device information is NOT
\* printed").
ReportsUpToLimit ==
    ~ prm.cellErrorLimitFile =>
        \A key \in Keys(ckt) :
            LET limit == prm.circuitErrorLimit
                n == NumberAt(key, found)
            IN  /\ limit = 0 \/ n < limit => NumberAt(key, shown) = n
                /\ limit > 0 => NumberAt(key, shown) <= limit

-----------------------------------------------------------------------------
(* Properties of the inverters.  ckt.driver is inverterNet at the start.   *)

\* The nets from which n is driven through inverters, n included.
RECURSIVE Drivers(_, _, _)
Drivers(driver, n, seen) ==
    IF n = NoNet \/ n \in seen THEN seen ELSE Drivers(driver, driver[n], seen \cup {n})

IsRing(driver, n) == driver[n] # NoNet /\ n \in Drivers(driver, driver[n], {})
EndsInRing(driver, n) == \E m \in Drivers(driver, n, {}) : IsRing(driver, m)

\* The first net of a chain that has one.
Root(driver, n) == CHOOSE m \in Drivers(driver, n, {}) : driver[m] = NoNet
IsInverse(driver, n) == Cardinality(Drivers(driver, n, {})) % 2 = 0

\* SetInverters finds the first net of every chain and whether the net is its inverse, in
\* whatever order the nets are visited; behind a ring it stops at a net of the ring.
OriginsAreExact ==
    last # "none" /\ "inverters" \notin Range(todo) =>
        \A n \in DOMAIN ckt.driver :
            IF EndsInRing(ckt.driver, n)
            THEN IsRing(ckt.driver, ckt.inverterNet[n])
            ELSE /\ ckt.inverterNet[n] = (IF ckt.driver[n] = NoNet THEN NoNet
                                          ELSE Root(ckt.driver, n))
                 /\ ckt.highLow[n] = IsInverse(ckt.driver, n)

AreOpposite(driver, a, b) ==
    /\ Root(driver, a) = Root(driver, b)
    /\ IsInverse(driver, a) # IsInverse(driver, b)

\* Where no ring is involved, CheckOppositeLogic ends and accepts exactly the nets with the
\* same first net and an odd number of inverters between them.
OppositeIsExact ==
    \A k \in DOMAIN ckt.opposite :
        LET a == ckt.opposite[k][1]
            b == ckt.opposite[k][2]
        IN  ~ EndsInRing(ckt.driver, a) /\ ~ EndsInRing(ckt.driver, b) =>
               OppositeLogic([ckt EXCEPT !.inverterNet = ckt.driver], a, b) =
                   IF AreOpposite(ckt.driver, a, b) THEN "opposite" ELSE "error"

=============================================================================
