---------------------------- MODULE MinMaxPasses ----------------------------
(***************************************************************************)
(* What surrounds the events of the passes (CCvcDb.cc,                     *)
(* CCvcDb_utility.cc): the powers of resistor networks, the start of a     *)
(* min/max pass from the voltages known before it, and the removal of the  *)
(* calculated voltages nothing confirms after it.                          *)
(***************************************************************************)
EXTENDS LogicPower

CONSTANT UnknownResistance    \* DEFAULT_UNKNOWN_RESISTANCE

ASSUME MinMaxPassesAssumption == UnknownResistance \in Nat \ {0}

-----------------------------------------------------------------------------
(* Resistor networks.                                                      *)

\* SetResistorVoltagesByPower up to the events.
StartResistors(s) ==
    LET enqueue(r, n, l) ==
            LET p == r.power[n]
            IN  IF ~ Known(p[l]) THEN r
                ELSE EnqueueAttachedResistors(r, l, n, p[l], DefaultQueuePosition(p.power, l))
        both(r, n) == enqueue(enqueue(r, n, "min"), n, "max")
    IN  [Each(both, s, s.list) EXCEPT !.queue.min.start = TRUE, !.queue.max.start = TRUE]

ResistorPower == [NewPower EXCEPT !.resistor = TRUE, !.extra = TRUE, !.powerSignal = "resistor"]

\* PropagateResistorCalculations.
PropagateResistorCalculations(s, n) ==
    LET add(r, m) == IF HasPower(r, m) THEN r ELSE AddPower(r, m, ResistorPower)
        ends(r, d) == IF r.device[d].type # "RESISTOR" THEN r
                      ELSE add(add(r, r.device[d]["D"]), r.device[d]["S"])
    IN  Each(ends, s, Attached(s, "S", n) \o Attached(s, "D", n))

\* The first loop of CalculateResistorVoltages, over a list that grows.
RECURSIVE FromResistorPowers(_, _)
FromResistorPowers(s, i) ==
    IF i > Len(s.list) THEN s
    ELSE FromResistorPowers(IF s.power[s.list[i]].resistor
                            THEN PropagateResistorCalculations(s, s.list[i]) ELSE s, i + 1)

\* CalculateResistorVoltage: the division of the voltages min and max of n by the
\* resistances to them.
CalculateResistorVoltage(s, n, v, r) ==
    LET low == s.next.min[n]
        high == s.next.max[n]
        p == [l \in {"min", "max"} |-> MasterPower(s, l, n)]
        share == (AbsoluteDifference(v.max, v.min) * r.min) \div (r.min + r.max)
        new == IF v.max < v.min THEN v.min - share ELSE v.min + share
        old == IF HasPower(s, n) THEN s.power[n]
               ELSE [NewPower EXCEPT !.extra = TRUE, !.powerSignal = "resistor"]
        power == [old EXCEPT !.min = new, !.sim = new, !.max = new,
                             !.calc = [l \in Levels |-> "RESISTOR"],
                             !.default.min = FinalNet(s.next.min, n),
                             !.default.max = FinalNet(s.next.max, n),
                             !.calculated = @ \cup {"min", "max"}, !.analog = TRUE, !.resistor = TRUE]
    IN  IF \/ \E l \in {"min", "max"} : ~ Known(v[l]) \/ r[l] = 0 \/ p[l] = NoNet \/ IsHiZ(s, p[l])
           \/ low = high
           \/ ~ IsTerminal(s, "min", low) /\ s.next.max[low] # n
           \/ ~ IsTerminal(s, "max", high) /\ s.next.min[high] # n
        THEN s
        ELSE IF HasPower(s, n) THEN SetPower(s, n, power) ELSE AddPower(s, n, power)

\* The second loop: the ends of each resistor, from what MapDeviceNets found before.
CalculateAtResistor(s, d) ==
    LET isNeeded(r, n) == IF HasPower(r, n) THEN r.power[n].resistor /\ ~ Known(r.power[n].sim)
                          ELSE r.sdType[n] = {"RESISTOR"}
        calculate(r, t) ==
            LET n == s.device[d][t]
                v == [l \in {"min", "max"} |-> NetVoltage(s, l, n)]
            IN  IF ~ isNeeded(r, n) \/ v.min = v.max THEN r
                ELSE CalculateResistorVoltage(r, n, v, [l \in {"min", "max"} |-> Resistance(s, l, n)])
    IN  IF s.device[d].type # "RESISTOR" \/ d \in s.inactive.sim THEN s
        ELSE calculate(calculate(s, "S"), "D")

\* The third loop: the nets with a calculated voltage become the ends of their chains, from
\* the lowest net of a chain of resistors on towards max.  final is the resistance each net
\* had before.
RECURSIVE LowestNet(_, _)
LowestNet(s, n) ==
    LET m == s.next.min[n]
    IN  IF HasSim(s, m) /\ ~ IsTerminal(s, "min", m) THEN LowestNet(s, m) ELSE n

RECURSIVE EndChains(_, _, _)
EndChains(s, final, n) ==
    LET m == s.next.max[n]
        r == [s EXCEPT !.next.min[n] = n, !.next.max[n] = n,
                       !.res.min[n] = final.min[n], !.res.max[n] = final.max[n]]
    IN  IF HasSim(r, m) /\ ~ IsTerminal(r, "max", m) THEN EndChains(r, final, m) ELSE r

CalculateResistorVoltages(s) ==
    LET powers == FromResistorPowers(s, 1)
        voltages == Each(CalculateAtResistor, powers, [i \in DOMAIN s.device |-> i])
        final == [l \in {"min", "max"} |-> [n \in DOMAIN s.next.min |-> Resistance(voltages, l, n)]]
        end(r, n) == IF r.power[n].resistor /\ Known(r.power[n].sim) /\ r.power[n].calculated # {}
                     THEN EndChains(r, final, LowestNet(r, n)) ELSE r
    IN  Each(end, voltages, voltages.list)

-----------------------------------------------------------------------------
(* The start of a min/max pass.                                            *)

\* ResetMinMaxPower for one net before the simulation: chains to be kept are those that
\* are also sim chains.
ResetFromResistors(s, n) ==
    LET keep(r, l) == IF r.next[l][n] = r.next.sim[n] THEN r ELSE Set(r, l, n, n, 0)
    IN  keep(keep(s, "min"), "max")

\* Mutant: the chains of the first pass stay.
CopiesSimNever(old, s, l, n) == FALSE

\* ... and after it: a chain is that of the simulation, unless the net has a voltage of
\* its own that is stricter.  old is the database at the start.
CopiesSim(old, s, l, n) ==
    LET mine == FinalNet(old.next[l], n)
        p == FinalNet(s.next.sim, n)
    IN  \/ ~ HasPower(s, mine) \/ ~ Known(s.power[mine][l])
        \/ IF l = "min" THEN Known(s.power[p].min) /\ s.power[mine].min <= s.power[p].min
           ELSE s.power[mine].max >= s.power[p].max

ResetFromSim(old, s, n) ==
    LET p == FinalNet(s.next.sim, n)
        copy(r, l) == [r EXCEPT !.next[l][n] = r.next.sim[n], !.res[l][n] = r.res.sim[n]]
        reset(r, l) == IF CopiesSim(old, r, l, n) THEN copy(r, l) ELSE Set(r, l, n, n, 0)
    IN  IF ~ HasSim(s, p) THEN copy(copy(s, "min"), "max")
        ELSE reset(reset(s, "min"), "max")

\* Mutant: the saved power itself is cleared.
ClearCalculatedInPlace(s, n) ==
    IF HasPower(s, n) /\ s.power[n].calculated # {} /\ HasPower(s, FinalNet(s.next.sim, n))
       /\ ~ Known(NetVoltage(s, "sim", n))
    THEN SetPower(s, n, [s.power[n] EXCEPT !.min = UNKNOWN_VOLTAGE, !.max = UNKNOWN_VOLTAGE,
                                           !.calculated = @ \ {"min", "max"}])
    ELSE s

\* The calculated voltages of a net without a simulated one are cleared, in a power that
\* is no longer the saved one.
ClearCalculated(s, n) ==
    LET p == FinalNet(s.next.sim, n)
        levels == s.power[n].calculated \cap {"min", "max"}
        apart == IF levels = {} THEN s ELSE [s EXCEPT !.shared = @ \ {n}]
        cleared == [l \in Levels |-> IF l \in levels THEN UNKNOWN_VOLTAGE ELSE s.power[n][l]]
        new == [s.power[n] EXCEPT !.min = cleared.min, !.max = cleared.max,
                    !.calculated = @ \ {"min", "max"},
                    !.default = [l \in Levels |-> IF l \in levels THEN NoNet ELSE @[l]]]
        isEmpty == /\ ~ new.power /\ ~ new.input /\ ~ new.resistor /\ ~ new.hiz /\ ~ new.analog
                   /\ new.calculated = {} /\ new.powerSignal = ""
    IN  IF ~ HasPower(s, n) THEN s
        ELSE IF ~ HasPower(s, p) THEN Fail(s, "simulated net without power")
        ELSE IF Known(s.power[p].sim) THEN s
        ELSE IF ~ isEmpty THEN SetPower(apart, n, new)
        ELSE IF n \in apart.shared THEN Fail(s, "saved power deleted")
        ELSE DropPower(apart, n)

\* A net with a simulated voltage and no min or max takes that voltage for it, or the
\* saved one when that is on the other side.
DefaultFromSim(s, n) ==
    LET p == s.power[n]
        saved(l) == IF n \in DOMAIN s.leak THEN s.leak[n][l] ELSE UNKNOWN_VOLTAGE
        isSaved(l) == Known(saved(l)) /\ Beyond(l, saved(l), p.sim)
        value(l) == IF Known(p[l]) THEN p[l] ELSE IF isSaved(l) THEN saved(l) ELSE p.sim
        new == {l \in {"min", "max"} : ~ Known(p[l])}
        default(l) == IF l \notin new THEN p.default[l]
                      ELSE IF l = "min" /\ isSaved(l) THEN s.leak[n].default[l] ELSE NoNet
    IN  SetPower(s, n, [p EXCEPT !.min = value("min"), !.max = value("max"),
                            !.default = [l \in Levels |-> default(l)],
                            !.active = @ \cup new, !.calculated = @ \cup new])

\* The power is forgotten, not deleted.
ForgetPower(s, n) == [DropPower(s, n) EXCEPT !.dangling = s.dangling]

ResetNet(old, s, n) ==
    LET chains == IF s.fixedSim THEN ClearCalculated(ResetFromSim(old, s, n), n)
                  ELSE ResetFromResistors(s, n)
    IN  IF ~ HasPower(chains, n) THEN chains
        ELSE IF chains.fixedSim /\ Known(chains.power[n].sim) THEN DefaultFromSim(chains, n)
        ELSE IF /\ ~ Known(NetVoltage(chains, "sim", n))
                /\ chains.power[n].powerSignal = "" /\ chains.power[n].calculated # {}
        THEN ForgetPower(chains, n) ELSE chains

-----------------------------------------------------------------------------
(* SetInitialMinMaxPower up to the events.                                 *)

\* ResetMinMaxActiveStatus, for the powers of cvcPowerPtrList only.
ResetMinMaxActiveStatus(s) ==
    LET isActive(p, l) == /\ p.input \/ p.power \/ (Known(p.sim) /\ "sim" \notin p.calculated)
                          /\ Known(p[l]) /\ l \notin p.ignore
        activate(r, n) == SetPower(r, n, [r.power[n] EXCEPT
                              !.active = {l \in {"min", "max"} : isActive(r.power[n], l)}])
    IN  IF s.dangling # {} THEN Fail(s, "deleted power used")
        ELSE Each(activate, s, s.list)

\* Mutant: the power of the net is not looked at.
IsUnsetIfUnlinked(s, n) == s.next.min[n] = n /\ s.next.max[n] = n

\* Nothing is known of the voltages of n.
IsUnset(s, n) ==
    /\ s.next.min[n] = n /\ s.next.max[n] = n
    /\ ~ (HasPower(s, n) /\ Known(s.power[n].min))

\* SetTrivialMinMaxPower for one net: the output of an inverter between two powers is
\* linked to both at once.
SetTrivial(s, n) ==
    LET ends == [i \in DOMAIN Attached(s, "D", n) |-> <<Attached(s, "D", n)[i], "S">>]
                \o [i \in DOMAIN Attached(s, "S", n) |-> <<Attached(s, "S", n)[i], "D">>]
        only(isOfType(_)) == SelectSeq(ends, LAMBDA e : isOfType(s.device[e[1]].type))
        nmos == only(IsNmos)[1]
        pmos == only(IsPmos)[1]
        far(e) == s.device[e[1]][e[2]]
        isRail(m) == HasPower(s, m) /\ s.power[m].power /\ s.power[m].min = s.power[m].max
        link(r, l, e) == Set(r, l, n, far(e), s.device[e[1]].resistance)
        off(r, l) == [r EXCEPT !.inactive[l] = @ \cup {nmos[1], pmos[1]}]
    IN  IF /\ IsUnset(s, n)
           /\ Len(ends) = 2 /\ Len(only(IsNmos)) = 1 /\ Len(only(IsPmos)) = 1
           /\ {"NMOS", "PMOS"} \subseteq s.sdType[n]
           /\ nmos[1] \notin s.inactive.min /\ pmos[1] \notin s.inactive.max
           /\ s.device[nmos[1]]["G"] = s.device[pmos[1]]["G"] /\ s.device[nmos[1]]["G"] # n
           /\ isRail(far(nmos)) /\ isRail(far(pmos))
           /\ Known(s.power[far(pmos)].max) /\ s.power[far(nmos)].min < s.power[far(pmos)].max
        THEN [off(off(link(link(s, "min", nmos), "max", pmos), "min"), "max")
                EXCEPT !.inverter[n] = IF @ = NoNet THEN s.device[nmos[1]]["G"] ELSE @]
        ELSE s

StartMinMax(s) ==
    LET clean == [s EXCEPT !.depend = [l \in {"min", "max"} |-> [n \in DOMAIN s.status |-> <<>>]]]
        ready == Each(SetTrivial, ResetMinMaxActiveStatus(clean), s.order)
        enqueue(r, n, l) ==
            LET p == MasterPower(r, l, n)
                v == IF r.fixedSim /\ Known(r.power[p].sim) THEN r.power[p].sim ELSE r.power[p][l]
            IN  IF p = NoNet \/ l \notin r.power[p].active \/ ~ Known(v) THEN r
                ELSE Each(LAMBDA x, t : EnqueueAttachedDevicesByTerminal(x, l, n, t, v),
                              r, <<"S", "D">>)
        both(r, n) == enqueue(enqueue(r, n, "min"), n, "max")
    IN  [Each(both, ready, s.order) EXCEPT !.queue.min.start = TRUE, !.queue.max.start = TRUE]

ResetMinMaxPower(s) ==
    LET clean == [ResetQueue(ResetQueue(s, "min"), "max") EXCEPT
                     !.inactive.min = s.inactive.sim, !.inactive.max = s.inactive.sim]
    IN  StartMinMax(Each(LAMBDA r, n : ResetNet(s, r, n), clean, s.order))

-----------------------------------------------------------------------------
(* SetInitialMinMaxPower after the events.                                 *)

\* CheckEstimateDependency: no net of the list has a connection.  The recursion does not
\* notice a net it is already in: "loop" stands for never returning.
RECURSIVE EstimateDependency(_, _, _, _)
EstimateDependency(s, l, nets, seen) ==
    LET n == Head(nets)
        own == s.depend[l][n]
        inner == IF own = <<>> THEN "unconnected"
                 ELSE IF n \in seen THEN "loop" ELSE EstimateDependency(s, l, own, seen \cup {n})
    IN  IF nets = <<>> THEN "unconnected"
        ELSE IF NeedsConnection(l) \notin s.status[n] THEN "connected"
        ELSE IF inner # "unconnected" THEN inner
        ELSE EstimateDependency(s, l, Tail(nets), seen)

CheckEstimateDependencies(s) ==
    LET check(r, n, l) ==
            LET result == EstimateDependency(r, l, r.depend[l][n], {n})
            IN  IF r.depend[l][n] = <<>> \/ NeedsConnection(l) \notin r.status[n] THEN r
                ELSE IF result = "loop" THEN Fail(r, "dependencies loop")
                ELSE IF result = "connected" THEN Cleared(r, n, {NeedsConnection(l)})
                ELSE r
        all(r, l) == Each(LAMBDA x, n : check(x, n, l), r, s.order)
    IN  all(all(s, "min"), "max")

\* A check of one level is settled by the voltage of the other: above the min (below the
\* max) of the net, or else the saved one.
SettleCheck(s, n, l, v) ==
    LET own == IF Known(v[l]) THEN v[l] ELSE LeakVoltage(s, l, n)
        isSettled == IF l = "min" THEN Known(v.max) /\ own < v.max
                     ELSE Known(own) /\ own > v.min
    IN  IF /\ NeedsCheck(l) \in s.status[n] /\ NeedsCheck(Other(l)) \notin s.status[n]
           /\ ~ IsHiZ(s, MasterPower(s, l, n)) /\ isSettled
        THEN Cleared(s, n, {NeedsCheck(l)}) ELSE s

SettleBoth(s, n, v) ==
    LET checks == {NeedsCheck("min"), NeedsCheck("max")}
    IN  IF Known(v.min) /\ Known(v.max) /\ v.min <= v.max /\ checks \subseteq s.status[n]
        THEN Cleared(s, n, checks) ELSE s

SettleChecks(s, n, v) == SettleBoth(SettleCheck(SettleCheck(s, n, "min", v), n, "max", v), n, v)

\* A voltage of a power that is partly set is replaced by that of its default net.
RestoreDefault(s, n, l) ==
    LET bits == {NeedsCheck(Other(l)), NeedsConnection(l)}
        m == s.power[n].default[l]
    IN  IF s.status[n] \cap bits = {} THEN s
        ELSE IF m = NoNet \/ ~ HasPower(s, m) THEN Fail(s, "default net without power")
        ELSE Cleared(SetPower(s, n, [s.power[n] EXCEPT ![l] = s.power[m][l]]), n, bits)

\* Mutant: the default nets are not linked.
RemovePowerOnly(s, n) == DropPower(s, n)

\* The power of n goes; where that leaves n without a voltage, its default net gives one.
RemovePower(s, n) ==
    LET p == s.power[n]
        link(r, l) == IF Known(NetVoltage(DropPower(s, n), l, n)) \/ p.default[l] = NoNet THEN r
                      ELSE Set(r, l, n, p.default[l], UnknownResistance)
    IN  link(link(DropPower(s, n), "min"), "max")

\* The voltages of n by which its power is judged: not those of an open power.
ClosedVoltages(s, n) ==
    [l \in {"min", "max"} |-> IF IsHiZ(s, MasterPower(s, l, n)) THEN UNKNOWN_VOLTAGE
                              ELSE NetVoltage(s, l, n)]

\* Mutant: powers that are not calculated go too.
KeepOrRemoveAny(s, n, v) ==
    IF Known(v.min) /\ Known(v.max) /\ v.min <= v.max /\ s.status[n] = {} THEN s
    ELSE RemovePower([s EXCEPT !.status[n] = {}], n)

\* Mutant: the pending bits of a removed power stay.
KeepOrRemoveUnsettled(s, n, v) ==
    IF s.power[n].calculated = {} THEN RestoreDefault(RestoreDefault(s, n, "max"), n, "min")
    ELSE IF Known(v.min) /\ Known(v.max) /\ v.min <= v.max /\ s.status[n] = {} THEN s
    ELSE RemovePower(s, n)

KeepOrRemove(s, n, v) ==
    LET isInOrder == Known(v.min) /\ Known(v.max) /\ v.min <= v.max
        settled == [s EXCEPT !.status[n] = {}]
        isWithinSaved == /\ s.leakSet /\ n \in DOMAIN s.leak /\ Known(LeakVoltage(s, "max", n))
                         /\ isInOrder /\ v.max <= LeakVoltage(s, "max", n)
                         /\ v.min >= LeakVoltage(s, "min", n)
    IN  IF s.power[n].calculated = {} THEN RestoreDefault(RestoreDefault(s, n, "max"), n, "min")
        ELSE IF isInOrder /\ s.status[n] = {} THEN s
        ELSE IF isWithinSaved THEN settled
        ELSE RemovePower(settled, n)

Judge(s, n, v) == KeepOrRemove(SettleChecks(s, n, v), n, v)
JudgePower(s, n) == Judge(s, n, ClosedVoltages(s, n))

\* The powers of later nets that the chains of n end at are judged first.
RECURSIVE RemoveInvalidPower(_, _)
RemoveInvalidPower(s, n) ==
    LET id(m) == CHOOSE i \in DOMAIN s.order : s.order[i] = m
        later(r, m) == IF id(m) > id(n) THEN RemoveInvalidPower(r, m) ELSE r
        ends(r) == later(r, FinalNet(r.next.max, n))
    IN  IF ~ HasPower(s, n) THEN s
        ELSE JudgePower(ends(later(s, FinalNet(s.next.min, n))), n)

\* Devices with an end that nothing reaches are out of the simulation too.
IgnoreDevice(s, d) ==
    LET isReached(n) == \E l \in {"min", "max"} :
            Known(NetVoltage(s, l, n)) \/ IsHiZ(s, MasterPower(s, l, n))
    IN  IF d \in s.inactive.sim \/ (isReached(s.device[d]["S"]) /\ isReached(s.device[d]["D"])) THEN s
        ELSE [s EXCEPT !.inactive = [l \in Levels |-> @[l] \cup {d}],
                       !.pending = [l \in Levels |-> @[l] \ {d}]]

FinishMinMax(s) ==
    Each(IgnoreDevice, Each(RemoveInvalidPower, CheckEstimateDependencies(s), s.order),
         [d \in DOMAIN s.device |-> d])

=============================================================================
