---------------------------- MODULE Propagation -----------------------------
(***************************************************************************)
(* Voltage propagation at the min and max levels: what one event does      *)
(* (CCvcDb.cc), and the lookups and queue operations it uses.              *)
(*                                                                         *)
(* The database s is a record, a circuit of Connections with:              *)
(*   device    the devices; order, the nets in the order of their ids      *)
(*   leakSet   leakVoltageSet; shared, the nets whose saved power is still *)
(*             the one in use (SaveMinMaxLeakVoltages saves pointers)      *)
(*   fixedSim  isFixedSimNet                                               *)
(*   inactive, pending   the devices with that status bit, per level       *)
(*   queue     per level the main and the delay queue, sorted sequences of *)
(*             <<key, device>> (keys of the max queue are negated), and    *)
(*             start, the level's queueStart                               *)
(*   status    the NEEDS_* bits of each net                                *)
(*   depend    minConnectionDependencyMap and maxConnectionDependencyMap   *)
(*   sdType    sourceDrainType of each net                                 *)
(*   list      cvcPowerPtrList, each power by its net; dangling, the nets  *)
(*             of the deleted powers the list still points to              *)
(*   inverter  inverterNet_v; analog, the nets with the ANALOG status bit  *)
(*   errors    the errors reported, pairs of an error and a device         *)
(*   failed    "" or the assertion, exception or null pointer met          *)
(* A voltage conversion, the leak map and all printing are left out.       *)
(***************************************************************************)
EXTENDS Connections, SequencesExt

CONSTANTS LeakLimit,          \* cvcLeakLimit, a current <<volts, ohms>>
          DiodeThreshold,     \* cvcMosDiodeErrorThreshold
          ShortThreshold,     \* cvcShortErrorThreshold
          DiodeFactor,        \* the resistance of a MOS diode, 100 times its device
          SimCutoff, SimShift \* SIM_CUTOFF and the scale of the times after it

ASSUME PropagationAssumption ==
    /\ LeakLimit[1] \in Nat /\ LeakLimit[2] \in Nat \ {0}
    /\ {DiodeThreshold, ShortThreshold, SimCutoff} \subseteq Nat
    /\ {DiodeFactor, SimShift} \subseteq Nat \ {0}

Fail(s, what) == [s EXCEPT !.failed = what]

\* A loop over the elements of a sequence, up to a failure.
Each(Body(_, _), s, seq) ==
    LET RECURSIVE from(_, _)
        from(r, i) == IF r.failed # "" \/ i > Len(seq) THEN r ELSE from(Body(r, seq[i]), i + 1)
    IN  from(s, 1)

Other(l) == IF l = "min" THEN "max" ELSE "min"
OtherEnd(t) == IF t = "S" THEN "D" ELSE "S"

\* Further from the rail where level l starts: higher for min, lower for max.
Beyond(l, v, w) == IF l = "max" THEN v < w ELSE v > w

NeedsCheck(l) == IF l = "min" THEN "NEEDS_MIN_CHECK" ELSE "NEEDS_MAX_CHECK"
NeedsConnection(l) == IF l = "min" THEN "NEEDS_MIN_CONNECTION" ELSE "NEEDS_MAX_CONNECTION"

IsVerifiedPower(s, n) == s.status[n] = {}

Need(s, n, bits) == [s EXCEPT !.status[n] = @ \cup bits]
Cleared(s, n, bits) == [s EXCEPT !.status[n] = @ \ bits]

Deactivate(s, l, d) == [s EXCEPT !.inactive[l] = @ \cup {d}]

\* The type that pulls towards the rail of level l.
IsPuller(l, type) == IF l = "max" THEN IsPmos(type) ELSE IsNmos(type)
IsPusher(l, type) == IF l = "max" THEN IsNmos(type) ELSE IsPmos(type)

\* firstSource_v, firstDrain_v and firstGate_v: LinkDevices puts each device in front.
Attached(s, t, n) ==
    SelectSeq(Reverse([i \in DOMAIN s.device |-> i]),
              LAMBDA d : s.device[d][t] = n /\ s.device[d]["S"] # s.device[d]["D"])

SourceDrainCount(s, n) == Len(Attached(s, "S", n)) + Len(Attached(s, "D", n))

-----------------------------------------------------------------------------
(* Powers.                                                                 *)

\* CPower(theNetId): nothing known.
NewPower ==
    [min |-> UNKNOWN_VOLTAGE, sim |-> UNKNOWN_VOLTAGE, max |-> UNKNOWN_VOLTAGE,
     power |-> FALSE, input |-> FALSE, resistor |-> FALSE, hiz |-> FALSE, analog |-> FALSE,
     calculated |-> {}, default |-> [l \in Levels |-> NoNet],
     calc |-> [l \in Levels |-> "UNKNOWN"], active |-> {}, ignore |-> {},
     extra |-> FALSE, family |-> "", relativeFriendly |-> TRUE, relativeSet |-> {},
     powerSignal |-> "", powerAlias |-> "", pullDown |-> UNKNOWN_VOLTAGE,
     pullUp |-> UNKNOWN_VOLTAGE, flagAllShorts |-> FALSE]

\* A change of the power of n, which is also the saved one while they are the same object.
SetPower(s, n, p) ==
    [s EXCEPT !.power = (n :> p) @@ @,
              !.leak = IF n \in s.shared THEN (n :> p) @@ @ ELSE @]

\* The pointer to the power of n is dropped; the object is deleted unless it is a saved
\* one.  cvcPowerPtrList keeps its own pointer to it.
DropPower(s, n) ==
    [s EXCEPT !.power = [m \in DOMAIN @ \ {n} |-> @[m]], !.shared = @ \ {n},
              !.list = SelectSeq(@, LAMBDA m : m # n),
              !.dangling = IF n \in Range(s.list) \ s.shared THEN @ \cup {n} ELSE @]

\* A new power at the end of cvcPowerPtrList.
AddPower(s, n, p) == [SetPower(s, n, p) EXCEPT !.list = Append(@, n)]

IsPowerOrInput(p) == p.power \/ p.input
IsPriorityPower(p) == p.power \/ p.input \/ p.resistor

IsSCRC(s, p) == p # NoNet /\ s.power[p].hiz /\ s.power[p].min = s.power[p].max

\* pullUpVoltage() returns the pull down voltage.
PullVoltage(p, l) == p.pullDown

SetPull(s, n, l, v) ==
    SetPower(s, n, IF l = "min" THEN [s.power[n] EXCEPT !.pullDown = v, !.extra = TRUE]
                   ELSE [s.power[n] EXCEPT !.pullUp = v, !.extra = TRUE])

\* The power whose alias the power p with simulated voltage v takes.
AliasPower(s, p, v) ==
    GetBasePower(s, IF s.power[p].min = v THEN "min" ELSE IF s.power[p].max = v THEN "max"
                    ELSE "sim", p)

PowerAt(s, n) == IF HasPower(s, n) THEN s.power[n] ELSE NewPower

\* CalculatePower: the power is v at level l, from the power of the net default.
CalculatedPower(old, from, l, v, default) ==
    [old EXCEPT ![l] = v, !.default[l] = default,
                !.calc[l] = IF ~ Known(from[l]) \/ v = from[l] THEN @
                            ELSE IF v < from[l] THEN "DOWN" ELSE "UP",
                !.calculated = @ \cup {l}, !.active = @ \cup ({l} \ {"sim"})]

\* What a power takes over from the one it is calculated from.
Inheriting(old, from) ==
    [old EXCEPT !.hiz = @ \/ from.hiz, !.relativeFriendly = from.relativeFriendly,
                !.family = IF from.extra THEN from.family ELSE @,
                !.relativeSet = IF from.extra THEN from.relativeSet ELSE @,
                !.extra = @ \/ from.extra]

TakeAlias(s, n, base) ==
    IF base = "loop" THEN Fail(s, "base power loops")
    ELSE IF base # NoNet /\ s.power[base].powerAlias # ""
    THEN SetPower(s, n, [s.power[n] EXCEPT !.powerAlias = s.power[base].powerAlias, !.extra = TRUE])
    ELSE s

CalculatePower(s, l, v, n, default) ==
    LET heir == IF HasPower(s, default) THEN Inheriting(PowerAt(s, n), s.power[default])
                ELSE PowerAt(s, n)
        made == SetPower(s, n, CalculatedPower(heir, PowerAt(s, default), l, v, default))
    IN  IF l = "sim" /\ Known(PowerAt(s, n).sim) THEN Fail(s, "sim voltage set twice")
        ELSE IF l # "sim" \/ PowerAt(s, n).powerAlias # "" THEN made
        ELSE TakeAlias(made, n, AliasPower(made, n, v))

-----------------------------------------------------------------------------
(* Event queues.                                                           *)

Key(l, k) == IF l = "max" THEN - k ELSE k

IsFront(position) == position \in {"QUEUE_HIZ", "MOS_DIODE", "DELAY_FRONT"}

\* AddEvent, and the pending bit its callers set.
AddEvent(s, l, k, d, position) ==
    LET key == Key(l, k)
        half == IF position \in {"DELAY_FRONT", "DELAY_BACK"} THEN "delay" ELSE "main"
        before == SelectSeq(s.queue[l][half], LAMBDA e :
                      e[1] < key \/ (e[1] = key /\ ~ IsFront(position)))
        at == Len(before) + 1
    IN  [s EXCEPT !.queue[l][half] = InsertAt(@, at, <<key, d>>),
                  !.pending[l] = @ \cup {d}]

IsEmptyQueue(s, l) == s.queue[l].main = <<>> /\ s.queue[l].delay = <<>>
Size(s, l) == Len(s.queue[l].main) + Len(s.queue[l].delay)

IsNextMainQueue(s, l) ==
    /\ s.queue[l].main # <<>>
    /\ s.queue[l].delay = <<>> \/ l = "sim" \/ Head(s.queue[l].main)[1] <= Head(s.queue[l].delay)[1]

NextEvent(s, l) == Head(s.queue[l][IF IsNextMainQueue(s, l) THEN "main" ELSE "delay"])

\* GetEvent, and the pending bit its callers clear.
GetEvent(s, l) ==
    LET half == IF IsNextMainQueue(s, l) THEN "main" ELSE "delay"
    IN  [s EXCEPT !.queue[l][half] = Tail(@), !.pending[l] = @ \ {NextEvent(s, l)[2]}]

QueueTime(s, l) ==
    LET first(half) == IF s.queue[l][half] = <<>> THEN {} ELSE {Head(s.queue[l][half])[1]}
        keys == first("main") \cup first("delay")
    IN  IF ~ s.queue[l].start \/ keys = {} THEN 0
        ELSE Key(l, CHOOSE k \in keys : \A j \in keys : k <= j)

ResetQueue(s, l) ==
    [s EXCEPT !.queue[l] = [main |-> <<>>, delay |-> <<>>, start |-> FALSE]]

DefaultQueuePosition(isPower, l) == IF isPower \/ l = "sim" THEN "MAIN_BACK" ELSE "DELAY_FRONT"

\* SimKey: times after the cut-off advance more slowly.
SimKey(time, r) ==
    LET real == IF time < SimCutoff THEN time ELSE SimCutoff + (time - SimCutoff) * SimShift
        key == real + r
    IN  IF key > SimCutoff THEN SimCutoff + (key - SimCutoff) \div SimShift ELSE key

-----------------------------------------------------------------------------
(* Virtual nets.                                                           *)

IsTerminal(s, l, n) == s.next[l][n] = n

\* Set: a net is not linked back to the net linked to it.  A longer cycle is found by the
\* assertion on the number of links.
Set(s, l, n, m, r) ==
    IF n # m /\ s.next[l][m] = n THEN s
    ELSE IF n # m /\ n \in Path(s.next[l], m) THEN Fail(s, "virtual nets loop")
    ELSE [s EXCEPT !.next[l][n] = m, !.res[l][n] = r]

Resistance(s, l, n) == FinalResistance(s.next[l], s.res[l], n)

RECURSIVE PropagateConnectionType(_, _, _, _)
PropagateConnectionType(s, l, types, n) ==
    IF IsTerminal(s, l, n) \/ types \subseteq s.sdType[n] THEN s
    ELSE PropagateConnectionType([s EXCEPT !.sdType[n] = @ \cup types], l, types, s.next[l][n])

\* ShiftVirtualNets: the nets after new are turned to it while that is the shorter way.
RECURSIVE ShiftVirtualNets(_, _, _, _, _, _, _)
ShiftVirtualNets(s, l, new, lastNext, lastRes, near, far) ==
    IF near + lastRes >= far - lastRes THEN s
    ELSE ShiftVirtualNets(Set(s, l, lastNext, new, lastRes), l, lastNext, s.next[l][lastNext],
                          s.res[l][lastNext], near + lastRes, far - lastRes)

-----------------------------------------------------------------------------
(* CConnection: a device at one level.                                     *)

\* MapDeviceNets of one queue.  An SCRC power counts with its min voltage.
MapDevice(s, l, d) ==
    LET dev == s.device[d]
        power == [t \in Terminals |-> MasterPower(s, l, dev[t])]
    IN  [id    |-> d, device |-> dev, power |-> power,
         final |-> [t \in {"S", "D"} |-> FinalNet(s.next[l], dev[t])],
         res   |-> [t \in {"S", "D"} |-> Resistance(s, l, dev[t])],
         volt  |-> [t \in Terminals |->
                       IF t \in {"S", "D"} /\ IsSCRC(s, power[t]) THEN s.power[power[t]].min
                       ELSE NetVoltage(s, l, dev[t])]]

IsUnknownVoltage(s, c, t) == ~ Known(c.volt[t]) /\ ~ IsHiZ(s, c.power[t])

IsMosDevice(c) == IsMos(c.device.type)

\* The two ends have the same virtual net: the same next net at the same resistance.
SameVirtualNet(s, l, c) ==
    LET m == c.device["S"]
        n == c.device["D"]
    IN  s.next[l][m] = s.next[l][n] /\ s.res[l][m] = s.res[l][n]

\* ShortNets of a propagation that does not change the voltage: t is linked to the other end.
ShortNets(s, l, c, t) ==
    LET slave == c.device[t]
        master == c.device[OtherEnd(t)]
        linked == Set(s, l, slave, master, c.device.resistance)
        typed == IF c.device.type = "RESISTOR"
                 THEN PropagateConnectionType(linked, l, linked.sdType[slave], master) ELSE linked
    IN  Deactivate(typed, l, c.id)

\* LastNmosConnection and LastPmosConnection: fewer than two pending devices at n.
LastConnection(s, l, n) ==
    2 > Cardinality({d \in s.pending[l] : IsPuller(l, s.device[d].type) /\ s.device[d]["S"] = n})
      + Cardinality({d \in s.pending[l] : IsPuller(l, s.device[d].type) /\ s.device[d]["D"] = n})

-----------------------------------------------------------------------------
(* Transistors that are off.                                               *)

TopologicallyOffMos(l, c) ==
    \E t \in {"S", "D"} :
        /\ ~ Known(c.volt[t])
        /\ t = "S" => Known(c.volt["D"])
        /\ \/ l # "sim" /\ IsPuller(l, c.device.type) /\ c.device["G"] = c.device[OtherEnd(t)]
           \/ l # "sim" /\ IsPusher(l, c.device.type) /\ c.device["G"] = c.device[t]

\* Off in the simulation at both ends, or at the known end only when the other end is
\* known to follow it.  An unknown end counts with its saved voltage.
IsOffInSimulation(s, c) ==
    LET side == IF IsPmos(c.device.type) THEN "max" ELSE "min"
        gate == IF Known(c.volt["G"]) THEN c.volt["G"]
                ELSE NetVoltage(s, Other(side), c.device["G"])
        end == [t \in {"S", "D"} |-> IF Known(c.volt[t]) THEN c.volt[t]
                                     ELSE LeakVoltage(s, side, c.device[t])]
        off(t) == Beyond(Other(side), gate, end[t] + c.device.Vth)
    IN  /\ Known(gate) /\ Known(end["S"]) /\ Known(end["D"])
        /\ \/ off("S") /\ off("D")
           \/ \E t \in {"S", "D"} :
                 /\ ~ Known(c.volt[t]) /\ ~ off(t) /\ off(OtherEnd(t))
                 /\ s.next[side][c.device[t]] = c.device[OtherEnd(t)]

IsOffMos(s, l, c, v) ==
    \/ TopologicallyOffMos(l, c)
    \/ /\ l # "sim" /\ IsPuller(l, c.device.type)
       /\ v \in {c.volt["S"], c.volt["D"]}
       /\ LET gate == NetVoltage(s, Other(l), c.device["G"])
          IN  Known(gate) /\ Beyond(Other(l), gate, v + c.device.Vth)
    \/ l = "sim" /\ IsMosDevice(c) /\ IsOffInSimulation(s, c)

-----------------------------------------------------------------------------
(* Keys and positions of events: AdjustKey and its four cases.  Voltage is *)
(* propagated to the end t of the device.                                  *)

At(key, position) == [key |-> key, position |-> position]

\* AdjustMaxPmosKey and AdjustMinNmosKey.
AdjustPullerKey(s, l, c, t, key, position) ==
    LET from == c.volt[OtherEnd(t)]
        vth == c.device.Vth
    IN  IF c.device["G"] = c.device[t]
        THEN At(IF Beyond(l, vth, 0) THEN key + vth ELSE key, "MOS_DIODE")
        ELSE At(key, IF ~ Known(c.volt["B"]) \/ Beyond(Other(l), from, c.volt["B"])
                     THEN "DELAY_BACK"
                     ELSE IF (IF l = "max" THEN "NMOS" ELSE "PMOS") \in s.sdType[c.device[t]]
                     THEN "DELAY_FRONT" ELSE position)

\* AdjustMaxNmosKey and AdjustMinPmosKey.
AdjustPusherKey(s, l, c, t, key) ==
    LET from == c.volt[OtherEnd(t)]
        vth == c.device.Vth
        sim == NetVoltage(s, "sim", c.device["G"])
        gate == IF s.fixedSim /\ Known(sim) THEN sim ELSE NetVoltage(s, l, c.device["G"])
    IN  IF Known(gate)
        THEN At(IF Beyond(Other(l), gate - vth, from) THEN from ELSE gate - vth, "DELAY_BACK")
        ELSE IF SourceDrainCount(s, c.device["G"]) # 0 THEN At(key, "SKIP_QUEUE")
        ELSE At(IF Beyond(Other(l), vth, 0) THEN key - vth ELSE key, "DELAY_BACK")

AdjustSimKey(s, c, t, key) ==
    LET from == c.volt[OtherEnd(t)]
        on == from + c.device.Vth
        low == NetVoltage(s, "min", c.device["G"])
        high == NetVoltage(s, "max", c.device["G"])
        gate == c.volt["G"]
        alwaysOn == \/ IsNmos(c.device.type) /\ Known(low) /\ low > on
                    \/ IsPmos(c.device.type) /\ Known(high) /\ high < on
        late == \/ IsNmos(c.device.type) /\ gate < on
                \/ IsPmos(c.device.type) /\ gate > on
                \/ "sim" \in s.power[c.power[OtherEnd(t)]].calculated
    IN  At(key, IF c.device["G"] \in {c.device["S"], c.device["D"]} THEN "DELAY_FRONT"
                ELSE IF ~ Known(gate) THEN (IF alwaysOn THEN "MAIN_BACK" ELSE "SKIP_QUEUE")
                ELSE IF late THEN "DELAY_FRONT" ELSE "MAIN_BACK")

AdjustKey(s, l, c, t, key) ==
    LET from == s.power[c.power[OtherEnd(t)]]
        position == DefaultQueuePosition(from.power, l)
        isOpen == s.leakSet /\ from.hiz
    IN  IF c.device.type \in {"FUSE_ON", "FUSE_OFF"} THEN At(key, "DELAY_BACK")
        ELSE IF ~ IsMosDevice(c) THEN At(key, position)
        ELSE IF l = "sim" THEN AdjustSimKey(s, c, t, key)
        ELSE IF IsPuller(l, c.device.type)
        THEN IF isOpen THEN At(key, "QUEUE_HIZ") ELSE AdjustPullerKey(s, l, c, t, key, position)
        ELSE IF isOpen THEN At(key, "DELAY_BACK") ELSE AdjustPusherKey(s, l, c, t, key)

-----------------------------------------------------------------------------
(* Enqueueing.                                                             *)

\* The net n is estimated at level o across a MOS diode, from the net m.
Estimate(s, o, n, m, drop, isSaved) ==
    LET bit == {NeedsConnection(o)}
        pull == PullVoltage(s.power[n], o)
    IN  IF isSaved \/ (Known(pull) /\ ~ Beyond(o, pull, drop)) THEN s
        ELSE IF bit \subseteq s.status[m]
        THEN [Need(s, n, bit) EXCEPT !.depend[o][m] = <<n>> \o @] ELSE Need(s, n, bit)

\* An estimated voltage is that of an analog net.
EstimatedPower(s, o, n, r) ==
    Set(SetPower(s, n, [s.power[n] EXCEPT !.analog = TRUE]), o, n, n, r * DiodeFactor)

\* The first estimate of a voltage across a MOS diode: the other level of the net n it
\* leads to follows too, when that level of the net m it comes from is the same.
EstimateAcrossDiode(s, l, c, n, m, key, drop) ==
    LET o == Other(l)
        bit == {NeedsConnection(o)}
        saved == LeakVoltage(s, o, n)
    IN  IF NetVoltage(s, o, m) # key THEN s
        ELSE IF ~ Known(NetVoltage(s, o, n))
        THEN Estimate(EstimatedPower(CalculatePower(s, o, drop, n, m), o, n, c.device.resistance),
                      o, n, m, drop, s.leakSet /\ Known(saved) /\ ~ Beyond(o, saved, drop))
        ELSE IF Beyond(l, NetVoltage(s, o, n), drop)
        THEN Cleared(Cleared(s, n, bit), m, bit) ELSE s

\* The event of a device that propagates to its end t.
EnqueueEvent(s, l, c, t, key, event) ==
    LET time == IF l = "sim" THEN SimKey(QueueTime(s, l), c.device.resistance) ELSE event.key
        added == AddEvent(s, l, time, c.id, event.position)
    IN  IF event.position = "MOS_DIODE" /\ ~ IsHiZ(s, c.power["G"])
        THEN EstimateAcrossDiode(added, l, c, c.device[t], c.device[OtherEnd(t)], key, event.key)
        ELSE added

\* calc is myCalculationType, which keeps its value from one device to the next.
EnqueueUnlessUndone(s, l, c, t, key, event, calc) ==
    [s |-> IF \/ event.position = "SKIP_QUEUE"
              \/ event.key < key /\ calc = "UP"
              \/ event.key > key /\ calc = "DOWN"
           THEN s ELSE EnqueueEvent(s, l, c, t, key, event),
     calc |-> calc]

EnqueueMapped(s, l, c, unknown, key, calc) ==
    LET t == IF "S" \in unknown THEN "S" ELSE "D"
        isPower == \E u \in {"S", "D"} : s.power[c.power[u]].power
    IN  IF SameVirtualNet(s, l, c) \/ (l = "sim" /\ IsOffMos(s, l, c, key))
        THEN [s |-> Deactivate(s, l, c.id), calc |-> calc]
        ELSE IF unknown = {"S", "D"} THEN [s |-> s, calc |-> calc]
        ELSE IF unknown = {}
        THEN EnqueueUnlessUndone(s, l, c, t, key, At(key, DefaultQueuePosition(isPower, l)), calc)
        ELSE EnqueueUnlessUndone(s, l, c, t, key, AdjustKey(s, l, c, t, key),
                                 s.power[c.power[OtherEnd(t)]].calc[l])

UnknownEnds(c) == {t \in {"S", "D"} : ~ Known(c.volt[t])}

EnqueueConnected(s, l, c, key, calc) == EnqueueMapped(s, l, c, UnknownEnds(c), key, calc)

\* One device of EnqueueAttachedDevicesByTerminal.
EnqueueDevice(acc, l, d, key) ==
    IF d \in acc.s.inactive[l] \cup acc.s.pending[l] THEN acc
    ELSE EnqueueConnected(acc.s, l, MapDevice(acc.s, l, d), key, acc.calc)

EnqueueAttachedDevicesByTerminal(s, l, n, t, key) ==
    FoldLeft(LAMBDA acc, d : EnqueueDevice(acc, l, d, key),
             [s |-> s, calc |-> "UNKNOWN"], Attached(s, t, n)).s

EnqueueAttachedDevices(s, l, n, key) ==
    Each(LAMBDA r, t : EnqueueAttachedDevicesByTerminal(r, l, n, t, key), s, <<"S", "D", "G">>)

EnqueueAttachedResistors(s, l, n, key, position) ==
    Each(LAMBDA r, d : IF r.device[d].type = "RESISTOR" /\ d \notin r.inactive[l] \cup r.pending[l]
                           THEN AddEvent(r, l, key, d, position) ELSE r,
             s, Attached(s, "S", n) \o Attached(s, "D", n))

-----------------------------------------------------------------------------
(* Devices between two nets that both have a voltage.                      *)

Report(s, error, d) == [s EXCEPT !.errors = @ \cup {<<error, d>>}]

\* ReportShort: a short between the simulated voltages of d.
ReportShort(s, d) ==
    LET c == MapDeviceNets(s, s.device[d])
        v == c.volt.sim
        type == c.device.type
        p == c.power.sim
        low == Least(v["S"], v["D"])
        high == Greatest(v["S"], v["D"])
        related(t, default) == IsRelatedPower(s, "sim", p[t], "sim", p[OtherEnd(t)], default, FALSE)
        atVth == /\ Known(high)
                 /\ \/ IsNmos(type) /\ v["G"] - low = c.device.Vth
                    \/ IsPmos(type) /\ v["G"] - high = c.device.Vth
        current == IF Known(high) THEN EstimatedCurrent(s, c) ELSE NoCurrent
        isOpenRelative == \E t \in {"S", "D"} : s.power[p[t]].hiz /\ related(t, FALSE)
        isShort == \/ high - low > ShortThreshold /\ Exceeds(current, LeakLimit)
                   \/ ShortThreshold = 0 /\ ~ related("S", TRUE)
                   \/ /\ high # low /\ ~ atVth
                      /\ \/ /\ ShortThreshold = 0
                            /\ \A t \in {"S", "D"} : IsPowerOrInput(s.power[p[t]])
                         \/ \E t \in {"S", "D"} : s.power[p[t]].flagAllShorts
    IN  IF ~ isOpenRelative /\ isShort THEN Report(s, "LEAK", d) ELSE s

IsPriorityDevice(l, type) == l = "sim" \/ IsPuller(l, type)

\* CheckConnectionReroute: the end t is linked to the other end instead of its next net.
CheckConnectionReroute(s, l, c, t) ==
    LET next == s.next[l][c.device[t]]
        old == s.power[next]
        new == s.power[c.device[OtherEnd(t)]]
    IN  \/ ~ IsTerminal(s, l, next)
        \/ old.power /\ new.power /\ c.device.resistance < c.res[t]
        \/ ~ old.power /\ (new.power \/ (l \in old.calculated /\ l \notin new.calculated))

\* The ends lead to the same net: the end t may be linked to the other end.
CanReroute(s, l, c, t) ==
    LET u == OtherEnd(t)
        direct == IsTerminal(s, l, c.device[u])
    IN  /\ ~ IsTerminal(s, l, c.device[t])
        /\ IF s.leakSet THEN direct /\ CheckConnectionReroute(s, l, c, t)
           ELSE direct \/ c.res[u] + c.device.resistance < c.res[t]

Reroute(s, l, c, t) ==
    LET n == c.device[t]
        short == ShortNets(s, l, c, t)
    IN  IF s.leakSet THEN short
        ELSE ShiftVirtualNets(short, l, n, s.next[l][n], s.res[l][n],
                              c.res[OtherEnd(t)] + c.device.resistance, c.res[t])

\* An estimated end t meets a verified voltage at the other end.
MeetConnection(s, l, c, t) ==
    LET u == OtherEnd(t)
        n == c.device[t]
        bit == {NeedsConnection(l)}
        pulled == SetPull(s, n, l, c.volt[u])
        isPull == Beyond(l, c.volt[t], c.volt[u]) /\ ~ (s.leakSet /\ IsHiZ(s, c.power[u]))
        isMatch == /\ c.volt[t] = c.volt[u] /\ c.volt[u] = NetVoltage(s, Other(l), n)
                   /\ ~ (bit \subseteq s.status[c.device[u]])
        isLast == \/ IsPuller(l, c.device.type) /\ LastConnection(s, l, n)
                  \/ c.device.type = "RESISTOR"
    IN  IF ~ (bit \subseteq s.status[n]) \/ ~ Known(c.volt[u]) \/ ~ IsVerifiedPower(s, c.final[u])
        THEN s
        ELSE IF ~ HasPower(s, n) THEN Fail(s, "estimated net without power")
        ELSE IF isPull \/ isMatch THEN Cleared(pulled, n, bit)
        ELSE IF ~ s.leakSet /\ isLast THEN Set(pulled, l, n, c.device[u], c.device.resistance)
        ELSE s

\* Between simulated voltages: no short from an open power to its own family.
IsFamilyOf(s, c, t) ==
    LET p == s.power[c.power[t]]
    IN  p.hiz /\ p.relativeFriendly /\ p.family = s.power[c.power[OtherEnd(t)]].powerSignal

AlreadyShorted(s, l, c) ==
    IF c.final["S"] = c.final["D"]
    THEN Deactivate(IF ~ IsPriorityDevice(l, c.device.type) THEN s
                    ELSE IF CanReroute(s, l, c, "D") THEN Reroute(s, l, c, "D")
                    ELSE IF CanReroute(s, l, c, "S") THEN Reroute(s, l, c, "S")
                    ELSE s, l, c.id)
    ELSE IF l # "sim"
    THEN Deactivate(MeetConnection(MeetConnection(s, l, c, "S"), l, c, "D"), l, c.id)
    ELSE IF c.device.type = "FUSE_OFF" THEN Deactivate(s, l, c.id)
    ELSE IF \E t \in {"S", "D"} : IsFamilyOf(s, c, t) THEN s
    ELSE Deactivate(ReportShort(s, c.id), l, c.id)

-----------------------------------------------------------------------------
(* VoltageConflict.                                                        *)

\* A power that does not yet propagate starts to where its voltage is the one further
\* from the rail.
ActivateVoltage(s, l, c) ==
    LET waits(t) == c.power[t] # NoNet /\ LET p == s.power[c.power[t]]
                                         IN  Known(p[l]) /\ l \notin p.active \cup p.ignore
        t == IF waits("D") THEN "D" ELSE "S"
        p == c.power[t]
    IN  IF waits(t) /\ ~ Beyond(l, c.volt[OtherEnd(t)], c.volt[t])
        THEN EnqueueAttachedDevices(SetPower(s, p, [s.power[p] EXCEPT !.active = @ \cup {l}]),
                                    l, c.device[t], c.volt[t])
        ELSE s

\* An unverified end t is pulled by a verified voltage at the other end.
UnsetChecks(s, l, c) ==
    LET bits == {NeedsCheck(l), NeedsConnection(l)}
        isVerified(t) == s.status[c.device[t]] \cap bits = {}
        pulled == {t \in {"S", "D"} :
                      /\ ~ isVerified(t) /\ isVerified(OtherEnd(t))
                      /\ Known(c.volt["S"]) /\ Known(c.volt["D"])
                      /\ Beyond(l, c.volt[t], c.volt[OtherEnd(t)])}
        t == CHOOSE t \in pulled : TRUE
        n == c.device[t]
    IN  IF pulled = {} THEN s
        ELSE IF ~ HasPower(s, n) THEN Fail(s, "checked net without power")
        ELSE Cleared(SetPull(s, n, l, c.volt[OtherEnd(t)]), n, bits)

\* The voltage of a MOS diode at the other level.
EstimatedMosDiodeCurrent(s, o, t, v) ==
    IF IsHiZ(s, o.power[OtherEnd(t)]) THEN NoCurrent
    ELSE <<AbsoluteDifference(v, o.volt["G"]), o.device.resistance + o.res["S"] + o.res["D"]>>

DiodeConflict(s, l, c) ==
    LET t == IF c.device["S"] = c.device["G"] THEN "S" ELSE "D"
        u == OtherEnd(t)
        expected == c.volt[u] + c.device.Vth
        o == MapDevice(s, Other(l), c.id)
        gate == o.volt["G"]
        isConflict ==
            /\ ~ IsHiZ(s, o.power["G"])
            /\ IF IsNmos(c.device.type) THEN gate > expected ELSE gate < expected
            /\ DiodeThreshold = 0 \/ AbsoluteDifference(gate, expected) > DiodeThreshold
            /\ Exceeds(EstimatedMosDiodeCurrent(s, o, t, c.volt[u]), LeakLimit)
            /\ HasPower(s, c.device[u])
    IN  IF \/ ~ IsMosDevice(c) \/ c.device[t] # c.device["G"]
           \/ s.power[c.power[u]].calc[l] = (IF l = "min" THEN "DOWN" ELSE "UP") THEN s
        ELSE IF ~ Known(gate) THEN EnqueueAttachedDevices(s, Other(l), c.device[t], expected)
        ELSE IF isConflict
        THEN Report(s, IF l = "min" THEN "MAX_VOLTAGE_CONFLICT" ELSE "MIN_VOLTAGE_CONFLICT", c.id)
        ELSE s

HasTwoVoltages(s, l, c) ==
    /\ s.leakSet \/ (Known(c.volt["S"]) /\ Known(c.volt["D"]))
    /\ ~ IsUnknownVoltage(s, c, "S") /\ ~ IsUnknownVoltage(s, c, "D")
    /\ ~ (l = "sim" /\ IsMosDevice(c) /\ ~ Known(c.volt["G"]))

NotPending(s, l, d) == [s EXCEPT !.pending[l] = @ \ {d}]

\* The device is pending, so that it is not enqueued, until the voltages are activated.
VoltageConflict(s, l, c) ==
    LET held == [s EXCEPT !.pending[l] = @ \cup {c.id}]
    IN  AlreadyShorted(NotPending(IF l = "sim" THEN held
                                  ELSE DiodeConflict(UnsetChecks(ActivateVoltage(held, l, c), l, c), l, c),
                                  l, c.id), l, c)

\* IsIrrelevant of a dequeued event with voltage v.  In the first min/max pass an off
\* transistor still propagates when it is the last one to its unknown end.
IsIrrelevantOff(s, l, c, v) ==
    LET t == IF ~ Known(c.volt["S"]) THEN "S" ELSE "D"
    IN  /\ IsOffMos(s, l, c, v)
        /\ \/ s.leakSet
           \/ Known(c.volt[t])
           \/ ~ (IsPuller(l, c.device.type) /\ LastConnection(s, l, c.device[t]))

\* An off transistor between two voltages confirms an estimated one.
ConfirmThroughOff(s, l, c) ==
    LET bit == {NeedsConnection(l)}
        confirms(t) == /\ bit \subseteq s.status[c.device[t]]
                       /\ Beyond(l, c.volt[t], c.volt[OtherEnd(t)])
    IN  IF s.leakSet \/ ~ Known(c.volt["S"]) \/ ~ Known(c.volt["D"]) THEN s
        ELSE IF confirms("S") THEN Cleared(s, c.device["S"], bit)
        ELSE IF confirms("D") THEN Cleared(s, c.device["D"], bit)
        ELSE s

\* The database after an irrelevant event, and whether it is one.
Irrelevance(s, l, c, v) ==
    IF SameVirtualNet(s, l, c) THEN [is |-> TRUE, s |-> s]
    ELSE IF IsIrrelevantOff(s, l, c, v) THEN [is |-> TRUE, s |-> ConfirmThroughOff(s, l, c)]
    ELSE IF HasTwoVoltages(s, l, c) THEN [is |-> TRUE, s |-> VoltageConflict(s, l, c)]
    ELSE [is |-> FALSE, s |-> s]

-----------------------------------------------------------------------------
(* Events of the min and max queues.                                       *)

\* ShortNets with a voltage: the end t takes v from the other end.  Once the simulation
\* is fixed a min voltage does not exceed it, and a max voltage is not below it.
ShortNetsWithVoltage(s, l, c, t, v) ==
    LET u == OtherEnd(t)
        slave == c.device[t]
        master == c.device[u]
        r == c.device.resistance
        sim == NetVoltage(s, "sim", slave)
        short == IF s.fixedSim /\ Known(sim) /\ Beyond(l, v, sim) THEN sim ELSE v
        linked == IF short = c.volt[u] THEN Set(s, l, slave, master, r)
                  ELSE Set(CalculatePower(s, l, short, slave, master), l, slave, slave,
                           r + Resistance(s, l, master))
        typed == IF c.device.type = "RESISTOR"
                 THEN PropagateConnectionType(linked, l, linked.sdType[slave], master)
                 ELSE IF /\ c.device.type \in {"FUSE_ON", "FUSE_OFF"}
                         /\ s.next[Other(l)][slave] = master
                 THEN Report(linked, "FUSE_ERROR", c.id) ELSE linked
    IN  Deactivate(typed, l, c.id)

\* A voltage lost through a transistor that does not pull to level l may be undone at the
\* other level: the end t is to be checked there.
AddCheck(s, l, c, t, from, key) ==
    LET n == c.device[t]
        o == Other(l)
        other == NetVoltage(s, o, n)
        isOpen == IsHiZ(s, MasterPower(s, o, n))
        doubtful == \/ isOpen \/ ~ Known(other) \/ other = key
                    \/ NeedsCheck(o) \in s.status[c.device[OtherEnd(t)]]
        pull == PullVoltage(s.power[n], o)
    IN  IF /\ Beyond(l, key, from) /\ IsPusher(l, c.device.type)
           /\ doubtful /\ HasPower(s, n)
           /\ ~ Known(pull) \/ Beyond(o, pull, key)
        THEN Need(s, n, {NeedsCheck(o)}) ELSE s

\* CDeviceCount: one resistor and no transistor that could pull n the other way.
IsLoneResistor(s, l, n) ==
    LET at(t) == {d \in DOMAIN s.device : s.device[d][t] = n /\ s.device[d]["S"] # s.device[d]["D"]}
        resistors(t) == {d \in at(t) : s.device[d].type = "RESISTOR"}
        active(t) == {d \in at(t) : /\ IsPusher(l, s.device[d].type)
                                    /\ s.device[d]["G"] # s.device[d][OtherEnd(t)]}
    IN  /\ Cardinality(resistors("S")) + Cardinality(resistors("D")) = 1
        /\ active("S") = {} /\ active("D") = {}

\* The end that receives the voltage.
Receiver(l, c) ==
    IF ~ Known(c.volt["S"]) THEN "S"
    ELSE IF ~ Known(c.volt["D"]) THEN "D"
    ELSE IF Beyond(l, c.volt["S"], c.volt["D"]) THEN "S" ELSE "D"

\* The voltage key reaches the end t.
Spread(s, l, c, t, from, key) ==
    EnqueueAttachedDevices(AddCheck(ShortNetsWithVoltage(s, l, c, t, key), l, c, t, from, key),
                           l, c.device[t], key)

Reach(s, l, c, t, from, key) ==
    LET n == c.device[t]
    IN  IF c.device.type = "RESISTOR" /\ from = key /\ IsLoneResistor(s, l, n)
        THEN EnqueueAttachedDevices(ShortNetsWithVoltage(Spread(s, l, c, t, from, key), l, c, t, key),
                                    l, n, key)
        ELSE Spread(s, l, c, t, from, key)

\* An event that is not irrelevant: delayed, or carried out.
Carry(s, l, c, t, from, event, time) ==
    IF t = "D" /\ Known(c.volt["D"]) THEN Fail(s, "drain voltage known")
    ELSE IF event.position = "SKIP_QUEUE" THEN s
    ELSE IF Beyond(l, event.key, time) THEN AddEvent(s, l, event.key, c.id, event.position)
    ELSE Reach(s, l, c, t, from, event.key)

PropagateUnless(irrelevance, s, l, c, t, from, time) ==
    IF irrelevance.is THEN Deactivate(irrelevance.s, l, c.id)
    ELSE Carry(s, l, c, t, from, AdjustKey(s, l, c, t, from), time)

PropagateFrom(s, l, c, t, from, time) ==
    IF ~ Known(from) THEN s
    ELSE PropagateUnless(Irrelevance(s, l, c, from), s, l, c, t, from, time)

PropagateTo(s, l, c, t, time) == PropagateFrom(s, l, c, t, c.volt[OtherEnd(t)], time)
PropagateDevice(s, l, c, time) == PropagateTo(s, l, c, Receiver(l, c), time)

PropagateMinMaxVoltages(s, l) ==
    LET d == NextEvent(s, l)[2]
        r == GetEvent(s, l)
    IN  IF d \in r.inactive[l] THEN r
        ELSE PropagateDevice(r, l, MapDevice(r, l, d), QueueTime(s, l))

\* PropagateResistorVoltages, before the first min/max pass.
PropagateResistorVoltages(s, l) ==
    LET d == NextEvent(s, l)[2]
        r == GetEvent(s, l)
        c == MapDevice(r, l, d)
        t == IF IsUnknownVoltage(r, c, "S") THEN "S" ELSE "D"
        u == OtherEnd(t)
        position == IF r.power[c.power[u]].power THEN "MAIN_BACK" ELSE "DELAY_FRONT"
        pass(x, end) == IF IsTerminal(x, l, c.device[end]) THEN x
                        ELSE PropagateConnectionType(x, l, x.sdType[c.device[end]],
                                                     c.device[OtherEnd(end)])
    IN  IF d \in r.inactive[l] THEN r
        ELSE IF ~ IsUnknownVoltage(r, c, t) THEN pass(pass(AlreadyShorted(r, l, c), "D"), "S")
        ELSE IF ~ Known(c.volt[u]) THEN Fail(r, "resistor without voltage")
        ELSE EnqueueAttachedResistors(ShortNets(r, l, c, t), l, c.device[t], c.volt[u], position)

=============================================================================
