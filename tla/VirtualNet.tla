----------------------------- MODULE VirtualNet -----------------------------
(***************************************************************************)
(* CVirtualNetVector (CVirtualNet.hh, CVirtualNet.cc) and the steps of the *)
(* propagation that write it.  Each net points to a next net, with the     *)
(* resistance of the device between them; the net at the end of the        *)
(* chain, which points to itself, gives the voltage of all the others.     *)
(* The end of a chain and the resistance to it are kept with each net      *)
(* (finalNetId, finalResistance) and recomputed only when the net's stamp  *)
(* (lastUpdate_v) is older than the vector's (lastUpdate).                 *)
(*                                                                         *)
(* One of the three vectors is modelled.  leakVoltageSet is FALSE for the  *)
(* first propagation of the MIN and MAX queues and TRUE for the passes of  *)
(* the SIM queue.  Devices are not named: a step handles some device       *)
(* between two nets, of some resistance.  Voltages are known or unknown.   *)
(***************************************************************************)
EXTENDS Integers, FiniteSets

CONSTANTS
    Nets,             \* master nets (GetEquivalentNet(n) = n)
    Resistances,      \* of the devices
    Dividers,         \* resistances of resistor dividers
    MAX_RESISTANCE,
    DEFAULT_UNKNOWN_RESISTANCE,
    MaxUpdates        \* bound on lastUpdate within a pass

ASSUME NetsAssumption == IsFiniteSet(Nets)
ASSUME ResistancesAssumption ==
    Resistances \subseteq Nat /\ Dividers \subseteq 1 .. MAX_RESISTANCE
ASSUME MaxAssumption ==
    MAX_RESISTANCE \in Nat /\ DEFAULT_UNKNOWN_RESISTANCE \in Nat /\ MaxUpdates \in Nat

VARIABLES
    leakVoltageSet,
    virtualNet_v,     \* the vector: a record of functions of the nets
    dangling,         \* nets merged into another by ShortNonConductingResistor
    power,            \* nets with a voltage for this queue in netVoltagePtr_v
    calculated,       \* those where it was calculated by the propagation
    needs,            \* those with NEEDS_MIN_CONNECTION or NEEDS_MAX_CONNECTION
    defaultNet,       \* CPower::defaultMinNet (MaxNet) of calculated nets
    phase,            \* propagate, remove, done, abort
    unexpected        \* ShiftVirtualNets printed "unexpected ... resistance"

vars == <<leakVoltageSet, virtualNet_v, dangling, power, calculated, needs, defaultNet,
          phase, unexpected>>

\* No device has a dangling net as its source, drain or gate; MergeConnectionLists
\* moved them.  A dangling net can still be the bulk of a device.
Live == Nets \ dangling

-----------------------------------------------------------------------------
(* CVirtualNet and CVirtualNetVector.                                      *)

AddResistance(base, increment) ==
    IF base + increment > MAX_RESISTANCE THEN MAX_RESISTANCE ELSE base + increment

IsTerminal(v, n) == v.nextNetId[n] = n

\* The walk to the end of the chain of n, which adds up the resistances on
\* the way and that of the last net.  No chain is longer than Nets.
Walk(v, n) ==
    LET step[k \in 0 .. Cardinality(Nets)] ==
            IF k = 0 THEN [net |-> n, sum |-> 0]
            ELSE LET p == step[k - 1]
                 IN  IF IsTerminal(v, p.net) THEN p
                     ELSE [net |-> v.nextNetId[p.net],
                           sum |-> AddResistance(p.sum, v.resistance[p.net])]
        last == step[Cardinality(Nets)]
    IN  [net |-> last.net, sum |-> AddResistance(last.sum, v.resistance[last.net])]

\* CVirtualNet::operator(): the vector after net n has been looked up.  The
\* caller reads finalNetId[n] and finalResistance[n] there.
Lookup(v, n) ==
    IF v.lastUpdate_v[n] < v.lastUpdate
      THEN LET end == Walk(v, n)
           IN  [v EXCEPT !.finalNetId[n] = end.net, !.finalResistance[n] = end.sum,
                         !.lastUpdate_v[n] = v.lastUpdate]
      ELSE v

\* CVirtualNetVector::Set.
SetNet(v, n, next, r, time) ==
    IF v.nextNetId[next] = n /\ next # n
      THEN v
      ELSE LET u == [v EXCEPT !.nextNetId[n] = next, !.resistance[n] = r]
               end == Walk(u, n)
           IN  [u EXCEPT !.finalNetId[n] = end.net, !.finalResistance[n] = end.sum,
                         !.lastUpdate = time, !.lastUpdate_v[n] = time]

Link(v, n, next, r) == SetNet(v, n, next, r, v.lastUpdate)

\* Mutant: lastUpdate is not incremented for a reroute.
StaleNever(v) == v

\* ++lastUpdate
Stale(v) == [v EXCEPT !.lastUpdate = @ + 1]

-----------------------------------------------------------------------------
(* The passes.                                                             *)

\* The state when the first propagation of a queue starts.  A dangling net was
\* linked, by a resistance of 1, to a net that was not dangling then, so that
\* its final net is its next net even if that was linked on later.  Voltages
\* from resistor dividers have a resistance in the MIN and MAX vectors.
Init ==
    /\ leakVoltageSet \in BOOLEAN
    /\ dangling \in SUBSET Nets
    /\ power \in SUBSET Live
    /\ \E next \in [Nets -> Nets],
          divider \in [power -> IF leakVoltageSet THEN {0} ELSE {0} \cup Dividers] :
          LET res == [n \in Nets |-> IF n \in dangling THEN 1
                                     ELSE IF n \in power THEN divider[n] ELSE 0]
          IN  /\ \A n \in Nets : (next[n] = n) = (n \notin dangling)
              /\ virtualNet_v = [nextNetId |-> next, resistance |-> res,
                                 finalNetId |-> next, finalResistance |-> res,
                                 lastUpdate |-> 0, lastUpdate_v |-> [n \in Nets |-> 0]]
              /\ \A n \in Nets : Walk(virtualNet_v, n).net \notin dangling
              /\ calculated = {n \in power : divider[n] # 0}
    /\ \E rail \in Nets :
          /\ calculated # {} => rail \in power \ calculated
          /\ defaultNet = [n \in Nets |-> IF n \in calculated THEN rail ELSE n]
    /\ needs = {}
    /\ phase = "propagate"
    /\ unexpected = FALSE

\* MapDeviceNets: the lookups of both ends of a device.
Mapped(n, m) == Lookup(Lookup(virtualNet_v, n), m)

\* operator() asserts finalResistance < MAX_RESISTANCE.
Asserts(n) == Lookup(virtualNet_v, n).finalResistance[n] >= MAX_RESISTANCE

\* A device between n and m is taken from the queue; it is irrelevant when its
\* two nets have the same next net and resistance (CVirtualNet::operator==).
Handles(n, m) ==
    /\ phase = "propagate"
    /\ {n, m} \subseteq Live
    /\ \/ virtualNet_v.nextNetId[n] # virtualNet_v.nextNetId[m]
       \/ virtualNet_v.resistance[n] # virtualNet_v.resistance[m]
    /\ ~Asserts(n) /\ ~Asserts(m)

KnownIn(v, n) == v.finalNetId[n] \in power

AssertFails(n) ==
    /\ phase \in {"propagate", "remove"}
    /\ Asserts(n)
    /\ phase' = "abort"
    /\ UNCHANGED <<leakVoltageSet, virtualNet_v, dangling, power, calculated, needs,
                   defaultNet, unexpected>>

\* A lookup that changes nothing else: gate and bulk nets, early returns.
LookUp(n) ==
    /\ phase = "propagate"
    /\ ~Asserts(n)
    /\ virtualNet_v' = Lookup(virtualNet_v, n)
    /\ UNCHANGED <<leakVoltageSet, dangling, power, calculated, needs, defaultNet,
                   phase, unexpected>>

\* Mutant: the slave may have a voltage.
ShortNetsKnown(slave, master, r) ==
    LET v == Mapped(slave, master)
    IN  /\ Handles(slave, master)
        /\ KnownIn(v, master)
        /\ virtualNet_v' = Link(v, slave, master, r)
        /\ UNCHANGED <<leakVoltageSet, dangling, power, calculated, needs, defaultNet,
                       phase, unexpected>>

\* ShortNets and ShortSimNets: the slave has no voltage and takes the master's.
\* SetTrivialMinMaxPower does the same for nets with a direct path to power.
ShortNets(slave, master, r) ==
    LET v == Mapped(slave, master)
    IN  /\ Handles(slave, master)
        /\ KnownIn(v, master) /\ ~KnownIn(v, slave)
        /\ virtualNet_v' = Link(v, slave, master, r)
        /\ UNCHANGED <<leakVoltageSet, dangling, power, calculated, needs, defaultNet,
                       phase, unexpected>>

\* The same when the voltage drops on the way: CalculatePower, and the slave
\* becomes a terminal net with the master's resistance added to its own.
\* ShortSimNets raises the resistance of a mos whose gate is the slave.
ShortNetsCalculated(slave, master, r) ==
    LET v == Mapped(slave, master)
    IN  /\ Handles(slave, master)
        /\ KnownIn(v, master) /\ ~KnownIn(v, slave)
        /\ \E k \in IF leakVoltageSet THEN {1, 100} ELSE {1} :
              virtualNet_v' = Link(v, slave, slave, k * r + v.finalResistance[master])
        /\ power' = power \cup {slave}
        /\ calculated' = calculated \cup {slave}
        /\ defaultNet' = [defaultNet EXCEPT ![slave] = master]
        /\ UNCHANGED <<leakVoltageSet, dangling, needs, phase, unexpected>>

\* EnqueueAttachedDevicesByTerminal gives the drain of a mos diode an estimated
\* voltage in this vector while it fills the opposite queue, if the source has
\* the same voltage in both.
Estimate(n, source, r) ==
    LET v == Mapped(source, n)
    IN  /\ Handles(source, n)
        /\ ~leakVoltageSet
        /\ KnownIn(v, source) /\ ~KnownIn(v, n)
        /\ virtualNet_v' = Link(v, n, n, 100 * r)
        /\ power' = power \cup {n}
        /\ calculated' = calculated \cup {n}
        /\ needs' \in {needs, needs \cup {n}}
        /\ defaultNet' = [defaultNet EXCEPT ![n] = source]
        /\ UNCHANGED <<leakVoltageSet, dangling, phase, unexpected>>

-----------------------------------------------------------------------------
(* AlreadyShorted: both nets have a voltage.                               *)

SameMaster(v, n, m) ==
    KnownIn(v, n) /\ KnownIn(v, m) /\ v.finalNetId[n] = v.finalNetId[m]

\* Mutant: the resistance from the source is not carried along the chain.
CarriedForgotten(sourceR, r) == sourceR

Carried(sourceR, r) == sourceR + r

\* One turn of ShiftVirtualNets: p.next, which p.new pointed to before, is turned
\* around if the new way is shorter for it.  odd: an unexpected resistance.
ShiftOne(p) ==
    LET u == Lookup(p.v, p.next)
        w == Link(Stale(u), p.next, p.new, p.r)
    IN  IF p.sourceR + p.r >= p.drainR - p.r
          THEN p
          ELSE [v |-> w, new |-> p.next,
                next |-> u.nextNetId[p.next], r |-> u.resistance[p.next],
                sourceR |-> Carried(p.sourceR, p.r), drainR |-> p.drainR - p.r,
                odd |-> \/ p.odd
                        \/ u.finalResistance[p.next] # p.drainR - p.r
                        \/ w.finalResistance[p.next] # Carried(p.sourceR, p.r)]

\* The nets after the rerouted one are turned around, one by one.
ShiftVirtualNets(v, new, next, r, sourceR, drainR) ==
    LET shift[k \in 0 .. Cardinality(Nets)] ==
            IF k = 0
              THEN [v |-> v, new |-> new, next |-> next, r |-> r,
                    sourceR |-> sourceR, drainR |-> drainR, odd |-> FALSE]
              ELSE ShiftOne(shift[k - 1])
    IN  shift[Cardinality(Nets)]

\* Direct connections have precedence, then those of less resistance.
Better(v, drain, source, r) ==
    \/ IsTerminal(v, source)
    \/ v.finalResistance[source] + r < v.finalResistance[drain]

\* First MIN/MAX pass: drain goes to source instead of its old next net.
Reroute(drain, source, r) ==
    LET v == Mapped(source, drain)
        s == ShiftVirtualNets(Link(Stale(v), drain, source, r), drain,
                v.nextNetId[drain], v.resistance[drain],
                v.finalResistance[source] + r, v.finalResistance[drain])
    IN  /\ Handles(source, drain)
        /\ ~leakVoltageSet
        /\ SameMaster(v, source, drain)
        /\ ~IsTerminal(v, drain)
        /\ Better(v, drain, source, r)
        /\ s.v.lastUpdate <= MaxUpdates
        /\ virtualNet_v' = s.v
        /\ unexpected' = (unexpected \/ s.odd)
        /\ UNCHANGED <<leakVoltageSet, dangling, power, calculated, needs, defaultNet, phase>>

\* When both are terminal the next net of drain is source, as their masters
\* are the same, and it is rerouted only if it is a power of less resistance.
\* Every net whose voltage was not calculated counts as a power (POWER_BIT),
\* defined inputs included.
CheckConnectionReroute(v, drain, source, r) ==
    \/ ~IsTerminal(v, v.nextNetId[drain])
    \/ source \notin calculated /\ r < v.finalResistance[drain]

\* Later passes reroute direct connections only.
RerouteDirect(drain, source, r) ==
    LET v == Mapped(source, drain)
    IN  /\ Handles(source, drain)
        /\ leakVoltageSet
        /\ SameMaster(v, source, drain)
        /\ ~IsTerminal(v, drain) /\ IsTerminal(v, source)
        /\ CheckConnectionReroute(v, drain, source, r)
        /\ v.lastUpdate < MaxUpdates
        /\ virtualNet_v' = Link(Stale(v), drain, source, r)
        /\ UNCHANGED <<leakVoltageSet, dangling, power, calculated, needs, defaultNet,
                       phase, unexpected>>

OtherMaster(v, n, m) ==
    KnownIn(v, n) /\ KnownIn(v, m) /\ v.finalNetId[n] # v.finalNetId[m]

\* What AlreadyShorted may do with net n, an estimate, at a device to a net m
\* of another master fm: nothing, accept the estimate, or reroute it to m.
Estimated(o, n, m, fm, r) ==
    {o} \cup IF n \in o.needs /\ fm \notin o.needs
              THEN {[o EXCEPT !.needs = @ \ {n}], [o EXCEPT !.v = Link(Stale(@), n, m, r)]}
              ELSE {}

\* The source is handled first, then the drain, with the same masters.  At
\* least one of them is rerouted here; AcceptEstimate is the other case.
RerouteEstimate(source, drain, r) ==
    LET v == Mapped(source, drain)
    IN  /\ {source, drain} \cap needs # {}
        /\ Handles(source, drain)
        /\ ~leakVoltageSet
        /\ OtherMaster(v, source, drain)
        /\ \E first \in Estimated([v |-> v, needs |-> needs], source, drain,
                                  v.finalNetId[drain], r) :
           \E second \in Estimated(first, drain, source, v.finalNetId[source], r) :
              /\ v.lastUpdate < second.v.lastUpdate /\ second.v.lastUpdate <= MaxUpdates
              /\ virtualNet_v' = second.v
              /\ needs' = second.needs
        /\ UNCHANGED <<leakVoltageSet, dangling, power, calculated, defaultNet,
                       phase, unexpected>>

\* The estimate of n is found to be right elsewhere: VoltageConflict, off mos in
\* IsIrrelevant, a voltage already set in EnqueueAttachedDevicesByTerminal.
AcceptEstimate(n) ==
    /\ phase = "propagate"
    /\ n \in needs
    /\ needs' = needs \ {n}
    /\ UNCHANGED <<leakVoltageSet, virtualNet_v, dangling, power, calculated, defaultNet,
                   phase, unexpected>>

-----------------------------------------------------------------------------
(* The end of a pass.                                                      *)

\* SetInitialMinMaxPower goes on with RemoveInvalidPower, SetSimPower does not.
EndPropagation ==
    /\ phase = "propagate"
    /\ phase' = "remove"
    /\ UNCHANGED <<leakVoltageSet, virtualNet_v, dangling, power, calculated, needs,
                   defaultNet, unexpected>>

\* An invalid calculation is removed; the net falls back on the net it was
\* calculated from when it has no other voltage.  That net may have been rerouted
\* since: when its chain has come to end in n the fallback closes a loop, and the
\* walk in Set ends the program at assert(myLinkCount < 5021).
RemoveInvalidPower(n) ==
    LET v == Lookup(virtualNet_v, n)
        w == IF v.finalNetId[n] \in power \ {n} THEN v
             ELSE Link(v, n, defaultNet[n], DEFAULT_UNKNOWN_RESISTANCE)
    IN  /\ phase = "remove" /\ ~leakVoltageSet
        /\ n \in calculated
        /\ ~Asserts(n)
        /\ power' = power \ {n} /\ calculated' = calculated \ {n} /\ needs' = needs \ {n}
        /\ virtualNet_v' = w
        /\ phase' = IF IsTerminal(w, Walk(w, n).net) THEN phase ELSE "abort"
        /\ UNCHANGED <<leakVoltageSet, dangling, defaultNet, unexpected>>

\* "recalculate final values": every net is looked up.  Then the stamps are
\* dropped (ClearUpdateArray), and a lookup returns the stored values.
Recalculate ==
    /\ phase = "remove"
    /\ \A n \in Nets : ~Asserts(n)
    /\ virtualNet_v' =
          [virtualNet_v EXCEPT
              !.finalNetId = [n \in Nets |-> Lookup(virtualNet_v, n).finalNetId[n]],
              !.finalResistance = [n \in Nets |-> Lookup(virtualNet_v, n).finalResistance[n]],
              !.lastUpdate = 0, !.lastUpdate_v = [n \in Nets |-> 0]]
    /\ phase' = "done"
    /\ UNCHANGED <<leakVoltageSet, dangling, power, calculated, needs, defaultNet, unexpected>>

\* The next SetSimPower, which starts with new stamps (InitializeUpdateArray)
\* and lastUpdate 0 (ResetQueue).  SetSCRCPower and SetLatchPower have given voltages to
\* nets without one.
NextPass ==
    /\ phase = "done" /\ leakVoltageSet
    /\ \E new \in SUBSET {n \in Live : virtualNet_v.finalNetId[n] \notin power} :
          power' = power \cup new
    /\ phase' = "propagate"
    /\ UNCHANGED <<leakVoltageSet, virtualNet_v, dangling, calculated, needs, defaultNet,
                   unexpected>>

Stopped == (phase = "abort" \/ phase = "done") /\ UNCHANGED vars

Next ==
    \/ \E n \in Nets : LookUp(n) \/ AssertFails(n) \/ AcceptEstimate(n) \/ RemoveInvalidPower(n)
    \/ \E n, m \in Nets, r \in Resistances :
          \/ ShortNets(n, m, r) \/ ShortNetsCalculated(n, m, r) \/ Estimate(n, m, r)
          \/ Reroute(n, m, r) \/ RerouteDirect(n, m, r) \/ RerouteEstimate(n, m, r)
    \/ EndPropagation \/ Recalculate \/ NextPass \/ Stopped

Spec == Init /\ [][Next]_vars

-----------------------------------------------------------------------------
(* Properties.                                                             *)

Master(n) == Walk(virtualNet_v, n).net

\* No loop of next nets outlives the step that closes it, although Set refuses only
\* loops of two nets and ShiftVirtualNets turns pointers around.  The steps of a
\* propagation close none at all: their Set is not guarded here.  RemoveInvalidPower can
\* close one, and the assertion in Set then ends the program.
Forest == phase # "abort" => \A n \in Nets : IsTerminal(virtualNet_v, Master(n))

\* During a propagation a lookup of a net with live devices returns the end of
\* its chain and the resistance to it, although most writers do not advance
\* lastUpdate ("do not increment lastUpdate").
LookupsAreExact ==
    phase = "propagate" =>
        \A n \in Live :
            LET v == Lookup(virtualNet_v, n)
            IN  /\ IsTerminal(virtualNet_v, Master(n))
                /\ v.finalNetId[n] = Master(n)
                /\ v.finalResistance[n] = Walk(virtualNet_v, n).sum

\* ShiftVirtualNets finds the resistances it expects on both sides of each net
\* it turns around ("Shift: unexpected drain resistance").
ShiftsAsExpected == ~unexpected

=============================================================================
