--------------------------- MODULE ConnectionLists --------------------------
(***************************************************************************)
(* The lists of the devices at each net: LinkDevices builds one list per   *)
(* net for gates, sources and drains, threaded through the devices, and    *)
(* counts their members; ShortNonConductingResistors then merges the nets  *)
(* that end in a resistor into the net at its other side, and goes on from *)
(* there while that net ends in a resistor, too (CCvcDb_init.cc).          *)
(*                                                                         *)
(* The devices are resistors and mos.  The three virtual net vectors get   *)
(* the same links here, so that one is kept; module VirtualNet starts from *)
(* them.                                                                   *)
(***************************************************************************)
EXTENDS Integers, FiniteSets

CONSTANTS
    DeviceCount,
    Nets,
    UNKNOWN_DEVICE,
    UNKNOWN_NET

ASSUME DevicesAssumption ==
    DeviceCount \in Nat /\ UNKNOWN_DEVICE \notin Nat
ASSUME NetsAssumption == IsFiniteSet(Nets) /\ UNKNOWN_NET \notin Nets

\* In the order of deviceId_t.
Devices == 1 .. DeviceCount
Terminals == {"gate", "source", "drain"}

VARIABLES
    resistors,    \* the other devices are mos
    ports,        \* nets below topCircuit_p->portCount
    power,        \* nets with netVoltagePtr_v[n].full # NULL
    net_v,        \* sourceNet_v, drainNet_v and gateNet_v
    original,     \* history: net_v as LinkDevices leaves it
    first_v,      \* firstSource_v, firstDrain_v and firstGate_v
    next_v,       \* nextSource_v, nextDrain_v and nextGate_v
    count,        \* connectionCount_v: gateCount, sourceCount, drainCount
    inactive,     \* devices with the inactive bits set
    nextNetId,    \* of minNet_v, simNet_v and maxNet_v
    device_it,    \* of the loop in ShortNonConductingResistors
    call,         \* the arguments of ShortNonConductingResistor, <<>> if none
    error         \* none, assert, EDatabaseError

vars == <<resistors, ports, power, net_v, original, first_v, next_v, count, inactive, nextNetId, device_it,
          call, error>>

Mos == Devices \ resistors

-----------------------------------------------------------------------------

\* Only a mos is in a list of gates.
Linked(t, d) == t # "gate" \/ d \in Mos

\* A device whose source is its drain is ignored and in no list.
Links(net, d, t) == net["source"][d] # net["drain"][d] /\ Linked(t, d)

\* One device, in front of its lists.
LinkDevice(net, d, l) ==
    [first |-> [t \in Terminals |->
        IF Links(net, d, t) THEN [l.first[t] EXCEPT ![net[t][d]] = d] ELSE l.first[t]],
     next |-> [t \in Terminals |->
        IF Links(net, d, t) THEN [l.next[t] EXCEPT ![d] = l.first[t][net[t][d]]] ELSE l.next[t]]]

\* LinkDevices, one device after the other.
LinkDevices(net) ==
    LET link[k \in 0 .. DeviceCount] ==
            IF k = 0
              THEN [first |-> [t \in Terminals |-> [n \in Nets |-> UNKNOWN_DEVICE]],
                    next |-> [t \in Terminals |-> [d \in Devices |-> UNKNOWN_DEVICE]]]
              ELSE LinkDevice(net, k, link[k - 1])
    IN  link[DeviceCount]

\* SetDeviceNets: a resistor has no gate.
Init ==
    /\ resistors \in SUBSET Devices
    /\ ports \in SUBSET Nets
    /\ power \in SUBSET Nets
    /\ net_v \in [source : [Devices -> Nets], drain : [Devices -> Nets],
                  gate : [Devices -> Nets \cup {UNKNOWN_NET}]]
    /\ \A d \in Devices : (net_v.gate[d] = UNKNOWN_NET) = (d \in resistors)
    /\ original = net_v
    /\ LET l == LinkDevices(net_v) IN first_v = l.first /\ next_v = l.next
    /\ count = [t \in Terminals |-> [n \in Nets |->
                   Cardinality({d \in Devices : Links(net_v, d, t) /\ net_v[t][d] = n})]]
    /\ inactive = {d \in Devices : net_v["source"][d] = net_v["drain"][d]}
    /\ nextNetId = [n \in Nets |-> n]
    /\ device_it = 1
    /\ call = <<>>
    /\ error = "none"

-----------------------------------------------------------------------------

Other(t) == IF t = "source" THEN "drain" ELSE "source"
SourceDrainCount(c, n) == c["source"][n] + c["drain"][n]

\* The devices of a list, in order; k is at most DeviceCount.
Member(first, next, n, k) ==
    LET at[i \in 0 .. DeviceCount] ==
            IF i = 0 THEN first[n]
            ELSE IF at[i - 1] = UNKNOWN_DEVICE THEN UNKNOWN_DEVICE ELSE next[at[i - 1]]
    IN  at[k]
Members(first, next, n) ==
    {Member(first, next, n, k) : k \in 0 .. DeviceCount} \ {UNKNOWN_DEVICE}

\* Mutant: the terminal of a device that is moved keeps its net.
MoveDeviceOnly(p, to) ==
    [at |-> p.next[p.at], first |-> [p.first EXCEPT ![to] = p.at],
     next |-> [p.next EXCEPT ![p.at] = p.first[to]], net |-> p.net]

\* One turn of the loop of MergeConnectionListByTerminals: a device goes to the
\* front of the other list.
MoveDevice(p, to) ==
    [at |-> p.next[p.at], first |-> [p.first EXCEPT ![to] = p.at],
     next |-> [p.next EXCEPT ![p.at] = p.first[to]], net |-> [p.net EXCEPT ![p.at] = to]]

MergeConnectionListByTerminals(first, next, net, from, to) ==
    LET move[k \in 0 .. DeviceCount] ==
            IF k = 0 THEN [at |-> first[from], first |-> first, next |-> next, net |-> net]
            ELSE IF move[k - 1].at = UNKNOWN_DEVICE THEN move[k - 1]
            ELSE MoveDevice(move[k - 1], to)
    IN  [move[DeviceCount] EXCEPT !.first[from] = UNKNOWN_DEVICE]

\* FindUniqueSourceDrainConnectedDevice looks among these.
Active(d) == d \in resistors /\ d \notin inactive

\* Mutant: the drains at the net are not counted.
IsDeadEndSources(n) == count["source"][n] = 1 /\ n \notin power

\* "only one leak path" and "not defined".
IsDeadEnd(n) == SourceDrainCount(count, n) = 1 /\ n \notin power

\* The loop of ShortNonConductingResistors, which leaves the ports alone.
ScanDevice ==
    /\ error = "none" /\ call = <<>>
    /\ device_it <= DeviceCount
    /\ LET d == device_it
           Ends(t) == net_v[t][d] \notin ports /\ IsDeadEnd(net_v[t][d])
       IN  call' = IF ~Active(d) THEN <<>>
                   ELSE IF Ends("source") THEN <<d, "source">>
                   ELSE IF Ends("drain") THEN <<d, "drain">>
                   ELSE <<>>
    /\ device_it' = device_it + 1
    /\ UNCHANGED <<resistors, ports, power, net_v, original, first_v, next_v, count, inactive,
                   nextNetId, error>>

\* Resistor d no longer counts at either of its nets.
Uncount(d, t) ==
    [count EXCEPT ![t][net_v[t][d]] = @ - 1, ![Other(t)][net_v[Other(t)][d]] = @ - 1]

\* CVirtualNetVector::Set, which makes no loop of two nets.
Set(from, to) == IF nextNetId[to] = from THEN nextNetId ELSE [nextNetId EXCEPT ![from] = to]

\* Mutant: the loop alone is relied on.
PropagateNot(n, c, merged) == [call |-> <<>>, error |-> "none"]

\* The recursive call, for the one active resistor left at net n, if it is now
\* a dead end.
Propagate(n, c, merged) ==
    LET left(t) == {d \in Members(merged[t].first, merged[t].next, n) : Active(d) /\ d # call[1]}
        found == Cardinality(left("source")) + Cardinality(left("drain"))
        d == CHOOSE x \in left("source") \cup left("drain") : TRUE
    IN  IF SourceDrainCount(c, n) # 1 \/ n \in power \/ found = 0
          THEN [call |-> <<>>, error |-> "none"]
        ELSE IF found > 1 THEN [call |-> <<>>, error |-> "EDatabaseError"]
        ELSE IF merged["source"].net[d] = n THEN [call |-> <<d, "source">>, error |-> "none"]
        ELSE IF merged["drain"].net[d] = n THEN [call |-> <<d, "drain">>, error |-> "none"]
        ELSE [call |-> <<>>, error |-> "EDatabaseError"]

\* ShortNonConductingResistor, up to its recursive call.  call[2] is the
\* terminal at the dead end (SOURCE_TO_MASTER_DRAIN if it is the source).
ShortNonConductingResistor ==
    /\ error = "none" /\ call # <<>>
    /\ LET from == net_v[call[2]][call[1]]
           to == net_v[Other(call[2])][call[1]]
           merged == [t \in Terminals |->
                        MergeConnectionListByTerminals(first_v[t], next_v[t], net_v[t], from, to)]
           c == [Uncount(call[1], call[2]) EXCEPT !["gate"] =
                    [n \in Nets |-> Cardinality(Members(merged["gate"].first, merged["gate"].next, n))]]
           go == Propagate(to, c, merged)
       IN  /\ inactive' = inactive \cup {call[1]}
           /\ count' = c
           /\ nextNetId' = Set(from, to)
           /\ first_v' = [t \in Terminals |-> merged[t].first]
           /\ next_v' = [t \in Terminals |-> merged[t].next]
           /\ net_v' = [t \in Terminals |-> merged[t].net]
           /\ IF SourceDrainCount(c, from) # 0
                THEN error' = "assert" /\ call' = <<>>
                ELSE error' = go.error /\ call' = go.call
    /\ UNCHANGED <<resistors, ports, power, original, device_it>>

\* What follows is outside this module.
Finished == (error # "none" \/ (device_it > DeviceCount /\ call = <<>>)) /\ UNCHANGED vars

Next == ScanDevice \/ ShortNonConductingResistor \/ Finished

Spec == Init /\ [][Next]_vars

-----------------------------------------------------------------------------
(* Properties.                                                             *)

\* The assertion that a merged net has no source or drain left, and the
\* exceptions for a net with two resistors where one was counted, are never
\* reached (CCvcDb_init.cc 537, 543, 625, 634).
NoDatabaseError == error = "none"

\* The end of the chain of virtual nets from net n.
End(n) ==
    LET at[k \in 0 .. Cardinality(Nets)] == IF k = 0 THEN n ELSE nextNetId[at[k - 1]]
    IN  at[Cardinality(Nets)]

\* The three views of a connection agree after any number of merges.  Every list
\* ends, and has each device whose terminal is at its net once and no other.  The
\* counts that decide what is a dead end are those of the devices that are still
\* active, although the lists keep the resistors that were shorted.  The terminals
\* are at the end of the chain of virtual nets from where they were, and no chain
\* is a loop, so that MapDeviceNets, which looks devices up by their new nets, and
\* the reports, which go through the virtual nets, agree.
ListsMatchNets ==
    /\ \A t \in Terminals, n \in Nets :
          LET here == {d \in Devices : Links(original, d, t) /\ net_v[t][d] = n}
          IN  /\ Members(first_v[t], next_v[t], n) = here
              /\ Member(first_v[t], next_v[t], n, Cardinality(here)) = UNKNOWN_DEVICE
    /\ \A t \in {"source", "drain"}, n \in Nets :
          count[t][n] = Cardinality({d \in Devices \ inactive : net_v[t][d] = n})
    /\ \A n \in Nets : nextNetId[End(n)] = End(n)
    /\ \A d \in Devices, t \in Terminals :
          Links(original, d, t) => net_v[t][d] = End(original[t][d])

\* No current can be lost: the nets that are merged away have no power and no
\* source or drain of a mos, so that all they can carry is a gate.  And all such
\* nets are found, whatever the order of the devices: when the loop is over no
\* active resistor ends in a net without power that is not a port.
ExactlyDeadEndsMerged ==
    /\ \A n \in Nets :
          nextNetId[n] # n =>
              /\ n \notin power
              /\ \A d \in Mos \ inactive : n \notin {original["source"][d], original["drain"][d]}
    /\ device_it > DeviceCount /\ call = <<>> /\ error = "none" =>
          \A d \in resistors \ inactive, t \in {"source", "drain"} :
              net_v[t][d] \in ports \/ ~IsDeadEnd(net_v[t][d])
=============================================================================
