---------------------------- MODULE MCVirtualNet ----------------------------
(* A small instance of VirtualNet for TLC.                                 *)
EXTENDS VirtualNet, TLC

CONSTANT rail

\* Three nets: all that can happen to them.
Three == Nets \ {rail}
AllSteps == rail \notin power \cup dangling

\* Four nets of which one has power, and no estimates: shorts, reroutes and
\* shifts on chains long enough that one reroute turns several nets around.
OnlyShifts ==
    phase = "propagate" /\ ~leakVoltageSet /\ dangling = {} /\ calculated = {} /\ power = {rail}

\* Four nets of which one has power, and estimates: RemoveInvalidPower may close a
\* loop of three nets.
WithEstimates == ~leakVoltageSet /\ dangling = {} /\ rail \in power \ calculated
Unlinked == \A n \in Nets : IsTerminal(virtualNet_v, n)

MCInit == Init /\ (AllSteps \/ OnlyShifts)

MCNext ==
    \/ OnlyShifts /\ \E n \in Nets : LookUp(n)
    \/ OnlyShifts /\ \E n, m \in Nets, r \in Resistances : ShortNets(n, m, r) \/ Reroute(n, m, r)
    \/ OnlyShifts /\ Unlinked /\ \E n, m \in Nets : Estimate(n, m, 1)
    \/ WithEstimates /\ ~OnlyShifts /\ \E n, m \in Nets :
          \/ Estimate(n, m, 1) \/ ShortNetsCalculated(n, m, 1) \/ RerouteEstimate(n, m, 1)
          \/ RemoveInvalidPower(n)
    \/ WithEstimates /\ ~OnlyShifts /\ (EndPropagation \/ Recalculate \/ Stopped)
    \/ AllSteps /\ \E n \in Three :
          LookUp(n) \/ AssertFails(n) \/ AcceptEstimate(n) \/ RemoveInvalidPower(n)
    \/ AllSteps /\ \E n, m \in Three, r \in Resistances :
          \/ ShortNets(n, m, r) \/ ShortNetsCalculated(n, m, r) \/ Estimate(n, m, r)
          \/ Reroute(n, m, r) \/ RerouteDirect(n, m, r) \/ RerouteEstimate(n, m, r)
    \/ AllSteps /\ (EndPropagation \/ Recalculate \/ Stopped)
    \/ AllSteps /\ NextPass /\ rail \notin power'

MCSpec == MCInit /\ [][MCNext]_vars

Symmetry == Permutations(Three)
=============================================================================
