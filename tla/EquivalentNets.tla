--------------------------- MODULE EquivalentNets ---------------------------
(***************************************************************************)
(* SetEquivalentNets (CCvcDb_init.cc): the nets on both sides of each      *)
(* SWITCH_ON device become one.  equivalentNet_v is a forest whose links   *)
(* go to smaller nets while switches are shorted; a last pass over all     *)
(* nets, from the greatest to the least, replaces each link by the net     *)
(* that stands for the whole class: the net where its power is defined, or *)
(* its least net.                                                          *)
(*                                                                         *)
(* A CPower is known by the net it is defined at (CPower::netId); two      *)
(* powers are compared by the values of their fields.  Of the three         *)
(* expected levels of a power the model has the one of the simulation.      *)
(***************************************************************************)
EXTENDS Powers, FiniteSets

CONSTANTS
    NetCount,
    Threshold,        \* cvcShortErrorThreshold
    NULL              \* no power

ASSUME NetCountAssumption == NetCount \in Nat /\ NULL \notin Nat
ASSUME ThresholdAssumption == Threshold \in Nat

Nets == 0 .. NetCount - 1

VARIABLES
    definition,          \* the power at each net, from SetModePower and SetInstancePower
    equivalentNet_v,
    full,                \* netVoltagePtr_v[n].full: the net of a power, or NULL
    theNetMap,           \* the other nets of the class, at its least net
    isFixedEquivalentNet,
    net_it,              \* the last pass has yet to visit the nets below net_it
    shorted              \* history: the switches whose ends were merged

equivalenceVars == <<definition, equivalentNet_v, full, theNetMap, isFixedEquivalentNet, net_it,
                     shorted>>

-----------------------------------------------------------------------------

\* Links go to smaller nets, or to the net itself.
GetLeastEquivalentNet(n) ==
    LET walk[k \in 0 .. NetCount] ==
            IF k = 0 THEN n
            ELSE IF equivalentNet_v[walk[k - 1]] < walk[k - 1]
                   THEN equivalentNet_v[walk[k - 1]] ELSE walk[k - 1]
    IN  walk[NetCount]

GetEquivalentNet(n) ==
    LET e == IF isFixedEquivalentNet THEN equivalentNet_v[n] ELSE GetLeastEquivalentNet(n)
    IN  IF full[e] # NULL THEN full[e] ELSE e

\* CPower::IsSamePower, which does not look at the relative set.
SamePower(p, q) ==
    /\ p.type = q.type /\ p.hiz = q.hiz
    /\ p.min = q.min /\ p.sim = q.sim /\ p.max = q.max
    /\ p.expectedSim = q.expectedSim
    /\ p.family = q.family /\ p.relativeFriendly = q.relativeFriendly

IsSamePower(a, b) == SamePower(definition[a], definition[b])

Levels == {"min", "sim", "max"}

Near(v, match) == ~Known(match) \/ AbsoluteDifference(v, match) <= Threshold

\* Mutant: only the type and the simulation voltage are compared.
ValidSubsetSimOnly(p, q) ==
    /\ q.type = "none" \/ (p.type = "power" /\ q.type = "input")
    /\ Near(p.sim, q.sim)

\* CPower::IsValidSubset: q may be given up for p.  The families are expanded
\* later, in SetFamilies, so that IsRelative finds none here.
ValidSubset(p, q) ==
    /\ (q.type = "none" /\ ~q.hiz) \/ (p.type = "power" /\ q.type = "input")
    /\ \A level \in Levels : Near(p[level], q[level])
    /\ ~Known(q.expectedSim)
    /\ IsRelative(p, q, TRUE, FALSE)

IsValidSubset(a, b) == ValidSubset(definition[a], definition[b])

\* SetMasterPower: the power of the class that the nets a and b form, and
\* whether one of two definitions is given up for it.
SetMasterPower(a, b) ==
    CASE full[a] = NULL -> [power |-> full[b], same |-> FALSE]
      [] full[a] # NULL /\ full[b] = NULL -> [power |-> full[a], same |-> FALSE]
      [] OTHER -> IF IsSamePower(full[a], full[b]) THEN [power |-> NULL, same |-> TRUE]
                  ELSE IF IsValidSubset(full[a], full[b]) THEN [power |-> full[a], same |-> TRUE]
                  ELSE [power |-> full[b], same |-> TRUE]

\* SetMasterPower throws EEquivalenceError.
Conflict(a, b) ==
    /\ full[a] # NULL /\ full[b] # NULL
    /\ ~IsSamePower(full[a], full[b])
    /\ ~IsValidSubset(full[a], full[b]) /\ ~IsValidSubset(full[b], full[a])

\* The start of SetEquivalentNets.
StartEquivalentNets ==
    /\ equivalentNet_v' = [n \in Nets |-> n]
    /\ theNetMap' = [n \in Nets |-> {}]
    /\ isFixedEquivalentNet' = FALSE
    /\ net_it' = NetCount
    /\ shorted' = {}
    /\ UNCHANGED <<definition, full>>

\* The minor net and its class get the power of the other one.
Spread(minor, power) ==
    IF power = NULL THEN full
    ELSE [n \in Nets |-> IF n \in {minor} \cup theNetMap[minor] THEN power ELSE full[n]]

Splice(lesser, greater) ==
    [theNetMap EXCEPT ![lesser] = @ \cup {greater} \cup theNetMap[greater], ![greater] = {}]

\* MakeEquivalentNets for a switch between a and b.
MakeEquivalentNets(a, b) ==
    LET first == GetLeastEquivalentNet(a)
        second == GetLeastEquivalentNet(b)
        lesser == IF first < second THEN first ELSE second
        greater == IF first < second THEN second ELSE first
        master == SetMasterPower(first, second)
        minor == IF full[greater] = master.power THEN lesser ELSE greater
    IN  /\ full' = Spread(minor, master.power)
        /\ theNetMap' = Splice(lesser, greater)
        /\ equivalentNet_v' = [equivalentNet_v EXCEPT ![greater] = lesser]

Shorting == net_it = NetCount /\ ~isFixedEquivalentNet

\* In each of the three cases the device itself is ignored from then on
\* (IgnoreDevice, in module EventQueue).

\* "already equivalent"
SkipSwitch(a, b) ==
    /\ Shorting
    /\ GetLeastEquivalentNet(a) = GetLeastEquivalentNet(b)
    /\ UNCHANGED equivalenceVars

\* Switches between equal definitions, and between powers of which neither is
\* a subset of the other, are reported and not shorted.
ReportSwitch(a, b) ==
    LET first == GetLeastEquivalentNet(a)
        second == GetLeastEquivalentNet(b)
    IN  /\ Shorting
        /\ first # second
        /\ \/ Conflict(first, second)
           \/ SetMasterPower(first, second) = [power |-> NULL, same |-> TRUE]
        /\ UNCHANGED equivalenceVars

ShortSwitch(a, b) ==
    LET first == GetLeastEquivalentNet(a)
        second == GetLeastEquivalentNet(b)
    IN  /\ Shorting
        /\ first # second
        /\ ~Conflict(first, second)
        /\ SetMasterPower(first, second) # [power |-> NULL, same |-> TRUE]
        /\ MakeEquivalentNets(a, b)
        /\ shorted' = shorted \cup {{a, b}}
        /\ UNCHANGED <<definition, isFixedEquivalentNet, net_it>>

\* Mutant: the last pass goes up.
FixUpward(n) ==
    /\ ~isFixedEquivalentNet
    /\ net_it > 0 /\ n = NetCount - net_it
    /\ equivalentNet_v' = [equivalentNet_v EXCEPT ![n] = GetEquivalentNet(n)]
    /\ full' = IF full[n] = n THEN full ELSE [full EXCEPT ![n] = NULL]
    /\ net_it' = net_it - 1
    /\ UNCHANGED <<definition, theNetMap, isFixedEquivalentNet, shorted>>

\* One net of the last pass.
Fix(n) ==
    /\ ~isFixedEquivalentNet
    /\ net_it > 0 /\ n = net_it - 1
    /\ equivalentNet_v' = [equivalentNet_v EXCEPT ![n] = GetEquivalentNet(n)]
    /\ full' = IF full[n] = n THEN full ELSE [full EXCEPT ![n] = NULL]
    /\ net_it' = net_it - 1
    /\ UNCHANGED <<definition, theNetMap, isFixedEquivalentNet, shorted>>

\* isFixedEquivalentNet changes what GetEquivalentNet reads.
SetFixed ==
    /\ ~isFixedEquivalentNet /\ net_it = 0
    /\ isFixedEquivalentNet' = TRUE
    /\ theNetMap' = [n \in Nets |-> {}]
    /\ UNCHANGED <<definition, equivalentNet_v, full, net_it, shorted>>

-----------------------------------------------------------------------------
(* Properties.                                                             *)

\* a and b are joined by switches that were shorted.
Joined(a, b) ==
    \A S \in SUBSET Nets :
        (a \in S /\ \A s \in shorted : s \cap S # {} => s \subseteq S) => b \in S

\* Two nets are equivalent if, and only if, shorted switches join them: in the
\* order in which the switches come, and whether or not power gets in between.
\* It holds of the links while switches are shorted and of the final numbers.
EquivalentIffJoined ==
    \A a, b \in Nets :
        Shorting \/ isFixedEquivalentNet => (GetEquivalentNet(a) = GetEquivalentNet(b)) = Joined(a, b)
=============================================================================
