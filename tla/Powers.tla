------------------------------- MODULE Powers -------------------------------
(***************************************************************************)
(* CPower: the power definition of a net (CPower.hh, CPower.cc) and the    *)
(* relation between two of them.  A power is a record: its voltages at the *)
(* three levels min, sim and max, its type bits, its explicit family and   *)
(* whether the family lists friends or enemies, the names in its relative  *)
(* set (explicit and implicit), its own name and its alias ("" is none).   *)
(***************************************************************************)
EXTENDS Integers

UNKNOWN_VOLTAGE == 32767      \* INT16_MAX: voltage_t is int16_t

Known(v) == v # UNKNOWN_VOLTAGE

AbsoluteDifference(a, b) == IF a > b THEN a - b ELSE b - a

\* The relative set of p holds the name or the alias of q, or one of q's relatives.
Mentions(p, q) ==
    \/ q.powerSignal \in p.relativeSet
    \/ q.powerAlias \in p.relativeSet
    \/ p.relativeSet \cap q.relativeSet # {}

HasFriends(p) == p.family # "" /\ p.relativeFriendly

HasEnemies(p) == p.family # "" /\ ~ p.relativeFriendly

\* An enemy overrides a friend, a friend overrides the default.
IsRelative(p, q, default, isHiZRelative) ==
    IF isHiZRelative /\ (p.hiz \/ q.hiz) THEN TRUE
    ELSE IF p.relativeSet = {} /\ q.relativeSet = {} THEN default
    ELSE IF HasFriends(p) /\ HasFriends(q) THEN Mentions(p, q) \/ Mentions(q, p)
    ELSE IF HasFriends(p) /\ HasEnemies(q)
         THEN ~ Mentions(q, p) /\ (Mentions(p, q) \/ default)
    ELSE IF HasEnemies(p) /\ HasFriends(q)
         THEN ~ Mentions(p, q) /\ (Mentions(q, p) \/ default)
    ELSE IF HasEnemies(p) /\ HasEnemies(q) THEN ~ (Mentions(p, q) \/ Mentions(q, p))
    ELSE IF HasFriends(p) THEN Mentions(p, q)
    ELSE IF HasEnemies(p) THEN ~ Mentions(p, q)
    ELSE IF HasFriends(q) THEN Mentions(q, p)
    ELSE HasEnemies(q) => ~ Mentions(q, p)

\* The part of IsRelatedPower after the base powers are found: two different powers are
\* related when one's alias is the other's alias or name, or else when they are relatives.
AreRelated(p, q, default, isHiZRelative) ==
    \/ p.powerAlias # "" /\ p.powerAlias \in {q.powerAlias, q.powerSignal}
    \/ q.powerAlias # "" /\ q.powerAlias = p.powerSignal
    \/ IsRelative(p, q, default, isHiZRelative)

=============================================================================
