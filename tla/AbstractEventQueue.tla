------------------------ MODULE AbstractEventQueue --------------------------
(***************************************************************************)
(* What CEventQueue promises to the propagation code: a set of devices,    *)
(* each at most once, in lists ordered by sub-queue and key.  The next     *)
(* event is the head of the first list in that order.                      *)
(***************************************************************************)
EXTENDS Integers, Sequences

CONSTANTS Devices, Keys, UNKNOWN_DEVICE

VARIABLES
    queueType,
    order,      \* order[slot]: the devices waiting under that slot
    current     \* the device taken last

absVars == <<queueType, order, current>>

AbsSlots == {"main", "delay"} \X Keys

\* For the SIM queue mainQueue has priority always; for the MIN and MAX queues
\* it has priority if its key is not later (IsNextMainQueue).
Precedes(s, t) ==
    IF queueType = "SIM"
      THEN IF s[1] = t[1] THEN s[2] <= t[2] ELSE s[1] = "main"
      ELSE IF s[2] = t[2] THEN s[1] = "main" \/ t[1] = "delay" ELSE s[2] < t[2]

Waiting == {d \in Devices : \E s \in AbsSlots : \E i \in DOMAIN order[s] : order[s][i] = d}

AbsInit ==
    /\ queueType \in {"SIM", "MAX", "MIN"}
    /\ order = [s \in AbsSlots |-> <<>>]
    /\ current = UNKNOWN_DEVICE

AddFront(s, d) ==
    /\ d \notin Waiting
    /\ order' = [order EXCEPT ![s] = <<d>> \o order[s]]
    /\ UNCHANGED <<queueType, current>>

AddBack(s, d) ==
    /\ d \notin Waiting
    /\ order' = [order EXCEPT ![s] = Append(order[s], d)]
    /\ UNCHANGED <<queueType, current>>

Take(s) ==
    /\ order[s] # <<>>
    /\ \A t \in AbsSlots : order[t] # <<>> => Precedes(s, t)
    /\ current' = order[s][1]
    /\ order' = [order EXCEPT ![s] = Tail(order[s])]
    /\ UNCHANGED queueType

AbsNext ==
    \E s \in AbsSlots :
        Take(s) \/ \E d \in Devices : AddFront(s, d) \/ AddBack(s, d)

AbsSpec == AbsInit /\ [][AbsNext]_absVars
=============================================================================
