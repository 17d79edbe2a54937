----------------------------- MODULE EventQueue -----------------------------
(***************************************************************************)
(* CEventQueue (CEventQueue.hh, CEventQueue.cc): the queue of devices that *)
(* drives the propagation of one kind of voltage (MIN, MAX or SIM), with   *)
(* the part of CCvcDb that keeps the two status bits of each device.       *)
(*                                                                         *)
(* A CEventQueue is two std::map from a key to a CEventList, mainQueue and *)
(* delayQueue.  A CEventList is a list threaded through one vector shared  *)
(* by every list of the queue: queueArray[d] is the device after d, d      *)
(* itself when d is last, and UNKNOWN_DEVICE when d is in no list.  The    *)
(* model keeps both maps in one function, lists, whose domain is the set   *)
(* of slots <<sub-queue, key>> that have an entry in their map.            *)
(***************************************************************************)
EXTENDS Integers, FiniteSets, Sequences

CONSTANTS
    Devices,          \* deviceId_t, 0 .. deviceCount-1
    Keys,             \* the event keys (voltages or simulation times) in use
    UNKNOWN_DEVICE,   \* not a device
    MaxEvents         \* bound on enqueueCount between two resets

ASSUME DevicesAssumption ==
    IsFiniteSet(Devices) /\ UNKNOWN_DEVICE \notin Devices

\* AddEvent negates the keys of the MAX queue.
ASSUME KeysAssumption ==
    Keys \subseteq Int /\ Keys # {} /\ \A k \in Keys : -k \in Keys

ASSUME MaxEventsAssumption == MaxEvents \in Nat

VARIABLES
    queueType,      \* which of the three queues this one is; never changes
    queueArray,
    lists,
    queueStart,
    enqueueCount,
    dequeueCount,
    pending,        \* devices whose pendingBit is set in deviceStatus_v
    inactive,       \* devices whose inactiveBit is set in deviceStatus_v
    phase,          \* where the code that uses the queue is
    current,        \* the device GetEvent returned last (myDeviceId)
    queueKey,       \* the key it was taken from (myQueueKey)
    error           \* the exception, assertion or undefined access met

queueVars == <<queueArray, lists, queueStart, enqueueCount, dequeueCount, error>>
vars == <<queueType, queueArray, lists, queueStart, enqueueCount, dequeueCount,
          pending, inactive, phase, current, queueKey, error>>

Slots == {"main", "delay"} \X Keys
Links == Devices \cup {UNKNOWN_DEVICE}
EventList == [first : Links, second : Links, eventListSize : Nat]

\* SKIP_QUEUE is the one value of queuePosition_t that callers never pass on.
Positions == {"QUEUE_HIZ", "MOS_DIODE", "MAIN_BACK", "DELAY_FRONT", "DELAY_BACK"}

\* prime: filling before queueStart; drain: the propagation loop; handle:
\* an event is being processed; spread: EnqueueAttachedDevices after a short;
\* conflict: inside VoltageConflict.
Phases == {"idle", "prime", "drain", "handle", "spread", "conflict"}

Queued == {d \in Devices : queueArray[d] # UNKNOWN_DEVICE}
QueueSize == enqueueCount - dequeueCount

-----------------------------------------------------------------------------
(* CEventList and CEventSubQueue.                                          *)

NewList == [first |-> UNKNOWN_DEVICE, second |-> UNKNOWN_DEVICE, eventListSize |-> 0]

\* CEventSubQueue::operator[] inserts an empty list under a new key.
ListAt(slot) == IF slot \in DOMAIN lists THEN lists[slot] ELSE NewList

Assign(slot, list) ==
    [s \in DOMAIN lists \cup {slot} |-> IF s = slot THEN list ELSE lists[s]]
Erase(slot) == [s \in DOMAIN lists \ {slot} |-> lists[s]]

PushFrontList(l, d) ==
    [first |-> d,
     second |-> IF l.first = UNKNOWN_DEVICE THEN d ELSE l.second,
     eventListSize |-> l.eventListSize + 1]
PushFrontArray(l, d) ==
    [queueArray EXCEPT ![d] = IF l.first = UNKNOWN_DEVICE THEN d ELSE l.first]

PushBackList(l, d) ==
    [first |-> IF l.first = UNKNOWN_DEVICE THEN d ELSE l.first,
     second |-> d,
     eventListSize |-> l.eventListSize + 1]
PushBackArray(l, d) ==
    [e \in Devices |->
        IF e = d \/ (l.first # UNKNOWN_DEVICE /\ e = l.second) THEN d ELSE queueArray[e]]

PopFrontList(l) ==
    IF queueArray[l.first] = l.first
      THEN [NewList EXCEPT !.eventListSize = l.eventListSize - 1]
      ELSE [l EXCEPT !.first = queueArray[l.first], !.eventListSize = l.eventListSize - 1]

-----------------------------------------------------------------------------
(* CEventQueue.                                                            *)

Sign(key) == IF queueType = "MAX" THEN -key ELSE key

\* begin() of one of the maps.
Begin(part, key) ==
    /\ <<part, key>> \in DOMAIN lists
    /\ \A k \in Keys : <<part, k>> \in DOMAIN lists => key <= k
Empty(part) == \A k \in Keys : <<part, k>> \notin DOMAIN lists

\* Mutant: of two equal keys the delay queue goes first.
IsNextMainQueueLater ==
    /\ ~Empty("main")
    /\ \/ Empty("delay")
       \/ queueType = "SIM"
       \/ \E k, j \in Keys : Begin("main", k) /\ Begin("delay", j) /\ k < j

IsNextMainQueue ==
    /\ ~Empty("main")
    /\ \/ Empty("delay")
       \/ queueType = "SIM"
       \/ \E k, j \in Keys : Begin("main", k) /\ Begin("delay", j) /\ k <= j

PartOf(position) ==
    IF position \in {"DELAY_FRONT", "DELAY_BACK"} THEN "delay" ELSE "main"
IsFront(position) == position \in {"QUEUE_HIZ", "MOS_DIODE", "DELAY_FRONT"}
SlotOf(key, position) == <<PartOf(position), Sign(key)>>

\* push_front and push_back throw EQueueError for a device that is in a list,
\* and assert that first and second are known together.
AddFails(key, d, position) ==
    LET slot == SlotOf(key, position)
        l == ListAt(slot)
    IN  /\ \/ queueArray[d] # UNKNOWN_DEVICE
           \/ (l.first = UNKNOWN_DEVICE) # (l.second = UNKNOWN_DEVICE)
        /\ error' = IF queueArray[d] # UNKNOWN_DEVICE THEN "EQueueError" ELSE "assert"
        /\ lists' = Assign(slot, l)
        /\ UNCHANGED <<queueArray, enqueueCount>>

AddSucceeds(key, d, position) ==
    LET slot == SlotOf(key, position)
        l == ListAt(slot)
    IN  /\ queueArray[d] = UNKNOWN_DEVICE
        /\ (l.first = UNKNOWN_DEVICE) = (l.second = UNKNOWN_DEVICE)
        /\ lists' = Assign(slot, IF IsFront(position)
                                   THEN PushFrontList(l, d) ELSE PushBackList(l, d))
        /\ queueArray' = IF IsFront(position)
                           THEN PushFrontArray(l, d) ELSE PushBackArray(l, d)
        /\ enqueueCount' = enqueueCount + 1
        /\ UNCHANGED error

AddEvent(key, d, position) ==
    /\ enqueueCount < MaxEvents
    /\ AddFails(key, d, position) \/ AddSucceeds(key, d, position)
    /\ UNCHANGED <<queueType, queueStart, dequeueCount>>

\* GetMainEvent and GetDelayEvent: pop from the list at begin(), and erase
\* its map entry once the list is empty.
PopBegin(part) ==
    \E key \in Keys :
        LET slot == <<part, key>>
            l == lists[slot]
            rest == PopFrontList(l)
        IN  /\ Begin(part, key)
            /\ l.first # UNKNOWN_DEVICE
            /\ current' = l.first
            /\ queueKey' = Sign(key)
            /\ queueArray' = [queueArray EXCEPT ![l.first] = UNKNOWN_DEVICE]
            /\ lists' = IF rest.first = UNKNOWN_DEVICE THEN Erase(slot) ELSE Assign(slot, rest)
            /\ dequeueCount' = dequeueCount + 1
            /\ UNCHANGED error

\* begin() of an empty map may not be dereferenced; pop_front throws on an
\* empty list.
PopFails(part) ==
    /\ \/ Empty(part) /\ error' = "undefined"
       \/ \E key \in Keys :
             /\ Begin(part, key)
             /\ lists[<<part, key>>].first = UNKNOWN_DEVICE
             /\ error' = "EQueueError"
    /\ UNCHANGED <<queueArray, lists, dequeueCount, current, queueKey>>

GetEvent ==
    /\ LET part == IF IsNextMainQueue THEN "main" ELSE "delay"
       IN  PopBegin(part) \/ PopFails(part)
    /\ UNCHANGED <<queueType, queueStart, enqueueCount>>

-----------------------------------------------------------------------------
(* The code that uses the queue.                                           *)

Init ==
    /\ queueType \in {"SIM", "MAX", "MIN"}
    /\ queueArray = [d \in Devices |-> UNKNOWN_DEVICE]
    /\ lists = [slot \in {} |-> NewList]
    /\ queueStart = FALSE
    /\ enqueueCount = 0 /\ dequeueCount = 0
    /\ pending = {} /\ inactive = {}
    /\ phase = "idle"
    /\ current = UNKNOWN_DEVICE
    /\ queueKey = 0
    /\ error = "none"

\* Nothing happens after an error: exceptions are caught in main() only, and
\* end the program.
At(p) == phase = p /\ error = "none"

\* ResetQueue clears the links and the counters, not the two maps.  Its
\* callers recompute the inactive bits (ResetMinMaxPower copies them from
\* SIM_INACTIVE, ResetMinSimMaxAndQueues clears them); ResetMinMaxPower and
\* SetSimPower leave the pending bits as they are.
ResetQueue ==
    /\ At("idle")
    /\ queueArray' = [d \in Devices |-> UNKNOWN_DEVICE]
    /\ enqueueCount' = 0 /\ dequeueCount' = 0
    /\ queueStart' = FALSE
    /\ inactive' \in SUBSET Devices
    /\ pending' \in {pending, {}}
    /\ phase' = "prime"
    /\ UNCHANGED <<queueType, lists, current, queueKey, error>>

\* IgnoreDevice, called between propagations, replaces all status bits.
IgnoreDevice(d) ==
    /\ At("idle") \/ (At("prime") /\ QueueSize = 0)
    /\ inactive' = inactive \cup {d}
    /\ pending' = pending \ {d}
    /\ UNCHANGED <<queueType, queueVars, phase, current, queueKey>>

\* The simulation key is the current QueueTime plus a resistance; QueueTime is
\* 0 until queueStart and when both maps are empty.
NotBeforeQueueTime(key) ==
    IF queueStart /\ DOMAIN lists # {}
      THEN \E slot \in DOMAIN lists : slot[2] <= key
      ELSE 0 <= key

\* Devices are added before the queue starts, by the handler of one of its
\* events, and by the handler of the opposite (MIN or MAX) queue between two
\* events of this one.
MayEnqueue ==
    \/ At("prime") \/ At("spread")
    \/ (At("conflict") \/ At("drain")) /\ queueType # "SIM"

\* Mutant: pending devices are not skipped.
EnqueuePending(d, key, position) ==
    /\ MayEnqueue
    /\ d \notin inactive
    /\ queueType = "SIM" => NotBeforeQueueTime(key)
    /\ AddEvent(key, d, position)
    /\ pending' = pending \cup {d}
    /\ UNCHANGED <<inactive, phase, current, queueKey>>

\* One device of EnqueueAttachedDevicesByTerminal (or of
\* EnqueueAttachedResistorsByTerminal).
Enqueue(d, key, position) ==
    /\ MayEnqueue
    /\ d \notin inactive /\ d \notin pending
    /\ queueType = "SIM" => NotBeforeQueueTime(key)
    /\ AddEvent(key, d, position)
    /\ pending' = pending \cup {d}
    /\ UNCHANGED <<inactive, phase, current, queueKey>>

\* The same loop marks irrelevant devices inactive instead.
SkipIrrelevant(d) ==
    /\ MayEnqueue
    /\ d \notin inactive /\ d \notin pending
    /\ inactive' = inactive \cup {d}
    /\ UNCHANGED <<queueType, queueVars, pending, phase, current, queueKey>>

StartQueue ==
    /\ At("prime")
    /\ queueStart' = TRUE
    /\ phase' = "drain"
    /\ UNCHANGED <<queueType, queueArray, lists, enqueueCount, dequeueCount,
                   pending, inactive, current, queueKey, error>>

\* The head of each Propagate...Voltages: take an event, clear its pending
\* bit, return at once if it is inactive.
TakeEvent ==
    /\ At("drain")
    /\ QueueSize > 0
    /\ GetEvent
    /\ pending' = pending \ {current'}
    /\ phase' = IF current' \in inactive THEN "drain" ELSE "handle"
    /\ UNCHANGED inactive

\* An early return of the handler: unknown voltages, SKIP_QUEUE, ...
LeaveEvent ==
    /\ At("handle")
    /\ phase' = "drain"
    /\ UNCHANGED <<queueType, queueVars, pending, inactive, current, queueKey>>

\* IsIrrelevant, FUSE_OFF, or AlreadyShorted for a resistor.
DropEvent ==
    /\ At("handle")
    /\ inactive' = inactive \cup {current}
    /\ phase' = "drain"
    /\ UNCHANGED <<queueType, queueVars, pending, current, queueKey>>

\* CEventQueue::Later(myEventKey, myQueueKey), with the keys as the callers
\* see them.
Later(key) == IF queueType = "MAX" THEN key < queueKey ELSE key > queueKey

\* Mutant: the pending bit is not set again.
RequeueNotPending(key, position) ==
    /\ At("handle")
    /\ queueType # "SIM"
    /\ Later(key)
    /\ AddEvent(key, current, position)
    /\ phase' = "drain"
    /\ UNCHANGED <<pending, inactive, current, queueKey>>

\* PropagateMinMaxVoltages puts a device back under a later key.
Requeue(key, position) ==
    /\ At("handle")
    /\ queueType # "SIM"
    /\ Later(key)
    /\ AddEvent(key, current, position)
    /\ pending' = pending \cup {current}
    /\ phase' = "drain"
    /\ UNCHANGED <<inactive, current, queueKey>>

\* ShortNets (or ShortSimNets) makes the device inactive; the devices attached
\* to the net that got a voltage are enqueued next.
ShortNets ==
    /\ At("handle")
    /\ inactive' = inactive \cup {current}
    /\ phase' = "spread"
    /\ UNCHANGED <<queueType, queueVars, pending, current, queueKey>>

EndSpread ==
    /\ At("spread")
    /\ phase' = "drain"
    /\ UNCHANGED <<queueType, queueVars, pending, inactive, current, queueKey>>

\* VoltageConflict sets the pending bit of the device being handled while it
\* enqueues others, clears it, and ends in AlreadyShorted.
BeginConflict ==
    /\ At("handle")
    /\ pending' = pending \cup {current}
    /\ phase' = "conflict"
    /\ UNCHANGED <<queueType, queueVars, inactive, current, queueKey>>

EndConflict ==
    /\ At("conflict")
    /\ pending' = pending \ {current}
    /\ inactive' = inactive \cup {current}
    /\ phase' = "drain"
    /\ UNCHANGED <<queueType, queueVars, current, queueKey>>

\* Mutant: the loop stops one event early.
DrainedEarly ==
    /\ At("drain")
    /\ QueueSize <= 1
    /\ phase' = "idle"
    /\ UNCHANGED <<queueType, queueVars, pending, inactive, current, queueKey>>

\* The propagation loop ends when QueueSize() is 0.
Drained ==
    /\ At("drain")
    /\ QueueSize = 0
    /\ phase' = "idle"
    /\ UNCHANGED <<queueType, queueVars, pending, inactive, current, queueKey>>

Next ==
    \/ ResetQueue
    \/ \E d \in Devices : IgnoreDevice(d) \/ SkipIrrelevant(d)
    \/ \E d \in Devices, key \in Keys, position \in Positions : Enqueue(d, key, position)
    \/ StartQueue \/ TakeEvent \/ LeaveEvent \/ DropEvent
    \/ \E key \in Keys, position \in Positions : Requeue(key, position)
    \/ ShortNets \/ EndSpread \/ BeginConflict \/ EndConflict \/ Drained

Spec == Init /\ [][Next]_vars

-----------------------------------------------------------------------------
(* Properties.                                                             *)

\* The types of the variables: links are devices or UNKNOWN_DEVICE, sizes and
\* counters of CEventQueue never go below 0 (all are unsigned in the code).
TypeOK ==
    /\ queueType \in {"SIM", "MAX", "MIN"}
    /\ queueArray \in [Devices -> Links]
    /\ DOMAIN lists \subseteq Slots
    /\ lists \in [DOMAIN lists -> EventList]
    /\ queueStart \in BOOLEAN
    /\ enqueueCount \in Nat /\ dequeueCount \in Nat
    /\ pending \subseteq Devices /\ inactive \subseteq Devices
    /\ phase \in Phases
    /\ current \in Links
    /\ queueKey \in Int
    /\ error \in {"none", "EQueueError", "assert", "undefined"}

\* No legal sequence of calls makes push_front or push_back throw EQueueError
\* or fail their assertion, makes pop_front throw, or dereferences begin() of
\* an empty map (CEventQueue.cc 63, 73, 205-211, 219-225, 233).
NoQueueError == error = "none"

\* The pending bit tells exactly which devices are in a list.  It is what
\* keeps EnqueueAttachedDevices from adding a device twice.  The one exception
\* is the device VoltageConflict is working on, pending and in no list.
PendingIsQueued ==
    IF phase = "conflict"
      THEN current \notin Queued /\ pending = Queued \cup {current}
      ELSE pending = Queued

\* QueueSize(), the difference of two counters, is the number of devices in
\* the lists, so the loops that test it neither stop early nor run on empty
\* maps.
SizeAgrees == QueueSize = Cardinality(Queued)

\* ResetQueue forgets every link but keeps the maps: whenever it may be
\* called, the maps have no entry and no device is pending.
EmptyWhenIdle == phase = "idle" => DOMAIN lists = {} /\ pending = {}

\* The devices of a list: what following the links from first reaches in
\* eventListSize steps.
Follows(w, l, links) ==
    /\ 0 < l.eventListSize => w[1] = l.first
    /\ \A i \in 2 .. l.eventListSize : w[i] = links[w[i - 1]]

Walk(l, links) == CHOOSE w \in [1 .. l.eventListSize -> Devices] : Follows(w, l, links)

\* The state of the abstract queue, read off the linked lists.
Contents == [s \in Slots |-> IF s \in DOMAIN lists THEN Walk(lists[s], queueArray) ELSE <<>>]

Abstract == INSTANCE AbstractEventQueue WITH order <- Contents

\* The linked lists behave as the ordered queue the propagation code expects:
\* every push and every pop is one of its steps, and GetEvent returns the
\* device that queue would return.
ImplementsQueue == Abstract!AbsSpec
=============================================================================
