----------------------------- MODULE MinMaxLoop -----------------------------
(***************************************************************************)
(* The two loops that empty the MIN and the MAX event queue together:      *)
(* SetResistorVoltagesByPower and SetInitialMinMaxPower.  The second takes *)
(* events in batches: it reads the length of the list at the front of one  *)
(* queue, then handles that many events of that queue without looking at   *)
(* the queues again, while each event may add devices to either queue.     *)
(*                                                                         *)
(* A queue is what EventQueue shows CEventQueue to be, less the order      *)
(* within a list: at[q][d] is the slot <<sub-queue, key>> where device d   *)
(* waits in queue q.  Keys are those of the maps, where AddEvent has       *)
(* negated the voltages of the MAX queue, so that later is always greater. *)
(***************************************************************************)
EXTENDS Integers, FiniteSets

CONSTANTS Devices, Keys

ASSUME LoopDevicesAssumption == IsFiniteSet(Devices)
\* Keys are voltages and times of fixed width, so that there is a least one.
ASSUME LoopKeysAssumption ==
    Keys \subseteq Int /\ \E low \in Keys : \A k \in Keys : low <= k

Queues == {"MIN", "MAX"}
Slots == {"main", "delay"} \X Keys
NoSlot == <<"none", 0>>

VARIABLES
    loop,                   \* which of the two loops runs
    at,
    inactive,               \* inactive[q]: devices with queue q's inactive bit
    myLoopCount,
    myDequeueCount,
    myProcessingMinQueue,
    phase,                  \* test, propagate, spread (inside a handler), done
    spreading               \* the queues a handler is adding devices to

vars == <<loop, at, inactive, myLoopCount, myDequeueCount, myProcessingMinQueue,
          phase, spreading>>

-----------------------------------------------------------------------------
(* The queues.                                                             *)

Waiting(q) == {d \in Devices : at[q][d] # NoSlot}
QueueSize(q) == Cardinality(Waiting(q))
ListAt(q, slot) == {d \in Devices : at[q][d] = slot}

Begin(q, slot) ==
    /\ ListAt(q, slot) # {}
    /\ \A k \in Keys : ListAt(q, <<slot[1], k>>) # {} => slot[2] <= k
Empty(q, part) == \A k \in Keys : ListAt(q, <<part, k>>) = {}

IsNextMainQueue(q) ==
    /\ ~Empty(q, "main")
    /\ \/ Empty(q, "delay")
       \/ \E k, j \in Keys : Begin(q, <<"main", k>>) /\ Begin(q, <<"delay", j>>) /\ k <= j

\* The list that GetEvent takes an event from.  The code may not look for it in
\* an empty queue, where begin() cannot be dereferenced.
NextSlot(q, slot) ==
    Begin(q, slot) /\ slot[1] = IF IsNextMainQueue(q) THEN "main" ELSE "delay"
NextList(q) == {d \in Waiting(q) : NextSlot(q, at[q][d])}

Processing == IF myProcessingMinQueue THEN "MIN" ELSE "MAX"

-----------------------------------------------------------------------------
(* The loops.                                                              *)

\* The queues as the code before the loop has filled them.
Init ==
    /\ loop \in {"SetResistorVoltagesByPower", "SetInitialMinMaxPower"}
    /\ at \in [Queues -> [Devices -> Slots \cup {NoSlot}]]
    /\ inactive \in [Queues -> SUBSET Devices]
    /\ \A q \in Queues : inactive[q] \cap Waiting(q) = {}
    /\ myLoopCount = QueueSize("MIN") + QueueSize("MAX")
    /\ myDequeueCount = 0
    /\ myProcessingMinQueue = FALSE
    /\ phase = "test"
    /\ spreading = {}

EndLoop ==
    /\ phase = "test"
    /\ myLoopCount = 0
    /\ phase' = "done"
    /\ UNCHANGED <<loop, at, inactive, myLoopCount, myDequeueCount, myProcessingMinQueue,
                   spreading>>

\* SetInitialMinMaxPower: main queues first, then by size.
PreferMin ==
    \/ IsNextMainQueue("MIN") = IsNextMainQueue("MAX") /\ QueueSize("MIN") > QueueSize("MAX")
    \/ IsNextMainQueue("MIN") /\ ~IsNextMainQueue("MAX")

\* A new batch, of the size of the list at begin() of the preferred queue.
ChooseBatch ==
    /\ phase = "test" /\ loop = "SetInitialMinMaxPower"
    /\ myLoopCount > 0 /\ myDequeueCount = 0
    /\ myProcessingMinQueue' = PreferMin
    /\ myDequeueCount' = Cardinality(NextList(IF PreferMin THEN "MIN" ELSE "MAX"))
    /\ phase' = "propagate"
    /\ UNCHANGED <<loop, at, inactive, myLoopCount, spreading>>

ContinueBatch ==
    /\ phase = "test" /\ loop = "SetInitialMinMaxPower"
    /\ myLoopCount > 0 /\ myDequeueCount # 0
    /\ phase' = "propagate"
    /\ UNCHANGED <<loop, at, inactive, myLoopCount, myDequeueCount, myProcessingMinQueue,
                   spreading>>

\* Mutant: the comparison is the wrong way round.
ChooseSmaller ==
    /\ phase = "test" /\ loop = "SetResistorVoltagesByPower"
    /\ myLoopCount > 0
    /\ myProcessingMinQueue' = (QueueSize("MIN") < QueueSize("MAX"))
    /\ phase' = "propagate"
    /\ UNCHANGED <<loop, at, inactive, myLoopCount, myDequeueCount, spreading>>

\* SetResistorVoltagesByPower compares the sizes before every event; its loop
\* condition is the sum of the sizes, kept here in myLoopCount.
ChooseLarger ==
    /\ phase = "test" /\ loop = "SetResistorVoltagesByPower"
    /\ myLoopCount > 0
    /\ myProcessingMinQueue' = (QueueSize("MIN") > QueueSize("MAX"))
    /\ phase' = "propagate"
    /\ UNCHANGED <<loop, at, inactive, myLoopCount, myDequeueCount, spreading>>

\* Mutant: the loop count is not refreshed when it runs out.
NextCountOnce ==
    /\ myDequeueCount' = IF myDequeueCount = 0 THEN 0 ELSE myDequeueCount - 1
    /\ myLoopCount' = myLoopCount - 1

\* The end of the loop body, after a handler.
NextCount ==
    IF loop = "SetInitialMinMaxPower"
      THEN /\ myDequeueCount' = myDequeueCount - 1
           /\ myLoopCount' = IF myLoopCount - 1 < 1
                               THEN QueueSize("MIN")' + QueueSize("MAX")' ELSE myLoopCount - 1
      ELSE /\ myLoopCount' = QueueSize("MIN")' + QueueSize("MAX")'
           /\ UNCHANGED myDequeueCount

-----------------------------------------------------------------------------
(* PropagateMinMaxVoltages and PropagateResistorVoltages.                  *)

\* Device d is taken from the queue being processed.
Take(d) ==
    /\ phase = "propagate"
    /\ d \in NextList(Processing)

\* The handler returns at once (inactive device, no known voltage, SKIP_QUEUE),
\* or drops the device for good (irrelevant, already shorted).
LeaveEvent(d) ==
    /\ Take(d)
    /\ at' = [at EXCEPT ![Processing][d] = NoSlot]
    /\ inactive' \in {inactive, [inactive EXCEPT ![Processing] = @ \cup {d}]}
    /\ NextCount
    /\ phase' = "test"
    /\ UNCHANGED <<loop, myProcessingMinQueue, spreading>>

\* Mutant: the same key is late enough.
RequeueSameKey(d, slot) ==
    /\ Take(d)
    /\ loop = "SetInitialMinMaxPower"
    /\ d \notin inactive[Processing]
    /\ slot[2] >= at[Processing][d][2]
    /\ at' = [at EXCEPT ![Processing][d] = slot]
    /\ NextCount
    /\ phase' = "test"
    /\ UNCHANGED <<loop, inactive, myProcessingMinQueue, spreading>>

\* The device goes back under a later key.
Requeue(d, slot) ==
    /\ Take(d)
    /\ loop = "SetInitialMinMaxPower"
    /\ d \notin inactive[Processing]
    /\ slot[2] > at[Processing][d][2]
    /\ at' = [at EXCEPT ![Processing][d] = slot]
    /\ NextCount
    /\ phase' = "test"
    /\ UNCHANGED <<loop, inactive, myProcessingMinQueue, spreading>>

\* ShortNets, or a VoltageConflict: the device becomes inactive in the queue
\* being processed and other devices are enqueued there.  A conflict may also
\* enqueue in the opposite queue (mos connected as diode).
BeginSpread(d, conflict) ==
    /\ Take(d)
    /\ d \notin inactive[Processing]
    /\ conflict => loop = "SetInitialMinMaxPower"
    /\ at' = [at EXCEPT ![Processing][d] = NoSlot]
    /\ inactive' = [inactive EXCEPT ![Processing] = @ \cup {d}]
    /\ spreading' = IF conflict THEN Queues ELSE {Processing}
    /\ phase' = "spread"
    /\ UNCHANGED <<loop, myLoopCount, myDequeueCount, myProcessingMinQueue>>

Enqueue(q, d, slot) ==
    /\ q \in spreading
    /\ d \notin inactive[q] /\ at[q][d] = NoSlot
    /\ at' = [at EXCEPT ![q][d] = slot]
    /\ UNCHANGED <<loop, inactive, myLoopCount, myDequeueCount, myProcessingMinQueue,
                   phase, spreading>>

SkipIrrelevant(q, d) ==
    /\ q \in spreading
    /\ d \notin inactive[q] /\ at[q][d] = NoSlot
    /\ inactive' = [inactive EXCEPT ![q] = @ \cup {d}]
    /\ UNCHANGED <<loop, at, myLoopCount, myDequeueCount, myProcessingMinQueue,
                   phase, spreading>>

EndSpread ==
    /\ phase = "spread"
    /\ UNCHANGED <<loop, at, inactive, myProcessingMinQueue>>
    /\ NextCount
    /\ spreading' = {}
    /\ phase' = "test"

\* What follows the loop is outside this module.
Finished == phase = "done" /\ UNCHANGED vars

Handle ==
    \E d \in Devices :
        \/ LeaveEvent(d)
        \/ \E slot \in Slots : Requeue(d, slot)
        \/ \E conflict \in BOOLEAN : BeginSpread(d, conflict)

Spread ==
    \E q \in Queues, d \in Devices :
        SkipIrrelevant(q, d) \/ \E slot \in Slots : Enqueue(q, d, slot)

Next ==
    \/ EndLoop \/ ChooseBatch \/ ContinueBatch \/ ChooseLarger
    \/ Handle \/ Spread \/ EndSpread \/ Finished

Spec == Init /\ [][Next]_vars

\* The loops run in one thread and nothing else delays them.
FairSpec == Spec /\ WF_vars(Next)

-----------------------------------------------------------------------------
(* Properties.                                                             *)

\* The types of the variables; myLoopCount and myDequeueCount, signed in the
\* code, never go below 0.
TypeOK ==
    /\ loop \in {"SetResistorVoltagesByPower", "SetInitialMinMaxPower"}
    /\ at \in [Queues -> [Devices -> Slots \cup {NoSlot}]]
    /\ inactive \in [Queues -> SUBSET Devices]
    /\ myLoopCount \in Nat /\ myDequeueCount \in Nat
    /\ myProcessingMinQueue \in BOOLEAN
    /\ phase \in {"test", "propagate", "spread", "done"}
    /\ spreading \subseteq Queues

\* When a handler is called there is an event in the queue it is called with,
\* so GetEvent never looks at begin() of an empty map, although the queue was
\* chosen before the other events of the batch were handled; and a batch is not
\* empty, assert(myDequeueCount) (CCvcDb.cc 1979).
EventAvailable ==
    phase = "propagate" =>
        /\ Waiting(Processing) # {}
        /\ loop = "SetInitialMinMaxPower" => myDequeueCount > 0

\* The loop leaves no event behind and no batch unfinished: ResetQueue, which
\* does not empty the maps, relies on it.
NothingLeft ==
    phase = "done" => /\ myDequeueCount = 0
                      /\ \A q \in Queues : Waiting(q) = {}

\* The propagation ends: an event goes back only under a later key, and new
\* events come only from a handler that has made its device inactive.
Terminates == <>(phase = "done")
=============================================================================
