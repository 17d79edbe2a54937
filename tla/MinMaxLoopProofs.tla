-------------------------- MODULE MinMaxLoopProofs --------------------------
(***************************************************************************)
(* The loops over the two event queues, for any number of devices and any  *)
(* keys: an event is never asked of an empty queue and none is left.       *)
(*                                                                         *)
(* Neither counter is the number of events that wait.  The invariant is    *)
(* that both stay behind it: myLoopCount behind the events of both queues, *)
(* which a handler can only increase, and myDequeueCount behind those of   *)
(* the queue of the batch.  So a batch does not outlive its queue, and the *)
(* loop ends, when the count has just been refreshed, with nothing left.   *)
(***************************************************************************)
EXTENDS MinMaxLoop, FiniteSetTheorems, TLAPS

Total == QueueSize("MIN") + QueueSize("MAX")

\* An event that is being handled is out of the queue but still in the counts.
CountsStayBehind ==
    /\ phase \in {"test", "propagate"} =>
        myLoopCount <= Total /\ myDequeueCount <= QueueSize(Processing)
    /\ phase = "spread" =>
        /\ myLoopCount - 1 <= Total /\ myDequeueCount - 1 <= QueueSize(Processing)
        /\ myLoopCount > 0
        /\ loop = "SetInitialMinMaxPower" => myDequeueCount > 0
    /\ phase = "propagate" => myLoopCount > 0
    /\ phase \in {"test", "done"} /\ myLoopCount = 0 => Total = 0
    /\ phase = "done" => myLoopCount = 0 /\ myDequeueCount = 0
    /\ loop = "SetResistorVoltagesByPower" => myDequeueCount = 0

\* Devices are enqueued inside a handler only.
SpreadInHandler == phase # "spread" => spreading = {}

IInv ==
    /\ TypeOK
    /\ SpreadInHandler
    /\ CountsStayBehind
    /\ EventAvailable

-----------------------------------------------------------------------------
(* The size of a queue.                                                    *)

\* A queue has a size, and it is 0 when nothing waits.
LEMMA Sizes ==
    ASSUME NEW q
    PROVE  /\ IsFiniteSet(Waiting(q))
           /\ QueueSize(q) \in Nat
           /\ QueueSize(q) = 0 <=> Waiting(q) = {}
<1>1. IsFiniteSet(Waiting(q))
  BY LoopDevicesAssumption, FS_Subset, Zenon DEF Waiting
<1> QED
  BY <1>1, FS_CardinalityType, FS_EmptySet, Zenon DEF QueueSize

\* The same after a step.
LEMMA SizesAfter ==
    ASSUME NEW q
    PROVE  QueueSize(q)' \in Nat
<1>1. IsFiniteSet(Waiting(q)')
  BY LoopDevicesAssumption, FS_Subset, Zenon DEF Waiting
<1> QED
  BY <1>1, FS_CardinalityType, Zenon DEF QueueSize

\* AddEvent puts a device that does not wait into a list: the size grows by 1.
LEMMA SizeAfterAdding ==
    ASSUME TypeOK, NEW q \in Queues, NEW d \in Devices, NEW slot \in Slots,
           at[q][d] = NoSlot, at' = [at EXCEPT ![q][d] = slot]
    PROVE  /\ QueueSize(q)' = QueueSize(q) + 1
           /\ \A o \in Queues \ {q} : QueueSize(o)' = QueueSize(o)
<1>1. slot # NoSlot
  BY DEF Slots, NoSlot
<1>2. Waiting(q)' = Waiting(q) \cup {d} /\ d \notin Waiting(q)
  BY <1>1, Zenon DEF Waiting, TypeOK
<1>3. \A o \in Queues \ {q} : Waiting(o)' = Waiting(o)
  BY Zenon DEF Waiting, TypeOK
<1> QED
  BY <1>2, <1>3, Sizes, FS_AddElement, Zenon DEF QueueSize

\* GetEvent takes a device out: the size falls by 1.
LEMMA SizeAfterTaking ==
    ASSUME TypeOK, NEW q \in Queues, NEW d \in Waiting(q),
           at' = [at EXCEPT ![q][d] = NoSlot]
    PROVE  /\ QueueSize(q)' = QueueSize(q) - 1
           /\ \A o \in Queues \ {q} : QueueSize(o)' = QueueSize(o)
<1>1. Waiting(q)' = Waiting(q) \ {d}
  BY Zenon DEF Waiting, TypeOK
<1>2. \A o \in Queues \ {q} : Waiting(o)' = Waiting(o)
  BY Zenon DEF Waiting, TypeOK
<1> QED
  BY <1>1, <1>2, Sizes, FS_RemoveElement, Zenon DEF QueueSize

\* A device that goes back under another key still waits.
LEMMA SizeAfterMoving ==
    ASSUME TypeOK, NEW q \in Queues, NEW d \in Waiting(q), NEW slot \in Slots,
           at' = [at EXCEPT ![q][d] = slot]
    PROVE  \A o \in Queues : QueueSize(o)' = QueueSize(o)
<1>1. slot # NoSlot
  BY DEF Slots, NoSlot
<1>2. \A o \in Queues : Waiting(o)' = Waiting(o)
  BY <1>1, Zenon DEF Waiting, TypeOK
<1> QED
  BY <1>2, Zenon DEF QueueSize

-----------------------------------------------------------------------------
(* The list at the front.                                                  *)

\* A map with a list has a first one: begin() can be dereferenced.
LEMMA FrontExists ==
    ASSUME NEW q, NEW part, ~Empty(q, part)
    PROVE  \E k \in Keys : Begin(q, <<part, k>>)
<1>1. PICK low \in Keys : \A k \in Keys : low <= k
  BY LoopKeysAssumption, Zenon
<1> DEFINE used == {k \in Keys : ListAt(q, <<part, k>>) # {}}
           above == {n \in Nat : low + n \in used}
<1>2. used # {} /\ used \subseteq Int /\ low \in Int
  BY LoopKeysAssumption, Zenon DEF Empty
<1>3. above # {}
  <2>1. PICK k \in used : TRUE
    BY <1>2, Zenon
  <2>2. k \in Int /\ low <= k
    BY <1>1, <1>2, <2>1, Zenon
  <2>3. k - low \in Nat /\ low + (k - low) = k
    BY <1>2, <2>2
  <2> QED
    BY <2>1, <2>3, Zenon
<1>4. \E n \in above : \A m \in above : ~ (<<m, n>> \in OpToRel(<, Nat))
  BY <1>3, NatLessThanWellFounded, WFMin, Zenon
<1>5. PICK n \in above : \A m \in above : ~ (m < n)
  BY <1>4, Zenon DEF OpToRel
<1>6. ASSUME NEW k \in used PROVE low + n <= k
  <2>1. k - low \in above
    <3>1. k \in Int /\ low <= k
      BY <1>1, <1>2, Zenon
    <3>2. k - low \in Nat /\ low + (k - low) = k
      BY <1>2, <3>1
    <3> QED
      BY <3>2, Zenon
  <2> QED
    BY <1>2, <1>5, <2>1
<1> QED
  BY <1>5, <1>6, Zenon DEF Begin

\* A queue where a device waits has a list that GetEvent takes events from, and
\* all the devices of that list wait.
LEMMA FrontList ==
    ASSUME TypeOK, NEW q \in Queues, Waiting(q) # {}
    PROVE  /\ IsFiniteSet(NextList(q))
           /\ Cardinality(NextList(q)) \in Nat \ {0}
           /\ Cardinality(NextList(q)) <= QueueSize(q)
<1>1. ~Empty(q, "main") \/ ~Empty(q, "delay")
  BY DEF Waiting, Empty, ListAt, TypeOK, Slots
<1>2. ~Empty(q, IF IsNextMainQueue(q) THEN "main" ELSE "delay")
  <2>1. CASE IsNextMainQueue(q)
    BY <2>1, Zenon DEF IsNextMainQueue
  <2>2. CASE ~IsNextMainQueue(q)
    BY <2>2, <1>1, Zenon DEF IsNextMainQueue
  <2> QED
    BY <2>1, <2>2, Zenon
<1>3. \E k \in Keys : Begin(q, <<IF IsNextMainQueue(q) THEN "main" ELSE "delay", k>>)
  BY <1>2, FrontExists, Zenon
<1>4. PICK k \in Keys : Begin(q, <<IF IsNextMainQueue(q) THEN "main" ELSE "delay", k>>)
  BY <1>3, Zenon
<1>5. PICK d \in Devices : at[q][d] = <<IF IsNextMainQueue(q) THEN "main" ELSE "delay", k>>
  BY <1>4, Zenon DEF Begin, ListAt
<1>6. d \in NextList(q)
  BY <1>4, <1>5 DEF NextList, NextSlot, Waiting, NoSlot
<1>7. NextList(q) \subseteq Waiting(q)
  BY Zenon DEF NextList
<1> QED
  BY <1>6, <1>7, Sizes, FS_Subset, FS_CardinalityType, FS_EmptySet, Zenon DEF QueueSize

\* The queue of a new batch is not empty as long as some event waits: the
\* comparisons of SetInitialMinMaxPower never prefer an empty queue.
LEMMA PreferredHasEvents ==
    ASSUME Total > 0
    PROVE  Waiting(IF PreferMin THEN "MIN" ELSE "MAX") # {}
<1>1. \A q \in Queues : IsNextMainQueue(q) => Waiting(q) # {}
  <2> SUFFICES ASSUME NEW q \in Queues, IsNextMainQueue(q)
               PROVE  Waiting(q) # {}
    BY Zenon
  <2>1. PICK k \in Keys : ListAt(q, <<"main", k>>) # {}
    BY Zenon DEF IsNextMainQueue, Empty
  <2> QED
    BY <2>1 DEF ListAt, Waiting, NoSlot
<1>2. CASE PreferMin
  <2>1. QueueSize("MIN") > QueueSize("MAX") \/ Waiting("MIN") # {}
    BY <1>1, <1>2, Zenon DEF PreferMin, Queues
  <2> QED
    BY <1>2, <2>1, Sizes
<1>3. CASE ~PreferMin
  <2>1. ~(QueueSize("MIN") > QueueSize("MAX")) \/ Waiting("MAX") # {}
    <3>1. \A q \in Queues : IsNextMainQueue(q) \in BOOLEAN
      BY Zenon DEF IsNextMainQueue
    <3>2. CASE IsNextMainQueue("MAX")
      BY <1>1, <3>2, Zenon DEF Queues
    <3>3. CASE ~IsNextMainQueue("MAX")
      BY <1>3, <3>1, <3>3, Zenon DEF PreferMin, Queues
    <3> QED
      BY <3>2, <3>3, Zenon
  <2>2. QueueSize("MAX") # 0 \/ Waiting("MAX") # {}
    BY <2>1, Sizes DEF Total
  <2> QED
    BY <1>3, <2>2, Sizes, Zenon
<1> QED
  BY <1>2, <1>3, Zenon

-----------------------------------------------------------------------------
(* The invariant.                                                          *)

\* A batch is taken from one of the two queues.
LEMMA ProcessingType == Processing \in Queues
BY Zenon DEF Processing, Queues

\* The counts before the loop are those of the queues.
LEMMA InitIInv == Init => IInv
<1> SUFFICES ASSUME Init
             PROVE  IInv
  BY Zenon
<1>1. QueueSize("MIN") \in Nat /\ QueueSize("MAX") \in Nat
  BY Sizes, Zenon
<1>2. TypeOK
  <2>1. myLoopCount \in Nat /\ myDequeueCount \in Nat
    BY <1>1 DEF Init
  <2> QED
    BY <2>1, Zenon DEF Init, TypeOK
<1>3. CountsStayBehind
  BY <1>1 DEF Init, CountsStayBehind, Total, Processing
<1> QED
  BY <1>2, <1>3, Zenon DEF IInv, EventAvailable, SpreadInHandler, Init

\* The end of the loop body keeps the counts behind, when the queues hold at
\* least what the counts stood for without the event just handled.
LEMMA CountsAfterHandler ==
    ASSUME IInv, NextCount, phase' = "test", loop' = loop,
           myProcessingMinQueue' = myProcessingMinQueue,
           myLoopCount > 0,
           loop = "SetInitialMinMaxPower" => myDequeueCount > 0,
           myLoopCount - 1 <= Total', myDequeueCount - 1 <= QueueSize(Processing)'
    PROVE  CountsStayBehind' /\ myLoopCount' \in Nat /\ myDequeueCount' \in Nat
<1>1. QueueSize("MIN")' \in Nat /\ QueueSize("MAX")' \in Nat /\ QueueSize(Processing)' \in Nat
  BY SizesAfter, Zenon
<1> QED
  BY <1>1 DEF IInv, TypeOK, CountsStayBehind, NextCount, Total

\* Every step of the loops keeps the invariant.
LEMMA StepIInv == IInv /\ [Next]_vars => IInv'
<1> SUFFICES ASSUME IInv, [Next]_vars
             PROVE  IInv'
  BY Zenon
<1> USE DEF IInv, SpreadInHandler
<1>0. \A q : QueueSize(q) \in Nat
  BY Sizes, Zenon
<1>1. CASE EndLoop
  <2>1. Total = 0
    BY <1>1, Zenon DEF EndLoop, CountsStayBehind
  <2>2. myDequeueCount = 0
    BY <1>0, <1>1, <2>1 DEF EndLoop, CountsStayBehind, Total, Processing, TypeOK
  <2>3. UNCHANGED <<Total, QueueSize(Processing), Processing>>
    BY <1>1, Zenon DEF EndLoop, Total, QueueSize, Waiting, Processing
  <2> QED
    BY <1>1, <2>1, <2>2, <2>3, Zenon DEF EndLoop, TypeOK, CountsStayBehind, EventAvailable
<1>2. CASE ChooseBatch
  <2> DEFINE q == IF PreferMin THEN "MIN" ELSE "MAX"
  <2>1. Total > 0 /\ q \in Queues
    BY <1>0, <1>2 DEF ChooseBatch, CountsStayBehind, TypeOK, Total, Queues
  <2>2. Waiting(q) # {}
    BY <2>1, PreferredHasEvents, Zenon
  <2>3. myDequeueCount' \in Nat \ {0} /\ myDequeueCount' <= QueueSize(q)
    BY <1>2, <2>1, <2>2, FrontList, Zenon DEF ChooseBatch
  <2>4. Processing' = q /\ myProcessingMinQueue' \in BOOLEAN
    BY <1>2, Zenon DEF ChooseBatch, Processing, PreferMin
  <2>5. Waiting(Processing)' = Waiting(q) /\ QueueSize(Processing)' = QueueSize(q) /\ Total' = Total
    BY <1>2, <2>4, Zenon DEF ChooseBatch, Waiting, QueueSize, Total
  <2>6. TypeOK'
    BY <1>2, <2>3, <2>4, Zenon DEF ChooseBatch, TypeOK
  <2>7. CountsStayBehind' /\ EventAvailable' /\ SpreadInHandler'
    BY <1>2, <2>2, <2>3, <2>5 DEF ChooseBatch, CountsStayBehind, EventAvailable
  <2> QED
    BY <2>6, <2>7, Zenon
<1>3. CASE ContinueBatch
  <2>1. Waiting(Processing) # {}
    BY <1>0, <1>3, Sizes DEF ContinueBatch, CountsStayBehind, TypeOK
  <2>2. UNCHANGED <<Total, QueueSize(Processing), Waiting(Processing)>>
    BY <1>3, Zenon DEF ContinueBatch, Total, QueueSize, Waiting, Processing
  <2> QED
    BY <1>3, <2>1, <2>2 DEF ContinueBatch, TypeOK, CountsStayBehind, EventAvailable
<1>4. CASE ChooseLarger
  <2> DEFINE q == IF QueueSize("MIN") > QueueSize("MAX") THEN "MIN" ELSE "MAX"
  <2>1. Total > 0
    BY <1>0, <1>4 DEF ChooseLarger, CountsStayBehind, TypeOK, Total
  <2>2. QueueSize(q) > 0
    BY <1>0, <2>1 DEF Total
  <2>3. Processing' = q /\ myProcessingMinQueue' \in BOOLEAN
    <3>1. myProcessingMinQueue' = (QueueSize("MIN") > QueueSize("MAX"))
      BY <1>4, Zenon DEF ChooseLarger
    <3>2. myProcessingMinQueue' \in BOOLEAN
      BY <1>0, <3>1
    <3>3. Processing' = q
      BY <3>1, Zenon DEF Processing
    <3> QED
      BY <3>2, <3>3, Zenon
  <2>4. Waiting(Processing)' = Waiting(q) /\ QueueSize(Processing)' = QueueSize(q) /\ Total' = Total
    BY <1>4, <2>3, Zenon DEF ChooseLarger, Waiting, QueueSize, Total
  <2>5. Waiting(q) # {} /\ QueueSize(q) \in Nat
    BY <2>2, Sizes
  <2>6. TypeOK'
    BY <1>4, <2>3, Zenon DEF ChooseLarger, TypeOK
  <2>7. CountsStayBehind' /\ EventAvailable' /\ SpreadInHandler'
    BY <1>4, <2>4, <2>5 DEF ChooseLarger, CountsStayBehind, EventAvailable
  <2> QED
    BY <2>6, <2>7, Zenon
<1>5. ASSUME NEW d \in Devices, LeaveEvent(d)
      PROVE  IInv'
  <2>1. d \in Waiting(Processing) /\ Processing \in Queues
    BY <1>5, ProcessingType, Zenon DEF LeaveEvent, Take, NextList
  <2>2. PICK q \in Queues : q = Processing /\ q = Processing'
    BY <1>5, <2>1, Zenon DEF LeaveEvent, Processing
  <2>3. /\ QueueSize(q)' = QueueSize(q) - 1
        /\ \A o \in Queues \ {q} : QueueSize(o)' = QueueSize(o)
    BY <1>5, <2>1, <2>2, SizeAfterTaking, Zenon DEF LeaveEvent
  <2>4. Total' = Total - 1
    BY <1>0, <2>3 DEF Total, Queues
  <2>5. QueueSize(Processing)' = QueueSize(Processing) - 1
    BY <2>2, <2>3, Zenon DEF QueueSize, Waiting
  <2>6. CountsStayBehind' /\ myLoopCount' \in Nat /\ myDequeueCount' \in Nat
    BY <1>0, <1>5, <2>4, <2>5, CountsAfterHandler
       DEF LeaveEvent, Take, CountsStayBehind, EventAvailable, TypeOK, Total
  <2>7. at' \in [Queues -> [Devices -> Slots \cup {NoSlot}]] /\ inactive' \in [Queues -> SUBSET Devices]
    BY <1>5, <2>1 DEF LeaveEvent, TypeOK
  <2> QED
    BY <1>5, <2>6, <2>7, Zenon DEF LeaveEvent, Take, TypeOK, EventAvailable
<1>6. ASSUME NEW d \in Devices, NEW slot \in Slots, Requeue(d, slot)
      PROVE  IInv'
  <2>1. d \in Waiting(Processing) /\ Processing \in Queues
    BY <1>6, ProcessingType, Zenon DEF Requeue, Take, NextList
  <2>2. Processing' = Processing /\ \A o \in Queues : QueueSize(o)' = QueueSize(o)
    BY <1>6, <2>1, SizeAfterMoving, Zenon DEF Requeue, Processing
  <2>3. Total' = Total /\ QueueSize(Processing)' = QueueSize(Processing)
    BY <2>1, <2>2, Zenon DEF Total, Queues
  <2>4. CountsStayBehind' /\ myLoopCount' \in Nat /\ myDequeueCount' \in Nat
    BY <1>0, <1>6, <2>3, CountsAfterHandler
       DEF Requeue, Take, CountsStayBehind, EventAvailable, TypeOK, Total
  <2>5. at' \in [Queues -> [Devices -> Slots \cup {NoSlot}]]
    BY <1>6, <2>1, Zenon DEF Requeue, TypeOK
  <2> QED
    BY <1>6, <2>4, <2>5, Zenon DEF Requeue, Take, TypeOK, EventAvailable
<1>7. ASSUME NEW d \in Devices, NEW conflict \in BOOLEAN, BeginSpread(d, conflict)
      PROVE  IInv'
  <2>1. d \in Waiting(Processing) /\ Processing \in Queues
    BY <1>7, ProcessingType, Zenon DEF BeginSpread, Take, NextList
  <2>2. PICK q \in Queues : q = Processing /\ q = Processing'
    BY <1>7, <2>1, Zenon DEF BeginSpread, Processing
  <2>3. /\ QueueSize(q)' = QueueSize(q) - 1
        /\ \A o \in Queues \ {q} : QueueSize(o)' = QueueSize(o)
    BY <1>7, <2>1, <2>2, SizeAfterTaking, Zenon DEF BeginSpread
  <2>4. Total' = Total - 1
    BY <1>0, <2>3 DEF Total, Queues
  <2>5. QueueSize(Processing)' = QueueSize(Processing) - 1
    BY <2>2, <2>3, Zenon DEF QueueSize, Waiting
  <2>6. CountsStayBehind'
    BY <1>0, <1>7, <2>4, <2>5
       DEF BeginSpread, Take, CountsStayBehind, EventAvailable, TypeOK, Total
  <2>7. at' \in [Queues -> [Devices -> Slots \cup {NoSlot}]] /\ inactive' \in [Queues -> SUBSET Devices]
    BY <1>7, <2>1, Zenon DEF BeginSpread, TypeOK
  <2> QED
    BY <1>7, <2>1, <2>6, <2>7, Zenon DEF BeginSpread, TypeOK, EventAvailable
<1>8. ASSUME NEW q \in Queues, NEW d \in Devices, SkipIrrelevant(q, d)
      PROVE  IInv'
  <2>1. UNCHANGED <<Total, QueueSize(Processing), Waiting(Processing)>>
    BY <1>8, Zenon DEF SkipIrrelevant, Total, QueueSize, Waiting, Processing
  <2> QED
    BY <1>8, <2>1, Zenon DEF SkipIrrelevant, TypeOK, CountsStayBehind, EventAvailable
<1>9. ASSUME NEW q \in Queues, NEW d \in Devices, NEW slot \in Slots, Enqueue(q, d, slot)
      PROVE  IInv'
  <2>1. /\ QueueSize(q)' = QueueSize(q) + 1
        /\ \A o \in Queues \ {q} : QueueSize(o)' = QueueSize(o)
    BY <1>9, SizeAfterAdding, Zenon DEF Enqueue
  <2>2. Total' >= Total /\ QueueSize(Processing)' >= QueueSize(Processing)
    <3>1. Processing' = Processing
      BY <1>9, Zenon DEF Enqueue, Processing
    <3> QED
      BY <1>0, <2>1, <3>1, ProcessingType DEF Total, Queues
  <2>3. phase = "spread" /\ phase' = "spread"
    BY <1>9, Zenon DEF Enqueue, TypeOK
  <2>4. at' \in [Queues -> [Devices -> Slots \cup {NoSlot}]]
    BY <1>9, Zenon DEF Enqueue, TypeOK
  <2> QED
    BY <1>0, <1>9, <2>2, <2>3, <2>4, SizesAfter, SMTT(30) DEF Enqueue, TypeOK, CountsStayBehind, EventAvailable, Total
<1>10. CASE EndSpread
  <2>1. /\ Processing' = Processing /\ QueueSize(Processing)' = QueueSize(Processing)
        /\ Total' = Total
    BY <1>10, Zenon DEF EndSpread, Total, QueueSize, Waiting, Processing
  <2>2. CountsStayBehind' /\ myLoopCount' \in Nat /\ myDequeueCount' \in Nat
    BY <1>0, <1>10, <2>1, CountsAfterHandler, Zenon
       DEF EndSpread, CountsStayBehind, TypeOK, Total
  <2> QED
    BY <1>10, <2>2, Zenon DEF EndSpread, TypeOK, EventAvailable
<1>11. CASE UNCHANGED vars
  <2>1. UNCHANGED <<Total, QueueSize(Processing), Waiting(Processing)>>
    BY <1>11, Zenon DEF vars, Total, QueueSize, Waiting, Processing
  <2> QED
    BY <1>11, <2>1, Zenon DEF vars, TypeOK, CountsStayBehind, EventAvailable
<1> QED
  BY <1>1, <1>2, <1>3, <1>4, <1>5, <1>6, <1>7, <1>8, <1>9, <1>10, <1>11, Zenon
     DEF Next, Handle, Spread, Finished

\* The invariant holds from the start.
LEMMA InvariantHolds == Spec => []IInv
BY InitIInv, StepIInv, PTL DEF Spec

-----------------------------------------------------------------------------
(* The results.                                                            *)

\* No handler of the two loops is called with an empty queue and no batch of
\* SetInitialMinMaxPower is empty, whatever the events of a batch do to the
\* queues after it was chosen.
THEOREM EventsAreAvailable == Spec => []EventAvailable
<1>1. IInv => EventAvailable
  BY Zenon DEF IInv
<1> QED
  BY <1>1, InvariantHolds, PTL

\* When a loop ends both queues are empty and no batch is unfinished: the next
\* ResetQueue loses no event.
THEOREM NoEventIsLeft == Spec => []NothingLeft
<1>1. IInv => NothingLeft
  <2> SUFFICES ASSUME IInv, phase = "done"
               PROVE  myDequeueCount = 0 /\ \A q \in Queues : Waiting(q) = {}
    BY Zenon DEF NothingLeft
  <2>1. myDequeueCount = 0 /\ Total = 0
    BY Zenon DEF IInv, CountsStayBehind
  <2>2. QueueSize("MIN") = 0 /\ QueueSize("MAX") = 0
    BY <2>1, Sizes DEF Total
  <2> QED
    BY <2>1, <2>2, Sizes, Zenon DEF Queues
<1> QED
  BY <1>1, InvariantHolds, PTL

=============================================================================
