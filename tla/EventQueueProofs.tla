-------------------------- MODULE EventQueueProofs --------------------------
(***************************************************************************)
(* The safety of the event queues, for any number of devices, any keys and *)
(* any number of events.                                                   *)
(*                                                                         *)
(* Nothing in the program records which list a device is in, nor where.    *)
(* The inductive invariant says that such a record could be kept: each     *)
(* device in a list can be given an owner, the slot of its list, and a     *)
(* rank that increases by one along the links.  No two devices of a list   *)
(* have the same rank, so a list has no cycle, no two lists share a        *)
(* device, and removing the first device leaves no link to it.             *)
(***************************************************************************)
EXTENDS EventQueue, FiniteSetTheorems, NaturalsInduction, WellFoundedInduction, SequenceTheorems,
        TLAPS

Chained(owner, rank) ==
    /\ \A s \in DOMAIN lists :
        /\ lists[s].first \in Queued /\ owner[lists[s].first] = s
        /\ lists[s].second \in Queued /\ owner[lists[s].second] = s
        /\ lists[s].eventListSize = rank[lists[s].second] - rank[lists[s].first] + 1
    /\ \A d \in Queued :
        /\ owner[d] \in DOMAIN lists
        /\ rank[lists[owner[d]].first] <= rank[d]
        /\ rank[d] <= rank[lists[owner[d]].second]
        /\ queueArray[d] \in Queued
        /\ owner[queueArray[d]] = owner[d]
        /\ IF queueArray[d] = d THEN d = lists[owner[d]].second
                                ELSE rank[queueArray[d]] = rank[d] + 1
    /\ \A d, e \in Queued : owner[d] = owner[e] /\ rank[d] = rank[e] => d = e

Chains == \E owner \in [Devices -> Slots], rank \in [Devices -> Int] : Chained(owner, rank)

\* A device being handled has left the lists.
CurrentIsOut ==
    phase \in {"handle", "spread", "conflict"} => current \in Devices
HandledIsOut == phase = "handle" => current \notin Queued

IInv ==
    /\ TypeOK
    /\ NoQueueError
    /\ Chains
    /\ PendingIsQueued
    /\ SizeAgrees
    /\ EmptyWhenIdle
    /\ CurrentIsOut
    /\ HandledIsOut

-----------------------------------------------------------------------------
(* The linked lists.                                                       *)

\* A list that ListAt finds has both ends known, or neither (CEventList's
\* constructor).
LEMMA EndsTogether ==
    ASSUME TypeOK, Chains, NEW slot
    PROVE  /\ ListAt(slot) \in EventList
           /\ (ListAt(slot).first = UNKNOWN_DEVICE) = (ListAt(slot).second = UNKNOWN_DEVICE)
           /\ slot \notin DOMAIN lists => ListAt(slot) = NewList
           /\ slot \in DOMAIN lists => ListAt(slot).first # UNKNOWN_DEVICE
<1>1. CASE slot \in DOMAIN lists
  <2>1. PICK owner \in [Devices -> Slots], rank \in [Devices -> Int] : Chained(owner, rank)
    BY Zenon DEF Chains
  <2>2. lists[slot].first \in Devices /\ lists[slot].second \in Devices
    BY <1>1, <2>1, Zenon DEF Chained, Queued
  <2> QED
    BY <1>1, <2>2, DevicesAssumption, Zenon DEF ListAt, TypeOK
<1>2. CASE slot \notin DOMAIN lists
  BY <1>2, Zenon DEF ListAt, NewList, EventList, Links
<1> QED
  BY <1>1, <1>2, Zenon

\* push_front keeps the lists chained: the new device ranks just before the
\* one that was first.
LEMMA PushFrontChains ==
    ASSUME TypeOK, Chains, NEW slot \in Slots, NEW d \in Devices,
           queueArray[d] = UNKNOWN_DEVICE,
           lists' = Assign(slot, PushFrontList(ListAt(slot), d)),
           queueArray' = PushFrontArray(ListAt(slot), d)
    PROVE  Chains' /\ Queued' = Queued \cup {d}
<1> DEFINE l == ListAt(slot)
<1>1. PICK owner \in [Devices -> Slots], rank \in [Devices -> Int] : Chained(owner, rank)
  BY Zenon DEF Chains
<1>2. /\ queueArray \in [Devices -> Links]
      /\ d \notin Queued
      /\ lists \in [DOMAIN lists -> EventList]
  BY Zenon DEF TypeOK, Queued
<1>3. l.first = UNKNOWN_DEVICE <=> slot \notin DOMAIN lists
  BY EndsTogether DEF NewList
<1>4. slot \in DOMAIN lists => /\ l = lists[slot]
                               /\ l.first \in Queued /\ owner[l.first] = slot
                               /\ l.second \in Queued /\ owner[l.second] = slot
  BY <1>1, Zenon DEF Chained, ListAt
<1>5. queueArray' = [queueArray EXCEPT ![d] = IF slot \in DOMAIN lists THEN l.first ELSE d]
  BY <1>3, Zenon DEF PushFrontArray
<1>6. /\ DOMAIN lists' = DOMAIN lists \cup {slot}
      /\ \A s \in DOMAIN lists : s # slot => lists'[s] = lists[s]
      /\ lists'[slot].first = d
      /\ lists'[slot].second = IF slot \in DOMAIN lists THEN l.second ELSE d
      /\ lists'[slot].eventListSize = l.eventListSize + 1
  BY <1>3, Zenon DEF Assign, PushFrontList
<1>7. Queued' = Queued \cup {d}
  BY <1>2, <1>4, <1>5, DevicesAssumption DEF Queued
<1>8. PICK owner2 \in [Devices -> Slots], rank2 \in [Devices -> Int] :
        /\ owner2 = [owner EXCEPT ![d] = slot]
        /\ rank2 = [rank EXCEPT ![d] = IF slot \in DOMAIN lists THEN rank[l.first] - 1 ELSE 0]
  <2>1. /\ [owner EXCEPT ![d] = slot] \in [Devices -> Slots]
        /\ [rank EXCEPT ![d] = IF slot \in DOMAIN lists THEN rank[l.first] - 1 ELSE 0]
              \in [Devices -> Int]
    BY <1>4 DEF Queued
  <2> QED
    BY <2>1, Zenon
<1>9. /\ \A e \in Queued : owner2[e] = owner[e] /\ rank2[e] = rank[e]
      /\ owner2[d] = slot
      /\ rank2[d] = IF slot \in DOMAIN lists THEN rank[l.first] - 1 ELSE 0
  BY <1>2, <1>8, Zenon DEF Queued
<1> HIDE DEF l
<1>10. ASSUME NEW s \in DOMAIN lists'
       PROVE  /\ lists'[s].first \in Queued' /\ owner2[lists'[s].first] = s
              /\ lists'[s].second \in Queued' /\ owner2[lists'[s].second] = s
              /\ lists'[s].eventListSize = rank2[lists'[s].second] - rank2[lists'[s].first] + 1
  <2>1. CASE s # slot
    BY <2>1, <1>1, <1>6, <1>7, <1>9, <1>10 DEF Chained
  <2>2. CASE s = slot /\ slot \in DOMAIN lists
    <3>1. l.eventListSize = rank[l.second] - rank[l.first] + 1
      BY <1>1, <1>4, <2>2 DEF Chained
    <3> QED
      BY <2>2, <3>1, <1>4, <1>6, <1>7, <1>9, <1>8, <1>1 DEF Queued
  <2>3. CASE s = slot /\ slot \notin DOMAIN lists
    <3>1. l.eventListSize = 0
      BY <2>3, EndsTogether, SMTT(30) DEF NewList, l
    <3> QED
      BY <2>3, <3>1, <1>6, <1>7, <1>9
  <2> QED
    BY <2>1, <2>2, <2>3, Zenon
<1>11. ASSUME NEW e \in Queued'
       PROVE  /\ owner2[e] \in DOMAIN lists'
              /\ rank2[lists'[owner2[e]].first] <= rank2[e]
              /\ rank2[e] <= rank2[lists'[owner2[e]].second]
              /\ queueArray'[e] \in Queued'
              /\ owner2[queueArray'[e]] = owner2[e]
              /\ IF queueArray'[e] = e THEN e = lists'[owner2[e]].second
                                      ELSE rank2[queueArray'[e]] = rank2[e] + 1
  <2>1. CASE e = d
    <3>1. CASE slot \in DOMAIN lists
      <4>1. rank[l.first] <= rank[l.second] /\ rank[l.first] \in Int /\ rank[l.second] \in Int
        BY <3>1, <1>1, <1>4, Zenon DEF Chained, Queued
      <4>2. queueArray'[d] = l.first /\ l.first # d
        BY <3>1, <1>2, <1>4, <1>5, Zenon
      <4> QED
        BY <2>1, <3>1, <4>1, <4>2, <1>4, <1>6, <1>7, <1>9
    <3>2. CASE slot \notin DOMAIN lists
      BY <2>1, <3>2, <1>2, <1>5, <1>6, <1>7, <1>9, SMTT(30)
    <3> QED
      BY <3>1, <3>2, Zenon
  <2>2. CASE e # d
    <3>1. e \in Queued /\ e \in Devices
      BY <2>2, <1>7, <1>11, Zenon DEF Queued
    <3>2. /\ owner[e] \in DOMAIN lists
          /\ rank[lists[owner[e]].first] <= rank[e]
          /\ rank[e] <= rank[lists[owner[e]].second]
          /\ queueArray[e] \in Queued
          /\ owner[queueArray[e]] = owner[e]
          /\ IF queueArray[e] = e THEN e = lists[owner[e]].second
                                  ELSE rank[queueArray[e]] = rank[e] + 1
          /\ lists[owner[e]].first \in Queued
          /\ lists[owner[e]].second \in Queued
      BY <3>1, <1>1, Zenon DEF Chained
    <3>3. queueArray'[e] = queueArray[e]
      BY <2>2, <1>2, <1>5, <3>1, Zenon
    <3>4. CASE owner[e] # slot
      BY <3>1, <3>2, <3>3, <3>4, <1>6, <1>7, <1>9, SMTT(30)
    <3>5. CASE owner[e] = slot
      <4>1. rank[l.first] \in Int /\ rank[e] \in Int
        BY <3>1, <3>2, <3>5, <1>1, <1>4, Zenon DEF Queued
      <4> QED
        BY <4>1, <3>1, <3>2, <3>3, <3>5, <1>4, <1>6, <1>7, <1>9, SMTT(30)
    <3> QED
      BY <3>4, <3>5, Zenon
  <2> QED
    BY <2>1, <2>2, Zenon
<1>12. ASSUME NEW e \in Queued', NEW f \in Queued', owner2[e] = owner2[f], rank2[e] = rank2[f]
       PROVE  e = f
  <2>1. ASSUME NEW g \in Queued, owner[g] = slot
        PROVE  slot \in DOMAIN lists /\ rank2[d] < rank[g]
    <3>1. slot \in DOMAIN lists /\ rank[l.first] <= rank[g]
      BY <2>1, <1>1, <1>4, Zenon DEF Chained
    <3>2. rank[l.first] \in Int /\ rank[g] \in Int
      BY <3>1, <2>1, <1>1, <1>4, Zenon DEF Queued
    <3> QED
      BY <3>1, <3>2, <1>9
  <2>2. \A g \in Queued : rank[g] \in Int
    BY <1>1, Zenon DEF Queued
  <2>3. CASE e \in Queued /\ f \in Queued
    BY <2>3, <1>1, <1>9, <1>12 DEF Chained
  <2>4. CASE e = d /\ f \in Queued
    BY <2>1, <2>2, <2>4, <1>8, <1>9, <1>12
  <2>5. CASE e \in Queued /\ f = d
    BY <2>1, <2>2, <2>5, <1>8, <1>9, <1>12, SMTT(30)
  <2> QED
    BY <2>3, <2>4, <2>5, <1>7, <1>12, Zenon
<1>13. Chained(owner2, rank2)'
  BY <1>10, <1>11, <1>12 DEF Chained
<1> QED
  BY <1>7, <1>8, <1>13, Zenon DEF Chains

\* push_back keeps the lists chained: the new device ranks just after the one
\* that was last, whose link now leads to it.
LEMMA PushBackChains ==
    ASSUME TypeOK, Chains, NEW slot \in Slots, NEW d \in Devices,
           queueArray[d] = UNKNOWN_DEVICE,
           lists' = Assign(slot, PushBackList(ListAt(slot), d)),
           queueArray' = PushBackArray(ListAt(slot), d)
    PROVE  Chains' /\ Queued' = Queued \cup {d}
<1> DEFINE l == ListAt(slot)
<1>1. PICK owner \in [Devices -> Slots], rank \in [Devices -> Int] : Chained(owner, rank)
  BY Zenon DEF Chains
<1>2. /\ queueArray \in [Devices -> Links]
      /\ d \notin Queued
      /\ lists \in [DOMAIN lists -> EventList]
  BY Zenon DEF TypeOK, Queued
<1>3. l.first = UNKNOWN_DEVICE <=> slot \notin DOMAIN lists
  BY EndsTogether DEF NewList
<1>4. slot \in DOMAIN lists => /\ l = lists[slot]
                               /\ l.first \in Queued /\ owner[l.first] = slot
                               /\ l.second \in Queued /\ owner[l.second] = slot
  BY <1>1, Zenon DEF Chained, ListAt
<1>5. queueArray' = [e \in Devices |->
        IF e = d \/ (slot \in DOMAIN lists /\ e = l.second) THEN d ELSE queueArray[e]]
  BY <1>3, Zenon DEF PushBackArray
<1>6. /\ DOMAIN lists' = DOMAIN lists \cup {slot}
      /\ \A s \in DOMAIN lists : s # slot => lists'[s] = lists[s]
      /\ lists'[slot].first = IF slot \in DOMAIN lists THEN l.first ELSE d
      /\ lists'[slot].second = d
      /\ lists'[slot].eventListSize = l.eventListSize + 1
  BY <1>3, Zenon DEF Assign, PushBackList
<1>7. Queued' = Queued \cup {d}
  BY <1>2, <1>4, <1>5, DevicesAssumption DEF Queued
<1>8. PICK owner2 \in [Devices -> Slots], rank2 \in [Devices -> Int] :
        /\ owner2 = [owner EXCEPT ![d] = slot]
        /\ rank2 = [rank EXCEPT ![d] = IF slot \in DOMAIN lists THEN rank[l.second] + 1 ELSE 0]
  <2>1. /\ [owner EXCEPT ![d] = slot] \in [Devices -> Slots]
        /\ [rank EXCEPT ![d] = IF slot \in DOMAIN lists THEN rank[l.second] + 1 ELSE 0]
              \in [Devices -> Int]
    BY <1>4 DEF Queued
  <2> QED
    BY <2>1, Zenon
<1>9. /\ \A e \in Queued : owner2[e] = owner[e] /\ rank2[e] = rank[e]
      /\ owner2[d] = slot
      /\ rank2[d] = IF slot \in DOMAIN lists THEN rank[l.second] + 1 ELSE 0
  BY <1>2, <1>8, Zenon DEF Queued
<1> HIDE DEF l
<1>10. ASSUME NEW s \in DOMAIN lists'
       PROVE  /\ lists'[s].first \in Queued' /\ owner2[lists'[s].first] = s
              /\ lists'[s].second \in Queued' /\ owner2[lists'[s].second] = s
              /\ lists'[s].eventListSize = rank2[lists'[s].second] - rank2[lists'[s].first] + 1
  <2>1. CASE s # slot
    BY <2>1, <1>1, <1>6, <1>7, <1>9, <1>10, SMTT(30) DEF Chained
  <2>2. CASE s = slot /\ slot \in DOMAIN lists
    <3>1. l.eventListSize = rank[l.second] - rank[l.first] + 1
      BY <1>1, <1>4, <2>2, Zenon DEF Chained
    <3> QED
      BY <2>2, <3>1, <1>4, <1>6, <1>7, <1>9, <1>8, <1>1 DEF Queued
  <2>3. CASE s = slot /\ slot \notin DOMAIN lists
    <3>1. l.eventListSize = 0
      BY <2>3, EndsTogether DEF NewList, l
    <3> QED
      BY <2>3, <3>1, <1>6, <1>7, <1>9, SMTT(30)
  <2> QED
    BY <2>1, <2>2, <2>3, Zenon
<1>11. ASSUME NEW e \in Queued'
       PROVE  /\ owner2[e] \in DOMAIN lists'
              /\ rank2[lists'[owner2[e]].first] <= rank2[e]
              /\ rank2[e] <= rank2[lists'[owner2[e]].second]
              /\ queueArray'[e] \in Queued'
              /\ owner2[queueArray'[e]] = owner2[e]
              /\ IF queueArray'[e] = e THEN e = lists'[owner2[e]].second
                                      ELSE rank2[queueArray'[e]] = rank2[e] + 1
  <2>1. CASE e = d
    <3>1. CASE slot \in DOMAIN lists
      <4>1. rank[l.first] <= rank[l.second] /\ rank[l.first] \in Int /\ rank[l.second] \in Int
        BY <3>1, <1>1, <1>4, Zenon DEF Chained, Queued
      <4>2. queueArray'[d] = d /\ l.first # d
        BY <3>1, <1>2, <1>4, <1>5, Zenon
      <4> QED
        BY <2>1, <3>1, <4>1, <4>2, <1>4, <1>6, <1>7, <1>9
    <3>2. CASE slot \notin DOMAIN lists
      BY <2>1, <3>2, <1>2, <1>5, <1>6, <1>7, <1>9, SMTT(30)
    <3> QED
      BY <3>1, <3>2, Zenon
  <2>2. CASE e # d
    <3>1. e \in Queued /\ e \in Devices
      BY <2>2, <1>7, <1>11, Zenon DEF Queued
    <3>2. /\ owner[e] \in DOMAIN lists
          /\ rank[lists[owner[e]].first] <= rank[e]
          /\ rank[e] <= rank[lists[owner[e]].second]
          /\ queueArray[e] \in Queued
          /\ owner[queueArray[e]] = owner[e]
          /\ IF queueArray[e] = e THEN e = lists[owner[e]].second
                                  ELSE rank[queueArray[e]] = rank[e] + 1
          /\ lists[owner[e]].first \in Queued
          /\ lists[owner[e]].second \in Queued
      BY <3>1, <1>1, Zenon DEF Chained
    <3>3. CASE e = l.second /\ slot \in DOMAIN lists
      <4>1. queueArray'[e] = d /\ owner[e] = slot
        BY <3>1, <3>3, <1>4, <1>5, Zenon
      <4>2. rank[l.first] <= rank[e] /\ rank[l.first] \in Int /\ rank[e] \in Int
        BY <3>1, <3>2, <3>3, <1>1, <1>4, Zenon DEF Queued
      <4> QED
        <5>1. owner2[e] = slot /\ rank2[e] = rank[e]
          BY <3>1, <4>1, <1>9, Zenon
        <5>2. /\ slot \in DOMAIN lists'
              /\ lists'[slot].first = l.first /\ lists'[slot].second = d
          BY <3>3, <1>6, Zenon
        <5>3. rank2[l.first] = rank[l.first] /\ rank2[d] = rank[e] + 1 /\ owner2[d] = slot
          BY <3>3, <1>4, <1>9, Zenon
        <5> QED
          BY <2>2, <4>1, <4>2, <5>1, <5>2, <5>3, <1>7
    <3>4. CASE ~(e = l.second /\ slot \in DOMAIN lists) /\ owner[e] # slot
      <4>1. queueArray'[e] = queueArray[e]
        BY <2>2, <1>5, <3>1, <3>4, Zenon
      <4> QED
        BY <4>1, <3>1, <3>2, <3>4, <1>6, <1>7, <1>9
    <3>5. CASE ~(e = l.second /\ slot \in DOMAIN lists) /\ owner[e] = slot
      <4>1. queueArray'[e] = queueArray[e]
        BY <2>2, <1>5, <3>1, <3>5, Zenon
      <4>2. rank[l.second] \in Int /\ rank[e] \in Int
        BY <3>1, <3>2, <3>5, <1>1, <1>4, Zenon DEF Queued
      <4>3. queueArray[e] # e
        BY <3>2, <3>5, <1>4, Zenon
      <4> QED
        BY <4>1, <4>2, <4>3, <3>1, <3>2, <3>5, <1>4, <1>6, <1>7, <1>9
    <3> QED
      BY <3>3, <3>4, <3>5, Zenon
  <2> QED
    BY <2>1, <2>2, Zenon
<1>12. ASSUME NEW e \in Queued', NEW f \in Queued', owner2[e] = owner2[f], rank2[e] = rank2[f]
       PROVE  e = f
  <2>1. ASSUME NEW g \in Queued, owner[g] = slot
        PROVE  slot \in DOMAIN lists /\ rank2[d] > rank[g]
    <3>1. slot \in DOMAIN lists /\ rank[g] <= rank[l.second]
      BY <2>1, <1>1, <1>4, Zenon DEF Chained
    <3>2. rank[l.second] \in Int /\ rank[g] \in Int
      BY <3>1, <2>1, <1>1, <1>4, Zenon DEF Queued
    <3> QED
      BY <3>1, <3>2, <1>9
  <2>2. \A g \in Queued : rank[g] \in Int
    BY <1>1, Zenon DEF Queued
  <2>3. CASE e \in Queued /\ f \in Queued
    BY <2>3, <1>1, <1>9, <1>12 DEF Chained
  <2>4. CASE e = d /\ f \in Queued
    BY <2>1, <2>2, <2>4, <1>8, <1>9, <1>12
  <2>5. CASE e \in Queued /\ f = d
    BY <2>1, <2>2, <2>5, <1>8, <1>9, <1>12
  <2> QED
    BY <2>3, <2>4, <2>5, <1>7, <1>12, Zenon
<1>13. Chained(owner2, rank2)'
  BY <1>10, <1>11, <1>12, Zenon DEF Chained
<1> QED
  BY <1>7, <1>8, <1>13, Zenon DEF Chains

\* pop_front, with the erase of an empty list in GetMainEvent and
\* GetDelayEvent, keeps the lists chained: ranks do not change.
LEMMA PopFrontChains ==
    ASSUME TypeOK, Chains, NEW slot \in DOMAIN lists, NEW d,
           d = lists[slot].first,
           queueArray' = [queueArray EXCEPT ![d] = UNKNOWN_DEVICE],
           lists' = IF PopFrontList(lists[slot]).first = UNKNOWN_DEVICE
                      THEN Erase(slot) ELSE Assign(slot, PopFrontList(lists[slot]))
    PROVE  /\ Chains'
           /\ d \in Queued
           /\ Queued' = Queued \ {d}
<1> DEFINE l == lists[slot]
<1>1. PICK owner \in [Devices -> Slots], rank \in [Devices -> Int] : Chained(owner, rank)
  BY Zenon DEF Chains
<1>2. queueArray \in [Devices -> Links] /\ lists \in [DOMAIN lists -> EventList]
  BY Zenon DEF TypeOK
<1>3. /\ d \in Queued /\ d \in Devices /\ owner[d] = slot
      /\ l.second \in Queued /\ owner[l.second] = slot
      /\ l.eventListSize = rank[l.second] - rank[d] + 1
      /\ queueArray[d] \in Queued /\ queueArray[d] \in Devices
  BY <1>1, Zenon DEF Chained, Queued
<1>4. Queued' = Queued \ {d}
  BY <1>2, <1>3, Zenon DEF Queued
<1>5. \A e \in Queued' : queueArray'[e] = queueArray[e]
  BY <1>2, <1>3, <1>4, Zenon DEF Queued
<1>6. \A e \in Queued : rank[e] \in Int
  BY <1>1, Zenon DEF Queued
<1>7. ASSUME NEW e \in Queued', queueArray[e] = d
      PROVE  FALSE
  BY <1>1, <1>3, <1>4, <1>6, <1>7 DEF Chained
<1>8. CASE queueArray[d] = d
  <2>1. DOMAIN lists' = DOMAIN lists \ {slot} /\ \A s \in DOMAIN lists' : lists'[s] = lists[s]
    BY <1>8, Zenon DEF PopFrontList, NewList, Erase
  <2>2. ASSUME NEW e \in Queued'
        PROVE  owner[e] # slot
    <3>1. SUFFICES ASSUME owner[e] = slot
                   PROVE  FALSE
      BY Zenon
    <3>2. l.second = d
      BY <1>1, <1>3, <1>8 DEF Chained
    <3>3. rank[d] <= rank[e] /\ rank[e] <= rank[d]
      BY <3>1, <3>2, <1>1, <1>4, Zenon DEF Chained
    <3>4. e \in Queued /\ e # d
      BY <1>4, Zenon
    <3>5. rank[e] = rank[d]
      BY <3>3, <3>4, <1>3, <1>6
    <3>6. \A x, y \in Queued : owner[x] = owner[y] /\ rank[x] = rank[y] => x = y
      BY <1>1, Zenon DEF Chained
    <3> QED
      BY <3>1, <3>4, <3>5, <3>6, <1>3, Zenon
  <2>3. ASSUME NEW s \in DOMAIN lists'
        PROVE  /\ lists'[s].first \in Queued' /\ owner[lists'[s].first] = s
               /\ lists'[s].second \in Queued' /\ owner[lists'[s].second] = s
               /\ lists'[s].eventListSize = rank[lists'[s].second] - rank[lists'[s].first] + 1
    <3>1. s \in DOMAIN lists /\ s # slot /\ lists'[s] = lists[s]
      BY <2>1, <2>3, Zenon
    <3>2. /\ lists[s].first \in Queued /\ owner[lists[s].first] = s
          /\ lists[s].second \in Queued /\ owner[lists[s].second] = s
          /\ lists[s].eventListSize = rank[lists[s].second] - rank[lists[s].first] + 1
      BY <3>1, <1>1, Zenon DEF Chained
    <3>3. lists[s].first # d /\ lists[s].second # d
      BY <3>1, <3>2, <1>3, Zenon
    <3> QED
      BY <3>1, <3>2, <3>3, <1>4, Zenon
  <2>4. ASSUME NEW e \in Queued'
        PROVE  /\ owner[e] \in DOMAIN lists'
               /\ rank[lists'[owner[e]].first] <= rank[e]
               /\ rank[e] <= rank[lists'[owner[e]].second]
               /\ queueArray'[e] \in Queued'
               /\ owner[queueArray'[e]] = owner[e]
               /\ IF queueArray'[e] = e THEN e = lists'[owner[e]].second
                                       ELSE rank[queueArray'[e]] = rank[e] + 1
    <3>1. /\ e \in Queued
          /\ owner[e] \in DOMAIN lists
          /\ rank[lists[owner[e]].first] <= rank[e]
          /\ rank[e] <= rank[lists[owner[e]].second]
          /\ queueArray[e] \in Queued
          /\ owner[queueArray[e]] = owner[e]
          /\ IF queueArray[e] = e THEN e = lists[owner[e]].second
                                  ELSE rank[queueArray[e]] = rank[e] + 1
      BY <2>4, <1>1, <1>4, Zenon DEF Chained
    <3>2. owner[e] \in DOMAIN lists' /\ lists'[owner[e]] = lists[owner[e]]
      BY <3>1, <2>1, <2>2, Zenon
    <3>3. queueArray'[e] = queueArray[e] /\ queueArray[e] \in Queued'
      BY <3>1, <1>4, <1>5, <1>7, Zenon
    <3> QED
      BY <3>1, <3>2, <3>3, Zenon
  <2>5. \A e, f \in Queued' : owner[e] = owner[f] /\ rank[e] = rank[f] => e = f
    BY <1>1, <1>4, SMTT(30) DEF Chained
  <2>6. Chained(owner, rank)'
    BY <2>3, <2>4, <2>5, Zenon DEF Chained
  <2> QED
    BY <2>6, <1>3, <1>4, Zenon DEF Chains
<1>9. CASE queueArray[d] # d
  <2>1. /\ DOMAIN lists' = DOMAIN lists
        /\ \A s \in DOMAIN lists : s # slot => lists'[s] = lists[s]
        /\ lists'[slot].first = queueArray[d]
        /\ lists'[slot].second = l.second
        /\ lists'[slot].eventListSize = l.eventListSize - 1
    <3>1. PopFrontList(l) = [l EXCEPT !.first = queueArray[d], !.eventListSize = l.eventListSize - 1]
      BY <1>9, Zenon DEF PopFrontList
    <3>2. l \in EventList
      BY <1>2, Zenon
    <3>3. PopFrontList(l).first # UNKNOWN_DEVICE
      BY <3>1, <3>2, <1>3, DevicesAssumption, Zenon DEF EventList
    <3> QED
      BY <3>1, <3>2, <3>3, ZenonT(40) DEF Assign, EventList
  <2>2. /\ owner[queueArray[d]] = slot
        /\ rank[queueArray[d]] = rank[d] + 1
        /\ l.second # d
    <3>1. owner[queueArray[d]] = slot /\ rank[queueArray[d]] = rank[d] + 1
      BY <1>1, <1>3, <1>9, Zenon DEF Chained
    <3>2. rank[queueArray[d]] <= rank[l.second]
      BY <3>1, <1>1, <1>3, Zenon DEF Chained
    <3> QED
      BY <3>1, <3>2, <1>3, <1>6
  <2>3. ASSUME NEW s \in DOMAIN lists'
        PROVE  /\ lists'[s].first \in Queued' /\ owner[lists'[s].first] = s
               /\ lists'[s].second \in Queued' /\ owner[lists'[s].second] = s
               /\ lists'[s].eventListSize = rank[lists'[s].second] - rank[lists'[s].first] + 1
    <3>1. CASE s = slot
      <4>1. queueArray[d] \in Queued' /\ l.second \in Queued'
        BY <2>2, <1>3, <1>4, <1>9, Zenon
      <4>2. l.eventListSize - 1 = rank[l.second] - rank[queueArray[d]] + 1
        BY <2>2, <1>3, <1>6, SMTT(30)
      <4> QED
        BY <3>1, <4>1, <4>2, <2>1, <2>2, <1>3, Zenon
    <3>2. CASE s # slot
      <4>1. s \in DOMAIN lists /\ lists'[s] = lists[s]
        BY <3>2, <2>1, <2>3, Zenon
      <4>2. /\ lists[s].first \in Queued /\ owner[lists[s].first] = s
            /\ lists[s].second \in Queued /\ owner[lists[s].second] = s
            /\ lists[s].eventListSize = rank[lists[s].second] - rank[lists[s].first] + 1
        BY <4>1, <1>1, Zenon DEF Chained
      <4>3. lists[s].first # d /\ lists[s].second # d
        BY <4>2, <3>2, <1>3, Zenon
      <4> QED
        BY <4>1, <4>2, <4>3, <1>4, Zenon
    <3> QED
      BY <3>1, <3>2, Zenon
  <2>4. ASSUME NEW e \in Queued'
        PROVE  /\ owner[e] \in DOMAIN lists'
               /\ rank[lists'[owner[e]].first] <= rank[e]
               /\ rank[e] <= rank[lists'[owner[e]].second]
               /\ queueArray'[e] \in Queued'
               /\ owner[queueArray'[e]] = owner[e]
               /\ IF queueArray'[e] = e THEN e = lists'[owner[e]].second
                                       ELSE rank[queueArray'[e]] = rank[e] + 1
    <3>1. /\ e \in Queued /\ e # d
          /\ owner[e] \in DOMAIN lists
          /\ rank[lists[owner[e]].first] <= rank[e]
          /\ rank[e] <= rank[lists[owner[e]].second]
          /\ queueArray[e] \in Queued
          /\ owner[queueArray[e]] = owner[e]
          /\ IF queueArray[e] = e THEN e = lists[owner[e]].second
                                  ELSE rank[queueArray[e]] = rank[e] + 1
      BY <2>4, <1>1, <1>4, Zenon DEF Chained
    <3>2. owner[e] = slot => rank[d] + 1 <= rank[e]
      <4>1. owner[e] = slot => rank[d] <= rank[e] /\ rank[d] # rank[e]
        <5>1. \A x, y \in Queued : owner[x] = owner[y] /\ rank[x] = rank[y] => x = y
          BY <1>1, Zenon DEF Chained
        <5> QED
          BY <5>1, <3>1, <1>3, Zenon
      <4> QED
        BY <4>1, <3>1, <1>3, <1>6
    <3>3. queueArray'[e] = queueArray[e] /\ queueArray[e] \in Queued'
      BY <3>1, <1>4, <1>5, <1>7, Zenon
    <3>4. CASE owner[e] = slot
      <4>1. /\ owner[e] \in DOMAIN lists'
            /\ lists'[owner[e]].first = queueArray[d] /\ lists'[owner[e]].second = l.second
        BY <3>1, <3>4, <2>1, Zenon
      <4>2. rank[queueArray[d]] <= rank[e]
        BY <3>2, <3>4, <2>2, Zenon
      <4>3. /\ rank[e] <= rank[l.second]
            /\ IF queueArray[e] = e THEN e = l.second ELSE rank[queueArray[e]] = rank[e] + 1
        BY <3>1, <3>4, Zenon
      <4> QED
        BY <3>1, <3>3, <4>1, <4>2, <4>3, Zenon
    <3>5. CASE owner[e] # slot
      BY <3>1, <3>3, <3>5, <2>1, Zenon
    <3> QED
      BY <3>4, <3>5, Zenon
  <2>5. \A e, f \in Queued' : owner[e] = owner[f] /\ rank[e] = rank[f] => e = f
    BY <1>1, <1>4, Zenon DEF Chained
  <2>6. Chained(owner, rank)'
    BY <2>3, <2>4, <2>5, Zenon DEF Chained
  <2> QED
    BY <2>6, <1>3, <1>4, Zenon DEF Chains
<1> QED
  BY <1>8, <1>9, Zenon

\* A step that leaves queueArray and the lists alone keeps the chains.
LEMMA UnchangedChains ==
    ASSUME Chains, UNCHANGED <<queueArray, lists>>
    PROVE  Chains' /\ Queued' = Queued
<1>1. PICK owner \in [Devices -> Slots], rank \in [Devices -> Int] : Chained(owner, rank)
  BY Zenon DEF Chains
<1>2. Queued' = Queued
  BY Zenon DEF Queued
<1>3. Chained(owner, rank)'
  BY <1>1, <1>2, Zenon DEF Chained
<1> QED
  BY <1>2, <1>3, Zenon DEF Chains

-----------------------------------------------------------------------------
(* CEventQueue.                                                            *)

\* push_front and push_back return a list.
LEMMA PushTyped ==
    ASSUME NEW l \in EventList, NEW d \in Devices
    PROVE  PushFrontList(l, d) \in EventList /\ PushBackList(l, d) \in EventList
<1>1. l.first \in Links /\ l.second \in Links /\ l.eventListSize + 1 \in Nat
  BY DEF EventList
<1>2. d \in Links
  BY Zenon DEF Links
<1>3. PushFrontList(l, d) \in EventList
  BY <1>1, <1>2, Zenon DEF PushFrontList, EventList
<1>4. PushBackList(l, d) \in EventList
  BY <1>1, <1>2, Zenon DEF PushBackList, EventList
<1> QED
  BY <1>3, <1>4, Zenon

\* AddEvent of a device that is in no list adds it to one, and meets no error.
LEMMA AddEventStep ==
    ASSUME TypeOK, Chains, NEW key \in Keys, NEW d \in Devices, NEW position \in Positions,
           queueArray[d] = UNKNOWN_DEVICE,
           AddEvent(key, d, position)
    PROVE  /\ queueArray' \in [Devices -> Links]
           /\ DOMAIN lists' \subseteq Slots /\ lists' \in [DOMAIN lists' -> EventList]
           /\ Chains' /\ Queued' = Queued \cup {d}
           /\ enqueueCount' = enqueueCount + 1
           /\ UNCHANGED <<queueType, queueStart, dequeueCount, error>>
<1> DEFINE slot == SlotOf(key, position)
           l == ListAt(slot)
<1>1. slot \in Slots
  BY KeysAssumption, Zenon DEF SlotOf, PartOf, Sign, Slots
<1>2. l \in EventList /\ (l.first = UNKNOWN_DEVICE) = (l.second = UNKNOWN_DEVICE)
  BY EndsTogether, Zenon
<1>3. AddSucceeds(key, d, position) /\ UNCHANGED <<queueType, queueStart, dequeueCount>>
  BY <1>2, Zenon DEF AddEvent, AddFails
<1>4. CASE IsFront(position)
  <2>1. /\ lists' = Assign(slot, PushFrontList(l, d))
        /\ queueArray' = PushFrontArray(l, d)
    BY <1>3, <1>4, Zenon DEF AddSucceeds
  <2>2. Chains' /\ Queued' = Queued \cup {d}
    BY <2>1, <1>1, PushFrontChains, Zenon
  <2>3. PushFrontList(l, d) \in EventList
    BY <1>2, PushTyped, Zenon
  <2>4. DOMAIN lists' \subseteq Slots /\ lists' \in [DOMAIN lists' -> EventList]
    BY <2>1, <2>3, <1>1, Zenon DEF Assign, TypeOK
  <2>5. queueArray' \in [Devices -> Links]
    BY <2>1, <1>2, Zenon DEF PushFrontArray, TypeOK, EventList, Links
  <2> QED
    BY <2>2, <2>4, <2>5, <1>3, Zenon DEF AddSucceeds
<1>5. CASE ~IsFront(position)
  <2>1. /\ lists' = Assign(slot, PushBackList(l, d))
        /\ queueArray' = PushBackArray(l, d)
    BY <1>3, <1>5, Zenon DEF AddSucceeds
  <2>2. Chains' /\ Queued' = Queued \cup {d}
    BY <2>1, <1>1, PushBackChains, Zenon
  <2>3. PushBackList(l, d) \in EventList
    BY <1>2, PushTyped, Zenon
  <2>4. DOMAIN lists' \subseteq Slots /\ lists' \in [DOMAIN lists' -> EventList]
    BY <2>1, <2>3, <1>1, Zenon DEF Assign, TypeOK
  <2>5. queueArray' \in [Devices -> Links]
    BY <2>1, <1>2, Zenon DEF PushBackArray, TypeOK, EventList, Links
  <2> QED
    BY <2>2, <2>4, <2>5, <1>3, Zenon DEF AddSucceeds
<1> QED
  BY <1>4, <1>5, Zenon

\* GetEvent on a queue with a device in some list takes a device out of its
\* list, and meets no error.
LEMMA GetEventStep ==
    ASSUME TypeOK, Chains, Queued # {}, GetEvent
    PROVE  /\ queueArray' \in [Devices -> Links]
           /\ DOMAIN lists' \subseteq Slots /\ lists' \in [DOMAIN lists' -> EventList]
           /\ Chains' /\ current' \in Queued /\ Queued' = Queued \ {current'}
           /\ queueKey' \in Int
           /\ dequeueCount' = dequeueCount + 1
           /\ UNCHANGED <<queueType, queueStart, enqueueCount, error>>
<1>1. PICK owner \in [Devices -> Slots], rank \in [Devices -> Int] : Chained(owner, rank)
  BY Zenon DEF Chains
<1>2. \E s \in Slots : s \in DOMAIN lists
  BY <1>1, Zenon DEF Chained, TypeOK
<1>3. ~Empty("main") \/ ~Empty("delay")
  BY <1>2 DEF Empty, Slots
<1>4. PICK part \in {"main", "delay"} : ~Empty(part) /\ (PopBegin(part) \/ PopFails(part))
  BY <1>3, Zenon DEF GetEvent, IsNextMainQueue
<1>5. ~PopFails(part)
  <2>1. SUFFICES ASSUME PopFails(part)
                 PROVE  FALSE
    BY Zenon
  <2>2. PICK key \in Keys : Begin(part, key) /\ lists[<<part, key>>].first = UNKNOWN_DEVICE
    BY <1>4, <2>1, Zenon DEF PopFails
  <2>3. lists[<<part, key>>].first \in Devices
    BY <1>1, <2>2, Zenon DEF Begin, Chained, Queued
  <2> QED
    BY <2>2, <2>3, DevicesAssumption, Zenon
<1>6. PICK key \in Keys :
        /\ <<part, key>> \in DOMAIN lists
        /\ current' = lists[<<part, key>>].first
        /\ queueKey' = Sign(key)
        /\ queueArray' = [queueArray EXCEPT ![current'] = UNKNOWN_DEVICE]
        /\ lists' = IF PopFrontList(lists[<<part, key>>]).first = UNKNOWN_DEVICE
                      THEN Erase(<<part, key>>)
                      ELSE Assign(<<part, key>>, PopFrontList(lists[<<part, key>>]))
        /\ dequeueCount' = dequeueCount + 1
        /\ UNCHANGED error
  BY <1>4, <1>5, Zenon DEF PopBegin, Begin
<1> DEFINE slot == <<part, key>>
<1>7. Chains' /\ current' \in Queued /\ Queued' = Queued \ {current'}
  BY <1>6, PopFrontChains, Zenon
<1>8. queueArray' \in [Devices -> Links]
  BY <1>6, Zenon DEF TypeOK, Links
<1>9. PopFrontList(lists[slot]) \in EventList
  <2>1. /\ lists[slot] \in EventList
        /\ lists[slot].first \in Devices
        /\ queueArray[lists[slot].first] \in Links
    BY <1>6, <1>7, Zenon DEF TypeOK, Queued
  <2>2. lists[slot].eventListSize \in Nat \ {0}
    <3>1. /\ lists[slot].second \in Queued /\ owner[lists[slot].second] = slot
          /\ lists[slot].eventListSize = rank[lists[slot].second] - rank[lists[slot].first] + 1
      BY <1>1, <1>6, Zenon DEF Chained
    <3>2. rank[lists[slot].first] <= rank[lists[slot].second]
      BY <1>1, <3>1, Zenon DEF Chained
    <3>3. rank[lists[slot].first] \in Int /\ rank[lists[slot].second] \in Int
      BY <1>1, <2>1, <3>1, Zenon DEF Queued
    <3> QED
      BY <3>1, <3>2, <3>3
  <2>3. lists[slot].eventListSize - 1 \in Nat
    BY <2>2
  <2>4. CASE queueArray[lists[slot].first] = lists[slot].first
    <3>1. PopFrontList(lists[slot]) = [first |-> UNKNOWN_DEVICE, second |-> UNKNOWN_DEVICE,
                                       eventListSize |-> lists[slot].eventListSize - 1]
      BY <2>4, Zenon DEF PopFrontList, NewList
    <3> QED
      BY <3>1, <2>3 DEF EventList, Links
  <2>5. CASE queueArray[lists[slot].first] # lists[slot].first
    <3>1. PopFrontList(lists[slot])
            = [lists[slot] EXCEPT !.first = queueArray[lists[slot].first],
                                  !.eventListSize = lists[slot].eventListSize - 1]
      BY <2>5, Zenon DEF PopFrontList
    <3> HIDE DEF slot
    <3> QED
      BY <3>1, <2>1, <2>3, Zenon DEF EventList
  <2> QED
    BY <2>4, <2>5, Zenon
<1>10. DOMAIN lists' \subseteq Slots /\ lists' \in [DOMAIN lists' -> EventList]
  BY <1>6, <1>9, Zenon DEF Erase, Assign, TypeOK
<1>11. queueKey' \in Int
  BY <1>6, KeysAssumption, Zenon DEF Sign
<1> QED
  BY <1>6, <1>7, <1>8, <1>10, <1>11, Zenon DEF GetEvent

-----------------------------------------------------------------------------
(* The inductive invariant.                                                *)

\* Any set of devices is finite, so that the size of the queue is a number.
LEMMA QueuedFinite ==
    ASSUME NEW S, S \subseteq Devices
    PROVE  IsFiniteSet(S) /\ Cardinality(S) \in Nat
BY DevicesAssumption, FS_Subset, FS_CardinalityType, Zenon

\* The queues as they are constructed satisfy the inductive invariant.
LEMMA InitIInv == Init => IInv
<1> SUFFICES ASSUME Init
             PROVE  IInv
  BY Zenon
<1>1. Queued = {} /\ DOMAIN lists = {}
  BY Zenon DEF Init, Queued
<1>2. TypeOK
  <2>1. lists \in [DOMAIN lists -> EventList] /\ DOMAIN lists \subseteq Slots
    BY <1>1, [slot \in {} |-> NewList] \in [{} -> EventList], Zenon DEF Init
  <2>2. queueArray \in [Devices -> Links] /\ current \in Links
    BY Zenon DEF Init, Links
  <2>3. pending \subseteq Devices /\ inactive \subseteq Devices
    BY Zenon DEF Init
  <2>4. enqueueCount \in Nat /\ dequeueCount \in Nat /\ queueKey \in Int
    BY DEF Init
  <2> QED
    BY <2>1, <2>2, <2>3, <2>4, Zenon DEF Init, TypeOK, Phases
<1>3. Chains
  <2>1. PICK k \in Keys : TRUE
    BY KeysAssumption, Zenon
  <2>2. /\ [d \in Devices |-> <<"main", k>>] \in [Devices -> Slots]
        /\ [d \in Devices |-> 0] \in [Devices -> Int]
    BY DEF Slots
  <2>3. Chained([d \in Devices |-> <<"main", k>>], [d \in Devices |-> 0])
    BY <1>1, Zenon DEF Chained
  <2> QED
    BY <2>2, <2>3, Zenon DEF Chains
<1>4. SizeAgrees
  BY <1>1, FS_EmptySet DEF Init, SizeAgrees, QueueSize
<1> QED
  BY <1>1, <1>2, <1>3, <1>4, Zenon
     DEF Init, IInv, NoQueueError, PendingIsQueued, EmptyWhenIdle, CurrentIsOut, HandledIsOut

\* The steps that touch neither the lists nor the counters.
LEMMA OtherStep ==
    ASSUME IInv, UNCHANGED <<queueType, queueVars>>
    PROVE  Chains' /\ Queued' = Queued /\ SizeAgrees' /\ NoQueueError'
<1>1. Chains' /\ Queued' = Queued
  BY UnchangedChains, Zenon DEF IInv, queueVars
<1> QED
  BY <1>1, Zenon DEF IInv, queueVars, SizeAgrees, QueueSize, NoQueueError

\* Every operation on the queue, and every step of the code that uses it,
\* preserves the inductive invariant.
LEMMA NextIInv == IInv /\ [Next]_vars => IInv'
<1> SUFFICES ASSUME IInv, [Next]_vars
             PROVE  IInv'
  BY Zenon
<1> USE DEF IInv, NoQueueError
<1>q. Queued \subseteq Devices /\ IsFiniteSet(Queued) /\ Cardinality(Queued) \in Nat
  BY QueuedFinite, Zenon DEF Queued
<1>e. Queued = {} <=> QueueSize = 0
  BY <1>q, FS_EmptySet, Zenon DEF SizeAgrees
<1>1. CASE ResetQueue
  <2>1. pending = {} /\ Queued = {} /\ DOMAIN lists = {} /\ pending' = {}
    BY <1>1, Zenon DEF ResetQueue, At, EmptyWhenIdle, PendingIsQueued
  <2>2. Queued' = {}
    BY <1>1, Zenon DEF ResetQueue, Queued
  <2>3. Chains'
    <3>1. PICK owner \in [Devices -> Slots], rank \in [Devices -> Int] : Chained(owner, rank)
      BY Zenon DEF Chains
    <3>2. Chained(owner, rank)'
      BY <1>1, <2>1, <2>2, Zenon DEF Chained, ResetQueue
    <3> QED
      BY <3>2, Zenon DEF Chains
  <2>4. TypeOK'
    BY <1>1, <2>1, Zenon DEF ResetQueue, TypeOK, Links, Phases
  <2>5. SizeAgrees'
    BY <1>1, <2>2, FS_EmptySet DEF ResetQueue, SizeAgrees, QueueSize
  <2> QED
    BY <1>1, <2>1, <2>2, <2>3, <2>4, <2>5, Zenon
       DEF ResetQueue, PendingIsQueued, EmptyWhenIdle, CurrentIsOut, HandledIsOut
<1>2. ASSUME NEW d \in Devices, IgnoreDevice(d)
      PROVE  IInv'
  <2>1. Chains' /\ Queued' = Queued /\ SizeAgrees' /\ NoQueueError'
    BY <1>2, OtherStep, Zenon DEF IgnoreDevice
  <2>2. pending = {} /\ Queued = {}
    BY <1>2, <1>e, Zenon DEF IgnoreDevice, At, EmptyWhenIdle, PendingIsQueued
  <2> QED
    BY <1>2, <2>1, <2>2 DEF IgnoreDevice, At, queueVars, TypeOK, PendingIsQueued,
                            EmptyWhenIdle, CurrentIsOut, HandledIsOut
<1>3. ASSUME NEW d \in Devices, SkipIrrelevant(d)
      PROVE  IInv'
  <2>1. Chains' /\ Queued' = Queued /\ SizeAgrees' /\ NoQueueError'
    BY <1>3, OtherStep, Zenon DEF SkipIrrelevant
  <2> QED
    BY <1>3, <2>1 DEF SkipIrrelevant, MayEnqueue, At, queueVars, TypeOK, PendingIsQueued,
                      EmptyWhenIdle, CurrentIsOut, HandledIsOut
<1>4. ASSUME NEW d \in Devices, NEW key \in Keys, NEW position \in Positions,
             Enqueue(d, key, position)
      PROVE  IInv'
  <2>1. d \notin Queued /\ queueArray[d] = UNKNOWN_DEVICE
    BY <1>4, Zenon DEF Enqueue, PendingIsQueued, Queued
  <2>2. /\ queueArray' \in [Devices -> Links]
        /\ DOMAIN lists' \subseteq Slots /\ lists' \in [DOMAIN lists' -> EventList]
        /\ Chains' /\ Queued' = Queued \cup {d}
        /\ enqueueCount' = enqueueCount + 1
        /\ UNCHANGED <<queueType, queueStart, dequeueCount, error>>
    BY <1>4, <2>1, AddEventStep, Zenon DEF Enqueue
  <2>3. SizeAgrees'
    <3>1. Cardinality(Queued') = Cardinality(Queued) + 1
      BY <2>1, <2>2, <1>q, FS_AddElement, Zenon
    <3> QED
      BY <2>2, <3>1 DEF SizeAgrees, QueueSize, TypeOK
  <2>4. TypeOK'
    BY <1>4, <2>2 DEF Enqueue, TypeOK
  <2>5. PendingIsQueued'
    BY <1>4, <2>2, Zenon DEF Enqueue, PendingIsQueued
  <2> QED
    BY <1>4, <2>2, <2>3, <2>4, <2>5, Zenon
       DEF Enqueue, MayEnqueue, At, EmptyWhenIdle, CurrentIsOut, HandledIsOut
<1>5. CASE StartQueue
  <2>1. Chains' /\ Queued' = Queued
    BY <1>5, UnchangedChains, Zenon DEF StartQueue
  <2> QED
    BY <1>5, <2>1 DEF StartQueue, At, TypeOK, PendingIsQueued, SizeAgrees, QueueSize,
                      EmptyWhenIdle, CurrentIsOut, HandledIsOut, Phases
<1>6. CASE TakeEvent
  <2>1. Queued # {}
    BY <1>6, <1>e DEF TakeEvent
  <2>2. /\ queueArray' \in [Devices -> Links]
        /\ DOMAIN lists' \subseteq Slots /\ lists' \in [DOMAIN lists' -> EventList]
        /\ Chains' /\ current' \in Queued /\ Queued' = Queued \ {current'}
        /\ queueKey' \in Int
        /\ dequeueCount' = dequeueCount + 1
        /\ UNCHANGED <<queueType, queueStart, enqueueCount, error>>
    BY <1>6, <2>1, GetEventStep, Zenon DEF TakeEvent
  <2>3. SizeAgrees'
    <3>1. Cardinality(Queued') = Cardinality(Queued) - 1
      BY <2>2, <1>q, FS_RemoveElement, Zenon
    <3> QED
      BY <2>2, <3>1 DEF SizeAgrees, QueueSize, TypeOK
  <2>4. TypeOK'
    BY <1>6, <2>2, <1>q DEF TakeEvent, TypeOK, Links, Phases
  <2>5. pending' = Queued' /\ phase' \in {"drain", "handle"}
    BY <1>6, <2>2, Zenon DEF TakeEvent, At, PendingIsQueued
  <2> QED
    BY <1>6, <2>2, <2>3, <2>4, <2>5, <1>q, Zenon
       DEF PendingIsQueued, EmptyWhenIdle, CurrentIsOut, HandledIsOut
<1>7. CASE LeaveEvent
  <2>1. Chains' /\ Queued' = Queued /\ SizeAgrees' /\ NoQueueError'
    BY <1>7, OtherStep, Zenon DEF LeaveEvent
  <2> QED
    BY <1>7, <2>1 DEF LeaveEvent, At, queueVars, TypeOK, PendingIsQueued, EmptyWhenIdle,
                      CurrentIsOut, HandledIsOut, Phases
<1>8. CASE DropEvent
  <2>1. Chains' /\ Queued' = Queued /\ SizeAgrees' /\ NoQueueError'
    BY <1>8, OtherStep, Zenon DEF DropEvent
  <2> QED
    BY <1>8, <2>1 DEF DropEvent, At, queueVars, TypeOK, PendingIsQueued, EmptyWhenIdle,
                      CurrentIsOut, HandledIsOut, Phases
<1>9. ASSUME NEW key \in Keys, NEW position \in Positions, Requeue(key, position)
      PROVE  IInv'
  <2>1. current \in Devices /\ current \notin Queued /\ queueArray[current] = UNKNOWN_DEVICE
    BY <1>9, Zenon DEF Requeue, At, CurrentIsOut, HandledIsOut, Queued
  <2>2. /\ queueArray' \in [Devices -> Links]
        /\ DOMAIN lists' \subseteq Slots /\ lists' \in [DOMAIN lists' -> EventList]
        /\ Chains' /\ Queued' = Queued \cup {current}
        /\ enqueueCount' = enqueueCount + 1
        /\ UNCHANGED <<queueType, queueStart, dequeueCount, error>>
    BY <1>9, <2>1, AddEventStep, Zenon DEF Requeue
  <2>3. SizeAgrees'
    <3>1. Cardinality(Queued') = Cardinality(Queued) + 1
      BY <2>1, <2>2, <1>q, FS_AddElement, Zenon
    <3> QED
      BY <2>2, <3>1 DEF SizeAgrees, QueueSize, TypeOK
  <2>4. TypeOK'
    <3>1. enqueueCount' \in Nat /\ dequeueCount' \in Nat
      BY <2>2 DEF TypeOK
    <3>2. /\ pending' \subseteq Devices /\ inactive' \subseteq Devices
          /\ current' \in Links /\ queueKey' \in Int /\ phase' \in Phases
      BY <1>9, <2>1, Zenon DEF Requeue, TypeOK, Phases
    <3> QED
      BY <2>2, <3>1, <3>2, Zenon DEF TypeOK
  <2>5. PendingIsQueued'
    BY <1>9, <2>2, Zenon DEF Requeue, At, PendingIsQueued
  <2> QED
    BY <1>9, <2>2, <2>3, <2>4, <2>5, Zenon
       DEF Requeue, At, EmptyWhenIdle, CurrentIsOut, HandledIsOut
<1>10. CASE ShortNets
  <2>1. Chains' /\ Queued' = Queued /\ SizeAgrees' /\ NoQueueError'
    BY <1>10, OtherStep, Zenon DEF ShortNets
  <2> QED
    BY <1>10, <2>1 DEF ShortNets, At, queueVars, TypeOK, PendingIsQueued, EmptyWhenIdle,
                       CurrentIsOut, HandledIsOut, Phases
<1>11. CASE EndSpread
  <2>1. Chains' /\ Queued' = Queued /\ SizeAgrees' /\ NoQueueError'
    BY <1>11, OtherStep, Zenon DEF EndSpread
  <2> QED
    BY <1>11, <2>1 DEF EndSpread, At, queueVars, TypeOK, PendingIsQueued, EmptyWhenIdle,
                       CurrentIsOut, HandledIsOut, Phases
<1>12. CASE BeginConflict
  <2>1. Chains' /\ Queued' = Queued /\ SizeAgrees' /\ NoQueueError'
    BY <1>12, OtherStep, Zenon DEF BeginConflict
  <2> QED
    BY <1>12, <2>1 DEF BeginConflict, At, queueVars, TypeOK, PendingIsQueued, EmptyWhenIdle,
                       CurrentIsOut, HandledIsOut, Phases
<1>13. CASE EndConflict
  <2>1. Chains' /\ Queued' = Queued /\ SizeAgrees' /\ NoQueueError'
    BY <1>13, OtherStep, Zenon DEF EndConflict
  <2> QED
    BY <1>13, <2>1 DEF EndConflict, At, queueVars, TypeOK, PendingIsQueued, EmptyWhenIdle,
                       CurrentIsOut, HandledIsOut, Phases
<1>14. CASE Drained
  <2>1. Chains' /\ Queued' = Queued /\ SizeAgrees' /\ NoQueueError'
    BY <1>14, OtherStep, Zenon DEF Drained
  <2>2. Queued = {} /\ pending = {}
    BY <1>14, <1>e, Zenon DEF Drained, At, PendingIsQueued
  <2>3. DOMAIN lists = {}
    BY <2>2, Zenon DEF Chains, Chained
  <2> QED
    BY <1>14, <2>1, <2>2, <2>3 DEF Drained, At, queueVars, TypeOK, PendingIsQueued,
                                   EmptyWhenIdle, CurrentIsOut, HandledIsOut, Phases
<1>15. CASE UNCHANGED vars
  <2>1. Chains' /\ Queued' = Queued /\ SizeAgrees' /\ NoQueueError'
    BY <1>15, OtherStep, Zenon DEF vars, queueVars
  <2> QED
    BY <1>15, <2>1, Zenon DEF vars, TypeOK, PendingIsQueued, EmptyWhenIdle, CurrentIsOut, HandledIsOut
<1> QED
  BY <1>1, <1>2, <1>3, <1>4, <1>5, <1>6, <1>7, <1>8, <1>9, <1>10, <1>11, <1>12, <1>13,
     <1>14, <1>15 DEF Next

-----------------------------------------------------------------------------
(* What holds in every reachable state.                                    *)

\* The inductive invariant holds in every reachable state.
LEMMA Invariance == Spec => []IInv
BY InitIInv, NextIInv, PTL DEF Spec

\* Every variable keeps its type; in particular eventListSize and the counters
\* never become negative.
THEOREM TypeCorrect == Spec => []TypeOK
<1>1. IInv => TypeOK
  BY Zenon DEF IInv
<1> QED
  BY <1>1, Invariance, PTL

\* No use of a queue by the propagation code throws EQueueError, fails an
\* assertion of CEventList or dereferences begin() of an empty map.
THEOREM QueuesMeetNoError == Spec => []NoQueueError
<1>1. IInv => NoQueueError
  BY Zenon DEF IInv
<1> QED
  BY <1>1, Invariance, PTL

\* The pending bits kept by CCvcDb and the links kept by CEventQueue agree.
THEOREM PendingBitsAreRight == Spec => []PendingIsQueued
<1>1. IInv => PendingIsQueued
  BY Zenon DEF IInv
<1> QED
  BY <1>1, Invariance, PTL

\* QueueSize() is the number of devices that are in the lists.
THEOREM QueueSizeIsRight == Spec => []SizeAgrees
<1>1. IInv => SizeAgrees
  BY Zenon DEF IInv
<1> QED
  BY <1>1, Invariance, PTL

\* ResetQueue is only called when nothing is left in the maps it does not clear.
THEOREM ResetFindsQueueEmpty == Spec => []EmptyWhenIdle
<1>1. IInv => EmptyWhenIdle
  BY Zenon DEF IInv
<1> QED
  BY <1>1, Invariance, PTL

-----------------------------------------------------------------------------
(* The linked lists of CEventQueue implement the ordered queue of          *)
(* AbstractEventQueue.                                                     *)
(*                                                                         *)
(* Contents reads a list off the links.  The inductive invariant gives     *)
(* each device of a list a rank, so that the walk along the links exists,  *)
(* visits the ranks one by one and ends at the last device.  A sequence    *)
(* that follows the links is the walk; so it is enough to show, for each   *)
(* operation on a list, that the sequence the abstract queue has           *)
(* afterwards follows the new links.                                       *)

\* A set of natural numbers that is not empty has a least one.
LEMMA LeastNumber ==
    ASSUME NEW S, S \subseteq Nat, S # {}
    PROVE  \E n \in S : \A m \in S : n <= m
<1>1. \E n \in S : \A m \in S : ~ (<<m, n>> \in OpToRel(<, Nat))
  BY NatLessThanWellFounded, WFMin, Zenon
<1>2. PICK n \in S : \A m \in S : ~ (m < n)
  BY <1>1, Zenon DEF OpToRel
<1> QED
  BY <1>2

\* Only one sequence follows given links.
LEMMA FollowsOnce ==
    ASSUME NEW l, NEW links, l.eventListSize \in Nat,
           NEW w \in [1 .. l.eventListSize -> Devices], Follows(w, l, links),
           NEW u \in [1 .. l.eventListSize -> Devices], Follows(u, l, links)
    PROVE  w = u
<1> DEFINE apart == {i \in 1 .. l.eventListSize : w[i] # u[i]}
<1>1. CASE apart = {}
  BY <1>1
<1>2. CASE apart # {}
  <2>1. PICK i \in apart : \A j \in apart : i <= j
    <3>1. apart \subseteq Nat
      OBVIOUS
    <3> HIDE DEF apart
    <3> QED
      BY <3>1, <1>2, LeastNumber, Zenon
  <2>2. i # 1
    BY <2>1 DEF Follows
  <2>3. i \in 2 .. l.eventListSize /\ i - 1 \in 1 .. l.eventListSize
    BY <2>1, <2>2
  <2>4. w[i - 1] = u[i - 1]
    BY <2>1, <2>3
  <2>5. w[i] = u[i]
    BY <2>3, <2>4, Zenon DEF Follows
  <2> QED
    BY <2>1, <2>5, Zenon
<1> QED
  BY <1>1, <1>2, Zenon

LEMMA WalkIs ==
    ASSUME NEW l, NEW links, l.eventListSize \in Nat,
           NEW w \in [1 .. l.eventListSize -> Devices], Follows(w, l, links)
    PROVE  Walk(l, links) = w
<1>1. /\ Walk(l, links) \in [1 .. l.eventListSize -> Devices]
      /\ Follows(Walk(l, links), l, links)
  BY Zenon DEF Walk
<1> QED
  BY <1>1, FollowsOnce, Zenon

\* Between the first and the last device of a list there is one for each rank.
LEMMA NoGaps ==
    ASSUME TypeOK, NEW owner \in [Devices -> Slots], NEW rank \in [Devices -> Int],
           Chained(owner, rank), NEW s \in DOMAIN lists,
           NEW i \in 1 .. lists[s].eventListSize
    PROVE  \E d \in Queued : owner[d] = s /\ rank[d] = rank[lists[s].first] + i - 1
<1> DEFINE n == lists[s].eventListSize
           low == rank[lists[s].first]
           gaps == {j \in 1 .. n : ~ \E d \in Queued : owner[d] = s /\ rank[d] = low + j - 1}
<1>1. /\ n \in Nat /\ low \in Int
      /\ lists[s].first \in Queued /\ owner[lists[s].first] = s
      /\ lists[s].second \in Queued
      /\ rank[lists[s].second] = low + n - 1
  <2>1. lists[s].first \in Queued /\ lists[s].second \in Queued
    BY Zenon DEF Chained
  <2>2. rank[lists[s].first] \in Int /\ rank[lists[s].second] \in Int
    BY <2>1, Zenon DEF Queued
  <2>3. lists[s].eventListSize \in Nat
    BY Zenon DEF TypeOK, EventList
  <2> QED
    BY <2>1, <2>2, <2>3 DEF Chained
<1>2. SUFFICES ASSUME gaps # {}
               PROVE  FALSE
  BY <1>1, Zenon
<1>3. PICK j \in gaps : \A k \in gaps : j <= k
  <2>1. gaps \subseteq Nat
    BY <1>1
  <2> HIDE DEF gaps
  <2> QED
    BY <2>1, <1>2, LeastNumber, Zenon
<1> HIDE DEF n, low
<1>4. j # 1
  <2>1. rank[lists[s].first] = low + 1 - 1
    BY <1>1 DEF low
  <2> QED
    BY <1>1, <1>3, <2>1, Zenon
<1>5. j \in 2 .. n /\ j - 1 \in 1 .. n /\ j - 1 \notin gaps
  BY <1>1, <1>3, <1>4
<1>6. PICK d \in Queued : owner[d] = s /\ rank[d] = low + (j - 1) - 1
  BY <1>5, Zenon
<1>7. queueArray[d] # d
  <2>1. SUFFICES ASSUME queueArray[d] = d
                 PROVE  FALSE
    BY Zenon
  <2>2. d = lists[s].second
    BY <2>1, <1>6, Zenon DEF Chained
  <2> QED
    BY <2>2, <1>1, <1>5, <1>6
<1>8. /\ queueArray[d] \in Queued /\ owner[queueArray[d]] = s
      /\ rank[queueArray[d]] = rank[d] + 1
  BY <1>6, <1>7, Zenon DEF Chained
<1>9. rank[queueArray[d]] = low + j - 1
  BY <1>1, <1>5, <1>6, <1>8, SMTT(30)
<1> QED
  BY <1>3, <1>8, <1>9, Zenon

\* The walk along the links of a list goes through its ranks.
LEMMA WalkRanks ==
    ASSUME TypeOK, NEW owner \in [Devices -> Slots], NEW rank \in [Devices -> Int],
           Chained(owner, rank), NEW s \in DOMAIN lists
    PROVE  LET l == lists[s]
               w == Walk(l, queueArray)
           IN  /\ l.eventListSize \in Nat \ {0}
               /\ w \in [1 .. l.eventListSize -> Devices]
               /\ Follows(w, l, queueArray)
               /\ w[l.eventListSize] = l.second
               /\ \A i \in 1 .. l.eventListSize :
                     /\ w[i] \in Queued /\ owner[w[i]] = s
                     /\ rank[w[i]] = rank[l.first] + i - 1
<1> DEFINE l == lists[s]
           n == l.eventListSize
           low == rank[l.first]
           At_(d, i) == d \in Queued /\ owner[d] = s /\ rank[d] = low + i - 1
           w == [i \in 1 .. n |-> CHOOSE d \in Devices : At_(d, i)]
<1>1. /\ l.first \in Queued /\ owner[l.first] = s
      /\ l.second \in Queued /\ owner[l.second] = s
      /\ low \in Int /\ rank[l.second] \in Int
      /\ n = rank[l.second] - low + 1
      /\ n \in Nat
  <2>1. l.first \in Queued /\ l.second \in Queued
    BY Zenon DEF Chained
  <2>2. low \in Int /\ rank[l.second] \in Int
    BY <2>1, Zenon DEF Queued
  <2>3. n \in Nat
    BY Zenon DEF TypeOK, EventList
  <2> QED
    BY <2>1, <2>2, <2>3, Zenon DEF Chained
<1>2. n # 0
  <2>1. low <= rank[l.second]
    BY <1>1, Zenon DEF Chained
  <2> QED
    BY <1>1, <2>1
<1>3. ASSUME NEW i \in 1 .. n
      PROVE  w[i] \in Devices /\ At_(w[i], i)
  <2>1. \E d \in Queued : owner[d] = s /\ rank[d] = low + i - 1
    BY NoGaps, <1>3, Zenon
  <2>2. \E d \in Devices : At_(d, i)
    BY <2>1, Zenon DEF Queued
  <2>3. w[i] = CHOOSE d \in Devices : At_(d, i)
    BY Zenon
  <2> HIDE DEF At_, w
  <2> QED
    BY <2>2, <2>3, Zenon
<1> HIDE DEF w
<1>4. w \in [1 .. n -> Devices]
  <2>1. w = [i \in 1 .. n |-> w[i]]
    BY DEF w
  <2> QED
    BY <2>1, <1>3, Zenon
<1>5. \A d, e \in Queued : owner[d] = owner[e] /\ rank[d] = rank[e] => d = e
  BY Zenon DEF Chained
<1>6. w[1] = l.first
  <2>1. At_(w[1], 1)
    BY <1>1, <1>2, <1>3, SMTT(30)
  <2> QED
    BY <2>1, <1>1, <1>5
<1>7. w[n] = l.second
  <2>1. At_(w[n], n)
    BY <1>1, <1>2, <1>3
  <2> QED
    BY <2>1, <1>1, <1>5
<1>8. ASSUME NEW i \in 2 .. n
      PROVE  w[i] = queueArray[w[i - 1]]
  <2>1. i - 1 \in 1 .. n /\ i \in 1 .. n
    BY <1>1, <1>8
  <2>2. At_(w[i - 1], i - 1) /\ At_(w[i], i)
    BY <2>1, <1>3, Zenon
  <2>3. queueArray[w[i - 1]] # w[i - 1]
    <3>1. SUFFICES ASSUME queueArray[w[i - 1]] = w[i - 1]
                   PROVE  FALSE
      BY Zenon
    <3>2. w[i - 1] = l.second
      BY <2>2, <3>1 DEF Chained
    <3> HIDE DEF n, low
    <3> QED
      BY <3>2, <2>1, <2>2, <1>1, <1>8
  <2>4. /\ queueArray[w[i - 1]] \in Queued
        /\ owner[queueArray[w[i - 1]]] = s
        /\ rank[queueArray[w[i - 1]]] = rank[w[i - 1]] + 1
    BY <2>2, <2>3, Zenon DEF Chained
  <2>5. rank[queueArray[w[i - 1]]] = rank[w[i]]
    BY <2>1, <2>2, <2>4, <1>1
  <2> QED
    BY <2>2, <2>4, <2>5, <1>5, Zenon
<1>9. Follows(w, l, queueArray)
  BY <1>6, <1>8, Zenon DEF Follows
<1>10. Walk(l, queueArray) = w
  BY <1>1, <1>4, <1>9, WalkIs, Zenon
<1> QED
  BY <1>1, <1>2, <1>3, <1>4, <1>7, <1>9, <1>10, Zenon

\* What the abstract queue has under a slot: the devices of its list, all in
\* lists, none of them twice, none of them under another slot.
LEMMA ContentsAt ==
    ASSUME TypeOK, Chains, NEW s \in Slots
    PROVE  LET l == ListAt(s)
               w == Contents[s]
           IN  /\ l.eventListSize \in Nat
               /\ w \in [1 .. l.eventListSize -> Devices]
               /\ Follows(w, l, queueArray)
               /\ s \in DOMAIN lists <=> l.eventListSize # 0
               /\ l.eventListSize # 0 => w[l.eventListSize] = l.second
               /\ \A i \in 1 .. l.eventListSize : w[i] \in Queued
               /\ \A i, j \in 1 .. l.eventListSize : w[i] = w[j] => i = j
               /\ \A t \in DOMAIN lists \ {s} :
                     \A i \in 1 .. l.eventListSize, j \in 1 .. lists[t].eventListSize :
                        w[i] # Contents[t][j]
<1>1. PICK owner \in [Devices -> Slots], rank \in [Devices -> Int] : Chained(owner, rank)
  BY Zenon DEF Chains
<1>2. CASE s \notin DOMAIN lists
  <2>1. ListAt(s).eventListSize = 0 /\ Contents[s] = <<>>
    BY <1>2, Zenon DEF ListAt, NewList, Contents
  <2>2. <<>> \in [1 .. 0 -> Devices]
    OBVIOUS
  <2> QED
    BY <1>2, <2>1, <2>2 DEF Follows
<1>3. CASE s \in DOMAIN lists
  <2> DEFINE l == lists[s]
             n == l.eventListSize
             w == Walk(l, queueArray)
  <2>1. ListAt(s) = l /\ Contents[s] = w
    BY <1>3, Zenon DEF ListAt, Contents
  <2>2. /\ n \in Nat \ {0}
        /\ w \in [1 .. n -> Devices]
        /\ Follows(w, l, queueArray)
        /\ w[n] = l.second
        /\ \A i \in 1 .. n :
              w[i] \in Queued /\ owner[w[i]] = s /\ rank[w[i]] = rank[l.first] + i - 1
    BY <1>1, <1>3, WalkRanks
  <2>3. rank[l.first] \in Int
    BY <1>1, <1>3, Zenon DEF Chained, Queued
  <2>4. ASSUME NEW t \in DOMAIN lists \ {s}, NEW j \in 1 .. lists[t].eventListSize
        PROVE  owner[Contents[t][j]] = t
    <3>1. Contents[t] = Walk(lists[t], queueArray)
      BY <2>4, Zenon DEF Contents, TypeOK
    <3> QED
      BY <1>1, <2>4, <3>1, WalkRanks
  <2> HIDE DEF l, n, w
  <2>5. ASSUME NEW i \in 1 .. n, NEW j \in 1 .. n, w[i] = w[j]
        PROVE  i = j
    <3>1. i \in Int /\ j \in Int
      BY <2>2
    <3>2. rank[l.first] + i - 1 = rank[l.first] + j - 1
      BY <2>2, <2>5, Zenon
    <3> QED
      BY <2>3, <3>1, <3>2
  <2>6. ASSUME NEW t \in DOMAIN lists \ {s}, NEW i \in 1 .. n, NEW j \in 1 .. lists[t].eventListSize
        PROVE  w[i] # Contents[t][j]
    BY <2>2, <2>4, <2>6
  <2>7. ListAt(s).eventListSize = n
    BY <2>1, Zenon DEF n
  <2> QED
    BY <1>3, <2>1, <2>2, <2>5, <2>6, <2>7
<1> QED
  BY <1>2, <1>3, Zenon

\* A list no device of which is touched keeps its contents.
LEMMA OtherContents ==
    ASSUME TypeOK, Chains, NEW s \in Slots,
           s \in DOMAIN lists' <=> s \in DOMAIN lists,
           s \in DOMAIN lists => lists'[s] = lists[s],
           \A i \in 1 .. ListAt(s).eventListSize :
               queueArray'[Contents[s][i]] = queueArray[Contents[s][i]]
    PROVE  Contents'[s] = Contents[s]
<1>1. CASE s \notin DOMAIN lists
  BY <1>1, Zenon DEF Contents
<1>2. CASE s \in DOMAIN lists
  <2> DEFINE l == lists[s]
             n == l.eventListSize
             w == Contents[s]
  <2>1. ListAt(s) = l
    BY <1>2, Zenon DEF ListAt
  <2>2. n \in Nat /\ w \in [1 .. n -> Devices] /\ Follows(w, l, queueArray)
    BY <2>1, ContentsAt, Zenon
  <2>3. ASSUME NEW i \in 2 .. n
        PROVE  w[i] = queueArray'[w[i - 1]]
    <3>1. w[i] = queueArray[w[i - 1]] /\ i - 1 \in 1 .. n
      BY <2>2, <2>3 DEF Follows
    <3> QED
      BY <3>1, <2>1, Zenon
  <2>4. Follows(w, l, queueArray')
    BY <2>2, <2>3, Zenon DEF Follows
  <2> HIDE DEF l, n, w
  <2>5. Walk(l, queueArray') = w
    BY <2>2, <2>4, WalkIs, Zenon DEF n
  <2>6. Contents'[s] = Walk(l, queueArray')
    BY <1>2, Zenon DEF Contents, l
  <2> QED
    BY <2>5, <2>6, Zenon DEF w
<1> QED
  BY <1>1, <1>2, Zenon

-----------------------------------------------------------------------------
(* The operations.                                                         *)

\* Only a device that is in no list may be added.
LEMMA NotWaiting ==
    ASSUME TypeOK, Chains, NEW d \in Devices, d \notin Queued
    PROVE  d \notin Abstract!Waiting
<1>1. SUFFICES ASSUME NEW s \in Slots, NEW i \in DOMAIN Contents[s], Contents[s][i] = d
               PROVE  FALSE
  BY Zenon DEF Abstract!Waiting, Abstract!AbsSlots, Slots
<1> QED
  BY <1>1, ContentsAt, Zenon

\* push_front
LEMMA PushFrontContents ==
    ASSUME TypeOK, Chains, NEW slot \in Slots, NEW d \in Devices,
           queueArray[d] = UNKNOWN_DEVICE,
           lists' = Assign(slot, PushFrontList(ListAt(slot), d)),
           queueArray' = PushFrontArray(ListAt(slot), d)
    PROVE  Contents' = [Contents EXCEPT ![slot] = <<d>> \o Contents[slot]]
<1> DEFINE l == ListAt(slot)
           n == l.eventListSize
           w == Contents[slot]
           k == PushFrontList(l, d)
           u == <<d>> \o w
<1>1. /\ n \in Nat
      /\ w \in [1 .. n -> Devices]
      /\ Follows(w, l, queueArray)
      /\ slot \in DOMAIN lists <=> n # 0
      /\ \A i \in 1 .. n : w[i] \in Queued
  BY ContentsAt, Zenon
<1>2. d \notin Queued
  BY Zenon DEF Queued
<1>3. ASSUME NEW s \in Slots \ {slot}
      PROVE  Contents'[s] = Contents[s]
  <2>1. s \in DOMAIN lists' <=> s \in DOMAIN lists
    BY <1>3, Zenon DEF Assign
  <2>2. s \in DOMAIN lists => lists'[s] = lists[s]
    BY <1>3, Zenon DEF Assign
  <2>3. ASSUME NEW i \in 1 .. ListAt(s).eventListSize
        PROVE  queueArray'[Contents[s][i]] = queueArray[Contents[s][i]]
    <3>1. Contents[s][i] \in Queued
      BY <2>3, <1>3, ContentsAt, Zenon
    <3> QED
      BY <3>1, <1>2, Zenon DEF PushFrontArray, TypeOK, Queued
  <2> QED
    BY <1>3, <2>1, <2>2, <2>3, OtherContents, Zenon
<1>4. /\ w \in Seq(Devices) /\ Len(w) = n
      /\ <<d>> \in Seq(Devices) /\ Len(<<d>>) = 1
  BY <1>1
<1>5. u \in [1 .. n + 1 -> Devices] /\ u[1] = d /\ \A i \in 2 .. n + 1 : u[i] = w[i - 1]
  <2> HIDE DEF w
  <2>1. /\ u \in Seq(Devices) /\ Len(u) = 1 + n
        /\ \A i \in 1 .. 1 + n : u[i] = IF i <= 1 THEN <<d>>[i] ELSE w[i - 1]
    BY <1>4, ConcatProperties
  <2> HIDE DEF u
  <2>2. u \in [1 .. 1 + n -> Devices]
    BY <2>1, LenProperties, Zenon
  <2> QED
    BY <1>1, <2>1, <2>2
<1>6. k.first = d /\ k.eventListSize = n + 1
  BY Zenon DEF PushFrontList
<1>7. ASSUME NEW i \in 2 .. n + 1
      PROVE  u[i] = queueArray'[u[i - 1]]
  <2>1. CASE i = 2
    <3>1. n # 0 /\ 1 \in 1 .. n
      BY <1>1, <1>7, <2>1
    <3>2. w[1] = l.first /\ w[1] \in Devices
      BY <3>1, <1>1 DEF Follows
    <3>3. queueArray'[d] = l.first
      BY <3>2, DevicesAssumption, Zenon DEF PushFrontArray, TypeOK
    <3>4. u[2] = w[2 - 1] /\ u[1] = d
      BY <1>5, <1>7, <2>1, Zenon
    <3>5. 2 - 1 = 1
      OBVIOUS
    <3> HIDE DEF u, w
    <3> QED
      BY <2>1, <3>2, <3>3, <3>4, <3>5, Zenon
  <2>2. CASE i # 2
    <3>1. i - 1 \in 2 .. n /\ i - 2 \in 1 .. n /\ i - 1 \in 2 .. n + 1 /\ (i - 1) - 1 = i - 2
      BY <1>1, <1>7, <2>2
    <3>2. u[i] = w[i - 1] /\ u[i - 1] = w[i - 2]
      <4> HIDE DEF u, w, n
      <4> QED
        BY <3>1, <1>5, <1>7, Zenon
    <3>3. w[i - 1] = queueArray[w[i - 2]]
      BY <3>1, <1>1, Zenon DEF Follows
    <3>4. queueArray'[w[i - 2]] = queueArray[w[i - 2]]
      BY <3>1, <1>1, <1>2, Zenon DEF PushFrontArray, TypeOK, Queued
    <3> QED
      BY <3>2, <3>3, <3>4, Zenon
  <2> QED
    BY <2>1, <2>2, Zenon
<1>8. Contents'[slot] = u
  <2>1. slot \in DOMAIN lists' /\ lists'[slot] = k
    BY Zenon DEF Assign
  <2>2. Contents'[slot] = Walk(k, queueArray')
    BY <2>1, Zenon DEF Contents
  <2> HIDE DEF u, k, n
  <2>3. Follows(u, k, queueArray')
    BY <1>5, <1>6, <1>7, Zenon DEF Follows
  <2>4. k.eventListSize \in Nat /\ u \in [1 .. k.eventListSize -> Devices]
    BY <1>1, <1>5, <1>6
  <2> QED
    BY <2>2, <2>3, <2>4, WalkIs, Zenon
<1>9. Contents' = [s \in Slots |-> Contents'[s]] /\ Contents = [s \in Slots |-> Contents[s]]
  BY Zenon DEF Contents
<1> QED
  BY <1>3, <1>8, <1>9, Zenon

\* push_back
LEMMA PushBackContents ==
    ASSUME TypeOK, Chains, NEW slot \in Slots, NEW d \in Devices,
           queueArray[d] = UNKNOWN_DEVICE,
           lists' = Assign(slot, PushBackList(ListAt(slot), d)),
           queueArray' = PushBackArray(ListAt(slot), d)
    PROVE  Contents' = [Contents EXCEPT ![slot] = Append(Contents[slot], d)]
<1> DEFINE l == ListAt(slot)
           n == l.eventListSize
           w == Contents[slot]
           k == PushBackList(l, d)
           u == Append(w, d)
<1>1. /\ n \in Nat
      /\ w \in [1 .. n -> Devices]
      /\ Follows(w, l, queueArray)
      /\ slot \in DOMAIN lists <=> n # 0
      /\ n # 0 => w[n] = l.second
      /\ \A i \in 1 .. n : w[i] \in Queued
      /\ \A i, j \in 1 .. n : w[i] = w[j] => i = j
  BY ContentsAt, Zenon
<1>2. d \notin Queued
  BY Zenon DEF Queued
<1>3. l.first # UNKNOWN_DEVICE <=> n # 0
  BY <1>1, EndsTogether, SMTT(30) DEF NewList
<1>4. ASSUME NEW e \in Queued, n # 0 => e # w[n]
      PROVE  queueArray'[e] = queueArray[e]
  BY <1>1, <1>2, <1>3, <1>4, Zenon DEF PushBackArray, Queued
<1>5. ASSUME NEW s \in Slots \ {slot}
      PROVE  Contents'[s] = Contents[s]
  <2>1. s \in DOMAIN lists' <=> s \in DOMAIN lists
    BY <1>5, Zenon DEF Assign
  <2>2. s \in DOMAIN lists => lists'[s] = lists[s]
    BY <1>5, Zenon DEF Assign
  <2>3. ASSUME NEW i \in 1 .. ListAt(s).eventListSize
        PROVE  queueArray'[Contents[s][i]] = queueArray[Contents[s][i]]
    <3>1. /\ Contents[s][i] \in Queued
          /\ \A t \in DOMAIN lists \ {s} : \A j \in 1 .. lists[t].eventListSize :
                Contents[s][i] # Contents[t][j]
      BY <2>3, <1>5, ContentsAt
    <3>2. n # 0 => Contents[s][i] # w[n]
      <4>1. SUFFICES ASSUME n # 0
                     PROVE  Contents[s][i] # w[n]
        BY Zenon
      <4>2. slot \in DOMAIN lists \ {s} /\ lists[slot].eventListSize = n
        BY <4>1, <1>1, <1>5, Zenon DEF ListAt
      <4>3. n \in 1 .. n
        BY <4>1, <1>1
      <4> QED
        BY <4>2, <4>3, <3>1, Zenon
    <3> QED
      BY <3>1, <3>2, <1>4, Zenon
  <2> QED
    BY <1>5, <2>1, <2>2, <2>3, OtherContents, Zenon
<1>6. w \in Seq(Devices) /\ Len(w) = n
  BY <1>1
<1>7. /\ u \in [1 .. n + 1 -> Devices] /\ u[n + 1] = d
      /\ \A i \in 1 .. n : u[i] = w[i]
  <2> HIDE DEF w, n
  <2>1. /\ u \in Seq(Devices) /\ Len(u) = n + 1
        /\ \A i \in 1 .. n : u[i] = w[i]
        /\ u[n + 1] = d
    BY <1>6, AppendProperties
  <2> HIDE DEF u
  <2>2. u \in [1 .. n + 1 -> Devices]
    BY <2>1, LenProperties, Zenon
  <2> QED
    BY <2>1, <2>2, Zenon
<1>8. k.eventListSize = n + 1 /\ k.first = u[1]
  <2>1. CASE n = 0
    BY <2>1, <1>3, <1>7, SMTT(30) DEF PushBackList
  <2>2. CASE n # 0
    <3>1. 1 \in 1 .. n /\ 0 < n
      BY <2>2, <1>1
    <3> QED
      BY <2>2, <3>1, <1>1, <1>3, <1>7, Zenon DEF PushBackList, Follows
  <2> QED
    BY <2>1, <2>2, Zenon
<1>9. ASSUME NEW i \in 2 .. n + 1
      PROVE  u[i] = queueArray'[u[i - 1]]
  <2>1. CASE i = n + 1
    <3>1. n # 0 /\ n \in 1 .. n /\ i - 1 = n
      BY <1>1, <1>9, <2>1, SMTT(30)
    <3>2. u[i - 1] = l.second /\ l.second \in Devices
      BY <3>1, <1>1, <1>7, Zenon
    <3>3. queueArray'[l.second] = d
      BY <3>1, <3>2, <1>3, Zenon DEF PushBackArray
    <3> QED
      BY <2>1, <3>2, <3>3, <1>7, Zenon
  <2>2. CASE i # n + 1
    <3>1. i \in 2 .. n /\ i \in 1 .. n /\ i - 1 \in 1 .. n /\ n \in 1 .. n /\ i - 1 # n
      BY <1>1, <1>9, <2>2, SMTT(30)
    <3>2. u[i] = w[i] /\ u[i - 1] = w[i - 1]
      BY <3>1, <1>7, Zenon
    <3>3. w[i] = queueArray[w[i - 1]]
      BY <3>1, <1>1, Zenon DEF Follows
    <3>4. w[i - 1] \in Queued /\ w[i - 1] # w[n]
      BY <3>1, <1>1, Zenon
    <3>5. queueArray'[w[i - 1]] = queueArray[w[i - 1]]
      BY <3>4, <1>4, Zenon
    <3> QED
      BY <3>2, <3>3, <3>5, Zenon
  <2> QED
    BY <2>1, <2>2, Zenon
<1>10. Contents'[slot] = u
  <2>1. slot \in DOMAIN lists' /\ lists'[slot] = k
    BY Zenon DEF Assign
  <2>2. Contents'[slot] = Walk(k, queueArray')
    BY <2>1, Zenon DEF Contents
  <2> HIDE DEF u, k, n
  <2>3. Follows(u, k, queueArray')
    BY <1>8, <1>9, Zenon DEF Follows
  <2>4. k.eventListSize \in Nat /\ u \in [1 .. k.eventListSize -> Devices]
    BY <1>1, <1>7, <1>8, SMTT(30)
  <2> QED
    BY <2>2, <2>3, <2>4, WalkIs, Zenon
<1>11. Contents' = [s \in Slots |-> Contents'[s]] /\ Contents = [s \in Slots |-> Contents[s]]
  BY Zenon DEF Contents
<1> QED
  BY <1>5, <1>10, <1>11, Zenon

\* pop_front, with the removal of a list that has become empty
LEMMA PopFrontContents ==
    ASSUME TypeOK, Chains, NEW slot \in DOMAIN lists, NEW d,
           d = lists[slot].first,
           queueArray' = [queueArray EXCEPT ![d] = UNKNOWN_DEVICE],
           lists' = IF PopFrontList(lists[slot]).first = UNKNOWN_DEVICE
                      THEN Erase(slot) ELSE Assign(slot, PopFrontList(lists[slot]))
    PROVE  /\ Contents' = [Contents EXCEPT ![slot] = Tail(Contents[slot])]
           /\ Contents[slot] # <<>> /\ Contents[slot][1] = d
<1> DEFINE l == lists[slot]
           n == l.eventListSize
           w == Contents[slot]
           u == Tail(w)
           rest == PopFrontList(l)
<1>0. slot \in Slots /\ ListAt(slot) = l
  BY Zenon DEF TypeOK, ListAt
<1>1. /\ n \in Nat \ {0}
      /\ w \in [1 .. n -> Devices]
      /\ Follows(w, l, queueArray)
      /\ w[n] = l.second
      /\ \A i \in 1 .. n : w[i] \in Queued
      /\ \A i, j \in 1 .. n : w[i] = w[j] => i = j
  BY <1>0, ContentsAt
<1>2. w[1] = d /\ d \in Queued /\ 1 \in 1 .. n
  BY <1>1 DEF Follows
<1>3. ASSUME NEW e \in Devices, e # d
      PROVE  queueArray'[e] = queueArray[e]
  BY <1>3, Zenon DEF TypeOK
<1>4. w \in Seq(Devices) /\ Len(w) = n /\ w # <<>>
  BY <1>1
<1>5. /\ u \in [1 .. n - 1 -> Devices] /\ \A i \in 1 .. n - 1 : u[i] = w[i + 1]
      /\ n = 1 => u = <<>>
  <2> HIDE DEF w, n
  <2>1. u \in Seq(Devices) /\ Len(u) = n - 1 /\ \A i \in 1 .. Len(u) : u[i] = w[i + 1]
    BY <1>4, HeadTailProperties, Zenon
  <2> HIDE DEF u
  <2>2. u \in [1 .. n - 1 -> Devices]
    BY <2>1, LenProperties, Zenon
  <2> QED
    BY <2>1, <2>2
<1>6. ASSUME NEW s \in Slots \ {slot}
      PROVE  Contents'[s] = Contents[s]
  <2>1. s \in DOMAIN lists' <=> s \in DOMAIN lists
    BY <1>6, Zenon DEF Assign, Erase
  <2>2. s \in DOMAIN lists => lists'[s] = lists[s]
    BY <1>6, Zenon DEF Assign, Erase
  <2>3. ASSUME NEW i \in 1 .. ListAt(s).eventListSize
        PROVE  queueArray'[Contents[s][i]] = queueArray[Contents[s][i]]
    <3>1. /\ Contents[s][i] \in Queued
          /\ \A j \in 1 .. n : Contents[s][i] # w[j]
      BY <2>3, <1>6, ContentsAt
    <3> QED
      BY <3>1, <1>2, <1>3, Zenon DEF Queued
  <2> QED
    BY <1>6, <2>1, <2>2, <2>3, OtherContents, Zenon
<1>7. CASE queueArray[d] = d
  <2>1. n = 1
    <3>1. SUFFICES ASSUME n # 1
                   PROVE  FALSE
      BY Zenon
    <3>2. 2 \in 2 .. n /\ 2 \in 1 .. n /\ 2 - 1 = 1
      BY <3>1, <1>1, SMTT(30)
    <3>3. w[2] = queueArray[w[1]]
      BY <3>2, <1>1, Zenon DEF Follows
    <3> QED
      BY <3>2, <3>3, <1>1, <1>2, <1>7, SMTT(30)
  <2>2. rest.first = UNKNOWN_DEVICE
    BY <1>7, Zenon DEF PopFrontList, NewList
  <2>3. slot \notin DOMAIN lists'
    BY <2>2, Zenon DEF Erase
  <2>4. Contents'[slot] = <<>>
    BY <2>3, <1>0, Zenon DEF Contents
  <2> QED
    BY <2>1, <2>4, <1>0, <1>2, <1>4, <1>5, <1>6, ZenonT(40) DEF Contents
<1>8. CASE queueArray[d] # d
  <2>1. n # 1
    <3>1. PICK owner \in [Devices -> Slots], rank \in [Devices -> Int] : Chained(owner, rank)
      BY Zenon DEF Chains
    <3>2. owner[d] = slot /\ rank[d] = rank[l.first] /\ queueArray[d] \in Queued
      BY <1>2, <3>1, Zenon DEF Chained
    <3>3. rank[queueArray[d]] = rank[d] + 1 /\ rank[queueArray[d]] <= rank[l.second]
      BY <1>2, <1>8, <3>1, <3>2 DEF Chained
    <3>4. SUFFICES ASSUME n = 1
                   PROVE  FALSE
      BY Zenon
    <3>5. l.second = d
      BY <3>4, <1>1, <1>2, Zenon
    <3>6. rank[d] \in Int
      BY <1>2, <3>1, Zenon DEF Queued
    <3> QED
      BY <3>3, <3>5, <3>6
  <2>2. rest = [l EXCEPT !.first = queueArray[d], !.eventListSize = n - 1]
    BY <1>8, Zenon DEF PopFrontList
  <2>3. rest.first = queueArray[d] /\ rest.eventListSize = n - 1
    <3>1. l \in EventList
      BY Zenon DEF TypeOK
    <3> HIDE DEF l, n, rest
    <3> QED
      BY <2>2, <3>1, Zenon DEF EventList
  <2>4. 2 \in 2 .. n /\ 2 - 1 = 1 /\ 2 \in 1 .. n /\ 1 \in 1 .. n - 1 /\ 1 + 1 = 2 /\ n - 1 \in Nat
    BY <2>1, <1>1, SMTT(30)
  <2>5. w[2] = queueArray[d] /\ u[1] = w[2] /\ w[2] \in Devices
    <3>1. w[2] = queueArray[w[2 - 1]]
      BY <2>4, <1>1, Zenon DEF Follows
    <3> QED
      BY <3>1, <2>4, <1>1, <1>2, <1>5, Zenon
  <2>6. slot \in DOMAIN lists' /\ lists'[slot] = rest
    BY <2>3, <2>5, DevicesAssumption, Zenon DEF Assign
  <2>7. Contents'[slot] = Walk(rest, queueArray')
    BY <2>6, <1>0, Zenon DEF Contents
  <2>8. ASSUME NEW i \in 2 .. n - 1
        PROVE  u[i] = queueArray'[u[i - 1]]
    <3>1. /\ i \in 1 .. n - 1 /\ i - 1 \in 1 .. n - 1 /\ (i - 1) + 1 = i
          /\ i \in 1 .. n /\ i # 1 /\ i + 1 \in 2 .. n /\ (i + 1) - 1 = i
      BY <1>1, <2>8
    <3>2. u[i] = w[i + 1] /\ u[i - 1] = w[i]
      <4> HIDE DEF u, w, n
      <4> QED
        BY <3>1, <1>5, Zenon
    <3>3. w[i + 1] = queueArray[w[i]]
      <4>1. w[i + 1] = queueArray[w[(i + 1) - 1]]
        BY <3>1, <1>1, Zenon DEF Follows
      <4> HIDE DEF w, n
      <4> QED
        BY <3>1, <4>1, Zenon
    <3>4. w[i] # d /\ w[i] \in Devices
      BY <3>1, <1>1, <1>2, Zenon
    <3> QED
      BY <3>2, <3>3, <3>4, <1>3, Zenon
  <2> HIDE DEF u, rest, n
  <2>9. Follows(u, rest, queueArray')
    BY <2>3, <2>5, <2>8, Zenon DEF Follows
  <2>10. Contents'[slot] = u
    BY <2>3, <2>4, <2>7, <2>9, <1>5, WalkIs, SMTT(30)
  <2> QED
    BY <2>10, <1>0, <1>2, <1>4, <1>6, ZenonT(40) DEF Contents, u
<1> QED
  BY <1>7, <1>8, Zenon

-----------------------------------------------------------------------------
(* The steps.                                                              *)

\* AddEvent of a device that is in no list is AddFront or AddBack.
LEMMA AddEventImplements ==
    ASSUME TypeOK, Chains, NEW key \in Keys, NEW d \in Devices, NEW position \in Positions,
           queueArray[d] = UNKNOWN_DEVICE, AddEvent(key, d, position), current' = current
    PROVE  Abstract!AbsNext
<1> DEFINE slot == SlotOf(key, position)
           l == ListAt(slot)
<1>1. slot \in Slots
  BY KeysAssumption, Zenon DEF SlotOf, PartOf, Sign, Slots
<1>2. (l.first = UNKNOWN_DEVICE) = (l.second = UNKNOWN_DEVICE)
  BY EndsTogether, Zenon
<1>3. AddSucceeds(key, d, position) /\ UNCHANGED queueType
  BY <1>2, Zenon DEF AddEvent, AddFails
<1>4. d \notin Abstract!Waiting
  BY NotWaiting, Zenon DEF Queued
<1>5. CASE IsFront(position)
  <2>1. /\ lists' = Assign(slot, PushFrontList(l, d))
        /\ queueArray' = PushFrontArray(l, d)
    BY <1>3, <1>5, Zenon DEF AddSucceeds
  <2>2. Contents' = [Contents EXCEPT ![slot] = <<d>> \o Contents[slot]]
    BY <2>1, <1>1, PushFrontContents, Zenon
  <2>3. Abstract!AddFront(slot, d)
    BY <2>2, <1>3, <1>4, Zenon DEF Abstract!AddFront
  <2> QED
    BY <2>3, <1>1, Zenon DEF Abstract!AbsNext, Abstract!AbsSlots, Slots
<1>6. CASE ~IsFront(position)
  <2>1. /\ lists' = Assign(slot, PushBackList(l, d))
        /\ queueArray' = PushBackArray(l, d)
    BY <1>3, <1>6, Zenon DEF AddSucceeds
  <2>2. Contents' = [Contents EXCEPT ![slot] = Append(Contents[slot], d)]
    BY <2>1, <1>1, PushBackContents, Zenon
  <2>3. Abstract!AddBack(slot, d)
    BY <2>2, <1>3, <1>4, Zenon DEF Abstract!AddBack
  <2> QED
    BY <2>3, <1>1, Zenon DEF Abstract!AbsNext, Abstract!AbsSlots, Slots
<1> QED
  BY <1>5, <1>6, Zenon

\* A finite set of integers that is not empty has a least one.
LEMMA LeastOfFinite ==
    ASSUME NEW S, S \subseteq Int, IsFiniteSet(S), S # {}
    PROVE  \E k \in S : \A j \in S : k <= j
<1> DEFINE upTo(k) == {j \in S : j <= k}
           sizes == {n \in Nat : \E k \in S : n = Cardinality(upTo(k))}
<1>1. ASSUME NEW k \in S
      PROVE  IsFiniteSet(upTo(k)) /\ Cardinality(upTo(k)) \in Nat
  <2>1. upTo(k) \in SUBSET S
    BY Zenon
  <2> HIDE DEF upTo
  <2> QED
    BY <2>1, FS_Subset, FS_CardinalityType, Zenon
<1>2. PICK n \in sizes : \A m \in sizes : n <= m
  <2>1. sizes \subseteq Nat /\ sizes # {}
    BY <1>1, Zenon
  <2> HIDE DEF sizes
  <2> QED
    BY <2>1, LeastNumber, Zenon
<1>3. PICK k \in S : n = Cardinality(upTo(k))
  BY <1>2, Zenon
<1>4. ASSUME NEW j \in S
      PROVE  k <= j
  <2>1. SUFFICES ASSUME j < k
                 PROVE  FALSE
    BY <1>3, <1>4
  <2>2. upTo(j) \in SUBSET upTo(k) /\ k \in upTo(k) /\ k \notin upTo(j)
    <3>1. k \in Int /\ j \in Int
      BY <1>3, <1>4, Zenon
    <3>2. \A i \in S : i <= j => i <= k
      BY <3>1, <2>1
    <3>3. k <= k /\ ~ (k <= j)
      BY <3>1, <2>1
    <3> QED
      BY <1>3, <3>2, <3>3, Zenon
  <2>3. n <= Cardinality(upTo(j))
    BY <1>1, <1>2, <1>4, Zenon
  <2> HIDE DEF upTo, sizes
  <2>4. /\ Cardinality(upTo(j)) <= Cardinality(upTo(k))
        /\ Cardinality(upTo(k)) = Cardinality(upTo(j)) => upTo(k) = upTo(j)
    BY <1>1, <2>2, FS_Subset, Zenon
  <2> QED
    BY <1>1, <1>3, <1>4, <2>2, <2>3, <2>4, SMTT(30)
<1> QED
  BY <1>3, <1>4, Zenon

\* begin() of a map that is not empty is an entry: there are no more lists than
\* devices.
LEMMA SomeBegin ==
    ASSUME TypeOK, Chains, NEW part, ~Empty(part)
    PROVE  \E key \in Keys : Begin(part, key)
<1> DEFINE used == {k \in Keys : <<part, k>> \in DOMAIN lists}
           head == [k \in used |-> lists[<<part, k>>].first]
<1>1. PICK owner \in [Devices -> Slots], rank \in [Devices -> Int] : Chained(owner, rank)
  BY Zenon DEF Chains
<1>2. ASSUME NEW k \in used
      PROVE  head[k] \in Devices /\ owner[head[k]] = <<part, k>>
  BY <1>1, <1>2, Zenon DEF Chained, Queued
<1>3. IsFiniteSet(used)
  <2>1. head \in [used -> Devices]
    BY <1>2, Zenon
  <2>2. ASSUME NEW k \in used, NEW j \in used, head[k] = head[j]
        PROVE  k = j
    BY <1>2, <2>2
  <2>3. head \in Injection(used, Devices)
    BY <2>1, <2>2, Zenon DEF Injection, IsInjective
  <2> HIDE DEF used, head
  <2> QED
    BY <2>3, DevicesAssumption, FS_Injection, Zenon
<1>4. used \subseteq Int /\ used # {}
  BY KeysAssumption, Zenon DEF Empty
<1>5. PICK key \in used : \A j \in used : key <= j
  <2> HIDE DEF used
  <2> QED
    BY <1>3, <1>4, LeastOfFinite, Zenon
<1> QED
  BY <1>5, Zenon DEF Begin

\* No list with a device comes before the one GetEvent chooses.
LEMMA ChoiceIsFirst ==
    ASSUME TypeOK, Chains, NEW part, NEW key \in Keys, NEW t \in DOMAIN lists,
           part = IF IsNextMainQueue THEN "main" ELSE "delay",
           Begin(part, key)
    PROVE  Abstract!Precedes(<<part, key>>, t)
<1>1. PICK p \in {"main", "delay"}, k \in Keys : t = <<p, k>>
  BY DEF Slots, TypeOK
<1>2. t[1] = p /\ t[2] = k /\ <<part, key>>[1] = part /\ <<part, key>>[2] = key
  BY <1>1, Zenon
<1>3. k \in Int /\ key \in Int /\ Keys \subseteq Int
  BY KeysAssumption, Zenon
<1>4. CASE p = part
  <2>1. key <= k
    BY <1>1, <1>4, Zenon DEF Begin
  <2> QED
    BY <2>1, <1>2, <1>3, <1>4, SMTT(30) DEF Abstract!Precedes
<1>5. CASE part = "main" /\ p = "delay"
  <2>1. CASE queueType = "SIM"
    BY <2>1, <1>2, <1>5, Zenon DEF Abstract!Precedes
  <2>2. CASE queueType # "SIM"
    <3>1. IsNextMainQueue /\ ~Empty("delay")
      BY <1>1, <1>5, Zenon DEF Empty
    <3>2. PICK m, j \in Keys : Begin("main", m) /\ Begin("delay", j) /\ m <= j
      BY <3>1, <2>2, Zenon DEF IsNextMainQueue
    <3>3. key <= m /\ j <= k
      BY <3>2, <1>1, <1>5, Zenon DEF Begin
    <3>4. key <= k
      BY <3>2, <3>3, <1>3
    <3> QED
      BY <3>4, <2>2, <1>2, <1>3, <1>5, SMTT(30) DEF Abstract!Precedes
  <2> QED
    BY <2>1, <2>2, Zenon
<1>6. CASE part = "delay" /\ p = "main"
  <2>1. ~IsNextMainQueue /\ ~Empty("main") /\ ~Empty("delay")
    BY <1>1, <1>6, Zenon DEF Empty, Begin
  <2>2. queueType # "SIM" /\ ~ \E m, j \in Keys : Begin("main", m) /\ Begin("delay", j) /\ m <= j
    BY <2>1, Zenon DEF IsNextMainQueue
  <2>3. key < k
    <3>1. PICK m \in Keys : Begin("main", m)
      BY <2>1, SomeBegin, Zenon
    <3>2. m <= k
      BY <3>1, <1>1, <1>6, Zenon DEF Begin
    <3>3. ~ (m <= key)
      BY <3>1, <2>2, <1>6, Zenon
    <3> QED
      BY <3>1, <3>2, <3>3, <1>3, SMTT(30)
  <2> QED
    BY <2>2, <2>3, <1>2, <1>3, <1>6, SMTT(30) DEF Abstract!Precedes
<1> QED
  BY <1>1, <1>4, <1>5, <1>6, Zenon

\* TakeEvent is Take.
LEMMA TakeEventImplements ==
    ASSUME TypeOK, Chains, Queued # {}, GetEvent
    PROVE  Abstract!AbsNext
<1> DEFINE part == IF IsNextMainQueue THEN "main" ELSE "delay"
<1>1. PICK owner \in [Devices -> Slots], rank \in [Devices -> Int] : Chained(owner, rank)
  BY Zenon DEF Chains
<1>2. ~Empty(part)
  <2>1. \E s \in Slots : s \in DOMAIN lists
    BY <1>1, Zenon DEF Chained, TypeOK
  <2>2. ~Empty("main") \/ ~Empty("delay")
    BY <2>1 DEF Empty, Slots
  <2> QED
    BY <2>2, Zenon DEF IsNextMainQueue
<1>3. (PopBegin(part) \/ PopFails(part)) /\ UNCHANGED queueType
  BY Zenon DEF GetEvent
<1>4. part \in {"main", "delay"}
  BY Zenon
<1>5. ~PopFails(part)
  <2>1. SUFFICES ASSUME PopFails(part)
                 PROVE  FALSE
    BY Zenon
  <2> HIDE DEF part
  <2>2. PICK key \in Keys : Begin(part, key) /\ lists[<<part, key>>].first = UNKNOWN_DEVICE
    BY <1>2, <2>1, Zenon DEF PopFails
  <2>3. lists[<<part, key>>].first \in Devices
    BY <1>1, <2>2, Zenon DEF Begin, Chained, Queued
  <2> QED
    BY <2>2, <2>3, DevicesAssumption, Zenon
<1>6. PICK key \in Keys :
        /\ Begin(part, key) /\ <<part, key>> \in DOMAIN lists
        /\ current' = lists[<<part, key>>].first
        /\ queueArray' = [queueArray EXCEPT ![current'] = UNKNOWN_DEVICE]
        /\ lists' = IF PopFrontList(lists[<<part, key>>]).first = UNKNOWN_DEVICE
                      THEN Erase(<<part, key>>)
                      ELSE Assign(<<part, key>>, PopFrontList(lists[<<part, key>>]))
  <2> HIDE DEF part
  <2> QED
    BY <1>3, <1>5, Zenon DEF PopBegin, Begin
<1> DEFINE slot == <<part, key>>
<1>7. /\ Contents' = [Contents EXCEPT ![slot] = Tail(Contents[slot])]
      /\ Contents[slot] # <<>> /\ Contents[slot][1] = current'
  <2> HIDE DEF part
  <2> QED
    BY <1>6, PopFrontContents, Zenon
<1>8. ASSUME NEW t \in Slots, Contents[t] # <<>>
      PROVE  Abstract!Precedes(slot, t)
  <2>1. t \in DOMAIN lists
    BY <1>8, Zenon DEF Contents
  <2> QED
    BY <2>1, <1>6, ChoiceIsFirst, Zenon
<1>9. slot \in Slots
  BY <1>4, Zenon DEF Slots
<1> HIDE DEF slot, part
<1>10. Abstract!Take(slot)
  BY <1>3, <1>7, <1>8, Zenon DEF Abstract!Take, Abstract!AbsSlots, Slots
<1> QED
  BY <1>9, <1>10, Zenon DEF Abstract!AbsNext, Abstract!AbsSlots, Slots

\* The steps that leave the lists and the current device alone are stutters.
LEMMA OtherImplements ==
    ASSUME UNCHANGED <<queueType, queueArray, lists, current>>
    PROVE  UNCHANGED Abstract!absVars
  BY Zenon DEF Abstract!absVars, Contents

LEMMA InitImplements == Init => Abstract!AbsInit
<1> SUFFICES ASSUME Init
             PROVE  Abstract!AbsInit
  BY Zenon
<1>1. Contents = [s \in Slots |-> <<>>]
  BY Zenon DEF Init, Contents
<1> QED
  BY <1>1, Zenon DEF Init, Abstract!AbsInit, Abstract!AbsSlots, Slots

LEMMA NextImplements == IInv /\ [Next]_vars => [Abstract!AbsNext]_(Abstract!absVars)
<1> SUFFICES ASSUME IInv, [Next]_vars
             PROVE  Abstract!AbsNext \/ UNCHANGED Abstract!absVars
  BY Zenon
<1>1. CASE ResetQueue
  <2>1. DOMAIN lists = {} /\ lists' = lists
    BY <1>1, Zenon DEF ResetQueue, At, IInv, EmptyWhenIdle
  <2>2. Contents' = Contents
    BY <2>1, Zenon DEF Contents
  <2> QED
    BY <1>1, <2>2, Zenon DEF ResetQueue, Abstract!absVars
<1>2. ASSUME NEW d \in Devices, IgnoreDevice(d) \/ SkipIrrelevant(d)
      PROVE  UNCHANGED Abstract!absVars
  BY <1>2, OtherImplements, Zenon DEF IgnoreDevice, SkipIrrelevant, queueVars
<1>3. ASSUME NEW d \in Devices, NEW key \in Keys, NEW position \in Positions,
             Enqueue(d, key, position)
      PROVE  Abstract!AbsNext
  <2>1. d \notin Queued
    BY <1>3, Zenon DEF Enqueue, IInv, PendingIsQueued
  <2>2. queueArray[d] = UNKNOWN_DEVICE
    BY <2>1, Zenon DEF Queued
  <2> QED
    BY <1>3, <2>2, AddEventImplements, Zenon DEF Enqueue, IInv
<1>4. ASSUME NEW key \in Keys, NEW position \in Positions, Requeue(key, position)
      PROVE  Abstract!AbsNext
  <2>1. current \in Devices /\ queueArray[current] = UNKNOWN_DEVICE
    BY <1>4, Zenon DEF Requeue, At, IInv, CurrentIsOut, HandledIsOut, Queued
  <2> QED
    BY <1>4, <2>1, AddEventImplements, Zenon DEF Requeue, IInv
<1>5. CASE TakeEvent
  <2>1. Queued # {}
    <3>1. SUFFICES ASSUME Queued = {}
                   PROVE  FALSE
      BY Zenon
    <3>2. QueueSize = 0
      BY <3>1, FS_EmptySet, Zenon DEF IInv, SizeAgrees
    <3> QED
      BY <1>5, <3>2 DEF TakeEvent
  <2> QED
    BY <1>5, <2>1, TakeEventImplements, Zenon DEF TakeEvent, IInv
<1>6. CASE StartQueue \/ LeaveEvent \/ DropEvent \/ ShortNets \/ EndSpread
  BY <1>6, OtherImplements, Zenon DEF StartQueue, LeaveEvent, DropEvent, ShortNets, EndSpread, queueVars
<1>7. CASE BeginConflict \/ EndConflict \/ Drained
  BY <1>7, OtherImplements, Zenon DEF BeginConflict, EndConflict, Drained, queueVars
<1>8. CASE UNCHANGED vars
  BY <1>8, OtherImplements, Zenon DEF vars
<1> QED
  BY <1>1, <1>2, <1>3, <1>4, <1>5, <1>6, <1>7, <1>8, SMTT(30) DEF Next

\* CEventQueue is the ordered queue that the propagation code takes it for:
\* whatever devices, keys and positions it is called with, each AddEvent puts
\* the device at the front or the back of the list of its key, each GetEvent
\* returns the head of the first list, and nothing else changes the order.
THEOREM QueuesImplementOrder == Spec => ImplementsQueue
  BY InitImplements, NextImplements, Invariance, PTL
     DEF Spec, ImplementsQueue, Abstract!AbsSpec
=============================================================================
