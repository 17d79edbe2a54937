-------------------------- MODULE ModelListsProofs --------------------------
(***************************************************************************)
(* For every number of devices and every set of models: while the status   *)
(* of the model file is OK, no device has a model of an earlier map; and   *)
(* the walk along the devices of a model sees each of them once and ends.  *)
(*                                                                         *)
(* ModelsAreCurrent is inductive as it stands, because SetDeviceModels,    *)
(* the only writer of the status OK at the prompt, writes the model of     *)
(* every device; the proof is that each path on which the map is cleared   *)
(* without it also leaves the stage or the status.                         *)
(*                                                                         *)
(* ListsExact needs to know how the lists are ordered: a device is         *)
(* followed by the last device of its model before it.  SetDeviceModels    *)
(* does not write the next device of the first one of a list, so the order *)
(* also depends on the map that the devices were linked for before, and    *)
(* the invariant keeps that map: it is the same one, or the devices are    *)
(* new.                                                                    *)
(***************************************************************************)
EXTENDS ModelLists, NaturalsInduction, WellFoundedInduction, FiniteSetTheorems, TLAPS

\* SetDeviceModels leaves every device with a model of the map it is given.
LEMMA SetDeviceModelsStep ==
    ASSUME NEW first, NEW file, NEW status, SetDeviceModels(first, file, status), match' = file
    PROVE  ModelsAreCurrent'
  BY Zenon DEF SetDeviceModels, ModelsAreCurrent

LEMMA InitCurrent == Init => ModelsAreCurrent
  BY Zenon DEF Init, ModelsAreCurrent

LEMMA NextCurrent == ModelsAreCurrent /\ [Next]_vars => ModelsAreCurrent'
<1> SUFFICES ASSUME ModelsAreCurrent, [Next]_vars
             PROVE  ModelsAreCurrent'
  BY Zenon
<1>1. ASSUME NEW file \in Matches, NEW status \in Status, NEW powerOk \in BOOLEAN,
             LoadModels(file, status, powerOk)
      PROVE  ModelsAreCurrent'
  BY <1>1, Zenon DEF LoadModels, ModelsAreCurrent
<1>2. CASE ReuseDatabase
  BY <1>2, Zenon DEF ReuseDatabase, ModelsAreCurrent
<1>3. CASE ReadDatabase
  BY <1>3, Zenon DEF ReadDatabase, ModelsAreCurrent
<1>4. ASSUME NEW status \in Status, SetModels(status)
      PROVE  ModelsAreCurrent'
  <2>1. CASE modelFileStatus = "OK"
    BY <1>4, <2>1, SetDeviceModelsStep, Zenon DEF SetModels
  <2>2. CASE modelFileStatus # "OK"
    BY <1>4, <2>2, Zenon DEF SetModels, ModelsAreCurrent
  <2> QED
    BY <2>1, <2>2, Zenon
<1>5. ASSUME NEW status \in Status, SetPowerCommand(status)
      PROVE  ModelsAreCurrent'
  BY <1>5, SetDeviceModelsStep, Zenon DEF SetPowerCommand
<1>6. ASSUME NEW file \in Matches, NEW read \in Status, NEW status \in Status,
             SetModelCommand(file, read, status)
      PROVE  ModelsAreCurrent'
  <2>1. CASE read = "OK"
    BY <1>6, <2>1, SetDeviceModelsStep, Zenon DEF SetModelCommand
  <2>2. CASE read # "OK"
    BY <1>6, <2>2, Zenon DEF SetModelCommand, ModelsAreCurrent
  <2> QED
    BY <2>1, <2>2, Zenon
<1>7. CASE Run
  BY <1>7, Zenon DEF Run, ModelsAreCurrent
<1>8. CASE NextMode
  BY <1>8, Zenon DEF NextMode, ModelsAreCurrent
<1>9. CASE UNCHANGED vars
  BY <1>9, Zenon DEF vars, ModelsAreCurrent
<1> QED
  BY <1>1, <1>2, <1>3, <1>4, <1>5, <1>6, <1>7, <1>8, <1>9, Zenon DEF Next

\* Commands that print devices, and the stages after the first, test only
\* modelFileStatus before they read the model of a device: whatever model files
\* were read, at the prompt or for a mode that reuses the database, none of
\* those models has been deleted.
THEOREM ModelsStayCurrent == Spec => []ModelsAreCurrent
  BY InitCurrent, NextCurrent, PTL DEF Spec

-----------------------------------------------------------------------------
(* Natural numbers and recursive functions.                                *)

\* A set of natural numbers that is not empty has a least one.
LEMMA LeastNumber ==
    ASSUME NEW S, S \subseteq Nat, S # {}
    PROVE  \E n \in S : \A m \in S : n <= m
<1>1. \E n \in S : \A m \in S : ~ (<<m, n>> \in OpToRel(<, Nat))
  BY NatLessThanWellFounded, WFMin, Zenon
<1>2. PICK n \in S : \A m \in S : ~ (m < n)
  BY <1>1, Zenon DEF OpToRel
<1> QED
  BY <1>2

\* Induction up to a bound.
LEMMA IntervalInduction ==
    ASSUME NEW n \in Nat, NEW S, 0 \in S,
           \A k \in 0 .. n : k \in S /\ k < n => k + 1 \in S
    PROVE  0 .. n \subseteq S
<1> DEFINE out == {k \in 0 .. n : k \notin S}
<1>1. SUFFICES ASSUME out # {}
               PROVE  FALSE
  BY Zenon
<1>2. PICK k \in out : \A j \in out : k <= j
  <2>1. out \subseteq Nat
    OBVIOUS
  <2> HIDE DEF out
  <2> QED
    BY <2>1, <1>1, LeastNumber, Zenon
<1>3. k # 0 /\ k - 1 \in 0 .. n /\ k - 1 < n
  BY <1>2
<1>4. k - 1 \in S
  BY <1>2, <1>3
<1>5. (k - 1) + 1 \in S
  BY <1>3, <1>4, Zenon
<1>6. (k - 1) + 1 = k
  BY <1>2
<1> QED
  BY <1>2, <1>5, <1>6, Zenon

\* f is the function that is a at 0 and g[k] of its previous value at k.
Recursive(f, n, A, a, g) ==
    /\ f \in [0 .. n -> A]
    /\ f[0] = a
    /\ \A k \in 1 .. n : f[k] = g[k][f[k - 1]]

\* A function can be defined by recursion up to a bound.
LEMMA RecursionUpTo ==
    ASSUME NEW n \in Nat, NEW A, NEW a \in A, NEW g \in [1 .. n -> [A -> A]]
    PROVE  \E f : Recursive(f, n, A, a, g)
<1> DEFINE Fits(m, f) == f[0] = a /\ \A k \in 1 .. m : f[k] = g[k][f[k - 1]]
           S == {m \in 0 .. n : \E f \in [0 .. m -> A] : Fits(m, f)}
<1>1. 0 \in S
  <2> DEFINE f == [k \in 0 .. 0 |-> a]
  <2>1. f \in [0 .. 0 -> A] /\ f[0] = a
    OBVIOUS
  <2>2. \A k \in 1 .. 0 : FALSE
    OBVIOUS
  <2> HIDE DEF f
  <2>3. Fits(0, f)
    BY <2>1, <2>2, Zenon
  <2> QED
    BY <2>1, <2>3
<1>2. ASSUME NEW m \in 0 .. n, m \in S, m < n
      PROVE  m + 1 \in S
  <2>1. PICK f \in [0 .. m -> A] : Fits(m, f)
    BY <1>2, Zenon
  <2> DEFINE h == [k \in 0 .. m + 1 |-> IF k <= m THEN f[k] ELSE g[m + 1][f[m]]]
  <2>2. m \in Nat /\ m + 1 \in 1 .. n /\ m + 1 \in 0 .. n /\ f[m] \in A
    BY <1>2
  <2>3. g[m + 1] \in [A -> A]
    BY <2>2, Zenon
  <2>4. g[m + 1][f[m]] \in A
    BY <2>2, <2>3, Zenon
  <2>5. h \in [0 .. m + 1 -> A]
    BY <2>4, <2>2
  <2>6. h[0] = a
    BY <2>1, <2>2
  <2>7. ASSUME NEW k \in 1 .. m + 1
        PROVE  h[k] = g[k][h[k - 1]]
    <3>1. h[k - 1] = f[k - 1]
      BY <2>2, <2>7
    <3>2. CASE k <= m
      <4>1. k \in 1 .. m /\ h[k] = f[k]
        BY <3>2, <2>2, <2>7
      <4> QED
        BY <4>1, <3>1, <2>1, Zenon
    <3>3. CASE ~ (k <= m)
      <4>1. k = m + 1 /\ k - 1 = m
        BY <3>3, <2>2, <2>7
      <4>2. h[k] = g[m + 1][f[m]]
        BY <3>3, <2>7
      <4> QED
        BY <4>1, <4>2, <3>1, Zenon
    <3> QED
      BY <3>2, <3>3, Zenon
  <2> HIDE DEF h
  <2>8. Fits(m + 1, h)
    BY <2>6, <2>7, Zenon
  <2> QED
    BY <2>2, <2>5, <2>8, Zenon
<1>3. 0 .. n \subseteq S
  <2> HIDE DEF S
  <2> QED
    BY <1>1, <1>2, IntervalInduction, Zenon
<1>4. n \in S
  BY <1>3
<1> QED
  BY <1>4, Zenon DEF Recursive

-----------------------------------------------------------------------------
(* The order of the lists.                                                 *)

Ends == Devices \cup {NULL}
Lists == [first : [Models -> Ends], next : [Devices -> Ends]]

\* e is the last device of the model m up to k, NULL if there is none.
IsLast(file, m, k, e) ==
    \/ e = NULL /\ \A d \in 1 .. k : file[d] # m
    \/ e \in 1 .. k /\ file[e] = m /\ \A d \in 1 .. k : file[d] = m => d <= e

\* The devices up to n are linked for the map file.
OrderedTo(next, file, n) ==
    \A d \in 1 .. n : file[d] # NULL => IsLast(file, file[d], d - 1, next[d])

Ordered(next, file) == OrderedTo(next, file, DeviceCount)

Listed(first, file) == \A m \in Models : IsLast(file, m, DeviceCount, first[m])

\* The device after the first one of a list is not written.
Ready(next, file) ==
    \A d \in Devices :
        file[d] # NULL /\ (\A e \in 1 .. d - 1 : file[e] # file[d]) => next[d] = NULL

LEMMA LinkDeviceType ==
    ASSUME NEW file \in Matches, NEW k \in Devices, NEW l \in Lists
    PROVE  LinkDevice(file, k, l) \in Lists
<1>1. CASE file[k] = NULL
  BY <1>1, Zenon DEF LinkDevice
<1>2. CASE file[k] # NULL
  <2>1. file[k] \in Models
    BY <1>2, Zenon DEF Matches
  <2>2. l.first \in [Models -> Ends] /\ l.next \in [Devices -> Ends] /\ k \in Ends
    BY Zenon DEF Lists, Ends
  <2>3. l.first[file[k]] \in Ends
    BY <2>1, <2>2, Zenon
  <2>4. [l.first EXCEPT ![file[k]] = k] \in [Models -> Ends]
    BY <2>1, <2>2, Zenon
  <2>5. [l.next EXCEPT ![k] = l.first[file[k]]] \in [Devices -> Ends]
    BY <2>2, <2>3, Zenon
  <2> QED
    BY <1>2, <2>2, <2>4, <2>5, Zenon DEF LinkDevice, Lists
<1> QED
  BY <1>1, <1>2, Zenon

\* The loops one device after the other.
Links(s, first, file) ==
    /\ s \in [0 .. DeviceCount -> Lists]
    /\ s[0] = [first |-> first, next |-> nextDevice_p]
    /\ \A k \in 1 .. DeviceCount : s[k] = LinkDevice(file, k, s[k - 1])

LEMMA LinkedSteps ==
    ASSUME NEW first \in [Models -> Ends], NEW file \in Matches,
           nextDevice_p \in [Devices -> Ends]
    PROVE  \E s : Links(s, first, file) /\ Linked(first, file) = s[DeviceCount]
<1> DEFINE link[k \in 0 .. DeviceCount] ==
             IF k = 0 THEN [first |-> first, next |-> nextDevice_p]
             ELSE LinkDevice(file, k, link[k - 1])
           body(f) == [k \in 0 .. DeviceCount |->
                          IF k = 0 THEN [first |-> first, next |-> nextDevice_p]
                          ELSE LinkDevice(file, k, f[k - 1])]
           a == [first |-> first, next |-> nextDevice_p]
           g == [k \in 1 .. DeviceCount |-> [l \in Lists |-> LinkDevice(file, k, l)]]
<1>1. Linked(first, file) = link[DeviceCount]
  BY Zenon DEF Linked
<1>2. link = CHOOSE f : f = body(f)
  BY Zenon
<1> HIDE DEF link
<1>3. g \in [1 .. DeviceCount -> [Lists -> Lists]]
  BY LinkDeviceType, Zenon DEF Devices
<1>4. a \in Lists
  BY Zenon DEF Lists
<1>5. PICK f : Recursive(f, DeviceCount, Lists, a, g)
  <2> HIDE DEF g, a
  <2> QED
    BY <1>3, <1>4, DeviceCountAssumption, RecursionUpTo, Zenon
<1>6. /\ f \in [0 .. DeviceCount -> Lists] /\ f[0] = a
      /\ \A k \in 1 .. DeviceCount : f[k] = g[k][f[k - 1]]
  BY <1>5, Zenon DEF Recursive
<1>7. ASSUME NEW k \in 1 .. DeviceCount
      PROVE  f[k] = LinkDevice(file, k, f[k - 1])
  <2>1. f[k - 1] \in Lists
    BY <1>6, DeviceCountAssumption
  <2>2. g[k][f[k - 1]] = LinkDevice(file, k, f[k - 1])
    BY <2>1, Zenon
  <2> QED
    BY <1>6, <2>2, Zenon
<1>8. ASSUME NEW k \in 0 .. DeviceCount
      PROVE  f[k] = body(f)[k]
  <2>1. CASE k = 0
    BY <2>1, <1>6, Zenon
  <2>2. CASE k # 0
    <3>1. k \in 1 .. DeviceCount
      BY <2>2, DeviceCountAssumption
    <3> QED
      BY <3>1, <2>2, <1>7, Zenon
  <2> QED
    BY <2>1, <2>2, Zenon
<1>9. f = body(f)
  BY <1>6, <1>8, Zenon
<1>10. link = body(link)
  <2> HIDE DEF body
  <2> QED
    BY <1>2, <1>9, Zenon
<1>11. /\ link[0] = a
       /\ \A k \in 1 .. DeviceCount : link[k] = LinkDevice(file, k, link[k - 1])
  <2>1. ASSUME NEW k \in 0 .. DeviceCount
        PROVE  link[k] = body(link)[k]
    BY <1>10, Zenon
  <2>2. 0 \in 0 .. DeviceCount
    BY DeviceCountAssumption
  <2>3. link[0] = a
    BY <2>1, <2>2, Zenon
  <2>4. ASSUME NEW k \in 1 .. DeviceCount
        PROVE  link[k] = LinkDevice(file, k, link[k - 1])
    <3>1. k \in 0 .. DeviceCount /\ k # 0
      BY DeviceCountAssumption
    <3>2. link[k] = body(link)[k]
      BY <3>1, <2>1, Zenon
    <3> QED
      BY <3>1, <3>2, Zenon
  <2> QED
    BY <2>3, <2>4, Zenon
<1>12. link \in [0 .. DeviceCount -> Lists]
  <2> DEFINE S == {k \in 0 .. DeviceCount : link[k] \in Lists}
  <2>1. 0 \in S
    BY <1>4, <1>11, DeviceCountAssumption
  <2>2. ASSUME NEW k \in 0 .. DeviceCount, k \in S, k < DeviceCount
        PROVE  k + 1 \in S
    <3>1. k + 1 \in 1 .. DeviceCount /\ k + 1 \in 0 .. DeviceCount /\ (k + 1) - 1 = k
      BY <2>2, DeviceCountAssumption
    <3>2. link[k + 1] = LinkDevice(file, k + 1, link[k])
      BY <3>1, <1>11, Zenon
    <3> QED
      BY <3>1, <3>2, <2>2, LinkDeviceType, Zenon DEF Devices
  <2>3. 0 .. DeviceCount \subseteq S
    <3> HIDE DEF S
    <3> QED
      BY <2>1, <2>2, DeviceCountAssumption, IntervalInduction, Zenon
  <2>4. link = [k \in 0 .. DeviceCount |-> link[k]]
    BY <1>10, Zenon
  <2> QED
    BY <2>3, <2>4, Zenon
<1> QED
  BY <1>1, <1>11, <1>12, Zenon DEF Links

LEMMA LinkedType ==
    ASSUME NEW first \in [Models -> Ends], NEW file \in Matches,
           nextDevice_p \in [Devices -> Ends]
    PROVE  Linked(first, file) \in Lists
<1>1. PICK s : Links(s, first, file) /\ Linked(first, file) = s[DeviceCount]
  BY LinkedSteps, Zenon
<1> QED
  BY <1>1, DeviceCountAssumption DEF Links

\* The lists after the first n devices.
Built(l, file, n) ==
    /\ \A m \in Models : IsLast(file, m, n, l.first[m])
    /\ OrderedTo(l.next, file, n)
    /\ \A d \in Devices : d > n => l.next[d] = nextDevice_p[d]

LEMMA LinkDeviceBuilds ==
    ASSUME NEW file \in Matches, Ready(nextDevice_p, file),
           NEW n \in Nat, n + 1 \in Devices, NEW l \in Lists, Built(l, file, n)
    PROVE  Built(LinkDevice(file, n + 1, l), file, n + 1)
<1> DEFINE k == n + 1
           w == LinkDevice(file, k, l)
<1>1. /\ l.first \in [Models -> Ends] /\ l.next \in [Devices -> Ends]
      /\ k \in Nat /\ k - 1 = n /\ DeviceCount \in Nat /\ NULL \notin Nat /\ k \in Devices
      /\ \A d \in 1 .. k : d \in 1 .. n \/ d = k
      /\ \A d \in 1 .. n : d \in 1 .. k /\ d < k /\ d # k /\ d \in Nat
  BY DeviceCountAssumption DEF Lists, Devices
<1>2. CASE file[k] = NULL
  <2>1. w = l
    BY <1>2, Zenon DEF LinkDevice
  <2>2. ASSUME NEW m \in Models
        PROVE  IsLast(file, m, k, l.first[m])
    <3>1. file[k] # m
      BY <1>2, ModelsAssumption, Zenon
    <3> QED
      BY <3>1, <1>1, Zenon DEF Built, IsLast
  <2>3. OrderedTo(l.next, file, k)
    BY <1>1, <1>2, Zenon DEF Built, OrderedTo
  <2>4. \A d \in Devices : d > k => l.next[d] = nextDevice_p[d]
    BY <1>1 DEF Built, Devices
  <2> QED
    BY <2>1, <2>2, <2>3, <2>4, Zenon DEF Built
<1>3. CASE file[k] # NULL
  <2> DEFINE mk == file[k]
             old == l.first[mk]
  <2>1. mk \in Models
    BY <1>1, <1>3, Zenon DEF Matches
  <2>2. /\ w.first = [l.first EXCEPT ![mk] = k]
        /\ w.next = IF old = NULL THEN l.next ELSE [l.next EXCEPT ![k] = old]
    BY <1>3, Zenon DEF LinkDevice
  <2>3. IsLast(file, mk, n, old)
    BY <2>1, Zenon DEF Built
  <2>4. w.next[k] = old /\ \A d \in Devices : d # k => w.next[d] = l.next[d]
    <3>1. CASE old = NULL
      <4>1. \A e \in 1 .. k - 1 : file[e] # mk
        BY <3>1, <2>3, <1>1, Zenon DEF IsLast
      <4>2. nextDevice_p[k] = NULL
        BY <4>1, <1>1, <1>3, Zenon DEF Ready
      <4>3. l.next[k] = nextDevice_p[k]
        BY <1>1 DEF Built
      <4> QED
        BY <3>1, <4>2, <4>3, <2>2, Zenon
    <3>2. CASE old # NULL
      BY <3>2, <2>2, <1>1, Zenon
    <3> QED
      BY <3>1, <3>2, Zenon
  <2> HIDE DEF w
  <2>5. ASSUME NEW m \in Models
        PROVE  IsLast(file, m, k, w.first[m])
    <3>1. CASE m = mk
      <4>1. w.first[m] = k
        BY <3>1, <2>1, <2>2, <1>1, Zenon
      <4> QED
        BY <3>1, <4>1, <1>1 DEF IsLast
    <3>2. CASE m # mk
      <4>1. w.first[m] = l.first[m] /\ IsLast(file, m, n, l.first[m])
        BY <3>2, <2>1, <2>2, <1>1, Zenon DEF Built
      <4> QED
        BY <3>2, <4>1, <1>1, Zenon DEF IsLast
    <3> QED
      BY <3>1, <3>2, Zenon
  <2>6. ASSUME NEW d \in 1 .. k, file[d] # NULL
        PROVE  IsLast(file, file[d], d - 1, w.next[d])
    <3>1. CASE d = k
      BY <3>1, <2>3, <2>4, <1>1, Zenon
    <3>2. CASE d # k
      <4>1. d \in 1 .. n /\ d \in Devices
        BY <3>2, <1>1 DEF Devices
      <4>2. w.next[d] = l.next[d]
        BY <3>2, <4>1, <2>4, Zenon
      <4> QED
        BY <4>1, <4>2, <2>6, Zenon DEF Built, OrderedTo
    <3> QED
      BY <3>1, <3>2, Zenon
  <2>7. \A d \in Devices : d > k => w.next[d] = nextDevice_p[d]
    BY <2>4, <1>1 DEF Built, Devices
  <2>8. Built(w, file, k)
    BY <2>5, <2>6, <2>7, Zenon DEF Built, OrderedTo
  <2> QED
    BY <2>8, Zenon DEF w
<1> QED
  BY <1>2, <1>3, Zenon

\* SetDeviceModels links the devices for the map it is given, if they are new or
\* were linked for that map.
LEMMA LinkedOrders ==
    ASSUME NEW file \in Matches, nextDevice_p \in [Devices -> Ends], Ready(nextDevice_p, file),
           NEW l, l = Linked(NoDevice, file)
    PROVE  l.next \in [Devices -> Ends] /\ Listed(l.first, file) /\ Ordered(l.next, file)
<1>1. PICK s : Links(s, NoDevice, file) /\ l = s[DeviceCount]
  <2>1. NoDevice \in [Models -> Ends]
    BY Zenon DEF NoDevice, Ends
  <2> QED
    BY <2>1, LinkedSteps, Zenon
<1> DEFINE S == {k \in 0 .. DeviceCount : Built(s[k], file, k)}
<1>2. /\ s \in [0 .. DeviceCount -> Lists]
      /\ s[0] = [first |-> NoDevice, next |-> nextDevice_p]
      /\ \A k \in 1 .. DeviceCount : s[k] = LinkDevice(file, k, s[k - 1])
  BY <1>1, Zenon DEF Links
<1>3. 0 \in S
  <2>1. s[0].first = NoDevice /\ s[0].next = nextDevice_p
    BY <1>2
  <2>2. \A m \in Models : IsLast(file, m, 0, NoDevice[m])
    BY DEF IsLast, NoDevice
  <2>3. OrderedTo(nextDevice_p, file, 0)
    BY DEF OrderedTo
  <2> QED
    BY <2>1, <2>2, <2>3, DeviceCountAssumption DEF Built
<1>4. ASSUME NEW k \in 0 .. DeviceCount, k \in S, k < DeviceCount
      PROVE  k + 1 \in S
  <2>1. /\ k \in Nat /\ k + 1 \in Devices /\ k + 1 \in 1 .. DeviceCount
        /\ k + 1 \in 0 .. DeviceCount /\ (k + 1) - 1 = k
    BY <1>4, DeviceCountAssumption DEF Devices
  <2>2. s[k + 1] = LinkDevice(file, k + 1, s[k]) /\ s[k] \in Lists
    BY <2>1, <1>2, Zenon
  <2>3. Built(s[k], file, k)
    BY <1>4, Zenon
  <2>4. Built(s[k + 1], file, k + 1)
    BY <2>1, <2>2, <2>3, LinkDeviceBuilds, Zenon
  <2> QED
    BY <2>1, <2>4, Zenon
<1>5. 0 .. DeviceCount \subseteq S
  <2> HIDE DEF S
  <2> QED
    BY <1>3, <1>4, DeviceCountAssumption, IntervalInduction, Zenon
<1>6. Built(l, file, DeviceCount) /\ l \in Lists
  BY <1>1, <1>2, <1>5, DeviceCountAssumption
<1> QED
  BY <1>6, Zenon DEF Built, Listed, Ordered, Lists

LEMMA OrderedIsReady ==
    ASSUME NEW file, NEW next, Ordered(next, file)
    PROVE  Ready(next, file)
BY DeviceCountAssumption, Zenon DEF Ordered, OrderedTo, Ready, IsLast, Devices

-----------------------------------------------------------------------------
(* The walk along a list.                                                  *)

Follow(next, d) == IF d = NULL THEN NULL ELSE next[d]

LEMMA FollowType ==
    ASSUME NEW next \in [Devices -> Ends], NEW d \in Ends
    PROVE  Follow(next, d) \in Ends
BY Zenon DEF Follow, Ends

LEMMA AfterSteps ==
    ASSUME nextDevice_p \in [Devices -> Ends], NEW d \in Ends
    PROVE  /\ After(d, 0) = d
           /\ \A k \in 1 .. DeviceCount : After(d, k) = Follow(nextDevice_p, After(d, k - 1))
           /\ \A k \in 0 .. DeviceCount : After(d, k) \in Ends
<1> DEFINE at[k \in 0 .. DeviceCount] ==
             IF k = 0 THEN d ELSE IF at[k - 1] = NULL THEN NULL ELSE nextDevice_p[at[k - 1]]
           body(f) == [k \in 0 .. DeviceCount |->
                          IF k = 0 THEN d
                          ELSE IF f[k - 1] = NULL THEN NULL ELSE nextDevice_p[f[k - 1]]]
           g == [k \in 1 .. DeviceCount |-> [e \in Ends |-> Follow(nextDevice_p, e)]]
<1>1. \A k \in 0 .. DeviceCount : After(d, k) = at[k]
  BY Zenon DEF After
<1>2. at = CHOOSE f : f = body(f)
  BY Zenon
<1> HIDE DEF at
<1>3. g \in [1 .. DeviceCount -> [Ends -> Ends]]
  BY FollowType, Zenon
<1>4. PICK f : Recursive(f, DeviceCount, Ends, d, g)
  <2> HIDE DEF g
  <2> QED
    BY <1>3, DeviceCountAssumption, RecursionUpTo, Zenon
<1>5. /\ f \in [0 .. DeviceCount -> Ends] /\ f[0] = d
      /\ \A k \in 1 .. DeviceCount : f[k] = g[k][f[k - 1]]
  BY <1>4, Zenon DEF Recursive
<1>6. ASSUME NEW k \in 1 .. DeviceCount
      PROVE  f[k] = Follow(nextDevice_p, f[k - 1])
  <2>1. f[k - 1] \in Ends
    BY <1>5, DeviceCountAssumption
  <2>2. g[k][f[k - 1]] = Follow(nextDevice_p, f[k - 1])
    BY <2>1, Zenon
  <2> QED
    BY <1>5, <2>2, Zenon
<1>7. ASSUME NEW k \in 0 .. DeviceCount
      PROVE  f[k] = body(f)[k]
  <2>1. CASE k = 0
    BY <2>1, <1>5, Zenon
  <2>2. CASE k # 0
    <3>1. k \in 1 .. DeviceCount
      BY <2>2, DeviceCountAssumption
    <3> QED
      BY <3>1, <2>2, <1>6, Zenon DEF Follow
  <2> QED
    BY <2>1, <2>2, Zenon
<1>8. f = body(f)
  BY <1>5, <1>7, Zenon
<1>9. at = body(at)
  <2> HIDE DEF body
  <2> QED
    BY <1>2, <1>8, Zenon
<1>10. ASSUME NEW k \in 0 .. DeviceCount
       PROVE  at[k] = body(at)[k]
  BY <1>9, Zenon
<1>11. at[0] = d
  BY <1>10, DeviceCountAssumption
<1>12. ASSUME NEW k \in 1 .. DeviceCount
       PROVE  at[k] = Follow(nextDevice_p, at[k - 1])
  <2>1. k \in 0 .. DeviceCount /\ k # 0
    BY DeviceCountAssumption
  <2>2. at[k] = body(at)[k]
    BY <2>1, <1>10, Zenon
  <2> QED
    BY <2>1, <2>2, Zenon DEF Follow
<1> DEFINE S == {k \in 0 .. DeviceCount : at[k] \in Ends}
<1>13. 0 \in S
  BY <1>11, DeviceCountAssumption
<1>14. ASSUME NEW k \in 0 .. DeviceCount, k \in S, k < DeviceCount
       PROVE  k + 1 \in S
  <2>1. k + 1 \in 1 .. DeviceCount /\ k + 1 \in 0 .. DeviceCount /\ (k + 1) - 1 = k
    BY <1>14, DeviceCountAssumption
  <2>2. at[k + 1] = Follow(nextDevice_p, at[k])
    BY <2>1, <1>12, Zenon
  <2> QED
    BY <2>1, <2>2, <1>14, FollowType, Zenon
<1>15. 0 .. DeviceCount \subseteq S
  <2> HIDE DEF S
  <2> QED
    BY <1>13, <1>14, DeviceCountAssumption, IntervalInduction, Zenon
<1>16. ASSUME NEW k \in 1 .. DeviceCount
       PROVE  After(d, k) = Follow(nextDevice_p, After(d, k - 1))
  <2>1. k \in 0 .. DeviceCount /\ k - 1 \in 0 .. DeviceCount
    BY DeviceCountAssumption
  <2> QED
    BY <2>1, <1>1, <1>12, Zenon
<1>17. After(d, 0) = d
  BY <1>1, <1>11, DeviceCountAssumption
<1> QED
  BY <1>1, <1>15, <1>16, <1>17, Zenon

\* The walk goes down through the devices of the model.
LEMMA WalkDescends ==
    ASSUME nextDevice_p \in [Devices -> Ends], Ordered(nextDevice_p, model_p),
           NEW m \in Models, NEW h, IsLast(model_p, m, DeviceCount, h)
    PROVE  /\ h \in Ends
           /\ \A k \in 0 .. DeviceCount :
                 After(h, k) # NULL => /\ After(h, k) \in Devices /\ model_p[After(h, k)] = m
                                       /\ After(h, k) + k <= DeviceCount
           /\ \A k \in 0 .. DeviceCount :
                 After(h, k) # NULL =>
                    \A i \in 0 .. k - 1 : After(h, i) # NULL /\ After(h, k) < After(h, i)
<1>1. h \in Ends
  BY Zenon DEF IsLast, Ends, Devices
<1> DEFINE A(k) == After(h, k)
           Here(k) == A(k) # NULL => /\ A(k) \in Devices /\ model_p[A(k)] = m
                                     /\ A(k) + k <= DeviceCount
           Below(k) == A(k) # NULL => \A i \in 0 .. k - 1 : A(i) # NULL /\ A(k) < A(i)
           S == {k \in 0 .. DeviceCount : Here(k) /\ Below(k)}
<1>2. /\ A(0) = h
      /\ \A k \in 1 .. DeviceCount : A(k) = Follow(nextDevice_p, A(k - 1))
      /\ \A k \in 0 .. DeviceCount : A(k) \in Ends
  BY <1>1, AfterSteps, Zenon
<1> HIDE DEF A
<1>3. 0 \in S
  <2>1. Here(0)
    BY <1>2, DeviceCountAssumption DEF IsLast, Devices
  <2>2. Below(0)
    OBVIOUS
  <2> QED
    BY <2>1, <2>2, DeviceCountAssumption
<1>4. ASSUME NEW k \in 0 .. DeviceCount, k \in S, k < DeviceCount
      PROVE  k + 1 \in S
  <2>1. k \in Nat /\ k + 1 \in 1 .. DeviceCount /\ k + 1 \in 0 .. DeviceCount /\ (k + 1) - 1 = k
    BY <1>4, DeviceCountAssumption
  <2>2. A(k + 1) = Follow(nextDevice_p, A(k))
    BY <2>1, <1>2, Zenon
  <2>3. CASE A(k) = NULL
    BY <2>1, <2>2, <2>3, Zenon DEF Follow
  <2>4. CASE A(k) # NULL
    <3> DEFINE e == A(k)
               n == A(k + 1)
    <3>1. e \in Devices /\ model_p[e] = m /\ e + k <= DeviceCount
      BY <1>4, <2>4, Zenon
    <3>2. \A i \in 0 .. k - 1 : A(i) # NULL /\ e < A(i)
      BY <1>4, <2>4, Zenon
    <3>3. n = nextDevice_p[e]
      BY <2>2, <2>4, Zenon DEF Follow
    <3>4. model_p[e] # NULL
      BY <3>1, ModelsAssumption, Zenon
    <3>5. IsLast(model_p, m, e - 1, n)
      BY <3>1, <3>3, <3>4, Zenon DEF Ordered, OrderedTo, Devices
    <3>6. n = NULL \/ (n \in 1 .. e - 1 /\ model_p[n] = m)
      BY <3>5, Zenon DEF IsLast
    <3>7. e \in Nat /\ DeviceCount \in Nat /\ e <= DeviceCount
      BY <3>1, DeviceCountAssumption DEF Devices
    <3>8. Here(k + 1)
      BY <3>1, <3>6, <3>7, <2>1 DEF Devices
    <3>9. Below(k + 1)
      <4> SUFFICES ASSUME n # NULL, NEW i \in 0 .. (k + 1) - 1
                   PROVE  A(i) # NULL /\ n < A(i)
        BY Zenon
      <4>1. n \in Nat /\ n < e
        BY <3>6, <3>7
      <4>2. CASE i = k
        BY <4>1, <4>2, <2>4, Zenon
      <4>3. CASE i # k
        <5>1. i \in 0 .. k - 1 /\ i \in 0 .. DeviceCount
          BY <4>3, <2>1, DeviceCountAssumption, SMTT(30)
        <5>2. A(i) # NULL /\ e < A(i) /\ A(i) \in Nat
          BY <5>1, <3>2, <1>2 DEF Ends, Devices
        <5> QED
          BY <5>2, <4>1, <3>7, SMTT(30)
      <4> QED
        BY <4>2, <4>3, Zenon
    <3> QED
      BY <3>8, <3>9, <2>1, Zenon
  <2> QED
    BY <2>3, <2>4, Zenon
<1>5. 0 .. DeviceCount \subseteq S
  <2> HIDE DEF S
  <2> QED
    BY <1>3, <1>4, DeviceCountAssumption, IntervalInduction, Zenon
<1> QED
  BY <1>1, <1>5, Zenon DEF A

\* The walk leaves out no device of the model.
LEMMA WalkSeesAll ==
    ASSUME nextDevice_p \in [Devices -> Ends], Ordered(nextDevice_p, model_p),
           NEW m \in Models, NEW h, IsLast(model_p, m, DeviceCount, h)
    PROVE  \A d \in Devices : model_p[d] = m => \E k \in 0 .. DeviceCount : After(h, k) = d
<1> DEFINE A(k) == After(h, k)
           D == {d \in Devices : model_p[d] = m}
           Seen(d) == \E k \in 0 .. DeviceCount : A(k) = d
           S == {k \in 0 .. DeviceCount : \A d \in D : d > DeviceCount - k => Seen(d)}
<1>1. /\ A(0) = h
      /\ \A k \in 1 .. DeviceCount : A(k) = Follow(nextDevice_p, A(k - 1))
      /\ \A k \in 0 .. DeviceCount :
            A(k) # NULL => A(k) \in Devices /\ A(k) + k <= DeviceCount
  BY WalkDescends, AfterSteps, Zenon
<1> HIDE DEF A
<1>2. 0 \in S
  BY DeviceCountAssumption DEF Devices
<1>3. ASSUME NEW k \in 0 .. DeviceCount, k \in S, k < DeviceCount
      PROVE  k + 1 \in S
  <2>1. k + 1 \in 0 .. DeviceCount
    BY <1>3, DeviceCountAssumption
  <2>2. ASSUME NEW d \in D, d > DeviceCount - (k + 1)
        PROVE  Seen(d)
    <3>1. \A e \in D : e \in Nat /\ e >= 1 /\ e <= DeviceCount
      BY DeviceCountAssumption DEF Devices
    <3> DEFINE later == {e \in D : e > d}
    <3>2. CASE later = {}
      <4>1. h \in D /\ d <= h
        BY DeviceCountAssumption, Zenon DEF IsLast, Devices
      <4>2. h = d
        BY <3>1, <3>2, <4>1
      <4> QED
        BY <4>2, <1>1, DeviceCountAssumption
    <3>3. CASE later # {}
      <4>1. PICK e \in later : \A x \in later : e <= x
        <5>1. later \subseteq Nat
          BY <3>1, Zenon
        <5> HIDE DEF later
        <5> QED
          BY <5>1, <3>3, LeastNumber, Zenon
      <4>2. Seen(e)
        <5>1. e \in D /\ e > DeviceCount - k
          BY <3>1, <4>1, <2>2, DeviceCountAssumption
        <5> QED
          BY <5>1, <1>3, Zenon
      <4>3. PICK j \in 0 .. DeviceCount : A(j) = e
        BY <4>2, Zenon
      <4>4. e # NULL /\ e \in Nat /\ e > d /\ e \in Devices /\ model_p[e] = m
        BY <4>1, <3>1, DeviceCountAssumption, Zenon
      <4>5. j < DeviceCount
        BY <1>1, <4>3, <4>4, <3>1, DeviceCountAssumption
      <4>6. j + 1 \in 1 .. DeviceCount /\ j + 1 \in 0 .. DeviceCount /\ (j + 1) - 1 = j
        BY <4>5, DeviceCountAssumption
      <4>7. A(j + 1) = nextDevice_p[e]
        BY <4>3, <4>4, <4>6, <1>1, Zenon DEF Follow
      <4> DEFINE n == nextDevice_p[e]
      <4>8. IsLast(model_p, m, e - 1, n)
        BY <4>4, ModelsAssumption, Zenon DEF Ordered, OrderedTo, Devices
      <4>9. d \in 1 .. e - 1 /\ model_p[d] = m
        BY <4>4, <3>1
      <4>10. n \in 1 .. e - 1 /\ model_p[n] = m /\ d <= n
        BY <4>8, <4>9, Zenon DEF IsLast
      <4>11. n \in D /\ n < e /\ n \in Nat
        BY <4>4, <4>10, DeviceCountAssumption DEF Devices
      <4>12. n = d
        BY <4>1, <4>4, <4>10, <4>11, <3>1
      <4> QED
        BY <4>6, <4>7, <4>12, Zenon
    <3> QED
      BY <3>2, <3>3, Zenon
  <2> QED
    BY <2>1, <2>2, Zenon
<1>4. 0 .. DeviceCount \subseteq S
  <2> HIDE DEF S
  <2> QED
    BY <1>2, <1>3, DeviceCountAssumption, IntervalInduction, Zenon
<1>5. ASSUME NEW d \in D
      PROVE  Seen(d)
  <2>1. DeviceCount \in S
    BY <1>4, DeviceCountAssumption
  <2>2. d > DeviceCount - DeviceCount
    BY DeviceCountAssumption DEF Devices
  <2> QED
    BY <2>1, <2>2, Zenon
<1> QED
  BY <1>5, Zenon DEF A

\* A walk of as many steps as the model has devices has come to the end.
LEMMA ListIsExact ==
    ASSUME nextDevice_p \in [Devices -> Ends], Ordered(nextDevice_p, model_p),
           NEW m \in Models, NEW h, IsLast(model_p, m, DeviceCount, h),
           NEW seen, seen = {After(h, k) : k \in 0 .. DeviceCount} \ {NULL}
    PROVE  /\ seen = {d \in Devices : model_p[d] = m}
           /\ After(h, Cardinality(seen)) = NULL
<1> DEFINE D == {d \in Devices : model_p[d] = m}
           c == Cardinality(seen)
<1>1. /\ \A k \in 0 .. DeviceCount :
            After(h, k) # NULL => After(h, k) \in Devices /\ model_p[After(h, k)] = m
      /\ \A k \in 0 .. DeviceCount :
            After(h, k) # NULL =>
               \A i \in 0 .. k - 1 : After(h, i) # NULL /\ After(h, k) < After(h, i)
  BY WalkDescends, Zenon
<1>2. \A d \in Devices : model_p[d] = m => \E k \in 0 .. DeviceCount : After(h, k) = d
  BY WalkSeesAll
<1>3. \A d \in Devices : d # NULL /\ d \in Nat
  BY DeviceCountAssumption DEF Devices
<1>4. seen = D
  BY <1>1, <1>2, <1>3
<1>5. IsFiniteSet(D) /\ c \in Nat /\ c <= DeviceCount
  <2>1. IsFiniteSet(Devices) /\ Cardinality(Devices) = DeviceCount
    BY DeviceCountAssumption, FS_Interval DEF Devices
  <2>2. IsFiniteSet(D) /\ Cardinality(D) <= DeviceCount
    BY <2>1, FS_Subset, Zenon
  <2> QED
    BY <2>2, <1>4, FS_CardinalityType, Zenon
<1>6. After(h, c) = NULL
  <2> SUFFICES ASSUME After(h, c) # NULL
               PROVE  FALSE
    BY Zenon
  <2> DEFINE f == [i \in 0 .. c |-> After(h, i)]
  <2> HIDE DEF c
  <2>1. c \in 0 .. DeviceCount /\ \A i \in 0 .. c : i \in 0 .. DeviceCount
    BY <1>5, DeviceCountAssumption
  <2>2. \A i \in 0 .. c : After(h, i) # NULL
    <3> SUFFICES ASSUME NEW i \in 0 .. c
                 PROVE  After(h, i) # NULL
      BY Zenon
    <3>1. i = c \/ i \in 0 .. c - 1
      BY <1>5
    <3> QED
      BY <3>1, <2>1, <1>1, Zenon
  <2>3. f \in [0 .. c -> D]
    BY <2>1, <2>2, <1>1, Zenon
  <2>4. IsFiniteSet(0 .. c) /\ Cardinality(0 .. c) = c + 1
    <3>1. 0 \in Int /\ c \in Int /\ 0 <= c
      BY <1>5
    <3>2. /\ IsFiniteSet(0 .. c)
          /\ Cardinality(0 .. c) = IF 0 > c THEN 0 ELSE c - 0 + 1
      BY <3>1, FS_Interval, Zenon
    <3> QED
      BY <3>1, <3>2
  <2>5. Cardinality(D) < Cardinality(0 .. c)
    <3>1. Cardinality(D) = c
      BY <1>4, Zenon DEF c
    <3>2. c < c + 1
      BY <1>5
    <3> QED
      BY <3>1, <3>2, <2>4, Zenon
  <2>6. PICK x \in 0 .. c, y \in 0 .. c : x # y /\ f[x] = f[y]
    <3> HIDE DEF f, D
    <3> QED
      BY <2>3, <2>4, <2>5, <1>5, FS_PigeonHole, Zenon
  <2>7. After(h, x) = After(h, y) /\ After(h, x) \in Nat
    BY <2>1, <2>2, <2>6, <1>1, <1>3, Zenon
  <2>8. x \in 0 .. y - 1 \/ y \in 0 .. x - 1
    BY <2>6, <1>5
  <2>9. After(h, x) < After(h, y) \/ After(h, y) < After(h, x)
    BY <2>1, <2>2, <2>8, <1>1, Zenon
  <2> QED
    BY <2>7, <2>9
<1> QED
  BY <1>4, <1>6, Zenon

-----------------------------------------------------------------------------
(* The inductive invariant.                                                *)

TypeOK ==
    /\ match \in Matches /\ model_p \in Matches /\ matched \in Matches \cup {NULL}
    /\ firstDevice_p \in [Models -> Ends]
    /\ nextDevice_p \in [Devices -> Ends]

\* The part of the invariant about the lists.
Kept ==
    /\ stage \in {"database", "models"} => firstDevice_p = NoDevice
    /\ matched = NULL => nextDevice_p = Unmatched
    /\ matched # NULL => Ordered(nextDevice_p, matched)
    /\ stage = "models" /\ matched # NULL => match = matched
    /\ stage = "run" => modelFileStatus = "OK"
    /\ stage \in {"start", "run"} /\ modelFileStatus = "OK" =>
          matched = model_p /\ Listed(firstDevice_p, model_p)

LInv == TypeOK /\ (~interactive /\ ~modelsVary => Kept)

LEMMA InitLInv == Init => LInv
<1> SUFFICES ASSUME Init
             PROVE  LInv
  BY Zenon
<1>1. Unmatched \in Matches /\ Unmatched \in [Devices -> Ends] /\ NoDevice \in [Models -> Ends]
  BY Zenon DEF Unmatched, Matches, Ends, NoDevice
<1> QED
  BY <1>1, Zenon DEF Init, LInv, TypeOK, Kept

\* SetDeviceModels with lists of any kind.
LEMMA SetDeviceModelsType ==
    ASSUME TypeOK, NEW first \in [Models -> Ends], NEW file \in Matches, NEW status,
           SetDeviceModels(first, file, status), match' \in Matches
    PROVE  TypeOK'
<1> DEFINE l == Linked(first, file)
<1>1. l \in Lists
  BY LinkedType, Zenon DEF TypeOK
<1>2. /\ model_p' = file /\ firstDevice_p' = l.first /\ nextDevice_p' = l.next
      /\ matched' = IF matched = NULL THEN file ELSE matched
  BY Zenon DEF SetDeviceModels
<1> HIDE DEF l
<1>3. l.first \in [Models -> Ends] /\ l.next \in [Devices -> Ends]
  BY <1>1, Zenon DEF Lists
<1> QED
  BY <1>2, <1>3, Zenon DEF TypeOK

\* SetDeviceModels when a mode starts: the devices are new, or were linked for
\* the map that is there now.
LEMMA SetModelsKeeps ==
    ASSUME TypeOK, Kept, NEW status, SetModels(status)
    PROVE  Kept'
<1>1. stage = "models" /\ stage' = "start" /\ firstDevice_p = NoDevice /\ match' = match
  BY Zenon DEF SetModels, Kept
<1>2. CASE modelFileStatus = "OK"
  <2> DEFINE l == Linked(NoDevice, match)
  <2>1. /\ model_p' = match /\ firstDevice_p' = l.first /\ nextDevice_p' = l.next
        /\ matched' = IF matched = NULL THEN match ELSE matched
    BY <1>1, <1>2, Zenon DEF SetModels, SetDeviceModels
  <2> HIDE DEF l
  <2>2. Ready(nextDevice_p, match)
    <3>1. CASE matched = NULL
      BY <3>1, Zenon DEF Kept, Ready, Unmatched
    <3>2. CASE matched # NULL
      BY <3>2, <1>1, OrderedIsReady, Zenon DEF Kept
    <3> QED
      BY <3>1, <3>2, Zenon
  <2>3. Listed(l.first, match) /\ Ordered(l.next, match)
    BY <2>2, LinkedOrders, Zenon DEF l, TypeOK
  <2>4. matched' = match /\ match # NULL
    BY <2>1, <1>1, MatchesAssumption, Zenon DEF Kept, TypeOK
  <2> QED
    BY <1>1, <2>1, <2>3, <2>4, Zenon DEF Kept
<1>3. CASE modelFileStatus # "OK"
  BY <1>1, <1>3, Zenon DEF SetModels, Kept
<1> QED
  BY <1>2, <1>3, Zenon

LEMMA NextLInv == LInv /\ [Next]_vars => LInv'
<1> SUFFICES ASSUME LInv, [Next]_vars
             PROVE  LInv'
  BY Zenon
<1> USE DEF LInv
<1>1. Unmatched \in Matches /\ Unmatched \in [Devices -> Ends] /\ NoDevice \in [Models -> Ends]
  BY Zenon DEF Unmatched, Matches, Ends, NoDevice
<1>2. ASSUME NEW file \in Matches, NEW status \in Status, NEW powerOk \in BOOLEAN,
             LoadModels(file, status, powerOk)
      PROVE  LInv'
  BY <1>1, <1>2, Zenon DEF LoadModels, TypeOK, Kept, flags
<1>3. CASE ReuseDatabase
  BY <1>3, Zenon DEF ReuseDatabase, TypeOK, Kept, flags
<1>4. CASE ReadDatabase
  BY <1>1, <1>4, Zenon DEF ReadDatabase, TypeOK, Kept, flags
<1>5. ASSUME NEW status \in Status, SetModels(status)
      PROVE  LInv'
  <2>1. TypeOK'
    <3>1. CASE modelFileStatus = "OK"
      BY <1>5, <3>1, SetDeviceModelsType, Zenon DEF SetModels, TypeOK
    <3>2. CASE modelFileStatus # "OK"
      BY <1>5, <3>2, Zenon DEF SetModels, TypeOK
    <3> QED
      BY <3>1, <3>2, Zenon
  <2>2. interactive' = interactive /\ modelsVary' = modelsVary
    BY <1>5, Zenon DEF SetModels, flags
  <2> QED
    BY <1>5, <2>1, <2>2, SetModelsKeeps, Zenon
<1>6. ASSUME NEW status \in Status, SetPowerCommand(status)
      PROVE  LInv'
  <2>1. TypeOK'
    BY <1>6, SetDeviceModelsType, Zenon DEF SetPowerCommand, TypeOK
  <2> QED
    BY <1>6, <2>1, Zenon DEF SetPowerCommand, flags
<1>7. ASSUME NEW file \in Matches, NEW read \in Status, NEW status \in Status,
             SetModelCommand(file, read, status)
      PROVE  LInv'
  <2>1. TypeOK'
    <3>1. CASE read = "OK"
      BY <1>1, <1>7, <3>1, SetDeviceModelsType, Zenon DEF SetModelCommand
    <3>2. CASE read # "OK"
      BY <1>1, <1>7, <3>2, Zenon DEF SetModelCommand, TypeOK
    <3> QED
      BY <3>1, <3>2, Zenon
  <2> QED
    BY <1>7, <2>1, Zenon DEF SetModelCommand, flags
<1>8. CASE Run
  BY <1>8, Zenon DEF Run, TypeOK, Kept, flags
<1>9. CASE NextMode
  BY <1>9, Zenon DEF NextMode, TypeOK, Kept, flags
<1>10. CASE UNCHANGED vars
  BY <1>10, Zenon DEF vars, flags, TypeOK, Kept
<1> QED
  BY <1>2, <1>3, <1>4, <1>5, <1>6, <1>7, <1>8, <1>9, <1>10, Zenon DEF Next

LEMMA LInvIsExact == LInv => ListsExact
<1> SUFFICES ASSUME LInv, stage = "run", ~interactive, ~modelsVary, NEW m \in Models,
                    NEW seen, seen = {After(firstDevice_p[m], k) : k \in 0 .. DeviceCount} \ {NULL}
             PROVE  /\ seen = {d \in Devices : model_p[d] = m}
                    /\ After(firstDevice_p[m], Cardinality(seen)) = NULL
  BY Zenon DEF ListsExact
<1>1. /\ nextDevice_p \in [Devices -> Ends]
      /\ Listed(firstDevice_p, model_p)
      /\ matched = model_p /\ model_p \in Matches
  BY Zenon DEF LInv, TypeOK, Kept
<1>2. Ordered(nextDevice_p, model_p)
  BY <1>1, MatchesAssumption, Zenon DEF LInv, Kept
<1>3. IsLast(model_p, m, DeviceCount, firstDevice_p[m])
  BY <1>1, Zenon DEF Listed
<1> QED
  BY <1>1, <1>2, <1>3, ListIsExact

\* A check that walks the devices of a model sees each of them once, sees no
\* other device, and comes to an end, for any number of devices and models and
\* any sequence of modes, although SetDeviceModels never resets nextDevice_p and
\* leaves that of the first device linked unwritten; without a prompt, and with
\* the same models in every mode that reuses the database.
THEOREM ListsStayExact == Spec => []ListsExact
<1>1. Spec => []LInv
  BY InitLInv, NextLInv, PTL DEF Spec
<1> QED
  BY <1>1, LInvIsExact, PTL
=============================================================================
