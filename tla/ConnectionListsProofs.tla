------------------------ MODULE ConnectionListsProofs -----------------------
(***************************************************************************)
(* For every number of devices and every finite set of nets: merging dead  *)
(* ends meets no error, keeps lists, counts and nets in agreement, and     *)
(* merges exactly the dead ends.                                           *)
(*                                                                         *)
(* A list is known by the set of its devices (Lists): what its links are   *)
(* is only looked at when a device is put in front or taken from there,    *)
(* and when the list is walked along.  All that the counts and the chains  *)
(* of nets need is that the sources and drains of active devices never     *)
(* move: a net is merged away only when its last active resistor goes.     *)
(***************************************************************************)
EXTENDS ConnectionLists, NaturalsInduction, WellFoundedInduction, FiniteSetTheorems, TLAPS

-----------------------------------------------------------------------------
(* Natural numbers and recursive functions.                                *)

\* A set of natural numbers that is not empty has a least one.
LEMMA LeastNumber ==
    ASSUME NEW S, S \subseteq Nat, S # {}
    PROVE  \E n \in S : \A m \in S : n <= m
<1>1. \E n \in S : \A m \in S : ~ (<<m, n>> \in OpToRel(<, Nat))
  BY NatLessThanWellFounded, WFMin, Zenon
<1>2. PICK n \in S : \A m \in S : ~ (m < n)
  BY <1>1, Zenon DEF OpToRel
<1> QED
  BY <1>2

\* Induction up to a bound.
LEMMA IntervalInduction ==
    ASSUME NEW n \in Nat, NEW S, 0 \in S,
           \A k \in 0 .. n : k \in S /\ k < n => k + 1 \in S
    PROVE  0 .. n \subseteq S
<1> DEFINE out == {k \in 0 .. n : k \notin S}
<1>1. SUFFICES ASSUME out # {}
               PROVE  FALSE
  BY Zenon
<1>2. PICK k \in out : \A j \in out : k <= j
  <2>1. out \subseteq Nat
    OBVIOUS
  <2> HIDE DEF out
  <2> QED
    BY <2>1, <1>1, LeastNumber, Zenon
<1>3. k # 0 /\ k - 1 \in 0 .. n /\ k - 1 < n
  BY <1>2
<1>4. k - 1 \in S
  BY <1>2, <1>3
<1>5. (k - 1) + 1 \in S
  BY <1>3, <1>4, Zenon
<1>6. (k - 1) + 1 = k
  BY <1>2
<1> QED
  BY <1>2, <1>5, <1>6, Zenon

\* f is the function that is a at 0 and g[k] of its previous value at k.
Recursive(f, n, A, a, g) ==
    /\ f \in [0 .. n -> A]
    /\ f[0] = a
    /\ \A k \in 1 .. n : f[k] = g[k][f[k - 1]]

\* A function can be defined by recursion up to a bound.
LEMMA RecursionUpTo ==
    ASSUME NEW n \in Nat, NEW A, NEW a \in A, NEW g \in [1 .. n -> [A -> A]]
    PROVE  \E f : Recursive(f, n, A, a, g)
<1> DEFINE Fits(m, f) == f[0] = a /\ \A k \in 1 .. m : f[k] = g[k][f[k - 1]]
           S == {m \in 0 .. n : \E f \in [0 .. m -> A] : Fits(m, f)}
<1>1. 0 \in S
  <2> DEFINE f == [k \in 0 .. 0 |-> a]
  <2>1. f \in [0 .. 0 -> A] /\ f[0] = a
    OBVIOUS
  <2>2. \A k \in 1 .. 0 : FALSE
    OBVIOUS
  <2> HIDE DEF f
  <2>3. Fits(0, f)
    BY <2>1, <2>2, Zenon
  <2> QED
    BY <2>1, <2>3
<1>2. ASSUME NEW m \in 0 .. n, m \in S, m < n
      PROVE  m + 1 \in S
  <2>1. PICK f \in [0 .. m -> A] : Fits(m, f)
    BY <1>2, Zenon
  <2> DEFINE h == [k \in 0 .. m + 1 |-> IF k <= m THEN f[k] ELSE g[m + 1][f[m]]]
  <2>2. m \in Nat /\ m + 1 \in 1 .. n /\ m + 1 \in 0 .. n /\ f[m] \in A
    BY <1>2
  <2>3. g[m + 1] \in [A -> A]
    BY <2>2, Zenon
  <2>4. g[m + 1][f[m]] \in A
    BY <2>2, <2>3, Zenon
  <2>5. h \in [0 .. m + 1 -> A]
    BY <2>4, <2>2
  <2>6. h[0] = a
    BY <2>1, <2>2
  <2>7. ASSUME NEW k \in 1 .. m + 1
        PROVE  h[k] = g[k][h[k - 1]]
    <3>1. h[k - 1] = f[k - 1]
      BY <2>2, <2>7
    <3>2. CASE k <= m
      <4>1. k \in 1 .. m /\ h[k] = f[k]
        BY <3>2, <2>2, <2>7
      <4> QED
        BY <4>1, <3>1, <2>1, Zenon
    <3>3. CASE ~ (k <= m)
      <4>1. k = m + 1 /\ k - 1 = m
        BY <3>3, <2>2, <2>7
      <4>2. h[k] = g[m + 1][f[m]]
        BY <3>3, <2>7
      <4> QED
        BY <4>1, <4>2, <3>1, Zenon
    <3> QED
      BY <3>2, <3>3, Zenon
  <2> HIDE DEF h
  <2>8. Fits(m + 1, h)
    BY <2>6, <2>7, Zenon
  <2> QED
    BY <2>2, <2>5, <2>8, Zenon
<1>3. 0 .. n \subseteq S
  <2> HIDE DEF S
  <2> QED
    BY <1>1, <1>2, IntervalInduction, Zenon
<1>4. n \in S
  BY <1>3
<1> QED
  BY <1>4, Zenon DEF Recursive

-----------------------------------------------------------------------------
(* Lists of devices.                                                       *)

Opt == Devices \cup {UNKNOWN_DEVICE}

\* The m devices of S, from f on, linked by next.
Listing(g, m, f, next, S) ==
    /\ g[1] = f /\ g[m + 1] = UNKNOWN_DEVICE
    /\ \A i \in 1 .. m : g[i] \in S /\ next[g[i]] = g[i + 1]
    /\ \A i, j \in 1 .. m : g[i] = g[j] => i = j
    /\ \A d \in S : \E i \in 1 .. m : g[i] = d

Lists(f, next, S) ==
    \E m \in Nat : \E g \in [1 .. m + 1 -> Opt] : Listing(g, m, f, next, S)

LEMMA UnknownIsNoDevice == UNKNOWN_DEVICE \notin Devices /\ DeviceCount \in Nat
BY DevicesAssumption DEF Devices

LEMMA EmptyList ==
    ASSUME NEW next
    PROVE  Lists(UNKNOWN_DEVICE, next, {})
<1> DEFINE g == [i \in 1 .. 0 + 1 |-> UNKNOWN_DEVICE]
<1>1. g \in [1 .. 0 + 1 -> Opt] /\ g[1] = UNKNOWN_DEVICE /\ g[0 + 1] = UNKNOWN_DEVICE
  BY DEF Opt
<1>2. \A i \in 1 .. 0 : FALSE
  OBVIOUS
<1> HIDE DEF g
<1>3. Listing(g, 0, UNKNOWN_DEVICE, next, {})
  BY <1>1, <1>2, Zenon DEF Listing
<1>4. 0 \in Nat
  BY Zenon
<1> QED
  BY <1>1, <1>3, <1>4, Zenon DEF Lists

\* A list with no first device is empty.
LEMMA UnknownList ==
    ASSUME NEW next, NEW S, S \subseteq Devices, Lists(UNKNOWN_DEVICE, next, S)
    PROVE  S = {}
<1>1. PICK m \in Nat : \E g \in [1 .. m + 1 -> Opt] : Listing(g, m, UNKNOWN_DEVICE, next, S)
  BY Zenon DEF Lists
<1>2. PICK g \in [1 .. m + 1 -> Opt] : Listing(g, m, UNKNOWN_DEVICE, next, S)
  BY <1>1, Zenon
<1>3. 1 \notin 1 .. m
  BY <1>2, UnknownIsNoDevice DEF Listing
<1>4. \A i \in 1 .. m : FALSE
  BY <1>3
<1> QED
  BY <1>2, <1>4, Zenon DEF Listing

\* A list depends on the links of its own devices only.
LEMMA SameList ==
    ASSUME NEW f, NEW next, NEW other, NEW S, Lists(f, next, S), \A d \in S : other[d] = next[d]
    PROVE  Lists(f, other, S)
<1>1. PICK m \in Nat : \E g \in [1 .. m + 1 -> Opt] : Listing(g, m, f, next, S)
  BY Zenon DEF Lists
<1>2. PICK g \in [1 .. m + 1 -> Opt] : Listing(g, m, f, next, S)
  BY <1>1, Zenon
<1>3. Listing(g, m, f, other, S)
  BY <1>2, Zenon DEF Listing
<1> QED
  BY <1>3, Zenon DEF Lists

\* A device in front of a list.
LEMMA PushList ==
    ASSUME NEW f, NEW next, NEW S, S \subseteq Devices, Lists(f, next, S),
           NEW d \in Devices, d \notin S,
           NEW other, other[d] = f, \A e \in S : other[e] = next[e]
    PROVE  Lists(d, other, S \cup {d})
<1>1. PICK m \in Nat : \E g \in [1 .. m + 1 -> Opt] : Listing(g, m, f, next, S)
  BY Zenon DEF Lists
<1>2. PICK g \in [1 .. m + 1 -> Opt] : Listing(g, m, f, next, S)
  BY <1>1, Zenon
<1> DEFINE M == m + 1
           h == [i \in 1 .. M + 1 |-> IF i = 1 THEN d ELSE g[i - 1]]
<1>3. M \in Nat /\ \A i \in 2 .. M + 1 : i - 1 \in 1 .. m + 1
  OBVIOUS
<1>4. h \in [1 .. M + 1 -> Opt]
  <2>1. \A i \in 1 .. M + 1 : i # 1 => i - 1 \in 1 .. m + 1
    OBVIOUS
  <2>2. d \in Opt
    BY Zenon DEF Opt
  <2> QED
    BY <2>1, <2>2, <1>2, Zenon
<1>5. h[1] = d /\ h[M + 1] = UNKNOWN_DEVICE
  <2>1. 1 \in 1 .. M + 1 /\ M + 1 \in 1 .. M + 1 /\ M + 1 # 1 /\ (M + 1) - 1 = m + 1
    OBVIOUS
  <2>2. h[M + 1] = g[m + 1]
    BY <2>1, Zenon
  <2> QED
    BY <2>1, <2>2, <1>2, Zenon DEF Listing
<1>6. ASSUME NEW i \in 1 .. M
      PROVE  h[i] \in S \cup {d} /\ other[h[i]] = h[i + 1]
  <2>1. CASE i = 1
    <3>1. h[i] = d /\ h[i + 1] = g[1]
      BY <2>1
    <3> QED
      BY <3>1, <1>2, Zenon DEF Listing
  <2>2. CASE i # 1
    <3>1. i - 1 \in 1 .. m /\ h[i] = g[i - 1] /\ h[i + 1] = g[(i - 1) + 1]
      BY <2>2, <1>6
    <3>2. g[i - 1] \in S /\ next[g[i - 1]] = g[(i - 1) + 1]
      BY <3>1, <1>2, Zenon DEF Listing
    <3> QED
      BY <3>1, <3>2, Zenon
  <2> QED
    BY <2>1, <2>2, Zenon
<1>7. ASSUME NEW i \in 1 .. M, NEW j \in 1 .. M, h[i] = h[j]
      PROVE  i = j
  <2>1. \A k \in 1 .. M : k # 1 => k - 1 \in 1 .. m /\ h[k] = g[k - 1] /\ h[k] # d
    <3>1. ASSUME NEW k \in 1 .. M, k # 1
          PROVE  k - 1 \in 1 .. m /\ h[k] = g[k - 1]
      BY <3>1
    <3> QED
      BY <3>1, <1>2 DEF Listing
  <2>2. h[1] = d
    BY <1>5, Zenon
  <2>3. CASE i = 1 \/ j = 1
    BY <2>1, <2>2, <2>3, <1>7, Zenon
  <2>4. CASE i # 1 /\ j # 1
    <3>1. \A x, y \in 1 .. m : g[x] = g[y] => x = y
      BY <1>2, Zenon DEF Listing
    <3>2. i - 1 \in 1 .. m /\ j - 1 \in 1 .. m /\ g[i - 1] = g[j - 1]
      BY <2>1, <2>4, <1>7, Zenon
    <3>3. i - 1 = j - 1
      BY <3>1, <3>2, Zenon
    <3> QED
      BY <3>3
  <2> QED
    BY <2>3, <2>4, Zenon
<1>8. ASSUME NEW e \in S \cup {d}
      PROVE  \E i \in 1 .. M : h[i] = e
  <2>1. CASE e = d
    <3>1. 1 \in 1 .. M
      OBVIOUS
    <3> QED
      BY <3>1, <2>1, <1>5, Zenon
  <2>2. CASE e \in S
    <3>1. PICK i \in 1 .. m : g[i] = e
      BY <2>2, <1>2, Zenon DEF Listing
    <3>2. i + 1 \in 1 .. M /\ h[i + 1] = g[i]
      OBVIOUS
    <3> QED
      BY <3>1, <3>2, Zenon
  <2> QED
    BY <2>1, <2>2, Zenon
<1> HIDE DEF h
<1>9. Listing(h, M, d, other, S \cup {d})
  BY <1>5, <1>6, <1>7, <1>8, Zenon DEF Listing
<1> HIDE DEF M
<1> QED
  BY <1>3, <1>4, <1>9, Zenon DEF Lists

\* The list without its first device.
LEMMA PopList ==
    ASSUME NEW f, NEW next, NEW S, S \subseteq Devices, Lists(f, next, S), f # UNKNOWN_DEVICE
    PROVE  f \in S /\ next[f] \in Opt /\ Lists(next[f], next, S \ {f})
<1>1. PICK m \in Nat : \E g \in [1 .. m + 1 -> Opt] : Listing(g, m, f, next, S)
  BY Zenon DEF Lists
<1>2. PICK g \in [1 .. m + 1 -> Opt] : Listing(g, m, f, next, S)
  BY <1>1, Zenon
<1>3. m # 0
  <2>1. m = 0 => g[m + 1] = g[1]
    OBVIOUS
  <2> QED
    BY <2>1, <1>2, Zenon DEF Listing
<1>4. 1 \in 1 .. m /\ m - 1 \in Nat /\ (m - 1) + 1 = m /\ 1 + 1 \in 1 .. m + 1 /\ g[1 + 1] = g[2]
  BY <1>3
<1>5. f \in S /\ next[f] = g[2] /\ g[2] \in Opt
  BY <1>2, <1>4, Zenon DEF Listing
<1> DEFINE M == m - 1
           h == [i \in 1 .. M + 1 |-> g[i + 1]]
<1>6. \A i \in 1 .. M : /\ i \in 1 .. M + 1 /\ i + 1 \in 1 .. M + 1 /\ i + 1 \in 1 .. m
                        /\ i + 1 # 1 /\ h[i] = g[i + 1] /\ h[i + 1] = g[(i + 1) + 1]
  BY <1>3, <1>4
<1>7. h \in [1 .. M + 1 -> Opt] /\ h[1] = g[2] /\ h[M + 1] = g[m + 1]
  <2>1. \A i \in 1 .. M + 1 : i + 1 \in 1 .. m + 1
    BY <1>4
  <2> QED
    BY <2>1, <1>4, <1>2
<1> HIDE DEF h, M
<1>8. \A i \in 1 .. M : h[i] \in S \ {f} /\ next[h[i]] = h[i + 1]
  BY <1>2, <1>4, <1>6 DEF Listing
<1>9. ASSUME NEW i \in 1 .. M, NEW j \in 1 .. M, h[i] = h[j]
      PROVE  i = j
  <2>1. \A x, y \in 1 .. m : g[x] = g[y] => x = y
    BY <1>2, Zenon DEF Listing
  <2>2. i + 1 \in 1 .. m /\ j + 1 \in 1 .. m /\ g[i + 1] = g[j + 1]
    BY <1>6, <1>9, Zenon
  <2>3. i + 1 = j + 1
    BY <2>1, <2>2, Zenon
  <2> QED
    BY <2>3, <1>4 DEF M
<1>10. ASSUME NEW e \in S \ {f}
       PROVE  \E i \in 1 .. M : h[i] = e
  <2>1. PICK i \in 1 .. m : g[i] = e
    BY <1>2, Zenon DEF Listing
  <2>2. i # 1
    BY <2>1, <1>2, Zenon DEF Listing
  <2>3. i - 1 \in 1 .. M /\ (i - 1) + 1 = i
    BY <2>2, <1>4 DEF M
  <2>4. h[i - 1] = g[i]
    BY <2>3, <1>6, Zenon
  <2> QED
    BY <2>1, <2>3, <2>4, Zenon
<1>11. Listing(h, M, g[2], next, S \ {f})
  BY <1>2, <1>7, <1>8, <1>9, <1>10, Zenon DEF Listing
<1>12. M \in Nat
  BY <1>4, Zenon DEF M
<1> QED
  BY <1>5, <1>7, <1>11, <1>12, Zenon DEF Lists

LEMMA FirstOfList ==
    ASSUME NEW f, NEW next, NEW S, Lists(f, next, S)
    PROVE  f \in Opt
<1>1. PICK m \in Nat : \E g \in [1 .. m + 1 -> Opt] : Listing(g, m, f, next, S)
  BY Zenon DEF Lists
<1>2. 1 \in 1 .. m + 1
  OBVIOUS
<1> QED
  BY <1>1, <1>2 DEF Listing

-----------------------------------------------------------------------------
(* Walking along a list.                                                   *)

LEMMA MemberUnfolded ==
    ASSUME NEW first, NEW next \in [Devices -> Opt], NEW n, first[n] \in Opt
    PROVE  /\ Member(first, next, n, 0) = first[n]
           /\ \A k \in 1 .. DeviceCount :
                 Member(first, next, n, k) =
                    IF Member(first, next, n, k - 1) = UNKNOWN_DEVICE THEN UNKNOWN_DEVICE
                    ELSE next[Member(first, next, n, k - 1)]
<1> DEFINE at[i \in 0 .. DeviceCount] ==
              IF i = 0 THEN first[n]
              ELSE IF at[i - 1] = UNKNOWN_DEVICE THEN UNKNOWN_DEVICE ELSE next[at[i - 1]]
           body(f) == [i \in 0 .. DeviceCount |->
              IF i = 0 THEN first[n]
              ELSE IF f[i - 1] = UNKNOWN_DEVICE THEN UNKNOWN_DEVICE ELSE next[f[i - 1]]]
           g == [i \in 1 .. DeviceCount |->
                    [x \in Opt |-> IF x = UNKNOWN_DEVICE THEN UNKNOWN_DEVICE ELSE next[x]]]
<1>1. \A k : Member(first, next, n, k) = at[k]
  BY Zenon DEF Member
<1>2. at = CHOOSE f : f = body(f)
  BY Zenon
<1> HIDE DEF at
<1>3. g \in [1 .. DeviceCount -> [Opt -> Opt]]
  <2>1. ASSUME NEW x \in Opt
        PROVE  (IF x = UNKNOWN_DEVICE THEN UNKNOWN_DEVICE ELSE next[x]) \in Opt
    BY Zenon DEF Opt
  <2> QED
    BY <2>1, Zenon
<1>4. PICK f : Recursive(f, DeviceCount, Opt, first[n], g)
  <2> HIDE DEF g
  <2> QED
    BY <1>3, UnknownIsNoDevice, RecursionUpTo, Zenon
<1>5. /\ f \in [0 .. DeviceCount -> Opt] /\ f[0] = first[n]
      /\ \A k \in 1 .. DeviceCount : f[k] = g[k][f[k - 1]]
  BY <1>4, Zenon DEF Recursive
<1>6. ASSUME NEW k \in 0 .. DeviceCount
      PROVE  f[k] = body(f)[k]
  <2>1. CASE k = 0
    BY <2>1, <1>5, Zenon
  <2>2. CASE k # 0
    <3>1. k \in 1 .. DeviceCount /\ k - 1 \in 0 .. DeviceCount
      BY <2>2, UnknownIsNoDevice
    <3>2. f[k - 1] \in Opt /\ f[k] = g[k][f[k - 1]]
      BY <3>1, <1>5, Zenon
    <3>3. f[k] = IF f[k - 1] = UNKNOWN_DEVICE THEN UNKNOWN_DEVICE ELSE next[f[k - 1]]
      BY <3>1, <3>2, Zenon
    <3> QED
      BY <3>3, <2>2, Zenon
  <2> QED
    BY <2>1, <2>2, Zenon
<1>7. f = body(f)
  BY <1>5, <1>6, Zenon
<1>8. at = body(at)
  <2> HIDE DEF body
  <2> QED
    BY <1>2, <1>7, Zenon
<1>9. ASSUME NEW k \in 0 .. DeviceCount
      PROVE  at[k] = IF k = 0 THEN first[n]
                     ELSE IF at[k - 1] = UNKNOWN_DEVICE THEN UNKNOWN_DEVICE ELSE next[at[k - 1]]
  <2>1. at[k] = body(at)[k]
    BY <1>8, Zenon
  <2> QED
    BY <2>1, Zenon
<1>10. 0 \in 0 .. DeviceCount /\ \A k \in 1 .. DeviceCount : k \in 0 .. DeviceCount /\ k # 0
  BY UnknownIsNoDevice
<1> QED
  BY <1>1, <1>9, <1>10, ZenonT(40)

LEMMA FiniteDevices ==
    ASSUME NEW S, S \subseteq Devices
    PROVE  IsFiniteSet(S) /\ Cardinality(S) \in Nat /\ Cardinality(S) <= DeviceCount
<1>1. IsFiniteSet(Devices) /\ Cardinality(Devices) = DeviceCount
  <2>1. 1 \in Int /\ DeviceCount \in Int
    BY UnknownIsNoDevice
  <2>2. /\ IsFiniteSet(1 .. DeviceCount)
        /\ Cardinality(1 .. DeviceCount) = IF 1 > DeviceCount THEN 0 ELSE DeviceCount - 1 + 1
    BY <2>1, FS_Interval, Zenon
  <2>3. (IF 1 > DeviceCount THEN 0 ELSE DeviceCount - 1 + 1) = DeviceCount
    BY UnknownIsNoDevice
  <2> QED
    BY <2>2, <2>3 DEF Devices
<1>2. S \in SUBSET Devices
  BY Zenon
<1>3. IsFiniteSet(S) /\ Cardinality(S) <= Cardinality(Devices)
  BY <1>1, <1>2, FS_Subset, Zenon
<1>4. Cardinality(S) \in Nat
  BY <1>3, FS_CardinalityType, Zenon
<1> QED
  BY <1>1, <1>3, <1>4, Zenon

\* The walk finds the devices of the list, and its end after the last of them.
LEMMA ListMembers ==
    ASSUME NEW first, NEW next \in [Devices -> Opt], NEW n, NEW S, S \subseteq Devices,
           Lists(first[n], next, S)
    PROVE  /\ Members(first, next, n) = S
           /\ Member(first, next, n, Cardinality(S)) = UNKNOWN_DEVICE
<1> DEFINE at(k) == Member(first, next, n, k)
<1>1. PICK m \in Nat : \E g \in [1 .. m + 1 -> Opt] : Listing(g, m, first[n], next, S)
  BY Zenon DEF Lists
<1>2. PICK g \in [1 .. m + 1 -> Opt] : Listing(g, m, first[n], next, S)
  BY <1>1, Zenon
<1>3. /\ g[1] = first[n] /\ g[m + 1] = UNKNOWN_DEVICE
      /\ \A i \in 1 .. m : g[i] \in S /\ next[g[i]] = g[i + 1]
      /\ \A i, j \in 1 .. m : g[i] = g[j] => i = j
      /\ \A d \in S : \E i \in 1 .. m : g[i] = d
  BY <1>2, Zenon DEF Listing
<1>4. Cardinality(S) = m
  <2> DEFINE h == [i \in 1 .. m |-> g[i]]
  <2>1. h \in [1 .. m -> S] /\ \A i \in 1 .. m : h[i] = g[i]
    BY <1>3, Zenon
  <2> HIDE DEF h
  <2>2. h \in Bijection(1 .. m, S)
    BY <2>1, <1>3, Zenon DEF Bijection, Injection, Surjection, IsInjective
  <2>3. ExistsBijection(1 .. m, S)
    BY <2>2, Zenon DEF ExistsBijection
  <2> QED
    BY <2>3, FS_CountingElements, Zenon
<1>5. m <= DeviceCount
  BY <1>4, FiniteDevices, Zenon
<1>6. /\ at(0) = first[n]
      /\ \A k \in 1 .. DeviceCount :
            at(k) = IF at(k - 1) = UNKNOWN_DEVICE THEN UNKNOWN_DEVICE ELSE next[at(k - 1)]
  <2>1. first[n] \in Opt
    BY FirstOfList, Zenon
  <2> QED
    BY <2>1, MemberUnfolded
<1> HIDE DEF at
<1> DEFINE T == {k \in 0 .. DeviceCount : at(k) = IF k <= m THEN g[k + 1] ELSE UNKNOWN_DEVICE}
<1>7. 0 \in T
  BY <1>3, <1>6, UnknownIsNoDevice
<1>8. ASSUME NEW k \in 0 .. DeviceCount, k \in T, k < DeviceCount
      PROVE  k + 1 \in T
  <2>1. k + 1 \in 1 .. DeviceCount /\ k + 1 \in 0 .. DeviceCount /\ (k + 1) - 1 = k
    BY <1>8, UnknownIsNoDevice
  <2>2. at(k + 1) = IF at(k) = UNKNOWN_DEVICE THEN UNKNOWN_DEVICE ELSE next[at(k)]
    BY <2>1, <1>6, Zenon
  <2>3. CASE k < m
    <3>1. k + 1 \in 1 .. m /\ k <= m /\ k + 1 <= m
      BY <2>3, <2>1
    <3>2. g[k + 1] \in Devices /\ next[g[k + 1]] = g[(k + 1) + 1]
      BY <3>1, <1>3, Zenon
    <3>3. at(k) = g[k + 1]
      BY <3>1, <1>8, Zenon
    <3> QED
      BY <3>1, <3>2, <3>3, <2>1, <2>2, UnknownIsNoDevice, Zenon
  <2>4. CASE ~ (k < m)
    <3>1. ~ (k + 1 <= m) /\ (k <= m => k = m)
      BY <2>4, <2>1
    <3>2. at(k) = UNKNOWN_DEVICE
      BY <3>1, <1>3, <1>8, Zenon
    <3> QED
      BY <3>1, <3>2, <2>1, <2>2, Zenon
  <2> QED
    BY <2>3, <2>4, Zenon
<1>9. 0 .. DeviceCount \subseteq T
  <2> HIDE DEF T
  <2> QED
    BY <1>7, <1>8, UnknownIsNoDevice, IntervalInduction, Zenon
<1>10. \A k \in 0 .. DeviceCount : at(k) = IF k <= m THEN g[k + 1] ELSE UNKNOWN_DEVICE
  BY <1>9, Zenon
<1>11. at(m) = UNKNOWN_DEVICE
  <2>1. m \in 0 .. DeviceCount /\ m <= m
    BY <1>5, UnknownIsNoDevice
  <2> QED
    BY <2>1, <1>3, <1>10, Zenon
<1>12. ASSUME NEW k \in 0 .. DeviceCount, at(k) # UNKNOWN_DEVICE
       PROVE  at(k) \in S
  <2>1. k <= m /\ at(k) = g[k + 1] /\ k # m
    BY <1>12, <1>10, <1>11, Zenon
  <2>2. k + 1 \in 1 .. m
    BY <2>1
  <2> QED
    BY <2>1, <2>2, <1>3
<1>13. ASSUME NEW d \in S
       PROVE  d # UNKNOWN_DEVICE /\ \E k \in 0 .. DeviceCount : at(k) = d
  <2>1. PICK i \in 1 .. m : g[i] = d
    BY <1>3, Zenon
  <2>2. i - 1 \in 0 .. DeviceCount /\ i - 1 <= m /\ (i - 1) + 1 = i
    BY <1>5, UnknownIsNoDevice
  <2>3. at(i - 1) = g[(i - 1) + 1]
    BY <2>2, <1>10, Zenon
  <2> QED
    BY <2>1, <2>2, <2>3, UnknownIsNoDevice, Zenon
<1>14. Members(first, next, n) = {at(k) : k \in 0 .. DeviceCount} \ {UNKNOWN_DEVICE}
  BY Zenon DEF Members, at
<1>15. Members(first, next, n) = S
  BY <1>12, <1>13, <1>14, ZenonT(40)
<1> QED
  BY <1>4, <1>11, <1>15, Zenon DEF at

-----------------------------------------------------------------------------
(* Merging two lists.                                                      *)

\* A state of the loop of MergeConnectionListByTerminals.
Moving(X) == [at : Opt, first : [Nets -> Opt], next : [Devices -> Opt], net : [Devices -> X]]

LEMMA MoveDeviceType ==
    ASSUME NEW X, NEW to \in Nets, to \in X, NEW p \in Moving(X), p.at # UNKNOWN_DEVICE
    PROVE  /\ p.at \in Devices
           /\ MoveDevice(p, to) \in Moving(X)
           /\ MoveDevice(p, to).at = p.next[p.at]
           /\ MoveDevice(p, to).first = [p.first EXCEPT ![to] = p.at]
           /\ MoveDevice(p, to).next = [p.next EXCEPT ![p.at] = p.first[to]]
           /\ MoveDevice(p, to).net = [p.net EXCEPT ![p.at] = to]
<1>1. /\ p.at \in Opt /\ p.first \in [Nets -> Opt] /\ p.next \in [Devices -> Opt]
      /\ p.net \in [Devices -> X]
  BY Zenon DEF Moving
<1>2. p.at \in Devices
  BY <1>1, Zenon DEF Opt
<1>3. /\ p.next[p.at] \in Opt /\ [p.first EXCEPT ![to] = p.at] \in [Nets -> Opt]
      /\ [p.next EXCEPT ![p.at] = p.first[to]] \in [Devices -> Opt]
      /\ [p.net EXCEPT ![p.at] = to] \in [Devices -> X]
  BY <1>1, <1>2, Zenon
<1> QED
  BY <1>2, <1>3, Zenon DEF MoveDevice, Moving

Turn(p, to) == IF p.at = UNKNOWN_DEVICE THEN p ELSE MoveDevice(p, to)

\* The turns of the loop, and what it leaves.
Moves(move, X, first, next, net, from, to) ==
    /\ move \in [0 .. DeviceCount -> Moving(X)]
    /\ move[0] = [at |-> first[from], first |-> first, next |-> next, net |-> net]
    /\ \A k \in 1 .. DeviceCount : move[k] = Turn(move[k - 1], to)
    /\ MergeConnectionListByTerminals(first, next, net, from, to) =
          [move[DeviceCount] EXCEPT !.first[from] = UNKNOWN_DEVICE]

LEMMA MergeUnfolded ==
    ASSUME NEW X, NEW first \in [Nets -> Opt], NEW next \in [Devices -> Opt], NEW net \in [Devices -> X],
           NEW from \in Nets, NEW to \in Nets, to \in X
    PROVE  \E move : Moves(move, X, first, next, net, from, to)
<1> DEFINE start == [at |-> first[from], first |-> first, next |-> next, net |-> net]
           move[k \in 0 .. DeviceCount] ==
              IF k = 0 THEN [at |-> first[from], first |-> first, next |-> next, net |-> net]
              ELSE IF move[k - 1].at = UNKNOWN_DEVICE THEN move[k - 1] ELSE MoveDevice(move[k - 1], to)
           body(f) == [k \in 0 .. DeviceCount |->
              IF k = 0 THEN start
              ELSE IF f[k - 1].at = UNKNOWN_DEVICE THEN f[k - 1] ELSE MoveDevice(f[k - 1], to)]
           g == [k \in 1 .. DeviceCount |-> [p \in Moving(X) |-> Turn(p, to)]]
<1>1. MergeConnectionListByTerminals(first, next, net, from, to) =
         [move[DeviceCount] EXCEPT !.first[from] = UNKNOWN_DEVICE]
  BY Zenon DEF MergeConnectionListByTerminals
<1>2. move = CHOOSE f : f = body(f)
  BY Zenon
<1> HIDE DEF move
<1>3. g \in [1 .. DeviceCount -> [Moving(X) -> Moving(X)]]
  <2>1. ASSUME NEW p \in Moving(X)
        PROVE  Turn(p, to) \in Moving(X)
    BY MoveDeviceType, Zenon DEF Turn
  <2> QED
    BY <2>1, Zenon
<1>4. start \in Moving(X)
  BY Zenon DEF Moving
<1> HIDE DEF start
<1>5. PICK f : Recursive(f, DeviceCount, Moving(X), start, g)
  <2> HIDE DEF g
  <2> QED
    BY <1>3, <1>4, UnknownIsNoDevice, RecursionUpTo, Zenon
<1>6. /\ f \in [0 .. DeviceCount -> Moving(X)] /\ f[0] = start
      /\ \A k \in 1 .. DeviceCount : f[k] = g[k][f[k - 1]]
  BY <1>5, Zenon DEF Recursive
<1>7. ASSUME NEW k \in 0 .. DeviceCount
      PROVE  f[k] = body(f)[k]
  <2>1. CASE k = 0
    BY <2>1, <1>6, Zenon
  <2>2. CASE k # 0
    <3>1. k \in 1 .. DeviceCount /\ k - 1 \in 0 .. DeviceCount
      BY <2>2, UnknownIsNoDevice
    <3>2. f[k - 1] \in Moving(X) /\ f[k] = g[k][f[k - 1]]
      BY <3>1, <1>6, Zenon
    <3>3. f[k] = Turn(f[k - 1], to)
      BY <3>1, <3>2, Zenon
    <3> QED
      BY <3>3, <2>2, Zenon DEF Turn
  <2> QED
    BY <2>1, <2>2, Zenon
<1>8. f = body(f)
  BY <1>6, <1>7, Zenon
<1>9. move = body(move)
  <2> HIDE DEF body
  <2> QED
    BY <1>2, <1>8, Zenon
<1>10. ASSUME NEW k \in 0 .. DeviceCount
       PROVE  move[k] = IF k = 0 THEN start ELSE Turn(move[k - 1], to)
  <2>1. move[k] = body(move)[k]
    BY <1>9, Zenon
  <2> QED
    BY <2>1, Zenon DEF Turn
<1> DEFINE T == {k \in 0 .. DeviceCount : move[k] \in Moving(X)}
<1>11. 0 \in T
  <2>1. 0 \in 0 .. DeviceCount
    BY UnknownIsNoDevice
  <2> QED
    BY <2>1, <1>4, <1>10, Zenon
<1>12. ASSUME NEW k \in 0 .. DeviceCount, k \in T, k < DeviceCount
       PROVE  k + 1 \in T
  <2>1. k + 1 \in 0 .. DeviceCount /\ k + 1 # 0 /\ (k + 1) - 1 = k
    BY <1>12, UnknownIsNoDevice
  <2>2. move[k + 1] = Turn(move[k], to)
    BY <2>1, <1>10, Zenon
  <2>3. move[k] \in Moving(X)
    BY <1>12, Zenon
  <2>4. Turn(move[k], to) \in Moving(X)
    BY <2>3, MoveDeviceType, Zenon DEF Turn
  <2> QED
    BY <2>1, <2>2, <2>4, Zenon
<1>13. 0 .. DeviceCount \subseteq T
  <2> HIDE DEF T
  <2> QED
    BY <1>11, <1>12, UnknownIsNoDevice, IntervalInduction, Zenon
<1>14. move \in [0 .. DeviceCount -> Moving(X)]
  <2>1. move = [k \in 0 .. DeviceCount |-> move[k]]
    BY <1>9, Zenon
  <2> QED
    BY <2>1, <1>13, Zenon
<1>15. move[0] = start /\ \A k \in 1 .. DeviceCount : move[k] = Turn(move[k - 1], to)
  <2>1. 0 \in 0 .. DeviceCount /\ \A k \in 1 .. DeviceCount : k \in 0 .. DeviceCount /\ k # 0
    BY UnknownIsNoDevice
  <2> QED
    BY <2>1, <1>10, Zenon
<1> QED
  BY <1>1, <1>14, <1>15, Zenon DEF start, Moves

\* The devices of H at net n.
Here(H, net, n) == {d \in H : net[d] = n}

\* The devices in R are still to be moved.
Merging(p, R, H, net, from, to) ==
    /\ Lists(p.at, p.next, R)
    /\ Lists(p.first[to], p.next, Here(H, net, to) \cup (Here(H, net, from) \ R))
    /\ \A n \in Nets \ {from, to} : Lists(p.first[n], p.next, Here(H, net, n))
    /\ \A d \in Devices : p.net[d] = IF d \in Here(H, net, from) \ R THEN to ELSE net[d]

LEMMA MergeTurn ==
    ASSUME NEW X, NEW H, H \subseteq Devices, NEW net, NEW from \in Nets, NEW to \in Nets, to \in X,
           from # to, NEW p \in Moving(X), p.at # UNKNOWN_DEVICE,
           NEW R, R \subseteq Here(H, net, from), Merging(p, R, H, net, from, to)
    PROVE  p.at \in R /\ Merging(MoveDevice(p, to), R \ {p.at}, H, net, from, to)
<1> DEFINE d == p.at
           q == MoveDevice(p, to)
<1>1. /\ d \in Devices /\ q.at = p.next[d] /\ q.first = [p.first EXCEPT ![to] = d]
      /\ q.next = [p.next EXCEPT ![d] = p.first[to]] /\ q.net = [p.net EXCEPT ![d] = to]
  BY MoveDeviceType
<1>2. /\ p.at \in Opt /\ p.first \in [Nets -> Opt] /\ p.next \in [Devices -> Opt]
      /\ p.net \in [Devices -> X]
  BY Zenon DEF Moving
<1>3. /\ q.first[to] = d /\ \A n \in Nets \ {from, to} : q.first[n] = p.first[n]
      /\ q.next[d] = p.first[to] /\ \A e \in Devices : e # d => q.next[e] = p.next[e]
      /\ q.net[d] = to /\ \A e \in Devices : e # d => q.net[e] = p.net[e]
  BY <1>1, <1>2, Zenon
<1> HIDE DEF q, d
<1>4. R \subseteq Devices /\ R \subseteq H /\ \A e \in R : net[e] = from
  BY Zenon DEF Here
<1>5. d \in R /\ Lists(p.next[d], p.next, R \ {d})
  BY <1>4, PopList, Zenon DEF Merging, d
<1>6. Lists(q.at, q.next, R \ {d})
  <2>1. \A e \in R \ {d} : q.next[e] = p.next[e]
    BY <1>3, <1>4, Zenon
  <2>2. Lists(p.next[d], q.next, R \ {d})
    BY <2>1, <1>5, SameList, Zenon
  <2> QED
    BY <2>2, <1>1, Zenon
<1>7. Lists(q.first[to], q.next, Here(H, net, to) \cup (Here(H, net, from) \ (R \ {d})))
  <2> DEFINE S == Here(H, net, to) \cup (Here(H, net, from) \ R)
  <2>1. S \subseteq Devices /\ d \notin S
    BY <1>4, <1>5, Zenon DEF Here
  <2>2. Lists(p.first[to], p.next, S)
    BY Zenon DEF Merging
  <2>3. \A e \in S : q.next[e] = p.next[e]
    BY <1>3, <2>1, Zenon
  <2>4. S \cup {d} = Here(H, net, to) \cup (Here(H, net, from) \ (R \ {d}))
    BY <1>5, Zenon
  <2> HIDE DEF S
  <2> DEFINE f == p.first[to]
             next == p.next
             other == q.next
  <2>5. Lists(f, next, S) /\ other[d] = f /\ (\A e \in S : other[e] = next[e]) /\ d \in Devices
    BY <1>1, <1>3, <2>2, <2>3, Zenon
  <2> HIDE DEF f, next, other
  <2>6. Lists(d, other, S \cup {d})
    BY <2>1, <2>5, PushList, Zenon
  <2> QED
    BY <2>4, <2>6, <1>3, Zenon DEF other
<1>8. ASSUME NEW n \in Nets \ {from, to}
      PROVE  Lists(q.first[n], q.next, Here(H, net, n))
  <2>1. Lists(p.first[n], p.next, Here(H, net, n))
    BY Zenon DEF Merging
  <2>2. \A e \in Here(H, net, n) : q.next[e] = p.next[e]
    BY <1>3, <1>4, <1>5, Zenon DEF Here
  <2> QED
    BY <2>1, <2>2, <1>3, SameList
<1>9. ASSUME NEW e \in Devices
      PROVE  q.net[e] = IF e \in Here(H, net, from) \ (R \ {d}) THEN to ELSE net[e]
  <2>1. p.net[e] = IF e \in Here(H, net, from) \ R THEN to ELSE net[e]
    BY Zenon DEF Merging
  <2> QED
    BY <2>1, <1>3, <1>5, Zenon
<1> QED
  BY <1>5, <1>6, <1>7, <1>8, <1>9, Zenon DEF Merging, q, d

\* The lists before, and what MergeConnectionListByTerminals makes of them: every
\* device of H at one net is then at the other, in the nets and in the lists.
MergeInput(X, first, next, net, from, to, H) ==
    /\ first \in [Nets -> Opt] /\ next \in [Devices -> Opt] /\ net \in [Devices -> X]
    /\ from \in Nets /\ to \in Nets /\ to \in X /\ from # to /\ H \subseteq Devices
    /\ \A n \in Nets : Lists(first[n], next, Here(H, net, n))

MergeResult(X, merged, net, from, to, H) ==
    /\ merged.first \in [Nets -> Opt] /\ merged.next \in [Devices -> Opt]
    /\ merged.net \in [Devices -> X]
    /\ \A d \in Devices : merged.net[d] = IF d \in H /\ net[d] = from THEN to ELSE net[d]
    /\ \A n \in Nets : Lists(merged.first[n], merged.next, Here(H, merged.net, n))

LEMMA MergedLists ==
    ASSUME NEW X, NEW first, NEW next, NEW net, NEW from, NEW to, NEW H,
           MergeInput(X, first, next, net, from, to, H)
    PROVE  MergeResult(X, MergeConnectionListByTerminals(first, next, net, from, to), net, from, to, H)
<1> DEFINE merged == MergeConnectionListByTerminals(first, next, net, from, to)
<1> SUFFICES ASSUME first \in [Nets -> Opt], next \in [Devices -> Opt], net \in [Devices -> X],
                    from \in Nets, to \in Nets, to \in X, from # to, H \subseteq Devices,
                    \A n \in Nets : Lists(first[n], next, Here(H, net, n))
             PROVE  MergeResult(X, merged, net, from, to, H)
  BY Zenon DEF MergeInput
<1> DEFINE start == [at |-> first[from], first |-> first, next |-> next, net |-> net]
           F == Here(H, net, from)
           Left(p, k) == \E R \in SUBSET F : /\ Merging(p, R, H, net, from, to)
                                             /\ Cardinality(R) + k <= DeviceCount
<1>0. PICK move : Moves(move, X, first, next, net, from, to)
  BY MergeUnfolded, Zenon
<1>1. /\ move \in [0 .. DeviceCount -> Moving(X)]
      /\ move[0] = start
      /\ \A k \in 1 .. DeviceCount : move[k] = Turn(move[k - 1], to)
      /\ merged = [move[DeviceCount] EXCEPT !.first[from] = UNKNOWN_DEVICE]
  BY <1>0, Zenon DEF Moves
<1> HIDE DEF merged
<1>2. start.at = first[from] /\ start.first = first /\ start.next = next /\ start.net = net
  BY Zenon
<1> HIDE DEF start
<1>3. F \subseteq H /\ F \subseteq Devices /\ F \in SUBSET F
  BY Zenon DEF Here
<1>4. \A R \in SUBSET F : /\ R \subseteq Devices /\ IsFiniteSet(R)
                          /\ Cardinality(R) \in Nat /\ Cardinality(R) <= DeviceCount
  BY <1>3, FiniteDevices, Zenon
<1> DEFINE T == {k \in 0 .. DeviceCount : Left(move[k], k)}
<1>5. 0 \in T
  <2>1. Here(H, net, to) \cup (F \ F) = Here(H, net, to)
    BY Zenon
  <2>2. Merging(start, F, H, net, from, to)
    BY <1>2, <2>1, Zenon DEF Merging
  <2>3. Cardinality(F) + 0 <= DeviceCount /\ 0 \in 0 .. DeviceCount
    BY <1>3, <1>4, UnknownIsNoDevice
  <2> QED
    BY <1>1, <1>3, <2>2, <2>3, Zenon
<1>6. ASSUME NEW k \in 0 .. DeviceCount, k \in T, k < DeviceCount
      PROVE  k + 1 \in T
  <2>1. k + 1 \in 1 .. DeviceCount /\ k + 1 \in 0 .. DeviceCount /\ (k + 1) - 1 = k
    BY <1>6, UnknownIsNoDevice
  <2>2. move[k + 1] = Turn(move[k], to) /\ move[k] \in Moving(X)
    <3>1. move[k + 1] = Turn(move[(k + 1) - 1], to)
      BY <2>1, <1>1, Zenon
    <3> QED
      BY <3>1, <2>1, <1>1, Zenon
  <2>3. PICK R \in SUBSET F : Merging(move[k], R, H, net, from, to) /\ Cardinality(R) + k <= DeviceCount
    BY <1>6, Zenon
  <2>4. CASE move[k].at = UNKNOWN_DEVICE
    <3>1. R = {}
      <4>1. Lists(UNKNOWN_DEVICE, move[k].next, R) /\ R \subseteq Devices
        BY <2>3, <2>4, <1>4, Zenon DEF Merging
      <4> QED
        BY <4>1, UnknownList, Zenon
    <3>2. Cardinality(R) = 0
      BY <3>1, FS_EmptySet, Zenon
    <3>3. Cardinality(R) + (k + 1) <= DeviceCount
      BY <3>2, <1>6, UnknownIsNoDevice
    <3>4. move[k + 1] = move[k]
      BY <2>2, <2>4, Zenon DEF Turn
    <3> QED
      BY <3>3, <3>4, <2>1, <2>3, Zenon
  <2>5. CASE move[k].at # UNKNOWN_DEVICE
    <3> DEFINE d == move[k].at
    <3>1. R \subseteq Here(H, net, from)
      BY Zenon
    <3>2. d \in R /\ Merging(MoveDevice(move[k], to), R \ {d}, H, net, from, to)
      BY <2>2, <2>3, <2>5, <3>1, MergeTurn, Zenon
    <3>3. Cardinality(R \ {d}) = Cardinality(R) - 1
      BY <3>2, <1>4, FS_RemoveElement
    <3>4. Cardinality(R \ {d}) + (k + 1) <= DeviceCount
      BY <3>3, <2>3, <1>4, UnknownIsNoDevice
    <3>5. move[k + 1] = MoveDevice(move[k], to)
      BY <2>2, <2>5, Zenon DEF Turn
    <3>6. R \ {d} \in SUBSET F
      BY Zenon
    <3> QED
      BY <3>2, <3>4, <3>5, <3>6, <2>1, Zenon
  <2> QED
    BY <2>4, <2>5, Zenon
<1>7. 0 .. DeviceCount \subseteq T
  <2> HIDE DEF T
  <2> QED
    BY <1>5, <1>6, UnknownIsNoDevice, IntervalInduction, Zenon
<1> DEFINE p == move[DeviceCount]
<1>8. DeviceCount \in 0 .. DeviceCount
  BY UnknownIsNoDevice
<1>9. PICK R \in SUBSET F : /\ Merging(p, R, H, net, from, to)
                            /\ Cardinality(R) + DeviceCount <= DeviceCount
  BY <1>7, <1>8, Zenon
<1>10. R = {}
  <2>1. Cardinality(R) = 0
    BY <1>4, <1>9, UnknownIsNoDevice
  <2> QED
    BY <2>1, <1>4, FS_EmptySet, Zenon
<1>11. p \in Moving(X) /\ merged = [p EXCEPT !.first[from] = UNKNOWN_DEVICE]
  BY <1>1, <1>8, Zenon
<1> HIDE DEF p
<1>12. /\ p.first \in [Nets -> Opt] /\ p.next \in [Devices -> Opt] /\ p.net \in [Devices -> X]
       /\ merged.first = [p.first EXCEPT ![from] = UNKNOWN_DEVICE]
       /\ merged.next = p.next /\ merged.net = p.net
  BY <1>11, Zenon DEF Moving
<1>13. UNKNOWN_DEVICE \in Opt
  BY Zenon DEF Opt
<1>14. \A d \in Devices : merged.net[d] = IF d \in H /\ net[d] = from THEN to ELSE net[d]
  <2>1. \A d \in Devices : p.net[d] = IF d \in Here(H, net, from) \ R THEN to ELSE net[d]
    BY <1>9, Zenon DEF Merging
  <2> QED
    BY <2>1, <1>10, <1>12, Zenon DEF Here
<1>15. ASSUME NEW n \in Nets
       PROVE  Lists(merged.first[n], merged.next, Here(H, merged.net, n))
  <2>1. CASE n = from
    <3>1. Here(H, merged.net, n) = {}
      BY <1>14, <2>1, Zenon DEF Here
    <3>2. merged.first[n] = UNKNOWN_DEVICE
      BY <2>1, <1>12, Zenon
    <3> QED
      BY <3>1, <3>2, EmptyList, Zenon
  <2>2. CASE n # from
    <3>1. merged.first[n] = p.first[n]
      BY <2>2, <1>12, Zenon
    <3>2. CASE n = to
      <4>1. Here(H, merged.net, n) = Here(H, net, to) \cup (Here(H, net, from) \ R)
        BY <1>10, <1>14, <3>2, Zenon DEF Here
      <4> QED
        BY <4>1, <3>1, <3>2, <1>9, <1>12, Zenon DEF Merging
    <3>3. CASE n # to
      <4>1. Here(H, merged.net, n) = Here(H, net, n)
        BY <1>14, <2>2, <3>3, Zenon DEF Here
      <4> QED
        BY <4>1, <3>1, <3>3, <2>2, <1>9, <1>12, Zenon DEF Merging
    <3> QED
      BY <3>2, <3>3, Zenon
  <2> QED
    BY <2>1, <2>2, Zenon
<1>16. merged.first \in [Nets -> Opt]
  BY <1>12, <1>13, Zenon
<1> QED
  BY <1>12, <1>14, <1>15, <1>16, Zenon DEF MergeResult

-----------------------------------------------------------------------------
(* Building the lists.                                                     *)

\* A state of the loop of LinkDevices.
Linking == [first : [Terminals -> [Nets -> Opt]], next : [Terminals -> [Devices -> Opt]]]

\* A terminal that is linked has a net.
Placed(net) == \A t \in Terminals, d \in Devices : Links(net, d, t) => net[t][d] \in Nets

\* The lists m are the lists l with device d in front.
LinkedTo(net, d, l, m) ==
    \A t \in Terminals :
        /\ m.first[t] = IF Links(net, d, t) THEN [l.first[t] EXCEPT ![net[t][d]] = d] ELSE l.first[t]
        /\ m.next[t] = IF Links(net, d, t) THEN [l.next[t] EXCEPT ![d] = l.first[t][net[t][d]]]
                       ELSE l.next[t]

LEMMA LinkDeviceType ==
    ASSUME NEW net, Placed(net), NEW d \in Devices, NEW l \in Linking
    PROVE  LinkDevice(net, d, l) \in Linking /\ LinkedTo(net, d, l, LinkDevice(net, d, l))
<1> DEFINE first == [t \in Terminals |->
              IF Links(net, d, t) THEN [l.first[t] EXCEPT ![net[t][d]] = d] ELSE l.first[t]]
           next == [t \in Terminals |->
              IF Links(net, d, t) THEN [l.next[t] EXCEPT ![d] = l.first[t][net[t][d]]] ELSE l.next[t]]
<1>1. l.first \in [Terminals -> [Nets -> Opt]] /\ l.next \in [Terminals -> [Devices -> Opt]]
  BY Zenon DEF Linking
<1>2. ASSUME NEW t \in Terminals
      PROVE  first[t] \in [Nets -> Opt] /\ next[t] \in [Devices -> Opt]
  <2>1. l.first[t] \in [Nets -> Opt] /\ l.next[t] \in [Devices -> Opt] /\ d \in Opt
    BY <1>1, Zenon DEF Opt
  <2>2. CASE Links(net, d, t)
    <3>1. net[t][d] \in Nets
      BY <2>2, Zenon DEF Placed
    <3>2. l.first[t][net[t][d]] \in Opt
      BY <2>1, <3>1, Zenon
    <3> QED
      BY <2>1, <2>2, <3>1, <3>2, Zenon
  <2>3. CASE ~ Links(net, d, t)
    BY <2>1, <2>3, Zenon
  <2> QED
    BY <2>2, <2>3, Zenon
<1>3. first \in [Terminals -> [Nets -> Opt]] /\ next \in [Terminals -> [Devices -> Opt]]
  BY <1>2, Zenon
<1>4. LinkDevice(net, d, l) = [first |-> first, next |-> next]
  BY Zenon DEF LinkDevice
<1>5. \A t \in Terminals :
         /\ first[t] = IF Links(net, d, t) THEN [l.first[t] EXCEPT ![net[t][d]] = d] ELSE l.first[t]
         /\ next[t] = IF Links(net, d, t) THEN [l.next[t] EXCEPT ![d] = l.first[t][net[t][d]]]
                      ELSE l.next[t]
  BY Zenon
<1> HIDE DEF first, next
<1>6. LinkDevice(net, d, l) \in Linking
  BY <1>3, <1>4 DEF Linking
<1>7. LinkDevice(net, d, l).first = first /\ LinkDevice(net, d, l).next = next
  BY <1>4
<1> QED
  BY <1>5, <1>6, <1>7, Zenon DEF LinkedTo

NoLinks == [first |-> [t \in Terminals |-> [n \in Nets |-> UNKNOWN_DEVICE]],
            next |-> [t \in Terminals |-> [d \in Devices |-> UNKNOWN_DEVICE]]]

LEMMA LinkUnfolded ==
    ASSUME NEW net, Placed(net)
    PROVE  \E link \in [0 .. DeviceCount -> Linking] :
              /\ link[0] = NoLinks
              /\ \A k \in 1 .. DeviceCount : link[k] = LinkDevice(net, k, link[k - 1])
              /\ LinkDevices(net) = link[DeviceCount]
<1> DEFINE link[k \in 0 .. DeviceCount] ==
              IF k = 0 THEN [first |-> [t \in Terminals |-> [n \in Nets |-> UNKNOWN_DEVICE]],
                             next |-> [t \in Terminals |-> [d \in Devices |-> UNKNOWN_DEVICE]]]
              ELSE LinkDevice(net, k, link[k - 1])
           body(f) == [k \in 0 .. DeviceCount |-> IF k = 0 THEN NoLinks ELSE LinkDevice(net, k, f[k - 1])]
           g == [k \in 1 .. DeviceCount |-> [l \in Linking |-> LinkDevice(net, k, l)]]
<1>1. LinkDevices(net) = link[DeviceCount]
  BY Zenon DEF LinkDevices
<1>2. link = CHOOSE f : f = body(f)
  BY Zenon DEF NoLinks
<1> HIDE DEF link
<1>3. \A k \in 1 .. DeviceCount : \A l \in Linking : LinkDevice(net, k, l) \in Linking
  BY LinkDeviceType, Zenon DEF Devices
<1>4. g \in [1 .. DeviceCount -> [Linking -> Linking]]
  BY <1>3, Zenon
<1>5. NoLinks \in Linking
  BY Zenon DEF NoLinks, Linking, Opt
<1>6. PICK f : Recursive(f, DeviceCount, Linking, NoLinks, g)
  <2> HIDE DEF g
  <2> QED
    BY <1>4, <1>5, UnknownIsNoDevice, RecursionUpTo, Zenon
<1>7. /\ f \in [0 .. DeviceCount -> Linking] /\ f[0] = NoLinks
      /\ \A k \in 1 .. DeviceCount : f[k] = g[k][f[k - 1]]
  BY <1>6, Zenon DEF Recursive
<1>8. \A k \in 1 .. DeviceCount : f[k] = LinkDevice(net, k, f[k - 1])
  <2>1. ASSUME NEW k \in 1 .. DeviceCount
        PROVE  f[k] = LinkDevice(net, k, f[k - 1])
    <3>1. k - 1 \in 0 .. DeviceCount
      BY UnknownIsNoDevice
    <3>2. f[k - 1] \in Linking /\ f[k] = g[k][f[k - 1]]
      BY <3>1, <1>7, Zenon
    <3> QED
      BY <3>2, Zenon
  <2> QED
    BY <2>1, Zenon
<1>9. ASSUME NEW k \in 0 .. DeviceCount
      PROVE  f[k] = body(f)[k]
  <2>1. CASE k = 0
    BY <2>1, <1>7, Zenon
  <2>2. CASE k # 0
    <3>1. k \in 1 .. DeviceCount
      BY <2>2, UnknownIsNoDevice
    <3> QED
      BY <3>1, <2>2, <1>8, Zenon
  <2> QED
    BY <2>1, <2>2, Zenon
<1>10. f = body(f)
  BY <1>7, <1>9, Zenon
<1>11. link = body(link)
  <2> HIDE DEF body
  <2> QED
    BY <1>2, <1>10, Zenon
<1>12. ASSUME NEW k \in 0 .. DeviceCount
       PROVE  link[k] = IF k = 0 THEN NoLinks ELSE LinkDevice(net, k, link[k - 1])
  <2>1. link[k] = body(link)[k]
    BY <1>11, Zenon
  <2> QED
    BY <2>1, Zenon
<1> DEFINE T == {k \in 0 .. DeviceCount : link[k] \in Linking}
<1>13. 0 \in T
  <2>1. 0 \in 0 .. DeviceCount
    BY UnknownIsNoDevice
  <2> QED
    BY <2>1, <1>5, <1>12, Zenon
<1>14. ASSUME NEW k \in 0 .. DeviceCount, k \in T, k < DeviceCount
       PROVE  k + 1 \in T
  <2>1. k + 1 \in 1 .. DeviceCount /\ k + 1 \in 0 .. DeviceCount /\ k + 1 # 0 /\ (k + 1) - 1 = k
    BY <1>14, UnknownIsNoDevice
  <2>2. link[k + 1] = LinkDevice(net, k + 1, link[k])
    BY <2>1, <1>12, Zenon
  <2>3. link[k] \in Linking
    BY <1>14, Zenon
  <2> QED
    BY <2>1, <2>2, <2>3, <1>3, Zenon
<1>15. 0 .. DeviceCount \subseteq T
  <2> HIDE DEF T
  <2> QED
    BY <1>13, <1>14, UnknownIsNoDevice, IntervalInduction, Zenon
<1>16. link \in [0 .. DeviceCount -> Linking]
  <2>1. link = [k \in 0 .. DeviceCount |-> link[k]]
    BY <1>11, Zenon
  <2> QED
    BY <2>1, <1>15, Zenon
<1>17. link[0] = NoLinks /\ \A k \in 1 .. DeviceCount : link[k] = LinkDevice(net, k, link[k - 1])
  <2>1. 0 \in 0 .. DeviceCount /\ \A k \in 1 .. DeviceCount : k \in 0 .. DeviceCount /\ k # 0
    BY UnknownIsNoDevice
  <2> QED
    BY <2>1, <1>12, Zenon
<1> QED
  BY <1>1, <1>16, <1>17, Zenon

\* The devices that are in the list of terminal t at net n.
Listed(net, t, n) == {d \in Devices : Links(net, d, t) /\ net[t][d] = n}

\* LinkDevices leaves each terminal that is linked in the list of its net.
LEMMA LinkedLists ==
    ASSUME NEW net, Placed(net)
    PROVE  /\ LinkDevices(net).first \in [Terminals -> [Nets -> Opt]]
           /\ LinkDevices(net).next \in [Terminals -> [Devices -> Opt]]
           /\ \A t \in Terminals, n \in Nets :
                 Lists(LinkDevices(net).first[t][n], LinkDevices(net).next[t], Listed(net, t, n))
<1>1. PICK link \in [0 .. DeviceCount -> Linking] :
         /\ link[0] = NoLinks
         /\ \A k \in 1 .. DeviceCount : link[k] = LinkDevice(net, k, link[k - 1])
         /\ LinkDevices(net) = link[DeviceCount]
  BY LinkUnfolded, Zenon
<1> DEFINE To(t, n, k) == {d \in Listed(net, t, n) : d <= k}
           All(k) == \A t \in Terminals, n \in Nets :
                        Lists(link[k].first[t][n], link[k].next[t], To(t, n, k))
           T == {k \in 0 .. DeviceCount : All(k)}
<1>2. 0 \in T
  <2>1. \A t, n : To(t, n, 0) = {}
    BY UnknownIsNoDevice DEF Listed, Devices
  <2>2. NoLinks.first = [t \in Terminals |-> [n \in Nets |-> UNKNOWN_DEVICE]]
    BY Zenon DEF NoLinks
  <2>3. \A t \in Terminals, n \in Nets : link[0].first[t][n] = UNKNOWN_DEVICE
    BY <1>1, <2>2
  <2> HIDE DEF To
  <2>4. 0 \in 0 .. DeviceCount
    BY UnknownIsNoDevice
  <2> QED
    BY <2>1, <2>3, <2>4, EmptyList, Zenon
<1>3. ASSUME NEW k \in 0 .. DeviceCount, k \in T, k < DeviceCount
      PROVE  k + 1 \in T
  <2> DEFINE d == k + 1
             l == link[k]
             m == link[d]
  <2>1. d \in 1 .. DeviceCount /\ d \in 0 .. DeviceCount /\ d - 1 = k
    BY <1>3, UnknownIsNoDevice
  <2>2. d \in Devices
    BY <2>1, Zenon DEF Devices
  <2>3. m = LinkDevice(net, d, l) /\ l \in Linking
    <3>1. m = LinkDevice(net, d, link[d - 1])
      BY <2>1, <1>1, Zenon
    <3> QED
      BY <3>1, <2>1, <1>1, Zenon
  <2>4. \A t \in Terminals :
           /\ m.first[t] = IF Links(net, d, t) THEN [l.first[t] EXCEPT ![net[t][d]] = d] ELSE l.first[t]
           /\ m.next[t] = IF Links(net, d, t) THEN [l.next[t] EXCEPT ![d] = l.first[t][net[t][d]]]
                          ELSE l.next[t]
    <3>1. LinkedTo(net, d, l, m)
      BY <2>2, <2>3, LinkDeviceType, Zenon
    <3> HIDE DEF d, l, m
    <3> QED
      BY <3>1, Zenon DEF LinkedTo
  <2>5. l.first \in [Terminals -> [Nets -> Opt]] /\ l.next \in [Terminals -> [Devices -> Opt]]
    BY <2>3, Zenon DEF Linking
  <2>6. \A t, n : /\ To(t, n, k) \subseteq Devices /\ d \notin To(t, n, k)
                  /\ To(t, n, d) = IF Links(net, d, t) /\ net[t][d] = n THEN To(t, n, k) \cup {d}
                                   ELSE To(t, n, k)
    BY <2>1, <2>2 DEF Listed, Devices
  <2>7. All(k)
    BY <1>3, Zenon
  <2> HIDE DEF To, d, l, m
  <2>8. ASSUME NEW t \in Terminals, NEW n \in Nets
        PROVE  Lists(m.first[t][n], m.next[t], To(t, n, d))
    <3> DEFINE f == l.first[t][n]
               next == l.next[t]
               other == m.next[t]
               S == To(t, n, k)
    <3>1. Lists(f, next, S)
      BY <2>7, Zenon DEF l
    <3>2. l.first[t] \in [Nets -> Opt] /\ next \in [Devices -> Opt]
      BY <2>5, Zenon
    <3>3. S \subseteq Devices /\ d \notin S
      BY <2>6, Zenon
    <3>4. CASE Links(net, d, t) /\ net[t][d] = n
      <4>1. m.first[t][n] = d /\ other[d] = f
        BY <3>2, <3>4, <2>2, <2>4, Zenon
      <4>2. \A e \in S : other[e] = next[e]
        BY <3>2, <3>3, <3>4, <2>4, Zenon
      <4>3. To(t, n, d) = S \cup {d}
        BY <3>4, <2>6, Zenon
      <4> HIDE DEF f, next, other, S
      <4>4. Lists(d, other, S \cup {d})
        BY <4>1, <4>2, <3>1, <3>3, <2>2, PushList, Zenon
      <4> QED
        BY <4>1, <4>3, <4>4, Zenon DEF other
    <3>5. CASE ~ (Links(net, d, t) /\ net[t][d] = n)
      <4>1. m.first[t][n] = f
        BY <3>2, <3>5, <2>4, Zenon
      <4>2. \A e \in S : other[e] = next[e]
        BY <3>2, <3>3, <2>4, Zenon
      <4>3. To(t, n, d) = S
        BY <3>5, <2>6, Zenon
      <4> HIDE DEF f, next, other, S
      <4>4. Lists(f, other, S)
        BY <4>2, <3>1, SameList, Zenon
      <4> QED
        BY <4>1, <4>3, <4>4, Zenon DEF other
    <3> QED
      BY <3>4, <3>5, Zenon
  <2> QED
    BY <2>1, <2>8, Zenon DEF d, m
<1>4. 0 .. DeviceCount \subseteq T
  <2> HIDE DEF T
  <2> QED
    BY <1>2, <1>3, UnknownIsNoDevice, IntervalInduction, Zenon
<1>5. DeviceCount \in 0 .. DeviceCount /\ \A t, n : To(t, n, DeviceCount) = Listed(net, t, n)
  BY UnknownIsNoDevice DEF Listed, Devices
<1> HIDE DEF To
<1>6. \A t \in Terminals, n \in Nets :
         Lists(LinkDevices(net).first[t][n], LinkDevices(net).next[t], Listed(net, t, n))
  BY <1>1, <1>4, <1>5, Zenon
<1>7. LinkDevices(net) \in Linking
  BY <1>1, <1>5, Zenon
<1>8. /\ LinkDevices(net).first \in [Terminals -> [Nets -> Opt]]
      /\ LinkDevices(net).next \in [Terminals -> [Devices -> Opt]]
  BY <1>7, Zenon DEF Linking
<1> QED
  BY <1>6, <1>8, Zenon

-----------------------------------------------------------------------------
(* The chains of virtual nets.                                             *)

LEMMA EndUnfolded ==
    ASSUME nextNetId \in [Nets -> Nets], NEW n \in Nets
    PROVE  \E at \in [0 .. Cardinality(Nets) -> Nets] :
              /\ at[0] = n
              /\ \A k \in 1 .. Cardinality(Nets) : at[k] = nextNetId[at[k - 1]]
              /\ End(n) = at[Cardinality(Nets)]
<1> DEFINE N == Cardinality(Nets)
           at[k \in 0 .. N] == IF k = 0 THEN n ELSE nextNetId[at[k - 1]]
           body(f) == [k \in 0 .. N |-> IF k = 0 THEN n ELSE nextNetId[f[k - 1]]]
           g == [k \in 1 .. N |-> nextNetId]
<1>1. End(n) = at[N]
  BY Zenon DEF End
<1>2. at = CHOOSE f : f = body(f)
  BY Zenon
<1> HIDE DEF at
<1>3. N \in Nat
  BY NetsAssumption, FS_CardinalityType, Zenon
<1> HIDE DEF N
<1>4. g \in [1 .. N -> [Nets -> Nets]]
  BY Zenon
<1>5. PICK f : Recursive(f, N, Nets, n, g)
  <2> HIDE DEF g
  <2> QED
    BY <1>3, <1>4, RecursionUpTo, Zenon
<1>6. /\ f \in [0 .. N -> Nets] /\ f[0] = n
      /\ \A k \in 1 .. N : f[k] = g[k][f[k - 1]]
  BY <1>5, Zenon DEF Recursive
<1>7. ASSUME NEW k \in 0 .. N
      PROVE  f[k] = body(f)[k]
  <2>1. CASE k = 0
    BY <2>1, <1>6, Zenon
  <2>2. CASE k # 0
    <3>1. k \in 1 .. N
      BY <2>2, <1>3
    <3> QED
      BY <3>1, <2>2, <1>6, Zenon
  <2> QED
    BY <2>1, <2>2, Zenon
<1>8. f = body(f)
  BY <1>6, <1>7, Zenon
<1>9. at = body(at)
  <2> HIDE DEF body
  <2> QED
    BY <1>2, <1>8, Zenon
<1>10. ASSUME NEW k \in 0 .. N
       PROVE  at[k] = IF k = 0 THEN n ELSE nextNetId[at[k - 1]]
  <2>1. at[k] = body(at)[k]
    BY <1>9, Zenon
  <2> QED
    BY <2>1, Zenon
<1> DEFINE T == {k \in 0 .. N : at[k] \in Nets}
<1>11. 0 \in T
  <2>1. 0 \in 0 .. N
    BY <1>3
  <2> QED
    BY <2>1, <1>10, Zenon
<1>12. ASSUME NEW k \in 0 .. N, k \in T, k < N
       PROVE  k + 1 \in T
  <2>1. k + 1 \in 0 .. N /\ k + 1 # 0 /\ (k + 1) - 1 = k
    BY <1>12, <1>3
  <2>2. at[k + 1] = nextNetId[at[k]] /\ at[k] \in Nets
    BY <2>1, <1>10, <1>12, Zenon
  <2> QED
    BY <2>1, <2>2, Zenon
<1>13. 0 .. N \subseteq T
  <2> HIDE DEF T
  <2> QED
    BY <1>11, <1>12, <1>3, IntervalInduction, Zenon
<1>14. at \in [0 .. N -> Nets]
  <2>1. at = [k \in 0 .. N |-> at[k]]
    BY <1>9, Zenon
  <2> QED
    BY <2>1, <1>13, Zenon
<1>15. at[0] = n /\ \A k \in 1 .. N : at[k] = nextNetId[at[k - 1]]
  <2>1. 0 \in 0 .. N /\ \A k \in 1 .. N : k \in 0 .. N /\ k # 0
    BY <1>3
  <2> QED
    BY <2>1, <1>10, Zenon
<1> QED
  BY <1>1, <1>14, <1>15, Zenon DEF N

\* The nets that were merged into others.
MergedAway == {n \in Nets : nextNetId[n] # n}

\* root[n] is where the chain from n ends, and depth[n] how far that is: no chain
\* is longer than there are nets merged away.
Chained(root, depth) ==
    /\ root \in [Nets -> Nets] /\ depth \in [Nets -> Nat]
    /\ \A n \in Nets : nextNetId[root[n]] = root[n] /\ root[nextNetId[n]] = root[n]
    /\ \A n \in Nets : nextNetId[n] = n => root[n] = n /\ depth[n] = 0
    /\ \A n \in Nets : nextNetId[n] # n => depth[nextNetId[n]] < depth[n]
    /\ \A n \in Nets : depth[n] <= Cardinality(MergedAway)

LEMMA MergedAwayFinite ==
    /\ IsFiniteSet(MergedAway) /\ Cardinality(MergedAway) \in Nat /\ Cardinality(Nets) \in Nat
    /\ Cardinality(MergedAway) <= Cardinality(Nets)
<1>1. MergedAway \in SUBSET Nets
  BY Zenon DEF MergedAway
<1>2. IsFiniteSet(MergedAway) /\ Cardinality(MergedAway) <= Cardinality(Nets)
  BY <1>1, NetsAssumption, FS_Subset, Zenon
<1> QED
  BY <1>2, NetsAssumption, FS_CardinalityType, Zenon

\* As many steps as there are nets lead to the end of any chain.
LEMMA EndIsRoot ==
    ASSUME nextNetId \in [Nets -> Nets], NEW root, NEW depth, Chained(root, depth), NEW n \in Nets
    PROVE  End(n) = root[n]
<1> DEFINE N == Cardinality(Nets)
<1>1. PICK at \in [0 .. N -> Nets] :
         /\ at[0] = n /\ End(n) = at[N]
         /\ \A k \in 1 .. N : at[k] = nextNetId[at[k - 1]]
  BY EndUnfolded, Zenon
<1>2. N \in Nat /\ Cardinality(MergedAway) \in Nat /\ Cardinality(MergedAway) <= N
  BY MergedAwayFinite, Zenon
<1> HIDE DEF N
<1>3. /\ root \in [Nets -> Nets] /\ depth \in [Nets -> Nat]
      /\ \A x \in Nets : root[nextNetId[x]] = root[x]
      /\ \A x \in Nets : nextNetId[x] = x => root[x] = x
      /\ \A x \in Nets : nextNetId[x] # x => depth[nextNetId[x]] < depth[x]
      /\ depth[n] <= Cardinality(MergedAway)
  BY Zenon DEF Chained
<1> DEFINE Near(x, k) == root[x] = root[n] /\ (nextNetId[x] = x \/ depth[x] + k <= depth[n])
           T == {k \in 0 .. N : Near(at[k], k)}
<1>4. 0 \in T
  <2>1. 0 \in 0 .. N /\ depth[n] + 0 <= depth[n]
    BY <1>2, <1>3
  <2> QED
    BY <2>1, <1>1, Zenon
<1>5. ASSUME NEW k \in 0 .. N, k \in T, k < N
      PROVE  k + 1 \in T
  <2> DEFINE x == at[k]
             y == at[k + 1]
  <2>1. k + 1 \in 1 .. N /\ k + 1 \in 0 .. N /\ (k + 1) - 1 = k
    BY <1>5, <1>2
  <2>2. x \in Nets /\ Near(x, k)
    BY <1>5, <1>1, Zenon
  <2>3. y = nextNetId[x] /\ y \in Nets
    <3>1. y = nextNetId[at[(k + 1) - 1]]
      BY <2>1, <1>1, Zenon
    <3> QED
      BY <3>1, <2>1, <2>2, Zenon
  <2> HIDE DEF x, y
  <2>4. root[y] = root[n]
    BY <2>2, <2>3, <1>3, Zenon
  <2>5. nextNetId[x] = x => nextNetId[y] = y
    BY <2>3, Zenon
  <2>6. ASSUME nextNetId[x] # x
        PROVE  depth[y] + (k + 1) <= depth[n]
    <3>1. depth[y] < depth[x] /\ depth[x] + k <= depth[n]
      BY <2>2, <2>3, <2>6, <1>3, Zenon
    <3>2. depth[x] \in Nat /\ depth[y] \in Nat /\ depth[n] \in Nat
      BY <2>2, <2>3, <1>3, Zenon
    <3> QED
      BY <3>1, <3>2
  <2> QED
    BY <2>1, <2>4, <2>5, <2>6, Zenon DEF y
<1>6. 0 .. N \subseteq T
  <2> HIDE DEF T
  <2> QED
    BY <1>4, <1>5, <1>2, IntervalInduction, Zenon
<1> DEFINE e == at[N]
<1>7. e \in Nets /\ Near(e, N)
  <2>1. N \in 0 .. N
    BY <1>2
  <2> QED
    BY <2>1, <1>1, <1>6, Zenon
<1> HIDE DEF e
<1>8. nextNetId[e] = e
  <2>1. SUFFICES ASSUME nextNetId[e] # e
                 PROVE  FALSE
    BY Zenon
  <2>2. depth[e] + N <= depth[n] /\ depth[nextNetId[e]] < depth[e]
    BY <2>1, <1>3, <1>7, Zenon
  <2>3. depth[e] \in Nat /\ depth[nextNetId[e]] \in Nat /\ depth[n] \in Nat
    BY <1>3, <1>7, Zenon
  <2> QED
    BY <2>2, <2>3, <1>2, <1>3
<1> QED
  BY <1>1, <1>3, <1>7, <1>8, Zenon DEF e

\* CVirtualNetVector::Set, for two nets at the end of their chains.
SetStep(from, to) ==
    /\ nextNetId \in [Nets -> Nets] /\ from \in Nets /\ to \in Nets /\ from # to
    /\ nextNetId[from] = from /\ nextNetId[to] = to
    /\ nextNetId' = [nextNetId EXCEPT ![from] = to]

Rerouted(root, from, to) == [n \in Nets |-> IF root[n] = from THEN to ELSE root[n]]
Deeper(depth, root, from) == [n \in Nets |-> IF root[n] = from THEN depth[n] + 1 ELSE depth[n]]

LEMMA ChainedAfterSet ==
    ASSUME NEW root, NEW depth, Chained(root, depth), NEW from, NEW to, SetStep(from, to)
    PROVE  Chained(Rerouted(root, from, to), Deeper(depth, root, from))'
<1> DEFINE root2 == Rerouted(root, from, to)
           depth2 == Deeper(depth, root, from)
<1> SUFFICES ASSUME nextNetId \in [Nets -> Nets], from \in Nets, to \in Nets, from # to,
                    nextNetId[from] = from, nextNetId[to] = to,
                    nextNetId' = [nextNetId EXCEPT ![from] = to]
             PROVE  Chained(root2, depth2)'
  BY Zenon DEF SetStep
<1>1. /\ root \in [Nets -> Nets] /\ depth \in [Nets -> Nat]
      /\ \A n \in Nets : nextNetId[root[n]] = root[n] /\ root[nextNetId[n]] = root[n]
      /\ \A n \in Nets : nextNetId[n] = n => root[n] = n /\ depth[n] = 0
      /\ \A n \in Nets : nextNetId[n] # n => depth[nextNetId[n]] < depth[n]
      /\ \A n \in Nets : depth[n] <= Cardinality(MergedAway)
  BY Zenon DEF Chained
<1>2. root[from] = from /\ root[to] = to /\ depth[from] = 0 /\ depth[to] = 0
  BY <1>1, Zenon
<1>3. nextNetId'[from] = to /\ \A n \in Nets : n # from => nextNetId'[n] = nextNetId[n]
  BY Zenon
<1>4. \A n \in Nets : /\ root[n] \in Nets /\ depth[n] \in Nat /\ nextNetId[n] \in Nets
                      /\ root2[n] = IF root[n] = from THEN to ELSE root[n]
                      /\ depth2[n] = IF root[n] = from THEN depth[n] + 1 ELSE depth[n]
  BY <1>1, Zenon DEF Rerouted, Deeper
<1>5. root2 \in [Nets -> Nets]
  BY <1>1, Zenon DEF Rerouted
<1>6. depth2 \in [Nets -> Nat]
  <2>1. \A n \in Nets : (IF root[n] = from THEN depth[n] + 1 ELSE depth[n]) \in Nat
    BY <1>4
  <2> QED
    BY <2>1, Zenon DEF Deeper
<1> HIDE DEF root2, depth2
<1>7. ASSUME NEW n \in Nets
      PROVE  /\ nextNetId'[root2[n]] = root2[n]
             /\ root2[nextNetId'[n]] = root2[n]
             /\ nextNetId'[n] = n => root2[n] = n /\ depth2[n] = 0
  <2>1. nextNetId'[root2[n]] = root2[n]
    BY <1>1, <1>3, <1>4
  <2>2. root2[nextNetId'[n]] = root2[n]
    BY <1>1, <1>2, <1>3, <1>4
  <2>3. ASSUME nextNetId'[n] = n
        PROVE  root2[n] = n /\ depth2[n] = 0
    <3>1. n # from /\ nextNetId[n] = n
      BY <1>3, <2>3, Zenon
    <3>2. root[n] = n /\ depth[n] = 0
      BY <3>1, <1>1, Zenon
    <3> QED
      BY <3>1, <3>2, <1>4, Zenon
  <2> QED
    BY <2>1, <2>2, <2>3, Zenon
<1>8. ASSUME NEW n \in Nets, nextNetId'[n] # n
      PROVE  depth2[nextNetId'[n]] < depth2[n]
  <2>1. CASE n = from
    <3>1. depth2[nextNetId'[n]] = 0 /\ depth2[n] = 0 + 1
      BY <2>1, <1>2, <1>3, <1>4
    <3> QED
      BY <3>1
  <2>2. CASE n # from
    <3> DEFINE m == nextNetId[n]
    <3>1. m \in Nets /\ nextNetId'[n] = m /\ depth[m] < depth[n] /\ root[m] = root[n]
      BY <2>2, <1>1, <1>3, <1>8, Zenon
    <3> QED
      BY <3>1, <1>4
  <2> QED
    BY <2>1, <2>2, Zenon
<1>9. \A n \in Nets : depth2[n] <= Cardinality(MergedAway')
  <2>1. MergedAway' = MergedAway \cup {from} /\ from \notin MergedAway
    <3>1. \A n \in Nets : nextNetId'[n] # n <=> nextNetId[n] # n \/ n = from
      BY <1>3, Zenon
    <3> QED
      BY <3>1, Zenon DEF MergedAway
  <2>2. Cardinality(MergedAway') = Cardinality(MergedAway) + 1
    BY <2>1, MergedAwayFinite, FS_AddElement, Zenon
  <2> QED
    BY <2>2, <1>1, <1>4, MergedAwayFinite
<1> QED
  BY <1>5, <1>6, <1>7, <1>8, <1>9, Zenon DEF Chained

-----------------------------------------------------------------------------
(* The invariant.                                                          *)

Ends == {"source", "drain"}
MaybeNets == Nets \cup {UNKNOWN_NET}

Typed ==
    /\ resistors \subseteq Devices /\ inactive \subseteq Devices
    /\ nextNetId \in [Nets -> Nets] /\ device_it \in Nat
    /\ \A t \in Terminals : /\ net_v[t] \in [Devices -> MaybeNets]
                            /\ first_v[t] \in [Nets -> Opt] /\ next_v[t] \in [Devices -> Opt]
    /\ \A t \in Ends, d \in Devices : net_v[t][d] \in Nets
    /\ Placed(original)
    /\ count \in [Terminals -> [Nets -> Int]]

\* The devices in a list of terminal t.
InList(t) == {d \in Devices : Links(original, d, t)}

ListsKept ==
    \A t \in Terminals : \A n \in Nets : Lists(first_v[t][n], next_v[t], Here(InList(t), net_v[t], n))

\* The active devices with terminal t at net n.
At(t, n) == {d \in Devices \ inactive : net_v[t][d] = n}

\* The counts are those of the active devices.
Counts == \A t \in Ends, n \in Nets : count[t][n] = Cardinality(At(t, n))

\* An active device is where it was.
Unmoved ==
    \A d \in Devices \ inactive :
        /\ original["source"][d] # original["drain"][d]
        /\ \A t \in Ends : net_v[t][d] = original[t][d]

\* The other terminals are where the chains lead.
Moved(root) ==
    \A t \in Terminals, d \in Devices : Links(original, d, t) => net_v[t][d] = root[original[t][d]]

Chains == \E root, depth : Chained(root, depth) /\ Moved(root)

\* No active device is at a net that was merged away, and none of these has power.
Gone == \A n \in Nets : nextNetId[n] # n => n \notin power /\ \A t \in Ends : At(t, n) = {}

\* ShortNonConductingResistor is called for an active resistor at a dead end.
Calling ==
    call = <<>> \/ \E r \in resistors \ inactive, t \in Ends : call = <<r, t>> /\ IsDeadEnd(net_v[t][r])

\* A resistor the loop has passed is at no dead end, except for the one that is
\* being merged.
Scanned ==
    \A d \in resistors \ inactive, t \in Ends :
        d < device_it /\ (call = <<>> \/ d # call[1]) =>
            net_v[t][d] \in ports \/ ~IsDeadEnd(net_v[t][d])

Inv == Typed /\ ListsKept /\ Counts /\ Unmoved /\ Chains /\ Gone /\ Calling /\ Scanned /\ error = "none"

LEMMA OtherEnd ==
    ASSUME NEW t \in Ends
    PROVE  Other(t) \in Ends /\ Other(t) # t /\ Ends = {t, Other(t)} /\ t \in Terminals /\ t # "gate"
BY Zenon DEF Ends, Other, Terminals

LEMMA FiniteAt ==
    ASSUME NEW t, NEW n
    PROVE  IsFiniteSet(At(t, n)) /\ Cardinality(At(t, n)) \in Nat
<1>1. At(t, n) \subseteq Devices
  BY Zenon DEF At
<1> QED
  BY <1>1, FiniteDevices, Zenon

LEMMA CountOfBothEnds ==
    ASSUME Counts, NEW n \in Nets, NEW t \in Ends
    PROVE  SourceDrainCount(count, n) = Cardinality(At(t, n)) + Cardinality(At(Other(t), n))
<1>1. /\ count["source"][n] = Cardinality(At("source", n))
      /\ count["drain"][n] = Cardinality(At("drain", n))
  BY Zenon DEF Counts, Ends
<1>2. CASE t = "source"
  <2>1. Other(t) = "drain"
    BY <1>2, Zenon DEF Other
  <2> QED
    BY <2>1, <1>1, <1>2, Zenon DEF SourceDrainCount
<1>3. CASE t = "drain"
  <2>1. Other(t) = "source"
    BY <1>3, Zenon DEF Other
  <2>2. /\ Cardinality(At("source", n)) \in Nat
        /\ Cardinality(At("drain", n)) \in Nat
    BY FiniteAt, Zenon
  <2>3. SourceDrainCount(count, n) = Cardinality(At("source", n)) + Cardinality(At("drain", n))
    BY <1>1, Zenon DEF SourceDrainCount
  <2>4. SourceDrainCount(count, n) = Cardinality(At("drain", n)) + Cardinality(At("source", n))
    BY <2>2, <2>3
  <2> QED
    BY <2>1, <2>4, <1>3, Zenon
<1> QED
  BY <1>2, <1>3, Zenon DEF Ends

\* One device at a dead end, and which.
LEMMA OneAtDeadEnd ==
    ASSUME Counts, NEW n \in Nets, NEW t \in Ends, NEW d \in At(t, n), SourceDrainCount(count, n) = 1
    PROVE  At(t, n) = {d} /\ At(Other(t), n) = {}
<1>1. Cardinality(At(t, n)) + Cardinality(At(Other(t), n)) = 1
  BY CountOfBothEnds, Zenon
<1>2. /\ IsFiniteSet(At(t, n)) /\ Cardinality(At(t, n)) \in Nat
      /\ IsFiniteSet(At(Other(t), n)) /\ Cardinality(At(Other(t), n)) \in Nat
  BY FiniteAt, Zenon
<1>3. Cardinality(At(t, n)) # 0
  BY <1>2, FS_EmptySet, Zenon
<1>4. Cardinality(At(t, n)) = 1 /\ Cardinality(At(Other(t), n)) = 0
  BY <1>1, <1>2, <1>3
<1>5. PICK x : At(t, n) = {x}
  BY <1>2, <1>4, FS_Singleton, Zenon
<1>6. At(Other(t), n) = {}
  BY <1>2, <1>4, FS_EmptySet, Zenon
<1> QED
  BY <1>5, <1>6, Zenon

\* What a call of ShortNonConductingResistor finds.
CallFacts(r, t, from, to) ==
    /\ call = <<r, t>> /\ r \in resistors /\ r \in Devices \ inactive /\ t \in Ends
    /\ from = net_v[t][r] /\ to = net_v[Other(t)][r] /\ from \in Nets /\ to \in Nets /\ from # to
    /\ At(t, from) = {r} /\ At(Other(t), from) = {} /\ from \notin power
    /\ nextNetId[from] = from /\ nextNetId[to] = to

LEMMA Called ==
    ASSUME Inv, call # <<>>
    PROVE  \E r, t, from, to : CallFacts(r, t, from, to)
<1>1. PICK r \in resistors \ inactive, t \in Ends : call = <<r, t>> /\ IsDeadEnd(net_v[t][r])
  BY Zenon DEF Inv, Calling
<1> DEFINE from == net_v[t][r]
           to == net_v[Other(t)][r]
<1>2. r \in Devices \ inactive /\ Other(t) \in Ends
  BY OtherEnd, Zenon DEF Inv, Typed
<1>3. from \in Nets /\ to \in Nets
  BY <1>2, Zenon DEF Inv, Typed
<1>4. r \in At(t, from) /\ r \in At(Other(t), to)
  BY <1>2, Zenon DEF At
<1>5. from # to
  <2>1. from = original[t][r] /\ to = original[Other(t)][r] /\ original["source"][r] # original["drain"][r]
    BY <1>2, Zenon DEF Inv, Unmoved
  <2> QED
    BY <2>1, Zenon DEF Ends, Other
<1>6. nextNetId[from] = from /\ nextNetId[to] = to
  BY <1>2, <1>3, <1>4, Zenon DEF Inv, Gone
<1> HIDE DEF from, to
<1>7. SourceDrainCount(count, from) = 1 /\ from \notin power
  BY <1>1, Zenon DEF IsDeadEnd, from
<1>8. At(t, from) = {r} /\ At(Other(t), from) = {}
  BY <1>3, <1>4, <1>7, OneAtDeadEnd, Zenon DEF Inv
<1>9. CallFacts(r, t, from, to)
  BY <1>1, <1>2, <1>3, <1>5, <1>6, <1>7, <1>8, Zenon DEF CallFacts, from, to
<1> QED
  BY <1>9, Zenon

-----------------------------------------------------------------------------
(* The steps of ShortNonConductingResistor.                                *)

MergedNets(from, to) ==
    [u \in Terminals |-> MergeConnectionListByTerminals(first_v[u], next_v[u], net_v[u], from, to)]

Recount(r, t, from, to) ==
    [Uncount(r, t) EXCEPT !["gate"] =
        [n \in Nets |-> Cardinality(Members(MergedNets(from, to)["gate"].first,
                                            MergedNets(from, to)["gate"].next, n))]]

ShortStep(r, t, from, to) ==
    /\ inactive' = inactive \cup {r}
    /\ count' = Recount(r, t, from, to)
    /\ nextNetId' = Set(from, to)
    /\ \A u \in Terminals : /\ first_v'[u] = MergedNets(from, to)[u].first
                            /\ next_v'[u] = MergedNets(from, to)[u].next
                            /\ net_v'[u] = MergedNets(from, to)[u].net
    /\ UNCHANGED <<resistors, ports, power, original, device_it>>

LEMMA ShortUnfolded ==
    ASSUME ShortNonConductingResistor, NEW r, NEW t, NEW from, NEW to, CallFacts(r, t, from, to)
    PROVE  /\ ShortStep(r, t, from, to)
           /\ IF SourceDrainCount(count', from) # 0 THEN error' = "assert" /\ call' = <<>>
              ELSE /\ error' = Propagate(to, count', MergedNets(from, to)).error
                   /\ call' = Propagate(to, count', MergedNets(from, to)).call
<1>1. call[1] = r /\ call[2] = t
  BY Zenon DEF CallFacts
<1>2. net_v[call[2]][call[1]] = from /\ net_v[Other(call[2])][call[1]] = to
  BY <1>1, Zenon DEF CallFacts
<1> DEFINE f == net_v[call[2]][call[1]]
           g == net_v[Other(call[2])][call[1]]
           M == MergedNets(f, g)
           c == Recount(call[1], call[2], f, g)
<1>3. /\ inactive' = inactive \cup {call[1]} /\ count' = c /\ nextNetId' = Set(f, g)
      /\ first_v' = [u \in Terminals |-> M[u].first]
      /\ next_v' = [u \in Terminals |-> M[u].next]
      /\ net_v' = [u \in Terminals |-> M[u].net]
      /\ IF SourceDrainCount(c, f) # 0 THEN error' = "assert" /\ call' = <<>>
         ELSE error' = Propagate(g, c, M).error /\ call' = Propagate(g, c, M).call
      /\ UNCHANGED <<resistors, ports, power, original, device_it>>
  BY Zenon DEF ShortNonConductingResistor, Recount, MergedNets
<1>4. M = MergedNets(from, to) /\ c = Recount(r, t, from, to) /\ Set(f, g) = Set(from, to)
  BY <1>1, <1>2, Zenon
<1> HIDE DEF M, c
<1>5. /\ inactive' = inactive \cup {r} /\ count' = Recount(r, t, from, to) /\ nextNetId' = Set(from, to)
  BY <1>1, <1>3, <1>4, Zenon
<1>6. ASSUME NEW u \in Terminals
      PROVE  /\ first_v'[u] = MergedNets(from, to)[u].first
             /\ next_v'[u] = MergedNets(from, to)[u].next
             /\ net_v'[u] = MergedNets(from, to)[u].net
  BY <1>3, <1>4, Zenon
<1>7. ShortStep(r, t, from, to)
  BY <1>3, <1>5, <1>6, Zenon DEF ShortStep
<1>8. /\ SourceDrainCount(c, f) = SourceDrainCount(count', from)
      /\ Propagate(g, c, M) = Propagate(to, count', MergedNets(from, to))
  BY <1>2, <1>3, <1>4, Zenon
<1> HIDE DEF f, g
<1> QED
  BY <1>3, <1>7, <1>8, Zenon

\* What the step does to nets and lists.
NetsStep(r, from, to) ==
    /\ inactive' = inactive \cup {r}
    /\ nextNetId' = [nextNetId EXCEPT ![from] = to]
    /\ \A u \in Terminals :
          /\ first_v'[u] \in [Nets -> Opt] /\ next_v'[u] \in [Devices -> Opt]
          /\ net_v'[u] \in [Devices -> MaybeNets]
          /\ \A d \in Devices :
                net_v'[u][d] = IF d \in InList(u) /\ net_v[u][d] = from THEN to ELSE net_v[u][d]
          /\ \A n \in Nets : Lists(first_v'[u][n], next_v'[u], Here(InList(u), net_v'[u], n))
    /\ UNCHANGED <<resistors, ports, power, original, device_it>>

LEMMA ShortNets ==
    ASSUME Inv, NEW r, NEW t, NEW from, NEW to, CallFacts(r, t, from, to), ShortStep(r, t, from, to)
    PROVE  NetsStep(r, from, to)
<1>1. from \in Nets /\ to \in Nets /\ from # to /\ nextNetId[to] = to /\ to \in MaybeNets
  BY Zenon DEF CallFacts, MaybeNets
<1>2. nextNetId' = [nextNetId EXCEPT ![from] = to]
  BY <1>1, Zenon DEF ShortStep, Set
<1>3. ASSUME NEW u \in Terminals
      PROVE  /\ first_v'[u] \in [Nets -> Opt] /\ next_v'[u] \in [Devices -> Opt]
             /\ net_v'[u] \in [Devices -> MaybeNets]
             /\ \A d \in Devices :
                   net_v'[u][d] = IF d \in InList(u) /\ net_v[u][d] = from THEN to ELSE net_v[u][d]
             /\ \A n \in Nets : Lists(first_v'[u][n], next_v'[u], Here(InList(u), net_v'[u], n))
  <2> DEFINE m == MergedNets(from, to)[u]
             first == first_v[u]
             next == next_v[u]
             net == net_v[u]
             H == InList(u)
  <2>1. first_v'[u] = m.first /\ next_v'[u] = m.next /\ net_v'[u] = m.net
    BY Zenon DEF ShortStep
  <2>2. m = MergeConnectionListByTerminals(first, next, net, from, to)
    BY Zenon DEF MergedNets
  <2>3. first \in [Nets -> Opt] /\ next \in [Devices -> Opt] /\ net \in [Devices -> MaybeNets]
    BY Zenon DEF Inv, Typed
  <2>4. H \subseteq Devices
    BY Zenon DEF InList
  <2>5. \A n \in Nets : Lists(first[n], next, Here(H, net, n))
    BY Zenon DEF Inv, ListsKept
  <2> HIDE DEF m, first, next, net, H
  <2>6. /\ m.first \in [Nets -> Opt] /\ m.next \in [Devices -> Opt] /\ m.net \in [Devices -> MaybeNets]
        /\ \A d \in Devices : m.net[d] = IF d \in H /\ net[d] = from THEN to ELSE net[d]
        /\ \A n \in Nets : Lists(m.first[n], m.next, Here(H, m.net, n))
    <3>1. MergeInput(MaybeNets, first, next, net, from, to, H)
      BY <1>1, <2>3, <2>4, <2>5, Zenon DEF MergeInput
    <3>2. MergeResult(MaybeNets, m, net, from, to, H)
      BY <3>1, <2>2, MergedLists, Zenon
    <3> QED
      BY <3>2, Zenon DEF MergeResult
  <2> QED
    BY <2>1, <2>6, Zenon DEF net, H
<1> QED
  BY <1>2, <1>3, Zenon DEF ShortStep, NetsStep

\* An active device is in the lists of its sources and drains.
LEMMA ActiveIsListed ==
    ASSUME Inv, NEW d \in Devices \ inactive, NEW u \in Ends
    PROVE  d \in InList(u)
<1>1. u # "gate" /\ original["source"][d] # original["drain"][d]
  BY OtherEnd, Zenon DEF Inv, Unmoved
<1> QED
  BY <1>1, Zenon DEF InList, Links, Linked

\* An active device other than the resistor stays where it is.
LEMMA OthersStay ==
    ASSUME Inv, NEW r, NEW t, NEW from, NEW to, CallFacts(r, t, from, to), NetsStep(r, from, to),
           NEW d \in Devices \ inactive, d # r, NEW u \in Ends
    PROVE  net_v[u][d] # from /\ net_v'[u][d] = net_v[u][d]
<1>1. u = t \/ u = Other(t)
  BY OtherEnd, Zenon DEF CallFacts
<1>2. d \notin At(u, from)
  <2>1. At(t, from) = {r} /\ At(Other(t), from) = {}
    BY Zenon DEF CallFacts
  <2> QED
    BY <2>1, <1>1, Zenon
<1>3. net_v[u][d] # from
  BY <1>2, Zenon DEF At
<1>4. u \in Terminals
  BY OtherEnd, Zenon
<1> QED
  BY <1>3, <1>4, Zenon DEF NetsStep

LEMMA AtAfterShort ==
    ASSUME Inv, NEW r, NEW t, NEW from, NEW to, CallFacts(r, t, from, to), NetsStep(r, from, to),
           NEW u \in Ends, NEW n
    PROVE  At(u, n)' = At(u, n) \ {r}
<1>1. inactive' = inactive \cup {r}
  BY Zenon DEF NetsStep
<1>2. ASSUME NEW d \in Devices \ inactive, d # r
      PROVE  net_v'[u][d] = net_v[u][d]
  BY <1>2, OthersStay
<1> QED
  BY <1>1, <1>2, Zenon DEF At

\* The lists after the step, walked along.
LEMMA MembersAfterShort ==
    ASSUME NEW r, NEW t, NEW from, NEW to, ShortStep(r, t, from, to), NetsStep(r, from, to),
           NEW u \in Terminals, NEW n \in Nets
    PROVE  Members(MergedNets(from, to)[u].first, MergedNets(from, to)[u].next, n) =
              Here(InList(u), net_v'[u], n)
<1> DEFINE first == first_v'[u]
           next == next_v'[u]
           S == Here(InList(u), net_v'[u], n)
<1>1. first = MergedNets(from, to)[u].first /\ next = MergedNets(from, to)[u].next
  BY Zenon DEF ShortStep
<1>2. next \in [Devices -> Opt] /\ Lists(first[n], next, S)
  BY Zenon DEF NetsStep
<1>3. S \subseteq Devices
  BY Zenon DEF Here, InList
<1> HIDE DEF first, next, S
<1>4. Members(first, next, n) = S
  BY <1>2, <1>3, ListMembers, Zenon
<1> QED
  BY <1>1, <1>4, Zenon DEF S

LEMMA CountsAfterShort ==
    ASSUME Inv, NEW r, NEW t, NEW from, NEW to, CallFacts(r, t, from, to),
           ShortStep(r, t, from, to), NetsStep(r, from, to)
    PROVE  count' \in [Terminals -> [Nets -> Int]] /\ Counts'
<1> DEFINE o == Other(t)
           gates == [n \in Nets |-> Cardinality(Members(MergedNets(from, to)["gate"].first,
                                                        MergedNets(from, to)["gate"].next, n))]
           c == Uncount(r, t)
<1>1. count \in [Terminals -> [Nets -> Int]]
  BY Zenon DEF Inv, Typed
<1>2. /\ t \in Ends /\ o \in Ends /\ o # t /\ Ends = {t, o} /\ t \in Terminals /\ o \in Terminals
      /\ t # "gate" /\ o # "gate" /\ "gate" \in Terminals
  <2>1. t \in Ends
    BY Zenon DEF CallFacts
  <2>2. "gate" \in Terminals
    BY Zenon DEF Terminals
  <2>3. o \in Ends /\ o # t /\ Ends = {t, o} /\ t \in Terminals /\ t # "gate"
    BY <2>1, OtherEnd, Zenon
  <2>4. o \in Terminals /\ o # "gate"
    BY <2>3, OtherEnd, Zenon
  <2> QED
    BY <2>1, <2>2, <2>3, <2>4, Zenon
<1>3. from \in Nets /\ to \in Nets /\ net_v[t][r] = from /\ net_v[o][r] = to
  BY Zenon DEF CallFacts
<1>4. c = [count EXCEPT ![t][from] = @ - 1, ![o][to] = @ - 1]
  BY <1>3, Zenon DEF Uncount
<1>5. gates \in [Nets -> Int]
  <2>1. ASSUME NEW n \in Nets
        PROVE  Cardinality(Members(MergedNets(from, to)["gate"].first,
                                   MergedNets(from, to)["gate"].next, n)) \in Int
    <3>1. Here(InList("gate"), net_v'["gate"], n) \subseteq Devices
      BY Zenon DEF Here, InList
    <3>2. Cardinality(Here(InList("gate"), net_v'["gate"], n)) \in Nat
      BY <3>1, FiniteDevices, Zenon
    <3>3. Members(MergedNets(from, to)["gate"].first, MergedNets(from, to)["gate"].next, n) =
             Here(InList("gate"), net_v'["gate"], n)
      BY <1>2, MembersAfterShort
    <3>4. \A x : x \in Nat => x \in Int
      OBVIOUS
    <3> QED
      BY <3>2, <3>3, <3>4, Zenon
  <2> QED
    BY <2>1, Zenon
<1>6. count' = [c EXCEPT !["gate"] = gates]
  BY Zenon DEF ShortStep, Recount
<1> HIDE DEF c, gates, o
<1>7. /\ c \in [Terminals -> [Nets -> Int]]
      /\ c[t] = [count[t] EXCEPT ![from] = @ - 1]
      /\ c[o] = [count[o] EXCEPT ![to] = @ - 1]
  <2>1. count[t] \in [Nets -> Int] /\ count[o] \in [Nets -> Int]
    BY <1>1, <1>2, Zenon
  <2>2. count[t][from] - 1 \in Int /\ count[o][to] - 1 \in Int
    BY <2>1, <1>3
  <2>3. /\ [count[t] EXCEPT ![from] = @ - 1] \in [Nets -> Int]
        /\ [count[o] EXCEPT ![to] = @ - 1] \in [Nets -> Int]
    BY <2>1, <2>2, Zenon
  <2> QED
    BY <2>3, <1>1, <1>2, <1>4, Zenon
<1>8. count' \in [Terminals -> [Nets -> Int]] /\ count'[t] = c[t] /\ count'[o] = c[o]
  BY <1>2, <1>5, <1>6, <1>7, Zenon
<1>9. \A n \in Nets :
         /\ count'[t][n] = IF n = from THEN count[t][n] - 1 ELSE count[t][n]
         /\ count'[o][n] = IF n = to THEN count[o][n] - 1 ELSE count[o][n]
  <2>1. count[t] \in [Nets -> Int] /\ count[o] \in [Nets -> Int]
    BY <1>1, <1>2, Zenon
  <2> QED
    BY <2>1, <1>3, <1>7, <1>8
<1>10. ASSUME NEW u \in Ends, NEW n \in Nets
       PROVE  count'[u][n] = Cardinality(At(u, n)')
  <2>1. At(u, n)' = At(u, n) \ {r}
    BY AtAfterShort, Zenon
  <2>2. r \in At(u, n) <=> n = net_v[u][r]
    BY Zenon DEF CallFacts, At
  <2>3. count'[u][n] = IF n = net_v[u][r] THEN count[u][n] - 1 ELSE count[u][n]
    BY <1>2, <1>3, <1>9, Zenon
  <2>4. count[u][n] = Cardinality(At(u, n))
    BY Zenon DEF Inv, Counts
  <2>5. Cardinality(At(u, n) \ {r}) =
           IF r \in At(u, n) THEN Cardinality(At(u, n)) - 1 ELSE Cardinality(At(u, n))
    BY FiniteAt, FS_RemoveElement, Zenon
  <2> QED
    BY <2>1, <2>2, <2>3, <2>4, <2>5, Zenon
<1>11. Counts'
  BY <1>10, Zenon DEF Counts
<1> QED
  BY <1>8, <1>11, Zenon

\* The number of active devices that the step leaves at a net.
LEMMA CountAfterShort ==
    ASSUME Counts', NEW n \in Nets
    PROVE  SourceDrainCount(count', n) = Cardinality(At("source", n)') + Cardinality(At("drain", n)')
<1>1. /\ count'["source"][n] = Cardinality(At("source", n)')
      /\ count'["drain"][n] = Cardinality(At("drain", n)')
  BY Zenon DEF Counts, Ends
<1> QED
  BY <1>1, Zenon DEF SourceDrainCount

\* The assertion holds: nothing is left at the dead end.
LEMMA NoneLeft ==
    ASSUME Inv, NEW r, NEW t, NEW from, NEW to, CallFacts(r, t, from, to), NetsStep(r, from, to), Counts'
    PROVE  /\ SourceDrainCount(count', from) = 0
           /\ \A u \in Ends : At(u, from)' = {}
<1>1. At(t, from) = {r} /\ At(Other(t), from) = {} /\ t \in Ends /\ from \in Nets
  BY Zenon DEF CallFacts
<1>2. Ends = {t, Other(t)}
  BY <1>1, OtherEnd, Zenon
<1>3. ASSUME NEW u \in Ends
      PROVE  At(u, from)' = {}
  <2>1. At(u, from)' = At(u, from) \ {r}
    BY AtAfterShort, Zenon
  <2> QED
    BY <2>1, <1>1, <1>2, Zenon
<1>4. "source" \in Ends /\ "drain" \in Ends
  BY Zenon DEF Ends
<1>5. Cardinality(At("source", from)') = 0 /\ Cardinality(At("drain", from)') = 0
  BY <1>3, <1>4, FS_EmptySet, Zenon
<1>6. SourceDrainCount(count', from) = Cardinality(At("source", from)') + Cardinality(At("drain", from)')
  BY <1>1, CountAfterShort, Zenon
<1>7. SourceDrainCount(count', from) = 0
  BY <1>5, <1>6
<1> QED
  BY <1>3, <1>7, Zenon

\* The active resistors that the step leaves at a net.
LeftAt(u, n) == At(u, n)' \cap resistors

\* The recursive call finds the resistor that is left at the net, if it is alone
\* there, and meets no exception.
PropagateFacts(to) ==
    /\ error' = "none"
    /\ \/ /\ call' = <<>>
          /\ SourceDrainCount(count', to) # 1 \/ to \in power \/ \A u \in Ends : LeftAt(u, to) = {}
       \/ \E u \in Ends : \E d \in LeftAt(u, to) :
             /\ call' = <<d, u>> /\ SourceDrainCount(count', to) = 1 /\ to \notin power
             /\ \A v \in Ends : LeftAt(v, to) \subseteq {d}

LEMMA LeftAfterShort ==
    ASSUME Inv, NEW r, NEW t, NEW from, NEW to, CallFacts(r, t, from, to),
           ShortStep(r, t, from, to), NetsStep(r, from, to), NEW u \in Ends
    PROVE  {d \in Members(MergedNets(from, to)[u].first, MergedNets(from, to)[u].next, to) :
              Active(d) /\ d # call[1]} = LeftAt(u, to)
<1>1. call[1] = r /\ to \in Nets
  BY Zenon DEF CallFacts
<1>2. u \in Terminals
  BY OtherEnd, Zenon
<1>3. Members(MergedNets(from, to)[u].first, MergedNets(from, to)[u].next, to) =
         Here(InList(u), net_v'[u], to)
  BY <1>1, <1>2, MembersAfterShort
<1>4. inactive' = inactive \cup {r} /\ resistors \subseteq Devices /\ InList(u) \subseteq Devices
  BY Zenon DEF NetsStep, Inv, Typed, InList
<1>5. \A d \in Devices \ inactive : d \in InList(u)
  BY ActiveIsListed, Zenon
<1> QED
  BY <1>1, <1>3, <1>4, <1>5, Zenon DEF Here, LeftAt, At, Active

LEMMA OneIsFound ==
    ASSUME NEW S, NEW D, S \subseteq Devices, D \subseteq Devices,
           Cardinality(S) + Cardinality(D) = 1
    PROVE  \E x : S \cup D = {x}
<1>1. /\ IsFiniteSet(S) /\ Cardinality(S) \in Nat
      /\ IsFiniteSet(D) /\ Cardinality(D) \in Nat
  BY FiniteDevices, Zenon
<1>2. CASE Cardinality(S) = 1
  <2>1. Cardinality(D) = 0
    BY <1>1, <1>2
  <2>2. D = {}
    BY <2>1, <1>1, FS_EmptySet, Zenon
  <2>3. PICK x : S = {x}
    BY <1>1, <1>2, FS_Singleton, Zenon
  <2> QED
    BY <2>2, <2>3, Zenon
<1>3. CASE Cardinality(S) = 0
  <2>1. Cardinality(D) = 1
    BY <1>1, <1>3
  <2>2. S = {}
    BY <1>1, <1>3, FS_EmptySet, Zenon
  <2>3. PICK x : D = {x}
    BY <2>1, <1>1, FS_Singleton, Zenon
  <2> QED
    BY <2>2, <2>3, Zenon
<1>4. Cardinality(S) = 0 \/ Cardinality(S) = 1
  BY <1>1
<1> QED
  BY <1>2, <1>3, <1>4, Zenon

LEMMA PropagateAfterShort ==
    ASSUME Inv, NEW r, NEW t, NEW from, NEW to, CallFacts(r, t, from, to),
           ShortStep(r, t, from, to), NetsStep(r, from, to), Counts',
           error' = Propagate(to, count', MergedNets(from, to)).error,
           call' = Propagate(to, count', MergedNets(from, to)).call
    PROVE  PropagateFacts(to)
<1> DEFINE S == LeftAt("source", to)
           D == LeftAt("drain", to)
           found == Cardinality(S) + Cardinality(D)
           x == CHOOSE y \in S \cup D : TRUE
           M == MergedNets(from, to)
           one == SourceDrainCount(count', to) = 1
<1>1. "source" \in Ends /\ "drain" \in Ends /\ \A u \in Ends : u = "source" \/ u = "drain"
  BY Zenon DEF Ends
<1>2. /\ {d \in Members(M["source"].first, M["source"].next, to) : Active(d) /\ d # call[1]} = S
      /\ {d \in Members(M["drain"].first, M["drain"].next, to) : Active(d) /\ d # call[1]} = D
  BY <1>1, LeftAfterShort
<1>3. M["source"].net = net_v'["source"] /\ M["drain"].net = net_v'["drain"]
  BY Zenon DEF ShortStep, Terminals
<1> DEFINE go == IF ~ one \/ to \in power \/ found = 0
                   THEN [call |-> <<>>, error |-> "none"]
                 ELSE IF found > 1 THEN [call |-> <<>>, error |-> "EDatabaseError"]
                 ELSE IF net_v'["source"][x] = to THEN [call |-> <<x, "source">>, error |-> "none"]
                 ELSE IF net_v'["drain"][x] = to THEN [call |-> <<x, "drain">>, error |-> "none"]
                 ELSE [call |-> <<>>, error |-> "EDatabaseError"]
<1>4. Propagate(to, count', M) = go
  BY <1>2, <1>3, Zenon DEF Propagate
<1>5. error' = go.error /\ call' = go.call
  BY <1>4, Zenon
<1>6. S \subseteq Devices /\ D \subseteq Devices /\ S \subseteq At("source", to)' /\ D \subseteq At("drain", to)'
  BY Zenon DEF LeftAt, At
<1>7. /\ IsFiniteSet(S) /\ Cardinality(S) \in Nat /\ IsFiniteSet(D) /\ Cardinality(D) \in Nat
  BY <1>6, FiniteDevices, Zenon
<1>8. one => found <= 1
  <2>1. /\ IsFiniteSet(At("source", to)') /\ Cardinality(At("source", to)') \in Nat
        /\ IsFiniteSet(At("drain", to)') /\ Cardinality(At("drain", to)') \in Nat
    <3>1. At("source", to)' \subseteq Devices /\ At("drain", to)' \subseteq Devices
      BY Zenon DEF At
    <3> QED
      BY <3>1, FiniteDevices, Zenon
  <2>2. S \in SUBSET At("source", to)' /\ D \in SUBSET At("drain", to)'
    BY <1>6, Zenon
  <2>3. /\ Cardinality(S) <= Cardinality(At("source", to)')
        /\ Cardinality(D) <= Cardinality(At("drain", to)')
    BY <2>1, <2>2, FS_Subset, Zenon
  <2>4. SourceDrainCount(count', to) = Cardinality(At("source", to)') + Cardinality(At("drain", to)')
    BY CountAfterShort, Zenon DEF CallFacts
  <2> HIDE DEF S, D
  <2> QED
    BY <2>1, <2>3, <2>4, <1>7
<1>9. S = {y \in S : net_v'["source"][y] = to} /\ D = {y \in D : net_v'["drain"][y] = to}
  BY Zenon DEF LeftAt, At
<1> HIDE DEF S, D, M
<1>10. CASE ~ one \/ to \in power \/ found = 0
  <2>1. error' = "none" /\ call' = <<>>
    BY <1>5, <1>10, Zenon
  <2>2. found = 0 => S = {} /\ D = {}
    <3>1. found = 0 => Cardinality(S) = 0 /\ Cardinality(D) = 0
      BY <1>7
    <3> QED
      BY <3>1, <1>7, FS_EmptySet, Zenon
  <2>3. found = 0 => \A u \in Ends : LeftAt(u, to) = {}
    BY <2>2, <1>1, Zenon DEF S, D
  <2> QED
    BY <2>1, <2>3, <1>10, Zenon DEF PropagateFacts
<1>11. CASE ~ (~ one \/ to \in power \/ found = 0)
  <2>1. found = 1 /\ ~ (found > 1)
    BY <1>7, <1>8, <1>11
  <2>2. PICK y : S \cup D = {y}
    BY <2>1, <1>6, OneIsFound, Zenon
  <2>3. x = y
    BY <2>2, Zenon
  <2> HIDE DEF x
  <2>4. x \in S \/ x \in D
    BY <2>2, <2>3, Zenon
  <2>5. \A u \in Ends : LeftAt(u, to) \subseteq {x}
    BY <2>2, <2>3, <1>1, Zenon DEF S, D
  <2>6. CASE net_v'["source"][x] = to
    <3>1. error' = "none" /\ call' = <<x, "source">>
      BY <1>5, <1>11, <2>1, <2>6, Zenon
    <3>2. x \in LeftAt("source", to)
      BY <2>4, <2>6, Zenon DEF LeftAt, S, D, At
    <3> QED
      BY <3>1, <3>2, <2>5, <1>1, <1>11, Zenon DEF PropagateFacts
  <2>7. CASE net_v'["source"][x] # to
    <3>1. x \in D
      BY <2>4, <2>7, <1>9, Zenon
    <3>2. net_v'["drain"][x] = to
      BY <3>1, <1>9, Zenon
    <3>3. error' = "none" /\ call' = <<x, "drain">>
      BY <1>5, <1>11, <2>1, <2>7, <3>2, Zenon
    <3> QED
      BY <3>1, <3>3, <2>5, <1>1, <1>11, Zenon DEF PropagateFacts, D
  <2> QED
    BY <2>6, <2>7, Zenon
<1> QED
  BY <1>10, <1>11, Zenon

-----------------------------------------------------------------------------
(* The invariant is kept.                                                  *)

LEMMA TypedAfterShort ==
    ASSUME Inv, NEW r, NEW t, NEW from, NEW to, CallFacts(r, t, from, to), NetsStep(r, from, to),
           count' \in [Terminals -> [Nets -> Int]]
    PROVE  Typed'
<1>1. /\ inactive' = inactive \cup {r} /\ nextNetId' = [nextNetId EXCEPT ![from] = to]
      /\ UNCHANGED <<resistors, ports, power, original, device_it>>
  BY Zenon DEF NetsStep
<1>2. /\ r \in Devices /\ from \in Nets /\ to \in Nets
  BY Zenon DEF CallFacts
<1>3. /\ resistors \subseteq Devices /\ inactive \subseteq Devices
      /\ nextNetId \in [Nets -> Nets] /\ device_it \in Nat /\ Placed(original)
      /\ \A u \in Ends, d \in Devices : net_v[u][d] \in Nets
  BY Zenon DEF Inv, Typed
<1>4. /\ resistors' \subseteq Devices /\ inactive' \subseteq Devices
      /\ nextNetId' \in [Nets -> Nets] /\ device_it' \in Nat
  BY <1>1, <1>2, <1>3, Zenon
<1>5. \A u \in Terminals : /\ net_v'[u] \in [Devices -> MaybeNets]
                           /\ first_v'[u] \in [Nets -> Opt] /\ next_v'[u] \in [Devices -> Opt]
  BY Zenon DEF NetsStep
<1>6. ASSUME NEW u \in Ends, NEW d \in Devices
      PROVE  net_v'[u][d] \in Nets
  <2>1. u \in Terminals
    BY OtherEnd, Zenon
  <2>2. net_v'[u][d] = IF d \in InList(u) /\ net_v[u][d] = from THEN to ELSE net_v[u][d]
    BY <2>1, Zenon DEF NetsStep
  <2> QED
    BY <2>2, <1>2, <1>3, Zenon
<1>7. Placed(original)'
  BY <1>1, <1>3, Zenon DEF Placed, Links, Linked, Mos
<1> QED
  BY <1>4, <1>5, <1>6, <1>7, Zenon DEF Typed

LEMMA ListsAfterShort ==
    ASSUME NEW r, NEW from, NEW to, NetsStep(r, from, to)
    PROVE  ListsKept'
<1>1. \A u : InList(u)' = InList(u)
  BY Zenon DEF NetsStep, InList, Links, Linked, Mos
<1> QED
  BY <1>1, Zenon DEF NetsStep, ListsKept

LEMMA UnmovedAfterShort ==
    ASSUME Inv, NEW r, NEW t, NEW from, NEW to, CallFacts(r, t, from, to), NetsStep(r, from, to)
    PROVE  Unmoved'
<1>1. inactive' = inactive \cup {r} /\ original' = original
  BY Zenon DEF NetsStep
<1>2. ASSUME NEW d \in Devices \ inactive'
      PROVE  /\ original'["source"][d] # original'["drain"][d]
             /\ \A u \in Ends : net_v'[u][d] = original'[u][d]
  <2>1. d \in Devices \ inactive /\ d # r
    BY <1>1, Zenon
  <2>2. ASSUME NEW u \in Ends
        PROVE  net_v'[u][d] = net_v[u][d]
    BY <2>1, OthersStay
  <2> QED
    BY <2>1, <2>2, <1>1, Zenon DEF Inv, Unmoved
<1> QED
  BY <1>2, Zenon DEF Unmoved

LEMMA ChainsAfterShort ==
    ASSUME Inv, NEW r, NEW t, NEW from, NEW to, CallFacts(r, t, from, to), NetsStep(r, from, to)
    PROVE  Chains'
<1>1. PICK root, depth : Chained(root, depth) /\ Moved(root)
  BY Zenon DEF Inv, Chains
<1> DEFINE root2 == Rerouted(root, from, to)
           depth2 == Deeper(depth, root, from)
<1>2. /\ nextNetId \in [Nets -> Nets] /\ Placed(original)
      /\ \A u \in Terminals : net_v[u] \in [Devices -> MaybeNets]
  BY Zenon DEF Inv, Typed
<1>3. /\ from \in Nets /\ to \in Nets /\ from # to /\ nextNetId[from] = from /\ nextNetId[to] = to
  BY Zenon DEF CallFacts
<1>4. nextNetId' = [nextNetId EXCEPT ![from] = to] /\ original' = original /\ resistors' = resistors
  BY Zenon DEF NetsStep
<1>5. Chained(root2, depth2)'
  <2>1. SetStep(from, to)
    BY <1>2, <1>3, <1>4, Zenon DEF SetStep
  <2> QED
    BY <2>1, <1>1, ChainedAfterSet, Zenon
<1>6. Moved(root2)'
  <2>1. SUFFICES ASSUME NEW u \in Terminals, NEW d \in Devices, Links(original, d, u)
                 PROVE  net_v'[u][d] = root2[original[u][d]]
    BY <1>4, Zenon DEF Moved, Links, Linked, Mos
  <2>2. original[u][d] \in Nets
    BY <2>1, <1>2, Zenon DEF Placed
  <2>3. net_v[u][d] = root[original[u][d]]
    BY <2>1, <1>1, Zenon DEF Moved
  <2>4. d \in InList(u)
    BY <2>1, Zenon DEF InList
  <2>5. net_v'[u][d] = IF d \in InList(u) /\ net_v[u][d] = from THEN to ELSE net_v[u][d]
    BY Zenon DEF NetsStep
  <2> QED
    BY <2>2, <2>3, <2>4, <2>5, ZenonT(40) DEF Rerouted
<1> HIDE DEF root2, depth2
<1> QED
  BY <1>5, <1>6, Zenon DEF Chains

LEMMA GoneAfterShort ==
    ASSUME Inv, NEW r, NEW t, NEW from, NEW to, CallFacts(r, t, from, to), NetsStep(r, from, to),
           \A u \in Ends : At(u, from)' = {}
    PROVE  Gone'
<1>1. /\ nextNetId \in [Nets -> Nets] /\ nextNetId' = [nextNetId EXCEPT ![from] = to]
      /\ power' = power /\ from \notin power
  BY Zenon DEF NetsStep, CallFacts, Inv, Typed
<1>2. ASSUME NEW n \in Nets, nextNetId'[n] # n
      PROVE  n \notin power' /\ \A u \in Ends : At(u, n)' = {}
  <2>1. CASE n = from
    BY <2>1, <1>1, Zenon
  <2>2. CASE n # from
    <3>1. nextNetId[n] # n
      BY <2>2, <1>1, <1>2, Zenon
    <3>2. n \notin power /\ \A u \in Ends : At(u, n) = {}
      BY <3>1, Zenon DEF Inv, Gone
    <3>3. ASSUME NEW u \in Ends
          PROVE  At(u, n)' = {}
      <4>1. At(u, n)' = At(u, n) \ {r}
        BY AtAfterShort, Zenon
      <4> QED
        BY <4>1, <3>2, Zenon
    <3> QED
      BY <3>2, <3>3, <1>1, Zenon
  <2> QED
    BY <2>1, <2>2, Zenon
<1> QED
  BY <1>2, Zenon DEF Gone

LEMMA CallingAfterShort ==
    ASSUME NEW r, NEW from, NEW to, NetsStep(r, from, to), PropagateFacts(to)
    PROVE  Calling'
<1>1. power' = power /\ resistors' = resistors
  BY Zenon DEF NetsStep
<1>2. CASE call' = <<>>
  BY <1>2, Zenon DEF Calling
<1>3. ASSUME NEW u \in Ends, NEW d \in LeftAt(u, to),
             call' = <<d, u>>, SourceDrainCount(count', to) = 1, to \notin power
      PROVE  Calling'
  <2>1. d \in resistors' \ inactive' /\ net_v'[u][d] = to
    BY <1>1, Zenon DEF LeftAt, At
  <2>2. IsDeadEnd(to)'
    BY <1>1, <1>3, Zenon DEF IsDeadEnd
  <2>3. IsDeadEnd(net_v[u][d])'
    BY <2>1, <2>2, Zenon
  <2> QED
    BY <1>3, <2>1, <2>3, Zenon DEF Calling
<1> QED
  BY <1>2, <1>3, Zenon DEF PropagateFacts

LEMMA ScannedAfterShort ==
    ASSUME Inv, NEW r, NEW t, NEW from, NEW to, CallFacts(r, t, from, to), NetsStep(r, from, to),
           Counts', PropagateFacts(to)
    PROVE  Scanned'
<1>1. /\ inactive' = inactive \cup {r} /\ power' = power /\ resistors' = resistors /\ ports' = ports
      /\ device_it' = device_it
  BY Zenon DEF NetsStep
<1>2. ASSUME NEW d \in resistors' \ inactive', NEW u \in Ends, d < device_it',
             call' = <<>> \/ d # call'[1], IsDeadEnd(net_v[u][d])'
      PROVE  net_v'[u][d] \in ports'
  <2> PICK n : n = net_v[u][d]
    BY Zenon
  <2>1. d \in resistors \ inactive /\ d \in Devices \ inactive /\ d # r /\ d < device_it
    BY <1>1, <1>2, Zenon DEF Inv, Typed
  <2>2. n \in Nets
    BY <2>1, Zenon DEF Inv, Typed
  <2>3. n # from /\ net_v'[u][d] = n
    BY <2>1, OthersStay
  <2>4. call # <<>> /\ call[1] = r
    BY Zenon DEF CallFacts
  <2>5. n \in ports \/ ~ IsDeadEnd(n)
    BY <2>1, <2>4, Zenon DEF Inv, Scanned
  <2>6. SourceDrainCount(count', n) = 1 /\ n \notin power
    BY <1>1, <1>2, <2>3, Zenon DEF IsDeadEnd
  <2>7. CASE n = to
    <3>1. d \in LeftAt(u, to)
      BY <2>1, <2>3, <2>7, <1>1, Zenon DEF LeftAt, At
    <3>2. PICK x : (\E v : call' = <<x, v>>) /\ LeftAt(u, to) \subseteq {x}
      BY <3>1, <2>6, <2>7, Zenon DEF PropagateFacts
    <3>3. call' # <<>> /\ call'[1] = x
      BY <3>2
    <3>4. d = x
      BY <3>1, <3>2, Zenon
    <3> QED
      BY <3>3, <3>4, <1>2, Zenon
  <2>8. CASE n # to
    <3>1. ASSUME NEW v \in Ends
          PROVE  count'[v][n] = count[v][n]
      <4>1. At(v, n)' = At(v, n) \ {r}
        BY AtAfterShort, Zenon
      <4>2. r \notin At(v, n)
        <5>1. t \in Ends /\ net_v[t][r] = from /\ net_v[Other(t)][r] = to
          BY Zenon DEF CallFacts
        <5>2. v = t \/ v = Other(t)
          BY <5>1, OtherEnd, Zenon
        <5> QED
          BY <5>1, <5>2, <2>3, <2>8, Zenon DEF At
      <4>3. At(v, n)' = At(v, n)
        BY <4>1, <4>2, Zenon
      <4>4. count[v][n] = Cardinality(At(v, n))
        BY <2>2, Zenon DEF Inv, Counts
      <4>5. count'[v][n] = Cardinality(At(v, n)')
        BY <2>2, Zenon DEF Counts
      <4> QED
        BY <4>3, <4>4, <4>5, Zenon
    <3>2. "source" \in Ends /\ "drain" \in Ends
      BY Zenon DEF Ends
    <3>3. SourceDrainCount(count', n) = SourceDrainCount(count, n)
      BY <3>1, <3>2, Zenon DEF SourceDrainCount
    <3>4. IsDeadEnd(n)
      BY <3>3, <2>6, Zenon DEF IsDeadEnd
    <3> QED
      BY <3>4, <2>3, <2>5, <1>1, Zenon
  <2> QED
    BY <2>7, <2>8, Zenon
<1> QED
  BY <1>2, Zenon DEF Scanned

LEMMA ShortKeepsInv ==
    ASSUME Inv, ShortNonConductingResistor
    PROVE  Inv'
<1>1. PICK r, t, from, to : CallFacts(r, t, from, to)
  BY Called, Zenon DEF ShortNonConductingResistor
<1>2. /\ ShortStep(r, t, from, to)
      /\ IF SourceDrainCount(count', from) # 0 THEN error' = "assert" /\ call' = <<>>
         ELSE /\ error' = Propagate(to, count', MergedNets(from, to)).error
              /\ call' = Propagate(to, count', MergedNets(from, to)).call
  BY <1>1, ShortUnfolded, Zenon
<1>3. NetsStep(r, from, to)
  BY <1>1, <1>2, ShortNets, Zenon
<1>4. count' \in [Terminals -> [Nets -> Int]] /\ Counts'
  BY <1>1, <1>2, <1>3, CountsAfterShort, Zenon
<1>5. SourceDrainCount(count', from) = 0 /\ \A u \in Ends : At(u, from)' = {}
  BY <1>1, <1>3, <1>4, NoneLeft, Zenon
<1>6. PropagateFacts(to)
  <2>1. /\ error' = Propagate(to, count', MergedNets(from, to)).error
        /\ call' = Propagate(to, count', MergedNets(from, to)).call
    BY <1>2, <1>5, Zenon
  <2> QED
    BY <2>1, <1>1, <1>2, <1>3, <1>4, PropagateAfterShort, Zenon
<1>7. Typed'
  BY <1>1, <1>3, <1>4, TypedAfterShort, Zenon
<1>8. ListsKept' /\ Unmoved' /\ Chains'
  BY <1>1, <1>3, ListsAfterShort, UnmovedAfterShort, ChainsAfterShort, Zenon
<1>9. Gone'
  BY <1>1, <1>3, <1>5, GoneAfterShort, Zenon
<1>10. Calling' /\ Scanned'
  BY <1>1, <1>3, <1>4, <1>6, CallingAfterShort, ScannedAfterShort, Zenon
<1>11. error' = "none"
  BY <1>6, Zenon DEF PropagateFacts
<1> QED
  BY <1>4, <1>7, <1>8, <1>9, <1>10, <1>11, Zenon DEF Inv

\* A step that leaves everything but call, device_it and error alone.
LEMMA RestKept ==
    ASSUME Inv, UNCHANGED <<resistors, ports, power, net_v, original, first_v, next_v, count, inactive, nextNetId>>
    PROVE  /\ device_it' \in Nat => Typed'
           /\ ListsKept' /\ Counts' /\ Unmoved' /\ Chains' /\ Gone'
<1>1. device_it' \in Nat => Typed'
  BY Zenon DEF Inv, Typed, Placed, Links, Linked, Mos
<1>2. ListsKept'
  BY Zenon DEF Inv, ListsKept, InList, Links, Linked, Mos
<1>3. Counts' /\ Gone'
  BY DEF Inv, Counts, Gone, At
<1>4. Unmoved'
  BY Zenon DEF Inv, Unmoved
<1>5. Chains'
  <2>1. PICK root, depth : Chained(root, depth) /\ Moved(root)
    BY Zenon DEF Inv, Chains
  <2>2. Chained(root, depth)'
    BY <2>1, Zenon DEF Chained, MergedAway
  <2>3. Moved(root)'
    BY <2>1, Zenon DEF Moved, Links, Linked, Mos
  <2> QED
    BY <2>2, <2>3, Zenon DEF Chains
<1> QED
  BY <1>1, <1>2, <1>3, <1>4, <1>5, Zenon

LEMMA ScanKeepsInv ==
    ASSUME Inv, ScanDevice
    PROVE  Inv'
<1> DEFINE d == device_it
           Dead(u) == net_v[u][d] \notin ports /\ IsDeadEnd(net_v[u][d])
<1>1. /\ call = <<>> /\ error' = "none" /\ device_it' = d + 1 /\ d \in Nat
      /\ UNCHANGED <<resistors, ports, power, net_v, original, first_v, next_v, count, inactive, nextNetId>>
  BY Zenon DEF ScanDevice, Inv, Typed
<1>2. call' = IF ~ Active(d) THEN <<>> ELSE IF Dead("source") THEN <<d, "source">>
              ELSE IF Dead("drain") THEN <<d, "drain">> ELSE <<>>
  BY Zenon DEF ScanDevice
<1>3. /\ Typed' /\ ListsKept' /\ Counts' /\ Unmoved' /\ Chains' /\ Gone'
  <2>1. device_it' \in Nat
    BY <1>1
  <2> QED
    BY <2>1, <1>1, RestKept, Zenon
<1>4. \A n : IsDeadEnd(n)' <=> IsDeadEnd(n)
  BY <1>1, Zenon DEF IsDeadEnd
<1>5. "source" \in Ends /\ "drain" \in Ends /\ \A u \in Ends : u = "source" \/ u = "drain"
  BY Zenon DEF Ends
<1>6. \/ call' = <<>> /\ (Active(d) => \A u \in Ends : ~ Dead(u))
      \/ Active(d) /\ \E u \in Ends : call' = <<d, u>> /\ Dead(u)
  BY <1>2, <1>5, Zenon
<1>7. Calling'
  BY <1>1, <1>4, <1>6, Zenon DEF Calling, Active
<1>8. Scanned'
  <2>1. SUFFICES ASSUME NEW e \in resistors \ inactive, NEW u \in Ends, e < d + 1,
                        call' = <<>> \/ e # call'[1]
                 PROVE  net_v[u][e] \in ports \/ ~ IsDeadEnd(net_v[u][e])
    BY <1>1, <1>4, Zenon DEF Scanned
  <2>2. CASE e = d
    <3>1. call' = <<>>
      <4>1. \A v : call' = <<d, v>> => call'[1] = d
        OBVIOUS
      <4> QED
        BY <4>1, <2>1, <2>2, <1>6, Zenon
    <3>2. Active(d)
      BY <2>2, Zenon DEF Active
    <3>3. <<>> # <<d, "source">> /\ <<>> # <<d, "drain">>
      BY Zenon
    <3>4. ~ Dead(u)
      BY <3>1, <3>2, <3>3, <1>2, <1>5, Zenon
    <3> QED
      BY <3>4, <2>2, Zenon
  <2>3. CASE e # d
    <3>1. e < d
      <4>1. e \in Nat
        BY DEF Inv, Typed, Devices
      <4> QED
        BY <4>1, <2>1, <2>3, <1>1
    <3> QED
      BY <3>1, <1>1, Zenon DEF Inv, Scanned
  <2> QED
    BY <2>2, <2>3, Zenon
<1> QED
  BY <1>1, <1>3, <1>7, <1>8, Zenon DEF Inv

LEMMA InitInv ==
    ASSUME Init
    PROVE  Inv
<1>1. /\ resistors \subseteq Devices /\ original = net_v /\ nextNetId = [n \in Nets |-> n]
      /\ inactive = {d \in Devices : net_v["source"][d] = net_v["drain"][d]}
      /\ device_it = 1 /\ call = <<>> /\ error = "none"
      /\ first_v = LinkDevices(net_v).first /\ next_v = LinkDevices(net_v).next
      /\ count = [t \in Terminals |-> [n \in Nets |->
                     Cardinality({d \in Devices : Links(net_v, d, t) /\ net_v[t][d] = n})]]
  BY Zenon DEF Init
<1>2. /\ net_v["source"] \in [Devices -> Nets] /\ net_v["drain"] \in [Devices -> Nets]
      /\ net_v["gate"] \in [Devices -> MaybeNets]
      /\ \A d \in Devices \ resistors : net_v["gate"][d] # UNKNOWN_NET
  BY Zenon DEF Init, MaybeNets
<1>3. \A t \in Terminals : t \in Ends \/ t = "gate"
  BY Zenon DEF Terminals, Ends
<1>4. \A t \in Ends : t = "source" \/ t = "drain"
  BY Zenon DEF Ends
<1>5. \A t \in Ends, d \in Devices : net_v[t][d] \in Nets
  BY <1>2, <1>4, Zenon
<1>6. Placed(net_v)
  <2>1. ASSUME NEW d \in Devices, Links(net_v, d, "gate")
        PROVE  net_v["gate"][d] \in Nets
    BY <2>1, <1>2, Zenon DEF Links, Linked, Mos, MaybeNets
  <2> QED
    BY <2>1, <1>3, <1>5, Zenon DEF Placed
<1>7. /\ first_v \in [Terminals -> [Nets -> Opt]] /\ next_v \in [Terminals -> [Devices -> Opt]]
      /\ \A t \in Terminals, n \in Nets : Lists(first_v[t][n], next_v[t], Listed(net_v, t, n))
  BY <1>1, <1>6, LinkedLists, ZenonT(40)
<1>8. ASSUME NEW t \in Terminals, NEW n \in Nets
      PROVE  count[t][n] = Cardinality(Listed(net_v, t, n)) /\ Cardinality(Listed(net_v, t, n)) \in Int
  <2>1. count[t][n] = Cardinality(Listed(net_v, t, n))
    BY <1>1, Zenon DEF Listed
  <2>2. Listed(net_v, t, n) \subseteq Devices
    BY Zenon DEF Listed
  <2>3. Cardinality(Listed(net_v, t, n)) \in Nat
    BY <2>2, FiniteDevices, Zenon
  <2> QED
    BY <2>1, <2>3
<1>9. Typed
  <2>1. count \in [Terminals -> [Nets -> Int]]
    <3>1. \A t \in Terminals, n \in Nets :
             Cardinality({d \in Devices : Links(net_v, d, t) /\ net_v[t][d] = n}) \in Int
      BY <1>8, Zenon DEF Listed
    <3> QED
      BY <3>1, <1>1, Zenon
  <2>2. \A t \in Ends : net_v[t] \in [Devices -> MaybeNets]
    BY <1>2, <1>4, Zenon DEF MaybeNets
  <2>3. \A t \in Terminals : net_v[t] \in [Devices -> MaybeNets]
    BY <2>2, <1>2, <1>3, Zenon
  <2>4. inactive \subseteq Devices /\ nextNetId \in [Nets -> Nets] /\ device_it \in Nat
    BY <1>1, Zenon
  <2> QED
    BY <2>1, <2>3, <2>4, <1>1, <1>5, <1>6, <1>7, Zenon DEF Typed
<1>10. ListsKept
  <2>1. \A t, n : Listed(net_v, t, n) = Here(InList(t), net_v[t], n)
    BY <1>1, Zenon DEF Listed, Here, InList
  <2> QED
    BY <2>1, <1>7, Zenon DEF ListsKept
<1>11. Counts
  <2>1. ASSUME NEW t \in Ends, NEW n \in Nets
        PROVE  count[t][n] = Cardinality(At(t, n))
    <3>1. t \in Terminals /\ t # "gate"
      BY OtherEnd, Zenon
    <3>2. Listed(net_v, t, n) = At(t, n)
      BY <3>1, <1>1, Zenon DEF Listed, At, Links, Linked
    <3> QED
      BY <3>1, <3>2, <1>8, Zenon
  <2> QED
    BY <2>1, Zenon DEF Counts
<1>12. Unmoved
  BY <1>1, Zenon DEF Unmoved
<1>13. Chains
  <2> DEFINE root == [n \in Nets |-> n]
             depth == [n \in Nets |-> 0]
  <2>1. Chained(root, depth)
    <3>1. root \in [Nets -> Nets] /\ depth \in [Nets -> Nat]
      BY Zenon
    <3>2. \A n \in Nets : nextNetId[n] = n /\ root[n] = n /\ depth[n] = 0
      BY <1>1, Zenon
    <3>3. 0 <= Cardinality(MergedAway)
      BY MergedAwayFinite
    <3> HIDE DEF root, depth
    <3> QED
      BY <3>1, <3>2, <3>3, Zenon DEF Chained
  <2>2. Moved(root)
    BY <1>1, <1>6, Zenon DEF Moved, Placed
  <2> QED
    BY <2>1, <2>2, Zenon DEF Chains
<1>14. Gone
  BY <1>1, Zenon DEF Gone
<1>15. Calling
  BY <1>1, Zenon DEF Calling
<1>16. Scanned
  <2>1. \A d \in resistors : ~ (d < 1)
    <3>1. \A d \in Devices : ~ (d < 1)
      BY DEF Devices
    <3> QED
      BY <3>1, <1>1, Zenon
  <2> QED
    BY <2>1, <1>1, Zenon DEF Scanned
<1> QED
  BY <1>1, <1>9, <1>10, <1>11, <1>12, <1>13, <1>14, <1>15, <1>16, Zenon DEF Inv

LEMMA StepKeepsInv ==
    ASSUME Inv, [Next]_vars
    PROVE  Inv'
<1>1. CASE ScanDevice
  BY <1>1, ScanKeepsInv, Zenon
<1>2. CASE ShortNonConductingResistor
  BY <1>2, ShortKeepsInv, Zenon
<1>3. CASE UNCHANGED vars
  <2>1. /\ UNCHANGED <<resistors, ports, power, net_v, original, first_v, next_v, count, inactive, nextNetId>>
        /\ call' = call /\ device_it' = device_it /\ error' = error
    BY <1>3, Zenon DEF vars
  <2>2. device_it' \in Nat
    BY <2>1, Zenon DEF Inv, Typed
  <2>3. Typed' /\ ListsKept' /\ Counts' /\ Unmoved' /\ Chains' /\ Gone'
    BY <2>1, <2>2, RestKept, Zenon
  <2>4. \A n : IsDeadEnd(n)' <=> IsDeadEnd(n)
    BY <2>1, Zenon DEF IsDeadEnd
  <2>5. Calling' /\ Scanned'
    BY <2>1, <2>4, Zenon DEF Inv, Calling, Scanned
  <2> QED
    BY <2>1, <2>3, <2>5, Zenon DEF Inv
<1>4. CASE Finished
  BY <1>3, <1>4, Zenon DEF Finished
<1> QED
  BY <1>1, <1>2, <1>3, <1>4, Zenon DEF Next

\* The invariant holds all along the loop of ShortNonConductingResistors.
THEOREM ListsInvariant == Spec => []Inv
<1>1. Init => Inv
  BY InitInv, Zenon
<1>2. Inv /\ [Next]_vars => Inv'
  BY StepKeepsInv, Zenon
<1> QED
  BY <1>1, <1>2, PTL DEF Spec

\* For every number of devices and every set of nets, the assertion in
\* ShortNonConductingResistor and the exceptions of
\* FindUniqueSourceDrainConnectedDevice and its caller are not reached.
THEOREM MergeMeetsNoError == Spec => []NoDatabaseError
<1>1. Inv => NoDatabaseError
  BY Zenon DEF Inv, NoDatabaseError
<1> QED
  BY <1>1, ListsInvariant, PTL

\* For every number of devices and every set of nets, each list that LinkDevices
\* builds and MergeConnectionLists changes ends and has the devices at its net,
\* the counts are those of the active devices, and the terminals are where the
\* virtual nets lead.
THEOREM ListsAndNetsAgree == Spec => []ListsMatchNets
<1>1. ASSUME Inv
      PROVE  ListsMatchNets
  <2>1. ASSUME NEW t \in Terminals, NEW n \in Nets
        PROVE  LET here == {d \in Devices : Links(original, d, t) /\ net_v[t][d] = n}
               IN  /\ Members(first_v[t], next_v[t], n) = here
                   /\ Member(first_v[t], next_v[t], n, Cardinality(here)) = UNKNOWN_DEVICE
    <3> DEFINE first == first_v[t]
               next == next_v[t]
               S == Here(InList(t), net_v[t], n)
    <3>1. next \in [Devices -> Opt] /\ Lists(first[n], next, S)
      BY <1>1, Zenon DEF Inv, Typed, ListsKept
    <3>2. S \subseteq Devices /\ S = {d \in Devices : Links(original, d, t) /\ net_v[t][d] = n}
      BY Zenon DEF Here, InList
    <3> HIDE DEF first, next, S
    <3>3. Members(first, next, n) = S /\ Member(first, next, n, Cardinality(S)) = UNKNOWN_DEVICE
      BY <3>1, <3>2, ListMembers, Zenon
    <3> QED
      BY <3>2, <3>3, Zenon DEF first, next
  <2>2. \A t \in {"source", "drain"}, n \in Nets :
           count[t][n] = Cardinality({d \in Devices \ inactive : net_v[t][d] = n})
    BY <1>1, Zenon DEF Inv, Counts, Ends, At
  <2>3. PICK root, depth : Chained(root, depth) /\ Moved(root)
    BY <1>1, Zenon DEF Inv, Chains
  <2>4. nextNetId \in [Nets -> Nets] /\ Placed(original)
    BY <1>1, Zenon DEF Inv, Typed
  <2>5. \A n \in Nets : End(n) = root[n]
    BY <2>3, <2>4, EndIsRoot, Zenon
  <2>6. \A n \in Nets : nextNetId[End(n)] = End(n)
    <3>1. \A n \in Nets : nextNetId[root[n]] = root[n]
      BY <2>3, Zenon DEF Chained
    <3> QED
      BY <3>1, <2>5, Zenon
  <2>7. \A d \in Devices, t \in Terminals :
           Links(original, d, t) => net_v[t][d] = End(original[t][d])
    BY <2>3, <2>4, <2>5, ZenonT(40) DEF Moved, Placed
  <2> QED
    BY <2>1, <2>2, <2>6, <2>7, Zenon DEF ListsMatchNets
<1>2. Inv => ListsMatchNets
  BY <1>1, Zenon
<1> QED
  BY <1>2, ListsInvariant, PTL

\* For every number of devices and every set of nets, ShortNonConductingResistors
\* merges no net with power or with an active mos, and leaves no dead end that is
\* not a port.
THEOREM DeadEndsAreMerged == Spec => []ExactlyDeadEndsMerged
<1>1. ASSUME Inv
      PROVE  ExactlyDeadEndsMerged
  <2>1. ASSUME NEW n \in Nets, nextNetId[n] # n
        PROVE  /\ n \notin power
               /\ \A d \in Mos \ inactive : n \notin {original["source"][d], original["drain"][d]}
    <3>1. n \notin power /\ \A t \in Ends : At(t, n) = {}
      BY <1>1, <2>1, Zenon DEF Inv, Gone
    <3>2. ASSUME NEW d \in Mos \ inactive, NEW t \in Ends
          PROVE  original[t][d] # n
      <4>1. d \in Devices \ inactive
        BY Zenon DEF Mos
      <4>2. net_v[t][d] = original[t][d]
        BY <4>1, <1>1, Zenon DEF Inv, Unmoved
      <4> QED
        BY <4>1, <4>2, <3>1, Zenon DEF At
    <3>3. "source" \in Ends /\ "drain" \in Ends
      BY Zenon DEF Ends
    <3> QED
      BY <3>1, <3>2, <3>3, Zenon
  <2>2. ASSUME device_it > DeviceCount, call = <<>>
        PROVE  \A d \in resistors \ inactive, t \in {"source", "drain"} :
                  net_v[t][d] \in ports \/ ~ IsDeadEnd(net_v[t][d])
    <3>1. \A d \in resistors \ inactive : d < device_it
      BY <1>1, <2>2, UnknownIsNoDevice DEF Inv, Typed, Devices
    <3> QED
      BY <3>1, <1>1, <2>2, Zenon DEF Inv, Scanned, Ends
  <2> QED
    BY <2>1, <2>2, Zenon DEF ExactlyDeadEndsMerged
<1>2. Inv => ExactlyDeadEndsMerged
  BY <1>1, Zenon
<1> QED
  BY <1>2, ListsInvariant, PTL

=============================================================================
