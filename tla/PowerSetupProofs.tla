-------------------------- MODULE PowerSetupProofs --------------------------
(***************************************************************************)
(* For every number of nets, all switches and all power files: nets are    *)
(* equivalent exactly if shorted switches join them, and from the end of   *)
(* SetEquivalentNets on each class has one power, at the net that stands   *)
(* for it.                                                                 *)
(*                                                                         *)
(* The invariant has two functions that are not in the code: root, the     *)
(* least net of each class, and F, the powers of the nets when the last    *)
(* switch was shorted.  The last pass overwrites links and powers from the *)
(* greatest net down; below net_it they are still those of root and F, and *)
(* that is all that the walk from the next net meets.                      *)
(***************************************************************************)
EXTENDS PowerSetup, NaturalsInduction, WellFoundedInduction, TLAPS

-----------------------------------------------------------------------------
(* Natural numbers and recursive functions.                                *)

\* A set of natural numbers that is not empty has a least one.
LEMMA LeastNumber ==
    ASSUME NEW S, S \subseteq Nat, S # {}
    PROVE  \E n \in S : \A m \in S : n <= m
<1>1. \E n \in S : \A m \in S : ~ (<<m, n>> \in OpToRel(<, Nat))
  BY NatLessThanWellFounded, WFMin, Zenon
<1>2. PICK n \in S : \A m \in S : ~ (m < n)
  BY <1>1, Zenon DEF OpToRel
<1> QED
  BY <1>2

\* Induction up to a bound.
LEMMA IntervalInduction ==
    ASSUME NEW n \in Nat, NEW S, 0 \in S,
           \A k \in 0 .. n : k \in S /\ k < n => k + 1 \in S
    PROVE  0 .. n \subseteq S
<1> DEFINE out == {k \in 0 .. n : k \notin S}
<1>1. SUFFICES ASSUME out # {}
               PROVE  FALSE
  BY Zenon
<1>2. PICK k \in out : \A j \in out : k <= j
  <2>1. out \subseteq Nat
    OBVIOUS
  <2> HIDE DEF out
  <2> QED
    BY <2>1, <1>1, LeastNumber, Zenon
<1>3. k # 0 /\ k - 1 \in 0 .. n /\ k - 1 < n
  BY <1>2
<1>4. k - 1 \in S
  BY <1>2, <1>3
<1>5. (k - 1) + 1 \in S
  BY <1>3, <1>4, Zenon
<1>6. (k - 1) + 1 = k
  BY <1>2
<1> QED
  BY <1>2, <1>5, <1>6, Zenon

\* f is the function that is a at 0 and g[k] of its previous value at k.
Recursive(f, n, A, a, g) ==
    /\ f \in [0 .. n -> A]
    /\ f[0] = a
    /\ \A k \in 1 .. n : f[k] = g[k][f[k - 1]]

\* A function can be defined by recursion up to a bound.
LEMMA RecursionUpTo ==
    ASSUME NEW n \in Nat, NEW A, NEW a \in A, NEW g \in [1 .. n -> [A -> A]]
    PROVE  \E f : Recursive(f, n, A, a, g)
<1> DEFINE Fits(m, f) == f[0] = a /\ \A k \in 1 .. m : f[k] = g[k][f[k - 1]]
           S == {m \in 0 .. n : \E f \in [0 .. m -> A] : Fits(m, f)}
<1>1. 0 \in S
  <2> DEFINE f == [k \in 0 .. 0 |-> a]
  <2>1. f \in [0 .. 0 -> A] /\ f[0] = a
    OBVIOUS
  <2>2. \A k \in 1 .. 0 : FALSE
    OBVIOUS
  <2> HIDE DEF f
  <2>3. Fits(0, f)
    BY <2>1, <2>2, Zenon
  <2> QED
    BY <2>1, <2>3
<1>2. ASSUME NEW m \in 0 .. n, m \in S, m < n
      PROVE  m + 1 \in S
  <2>1. PICK f \in [0 .. m -> A] : Fits(m, f)
    BY <1>2, Zenon
  <2> DEFINE h == [k \in 0 .. m + 1 |-> IF k <= m THEN f[k] ELSE g[m + 1][f[m]]]
  <2>2. m \in Nat /\ m + 1 \in 1 .. n /\ m + 1 \in 0 .. n /\ f[m] \in A
    BY <1>2
  <2>3. g[m + 1] \in [A -> A]
    BY <2>2, Zenon
  <2>4. g[m + 1][f[m]] \in A
    BY <2>2, <2>3, Zenon
  <2>5. h \in [0 .. m + 1 -> A]
    BY <2>4, <2>2
  <2>6. h[0] = a
    BY <2>1, <2>2
  <2>7. ASSUME NEW k \in 1 .. m + 1
        PROVE  h[k] = g[k][h[k - 1]]
    <3>1. h[k - 1] = f[k - 1]
      BY <2>2, <2>7
    <3>2. CASE k <= m
      <4>1. k \in 1 .. m /\ h[k] = f[k]
        BY <3>2, <2>2, <2>7
      <4> QED
        BY <4>1, <3>1, <2>1, Zenon
    <3>3. CASE ~ (k <= m)
      <4>1. k = m + 1 /\ k - 1 = m
        BY <3>3, <2>2, <2>7
      <4>2. h[k] = g[m + 1][f[m]]
        BY <3>3, <2>7
      <4> QED
        BY <4>1, <4>2, <3>1, Zenon
    <3> QED
      BY <3>2, <3>3, Zenon
  <2> HIDE DEF h
  <2>8. Fits(m + 1, h)
    BY <2>6, <2>7, Zenon
  <2> QED
    BY <2>2, <2>5, <2>8, Zenon
<1>3. 0 .. n \subseteq S
  <2> HIDE DEF S
  <2> QED
    BY <1>1, <1>2, IntervalInduction, Zenon
<1>4. n \in S
  BY <1>3
<1> QED
  BY <1>4, Zenon DEF Recursive

-----------------------------------------------------------------------------
(* The least net of a class.                                               *)

LEMMA NetsAreNumbers ==
    /\ NetCount \in Nat /\ NULL \notin Nets
    /\ \A n \in Nets : n \in Nat /\ n < NetCount
    /\ \A n \in Nat : n < NetCount => n \in Nets
BY NetCountAssumption DEF Nets

\* Below top the links lead down to the least net of the class, root.
Roots(link, root, top) ==
    /\ link \in [Nets -> Nets] /\ root \in [Nets -> Nets]
    /\ \A n \in Nets : root[n] <= n /\ root[root[n]] = root[n]
    /\ \A n \in Nets : n < top =>
          link[n] <= n /\ root[link[n]] = root[n] /\ (link[n] = n => root[n] = n)

LEMMA RootIsLinkedToItself ==
    ASSUME NEW link, NEW root, NEW top \in Nat, Roots(link, root, top), NEW n \in Nets, n < top
    PROVE  root[n] \in Nets /\ root[n] < top /\ link[root[n]] = root[n]
<1> DEFINE r == root[n]
<1>1. r \in Nets /\ r <= n /\ root[r] = r
  BY Zenon DEF Roots
<1>2. n \in Nat /\ r \in Nat /\ r < top
  BY <1>1, NetsAreNumbers
<1>3. link[r] \in Nets /\ link[r] <= r /\ root[link[r]] = r
  BY <1>1, <1>2, Zenon DEF Roots
<1>4. r <= link[r]
  BY <1>3, Zenon DEF Roots
<1>5. link[r] \in Nat
  BY <1>3, NetsAreNumbers, Zenon
<1> QED
  BY <1>1, <1>2, <1>3, <1>4, <1>5

Down(link, n) == IF link[n] < n THEN link[n] ELSE n

\* The walk of GetLeastEquivalentNet, step by step.
LEMMA WalkSteps ==
    ASSUME equivalentNet_v \in [Nets -> Nets], NEW n \in Nets
    PROVE  \E w \in [0 .. NetCount -> Nets] :
              /\ w[0] = n
              /\ \A k \in 1 .. NetCount : w[k] = Down(equivalentNet_v, w[k - 1])
              /\ GetLeastEquivalentNet(n) = w[NetCount]
<1> DEFINE walk[k \in 0 .. NetCount] ==
             IF k = 0 THEN n
             ELSE IF equivalentNet_v[walk[k - 1]] < walk[k - 1]
                    THEN equivalentNet_v[walk[k - 1]] ELSE walk[k - 1]
           body(f) == [k \in 0 .. NetCount |->
                          IF k = 0 THEN n
                          ELSE IF equivalentNet_v[f[k - 1]] < f[k - 1]
                                 THEN equivalentNet_v[f[k - 1]] ELSE f[k - 1]]
           g == [k \in 1 .. NetCount |-> [m \in Nets |-> Down(equivalentNet_v, m)]]
<1>1. GetLeastEquivalentNet(n) = walk[NetCount]
  BY Zenon DEF GetLeastEquivalentNet
<1>2. walk = CHOOSE f : f = body(f)
  BY Zenon
<1> HIDE DEF walk
<1>3. g \in [1 .. NetCount -> [Nets -> Nets]]
  BY Zenon DEF Down
<1>4. PICK f : Recursive(f, NetCount, Nets, n, g)
  <2> HIDE DEF g
  <2> QED
    BY <1>3, NetCountAssumption, RecursionUpTo, Zenon
<1>5. /\ f \in [0 .. NetCount -> Nets] /\ f[0] = n
      /\ \A k \in 1 .. NetCount : f[k] = g[k][f[k - 1]]
  BY <1>4, Zenon DEF Recursive
<1>6. ASSUME NEW k \in 1 .. NetCount
      PROVE  f[k] = Down(equivalentNet_v, f[k - 1])
  <2>1. f[k - 1] \in Nets
    BY <1>5, NetCountAssumption
  <2>2. g[k][f[k - 1]] = Down(equivalentNet_v, f[k - 1])
    BY <2>1, Zenon
  <2> QED
    BY <1>5, <2>2, Zenon
<1>7. ASSUME NEW k \in 0 .. NetCount
      PROVE  f[k] = body(f)[k]
  <2>1. CASE k = 0
    BY <2>1, <1>5, Zenon
  <2>2. CASE k # 0
    <3>1. k \in 1 .. NetCount
      BY <2>2, NetCountAssumption
    <3> QED
      BY <3>1, <2>2, <1>6, Zenon DEF Down
  <2> QED
    BY <2>1, <2>2, Zenon
<1>8. f = body(f)
  BY <1>5, <1>7, Zenon
<1>9. walk = body(walk)
  <2> HIDE DEF body
  <2> QED
    BY <1>2, <1>8, Zenon
<1>10. ASSUME NEW k \in 0 .. NetCount
       PROVE  walk[k] = IF k = 0 THEN n ELSE Down(equivalentNet_v, walk[k - 1])
  <2>1. walk[k] = body(walk)[k]
    BY <1>9, Zenon
  <2> QED
    BY <2>1, Zenon DEF Down
<1>11. walk[0] = n
  BY <1>10, NetCountAssumption
<1>12. ASSUME NEW k \in 1 .. NetCount
       PROVE  walk[k] = Down(equivalentNet_v, walk[k - 1])
  BY <1>10, NetCountAssumption
<1>13. walk \in [0 .. NetCount -> Nets]
  <2> DEFINE S == {k \in 0 .. NetCount : walk[k] \in Nets}
  <2>1. 0 \in S
    BY <1>11, NetCountAssumption
  <2>2. ASSUME NEW k \in 0 .. NetCount, k \in S, k < NetCount
        PROVE  k + 1 \in S
    <3>1. k + 1 \in 1 .. NetCount /\ k + 1 \in 0 .. NetCount /\ (k + 1) - 1 = k
      BY <2>2, NetCountAssumption
    <3>2. walk[k + 1] = Down(equivalentNet_v, walk[k])
      BY <3>1, <1>12, Zenon
    <3> QED
      BY <3>1, <3>2, <2>2, Zenon DEF Down
  <2>3. 0 .. NetCount \subseteq S
    <3> HIDE DEF S
    <3> QED
      BY <2>1, <2>2, NetCountAssumption, IntervalInduction, Zenon
  <2>4. walk = [k \in 0 .. NetCount |-> walk[k]]
    BY <1>9, Zenon
  <2> QED
    BY <2>3, <2>4, Zenon
<1> QED
  BY <1>1, <1>11, <1>12, <1>13, Zenon

\* GetLeastEquivalentNet returns the root, if the links below the net are those
\* of root: the links of greater nets may be overwritten already.
LEMMA LeastIsRoot ==
    ASSUME NEW root, NEW top \in Nat, Roots(equivalentNet_v, root, top), NEW n \in Nets, n < top
    PROVE  GetLeastEquivalentNet(n) = root[n]
<1> DEFINE link == equivalentNet_v
<1>1. PICK w \in [0 .. NetCount -> Nets] :
              /\ w[0] = n
              /\ \A k \in 1 .. NetCount : w[k] = Down(link, w[k - 1])
              /\ GetLeastEquivalentNet(n) = w[NetCount]
  BY WalkSteps, Zenon DEF Roots
<1> DEFINE S == {k \in 0 .. NetCount : /\ root[w[k]] = root[n] /\ w[k] <= n
                                       /\ w[k] = root[n] \/ w[k] + k <= n}
<1> HIDE DEF link
<1>2. Roots(link, root, top) /\ root[n] \in Nets
  BY Zenon DEF link, Roots
<1>3. 0 \in S
  BY <1>1, NetsAreNumbers
<1>4. ASSUME NEW k \in 0 .. NetCount, k \in S, k < NetCount
      PROVE  k + 1 \in S
  <2> DEFINE m == w[k]
  <2>1. k + 1 \in 1 .. NetCount /\ k + 1 \in 0 .. NetCount /\ (k + 1) - 1 = k /\ k \in Nat
    BY <1>4, NetCountAssumption
  <2>2. w[k + 1] = Down(link, m)
    BY <2>1, <1>1, Zenon
  <2>3. m \in Nets /\ m \in Nat /\ n \in Nat /\ m <= n /\ root[m] = root[n]
    BY <1>1, <1>4, NetsAreNumbers, Zenon
  <2>4. /\ link[m] \in Nets /\ link[m] <= m /\ root[link[m]] = root[m]
        /\ link[m] = m => root[m] = m
    BY <1>2, <2>3 DEF Roots
  <2>5. link[m] \in Nat
    BY <2>4, NetsAreNumbers, Zenon
  <2>6. CASE link[m] < m
    <3>1. w[k + 1] = link[m]
      BY <2>2, <2>6, Zenon DEF Down
    <3>2. m # root[n]
      <4>1. root[n] <= link[m]
        BY <1>2, <2>3, <2>4, Zenon DEF Roots
      <4> QED
        BY <4>1, <1>2, <2>3, <2>5, <2>6, NetsAreNumbers
    <3>3. m + k <= n
      BY <1>4, <3>2, Zenon
    <3>4. link[m] + (k + 1) <= n /\ link[m] <= n
      BY <3>3, <2>1, <2>3, <2>5, <2>6
    <3> QED
      BY <3>1, <3>4, <2>1, <2>3, <2>4, Zenon
  <2>7. CASE ~ (link[m] < m)
    <3>1. link[m] = m
      BY <2>3, <2>4, <2>5, <2>7
    <3>2. w[k + 1] = m /\ m = root[n]
      BY <3>1, <2>2, <2>3, <2>4, Zenon DEF Down
    <3> QED
      BY <3>2, <2>1, <2>3, Zenon
  <2> QED
    BY <2>6, <2>7, Zenon
<1>5. 0 .. NetCount \subseteq S
  <2> HIDE DEF S
  <2> QED
    BY <1>3, <1>4, NetCountAssumption, IntervalInduction, Zenon
<1>6. NetCount \in S
  BY <1>5, NetCountAssumption
<1>7. w[NetCount] \in Nat /\ n < NetCount /\ n \in Nat
  BY <1>1, NetsAreNumbers
<1> QED
  BY <1>1, <1>6, <1>7, NetCountAssumption

-----------------------------------------------------------------------------
(* Classes.                                                                *)

Opt == Nets \cup {NULL}

Closed(S, joins) == \A s \in joins : s \cap S # {} => s \subseteq S

\* root is the same for two nets exactly if the joins connect them.
Together(root, joins) ==
    /\ \A s \in joins : s \subseteq Nets /\ \A x, y \in s : root[x] = root[y]
    /\ \A S \in SUBSET Nets : Closed(S, joins) => \A n \in Nets : n \in S <=> root[n] \in S

LEMMA TogetherIsJoined ==
    ASSUME NEW root \in [Nets -> Nets], Together(root, shorted), NEW a \in Nets, NEW b \in Nets
    PROVE  (root[a] = root[b]) = Joined(a, b)
<1>1. ASSUME root[a] = root[b]
      PROVE  Joined(a, b)
  <2> SUFFICES ASSUME NEW S \in SUBSET Nets, a \in S, Closed(S, shorted)
               PROVE  b \in S
    BY Zenon DEF Joined, Closed
  <2> QED
    BY <1>1, Zenon DEF Together
<1>2. ASSUME Joined(a, b)
      PROVE  root[a] = root[b]
  <2> DEFINE S == {n \in Nets : root[n] = root[a]}
  <2>1. Closed(S, shorted)
    BY Zenon DEF Closed, Together
  <2>2. S \in SUBSET Nets /\ a \in S
    BY Zenon
  <2>3. b \in S
    <3> HIDE DEF S
    <3> QED
      BY <2>1, <2>2, <1>2, Zenon DEF Joined, Closed
  <2> QED
    BY <2>3, Zenon
<1>3. Joined(a, b) \in BOOLEAN
  BY Zenon DEF Joined
<1> QED
  BY <1>1, <1>2, <1>3, Zenon

\* The nets of a class have the same power, or none, and it is that of a net of
\* the class.
Represent(root, F) ==
    /\ F \in [Nets -> Opt]
    /\ \A n \in Nets : F[n] = F[root[n]]
    /\ \A n \in Nets : F[n] # NULL => root[F[n]] = root[n]

\* theNetMap has the classes, at their least nets.
Mapped(root, map) ==
    /\ map \in [Nets -> SUBSET Nets]
    /\ \A n \in Nets : root[n] = n => map[n] = {m \in Nets : m # n /\ root[m] = n}

\* Where a class is numbered in the end.
Number(root, F, n) == IF F[root[n]] # NULL THEN F[root[n]] ELSE root[n]

\* The last pass has numbered the nets from top on.
Numbered(root, F, link, power, top) ==
    /\ power \in [Nets -> Opt]
    /\ \A n \in Nets :
          IF n < top THEN power[n] = F[n]
          ELSE link[n] = Number(root, F, n) /\ power[n] = IF F[n] = n THEN n ELSE NULL

LEMMA NumberIsInClass ==
    ASSUME NEW root, NEW F, root \in [Nets -> Nets], \A n \in Nets : root[root[n]] = root[n],
           Represent(root, F), NEW n \in Nets
    PROVE  /\ Number(root, F, n) \in Nets
           /\ root[Number(root, F, n)] = root[n]
           /\ Number(root, F, Number(root, F, n)) = Number(root, F, n)
<1>1. /\ Number(root, F, n) \in Nets
      /\ root[Number(root, F, n)] = root[n]
  BY DEF Number, Represent, Opt
<1> QED
  BY <1>1, Zenon DEF Number

-----------------------------------------------------------------------------
(* A switch.                                                               *)

\* The classes of the nets lesser and greater, which are least, become one.
Merged(root, lesser, greater) == [n \in Nets |-> IF root[n] = greater THEN lesser ELSE root[n]]

LEMMA MergedRoots ==
    ASSUME NEW link, NEW root, Roots(link, root, NetCount),
           NEW lesser \in Nets, NEW greater \in Nets, lesser < greater,
           root[lesser] = lesser, root[greater] = greater
    PROVE  Roots([link EXCEPT ![greater] = lesser], Merged(root, lesser, greater), NetCount)
<1> DEFINE t == Merged(root, lesser, greater)
           l == [link EXCEPT ![greater] = lesser]
<1>1. /\ link \in [Nets -> Nets] /\ root \in [Nets -> Nets]
      /\ \A n \in Nets : root[n] <= n /\ root[root[n]] = root[n]
      /\ \A n \in Nets : link[n] <= n /\ root[link[n]] = root[n] /\ (link[n] = n => root[n] = n)
      /\ \A n \in Nets : n \in Nat
  BY NetsAreNumbers, Zenon DEF Roots
<1>2. t \in [Nets -> Nets] /\ \A n \in Nets : t[n] = IF root[n] = greater THEN lesser ELSE root[n]
  BY <1>1, Zenon DEF Merged
<1>3. l \in [Nets -> Nets] /\ \A n \in Nets : l[n] = IF n = greater THEN lesser ELSE link[n]
  BY <1>1, Zenon
<1> HIDE DEF t, l
<1>4. ASSUME NEW n \in Nets
      PROVE  t[n] <= n /\ t[t[n]] = t[n]
  <2>1. lesser # greater
    BY <1>1
  <2>2. CASE root[n] = greater
    <3>1. t[n] = lesser /\ t[lesser] = lesser /\ greater <= n
      BY <2>1, <2>2, <1>1, <1>2, Zenon
    <3> QED
      BY <3>1, <1>1
  <2>3. CASE root[n] # greater
    <3>1. t[n] = root[n] /\ root[n] \in Nets
      BY <2>3, <1>1, <1>2, Zenon
    <3>2. t[root[n]] = root[n]
      BY <2>3, <3>1, <1>1, <1>2, Zenon
    <3> QED
      BY <3>1, <3>2, <1>1, Zenon
  <2> QED
    BY <2>2, <2>3, Zenon
<1>5. ASSUME NEW n \in Nets
      PROVE  l[n] <= n /\ t[l[n]] = t[n] /\ (l[n] = n => t[n] = n)
  <2>1. CASE n = greater
    BY <2>1, <1>1, <1>2, <1>3
  <2>2. CASE n # greater
    <3>1. l[n] = link[n] /\ link[n] \in Nets
      BY <2>2, <1>1, <1>3, Zenon
    <3>2. t[link[n]] = t[n]
      BY <3>1, <1>1, <1>2, Zenon
    <3>3. link[n] = n => t[n] = n
      BY <2>2, <1>1, <1>2, Zenon
    <3> QED
      BY <3>1, <3>2, <3>3, <1>1, Zenon
  <2> QED
    BY <2>1, <2>2, Zenon
<1>6. Roots(l, t, NetCount)
  BY <1>2, <1>3, <1>4, <1>5, Zenon DEF Roots
<1> QED
  BY <1>6, Zenon DEF t, l

LEMMA MergedTogether ==
    ASSUME NEW root \in [Nets -> Nets], NEW joins, Together(root, joins),
           NEW a \in Nets, NEW b \in Nets, NEW lesser \in Nets, NEW greater \in Nets,
           lesser # greater, {root[a], root[b]} = {lesser, greater}
    PROVE  Together(Merged(root, lesser, greater), joins \cup {{a, b}})
<1> DEFINE t == Merged(root, lesser, greater)
<1>1. \A n \in Nets : t[n] = IF root[n] = greater THEN lesser ELSE root[n]
  BY Zenon DEF Merged
<1> HIDE DEF t
<1>2. ASSUME NEW s \in joins \cup {{a, b}}
      PROVE  s \subseteq Nets /\ \A x, y \in s : t[x] = t[y]
  <2>1. CASE s \in joins
    BY <2>1, <1>1 DEF Together
  <2>2. CASE s = {a, b}
    <3>1. t[a] = lesser /\ t[b] = lesser
      BY <1>1, Zenon
    <3> QED
      BY <2>2, <3>1, Zenon
  <2> QED
    BY <2>1, <2>2, Zenon
<1>3. ASSUME NEW S \in SUBSET Nets, Closed(S, joins \cup {{a, b}}), NEW n \in Nets
      PROVE  n \in S <=> t[n] \in S
  <2>1. Closed(S, joins)
    BY <1>3, Zenon DEF Closed
  <2>2. \A m \in Nets : m \in S <=> root[m] \in S
    BY <2>1, Zenon DEF Together
  <2>3. a \in S <=> b \in S
    <3>1. {a, b} \cap S # {} => {a, b} \subseteq S
      BY <1>3, Zenon DEF Closed
    <3> QED
      BY <3>1, Zenon
  <2>4. lesser \in S <=> greater \in S
    BY <2>2, <2>3
  <2> QED
    BY <2>2, <2>4, <1>1, Zenon
<1>4. Together(t, joins \cup {{a, b}})
  BY <1>2, <1>3, Zenon DEF Together
<1> QED
  BY <1>4, Zenon DEF t

LEMMA MergedMap ==
    ASSUME NEW root \in [Nets -> Nets], Mapped(root, theNetMap),
           NEW lesser \in Nets, NEW greater \in Nets, lesser # greater,
           root[lesser] = lesser, root[greater] = greater
    PROVE  Mapped(Merged(root, lesser, greater), Splice(lesser, greater))
<1> DEFINE t == Merged(root, lesser, greater)
           map == Splice(lesser, greater)
<1>1. \A n \in Nets : t[n] = IF root[n] = greater THEN lesser ELSE root[n]
  BY Zenon DEF Merged
<1>2. /\ theNetMap \in [Nets -> SUBSET Nets]
      /\ theNetMap[lesser] = {m \in Nets : m # lesser /\ root[m] = lesser}
      /\ theNetMap[greater] = {m \in Nets : m # greater /\ root[m] = greater}
      /\ \A n \in Nets : root[n] = n => theNetMap[n] = {m \in Nets : m # n /\ root[m] = n}
  BY Zenon DEF Mapped
<1>3. /\ map \in [Nets -> SUBSET Nets]
      /\ map[lesser] = theNetMap[lesser] \cup {greater} \cup theNetMap[greater]
      /\ \A n \in Nets : n # lesser /\ n # greater => map[n] = theNetMap[n]
  BY <1>2, Zenon DEF Splice
<1> HIDE DEF t, map
<1>4. ASSUME NEW n \in Nets, t[n] = n
      PROVE  map[n] = {m \in Nets : m # n /\ t[m] = n}
  <2>1. CASE n = lesser
    BY <2>1, <1>1, <1>2, <1>3, Zenon
  <2>2. CASE n # lesser
    <3>1. n # greater /\ root[n] = n
      BY <2>2, <1>1, <1>4, Zenon
    <3>2. \A m \in Nets : t[m] = n <=> root[m] = n
      BY <2>2, <3>1, <1>1, Zenon
    <3> QED
      BY <2>2, <3>1, <3>2, <1>2, <1>3
  <2> QED
    BY <2>1, <2>2, Zenon
<1>5. Mapped(t, map)
  BY <1>3, <1>4, Zenon DEF Mapped
<1> QED
  BY <1>5, Zenon DEF t, map

\* P is the power of the class that two classes with the powers p and q form: one
\* of the two, if there is one, and the other one is a subset of it.
Prevails(P, p, q) ==
    /\ P \in {p, q} /\ (P = NULL => p = NULL /\ q = NULL)
    /\ \A x \in {p, q} : x \notin {NULL, P} => IsValidSubset(P, x)

LEMMA MasterPower ==
    ASSUME NEW a, NEW b, SetMasterPower(a, b) # [power |-> NULL, same |-> TRUE],
           ~Conflict(a, b), NEW P, P = SetMasterPower(a, b).power
    PROVE  Prevails(P, full[a], full[b])
<1>1. CASE full[a] = NULL
  BY <1>1, Zenon DEF Prevails, SetMasterPower
<1>2. CASE full[a] # NULL /\ full[b] = NULL
  BY <1>2, Zenon DEF Prevails, SetMasterPower
<1>3. CASE full[a] # NULL /\ full[b] # NULL
  BY <1>3, Zenon DEF Prevails, SetMasterPower, Conflict
<1> QED
  BY <1>1, <1>2, <1>3, Zenon

LEMMA MergedPower ==
    ASSUME NEW root \in [Nets -> Nets], \A n \in Nets : root[root[n]] = root[n],
           Represent(root, full), Mapped(root, theNetMap),
           NEW lesser \in Nets, NEW greater \in Nets, lesser # greater,
           root[lesser] = lesser, root[greater] = greater,
           NEW P, P \in {full[lesser], full[greater]},
           P = NULL => full[lesser] = NULL /\ full[greater] = NULL,
           NEW minor, minor = IF full[greater] = P THEN lesser ELSE greater,
           NEW F, F = Spread(minor, P)
    PROVE  /\ Represent(Merged(root, lesser, greater), F)
           /\ \A n \in Nets : full[n] # NULL => F[n] # NULL
           /\ \A n \in Nets : F[n] = IF root[n] \in {lesser, greater} THEN P ELSE full[n]
<1> DEFINE t == Merged(root, lesser, greater)
<1>1. t \in [Nets -> Nets] /\ \A n \in Nets : t[n] = IF root[n] = greater THEN lesser ELSE root[n]
  BY Zenon DEF Merged
<1> HIDE DEF t
<1>2. /\ full \in [Nets -> Opt]
      /\ \A n \in Nets : full[n] = full[root[n]]
      /\ \A n \in Nets : full[n] # NULL => full[n] \in Nets /\ root[full[n]] = root[n]
  BY Zenon DEF Represent, Opt
<1>3. CASE P = NULL
  <2>1. F = full
    BY <1>3, Zenon DEF Spread
  <2>2. ASSUME NEW n \in Nets
        PROVE  full[n] = full[t[n]]
    <3>1. CASE root[n] = greater
      BY <3>1, <1>1, <1>2, <1>3, Zenon
    <3>2. CASE root[n] # greater
      BY <3>2, <1>1, <1>2, Zenon
    <3> QED
      BY <3>1, <3>2, Zenon
  <2>3. \A n \in Nets : full[n] # NULL => t[full[n]] = t[n]
    BY <1>1, <1>2
  <2>4. Represent(t, full)
    BY <2>2, <2>3, <1>2, Zenon DEF Represent
  <2>5. \A n \in Nets : root[n] \in {lesser, greater} => full[n] = P
    BY <1>2, <1>3
  <2> QED
    BY <2>1, <2>4, <2>5, Zenon DEF t
<1>4. CASE P # NULL
  <2> DEFINE major == IF minor = lesser THEN greater ELSE lesser
  <2>1. /\ minor \in Nets /\ root[minor] = minor /\ major \in Nets /\ root[major] = major
        /\ full[major] = P /\ {major, minor} = {lesser, greater}
    BY Zenon
  <2> HIDE DEF major
  <2>2. {minor} \cup theNetMap[minor] = {n \in Nets : root[n] = minor}
    BY <2>1 DEF Mapped
  <2>3. /\ F \in [Nets -> Opt]
        /\ \A n \in Nets : F[n] = IF root[n] = minor THEN P ELSE full[n]
    BY <2>1, <2>2, <1>2, <1>4, Zenon DEF Spread
  <2>4. P \in Nets /\ root[P] = major
    BY <2>1, <1>2, <1>4, Zenon
  <2>5. ASSUME NEW n \in Nets, root[n] \in {lesser, greater}
        PROVE  F[n] = P /\ t[n] = lesser
    <3>1. CASE root[n] = minor
      BY <3>1, <2>1, <2>3, <2>5, <1>1, Zenon
    <3>2. CASE root[n] = major
      BY <3>2, <2>1, <2>3, <2>5, <1>1, <1>2
    <3> QED
      BY <3>1, <3>2, <2>1, <2>5, Zenon
  <2>6. ASSUME NEW n \in Nets, root[n] \notin {lesser, greater}
        PROVE  F[n] = full[n] /\ t[n] = root[n]
    BY <2>1, <2>3, <2>6, <1>1, Zenon
  <2>7. ASSUME NEW n \in Nets
        PROVE  /\ F[n] = F[t[n]]
               /\ F[n] # NULL => t[F[n]] = t[n]
               /\ full[n] # NULL => F[n] # NULL
    <3>1. CASE root[n] \in {lesser, greater}
      <4>1. F[n] = P /\ t[n] = lesser /\ F[lesser] = P
        BY <3>1, <2>5, Zenon
      <4>2. t[P] = lesser
        BY <2>1, <2>4, <2>5, Zenon
      <4> QED
        BY <4>1, <4>2, <1>4, Zenon
    <3>2. CASE root[n] \notin {lesser, greater}
      <4>1. F[n] = full[n] /\ t[n] = root[n] /\ root[n] \in Nets
        BY <3>2, <2>6, Zenon
      <4>2. F[root[n]] = full[root[n]]
        BY <3>2, <4>1, <2>6, Zenon
      <4>3. full[n] # NULL => t[full[n]] = root[n]
        BY <3>2, <1>1, <1>2, Zenon
      <4> QED
        BY <4>1, <4>2, <4>3, <1>2, Zenon
    <3> QED
      BY <3>1, <3>2, Zenon
  <2>8. Represent(t, F)
    BY <2>3, <2>7, Zenon DEF Represent
  <2>9. \A n \in Nets : F[n] = IF root[n] \in {lesser, greater} THEN P ELSE full[n]
    BY <2>5, <2>6, Zenon
  <2> QED
    BY <2>7, <2>8, <2>9, Zenon DEF t
<1> QED
  BY <1>3, <1>4, Zenon

-----------------------------------------------------------------------------
(* The list of powers.                                                     *)

LEMMA SeqOver ==
    ASSUME NEW S, NEW R, NEW s \in Seq(S), \A k \in DOMAIN s : s[k] \in R
    PROVE  s \in Seq(R)
<1>1. Len(s) \in Nat /\ s \in [1 .. Len(s) -> S] /\ DOMAIN s = 1 .. Len(s)
  OBVIOUS
<1>2. s \in [1 .. Len(s) -> R]
  BY <1>1, Zenon
<1> QED
  BY <1>1, <1>2

LEMMA SeqJoin ==
    ASSUME NEW R, NEW s \in Seq(R), NEW t \in Seq(R), NEW u \in Seq(R)
    PROVE  s \o t \o u \in Seq(R)
<1>1. s \o t \in Seq(R)
  OBVIOUS
<1> DEFINE v == s \o t
<1> HIDE DEF v
<1>2. v \in Seq(R)
  BY <1>1, Zenon DEF v
<1>3. v \o u \in Seq(R)
  BY <1>2
<1> QED
  BY <1>3, Zenon DEF v

LEMMA SeqElement ==
    ASSUME NEW R, NEW s \in Seq(R), NEW k \in DOMAIN s
    PROVE  s[k] \in R
OBVIOUS

\* The power list is a sequence of records.
IsList(list) == \E U : list \in Seq(U) /\ \A x \in U : {"net", "owner"} \subseteq DOMAIN x

\* n has a definition, or the list has its power.
Holds(list, defined, n) ==
    defined[n] # NULL \/ \E k \in DOMAIN list : list[k].owner /\ list[k].net = n

LEMMA EmptyIsList == IsList(<<>>)
<1> DEFINE U == {}
<1>1. <<>> \in Seq(U) /\ \A x \in U : {"net", "owner"} \subseteq DOMAIN x
  OBVIOUS
<1> HIDE DEF U
<1> QED
  BY <1>1, Zenon DEF IsList

LEMMA IsListAppend ==
    ASSUME NEW list, IsList(list), NEW x, {"net", "owner"} \subseteq DOMAIN x
    PROVE  /\ IsList(Append(list, x))
           /\ \A k \in DOMAIN Append(list, x) :
                 Append(list, x)[k] = x \/ (k \in DOMAIN list /\ Append(list, x)[k] = list[k])
<1>1. PICK U : list \in Seq(U) /\ \A y \in U : {"net", "owner"} \subseteq DOMAIN y
  BY Zenon DEF IsList
<1> DEFINE V == U \cup {x}
<1>2. list \in Seq(V) /\ x \in V /\ \A y \in V : {"net", "owner"} \subseteq DOMAIN y
  BY <1>1
<1> HIDE DEF V
<1>3. Append(list, x) \in Seq(V)
  BY <1>2
<1>4. ASSUME NEW k \in DOMAIN Append(list, x)
      PROVE  Append(list, x)[k] = x \/ (k \in DOMAIN list /\ Append(list, x)[k] = list[k])
  BY <1>2
<1> QED
  BY <1>2, <1>3, <1>4, Zenon DEF IsList

\* s has each element of S once.
Lists(s, S) ==
    /\ s \in Seq(S)
    /\ \A j, k \in DOMAIN s : s[j] = s[k] => j = k
    /\ \A x \in S : \E k \in DOMAIN s : s[k] = x

LEMMA ListsAppend ==
    ASSUME NEW S, NEW s, Lists(s, S), NEW x, x \notin S
    PROVE  Lists(Append(s, x), S \cup {x})
<1> DEFINE t == Append(s, x)
<1>1. s \in Seq(S) /\ Len(s) \in Nat /\ DOMAIN s = 1 .. Len(s)
  BY DEF Lists
<1>2. /\ t \in Seq(S \cup {x}) /\ DOMAIN t = 1 .. Len(s) + 1
      /\ t[Len(s) + 1] = x /\ \A k \in 1 .. Len(s) : t[k] = s[k] /\ s[k] \in S
  BY <1>1
<1>3. \A k \in DOMAIN t : k = Len(s) + 1 \/ k \in DOMAIN s
  BY <1>1, <1>2
<1>4. Len(s) + 1 \in DOMAIN t /\ DOMAIN s \subseteq DOMAIN t
  BY <1>1, <1>2
<1> HIDE DEF t
<1>5. ASSUME NEW j \in DOMAIN t, NEW k \in DOMAIN t, t[j] = t[k]
      PROVE  j = k
  BY <1>1, <1>2, <1>3, <1>5, Zenon DEF Lists
<1>6. ASSUME NEW y \in S \cup {x}
      PROVE  \E k \in DOMAIN t : t[k] = y
  BY <1>1, <1>2, <1>4, Zenon DEF Lists
<1>7. Lists(t, S \cup {x})
  BY <1>2, <1>5, <1>6, Zenon DEF Lists
<1> QED
  BY <1>7, Zenon DEF t

\* Ascending goes through each of the nets once.
LEMMA AscendingLists ==
    ASSUME NEW nets
    PROVE  Lists(Ascending(nets), nets \cap Nets)
<1> DEFINE up[k \in 0 .. NetCount] ==
              IF k = 0 THEN <<>>
              ELSE IF k - 1 \in nets THEN Append(up[k - 1], k - 1) ELSE up[k - 1]
           body(f) == [k \in 0 .. NetCount |->
              IF k = 0 THEN <<>>
              ELSE IF k - 1 \in nets THEN Append(f[k - 1], k - 1) ELSE f[k - 1]]
           A == Seq(nets \cap Nets)
           g == [k \in 1 .. NetCount |->
                    [s \in A |-> IF k - 1 \in nets THEN Append(s, k - 1) ELSE s]]
<1>1. Ascending(nets) = up[NetCount]
  BY Zenon DEF Ascending
<1>2. up = CHOOSE f : f = body(f)
  BY Zenon
<1> HIDE DEF up
<1>3. ASSUME NEW k \in 1 .. NetCount, NEW s \in A
      PROVE  (IF k - 1 \in nets THEN Append(s, k - 1) ELSE s) \in A
  <2>1. k - 1 \in Nets
    BY NetCountAssumption DEF Nets
  <2> QED
    BY <2>1
<1>4. g \in [1 .. NetCount -> [A -> A]]
  <2> HIDE DEF A
  <2> QED
    BY <1>3, Zenon
<1>5. <<>> \in A
  OBVIOUS
<1> HIDE DEF A
<1>6. PICK f : Recursive(f, NetCount, A, <<>>, g)
  <2> HIDE DEF g
  <2> QED
    BY <1>4, <1>5, NetCountAssumption, RecursionUpTo, Zenon
<1>7. /\ f \in [0 .. NetCount -> A] /\ f[0] = <<>>
      /\ \A k \in 1 .. NetCount : f[k] = g[k][f[k - 1]]
  BY <1>6, Zenon DEF Recursive
<1>8. ASSUME NEW k \in 0 .. NetCount
      PROVE  f[k] = body(f)[k]
  <2>1. CASE k = 0
    BY <2>1, <1>7, Zenon
  <2>2. CASE k # 0
    <3>1. k \in 1 .. NetCount /\ k - 1 \in 0 .. NetCount
      BY <2>2, NetCountAssumption
    <3>2. f[k - 1] \in A /\ f[k] = g[k][f[k - 1]]
      BY <3>1, <1>7, Zenon
    <3>3. f[k] = IF k - 1 \in nets THEN Append(f[k - 1], k - 1) ELSE f[k - 1]
      BY <3>1, <3>2, Zenon
    <3> QED
      BY <3>3, <2>2, Zenon
  <2> QED
    BY <2>1, <2>2, Zenon
<1>9. f = body(f)
  BY <1>7, <1>8, Zenon
<1>10. up = body(up)
  <2> HIDE DEF body
  <2> QED
    BY <1>2, <1>9, Zenon
<1>11. ASSUME NEW k \in 0 .. NetCount
       PROVE  up[k] = IF k = 0 THEN <<>>
                      ELSE IF k - 1 \in nets THEN Append(up[k - 1], k - 1) ELSE up[k - 1]
  <2>1. up[k] = body(up)[k]
    BY <1>10, Zenon
  <2> QED
    BY <2>1, Zenon
<1> DEFINE below(k) == {n \in nets \cap Nets : n < k}
           S == {k \in 0 .. NetCount : Lists(up[k], below(k))}
<1>12. 0 \in S
  <2>1. below(0) = {}
    BY NetsAreNumbers
  <2>2. Lists(<<>>, {})
    BY DEF Lists
  <2>3. up[0] = <<>> /\ 0 \in 0 .. NetCount
    BY <1>11, NetCountAssumption
  <2> QED
    BY <2>1, <2>2, <2>3, Zenon
<1>13. ASSUME NEW k \in 0 .. NetCount, k \in S, k < NetCount
       PROVE  k + 1 \in S
  <2>1. k + 1 \in 0 .. NetCount /\ k + 1 # 0 /\ (k + 1) - 1 = k
    BY <1>13, NetCountAssumption
  <2>2. up[k + 1] = IF k \in nets THEN Append(up[k], k) ELSE up[k]
    <3>1. up[k + 1] = IF (k + 1) - 1 \in nets THEN Append(up[(k + 1) - 1], (k + 1) - 1)
                      ELSE up[(k + 1) - 1]
      BY <2>1, <1>11, Zenon
    <3> QED
      BY <3>1, <2>1, Zenon
  <2>3. k \notin below(k) /\ below(k + 1) = IF k \in nets THEN below(k) \cup {k} ELSE below(k)
    <3>1. k \in Nat /\ k \in Nets
      BY <1>13, NetsAreNumbers
    <3>2. \A n \in Nets : n < k + 1 <=> n < k \/ n = k
      BY <3>1, NetsAreNumbers
    <3>3. ~ (k < k)
      BY <3>1
    <3> QED
      BY <3>1, <3>2, <3>3, Zenon
  <2> HIDE DEF below
  <2>4. Lists(up[k + 1], below(k + 1))
    <3>1. Lists(up[k], below(k))
      BY <1>13, Zenon
    <3>2. CASE k \in nets
      <4>1. Lists(Append(up[k], k), below(k) \cup {k})
        BY <3>1, <2>3, ListsAppend, Zenon
      <4> QED
        BY <3>2, <4>1, <2>2, <2>3, Zenon
    <3>3. CASE k \notin nets
      BY <3>1, <3>3, <2>2, <2>3, Zenon
    <3> QED
      BY <3>2, <3>3, Zenon
  <2> QED
    BY <2>1, <2>4, Zenon
<1>14. 0 .. NetCount \subseteq S
  <2> HIDE DEF S
  <2> QED
    BY <1>12, <1>13, NetCountAssumption, IntervalInduction, Zenon
<1>15. Lists(up[NetCount], below(NetCount))
  <2> HIDE DEF below
  <2> QED
    BY <1>14, NetCountAssumption
<1>16. below(NetCount) = nets \cap Nets
  BY NetsAreNumbers, Zenon
<1> QED
  BY <1>1, <1>15, <1>16, Zenon

LEMMA AscendingType ==
    ASSUME NEW nets
    PROVE  Ascending(nets) \in Seq(nets \cap Nets)
BY AscendingLists, Zenon DEF Lists

-----------------------------------------------------------------------------
(* The power of an instance.                                               *)

\* The powers when the nets are numbered: at the nets that stand for a class, and
\* at that of each net that holds a power.
Settled(list, power, defined) ==
    /\ IsList(list) /\ power \in [Nets -> Opt] /\ DOMAIN defined = Nets
    /\ \A n \in Nets : power[n] # NULL => power[n] = n /\ equivalentNet_v[n] = n
    /\ \A n \in Nets : Holds(list, defined, n) => power[equivalentNet_v[n]] # NULL

Fields == {"list", "full", "definition"}

\* The record that SetInstancePower works on.
SettledState(s) == Fields \subseteq DOMAIN s /\ Settled(s.list, s.full, s.definition)

LEMMA SetInstanceNetSettles ==
    ASSUME equivalentNet_v \in [Nets -> Nets],
           NEW s, SettledState(s), NEW line, NEW n, NEW e \in Nets, InstanceNet(n) = e,
           equivalentNet_v[e] = e
    PROVE  SettledState(SetInstanceNet(s, line, n))
<1> DEFINE u == SetInstanceNet(s, line, n)
           here == [Listed(line, s.p) EXCEPT !.net = e]
<1>1. ASSUME NEW v, Fields \subseteq DOMAIN v,
             v.full = s.full, v.definition = s.definition, v.list = s.list
      PROVE  SettledState(v)
  BY <1>1, Zenon DEF SettledState
<1>0. Fields \subseteq DOMAIN s
  BY Zenon DEF SettledState
<1>2. CASE s.p.type = "power" /\ line.alpha
  <2>1. u = IF s.full[e] # NULL /\ s.definition[e].type = "power"
              THEN [s EXCEPT !.macros = WithMacro(@, line.signal, s.definition[e])]
              ELSE [s EXCEPT !.error = TRUE]
    BY <1>2, Zenon DEF SetInstanceNet
  <2> HIDE DEF u
  <2>2. /\ Fields \subseteq DOMAIN u
        /\ u.full = s.full /\ u.definition = s.definition /\ u.list = s.list
    BY <2>1, <1>0, Zenon DEF Fields
  <2> QED
    BY <2>2, <1>1, Zenon DEF u
<1>3. CASE ~ (s.p.type = "power" /\ line.alpha) /\ s.p.type = "input"
  <2>1. u = IF HasVoltage(s.p) \/ IsExpected(s.p)
              THEN [s EXCEPT !.p = AsExpected(s.p),
                             !.expected = Append(@, [here EXCEPT !.power = AsExpected(s.p)])]
              ELSE s
    BY <1>3, Zenon DEF SetInstanceNet
  <2> HIDE DEF u, here
  <2>2. /\ Fields \subseteq DOMAIN u
        /\ u.full = s.full /\ u.definition = s.definition /\ u.list = s.list
    BY <2>1, <1>0, Zenon DEF Fields
  <2> QED
    BY <2>2, <1>1, Zenon DEF u
<1>4. CASE ~ (s.p.type = "power" /\ line.alpha) /\ s.p.type # "input"
  <2>1. u = IF s.full[e] # NULL THEN s
            ELSE [s EXCEPT !.list = Append(@, [here EXCEPT !.owner = TRUE]),
                           !.full[e] = e, !.definition[e] = s.p]
    BY <1>4, Zenon DEF SetInstanceNet
  <2> HIDE DEF u, here
  <2>2. CASE s.full[e] # NULL
    BY <2>1, <2>2, Zenon DEF u
  <2>3. CASE s.full[e] = NULL
    <3> DEFINE x == [here EXCEPT !.owner = TRUE]
               power == [s.full EXCEPT ![e] = e]
               defined == [s.definition EXCEPT ![e] = s.p]
               list == Append(s.list, x)
    <3>1. /\ Fields \subseteq DOMAIN u
          /\ u.full = power /\ u.definition = defined /\ u.list = list
      BY <2>1, <2>3, <1>0, Zenon DEF Fields
    <3>2. {"net", "owner"} \subseteq DOMAIN x /\ x.net = e
      BY Zenon DEF here, Listed
    <3> HIDE DEF x
    <3>3. /\ IsList(list)
          /\ \A k \in DOMAIN list : list[k] = x \/ (k \in DOMAIN s.list /\ list[k] = s.list[k])
      BY <3>2, IsListAppend DEF SettledState, Settled
    <3> HIDE DEF list
    <3>4. /\ s.full \in [Nets -> Opt] /\ DOMAIN s.definition = Nets
          /\ \A m \in Nets : s.full[m] # NULL => s.full[m] = m /\ equivalentNet_v[m] = m
          /\ \A m \in Nets : Holds(s.list, s.definition, m) => s.full[equivalentNet_v[m]] # NULL
      BY Zenon DEF SettledState, Settled
    <3>5. /\ power \in [Nets -> Opt] /\ power[e] = e /\ DOMAIN defined = Nets
          /\ \A m \in Nets : m # e => power[m] = s.full[m] /\ defined[m] = s.definition[m]
      BY <3>4, Zenon DEF Opt
    <3> HIDE DEF power, defined
    <3>6. \A m \in Nets : power[m] # NULL => power[m] = m /\ equivalentNet_v[m] = m
      BY <3>4, <3>5, Zenon
    <3>7. ASSUME NEW m \in Nets, Holds(list, defined, m)
          PROVE  power[equivalentNet_v[m]] # NULL
      <4>1. CASE m = e
        BY <4>1, <3>5, NetsAreNumbers, Zenon
      <4>2. CASE m # e
        <5>1. Holds(s.list, s.definition, m)
          BY <4>2, <3>2, <3>3, <3>5, <3>7, Zenon DEF Holds
        <5>2. s.full[equivalentNet_v[m]] # NULL
          BY <5>1, <3>4, Zenon
        <5>3. equivalentNet_v[m] \in Nets
          BY Zenon
        <5> QED
          BY <5>2, <5>3, <3>5, NetsAreNumbers, Zenon
      <4> QED
        BY <4>1, <4>2, Zenon
    <3>8. Settled(list, power, defined)
      BY <3>3, <3>5, <3>6, <3>7, Zenon DEF Settled
    <3>9. SettledState(u)
      BY <3>1, <3>8, Zenon DEF SettledState
    <3> QED
      BY <3>9, Zenon DEF u
  <2> QED
    BY <2>2, <2>3, Zenon
<1> QED
  BY <1>2, <1>3, <1>4, Zenon

\* The nets are numbered.
NetsAreNumbered ==
    /\ equivalentNet_v \in [Nets -> Nets]
    /\ \A n \in Nets : InstanceNet(n) \in Nets /\ equivalentNet_v[InstanceNet(n)] = InstanceNet(n)

\* How SetInstanceLine goes through the nets of its line.
LineSteps(s, line, set) ==
    /\ set[0] = [s EXCEPT !.p = PowerOf(line, s.macros)]
    /\ \A k \in 1 .. Len(Ascending(line.nets)) :
          /\ Ascending(line.nets)[k] \in Nets
          /\ set[k] = SetInstanceNet(set[k - 1], line, Ascending(line.nets)[k])
    /\ SetInstanceLine(s, line) = set[Len(Ascending(line.nets))]

LEMMA SetInstanceLineSteps ==
    ASSUME NEW s, NEW line, ~s.stopped, ~IsUndefined(line, s.macros)
    PROVE  \E set : LineSteps(s, line, set) /\ Len(Ascending(line.nets)) \in Nat
<1> DEFINE a == [s EXCEPT !.p = PowerOf(line, s.macros)]
           nets == Ascending(line.nets)
           set[k \in 0 .. Len(nets)] ==
              IF k = 0 THEN a ELSE SetInstanceNet(set[k - 1], line, nets[k])
           body(f, m) == [k \in 0 .. m |-> IF k = 0 THEN a ELSE SetInstanceNet(f[k - 1], line, nets[k])]
           S == {m \in 0 .. Len(nets) : \E f : f = body(f, m)}
<1>1. SetInstanceLine(s, line) = set[Len(nets)]
  BY Zenon DEF SetInstanceLine
<1>2. set = CHOOSE f : f = body(f, Len(nets))
  BY Zenon
<1>0. Len(nets) \in Nat /\ \A k \in 1 .. Len(nets) : nets[k] \in Nets
  <2>1. nets \in Seq(Nets \cap line.nets)
    BY AscendingType, Zenon
  <2> HIDE DEF nets
  <2> QED
    BY <2>1
<1> HIDE DEF nets
<1> HIDE DEF set, a
<1>3. 0 \in S
  <2> DEFINE f == [k \in 0 .. 0 |-> a]
  <2>1. f = body(f, 0)
    OBVIOUS
  <2> HIDE DEF f, body
  <2> QED
    BY <2>1, <1>0
<1>4. ASSUME NEW m \in 0 .. Len(nets), m \in S, m < Len(nets)
      PROVE  m + 1 \in S
  <2>1. PICK f : f = body(f, m)
    BY <1>4, Zenon
  <2> DEFINE h == [k \in 0 .. m + 1 |-> IF k <= m THEN f[k] ELSE SetInstanceNet(f[m], line, nets[m + 1])]
  <2>2. m \in Nat /\ m + 1 \in 0 .. Len(nets)
    BY <1>4, <1>0
  <2>3. ASSUME NEW k \in 0 .. m + 1
        PROVE  h[k] = IF k = 0 THEN a ELSE SetInstanceNet(h[k - 1], line, nets[k])
    <3>1. CASE k = 0
      <4>1. h[k] = f[0]
        BY <3>1, <2>2
      <4>2. f[0] = body(f, m)[0]
        BY <2>1, Zenon
      <4> QED
        BY <3>1, <4>1, <4>2, <2>2
    <3>2. CASE k # 0 /\ k <= m
      <4>1. k \in 0 .. m /\ k - 1 \in 0 .. m + 1 /\ k - 1 <= m
        BY <3>2, <2>2, <2>3
      <4>2. h[k] = f[k] /\ h[k - 1] = f[k - 1]
        BY <3>2, <4>1, <2>3, Zenon
      <4>3. f[k] = body(f, m)[k]
        BY <2>1, Zenon
      <4>4. f[k] = SetInstanceNet(f[k - 1], line, nets[k])
        BY <3>2, <4>1, <4>3, Zenon
      <4> QED
        BY <3>2, <4>2, <4>4, Zenon
    <3>3. CASE k # 0 /\ ~ (k <= m)
      <4>1. k = m + 1 /\ k - 1 = m /\ m \in 0 .. m + 1 /\ m <= m
        BY <3>3, <2>2, <2>3
      <4>2. h[m] = f[m]
        BY <4>1, Zenon
      <4>3. h[k] = SetInstanceNet(f[m], line, nets[m + 1])
        BY <3>3, <2>3, Zenon
      <4> QED
        BY <3>3, <4>1, <4>2, <4>3, Zenon
    <3> QED
      BY <3>1, <3>2, <3>3, Zenon
  <2>4. h = [k \in 0 .. m + 1 |-> h[k]]
    BY Zenon
  <2> HIDE DEF h
  <2>5. h = body(h, m + 1)
    BY <2>3, <2>4, Zenon
  <2> HIDE DEF body
  <2> QED
    BY <2>2, <2>5, Zenon
<1>5. 0 .. Len(nets) \subseteq S
  <2> HIDE DEF S
  <2> QED
    BY <1>3, <1>4, <1>0, IntervalInduction, Zenon
<1>6. PICK f : f = body(f, Len(nets))
  BY <1>5, <1>0
<1>7. set = body(set, Len(nets))
  <2> HIDE DEF body
  <2> QED
    BY <1>2, <1>6, Zenon
<1>8. ASSUME NEW k \in 0 .. Len(nets)
      PROVE  set[k] = IF k = 0 THEN a ELSE SetInstanceNet(set[k - 1], line, nets[k])
  <2>1. set[k] = body(set, Len(nets))[k]
    BY <1>7, Zenon
  <2> QED
    BY <2>1, Zenon
<1>9. \A k \in 1 .. Len(nets) : k \in 0 .. Len(nets) /\ k # 0
  BY <1>0
<1>10. 0 \in 0 .. Len(nets)
  BY <1>0
<1>11. LineSteps(s, line, set)
  BY <1>0, <1>1, <1>8, <1>9, <1>10, Zenon DEF LineSteps, a, nets
<1> QED
  BY <1>0, <1>11, Zenon DEF nets

LEMMA SetInstanceLineSettles ==
    ASSUME NetsAreNumbered, NEW s, SettledState(s), NEW line
    PROVE  SettledState(SetInstanceLine(s, line))
<1>1. CASE s.stopped
  BY <1>1, Zenon DEF SetInstanceLine
<1>2. CASE ~s.stopped /\ IsUndefined(line, s.macros)
  BY <1>2, Zenon DEF SetInstanceLine, SettledState, Fields
<1>3. CASE ~s.stopped /\ ~IsUndefined(line, s.macros)
  <2> DEFINE last == Len(Ascending(line.nets))
  <2>1. PICK set : LineSteps(s, line, set) /\ last \in Nat
    BY <1>3, SetInstanceLineSteps, Zenon
  <2> DEFINE T == {k \in 0 .. last : SettledState(set[k])}
  <2>2. SettledState(set[0])
    BY <2>1, Zenon DEF LineSteps, SettledState, Fields
  <2>3. ASSUME NEW k \in 1 .. last, SettledState(set[k - 1])
        PROVE  SettledState(set[k])
    <3> DEFINE n == Ascending(line.nets)[k]
    <3>1. n \in Nets /\ set[k] = SetInstanceNet(set[k - 1], line, n)
      BY <2>1, Zenon DEF LineSteps
    <3>2. /\ equivalentNet_v \in [Nets -> Nets]
          /\ InstanceNet(n) \in Nets /\ equivalentNet_v[InstanceNet(n)] = InstanceNet(n)
      BY <3>1, Zenon DEF NetsAreNumbered
    <3> HIDE DEF n
    <3> QED
      BY <3>1, <3>2, <2>3, SetInstanceNetSettles, Zenon
  <2> HIDE DEF last
  <2>4. 0 \in T
    BY <2>1, <2>2
  <2>5. ASSUME NEW k \in 0 .. last, k \in T, k < last
        PROVE  k + 1 \in T
    <3>1. k + 1 \in 1 .. last /\ k + 1 \in 0 .. last /\ (k + 1) - 1 = k
      BY <2>1, <2>5
    <3> QED
      BY <3>1, <2>3, <2>5, Zenon
  <2>6. last \in T
    <3> HIDE DEF T
    <3>1. 0 .. last \subseteq T
      BY <2>1, <2>4, <2>5, IntervalInduction, Zenon
    <3> QED
      BY <3>1, <2>1
  <2> QED
    BY <2>1, <2>6, Zenon DEF LineSteps, last
<1> QED
  BY <1>1, <1>2, <1>3, Zenon

\* What SetInstancePower has at the start of an instance.
Start == [definition |-> definition, full |-> full, list |-> cvcPowerPtrList,
          expected |-> cvcExpectedLevelPtrList, macros |-> TopMacros,
          error |-> myPowerError, stopped |-> FALSE, p |-> NULL]

\* How SetInstance goes through its lines.
InstanceSteps(lines, set) ==
    /\ set[0] = Start
    /\ \A k \in 1 .. Len(lines) : set[k] = SetInstanceLine(set[k - 1], lines[k])
    /\ SetInstance(lines) = set[Len(lines)]

LEMMA SetInstanceSteps ==
    ASSUME NEW L, NEW lines \in Seq(L)
    PROVE  \E set : InstanceSteps(lines, set)
<1> DEFINE a == Start
           set[k \in 0 .. Len(lines)] ==
              IF k = 0 THEN a ELSE SetInstanceLine(set[k - 1], lines[k])
           body(f, m) == [k \in 0 .. m |-> IF k = 0 THEN a ELSE SetInstanceLine(f[k - 1], lines[k])]
           S == {m \in 0 .. Len(lines) : \E f : f = body(f, m)}
<1>0. Len(lines) \in Nat
  OBVIOUS
<1>1. SetInstance(lines) = set[Len(lines)]
  BY Zenon DEF SetInstance, Start
<1>2. set = CHOOSE f : f = body(f, Len(lines))
  BY Zenon
<1> HIDE DEF set, a
<1>3. 0 \in S
  <2> DEFINE f == [k \in 0 .. 0 |-> a]
  <2>1. f = body(f, 0)
    OBVIOUS
  <2> HIDE DEF f, body
  <2> QED
    BY <2>1, <1>0
<1>4. ASSUME NEW m \in 0 .. Len(lines), m \in S, m < Len(lines)
      PROVE  m + 1 \in S
  <2>1. PICK f : f = body(f, m)
    BY <1>4, Zenon
  <2> DEFINE h == [k \in 0 .. m + 1 |-> IF k <= m THEN f[k] ELSE SetInstanceLine(f[m], lines[m + 1])]
  <2>2. m \in Nat /\ m + 1 \in 0 .. Len(lines)
    BY <1>4, <1>0
  <2>3. ASSUME NEW k \in 0 .. m + 1
        PROVE  h[k] = IF k = 0 THEN a ELSE SetInstanceLine(h[k - 1], lines[k])
    <3>1. CASE k = 0
      <4>1. h[k] = f[0]
        BY <3>1, <2>2
      <4>2. f[0] = body(f, m)[0]
        BY <2>1, Zenon
      <4> QED
        BY <3>1, <4>1, <4>2, <2>2
    <3>2. CASE k # 0 /\ k <= m
      <4>1. k \in 0 .. m /\ k - 1 \in 0 .. m + 1 /\ k - 1 <= m
        BY <3>2, <2>2, <2>3
      <4>2. h[k] = f[k] /\ h[k - 1] = f[k - 1]
        BY <3>2, <4>1, <2>3, Zenon
      <4>3. f[k] = body(f, m)[k]
        BY <2>1, Zenon
      <4>4. f[k] = SetInstanceLine(f[k - 1], lines[k])
        BY <3>2, <4>1, <4>3, Zenon
      <4> QED
        BY <3>2, <4>2, <4>4, Zenon
    <3>3. CASE k # 0 /\ ~ (k <= m)
      <4>1. k = m + 1 /\ k - 1 = m /\ m \in 0 .. m + 1 /\ m <= m
        BY <3>3, <2>2, <2>3
      <4>2. h[m] = f[m]
        BY <4>1, Zenon
      <4>3. h[k] = SetInstanceLine(f[m], lines[m + 1])
        BY <3>3, <2>3, Zenon
      <4> QED
        BY <3>3, <4>1, <4>2, <4>3, Zenon
    <3> QED
      BY <3>1, <3>2, <3>3, Zenon
  <2>4. h = [k \in 0 .. m + 1 |-> h[k]]
    BY Zenon
  <2> HIDE DEF h
  <2>5. h = body(h, m + 1)
    BY <2>3, <2>4, Zenon
  <2> HIDE DEF body
  <2> QED
    BY <2>2, <2>5, Zenon
<1>5. 0 .. Len(lines) \subseteq S
  <2> HIDE DEF S
  <2> QED
    BY <1>3, <1>4, <1>0, IntervalInduction, Zenon
<1>6. PICK f : f = body(f, Len(lines))
  BY <1>5, <1>0
<1>7. set = body(set, Len(lines))
  <2> HIDE DEF body
  <2> QED
    BY <1>2, <1>6, Zenon
<1>8. ASSUME NEW k \in 0 .. Len(lines)
      PROVE  set[k] = IF k = 0 THEN a ELSE SetInstanceLine(set[k - 1], lines[k])
  <2>1. set[k] = body(set, Len(lines))[k]
    BY <1>7, Zenon
  <2> QED
    BY <2>1, Zenon
<1>9. \A k \in 1 .. Len(lines) : k \in 0 .. Len(lines) /\ k # 0
  BY <1>0
<1>10. 0 \in 0 .. Len(lines)
  BY <1>0
<1>11. InstanceSteps(lines, set)
  BY <1>1, <1>8, <1>9, <1>10, Zenon DEF InstanceSteps, a
<1> QED
  BY <1>11, Zenon

LEMMA SetInstanceSettles ==
    ASSUME NetsAreNumbered, Settled(cvcPowerPtrList, full, definition), NEW L, NEW lines \in Seq(L)
    PROVE  SettledState(SetInstance(lines))
<1>1. PICK set : InstanceSteps(lines, set)
  BY SetInstanceSteps, Zenon
<1> DEFINE T == {k \in 0 .. Len(lines) : SettledState(set[k])}
<1>2. SettledState(set[0])
  <2>1. SettledState(Start)
    BY Zenon DEF Start, SettledState, Fields
  <2> QED
    BY <2>1, <1>1, Zenon DEF InstanceSteps
<1>3. ASSUME NEW k \in 1 .. Len(lines), SettledState(set[k - 1])
      PROVE  SettledState(set[k])
  BY <1>1, <1>3, SetInstanceLineSettles, Zenon DEF InstanceSteps
<1>4. 0 \in T
  BY <1>2
<1>5. ASSUME NEW k \in 0 .. Len(lines), k \in T, k < Len(lines)
      PROVE  k + 1 \in T
  <2>1. k + 1 \in 1 .. Len(lines) /\ k + 1 \in 0 .. Len(lines) /\ (k + 1) - 1 = k
    BY <1>5
  <2> QED
    BY <2>1, <1>3, <1>5, Zenon
<1>6. Len(lines) \in T
  <2> HIDE DEF T
  <2>1. Len(lines) \in Nat
    OBVIOUS
  <2>2. 0 .. Len(lines) \subseteq T
    BY <2>1, <1>4, <1>5, IntervalInduction, Zenon
  <2> QED
    BY <2>1, <2>2
<1> QED
  BY <1>1, <1>6, Zenon DEF InstanceSteps

-----------------------------------------------------------------------------
(* A power file.                                                           *)

\* A list without the power of a net.
Unowned(list) == IsList(list) /\ \A k \in DOMAIN list : ~ list[k].owner

LEMMA ReadLineUnowned ==
    ASSUME NEW read, "list" \in DOMAIN read, Unowned(read.list), NEW line, NEW autoMacro
    PROVE  /\ "list" \in DOMAIN ReadLine(read, line, autoMacro)
           /\ Unowned(ReadLine(read, line, autoMacro).list)
<1> DEFINE p == PowerOf(line, read.macros)
           x == Listed(line, p)
           u == ReadLine(read, line, autoMacro)
<1>1. "list" \in DOMAIN u /\ u.list \in {read.list, Append(read.list, x)}
  BY Zenon DEF ReadLine
<1>2. {"net", "owner"} \subseteq DOMAIN x /\ x.owner = FALSE
  BY Zenon DEF Listed
<1> HIDE DEF x, u
<1>3. Unowned(Append(read.list, x))
  BY <1>2, IsListAppend DEF Unowned
<1> QED
  BY <1>1, <1>3, Zenon DEF u

\* How LoadPower goes through the lines of a file.
FileSteps(lines, autoMacro, set) ==
    /\ set[0] = [list |-> <<>>, expected |-> <<>>, macros |-> NoMacros, error |-> FALSE]
    /\ \A k \in 1 .. Len(lines) : set[k] = ReadLine(set[k - 1], lines[k], autoMacro)
    /\ ReadLines(lines, autoMacro) = set[Len(lines)]

LEMMA ReadLinesSteps ==
    ASSUME NEW L, NEW lines \in Seq(L), NEW autoMacro
    PROVE  \E set : FileSteps(lines, autoMacro, set)
<1> DEFINE a == [list |-> <<>>, expected |-> <<>>, macros |-> NoMacros, error |-> FALSE]
           set[k \in 0 .. Len(lines)] ==
              IF k = 0 THEN a ELSE ReadLine(set[k - 1], lines[k], autoMacro)
           body(f, m) == [k \in 0 .. m |-> IF k = 0 THEN a ELSE ReadLine(f[k - 1], lines[k], autoMacro)]
           S == {m \in 0 .. Len(lines) : \E f : f = body(f, m)}
<1>0. Len(lines) \in Nat
  OBVIOUS
<1>1. ReadLines(lines, autoMacro) = set[Len(lines)]
  BY Zenon DEF ReadLines
<1>2. set = CHOOSE f : f = body(f, Len(lines))
  BY Zenon
<1> HIDE DEF set, a
<1>3. 0 \in S
  <2> DEFINE f == [k \in 0 .. 0 |-> a]
  <2>1. f = body(f, 0)
    OBVIOUS
  <2> HIDE DEF f, body
  <2> QED
    BY <2>1, <1>0
<1>4. ASSUME NEW m \in 0 .. Len(lines), m \in S, m < Len(lines)
      PROVE  m + 1 \in S
  <2>1. PICK f : f = body(f, m)
    BY <1>4, Zenon
  <2> DEFINE h == [k \in 0 .. m + 1 |-> IF k <= m THEN f[k] ELSE ReadLine(f[m], lines[m + 1], autoMacro)]
  <2>2. m \in Nat /\ m + 1 \in 0 .. Len(lines)
    BY <1>4, <1>0, SMTT(30)
  <2>3. ASSUME NEW k \in 0 .. m + 1
        PROVE  h[k] = IF k = 0 THEN a ELSE ReadLine(h[k - 1], lines[k], autoMacro)
    <3>1. CASE k = 0
      <4>1. h[k] = f[0]
        BY <3>1, <2>2
      <4>2. f[0] = body(f, m)[0]
        BY <2>1, Zenon
      <4> QED
        BY <3>1, <4>1, <4>2, <2>2
    <3>2. CASE k # 0 /\ k <= m
      <4>1. k \in 0 .. m /\ k - 1 \in 0 .. m + 1 /\ k - 1 <= m
        BY <3>2, <2>2, <2>3
      <4>2. h[k] = f[k] /\ h[k - 1] = f[k - 1]
        BY <3>2, <4>1, <2>3, Zenon
      <4>3. f[k] = body(f, m)[k]
        BY <2>1, Zenon
      <4>4. f[k] = ReadLine(f[k - 1], lines[k], autoMacro)
        BY <3>2, <4>1, <4>3, Zenon
      <4> QED
        BY <3>2, <4>2, <4>4, Zenon
    <3>3. CASE k # 0 /\ ~ (k <= m)
      <4>1. k = m + 1 /\ k - 1 = m /\ m \in 0 .. m + 1 /\ m <= m
        BY <3>3, <2>2, <2>3
      <4>2. h[m] = f[m]
        BY <4>1, Zenon
      <4>3. h[k] = ReadLine(f[m], lines[m + 1], autoMacro)
        BY <3>3, <2>3, Zenon
      <4> QED
        BY <3>3, <4>1, <4>2, <4>3, Zenon
    <3> QED
      BY <3>1, <3>2, <3>3, Zenon
  <2>4. h = [k \in 0 .. m + 1 |-> h[k]]
    BY Zenon
  <2> HIDE DEF h
  <2>5. h = body(h, m + 1)
    BY <2>3, <2>4, Zenon
  <2> HIDE DEF body
  <2> QED
    BY <2>2, <2>5, Zenon
<1>5. 0 .. Len(lines) \subseteq S
  <2> HIDE DEF S
  <2> QED
    BY <1>3, <1>4, <1>0, IntervalInduction, Zenon
<1>6. PICK f : f = body(f, Len(lines))
  BY <1>5, <1>0
<1>7. set = body(set, Len(lines))
  <2> HIDE DEF body
  <2> QED
    BY <1>2, <1>6, Zenon
<1>8. ASSUME NEW k \in 0 .. Len(lines)
      PROVE  set[k] = IF k = 0 THEN a ELSE ReadLine(set[k - 1], lines[k], autoMacro)
  <2>1. set[k] = body(set, Len(lines))[k]
    BY <1>7, Zenon
  <2> QED
    BY <2>1, Zenon
<1>9. \A k \in 1 .. Len(lines) : k \in 0 .. Len(lines) /\ k # 0
  BY <1>0
<1>10. 0 \in 0 .. Len(lines)
  BY <1>0
<1>11. FileSteps(lines, autoMacro, set)
  BY <1>1, <1>8, <1>9, <1>10, Zenon DEF FileSteps, a
<1> QED
  BY <1>11, Zenon

LEMMA ReadLinesUnowned ==
    ASSUME NEW L, NEW lines \in Seq(L), NEW autoMacro
    PROVE  Unowned(ReadLines(lines, autoMacro).list)
<1> DEFINE Good(r) == "list" \in DOMAIN r /\ Unowned(r.list)
<1>1. PICK set : FileSteps(lines, autoMacro, set)
  BY ReadLinesSteps, Zenon
<1> DEFINE T == {k \in 0 .. Len(lines) : Good(set[k])}
<1>2. Good(set[0])
  BY <1>1, EmptyIsList DEF FileSteps, Unowned
<1>3. ASSUME NEW k \in 1 .. Len(lines), Good(set[k - 1])
      PROVE  Good(set[k])
  BY <1>1, <1>3, ReadLineUnowned, Zenon DEF FileSteps
<1>4. 0 \in T
  <2> HIDE DEF Good
  <2> QED
    BY <1>2
<1>5. ASSUME NEW k \in 0 .. Len(lines), k \in T, k < Len(lines)
      PROVE  k + 1 \in T
  <2>1. k + 1 \in 1 .. Len(lines) /\ k + 1 \in 0 .. Len(lines) /\ (k + 1) - 1 = k
    BY <1>5
  <2> HIDE DEF Good
  <2> QED
    BY <2>1, <1>3, <1>5, Zenon
<1>6. Len(lines) \in T
  <2> HIDE DEF T
  <2>1. Len(lines) \in Nat
    OBVIOUS
  <2>2. 0 .. Len(lines) \subseteq T
    BY <2>1, <1>4, <1>5, IntervalInduction, Zenon
  <2> QED
    BY <2>1, <2>2
<1> QED
  BY <1>1, <1>6, Zenon DEF FileSteps

-----------------------------------------------------------------------------
(* The inductive invariant.                                                *)

Entries == [lines : Seq(InstanceLines), read : Seq(InstanceLines)]

\* Before the switches and after them a power is at its own net.
Own == \A n \in Nets : full[n] \in {NULL, n}

\* No switch was shorted yet.
Fresh ==
    /\ equivalentNet_v = [n \in Nets |-> n] /\ theNetMap = [n \in Nets |-> {}]
    /\ net_it = NetCount /\ shorted = {}

\* The switches are shorted, and the nets from net_it on are numbered.
Classes(root, F) ==
    /\ Roots(equivalentNet_v, root, net_it)
    /\ Together(root, shorted)
    /\ Represent(root, F) /\ Mapped(root, theNetMap)
    /\ Numbered(root, F, equivalentNet_v, full, net_it)

Held(power) == \A n \in Nets : Holds(cvcPowerPtrList, definition, n) => power[n] # NULL

Fixed ==
    /\ Together(equivalentNet_v, shorted)
    /\ \A n \in Nets : equivalentNet_v[equivalentNet_v[n]] = equivalentNet_v[n]

TypeOK ==
    /\ circuit \in Circuits
    /\ cvcInstancePowerPtrList \in Seq(Entries) /\ IsList(cvcPowerPtrList)
    /\ equivalentNet_v \in [Nets -> Nets] /\ full \in [Nets -> Opt] /\ DOMAIN definition = Nets
    /\ net_it \in 0 .. NetCount
    /\ stage \in {"power", "instances"} => power_ppit \in Nat \ {0}

IInv ==
    /\ TypeOK
    /\ stage # "switches" => Own
    /\ stage # "switches" /\ ~isFixedEquivalentNet => Fresh
    /\ stage = "switches" => ~isFixedEquivalentNet /\ \E root, F : Classes(root, F) /\ Held(F)
    /\ isFixedEquivalentNet => Fixed
    /\ stage = "power" \/ (stage = "prompt" /\ powerFileStatus = "OK") => Held(full)
    /\ AfterSwitches => isFixedEquivalentNet /\ Settled(cvcPowerPtrList, full, definition)

LEMMA InitIInv == Init => IInv
<1> SUFFICES ASSUME Init
             PROVE  IInv
  BY Zenon
<1>1. TypeOK
  <2>1. IsList(<<>>) /\ <<>> \in Seq(Entries)
    BY EmptyIsList
  <2>2. Unset \in [Nets -> Opt] /\ DOMAIN Unset = Nets
    BY Zenon DEF Unset, Opt
  <2>3. net_it \in 0 .. NetCount
    BY NetCountAssumption DEF Init
  <2> QED
    BY <2>1, <2>2, <2>3, Zenon DEF Init, TypeOK
<1> QED
  BY <1>1, Zenon DEF Init, IInv, Own, Fresh, Unset, AfterSwitches

\* Before the switches each net is its own class.
LEMMA FreshClasses ==
    ASSUME TypeOK, Fresh, Own
    PROVE  Classes([n \in Nets |-> n], full)
<1> DEFINE id == [n \in Nets |-> n]
<1>1. id \in [Nets -> Nets] /\ \A n \in Nets : id[n] = n
  BY Zenon
<1>2. equivalentNet_v = id
  BY Zenon DEF Fresh
<1> HIDE DEF id
<1>3. Roots(id, id, net_it)
  BY <1>1, NetsAreNumbers DEF Roots
<1>4. Together(id, shorted)
  BY <1>1, Zenon DEF Together, Fresh
<1>5. Represent(id, full)
  BY <1>1, Zenon DEF Represent, Own, TypeOK
<1>6. Mapped(id, theNetMap)
  BY <1>1, Zenon DEF Mapped, Fresh
<1>7. Numbered(id, full, id, full, net_it)
  BY <1>1, NetsAreNumbers, Zenon DEF Numbered, Fresh, TypeOK
<1> QED
  BY <1>2, <1>3, <1>4, <1>5, <1>6, <1>7, Zenon DEF Classes, id

-----------------------------------------------------------------------------
(* Stage 1.                                                                *)

\* What the steps of stage 1 leave alone.
LEMMA Stage1Keeps ==
    ASSUME IInv, UNCHANGED unchangedByStage1, stage # "switches", stage' # "switches",
           ~ AfterSwitches', full' \in [Nets -> Opt], DOMAIN definition' = Nets, Own',
           cvcInstancePowerPtrList' \in Seq(Entries), IsList(cvcPowerPtrList'),
           stage' = "power" => power_ppit' \in Nat \ {0},
           stage' = "power" \/ (stage' = "prompt" /\ powerFileStatus' = "OK") => Held(full)'
    PROVE  IInv'
<1>1. TypeOK'
  BY Zenon DEF IInv, TypeOK, unchangedByStage1, AfterSwitches
<1>2. ~isFixedEquivalentNet' => Fresh'
  BY Zenon DEF IInv, unchangedByStage1, Fresh
<1>3. isFixedEquivalentNet' => Fixed'
  BY Zenon DEF IInv, unchangedByStage1, Fixed
<1> QED
  BY <1>1, <1>2, <1>3, Zenon DEF IInv

LEMMA ReadInstancesType ==
    ASSUME NEW s \in Seq(Entries), NEW f \in Files
    PROVE  ReadInstances(s \o f.instances) \in Seq(Entries)
<1>1. f.instances \in Seq(Entries)
  <2>1. f.instances \in Seq([lines : Seq(InstanceLines), read : {<<>>}])
    BY FilesAssumption, Zenon
  <2>2. ASSUME NEW x \in [lines : Seq(InstanceLines), read : {<<>>}]
        PROVE  x \in Entries
    <3>1. <<>> \in Seq(InstanceLines)
      OBVIOUS
    <3> QED
      BY <3>1, Zenon DEF Entries
  <2>3. \A k \in DOMAIN f.instances : f.instances[k] \in Entries
    BY <2>1, <2>2, SeqElement, Zenon
  <2> QED
    BY <2>1, <2>3, SeqOver, Zenon
<1> DEFINE t == s \o f.instances
<1>2. t \in Seq(Entries)
  BY <1>1
<1> HIDE DEF t
<1>3. ASSUME NEW k \in DOMAIN t
      PROVE  [t[k] EXCEPT !.read = @ \o t[k].lines] \in Entries
  <2>1. t[k] \in Entries
    BY <1>2
  <2>2. t[k].read \o t[k].lines \in Seq(InstanceLines)
    BY <2>1 DEF Entries
  <2> QED
    BY <2>1, <2>2, Zenon DEF Entries
<1>4. ReadInstances(t) = [k \in DOMAIN t |-> [t[k] EXCEPT !.read = @ \o t[k].lines]]
  BY Zenon DEF ReadInstances
<1>5. DOMAIN t = 1 .. Len(t) /\ Len(t) \in Nat
  BY <1>2
<1> DEFINE v(k) == [t[k] EXCEPT !.read = @ \o t[k].lines]
<1>6. [k \in 1 .. Len(t) |-> v(k)] \in Seq(Entries)
  <2> HIDE DEF v
  <2>1. \A k \in 1 .. Len(t) : v(k) \in Entries
    BY <1>3, <1>5, Zenon DEF v
  <2> QED
    BY <2>1, <1>5
<1> QED
  BY <1>4, <1>5, <1>6, Zenon DEF t

LEMMA NewPowerKeeps ==
    ASSUME IInv, NEW f \in circuit.files, NewPower(f), stage # "switches",
           stage' = "power" => powerFileStatus' = "OK",
           stage' = "prompt" => powerFileStatus' # "OK",
           stage' \in {"power", "prompt", "setup"}
    PROVE  IInv'
<1>1. f \in Files
  BY Zenon DEF IInv, TypeOK, Files
<1>2. Unowned(cvcPowerPtrList')
  <2> DEFINE lines == IF f.opens THEN f.lines ELSE <<>>
  <2>1. lines \in Seq(Lines)
    BY <1>1, FilesAssumption, SMTT(30)
  <2>2. cvcPowerPtrList' = ReadLines(lines, f.autoMacro).list
    BY Zenon DEF NewPower, LoadPower
  <2> HIDE DEF lines
  <2> QED
    BY <2>1, <2>2, ReadLinesUnowned, Zenon
<1>3. cvcInstancePowerPtrList' \in Seq(Entries)
  BY <1>1, ReadInstancesType, Zenon DEF NewPower, LoadPower, IInv, TypeOK
<1>4. /\ full' \in [Nets -> Opt] /\ DOMAIN definition' = Nets /\ Own'
      /\ powerFileStatus' = "OK" => definition' = Unset /\ full' = Unset
  BY DEF NewPower, IInv, TypeOK, Own, Unset, Opt
<1>5. powerFileStatus' = "OK" => Held(full)'
  BY <1>2, <1>4, Zenon DEF Held, Holds, Unset, Unowned
<1>6. UNCHANGED unchangedByStage1 /\ power_ppit' = 1
  BY Zenon DEF NewPower
<1>7. ~ AfterSwitches' /\ stage' # "switches" /\ IsList(cvcPowerPtrList')
  BY <1>2, Zenon DEF AfterSwitches, Unowned
<1> QED
  BY <1>3, <1>4, <1>5, <1>6, <1>7, Stage1Keeps

LEMMA ReadPowerKeeps ==
    ASSUME IInv, NEW f \in circuit.files, ReadPower(f) \/ SetPowerCommand(f)
    PROVE  IInv'
<1>1. CASE ReadPower(f)
  BY <1>1, NewPowerKeeps, Zenon DEF ReadPower
<1>2. CASE SetPowerCommand(f)
  BY <1>2, NewPowerKeeps, Zenon DEF SetPowerCommand
<1> QED
  BY <1>1, <1>2, Zenon

\* The copies of a line for its nets.
LEMMA CopiesType ==
    ASSUME IInv, NEW U, NEW entry \in U, \A x \in U : {"net", "owner"} \subseteq DOMAIN x,
           NEW copies, copies = Copies(entry)
    PROVE  /\ IsList(copies) /\ Len(copies) \in Nat
           /\ \A k \in DOMAIN copies :
                 copies[k].owner =>
                    \/ entry.owner /\ entry.net = copies[k].net
                    \/ copies[k].net \in entry.nets
<1> DEFINE nets == Ascending(entry.nets)
           v(k) == [entry EXCEPT !.net = nets[k], !.owner = full[nets[k]] = NULL]
<1>1. nets \in Seq(entry.nets \cap Nets)
  BY AscendingType, Zenon
<1>2. copies = IF nets = <<>> THEN <<entry>> ELSE [k \in DOMAIN nets |-> v(k)]
  BY Zenon DEF Copies
<1> HIDE DEF nets
<1>3. CASE nets = <<>>
  <2>1. copies = <<entry>>
    BY <1>2, <1>3, Zenon
  <2>2. copies \in Seq(U) /\ Len(copies) = 1 /\ DOMAIN copies = 1 .. 1 /\ copies[1] = entry
    BY <2>1
  <2>3. IsList(copies)
    BY <2>2, Zenon DEF IsList
  <2> QED
    BY <2>2, <2>3
<1>4. CASE nets # <<>>
  <2>1. DOMAIN nets = 1 .. Len(nets) /\ Len(nets) \in Nat /\ \A k \in 1 .. Len(nets) : nets[k] \in entry.nets
    BY <1>1
  <2>2. ASSUME NEW k \in 1 .. Len(nets)
        PROVE  DOMAIN v(k) = DOMAIN entry /\ v(k).net = nets[k]
    BY SMTT(30), Zenon
  <2> DEFINE V == {v(k) : k \in 1 .. Len(nets)}
  <2>3. \A x \in V : {"net", "owner"} \subseteq DOMAIN x
    BY <2>2, Zenon
  <2> HIDE DEF v
  <2>4. copies = [k \in 1 .. Len(nets) |-> v(k)]
    BY <1>2, <1>4, <2>1, Zenon
  <2>5. \A k \in 1 .. Len(nets) : v(k) \in V
    BY Zenon
  <2> HIDE DEF V
  <2>6. copies \in Seq(V) /\ Len(copies) = Len(nets)
    BY <2>1, <2>4, <2>5
  <2>7. IsList(copies)
    BY <2>3, <2>6, Zenon DEF IsList
  <2> QED
    BY <2>1, <2>2, <2>4, <2>6, <2>7, Zenon
<1> QED
  BY <1>3, <1>4, Zenon

\* A power of the list is replaced by its copies.
Replaced(list, i, copies) == SubSeq(list, 1, i - 1) \o copies \o SubSeq(list, i + 1, Len(list))

LEMMA ReplacedType ==
    ASSUME NEW list, IsList(list), NEW i \in DOMAIN list, NEW copies, IsList(copies),
           NEW new, new = Replaced(list, i, copies)
    PROVE  /\ IsList(new)
           /\ \A k \in DOMAIN new : \/ \E j \in DOMAIN copies : new[k] = copies[j]
                                    \/ \E j \in DOMAIN list : new[k] = list[j]
<1>1. PICK U : list \in Seq(U) /\ \A x \in U : {"net", "owner"} \subseteq DOMAIN x
  BY Zenon DEF IsList
<1>2. PICK V : copies \in Seq(V) /\ \A x \in V : {"net", "owner"} \subseteq DOMAIN x
  BY Zenon DEF IsList
<1> DEFINE R == {copies[j] : j \in DOMAIN copies} \cup {list[j] : j \in DOMAIN list}
           left == SubSeq(list, 1, i - 1)
           right == SubSeq(list, i + 1, Len(list))
<1>3. \A x \in R : {"net", "owner"} \subseteq DOMAIN x
  BY <1>1, <1>2
<1>4. list \in Seq(R)
  <2>1. \A j \in DOMAIN list : list[j] \in R
    BY Zenon
  <2> QED
    BY <2>1, <1>1, SeqOver, Zenon
<1>5. copies \in Seq(R)
  <2>1. \A j \in DOMAIN copies : copies[j] \in R
    BY Zenon
  <2> QED
    BY <2>1, <1>2, SeqOver, Zenon
<1>6. i \in 1 .. Len(list) /\ Len(list) \in Nat
  BY <1>1
<1> HIDE DEF R
<1>7. left \in Seq(R)
  BY <1>4, <1>6
<1>8. right \in Seq(R)
  BY <1>4, <1>6
<1> HIDE DEF left, right
<1>9. new \in Seq(R)
  <2>1. new = left \o copies \o right
    BY Zenon DEF left, right, Replaced
  <2> QED
    BY <2>1, <1>5, <1>7, <1>8, SeqJoin, Zenon
<1>10. IsList(new)
  BY <1>3, <1>9, Zenon DEF IsList
<1>11. \A k \in DOMAIN new : new[k] \in R
  BY <1>9, SeqElement, Zenon
<1> QED
  BY <1>10, <1>11, Zenon DEF R

LEMMA SetModePowerKeeps ==
    ASSUME IInv, SetModePower
    PROVE  IInv'
<1> DEFINE i == power_ppit
           entry == cvcPowerPtrList[i]
           copies == Copies(entry)
<1>1. PICK U : cvcPowerPtrList \in Seq(U) /\ \A x \in U : {"net", "owner"} \subseteq DOMAIN x
  BY Zenon DEF IInv, TypeOK, IsList
<1>2. stage = "power" /\ i \in Nat \ {0} /\ i <= Len(cvcPowerPtrList)
  BY Zenon DEF SetModePower, IInv, TypeOK
<1>3. i \in DOMAIN cvcPowerPtrList /\ entry \in U
  BY <1>1, <1>2, SMTT(30)
<1>4. /\ stage' = "power" /\ power_ppit' = i + Len(copies)
      /\ full' = [n \in Nets |-> IF n \in entry.nets THEN n ELSE full[n]]
      /\ \A n \in Nets : n \notin entry.nets => definition'[n] = definition[n]
      /\ DOMAIN definition' = Nets
      /\ cvcPowerPtrList' = SubSeq(cvcPowerPtrList, 1, i - 1) \o copies
                              \o SubSeq(cvcPowerPtrList, i + 1, Len(cvcPowerPtrList))
      /\ UNCHANGED <<unchangedByStage1, cvcInstancePowerPtrList>>
  BY <1>2, Zenon DEF SetModePower, unchangedByStage1
<1> HIDE DEF entry, copies
<1>5. /\ IsList(copies) /\ Len(copies) \in Nat
      /\ \A k \in DOMAIN copies : copies[k].owner =>
            \/ entry.owner /\ entry.net = copies[k].net
            \/ copies[k].net \in entry.nets
  BY <1>1, <1>3, CopiesType, Zenon DEF copies
<1>6. /\ IsList(cvcPowerPtrList')
      /\ \A k \in DOMAIN cvcPowerPtrList' :
            \/ \E j \in DOMAIN copies : cvcPowerPtrList'[k] = copies[j]
            \/ \E j \in DOMAIN cvcPowerPtrList : cvcPowerPtrList'[k] = cvcPowerPtrList[j]
  <2>1. IsList(cvcPowerPtrList)
    BY Zenon DEF IInv, TypeOK
  <2>2. cvcPowerPtrList' = Replaced(cvcPowerPtrList, i, copies)
    BY <1>4, Zenon DEF Replaced
  <2>3. i \in DOMAIN cvcPowerPtrList /\ IsList(copies)
    BY <1>3, <1>5, Zenon
  <2> HIDE DEF i
  <2> DEFINE new == Replaced(cvcPowerPtrList, i, copies)
  <2>4. /\ IsList(new)
        /\ \A k \in DOMAIN new :
              \/ \E j \in DOMAIN copies : new[k] = copies[j]
              \/ \E j \in DOMAIN cvcPowerPtrList : new[k] = cvcPowerPtrList[j]
    BY <2>1, <2>3, ReplacedType
  <2> HIDE DEF new
  <2>5. cvcPowerPtrList' = new
    BY <2>2, Zenon DEF new
  <2> QED
    BY <2>5, <2>4, Zenon
<1>7. full' \in [Nets -> Opt] /\ Own'
  <2>1. full \in [Nets -> Opt] /\ \A n \in Nets : full[n] \in {NULL, n}
    BY <1>2, Zenon DEF IInv, TypeOK, Own
  <2>2. \A n \in Nets : full'[n] = IF n \in entry.nets THEN n ELSE full[n]
    BY <1>4, Zenon
  <2>3. \A n \in Nets : full'[n] \in {NULL, n}
    BY <2>1, <2>2, Zenon
  <2>4. full' \in [Nets -> Opt]
    BY <2>3, <1>4, Zenon DEF Opt
  <2> QED
    BY <2>3, <2>4, Zenon DEF Own
<1>8. Held(full)'
  <2> SUFFICES ASSUME NEW n \in Nets, Holds(cvcPowerPtrList', definition', n)
               PROVE  full'[n] # NULL
    BY Zenon DEF Held
  <2>1. CASE n \in entry.nets
    BY <2>1, <1>4, NetsAreNumbers, Zenon
  <2>2. CASE n \notin entry.nets
    <3>1. Holds(cvcPowerPtrList, definition, n)
      <4>1. CASE definition'[n] # NULL
        BY <4>1, <2>2, <1>4, Zenon DEF Holds
      <4>2. CASE definition'[n] = NULL
        <5>1. PICK k \in DOMAIN cvcPowerPtrList' :
                 cvcPowerPtrList'[k].owner /\ cvcPowerPtrList'[k].net = n
          BY <4>2, Zenon DEF Holds
        <5>2. CASE \E j \in DOMAIN copies : cvcPowerPtrList'[k] = copies[j]
          BY <5>1, <5>2, <2>2, <1>3, <1>5 DEF Holds, entry
        <5>3. CASE \E j \in DOMAIN cvcPowerPtrList : cvcPowerPtrList'[k] = cvcPowerPtrList[j]
          BY <5>1, <5>3, Zenon DEF Holds
        <5> QED
          BY <5>1, <5>2, <5>3, <1>6, Zenon
      <4> QED
        BY <4>1, <4>2, Zenon
    <3>2. full[n] # NULL
      BY <3>1, <1>2, Zenon DEF IInv, Held
    <3> QED
      BY <3>2, <2>2, <1>4, Zenon
  <2> QED
    BY <2>1, <2>2, Zenon
<1>9. power_ppit' \in Nat \ {0} /\ cvcInstancePowerPtrList' \in Seq(Entries)
  BY <1>2, <1>4, <1>5 DEF IInv, TypeOK
<1> QED
  BY <1>2, <1>4, <1>6, <1>7, <1>8, <1>9, Stage1Keeps, Zenon DEF AfterSwitches

LEMMA FinishModePowerKeeps ==
    ASSUME IInv, FinishModePower
    PROVE  IInv'
<1>1. /\ stage = "power" /\ stage' = "prompt"
      /\ UNCHANGED <<equivalenceVars, circuit, cvcPowerPtrList, cvcInstancePowerPtrList>>
  BY Zenon DEF FinishModePower
<1>2. Held(full)'
  BY <1>1, Zenon DEF IInv, Held, equivalenceVars
<1>3. IsList(cvcPowerPtrList') /\ cvcInstancePowerPtrList' \in Seq(Entries)
  BY <1>1, Zenon DEF IInv, TypeOK
<1>4. UNCHANGED unchangedByStage1 /\ full' \in [Nets -> Opt] /\ DOMAIN definition' = Nets /\ Own'
  BY <1>1, Zenon DEF IInv, TypeOK, Own, equivalenceVars, unchangedByStage1
<1> QED
  BY <1>1, <1>2, <1>3, <1>4, Stage1Keeps, Zenon DEF AfterSwitches

LEMMA SetModelCommandKeeps ==
    ASSUME IInv, SetModelCommand
    PROVE  IInv'
<1> DEFINE list == cvcPowerPtrList
           v(k) == [list[k] EXCEPT !.power = PowerAt(list[k]), !.owner = FALSE]
<1>1. /\ stage = "prompt" /\ stage' = "power" /\ definition' = Unset /\ full' = Unset
      /\ list' = [k \in DOMAIN list |-> v(k)] /\ power_ppit' = 1
      /\ UNCHANGED <<unchangedByStage1, cvcInstancePowerPtrList>>
  BY Zenon DEF SetModelCommand
<1>2. Unowned(list')
  <2>1. PICK U : list \in Seq(U) /\ \A x \in U : {"net", "owner"} \subseteq DOMAIN x
    BY Zenon DEF IInv, TypeOK, IsList
  <2> DEFINE V == {v(k) : k \in DOMAIN list}
  <2>2. DOMAIN list = 1 .. Len(list) /\ Len(list) \in Nat
    BY <2>1
  <2>3. ASSUME NEW k \in DOMAIN list
        PROVE  {"net", "owner"} \subseteq DOMAIN v(k) /\ v(k).owner = FALSE
    <3>1. {"net", "owner"} \subseteq DOMAIN list[k]
      BY <2>1
    <3> QED
      BY <3>1, Zenon
  <2> HIDE DEF v
  <2>4. \A x \in V : {"net", "owner"} \subseteq DOMAIN x
    BY <2>3, Zenon
  <2>5. list' \in Seq(V)
    <3>1. \A k \in 1 .. Len(list) : v(k) \in V
      BY <2>2, Zenon
    <3> HIDE DEF V
    <3> QED
      BY <3>1, <2>2, <1>1
  <2>6. IsList(list')
    BY <2>4, <2>5, Zenon DEF IsList
  <2>7. \A k \in DOMAIN list' : ~ list'[k].owner
    BY <2>3, <1>1, ZenonT(40)
  <2> QED
    BY <2>6, <2>7, Zenon DEF Unowned
<1>3. full' \in [Nets -> Opt] /\ DOMAIN definition' = Nets /\ Own'
  BY <1>1, Zenon DEF Unset, Opt, Own
<1>4. Held(full)'
  BY <1>1, <1>2, ZenonT(40) DEF Held, Holds, Unset, Unowned
<1>5. cvcInstancePowerPtrList' \in Seq(Entries) /\ IsList(cvcPowerPtrList')
  BY <1>1, <1>2, Zenon DEF IInv, TypeOK, Unowned
<1>6. /\ UNCHANGED unchangedByStage1 /\ power_ppit' = 1
      /\ stage # "switches" /\ stage' # "switches" /\ ~ AfterSwitches'
  BY <1>1, Zenon DEF AfterSwitches
<1>7. power_ppit' \in Nat \ {0}
  BY <1>6
<1> QED
  BY <1>3, <1>4, <1>5, <1>6, <1>7, Stage1Keeps, ZenonT(40)

-----------------------------------------------------------------------------
(* SetEquivalentNets.                                                      *)

LEMMA StartSwitchesKeeps ==
    ASSUME IInv, StartSwitches
    PROVE  IInv'
<1>1. /\ stage = "prompt" /\ powerFileStatus = "OK" /\ stage' = "switches"
      /\ equivalentNet_v' = [n \in Nets |-> n] /\ theNetMap' = [n \in Nets |-> {}]
      /\ isFixedEquivalentNet' = FALSE /\ net_it' = NetCount /\ shorted' = {}
      /\ UNCHANGED <<definition, full, circuit, cvcPowerPtrList, cvcInstancePowerPtrList>>
  BY Zenon DEF StartSwitches, StartEquivalentNets
<1>2. TypeOK'
  BY <1>1, NetCountAssumption, SMTT(30) DEF IInv, TypeOK
<1>3. Fresh' /\ Own'
  BY <1>1, Zenon DEF IInv, Fresh, Own
<1>4. Classes([n \in Nets |-> n], full)'
  BY <1>2, <1>3, FreshClasses, PTL
<1>5. Held(full)'
  BY <1>1, Zenon DEF IInv, Held
<1>6. \E root, F : Classes(root, F)' /\ Held(F)'
  BY <1>4, <1>5, Zenon
<1> QED
  BY <1>1, <1>2, <1>6, Zenon DEF IInv, AfterSwitches

\* A switch is shorted: the classes of lesser and greater become one, and P is its power.
Shorts(a, b, root, lesser, greater, P) ==
    /\ Classes(root, full) /\ Held(full)
    /\ lesser \in Nets /\ greater \in Nets /\ lesser < greater /\ lesser # greater
    /\ root[lesser] = lesser /\ root[greater] = greater /\ {root[a], root[b]} = {lesser, greater}
    /\ Prevails(P, full[lesser], full[greater])
    /\ full' = Spread(IF full[greater] = P THEN lesser ELSE greater, P)
    /\ theNetMap' = Splice(lesser, greater)
    /\ equivalentNet_v' = [equivalentNet_v EXCEPT ![greater] = lesser]

LEMMA ShortShorts ==
    ASSUME IInv, NEW a \in Nets, NEW b \in Nets, Short(a, b)
    PROVE  \E root, lesser, greater, P : Shorts(a, b, root, lesser, greater, P)
<1>1. stage = "switches" /\ net_it = NetCount
  BY Zenon DEF Short, ShortSwitch, Shorting
<1>2. PICK root, F : Classes(root, F) /\ Held(F)
  BY <1>1, Zenon DEF IInv
<1>3. /\ Roots(equivalentNet_v, root, NetCount) /\ Represent(root, F)
      /\ root \in [Nets -> Nets] /\ \A n \in Nets : root[n] \in Nets /\ root[root[n]] = root[n]
  BY <1>1, <1>2, Zenon DEF Classes, Roots
<1>4. F = full
  <2>1. \A n \in Nets : full[n] = F[n]
    BY <1>1, <1>2, NetsAreNumbers, Zenon DEF Classes, Numbered
  <2> QED
    BY <2>1, <1>3, SMTT(30) DEF Represent, IInv, TypeOK
<1>5. GetLeastEquivalentNet(a) = root[a] /\ GetLeastEquivalentNet(b) = root[b]
  BY <1>3, LeastIsRoot, NetsAreNumbers, Zenon
<1> DEFINE first == root[a]
           second == root[b]
           lesser == IF first < second THEN first ELSE second
           greater == IF first < second THEN second ELSE first
           P == SetMasterPower(first, second).power
           minor == IF full[greater] = P THEN lesser ELSE greater
<1>6. /\ first # second /\ ~Conflict(first, second)
      /\ SetMasterPower(first, second) # [power |-> NULL, same |-> TRUE]
      /\ full' = Spread(minor, P)
      /\ theNetMap' = Splice(lesser, greater)
      /\ equivalentNet_v' = [equivalentNet_v EXCEPT ![greater] = lesser]
  BY <1>5, Zenon DEF Short, ShortSwitch, MakeEquivalentNets
<1>7. Prevails(P, full[first], full[second])
  BY <1>6, MasterPower, Zenon
<1> HIDE DEF P
<1>8. /\ lesser \in Nets /\ greater \in Nets /\ lesser < greater /\ lesser # greater
      /\ root[lesser] = lesser /\ root[greater] = greater /\ {first, second} = {lesser, greater}
  <2>1. first \in Nets /\ second \in Nets /\ first \in Nat /\ second \in Nat
    BY <1>3, NetsAreNumbers, Zenon
  <2>2. first < second \/ second < first
    BY <2>1, <1>6
  <2>3. lesser < greater /\ lesser # greater
    BY <2>1, <2>2
  <2> QED
    BY <2>1, <2>3, <1>3, Zenon
<1>9. Prevails(P, full[lesser], full[greater])
  BY <1>7, Zenon DEF Prevails
<1> HIDE DEF lesser, greater
<1>10. Shorts(a, b, root, lesser, greater, P)
  BY <1>2, <1>4, <1>6, <1>8, <1>9, Zenon DEF Shorts
<1> QED
  BY <1>10, Zenon

\* The classes after that, and their powers.
LEMMA ShortsMerge ==
    ASSUME NEW a, NEW b, NEW root, NEW lesser, NEW greater, NEW P,
           Shorts(a, b, root, lesser, greater, P)
    PROVE  /\ Represent(Merged(root, lesser, greater), full')
           /\ \A n \in Nets : full[n] # NULL => full'[n] # NULL
           /\ \A n \in Nets : full'[n] = IF root[n] \in {lesser, greater} THEN P ELSE full[n]
<1>1. /\ root \in [Nets -> Nets] /\ \A n \in Nets : root[root[n]] = root[n]
      /\ Represent(root, full) /\ Mapped(root, theNetMap)
  BY Zenon DEF Shorts, Classes, Roots
<1> DEFINE minor == IF full[greater] = P THEN lesser ELSE greater
<1>2. minor = IF full[greater] = P THEN lesser ELSE greater
  BY Zenon
<1>3. full' = Spread(minor, P)
  BY Zenon DEF Shorts
<1>4. /\ lesser \in Nets /\ greater \in Nets /\ lesser # greater
      /\ root[lesser] = lesser /\ root[greater] = greater
      /\ P \in {full[lesser], full[greater]}
      /\ P = NULL => full[lesser] = NULL /\ full[greater] = NULL
  BY Zenon DEF Shorts, Prevails
<1> HIDE DEF minor
<1> QED
  BY <1>1, <1>2, <1>3, <1>4, MergedPower

LEMMA ShortKeeps ==
    ASSUME IInv, NEW a \in Nets, NEW b \in Nets, Short(a, b)
    PROVE  IInv'
<1>1. /\ stage = "switches" /\ net_it = NetCount /\ ~isFixedEquivalentNet
      /\ stage' = stage /\ net_it' = net_it /\ isFixedEquivalentNet' = isFixedEquivalentNet
      /\ shorted' = shorted \cup {{a, b}}
      /\ UNCHANGED <<definition, circuit, cvcPowerPtrList, cvcInstancePowerPtrList>>
  BY Zenon DEF Short, ShortSwitch, Shorting, setupVars
<1>2. PICK root, lesser, greater, P : Shorts(a, b, root, lesser, greater, P)
  BY ShortShorts, Zenon
<1>3. /\ Roots(equivalentNet_v, root, NetCount) /\ Together(root, shorted)
      /\ Mapped(root, theNetMap) /\ root \in [Nets -> Nets] /\ Held(full)
  BY <1>1, <1>2, Zenon DEF Shorts, Classes, Roots
<1>4. /\ lesser \in Nets /\ greater \in Nets /\ lesser < greater /\ lesser # greater
      /\ root[lesser] = lesser /\ root[greater] = greater /\ {root[a], root[b]} = {lesser, greater}
      /\ theNetMap' = Splice(lesser, greater)
      /\ equivalentNet_v' = [equivalentNet_v EXCEPT ![greater] = lesser]
  BY <1>2, Zenon DEF Shorts
<1> DEFINE t == Merged(root, lesser, greater)
<1>10. Roots(equivalentNet_v', t, NetCount)
  BY <1>3, <1>4, MergedRoots, Zenon
<1>11. Together(t, shorted')
  BY <1>1, <1>3, <1>4, MergedTogether, Zenon
<1>12. Mapped(t, theNetMap')
  BY <1>3, <1>4, MergedMap, Zenon
<1>13. Represent(t, full') /\ \A n \in Nets : full[n] # NULL => full'[n] # NULL
  BY <1>2, ShortsMerge, Zenon
<1> HIDE DEF t
<1>14. full' \in [Nets -> Opt] /\ equivalentNet_v' \in [Nets -> Nets]
  BY <1>10, <1>13, Zenon DEF Represent, Roots
<1>15. Numbered(t, full', equivalentNet_v', full', net_it')
  BY <1>1, <1>14, NetsAreNumbers, Zenon DEF Numbered
<1>16. Held(full)'
  BY <1>1, <1>3, <1>13, Zenon DEF Held
<1>17. TypeOK'
  BY <1>1, <1>14, Zenon DEF IInv, TypeOK
<1>18. Classes(t, full)'
  BY <1>1, <1>10, <1>11, <1>12, <1>13, <1>15, Zenon DEF Classes
<1>19. \E r, G : Classes(r, G)' /\ Held(G)'
  BY <1>16, <1>18, Zenon
<1> QED
  BY <1>1, <1>17, <1>19, Zenon DEF IInv, AfterSwitches

LEMMA FixNetKeeps ==
    ASSUME IInv, NEW n \in Nets, FixNet(n)
    PROVE  IInv'
<1>1. /\ stage = "switches" /\ ~isFixedEquivalentNet /\ stage' = stage
      /\ net_it > 0 /\ n = net_it - 1 /\ net_it' = net_it - 1
      /\ equivalentNet_v' = [equivalentNet_v EXCEPT ![n] = GetEquivalentNet(n)]
      /\ full' = IF full[n] = n THEN full ELSE [full EXCEPT ![n] = NULL]
      /\ UNCHANGED <<definition, theNetMap, isFixedEquivalentNet, shorted, circuit,
                     cvcPowerPtrList, cvcInstancePowerPtrList>>
  BY Zenon DEF FixNet, Fix, setupVars
<1>2. PICK root, F : Classes(root, F) /\ Held(F)
  BY <1>1, Zenon DEF IInv
<1>3. net_it \in Nat /\ net_it' \in Nat /\ n < net_it /\ n \in Nat /\ net_it <= NetCount
  BY <1>1, NetCountAssumption, SMTT(30) DEF IInv, TypeOK
<1>4. /\ Roots(equivalentNet_v, root, net_it) /\ Represent(root, F)
      /\ root \in [Nets -> Nets] /\ \A m \in Nets : root[root[m]] = root[m]
      /\ equivalentNet_v \in [Nets -> Nets] /\ full \in [Nets -> Opt]
      /\ Numbered(root, F, equivalentNet_v, full, net_it)
  BY <1>2, Zenon DEF Classes, Roots, Numbered
<1>5. GetLeastEquivalentNet(n) = root[n]
  BY <1>3, <1>4, LeastIsRoot, Zenon
<1>6. root[n] \in Nets /\ root[n] < net_it /\ full[root[n]] = F[root[n]] /\ full[n] = F[n]
  BY <1>3, <1>4, RootIsLinkedToItself, ZenonT(40) DEF Numbered
<1>7. GetEquivalentNet(n) = Number(root, F, n)
  BY <1>1, <1>5, <1>6, Zenon DEF GetEquivalentNet, Number
<1>8. Number(root, F, n) \in Nets
  BY <1>4, NumberIsInClass, Zenon
<1> DEFINE e == Number(root, F, n)
<1> HIDE DEF e
<1>9. /\ equivalentNet_v' \in [Nets -> Nets] /\ equivalentNet_v'[n] = e
      /\ \A m \in Nets : m # n => equivalentNet_v'[m] = equivalentNet_v[m]
  BY <1>1, <1>4, <1>7, <1>8, Zenon DEF e
<1>10. /\ full' \in [Nets -> Opt] /\ full'[n] = IF F[n] = n THEN n ELSE NULL
       /\ \A m \in Nets : m # n => full'[m] = full[m]
  BY <1>1, <1>4, <1>6, Zenon DEF Opt
<1>11. \A m \in Nets : /\ m < net_it' => m # n /\ m < net_it
                       /\ ~ (m < net_it') => m = n \/ (m # n /\ ~ (m < net_it))
  BY <1>1, <1>3, NetsAreNumbers, SMTT(30)
<1>12. Roots(equivalentNet_v', root, net_it')
  BY <1>4, <1>9, <1>11, Zenon DEF Roots
<1>13. Numbered(root, F, equivalentNet_v', full', net_it')
  <2> SUFFICES ASSUME NEW m \in Nets
               PROVE  IF m < net_it' THEN full'[m] = F[m]
                      ELSE equivalentNet_v'[m] = Number(root, F, m)
                           /\ full'[m] = IF F[m] = m THEN m ELSE NULL
    BY <1>10, Zenon DEF Numbered
  <2>1. CASE m < net_it'
    BY <2>1, <1>4, <1>10, <1>11, Zenon DEF Numbered
  <2>2. CASE ~ (m < net_it') /\ m = n
    BY <2>2, <1>9, <1>10, Zenon DEF e
  <2>3. CASE ~ (m < net_it') /\ m # n
    BY <2>3, <1>4, <1>9, <1>10, <1>11, SMTT(30) DEF Numbered
  <2> QED
    BY <2>1, <2>2, <2>3, Zenon
<1>14. Classes(root, F)'
  BY <1>1, <1>2, <1>12, <1>13, Zenon DEF Classes
<1>15. Held(F)'
  BY <1>1, <1>2, Zenon DEF Held
<1>16. TypeOK'
  BY <1>1, <1>3, <1>9, <1>10, NetCountAssumption, SMTT(30) DEF IInv, TypeOK
<1>17. \E r, G : Classes(r, G)' /\ Held(G)'
  BY <1>14, <1>15, Zenon
<1> QED
  BY <1>1, <1>16, <1>17, Zenon DEF IInv, AfterSwitches

LEMMA FinishSwitchesKeeps ==
    ASSUME IInv, FinishSwitches
    PROVE  IInv'
<1>1. /\ stage = "switches" /\ net_it = 0 /\ ~isFixedEquivalentNet
      /\ stage' = "instances" /\ isFixedEquivalentNet' = TRUE /\ power_ppit' = 1
      /\ UNCHANGED <<definition, equivalentNet_v, full, net_it, shorted, circuit,
                     cvcPowerPtrList, cvcInstancePowerPtrList>>
  BY Zenon DEF FinishSwitches, SetFixed
<1>2. PICK root, F : Classes(root, F) /\ Held(F)
  BY <1>1, Zenon DEF IInv
<1>3. /\ root \in [Nets -> Nets] /\ \A n \in Nets : root[root[n]] = root[n]
      /\ Represent(root, F) /\ Together(root, shorted)
      /\ equivalentNet_v \in [Nets -> Nets] /\ full \in [Nets -> Opt]
  BY <1>2, Zenon DEF Classes, Roots, Numbered
<1>4. \A n \in Nets : /\ equivalentNet_v[n] = Number(root, F, n)
                      /\ full[n] = IF F[n] = n THEN n ELSE NULL
  BY <1>1, <1>2, NetsAreNumbers, SMTT(30) DEF Classes, Numbered
<1>5. \A n \in Nets : /\ equivalentNet_v[n] \in Nets /\ root[equivalentNet_v[n]] = root[n]
                      /\ equivalentNet_v[equivalentNet_v[n]] = equivalentNet_v[n]
  BY <1>3, <1>4, NumberIsInClass, SMTT(30)
<1>6. \A x, y \in Nets : root[x] = root[y] => equivalentNet_v[x] = equivalentNet_v[y]
  BY <1>4 DEF Number
<1>7. Together(equivalentNet_v, shorted)
  BY <1>3, <1>5, <1>6, SMTT(30) DEF Together
<1>8. Fixed' /\ Own'
  BY <1>1, <1>4, <1>5, <1>7, Zenon DEF Fixed, Own
<1>9. Settled(cvcPowerPtrList, full, definition)
  <2>1. ASSUME NEW n \in Nets, full[n] # NULL
        PROVE  full[n] = n /\ equivalentNet_v[n] = n
    <3>1. F[n] = n /\ full[n] = n
      BY <2>1, <1>4, Zenon
    <3>2. F[root[n]] = n
      BY <3>1, <1>3, Zenon DEF Represent
    <3> QED
      BY <3>1, <3>2, <2>1, <1>4, Zenon DEF Number
  <2>2. ASSUME NEW n \in Nets, Holds(cvcPowerPtrList, definition, n)
        PROVE  full[equivalentNet_v[n]] # NULL
    <3> DEFINE e == equivalentNet_v[n]
    <3>1. F[n] # NULL /\ F[n] = F[root[n]]
      BY <2>2, <1>2, <1>3, Zenon DEF Held, Represent
    <3>2. e = F[root[n]] /\ e \in Nets /\ root[e] = root[n]
      BY <3>1, <1>4, <1>5, Zenon DEF Number
    <3>3. F[e] = e
      BY <3>2, <1>3, Zenon DEF Represent
    <3>4. full[e] = e
      BY <3>2, <3>3, <1>4, Zenon
    <3> QED
      BY <3>2, <3>4, NetsAreNumbers, Zenon
  <2> QED
    BY <2>1, <2>2, <1>3, Zenon DEF Settled, IInv, TypeOK
<1>10. Settled(cvcPowerPtrList, full, definition)'
  BY <1>1, <1>9, Zenon DEF Settled
<1>11. TypeOK'
  BY <1>1 DEF IInv, TypeOK
<1> QED
  BY <1>1, <1>8, <1>10, <1>11, Zenon DEF IInv, AfterSwitches

-----------------------------------------------------------------------------
(* The rest of stage 2.                                                    *)

\* A numbered net is its own number, with or without a power.
LEMMA FixedNumber ==
    ASSUME IInv, isFixedEquivalentNet, NEW n \in Nets
    PROVE  GetEquivalentNet(n) = equivalentNet_v[n] /\ equivalentNet_v[n] \in Nets
<1>1. stage # "switches" /\ Own /\ equivalentNet_v[n] \in Nets
  BY Zenon DEF IInv, TypeOK
<1> QED
  BY <1>1, Zenon DEF GetEquivalentNet, Own

LEMMA FixedNets ==
    ASSUME IInv, isFixedEquivalentNet
    PROVE  NetsAreNumbered
<1>1. \A n \in Nets : equivalentNet_v[equivalentNet_v[n]] = equivalentNet_v[n]
  BY Zenon DEF IInv, Fixed
<1> QED
  BY <1>1, FixedNumber, SMTT(30) DEF NetsAreNumbered, InstanceNet, IInv, TypeOK

LEMMA SetInstancePowerKeeps ==
    ASSUME IInv, SetInstancePower
    PROVE  IInv'
<1> DEFINE lines == cvcInstancePowerPtrList[power_ppit].read
           s == SetInstance(lines)
<1>1. /\ stage = "instances" /\ power_ppit <= Len(cvcInstancePowerPtrList)
      /\ definition' = s.definition /\ full' = s.full /\ cvcPowerPtrList' = s.list
      /\ stage' = IF s.stopped THEN "stopped" ELSE stage
      /\ power_ppit' = power_ppit + 1
      /\ UNCHANGED <<unchangedByStage1, cvcInstancePowerPtrList>>
  BY Zenon DEF SetInstancePower
<1>2. /\ power_ppit \in Nat \ {0} /\ isFixedEquivalentNet
      /\ Settled(cvcPowerPtrList, full, definition)
  BY <1>1, Zenon DEF IInv, TypeOK, AfterSwitches
<1>3. lines \in Seq(InstanceLines)
  <2>1. cvcInstancePowerPtrList[power_ppit] \in Entries
    BY <1>1, <1>2, SMTT(30) DEF IInv, TypeOK
  <2> QED
    BY <2>1, Zenon DEF Entries
<1>4. NetsAreNumbered
  BY <1>2, FixedNets, Zenon
<1> HIDE DEF lines
<1>5. SettledState(s)
  BY <1>2, <1>3, <1>4, SetInstanceSettles, Zenon
<1> HIDE DEF s
<1>6. Settled(cvcPowerPtrList', full', definition')
  BY <1>1, <1>5, Zenon DEF SettledState
<1>7. UNCHANGED <<equivalentNet_v, isFixedEquivalentNet, net_it, shorted, circuit>>
  BY <1>1, Zenon DEF unchangedByStage1
<1>8. Settled(cvcPowerPtrList, full, definition)' /\ Own'
  BY <1>6, <1>7, Zenon DEF Settled, Own
<1>9. TypeOK'
  <2>1. IsList(cvcPowerPtrList') /\ full' \in [Nets -> Opt] /\ DOMAIN definition' = Nets
    BY <1>6, Zenon DEF Settled
  <2>2. power_ppit' \in Nat \ {0}
    BY <1>1, <1>2, SMTT(30)
  <2> QED
    BY <2>1, <2>2, <1>1, <1>7, Zenon DEF IInv, TypeOK
<1>10. Fixed'
  BY <1>2, <1>7, Zenon DEF IInv, Fixed
<1> QED
  BY <1>1, <1>2, <1>7, <1>8, <1>9, <1>10, Zenon DEF IInv

LEMMA SetFamiliesKeeps ==
    ASSUME IInv, SetFamilies
    PROVE  IInv'
<1> DEFINE list == cvcPowerPtrList
           owned == {list[k].net : k \in {i \in DOMAIN list : list[i].owner}}
           v(k) == [list[k] EXCEPT !.power = WithRelatives(@)]
<1>1. /\ stage = "families" /\ stage' = "done"
      /\ definition' = [n \in Nets |-> IF n \in owned THEN WithRelatives(definition[n]) ELSE definition[n]]
      /\ list' = [k \in DOMAIN list |-> v(k)]
      /\ UNCHANGED <<unchangedByStage1, full, cvcInstancePowerPtrList>>
  BY Zenon DEF SetFamilies
<1>2. isFixedEquivalentNet /\ Settled(list, full, definition)
  BY <1>1, Zenon DEF IInv, AfterSwitches
<1>3. PICK U : list \in Seq(U) /\ \A x \in U : {"net", "owner"} \subseteq DOMAIN x
  BY Zenon DEF IInv, TypeOK, IsList
<1>4. DOMAIN list = 1 .. Len(list) /\ Len(list) \in Nat
  BY <1>3
<1>5. ASSUME NEW k \in DOMAIN list
      PROVE  {"net", "owner"} \subseteq DOMAIN v(k) /\ v(k).owner = list[k].owner /\ v(k).net = list[k].net
  <2>1. {"net", "owner"} \subseteq DOMAIN list[k]
    BY <1>3
  <2> QED
    BY <2>1, Zenon
<1> HIDE DEF v
<1>6. IsList(list')
  <2> DEFINE V == {v(k) : k \in DOMAIN list}
  <2>1. \A x \in V : {"net", "owner"} \subseteq DOMAIN x
    BY <1>5, Zenon
  <2>2. \A k \in 1 .. Len(list) : v(k) \in V
    BY <1>4, Zenon
  <2> HIDE DEF V
  <2>3. list' \in Seq(V)
    BY <2>2, <1>1, <1>4, SMTT(30)
  <2> QED
    BY <2>1, <2>3, Zenon DEF IsList
<1>7. ASSUME NEW n \in Nets, Holds(list', definition', n)
      PROVE  Holds(list, definition, n)
  <2>1. CASE n \in owned
    BY <2>1, Zenon DEF Holds
  <2>2. CASE n \notin owned
    <3>1. definition'[n] = definition[n]
      BY <2>2, <1>1, Zenon
    <3>2. ~ \E k \in DOMAIN list' : list'[k].owner /\ list'[k].net = n
      BY <2>2, <1>1, <1>5, Zenon
    <3> QED
      BY <3>1, <3>2, <1>7, Zenon DEF Holds
  <2> QED
    BY <2>1, <2>2, Zenon
<1>8. UNCHANGED <<equivalentNet_v, isFixedEquivalentNet, net_it, shorted, circuit, full,
                 cvcInstancePowerPtrList>>
  BY <1>1, Zenon DEF unchangedByStage1
<1>9. DOMAIN definition' = Nets
  BY <1>1, Zenon
<1>10. Settled(cvcPowerPtrList', full', definition')
  BY <1>2, <1>6, <1>7, <1>8, <1>9, Zenon DEF Settled
<1>11. Settled(cvcPowerPtrList, full, definition)'
  BY <1>8, <1>10, Zenon DEF Settled
<1>12. Own' /\ Fixed'
  BY <1>1, <1>2, <1>8, Zenon DEF IInv, Own, Fixed
<1>13. TypeOK'
  BY <1>1, <1>6, <1>8, <1>9, Zenon DEF IInv, TypeOK
<1> QED
  BY <1>1, <1>2, <1>8, <1>11, <1>12, <1>13, Zenon DEF IInv

\* Steps that change no net and no list of powers.
LEMMA OtherStepsKeep ==
    ASSUME IInv, UNCHANGED <<equivalenceVars, circuit, cvcPowerPtrList, cvcInstancePowerPtrList>>,
           \/ stage = "instances" /\ stage' \in {"setup", "expected"}
           \/ stage = "expected" /\ stage' \in {"setup", "families"}
           \/ stage' = "setup" /\ stage \in {"prompt", "done"}
    PROVE  IInv'
<1>1. /\ stage # "switches" /\ stage' # "switches"
      /\ stage' \notin {"power", "prompt", "instances"}
      /\ AfterSwitches' => AfterSwitches
  BY Zenon DEF AfterSwitches
<1>2. /\ UNCHANGED <<definition, equivalentNet_v, full, theNetMap, isFixedEquivalentNet, net_it,
                     shorted>>
  BY Zenon DEF equivalenceVars
<1>3. TypeOK'
  BY <1>1, <1>2, Zenon DEF IInv, TypeOK
<1>4. /\ Own' /\ (~isFixedEquivalentNet' => Fresh') /\ (isFixedEquivalentNet' => Fixed')
  BY <1>1, <1>2, ZenonT(40) DEF IInv, Own, Fresh, Fixed
<1>5. AfterSwitches' => isFixedEquivalentNet' /\ Settled(cvcPowerPtrList, full, definition)'
  BY <1>1, <1>2, ZenonT(40) DEF IInv, Settled
<1> QED
  BY <1>1, <1>3, <1>4, <1>5, Zenon DEF IInv

LEMMA IdleKeeps ==
    ASSUME IInv, UNCHANGED vars
    PROVE  IInv'
<1>1. /\ UNCHANGED <<definition, equivalentNet_v, full, theNetMap, isFixedEquivalentNet, net_it,
                     shorted>>
      /\ UNCHANGED <<circuit, cvcPowerPtrList, cvcInstancePowerPtrList, powerFileStatus,
                     power_ppit, stage>>
  BY Zenon DEF vars, equivalenceVars, setupVars
<1>2. TypeOK'
  BY <1>1, Zenon DEF IInv, TypeOK
<1>3. (Own => Own') /\ (Fresh => Fresh') /\ (Fixed => Fixed') /\ (AfterSwitches' => AfterSwitches)
  BY <1>1, Zenon DEF Own, Fresh, Fixed, AfterSwitches
<1>4. \A root, F : (Classes(root, F) => Classes(root, F)') /\ (Held(F) => Held(F)')
  BY <1>1, Zenon DEF Classes, Held
<1>5. /\ Held(full) => Held(full)'
      /\ Settled(cvcPowerPtrList, full, definition) => Settled(cvcPowerPtrList, full, definition)'
  BY <1>1, Zenon DEF Held, Settled
<1>6. stage = "switches" => \E root, F : Classes(root, F)' /\ Held(F)'
  BY <1>4, Zenon DEF IInv
<1> QED
  BY <1>1, <1>2, <1>3, <1>5, <1>6, Zenon DEF IInv

LEMMA NextIInv == IInv /\ [Next]_vars => IInv'
<1> SUFFICES ASSUME IInv, [Next]_vars
             PROVE  IInv'
  BY Zenon
<1>1. ASSUME NEW f \in circuit.files, ReadPower(f) \/ SetPowerCommand(f)
      PROVE  IInv'
  BY <1>1, ReadPowerKeeps, Zenon
<1>2. CASE SetModePower \/ FinishModePower \/ SetModelCommand
  BY <1>2, SetModePowerKeeps, FinishModePowerKeeps, SetModelCommandKeeps, Zenon
<1>3. CASE StartSwitches
  BY <1>3, StartSwitchesKeeps, Zenon
<1>4. ASSUME NEW s \in circuit.switches,
             Skip(s[1], s[2]) \/ Report(s[1], s[2]) \/ Short(s[1], s[2])
      PROVE  IInv'
  <2>1. s[1] \in Nets /\ s[2] \in Nets
    BY SwitchesAssumption, ZenonT(40) DEF IInv, TypeOK
  <2>2. CASE Skip(s[1], s[2]) \/ Report(s[1], s[2])
    BY <2>2, IdleKeeps, Zenon DEF Skip, Report, SkipSwitch, ReportSwitch, vars
  <2>3. CASE Short(s[1], s[2])
    BY <2>1, <2>3, ShortKeeps, Zenon
  <2> QED
    BY <1>4, <2>2, <2>3, Zenon
<1>5. ASSUME NEW n \in Nets, FixNet(n)
      PROVE  IInv'
  BY <1>5, FixNetKeeps, Zenon
<1>6. CASE FinishSwitches \/ SetInstancePower \/ SetFamilies
  BY <1>6, FinishSwitchesKeeps, SetInstancePowerKeeps, SetFamiliesKeeps, Zenon
<1>7. CASE FinishInstancePower
  BY <1>7, OtherStepsKeep, Zenon DEF FinishInstancePower
<1>8. CASE SetExpectedPower
  BY <1>8, OtherStepsKeep, Zenon DEF SetExpectedPower
<1>9. CASE NextMode
  BY <1>9, OtherStepsKeep, Zenon DEF NextMode
<1>10. CASE Finished \/ UNCHANGED vars
  BY <1>10, IdleKeeps, Zenon DEF Finished
<1> QED
  BY <1>1, <1>2, <1>3, <1>4, <1>5, <1>6, <1>7, <1>8, <1>9, <1>10, SMTT(30) DEF Next

-----------------------------------------------------------------------------
(* The theorems.                                                           *)

\* The numbers of the nets while switches are shorted and when they are fixed.
LEMMA NumbersAreClasses ==
    ASSUME IInv, Shorting \/ isFixedEquivalentNet
    PROVE  \E root \in [Nets -> Nets] :
              /\ Together(root, shorted)
              /\ \A a, b \in Nets :
                    (GetEquivalentNet(a) = GetEquivalentNet(b)) = (root[a] = root[b])
<1>1. CASE isFixedEquivalentNet
  BY <1>1, FixedNumber, SMTT(30) DEF IInv, TypeOK, Fixed
<1>2. CASE ~isFixedEquivalentNet
  <2>1. net_it = NetCount
    BY <1>2, Zenon DEF Shorting
  <2>2. PICK root, F : Classes(root, F)
    BY <1>2, FreshClasses, Zenon DEF IInv
  <2>3. /\ Roots(equivalentNet_v, root, NetCount) /\ root \in [Nets -> Nets]
        /\ Together(root, shorted) /\ Represent(root, F)
        /\ \A n \in Nets : root[root[n]] = root[n]
    BY <2>1, <2>2, Zenon DEF Classes, Roots
  <2>4. \A n \in Nets : full[n] = F[n]
    BY <2>1, <2>2, NetsAreNumbers, Zenon DEF Classes, Numbered
  <2>5. \A n \in Nets : GetLeastEquivalentNet(n) = root[n]
    BY <2>3, LeastIsRoot, NetsAreNumbers, Zenon
  <2>6. \A n \in Nets : GetEquivalentNet(n) = Number(root, F, n)
    BY <1>2, <2>3, <2>4, <2>5, Zenon DEF GetEquivalentNet, Number
  <2>7. \A n \in Nets : root[Number(root, F, n)] = root[n]
    BY <2>3, NumberIsInClass
  <2>8. ASSUME NEW a \in Nets, NEW b \in Nets
        PROVE  (Number(root, F, a) = Number(root, F, b)) <=> (root[a] = root[b])
    <3>1. root[a] = root[b] => Number(root, F, a) = Number(root, F, b)
      BY Zenon DEF Number
    <3> QED
      BY <3>1, <2>7, Zenon
  <2> QED
    BY <2>3, <2>6, <2>8
<1> QED
  BY <1>1, <1>2, Zenon

\* Two nets are equivalent exactly if shorted switches join them, for any number
\* of nets, any order of the switches, any powers in between and any number of
\* modes: while MakeEquivalentNets links the least nets of two classes, and after
\* the last pass of SetEquivalentNets has numbered the classes.
THEOREM EquivalenceIsJoining == Spec => []EquivalentIffJoined
<1>1. Spec => []IInv
  BY InitIInv, NextIInv, PTL DEF Spec
<1>2. IInv => EquivalentIffJoined
  <2> SUFFICES ASSUME IInv, NEW a \in Nets, NEW b \in Nets, Shorting \/ isFixedEquivalentNet
               PROVE  (GetEquivalentNet(a) = GetEquivalentNet(b)) = Joined(a, b)
    BY Zenon DEF EquivalentIffJoined
  <2>1. PICK root \in [Nets -> Nets] :
              /\ Together(root, shorted)
              /\ (GetEquivalentNet(a) = GetEquivalentNet(b)) = (root[a] = root[b])
    BY NumbersAreClasses, Zenon
  <2>2. (root[a] = root[b]) = Joined(a, b)
    BY <2>1, TogetherIsJoined, Zenon
  <2> QED
    BY <2>1, <2>2, Zenon
<1> QED
  BY <1>1, <1>2, PTL

\* From the end of SetEquivalentNets on, the net that stands for a class is its
\* own equivalent and the only one of the class with a power, and it has one if
\* any net of the class was given one, by the power file or by an instance, in
\* whatever order the switches came.
THEOREM ClassesHaveOnePower == Spec => []OnePowerPerClass
<1>1. Spec => []IInv
  BY InitIInv, NextIInv, PTL DEF Spec
<1>2. IInv => OnePowerPerClass
  <2> SUFFICES ASSUME IInv, AfterSwitches, NEW n \in Nets, NEW e, e = GetEquivalentNet(n)
               PROVE  /\ GetEquivalentNet(e) = e
                      /\ equivalentNet_v[n] = e
                      /\ full[n] # NULL => full[n] = n /\ e = n
                      /\ definition[n] # NULL => full[e] # NULL
    BY Zenon DEF OnePowerPerClass
  <2>1. isFixedEquivalentNet /\ Settled(cvcPowerPtrList, full, definition) /\ Fixed
    BY Zenon DEF IInv
  <2>2. e = equivalentNet_v[n] /\ e \in Nets
    BY <2>1, FixedNumber, Zenon
  <2>3. GetEquivalentNet(e) = e
    BY <2>1, <2>2, FixedNumber, Zenon DEF Fixed
  <2> QED
    BY <2>1, <2>2, <2>3, Zenon DEF Settled, Holds
<1> QED
  BY <1>1, <1>2, PTL
=============================================================================
