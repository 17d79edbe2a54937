-------------------------- MODULE VirtualNetProofs --------------------------
(***************************************************************************)
(* No loop in the chains of CVirtualNetVector outlives a step, lookups are *)
(* exact, shifts find the resistances they expect, for any nets,           *)
(* resistances and number of passes.                                       *)
(*                                                                         *)
(* The invariant: the nets have ranks that go down along the chains, the   *)
(* values kept with a live net are those of its chain if its stamp is      *)
(* current, and a live net that points to another one has a voltage at the *)
(* end of its chain.  The last conjunct is why ShortNets need not advance  *)
(* lastUpdate: a net without a voltage is the end of its chain and no live *)
(* net is behind it.                                                       *)
(*                                                                         *)
(* The first half is about walks along chains that do not loop, and what a *)
(* lookup and a link make of them; then come the shifts, the invariant and *)
(* one lemma for each action.                                              *)
(***************************************************************************)
EXTENDS VirtualNet, NaturalsInduction, WellFoundedInduction, FiniteSetTheorems, TLAPS

-----------------------------------------------------------------------------
(* Natural numbers and recursive functions.  The facts are stated for sets *)
(* and functions, so that a proof can cite them for those it has at hand.  *)

\* A set of natural numbers that is not empty has a least one.
LEMMA LeastNumber ==
    ASSUME NEW S, S \subseteq Nat, S # {}
    PROVE  \E n \in S : \A m \in S : n <= m
<1>1. \E n \in S : \A m \in S : ~ (<<m, n>> \in OpToRel(<, Nat))
  BY NatLessThanWellFounded, WFMin, Zenon
<1>2. PICK n \in S : \A m \in S : ~ (m < n)
  BY <1>1, Zenon DEF OpToRel
<1> QED
  BY <1>2

\* Of the elements of a set, each with a rank, one has the least rank.
LEMMA LeastRank ==
    ASSUME NEW S, S # {}, NEW rank, \A x \in S : rank[x] \in Nat
    PROVE  \E x \in S : \A y \in S : rank[x] <= rank[y]
<1> DEFINE R == {rank[x] : x \in S}
<1>1. R \subseteq Nat /\ R # {}
  BY Zenon
<1>2. PICK r \in R : \A s \in R : r <= s
  <2> HIDE DEF R
  <2> QED
    BY <1>1, LeastNumber, Zenon
<1> QED
  BY <1>2, Zenon

\* Induction up to a bound.
LEMMA IntervalInduction ==
    ASSUME NEW n \in Nat, NEW S, 0 \in S,
           \A k \in 0 .. n : k \in S /\ k < n => k + 1 \in S
    PROVE  0 .. n \subseteq S
<1> DEFINE out == {k \in 0 .. n : k \notin S}
<1>1. SUFFICES ASSUME out # {}
               PROVE  FALSE
  BY Zenon
<1>2. PICK k \in out : \A j \in out : k <= j
  <2>1. out \subseteq Nat
    OBVIOUS
  <2> HIDE DEF out
  <2> QED
    BY <2>1, <1>1, LeastNumber, Zenon
<1>3. k # 0 /\ k - 1 \in 0 .. n /\ k - 1 < n
  BY <1>2
<1>4. k - 1 \in S
  BY <1>2, <1>3
<1>5. (k - 1) + 1 \in S
  BY <1>3, <1>4, Zenon
<1>6. (k - 1) + 1 = k
  BY <1>2
<1> QED
  BY <1>2, <1>5, <1>6, Zenon

\* f is the function that is a at 0 and g[k] of its previous value at k.
Recursive(f, n, A, a, g) ==
    /\ f \in [0 .. n -> A]
    /\ f[0] = a
    /\ \A k \in 1 .. n : f[k] = g[k][f[k - 1]]

\* A function can be defined by recursion up to a bound.
LEMMA RecursionUpTo ==
    ASSUME NEW n \in Nat, NEW A, NEW a \in A, NEW g \in [1 .. n -> [A -> A]]
    PROVE  \E f : Recursive(f, n, A, a, g)
<1> DEFINE Fits(m, f) == f[0] = a /\ \A k \in 1 .. m : f[k] = g[k][f[k - 1]]
           S == {m \in 0 .. n : \E f \in [0 .. m -> A] : Fits(m, f)}
<1>1. 0 \in S
  <2> DEFINE f == [k \in 0 .. 0 |-> a]
  <2>1. f \in [0 .. 0 -> A] /\ f[0] = a
    OBVIOUS
  <2>2. \A k \in 1 .. 0 : FALSE
    OBVIOUS
  <2> HIDE DEF f
  <2>3. Fits(0, f)
    BY <2>1, <2>2, Zenon
  <2> QED
    BY <2>1, <2>3
<1>2. ASSUME NEW m \in 0 .. n, m \in S, m < n
      PROVE  m + 1 \in S
  <2>1. PICK f \in [0 .. m -> A] : Fits(m, f)
    BY <1>2, Zenon
  <2> DEFINE h == [k \in 0 .. m + 1 |-> IF k <= m THEN f[k] ELSE g[m + 1][f[m]]]
  <2>2. m \in Nat /\ m + 1 \in 1 .. n /\ m + 1 \in 0 .. n /\ f[m] \in A
    BY <1>2
  <2>3. g[m + 1] \in [A -> A]
    BY <2>2, Zenon
  <2>4. g[m + 1][f[m]] \in A
    BY <2>2, <2>3, Zenon
  <2>5. h \in [0 .. m + 1 -> A]
    BY <2>4, <2>2
  <2>6. h[0] = a
    BY <2>1, <2>2
  <2>7. ASSUME NEW k \in 1 .. m + 1
        PROVE  h[k] = g[k][h[k - 1]]
    <3>1. h[k - 1] = f[k - 1]
      BY <2>2, <2>7
    <3>2. CASE k <= m
      <4>1. k \in 1 .. m /\ h[k] = f[k]
        BY <3>2, <2>2, <2>7
      <4> QED
        BY <4>1, <3>1, <2>1, Zenon
    <3>3. CASE ~ (k <= m)
      <4>1. k = m + 1 /\ k - 1 = m
        BY <3>3, <2>2, <2>7
      <4>2. h[k] = g[m + 1][f[m]]
        BY <3>3, <2>7
      <4> QED
        BY <4>1, <4>2, <3>1, Zenon
    <3> QED
      BY <3>2, <3>3, Zenon
  <2> HIDE DEF h
  <2>8. Fits(m + 1, h)
    BY <2>6, <2>7, Zenon
  <2> QED
    BY <2>2, <2>5, <2>8, Zenon
<1>3. 0 .. n \subseteq S
  <2> HIDE DEF S
  <2> QED
    BY <1>1, <1>2, IntervalInduction, Zenon
<1>4. n \in S
  BY <1>3
<1> QED
  BY <1>4, Zenon DEF Recursive

-----------------------------------------------------------------------------
(* The resistances along a chain.                                          *)

\* No chain has more steps than there are nets.
C == Cardinality(Nets)

LEMMA CountIsNat == C \in Nat
BY NetsAssumption, FS_CardinalityType, Zenon DEF C

LEMMA AddResistanceType ==
    ASSUME NEW a \in Nat, NEW b \in Nat
    PROVE  AddResistance(a, b) \in Nat /\ AddResistance(a, b) <= MAX_RESISTANCE
BY MaxAssumption DEF AddResistance

\* The order in which the resistances of a chain are added makes no difference.
LEMMA AddResistanceAssociates ==
    ASSUME NEW a \in Nat, NEW b \in Nat, NEW c \in Nat
    PROVE  AddResistance(AddResistance(a, b), c) = AddResistance(a, AddResistance(b, c))
BY MaxAssumption DEF AddResistance

-----------------------------------------------------------------------------
(* The walk along a chain.                                                 *)

Chains(v) == v.nextNetId \in [Nets -> Nets] /\ v.resistance \in [Nets -> Nat]

Step == [net : Nets, sum : Nat]

NextStep(v, p) ==
    IF IsTerminal(v, p.net) THEN p
    ELSE [net |-> v.nextNetId[p.net], sum |-> AddResistance(p.sum, v.resistance[p.net])]

Steps(v, n, s) ==
    /\ s \in [0 .. C -> Step]
    /\ s[0] = [net |-> n, sum |-> 0]
    /\ \A k \in 1 .. C : s[k] = NextStep(v, s[k - 1])

LEMMA NextStepType ==
    ASSUME NEW v, Chains(v), NEW p \in Step
    PROVE  NextStep(v, p) \in Step
<1>1. p.net \in Nets /\ p.sum \in Nat
  BY Zenon DEF Step
<1>2. v.nextNetId[p.net] \in Nets /\ v.resistance[p.net] \in Nat
  BY <1>1, Zenon DEF Chains
<1>3. AddResistance(p.sum, v.resistance[p.net]) \in Nat
  BY <1>1, <1>2, AddResistanceType, Zenon
<1> QED
  BY <1>2, <1>3, Zenon DEF NextStep, Step

LEMMA WalkSteps ==
    ASSUME NEW v, Chains(v), NEW n \in Nets
    PROVE  \E s : /\ Steps(v, n, s)
                  /\ Walk(v, n) = [net |-> s[C].net,
                                   sum |-> AddResistance(s[C].sum, v.resistance[s[C].net])]
<1> DEFINE step[k \in 0 .. Cardinality(Nets)] ==
            IF k = 0 THEN [net |-> n, sum |-> 0]
            ELSE LET p == step[k - 1]
                 IN  IF IsTerminal(v, p.net) THEN p
                     ELSE [net |-> v.nextNetId[p.net],
                           sum |-> AddResistance(p.sum, v.resistance[p.net])]
<1>1. Walk(v, n) = [net |-> step[C].net,
                    sum |-> AddResistance(step[C].sum, v.resistance[step[C].net])]
  BY Zenon DEF Walk, C
<1> DEFINE body(f) == [k \in 0 .. Cardinality(Nets) |->
                          IF k = 0 THEN [net |-> n, sum |-> 0]
                          ELSE LET p == f[k - 1]
                               IN  IF IsTerminal(v, p.net) THEN p
                                   ELSE [net |-> v.nextNetId[p.net],
                                         sum |-> AddResistance(p.sum, v.resistance[p.net])]]
<1>2. \E f : f = body(f) /\ Steps(v, n, f)
  <2> DEFINE g == [k \in 1 .. C |-> [p \in Step |-> NextStep(v, p)]]
             a == [net |-> n, sum |-> 0]
  <2>1. g \in [1 .. C -> [Step -> Step]]
    BY NextStepType, Zenon
  <2>2. a \in Step
    BY Zenon DEF Step
  <2>3. PICK f \in [0 .. C -> Step] :
           f[0] = a /\ \A k \in 1 .. C : f[k] = g[k][f[k - 1]]
    <3> HIDE DEF g, a
    <3>1. \E f : Recursive(f, C, Step, a, g)
      BY <2>1, <2>2, CountIsNat, RecursionUpTo, Zenon
    <3> QED
      BY <3>1, Zenon DEF Recursive
  <2>4. ASSUME NEW k \in 1 .. C
        PROVE  f[k] = NextStep(v, f[k - 1])
    <3>1. f[k - 1] \in Step
      BY CountIsNat
    <3>2. g[k][f[k - 1]] = NextStep(v, f[k - 1])
      BY <3>1, Zenon
    <3> QED
      BY <2>3, <3>2, Zenon
  <2>5. Steps(v, n, f)
    BY <2>3, <2>4, Zenon DEF Steps
  <2>6. ASSUME NEW k \in 0 .. C
        PROVE  f[k] = body(f)[k]
    <3>1. CASE k = 0
      BY <3>1, <2>3, Zenon DEF C
    <3>2. CASE k # 0
      <4>1. k \in 1 .. C
        BY <3>2, CountIsNat
      <4>2. f[k] = NextStep(v, f[k - 1])
        BY <4>1, <2>4, Zenon
      <4> QED
        BY <4>2, <3>2, Zenon DEF NextStep, C
    <3> QED
      BY <3>1, <3>2, Zenon
  <2>7. f = body(f)
    BY <2>3, <2>6, Zenon DEF C
  <2> QED
    BY <2>5, <2>7, Zenon
<1>3. step = body(step)
  <2>1. step = CHOOSE f : f = body(f)
    BY Zenon
  <2>2. \E f : f = body(f)
    BY <1>2, Zenon
  <2> HIDE DEF step, body
  <2> QED
    BY <2>1, <2>2, Zenon
<1>4. /\ step[0] = [net |-> n, sum |-> 0]
      /\ \A k \in 1 .. C : step[k] = NextStep(v, step[k - 1])
  <2> HIDE DEF step
  <2>1. 0 \in 0 .. C
    BY CountIsNat
  <2>2. ASSUME NEW k \in 0 .. C
        PROVE  step[k] = body(step)[k]
    BY <1>3, Zenon
  <2>3. step[0] = [net |-> n, sum |-> 0]
    BY <2>1, <2>2, Zenon DEF C
  <2>4. ASSUME NEW k \in 1 .. C
        PROVE  step[k] = NextStep(v, step[k - 1])
    <3>1. k \in 0 .. C /\ k # 0
      BY CountIsNat
    <3>2. step[k] = body(step)[k]
      BY <3>1, <2>2, Zenon
    <3> QED
      BY <3>1, <3>2, Zenon DEF NextStep, C
  <2> QED
    BY <2>3, <2>4, Zenon
<1>5. step \in [0 .. C -> Step]
  <2> DEFINE S == {k \in 0 .. C : step[k] \in Step}
  <2> HIDE DEF step
  <2>1. 0 \in S
    BY <1>4, CountIsNat DEF Step
  <2>2. ASSUME NEW k \in 0 .. C, k \in S, k < C
        PROVE  k + 1 \in S
    <3>1. k + 1 \in 1 .. C /\ k + 1 \in 0 .. C /\ (k + 1) - 1 = k
      BY <2>2, CountIsNat
    <3>2. step[k + 1] = NextStep(v, step[k])
      BY <3>1, <1>4, Zenon
    <3> QED
      BY <3>1, <3>2, <2>2, NextStepType, Zenon
  <2>3. 0 .. C \subseteq S
    <3> HIDE DEF S
    <3> QED
      BY <2>1, <2>2, CountIsNat, IntervalInduction, Zenon
  <2>4. step = [k \in 0 .. C |-> step[k]]
    BY <1>3, Zenon DEF C
  <2> QED
    BY <2>3, <2>4, Zenon
<1>6. Steps(v, n, step)
  <2> HIDE DEF step
  <2> QED
    BY <1>4, <1>5, Zenon DEF Steps
<1> QED
  BY <1>1, <1>6, Zenon

LEMMA WalkType ==
    ASSUME NEW v, Chains(v), NEW n \in Nets
    PROVE  /\ Walk(v, n).net \in Nets
           /\ Walk(v, n).sum \in Nat /\ Walk(v, n).sum <= MAX_RESISTANCE
           /\ Walk(v, n) = [net |-> Walk(v, n).net, sum |-> Walk(v, n).sum]
<1>1. PICK s : /\ Steps(v, n, s)
               /\ Walk(v, n) = [net |-> s[C].net,
                                sum |-> AddResistance(s[C].sum, v.resistance[s[C].net])]
  BY WalkSteps, Zenon
<1>2. s[C] \in Step
  BY <1>1, CountIsNat DEF Steps
<1>3. s[C].net \in Nets /\ s[C].sum \in Nat
  BY <1>2, Zenon DEF Step
<1>4. v.resistance[s[C].net] \in Nat
  BY <1>3, Zenon DEF Chains
<1>5. /\ AddResistance(s[C].sum, v.resistance[s[C].net]) \in Nat
      /\ AddResistance(s[C].sum, v.resistance[s[C].net]) <= MAX_RESISTANCE
  BY <1>3, <1>4, AddResistanceType, Zenon
<1> QED
  BY <1>1, <1>3, <1>5

LEMMA WalkTerminal ==
    ASSUME NEW v, Chains(v), NEW n \in Nets, IsTerminal(v, n)
    PROVE  Walk(v, n) = [net |-> n, sum |-> AddResistance(0, v.resistance[n])]
<1>1. PICK s : /\ Steps(v, n, s)
               /\ Walk(v, n) = [net |-> s[C].net,
                                sum |-> AddResistance(s[C].sum, v.resistance[s[C].net])]
  BY WalkSteps, Zenon
<1> DEFINE S == {k \in 0 .. C : s[k] = [net |-> n, sum |-> 0]}
<1>2. 0 \in S
  BY <1>1, CountIsNat DEF Steps
<1>3. ASSUME NEW k \in 0 .. C, k \in S, k < C
      PROVE  k + 1 \in S
  <2>1. k + 1 \in 1 .. C /\ k + 1 \in 0 .. C /\ (k + 1) - 1 = k
    BY <1>3, CountIsNat
  <2>2. s[k + 1] = NextStep(v, s[k])
    BY <1>1, <2>1, Zenon DEF Steps
  <2>3. NextStep(v, s[k]) = s[k]
    BY <1>3 DEF NextStep
  <2> QED
    BY <1>3, <2>1, <2>2, <2>3, Zenon
<1>4. 0 .. C \subseteq S
  <2> HIDE DEF S
  <2> QED
    BY <1>2, <1>3, CountIsNat, IntervalInduction, Zenon
<1>5. s[C] = [net |-> n, sum |-> 0]
  BY <1>4, CountIsNat
<1> QED
  BY <1>1, <1>5

-----------------------------------------------------------------------------
(* Chains without loops.                                                   *)

\* The ranks of the nets go down along every chain.
Ranked(v, rank) ==
    /\ rank \in [Nets -> Nat]
    /\ \A n \in Nets : ~IsTerminal(v, n) => rank[v.nextNetId[n]] < rank[n]

Acyclic(v) == \E rank : Ranked(v, rank)

\* The walk that does not stop visits different nets.
LEMMA StepsGoDown ==
    ASSUME NEW v, Chains(v), NEW rank, Ranked(v, rank), NEW n \in Nets,
           NEW s, Steps(v, n, s), ~IsTerminal(v, s[C].net)
    PROVE  \A j \in 0 .. C : \A i \in 0 .. j - 1 : rank[s[j].net] < rank[s[i].net]
<1>1. ASSUME NEW k \in 0 .. C
      PROVE  s[k] \in Step /\ s[k].net \in Nets /\ rank[s[k].net] \in Nat
  <2>1. s[k] \in Step
    BY Zenon DEF Steps
  <2>2. s[k].net \in Nets
    BY <2>1, Zenon DEF Step
  <2> QED
    BY <2>1, <2>2, Zenon DEF Ranked
\* A step that stops the walk stops it for good.
<1>2. ASSUME NEW k \in 0 .. C, IsTerminal(v, s[k].net)
      PROVE  FALSE
  <2> DEFINE T == {i \in 0 .. C : i >= k => s[i] = s[k]}
  <2>1. 0 \in T
    BY CountIsNat
  <2>2. ASSUME NEW i \in 0 .. C, i \in T, i < C
        PROVE  i + 1 \in T
    <3>1. i + 1 \in 1 .. C /\ i + 1 \in 0 .. C /\ (i + 1) - 1 = i
      BY <2>2, CountIsNat
    <3>2. s[i + 1] = NextStep(v, s[i])
      BY <3>1, Zenon DEF Steps
    <3>3. CASE i >= k
      <4>1. s[i] = s[k]
        BY <2>2, <3>3, Zenon
      <4>2. NextStep(v, s[i]) = s[k]
        BY <4>1, <1>2, Zenon DEF NextStep
      <4> QED
        BY <3>1, <3>2, <4>2, Zenon
    <3>4. CASE ~ (i >= k)
      <4>1. i + 1 >= k => i + 1 = k
        BY <3>4, <3>1, CountIsNat
      <4> QED
        BY <3>1, <4>1, Zenon
    <3> QED
      BY <3>3, <3>4, Zenon
  <2>3. 0 .. C \subseteq T
    <3> HIDE DEF T
    <3> QED
      BY <2>1, <2>2, CountIsNat, IntervalInduction, Zenon
  <2>4. C \in T /\ C >= k
    BY <2>3, CountIsNat
  <2> QED
    BY <2>4, <1>2, Zenon
<1> DEFINE S == {j \in 0 .. C : \A i \in 0 .. j - 1 : rank[s[j].net] < rank[s[i].net]}
<1>3. 0 \in S
  BY CountIsNat
<1>4. ASSUME NEW j \in 0 .. C, j \in S, j < C
      PROVE  j + 1 \in S
  <2>1. j + 1 \in 1 .. C /\ j + 1 \in 0 .. C /\ (j + 1) - 1 = j
    BY <1>4, CountIsNat
  <2>2. s[j + 1] = NextStep(v, s[j])
    BY <2>1, Zenon DEF Steps
  <2>3. s[j + 1].net = v.nextNetId[s[j].net]
    BY <1>2, <2>2 DEF NextStep
  <2>4. rank[s[j + 1].net] < rank[s[j].net]
    BY <1>1, <1>2, <2>3, Zenon DEF Ranked
  <2>5. ASSUME NEW i \in 0 .. j
        PROVE  rank[s[j + 1].net] < rank[s[i].net]
    <3>1. i \in 0 .. C /\ (i = j \/ i \in 0 .. j - 1)
      BY CountIsNat
    <3>2. CASE i = j
      BY <3>2, <2>4, Zenon
    <3>3. CASE i \in 0 .. j - 1
      <4>1. rank[s[j].net] < rank[s[i].net]
        BY <3>3, <1>4, Zenon
      <4>2. rank[s[j + 1].net] \in Nat /\ rank[s[j].net] \in Nat /\ rank[s[i].net] \in Nat
        BY <1>1, <2>1, <3>1, Zenon
      <4> QED
        BY <4>1, <4>2, <2>4
    <3> QED
      BY <3>1, <3>2, <3>3, Zenon
  <2> QED
    BY <2>1, <2>5, Zenon
<1>5. 0 .. C \subseteq S
  <2> HIDE DEF S
  <2> QED
    BY <1>3, <1>4, CountIsNat, IntervalInduction, Zenon
<1> QED
  BY <1>5, Zenon

\* The walk reaches the end of a chain.
LEMMA StepsEnd ==
    ASSUME NEW v, Chains(v), NEW rank, Ranked(v, rank), NEW n \in Nets,
           NEW s, Steps(v, n, s)
    PROVE  IsTerminal(v, s[C].net)
<1> SUFFICES ASSUME ~IsTerminal(v, s[C].net)
             PROVE  FALSE
  BY Zenon
<1> DEFINE f == [k \in 0 .. C |-> s[k].net]
<1>1. ASSUME NEW k \in 0 .. C
      PROVE  f[k] = s[k].net /\ s[k].net \in Nets /\ rank[s[k].net] \in Nat
  <2>1. s[k] \in Step
    BY Zenon DEF Steps
  <2>2. s[k].net \in Nets
    BY <2>1, Zenon DEF Step
  <2> QED
    BY <2>2, Zenon DEF Ranked
<1>2. f \in [0 .. C -> Nets]
  BY <1>1, Zenon
<1> HIDE DEF f
<1>3. IsFiniteSet(0 .. C) /\ Cardinality(0 .. C) = C + 1
  BY CountIsNat, FS_Interval
<1>4. PICK x \in 0 .. C, y \in 0 .. C : x # y /\ f[x] = f[y]
  <2>1. Cardinality(Nets) < Cardinality(0 .. C)
    BY <1>3, CountIsNat DEF C
  <2> QED
    BY <1>2, <1>3, <2>1, NetsAssumption, FS_PigeonHole, Zenon
<1>5. rank[s[x].net] = rank[s[y].net]
  BY <1>1, <1>4, Zenon
<1>6. x \in 0 .. y - 1 \/ y \in 0 .. x - 1
  BY <1>4, CountIsNat
<1>7. rank[s[y].net] < rank[s[x].net] \/ rank[s[x].net] < rank[s[y].net]
  BY <1>6, StepsGoDown, Zenon
<1> QED
  BY <1>1, <1>5, <1>7

LEMMA WalkEnds ==
    ASSUME NEW v, Chains(v), Acyclic(v), NEW n \in Nets
    PROVE  IsTerminal(v, Walk(v, n).net)
<1>1. PICK s : /\ Steps(v, n, s)
               /\ Walk(v, n) = [net |-> s[C].net,
                                sum |-> AddResistance(s[C].sum, v.resistance[s[C].net])]
  BY WalkSteps, Zenon
<1>2. IsTerminal(v, s[C].net)
  BY <1>1, StepsEnd, Zenon DEF Acyclic
<1> QED
  BY <1>1, <1>2

\* The walk of the next net of n is that of n without its first step.
LEMMA StepsShift ==
    ASSUME NEW v, Chains(v), NEW n \in Nets, ~IsTerminal(v, n),
           NEW s, Steps(v, n, s), NEW t, Steps(v, v.nextNetId[n], t)
    PROVE  \A k \in 0 .. C - 1 : /\ s[k + 1].net = t[k].net
                                 /\ s[k + 1].sum = AddResistance(v.resistance[n], t[k].sum)
<1> DEFINE m == v.nextNetId[n]
           r == v.resistance[n]
           Shifted(k) == /\ s[k + 1].net = t[k].net
                         /\ s[k + 1].sum = AddResistance(r, t[k].sum)
           S == {k \in 0 .. C - 1 : Shifted(k)}
<1>1. m \in Nets /\ r \in Nat
  BY Zenon DEF Chains
<1>2. Steps(v, m, t)
  BY Zenon
<1> HIDE DEF m, r
<1>3. ASSUME NEW k \in 0 .. C
      PROVE  t[k].net \in Nets /\ t[k].sum \in Nat /\ v.resistance[t[k].net] \in Nat
  <2>1. t[k] \in Step
    BY <1>2, Zenon DEF Steps
  <2>2. t[k].net \in Nets /\ t[k].sum \in Nat
    BY <2>1, Zenon DEF Step
  <2> QED
    BY <2>2, Zenon DEF Chains
<1>4. C - 1 \in Nat
  <2>1. C # 0
    BY NetsAssumption, FS_EmptySet, Zenon DEF C
  <2> QED
    BY <2>1, CountIsNat
<1>5. 0 \in S
  <2>1. 0 \in 0 .. C - 1 /\ 1 \in 1 .. C /\ 0 + 1 = 1 /\ 1 - 1 = 0
    BY CountIsNat, <1>4
  <2>2. s[1] = NextStep(v, s[0])
    BY <2>1, Zenon DEF Steps
  <2>3. s[0] = [net |-> n, sum |-> 0] /\ t[0] = [net |-> m, sum |-> 0]
    BY <1>2, Zenon DEF Steps
  <2>4. s[1] = [net |-> m, sum |-> AddResistance(0, r)]
    BY <2>2, <2>3 DEF NextStep, m, r
  <2>5. AddResistance(0, r) = AddResistance(r, 0)
    BY <1>1 DEF AddResistance
  <2>6. s[0 + 1].net = t[0].net /\ s[0 + 1].sum = AddResistance(r, t[0].sum)
    BY <2>1, <2>3, <2>4, <2>5
  <2> QED
    BY <2>1, <2>6, Zenon
<1>6. ASSUME NEW k \in 0 .. C - 1, k \in S, k < C - 1
      PROVE  k + 1 \in S
  <2>1. /\ k \in 0 .. C /\ k + 1 \in 0 .. C - 1 /\ k + 1 \in 1 .. C /\ k + 2 \in 1 .. C
        /\ (k + 2) - 1 = k + 1 /\ (k + 1) - 1 = k /\ (k + 1) + 1 = k + 2
    BY CountIsNat, <1>4, <1>6
  <2>2. s[k + 2] = NextStep(v, s[k + 1]) /\ t[k + 1] = NextStep(v, t[k])
    BY <1>2, <2>1, Zenon DEF Steps
  <2>3. s[k + 1].net = t[k].net /\ s[k + 1].sum = AddResistance(r, t[k].sum)
    BY <1>6, Zenon
  <2>4. CASE IsTerminal(v, t[k].net)
    <3>1. s[k + 2] = s[k + 1] /\ t[k + 1] = t[k]
      BY <2>2, <2>3, <2>4, Zenon DEF NextStep
    <3>2. Shifted(k + 1)
      BY <3>1, <2>1, <2>3, Zenon
    <3> QED
      BY <2>1, <3>2, Zenon
  <2>5. CASE ~IsTerminal(v, t[k].net)
    <3> DEFINE q == v.resistance[t[k].net]
    <3>1. s[k + 2] = [net |-> v.nextNetId[t[k].net], sum |-> AddResistance(s[k + 1].sum, q)]
      BY <2>2, <2>3, <2>5, Zenon DEF NextStep
    <3>2. t[k + 1] = [net |-> v.nextNetId[t[k].net], sum |-> AddResistance(t[k].sum, q)]
      BY <2>2, <2>5, Zenon DEF NextStep
    <3>3. t[k].sum \in Nat /\ q \in Nat
      BY <1>3, <2>1, Zenon
    <3> HIDE DEF q
    <3>4. AddResistance(AddResistance(r, t[k].sum), q)
             = AddResistance(r, AddResistance(t[k].sum, q))
      BY <1>1, <3>3, AddResistanceAssociates, Zenon
    <3>5. Shifted(k + 1)
      BY <3>1, <3>2, <3>4, <2>1, <2>3
    <3> QED
      BY <2>1, <3>5, Zenon
  <2> QED
    BY <2>4, <2>5, Zenon
<1>7. 0 .. C - 1 \subseteq S
  <2> HIDE DEF S
  <2> QED
    BY <1>4, <1>5, <1>6, IntervalInduction, Zenon
<1> QED
  BY <1>7, Zenon DEF r

\* The end of a chain is the end of the chain of the next net.
LEMMA WalkStep ==
    ASSUME NEW v, Chains(v), Acyclic(v), NEW n \in Nets, ~IsTerminal(v, n)
    PROVE  /\ v.nextNetId[n] \in Nets
           /\ Walk(v, n).net = Walk(v, v.nextNetId[n]).net
           /\ Walk(v, n).sum = AddResistance(v.resistance[n], Walk(v, v.nextNetId[n]).sum)
<1> DEFINE m == v.nextNetId[n]
           r == v.resistance[n]
<1>1. m \in Nets /\ r \in Nat
  BY Zenon DEF Chains
<1>2. PICK s : /\ Steps(v, n, s)
               /\ Walk(v, n) = [net |-> s[C].net,
                                sum |-> AddResistance(s[C].sum, v.resistance[s[C].net])]
  BY WalkSteps, Zenon
<1>3. PICK t : /\ Steps(v, m, t)
               /\ Walk(v, m) = [net |-> t[C].net,
                                sum |-> AddResistance(t[C].sum, v.resistance[t[C].net])]
  BY <1>1, WalkSteps, Zenon
<1>4. C - 1 \in 0 .. C - 1 /\ (C - 1) + 1 = C /\ C \in 1 .. C /\ C \in 0 .. C
  <2>1. C # 0
    BY NetsAssumption, FS_EmptySet, Zenon DEF C
  <2> QED
    BY <2>1, CountIsNat
<1>5. s[C].net = t[C - 1].net /\ s[C].sum = AddResistance(r, t[C - 1].sum)
  BY <1>2, <1>3, <1>4, StepsShift
<1> HIDE DEF m, r
<1>6. t[C].net \in Nets /\ t[C].sum \in Nat /\ v.resistance[t[C].net] \in Nat
  <2>1. t[C] \in Step
    BY <1>3, <1>4, Zenon DEF Steps
  <2>2. t[C].net \in Nets /\ t[C].sum \in Nat
    BY <2>1, Zenon DEF Step
  <2> QED
    BY <2>2, Zenon DEF Chains
<1>7. t[C] = t[C - 1]
  <2>1. IsTerminal(v, t[C - 1].net)
    BY <1>2, <1>5, StepsEnd, Zenon DEF Acyclic
  <2>2. t[C] = NextStep(v, t[C - 1])
    BY <1>3, <1>4, Zenon DEF Steps
  <2> QED
    BY <2>1, <2>2, Zenon DEF NextStep
<1>8. AddResistance(AddResistance(r, t[C].sum), v.resistance[t[C].net])
         = AddResistance(r, AddResistance(t[C].sum, v.resistance[t[C].net]))
  BY <1>1, <1>6, AddResistanceAssociates, Zenon
<1>9. /\ Walk(v, n).net = Walk(v, m).net
      /\ Walk(v, n).sum = AddResistance(r, Walk(v, m).sum)
  BY <1>2, <1>3, <1>5, <1>7, <1>8
<1> QED
  BY <1>1, <1>9, Zenon DEF m, r

\* Chains that all end have ranks: the number of steps to the end.
LEMMA EndedIsAcyclic ==
    ASSUME NEW v, Chains(v), \A n \in Nets : IsTerminal(v, Walk(v, n).net)
    PROVE  Acyclic(v)
<1> DEFINE Fits(n, t) == Steps(v, n, t) /\ Walk(v, n).net = t[C].net
           s(n) == CHOOSE t : Fits(n, t)
           stops(n) == {k \in 0 .. C : IsTerminal(v, s(n)[k].net)}
           Least(n, k) == k \in stops(n) /\ \A j \in stops(n) : k <= j
           rank == [n \in Nets |-> CHOOSE k : Least(n, k)]
<1>1. ASSUME NEW n \in Nets
      PROVE  Steps(v, n, s(n)) /\ Walk(v, n).net = s(n)[C].net
  <2>1. \E t : Fits(n, t)
    BY WalkSteps
  <2> QED
    BY <2>1, Zenon
<1> HIDE DEF s
<1>2. ASSUME NEW n \in Nets
      PROVE  rank[n] \in stops(n) /\ \A j \in stops(n) : rank[n] <= j
  <2>1. stops(n) # {} /\ stops(n) \subseteq Nat
    BY <1>1, CountIsNat
  <2>2. \E k : Least(n, k)
    <3> HIDE DEF stops
    <3> QED
      BY <2>1, LeastNumber, Zenon
  <2>3. Least(n, CHOOSE k : Least(n, k))
    <3> HIDE DEF Least
    <3> QED
      BY <2>2, Zenon
  <2> QED
    BY <2>3, Zenon
<1> HIDE DEF rank
<1>3. ASSUME NEW n \in Nets
      PROVE  rank[n] \in Nat /\ rank[n] \in 0 .. C
  BY <1>2, CountIsNat
<1>4. ASSUME NEW n \in Nets, ~IsTerminal(v, n)
      PROVE  rank[v.nextNetId[n]] < rank[n]
  <2> DEFINE m == v.nextNetId[n]
             k == rank[n]
  <2>1. m \in Nets
    BY Zenon DEF Chains
  <2>2. k # 0
    <3>1. Steps(v, n, s(n))
      BY <1>1, Zenon
    <3>2. s(n)[0] = [net |-> n, sum |-> 0]
      BY <3>1, Zenon DEF Steps
    <3>3. s(n)[0].net = n
      BY <3>2
    <3> QED
      BY <3>3, <1>2, <1>4, Zenon
  <2>3. k - 1 \in 0 .. C - 1 /\ (k - 1) + 1 = k /\ k - 1 \in 0 .. C
    BY <1>3, <2>2, CountIsNat
  <2>4. s(n)[k].net = s(m)[k - 1].net
    <3>1. Steps(v, n, s(n)) /\ Steps(v, m, s(m))
      BY <1>1, <2>1, Zenon
    <3>2. s(n)[(k - 1) + 1].net = s(m)[k - 1].net
      BY <1>4, <2>3, <3>1, StepsShift
    <3> QED
      BY <3>2, <2>3, Zenon
  <2>5. IsTerminal(v, s(n)[k].net)
    BY <1>2, Zenon
  <2>6. k - 1 \in stops(m)
    BY <2>3, <2>4, <2>5, Zenon
  <2>7. rank[m] <= k - 1
    BY <1>2, <2>1, <2>6, Zenon
  <2> QED
    BY <2>1, <2>7, <1>3
<1>5. Ranked(v, rank)
  <2>1. rank = [n \in Nets |-> rank[n]]
    BY DEF rank
  <2> QED
    BY <1>3, <1>4, <2>1, Zenon DEF Ranked
<1> QED
  BY <1>5, Zenon DEF Acyclic

\* Two vectors have the same walks where they have the same links.
LEMMA WalkSame ==
    ASSUME NEW v, Chains(v), Acyclic(v), NEW u, Chains(u), Acyclic(u),
           NEW S \in SUBSET Nets,
           \A x \in S : /\ u.nextNetId[x] = v.nextNetId[x]
                        /\ u.resistance[x] = v.resistance[x]
                        /\ v.nextNetId[x] \in S
    PROVE  \A x \in S : Walk(u, x) = Walk(v, x)
<1> DEFINE apart == {x \in S : Walk(u, x) # Walk(v, x)}
<1>1. SUFFICES ASSUME apart # {}
               PROVE  FALSE
  BY Zenon
<1>2. PICK rank : Ranked(v, rank)
  BY Zenon DEF Acyclic
<1>3. \A x \in apart : rank[x] \in Nat
  BY <1>2, Zenon DEF Ranked
<1>4. PICK x \in apart : \A y \in apart : rank[x] <= rank[y]
  <2> HIDE DEF apart
  <2> QED
    BY <1>1, <1>3, LeastRank, Zenon
<1>5. x \in S /\ x \in Nets /\ Walk(u, x) # Walk(v, x)
  BY <1>4, Zenon
<1>6. CASE IsTerminal(v, x)
  <2>1. IsTerminal(u, x)
    BY <1>5, <1>6, Zenon DEF IsTerminal
  <2>2. u.resistance[x] = v.resistance[x]
    BY <1>5, Zenon
  <2>3. Walk(v, x) = [net |-> x, sum |-> AddResistance(0, v.resistance[x])]
    BY <1>5, <1>6, WalkTerminal, Zenon
  <2>4. Walk(u, x) = [net |-> x, sum |-> AddResistance(0, u.resistance[x])]
    BY <1>5, <2>1, WalkTerminal, Zenon
  <2> QED
    BY <1>5, <2>2, <2>3, <2>4, Zenon
<1>7. CASE ~IsTerminal(v, x)
  <2> DEFINE y == v.nextNetId[x]
  <2>1. ~IsTerminal(u, x) /\ u.nextNetId[x] = y /\ u.resistance[x] = v.resistance[x] /\ y \in S
    BY <1>5, <1>7, Zenon DEF IsTerminal
  <2>2. rank[y] < rank[x]
    BY <1>2, <1>5, <1>7, Zenon DEF Ranked
  <2>3. rank[y] \in Nat /\ rank[x] \in Nat
    BY <1>2, <1>5, <2>1, Zenon DEF Ranked
  <2>4. y \notin apart
    BY <1>4, <2>2, <2>3
  <2>5. Walk(u, y) = Walk(v, y)
    BY <2>1, <2>4, Zenon
  <2>6. /\ Walk(v, x).net = Walk(v, y).net
        /\ Walk(v, x).sum = AddResistance(v.resistance[x], Walk(v, y).sum)
    BY <1>5, <1>7, WalkStep, Zenon
  <2>7. /\ Walk(u, x).net = Walk(u, y).net
        /\ Walk(u, x).sum = AddResistance(v.resistance[x], Walk(u, y).sum)
    BY <1>5, <2>1, WalkStep
  <2>8. /\ Walk(v, x) = [net |-> Walk(v, x).net, sum |-> Walk(v, x).sum]
        /\ Walk(u, x) = [net |-> Walk(u, x).net, sum |-> Walk(u, x).sum]
    BY <1>5, WalkType, Zenon
  <2> QED
    BY <1>5, <2>5, <2>6, <2>7, <2>8, Zenon
<1> QED
  BY <1>6, <1>7, Zenon

-----------------------------------------------------------------------------
(* A net gets another next net.                                            *)

\* The nets with n on their chains: every set that contains n, and the nets
\* that point into it, contains them.
Behind(v, n) ==
    {x \in Nets : \A S \in SUBSET Nets :
                     n \in S /\ (\A y \in Nets : v.nextNetId[y] \in S => y \in S) => x \in S}

LEMMA BehindCloses ==
    ASSUME NEW v, Chains(v), NEW n \in Nets
    PROVE  /\ n \in Behind(v, n)
           /\ \A y \in Nets : v.nextNetId[y] \in Behind(v, n) => y \in Behind(v, n)
           /\ \A x \in Behind(v, n) :
                 x # n => ~IsTerminal(v, x) /\ v.nextNetId[x] \in Behind(v, n)
<1> DEFINE B == Behind(v, n)
<1>1. n \in B /\ B \subseteq Nets
  BY Zenon DEF Behind
<1>2. ASSUME NEW y \in Nets, v.nextNetId[y] \in B
      PROVE  y \in B
  BY <1>2, Zenon DEF Behind
<1> DEFINE S == {n} \cup {y \in Nets : ~IsTerminal(v, y) /\ v.nextNetId[y] \in B}
<1>3. S \in SUBSET Nets /\ S \subseteq B
  BY <1>1, <1>2, Zenon
<1>4. ASSUME NEW y \in Nets, v.nextNetId[y] \in S
      PROVE  y \in S
  <2>1. v.nextNetId[y] \in B
    BY <1>3, <1>4, Zenon
  <2> QED
    BY <1>4, <2>1, Zenon DEF IsTerminal
<1>5. B \subseteq S
  <2>1. n \in S
    BY Zenon
  <2> HIDE DEF S
  <2> QED
    BY <1>3, <1>4, <2>1, Zenon DEF Behind
<1> QED
  BY <1>1, <1>2, <1>5, Zenon

\* The nets behind n have the end of n, at n's resistance or a larger one.
LEMMA BehindWalks ==
    ASSUME NEW v, Chains(v), Acyclic(v), NEW n \in Nets, NEW x \in Behind(v, n)
    PROVE  Walk(v, x).net = Walk(v, n).net /\ Walk(v, n).sum <= Walk(v, x).sum
<1> DEFINE S == {y \in Nets : Walk(v, y).net = Walk(v, n).net /\ Walk(v, n).sum <= Walk(v, y).sum}
<1>1. n \in S
  BY WalkType
<1>2. ASSUME NEW y \in Nets, v.nextNetId[y] \in S
      PROVE  y \in S
  <2>1. CASE IsTerminal(v, y)
    BY <1>2, <2>1, Zenon DEF IsTerminal
  <2>2. CASE ~IsTerminal(v, y)
    <3> DEFINE z == v.nextNetId[y]
    <3>1. /\ z \in Nets /\ Walk(v, y).net = Walk(v, z).net
          /\ Walk(v, y).sum = AddResistance(v.resistance[y], Walk(v, z).sum)
      BY <2>2, WalkStep, Zenon
    <3>2. Walk(v, z).net = Walk(v, n).net /\ Walk(v, n).sum <= Walk(v, z).sum
      BY <1>2, Zenon
    <3>3. v.resistance[y] \in Nat /\ Walk(v, z).sum \in Nat /\ Walk(v, n).sum \in Nat
      BY <3>1, WalkType, Zenon DEF Chains
    <3>4. Walk(v, z).sum <= MAX_RESISTANCE
      BY <3>1, WalkType, Zenon
    <3>5. Walk(v, n).sum <= Walk(v, y).sum
      BY <3>1, <3>2, <3>3, <3>4, MaxAssumption DEF AddResistance
    <3> QED
      BY <3>1, <3>2, <3>5, Zenon
  <2> QED
    BY <2>1, <2>2, Zenon
<1>3. S \in SUBSET Nets
  BY Zenon
<1>4. Behind(v, n) \subseteq S
  <2> HIDE DEF S
  <2> QED
    BY <1>1, <1>2, <1>3, Zenon DEF Behind
<1> QED
  BY <1>4, Zenon

Relinked(u, v, n, m, r) ==
    /\ u.nextNetId = [v.nextNetId EXCEPT ![n] = m]
    /\ u.resistance = [v.resistance EXCEPT ![n] = r]

\* No loop arises from a link from n to a net that is not behind n, and only
\* the walks of the nets behind n change.
LEMMA Relink ==
    ASSUME NEW v, Chains(v), Acyclic(v), NEW n \in Nets, NEW m \in Nets, NEW r \in Nat,
           NEW u, Relinked(u, v, n, m, r), m = n \/ m \notin Behind(v, n)
    PROVE  /\ Chains(u) /\ Acyclic(u)
           /\ \A x \in Nets \ Behind(v, n) : Walk(u, x) = Walk(v, x)
           /\ \A x \in Behind(v, n) : Walk(u, x).net = Walk(u, n).net
           /\ m = n => Walk(u, n).net = n /\ Walk(u, n).sum = AddResistance(0, r)
           /\ m # n => /\ Walk(u, n).net = Walk(v, m).net
                       /\ Walk(u, n).sum = AddResistance(r, Walk(v, m).sum)
<1> DEFINE B == Behind(v, n)
<1>1. Chains(u)
  BY DEF Chains, Relinked
<1>2. /\ u.nextNetId[n] = m /\ u.resistance[n] = r
      /\ \A x \in Nets : x # n => /\ u.nextNetId[x] = v.nextNetId[x]
                                  /\ u.resistance[x] = v.resistance[x]
  BY Zenon DEF Chains, Relinked
<1>3. /\ n \in B /\ B \subseteq Nets
      /\ \A y \in Nets : v.nextNetId[y] \in B => y \in B
      /\ \A x \in B : x # n => ~IsTerminal(v, x) /\ v.nextNetId[x] \in B
  BY BehindCloses, Zenon DEF Behind
<1> HIDE DEF B
<1>4. Acyclic(u)
  <2>1. PICK rank : Ranked(v, rank)
    BY Zenon DEF Acyclic
  <2> DEFINE up == [x \in Nets |-> IF x \in B THEN rank[x] + rank[m] + 1 ELSE rank[x]]
  <2>2. \A x \in Nets : rank[x] \in Nat
    BY <2>1, Zenon DEF Ranked
  <2>3. up \in [Nets -> Nat]
    BY <2>2
  <2>4. ASSUME NEW x \in Nets, ~IsTerminal(u, x)
        PROVE  up[u.nextNetId[x]] < up[x]
    <3> DEFINE y == v.nextNetId[x]
    <3>1. CASE x = n
      <4>1. m # n /\ m \notin B
        BY <3>1, <2>4, <1>2, Zenon DEF IsTerminal, B
      <4>2. up[m] = rank[m] /\ up[n] = rank[n] + rank[m] + 1
        BY <4>1, <1>3, Zenon
      <4> QED
        BY <3>1, <1>2, <2>2, <4>2
    <3>2. CASE x # n
      <4>1. y \in Nets /\ u.nextNetId[x] = y /\ ~IsTerminal(v, x)
        BY <3>2, <2>4, <1>2, Zenon DEF IsTerminal, Chains
      <4>2. rank[y] < rank[x]
        BY <4>1, <2>1, Zenon DEF Ranked
      <4>3. x \in B <=> y \in B
        BY <3>2, <4>1, <1>3, Zenon
      <4> HIDE DEF y
      <4>4. up[y] < up[x]
        BY <4>1, <4>2, <4>3, <2>2
      <4> QED
        BY <4>1, <4>4, Zenon
    <3> QED
      BY <3>1, <3>2, Zenon
  <2> HIDE DEF up
  <2> QED
    BY <2>3, <2>4, Zenon DEF Ranked, Acyclic
<1>5. ASSUME NEW x \in Nets \ B
      PROVE  Walk(u, x) = Walk(v, x)
  <2> DEFINE S == Nets \ B
  <2>1. S \in SUBSET Nets
    BY Zenon
  <2>2. ASSUME NEW y \in S
        PROVE  /\ u.nextNetId[y] = v.nextNetId[y]
               /\ u.resistance[y] = v.resistance[y]
               /\ v.nextNetId[y] \in S
    BY <1>2, <1>3 DEF Chains
  <2> HIDE DEF S
  <2>3. \A y \in S : Walk(u, y) = Walk(v, y)
    BY <2>1, <2>2, <1>1, <1>4, WalkSame
  <2> QED
    BY <2>3, Zenon DEF S
<1>6. ASSUME NEW x \in B
      PROVE  Walk(u, x).net = Walk(u, n).net
  <2> DEFINE S == {y \in Nets : Walk(u, y).net = Walk(u, n).net}
  <2>1. n \in S /\ S \in SUBSET Nets
    BY Zenon
  <2>2. ASSUME NEW y \in Nets, v.nextNetId[y] \in S
        PROVE  y \in S
    <3>1. CASE y = n
      BY <3>1, Zenon
    <3>2. CASE y # n /\ IsTerminal(v, y)
      BY <3>2, <2>2, Zenon DEF IsTerminal
    <3>3. CASE y # n /\ ~IsTerminal(v, y)
      <4>1. u.nextNetId[y] = v.nextNetId[y] /\ ~IsTerminal(u, y)
        BY <3>3, <1>2, Zenon DEF IsTerminal
      <4>2. Walk(u, y).net = Walk(u, v.nextNetId[y]).net
        BY <4>1, <1>1, <1>4, WalkStep
      <4> QED
        BY <2>2, <4>2, Zenon
    <3> QED
      BY <3>1, <3>2, <3>3, Zenon
  <2> HIDE DEF S
  <2>3. x \in S
    BY <2>1, <2>2, <1>6, Zenon DEF Behind, B
  <2> QED
    BY <2>3, Zenon DEF S
<1>7. CASE m = n
  <2>1. IsTerminal(u, n)
    BY <1>2, <1>7, Zenon DEF IsTerminal
  <2>2. Walk(u, n) = [net |-> n, sum |-> AddResistance(0, r)]
    BY <2>1, <1>1, <1>2, WalkTerminal, Zenon
  <2> QED
    BY <2>2, <1>1, <1>4, <1>5, <1>6, <1>7 DEF B
<1>8. CASE m # n
  <2>1. ~IsTerminal(u, n) /\ m \in Nets \ B
    BY <1>2, <1>8, Zenon DEF IsTerminal, B
  <2>2. /\ Walk(u, n).net = Walk(u, m).net
        /\ Walk(u, n).sum = AddResistance(r, Walk(u, m).sum)
    BY <2>1, <1>1, <1>2, <1>4, WalkStep, Zenon
  <2> QED
    BY <2>1, <2>2, <1>1, <1>4, <1>5, <1>6, <1>8, Zenon DEF B
<1> QED
  BY <1>7, <1>8, Zenon

\* A walk inside a set of nets that the chains do not leave, none of them an end,
\* does not end.
LEMMA ClosedNeverEnds ==
    ASSUME NEW v, Chains(v), NEW S \in SUBSET Nets, NEW n \in S,
           \A x \in S : ~IsTerminal(v, x) /\ v.nextNetId[x] \in S
    PROVE  ~IsTerminal(v, Walk(v, n).net)
<1>1. PICK s : /\ Steps(v, n, s)
               /\ Walk(v, n) = [net |-> s[C].net,
                                sum |-> AddResistance(s[C].sum, v.resistance[s[C].net])]
  BY WalkSteps, Zenon
<1> DEFINE T == {k \in 0 .. C : s[k].net \in S}
<1>2. 0 \in T
  BY <1>1, CountIsNat DEF Steps
<1>3. ASSUME NEW k \in 0 .. C, k \in T, k < C
      PROVE  k + 1 \in T
  <2>1. k + 1 \in 1 .. C /\ k + 1 \in 0 .. C /\ (k + 1) - 1 = k
    BY <1>3, CountIsNat
  <2>2. s[k + 1] = NextStep(v, s[k])
    BY <1>1, <2>1, Zenon DEF Steps
  <2>3. s[k].net \in S /\ ~IsTerminal(v, s[k].net) /\ v.nextNetId[s[k].net] \in S
    BY <1>3, Zenon
  <2>4. s[k + 1].net = v.nextNetId[s[k].net]
    BY <2>2, <2>3 DEF NextStep
  <2> QED
    BY <2>1, <2>3, <2>4, Zenon
<1>4. C \in T
  <2>1. C \in Nat /\ C \in 0 .. C
    BY CountIsNat
  <2> HIDE DEF T
  <2> QED
    BY <1>2, <1>3, <2>1, IntervalInduction, Zenon
<1>5. Walk(v, n).net = s[C].net
  BY <1>1
<1> QED
  BY <1>4, <1>5, Zenon

\* A link from n that leaves the walk from n an end closes no loop.
LEMMA EndedRelink ==
    ASSUME NEW v, Chains(v), Acyclic(v), NEW n \in Nets, NEW m \in Nets, NEW r \in Nat,
           NEW u, Chains(u), Relinked(u, v, n, m, r), IsTerminal(u, Walk(u, n).net)
    PROVE  Acyclic(u)
<1> DEFINE B == Behind(v, n)
<1>1. SUFFICES ASSUME m # n, m \in B
               PROVE  FALSE
  BY Relink, Zenon
<1>2. /\ n \in B /\ B \in SUBSET Nets
      /\ \A x \in B : x # n => ~IsTerminal(v, x) /\ v.nextNetId[x] \in B
  BY BehindCloses, Zenon DEF Behind
<1>3. /\ u.nextNetId[n] = m
      /\ \A x \in Nets : x # n => u.nextNetId[x] = v.nextNetId[x]
  BY Zenon DEF Chains, Relinked
<1>4. \A x \in B : ~IsTerminal(u, x) /\ u.nextNetId[x] \in B
  BY <1>1, <1>2, <1>3, Zenon DEF IsTerminal
<1> HIDE DEF B
<1> QED
  BY <1>2, <1>4, ClosedNeverEnds, Zenon

-----------------------------------------------------------------------------
(* Lookups and links.                                                      *)

Vectors ==
    [nextNetId : [Nets -> Nets], resistance : [Nets -> Nat],
     finalNetId : [Nets -> Nets], finalResistance : [Nets -> Nat],
     lastUpdate : Nat, lastUpdate_v : [Nets -> Nat]]

\* The values kept with a net are those of its chain if its stamp is current.
Current(v, n) ==
    v.finalNetId[n] = Walk(v, n).net /\ v.finalResistance[n] = Walk(v, n).sum

Cached(v) ==
    \A n \in Nets : /\ v.lastUpdate_v[n] <= v.lastUpdate
                    /\ n \in Live /\ v.lastUpdate_v[n] = v.lastUpdate => Current(v, n)

Sound(v) == v \in Vectors /\ Acyclic(v) /\ Cached(v)

SameLinks(u, v) == u.nextNetId = v.nextNetId /\ u.resistance = v.resistance

LEMMA VectorsHaveChains ==
    ASSUME NEW v \in Vectors
    PROVE  Chains(v)
BY Zenon DEF Vectors, Chains

LEMMA SameLinksSameWalks ==
    ASSUME NEW v, Chains(v), Acyclic(v), NEW u, SameLinks(u, v)
    PROVE  /\ Chains(u) /\ Acyclic(u)
           /\ \A x \in Nets : Walk(u, x) = Walk(v, x) /\ (IsTerminal(u, x) <=> IsTerminal(v, x))
<1>1. Chains(u) /\ \A x \in Nets : IsTerminal(u, x) <=> IsTerminal(v, x)
  BY Zenon DEF SameLinks, Chains, IsTerminal
<1>2. Acyclic(u)
  <2>1. PICK rank : Ranked(v, rank)
    BY Zenon DEF Acyclic
  <2>2. Ranked(u, rank)
    BY <1>1, <2>1, Zenon DEF Ranked, SameLinks
  <2> QED
    BY <2>2, Zenon DEF Acyclic
<1>3. \A x \in Nets : Walk(u, x) = Walk(v, x)
  <2>1. \A x \in Nets : /\ u.nextNetId[x] = v.nextNetId[x]
                        /\ u.resistance[x] = v.resistance[x]
                        /\ v.nextNetId[x] \in Nets
    BY Zenon DEF SameLinks, Chains
  <2>2. Nets \in SUBSET Nets
    BY Zenon
  <2> QED
    BY <1>1, <1>2, <2>1, <2>2, WalkSame, Zenon
<1> QED
  BY <1>1, <1>2, <1>3, Zenon

LEMMA LookupType ==
    ASSUME NEW v \in Vectors, NEW n \in Nets
    PROVE  /\ Lookup(v, n) \in Vectors
           /\ SameLinks(Lookup(v, n), v) /\ Lookup(v, n).lastUpdate = v.lastUpdate
<1>1. CASE v.lastUpdate_v[n] < v.lastUpdate
  <2> DEFINE end == Walk(v, n)
             u == [v EXCEPT !.finalNetId[n] = end.net, !.finalResistance[n] = end.sum,
                            !.lastUpdate_v[n] = v.lastUpdate]
  <2>1. end.net \in Nets /\ end.sum \in Nat
    BY VectorsHaveChains, WalkType, Zenon
  <2>2. Lookup(v, n) = u
    BY <1>1, Zenon DEF Lookup
  <2> HIDE DEF end
  <2>3. u \in Vectors /\ SameLinks(u, v) /\ u.lastUpdate = v.lastUpdate
    BY <2>1, Zenon DEF Vectors, SameLinks
  <2> QED
    BY <2>2, <2>3, Zenon
<1>2. CASE ~ (v.lastUpdate_v[n] < v.lastUpdate)
  BY <1>2, Zenon DEF Lookup, SameLinks
<1> QED
  BY <1>1, <1>2, Zenon

\* A lookup changes no chain and returns the end of the chain.
LEMMA LookupSound ==
    ASSUME NEW v, Sound(v), NEW n \in Nets
    PROVE  /\ Sound(Lookup(v, n))
           /\ SameLinks(Lookup(v, n), v) /\ Lookup(v, n).lastUpdate = v.lastUpdate
           /\ \A x \in Nets : Walk(Lookup(v, n), x) = Walk(v, x)
           /\ Lookup(v, n).lastUpdate_v[n] = v.lastUpdate
           /\ \A x \in Nets : v.lastUpdate_v[x] = v.lastUpdate
                                 => Lookup(v, n).lastUpdate_v[x] = v.lastUpdate
<1> DEFINE u == Lookup(v, n)
<1>1. v \in Vectors /\ Acyclic(v) /\ Chains(v)
  BY VectorsHaveChains, Zenon DEF Sound
<1>2. u \in Vectors /\ SameLinks(u, v) /\ u.lastUpdate = v.lastUpdate
  BY <1>1, LookupType, Zenon
<1>3. Acyclic(u) /\ \A x \in Nets : Walk(u, x) = Walk(v, x)
  BY <1>1, <1>2, SameLinksSameWalks, Zenon
<1>4. CASE v.lastUpdate_v[n] < v.lastUpdate
  <2> DEFINE end == Walk(v, n)
  <2>1. u = [v EXCEPT !.finalNetId[n] = end.net, !.finalResistance[n] = end.sum,
                      !.lastUpdate_v[n] = v.lastUpdate]
    BY <1>4, Zenon DEF Lookup
  <2> HIDE DEF end, u
  <2>2. /\ u.finalNetId = [v.finalNetId EXCEPT ![n] = end.net]
        /\ u.finalResistance = [v.finalResistance EXCEPT ![n] = end.sum]
        /\ u.lastUpdate_v = [v.lastUpdate_v EXCEPT ![n] = v.lastUpdate]
    BY <1>1, <2>1, Zenon DEF Vectors
  <2>3. /\ v.finalNetId \in [Nets -> Nets] /\ v.finalResistance \in [Nets -> Nat]
        /\ v.lastUpdate_v \in [Nets -> Nat] /\ v.lastUpdate \in Nat
    BY <1>1, Zenon DEF Vectors
  <2>4. ASSUME NEW x \in Nets, x # n
        PROVE  /\ u.finalNetId[x] = v.finalNetId[x]
               /\ u.finalResistance[x] = v.finalResistance[x]
               /\ u.lastUpdate_v[x] = v.lastUpdate_v[x]
    BY <2>2, <2>3, <2>4, Zenon
  <2>5. u.finalNetId[n] = end.net /\ u.finalResistance[n] = end.sum
        /\ u.lastUpdate_v[n] = v.lastUpdate
    BY <2>2, <2>3, Zenon
  <2>6. ASSUME NEW x \in Nets
        PROVE  /\ u.lastUpdate_v[x] <= u.lastUpdate
               /\ x \in Live /\ u.lastUpdate_v[x] = u.lastUpdate => Current(u, x)
    <3>1. CASE x = n
      BY <3>1, <2>5, <2>3, <1>2, <1>3 DEF Current, end
    <3>2. CASE x # n
      BY <3>2, <2>4, <1>2, <1>3, Zenon DEF Current, Sound, Cached
    <3> QED
      BY <3>1, <3>2, Zenon
  <2>7. Sound(u)
    BY <2>6, <1>2, <1>3, Zenon DEF Sound, Cached
  <2>8. \A x \in Nets : v.lastUpdate_v[x] = v.lastUpdate => u.lastUpdate_v[x] = v.lastUpdate
    BY <2>4, <2>5, Zenon
  <2> QED
    BY <2>5, <2>7, <2>8, <1>2, <1>3, Zenon DEF u
<1>5. CASE ~ (v.lastUpdate_v[n] < v.lastUpdate)
  <2>1. u = v
    BY <1>5, Zenon DEF Lookup
  <2>2. v.lastUpdate_v[n] = v.lastUpdate
    <3>1. v.lastUpdate_v[n] <= v.lastUpdate
      BY Zenon DEF Sound, Cached
    <3>2. v.lastUpdate_v[n] \in Nat /\ v.lastUpdate \in Nat
      BY <1>1, Zenon DEF Vectors
    <3> QED
      BY <1>5, <3>1, <3>2
  <2> QED
    BY <2>1, <2>2, <1>2, Zenon
<1> QED
  BY <1>4, <1>5, Zenon

\* The two lookups of MapDeviceNets.
LEMMA LookupsSound ==
    ASSUME NEW v, Sound(v), NEW n \in Live, NEW m \in Live
    PROVE  LET w == Lookup(Lookup(v, n), m)
           IN  /\ Sound(w) /\ SameLinks(w, v) /\ w.lastUpdate = v.lastUpdate
               /\ \A x \in Nets : Walk(w, x) = Walk(v, x)
               /\ Current(w, n) /\ Current(w, m)
<1> DEFINE u == Lookup(v, n)
           w == Lookup(u, m)
<1>1. n \in Nets /\ m \in Nets
  BY Zenon DEF Live
<1>2. /\ Sound(u) /\ SameLinks(u, v) /\ u.lastUpdate = v.lastUpdate
      /\ \A x \in Nets : Walk(u, x) = Walk(v, x)
      /\ u.lastUpdate_v[n] = v.lastUpdate
  BY <1>1, LookupSound, Zenon
<1> HIDE DEF u
<1>3. /\ Sound(w) /\ SameLinks(w, u) /\ w.lastUpdate = u.lastUpdate
      /\ \A x \in Nets : Walk(w, x) = Walk(u, x)
      /\ w.lastUpdate_v[m] = u.lastUpdate
      /\ w.lastUpdate_v[n] = u.lastUpdate
  BY <1>1, <1>2, LookupSound
<1> HIDE DEF w
<1>4. Current(w, n) /\ Current(w, m)
  BY <1>1, <1>3, Zenon DEF Sound, Cached
<1>5. SameLinks(w, v)
  BY <1>2, <1>3, Zenon DEF SameLinks
<1> QED
  BY <1>1, <1>2, <1>3, <1>4, <1>5, Zenon DEF u, w

\* What Set does to the stored values, for the walks of vector u.
Stores(w, v, u, n, time) ==
    /\ w.lastUpdate = time
    /\ w.lastUpdate_v = [v.lastUpdate_v EXCEPT ![n] = time]
    /\ w.finalNetId = [v.finalNetId EXCEPT ![n] = Walk(u, n).net]
    /\ w.finalResistance = [v.finalResistance EXCEPT ![n] = Walk(u, n).sum]

LEMMA SetNetType ==
    ASSUME NEW v \in Vectors, NEW n \in Nets, NEW m \in Nets, NEW r \in Nat, NEW time \in Nat,
           NEW w, w = SetNet(v, n, m, r, time)
    PROVE  /\ w \in Vectors
           /\ ~ (v.nextNetId[m] = n /\ m # n) =>
                 \E u : /\ Chains(u) /\ Relinked(u, v, n, m, r) /\ SameLinks(w, u)
                        /\ Stores(w, v, u, n, time)
<1> DEFINE u == [v EXCEPT !.nextNetId[n] = m, !.resistance[n] = r]
           end == Walk(u, n)
           z == [u EXCEPT !.finalNetId[n] = end.net, !.finalResistance[n] = end.sum,
                          !.lastUpdate = time, !.lastUpdate_v[n] = time]
<1>1. CASE v.nextNetId[m] = n /\ m # n
  <2>1. w = v
    BY <1>1, Zenon DEF SetNet
  <2> QED
    BY <1>1, <2>1, Zenon
<1>2. CASE ~ (v.nextNetId[m] = n /\ m # n)
  <2>1. w = z
    BY <1>2, Zenon DEF SetNet
  <2>2. /\ u \in Vectors /\ Relinked(u, v, n, m, r)
        /\ u.lastUpdate_v = v.lastUpdate_v /\ u.finalNetId = v.finalNetId
        /\ u.finalResistance = v.finalResistance
    BY Zenon DEF Vectors, Relinked
  <2>3. Chains(u) /\ end.net \in Nets /\ end.sum \in Nat
    BY <2>2, VectorsHaveChains, WalkType, Zenon
  <2> HIDE DEF u, end
  <2>4. /\ z \in Vectors /\ SameLinks(z, u)
        /\ z.lastUpdate = time
        /\ z.lastUpdate_v = [u.lastUpdate_v EXCEPT ![n] = time]
        /\ z.finalNetId = [u.finalNetId EXCEPT ![n] = end.net]
        /\ z.finalResistance = [u.finalResistance EXCEPT ![n] = end.sum]
    BY <2>2, <2>3, Zenon DEF Vectors, SameLinks
  <2> HIDE DEF z
  <2>5. Stores(w, v, u, n, time)
    BY <2>1, <2>2, <2>4, Zenon DEF Stores, end
  <2> QED
    BY <2>1, <2>2, <2>3, <2>4, <2>5, Zenon
<1> QED
  BY <1>1, <1>2, Zenon

\* Set links n to m and stores the end of the new chain, if m is not behind n.
LEMMA SetNetSound ==
    ASSUME NEW v \in Vectors, Acyclic(v), NEW n \in Nets, NEW m \in Nets, NEW r \in Nat,
           NEW time \in Nat, m = n \/ m \notin Behind(v, n),
           NEW w, w = SetNet(v, n, m, r, time)
    PROVE  /\ w \in Vectors /\ Acyclic(w) /\ Relinked(w, v, n, m, r)
           /\ Stores(w, v, w, n, time)
<1>1. Chains(v)
  BY VectorsHaveChains, Zenon
<1>2. ~ (v.nextNetId[m] = n /\ m # n)
  BY <1>1, BehindCloses, Zenon
<1>3. w \in Vectors
  BY SetNetType, Zenon
<1>4. PICK u : /\ Chains(u) /\ Relinked(u, v, n, m, r) /\ SameLinks(w, u)
               /\ Stores(w, v, u, n, time)
  BY <1>2, SetNetType, Zenon
<1>5. Acyclic(u)
  BY <1>1, <1>4, Relink, Zenon
<1>6. Acyclic(w) /\ Walk(w, n) = Walk(u, n)
  BY <1>4, <1>5, SameLinksSameWalks, Zenon
<1>7. Relinked(w, v, n, m, r)
  BY <1>4, Zenon DEF Relinked, SameLinks
<1>8. Stores(w, v, w, n, time)
  BY <1>4, <1>6, Zenon DEF Stores
<1> QED
  BY <1>3, <1>6, <1>7, <1>8, Zenon

\* A link after lastUpdate was advanced: no stored value is current but that of n.
LEMMA StaleLinkSound ==
    ASSUME NEW v, Sound(v), NEW n \in Nets, NEW m \in Nets, NEW r \in Nat,
           m = n \/ m \notin Behind(v, n),
           NEW w, w = Link(Stale(v), n, m, r)
    PROVE  /\ Sound(w) /\ Relinked(w, v, n, m, r) /\ w.lastUpdate = v.lastUpdate + 1
           /\ Current(w, n)
<1> DEFINE u == Stale(v)
<1>1. v \in Vectors /\ Chains(v) /\ Acyclic(v)
  BY VectorsHaveChains, Zenon DEF Sound
<1>2. /\ u \in Vectors /\ SameLinks(u, v) /\ u.lastUpdate = v.lastUpdate + 1
      /\ u.lastUpdate_v = v.lastUpdate_v /\ v.lastUpdate \in Nat
      /\ v.lastUpdate_v \in [Nets -> Nat] /\ u.finalNetId \in [Nets -> Nets]
      /\ u.finalResistance \in [Nets -> Nat]
  BY <1>1, SMTT(30) DEF Stale, Vectors, SameLinks
<1>3. w = SetNet(u, n, m, r, v.lastUpdate + 1)
  BY <1>2, Zenon DEF Link
<1> HIDE DEF u
<1>4. Acyclic(u) /\ Behind(u, n) = Behind(v, n)
  <2>1. Acyclic(u)
    BY <1>1, <1>2, SameLinksSameWalks, Zenon
  <2>2. Behind(u, n) = Behind(v, n)
    BY <1>2, Zenon DEF Behind, SameLinks
  <2> QED
    BY <2>1, <2>2, Zenon
<1>5. v.lastUpdate + 1 \in Nat
  BY <1>2, SMTT(30)
<1>6. /\ w \in Vectors /\ Acyclic(w) /\ Relinked(w, u, n, m, r)
      /\ w.lastUpdate = v.lastUpdate + 1
      /\ w.lastUpdate_v = [u.lastUpdate_v EXCEPT ![n] = v.lastUpdate + 1]
      /\ w.finalNetId = [u.finalNetId EXCEPT ![n] = Walk(w, n).net]
      /\ w.finalResistance = [u.finalResistance EXCEPT ![n] = Walk(w, n).sum]
  <2>1. /\ w \in Vectors /\ Acyclic(w) /\ Relinked(w, u, n, m, r)
        /\ Stores(w, u, w, n, v.lastUpdate + 1)
    BY <1>2, <1>3, <1>4, <1>5, SetNetSound, Zenon
  <2> QED
    BY <2>1, Zenon DEF Stores
<1>7. Current(w, n)
  BY <1>2, <1>6, Zenon DEF Current
<1>8. ASSUME NEW x \in Nets
      PROVE  /\ w.lastUpdate_v[x] <= w.lastUpdate
             /\ x \in Live /\ w.lastUpdate_v[x] = w.lastUpdate => Current(w, x)
  <2>1. CASE x = n
    BY <2>1, <1>2, <1>6, <1>7, SMTT(30)
  <2>2. CASE x # n
    <3>1. w.lastUpdate_v[x] = v.lastUpdate_v[x] /\ v.lastUpdate_v[x] <= v.lastUpdate
      BY <2>2, <1>2, <1>6, SMTT(30) DEF Sound, Cached
    <3>2. v.lastUpdate_v[x] \in Nat
      BY <1>2, Zenon
    <3> QED
      BY <3>1, <3>2, <1>2, <1>6, SMTT(30)
  <2> QED
    BY <2>1, <2>2, Zenon
<1>9. Relinked(w, v, n, m, r)
  BY <1>2, <1>6, Zenon DEF Relinked, SameLinks
<1> QED
  BY <1>6, <1>7, <1>8, <1>9, Zenon DEF Sound, Cached


-----------------------------------------------------------------------------
(* Links and the nets with devices.                                        *)

\* A live net points to a live net, and when it points to another one the end
\* of its chain is in P.
Reaches(v, P) ==
    \A n \in Live : /\ v.nextNetId[n] \in Live
                    /\ ~IsTerminal(v, n) => Walk(v, n).net \in P

\* Chains(v) etc. of a sound vector, for use in the proofs below.
LEMMA SoundFacts ==
    ASSUME NEW v, Sound(v)
    PROVE  v \in Vectors /\ Chains(v) /\ Acyclic(v) /\ v.lastUpdate \in Nat
BY VectorsHaveChains, Zenon DEF Sound, Vectors

\* A link without advancing lastUpdate.  The net n has no voltage yet, so it is
\* the end of its chain and no live net is behind it.
LEMMA FreshLinkSound ==
    ASSUME NEW P, NEW v, Sound(v), Reaches(v, P), NEW n \in Live, NEW m \in Live, NEW r \in Nat,
           Walk(v, n).net \notin P, m = n \/ Walk(v, m).net \in P,
           NEW w, w = Link(v, n, m, r)
    PROVE  Sound(w) /\ Reaches(w, P)
<1>1. /\ v \in Vectors /\ Chains(v) /\ Acyclic(v) /\ v.lastUpdate \in Nat
      /\ v.lastUpdate_v \in [Nets -> Nat] /\ v.finalNetId \in [Nets -> Nets]
      /\ v.finalResistance \in [Nets -> Nat] /\ v.nextNetId \in [Nets -> Nets]
  BY SoundFacts DEF Vectors
<1>2. n \in Nets /\ m \in Nets
  BY Zenon DEF Live
<1>3. m = n \/ m \notin Behind(v, n)
  BY <1>1, <1>2, BehindWalks, Zenon
<1>4. /\ w \in Vectors /\ Acyclic(w) /\ Relinked(w, v, n, m, r)
      /\ Stores(w, v, w, n, v.lastUpdate)
  BY <1>1, <1>2, <1>3, SetNetSound, Zenon DEF Link
<1>5. /\ \A x \in Nets \ Behind(v, n) : Walk(w, x) = Walk(v, x)
      /\ m # n => Walk(w, n).net = Walk(v, m).net
  BY <1>1, <1>2, <1>3, <1>4, Relink
<1>6. ASSUME NEW x \in Live, x # n
      PROVE  x \in Nets \ Behind(v, n)
  <2>1. x \in Nets
    BY Zenon DEF Live
  <2>2. SUFFICES ASSUME x \in Behind(v, n)
                 PROVE  FALSE
    BY <2>1, Zenon
  <2>3. ~IsTerminal(v, x)
    BY <1>1, <1>2, <1>6, <2>2, BehindCloses, Zenon
  <2>4. Walk(v, x).net = Walk(v, n).net
    BY <1>1, <1>2, <2>2, BehindWalks, Zenon
  <2> QED
    BY <2>3, <2>4, Zenon DEF Reaches
<1>7. Current(w, n)
  BY <1>1, <1>2, <1>4, Zenon DEF Current, Stores
<1>8. ASSUME NEW x \in Nets
      PROVE  /\ w.lastUpdate_v[x] <= w.lastUpdate
             /\ x \in Live /\ w.lastUpdate_v[x] = w.lastUpdate => Current(w, x)
  <2>1. CASE x = n
    BY <2>1, <1>1, <1>4, <1>7 DEF Stores
  <2>2. CASE x # n
    <3>1. /\ w.lastUpdate = v.lastUpdate /\ w.lastUpdate_v[x] = v.lastUpdate_v[x]
          /\ w.finalNetId[x] = v.finalNetId[x] /\ w.finalResistance[x] = v.finalResistance[x]
      BY <2>2, <1>1, <1>4, Zenon DEF Stores
    <3>2. x \in Live => Walk(w, x) = Walk(v, x)
      BY <2>2, <1>5, <1>6, Zenon
    <3> QED
      BY <3>1, <3>2, Zenon DEF Sound, Cached, Current
  <2> QED
    BY <2>1, <2>2, Zenon
<1>9. ASSUME NEW x \in Live
      PROVE  w.nextNetId[x] \in Live /\ (~IsTerminal(w, x) => Walk(w, x).net \in P)
  <2>0. x \in Nets
    BY Zenon DEF Live
  <2>1. CASE x = n
    <3>1. w.nextNetId[n] = m
      BY <1>1, <1>2, <1>4, Zenon DEF Relinked
    <3> QED
      BY <2>1, <3>1, <1>5, Zenon DEF IsTerminal
  <2>2. CASE x # n
    <3>1. w.nextNetId[x] = v.nextNetId[x] /\ Walk(w, x) = Walk(v, x)
      BY <2>0, <2>2, <1>1, <1>4, <1>5, <1>6, Zenon DEF Relinked
    <3> QED
      BY <3>1, Zenon DEF Reaches, IsTerminal
  <2> QED
    BY <2>1, <2>2, Zenon
<1>10. Sound(w)
  BY <1>4, <1>8, Zenon DEF Sound, Cached
<1>11. Reaches(w, P)
  BY <1>9, Zenon DEF Reaches
<1> QED
  BY <1>10, <1>11, Zenon

\* w is v after n, a net that did not follow m, was linked to m.
Redirected(w, v, n, m, r, P) ==
    /\ Sound(w) /\ Reaches(w, P) /\ Current(w, n) /\ w.nextNetId[n] = m
    /\ \A x \in Nets \ Behind(v, n) : Walk(w, x) = Walk(v, x)
    /\ Walk(w, n).net = Walk(v, m).net
    /\ Walk(w, n).sum = AddResistance(r, Walk(v, m).sum)

\* A link after lastUpdate was advanced.
LEMMA StaleLinkReaches ==
    ASSUME NEW P, NEW v, Sound(v), Reaches(v, P), NEW n \in Live, NEW m \in Live, NEW r \in Nat,
           m \notin Behind(v, n), Walk(v, m).net \in P,
           NEW w, w = Link(Stale(v), n, m, r)
    PROVE  Redirected(w, v, n, m, r, P)
<1>1. v \in Vectors /\ Chains(v) /\ Acyclic(v) /\ v.nextNetId \in [Nets -> Nets]
  BY SoundFacts, Zenon DEF Chains
<1>2. n \in Nets /\ m \in Nets /\ m # n
  BY <1>1, BehindCloses, Zenon DEF Live
<1>3. /\ Sound(w) /\ Relinked(w, v, n, m, r) /\ w.lastUpdate = v.lastUpdate + 1
      /\ Current(w, n)
  BY <1>2, StaleLinkSound
<1>4. /\ \A x \in Nets \ Behind(v, n) : Walk(w, x) = Walk(v, x)
      /\ \A x \in Behind(v, n) : Walk(w, x).net = Walk(w, n).net
      /\ Walk(w, n).net = Walk(v, m).net
      /\ Walk(w, n).sum = AddResistance(r, Walk(v, m).sum)
  BY <1>1, <1>2, <1>3, Relink, SMTT(30)
<1>5. /\ w.nextNetId[n] = m
      /\ \A x \in Nets : x # n => w.nextNetId[x] = v.nextNetId[x]
  BY <1>1, <1>2, <1>3, Zenon DEF Relinked
<1>6. ASSUME NEW x \in Live
      PROVE  w.nextNetId[x] \in Live /\ (~IsTerminal(w, x) => Walk(w, x).net \in P)
  <2>1. x \in Nets
    BY Zenon DEF Live
  <2>2. w.nextNetId[x] \in Live
    BY <2>1, <1>5, Zenon DEF Reaches
  <2>3. CASE x \in Behind(v, n)
    BY <2>2, <2>3, <1>4, Zenon
  <2>4. CASE x \notin Behind(v, n)
    <3>1. x # n
      BY <2>4, <1>1, <1>2, BehindCloses
    <3>2. w.nextNetId[x] = v.nextNetId[x] /\ Walk(w, x) = Walk(v, x)
      BY <2>1, <2>4, <3>1, <1>4, <1>5, Zenon
    <3> QED
      BY <2>2, <3>2, Zenon DEF Reaches, IsTerminal
  <2> QED
    BY <2>3, <2>4, Zenon
<1>7. Reaches(w, P)
  BY <1>6, Zenon DEF Reaches
<1> QED
  BY <1>3, <1>4, <1>5, <1>7, Zenon DEF Redirected

LEMMA NextIsNotBehind ==
    ASSUME NEW v, Chains(v), Acyclic(v), NEW n \in Nets, ~IsTerminal(v, n)
    PROVE  v.nextNetId[n] \in Nets \ Behind(v, n)
<1>1. PICK rank : Ranked(v, rank)
  BY Zenon DEF Acyclic
<1> DEFINE S == {x \in Nets : rank[n] <= rank[x]}
<1>2. \A x \in Nets : rank[x] \in Nat
  BY <1>1, Zenon DEF Ranked
<1>3. n \in S /\ S \in SUBSET Nets
  BY <1>2
<1>4. ASSUME NEW y \in Nets, v.nextNetId[y] \in S
      PROVE  y \in S
  <2>1. CASE IsTerminal(v, y)
    BY <2>1, <1>4, Zenon DEF IsTerminal
  <2>2. CASE ~IsTerminal(v, y)
    <3>1. rank[v.nextNetId[y]] < rank[y] /\ rank[n] <= rank[v.nextNetId[y]]
      BY <2>2, <1>1, <1>4, Zenon DEF Ranked
    <3>2. rank[v.nextNetId[y]] \in Nat /\ rank[y] \in Nat /\ rank[n] \in Nat
      BY <1>2, <1>4, Zenon
    <3>3. rank[n] <= rank[y]
      BY <3>1, <3>2
    <3> QED
      BY <3>3, Zenon
  <2> QED
    BY <2>1, <2>2, Zenon
<1>5. Behind(v, n) \subseteq S
  <2> HIDE DEF S
  <2> QED
    BY <1>3, <1>4, Zenon DEF Behind
<1>6. v.nextNetId[n] \in Nets /\ rank[v.nextNetId[n]] < rank[n]
  BY <1>1, Zenon DEF Ranked, Chains
<1>7. v.nextNetId[n] \notin S
  BY <1>2, <1>6
<1> QED
  BY <1>5, <1>6, <1>7, Zenon

\* No net of a chain has less resistance than its end.
LEMMA EndIsNearest ==
    ASSUME NEW v, Chains(v), Acyclic(v), NEW n \in Nets
    PROVE  Walk(v, Walk(v, n).net).sum <= Walk(v, n).sum
<1> DEFINE far == {x \in Nets : ~ (Walk(v, Walk(v, x).net).sum <= Walk(v, x).sum)}
<1>1. SUFFICES ASSUME far # {}
               PROVE  FALSE
  BY Zenon
<1>2. PICK rank : Ranked(v, rank)
  BY Zenon DEF Acyclic
<1>3. \A x \in far : rank[x] \in Nat
  BY <1>2, Zenon DEF Ranked
<1>4. PICK x \in far : \A y \in far : rank[x] <= rank[y]
  <2> HIDE DEF far
  <2> QED
    BY <1>1, <1>3, LeastRank, Zenon
<1>5. x \in Nets /\ ~ (Walk(v, Walk(v, x).net).sum <= Walk(v, x).sum)
  BY <1>4, Zenon
<1>6. CASE IsTerminal(v, x)
  <2>1. Walk(v, x).net = x
    BY <1>5, <1>6, WalkTerminal
  <2>2. Walk(v, x).sum \in Nat
    BY <1>5, WalkType, Zenon
  <2> QED
    BY <1>5, <2>1, <2>2
<1>7. CASE ~IsTerminal(v, x)
  <2> DEFINE y == v.nextNetId[x]
             d == Walk(v, Walk(v, y).net).sum
  <2>1. /\ y \in Nets /\ Walk(v, x).net = Walk(v, y).net
        /\ Walk(v, x).sum = AddResistance(v.resistance[x], Walk(v, y).sum)
    BY <1>5, <1>7, WalkStep, Zenon
  <2>2. rank[y] < rank[x] /\ rank[y] \in Nat /\ rank[x] \in Nat
    BY <1>2, <1>5, <1>7, <2>1, Zenon DEF Ranked
  <2>3. y \notin far
    BY <1>4, <2>2
  <2>4. d <= Walk(v, y).sum
    BY <2>1, <2>3, Zenon
  <2>5. /\ Walk(v, y).sum \in Nat /\ Walk(v, y).sum <= MAX_RESISTANCE
        /\ Walk(v, y).net \in Nets /\ v.resistance[x] \in Nat
    BY <1>5, <2>1, WalkType, Zenon DEF Chains
  <2>6. d \in Nat
    BY <2>5, WalkType, Zenon
  <2> HIDE DEF d, y
  <2>7. Walk(v, y).sum <= Walk(v, x).sum /\ Walk(v, x).sum \in Nat
    BY <2>1, <2>5, MaxAssumption DEF AddResistance
  <2>8. d <= Walk(v, x).sum
    BY <2>4, <2>5, <2>6, <2>7, SMTT(30)
  <2> QED
    BY <1>5, <2>1, <2>8, Zenon DEF d
<1> QED
  BY <1>6, <1>7, Zenon

-----------------------------------------------------------------------------
(* ShiftVirtualNets.                                                       *)

\* What holds before each turn.  The new way of p.new leads to the same end as
\* the old one, which begins with p.next, and the resistances carried along are
\* those of the chains.  When sourceR is out of range there are no more turns.
Turning(p, P) ==
    /\ Sound(p.v) /\ Reaches(p.v, P)
    /\ p.new \in Live /\ p.next \in Live
    /\ p.r \in Nat /\ p.sourceR \in Nat /\ p.drainR \in Nat /\ p.drainR < MAX_RESISTANCE
    /\ Walk(p.v, p.new).net = Walk(p.v, p.next).net
    /\ Walk(p.v, p.next).net \in P
    /\ p.sourceR < MAX_RESISTANCE => p.sourceR = Walk(p.v, p.new).sum
    /\ p.drainR - p.r = Walk(p.v, p.next).sum
    /\ p.odd = FALSE

\* q goes on from the net that n pointed to in u, with the resistances of n before and after
\* the turn.
AtTurn(q, w, u, n) ==
    /\ q.v = w /\ q.new = n /\ q.next = u.nextNetId[n] /\ q.r = u.resistance[n]
    /\ q.sourceR \in Nat /\ (q.sourceR < MAX_RESISTANCE => q.sourceR = Walk(w, n).sum)
    /\ q.drainR = Walk(u, n).sum /\ q.odd = FALSE

\* After n was linked to m, what n pointed to is the next net to turn.
LEMMA TurnsOn ==
    ASSUME NEW P, NEW u, Sound(u), Reaches(u, P), NEW n \in Live, NEW m \in Live, NEW r \in Nat,
           ~IsTerminal(u, n), Walk(u, m).net = Walk(u, n).net, Walk(u, m).net \in P,
           Walk(u, n).sum < MAX_RESISTANCE, NEW w, Redirected(w, u, n, m, r, P),
           NEW q, AtTurn(q, w, u, n)
    PROVE  Turning(q, P)
<1>0. /\ q.v = w /\ q.new = n /\ q.next = u.nextNetId[n] /\ q.r = u.resistance[n]
      /\ q.sourceR \in Nat /\ (q.sourceR < MAX_RESISTANCE => q.sourceR = Walk(w, n).sum)
      /\ q.drainR = Walk(u, n).sum /\ q.odd = FALSE
  BY Zenon DEF AtTurn
<1>1. Chains(u) /\ Acyclic(u) /\ n \in Nets
  BY SoundFacts, Zenon DEF Live
<1>2. q.next \in Nets \ Behind(u, n)
  BY <1>0, <1>1, NextIsNotBehind, Zenon
<1>3. q.next \in Live /\ q.r \in Nat
  BY <1>0, <1>1, Zenon DEF Reaches, Chains
<1>4. /\ Walk(u, n).net = Walk(u, q.next).net
      /\ Walk(u, n).sum = AddResistance(q.r, Walk(u, q.next).sum)
  BY <1>0, <1>1, WalkStep
<1>5. Walk(u, n).sum \in Nat /\ Walk(u, q.next).sum \in Nat
  BY <1>1, <1>2, WalkType, Zenon
<1>6. q.drainR - q.r = Walk(u, q.next).sum
  BY <1>0, <1>3, <1>4, <1>5, MaxAssumption DEF AddResistance
<1>7. Sound(w) /\ Reaches(w, P) /\ Walk(w, q.next) = Walk(u, q.next) /\ Walk(w, n).net = Walk(u, m).net
  BY <1>2, Zenon DEF Redirected
<1> QED
  BY <1>0, <1>3, <1>4, <1>5, <1>6, <1>7, Zenon DEF Turning

LEMMA ShiftOneTurns ==
    ASSUME NEW P, NEW p, Turning(p, P)
    PROVE  Turning(ShiftOne(p), P)
<1>1. CASE p.sourceR + p.r >= p.drainR - p.r
  <2>1. ShiftOne(p) = p
    BY <1>1, Zenon DEF ShiftOne
  <2> QED
    BY <2>1, Zenon
<1>2. CASE ~ (p.sourceR + p.r >= p.drainR - p.r)
  <2> DEFINE u == Lookup(p.v, p.next)
             w == Link(Stale(u), p.next, p.new, p.r)
             q == [v |-> w, new |-> p.next,
                   next |-> u.nextNetId[p.next], r |-> u.resistance[p.next],
                   sourceR |-> Carried(p.sourceR, p.r), drainR |-> p.drainR - p.r,
                   odd |-> \/ p.odd
                           \/ u.finalResistance[p.next] # p.drainR - p.r
                           \/ w.finalResistance[p.next] # Carried(p.sourceR, p.r)]
  <2>1. ShiftOne(p) = q
    BY <1>2, Zenon DEF ShiftOne
  <2>2. /\ Sound(p.v) /\ Reaches(p.v, P) /\ p.new \in Live /\ p.next \in Live
        /\ p.r \in Nat /\ p.sourceR \in Nat /\ p.drainR \in Nat /\ p.drainR < MAX_RESISTANCE
        /\ Walk(p.v, p.new).net = Walk(p.v, p.next).net
        /\ Walk(p.v, p.next).net \in P
        /\ p.drainR - p.r = Walk(p.v, p.next).sum
        /\ p.odd = FALSE
    BY Zenon DEF Turning
  <2>3. p.new \in Nets /\ p.next \in Nets
    BY <2>2, Zenon DEF Live
  <2>4. /\ Sound(u) /\ SameLinks(u, p.v) /\ \A x \in Nets : Walk(u, x) = Walk(p.v, x)
        /\ u.lastUpdate_v[p.next] = u.lastUpdate
    BY <2>2, <2>3, LookupSound
  <2> HIDE DEF u
  <2>5. /\ u \in Vectors /\ Chains(u) /\ Acyclic(u)
        /\ p.v \in Vectors /\ Chains(p.v) /\ Acyclic(p.v)
    BY <2>2, <2>4, SoundFacts, Zenon
  <2>6. Reaches(u, P)
    BY <2>2, <2>4, Zenon DEF Reaches, SameLinks, IsTerminal, Live
  <2>7. Current(u, p.next)
    BY <2>2, <2>3, <2>4, Zenon DEF Sound, Cached
  \* The resistances before the turn.
  <2>8. /\ p.sourceR = Walk(u, p.new).sum
        /\ p.drainR - p.r = Walk(u, p.next).sum
        /\ p.sourceR + p.r < p.drainR - p.r
        /\ p.sourceR + p.r < MAX_RESISTANCE
        /\ Walk(u, p.next).sum < MAX_RESISTANCE
        /\ Walk(u, p.new).net = Walk(u, p.next).net /\ Walk(u, p.next).net \in P
    <3>1. p.sourceR + p.r < p.drainR - p.r /\ p.sourceR < MAX_RESISTANCE
          /\ p.sourceR + p.r < MAX_RESISTANCE /\ p.drainR - p.r < MAX_RESISTANCE
      BY <1>2, <2>2, MaxAssumption
    <3>2. p.sourceR = Walk(p.v, p.new).sum
      BY <3>1, Zenon DEF Turning
    <3> QED
      BY <3>1, <3>2, <2>2, <2>3, <2>4, Zenon
  <2>9. p.new \notin Behind(u, p.next)
    <3>1. SUFFICES ASSUME p.new \in Behind(u, p.next)
                   PROVE  FALSE
      BY Zenon
    <3>2. Walk(u, p.next).sum <= Walk(u, p.new).sum
      BY <3>1, <2>3, <2>5, BehindWalks, Zenon
    <3> QED
      BY <3>2, <2>2, <2>8
  <2>10. ~IsTerminal(u, p.next)
    <3>1. SUFFICES ASSUME IsTerminal(u, p.next)
                   PROVE  FALSE
      BY Zenon
    <3>2. Walk(u, p.next).net = p.next
      BY <3>1, <2>3, <2>5, WalkTerminal, SMTT(30)
    <3>3. Walk(u, p.next).sum <= Walk(u, p.new).sum
      BY <3>2, <2>3, <2>5, <2>8, EndIsNearest, Zenon
    <3> QED
      BY <3>3, <2>2, <2>8
  <2>12. Redirected(w, u, p.next, p.new, p.r, P)
    <3>1. Walk(u, p.new).net \in P
      BY <2>8, Zenon
    <3> QED
      BY <3>1, <2>2, <2>4, <2>6, <2>9, StaleLinkReaches, Zenon
  <2>13. Walk(w, p.next).sum = p.sourceR + p.r /\ w.finalResistance[p.next] = p.sourceR + p.r
    <3> HIDE DEF w
    <3> QED
      BY <2>2, <2>8, <2>12, MaxAssumption, SMTT(30) DEF AddResistance, Redirected, Current
  <2>14. u.finalResistance[p.next] = p.drainR - p.r
    BY <2>7, <2>8, Zenon DEF Current
  <2>15. p.sourceR + p.r \in Nat
    BY <2>2
  <2>18. /\ q.v = w /\ q.new = p.next /\ q.next = u.nextNetId[p.next]
         /\ q.r = u.resistance[p.next]
         /\ q.sourceR = p.sourceR + p.r /\ q.drainR = p.drainR - p.r
         /\ q.odd = FALSE
    <3> HIDE DEF w
    <3> QED
      BY <2>2, <2>13, <2>14, Zenon DEF Carried
  <2> HIDE DEF q, w
  <2>19. Turning(q, P)
    <3>1. /\ p.next \in Live /\ p.new \in Live /\ p.r \in Nat
          /\ Walk(u, p.new).net = Walk(u, p.next).net /\ Walk(u, p.new).net \in P
          /\ Walk(u, p.next).sum < MAX_RESISTANCE
      BY <2>2, <2>8, Zenon
    <3>2. AtTurn(q, w, u, p.next)
      BY <2>8, <2>13, <2>15, <2>18, Zenon DEF AtTurn
    <3> QED
      BY <3>1, <3>2, <2>4, <2>6, <2>10, <2>12, TurnsOn, ZenonT(40)
  <2> QED
    BY <2>1, <2>19, Zenon
<1> QED
  BY <1>1, <1>2, Zenon

ShiftStates ==
    [v : Vectors, new : Nets, next : Nets, r : Nat, sourceR : Nat, drainR : Nat, odd : BOOLEAN]

LEMMA ShiftOneType ==
    ASSUME NEW P, NEW p \in ShiftStates, Turning(p, P)
    PROVE  ShiftOne(p) \in ShiftStates
<1> DEFINE q == ShiftOne(p)
<1>1. CASE p.sourceR + p.r >= p.drainR - p.r
  BY <1>1, Zenon DEF ShiftOne
<1>2. CASE ~ (p.sourceR + p.r >= p.drainR - p.r)
  <2>1. q = [v |-> q.v, new |-> q.new, next |-> q.next, r |-> q.r,
             sourceR |-> q.sourceR, drainR |-> q.drainR, odd |-> q.odd]
    BY <1>2, Zenon DEF ShiftOne
  <2>2. Turning(q, P)
    BY ShiftOneTurns, Zenon
  <2> HIDE DEF q
  <2>3. /\ q.v \in Vectors /\ q.new \in Nets /\ q.next \in Nets /\ q.r \in Nat
        /\ q.sourceR \in Nat /\ q.drainR \in Nat /\ q.odd \in BOOLEAN
    BY <2>2, Zenon DEF Turning, Sound, Live
  <2>4. q \in ShiftStates
    BY <2>1, <2>3, Zenon DEF ShiftStates
  <2> QED
    BY <2>4, Zenon DEF q
<1> QED
  BY <1>1, <1>2, Zenon

\* What one turn keeps, ShiftVirtualNets keeps.
LEMMA ShiftStays ==
    ASSUME NEW v, NEW new, NEW next, NEW r, NEW sourceR, NEW drainR,
           NEW A, \A p \in A : ShiftOne(p) \in A,
           [v |-> v, new |-> new, next |-> next, r |-> r,
            sourceR |-> sourceR, drainR |-> drainR, odd |-> FALSE] \in A
    PROVE  ShiftVirtualNets(v, new, next, r, sourceR, drainR) \in A
<1> DEFINE a == [v |-> v, new |-> new, next |-> next, r |-> r,
                 sourceR |-> sourceR, drainR |-> drainR, odd |-> FALSE]
           shift[k \in 0 .. Cardinality(Nets)] ==
              IF k = 0
                THEN [v |-> v, new |-> new, next |-> next, r |-> r,
                      sourceR |-> sourceR, drainR |-> drainR, odd |-> FALSE]
                ELSE ShiftOne(shift[k - 1])
           body(f) == [k \in 0 .. Cardinality(Nets) |->
                          IF k = 0
                            THEN [v |-> v, new |-> new, next |-> next, r |-> r,
                                  sourceR |-> sourceR, drainR |-> drainR, odd |-> FALSE]
                            ELSE ShiftOne(f[k - 1])]
<1>1. ShiftVirtualNets(v, new, next, r, sourceR, drainR) = shift[C]
  BY Zenon DEF ShiftVirtualNets, C
<1>2. a \in A
  BY Zenon
<1>4. \E f : f = body(f)
  <2> DEFINE g == [k \in 1 .. C |-> [p \in A |-> ShiftOne(p)]]
  <2>1. g \in [1 .. C -> [A -> A]]
    BY Zenon
  <2>2. PICK f \in [0 .. C -> A] : f[0] = a /\ \A k \in 1 .. C : f[k] = g[k][f[k - 1]]
    <3> HIDE DEF g, a, body, shift
    <3>1. \E f : Recursive(f, C, A, a, g)
      BY <1>2, <2>1, CountIsNat, RecursionUpTo, Zenon
    <3> QED
      BY <3>1, Zenon DEF Recursive
  <2>3. ASSUME NEW k \in 0 .. C
        PROVE  f[k] = body(f)[k]
    <3>1. CASE k = 0
      BY <3>1, <2>2, Zenon DEF C
    <3>2. CASE k # 0
      <4>1. k \in 1 .. C /\ k - 1 \in 0 .. C
        BY <3>2, CountIsNat
      <4>2. f[k] = ShiftOne(f[k - 1])
        BY <4>1, <2>2, Zenon
      <4> QED
        BY <4>2, <3>2, Zenon DEF C
    <3> QED
      BY <3>1, <3>2, Zenon
  <2>4. f = body(f)
    BY <2>2, <2>3, Zenon DEF C
  <2> QED
    BY <2>4, Zenon
<1>5. shift = body(shift)
  <2>1. shift = CHOOSE f : f = body(f)
    BY Zenon
  <2> HIDE DEF shift, body
  <2> QED
    BY <1>4, <2>1, Zenon
<1> HIDE DEF shift
<1>6. ASSUME NEW k \in 0 .. C
      PROVE  shift[k] = IF k = 0 THEN a ELSE ShiftOne(shift[k - 1])
  <2>1. shift[k] = body(shift)[k]
    BY <1>5, Zenon
  <2> QED
    BY <2>1, Zenon DEF C
<1> HIDE DEF a, body
<1> DEFINE S == {k \in 0 .. C : shift[k] \in A}
<1>7. 0 \in S
  BY <1>2, <1>6, CountIsNat, SMTT(30)
<1>8. ASSUME NEW k \in 0 .. C, k \in S, k < C
      PROVE  k + 1 \in S
  <2>1. k + 1 \in 0 .. C /\ k + 1 # 0 /\ (k + 1) - 1 = k
    BY <1>8, CountIsNat
  <2>2. shift[k + 1] = ShiftOne(shift[k])
    BY <1>6, <2>1, Zenon
  <2>3. ShiftOne(shift[k]) \in A
    BY <1>8, Zenon
  <2> QED
    BY <2>1, <2>2, <2>3, Zenon
<1>9. 0 .. C \subseteq S
  <2> HIDE DEF S
  <2> QED
    BY <1>7, <1>8, CountIsNat, IntervalInduction, Zenon
<1>10. shift[C] \in A
  BY <1>9, CountIsNat
<1> QED
  BY <1>1, <1>10, Zenon

\* ShiftVirtualNets keeps the vector sound and finds the resistances it expects.
LEMMA ShiftSound ==
    ASSUME NEW P, NEW v, NEW new, NEW next, NEW r, NEW sourceR, NEW drainR,
           Turning([v |-> v, new |-> new, next |-> next, r |-> r,
                    sourceR |-> sourceR, drainR |-> drainR, odd |-> FALSE], P)
    PROVE  Turning(ShiftVirtualNets(v, new, next, r, sourceR, drainR), P)
<1> DEFINE a == [v |-> v, new |-> new, next |-> next, r |-> r,
                 sourceR |-> sourceR, drainR |-> drainR, odd |-> FALSE]
           A == {p \in ShiftStates : Turning(p, P)}
<1>1. a \in A
  <2>1. /\ a.v = v /\ a.new = new /\ a.next = next /\ a.r = r
        /\ a.sourceR = sourceR /\ a.drainR = drainR /\ a.odd = FALSE
    BY ZenonT(40)
  <2>2. /\ v \in Vectors /\ new \in Nets /\ next \in Nets /\ r \in Nat
        /\ sourceR \in Nat /\ drainR \in Nat
    <3>1. Turning(a, P)
      BY Zenon
    <3> HIDE DEF a
    <3> QED
      BY <2>1, <3>1, Zenon DEF Turning, Sound, Live
  <2>3. a \in ShiftStates
    BY <2>2, Zenon DEF ShiftStates
  <2> QED
    BY <2>3, Zenon
<1>2. \A p \in A : ShiftOne(p) \in A
  BY ShiftOneTurns, ShiftOneType, Zenon
<1>3. ShiftVirtualNets(v, new, next, r, sourceR, drainR) \in A
  <2> HIDE DEF A
  <2> QED
    BY <1>1, <1>2, ShiftStays, Zenon
<1> QED
  BY <1>3, Zenon

-----------------------------------------------------------------------------
(* The reroutes of AlreadyShorted.                                         *)

\* No net behind n has another end than n.
LEMMA OtherEndIsNotBehind ==
    ASSUME NEW v, Sound(v), NEW n \in Nets, NEW m \in Nets, Walk(v, m).net # Walk(v, n).net
    PROVE  m \notin Behind(v, n)
BY SoundFacts, BehindWalks, Zenon

\* A net with a better connection is not behind the net that gets it.
LEMMA BetterIsNotBehind ==
    ASSUME NEW v, Sound(v), NEW drain \in Nets, NEW source \in Nets, NEW r \in Nat,
           Current(v, source), Current(v, drain), ~IsTerminal(v, drain),
           Better(v, drain, source, r)
    PROVE  source \notin Behind(v, drain)
<1>1. Chains(v) /\ Acyclic(v)
  BY SoundFacts, Zenon
<1>2. CASE IsTerminal(v, source)
  <2>1. source # drain
    BY <1>2, Zenon
  <2> QED
    BY <1>2, <2>1, <1>1, BehindCloses, Zenon
<1>3. CASE Walk(v, source).sum + r < Walk(v, drain).sum
  <2>1. source \in Behind(v, drain) => Walk(v, drain).sum <= Walk(v, source).sum
    BY <1>1, BehindWalks, Zenon
  <2>2. Walk(v, source).sum \in Nat /\ Walk(v, drain).sum \in Nat
    BY <1>1, WalkType, Zenon
  <2> QED
    BY <1>3, <2>1, <2>2
<1> QED
  BY <1>2, <1>3, Zenon DEF Better, Current

LEMMA RerouteTurns ==
    ASSUME NEW P, NEW v, Sound(v), Reaches(v, P), NEW drain \in Live, NEW source \in Live,
           NEW r \in Nat, Current(v, source), Current(v, drain),
           Walk(v, drain).sum < MAX_RESISTANCE, Walk(v, source).net = Walk(v, drain).net,
           Walk(v, source).net \in P, ~IsTerminal(v, drain), Better(v, drain, source, r),
           NEW x, Redirected(x, v, drain, source, r, P)
    PROVE  Turning([v |-> x, new |-> drain, next |-> v.nextNetId[drain],
                    r |-> v.resistance[drain], sourceR |-> v.finalResistance[source] + r,
                    drainR |-> v.finalResistance[drain], odd |-> FALSE], P)
<1>1. Walk(v, source).sum \in Nat
  BY SoundFacts, WalkType, Zenon DEF Live
<1>2. /\ v.finalResistance[source] = Walk(v, source).sum
      /\ v.finalResistance[drain] = Walk(v, drain).sum
  BY Zenon DEF Current
<1> DEFINE q == [v |-> x, new |-> drain, next |-> v.nextNetId[drain],
                 r |-> v.resistance[drain], sourceR |-> v.finalResistance[source] + r,
                 drainR |-> v.finalResistance[drain], odd |-> FALSE]
<1>3. /\ q.v = x /\ q.new = drain /\ q.next = v.nextNetId[drain]
      /\ q.r = v.resistance[drain] /\ q.sourceR = Walk(v, source).sum + r
      /\ q.drainR = Walk(v, drain).sum /\ q.odd = FALSE
  BY <1>2, Zenon
<1> HIDE DEF q
<1>4. q.sourceR \in Nat /\ (q.sourceR < MAX_RESISTANCE => q.sourceR = Walk(x, drain).sum)
  BY <1>1, <1>3, MaxAssumption, SMTT(30) DEF AddResistance, Redirected
<1>5. AtTurn(q, x, v, drain)
  BY <1>3, <1>4, Zenon DEF AtTurn
<1>6. Turning(q, P)
  BY <1>5, TurnsOn, Zenon
<1> QED
  BY <1>6, Zenon DEF q

LEMMA StaleIsSound ==
    ASSUME NEW P, NEW v, Sound(v), Reaches(v, P)
    PROVE  Sound(Stale(v)) /\ Reaches(Stale(v), P)
<1> DEFINE w == Stale(v)
<1>1. v \in Vectors /\ Chains(v) /\ Acyclic(v)
  BY SoundFacts, Zenon
<1>2. /\ w \in Vectors /\ SameLinks(w, v) /\ w.lastUpdate = v.lastUpdate + 1
      /\ w.lastUpdate_v = v.lastUpdate_v
      /\ v.lastUpdate \in Nat /\ v.lastUpdate_v \in [Nets -> Nat]
  BY <1>1 DEF Stale, Vectors, SameLinks
<1> HIDE DEF w
<1>3. /\ Acyclic(w)
      /\ \A x \in Nets : Walk(w, x) = Walk(v, x) /\ (IsTerminal(w, x) <=> IsTerminal(v, x))
  BY <1>1, <1>2, SameLinksSameWalks, Zenon
<1>4. ASSUME NEW x \in Nets
      PROVE  w.lastUpdate_v[x] < w.lastUpdate
  <2>1. v.lastUpdate_v[x] <= v.lastUpdate /\ v.lastUpdate_v[x] \in Nat
    BY <1>2, Zenon DEF Sound, Cached
  <2> QED
    BY <2>1, <1>2
<1>5. ASSUME NEW x \in Nets
      PROVE  w.lastUpdate_v[x] <= w.lastUpdate /\ w.lastUpdate_v[x] # w.lastUpdate
  BY <1>2, <1>4
<1>6. Sound(w)
  BY <1>2, <1>3, <1>5, Zenon DEF Sound, Cached
<1>7. Reaches(w, P)
  BY <1>2, <1>3, Zenon DEF Reaches, SameLinks, Live
<1> QED
  BY <1>6, <1>7, Zenon DEF w

\* AlreadyShorted with the estimate n leaves the vector alone or links n to m.
LEMMA EstimatedIs ==
    ASSUME NEW x, NEW N, NEW n, NEW m, NEW fm, NEW r,
           NEW e \in Estimated([v |-> x, needs |-> N], n, m, fm, r)
    PROVE  \E M : \/ e = [v |-> x, needs |-> M]
                  \/ e = [v |-> Link(Stale(x), n, m, r), needs |-> M]
<1> DEFINE o == [v |-> x, needs |-> N]
<1>1. \/ e = o
      \/ e = [o EXCEPT !.needs = @ \ {n}]
      \/ e = [o EXCEPT !.v = Link(Stale(@), n, m, r)]
  BY Zenon DEF Estimated
<1>2. [o EXCEPT !.needs = @ \ {n}] = [v |-> x, needs |-> N \ {n}]
  OBVIOUS
<1>3. [o EXCEPT !.v = Link(Stale(@), n, m, r)] = [v |-> Link(Stale(x), n, m, r), needs |-> N]
  OBVIOUS
<1> QED
  BY <1>1, <1>2, <1>3, Zenon

\* Both estimates of a device between two masters leave a sound vector.
LEMMA EstimatesSound ==
    ASSUME NEW P, NEW v, Sound(v), Reaches(v, P), NEW source \in Live, NEW drain \in Live,
           NEW r \in Nat, Walk(v, source).net # Walk(v, drain).net,
           Walk(v, source).net \in P, Walk(v, drain).net \in P,
           NEW N, NEW fs, NEW fd,
           NEW first \in Estimated([v |-> v, needs |-> N], source, drain, fd, r),
           NEW second \in Estimated(first, drain, source, fs, r)
    PROVE  Sound(second.v) /\ Reaches(second.v, P)
<1> DEFINE a == Link(Stale(v), source, drain, r)
<1>7. /\ source \notin Behind(v, drain) /\ drain \notin Behind(v, source)
      /\ source \in Nets /\ drain \in Nets
  BY OtherEndIsNotBehind, Zenon DEF Live
<1>8. Sound(a) /\ Reaches(a, P) /\ a.nextNetId[source] = drain
  <2>1. Redirected(a, v, source, drain, r, P)
    BY <1>7, StaleLinkReaches, ZenonT(40)
  <2> HIDE DEF a
  <2> QED
    BY <2>1, Zenon DEF Redirected
<1>9. PICK x, M : first = [v |-> x, needs |-> M] /\ (x = v \/ x = a)
  BY EstimatedIs, SMTT(30)
<1> HIDE DEF a
<1> DEFINE w == Link(Stale(x), drain, source, r)
<1>10. second.v = x \/ second.v = w
  <2>1. second \in Estimated([v |-> x, needs |-> M], drain, source, fs, r)
    BY <1>9, Zenon
  <2>2. PICK K : \/ second = [v |-> x, needs |-> K]
                 \/ second = [v |-> w, needs |-> K]
    BY <2>1, EstimatedIs
  <2> HIDE DEF w
  <2> QED
    BY <2>2
<1>11. Sound(x) /\ Reaches(x, P)
  BY <1>8, <1>9, Zenon
<1>12. Sound(w) /\ Reaches(w, P)
  <2>1. CASE x = v
    BY <2>1, <1>7, StaleLinkReaches, Zenon DEF Redirected
  \* The drain does not go back to the source.
  <2>2. CASE x = a
    <3>1. source # drain
      BY Zenon
    <3>2. x \in Vectors /\ Stale(x).nextNetId = x.nextNetId
      BY <1>11, SoundFacts DEF Stale, Vectors
    <3>3. w = Stale(x)
      BY <2>2, <3>1, <3>2, <1>8, Zenon DEF Link, SetNet
    <3> QED
      BY <3>3, <1>11, StaleIsSound, Zenon
  <2> QED
    BY <2>1, <2>2, <1>9, Zenon
<1> HIDE DEF w
<1> QED
  BY <1>10, <1>11, <1>12, Zenon

-----------------------------------------------------------------------------
(* The inductive invariant.                                                *)

TypeOK ==
    /\ leakVoltageSet \in BOOLEAN
    /\ virtualNet_v \in Vectors
    /\ dangling \in SUBSET Nets
    /\ power \in SUBSET Nets
    /\ defaultNet \in [Nets -> Nets]

\* RemoveInvalidPower may leave any values in the vectors of the first propagation, but no
\* propagation follows there.  It leaves no loop when the program goes on.
IInv ==
    /\ TypeOK
    /\ unexpected = FALSE
    /\ phase = "propagate" \/ leakVoltageSet
          => Sound(virtualNet_v) /\ Reaches(virtualNet_v, power)
    /\ phase # "abort" => Acyclic(virtualNet_v)

LEMMA InitIInv ==
    ASSUME Init
    PROVE  IInv
<1>1. PICK next \in [Nets -> Nets],
           divider \in [power -> IF leakVoltageSet THEN {0} ELSE {0} \cup Dividers] :
          LET res == [n \in Nets |-> IF n \in dangling THEN 1
                                     ELSE IF n \in power THEN divider[n] ELSE 0]
          IN  /\ \A n \in Nets : (next[n] = n) = (n \notin dangling)
              /\ virtualNet_v = [nextNetId |-> next, resistance |-> res,
                                 finalNetId |-> next, finalResistance |-> res,
                                 lastUpdate |-> 0, lastUpdate_v |-> [n \in Nets |-> 0]]
              /\ \A n \in Nets : Walk(virtualNet_v, n).net \notin dangling
  BY Zenon DEF Init
<1> DEFINE v == virtualNet_v
           res == [n \in Nets |-> IF n \in dangling THEN 1
                                  ELSE IF n \in power THEN divider[n] ELSE 0]
<1>2. dangling \in SUBSET Nets /\ power \in SUBSET Live /\ leakVoltageSet \in BOOLEAN
      /\ unexpected = FALSE
  BY Zenon DEF Init
<1>3. defaultNet \in [Nets -> Nets]
  <2>1. PICK rail \in Nets :
           defaultNet = [n \in Nets |-> IF n \in calculated THEN rail ELSE n]
    BY Zenon DEF Init
  <2> QED
    BY <2>1, Zenon
<1>4. res \in [Nets -> Nat] /\ \A n \in Live : res[n] <= MAX_RESISTANCE
  <2>1. ASSUME NEW n \in power
        PROVE  divider[n] \in Nat /\ divider[n] <= MAX_RESISTANCE
    <3>1. divider[n] \in {0} \cup Dividers
      <4>1. divider[n] \in IF leakVoltageSet THEN {0} ELSE {0} \cup Dividers
        BY Zenon
      <4> QED
        BY <4>1, Zenon
    <3>2. divider[n] = 0 \/ divider[n] \in 1 .. MAX_RESISTANCE
      BY <3>1, ResistancesAssumption, Zenon
    <3> QED
      BY <3>2, MaxAssumption
  <2> QED
    BY <2>1, <1>2, MaxAssumption DEF Live
<1> HIDE DEF res
<1>5. /\ v.nextNetId = next /\ v.resistance = res /\ v.finalNetId = next
      /\ v.finalResistance = res /\ v.lastUpdate = 0 /\ v.lastUpdate_v = [n \in Nets |-> 0]
  BY <1>1, Zenon DEF res
<1>6. v \in Vectors
  BY <1>1, <1>4, Zenon DEF Vectors, res
<1>7. Chains(v)
  BY <1>6, VectorsHaveChains, Zenon
<1>8. Acyclic(v)
  <2>1. ASSUME NEW n \in Nets
        PROVE  IsTerminal(v, Walk(v, n).net)
    <3>1. Walk(v, n).net \in Nets
      BY <1>7, WalkType, Zenon
    <3> QED
      BY <3>1, <1>1, <1>5, Zenon DEF IsTerminal
  <2> QED
    BY <1>7, <2>1, EndedIsAcyclic, Zenon
<1>9. ASSUME NEW n \in Live
      PROVE  IsTerminal(v, n) /\ Current(v, n) /\ v.nextNetId[n] \in Live
  <2>1. n \in Nets /\ n \notin dangling
    BY Zenon DEF Live
  <2>2. next[n] = n
    BY <1>1, <2>1, Zenon
  <2>3. IsTerminal(v, n)
    BY <1>5, <2>2, Zenon DEF IsTerminal
  <2>4. Walk(v, n) = [net |-> n, sum |-> AddResistance(0, res[n])]
    BY <1>5, <1>7, <2>1, <2>3, WalkTerminal
  <2>5. AddResistance(0, res[n]) = res[n]
    BY <1>4, <2>1, MaxAssumption DEF AddResistance
  <2> QED
    BY <1>5, <2>2, <2>3, <2>4, <2>5 DEF Current
<1>10. Sound(v)
  BY <1>5, <1>6, <1>8, <1>9 DEF Sound, Cached
<1>11. Reaches(v, power)
  BY <1>9, Zenon DEF Reaches
<1> QED
  BY <1>2, <1>3, <1>6, <1>8, <1>10, <1>11, Zenon DEF IInv, TypeOK, Live

\* A step to a sound vector keeps the invariant.
LEMMA SoundStep ==
    ASSUME IInv, NEW w, Sound(w), Reaches(w, power), virtualNet_v' = w,
           leakVoltageSet' = leakVoltageSet, dangling' = dangling, unexpected' = unexpected,
           power \subseteq power', power' \in SUBSET Nets, defaultNet' \in [Nets -> Nets]
    PROVE  IInv'
<1>1. TypeOK'
  BY Zenon DEF IInv, TypeOK, Sound
<1>2. Sound(virtualNet_v)'
  BY Zenon DEF Sound, Cached, Live
<1>3. Reaches(virtualNet_v, power)'
  BY Zenon DEF Reaches, Live
<1>4. Acyclic(virtualNet_v)'
  BY <1>2, Zenon DEF Sound
<1> QED
  BY <1>1, <1>2, <1>3, <1>4, Zenon DEF IInv

\* What a step that handles a device between n and m starts from.
LEMMA HandlesSound ==
    ASSUME IInv, NEW n \in Nets, NEW m \in Nets, Handles(n, m),
           NEW v, v = Lookup(Lookup(virtualNet_v, n), m)
    PROVE  /\ n \in Live /\ m \in Live
           /\ Sound(v) /\ Reaches(v, power) /\ Current(v, n) /\ Current(v, m)
           /\ \A x \in Nets : Walk(v, x) = Walk(virtualNet_v, x)
           /\ Walk(v, n).sum < MAX_RESISTANCE /\ Walk(v, m).sum < MAX_RESISTANCE
<1>1. n \in Live /\ m \in Live /\ phase = "propagate" /\ ~Asserts(n) /\ ~Asserts(m)
  BY Zenon DEF Handles
<1>2. Sound(virtualNet_v) /\ Reaches(virtualNet_v, power)
  BY <1>1, Zenon DEF IInv
<1>3. /\ Sound(v) /\ SameLinks(v, virtualNet_v) /\ Current(v, n) /\ Current(v, m)
      /\ \A x \in Nets : Walk(v, x) = Walk(virtualNet_v, x)
  BY <1>1, <1>2, LookupsSound, Zenon
<1>4. Reaches(v, power)
  BY <1>2, <1>3, Zenon DEF Reaches, SameLinks, IsTerminal, Live
<1>5. ASSUME NEW x \in Live, ~Asserts(x)
      PROVE  Walk(v, x).sum < MAX_RESISTANCE
  <2> DEFINE u == Lookup(virtualNet_v, x)
  <2>1. x \in Nets
    BY Zenon DEF Live
  <2>2. /\ Sound(u) /\ Walk(u, x) = Walk(virtualNet_v, x)
        /\ u.lastUpdate_v[x] = u.lastUpdate
    BY <1>2, <2>1, LookupSound, SMTT(30)
  <2>3. u.finalResistance[x] = Walk(u, x).sum
    BY <2>1, <2>2, Zenon DEF Sound, Cached, Current
  <2>4. ~ (u.finalResistance[x] >= MAX_RESISTANCE)
    BY <1>5, Zenon DEF Asserts
  <2>5. Walk(v, x).sum \in Nat /\ Walk(v, x) = Walk(virtualNet_v, x)
    BY <1>3, <2>1, SoundFacts, WalkType, Zenon
  <2> HIDE DEF u
  <2> QED
    BY <2>2, <2>3, <2>4, <2>5, MaxAssumption
<1> QED
  BY <1>1, <1>3, <1>4, <1>5, Zenon

LEMMA LookUpKeeps ==
    ASSUME IInv, NEW n \in Nets, LookUp(n)
    PROVE  IInv'
<1>1. phase = "propagate"
  BY Zenon DEF LookUp
<1>2. Sound(virtualNet_v) /\ Reaches(virtualNet_v, power)
  BY <1>1, Zenon DEF IInv
<1> DEFINE w == Lookup(virtualNet_v, n)
<1>3. /\ Sound(w) /\ SameLinks(w, virtualNet_v)
      /\ \A x \in Nets : Walk(w, x) = Walk(virtualNet_v, x)
  BY <1>2, LookupSound, Zenon
<1>4. Reaches(w, power)
  BY <1>2, <1>3, Zenon DEF Reaches, SameLinks, IsTerminal, Live
<1>5. virtualNet_v' = w
  BY Zenon DEF LookUp
<1> HIDE DEF w
<1> QED
  BY <1>3, <1>4, <1>5, SoundStep, Zenon DEF LookUp, IInv, TypeOK

LEMMA ShortNetsKeeps ==
    ASSUME IInv, NEW slave \in Nets, NEW master \in Nets, NEW r \in Resistances,
           ShortNets(slave, master, r)
    PROVE  IInv'
<1> DEFINE v == Mapped(slave, master)
           w == Link(v, slave, master, r)
<1>1. /\ Handles(slave, master) /\ KnownIn(v, master) /\ ~KnownIn(v, slave)
      /\ virtualNet_v' = w
      /\ UNCHANGED <<leakVoltageSet, dangling, power, defaultNet, unexpected>>
  BY Zenon DEF ShortNets
<1>2. v = Lookup(Lookup(virtualNet_v, slave), master)
  BY Zenon DEF Mapped
<1> HIDE DEF v
<1>3. /\ slave \in Live /\ master \in Live /\ Sound(v) /\ Reaches(v, power)
      /\ Current(v, slave) /\ Current(v, master)
  BY <1>1, <1>2, HandlesSound, Zenon
<1>4. Walk(v, master).net \in power /\ Walk(v, slave).net \notin power
  BY <1>1, <1>3, Zenon DEF KnownIn, Current
<1>5. r \in Nat
  BY ResistancesAssumption, Zenon
<1>6. Sound(w) /\ Reaches(w, power)
  BY <1>3, <1>4, <1>5, FreshLinkSound, Zenon
<1> HIDE DEF w
<1> QED
  BY <1>1, <1>6, SoundStep, Zenon DEF IInv, TypeOK

LEMMA ShortNetsCalculatedKeeps ==
    ASSUME IInv, NEW slave \in Nets, NEW master \in Nets, NEW r \in Resistances,
           ShortNetsCalculated(slave, master, r)
    PROVE  IInv'
<1> DEFINE v == Mapped(slave, master)
<1>1. /\ Handles(slave, master) /\ KnownIn(v, master) /\ ~KnownIn(v, slave)
      /\ power' = power \cup {slave}
      /\ defaultNet' = [defaultNet EXCEPT ![slave] = master]
      /\ UNCHANGED <<leakVoltageSet, dangling, unexpected>>
  BY Zenon DEF ShortNetsCalculated
<1>2. PICK k \in Nat : virtualNet_v' = Link(v, slave, slave, k * r + v.finalResistance[master])
  BY DEF ShortNetsCalculated
<1>3. v = Lookup(Lookup(virtualNet_v, slave), master)
  BY Zenon DEF Mapped
<1> HIDE DEF v
<1>4. /\ slave \in Live /\ master \in Live /\ Sound(v) /\ Reaches(v, power)
      /\ Current(v, slave)
  BY <1>1, <1>3, HandlesSound, Zenon
<1>5. Walk(v, slave).net \notin power
  BY <1>1, <1>4, Zenon DEF KnownIn, Current
<1> DEFINE q == k * r + v.finalResistance[master]
           w == Link(v, slave, slave, q)
<1>6. q \in Nat
  <2>1. r \in Nat /\ k * r \in Nat
    BY ResistancesAssumption
  <2>2. v.finalResistance[master] \in Nat
    BY <1>4, SoundFacts DEF Vectors
  <2> QED
    BY <2>1, <2>2
<1>7. virtualNet_v' = w
  BY <1>2, Zenon
<1> HIDE DEF q
<1>8. Sound(w) /\ Reaches(w, power)
  BY <1>4, <1>5, <1>6, FreshLinkSound, Zenon
<1> HIDE DEF w
<1>9. power' \in SUBSET Nets /\ power \subseteq power' /\ defaultNet' \in [Nets -> Nets]
  BY <1>1, Zenon DEF IInv, TypeOK
<1> QED
  BY <1>1, <1>7, <1>8, <1>9, SoundStep, Zenon

LEMMA EstimateKeeps ==
    ASSUME IInv, NEW n \in Nets, NEW source \in Nets, NEW r \in Resistances,
           Estimate(n, source, r)
    PROVE  IInv'
<1> DEFINE v == Mapped(source, n)
           w == Link(v, n, n, 100 * r)
<1>1. /\ Handles(source, n) /\ KnownIn(v, source) /\ ~KnownIn(v, n)
      /\ virtualNet_v' = w
      /\ power' = power \cup {n}
      /\ defaultNet' = [defaultNet EXCEPT ![n] = source]
      /\ UNCHANGED <<leakVoltageSet, dangling, unexpected>>
  BY Zenon DEF Estimate
<1>2. v = Lookup(Lookup(virtualNet_v, source), n)
  BY Zenon DEF Mapped
<1> HIDE DEF v
<1>3. /\ n \in Live /\ Sound(v) /\ Reaches(v, power) /\ Current(v, n)
  BY <1>1, <1>2, HandlesSound, Zenon
<1>4. Walk(v, n).net \notin power
  BY <1>1, <1>3, Zenon DEF KnownIn, Current
<1>5. 100 * r \in Nat
  BY ResistancesAssumption
<1>6. Sound(w) /\ Reaches(w, power)
  BY <1>3, <1>4, <1>5, FreshLinkSound, Zenon
<1> HIDE DEF w
<1>7. power' \in SUBSET Nets /\ power \subseteq power' /\ defaultNet' \in [Nets -> Nets]
  BY <1>1, Zenon DEF IInv, TypeOK
<1> QED
  BY <1>1, <1>6, <1>7, SoundStep, Zenon

LEMMA RerouteKeeps ==
    ASSUME IInv, NEW drain \in Nets, NEW source \in Nets, NEW r \in Resistances,
           Reroute(drain, source, r)
    PROVE  IInv'
<1>1. PICK v, x, s :
         /\ v = Lookup(Lookup(virtualNet_v, source), drain)
         /\ x = Link(Stale(v), drain, source, r)
         /\ s = ShiftVirtualNets(x, drain, v.nextNetId[drain],
                   v.resistance[drain], v.finalResistance[source] + r, v.finalResistance[drain])
         /\ Handles(source, drain) /\ SameMaster(v, source, drain) /\ ~IsTerminal(v, drain)
         /\ Better(v, drain, source, r)
         /\ virtualNet_v' = s.v
         /\ unexpected' = (unexpected \/ s.odd)
         /\ UNCHANGED <<leakVoltageSet, dangling, power, defaultNet>>
  BY Zenon DEF Reroute, Mapped
<1>2. /\ source \in Live /\ drain \in Live /\ Sound(v) /\ Reaches(v, power)
      /\ Current(v, source) /\ Current(v, drain) /\ Walk(v, drain).sum < MAX_RESISTANCE
  BY <1>1, HandlesSound, Zenon
<1>3. Walk(v, source).net = Walk(v, drain).net /\ Walk(v, source).net \in power
  BY <1>1, <1>2, Zenon DEF SameMaster, KnownIn, Current
<1>4. r \in Nat
  BY ResistancesAssumption, Zenon
<1>5. source \notin Behind(v, drain)
  BY <1>1, <1>2, <1>4, BetterIsNotBehind, Zenon
<1>6. Redirected(x, v, drain, source, r, power)
  BY <1>1, <1>2, <1>3, <1>4, <1>5, StaleLinkReaches, Zenon
<1>7. Turning(s, power)
  BY <1>1, <1>2, <1>3, <1>4, <1>6, RerouteTurns, ShiftSound, Zenon
<1>8. Sound(s.v) /\ Reaches(s.v, power) /\ s.odd = FALSE
  BY <1>7, Zenon DEF Turning
<1>9. unexpected' = unexpected
  BY <1>1, <1>8, Zenon DEF IInv
<1> QED
  BY <1>1, <1>8, <1>9, SoundStep, Zenon DEF IInv, TypeOK

LEMMA RerouteDirectKeeps ==
    ASSUME IInv, NEW drain \in Nets, NEW source \in Nets, NEW r \in Resistances,
           RerouteDirect(drain, source, r)
    PROVE  IInv'
<1> DEFINE v == Mapped(source, drain)
           w == Link(Stale(v), drain, source, r)
<1>1. /\ Handles(source, drain) /\ SameMaster(v, source, drain)
      /\ ~IsTerminal(v, drain) /\ IsTerminal(v, source)
      /\ virtualNet_v' = w
      /\ UNCHANGED <<leakVoltageSet, dangling, power, defaultNet, unexpected>>
  BY Zenon DEF RerouteDirect
<1>2. v = Lookup(Lookup(virtualNet_v, source), drain)
  BY Zenon DEF Mapped
<1> HIDE DEF v
<1>3. /\ source \in Live /\ drain \in Live /\ Sound(v) /\ Reaches(v, power)
      /\ Current(v, source)
  BY <1>1, <1>2, HandlesSound, Zenon
<1>4. Walk(v, source).net \in power
  BY <1>1, <1>3, Zenon DEF SameMaster, KnownIn, Current
<1>5. source \notin Behind(v, drain)
  <2>1. source # drain
    BY <1>1, Zenon
  <2> QED
    BY <1>1, <1>3, <2>1, SoundFacts, BehindCloses, Zenon
<1>6. r \in Nat
  BY ResistancesAssumption, Zenon
<1>7. Sound(w) /\ Reaches(w, power)
  BY <1>3, <1>4, <1>5, <1>6, StaleLinkReaches, Zenon DEF Redirected
<1> HIDE DEF w
<1> QED
  BY <1>1, <1>7, SoundStep, Zenon DEF IInv, TypeOK

LEMMA RerouteEstimateKeeps ==
    ASSUME IInv, NEW source \in Nets, NEW drain \in Nets, NEW r \in Resistances,
           RerouteEstimate(source, drain, r)
    PROVE  IInv'
<1>1. PICK v :
         /\ v = Lookup(Lookup(virtualNet_v, source), drain)
         /\ Handles(source, drain) /\ OtherMaster(v, source, drain)
         /\ \E first \in Estimated([v |-> v, needs |-> needs], source, drain,
                                   v.finalNetId[drain], r) :
            \E second \in Estimated(first, drain, source, v.finalNetId[source], r) :
               virtualNet_v' = second.v
         /\ UNCHANGED <<leakVoltageSet, dangling, power, defaultNet, unexpected>>
  BY Zenon DEF RerouteEstimate, Mapped
<1>2. PICK first \in Estimated([v |-> v, needs |-> needs], source, drain,
                               v.finalNetId[drain], r) :
      \E second \in Estimated(first, drain, source, v.finalNetId[source], r) :
         virtualNet_v' = second.v
  BY <1>1, Zenon
<1>3. PICK second \in Estimated(first, drain, source, v.finalNetId[source], r) :
         virtualNet_v' = second.v
  BY <1>2, Zenon
<1>5. /\ source \in Live /\ drain \in Live /\ Sound(v) /\ Reaches(v, power)
      /\ Current(v, source) /\ Current(v, drain)
  BY <1>1, HandlesSound, Zenon
<1>6. /\ Walk(v, source).net # Walk(v, drain).net
      /\ Walk(v, source).net \in power /\ Walk(v, drain).net \in power
  BY <1>1, <1>5, Zenon DEF OtherMaster, KnownIn, Current
<1>7. r \in Nat
  BY ResistancesAssumption, Zenon
<1>13. Sound(second.v) /\ Reaches(second.v, power)
  BY <1>5, <1>6, <1>7, EstimatesSound, Zenon
<1> QED
  BY <1>1, <1>3, <1>13, SoundStep, Zenon DEF IInv, TypeOK

LEMMA RecalculateKeeps ==
    ASSUME IInv, Recalculate
    PROVE  IInv'
<1> DEFINE v == virtualNet_v
           fn == [n \in Nets |-> Lookup(v, n).finalNetId[n]]
           fr == [n \in Nets |-> Lookup(v, n).finalResistance[n]]
           w == [v EXCEPT !.finalNetId = fn, !.finalResistance = fr,
                          !.lastUpdate = 0, !.lastUpdate_v = [n \in Nets |-> 0]]
<1>1. /\ phase' = "done" /\ virtualNet_v' = w
      /\ UNCHANGED <<leakVoltageSet, dangling, power, defaultNet, unexpected>>
  BY Zenon DEF Recalculate
<1>2. v \in Vectors
  BY Zenon DEF IInv, TypeOK
<1>3. fn \in [Nets -> Nets] /\ fr \in [Nets -> Nat]
  <2>1. ASSUME NEW n \in Nets
        PROVE  Lookup(v, n).finalNetId[n] \in Nets /\ Lookup(v, n).finalResistance[n] \in Nat
    <3>1. Lookup(v, n) \in Vectors
      BY <1>2, LookupType, Zenon
    <3> QED
      BY <3>1, Zenon DEF Vectors
  <2> QED
    BY <2>1, Zenon
<1> HIDE DEF fn, fr
<1>4. /\ w \in Vectors /\ SameLinks(w, v)
      /\ w.finalNetId = fn /\ w.finalResistance = fr
      /\ w.lastUpdate = 0 /\ w.lastUpdate_v = [n \in Nets |-> 0]
  BY <1>2, <1>3, Zenon DEF Vectors, SameLinks
<1> HIDE DEF w
<1>5. CASE leakVoltageSet
  <2>1. Sound(v) /\ Reaches(v, power) /\ Chains(v) /\ Acyclic(v)
    BY <1>5, SoundFacts, Zenon DEF IInv
  <2>2. /\ Acyclic(w)
        /\ \A x \in Nets : Walk(w, x) = Walk(v, x) /\ (IsTerminal(w, x) <=> IsTerminal(v, x))
    BY <1>4, <2>1, SameLinksSameWalks, Zenon
  <2>3. ASSUME NEW x \in Live
        PROVE  Current(w, x)
    <3> DEFINE u == Lookup(v, x)
    <3>1. x \in Nets
      BY Zenon DEF Live
    <3>2. /\ Sound(u) /\ Walk(u, x) = Walk(v, x) /\ u.lastUpdate_v[x] = u.lastUpdate
      BY <2>1, <3>1, LookupSound, SMTT(30)
    <3>3. Current(u, x)
      BY <3>1, <3>2, Zenon DEF Sound, Cached
    <3>4. w.finalNetId[x] = u.finalNetId[x] /\ w.finalResistance[x] = u.finalResistance[x]
      BY <1>4, <3>1, Zenon DEF fn, fr
    <3> HIDE DEF u
    <3> QED
      BY <2>2, <3>1, <3>2, <3>3, <3>4, Zenon DEF Current
  <2>4. Sound(w)
    BY <1>4, <2>2, <2>3, SMTT(30) DEF Sound, Cached
  <2>5. Reaches(w, power)
    BY <1>4, <2>1, <2>2, Zenon DEF Reaches, SameLinks, Live
  <2> QED
    BY <1>1, <2>4, <2>5, SoundStep, Zenon DEF IInv, TypeOK
<1>6. CASE ~leakVoltageSet
  <2>1. Acyclic(v) /\ Chains(v)
    BY <1>2, VectorsHaveChains, Zenon DEF IInv, Recalculate
  <2>2. Acyclic(w)
    BY <1>4, <2>1, SameLinksSameWalks, Zenon
  <2> QED
    BY <1>1, <1>4, <1>6, <2>2, Zenon DEF IInv, TypeOK
<1> QED
  BY <1>5, <1>6, Zenon

LEMMA RemoveInvalidPowerKeeps ==
    ASSUME IInv, NEW n \in Nets, RemoveInvalidPower(n)
    PROVE  IInv'
<1> DEFINE v == Lookup(virtualNet_v, n)
           m == defaultNet[n]
           w == Link(v, n, m, DEFAULT_UNKNOWN_RESISTANCE)
<1>1. /\ phase = "remove" /\ leakVoltageSet = FALSE /\ leakVoltageSet' = FALSE
      /\ power' = power \ {n} /\ (virtualNet_v' = v \/ virtualNet_v' = w)
      /\ UNCHANGED <<dangling, defaultNet, unexpected>>
      /\ phase' \in {"remove", "abort"}
      /\ phase' # "abort" => IsTerminal(virtualNet_v', Walk(virtualNet_v', n).net)
  BY Zenon DEF RemoveInvalidPower, IInv, TypeOK
<1>2. virtualNet_v \in Vectors /\ v \in Vectors /\ SameLinks(v, virtualNet_v)
  BY LookupType, Zenon DEF IInv, TypeOK
<1>3. Chains(v) /\ Acyclic(v)
  <2>1. Chains(virtualNet_v) /\ Acyclic(virtualNet_v)
    BY <1>1, <1>2, VectorsHaveChains, Zenon DEF IInv
  <2> QED
    BY <1>2, <2>1, SameLinksSameWalks, Zenon
<1> HIDE DEF v
<1>4. v.lastUpdate \in Nat /\ m \in Nets /\ DEFAULT_UNKNOWN_RESISTANCE \in Nat
  BY <1>2, MaxAssumption, Zenon DEF Vectors, IInv, TypeOK
<1> HIDE DEF m
<1>5. w = SetNet(v, n, m, DEFAULT_UNKNOWN_RESISTANCE, v.lastUpdate)
  BY Zenon DEF Link
<1> HIDE DEF w
<1>6. w \in Vectors
  BY <1>2, <1>4, <1>5, SetNetType, Zenon
<1>7. ASSUME IsTerminal(w, Walk(w, n).net)
      PROVE  Acyclic(w)
  <2>1. CASE v.nextNetId[m] = n /\ m # n
    <3>1. w = v
      BY <1>5, <2>1, Zenon DEF SetNet
    <3> QED
      BY <1>3, <3>1, Zenon
  <2>2. CASE ~ (v.nextNetId[m] = n /\ m # n)
    <3>1. PICK u : /\ Chains(u) /\ Relinked(u, v, n, m, DEFAULT_UNKNOWN_RESISTANCE)
                   /\ SameLinks(w, u)
      BY <1>2, <1>4, <1>5, <2>2, SetNetType, Zenon
    <3>2. Relinked(w, v, n, m, DEFAULT_UNKNOWN_RESISTANCE) /\ Chains(w)
      BY <1>6, <3>1, VectorsHaveChains, Zenon DEF Relinked, SameLinks
    <3> QED
      BY <1>3, <1>4, <1>7, <3>2, EndedRelink, Zenon
  <2> QED
    BY <2>1, <2>2, Zenon
<1>8. phase' # "abort" => Acyclic(virtualNet_v')
  BY <1>1, <1>3, <1>7, Zenon
<1>9. TypeOK' /\ unexpected' = FALSE
  BY <1>1, <1>2, <1>6, Zenon DEF IInv, TypeOK
<1>10. phase' # "propagate"
  BY <1>1
<1> QED
  BY <1>1, <1>8, <1>9, <1>10, Zenon DEF IInv, Acyclic, Ranked, IsTerminal

LEMMA NextPassKeeps ==
    ASSUME IInv, NextPass
    PROVE  IInv'
<1>1. /\ leakVoltageSet /\ power \subseteq power' /\ power' \in SUBSET Nets
      /\ UNCHANGED <<leakVoltageSet, virtualNet_v, dangling, defaultNet, unexpected>>
  BY Zenon DEF NextPass, IInv, TypeOK, Live
<1>2. Sound(virtualNet_v) /\ Reaches(virtualNet_v, power)
  BY <1>1, Zenon DEF IInv
<1> QED
  BY <1>1, <1>2, SoundStep, Zenon DEF IInv, TypeOK

\* The steps that leave the vector alone.
LEMMA IdleKeeps ==
    ASSUME IInv, phase' = "propagate" => phase = "propagate", phase' # "abort" => phase # "abort",
           UNCHANGED <<leakVoltageSet, virtualNet_v, dangling, power, defaultNet, unexpected>>
    PROVE  IInv'
<1>1. TypeOK' /\ unexpected' = FALSE
  BY Zenon DEF IInv, TypeOK
<1>2. CASE phase = "propagate" \/ leakVoltageSet
  <2>1. Sound(virtualNet_v) /\ Reaches(virtualNet_v, power)
    BY <1>2, Zenon DEF IInv
  <2> QED
    BY <2>1, SoundStep, Zenon DEF IInv, TypeOK
<1>3. CASE ~ (phase = "propagate" \/ leakVoltageSet)
  <2>1. phase' # "abort" => Acyclic(virtualNet_v)
    BY Zenon DEF IInv
  <2> QED
    BY <1>1, <1>3, <2>1, Zenon DEF IInv
<1> QED
  BY <1>2, <1>3, Zenon

LEMMA NextKeeps ==
    ASSUME IInv, [Next]_vars
    PROVE  IInv'
<1>1. ASSUME NEW n \in Nets, LookUp(n)
      PROVE  IInv'
  BY <1>1, LookUpKeeps, Zenon
<1>2. ASSUME NEW n \in Nets, AssertFails(n) \/ AcceptEstimate(n)
      PROVE  IInv'
  BY <1>2, IdleKeeps, Zenon DEF AssertFails, AcceptEstimate
<1>3. ASSUME NEW n \in Nets, RemoveInvalidPower(n)
      PROVE  IInv'
  BY <1>3, RemoveInvalidPowerKeeps, Zenon
<1>4. ASSUME NEW n \in Nets, NEW m \in Nets, NEW r \in Resistances,
             \/ ShortNets(n, m, r) \/ ShortNetsCalculated(n, m, r) \/ Estimate(n, m, r)
      PROVE  IInv'
  BY <1>4, ShortNetsKeeps, ShortNetsCalculatedKeeps, EstimateKeeps, Zenon
<1>5. ASSUME NEW n \in Nets, NEW m \in Nets, NEW r \in Resistances,
             \/ Reroute(n, m, r) \/ RerouteDirect(n, m, r) \/ RerouteEstimate(n, m, r)
      PROVE  IInv'
  BY <1>5, RerouteKeeps, RerouteDirectKeeps, RerouteEstimateKeeps, Zenon
<1>6. CASE EndPropagation \/ Stopped
  BY <1>6, IdleKeeps, SMTT(30) DEF EndPropagation, Stopped, vars
<1>7. CASE Recalculate \/ NextPass
  BY <1>7, RecalculateKeeps, NextPassKeeps, Zenon
<1>8. CASE UNCHANGED vars
  BY <1>8, IdleKeeps, Zenon DEF vars
<1> QED
  BY <1>1, <1>2, <1>3, <1>4, <1>5, <1>6, <1>7, <1>8, SMTT(30) DEF Next

\* The vector of a propagation is sound and its live chains reach voltages, for
\* any nets, resistances and number of passes.
THEOREM VectorIsSound == Spec => []IInv
<1>1. Init => IInv
  BY InitIInv, Zenon
<1>2. IInv /\ [Next]_vars => IInv'
  BY NextKeeps, Zenon
<1> QED
  BY <1>1, <1>2, PTL DEF Spec

\* No loop of next nets outlives a step: no Set of a propagation, no shift and no
\* reroute of an estimate closes one, and the assertion in Set ends the program when
\* the fallback of RemoveInvalidPower does.
THEOREM ChainsFormAForest == Spec => []Forest
<1>1. IInv => Forest
  <2> SUFFICES ASSUME IInv, phase # "abort", NEW n \in Nets
               PROVE  IsTerminal(virtualNet_v, Master(n))
    BY Zenon DEF Forest
  <2>1. Chains(virtualNet_v) /\ Acyclic(virtualNet_v)
    BY VectorsHaveChains, Zenon DEF IInv, TypeOK
  <2> QED
    BY <2>1, WalkEnds, Zenon DEF Master
<1> QED
  BY <1>1, VectorIsSound, PTL

\* A lookup of a net with devices returns the end of its chain and the resistance
\* to it, although most writers do not advance lastUpdate.
THEOREM LookupsReturnTheEnd == Spec => []LookupsAreExact
<1>1. IInv => LookupsAreExact
  <2> SUFFICES ASSUME IInv, phase = "propagate", NEW n \in Live
               PROVE  LET v == Lookup(virtualNet_v, n)
                      IN  /\ IsTerminal(virtualNet_v, Master(n))
                          /\ v.finalNetId[n] = Master(n)
                          /\ v.finalResistance[n] = Walk(virtualNet_v, n).sum
    BY Zenon DEF LookupsAreExact
  <2> DEFINE v == Lookup(virtualNet_v, n)
  <2>1. n \in Nets /\ Sound(virtualNet_v)
    BY Zenon DEF Live, IInv
  <2>2. IsTerminal(virtualNet_v, Master(n))
    BY <2>1, SoundFacts, WalkEnds, Zenon DEF Master
  <2>3. /\ Sound(v) /\ Walk(v, n) = Walk(virtualNet_v, n)
        /\ v.lastUpdate_v[n] = v.lastUpdate
    BY <2>1, LookupSound, SMTT(30)
  <2>4. Current(v, n)
    BY <2>1, <2>3, Zenon DEF Sound, Cached
  <2> HIDE DEF v
  <2> QED
    BY <2>2, <2>3, <2>4, Zenon DEF Current, Master, v
<1> QED
  BY <1>1, VectorIsSound, PTL

\* ShiftVirtualNets never prints an unexpected resistance.
THEOREM ShiftsFindTheirResistances == Spec => []ShiftsAsExpected
<1>1. IInv => ShiftsAsExpected
  BY Zenon DEF IInv, ShiftsAsExpected
<1> QED
  BY <1>1, VectorIsSound, PTL

=============================================================================
