-------------------------- MODULE PowerListProofs ---------------------------
(***************************************************************************)
(* The list of powers and the voltages of the classes, for any number of   *)
(* nets, any switches and any power files.                                 *)
(*                                                                         *)
(* An entry of the list owns the power of a net, or is a copy that no net  *)
(* points to.  LInv says that no two entries own the power of one net, and *)
(* that SetModePower has yet to visit only entries that own none; so the   *)
(* copies that take the place of one entry are new owners.  That a family  *)
(* is expanded to exactly what it means needs that it was not expanded     *)
(* before (Plain), although the list is given to the nets again.           *)
(*                                                                         *)
(* DInv follows the voltages: when two classes become one, the voltages of *)
(* the class that gives up its power are one threshold further away from   *)
(* the power of the new class than from the one given up.                  *)
(***************************************************************************)
EXTENDS PowerSetupProofs, FiniteSetTheorems

-----------------------------------------------------------------------------
(* Powers as the lines define them.                                        *)

\* A power whose family is not expanded yet, with voltages of the files.
Plain(p) ==
    /\ {"relativeSet", "family", "implicitFamily", "min", "sim", "max"} \subseteq DOMAIN p
    /\ p.relativeSet = {}
    /\ p.min \in Voltages /\ p.sim \in Voltages /\ p.max \in Voltages

PlainMacros(macros) == \A name \in DOMAIN macros : Plain(macros[name])

LEMMA PowerOfIsPlain ==
    ASSUME NEW line \in Lines \cup InstanceLines, NEW macros, PlainMacros(macros),
           ~IsUndefined(line, macros)
    PROVE  Plain(PowerOf(line, macros))
<1> DEFINE v == IF line.of = "" THEN line ELSE macros[line.of]
           p == PowerOf(line, macros)
<1>1. v.min \in Voltages /\ v.sim \in Voltages /\ v.max \in Voltages
  <2>1. CASE line.of = ""
    <3>1. ASSUME NEW level \in Levels
          PROVE  line[level] \in Voltages
      <4> DEFINE V(x) == {x[l] : l \in Levels}
      <4>1. line[level] \in V(line)
        BY Zenon
      <4> HIDE DEF V
      <4>2. line[level] \in UNION {V(x) : x \in Lines \cup InstanceLines}
        BY <4>1, Zenon
      <4> QED
        BY <4>2, Zenon DEF Voltages, V
    <3> QED
      BY <2>1, <3>1, Zenon DEF Levels
  <2>2. CASE line.of # ""
    BY <2>2, Zenon DEF IsUndefined, PlainMacros, Plain
  <2> QED
    BY <2>1, <2>2, Zenon
<1>2. /\ {"relativeSet", "family", "implicitFamily", "min", "sim", "max"} \subseteq DOMAIN p
      /\ p.relativeSet = {} /\ p.min = v.min /\ p.sim = v.sim /\ p.max = v.max
  BY Zenon DEF PowerOf
<1> QED
  BY <1>1, <1>2, Zenon DEF Plain

LEMMA AsExpectedIsPlain ==
    ASSUME NEW p, Plain(p)
    PROVE  Plain(AsExpected(p))
<1> DEFINE q == AsExpected(p)
<1>1. /\ DOMAIN q = DOMAIN p /\ q.relativeSet = p.relativeSet
      /\ q.min = UNKNOWN_VOLTAGE /\ q.sim = UNKNOWN_VOLTAGE /\ q.max = UNKNOWN_VOLTAGE
  BY Zenon DEF Plain, AsExpected
<1>2. UNKNOWN_VOLTAGE \in Voltages
  BY Zenon DEF Voltages
<1> QED
  BY <1>1, <1>2, Zenon DEF Plain

LEMMA OverrideIsPlain ==
    ASSUME NEW other, Plain(other), NEW p, Plain(p)
    PROVE  Plain(Override(other, p))
<1> DEFINE q == Override(other, p)
<1>1. DOMAIN q = DOMAIN other
  BY Zenon DEF Override
<1>2. q.relativeSet = other.relativeSet
  BY DEF Override, Plain, Levels
<1>3. /\ q.min \in {other.min, p.min} /\ q.sim \in {other.sim, p.sim} /\ q.max \in {other.max, p.max}
  BY Zenon DEF Override, Plain, Levels
<1> HIDE DEF q
<1> QED
  BY <1>1, <1>2, <1>3, Zenon DEF Plain, q

-----------------------------------------------------------------------------
(* Reading a file.                                                         *)

\* An entry of a list of powers.
PlainEntry(x) == {"net", "owner", "power"} \subseteq DOMAIN x /\ Plain(x.power)

PlainList(list) == \A k \in DOMAIN list : PlainEntry(list[k])

PlainRead(read) ==
    /\ {"list", "macros"} \subseteq DOMAIN read
    /\ Unowned(read.list) /\ PlainList(read.list)
    /\ PlainMacros(read.macros)

LEMMA PlainMacroAdded ==
    ASSUME NEW macros, PlainMacros(macros), NEW name, NEW p, Plain(p)
    PROVE  PlainMacros(WithMacro(macros, name, p))
BY Zenon DEF PlainMacros, WithMacro

LEMMA ListedIsPlain ==
    ASSUME NEW line, NEW p, Plain(p)
    PROVE  PlainEntry(Listed(line, p)) /\ Listed(line, p).owner = FALSE
BY Zenon DEF PlainEntry, Listed

LEMMA PlainListAppend ==
    ASSUME NEW list, IsList(list), PlainList(list), NEW x, PlainEntry(x)
    PROVE  PlainList(Append(list, x))
<1>1. {"net", "owner"} \subseteq DOMAIN x
  BY Zenon DEF PlainEntry
<1>2. \A k \in DOMAIN Append(list, x) :
         Append(list, x)[k] = x \/ (k \in DOMAIN list /\ Append(list, x)[k] = list[k])
  BY <1>1, IsListAppend, Zenon
<1> QED
  BY <1>2, Zenon DEF PlainList

LEMMA ReadLineIsPlain ==
    ASSUME NEW read, PlainRead(read), NEW line \in Lines, NEW autoMacro
    PROVE  PlainRead(ReadLine(read, line, autoMacro))
<1> DEFINE u == ReadLine(read, line, autoMacro)
           p == PowerOf(line, read.macros)
           x == Listed(line, p)
           m == WithMacro(read.macros, line.signal, p)
<1>1. "list" \in DOMAIN u /\ Unowned(u.list)
  BY ReadLineUnowned, Zenon DEF PlainRead
<1>2. CASE IsUndefined(line, read.macros)
  <2>1. u = [read EXCEPT !.error = TRUE]
    BY <1>2, Zenon DEF ReadLine
  <2> QED
    BY <2>1, <1>1, Zenon DEF PlainRead
<1>3. CASE ~IsUndefined(line, read.macros)
  <2>1. /\ {"list", "macros"} \subseteq DOMAIN u
        /\ u.list \in {read.list, Append(read.list, x)}
        /\ u.macros \in {read.macros, m}
    BY <1>3, Zenon DEF ReadLine
  <2>2. Plain(p)
    BY <1>3, PowerOfIsPlain, Zenon DEF PlainRead
  <2> HIDE DEF p, u
  <2>3. PlainEntry(x)
    BY <2>2, ListedIsPlain, Zenon
  <2> HIDE DEF x
  <2>4. PlainList(Append(read.list, x))
    BY <2>3, PlainListAppend, Zenon DEF PlainRead, Unowned
  <2>5. PlainMacros(m)
    BY <2>2, PlainMacroAdded, Zenon DEF PlainRead
  <2> HIDE DEF m
  <2> QED
    BY <2>1, <2>4, <2>5, <1>1, Zenon DEF PlainRead, u
<1> QED
  BY <1>2, <1>3, Zenon

LEMMA ReadLinesArePlain ==
    ASSUME NEW lines \in Seq(Lines), NEW autoMacro
    PROVE  PlainRead(ReadLines(lines, autoMacro))
<1>1. PICK set : FileSteps(lines, autoMacro, set)
  BY ReadLinesSteps, Zenon
<1> DEFINE T == {k \in 0 .. Len(lines) : PlainRead(set[k])}
<1>2. PlainRead(set[0])
  <2>1. DOMAIN <<>> = {}
    OBVIOUS
  <2>2. PlainRead([list |-> <<>>, expected |-> <<>>, macros |-> NoMacros, error |-> FALSE])
    BY <2>1, EmptyIsList, Zenon DEF PlainRead, Unowned, PlainList, PlainMacros, NoMacros
  <2> QED
    BY <2>2, <1>1, Zenon DEF FileSteps
<1>3. ASSUME NEW k \in 1 .. Len(lines), PlainRead(set[k - 1])
      PROVE  PlainRead(set[k])
  <2>1. lines[k] \in Lines
    OBVIOUS
  <2> QED
    BY <2>1, <1>1, <1>3, ReadLineIsPlain, Zenon DEF FileSteps
<1>4. 0 \in T
  BY <1>2
<1>5. ASSUME NEW k \in 0 .. Len(lines), k \in T, k < Len(lines)
      PROVE  k + 1 \in T
  <2>1. k + 1 \in 1 .. Len(lines) /\ k + 1 \in 0 .. Len(lines) /\ (k + 1) - 1 = k
    BY <1>5
  <2> QED
    BY <2>1, <1>3, <1>5, Zenon
<1>6. Len(lines) \in T
  <2> HIDE DEF T
  <2>1. Len(lines) \in Nat
    OBVIOUS
  <2>2. 0 .. Len(lines) \subseteq T
    BY <2>1, <1>4, <1>5, IntervalInduction, Zenon
  <2> QED
    BY <2>1, <2>2
<1> QED
  BY <1>1, <1>6, Zenon DEF FileSteps

-----------------------------------------------------------------------------
(* The list of powers and the powers of the nets.                          *)

\* The list has the power of net n.
Owned(list, n) == \E k \in DOMAIN list : list[k].owner /\ list[k].net = n

\* The powers in the list, their own or those of the nets, are as they were read.
Clean(list, defined) ==
    /\ PlainList(list)
    /\ \A k \in DOMAIN list : list[k].owner => list[k].net \in Nets /\ Plain(defined[list[k].net])

\* No net has two powers in the list.
Once(list) ==
    \A j, k \in DOMAIN list :
        list[j].owner /\ list[k].owner /\ list[j].net = list[k].net => j = k

\* The power of each net is in the list.
Covered(list, power, defined) ==
    \A n \in Nets : /\ power[n] # NULL => Owned(list, power[n])
                    /\ defined[n] # NULL => Owned(list, n)

Booked(list, power, defined) == Clean(list, defined) /\ Once(list) /\ Covered(list, power, defined)

\* new has x at last, and list before.
Appended(list, x, new, last) ==
    /\ last \in DOMAIN new /\ new[last] = x /\ last \notin DOMAIN list
    /\ \A k \in DOMAIN list : k \in DOMAIN new /\ new[k] = list[k]
    /\ \A k \in DOMAIN new : k = last \/ k \in DOMAIN list

LEMMA AppendAt ==
    ASSUME NEW list, IsList(list), NEW x
    PROVE  \E last : Appended(list, x, Append(list, x), last)
<1>1. PICK U : list \in Seq(U)
  BY Zenon DEF IsList
<1>2. Len(list) \in Nat /\ DOMAIN list = 1 .. Len(list)
  BY <1>1
<1> DEFINE new == Append(list, x)
<1>3. /\ DOMAIN new = 1 .. Len(list) + 1 /\ new[Len(list) + 1] = x
      /\ \A k \in 1 .. Len(list) : new[k] = list[k]
  BY <1>1, <1>2
<1>4. /\ Len(list) + 1 \in 1 .. Len(list) + 1 /\ Len(list) + 1 \notin 1 .. Len(list)
      /\ \A k \in 1 .. Len(list) : k \in 1 .. Len(list) + 1
      /\ \A k \in 1 .. Len(list) + 1 : k = Len(list) + 1 \/ k \in 1 .. Len(list)
  BY <1>2
<1> HIDE DEF new
<1>5. Appended(list, x, new, Len(list) + 1)
  BY <1>2, <1>3, <1>4, Zenon DEF Appended
<1> QED
  BY <1>5, Zenon DEF new

\* A power is added for a net that has none in the list.
LEMMA BookedAppend ==
    ASSUME NEW list, IsList(list), NEW power \in [Nets -> Opt], NEW defined, DOMAIN defined = Nets,
           Booked(list, power, defined), NEW e \in Nets, ~Owned(list, e),
           NEW x, PlainEntry(x), x.owner = TRUE, x.net = e, NEW p, p = x.power
    PROVE  Booked(Append(list, x), [power EXCEPT ![e] = e], [defined EXCEPT ![e] = p])
<1> DEFINE new == Append(list, x)
           power2 == [power EXCEPT ![e] = e]
           defined2 == [defined EXCEPT ![e] = p]
<1>0. PICK last : Appended(list, x, new, last)
  BY AppendAt, Zenon
<1>1. /\ last \in DOMAIN new /\ new[last] = x /\ last \notin DOMAIN list
      /\ \A k \in DOMAIN list : k \in DOMAIN new /\ new[k] = list[k]
      /\ \A k \in DOMAIN new : k = last \/ k \in DOMAIN list
  BY <1>0, Zenon DEF Appended
<1>2. /\ power2[e] = e /\ defined2[e] = p
      /\ \A n \in Nets : n # e => power2[n] = power[n] /\ defined2[n] = defined[n]
  BY Zenon
<1> HIDE DEF new, power2, defined2
<1>3. Plain(p)
  BY Zenon DEF PlainEntry
<1>4. PlainList(new)
  BY <1>1, Zenon DEF PlainList, Booked, Clean
<1>5. ASSUME NEW k \in DOMAIN new, new[k].owner
      PROVE  new[k].net \in Nets /\ Plain(defined2[new[k].net])
  <2>1. CASE k = last
    BY <2>1, <1>1, <1>2, <1>3, Zenon
  <2>2. CASE k # last
    <3>1. k \in DOMAIN list /\ new[k] = list[k]
      BY <2>2, <1>1, Zenon
    <3>2. new[k].net \in Nets /\ Plain(defined[new[k].net])
      BY <3>1, <1>5, Zenon DEF Booked, Clean
    <3> QED
      BY <3>2, <1>2, <1>3, Zenon
  <2> QED
    BY <2>1, <2>2, Zenon
<1>6. Once(new)
  <2> SUFFICES ASSUME NEW j \in DOMAIN new, NEW k \in DOMAIN new,
                      new[j].owner, new[k].owner, new[j].net = new[k].net
               PROVE  j = k
    BY Zenon DEF Once
  <2>1. CASE j = last \/ k = last
    BY <2>1, <1>1, Zenon DEF Owned
  <2>2. CASE j # last /\ k # last
    BY <2>2, <1>1, Zenon DEF Booked, Once
  <2> QED
    BY <2>1, <2>2, Zenon
<1>7. \A n : Owned(list, n) => Owned(new, n)
  BY <1>1, Zenon DEF Owned
<1>8. Owned(new, e)
  BY <1>1, Zenon DEF Owned
<1>9. Covered(new, power2, defined2)
  BY <1>2, <1>7, <1>8, Zenon DEF Booked, Covered
<1> QED
  BY <1>4, <1>5, <1>6, <1>9, Zenon DEF Booked, Clean, new, power2, defined2

-----------------------------------------------------------------------------
(* How far the voltages of a class are from those of its power.            *)

\* The definitions in the class of h.
With(root, defined, h) == {k \in Nets : defined[k] # NULL /\ root[k] = root[h]}

\* The known voltages of q are known in p, and within so many thresholds.
Within(p, q, steps) ==
    \A level \in Levels :
        Known(q[level]) => /\ Known(p[level])
                           /\ AbsoluteDifference(p[level], q[level]) <= Threshold * steps

\* One threshold for each definition that was given up.
Drift(root, power, defined) ==
    \A h \in Nets : power[h] = h =>
        \A k \in With(root, defined, h) :
            Within(defined[h], defined[k], Cardinality(With(root, defined, h)) - 1)

LEMMA NetSets ==
    ASSUME NEW A \in SUBSET Nets
    PROVE  IsFiniteSet(A) /\ Cardinality(A) \in Nat
<1>1. NetCount - 1 \in Int /\ 0 \in Int
  BY NetCountAssumption
<1>2. IsFiniteSet(Nets)
  BY <1>1, FS_Interval, Zenon DEF Nets
<1>3. IsFiniteSet(A)
  BY <1>2, FS_Subset, Zenon
<1> QED
  BY <1>3, FS_CardinalityType, Zenon

LEMMA SetsApart ==
    ASSUME NEW A \in SUBSET Nets, NEW B \in SUBSET Nets, A \cap B = {}
    PROVE  Cardinality(A \cup B) = Cardinality(A) + Cardinality(B)
<1>1. /\ IsFiniteSet(A) /\ IsFiniteSet(B) /\ Cardinality(A) \in Nat /\ Cardinality(B) \in Nat
  BY NetSets, Zenon
<1>2. Cardinality(A \cup B) = Cardinality(A) + Cardinality(B) - Cardinality(A \cap B)
  BY <1>1, FS_Union, Zenon
<1>3. Cardinality(A \cap B) = 0
  BY FS_EmptySet, Zenon
<1> QED
  BY <1>1, <1>2, <1>3

LEMMA NotEmpty ==
    ASSUME NEW A \in SUBSET Nets, NEW x \in A
    PROVE  Cardinality(A) >= 1
<1>1. IsFiniteSet(A) /\ Cardinality(A) \in Nat /\ A # {}
  BY NetSets, Zenon
<1>2. Cardinality(A) # 0
  BY <1>1, FS_EmptySet, Zenon
<1> QED
  BY <1>1, <1>2

\* The voltages of the files are numbers.
LEMMA PlainLevels ==
    ASSUME VoltagesHaveMargin, NEW p, Plain(p), NEW level \in Levels
    PROVE  p[level] \in Int /\ (Known(p[level]) => p[level] + Threshold < UNKNOWN_VOLTAGE)
<1>1. p[level] \in Voltages
  BY Zenon DEF Plain, Levels
<1> QED
  BY <1>1, Zenon DEF VoltagesHaveMargin

LEMMA WithinItself ==
    ASSUME VoltagesHaveMargin, NEW p, Plain(p), NEW n, NEW S, S = {n}
    PROVE  Within(p, p, Cardinality(S) - 1)
<1>1. Cardinality(S) = 1
  BY FS_Singleton, Zenon
<1>2. \A v \in Int : AbsoluteDifference(v, v) <= Threshold * (1 - 1)
  BY ThresholdAssumption DEF AbsoluteDifference
<1> QED
  BY <1>1, <1>2, PlainLevels, Zenon DEF Within

LEMMA MoreSteps ==
    ASSUME NEW v \in Int, NEW w \in Int, NEW a \in Nat, NEW b \in Nat,
           AbsoluteDifference(v, w) <= Threshold * (a - 1)
    PROVE  AbsoluteDifference(v, w) <= Threshold * (a + b - 1)
<1>1. Threshold * (a + b - 1) = Threshold * (a - 1) + Threshold * b /\ Threshold * b >= 0
  BY ThresholdAssumption
<1>2. Threshold * (a - 1) \in Int /\ Threshold * b \in Int /\ AbsoluteDifference(v, w) \in Int
  BY ThresholdAssumption DEF AbsoluteDifference
<1> QED
  BY <1>1, <1>2

LEMMA OneStepMore ==
    ASSUME NEW u \in Int, NEW v \in Int, NEW w \in Int, NEW a \in Nat, NEW b \in Nat, a >= 1,
           AbsoluteDifference(u, v) <= Threshold, AbsoluteDifference(v, w) <= Threshold * (b - 1)
    PROVE  AbsoluteDifference(u, w) <= Threshold * (a + b - 1)
<1>1. /\ Threshold * (a + b - 1) = Threshold * (b - 1) + Threshold + Threshold * (a - 1)
      /\ Threshold * (a - 1) >= 0
  BY ThresholdAssumption
<1>2. /\ Threshold * (a - 1) \in Int /\ Threshold * (b - 1) \in Int /\ Threshold \in Int
  BY ThresholdAssumption
<1>3. AbsoluteDifference(u, w) <= AbsoluteDifference(u, v) + AbsoluteDifference(v, w)
  BY DEF AbsoluteDifference
<1>4. /\ AbsoluteDifference(u, w) \in Int /\ AbsoluteDifference(u, v) \in Int
      /\ AbsoluteDifference(v, w) \in Int
  BY DEF AbsoluteDifference
<1> QED
  BY <1>1, <1>2, <1>3, <1>4

LEMMA WithinMore ==
    ASSUME VoltagesHaveMargin, NEW p, Plain(p), NEW q, Plain(q), NEW a \in Nat, NEW b \in Nat,
           Within(p, q, a - 1), NEW c, c = a + b
    PROVE  Within(p, q, c - 1)
<1>1. Within(p, q, a + b - 1)
  BY PlainLevels, MoreSteps, Zenon DEF Within
<1> QED
  BY <1>1

\* Near a power that is within some thresholds: one threshold more.  A known
\* voltage is not given up for an unknown one.
LEMMA WithinNear ==
    ASSUME VoltagesHaveMargin, NEW p, Plain(p), NEW q, Plain(q), NEW r, Plain(r),
           NEW a \in Nat, NEW b \in Nat, a >= 1, Within(q, r, b - 1),
           \A level \in Levels : Near(p[level], q[level]), NEW c, c = a + b
    PROVE  Within(p, r, c - 1)
<1> SUFFICES ASSUME NEW level \in Levels, Known(r[level])
             PROVE  /\ Known(p[level])
                    /\ AbsoluteDifference(p[level], r[level]) <= Threshold * (a + b - 1)
  <2>1. Within(p, r, a + b - 1)
    BY Zenon DEF Within
  <2> QED
    BY <2>1
<1>1. p[level] \in Int /\ q[level] \in Int /\ r[level] \in Int
  BY PlainLevels, Zenon
<1>2. Known(q[level]) /\ AbsoluteDifference(q[level], r[level]) <= Threshold * (b - 1)
  BY Zenon DEF Within
<1>3. AbsoluteDifference(p[level], q[level]) <= Threshold
  BY <1>2, Zenon DEF Near
<1>4. q[level] + Threshold < UNKNOWN_VOLTAGE
  BY <1>2, PlainLevels, Zenon
<1>5. \A x, y \in Int : AbsoluteDifference(x, y) <= Threshold /\ y + Threshold < UNKNOWN_VOLTAGE
                          => Known(x)
  BY ThresholdAssumption DEF AbsoluteDifference, Known, UNKNOWN_VOLTAGE
<1> QED
  BY <1>1, <1>2, <1>3, <1>4, <1>5, OneStepMore, Zenon

\* The classes are those of the shorted switches, whatever net they are known by.
LEMMA DriftOfClasses ==
    ASSUME NEW r \in [Nets -> Nets], NEW t \in [Nets -> Nets],
           Together(r, shorted), Together(t, shorted),
           NEW power, NEW defined, Drift(r, power, defined)
    PROVE  Drift(t, power, defined)
<1>1. ASSUME NEW x \in Nets, NEW y \in Nets
      PROVE  (r[x] = r[y]) <=> (t[x] = t[y])
  <2>1. (r[x] = r[y]) = Joined(x, y)
    BY TogetherIsJoined, Zenon
  <2>2. (t[x] = t[y]) = Joined(x, y)
    BY TogetherIsJoined, Zenon
  <2> QED
    BY <2>1, <2>2, Zenon
<1>2. \A h \in Nets : With(t, defined, h) = With(r, defined, h)
  BY <1>1, Zenon DEF With
<1> QED
  BY <1>2, Zenon DEF Drift

\* A power for a class that had none.
LEMMA DriftAdded ==
    ASSUME VoltagesHaveMargin, NEW list, NEW power, NEW defined, Settled(list, power, defined),
           Drift(equivalentNet_v, power, defined),
           NEW e \in Nets, equivalentNet_v[e] = e, power[e] = NULL, NEW p, Plain(p)
    PROVE  Drift(equivalentNet_v, [power EXCEPT ![e] = e], [defined EXCEPT ![e] = p])
<1> DEFINE power2 == [power EXCEPT ![e] = e]
           defined2 == [defined EXCEPT ![e] = p]
           root == equivalentNet_v
<1>1. /\ defined2[e] = p
      /\ \A n \in Nets : n # e => power2[n] = power[n] /\ defined2[n] = defined[n]
  BY Zenon DEF Settled
<1>2. /\ \A n \in Nets : power[n] # NULL => root[n] = n
      /\ \A n \in Nets : defined[n] # NULL => root[n] # e
  BY Zenon DEF Settled, Holds
<1> HIDE DEF power2, defined2, root
<1> SUFFICES ASSUME NEW h \in Nets, power2[h] = h, NEW k \in With(root, defined2, h)
             PROVE  Within(defined2[h], defined2[k], Cardinality(With(root, defined2, h)) - 1)
  BY Zenon DEF Drift, power2, defined2, root
<1>3. CASE h = e
  <2>1. \A x \in With(root, defined2, h) : x = e
    BY <1>1, <1>2, <1>3, Zenon DEF With, root
  <2>2. k = e /\ With(root, defined2, h) = {e}
    BY <2>1, Zenon
  <2> QED
    BY <2>2, <1>1, <1>3, WithinItself, Zenon
<1>4. CASE h # e
  <2>1. power[h] = h /\ h # NULL
    BY <1>1, <1>4, NetsAreNumbers, Zenon
  <2>2. root[h] # root[e]
    BY <2>1, <1>2, <1>4, Zenon DEF root
  <2>3. With(root, defined2, h) = With(root, defined, h)
    BY <2>2, <1>1, Zenon DEF With
  <2>4. k # e /\ k \in Nets
    BY <2>2, Zenon DEF With
  <2> QED
    BY <2>1, <2>3, <2>4, <1>1, <1>4, Zenon DEF Drift, root
<1> QED
  BY <1>3, <1>4, Zenon

-----------------------------------------------------------------------------
(* The power of an instance.                                               *)

\* The record that SetInstancePower works on; if small, with the bounds on the
\* voltages of the classes.
BookedState(s, small) ==
    /\ SettledState(s) /\ {"macros", "p"} \subseteq DOMAIN s
    /\ Booked(s.list, s.full, s.definition)
    /\ PlainMacros(s.macros)
    /\ small => Drift(equivalentNet_v, s.full, s.definition)

LEMMA SetInstanceNetBooks ==
    ASSUME equivalentNet_v \in [Nets -> Nets], NEW small, small => VoltagesHaveMargin,
           NEW s, BookedState(s, small), Plain(s.p), NEW line, NEW n, NEW e \in Nets, InstanceNet(n) = e,
           equivalentNet_v[e] = e
    PROVE  BookedState(SetInstanceNet(s, line, n), small) /\ Plain(SetInstanceNet(s, line, n).p)
<1> DEFINE u == SetInstanceNet(s, line, n)
           here == [Listed(line, s.p) EXCEPT !.net = e]
<1>1. SettledState(s) /\ SettledState(u)
  BY SetInstanceNetSettles, Zenon DEF BookedState
<1>2. {"list", "full", "definition", "macros", "p"} \subseteq DOMAIN s
  BY Zenon DEF BookedState, SettledState, Fields
<1>3. CASE s.p.type = "power" /\ line.alpha
  <2>1. u = IF s.full[e] # NULL /\ s.definition[e].type = "power"
              THEN [s EXCEPT !.macros = WithMacro(@, line.signal, s.definition[e])]
              ELSE [s EXCEPT !.error = TRUE]
    BY <1>3, Zenon DEF SetInstanceNet
  <2> HIDE DEF u
  <2>2. /\ {"macros", "p"} \subseteq DOMAIN u /\ u.p = s.p
        /\ u.full = s.full /\ u.definition = s.definition /\ u.list = s.list
        /\ \/ u.macros = s.macros
           \/ s.full[e] # NULL /\ u.macros = WithMacro(s.macros, line.signal, s.definition[e])
    BY <2>1, <1>2, Zenon
  <2>3. ASSUME s.full[e] # NULL
        PROVE  Plain(s.definition[e])
    <3>1. s.full[e] = e
      BY <2>3, <1>1, Zenon DEF SettledState, Settled
    <3>2. PICK k \in DOMAIN s.list : s.list[k].owner /\ s.list[k].net = e
      <4>1. Owned(s.list, s.full[e])
        BY <2>3, Zenon DEF BookedState, Booked, Covered
      <4> QED
        BY <4>1, <3>1, Zenon DEF Owned
    <3> QED
      BY <3>2, Zenon DEF BookedState, Booked, Clean
  <2>4. PlainMacros(u.macros)
    BY <2>2, <2>3, PlainMacroAdded, Zenon DEF BookedState
  <2> QED
    BY <2>2, <2>4, <1>1, Zenon DEF BookedState, u
<1>4. CASE ~ (s.p.type = "power" /\ line.alpha) /\ s.p.type = "input"
  <2>1. u = IF HasVoltage(s.p) \/ IsExpected(s.p)
              THEN [s EXCEPT !.p = AsExpected(s.p),
                             !.expected = Append(@, [here EXCEPT !.power = AsExpected(s.p)])]
              ELSE s
    BY <1>4, Zenon DEF SetInstanceNet
  <2> HIDE DEF u, here
  <2>2. /\ {"macros", "p"} \subseteq DOMAIN u /\ u.p \in {s.p, AsExpected(s.p)}
        /\ u.full = s.full /\ u.definition = s.definition /\ u.list = s.list
        /\ u.macros = s.macros
    BY <2>1, <1>2, Zenon
  <2>3. Plain(u.p)
    BY <2>2, AsExpectedIsPlain, Zenon
  <2> QED
    BY <2>2, <2>3, <1>1, Zenon DEF BookedState, u
<1>5. CASE ~ (s.p.type = "power" /\ line.alpha) /\ s.p.type # "input"
  <2>1. u = IF s.full[e] # NULL THEN s
            ELSE [s EXCEPT !.list = Append(@, [here EXCEPT !.owner = TRUE]),
                           !.full[e] = e, !.definition[e] = s.p]
    BY <1>5, Zenon DEF SetInstanceNet
  <2> HIDE DEF u, here
  <2>2. CASE s.full[e] # NULL
    BY <2>1, <2>2, Zenon DEF u
  <2>3. CASE s.full[e] = NULL
    <3> DEFINE x == [here EXCEPT !.owner = TRUE]
               power == [s.full EXCEPT ![e] = e]
               defined == [s.definition EXCEPT ![e] = s.p]
               list == Append(s.list, x)
    <3>1. /\ {"macros", "p"} \subseteq DOMAIN u /\ u.p = s.p /\ u.macros = s.macros
          /\ u.full = power /\ u.definition = defined /\ u.list = list
      BY <2>1, <2>3, <1>2, Zenon
    <3>2. PlainEntry(x) /\ x.net = e /\ x.owner = TRUE /\ x.power = s.p
      BY Zenon DEF here, Listed, PlainEntry
    <3> HIDE DEF x
    <3>3. /\ IsList(s.list) /\ s.full \in [Nets -> Opt] /\ DOMAIN s.definition = Nets
          /\ Holds(s.list, s.definition, e) => s.full[e] # NULL
      BY <1>1, Zenon DEF SettledState, Settled
    <3>4. ~Owned(s.list, e) /\ Booked(s.list, s.full, s.definition)
      BY <3>3, <2>3, Zenon DEF Owned, Holds, BookedState
    <3>5. Booked(list, power, defined)
      BY <3>2, <3>3, <3>4, BookedAppend, ZenonT(60)
    <3>6. small => Drift(equivalentNet_v, power, defined)
      BY <2>3, <1>1, DriftAdded, Zenon DEF BookedState, SettledState
    <3> HIDE DEF list, power, defined
    <3> QED
      BY <3>1, <3>5, <3>6, <1>1, Zenon DEF BookedState, u
  <2> QED
    BY <2>2, <2>3, Zenon
<1> QED
  BY <1>3, <1>4, <1>5, Zenon

LEMMA SetInstanceLineBooks ==
    ASSUME NetsAreNumbered, NEW small, small => VoltagesHaveMargin,
           NEW s, BookedState(s, small), NEW line \in InstanceLines
    PROVE  BookedState(SetInstanceLine(s, line), small)
<1>1. CASE s.stopped
  BY <1>1, Zenon DEF SetInstanceLine
<1>2. CASE ~s.stopped /\ IsUndefined(line, s.macros)
  <2>1. SetInstanceLine(s, line) = [s EXCEPT !.stopped = TRUE]
    BY <1>2, Zenon DEF SetInstanceLine
  <2>2. SettledState(SetInstanceLine(s, line))
    BY SetInstanceLineSettles, Zenon DEF BookedState
  <2>3. {"list", "full", "definition", "macros", "p"} \subseteq DOMAIN s
    BY Zenon DEF BookedState, SettledState, Fields
  <2> QED
    BY <2>1, <2>2, <2>3, Zenon DEF BookedState
<1>3. CASE ~s.stopped /\ ~IsUndefined(line, s.macros)
  <2> DEFINE last == Len(Ascending(line.nets))
             Good(r) == BookedState(r, small) /\ Plain(r.p)
  <2>1. PICK set : LineSteps(s, line, set) /\ last \in Nat
    BY <1>3, SetInstanceLineSteps, Zenon
  <2> DEFINE T == {k \in 0 .. last : Good(set[k])}
  <2>2. Good(set[0])
    <3> DEFINE p == PowerOf(line, s.macros)
               a == [s EXCEPT !.p = p]
    <3>1. {"list", "full", "definition", "macros", "p"} \subseteq DOMAIN s
      BY Zenon DEF BookedState, SettledState, Fields
    <3>2. Plain(p)
      BY <1>3, PowerOfIsPlain, Zenon DEF BookedState
    <3> HIDE DEF p
    <3>3. /\ {"list", "full", "definition", "macros", "p"} \subseteq DOMAIN a /\ a.p = p
          /\ a.list = s.list /\ a.full = s.full /\ a.definition = s.definition
          /\ a.macros = s.macros
      BY <3>1, Zenon
    <3> HIDE DEF a
    <3>4. Good(a)
      BY <3>2, <3>3, Zenon DEF BookedState, SettledState, Fields
    <3> QED
      BY <3>4, <2>1, Zenon DEF LineSteps, a, p
  <2>3. ASSUME NEW k \in 1 .. last, Good(set[k - 1])
        PROVE  Good(set[k])
    <3> DEFINE n == Ascending(line.nets)[k]
    <3>1. n \in Nets /\ set[k] = SetInstanceNet(set[k - 1], line, n)
      BY <2>1, Zenon DEF LineSteps
    <3>2. /\ equivalentNet_v \in [Nets -> Nets]
          /\ InstanceNet(n) \in Nets /\ equivalentNet_v[InstanceNet(n)] = InstanceNet(n)
      BY <3>1, Zenon DEF NetsAreNumbered
    <3> HIDE DEF n
    <3> QED
      BY <3>1, <3>2, <2>3, SetInstanceNetBooks, Zenon
  <2> HIDE DEF last, Good
  <2>4. 0 \in T
    BY <2>1, <2>2
  <2>5. ASSUME NEW k \in 0 .. last, k \in T, k < last
        PROVE  k + 1 \in T
    <3>1. k + 1 \in 1 .. last /\ k + 1 \in 0 .. last /\ (k + 1) - 1 = k
      BY <2>1, <2>5
    <3> QED
      BY <3>1, <2>3, <2>5, Zenon
  <2>6. last \in T
    <3> HIDE DEF T
    <3>1. 0 .. last \subseteq T
      BY <2>1, <2>4, <2>5, IntervalInduction, Zenon
    <3> QED
      BY <3>1, <2>1
  <2> QED
    BY <2>1, <2>6, Zenon DEF LineSteps, last, Good
<1> QED
  BY <1>1, <1>2, <1>3, Zenon

LEMMA SetInstanceBooks ==
    ASSUME NetsAreNumbered, Settled(cvcPowerPtrList, full, definition),
           Booked(cvcPowerPtrList, full, definition), PlainMacros(cvcPowerMacroPtrMap),
           NEW small, small => VoltagesHaveMargin /\ Drift(equivalentNet_v, full, definition),
           NEW lines \in Seq(InstanceLines)
    PROVE  BookedState(SetInstance(lines), small)
<1>1. PICK set : InstanceSteps(lines, set)
  BY SetInstanceSteps, Zenon
<1> DEFINE T == {k \in 0 .. Len(lines) : BookedState(set[k], small)}
<1>2. BookedState(set[0], small)
  <2>1. SettledState(Start)
    BY Zenon DEF Start, SettledState, Fields
  <2>2. PlainMacros(TopMacros)
    BY Zenon DEF TopMacros, PlainMacros
  <2>3. BookedState(Start, small)
    BY <2>1, <2>2, Zenon DEF Start, BookedState
  <2> QED
    BY <2>3, <1>1, Zenon DEF InstanceSteps
<1>3. ASSUME NEW k \in 1 .. Len(lines), BookedState(set[k - 1], small)
      PROVE  BookedState(set[k], small)
  <2>1. lines[k] \in InstanceLines
    OBVIOUS
  <2> QED
    BY <2>1, <1>1, <1>3, SetInstanceLineBooks, Zenon DEF InstanceSteps
<1>4. 0 \in T
  BY <1>2
<1>5. ASSUME NEW k \in 0 .. Len(lines), k \in T, k < Len(lines)
      PROVE  k + 1 \in T
  <2>1. k + 1 \in 1 .. Len(lines) /\ k + 1 \in 0 .. Len(lines) /\ (k + 1) - 1 = k
    BY <1>5
  <2> QED
    BY <2>1, <1>3, <1>5, Zenon
<1>6. Len(lines) \in T
  <2> HIDE DEF T
  <2>1. Len(lines) \in Nat
    OBVIOUS
  <2>2. 0 .. Len(lines) \subseteq T
    BY <2>1, <1>4, <1>5, IntervalInduction, Zenon
  <2> QED
    BY <2>1, <2>2
<1> QED
  BY <1>1, <1>6, Zenon DEF InstanceSteps

-----------------------------------------------------------------------------
(* The inductive invariant.                                                *)

\* The stages at which the powers of the nets are those of the list.
Current ==
    \/ stage = "power" \/ (stage = "prompt" /\ powerFileStatus = "OK")
    \/ stage = "switches" \/ AfterSwitches

\* What the family of p means with the families of a file.
Meaning(p, members) ==
    LET names == IF p.family # "" THEN {p.family} ELSE p.implicitFamily
    IN  UNION {IF name \in DOMAIN members THEN members[name] ELSE {name} : name \in names}

LEMMA RelativesAreMeant == \A p : Relatives(p) = Meaning(p, file.families)
BY Zenon DEF Relatives, Meaning

\* What the family of each power means was added to it.
Expanded(list, defined, members) ==
    \A k \in DOMAIN list : list[k].owner =>
        Meaning(defined[list[k].net], members) = defined[list[k].net].relativeSet

\* SetModePower has yet to visit the powers from first on.
Waiting(list, first) == \A k \in DOMAIN list : k >= first => ~list[k].owner

LInv ==
    /\ stage \notin {"setup", "done", "stopped"} => Clean(cvcPowerPtrList, definition)
    /\ stage \notin {"setup", "stopped"} => Once(cvcPowerPtrList)
    /\ Current => Covered(cvcPowerPtrList, full, definition)
    /\ stage = "power" => Waiting(cvcPowerPtrList, power_ppit)
    /\ stage = "done" => Expanded(cvcPowerPtrList, definition, file.families)
    /\ PlainMacros(cvcPowerMacroPtrMap)

LEMMA InitLInv == Init => LInv
<1> SUFFICES ASSUME Init
             PROVE  LInv
  BY Zenon
<1>1. stage = "setup" /\ cvcPowerMacroPtrMap = NoMacros
  BY Zenon DEF Init
<1>2. PlainMacros(NoMacros)
  BY Zenon DEF PlainMacros, NoMacros
<1>3. ~Current
  BY <1>1, Zenon DEF Current, AfterSwitches
<1> QED
  BY <1>1, <1>2, <1>3, Zenon DEF LInv

\* A list without the power of a net is in order when no net has a power.
LEMMA UnownedIsBooked ==
    ASSUME NEW list, Unowned(list), PlainList(list), NEW defined
    PROVE  /\ Clean(list, defined) /\ Once(list) /\ \A i : Waiting(list, i)
           /\ Covered(list, Unset, Unset)
<1>1. \A k \in DOMAIN list : ~list[k].owner
  BY Zenon DEF Unowned
<1>2. Covered(list, Unset, Unset)
  BY Zenon DEF Covered, Unset
<1> QED
  BY <1>1, <1>2, Zenon DEF Clean, Once, Waiting

LEMMA ReadPowerBooks ==
    ASSUME IInv, NEW f \in circuit.files, ReadPower(f) \/ SetPowerCommand(f)
    PROVE  LInv'
<1> DEFINE lines == IF f.opens THEN f.lines ELSE <<>>
           read == ReadLines(lines, f.autoMacro)
<1>1. lines \in Seq(Lines)
  <2>1. f \in Files
    BY Zenon DEF IInv, TypeOK, Files
  <2> QED
    BY <2>1, FilesAssumption, SMTT(30)
<1>2. /\ cvcPowerPtrList' = read.list /\ cvcPowerMacroPtrMap' = read.macros
      /\ powerFileStatus' = "OK" => definition' = Unset /\ full' = Unset
      /\ stage' \in {"power", "prompt", "setup"}
      /\ stage' = "power" <=> powerFileStatus' = "OK"
  BY ZenonT(40) DEF ReadPower, SetPowerCommand, NewPower, LoadPower
<1> HIDE DEF lines
<1>3. PlainRead(read)
  BY <1>1, ReadLinesArePlain, Zenon
<1> HIDE DEF read
<1>4. Unowned(cvcPowerPtrList') /\ PlainList(cvcPowerPtrList') /\ PlainMacros(cvcPowerMacroPtrMap')
  BY <1>2, <1>3, Zenon DEF PlainRead
<1>5. /\ Clean(cvcPowerPtrList', definition') /\ Once(cvcPowerPtrList')
      /\ Waiting(cvcPowerPtrList', power_ppit') /\ Covered(cvcPowerPtrList', Unset, Unset)
  BY <1>4, UnownedIsBooked, Zenon
<1>6. Current' => definition' = Unset /\ full' = Unset
  BY <1>2, Zenon DEF Current, AfterSwitches
<1>7. Current' => Covered(cvcPowerPtrList', full', definition')
  BY <1>5, <1>6, Zenon
<1> QED
  BY <1>2, <1>4, <1>5, <1>7, Zenon DEF LInv, Clean, Once, Waiting, Covered

-----------------------------------------------------------------------------
(* SetModePower.                                                           *)

\* new is list with copies in place of its element i.
Spliced(list, i, copies, new) ==
    /\ \A k \in DOMAIN list : k < i => k \in DOMAIN new /\ new[k] = list[k]
    /\ \A j \in DOMAIN copies : i - 1 + j \in DOMAIN new /\ new[i - 1 + j] = copies[j]
    /\ \A k \in DOMAIN new :
          \/ k < i /\ k \in DOMAIN list /\ new[k] = list[k]
          \/ \E j \in DOMAIN copies : k = i - 1 + j /\ new[k] = copies[j]
          \/ k >= i + Len(copies) /\ \E j \in DOMAIN list : j > i /\ new[k] = list[j]

\* new has a elements, those of s, and then b elements, those of t.
Concatenated(R, s, a, t, b, new) ==
    /\ new \in Seq(R) /\ Len(new) = a + b /\ DOMAIN new = 1 .. a + b
    /\ \A k \in 1 .. a : new[k] = s[k]
    /\ \A k \in 1 .. b : new[a + k] = t[k]

LEMMA ConcatAt ==
    ASSUME NEW R, NEW s \in Seq(R), NEW t \in Seq(R), NEW a \in Nat, NEW b \in Nat,
           Len(s) = a, Len(t) = b
    PROVE  Concatenated(R, s, a, t, b, s \o t)
<1>1. s \o t \in Seq(R) /\ Len(s \o t) = a + b /\ DOMAIN (s \o t) = 1 .. a + b
  OBVIOUS
<1>2. ASSUME NEW k \in 1 .. a
      PROVE  (s \o t)[k] = s[k]
  OBVIOUS
<1>3. ASSUME NEW k \in 1 .. b
      PROVE  (s \o t)[a + k] = t[k]
  OBVIOUS
<1> QED
  BY <1>1, <1>2, <1>3, Zenon DEF Concatenated

LEMMA ReplacedIsSpliced ==
    ASSUME NEW list, IsList(list), NEW i \in DOMAIN list, NEW copies, IsList(copies)
    PROVE  Spliced(list, i, copies, Replaced(list, i, copies))
<1>1. PICK U, V : list \in Seq(U) /\ copies \in Seq(V)
  BY Zenon DEF IsList
<1> DEFINE R == U \cup V
           left == SubSeq(list, 1, i - 1)
           right == SubSeq(list, i + 1, Len(list))
           two == left \o copies
           new == two \o right
           n == Len(list)
           c == Len(copies)
<1>2. list \in Seq(R) /\ copies \in Seq(R)
  BY <1>1
<1> HIDE DEF R
<1>3. n \in Nat /\ c \in Nat /\ i \in 1 .. n /\ DOMAIN list = 1 .. n /\ DOMAIN copies = 1 .. c
  BY <1>2
<1>4. left \in Seq(R) /\ Len(left) = i - 1 /\ \A k \in 1 .. i - 1 : left[k] = list[k]
  BY <1>2, <1>3
<1>5. right \in Seq(R) /\ Len(right) = n - i /\ \A k \in 1 .. n - i : right[k] = list[i + k]
  BY <1>2, <1>3
<1> HIDE DEF left, right
<1>6. /\ two \in Seq(R) /\ Len(two) = i - 1 + c
      /\ \A k \in 1 .. i - 1 : two[k] = left[k]
      /\ \A j \in 1 .. c : two[i - 1 + j] = copies[j]
  <2>1. i - 1 \in Nat
    BY <1>3
  <2> QED
    <3>1. Concatenated(R, left, i - 1, copies, c, left \o copies)
      BY <2>1, <1>2, <1>3, <1>4, ConcatAt, Zenon
    <3> QED
      BY <3>1, Zenon DEF Concatenated
<1> HIDE DEF two
<1>7. /\ DOMAIN new = 1 .. (i - 1 + c) + (n - i)
      /\ \A k \in 1 .. i - 1 + c : new[k] = two[k]
      /\ \A k \in 1 .. n - i : new[i - 1 + c + k] = right[k]
  <2>1. i - 1 + c \in Nat /\ n - i \in Nat
    BY <1>3
  <2> QED
    <3>1. Concatenated(R, two, i - 1 + c, right, n - i, two \o right)
      BY <2>1, <1>5, <1>6, ConcatAt, Zenon
    <3> QED
      BY <3>1, Zenon DEF Concatenated
<1> HIDE DEF new
<1>8. ASSUME NEW k \in 1 .. n, k < i
      PROVE  k \in DOMAIN new /\ new[k] = list[k]
  <2>1. k \in 1 .. i - 1 /\ k \in 1 .. i - 1 + c /\ k \in 1 .. (i - 1 + c) + (n - i)
    BY <1>3, <1>8
  <2> QED
    BY <2>1, <1>4, <1>6, <1>7, Zenon
<1>9. ASSUME NEW j \in 1 .. c
      PROVE  i - 1 + j \in DOMAIN new /\ new[i - 1 + j] = copies[j]
  <2>1. i - 1 + j \in 1 .. i - 1 + c /\ i - 1 + j \in 1 .. (i - 1 + c) + (n - i)
    BY <1>3
  <2> QED
    BY <2>1, <1>6, <1>7, Zenon
<1>10. ASSUME NEW k \in DOMAIN new
       PROVE  \/ k < i /\ k \in 1 .. n /\ new[k] = list[k]
              \/ \E j \in 1 .. c : k = i - 1 + j /\ new[k] = copies[j]
              \/ k >= i + c /\ \E j \in 1 .. n : j > i /\ new[k] = list[j]
  <2>1. CASE k < i
    <3>1. k \in 1 .. n
      BY <2>1, <1>3, <1>7
    <3> QED
      BY <3>1, <2>1, <1>8, Zenon
  <2>2. CASE k >= i /\ k < i + c
    <3> DEFINE j == k - (i - 1)
    <3>1. j \in 1 .. c /\ k = i - 1 + j
      BY <2>2, <1>3, <1>7
    <3> HIDE DEF j
    <3> QED
      BY <3>1, <1>9, Zenon
  <2>3. CASE k >= i + c
    <3> DEFINE m == k - (i - 1 + c)
    <3>0. k \in 1 .. (i - 1 + c) + (n - i)
      BY <1>7, Zenon
    <3>1. n \in Nat /\ c \in Nat /\ i \in 1 .. n
      BY <1>3, Zenon
    <3> HIDE DEF n, c
    <3>2. m \in 1 .. n - i /\ k = i - 1 + c + m /\ i + m \in 1 .. n /\ i + m > i
      BY <3>0, <3>1, <2>3
    <3> HIDE DEF m
    <3>3. new[k] = list[i + m]
      BY <3>2, <1>5, <1>7, Zenon
    <3> QED
      BY <3>2, <3>3, <2>3, Zenon
  <2> QED
    BY <2>1, <2>2, <2>3, <1>3, <1>7
<1>11. Spliced(list, i, copies, new)
  BY <1>3, <1>8, <1>9, <1>10, Zenon DEF Spliced
<1> QED
  BY <1>11, Zenon DEF new, two, left, right, Replaced

\* The copies of a line for its nets: one for each net, that owns the power of the
\* net if the net had none.
CopyOf(entry, x) ==
    /\ PlainEntry(x) /\ x.power = entry.power
    /\ x.owner => x.net \in entry.nets \cap Nets /\ full[x.net] = NULL

LEMMA CopiesBook ==
    ASSUME NEW entry, PlainEntry(entry), ~entry.owner, NEW copies, copies = Copies(entry)
    PROVE  /\ \A j \in DOMAIN copies : CopyOf(entry, copies[j])
           /\ Once(copies)
           /\ \A n \in entry.nets \cap Nets : full[n] = NULL => Owned(copies, n)
<1> DEFINE nets == Ascending(entry.nets)
           N == entry.nets \cap Nets
           v(k) == [entry EXCEPT !.net = nets[k], !.owner = full[nets[k]] = NULL]
<1>1. Lists(nets, N)
  BY AscendingLists, Zenon
<1>2. copies = IF nets = <<>> THEN <<entry>> ELSE [k \in DOMAIN nets |-> v(k)]
  BY Zenon DEF Copies
<1>3. /\ \A k \in DOMAIN nets : nets[k] \in N
      /\ \A j, k \in DOMAIN nets : nets[j] = nets[k] => j = k
      /\ \A n \in N : \E k \in DOMAIN nets : nets[k] = n
  <2>1. nets \in Seq(N)
    BY <1>1, Zenon DEF Lists
  <2> HIDE DEF nets, N
  <2>2. \A k \in DOMAIN nets : nets[k] \in N
    BY <2>1
  <2> QED
    BY <2>2, <1>1, Zenon DEF Lists
<1>4. {"net", "owner", "power"} \subseteq DOMAIN entry /\ Plain(entry.power)
  BY Zenon DEF PlainEntry
<1> HIDE DEF nets, N
<1>5. CASE nets = <<>>
  <2>1. DOMAIN copies = 1 .. 1 /\ copies[1] = entry
    BY <1>2, <1>5
  <2>2. \A j \in 1 .. 1 : j = 1
    OBVIOUS
  <2>3. N = {}
    <3>1. DOMAIN nets = {}
      BY <1>5
    <3> QED
      BY <3>1, <1>3, Zenon
  <2> QED
    BY <2>1, <2>2, <2>3, Zenon DEF Once, CopyOf, N
<1>6. CASE nets # <<>>
  <2>1. DOMAIN copies = DOMAIN nets /\ \A k \in DOMAIN nets : copies[k] = v(k)
    BY <1>2, <1>6, Zenon
  <2>2. ASSUME NEW k \in DOMAIN nets
        PROVE  /\ PlainEntry(v(k)) /\ v(k).power = entry.power
               /\ v(k).net = nets[k] /\ v(k).owner = (full[nets[k]] = NULL)
    BY <1>4, Zenon DEF PlainEntry
  <2>3. ASSUME NEW k \in DOMAIN nets
        PROVE  /\ PlainEntry(copies[k]) /\ copies[k].power = entry.power
               /\ copies[k].net = nets[k] /\ copies[k].owner = (full[nets[k]] = NULL)
    <3>1. copies[k] = v(k)
      BY <2>1, <2>3, Zenon
    <3> HIDE DEF v
    <3> QED
      BY <3>1, <2>2, Zenon
  <2> HIDE DEF v
  <2>4. ASSUME NEW k \in DOMAIN nets
        PROVE  CopyOf(entry, copies[k])
    <3>1. nets[k] \in entry.nets \cap Nets
      BY <1>3, Zenon DEF N
    <3> QED
      BY <3>1, <2>3, Zenon DEF CopyOf
  <2>5. ASSUME NEW j \in DOMAIN nets, NEW k \in DOMAIN nets, copies[j].net = copies[k].net
        PROVE  j = k
    <3>1. nets[j] = nets[k]
      BY <2>3, <2>5, Zenon
    <3> QED
      BY <3>1, <1>3, Zenon
  <2>6. ASSUME NEW n \in N, full[n] = NULL
        PROVE  Owned(copies, n)
    <3>1. PICK k \in DOMAIN nets : nets[k] = n
      BY <1>3, Zenon
    <3>2. copies[k].owner /\ copies[k].net = n
      BY <2>3, <2>6, <3>1, Zenon
    <3> QED
      BY <2>1, <3>2, Zenon DEF Owned
  <2>7. DOMAIN copies = DOMAIN nets
    BY <2>1, Zenon
  <2>8. Once(copies)
    BY <2>5, <2>7, Zenon DEF Once
  <2> QED
    BY <2>4, <2>6, <2>7, <2>8, Zenon DEF N
<1> QED
  BY <1>5, <1>6, Zenon

LEMMA SetModePowerBooks ==
    ASSUME IInv, LInv, SetModePower
    PROVE  LInv'
<1> DEFINE i == power_ppit
           list == cvcPowerPtrList
           entry == list[i]
           copies == Copies(entry)
<1>1. PICK U : list \in Seq(U) /\ \A x \in U : {"net", "owner"} \subseteq DOMAIN x
  BY Zenon DEF IInv, TypeOK, IsList
<1>2. stage = "power" /\ i \in Nat \ {0} /\ i <= Len(list)
  BY Zenon DEF SetModePower, IInv, TypeOK
<1>3. i \in DOMAIN list /\ entry \in U
  BY <1>1, <1>2, SMTT(30)
<1>4. /\ Clean(list, definition) /\ Once(list) /\ Covered(list, full, definition)
      /\ Waiting(list, i) /\ Held(full) /\ Own
  BY <1>2, Zenon DEF LInv, IInv, Current
<1>5. PlainEntry(entry) /\ ~entry.owner
  <2>1. i >= i
    BY <1>2
  <2> QED
    BY <2>1, <1>3, <1>4, Zenon DEF Clean, PlainList, Waiting
<1>6. /\ stage' = "power" /\ power_ppit' = i + Len(copies)
      /\ full' = [n \in Nets |-> IF n \in entry.nets THEN n ELSE full[n]]
      /\ definition' = [n \in Nets |->
            IF n \notin entry.nets THEN definition[n]
            ELSE IF full[n] = NULL THEN entry.power
            ELSE IF IsOther(n, entry) THEN Override(definition[n], entry.power)
            ELSE definition[n]]
      /\ cvcPowerPtrList' = Replaced(list, i, copies)
      /\ UNCHANGED cvcPowerMacroPtrMap
  BY <1>2, Zenon DEF SetModePower, Replaced
<1> DEFINE new == cvcPowerPtrList'
<1>7. IsList(copies) /\ Len(copies) \in Nat
  BY <1>1, <1>3, CopiesType, Zenon
<1>8. /\ \A j \in DOMAIN copies : CopyOf(entry, copies[j])
      /\ Once(copies)
      /\ \A n \in entry.nets \cap Nets : full[n] = NULL => Owned(copies, n)
  BY <1>5, CopiesBook, Zenon
<1> HIDE DEF copies
<1>9. Spliced(list, i, copies, new)
  <2>1. IsList(list)
    BY Zenon DEF IInv, TypeOK
  <2> QED
    BY <2>1, <1>3, <1>6, <1>7, ReplacedIsSpliced, Zenon
<1>10. \A j \in DOMAIN list : j > i => j >= i
  BY <1>1, <1>2
<1>11. \A j \in DOMAIN list : list[j].owner => j < i
  <2>1. \A j \in DOMAIN list : j >= i \/ j < i
    BY <1>1, <1>2
  <2> QED
    BY <2>1, <1>4, Zenon DEF Waiting
<1> HIDE DEF list, entry, i, new
<1>12. ASSUME NEW k \in DOMAIN new, new[k].owner
       PROVE  \/ k \in DOMAIN list /\ new[k] = list[k]
              \/ \E j \in DOMAIN copies : k = i - 1 + j /\ new[k] = copies[j]
  BY <1>4, <1>9, <1>10, <1>12, Zenon DEF Spliced, Waiting
<1>13. ASSUME NEW j \in DOMAIN list, list[j].owner
       PROVE  list[j].net \in Nets /\ full[list[j].net] # NULL
  <2>1. list[j].net \in Nets
    BY <1>4, <1>13, Zenon DEF Clean
  <2>2. Holds(list, definition, list[j].net)
    BY <1>13, Zenon DEF Holds
  <2> QED
    BY <2>1, <2>2, <1>4, Zenon DEF Held, list
<1>14. Once(new)
  <2> SUFFICES ASSUME NEW j \in DOMAIN new, NEW k \in DOMAIN new,
                      new[j].owner, new[k].owner, new[j].net = new[k].net
               PROVE  j = k
    BY Zenon DEF Once
  <2>1. CASE j \in DOMAIN list /\ new[j] = list[j] /\ k \in DOMAIN list /\ new[k] = list[k]
    BY <2>1, <1>4, Zenon DEF Once
  <2>2. CASE /\ \E x \in DOMAIN copies : j = i - 1 + x /\ new[j] = copies[x]
             /\ \E x \in DOMAIN copies : k = i - 1 + x /\ new[k] = copies[x]
    BY <2>2, <1>8, Zenon DEF Once
  <2>3. ASSUME NEW x \in DOMAIN list, NEW y \in DOMAIN copies,
               list[x].owner, copies[y].owner, list[x].net = copies[y].net
        PROVE  FALSE
    BY <2>3, <1>8, <1>13, Zenon DEF CopyOf
  <2> QED
    BY <2>1, <2>2, <2>3, <1>12, Zenon
<1>15. \A n : Owned(list, n) => Owned(new, n)
  BY <1>9, <1>11, Zenon DEF Owned, Spliced
<1>16. \A n : Owned(copies, n) => Owned(new, n)
  BY <1>9, Zenon DEF Owned, Spliced
<1>17. Covered(new, full', definition')
  <2> SUFFICES ASSUME NEW n \in Nets
               PROVE  /\ full'[n] # NULL => Owned(new, full'[n])
                      /\ definition'[n] # NULL => Owned(new, n)
    BY Zenon DEF Covered
  <2>1. CASE n \in entry.nets
    <3>1. full'[n] = n
      BY <2>1, <1>6, Zenon
    <3>2. full[n] # NULL => full[n] = n
      BY <1>4, Zenon DEF Own
    <3>3. Owned(new, n)
      BY <2>1, <3>2, <1>4, <1>8, <1>15, <1>16, Zenon DEF Covered
    <3> QED
      BY <3>1, <3>3, Zenon
  <2>2. CASE n \notin entry.nets
    BY <2>2, <1>4, <1>6, <1>15, Zenon DEF Covered
  <2> QED
    BY <2>1, <2>2, Zenon
<1>18. PlainList(new)
  BY <1>4, <1>8, <1>9, Zenon DEF PlainList, Clean, Spliced, CopyOf
<1>19. ASSUME NEW k \in DOMAIN new, new[k].owner
       PROVE  new[k].net \in Nets /\ Plain(definition'[new[k].net])
  <2> DEFINE n == new[k].net
  <2>1. CASE k \in DOMAIN list /\ new[k] = list[k]
    <3>1. n \in Nets /\ full[n] # NULL /\ Plain(definition[n])
      BY <2>1, <1>4, <1>13, <1>19, Zenon DEF Clean
    <3>2. definition'[n] \in {definition[n], Override(definition[n], entry.power)}
      BY <3>1, <1>6, Zenon
    <3>3. Plain(entry.power)
      BY <1>5, Zenon DEF PlainEntry
    <3> QED
      BY <3>1, <3>2, <3>3, OverrideIsPlain, Zenon
  <2>2. CASE \E j \in DOMAIN copies : k = i - 1 + j /\ new[k] = copies[j]
    <3>1. n \in entry.nets /\ n \in Nets /\ full[n] = NULL
      BY <2>2, <1>8, <1>19, Zenon DEF CopyOf
    <3>2. definition'[n] = entry.power
      BY <3>1, <1>6, Zenon
    <3> QED
      BY <3>1, <3>2, <1>5, Zenon DEF PlainEntry
  <2> QED
    BY <2>1, <2>2, <1>12, <1>19, Zenon
<1>20. Waiting(new, power_ppit')
  <2> SUFFICES ASSUME NEW k \in DOMAIN new, k >= i + Len(copies)
               PROVE  ~new[k].owner
    BY <1>6, Zenon DEF Waiting
  <2>1. i \in Nat /\ Len(copies) \in Nat
    BY <1>2, <1>7, Zenon DEF i
  <2>2. ~ (k < i /\ k \in DOMAIN list)
    <3>1. ASSUME k \in DOMAIN list
          PROVE  k \in Nat
      <4>1. DOMAIN list = 1 .. Len(list)
        BY <1>1 DEF list
      <4> QED
        BY <3>1, <4>1
    <3> QED
      BY <3>1, <2>1
  <2>3. \A j \in DOMAIN copies : k # i - 1 + j
    <3>1. DOMAIN copies = 1 .. Len(copies)
      BY <1>7, SMTT(30) DEF IsList
    <3> QED
      BY <3>1, <2>1
  <2> QED
    BY <2>2, <2>3, <1>4, <1>9, <1>10, Zenon DEF Spliced, Waiting
<1> QED
  BY <1>6, <1>14, <1>17, <1>18, <1>19, <1>20, Zenon DEF LInv, Clean, Current, AfterSwitches, new


-----------------------------------------------------------------------------
(* The other steps.                                                        *)

\* Steps that change no list and no definition, and give a net the power of
\* another one or none.
LEMMA KeptBooks ==
    ASSUME LInv, UNCHANGED <<definition, cvcPowerPtrList, cvcPowerMacroPtrMap>>,
           \A n \in Nets : full'[n] = NULL \/ \E m \in Nets : full'[n] = full[m],
           \/ stage' = "setup"
           \/ /\ Current /\ stage \notin {"setup", "done", "stopped"}
              /\ stage' \notin {"power", "done"}
    PROVE  LInv'
<1>1. CASE stage' = "setup"
  <2>1. ~Current'
    BY <1>1, Zenon DEF Current, AfterSwitches
  <2> QED
    BY <1>1, <2>1, Zenon DEF LInv, PlainMacros
<1>2. CASE Current /\ stage \notin {"setup", "done", "stopped"} /\ stage' \notin {"power", "done"}
  <2>1. /\ Clean(cvcPowerPtrList, definition) /\ Once(cvcPowerPtrList)
        /\ Covered(cvcPowerPtrList, full, definition) /\ PlainMacros(cvcPowerMacroPtrMap)
    BY <1>2, Zenon DEF LInv
  <2>2. Covered(cvcPowerPtrList, full', definition)
    BY <2>1, Zenon DEF Covered
  <2> QED
    BY <1>2, <2>1, <2>2, Zenon DEF LInv, Clean, Once, Covered, PlainMacros
<1> QED
  BY <1>1, <1>2, Zenon

LEMMA SetModelCommandBooks ==
    ASSUME IInv, LInv, SetModelCommand
    PROVE  LInv'
<1> DEFINE list == cvcPowerPtrList
           v(k) == [list[k] EXCEPT !.power = PowerAt(list[k]), !.owner = FALSE]
<1>1. /\ stage = "prompt" /\ stage' = "power" /\ definition' = Unset /\ full' = Unset
      /\ list' = [k \in DOMAIN list |-> v(k)] /\ UNCHANGED cvcPowerMacroPtrMap
  BY Zenon DEF SetModelCommand
<1>2. Clean(list, definition) /\ PlainMacros(cvcPowerMacroPtrMap)
  BY <1>1, Zenon DEF LInv
<1>3. ASSUME NEW k \in DOMAIN list
      PROVE  PlainEntry(v(k)) /\ v(k).owner = FALSE
  <2>1. {"net", "owner", "power"} \subseteq DOMAIN list[k] /\ Plain(PowerAt(list[k]))
    BY <1>2, Zenon DEF Clean, PlainList, PlainEntry, PowerAt
  <2> QED
    BY <2>1, Zenon DEF PlainEntry
<1> HIDE DEF v
<1>4. \A k \in DOMAIN list' : PlainEntry(list'[k]) /\ ~list'[k].owner
  BY <1>1, <1>3, Zenon
<1>5. IsList(list')
  BY SetModelCommandKeeps, Zenon DEF IInv, TypeOK
<1>6. Unowned(list') /\ PlainList(list')
  BY <1>4, <1>5, Zenon DEF Unowned, PlainList
<1>7. /\ Clean(list', definition') /\ Once(list')
      /\ Waiting(list', power_ppit') /\ Covered(list', full', definition')
  BY <1>1, <1>6, UnownedIsBooked, Zenon
<1> QED
  BY <1>1, <1>2, <1>7, Zenon DEF LInv, Clean, Once, Waiting, Covered, PlainMacros

LEMMA SetInstancePowerBooked ==
    ASSUME IInv, LInv, SetInstancePower,
           NEW small, small => VoltagesHaveMargin /\ Drift(equivalentNet_v, full, definition)
    PROVE  BookedState(SetInstance(cvcInstancePowerPtrList[power_ppit].read), small)
<1> DEFINE lines == cvcInstancePowerPtrList[power_ppit].read
<1>1. stage = "instances" /\ power_ppit <= Len(cvcInstancePowerPtrList)
  BY Zenon DEF SetInstancePower
<1>2. /\ power_ppit \in Nat \ {0} /\ isFixedEquivalentNet
      /\ Settled(cvcPowerPtrList, full, definition)
  BY <1>1, Zenon DEF IInv, TypeOK, AfterSwitches
<1>3. lines \in Seq(InstanceLines)
  <2>1. cvcInstancePowerPtrList[power_ppit] \in Entries
    BY <1>1, <1>2, SMTT(30) DEF IInv, TypeOK
  <2> QED
    BY <2>1, Zenon DEF Entries
<1>4. NetsAreNumbered
  BY <1>2, FixedNets, Zenon
<1>5. Booked(cvcPowerPtrList, full, definition) /\ PlainMacros(cvcPowerMacroPtrMap)
  BY <1>1, Zenon DEF LInv, Booked, Current, AfterSwitches
<1> HIDE DEF lines
<1>6. BookedState(SetInstance(lines), small)
  BY <1>2, <1>3, <1>4, <1>5, SetInstanceBooks, Zenon
<1> QED
  BY <1>6, Zenon DEF lines

LEMMA SetInstancePowerBooks ==
    ASSUME IInv, LInv, SetInstancePower
    PROVE  LInv'
<1> DEFINE s == SetInstance(cvcInstancePowerPtrList[power_ppit].read)
<1>1. /\ stage = "instances"
      /\ definition' = s.definition /\ full' = s.full /\ cvcPowerPtrList' = s.list
      /\ stage' = IF s.stopped THEN "stopped" ELSE stage
      /\ UNCHANGED cvcPowerMacroPtrMap
  BY Zenon DEF SetInstancePower
<1>2. BookedState(s, FALSE)
  BY SetInstancePowerBooked, Zenon
<1> HIDE DEF s
<1>3. Booked(cvcPowerPtrList', full', definition')
  BY <1>1, <1>2, Zenon DEF BookedState
<1>4. stage' \in {"instances", "stopped"}
  BY <1>1, Zenon
<1>5. PlainMacros(cvcPowerMacroPtrMap')
  BY <1>1, Zenon DEF LInv
<1> QED
  BY <1>3, <1>4, <1>5, Zenon DEF LInv, Booked

\* SetFamilies adds what the family means to a power that had no relatives yet.
LEMMA WithRelativesExpands ==
    ASSUME NEW p, Plain(p), NEW q, q = WithRelatives(p)
    PROVE  q.relativeSet = Meaning(q, file.families)
<1>1. /\ q.relativeSet = p.relativeSet \cup Relatives(p)
      /\ q.family = p.family /\ q.implicitFamily = p.implicitFamily
  <2>1. {"relativeSet", "family", "implicitFamily"} \subseteq DOMAIN p
    BY Zenon DEF Plain
  <2> QED
    BY <2>1, Zenon DEF WithRelatives
<1>2. p.relativeSet = {}
  BY Zenon DEF Plain
<1>3. q.relativeSet = Relatives(p)
  BY <1>1, <1>2, Zenon
<1>4. Meaning(q, file.families) = Meaning(p, file.families)
  BY <1>1, Zenon DEF Meaning
<1> QED
  BY <1>3, <1>4, RelativesAreMeant, Zenon

LEMMA SetFamiliesBooks ==
    ASSUME IInv, LInv, SetFamilies
    PROVE  LInv'
<1> DEFINE list == cvcPowerPtrList
           owned == {list[k].net : k \in {i \in DOMAIN list : list[i].owner}}
           v(k) == [list[k] EXCEPT !.power = WithRelatives(@)]
<1>1. /\ stage = "families" /\ stage' = "done"
      /\ definition' = [n \in Nets |-> IF n \in owned THEN WithRelatives(definition[n]) ELSE definition[n]]
      /\ list' = [k \in DOMAIN list |-> v(k)]
      /\ UNCHANGED <<full, file, cvcPowerMacroPtrMap>>
  BY Zenon DEF SetFamilies
<1>2. /\ Clean(list, definition) /\ Once(list) /\ Covered(list, full, definition)
      /\ PlainMacros(cvcPowerMacroPtrMap)
  BY <1>1, Zenon DEF LInv, Current, AfterSwitches
<1>3. ASSUME NEW k \in DOMAIN list
      PROVE  v(k).owner = list[k].owner /\ v(k).net = list[k].net
  <2>1. {"net", "owner"} \subseteq DOMAIN list[k]
    BY <1>2, Zenon DEF Clean, PlainList, PlainEntry
  <2> QED
    BY <2>1, Zenon
<1> HIDE DEF v
<1>4. /\ DOMAIN list' = DOMAIN list
      /\ \A k \in DOMAIN list : list'[k].owner = list[k].owner /\ list'[k].net = list[k].net
  BY <1>1, <1>3, Zenon
<1>5. Once(list')
  BY <1>2, <1>4, Zenon DEF Once
<1>6. \A n : Owned(list, n) => Owned(list', n)
  BY <1>4, Zenon DEF Owned
<1>7. \A n : n \in owned => Owned(list, n)
  BY Zenon DEF Owned
<1>8. Covered(list', full', definition')
  <2> SUFFICES ASSUME NEW n \in Nets
               PROVE  /\ full[n] # NULL => Owned(list', full[n])
                      /\ definition'[n] # NULL => Owned(list', n)
    BY <1>1, Zenon DEF Covered
  <2>1. n \in owned \/ definition'[n] = definition[n]
    BY <1>1, Zenon
  <2> HIDE DEF owned
  <2> QED
    BY <2>1, <1>2, <1>6, <1>7, Zenon DEF Covered
<1>9. ASSUME NEW k \in DOMAIN list', list'[k].owner
      PROVE  Meaning(definition'[list'[k].net], file.families) = definition'[list'[k].net].relativeSet
  <2> DEFINE n == list[k].net
  <2>1. k \in DOMAIN list /\ list[k].owner /\ list'[k].net = n
    BY <1>4, <1>9, Zenon
  <2>2. n \in Nets /\ Plain(definition[n]) /\ n \in owned
    BY <2>1, <1>2, Zenon DEF Clean
  <2>3. definition'[n] = WithRelatives(definition[n])
    BY <2>2, <1>1, Zenon
  <2> HIDE DEF n
  <2> QED
    BY <2>1, <2>2, <2>3, WithRelativesExpands, Zenon
<1>10. Expanded(list', definition', file'.families)
  BY <1>1, <1>9, Zenon DEF Expanded
<1> QED
  BY <1>1, <1>2, <1>5, <1>8, <1>10, Zenon DEF LInv

\* A shorted switch gives nets the power of another one.
LEMMA ShortMovesPowers ==
    ASSUME IInv, NEW a \in Nets, NEW b \in Nets, Short(a, b)
    PROVE  \A n \in Nets : full'[n] = NULL \/ \E m \in Nets : full'[n] = full[m]
<1>1. PICK root, lesser, greater, P : Shorts(a, b, root, lesser, greater, P)
  BY ShortShorts, Zenon
<1>2. \A n \in Nets : full'[n] = IF root[n] \in {lesser, greater} THEN P ELSE full[n]
  BY <1>1, ShortsMerge
<1>3. lesser \in Nets /\ greater \in Nets /\ P \in {full[lesser], full[greater]}
  BY <1>1, Zenon DEF Shorts, Prevails
<1> QED
  BY <1>2, <1>3, Zenon

LEMMA NextLInv == IInv /\ LInv /\ [Next]_vars => LInv'
<1> SUFFICES ASSUME IInv, LInv, [Next]_vars
             PROVE  LInv'
  BY Zenon
<1>1. ASSUME NEW f \in circuit.files, ReadPower(f) \/ SetPowerCommand(f)
      PROVE  LInv'
  BY <1>1, ReadPowerBooks, Zenon
<1>2. CASE SetModePower \/ SetModelCommand \/ SetInstancePower \/ SetFamilies
  BY <1>2, SetModePowerBooks, SetModelCommandBooks, SetInstancePowerBooks, SetFamiliesBooks, Zenon
<1>3. CASE /\ UNCHANGED equivalenceVars /\ UNCHANGED <<cvcPowerPtrList, cvcPowerMacroPtrMap>>
           /\ \/ stage' = "setup"
              \/ stage \in {"power", "instances", "expected"} /\ stage' \in {"prompt", "expected", "families"}
              \/ stage = "switches" /\ stage' = "switches"
  <2>1. UNCHANGED <<definition, cvcPowerPtrList, cvcPowerMacroPtrMap, full>>
    BY <1>3, Zenon DEF equivalenceVars
  <2>2. \/ stage' = "setup"
        \/ Current /\ stage \notin {"setup", "done", "stopped"} /\ stage' \notin {"power", "done"}
    BY <1>3, Zenon DEF Current, AfterSwitches
  <2>3. \A n \in Nets : full'[n] = NULL \/ \E m \in Nets : full'[n] = full[m]
    BY <2>1, Zenon
  <2> QED
    BY <2>1, <2>2, <2>3, KeptBooks, Zenon
<1>4. CASE FinishModePower
  BY <1>3, <1>4, Zenon DEF FinishModePower
<1>5. CASE FinishInstancePower
  BY <1>3, <1>5, Zenon DEF FinishInstancePower
<1>6. CASE SetExpectedPower
  BY <1>3, <1>6, Zenon DEF SetExpectedPower
<1>7. CASE NextMode
  BY <1>3, <1>7, Zenon DEF NextMode
<1>8. CASE StartSwitches \/ FinishSwitches
  <2>1. /\ UNCHANGED <<definition, full, cvcPowerPtrList, cvcPowerMacroPtrMap>>
        /\ Current /\ stage \notin {"setup", "done", "stopped"} /\ stage' \notin {"power", "done"}
    BY <1>8, Zenon DEF StartSwitches, FinishSwitches, StartEquivalentNets, SetFixed, Current
  <2>2. \A n \in Nets : full'[n] = NULL \/ \E m \in Nets : full'[n] = full[m]
    BY <2>1, Zenon
  <2> QED
    BY <2>1, <2>2, KeptBooks, Zenon
<1>9. ASSUME NEW s \in circuit.switches,
             Skip(s[1], s[2]) \/ Report(s[1], s[2]) \/ Short(s[1], s[2])
      PROVE  LInv'
  <2>1. s[1] \in Nets /\ s[2] \in Nets
    BY SwitchesAssumption, ZenonT(40) DEF IInv, TypeOK
  <2>2. CASE Skip(s[1], s[2]) \/ Report(s[1], s[2])
    BY <2>2, <1>3, Zenon DEF Skip, Report, SkipSwitch, ReportSwitch, setupVars
  <2>3. CASE Short(s[1], s[2])
    <3>1. /\ UNCHANGED <<definition, cvcPowerPtrList, cvcPowerMacroPtrMap>>
          /\ stage = "switches" /\ stage' = "switches"
      BY <2>3, Zenon DEF Short, ShortSwitch, setupVars
    <3>2. \A n \in Nets : full'[n] = NULL \/ \E m \in Nets : full'[n] = full[m]
      BY <2>1, <2>3, ShortMovesPowers, Zenon
    <3> QED
      BY <3>1, <3>2, KeptBooks, Zenon DEF Current
  <2> QED
    BY <1>9, <2>2, <2>3, Zenon
<1>10. ASSUME NEW n \in Nets, FixNet(n)
       PROVE  LInv'
  <2>1. /\ UNCHANGED <<definition, cvcPowerPtrList, cvcPowerMacroPtrMap>>
        /\ stage = "switches" /\ stage' = "switches"
        /\ full' = IF full[n] = n THEN full ELSE [full EXCEPT ![n] = NULL]
    BY <1>10, Zenon DEF FixNet, Fix, setupVars
  <2>2. full \in [Nets -> Opt]
    BY Zenon DEF IInv, TypeOK
  <2>3. \A m \in Nets : full'[m] = NULL \/ full'[m] = full[m]
    BY <2>1, <2>2, Zenon
  <2>4. \A m \in Nets : full'[m] = NULL \/ \E k \in Nets : full'[m] = full[k]
    BY <2>3, Zenon
  <2> QED
    BY <2>1, <2>4, KeptBooks, Zenon DEF Current
<1>11. CASE Finished \/ UNCHANGED vars
  <2>1. UNCHANGED <<definition, full, file, cvcPowerPtrList, cvcPowerMacroPtrMap, powerFileStatus,
                    power_ppit, stage>>
    BY <1>11, Zenon DEF Finished, vars, equivalenceVars, setupVars
  <2>2. Current <=> Current'
    BY <2>1, Zenon DEF Current, AfterSwitches
  <2> QED
    BY <2>1, <2>2, Zenon DEF LInv
<1> QED
  BY <1>1, <1>2, <1>4, <1>5, <1>6, <1>7, <1>8, <1>9, <1>10, <1>11, SMTT(30) DEF Next

\* The power of each net is in the list once, whether a line of the power file
\* gave it, one of its copies or an instance, however often the file is read, the
\* list given to the nets again and the mode repeated: SetFamilies has expanded
\* the family of each.
THEOREM EachPowerIsListedOnce == Spec => []PowersAreListed
<1>1. Spec => [](IInv /\ LInv)
  BY InitIInv, InitLInv, NextIInv, NextLInv, PTL DEF Spec
<1>2. LInv => PowersAreListed
  <2> SUFFICES ASSUME LInv, stage \in {"prompt", "families", "done"}, powerFileStatus = "OK",
                      NEW n \in Nets, full[n] # NULL
               PROVE  /\ Cardinality({k \in DOMAIN cvcPowerPtrList :
                               cvcPowerPtrList[k].owner /\ cvcPowerPtrList[k].net = full[n]}) = 1
                      /\ stage = "done" =>
                            Relatives(definition[full[n]]) = definition[full[n]].relativeSet
    BY Zenon DEF PowersAreListed
  <2>1. Once(cvcPowerPtrList) /\ Covered(cvcPowerPtrList, full, definition)
    BY Zenon DEF LInv, Current, AfterSwitches
  <2>2. PICK k \in DOMAIN cvcPowerPtrList : cvcPowerPtrList[k].owner /\ cvcPowerPtrList[k].net = full[n]
    BY <2>1, Zenon DEF Covered, Owned
  <2>3. {j \in DOMAIN cvcPowerPtrList :
             cvcPowerPtrList[j].owner /\ cvcPowerPtrList[j].net = full[n]} = {k}
    BY <2>1, <2>2, Zenon DEF Once
  <2>4. Cardinality({k}) = 1
    BY FS_Singleton, Zenon
  <2>5. stage = "done" => Relatives(definition[full[n]]) = definition[full[n]].relativeSet
    BY <2>2, RelativesAreMeant, Zenon DEF LInv, Expanded
  <2> QED
    BY <2>3, <2>4, <2>5, Zenon
<1> QED
  BY <1>1, <1>2, PTL


-----------------------------------------------------------------------------
(* The voltages of the classes: the inductive invariant.                   *)

\* The pointer to no power is not a power.
NullIsNoPower == "sim" \notin DOMAIN NULL

DInv ==
    /\ stage = "switches" =>
          \E root \in [Nets -> Nets] : Together(root, shorted) /\ Drift(root, full, definition)
    /\ AfterSwitches => Drift(equivalentNet_v, full, definition)

LEMMA PlainIsPower ==
    ASSUME NullIsNoPower, NEW p, Plain(p)
    PROVE  p # NULL
BY Zenon DEF NullIsNoPower, Plain

\* The powers of the nets are as they were read until their families are expanded.
LEMMA ListedPowers ==
    ASSUME LInv, stage \notin {"setup", "done", "stopped"}, Current
    PROVE  /\ \A n \in Nets : definition[n] # NULL => Plain(definition[n])
           /\ \A n \in Nets : full[n] # NULL => Plain(definition[full[n]])
<1>1. Clean(cvcPowerPtrList, definition) /\ Covered(cvcPowerPtrList, full, definition)
  BY Zenon DEF LInv
<1> QED
  BY <1>1, Zenon DEF Clean, Covered, Owned

LEMMA StartSwitchesDrifts ==
    ASSUME VoltagesHaveMargin, LInv, StartSwitches
    PROVE  DInv'
<1>1. /\ stage = "prompt" /\ powerFileStatus = "OK" /\ stage' = "switches" /\ shorted' = {}
      /\ UNCHANGED <<definition, full>>
  BY Zenon DEF StartSwitches, StartEquivalentNets
<1> DEFINE id == [n \in Nets |-> n]
<1>2. id \in [Nets -> Nets] /\ \A n \in Nets : id[n] = n
  BY Zenon
<1> HIDE DEF id
<1>3. Together(id, shorted')
  BY <1>1, <1>2, Zenon DEF Together
<1>4. ASSUME NEW h \in Nets, NEW k \in With(id, definition, h)
      PROVE  Within(definition[h], definition[k], Cardinality(With(id, definition, h)) - 1)
  <2>1. k = h /\ With(id, definition, h) = {h} /\ definition[h] # NULL
    BY <1>2, Zenon DEF With
  <2>2. Plain(definition[h])
    BY <2>1, <1>1, ListedPowers, Zenon DEF Current
  <2> QED
    BY <2>1, <2>2, WithinItself, Zenon
<1>5. Drift(id, full, definition)
  BY <1>4, Zenon DEF Drift
<1>6. ~AfterSwitches'
  BY <1>1, Zenon DEF AfterSwitches
<1> QED
  BY <1>1, <1>2, <1>3, <1>5, <1>6, Zenon DEF DInv

\* The class of lesser and greater, with the power P.
LEMMA MergedDrift ==
    ASSUME VoltagesHaveMargin, NullIsNoPower, LInv, stage = "switches",
           NEW a, NEW b, NEW root, NEW lesser, NEW greater, NEW P,
           Shorts(a, b, root, lesser, greater, P), Drift(root, full, definition)
    PROVE  Drift(Merged(root, lesser, greater), full', definition)
<1> DEFINE t == Merged(root, lesser, greater)
<1>1. /\ root \in [Nets -> Nets] /\ \A n \in Nets : root[root[n]] = root[n]
      /\ Represent(root, full) /\ Held(full)
      /\ lesser \in Nets /\ greater \in Nets /\ lesser # greater
      /\ root[lesser] = lesser /\ root[greater] = greater
      /\ Prevails(P, full[lesser], full[greater])
  BY Zenon DEF Shorts, Classes, Roots
<1>2. \A n \in Nets : full'[n] = IF root[n] \in {lesser, greater} THEN P ELSE full[n]
  BY ShortsMerge
<1>3. \A n \in Nets : t[n] = IF root[n] = greater THEN lesser ELSE root[n]
  BY Zenon DEF Merged
<1> HIDE DEF t
<1> SUFFICES ASSUME NEW h \in Nets, full'[h] = h, NEW k \in With(t, definition, h)
             PROVE  Within(definition[h], definition[k], Cardinality(With(t, definition, h)) - 1)
  BY Zenon DEF Drift, t
<1>4. CASE root[h] \notin {lesser, greater}
  <2>1. full[h] = h
    BY <1>2, <1>4, Zenon
  <2>2. \A n \in Nets : t[n] = t[h] <=> root[n] = root[h]
    BY <1>3, <1>4, Zenon
  <2>3. With(t, definition, h) = With(root, definition, h)
    BY <2>2, Zenon DEF With
  <2> QED
    BY <2>1, <2>3, Zenon DEF Drift
<1>5. CASE root[h] \in {lesser, greater}
  <2>1. P = h /\ h # NULL
    BY <1>2, <1>5, NetsAreNumbers, Zenon
  <2>2. PICK x \in {lesser, greater} : full[x] = P
    BY <1>1, Zenon DEF Prevails
  <2>3. PICK y \in {lesser, greater} : y # x
    BY <1>1, Zenon
  <2>4. x \in Nets /\ y \in Nets /\ root[x] = x /\ root[y] = y /\ {x, y} = {lesser, greater}
    <3>1. /\ lesser \in Nets /\ greater \in Nets /\ root[lesser] = lesser /\ root[greater] = greater
      BY <1>1, Zenon
    <3>2. (x = lesser /\ y = greater) \/ (x = greater /\ y = lesser)
      BY <2>2, <2>3, Zenon
    <3>3. {lesser, greater} = {greater, lesser}
      BY Zenon
    <3> QED
      BY <3>1, <3>2, <3>3, Zenon
  <2> DEFINE A == With(root, definition, x)
             B == With(root, definition, y)
  <2>5. \A n \in Nets : t[n] = t[h] <=> root[n] = x \/ root[n] = y
    BY <2>4, <1>1, <1>3, <1>5, Zenon
  <2>6. With(t, definition, h) = A \cup B
    BY <2>4, <2>5, Zenon DEF With
  <2>7. A \in SUBSET Nets /\ B \in SUBSET Nets /\ A \cap B = {}
    BY <2>3, <2>4, Zenon DEF With
  <2>8. root[h] = x /\ full[h] = h
    <3>1. root[full[x]] = root[x] /\ full[h] = full[root[h]]
      BY <2>1, <2>2, <2>4, <1>1, Zenon DEF Represent
    <3>2. root[h] = x
      BY <3>1, <2>1, <2>2, <2>4, Zenon
    <3> QED
      BY <3>1, <3>2, <2>1, <2>2, Zenon
  <2>9. With(root, definition, h) = A
    BY <2>4, <2>8, Zenon DEF With
  <2>10. Plain(definition[h]) /\ h \in A
    <3>1. Plain(definition[h])
      BY <2>1, <2>8, ListedPowers, Zenon DEF Current
    <3> QED
      BY <3>1, <2>4, <2>8, PlainIsPower, Zenon DEF With
  <2>11. k \in Nets /\ Plain(definition[k]) /\ definition[k] # NULL
    BY ListedPowers, Zenon DEF Current, With
  <2> DEFINE i == Cardinality(A)
             j == Cardinality(B)
  <2> HIDE DEF A, B
  <2>12. i \in Nat /\ j \in Nat /\ i >= 1 /\ Cardinality(A \cup B) = i + j
    BY <2>7, <2>10, NetSets, SetsApart, NotEmpty, Zenon
  <2> HIDE DEF i, j
  <2>13. Cardinality(With(t, definition, h)) = i + j
    BY <2>6, <2>12, Zenon
  <2>14. CASE k \in A
    <3>1. Within(definition[h], definition[k], i - 1)
      BY <2>8, <2>9, <2>14, Zenon DEF Drift, i
    <3> QED
      BY <3>1, <2>10, <2>11, <2>12, <2>13, WithinMore, Zenon
  <2>15. CASE k \in B
    <3> DEFINE Q == full[y]
    <3>1. root[k] = y
      BY <2>4, <2>15, Zenon DEF B, With
    <3>2. Q # NULL
      <4>1. full[k] # NULL
        BY <2>11, <1>1, Zenon DEF Held, Holds
      <4> QED
        BY <4>1, <3>1, <2>11, <1>1, Zenon DEF Represent
    <3>3. Q \in Nets /\ root[Q] = y
      <4>1. Q \in Opt /\ root[Q] = root[y]
        BY <3>2, <2>4, <1>1, Zenon DEF Represent
      <4> QED
        BY <4>1, <3>2, <2>4, Zenon DEF Opt
    <3>4. full[Q] = Q
      BY <3>3, <1>1, Zenon DEF Represent
    <3>5. With(root, definition, Q) = B
      BY <3>3, <2>4, Zenon DEF B, With
    <3>6. Plain(definition[Q])
      BY <3>2, <3>3, <3>4, ListedPowers, Zenon DEF Current
    <3>7. Within(definition[Q], definition[k], j - 1)
      BY <3>3, <3>4, <3>5, <2>15, Zenon DEF Drift, j
    <3>8. Q # h
      BY <3>3, <2>3, <2>8, Zenon
    <3>9. IsValidSubset(h, Q)
      BY <3>2, <3>8, <2>1, <2>3, <1>1, Zenon DEF Prevails
    <3>10. \A level \in Levels : Near(definition[h][level], definition[Q][level])
      BY <3>9, Zenon DEF IsValidSubset, ValidSubset
    <3> HIDE DEF Q
    <3> QED
      BY <3>6, <3>7, <3>10, <2>10, <2>11, <2>12, <2>13, WithinNear, Zenon
  <2> QED
    BY <2>6, <2>14, <2>15, Zenon
<1> QED
  BY <1>4, <1>5, Zenon

LEMMA ShortDrifts ==
    ASSUME VoltagesHaveMargin, NullIsNoPower, IInv, LInv, DInv,
           NEW a \in Nets, NEW b \in Nets, Short(a, b)
    PROVE  DInv'
<1>1. /\ stage = "switches" /\ stage' = "switches" /\ net_it = NetCount
      /\ shorted' = shorted \cup {{a, b}} /\ UNCHANGED definition
  BY Zenon DEF Short, ShortSwitch, Shorting, setupVars
<1>2. PICK root, lesser, greater, P : Shorts(a, b, root, lesser, greater, P)
  BY ShortShorts, Zenon
<1>3. /\ Roots(equivalentNet_v, root, NetCount) /\ Together(root, shorted) /\ root \in [Nets -> Nets]
      /\ lesser \in Nets /\ greater \in Nets /\ lesser # greater
      /\ root[lesser] = lesser /\ root[greater] = greater /\ {root[a], root[b]} = {lesser, greater}
  BY <1>1, <1>2, Zenon DEF Shorts, Classes, Roots
<1>4. PICK r \in [Nets -> Nets] : Together(r, shorted) /\ Drift(r, full, definition)
  BY <1>1, Zenon DEF DInv
<1>5. Drift(root, full, definition)
  BY <1>3, <1>4, DriftOfClasses, Zenon
<1> DEFINE t == Merged(root, lesser, greater)
<1>6. Drift(t, full', definition)
  BY <1>1, <1>2, <1>5, MergedDrift, Zenon
<1>7. Together(t, shorted')
  BY <1>1, <1>3, MergedTogether, Zenon
<1>8. t \in [Nets -> Nets]
  BY <1>3, Zenon DEF Merged
<1> HIDE DEF t
<1>9. ~AfterSwitches'
  BY <1>1, Zenon DEF AfterSwitches
<1> QED
  BY <1>1, <1>6, <1>7, <1>8, <1>9, Zenon DEF DInv


\* The last pass of SetEquivalentNets takes powers away, and leaves those of the
\* nets that have their own.
LEMMA FixNetDrifts ==
    ASSUME IInv, DInv, NEW n \in Nets, FixNet(n)
    PROVE  DInv'
<1>1. /\ stage = "switches" /\ stage' = "switches" /\ UNCHANGED <<definition, shorted>>
      /\ full' = IF full[n] = n THEN full ELSE [full EXCEPT ![n] = NULL]
  BY Zenon DEF FixNet, Fix, setupVars
<1>2. \A h \in Nets : full'[h] = h => full[h] = h
  <2>1. full \in [Nets -> Opt] /\ \A h \in Nets : h # NULL
    BY NetsAreNumbers, Zenon DEF IInv, TypeOK
  <2> QED
    BY <2>1, <1>1, Zenon
<1>3. \A root : Drift(root, full, definition) => Drift(root, full', definition)
  BY <1>2, Zenon DEF Drift
<1>4. ~AfterSwitches'
  BY <1>1, Zenon DEF AfterSwitches
<1> QED
  BY <1>1, <1>3, <1>4, Zenon DEF DInv

LEMMA FinishSwitchesDrifts ==
    ASSUME IInv, DInv, FinishSwitches
    PROVE  DInv'
<1>1. /\ stage = "switches" /\ stage' = "instances" /\ isFixedEquivalentNet'
      /\ UNCHANGED <<definition, equivalentNet_v, full, shorted>>
  BY Zenon DEF FinishSwitches, SetFixed
<1>2. Together(equivalentNet_v, shorted) /\ equivalentNet_v \in [Nets -> Nets]
  <2>1. Fixed' /\ TypeOK
    BY <1>1, FinishSwitchesKeeps, Zenon DEF IInv
  <2> QED
    BY <2>1, <1>1, Zenon DEF Fixed, TypeOK
<1>3. PICK root \in [Nets -> Nets] : Together(root, shorted) /\ Drift(root, full, definition)
  BY <1>1, Zenon DEF DInv
<1>4. Drift(equivalentNet_v, full, definition)
  BY <1>2, <1>3, DriftOfClasses, Zenon
<1> QED
  BY <1>1, <1>4, Zenon DEF DInv

LEMMA SetInstancePowerDrifts ==
    ASSUME VoltagesHaveMargin, IInv, LInv, DInv, SetInstancePower
    PROVE  DInv'
<1> DEFINE lines == cvcInstancePowerPtrList[power_ppit].read
           s == SetInstance(lines)
<1>1. /\ stage = "instances" /\ definition' = s.definition /\ full' = s.full
      /\ stage' = IF s.stopped THEN "stopped" ELSE stage
      /\ UNCHANGED equivalentNet_v
  BY Zenon DEF SetInstancePower, unchangedByStage1
<1>2. Drift(equivalentNet_v, full, definition)
  BY <1>1, Zenon DEF DInv, AfterSwitches
<1>3. BookedState(s, TRUE)
  BY <1>2, SetInstancePowerBooked, Zenon
<1> HIDE DEF s
<1>4. Drift(equivalentNet_v', full', definition')
  BY <1>1, <1>3, Zenon DEF BookedState
<1>5. stage' \in {"instances", "stopped"}
  BY <1>1, Zenon
<1> QED
  BY <1>4, <1>5, Zenon DEF DInv

\* SetFamilies changes no voltage.
LEMMA SetFamiliesDrifts ==
    ASSUME NullIsNoPower, LInv, DInv, SetFamilies
    PROVE  DInv'
<1> DEFINE list == cvcPowerPtrList
           owned == {list[k].net : k \in {i \in DOMAIN list : list[i].owner}}
<1>1. /\ stage = "families" /\ stage' = "done"
      /\ definition' = [n \in Nets |-> IF n \in owned THEN WithRelatives(definition[n]) ELSE definition[n]]
      /\ UNCHANGED <<full, equivalentNet_v>>
  BY Zenon DEF SetFamilies, unchangedByStage1
<1>2. Clean(list, definition) /\ Drift(equivalentNet_v, full, definition)
  BY <1>1, Zenon DEF LInv, DInv, AfterSwitches
<1>3. \A n \in owned : Plain(definition[n])
  BY <1>2, Zenon DEF Clean
<1>4. ASSUME NEW p, Plain(p)
      PROVE  /\ p # NULL /\ WithRelatives(p) # NULL
             /\ \A level \in Levels : WithRelatives(p)[level] = p[level]
  <2>1. /\ DOMAIN WithRelatives(p) = DOMAIN p
        /\ \A level \in Levels : level \in DOMAIN p => WithRelatives(p)[level] = p[level]
    BY Zenon DEF WithRelatives, Levels
  <2> QED
    BY <2>1, <1>4, Zenon DEF Plain, NullIsNoPower, Levels
<1> HIDE DEF owned
<1>5. ASSUME NEW n \in Nets
      PROVE  /\ definition'[n] # NULL <=> definition[n] # NULL
             /\ \A level \in Levels : definition'[n][level] = definition[n][level]
  BY <1>1, <1>3, <1>4, Zenon
<1>6. \A h \in Nets : With(equivalentNet_v, definition', h) = With(equivalentNet_v, definition, h)
  BY <1>5, Zenon DEF With
<1>7. \A steps : \A h, k \in Nets :
         Within(definition[h], definition[k], steps) => Within(definition'[h], definition'[k], steps)
  BY <1>5, Zenon DEF Within
<1>8. Drift(equivalentNet_v, full, definition')
  <2>1. \A h \in Nets : \A k \in With(equivalentNet_v, definition, h) : k \in Nets
    BY Zenon DEF With
  <2> QED
    BY <2>1, <1>2, <1>6, <1>7, Zenon DEF Drift
<1> QED
  BY <1>1, <1>8, Zenon DEF DInv

LEMMA NextDInv ==
    ASSUME VoltagesHaveMargin, NullIsNoPower, IInv, LInv, DInv, [Next]_vars
    PROVE  DInv'
<1>1. ASSUME stage' \notin {"switches", "instances", "expected", "families", "done"}
      PROVE  DInv'
  BY <1>1, Zenon DEF DInv, AfterSwitches
<1>2. ASSUME NEW f \in circuit.files, ReadPower(f) \/ SetPowerCommand(f)
      PROVE  DInv'
  <2>1. stage' \in {"power", "prompt", "setup"}
    BY <1>2, ZenonT(40) DEF ReadPower, SetPowerCommand
  <2> QED
    BY <2>1, <1>1, Zenon
<1>3. CASE SetModePower \/ FinishModePower \/ SetModelCommand \/ NextMode
  <2>1. stage' \in {"power", "prompt", "setup"}
    BY <1>3, Zenon DEF SetModePower, FinishModePower, SetModelCommand, NextMode
  <2> QED
    BY <2>1, <1>1, Zenon
<1>4. CASE StartSwitches \/ FinishSwitches \/ SetInstancePower \/ SetFamilies
  BY <1>4, StartSwitchesDrifts, FinishSwitchesDrifts, SetInstancePowerDrifts, SetFamiliesDrifts, Zenon
<1>5. CASE /\ UNCHANGED equivalenceVars
           /\ stage' = "setup" \/ stage' = stage
              \/ (AfterSwitches /\ stage' \in {"expected", "families"})
  <2>1. UNCHANGED <<definition, full, equivalentNet_v, shorted>>
    BY <1>5, Zenon DEF equivalenceVars
  <2> QED
    BY <1>5, <2>1, Zenon DEF DInv, AfterSwitches
<1>6. CASE FinishInstancePower \/ SetExpectedPower
  BY <1>5, <1>6, Zenon DEF FinishInstancePower, SetExpectedPower, AfterSwitches
<1>7. ASSUME NEW s \in circuit.switches,
             Skip(s[1], s[2]) \/ Report(s[1], s[2]) \/ Short(s[1], s[2])
      PROVE  DInv'
  <2>1. s[1] \in Nets /\ s[2] \in Nets
    BY SwitchesAssumption, ZenonT(40) DEF IInv, TypeOK
  <2>2. CASE Skip(s[1], s[2]) \/ Report(s[1], s[2])
    BY <2>2, <1>5, Zenon DEF Skip, Report, SkipSwitch, ReportSwitch, setupVars
  <2>3. CASE Short(s[1], s[2])
    BY <2>1, <2>3, ShortDrifts, Zenon
  <2> QED
    BY <1>7, <2>2, <2>3, Zenon
<1>8. ASSUME NEW n \in Nets, FixNet(n)
      PROVE  DInv'
  BY <1>8, FixNetDrifts, Zenon
<1>9. CASE Finished \/ UNCHANGED vars
  BY <1>5, <1>9, Zenon DEF Finished, vars, setupVars
<1> QED
  BY <1>2, <1>3, <1>4, <1>6, <1>7, <1>8, <1>9, SMTT(30) DEF Next

\* No order of the switches merges powers whose voltages are further apart than
\* one threshold for each definition given up, and no known voltage is given up
\* for an unknown one: for every power file whose voltages are a threshold below
\* the unknown one.
THEOREM DriftIsWithinThresholds ==
    ASSUME VoltagesHaveMargin, NullIsNoPower
    PROVE  Spec => []DriftIsBounded
<1>1. Init => DInv
  BY Zenon DEF Init, DInv, AfterSwitches
<1>2. IInv /\ LInv /\ DInv /\ [Next]_vars => DInv'
  BY NextDInv, Zenon
<1>3. IInv /\ DInv => DriftIsBounded
  <2> SUFFICES ASSUME IInv, DInv, AfterSwitches, NEW n \in Nets, definition[n] # NULL,
                      NEW e, e = GetEquivalentNet(n), NEW level \in Levels,
                      Known(definition[n][level]),
                      NEW defined,
                      defined = {k \in Nets : definition[k] # NULL /\ GetEquivalentNet(k) = e}
               PROVE  AbsoluteDifference(definition[e][level], definition[n][level])
                         <= Threshold * (Cardinality(defined) - 1)
    BY Zenon DEF DriftIsBounded
  <2>1. /\ isFixedEquivalentNet /\ Settled(cvcPowerPtrList, full, definition) /\ Fixed
        /\ Drift(equivalentNet_v, full, definition)
    BY Zenon DEF IInv, DInv
  <2>2. e = equivalentNet_v[n] /\ e \in Nets /\ equivalentNet_v[e] = e
    BY <2>1, FixedNumber, Zenon DEF Fixed
  <2>3. full[e] = e
    BY <2>1, <2>2, Zenon DEF Settled, Holds
  <2>4. \A k \in Nets : GetEquivalentNet(k) = equivalentNet_v[k]
    BY <2>1, FixedNumber, Zenon
  <2>5. defined = With(equivalentNet_v, definition, e) /\ n \in defined
    BY <2>2, <2>4, Zenon DEF With
  <2>6. Within(definition[e], definition[n], Cardinality(defined) - 1)
    BY <2>1, <2>2, <2>3, <2>5, Zenon DEF Drift
  <2> QED
    BY <2>6, Zenon DEF Within
<1> QED
  BY <1>1, <1>2, <1>3, InitIInv, InitLInv, NextIInv, NextLInv, PTL DEF Spec
=============================================================================
