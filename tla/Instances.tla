------------------------------ MODULE Instances -----------------------------
(***************************************************************************)
(* From the hierarchical netlist to the table of instances: the count of   *)
(* instances of each circuit (CCircuit::CountObjectsAndLinkSubcircuits,    *)
(* CountInstantiations) and the numbering of instances, devices and nets   *)
(* (CInstance::AssignTopGlobalIDs, AssignGlobalIDs), which keeps one of    *)
(* several instances that are connected in parallel.                       *)
(*                                                                         *)
(* A netlist maps the name of a circuit to its number of ports, of nets    *)
(* (the ports first) and of devices, and to its calls: a sequence of       *)
(* [master, nets], nets being local nets, numbered from 1.                 *)
(*                                                                         *)
(* The field parallel of an instance is the union of the code: the number  *)
(* of instances it stands for or, for one that is not expanded, the        *)
(* instance that stands for it.                                            *)
(***************************************************************************)
EXTENDS Integers, Sequences, FiniteSets, FiniteSetsExt

\* The circuit "top" is cvcTopBlock.
Calls(netlist, c) == netlist[c].calls

-----------------------------------------------------------------------------
(* Counting.  A count is [linked, instances, subcircuits], functions of    *)
(* the circuits.                                                           *)

NothingCounted(netlist) ==
    [linked |-> {}, instances |-> [c \in DOMAIN netlist |-> 0],
     subcircuits |-> [c \in DOMAIN netlist |-> 0]]

\* CountInstantiations: another instance of a circuit already linked.
RECURSIVE CountInstantiations(_, _, _, _)
CountInstantiations(netlist, count, c, i) ==
    IF i > Len(Calls(netlist, c)) THEN count
    ELSE LET child == Calls(netlist, c)[i].master
             below == IF count.subcircuits[child] > 0
                      THEN CountInstantiations(netlist, count, child, 1) ELSE count
         IN  CountInstantiations(netlist, [below EXCEPT !.instances[child] = @ + 1], c, i + 1)

\* CountObjectsAndLinkSubcircuits from call i of circuit c on.  The number of subcircuits
\* starts as the number of calls and grows by those of each child.
RECURSIVE CountCalls(_, _, _, _)
CountCalls(netlist, count, c, i) ==
    IF i > Len(Calls(netlist, c)) THEN [count EXCEPT !.linked = @ \cup {c}]
    ELSE LET child == Calls(netlist, c)[i].master
             below == IF child \in count.linked
                      THEN IF count.subcircuits[child] > 0
                           THEN CountInstantiations(netlist, count, child, 1) ELSE count
                      ELSE CountCalls(netlist,
                                      [count EXCEPT !.subcircuits[child] =
                                                        Len(Calls(netlist, child))],
                                      child, 1)
         IN  CountCalls(netlist,
                        [below EXCEPT !.instances[child] = @ + 1,
                                      !.subcircuits[c] = @ + below.subcircuits[child]],
                        c, i + 1)

CountObjectsAndLinkSubcircuits(netlist) ==
    LET start == [NothingCounted(netlist) EXCEPT !.subcircuits["top"] =
                                                     Len(Calls(netlist, "top"))]
        done == CountCalls(netlist, start, "top", 1)
    IN  [done EXCEPT !.instances["top"] = @ + 1, !.subcircuits["top"] = @ + 1]

-----------------------------------------------------------------------------
(* Numbering.  The state of the recursion is [inst, netCount, deviceCount, *)
(* subcircuitCount, hashed]: hashed are the instances in the hash lists    *)
(* of the masters (instanceHashId_v, nextHashedInstanceId).                *)

\* localToGlobalNetId_v is empty: a parallel instance.
IsParallelInstance(i) == i.net = <<>>

\* FindParallelInstance: the instance in the hash lists with the same master and the same
\* nets at all ports, or id itself.
FindParallelInstance(st, id, master, ports) ==
    LET same == {r \in st.hashed : /\ st.inst[r].master = master
                                   /\ SubSeq(st.inst[r].net, 1, Len(ports)) = ports}
    IN  IF same = {} THEN id ELSE CHOOSE r \in same : TRUE

\* The instance whose count goes up for one more instance like r.
Representative(st, r) ==
    IF IsParallelInstance(st.inst[r]) THEN st.inst[r].parallel ELSE r

\* Where a parallel instance finds its counterpart, and whether it is one.
Parallel(netlist, limit, st, id, call, parentId, isParallel) ==
    LET parent == st.inst[parentId]
        ports == [p \in 1 .. Len(call.nets) |-> parent.net[call.nets[p]]]
        found == IF isParallel
                 THEN st.inst[parent.parallel].first + (id - parent.first)
                 ELSE FindParallelInstance(st, id, call.master, ports)
    IN  IF isParallel \/ (Len(call.nets) <= limit /\ found # id)
        THEN [isParallel |-> TRUE, id |-> found, value |-> found]
        ELSE [isParallel |-> FALSE, id |-> id,
              value |-> IF Len(call.nets) <= limit THEN 1 ELSE 0]

\* localToGlobalNetId_v: the nets at the ports, then new numbers for the inner nets.
GlobalNets(st, master, parent, call) ==
    [n \in 1 .. master.nets |->
        IF n <= master.ports THEN parent.net[call.nets[n]] ELSE st.netCount + n - master.ports]

\* The tables with the instance this, which p says is parallel or not.
AddInstance(st, master, id, this, p, isHashed) ==
    LET inst == [i \in DOMAIN st.inst \cup {id} |-> IF i = id THEN this ELSE st.inst[i]]
    IN  IF p.isParallel
        THEN [st EXCEPT !.inst = [inst EXCEPT ![Representative(st, p.id)].parallel = @ + 1],
                        !.subcircuitCount = @ + Len(master.calls)]
        ELSE [inst |-> inst,
              netCount |-> st.netCount + master.nets - master.ports,
              deviceCount |-> st.deviceCount + master.devices,
              subcircuitCount |-> st.subcircuitCount + Len(master.calls),
              hashed |-> IF isHashed THEN st.hashed \cup {id} ELSE st.hashed]

\* AssignGlobalIDs up to its loop: the state, and whether the instance is parallel.
NumberInstance(netlist, limit, st, id, call, parentId, p) ==
    LET master == netlist[call.master]
        this == [master |-> call.master, parentId |-> parentId, parallel |-> p.value,
                 first |-> st.subcircuitCount, firstDevice |-> st.deviceCount,
                 net |-> IF p.isParallel THEN <<>>
                         ELSE GlobalNets(st, master, st.inst[parentId], call)]
    IN  [st |-> AddInstance(st, master, id, this, p, Len(call.nets) <= limit),
         id |-> id, master |-> call.master, isParallel |-> p.isParallel]

\* The loop over the calls of an instance a, from call i on.
RECURSIVE AssignGlobalIDs(_, _, _, _)
AssignGlobalIDs(netlist, limit, a, i) ==
    IF i > Len(Calls(netlist, a.master)) THEN a.st
    ELSE LET call == Calls(netlist, a.master)[i]
             id == a.st.inst[a.id].first + i - 1
             p == Parallel(netlist, limit, a.st, id, call, a.id, a.isParallel)
             child == NumberInstance(netlist, limit, a.st, id, call, a.id, p)
         IN  AssignGlobalIDs(netlist, limit,
                             [a EXCEPT !.st = AssignGlobalIDs(netlist, limit, child, 1)], i + 1)

\* AssignTopGlobalIDs: the top instance is 0 and its nets are the global ones.
AssignTopGlobalIDs(netlist, limit) ==
    LET top == netlist["top"]
        start == [inst |-> [i \in {0} |->
                      [master |-> "top", parentId |-> 0, parallel |-> 0, first |-> 1,
                       firstDevice |-> 0, net |-> [n \in 1 .. top.nets |-> n]]],
                  netCount |-> top.nets, deviceCount |-> top.devices,
                  subcircuitCount |-> 1 + Len(top.calls), hashed |-> {}]
    IN  AssignGlobalIDs(netlist, limit,
                        [st |-> start, id |-> 0, master |-> "top", isParallel |-> FALSE], 1)

\* CalculateMFactor: how many instances an instance stands for.
CalculateMFactor(inst, id) ==
    IF IsParallelInstance(inst[id]) THEN 0
    ELSE IF inst[id].parallel > 1 THEN inst[id].parallel ELSE 1

=============================================================================
