----------------------------- MODULE PowerSetup -----------------------------
(***************************************************************************)
(* The power of the nets when a mode starts.  LoadPower (CCvcParameters.cc)*)
(* reads the power file; SetModePower (CCvcDb_init.cc) gives each line to  *)
(* the nets it names, at stage 1; at the prompt of stage 1 a command may   *)
(* read another power file, or give the same list to the nets again.       *)
(* Stage 2 shorts the switches (module EquivalentNets), reads the power of *)
(* the instances, distributes the expected levels and expands the families.*)
(*                                                                         *)
(* A line of a power file is a record: its signal and the nets that        *)
(* FindUniqueNetIds returns for it, whether the signal may be a macro name *)
(* (plain) and is one only (macro: "#define"), and its definition: type,   *)
(* open, voltages, expected level of the simulation and family; or the     *)
(* macro whose values it takes (of).  Names and formulas are not spelled   *)
(* out.                                                                    *)
(***************************************************************************)
EXTENDS EquivalentNets, Sequences, Functions

\* What Init may choose: records of the power files that may be read, the
\* SWITCH_ON devices, the nets of the top circuit that have a macro's name, and
\* the bounds on the files read in all modes (maxLoads) and on the commands
\* setmodel of a mode (maxRepeats).
CONSTANT Circuits

ASSUME BoundsAssumption == \A c \in Circuits : c.maxLoads \in Nat /\ c.maxRepeats \in Nat
ASSUME SwitchesAssumption == \A c \in Circuits : c.switches \subseteq Nets \X Nets

\* The lines of power files, and of those of instances.
Files == UNION {c.files : c \in Circuits}
Lines == UNION {Range(f.lines) : f \in Files}
InstanceLines == UNION {UNION {Range(i.lines) : i \in Range(f.instances)} : f \in Files}

ASSUME FilesAssumption ==
    \A f \in Files : /\ f.lines \in Seq(Lines)
                     /\ f.instances \in Seq([lines : Seq(InstanceLines), read : {<<>>}])

VARIABLES
    circuit,
    file,            \* the power file of the mode
    cvcPowerPtrList,
    cvcExpectedLevelPtrList,
    cvcPowerMacroPtrMap,
    cvcInstancePowerPtrList,
    powerFileStatus,
    power_ppit,      \* the position in cvcPowerPtrList or cvcInstancePowerPtrList
    myPowerError,
    stage,           \* setup, power, prompt, switches, instances, expected,
                     \* families, done, stopped
    loads, repeats   \* history: files read; commands setmodel of this mode

setupVars == <<circuit, file, cvcPowerPtrList, cvcExpectedLevelPtrList, cvcPowerMacroPtrMap,
               cvcInstancePowerPtrList, powerFileStatus, power_ppit, myPowerError, stage, loads,
               repeats>>
vars == <<equivalenceVars, setupVars>>

-----------------------------------------------------------------------------
(* Lines and powers.                                                       *)

\* CPower(string): the power of a line, with the macros known so far.  A line
\* that names a macro takes its voltages, expected level, family and name.
PowerOf(line, macros) ==
    LET m == macros[line.of]
        v == IF line.of = "" THEN line ELSE m
        family == IF v.hiz /\ v.family = "" THEN "cvc-noleak" ELSE v.family
    IN  [type |-> line.type, hiz |-> v.hiz,
         min |-> v.min, sim |-> v.sim, max |-> v.max, expectedSim |-> v.expectedSim,
         family |-> family, relativeFriendly |-> v.relativeFriendly,
         implicitFamily |-> IF line.of = "" THEN {} ELSE {line.of, m.family} \ {""},
         relativeSet |-> {},
         powerSignal |-> line.signal, powerAlias |-> IF line.of # "" THEN line.of
                        ELSE IF line.type = "power" THEN line.signal ELSE ""]

\* EPowerError "undefined macro"
IsUndefined(line, macros) == line.of # "" /\ line.of \notin DOMAIN macros

IsExpected(p) == Known(p.expectedSim)

HasVoltage(p) == \E level \in Levels : Known(p[level])

\* A power of a list.  nets is what its signal expands to, net is netId; owner
\* says that netVoltagePtr_v[net] points to it, so that its fields are those of
\* definition[net].  Its text, CPower::definition, is that of its line.
Listed(line, p) ==
    [nets |-> line.nets, net |-> NULL, owner |-> FALSE, power |-> p,
     text |-> [line EXCEPT !.signal = "", !.nets = {}, !.plain = FALSE]]

PowerAt(entry) == IF entry.owner THEN definition[entry.net] ELSE entry.power

\* The order in which a set<netId_t> is gone through.
Ascending(nets) ==
    LET up[k \in 0 .. NetCount] ==
            IF k = 0 THEN <<>>
            ELSE IF k - 1 \in nets THEN Append(up[k - 1], k - 1) ELSE up[k - 1]
    IN  up[NetCount]

-----------------------------------------------------------------------------
(* LoadPower.                                                              *)

NoMacros == [name \in {} |-> NULL]

WithMacro(macros, name, p) ==
    [x \in DOMAIN macros \cup {name} |-> IF x = name THEN p ELSE macros[x]]

\* One line of the power file; read is [list, expected, macros, error].  A
\* duplicate macro name is an error, except after "#NO AUTO MACROS".
ReadLine(read, line, autoMacro) ==
    LET p == PowerOf(line, read.macros)
        list == IF ~line.macro /\ (p.type # "none" \/ p.hiz \/ HasVoltage(p))
                  THEN Append(read.list, Listed(line, p)) ELSE read.list
        expected == IF ~line.macro /\ IsExpected(p)
                      THEN Append(read.expected, Listed(line, p)) ELSE read.expected
        duplicate == line.plain /\ line.signal \in DOMAIN read.macros
    IN  IF IsUndefined(line, read.macros) THEN [read EXCEPT !.error = TRUE]
        ELSE [list |-> list, expected |-> expected,
              macros |-> IF line.plain /\ ~duplicate THEN WithMacro(read.macros, line.signal, p)
                         ELSE read.macros,
              error |-> read.error \/ (duplicate /\ autoMacro)]

ReadLines(lines, autoMacro) ==
    LET read[k \in 0 .. Len(lines)] ==
            IF k = 0 THEN [list |-> <<>>, expected |-> <<>>, macros |-> NoMacros, error |-> FALSE]
            ELSE ReadLine(read[k - 1], lines[k], autoMacro)
    IN  read[Len(lines)]

\* The lines of an instance's file are appended again each time a file is read:
\* the list of instances is not cleared with the other lists.
ReadInstances(entries) == [k \in DOMAIN entries |-> [entries[k] EXCEPT !.read = @ \o entries[k].lines]]

\* LoadPower.  A file that cannot be opened leaves the lists empty.
LoadPower(f) ==
    LET read == ReadLines(IF f.opens THEN f.lines ELSE <<>>, f.autoMacro)
    IN  /\ loads < circuit.maxLoads
        /\ file' = f
        /\ cvcPowerPtrList' = read.list
        /\ cvcExpectedLevelPtrList' = read.expected
        /\ cvcPowerMacroPtrMap' = read.macros
        /\ cvcInstancePowerPtrList' =
              IF f.opens THEN ReadInstances(cvcInstancePowerPtrList \o f.instances)
              ELSE cvcInstancePowerPtrList
        /\ powerFileStatus' = IF ~f.opens THEN "FAIL" ELSE IF read.error THEN "SKIP" ELSE "OK"
        /\ loads' = loads + 1

-----------------------------------------------------------------------------
(* SetModePower.                                                           *)

Unset == [n \in Nets |-> NULL]

\* A voltage that the power of a net has not got is taken from a later line.
\* The override of an expected level writes to a copy of the string: no effect.
Override(other, p) ==
    [level \in DOMAIN other |->
        IF level \in Levels /\ ~Known(other[level]) THEN p[level] ELSE other[level]]

Differs(v, w) == Known(v) /\ Known(w) /\ v # w

\* Mutant: types and families may be overridden.
IsDuplicateVoltage(other, p) ==
    \E level \in Levels \cup {"expectedSim"} : Differs(p[level], other[level])

\* "ERROR: Duplicate power definition"
IsDuplicate(other, p) ==
    \/ \E level \in Levels \cup {"expectedSim"} : Differs(p[level], other[level])
    \/ p.type # other.type \/ p.hiz # other.hiz
    \/ p.family # other.family

\* The power at a net has another definition text.
IsOther(n, entry) ==
    \E k \in DOMAIN cvcPowerPtrList :
        LET owner == cvcPowerPtrList[k]
        IN  full[n] # NULL /\ owner.owner /\ owner.net = n /\ owner.text # entry.text

\* Mutant: the copies for the other nets are not listed.
CopiesFirstOnly(entry) ==
    LET nets == Ascending(entry.nets)
    IN  IF nets = <<>> THEN <<entry>>
        ELSE <<[entry EXCEPT !.net = Head(nets), !.owner = full[Head(nets)] = NULL]>>

\* The powers in the list after a line is given to its nets: the line itself
\* for the least net, copies for the others.
Copies(entry) ==
    LET nets == Ascending(entry.nets)
    IN  IF nets = <<>> THEN <<entry>>
        ELSE [k \in DOMAIN nets |->
                [entry EXCEPT !.net = nets[k], !.owner = full[nets[k]] = NULL]]

\* One power of the list.
SetModePower ==
    /\ stage = "power" /\ power_ppit <= Len(cvcPowerPtrList)
    /\ LET entry == cvcPowerPtrList[power_ppit]
           p == entry.power
           copies == Copies(entry)
       IN  /\ definition' = [n \in Nets |->
                  IF n \notin entry.nets THEN definition[n]
                  ELSE IF full[n] = NULL THEN p
                  ELSE IF IsOther(n, entry) THEN Override(definition[n], p)
                  ELSE definition[n]]
           /\ full' = [n \in Nets |-> IF n \in entry.nets THEN n ELSE full[n]]
           /\ cvcPowerPtrList' = SubSeq(cvcPowerPtrList, 1, power_ppit - 1) \o copies
                                   \o SubSeq(cvcPowerPtrList, power_ppit + 1, Len(cvcPowerPtrList))
           /\ power_ppit' = power_ppit + Len(copies)
           /\ myPowerError' =
                 \/ myPowerError
                 \/ entry.nets = {}
                 \/ \E n \in entry.nets : IsOther(n, entry) /\ IsDuplicate(definition[n], p)
    /\ UNCHANGED <<equivalentNet_v, theNetMap, isFixedEquivalentNet, net_it, shorted, circuit,
                   file, cvcExpectedLevelPtrList, cvcPowerMacroPtrMap, cvcInstancePowerPtrList,
                   powerFileStatus, stage, loads, repeats>>

FinishModePower ==
    /\ stage = "power" /\ power_ppit > Len(cvcPowerPtrList)
    /\ powerFileStatus' = IF myPowerError THEN "SKIP" ELSE "OK"
    /\ stage' = "prompt"
    /\ UNCHANGED <<equivalenceVars, circuit, file, cvcPowerPtrList, cvcExpectedLevelPtrList,
                   cvcPowerMacroPtrMap, cvcInstancePowerPtrList, power_ppit, myPowerError, loads,
                   repeats>>

unchangedByStage1 == <<equivalentNet_v, theNetMap, isFixedEquivalentNet, net_it, shorted, circuit>>

\* LoadPower, and the start of SetModePower if the file was read.
NewPower(f) ==
    /\ LoadPower(f)
    /\ repeats' = 0
    /\ power_ppit' = 1 /\ myPowerError' = FALSE
    /\ IF powerFileStatus' = "OK" THEN definition' = Unset /\ full' = Unset
         ELSE UNCHANGED <<definition, full>>
    /\ UNCHANGED unchangedByStage1

\* The start of a mode.  With errors it is skipped, or goes to the prompt.
ReadPower(f) ==
    /\ stage = "setup"
    /\ NewPower(f)
    /\ stage' \in IF powerFileStatus' = "OK" THEN {"power"} ELSE {"setup", "prompt"}

\* setpower
SetPowerCommand(f) ==
    /\ stage = "prompt"
    /\ NewPower(f)
    /\ stage' = IF powerFileStatus' = "OK" THEN "power" ELSE "prompt"

\* setmodel, with a model file that can be read: SetModePower runs again for
\* the list as it is, whatever the status of the power file.
SetModelCommand ==
    /\ stage = "prompt" /\ repeats < circuit.maxRepeats
    /\ definition' = Unset /\ full' = Unset
    /\ cvcPowerPtrList' = [k \in DOMAIN cvcPowerPtrList |->
          [cvcPowerPtrList[k] EXCEPT !.power = PowerAt(cvcPowerPtrList[k]), !.owner = FALSE]]
    /\ power_ppit' = 1 /\ myPowerError' = FALSE
    /\ stage' = "power"
    /\ repeats' = repeats + 1
    /\ UNCHANGED <<unchangedByStage1, file, cvcExpectedLevelPtrList, cvcPowerMacroPtrMap,
                   cvcInstancePowerPtrList, powerFileStatus, loads>>

-----------------------------------------------------------------------------
(* Stage 2.                                                                *)

\* SetEquivalentNets.
StartSwitches ==
    /\ stage = "prompt" /\ powerFileStatus = "OK"
    /\ StartEquivalentNets
    /\ stage' = "switches"
    /\ UNCHANGED <<circuit, file, cvcPowerPtrList, cvcExpectedLevelPtrList, cvcPowerMacroPtrMap,
                   cvcInstancePowerPtrList, powerFileStatus, power_ppit, myPowerError, loads,
                   repeats>>

Skip(a, b) == stage = "switches" /\ SkipSwitch(a, b) /\ UNCHANGED setupVars
Report(a, b) == stage = "switches" /\ ReportSwitch(a, b) /\ UNCHANGED setupVars
Short(a, b) == stage = "switches" /\ ShortSwitch(a, b) /\ UNCHANGED setupVars
FixNet(n) == stage = "switches" /\ Fix(n) /\ UNCHANGED setupVars

FinishSwitches ==
    /\ stage = "switches"
    /\ SetFixed
    /\ power_ppit' = 1 /\ myPowerError' = FALSE
    /\ stage' = "instances"
    /\ UNCHANGED <<circuit, file, cvcPowerPtrList, cvcExpectedLevelPtrList, cvcPowerMacroPtrMap,
                   cvcInstancePowerPtrList, powerFileStatus, loads, repeats>>

\* The macros of the power file that are not nets of the top circuit.
TopMacros == [name \in DOMAIN cvcPowerMacroPtrMap \ circuit.topNets |-> cvcPowerMacroPtrMap[name]]

\* An input of an instance is not set but expected.
AsExpected(p) ==
    [p EXCEPT !.type = "none",
              !.expectedSim = IF Known(p.sim) THEN p.sim ELSE p.expectedSim,
              !.min = UNKNOWN_VOLTAGE, !.sim = UNKNOWN_VOLTAGE, !.max = UNKNOWN_VOLTAGE]

\* Mutant: the power is set at the net itself.
InstanceNetOf(n) == n

\* The net an instance's power is set at.
InstanceNet(n) == GetEquivalentNet(n)

\* One net of a line of an instance's power file.  s is what SetInstancePower
\* has done so far: [definition, full, list, expected, macros, error, stopped],
\* and p, the power of the line for this net: for the nets after the first one
\* a copy of the power as the net before has left it.
SetInstanceNet(s, line, n) ==
    LET e == InstanceNet(n)
        isSet == s.full[e] # NULL
        here == [Listed(line, s.p) EXCEPT !.net = e]
    IN  CASE s.p.type = "power" /\ line.alpha ->
               IF isSet /\ s.definition[e].type = "power"
                 THEN [s EXCEPT !.macros = WithMacro(@, line.signal, s.definition[e])]
                 ELSE [s EXCEPT !.error = TRUE]
          [] s.p.type = "input" ->
               IF HasVoltage(s.p) \/ IsExpected(s.p)
                 THEN [s EXCEPT !.p = AsExpected(s.p),
                                !.expected = Append(@, [here EXCEPT !.power = AsExpected(s.p)])]
                 ELSE s
          [] OTHER ->
               IF isSet THEN s
               ELSE [s EXCEPT !.list = Append(@, [here EXCEPT !.owner = TRUE]),
                              !.full[e] = e, !.definition[e] = s.p]

\* A line.  An undefined macro is an EPowerError that nothing in the mode catches.
SetInstanceLine(s, line) ==
    LET nets == Ascending(line.nets)
        set[k \in 0 .. Len(nets)] ==
            IF k = 0 THEN [s EXCEPT !.p = PowerOf(line, s.macros)]
            ELSE SetInstanceNet(set[k - 1], line, nets[k])
    IN  IF s.stopped THEN s
        ELSE IF IsUndefined(line, s.macros) THEN [s EXCEPT !.stopped = TRUE]
        ELSE set[Len(nets)]

SetInstance(lines) ==
    LET set[k \in 0 .. Len(lines)] ==
            IF k = 0 THEN [definition |-> definition, full |-> full, list |-> cvcPowerPtrList,
                           expected |-> cvcExpectedLevelPtrList, macros |-> TopMacros,
                           error |-> myPowerError, stopped |-> FALSE, p |-> NULL]
            ELSE SetInstanceLine(set[k - 1], lines[k])
    IN  set[Len(lines)]

\* One instance.
SetInstancePower ==
    /\ stage = "instances" /\ power_ppit <= Len(cvcInstancePowerPtrList)
    /\ LET s == SetInstance(cvcInstancePowerPtrList[power_ppit].read)
       IN  /\ definition' = s.definition /\ full' = s.full
           /\ cvcPowerPtrList' = s.list /\ cvcExpectedLevelPtrList' = s.expected
           /\ myPowerError' = s.error
           /\ stage' = IF s.stopped THEN "stopped" ELSE stage
    /\ power_ppit' = power_ppit + 1
    /\ UNCHANGED <<unchangedByStage1, file, cvcPowerMacroPtrMap, cvcInstancePowerPtrList,
                   powerFileStatus, loads, repeats>>

\* "ERROR: skipped due to problems in power files"
FinishInstancePower ==
    /\ stage = "instances" /\ power_ppit > Len(cvcInstancePowerPtrList)
    /\ stage' = IF myPowerError THEN "setup" ELSE "expected"
    /\ UNCHANGED <<equivalenceVars, circuit, file, cvcPowerPtrList, cvcExpectedLevelPtrList,
                   cvcPowerMacroPtrMap, cvcInstancePowerPtrList, powerFileStatus, power_ppit,
                   myPowerError, loads, repeats>>

\* "ERROR: Duplicate power definition": the power of the net, not of the net it
\* is equivalent to, has another simulation voltage.
IsUnexpected(entry, n) ==
    /\ IsOther(n, entry)
    /\ Known(entry.power.expectedSim)
    /\ entry.power.expectedSim # definition[n].sim

NetsToExpect(entry) == IF entry.net = NULL THEN Ascending(entry.nets) ELSE <<entry.net>>

\* A level for each net of its line.
Distributed(entry) ==
    LET nets == SelectSeq(NetsToExpect(entry), LAMBDA n : ~IsUnexpected(entry, n))
    IN  [k \in DOMAIN nets |-> [entry EXCEPT !.net = nets[k]]]

DistributedLevels ==
    LET levels[k \in 0 .. Len(cvcExpectedLevelPtrList)] ==
            IF k = 0 THEN <<>> ELSE levels[k - 1] \o Distributed(cvcExpectedLevelPtrList[k])
    IN  levels[Len(cvcExpectedLevelPtrList)]

\* SetExpectedPower.
SetExpectedPower ==
    /\ stage = "expected"
    /\ cvcExpectedLevelPtrList' = DistributedLevels
    /\ stage' =
          IF \E k \in DOMAIN cvcExpectedLevelPtrList :
                LET entry == cvcExpectedLevelPtrList[k]
                IN  \/ NetsToExpect(entry) = <<>>
                    \/ \E n \in Range(NetsToExpect(entry)) : IsUnexpected(entry, n)
            THEN "setup" ELSE "families"
    /\ UNCHANGED <<equivalenceVars, circuit, file, cvcPowerPtrList, cvcPowerMacroPtrMap,
                   cvcInstancePowerPtrList, powerFileStatus, power_ppit, myPowerError, loads,
                   repeats>>

\* What a family means: its names, from "#define family" or itself.
Relatives(p) ==
    LET names == IF p.family # "" THEN {p.family} ELSE p.implicitFamily
        members == file.families
    IN  UNION {IF name \in DOMAIN members THEN members[name] ELSE {name} : name \in names}

WithRelatives(p) == [p EXCEPT !.relativeSet = @ \cup Relatives(p)]

\* SetFamilies, for every power of the list.
SetFamilies ==
    /\ stage = "families"
    /\ LET owned == {cvcPowerPtrList[k].net : k \in {i \in DOMAIN cvcPowerPtrList : cvcPowerPtrList[i].owner}}
       IN  definition' = [n \in Nets |-> IF n \in owned THEN WithRelatives(definition[n]) ELSE definition[n]]
    /\ cvcPowerPtrList' = [k \in DOMAIN cvcPowerPtrList |->
                             [cvcPowerPtrList[k] EXCEPT !.power = WithRelatives(@)]]
    /\ stage' = "done"
    /\ UNCHANGED <<unchangedByStage1, full, file, cvcExpectedLevelPtrList, cvcPowerMacroPtrMap,
                   cvcInstancePowerPtrList, powerFileStatus, power_ppit, myPowerError, loads,
                   repeats>>

-----------------------------------------------------------------------------

\* The mode is over, or skipped at stage 1.
NextMode ==
    /\ stage \in {"prompt", "done"}
    /\ stage' = "setup"
    /\ UNCHANGED <<equivalenceVars, circuit, file, cvcPowerPtrList, cvcExpectedLevelPtrList,
                   cvcPowerMacroPtrMap, cvcInstancePowerPtrList, powerFileStatus, power_ppit,
                   myPowerError, loads, repeats>>

\* The last mode, or the end of the program.
Finished ==
    /\ stage = "stopped" \/ (stage = "setup" /\ loads = circuit.maxLoads)
    /\ UNCHANGED vars

Init ==
    /\ circuit \in Circuits
    /\ definition = Unset /\ full = Unset
    /\ equivalentNet_v = [n \in Nets |-> n]
    /\ theNetMap = [n \in Nets |-> {}]
    /\ isFixedEquivalentNet = FALSE /\ net_it = NetCount /\ shorted = {}
    /\ file = NULL
    /\ cvcPowerPtrList = <<>> /\ cvcExpectedLevelPtrList = <<>>
    /\ cvcPowerMacroPtrMap = NoMacros /\ cvcInstancePowerPtrList = <<>>
    /\ powerFileStatus = "UNKNOWN"
    /\ power_ppit = 1 /\ myPowerError = FALSE
    /\ stage = "setup" /\ loads = 0 /\ repeats = 0

Next ==
    \/ \E f \in circuit.files : ReadPower(f) \/ SetPowerCommand(f)
    \/ SetModePower \/ FinishModePower \/ SetModelCommand
    \/ StartSwitches
    \/ \E s \in circuit.switches : Skip(s[1], s[2]) \/ Report(s[1], s[2]) \/ Short(s[1], s[2])
    \/ \E n \in Nets : FixNet(n)
    \/ FinishSwitches \/ SetInstancePower \/ FinishInstancePower
    \/ SetExpectedPower \/ SetFamilies \/ NextMode \/ Finished

Spec == Init /\ [][Next]_vars

-----------------------------------------------------------------------------
(* Properties.                                                             *)

\* With status OK a net has every voltage that a line of the power file gives
\* it, no other one, and the type and the family of all of them, in whatever
\* order the lines come and whichever of them made the power of the net
\* (SetModePower: lines override what is unknown, contradictions are errors);
\* unless SetModePower ran for the same list before.
EveryDefinitionCounts ==
    stage = "prompt" /\ powerFileStatus = "OK" /\ repeats = 0 =>
        \A n \in Nets :
            LET lines == {e \in Range(ReadLines(file.lines, file.autoMacro).list) : n \in e.nets}
            IN  /\ full[n] = NULL <=> lines = {}
                /\ \A e \in lines, level \in Levels :
                       Known(e.power[level]) => definition[n][level] = e.power[level]
                /\ \A level \in Levels : lines # {} /\ Known(definition[n][level]) =>
                       \E e \in lines : e.power[level] = definition[n][level]
                /\ \A e \in lines : /\ e.power.type = definition[n].type
                                     /\ e.power.hiz = definition[n].hiz
                                     /\ e.power.family = definition[n].family

AfterSwitches == stage \in {"instances", "expected", "families", "done"}

\* From the end of SetEquivalentNets on, after the powers of
\* the instances too, the net that stands for a class is its own equivalent, it is the
\* only net of the class with a power, and it has one if any of them had.
OnePowerPerClass ==
    AfterSwitches =>
        \A n \in Nets :
            LET e == GetEquivalentNet(n)
            IN  /\ GetEquivalentNet(e) = e
                /\ equivalentNet_v[n] = e
                /\ full[n] # NULL => full[n] = n /\ e = n
                /\ definition[n] # NULL => full[e] # NULL

\* The voltages of the power files.
Voltages ==
    {UNKNOWN_VOLTAGE} \cup UNION {{line[level] : level \in Levels} : line \in Lines \cup InstanceLines}

\* A voltage within the threshold of UNKNOWN_VOLTAGE (32.767 V) is near a voltage
\* that is not known, and could be given up for it; no power file has one.
VoltagesHaveMargin == \A v \in Voltages : v \in Int /\ (Known(v) => v + Threshold < UNKNOWN_VOLTAGE)

\* Powers that are given up for one that is near them may be given up for one
\* that is near that one, and so on (IsValidSubset is not transitive): the
\* voltages of the class are within one threshold for each definition given up.
\* No order of switches merges more than that, and no known voltage of a
\* definition becomes unknown ("! Short Detected" is not bypassed further).
DriftIsBounded ==
    AfterSwitches =>
        \A n \in Nets :
            definition[n] # NULL =>
                LET e == GetEquivalentNet(n)
                    defined == {k \in Nets : definition[k] # NULL /\ GetEquivalentNet(k) = e}
                IN  \A level \in Levels :
                        Known(definition[n][level]) =>
                            AbsoluteDifference(definition[e][level], definition[n][level])
                                <= Threshold * (Cardinality(defined) - 1)

\* The power of each net is in the list of powers once, copies and instances'
\* powers included: the list is what SetFamilies goes through, and what
\* LoadPower deletes.
PowersAreListed ==
    stage \in {"prompt", "families", "done"} /\ powerFileStatus = "OK" =>
        \A n \in Nets : full[n] # NULL =>
            /\ Cardinality({k \in DOMAIN cvcPowerPtrList :
                               cvcPowerPtrList[k].owner /\ cvcPowerPtrList[k].net = full[n]}) = 1
            /\ stage = "done" => Relatives(definition[full[n]]) = definition[full[n]].relativeSet

\* CPower.cc 51: "copies power for expanding power short cuts *(cell)/net".
\* Each net that a line of an instance's power file names as an input gets the
\* level that the line says.
InstanceInputsAreExpected ==
    stage = "done" /\ loads = 1 =>
        \A i \in DOMAIN file.instances : \A line \in Range(file.instances[i].lines) :
            line.type = "input" /\ line.of = "" /\ Known(line.sim) =>
                \A n \in line.nets : \E k \in DOMAIN cvcExpectedLevelPtrList :
                    LET entry == cvcExpectedLevelPtrList[k]
                    IN  entry.net = GetEquivalentNet(n) /\ entry.power.expectedSim = line.sim
=============================================================================
