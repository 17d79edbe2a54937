# A TLA+ development for CVC, the circuit validity checker

CVC reads a CDL netlist, a model file and one power file per mode, computes for
every net the least, the greatest and the simulated voltage it can have, and
reports devices that leak, float, are overloaded or are forward biased. It is a
single-threaded C++ program; several copies of it may work in one directory.
This directory has TLA+ modules for its algorithms and its control, the TLC
instances that check them, and TLAPS proofs. File names without a directory are
those of `src/src/`; `PROJECT.json` maps every definition to its lines.

## 1. The system and the modules

A mode runs through seven stages: settings and power of the mode (1), database
(2: equivalent nets, power of instances, connection lists), resistors (3: dead
ends, voltages through resistors), first MIN/MAX pass (4), two simulation passes
(5, 6) and second MIN/MAX pass (7). Stages 3 to 7 are driven by the event queues
and write the virtual nets and the powers; the checks of stages 4 to 7 read
both. A mode with the netlist of the one before reuses its database. Before
stages an interactive user may be at a prompt.

| Part | Modules | What is hard about it |
|---|---|---|
| Event queues (`CEventQueue.*`) | `EventQueue`, `AbstractEventQueue`; proofs `EventQueueProofs` | one link array for all lists; bits, counters and lists are updated in different functions; reset does not clear the maps |
| Loops over the MIN and MAX queues (`CCvcDb.cc`) | `MinMaxLoop`; proofs `MinMaxLoopProofs` | a batch is measured once while its events change both queues; termination |
| Virtual nets (`CVirtualNet.*`) | `VirtualNet`; proofs `VirtualNetProofs` | a cache invalidated by a global stamp that most writers do not advance; pointers turned around |
| Propagation of voltages (`CCvcDb.cc`, `CCvcDb_utility.cc`) | `Propagation`, `SimPropagation`, `LogicPower`, `MinMaxPasses`, composed by `Passes` | three levels propagated apart from each other, doubts raised by one event and settled by another, powers removed while others depend on them |
| Power of modes and instances (`CPower.*`, `CCvcParameters.cc`, `CCvcDb_init.cc`) | `Powers`, `EquivalentNets`, composed by `PowerSetup`; proofs `PowerSetupProofs`, `PowerListProofs` | lines that override each other, order of switches, lists that outlive a mode |
| Connection lists (`CCvcDb_init.cc`) | `ConnectionLists`; proofs `ConnectionListsProofs` | lists merged while walked, counts kept by hand, recursion |
| Models of devices (`CModel.*`, `SetDeviceModels`) | `ModelLists`; proofs `ModelListsProofs` | the database outlives the models it points to |
| Circuits and instances (`CCircuit.*`, `CInstance.*`) | `Instances` | parallel instances are merged, also inside each other |
| Connections of a device and the checks (`CConnection.*`, `CCvcDb_error.cc`) | `Connections`, `DeviceChecks`, `NetChecks`, composed by `Checks`; `CheckDuality` | every check is written for N and for P; counters shared by all checks; rings of inverters |
| Mode loop, lock, prompt, signals (`CCvcDb_main.cc`, `cvc.cc`) | `ModeLoop`; proofs `ModeLoopProofs` | several programs, signals between two statements, skipped modes |

`MC...` modules have constants and initial sets for TLC.

## 2. What each module models

**EventQueue.** `lists` is `mainQueue` and `delayQueue` in one function from
slots (sub-queue and key) to records of a list's first and last device and its
size; `queueArray` is the array of links. The actions are ResetQueue, the start
of a pass, the choice of an event (`GetEvent`, with `IsNextMainQueue`), and what
the handlers do with it: drop the device, put it back later, or make it inactive
and enqueue its neighbours (`AddEvent` at the front, at the back, or in the
delay queue). Exceptions, assertions and accesses through `begin()` of an empty
map set `error`. Voltages are left out: which device is enqueued with which key
is any choice. `AbstractEventQueue` is what the callers take a queue for:
sequences of devices, ordered by slot. `Contents` reads its state off the links.

**MinMaxLoop.** Both loops that empty the MIN and the MAX queue, with their
counters. The order within a list, which `EventQueue` has, plays no part here.
Handlers may add devices to both queues.

**VirtualNet.** One vector of virtual nets as a record of functions, with the
cached final net and resistance and the stamps. The actions are the lookups,
ShortNets with the refusals of AlreadyShorted and IsIrrelevant,
CheckConnectionReroute with ShiftVirtualNets, VoltageConflict, the estimates of
EnqueueAttachedDevices, and RemoveInvalidPower with the final recalculation.
Whether a voltage is known is kept, its value is not.

**Propagation, SimPropagation, LogicPower, MinMaxPasses, Passes.** The database
is one record `s`; an operator from record to record stands for a function of
the code, early returns included. `Propagation` has the lookups, the estimates of
EnqueueAttachedDevices, the keys (`Adjust...Key`), AlreadyShorted, VoltageConflict,
IsIrrelevant, ShortNets and PropagateMinMaxVoltages; `SimPropagation` has
SimKey, ShortSimNets, AdjustSimVoltage and PropagateSimVoltages; `LogicPower`
has SetSCRCPower and SetLatchPower; `MinMaxPasses` has the set-up and the end
of a pass (SetTrivialMinMaxPower, SetInitialMinMaxPower, ResetMinMaxPower,
RemoveInvalidPower, CheckEstimateDependencies, CalculateResistorVoltages,
SaveMinMaxLeakVoltages). In `Passes` a step is the set-up of a pass, one event
of a queue, or the end of a pass, in the order of VerifyCircuitForAllModes. A
null or deleted pointer, an assertion or an exception sets `s.failed`. Final
nets and resistances are taken as current here; `VirtualNet` is about the cache.
The leak map that AddLeak fills for the report, printing, and the marks of
SetAnalogNets are left out.

**PowerSetup, EquivalentNets, Powers.** A line of a power file is a record of
its nets, type, voltages, expected level and family, or the macro it refers to.
`LoadPower`, `SetModePower`, the commands setpower and setmodel, the switches
one by one (`Skip`, `Report`, `Short`), the last pass of SetEquivalentNets net by
net, `SetInstancePower`, `SetExpectedPower` and `SetFamilies` are actions; the
list of powers and that of expected levels are sequences, because their order
and their copies matter. Of the three expected levels only that of the
simulation is there, the others being treated alike. A family lists names;
formulas and the search for names are not spelled out; an instance name that
expands to several instances is several entries. Left out: the abort on a second
`#define` of a family, instance files that cannot be opened, SetHiZPropagation
and SetPowerLimits.

**ConnectionLists.** `Init` is the result of LinkDevices for any netlist of the
given size. One action for each device of the loop and one for each call of
ShortNonConductingResistor, whose recursion is the variable `call`.

**ModelLists.** `match` is the content of a model file: the model of each
device. The actions are the steps of a mode that concern models and the two
commands of stage 1 that call SetDeviceModels again. A device whose model was
deleted with its map is in `freed`.

**Instances.** Counting instances bottom up, and numbering instances, devices
and nets top down with parallel instances merged, as recursive operators.

**Connections, DeviceChecks, NetChecks, Checks.** `Connections` has MapDeviceNets
and the predicates of CFullConnection, `DeviceChecks` the conditions under which
a check reports one device, `NetChecks` those that look at the devices around a
net, with IsPossibleHiZ, HasParallelShort, and the inverters of SetInverters,
CheckInverterIO and CheckOppositeLogic. `Checks` has one action for each call of
a check in CCvcDb_main.cc: it finds, counts (IncrementDeviceError, with the
limits of cells), shows and sums up (PrintAndResetCircuitErrors).

**ModeLoop.** Each process has a place in the code, its position in the list of
cvcrc files, its lock and its open files. `mkdir` and `rmdir` are steps of their
own, apart from the assignment to `lockFile`, because a signal may come between
them. The stages do nothing but end, skip the mode or throw. SIGINT is
`Interrupt`, the other handled signals are `CleanupHandler`, SIGKILL is `Kill`.

## 3. The runs

Each run is `tlc -config <cfg> <module>`; bounds are named constants.

| Run | Instance | Properties |
|---|---|---|
| `event_queue` | 3 devices, keys -1 0 1, 4 events between resets | `NoQueueError`, `PendingIsQueued`, `EmptyWhenIdle`, `ImplementsQueue` |
| `min_max_loop` | 2 devices, 2 keys, fairness | `EventAvailable`, `NothingLeft`, `Terminates` |
| `virtual_net` | 3 nets with all steps; 4 nets with shorts, reroutes and shifts | `Forest`, `LookupsAreExact`, `ShiftsAsExpected` |
| `model_lists` | 3 devices, 2 models; at a prompt 2 that differ | `ListsExact`, `ModelsAreCurrent` |
| `power_setup` | 4 nets; one definition per net with all orders of all switches, up to three overlapping lines, instances over two modes | `EquivalentIffJoined`, `OnePowerPerClass`, `DriftIsBounded`, `EveryDefinitionCounts`, `PowersAreListed` |
| `connection_lists` | 3 resistors, or 2 and a mos; 4 nets | `NoDatabaseError`, `ListsMatchNets`, `ExactlyDeadEndsMerged` |
| `mode_loop` | 2 programs with a common report, one with a prompt; 4 stages, counts to 2 | `ReportIsExclusive`, `OutputsGoToReport`, `LocksHaveOwners`, `InterruptStops` |
| `passes` | some 3600 databases: circuits of 3 to 6 devices on two rails, a third or an open power, an input and two internal nets | `NoFailure`, `VoltagesAreOrdered`, `ChainsEndAtVoltages`, `DefinitionsPrevail`, `PassesEndClean`, `LeakVoltagesAreKept`, `VoltagesAreKept`, `Terminates` |
| `checks` | single devices with nets in all situations, chains and rings of inverters, floating nets, hierarchies with parallel instances | `MirrorDuality`, `SwapSymmetry`, `ThresholdsAreMonotone`, `TotalsAreFlat`, `SummariesAddUp`, `ReportsWithinLimit`, `OriginsAreExact`, `OppositeIsExact` |

What they show:

- *Queues and loops.* No order of operations breaks a list or a counter, the
  threaded lists are the ordered queue the callers expect, a batch measured at
  its start is still there when it is handled, nothing is left at the end, and
  the loops end.
- *Virtual nets.* Chains never form a loop, a lookup during a propagation is
  exact although most writers do not advance the stamp, and ShiftVirtualNets
  finds the resistances it expects.
- *Passes.* With wholly defined powers, none of the assertions, exceptions or
  pointers of the propagation fails; in the end min <= sim <= max; a chain ends
  at a voltage; a defined voltage is read where it was defined and is never lost;
  the saved leak voltages do not change although they are pointers to powers in
  use; the latch passes end.
- *Power.* Nets are equivalent exactly if shorted switches join them, in any
  order; each class has one power, at the net that stands for it; a definition is
  given up only for one within a threshold per definition; no line of a power
  file is lost silently; the list and the table of powers agree.
- *Lists.* Merging dead ends keeps lists, counts, terminals and virtual nets in
  step, reaches none of the internal errors and leaves no dead end. The lists of
  the devices of a model are exact in batch use with the same models.
- *Checks.* The check for N is the mirror image of the one for P; source and
  drain are alike; a larger threshold adds no error; merging parallel instances
  changes no total; each error counted is in one summary line; the number of
  reports keeps to the limit; origins and opposite nets are found exactly.
- *Modes.* The lock works except in the windows named below; output goes to the
  report of the mode; an interrupt leads to a prompt when the stage ends.

**Bounds.** Three devices give a list with a first, a middle and a last device,
and three keys a key between two others. Two devices and two keys let one event
of the loops add to either queue and be put back. Three nets are enough for a
chain with an inner net, four for a reroute that turns two around and for two
pairs that are joined later. In `power_setup` the definitions have one pair that
is a subset, one that is not, and two subsets in a row. In `connection_lists` at
most one net is a port and one has power, since more only make fewer dead ends.
`LastStage` is 4: stages 1, 2 and the last differ in control, and one of those
between stands for all. In `model_lists` the constraint `TwoAtPrompt` leaves, for
sessions with a prompt, the model files that treat the last two devices alike.
`passes` takes every three of a list of 18 devices (14 where a power is open), so
that stacks, loops, bridges, diodes and pull-ups meet in every combination, and
adds circuits for latches, cut off powers, fuses, dividers and driven inputs;
rails are at 0, 12 and 18 and thresholds are 3, so that a voltage passed on
through a transistor differs from each rail. `checks` has six situations for each
of three nets and six ways to connect a device to them, every way to drive three
nets by one another's inverters, and two hierarchies with every small limit. Its
cfg turns the deadlock check off: a circuit whose checks are done has no next
step.

**Symmetry** is used where the code does not compare what is exchanged: devices
in `event_queue`, models in `model_lists`, nets in `virtual_net` (three of the
four) and in `connection_lists` (all but the one at the source of the first
device); never in a run with liveness.

**Fairness.** `Terminates` of `min_max_loop` and of `passes` needs it: weak
fairness of the whole next-state relation. The code is sequential, and a loop
whose condition holds takes its next step.

**Where the lock does not help.** `ReportIsExclusive` excludes (history variable
`raced`) that a handler ran after `rmdir` and before `lockFile = ""`: it then
removes a directory that may belong to another program. `LocksHaveOwners` allows
the lock of a killed program, and of one that is told to end between `mkdir` and
the assignment to `lockFile` (`abandoned`).

### Runs that end in a counterexample

| Run | What the repository says | What the code does |
|---|---|---|
| `passes_partial` | "missing values are calculated" (`CPower.cc` 86) of a definition with a part of its voltages | RemoveInvalidPower (`CCvcDb_utility.cc` 1008) deletes a power that `cvcPowerPtrList` still has; SetSCRCPower reads it |
| `model_lists_vary` | "next device of the same model" (`CDevice.hh` 47) | when the database is reused with other models, the list of a model runs on into another's |
| `instance_inputs` | "copies power for expanding power short cuts" (`CPower.cc` 51) | SetInstancePower changes the power at the first net of a bus before it is copied, so that the other nets are not checked against an expected level |

## 4. What is proved

Eight modules have proofs, all for every value of the constants under the
assumptions of the module they are about.

**EventQueueProofs.** For every finite set of devices, every non-empty set of
integer keys closed under negation and every bound on events: `TypeOK`,
`NoQueueError`, `PendingIsQueued`, `SizeAgrees` and `EmptyWhenIdle` always hold.
None of these is inductive, because they do not say what the array of links looks
like: `pop_front` reads the successor of the first device, and only the shape of
the list tells that this is a device of the same list. `IInv` adds `Chains`:
every queued device has a list that owns it and a rank, the link of a device
leads to the device of the same list with the next rank, and only the last device
links to itself. Owner and rank are quantified existentially, so that no
recursion along the list is needed. `PushFrontChains`, `PushBackChains` and
`PopFrontChains` give the new owner and rank after each list operation;
`AddEventStep` and `GetEventStep` lift them to the queue, and `NextIInv` has one
step for each action.

Under the same assumptions, `Spec => ImplementsQueue`: the threaded lists implement `AbstractEventQueue`. From `Chains` there is a device
for each rank between the ends of a list (`NoGaps`, by the least rank without
one), so that the walk along the links exists (`WalkRanks`); two sequences that
follow the same links are equal (`FollowsOnce`). So each operation only needs the
sequence of the abstract queue to follow the new links (`PushFrontContents`,
`PushBackContents`, `PopFrontContents`), which uses that no device is in two
lists or twice in one. `ChoiceIsFirst` shows that the list GetEvent takes from is
the first in the order of the abstract queue; it needs that begin() exists, which
follows from there being no more lists than devices.

**MinMaxLoopProofs.** For every finite set of devices and every set of integer
keys with a least one: `EventAvailable` and `NothingLeft`. The inductive invariant
adds that devices are only spread inside a handler (`SpreadInHandler`) and that
the counters of the loops never exceed what the queues still hold
(`CountsStayBehind`), which is the reason why measuring a batch once is enough: an
event removes one device, its own, and what it adds only makes the queues longer.

**ModeLoopProofs.** For every set of processes and reports, every list of modes,
every number of stages and every bound on the count of `continue`:
`ReportIsExclusive`, `OutputsGoToReport`, `LocksHaveOwners` and `InterruptStops`.
The inductive invariant has, beside the types, that the position in the list of
modes is valid wherever it is read (`IndexInv`), which files are open at which
place (`FilesInv`), that an interrupt that has not been served yet has set the
count and the flag that lead to the prompt (`PromptInv`), and that a process owns
the lock it has a name for, or is between the two statements that set them
(`Owned`, `LocksAreOwned`). TLC checks this invariant on the instance of
`mode_loop`, too.

**ModelListsProofs.** For every number of devices and every set of models:
`ModelsAreCurrent`, which is inductive as it stands, and `ListsExact`. The second
needs the order of the lists: each device is followed by the last device of its
model before it (`Ordered`), and the model leads to its last device (`Listed`).
SetDeviceModels does not write the link of the first device of a list, so that it
builds that order only if those links are NULL already (`Ready`); the invariant
`LInv` therefore keeps the map the devices were linked for, which is the map of
the mode, or none if the devices are new. `LinkDeviceBuilds` is one turn of the
loop, `LinkedOrders` the whole loop. A walk goes down (`WalkDescends`), so that it
sees no device twice and ends, and leaves out no device of its model
(`WalkSeesAll`). TLC checks `LInv` on the instance of `model_lists`, too.

**VirtualNetProofs.** For every finite set of nets, any
resistances and any bound on the updates of a pass: `Forest`, `LookupsAreExact`
and `ShiftsAsExpected`. The first half is about walks: the nets have ranks that
go down along the chains (`Acyclic`), a walk reaches a terminal net, and a link
from a net n to a net that is not behind n closes no loop and changes only the
walks of the nets behind n; so it says what a lookup and a link make of a vector
whose chains do not loop and whose stored values are right. The second half has the
shifts, the invariant and one lemma per action. A shift is followed turn by turn:
after each turn the net that is taken out of the old chain still has the values
it had, and what is behind it is redirected. Beside `Sound` (ranks, and the values
kept with a live net are those of its chain while its stamp is current) the
invariant has `Reaches`: a live net that points to another one has a voltage at
the end of its chain. This is why ShortNets need not advance `lastUpdate`: a net
without a voltage ends its own chain, and no live net is behind it whose cache the
new link could make wrong. Assumed of the constants: resistances are natural
numbers, and a divider set before a pass has a resistance between 1 and the limit.

**PowerSetupProofs.** For every number of nets, all switches between nets, and all
power files: `EquivalentIffJoined` and `OnePowerPerClass`. Neither is inductive:
the last pass of SetEquivalentNets overwrites links and powers in place, from the
greatest net down, while the walk of the next net still reads them. The invariant
has two functions that are not in the code: `root`, the least net of each class,
and `F`, the powers when the last switch was shorted. Links and powers below
`net_it` are those of `root` and `F`, those from `net_it` on are the final ones
(`Classes`, `Numbered`); a walk goes to smaller nets (`WalkSteps`), so it meets
only the first kind (`LeastIsRoot`). MakeEquivalentNets joins two classes at the
lesser of their roots (`MergedRoots`, `MergedTogether`), splices theNetMap
(`MergedMap`) and spreads the power that prevails (`MergedPower`). That roots are
equal exactly if switches join the nets is `TogetherIsJoined`; `Joined` is defined
by sets closed under the shorted pairs, so this needs no paths. For the powers,
`Held` says that every net in the list of powers has one when the switches are
shorted, and `Settled` what the code after SetEquivalentNets keeps: a net with a
power stands for its class. `SetInstanceSettles` follows SetInstancePower through
its loops over lines and nets. Assumed of the constants: switches connect nets,
and the lines of the files are sequences.

**PowerListProofs.** Under the same assumptions: `PowersAreListed` and
`DriftIsBounded`. Both are about what SetModePower and SetInstancePower write to
two places, the list and the nets. For the first, the invariant `LInv` has that no
two entries of the list own the power of one net (`Once`), that each power of a net
is owned by an entry (`Covered`), and that the entries from `power_ppit` on own none
yet (`Waiting`). One turn of SetModePower puts the copies of a line in its place
(`ReplacedIsSpliced`); they own the powers of distinct nets that had none
(`CopiesBook`). That SetFamilies leaves just the relatives that the family means
needs that the powers had none before (`Plain`), which is followed from the lines
through macros, overrides, expected levels and repeated modes. For the second,
`DInv` says it of the net that holds the power of a class while classes still grow:
when two become one, the power given up is near the one that stays, so that all
definitions behind it are one threshold further away (`WithinNear`), and there is at
least one more definition in the class (`MergedDrift`). Two hypotheses of this
theorem are not assumptions of the model. `VoltagesHaveMargin`: a known voltage of
the files is more than a threshold below 32767 mV, the value that means unknown;
without it IsValidSubset may find a known voltage near an unknown one, and the
code may give it up. TLC evaluates it on the instance of `power_setup`.
`NullIsNoPower`: the value of a pointer to no power is not itself a record with
voltages. TLC finds `LInv` and `DInv` to hold on that instance, too.

**ConnectionListsProofs.** For every number of devices, resistors and mos, and every
finite set of nets: `NoDatabaseError`, `ListsMatchNets` and `ExactlyDeadEndsMerged`.
A list is known by the set of its devices (`Lists`): putting a device in front
(`PushList`), taking the first one off (`PopList`) and changing links elsewhere
(`SameList`) are all that LinkDevices and the merges do to one, and a walk along it
finds just that set (`ListMembers`). `LinkedLists` and `MergedLists` are the two
loops, turn by turn. The invariant has the lists, the counts, and beside them what
makes the counts go on being right: an active device is where LinkDevices put it
(`Unmoved`), because a net is merged only when its last active device is the
resistor that goes (`OneAtDeadEnd`). So neither net of a call was merged before
(`Gone`), the link CVirtualNetVector::Set adds goes from one end of a chain to
another (`Chained`, with the end and the length of each chain as witnesses; no
chain is longer than there are merged nets), and only the net at the other side
can become a dead end. `Calling` and `Scanned` say that the recursion takes just
that one up: a resistor the loop has passed is at no dead end, except for the one
that is being merged. TLC finds the conjuncts from the counts on, `Chains` aside, to
hold on the instance of `connection_lists`, too. Assumed of the constants: nets
are finitely many, and the mark for no device is not a number.

Recursion is proved about where the model uses a recursive function up to a bound:
that such a function exists (`RecursionUpTo`) and that a set with 0 and successors
has all numbers up to the bound (`IntervalInduction`) are lemmas about sets and
functions, obtained from the least number of a set.

Only model-checked: liveness (`Terminates`, twice), `EveryDefinitionCounts` of
`PowerSetup`, and the properties of `Passes` and `Checks`. `Passes` and `Checks` use
recursive operators, which the prover's backends do not take.

## 5. Oddities met on the way

No run checks these; each was seen while the code was translated, and the model
does what the code does.

*Propagation.* `CPower.hh` 159: pullUpVoltage() returns pullDownVoltage. The
assertions about diodes in `CCvcDb.cc` 886 and 927 can be met with an SCRC power
at a diode, so that `passes` has no diodes where a power is open. A power with a
max voltage only counts as unset (`CCvcDb.cc` 1797). The stamps: a net merged
away before a pass keeps a stale final net if `lastUpdate` never advances
(`CCvcDb.cc` 2009, "recalculate final values"); `LookupsAreExact` is therefore
about live nets. A sum of resistances cut at the limit ("truncates to 1G with a
warning", `CvcTypes.hh` 47) fails the assertion of `CVirtualNet.cc` 72.
ResetMinMaxPower treats min and max differently in a few places (2088/2097,
2160/2174). `initialVoltagePtr_v` is written and never read. RemoveInvalidPower
takes the power of the default net as given (`CCvcDb_utility.cc` 949, 957).
SetSCRCParentPower (`CCvcDb_init.cc` 1302) does not end on a ring of inverters.

*Power.* Instance powers are never cleared (`CCvcParameters.cc` 409). Expected
levels of a second line are lost in SetModePower (`CCvcDb_init.cc` 973, 982, 991).
SetExpectedPower uses the net as named, not its equivalent. setmodel runs
SetModePower again, which multiplies the copies of a power in the list.
IsRelative in IsValidSubset sees no family, since SetFamilies runs later. An
error of LoadPower is not caught per mode and ends all modes (`cvc.cc` 95); at
the prompt it leaves netVoltagePtr_v with deleted powers.

*Lists and models.* The recursion of ShortNonConductingResistor does not test for
ports, although the loop does ("don't consider ports", `CCvcDb_init.cc` 649). A
second setpower puts a loop into every list of a model.

*Checks.* IsTransferGate and IsPossibleHiZ test a sign that is never negative.
CheckOppositeLogic does not end on even rings of inverters and fails an assertion
on odd ones. HIZ_INPUT errors are counted twice. A limit of 0 prints errors that
are never counted, and a limit n prints n-1. The limits of cells are not reset
when the database is reused. The comment of HasParallelShort and the code differ
for an unknown max voltage of a PMOS. CheckExpectedValues accepts an unknown
voltage for an expected minimum. FindAllOverVoltageErrors skips a model without
any maximum voltage although it may have other conditions. A short at a MUX is
counted again in each latch pass.

*Modes.* After a mode that is skipped without powers, `Cleanup` is not called
(`CCvcDb_main.cc` 60), the log stays open, and the next mode ends the program when
it cannot open its own.

## 6. What is not modelled

- Text: the parser, cvcrc files, names and their search, power formulas, reports,
  the scripts. The modules take what they produce as given.
- Fuses: OverrideFuses and the fuse checks are single passes over names. The
  fuse types themselves are in `Propagation` and `SimPropagation`.
- SetAnalogNets, which only marks nets for the report.
- The option `--setup` of the mode loop and the backup of old reports.
- Which model matches a device (FindModel), beyond its being a function of the
  device and the file.
- 32-bit overflow of resistances: the resistances of the instances are small.
- The vendored libraries and the result browser (`src_py`), a separate program
  that is mostly widgets and text.

Known hazards without a property are in `PROJECT.json` with the reason.
