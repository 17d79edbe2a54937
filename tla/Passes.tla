------------------------------- MODULE Passes -------------------------------
(***************************************************************************)
(* The passes over one circuit in one mode (VerifyCircuitForAllModes,      *)
(* stages 3 to 7): resistor networks, first min/max pass, first simulation *)
(* from the powers, second simulation from all nets with SCRC and latch    *)
(* voltages, second min/max pass.  One step is the set-up of a pass, one   *)
(* event of a queue, or the end of a pass.                                 *)
(***************************************************************************)
EXTENDS MinMaxPasses

CONSTANTS Circuits,   \* the databases the passes start from (after LinkDevices)
          HasSCRC     \* cvcSCRC

VARIABLES s,          \* the database
          stage,
          loop,       \* SetInitialMinMaxPower: events before the sizes are read again,
                      \* events left of the time being processed, and its queue
          latch       \* pass of SetLatchPower (2 for any later one), the nets it ignores, the
                      \* nets of the last

vars == <<s, stage, loop, latch>>

NoLoop == [count |-> 0, dequeue |-> 0, level |-> "max"]
NoLatch == [pass |-> 0, ignored |-> {}, newNets |-> {}]

Init ==
    /\ s \in Circuits
    /\ stage = "resistors"
    /\ loop = NoLoop
    /\ latch = NoLatch

Sizes(r) == Size(r, "min") + Size(r, "max")

IsRunning(at) == stage = at /\ s.failed = ""

-----------------------------------------------------------------------------
(* Stage 3: resistor networks.                                             *)

SetResistorVoltages ==
    /\ IsRunning("resistors")
    /\ s' = StartResistors(s)
    /\ stage' = "resistor events"
    /\ UNCHANGED <<loop, latch>>

ResistorEvent ==
    /\ IsRunning("resistor events")
    /\ Sizes(s) > 0
    /\ s' = PropagateResistorVoltages(s, IF Size(s, "min") > Size(s, "max") THEN "min" ELSE "max")
    /\ UNCHANGED <<stage, loop, latch>>

FinishResistors ==
    /\ IsRunning("resistor events")
    /\ Sizes(s) = 0
    /\ s' = CalculateResistorVoltages(s)
    /\ stage' = "first min/max"
    /\ UNCHANGED <<loop, latch>>

-----------------------------------------------------------------------------
(* Stages 4 and 7: min/max passes.                                         *)

StartMinMaxPass ==
    /\ IsRunning("first min/max") \/ IsRunning("second min/max")
    /\ s' = ResetMinMaxPower(s)
    /\ loop' = [NoLoop EXCEPT !.count = Sizes(s')]
    /\ stage' = IF stage = "first min/max" THEN "first events" ELSE "second events"
    /\ UNCHANGED latch

\* The queue to process next, and the number of its events with the first key.
NextLevel ==
    IF \/ IsNextMainQueue(s, "min") = IsNextMainQueue(s, "max") /\ Size(s, "min") > Size(s, "max")
       \/ IsNextMainQueue(s, "min") /\ ~ IsNextMainQueue(s, "max")
    THEN "min" ELSE "max"

\* Mutant: the events of the delay half are counted with the main ones, and one too many.
EventsAtOnceOneMore(l) == Cardinality({i \in DOMAIN s.queue[l].main : TRUE}) + 1

EventsAtOnce(l) ==
    LET half == s.queue[l][IF IsNextMainQueue(s, l) THEN "main" ELSE "delay"]
    IN  IF half = <<>> THEN 0 ELSE Cardinality({i \in DOMAIN half : half[i][1] = half[1][1]})

MinMaxEvent ==
    /\ IsRunning("first events") \/ IsRunning("second events")
    /\ loop.count > 0
    /\ LET level == IF loop.dequeue = 0 THEN NextLevel ELSE loop.level
           dequeue == IF loop.dequeue = 0 THEN EventsAtOnce(level) ELSE loop.dequeue
       IN  /\ s' = IF IsEmptyQueue(s, level) THEN Fail(s, "no event")
                   ELSE PropagateMinMaxVoltages(s, level)
           /\ loop' = [level |-> level, dequeue |-> dequeue - 1,
                       count |-> IF loop.count > 1 THEN loop.count - 1 ELSE Sizes(s')]
    /\ UNCHANGED <<stage, latch>>

FinishMinMaxPass ==
    /\ IsRunning("first events") \/ IsRunning("second events")
    /\ loop.count = 0
    /\ s' = FinishMinMax(s)
    /\ stage' = IF stage = "first events" THEN "first sim" ELSE "done"
    /\ loop' = NoLoop
    /\ UNCHANGED latch

-----------------------------------------------------------------------------
(* Stages 5 and 6: simulations.                                            *)

\* SaveMinMaxLeakVoltages: the pointers of the powers, and the next nets.
SaveMinMaxLeakVoltages(r) ==
    [r EXCEPT !.leakSet = TRUE, !.leak = r.power, !.shared = DOMAIN r.power,
              !.backup = [l \in {"min", "max"} |-> r.next[l]]]

FirstSim ==
    /\ IsRunning("first sim")
    /\ s' = StartSimPower(SaveMinMaxLeakVoltages(s), "POWER_NETS_ONLY", {})
    /\ stage' = "first sim events"
    /\ UNCHANGED <<loop, latch>>

SecondSim ==
    /\ IsRunning("second sim")
    /\ s' = StartSimPower(IF HasSCRC THEN SetSCRCPower(s) ELSE s, "ALL_NETS_AND_FUSE", {})
    /\ stage' = "second sim events"
    /\ UNCHANGED <<loop, latch>>

SimEvent ==
    /\ IsRunning("first sim events") \/ IsRunning("second sim events")
    /\ ~ IsEmptyQueue(s, "sim")
    /\ s' = PropagateSimVoltages(s, IF stage = "first sim events" THEN "POWER_NETS_ONLY"
                                    ELSE "ALL_NETS_AND_FUSE")
    /\ UNCHANGED <<stage, loop, latch>>

FinishSim ==
    /\ IsRunning("first sim events") \/ IsRunning("second sim events")
    /\ IsEmptyQueue(s, "sim")
    /\ s' = [s EXCEPT !.fixedSim = TRUE]
    /\ stage' = IF stage = "first sim events" THEN "second sim" ELSE "latches"
    /\ UNCHANGED <<loop, latch>>

\* Latch voltages, and a simulation from the nets that got one, until no net does.
AfterLatches(found, pass) ==
    /\ latch' = [pass |-> pass, ignored |-> found.ignored, newNets |-> found.newNets]
    /\ stage' = IF found.newNets = {} THEN "second min/max" ELSE "second sim events"
    /\ s' = IF found.newNets = {} THEN found.s
            ELSE StartSimPower(found.s, "ALL_NETS_AND_FUSE", found.newNets)

LatchPass ==
    LET pass == Least(latch.pass + 1, 2)
    IN  /\ IsRunning("latches")
        /\ AfterLatches(SetLatchPower(s, pass, latch.ignored), pass)
        /\ UNCHANGED loop

-----------------------------------------------------------------------------
Finished == (stage = "done" \/ s.failed # "") /\ UNCHANGED vars

Next ==
    \/ SetResistorVoltages \/ ResistorEvent \/ FinishResistors
    \/ StartMinMaxPass \/ MinMaxEvent \/ FinishMinMaxPass
    \/ FirstSim \/ SecondSim \/ SimEvent \/ FinishSim \/ LatchPass
    \/ Finished

\* Weak fairness of the steps before Finished: the program runs on until it ends.
Fairness == []<>(stage = "done" \/ s.failed # "") \/ []<><<TRUE>>_vars

Spec == Init /\ [][Next]_vars /\ Fairness

-----------------------------------------------------------------------------
(* Properties.                                                             *)

HasNoOpenPower == \A n \in DOMAIN s.power : ~ s.power[n].hiz

Voltage(l, n) == NetVoltage(s, l, n)

IsBelow(v, w) == Known(v) /\ Known(w) => v <= w

\* No assertion, no unhandled exception, no null and no deleted pointer is met by any of
\* the passes.
NoFailure == s.failed = ""

\* In the end a simulated voltage lies between the min and the max voltage of its net,
\* although each was propagated on its own, with the simulation between the two min/max
\* passes; and the power of a net has its min voltage below its max voltage.
VoltagesAreOrdered ==
    stage = "done" =>
        \A n \in Range(s.order) :
            /\ IsBelow(Voltage("min", n), Voltage("sim", n))
            /\ IsBelow(Voltage("sim", n), Voltage("max", n))
            /\ HasPower(s, n) => IsBelow(Voltage("min", n), Voltage("max", n))

\* The voltages of the first min/max pass, saved as pointers to powers that stay in use,
\* are read unchanged by everything that follows.
LeakVoltagesAreKept ==
    [][s.leakSet => \A n \in Range(s.order), l \in {"min", "max"} :
          LeakVoltage(s', l, n) = LeakVoltage(s, l, n)]_vars

\* Where no power is open, a voltage of a definition and a simulated voltage stay: no
\* pass, and none of the resets between passes, changes or loses them.
VoltagesAreKept ==
    [][HasNoOpenPower =>
          /\ \A n \in DOMAIN s.power, l \in Levels :
                s.power[n].powerSignal # "" /\ Known(s.power[n][l]) =>
                    HasPower(s', n) /\ s'.power[n][l] = s.power[n][l]
          /\ \A n \in Range(s.order) :
                Known(Voltage("sim", n)) => NetVoltage(s', "sim", n) = Voltage("sim", n)]_vars

\* The first min/max pass links no net to one whose power was removed: a chain of virtual
\* nets ends at a known voltage.
ChainsEndAtVoltages ==
    stage = "first sim" =>
        \A l \in {"min", "max"}, n \in Range(s.order) :
            s.next[l][n] # n => Known(Voltage(l, n))

\* The voltages of a definition are those the checks read at its net, unless it has no
\* simulated voltage and got that of another net.
DefinitionsPrevail ==
    stage \in {"first sim", "done"} =>
        \A n \in DOMAIN s.power, l \in {"min", "max"} :
            IsPowerOrInput(s.power[n]) /\ Known(s.power[n][l]) /\ s.next.sim[n] = n =>
                Voltage(l, n) = s.power[n][l]

\* No doubt about a net and no pending event is left behind by a pass.
PassesEndClean ==
    stage \in {"first sim", "done"} =>
        /\ \A n \in Range(s.order) : IsVerifiedPower(s, n)
        /\ \A l \in {"min", "max"} : s.pending[l] = {} /\ IsEmptyQueue(s, l)

\* The passes, with as many latch passes as find a voltage, come to an end.
Terminates == <>(stage = "done")

=============================================================================
