--------------------------- MODULE ModeLoopProofs ---------------------------
(***************************************************************************)
(* The lock of the report, the output files and the interrupt, for any     *)
(* number of processes, modes, reports and stages.                         *)
(*                                                                         *)
(* The lock directory does not say whose it is.  Owned(p) is the lock that *)
(* p has made and not removed: between mkdir and the assignment it is not  *)
(* in lockFile, and between rmdir and the assignment lockFile names a lock *)
(* that may be somebody else's.  The invariant is that what a process owns *)
(* exists and is owned by no other.  It holds until a handler runs in the  *)
(* second place (raced); where a process is, which of its files are open   *)
(* and what the counter of the prompt allows hold anyhow.                  *)
(***************************************************************************)
EXTENDS ModeLoop, TLAPS

Labels ==
    {"setup", "unlock", "unlocked", "delete", "exit", "dead", "lock", "made", "files", "load",
     "stage", "prompt", "proceed", "complete"}

\* LockReport and the mode itself, with the RemoveLock that comes before them.
Running(p) ==
    \/ pc[p] \in {"lock", "made", "files", "load", "stage", "prompt", "proceed"}
    \/ pc[p] \in {"unlock", "unlocked"} /\ ret[p] = "lock"

TypeOK ==
    /\ locks \subseteq Reports
    /\ raced \in BOOLEAN
    /\ pc \in [Processes -> Labels]
    /\ ret \in [Processes -> {"lock", "delete"}]
    /\ cvcArgIndex \in [Processes -> Nat]
    /\ lockFile \in [Processes -> Reports \cup {None}]
    /\ logFile \in [Processes -> Reports \cup {None}]
    /\ errorFile \in [Processes -> Reports \cup {None}]
    /\ debugFile \in [Processes -> Reports \cup {None}]
    /\ emptyPower \in [Processes -> BOOLEAN]
    /\ ready \in [Processes -> BOOLEAN]
    /\ stage \in [Processes -> 1 .. LastStage]
    /\ gInteractive_cvc \in [Processes -> BOOLEAN]
    /\ gContinueCount \in [Processes -> Int]
    /\ pending \in [Processes -> BOOLEAN]

\* cvcArgIndex names a mode while one is run; rerun makes it one less for the
\* increment that follows.
IndexInv(p) ==
    /\ Running(p) => cvcArgIndex[p] \in 1 .. Len(Modes[p])
    /\ pc[p] = "setup" => cvcArgIndex[p] >= 1

\* lockFile and the files, by place.
FilesInv(p) ==
    /\ pc[p] \in {"lock", "made", "delete", "exit", "dead"} => lockFile[p] = None
    /\ pc[p] \in {"files", "load", "stage", "prompt", "proceed"} => lockFile[p] = Report(p)
    /\ pc[p] = "complete" => lockFile[p] # None
    /\ pc[p] \in {"load", "stage", "proceed"} =>
          logFile[p] = Report(p) /\ errorFile[p] = Report(p) /\ debugFile[p] = Report(p)
    /\ pc[p] = "prompt" => logFile[p] = Report(p)
    /\ pc[p] = "prompt" /\ stage[p] < LastStage =>
          errorFile[p] = Report(p) /\ debugFile[p] = Report(p)
    /\ pc[p] = "proceed" => stage[p] < LastStage

\* An interrupt that has not led to a prompt yet will at the end of the stage:
\* the count is at most 0.
PromptInv(p) ==
    /\ pending[p] => gInteractive_cvc[p]
    /\ pc[p] = "prompt" => gInteractive_cvc[p] /\ ~pending[p]
    /\ pc[p] = "prompt" /\ stage[p] < LastStage => gContinueCount[p] <= 0
    /\ Running(p) /\ pc[p] # "prompt" /\ (pending[p] \/ ~gInteractive_cvc[p]) =>
          gContinueCount[p] <= 0

Owned(p) ==
    CASE pc[p] = "made" -> {Report(p)}
      [] pc[p] = "unlocked" -> {}
      [] OTHER -> {lockFile[p]} \ {None}

LocksAreOwned ==
    ~raced =>
        /\ \A p \in Processes : Owned(p) \subseteq locks
        /\ \A p, q \in Processes : p # q => Owned(p) \cap Owned(q) = {}

Local(p) == IndexInv(p) /\ FilesInv(p) /\ PromptInv(p)

IInv ==
    /\ TypeOK
    /\ \A p \in Processes : Local(p)
    /\ LocksAreOwned
    /\ LocksHaveOwners

-----------------------------------------------------------------------------
(* The steps that leave the locks alone, and the others.                   *)

Moves(p, again, ok, empty, n) ==
    \/ Setup(p) \/ Cleanup(p) \/ LockRefused(p, again) \/ SetOutputFiles(p) \/ Throw(p)
    \/ Load(p, ok, empty) \/ EndStage(p, ok) \/ Proceed(p) \/ SkipStage2(p) \/ EndLastStage(p)
    \/ Complete(p) \/ Continue(p, n) \/ SkipCommand(p) \/ Rerun(p) \/ EndOfFile(p) \/ Quit(p)
    \/ SetFiles(p, ok, empty) \/ Interrupt(p)

LockSteps(p) ==
    \/ Unlock(p) \/ Unlocked(p) \/ Delete(p) \/ MakeLock(p) \/ LockMade(p)
    \/ CleanupHandler(p) \/ Kill(p)

\* Every step but the last is a step of one process.
LEMMA NextIsProcessStep ==
    ASSUME [Next]_vars
    PROVE  \/ UNCHANGED vars
           \/ \E p \in Processes, again \in BOOLEAN, ok \in BOOLEAN, empty \in BOOLEAN, n \in Nat :
                 Moves(p, again, ok, empty, n) \/ LockSteps(p)
<1>1. ASSUME NEW p \in Processes,
             \/ Moves(p, TRUE, TRUE, TRUE, 0) \/ LockSteps(p)
      PROVE  \E again \in BOOLEAN, ok \in BOOLEAN, empty \in BOOLEAN, n \in Nat :
                 Moves(p, again, ok, empty, n) \/ LockSteps(p)
  BY <1>1, Zenon
<1>2. CASE \E p \in Processes :
          \/ Setup(p) \/ Cleanup(p) \/ Unlock(p) \/ Unlocked(p) \/ Delete(p)
          \/ MakeLock(p) \/ LockMade(p) \/ SetOutputFiles(p) \/ Throw(p)
          \/ Proceed(p) \/ SkipStage2(p) \/ EndLastStage(p) \/ Complete(p)
          \/ SkipCommand(p) \/ Rerun(p) \/ EndOfFile(p) \/ Quit(p)
          \/ Interrupt(p) \/ CleanupHandler(p) \/ Kill(p)
  <2>1. \E p \in Processes : Moves(p, TRUE, TRUE, TRUE, 0) \/ LockSteps(p)
    BY <1>2, Zenon DEF Moves, LockSteps
  <2> QED
    BY <1>1, <2>1, Zenon
<1>3. ASSUME NEW p \in Processes, NEW b \in BOOLEAN, LockRefused(p, b) \/ EndStage(p, b)
      PROVE  Moves(p, b, b, TRUE, 0)
  BY <1>3, Zenon DEF Moves
<1>4. ASSUME NEW p \in Processes, NEW ok \in BOOLEAN, NEW empty \in BOOLEAN,
             Load(p, ok, empty) \/ SetFiles(p, ok, empty)
      PROVE  Moves(p, TRUE, ok, empty, 0)
  BY <1>4, Zenon DEF Moves
<1>5. ASSUME NEW p \in Processes, NEW n \in 1 .. MaxContinue, Continue(p, n)
      PROVE  n \in Nat /\ Moves(p, TRUE, TRUE, TRUE, n)
  BY <1>5, StagesAssumption DEF Moves
<1>6. CASE \E p \in Processes, b \in BOOLEAN : LockRefused(p, b) \/ EndStage(p, b)
  BY <1>3, <1>6, Zenon
<1>7. CASE \E p \in Processes, ok, empty \in BOOLEAN : Load(p, ok, empty) \/ SetFiles(p, ok, empty)
  BY <1>4, <1>7, Zenon
<1>8. CASE \E p \in Processes, n \in 1 .. MaxContinue : Continue(p, n)
  BY <1>5, <1>8, Zenon
<1> QED
  BY <1>2, <1>6, <1>7, <1>8, Zenon DEF Next, Ended

-----------------------------------------------------------------------------
(* What a step does to the process that takes it, and to the others.       *)

SameAt(q) ==
    /\ pc'[q] = pc[q] /\ ret'[q] = ret[q] /\ cvcArgIndex'[q] = cvcArgIndex[q]
    /\ lockFile'[q] = lockFile[q] /\ logFile'[q] = logFile[q]
    /\ errorFile'[q] = errorFile[q] /\ debugFile'[q] = debugFile[q]
    /\ stage'[q] = stage[q] /\ gInteractive_cvc'[q] = gInteractive_cvc[q]
    /\ gContinueCount'[q] = gContinueCount[q] /\ pending'[q] = pending[q]

Preserves(p) == TypeOK' /\ Local(p)' /\ \A q \in Processes \ {p} : SameAt(q)

\* A process that takes no step keeps its invariants.
LEMMA SameIsLocal ==
    ASSUME NEW q \in Processes, Local(q), SameAt(q)
    PROVE  Local(q)'
<1>1. IndexInv(q)'
  BY Zenon DEF Local, SameAt, IndexInv, Running
<1>2. FilesInv(q)'
  BY Zenon DEF Local, SameAt, FilesInv, Report
<1>3. PromptInv(q)'
  BY Zenon DEF Local, SameAt, PromptInv, Running
<1> QED
  BY <1>1, <1>2, <1>3, Zenon DEF Local

\* The report of a mode that is run.
LEMMA ReportType ==
    ASSUME NEW p \in Processes, cvcArgIndex[p] \in 1 .. Len(Modes[p])
    PROVE  Report(p) \in Reports /\ Report(p) # None
<1>1. Modes[p] \in Seq(Reports) /\ None \notin Reports
  BY ModesAssumption, Zenon
<1> QED
  BY <1>1 DEF Report

\* The next mode, and back.
LEMMA IndexTypes ==
    ASSUME cvcArgIndex \in [Processes -> Nat], NEW p \in Processes
    PROVE  /\ [cvcArgIndex EXCEPT ![p] = @ + 1] \in [Processes -> Nat]
           /\ cvcArgIndex[p] >= 1 => [cvcArgIndex EXCEPT ![p] = @ - 1] \in [Processes -> Nat]
<1>1. cvcArgIndex[p] \in Nat
  BY Zenon
<1> QED
  BY <1>1

\* Each step of p, the whole of a handler of the code, keeps the invariants of p
\* and leaves the other processes as they are.
LEMMA StepPreserves ==
    ASSUME IInv, NEW p \in Processes, NEW again \in BOOLEAN, NEW ok \in BOOLEAN,
           NEW empty \in BOOLEAN, NEW n \in Nat,
           Moves(p, again, ok, empty, n) \/ LockSteps(p)
    PROVE  Preserves(p)
<1> USE StagesAssumption DEF Goto, RemoveLockThen, Leave, NextMode, Close, Stop, Resume, Alive,
                             Labels, Running, locking, files, prompting
<1>1. TypeOK /\ IndexInv(p) /\ FilesInv(p) /\ PromptInv(p)
  BY Zenon DEF IInv, Local
<1>2. Running(p) => Report(p) \in Reports /\ Report(p) # None
  BY <1>1, ReportType, Zenon DEF IndexInv
<1>3. CASE Setup(p)
  <2>1. TypeOK'
    <3>1. cvcArgIndex' \in [Processes -> Nat] /\ pc' \in [Processes -> Labels]
      BY <1>1, <1>3, Zenon DEF Setup, TypeOK, IndexInv
    <3>2. /\ logFile' \in [Processes -> Reports \cup {None}]
          /\ errorFile' \in [Processes -> Reports \cup {None}]
          /\ debugFile' \in [Processes -> Reports \cup {None}]
      BY <1>1, <1>3, Zenon DEF Setup, TypeOK
    <3> QED
      BY <1>1, <1>3, <3>1, <3>2 DEF Setup, TypeOK
  <2>2. IndexInv(p)'
    BY <1>1, <1>3 DEF Setup, TypeOK, IndexInv
  <2>3. FilesInv(p)'
    BY <1>1, <1>2, <1>3, ZenonT(40) DEF Setup, TypeOK, FilesInv, Report
  <2>4. PromptInv(p)'
    BY <1>1, <1>3 DEF Setup, TypeOK, PromptInv, FilesInv, Stops
  <2>5. \A q \in Processes \ {p} : SameAt(q)
    BY <1>1, <1>3 DEF Setup, TypeOK, SameAt
  <2> QED
    BY <2>1, <2>2, <2>3, <2>4, <2>5, Zenon DEF Preserves, Local
<1>4. CASE Cleanup(p)
  <2>1. TypeOK'
    BY <1>1, <1>2, <1>4, Zenon DEF Cleanup, TypeOK, IndexInv, FilesInv
  <2>2. IndexInv(p)'
    BY <1>1, <1>4, Zenon DEF Cleanup, TypeOK, IndexInv
  <2>3. FilesInv(p)'
    BY <1>1, <1>2, <1>4, ZenonT(40) DEF Cleanup, TypeOK, FilesInv, Report
  <2>4. PromptInv(p)'
    BY <1>1, <1>4, Zenon DEF Cleanup, TypeOK, PromptInv, FilesInv, Stops
  <2>5. \A q \in Processes \ {p} : SameAt(q)
    BY <1>1, <1>4, Zenon DEF Cleanup, TypeOK, SameAt
  <2> QED
    BY <2>1, <2>2, <2>3, <2>4, <2>5, Zenon DEF Preserves, Local
<1>5. CASE Unlock(p)
  <2>1. TypeOK'
    BY <1>1, <1>2, <1>5, Zenon DEF Unlock, TypeOK, IndexInv, FilesInv
  <2>2. IndexInv(p)'
    BY <1>1, <1>5, Zenon DEF Unlock, TypeOK, IndexInv
  <2>3. FilesInv(p)'
    BY <1>1, <1>2, <1>5, ZenonT(40) DEF Unlock, TypeOK, FilesInv, Report
  <2>4. PromptInv(p)'
    BY <1>1, <1>5, Zenon DEF Unlock, TypeOK, PromptInv, FilesInv, Stops
  <2>5. \A q \in Processes \ {p} : SameAt(q)
    BY <1>1, <1>5, Zenon DEF Unlock, TypeOK, SameAt
  <2> QED
    BY <2>1, <2>2, <2>3, <2>4, <2>5, Zenon DEF Preserves, Local
<1>6. CASE Unlocked(p)
  <2>1. TypeOK'
    BY <1>1, <1>2, <1>6, Zenon DEF Unlocked, TypeOK, IndexInv, FilesInv
  <2>2. IndexInv(p)'
    BY <1>1, <1>6, Zenon DEF Unlocked, TypeOK, IndexInv
  <2>3. FilesInv(p)'
    BY <1>1, <1>2, <1>6, ZenonT(40) DEF Unlocked, TypeOK, FilesInv, Report
  <2>4. PromptInv(p)'
    BY <1>1, <1>6, Zenon DEF Unlocked, TypeOK, PromptInv, FilesInv, Stops
  <2>5. \A q \in Processes \ {p} : SameAt(q)
    BY <1>1, <1>6, Zenon DEF Unlocked, TypeOK, SameAt
  <2> QED
    BY <2>1, <2>2, <2>3, <2>4, <2>5, Zenon DEF Preserves, Local
<1>7. CASE Delete(p)
  <2>1. TypeOK'
    BY <1>1, <1>2, <1>7, Zenon DEF Delete, TypeOK, IndexInv, FilesInv
  <2>2. IndexInv(p)'
    BY <1>1, <1>7, Zenon DEF Delete, TypeOK, IndexInv
  <2>3. FilesInv(p)'
    BY <1>1, <1>2, <1>7, ZenonT(40) DEF Delete, TypeOK, FilesInv, Report
  <2>4. PromptInv(p)'
    BY <1>1, <1>7, Zenon DEF Delete, TypeOK, PromptInv, FilesInv, Stops
  <2>5. \A q \in Processes \ {p} : SameAt(q)
    BY <1>1, <1>7, Zenon DEF Delete, TypeOK, SameAt
  <2> QED
    BY <2>1, <2>2, <2>3, <2>4, <2>5, Zenon DEF Preserves, Local
<1>8. CASE MakeLock(p)
  <2>1. TypeOK'
    BY <1>1, <1>2, <1>8, Zenon DEF MakeLock, TypeOK, IndexInv, FilesInv
  <2>2. IndexInv(p)'
    BY <1>1, <1>8, Zenon DEF MakeLock, TypeOK, IndexInv
  <2>3. FilesInv(p)'
    BY <1>1, <1>2, <1>8, ZenonT(40) DEF MakeLock, TypeOK, FilesInv, Report
  <2>4. PromptInv(p)'
    BY <1>1, <1>8, Zenon DEF MakeLock, TypeOK, PromptInv, FilesInv, Stops
  <2>5. \A q \in Processes \ {p} : SameAt(q)
    BY <1>1, <1>8, Zenon DEF MakeLock, TypeOK, SameAt
  <2> QED
    BY <2>1, <2>2, <2>3, <2>4, <2>5, Zenon DEF Preserves, Local
<1>9. CASE LockMade(p)
  <2>1. TypeOK'
    BY <1>1, <1>2, <1>9, Zenon DEF LockMade, TypeOK, IndexInv, FilesInv
  <2>2. IndexInv(p)'
    BY <1>1, <1>9, Zenon DEF LockMade, TypeOK, IndexInv
  <2>3. FilesInv(p)'
    BY <1>1, <1>2, <1>9, ZenonT(40) DEF LockMade, TypeOK, FilesInv, Report
  <2>4. PromptInv(p)'
    BY <1>1, <1>9, Zenon DEF LockMade, TypeOK, PromptInv, FilesInv, Stops
  <2>5. \A q \in Processes \ {p} : SameAt(q)
    BY <1>1, <1>9, Zenon DEF LockMade, TypeOK, SameAt
  <2> QED
    BY <2>1, <2>2, <2>3, <2>4, <2>5, Zenon DEF Preserves, Local
<1>10. CASE LockRefused(p, again)
  <2>1. TypeOK'
    <3>0. pc' \in [Processes -> Labels]
      BY <1>1, <1>10 DEF LockRefused, TypeOK
    <3>1. cvcArgIndex' \in [Processes -> Nat]
      <4>1. CASE again
        BY <1>1, <1>10, <4>1, Zenon DEF LockRefused, TypeOK
      <4>2. CASE ~(again)
        BY <1>1, <1>10, <4>2, IndexTypes DEF LockRefused, TypeOK
      <4> QED
        BY <4>1, <4>2, Zenon
    <3> QED
      BY <1>1, <1>10, <3>0, <3>1, Zenon DEF LockRefused, TypeOK
  <2>2. IndexInv(p)'
    BY <1>1, <1>10 DEF LockRefused, TypeOK, IndexInv
  <2>3. FilesInv(p)'
    BY <1>1, <1>2, <1>10, ZenonT(40) DEF LockRefused, TypeOK, FilesInv, Report
  <2>4. PromptInv(p)'
    BY <1>1, <1>10, Zenon DEF LockRefused, TypeOK, PromptInv, FilesInv, Stops
  <2>5. \A q \in Processes \ {p} : SameAt(q)
    BY <1>1, <1>10 DEF LockRefused, TypeOK, SameAt
  <2> QED
    BY <2>1, <2>2, <2>3, <2>4, <2>5, Zenon DEF Preserves, Local
<1>11. CASE SetOutputFiles(p)
  <2>1. TypeOK'
    BY <1>1, <1>2, <1>11, ZenonT(40) DEF SetOutputFiles, TypeOK, IndexInv, FilesInv
  <2>2. IndexInv(p)'
    BY <1>1, <1>11, Zenon DEF SetOutputFiles, TypeOK, IndexInv
  <2>3. FilesInv(p)'
    <3>1. CASE {logFile[p], errorFile[p], debugFile[p]} = {None}
      BY <1>1, <1>2, <1>11, <3>1, ZenonT(40) DEF SetOutputFiles, TypeOK, FilesInv, Report
    <3>2. CASE ~({logFile[p], errorFile[p], debugFile[p]} = {None})
      <4>1. pc'[p] = "unlock" /\ lockFile' = lockFile
        BY <1>1, <1>11, <3>2, Zenon DEF SetOutputFiles, TypeOK
      <4> QED
        BY <4>1, Zenon DEF FilesInv
    <3> QED
      BY <3>1, <3>2, Zenon
  <2>4. PromptInv(p)'
    BY <1>1, <1>11, Zenon DEF SetOutputFiles, TypeOK, PromptInv, FilesInv, Stops
  <2>5. \A q \in Processes \ {p} : SameAt(q)
    BY <1>1, <1>11, Zenon DEF SetOutputFiles, TypeOK, SameAt
  <2> QED
    BY <2>1, <2>2, <2>3, <2>4, <2>5, Zenon DEF Preserves, Local
<1>12. CASE Throw(p)
  <2>1. TypeOK'
    BY <1>1, <1>2, <1>12, Zenon DEF Throw, TypeOK, IndexInv, FilesInv
  <2>2. IndexInv(p)'
    BY <1>1, <1>12, Zenon DEF Throw, TypeOK, IndexInv
  <2>3. FilesInv(p)'
    BY <1>1, <1>2, <1>12, ZenonT(40) DEF Throw, TypeOK, FilesInv, Report
  <2>4. PromptInv(p)'
    BY <1>1, <1>12, Zenon DEF Throw, TypeOK, PromptInv, FilesInv, Stops
  <2>5. \A q \in Processes \ {p} : SameAt(q)
    BY <1>1, <1>12, Zenon DEF Throw, TypeOK, SameAt
  <2> QED
    BY <2>1, <2>2, <2>3, <2>4, <2>5, Zenon DEF Preserves, Local
<1>13. CASE Load(p, ok, empty)
  <2>1. TypeOK'
    <3>0. pc' \in [Processes -> Labels]
      BY <1>1, <1>13 DEF Load, TypeOK
    <3>1. cvcArgIndex' \in [Processes -> Nat]
      <4>1. CASE ok \/ gInteractive_cvc[p]
        BY <1>1, <1>13, <4>1, Zenon DEF Load, TypeOK
      <4>2. CASE ~(ok \/ gInteractive_cvc[p])
        BY <1>1, <1>13, <4>2, IndexTypes DEF Load, TypeOK
      <4> QED
        BY <4>1, <4>2, Zenon
    <3>2. stage' \in [Processes -> 1 .. LastStage]
      BY <1>1, <1>13 DEF Load, TypeOK, FilesInv
    <3> QED
      BY <1>1, <1>13, <3>0, <3>1, <3>2, Zenon DEF Load, TypeOK
  <2>2. IndexInv(p)'
    BY <1>1, <1>13 DEF Load, TypeOK, IndexInv
  <2>3. FilesInv(p)'
    BY <1>1, <1>2, <1>13, ZenonT(40) DEF Load, TypeOK, FilesInv, Report
  <2>4. PromptInv(p)'
    BY <1>1, <1>13, Zenon DEF Load, TypeOK, PromptInv, FilesInv, Stops
  <2>5. \A q \in Processes \ {p} : SameAt(q)
    BY <1>1, <1>13 DEF Load, TypeOK, SameAt
  <2> QED
    BY <2>1, <2>2, <2>3, <2>4, <2>5, Zenon DEF Preserves, Local
<1>14. CASE EndStage(p, ok)
  <2>1. TypeOK'
    BY <1>1, <1>2, <1>14 DEF EndStage, TypeOK, IndexInv, FilesInv
  <2>2. IndexInv(p)'
    BY <1>1, <1>14, Zenon DEF EndStage, TypeOK, IndexInv
  <2>3. FilesInv(p)'
    BY <1>1, <1>2, <1>14, ZenonT(40) DEF EndStage, TypeOK, FilesInv, Report
  <2>4. PromptInv(p)'
    <3>1. CASE Stops(p)
      <4>1. ~pending'[p]
        BY <1>1, <1>14, <3>1, Zenon DEF EndStage, TypeOK
      <4> QED
        BY <1>1, <1>14, <3>1, <4>1 DEF EndStage, TypeOK, PromptInv, FilesInv, Stops
    <3>2. CASE ~(Stops(p))
      BY <1>1, <1>14, <3>2 DEF EndStage, TypeOK, PromptInv, FilesInv, Stops
    <3> QED
      BY <3>1, <3>2, Zenon
  <2>5. \A q \in Processes \ {p} : SameAt(q)
    BY <1>1, <1>14, Zenon DEF EndStage, TypeOK, SameAt
  <2> QED
    BY <2>1, <2>2, <2>3, <2>4, <2>5, Zenon DEF Preserves, Local
<1>15. CASE Proceed(p)
  <2>1. TypeOK'
    <3>0. pc' \in [Processes -> Labels]
      BY <1>1, <1>15 DEF Proceed, TypeOK
    <3>1. cvcArgIndex' \in [Processes -> Nat]
      <4>1. CASE ready[p]
        BY <1>1, <1>15, <4>1, Zenon DEF Proceed, TypeOK
      <4>2. CASE ~(ready[p])
        BY <1>1, <1>15, <4>2, IndexTypes DEF Proceed, TypeOK
      <4> QED
        BY <4>1, <4>2, Zenon
    <3>2. stage' \in [Processes -> 1 .. LastStage]
      BY <1>1, <1>15 DEF Proceed, TypeOK, FilesInv
    <3> QED
      BY <1>1, <1>15, <3>0, <3>1, <3>2, Zenon DEF Proceed, TypeOK
  <2>2. IndexInv(p)'
    BY <1>1, <1>15 DEF Proceed, TypeOK, IndexInv
  <2>3. FilesInv(p)'
    BY <1>1, <1>2, <1>15, ZenonT(40) DEF Proceed, TypeOK, FilesInv, Report
  <2>4. PromptInv(p)'
    BY <1>1, <1>15, Zenon DEF Proceed, TypeOK, PromptInv, FilesInv, Stops
  <2>5. \A q \in Processes \ {p} : SameAt(q)
    BY <1>1, <1>15 DEF Proceed, TypeOK, SameAt
  <2> QED
    BY <2>1, <2>2, <2>3, <2>4, <2>5, Zenon DEF Preserves, Local
<1>16. CASE SkipStage2(p)
  <2>1. TypeOK'
    BY <1>1, <1>2, <1>16 DEF SkipStage2, TypeOK, IndexInv, FilesInv
  <2>2. IndexInv(p)'
    BY <1>1, <1>16 DEF SkipStage2, TypeOK, IndexInv
  <2>3. FilesInv(p)'
    BY <1>1, <1>2, <1>16, ZenonT(40) DEF SkipStage2, TypeOK, FilesInv, Report
  <2>4. PromptInv(p)'
    BY <1>1, <1>16, Zenon DEF SkipStage2, TypeOK, PromptInv, FilesInv, Stops
  <2>5. \A q \in Processes \ {p} : SameAt(q)
    BY <1>1, <1>16, Zenon DEF SkipStage2, TypeOK, SameAt
  <2> QED
    BY <2>1, <2>2, <2>3, <2>4, <2>5, Zenon DEF Preserves, Local
<1>17. CASE EndLastStage(p)
  <2>1. TypeOK'
    BY <1>1, <1>2, <1>17, Zenon DEF EndLastStage, TypeOK, IndexInv, FilesInv
  <2>2. IndexInv(p)'
    BY <1>1, <1>17, Zenon DEF EndLastStage, TypeOK, IndexInv
  <2>3. FilesInv(p)'
    <3>1. CASE gInteractive_cvc[p]
      BY <1>1, <1>2, <1>17, <3>1, SMTT(30) DEF EndLastStage, TypeOK, FilesInv, Report
    <3>2. CASE ~(gInteractive_cvc[p])
      BY <1>1, <1>2, <1>17, <3>2, ZenonT(40) DEF EndLastStage, TypeOK, FilesInv, Report
    <3> QED
      BY <3>1, <3>2, Zenon
  <2>4. PromptInv(p)'
    <3>1. CASE gInteractive_cvc[p]
      <4>1. ~pending'[p]
        BY <1>1, <1>17, <3>1, Zenon DEF EndLastStage, TypeOK
      <4> QED
        BY <1>1, <1>17, <3>1, <4>1 DEF EndLastStage, TypeOK, PromptInv, FilesInv
    <3>2. CASE ~(gInteractive_cvc[p])
      BY <1>1, <1>17, <3>2, Zenon DEF EndLastStage, TypeOK, PromptInv, FilesInv, Stops
    <3> QED
      BY <3>1, <3>2, Zenon
  <2>5. \A q \in Processes \ {p} : SameAt(q)
    BY <1>1, <1>17 DEF EndLastStage, TypeOK, SameAt
  <2> QED
    BY <2>1, <2>2, <2>3, <2>4, <2>5, Zenon DEF Preserves, Local
<1>18. CASE Complete(p)
  <2>1. TypeOK'
    BY <1>1, <1>2, <1>18 DEF Complete, TypeOK, IndexInv, FilesInv
  <2>2. IndexInv(p)'
    BY <1>1, <1>18 DEF Complete, TypeOK, IndexInv
  <2>3. FilesInv(p)'
    BY <1>1, <1>2, <1>18, ZenonT(40) DEF Complete, TypeOK, FilesInv, Report
  <2>4. PromptInv(p)'
    BY <1>1, <1>18, Zenon DEF Complete, TypeOK, PromptInv, FilesInv, Stops
  <2>5. \A q \in Processes \ {p} : SameAt(q)
    BY <1>1, <1>18, Zenon DEF Complete, TypeOK, SameAt
  <2> QED
    BY <2>1, <2>2, <2>3, <2>4, <2>5, Zenon DEF Preserves, Local
<1>19. CASE Continue(p, n)
  <2>1. TypeOK'
    BY <1>1, <1>2, <1>19 DEF Continue, TypeOK, IndexInv, FilesInv
  <2>2. IndexInv(p)'
    BY <1>1, <1>19, Zenon DEF Continue, TypeOK, IndexInv
  <2>3. FilesInv(p)'
    <3>1. CASE stage[p] = LastStage
      BY <1>1, <1>2, <1>19, <3>1, ZenonT(40) DEF Continue, TypeOK, FilesInv, Report
    <3>2. CASE ~(stage[p] = LastStage)
      BY <1>1, <1>2, <1>19, <3>2, SMTT(30) DEF Continue, TypeOK, FilesInv, Report
    <3> QED
      BY <3>1, <3>2, Zenon
  <2>4. PromptInv(p)'
    BY <1>1, <1>19, Zenon DEF Continue, TypeOK, PromptInv, FilesInv, Stops
  <2>5. \A q \in Processes \ {p} : SameAt(q)
    BY <1>1, <1>19, Zenon DEF Continue, TypeOK, SameAt
  <2> QED
    BY <2>1, <2>2, <2>3, <2>4, <2>5, Zenon DEF Preserves, Local
<1>20. CASE SkipCommand(p)
  <2>1. TypeOK'
    <3>0. pc' \in [Processes -> Labels]
      BY <1>1, <1>20 DEF SkipCommand, TypeOK
    <3>1. cvcArgIndex' \in [Processes -> Nat]
      <4>1. CASE stage[p] = LastStage
        BY <1>1, <1>20, <4>1, Zenon DEF SkipCommand, TypeOK
      <4>2. CASE ~(stage[p] = LastStage)
        BY <1>1, <1>20, <4>2, IndexTypes DEF SkipCommand, TypeOK
      <4> QED
        BY <4>1, <4>2, Zenon
    <3> QED
      BY <1>1, <1>20, <3>0, <3>1, Zenon DEF SkipCommand, TypeOK
  <2>2. IndexInv(p)'
    BY <1>1, <1>20 DEF SkipCommand, TypeOK, IndexInv
  <2>3. FilesInv(p)'
    BY <1>1, <1>2, <1>20, ZenonT(40) DEF SkipCommand, TypeOK, FilesInv, Report
  <2>4. PromptInv(p)'
    BY <1>1, <1>20, Zenon DEF SkipCommand, TypeOK, PromptInv, FilesInv, Stops
  <2>5. \A q \in Processes \ {p} : SameAt(q)
    BY <1>1, <1>20 DEF SkipCommand, TypeOK, SameAt
  <2> QED
    BY <2>1, <2>2, <2>3, <2>4, <2>5, Zenon DEF Preserves, Local
<1>21. CASE Rerun(p)
  <2>1. TypeOK'
    <3>0. pc' \in [Processes -> Labels]
      BY <1>1, <1>21 DEF Rerun, TypeOK
    <3>1. cvcArgIndex' \in [Processes -> Nat]
      <4>1. CASE stage[p] = LastStage
        <5>1. cvcArgIndex[p] >= 1
          BY <1>1, <1>21 DEF Rerun, TypeOK, IndexInv
        <5> QED
          BY <1>1, <1>21, <4>1, <5>1, IndexTypes DEF Rerun, TypeOK
      <4>2. CASE ~(stage[p] = LastStage)
        BY <1>1, <1>21, <4>2, Zenon DEF Rerun, TypeOK
      <4> QED
        BY <4>1, <4>2, Zenon
    <3>2. /\ logFile' \in [Processes -> Reports \cup {None}]
          /\ errorFile' \in [Processes -> Reports \cup {None}]
          /\ debugFile' \in [Processes -> Reports \cup {None}]
      BY <1>1, <1>21, Zenon DEF Rerun, TypeOK
    <3> QED
      BY <1>1, <1>21, <3>0, <3>1, <3>2, Zenon DEF Rerun, TypeOK
  <2>2. IndexInv(p)'
    BY <1>1, <1>21 DEF Rerun, TypeOK, IndexInv
  <2>3. FilesInv(p)'
    BY <1>1, <1>2, <1>21, ZenonT(40) DEF Rerun, TypeOK, FilesInv, Report
  <2>4. PromptInv(p)'
    BY <1>1, <1>21, Zenon DEF Rerun, TypeOK, PromptInv, FilesInv, Stops
  <2>5. \A q \in Processes \ {p} : SameAt(q)
    BY <1>1, <1>21 DEF Rerun, TypeOK, SameAt
  <2> QED
    BY <2>1, <2>2, <2>3, <2>4, <2>5, Zenon DEF Preserves, Local
<1>22. CASE EndOfFile(p)
  <2>1. TypeOK'
    BY <1>1, <1>2, <1>22, Zenon DEF EndOfFile, TypeOK, IndexInv, FilesInv
  <2>2. IndexInv(p)'
    BY <1>1, <1>22, Zenon DEF EndOfFile, TypeOK, IndexInv
  <2>3. FilesInv(p)'
    <3>1. CASE stage[p] = LastStage
      BY <1>1, <1>2, <1>22, <3>1, ZenonT(40) DEF EndOfFile, TypeOK, FilesInv, Report
    <3>2. CASE ~(stage[p] = LastStage)
      BY <1>1, <1>2, <1>22, <3>2, SMTT(30) DEF EndOfFile, TypeOK, FilesInv, Report
    <3> QED
      BY <3>1, <3>2, Zenon
  <2>4. PromptInv(p)'
    BY <1>1, <1>22 DEF EndOfFile, TypeOK, PromptInv, FilesInv, Stops
  <2>5. \A q \in Processes \ {p} : SameAt(q)
    BY <1>1, <1>22, Zenon DEF EndOfFile, TypeOK, SameAt
  <2> QED
    BY <2>1, <2>2, <2>3, <2>4, <2>5, Zenon DEF Preserves, Local
<1>23. CASE Quit(p)
  <2>1. TypeOK'
    BY <1>1, <1>2, <1>23, Zenon DEF Quit, TypeOK, IndexInv, FilesInv
  <2>2. IndexInv(p)'
    BY <1>1, <1>23, Zenon DEF Quit, TypeOK, IndexInv
  <2>3. FilesInv(p)'
    BY <1>1, <1>2, <1>23, ZenonT(40) DEF Quit, TypeOK, FilesInv, Report
  <2>4. PromptInv(p)'
    BY <1>1, <1>23, Zenon DEF Quit, TypeOK, PromptInv, FilesInv, Stops
  <2>5. \A q \in Processes \ {p} : SameAt(q)
    BY <1>1, <1>23, Zenon DEF Quit, TypeOK, SameAt
  <2> QED
    BY <2>1, <2>2, <2>3, <2>4, <2>5, Zenon DEF Preserves, Local
<1>24. CASE SetFiles(p, ok, empty)
  <2>1. TypeOK'
    BY <1>1, <1>2, <1>24, Zenon DEF SetFiles, TypeOK, IndexInv, FilesInv
  <2>2. IndexInv(p)'
    BY <1>1, <1>24, Zenon DEF SetFiles, TypeOK, IndexInv
  <2>3. FilesInv(p)'
    BY <1>1, <1>2, <1>24, ZenonT(40) DEF SetFiles, TypeOK, FilesInv, Report
  <2>4. PromptInv(p)'
    BY <1>1, <1>24, Zenon DEF SetFiles, TypeOK, PromptInv, FilesInv, Stops
  <2>5. \A q \in Processes \ {p} : SameAt(q)
    BY <1>1, <1>24, Zenon DEF SetFiles, TypeOK, SameAt
  <2> QED
    BY <2>1, <2>2, <2>3, <2>4, <2>5, Zenon DEF Preserves, Local
<1>25. CASE Interrupt(p)
  <2>1. TypeOK'
    BY <1>1, <1>25, SMTT(30) DEF Interrupt, TypeOK
  <2>2. IndexInv(p)'
    BY <1>1, <1>25, Zenon DEF Interrupt, TypeOK, IndexInv
  <2>3. FilesInv(p)'
    BY <1>1, <1>2, <1>25, ZenonT(40) DEF Interrupt, TypeOK, FilesInv, Report
  <2>4. PromptInv(p)'
    BY <1>1, <1>25 DEF Interrupt, TypeOK, PromptInv, FilesInv, Stops
  <2>5. \A q \in Processes \ {p} : SameAt(q)
    BY <1>1, <1>25, Zenon DEF Interrupt, TypeOK, SameAt
  <2> QED
    BY <2>1, <2>2, <2>3, <2>4, <2>5, Zenon DEF Preserves, Local
<1>26. CASE CleanupHandler(p)
  <2>1. TypeOK'
    BY <1>1, <1>2, <1>26, Zenon DEF CleanupHandler, TypeOK, IndexInv, FilesInv
  <2>2. IndexInv(p)'
    BY <1>1, <1>26, Zenon DEF CleanupHandler, TypeOK, IndexInv
  <2>3. FilesInv(p)'
    BY <1>1, <1>2, <1>26, ZenonT(40) DEF CleanupHandler, TypeOK, FilesInv, Report
  <2>4. PromptInv(p)'
    BY <1>1, <1>26, Zenon DEF CleanupHandler, TypeOK, PromptInv, FilesInv, Stops
  <2>5. \A q \in Processes \ {p} : SameAt(q)
    BY <1>1, <1>26, Zenon DEF CleanupHandler, TypeOK, SameAt
  <2> QED
    BY <2>1, <2>2, <2>3, <2>4, <2>5, Zenon DEF Preserves, Local
<1>27. CASE Kill(p)
  <2>1. TypeOK'
    BY <1>1, <1>2, <1>27, Zenon DEF Kill, TypeOK, IndexInv, FilesInv
  <2>2. IndexInv(p)'
    BY <1>1, <1>27, Zenon DEF Kill, TypeOK, IndexInv
  <2>3. FilesInv(p)'
    BY <1>1, <1>2, <1>27, ZenonT(40) DEF Kill, TypeOK, FilesInv, Report
  <2>4. PromptInv(p)'
    BY <1>1, <1>27, Zenon DEF Kill, TypeOK, PromptInv, FilesInv, Stops
  <2>5. \A q \in Processes \ {p} : SameAt(q)
    BY <1>1, <1>27, Zenon DEF Kill, TypeOK, SameAt
  <2> QED
    BY <2>1, <2>2, <2>3, <2>4, <2>5, Zenon DEF Preserves, Local
<1> QED
  BY <1>3, <1>4, <1>5, <1>6, <1>7, <1>8, <1>9, <1>10, <1>11, <1>12, <1>13, <1>14, <1>15, <1>16, <1>17, <1>18, <1>19, <1>20, <1>21, <1>22, <1>23, <1>24, <1>25, <1>26, <1>27, Zenon
     DEF Moves, LockSteps

-----------------------------------------------------------------------------
(* The locks.                                                              *)

\* A process that does not lock or unlock owns and holds what it did before.
LEMMA MovesKeepLocks ==
    ASSUME IInv, NEW p \in Processes, NEW again \in BOOLEAN, NEW ok \in BOOLEAN,
           NEW empty \in BOOLEAN, NEW n \in Nat,
           Moves(p, again, ok, empty, n), Preserves(p)
    PROVE  LocksAreOwned' /\ LocksHaveOwners'
<1>1. locks' = locks /\ lockFile' = lockFile /\ raced' = raced /\ abandoned' = abandoned
  BY Zenon DEF Moves, Setup, Cleanup, LockRefused, SetOutputFiles, Throw, Load, EndStage, Proceed,
         SkipStage2, EndLastStage, Complete, Continue, SkipCommand, Rerun, EndOfFile, Quit,
         SetFiles, Interrupt, locking
<1>2. \/ pc'[p] = pc[p] /\ cvcArgIndex'[p] = cvcArgIndex[p]
      \/ /\ pc[p] \notin {"made", "unlocked"}
         /\ pc'[p] \notin {"made", "unlocked", "exit", "dead"}
  BY ZenonT(60) DEF IInv, TypeOK, Moves, Setup, Cleanup, LockRefused, SetOutputFiles, Throw, Load, EndStage,
         Proceed, SkipStage2, EndLastStage, Complete, Continue, SkipCommand, Rerun, EndOfFile,
         Quit, SetFiles, Interrupt, Goto, RemoveLockThen, Leave, NextMode, Resume
<1>3. \A q \in Processes : Owned(q)' = Owned(q) /\ Held(q)' = Held(q) /\ (Alive(q) => Alive(q)')
  BY <1>1, <1>2, ZenonT(40) DEF Preserves, SameAt, Owned, Held, Report, Alive
<1>4. LocksAreOwned'
  BY <1>1, <1>3, Zenon DEF IInv, LocksAreOwned
<1>5. LocksHaveOwners'
  BY <1>1, <1>3, Zenon DEF IInv, LocksHaveOwners
<1> QED
  BY <1>4, <1>5, Zenon

\* What the other processes own and hold does not change, but for a lock that p
\* removes.
LEMMA OthersKeepLocks ==
    ASSUME NEW p \in Processes, Preserves(p)
    PROVE  \A q \in Processes \ {p} :
              Owned(q)' = Owned(q) /\ Alive(q)' = Alive(q) /\ Held(q) \cap locks' \subseteq Held(q)'
BY Zenon DEF Preserves, SameAt, Owned, Held, Report, Alive

\* Locking and unlocking, the end, and the two ways to be stopped: only the
\* handler that races removes a lock that another process owns.
LEMMA LockStepsKeepOwners ==
    ASSUME IInv, NEW p \in Processes, LockSteps(p), Preserves(p)
    PROVE  LocksAreOwned' /\ LocksHaveOwners'
<1>1. /\ TypeOK /\ Local(p) /\ LocksAreOwned /\ LocksHaveOwners
      /\ None \notin Reports /\ None \notin locks
  BY ModesAssumption, Zenon DEF IInv, TypeOK
<1>2. \A q \in Processes \ {p} :
         Owned(q)' = Owned(q) /\ Alive(q)' = Alive(q) /\ Held(q) \cap locks' \subseteq Held(q)'
  BY OthersKeepLocks, Zenon
<1>3. CASE Unlock(p)
  <2>1. Owned(p)' = {} /\ Owned(p) = {lockFile[p]} \ {None} /\ raced' = raced
        /\ locks' = locks \ {lockFile[p]} /\ abandoned' = abandoned /\ Held(p) \subseteq {lockFile[p]}
    BY <1>1, <1>3, Zenon DEF Unlock, Goto, Owned, Held, TypeOK
  <2>2. LocksAreOwned'
    <3>1. \A q \in Processes : Owned(q)' \subseteq Owned(q)
      BY <1>2, <2>1, Zenon
    <3> QED
      BY <1>1, <2>1, <3>1 DEF LocksAreOwned
  <2>3. LocksHaveOwners'
    BY <1>1, <1>2, <2>1, Zenon DEF LocksHaveOwners
  <2> QED
    BY <2>2, <2>3, Zenon
<1>4. CASE Unlocked(p)
  <2>1. Owned(p)' = {} /\ Held(p) = {} /\ raced' = raced /\ locks' = locks /\ abandoned' = abandoned
    BY <1>1, <1>4, Zenon DEF Unlocked, Goto, Owned, Held, TypeOK
  <2>2. LocksAreOwned'
    BY <1>1, <1>2, <2>1, Zenon DEF LocksAreOwned
  <2>3. LocksHaveOwners'
    BY <1>1, <1>2, <2>1, Zenon DEF LocksHaveOwners
  <2> QED
    BY <2>2, <2>3, Zenon
<1>5. CASE Delete(p)
  <2>1. /\ Owned(p)' = {} /\ Held(p) = {}
        /\ raced' = raced /\ locks' = locks /\ abandoned' = abandoned
    BY <1>1, <1>5, Zenon DEF Delete, Goto, Owned, Held, TypeOK, Local, FilesInv, locking
  <2>2. LocksAreOwned'
    BY <1>1, <1>2, <2>1, Zenon DEF LocksAreOwned
  <2>3. LocksHaveOwners'
    BY <1>1, <1>2, <2>1, Zenon DEF LocksHaveOwners
  <2> QED
    BY <2>2, <2>3, Zenon
<1>6. CASE MakeLock(p)
  <2>1. /\ Owned(p)' = {Report(p)} /\ Held(p)' = {Report(p)} /\ Alive(p)' /\ Held(p) = {}
        /\ locks' = locks \cup {Report(p)} /\ Report(p) \notin locks
        /\ raced' = raced /\ abandoned' = abandoned
    BY <1>1, <1>6, Zenon DEF MakeLock, Goto, Owned, Held, Report, Alive, TypeOK, Local, FilesInv
  <2>2. LocksAreOwned'
    BY <1>1, <1>2, <2>1 DEF LocksAreOwned
  <2>3. LocksHaveOwners'
    BY <1>1, <1>2, <2>1, Zenon DEF LocksHaveOwners
  <2> QED
    BY <2>2, <2>3, Zenon
<1>7. CASE LockMade(p)
  <2>1. /\ Owned(p)' \subseteq Owned(p) /\ Held(p) \cap locks \subseteq Held(p)' /\ Alive(p)'
        /\ locks' = locks /\ raced' = raced /\ abandoned' = abandoned
    BY <1>1, <1>7, Zenon DEF LockMade, Goto, Owned, Held, Report, Alive, TypeOK
  <2>2. LocksAreOwned'
    BY <1>1, <1>2, <2>1 DEF LocksAreOwned
  <2>3. LocksHaveOwners'
    BY <1>1, <1>2, <2>1, Zenon DEF LocksHaveOwners
  <2> QED
    BY <2>2, <2>3, Zenon
<1>8. CASE CleanupHandler(p)
  <2>1. /\ Owned(p)' = {} /\ locks' = locks \ {lockFile[p]}
        /\ Held(p) \subseteq abandoned' \cup {lockFile[p]}
        /\ abandoned \ {lockFile[p]} \subseteq abandoned'
    BY <1>1, <1>8, Zenon DEF CleanupHandler, Stop, Goto, Owned, TypeOK
  <2>2. ~raced' => ~raced /\ \A q \in Processes \ {p} : lockFile[p] \notin Owned(q)
    <3>1. ~raced' => ~raced /\ ~(pc[p] = "unlocked" /\ lockFile[p] \in locks)
      BY <1>8, Zenon DEF CleanupHandler
    <3>2. CASE lockFile[p] \notin locks
      BY <1>1, <3>1, <3>2, Zenon DEF LocksAreOwned
    <3>3. CASE lockFile[p] \in locks /\ pc[p] # "unlocked"
      <4>1. lockFile[p] \in Owned(p)
        BY <1>1, <3>3, Zenon DEF Owned, Local, FilesInv
      <4> QED
        BY <1>1, <3>1, <4>1, Zenon DEF LocksAreOwned
    <3> QED
      BY <3>1, <3>2, <3>3, Zenon
  <2>3. LocksAreOwned'
    BY <1>1, <1>2, <2>1, <2>2, Zenon DEF LocksAreOwned
  <2>4. LocksHaveOwners'
    BY <1>1, <1>2, <2>1, Zenon DEF LocksHaveOwners
  <2> QED
    BY <2>3, <2>4, Zenon
<1>9. CASE Kill(p)
  <2>1. /\ Owned(p)' = {} /\ locks' = locks /\ raced' = raced
        /\ abandoned' = abandoned \cup Held(p)
    BY <1>1, <1>9, Zenon DEF Kill, Stop, Goto, Owned, TypeOK
  <2>2. LocksAreOwned'
    BY <1>1, <1>2, <2>1, Zenon DEF LocksAreOwned
  <2>3. LocksHaveOwners'
    BY <1>1, <1>2, <2>1, Zenon DEF LocksHaveOwners
  <2> QED
    BY <2>2, <2>3, Zenon
<1> QED
  BY <1>3, <1>4, <1>5, <1>6, <1>7, <1>8, <1>9, Zenon DEF LockSteps

-----------------------------------------------------------------------------
(* The invariant.                                                          *)

\* Before the first mode nothing is locked or open.
LEMMA InitIInv == Init => IInv
<1> SUFFICES ASSUME Init
             PROVE  IInv
  BY Zenon
<1>1. TypeOK
  <2>1. /\ stage \in [Processes -> 1 .. LastStage] /\ cvcArgIndex \in [Processes -> Nat]
        /\ gContinueCount \in [Processes -> Int]
    BY StagesAssumption DEF Init
  <2>2. /\ lockFile \in [Processes -> Reports \cup {None}]
        /\ logFile = lockFile /\ errorFile = lockFile /\ debugFile = lockFile
    BY Zenon DEF Init
  <2>3. /\ emptyPower \in [Processes -> BOOLEAN] /\ ready \in [Processes -> BOOLEAN]
        /\ pending \in [Processes -> BOOLEAN] /\ gInteractive_cvc \in [Processes -> BOOLEAN]
    BY Zenon DEF Init
  <2> QED
    BY <2>1, <2>2, <2>3, Zenon DEF Init, TypeOK, Labels
<1>2. ASSUME NEW p \in Processes PROVE Local(p)
  BY SMTT(30) DEF Init, Local, IndexInv, FilesInv, PromptInv, Running
<1>3. LocksAreOwned /\ LocksHaveOwners
  BY Zenon DEF Init, LocksAreOwned, Owned, LocksHaveOwners
<1> QED
  BY <1>1, <1>2, <1>3, Zenon DEF IInv

\* Every step of the program keeps the invariant.
LEMMA StepIInv == IInv /\ [Next]_vars => IInv'
<1> SUFFICES ASSUME IInv, [Next]_vars
             PROVE  IInv'
  BY Zenon
<1>1. ASSUME NEW p \in Processes, NEW again \in BOOLEAN, NEW ok \in BOOLEAN,
             NEW empty \in BOOLEAN, NEW n \in Nat,
             Moves(p, again, ok, empty, n) \/ LockSteps(p)
      PROVE  IInv'
  <2>1. Preserves(p)
    BY <1>1, StepPreserves, Zenon
  <2>2. ASSUME NEW q \in Processes \ {p} PROVE Local(q)'
    BY <2>1, SameIsLocal, Zenon DEF IInv, Preserves
  <2>3. LocksAreOwned' /\ LocksHaveOwners'
    BY <1>1, <2>1, MovesKeepLocks, LockStepsKeepOwners, Zenon
  <2> QED
    BY <2>1, <2>2, <2>3, Zenon DEF IInv, Preserves
<1>2. CASE UNCHANGED vars
  <2>1. TypeOK' /\ \A q \in Processes : SameAt(q)
    BY <1>2, Zenon DEF IInv, TypeOK, SameAt, vars, locking, files, prompting
  <2>2. ASSUME NEW q \in Processes PROVE Local(q)'
    BY <2>1, SameIsLocal, Zenon DEF IInv
  <2>3. LocksAreOwned' /\ LocksHaveOwners'
    BY <1>2 DEF IInv, LocksAreOwned, LocksHaveOwners, Owned, Held, Alive, Report, vars, locking
  <2> QED
    BY <2>1, <2>2, <2>3, Zenon DEF IInv
<1> QED
  BY <1>1, <1>2, NextIsProcessStep, Zenon

\* The invariant holds from the start.
LEMMA InvariantHolds == Spec => []IInv
BY InitIInv, StepIInv, PTL DEF Spec

-----------------------------------------------------------------------------
(* The results.                                                            *)

\* LockReport and RemoveLock: two processes never work on modes with the same
\* report, and none without its lock, unless a signal came between rmdir and
\* the assignment.
THEOREM ReportsAreExclusive == Spec => []ReportIsExclusive
<1>1. IInv => ReportIsExclusive
  <2> SUFFICES ASSUME IInv, ~raced, NEW p \in Processes, InMode(p)
               PROVE  /\ lockFile[p] \in locks
                      /\ \A q \in Processes \ {p} : InMode(q) => lockFile[q] # lockFile[p]
    BY Zenon DEF ReportIsExclusive
  <2>1. ASSUME NEW q \in Processes, InMode(q)
        PROVE  lockFile[q] \in Owned(q)
    <3>1. lockFile[q] # None
      BY <2>1, ReportType, Zenon DEF InMode, IInv, Local, IndexInv, FilesInv, Running
    <3> QED
      BY <2>1, <3>1, Zenon DEF InMode, Owned
  <2> QED
    BY <2>1, Zenon DEF IInv, LocksAreOwned
<1> QED
  BY <1>1, InvariantHolds, PTL

\* Cleanup, SetOutputFiles and rerun: while a mode runs the open files are those
\* of its report.
THEOREM OutputsAreRight == Spec => []OutputsGoToReport
<1>1. IInv => OutputsGoToReport
  BY Zenon DEF IInv, TypeOK, Local, FilesInv, OutputsGoToReport
<1> QED
  BY <1>1, InvariantHolds, PTL

\* However a mode ends its lock is removed: a lock that nobody alive holds was
\* left by a process that was killed, or stopped between mkdir and the
\* assignment.
THEOREM NoLockIsForgotten == Spec => []LocksHaveOwners
<1>1. IInv => LocksHaveOwners
  BY Zenon DEF IInv
<1> QED
  BY <1>1, InvariantHolds, PTL

\* interrupt_handler: no stage ends without a prompt after an interrupt.
THEOREM InterruptsStop == Spec => InterruptStops
<1>1. ASSUME IInv, [Next]_vars, NEW p \in Processes,
             pc[p] = "stage", pc'[p] \in {"proceed", "complete"}
      PROVE  ~pending[p]
  <2>1. TypeOK /\ PromptInv(p)
    BY <1>1, Zenon DEF IInv, Local
  <2>2. \/ \E ok \in BOOLEAN : EndStage(p, ok)
        \/ EndLastStage(p)
    <3>1. ASSUME NEW q \in Processes, NEW again \in BOOLEAN, NEW ok \in BOOLEAN,
                 NEW empty \in BOOLEAN, NEW n \in Nat,
                 Moves(q, again, ok, empty, n) \/ LockSteps(q)
          PROVE  EndStage(p, ok) \/ EndLastStage(p)
      <4>1. p = q
        BY <1>1, <3>1, StepPreserves DEF Preserves, SameAt
      <4> QED
        BY <1>1, <2>1, <3>1, <4>1, ZenonT(40)
           DEF TypeOK, Moves, LockSteps, Setup, Cleanup, LockRefused, SetOutputFiles, Throw, Load,
               Proceed, SkipStage2, Complete, Continue, SkipCommand, Rerun, EndOfFile, Quit,
               SetFiles, Interrupt, Unlock, Unlocked, Delete, MakeLock, LockMade, CleanupHandler,
               Kill, Stop, Goto, RemoveLockThen, Leave, NextMode, Resume
    <3>2. ~UNCHANGED vars
      BY <1>1, Zenon DEF vars
    <3> QED
      BY <1>1, <3>1, <3>2, NextIsProcessStep, Zenon
  <2>3. CASE \E ok \in BOOLEAN : EndStage(p, ok)
    BY <1>1, <2>1, <2>3, SMTT(30) DEF EndStage, Goto, Stops, TypeOK, PromptInv, Running
  <2>4. CASE EndLastStage(p)
    BY <1>1, <2>1, <2>4, Zenon DEF EndLastStage, Goto, TypeOK, PromptInv, Running
  <2> QED
    BY <2>2, <2>3, <2>4, Zenon
<1>2. IInv /\ [Next]_vars => [\A p \in Processes :
          pc[p] = "stage" /\ pc'[p] \in {"proceed", "complete"} => ~pending[p]]_vars
  BY <1>1, Zenon
<1> QED
  BY <1>2, InvariantHolds, PTL DEF Spec, InterruptStops

=============================================================================
