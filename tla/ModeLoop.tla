------------------------------ MODULE ModeLoop ------------------------------
(***************************************************************************)
(* The main loop: one mode after the other for the cvcrc files of the      *)
(* command line, the lock directory that keeps two programs from writing   *)
(* the same report, the output files, the stages with their prompts, and   *)
(* the signal handlers (CCvcDb_main.cc, CCvcDb_init.cc, cvc.cc, and the    *)
(* commands of CCvcDb_interactive.cc that move between stages).            *)
(*                                                                         *)
(* Several programs run at once.  The kernel makes mkdir and rmdir atomic; *)
(* a signal may come between any two steps, in particular between mkdir or *)
(* rmdir and the assignment to lockFile that follows it.  What the stages  *)
(* compute is left to the other modules: a stage ends, skips the mode or   *)
(* throws.                                                                 *)
(***************************************************************************)
EXTENDS Integers, Sequences

CONSTANTS
    Processes,
    Reports,
    Modes,          \* for each process, the reports of its cvcrc files
    Users,          \* processes started from a terminal
    LastStage,      \* STAGE_COMPLETE: 7 in the code
    MaxContinue,    \* bound on the argument of continue
    None

ASSUME ModesAssumption == Modes \in [Processes -> Seq(Reports)] /\ None \notin Reports
ASSUME StagesAssumption ==
    LastStage \in Nat /\ LastStage > 2 /\ MaxContinue \in Nat /\ Users \subseteq Processes

VARIABLES
    locks,          \* the lock directories that exist
    pc,             \* where each process is
    ret,            \* where it goes on after RemoveLock
    cvcArgIndex,
    lockFile,
    logFile,        \* the report it is open for, or None
    errorFile,
    debugFile,
    emptyPower,     \* cvcPowerPtrList.empty()
    ready,          \* modelFileStatus, powerFileStatus and fuseFileStatus are OK
    stage,
    gInteractive_cvc,
    gContinueCount,
    pending,        \* history: interrupted, no prompt yet
    reason,         \* history: why the loop was left before its end
    raced,          \* history: a handler ran after rmdir and before lockFile = ""
    abandoned       \* history: locks of processes that were stopped

locking == <<locks, lockFile, raced, abandoned>>
files == <<logFile, errorFile, debugFile>>
prompting == <<gInteractive_cvc, gContinueCount, pending>>
vars == <<locking, files, prompting, pc, ret, cvcArgIndex, emptyPower, ready, stage, reason>>

Report(p) == Modes[p][cvcArgIndex[p]]
Goto(p, l) == pc' = [pc EXCEPT ![p] = l]
Alive(p) == pc[p] \notin {"exit", "dead"}

Init ==
    /\ locks = {} /\ raced = FALSE /\ abandoned = {}
    /\ pc = [p \in Processes |-> "setup"]
    /\ ret = [p \in Processes |-> "lock"]
    /\ cvcArgIndex = [p \in Processes |-> 1]
    /\ lockFile = [p \in Processes |-> None]
    /\ logFile = lockFile /\ errorFile = lockFile /\ debugFile = lockFile
    /\ emptyPower = [p \in Processes |-> TRUE]
    /\ ready = [p \in Processes |-> FALSE]
    /\ stage = [p \in Processes |-> 1]
    /\ gInteractive_cvc \in {f \in [Processes -> BOOLEAN] : \A p \in Processes : f[p] => p \in Users}
    /\ gContinueCount = [p \in Processes |-> 0]
    /\ pending = [p \in Processes |-> FALSE]
    /\ reason = [p \in Processes |-> "none"]

-----------------------------------------------------------------------------
(* RemoveLock, in two steps, and the files of a mode.                      *)

Close(p) ==
    /\ logFile' = [logFile EXCEPT ![p] = None]
    /\ errorFile' = [errorFile EXCEPT ![p] = None]
    /\ debugFile' = [debugFile EXCEPT ![p] = None]

\* Go on at l when the lock is removed.
RemoveLockThen(p, l) == Goto(p, "unlock") /\ ret' = [ret EXCEPT ![p] = l]

\* An exception or quit: RemoveLock, then the files are closed.
Leave(p, why) == RemoveLockThen(p, "delete") /\ reason' = [reason EXCEPT ![p] = why]

\* Mutant: the directory is left where it is.
UnlockNothing(p) ==
    /\ pc[p] = "unlock"
    /\ Goto(p, "unlocked")
    /\ UNCHANGED <<locking, files, prompting, ret, cvcArgIndex, emptyPower, ready, stage, reason>>

\* rmdir
Unlock(p) ==
    /\ pc[p] = "unlock"
    /\ locks' = locks \ {lockFile[p]}
    /\ Goto(p, "unlocked")
    /\ UNCHANGED <<lockFile, raced, abandoned, files, prompting, ret, cvcArgIndex, emptyPower,
                   ready, stage, reason>>

\* lockFile = ""
Unlocked(p) ==
    /\ pc[p] = "unlocked"
    /\ lockFile' = [lockFile EXCEPT ![p] = None]
    /\ Goto(p, ret[p])
    /\ UNCHANGED <<locks, raced, abandoned, files, prompting, ret, cvcArgIndex, emptyPower, ready,
                   stage, reason>>

\* The start of the loop's body.  Cleanup closes the files if the mode before
\* had powers.
Setup(p) ==
    /\ pc[p] = "setup" /\ cvcArgIndex[p] <= Len(Modes[p])
    /\ gContinueCount' = [gContinueCount EXCEPT ![p] = 0]
    /\ IF emptyPower[p] THEN UNCHANGED files ELSE Close(p)
    /\ RemoveLockThen(p, "lock")
    /\ UNCHANGED <<locking, gInteractive_cvc, pending, cvcArgIndex, emptyPower, ready, stage, reason>>

\* Cleanup after the loop.
Cleanup(p) ==
    /\ pc[p] = "setup" /\ cvcArgIndex[p] > Len(Modes[p])
    /\ Close(p)
    /\ RemoveLockThen(p, "delete")
    /\ UNCHANGED <<locking, prompting, cvcArgIndex, emptyPower, ready, stage, reason>>

\* delete gCvcDb, or exit: the files that are still open are closed.
Delete(p) ==
    /\ pc[p] = "delete"
    /\ Close(p)
    /\ Goto(p, "exit")
    /\ UNCHANGED <<locking, prompting, ret, cvcArgIndex, emptyPower, ready, stage, reason>>

-----------------------------------------------------------------------------
(* LockReport and SetOutputFiles.                                          *)

\* Mutant: a directory that exists is as good as one that was made.
MakeLockAgain(p) ==
    /\ pc[p] = "lock"
    /\ locks' = locks \cup {Report(p)}
    /\ Goto(p, "made")
    /\ UNCHANGED <<lockFile, raced, abandoned, files, prompting, ret, cvcArgIndex, emptyPower,
                   ready, stage, reason>>

\* mkdir
MakeLock(p) ==
    /\ pc[p] = "lock" /\ Report(p) \notin locks
    /\ locks' = locks \cup {Report(p)}
    /\ Goto(p, "made")
    /\ UNCHANGED <<lockFile, raced, abandoned, files, prompting, ret, cvcArgIndex, emptyPower,
                   ready, stage, reason>>

\* lockFile = cvcLockFile
LockMade(p) ==
    /\ pc[p] = "made"
    /\ lockFile' = [lockFile EXCEPT ![p] = Report(p)]
    /\ Goto(p, "files")
    /\ UNCHANGED <<locks, raced, abandoned, files, prompting, ret, cvcArgIndex, emptyPower, ready,
                   stage, reason>>

NextMode(p) == Goto(p, "setup") /\ cvcArgIndex' = [cvcArgIndex EXCEPT ![p] = @ + 1]

\* The mode is skipped, or tried again if the user types "rerun".
LockRefused(p, again) ==
    /\ pc[p] = "lock" /\ Report(p) \in locks
    /\ again => gInteractive_cvc[p]
    /\ IF again THEN Goto(p, "setup") /\ UNCHANGED cvcArgIndex ELSE NextMode(p)
    /\ UNCHANGED <<locking, files, prompting, ret, emptyPower, ready, stage, reason>>

\* Mutant: whether the files could be opened is not tested.
SetOutputFilesAnyhow(p) ==
    /\ pc[p] = "files"
    /\ LET Opened(file) == IF file[p] = None THEN [file EXCEPT ![p] = Report(p)] ELSE file
       IN  logFile' = Opened(logFile) /\ errorFile' = Opened(errorFile) /\ debugFile' = Opened(debugFile)
    /\ Goto(p, "load")
    /\ UNCHANGED <<locking, prompting, ret, cvcArgIndex, emptyPower, ready, stage, reason>>

\* Opening a stream that is open fails: the file of the mode before was not
\* closed.
SetOutputFiles(p) ==
    /\ pc[p] = "files"
    /\ LET Opened(file) == IF file[p] = None THEN [file EXCEPT ![p] = Report(p)] ELSE file
       IN  /\ logFile' = Opened(logFile)
           /\ errorFile' = IF logFile[p] = None THEN Opened(errorFile) ELSE errorFile
           /\ debugFile' = IF logFile[p] = None /\ errorFile[p] = None THEN Opened(debugFile) ELSE debugFile
    /\ IF {logFile[p], errorFile[p], debugFile[p]} = {None}
         THEN Goto(p, "load") /\ UNCHANGED <<ret, reason>>
         ELSE Leave(p, "open file")
    /\ UNCHANGED <<locking, prompting, cvcArgIndex, emptyPower, ready, stage>>

\* LoadModels, LoadPower, the netlist: an exception may come at any time.
Throw(p) ==
    /\ pc[p] \in {"lock", "files", "load", "stage", "proceed"}
    /\ Leave(p, "exception")
    /\ UNCHANGED <<locking, files, prompting, cvcArgIndex, emptyPower, ready, stage>>

\* LoadModels and LoadPower: ok is whether both files were read, empty whether
\* there is no power (a file that cannot be read leaves the list empty).
Load(p, ok, empty) ==
    /\ pc[p] = "load"
    /\ emptyPower' = [emptyPower EXCEPT ![p] = empty]
    /\ ready' = [ready EXCEPT ![p] = ok]
    /\ IF ok \/ gInteractive_cvc[p]
         THEN Goto(p, "stage") /\ stage' = [stage EXCEPT ![p] = 1] /\ UNCHANGED cvcArgIndex
         ELSE NextMode(p) /\ UNCHANGED stage
    /\ UNCHANGED <<locking, files, prompting, ret, reason>>

-----------------------------------------------------------------------------
(* The stages and the prompt after each of them.                           *)

\* gInteractive_cvc && --gContinueCount < 1
Stops(p) == gInteractive_cvc[p] /\ gContinueCount[p] - 1 < 1

\* Stage 1 may find that the settings do not fit the netlist.
EndStage(p, ok) ==
    /\ pc[p] = "stage" /\ stage[p] < LastStage
    /\ ready' = [ready EXCEPT ![p] = @ /\ (ok \/ stage[p] > 1)]
    /\ gContinueCount' = [gContinueCount EXCEPT ![p] = IF gInteractive_cvc[p] THEN @ - 1 ELSE @]
    /\ Goto(p, IF Stops(p) THEN "prompt" ELSE "proceed")
    /\ pending' = [pending EXCEPT ![p] = @ /\ ~Stops(p)]
    /\ UNCHANGED <<locking, files, gInteractive_cvc, ret, cvcArgIndex, emptyPower, stage, reason>>

\* After stage 1 the mode is skipped if a status is not OK, in stage 2 if the
\* powers of instances or the expected values are wrong.
Proceed(p) ==
    /\ pc[p] = "proceed"
    /\ IF ready[p]
         THEN Goto(p, "stage") /\ stage' = [stage EXCEPT ![p] = @ + 1] /\ UNCHANGED cvcArgIndex
         ELSE NextMode(p) /\ UNCHANGED stage
    /\ UNCHANGED <<locking, files, prompting, ret, emptyPower, ready, reason>>

SkipStage2(p) ==
    /\ pc[p] = "stage" /\ stage[p] = 2
    /\ NextMode(p)
    /\ UNCHANGED <<locking, files, prompting, ret, emptyPower, ready, stage, reason>>

\* The prompt of the last stage does not depend on the count.
EndLastStage(p) ==
    /\ pc[p] = "stage" /\ stage[p] = LastStage
    /\ errorFile' = [errorFile EXCEPT ![p] = None]
    /\ debugFile' = [debugFile EXCEPT ![p] = None]
    /\ Goto(p, IF gInteractive_cvc[p] THEN "prompt" ELSE "complete")
    /\ pending' = [pending EXCEPT ![p] = @ /\ ~gInteractive_cvc[p]]
    /\ UNCHANGED <<locking, logFile, gInteractive_cvc, gContinueCount, ret, cvcArgIndex, emptyPower,
                   ready, stage, reason>>

Complete(p) ==
    /\ pc[p] = "complete"
    /\ logFile' = [logFile EXCEPT ![p] = None]
    /\ NextMode(p)
    /\ UNCHANGED <<locking, errorFile, debugFile, prompting, ret, emptyPower, ready, stage, reason>>
-----------------------------------------------------------------------------
(* The commands of the prompt.                                             *)

\* InteractiveCvc returns OK; after the last stage its value is ignored.
Resume(p) == Goto(p, IF stage[p] = LastStage THEN "complete" ELSE "proceed")

Continue(p, n) ==
    /\ pc[p] = "prompt"
    /\ stage[p] < LastStage \/ cvcArgIndex[p] < Len(Modes[p])
    /\ gContinueCount' = [gContinueCount EXCEPT ![p] = n]
    /\ Resume(p)
    /\ UNCHANGED <<locking, files, gInteractive_cvc, pending, ret, cvcArgIndex, emptyPower, ready,
                   stage, reason>>

SkipCommand(p) ==
    /\ pc[p] = "prompt"
    /\ IF stage[p] = LastStage THEN Goto(p, "complete") /\ UNCHANGED cvcArgIndex ELSE NextMode(p)
    /\ UNCHANGED <<locking, files, prompting, ret, emptyPower, ready, stage, reason>>

\* cvcArgIndex is decreased here and increased by the loop.
Rerun(p) ==
    /\ pc[p] = "prompt"
    /\ logFile' = [logFile EXCEPT ![p] = None]
    /\ errorFile' = [errorFile EXCEPT ![p] = None]
    /\ IF stage[p] = LastStage
         THEN Goto(p, "complete") /\ cvcArgIndex' = [cvcArgIndex EXCEPT ![p] = @ - 1]
         ELSE Goto(p, "setup") /\ UNCHANGED cvcArgIndex
    /\ UNCHANGED <<locking, debugFile, prompting, ret, emptyPower, ready, stage, reason>>

EndOfFile(p) ==
    /\ pc[p] = "prompt"
    /\ gInteractive_cvc' = [gInteractive_cvc EXCEPT ![p] = FALSE]
    /\ Resume(p)
    /\ UNCHANGED <<locking, files, gContinueCount, pending, ret, cvcArgIndex, emptyPower, ready,
                   stage, reason>>

\* RemoveLock comes first, Cleanup closes the files.
Quit(p) ==
    /\ pc[p] = "prompt"
    /\ Leave(p, "quit")
    /\ UNCHANGED <<locking, files, prompting, cvcArgIndex, emptyPower, ready, stage>>

\* setmodel, setpower and setfuse, at stage 1 only.
SetFiles(p, ok, empty) ==
    /\ pc[p] = "prompt" /\ stage[p] = 1
    /\ emptyPower' = [emptyPower EXCEPT ![p] = empty]
    /\ ready' = [ready EXCEPT ![p] = ok]
    /\ UNCHANGED <<locking, files, prompting, pc, ret, cvcArgIndex, stage, reason>>

-----------------------------------------------------------------------------
(* Signals.                                                                *)

\* Mutant: a count that was given stays.
InterruptKeepsCount(p) ==
    /\ p \in Users /\ Alive(p)
    /\ gInteractive_cvc' = [gInteractive_cvc EXCEPT ![p] = TRUE]
    /\ pending' = [pending EXCEPT ![p] = pc[p] # "prompt"]
    /\ UNCHANGED <<locking, files, gContinueCount, pc, ret, cvcArgIndex, emptyPower, ready, stage, reason>>

\* interrupt_handler
Interrupt(p) ==
    /\ p \in Users /\ Alive(p)
    /\ gInteractive_cvc' = [gInteractive_cvc EXCEPT ![p] = TRUE]
    /\ gContinueCount' = [gContinueCount EXCEPT ![p] = IF gInteractive_cvc[p] /\ @ > 0 THEN 0 ELSE @]
    /\ pending' = [pending EXCEPT ![p] = pc[p] # "prompt"]
    /\ UNCHANGED <<locking, files, pc, ret, cvcArgIndex, emptyPower, ready, stage, reason>>

\* The lock of p that nobody removes if p stops here.
Held(p) ==
    CASE pc[p] = "made" -> {Report(p)}
      [] pc[p] = "unlocked" -> {}
      [] OTHER -> {lockFile[p]} \cap locks

\* The kernel closes the files.
Stop(p) ==
    /\ Close(p)
    /\ Goto(p, "dead")
    /\ lockFile' = [lockFile EXCEPT ![p] = None]

\* cleanup_handler, for SIGTERM, SIGQUIT, a failed assertion, ...: RemoveLock,
\* whatever the interrupted code was doing.
CleanupHandler(p) ==
    /\ Alive(p)
    /\ locks' = locks \ {lockFile[p]}
    /\ abandoned' = (abandoned \cup (Held(p) \ {lockFile[p]})) \ {lockFile[p]}
    /\ raced' = (raced \/ (pc[p] = "unlocked" /\ lockFile[p] \in locks))
    /\ Stop(p)
    /\ UNCHANGED <<prompting, ret, cvcArgIndex, emptyPower, ready, stage, reason>>

\* SIGKILL
Kill(p) ==
    /\ Alive(p)
    /\ abandoned' = abandoned \cup Held(p)
    /\ Stop(p)
    /\ UNCHANGED <<locks, raced, prompting, ret, cvcArgIndex, emptyPower, ready, stage, reason>>

Ended == (\A p \in Processes : ~Alive(p)) /\ UNCHANGED vars

Next ==
    \/ \E p \in Processes :
          \/ Setup(p) \/ Cleanup(p) \/ Unlock(p) \/ Unlocked(p) \/ Delete(p)
          \/ MakeLock(p) \/ LockMade(p) \/ SetOutputFiles(p) \/ Throw(p)
          \/ Proceed(p) \/ SkipStage2(p) \/ EndLastStage(p) \/ Complete(p)
          \/ SkipCommand(p) \/ Rerun(p) \/ EndOfFile(p) \/ Quit(p)
          \/ Interrupt(p) \/ CleanupHandler(p) \/ Kill(p)
    \/ \E p \in Processes, b \in BOOLEAN : LockRefused(p, b) \/ EndStage(p, b)
    \/ \E p \in Processes, ok, empty \in BOOLEAN : Load(p, ok, empty) \/ SetFiles(p, ok, empty)
    \/ \E p \in Processes, n \in 1 .. MaxContinue : Continue(p, n)
    \/ Ended

Spec == Init /\ [][Next]_vars

-----------------------------------------------------------------------------
(* Properties.                                                             *)

InMode(p) == pc[p] \in {"load", "stage", "proceed", "prompt", "complete"}

\* A process that works on a mode has the lock of its report, and no other
\* process works on a mode with that report; unless a handler ran in the one
\* place where it may remove the lock of another process.
ReportIsExclusive ==
    ~raced =>
        \A p \in Processes :
            InMode(p) =>
                /\ lockFile[p] \in locks
                /\ \A q \in Processes \ {p} : InMode(q) => lockFile[q] # lockFile[p]

\* While a mode runs its report is the one that is open, and the files for
\* errors and debugging go with it until they are closed in the last stage;
\* whatever was skipped, run again or refused before.
OutputsGoToReport ==
    \A p \in Processes :
        pc[p] \in {"load", "stage", "proceed", "prompt"} =>
            /\ lockFile[p] = Report(p) /\ logFile[p] = Report(p)
            /\ stage[p] < LastStage /\ pc[p] # "load" =>
                  errorFile[p] = Report(p) /\ debugFile[p] = Report(p)

\* A lock belongs to a process that is alive, or was left by one that was
\* killed or that was told to end between mkdir and the assignment: however a
\* mode ends, its lock is removed.
LocksHaveOwners ==
    \A r \in locks \ abandoned : \E p \in Processes : Alive(p) /\ r \in Held(p)

\* "Stopping at next stage", "Switching to interactive mode at next stage": no
\* stage ends without a prompt after an interrupt (interrupt_handler).
InterruptStops ==
    [][\A p \in Processes :
          pc[p] = "stage" /\ pc'[p] \in {"proceed", "complete"} => ~pending[p]]_vars
=============================================================================
