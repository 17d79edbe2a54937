----------------------------- MODULE ModelLists -----------------------------
(***************************************************************************)
(* The list of the devices of each model: CModel::firstDevice_p and        *)
(* CDevice::nextDevice_p.  SetDeviceModels (CCvcDb_init.cc) builds it when *)
(* a mode starts, and again for the commands setmodel and setpower at the  *)
(* prompt of stage 1.  The models belong to the model file, which is read  *)
(* for each mode; the devices belong to the database, which the next mode  *)
(* reuses if its netlist is the same.                                      *)
(*                                                                         *)
(* What a model file says is reduced to match: the model that FindModel    *)
(* returns for each device, NULL if there is none or it is invalid.        *)
(***************************************************************************)
EXTENDS Naturals, FiniteSets

CONSTANTS
    DeviceCount,
    Models,
    NULL             \* neither a device nor a model, nor a map

ASSUME DeviceCountAssumption == DeviceCount \in Nat /\ NULL \notin Nat
ASSUME ModelsAssumption == NULL \notin Models

\* Numbered in the order of the loops of SetDeviceModels.
Devices == 1 .. DeviceCount
Matches == [Devices -> Models \cup {NULL}]
Unmatched == [d \in Devices |-> NULL]
NoDevice == [m \in Models |-> NULL]

ASSUME MatchesAssumption == NULL \notin Matches

VARIABLES
    interactive,       \* gInteractive_cvc, as the option -i sets it
    modelsVary,        \* may a mode that reuses the database have other models?
    match,             \* cvcModelListMap
    firstDevice_p,
    model_p,
    nextDevice_p,
    freed,             \* devices whose model_p points into a map that was cleared
    modelFileStatus,
    matched,           \* the map SetDeviceModels saw first with this database
    stage              \* setup, database, models, start (the prompt), run

flags == <<interactive, modelsVary>>
vars == <<flags, match, firstDevice_p, model_p, nextDevice_p, freed, modelFileStatus, matched, stage>>

Init ==
    /\ interactive \in BOOLEAN /\ modelsVary \in BOOLEAN
    /\ match = Unmatched /\ firstDevice_p = NoDevice
    /\ model_p = Unmatched /\ nextDevice_p = Unmatched
    /\ freed = {}
    /\ modelFileStatus = "UNKNOWN"
    /\ matched = NULL
    /\ stage = "setup"

-----------------------------------------------------------------------------

\* A model file: read to the end, read except for lines in error, not opened.
Reads(file, status) ==
    \/ status \in {"OK", "SKIP"}
    \/ status = "FAIL" /\ file = Unmatched

\* What CModelListMap::Clear does to the devices.
Cleared == {d \in Devices : model_p[d] # NULL}

\* Mutant: the first device of a model stays first.
LinkedAppend(first, file) ==
    LET link[k \in 0 .. DeviceCount] ==
            IF k = 0 THEN [first |-> first, next |-> nextDevice_p]
            ELSE LET l == link[k - 1]
                 IN  IF file[k] = NULL THEN l
                     ELSE [first |-> IF l.first[file[k]] = NULL
                                       THEN [l.first EXCEPT ![file[k]] = k] ELSE l.first,
                           next |-> IF l.first[file[k]] = NULL THEN l.next
                                    ELSE [l.next EXCEPT ![k] = l.first[file[k]]]]
    IN  link[DeviceCount]

\* A device in the loops of SetDeviceModels: it goes to the front of the list of
\* its model.  The next device of the first one is not written.
LinkDevice(file, k, l) ==
    LET old == l.first[file[k]]
    IN  IF file[k] = NULL THEN l
        ELSE [first |-> [l.first EXCEPT ![file[k]] = k],
              next |-> IF old = NULL THEN l.next ELSE [l.next EXCEPT ![k] = old]]

\* The loops of SetDeviceModels.
Linked(first, file) ==
    LET link[k \in 0 .. DeviceCount] ==
            IF k = 0 THEN [first |-> first, next |-> nextDevice_p]
            ELSE LinkDevice(file, k, link[k - 1])
    IN  link[DeviceCount]

\* SetDeviceModels.  It also fails for a mos used as a fuse whose source is not
\* its drain, and for voltage tolerances that are not defined.
SetDeviceModels(first, file, status) ==
    LET l == Linked(first, file)
    IN  /\ status \in {"OK", "FAIL"}
        /\ status = "OK" => \A d \in Devices : file[d] # NULL
        /\ model_p' = file
        /\ firstDevice_p' = l.first
        /\ nextDevice_p' = l.next
        /\ freed' = {}
        /\ modelFileStatus' = status
        /\ matched' = IF matched = NULL THEN file ELSE matched

\* LoadModels of VerifyCircuitForAllModes.  Without a prompt the mode is
\* skipped if its model or power file has errors.
LoadModels(file, status, powerOk) ==
    /\ stage = "setup"
    /\ Reads(file, status)
    /\ match' = file
    /\ firstDevice_p' = NoDevice
    /\ freed' = Cleared
    /\ modelFileStatus' = status
    /\ stage' = IF interactive \/ (status = "OK" /\ powerOk) THEN "database" ELSE "setup"
    /\ UNCHANGED <<flags, model_p, nextDevice_p, matched>>

\* IsSameDatabase.
ReuseDatabase ==
    /\ stage = "database" /\ matched # NULL
    /\ modelsVary \/ match = matched
    /\ stage' = "models"
    /\ UNCHANGED <<flags, match, firstDevice_p, model_p, nextDevice_p, freed, modelFileStatus,
                   matched>>

\* The parser makes new devices.
ReadDatabase ==
    /\ stage = "database"
    /\ model_p' = Unmatched /\ nextDevice_p' = Unmatched
    /\ freed' = {}
    /\ matched' = NULL
    /\ stage' = "models"
    /\ UNCHANGED <<flags, match, firstDevice_p, modelFileStatus>>

SetModels(status) ==
    /\ stage = "models"
    /\ IF modelFileStatus = "OK"
         THEN SetDeviceModels(firstDevice_p, match, status)
         ELSE /\ status = "FAIL"
              /\ UNCHANGED <<firstDevice_p, model_p, nextDevice_p, freed, modelFileStatus, matched>>
    /\ stage' = "start"
    /\ UNCHANGED <<flags, match>>

\* Mutant: the status of the file is forgotten.
SetModelCommandIgnoresStatus(file, read, status) ==
    /\ stage = "start" /\ interactive
    /\ Reads(file, read)
    /\ match' = file
    /\ IF read = "OK" THEN SetDeviceModels(NoDevice, file, status)
         ELSE /\ status = read
              /\ firstDevice_p' = NoDevice
              /\ freed' = Cleared
              /\ UNCHANGED <<model_p, nextDevice_p, modelFileStatus, matched>>
    /\ UNCHANGED <<flags, stage>>

\* setmodel
SetModelCommand(file, read, status) ==
    /\ stage = "start" /\ interactive
    /\ Reads(file, read)
    /\ match' = file
    /\ IF read = "OK" THEN SetDeviceModels(NoDevice, file, status)
         ELSE /\ status = read
              /\ firstDevice_p' = NoDevice
              /\ freed' = Cleared
              /\ modelFileStatus' = status
              /\ UNCHANGED <<model_p, nextDevice_p, matched>>
    /\ UNCHANGED <<flags, stage>>

\* setpower, with a power file that can be read.  The models are set again
\* although they have not been read again.
SetPowerCommand(status) ==
    /\ stage = "start" /\ interactive
    /\ SetDeviceModels(firstDevice_p, match, status)
    /\ UNCHANGED <<flags, match, stage>>

\* From here on the lists are walked, by model.
Run ==
    /\ stage = "start" /\ modelFileStatus = "OK"
    /\ stage' = "run"
    /\ UNCHANGED <<flags, match, firstDevice_p, model_p, nextDevice_p, freed, modelFileStatus,
                   matched>>

\* The mode is over, or skipped at stage 1.
NextMode ==
    /\ stage \in {"start", "run"}
    /\ stage' = "setup"
    /\ UNCHANGED <<flags, match, firstDevice_p, model_p, nextDevice_p, freed, modelFileStatus,
                   matched>>

Status == {"OK", "SKIP", "FAIL"}

Next ==
    \/ \E file \in Matches, status \in Status, powerOk \in BOOLEAN :
          LoadModels(file, status, powerOk)
    \/ ReuseDatabase \/ ReadDatabase
    \/ \E status \in Status : SetModels(status) \/ SetPowerCommand(status)
    \/ \E file \in Matches, read, status \in Status : SetModelCommand(file, read, status)
    \/ Run \/ NextMode

Spec == Init /\ [][Next]_vars

-----------------------------------------------------------------------------
(* Properties.                                                             *)

\* The device a walk along nextDevice_p is at after n steps.
After(d, n) ==
    LET at[k \in 0 .. DeviceCount] ==
            IF k = 0 THEN d ELSE IF at[k - 1] = NULL THEN NULL ELSE nextDevice_p[at[k - 1]]
    IN  at[n]

\* The checks that go through the devices of a model (SetEquivalentNets,
\* FindAllOverVoltageErrors, FindLDDErrors, DumpFuses) see each device of that
\* model once, no other one, and come to an end; without a prompt, and with the
\* same models in every mode that reuses the database.
ListsExact ==
    stage = "run" /\ ~interactive /\ ~modelsVary =>
        \A m \in Models :
            LET seen == {After(firstDevice_p[m], k) : k \in 0 .. DeviceCount} \ {NULL}
            IN  /\ seen = {d \in Devices : model_p[d] = m}
                /\ After(firstDevice_p[m], Cardinality(seen)) = NULL

\* With modelFileStatus OK, which is what the commands that print devices and
\* the stages after the first test, no device has a model that was deleted
\* with an earlier model map.
ModelsAreCurrent ==
    stage \in {"start", "run"} /\ modelFileStatus = "OK" => freed = {} /\ model_p = match

\* CDevice.hh 47: "next device of the same model"; without a prompt.
NextIsSameModel ==
    stage = "run" /\ ~interactive =>
        \A d \in Devices : nextDevice_p[d] # NULL => model_p[nextDevice_p[d]] = model_p[d]
=============================================================================
