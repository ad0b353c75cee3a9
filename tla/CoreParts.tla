----------------------------- MODULE CoreParts -----------------------------
(***************************************************************************)
(* The parts of Core that keep to themselves, side by side: the worker that*)
(* inspects with the privacy models, the files of a model and the sealed   *)
(* raw parts.  They share no state, and their steps interleave.            *)
(***************************************************************************)
EXTENDS PrivacyWorker

CONSTANTS
    \* ModelRegistry
    Assets, Pieces, Pinned, MaxPlan, MaxFileFaults, MaxFileCrashes, StopsInDeletion,
    \* RawSealing
    Part, MaxCaptures, MaxKeys, MaxFaults, MaxCrashes

VARIABLES
    \* ModelRegistry
    plan, staging, final, rec, recorded, op, del, fileFaults, fileCrashes,
    \* RawSealing
    parts, request, key, cached, keyChange, settle, deferred, asked, pass, missed,
    starting, keys, faults, crashes

Files == INSTANCE ModelRegistry WITH
    MaxFaults <- MaxFileFaults, MaxCrashes <- MaxFileCrashes,
    stored <- recorded, faults <- fileFaults, crashes <- fileCrashes

Raw == INSTANCE RawSealing

ASSUME CoreAssumption ==
    WorkerAssumption /\ Files!RegistryAssumption /\ Raw!SealingAssumption

workerVars == vars
fileVars == <<plan, staging, final, rec, recorded, op, del, fileFaults, fileCrashes>>
rawVars ==
    <<parts, request, key, cached, keyChange, settle, deferred, asked, pass, missed, starting,
      keys, faults, crashes>>
coreVars == <<workerVars, fileVars, rawVars>>

CoreInit == Init /\ Files!Init /\ Raw!Init

\* One part takes a step of its own.
WorkerSteps == Next /\ UNCHANGED <<fileVars, rawVars>>
FilesStep == Files!Next /\ UNCHANGED <<workerVars, rawVars>>
RawSteps == Raw!Next /\ UNCHANGED <<workerVars, fileVars>>
CoreNext == WorkerSteps \/ FilesStep \/ RawSteps

CoreSpec == CoreInit /\ [][CoreNext]_coreVars

-----------------------------------------------------------------------------
\* The properties of the parts, each of which is stated in its module, as is
\* RefusedForCause.
\* What the parts that serve the privacy models keep among themselves.
ModelsInv == Files!RegistryInv /\ WorkerInv
ReadyIsWhole == Files!ReadyIsWhole
SealingInv == Raw!SealingInv
RawIsNotLeftUnderAudit == Raw!RawIsNotLeftUnderAudit
RawIsSticky == Raw!RawIsSticky
EndedIsSettled == Raw!EndedIsSettled
=============================================================================
