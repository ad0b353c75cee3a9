--------------------------- MODULE ModelRegistry ---------------------------
(***************************************************************************)
(* One privacy model and its files: it is downloaded asset by asset into a *)
(* staging directory, paused and resumed over the bytes kept there,        *)
(* verified, published by a rename and deleted, while writes fail and Core *)
(* stops and starts, maybe as another version of the application           *)
(* (core/internal/privacymodel/registry.go, resume.go).                    *)
(*                                                                         *)
(* A plan names the assets of the model with their digests.  A file is the *)
(* sequence of the plans its pieces came from, 0 for a piece damaged on the*)
(* way; assets without a digest in the plan are taken as they come.        *)
(***************************************************************************)
EXTENDS Naturals, FiniteSets, Sequences

CONSTANTS
    Assets, Pieces,     \* how many assets, and how many pieces each has
    Pinned,             \* the assets whose digest the plan holds
    MaxPlan, MaxFaults, MaxCrashes,
    StopsInDeletion     \* Core may stop while a ready model is being deleted

\* What the instances assume of the constants.
RegistryAssumption ==
    /\ Assets \in Nat \ {0} /\ Pieces \in Nat \ {0} /\ MaxPlan \in Nat \ {0}
    /\ Pinned \subseteq 1 .. Assets /\ Pinned # {}
    /\ MaxFaults \in Nat /\ MaxCrashes \in Nat /\ StopsInDeletion \in BOOLEAN

VARIABLES
    plan,       \* the plan this version of the application resolves
    staging,    \* the resume directory
    final,      \* the published directory
    rec,        \* registry.installations and bindings
    stored,     \* the record in the store
    op,         \* registry.operations: the goroutine of a download
    del,        \* where DeleteInstallation stands
    faults, crashes

vars == <<plan, staging, final, rec, stored, op, del, faults, crashes>>

NoRec == [status |-> "none", bytes |-> 0, manifest |-> 0]
Empty == [doc |-> 0, files |-> [a \in 1 .. Assets |-> <<>>], manifest |-> 0]
NoOp == [phase |-> "idle", plan |-> 0, asset |-> 1, cancelled |-> FALSE]
Total == Assets * Pieces
\* How many pieces a directory holds.
Staged(dir) ==
    Cardinality({piece \in (1 .. Assets) \X (1 .. Pieces) : piece[2] <= Len(dir.files[piece[1]])})
Whole(file, p) == file = [i \in 1 .. Pieces |-> p]
Accepted(a, p) == a \notin Pinned \/ Whole(staging.files[a], p)
Fault == faults < MaxFaults /\ faults' = faults + 1

Init ==
    /\ plan = 1 /\ staging = Empty /\ final = Empty
    /\ rec = NoRec /\ stored = NoRec /\ op = NoOp /\ del = "idle"
    /\ faults = 0 /\ crashes = 0

-----------------------------------------------------------------------------
\* Mutant of Resumed: bytes staged for another plan are kept.
ResumedAnyway(p) == [staging EXCEPT !.doc = p, !.manifest = 0]
\* prepareResume: the staged bytes are bound to the exact plan, and a manifest
\* left by an interrupted verification is built again.
Resumed(p) ==
    IF staging.doc = p THEN [staging EXCEPT !.manifest = 0] ELSE [Empty EXCEPT !.doc = p]

\* Install and ResumeInstallation: the files are prepared under the registry's
\* lock, then the record is stored.
Install ==
    /\ op.phase = "idle" /\ del = "idle" /\ rec.status # "ready"
    /\ final' = Empty /\ staging' = Resumed(plan)
    /\ op' = [NoOp EXCEPT !.phase = "preparing", !.plan = plan]
    /\ UNCHANGED <<plan, rec, stored, del, faults, crashes>>

Started ==
    /\ op.phase = "preparing"
    /\ LET next == [status |-> "downloading", bytes |-> Staged(staging), manifest |-> 0]
       IN \/ /\ rec' = next /\ stored' = next
             /\ op' = [op EXCEPT !.phase = "open"]
             /\ UNCHANGED faults
          \/ /\ Fault
             /\ rec' = [rec EXCEPT !.manifest = 0] /\ UNCHANGED stored
             /\ op' = NoOp
    /\ UNCHANGED <<plan, staging, final, del, crashes>>

\* finishDownloadError, whose write may fail.  A download that was stopped is
\* paused.
Ends(status) ==
    /\ rec' = [rec EXCEPT !.status = status, !.manifest = 0]
    /\ \/ stored' = rec' /\ UNCHANGED faults
       \/ Fault /\ UNCHANGED stored
    /\ op' = NoOp
Failed == Ends(IF op.cancelled THEN "paused" ELSE "error")

\* Mutant of Reset: the bytes thrown away stay counted.
ResetUncounted(a) ==
    /\ staging' = [staging EXCEPT !.files[a] = <<>>]
    /\ UNCHANGED rec
Reset(a) ==
    /\ staging' = [staging EXCEPT !.files[a] = <<>>]
    /\ rec' = [rec EXCEPT !.bytes = @ - Len(staging.files[a])]

NextAsset ==
    IF op.asset = Assets THEN [op EXCEPT !.phase = "verify"]
    ELSE [op EXCEPT !.phase = "open", !.asset = @ + 1]

\* downloadAssetOnce looks at what is staged: a whole file that matches is
\* taken, one that does not is fetched anew, a prefix goes on where it ends.
OpenAsset ==
    /\ op.phase = "open"
    /\ IF Len(staging.files[op.asset]) < Pieces
       THEN op' = [op EXCEPT !.phase = "body"] /\ UNCHANGED <<staging, rec, stored>>
       ELSE IF Accepted(op.asset, op.plan)
       THEN /\ op' = NextAsset
            /\ stored' = rec /\ UNCHANGED <<staging, rec>>
       ELSE Reset(op.asset) /\ op' = [op EXCEPT !.phase = "body"] /\ UNCHANGED stored
    /\ UNCHANGED <<plan, final, del, faults, crashes>>

\* A server that ignores the range sends the whole file.
AnsweredWhole ==
    /\ op.phase = "body" /\ staging.files[op.asset] # <<>>
    /\ Fault
    /\ Reset(op.asset)
    /\ UNCHANGED <<plan, final, stored, op, del, crashes>>

Piece ==
    /\ op.phase = "body" /\ Len(staging.files[op.asset]) < Pieces
    /\ \E piece \in {op.plan, 0} :
        /\ IF piece = 0 THEN op.asset \in Pinned /\ Fault ELSE UNCHANGED faults
        /\ staging' = [staging EXCEPT !.files[op.asset] = Append(@, piece)]
        /\ rec' = [rec EXCEPT !.bytes = @ + 1]
    /\ UNCHANGED <<plan, final, stored, op, del, crashes>>

\* The last piece is in: persistProgress, or errAssetIntegrity without a retry.
AssetDone ==
    /\ op.phase = "body" /\ Len(staging.files[op.asset]) = Pieces
    /\ IF Accepted(op.asset, op.plan)
       THEN /\ op' = NextAsset
            /\ stored' = rec /\ UNCHANGED <<staging, rec, faults>>
       ELSE LET status == IF op.cancelled THEN "paused" ELSE "error"
            IN /\ staging' = [staging EXCEPT !.files[op.asset] = <<>>]
               /\ rec' = [rec EXCEPT !.bytes = @ - Pieces, !.status = status]
               /\ \/ stored' = rec' /\ UNCHANGED faults
                  \/ Fault /\ UNCHANGED stored
               /\ op' = NoOp
    /\ UNCHANGED <<plan, final, del, crashes>>

\* The transfer breaks: the prefix is kept for a retry or a later attempt.
Interrupted ==
    /\ op.phase \in {"open", "body"}
    /\ \/ op.cancelled /\ Failed
       \/ /\ ~op.cancelled /\ Fault
          /\ \/ op' = [op EXCEPT !.phase = "open"] /\ UNCHANGED <<rec, stored>>
             \/ rec' = [rec EXCEPT !.status = "error", !.manifest = 0] /\ stored' = rec' /\ op' = NoOp
    /\ UNCHANGED <<plan, staging, final, del, crashes>>

\* The manifest is written and every file is hashed once more.
Verify ==
    /\ op.phase = "verify"
    /\ \/ /\ ~op.cancelled
          /\ staging' = [staging EXCEPT !.manifest = op.plan]
          /\ op' = [op EXCEPT !.phase = "publish"] /\ UNCHANGED <<rec, stored, faults>>
       \/ /\ op.cancelled /\ Failed
          /\ staging' \in {staging, [staging EXCEPT !.manifest = op.plan]}
    /\ UNCHANGED <<plan, final, del, crashes>>

\* The rename, unless the download was stopped before it.
Publish ==
    /\ op.phase = "publish"
    /\ IF op.cancelled THEN Failed /\ UNCHANGED <<staging, final>>
       ELSE /\ final' = staging /\ staging' = Empty
            /\ op' = [op EXCEPT !.phase = "published"] /\ UNCHANGED <<rec, stored, faults>>
    /\ UNCHANGED <<plan, del, crashes>>

\* finishDownloadReady: a record that cannot be stored is an error again.
FinishReady ==
    /\ op.phase = "published"
    /\ final' = [final EXCEPT !.doc = 0]
    /\ op' = NoOp
    /\ LET ready == [status |-> "ready", bytes |-> Total, manifest |-> final.manifest]
           error == [status |-> "error", bytes |-> Total, manifest |-> 0]
       IN \/ rec' = ready /\ stored' = ready /\ UNCHANGED faults
          \/ Fault /\ rec' = error /\ stored' = error
          \/ faults + 2 <= MaxFaults /\ faults' = faults + 2 /\ rec' = error /\ UNCHANGED stored
    /\ UNCHANGED <<plan, staging, del, crashes>>

\* PauseInstallation stops the download and waits for it.
Pause ==
    /\ op.phase \notin {"idle", "preparing"} /\ ~op.cancelled /\ del = "idle"
    /\ op' = [op EXCEPT !.cancelled = TRUE]
    /\ UNCHANGED <<plan, staging, final, rec, stored, del, faults, crashes>>

-----------------------------------------------------------------------------
\* DeleteInstallation marks the model, stops its download and waits for it.
DeleteBegin ==
    /\ del = "idle" /\ rec # NoRec /\ op.phase # "preparing"
    /\ del' = "waiting"
    /\ op' = [op EXCEPT !.cancelled = (op.phase # "idle")]
    /\ UNCHANGED <<plan, staging, final, rec, stored, faults, crashes>>

DeleteInvalidate ==
    /\ del = "waiting" /\ op.phase = "idle"
    /\ rec' = [rec EXCEPT !.status = "error", !.manifest = 0]
    /\ del' = "files"
    /\ UNCHANGED <<plan, staging, final, stored, op, faults, crashes>>

\* A directory is removed entry by entry.
Torn(dir, manifest, kept) ==
    [dir EXCEPT !.manifest = manifest,
                !.files = [a \in 1 .. Assets |-> IF a \in kept THEN dir.files[a] ELSE <<>>]]
DeleteEntries ==
    /\ del = "files"
    /\ \E manifest \in {0, final.manifest}, kept \in SUBSET (1 .. Assets) :
         final' = Torn(final, manifest, kept)
    /\ final' # final
    /\ UNCHANGED <<plan, staging, rec, stored, op, del, faults, crashes>>

DeleteFiles ==
    /\ del = "files"
    /\ final' = Empty /\ staging' = Empty /\ del' = "record"
    /\ UNCHANGED <<plan, rec, stored, op, faults, crashes>>

DeleteRecord ==
    /\ del = "record"
    /\ rec' = NoRec /\ stored' = NoRec /\ del' = "idle"
    /\ UNCHANGED <<plan, staging, final, op, faults, crashes>>

\* persistDeletionFailure: the model is not ready any more, in the store too
\* if the store takes it.
DeleteFails ==
    /\ del \in {"files", "record"} /\ Fault /\ del' = "idle"
    /\ stored' \in {rec, stored}
    /\ UNCHANGED <<plan, staging, final, rec, op, crashes>>

-----------------------------------------------------------------------------
\* loadPersisted: the manifest is compared with the stored one, the assets
\* are not read.
Loaded ==
    IF stored.status = "none" THEN NoRec
    ELSE IF stored.status = "ready"
    THEN IF final.manifest = stored.manifest THEN stored
         ELSE [status |-> "error", bytes |-> Staged(staging), manifest |-> 0]
    ELSE [status |-> IF stored.status = "downloading" THEN "paused" ELSE stored.status,
          bytes |-> Staged(staging), manifest |-> 0]

\* Core stops, and starts as this or a later version; what was staged for a
\* model without a record is removed once it is old.
Crash ==
    /\ crashes < MaxCrashes /\ crashes' = crashes + 1
    /\ StopsInDeletion \/ ~(stored.status = "ready" /\ rec.status = "error")
    /\ plan' \in plan .. MaxPlan
    /\ rec' = Loaded /\ stored' = Loaded
    /\ staging' \in IF stored.status = "none" THEN {staging, Empty} ELSE {staging}
    /\ op' = NoOp /\ del' = "idle"
    /\ UNCHANGED <<final, faults>>

Downloads ==
    Started \/ OpenAsset \/ Piece \/ AssetDone \/ Verify \/ Publish \/ FinishReady
Deletion == DeleteInvalidate \/ DeleteFiles \/ DeleteRecord
Next ==
    \/ Install \/ Downloads \/ AnsweredWhole \/ Interrupted \/ Pause
    \/ DeleteBegin \/ Deletion \/ DeleteEntries \/ DeleteFails
    \/ Crash

Spec == Init /\ [][Next]_vars

-----------------------------------------------------------------------------
\* A download runs over a record that says so, a model that is ready is not
\* being downloaded, and what it counts as downloaded is what is staged.
RegistryInv ==
    /\ rec.status \in {"none", "downloading", "paused", "ready", "error"}
    /\ rec.bytes \in 0 .. Total /\ stored.bytes \in 0 .. Total
    /\ op.phase \in {"open", "body", "verify", "publish"} =>
         rec.status = "downloading" /\ rec.bytes = Staged(staging) /\ staging.doc = op.plan
    /\ op.phase = "idle" /\ del = "idle" => rec.status # "downloading"
    /\ rec = NoRec /\ op.phase = "idle" => stored = NoRec

\* A model reported ready has all its files, each from one plan only: a
\* download resumed after a stop, a damaged piece or an update of the
\* application never leaves a mixture.
ReadyIsWhole ==
    rec.status = "ready" =>
        \E p \in 1 .. MaxPlan :
            /\ final.manifest = p /\ rec.manifest = p
            /\ \A a \in 1 .. Assets : Whole(final.files[a], p)
=============================================================================
