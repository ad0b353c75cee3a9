----------------------------- MODULE SyncEngine -----------------------------
(***************************************************************************)
(* The configuration sync of several devices through shared stores:        *)
(* core/internal/sync, engine.go and local.go, with the tables it uses     *)
(* (core/internal/storage/sqlite, sync_store.go, sync_apply.go and         *)
(* sync_entities.go) and the triggers that fill the change log.            *)
(*                                                                         *)
(* A run of syncOnce is a sequence of steps: between two of them the user  *)
(* may save, another device may write the package, the lease may lapse,    *)
(* the settings may change and the process may stop.                       *)
(***************************************************************************)
EXTENDS SyncMerge, FiniteSets

CONSTANTS
    Device,        \* the devices
    Store,         \* the remote locations a device may be pointed at
    Scope,         \* the entities each device's settings select
    Seeded,        \* the entities an installation starts with
    Late,          \* the devices that are installed while the others are in use
    FirstStore,    \* the store every device is first configured with
    SaveWhileRunning, \* whether the user also saves while a run is under way
    MaxAttempts,   \* maxWriteAttempts
    Retention,     \* tombstoneRetention, in ticks of the clock
    MaxTime,       \* bound of the model on the clock
    MaxEdits,      \* bound of the model on the user's saves and deletions
    MaxSettings,   \* bound of the model on the user's settings saves
    FaultKind,     \* the faults that happen: "apply", "answer", "stop", "overrun"
    MaxFaults      \* bound of the model on how many happen

ASSUME EngineAssumption ==
    /\ IsFiniteSet(Device) /\ "nobody" \notin Device /\ "none" \notin Store
    /\ Scope \in [Device -> SUBSET Entity]
    /\ Seeded \subseteq Entity /\ Late \subseteq Device
    /\ FirstStore \in Store
    /\ SaveWhileRunning \in BOOLEAN
    /\ FaultKind \subseteq {"apply", "answer", "stop", "overrun"}
    /\ MaxAttempts \in Nat \ {0} /\ Retention \in Nat
    /\ MaxTime \in Nat /\ MaxEdits \in Nat /\ MaxSettings \in Nat /\ MaxFaults \in Nat

\* A group is selected whole: no scope has an entity without its owner (inScope).
\* Nor does an installation seed an entity without its owner.
ASSUME ScopeAssumption ==
    /\ \A d \in Device : \A e \in Scope[d] : Owner[e] \in Scope[d]
    /\ \A e \in Seeded : Owner[e] \in Seeded

VARIABLES
    now,       \* the clock every stamp is taken from
    edits,     \* how many changes the users made; a change's number is its content
    settings,  \* how many settings saves the users made
    faults,    \* how many faults happened
    rows,      \* rows[d][e]: the stored row, with its updated_at
    log,       \* log[d][e]: the newest config_change_log stamp, 0 for none
    tomb,      \* tomb[d][e]: the sync_tombstone stamp, 0 for none
    base,      \* base[d]: sync_baseline, the package this device last stored
    pin,       \* sync_state.remote_identity
    config,    \* sync_state: the store, force_push and its generation
    owed,      \* history: a force push was armed that no run has carried out yet
    resetDue,  \* Configure has stored a new remote and not yet dropped the base
    package,   \* package[s]: the object at a store and its entity tag, 0 when absent
    holder,    \* holder[s]: the device whose unexpired lock is at the store
    run        \* run[d]: the run under way on a device

settingsVars == <<settings, config, owed, resetDue>>
tableVars == <<rows, log, tomb>>
baseVars == <<base, pin>>
remoteVars == <<package, holder>>
vars == <<now, edits, faults, settingsVars, tableVars, baseVars, remoteVars, run>>

-----------------------------------------------------------------------------
\* A stored merge base; from is a history field, the store it was exchanged with.
NoBase == [has |-> FALSE, doc |-> EmptyDocument, from |-> "none"]
Base == [has : BOOLEAN, doc : Document, from : Store \cup {"none"}]

Idle == [pc |-> "idle", store |-> FirstStore, force |-> FALSE, gen |-> 0,
         base |-> NoBase, since |-> 0,
         seen |-> EmptyDocument, tag |-> 0, local |-> EmptyDocument,
         merged |-> EmptyDocument, attempt |-> 0]

\* The stages of syncOnce, forcePush and finish, each named for what comes next.
PC == {"uninstalled", "idle", "load", "read", "local", "apply", "write",
       "baseline", "record", "clear", "consume"}

Tag == 0..(Cardinality(Device) + 1)

Run == [pc : PC, store : Store, force : BOOLEAN, gen : Nat,
        base : Base, since : Nat, seen : Document, tag : Tag,
        local : Document, merged : Document, attempt : Nat]

TypeOK ==
    /\ now \in Nat /\ edits \in Nat /\ settings \in Nat /\ faults \in Nat
    /\ rows \in [Device -> Document]
    /\ log \in [Device -> [Entity -> Nat]]
    /\ tomb \in [Device -> [Entity -> Nat]]
    /\ base \in [Device -> Base]
    /\ pin \in [Device -> Store \cup {"none"}]
    /\ config \in [Device -> [store : Store, force : BOOLEAN, gen : Nat]]
    /\ owed \in [Device -> BOOLEAN] /\ resetDue \in [Device -> BOOLEAN]
    /\ package \in [Store -> [doc : Document, tag : Tag]]
    /\ holder \in [Store -> Device \cup {"nobody"}]
    /\ run \in [Device -> Run]

\* An installation seeds some rows, the same content on every device, stamped
\* with its own time, and leaves them out of the change log.
SeededRows(t) == [e \in Entity |-> IF e \in Seeded THEN Live(0, t) ELSE Absent]

Init ==
    /\ now = 1 /\ edits = 0 /\ settings = 0 /\ faults = 0
    /\ rows = [d \in Device |-> IF d \in Late THEN EmptyDocument ELSE SeededRows(1)]
    /\ log = [d \in Device |-> [e \in Entity |-> 0]]
    /\ tomb = [d \in Device |-> [e \in Entity |-> 0]]
    /\ base = [d \in Device |-> NoBase]
    /\ pin = [d \in Device |-> "none"]
    /\ config = [d \in Device |-> [store |-> FirstStore, force |-> FALSE, gen |-> 0]]
    /\ owed = [d \in Device |-> FALSE] /\ resetDue = [d \in Device |-> FALSE]
    /\ package = [s \in Store |-> [doc |-> EmptyDocument, tag |-> 0]]
    /\ holder = [s \in Store |-> "nobody"]
    /\ run = [d \in Device |-> IF d \in Late THEN [Idle EXCEPT !.pc = "uninstalled"] ELSE Idle]

Install(d) ==
    /\ run[d].pc = "uninstalled" /\ now < MaxTime
    /\ now' = now + 1
    /\ rows' = [rows EXCEPT ![d] = SeededRows(now + 1)]
    /\ run' = [run EXCEPT ![d] = Idle]
    /\ UNCHANGED <<edits, faults, log, tomb, settingsVars, baseVars, remoteVars>>

-----------------------------------------------------------------------------
(* The user's own changes, through the ordinary API: every insert, update   *)
(* and delete of a row fires the trigger that stamps the change log.        *)

HoldsRow(d, e) == IsLive(rows[d][e])

\* The rows that go with e: deleting a service cascades to what it owns.
Cascade(e) == {f \in Entity : f = e \/ Owner[f] = e}

UserMayChange(d) ==
    /\ run[d].pc # "uninstalled" /\ edits < MaxEdits /\ now < MaxTime
    /\ SaveWhileRunning \/ \A x \in Device : run[x].pc \in {"uninstalled", "idle"}

Save(d, e) ==
    /\ UserMayChange(d)
    /\ Owner[e] = e \/ HoldsRow(d, Owner[e])
    /\ now' = now + 1 /\ edits' = edits + 1
    /\ rows' = [rows EXCEPT ![d][e] = Live(edits + 1, now + 1)]
    /\ log' = [log EXCEPT ![d][e] = now + 1]
    /\ UNCHANGED <<faults, tomb, settingsVars, baseVars, remoteVars, run>>

\* The seeded policy is part of the product and cannot be deleted.
Delete(d, e) ==
    /\ UserMayChange(d)
    /\ HoldsRow(d, e) /\ e \notin Seeded
    /\ now' = now + 1 /\ edits' = edits + 1
    /\ LET gone == {f \in Cascade(e) : HoldsRow(d, f)}
       IN  /\ rows' = [rows EXCEPT ![d] = [f \in Entity |-> IF f \in gone THEN Absent ELSE @[f]]]
           /\ log' = [log EXCEPT ![d] = [f \in Entity |-> IF f \in gone THEN now + 1 ELSE @[f]]]
    /\ UNCHANGED <<faults, tomb, settingsVars, baseVars, remoteVars, run>>

-----------------------------------------------------------------------------
(* Settings.  Configure stores the settings and then, in a statement of its *)
(* own, drops the merge base when the remote changed.                       *)

SettingsAllowed(d) == run[d].pc # "uninstalled" /\ settings < MaxSettings /\ ~resetDue[d]

\* UpdateSyncConfig counts a new force push: newly armed, or armed at a new remote.
UpdateSyncConfig(d, store, force) ==
    config' = [config EXCEPT ![d] =
        [store |-> store, force |-> force,
         gen |-> IF force /\ (~@.force \/ @.store # store) THEN @.gen + 1 ELSE @.gen]]

Configure(d, store, force) ==
    /\ SettingsAllowed(d)
    /\ settings' = settings + 1
    /\ <<store, force>> # <<config[d].store, config[d].force>>
    /\ UpdateSyncConfig(d, store, force)
    /\ owed' = [owed EXCEPT ![d] = force /\ (@ \/ config'[d].gen # config[d].gen)]
    /\ resetDue' = [resetDue EXCEPT ![d] = store # config[d].store]
    /\ UNCHANGED <<now, edits, faults, tableVars, baseVars, remoteVars, run>>

ConfigureReset(d) ==
    /\ resetDue[d]
    /\ resetDue' = [resetDue EXCEPT ![d] = FALSE]
    /\ base' = [base EXCEPT ![d] = NoBase]
    /\ UNCHANGED <<now, edits, faults, settings, config, owed, tableVars, pin, remoteVars, run>>

-----------------------------------------------------------------------------
(* The local half of a package.                                             *)

\* entityTimes: what a service owns is never older than the service.
EntityTime(d, e) ==
    IF rows[d][Owner[e]].at > rows[d][e].at THEN rows[d][Owner[e]].at ELSE rows[d][e].at

\* reconcileDeletions: a logged change up to the snapshot, of a row that is gone
\* and has no tombstone yet, becomes a tombstone with the change's time.
ReconciledTomb(d, since) ==
    [e \in Entity |->
        IF e \in Scope[d] /\ ~HoldsRow(d, e) /\ tomb[d][e] = 0 /\ log[d][e] <= since
          THEN log[d][e] ELSE tomb[d][e]]

localDocument(d, since) ==
    [e \in Entity |->
        CASE e \notin Scope[d] -> Absent
          [] e \in Scope[d] /\ HoldsRow(d, e) -> Live(rows[d][e].val, EntityTime(d, e))
          [] e \in Scope[d] /\ ~HoldsRow(d, e) /\ ReconciledTomb(d, since)[e] # 0
               -> Gone(ReconciledTomb(d, since)[e])
          [] OTHER -> Absent]

changedEntities(d) == {e \in Entity : log[d][e] # 0}

-----------------------------------------------------------------------------
(* One run.                                                                 *)

Running(d, where) == run[d].pc = where

MayFail(kind) == kind \in FaultKind /\ faults < MaxFaults

\* The deferred Release drops the lock if it is still this device's.
Return(d) ==
    /\ run' = [run EXCEPT ![d] = Idle]
    /\ holder' = [holder EXCEPT ![run[d].store] = IF @ = d THEN "nobody" ELSE @]

\* Mutant of RemoteChanged: the new remote is pinned and the base kept.
RemoteChangedKeepsBase(d) ==
    /\ Running(d, "idle")
    /\ pin[d] # "none" /\ pin[d] # config[d].store
    /\ pin' = [pin EXCEPT ![d] = config[d].store]
    /\ UNCHANGED <<now, edits, faults, settingsVars, tableVars, base, remoteVars, run>>

\* The configured remote is not the pinned one: forget the base, pin it, report.
RemoteChanged(d) ==
    /\ Running(d, "idle")
    /\ pin[d] # "none" /\ pin[d] # config[d].store
    /\ base' = [base EXCEPT ![d] = NoBase]
    /\ pin' = [pin EXCEPT ![d] = config[d].store]
    /\ UNCHANGED <<now, edits, faults, settingsVars, tableVars, remoteVars, run>>

\* SyncState is read and the remote lock taken.  A run that finds another
\* device's lock ends with ErrBusy and changes nothing.
Start(d) ==
    /\ Running(d, "idle")
    /\ pin[d] \in {"none", config[d].store}
    /\ holder[config[d].store] \in {"nobody", d}
    /\ holder' = [holder EXCEPT ![config[d].store] = d]
    /\ run' = [run EXCEPT ![d] = [Idle EXCEPT !.pc = "load", !.store = config[d].store,
                                  !.force = config[d].force, !.gen = config[d].gen]]
    /\ UNCHANGED <<now, edits, faults, settingsVars, tableVars, baseVars, package>>

\* The baseline is read and snapshotAt taken; a force push also takes its
\* local document here, once for all its attempts.
Load(d) ==
    /\ Running(d, "load")
    /\ run' = [run EXCEPT ![d].pc = "read", ![d].base = base[d], ![d].since = now,
                          ![d].local = IF run[d].force THEN localDocument(d, now) ELSE @]
    /\ tomb' = IF run[d].force THEN [tomb EXCEPT ![d] = ReconciledTomb(d, now)] ELSE tomb
    /\ UNCHANGED <<now, edits, faults, settingsVars, rows, log, baseVars, remoteVars>>

\* target.Read: the package and its entity tag.
ReadRemote(d) ==
    /\ Running(d, "read") /\ ~run[d].force
    /\ LET stored == package[run[d].store]
       IN  run' = [run EXCEPT ![d].pc = "local", ![d].seen = stored.doc, ![d].tag = stored.tag]
    /\ UNCHANGED <<now, edits, faults, settingsVars, tableVars, baseVars, remoteVars>>

\* The local document is built and merged with the base and the remote.
MergeLocal(d) ==
    /\ Running(d, "local")
    /\ LET r == run[d]
           kinds == Scope[d]
           local == localDocument(d, r.since)
           merged == Merge(restrict(r.base.doc, kinds), local, restrict(r.seen, kinds),
                           ~r.base.has, changedEntities(d))
       IN  run' = [run EXCEPT ![d].pc = "apply", ![d].local = local,
                     ![d].merged = pruneOrphans(carryThrough(merged, kinds, r.base.doc, r.seen))]
    /\ tomb' = [tomb EXCEPT ![d] = ReconciledTomb(d, run[d].since)]
    /\ UNCHANGED <<now, edits, faults, settingsVars, rows, log, baseVars, remoteVars>>

\* forcePush publishes the local document; only the other kinds are carried.
ForceRead(d) ==
    /\ Running(d, "read") /\ run[d].force
    /\ LET r == run[d]
           kinds == Scope[d]
           stored == package[r.store]
       IN  run' = [run EXCEPT ![d].pc = "write", ![d].seen = stored.doc, ![d].tag = stored.tag,
                     ![d].merged = pruneOrphans(carryThrough(restrict(r.local, kinds), kinds,
                                                             r.base.doc, stored.doc))]
    /\ UNCHANGED <<now, edits, faults, settingsVars, tableVars, baseVars, remoteVars>>

-----------------------------------------------------------------------------
(* apply: the merge result is written into the tables, entity by entity.    *)

Kept(d) == {e \in Scope[d] : IsLive(run[d].merged[e])}

\* A row that already holds the merged content is left alone.
Rewritten(d) == {e \in Kept(d) : ~HoldsRow(d, e) \/ rows[d][e].val # run[d].merged[e].val}

\* Mutant of Dropped: what the merge did not keep is left in the tables.
DroppedNever(d) == {}

Dropped(d) == {e \in Scope[d] : HoldsRow(d, e) /\ e \notin Kept(d)}

\* Deleting a service removes what it owns; the seeded policy stays.
Removed(d, done) ==
    {e \in Entity : HoldsRow(d, e) /\ \E f \in (Dropped(d) \cap done) \ Seeded : e \in Cascade(f)}

\* SyncBindCredentialRefs rewrites the services whose credentials came or went.
Rebound(d) ==
    {o \in Entity : \E e \in Entity \ {o} : Owner[e] = o
                     /\ e \in (Rewritten(d) \cup Removed(d, Entity))
                     /\ o \notin Removed(d, Entity) /\ (HoldsRow(d, o) \/ o \in Kept(d))}

\* The entities in done are written or deleted, every write stamped with the
\* device's own clock; touched are the rows whose change the triggers log.
ApplyTo(d, done, touched) ==
    LET written == Rewritten(d) \cap done
        removed == Removed(d, done)
        at == IF touched = {} THEN now ELSE now + 1
    IN  /\ at <= MaxTime /\ now' = at
        /\ rows' = [rows EXCEPT ![d] = [e \in Entity |->
               CASE e \in written -> Live(run[d].merged[e].val, at)
                 [] e \in removed \ written -> Absent
                 [] OTHER -> @[e]]]
        /\ log' = [log EXCEPT ![d] = [e \in Entity |-> IF e \in touched THEN at ELSE @[e]]]
        /\ tomb' = [tomb EXCEPT ![d] = [e \in Entity |->
               CASE e \in Kept(d) \cap done -> 0
                 [] e \in Dropped(d) \cap done -> at
                 [] OTHER -> @[e]]]

Apply(d) ==
    /\ Running(d, "apply")
    /\ ApplyTo(d, Entity, Rewritten(d) \cup Removed(d, Entity) \cup Rebound(d))
    /\ run' = [run EXCEPT ![d].pc = "write", ![d].local = EmptyDocument]
    /\ UNCHANGED <<edits, faults, settingsVars, baseVars, remoteVars>>

\* The order of apply: owners before what they own, writes before deletions.
ApplyPrefix(d, done) ==
    /\ \A e \in Kept(d) \cap done : Owner[e] \in done
    /\ Dropped(d) \cap done # {} => Kept(d) \subseteq done

\* The process stops inside apply, or a statement fails and the run ends.
StopInApply(d, done) ==
    /\ Running(d, "apply") /\ MayFail("apply")
    /\ done # {} /\ ApplyPrefix(d, done)
    /\ ApplyTo(d, done, (Rewritten(d) \cap done) \cup Removed(d, done))
    /\ faults' = faults + 1
    /\ run' = [run EXCEPT ![d] = Idle]
    /\ UNCHANGED <<edits, settingsVars, baseVars, remoteVars>>

-----------------------------------------------------------------------------
(* The conditional write and what follows it.                               *)

\* Mutant of Current: the package is written without its condition.
CurrentUnchecked(d) == TRUE

Current(d) == run[d].tag = package[run[d].store].tag

\* A tag nobody holds; a store never hands out the same entity tag twice.
FreshTag(d, t) ==
    LET unused == {u \in Tag \ {0} : u # package[run[d].store].tag
                                     /\ \A x \in Device : u # run[x].tag}
    IN  t \in unused /\ \A u \in unused : t <= u

StorePackage(d) ==
    \E t \in Tag : /\ FreshTag(d, t)
                   /\ package' = [package EXCEPT ![run[d].store] = [doc |-> run[d].merged, tag |-> t]]
                   /\ owed' = [owed EXCEPT ![d] = @ /\ ~(run[d].force /\ run[d].gen = config[d].gen)]

Write(d) ==
    /\ Running(d, "write") /\ Current(d)
    /\ StorePackage(d)
    /\ run' = [run EXCEPT ![d] = [Idle EXCEPT !.pc = "baseline", !.store = run[d].store,
                     !.force = run[d].force, !.gen = run[d].gen, !.since = run[d].since,
                     !.merged = run[d].merged]]
    /\ UNCHANGED <<now, edits, faults, settings, config, resetDue, tableVars, baseVars, holder>>

\* The store applied the write and the answer was lost: the run ends in error.
WriteAnswerLost(d) ==
    /\ Running(d, "write") /\ Current(d) /\ MayFail("answer")
    /\ StorePackage(d)
    /\ faults' = faults + 1
    /\ Return(d)
    /\ UNCHANGED <<now, edits, settings, config, resetDue, tableVars, baseVars>>

\* Mutant of WriteRefused: only the tag is read again, and the old merge written.
WriteRefusedRetagged(d) ==
    /\ Running(d, "write") /\ ~Current(d)
    /\ \/ /\ run[d].attempt + 1 < MaxAttempts
          /\ run' = [run EXCEPT ![d].attempt = @ + 1, ![d].tag = package[run[d].store].tag]
          /\ UNCHANGED holder
       \/ run[d].attempt + 1 = MaxAttempts /\ Return(d)
    /\ UNCHANGED <<now, edits, faults, settingsVars, tableVars, baseVars, package>>

\* ErrPrecondition: read again, unless the attempts are used up.
WriteRefused(d) ==
    /\ Running(d, "write") /\ ~Current(d)
    /\ \/ /\ run[d].attempt + 1 < MaxAttempts
          /\ run' = [run EXCEPT ![d].pc = "read", ![d].attempt = @ + 1, ![d].tag = 0,
                                ![d].seen = EmptyDocument, ![d].merged = EmptyDocument]
          /\ UNCHANGED holder
       \/ run[d].attempt + 1 = MaxAttempts /\ Return(d)
    /\ UNCHANGED <<now, edits, faults, settingsVars, tableVars, baseVars, package>>

\* finish is a sequence of statements, each committed by itself.
PutBaseline(d) ==
    /\ Running(d, "baseline")
    /\ base' = [base EXCEPT ![d] = [has |-> TRUE, doc |-> run[d].merged, from |-> run[d].store]]
    /\ run' = [run EXCEPT ![d].pc = "record"]
    /\ UNCHANGED <<now, edits, faults, settingsVars, tableVars, pin, remoteVars>>

RecordSyncResult(d) ==
    /\ Running(d, "record")
    /\ pin' = [pin EXCEPT ![d] = run[d].store]
    /\ run' = [run EXCEPT ![d].pc = "clear"]
    /\ UNCHANGED <<now, edits, faults, settingsVars, tableVars, base, remoteVars>>

\* Mutant of ClearChanges: the whole change log is cleared.
ClearChangesAll(d) ==
    /\ Running(d, "clear")
    /\ log' = [log EXCEPT ![d] = [e \in Entity |-> 0]]
    /\ Return(d)
    /\ UNCHANGED <<now, edits, faults, settingsVars, rows, tomb, baseVars, package>>

\* ClearChangesThrough, and the tombstones past their retention.
ClearChanges(d) ==
    /\ Running(d, "clear")
    /\ log' = [log EXCEPT ![d] = [e \in Entity |-> IF @[e] <= run[d].since THEN 0 ELSE @[e]]]
    /\ tomb' = [tomb EXCEPT ![d] =
           [e \in Entity |-> IF @[e] + Retention < run[d].since THEN 0 ELSE @[e]]]
    /\ \/ run[d].force /\ run' = [run EXCEPT ![d].pc = "consume"] /\ UNCHANGED holder
       \/ ~run[d].force /\ Return(d)
    /\ UNCHANGED <<now, edits, faults, settingsVars, rows, baseVars, package>>

\* Mutant of ConsumeForcePush: whatever is armed now is disarmed.
ConsumeForcePushAny(d) ==
    /\ Running(d, "consume")
    /\ config' = [config EXCEPT ![d].force = FALSE]
    /\ Return(d)
    /\ UNCHANGED <<now, edits, faults, settings, owed, resetDue, tableVars, baseVars, package>>

\* ConsumeForcePush disarms only the generation the run observed.
ConsumeForcePush(d) ==
    /\ Running(d, "consume")
    /\ config' = [config EXCEPT ![d].force = @ /\ config[d].gen # run[d].gen]
    /\ Return(d)
    /\ UNCHANGED <<now, edits, faults, settings, owed, resetDue, tableVars, baseVars, package>>

-----------------------------------------------------------------------------
\* The process stops, or a request or statement fails and the run ends early;
\* a lock left behind lapses.
Stop(d) ==
    /\ MayFail("stop")
    /\ run[d].pc \notin {"uninstalled", "idle"} \/ resetDue[d]
    /\ faults' = faults + 1
    /\ run' = [run EXCEPT ![d] = Idle]
    /\ resetDue' = [resetDue EXCEPT ![d] = FALSE]
    /\ UNCHANGED <<now, edits, settings, config, owed, tableVars, baseVars, remoteVars>>

\* A lease lapses (see RemoteLease): the one a stopped run left behind, or the
\* one of a run that overran it, which goes on without the lock.
Overrun(s) == \E d \in Device : holder[s] = d /\ run[d].pc # "idle" /\ run[d].store = s

Lapse(s) ==
    /\ holder[s] # "nobody"
    /\ Overrun(s) => MayFail("overrun")
    /\ faults' = IF Overrun(s) THEN faults + 1 ELSE faults
    /\ holder' = [holder EXCEPT ![s] = "nobody"]
    /\ UNCHANGED <<now, edits, settingsVars, tableVars, baseVars, package, run>>

RunStep(d) ==
    \/ RemoteChanged(d) \/ Load(d) \/ ReadRemote(d) \/ MergeLocal(d) \/ ForceRead(d)
    \/ Apply(d) \/ Write(d) \/ WriteRefused(d)
    \/ PutBaseline(d) \/ RecordSyncResult(d) \/ ClearChanges(d) \/ ConsumeForcePush(d)

Fault(d) ==
    \/ \E done \in SUBSET Scope[d] : StopInApply(d, done)
    \/ WriteAnswerLost(d)
    \/ Stop(d)

User(d) ==
    \/ \E e \in Entity : Save(d, e) \/ Delete(d, e)
    \/ \E s \in Store, force \in BOOLEAN : Configure(d, s, force)

Next ==
    \/ \E d \in Device : Install(d) \/ User(d) \/ ConfigureReset(d) \/ Start(d) \/ RunStep(d) \/ Fault(d)
    \/ \E s \in Store : Lapse(s)

Spec == Init /\ [][Next]_vars

\* The scheduler keeps starting runs and a started run keeps going; a device
\* that meets another's lock tries again at its next poll, so it is not
\* refused for ever.
Fairness ==
    /\ \A d \in Device : WF_vars(RunStep(d)) /\ WF_vars(Install(d))
                          /\ WF_vars(ConfigureReset(d)) /\ SF_vars(Start(d))
    /\ \A s \in Store : WF_vars(Lapse(s) /\ ~Overrun(s))

FairSpec == Spec /\ Fairness

-----------------------------------------------------------------------------
\* The content of a copy: what differs compares, a tombstone being no content.
Content(copy) == IF IsLive(copy) THEN <<copy.val>> ELSE <<>>

(* A package only ever replaces the very package its run read and merged:   *)
(* two runs that overlap after a lapsed lease cannot lose each other's      *)
(* write (engine.go: "Read it again and redo the merge against it rather    *)
(* than overwriting its change").                                           *)
WriteReplacesWhatItRead ==
    [][\A s \in Store : package'[s] # package[s] =>
         \E d \in Device : /\ run[d].pc = "write" /\ run[d].store = s
                           /\ run[d].seen = package[s].doc
                           /\ package'[s].doc = run[d].merged]_vars

(* An entity without a pending change is the merge base's copy: a save that *)
(* no package holds is always still in the change log, so that the          *)
(* scheduler and the status know of it (engine.go: "a save that lands       *)
(* during the run stays in the log").  A seeded entity is left out: apply   *)
(* keeps its row when the merge dropped it.                                 *)
UnpublishedChangeIsPending ==
    \A d \in Device : base[d].has =>
        \A e \in Scope[d] \ Seeded : Content(rows[d][e]) # Content(base[d].doc[e]) => log[d][e] # 0

(* A force push the user armed is carried out before it is disarmed, however*)
(* it is re-armed or pointed elsewhere during a run (sync_store.go: "A      *)
(* concurrent save can neither be reverted nor have a newly armed force     *)
(* push cleared by the older run").                                         *)
ForcePushHonoured == \A d \in Device : owed[d] => config[d].force

(* No row is stored without the service it belongs to, whatever the merge   *)
(* chose for the two and wherever apply stopped.                            *)
NoDanglingRow ==
    \A d \in Device, e \in Entity : HoldsRow(d, e) => HoldsRow(d, Owner[e])

(* A device whose settings leave a kind out carries the remote's current    *)
(* copy of it through unchanged (local.go: "a device that turned a kind off *)
(* would seal its own old copy back over a change the other device has      *)
(* already published").                                                     *)
NarrowScopeCarriesRemote ==
    [][\A s \in Store : package'[s] # package[s] =>
         \E d \in Device : /\ run[d].pc = "write" /\ run[d].store = s
                           /\ \A e \in Entity \ Scope[d] :
                                Holds(package[s].doc, e) /\ Holds(package'[s].doc, Owner[e])
                                  => package'[s].doc[e] = package[s].doc[e]]_vars

(* The merge base of a run was exchanged with the remote the run talks to   *)
(* (engine.go: "A configuration that points somewhere else is a different   *)
(* package, so the merge base and the pinned remote are dropped").          *)
BaseBelongsToRemote ==
    \A d \in Device : run[d].base.has => run[d].base.from = run[d].store

(* The package never goes back to an older edit of an entity: edits are     *)
(* numbered in the order the users made them (merge.go: "both sides differ: *)
(* the later updated_at wins").                                             *)
PackageNeverReverts ==
    [][\A s \in Store, e \in Entity :
         IsLive(package[s].doc[e]) /\ IsLive(package'[s].doc[e])
           => package'[s].doc[e].val >= package[s].doc[e].val]_vars

(* A run overwrites or deletes only a row whose content its merge has seen  *)
(* (engine.go: "a save that lands during the run stays in the log and is    *)
(* packaged by the next one").                                              *)
SaveIsNotUndone ==
    [][\A d \in Device, e \in Entity :
         run[d].pc = "apply" /\ run'[d].pc = "write" /\ Content(rows'[d][e]) # Content(rows[d][e])
           => Content(rows[d][e]) = Content(run[d].local[e])]_vars

(* Once the users stop changing things and the faults end, every device     *)
(* comes to hold what the package holds, and stays so.                      *)
Agreed ==
    \A d \in Device : \A e \in Scope[d] :
        Content(rows[d][e]) = Content(package[config[d].store].doc[e])

Convergence == <>[]Agreed

-----------------------------------------------------------------------------
(* The inductive invariant behind the safety properties, one part per idea. *)
(* It says of every device what its run still knows to be true.             *)

\* A tag that is still current names the very package the run has seen.
SeenIsCurrent(d) ==
    run[d].pc \in {"local", "apply", "write"} /\ Current(d)
        => run[d].seen = package[run[d].store].doc

\* What the run is about to write carries the other kinds as the run saw them.
CarriesSeen(d) ==
    run[d].pc \in {"apply", "write"} =>
        \A e \in Entity \ Scope[d] :
            Holds(run[d].seen, e) /\ Holds(run[d].merged, Owner[e])
                => run[d].merged[e] = run[d].seen[e]

\* The force push a run took up is no longer owed once its package is stored.
ForcePushServed(d) ==
    /\ run[d].gen <= config[d].gen
    /\ run[d].pc \in {"local", "apply"} => ~run[d].force
    /\ run[d].pc = "consume" => run[d].force
    /\ run[d].pc \in {"baseline", "record", "clear", "consume"}
         /\ run[d].force /\ run[d].gen = config[d].gen => ~owed[d]

\* A live entity of a merge result, or of a force push's document, has its
\* owner beside it.
OwnersKept(d) ==
    /\ run[d].pc = "apply" =>
         \A e \in Scope[d] : IsLive(run[d].merged[e]) => IsLive(run[d].merged[Owner[e]])
    /\ run[d].pc \in {"read", "write"} /\ run[d].force =>
         \A e \in Scope[d] : IsLive(run[d].local[e]) => IsLive(run[d].local[Owner[e]])
    /\ \A e \in Entity : HoldsRow(d, e) => HoldsRow(d, Owner[e])

\* A row that is not what document says of it was changed after the snapshot.
ChangedSince(d, document) ==
    \A e \in Scope[d] \ Seeded :
        Content(rows[d][e]) # Content(document[e]) => log[d][e] > run[d].since

\* Whatever the run publishes, a row that differs from it is in the log with a
\* stamp ClearChanges leaves alone.
ChangesLogged(d) ==
    /\ run[d].pc \notin {"uninstalled", "idle", "load"} => run[d].since <= now
    /\ run[d].pc \in {"read", "write"} /\ run[d].force => ChangedSince(d, run[d].local)
    /\ run[d].pc \in {"write", "baseline", "record", "clear"} => ChangedSince(d, run[d].merged)
    /\ run[d].pc \in {"record", "clear"} /\ base[d].has => base[d].doc = run[d].merged
    /\ run[d].pc = "uninstalled" => ~base[d].has

\* What the properties say of one device.
DeviceSafe(d) ==
    /\ owed[d] => config[d].force
    /\ base[d].has =>
         \A e \in Scope[d] \ Seeded : Content(rows[d][e]) # Content(base[d].doc[e]) => log[d][e] # 0

DeviceInv(d) ==
    /\ SeenIsCurrent(d) /\ CarriesSeen(d) /\ ForcePushServed(d)
    /\ OwnersKept(d) /\ ChangesLogged(d) /\ DeviceSafe(d)

EngineInv == TypeOK /\ \A d \in Device : DeviceInv(d)
=============================================================================
