------------------------- MODULE SyncEngine_proofs -------------------------
(***************************************************************************)
(* Proofs about the configuration sync, for any number of devices, stores  *)
(* and entities, any scopes and any bounds.                                *)
(*                                                                         *)
(* EngineInv is inductive.  A step of a device changes only that device's  *)
(* tables and run, and a package at a store; what the other devices' runs  *)
(* know survives because a store never hands out an entity tag twice       *)
(* (OthersKeepInv).  So each action is checked for its own device only.    *)
(*                                                                         *)
(* That a base belongs to its remote rests on the order in which Configure,*)
(* a run that finds the remote changed, and the end of a run touch the     *)
(* base and the pinned remote (RemoteKept).                                *)
(*                                                                         *)
(* That a package never goes back to an older edit rests on the stamps of  *)
(* the rows (EntityInv).  A row whose content is not the base's, or the    *)
(* merge's that is about to become the base, carries the stamp of its own  *)
(* edit, and every newer edit anywhere has a later one (Dated); a row that *)
(* is the base's may be stamped later, and does not count as changed.      *)
(***************************************************************************)
EXTENDS SyncEngine, FiniteSetTheorems, TLAPS

-----------------------------------------------------------------------------
(* The types of the operators.                                              *)

LEMMA CopyTypes ==
    /\ Absent \in Copy
    /\ \A v, t \in Nat : Live(v, t) \in Copy /\ Gone(t) \in Copy
    /\ EmptyDocument \in Document
BY DEF Absent, Live, Gone, Copy, EmptyDocument, Document

LEMMA MergeType ==
    ASSUME NEW b \in Document, NEW l \in Document, NEW r \in Document, NEW first, NEW changed
    PROVE  Merge(b, l, r, first, changed) \in Document
<1>1. ASSUME NEW x \in Copy, NEW y \in Copy, NEW z \in Copy, NEW c
      PROVE  mergeEntity(x, y, z, first, c) \in Copy
  BY DEF mergeEntity
<1>2. ASSUME NEW e \in Entity
      PROVE  mergeEntity(b[e], l[e], r[e], first, e \in changed) \in Copy
  BY <1>1 DEF Document
<1>3. QED
  BY <1>2, CopyTypes DEF Merge, Document

LEMMA PackageTypes ==
    ASSUME NEW m \in Document, NEW b \in Document, NEW r \in Document, NEW kinds
    PROVE  /\ restrict(m, kinds) \in Document
           /\ carryThrough(m, kinds, b, r) \in Document
           /\ pruneOrphans(m) \in Document
BY CopyTypes DEF restrict, carryThrough, pruneOrphans, Document

LEMMA LocalTypes ==
    ASSUME TypeOK, NEW d \in Device, NEW since \in Nat
    PROVE  /\ ReconciledTomb(d, since) \in [Entity -> Nat]
           /\ localDocument(d, since) \in Document
<1>1. ReconciledTomb(d, since) \in [Entity -> Nat]
  BY DEF TypeOK, ReconciledTomb
<1>2. ASSUME NEW e \in Entity PROVE rows[d][e].val \in Nat /\ EntityTime(d, e) \in Nat
  BY EntityAssumption DEF TypeOK, EntityTime, Document, Copy
<1>3. QED
  BY <1>1, <1>2, CopyTypes DEF localDocument, Document

LEMMA TagType == 0 \in Tag
BY EngineAssumption, FS_CardinalityType DEF Tag

LEMMA IdleType == NoBase \in Base /\ Idle \in Run
BY CopyTypes, TagType, EngineAssumption DEF NoBase, Base, Idle, Run, PC

LEMMA SeededType == \A t \in Nat : SeededRows(t) \in Document
BY CopyTypes DEF SeededRows, Document

LEMMA InitTypeOK == Init => TypeOK
<1> SUFFICES ASSUME Init PROVE TypeOK
  OBVIOUS
<1>1. [Idle EXCEPT !.pc = "uninstalled"] \in Run
  BY IdleType DEF Run, PC
<1>2. SeededRows(1) \in Document
  BY SeededType
<1>3. QED
  BY <1>1, <1>2, CopyTypes, TagType, IdleType, EngineAssumption DEF Init, TypeOK

-----------------------------------------------------------------------------
LEMMA UserKeepsTypes ==
    ASSUME TypeOK, NEW d \in Device, Install(d) \/ User(d) \/ ConfigureReset(d)
    PROVE  TypeOK'
<1> USE DEF settingsVars, tableVars, baseVars, remoteVars
<1>0. /\ now + 1 \in Nat /\ edits + 1 \in Nat /\ settings + 1 \in Nat
      /\ Live(edits + 1, now + 1) \in Copy /\ Absent \in Copy
      /\ SeededRows(now + 1) \in Document
  BY CopyTypes, SeededType DEF TypeOK
<1>1. CASE Install(d)
  BY <1>0, <1>1, IdleType DEF Install, TypeOK
<1>2. ASSUME NEW e \in Entity, Save(d, e) PROVE TypeOK'
  BY <1>0, <1>2 DEF Save, UserMayChange, TypeOK, Document
<1>3. ASSUME NEW e \in Entity, Delete(d, e) PROVE TypeOK'
  BY <1>0, <1>3 DEF Delete, UserMayChange, TypeOK, Document
<1>4. ASSUME NEW s \in Store, NEW force \in BOOLEAN, Configure(d, s, force) PROVE TypeOK'
  <2>1. config' \in [Device -> [store : Store, force : BOOLEAN, gen : Nat]]
    BY <1>4 DEF Configure, UpdateSyncConfig, TypeOK
  <2>2. owed' \in [Device -> BOOLEAN] /\ resetDue' \in [Device -> BOOLEAN]
    BY <1>4 DEF Configure, TypeOK
  <2>3. QED
    BY <1>0, <1>4, <2>1, <2>2 DEF Configure, TypeOK
<1>5. CASE ConfigureReset(d)
  BY <1>5, IdleType DEF ConfigureReset, TypeOK
<1>6. QED
  BY <1>1, <1>2, <1>3, <1>4, <1>5 DEF User

LEMMA ApplyKeepsTypes ==
    ASSUME TypeOK, NEW d \in Device, NEW done, NEW touched, ApplyTo(d, done, touched)
    PROVE  /\ now' \in Nat /\ rows' \in [Device -> Document]
           /\ log' \in [Device -> [Entity -> Nat]] /\ tomb' \in [Device -> [Entity -> Nat]]
<1>1. now' \in Nat
  BY DEF ApplyTo, TypeOK
<1>2. run[d].merged \in Document
  BY DEF TypeOK, Run
<1>3. ASSUME NEW e \in Entity PROVE Live(run[d].merged[e].val, now') \in Copy
  BY <1>1, <1>2, CopyTypes DEF Document, Copy
<1>4. rows' \in [Device -> Document]
  BY <1>1, <1>3, CopyTypes DEF ApplyTo, TypeOK, Document
<1>5. QED
  BY <1>1, <1>4 DEF ApplyTo, TypeOK

LEMMA RunKeepsTypes ==
    ASSUME TypeOK, NEW d \in Device, Start(d) \/ RunStep(d) \/ Fault(d)
    PROVE  TypeOK'
<1> USE DEF settingsVars, tableVars, baseVars, remoteVars
<1>r. run[d] \in Run /\ base[d] \in Base /\ package[run[d].store] \in [doc : Document, tag : Tag]
  BY DEF TypeOK, Run
<1>1. CASE RemoteChanged(d)
  BY <1>1, IdleType DEF RemoteChanged, TypeOK
<1>2. CASE Start(d)
  BY <1>2, IdleType DEF Start, TypeOK, Run, PC
<1>3. CASE Load(d)
  <2> DEFINE local == IF run[d].force THEN localDocument(d, now) ELSE run[d].local
             r == [run[d] EXCEPT !.pc = "read", !.base = base[d], !.since = now, !.local = local]
  <2>1. local \in Document /\ now \in Nat /\ ReconciledTomb(d, now) \in [Entity -> Nat]
    BY <1>r, LocalTypes DEF TypeOK, Run
  <2>2. r \in Run
    BY <1>r, <2>1 DEF Run, PC
  <2>3. run' = [run EXCEPT ![d] = r]
    BY <1>3 DEF Load, TypeOK
  <2> HIDE DEF r
  <2>4. run' \in [Device -> Run]
    BY <2>2, <2>3 DEF TypeOK
  <2>5. tomb' \in [Device -> [Entity -> Nat]]
    BY <1>3, <2>1 DEF Load, TypeOK
  <2>6. QED
    BY <1>3, <2>4, <2>5 DEF Load, TypeOK
<1>4. CASE ReadRemote(d)
  BY <1>4, <1>r DEF ReadRemote, TypeOK, Run, PC
<1>5. CASE MergeLocal(d)
  <2> DEFINE local == localDocument(d, run[d].since)
             merged == Merge(restrict(run[d].base.doc, Scope[d]), local,
                             restrict(run[d].seen, Scope[d]), ~run[d].base.has, changedEntities(d))
             result == pruneOrphans(carryThrough(merged, Scope[d], run[d].base.doc, run[d].seen))
  <2>1. local \in Document /\ ReconciledTomb(d, run[d].since) \in [Entity -> Nat]
    BY <1>r, LocalTypes DEF Run
  <2>2. run[d].base.doc \in Document /\ run[d].seen \in Document
    BY <1>r DEF Run, Base
  <2>3. merged \in Document
    BY <2>1, <2>2, MergeType, PackageTypes
  <2>4. result \in Document
    BY <2>2, <2>3, PackageTypes
  <2>5. run' = [run EXCEPT ![d].pc = "apply", ![d].local = local, ![d].merged = result]
    BY <1>5 DEF MergeLocal
  <2> HIDE DEF local, result
  <2>6. run' \in [Device -> Run]
    <3>1. [run[d] EXCEPT !.pc = "apply", !.local = local, !.merged = result] \in Run
      BY <1>r, <2>1, <2>4 DEF Run, PC
    <3>2. run' = [run EXCEPT ![d] = [run[d] EXCEPT !.pc = "apply", !.local = local, !.merged = result]]
      BY <2>5 DEF TypeOK
    <3>3. QED
      BY <3>1, <3>2 DEF TypeOK
  <2>7. QED
    BY <1>5, <2>1, <2>6 DEF MergeLocal, TypeOK
<1>6. CASE ForceRead(d)
  <2> DEFINE stored == package[run[d].store]
             result == pruneOrphans(carryThrough(restrict(run[d].local, Scope[d]), Scope[d],
                                                 run[d].base.doc, stored.doc))
  <2>1. result \in Document
    <3>1. /\ run[d].local \in Document /\ run[d].base.doc \in Document
          /\ stored.doc \in Document
      BY <1>r DEF Run, Base
    <3>2. restrict(run[d].local, Scope[d]) \in Document
      BY <3>1, PackageTypes
    <3>3. QED
      BY <3>1, <3>2, PackageTypes
  <2>2. run' = [run EXCEPT ![d].pc = "write", ![d].seen = stored.doc, ![d].tag = stored.tag,
                           ![d].merged = result]
    BY <1>6 DEF ForceRead
  <2> HIDE DEF result
  <2>3. run' \in [Device -> Run]
    BY <1>r, <2>1, <2>2 DEF TypeOK, Run, PC
  <2>4. QED
    BY <1>6, <2>3 DEF ForceRead, TypeOK
<1>7. CASE Apply(d)
  <2>1. run' \in [Device -> Run]
    <3>1. [run[d] EXCEPT !.pc = "write", !.local = EmptyDocument] \in Run
      BY <1>r, CopyTypes DEF Run, PC
    <3>2. run' = [run EXCEPT ![d] = [run[d] EXCEPT !.pc = "write", !.local = EmptyDocument]]
      BY <1>7 DEF Apply, TypeOK
    <3>3. QED
      BY <3>1, <3>2 DEF TypeOK
  <2>2. QED
    BY <1>7, <2>1, ApplyKeepsTypes DEF Apply, TypeOK
<1>8. ASSUME NEW done \in SUBSET Scope[d], StopInApply(d, done) PROVE TypeOK'
  <2>1. run' \in [Device -> Run] /\ faults' \in Nat
    BY <1>8, IdleType DEF StopInApply, TypeOK
  <2>2. QED
    BY <1>8, <2>1, ApplyKeepsTypes DEF StopInApply, TypeOK
<1>9. ASSUME StorePackage(d)
      PROVE  package' \in [Store -> [doc : Document, tag : Tag]] /\ owed' \in [Device -> BOOLEAN]
  BY <1>9, <1>r DEF StorePackage, TypeOK, Run
<1>10. ASSUME Return(d)
       PROVE  run' \in [Device -> Run] /\ holder' \in [Store -> Device \cup {"nobody"}]
  BY <1>10, IdleType DEF Return, TypeOK
<1>11. CASE Write(d)
  <2>1. run' \in [Device -> Run]
    BY <1>11, <1>r, IdleType DEF Write, TypeOK, Run, PC
  <2>2. QED
    BY <1>9, <1>11, <2>1 DEF Write, TypeOK
<1>12. CASE WriteAnswerLost(d)
  BY <1>9, <1>10, <1>12 DEF WriteAnswerLost, TypeOK
<1>13. CASE WriteRefused(d)
  <2>1. run' \in [Device -> Run] /\ holder' \in [Store -> Device \cup {"nobody"}]
    <3>1. CASE Return(d)
      BY <1>10, <3>1
    <3>2. CASE run' = [run EXCEPT ![d].pc = "read", ![d].attempt = @ + 1, ![d].tag = 0,
                                  ![d].seen = EmptyDocument, ![d].merged = EmptyDocument]
               /\ UNCHANGED holder
      <4> DEFINE n == run[d].attempt + 1
                 r == [run[d] EXCEPT !.pc = "read", !.attempt = n, !.tag = 0,
                                     !.seen = EmptyDocument, !.merged = EmptyDocument]
      <4>1. n \in Nat /\ EmptyDocument \in Document
        BY <1>r, CopyTypes DEF Run
      <4>2. run' = [run EXCEPT ![d] = r]
        BY <3>2 DEF TypeOK
      <4> HIDE DEF n
      <4>3. r \in Run
        BY <1>r, <4>1, TagType DEF Run, PC
      <4> HIDE DEF r
      <4>4. run' \in [Device -> Run]
        BY <4>2, <4>3 DEF TypeOK
      <4>5. QED
        BY <3>2, <4>4 DEF TypeOK
    <3>3. QED
      BY <1>13, <3>1, <3>2 DEF WriteRefused
  <2>2. QED
    BY <1>13, <2>1 DEF WriteRefused, TypeOK
<1>14. CASE PutBaseline(d)
  BY <1>14, <1>r DEF PutBaseline, TypeOK, Run, Base, PC
<1>15. CASE RecordSyncResult(d)
  BY <1>15, <1>r DEF RecordSyncResult, TypeOK, Run, PC
<1>16. CASE ClearChanges(d)
  <2>1. run' \in [Device -> Run] /\ holder' \in [Store -> Device \cup {"nobody"}]
    <3>1. [run[d] EXCEPT !.pc = "consume"] \in Run
      BY <1>r DEF Run, PC
    <3>2. CASE Return(d)
      BY <1>10, <3>2
    <3>3. CASE run' = [run EXCEPT ![d].pc = "consume"] /\ UNCHANGED holder
      BY <3>1, <3>3 DEF TypeOK
    <3>4. QED
      BY <1>16, <3>2, <3>3 DEF ClearChanges
  <2>2. log' \in [Device -> [Entity -> Nat]] /\ tomb' \in [Device -> [Entity -> Nat]]
    BY <1>16 DEF ClearChanges, TypeOK
  <2>3. UNCHANGED <<now, edits, faults, settingsVars, rows, baseVars, package>>
    BY <1>16 DEF ClearChanges
  <2>4. QED
    BY <2>1, <2>2, <2>3 DEF TypeOK
<1>17. CASE ConsumeForcePush(d)
  <2>1. config' \in [Device -> [store : Store, force : BOOLEAN, gen : Nat]]
    <3> DEFINE armed == config[d].force /\ config[d].gen # run[d].gen
    <3>1. armed \in BOOLEAN
      OBVIOUS
    <3>2. config' = [config EXCEPT ![d].force = armed]
      BY <1>17 DEF ConsumeForcePush
    <3> HIDE DEF armed
    <3>3. /\ config \in [Device -> [store : Store, force : BOOLEAN, gen : Nat]]
          /\ config[d] \in [store : Store, force : BOOLEAN, gen : Nat]
      BY DEF TypeOK
    <3>4. [config[d] EXCEPT !.force = armed] \in [store : Store, force : BOOLEAN, gen : Nat]
      BY <3>1, <3>3
    <3>5. config' = [config EXCEPT ![d] = [config[d] EXCEPT !.force = armed]]
      BY <3>2, <3>3
    <3>6. QED
      BY <3>3, <3>4, <3>5
  <2>2. QED
    BY <1>10, <1>17, <2>1 DEF ConsumeForcePush, TypeOK
<1>18. CASE Stop(d)
  BY <1>18, IdleType DEF Stop, TypeOK
<1>19. QED
  BY <1>1, <1>2, <1>3, <1>4, <1>5, <1>6, <1>7, <1>8, <1>11, <1>12, <1>13, <1>14, <1>15,
     <1>16, <1>17, <1>18 DEF RunStep, Fault

LEMMA NextKeepsTypes ==
    ASSUME TypeOK, [Next]_vars
    PROVE  TypeOK'
<1> USE DEF settingsVars, tableVars, baseVars, remoteVars
<1>1. ASSUME NEW s \in Store, Lapse(s) PROVE TypeOK'
  BY <1>1 DEF Lapse, TypeOK
<1>2. CASE UNCHANGED vars
  BY <1>2 DEF vars, TypeOK
<1>3. QED
  BY <1>1, <1>2, UserKeepsTypes, RunKeepsTypes DEF Next

(* Every variable keeps its type in every behaviour.                        *)
THEOREM TypeCorrect == Spec => []TypeOK
BY InitTypeOK, NextKeepsTypes, PTL DEF Spec

-----------------------------------------------------------------------------
(* EngineInv, the part about what a step leaves alone.                      *)

LEMMA InitDeviceInv == Init => \A d \in Device : DeviceInv(d)
<1> SUFFICES ASSUME Init, NEW d \in Device PROVE DeviceInv(d)
  OBVIOUS
<1>1. /\ run[d].pc \in {"uninstalled", "idle"} /\ run[d].gen = 0
      /\ config[d].gen = 0 /\ ~owed[d] /\ ~base[d].has
  BY DEF Init, Idle, NoBase
<1>2. \A e \in Entity : HoldsRow(d, e) => HoldsRow(d, Owner[e])
  BY EntityAssumption, ScopeAssumption
     DEF Init, HoldsRow, IsLive, EmptyDocument, SeededRows, Live, Absent
<1>3. QED
  BY <1>1, <1>2 DEF DeviceInv, SeenIsCurrent, CarriesSeen, ForcePushServed, OwnersKept,
                    ChangesLogged, DeviceSafe

\* A run that is over, or not begun, has nothing to keep but its tables.
LEMMA IdleKeepsInv ==
    ASSUME NEW d \in Device, TypeOK', run'[d] = Idle,
           \A e \in Entity : HoldsRow(d, e)' => HoldsRow(d, Owner[e])',
           DeviceSafe(d)'
    PROVE  DeviceInv(d)'
<1>1. run'[d].pc = "idle" /\ run'[d].gen = 0 /\ config'[d].gen \in Nat
  BY DEF Idle, TypeOK
<1>2. QED
  BY <1>1 DEF DeviceInv, SeenIsCurrent, CarriesSeen, ForcePushServed, OwnersKept, ChangesLogged

\* What a device's run knows does not depend on the other devices: they leave
\* its tables alone, and a package they write gets a tag the run does not hold.
LEMMA OthersKeepInv ==
    ASSUME NEW x \in Device, TypeOK, TypeOK', DeviceInv(x), now <= now',
           run'[x] = run[x], rows'[x] = rows[x], log'[x] = log[x],
           base'[x] = base[x], config'[x] = config[x], owed'[x] = owed[x],
           \/ package'[run[x].store] = package[run[x].store]
           \/ package'[run[x].store].tag # run[x].tag
    PROVE  DeviceInv(x)'
<1>1. SeenIsCurrent(x)'
  BY DEF DeviceInv, SeenIsCurrent, Current
<1>2. CarriesSeen(x)' /\ ForcePushServed(x)' /\ OwnersKept(x)' /\ DeviceSafe(x)'
  BY DEF DeviceInv, CarriesSeen, ForcePushServed, OwnersKept, DeviceSafe, HoldsRow
<1>3. ChangesLogged(x)'
  <2>1. run[x].since <= now => run[x].since <= now'
    BY DEF TypeOK, Run
  <2>2. QED
    BY <2>1 DEF DeviceInv, ChangesLogged, ChangedSince
<1>4. QED
  BY <1>1, <1>2, <1>3 DEF DeviceInv

\* The tables, the settings and the run of every device but d are left alone,
\* and no package is written.
OnlyTouches(d) ==
    /\ now <= now' /\ UNCHANGED package
    /\ \A x \in Device \ {d} :
          /\ run'[x] = run[x] /\ rows'[x] = rows[x] /\ log'[x] = log[x]
          /\ base'[x] = base[x] /\ config'[x] = config[x] /\ owed'[x] = owed[x]

LEMMA OwnStepKeepsInv ==
    ASSUME EngineInv, TypeOK', NEW d \in Device, OnlyTouches(d), DeviceInv(d)'
    PROVE  EngineInv'
<1>1. ASSUME NEW x \in Device \ {d} PROVE DeviceInv(x)'
  BY OthersKeepInv DEF EngineInv, OnlyTouches
<1>2. QED
  BY <1>1 DEF EngineInv

-----------------------------------------------------------------------------
(* EngineInv, the user's actions.                                           *)

\* A change of the tables is safe when the log shows it.
LEMMA LoggedChangeIsSafe ==
    ASSUME NEW d \in Device, TypeOK, TypeOK', DeviceSafe(d),
           base'[d] = base[d], config'[d] = config[d], owed'[d] = owed[d],
           \A e \in Entity : \/ rows'[d][e] = rows[d][e] /\ log'[d][e] = log[d][e]
                             \/ log'[d][e] > now
    PROVE  DeviceSafe(d)'
<1>1. Scope[d] \subseteq Entity
  BY EngineAssumption
<1>2. ASSUME NEW e \in Entity, log'[d][e] > now PROVE log'[d][e] # 0
  BY <1>2 DEF TypeOK
<1>3. QED
  BY <1>1, <1>2 DEF DeviceSafe

\* It then also keeps what a run knows.
LEMMA LoggedChangeKeepsInv ==
    ASSUME NEW d \in Device, TypeOK, TypeOK', DeviceInv(d), now <= now',
           run'[d] = run[d], base'[d] = base[d], config'[d] = config[d], owed'[d] = owed[d],
           UNCHANGED package,
           \A e \in Entity : \/ rows'[d][e] = rows[d][e] /\ log'[d][e] = log[d][e]
                             \/ log'[d][e] > now,
           \A e \in Entity : HoldsRow(d, e)' => HoldsRow(d, Owner[e])'
    PROVE  DeviceInv(d)'
<1>0. Scope[d] \subseteq Entity
  BY EngineAssumption
<1>1. SeenIsCurrent(d)' /\ CarriesSeen(d)' /\ ForcePushServed(d)' /\ OwnersKept(d)'
  BY DEF DeviceInv, SeenIsCurrent, Current, CarriesSeen, ForcePushServed, OwnersKept
<1>2. ChangesLogged(d)'
  <2>1. run[d].since \in Nat /\ now \in Nat /\ now' \in Nat /\ \A e \in Entity : log'[d][e] \in Nat
    BY DEF TypeOK, Run
  <2>2. ASSUME NEW document, run[d].since <= now, ChangedSince(d, document)
        PROVE  ChangedSince(d, document)'
    BY <1>0, <2>1, <2>2 DEF ChangedSince
  <2>3. run[d].since <= now => run[d].since <= now'
    BY <2>1
  <2>4. QED
    BY <2>2, <2>3 DEF DeviceInv, ChangesLogged
<1>3. DeviceSafe(d)'
  BY LoggedChangeIsSafe DEF DeviceInv
<1>4. QED
  BY <1>1, <1>2, <1>3 DEF DeviceInv

LEMMA UserKeepsInv ==
    ASSUME EngineInv, TypeOK', NEW d \in Device, Install(d) \/ User(d) \/ ConfigureReset(d)
    PROVE  EngineInv'
<1> USE DEF settingsVars, tableVars, baseVars, remoteVars
<1>0. TypeOK /\ DeviceInv(d) /\ now \in Nat
  BY DEF EngineInv, TypeOK
<1>1. CASE Install(d)
  <2>1. OnlyTouches(d)
    BY <1>0, <1>1 DEF Install, OnlyTouches, TypeOK
  <2>2. run'[d] = Idle /\ rows'[d] = SeededRows(now + 1)
    BY <1>0, <1>1 DEF Install, TypeOK
  <2>3. \A e \in Entity : HoldsRow(d, e)' => HoldsRow(d, Owner[e])'
    BY <2>2, EntityAssumption, ScopeAssumption DEF HoldsRow, IsLive, SeededRows, Live, Absent
  <2>4. DeviceSafe(d)'
    BY <1>0, <1>1 DEF Install, DeviceInv, DeviceSafe, ChangesLogged
  <2>5. QED
    BY <2>1, <2>2, <2>3, <2>4, IdleKeepsInv, OwnStepKeepsInv
<1>2. ASSUME NEW e \in Entity, Save(d, e) PROVE EngineInv'
  <2>1. OnlyTouches(d)
    BY <1>0, <1>2 DEF Save, OnlyTouches, TypeOK
  <2>2. /\ rows'[d] = [rows[d] EXCEPT ![e] = Live(edits + 1, now + 1)]
        /\ log'[d] = [log[d] EXCEPT ![e] = now + 1]
    BY <1>0, <1>2 DEF Save, TypeOK
  <2>3. \A f \in Entity : \/ rows'[d][f] = rows[d][f] /\ log'[d][f] = log[d][f]
                          \/ log'[d][f] > now
    BY <1>0, <2>2 DEF TypeOK, Document
  <2>4. ASSUME NEW f \in Entity, HoldsRow(d, f)' PROVE HoldsRow(d, Owner[f])'
    <3>1. HoldsRow(d, e)'
      BY <1>0, <2>2 DEF HoldsRow, IsLive, Live, TypeOK, Document
    <3>2. \A g \in Entity \ {e} : HoldsRow(d, g)' <=> HoldsRow(d, g)
      BY <1>0, <2>2 DEF HoldsRow, TypeOK, Document
    <3>3. HoldsRow(d, Owner[f]) \/ Owner[f] = e
      BY <1>0, <1>2, <2>4, <3>2, EntityAssumption DEF Save, DeviceInv, OwnersKept
    <3>4. QED
      BY <3>1, <3>2, <3>3, EntityAssumption
  <2>5. /\ now <= now' /\ run'[d] = run[d] /\ base'[d] = base[d]
        /\ config'[d] = config[d] /\ owed'[d] = owed[d] /\ UNCHANGED package
    BY <1>0, <1>2 DEF Save
  <2>6. DeviceInv(d)'
    BY <1>0, <2>3, <2>4, <2>5, LoggedChangeKeepsInv
  <2>7. QED
    BY <2>1, <2>6, OwnStepKeepsInv
<1>3. ASSUME NEW e \in Entity, Delete(d, e) PROVE EngineInv'
  <2> DEFINE gone == {f \in Cascade(e) : HoldsRow(d, f)}
  <2>1. OnlyTouches(d)
    BY <1>0, <1>3 DEF Delete, OnlyTouches, TypeOK
  <2>2. /\ rows'[d] = [f \in Entity |-> IF f \in gone THEN Absent ELSE rows[d][f]]
        /\ log'[d] = [f \in Entity |-> IF f \in gone THEN now + 1 ELSE log[d][f]]
    BY <1>0, <1>3 DEF Delete, TypeOK
  <2>3. \A f \in Entity : \/ rows'[d][f] = rows[d][f] /\ log'[d][f] = log[d][f]
                          \/ log'[d][f] > now
    BY <1>0, <2>2
  <2>4. ASSUME NEW f \in Entity, HoldsRow(d, f)' PROVE HoldsRow(d, Owner[f])'
    <3>1. \A g \in Entity : HoldsRow(d, g)' <=> HoldsRow(d, g) /\ g \notin Cascade(e)
      BY <2>2 DEF HoldsRow, IsLive, Absent
    <3>2. HoldsRow(d, Owner[f])
      BY <1>0, <2>4, <3>1 DEF DeviceInv, OwnersKept
    <3>3. Owner[f] \notin Cascade(e)
      BY <2>4, <3>1, EntityAssumption DEF Cascade
    <3>4. QED
      BY <3>1, <3>2, <3>3, EntityAssumption
  <2>5. /\ now <= now' /\ run'[d] = run[d] /\ base'[d] = base[d]
        /\ config'[d] = config[d] /\ owed'[d] = owed[d] /\ UNCHANGED package
    BY <1>0, <1>3 DEF Delete
  <2>6. DeviceInv(d)'
    BY <1>0, <2>3, <2>4, <2>5, LoggedChangeKeepsInv
  <2>7. QED
    BY <2>1, <2>6, OwnStepKeepsInv
<1>4. ASSUME NEW s \in Store, NEW force \in BOOLEAN, Configure(d, s, force) PROVE EngineInv'
  <2>1. OnlyTouches(d)
    BY <1>0, <1>4 DEF Configure, UpdateSyncConfig, OnlyTouches, TypeOK
  <2>2. /\ config'[d].force = force
        /\ config'[d].gen = config[d].gen \/ config'[d].gen = config[d].gen + 1
        /\ owed'[d] => force /\ (owed[d] \/ config'[d].gen # config[d].gen)
    BY <1>0, <1>4 DEF Configure, UpdateSyncConfig, TypeOK
  <2>3. config[d].gen \in Nat /\ run[d].gen \in Nat
    BY <1>0 DEF TypeOK, Run
  <2>4. ForcePushServed(d)'
    <3>1. run[d].gen <= config'[d].gen
      BY <1>0, <2>2, <2>3 DEF DeviceInv, ForcePushServed
    <3>2. run[d].gen = config'[d].gen => config'[d].gen = config[d].gen
      BY <1>0, <2>2, <2>3 DEF DeviceInv, ForcePushServed
    <3>3. UNCHANGED run
      BY <1>4 DEF Configure
    <3>4. QED
      BY <1>0, <2>2, <3>1, <3>2, <3>3 DEF DeviceInv, ForcePushServed
  <2>5. DeviceSafe(d)'
    BY <1>0, <1>4, <2>2 DEF Configure, DeviceInv, DeviceSafe
  <2>6. SeenIsCurrent(d)' /\ CarriesSeen(d)' /\ OwnersKept(d)' /\ ChangesLogged(d)'
    BY <1>0, <1>4 DEF Configure, DeviceInv, SeenIsCurrent, Current, CarriesSeen, OwnersKept,
                      HoldsRow, ChangesLogged, ChangedSince
  <2>7. QED
    BY <2>1, <2>4, <2>5, <2>6, OwnStepKeepsInv DEF DeviceInv
<1>5. CASE ConfigureReset(d)
  <2>1. OnlyTouches(d)
    BY <1>0, <1>5 DEF ConfigureReset, OnlyTouches, TypeOK
  <2>2. ~base'[d].has
    BY <1>0, <1>5 DEF ConfigureReset, TypeOK, NoBase
  <2>3. DeviceInv(d)'
    BY <1>0, <1>5, <2>2
       DEF ConfigureReset, DeviceInv, SeenIsCurrent, Current, CarriesSeen, ForcePushServed,
           OwnersKept, HoldsRow, ChangesLogged, ChangedSince, DeviceSafe
  <2>4. QED
    BY <2>1, <2>3, OwnStepKeepsInv
<1>6. QED
  BY <1>1, <1>2, <1>3, <1>4, <1>5 DEF User

-----------------------------------------------------------------------------
(* EngineInv, what a run computes.                                          *)

\* Two copies have the same content when both or neither are live, and the
\* live ones hold the same.
LEMMA ContentEqual ==
    ASSUME NEW a, NEW b
    PROVE  Content(a) = Content(b) <=> /\ IsLive(a) <=> IsLive(b)
                                       /\ IsLive(a) => a.val = b.val
BY DEF Content

\* Nothing in scope leaves a merge without its owner.
LEMMA MergedOwnersLive ==
    ASSUME NEW d \in Device, NEW b, NEW l, NEW r, NEW first, NEW changed,
           NEW bd \in Document, NEW rd \in Document, NEW e \in Scope[d],
           IsLive(pruneOrphans(carryThrough(Merge(b, l, r, first, changed), Scope[d], bd, rd))[e])
    PROVE  IsLive(pruneOrphans(carryThrough(Merge(b, l, r, first, changed), Scope[d], bd, rd))[Owner[e]])
<1> DEFINE m == Merge(b, l, r, first, changed)
           c == carryThrough(m, Scope[d], bd, rd)
<1>0. e \in Entity /\ Owner[e] \in Entity /\ Owner[e] \in Scope[d] /\ Owner[Owner[e]] = Owner[e]
  BY EntityAssumption, EngineAssumption, ScopeAssumption
<1>1. \A f \in Entity : IsLive(m[f]) \/ m[f] = Absent
  BY DEF Merge
<1>2. \A f \in Entity : pruneOrphans(c)[f] = IF Holds(c, Owner[f]) THEN c[f] ELSE Absent
  BY DEF pruneOrphans
<1>3. c[Owner[e]] = m[Owner[e]]
  BY <1>0 DEF carryThrough
<1>4. Holds(c, Owner[e])
  BY <1>0, <1>2 DEF IsLive, Absent
<1>5. IsLive(c[Owner[e]])
  BY <1>0, <1>1, <1>3, <1>4 DEF Holds, Absent
<1>6. QED
  BY <1>0, <1>2, <1>4, <1>5

\* What is carried through is the remote's copy, if the package keeps it at all.
LEMMA CarriedIsRemote ==
    ASSUME NEW m \in Document, NEW kinds, NEW b \in Document, NEW r \in Document,
           NEW e \in Entity \ kinds, Holds(r, e),
           Holds(pruneOrphans(carryThrough(m, kinds, b, r)), Owner[e])
    PROVE  pruneOrphans(carryThrough(m, kinds, b, r))[e] = r[e]
<1> DEFINE c == carryThrough(m, kinds, b, r)
<1>0. Owner[e] \in Entity
  BY EntityAssumption
<1>1. c[e] = r[e]
  BY DEF carryThrough
<1>2. \A f \in Entity : pruneOrphans(c)[f] = IF Holds(c, Owner[f]) THEN c[f] ELSE Absent
  BY DEF pruneOrphans
<1>3. Holds(c, Owner[e])
  <2>1. pruneOrphans(c)[Owner[e]] # Absent
    BY DEF Holds, Absent
  <2>2. QED
    BY <1>0, <1>2, <2>1, EntityAssumption
<1>4. QED
  BY <1>1, <1>2, <1>3

\* A force push publishes exactly the live part of its local document.
LEMMA ForcedIsLocal ==
    ASSUME NEW d \in Device, NEW l \in Document, NEW b \in Document, NEW r \in Document,
           \A f \in Scope[d] : IsLive(l[f]) => IsLive(l[Owner[f]]),
           NEW e \in Scope[d]
    PROVE  Content(pruneOrphans(carryThrough(restrict(l, Scope[d]), Scope[d], b, r))[e])
             = Content(l[e])
<1> DEFINE c == carryThrough(restrict(l, Scope[d]), Scope[d], b, r)
<1>0. e \in Entity /\ Owner[e] \in Entity /\ Owner[e] \in Scope[d]
  BY EntityAssumption, EngineAssumption, ScopeAssumption
<1>1. c[e] = l[e] /\ c[Owner[e]] = l[Owner[e]]
  BY <1>0 DEF carryThrough, restrict
<1>2. pruneOrphans(c)[e] = IF Holds(c, Owner[e]) THEN c[e] ELSE Absent
  BY <1>0 DEF pruneOrphans
<1>3. IsLive(l[e]) => Holds(c, Owner[e])
  BY <1>1 DEF Holds, IsLive
<1>4. QED
  BY <1>1, <1>2, <1>3 DEF Content, IsLive, Absent

\* The local document is what the rows say.
LEMMA LocalIsRows ==
    ASSUME NEW d \in Device, NEW since, NEW e \in Scope[d]
    PROVE  /\ IsLive(localDocument(d, since)[e]) <=> HoldsRow(d, e)
           /\ Content(localDocument(d, since)[e]) = Content(rows[d][e])
<1>0. e \in Entity
  BY EngineAssumption
<1>1. CASE HoldsRow(d, e)
  BY <1>0, <1>1, ContentEqual DEF localDocument, Live, IsLive, HoldsRow
<1>2. CASE ~HoldsRow(d, e)
  <2>1. ~IsLive(localDocument(d, since)[e])
    BY <1>0, <1>2 DEF localDocument, Gone, Absent, IsLive
  <2>2. QED
    BY <1>2, <2>1, ContentEqual DEF HoldsRow
<1>3. QED
  BY <1>1, <1>2

\* apply, whole or stopped at any point of its order: every row it changes is
\* logged, and no row is left without its owner.
LEMMA ApplyEffect ==
    ASSUME NEW d \in Device, TypeOK, TypeOK', DeviceInv(d), run[d].pc = "apply",
           NEW done, NEW touched, ApplyTo(d, done, touched), ApplyPrefix(d, done),
           (Rewritten(d) \cap done) \cup Removed(d, done) \subseteq touched
    PROVE  /\ now <= now'
           /\ \A e \in Entity : \/ rows'[d][e] = rows[d][e] /\ log'[d][e] = log[d][e]
                                \/ log'[d][e] > now
           /\ \A e \in Entity : HoldsRow(d, e)' => HoldsRow(d, Owner[e])'
<1> DEFINE written == Rewritten(d) \cap done
           removed == Removed(d, done)
           at == IF touched = {} THEN now ELSE now + 1
<1>0. /\ Scope[d] \subseteq Entity /\ Kept(d) \subseteq Scope[d]
      /\ \A e \in Entity : Owner[e] \in Entity /\ Owner[Owner[e]] = Owner[e]
  BY EngineAssumption, EntityAssumption DEF Kept
<1>1. /\ rows'[d] = [e \in Entity |-> CASE e \in written -> Live(run[d].merged[e].val, at)
                                        [] e \in removed \ written -> Absent
                                        [] OTHER -> rows[d][e]]
      /\ log'[d] = [e \in Entity |-> IF e \in touched THEN at ELSE log[d][e]]
      /\ now' = at
  BY DEF ApplyTo, TypeOK
<1>2. now <= now' /\ (touched # {} => at > now)
  BY <1>1 DEF TypeOK
<1>3. ASSUME NEW e \in Entity
      PROVE  \/ rows'[d][e] = rows[d][e] /\ log'[d][e] = log[d][e]
             \/ log'[d][e] > now
  <2>1. CASE e \in touched
    BY <1>1, <1>2, <2>1
  <2>2. CASE e \notin touched
    BY <1>1, <2>2
  <2>3. QED
    BY <2>1, <2>2
<1>4. ASSUME NEW e \in Entity
      PROVE  HoldsRow(d, e)' <=> e \in written \/ (HoldsRow(d, e) /\ e \notin removed)
  <2>1. CASE e \in written
    BY <1>1, <2>1 DEF HoldsRow, IsLive, Live
  <2>2. CASE e \notin written /\ e \in removed
    BY <1>1, <2>2 DEF HoldsRow, IsLive, Absent
  <2>3. CASE e \notin written /\ e \notin removed
    BY <1>1, <2>3 DEF HoldsRow
  <2>4. QED
    BY <2>1, <2>2, <2>3
<1>5. ASSUME NEW e \in Entity, HoldsRow(d, e)' PROVE HoldsRow(d, Owner[e])'
  <2>1. CASE e \in written
    <3>1. e \in Kept(d) /\ e \in done /\ Owner[e] \in done
      BY <2>1 DEF Rewritten, ApplyPrefix
    <3>2. Owner[e] \in Kept(d)
      BY <3>1, ScopeAssumption DEF Kept, DeviceInv, OwnersKept
    <3>3. Owner[e] \notin removed
      BY <1>0, <3>2 DEF Removed, Dropped, Cascade
    <3>4. Owner[e] \in written \/ HoldsRow(d, Owner[e])
      BY <3>1, <3>2 DEF Rewritten
    <3>5. QED
      BY <1>0, <1>4, <3>3, <3>4
  <2>2. CASE e \notin written
    <3>1. HoldsRow(d, e) /\ e \notin removed
      BY <1>4, <1>5, <2>2
    <3>2. HoldsRow(d, Owner[e])
      BY <3>1 DEF DeviceInv, OwnersKept
    <3>3. Owner[e] \notin removed
      BY <1>0, <3>1 DEF Removed, Cascade
    <3>4. QED
      BY <1>0, <1>4, <3>2, <3>3
  <2>3. QED
    BY <2>1, <2>2
<1>6. QED
  BY <1>2, <1>3, <1>5

\* After a whole apply the rows are the merge result, seeded ones apart.
LEMMA ApplyStoresMerged ==
    ASSUME NEW d \in Device, TypeOK, DeviceInv(d), run[d].pc = "apply",
           NEW touched, ApplyTo(d, Entity, touched), NEW e \in Scope[d] \ Seeded
    PROVE  Content(rows'[d][e]) = Content(run[d].merged[e])
<1>0. e \in Entity /\ Owner[e] \in Entity /\ \A f \in Entity : Owner[f] \in Entity
  BY EngineAssumption, EntityAssumption
<1> DEFINE at == IF touched = {} THEN now ELSE now + 1
<1>1. rows'[d][e] = CASE e \in Rewritten(d) \cap Entity -> Live(run[d].merged[e].val, at)
                      [] e \in Removed(d, Entity) \ (Rewritten(d) \cap Entity) -> Absent
                      [] OTHER -> rows[d][e]
  BY <1>0 DEF ApplyTo, TypeOK
<1>2. CASE e \in Rewritten(d)
  <2>1. IsLive(run[d].merged[e])
    BY <1>2 DEF Rewritten, Kept
  <2>2. rows'[d][e] = Live(run[d].merged[e].val, at)
    BY <1>0, <1>1, <1>2
  <2>3. QED
    BY <2>1, <2>2, ContentEqual DEF Live, IsLive
<1>3. CASE e \in Kept(d) \ Rewritten(d)
  <2>1. HoldsRow(d, e) /\ rows[d][e].val = run[d].merged[e].val /\ IsLive(run[d].merged[e])
    BY <1>3 DEF Rewritten, Kept
  <2>2. Owner[e] \in Kept(d)
    BY <1>3, ScopeAssumption DEF Kept, DeviceInv, OwnersKept
  <2>3. e \notin Removed(d, Entity)
    BY <1>3, <2>2 DEF Removed, Dropped, Cascade
  <2>4. QED
    BY <1>1, <1>3, <2>1, <2>3, ContentEqual DEF HoldsRow
<1>4. CASE e \notin Kept(d)
  <2>1. ~IsLive(run[d].merged[e]) /\ e \notin Rewritten(d)
    BY <1>4 DEF Kept, Rewritten
  <2>2. HoldsRow(d, e) => e \in Removed(d, Entity)
    BY <1>0, <1>4 DEF Removed, Dropped, Cascade
  <2>3. ~IsLive(rows'[d][e])
    BY <1>1, <2>1, <2>2 DEF HoldsRow, IsLive, Absent
  <2>4. QED
    BY <2>1, <2>3, ContentEqual
<1>5. QED
  BY <1>2, <1>3, <1>4 DEF Rewritten

-----------------------------------------------------------------------------
(* EngineInv, the steps of a run that leave the packages alone.             *)

LEMMA ReadingKeepsInv ==
    ASSUME EngineInv, TypeOK', NEW d \in Device,
           RemoteChanged(d) \/ Start(d) \/ Load(d) \/ ReadRemote(d)
    PROVE  EngineInv'
<1> USE DEF settingsVars, tableVars, baseVars, remoteVars
<1>0. TypeOK /\ DeviceInv(d) /\ now \in Nat /\ run[d] \in Run /\ run'[d] \in Run
  BY DEF EngineInv, TypeOK
<1>1. CASE RemoteChanged(d)
  <2>1. OnlyTouches(d)
    BY <1>0, <1>1 DEF RemoteChanged, OnlyTouches, TypeOK
  <2>2. ~base'[d].has /\ run'[d].pc = "idle"
    BY <1>0, <1>1 DEF RemoteChanged, Running, TypeOK, NoBase
  <2>3. DeviceInv(d)'
    BY <1>0, <1>1, <2>2
       DEF RemoteChanged, DeviceInv, SeenIsCurrent, CarriesSeen, ForcePushServed,
           OwnersKept, HoldsRow, ChangesLogged, DeviceSafe
  <2>4. QED
    BY <2>1, <2>3, OwnStepKeepsInv
<1>2. CASE Start(d)
  <2>1. OnlyTouches(d)
    BY <1>0, <1>2 DEF Start, OnlyTouches, TypeOK
  <2>2. run'[d].pc = "load" /\ run'[d].gen = config[d].gen /\ config[d].gen \in Nat
    BY <1>0, <1>2 DEF Start, Idle, TypeOK
  <2>3. DeviceInv(d)'
    BY <1>0, <1>2, <2>2
       DEF Start, DeviceInv, SeenIsCurrent, CarriesSeen, ForcePushServed,
           OwnersKept, HoldsRow, ChangesLogged, DeviceSafe
  <2>4. QED
    BY <2>1, <2>3, OwnStepKeepsInv
<1>3. CASE Load(d)
  <2>1. OnlyTouches(d)
    BY <1>0, <1>3 DEF Load, OnlyTouches, TypeOK
  <2>2. /\ run'[d].pc = "read" /\ run'[d].since = now
        /\ run'[d].gen = run[d].gen /\ run'[d].force = run[d].force
        /\ run[d].force => run'[d].local = localDocument(d, now)
    BY <1>0, <1>3 DEF Load, TypeOK, Run
  <2>3. /\ UNCHANGED <<rows, log, base, config, owed, package, now>>
    BY <1>3 DEF Load
  <2>4. SeenIsCurrent(d)' /\ CarriesSeen(d)' /\ ForcePushServed(d)' /\ DeviceSafe(d)'
    BY <1>0, <2>2, <2>3
       DEF DeviceInv, SeenIsCurrent, CarriesSeen, ForcePushServed, DeviceSafe
  <2>5. OwnersKept(d)'
    <3>1. \A e \in Entity : HoldsRow(d, e) => HoldsRow(d, Owner[e])
      BY <1>0 DEF DeviceInv, OwnersKept
    <3>2. ASSUME NEW e \in Scope[d], run[d].force, IsLive(run'[d].local[e])
          PROVE  IsLive(run'[d].local[Owner[e]])
      BY <2>2, <3>1, <3>2, LocalIsRows, EngineAssumption, ScopeAssumption
    <3>3. QED
      BY <2>2, <2>3, <3>1, <3>2 DEF OwnersKept, HoldsRow
  <2>6. ChangesLogged(d)'
    <3>1. run[d].force => ChangedSince(d, run[d].local)'
      BY <2>2, <2>3, LocalIsRows DEF ChangedSince
    <3>2. QED
      BY <1>0, <2>2, <2>3, <3>1 DEF ChangesLogged
  <2>7. QED
    BY <2>1, <2>4, <2>5, <2>6, OwnStepKeepsInv DEF DeviceInv
<1>4. CASE ReadRemote(d)
  <2>1. OnlyTouches(d)
    BY <1>0, <1>4 DEF ReadRemote, OnlyTouches, TypeOK
  <2>2. /\ run'[d].pc = "local" /\ run'[d].since = run[d].since
        /\ run'[d].gen = run[d].gen /\ run'[d].force = run[d].force
        /\ run'[d].store = run[d].store /\ run'[d].seen = package[run[d].store].doc
        /\ run[d].pc = "read" /\ ~run[d].force
    <3>1. run'[d] = [run[d] EXCEPT !.pc = "local", !.seen = package[run[d].store].doc,
                                   !.tag = package[run[d].store].tag]
      BY <1>0, <1>4 DEF ReadRemote, TypeOK
    <3>2. run[d] \in Run /\ run[d].pc = "read" /\ ~run[d].force
      BY <1>0, <1>4 DEF ReadRemote, Running, TypeOK
    <3>3. QED
      BY <3>1, <3>2 DEF Run
  <2>3. UNCHANGED <<rows, log, base, config, owed, package, now>>
    BY <1>4 DEF ReadRemote
  <2>4. DeviceInv(d)'
    BY <1>0, <2>2, <2>3
       DEF DeviceInv, SeenIsCurrent, CarriesSeen, ForcePushServed,
           OwnersKept, HoldsRow, ChangesLogged, DeviceSafe
  <2>5. QED
    BY <2>1, <2>4, OwnStepKeepsInv
<1>5. QED
  BY <1>1, <1>2, <1>3, <1>4

LEMMA MergingKeepsInv ==
    ASSUME EngineInv, TypeOK', NEW d \in Device, MergeLocal(d) \/ ForceRead(d)
    PROVE  EngineInv'
<1> USE DEF settingsVars, tableVars, baseVars, remoteVars
<1>0. TypeOK /\ DeviceInv(d) /\ now \in Nat /\ run[d] \in Run
  BY DEF EngineInv, TypeOK
<1>1. run[d].base.doc \in Document /\ run[d].seen \in Document /\ run[d].local \in Document
  BY <1>0 DEF Run, Base
<1>2. CASE MergeLocal(d)
  <2> DEFINE b == restrict(run[d].base.doc, Scope[d])
             l == localDocument(d, run[d].since)
             r == restrict(run[d].seen, Scope[d])
             m == Merge(b, l, r, ~run[d].base.has, changedEntities(d))
             result == pruneOrphans(carryThrough(m, Scope[d], run[d].base.doc, run[d].seen))
  <2>1. OnlyTouches(d)
    BY <1>0, <1>2 DEF MergeLocal, OnlyTouches, TypeOK
  <2>2. run' = [run EXCEPT ![d].pc = "apply", ![d].local = l, ![d].merged = result]
    BY <1>2 DEF MergeLocal
  <2>3. m \in Document
    BY <1>0, <1>1, MergeType, PackageTypes, LocalTypes DEF Run
  <2>4. \A e \in Scope[d] : IsLive(result[e]) => IsLive(result[Owner[e]])
    BY <1>1, MergedOwnersLive
  <2>5. \A e \in Entity \ Scope[d] :
           Holds(run[d].seen, e) /\ Holds(result, Owner[e]) => result[e] = run[d].seen[e]
    BY <1>1, <2>3, CarriedIsRemote
  <2> HIDE DEF l, result
  <2>6. /\ run'[d].pc = "apply" /\ run'[d].merged = result /\ run'[d].since = run[d].since
        /\ run'[d].gen = run[d].gen /\ run'[d].force = run[d].force
        /\ run'[d].store = run[d].store /\ run'[d].seen = run[d].seen /\ run'[d].tag = run[d].tag
    BY <1>0, <2>2 DEF TypeOK, Run
  <2>7. run[d].pc = "local" /\ UNCHANGED <<rows, log, base, config, owed, package, now>>
    BY <1>2 DEF MergeLocal, Running
  <2>8. SeenIsCurrent(d)' /\ ForcePushServed(d)' /\ DeviceSafe(d)' /\ ChangesLogged(d)'
    BY <1>0, <2>6, <2>7
       DEF DeviceInv, SeenIsCurrent, Current, ForcePushServed, ChangesLogged, DeviceSafe
  <2>9. CarriesSeen(d)'
    BY <2>5, <2>6 DEF CarriesSeen
  <2>10. OwnersKept(d)'
    BY <1>0, <2>4, <2>6, <2>7 DEF DeviceInv, OwnersKept, HoldsRow
  <2>11. QED
    BY <2>1, <2>8, <2>9, <2>10, OwnStepKeepsInv DEF DeviceInv
<1>3. CASE ForceRead(d)
  <2> DEFINE stored == package[run[d].store]
             result == pruneOrphans(carryThrough(restrict(run[d].local, Scope[d]), Scope[d],
                                                 run[d].base.doc, stored.doc))
  <2>1. OnlyTouches(d)
    BY <1>0, <1>3 DEF ForceRead, OnlyTouches, TypeOK
  <2>2. run' = [run EXCEPT ![d].pc = "write", ![d].seen = stored.doc, ![d].tag = stored.tag,
                           ![d].merged = result]
    BY <1>3 DEF ForceRead
  <2>3. stored.doc \in Document /\ restrict(run[d].local, Scope[d]) \in Document
    BY <1>0, <1>1, PackageTypes DEF TypeOK, Run
  <2>4. \A e \in Entity \ Scope[d] :
           Holds(stored.doc, e) /\ Holds(result, Owner[e]) => result[e] = stored.doc[e]
    BY <1>1, <2>3, CarriedIsRemote
  <2>5. /\ run[d].pc = "read" /\ run[d].force
        /\ UNCHANGED <<rows, log, base, config, owed, package, now>>
    BY <1>3 DEF ForceRead, Running
  <2>6. \A e \in Scope[d] : Content(result[e]) = Content(run[d].local[e])
    <3>1. \A f \in Scope[d] : IsLive(run[d].local[f]) => IsLive(run[d].local[Owner[f]])
      BY <1>0, <2>5 DEF DeviceInv, OwnersKept
    <3>2. QED
      BY <1>1, <2>3, <3>1, ForcedIsLocal
  <2> HIDE DEF stored, result
  <2>7. /\ run'[d].pc = "write" /\ run'[d].merged = result /\ run'[d].since = run[d].since
        /\ run'[d].gen = run[d].gen /\ run'[d].force = run[d].force
        /\ run'[d].store = run[d].store /\ run'[d].seen = stored.doc
        /\ run'[d].local = run[d].local
    BY <1>0, <2>2 DEF TypeOK, Run
  <2>8. ForcePushServed(d)' /\ DeviceSafe(d)' /\ OwnersKept(d)'
    BY <1>0, <2>5, <2>7 DEF DeviceInv, ForcePushServed, DeviceSafe, OwnersKept, HoldsRow
  <2>9. SeenIsCurrent(d)'
    BY <2>5, <2>7 DEF SeenIsCurrent, stored
  <2>10. CarriesSeen(d)'
    BY <2>4, <2>7 DEF CarriesSeen
  <2>11. ChangesLogged(d)'
    <3>1. ChangedSince(d, run[d].local)
      BY <1>0, <2>5 DEF DeviceInv, ChangesLogged
    <3>2. ChangedSince(d, run[d].local)' /\ ChangedSince(d, run[d].merged)'
      BY <2>5, <2>6, <2>7, <3>1 DEF ChangedSince
    <3>3. QED
      BY <1>0, <2>5, <2>7, <3>2 DEF DeviceInv, ChangesLogged
  <2>12. QED
    BY <2>1, <2>8, <2>9, <2>10, <2>11, OwnStepKeepsInv DEF DeviceInv
<1>4. QED
  BY <1>2, <1>3

LEMMA ApplyKeepsInv ==
    ASSUME EngineInv, TypeOK', NEW d \in Device,
           Apply(d) \/ \E done \in SUBSET Scope[d] : StopInApply(d, done)
    PROVE  EngineInv'
<1> USE DEF settingsVars, tableVars, baseVars, remoteVars
<1>0. TypeOK /\ DeviceInv(d) /\ now \in Nat /\ run[d] \in Run
  BY DEF EngineInv, TypeOK
<1>1. CASE Apply(d)
  <2> DEFINE touched == Rewritten(d) \cup Removed(d, Entity) \cup Rebound(d)
  <2>1. /\ ApplyTo(d, Entity, touched) /\ run[d].pc = "apply"
        /\ UNCHANGED <<base, config, owed, package>>
    BY <1>1 DEF Apply, Running
  <2>2. ApplyPrefix(d, Entity)
    BY EngineAssumption, EntityAssumption DEF ApplyPrefix, Kept
  <2>3. (Rewritten(d) \cap Entity) \cup Removed(d, Entity) \subseteq touched
    OBVIOUS
  <2> HIDE DEF touched
  <2>4. /\ now <= now'
        /\ \A e \in Entity : \/ rows'[d][e] = rows[d][e] /\ log'[d][e] = log[d][e]
                             \/ log'[d][e] > now
        /\ \A e \in Entity : HoldsRow(d, e)' => HoldsRow(d, Owner[e])'
    BY <1>0, <2>1, <2>2, <2>3, ApplyEffect
  <2>5. \A e \in Scope[d] \ Seeded : Content(rows'[d][e]) = Content(run[d].merged[e])
    BY <1>0, <2>1, ApplyStoresMerged
  <2>6. OnlyTouches(d)
    BY <1>0, <1>1, <2>4 DEF Apply, ApplyTo, OnlyTouches, TypeOK
  <2>7. /\ run'[d].pc = "write" /\ run'[d].merged = run[d].merged /\ run'[d].since = run[d].since
        /\ run'[d].gen = run[d].gen /\ run'[d].force = run[d].force
        /\ run'[d].store = run[d].store /\ run'[d].seen = run[d].seen /\ run'[d].tag = run[d].tag
    BY <1>0, <1>1 DEF Apply, TypeOK, Run
  <2>8. ~run[d].force /\ run[d].since <= now
    BY <1>0, <2>1 DEF DeviceInv, ForcePushServed, ChangesLogged
  <2>9. SeenIsCurrent(d)' /\ CarriesSeen(d)' /\ ForcePushServed(d)'
    BY <1>0, <2>1, <2>7 DEF DeviceInv, SeenIsCurrent, Current, CarriesSeen, ForcePushServed
  <2>10. OwnersKept(d)'
    BY <2>4, <2>7, <2>8 DEF OwnersKept
  <2>11. ChangesLogged(d)'
    <3>1. run[d].since <= now'
      BY <1>0, <2>4, <2>8 DEF TypeOK, Run
    <3>2. ChangedSince(d, run[d].merged)'
      BY <2>5, <2>7 DEF ChangedSince
    <3>3. QED
      BY <2>7, <2>8, <3>1, <3>2 DEF ChangesLogged
  <2>12. DeviceSafe(d)'
    BY <1>0, <2>1, <2>4, LoggedChangeIsSafe DEF DeviceInv
  <2>13. QED
    BY <2>6, <2>9, <2>10, <2>11, <2>12, OwnStepKeepsInv DEF DeviceInv
<1>2. ASSUME NEW done \in SUBSET Scope[d], StopInApply(d, done) PROVE EngineInv'
  <2> DEFINE touched == (Rewritten(d) \cap done) \cup Removed(d, done)
  <2>1. /\ ApplyTo(d, done, touched) /\ ApplyPrefix(d, done) /\ run[d].pc = "apply"
        /\ UNCHANGED <<base, config, owed, package>>
    BY <1>2 DEF StopInApply, Running
  <2>2. (Rewritten(d) \cap done) \cup Removed(d, done) \subseteq touched
    OBVIOUS
  <2> HIDE DEF touched
  <2>3. /\ now <= now'
        /\ \A e \in Entity : \/ rows'[d][e] = rows[d][e] /\ log'[d][e] = log[d][e]
                             \/ log'[d][e] > now
        /\ \A e \in Entity : HoldsRow(d, e)' => HoldsRow(d, Owner[e])'
    BY <1>0, <2>1, <2>2, ApplyEffect
  <2>4. OnlyTouches(d) /\ run'[d] = Idle
    <3>1. run'[d] = Idle /\ \A x \in Device \ {d} : run'[x] = run[x]
      BY <1>0, <1>2 DEF StopInApply, TypeOK
    <3>2. \A x \in Device \ {d} : rows'[x] = rows[x] /\ log'[x] = log[x]
      BY <1>0, <2>1 DEF ApplyTo, TypeOK
    <3>3. QED
      BY <2>1, <2>3, <3>1, <3>2 DEF OnlyTouches
  <2>5. DeviceSafe(d)'
    BY <1>0, <2>1, <2>3, LoggedChangeIsSafe DEF DeviceInv
  <2>6. QED
    BY <2>3, <2>4, <2>5, IdleKeepsInv, OwnStepKeepsInv
<1>3. QED
  BY <1>1, <1>2

-----------------------------------------------------------------------------
(* EngineInv, the write and what follows it.                                *)

\* A package a device stores gets a tag that no run holds.
LEMMA StoringKeepsOthers ==
    ASSUME EngineInv, TypeOK', NEW d \in Device, StorePackage(d), now' = now,
           UNCHANGED <<rows, log, base, config>>,
           \A x \in Device \ {d} : run'[x] = run[x],
           NEW x \in Device \ {d}
    PROVE  DeviceInv(x)'
<1>1. PICK t \in Tag :
         /\ FreshTag(d, t)
         /\ package' = [package EXCEPT ![run[d].store] = [doc |-> run[d].merged, tag |-> t]]
         /\ owed' = [owed EXCEPT ![d] = @ /\ ~(run[d].force /\ run[d].gen = config[d].gen)]
  BY DEF StorePackage
<1>2. TypeOK /\ DeviceInv(x) /\ now <= now'
  BY DEF EngineInv, TypeOK
<1>3. t # run[x].tag
  BY <1>1 DEF FreshTag
<1>4. run[d].store \in Store /\ run[x].store \in Store
  BY <1>2 DEF TypeOK, Run
<1>5. owed'[x] = owed[x]
  BY <1>1, <1>2 DEF TypeOK
<1>6. \/ package'[run[x].store] = package[run[x].store]
      \/ package'[run[x].store].tag # run[x].tag
  BY <1>1, <1>2, <1>3, <1>4 DEF TypeOK
<1>7. QED
  BY <1>2, <1>5, <1>6, OthersKeepInv

LEMMA WritingKeepsInv ==
    ASSUME EngineInv, TypeOK', NEW d \in Device,
           Write(d) \/ WriteAnswerLost(d) \/ WriteRefused(d)
    PROVE  EngineInv'
<1> USE DEF settingsVars, tableVars, baseVars, remoteVars
<1>0. TypeOK /\ DeviceInv(d) /\ now \in Nat /\ run[d] \in Run
  BY DEF EngineInv, TypeOK
<1>1. ASSUME StorePackage(d)
      PROVE  owed'[d] => owed[d] /\ ~(run[d].force /\ run[d].gen = config[d].gen)
  BY <1>0, <1>1 DEF StorePackage, TypeOK
<1>2. \A e \in Entity : HoldsRow(d, e) => HoldsRow(d, Owner[e])
  BY <1>0 DEF DeviceInv, OwnersKept
<1>3. CASE Write(d)
  <2>1. /\ run[d].pc = "write" /\ StorePackage(d)
        /\ UNCHANGED <<rows, log, base, config, now>>
    BY <1>3 DEF Write, Running
  <2>2. \A x \in Device \ {d} : run'[x] = run[x]
    BY <1>0, <1>3 DEF Write, TypeOK
  <2>3. /\ run'[d].pc = "baseline" /\ run'[d].force = run[d].force /\ run'[d].gen = run[d].gen
        /\ run'[d].since = run[d].since /\ run'[d].merged = run[d].merged
    BY <1>0, <1>3 DEF Write, Idle, TypeOK
  <2>4. SeenIsCurrent(d)' /\ CarriesSeen(d)' /\ OwnersKept(d)'
    BY <1>2, <2>1, <2>3 DEF SeenIsCurrent, CarriesSeen, OwnersKept, HoldsRow
  <2>5. ForcePushServed(d)' /\ DeviceSafe(d)'
    BY <1>0, <1>1, <2>1, <2>3 DEF DeviceInv, ForcePushServed, DeviceSafe
  <2>6. ChangesLogged(d)'
    BY <1>0, <2>1, <2>3 DEF DeviceInv, ChangesLogged, ChangedSince
  <2>7. QED
    BY <2>1, <2>2, <2>4, <2>5, <2>6, StoringKeepsOthers DEF EngineInv, DeviceInv
<1>4. CASE WriteAnswerLost(d)
  <2>1. StorePackage(d) /\ UNCHANGED <<rows, log, base, config, now>>
    BY <1>4 DEF WriteAnswerLost
  <2>2. run'[d] = Idle /\ \A x \in Device \ {d} : run'[x] = run[x]
    BY <1>0, <1>4 DEF WriteAnswerLost, Return, TypeOK
  <2>3. DeviceSafe(d)'
    BY <1>0, <1>1, <2>1 DEF DeviceInv, DeviceSafe
  <2>4. DeviceInv(d)'
    BY <1>2, <2>1, <2>2, <2>3, IdleKeepsInv DEF HoldsRow
  <2>5. QED
    BY <2>1, <2>2, <2>4, StoringKeepsOthers DEF EngineInv
<1>5. CASE WriteRefused(d)
  <2>1. run[d].pc = "write" /\ UNCHANGED <<rows, log, base, config, owed, package, now>>
    BY <1>5 DEF WriteRefused, Running
  <2>2. OnlyTouches(d)
    BY <1>0, <1>5 DEF WriteRefused, Return, OnlyTouches, TypeOK
  <2>3. CASE Return(d)
    <3>1. run'[d] = Idle
      BY <1>0, <2>3 DEF Return, TypeOK
    <3>2. DeviceInv(d)'
      BY <1>0, <1>2, <2>1, <3>1, IdleKeepsInv DEF HoldsRow, DeviceInv, DeviceSafe
    <3>3. QED
      BY <2>2, <3>2, OwnStepKeepsInv
  <2>4. CASE run' = [run EXCEPT ![d].pc = "read", ![d].attempt = @ + 1, ![d].tag = 0,
                                ![d].seen = EmptyDocument, ![d].merged = EmptyDocument]
    <3>1. /\ run'[d].pc = "read" /\ run'[d].since = run[d].since /\ run'[d].local = run[d].local
          /\ run'[d].gen = run[d].gen /\ run'[d].force = run[d].force
      BY <1>0, <2>4 DEF TypeOK, Run
    <3>2. DeviceInv(d)'
      BY <1>0, <2>1, <3>1
         DEF DeviceInv, SeenIsCurrent, CarriesSeen, ForcePushServed,
             OwnersKept, HoldsRow, ChangesLogged, ChangedSince, DeviceSafe
    <3>3. QED
      BY <2>2, <3>2, OwnStepKeepsInv
  <2>5. QED
    BY <1>5, <2>3, <2>4 DEF WriteRefused
<1>6. QED
  BY <1>3, <1>4, <1>5

LEMMA FinishKeepsInv ==
    ASSUME EngineInv, TypeOK', NEW d \in Device,
           \/ PutBaseline(d) \/ RecordSyncResult(d) \/ ClearChanges(d)
           \/ ConsumeForcePush(d) \/ Stop(d)
    PROVE  EngineInv'
<1> USE DEF settingsVars, tableVars, baseVars, remoteVars
<1>0. /\ TypeOK /\ DeviceInv(d) /\ now \in Nat /\ run[d] \in Run
      /\ \A e \in Entity : log[d][e] \in Nat
  BY DEF EngineInv, TypeOK
<1>1. \A e \in Entity : HoldsRow(d, e) => HoldsRow(d, Owner[e])
  BY <1>0 DEF DeviceInv, OwnersKept
<1>2. Scope[d] \subseteq Entity /\ run[d].since \in Nat
  BY <1>0, EngineAssumption DEF Run
<1>3. CASE PutBaseline(d)
  <2>1. run[d].pc = "baseline" /\ UNCHANGED <<rows, log, config, owed, package, now>>
    BY <1>3 DEF PutBaseline, Running
  <2>2. OnlyTouches(d)
    BY <1>0, <1>3 DEF PutBaseline, OnlyTouches, TypeOK
  <2>3. /\ run'[d].pc = "record" /\ run'[d].since = run[d].since /\ run'[d].merged = run[d].merged
        /\ run'[d].gen = run[d].gen /\ run'[d].force = run[d].force
        /\ base'[d].doc = run[d].merged
    BY <1>0, <1>3 DEF PutBaseline, TypeOK, Run
  <2>4. ChangedSince(d, run[d].merged)
    BY <1>0, <2>1 DEF DeviceInv, ChangesLogged
  <2>5. DeviceSafe(d)'
    <3>1. \A e \in Scope[d] \ Seeded :
             Content(rows[d][e]) # Content(run[d].merged[e]) => log[d][e] # 0
      BY <1>0, <1>2, <2>4 DEF ChangedSince
    <3>2. QED
      BY <1>0, <2>1, <2>3, <3>1 DEF DeviceInv, DeviceSafe
  <2>6. SeenIsCurrent(d)' /\ CarriesSeen(d)' /\ ForcePushServed(d)' /\ OwnersKept(d)'
    BY <1>0, <2>1, <2>3
       DEF DeviceInv, SeenIsCurrent, CarriesSeen, ForcePushServed, OwnersKept, HoldsRow
  <2>7. ChangesLogged(d)'
    BY <1>0, <2>1, <2>3 DEF DeviceInv, ChangesLogged, ChangedSince
  <2>8. QED
    BY <2>2, <2>5, <2>6, <2>7, OwnStepKeepsInv DEF DeviceInv
<1>4. CASE RecordSyncResult(d)
  <2>1. run[d].pc = "record" /\ UNCHANGED <<rows, log, base, config, owed, package, now>>
    BY <1>4 DEF RecordSyncResult, Running
  <2>2. OnlyTouches(d)
    BY <1>0, <1>4 DEF RecordSyncResult, OnlyTouches, TypeOK
  <2>3. /\ run'[d].pc = "clear" /\ run'[d].since = run[d].since /\ run'[d].merged = run[d].merged
        /\ run'[d].gen = run[d].gen /\ run'[d].force = run[d].force
    BY <1>0, <1>4 DEF RecordSyncResult, TypeOK, Run
  <2>4. DeviceInv(d)'
    BY <1>0, <2>1, <2>3
       DEF DeviceInv, SeenIsCurrent, CarriesSeen, ForcePushServed, OwnersKept, HoldsRow,
           ChangesLogged, ChangedSince, DeviceSafe
  <2>5. QED
    BY <2>2, <2>4, OwnStepKeepsInv
<1>5. CASE ClearChanges(d)
  <2>1. run[d].pc = "clear" /\ UNCHANGED <<rows, base, config, owed, package, now>>
    BY <1>5 DEF ClearChanges, Running
  <2>2. OnlyTouches(d)
    BY <1>0, <1>5 DEF ClearChanges, Return, OnlyTouches, TypeOK
  <2>3. log'[d] = [e \in Entity |-> IF log[d][e] <= run[d].since THEN 0 ELSE log[d][e]]
    BY <1>0, <1>5 DEF ClearChanges, TypeOK
  <2>4. DeviceSafe(d)'
    <3>1. base[d].has => base[d].doc = run[d].merged /\ ChangedSince(d, run[d].merged)
      BY <1>0, <2>1 DEF DeviceInv, ChangesLogged
    <3>2. \A e \in Entity : log[d][e] > run[d].since => log'[d][e] # 0
      BY <1>0, <1>2, <2>3
    <3>3. QED
      BY <1>0, <1>2, <2>1, <3>1, <3>2 DEF DeviceInv, DeviceSafe, ChangedSince
  <2>5. CASE Return(d)
    <3>1. run'[d] = Idle
      BY <1>0, <2>5 DEF Return, TypeOK
    <3>2. QED
      BY <1>1, <2>1, <2>2, <2>4, <3>1, IdleKeepsInv, OwnStepKeepsInv DEF HoldsRow
  <2>6. CASE run[d].force /\ run' = [run EXCEPT ![d].pc = "consume"]
    <3>1. /\ run'[d].pc = "consume" /\ run'[d].since = run[d].since
          /\ run'[d].gen = run[d].gen /\ run'[d].force = run[d].force
      BY <1>0, <2>6 DEF TypeOK, Run
    <3>2. ForcePushServed(d)'
      BY <1>0, <2>1, <2>6, <3>1 DEF DeviceInv, ForcePushServed
    <3>3. SeenIsCurrent(d)' /\ CarriesSeen(d)' /\ OwnersKept(d)' /\ ChangesLogged(d)'
      BY <1>0, <2>1, <3>1
         DEF DeviceInv, SeenIsCurrent, CarriesSeen, OwnersKept, HoldsRow, ChangesLogged
    <3>4. QED
      BY <2>2, <2>4, <3>2, <3>3, OwnStepKeepsInv DEF DeviceInv
  <2>7. QED
    BY <1>5, <2>5, <2>6 DEF ClearChanges
<1>6. CASE ConsumeForcePush(d)
  <2>1. run[d].pc = "consume" /\ UNCHANGED <<rows, log, base, owed, package, now>>
    BY <1>6 DEF ConsumeForcePush, Running
  <2>2. OnlyTouches(d) /\ run'[d] = Idle
    BY <1>0, <1>6 DEF ConsumeForcePush, Return, OnlyTouches, TypeOK
  <2>3. config[d].force /\ config[d].gen # run[d].gen => config'[d].force
    BY <1>0, <1>6 DEF ConsumeForcePush, TypeOK
  <2>4. DeviceSafe(d)'
    BY <1>0, <2>1, <2>3 DEF DeviceInv, DeviceSafe, ForcePushServed
  <2>5. QED
    BY <1>1, <2>1, <2>2, <2>4, IdleKeepsInv, OwnStepKeepsInv DEF HoldsRow
<1>7. CASE Stop(d)
  <2>1. UNCHANGED <<rows, log, base, config, owed, package, now>>
    BY <1>7 DEF Stop
  <2>2. OnlyTouches(d) /\ run'[d] = Idle
    BY <1>0, <1>7 DEF Stop, OnlyTouches, TypeOK
  <2>3. DeviceSafe(d)'
    BY <1>0, <2>1 DEF DeviceInv, DeviceSafe
  <2>4. QED
    BY <1>1, <2>1, <2>2, <2>3, IdleKeepsInv, OwnStepKeepsInv DEF HoldsRow
<1>8. QED
  BY <1>3, <1>4, <1>5, <1>6, <1>7

-----------------------------------------------------------------------------
(* The theorems.                                                            *)

LEMMA NextKeepsInv ==
    ASSUME EngineInv, [Next]_vars
    PROVE  EngineInv'
<1> USE DEF settingsVars, tableVars, baseVars, remoteVars
<1>0. TypeOK /\ TypeOK' /\ now \in Nat /\ \A x \in Device : DeviceInv(x)
  BY NextKeepsTypes DEF EngineInv, TypeOK
<1>1. ASSUME NEW d \in Device, Install(d) \/ User(d) \/ ConfigureReset(d) PROVE EngineInv'
  BY <1>0, <1>1, UserKeepsInv
<1>2. ASSUME NEW d \in Device, Start(d) \/ RunStep(d) PROVE EngineInv'
  BY <1>0, <1>2, ReadingKeepsInv, MergingKeepsInv, ApplyKeepsInv, WritingKeepsInv, FinishKeepsInv
     DEF RunStep
<1>3. ASSUME NEW d \in Device, Fault(d) PROVE EngineInv'
  BY <1>0, <1>3, ApplyKeepsInv, WritingKeepsInv, FinishKeepsInv DEF Fault
<1>4. ASSUME UNCHANGED <<now, rows, log, base, config, owed, package, run>> PROVE EngineInv'
  <2>1. ASSUME NEW x \in Device PROVE DeviceInv(x)'
    BY <1>0, <1>4, OthersKeepInv
  <2>2. QED
    BY <1>0, <2>1 DEF EngineInv
<1>5. ASSUME NEW s \in Store, Lapse(s) PROVE EngineInv'
  BY <1>4, <1>5 DEF Lapse
<1>6. CASE UNCHANGED vars
  BY <1>4, <1>6 DEF vars
<1>7. QED
  BY <1>1, <1>2, <1>3, <1>5, <1>6 DEF Next

(* The inductive invariant of the sync engine.                              *)
THEOREM EngineInvariant == Spec => []EngineInv
<1>1. Init => EngineInv
  BY InitTypeOK, InitDeviceInv DEF EngineInv
<1>2. QED
  BY <1>1, NextKeepsInv, PTL DEF Spec

(* A save that no package holds is always still in the change log, however  *)
(* the user's saves, the devices' runs, the settings and the faults         *)
(* interleave.                                                              *)
THEOREM ChangesStayPending == Spec => []UnpublishedChangeIsPending
<1>1. EngineInv => UnpublishedChangeIsPending
  BY DEF EngineInv, DeviceInv, DeviceSafe, UnpublishedChangeIsPending
<1>2. QED
  BY <1>1, EngineInvariant, PTL

(* A force push the user armed is carried out before it is disarmed.        *)
THEOREM ForcePushIsHonoured == Spec => []ForcePushHonoured
<1>1. EngineInv => ForcePushHonoured
  BY DEF EngineInv, DeviceInv, DeviceSafe, ForcePushHonoured
<1>2. QED
  BY <1>1, EngineInvariant, PTL

(* No row is ever stored without the service it belongs to, wherever an     *)
(* apply stopped.                                                           *)
THEOREM RowsHaveOwners == Spec => []NoDanglingRow
<1>1. EngineInv => NoDanglingRow
  BY DEF EngineInv, DeviceInv, OwnersKept, NoDanglingRow
<1>2. QED
  BY <1>1, EngineInvariant, PTL

\* The only steps that change a package are the writes, of a current tag.
LEMMA OnlyWritesChangePackages ==
    ASSUME TypeOK, [Next]_vars, NEW s \in Store, package'[s] # package[s]
    PROVE  \E d \in Device : /\ run[d].pc = "write" /\ run[d].store = s
                             /\ Current(d) /\ package'[s].doc = run[d].merged
<1> USE DEF settingsVars, tableVars, baseVars, remoteVars
<1>1. PICK d \in Device : Write(d) \/ WriteAnswerLost(d)
  <2>1. ASSUME NEW d \in Device, Install(d) \/ User(d) \/ ConfigureReset(d) PROVE FALSE
    BY <2>1 DEF Install, User, Save, Delete, Configure, ConfigureReset
  <2>2. ASSUME NEW d \in Device,
               Start(d) \/ Fault(d) \/ RunStep(d), ~Write(d), ~WriteAnswerLost(d)
        PROVE  FALSE
    BY <2>2 DEF Start, Fault, RunStep, RemoteChanged, Load, ReadRemote, MergeLocal, ForceRead,
                Apply, StopInApply, WriteRefused, PutBaseline, RecordSyncResult, ClearChanges,
                ConsumeForcePush, Stop
  <2>3. ASSUME NEW x \in Store, Lapse(x) PROVE FALSE
    BY <2>3 DEF Lapse
  <2>4. QED
    BY <2>1, <2>2, <2>3 DEF Next, vars
<1>2. run[d].pc = "write" /\ Current(d) /\ StorePackage(d)
  BY <1>1 DEF Write, WriteAnswerLost, Running
<1>3. run[d].store = s /\ package'[s].doc = run[d].merged
  BY <1>2 DEF StorePackage, TypeOK, Run
<1>4. QED
  BY <1>2, <1>3

(* A write replaces the very package its run read and merged: overlapping   *)
(* runs after a lapsed lease do not lose each other's write.                *)
THEOREM WritesReplaceWhatTheyRead == Spec => WriteReplacesWhatItRead
<1>1. ASSUME EngineInv, [Next]_vars, NEW s \in Store, package'[s] # package[s]
      PROVE  \E d \in Device : /\ run[d].pc = "write" /\ run[d].store = s
                               /\ run[d].seen = package[s].doc
                               /\ package'[s].doc = run[d].merged
  BY <1>1, OnlyWritesChangePackages DEF EngineInv, DeviceInv, SeenIsCurrent
<1>2. EngineInv /\ [Next]_vars =>
        [\A s \in Store : package'[s] # package[s] =>
           \E d \in Device : /\ run[d].pc = "write" /\ run[d].store = s
                             /\ run[d].seen = package[s].doc
                             /\ package'[s].doc = run[d].merged]_vars
  BY <1>1
<1>3. QED
  BY <1>2, EngineInvariant, PTL DEF Spec, WriteReplacesWhatItRead

(* A device that leaves a kind out writes back the remote's current copy of *)
(* it.                                                                      *)
THEOREM OtherKindsAreCarried == Spec => NarrowScopeCarriesRemote
<1>1. ASSUME EngineInv, [Next]_vars, NEW s \in Store, package'[s] # package[s]
      PROVE  \E d \in Device : /\ run[d].pc = "write" /\ run[d].store = s
                               /\ \A e \in Entity \ Scope[d] :
                                    Holds(package[s].doc, e) /\ Holds(package'[s].doc, Owner[e])
                                      => package'[s].doc[e] = package[s].doc[e]
  BY <1>1, OnlyWritesChangePackages DEF EngineInv, DeviceInv, SeenIsCurrent, CarriesSeen
<1>2. EngineInv /\ [Next]_vars =>
        [\A s \in Store : package'[s] # package[s] =>
           \E d \in Device : /\ run[d].pc = "write" /\ run[d].store = s
                             /\ \A e \in Entity \ Scope[d] :
                                  Holds(package[s].doc, e) /\ Holds(package'[s].doc, Owner[e])
                                    => package'[s].doc[e] = package[s].doc[e]]_vars
  BY <1>1
<1>3. QED
  BY <1>2, EngineInvariant, PTL DEF Spec, NarrowScopeCarriesRemote
-----------------------------------------------------------------------------
(* The merge base and its remote.                                           *)

\* The process stops in the first run with a remote, between the two statements
\* that store its base and pin it (engine.go:892).
StopsUnpinned(d) == Stop(d) /\ run[d].pc = "record" /\ pin[d] = "none"

\* A stored base was exchanged with the pinned remote, or with the one the run in
\* progress is about to pin; a run talks to the pinned remote, if one is.
RemoteKept(d) ==
    /\ base[d].has =>
         /\ base[d].from # "none"
         /\ base[d].from = IF run[d].pc = "record" THEN run[d].store ELSE pin[d]
    /\ run[d].pc \notin {"uninstalled", "idle"} => pin[d] \in {"none", run[d].store}
    /\ run[d].base.has => run[d].base.from = run[d].store

LEMMA OthersKeepRemote ==
    ASSUME NEW x \in Device, RemoteKept(x), base'[x] = base[x], pin'[x] = pin[x], run'[x] = run[x]
    PROVE  RemoteKept(x)'
BY DEF RemoteKept

LEMMA StepKeepsRemote ==
    ASSUME TypeOK, NEW d \in Device, NEW x \in Device, RemoteKept(x), ~StopsUnpinned(x),
           Install(d) \/ User(d) \/ ConfigureReset(d) \/ Start(d) \/ RunStep(d) \/ Fault(d)
    PROVE  RemoteKept(x)'
<1> USE DEF settingsVars, tableVars, baseVars, remoteVars
<1>1. CASE x # d
  <2>1. base'[x] = base[x] /\ pin'[x] = pin[x] /\ run'[x] = run[x]
    <3>1. CASE Install(d) \/ User(d) \/ ConfigureReset(d) \/ Start(d)
      BY <1>1, <3>1 DEF TypeOK, Install, User, Save, Delete, Configure, ConfigureReset, Start
    <3>2. CASE RunStep(d)
      BY <1>1, <3>2
         DEF TypeOK, RunStep, RemoteChanged, Load, ReadRemote, MergeLocal, ForceRead, Apply,
             Write, WriteRefused, PutBaseline, RecordSyncResult, ClearChanges,
             ConsumeForcePush, Return
    <3>3. CASE Fault(d)
      BY <1>1, <3>3 DEF TypeOK, Fault, StopInApply, WriteAnswerLost, Stop, Return
    <3>4. QED
      BY <3>1, <3>2, <3>3
  <2>2. QED
    BY <2>1, OthersKeepRemote
<1>2. CASE x = d
  <2>0. /\ RemoteKept(d) /\ ~StopsUnpinned(d) /\ run[d] \in Run /\ run[d].store \in Store
        /\ "none" \notin Store /\ config[d].store \in Store
    BY <1>2, EngineAssumption DEF TypeOK, Run
  <2> HIDE DEF StopsUnpinned
  <2>1. CASE Install(d)
    BY <1>2, <2>0, <2>1 DEF TypeOK, Install, Idle, NoBase, RemoteKept
  <2>2. CASE User(d)
    BY <1>2, <2>0, <2>2, OthersKeepRemote DEF User, Save, Delete, Configure
  <2>3. CASE ConfigureReset(d)
    BY <1>2, <2>0, <2>3 DEF TypeOK, ConfigureReset, NoBase, RemoteKept
  <2>4. CASE Start(d)
    BY <1>2, <2>0, <2>4 DEF TypeOK, Start, Running, Idle, NoBase, RemoteKept
  <2>5. CASE RemoteChanged(d)
    BY <1>2, <2>0, <2>5 DEF TypeOK, RemoteChanged, Running, NoBase, RemoteKept
  <2>6. CASE Load(d)
    BY <1>2, <2>0, <2>6 DEF TypeOK, Load, Running, Run, RemoteKept
  <2>7. CASE ReadRemote(d) \/ MergeLocal(d) \/ ForceRead(d) \/ Apply(d)
    <3>1. /\ base'[d] = base[d] /\ pin'[d] = pin[d] /\ run'[d].store = run[d].store
          /\ run'[d].base = run[d].base
          /\ run[d].pc \in {"read", "local", "apply"}
          /\ run'[d].pc \in {"local", "apply", "write"}
      BY <2>0, <2>7 DEF TypeOK, ReadRemote, MergeLocal, ForceRead, Apply, Running, Run
    <3>2. QED
      BY <1>2, <2>0, <3>1 DEF RemoteKept
  <2>8. CASE Write(d)
    BY <1>2, <2>0, <2>8 DEF TypeOK, Write, Running, Idle, NoBase, RemoteKept
  <2>9. CASE WriteRefused(d)
    BY <1>2, <2>0, <2>9 DEF TypeOK, WriteRefused, Return, Running, Run, Idle, NoBase, RemoteKept
  <2>10. CASE PutBaseline(d)
    BY <1>2, <2>0, <2>10 DEF TypeOK, PutBaseline, Running, Run, RemoteKept
  <2>11. CASE RecordSyncResult(d)
    BY <1>2, <2>0, <2>11 DEF TypeOK, RecordSyncResult, Running, Run, RemoteKept
  <2>12. CASE ClearChanges(d) \/ ConsumeForcePush(d)
    <3>1. UNCHANGED <<base, pin>> /\ run[d].pc \in {"clear", "consume"}
      BY <2>12 DEF ClearChanges, ConsumeForcePush, Running
    <3>2. run' = [run EXCEPT ![d] = Idle] \/ run' = [run EXCEPT ![d].pc = "consume"]
      BY <2>12 DEF ClearChanges, ConsumeForcePush, Return
    <3>3. \/ run'[d] = Idle
          \/ run'[d].pc = "consume" /\ run'[d].store = run[d].store /\ run'[d].base = run[d].base
      BY <2>0, <3>2 DEF TypeOK, Run
    <3>4. QED
      BY <1>2, <2>0, <3>1, <3>3 DEF Idle, NoBase, RemoteKept
  <2>13. CASE Fault(d)
    <3>1. /\ base'[d] = base[d] /\ pin'[d] = pin[d] /\ run'[d] = Idle
          /\ run[d].pc = "record" => pin[d] # "none"
      BY <2>0, <2>13
         DEF TypeOK, Fault, StopInApply, WriteAnswerLost, Stop, StopsUnpinned, Return,
             Running
    <3>2. QED
      BY <1>2, <2>0, <3>1 DEF Idle, NoBase, RemoteKept
  <2>14. QED
    BY <2>1, <2>2, <2>3, <2>4, <2>5, <2>6, <2>7, <2>8, <2>9, <2>10, <2>11, <2>12, <2>13,
       <1>2 DEF RunStep
<1>3. QED
  BY <1>1, <1>2

(* A run merges against a base that was exchanged with the remote it talks  *)
(* to, whatever settings are saved at any moment of a run, unless the       *)
(* process stops between the two statements that end the first run.         *)
THEOREM BasesBelongToTheirRemote ==
    Spec /\ [][\A d \in Device : ~StopsUnpinned(d)]_vars => []BaseBelongsToRemote
<1> DEFINE Inv == \A x \in Device : RemoteKept(x)
<1>1. Init => Inv
  BY DEF Init, RemoteKept, Idle, NoBase
<1>2. TypeOK /\ Inv /\ [Next]_vars /\ [\A d \in Device : ~StopsUnpinned(d)]_vars => Inv'
  <2>1. CASE UNCHANGED vars
    BY <2>1, OthersKeepRemote DEF vars, baseVars
  <2>2. ASSUME NEW s \in Store, Lapse(s), Inv PROVE Inv'
    BY <2>2, OthersKeepRemote DEF Lapse, baseVars
  <2>3. ASSUME TypeOK, Inv, NEW d \in Device, \A x \in Device : ~StopsUnpinned(x),
               Install(d) \/ User(d) \/ ConfigureReset(d) \/ Start(d) \/ RunStep(d) \/ Fault(d)
        PROVE  Inv'
    BY <2>3, StepKeepsRemote
  <2>4. QED
    BY <2>1, <2>2, <2>3 DEF Next
<1>3. Inv => BaseBelongsToRemote
  BY DEF RemoteKept, BaseBelongsToRemote
<1>4. QED
  BY <1>1, <1>2, <1>3, TypeCorrect, PTL DEF Spec
-----------------------------------------------------------------------------
(* The package never goes back to an older edit.                            *)

\* A run that has written rows ends, or starts over, before its base is stored.
LeavesBaseBehind(d) ==
    \/ \E done \in SUBSET Scope[d] : StopInApply(d, done)
    \/ run[d].pc \in {"write", "baseline"} /\ (Stop(d) \/ WriteAnswerLost(d) \/ WriteRefused(d))

\* Every copy of an entity that is held anywhere.
CopiesAt(d, e) ==
    {rows[d][e], base[d].doc[e], run[d].base.doc[e], run[d].seen[e], run[d].local[e],
     run[d].merged[e]}
Copies(e) == (UNION {CopiesAt(d, e) : d \in Device}) \cup {package[s].doc[e] : s \in Store}

\* The edits and the stamps in use were handed out.
HandedOut(e) == \A c \in Copies(e) : IsLive(c) => c.val <= edits /\ c.at <= now

\* The row's stamp is no later than that of any newer edit.
Dated(d, e) ==
    \A c \in Copies(e) : IsLive(c) /\ c.val > rows[d][e].val => c.at > rows[d][e].at

\* What a row is compared with: the base, or the merge that is about to become it.
Settling(d) == run[d].pc \in {"write", "baseline"}
Reference(d) == IF Settling(d) THEN run[d].merged ELSE base[d].doc

\* A row that is not the reference's copy carries the stamp of its own edit, and
\* no row is older than the reference; without a base the same holds of a row
\* in the change log.
RowDated(d, e) ==
    e \in Scope[d] /\ HoldsRow(d, e) =>
        IF base[d].has \/ Settling(d)
        THEN /\ Content(rows[d][e]) # Content(Reference(d)[e]) => Dated(d, e)
             /\ IsLive(Reference(d)[e]) => Reference(d)[e].val <= rows[d][e].val
        ELSE log[d][e] # 0 => Dated(d, e)

\* A package, and so a base and a merge, keeps no tombstone.
LiveOrAbsent(c) == IsLive(c) \/ c = Absent
Plain(d, e) ==
    /\ LiveOrAbsent(base[d].doc[e])
    /\ LiveOrAbsent(run[d].seen[e])
    /\ LiveOrAbsent(run[d].merged[e])

\* A seeded entity is on every device, and stays in the package once it is there.
Present(d, e) ==
    e \in Seeded =>
        /\ run[d].pc # "uninstalled" => HoldsRow(d, e)
        /\ IsLive(base[d].doc[e]) => IsLive(package[FirstStore].doc[e])
        /\ IsLive(run[d].seen[e]) => IsLive(package[FirstStore].doc[e])
        /\ run[d].pc = "baseline" /\ IsLive(run[d].merged[e])
             => IsLive(package[FirstStore].doc[e])
        /\ run[d].pc = "local" /\ IsLive(base[d].doc[e]) => IsLive(run[d].seen[e])
        /\ run[d].pc \in {"apply", "write"} =>
              /\ IsLive(run[d].seen[e]) => IsLive(run[d].merged[e])
              /\ e \in Scope[d] => IsLive(run[d].merged[e])

\* What a run is about to write is no older than what it has read.
Advances(d, e) ==
    /\ run[d].pc \in {"apply", "write"} /\ IsLive(run[d].seen[e]) /\ IsLive(run[d].merged[e])
         => run[d].seen[e].val <= run[d].merged[e].val
    /\ run[d].pc = "uninstalled" => log[d][e] = 0

\* A device's part.
Keeps(d, e) == RowDated(d, e) /\ Plain(d, e) /\ Present(d, e) /\ Advances(d, e)

\* What holds of an entity, wherever it is held.
EntityInv(e) ==
    /\ HandedOut(e) /\ \A s \in Store : LiveOrAbsent(package[s].doc[e])
    /\ \A d \in Device : Keeps(d, e)

\* Without settings saves every run talks to the first store, and merges
\* against the base its device has stored.
OneRemote(d) ==
    /\ settings = 0 /\ config[d] = [store |-> FirstStore, force |-> FALSE, gen |-> 0]
    /\ pin[d] \in {"none", FirstStore} /\ ~resetDue[d]
    /\ run[d].store = FirstStore /\ ~run[d].force
    /\ base[d].has \/ base[d] = NoBase
    /\ run[d].pc \in {"read", "local", "apply", "write"} => run[d].base = base[d]

\* A device does something.
AStep(d) == Install(d) \/ User(d) \/ ConfigureReset(d) \/ Start(d) \/ RunStep(d) \/ Fault(d)

\* A device changes only its own tables, base, and run.
LEMMA StepsOfOne ==
    ASSUME TypeOK, NEW d \in Device, AStep(d), NEW x \in Device \ {d}
    PROVE  /\ rows'[x] = rows[x] /\ log'[x] = log[x] /\ base'[x] = base[x] /\ run'[x] = run[x]
           /\ pin'[x] = pin[x] /\ config'[x] = config[x]
<1> USE DEF settingsVars, tableVars, baseVars, remoteVars
<1>1. CASE Install(d) \/ User(d) \/ ConfigureReset(d) \/ Start(d)
  BY <1>1
     DEF TypeOK, Install, User, Save, Delete, Configure, UpdateSyncConfig, ConfigureReset,
         Start
<1>2. CASE RunStep(d)
  BY <1>2
     DEF TypeOK, RunStep, RemoteChanged, Load, ReadRemote, MergeLocal, ForceRead, Apply,
         ApplyTo, Write, WriteRefused, PutBaseline, RecordSyncResult, ClearChanges,
         ConsumeForcePush, Return
<1>3. CASE Fault(d)
  BY <1>3 DEF TypeOK, Fault, StopInApply, ApplyTo, WriteAnswerLost, Stop, Return
<1>4. QED
  BY <1>1, <1>2, <1>3 DEF AStep

\* No step changes the remote, or comes between a run and its device's base.
LEMMA OneRemoteKept ==
    ASSUME MaxSettings = 0, EngineInv, \A x \in Device : OneRemote(x), [Next]_vars
    PROVE  \A x \in Device : OneRemote(x)'
<1> USE DEF settingsVars, tableVars, baseVars, remoteVars
<1>1. ASSUME UNCHANGED <<settingsVars, base, pin, run>> PROVE \A x \in Device : OneRemote(x)'
  BY <1>1 DEF OneRemote
<1>2. ASSUME NEW d \in Device, AStep(d) PROVE \A x \in Device : OneRemote(x)'
  <2>0. /\ TypeOK /\ OneRemote(d) /\ run[d] \in Run /\ ForcePushServed(d)
        /\ FirstStore # "none" /\ settings = 0
    BY EngineAssumption DEF EngineInv, DeviceInv, TypeOK, OneRemote
  <2>1. settings' = settings /\ config' = config /\ resetDue' = resetDue
    <3>1. ~(\E s \in Store, force \in BOOLEAN : Configure(d, s, force))
      BY <2>0 DEF Configure, SettingsAllowed
    <3>2. ~ConfigureReset(d) /\ ~ConsumeForcePush(d)
      BY <2>0 DEF ConfigureReset, OneRemote, ConsumeForcePush, ForcePushServed, Running
    <3>3. CASE Install(d) \/ User(d) \/ Start(d)
      BY <3>1, <3>3 DEF Install, User, Save, Delete, Start
    <3>4. CASE RunStep(d)
      BY <3>2, <3>4 DEF RunStep, RemoteChanged, Load, ReadRemote, MergeLocal, ForceRead, Apply,
             Write, StorePackage, WriteRefused, PutBaseline, RecordSyncResult, ClearChanges
    <3>5. CASE Fault(d)
      <4>1. Stop(d) => resetDue' = resetDue
        BY <2>0 DEF Stop, OneRemote, TypeOK
      <4>2. QED
        BY <3>5, <4>1 DEF Fault, StopInApply, WriteAnswerLost, StorePackage, Stop
    <3>6. QED
      BY <1>2, <3>2, <3>3, <3>4, <3>5 DEF AStep
  <2>2. ASSUME NEW x \in Device \ {d} PROVE OneRemote(x)'
    BY <1>2, <2>0, <2>1, StepsOfOne DEF OneRemote
  <2>3. OneRemote(d)'
    <3>1. CASE Install(d)
      BY <2>0, <2>1, <3>1 DEF Install, Idle, TypeOK, OneRemote
    <3>2. CASE User(d)
      BY <2>0, <2>1, <3>2 DEF User, Save, Delete, Configure, TypeOK, OneRemote, SettingsAllowed
    <3>3. CASE Start(d) \/ Load(d)
      <4>1. base' = base /\ pin' = pin
        BY <3>3 DEF Start, Load
      <4>2. /\ run'[d].store = FirstStore /\ ~run'[d].force
            /\ run'[d].base = base[d] \/ run'[d].pc = "load"
        <5>1. CASE Start(d)
          BY <2>0, <5>1 DEF Start, Idle, TypeOK, OneRemote
        <5>2. CASE Load(d)
          <6>1. run' = [run EXCEPT ![d].pc = "read", ![d].base = base[d], ![d].since = now]
            BY <2>0, <5>2 DEF Load, OneRemote, TypeOK, Run
          <6>2. QED
            BY <2>0, <6>1 DEF OneRemote, TypeOK, Run
        <5>3. QED
          BY <3>3, <5>1, <5>2
      <4>3. QED
        BY <2>0, <2>1, <4>1, <4>2 DEF OneRemote
    <3>4. CASE ReadRemote(d) \/ MergeLocal(d) \/ ForceRead(d) \/ Apply(d)
      <4>1. /\ base' = base /\ pin' = pin
            /\ run'[d].base = run[d].base /\ run'[d].store = run[d].store
            /\ run'[d].force = run[d].force
            /\ run[d].pc \in {"read", "local", "apply", "write"}
        BY <2>0, <3>4 DEF ReadRemote, MergeLocal, ForceRead, Apply, Running, TypeOK, Run
      <4>2. QED
        BY <2>0, <2>1, <4>1 DEF OneRemote
    <3>5. CASE Write(d) \/ WriteRefused(d) \/ PutBaseline(d) \/ RecordSyncResult(d)
      <4>1. CASE Write(d)
        BY <2>0, <2>1, <4>1 DEF Write, Idle, TypeOK, OneRemote
      <4>2. CASE WriteRefused(d)
        <5>1. base' = base /\ pin' = pin /\ run[d].pc = "write"
          BY <4>2 DEF WriteRefused, Running
        <5>2. CASE Return(d)
          BY <2>0, <2>1, <5>1, <5>2 DEF Return, Idle, TypeOK, OneRemote
        <5>3. CASE run' = [run EXCEPT ![d].pc = "read", ![d].attempt = @ + 1, ![d].tag = 0,
                                      ![d].seen = EmptyDocument, ![d].merged = EmptyDocument]
          <6>1. /\ run'[d].store = run[d].store /\ run'[d].force = run[d].force
                /\ run'[d].base = run[d].base
            BY <2>0, <5>3 DEF TypeOK, Run
          <6>2. QED
            BY <2>0, <2>1, <5>1, <6>1 DEF OneRemote
        <5>4. QED
          BY <4>2, <5>2, <5>3 DEF WriteRefused
      <4>3. CASE PutBaseline(d) \/ RecordSyncResult(d)
        <5>1. /\ run'[d].store = run[d].store /\ run'[d].force = run[d].force
              /\ run'[d].pc \in {"record", "clear"}
          BY <2>0, <4>3 DEF PutBaseline, RecordSyncResult, TypeOK, Run
        <5>2. pin'[d] \in {pin[d], run[d].store} /\ (base'[d] = base[d] \/ base'[d].has)
          BY <2>0, <4>3 DEF PutBaseline, RecordSyncResult, TypeOK
        <5>3. QED
          BY <2>0, <2>1, <5>1, <5>2 DEF OneRemote
      <4>4. QED
        BY <3>5, <4>1, <4>2, <4>3
    <3>6. CASE RemoteChanged(d) \/ ConfigureReset(d) \/ ConsumeForcePush(d)
      BY <2>0, <3>6 DEF RemoteChanged, ConfigureReset, ConsumeForcePush, ForcePushServed, Running,
                        OneRemote
    <3>7. CASE ClearChanges(d)
      BY <2>0, <2>1, <3>7 DEF ClearChanges, Return, Idle, TypeOK, OneRemote
    <3>8. CASE Fault(d)
      <4>1. base' = base /\ pin' = pin /\ run'[d] = Idle
        BY <2>0, <3>8 DEF Fault, StopInApply, WriteAnswerLost, Stop, Return, TypeOK
      <4>2. QED
        BY <2>0, <2>1, <4>1 DEF Idle, OneRemote
    <3>9. QED
      BY <1>2, <3>1, <3>2, <3>3, <3>4, <3>5, <3>6, <3>7, <3>8 DEF AStep, RunStep
  <2>4. QED
    BY <2>2, <2>3
<1>3. ASSUME NEW s \in Store, Lapse(s) PROVE \A x \in Device : OneRemote(x)'
  BY <1>1, <1>3 DEF Lapse
<1>4. QED
  BY <1>1, <1>2, <1>3 DEF Next, AStep, vars

-----------------------------------------------------------------------------
(* What the steps do to the copies of an entity that has no owner but       *)
(* itself.                                                                  *)

\* A copy made in this step is of a number handed out, and stamped now.
Fresh(c) == now' = now + 1 /\ c.at = now' /\ c.val <= edits'

\* A live copy that is held after a step was held before it, or is fresh.
Traced(d, e) == \A c \in CopiesAt(d, e)' : IsLive(c) => c \in Copies(e) \/ Fresh(c)

\* What MergeLocal makes of an entity: mergeEntity's choice where the settings select
\* it, the remote's copy or the base's elsewhere.
LEMMA MergeOutcome ==
    ASSUME TypeOK, NEW d \in Device, NEW e \in Entity, Owner[e] = e, MergeLocal(d)
    PROVE  LET b == run[d].base.doc[e]
               r == run[d].seen[e]
               l == run'[d].local[e]
               m == run'[d].merged[e]
               chosen == mergeEntity(b, l, r, ~run[d].base.has, log[d][e] # 0)
           IN  /\ e \in Scope[d] => /\ m = IF IsLive(chosen) THEN chosen ELSE Absent
                                    /\ IsLive(l) <=> HoldsRow(d, e)
                                    /\ IsLive(l) => l = rows[d][e]
               /\ e \notin Scope[d] => /\ m = IF Holds(run[d].seen, e) THEN r
                                             ELSE IF Holds(run[d].base.doc, e) THEN b ELSE Absent
                                       /\ l = Absent
<1> USE DEF settingsVars, tableVars, baseVars, remoteVars
<1> DEFINE kinds == Scope[d]
           local == localDocument(d, run[d].since)
           merged == Merge(restrict(run[d].base.doc, kinds), local, restrict(run[d].seen, kinds),
                           ~run[d].base.has, changedEntities(d))
           carried == carryThrough(merged, kinds, run[d].base.doc, run[d].seen)
<1>1. /\ run'[d].local = local /\ run'[d].merged = pruneOrphans(carried)
  <2> HIDE DEF local, carried
  <2>1. run' = [run EXCEPT ![d].pc = "apply", ![d].local = local, ![d].merged = pruneOrphans(carried)]
    BY DEF MergeLocal, local, carried
  <2>2. QED
    BY <2>1 DEF TypeOK, Run
<1>2. pruneOrphans(carried)[e] = IF carried[e].is # "absent" THEN carried[e] ELSE Absent
  BY DEF pruneOrphans, Holds
<1>3. CASE e \in kinds
  <2>1. carried[e] = merged[e]
    BY <1>3 DEF carryThrough
  <2>2. merged[e] = LET chosen == mergeEntity(run[d].base.doc[e], local[e], run[d].seen[e],
                                              ~run[d].base.has, log[d][e] # 0)
                    IN  IF IsLive(chosen) THEN chosen ELSE Absent
    BY <1>3 DEF Merge, restrict, changedEntities
  <2>3. merged[e].is # "absent" \/ merged[e] = Absent
    BY <2>2 DEF IsLive, Absent
  <2>4. IsLive(local[e]) <=> HoldsRow(d, e)
    BY <1>3, LocalIsRows
  <2>5. IsLive(local[e]) => local[e] = rows[d][e]
    <3>1. rows[d][e] \in Copy
      BY DEF TypeOK, Document
    <3>2. EntityTime(d, e) = rows[d][e].at
      BY DEF EntityTime
    <3>3. HoldsRow(d, e) => local[e] = Live(rows[d][e].val, rows[d][e].at)
      BY <1>3, <3>2 DEF localDocument
    <3>4. QED
      BY <2>4, <3>1, <3>3 DEF Copy, HoldsRow, IsLive, Live
  <2> HIDE DEF local, merged, carried
  <2>6. QED
    BY <1>1, <1>2, <1>3, <2>1, <2>2, <2>3, <2>4, <2>5
<1>4. CASE e \notin kinds
  <2>1. carried[e] = IF Holds(run[d].seen, e) THEN run[d].seen[e] ELSE run[d].base.doc[e]
    BY <1>4 DEF carryThrough
  <2>2. local[e] = Absent
    BY <1>4 DEF localDocument
  <2> HIDE DEF local, merged, carried
  <2>3. QED
    BY <1>1, <1>2, <1>4, <2>1, <2>2 DEF Holds
<1>5. QED
  BY <1>3, <1>4

\* The merge chooses one of the three copies.
LEMMA MergeChooses ==
    ASSUME NEW b, NEW l, NEW r, NEW first, NEW changed
    PROVE  mergeEntity(b, l, r, first, changed) \in {l, r}
BY DEF mergeEntity

\* A device's copies after its own step.
LEMMA StepTraced ==
    ASSUME TypeOK, NEW d \in Device, NEW e \in Entity, Owner[e] = e, OneRemote(d),
           ForcePushServed(d), HandedOut(e), AStep(d)
    PROVE  now <= now' /\ edits <= edits' /\ Traced(d, e)
<1> USE DEF settingsVars, tableVars, baseVars, remoteVars
<1> DEFINE Known(c) == ~IsLive(c) \/ c \in Copies(e) \/ Fresh(c)
<1>0. /\ now \in Nat /\ edits \in Nat /\ run[d] \in Run /\ ~IsLive(Absent)
      /\ EmptyDocument[e] = Absent /\ Idle.base.doc = EmptyDocument /\ Idle.seen = EmptyDocument
      /\ Idle.local = EmptyDocument /\ Idle.merged = EmptyDocument /\ NoBase.doc = EmptyDocument
  BY DEF TypeOK, IsLive, Absent, EmptyDocument, Idle, NoBase
<1>1. /\ CopiesAt(d, e) \subseteq Copies(e)
      /\ \A s \in Store : package[s].doc[e] \in Copies(e)
  BY DEF Copies
<1>2. /\ Known(rows[d][e]) /\ Known(base[d].doc[e]) /\ Known(run[d].base.doc[e])
      /\ Known(run[d].seen[e]) /\ Known(run[d].local[e]) /\ Known(run[d].merged[e])
      /\ Known(Absent) /\ \A s \in Store : Known(package[s].doc[e])
  BY <1>0, <1>1 DEF CopiesAt
<1>3. ASSUME Known(rows'[d][e]), Known(base'[d].doc[e]), Known(run'[d].base.doc[e]),
             Known(run'[d].seen[e]), Known(run'[d].local[e]), Known(run'[d].merged[e])
      PROVE  Traced(d, e)
  BY <1>3 DEF Traced, CopiesAt
<1>4. ASSUME run'[d] = Idle
      PROVE  /\ Known(run'[d].base.doc[e]) /\ Known(run'[d].seen[e])
             /\ Known(run'[d].local[e]) /\ Known(run'[d].merged[e])
  BY <1>0, <1>2, <1>4
<1>5. CASE Install(d)
  <2>1. /\ now' = now + 1 /\ edits' = edits /\ base' = base /\ run'[d] = Idle
        /\ rows'[d] = SeededRows(now + 1)
    BY <1>0, <1>5 DEF Install, TypeOK
  <2>2. Known(rows'[d][e])
    BY <1>0, <2>1 DEF SeededRows, Live, Fresh
  <2>3. QED
    BY <1>0, <1>2, <1>3, <1>4, <2>1, <2>2
<1>6. ASSUME NEW f \in Entity, Save(d, f) PROVE now <= now' /\ edits <= edits' /\ Traced(d, e)
  <2>1. /\ now' = now + 1 /\ edits' = edits + 1 /\ UNCHANGED <<base, run>>
        /\ rows'[d] = [rows[d] EXCEPT ![f] = Live(edits + 1, now + 1)]
    BY <1>0, <1>6 DEF Save, TypeOK
  <2>2. Known(rows'[d][e])
    <3>1. CASE e = f
      BY <1>0, <2>1, <3>1 DEF Live, Fresh, TypeOK, Document
    <3>2. CASE e # f
      BY <1>2, <2>1, <3>2 DEF TypeOK, Document, Fresh
    <3>3. QED
      BY <3>1, <3>2
  <2>3. QED
    BY <1>0, <1>2, <1>3, <2>1, <2>2
<1>7. ASSUME NEW f \in Entity, Delete(d, f) PROVE now <= now' /\ edits <= edits' /\ Traced(d, e)
  <2>1. /\ now' = now + 1 /\ edits' = edits + 1 /\ UNCHANGED <<base, run>>
        /\ rows'[d][e] = rows[d][e] \/ rows'[d][e] = Absent
    BY <1>0, <1>7 DEF Delete, TypeOK
  <2>2. QED
    BY <1>0, <1>2, <1>3, <2>1
<1>8. CASE (\E s \in Store, force \in BOOLEAN : Configure(d, s, force)) \/ ConfigureReset(d)
  <2>1. /\ UNCHANGED <<now, edits, rows, run>> /\ base'[d] \in {base[d], NoBase}
    BY <1>8 DEF Configure, ConfigureReset, TypeOK
  <2>2. QED
    BY <1>0, <1>2, <1>3, <2>1
<1>9. CASE RemoteChanged(d) \/ Start(d)
  <2>1. UNCHANGED <<now, edits, rows>> /\ base'[d] \in {base[d], NoBase}
    BY <1>9 DEF RemoteChanged, Start, TypeOK
  <2>2. CASE RemoteChanged(d)
    BY <1>0, <1>2, <1>3, <2>1, <2>2 DEF RemoteChanged
  <2>3. CASE Start(d)
    <3>1. /\ run'[d].base = Idle.base /\ run'[d].seen = Idle.seen
          /\ run'[d].local = Idle.local /\ run'[d].merged = Idle.merged
      BY <2>3 DEF Start, TypeOK, Idle
    <3>2. QED
      BY <1>0, <1>2, <1>3, <2>1, <3>1
  <2>4. QED
    BY <1>9, <2>2, <2>3
<1>10. CASE MergeLocal(d)
  <2>1. UNCHANGED <<now, edits, rows, base>>
    BY <1>10 DEF MergeLocal
  <2>2. run'[d].base = run[d].base /\ run'[d].seen = run[d].seen
    BY <1>0, <1>10 DEF MergeLocal, TypeOK, Run
  <2>3. Known(run'[d].local[e]) /\ Known(run'[d].merged[e])
    BY <1>0, <1>2, <1>10, MergeOutcome, MergeChooses
  <2>4. QED
    BY <1>0, <1>2, <1>3, <2>1, <2>2, <2>3
<1>11. CASE Load(d) \/ ReadRemote(d)
  <2>1. UNCHANGED <<now, edits, rows, base>>
    BY <1>11 DEF Load, ReadRemote
  <2>2. run'[d].local = run[d].local /\ run'[d].merged = run[d].merged
    BY <1>0, <1>11 DEF Load, ReadRemote, OneRemote, TypeOK, Run
  <2>3. CASE Load(d)
    <3>1. run'[d].base = base[d] /\ run'[d].seen = run[d].seen
      BY <1>0, <2>3 DEF Load, OneRemote, TypeOK, Run
    <3>2. QED
      BY <1>0, <1>2, <1>3, <2>1, <2>2, <3>1
  <2>4. CASE ReadRemote(d)
    <3>1. /\ run'[d].base = run[d].base /\ run'[d].seen = package[run[d].store].doc
          /\ run[d].store \in Store
      BY <1>0, <2>4 DEF ReadRemote, OneRemote, TypeOK, Run
    <3>2. QED
      BY <1>0, <1>2, <1>3, <2>1, <2>2, <3>1
  <2>5. QED
    BY <1>11, <2>3, <2>4
<1>12. ASSUME NEW done, NEW touched, ApplyTo(d, done, touched), Rewritten(d) \cap done \subseteq touched,
              UNCHANGED <<edits, base>>,
              \/ run'[d] = Idle
              \/ /\ run'[d].base = run[d].base /\ run'[d].seen = run[d].seen
                 /\ run'[d].local = EmptyDocument /\ run'[d].merged = run[d].merged
       PROVE  now <= now' /\ edits <= edits' /\ Traced(d, e)
  <2>1. now' = IF touched = {} THEN now ELSE now + 1
    BY <1>12 DEF ApplyTo
  <2>2. Known(rows'[d][e])
    <3>1. CASE e \in Rewritten(d) \cap done
      <4>1. rows'[d][e] = Live(run[d].merged[e].val, now') /\ touched # {}
        BY <1>12, <2>1, <3>1 DEF ApplyTo, TypeOK
      <4>2. IsLive(run[d].merged[e])
        BY <3>1 DEF Rewritten, Kept
      <4>3. run[d].merged[e].val <= edits
        BY <1>1, <4>2 DEF CopiesAt, HandedOut
      <4>4. QED
        BY <1>12, <2>1, <4>1, <4>3 DEF Live, Fresh
    <3>2. CASE e \notin Rewritten(d) \cap done
      <4>1. rows'[d][e] = rows[d][e] \/ rows'[d][e] = Absent
        BY <1>12, <3>2 DEF ApplyTo, TypeOK
      <4>2. QED
        BY <1>0, <1>2, <4>1
    <3>3. QED
      BY <3>1, <3>2
  <2>3. /\ Known(run'[d].base.doc[e]) /\ Known(run'[d].seen[e])
        /\ Known(run'[d].local[e]) /\ Known(run'[d].merged[e])
    BY <1>0, <1>2, <1>4, <1>12
  <2>4. QED
    BY <1>0, <1>2, <1>3, <1>12, <2>1, <2>2, <2>3
<1>13. CASE Apply(d)
  <2>1. /\ run'[d].base = run[d].base /\ run'[d].seen = run[d].seen
        /\ run'[d].local = EmptyDocument /\ run'[d].merged = run[d].merged
    BY <1>0, <1>13 DEF Apply, TypeOK, Run
  <2>2. UNCHANGED <<edits, base>>
    BY <1>13 DEF Apply
  <2>3. ApplyTo(d, Entity, Rewritten(d) \cup Removed(d, Entity) \cup Rebound(d))
    BY <1>13 DEF Apply
  <2>4. QED
    BY <1>12, <2>1, <2>2, <2>3
<1>14. ASSUME NEW done \in SUBSET Scope[d], StopInApply(d, done)
       PROVE  now <= now' /\ edits <= edits' /\ Traced(d, e)
  BY <1>12, <1>14 DEF StopInApply, TypeOK
<1>15. CASE Write(d) \/ WriteAnswerLost(d) \/ WriteRefused(d)
  <2>1. UNCHANGED <<now, edits, rows, base>>
    BY <1>15 DEF Write, WriteAnswerLost, WriteRefused
  <2>2. CASE Write(d)
    <3>1. /\ run'[d].base = Idle.base /\ run'[d].seen = Idle.seen
          /\ run'[d].local = Idle.local /\ run'[d].merged = run[d].merged
      BY <1>0, <2>2 DEF Write, Idle, TypeOK, Run
    <3>2. QED
      BY <1>0, <1>2, <1>3, <2>1, <3>1
  <2>3. CASE Return(d)
    <3>1. run'[d] = Idle
      BY <2>3 DEF Return, TypeOK
    <3>2. QED
      BY <1>0, <1>2, <1>3, <1>4, <2>1, <3>1
  <2>4. CASE run' = [run EXCEPT ![d].pc = "read", ![d].attempt = @ + 1, ![d].tag = 0,
                                ![d].seen = EmptyDocument, ![d].merged = EmptyDocument]
    <3>1. /\ run'[d].base = run[d].base /\ run'[d].seen = EmptyDocument
          /\ run'[d].local = run[d].local /\ run'[d].merged = EmptyDocument
      BY <1>0, <2>4 DEF TypeOK, Run
    <3>2. QED
      BY <1>0, <1>2, <1>3, <2>1, <3>1
  <2>5. QED
    BY <1>15, <2>2, <2>3, <2>4 DEF WriteAnswerLost, WriteRefused
<1>16. CASE PutBaseline(d) \/ RecordSyncResult(d) \/ ClearChanges(d) \/ Stop(d)
  <2>1. UNCHANGED <<now, edits, rows>>
    BY <1>16 DEF PutBaseline, RecordSyncResult, ClearChanges, Stop
  <2>2. base'[d] = base[d] \/ base'[d].doc = run[d].merged
    BY <1>16 DEF PutBaseline, RecordSyncResult, ClearChanges, Stop, TypeOK
  <2>3. \/ run'[d] = Idle
        \/ /\ run'[d].base = run[d].base /\ run'[d].seen = run[d].seen
           /\ run'[d].local = run[d].local /\ run'[d].merged = run[d].merged
    BY <1>0, <1>16 DEF PutBaseline, RecordSyncResult, ClearChanges, Return, Stop, TypeOK, Run
  <2>4. QED
    BY <1>0, <1>2, <1>3, <1>4, <2>1, <2>2, <2>3
<1>17. CASE ForceRead(d) \/ ConsumeForcePush(d)
  BY <1>17 DEF ForceRead, ConsumeForcePush, ForcePushServed, OneRemote, Running
<1>18. QED
  BY <1>5, <1>6, <1>7, <1>8, <1>9, <1>10, <1>11, <1>13, <1>14, <1>15, <1>16, <1>17
     DEF AStep, User, RunStep, Fault

\* So every copy after a step, wherever it is held, was held before or is fresh.
LEMMA CopiesTraced ==
    ASSUME EngineInv, \A x \in Device : OneRemote(x), [Next]_vars,
           NEW e \in Entity, Owner[e] = e, HandedOut(e)
    PROVE  /\ now <= now' /\ edits <= edits'
           /\ \A c \in Copies(e)' : IsLive(c) => c \in Copies(e) \/ Fresh(c)
<1> USE DEF settingsVars, tableVars, baseVars, remoteVars
<1>0. TypeOK /\ TypeOK' /\ now \in Nat /\ edits \in Nat
  BY NextKeepsTypes DEF EngineInv, TypeOK
<1>1. ASSUME NEW s \in Store PROVE package'[s].doc[e] \in Copies(e)
  <2>1. CASE package'[s] = package[s]
    BY <2>1 DEF Copies
  <2>2. CASE package'[s] # package[s]
    <3>1. PICK d \in Device : package'[s].doc = run[d].merged
      BY <1>0, <2>2, OnlyWritesChangePackages
    <3>2. QED
      BY <3>1 DEF Copies, CopiesAt
  <2>3. QED
    BY <2>1, <2>2
<1>2. ASSUME NEW d \in Device, AStep(d)
      PROVE  /\ now <= now' /\ edits <= edits'
             /\ \A x \in Device : \A c \in CopiesAt(x, e)' : IsLive(c) => c \in Copies(e) \/ Fresh(c)
  <2>1. now <= now' /\ edits <= edits' /\ Traced(d, e)
    BY <1>0, <1>2, StepTraced DEF EngineInv, DeviceInv
  <2>2. ASSUME NEW x \in Device \ {d} PROVE CopiesAt(x, e)' \subseteq Copies(e)
    <3>1. CopiesAt(x, e)' = CopiesAt(x, e)
      BY <1>0, <1>2, StepsOfOne DEF CopiesAt
    <3>2. QED
      BY <3>1 DEF Copies
  <2>3. QED
    BY <2>1, <2>2 DEF Traced
<1>3. ASSUME UNCHANGED <<now, edits, rows, base, run>>
      PROVE  /\ now <= now' /\ edits <= edits'
             /\ \A x \in Device : \A c \in CopiesAt(x, e)' : IsLive(c) => c \in Copies(e) \/ Fresh(c)
  <2>1. \A x \in Device : CopiesAt(x, e)' = CopiesAt(x, e)
    BY <1>3 DEF CopiesAt
  <2>2. QED
    BY <1>0, <1>3, <2>1 DEF Copies
<1>4. /\ now <= now' /\ edits <= edits'
      /\ \A x \in Device : \A c \in CopiesAt(x, e)' : IsLive(c) => c \in Copies(e) \/ Fresh(c)
  <2>1. ASSUME NEW s \in Store, Lapse(s) PROVE UNCHANGED <<now, edits, rows, base, run>>
    BY <2>1 DEF Lapse
  <2>2. QED
    BY <1>2, <1>3, <2>1 DEF Next, AStep, vars
<1>5. QED
  BY <1>1, <1>4 DEF Copies

\* A row that stays keeps its date: whatever is new is stamped later.
LEMMA RowStaysDated ==
    ASSUME EngineInv, NEW e \in Entity, HandedOut(e), now <= now', edits <= edits',
           \A c \in Copies(e)' : IsLive(c) => c \in Copies(e) \/ Fresh(c), TypeOK'
    PROVE  /\ HandedOut(e)'
           /\ \A d \in Device :
                rows'[d][e] = rows[d][e] /\ HoldsRow(d, e) /\ Dated(d, e) => Dated(d, e)'
<1>0. /\ now \in Nat /\ edits \in Nat /\ now' \in Nat /\ edits' \in Nat
      /\ \A c \in Copies(e) : c \in Copy
  BY DEF EngineInv, TypeOK, Copies, CopiesAt, Document, Run, Base
<1>1. ASSUME NEW c \in Copies(e)', IsLive(c) PROVE c.val <= edits' /\ c.at <= now'
  <2>1. CASE c \in Copies(e)
    BY <1>0, <1>1, <2>1 DEF HandedOut, Copy
  <2>2. CASE Fresh(c)
    BY <1>0, <2>2 DEF Fresh
  <2>3. QED
    BY <1>1, <2>1, <2>2
<1>2. ASSUME NEW d \in Device, rows'[d][e] = rows[d][e], HoldsRow(d, e), Dated(d, e),
             NEW c \in Copies(e)', IsLive(c), c.val > rows[d][e].val
      PROVE  c.at > rows[d][e].at
  <2>1. CASE c \in Copies(e)
    BY <1>2, <2>1 DEF Dated
  <2>2. CASE Fresh(c)
    <3>1. rows[d][e] \in Copies(e)
      BY DEF Copies, CopiesAt
    <3>2. rows[d][e].at <= now /\ rows[d][e].at \in Nat
      BY <1>0, <1>2, <3>1 DEF HandedOut, HoldsRow, Copy
    <3>3. QED
      BY <1>0, <2>2, <3>2 DEF Fresh
  <2>3. QED
    BY <1>2, <2>1, <2>2
<1>3. QED
  BY <1>1, <1>2 DEF HandedOut, Dated

-----------------------------------------------------------------------------
(* The steps that are left when no settings are saved and no run leaves its *)
(* base behind.                                                             *)

\* No settings are saved, and nothing is forced.
LEMMA StepsLeft ==
    ASSUME MaxSettings = 0, EngineInv, NEW d \in Device, OneRemote(d), AStep(d),
           ~LeavesBaseBehind(d)
    PROVE  \/ Install(d) \/ \E f \in Entity : Save(d, f) \/ Delete(d, f)
           \/ Start(d) \/ Load(d) \/ ReadRemote(d) \/ MergeLocal(d) \/ Apply(d) \/ Write(d)
           \/ PutBaseline(d) \/ RecordSyncResult(d) \/ ClearChanges(d)
           \/ Stop(d) /\ ~Settling(d)
<1>1. FirstStore # "none" /\ TypeOK /\ ForcePushServed(d)
  BY EngineAssumption DEF EngineInv, DeviceInv
<1>2. ~(\E s \in Store, force \in BOOLEAN : Configure(d, s, force))
  BY DEF Configure, SettingsAllowed, OneRemote
<1>3. ~ConfigureReset(d) /\ ~ConsumeForcePush(d) /\ ~ForceRead(d) /\ ~RemoteChanged(d)
  BY <1>1 DEF ConfigureReset, ConsumeForcePush, ForceRead, RemoteChanged, ForcePushServed,
              OneRemote, Running
<1>4. ~WriteRefused(d) /\ ~WriteAnswerLost(d) /\ (Stop(d) => ~Settling(d))
      /\ ~(\E done \in SUBSET Scope[d] : StopInApply(d, done))
  BY DEF LeavesBaseBehind, WriteRefused, WriteAnswerLost, Running, Settling
<1>5. QED
  BY <1>2, <1>3, <1>4 DEF AStep, User, RunStep, Fault

\* A step that leaves rows, base and package alone.
QuietStep(d) ==
    \/ Start(d) \/ Load(d) \/ ReadRemote(d) \/ MergeLocal(d)
    \/ RecordSyncResult(d) \/ ClearChanges(d)
    \/ Stop(d) /\ ~Settling(d)

\* What a quiet step does leave and change.
LEMMA QuietStepTypes ==
    ASSUME TypeOK, NEW d \in Device, OneRemote(d), QuietStep(d)
    PROVE  /\ UNCHANGED <<rows, base, package>>
           /\ \A e \in Entity : log'[d][e] \in {log[d][e], 0}
           /\ ~Settling(d) /\ ~Settling(d)'
           /\ run'[d].pc # "uninstalled"
           /\ run[d].pc # "uninstalled"
<1> USE DEF settingsVars, tableVars, baseVars, remoteVars
<1>0. run[d] \in Run
  BY DEF TypeOK
<1>1. UNCHANGED <<rows, base, package>>
  BY DEF QuietStep, Start, Load, ReadRemote, MergeLocal, RecordSyncResult, ClearChanges, Stop
<1>2. \A e \in Entity : log'[d][e] \in {log[d][e], 0}
  BY DEF QuietStep, Start, Load, ReadRemote, MergeLocal, RecordSyncResult, ClearChanges,
         Stop, TypeOK
<1>3. run[d].pc \notin {"write", "baseline", "uninstalled"}
  BY DEF QuietStep, Start, Load, ReadRemote, MergeLocal, RecordSyncResult, ClearChanges, Stop,
         Running, Settling, OneRemote
<1>4. run'[d].pc \in {"load", "read", "local", "apply", "clear", "consume", "idle"}
  <2>1. CASE Start(d)
    BY <1>0, <2>1 DEF Start, Idle, TypeOK
  <2>2. CASE MergeLocal(d)
    BY <1>0, <2>2 DEF MergeLocal, TypeOK, Run
  <2>3. CASE RecordSyncResult(d) \/ ClearChanges(d) \/ Stop(d)
    BY <1>0, <2>3 DEF RecordSyncResult, ClearChanges, Return, Stop, Idle, TypeOK, Run
  <2>4. CASE Load(d)
    BY <1>0, <2>4 DEF Load, OneRemote, TypeOK, Run
  <2>5. CASE ReadRemote(d)
    BY <1>0, <2>5 DEF ReadRemote, TypeOK, Run
  <2>6. QED
    BY <2>1, <2>2, <2>3, <2>4, <2>5 DEF QuietStep
<1>5. QED
  BY <1>1, <1>2, <1>3, <1>4 DEF Settling

\* A row that stays, beside a reference that stays.
LEMMA RowsStayDated ==
    ASSUME NEW d \in Device, NEW e \in Entity, RowDated(d, e),
           rows'[d][e] = rows[d][e], HoldsRow(d, e) /\ Dated(d, e) => Dated(d, e)',
           base'[d].has \/ Settling(d)' <=> base[d].has \/ Settling(d),
           Reference(d)'[e] = Reference(d)[e],
           log'[d][e] \in {log[d][e], 0}
    PROVE  RowDated(d, e)'
BY DEF RowDated, HoldsRow

-----------------------------------------------------------------------------
(* EntityInv, what a device's own step does.                                *)

\* apply leaves the content of the merge in the row; a seeded one is not removed.
LEMMA ApplyLeavesMerged ==
    ASSUME EngineInv, TypeOK', NEW d \in Device, NEW e \in Entity, Owner[e] = e, Apply(d),
           Present(d, e)
    PROVE  /\ e \in Scope[d] => Content(rows'[d][e]) = Content(run[d].merged[e])
           /\ e \in Seeded => HoldsRow(d, e)'
           /\ UNCHANGED <<base, package, pin>>
           /\ run[d].pc = "apply" /\ run'[d].pc = "write"
           /\ run'[d].merged = run[d].merged /\ run'[d].seen = run[d].seen
<1> USE DEF settingsVars, tableVars, baseVars, remoteVars
<1>0. /\ TypeOK /\ DeviceInv(d) /\ Running(d, "apply") /\ UNCHANGED <<base, package, pin>>
      /\ ApplyTo(d, Entity, Rewritten(d) \cup Removed(d, Entity) \cup Rebound(d))
  BY DEF EngineInv, Apply
<1>1. /\ run[d].pc = "apply" /\ run'[d].pc = "write"
      /\ run'[d].merged = run[d].merged /\ run'[d].seen = run[d].seen
  BY <1>0 DEF Apply, Running, TypeOK, Run
<1>2. CASE e \notin Seeded
  <2>1. e \in Scope[d] => Content(rows'[d][e]) = Content(run[d].merged[e])
    BY <1>0, <1>1, <1>2, ApplyStoresMerged
  <2>2. QED
    BY <1>0, <1>1, <1>2, <2>1
<1>3. CASE e \in Seeded
  <2>1. HoldsRow(d, e) /\ (e \in Scope[d] => IsLive(run[d].merged[e]))
    BY <1>1, <1>3 DEF Present
  <2>2. e \notin Removed(d, Entity)
    BY <1>3, EntityAssumption DEF Removed, Cascade
  <2>3. rows'[d][e] = IF e \in Rewritten(d) THEN Live(run[d].merged[e].val, now') ELSE rows[d][e]
    BY <1>0, <2>2 DEF ApplyTo, TypeOK
  <2>4. e \in Scope[d] => Content(rows'[d][e]) = Content(run[d].merged[e])
    BY <2>1, <2>3 DEF Rewritten, Kept, Content, Live, IsLive, HoldsRow
  <2>5. HoldsRow(d, e)'
    BY <2>1, <2>3 DEF HoldsRow, Live, IsLive
  <2>6. QED
    BY <1>0, <1>1, <2>4, <2>5
<1>4. QED
  BY <1>2, <1>3

\* The row of the device that moves: a save is stamped last, apply makes the merge the
\* reference, and the merge becomes the base.
LEMMA OwnRowDated ==
    ASSUME MaxSettings = 0, EngineInv, TypeOK', NEW d \in Device, NEW e \in Entity, Owner[e] = e,
           OneRemote(d), AStep(d), ~LeavesBaseBehind(d), Keeps(d, e), HandedOut(e)',
           rows'[d][e] = rows[d][e] /\ HoldsRow(d, e) /\ Dated(d, e) => Dated(d, e)'
    PROVE  RowDated(d, e)'
<1> USE DEF settingsVars, tableVars, baseVars, remoteVars
<1>0. /\ TypeOK /\ DeviceInv(d) /\ RowDated(d, e) /\ Present(d, e) /\ Advances(d, e)
      /\ run[d] \in Run /\ edits \in Nat
  BY DEF EngineInv, Keeps, TypeOK
<1>1. \A c \in Copies(e)' : c \in Copy
  BY DEF TypeOK, Copies, CopiesAt, Document, Run, Base
<1>2. CASE Install(d)
  <2>1. /\ base'[d] = base[d] /\ log'[d] = log[d] /\ run'[d] = Idle /\ run[d].pc = "uninstalled"
    BY <1>0, <1>2 DEF Install, TypeOK
  <2>2. ~base[d].has /\ log[d][e] = 0 /\ ~Settling(d)'
    BY <1>0, <2>1 DEF DeviceInv, ChangesLogged, Advances, Settling, Idle
  <2>3. QED
    BY <2>1, <2>2 DEF RowDated
<1>3. ASSUME NEW f \in Entity, Save(d, f) PROVE RowDated(d, e)'
  <2>1. /\ UNCHANGED <<base, run>> /\ edits' = edits + 1
        /\ rows'[d] = [rows[d] EXCEPT ![f] = Live(edits + 1, now + 1)]
        /\ log'[d] = [log[d] EXCEPT ![f] = now + 1]
    BY <1>0, <1>3 DEF Save, TypeOK
  <2>2. CASE f = e
    <3>1. rows'[d][e] = Live(edits', now + 1)
      BY <1>0, <2>1, <2>2 DEF TypeOK, Document
    <3>2. Dated(d, e)'
      BY <1>0, <1>1, <2>1, <3>1 DEF Dated, HandedOut, Live, Copy
    <3>3. Reference(d)'[e] \in Copies(e)'
      BY DEF Reference, Copies, CopiesAt
    <3>4. IsLive(Reference(d)'[e]) => Reference(d)'[e].val <= rows'[d][e].val
      BY <3>1, <3>3 DEF HandedOut, Live
    <3>5. QED
      BY <3>2, <3>4 DEF RowDated
  <2>3. CASE f # e
    <3>1. rows'[d][e] = rows[d][e] /\ log'[d][e] = log[d][e]
      BY <1>0, <2>1, <2>3 DEF TypeOK, Document
    <3>2. QED
      BY <1>0, <2>1, <3>1, RowsStayDated DEF Reference, Settling
  <2>4. QED
    BY <2>2, <2>3
<1>4. ASSUME NEW f \in Entity, Delete(d, f) PROVE RowDated(d, e)'
  <2> DEFINE gone == {g \in Cascade(f) : HoldsRow(d, g)}
  <2>0. /\ UNCHANGED <<base, run>>
        /\ rows'[d] = [g \in Entity |-> IF g \in gone THEN Absent ELSE rows[d][g]]
        /\ log'[d] = [g \in Entity |-> IF g \in gone THEN now + 1 ELSE log[d][g]]
    BY <1>0, <1>4 DEF Delete, TypeOK
  <2> HIDE DEF gone
  <2>1. \/ rows'[d][e] = Absent
        \/ rows'[d][e] = rows[d][e] /\ log'[d][e] = log[d][e]
    BY <2>0
  <2>2. CASE rows'[d][e] = Absent
    BY <2>2 DEF RowDated, HoldsRow, IsLive, Absent
  <2>3. CASE rows'[d][e] = rows[d][e] /\ log'[d][e] = log[d][e]
    BY <1>0, <2>0, <2>3, RowsStayDated DEF Reference, Settling
  <2>4. QED
    BY <2>1, <2>2, <2>3
<1>5. CASE QuietStep(d)
  BY <1>0, <1>5, QuietStepTypes, RowsStayDated DEF Reference
<1>6. CASE Apply(d)
  <2>1. /\ e \in Scope[d] => Content(rows'[d][e]) = Content(run'[d].merged[e])
        /\ run'[d].pc = "write"
    BY <1>0, <1>6, ApplyLeavesMerged
  <2>2. Settling(d)' /\ Reference(d)' = run'[d].merged
    BY <2>1 DEF Settling, Reference
  <2>3. rows'[d][e].val \in Nat
    BY DEF TypeOK, Document, Copy
  <2>4. e \in Scope[d] /\ IsLive(Reference(d)'[e]) => Reference(d)'[e].val = rows'[d][e].val
    BY <2>1, <2>2, ContentEqual
  <2>5. QED
    BY <2>1, <2>2, <2>3, <2>4 DEF RowDated
<1>7. CASE Write(d)
  <2>1. /\ UNCHANGED <<rows, log, base>> /\ run[d].pc = "write"
        /\ run'[d].pc = "baseline" /\ run'[d].merged = run[d].merged
    BY <1>0, <1>7 DEF Write, Running, Idle, TypeOK, Run
  <2>2. QED
    BY <1>0, <2>1, RowsStayDated DEF Reference, Settling
<1>8. CASE PutBaseline(d)
  <2>1. /\ UNCHANGED <<rows, log>> /\ run[d].pc = "baseline" /\ run'[d].pc = "record"
        /\ base'[d].has /\ base'[d].doc = run[d].merged
    BY <1>0, <1>8 DEF PutBaseline, Running, TypeOK, Run
  <2>2. QED
    BY <1>0, <2>1, RowsStayDated DEF Reference, Settling
<1>9. \/ Install(d) \/ \E f \in Entity : Save(d, f) \/ Delete(d, f)
      \/ QuietStep(d) \/ Apply(d) \/ Write(d) \/ PutBaseline(d)
  <2>1. \/ Install(d) \/ \E f \in Entity : Save(d, f) \/ Delete(d, f)
        \/ Start(d) \/ Load(d) \/ ReadRemote(d) \/ MergeLocal(d) \/ Apply(d) \/ Write(d)
        \/ PutBaseline(d) \/ RecordSyncResult(d) \/ ClearChanges(d)
        \/ Stop(d) /\ ~Settling(d)
    BY StepsLeft
  <2>2. QED
    BY <2>1 DEF QuietStep
<1>10. QED
  BY <1>2, <1>3, <1>4, <1>5, <1>6, <1>7, <1>8, <1>9

\* What a device's own step does to what its run has seen and merged, and to its base.
LEMMA RunProgress ==
    ASSUME MaxSettings = 0, EngineInv, TypeOK', NEW d \in Device, NEW e \in Entity, Owner[e] = e,
           OneRemote(d), AStep(d), ~LeavesBaseBehind(d), Present(d, e)
    PROVE  \/ run'[d] = run[d] /\ base'[d] = base[d] /\ UNCHANGED package
           \/ /\ run'[d].pc \in {"idle", "load"} /\ base'[d] = base[d] /\ UNCHANGED package
              /\ run'[d].seen[e] = Absent /\ run'[d].merged[e] = Absent
           \/ /\ run'[d].pc \in {"read", "clear"} /\ base'[d] = base[d] /\ UNCHANGED package
              /\ run'[d].seen = run[d].seen /\ run'[d].merged = run[d].merged
           \/ /\ run'[d].pc = "local" /\ base'[d] = base[d] /\ UNCHANGED package
              /\ run'[d].seen = package[FirstStore].doc /\ run'[d].merged = run[d].merged
           \/ /\ MergeLocal(d) /\ base'[d] = base[d] /\ UNCHANGED package
              /\ run[d].pc = "local" /\ run'[d].pc = "apply" /\ run'[d].seen = run[d].seen
           \/ /\ run[d].pc = "apply" /\ run'[d].pc = "write"
              /\ base'[d] = base[d] /\ UNCHANGED package
              /\ run'[d].seen = run[d].seen /\ run'[d].merged = run[d].merged
           \/ /\ run[d].pc = "write" /\ run'[d].pc = "baseline" /\ base'[d] = base[d]
              /\ run'[d].seen[e] = Absent /\ run'[d].merged = run[d].merged
              /\ run[d].seen = package[FirstStore].doc
              /\ package'[FirstStore].doc = run[d].merged
              /\ \A s \in Store \ {FirstStore} : package'[s] = package[s]
           \/ /\ run[d].pc = "baseline" /\ run'[d].pc = "record" /\ UNCHANGED package
              /\ base'[d].doc = run[d].merged
              /\ run'[d].seen = run[d].seen /\ run'[d].merged = run[d].merged
<1> USE DEF settingsVars, tableVars, baseVars, remoteVars
<1>0. /\ TypeOK /\ DeviceInv(d) /\ run[d] \in Run
      /\ Idle.pc = "idle" /\ Idle.seen[e] = Absent /\ Idle.merged[e] = Absent
  BY DEF EngineInv, TypeOK, Idle, EmptyDocument
<1>1. CASE Install(d) \/ Stop(d) \/ ClearChanges(d)
  <2>1. run'[d] = Idle /\ UNCHANGED <<base, package>>
    BY <1>0, <1>1 DEF Install, Stop, ClearChanges, Return, OneRemote, TypeOK
  <2>2. QED
    BY <1>0, <2>1
<1>2. CASE \E f \in Entity : Save(d, f) \/ Delete(d, f)
  BY <1>2 DEF Save, Delete
<1>3. CASE Start(d)
  <2>1. /\ run'[d].pc = "load" /\ run'[d].seen = Idle.seen /\ run'[d].merged = Idle.merged
        /\ UNCHANGED <<base, package>>
    BY <1>0, <1>3 DEF Start, Idle, TypeOK
  <2>2. QED
    BY <1>0, <2>1
<1>4. CASE Load(d)
  <2>1. /\ run'[d].pc = "read" /\ run'[d].seen = run[d].seen /\ run'[d].merged = run[d].merged
        /\ UNCHANGED <<base, package>>
    BY <1>0, <1>4 DEF Load, OneRemote, TypeOK, Run
  <2>2. QED
    BY <2>1
<1>5. CASE ReadRemote(d)
  <2>1. /\ run'[d].pc = "local" /\ run'[d].seen = package[FirstStore].doc
        /\ run'[d].merged = run[d].merged /\ UNCHANGED <<base, package>>
    <3>1. run'[d] = [run[d] EXCEPT !.pc = "local", !.seen = package[FirstStore].doc,
                                   !.tag = package[FirstStore].tag]
      BY <1>0, <1>5 DEF ReadRemote, OneRemote, TypeOK
    <3>2. run[d] \in Run /\ UNCHANGED <<base, package>>
      BY <1>0, <1>5 DEF ReadRemote, TypeOK
    <3>3. QED
      BY <3>1, <3>2 DEF Run
  <2>2. QED
    BY <2>1
<1>6. CASE MergeLocal(d)
  <2>1. /\ run[d].pc = "local" /\ run'[d].pc = "apply" /\ run'[d].seen = run[d].seen
        /\ UNCHANGED <<base, package>>
    BY <1>0, <1>6 DEF MergeLocal, Running, TypeOK, Run
  <2>2. QED
    BY <1>6, <2>1
<1>7. CASE Apply(d)
  BY <1>7, ApplyLeavesMerged
<1>8. CASE Write(d)
  <2>1. /\ run[d].pc = "write" /\ run'[d].pc = "baseline" /\ UNCHANGED base
        /\ run'[d].seen = Idle.seen /\ run'[d].merged = run[d].merged
    BY <1>0, <1>8 DEF Write, Running, Idle, TypeOK
  <2>2. run[d].seen = package[FirstStore].doc
    BY <1>0, <1>8 DEF Write, Running, DeviceInv, SeenIsCurrent, OneRemote
  <2>3. /\ package'[FirstStore].doc = run[d].merged
        /\ \A s \in Store \ {FirstStore} : package'[s] = package[s]
    BY <1>0, <1>8, EngineAssumption DEF Write, StorePackage, OneRemote, TypeOK
  <2>4. QED
    BY <1>0, <2>1, <2>2, <2>3
<1>9. CASE PutBaseline(d) \/ RecordSyncResult(d)
  <2>1. run'[d].seen = run[d].seen /\ run'[d].merged = run[d].merged /\ UNCHANGED package
    BY <1>0, <1>9 DEF PutBaseline, RecordSyncResult, TypeOK, Run
  <2>2. CASE PutBaseline(d)
    BY <1>0, <2>1, <2>2 DEF PutBaseline, Running, TypeOK, Run
  <2>3. CASE RecordSyncResult(d)
    BY <1>0, <2>1, <2>3 DEF RecordSyncResult, TypeOK, Run
  <2>4. QED
    BY <1>9, <2>2, <2>3
<1>10. QED
  BY <1>1, <1>2, <1>3, <1>4, <1>5, <1>6, <1>7, <1>8, <1>9, StepsLeft

\* The result of a merge keeps no tombstone and no older edit than the remote's,
\* and drops no seeded entity.
LEMMA MergedIsNewer ==
    ASSUME EngineInv, TypeOK', NEW d \in Device, NEW e \in Entity, Owner[e] = e,
           OneRemote(d), Keeps(d, e), MergeLocal(d)
    PROVE  LET r == run[d].seen[e]
               m == run'[d].merged[e]
           IN  /\ LiveOrAbsent(m)
               /\ IsLive(r) /\ IsLive(m) => r.val <= m.val
               /\ e \in Seeded => (IsLive(r) => IsLive(m)) /\ (e \in Scope[d] => IsLive(m))
<1> DEFINE b == run[d].base.doc[e]
           r == run[d].seen[e]
           l == run'[d].local[e]
           m == run'[d].merged[e]
           first == ~run[d].base.has
           logged == log[d][e] # 0
           chosen == mergeEntity(b, l, r, first, logged)
<1>0. TypeOK /\ run[d].pc = "local" /\ ~Settling(d)
  BY DEF EngineInv, MergeLocal, Running, Settling
<1>1. /\ e \in Scope[d] => /\ m = IF IsLive(chosen) THEN chosen ELSE Absent
                           /\ IsLive(l) <=> HoldsRow(d, e)
                           /\ IsLive(l) => l = rows[d][e]
      /\ e \notin Scope[d] => m = IF Holds(run[d].seen, e) THEN r
                                  ELSE IF Holds(run[d].base.doc, e) THEN b ELSE Absent
  BY <1>0, MergeOutcome
<1>2. /\ b \in Copy /\ r \in Copy /\ l \in Copy /\ m \in Copy
      /\ r \in Copies(e) /\ run[d].base = base[d]
      /\ LiveOrAbsent(b) /\ LiveOrAbsent(r)
  <2>1. run[d] \in Run /\ run'[d] \in Run
    BY <1>0 DEF TypeOK
  <2>2. b \in Copy /\ r \in Copy /\ l \in Copy /\ m \in Copy
    BY <2>1 DEF Run, Base, Document
  <2>3. r \in Copies(e)
    BY DEF Copies, CopiesAt
  <2>4. run[d].base = base[d]
    BY <1>0 DEF OneRemote
  <2>5. LiveOrAbsent(b) /\ LiveOrAbsent(r)
    BY <2>4 DEF Keeps, Plain
  <2>6. QED
    BY <2>2, <2>3, <2>4, <2>5
<1>3. CASE e \notin Scope[d]
  BY <1>1, <1>2, <1>3 DEF LiveOrAbsent, Holds, IsLive, Absent, Copy
<1>4. CASE e \in Scope[d]
  <2>1. LiveOrAbsent(m) /\ chosen \in {l, r}
    BY <1>1, <1>4, MergeChooses DEF LiveOrAbsent
  <2>2. ASSUME IsLive(r), IsLive(l), chosen = l PROVE r.val <= l.val
    <3>0. HoldsRow(d, e) /\ l = rows[d][e] /\ l.val \in Nat /\ r.val \in Nat
          /\ l.at \in Nat /\ r.at \in Nat /\ b.val \in Nat
      BY <1>1, <1>2, <1>4, <2>2 DEF Copy
    <3>1. CASE ~differs(b, r)
      <4>1. IsLive(b) /\ b.val = r.val
        BY <2>2, <3>1 DEF differs, IsLive
      <4>2. base[d].has
        BY <1>2, <4>1 DEF OneRemote, NoBase, EmptyDocument, IsLive, Absent
      <4>3. QED
        BY <1>0, <1>2, <1>4, <3>0, <4>1, <4>2 DEF Keeps, RowDated, Reference
    <3>2. CASE differs(b, r)
      <4>1. \/ l = r
            \/ differs(b, l) /\ (first /\ b = Absent => logged) /\ l.at >= r.at
        BY <2>2, <3>0, <3>2 DEF mergeEntity, eventTime
      <4>2. ASSUME differs(b, l), first /\ b = Absent => logged PROVE Dated(d, e)
        <5>1. CASE base[d].has
          <6>1. Content(rows[d][e]) # Content(base[d].doc[e])
            BY <1>2, <2>2, <3>0, <4>2, ContentEqual DEF differs, LiveOrAbsent, IsLive, Absent
          <6>2. QED
            BY <1>0, <1>4, <3>0, <5>1, <6>1 DEF Keeps, RowDated, Reference
        <5>2. CASE ~base[d].has
          <6>1. b = Absent
            BY <1>2, <5>2 DEF OneRemote, NoBase, EmptyDocument
          <6>2. QED
            BY <1>0, <1>2, <1>4, <3>0, <4>2, <5>2, <6>1 DEF Keeps, RowDated
        <5>3. QED
          BY <5>1, <5>2
      <4>3. QED
        BY <1>2, <2>2, <3>0, <4>1, <4>2 DEF Dated
    <3>3. QED
      BY <3>1, <3>2
  <2>3. IsLive(r) /\ IsLive(m) => r.val <= m.val
    <3>1. m = chosen \/ ~IsLive(m)
      BY <1>1, <1>4 DEF IsLive, Absent
    <3>2. QED
      BY <1>2, <2>1, <2>2, <3>1 DEF Copy
  <2>4. e \in Seeded => IsLive(m)
    <3> SUFFICES ASSUME e \in Seeded PROVE IsLive(chosen)
      BY <1>1, <1>4
    <3>1. /\ IsLive(l) /\ l.at \in Nat
          /\ IsLive(b) => IsLive(r)
      BY <1>0, <1>1, <1>2, <1>4 DEF Keeps, Present, Copy
    <3>2. IsLive(r) \/ r = Absent
      BY <1>2 DEF LiveOrAbsent
    <3>3. QED
      BY <1>2, <3>1, <3>2 DEF mergeEntity, differs, eventTime, LiveOrAbsent, IsLive, Absent
  <2>5. QED
    BY <1>4, <2>1, <2>3, <2>4
<1>5. QED
  BY <1>3, <1>4

\* A seeded entity's row stays, and a device that does something is installed.
LEMMA SeededStays ==
    ASSUME MaxSettings = 0, EngineInv, TypeOK', NEW d \in Device, NEW e \in Entity, Owner[e] = e,
           OneRemote(d), AStep(d), ~LeavesBaseBehind(d), Present(d, e)
    PROVE  /\ run'[d].pc # "uninstalled"
           /\ e \in Seeded => HoldsRow(d, e)'
<1> USE DEF settingsVars, tableVars, baseVars, remoteVars
<1>0. /\ TypeOK /\ run[d] \in Run
      /\ e \in Seeded /\ run[d].pc # "uninstalled" => HoldsRow(d, e)
  BY DEF EngineInv, TypeOK, Present
<1>1. CASE Install(d)
  <2>1. run'[d] = Idle /\ rows'[d] = SeededRows(now + 1)
    BY <1>0, <1>1 DEF Install, TypeOK
  <2>2. QED
    BY <2>1 DEF Idle, HoldsRow, SeededRows, Live, IsLive
<1>2. ASSUME NEW f \in Entity, Save(d, f)
      PROVE  run'[d].pc # "uninstalled" /\ (e \in Seeded => HoldsRow(d, e)')
  <2>1. /\ run' = run /\ run[d].pc # "uninstalled"
        /\ rows'[d] = [rows[d] EXCEPT ![f] = Live(edits + 1, now + 1)]
    BY <1>0, <1>2 DEF Save, UserMayChange, TypeOK
  <2>2. rows'[d][e] = rows[d][e] \/ rows'[d][e] = Live(edits + 1, now + 1)
    BY <1>0, <2>1 DEF TypeOK, Document
  <2>3. QED
    BY <1>0, <2>1, <2>2 DEF HoldsRow, Live, IsLive
<1>3. ASSUME NEW f \in Entity, Delete(d, f)
      PROVE  run'[d].pc # "uninstalled" /\ (e \in Seeded => HoldsRow(d, e)')
  <2>1. run' = run /\ run[d].pc # "uninstalled" /\ f \notin Seeded
    BY <1>3 DEF Delete, UserMayChange
  <2>2. e \in Seeded => e \notin Cascade(f)
    BY <2>1 DEF Cascade
  <2>3. e \in Seeded => rows'[d][e] = rows[d][e]
    BY <1>0, <1>3, <2>2 DEF Delete, TypeOK
  <2>4. QED
    BY <1>0, <2>1, <2>3 DEF HoldsRow
<1>4. CASE QuietStep(d)
  BY <1>0, <1>4, QuietStepTypes DEF HoldsRow
<1>5. CASE Apply(d)
  BY <1>5, ApplyLeavesMerged
<1>6. CASE Write(d) \/ PutBaseline(d)
  <2>1. run[d].pc # "uninstalled" /\ UNCHANGED rows
    BY <1>6 DEF Write, PutBaseline, Running
  <2>2. Write(d) => run'[d].pc = "baseline"
    BY <1>0 DEF Write, Idle, TypeOK
  <2>3. PutBaseline(d) => run'[d].pc = "record"
    BY <1>0 DEF PutBaseline, TypeOK, Run
  <2>4. QED
    BY <1>0, <1>6, <2>1, <2>2, <2>3 DEF HoldsRow
<1>7. \/ Install(d) \/ \E f \in Entity : Save(d, f) \/ Delete(d, f)
      \/ QuietStep(d) \/ Apply(d) \/ Write(d) \/ PutBaseline(d)
  <2>1. \/ Install(d) \/ \E f \in Entity : Save(d, f) \/ Delete(d, f)
        \/ Start(d) \/ Load(d) \/ ReadRemote(d) \/ MergeLocal(d) \/ Apply(d) \/ Write(d)
        \/ PutBaseline(d) \/ RecordSyncResult(d) \/ ClearChanges(d)
        \/ Stop(d) /\ ~Settling(d)
    BY StepsLeft
  <2>2. QED
    BY <2>1 DEF QuietStep
<1>8. QED
  BY <1>1, <1>2, <1>3, <1>4, <1>5, <1>6, <1>7

\* A device's own step keeps its part, and what the package has of the entity.
LEMMA OwnStepKeepsEntity ==
    ASSUME MaxSettings = 0, EngineInv, TypeOK', NEW d \in Device, NEW e \in Entity, Owner[e] = e,
           OneRemote(d), AStep(d), ~LeavesBaseBehind(d), Keeps(d, e), HandedOut(e)',
           rows'[d][e] = rows[d][e] /\ HoldsRow(d, e) /\ Dated(d, e) => Dated(d, e)',
           \A s \in Store : LiveOrAbsent(package[s].doc[e])
    PROVE  /\ Keeps(d, e)'
           /\ \A s \in Store : LiveOrAbsent(package'[s].doc[e])
           /\ e \in Seeded /\ IsLive(package[FirstStore].doc[e])
                => IsLive(package'[FirstStore].doc[e])
<1>0. /\ TypeOK /\ run[d] \in Run /\ ~IsLive(Absent) /\ FirstStore \in Store
      /\ Plain(d, e) /\ Present(d, e) /\ Advances(d, e)
  BY EngineAssumption DEF EngineInv, TypeOK, Keeps, IsLive, Absent
<1>1. RowDated(d, e)'
  BY OwnRowDated
<1>2. /\ run'[d].pc # "uninstalled"
      /\ e \in Seeded => HoldsRow(d, e)'
  BY <1>0, SeededStays
<1>3. /\ LiveOrAbsent(base[d].doc[e]) /\ LiveOrAbsent(run[d].seen[e])
      /\ LiveOrAbsent(run[d].merged[e]) /\ LiveOrAbsent(Absent)
  BY <1>0 DEF Plain, LiveOrAbsent
<1>4. CASE run'[d] = run[d] /\ base'[d] = base[d] /\ UNCHANGED package
  BY <1>0, <1>1, <1>2, <1>4 DEF Keeps, Plain, Present, Advances
<1>5. CASE /\ run'[d].pc \in {"idle", "load"} /\ base'[d] = base[d] /\ UNCHANGED package
           /\ run'[d].seen[e] = Absent /\ run'[d].merged[e] = Absent
  BY <1>0, <1>1, <1>2, <1>3, <1>5 DEF Keeps, Plain, Present, Advances
<1>6. CASE /\ run'[d].pc \in {"read", "clear"} /\ base'[d] = base[d] /\ UNCHANGED package
           /\ run'[d].seen = run[d].seen /\ run'[d].merged = run[d].merged
  BY <1>0, <1>1, <1>2, <1>3, <1>6 DEF Keeps, Plain, Present, Advances
<1>7. CASE /\ run'[d].pc = "local" /\ base'[d] = base[d] /\ UNCHANGED package
           /\ run'[d].seen = package[FirstStore].doc /\ run'[d].merged = run[d].merged
  <2>1. Plain(d, e)' /\ Advances(d, e)'
    BY <1>0, <1>2, <1>3, <1>7 DEF Plain, Advances
  <2>2. Present(d, e)'
    BY <1>0, <1>2, <1>7 DEF Present
  <2>3. QED
    BY <1>0, <1>1, <1>7, <2>1, <2>2 DEF Keeps
<1>8. CASE /\ MergeLocal(d) /\ base'[d] = base[d] /\ UNCHANGED package
           /\ run[d].pc = "local" /\ run'[d].pc = "apply" /\ run'[d].seen = run[d].seen
  <2>1. /\ LiveOrAbsent(run'[d].merged[e])
        /\ IsLive(run[d].seen[e]) /\ IsLive(run'[d].merged[e])
             => run[d].seen[e].val <= run'[d].merged[e].val
        /\ e \in Seeded => /\ IsLive(run[d].seen[e]) => IsLive(run'[d].merged[e])
                           /\ e \in Scope[d] => IsLive(run'[d].merged[e])
    BY <1>8, MergedIsNewer
  <2>2. QED
    BY <1>0, <1>1, <1>2, <1>3, <1>8, <2>1 DEF Keeps, Plain, Present, Advances
<1>9. CASE /\ run[d].pc = "apply" /\ run'[d].pc = "write"
           /\ base'[d] = base[d] /\ UNCHANGED package
           /\ run'[d].seen = run[d].seen /\ run'[d].merged = run[d].merged
  BY <1>0, <1>1, <1>2, <1>3, <1>9 DEF Keeps, Plain, Present, Advances
<1>10. CASE /\ run[d].pc = "write" /\ run'[d].pc = "baseline" /\ base'[d] = base[d]
            /\ run'[d].seen[e] = Absent /\ run'[d].merged = run[d].merged
            /\ run[d].seen = package[FirstStore].doc
            /\ package'[FirstStore].doc = run[d].merged
            /\ \A s \in Store \ {FirstStore} : package'[s] = package[s]
  <2>1. \A s \in Store : LiveOrAbsent(package'[s].doc[e])
    BY <1>3, <1>10
  <2>2. e \in Seeded /\ IsLive(package[FirstStore].doc[e]) => IsLive(package'[FirstStore].doc[e])
    BY <1>0, <1>10 DEF Present
  <2>3. QED
    BY <1>0, <1>1, <1>2, <1>3, <1>10, <2>1, <2>2 DEF Keeps, Plain, Present, Advances
<1>11. CASE /\ run[d].pc = "baseline" /\ run'[d].pc = "record" /\ UNCHANGED package
            /\ base'[d].doc = run[d].merged
            /\ run'[d].seen = run[d].seen /\ run'[d].merged = run[d].merged
  BY <1>0, <1>1, <1>2, <1>3, <1>11 DEF Keeps, Plain, Present, Advances
<1>12. QED
  BY <1>0, <1>4, <1>5, <1>6, <1>7, <1>8, <1>9, <1>10, <1>11, RunProgress

\* Another device's step leaves a device's part alone.
LEMMA OtherStepKeepsEntity ==
    ASSUME NEW x \in Device, NEW e \in Entity, Keeps(x, e),
           rows'[x] = rows[x], log'[x] = log[x], base'[x] = base[x], run'[x] = run[x],
           HoldsRow(x, e) /\ Dated(x, e) => Dated(x, e)',
           e \in Seeded /\ IsLive(package[FirstStore].doc[e])
             => IsLive(package'[FirstStore].doc[e])
    PROVE  Keeps(x, e)'
<1>1. RowDated(x, e)'
  BY RowsStayDated DEF Keeps, Reference, Settling
<1>2. Plain(x, e)' /\ Present(x, e)' /\ Advances(x, e)'
  BY DEF Keeps, Plain, Present, Advances, HoldsRow
<1>3. QED
  BY <1>1, <1>2 DEF Keeps

\* Every step keeps the invariant of an entity.
LEMMA NextKeepsEntity ==
    ASSUME MaxSettings = 0, EngineInv, \A x \in Device : OneRemote(x), [Next]_vars,
           [\A x \in Device : ~LeavesBaseBehind(x)]_vars,
           NEW e \in Entity, Owner[e] = e, EntityInv(e)
    PROVE  EntityInv(e)'
<1> USE DEF settingsVars, tableVars, baseVars, remoteVars
<1>0. TypeOK /\ TypeOK' /\ HandedOut(e)
  BY NextKeepsTypes DEF EngineInv, EntityInv
<1>1. /\ now <= now' /\ edits <= edits'
      /\ \A c \in Copies(e)' : IsLive(c) => c \in Copies(e) \/ Fresh(c)
  BY <1>0, CopiesTraced
<1>2. /\ HandedOut(e)'
      /\ \A d \in Device :
           rows'[d][e] = rows[d][e] /\ HoldsRow(d, e) /\ Dated(d, e) => Dated(d, e)'
  BY <1>0, <1>1, RowStaysDated
<1>3. ASSUME UNCHANGED <<rows, log, base, run, package>> PROVE EntityInv(e)'
  <2>1. \A x \in Device : Keeps(x, e)'
    BY <1>2, <1>3, OtherStepKeepsEntity DEF EntityInv
  <2>2. QED
    BY <1>2, <1>3, <2>1 DEF EntityInv
<1>4. ASSUME NEW d \in Device, AStep(d), \A x \in Device : ~LeavesBaseBehind(x) PROVE EntityInv(e)'
  <2>1. /\ Keeps(d, e)'
        /\ \A s \in Store : LiveOrAbsent(package'[s].doc[e])
        /\ e \in Seeded /\ IsLive(package[FirstStore].doc[e])
             => IsLive(package'[FirstStore].doc[e])
    BY <1>0, <1>2, <1>4, OwnStepKeepsEntity DEF EntityInv
  <2>2. ASSUME NEW x \in Device \ {d} PROVE Keeps(x, e)'
    <3>1. rows'[x] = rows[x] /\ log'[x] = log[x] /\ base'[x] = base[x] /\ run'[x] = run[x]
      BY <1>0, <1>4, StepsOfOne
    <3>2. QED
      BY <1>2, <2>1, <3>1, OtherStepKeepsEntity DEF EntityInv
  <2>3. QED
    BY <1>2, <2>1, <2>2 DEF EntityInv
<1>5. ASSUME NEW s \in Store, Lapse(s) PROVE EntityInv(e)'
  BY <1>3, <1>5 DEF Lapse
<1>6. CASE UNCHANGED vars
  BY <1>3, <1>6 DEF vars
<1>7. CASE Next /\ \A x \in Device : ~LeavesBaseBehind(x)
  BY <1>4, <1>5, <1>7 DEF Next, AStep
<1>8. QED
  BY <1>6, <1>7

\* It holds at the start.
LEMMA InitEntity ==
    ASSUME Init, NEW e \in Entity, Owner[e] = e
    PROVE  EntityInv(e)
<1>1. /\ ~IsLive(Absent) /\ EmptyDocument[e] = Absent /\ NoBase.doc = EmptyDocument
      /\ Idle.base = NoBase /\ Idle.seen = EmptyDocument /\ Idle.local = EmptyDocument
      /\ Idle.merged = EmptyDocument /\ Idle.pc = "idle" /\ ~NoBase.has
  BY DEF IsLive, Absent, EmptyDocument, NoBase, Idle
<1>2. ASSUME NEW d \in Device
      PROVE  /\ run[d].base = NoBase /\ run[d].seen = EmptyDocument
             /\ run[d].local = EmptyDocument
             /\ run[d].merged = EmptyDocument /\ base[d] = NoBase /\ log[d][e] = 0
             /\ run[d].pc = IF d \in Late THEN "uninstalled" ELSE "idle"
             /\ rows[d][e] = IF d \in Late \/ e \notin Seeded THEN Absent ELSE Live(0, 1)
  BY DEF Init, Idle, SeededRows, EmptyDocument
<1>3. now = 1 /\ edits = 0 /\ \A s \in Store : package[s].doc = EmptyDocument
  BY DEF Init
<1>4. HandedOut(e)
  <2>1. ASSUME NEW d \in Device, NEW c \in CopiesAt(d, e), IsLive(c) PROVE c = Live(0, 1)
    BY <1>1, <1>2, <2>1 DEF CopiesAt
  <2>2. ASSUME NEW c \in Copies(e), IsLive(c) PROVE c = Live(0, 1)
    BY <1>1, <1>3, <2>1, <2>2 DEF Copies
  <2>3. QED
    BY <1>3, <2>2 DEF HandedOut, Live
<1>5. ASSUME NEW d \in Device PROVE Keeps(d, e)
  <2>1. RowDated(d, e)
    BY <1>1, <1>2 DEF RowDated, Settling
  <2>2. Plain(d, e) /\ Advances(d, e)
    BY <1>1, <1>2 DEF Plain, Advances, LiveOrAbsent
  <2>3. Present(d, e)
    BY <1>1, <1>2 DEF Present, HoldsRow, Live, IsLive
  <2>4. QED
    BY <2>1, <2>2, <2>3 DEF Keeps
<1>6. QED
  BY <1>1, <1>3, <1>4, <1>5 DEF EntityInv, LiveOrAbsent

(* Where every entity is its own group and the settings stay as they are,   *)
(* no package goes back to an older edit, however the users' saves, also    *)
(* during runs, the devices' runs, lapsed leases and stopped runs           *)
(* interleave, as long as no run that has written rows ends or starts over  *)
(* before it has stored its base (mergeEntity, Put with an entity tag).     *)
(* Without this an older edit does come back: a force push publishes what   *)
(* the device has, what a service owns takes the service's time             *)
(* (entityTimes), and a run that ends after apply has stamped what it       *)
(* adopted as if it were the device's own, newest change.                   *)
THEOREM PackagesNeverGoBack ==
    ASSUME MaxSettings = 0, \A e \in Entity : Owner[e] = e
    PROVE  Spec /\ [][\A d \in Device : ~LeavesBaseBehind(d)]_vars => PackageNeverReverts
<1> DEFINE Inv == (\A x \in Device : OneRemote(x)) /\ \A e \in Entity : EntityInv(e)
<1>1. Init => Inv
  <2>1. Init => \A x \in Device : OneRemote(x)
    BY DEF Init, OneRemote, Idle
  <2>2. QED
    BY <2>1, InitEntity
<1>2. EngineInv /\ Inv /\ [Next]_vars /\ [\A d \in Device : ~LeavesBaseBehind(d)]_vars => Inv'
  BY OneRemoteKept, NextKeepsEntity
<1>3. EngineInv /\ Inv /\ [Next]_vars =>
        [\A s \in Store, e \in Entity :
           IsLive(package[s].doc[e]) /\ IsLive(package'[s].doc[e])
             => package'[s].doc[e].val >= package[s].doc[e].val]_vars
  <2> SUFFICES ASSUME EngineInv, Inv, [Next]_vars, NEW s \in Store, NEW e \in Entity,
                      IsLive(package[s].doc[e]), IsLive(package'[s].doc[e])
               PROVE  package'[s].doc[e].val >= package[s].doc[e].val
    OBVIOUS
  <2>1. TypeOK /\ package[s].doc[e].val \in Nat
    BY DEF EngineInv, TypeOK, Document, Copy
  <2>2. CASE package'[s] = package[s]
    BY <2>1, <2>2
  <2>3. CASE package'[s] # package[s]
    <3>1. PICK d \in Device : /\ run[d].pc = "write" /\ run[d].store = s
                              /\ Current(d) /\ package'[s].doc = run[d].merged
      BY <2>1, <2>3, OnlyWritesChangePackages
    <3>2. run[d].seen = package[s].doc
      BY <3>1 DEF EngineInv, DeviceInv, SeenIsCurrent
    <3>3. Advances(d, e)
      BY DEF EntityInv, Keeps
    <3>4. run[d].merged[e].val \in Nat
      BY <2>1 DEF TypeOK, Run, Document, Copy
    <3>5. QED
      BY <2>1, <3>1, <3>2, <3>3, <3>4 DEF Advances
  <2>4. QED
    BY <2>2, <2>3
<1>4. QED
  BY <1>1, <1>2, <1>3, EngineInvariant, PTL DEF Spec, PackageNeverReverts
=============================================================================
