----------------------------- MODULE SyncMerge -----------------------------
(***************************************************************************)
(* The three-way merge of configuration packages: core/internal/sync,      *)
(* merge.go, and the scope and orphan rules of local.go.                   *)
(*                                                                         *)
(* An entity's document or secret is a number: two copies with the same    *)
(* number hold the same content.  Kind and id are one: an Entity.  An      *)
(* entity may have an owner, the service a credential or a price binding   *)
(* belongs to.                                                             *)
(***************************************************************************)
EXTENDS Naturals

CONSTANTS
    Entity,      \* the configuration entities, a kind and an id each
    Owner        \* the service an entity belongs to; an entity without one owns itself

ASSUME EntityAssumption ==
    /\ Owner \in [Entity -> Entity]
    /\ \A e \in Entity : Owner[Owner[e]] = Owner[e]

\* One side's copy of an entity: a nil *Entity, a live one, or a tombstone.
Absent == [is |-> "absent", val |-> 0, at |-> 0]
Live(v, t) == [is |-> "live", val |-> v, at |-> t]
Gone(t) == [is |-> "deleted", val |-> 0, at |-> t]

Copy == [is : {"absent", "live", "deleted"}, val : Nat, at : Nat]

\* A package payload: what it holds of every entity.
Document == [Entity -> Copy]

EmptyDocument == [e \in Entity |-> Absent]

IsLive(copy) == copy.is = "live"

\* Get reports an entry, a tombstone included.
Holds(document, e) == document[e].is # "absent"

-----------------------------------------------------------------------------
\* differs compares content and presence, never the time.
differs(base, side) == base.is # side.is \/ base.val # side.val

\* eventTime: an absent copy has the zero time.
eventTime(copy) == copy.at

\* Mutant of mergeEntity: a first contact is decided by the times alone.
mergeEntityByTime(base, local, remote, firstContact, changed) ==
    CASE ~differs(base, remote) -> local
      [] differs(base, remote) /\ ~differs(base, local) -> remote
      [] OTHER -> IF eventTime(remote) > eventTime(local) THEN remote ELSE local

\* The rule of mergeEntity; every pair of conditions is exclusive.
mergeEntity(base, local, remote, firstContact, changed) ==
    CASE ~differs(base, remote) -> local
      [] differs(base, remote) /\ ~differs(base, local) -> remote
      [] OTHER ->
         CASE firstContact /\ base = Absent /\ ~changed -> remote
           [] OTHER ->
              CASE eventTime(local) > eventTime(remote) -> local
                [] eventTime(remote) > eventTime(local) -> remote
                [] OTHER -> IF ~IsLive(local) /\ IsLive(remote) THEN remote ELSE local

\* Merge keeps the chosen live copies: an absence or a tombstone leaves no entry.
Merge(base, local, remote, firstContact, changed) ==
    [e \in Entity |->
        LET chosen == mergeEntity(base[e], local[e], remote[e], firstContact, e \in changed)
        IN  IF IsLive(chosen) THEN chosen ELSE Absent]

-----------------------------------------------------------------------------
\* restrict keeps the entities of the kinds a scope selects.
restrict(document, kinds) == [e \in Entity |-> IF e \in kinds THEN document[e] ELSE Absent]

\* Mutant of carryThrough: the sources in the wrong order, the base winning.
carryThroughBaseLast(merged, kinds, base, remote) ==
    [e \in Entity |-> CASE e \in kinds -> merged[e]
                        [] e \notin kinds /\ Holds(base, e) -> base[e]
                        [] OTHER -> remote[e]]

\* carryThrough fills in the other kinds: the base first, the remote over it.
carryThrough(merged, kinds, base, remote) ==
    [e \in Entity |-> CASE e \in kinds -> merged[e]
                        [] e \notin kinds /\ Holds(remote, e) -> remote[e]
                        [] OTHER -> base[e]]

\* Mutant of pruneOrphans: the orphans stay.
pruneOrphansKept(document) == document

\* pruneOrphans drops an entity whose owner has no entry in the package.
pruneOrphans(document) ==
    [e \in Entity |-> IF Holds(document, Owner[e]) THEN document[e] ELSE Absent]
=============================================================================
