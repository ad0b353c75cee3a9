---------------------------- MODULE MCSyncEngine ----------------------------
(* Small instances of SyncEngine: one or two entities, where the second is a *)
(* credential of the first; one or two stores; two devices, of which the     *)
(* second may have the credentials switched off in its settings.             *)
EXTENDS SyncEngine, TLC

CONSTANTS d1, d2, e1, e2, s1, s2

MCDevice == {d1, d2}
OneDevice == {d1}
OneEntity == {e1}
ServiceAndCredential == {e1, e2}
SelfOwned == [e \in Entity |-> e]
MCOwner == [e \in Entity |-> e1]

EveryEntity == [d \in Device |-> Entity]
NarrowScope == [d \in MCDevice |-> IF d = d2 THEN {e1} ELSE Entity]
Symmetry == Permutations(MCDevice)
=============================================================================
