----------------------------- MODULE DeviceLock -----------------------------
(***************************************************************************)
(* What the remote write lock promises the sync engine: at any moment at   *)
(* most one device may rely on it, and it changes hands only through a     *)
(* moment in which nobody does.  A device may lose it without doing        *)
(* anything (its lease lapses).                                            *)
(*                                                                         *)
(* RemoteLease implements this specification.                              *)
(***************************************************************************)
CONSTANT Device          \* the devices that sync to one remote

NoHolder == "nobody"     \* the value of holder when no device relies on the lock

VARIABLE holder          \* the device that may rely on the lock, or NoHolder

Init == holder = NoHolder

\* A device gets the lock only when nobody may rely on it.
Take(d) == holder = NoHolder /\ holder' = d

\* The lock is given back, or its lease lapses.
Lose(d) == holder = d /\ holder' = NoHolder

Next == \E d \in Device : Take(d) \/ Lose(d)

Spec == Init /\ [][Next]_holder
=============================================================================
