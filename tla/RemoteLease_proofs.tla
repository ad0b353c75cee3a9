------------------------- MODULE RemoteLease_proofs -------------------------
(***************************************************************************)
(* Proofs about the remote write lock, for any set of devices, any lease   *)
(* length, any number of tries and any clock skew up to MaxSkew.           *)
(*                                                                         *)
(* LeaseInv is inductive.  Its heart is TagsCurrent: entity tags are never *)
(* reused, so a conditional write of Acquire that the store accepts        *)
(* replaces the very lock Acquire read, which was its own or had expired   *)
(* by its clock; and a conditional delete removes the very lock Release    *)
(* read, which carried its nonce.                                          *)
(***************************************************************************)
EXTENDS RemoteLease, TLAPS

LEMMA InitLeaseInv == Init => LeaseInv
BY LeaseAssumption
   DEF Init, LeaseInv, TypeOK, TagsKnown, NoncesUnique, TagsCurrent, ReliedLockIsOwned,
       Lock, NoLock, PC, Exists, Owns, Matches, MayRely

LEMMA AcquireKeepsInv ==
    ASSUME LeaseInv, NEW d \in Device, Acquire(d)
    PROVE  LeaseInv'
<1> USE LeaseAssumption DEF LeaseInv
<1>0. takes + 1 \in Nat /\ Clock(d) + TTL \in Nat
  BY DEF Clock, TypeOK
<1>1. TypeOK'
  BY <1>0 DEF Acquire, Goto, TypeOK, PC
<1>2. TagsKnown'
  BY <1>1 DEF Acquire, Goto, Clock, TypeOK, Lock, NoLock, TagsKnown, Exists
<1>3. NoncesUnique'
  BY <1>1 DEF Acquire, Goto, Clock, TypeOK, Lock, NoLock, TagsKnown, NoncesUnique, TagsCurrent, Owns, Exists, Matches
<1>4. TagsCurrent'
  BY <1>1 DEF Acquire, Goto, Clock, TypeOK, Lock, NoLock, TagsKnown, NoncesUnique, TagsCurrent, Owns, Exists, Matches
<1>5. ReliedLockIsOwned'
  BY <1>1 DEF Acquire, Goto, Clock, TypeOK, Lock, NoLock, TagsKnown, NoncesUnique, TagsCurrent, ReliedLockIsOwned, MayRely, Owns, Exists, Matches
<1>6. QED
  BY <1>1, <1>2, <1>3, <1>4, <1>5

LEMMA AcquireReadLockKeepsInv ==
    ASSUME LeaseInv, NEW d \in Device, AcquireReadLock(d)
    PROVE  LeaseInv'
<1> USE LeaseAssumption DEF LeaseInv
<1>1. TypeOK'
  BY DEF AcquireReadLock, Goto, BlockedBy, Return, Clock, TypeOK, Lock, NoLock, PC
<1>2. TagsKnown'
  BY <1>1 DEF AcquireReadLock, Goto, BlockedBy, Return, Clock, TypeOK, Lock, NoLock, TagsKnown, Exists
<1>3. NoncesUnique'
  BY <1>1 DEF AcquireReadLock, Goto, BlockedBy, Return, Clock, TypeOK, Lock, NoLock, TagsKnown, NoncesUnique, TagsCurrent, Owns, Exists, Matches
<1>4. TagsCurrent'
  BY <1>1 DEF AcquireReadLock, Goto, BlockedBy, Return, Clock, TypeOK, Lock, NoLock, TagsKnown, NoncesUnique, TagsCurrent, Owns, Exists, Matches
<1>5. ReliedLockIsOwned'
  BY <1>1 DEF AcquireReadLock, Goto, BlockedBy, Return, Clock, TypeOK, Lock, NoLock, TagsKnown, NoncesUnique, TagsCurrent, ReliedLockIsOwned, MayRely, Owns, Exists, Matches
<1>6. QED
  BY <1>1, <1>2, <1>3, <1>4, <1>5

LEMMA AcquireWriteLockKeepsInv ==
    ASSUME LeaseInv, NEW d \in Device, AcquireWriteLock(d)
    PROVE  LeaseInv'
<1> USE LeaseAssumption DEF LeaseInv
<1>1. TypeOK'
  BY DEF AcquireWriteLock, Goto, Store, TypeOK, Lock, NoLock, PC
<1>2. TagsKnown'
  BY <1>1 DEF AcquireWriteLock, Goto, Store, TypeOK, Lock, NoLock, TagsKnown, Exists
<1>3. NoncesUnique'
  BY <1>1 DEF AcquireWriteLock, Goto, Store, TypeOK, Lock, NoLock, TagsKnown, NoncesUnique, TagsCurrent, Owns, Exists, Matches
<1>4. TagsCurrent'
  BY <1>1 DEF AcquireWriteLock, Goto, Store, TypeOK, Lock, NoLock, TagsKnown, NoncesUnique, TagsCurrent, Owns, Exists, Matches
<1>5. ReliedLockIsOwned'
  BY <1>1 DEF AcquireWriteLock, Goto, Store, TypeOK, Lock, NoLock, TagsKnown, NoncesUnique, TagsCurrent, ReliedLockIsOwned, MayRely, Owns, Exists, Matches
<1>6. QED
  BY <1>1, <1>2, <1>3, <1>4, <1>5

LEMMA AcquireRefusedKeepsInv ==
    ASSUME LeaseInv, NEW d \in Device, AcquireRefused(d)
    PROVE  LeaseInv'
<1> USE LeaseAssumption DEF LeaseInv
<1>1. TypeOK'
  BY DEF AcquireRefused, Goto, Return, TypeOK, Lock, NoLock, PC
<1>2. TagsKnown'
  BY <1>1 DEF AcquireRefused, Goto, Return, TypeOK, Lock, NoLock, TagsKnown, Exists
<1>3. NoncesUnique'
  BY <1>1 DEF AcquireRefused, Goto, Return, TypeOK, Lock, NoLock, TagsKnown, NoncesUnique, TagsCurrent, Owns, Exists, Matches
<1>4. TagsCurrent'
  BY <1>1 DEF AcquireRefused, Goto, Return, TypeOK, Lock, NoLock, TagsKnown, NoncesUnique, TagsCurrent, Owns, Exists, Matches
<1>5. ReliedLockIsOwned'
  BY <1>1 DEF AcquireRefused, Goto, Return, TypeOK, Lock, NoLock, TagsKnown, NoncesUnique, TagsCurrent, ReliedLockIsOwned, MayRely, Owns, Exists, Matches
<1>6. QED
  BY <1>1, <1>2, <1>3, <1>4, <1>5

LEMMA AcquireAnswerLostKeepsInv ==
    ASSUME LeaseInv, NEW d \in Device, AcquireAnswerLost(d)
    PROVE  LeaseInv'
<1> USE LeaseAssumption DEF LeaseInv
<1>1. TypeOK'
  BY DEF AcquireAnswerLost, Goto, Store, Return, TypeOK, Lock, NoLock, PC
<1>2. TagsKnown'
  BY <1>1 DEF AcquireAnswerLost, Goto, Store, Return, TypeOK, Lock, NoLock, TagsKnown, Exists
<1>3. NoncesUnique'
  BY <1>1 DEF AcquireAnswerLost, Goto, Store, Return, TypeOK, Lock, NoLock, TagsKnown, NoncesUnique, TagsCurrent, Owns, Exists, Matches
<1>4. TagsCurrent'
  BY <1>1 DEF AcquireAnswerLost, Goto, Store, Return, TypeOK, Lock, NoLock, TagsKnown, NoncesUnique, TagsCurrent, Owns, Exists, Matches
<1>5. ReliedLockIsOwned'
  BY <1>1 DEF AcquireAnswerLost, Goto, Store, Return, TypeOK, Lock, NoLock, TagsKnown, NoncesUnique, TagsCurrent, ReliedLockIsOwned, MayRely, Owns, Exists, Matches
<1>6. QED
  BY <1>1, <1>2, <1>3, <1>4, <1>5

LEMMA RenewReadLockKeepsInv ==
    ASSUME LeaseInv, NEW d \in Device, RenewReadLock(d)
    PROVE  LeaseInv'
<1> USE LeaseAssumption DEF LeaseInv
<1>1. TypeOK'
  BY DEF RenewReadLock, Goto, Clock, TypeOK, Lock, NoLock, PC
<1>2. TagsKnown'
  BY <1>1 DEF RenewReadLock, Goto, Clock, TypeOK, Lock, NoLock, TagsKnown, Exists
<1>3. NoncesUnique'
  BY <1>1 DEF RenewReadLock, Goto, Clock, TypeOK, Lock, NoLock, TagsKnown, NoncesUnique, TagsCurrent, Owns, Exists, Matches
<1>4. TagsCurrent'
  BY <1>1 DEF RenewReadLock, Goto, Clock, TypeOK, Lock, NoLock, TagsKnown, NoncesUnique, TagsCurrent, Owns, Exists, Matches
<1>5. ReliedLockIsOwned'
  BY <1>1 DEF RenewReadLock, Goto, Clock, TypeOK, Lock, NoLock, TagsKnown, NoncesUnique, TagsCurrent, ReliedLockIsOwned, MayRely, Owns, Exists, Matches
<1>6. QED
  BY <1>1, <1>2, <1>3, <1>4, <1>5

LEMMA RenewWriteLockKeepsInv ==
    ASSUME LeaseInv, NEW d \in Device, RenewWriteLock(d)
    PROVE  LeaseInv'
<1> USE LeaseAssumption DEF LeaseInv
<1>1. TypeOK'
  BY DEF RenewWriteLock, Goto, Store, TypeOK, Lock, NoLock, PC
<1>2. TagsKnown'
  BY <1>1 DEF RenewWriteLock, Goto, Store, TypeOK, Lock, NoLock, TagsKnown, Exists
<1>3. NoncesUnique'
  BY <1>1 DEF RenewWriteLock, Goto, Store, TypeOK, Lock, NoLock, TagsKnown, NoncesUnique, TagsCurrent, Owns, Exists, Matches
<1>4. TagsCurrent'
  BY <1>1 DEF RenewWriteLock, Goto, Store, TypeOK, Lock, NoLock, TagsKnown, NoncesUnique, TagsCurrent, Owns, Exists, Matches
<1>5. ReliedLockIsOwned'
  BY <1>1 DEF RenewWriteLock, Goto, Store, TypeOK, Lock, NoLock, TagsKnown, NoncesUnique, TagsCurrent, ReliedLockIsOwned, MayRely, Owns, Exists, Matches
<1>6. QED
  BY <1>1, <1>2, <1>3, <1>4, <1>5

LEMMA ReleaseReadLockKeepsInv ==
    ASSUME LeaseInv, NEW d \in Device, ReleaseReadLock(d)
    PROVE  LeaseInv'
<1> USE LeaseAssumption DEF LeaseInv
<1>1. TypeOK'
  BY DEF ReleaseReadLock, Goto, Return, TypeOK, Lock, NoLock, PC
<1>2. TagsKnown'
  BY <1>1 DEF ReleaseReadLock, Goto, Return, TypeOK, Lock, NoLock, TagsKnown, Exists
<1>3. NoncesUnique'
  BY <1>1 DEF ReleaseReadLock, Goto, Return, TypeOK, Lock, NoLock, TagsKnown, NoncesUnique, TagsCurrent, Owns, Exists, Matches
<1>4. TagsCurrent'
  BY <1>1 DEF ReleaseReadLock, Goto, Return, TypeOK, Lock, NoLock, TagsKnown, NoncesUnique, TagsCurrent, Owns, Exists, Matches
<1>5. ReliedLockIsOwned'
  BY <1>1 DEF ReleaseReadLock, Goto, Return, TypeOK, Lock, NoLock, TagsKnown, NoncesUnique, TagsCurrent, ReliedLockIsOwned, MayRely, Owns, Exists, Matches
<1>6. QED
  BY <1>1, <1>2, <1>3, <1>4, <1>5

LEMMA ReleaseDeleteLockKeepsInv ==
    ASSUME LeaseInv, NEW d \in Device, ReleaseDeleteLock(d)
    PROVE  LeaseInv'
<1> USE LeaseAssumption DEF LeaseInv
<1>1. TypeOK'
  BY DEF ReleaseDeleteLock, Goto, Return, TypeOK, Lock, NoLock, PC
<1>2. TagsKnown'
  BY <1>1 DEF ReleaseDeleteLock, Goto, Return, TypeOK, Lock, NoLock, TagsKnown, Exists
<1>3. NoncesUnique'
  BY <1>1 DEF ReleaseDeleteLock, Goto, Return, TypeOK, Lock, NoLock, TagsKnown, NoncesUnique, TagsCurrent, Owns, Exists, Matches
<1>4. TagsCurrent'
  BY <1>1 DEF ReleaseDeleteLock, Goto, Return, TypeOK, Lock, NoLock, TagsKnown, NoncesUnique, TagsCurrent, Owns, Exists, Matches
<1>5. ReliedLockIsOwned'
  BY <1>1 DEF ReleaseDeleteLock, Goto, Return, TypeOK, Lock, NoLock, TagsKnown, NoncesUnique, TagsCurrent, ReliedLockIsOwned, MayRely, Owns, Exists, Matches
<1>6. QED
  BY <1>1, <1>2, <1>3, <1>4, <1>5

LEMMA AbandonKeepsInv ==
    ASSUME LeaseInv, NEW d \in Device, Abandon(d)
    PROVE  LeaseInv'
<1> USE LeaseAssumption DEF LeaseInv
<1>1. TypeOK'
  BY DEF Abandon, Goto, Return, TypeOK, Lock, NoLock, PC
<1>2. TagsKnown'
  BY <1>1 DEF Abandon, Goto, Return, TypeOK, Lock, NoLock, TagsKnown, Exists
<1>3. NoncesUnique'
  BY <1>1 DEF Abandon, Goto, Return, TypeOK, Lock, NoLock, TagsKnown, NoncesUnique, TagsCurrent, Owns, Exists, Matches
<1>4. TagsCurrent'
  BY <1>1 DEF Abandon, Goto, Return, TypeOK, Lock, NoLock, TagsKnown, NoncesUnique, TagsCurrent, Owns, Exists, Matches
<1>5. ReliedLockIsOwned'
  BY <1>1 DEF Abandon, Goto, Return, TypeOK, Lock, NoLock, TagsKnown, NoncesUnique, TagsCurrent, ReliedLockIsOwned, MayRely, Owns, Exists, Matches
<1>6. QED
  BY <1>1, <1>2, <1>3, <1>4, <1>5

LEMMA TickKeepsInv ==
    ASSUME LeaseInv, Tick
    PROVE  LeaseInv'
BY LeaseAssumption
   DEF Tick, LeaseInv, TypeOK, TagsKnown, NoncesUnique, TagsCurrent, ReliedLockIsOwned,
       Lock, NoLock, Exists, Owns, Matches, MayRely

LEMMA NextKeepsInv == LeaseInv /\ [Next]_vars => LeaseInv'
<1>1. SUFFICES ASSUME LeaseInv, [Next]_vars PROVE LeaseInv'
  OBVIOUS
<1>2. CASE Tick
  BY <1>1, <1>2, TickKeepsInv
<1>3. CASE \E d \in Device : Step(d)
  BY <1>1, <1>3, AcquireKeepsInv, AcquireReadLockKeepsInv, AcquireWriteLockKeepsInv,
     AcquireRefusedKeepsInv, AcquireAnswerLostKeepsInv, RenewReadLockKeepsInv,
     RenewWriteLockKeepsInv, ReleaseReadLockKeepsInv, ReleaseDeleteLockKeepsInv,
     AbandonKeepsInv DEF Step
<1>4. CASE UNCHANGED vars
  BY <1>1, <1>4
     DEF vars, LeaseInv, TypeOK, TagsKnown, NoncesUnique, TagsCurrent, ReliedLockIsOwned,
         Lock, NoLock, Exists, Owns, Matches, MayRely
<1>5. QED
  BY <1>1, <1>2, <1>3, <1>4 DEF Next

(* The invariant of the lock holds in every reachable state of Acquire,     *)
(* Renew and Release.                                                       *)
THEOREM LeaseInvariant == Spec => []LeaseInv
BY InitLeaseInv, NextKeepsInv, PTL DEF Spec

-----------------------------------------------------------------------------
(* Two devices never both hold a Lease they may rely on: mutual exclusion   *)
(* of sync runs up to the clock skew.                                       *)
THEOREM LeaseIsExclusive == Spec => []LeaseExclusive
<1>1. LeaseInv => LeaseExclusive
  BY DEF LeaseInv, NoncesUnique, ReliedLockIsOwned, LeaseExclusive, MayRely, Owns
<1>2. QED
  BY <1>1, LeaseInvariant, PTL

(* A Lease that may be relied on still has its lock at the store.           *)
THEOREM ReliedLockStaysStored == Spec => []ReliedLockIsStored
<1>1. LeaseInv => ReliedLockIsStored
  BY DEF LeaseInv, NoncesUnique, ReliedLockIsOwned, ReliedLockIsStored, MayRely, Owns
<1>2. QED
  BY <1>1, LeaseInvariant, PTL

-----------------------------------------------------------------------------
\* Only the delete of Release makes the lock object disappear.
LEMMA DisappearsInRelease ==
    ASSUME LeaseInv, [Next]_vars, Exists, lock'.etag = 0
    PROVE  \E d \in Device : ReleaseDeleteLock(d) /\ Matches(d)
<1>1. \A d \in Device : ~Store(d)
  BY DEF Store, LeaseInv, TypeOK
<1>2. lock' # lock
  BY DEF Exists
<1>3. PICK d \in Device : Step(d)
  BY <1>2 DEF Next, Tick, vars
<1>4. ReleaseDeleteLock(d)
  BY <1>1, <1>2, <1>3
     DEF Step, Acquire, AcquireReadLock, AcquireWriteLock, AcquireRefused, AcquireAnswerLost,
         RenewReadLock, RenewWriteLock, ReleaseReadLock, Abandon
<1>5. QED
  BY <1>2, <1>4 DEF ReleaseDeleteLock

(* A device that overran its lease cannot delete the lock a newer owner     *)
(* took: Release removes only the lock its own Lease wrote.                 *)
THEOREM ReleaseRemovesOnlyOwn == Spec => RemovesOnlyOwnLock
<1>1. LeaseInv /\ [Next]_vars
        => [Exists /\ lock'.etag = 0
              => \E d \in Device : pc[d] = "delete" /\ pc'[d] = "idle"
                                   /\ lock.owner = d /\ lock.nonce = nonce[d]]_vars
  <2>1. SUFFICES ASSUME LeaseInv, [Next]_vars, Exists, lock'.etag = 0
                 PROVE  \E d \in Device : pc[d] = "delete" /\ pc'[d] = "idle"
                                          /\ lock.owner = d /\ lock.nonce = nonce[d]
    OBVIOUS
  <2>2. PICK d \in Device : ReleaseDeleteLock(d) /\ Matches(d)
    BY <2>1, DisappearsInRelease
  <2>3. pc[d] = "delete" /\ pc'[d] = "idle"
    BY <2>1, <2>2 DEF ReleaseDeleteLock, Return, Goto, LeaseInv, TypeOK
  <2>4. lock.owner = d /\ lock.nonce = nonce[d]
    BY <2>1, <2>2, <2>3 DEF LeaseInv, NoncesUnique, TagsCurrent, Owns
  <2>5. QED
    BY <2>3, <2>4
<1>2. QED
  BY <1>1, LeaseInvariant, PTL DEF Spec, RemovesOnlyOwnLock

-----------------------------------------------------------------------------
LEMMA HolderIsDevice == LeaseInv /\ Holder # "nobody" => Holder \in Device
BY DEF LeaseInv, TagsKnown, Holder

\* Writing the lock: nobody else may have relied on the one it replaces.
LEMMA StoreImplements ==
    ASSUME LeaseInv, NEW d \in Device, Store(d), UNCHANGED now,
           (pc[d] \in {"write", "renew"}) /\ Matches(d)
    PROVE  [Abstract!Next]_Holder
<1>1. Holder = "nobody" \/ Holder = d
  BY LeaseAssumption
     DEF Holder, LeaseInv, TypeOK, Lock, TagsCurrent, NoncesUnique, Owns, Exists
<1>2. Holder' = "nobody" \/ Holder' = d
  BY DEF Holder, Store
<1>3. QED
  BY <1>1, <1>2 DEF Abstract!Next, Abstract!Take, Abstract!Lose, Abstract!NoHolder

LEMMA TickImplements ==
    ASSUME LeaseInv, Tick
    PROVE  [Abstract!Next]_Holder
<1>1. Holder' = Holder \/ Holder' = "nobody"
  BY LeaseAssumption DEF Tick, Holder, Exists, LeaseInv, TypeOK, Lock
<1>2. QED
  BY <1>1, HolderIsDevice DEF Abstract!Next, Abstract!Lose, Abstract!NoHolder

LEMMA ReleaseImplements ==
    ASSUME LeaseInv, NEW d \in Device, ReleaseDeleteLock(d)
    PROVE  [Abstract!Next]_Holder
<1>1. Holder' = Holder \/ Holder' = "nobody"
  BY DEF ReleaseDeleteLock, Holder, Exists, NoLock
<1>2. QED
  BY <1>1, HolderIsDevice DEF Abstract!Next, Abstract!Lose, Abstract!NoHolder

\* Every other step leaves the stored lock and the clock alone.
LEMMA QuietStepImplements ==
    ASSUME UNCHANGED <<now, lock>>
    PROVE  [Abstract!Next]_Holder
BY DEF Holder, Exists

(* Acquire, Renew and Release implement the abstract lock: it passes from   *)
(* one device to another only through a moment when nobody may rely on it.  *)
THEOREM LeaseImplementsDeviceLock == Spec => ImplementsDeviceLock
<1>1. Init => Abstract!Init
  BY DEF Init, Abstract!Init, Abstract!NoHolder, Holder, Exists, NoLock
<1>2. LeaseInv /\ [Next]_vars => [Abstract!Next]_Holder
  <2>1. SUFFICES ASSUME LeaseInv, [Next]_vars PROVE [Abstract!Next]_Holder
    OBVIOUS
  <2>2. CASE Tick
    BY <2>1, <2>2, TickImplements
  <2>3. ASSUME NEW d \in Device, Step(d) PROVE [Abstract!Next]_Holder
    <3>1. CASE AcquireWriteLock(d)
      BY <2>1, <3>1, StoreImplements DEF AcquireWriteLock
    <3>2. CASE AcquireAnswerLost(d)
      BY <2>1, <3>2, StoreImplements DEF AcquireAnswerLost
    <3>3. CASE RenewWriteLock(d)
      BY <2>1, <3>3, StoreImplements, QuietStepImplements DEF RenewWriteLock
    <3>4. CASE ReleaseDeleteLock(d)
      BY <2>1, <3>4, ReleaseImplements
    <3>5. CASE Acquire(d) \/ AcquireReadLock(d) \/ AcquireRefused(d)
               \/ RenewReadLock(d) \/ ReleaseReadLock(d) \/ Abandon(d)
      BY <3>5, QuietStepImplements
         DEF Acquire, AcquireReadLock, AcquireRefused, RenewReadLock, ReleaseReadLock, Abandon
    <3>6. QED
      BY <2>3, <3>1, <3>2, <3>3, <3>4, <3>5 DEF Step
  <2>4. CASE UNCHANGED vars
    BY <2>4, QuietStepImplements DEF vars
  <2>5. QED
    BY <2>1, <2>2, <2>3, <2>4 DEF Next
<1>3. QED
  BY <1>1, <1>2, LeaseInvariant, PTL DEF Spec, ImplementsDeviceLock, Abstract!Spec
=============================================================================
