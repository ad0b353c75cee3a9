---------------------------- MODULE RemoteLease ----------------------------
(***************************************************************************)
(* The single write lock on a sync remote: core/internal/sync/remote,      *)
(* Acquire, Renew and Release over the conditional requests of a store.    *)
(*                                                                         *)
(* Every request to the store is a step of its own, so the requests of     *)
(* several devices interleave, a device can stop between any two of them,  *)
(* and an answer can be lost after the store has applied the request.      *)
(* A device compares the expiry another device stamped with its own clock, *)
(* and the clocks disagree by up to MaxSkew.                               *)
(***************************************************************************)
EXTENDS Naturals

CONSTANTS
    Device,      \* the devices that share the remote
    Offset,      \* how far each device's clock is ahead of the slowest one
    MaxSkew,     \* the largest offset
    TTL,         \* DefaultLease
    MaxTries,    \* the tries of Acquire's loop
    MaxTime,     \* bound of the model on the clock
    MaxTakes,    \* bound of the model on how often Acquire is called
    MaxWrites    \* bound of the model on how often the lock is written

ASSUME LeaseAssumption ==
    /\ "nobody" \notin Device
    /\ MaxSkew \in Nat /\ TTL \in Nat \ {0} /\ MaxTries \in Nat \ {0}
    /\ MaxTime \in Nat /\ MaxTakes \in Nat /\ MaxWrites \in Nat
    /\ Offset \in [Device -> 0..MaxSkew]

VARIABLES
    now,         \* time of the slowest clock
    lock,        \* the lock object at the store: a record, or NoLock
    writes,      \* how many times the lock object was written, the last entity tag
    takes,       \* how many nonces were drawn
    pc,          \* where each device is in Acquire, Renew or Release
    nonce,       \* the nonce of the device's current Lease
    expires,     \* its expires field
    tries,       \* the loop counter of Acquire
    etag         \* the entity tag the device last read, 0 for none

vars == <<now, lock, writes, takes, pc, nonce, expires, tries, etag>>

NoLock == [owner |-> "nobody", nonce |-> 0, expires |-> 0, etag |-> 0]

Lock == [owner : Device \cup {"nobody"}, nonce : Nat, expires : Nat, etag : Nat]

\* "idle": no Lease; "read", "write": the two requests of one try of Acquire;
\* "held": Acquire returned a Lease; "renew": Renew has read its own lock;
\* "lost": Renew reported ErrLocked; "delete": Release has read its own lock.
PC == {"idle", "read", "write", "held", "renew", "lost", "delete"}

Exists == lock.etag # 0

\* The device's own now().
Clock(d) == now + Offset[d]

TypeOK ==
    /\ now \in Nat /\ writes \in Nat /\ takes \in Nat
    /\ lock \in Lock
    /\ pc \in [Device -> PC]
    /\ nonce \in [Device -> Nat] /\ expires \in [Device -> Nat]
    /\ tries \in [Device -> Nat] /\ etag \in [Device -> Nat]

Init ==
    /\ now = 0 /\ writes = 0 /\ takes = 0
    /\ lock = NoLock
    /\ pc = [d \in Device |-> "idle"]
    /\ nonce = [d \in Device |-> 0]
    /\ expires = [d \in Device |-> 0]
    /\ tries = [d \in Device |-> 0]
    /\ etag = [d \in Device |-> 0]

-----------------------------------------------------------------------------
\* Mutant of Matches: the requests carry no condition.
MatchesUnchecked(d) == TRUE

\* The conditional requests of a store: they apply only while the lock object
\* still carries the entity tag the caller read, 0 meaning that it is absent.
Matches(d) == etag[d] = lock.etag

Store(d) ==
    /\ writes < MaxWrites
    /\ lock' = [owner |-> d, nonce |-> nonce[d], expires |-> expires[d], etag |-> writes + 1]
    /\ writes' = writes + 1

\* Mutant of Owns: any lock is taken for the Lease's own.
OwnsUnchecked(d) == Exists

\* The stored lock is the one this Lease wrote, told by its nonce.
Owns(d) == Exists /\ lock.nonce = nonce[d]

Goto(d, where) == pc' = [pc EXCEPT ![d] = where]

\* The operation returns and its Lease, if it had one, goes out of scope.
Return(d) ==
    /\ Goto(d, "idle")
    /\ nonce' = [nonce EXCEPT ![d] = 0]
    /\ expires' = [expires EXCEPT ![d] = 0]
    /\ tries' = [tries EXCEPT ![d] = 0]
    /\ etag' = [etag EXCEPT ![d] = 0]

-----------------------------------------------------------------------------
\* Acquire draws its nonce and stamps its expiry once, before the first try.
Acquire(d) ==
    /\ pc[d] = "idle" /\ takes < MaxTakes
    /\ takes' = takes + 1
    /\ nonce' = [nonce EXCEPT ![d] = takes + 1]
    /\ expires' = [expires EXCEPT ![d] = Clock(d) + TTL]
    /\ tries' = [tries EXCEPT ![d] = 0]
    /\ Goto(d, "read")
    /\ UNCHANGED <<now, lock, writes, etag>>

\* Mutant of BlockedBy: another device's lock counts as expired two ticks early.
BlockedByEarly(d) == Exists /\ lock.owner # d /\ lock.expires > Clock(d) + 2

\* Mutant of BlockedBy: another device's lock is never waited for.
BlockedByNobody(d) == FALSE

\* Another device's unexpired lock ends Acquire with ErrLocked.
BlockedBy(d) == Exists /\ lock.owner # d /\ lock.expires > Clock(d)

AcquireReadLock(d) ==
    /\ pc[d] = "read"
    /\ \/ BlockedBy(d) /\ Return(d)
       \/ /\ ~BlockedBy(d)
          /\ Goto(d, "write")
          /\ etag' = [etag EXCEPT ![d] = lock.etag]
          /\ UNCHANGED <<nonce, expires, tries>>
    /\ UNCHANGED <<now, lock, writes, takes>>

AcquireWriteLock(d) ==
    /\ pc[d] = "write" /\ Matches(d)
    /\ Store(d)
    /\ etag' = [etag EXCEPT ![d] = writes + 1]
    /\ Goto(d, "held")
    /\ UNCHANGED <<now, takes, nonce, expires, tries>>

\* ErrPrecondition: another device changed the lock, so Acquire tries again.
AcquireRefused(d) ==
    /\ pc[d] = "write" /\ ~Matches(d)
    /\ \/ /\ tries[d] + 1 < MaxTries
          /\ tries' = [tries EXCEPT ![d] = @ + 1]
          /\ Goto(d, "read")
          /\ UNCHANGED <<nonce, expires, etag>>
       \/ tries[d] + 1 = MaxTries /\ Return(d)
    /\ UNCHANGED <<now, lock, writes, takes>>

\* The store wrote the lock and the answer was lost: Acquire returns the error
\* and leaves a lock behind that no Lease stands for.
AcquireAnswerLost(d) ==
    /\ pc[d] = "write" /\ Matches(d)
    /\ Store(d)
    /\ Return(d)
    /\ UNCHANGED <<now, takes>>

-----------------------------------------------------------------------------
\* Renew reads the lock; a missing one or one with another nonce is ErrLocked.
\* The handle's expiry moves before the write that makes it true.
RenewReadLock(d) ==
    /\ pc[d] = "held"
    /\ \/ /\ Owns(d)
          /\ Goto(d, "renew")
          /\ etag' = [etag EXCEPT ![d] = lock.etag]
          /\ expires' = [expires EXCEPT ![d] = Clock(d) + TTL]
       \/ ~Owns(d) /\ Goto(d, "lost") /\ UNCHANGED <<etag, expires>>
    /\ UNCHANGED <<now, lock, writes, takes, nonce, tries>>

RenewWriteLock(d) ==
    /\ pc[d] = "renew"
    /\ \/ /\ Matches(d)
          /\ Store(d)
          /\ etag' = [etag EXCEPT ![d] = writes + 1]
          /\ Goto(d, "held")
       \/ ~Matches(d) /\ Goto(d, "lost") /\ UNCHANGED <<lock, writes, etag>>
    /\ UNCHANGED <<now, takes, nonce, expires, tries>>

-----------------------------------------------------------------------------
\* Release re-reads the lock and deletes it only when the nonce is its own.
ReleaseReadLock(d) ==
    /\ pc[d] \in {"held", "lost"}
    /\ \/ /\ Owns(d)
          /\ Goto(d, "delete")
          /\ etag' = [etag EXCEPT ![d] = lock.etag]
          /\ UNCHANGED <<nonce, expires, tries>>
       \/ ~Owns(d) /\ Return(d)
    /\ UNCHANGED <<now, lock, writes, takes>>

\* DeleteLock: a refused condition and a lock already gone both end Release.
ReleaseDeleteLock(d) ==
    /\ pc[d] = "delete"
    /\ lock' = IF Exists /\ Matches(d) THEN NoLock ELSE lock
    /\ Return(d)
    /\ UNCHANGED <<now, writes, takes>>

-----------------------------------------------------------------------------
\* The process stops, or a request fails without reaching the store and the
\* operation returns its error: the Lease is gone and the lock stays as it is.
Abandon(d) ==
    /\ pc[d] # "idle"
    /\ Return(d)
    /\ UNCHANGED <<now, lock, writes, takes>>

Tick ==
    /\ now < MaxTime
    /\ now' = now + 1
    /\ UNCHANGED <<lock, writes, takes, pc, nonce, expires, tries, etag>>

Step(d) ==
    \/ Acquire(d) \/ AcquireReadLock(d) \/ AcquireWriteLock(d)
    \/ AcquireRefused(d) \/ AcquireAnswerLost(d)
    \/ RenewReadLock(d) \/ RenewWriteLock(d)
    \/ ReleaseReadLock(d) \/ ReleaseDeleteLock(d)
    \/ Abandon(d)

Next == Tick \/ \E d \in Device : Step(d)

Spec == Init /\ [][Next]_vars

-----------------------------------------------------------------------------
\* A device may rely on its Lease while every clock is still before the expiry.
MayRely(d) == pc[d] = "held" /\ now + MaxSkew < expires[d]

(* Two devices never both hold a Lease they may rely on, whatever the order *)
(* of their requests, the lost answers and the clock skew (lease.go: "two   *)
(* devices that race both cannot win").                                     *)
LeaseExclusive ==
    \A d, e \in Device : MayRely(d) /\ MayRely(e) => d = e

(* A device that may rely on its Lease finds its own lock at the store: no  *)
(* other device's takeover and no late Release has removed it.              *)
ReliedLockIsStored ==
    \A d \in Device : MayRely(d) => Exists /\ lock.owner = d /\ lock.nonce = nonce[d]

(* Release never removes the lock of a newer owner: the lock object only    *)
(* disappears in the Release of the very Lease it was written for (lease.go:*)
(* "a device that overran its lease cannot delete the lock a newer owner    *)
(* took").                                                                  *)
RemovesOnlyOwnLock ==
    [][Exists /\ lock'.etag = 0
         => \E d \in Device : pc[d] = "delete" /\ pc'[d] = "idle"
                              /\ lock.owner = d /\ lock.nonce = nonce[d]]_vars

(* The inductive invariant behind the properties above.  An entity tag is   *)
(* never used twice, so a device whose tag still matches has seen the very  *)
(* lock it replaces or deletes; a nonce names one Lease of one device.      *)
TagsKnown ==
    /\ lock.etag <= writes
    /\ Exists => lock.owner \in Device /\ lock.nonce <= takes
    /\ ~Exists => lock = NoLock
    /\ \A d \in Device : etag[d] <= writes /\ nonce[d] <= takes

NoncesUnique ==
    /\ \A d \in Device : pc[d] # "idle" => nonce[d] # 0
    /\ \A d, e \in Device : pc[d] # "idle" /\ nonce[d] = nonce[e] => d = e
    /\ \A d \in Device : pc[d] # "idle" /\ Owns(d) => lock.owner = d

TagsCurrent ==
    /\ \A d \in Device : pc[d] = "write" /\ Exists /\ Matches(d)
            => lock.owner = d \/ lock.expires <= now + MaxSkew
    /\ \A d \in Device : pc[d] \in {"renew", "delete"}
            => etag[d] # 0 /\ (Matches(d) => Owns(d))

ReliedLockIsOwned ==
    \A d \in Device : MayRely(d) => Owns(d) /\ lock.expires = expires[d]

LeaseInv == TypeOK /\ TagsKnown /\ NoncesUnique /\ TagsCurrent /\ ReliedLockIsOwned

\* The device that may rely on the stored lock, as DeviceLock sees it.
Holder == IF Exists /\ now + MaxSkew < lock.expires THEN lock.owner ELSE "nobody"

Abstract == INSTANCE DeviceLock WITH holder <- Holder

(* RemoteLease implements DeviceLock: the lock passes from one device to    *)
(* another only through a moment when nobody may rely on it.                *)
ImplementsDeviceLock == Abstract!Spec
=============================================================================
