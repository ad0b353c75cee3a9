----------------------------- MODULE RawSealing -----------------------------
(***************************************************************************)
(* Raw request bodies are kept sealed to a key only the raw password opens.*)
(* A body is first stored under the audit key while its inspection runs;   *)
(* one that turns out to be raw is moved, at once or by a later pass, while*)
(* requests end, the password is set, reset or cleared, and Core stops     *)
(* (core/internal/storage/sqlite/raw_sealing_store.go, audit_store.go,     *)
(* request_record_store.go, controlapi/raw_vault.go).                      *)
(*                                                                         *)
(* Each part belongs to a request of its own.  Its content is the number of*)
(* its capture, under the audit key (0), under the raw sealing key of that *)
(* number, or dropped, which leaves a withheld marker.                     *)
(***************************************************************************)
EXTENDS Naturals, FiniteSets

CONSTANTS
    Part,
    MaxCaptures, MaxFaults, MaxKeys, MaxCrashes

\* What the instances assume of the constants.
SealingAssumption ==
    /\ MaxCaptures \in Nat /\ MaxFaults \in Nat /\ MaxKeys \in Nat \ {0}
    /\ MaxCrashes \in Nat

VARIABLES
    parts,      \* audit_blobs with their payloads
    request,    \* status of the request records
    key,        \* raw_sealing_keys: the number of the key, 0 for none
    cached,     \* rawSealingKey.id, as captureKey returns it
    keyChange,  \* where a change of the password stands
    settle,     \* where UpdateAuditExposure(raw) of each part stands
    deferred,   \* settleDeferred
    asked,      \* Vault.reseal
    pass,       \* ResealRawParts
    missed,     \* history: the parts that a pass gave up on since one last started
    starting,   \* Core has opened its store and does not serve yet
    keys, faults, crashes

vars == <<parts, request, key, cached, keyChange, settle, deferred, asked, pass, missed,
          starting, keys, faults, crashes>>

NoPart == [label |-> "none", capture |-> 0, kept |-> FALSE, key |-> 0]
NoSettle == [phase |-> "idle", key |-> 0, seen |-> NoPart]
NoPass == [phase |-> "idle", key |-> 0, done |-> {}, stale |-> {}, seen |-> NoPart,
           part |-> CHOOSE p \in Part : TRUE]
Marker(part) == [part EXCEPT !.label = "raw", !.kept = FALSE, !.key = 0]
UnderAudit(part) == part.kept /\ part.key = 0
Under(part, k) == part.kept /\ part.key = k /\ k # 0
\* A part still under the audit key that readers withhold.
Candidate(p) ==
    /\ UnderAudit(parts[p])
    /\ parts[p].label = "raw" \/ (parts[p].label = "pending" /\ request[p] # "live")
Fault == faults < MaxFaults /\ faults' = faults + 1

Init ==
    /\ parts = [p \in Part |-> NoPart] /\ request = [p \in Part |-> "live"]
    /\ key \in {0, 1} /\ cached = key /\ keyChange = "idle"
    /\ settle = [p \in Part |-> NoSettle] /\ deferred = {}
    /\ asked = TRUE /\ pass = NoPass /\ missed = {} /\ starting = FALSE
    /\ keys = key /\ faults = 0 /\ crashes = 0

-----------------------------------------------------------------------------
\* Mutant of Sealable: a part may name a key that is gone.
SealableToAny(k) == k # 0
\* A sealed part refers to the row of its key.
Sealable(k) == k # 0 /\ k = key

\* InsertAuditBlob of a part under inspection; a part stored as raw stays raw,
\* sealed to the key or kept as a marker only.
Capture(p) ==
    /\ ~starting /\ request[p] # "ended" /\ parts[p].capture < MaxCaptures
    /\ settle[p].phase = "idle"
    /\ LET next == [parts[p] EXCEPT !.capture = @ + 1]
       IN \/ /\ parts[p].label \in {"none", "pending"}
             /\ parts' = [parts EXCEPT ![p] = [next EXCEPT !.label = "pending", !.kept = TRUE]]
          \/ /\ parts[p].label = "raw" /\ (cached = 0 \/ Sealable(cached))
             /\ parts' = [parts EXCEPT ![p] = IF cached = 0 THEN Marker(next)
                                              ELSE [next EXCEPT !.kept = TRUE, !.key = cached]]
    /\ UNCHANGED <<request, key, cached, keyChange, settle, deferred, asked, pass, missed, starting,
                   keys, faults, crashes>>

\* The inspection ends: the part may be shared.
SettleShareable(p) ==
    /\ ~starting /\ parts[p].label = "pending" /\ settle[p].phase = "idle"
    /\ request[p] # "ended"
    /\ parts' = [parts EXCEPT ![p].label = "shareable"]
    /\ UNCHANGED <<request, key, cached, keyChange, settle, deferred, asked, pass, missed, starting,
                   keys, faults, crashes>>

\* Or it is raw.  Without a password the label and the drop are one statement.
\* A part that was not relabelled is tried again by the request's next settling,
\* and is noted for deferSettle unless only its leaving the shared chunks failed.
SettleRaw(p) ==
    /\ ~starting /\ parts[p].label \in {"pending", "shareable"} /\ settle[p].phase = "idle"
    /\ request[p] # "ended"
    /\ \/ /\ parts' = [parts EXCEPT ![p] = IF cached = 0 THEN Marker(parts[p])
                                           ELSE [parts[p] EXCEPT !.label = "raw"]]
          /\ settle' = IF cached = 0 THEN settle
                       ELSE [settle EXCEPT ![p] = [NoSettle EXCEPT !.phase = "labelled"]]
          /\ UNCHANGED <<deferred, faults>>
       \/ /\ Fault
          /\ deferred' = deferred \cup {p}
          /\ settle' = [settle EXCEPT ![p] = [NoSettle EXCEPT !.phase = "failed"]]
          /\ UNCHANGED parts
       \/ /\ parts[p].label = "shareable" /\ Fault
          /\ UNCHANGED <<parts, settle, deferred>>
    /\ UNCHANGED <<request, key, cached, keyChange, asked, pass, missed, starting, keys, crashes>>

\* deferSettle goes on: a request that has ended does not end again.
DeferSettle(p) ==
    /\ settle[p].phase = "failed"
    /\ deferred' = IF request[p] = "live" THEN deferred ELSE deferred \ {p}
    /\ asked' = TRUE
    /\ settle' = [settle EXCEPT ![p] = NoSettle]
    /\ UNCHANGED <<parts, request, key, cached, keyChange, pass, missed, starting, keys, faults, crashes>>

\* Mutant of AsksAgain: a part that could not be moved waits for the next start.
AsksAgainNever == asked
AsksAgain == TRUE
\* resealSettledPart: the part is read and sealed to the cached key, or dropped
\* when it cannot be; the vault is asked for a pass when the store fails.
SealSettled(p) ==
    /\ settle[p].phase = "labelled"
    /\ \/ /\ cached # 0
          /\ settle' = [settle EXCEPT ![p] = IF Candidate(p)
                           THEN [phase |-> "sealed", key |-> cached, seen |-> parts[p]]
                           ELSE NoSettle]
          /\ UNCHANGED <<parts, asked, faults>>
       \/ /\ IF cached = 0 THEN UNCHANGED faults ELSE Fault
          /\ parts' = IF parts[p].label = "raw" THEN [parts EXCEPT ![p] = Marker(parts[p])]
                      ELSE parts
          /\ settle' = [settle EXCEPT ![p] = NoSettle]
          /\ UNCHANGED asked
       \/ /\ Fault
          /\ asked' = AsksAgain
          /\ settle' = [settle EXCEPT ![p] = NoSettle]
          /\ UNCHANGED parts
    /\ UNCHANGED <<request, key, cached, keyChange, deferred, pass, missed, starting, keys, crashes>>

\* Mutant of Repointed: the part is not compared with what was read.
RepointedAlways(p, seen, k) == [parts EXCEPT ![p] = [seen EXCEPT !.label = "raw", !.key = k]]
\* applyReseal: a recapture or a delete in between wins.
Repointed(p, seen, k) ==
    IF parts[p] = seen THEN [parts EXCEPT ![p] = [seen EXCEPT !.label = "raw", !.key = k]]
    ELSE parts

\* A key that is gone fails the write, as the end of the request's context does.
StoreSettled(p) ==
    /\ settle[p].phase = "sealed"
    /\ \/ /\ Sealable(settle[p].key)
          /\ parts' = Repointed(p, settle[p].seen, settle[p].key)
          /\ UNCHANGED <<asked, faults>>
       \/ /\ IF Sealable(settle[p].key) THEN Fault ELSE UNCHANGED faults
          /\ asked' = AsksAgain /\ UNCHANGED parts
    /\ settle' = [settle EXCEPT ![p] = NoSettle]
    /\ UNCHANGED <<request, key, cached, keyChange, deferred, pass, missed, starting, keys, crashes>>

\* Mutant of EndRequest: the pass is not asked for again.
EndRequestOnly(p) ==
    /\ ~starting /\ request[p] = "live"
    /\ request' = [request EXCEPT ![p] = "ending"]
    /\ deferred' = deferred \ {p}
    /\ UNCHANGED <<parts, key, cached, keyChange, settle, asked, pass, missed, starting, keys, faults, crashes>>
\* The record of the request is completed, and a part left pending is not
\* forgotten.  Captures and decisions may still follow.
EndRequest(p) ==
    /\ ~starting /\ request[p] = "live"
    /\ request' = [request EXCEPT ![p] = "ending"]
    /\ deferred' = deferred \ {p} /\ asked' = (asked \/ p \in deferred)
    /\ UNCHANGED <<parts, key, cached, keyChange, settle, pass, missed, starting, keys, faults, crashes>>

EndSession(p) ==
    /\ ~starting /\ request[p] = "ending" /\ settle[p].phase = "idle"
    /\ request' = [request EXCEPT ![p] = "ended"]
    /\ UNCHANGED <<parts, key, cached, keyChange, settle, deferred, asked, pass, missed, starting,
                   keys, faults, crashes>>

-----------------------------------------------------------------------------
\* ResealRawParts, which the vault runs once each time it is asked.  A pass may
\* fail before it reads a part, as without the audit key.  Without a password the
\* parts that nothing settles any more are dropped.
StartPass ==
    /\ asked /\ pass.phase = "idle"
    /\ asked' = FALSE
    /\ \/ /\ Fault
          /\ missed' = {p \in Part : Candidate(p)}
          /\ UNCHANGED <<parts, pass>>
       \/ /\ missed' = {}
          /\ IF cached = 0
             THEN /\ parts' = [p \in Part |-> IF parts[p].label = "pending" /\ request[p] # "live"
                                              THEN Marker(parts[p]) ELSE parts[p]]
                  /\ UNCHANGED pass
             ELSE /\ pass' = [NoPass EXCEPT !.phase = "next", !.key = cached]
                  /\ UNCHANGED parts
          /\ UNCHANGED faults
    /\ UNCHANGED <<request, key, cached, keyChange, settle, deferred, starting, keys, crashes>>

\* A part that does not open under the audit key is passed over.
PassReads(p) ==
    /\ pass.phase = "next" /\ p \notin pass.done /\ Candidate(p)
    /\ \/ /\ pass' = [pass EXCEPT !.phase = "read", !.part = p, !.seen = parts[p],
                                  !.done = @ \cup {p}]
          /\ UNCHANGED <<missed, faults>>
       \/ /\ Fault
          /\ pass' = [pass EXCEPT !.done = @ \cup {p}]
          /\ missed' = missed \cup {p}
    /\ UNCHANGED <<parts, request, key, cached, keyChange, settle, deferred, asked, starting,
                   keys, crashes>>

\* A recipe whose chunks are gone leaves its part for another pass; a key that was
\* replaced meanwhile stops the pass.
PassMoves ==
    /\ pass.phase = "read"
    /\ \/ /\ Sealable(pass.key)
          /\ parts' = Repointed(pass.part, pass.seen, pass.key)
          /\ pass' = [pass EXCEPT !.phase = "next"]
          /\ UNCHANGED faults
       \/ /\ Sealable(pass.key) /\ Fault
          /\ pass' = [pass EXCEPT !.phase = "next", !.stale = @ \cup {pass.part}]
          /\ UNCHANGED parts
       \/ /\ ~Sealable(pass.key)
          /\ pass' = NoPass
          /\ UNCHANGED <<parts, faults>>
    /\ UNCHANGED <<request, key, cached, keyChange, settle, deferred, asked, missed, starting,
                   keys, crashes>>

\* An error of the store ends the pass; the vault logs it and asks for no other.
PassFails ==
    /\ pass.phase # "idle" /\ Fault
    /\ pass' = NoPass
    /\ missed' = {p \in Part : Candidate(p)}
    /\ UNCHANGED <<parts, request, key, cached, keyChange, settle, deferred, asked, starting,
                   keys, crashes>>

EndPass ==
    /\ pass.phase = "next" /\ \A p \in Part \ pass.done : ~Candidate(p)
    /\ pass' = NoPass
    /\ asked' = (asked \/ pass.stale # {})
    /\ UNCHANGED <<parts, request, key, cached, keyChange, settle, deferred, missed, starting,
                   keys, faults, crashes>>

-----------------------------------------------------------------------------
\* The password is set, or reset with every part sealed to the old key; the
\* key is cached once it is stored, and then a pass is asked for.
StoreKey ==
    /\ keyChange = "idle" /\ keys < MaxKeys
    /\ keys' = keys + 1 /\ key' = keys'
    /\ parts' = [p \in Part |-> IF Under(parts[p], key) THEN NoPart ELSE parts[p]]
    /\ keyChange' = "stored"
    /\ UNCHANGED <<request, cached, settle, deferred, asked, pass, missed, starting, faults, crashes>>

\* ClearPassword, at a start with the reset switch of the server edition.
ClearKey ==
    /\ starting /\ keyChange = "idle" /\ key # 0
    /\ key' = 0
    /\ parts' = [p \in Part |-> IF Under(parts[p], key) THEN NoPart ELSE parts[p]]
    /\ keyChange' = "stored"
    /\ UNCHANGED <<request, cached, settle, deferred, asked, pass, missed, starting, keys, faults, crashes>>

CacheKey ==
    /\ keyChange = "stored"
    /\ cached' = key /\ asked' = TRUE /\ keyChange' = "idle"
    /\ UNCHANGED <<parts, request, key, settle, deferred, pass, missed, starting, keys, faults, crashes>>

-----------------------------------------------------------------------------
\* Core stops and starts: RecoverPendingRequestRecords ends the requests and
\* withholds what was never decided, and the first pass is asked for.
Crash ==
    /\ crashes < MaxCrashes
    /\ crashes' = crashes + 1
    /\ request' = [p \in Part |-> IF parts[p].label = "none" THEN request[p] ELSE "ended"]
    /\ parts' = [p \in Part |->
                   IF parts[p].label # "pending" THEN parts[p]
                   ELSE IF key = 0 THEN Marker(parts[p]) ELSE [parts[p] EXCEPT !.label = "raw"]]
    /\ cached' = key /\ keyChange' = "idle" /\ asked' = TRUE /\ pass' = NoPass /\ missed' = {}
    /\ settle' = [p \in Part |-> NoSettle] /\ deferred' = {}
    /\ starting' = TRUE
    /\ UNCHANGED <<key, keys, faults>>

Serve ==
    /\ starting /\ keyChange = "idle" /\ starting' = FALSE
    /\ UNCHANGED <<parts, request, key, cached, keyChange, settle, deferred, asked, pass,
                   missed, keys, faults, crashes>>

Settles(p) == DeferSettle(p) \/ SealSettled(p) \/ StoreSettled(p)
Passes == StartPass \/ (\E p \in Part : PassReads(p)) \/ PassMoves \/ PassFails
          \/ EndPass
Next ==
    \/ \E p \in Part :
        Capture(p) \/ SettleShareable(p) \/ SettleRaw(p) \/ Settles(p) \/ EndRequest(p)
        \/ EndSession(p)
    \/ Passes \/ StoreKey \/ ClearKey \/ CacheKey \/ Crash \/ Serve

Spec == Init /\ [][Next]_vars
\* The vault runs, a statement that was begun ends, and so does a request.
Fairness ==
    /\ WF_vars(Passes) /\ WF_vars(CacheKey)
    /\ \A p \in Part : WF_vars(Settles(p)) /\ WF_vars(EndRequest(p))
FairSpec == Spec /\ Fairness

-----------------------------------------------------------------------------
\* What moves a raw part left under the audit key: its own settling, a pass that
\* has not come to it, holds it as it is or will ask for another, or one to come.
Remembered(p) ==
    \/ settle[p].phase # "idle" \/ asked \/ keyChange = "stored"
    \/ /\ pass.phase # "idle" /\ Sealable(pass.key)
       /\ \/ p \notin pass.done
          \/ pass.phase = "read" /\ pass.part = p /\ parts[p] = pass.seen
          \/ p \in pass.stale

\* What is sealed can be opened by the current password, and is the latest
\* capture; a raw part under the audit key is on its way out.
SealingInv ==
    /\ key \in 0 .. MaxKeys /\ cached \in 0 .. MaxKeys
    /\ \A p \in Part :
        /\ parts[p].label \in {"none", "pending", "shareable", "raw"}
        /\ parts[p].key \in {0, key}
    /\ keyChange = "idle" => cached = key

\* A raw part is still under the audit key only while something moves it, or
\* after a pass that failed or passed it over: the vault asks for no pass then,
\* and the part waits for the next one that anything asks for.  A start that
\* clears the password leaves the parts it has just withheld for the next one.
RawIsNotLeftUnderAudit ==
    \A p \in Part : parts[p].label = "raw" /\ UnderAudit(parts[p]) =>
        Remembered(p) \/ p \in missed \/ (cached = 0 /\ request[p] = "ended")

\* A part once withheld is never shown, and its latest capture is never
\* replaced by an older one.
PartsStick ==
    \A p \in Part :
        /\ parts[p].label = "raw" => parts'[p].label \in {"raw", "none"}
        /\ parts'[p] # NoPart => parts'[p].capture >= parts[p].capture
RawIsSticky == [][PartsStick]_vars

\* A decision on a pending part that could not be stored is made up for after the
\* request's end, or the part was captured once more, unless the pass that was to
\* make up for it failed or passed the part over.
EndedIsSettled ==
    \A p \in Part, n \in 1 .. MaxCaptures :
        parts[p].label = "pending" /\ settle[p].phase = "failed" /\ parts[p].capture = n
          ~> parts[p].label # "pending" \/ parts[p].capture > n \/ p \in missed
=============================================================================
