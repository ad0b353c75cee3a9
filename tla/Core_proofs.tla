---------------------------- MODULE Core_proofs ----------------------------
(***************************************************************************)
(* Proofs about the parts of Core side by side, for any values of the      *)
(* constants: the sealed raw parts, the files of a model and, from         *)
(* PrivacyWorker_proofs, the worker.  A part keeps its invariant under its *)
(* own steps and while it rests, and so under every step of Core.          *)
(*                                                                         *)
(* A raw part that is still under the audit key has something that moves   *)
(* it: its own settling, a pass that has not reached it, holds it as it is *)
(* or will ask for another, or a pass asked for or about to be; or it was  *)
(* given up by a pass that failed.  Without a password there is no key to  *)
(* move it to, nothing is being sealed, and only parts of ended requests   *)
(* are left (Moves, LeftOnlyWhenEnded).                                    *)
(*                                                                         *)
(* What a download has received is counted in its record as it lies in the *)
(* staging directory, asset after asset and under one plan (TransferOK),   *)
(* and what is not damaged comes from that plan (StagingOK).  What passed  *)
(* the digests is then the plan's, whole, when the directory is renamed    *)
(* (FinalOK); a record is ready only over such a directory, and leaves     *)
(* that status before a deletion touches the files (RecordsOK).            *)
(***************************************************************************)
EXTENDS CoreParts, PrivacyWorker_proofs, Sequences

-----------------------------------------------------------------------------
\* The raw parts.
Label == {"none", "pending", "shareable", "raw"}
PartRecord == [label : Label, capture : Nat, kept : BOOLEAN, key : Nat]
Settling == [phase : {"idle", "labelled", "failed", "sealed"}, key : Nat, seen : PartRecord]
PassRecord ==
    [phase : {"idle", "next", "read"}, key : Nat, done : SUBSET Part,
     stale : SUBSET Part, seen : PartRecord, part : Part \cup {CHOOSE p \in Part : TRUE}]

PartsTypeOK ==
    /\ parts \in [Part -> PartRecord] /\ request \in [Part -> {"live", "ending", "ended"}]
    /\ key \in Nat /\ cached \in Nat /\ keyChange \in {"idle", "stored"}
    /\ settle \in [Part -> Settling] /\ asked \in BOOLEAN /\ pass \in PassRecord
    /\ starting \in BOOLEAN /\ keys \in Nat

\* The keys: what the process holds is behind the database only while the
\* password changes, and a password is cleared only before Core serves.
KeysInv ==
    /\ key <= keys /\ cached <= keys /\ keys <= MaxKeys
    /\ keyChange = "idle" => cached = key
    /\ keyChange = "stored" /\ key = 0 => starting

\* Nothing settles before Core serves, and requests from before have ended.
StartInv ==
    starting =>
        \A p \in Part : /\ settle[p].phase = "idle"
                        /\ parts[p].label # "none" => request[p] = "ended"

\* What is about to be written over a part was under the audit key.
Sealing(seen) == seen.kept /\ seen.key = 0 /\ seen.label # "none"
SeenInv ==
    /\ \A p \in Part : settle[p].phase = "sealed" => Sealing(settle[p].seen)
    /\ pass.phase = "read" => pass.part \in Part /\ Sealing(pass.seen)

RawUnderAudit(p) == parts[p].label = "raw" /\ Raw!UnderAudit(parts[p])
Moves(p) ==
    \/ settle[p].phase # "idle" \/ asked \/ keyChange = "stored" \/ p \in missed
    \/ /\ pass.phase # "idle" /\ Raw!Sealable(pass.key)
       /\ \/ p \notin pass.done \/ p \in pass.stale
          \/ pass.phase = "read" /\ pass.part = p /\ parts[p] = pass.seen
LeftOnlyWhenEnded(p) == cached = 0 => request[p] = "ended"

PartInv(p) ==
    /\ parts[p].key \in {0, key} /\ (parts[p].key # 0 => parts[p].kept)
    /\ settle[p].phase \in {"labelled", "sealed"} => cached # 0
    /\ RawUnderAudit(p) =>
        /\ LeftOnlyWhenEnded(p)
        /\ Moves(p) \/ (cached = 0 /\ request[p] = "ended")
        /\ settle[p].phase = "sealed" => parts[p] = settle[p].seen

RawInv == PartsTypeOK /\ KeysInv /\ StartInv /\ SeenInv /\ \A p \in Part : PartInv(p)

-----------------------------------------------------------------------------
LEMMA InitRawInv == Raw!Init => RawInv
<1> SUFFICES ASSUME Raw!Init PROVE RawInv
  OBVIOUS
<1>1. Raw!NoPart \in PartRecord /\ Raw!NoSettle \in Settling /\ Raw!NoPass \in PassRecord
  BY DEF Raw!NoPart, PartRecord, Label, Raw!NoSettle, Settling, Raw!NoPass, PassRecord
<1>2. PartsTypeOK
  <2>1. /\ parts \in [Part -> PartRecord] /\ settle \in [Part -> Settling]
        /\ request \in [Part -> {"live", "ending", "ended"}] /\ pass \in PassRecord
    BY <1>1 DEF Raw!Init
  <2>2. key \in Nat /\ cached \in Nat /\ keys \in Nat /\ keyChange \in {"idle", "stored"}
    BY DEF Raw!Init
  <2>3. asked \in BOOLEAN /\ starting \in BOOLEAN
    BY DEF Raw!Init
  <2>4. QED
    BY <2>1, <2>2, <2>3 DEF PartsTypeOK
<1>3. KeysInv
  BY CoreAssumption DEF Raw!SealingAssumption, Raw!Init, KeysInv
<1>4. StartInv /\ SeenInv
  BY DEF Raw!Init, StartInv, SeenInv, Raw!NoSettle, Raw!NoPass
<1>5. \A p \in Part : PartInv(p)
  BY DEF Raw!Init, PartInv, RawUnderAudit, Raw!NoPart, Raw!NoSettle
<1>6. QED
  BY <1>2, <1>3, <1>4, <1>5 DEF RawInv

\* A step of one part that leaves the keys, the pass and the start alone.
LEMMA PartStep ==
    ASSUME RawInv, NEW p \in Part,
           UNCHANGED <<key, cached, keyChange, pass, missed, starting, keys>>,
           asked' \in BOOLEAN, asked => asked',
           parts' \in [Part -> PartRecord], settle' \in [Part -> Settling],
           request' \in [Part -> {"live", "ending", "ended"}],
           \A q \in Part \ {p} :
             parts'[q] = parts[q] /\ settle'[q] = settle[q] /\ request'[q] = request[q],
           starting => settle'[p].phase = "idle" /\ (parts'[p].label # "none" => request'[p] = "ended"),
           settle'[p].phase = "sealed" => Sealing(settle'[p].seen),
           PartInv(p)'
    PROVE  RawInv'
<1>1. PartsTypeOK'
  BY DEF RawInv, PartsTypeOK
<1>2. KeysInv'
  BY DEF RawInv, KeysInv
<1>3. StartInv'
  BY DEF RawInv, StartInv
<1>4. SeenInv'
  BY DEF RawInv, SeenInv
<1>5. ASSUME NEW q \in Part \ {p}
      PROVE  PartInv(q)'
  BY DEF RawInv, PartInv, RawUnderAudit, Raw!UnderAudit, LeftOnlyWhenEnded, Moves, Raw!Sealable
<1>6. QED
  BY <1>1, <1>2, <1>3, <1>4, <1>5 DEF RawInv

LEMMA CaptureKeepsInv ==
    ASSUME RawInv, NEW p \in Part, Raw!Capture(p)
    PROVE  RawInv'
<1>1. /\ UNCHANGED <<request, key, cached, keyChange, settle, asked, pass, missed, starting, keys>>
      /\ ~starting /\ settle[p].phase = "idle"
  BY DEF Raw!Capture
<1>2. parts[p] \in PartRecord /\ parts \in [Part -> PartRecord] /\ cached \in Nat
  BY DEF RawInv, PartsTypeOK
<1>3. /\ parts' = [parts EXCEPT ![p] = parts'[p]] /\ parts'[p] \in PartRecord
      /\ parts'[p].key \in {0, key} /\ (parts'[p].key # 0 => parts'[p].kept)
      /\ ~RawUnderAudit(p)'
  <2> DEFINE next == [parts[p] EXCEPT !.capture = @ + 1]
  <2>1. /\ next \in PartRecord /\ next.label = parts[p].label /\ next.key = parts[p].key
        /\ next.kept = parts[p].kept
    BY <1>2 DEF PartRecord
  <2>2. parts[p].key \in {0, key}
    BY DEF RawInv, PartInv
  <2> HIDE DEF next
  <2>3. CASE parts' = [parts EXCEPT ![p] = [next EXCEPT !.label = "pending", !.kept = TRUE]]
    BY <1>2, <2>1, <2>2, <2>3 DEF PartRecord, Label, RawUnderAudit
  <2>4. CASE parts' = [parts EXCEPT ![p] = Raw!Marker(next)]
    BY <1>2, <2>1, <2>4 DEF PartRecord, Label, RawUnderAudit, Raw!UnderAudit, Raw!Marker
  <2>5. CASE /\ cached # 0 /\ Raw!Sealable(cached)
             /\ parts' = [parts EXCEPT ![p] = [next EXCEPT !.kept = TRUE, !.key = cached]]
    BY <1>2, <2>1, <2>5 DEF PartRecord, RawUnderAudit, Raw!UnderAudit, Raw!Sealable
  <2>6. QED
    BY <2>3, <2>4, <2>5 DEF Raw!Capture, next
<1>4. PartInv(p)'
  BY <1>1, <1>3 DEF PartInv
<1>5. QED
  BY <1>1, <1>2, <1>3, <1>4, PartStep DEF RawInv, PartsTypeOK

LEMMA SettleShareableKeepsInv ==
    ASSUME RawInv, NEW p \in Part, Raw!SettleShareable(p)
    PROVE  RawInv'
<1>1. /\ UNCHANGED <<request, key, cached, keyChange, settle, asked, pass, missed, starting, keys>>
      /\ ~starting /\ settle[p].phase = "idle"
      /\ parts' = [parts EXCEPT ![p] = [parts[p] EXCEPT !.label = "shareable"]]
  BY DEF Raw!SettleShareable
<1>2. parts[p] \in PartRecord /\ parts \in [Part -> PartRecord]
  BY DEF RawInv, PartsTypeOK
<1>3. /\ parts'[p] \in PartRecord /\ parts'[p].label = "shareable"
      /\ parts'[p].key = parts[p].key /\ parts'[p].kept = parts[p].kept
  BY <1>1, <1>2 DEF PartRecord, Label
<1>4. PartInv(p)'
  BY <1>1, <1>3 DEF RawInv, PartInv, RawUnderAudit
<1>5. QED
  BY <1>1, <1>2, <1>3, <1>4, PartStep DEF RawInv, PartsTypeOK

LEMMA SettleRawKeepsInv ==
    ASSUME RawInv, NEW p \in Part, Raw!SettleRaw(p)
    PROVE  RawInv'
<1>1. /\ UNCHANGED <<request, key, cached, keyChange, asked, pass, missed, starting, keys>>
      /\ ~starting /\ settle[p].phase = "idle"
  BY DEF Raw!SettleRaw
<1>2. /\ parts[p] \in PartRecord /\ parts \in [Part -> PartRecord]
      /\ settle \in [Part -> Settling] /\ Raw!NoSettle \in Settling
      /\ parts[p].key \in {0, key} /\ (parts[p].key # 0 => parts[p].kept)
  BY DEF RawInv, PartsTypeOK, PartInv, Raw!NoSettle, Raw!NoPart, Settling, PartRecord, Label
<1>3. CASE parts' = [parts EXCEPT ![p] = Raw!Marker(parts[p])] /\ UNCHANGED settle
  <2>1. parts'[p] \in PartRecord /\ parts'[p].key = 0 /\ ~parts'[p].kept
    BY <1>2, <1>3 DEF Raw!Marker, PartRecord, Label
  <2>2. PartInv(p)'
    BY <1>1, <1>3, <2>1 DEF PartInv, RawUnderAudit, Raw!UnderAudit
  <2>3. QED
    BY <1>1, <1>2, <1>3, <2>1, <2>2, PartStep DEF RawInv, PartsTypeOK
<1>4. CASE /\ cached # 0 /\ parts' = [parts EXCEPT ![p] = [parts[p] EXCEPT !.label = "raw"]]
           /\ settle' = [settle EXCEPT ![p] = [Raw!NoSettle EXCEPT !.phase = "labelled"]]
  <2>1. /\ parts'[p] \in PartRecord /\ parts'[p].key = parts[p].key
        /\ parts'[p].kept = parts[p].kept
    BY <1>2, <1>4 DEF PartRecord, Label
  <2>2. settle' \in [Part -> Settling] /\ settle'[p].phase = "labelled"
    BY <1>2, <1>4 DEF Settling, Raw!NoSettle
  <2>3. PartInv(p)'
    BY <1>1, <1>2, <1>4, <2>1, <2>2 DEF PartInv, LeftOnlyWhenEnded, Moves
  <2>4. QED
    BY <1>1, <1>2, <1>4, <2>1, <2>2, <2>3, PartStep DEF RawInv, PartsTypeOK
<1>5. CASE /\ UNCHANGED parts
           /\ settle' = [settle EXCEPT ![p] = [Raw!NoSettle EXCEPT !.phase = "failed"]]
  <2>1. settle' \in [Part -> Settling] /\ settle'[p].phase = "failed"
    BY <1>2, <1>5 DEF Settling, Raw!NoSettle
  <2>2. PartInv(p)'
    <3>1. PartInv(p)
      BY DEF RawInv
    <3>2. QED
      BY <1>1, <1>2, <1>5, <2>1, <3>1
         DEF PartInv, RawUnderAudit, Raw!UnderAudit, LeftOnlyWhenEnded, Moves
  <2>3. QED
    BY <1>1, <1>2, <1>5, <2>1, <2>2, PartStep DEF RawInv, PartsTypeOK
<1>6. CASE UNCHANGED <<parts, settle>>
  <2>1. PartInv(p)
    BY DEF RawInv
  <2>2. PartInv(p)'
    BY <1>1, <1>6, <2>1
       DEF PartInv, RawUnderAudit, Raw!UnderAudit, LeftOnlyWhenEnded, Moves, Raw!Sealable
  <2>3. QED
    BY <1>1, <1>2, <1>6, <2>2, PartStep DEF RawInv, PartsTypeOK
<1>7. QED
  BY <1>3, <1>4, <1>5, <1>6 DEF Raw!SettleRaw

\* What a part becomes when it is moved to a key.
LEMMA MovedPart ==
    ASSUME RawInv, NEW seen \in PartRecord, Sealing(seen), NEW k, Raw!Sealable(k)
    PROVE  /\ [seen EXCEPT !.label = "raw", !.key = k] \in PartRecord
           /\ [seen EXCEPT !.label = "raw", !.key = k].label = "raw"
           /\ [seen EXCEPT !.label = "raw", !.key = k].key = key /\ key # 0
           /\ [seen EXCEPT !.label = "raw", !.key = k].kept
           /\ [seen EXCEPT !.label = "raw", !.key = k].capture = seen.capture
BY DEF RawInv, PartsTypeOK, Sealing, Raw!Sealable, PartRecord, Label

LEMMA SettlesKeepsInv ==
    ASSUME RawInv, NEW p \in Part, Raw!Settles(p)
    PROVE  RawInv'
<1>1. /\ UNCHANGED <<request, key, cached, keyChange, pass, missed, starting, keys>>
      /\ settle[p].phase # "idle" /\ ~starting
  BY DEF Raw!Settles, Raw!DeferSettle, Raw!SealSettled, Raw!StoreSettled, RawInv, StartInv
<1>2. /\ parts[p] \in PartRecord /\ parts \in [Part -> PartRecord]
      /\ settle \in [Part -> Settling] /\ Raw!NoSettle \in Settling /\ Raw!NoSettle.phase = "idle"
      /\ parts[p].key \in {0, key} /\ (parts[p].key # 0 => parts[p].kept)
      /\ asked \in BOOLEAN /\ request \in [Part -> {"live", "ending", "ended"}] /\ cached \in Nat
      /\ settle[p].seen \in PartRecord
  BY DEF RawInv, PartsTypeOK, PartInv, Raw!NoSettle, Raw!NoPart, Settling, PartRecord, Label
<1>3. CASE Raw!DeferSettle(p)
  <2>1. UNCHANGED parts /\ asked' = TRUE /\ settle' = [settle EXCEPT ![p] = Raw!NoSettle]
        /\ settle[p].phase = "failed"
    BY <1>3 DEF Raw!DeferSettle
  <2>2. PartInv(p)'
    BY <1>1, <1>2, <2>1
       DEF RawInv, PartInv, RawUnderAudit, Raw!UnderAudit, LeftOnlyWhenEnded, Moves
  <2>3. QED
    BY <1>1, <1>2, <2>1, <2>2, PartStep
<1>4. CASE Raw!SealSettled(p)
  <2>1. settle[p].phase = "labelled" /\ cached # 0
    BY <1>4 DEF Raw!SealSettled, RawInv, PartInv
  <2>2. CASE /\ parts' = IF parts[p].label = "raw" THEN [parts EXCEPT ![p] = Raw!Marker(parts[p])]
                         ELSE parts
             /\ settle' = [settle EXCEPT ![p] = Raw!NoSettle] /\ UNCHANGED asked
    <3> DEFINE part == IF parts[p].label = "raw" THEN Raw!Marker(parts[p]) ELSE parts[p]
    <3>1. parts' = [parts EXCEPT ![p] = part]
      BY <1>2, <2>2
    <3>2. /\ part \in PartRecord /\ part.key \in {0, key} /\ (part.key # 0 => part.kept)
          /\ ~(part.label = "raw" /\ Raw!UnderAudit(part))
      BY <1>2 DEF Raw!Marker, Raw!UnderAudit, PartRecord, Label
    <3> HIDE DEF part
    <3>3. PartInv(p)'
      BY <1>1, <1>2, <2>2, <3>1, <3>2 DEF PartInv, RawUnderAudit, Raw!UnderAudit
    <3>4. QED
      BY <1>1, <1>2, <2>2, <3>1, <3>2, <3>3, PartStep
  <2>3. CASE /\ Raw!Candidate(p) /\ UNCHANGED <<parts, asked>>
             /\ settle' = [settle EXCEPT ![p] = [phase |-> "sealed", key |-> cached, seen |-> parts[p]]]
    <3> DEFINE s == [phase |-> "sealed", key |-> cached, seen |-> parts[p]]
    <3>1. settle' = [settle EXCEPT ![p] = s]
      BY <2>3
    <3>2. s \in Settling /\ s.phase = "sealed" /\ s.seen = parts[p] /\ Sealing(parts[p])
      BY <1>2, <2>3 DEF Settling, Sealing, Raw!Candidate, Raw!UnderAudit
    <3> HIDE DEF s
    <3>3. PartInv(p)'
      BY <1>1, <1>2, <2>1, <2>3, <3>1, <3>2 DEF PartInv, LeftOnlyWhenEnded, Moves
    <3>4. QED
      BY <1>1, <1>2, <2>3, <3>1, <3>2, <3>3, PartStep
  <2>4. CASE /\ ~Raw!Candidate(p) /\ UNCHANGED <<parts, asked>>
             /\ settle' = [settle EXCEPT ![p] = Raw!NoSettle]
    <3>1. PartInv(p)'
      BY <1>1, <1>2, <2>4 DEF PartInv, RawUnderAudit, Raw!UnderAudit, Raw!Candidate
    <3>2. QED
      BY <1>1, <1>2, <2>4, <3>1, PartStep
  <2>5. CASE /\ UNCHANGED parts /\ asked' = TRUE
             /\ settle' = [settle EXCEPT ![p] = Raw!NoSettle]
    <3>1. PartInv(p)'
      BY <1>1, <1>2, <2>1, <2>5
         DEF RawInv, PartInv, RawUnderAudit, Raw!UnderAudit, LeftOnlyWhenEnded, Moves
    <3>2. QED
      BY <1>1, <1>2, <2>5, <3>1, PartStep
  <2>6. QED
    BY <1>4, <2>2, <2>3, <2>4, <2>5 DEF Raw!SealSettled, Raw!AsksAgain
<1>5. CASE Raw!StoreSettled(p)
  <2>1. settle' = [settle EXCEPT ![p] = Raw!NoSettle] /\ settle[p].phase = "sealed"
    BY <1>5 DEF Raw!StoreSettled
  <2>2. Sealing(settle[p].seen)
    BY <2>1 DEF RawInv, SeenInv
  <2>3. CASE UNCHANGED parts /\ asked'
    <3>1. PartInv(p)' /\ asked' \in BOOLEAN
      BY <1>1, <1>2, <1>5, <2>1, <2>3
         DEF Raw!StoreSettled, Raw!AsksAgain, RawInv, PartInv, RawUnderAudit, Raw!UnderAudit, LeftOnlyWhenEnded, Moves
    <3>2. QED
      BY <1>1, <1>2, <2>1, <2>3, <3>1, PartStep
  <2>4. CASE /\ Raw!Sealable(settle[p].key) /\ UNCHANGED asked
             /\ parts' = Raw!Repointed(p, settle[p].seen, settle[p].key)
    <3>1. CASE parts[p] = settle[p].seen
      <4> DEFINE part == [settle[p].seen EXCEPT !.label = "raw", !.key = settle[p].key]
      <4>1. /\ part \in PartRecord /\ part.key = key /\ part.kept /\ part.key # 0
        BY <1>2, <2>2, <2>4, MovedPart
      <4>2. parts' = [parts EXCEPT ![p] = part]
        BY <2>4, <3>1 DEF Raw!Repointed
      <4> HIDE DEF part
      <4>3. PartInv(p)'
        BY <1>1, <1>2, <2>1, <4>1, <4>2 DEF PartInv, RawUnderAudit, Raw!UnderAudit
      <4>4. QED
        BY <1>1, <1>2, <2>1, <2>4, <4>1, <4>2, <4>3, PartStep
    <3>2. CASE parts[p] # settle[p].seen
      <4>1. UNCHANGED parts /\ ~RawUnderAudit(p)
        BY <2>1, <2>4, <3>2 DEF Raw!Repointed, RawInv, PartInv
      <4>2. PartInv(p)'
        BY <1>1, <1>2, <2>1, <4>1 DEF PartInv, RawUnderAudit, Raw!UnderAudit
      <4>3. QED
        BY <1>1, <1>2, <2>1, <2>4, <4>1, <4>2, PartStep
    <3>3. QED
      BY <3>1, <3>2
  <2>5. QED
    BY <1>5, <2>3, <2>4 DEF Raw!StoreSettled, Raw!AsksAgain
<1>6. QED
  BY <1>3, <1>4, <1>5 DEF Raw!Settles

LEMMA RequestEndsKeepsInv ==
    ASSUME RawInv, NEW p \in Part, Raw!EndRequest(p) \/ Raw!EndSession(p)
    PROVE  RawInv'
<1>1. UNCHANGED <<parts, key, cached, keyChange, settle, pass, missed, starting, keys>> /\ ~starting
  BY DEF Raw!EndRequest, Raw!EndSession
<1>2. asked \in BOOLEAN
  BY DEF RawInv, PartsTypeOK
<1>3. asked' \in BOOLEAN /\ (asked => asked')
  <2>1. CASE Raw!EndRequest(p)
    BY <2>1, Zenon DEF Raw!EndRequest
  <2>2. CASE Raw!EndSession(p)
    BY <1>2, <2>2 DEF Raw!EndSession
  <2>3. QED
    BY <2>1, <2>2
<1>4. PICK r \in {"ending", "ended"} : request' = [request EXCEPT ![p] = r]
  BY DEF Raw!EndRequest, Raw!EndSession
<1>5. request[p] # "ended"
  BY DEF Raw!EndRequest, Raw!EndSession
<1>6. /\ request' \in [Part -> {"live", "ending", "ended"}]
      /\ \A q \in Part \ {p} : request'[q] = request[q]
  BY <1>4 DEF RawInv, PartsTypeOK
<1>7. PartInv(p)
  BY DEF RawInv
<1>8. CASE ~RawUnderAudit(p)
  <2>1. PartInv(p)'
    BY <1>1, <1>7, <1>8 DEF PartInv, RawUnderAudit, Raw!UnderAudit
  <2>2. QED
    BY <1>1, <1>3, <1>6, <2>1, PartStep DEF RawInv, PartsTypeOK, SeenInv
<1>9. CASE RawUnderAudit(p)
  <2>1. Moves(p)' /\ LeftOnlyWhenEnded(p)'
    BY <1>1, <1>3, <1>5, <1>7, <1>9 DEF PartInv, LeftOnlyWhenEnded, Moves, Raw!Sealable
  <2>2. PartInv(p)'
    BY <1>1, <1>7, <1>9, <2>1 DEF PartInv
  <2>3. QED
    BY <1>1, <1>3, <1>6, <2>2, PartStep DEF RawInv, PartsTypeOK, SeenInv
<1>10. QED
  BY <1>8, <1>9

-----------------------------------------------------------------------------
\* A pass that ends before its time gives up every part it might have moved.
LEMMA GivesUpKeepsInv ==
    ASSUME RawInv,
           UNCHANGED <<parts, request, key, cached, keyChange, settle, starting, keys>>,
           asked' \in BOOLEAN, pass' \in PassRecord, pass'.phase = "idle",
           missed' = {p \in Part : Raw!Candidate(p)}
    PROVE  RawInv'
<1>1. PartsTypeOK' /\ KeysInv' /\ StartInv' /\ SeenInv'
  BY DEF RawInv, PartsTypeOK, KeysInv, StartInv, SeenInv
<1>2. ASSUME NEW p \in Part
      PROVE  PartInv(p)'
  <2>1. PartInv(p)
    BY DEF RawInv
  <2>2. RawUnderAudit(p) => p \in missed'
    BY DEF RawUnderAudit, Raw!Candidate
  <2>3. QED
    BY <2>1, <2>2 DEF PartInv, RawUnderAudit, Raw!UnderAudit, LeftOnlyWhenEnded, Moves
<1>3. QED
  BY <1>1, <1>2 DEF RawInv

LEMMA StartPassKeepsInv ==
    ASSUME RawInv, Raw!StartPass
    PROVE  RawInv'
<1>1. /\ UNCHANGED <<request, key, cached, keyChange, settle, starting, keys>>
      /\ asked' = FALSE /\ pass.phase = "idle"
  BY DEF Raw!StartPass
<1>2. parts \in [Part -> PartRecord] /\ Raw!NoPass \in PassRecord /\ cached \in Nat
  BY DEF RawInv, PartsTypeOK, Raw!NoPass, PassRecord, Raw!NoPart, PartRecord, Label
<1>3. KeysInv'
  BY <1>1 DEF RawInv, KeysInv
<1>4. CASE /\ cached = 0 /\ UNCHANGED pass
           /\ parts' = [p \in Part |-> IF parts[p].label = "pending" /\ request[p] # "live"
                                       THEN Raw!Marker(parts[p]) ELSE parts[p]]
  <2>1. /\ UNCHANGED pass
        /\ parts' = [p \in Part |-> IF parts[p].label = "pending" /\ request[p] # "live"
                                    THEN Raw!Marker(parts[p]) ELSE parts[p]]
    BY <1>4
  <2>2. \A p \in Part :
          \/ parts'[p] = parts[p]
          \/ /\ parts[p].label = "pending" /\ parts'[p].label = "raw"
             /\ parts'[p] \in PartRecord /\ parts'[p].key = 0 /\ ~parts'[p].kept
    BY <1>2, <2>1 DEF Raw!Marker, PartRecord, Label
  <2>3. PartsTypeOK'
    <3>1. parts' \in [Part -> PartRecord]
      BY <1>2, <2>1, <2>2
    <3>2. QED
      BY <1>1, <2>1, <3>1 DEF RawInv, PartsTypeOK
  <2>4. StartInv' /\ SeenInv'
    BY <1>1, <2>1, <2>2 DEF RawInv, StartInv, SeenInv
  <2>5. ASSUME NEW p \in Part
        PROVE  PartInv(p)'
    <3>1. CASE parts'[p] = parts[p]
      <4>1. PartInv(p)
        BY DEF RawInv
      <4>2. RawUnderAudit(p) => request[p] = "ended"
        BY <1>4, <4>1 DEF PartInv, LeftOnlyWhenEnded
      <4>3. QED
        BY <1>1, <1>4, <3>1, <4>1, <4>2
           DEF PartInv, RawUnderAudit, Raw!UnderAudit, LeftOnlyWhenEnded, Moves
    <3>2. CASE parts'[p].key = 0 /\ ~parts'[p].kept
      BY <1>1, <3>2 DEF RawInv, PartInv, RawUnderAudit, Raw!UnderAudit
    <3>3. QED
      BY <2>2, <3>1, <3>2
  <2>6. QED
    BY <1>3, <2>3, <2>4, <2>5 DEF RawInv
<1>5. CASE /\ cached # 0 /\ UNCHANGED parts
           /\ pass' = [Raw!NoPass EXCEPT !.phase = "next", !.key = cached]
  <2> DEFINE next == [Raw!NoPass EXCEPT !.phase = "next", !.key = cached]
  <2>1. pass' = next /\ UNCHANGED parts
    BY <1>5
  <2>2. next \in PassRecord /\ next.phase = "next" /\ next.key = cached /\ next.done = {}
    BY <1>2 DEF Raw!NoPass, PassRecord
  <2> HIDE DEF next
  <2>3. PartsTypeOK'
    BY <1>1, <2>1, <2>2 DEF RawInv, PartsTypeOK
  <2>4. StartInv' /\ SeenInv'
    BY <1>1, <2>1, <2>2 DEF RawInv, StartInv, SeenInv
  <2>5. ASSUME NEW p \in Part
        PROVE  PartInv(p)'
    <3>1. PartInv(p)
      BY DEF RawInv
    <3>2. keyChange = "stored" \/ Raw!Sealable(cached)
      BY <1>5 DEF RawInv, KeysInv, PartsTypeOK, Raw!Sealable
    <3>3. Moves(p)'
      BY <1>1, <2>1, <2>2, <3>2 DEF Moves, Raw!Sealable
    <3>4. QED
      BY <1>1, <2>1, <3>1, <3>3 DEF PartInv, RawUnderAudit, Raw!UnderAudit, LeftOnlyWhenEnded
  <2>6. QED
    BY <1>3, <2>3, <2>4, <2>5 DEF RawInv
<1>6. CASE UNCHANGED <<parts, pass>> /\ missed' = {p \in Part : Raw!Candidate(p)}
  BY <1>1, <1>6, GivesUpKeepsInv DEF RawInv, PartsTypeOK
<1>7. QED
  BY <1>4, <1>5, <1>6 DEF Raw!StartPass

LEMMA PassReadsKeepsInv ==
    ASSUME RawInv, NEW p \in Part, Raw!PassReads(p)
    PROVE  RawInv'
<1> DEFINE reads == [pass EXCEPT !.phase = "read", !.part = p, !.seen = parts[p], !.done = @ \cup {p}]
           skips == [pass EXCEPT !.done = @ \cup {p}]
<1>1. /\ UNCHANGED <<parts, request, key, cached, keyChange, settle, asked, starting, keys>>
      /\ pass.phase = "next" /\ Raw!Candidate(p)
      /\ \/ pass' = reads /\ UNCHANGED missed
         \/ pass' = skips /\ missed' = missed \cup {p}
  BY DEF Raw!PassReads
<1>2. /\ reads \in PassRecord /\ reads.phase = "read" /\ reads.part = p /\ reads.seen = parts[p]
      /\ reads.done = pass.done \cup {p} /\ reads.key = pass.key /\ reads.stale = pass.stale
  BY DEF RawInv, PartsTypeOK, PassRecord
<1>3. /\ skips \in PassRecord /\ skips.phase = "next" /\ skips.done = pass.done \cup {p}
      /\ skips.key = pass.key /\ skips.stale = pass.stale
  BY <1>1 DEF RawInv, PartsTypeOK, PassRecord
<1> HIDE DEF reads, skips
<1>4. PartsTypeOK' /\ KeysInv' /\ StartInv'
  BY <1>1, <1>2, <1>3 DEF RawInv, PartsTypeOK, KeysInv, StartInv
<1>5. SeenInv'
  BY <1>1, <1>2, <1>3 DEF RawInv, SeenInv, Sealing, Raw!Candidate, Raw!UnderAudit
<1>6. ASSUME NEW q \in Part
      PROVE  PartInv(q)'
  <2>1. PartInv(q)
    BY DEF RawInv
  <2>2. Moves(q) => Moves(q)'
    BY <1>1, <1>2, <1>3 DEF Moves, Raw!Sealable
  <2>3. QED
    BY <1>1, <2>1, <2>2 DEF PartInv, RawUnderAudit, Raw!UnderAudit, LeftOnlyWhenEnded
<1>7. QED
  BY <1>4, <1>5, <1>6 DEF RawInv

LEMMA PassMovesKeepsInv ==
    ASSUME RawInv, Raw!PassMoves
    PROVE  RawInv'
<1>1. /\ UNCHANGED <<request, key, cached, keyChange, settle, asked, missed, starting, keys>>
      /\ pass.phase = "read" /\ pass.part \in Part /\ Sealing(pass.seen)
      /\ pass.seen \in PartRecord
  BY DEF Raw!PassMoves, RawInv, SeenInv, PartsTypeOK, PassRecord
<1>2. /\ parts \in [Part -> PartRecord] /\ pass \in PassRecord
      /\ Raw!NoPass \in PassRecord /\ Raw!NoPass.phase = "idle"
  BY DEF RawInv, PartsTypeOK, Raw!NoPass, PassRecord, Raw!NoPart, PartRecord, Label
<1>3. /\ pass' \in PassRecord /\ pass'.phase # "read"
      /\ Raw!Sealable(pass.key) => /\ pass'.phase = "next" /\ pass'.key = pass.key
                              /\ pass'.done = pass.done /\ pass.stale \subseteq pass'.stale
  <2>1. CASE pass' = [pass EXCEPT !.phase = "next"]
    BY <1>2, <2>1 DEF PassRecord
  <2>2. CASE pass' = [pass EXCEPT !.phase = "next", !.stale = @ \cup {pass.part}]
    BY <1>1, <1>2, <2>2 DEF PassRecord
  <2>3. CASE ~Raw!Sealable(pass.key) /\ pass' = Raw!NoPass
    BY <1>2, <2>3
  <2>4. QED
    BY <2>1, <2>2, <2>3 DEF Raw!PassMoves
<1> DEFINE part == [pass.seen EXCEPT !.label = "raw", !.key = pass.key]
<1>4. Raw!Sealable(pass.key) =>
        /\ part \in PartRecord /\ part.label = "raw" /\ part.key = key /\ part.kept /\ part.key # 0
  BY <1>1, MovedPart
<1>5. \/ UNCHANGED parts
      \/ /\ Raw!Sealable(pass.key) /\ parts[pass.part] = pass.seen
         /\ parts' = [parts EXCEPT ![pass.part] = part]
  BY DEF Raw!PassMoves, Raw!Repointed
<1> HIDE DEF part
<1>6. \A p \in Part :
        \/ /\ parts'[p] = parts[p]
           /\ Raw!Sealable(pass.key) =>
                p # pass.part \/ parts[p] # pass.seen \/ p \in pass'.stale
        \/ /\ parts'[p] \in PartRecord /\ parts'[p].label = "raw" /\ parts'[p].key = key
           /\ parts'[p].kept /\ key # 0 /\ parts[p].label # "none"
  <2>1. CASE Raw!Sealable(pass.key) /\ parts[pass.part] = pass.seen
    <3>1. CASE parts' = [parts EXCEPT ![pass.part] = part]
      BY <1>1, <1>2, <1>4, <2>1, <3>1 DEF Sealing
    <3>2. CASE UNCHANGED parts /\ pass' = [pass EXCEPT !.phase = "next", !.stale = @ \cup {pass.part}]
      BY <1>1, <1>2, <3>2 DEF PassRecord
    <3>3. QED
      BY <2>1, <3>1, <3>2 DEF Raw!PassMoves, Raw!Repointed, part
  <2>2. CASE ~(Raw!Sealable(pass.key) /\ parts[pass.part] = pass.seen)
    <3>1. UNCHANGED parts
      BY <1>5, <2>2
    <3>2. QED
      BY <2>2, <3>1
  <2>3. QED
    BY <2>1, <2>2
<1>7. PartsTypeOK' /\ KeysInv' /\ StartInv' /\ SeenInv'
  <2>1. parts' \in [Part -> PartRecord]
    BY <1>2, <1>4, <1>5
  <2>2. PartsTypeOK' /\ KeysInv' /\ SeenInv'
    BY <1>1, <1>3, <2>1 DEF RawInv, PartsTypeOK, KeysInv, SeenInv
  <2>3. StartInv'
    BY <1>1, <1>6 DEF RawInv, StartInv
  <2>4. QED
    BY <2>2, <2>3
<1>8. ASSUME NEW p \in Part
      PROVE  PartInv(p)'
  <2>1. PartInv(p)
    BY DEF RawInv
  <2>2. CASE /\ parts'[p] = parts[p]
             /\ Raw!Sealable(pass.key) =>
                  p # pass.part \/ parts[p] # pass.seen \/ p \in pass'.stale
    <3>1. Moves(p) => Moves(p)'
      BY <1>1, <1>3, <2>2 DEF Moves, Raw!Sealable
    <3>2. QED
      BY <1>1, <2>1, <2>2, <3>1 DEF PartInv, RawUnderAudit, Raw!UnderAudit, LeftOnlyWhenEnded
  <2>3. CASE parts'[p].key = key /\ parts'[p].kept /\ key # 0
    BY <1>1, <2>1, <2>3 DEF PartInv, RawUnderAudit, Raw!UnderAudit
  <2>4. QED
    BY <1>6, <2>2, <2>3
<1>9. QED
  BY <1>7, <1>8 DEF RawInv

LEMMA PassFailsKeepsInv ==
    ASSUME RawInv, Raw!PassFails
    PROVE  RawInv'
<1>1. /\ UNCHANGED <<parts, request, key, cached, keyChange, settle, asked, starting, keys>>
      /\ pass' = Raw!NoPass /\ missed' = {p \in Part : Raw!Candidate(p)}
  BY DEF Raw!PassFails
<1>2. Raw!NoPass \in PassRecord /\ Raw!NoPass.phase = "idle"
  BY DEF Raw!NoPass, PassRecord, Raw!NoPart, PartRecord, Label
<1>3. QED
  BY <1>1, <1>2, GivesUpKeepsInv DEF RawInv, PartsTypeOK

LEMMA EndPassKeepsInv ==
    ASSUME RawInv, Raw!EndPass
    PROVE  RawInv'
<1>1. /\ UNCHANGED <<parts, request, key, cached, keyChange, settle, missed, starting, keys>>
      /\ pass' = Raw!NoPass /\ pass.phase = "next" /\ \A p \in Part \ pass.done : ~Raw!Candidate(p)
      /\ asked' = (asked \/ pass.stale # {})
  BY DEF Raw!EndPass
<1>2. Raw!NoPass \in PassRecord /\ Raw!NoPass.phase = "idle"
  BY DEF Raw!NoPass, PassRecord, Raw!NoPart, PartRecord, Label
<1>3. asked' \in BOOLEAN /\ (asked => asked') /\ (pass.stale # {} => asked')
  BY <1>1, Zenon
<1>4. PartsTypeOK' /\ KeysInv' /\ StartInv' /\ SeenInv'
  BY <1>1, <1>2, <1>3 DEF RawInv, PartsTypeOK, KeysInv, StartInv, SeenInv
<1>5. ASSUME NEW p \in Part
      PROVE  PartInv(p)'
  <2>1. PartInv(p)
    BY DEF RawInv
  <2>2. RawUnderAudit(p) => p \in pass.done
    BY <1>1 DEF RawUnderAudit, Raw!Candidate
  <2>3. RawUnderAudit(p) /\ Moves(p) => Moves(p)'
    <3>1. CASE p \in pass.stale
      BY <1>3, <3>1 DEF Moves
    <3>2. CASE p \notin pass.stale
      BY <1>1, <1>3, <2>2, <3>2 DEF Moves
    <3>3. QED
      BY <3>1, <3>2
  <2>4. QED
    BY <1>1, <2>1, <2>3 DEF PartInv, RawUnderAudit, Raw!UnderAudit, LeftOnlyWhenEnded
<1>6. QED
  BY <1>4, <1>5 DEF RawInv

-----------------------------------------------------------------------------
\* A new key, or none: the parts sealed to the old one are gone.
LEMMA KeyChangeKeepsInv ==
    ASSUME RawInv, Raw!StoreKey \/ Raw!ClearKey
    PROVE  RawInv'
<1>1. /\ UNCHANGED <<request, cached, settle, asked, pass, missed, starting>>
      /\ keyChange = "idle" /\ keyChange' = "stored"
      /\ parts' = [p \in Part |-> IF Raw!Under(parts[p], key) THEN Raw!NoPart ELSE parts[p]]
  BY DEF Raw!StoreKey, Raw!ClearKey
<1>2. /\ key \in Nat /\ keys \in Nat /\ cached \in Nat /\ parts \in [Part -> PartRecord]
      /\ key <= keys /\ cached <= keys /\ keys <= MaxKeys /\ MaxKeys \in Nat
  BY CoreAssumption DEF Raw!SealingAssumption, RawInv, PartsTypeOK, KeysInv
<1>3. /\ key' \in Nat /\ keys' \in Nat /\ key' <= keys' /\ cached' <= keys' /\ keys' <= MaxKeys
      /\ key' = 0 => starting'
  <2>1. CASE Raw!StoreKey
    BY <1>1, <1>2, <2>1 DEF Raw!StoreKey
  <2>2. CASE Raw!ClearKey
    BY <1>1, <1>2, <2>2 DEF Raw!ClearKey
  <2>3. QED
    BY <2>1, <2>2
<1>4. Raw!NoPart \in PartRecord /\ Raw!NoPart.key = 0 /\ Raw!NoPart.label = "none"
  BY DEF Raw!NoPart, PartRecord, Label
<1>5. \A p \in Part :
        /\ parts'[p] \in PartRecord /\ parts'[p].key = 0
        /\ parts'[p] = parts[p] \/ parts'[p].label = "none"
  <2> TAKE p \in Part
  <2>1. parts[p].key \in {0, key} /\ (parts[p].key # 0 => parts[p].kept)
    BY DEF RawInv, PartInv
  <2>2. QED
    BY <1>1, <1>2, <1>4, <2>1 DEF Raw!Under
<1>6. PartsTypeOK'
  <2>1. parts' \in [Part -> PartRecord]
    BY <1>1, <1>5
  <2>2. QED
    BY <1>1, <1>3, <2>1 DEF RawInv, PartsTypeOK
<1>7. KeysInv' /\ StartInv' /\ SeenInv'
  BY <1>1, <1>3, <1>5 DEF RawInv, KeysInv, StartInv, SeenInv
<1>8. ASSUME NEW p \in Part
      PROVE  PartInv(p)'
  <2>1. PartInv(p)
    BY DEF RawInv
  <2>2. QED
    BY <1>1, <1>5, <2>1 DEF PartInv, RawUnderAudit, Raw!UnderAudit, LeftOnlyWhenEnded, Moves
<1>9. QED
  BY <1>6, <1>7, <1>8 DEF RawInv

LEMMA CacheKeyKeepsInv ==
    ASSUME RawInv, Raw!CacheKey
    PROVE  RawInv'
<1>1. /\ UNCHANGED <<parts, request, key, settle, pass, missed, starting, keys>>
      /\ keyChange = "stored" /\ keyChange' = "idle" /\ cached' = key /\ asked' = TRUE
  BY DEF Raw!CacheKey
<1>2. PartsTypeOK' /\ KeysInv' /\ StartInv' /\ SeenInv'
  BY <1>1 DEF RawInv, PartsTypeOK, KeysInv, StartInv, SeenInv
<1>3. ASSUME NEW p \in Part
      PROVE  PartInv(p)'
  <2>1. PartInv(p)
    BY DEF RawInv
  <2>2. key = 0 => /\ settle[p].phase = "idle"
                   /\ parts[p].label # "none" => request[p] = "ended"
    BY <1>1 DEF RawInv, KeysInv, StartInv
  <2>3. QED
    BY <1>1, <2>1, <2>2 DEF PartInv, RawUnderAudit, Raw!UnderAudit, LeftOnlyWhenEnded, Moves
<1>4. QED
  BY <1>2, <1>3 DEF RawInv

LEMMA CrashKeepsInv ==
    ASSUME RawInv, Raw!Crash
    PROVE  RawInv'
<1>1. /\ UNCHANGED <<key, keys>> /\ cached' = key /\ keyChange' = "idle" /\ asked' = TRUE
      /\ pass' = Raw!NoPass /\ settle' = [p \in Part |-> Raw!NoSettle] /\ starting' = TRUE
      /\ request' = [p \in Part |-> IF parts[p].label = "none" THEN request[p] ELSE "ended"]
      /\ parts' = [p \in Part |->
                     IF parts[p].label # "pending" THEN parts[p]
                     ELSE IF key = 0 THEN Raw!Marker(parts[p]) ELSE [parts[p] EXCEPT !.label = "raw"]]
  BY DEF Raw!Crash
<1>2. /\ parts \in [Part -> PartRecord] /\ Raw!NoPass \in PassRecord /\ Raw!NoPass.phase = "idle"
      /\ Raw!NoSettle \in Settling /\ Raw!NoSettle.phase = "idle"
  BY DEF RawInv, PartsTypeOK, Raw!NoPass, PassRecord, Raw!NoSettle, Settling, Raw!NoPart, PartRecord, Label
<1>3. \A p \in Part :
        /\ parts'[p] \in PartRecord /\ parts'[p].key \in {0, key}
        /\ parts'[p].key # 0 => parts'[p].kept
        /\ parts'[p].label # "none" => request'[p] = "ended"
  <2> TAKE p \in Part
  <2>1. /\ parts[p] \in PartRecord /\ parts[p].key \in {0, key}
        /\ parts[p].key # 0 => parts[p].kept
    BY DEF RawInv, PartsTypeOK, PartInv
  <2>2. CASE parts[p].label # "pending"
    BY <1>1, <2>1, <2>2
  <2>3. CASE parts[p].label = "pending" /\ key = 0
    BY <1>1, <2>1, <2>3 DEF Raw!Marker, PartRecord, Label
  <2>4. CASE parts[p].label = "pending" /\ key # 0
    <3>1. parts'[p] = [parts[p] EXCEPT !.label = "raw"] /\ request'[p] = "ended"
      BY <1>1, <2>4
    <3>2. QED
      BY <2>1, <3>1 DEF PartRecord, Label
  <2>5. QED
    BY <2>2, <2>3, <2>4
<1>4. PartsTypeOK'
  <2>1. parts' \in [Part -> PartRecord] /\ settle' \in [Part -> Settling]
    BY <1>1, <1>2, <1>3
  <2>2. request' \in [Part -> {"live", "ending", "ended"}]
    BY <1>1 DEF RawInv, PartsTypeOK
  <2>3. asked' \in BOOLEAN /\ starting' \in BOOLEAN
    BY <1>1
  <2>4. QED
    BY <1>1, <1>2, <2>1, <2>2, <2>3 DEF RawInv, PartsTypeOK
<1>5. KeysInv' /\ StartInv' /\ SeenInv'
  BY <1>1, <1>2, <1>3 DEF RawInv, KeysInv, StartInv, SeenInv
<1>6. ASSUME NEW p \in Part
      PROVE  PartInv(p)'
  BY <1>1, <1>2, <1>3 DEF PartInv, RawUnderAudit, LeftOnlyWhenEnded, Moves
<1>7. QED
  BY <1>4, <1>5, <1>6 DEF RawInv

LEMMA ServeKeepsInv ==
    ASSUME RawInv, Raw!Serve
    PROVE  RawInv'
<1>1. /\ UNCHANGED <<parts, request, key, cached, keyChange, settle, asked, pass, missed, keys>>
      /\ keyChange = "idle" /\ starting' = FALSE
  BY DEF Raw!Serve
<1>2. PartsTypeOK' /\ KeysInv' /\ StartInv' /\ SeenInv'
  BY <1>1 DEF RawInv, PartsTypeOK, KeysInv, StartInv, SeenInv
<1>3. \A p \in Part : PartInv(p)'
  BY <1>1 DEF RawInv, PartInv, RawUnderAudit, Raw!UnderAudit, LeftOnlyWhenEnded, Moves, Raw!Sealable
<1>4. QED
  BY <1>2, <1>3 DEF RawInv

-----------------------------------------------------------------------------
LEMMA RawNext ==
    ASSUME RawInv, Raw!Next
    PROVE  RawInv'
BY CaptureKeepsInv, SettleShareableKeepsInv, SettleRawKeepsInv, SettlesKeepsInv,
   RequestEndsKeepsInv, StartPassKeepsInv, PassReadsKeepsInv, PassMovesKeepsInv, PassFailsKeepsInv,
   EndPassKeepsInv,
   KeyChangeKeepsInv, CacheKeyKeepsInv, CrashKeepsInv, ServeKeepsInv
   DEF Raw!Next, Raw!Passes

\* Nothing of the raw parts changes.
LEMMA RawStutter ==
    ASSUME RawInv, UNCHANGED Raw!vars
    PROVE  RawInv'
BY DEF Raw!vars, RawInv, PartsTypeOK, KeysInv, StartInv, SeenInv, PartInv, RawUnderAudit, Raw!UnderAudit,
       LeftOnlyWhenEnded, Moves, Raw!Sealable

LEMMA RawImplies ==
    ASSUME RawInv
    PROVE  Raw!SealingInv /\ Raw!RawIsNotLeftUnderAudit
<1>1. Raw!SealingInv
  BY CoreAssumption DEF Raw!SealingAssumption, RawInv, PartsTypeOK, KeysInv, PartInv, PartRecord, Label, Raw!SealingInv
<1>2. Raw!RawIsNotLeftUnderAudit
  BY DEF RawInv, PartInv, RawUnderAudit, Moves, Raw!RawIsNotLeftUnderAudit, Raw!Remembered
<1>3. QED
  BY <1>1, <1>2

\* What a step may do to one part.
Sticks(p) ==
    /\ parts[p].label = "raw" => parts'[p].label \in {"raw", "none"}
    /\ parts'[p] # Raw!NoPart => parts'[p].capture >= parts[p].capture

LEMMA SamePartSticks ==
    ASSUME RawInv, NEW p \in Part, parts'[p] = parts[p] \/ parts'[p] = Raw!NoPart
    PROVE  Sticks(p)
BY DEF RawInv, PartsTypeOK, PartRecord, Sticks, Raw!NoPart

LEMMA MarkerSticks ==
    ASSUME RawInv, NEW p \in Part, parts'[p] = Raw!Marker(parts[p])
    PROVE  Sticks(p)
BY DEF RawInv, PartsTypeOK, PartRecord, Label, Sticks, Raw!Marker

LEMMA RepointedSticks ==
    ASSUME RawInv, NEW q \in Part, NEW seen \in PartRecord, Sealing(seen), NEW k, Raw!Sealable(k),
           parts' = Raw!Repointed(q, seen, k), NEW p \in Part
    PROVE  Sticks(p)
<1>1. CASE parts[q] = seen /\ p = q
  <2>1. parts'[p] = [seen EXCEPT !.label = "raw", !.key = k]
    BY <1>1 DEF Raw!Repointed, RawInv, PartsTypeOK
  <2>2. /\ [seen EXCEPT !.label = "raw", !.key = k].label = "raw"
        /\ [seen EXCEPT !.label = "raw", !.key = k].capture = seen.capture
    BY MovedPart
  <2>3. QED
    BY <1>1, <2>1, <2>2 DEF Sticks, RawInv, PartsTypeOK, PartRecord
<1>2. CASE ~(parts[q] = seen /\ p = q)
  <2>1. parts'[p] = parts[p]
    BY <1>2 DEF Raw!Repointed, RawInv, PartsTypeOK
  <2>2. QED
    BY <2>1, SamePartSticks
<1>3. QED
  BY <1>1, <1>2

LEMMA CaptureSticks ==
    ASSUME RawInv, NEW q \in Part, Raw!Capture(q), NEW p \in Part
    PROVE  Sticks(p)
<1> DEFINE next == [parts[q] EXCEPT !.capture = @ + 1]
<1>1. /\ parts \in [Part -> PartRecord] /\ next \in PartRecord /\ next.label = parts[q].label
      /\ next.capture >= parts[q].capture
  BY DEF RawInv, PartsTypeOK, PartRecord
<1> HIDE DEF next
<1>2. CASE /\ parts[q].label \in {"none", "pending"}
           /\ parts' = [parts EXCEPT ![q] = [next EXCEPT !.label = "pending", !.kept = TRUE]]
  BY <1>1, <1>2, SamePartSticks DEF Sticks, PartRecord
<1>3. CASE parts' = [parts EXCEPT ![q] = Raw!Marker(next)]
  BY <1>1, <1>3, SamePartSticks DEF Sticks, PartRecord, Raw!Marker
<1>4. CASE /\ parts[q].label = "raw"
           /\ parts' = [parts EXCEPT ![q] = [next EXCEPT !.kept = TRUE, !.key = cached]]
  BY <1>1, <1>4, SamePartSticks DEF Sticks, PartRecord
<1>5. QED
  BY <1>2, <1>3, <1>4 DEF Raw!Capture, next

LEMMA SettlingSticks ==
    ASSUME RawInv, NEW q \in Part, Raw!SettleShareable(q) \/ Raw!SettleRaw(q) \/ Raw!Settles(q), NEW p \in Part
    PROVE  Sticks(p)
<1>1. parts \in [Part -> PartRecord] /\ parts[q] \in PartRecord
  BY DEF RawInv, PartsTypeOK
<1>2. CASE Raw!SettleShareable(q)
  <2>1. /\ parts' = [parts EXCEPT ![q] = [parts[q] EXCEPT !.label = "shareable"]]
        /\ parts[q].label = "pending"
    BY <1>2 DEF Raw!SettleShareable
  <2>2. QED
    BY <1>1, <2>1, SamePartSticks DEF Sticks, PartRecord
<1>3. CASE Raw!SettleRaw(q)
  <2>1. CASE parts' = [parts EXCEPT ![q] = Raw!Marker(parts[q])]
    BY <1>1, <2>1, SamePartSticks, MarkerSticks
  <2>2. CASE parts' = [parts EXCEPT ![q] = [parts[q] EXCEPT !.label = "raw"]]
    BY <1>1, <2>2, SamePartSticks DEF Sticks, PartRecord
  <2>3. CASE UNCHANGED parts
    BY <2>3, SamePartSticks
  <2>4. QED
    BY <1>3, <2>1, <2>2, <2>3 DEF Raw!SettleRaw
<1>4. CASE Raw!Settles(q)
  <2>1. CASE parts' = [parts EXCEPT ![q] = Raw!Marker(parts[q])]
    BY <1>1, <2>1, SamePartSticks, MarkerSticks
  <2>2. CASE parts' = [parts EXCEPT ![q] = parts[q]] \/ UNCHANGED parts
    BY <1>1, <2>2, SamePartSticks
  <2>3. CASE /\ settle[q].phase = "sealed" /\ Raw!Sealable(settle[q].key)
             /\ parts' = Raw!Repointed(q, settle[q].seen, settle[q].key)
    <3>1. Sealing(settle[q].seen) /\ settle[q].seen \in PartRecord
      BY <2>3 DEF RawInv, SeenInv, PartsTypeOK, Settling
    <3>2. QED
      BY <2>3, <3>1, RepointedSticks
  <2>4. QED
    BY <1>4, <2>1, <2>2, <2>3 DEF Raw!Settles, Raw!DeferSettle, Raw!SealSettled, Raw!StoreSettled
<1>5. QED
  BY <1>2, <1>3, <1>4

LEMMA PassSticks ==
    ASSUME RawInv, Raw!Passes, NEW p \in Part
    PROVE  Sticks(p)
<1>1. CASE Raw!StartPass
  BY <1>1, SamePartSticks, MarkerSticks DEF Raw!StartPass
<1>2. CASE /\ Raw!PassMoves /\ Raw!Sealable(pass.key)
           /\ parts' = Raw!Repointed(pass.part, pass.seen, pass.key)
  <2>1. pass.part \in Part /\ Sealing(pass.seen) /\ pass.seen \in PartRecord
    BY <1>2 DEF Raw!PassMoves, RawInv, SeenInv, PartsTypeOK, PassRecord
  <2>2. QED
    BY <1>2, <2>1, RepointedSticks
<1>3. CASE UNCHANGED parts
  BY <1>3, SamePartSticks
<1>4. QED
  BY <1>1, <1>2, <1>3 DEF Raw!Passes, Raw!PassReads, Raw!PassMoves, Raw!PassFails,
                         Raw!EndPass

LEMMA CrashSticks ==
    ASSUME RawInv, Raw!Crash, NEW p \in Part
    PROVE  Sticks(p)
<1>1. parts'[p] = IF parts[p].label # "pending" THEN parts[p]
                  ELSE IF key = 0 THEN Raw!Marker(parts[p]) ELSE [parts[p] EXCEPT !.label = "raw"]
  BY DEF Raw!Crash
<1>2. CASE parts'[p] = [parts[p] EXCEPT !.label = "raw"]
  BY <1>2 DEF Sticks, RawInv, PartsTypeOK, PartRecord
<1>3. QED
  BY <1>1, <1>2, SamePartSticks, MarkerSticks

\* Whatever step the vault takes, every part sticks.
LEMMA RawSticks ==
    ASSUME RawInv, [Raw!Next]_(Raw!vars)
    PROVE  [Raw!PartsStick]_(Raw!vars)
<1>1. ASSUME NEW p \in Part
      PROVE  Sticks(p)
  <2>1. CASE UNCHANGED parts
    BY <2>1, SamePartSticks
  <2>2. CASE Raw!StoreKey \/ Raw!ClearKey
    BY <2>2, SamePartSticks DEF Raw!StoreKey, Raw!ClearKey
  <2>3. CASE \E q \in Part : Raw!Capture(q)
    BY <2>3, CaptureSticks
  <2>4. CASE \E q \in Part : Raw!SettleShareable(q) \/ Raw!SettleRaw(q) \/ Raw!Settles(q)
    BY <2>4, SettlingSticks
  <2>5. CASE Raw!Passes
    BY <2>5, PassSticks
  <2>6. CASE Raw!Crash
    BY <2>6, CrashSticks
  <2>7. QED
    BY <2>1, <2>2, <2>3, <2>4, <2>5, <2>6
       DEF Raw!Next, Raw!vars, Raw!EndRequest, Raw!EndSession, Raw!CacheKey, Raw!Serve
<1>2. QED
  BY <1>1 DEF Sticks, Raw!PartsStick

-----------------------------------------------------------------------------
\* The files of a model.
File == {f \in Seq(0 .. MaxPlan) : Len(f) <= Pieces}
Directory ==
    [doc : 0 .. MaxPlan, files : [1 .. Assets -> File], manifest : 0 .. MaxPlan]
Status == {"none", "downloading", "paused", "ready", "error"}
Record ==
    [status : Status,
     bytes : 0 .. Files!Total, manifest : 0 .. MaxPlan]
Phase == {"idle", "preparing", "open", "body", "verify", "publish", "published"}
Transfer == {"open", "body", "verify", "publish"}

RegistryTypeOK ==
    /\ plan \in 1 .. MaxPlan
    /\ staging \in Directory /\ final \in Directory
    /\ rec \in Record /\ recorded \in Record
    /\ op \in [phase : Phase, plan : 0 .. MaxPlan, asset : 1 .. Assets, cancelled : BOOLEAN]
    /\ del \in {"idle", "waiting", "files", "record"}
    /\ fileFaults \in Nat /\ fileCrashes \in Nat

\* A directory that holds all the assets of one plan.
HoldsPlan(dir, p) ==
    p \in 1 .. MaxPlan /\ dir.manifest = p /\ \A a \in 1 .. Assets : Files!Whole(dir.files[a], p)

\* What is staged comes from the plan it is bound to, but for damaged pieces.
StagingOK ==
    \A a \in 1 .. Assets : \A i \in 1 .. Len(staging.files[a]) :
        staging.files[a][i] = staging.doc \/ (a \in Pinned /\ staging.files[a][i] = 0)

\* The assets a download has gone past.
Past == IF op.phase \in {"open", "body"} THEN 1 .. op.asset - 1 ELSE 1 .. Assets
TransferOK ==
    op.phase \in Transfer =>
        /\ rec.bytes = Files!Staged(staging) /\ staging.doc = op.plan /\ op.plan \in 1 .. MaxPlan
        /\ \A a \in Past : Files!Whole(staging.files[a], op.plan)
        /\ op.phase = "publish" => staging.manifest = op.plan

RecordsOK ==
    /\ rec.status = "downloading" <=> op.phase \notin {"idle", "preparing"}
    /\ rec.status = "ready" => op.phase = "idle"
    /\ op.phase = "preparing" =>
         del = "idle" /\ op.plan \in 1 .. MaxPlan /\ staging.doc = op.plan /\ op.asset = 1
    /\ del \in {"files", "record"} => rec.status = "error" /\ op.phase = "idle"
    /\ rec.status = "none" => recorded = Files!NoRec
    /\ recorded.status = "ready" => rec.status = "error" \/ rec = recorded

FinalOK ==
    /\ op.phase = "published" => HoldsPlan(final, final.manifest)
    /\ ~StopsInDeletion /\ rec.status = "ready" => HoldsPlan(final, rec.manifest)

RegistryIInv == RegistryTypeOK /\ StagingOK /\ TransferOK /\ RecordsOK /\ FinalOK

-----------------------------------------------------------------------------
StagedPieces(dir) ==
    {piece \in (1 .. Assets) \X (1 .. Pieces) : piece[2] <= Len(dir.files[piece[1]])}

LEMMA AllPieces ==
    ASSUME Files!RegistryAssumption
    PROVE  /\ IsFiniteSet((1 .. Assets) \X (1 .. Pieces))
           /\ Cardinality((1 .. Assets) \X (1 .. Pieces)) = Files!Total
<1>1. Assets \in Nat /\ Pieces \in Nat
  BY DEF Files!RegistryAssumption
<1>2. /\ IsFiniteSet(1 .. Assets) /\ Cardinality(1 .. Assets) = Assets
      /\ IsFiniteSet(1 .. Pieces) /\ Cardinality(1 .. Pieces) = Pieces
  BY <1>1, FS_Interval
<1>3. /\ IsFiniteSet((1 .. Assets) \X (1 .. Pieces))
      /\ Cardinality((1 .. Assets) \X (1 .. Pieces)) =
           Cardinality(1 .. Assets) * Cardinality(1 .. Pieces)
  BY <1>2, FS_Product, Zenon
<1> QED
  BY <1>2, <1>3, Zenon DEF Files!Total

\* A piece of a directory is an asset and a number within its file.
LEMMA PieceStaged ==
    ASSUME NEW dir
    PROVE  /\ \A b \in 1 .. Assets, i \in 1 .. Pieces :
                 <<b, i>> \in StagedPieces(dir) <=> i <= Len(dir.files[b])
           /\ \A x \in StagedPieces(dir) : \E b \in 1 .. Assets, i \in 1 .. Pieces : x = <<b, i>>
<1>1. ASSUME NEW b \in 1 .. Assets, NEW i \in 1 .. Pieces
      PROVE  <<b, i>> \in StagedPieces(dir) <=> i <= Len(dir.files[b])
  <2>1. <<b, i>> \in (1 .. Assets) \X (1 .. Pieces) /\ <<b, i>>[1] = b /\ <<b, i>>[2] = i
    OBVIOUS
  <2> QED
    BY <2>1, Zenon DEF StagedPieces
<1>2. ASSUME NEW x \in StagedPieces(dir)
      PROVE  \E b \in 1 .. Assets, i \in 1 .. Pieces : x = <<b, i>>
  BY <1>2, SMT DEF StagedPieces
<1> QED
  BY <1>1, <1>2

\* The cardinality the instance of ModelRegistry knows is the usual one.
LEMMA FilesCardinality ==
    ASSUME NEW S
    PROVE  Files!Cardinality(S) = Cardinality(S)
BY Zenon DEF Files!Cardinality, Cardinality

\* No directory holds more pieces than the model has.
LEMMA StagedRange ==
    ASSUME Files!RegistryAssumption, NEW dir
    PROVE  IsFiniteSet(StagedPieces(dir)) /\ Files!Staged(dir) = Cardinality(StagedPieces(dir))
           /\ Files!Staged(dir) \in 0 .. Files!Total /\ Files!Total \in Nat
<1>1. StagedPieces(dir) \subseteq (1 .. Assets) \X (1 .. Pieces)
  BY DEF StagedPieces
<1>2. /\ IsFiniteSet(StagedPieces(dir))
      /\ Cardinality(StagedPieces(dir)) <= Cardinality((1 .. Assets) \X (1 .. Pieces))
  BY <1>1, AllPieces, FS_Subset
<1>3. Cardinality(StagedPieces(dir)) \in Nat
  BY <1>2, FS_CardinalityType
<1>4. Files!Total \in Nat
  BY AllPieces, FS_CardinalityType
<1>5. Files!Staged(dir) = Cardinality(StagedPieces(dir))
  BY FilesCardinality DEF Files!Staged, StagedPieces
<1> QED
  BY <1>2, <1>3, <1>4, <1>5, AllPieces

\* A piece more in one file is a piece more in its directory.
LEMMA StagedAppended ==
    ASSUME Files!RegistryAssumption, NEW dir, NEW next, NEW a \in 1 .. Assets,
           Len(dir.files[a]) \in Nat, Len(dir.files[a]) < Pieces,
           Len(next.files[a]) = Len(dir.files[a]) + 1,
           \A b \in 1 .. Assets : b # a => next.files[b] = dir.files[b]
    PROVE  Files!Staged(next) = Files!Staged(dir) + 1
<1> DEFINE n == Len(dir.files[a])
<1>1. Pieces \in Nat /\ n \in Nat
  BY DEF Files!RegistryAssumption
<1>2. <<a, n + 1>> \in StagedPieces(next) /\ <<a, n + 1>> \notin StagedPieces(dir)
  <2>1. n + 1 \in 1 .. Pieces /\ ~(n + 1 <= n)
    BY <1>1
  <2> QED
    BY <1>1, <2>1, PieceStaged
<1>3. StagedPieces(next) = StagedPieces(dir) \cup {<<a, n + 1>>}
  <2>1. ASSUME NEW x \in StagedPieces(next) PROVE x \in StagedPieces(dir) \/ x = <<a, n + 1>>
    <3>1. PICK b \in 1 .. Assets, i \in 1 .. Pieces : x = <<b, i>>
      BY <2>1, PieceStaged
    <3>2. i <= Len(next.files[b])
      BY <2>1, <3>1, PieceStaged
    <3>3. CASE b = a
      BY <1>1, <3>1, <3>2, <3>3, PieceStaged
    <3>4. CASE b # a
      <4>1. i <= Len(dir.files[b])
        BY <3>2, <3>4
      <4> QED
        BY <3>1, <4>1, PieceStaged
    <3> QED
      BY <3>3, <3>4
  <2>2. ASSUME NEW x \in StagedPieces(dir) PROVE x \in StagedPieces(next)
    <3>1. PICK b \in 1 .. Assets, i \in 1 .. Pieces : x = <<b, i>>
      BY <2>2, PieceStaged
    <3>2. i <= Len(dir.files[b])
      BY <2>2, <3>1, PieceStaged
    <3>3. CASE b = a
      BY <1>1, <3>1, <3>2, <3>3, PieceStaged
    <3>4. CASE b # a
      <4>1. i <= Len(next.files[b])
        BY <3>2, <3>4
      <4> QED
        BY <3>1, <4>1, PieceStaged
    <3> QED
      BY <3>3, <3>4
  <2> QED
    BY <1>2, <2>1, <2>2
<1>4. Cardinality(StagedPieces(next)) = Cardinality(StagedPieces(dir)) + 1
  BY <1>2, <1>3, StagedRange, FS_AddElement
<1> QED
  BY <1>4, StagedRange

\* A file thrown away takes as many pieces with it as it had.
LEMMA StagedCleared ==
    ASSUME Files!RegistryAssumption, NEW dir, NEW next, NEW a \in 1 .. Assets,
           Len(dir.files[a]) \in Nat, Len(dir.files[a]) <= Pieces,
           Len(next.files[a]) = 0,
           \A b \in 1 .. Assets : b # a => next.files[b] = dir.files[b]
    PROVE  Files!Staged(dir) - Len(dir.files[a]) = Files!Staged(next)
<1> DEFINE n == Len(dir.files[a])
           Gone == {a} \X (1 .. n)
<1>1. Pieces \in Nat /\ n \in Nat
  BY DEF Files!RegistryAssumption
<1>2. IsFiniteSet(Gone) /\ Cardinality(Gone) = n
  <2>1. IsFiniteSet({a}) /\ Cardinality({a}) = 1
    BY FS_Singleton
  <2>2. IsFiniteSet(1 .. n) /\ Cardinality(1 .. n) = n
    <3>1. n \in Int /\ 1 \in Int /\ (IF 1 > n THEN 0 ELSE n - 1 + 1) = n
      BY <1>1
    <3> HIDE DEF n
    <3> QED
      BY <3>1, FS_Interval, Zenon
  <2>3. IsFiniteSet(Gone) /\ Cardinality(Gone) = Cardinality({a}) * Cardinality(1 .. n)
    BY <2>1, <2>2, FS_Product, Zenon
  <2>4. Cardinality({a}) * Cardinality(1 .. n) = 1 * n
    BY <2>1, <2>2, Zenon
  <2> QED
    BY <1>1, <2>3, <2>4
<1>3. StagedPieces(dir) = StagedPieces(next) \cup Gone
  <2>1. ASSUME NEW x \in StagedPieces(dir) PROVE x \in StagedPieces(next) \/ x \in Gone
    <3>1. PICK b \in 1 .. Assets, i \in 1 .. Pieces : x = <<b, i>>
      BY <2>1, PieceStaged
    <3>2. i <= Len(dir.files[b])
      BY <2>1, <3>1, PieceStaged
    <3>3. CASE b = a
      BY <1>1, <3>1, <3>2, <3>3
    <3>4. CASE b # a
      <4>1. i <= Len(next.files[b])
        BY <3>2, <3>4
      <4> QED
        BY <3>1, <4>1, PieceStaged
    <3> QED
      BY <3>3, <3>4
  <2>2. ASSUME NEW x \in StagedPieces(next) PROVE x \in StagedPieces(dir)
    <3>1. PICK b \in 1 .. Assets, i \in 1 .. Pieces : x = <<b, i>>
      BY <2>2, PieceStaged
    <3>2. i <= Len(next.files[b])
      BY <2>2, <3>1, PieceStaged
    <3>3. CASE b = a
      BY <3>2, <3>3, <3>1
    <3>4. CASE b # a
      <4>1. i <= Len(dir.files[b])
        BY <3>2, <3>4
      <4> QED
        BY <3>1, <4>1, PieceStaged
    <3> QED
      BY <3>3, <3>4
  <2>3. Gone \subseteq StagedPieces(dir)
    <3>1. ASSUME NEW i \in 1 .. n PROVE <<a, i>> \in StagedPieces(dir)
      BY <1>1, PieceStaged
    <3> QED
      BY <3>1
  <2> QED
    BY <2>1, <2>2, <2>3
<1>4. StagedPieces(next) \cap Gone = {}
  <2>1. ASSUME NEW i \in 1 .. n PROVE <<a, i>> \notin StagedPieces(next)
    BY <1>1, PieceStaged
  <2> QED
    BY <2>1
<1> HIDE DEF Gone
<1>5. /\ Cardinality(StagedPieces(dir)) =
           Cardinality(StagedPieces(next)) + Cardinality(Gone) - Cardinality({})
      /\ Cardinality({}) = 0
  <2>1. IsFiniteSet(StagedPieces(next))
    BY StagedRange
  <2>2. Cardinality(StagedPieces(next) \cup Gone) =
          Cardinality(StagedPieces(next)) + Cardinality(Gone)
            - Cardinality(StagedPieces(next) \cap Gone)
    BY <1>2, <2>1, FS_Union, Zenon
  <2> QED
    BY <1>3, <1>4, <2>2, FS_EmptySet, Zenon
<1> QED
  BY <1>1, <1>2, <1>5, StagedRange

-----------------------------------------------------------------------------
LEMMA EmptyDirectory ==
    ASSUME Files!RegistryAssumption
    PROVE  /\ Files!Empty \in Directory /\ Files!Empty.doc = 0 /\ Files!Empty.manifest = 0
           /\ \A a \in 1 .. Assets : Files!Empty.files[a] = <<>>
<1>1. <<>> \in File
  BY DEF File, Files!RegistryAssumption
<1> QED
  BY <1>1 DEF Files!Empty, Directory, Files!RegistryAssumption

Cleared(dir, a) == [dir EXCEPT !.files[a] = <<>>]
LEMMA ClearedDirectory ==
    ASSUME NEW dir \in Directory, NEW a \in 1 .. Assets, NEW next, Files!RegistryAssumption,
           next = Cleared(dir, a)
    PROVE  /\ next \in Directory /\ next.doc = dir.doc /\ next.manifest = dir.manifest
           /\ Len(next.files[a]) = 0
           /\ \A b \in 1 .. Assets : b # a => next.files[b] = dir.files[b]
<1>1. <<>> \in File /\ Len(<<>>) = 0
  BY DEF File, Files!RegistryAssumption
<1>2. next.files = [dir.files EXCEPT ![a] = <<>>]
  BY DEF Directory, Cleared
<1>3. next.files[a] = <<>> /\ \A b \in 1 .. Assets : b # a => next.files[b] = dir.files[b]
  BY <1>2 DEF Directory
<1>4. next \in Directory /\ next.doc = dir.doc /\ next.manifest = dir.manifest
  BY <1>1 DEF Directory, Cleared
<1> QED
  BY <1>1, <1>3, <1>4

Appended(dir, a, piece) == [dir EXCEPT !.files[a] = Append(@, piece)]
LEMMA AppendedDirectory ==
    ASSUME NEW dir \in Directory, NEW a \in 1 .. Assets, NEW next, Files!RegistryAssumption,
           NEW piece \in 0 .. MaxPlan, Len(dir.files[a]) < Pieces,
           next = Appended(dir, a, piece)
    PROVE  /\ next \in Directory /\ next.doc = dir.doc /\ next.manifest = dir.manifest
           /\ Len(dir.files[a]) \in Nat /\ Len(next.files[a]) = Len(dir.files[a]) + 1
           /\ \A i \in 1 .. Len(next.files[a]) :
                next.files[a][i] = piece \/ (i <= Len(dir.files[a]) /\ next.files[a][i] = dir.files[a][i])
           /\ \A b \in 1 .. Assets : b # a => next.files[b] = dir.files[b]
<1> DEFINE f == dir.files[a]
<1>1. f \in Seq(0 .. MaxPlan) /\ Len(f) \in Nat
  <2>1. f \in File
    BY DEF Directory
  <2> QED
    BY <2>1 DEF File
<1>2. /\ Append(f, piece) \in File /\ Len(Append(f, piece)) = Len(f) + 1
      /\ \A i \in 1 .. Len(f) : Append(f, piece)[i] = f[i]
      /\ Append(f, piece)[Len(f) + 1] = piece
  BY <1>1 DEF File, Files!RegistryAssumption
<1>3. next.files = [dir.files EXCEPT ![a] = Append(f, piece)]
  BY DEF Directory, Appended
<1>4. next.files[a] = Append(f, piece)
  BY <1>3 DEF Directory
<1>5. next \in Directory /\ next.doc = dir.doc /\ next.manifest = dir.manifest
  BY <1>2 DEF Directory, Appended
<1>6. \A b \in 1 .. Assets : b # a => next.files[b] = dir.files[b]
  BY <1>3 DEF Directory
<1> QED
  BY <1>1, <1>2, <1>4, <1>5, <1>6

\* A file in which every piece comes from one plan is whole.
LEMMA WholeFile ==
    ASSUME Files!RegistryAssumption, NEW f \in File, NEW p, Len(f) = Pieces,
           \A i \in 1 .. Len(f) : f[i] = p
    PROVE  Files!Whole(f, p)
<1>1. f \in Seq(0 .. MaxPlan)
  BY DEF File
<1>2. f = [i \in 1 .. Pieces |-> p]
  BY <1>1
<1> QED
  BY <1>2 DEF Files!Whole

\* What a download accepts is whole.
LEMMA AcceptedIsWhole ==
    ASSUME Files!RegistryAssumption, RegistryIInv, op.phase \in Transfer,
           NEW a \in 1 .. Assets, Len(staging.files[a]) = Pieces, Files!Accepted(a, op.plan)
    PROVE  Files!Whole(staging.files[a], op.plan)
<1>1. staging.files[a] \in File
  BY DEF RegistryIInv, RegistryTypeOK, Directory
<1>2. CASE a \in Pinned
  BY <1>2 DEF Files!Accepted
<1>3. CASE a \notin Pinned
  <2>1. \A i \in 1 .. Len(staging.files[a]) : staging.files[a][i] = op.plan
    BY <1>3 DEF RegistryIInv, StagingOK, TransferOK
  <2> QED
    BY <1>1, <2>1, WholeFile
<1> QED
  BY <1>2, <1>3

LEMMA StagingTyped ==
    ASSUME Files!RegistryAssumption, RegistryIInv, NEW a \in 1 .. Assets
    PROVE  staging.files[a] \in File /\ Len(staging.files[a]) \in 0 .. Pieces
<1>1. staging.files[a] \in File
  BY DEF RegistryIInv, RegistryTypeOK, Directory
<1>2. staging.files[a] \in Seq(0 .. MaxPlan) /\ Len(staging.files[a]) <= Pieces
  BY <1>1 DEF File
<1> QED
  BY <1>1, <1>2 DEF Files!RegistryAssumption

\* StagingOK after a file of the staging directory was thrown away.
LEMMA ResetFacts ==
    ASSUME Files!RegistryAssumption, RegistryIInv, NEW a \in 1 .. Assets,
           staging' = [staging EXCEPT !.files[a] = <<>>]
    PROVE  /\ staging' \in Directory /\ StagingOK'
           /\ staging'.doc = staging.doc /\ staging'.manifest = staging.manifest
           /\ \A b \in 1 .. Assets : b # a => staging'.files[b] = staging.files[b]
           /\ Files!Staged(staging) - Len(staging.files[a]) = Files!Staged(staging')
           /\ Files!Staged(staging') \in 0 .. Files!Total
<1>1. PICK dir \in Directory : dir = staging
  BY DEF RegistryIInv, RegistryTypeOK
<1>2. PICK next : next = Cleared(dir, a)
  OBVIOUS
<1>3. /\ next \in Directory /\ next.doc = dir.doc /\ next.manifest = dir.manifest
      /\ Len(next.files[a]) = 0
      /\ \A b \in 1 .. Assets : b # a => next.files[b] = dir.files[b]
  BY <1>2, ClearedDirectory
<1>4. Len(dir.files[a]) \in Nat /\ Len(dir.files[a]) <= Pieces
  BY <1>1, StagingTyped DEF Files!RegistryAssumption
<1>5. Files!Staged(dir) - Len(dir.files[a]) = Files!Staged(next) /\ Files!Staged(next) \in 0 .. Files!Total
  BY <1>3, <1>4, StagedCleared, StagedRange
<1>6. staging' = next
  BY <1>1, <1>2 DEF Cleared
<1>7. StagingOK'
  BY <1>1, <1>3, <1>6 DEF RegistryIInv, StagingOK
<1> QED
  BY <1>1, <1>3, <1>5, <1>6, <1>7

\* And after a piece was added to one.
LEMMA AppendFacts ==
    ASSUME Files!RegistryAssumption, RegistryIInv, NEW a \in 1 .. Assets,
           NEW piece \in 0 .. MaxPlan, Len(staging.files[a]) < Pieces,
           piece = staging.doc \/ (piece = 0 /\ a \in Pinned),
           staging' = [staging EXCEPT !.files[a] = Append(@, piece)]
    PROVE  /\ staging' \in Directory /\ StagingOK'
           /\ staging'.doc = staging.doc /\ staging'.manifest = staging.manifest
           /\ \A b \in 1 .. Assets : b # a => staging'.files[b] = staging.files[b]
           /\ Files!Staged(staging) + 1 = Files!Staged(staging')
           /\ Files!Staged(staging') \in 0 .. Files!Total
<1>1. PICK dir \in Directory : dir = staging
  BY DEF RegistryIInv, RegistryTypeOK
<1>2. PICK next : next = Appended(dir, a, piece)
  OBVIOUS
<1>3. /\ next \in Directory /\ next.doc = dir.doc /\ next.manifest = dir.manifest
      /\ Len(dir.files[a]) \in Nat /\ Len(next.files[a]) = Len(dir.files[a]) + 1
      /\ \A i \in 1 .. Len(next.files[a]) :
           next.files[a][i] = piece \/ (i <= Len(dir.files[a]) /\ next.files[a][i] = dir.files[a][i])
      /\ \A b \in 1 .. Assets : b # a => next.files[b] = dir.files[b]
  BY <1>1, <1>2, AppendedDirectory
<1>4. Files!Staged(dir) + 1 = Files!Staged(next) /\ Files!Staged(next) \in 0 .. Files!Total
  BY <1>1, <1>3, StagedAppended, StagedRange
<1>5. staging' = next
  BY <1>1, <1>2 DEF Appended
<1>6. ASSUME NEW b \in 1 .. Assets, NEW i \in 1 .. Len(next.files[b])
      PROVE  next.files[b][i] = next.doc \/ (b \in Pinned /\ next.files[b][i] = 0)
  <2>1. \A j \in 1 .. Len(dir.files[b]) :
           dir.files[b][j] = dir.doc \/ (b \in Pinned /\ dir.files[b][j] = 0)
    BY <1>1 DEF RegistryIInv, StagingOK
  <2>2. CASE b # a
    BY <1>3, <1>6, <2>1, <2>2
  <2>3. CASE b = a
    <3>1. i \in 1 .. Len(next.files[a])
      BY <1>6, <2>3
    <3>2. next.files[a][i] = piece
            \/ (i <= Len(dir.files[a]) /\ next.files[a][i] = dir.files[a][i])
      BY <1>3, <3>1
    <3>3. CASE next.files[a][i] = piece
      BY <1>1, <1>3, <2>3, <3>3
    <3>4. CASE i <= Len(dir.files[a]) /\ next.files[a][i] = dir.files[a][i]
      <4>1. i \in 1 .. Len(dir.files[a])
        BY <1>3, <3>1, <3>4
      <4> QED
        BY <1>3, <2>1, <2>3, <3>4, <4>1
    <3> QED
      BY <3>2, <3>3, <3>4
  <2> QED
    BY <2>2, <2>3
<1>7. StagingOK'
  BY <1>5, <1>6 DEF StagingOK
<1> QED
  BY <1>1, <1>3, <1>4, <1>5, <1>7

-----------------------------------------------------------------------------
\* Each action keeps the invariant.
LEMMA RecordEnds ==
    ASSUME Files!RegistryAssumption, NEW r \in Record, NEW s \in Status
    PROVE  [r EXCEPT !.status = s, !.manifest = 0] \in Record
<1>1. 0 \in 0 .. MaxPlan
  BY DEF Files!RegistryAssumption
<1> DEFINE q == [r EXCEPT !.status = s]
<1>2. q \in Record
  BY DEF Record
<1> HIDE DEF q
<1>3. [q EXCEPT !.manifest = 0] \in Record
  BY <1>1, <1>2 DEF Record
<1> QED
  BY <1>3 DEF q

LEMMA InstallStep ==
    ASSUME Files!RegistryAssumption, RegistryIInv, Files!Install
    PROVE  RegistryIInv'
<1>1. RegistryTypeOK'
  <2>1. Files!Empty \in Directory /\ Files!Empty.doc = 0
    BY EmptyDirectory
  <2>2. Files!Resumed(plan) \in Directory
    BY <2>1 DEF Files!Resumed, RegistryIInv, RegistryTypeOK, Directory
  <2>3. plan \in 0 .. MaxPlan /\ 1 \in 1 .. Assets
    BY DEF RegistryIInv, RegistryTypeOK, Files!RegistryAssumption
  <2>4. op' = [phase |-> "preparing", plan |-> plan, asset |-> 1, cancelled |-> FALSE]
    BY DEF Files!Install, Files!NoOp
  <2>5. op' \in [phase : Phase, plan : 0 .. MaxPlan, asset : 1 .. Assets, cancelled : BOOLEAN]
    BY <2>3, <2>4 DEF Phase
  <2> QED
    BY <2>1, <2>2, <2>5 DEF Files!Install, RegistryIInv, RegistryTypeOK
<1>2. StagingOK'
  BY EmptyDirectory DEF Files!Install, Files!Resumed, RegistryIInv, RegistryTypeOK, StagingOK, Directory
<1>3. TransferOK'
  BY DEF Files!Install, Files!NoOp, Files!Resumed, RegistryIInv, RegistryTypeOK, Phase, TransferOK, RecordsOK, Transfer, Past
<1>4. RecordsOK'
  BY EmptyDirectory DEF Files!Install, Files!Resumed, Files!NoOp, RegistryIInv, RegistryTypeOK, RecordsOK, Directory, Files!NoRec
<1>5. FinalOK'
  BY DEF Files!Install, Files!NoOp, Files!Resumed, RegistryIInv, RegistryTypeOK, RecordsOK, FinalOK
<1> QED
  BY <1>1, <1>2, <1>3, <1>4, <1>5 DEF RegistryIInv

LEMMA StartedStep ==
    ASSUME Files!RegistryAssumption, RegistryIInv, Files!Started
    PROVE  RegistryIInv'
<1>1. Files!Staged(staging) \in 0 .. Files!Total
  BY StagedRange
<1>2. CASE /\ rec' = [status |-> "downloading", bytes |-> Files!Staged(staging), manifest |-> 0]
           /\ recorded' = rec' /\ op' = [op EXCEPT !.phase = "open"] /\ UNCHANGED fileFaults
  <2>1. RegistryTypeOK'
    <3>1. rec' \in Record /\ recorded' \in Record
      BY <1>1, <1>2 DEF Record, Status, Files!RegistryAssumption
    <3> QED
      BY <1>2, <3>1 DEF Files!Started, RegistryIInv, RegistryTypeOK, Phase
  <2>2. StagingOK'
    BY DEF Files!Started, RegistryIInv, StagingOK
  <2>3. TransferOK'
    BY <1>2 DEF Files!Started, RegistryIInv, RegistryTypeOK, TransferOK, RecordsOK, Past
  <2>4. RecordsOK'
    BY <1>2 DEF Files!Started, RegistryIInv, RegistryTypeOK, RecordsOK, Files!NoRec
  <2>5. FinalOK'
    BY <1>2 DEF Files!Started, RegistryIInv, RegistryTypeOK, FinalOK
  <2> QED
    BY <2>1, <2>2, <2>3, <2>4, <2>5 DEF RegistryIInv
<1>3. CASE Files!Fault /\ rec' = [rec EXCEPT !.manifest = 0] /\ UNCHANGED recorded /\ op' = Files!NoOp
  <2>1. RegistryTypeOK'
    BY <1>3 DEF Files!Started, Files!Fault, Files!NoOp, RegistryIInv, RegistryTypeOK, Record, Status, Phase, Files!RegistryAssumption
  <2>2. StagingOK'
    BY DEF Files!Started, RegistryIInv, StagingOK
  <2>3. TransferOK'
    BY <1>3 DEF TransferOK, Transfer, Files!NoOp
  <2>4. rec'.status = rec.status /\ rec.status \notin {"ready", "downloading"} /\ rec' = [rec EXCEPT !.manifest = 0]
    BY <1>3 DEF Files!Started, RegistryIInv, RegistryTypeOK, Record, RecordsOK
  <2>5. RecordsOK'
    BY <1>3, <2>4 DEF Files!Started, Files!NoOp, RegistryIInv, RegistryTypeOK, RecordsOK
  <2>6. FinalOK'
    BY <1>3, <2>4 DEF Files!Started, Files!NoOp, FinalOK
  <2> QED
    BY <2>1, <2>2, <2>3, <2>5, <2>6 DEF RegistryIInv
<1> QED
  BY <1>2, <1>3 DEF Files!Started

LEMMA PauseStep ==
    ASSUME Files!RegistryAssumption, RegistryIInv, Files!Pause
    PROVE  RegistryIInv'
<1>1. RegistryTypeOK'
  BY DEF Files!Pause, RegistryIInv, RegistryTypeOK, Record, Status, Phase, Files!RegistryAssumption
<1>2. StagingOK'
  BY DEF Files!Pause, RegistryIInv, StagingOK
<1>3. TransferOK'
  BY DEF Files!Pause, RegistryIInv, RegistryTypeOK, Phase, TransferOK, RecordsOK, Transfer, Past
<1>4. RecordsOK'
  BY DEF Files!Pause, RegistryIInv, RegistryTypeOK, Record, Status, Phase, RecordsOK, Files!NoRec
<1>5. FinalOK'
  BY DEF Files!Pause, RegistryIInv, RegistryTypeOK, RecordsOK, FinalOK
<1> QED
  BY <1>1, <1>2, <1>3, <1>4, <1>5 DEF RegistryIInv

LEMMA DeleteBeginStep ==
    ASSUME Files!RegistryAssumption, RegistryIInv, Files!DeleteBegin
    PROVE  RegistryIInv'
<1>1. RegistryTypeOK'
  BY DEF Files!DeleteBegin, RegistryIInv, RegistryTypeOK, Record, Status, Phase, Files!RegistryAssumption
<1>2. StagingOK'
  BY DEF Files!DeleteBegin, RegistryIInv, StagingOK
<1>3. TransferOK'
  BY DEF Files!DeleteBegin, RegistryIInv, RegistryTypeOK, Phase, TransferOK, RecordsOK, Transfer, Past
<1>4. RecordsOK'
  BY DEF Files!DeleteBegin, RegistryIInv, RegistryTypeOK, Record, Status, Phase, RecordsOK, Files!NoRec
<1>5. FinalOK'
  BY DEF Files!DeleteBegin, RegistryIInv, RegistryTypeOK, RecordsOK, FinalOK
<1> QED
  BY <1>1, <1>2, <1>3, <1>4, <1>5 DEF RegistryIInv

LEMMA DeleteInvalidateStep ==
    ASSUME Files!RegistryAssumption, RegistryIInv, Files!DeleteInvalidate
    PROVE  RegistryIInv'
<1>1. RegistryTypeOK'
  <2>1. rec' \in Record
    BY RecordEnds DEF Files!DeleteInvalidate, RegistryIInv, RegistryTypeOK, Status
  <2> QED
    BY <2>1 DEF Files!DeleteInvalidate, RegistryIInv, RegistryTypeOK
<1>2. StagingOK'
  BY DEF Files!DeleteInvalidate, RegistryIInv, StagingOK
<1>3. TransferOK'
  BY DEF Files!DeleteInvalidate, RegistryIInv, RegistryTypeOK, Phase, TransferOK, RecordsOK, Transfer, Past
<1>4. RecordsOK'
  BY DEF Files!DeleteInvalidate, RegistryIInv, RegistryTypeOK, Record, Status, Phase, RecordsOK, Files!NoRec
<1>5. FinalOK'
  BY DEF Files!DeleteInvalidate, RegistryIInv, RegistryTypeOK, RecordsOK, FinalOK
<1> QED
  BY <1>1, <1>2, <1>3, <1>4, <1>5 DEF RegistryIInv

LEMMA DeleteRecordStep ==
    ASSUME Files!RegistryAssumption, RegistryIInv, Files!DeleteRecord
    PROVE  RegistryIInv'
<1>1. RegistryTypeOK'
  <2>1. Files!Total \in Nat
    BY StagedRange
  <2> QED
    BY <2>1 DEF Files!DeleteRecord, Files!NoRec, RegistryIInv, RegistryTypeOK, Record, Status, Files!RegistryAssumption
<1>2. StagingOK'
  BY DEF Files!DeleteRecord, Files!NoRec, RegistryIInv, StagingOK
<1>3. TransferOK'
  BY DEF Files!DeleteRecord, Files!NoRec, RegistryIInv, RegistryTypeOK, Phase, TransferOK, RecordsOK, Transfer, Past
<1>4. RecordsOK'
  BY DEF Files!DeleteRecord, Files!NoRec, RegistryIInv, RegistryTypeOK, Record, Status, Phase, RecordsOK, Files!NoRec
<1>5. FinalOK'
  BY DEF Files!DeleteRecord, Files!NoRec, RegistryIInv, RegistryTypeOK, RecordsOK, FinalOK
<1> QED
  BY <1>1, <1>2, <1>3, <1>4, <1>5 DEF RegistryIInv

LEMMA DeleteFailsStep ==
    ASSUME Files!RegistryAssumption, RegistryIInv, Files!DeleteFails
    PROVE  RegistryIInv'
<1>1. RegistryTypeOK'
  BY DEF Files!DeleteFails, Files!Fault, RegistryIInv, RegistryTypeOK, Record, Status, Phase, Files!RegistryAssumption
<1>2. StagingOK'
  BY DEF Files!DeleteFails, Files!Fault, RegistryIInv, StagingOK
<1>3. TransferOK'
  BY DEF Files!DeleteFails, Files!Fault, RegistryIInv, RegistryTypeOK, Phase, TransferOK, RecordsOK, Transfer, Past
<1>4. RecordsOK'
  BY DEF Files!DeleteFails, Files!Fault, RegistryIInv, RegistryTypeOK, Record, Status, Phase, RecordsOK, Files!NoRec
<1>5. FinalOK'
  BY DEF Files!DeleteFails, Files!Fault, RegistryIInv, RegistryTypeOK, RecordsOK, FinalOK
<1> QED
  BY <1>1, <1>2, <1>3, <1>4, <1>5 DEF RegistryIInv

LEMMA DeleteFilesStep ==
    ASSUME Files!RegistryAssumption, RegistryIInv, Files!DeleteFiles
    PROVE  RegistryIInv'
<1>1. RegistryTypeOK'
  BY EmptyDirectory DEF Files!DeleteFiles, RegistryIInv, RegistryTypeOK, Record, Status, Phase, Files!RegistryAssumption
<1>2. StagingOK'
  BY EmptyDirectory DEF Files!DeleteFiles, RegistryIInv, StagingOK
<1>3. TransferOK'
  BY EmptyDirectory DEF Files!DeleteFiles, RegistryIInv, RegistryTypeOK, Phase, TransferOK, RecordsOK, Transfer, Past
<1>4. RecordsOK'
  BY EmptyDirectory DEF Files!DeleteFiles, RegistryIInv, RegistryTypeOK, Record, Status, Phase, RecordsOK, Files!NoRec
<1>5. FinalOK'
  BY EmptyDirectory DEF Files!DeleteFiles, RegistryIInv, RegistryTypeOK, RecordsOK, FinalOK
<1> QED
  BY <1>1, <1>2, <1>3, <1>4, <1>5 DEF RegistryIInv

LEMMA DeleteEntriesStep ==
    ASSUME Files!RegistryAssumption, RegistryIInv, Files!DeleteEntries
    PROVE  RegistryIInv'
<1>1. RegistryTypeOK'
  <2>1. <<>> \in File
    BY DEF File, Files!RegistryAssumption
  <2>2. 0 \in 0 .. MaxPlan /\ final \in Directory
    BY DEF Files!RegistryAssumption, RegistryIInv, RegistryTypeOK
  <2>3. PICK manifest \in {0, final.manifest}, kept \in SUBSET (1 .. Assets) :
          final' = Files!Torn(final, manifest, kept)
    BY DEF Files!DeleteEntries
  <2>4. [a \in 1 .. Assets |-> IF a \in kept THEN final.files[a] ELSE <<>>] \in [1 .. Assets -> File]
    BY <2>1, <2>2 DEF Directory
  <2>5. manifest \in 0 .. MaxPlan
    BY <2>2 DEF Directory
  <2>6. final' \in Directory
    BY <2>2, <2>3, <2>4, <2>5 DEF Files!Torn, Directory
  <2> QED
    BY <2>6 DEF Files!DeleteEntries, RegistryIInv, RegistryTypeOK
<1>2. StagingOK'
  BY DEF Files!DeleteEntries, RegistryIInv, StagingOK
<1>3. TransferOK'
  BY DEF Files!DeleteEntries, RegistryIInv, RegistryTypeOK, Phase, TransferOK, RecordsOK, Transfer, Past
<1>4. RecordsOK'
  BY DEF Files!DeleteEntries, RegistryIInv, RegistryTypeOK, Record, Status, Phase, RecordsOK, Files!NoRec
<1>5. FinalOK'
  BY DEF Files!DeleteEntries, RegistryIInv, RegistryTypeOK, RecordsOK, FinalOK
<1> QED
  BY <1>1, <1>2, <1>3, <1>4, <1>5 DEF RegistryIInv

LEMMA NoOpTyped ==
    ASSUME Files!RegistryAssumption
    PROVE  Files!NoOp \in [phase : Phase, plan : 0 .. MaxPlan, asset : 1 .. Assets, cancelled : BOOLEAN]
BY DEF Files!NoOp, Phase, Files!RegistryAssumption

\* A download that ends without having published.
LEMMA EndsKeeps ==
    ASSUME Files!RegistryAssumption, RegistryIInv, op.phase \in Transfer,
           NEW status \in {"paused", "error"}, Files!Ends(status),
           staging' \in Directory, StagingOK',
           UNCHANGED <<plan, final, del, fileCrashes>>
    PROVE  RegistryIInv'
<1>1. rec' \in Record /\ rec'.status = status
  <2>1. status \in Status /\ rec \in Record
    BY DEF Status, RegistryIInv, RegistryTypeOK
  <2>2. rec' \in Record
    BY <2>1, RecordEnds DEF Files!Ends
  <2> QED
    BY <2>1, <2>2 DEF Files!Ends, Record
<1>2. recorded' \in {recorded, rec'} /\ fileFaults' \in Nat /\ op' = Files!NoOp
  BY DEF Files!Ends, Files!Fault, RegistryIInv, RegistryTypeOK
<1>3. op'.phase = "idle" /\ op.phase \notin {"idle", "preparing"}
  BY <1>2 DEF Files!NoOp, Transfer
<1>4. RegistryTypeOK'
  BY <1>1, <1>2, NoOpTyped DEF RegistryIInv, RegistryTypeOK
<1>5. TransferOK'
  BY <1>3 DEF TransferOK, Transfer
<1>6. RecordsOK'
  BY <1>1, <1>2, <1>3 DEF RegistryIInv, RecordsOK
<1>7. FinalOK'
  BY <1>1, <1>3 DEF FinalOK
<1> QED
  BY <1>4, <1>5, <1>6, <1>7 DEF RegistryIInv

LEMMA FailedKeeps ==
    ASSUME Files!RegistryAssumption, RegistryIInv, op.phase \in Transfer, Files!Failed,
           staging' \in Directory, StagingOK', UNCHANGED <<plan, final, del, fileCrashes>>
    PROVE  RegistryIInv'
<1>1. PICK status \in {"paused", "error"} : Files!Ends(status)
  BY DEF Files!Failed
<1> QED
  BY <1>1, EndsKeeps

LEMMA InterruptedStep ==
    ASSUME Files!RegistryAssumption, RegistryIInv, Files!Interrupted
    PROVE  RegistryIInv'
<1>1. op.phase \in Transfer /\ staging' \in Directory /\ StagingOK'
  BY DEF Files!Interrupted, Transfer, RegistryIInv, RegistryTypeOK, StagingOK
<1>2. UNCHANGED <<plan, final, del, fileCrashes>>
  BY DEF Files!Interrupted
<1>3. CASE Files!Failed
  BY <1>1, <1>2, <1>3, FailedKeeps
<1>4. CASE Files!Fault /\ op' = [op EXCEPT !.phase = "open"] /\ UNCHANGED <<rec, recorded>>
  <2>1. RegistryTypeOK'
    BY <1>4 DEF Files!Interrupted, Files!Fault, RegistryIInv, RegistryTypeOK, Phase
  <2>2. TransferOK'
    BY <1>4 DEF Files!Interrupted, RegistryIInv, RegistryTypeOK, TransferOK, Transfer, Past
  <2>3. RecordsOK'
    BY <1>4 DEF Files!Interrupted, RegistryIInv, RegistryTypeOK, RecordsOK
  <2>4. FinalOK'
    BY <1>4 DEF Files!Interrupted, RegistryIInv, RegistryTypeOK, FinalOK
  <2> QED
    BY <1>1, <2>1, <2>2, <2>3, <2>4 DEF RegistryIInv
<1>5. CASE Files!Fault /\ rec' = [rec EXCEPT !.status = "error", !.manifest = 0] /\ recorded' = rec' /\ op' = Files!NoOp
  <2>1. rec' \in Record /\ rec'.status = "error"
    <3>1. rec' \in Record
      BY <1>5, RecordEnds DEF Status, RegistryIInv, RegistryTypeOK
    <3> QED
      BY <1>5, <3>1 DEF RegistryIInv, RegistryTypeOK, Record
  <2>2. op'.phase = "idle" /\ op.phase \notin {"idle", "preparing"}
    BY <1>1, <1>5 DEF Files!NoOp, Transfer
  <2>3. RegistryTypeOK'
    BY <1>1, <1>2, <1>5, <2>1, NoOpTyped DEF Files!Fault, RegistryIInv, RegistryTypeOK
  <2>4. TransferOK'
    BY <2>2 DEF TransferOK, Transfer
  <2>5. RecordsOK'
    BY <1>2, <1>5, <2>1, <2>2 DEF RegistryIInv, RecordsOK
  <2>6. FinalOK'
    BY <2>1, <2>2 DEF FinalOK
  <2> QED
    BY <1>1, <2>3, <2>4, <2>5, <2>6 DEF RegistryIInv
<1> QED
  BY <1>3, <1>4, <1>5 DEF Files!Interrupted

LEMMA VerifyStep ==
    ASSUME Files!RegistryAssumption, RegistryIInv, Files!Verify
    PROVE  RegistryIInv'
<1>1. op.phase \in Transfer /\ op.phase = "verify" /\ UNCHANGED <<plan, final, del, fileCrashes>>
  BY DEF Files!Verify, Transfer
<1>2. op.plan \in 0 .. MaxPlan /\ staging \in Directory
  BY DEF RegistryIInv, RegistryTypeOK
<1>3. \A dir : dir = [staging EXCEPT !.manifest = op.plan] =>
        dir \in Directory /\ dir.doc = staging.doc /\ dir.files = staging.files /\ dir.manifest = op.plan
  BY <1>2 DEF Directory
<1>4. staging' \in Directory /\ staging'.doc = staging.doc /\ staging'.files = staging.files
  BY <1>2, <1>3 DEF Files!Verify
<1>5. StagingOK'
  BY <1>4 DEF RegistryIInv, StagingOK
<1>6. CASE Files!Failed
  BY <1>1, <1>4, <1>5, <1>6, FailedKeeps
<1>7. CASE /\ staging' = [staging EXCEPT !.manifest = op.plan]
           /\ op' = [op EXCEPT !.phase = "publish"] /\ UNCHANGED <<rec, recorded, fileFaults>>
  <2>1. RegistryTypeOK'
    BY <1>1, <1>4, <1>7 DEF RegistryIInv, RegistryTypeOK, Phase
  <2>2. op'.phase = "publish" /\ op'.plan = op.plan
    BY <1>7 DEF RegistryIInv, RegistryTypeOK
  <2>3. Files!Staged(staging') = Files!Staged(staging)
    BY <1>4 DEF Files!Staged
  <2>4. TransferOK'
    BY <1>1, <1>3, <1>4, <1>7, <2>2, <2>3 DEF RegistryIInv, TransferOK, Past
  <2>5. RecordsOK'
    BY <1>1, <1>7, <2>2 DEF RegistryIInv, RecordsOK
  <2>6. FinalOK'
    BY <1>1, <1>7, <2>2 DEF RegistryIInv, FinalOK
  <2> QED
    BY <1>5, <2>1, <2>4, <2>5, <2>6 DEF RegistryIInv
<1> QED
  BY <1>6, <1>7 DEF Files!Verify

LEMMA PublishStep ==
    ASSUME Files!RegistryAssumption, RegistryIInv, Files!Publish
    PROVE  RegistryIInv'
<1>1. op.phase = "publish" /\ op.phase \in Transfer /\ UNCHANGED <<plan, del, fileCrashes>>
  BY DEF Files!Publish, Transfer
<1>2. CASE op.cancelled
  <2>1. Files!Failed /\ UNCHANGED <<staging, final>>
    BY <1>2 DEF Files!Publish
  <2>2. staging' \in Directory /\ StagingOK'
    BY <2>1 DEF RegistryIInv, RegistryTypeOK, StagingOK
  <2> QED
    BY <1>1, <2>1, <2>2, FailedKeeps
<1>3. CASE ~op.cancelled
  <2>1. /\ final' = staging /\ staging' = Files!Empty
        /\ op' = [op EXCEPT !.phase = "published"] /\ UNCHANGED <<rec, recorded, fileFaults>>
    BY <1>3 DEF Files!Publish
  <2>2. RegistryTypeOK'
    BY <1>1, <2>1, EmptyDirectory DEF RegistryIInv, RegistryTypeOK, Phase
  <2>3. op'.phase = "published"
    BY <2>1 DEF RegistryIInv, RegistryTypeOK
  <2>4. StagingOK'
    BY <2>1, EmptyDirectory DEF StagingOK
  <2>5. TransferOK'
    BY <2>3 DEF TransferOK, Transfer
  <2>6. RecordsOK'
    BY <1>1, <2>1, <2>3 DEF RegistryIInv, RecordsOK
  <2>7. FinalOK'
    <3>1. HoldsPlan(staging, staging.manifest)
      BY <1>1 DEF RegistryIInv, TransferOK, Past, HoldsPlan
    <3>2. rec'.status # "ready"
      BY <1>1, <2>1 DEF RegistryIInv, RecordsOK
    <3> QED
      BY <2>1, <3>1, <3>2 DEF FinalOK
  <2> QED
    BY <2>2, <2>4, <2>5, <2>6, <2>7 DEF RegistryIInv
<1> QED
  BY <1>2, <1>3

LEMMA FinishReadyStep ==
    ASSUME Files!RegistryAssumption, RegistryIInv, Files!FinishReady
    PROVE  RegistryIInv'
<1>1. /\ op.phase = "published" /\ op' = Files!NoOp /\ final' = [final EXCEPT !.doc = 0]
      /\ UNCHANGED <<plan, staging, del, fileCrashes>>
  BY DEF Files!FinishReady
<1>2. op'.phase = "idle"
  BY <1>1 DEF Files!NoOp
<1>3. final \in Directory /\ HoldsPlan(final, final.manifest) /\ final.manifest \in 1 .. MaxPlan
  BY <1>1 DEF RegistryIInv, RegistryTypeOK, FinalOK, HoldsPlan
<1>4. final' \in Directory /\ final'.manifest = final.manifest /\ final'.files = final.files
  BY <1>1, <1>3 DEF Directory, Files!RegistryAssumption
<1>5. /\ rec' \in Record /\ recorded' \in {rec', recorded} /\ fileFaults' \in Nat
      /\ \/ rec'.status = "ready" /\ rec'.manifest = final.manifest /\ recorded' = rec'
         \/ rec'.status = "error"
  <2>1. Files!Total \in 0 .. Files!Total /\ 0 \in 0 .. MaxPlan /\ final.manifest \in 0 .. MaxPlan
    BY <1>3, StagedRange DEF Files!RegistryAssumption
  <2> DEFINE done == [status |-> "ready", bytes |-> Files!Total, manifest |-> final.manifest]
             undone == [status |-> "error", bytes |-> Files!Total, manifest |-> 0]
  <2>2. /\ done \in Record /\ done.status = "ready" /\ done.manifest = final.manifest
        /\ undone \in Record /\ undone.status = "error"
    BY <2>1 DEF Record, Status
  <2>3. \/ rec' = done /\ recorded' = done /\ UNCHANGED fileFaults
        \/ Files!Fault /\ rec' = undone /\ recorded' = undone
        \/ fileFaults' = fileFaults + 2 /\ rec' = undone /\ UNCHANGED recorded
    BY DEF Files!FinishReady
  <2>4. fileFaults' \in Nat
    BY <2>3 DEF Files!Fault, RegistryIInv, RegistryTypeOK
  <2> HIDE DEF done, undone
  <2> QED
    BY <2>2, <2>3, <2>4
<1>6. recorded.status # "ready"
  BY <1>1 DEF RegistryIInv, RecordsOK
<1>7. RegistryTypeOK'
  BY <1>1, <1>4, <1>5, NoOpTyped DEF RegistryIInv, RegistryTypeOK
<1>8. StagingOK' /\ TransferOK'
  BY <1>1, <1>2 DEF RegistryIInv, StagingOK, TransferOK, Transfer
<1>9. RecordsOK'
  BY <1>1, <1>2, <1>5, <1>6 DEF RegistryIInv, RecordsOK
<1>10. FinalOK'
  BY <1>2, <1>3, <1>4, <1>5 DEF FinalOK, HoldsPlan
<1> QED
  BY <1>7, <1>8, <1>9, <1>10 DEF RegistryIInv

\* NextAsset, over an asset that is whole, leaves whole assets behind.
LEMMA NextAssetFacts ==
    ASSUME Files!RegistryAssumption, RegistryIInv, op.phase \in {"open", "body"},
           Files!Whole(staging.files[op.asset], op.plan), op' = Files!NextAsset
    PROVE  /\ op' \in [phase : Phase, plan : 0 .. MaxPlan, asset : 1 .. Assets, cancelled : BOOLEAN]
           /\ op'.phase \in {"open", "verify"} /\ op'.plan = op.plan
           /\ \A a \in Past' : Files!Whole(staging.files[a], op.plan)
<1>1. /\ op \in [phase : Phase, plan : 0 .. MaxPlan, asset : 1 .. Assets, cancelled : BOOLEAN]
      /\ op.asset \in 1 .. Assets /\ Assets \in Nat
  BY DEF RegistryIInv, RegistryTypeOK, Files!RegistryAssumption
<1>2. \A a \in 1 .. op.asset : Files!Whole(staging.files[a], op.plan)
  <2>1. \A a \in 1 .. op.asset - 1 : Files!Whole(staging.files[a], op.plan)
    BY DEF RegistryIInv, TransferOK, Transfer, Past
  <2> QED
    BY <1>1, <2>1
<1>3. CASE op.asset = Assets
  <2>1. op' = [op EXCEPT !.phase = "verify"]
    BY <1>3 DEF Files!NextAsset
  <2>2. op'.phase = "verify" /\ op'.plan = op.plan
    BY <1>1, <2>1
  <2>3. Past' = 1 .. Assets
    BY <2>2 DEF Past
  <2> QED
    BY <1>1, <1>2, <1>3, <2>1, <2>2, <2>3 DEF Phase
<1>4. CASE op.asset # Assets
  <2>1. op' = [op EXCEPT !.phase = "open", !.asset = op.asset + 1]
    BY <1>4 DEF Files!NextAsset
  <2>2. op' = [phase |-> "open", plan |-> op.plan, asset |-> op.asset + 1, cancelled |-> op.cancelled]
    BY <1>1, <2>1
  <2>3. op.asset + 1 \in 1 .. Assets /\ (op.asset + 1) - 1 = op.asset
    BY <1>1, <1>4
  <2>4. Past' = 1 .. op.asset
    BY <2>2, <2>3 DEF Past
  <2>5. op' \in [phase : Phase, plan : 0 .. MaxPlan, asset : 1 .. Assets, cancelled : BOOLEAN]
    BY <1>1, <2>2, <2>3 DEF Phase
  <2> QED
    BY <1>2, <2>2, <2>4, <2>5
<1> QED
  BY <1>3, <1>4

\* An asset is taken: the record is stored as it stands.
LEMMA AssetTaken ==
    ASSUME Files!RegistryAssumption, RegistryIInv, op.phase \in {"open", "body"},
           Len(staging.files[op.asset]) = Pieces, Files!Accepted(op.asset, op.plan),
           op' = Files!NextAsset, recorded' = rec,
           UNCHANGED <<plan, staging, final, rec, del, fileFaults, fileCrashes>>
    PROVE  RegistryIInv'
<1>1. op.phase \in Transfer /\ op.asset \in 1 .. Assets
  BY DEF Transfer, RegistryIInv, RegistryTypeOK
<1>2. Files!Whole(staging.files[op.asset], op.plan)
  BY <1>1, AcceptedIsWhole
<1>3. /\ op' \in [phase : Phase, plan : 0 .. MaxPlan, asset : 1 .. Assets, cancelled : BOOLEAN]
      /\ op'.phase \in {"open", "verify"} /\ op'.plan = op.plan
      /\ \A a \in Past' : Files!Whole(staging.files[a], op.plan)
  BY <1>2, NextAssetFacts
<1>4. rec.status = "downloading" /\ rec.status # "ready"
  BY DEF RegistryIInv, RecordsOK
<1>5. RegistryTypeOK'
  BY <1>3 DEF RegistryIInv, RegistryTypeOK
<1>6. StagingOK'
  BY DEF RegistryIInv, StagingOK
<1>7. TransferOK'
  BY <1>1, <1>3 DEF RegistryIInv, TransferOK
<1>8. RecordsOK'
  BY <1>3, <1>4 DEF RegistryIInv, RecordsOK
<1>9. FinalOK'
  BY <1>3, <1>4 DEF FinalOK
<1> QED
  BY <1>5, <1>6, <1>7, <1>8, <1>9 DEF RegistryIInv

\* Neither what a transfer adds nor what it throws away touches the assets gone past.
LEMMA TransferGoesOn ==
    ASSUME Files!RegistryAssumption, RegistryIInv, op.phase \in {"open", "body"},
           op' \in {op, [op EXCEPT !.phase = "body"]},
           staging' \in Directory, StagingOK', staging'.doc = staging.doc,
           \A b \in 1 .. Assets : b # op.asset => staging'.files[b] = staging.files[b],
           rec' = [rec EXCEPT !.bytes = Files!Staged(staging')], fileFaults' \in Nat,
           UNCHANGED <<plan, final, recorded, del, fileCrashes>>
    PROVE  RegistryIInv'
<1>1. /\ op.phase \in Transfer /\ op.asset \in 1 .. Assets /\ Assets \in Nat
      /\ op \in [phase : Phase, plan : 0 .. MaxPlan, asset : 1 .. Assets, cancelled : BOOLEAN]
  BY DEF Transfer, RegistryIInv, RegistryTypeOK, Files!RegistryAssumption
<1>2. /\ op' \in [phase : Phase, plan : 0 .. MaxPlan, asset : 1 .. Assets, cancelled : BOOLEAN]
      /\ op'.phase \in {"open", "body"} /\ op'.plan = op.plan /\ op'.asset = op.asset
  BY <1>1 DEF Phase
<1>3. /\ rec' \in Record /\ rec'.status = rec.status /\ rec'.bytes = Files!Staged(staging')
      /\ rec.status = "downloading"
  <2>1. Files!Staged(staging') \in 0 .. Files!Total
    BY StagedRange
  <2>2. rec \in Record /\ rec.status = "downloading"
    BY DEF RegistryIInv, RegistryTypeOK, RecordsOK
  <2> HIDE DEF Files!Staged
  <2> QED
    BY <2>1, <2>2 DEF Record
<1>4. RegistryTypeOK'
  BY <1>2, <1>3 DEF RegistryIInv, RegistryTypeOK
<1>5. TransferOK'
  <2>1. /\ Past = 1 .. op.asset - 1 /\ Past' = 1 .. op.asset - 1
        /\ \A a \in Past : a \in 1 .. Assets /\ a # op.asset
    BY <1>1, <1>2 DEF Past
  <2>2. \A a \in Past' : Files!Whole(staging'.files[a], op'.plan)
    BY <1>1, <1>2, <2>1 DEF RegistryIInv, TransferOK
  <2> QED
    BY <1>1, <1>2, <1>3, <2>2 DEF RegistryIInv, TransferOK
<1>6. RecordsOK'
  <2>1. recorded.status # "ready"
    BY <1>3 DEF RegistryIInv, RecordsOK
  <2> QED
    BY <1>1, <1>2, <1>3, <2>1 DEF RegistryIInv, RecordsOK, Transfer
<1>7. FinalOK'
  BY <1>2, <1>3 DEF FinalOK
<1> QED
  BY <1>4, <1>5, <1>6, <1>7 DEF RegistryIInv

\* Reset keeps the count of what is staged.
LEMMA ResetCounts ==
    ASSUME Files!RegistryAssumption, RegistryIInv, op.phase \in Transfer,
           NEW a \in 1 .. Assets, Files!Reset(a)
    PROVE  rec' = [rec EXCEPT !.bytes = Files!Staged(staging')]
<1>1. rec.bytes = Files!Staged(staging)
  BY DEF RegistryIInv, TransferOK
<1>2. Files!Staged(staging) - Len(staging.files[a]) = Files!Staged(staging')
  BY ResetFacts DEF Files!Reset
<1>3. rec' = [rec EXCEPT !.bytes = rec.bytes - Len(staging.files[a])]
  BY DEF Files!Reset
<1> QED
  BY <1>1, <1>2, <1>3

LEMMA ResetGoesOn ==
    ASSUME Files!RegistryAssumption, RegistryIInv, op.phase \in {"open", "body"},
           op' \in {op, [op EXCEPT !.phase = "body"]}, Files!Reset(op.asset), fileFaults' \in Nat,
           UNCHANGED <<plan, final, recorded, del, fileCrashes>>
    PROVE  RegistryIInv'
<1>1. op.phase \in Transfer
  BY DEF Transfer
<1>2. PICK a \in 1 .. Assets : a = op.asset
  BY DEF RegistryIInv, RegistryTypeOK
<1>3. staging' = [staging EXCEPT !.files[a] = <<>>] /\ Files!Reset(a)
  BY <1>2 DEF Files!Reset
<1>4. rec' = [rec EXCEPT !.bytes = Files!Staged(staging')]
  BY <1>1, <1>3, ResetCounts
<1>5. /\ staging' \in Directory /\ StagingOK' /\ staging'.doc = staging.doc
      /\ \A b \in 1 .. Assets : b # op.asset => staging'.files[b] = staging.files[b]
  BY <1>2, <1>3, ResetFacts
<1> QED
  BY <1>4, <1>5, TransferGoesOn

LEMMA AnsweredWholeStep ==
    ASSUME Files!RegistryAssumption, RegistryIInv, Files!AnsweredWhole
    PROVE  RegistryIInv'
<1>1. fileFaults' \in Nat
  BY DEF Files!AnsweredWhole, Files!Fault, RegistryIInv, RegistryTypeOK
<1> QED
  BY <1>1, ResetGoesOn DEF Files!AnsweredWhole

LEMMA OpenAssetStep ==
    ASSUME Files!RegistryAssumption, RegistryIInv, Files!OpenAsset
    PROVE  RegistryIInv'
<1>1. /\ op.phase = "open" /\ op.asset \in 1 .. Assets
      /\ UNCHANGED <<plan, final, del, fileFaults, fileCrashes>> /\ fileFaults' \in Nat
  BY DEF Files!OpenAsset, RegistryIInv, RegistryTypeOK
<1>2. CASE Len(staging.files[op.asset]) < Pieces
  <2>1. op' = [op EXCEPT !.phase = "body"] /\ UNCHANGED <<staging, rec, recorded>>
    BY <1>2 DEF Files!OpenAsset
  <2>2. RegistryTypeOK' /\ StagingOK'
    BY <1>1, <2>1 DEF RegistryIInv, RegistryTypeOK, StagingOK, Phase
  <2>3. op'.phase = "body" /\ op'.plan = op.plan /\ op'.asset = op.asset
    BY <2>1 DEF RegistryIInv, RegistryTypeOK
  <2>4. TransferOK'
    BY <1>1, <2>1, <2>3 DEF RegistryIInv, TransferOK, Transfer, Past
  <2>5. RecordsOK' /\ FinalOK'
    BY <1>1, <2>1, <2>3 DEF RegistryIInv, RecordsOK, FinalOK
  <2> QED
    BY <2>2, <2>4, <2>5 DEF RegistryIInv
<1>3. CASE ~(Len(staging.files[op.asset]) < Pieces) /\ Files!Accepted(op.asset, op.plan)
  <2>1. Len(staging.files[op.asset]) = Pieces
    BY <1>1, <1>3, StagingTyped DEF Files!RegistryAssumption
  <2>2. op' = Files!NextAsset /\ recorded' = rec /\ UNCHANGED <<staging, rec>>
    BY <1>3 DEF Files!OpenAsset
  <2> QED
    BY <1>1, <1>3, <2>1, <2>2, AssetTaken
<1>4. CASE ~(Len(staging.files[op.asset]) < Pieces) /\ ~Files!Accepted(op.asset, op.plan)
  <2>1. Files!Reset(op.asset) /\ op' = [op EXCEPT !.phase = "body"] /\ UNCHANGED recorded
    BY <1>4 DEF Files!OpenAsset
  <2> QED
    BY <1>1, <2>1, ResetGoesOn
<1> QED
  BY <1>2, <1>3, <1>4

LEMMA PieceStep ==
    ASSUME Files!RegistryAssumption, RegistryIInv, Files!Piece
    PROVE  RegistryIInv'
<1>1. /\ op.phase = "body" /\ Len(staging.files[op.asset]) < Pieces
      /\ UNCHANGED <<plan, final, recorded, op, del, fileCrashes>>
  BY DEF Files!Piece
<1>2. PICK a \in 1 .. Assets : a = op.asset
  BY DEF RegistryIInv, RegistryTypeOK
<1>3. PICK piece \in {op.plan, 0} :
        /\ piece = 0 => op.asset \in Pinned
        /\ fileFaults' \in Nat
        /\ staging' = [staging EXCEPT !.files[op.asset] = Append(@, piece)]
        /\ rec' = [rec EXCEPT !.bytes = rec.bytes + 1]
  <2>1. PICK piece \in {op.plan, 0} :
          /\ IF piece = 0 THEN op.asset \in Pinned /\ Files!Fault ELSE UNCHANGED fileFaults
          /\ staging' = [staging EXCEPT !.files[op.asset] = Append(@, piece)]
          /\ rec' = [rec EXCEPT !.bytes = rec.bytes + 1]
    BY Zenon DEF Files!Piece
  <2>2. fileFaults' \in Nat /\ (piece = 0 => op.asset \in Pinned)
    BY <2>1 DEF Files!Fault, RegistryIInv, RegistryTypeOK
  <2> QED
    BY <2>1, <2>2, Zenon
<1>4. staging.doc = op.plan /\ op.plan \in 1 .. MaxPlan /\ rec.bytes = Files!Staged(staging)
  BY <1>1 DEF RegistryIInv, TransferOK, Transfer
<1>5. /\ piece \in 0 .. MaxPlan /\ Len(staging.files[a]) < Pieces
      /\ piece = staging.doc \/ (piece = 0 /\ a \in Pinned)
  BY <1>1, <1>2, <1>3, <1>4 DEF Files!RegistryAssumption
<1>6. /\ staging' \in Directory /\ StagingOK' /\ staging'.doc = staging.doc
      /\ \A b \in 1 .. Assets : b # a => staging'.files[b] = staging.files[b]
      /\ Files!Staged(staging) + 1 = Files!Staged(staging')
  <2>1. staging' = [staging EXCEPT !.files[a] = Append(@, piece)]
    BY <1>2, <1>3, Zenon
  <2> QED
    BY <1>5, <2>1, AppendFacts
<1>7. rec' = [rec EXCEPT !.bytes = Files!Staged(staging')]
  BY <1>3, <1>4, <1>6
<1> QED
  BY <1>1, <1>2, <1>3, <1>6, <1>7, TransferGoesOn

LEMMA AssetDoneStep ==
    ASSUME Files!RegistryAssumption, RegistryIInv, Files!AssetDone
    PROVE  RegistryIInv'
<1>1. /\ op.phase = "body" /\ op.phase \in Transfer /\ Len(staging.files[op.asset]) = Pieces
      /\ UNCHANGED <<plan, final, del, fileCrashes>>
  BY DEF Files!AssetDone, Transfer
<1>2. PICK a \in 1 .. Assets : a = op.asset
  BY DEF RegistryIInv, RegistryTypeOK
<1>3. CASE Files!Accepted(op.asset, op.plan)
  BY <1>1, <1>3, AssetTaken DEF Files!AssetDone
<1>4. CASE ~Files!Accepted(op.asset, op.plan)
  <2>1. PICK status \in {"paused", "error"} :
          /\ staging' = [staging EXCEPT !.files[op.asset] = <<>>]
          /\ rec' = [rec EXCEPT !.bytes = rec.bytes - Pieces, !.status = status]
          /\ (recorded' = rec' /\ UNCHANGED fileFaults) \/ (Files!Fault /\ UNCHANGED recorded)
          /\ op' = Files!NoOp
    <3>1. PICK status : status = IF op.cancelled THEN "paused" ELSE "error"
      OBVIOUS
    <3>2. status \in {"paused", "error"}
      BY <3>1
    <3>3. /\ staging' = [staging EXCEPT !.files[op.asset] = <<>>]
          /\ rec' = [rec EXCEPT !.bytes = rec.bytes - Pieces, !.status = status]
          /\ (recorded' = rec' /\ UNCHANGED fileFaults) \/ (Files!Fault /\ UNCHANGED recorded)
          /\ op' = Files!NoOp
      BY <1>4, <3>1 DEF Files!AssetDone
    <3> QED
      BY <3>2, <3>3, Zenon
  <2>2. /\ staging' \in Directory /\ StagingOK'
        /\ Files!Staged(staging) - Pieces = Files!Staged(staging') /\ Files!Staged(staging') \in 0 .. Files!Total
    <3>1. staging' = [staging EXCEPT !.files[a] = <<>>]
      BY <1>2, <2>1, Zenon
    <3> QED
      BY <1>1, <1>2, <3>1, ResetFacts
  <2>3. rec.bytes - Pieces \in 0 .. Files!Total
    BY <1>1, <2>2 DEF RegistryIInv, TransferOK
  <2>4. rec' \in Record /\ rec'.status = status
    <3>1. rec \in Record /\ status \in Status
      BY DEF RegistryIInv, RegistryTypeOK, Status
    <3> DEFINE q == [rec EXCEPT !.bytes = rec.bytes - Pieces]
    <3>2. q \in Record
      BY <2>3, <3>1 DEF Record
    <3>3. rec' = [q EXCEPT !.status = status]
      BY <2>1
    <3> HIDE DEF q
    <3> QED
      BY <3>1, <3>2, <3>3 DEF Record
  <2>5. op'.phase = "idle"
    BY <2>1 DEF Files!NoOp
  <2>6. RegistryTypeOK'
    <3>1. recorded' \in {recorded, rec'} /\ fileFaults' \in Nat
      BY <2>1 DEF Files!Fault, RegistryIInv, RegistryTypeOK
    <3> QED
      BY <1>1, <2>1, <2>2, <2>4, <3>1, NoOpTyped DEF RegistryIInv, RegistryTypeOK
  <2>7. TransferOK'
    BY <2>5 DEF TransferOK, Transfer
  <2>8. RecordsOK'
    BY <1>1, <2>1, <2>4, <2>5 DEF RegistryIInv, RecordsOK
  <2>9. FinalOK'
    BY <2>4, <2>5 DEF FinalOK
  <2> QED
    BY <2>2, <2>6, <2>7, <2>8, <2>9 DEF RegistryIInv
<1> QED
  BY <1>3, <1>4

LEMMA FilesCrashStep ==
    ASSUME Files!RegistryAssumption, RegistryIInv, Files!Crash
    PROVE  RegistryIInv'
<1>1. /\ rec' = Files!Loaded /\ recorded' = Files!Loaded /\ op' = Files!NoOp /\ del' = "idle"
      /\ UNCHANGED <<final, fileFaults>> /\ staging' \in {staging, Files!Empty}
      /\ fileCrashes' \in Nat /\ plan' \in 1 .. MaxPlan
      /\ StopsInDeletion \/ ~(recorded.status = "ready" /\ rec.status = "error")
  BY DEF Files!Crash, RegistryIInv, RegistryTypeOK, Files!RegistryAssumption
<1>2. op'.phase = "idle"
  BY <1>1 DEF Files!NoOp
<1>3. staging' \in Directory /\ StagingOK'
  BY <1>1, EmptyDirectory DEF RegistryIInv, RegistryTypeOK, StagingOK
<1>4. /\ Files!Loaded \in Record /\ Files!Loaded.status # "downloading"
      /\ Files!Loaded.status = "none" => Files!Loaded = Files!NoRec
      /\ Files!Loaded.status = "ready" => Files!Loaded = recorded
  <2>1. Files!Staged(staging) \in 0 .. Files!Total /\ 0 \in 0 .. Files!Total /\ 0 \in 0 .. MaxPlan
    BY StagedRange DEF Files!RegistryAssumption
  <2>2. recorded \in Record
    BY DEF RegistryIInv, RegistryTypeOK
  <2>3. CASE recorded.status = "none"
    BY <2>1, <2>3 DEF Files!Loaded, Files!NoRec, Record, Status
  <2>4. CASE recorded.status = "ready" /\ final.manifest = recorded.manifest
    BY <2>2, <2>4 DEF Files!Loaded
  <2>5. CASE recorded.status = "ready" /\ final.manifest # recorded.manifest
    <3>1. Files!Loaded = [status |-> "error", bytes |-> Files!Staged(staging), manifest |-> 0]
      BY <2>5 DEF Files!Loaded
    <3> QED
      BY <2>1, <3>1 DEF Record, Status
  <2>6. CASE recorded.status \notin {"none", "ready"}
    <3> DEFINE s == IF recorded.status = "downloading" THEN "paused" ELSE recorded.status
    <3>1. Files!Loaded = [status |-> s, bytes |-> Files!Staged(staging), manifest |-> 0]
      BY <2>6 DEF Files!Loaded
    <3>2. s \in Status \ {"downloading", "none", "ready"}
      BY <2>2, <2>6 DEF Record, Status
    <3> HIDE DEF s
    <3> QED
      BY <2>1, <3>1, <3>2 DEF Record
  <2> QED
    BY <2>3, <2>4, <2>5, <2>6
<1>5. RegistryTypeOK'
  BY <1>1, <1>3, <1>4, NoOpTyped DEF RegistryIInv, RegistryTypeOK
<1>6. TransferOK'
  BY <1>2 DEF TransferOK, Transfer
<1>7. RecordsOK'
  BY <1>1, <1>2, <1>4 DEF RecordsOK, Files!NoRec
<1>8. FinalOK'
  <2>1. SUFFICES ASSUME ~StopsInDeletion, rec'.status = "ready"
                 PROVE  HoldsPlan(final', rec'.manifest)
    BY <1>2 DEF FinalOK
  <2>2. rec' = recorded /\ recorded.status = "ready"
    BY <1>1, <1>4, <2>1
  <2>3. rec = recorded
    BY <1>1, <2>1, <2>2 DEF RegistryIInv, RecordsOK
  <2> QED
    BY <1>1, <2>1, <2>2, <2>3 DEF RegistryIInv, FinalOK
<1> QED
  BY <1>3, <1>5, <1>6, <1>7, <1>8 DEF RegistryIInv

-----------------------------------------------------------------------------
LEMMA RegistryInit ==
    ASSUME Files!RegistryAssumption, Files!Init
    PROVE  RegistryIInv
<1>1. /\ plan \in 1 .. MaxPlan /\ fileFaults \in Nat /\ fileCrashes \in Nat
      /\ op = Files!NoOp /\ op.phase = "idle" /\ rec = Files!NoRec /\ recorded = Files!NoRec /\ del = "idle"
      /\ staging = Files!Empty /\ final = Files!Empty
  BY DEF Files!Init, Files!NoOp, Files!RegistryAssumption
<1>2. Files!NoRec \in Record /\ Files!NoRec.status = "none"
  <2>1. Files!Total \in Nat
    BY StagedRange
  <2> QED
    BY <2>1 DEF Files!NoRec, Record, Status, Files!RegistryAssumption
<1>3. RegistryTypeOK
  BY <1>1, <1>2, NoOpTyped, EmptyDirectory DEF RegistryTypeOK
<1>4. StagingOK
  BY <1>1, EmptyDirectory DEF StagingOK
<1>5. TransferOK /\ RecordsOK /\ FinalOK
  BY <1>1, <1>2 DEF TransferOK, RecordsOK, FinalOK, Transfer
<1> QED
  BY <1>3, <1>4, <1>5 DEF RegistryIInv

LEMMA RegistryNext ==
    ASSUME Files!RegistryAssumption, RegistryIInv, Files!Next
    PROVE  RegistryIInv'
BY InstallStep, StartedStep, OpenAssetStep, PieceStep, AssetDoneStep, VerifyStep,
   PublishStep, FinishReadyStep, AnsweredWholeStep, InterruptedStep, PauseStep,
   DeleteBeginStep, DeleteInvalidateStep, DeleteFilesStep, DeleteRecordStep,
   DeleteEntriesStep, DeleteFailsStep, FilesCrashStep
   DEF Files!Next, Files!Downloads, Files!Deletion

LEMMA RegistryStutter ==
    ASSUME RegistryIInv, UNCHANGED Files!vars
    PROVE  RegistryIInv'
<1>1. RegistryTypeOK' /\ StagingOK'
  BY DEF Files!vars, RegistryIInv, RegistryTypeOK, StagingOK
<1>2. TransferOK'
  BY DEF Files!vars, RegistryIInv, TransferOK, Past
<1>3. RecordsOK' /\ FinalOK'
  BY DEF Files!vars, RegistryIInv, RecordsOK, FinalOK
<1> QED
  BY <1>1, <1>2, <1>3 DEF RegistryIInv

LEMMA RegistryImplies ==
    ASSUME Files!RegistryAssumption, RegistryIInv
    PROVE  Files!RegistryInv /\ (~StopsInDeletion => Files!ReadyIsWhole)
<1>1. Files!RegistryInv
  BY DEF RegistryIInv, RegistryTypeOK, Record, Status, RecordsOK, TransferOK, Transfer,
         Files!RegistryInv, Files!NoRec
<1>2. ~StopsInDeletion => Files!ReadyIsWhole
  BY DEF RegistryIInv, FinalOK, HoldsPlan, Files!ReadyIsWhole
<1> QED
  BY <1>1, <1>2
-----------------------------------------------------------------------------
\* The parts side by side.
CoreIInv == WorkerIInv /\ RegistryIInv /\ RawInv

LEMMA CoreInitial == CoreInit => CoreIInv
BY CoreAssumption, WorkerInit, RegistryInit, InitRawInv DEF CoreInit, CoreIInv

LEMMA CoreStep == CoreIInv /\ [CoreNext]_coreVars => CoreIInv'
<1> SUFFICES ASSUME CoreIInv, [CoreNext]_coreVars PROVE CoreIInv'
  OBVIOUS
<1> USE CoreAssumption DEF CoreIInv
<1>1. (UNCHANGED workerVars => WorkerIInv') /\ (Next => WorkerIInv')
  BY WorkerNext, WorkerStutter DEF workerVars
<1>2. (UNCHANGED fileVars => RegistryIInv') /\ (Files!Next => RegistryIInv')
  BY RegistryNext, RegistryStutter DEF fileVars, Files!vars
<1>3. (UNCHANGED rawVars => RawInv') /\ (Raw!Next => RawInv')
  BY RawNext, RawStutter DEF rawVars, Raw!vars
<1>4. QED
  BY <1>1, <1>2, <1>3 DEF CoreNext, WorkerSteps, FilesStep, RawSteps, coreVars

LEMMA CoreInvariant == CoreSpec => []CoreIInv
BY CoreInitial, CoreStep, PTL DEF CoreSpec

\* The records of a model agree with the transfer that runs, and no worker
\* process is lost, whatever the other parts do meanwhile
\* (privacymodel/registry.go, privacyworker/client.go and handover.go).
THEOREM ModelsAreTracked == CoreSpec => []ModelsInv
<1>1. CoreIInv => ModelsInv
  BY CoreAssumption, RegistryImplies, WorkerImplies DEF CoreIInv, ModelsInv
<1>2. QED
  BY <1>1, CoreInvariant, PTL

\* A model that is recorded as ready is there, whole and of one plan, through
\* failures, pauses and crashes of the download, as long as Core does not stop
\* within the deletion of a ready model (registry.go, completeDeletion: the
\* record in the store is removed after the files).
THEOREM ReadyModelsAreWhole == ASSUME ~StopsInDeletion PROVE CoreSpec => []ReadyIsWhole
<1>1. CoreIInv => ReadyIsWhole
  BY CoreAssumption, RegistryImplies DEF CoreIInv, ReadyIsWhole
<1>2. QED
  BY <1>1, CoreInvariant, PTL

\* An inspection is given up only for something that happened to it
\* (Handover.Detect), also next to the other parts.
THEOREM InspectionsGoThrough == CoreSpec => []RefusedForCause
<1>1. CoreIInv => RefusedForCause
  BY CoreAssumption, WorkerImplies DEF CoreIInv
<1>2. QED
  BY <1>1, CoreInvariant, PTL

\* A sealed part names the key there is, so that the password opens it
\* (raw_sealing_store.go keeps one row of raw_sealing_keys).
THEOREM SealedIsOpenable == CoreSpec => []SealingInv
<1>1. CoreIInv => SealingInv
  BY RawImplies DEF CoreIInv, SealingInv
<1>2. QED
  BY <1>1, CoreInvariant, PTL

\* A raw part under the audit key is moved or dropped by something that runs,
\* but for what a start that clears the password leaves behind.
THEOREM RawPartsAreMoved == CoreSpec => []RawIsNotLeftUnderAudit
<1>1. CoreIInv => RawIsNotLeftUnderAudit
  BY RawImplies DEF CoreIInv, RawIsNotLeftUnderAudit
<1>2. QED
  BY <1>1, CoreInvariant, PTL

\* What was withheld stays withheld, also under a recapture, a pass that read
\* the part before, and a crash; and no older capture comes back
\* (applyReseal of raw_sealing_store.go).
THEOREM WithheldStaysWithheld == CoreSpec => RawIsSticky
<1>1. CoreIInv /\ [CoreNext]_coreVars => [Raw!PartsStick]_(Raw!vars)
  <2> SUFFICES ASSUME CoreIInv, [CoreNext]_coreVars PROVE [Raw!PartsStick]_(Raw!vars)
    OBVIOUS
  <2>1. [Raw!Next]_(Raw!vars)
    BY DEF CoreNext, WorkerSteps, FilesStep, RawSteps, coreVars, rawVars, Raw!vars
  <2>2. QED
    BY <2>1, RawSticks DEF CoreIInv
<1>2. QED
  BY <1>1, CoreInvariant, PTL DEF CoreSpec, RawIsSticky, Raw!RawIsSticky
=============================================================================
